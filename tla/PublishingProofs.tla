-------------------------- MODULE PublishingProofs --------------------------
(***************************************************************************)
(* Proofs about Publishing, for every value of its constants.              *)
(***************************************************************************)
EXTENDS Publishing, FiniteSetTheorems, TLAPS

(* What the type invariant rests on: every URI the bot holds is one of an
   existing post. *)
UrisExist ==
    /\ \A a \in attempts : a.uri \in DOMAIN posts
    /\ pc = "record" /\ result.ok => result.uri \in DOMAIN posts

TInv == TypeOK /\ UrisExist

LEMMA InitTInv == Init => TInv
  BY PublishingAssumption
  DEF Init, TInv, TypeOK, RowTypes, TickTypes, UrisExist, Live, Id, State,
      NoPlan, NoResult, NoPost, Post, Result

(* What the parts of an action do to the types of the variables they assign. *)
LEMMA DeletedRowTypes ==
  ASSUME TInv, NEW id \in Id, DeleteRow(id), UNCHANGED <<tick, posts>>,
         cutoff' \in Nat, clock' \in Nat, faults' \in Nat, edits' \in Nat
  PROVE  TInv'
  <1> USE DEF TInv, TypeOK, UrisExist, DeleteRow, tick
  <1>1. RowTypes'
    BY DEF RowTypes, Live
  <1>2. TickTypes'
    BY DEF TickTypes
  <1>3. forgotten' \subseteq DOMAIN posts
    BY DEF UrisOf
  <1> QED
    BY <1>1, <1>2, <1>3

LEMMA MovedOnTypes ==
  ASSUME TInv,
         LeaveBoard \/ (cur \in Id /\ (TryNext(0) \/ CountFailure))
  PROVE  TickTypes' /\ pc' # "record"
  <1> USE PublishingAssumption
      DEF TInv, TypeOK, TickTypes, LeaveBoard, TryNext, NoPlan, NoResult, NoPost, Post, Result
  <1>1. CASE LeaveBoard
    BY <1>1
  <1>2. ASSUME cur \in Id, NEW n \in 0 .. 1, TryNext(n)
        PROVE  TickTypes' /\ pc' # "record"
    BY <1>2
  <1> QED
    BY <1>1, <1>2 DEF CountFailure

(* The dispatcher gives the row it has a new state, if it is still there. *)
LEMMA RestatedRowTypes ==
  ASSUME TInv, NEW s \in State, cur \in Id, UNCHANGED <<owner, links, intake>>,
         state' = IF cur \in Live THEN [state EXCEPT ![cur] = s] ELSE state
  PROVE  RowTypes'
  <1>1. \A id \in Id : state'[id] # "absent" <=> state[id] # "absent"
    BY DEF TInv, TypeOK, RowTypes, Live, State
  <1> QED
    BY <1>1 DEF TInv, TypeOK, RowTypes, Live

LEMMA AddedAttemptTypes ==
  ASSUME TInv, NEW a \in Attempt, a.uri \in DOMAIN posts, AddAttempt(a)
  PROVE  /\ attempts' \subseteq Attempt /\ clock' \in Nat
         /\ \A x \in attempts' : x.uri \in DOMAIN posts
  BY DEF TInv, TypeOK, UrisExist, AddAttempt

LEMMA CuratorsTInv == TInv /\ Curators => TInv'
  <1> SUFFICES ASSUME TInv, NEW id \in Id,
                      \/ \E m \in Message : Create(m, id)
                      \/ Ingest(id) \/ Screen(id) \/ ThreadFails(id)
                      \/ Confirm(id) \/ Remove(id) \/ Requeue(id)
                      \/ \E new \in SUBSET Url : AddLinks(id, new)
                      \/ \E old, new \in Url : ReplaceLink(id, old, new)
               PROVE  TInv'
    BY DEF Curators
  <1> USE PublishingAssumption
      DEF TInv, TypeOK, RowTypes, TickTypes, UrisExist, Live, State, rows, tick, env
  <1>1. CASE \E m \in Message : Create(m, id)
    BY <1>1 DEF Create
  <1>2. CASE Ingest(id)
    BY <1>2 DEF Ingest
  <1>3. CASE Screen(id)
    <2>1. CASE Duplicated(id)
      <3>1. DeleteRow(id) /\ UNCHANGED <<tick, posts, env>>
        BY <1>3, <2>1 DEF Screen
      <3> QED
        BY <3>1, DeletedRowTypes
    <2>2. CASE ~Duplicated(id)
      BY <1>3, <2>2 DEF Screen
    <2> QED
      BY <2>1, <2>2
  <1>4. CASE ThreadFails(id)
    BY <1>4 DEF ThreadFails
  <1>5. CASE Confirm(id)
    BY <1>5 DEF Confirm
  <1>6. CASE Remove(id)
    BY <1>6, DeletedRowTypes DEF Remove
  <1>7. CASE Requeue(id)
    BY <1>7 DEF Requeue
  <1>8. CASE \E new \in SUBSET Url : AddLinks(id, new)
    BY <1>8 DEF AddLinks
  <1>9. CASE \E old, new \in Url : ReplaceLink(id, old, new)
    BY <1>9 DEF ReplaceLink, UrisOf
  <1> QED
    BY <1>1, <1>2, <1>3, <1>4, <1>5, <1>6, <1>7, <1>8, <1>9

LEMMA DispatcherTInv == TInv /\ Dispatcher => TInv'
  <1> SUFFICES ASSUME TInv, Dispatcher PROVE TInv'
    OBVIOUS
  <1> USE DEF TInv, TypeOK, UrisExist, rows, tick, env
  <1>a. ASSUME UNCHANGED rows PROVE RowTypes'
    BY <1>a DEF RowTypes, Live
  <1>b. pc \in {"picked", "network", "record"} => cur \in Id
    BY DEF TickTypes
  <1>1. CASE StartTick
    BY <1>1, <1>a DEF StartTick, TickTypes
  <1>2. CASE EndTick
    BY <1>2, <1>a DEF EndTick, TickTypes
  <1>3. CASE GiveUp
    BY <1>3, <1>a, MovedOnTypes DEF GiveUp
  <1>4. CASE \E b \in Board : OpenBoard(b)
    BY <1>4, <1>a DEF OpenBoard, TickTypes
  <1>5. CASE \E id \in Id : Pick(id)
    BY <1>5, <1>a DEF Pick, TickTypes
  <1>6. CASE Vanished
    BY <1>6, <1>a, <1>b, MovedOnTypes DEF Vanished
  <1>7. CASE MissingPassword
    <2>1. RowTypes'
      BY <1>7, RestatedRowTypes DEF MissingPassword, TickTypes, State
    <2> QED
      BY <1>7, <2>1, MovedOnTypes DEF MissingPassword
  <1>8. CASE Defer
    BY <1>8, <1>a, <1>b, MovedOnTypes DEF Defer, Configured
  <1>9. CASE Suppress
    <2>1. RowTypes' /\ TickTypes' /\ pc' # "record"
      BY <1>9, RestatedRowTypes, MovedOnTypes DEF Suppress, Configured, TickTypes, State
    <2>2. attempts' \subseteq Attempt /\ clock' \in Nat /\ \A a \in attempts' : a.uri \in DOMAIN posts
      <3>1. PICK a \in attempts :
                AddAttempt([n |-> clock, sub |-> cur, real |-> FALSE,
                            uri |-> a.uri, root |-> a.root, age |-> 0])
        BY <1>9 DEF Suppress, Newest, PriorPosts
      <3>2. [n |-> clock, sub |-> cur, real |-> FALSE,
             uri |-> a.uri, root |-> a.root, age |-> 0] \in Attempt
        BY <1>9, PublishingAssumption DEF Suppress, Configured, TickTypes, Attempt
      <3> QED
        BY <3>1, <3>2, AddedAttemptTypes
    <2> QED
      BY <1>9, <2>1, <2>2 DEF Suppress
  <1>10. CASE PlanPost
    <2>1. plan' \in Post
      <3>1. owner[cur] \in Message /\ links[cur] \in SUBSET Url
        BY <1>10 DEF PlanPost, Configured, RowTypes, TickTypes
      <3>2. ParentAttempts(cur) \subseteq Attempt
        BY DEF ParentAttempts, Newest
      <3> QED
        BY <1>10, <3>1, <3>2 DEF PlanPost, Attempt, Post, NoPost
    <2> QED
      BY <1>10, <1>a, <2>1 DEF PlanPost, Configured, TickTypes
  <1>11. CASE RecordFailure
    <2>1. RowTypes'
      BY <1>11, RestatedRowTypes DEF RecordFailure, FailureState, TickTypes, State
    <2> QED
      BY <1>11, <1>b, <2>1, MovedOnTypes DEF RecordFailure
  <1>12. CASE RecordSuccess
    <2>1. RowTypes' /\ TickTypes' /\ pc' # "record"
      BY <1>12, RestatedRowTypes, MovedOnTypes DEF RecordSuccess, TickTypes, State
    <2>2. attempts' \subseteq Attempt /\ clock' \in Nat /\ \A a \in attempts' : a.uri \in DOMAIN posts
      <3>1. [n |-> clock, sub |-> cur, real |-> TRUE, uri |-> result.uri,
             root |-> IF plan.parent = NoPost THEN result.uri ELSE plan.root,
             age |-> 0] \in Attempt
        BY <1>12, PublishingAssumption DEF RecordSuccess, TickTypes, Attempt, Result, Post
      <3> QED
        BY <1>12, <3>1, AddedAttemptTypes DEF RecordSuccess
    <2>3. forgotten' \subseteq DOMAIN posts'
      BY <1>12 DEF RecordSuccess
    <2> QED
      BY <1>12, <2>1, <2>2, <2>3 DEF RecordSuccess
  <1> QED
    BY <1>1, <1>2, <1>3, <1>4, <1>5, <1>6, <1>7, <1>8, <1>9, <1>10, <1>11, <1>12
       DEF Dispatcher

(* The record is appended; whether the answer arrives only changes result. *)
LEMMA RecordCreated ==
  ASSUME TInv, CreateRecord
  PROVE  /\ NewUri = Len(posts) + 1 /\ NewUri \in Nat \ {0}
         /\ RecordOf(plan) \in Post
         /\ posts' = Append(posts, RecordOf(plan)) /\ posts' \in Seq(Post)
         /\ DOMAIN posts' = DOMAIN posts \cup {NewUri}
         /\ posts'[NewUri] = RecordOf(plan)
         /\ \A u \in DOMAIN posts : posts'[u] = posts[u] /\ u # NewUri
  <1> USE DEF TInv, TypeOK, NewUri
  <1>1. NewUri \in Nat \ {0}
    OBVIOUS
  <1>2. RecordOf(plan) \in Post
    BY <1>1 DEF RecordOf, TickTypes, Post, NoPost
  <1> QED
    BY <1>1, <1>2 DEF CreateRecord

LEMMA BlueskyTInv == TInv /\ Bluesky => TInv'
  <1> SUFFICES ASSUME TInv, Bluesky PROVE TInv'
    OBVIOUS
  <1> USE DEF TInv, TypeOK, UrisExist, rows, tick, env
  <1>a. ASSUME UNCHANGED rows PROVE RowTypes'
    BY <1>a DEF RowTypes, Live
  <1>b. ASSUME NEW r \in Result, pc = "network", Answered(r) PROVE TickTypes'
    BY <1>b DEF Answered, TickTypes
  <1>1. CASE PostCreated
    <2>1. [NoResult EXCEPT !.ok = TRUE, !.uri = NewUri] \in Result
      BY <1>1, RecordCreated DEF PostCreated, NoResult, NoPost, Result
    <2> QED
      BY <1>1, <1>a, <1>b, <2>1, RecordCreated DEF PostCreated, CreateRecord, Answered, NoResult
  <1>2. CASE ResponseLost
    <2>1. [NoResult EXCEPT !.kind = "upstream"] \in Result
      BY DEF NoResult, NoPost, Result
    <2>2. TickTypes' /\ RowTypes' /\ pc' = "record" /\ ~result'.ok
      BY <1>2, <1>a, <1>b, <2>1 DEF ResponseLost, CreateRecord, Answered, NoResult
    <2>3. forgotten' \subseteq DOMAIN posts'
      BY <1>2, RecordCreated DEF ResponseLost
    <2>4. \A a \in attempts' : a.uri \in DOMAIN posts'
      BY <1>2, RecordCreated DEF ResponseLost
    <2> QED
      BY <1>2, <2>2, <2>3, <2>4, RecordCreated DEF ResponseLost
  <1>3. CASE \E k \in {"upstream", "local", "unknown"}, w \in BOOLEAN : PostFails(k, w)
    <2>1. PICK k \in {"upstream", "local", "unknown"}, w \in BOOLEAN : PostFails(k, w)
      BY <1>3
    <2>2. [NoResult EXCEPT !.kind = k, !.wide = w] \in Result
      BY DEF NoResult, NoPost, Result
    <2>3. TickTypes' /\ RowTypes' /\ pc' = "record" /\ ~result'.ok
      BY <2>1, <2>2, <1>a, <1>b DEF PostFails, Answered, NoResult
    <2> QED
      BY <2>1, <2>3 DEF PostFails
  <1> QED
    BY <1>1, <1>2, <1>3 DEF Bluesky

LEMMA OthersTInv == TInv /\ (RecordError \/ Crash \/ Midnight \/ GrowOlder) => TInv'
  <1> SUFFICES ASSUME TInv, RecordError \/ Crash \/ Midnight \/ GrowOlder PROVE TInv'
    OBVIOUS
  <1> USE DEF TInv, TypeOK, UrisExist, rows, tick, env
  <1>a. ASSUME UNCHANGED rows PROVE RowTypes'
    BY <1>a DEF RowTypes, Live
  <1>b. Unrecorded \subseteq DOMAIN posts
    BY DEF Unrecorded
  <1>1. CASE RecordError
    BY <1>1, <1>a, <1>b, MovedOnTypes DEF RecordError
  <1>2. CASE Crash
    <2>1. RowTypes'
      BY <1>2 DEF Crash, RowTypes, Live
    <2>2. TickTypes'
      BY <1>2 DEF Crash, TickTypes, NoPlan, NoResult, NoPost, Post, Result
    <2> QED
      BY <1>2, <1>b, <2>1, <2>2 DEF Crash
  <1>3. CASE Midnight
    <2>1. attempts' \subseteq Attempt /\ \A a \in attempts' : a.uri \in DOMAIN posts
      <3>1. ASSUME NEW a \in Attempt
            PROVE  /\ [a EXCEPT !.age = Smaller(@ + 1, MaxAge)] \in Attempt
                   /\ [a EXCEPT !.age = Smaller(@ + 1, MaxAge)].uri = a.uri
        <4>1. Smaller(a.age + 1, MaxAge) \in 0 .. MaxAge
          BY PublishingAssumption DEF Smaller, Attempt
        <4> QED
          BY <4>1 DEF Attempt
      <3> QED
        BY <1>3, <3>1 DEF Midnight
    <2> QED
      BY <1>3, <1>a, <2>1 DEF Midnight, TickTypes
  <1>4. CASE GrowOlder
    BY <1>4, <1>a DEF GrowOlder, TickTypes
  <1> QED
    BY <1>1, <1>2, <1>3, <1>4

LEMMA StepTInv == TInv /\ [Next]_vars => TInv'
  <1>1. TInv /\ UNCHANGED vars => TInv'
    BY DEF TInv, TypeOK, RowTypes, TickTypes, UrisExist, Live, vars, rows, tick, env
  <1> QED
    BY <1>1, CuratorsTInv, DispatcherTInv, BlueskyTInv, OthersTInv DEF Next

(* Every variable keeps its type, whatever the messages, boards and bounds. *)
THEOREM TypeCorrect == Spec => []TypeOK
  <1>1. Spec => []TInv
    BY InitTInv, StepTInv, PTL DEF Spec
  <1>2. TInv => TypeOK
    BY DEF TInv
  <1> QED
    BY <1>1, <1>2, PTL

(* Every URI that the database or the dispatcher holds is one of an existing post, whether
   its attempt was filed for the post itself or copied from that of a duplicate. *)
THEOREM UrisAreOfPosts == Spec => []UrisExist
  <1>1. TInv => UrisExist
    BY DEF TInv
  <1> QED
    BY <1>1, InitTInv, StepTInv, PTL DEF Spec

----------------------------------------------------------------------------
(* NoDoublePost.  What the duplicate check of beat 1 can see has to cover every
   post the database accounts for, at the moment of the check and until the
   post is made. *)

(* A row that the duplicate check finds by any of the post's links. *)
Found(u) == \E a \in attempts : /\ a.real /\ a.uri = u
                                /\ a.sub \in Live /\ state[a.sub] = "published"
                                /\ posts[u].urls \subseteq links[a.sub]

InFlight(u) == pc = "record" /\ result.ok /\ result.uri = u

AllFound == \A u \in Kept : InFlight(u) \/ Found(u)

(* The dispatcher's own submission is not one that the check would exclude as
   "another". *)
CurUnpublished ==
    pc \in {"picked", "network", "record"} /\ cur \in Live => state[cur] # "published"

(* The outcome of the check holds until the post is made, without the lock. *)
PlanIsNew == pc = "network" => \A u \in Kept : posts[u].urls \cap plan.urls = {}

PlanWasPosted == pc = "record" /\ result.ok => posts[result.uri].urls = plan.urls

DInv == /\ TInv
        /\ AllFound /\ CurUnpublished /\ PlanIsNew /\ PlanWasPosted
        /\ NoDoublePost

LEMMA InitDInv == Init => DInv
  BY InitTInv DEF Init, DInv, AllFound, CurUnpublished, PlanIsNew, PlanWasPosted, NoDoublePost, Kept

(* Steps that leave the dispatcher and Bluesky alone. *)
LEMMA RowsChange ==
  ASSUME DInv, TInv', UNCHANGED <<tick, posts>>, forgotten \subseteq forgotten',
         \A id \in Id : state'[id] = "published" => state[id] = "published",
         \A u \in Kept' : Found(u) => Found(u)'
  PROVE  DInv'
  <1>1. Kept' \subseteq Kept
    BY DEF Kept
  <1>2. AllFound'
    BY <1>1 DEF DInv, AllFound, InFlight, tick
  <1>3. CurUnpublished'
    BY DEF DInv, TInv, TypeOK, TickTypes, CurUnpublished, Live, tick
  <1>4. PlanIsNew' /\ PlanWasPosted' /\ NoDoublePost'
    BY <1>1 DEF DInv, PlanIsNew, PlanWasPosted, NoDoublePost, tick
  <1> QED
    BY <1>2, <1>3, <1>4 DEF DInv

(* A post stays found as long as its row keeps its state and links. *)
LEMMA StaysFound ==
  ASSUME TInv, NEW u \in DOMAIN posts, NEW id \in Id, Found(u), UNCHANGED posts,
         \A i \in Id \ {id} : state'[i] = state[i] /\ links'[i] = links[i],
         \A a \in attempts : a.sub # id => a \in attempts',
         \/ /\ state'[id] = state[id] /\ links[id] \subseteq links'[id]
            /\ attempts \subseteq attempts'
         \/ state[id] # "published"
         \/ u \notin UrisOf(id)
  PROVE  Found(u)'
  <1>1. PICK a \in attempts : /\ a.real /\ a.uri = u
                              /\ a.sub \in Live /\ state[a.sub] = "published"
                              /\ posts[u].urls \subseteq links[a.sub]
    BY DEF Found
  <1>2. CASE a.sub # id
    BY <1>1, <1>2 DEF Found, Live
  <1>3. CASE a.sub = id
    BY <1>1, <1>3 DEF Found, Live, UrisOf
  <1> QED
    BY <1>2, <1>3

LEMMA DeletedRowDInv ==
  ASSUME DInv, TInv', NEW id \in Id, DeleteRow(id), UNCHANGED <<tick, posts>>
  PROVE  DInv'
  <1> USE DEF DInv, TInv, TypeOK, RowTypes
  <1>1. forgotten \subseteq forgotten'
    BY DEF DeleteRow
  <1>2. \A i \in Id : state'[i] = "published" => state[i] = "published"
    BY DEF DeleteRow
  <1>3. \A u \in Kept' : Found(u) => Found(u)'
    <2>1. ASSUME NEW u \in Kept', Found(u) PROVE Found(u)'
      <3>1. u \in DOMAIN posts /\ u \notin UrisOf(id)
        BY DEF Kept, DeleteRow
      <3>2. \A i \in Id \ {id} : state'[i] = state[i] /\ links'[i] = links[i]
        BY DEF DeleteRow
      <3>3. \A a \in attempts : a.sub # id => a \in attempts'
        BY DEF DeleteRow
      <3> QED
        BY <2>1, <3>1, <3>2, <3>3, StaysFound
    <2> QED
      BY <2>1
  <1> QED
    BY <1>1, <1>2, <1>3, RowsChange

LEMMA CuratorsDInv == DInv /\ Curators => DInv'
  <1> SUFFICES ASSUME DInv, TInv', NEW id \in Id,
                      \/ \E m \in Message : Create(m, id)
                      \/ Ingest(id) \/ Screen(id) \/ ThreadFails(id)
                      \/ Confirm(id) \/ Remove(id) \/ Requeue(id)
                      \/ \E new \in SUBSET Url : AddLinks(id, new)
                      \/ \E old, new \in Url : ReplaceLink(id, old, new)
               PROVE  DInv'
    BY CuratorsTInv DEF Curators, DInv
  <1> USE DEF DInv, TInv, TypeOK, RowTypes, Kept, rows, tick, env
  <1>a. ASSUME UNCHANGED <<tick, posts, attempts>>, forgotten \subseteq forgotten',
               \A i \in Id \ {id} : state'[i] = state[i] /\ links'[i] = links[i],
               state'[id] = "published" => state[id] = "published",
               \/ state'[id] = state[id] /\ links[id] \subseteq links'[id]
               \/ state[id] # "published"
        PROVE  DInv'
    <2>1. \A u \in Kept' : Found(u) => Found(u)'
      BY <1>a, StaysFound
    <2> QED
      BY <1>a, <2>1, RowsChange
  <1>1. CASE \E m \in Message : Create(m, id)
    <2>1. PICK m \in Message : Create(m, id)
      BY <1>1
    <2>2. state[id] = "absent"
      <3>1. id \in Live => id < id
        BY <2>1 DEF Create
      <3> QED
        BY <3>1 DEF Id, Live
    <2> QED
      BY <1>a, <2>1, <2>2 DEF Create
  <1>2. CASE Ingest(id)
    BY <1>2, <1>a DEF Ingest
  <1>3. CASE Screen(id)
    <2>1. CASE Duplicated(id)
      BY <1>3, <2>1, DeletedRowDInv DEF Screen
    <2>2. CASE ~Duplicated(id)
      BY <1>3, <2>2, <1>a DEF Screen
    <2> QED
      BY <2>1, <2>2
  <1>4. CASE ThreadFails(id)
    BY <1>4, <1>a DEF ThreadFails
  <1>5. CASE Confirm(id)
    BY <1>5, <1>a DEF Confirm
  <1>6. CASE Remove(id)
    BY <1>6, DeletedRowDInv DEF Remove
  <1>7. CASE Requeue(id)
    BY <1>7, <1>a DEF Requeue
  <1>8. CASE \E new \in SUBSET Url : AddLinks(id, new)
    BY <1>8, <1>a DEF AddLinks
  <1>9. CASE \E old, new \in Url : ReplaceLink(id, old, new)
    <2>1. PICK old, new \in Url : ReplaceLink(id, old, new)
      BY <1>9
    <2>2. \A u \in Kept' : Found(u) => Found(u)'
      <3>1. ASSUME NEW u \in Kept', Found(u) PROVE Found(u)'
        <4>1. PICK a \in attempts : /\ a.real /\ a.uri = u
                                    /\ a.sub \in Live /\ state[a.sub] = "published"
                                    /\ posts[u].urls \subseteq links[a.sub]
          BY <3>1 DEF Found
        <4>2. posts[u].urls \subseteq links'[a.sub]
          <5>1. CASE a.sub = id
            <6>1. u \in UrisOf(id)
              BY <4>1, <5>1 DEF UrisOf
            <6>2. old \notin posts[u].urls
              BY <2>1, <3>1, <6>1 DEF ReplaceLink
            <6> QED
              BY <2>1, <4>1, <5>1, <6>2 DEF ReplaceLink
          <5>2. CASE a.sub # id
            BY <2>1, <4>1, <5>2 DEF ReplaceLink, Live
          <5> QED
            BY <5>1, <5>2
        <4> QED
          BY <2>1, <4>1, <4>2 DEF ReplaceLink, Found, Live
      <3> QED
        BY <3>1
    <2> QED
      BY <2>1, <2>2, RowsChange DEF ReplaceLink
  <1> QED
    BY <1>1, <1>2, <1>3, <1>4, <1>5, <1>6, <1>7, <1>8, <1>9

(* Steps of the dispatcher that only read the tables and make no post. *)
LEMMA DispatcherMoves ==
  ASSUME DInv, TInv', UNCHANGED <<state, links, attempts, posts, forgotten>>,
         pc # "record", pc' \notin {"network", "record"}, CurUnpublished'
  PROVE  DInv'
  BY DEF DInv, AllFound, InFlight, Found, Live, Kept, PlanIsNew, PlanWasPosted, NoDoublePost

(* Steps of the dispatcher that give its own submission a new state; what was
   posted meanwhile is found, or given up. *)
LEMMA OwnRowChanges ==
  ASSUME DInv, TInv', UNCHANGED <<links, posts>>, forgotten \subseteq forgotten',
         attempts \subseteq attempts', pc \in {"picked", "network", "record"},
         pc' \notin {"picked", "network", "record"},
         \A i \in Id \ {cur} : state'[i] = state[i],
         \A u \in Kept' : InFlight(u) => Found(u)'
  PROVE  DInv'
  <1> USE DEF DInv, Kept
  <1>1. \A u \in Kept' : Found(u) => Found(u)'
    <2>1. cur \in Id /\ (state[cur] # "published")
      BY DEF TInv, TypeOK, TickTypes, CurUnpublished, Live
    <2> QED
      BY <2>1, StaysFound
  <1>2. AllFound'
    BY <1>1 DEF AllFound
  <1> QED
    BY <1>2 DEF CurUnpublished, PlanIsNew, PlanWasPosted, NoDoublePost

LEMMA DispatcherDInv == DInv /\ Dispatcher => DInv'
  <1> SUFFICES ASSUME DInv, TInv', Dispatcher PROVE DInv'
    BY DispatcherTInv DEF DInv
  <1> USE DEF rows, env
  <1>a. ASSUME LeaveBoard \/ TryNext(0) \/ CountFailure
        PROVE  pc' \notin {"picked", "network", "record"}
    BY <1>a DEF LeaveBoard, TryNext, CountFailure
  <1>1. CASE StartTick \/ EndTick \/ GiveUp \/ \E b \in Board : OpenBoard(b)
    <2>1. pc \in {"idle", "board", "pick"} /\ pc' \in {"idle", "board", "pick"}
      BY <1>1 DEF StartTick, EndTick, GiveUp, LeaveBoard, OpenBoard
    <2> QED
      BY <1>1, <2>1, DispatcherMoves DEF StartTick, EndTick, GiveUp, OpenBoard, CurUnpublished
  <1>2. CASE \E id \in Id : Pick(id)
    BY <1>2, DispatcherMoves DEF Pick, Candidates, QueueOf, Eligible, CurUnpublished
  <1>3. CASE Vanished \/ Defer
    <2>1. pc = "picked" /\ pc' \notin {"picked", "network", "record"}
      BY <1>3, <1>a DEF Vanished, Defer, Configured
    <2> QED
      BY <1>3, <2>1, DispatcherMoves DEF Vanished, Defer, CurUnpublished
  <1>4. CASE MissingPassword
    <2>1. \A u \in DOMAIN posts : ~InFlight(u)
      BY <1>4 DEF MissingPassword, InFlight
    <2> QED
      BY <1>4, <1>a, <2>1, OwnRowChanges
      DEF MissingPassword, DInv, TInv, TypeOK, RowTypes, Kept
  <1>5. CASE Suppress
    <2>1. \A u \in DOMAIN posts : ~InFlight(u)
      BY <1>5 DEF Suppress, Configured, InFlight
    <2>2. attempts \subseteq attempts'
      BY <1>5 DEF Suppress, AddAttempt
    <2> QED
      BY <1>5, <1>a, <2>1, <2>2, OwnRowChanges
      DEF Suppress, Configured, DInv, TInv, TypeOK, RowTypes, Kept
  <1>6. CASE PlanPost
    <2>1. plan'.urls = links[cur] /\ pc = "picked" /\ cur \in Live /\ cur \in Id
      BY <1>6 DEF PlanPost, Configured, Live
    <2>2. ASSUME NEW q \in Kept, NEW u \in posts[q].urls, u \in links[cur]
          PROVE  FALSE
      <3>1. PICK a \in attempts : /\ a.real /\ a.sub \in Live /\ state[a.sub] = "published"
                                  /\ u \in links[a.sub]
        BY <2>1, <2>2 DEF DInv, AllFound, InFlight, Found
      <3>2. a.sub # cur
        BY <2>1, <3>1 DEF DInv, CurUnpublished
      <3>3. PriorPosts(cur, u) = {}
        BY <1>6, <2>2 DEF PlanPost
      <3> QED
        BY <3>1, <3>2, <3>3 DEF PriorPosts
    <2>3. PlanIsNew'
      BY <1>6, <2>1, <2>2 DEF PlanIsNew, PlanPost, Kept
    <2>4. AllFound' /\ NoDoublePost'
      BY <1>6, <2>1 DEF PlanPost, DInv, AllFound, InFlight, Found, Live, Kept, NoDoublePost
    <2> QED
      BY <1>6, <2>1, <2>3, <2>4 DEF PlanPost, DInv, CurUnpublished, PlanWasPosted, Live
  <1>7. CASE RecordFailure
    <2>1. \A u \in DOMAIN posts : ~InFlight(u)
      BY <1>7 DEF RecordFailure, InFlight
    <2> QED
      BY <1>7, <1>a, <2>1, OwnRowChanges
      DEF RecordFailure, DInv, TInv, TypeOK, RowTypes, Kept
  <1>8. CASE RecordSuccess
    <2>1. attempts \subseteq attempts' /\ forgotten \subseteq forgotten'
      BY <1>8 DEF RecordSuccess, AddAttempt
    <2>2. ASSUME NEW u \in Kept', InFlight(u) PROVE Found(u)'
      <3>1. Accounted /\ u = result.uri
        BY <1>8, <2>2 DEF RecordSuccess, InFlight, Kept
      <3>2. posts[u].urls \subseteq links[cur]
        BY <1>8, <3>1 DEF RecordSuccess, Accounted, DInv, PlanWasPosted
      <3> DEFINE a == [n |-> clock, sub |-> cur, real |-> TRUE, uri |-> result.uri,
                       root |-> IF plan.parent = NoPost THEN result.uri ELSE plan.root,
                       age |-> 0]
      <3>3. a.real /\ a.uri = u /\ a.sub = cur /\ a \in attempts'
        BY <1>8, <3>1 DEF RecordSuccess, AddAttempt
      <3> HIDE DEF a
      <3>4. cur \in Live' /\ state'[cur] = "published"
        BY <1>8, <3>1 DEF RecordSuccess, Accounted, Live, DInv, TInv, TypeOK, RowTypes
      <3> QED
        BY <1>8, <3>2, <3>3, <3>4 DEF RecordSuccess, Found
    <2> QED
      BY <1>8, <1>a, <2>1, <2>2, OwnRowChanges
      DEF RecordSuccess, DInv, TInv, TypeOK, RowTypes
  <1> QED
    BY <1>1, <1>2, <1>3, <1>4, <1>5, <1>6, <1>7, <1>8 DEF Dispatcher

LEMMA BlueskyDInv == DInv /\ Bluesky => DInv'
  <1> SUFFICES ASSUME DInv, TInv', Bluesky PROVE DInv'
    BY BlueskyTInv DEF DInv
  <1> USE DEF rows, env
  <1>a. ASSUME UNCHANGED <<state, links, attempts>>, pc = "network", pc' = "record",
               cur' = cur, plan' = plan, CreateRecord,
               \/ forgotten' = forgotten /\ result'.ok /\ result'.uri = NewUri
               \/ forgotten' = forgotten \cup {NewUri} /\ ~result'.ok
        PROVE  DInv'
    <2>1. RecordOf(plan).urls = plan.urls
      BY DEF RecordOf, DInv, TInv, TypeOK, TickTypes, Post
    <2>2. Kept' \subseteq Kept \cup {NewUri}
      BY <1>a, RecordCreated DEF Kept, DInv
    <2>3. \A u \in Kept : posts'[u] = posts[u] /\ u # NewUri
      BY <1>a, RecordCreated DEF Kept, DInv
    <2>4. posts'[NewUri].urls = plan.urls
      BY <1>a, <2>1, RecordCreated DEF DInv
    <2>5. AllFound'
      BY <1>a, <2>2, <2>3 DEF DInv, AllFound, InFlight, Found, Live, Kept
    <2>6. NoDoublePost'
      BY <1>a, <2>2, <2>3, <2>4 DEF DInv, NoDoublePost, PlanIsNew
    <2> QED
      BY <1>a, <2>4, <2>5, <2>6 DEF DInv, CurUnpublished, PlanIsNew, PlanWasPosted, Live
  <1>1. CASE PostCreated
    BY <1>1, <1>a DEF PostCreated, CreateRecord, Answered, NoResult
  <1>2. CASE ResponseLost
    BY <1>2, <1>a DEF ResponseLost, CreateRecord, Answered, NoResult
  <1>3. CASE \E k \in {"upstream", "local", "unknown"}, w \in BOOLEAN : PostFails(k, w)
    BY <1>3 DEF PostFails, Answered, NoResult, DInv, AllFound, InFlight, Found, Live, Kept,
                CurUnpublished, PlanIsNew, PlanWasPosted, NoDoublePost
  <1> QED
    BY <1>1, <1>2, <1>3 DEF Bluesky

LEMMA OthersDInv == DInv /\ (RecordError \/ Crash \/ Midnight \/ GrowOlder) => DInv'
  <1> SUFFICES ASSUME DInv, TInv', RecordError \/ Crash \/ Midnight \/ GrowOlder PROVE DInv'
    BY OthersTInv DEF DInv
  <1> USE DEF rows, tick, env
  <1>a. ASSUME UNCHANGED <<state, links, attempts, posts>>, pc' \in {"idle", "board"},
               forgotten' = forgotten \cup Unrecorded
        PROVE  DInv'
    <2>1. \A u \in Kept' : u \in Kept /\ ~InFlight(u)
      BY <1>a DEF Kept, Unrecorded, InFlight
    <2> QED
      BY <1>a, <2>1 DEF DInv, AllFound, Found, Live, CurUnpublished, PlanIsNew, PlanWasPosted,
                        NoDoublePost
  <1>1. CASE RecordError \/ Crash
    BY <1>1, <1>a DEF RecordError, Crash, LeaveBoard
  <1>2. CASE Midnight
    <2>1. ASSUME NEW u \in Kept', Found(u) PROVE Found(u)'
      <3>1. PICK a \in attempts : /\ a.real /\ a.uri = u
                                  /\ a.sub \in Live /\ state[a.sub] = "published"
                                  /\ posts[u].urls \subseteq links[a.sub]
        BY <2>1 DEF Found
      <3> DEFINE b == [a EXCEPT !.age = Smaller(@ + 1, MaxAge)]
      <3>3. b.real = a.real /\ b.uri = a.uri /\ b.sub = a.sub
        BY <3>1 DEF DInv, TInv, TypeOK, Attempt
      <3>4. b \in attempts'
        BY <1>2, <3>1 DEF Midnight
      <3> HIDE DEF b
      <3> QED
        BY <1>2, <3>1, <3>3, <3>4 DEF Midnight, Found, Live
    <2>2. AllFound'
      BY <1>2, <2>1 DEF Midnight, DInv, AllFound, InFlight, Kept
    <2> QED
      BY <1>2, <2>2 DEF Midnight, DInv, CurUnpublished, PlanIsNew, PlanWasPosted, NoDoublePost,
                        Live, Kept
  <1>3. CASE GrowOlder
    BY <1>3 DEF GrowOlder, DInv, AllFound, InFlight, Found, Live, Kept,
                CurUnpublished, PlanIsNew, PlanWasPosted, NoDoublePost
  <1> QED
    BY <1>1, <1>2, <1>3

LEMMA StepDInv == DInv /\ [Next]_vars => DInv'
  <1>1. DInv /\ UNCHANGED vars => DInv'
    <2>1. DInv /\ UNCHANGED vars => TInv'
      BY StepTInv DEF DInv
    <2> QED
      BY <2>1 DEF DInv, AllFound, InFlight, Found, Live, Kept, CurUnpublished, PlanIsNew,
                  PlanWasPosted, NoDoublePost, vars, rows, tick, env
  <1> QED
    BY <1>1, CuratorsDInv, DispatcherDInv, BlueskyDInv, OthersDInv DEF Next

(* No link is in two posts that the database accounts for, whatever curators do
   between the duplicate check of beat 1 and the record of beat 3. *)
THEOREM NeverPostedAgain == Spec => []NoDoublePost
  <1>1. Spec => []DInv
    BY InitDInv, StepDInv, PTL DEF Spec
  <1>2. DInv => NoDoublePost
    BY DEF DInv
  <1> QED
    BY <1>1, <1>2, PTL

----------------------------------------------------------------------------
(* RepliesInThread: the roots that the bot stores are those of the posts. *)
RootsKnown ==
    \A a \in attempts : posts[a.uri].msg \notin Reposts => a.root = posts[a.uri].root

PlanInThread ==
    pc = "network" /\ plan.parent # NoPost =>
        /\ plan.parent \in DOMAIN posts
        /\ posts[plan.parent].msg \notin Reposts => plan.root = posts[plan.parent].root

ResultInThread ==
    pc = "record" /\ result.ok /\ posts[result.uri].msg \notin Reposts =>
        posts[result.uri].root = IF plan.parent = NoPost THEN result.uri ELSE plan.root

RInv == TInv /\ RootsKnown /\ PlanInThread /\ ResultInThread /\ RepliesInThread

LEMMA InitRInv == Init => RInv
  BY InitTInv DEF Init, RInv, RootsKnown, PlanInThread, ResultInThread, RepliesInThread

(* Steps that make no post and store no root that was not stored before. *)
LEMMA NoNewRoots ==
  ASSUME RInv, TInv', UNCHANGED posts,
         \A b \in attempts' :
            \/ \E a \in attempts : a.uri = b.uri /\ a.root = b.root
            \/ posts[b.uri].msg \notin Reposts => b.root = posts[b.uri].root,
         UNCHANGED <<pc, plan, result>> \/ pc' \notin {"network", "record"}
  PROVE  RInv'
  BY DEF RInv, RootsKnown, PlanInThread, ResultInThread, RepliesInThread

LEMMA CuratorsRInv == RInv /\ Curators => RInv'
  <1> SUFFICES ASSUME RInv, TInv', Curators PROVE RInv'
    BY CuratorsTInv DEF RInv
  <1>1. UNCHANGED <<tick, posts>> /\ attempts' \subseteq attempts
    BY DEF Curators, Create, Ingest, Screen, ThreadFails, Confirm, Remove, Requeue,
           AddLinks, ReplaceLink, DeleteRow
  <1> QED
    BY <1>1, NoNewRoots DEF tick

LEMMA DispatcherRInv == RInv /\ Dispatcher => RInv'
  <1> SUFFICES ASSUME RInv, TInv', Dispatcher PROVE RInv'
    BY DispatcherTInv DEF RInv
  <1>1. CASE \/ StartTick \/ EndTick \/ GiveUp \/ \E b \in Board : OpenBoard(b)
             \/ \E id \in Id : Pick(id)
             \/ Vanished \/ MissingPassword \/ Defer \/ RecordFailure
    <2>1. UNCHANGED <<attempts, posts>>
      BY <1>1 DEF StartTick, EndTick, GiveUp, OpenBoard, Pick, Vanished, MissingPassword,
                  Defer, RecordFailure
    <2>2. UNCHANGED <<pc, plan, result>> \/ pc' \notin {"network", "record"}
      BY <1>1 DEF StartTick, EndTick, GiveUp, OpenBoard, Pick, Vanished, MissingPassword,
                  Defer, RecordFailure, LeaveBoard, TryNext, CountFailure
    <2> QED
      BY <2>1, <2>2, NoNewRoots
  <1>2. CASE Suppress
    <2>1. \A b \in attempts' : \E a \in attempts : a.uri = b.uri /\ a.root = b.root
      BY <1>2 DEF Suppress, AddAttempt, Newest, PriorPosts
    <2> QED
      BY <1>2, <2>1, NoNewRoots DEF Suppress, TryNext
  <1>3. CASE PlanPost
    <2>1. PlanInThread'
      <3>1. ASSUME plan'.parent # NoPost
            PROVE  \E a \in attempts : plan'.parent = a.uri /\ plan'.root = a.root
        BY <1>3, <3>1 DEF PlanPost, ParentAttempts, Newest
      <3> QED
        BY <1>3, <3>1 DEF PlanPost, PlanInThread, RInv, TInv, UrisExist, RootsKnown
    <2> QED
      BY <1>3, <2>1 DEF PlanPost, RInv, RootsKnown, ResultInThread, RepliesInThread
  <1>4. CASE RecordSuccess
    <2>1. \A b \in attempts' : \/ b \in attempts
                               \/ posts[b.uri].msg \notin Reposts => b.root = posts[b.uri].root
      BY <1>4 DEF RecordSuccess, AddAttempt, RInv, ResultInThread
    <2> QED
      BY <1>4, <2>1, NoNewRoots DEF RecordSuccess, LeaveBoard
  <1> QED
    BY <1>1, <1>2, <1>3, <1>4 DEF Dispatcher

(* What Feed asks of the post that is made. *)
LEMMA RecordInThread ==
  ASSUME RInv, CreateRecord
  PROVE  LET r == RecordOf(plan)
         IN  \/ r.parent = NoPost /\ r.root = NewUri
             \/ /\ r.parent \in DOMAIN posts
                /\ r = plan /\ r.msg \notin Reposts
                /\ posts[r.parent].msg \notin Reposts => r.root = posts[r.parent].root
  BY DEF CreateRecord, RecordOf, RInv, TInv, TypeOK, TickTypes, Post, PlanInThread

LEMMA BlueskyRInv == RInv /\ Bluesky => RInv'
  <1> SUFFICES ASSUME RInv, TInv', Bluesky PROVE RInv'
    BY BlueskyTInv DEF RInv
  <1>a. ASSUME CreateRecord, UNCHANGED <<attempts, plan>>, pc' = "record",
               result'.ok => result'.uri = NewUri
        PROVE  RInv'
    <2>1. \A u \in DOMAIN posts : posts'[u] = posts[u]
      BY <1>a, RecordCreated DEF RInv
    <2>2. RootsKnown' /\ PlanInThread'
      BY <1>a, <2>1 DEF RInv, TInv, UrisExist, RootsKnown, PlanInThread
    <2>3. RepliesInThread'
      <3>1. ASSUME NEW p \in DOMAIN posts', posts'[p].parent # NoPost
            PROVE  /\ posts'[p].parent \in 1 .. p - 1
                   /\ posts'[posts'[p].parent].msg \notin Reposts =>
                          posts'[p].root = posts'[posts'[p].parent].root
        <4>1. CASE p \in DOMAIN posts
          <5>1. posts[p].parent \in 1 .. p - 1 /\ posts[p].parent \in DOMAIN posts
            BY <3>1, <4>1, <2>1 DEF RInv, TInv, TypeOK, RepliesInThread
          <5> QED
            BY <3>1, <4>1, <5>1, <2>1 DEF RInv, RepliesInThread
        <4>2. CASE p = NewUri
          <5>1. posts'[p] = RecordOf(plan) /\ posts'[p].parent \in DOMAIN posts
            BY <1>a, <3>1, <4>2, RecordCreated, RecordInThread DEF RInv
          <5>2. DOMAIN posts = 1 .. p - 1
            BY <1>a, <4>2, RecordCreated DEF RInv, TInv, TypeOK
          <5> QED
            BY <1>a, <3>1, <5>1, <5>2, <2>1, RecordInThread
        <4> QED
          BY <1>a, <3>1, <4>1, <4>2, RecordCreated DEF RInv
      <3> QED
        BY <3>1 DEF RepliesInThread
    <2>4. ResultInThread'
      <3>1. posts'[NewUri] = RecordOf(plan)
        BY <1>a, RecordCreated DEF RInv
      <3> QED
        BY <1>a, <3>1 DEF ResultInThread, RecordOf, RInv, TInv, TypeOK, TickTypes, Post
    <2> QED
      BY <2>2, <2>3, <2>4 DEF RInv
  <1>1. CASE PostCreated
    BY <1>1, <1>a DEF PostCreated, Answered, NoResult
  <1>2. CASE ResponseLost
    BY <1>2, <1>a DEF ResponseLost, Answered, NoResult
  <1>3. CASE \E k \in {"upstream", "local", "unknown"}, w \in BOOLEAN : PostFails(k, w)
    BY <1>3 DEF PostFails, Answered, NoResult, RInv, RootsKnown, PlanInThread, ResultInThread,
                RepliesInThread
  <1> QED
    BY <1>1, <1>2, <1>3 DEF Bluesky

LEMMA OthersRInv == RInv /\ (RecordError \/ Crash \/ Midnight \/ GrowOlder) => RInv'
  <1> SUFFICES ASSUME RInv, TInv', RecordError \/ Crash \/ Midnight \/ GrowOlder PROVE RInv'
    BY OthersTInv DEF RInv
  <1>1. CASE RecordError \/ Crash \/ GrowOlder
    BY <1>1, NoNewRoots DEF RecordError, Crash, GrowOlder, LeaveBoard, tick
  <1>2. CASE Midnight
    <2>1. \A b \in attempts' : \E a \in attempts : a.uri = b.uri /\ a.root = b.root
      BY <1>2 DEF Midnight, RInv, TInv, TypeOK, Attempt
    <2> QED
      BY <1>2, <2>1, NoNewRoots DEF Midnight
  <1> QED
    BY <1>1, <1>2

LEMMA StepRInv == RInv /\ [Next]_vars => RInv'
  <1>1. RInv /\ UNCHANGED vars => RInv'
    <2>1. RInv /\ UNCHANGED vars => TInv'
      BY StepTInv DEF RInv
    <2> QED
      BY <2>1, NoNewRoots DEF vars, tick
  <1> QED
    BY <1>1, CuratorsRInv, DispatcherRInv, BlueskyRInv, OthersRInv DEF Next

(* Every reply carries the root of its parent's thread. *)
THEOREM AlwaysInThread == Spec => []RepliesInThread
  <1>1. Spec => []RInv
    BY InitRInv, StepRInv, PTL DEF Spec
  <1>2. RInv => RepliesInThread
    BY DEF RInv
  <1> QED
    BY <1>1, <1>2, PTL

----------------------------------------------------------------------------
(* Publishing implements Feed: each step announces one new post or forgets some. *)

LEMMA CreatedIsAnnounced ==
  ASSUME DInv, RInv, CreateRecord, forgotten' \in {forgotten, forgotten \cup {NewUri}}
  PROVE  F!Announce
  <1>1. Len(posts') = NewUri /\ posts' = Append(posts, posts'[NewUri])
    BY RecordCreated DEF DInv, TInv, TypeOK
  <1>2. \A q \in F!Kept : posts[q].urls \cap posts'[NewUri].urls = {}
    <2>1. posts'[NewUri].urls = plan.urls
      BY RecordCreated DEF DInv, TInv, TypeOK, RecordOf, TickTypes, Post
    <2> QED
      BY <2>1 DEF CreateRecord, DInv, PlanIsNew, Kept, F!Kept
  <1>3. F!WellThreaded(posts'[NewUri], NewUri)
    <2>1. posts'[NewUri] = RecordOf(plan) /\ DOMAIN posts = 1 .. NewUri - 1
      BY RecordCreated DEF DInv, TInv, TypeOK
    <2> QED
      BY <2>1, RecordInThread DEF F!WellThreaded, NoPost
  <1> QED
    BY <1>1, <1>2, <1>3 DEF F!Announce, NewUri

LEMMA StepImplementsFeed ==
  ASSUME DInv, RInv, DInv', [Next]_vars
  PROVE  [F!Next]_(F!feed)
  <1> USE DEF F!feed, F!Next, F!Forget
  <1>1. CASE PostCreated \/ ResponseLost
    BY <1>1, CreatedIsAnnounced DEF PostCreated, ResponseLost
  <1>2. ASSUME UNCHANGED posts, forgotten \subseteq forgotten'
        PROVE  F!Forget
    BY <1>2 DEF DInv, TInv, TypeOK
  <1>3. CASE Curators
    BY <1>3, <1>2 DEF Curators, Create, Ingest, Screen, ThreadFails, Confirm, Remove, Requeue,
                      AddLinks, ReplaceLink, DeleteRow
  <1>4. CASE Dispatcher
    BY <1>4, <1>2 DEF Dispatcher, StartTick, EndTick, GiveUp, OpenBoard, Pick, Vanished,
                      MissingPassword, Defer, Suppress, PlanPost, RecordFailure, RecordSuccess
  <1>5. CASE \E k \in {"upstream", "local", "unknown"}, w \in BOOLEAN : PostFails(k, w)
    BY <1>5, <1>2 DEF PostFails
  <1>6. CASE RecordError \/ Crash \/ Midnight \/ GrowOlder
    BY <1>6, <1>2 DEF RecordError, Crash, Midnight, GrowOlder
  <1>7. CASE UNCHANGED vars
    BY <1>7 DEF vars
  <1> QED
    BY <1>1, <1>3, <1>4, <1>5, <1>6, <1>7 DEF Next, Bluesky

(* The feed that Bluesky users see is the one that Feed specifies. *)
THEOREM FeedIsImplemented == Spec => ImplementsFeed
  <1>1. Spec => [](DInv /\ RInv)
    BY InitDInv, StepDInv, InitRInv, StepRInv, PTL DEF Spec
  <1>2. Init => F!Init
    BY DEF Init, F!Init
  <1>3. (DInv /\ RInv) /\ (DInv /\ RInv)' /\ [Next]_vars => [F!Next]_(F!feed)
    BY StepImplementsFeed
  <1> QED
    BY <1>1, <1>2, <1>3, PTL DEF Spec, ImplementsFeed, F!Spec

----------------------------------------------------------------------------
(* DailyCapHeld.  While no row is removed the count the dispatcher takes when it
   opens a board is that of the rows it will publish from: a row with an attempt
   stays, with its owner, and so does the row in hand. *)

MostADay == Larger(QueueMin, QueueMax)

AtWork  == pc \in {"picked", "network", "record"}
AtBoard == AtWork \/ pc = "pick"

(* Beat 4a deletes rows, but none that has been confirmed. *)
Screened == \A id \in Live : state[id] # "open" => intake[id] = "done"
OnFile   == \A a \in attempts : a.sub \in Live /\ intake[a.sub] = "done"
InHand   == AtWork => cur \in Live /\ intake[cur] = "done" /\ BoardOf[owner[cur]] = board

(* The board that is open may have one more post. *)
RoomLeft == AtBoard => board \in Board /\ Cardinality(PostedOn(board, 0)) < MostADay

CInv == /\ TInv /\ IsFiniteSet(attempts)
        /\ edits = 0 => Screened /\ OnFile /\ InHand /\ RoomLeft
        /\ DailyCapHeld

LEMMA CapIsBounded ==
  ASSUME NEW n \in Nat
  PROVE  DailyCap(n) <= MostADay /\ MostADay \in Nat /\ DailyCap(n) \in Int
  <1>1. n \div TargetDays \in Int
    BY PolicyAssumption
  <1>2. RoundedShare(n, TargetDays) \in Int
    BY <1>1 DEF RoundedShare
  <1> QED
    BY <1>2, PolicyAssumption DEF DailyCap, MostADay, Larger, Smaller

LEMMA PostedCounts ==
  ASSUME IsFiniteSet(attempts), NEW b, NEW age
  PROVE  IsFiniteSet(PostedOn(b, age)) /\ Cardinality(PostedOn(b, age)) \in Nat
  <1>1. PostedOn(b, age) \in SUBSET attempts
    BY DEF PostedOn
  <1> QED
    BY <1>1, FS_Subset, FS_CardinalityType

(* Every step but an edit leaves a screened row where it is. *)
RowsStay ==
    \A id \in Live : intake[id] = "done" =>
        id \in Live' /\ owner'[id] = owner[id] /\ intake'[id] = "done"

LEMMA StepRowsStay ==
  ASSUME CInv, [Next]_vars, edits = 0, edits' = 0
  PROVE  RowsStay /\ Screened' /\ edits' \in Nat
  <1> USE DEF CInv, TInv, TypeOK, RowTypes, TickTypes, Live, State, rows, tick, env
  <1>1. ASSUME NEW id \in Id,
               \/ \E m \in Message : Create(m, id)
               \/ Ingest(id) \/ Screen(id) \/ ThreadFails(id) \/ Confirm(id) \/ Requeue(id)
        PROVE  RowsStay /\ Screened'
    <2>1. CASE \E m \in Message : Create(m, id)
      <3>1. state[id] = "absent"
        BY <2>1 DEF Create, Id
      <3> QED
        BY <2>1, <3>1 DEF Create, RowsStay, Screened
    <2>2. CASE Ingest(id) \/ ThreadFails(id) \/ Confirm(id) \/ Requeue(id)
      BY <2>2 DEF Ingest, ThreadFails, Confirm, Requeue, RowsStay, Screened
    <2>3. CASE Screen(id)
      BY <2>3 DEF Screen, DeleteRow, RowsStay, Screened
    <2> QED
      BY <1>1, <2>1, <2>2, <2>3
  <1>2. CASE Curators
    <2>1. PICK id \in Id :
              \/ \E m \in Message : Create(m, id)
              \/ Ingest(id) \/ Screen(id) \/ ThreadFails(id)
              \/ Confirm(id) \/ Remove(id) \/ Requeue(id)
              \/ \E new \in SUBSET Url : AddLinks(id, new)
              \/ \E old, new \in Url : ReplaceLink(id, old, new)
      BY <1>2 DEF Curators
    <2>2. ~Remove(id) /\ (\A new \in SUBSET Url : ~AddLinks(id, new))
          /\ \A old, new \in Url : ~ReplaceLink(id, old, new)
      BY DEF Remove, AddLinks, ReplaceLink
    <2> QED
      BY <1>1, <2>1, <2>2
  <1>3. ASSUME UNCHANGED <<owner, intake>>,
               state' = state \/ \E s \in State : AtWork /\ state' = [state EXCEPT ![cur] = s]
        PROVE  RowsStay /\ Screened'
    BY <1>3 DEF RowsStay, Screened, InHand, AtWork
  <1>4. CASE Dispatcher
    <2>1. CASE \/ StartTick \/ EndTick \/ GiveUp \/ \E b \in Board : OpenBoard(b)
               \/ \E id \in Id : Pick(id)
               \/ Vanished \/ Defer \/ PlanPost
      BY <2>1, <1>3 DEF StartTick, EndTick, GiveUp, OpenBoard, Pick, Vanished, Defer, PlanPost
    <2>2. CASE MissingPassword \/ Suppress
      BY <2>2, <1>3 DEF MissingPassword, Suppress, Configured, AtWork
    <2>3. CASE RecordFailure \/ RecordSuccess
      BY <2>3, <1>3 DEF RecordFailure, RecordSuccess, FailureState, AtWork
    <2> QED
      BY <1>4, <2>1, <2>2, <2>3 DEF Dispatcher
  <1>5. CASE Bluesky \/ RecordError \/ Midnight \/ GrowOlder
    BY <1>5, <1>3 DEF Bluesky, PostCreated, ResponseLost, PostFails, RecordError, Midnight, GrowOlder
  <1>6. CASE Crash
    BY <1>6 DEF Crash, RowsStay, Screened
  <1>7. CASE UNCHANGED vars
    BY <1>7, <1>3 DEF vars
  <1> QED
    BY <1>2, <1>4, <1>5, <1>6, <1>7 DEF Next

(* A row with an attempt is one of its board after the step if it was before. *)
LEMMA SameBoard ==
  ASSUME CInv, edits = 0, RowsStay, NEW a \in attempts, NEW b
  PROVE  a.sub \in RowsOf(b)' <=> a.sub \in RowsOf(b)
  BY DEF CInv, OnFile, RowsStay, RowsOf

(* What a step that is no edit does to the attempts on record. *)
Files == \E a \in Attempt : /\ AddAttempt(a) /\ a.sub = cur /\ AtWork
                            /\ a.real => pc = "record" /\ LeaveBoard /\ a.age = 0

LEMMA StepAttempts ==
  ASSUME CInv, [Next]_vars, edits = 0, edits' = 0
  PROVE  attempts' = attempts \/ Files \/ Midnight
  <1> USE DEF CInv, TInv, TypeOK
  <1>1. CASE Curators
    <2>1. ASSUME NEW id \in Id, Screen(id) PROVE attempts' = attempts
      <3>1. \A a \in attempts : a.sub # id
        BY <2>1 DEF Screen, OnFile
      <3> QED
        BY <2>1, <3>1 DEF Screen, DeleteRow
    <2> QED
      BY <1>1, <2>1 DEF Curators, Create, Ingest, ThreadFails, Confirm, Remove, Requeue, AddLinks,
                        ReplaceLink
  <1>2. CASE Dispatcher
    <2>1. CASE Suppress
      <3>1. PICK a \in attempts :
                AddAttempt([n |-> clock, sub |-> cur, real |-> FALSE,
                            uri |-> a.uri, root |-> a.root, age |-> 0])
        BY <2>1 DEF Suppress, Newest, PriorPosts
      <3>2. [n |-> clock, sub |-> cur, real |-> FALSE,
             uri |-> a.uri, root |-> a.root, age |-> 0] \in Attempt
        BY <2>1, PublishingAssumption DEF Suppress, Configured, TickTypes, Attempt
      <3> QED
        BY <2>1, <3>1, <3>2 DEF Files, AtWork, Suppress, Configured
    <2>2. CASE RecordSuccess
      <3> DEFINE a == [n |-> clock, sub |-> cur, real |-> TRUE, uri |-> result.uri,
                       root |-> IF plan.parent = NoPost THEN result.uri ELSE plan.root,
                       age |-> 0]
      <3>1. a \in Attempt
        BY <2>2, PublishingAssumption DEF RecordSuccess, TickTypes, Attempt, Result, Post
      <3>2. AddAttempt(a) /\ pc = "record" /\ LeaveBoard
        BY <2>2 DEF RecordSuccess
      <3>3. a.sub = cur /\ a.age = 0
        OBVIOUS
      <3> HIDE DEF a
      <3> QED
        BY <3>1, <3>2, <3>3 DEF Files, AtWork
    <2> QED
      BY <1>2, <2>1, <2>2 DEF Dispatcher, StartTick, EndTick, GiveUp, OpenBoard, Pick, Vanished,
                              MissingPassword, Defer, PlanPost, RecordFailure
  <1>3. CASE Bluesky \/ RecordError \/ GrowOlder \/ Crash \/ UNCHANGED vars
    BY <1>3 DEF Bluesky, PostCreated, ResponseLost, PostFails, RecordError, GrowOlder, Crash, vars
  <1> QED
    BY <1>1, <1>2, <1>3 DEF Next

(* At midnight the day's posts become yesterday's, and are not more than before. *)
LEMMA MidnightCounts ==
  ASSUME CInv, Midnight, RowsStay, edits = 0, NEW b
  PROVE  /\ IsFiniteSet(attempts') /\ PostedOn(b, 0)' = {}
         /\ 1 < MaxAge => Cardinality(PostedOn(b, 1)') <= Cardinality(PostedOn(b, 0))
  <1> USE PublishingAssumption DEF CInv, TInv, TypeOK
  <1> DEFINE Older(a) == [a EXCEPT !.age = Smaller(a.age + 1, MaxAge)]
             f == [a \in attempts |-> Older(a)]
  <1>1. \A a \in attempts : /\ Older(a).real = a.real /\ Older(a).sub = a.sub
                            /\ Older(a).age = Smaller(a.age + 1, MaxAge) /\ a.age \in 0 .. MaxAge
    BY DEF Attempt
  <1>2. attempts' = {Older(a) : a \in attempts} /\ MaxAge > 0
    BY DEF Midnight
  <1> HIDE DEF Older
  <1>3. f \in Surjection(attempts, attempts')
    BY <1>2 DEF Surjection
  <1>4. IsFiniteSet(attempts')
    BY <1>3, FS_Surjection
  <1>5. \A a \in attempts : Older(a).age > 0 /\ (1 < MaxAge /\ Older(a).age = 1 => a.age = 0)
    BY <1>1, <1>2 DEF Smaller
  <1>6. PostedOn(b, 0)' = {}
    BY <1>2, <1>5 DEF PostedOn
  <1>7. ASSUME 1 < MaxAge PROVE Cardinality(PostedOn(b, 1)') <= Cardinality(PostedOn(b, 0))
    <2> DEFINE S == {a \in PostedOn(b, 0) : f[a] \in PostedOn(b, 1)'}
               g == [a \in S |-> f[a]]
    <2>1. IsFiniteSet(S) /\ Cardinality(S) <= Cardinality(PostedOn(b, 0))
      <3>1. IsFiniteSet(PostedOn(b, 0))
        BY PostedCounts
      <3>2. S \in SUBSET PostedOn(b, 0)
        OBVIOUS
      <3> HIDE DEF S
      <3> QED
        BY <3>1, <3>2, FS_Subset
    <2>2. \A x \in PostedOn(b, 1)' : \E a \in S : g[a] = x
      <3>1. ASSUME NEW x \in PostedOn(b, 1)' PROVE \E a \in S : g[a] = x
        <4>1. PICK a \in attempts : x = Older(a)
          BY <1>2 DEF PostedOn
        <4>2. a.real /\ a.age = 0 /\ a.sub \in RowsOf(b)
          BY <1>1, <1>5, <1>7, <4>1, SameBoard DEF PostedOn
        <4>3. a \in S
          BY <4>1, <4>2 DEF PostedOn
        <4> QED
          BY <4>1, <4>3
      <3> QED
        BY <3>1
    <2>3. g \in Surjection(S, PostedOn(b, 1)')
      <3>1. \A a \in S : g[a] \in PostedOn(b, 1)'
        OBVIOUS
      <3> HIDE DEF S
      <3>2. g \in [S -> PostedOn(b, 1)']
        BY <3>1
      <3> HIDE DEF g
      <3> QED
        BY <2>2, <3>2 DEF Surjection
    <2>4. Cardinality(PostedOn(b, 1)') <= Cardinality(S)
      <3> HIDE DEF S, g
      <3> QED
        BY <2>1, <2>3, FS_Surjection
    <2>5. /\ Cardinality(S) \in Nat /\ Cardinality(PostedOn(b, 0)) \in Nat
          /\ Cardinality(PostedOn(b, 1)') \in Nat
      <3>1. IsFiniteSet(PostedOn(b, 1)')
        <4>1. PostedOn(b, 1)' \in SUBSET attempts'
          BY DEF PostedOn
        <4> QED
          BY <1>4, <4>1, FS_Subset
      <3>2. IsFiniteSet(PostedOn(b, 0))
        BY PostedCounts
      <3> HIDE DEF S
      <3> QED
        BY <2>1, <3>1, <3>2, FS_CardinalityType
    <2> HIDE DEF S
    <2> QED
      BY <2>1, <2>4, <2>5
  <1> QED
    BY <1>4, <1>6, <1>7

(* A post is filed for the board that is open, which had room for it. *)
LEMMA FiledCounts ==
  ASSUME CInv, Files, RowsStay, edits = 0, NEW b \in Board, NEW age \in 0 .. 1
  PROVE  /\ IsFiniteSet(attempts')
         /\ \/ PostedOn(b, age)' = PostedOn(b, age)
            \/ /\ age = 0 /\ b = board /\ ~AtBoard'
               /\ Cardinality(PostedOn(b, age)') <= MostADay
  <1> USE DEF CInv
  <1>1. PICK a \in Attempt : /\ AddAttempt(a) /\ a.sub = cur /\ AtWork
                             /\ a.real => pc = "record" /\ LeaveBoard /\ a.age = 0
    BY DEF Files
  <1>2. attempts' = attempts \cup {a}
    BY <1>1 DEF AddAttempt
  <1>3. a.sub \in RowsOf(b)' => b = board
    BY <1>1 DEF InHand, RowsStay, RowsOf
  <1>4. IsFiniteSet(attempts')
    BY <1>2, FS_AddElement
  <1>5. PostedOn(b, age)' = PostedOn(b, age)
        \/ (a.real /\ b = board /\ a.age = age /\ PostedOn(b, age)' = PostedOn(b, age) \cup {a})
    BY <1>2, <1>3, SameBoard DEF PostedOn
  <1>6. ASSUME a.real, b = board, a.age = age, PostedOn(b, age)' = PostedOn(b, age) \cup {a}
        PROVE  /\ age = 0 /\ b = board /\ ~AtBoard'
               /\ Cardinality(PostedOn(b, age)') <= MostADay
    <2>1. age = 0 /\ AtBoard /\ ~AtBoard'
      BY <1>1, <1>6 DEF AtBoard, AtWork, LeaveBoard
    <2>2. Cardinality(PostedOn(b, 0)) < MostADay
      BY <1>6, <2>1 DEF RoomLeft
    <2>3. Cardinality(PostedOn(b, 0)) \in Nat /\ IsFiniteSet(PostedOn(b, 0))
      BY PostedCounts
    <2>4. Cardinality(PostedOn(b, 0) \cup {a}) <= Cardinality(PostedOn(b, 0)) + 1
      BY <2>3, FS_AddElement
    <2>5. MostADay \in Nat /\ Cardinality(PostedOn(b, 0) \cup {a}) \in Nat
      BY <2>3, FS_AddElement, FS_CardinalityType, CapIsBounded
    <2> QED
      BY <1>6, <2>1, <2>2, <2>3, <2>4, <2>5
  <1> QED
    BY <1>4, <1>5, <1>6

LEMMA StepCap ==
  ASSUME CInv, [Next]_vars, edits = 0, edits' = 0
  PROVE  IsFiniteSet(attempts') /\ DailyCapHeld'
  <1> USE DEF CInv
  <1>1. RowsStay
    BY StepRowsStay
  <1>2. CASE attempts' = attempts
    <2>1. \A b \in Board, age \in 0 .. 1 : PostedOn(b, age)' = PostedOn(b, age)
      BY <1>1, <1>2, SameBoard DEF PostedOn
    <2> QED
      BY <1>2, <2>1 DEF DailyCapHeld
  <1>3. CASE Files
    <2>1. ASSUME NEW b \in Board, NEW age \in 0 .. 1, age = 0 \/ age < MaxAge
          PROVE  Cardinality(PostedOn(b, age)') <= MostADay
      <3>1. Cardinality(PostedOn(b, age)) <= MostADay
        BY <2>1 DEF DailyCapHeld, MostADay
      <3> QED
        BY <1>1, <1>3, <3>1, FiledCounts
    <2>2. IsFiniteSet(attempts')
      BY <1>3, FS_AddElement DEF Files, AddAttempt
    <2> QED
      BY <2>1, <2>2 DEF DailyCapHeld, MostADay
  <1>4. CASE Midnight
    <2>1. ASSUME NEW b \in Board, NEW age \in 0 .. 1, age = 0 \/ age < MaxAge
          PROVE  Cardinality(PostedOn(b, age)') <= MostADay
      <3>1. MostADay \in Nat /\ Cardinality(PostedOn(b, 0)) <= MostADay
        BY CapIsBounded DEF DailyCapHeld, MostADay
      <3>2. CASE age = 0
        BY <1>1, <1>4, <3>1, <3>2, MidnightCounts, FS_EmptySet
      <3>3. CASE age = 1
        <4>1. Cardinality(PostedOn(b, 1)') <= Cardinality(PostedOn(b, 0)) /\ IsFiniteSet(attempts')
          BY <1>1, <1>4, <2>1, <3>3, MidnightCounts
        <4>2. Cardinality(PostedOn(b, 0)) \in Nat
          BY PostedCounts
        <4>3. Cardinality(PostedOn(b, 1)') \in Nat
          <5>1. PostedOn(b, 1)' \in SUBSET attempts'
            BY DEF PostedOn
          <5> QED
            BY <4>1, <5>1, FS_Subset, FS_CardinalityType
        <4> QED
          BY <3>1, <3>3, <4>1, <4>2, <4>3
      <3> QED
        BY <2>1, <3>2, <3>3
    <2>2. IsFiniteSet(attempts')
      BY <1>1, <1>4, MidnightCounts
    <2> QED
      BY <2>1, <2>2 DEF DailyCapHeld, MostADay
  <1> QED
    BY <1>2, <1>3, <1>4, StepAttempts

LEMMA StepHand ==
  ASSUME CInv, TInv', [Next]_vars, edits = 0, edits' = 0
  PROVE  OnFile' /\ InHand'
  <1> USE DEF CInv, TInv, TypeOK
  <1>1. RowsStay
    BY StepRowsStay
  <1>2. OnFile'
    <2>1. CASE attempts' = attempts
      BY <1>1, <2>1 DEF OnFile, RowsStay
    <2>2. CASE Files
      BY <1>1, <2>2 DEF Files, AddAttempt, OnFile, InHand, RowsStay
    <2>3. CASE Midnight
      <3>1. \A x \in attempts' : \E a \in attempts : x.sub = a.sub
        BY <2>3 DEF Midnight, Attempt
      <3> QED
        BY <1>1, <3>1 DEF OnFile, RowsStay
    <2> QED
      BY <2>1, <2>2, <2>3, StepAttempts
  <1>3. CASE UNCHANGED <<board, cur>> /\ (AtWork' => AtWork)
    BY <1>1, <1>2, <1>3 DEF InHand, RowsStay
  <1>4. CASE ~AtWork'
    BY <1>2, <1>4 DEF InHand
  <1>5. CASE \E id \in Id : Pick(id)
    BY <1>1, <1>2, <1>5 DEF Pick, Candidates, QueueOf, RowsOf, Eligible, Live, Screened, InHand, RowsStay,
                      AtWork, rows
  <1>6. CASE Curators \/ Bluesky \/ Midnight \/ GrowOlder \/ UNCHANGED vars
    <2>1. UNCHANGED <<board, cur>> /\ (AtWork' => AtWork)
      BY <1>6 DEF Curators, Create, Ingest, Screen, ThreadFails, Confirm, Remove, Requeue, AddLinks,
                  ReplaceLink, Bluesky, PostCreated, CreateRecord, ResponseLost, PostFails, Answered,
                  Midnight, GrowOlder, AtWork, vars, tick
    <2> QED
      BY <1>3, <2>1
  <1>7. CASE Dispatcher
    <2>1. CASE PlanPost
      BY <2>1, <1>3 DEF PlanPost, Configured, AtWork
    <2>2. CASE \/ StartTick \/ EndTick \/ GiveUp \/ \E b \in Board : OpenBoard(b)
      BY <2>2, <1>4 DEF StartTick, EndTick, GiveUp, OpenBoard, LeaveBoard, AtWork
    <2>3. CASE Vanished \/ MissingPassword \/ Defer \/ Suppress \/ RecordFailure \/ RecordSuccess
      BY <2>3, <1>4 DEF Vanished, MissingPassword, Defer, Suppress, RecordFailure, RecordSuccess,
                        CountFailure, LeaveBoard, TryNext, AtWork
    <2> QED
      BY <1>5, <1>7, <2>1, <2>2, <2>3 DEF Dispatcher
  <1>8. CASE RecordError \/ Crash
    BY <1>8, <1>4 DEF RecordError, Crash, LeaveBoard, AtWork
  <1> QED
    BY <1>2, <1>6, <1>7, <1>8 DEF Next

LEMMA StepRoom ==
  ASSUME CInv, TInv', [Next]_vars, edits = 0, edits' = 0
  PROVE  RoomLeft'
  <1> USE DEF CInv, TInv, TypeOK
  <1>1. RowsStay
    BY StepRowsStay
  <1>2. CASE ~AtBoard'
    BY <1>2 DEF RoomLeft
  <1>3. CASE board' = board /\ AtBoard
    <2>1. board \in Board /\ Cardinality(PostedOn(board, 0)) < MostADay
      BY <1>3 DEF RoomLeft
    <2>2. CASE attempts' = attempts
      <3>1. PostedOn(board, 0)' = PostedOn(board, 0)
        BY <1>1, <1>3, <2>2, SameBoard DEF PostedOn
      <3> QED
        BY <1>3, <2>1, <3>1 DEF RoomLeft
    <2>3. CASE Files
      <3>1. PostedOn(board, 0)' = PostedOn(board, 0) \/ ~AtBoard'
        BY <1>1, <1>3, <2>1, <2>3, FiledCounts
      <3> QED
        BY <1>3, <2>1, <3>1 DEF RoomLeft
    <2>4. CASE Midnight
      <3>1. \A b : PostedOn(b, 0)' = {}
        BY <1>1, <2>4, MidnightCounts
      <3>2. PostedOn(board, 0)' = {}
        BY <1>3, <3>1
      <3>3. Cardinality(PostedOn(board, 0)) \in Nat /\ MostADay \in Nat
        BY PostedCounts, CapIsBounded
      <3>4. 0 < MostADay
        BY <2>1, <3>3
      <3>5. Cardinality(PostedOn(board, 0)') = 0
        BY <3>2, FS_EmptySet, Zenon
      <3> QED
        BY <1>3, <2>1, <3>4, <3>5 DEF RoomLeft
    <2> QED
      BY <2>2, <2>3, <2>4, StepAttempts
  <1>4. CASE \E b \in Board : OpenBoard(b)
    <2>1. PICK b \in Board : OpenBoard(b)
      BY <1>4
    <2>2. CASE PostsToday(b) >= DailyCap(Cardinality(QueueOf(b)))
      BY <1>2, <2>1, <2>2 DEF OpenBoard, AtBoard, AtWork
    <2>3. CASE ~(PostsToday(b) >= DailyCap(Cardinality(QueueOf(b))))
      <3>1. Cardinality(QueueOf(b)) \in Nat
        <4>1. QueueOf(b) \in SUBSET (1 .. MaxId)
          BY DEF QueueOf, RowsOf, Live, Id
        <4>2. IsFiniteSet(1 .. MaxId)
          BY FS_Interval, PublishingAssumption
        <4> QED
          BY <4>1, <4>2, FS_Subset, FS_CardinalityType
      <3> DEFINE S == {a \in attempts : a.real /\ a.sub \in RowsOf(b) /\ a.age <= tickAge}
      <3>2. IsFiniteSet(S) /\ PostedOn(b, 0) \in SUBSET S
        <4>1. S \in SUBSET attempts
          OBVIOUS
        <4>2. IsFiniteSet(S)
          <5> HIDE DEF S
          <5> QED
            BY <4>1, FS_Subset
        <4> QED
          BY <4>2 DEF PostedOn, TickTypes
      <3>3. PostsToday(b) = Cardinality(S)
        BY DEF PostsToday
      <3> HIDE DEF S
      <3>4. Cardinality(PostedOn(b, 0)) <= Cardinality(S) /\ Cardinality(S) \in Nat
        BY <3>2, FS_Subset, FS_CardinalityType
      <3>5. Cardinality(PostedOn(b, 0)) < MostADay
        BY <2>3, <3>1, <3>3, <3>4, CapIsBounded, PostedCounts
      <3>6. board' = b /\ attempts' = attempts
        BY <2>1, <2>3 DEF OpenBoard
      <3>7. PostedOn(b, 0)' = PostedOn(b, 0)
        BY <1>1, <3>6, SameBoard DEF PostedOn
      <3> QED
        BY <3>5, <3>6, <3>7 DEF RoomLeft
    <2> QED
      BY <2>2, <2>3
  <1>5. CASE Curators \/ Bluesky \/ Midnight \/ GrowOlder \/ UNCHANGED vars
    <2>1. board' = board /\ (AtBoard' => AtBoard)
      BY <1>5 DEF Curators, Create, Ingest, Screen, ThreadFails, Confirm, Remove, Requeue, AddLinks,
                  ReplaceLink, Bluesky, PostCreated, CreateRecord, ResponseLost, PostFails, Answered,
                  Midnight, GrowOlder, AtBoard, AtWork, vars, tick
    <2> QED
      BY <1>2, <1>3, <2>1
  <1>6. CASE Dispatcher
    <2>1. CASE StartTick \/ EndTick \/ GiveUp
      BY <2>1, <1>2 DEF StartTick, EndTick, GiveUp, LeaveBoard, AtBoard, AtWork
    <2>2. CASE \/ \E id \in Id : Pick(id)
               \/ Vanished \/ MissingPassword \/ Defer \/ Suppress \/ PlanPost
               \/ RecordFailure \/ RecordSuccess
      <3>1. AtBoard /\ (board' = board \/ ~AtBoard')
        BY <2>2 DEF Pick, Vanished, MissingPassword, Defer, Suppress, PlanPost, RecordFailure,
                    RecordSuccess, Configured, CountFailure, LeaveBoard, TryNext, AtBoard, AtWork
      <3> QED
        BY <1>2, <1>3, <3>1
    <2> QED
      BY <1>4, <1>6, <2>1, <2>2 DEF Dispatcher
  <1>7. CASE RecordError \/ Crash
    BY <1>7, <1>2 DEF RecordError, Crash, LeaveBoard, AtBoard, AtWork
  <1> QED
    BY <1>5, <1>6, <1>7 DEF Next

LEMMA StepFinite ==
  ASSUME CInv, [Next]_vars
  PROVE  IsFiniteSet(attempts') /\ (edits' = 0 => edits = 0)
  <1> USE DEF CInv, TInv, TypeOK
  <1>1. edits' \in {edits, edits + 1}
    BY DEF Next, Curators, Create, Ingest, Screen, ThreadFails, Confirm, Remove, Requeue, AddLinks,
           ReplaceLink, Dispatcher, StartTick, EndTick, GiveUp, OpenBoard, Pick, Vanished,
           MissingPassword, Defer, Suppress, PlanPost, RecordFailure, RecordSuccess, Bluesky,
           PostCreated, ResponseLost, PostFails, RecordError, Crash, Midnight, GrowOlder, vars, env
  <1>2. CASE \E a : AddAttempt(a)
    BY <1>1, <1>2, FS_AddElement DEF AddAttempt
  <1>3. CASE attempts' \subseteq attempts
    BY <1>1, <1>3, FS_Subset
  <1>4. CASE Midnight
    <2> DEFINE Older(a) == [a EXCEPT !.age = Smaller(a.age + 1, MaxAge)]
               f == [a \in attempts |-> Older(a)]
    <2>1. attempts' = {Older(a) : a \in attempts}
      BY <1>4 DEF Midnight
    <2> HIDE DEF Older
    <2>2. f \in Surjection(attempts, attempts')
      BY <2>1 DEF Surjection
    <2> QED
      BY <1>1, <2>2, FS_Surjection
  <1>5. (\E a : AddAttempt(a)) \/ attempts' \subseteq attempts \/ Midnight
    BY DEF Next, Curators, Create, Ingest, Screen, ThreadFails, Confirm, Remove, Requeue, AddLinks,
           ReplaceLink, DeleteRow, Dispatcher, StartTick, EndTick, GiveUp, OpenBoard, Pick, Vanished,
           MissingPassword, Defer, Suppress, PlanPost, RecordFailure, RecordSuccess, Bluesky,
           PostCreated, ResponseLost, PostFails, RecordError, Crash, GrowOlder, vars
  <1> QED
    BY <1>2, <1>3, <1>4, <1>5

LEMMA StepCInv == CInv /\ [Next]_vars => CInv'
  <1> SUFFICES ASSUME CInv, TInv', [Next]_vars PROVE CInv'
    BY StepTInv DEF CInv
  <1>1. CASE edits' = 0
    <2>1. edits = 0
      BY <1>1, StepFinite
    <2> QED
      BY <1>1, <2>1, StepRowsStay, StepCap, StepHand, StepRoom DEF CInv
  <1>2. CASE edits' # 0
    BY <1>2, StepFinite DEF CInv, DailyCapHeld
  <1> QED
    BY <1>1, <1>2

LEMMA InitCInv == Init => CInv
  <1> SUFFICES ASSUME Init PROVE CInv
    OBVIOUS
  <1>1. attempts = {} /\ pc = "idle" /\ Live = {}
    BY DEF Init, Live
  <1>2. IsFiniteSet(attempts) /\ \A b, age : Cardinality(PostedOn(b, age)) = 0
    <2>1. \A b, age : PostedOn(b, age) = {}
      BY <1>1 DEF PostedOn
    <2> QED
      BY <1>1, <2>1, FS_EmptySet
  <1>3. 0 <= MostADay
    BY CapIsBounded
  <1> QED
    BY <1>1, <1>2, <1>3, InitTInv DEF CInv, Screened, OnFile, InHand, RoomLeft, AtBoard, AtWork,
                                      DailyCapHeld, MostADay

(* No board has more than the larger of the two limits on one local day, for any cap, tick
   and order of failures, as long as no row is removed (_fire_board, count_posts_today). *)
THEOREM NeverOverTheCap == Spec => []DailyCapHeld
  <1>1. Spec => []CInv
    BY InitCInv, StepCInv, PTL DEF Spec
  <1>2. CInv => DailyCapHeld
    BY DEF CInv
  <1> QED
    BY <1>1, <1>2, PTL
=============================================================================
