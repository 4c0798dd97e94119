---------------------------- MODULE Publishing ----------------------------
(***************************************************************************)
(* From the butterfly reaction to the Bluesky post.                        *)
(*                                                                         *)
(* The database tables that decide what gets posted (submissions with      *)
(* their links, successful publish attempts), the hourly dispatcher        *)
(* (scheduler/__init__.py) that walks the queue and publishes in beats     *)
(* (discord_ingest/service.py), and everything that may run while the      *)
(* dispatcher waits for the network with the database lock released: new   *)
(* reactions, curator confirmations, cancellations, link replies, the      *)
(* requeue script, a crash.                                                *)
(*                                                                         *)
(* A database transaction holds the global lock from its first read to its *)
(* commit, so each transaction is one step; every await between two        *)
(* transactions separates two steps.                                       *)
(***************************************************************************)
EXTENDS QueuePolicy, Sequences, FiniteSets

CONSTANTS Message,            \* Discord source messages
          None,               \* stands for no message and for no board
          Board,              \* boards with a Bluesky handle
          Unconfigured,       \* boards for which no app password is set
          Url,                \* canonical URLs
          BoardOf,            \* the board whose channel holds the message
          LinksOf,            \* the canonical URLs in the message
          ReplyTo,            \* the message it replies to, or None
          PostedAt,           \* message.created_at
          Reposts,            \* messages whose first link is a Bluesky post
          Toxic,              \* messages Bluesky times out on, every time
          Doomed,             \* messages that fail as "unknown", every time (Posting.Endless)
          MaxSkipTries,       \* _MAX_SKIP_TRIES
          MaxFailedAttempts   \* _MAX_FAILED_ATTEMPTS_PER_TICK

CONSTANTS MaxId,              \* bound: submission ids
          MaxPosts,           \* bound: records created on Bluesky
          MaxFaults,          \* bound: crashes, lost responses, failed commits
          MaxEdits,           \* bound: removals and link replies
          MaxAge,             \* bound: midnights remembered, 0 for one long day
          MaxCutoff           \* bound: how far the freshness cutoff moves

ASSUME PublishingAssumption ==
    /\ None \notin Message \cup Board
    /\ Unconfigured \subseteq Board
    /\ BoardOf \in [Message -> Board]
    /\ LinksOf \in [Message -> SUBSET Url]
    /\ ReplyTo \in [Message -> Message \cup {None}]
    /\ PostedAt \in [Message -> Nat]
    /\ Reposts \subseteq Message /\ Toxic \subseteq Message /\ Doomed \subseteq Message
    /\ MaxSkipTries \in Nat /\ MaxFailedAttempts \in Nat
    /\ MaxId \in Nat /\ MaxPosts \in Nat /\ MaxFaults \in Nat
    /\ MaxEdits \in Nat /\ MaxAge \in Nat /\ MaxCutoff \in Nat

Id == 1 .. MaxId

VARIABLES
    \* the submissions table, with each row's links
    state,      \* Submission.state by id; "absent" when there is no row
    owner,      \* the row's source message
    links,      \* canonical URLs of the row's SubmissionLinks
    intake,     \* how far handle_reaction got with the row
    attempts,   \* the successful PublishAttempt rows
    \* the dispatcher task
    pc, todo, board, tickAge, skip, failed, tries, cur, plan, result,
    \* Bluesky: the records created there, in order; the index is the URI
    posts,
    \* time and the bounded environment
    cutoff, clock, faults, edits,
    \* observation only: URIs of posts the database no longer accounts for
    forgotten

rows == <<state, owner, links, intake>>
tick == <<pc, todo, board, tickAge, skip, failed, tries, cur, plan, result>>
env  == <<cutoff, clock, faults, edits>>
vars == <<rows, attempts, tick, posts, env, forgotten>>

----------------------------------------------------------------------------
(* INTENT_SUBMITTED, every AWAITING_* and READY_TO_QUEUE are "open" here: the
   publishing side tells them apart from the others, never from each other. *)
State    == {"open", "queued", "published", "publish_failed", "publish_blocked"}
Eligible == {"queued", "publish_failed"}

Live == {id \in Id : state[id] # "absent"}

(* real: error IS NULL, so not a duplicate-suppression row.
   age: local midnights since attempted_at, MaxAge standing for any more. *)
Attempt == [n : Nat, sub : Id, real : BOOLEAN, uri : Nat, root : Nat, age : 0 .. MaxAge]
Post    == [msg : Message \cup {None}, urls : SUBSET Url, parent : Nat, root : Nat]
Result  == [ok : BOOLEAN, uri : Nat,
            kind : {"upstream", "local", "unknown"}, wide : BOOLEAN]

NoPost   == 0
NoPlan   == [msg |-> None, urls |-> {}, parent |-> NoPost, root |-> NoPost]
NoResult == [ok |-> FALSE, uri |-> NoPost, kind |-> "unknown", wide |-> FALSE]

RowTypes ==
    /\ state \in [Id -> State \cup {"absent"}]
    /\ owner \in [Id -> Message \cup {None}]
    /\ \A id \in Live : owner[id] \in Message
    /\ links \in [Id -> SUBSET Url]
    /\ intake \in [Id -> {"created", "ingested", "done"}]

TickTypes ==
    /\ pc \in {"idle", "board", "pick", "picked", "network", "record"}
    /\ todo \subseteq Board
    /\ board \in Board \cup {None}
    /\ tickAge \in 0 .. 1
    /\ skip \subseteq Id
    /\ failed \in Nat /\ tries \in Nat
    /\ cur \in Id \cup {0}
    /\ pc \in {"picked", "network", "record"} => cur \in Id
    /\ plan \in Post
    /\ result \in Result

TypeOK ==
    /\ RowTypes /\ TickTypes
    /\ attempts \subseteq Attempt
    /\ posts \in Seq(Post)
    /\ cutoff \in Nat /\ clock \in Nat /\ faults \in Nat /\ edits \in Nat
    /\ forgotten \subseteq DOMAIN posts

Init ==
    /\ state = [id \in Id |-> "absent"]
    /\ owner = [id \in Id |-> None]
    /\ links = [id \in Id |-> {}]
    /\ intake = [id \in Id |-> "done"]
    /\ attempts = {}
    /\ pc = "idle" /\ todo = {} /\ board = None /\ tickAge = 0
    /\ skip = {} /\ failed = 0 /\ tries = 0
    /\ cur = 0 /\ plan = NoPlan /\ result = NoResult
    /\ posts = <<>>
    /\ cutoff = 0 /\ clock = 0 /\ faults = 0 /\ edits = 0
    /\ forgotten = {}

----------------------------------------------------------------------------
(* Rows of the submissions table. *)

(* The real attempts filed under a submission id, whether or not a row has
   that id: no foreign key is enforced, so they outlive and precede rows. *)
UrisOf(id) == {a.uri : a \in {x \in attempts : x.sub = id /\ x.real}}

(* _delete_submission_cascade: the row, its links and its attempts go. *)
DeleteRow(id) ==
    /\ state' = [state EXCEPT ![id] = "absent"]
    /\ owner' = [owner EXCEPT ![id] = None]
    /\ links' = [links EXCEPT ![id] = {}]
    /\ intake' = [intake EXCEPT ![id] = "done"]
    /\ attempts' = {a \in attempts : a.sub # id}
    /\ forgotten' = forgotten \cup UrisOf(id)

(* First transaction of handle_reaction for a message without a row.  SQLite
   assigns 1 + the largest id in use, so the id of a deleted last row returns. *)
Create(m, id) ==
    /\ \A i \in Live : owner[i] # m /\ i < id
    /\ id = 1 \/ id - 1 \in Live
    /\ state' = [state EXCEPT ![id] = "open"]
    /\ owner' = [owner EXCEPT ![id] = m]
    /\ links' = [links EXCEPT ![id] = {}]
    /\ intake' = [intake EXCEPT ![id] = "created"]
    /\ UNCHANGED <<attempts, tick, posts, env, forgotten>>

(* ingest_message_content: the links of the message are stored. *)
Ingest(id) ==
    /\ id \in Live /\ intake[id] = "created"
    /\ links' = [links EXCEPT ![id] = @ \cup LinksOf[owner[id]]]
    /\ intake' = [intake EXCEPT ![id] = "ingested"]
    /\ UNCHANGED <<state, owner, attempts, tick, posts, env, forgotten>>

(* _find_duplicate for one of the row's links: another submission with that
   link was published, or is still on its way. *)
Duplicated(id) ==
    \E s \in Live \ {id} :
        /\ links[s] \cap links[id] # {}
        /\ \/ \E a \in attempts : a.sub = s
           \/ state[s] \notin {"published", "publish_failed"}

(* Beat 4a of handle_reaction: a duplicate is deleted, anything else goes on to
   be curated. *)
Screen(id) ==
    /\ id \in Live /\ intake[id] = "ingested"
    /\ IF Duplicated(id)
       THEN DeleteRow(id)
       ELSE /\ intake' = [intake EXCEPT ![id] = "done"]
            /\ UNCHANGED <<state, owner, links, attempts, forgotten>>
    /\ UNCHANGED <<tick, posts, env>>

(* Discord did not give the thread in time: handle_reaction returns before the
   duplicate check, and the threadless retry later curates the row as it is. *)
ThreadFails(id) ==
    /\ id \in Live /\ intake[id] = "ingested"
    /\ intake' = [intake EXCEPT ![id] = "done"]
    /\ UNCHANGED <<state, owner, links, attempts, tick, posts, env, forgotten>>

(* The Queue button or its reaction, pressed when nothing is missing. *)
Confirm(id) ==
    /\ state[id] = "open" /\ intake[id] = "done"
    /\ state' = [state EXCEPT ![id] = "queued"]
    /\ UNCHANGED <<owner, links, intake, attempts, tick, posts, env, forgotten>>

(* The butterfly removed by a curator, the Cancel button, or its reaction in the
   thread or on the source message: refused only for published submissions. *)
Remove(id) ==
    /\ id \in Live /\ state[id] # "published"
    /\ edits < MaxEdits /\ edits' = edits + 1
    /\ DeleteRow(id)
    /\ UNCHANGED <<tick, posts, cutoff, clock, faults>>

(* A reply to a source request or a supplemental-link offer adds its links, in
   whatever state the submission is. *)
AddLinks(id, new) ==
    /\ id \in Live /\ intake[id] = "done" /\ ~(new \subseteq links[id])
    /\ edits < MaxEdits /\ edits' = edits + 1
    /\ links' = [links EXCEPT ![id] = @ \cup new]
    /\ UNCHANGED <<state, owner, intake, attempts, tick, posts,
                   cutoff, clock, faults, forgotten>>

(* A reply to a metadata request replaces the primary link. *)
ReplaceLink(id, old, new) ==
    /\ id \in Live /\ intake[id] = "done" /\ old \in links[id] /\ new # old
    /\ edits < MaxEdits /\ edits' = edits + 1
    /\ links' = [links EXCEPT ![id] = (@ \ {old}) \cup {new}]
    /\ forgotten' = forgotten \cup {p \in UrisOf(id) : old \in posts[p].urls}
    /\ UNCHANGED <<state, owner, intake, attempts, tick, posts, cutoff, clock, faults>>

(* admin/requeue_blocked.py *)
Requeue(id) ==
    /\ state[id] = "publish_blocked"
    /\ state' = [state EXCEPT ![id] = "publish_failed"]
    /\ UNCHANGED <<owner, links, intake, attempts, tick, posts, env, forgotten>>

----------------------------------------------------------------------------
(* The dispatcher task: run_queue_dispatcher, _fire_all_boards, _fire_board. *)

(* The hour has come and the health probe answered; mt_midnight is taken now. *)
StartTick ==
    /\ pc = "idle"
    /\ pc' = "board" /\ todo' = Board /\ tickAge' = 0
    /\ UNCHANGED <<board, skip, failed, tries, cur, plan, result>>
    /\ UNCHANGED <<rows, attempts, posts, env, forgotten>>

EndTick ==
    /\ pc = "board" /\ todo = {}
    /\ pc' = "idle"
    /\ UNCHANGED <<todo, board, tickAge, skip, failed, tries, cur, plan, result>>
    /\ UNCHANGED <<rows, attempts, posts, env, forgotten>>

RowsOf(b)   == {id \in Live : BoardOf[owner[id]] = b}
QueueOf(b)  == {id \in RowsOf(b) : state[id] \in Eligible}

(* count_posts_today: real attempts that join a row of the board. *)
PostsToday(b) ==
    Cardinality({a \in attempts : a.real /\ a.sub \in RowsOf(b) /\ a.age <= tickAge})

\* Mutant of OpenBoard: off by one.
OpenBoardAtCap(b) ==
    /\ pc = "board" /\ b \in todo
    /\ todo' = todo \ {b}
    /\ IF PostsToday(b) > DailyCap(Cardinality(QueueOf(b)))
       THEN UNCHANGED <<pc, board>>
       ELSE pc' = "pick" /\ board' = b
    /\ UNCHANGED <<tickAge, skip, failed, tries, cur, plan, result>>
    /\ UNCHANGED <<rows, attempts, posts, env, forgotten>>

(* _fire_board's first transaction: a board at its daily cap is passed over. *)
OpenBoard(b) ==
    /\ pc = "board" /\ b \in todo
    /\ todo' = todo \ {b}
    /\ IF PostsToday(b) >= DailyCap(Cardinality(QueueOf(b)))
       THEN UNCHANGED <<pc, board>>
       ELSE pc' = "pick" /\ board' = b
    /\ UNCHANGED <<tickAge, skip, failed, tries, cur, plan, result>>
    /\ UNCHANGED <<rows, attempts, posts, env, forgotten>>

(* The dispatcher is done with the board it was at. *)
LeaveBoard ==
    /\ pc' = "board" /\ board' = None
    /\ skip' = {} /\ failed' = 0 /\ tries' = 0
    /\ cur' = 0 /\ plan' = NoPlan /\ result' = NoResult
    /\ UNCHANGED <<todo, tickAge>>

\* Mutant of TryNext: the submission is not added to skip_ids.
TryNextUnskipped(spent) ==
    /\ pc' = "pick" /\ skip' = skip /\ failed' = failed + spent
    /\ cur' = 0 /\ plan' = NoPlan /\ result' = NoResult
    /\ UNCHANGED <<todo, board, tickAge, tries>>

(* The dispatcher skips the submission it has and looks for the next one. *)
TryNext(spent) ==
    /\ pc' = "pick" /\ skip' = skip \cup {cur} /\ failed' = failed + spent
    /\ cur' = 0 /\ plan' = NoPlan /\ result' = NoResult
    /\ UNCHANGED <<todo, board, tickAge, tries>>

(* FAILED and BLOCKED outcomes use up one of the tick's failed attempts. *)
CountFailure == IF failed + 1 >= MaxFailedAttempts THEN LeaveBoard ELSE TryNext(1)

Candidates == QueueOf(board) \ skip

(* pick_next_for_board, fresh before backlog and the oldest date first. *)
Pick(id) ==
    /\ pc = "pick" /\ tries < MaxSkipTries
    /\ id \in Candidates
    /\ \A i \in Candidates :
          TakenBefore(PostedAt[owner[id]], PostedAt[owner[i]], cutoff)
    /\ pc' = "picked" /\ cur' = id /\ tries' = tries + 1
    /\ UNCHANGED <<todo, board, tickAge, skip, failed, plan, result>>
    /\ UNCHANGED <<rows, attempts, posts, env, forgotten>>

(* Nothing left to try, or the skip limit is reached. *)
GiveUp ==
    /\ pc = "pick"
    /\ Candidates = {} \/ tries = MaxSkipTries
    /\ LeaveBoard
    /\ UNCHANGED <<rows, attempts, posts, env, forgotten>>

----------------------------------------------------------------------------
(* publish_queued_submission, beat 1.  fetch_channel was awaited since the pick:
   cur is only an id now, and nothing looks at the state of its row again. *)

Parents(id) ==
    {p \in Live : owner[p] = ReplyTo[owner[id]] /\ BoardOf[owner[p]] = BoardOf[owner[id]]}

(* _resolve_parent_ref: the parent was reacted to but is not published yet. *)
Deferred(id) == \E p \in Parents(id) : state[p] # "published"

Newest(S) == {a \in S : \A b \in S : b.n <= a.n}

(* The newest successful attempt of the parent, if there is one. *)
ParentAttempts(id) == Newest({a \in attempts : a.sub \in Parents(id)})

\* Mutant of PriorPosts: it asks for earlier submissions instead of others.
PriorPostsEarlier(id, u) ==
    {a \in attempts : /\ a.real /\ a.sub \in Live /\ a.sub < id
                      /\ u \in links[a.sub]}

(* _find_publish_time_duplicate for one of the row's links: the real attempts of
   other submissions that have that link. *)
PriorPosts(id, u) ==
    {a \in attempts : /\ a.real /\ a.sub \in Live \ {id}
                      /\ u \in links[a.sub]}

AddAttempt(a) == attempts' = attempts \cup {a} /\ clock' = clock + 1

Vanished ==
    /\ pc = "picked" /\ cur \notin Live
    /\ CountFailure
    /\ UNCHANGED <<rows, attempts, posts, env, forgotten>>

(* No app password: blocked, and the board's tick is over. *)
MissingPassword ==
    /\ pc = "picked" /\ cur \in Live /\ BoardOf[owner[cur]] \in Unconfigured
    /\ state' = [state EXCEPT ![cur] = "publish_blocked"]
    /\ LeaveBoard
    /\ UNCHANGED <<owner, links, intake, attempts, posts, env, forgotten>>

Configured == pc = "picked" /\ cur \in Live /\ BoardOf[owner[cur]] \notin Unconfigured

\* Mutant of Defer: a deferral uses up one of the tick's failed attempts.
DeferAsFailure ==
    /\ Configured /\ Deferred(cur)
    /\ CountFailure
    /\ UNCHANGED <<rows, attempts, posts, env, forgotten>>

Defer ==
    /\ Configured /\ Deferred(cur)
    /\ TryNext(0)
    /\ UNCHANGED <<rows, attempts, posts, env, forgotten>>

(* The content is on Bluesky already: the row is closed as published, with a
   copy of the earlier attempt's URIs. *)
Suppress ==
    /\ Configured /\ ~Deferred(cur)
    /\ \E u \in links[cur] : \E a \in Newest(PriorPosts(cur, u)) :
          AddAttempt([n |-> clock, sub |-> cur, real |-> FALSE,
                      uri |-> a.uri, root |-> a.root, age |-> 0])
    /\ state' = [state EXCEPT ![cur] = "published"]
    /\ TryNext(0)
    /\ UNCHANGED <<owner, links, intake, posts, cutoff, faults, edits, forgotten>>

(* The plan is captured and the lock released for the network call. *)
PlanPost ==
    /\ Configured /\ ~Deferred(cur)
    /\ \A u \in links[cur] : PriorPosts(cur, u) = {}
    /\ plan' \in
          IF ParentAttempts(cur) = {}
          THEN {[msg |-> owner[cur], urls |-> links[cur], parent |-> NoPost, root |-> NoPost]}
          ELSE {[msg |-> owner[cur], urls |-> links[cur], parent |-> a.uri, root |-> a.root]
                  : a \in ParentAttempts(cur)}
    /\ pc' = "network"
    /\ UNCHANGED <<todo, board, tickAge, skip, failed, tries, cur, result>>
    /\ UNCHANGED <<rows, attempts, posts, env, forgotten>>

----------------------------------------------------------------------------
(* Beat 2: publish_submission talks to Bluesky with no lock held. *)

NewUri == Len(posts) + 1

\* Mutant of RecordOf: the parent is taken for the root.
RecordOfFlat(p) ==
    IF p.parent = NoPost \/ p.msg \in Reposts
    THEN [p EXCEPT !.parent = NoPost, !.root = NewUri]
    ELSE [p EXCEPT !.root = p.parent]

(* The record Bluesky stores.  A repost carries no reply reference, and a post
   without one is its own root. *)
RecordOf(p) ==
    IF p.parent = NoPost \/ p.msg \in Reposts
    THEN [p EXCEPT !.parent = NoPost, !.root = NewUri]
    ELSE p

CreateRecord ==
    /\ pc = "network" /\ plan.msg \notin Toxic \cup Doomed /\ NewUri <= MaxPosts
    /\ posts' = Append(posts, RecordOf(plan))

Answered(r) ==
    /\ pc' = "record" /\ result' = r
    /\ UNCHANGED <<todo, board, tickAge, skip, failed, tries, cur, plan>>

PostCreated ==
    /\ CreateRecord
    /\ Answered([NoResult EXCEPT !.ok = TRUE, !.uri = NewUri])
    /\ UNCHANGED <<rows, attempts, env, forgotten>>

(* The record was created but the answer did not come: a timeout. *)
ResponseLost ==
    /\ faults < MaxFaults /\ faults' = faults + 1
    /\ CreateRecord
    /\ forgotten' = forgotten \cup {NewUri}
    /\ Answered([NoResult EXCEPT !.kind = "upstream"])
    /\ UNCHANGED <<rows, attempts, cutoff, clock, edits>>

(* Only a failed login is board-wide. *)
PostFails(kind, wide) ==
    /\ pc = "network"
    /\ plan.msg \in Toxic => kind = "upstream" /\ ~wide
    /\ Answered([NoResult EXCEPT !.kind = kind, !.wide = wide])
    /\ UNCHANGED <<rows, attempts, posts, env, forgotten>>

----------------------------------------------------------------------------
(* Beats 3 and 4: record the result under the id, whatever row has it now. *)

FailureState == IF result.kind = "local" THEN "publish_blocked" ELSE "publish_failed"

\* Mutant of RecordFailure: the state is written although the row is gone.
RecordFailureUnchecked ==
    /\ pc = "record" /\ ~result.ok
    /\ state' = [state EXCEPT ![cur] = FailureState]
    /\ IF result.kind = "upstream" \/ result.wide THEN LeaveBoard ELSE CountFailure
    /\ UNCHANGED <<owner, links, intake, attempts, posts, env, forgotten>>

RecordFailure ==
    /\ pc = "record" /\ ~result.ok
    /\ state' = IF cur \in Live THEN [state EXCEPT ![cur] = FailureState] ELSE state
    /\ IF result.kind = "upstream" \/ result.wide THEN LeaveBoard ELSE CountFailure
    /\ UNCHANGED <<owner, links, intake, attempts, posts, env, forgotten>>

(* The row the plan was made from is there and still has all its links. *)
Accounted == cur \in Live /\ owner[cur] = plan.msg /\ plan.urls \subseteq links[cur]

\* Mutant of RecordSuccess: every post is stored as the root of its thread.
RecordSuccessAsRoot ==
    /\ pc = "record" /\ result.ok
    /\ AddAttempt([n |-> clock, sub |-> cur, real |-> TRUE, uri |-> result.uri,
                   root |-> result.uri, age |-> 0])
    /\ state' = IF cur \in Live THEN [state EXCEPT ![cur] = "published"] ELSE state
    /\ forgotten' = IF Accounted THEN forgotten ELSE forgotten \cup {result.uri}
    /\ LeaveBoard
    /\ UNCHANGED <<owner, links, intake, posts, cutoff, faults, edits>>

RecordSuccess ==
    /\ pc = "record" /\ result.ok
    /\ AddAttempt([n |-> clock, sub |-> cur, real |-> TRUE, uri |-> result.uri,
                   root |-> IF plan.parent = NoPost THEN result.uri ELSE plan.root,
                   age |-> 0])
    /\ state' = IF cur \in Live THEN [state EXCEPT ![cur] = "published"] ELSE state
    /\ forgotten' = IF Accounted THEN forgotten ELSE forgotten \cup {result.uri}
    /\ LeaveBoard
    /\ UNCHANGED <<owner, links, intake, posts, cutoff, faults, edits>>

(* The post exists but the database does not say so. *)
Unrecorded == IF pc = "record" /\ result.ok THEN {result.uri} ELSE {}

(* The transaction of beat 3 fails; _fire_all_boards logs it and goes on. *)
RecordError ==
    /\ pc = "record" /\ faults < MaxFaults /\ faults' = faults + 1
    /\ forgotten' = forgotten \cup Unrecorded
    /\ LeaveBoard
    /\ UNCHANGED <<rows, attempts, posts, cutoff, clock, edits>>

(* The process stops and starts again.  Tasks are gone, rows stay; a row whose
   intake was cut off is curated as it is. *)
Crash ==
    /\ faults < MaxFaults /\ faults' = faults + 1
    /\ forgotten' = forgotten \cup Unrecorded
    /\ intake' = [id \in Id |-> "done"]
    /\ pc' = "idle" /\ todo' = {} /\ board' = None /\ tickAge' = 0
    /\ skip' = {} /\ failed' = 0 /\ tries' = 0
    /\ cur' = 0 /\ plan' = NoPlan /\ result' = NoResult
    /\ UNCHANGED <<state, owner, links, attempts, posts, cutoff, clock, edits>>

----------------------------------------------------------------------------
(* Time.  A tick lasts less than a day; the cutoff is read when one starts. *)

Midnight ==
    /\ MaxAge > 0
    /\ pc = "idle" \/ tickAge = 0
    /\ attempts' = {[a EXCEPT !.age = Smaller(@ + 1, MaxAge)] : a \in attempts}
    /\ tickAge' = IF pc = "idle" THEN 0 ELSE 1
    /\ UNCHANGED <<pc, todo, board, skip, failed, tries, cur, plan, result>>
    /\ UNCHANGED <<rows, posts, env, forgotten>>

GrowOlder ==
    /\ pc = "idle" /\ cutoff < MaxCutoff
    /\ cutoff' = cutoff + 1
    /\ UNCHANGED <<rows, attempts, tick, posts, clock, faults, edits, forgotten>>

----------------------------------------------------------------------------
Curators ==
    \E id \in Id :
        \/ \E m \in Message : Create(m, id)
        \/ Ingest(id) \/ Screen(id) \/ ThreadFails(id)
        \/ Confirm(id) \/ Remove(id) \/ Requeue(id)
        \/ \E new \in SUBSET Url : AddLinks(id, new)
        \/ \E old, new \in Url : ReplaceLink(id, old, new)

Dispatcher ==
    \/ StartTick \/ EndTick \/ GiveUp
    \/ \E b \in Board : OpenBoard(b)
    \/ \E id \in Id : Pick(id)
    \/ Vanished \/ MissingPassword \/ Defer \/ Suppress \/ PlanPost
    \/ RecordFailure \/ RecordSuccess

Bluesky ==
    \/ PostCreated \/ ResponseLost
    \/ \E k \in {"upstream", "local", "unknown"}, w \in BOOLEAN : PostFails(k, w)

Next == Curators \/ Dispatcher \/ Bluesky \/ RecordError \/ Crash \/ Midnight \/ GrowOlder

Spec == Init /\ [][Next]_vars

(* The dispatcher is one task whose loop catches every exception, and its calls
   to Bluesky time out; days go by; a message that can be posted is accepted in
   the end when it is tried again and again, and one that never can gets as far
   as its own failure then.  Nothing is assumed of curators. *)
FairSpec ==
    /\ Spec
    /\ WF_vars(Dispatcher) /\ WF_vars(Bluesky) /\ WF_vars(Midnight)
    /\ \A m \in Message \ (Toxic \cup Doomed) : SF_vars(plan.msg = m /\ PostCreated)
    /\ \A m \in Doomed : SF_vars(plan.msg = m /\ PostFails("unknown", FALSE))

----------------------------------------------------------------------------
(* Properties. *)

Kept == DOMAIN posts \ forgotten

(* No link is on Bluesky twice, except in posts the database lost track of: the
   answer was lost, the process or the last commit failed, the submission was
   removed while its publish was in flight, or its link was replaced afterwards.
   Everything else - concurrent reactions, retries, a duplicate that passed the
   intake check, links added at any time, reused ids - is caught in time. *)
NoDoublePost ==
    \A p, q \in Kept : p # q => posts[p].urls \cap posts[q].urls = {}

(* A reply hangs in the thread of the post it replies to, through retries,
   suppressed parents and restarts (Bluesky shows it nowhere otherwise). *)
RepliesInThread ==
    \A p \in DOMAIN posts :
        LET parent == posts[p].parent
        IN  parent # NoPost =>
              /\ parent \in 1 .. p - 1
              /\ posts[parent].msg \notin Reposts => posts[p].root = posts[parent].root

(* What was posted on one local day for the board, by the count the dispatcher takes. *)
PostedOn(b, age) == {a \in attempts : a.real /\ a.sub \in RowsOf(b) /\ a.age = age}

(* No board has more than the maximum on one day, even when a tick runs across
   midnight with the day's start it read before.  Not so once a row was removed: a
   reused id can bring another board's submission into the tick (see Vanished).
   MaxAge is no one day's age: it stands for all days before. *)
DailyCapHeld ==
    edits = 0 =>
        \A b \in Board, age \in 0 .. 1 :
            age = 0 \/ age < MaxAge =>
                Cardinality(PostedOn(b, age)) <= Larger(QueueMin, QueueMax)

(* A queued submission that can be posted does not stay queued for ever, however often
   publishing fails on the way, unless the submission it replies to is still not published:
   failing, deferred and duplicate submissions ahead of it do not starve it, up to the two
   limits of a tick.  On its board there are fewer submissions that fail for ever than the
   tick's failed attempts, and fewer of those and of replies (deferred perhaps for ever)
   than its tries; and none that Bluesky always times out on, which ends the tick of its
   board whenever it is tried, but of no other board. *)
Waiting(m) == \E id \in Live : owner[id] = m /\ state[id] \in Eligible
Held(m)    == \E id \in Live : owner[id] = m /\ Deferred(id)

Others(m)    == {x \in Message \ {m} : BoardOf[x] = BoardOf[m]}
Replies      == {x \in Message : ReplyTo[x] # None}
Uncrowded(m) ==
    /\ BoardOf[m] \notin Unconfigured /\ Others(m) \cap Toxic = {}
    /\ Cardinality(Others(m) \cap Doomed) < MaxFailedAttempts
    /\ Cardinality(Others(m) \cap (Doomed \cup Replies)) < MaxSkipTries

Drains ==
    \A m \in Message \ (Toxic \cup Doomed) :
        Uncrowded(m) => (Waiting(m) ~> (~Waiting(m) \/ Held(m)))

(* What a comment promises and the code does not keep. *)

(* "Block removal of already-published submissions to prevent duplicate posts"
   (handlers.py:313): without faults, nothing is posted twice. *)
NeverPostedTwice ==
    \A p, q \in DOMAIN posts : p # q => posts[p].urls \cap posts[q].urls = {}

(* The feed the dispatcher produces is one that Feed promises. *)
F == INSTANCE Feed WITH NotAThread <- Reposts
ImplementsFeed == F!Spec
============================================================================
