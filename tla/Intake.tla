------------------------------- MODULE Intake -------------------------------
(***************************************************************************)
(* From the butterfly reaction to a submission that is asked about in its  *)
(* own private thread (discord_ingest/service.py, discord_ingest/client.py)*)
(*                                                                         *)
(* handle_reaction runs in beats: short transactions under the database    *)
(* lock, and the slow calls (downloads, creating the thread) between them  *)
(* with that lock released.  Reactions on one message are serialized by a  *)
(* lock per message, which the threadless-retry loop takes as well; the    *)
(* removal of a submission, the deletion of a thread and the replay of the *)
(* threads after a restart take no such lock.                              *)
(***************************************************************************)
EXTENDS Naturals, Sequences, FiniteSets

CONSTANTS Message,      \* Discord source messages
          None,         \* stands for no message and no task
          Url,          \* canonical URLs
          LinksOf,      \* the canonical URLs in a message
          Handler,      \* tasks that run handle_reaction
          Retrier,      \* the task of _run_threadless_retry_loop
          Scanner,      \* the task of _run_catchup and _run_thread_catchup
          MaxId,        \* bound: submission ids
          MaxThreads,   \* bound: threads created
          MaxRemovals,  \* bound: submissions removed
          MaxDeletions, \* bound: threads deleted
          MaxCrashes,   \* bound: restarts
          MaxOutages,   \* bound: late answers, failed lookups, scans given up
          MaxEvents     \* bound: all of these together

ASSUME IntakeAssumption ==
    /\ None \notin Message \cup Handler \cup {Retrier, Scanner}
    /\ Handler \cap {Retrier, Scanner} = {} /\ Retrier # Scanner
    /\ LinksOf \in [Message -> SUBSET Url]
    /\ {MaxId, MaxThreads, MaxRemovals, MaxDeletions, MaxCrashes, MaxOutages, MaxEvents} \subseteq Nat

Id     == 1 .. MaxId
Thread == 1 .. MaxThreads
Task   == Handler \cup {Retrier, Scanner}

VARIABLES
    \* the database
    owner,      \* Submission.source_discord_message_id by id, None without a row
    content,    \* the canonical URLs of the row's links
    threadOf,   \* Submission.thread_id
    closed,     \* rows that are queued or further
    mapping,    \* SubmissionThread: the thread of a message, 0 for none
    \* Discord
    threads,    \* the threads created, in order: the message each is about
    gone,       \* the deleted ones among them
    marked,     \* messages that bear the butterfly
    prompted,   \* rows whose open questions were posted
    \* the tasks
    lock,       \* _message_processing_locks: the task that holds a message's
    pc, msg, sub, thread, created,
    todo,       \* what the retry loop found in its scan
    booting,    \* the catch-up of this start has not read the open threads yet
    missed,     \* the messages it has still to look at
    replay,     \* the open threads it has still to look at
    \* observation only: threads made for a row that was not their message's any more
    astray,
    \* the bounded environment
    removals, deletions, crashes, outages

rows  == <<owner, content, threadOf, closed>>
tasks == <<lock, pc, msg, sub, thread, created>>
db    == <<rows, mapping, prompted>>
chat  == <<threads, gone, marked, astray>>
boot  == <<booting, missed, replay>>
limit == <<removals, deletions, crashes, outages>>
vars  == <<db, chat, tasks, todo, boot, limit>>

Live == {id \in Id : owner[id] # None}
Disturbable == removals + deletions + crashes + outages < MaxEvents

TypeOK ==
    /\ owner \in [Id -> Message \cup {None}]
    /\ content \in [Id -> SUBSET Url]
    /\ threadOf \in [Id -> Thread \cup {0}]
    /\ closed \subseteq Live /\ prompted \subseteq Live
    /\ mapping \in [Message -> Thread \cup {0}]
    /\ threads \in Seq(Message) /\ gone \subseteq DOMAIN threads
    /\ marked \subseteq Message /\ astray \subseteq DOMAIN threads
    /\ lock \in [Message -> Task \cup {None}]
    /\ pc \in [Task -> {"idle", "waiting", "load", "recheck", "ingest", "read",
                        "discord", "persist", "screen", "curate"}]
    /\ msg \in [Task -> Message \cup {None}]
    /\ sub \in [Task -> Id \cup {0}]
    /\ thread \in [Task -> Thread \cup {0}]
    /\ created \in [Task -> BOOLEAN]
    /\ todo \subseteq [sub : Id, msg : Message]
    /\ booting \in BOOLEAN /\ missed \subseteq Message
    /\ replay \subseteq [sub : Id, thread : Thread]
    /\ removals \in 0 .. MaxRemovals /\ deletions \in 0 .. MaxDeletions
    /\ crashes \in 0 .. MaxCrashes /\ outages \in 0 .. MaxOutages

Init ==
    /\ owner = [id \in Id |-> None]
    /\ content = [id \in Id |-> {}]
    /\ threadOf = [id \in Id |-> 0]
    /\ closed = {} /\ prompted = {}
    /\ mapping = [m \in Message |-> 0]
    /\ threads = <<>> /\ gone = {} /\ marked = {} /\ astray = {}
    /\ lock = [m \in Message |-> None]
    /\ pc = [p \in Task |-> "idle"]
    /\ msg = [p \in Task |-> None]
    /\ sub = [p \in Task |-> 0]
    /\ thread = [p \in Task |-> 0]
    /\ created = [p \in Task |-> FALSE]
    /\ todo = {} /\ booting = TRUE /\ missed = Message /\ replay = {}
    /\ removals = 0 /\ deletions = 0 /\ crashes = 0 /\ outages = 0

----------------------------------------------------------------------------
(* Helpers. *)

Goto(p, next) == pc' = [pc EXCEPT ![p] = next]

(* The task waits for its turn on a message. *)
Queue(p, m) ==
    /\ Goto(p, "waiting") /\ msg' = [msg EXCEPT ![p] = m]
    /\ UNCHANGED <<lock, thread, created>>

(* The task leaves the locked section: back to where it came from. *)
Finish(p) ==
    /\ lock' = [lock EXCEPT ![msg[p]] = None]
    /\ pc' = [pc EXCEPT ![p] = "idle"]
    /\ msg' = [msg EXCEPT ![p] = None]
    /\ sub' = [sub EXCEPT ![p] = 0]
    /\ thread' = [thread EXCEPT ![p] = 0]
    /\ created' = [created EXCEPT ![p] = FALSE]

(* _delete_submission_cascade: everything of the row but its thread mapping. *)
DeleteRow(id) ==
    /\ owner' = [owner EXCEPT ![id] = None]
    /\ content' = [content EXCEPT ![id] = {}]
    /\ threadOf' = [threadOf EXCEPT ![id] = 0]
    /\ closed' = closed \ {id} /\ prompted' = prompted \ {id}

(* cancel_submission_for_deleted_thread: an open submission goes with it. *)
Purge(t) ==
    IF \E id \in Live \ closed : threadOf[id] = t
    THEN \E id \in Live \ closed : threadOf[id] = t /\ DeleteRow(id)
    ELSE UNCHANGED <<rows, prompted>>

----------------------------------------------------------------------------
(* handle_reaction *)

React(p, m) ==
    /\ p \in Handler /\ pc[p] = "idle"
    /\ marked' = marked \cup {m}
    /\ Queue(p, m)
    /\ UNCHANGED <<db, threads, gone, astray, sub, todo, boot, limit>>

Acquire(p) ==
    /\ pc[p] = "waiting" /\ lock[msg[p]] = None
    /\ lock' = [lock EXCEPT ![msg[p]] = p]
    /\ Goto(p, IF p = Retrier THEN "recheck" ELSE "load")
    /\ UNCHANGED <<db, chat, msg, sub, thread, created, todo, boot, limit>>

(* Beat 1: the message's row is loaded, or created with the next free id. *)
LoadOrCreate(p) ==
    /\ pc[p] = "load"
    /\ \/ \E id \in Live :
            /\ owner[id] = msg[p]
            /\ sub' = [sub EXCEPT ![p] = id]
            /\ Goto(p, "read")
            /\ UNCHANGED <<owner, created>>
       \/ \E id \in Id :
            /\ \A i \in Live : owner[i] # msg[p] /\ i < id
            /\ id = 1 \/ id - 1 \in Live
            /\ owner' = [owner EXCEPT ![id] = msg[p]]
            /\ sub' = [sub EXCEPT ![p] = id] /\ created' = [created EXCEPT ![p] = TRUE]
            /\ Goto(p, "ingest")
    /\ UNCHANGED <<content, threadOf, closed, mapping, prompted, chat, lock, msg, thread,
                   todo, boot, limit>>

(* ingest_message_content stores the message's links under the id. *)
Ingest(p) ==
    /\ pc[p] = "ingest"
    /\ content' = IF sub[p] \in Live
                  THEN [content EXCEPT ![sub[p]] = @ \cup LinksOf[msg[p]]]
                  ELSE content
    /\ Goto(p, "read")
    /\ UNCHANGED <<owner, threadOf, closed, mapping, prompted, chat, lock, msg, sub, thread,
                   created, todo, boot, limit>>

----------------------------------------------------------------------------
(* ensure_thread_persisted *)

ReadMapping(p) ==
    /\ pc[p] = "read"
    /\ IF sub[p] \in Live
       THEN /\ thread' = [thread EXCEPT ![p] = mapping[owner[sub[p]]]]
            /\ Goto(p, "discord")
            /\ UNCHANGED <<lock, msg, sub, created>>
       ELSE Finish(p)
    /\ UNCHANGED <<db, chat, todo, boot, limit>>

(* The mapped thread still exists and is used again. *)
Resolve(p) ==
    /\ pc[p] = "discord" /\ thread[p] \in DOMAIN threads \ gone
    /\ Goto(p, "persist")
    /\ UNCHANGED <<db, chat, lock, msg, sub, thread, created, todo, boot, limit>>

(* _resolve_thread takes any error for a thread that is gone. *)
ResolveFails(p) ==
    /\ pc[p] = "discord" /\ thread[p] \in DOMAIN threads \ gone
    /\ Disturbable /\ outages < MaxOutages /\ outages' = outages + 1
    /\ thread' = [thread EXCEPT ![p] = 0]
    /\ UNCHANGED <<db, chat, lock, pc, msg, sub, created, todo, boot, removals, deletions,
                   crashes>>

NeedsThread(p) == pc[p] = "discord" /\ thread[p] \notin DOMAIN threads \ gone

(* Discord creates a thread about the message the task was started with. *)
NewThread(p) ==
    /\ Len(threads) < MaxThreads
    /\ threads' = Append(threads, msg[p])
    /\ astray' = IF sub[p] \in Live /\ owner[sub[p]] = msg[p] THEN astray
                 ELSE astray \cup {Len(threads')}

CreateThread(p) ==
    /\ NeedsThread(p) /\ NewThread(p)
    /\ thread' = [thread EXCEPT ![p] = Len(threads')]
    /\ Goto(p, "persist")
    /\ UNCHANGED <<db, gone, marked, lock, msg, sub, created, todo, boot, limit>>

(* Rate-limited or refused: the row stays without a thread. *)
ThreadFails(p) ==
    /\ NeedsThread(p)
    /\ Finish(p)
    /\ UNCHANGED <<db, chat, todo, boot, limit>>

(* The 15 seconds pass, and Discord creates the thread all the same. *)
CreatedTooLate(p) ==
    /\ NeedsThread(p) /\ NewThread(p)
    /\ Disturbable /\ outages < MaxOutages /\ outages' = outages + 1
    /\ Finish(p)
    /\ UNCHANGED <<db, gone, marked, todo, boot, removals, deletions, crashes>>

\* Mutant of PersistMapping: a mapping that exists is kept.
PersistFirstMapping(p) ==
    /\ pc[p] = "persist"
    /\ IF sub[p] \in Live
       THEN /\ threadOf' = [threadOf EXCEPT ![sub[p]] = thread[p]]
            /\ mapping' = [mapping EXCEPT ![owner[sub[p]]] = IF @ = 0 THEN thread[p] ELSE @]
            /\ Goto(p, IF created[p] THEN "screen" ELSE "curate")
            /\ UNCHANGED <<lock, msg, sub, thread, created>>
       ELSE Finish(p) /\ UNCHANGED <<threadOf, mapping>>
    /\ UNCHANGED <<owner, content, closed, prompted, chat, todo, boot, limit>>

(* The thread is recorded for the row that has the id now. *)
PersistMapping(p) ==
    /\ pc[p] = "persist"
    /\ IF sub[p] \in Live
       THEN /\ threadOf' = [threadOf EXCEPT ![sub[p]] = thread[p]]
            /\ mapping' = [mapping EXCEPT ![owner[sub[p]]] = thread[p]]
            /\ Goto(p, IF created[p] THEN "screen" ELSE "curate")
            /\ UNCHANGED <<lock, msg, sub, thread, created>>
       ELSE Finish(p) /\ UNCHANGED <<threadOf, mapping>>
    /\ UNCHANGED <<owner, content, closed, prompted, chat, todo, boot, limit>>

----------------------------------------------------------------------------
(* Beat 4 of handle_reaction. *)

\* Mutant of Duplicated: a row that is being ingested counts before its links do.
DuplicatedByMessage(id) ==
    \E p \in Task : msg[p] # None /\ msg[p] # owner[id] /\ LinksOf[msg[p]] \cap content[id] # {}

(* _find_duplicate, for rows that were never published. *)
Duplicated(id) == \E s \in Live \ {id} : content[s] \cap content[id] # {}

(* A duplicate is deleted, and its butterfly cleared. *)
Screen(p) ==
    /\ pc[p] = "screen"
    /\ \/ /\ sub[p] \in Live /\ Duplicated(sub[p])
          /\ DeleteRow(sub[p]) /\ marked' = marked \ {msg[p]}
          /\ Finish(p)
       \/ /\ sub[p] \in Live /\ ~Duplicated(sub[p])
          /\ Goto(p, "curate")
          /\ UNCHANGED <<rows, prompted, marked, lock, msg, sub, thread, created>>
       \/ /\ sub[p] \notin Live
          /\ Finish(p)
          /\ UNCHANGED <<rows, prompted, marked>>
    /\ UNCHANGED <<mapping, threads, gone, astray, todo, boot, limit>>

\* Mutant of Curate: it is not asked whether the row is still there.
CurateUnchecked(p) ==
    /\ pc[p] = "curate"
    /\ prompted' = prompted \cup {sub[p]}
    /\ Finish(p)
    /\ UNCHANGED <<rows, mapping, chat, todo, boot, limit>>

(* recompute_and_request posts what is missing, if the row is there. *)
Curate(p) ==
    /\ pc[p] = "curate"
    /\ prompted' = prompted \cup ({sub[p]} \cap Live)
    /\ Finish(p)
    /\ UNCHANGED <<rows, mapping, chat, todo, boot, limit>>

----------------------------------------------------------------------------
(* _run_threadless_retry_loop *)

Threadless(id) == id \in Live /\ mapping[owner[id]] = 0

Scan ==
    /\ pc[Retrier] = "idle" /\ todo = {}
    /\ todo' = {[sub |-> id, msg |-> owner[id]] : id \in {i \in Live : Threadless(i)}}
    /\ UNCHANGED <<db, chat, tasks, boot, limit>>

RetryNext(x) ==
    /\ pc[Retrier] = "idle" /\ x \in todo
    /\ todo' = todo \ {x}
    /\ Queue(Retrier, x.msg) /\ sub' = [sub EXCEPT ![Retrier] = x.sub]
    /\ UNCHANGED <<db, chat, boot, limit>>

\* Mutant of Recheck: the retry loop trusts what its scan saw (issue #52).
RecheckNothing ==
    /\ pc[Retrier] = "recheck"
    /\ Goto(Retrier, "discord") /\ thread' = [thread EXCEPT ![Retrier] = 0]
    /\ UNCHANGED <<db, chat, lock, msg, sub, created, todo, boot, limit>>

(* Under the message's lock, the id is looked at again. *)
Recheck ==
    /\ pc[Retrier] = "recheck"
    /\ IF Threadless(sub[Retrier])
       THEN Goto(Retrier, "read") /\ UNCHANGED <<lock, msg, sub, thread, created>>
       ELSE Finish(Retrier)
    /\ UNCHANGED <<db, chat, todo, boot, limit>>

----------------------------------------------------------------------------
(* After a start: _run_catchup, then _run_thread_catchup. *)

\* Mutant of CatchUp: messages that have a submission are skipped.
CatchUpNew(m) ==
    /\ pc[Scanner] = "idle" /\ m \in missed
    /\ missed' = missed \ {m}
    /\ IF m \in marked /\ \A id \in Live : owner[id] # m
       THEN Queue(Scanner, m) /\ sub' = sub
       ELSE UNCHANGED tasks
    /\ UNCHANGED <<db, chat, todo, booting, replay, limit>>

CatchUp(m) ==
    /\ pc[Scanner] = "idle" /\ m \in missed
    /\ missed' = missed \ {m}
    /\ IF m \in marked
       THEN Queue(Scanner, m) /\ sub' = sub
       ELSE UNCHANGED tasks
    /\ UNCHANGED <<db, chat, todo, booting, replay, limit>>

(* The scan of a channel takes too long. *)
ScanTimesOut ==
    /\ pc[Scanner] = "idle" /\ missed # {}
    /\ Disturbable /\ outages < MaxOutages /\ outages' = outages + 1
    /\ missed' = {}
    /\ UNCHANGED <<db, chat, tasks, todo, booting, replay, removals, deletions, crashes>>

ListThreads ==
    /\ booting /\ missed = {} /\ pc[Scanner] = "idle"
    /\ booting' = FALSE
    /\ replay' = {[sub |-> id, thread |-> threadOf[id]] :
                    id \in {i \in Live \ closed : threadOf[i] # 0}}
    /\ UNCHANGED <<db, chat, tasks, todo, missed, limit>>

(* The thread may have been deleted while the bot was away; else what is missing
   in it is posted. *)
Replay(x) ==
    /\ x \in replay /\ replay' = replay \ {x}
    /\ IF x.thread \in gone
       THEN Purge(x.thread)
       ELSE prompted' = prompted \cup ({x.sub} \cap Live) /\ UNCHANGED rows
    /\ UNCHANGED <<mapping, chat, tasks, todo, booting, missed, limit>>

----------------------------------------------------------------------------
(* Curators, in their own transactions, without the message's lock. *)

Confirm(id) ==
    /\ id \in prompted \ closed
    /\ closed' = closed \cup {id}
    /\ UNCHANGED <<owner, content, threadOf, mapping, prompted, chat, tasks, todo, boot,
                   limit>>

(* The butterfly is taken back, or the submission cancelled. *)
Remove(id) ==
    /\ id \in Live
    /\ Disturbable /\ removals < MaxRemovals /\ removals' = removals + 1
    /\ DeleteRow(id) /\ marked' = marked \ {owner[id]}
    /\ UNCHANGED <<mapping, threads, gone, astray, tasks, todo, boot, deletions, crashes,
                   outages>>

DeleteThread(t) ==
    /\ t \in DOMAIN threads \ gone
    /\ Disturbable /\ deletions < MaxDeletions /\ deletions' = deletions + 1
    /\ gone' = gone \cup {t}
    /\ Purge(t)
    /\ UNCHANGED <<mapping, threads, marked, astray, tasks, todo, boot, removals, crashes,
                   outages>>

(* The process restarts: no task and no lock survives.  Threads deleted while it
   was away are not heard of. *)
Crash ==
    /\ Disturbable /\ crashes < MaxCrashes /\ crashes' = crashes + 1
    /\ \E T \in SUBSET (DOMAIN threads \ gone) :
          /\ deletions' = deletions + Cardinality(T) /\ deletions' <= MaxDeletions
          /\ gone' = gone \cup T
    /\ lock' = [m \in Message |-> None]
    /\ pc' = [p \in Task |-> "idle"]
    /\ msg' = [p \in Task |-> None]
    /\ sub' = [p \in Task |-> 0]
    /\ thread' = [p \in Task |-> 0]
    /\ created' = [p \in Task |-> FALSE]
    /\ todo' = {} /\ booting' = TRUE /\ missed' = Message /\ replay' = {}
    /\ UNCHANGED <<db, threads, marked, astray, removals, outages>>

----------------------------------------------------------------------------
Step(p) ==
    \/ Acquire(p) \/ LoadOrCreate(p) \/ Ingest(p)
    \/ ReadMapping(p) \/ Resolve(p) \/ CreateThread(p) \/ ThreadFails(p)
    \/ PersistMapping(p) \/ Screen(p) \/ Curate(p)

RetryLoop == Scan \/ (\E x \in todo : RetryNext(x)) \/ Recheck

Boot == (\E m \in missed : CatchUp(m)) \/ ListThreads \/ (\E x \in replay : Replay(x))

Outages == ScanTimesOut \/ \E p \in Task : CreatedTooLate(p) \/ ResolveFails(p)

Curators == \/ \E id \in Id : Confirm(id) \/ Remove(id)
            \/ \E t \in Thread : DeleteThread(t)

Next ==
    \/ \E p \in Handler, m \in Message : React(p, m)
    \/ \E p \in Task : Step(p)
    \/ RetryLoop \/ Boot \/ Curators \/ Outages \/ Crash

Spec == Init /\ [][Next]_vars

(* Tasks go on, the lock is handed over in turn, and Discord grants a thread in
   the end when it is asked for again and again. *)
FairSpec ==
    /\ Spec
    /\ \A p \in Task : WF_vars(Step(p)) /\ SF_vars(Acquire(p))
    /\ \A m \in Message : SF_vars(\E p \in Task : msg[p] = m /\ CreateThread(p))
    /\ WF_vars(RetryLoop) /\ SF_vars(Recheck)
    /\ WF_vars(Boot)

----------------------------------------------------------------------------
(* Properties. *)

(* Issue #52: reactions, replays and the retry loop together give a message one
   thread at most, while nobody takes a submission back and Discord answers: a
   thread whose creation outlives its submission or its caller is not mapped.
   Not so where the retry loop meets its id in the hands of another message: a
   duplicate was screened out since the scan, and the next row has its id.  Then
   a thread is made about the message whose lock the loop holds, which has one. *)
OneThread ==
    removals + deletions + crashes + outages = 0 =>
        \A t1, t2 \in DOMAIN threads \ astray : threads[t1] = threads[t2] => t1 = t2

(* A submission's thread is the one its message is mapped to: replies in it and
   its deletion find the submission. *)
MappingAgrees ==
    \A id \in Live : threadOf[id] # 0 => mapping[owner[id]] = threadOf[id]

(* Two messages with a link in common, reacted to at once, never delete each other:
   unless a curator or a deleted thread takes a submission away, one of its links at
   least stays with a submission. *)
LinkKept ==
    [][removals' = removals /\ gone = {} /\ gone' = {} =>
         \A id \in Live : content[id] # {} =>
             \E s \in Id : owner'[s] # None /\ content'[s] \cap content[id] # {}]_vars

(* A submission whose thread could not be created gets one later, and every
   submission of a marked message is asked about, in spite of crashes: unless a
   thread was deleted or could not be looked up.  Its mapping stays, and the retry
   loop looks for messages without one. *)
Unasked(id) == id \in Live \ prompted /\ owner[id] \in marked
Prompted ==
    \A id \in Id : Unasked(id) ~> ~Unasked(id) \/ deletions > 0 \/ outages > 0
================================================================================
