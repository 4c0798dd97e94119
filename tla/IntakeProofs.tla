---------------------------- MODULE IntakeProofs ----------------------------
(***************************************************************************)
(* Theorems about Intake: its types, that a submission's thread is the one *)
(* its message is mapped to, that a message gets one thread, and that two  *)
(* submissions with a link in common do not delete each other.             *)
(***************************************************************************)
EXTENDS Intake, FiniteSetTheorems, TLAPS

-----------------------------------------------------------------------------
(* The tasks.  One that has left the queue of a message holds its lock.    *)

Pc      == {"idle", "waiting", "load", "recheck", "ingest", "read",
            "discord", "persist", "screen", "curate"}
Holding == Pc \ {"idle", "waiting"}

TaskTypes ==
    /\ lock \in [Message -> Task \cup {None}]
    /\ pc \in [Task -> Pc]
    /\ msg \in [Task -> Message \cup {None}]
    /\ sub \in [Task -> Id \cup {0}]
    /\ thread \in [Task -> Thread \cup {0}]
    /\ created \in [Task -> BOOLEAN]

Working == \A p \in Task : pc[p] # "idle" => msg[p] \in Message
Locked  == \A p \in Task : pc[p] \in Holding => lock[msg[p]] = p

RowTypes ==
    /\ owner \in [Id -> Message \cup {None}]
    /\ content \in [Id -> SUBSET Url]
    /\ threadOf \in [Id -> Thread \cup {0}]
    /\ closed \subseteq Live /\ prompted \subseteq Live
    /\ mapping \in [Message -> Thread \cup {0}]

ChatTypes ==
    /\ threads \in Seq(Message) /\ gone \subseteq DOMAIN threads
    /\ marked \subseteq Message /\ astray \subseteq DOMAIN threads

BootTypes ==
    /\ todo \subseteq [sub : Id, msg : Message]
    /\ booting \in BOOLEAN /\ missed \subseteq Message
    /\ replay \subseteq [sub : Id, thread : Thread]

LimitTypes ==
    /\ removals \in 0 .. MaxRemovals /\ deletions \in 0 .. MaxDeletions
    /\ crashes \in 0 .. MaxCrashes /\ outages \in 0 .. MaxOutages

LEMMA Types == TypeOK <=> TaskTypes /\ RowTypes /\ ChatTypes /\ BootTypes /\ LimitTypes
BY DEF TypeOK, TaskTypes, Pc, RowTypes, ChatTypes, BootTypes, LimitTypes

TaskInv == TaskTypes /\ Working /\ Locked

LEMMA NotATask == None \notin Task /\ None \notin Message /\ Retrier \in Task /\ Scanner \in Task
BY IntakeAssumption DEF Task

\* A task that goes on with its message.
LEMMA GotoInv ==
    ASSUME TaskInv, NEW p \in Task, pc[p] \in Holding, NEW next \in Pc \ {"idle"}, Goto(p, next),
           sub' \in [Task -> Id \cup {0}], thread' \in [Task -> Thread \cup {0}],
           created' \in [Task -> BOOLEAN], UNCHANGED <<lock, msg>>
    PROVE  TaskInv'
<1>1. pc' \in [Task -> Pc] /\ \A q \in Task : q # p => pc'[q] = pc[q]
    BY DEF Goto, TaskInv, TaskTypes
<1>2. Working' /\ Locked'
    BY <1>1 DEF TaskInv, Working, Locked, Holding
<1>. QED BY <1>1, <1>2 DEF TaskInv, TaskTypes

\* A task that queues for a message.
LEMMA QueueInv ==
    ASSUME TaskInv, NEW p \in Task, NEW m \in Message, pc[p] = "idle", Queue(p, m),
           sub' \in [Task -> Id \cup {0}]
    PROVE  TaskInv'
<1>1. /\ pc' \in [Task -> Pc] /\ msg' \in [Task -> Message \cup {None}]
      /\ pc'[p] = "waiting" /\ msg'[p] = m
      /\ \A q \in Task : q # p => pc'[q] = pc[q] /\ msg'[q] = msg[q]
    BY DEF Queue, Goto, TaskInv, TaskTypes, Pc
<1>2. Working' /\ Locked'
    BY <1>1 DEF TaskInv, Working, Locked, Holding, Queue
<1>. QED BY <1>1, <1>2 DEF TaskInv, TaskTypes, Queue

\* A task that is done.
LEMMA FinishInv ==
    ASSUME TaskInv, NEW p \in Task, pc[p] \in Holding, Finish(p)
    PROVE  TaskInv'
<1>1. /\ lock' \in [Message -> Task \cup {None}] /\ pc' \in [Task -> Pc]
      /\ msg' \in [Task -> Message \cup {None}] /\ sub' \in [Task -> Id \cup {0}]
      /\ thread' \in [Task -> Thread \cup {0}] /\ created' \in [Task -> BOOLEAN]
      /\ pc'[p] = "idle"
      /\ \A q \in Task : q # p => pc'[q] = pc[q] /\ msg'[q] = msg[q]
    BY DEF Finish, TaskInv, TaskTypes, Pc
<1>2. \A q \in Task : q # p /\ pc[q] \in Holding => msg[q] # msg[p] /\ msg[q] \in Message
    BY DEF TaskInv, Locked, Working, Holding
<1>3. \A m \in Message : m # msg[p] => lock'[m] = lock[m]
    BY DEF Finish, TaskInv, TaskTypes
<1>4. Working' /\ Locked'
    BY <1>1, <1>2, <1>3 DEF TaskInv, Working, Locked, Holding
<1>. QED BY <1>1, <1>4 DEF TaskInv, TaskTypes

LEMMA AcquireInv ==
    ASSUME TaskInv, NEW p \in Task, Acquire(p)
    PROVE  TaskInv'
<1>1. msg[p] \in Message /\ pc[p] = "waiting"
    BY DEF Acquire, TaskInv, Working
<1>2. /\ lock' \in [Message -> Task \cup {None}] /\ pc' \in [Task -> Pc]
      /\ pc'[p] \in Holding /\ lock'[msg[p]] = p
      /\ \A q \in Task : q # p => pc'[q] = pc[q]
      /\ \A m \in Message : m # msg[p] => lock'[m] = lock[m]
    BY <1>1 DEF Acquire, Goto, TaskInv, TaskTypes, Pc, Holding
<1>3. \A q \in Task : pc[q] \in Holding => msg[q] # msg[p] /\ msg[q] \in Message
    BY NotATask DEF Acquire, TaskInv, Locked, Working, Holding
<1>4. Working' /\ Locked'
    BY <1>1, <1>2, <1>3 DEF Acquire, TaskInv, Working, Locked, Holding
<1>. QED BY <1>2, <1>4 DEF Acquire, TaskInv, TaskTypes

-----------------------------------------------------------------------------
(* Types.                                                                  *)

LEMMA DeleteRowTypes ==
    ASSUME RowTypes, NEW id \in Id, DeleteRow(id), UNCHANGED mapping
    PROVE  RowTypes'
BY NotATask DEF RowTypes, DeleteRow, Live

LEMMA PurgeTypes ==
    ASSUME RowTypes, NEW t \in Thread, Purge(t), UNCHANGED mapping
    PROVE  RowTypes'
<1>1. CASE \E id \in Live \ closed : threadOf[id] = t
    <2>1. PICK id \in Live \ closed : DeleteRow(id)
        BY <1>1 DEF Purge
    <2>. QED BY <2>1, DeleteRowTypes DEF Live
<1>2. CASE ~ \E id \in Live \ closed : threadOf[id] = t
    BY <1>2 DEF Purge, RowTypes, rows, Live
<1>. QED BY <1>1, <1>2

LEMMA NewThreadTypes ==
    ASSUME ChatTypes, TaskInv, NEW p \in Task, pc[p] = "discord", NewThread(p),
           UNCHANGED <<gone, marked>>
    PROVE  ChatTypes' /\ Len(threads') \in Thread
<1>1. msg[p] \in Message
    BY DEF TaskInv, Working
<1>2. threads' \in Seq(Message) /\ Len(threads') = Len(threads) + 1 /\ Len(threads) \in Nat
    BY <1>1 DEF ChatTypes, NewThread
<1>3. DOMAIN threads' = 1 .. Len(threads) + 1 /\ DOMAIN threads = 1 .. Len(threads)
    BY <1>2 DEF ChatTypes
<1>4. astray' \subseteq DOMAIN threads'
    BY <1>2, <1>3 DEF ChatTypes, NewThread
<1>5. Len(threads') \in Thread
    BY <1>2, IntakeAssumption DEF NewThread, Thread
<1>. QED BY <1>2, <1>3, <1>4, <1>5 DEF ChatTypes

\* The types, and that a task at work has a message and its lock.
TypeInv == TypeOK /\ Working /\ Locked

LEMMA Parts == TypeInv <=> TaskInv /\ RowTypes /\ ChatTypes /\ BootTypes /\ LimitTypes
BY Types DEF TypeInv, TaskInv

LEMMA PartsNext ==
    TaskInv' /\ RowTypes' /\ ChatTypes' /\ BootTypes' /\ LimitTypes' => TypeInv'
BY DEF TypeInv, TaskInv, TypeOK, TaskTypes, Pc, RowTypes, ChatTypes, BootTypes, LimitTypes

\* The steps of a task at work on its message.
LEMMA StepTypes ==
    ASSUME TypeInv, NEW p \in Task, Step(p)
    PROVE  TypeInv'
<1>0. /\ TaskInv /\ RowTypes /\ ChatTypes /\ BootTypes /\ LimitTypes
      /\ sub \in [Task -> Id \cup {0}] /\ thread \in [Task -> Thread \cup {0}]
      /\ created \in [Task -> BOOLEAN]
    BY Parts DEF TaskInv, TaskTypes
<1>1. CASE Acquire(p)
    BY <1>0, <1>1, AcquireInv, PartsNext DEF Acquire, RowTypes, ChatTypes, BootTypes, LimitTypes,
       Live, db, rows, chat, boot, limit
<1>2. CASE LoadOrCreate(p)
    <2>1. msg[p] \in Message /\ pc[p] \in Holding
        BY <1>0, <1>2 DEF LoadOrCreate, TaskInv, Working, Pc, Holding
    <2>2. RowTypes'
        BY <1>0, <1>2, <2>1, NotATask DEF LoadOrCreate, RowTypes, Live
    <2>3. TaskInv'
        <3>0. sub' \in [Task -> Id \cup {0}] /\ created' \in [Task -> BOOLEAN] /\ thread' = thread
              /\ UNCHANGED <<lock, msg>>
            BY <1>0, <1>2 DEF LoadOrCreate, Live
        <3>1. CASE Goto(p, "read")
            BY <1>0, <2>1, <3>0, <3>1, GotoInv DEF Pc
        <3>2. CASE Goto(p, "ingest")
            BY <1>0, <2>1, <3>0, <3>2, GotoInv DEF Pc
        <3>. QED BY <1>2, <3>1, <3>2 DEF LoadOrCreate
    <2>. QED BY <1>0, <1>2, <2>2, <2>3, PartsNext
             DEF LoadOrCreate, ChatTypes, BootTypes, LimitTypes, chat, boot, limit
<1>3. CASE Ingest(p)
    <2>1. msg[p] \in Message /\ pc[p] \in Holding /\ LinksOf[msg[p]] \subseteq Url
        BY <1>0, <1>3, IntakeAssumption DEF Ingest, TaskInv, Working, Pc, Holding
    <2>2. RowTypes'
        BY <1>0, <1>3, <2>1 DEF Ingest, RowTypes, Live
    <2>3. TaskInv'
        BY <1>0, <1>3, <2>1, GotoInv DEF Ingest, Pc
    <2>. QED BY <1>0, <1>3, <2>2, <2>3, PartsNext
             DEF Ingest, ChatTypes, BootTypes, LimitTypes, chat, boot, limit
<1>4. CASE ReadMapping(p)
    <2>1. pc[p] \in Holding
        BY <1>4 DEF ReadMapping, Pc, Holding
    <2>2. TaskInv'
        <3>1. CASE sub[p] \in Live
            <4>1. thread' \in [Task -> Thread \cup {0}]
                BY <1>0, <1>4, <3>1 DEF ReadMapping, RowTypes, Live
            <4>. QED BY <1>0, <1>4, <2>1, <3>1, <4>1, GotoInv DEF ReadMapping, Pc
        <3>2. CASE sub[p] \notin Live
            BY <1>0, <1>4, <2>1, <3>2, FinishInv DEF ReadMapping
        <3>. QED BY <3>1, <3>2
    <2>. QED BY <1>0, <1>4, <2>2, PartsNext
             DEF ReadMapping, RowTypes, ChatTypes, BootTypes, LimitTypes, Live, db, rows, chat, boot, limit
<1>5. CASE Resolve(p)
    <2>1. TaskInv'
        BY <1>0, <1>5, GotoInv DEF Resolve, Pc, Holding
    <2>. QED BY <1>0, <1>5, <2>1, PartsNext
             DEF Resolve, RowTypes, ChatTypes, BootTypes, LimitTypes, Live, db, rows, chat, boot, limit
<1>6. CASE CreateThread(p)
    <2>1. pc[p] = "discord" /\ pc[p] \in Holding
        BY <1>6 DEF CreateThread, NeedsThread, Pc, Holding
    <2>2. ChatTypes' /\ Len(threads') \in Thread
        BY <1>0, <1>6, <2>1, NewThreadTypes DEF CreateThread
    <2>3. TaskInv'
        BY <1>0, <1>6, <2>1, <2>2, GotoInv DEF CreateThread, Pc
    <2>. QED BY <1>0, <1>6, <2>2, <2>3, PartsNext
             DEF CreateThread, RowTypes, BootTypes, LimitTypes, Live, db, rows, boot, limit
<1>7. CASE ThreadFails(p)
    <2>1. TaskInv'
        BY <1>0, <1>7, FinishInv DEF ThreadFails, NeedsThread, Pc, Holding
    <2>. QED BY <1>0, <1>7, <2>1, PartsNext
             DEF ThreadFails, RowTypes, ChatTypes, BootTypes, LimitTypes, Live, db, rows, chat, boot, limit
<1>8. CASE PersistMapping(p)
    <2>1. pc[p] \in Holding
        BY <1>8 DEF PersistMapping, Pc, Holding
    <2>2. TaskInv'
        <3>1. CASE sub[p] \in Live
            BY <1>0, <1>8, <2>1, <3>1, GotoInv DEF PersistMapping, Pc
        <3>2. CASE sub[p] \notin Live
            BY <1>0, <1>8, <2>1, <3>2, FinishInv DEF PersistMapping
        <3>. QED BY <3>1, <3>2
    <2>3. RowTypes'
        BY <1>0, <1>8 DEF PersistMapping, RowTypes, Live
    <2>. QED BY <1>0, <1>8, <2>2, <2>3, PartsNext
             DEF PersistMapping, ChatTypes, BootTypes, LimitTypes, chat, boot, limit
<1>9. CASE Screen(p)
    <2>1. pc[p] \in Holding
        BY <1>9 DEF Screen, Pc, Holding
    <2>2. TaskInv'
        <3>1. CASE Finish(p)
            BY <1>0, <2>1, <3>1, FinishInv
        <3>2. CASE Goto(p, "curate") /\ UNCHANGED <<lock, msg, sub, thread, created>>
            BY <1>0, <2>1, <3>2, GotoInv DEF Pc
        <3>. QED BY <1>9, <3>1, <3>2 DEF Screen
    <2>3. RowTypes'
        <3>1. CASE sub[p] \in Live /\ DeleteRow(sub[p])
            BY <1>0, <1>9, <3>1, DeleteRowTypes DEF Screen, Live
        <3>2. CASE UNCHANGED <<rows, prompted>>
            BY <1>0, <1>9, <3>2 DEF Screen, RowTypes, Live, rows
        <3>. QED BY <1>9, <3>1, <3>2 DEF Screen
    <2>4. ChatTypes'
        BY <1>0, <1>9 DEF Screen, ChatTypes
    <2>. QED BY <1>0, <1>9, <2>2, <2>3, <2>4, PartsNext
             DEF Screen, BootTypes, LimitTypes, boot, limit
<1>10. CASE Curate(p)
    <2>1. TaskInv'
        BY <1>0, <1>10, FinishInv DEF Curate, Pc, Holding
    <2>2. RowTypes'
        BY <1>0, <1>10 DEF Curate, RowTypes, Live, rows
    <2>. QED BY <1>0, <1>10, <2>1, <2>2, PartsNext
             DEF Curate, ChatTypes, BootTypes, LimitTypes, chat, boot, limit
<1>. QED BY <1>1, <1>2, <1>3, <1>4, <1>5, <1>6, <1>7, <1>8, <1>9, <1>10 DEF Step

\* The loops and the curators.
LEMMA LoopTypes ==
    ASSUME TypeInv, RetryLoop \/ Boot
    PROVE  TypeInv'
<1>0. /\ TaskInv /\ RowTypes /\ ChatTypes /\ BootTypes /\ LimitTypes
      /\ sub \in [Task -> Id \cup {0}] /\ thread \in [Task -> Thread \cup {0}]
      /\ created \in [Task -> BOOLEAN] /\ Retrier \in Task /\ Scanner \in Task
    BY Parts, NotATask DEF TaskInv, TaskTypes
<1>1. CASE Scan
    <2>1. BootTypes'
        BY <1>0, <1>1 DEF Scan, BootTypes, RowTypes, Live, boot
    <2>. QED BY <1>0, <1>1, <2>1, PartsNext
             DEF Scan, TaskInv, TaskTypes, Working, Locked, RowTypes, ChatTypes, LimitTypes, Live,
                 db, rows, chat, tasks, limit
<1>2. ASSUME NEW x \in todo, RetryNext(x) PROVE TypeInv'
    <2>1. x.msg \in Message /\ x.sub \in Id
        BY <1>0 DEF BootTypes
    <2>2. sub' \in [Task -> Id \cup {0}]
        BY <1>0, <1>2, <2>1 DEF RetryNext
    <2>3. TaskInv'
        BY <1>0, <1>2, <2>1, <2>2, QueueInv DEF RetryNext
    <2>4. BootTypes'
        BY <1>0, <1>2 DEF RetryNext, BootTypes, boot
    <2>. QED BY <1>0, <1>2, <2>3, <2>4, PartsNext
             DEF RetryNext, RowTypes, ChatTypes, LimitTypes, Live, db, rows, chat, limit
<1>3. CASE Recheck
    <2>1. pc[Retrier] \in Holding
        BY <1>3 DEF Recheck, Holding, Pc
    <2>2. TaskInv'
        <3>1. CASE Finish(Retrier)
            BY <1>0, <2>1, <3>1, FinishInv
        <3>2. CASE Goto(Retrier, "read") /\ UNCHANGED <<lock, msg, sub, thread, created>>
            BY <1>0, <2>1, <3>2, GotoInv DEF Pc
        <3>. QED BY <1>3, <3>1, <3>2 DEF Recheck
    <2>. QED BY <1>0, <1>3, <2>2, PartsNext
             DEF Recheck, RowTypes, ChatTypes, BootTypes, LimitTypes, Live, db, rows, chat, boot, limit
<1>4. ASSUME NEW m \in missed, CatchUp(m) PROVE TypeInv'
    <2>1. m \in Message
        BY <1>0 DEF BootTypes
    <2>2. TaskInv'
        <3>1. CASE Queue(Scanner, m) /\ sub' = sub
            BY <1>0, <1>4, <2>1, <3>1, QueueInv DEF CatchUp
        <3>2. CASE UNCHANGED tasks
            BY <1>0, <3>2 DEF tasks, TaskInv, TaskTypes, Working, Locked
        <3>. QED BY <1>4, <3>1, <3>2 DEF CatchUp
    <2>. QED BY <1>0, <1>4, <2>2, PartsNext
             DEF CatchUp, RowTypes, ChatTypes, BootTypes, LimitTypes, Live, db, rows, chat, limit
<1>5. CASE ListThreads
    <2>1. \A id \in Live : threadOf[id] # 0 => id \in Id /\ threadOf[id] \in Thread
        BY <1>0 DEF RowTypes, Live
    <2>2. replay' \subseteq [sub : Id, thread : Thread]
        BY <1>5, <2>1 DEF ListThreads
    <2>3. BootTypes'
        BY <1>0, <1>5, <2>2 DEF ListThreads, BootTypes
    <2>. QED BY <1>0, <1>5, <2>3, PartsNext
             DEF ListThreads, TaskInv, TaskTypes, Working, Locked, RowTypes, ChatTypes, LimitTypes,
                 Live, db, rows, chat, tasks, limit
<1>6. ASSUME NEW x \in replay, Replay(x) PROVE TypeInv'
    <2>1. x.thread \in Thread
        BY <1>0 DEF BootTypes
    <2>2. RowTypes'
        <3>1. CASE x.thread \in gone
            BY <1>0, <1>6, <2>1, <3>1, PurgeTypes DEF Replay
        <3>2. CASE x.thread \notin gone
            BY <1>0, <1>6, <3>2 DEF Replay, RowTypes, Live, rows
        <3>. QED BY <3>1, <3>2
    <2>. QED BY <1>0, <1>6, <2>2, PartsNext
             DEF Replay, TaskInv, TaskTypes, Working, Locked, ChatTypes, BootTypes, LimitTypes,
                 chat, tasks, limit
<1>. QED BY <1>1, <1>2, <1>3, <1>4, <1>5, <1>6 DEF RetryLoop, Boot

LEMMA CuratorTypes ==
    ASSUME TypeInv, Curators
    PROVE  TypeInv'
<1>0. TaskInv /\ RowTypes /\ ChatTypes /\ BootTypes /\ LimitTypes
    BY Parts
<1>1. ASSUME NEW id \in Id, Confirm(id) PROVE TypeInv'
    <2>1. RowTypes'
        BY <1>0, <1>1 DEF Confirm, RowTypes, Live
    <2>. QED BY <1>0, <1>1, <2>1, PartsNext
             DEF Confirm, TaskInv, TaskTypes, Working, Locked, ChatTypes, BootTypes, LimitTypes,
                 chat, tasks, boot, limit
<1>2. ASSUME NEW id \in Id, Remove(id) PROVE TypeInv'
    <2>1. RowTypes'
        BY <1>0, <1>2, DeleteRowTypes DEF Remove
    <2>2. LimitTypes'
        BY <1>0, <1>2, IntakeAssumption DEF Remove, LimitTypes
    <2>3. ChatTypes'
        BY <1>0, <1>2 DEF Remove, ChatTypes
    <2>. QED BY <1>0, <1>2, <2>1, <2>2, <2>3, PartsNext
             DEF Remove, TaskInv, TaskTypes, Working, Locked, BootTypes, tasks, boot
<1>3. ASSUME NEW t \in Thread, DeleteThread(t) PROVE TypeInv'
    <2>1. RowTypes'
        BY <1>0, <1>3, PurgeTypes DEF DeleteThread
    <2>2. LimitTypes'
        BY <1>0, <1>3, IntakeAssumption DEF DeleteThread, LimitTypes
    <2>3. ChatTypes'
        BY <1>0, <1>3 DEF DeleteThread, ChatTypes
    <2>. QED BY <1>0, <1>3, <2>1, <2>2, <2>3, PartsNext
             DEF DeleteThread, TaskInv, TaskTypes, Working, Locked, BootTypes, tasks, boot
<1>. QED BY <1>1, <1>2, <1>3 DEF Curators

LEMMA OutageTypes ==
    ASSUME TypeInv, Outages
    PROVE  TypeInv'
<1>0. /\ TaskInv /\ RowTypes /\ ChatTypes /\ BootTypes /\ LimitTypes
      /\ thread \in [Task -> Thread \cup {0}]
    BY Parts DEF TaskInv, TaskTypes
<1>1. CASE ScanTimesOut
    <2>1. LimitTypes'
        BY <1>0, <1>1, IntakeAssumption DEF ScanTimesOut, LimitTypes
    <2>. QED BY <1>0, <1>1, <2>1, PartsNext
             DEF ScanTimesOut, TaskInv, TaskTypes, Working, Locked, RowTypes, ChatTypes, BootTypes,
                 Live, db, rows, chat, tasks
<1>2. ASSUME NEW p \in Task, CreatedTooLate(p) PROVE TypeInv'
    <2>1. pc[p] = "discord" /\ pc[p] \in Holding
        BY <1>2 DEF CreatedTooLate, NeedsThread, Pc, Holding
    <2>2. ChatTypes'
        BY <1>0, <1>2, <2>1, NewThreadTypes DEF CreatedTooLate
    <2>3. TaskInv'
        BY <1>0, <1>2, <2>1, FinishInv DEF CreatedTooLate
    <2>4. LimitTypes'
        BY <1>0, <1>2, IntakeAssumption DEF CreatedTooLate, LimitTypes
    <2>. QED BY <1>0, <1>2, <2>2, <2>3, <2>4, PartsNext
             DEF CreatedTooLate, RowTypes, BootTypes, Live, db, rows, boot
<1>3. ASSUME NEW p \in Task, ResolveFails(p) PROVE TypeInv'
    <2>1. thread' \in [Task -> Thread \cup {0}]
        BY <1>0, <1>3 DEF ResolveFails
    <2>2. TaskInv'
        BY <1>0, <1>3, <2>1 DEF ResolveFails, TaskInv, TaskTypes, Working, Locked
    <2>3. LimitTypes'
        BY <1>0, <1>3, IntakeAssumption DEF ResolveFails, LimitTypes
    <2>. QED BY <1>0, <1>3, <2>2, <2>3, PartsNext
             DEF ResolveFails, RowTypes, ChatTypes, BootTypes, Live, db, rows, chat, boot
<1>. QED BY <1>1, <1>2, <1>3 DEF Outages

LEMMA CrashTypes ==
    ASSUME TypeInv, Crash
    PROVE  TypeInv'
<1>0. RowTypes /\ ChatTypes /\ LimitTypes
    BY Parts
<1>1. PICK T \in SUBSET (DOMAIN threads \ gone) :
          /\ deletions' = deletions + Cardinality(T) /\ deletions' <= MaxDeletions
          /\ gone' = gone \cup T
    BY DEF Crash
<1>2. Cardinality(T) \in Nat
    <2>1. DOMAIN threads = 1 .. Len(threads) /\ Len(threads) \in Nat
        BY <1>0 DEF ChatTypes
    <2>2. IsFiniteSet(1 .. Len(threads))
        BY <2>1, FS_Interval
    <2>3. T \subseteq 1 .. Len(threads)
        BY <2>1
    <2>4. IsFiniteSet(T)
        BY <2>2, <2>3, FS_Subset
    <2>. QED BY <2>4, FS_CardinalityType
<1>3. LimitTypes'
    BY <1>0, <1>1, <1>2, IntakeAssumption DEF Crash, LimitTypes
<1>4. ChatTypes'
    BY <1>0, <1>1 DEF Crash, ChatTypes
<1>5. TaskInv'
    BY DEF Crash, TaskInv, TaskTypes, Pc, Holding, Working, Locked
<1>6. BootTypes'
    BY DEF Crash, BootTypes
<1>. QED BY <1>0, <1>3, <1>4, <1>5, <1>6, PartsNext DEF Crash, RowTypes, Live, db, rows

LEMMA ReactTypes ==
    ASSUME TypeInv, NEW p \in Handler, NEW m \in Message, React(p, m)
    PROVE  TypeInv'
<1>0. /\ TaskInv /\ RowTypes /\ ChatTypes /\ BootTypes /\ LimitTypes
      /\ sub \in [Task -> Id \cup {0}] /\ p \in Task
    BY Parts DEF TaskInv, TaskTypes, Task
<1>1. TaskInv'
    BY <1>0, QueueInv DEF React
<1>2. ChatTypes'
    BY <1>0 DEF React, ChatTypes
<1>. QED BY <1>0, <1>1, <1>2, PartsNext
         DEF React, RowTypes, BootTypes, LimitTypes, Live, db, rows, boot, limit

LEMMA TypeStep == TypeInv /\ [Next]_vars => TypeInv'
<1>. SUFFICES ASSUME TypeInv, [Next]_vars PROVE TypeInv'
    OBVIOUS
<1>1. CASE UNCHANGED vars
    <2>0. TaskInv /\ RowTypes /\ ChatTypes /\ BootTypes /\ LimitTypes
        BY Parts
    <2>. QED BY <1>1, <2>0, PartsNext
         DEF vars, db, rows, chat, tasks, boot, limit, TaskInv, TaskTypes, Working, Locked, RowTypes,
             ChatTypes, BootTypes, LimitTypes, Live
<1>2. CASE Next
    BY <1>2, ReactTypes, StepTypes, LoopTypes, CuratorTypes, OutageTypes, CrashTypes DEF Next
<1>. QED BY <1>1, <1>2

LEMMA TypeInit == Init => TypeInv
<1>. SUFFICES ASSUME Init PROVE TypeInv
    OBVIOUS
<1>1. TaskInv
    BY DEF Init, TaskInv, TaskTypes, Pc, Holding, Working, Locked
<1>2. RowTypes
    BY NotATask DEF Init, RowTypes, Live
<1>3. ChatTypes
    BY DEF Init, ChatTypes
<1>4. BootTypes /\ LimitTypes
    BY IntakeAssumption DEF Init, BootTypes, LimitTypes
<1>. QED BY <1>1, <1>2, <1>3, <1>4, Parts

\* Every variable keeps its type, for any messages, handlers and bounds
\* (handle_reaction, the retry loop, the catch-up and restarts).
THEOREM IntakeTypes == Spec => []TypeOK
<1>1. TypeInv => TypeOK
    BY DEF TypeInv
<1>. QED BY <1>1, TypeInit, TypeStep, PTL DEF Spec

\* A task at work has a message, and one that has come past the lock of its message holds
\* that lock: no two tasks are in the locked part for one message, be they handlers or the
\* retry loop (_message_processing_locks; service.py:112, client.py:584, 1163).
THEOREM LocksAreHeld == Spec => [](Working /\ Locked)
<1>1. TypeInv => Working /\ Locked
    BY DEF TypeInv
<1>. QED BY <1>1, TypeInit, TypeStep, PTL DEF Spec

-----------------------------------------------------------------------------
(* Rows and mappings.  A message has one row at most, a free id keeps       *)
(* nothing of the row that had it, so that a new row begins without a       *)
(* thread.                                                                  *)

Distinct == \A i, j \in Live : owner[i] = owner[j] => i = j
Blank    == \A id \in Id \ Live : content[id] = {} /\ threadOf[id] = 0
RowInv   == Distinct /\ Blank /\ MappingAgrees

\* A row is deleted as a duplicate, or by a curator, or because of a deleted thread.
LostRow == \E id \in Live : /\ DeleteRow(id) /\ UNCHANGED mapping
                            /\ removals' # removals \/ gone' # {}
Duplicate(p) == sub[p] \in Live /\ Duplicated(sub[p]) /\ DeleteRow(sub[p]) /\ UNCHANGED mapping

\* What a step does to the rows.
RowStep ==
    \/ UNCHANGED <<owner, content, threadOf, mapping>>
    \/ \E p \in Task : \/ LoadOrCreate(p) \/ Ingest(p) \/ PersistMapping(p)
                       \/ Screen(p) /\ Duplicate(p)
    \/ LostRow

LEMMA PurgeRows ==
    ASSUME NEW t, Purge(t), gone' # {}, UNCHANGED mapping
    PROVE  RowStep
BY DEF Purge, RowStep, LostRow, rows

LEMMA RowSteps ==
    ASSUME TypeInv, [Next]_vars
    PROVE  RowStep
<1>1. CASE UNCHANGED vars
    BY <1>1 DEF vars, db, rows, RowStep
<1>2. ASSUME NEW p \in Handler, NEW m \in Message, React(p, m) PROVE RowStep
    BY <1>2 DEF React, db, rows, RowStep
<1>3. ASSUME NEW p \in Task, Step(p) PROVE RowStep
    <2>1. CASE Acquire(p) \/ ReadMapping(p) \/ Resolve(p) \/ CreateThread(p) \/ ThreadFails(p)
        BY <2>1 DEF Acquire, ReadMapping, Resolve, CreateThread, ThreadFails, db, rows, RowStep
    <2>2. CASE Screen(p)
        BY <2>2 DEF Screen, rows, RowStep, Duplicate
    <2>3. CASE Curate(p)
        BY <2>3 DEF Curate, rows, RowStep
    <2>4. CASE LoadOrCreate(p) \/ Ingest(p) \/ PersistMapping(p)
        BY <2>4 DEF RowStep
    <2>. QED BY <1>3, <2>1, <2>2, <2>3, <2>4 DEF Step
<1>4. CASE RetryLoop
    BY <1>4 DEF RetryLoop, Scan, RetryNext, Recheck, db, rows, RowStep
<1>5. CASE Boot
    <2>1. ASSUME NEW x \in replay, Replay(x) PROVE RowStep
        <3>1. CASE x.thread \in gone
            BY <2>1, <3>1, PurgeRows DEF Replay, chat
        <3>2. CASE x.thread \notin gone
            BY <2>1, <3>2 DEF Replay, rows, RowStep
        <3>. QED BY <3>1, <3>2
    <2>. QED BY <1>5, <2>1 DEF Boot, CatchUp, ListThreads, db, rows, RowStep
<1>6. CASE Curators
    <2>1. ASSUME NEW id \in Id, Confirm(id) PROVE RowStep
        BY <2>1 DEF Confirm, RowStep
    <2>2. ASSUME NEW id \in Id, Remove(id) PROVE RowStep
        <3>1. removals' # removals
            BY <2>2 DEF Remove, TypeInv, TypeOK
        <3>. QED BY <2>2, <3>1 DEF Remove, RowStep, LostRow
    <2>3. ASSUME NEW t \in Thread, DeleteThread(t) PROVE RowStep
        BY <2>3, PurgeRows DEF DeleteThread
    <2>. QED BY <1>6, <2>1, <2>2, <2>3 DEF Curators
<1>7. CASE Outages
    BY <1>7 DEF Outages, ScanTimesOut, CreatedTooLate, ResolveFails, db, rows, RowStep
<1>8. CASE Crash
    BY <1>8 DEF Crash, db, rows, RowStep
<1>. QED BY <1>1, <1>2, <1>3, <1>4, <1>5, <1>6, <1>7, <1>8 DEF Next

LEMMA RowDeleted ==
    ASSUME RowTypes, RowInv, NEW id \in Live, DeleteRow(id), UNCHANGED mapping
    PROVE  RowInv'
<1>1. /\ id \in Id /\ owner'[id] = None /\ content'[id] = {} /\ threadOf'[id] = 0
      /\ \A i \in Id : i # id => owner'[i] = owner[i] /\ content'[i] = content[i]
                                 /\ threadOf'[i] = threadOf[i]
    BY DEF DeleteRow, RowTypes, Live
<1>2. Live' = Live \ {id}
    BY <1>1 DEF Live
<1>3. Distinct'
    BY <1>1, <1>2 DEF RowInv, Distinct, Live
<1>4. Blank'
    BY <1>1, <1>2 DEF RowInv, Blank
<1>5. MappingAgrees'
    BY <1>1, <1>2 DEF RowInv, MappingAgrees, Live
<1>. QED BY <1>3, <1>4, <1>5 DEF RowInv

LEMMA RowInvStep == TypeInv /\ RowInv /\ [Next]_vars => RowInv'
<1>. SUFFICES ASSUME TypeInv, RowInv, [Next]_vars PROVE RowInv'
    OBVIOUS
<1>0. TaskInv /\ RowTypes
    BY Parts
<1>1. CASE UNCHANGED <<owner, content, threadOf, mapping>>
    BY <1>1 DEF RowInv, Distinct, Blank, MappingAgrees, Live
<1>2. ASSUME NEW p \in Task, LoadOrCreate(p) PROVE RowInv'
    <2>1. msg[p] \in Message /\ UNCHANGED <<content, threadOf, mapping>>
        BY <1>0, <1>2 DEF LoadOrCreate, TaskInv, Working
    <2>2. CASE UNCHANGED owner
        BY <2>1, <2>2 DEF RowInv, Distinct, Blank, MappingAgrees, Live
    <2>3. ASSUME NEW id \in Id, \A i \in Live : owner[i] # msg[p] /\ i < id,
                 owner' = [owner EXCEPT ![id] = msg[p]]
          PROVE  RowInv'
        <3>1. /\ id \notin Live /\ owner'[id] = msg[p] /\ msg[p] # None
              /\ \A i \in Id : i # id => owner'[i] = owner[i]
            BY <1>0, <2>1, <2>3, NotATask DEF RowTypes, Id
        <3>2. Live' = Live \cup {id}
            BY <3>1 DEF Live
        <3>3. Distinct'
            BY <2>3, <3>1, <3>2 DEF RowInv, Distinct, Live
        <3>4. Blank' /\ MappingAgrees'
            BY <2>1, <3>1, <3>2 DEF RowInv, Blank, MappingAgrees, Live
        <3>. QED BY <3>3, <3>4 DEF RowInv
    <2>. QED BY <1>2, <2>2, <2>3 DEF LoadOrCreate
<1>3. ASSUME NEW p \in Task, Ingest(p) PROVE RowInv'
    <2>1. UNCHANGED <<owner, threadOf, mapping>> /\ \A id \in Id \ Live : content'[id] = content[id]
        BY <1>0, <1>3 DEF Ingest, RowTypes
    <2>. QED BY <2>1 DEF RowInv, Distinct, Blank, MappingAgrees, Live
<1>4. ASSUME NEW p \in Task, PersistMapping(p) PROVE RowInv'
    <2>1. CASE sub[p] \in Live
        <3>1. UNCHANGED <<owner, content>> /\ sub[p] \in Id /\ owner[sub[p]] \in Message
            BY <1>0, <1>4, <2>1 DEF PersistMapping, RowTypes, Live
        <3>2. /\ threadOf'[sub[p]] = thread[p] /\ mapping'[owner[sub[p]]] = thread[p]
              /\ \A id \in Id : id # sub[p] => threadOf'[id] = threadOf[id]
              /\ \A m \in Message : m # owner[sub[p]] => mapping'[m] = mapping[m]
            BY <1>0, <1>4, <2>1, <3>1 DEF PersistMapping, RowTypes
        <3>3. Distinct' /\ Blank'
            BY <2>1, <3>1, <3>2 DEF RowInv, Distinct, Blank, Live
        <3>4. MappingAgrees'
            <4>. SUFFICES ASSUME NEW id \in Live, threadOf'[id] # 0
                          PROVE  mapping'[owner[id]] = threadOf'[id]
                BY <3>1 DEF MappingAgrees, Live
            <4>1. CASE id = sub[p]
                BY <3>2, <4>1
            <4>2. CASE id # sub[p]
                BY <1>0, <2>1, <3>2, <4>2 DEF RowInv, Distinct, MappingAgrees, Live, RowTypes
            <4>. QED BY <4>1, <4>2
        <3>. QED BY <3>3, <3>4 DEF RowInv
    <2>2. CASE sub[p] \notin Live
        BY <1>4, <2>2 DEF PersistMapping, RowInv, Distinct, Blank, MappingAgrees, Live
    <2>. QED BY <2>1, <2>2
<1>5. CASE LostRow \/ \E p \in Task : Duplicate(p)
    BY <1>0, <1>5, RowDeleted DEF LostRow, Duplicate
<1>. QED BY <1>1, <1>2, <1>3, <1>4, <1>5, RowSteps DEF RowStep

LEMMA RowInit == Init => RowInv
BY NotATask DEF Init, RowInv, Distinct, Blank, MappingAgrees, Live

\* A submission's thread is the one its message is mapped to, whatever the order of
\* handlers, removals, replays and restarts (_persist_thread_mapping and
\* _delete_submission_cascade are the only writers).
THEOREM ThreadIsTheMapped == Spec => []MappingAgrees
<1>1. RowInv => MappingAgrees
    BY DEF RowInv
<1>. QED BY <1>1, TypeInit, TypeStep, RowInit, RowInvStep, PTL DEF Spec

\* A duplicate goes only in favour of a row with one of its links: between the
\* transactions of two handlers that share a link, neither loses it (beat 4 of
\* handle_reaction, _find_duplicate).
THEOREM LinksAreKept == Spec => LinkKept
<1>. DEFINE Kept == removals' = removals /\ gone = {} /\ gone' = {} =>
                        \A id \in Live : content[id] # {} =>
                            \E s \in Id : owner'[s] # None /\ content'[s] \cap content[id] # {}
<1>1. ASSUME TypeInv, RowInv, [Next]_vars PROVE Kept
    <2>0. RowTypes /\ TaskInv
        BY <1>1, Parts
    <2>. SUFFICES ASSUME removals' = removals, gone = {}, gone' = {},
                         NEW id \in Live, content[id] # {}
                  PROVE  \E s \in Id : owner'[s] # None /\ content'[s] \cap content[id] # {}
        OBVIOUS
    <2>1. CASE owner'[id] = owner[id] /\ content[id] \subseteq content'[id]
        BY <2>1 DEF Live
    <2>2. CASE \E p \in Task : Duplicate(p) /\ sub[p] = id
        <3>1. PICK s \in Live \ {id} : content[s] \cap content[id] # {}
            BY <2>2 DEF Duplicate, Duplicated
        <3>2. owner'[s] = owner[s] /\ content'[s] = content[s]
            BY <2>0, <2>2, <3>1 DEF Duplicate, DeleteRow, RowTypes, Live
        <3>. QED BY <3>1, <3>2 DEF Live
    <2>3. ASSUME NEW p \in Task, Duplicate(p), sub[p] # id
          PROVE  owner'[id] = owner[id] /\ content[id] \subseteq content'[id]
        BY <2>0, <2>3 DEF Duplicate, DeleteRow, RowTypes, Live
    <2>4. ASSUME NEW p \in Task, LoadOrCreate(p)
          PROVE  owner'[id] = owner[id] /\ content[id] \subseteq content'[id]
        <3>1. \A i \in Id : (\A j \in Live : j < i) => i # id
            BY DEF Live, Id
        <3>2. UNCHANGED content
            BY <2>4 DEF LoadOrCreate
        <3>3. CASE UNCHANGED owner
            BY <3>2, <3>3
        <3>4. ASSUME NEW i \in Id, i # id, owner' = [owner EXCEPT ![i] = msg[p]]
              PROVE  owner'[id] = owner[id]
            BY <2>0, <3>4 DEF RowTypes, Live
        <3>. QED BY <2>4, <3>1, <3>2, <3>3, <3>4 DEF LoadOrCreate
    <2>5. ASSUME NEW p \in Task, Ingest(p)
          PROVE  owner'[id] = owner[id] /\ content[id] \subseteq content'[id]
        BY <2>0, <2>5 DEF Ingest, RowTypes, Live
    <2>. QED BY <1>1, <2>1, <2>2, <2>3, <2>4, <2>5, RowSteps
             DEF RowStep, LostRow, PersistMapping
<1>. QED BY <1>1, TypeInit, TypeStep, RowInit, RowInvStep, PTL DEF Spec, LinkKept

-----------------------------------------------------------------------------
(* One thread for a message.                                               *)
(*                                                                         *)
(* While nothing disturbs, a thread once made for its message's row is in  *)
(* the mapping or in the hands of the task that will write it there, and   *)
(* that task holds the message's lock: the next task to get the lock reads *)
(* the mapping, and makes no second thread.                                *)

Quiet == removals + deletions + crashes + outages = 0

OwnRow(p) == sub[p] \in Live /\ owner[sub[p]] = msg[p]

Known ==
    /\ gone = {}
    /\ \A m \in Message : mapping[m] # 0 => mapping[m] \in DOMAIN threads
    /\ \A p \in Task : thread[p] # 0 => thread[p] \in DOMAIN threads
    /\ \A p \in Task : pc[p] = "persist" => thread[p] # 0

OwnRowStays ==
    \A p \in Task : /\ pc[p] = "screen" => created[p]
                    /\ created[p] => pc[p] \in Holding /\ OwnRow(p)

Mapped ==
    \A t \in DOMAIN threads \ astray :
        \/ mapping[threads[t]] # 0
        \/ \E p \in Task : pc[p] = "persist" /\ msg[p] = threads[t] /\ OwnRow(p)

Sees ==
    \A p \in Task, t \in DOMAIN threads \ astray :
        pc[p] = "discord" /\ OwnRow(p) /\ threads[t] = msg[p] => thread[p] # 0

Single == \A t1, t2 \in DOMAIN threads \ astray : threads[t1] = threads[t2] => t1 = t2

QuietInv  == Known /\ OwnRowStays /\ Mapped /\ Sees /\ Single
ThreadInv == Quiet => QuietInv

\* What the step of one task leaves to the others.
Alone(p) ==
    \A q \in Task : q # p =>
        /\ pc'[q] = pc[q] /\ msg'[q] = msg[q] /\ sub'[q] = sub[q]
        /\ thread'[q] = thread[q] /\ created'[q] = created[q]
        /\ pc[q] \in Holding => (OwnRow(q)' <=> OwnRow(q))

LEMMA AloneHolder ==
    ASSUME TaskInv, NEW p \in Task, NEW q \in Task, pc[p] \in Holding, pc[q] \in Holding,
           msg[p] = msg[q]
    PROVE  p = q
BY DEF TaskInv, Locked

\* A step that has nothing to do with threads.
LEMMA Aside ==
    ASSUME TaskInv, QuietInv, NEW p \in Task, Alone(p), pc[p] # "persist",
           pc'[p] \notin {"discord", "persist", "screen"},
           UNCHANGED <<threads, astray, gone, mapping>>, thread'[p] \in {thread[p], 0},
           created'[p] => pc'[p] \in Holding /\ OwnRow(p)'
    PROVE  QuietInv'
<1>1. Known'
    BY DEF QuietInv, Known, Alone
<1>2. OwnRowStays'
    BY DEF QuietInv, OwnRowStays, Alone, Holding, Pc
<1>3. Mapped'
    BY DEF QuietInv, Mapped, Alone, Holding, Pc
<1>4. Sees'
    BY DEF QuietInv, Sees, Alone, Holding, Pc
<1>5. Single'
    BY DEF QuietInv, Single
<1>. QED BY <1>1, <1>2, <1>3, <1>4, <1>5 DEF QuietInv

LEMMA ReadMappingOne ==
    ASSUME TypeInv, QuietInv, NEW p \in Task, ReadMapping(p), Alone(p), sub[p] \in Live
    PROVE  QuietInv'
<1>0. TaskInv /\ RowTypes /\ ChatTypes
    BY Parts
<1>1. /\ pc[p] = "read" /\ pc[p] \in Holding /\ pc'[p] = "discord" /\ msg[p] \in Message
      /\ owner[sub[p]] \in Message /\ thread'[p] = mapping[owner[sub[p]]]
      /\ UNCHANGED <<owner, mapping, threads, gone, astray, msg, sub, created>>
    BY <1>0 DEF ReadMapping, Goto, TaskInv, TaskTypes, RowTypes, Live, Holding, Pc, Working,
                db, rows, chat
<1>2. OwnRow(p)' <=> OwnRow(p)
    BY <1>1 DEF OwnRow, Live
<1>3. Known'
    BY <1>0, <1>1 DEF QuietInv, Known, Alone
<1>4. OwnRowStays'
    BY <1>1, <1>2 DEF QuietInv, OwnRowStays, Alone, Holding, Pc
<1>5. Mapped'
    BY <1>1 DEF QuietInv, Mapped, Alone, Holding, Pc
<1>6. Sees'
    <2>. SUFFICES ASSUME NEW q \in Task, NEW t \in DOMAIN threads \ astray, pc'[q] = "discord",
                         OwnRow(q)', threads[t] = msg'[q]
                  PROVE  thread'[q] # 0
        BY <1>1 DEF Sees
    <2>1. CASE q = p
        <3>1. ~ \E r \in Task : pc[r] = "persist" /\ msg[r] = threads[t]
            BY <1>0, <1>1, <2>1, AloneHolder DEF Holding, Pc
        <3>2. mapping[msg[p]] # 0
            BY <1>1, <2>1, <3>1 DEF QuietInv, Mapped
        <3>. QED BY <1>1, <1>2, <2>1, <3>2 DEF OwnRow
    <2>2. CASE q # p
        BY <2>2 DEF QuietInv, Sees, Alone, Holding, Pc
    <2>. QED BY <2>1, <2>2
<1>7. Single'
    BY <1>1 DEF QuietInv, Single
<1>. QED BY <1>3, <1>4, <1>5, <1>6, <1>7 DEF QuietInv

LEMMA ResolveOne ==
    ASSUME TypeInv, QuietInv, NEW p \in Task, Resolve(p), Alone(p)
    PROVE  QuietInv'
<1>0. TaskInv /\ RowTypes /\ ChatTypes
    BY Parts
<1>1. /\ pc[p] = "discord" /\ pc'[p] = "persist" /\ thread[p] \in DOMAIN threads
      /\ UNCHANGED <<owner, mapping, threads, gone, astray, msg, sub, thread, created>>
    BY <1>0 DEF Resolve, Goto, TaskInv, TaskTypes, db, rows, chat
<1>2. OwnRow(p)' <=> OwnRow(p)
    BY <1>1 DEF OwnRow, Live
<1>3. thread[p] # 0
    BY <1>0, <1>1 DEF ChatTypes
<1>4. Known'
    BY <1>1, <1>3 DEF QuietInv, Known, Alone
<1>5. OwnRowStays'
    BY <1>1, <1>2 DEF QuietInv, OwnRowStays, Alone, Holding, Pc
<1>6. Mapped'
    BY <1>1 DEF QuietInv, Mapped, Alone, Holding, Pc
<1>7. Sees' /\ Single'
    BY <1>1 DEF QuietInv, Sees, Single, Alone, Holding, Pc
<1>. QED BY <1>4, <1>5, <1>6, <1>7 DEF QuietInv

\* The one step that makes a thread.
LEMMA CreateOne ==
    ASSUME TypeInv, QuietInv, NEW p \in Task, CreateThread(p), Alone(p)
    PROVE  QuietInv'
<1>0. TaskInv /\ RowTypes /\ ChatTypes
    BY Parts
<1>. DEFINE n == Len(threads) + 1
<1>1. /\ pc[p] = "discord" /\ pc[p] \in Holding /\ pc'[p] = "persist" /\ msg[p] \in Message
      /\ thread[p] \notin DOMAIN threads
      /\ UNCHANGED <<owner, mapping, gone, msg, sub, created>>
    BY <1>0 DEF CreateThread, NeedsThread, Goto, TaskInv, TaskTypes, Working, Holding, Pc,
                db, rows, QuietInv, Known
<1>2. /\ threads' = Append(threads, msg[p]) /\ Len(threads') = n /\ Len(threads) \in Nat
      /\ DOMAIN threads = 1 .. Len(threads) /\ DOMAIN threads' = 1 .. n
      /\ threads'[n] = msg[p] /\ \A t \in DOMAIN threads : threads'[t] = threads[t]
    BY <1>0, <1>1 DEF CreateThread, NewThread, ChatTypes
<1>3. /\ thread'[p] = n /\ astray \subseteq astray'
      /\ n \notin astray' <=> OwnRow(p)
      /\ \A t \in DOMAIN threads : t \in astray' <=> t \in astray
    <2>1. n \notin DOMAIN threads /\ astray \subseteq DOMAIN threads
        BY <1>0, <1>2 DEF ChatTypes
    <2>2. thread'[p] = Len(threads')
        BY <1>0 DEF CreateThread, TaskInv, TaskTypes
    <2>3. astray' = IF OwnRow(p) THEN astray ELSE astray \cup {n}
        BY <1>2 DEF CreateThread, NewThread, OwnRow
    <2>. QED BY <1>2, <2>1, <2>2, <2>3
<1>4. OwnRow(p)' <=> OwnRow(p)
    BY <1>1 DEF OwnRow, Live
<1>5. thread[p] = 0
    BY <1>1 DEF QuietInv, Known
<1>6. \A t \in DOMAIN threads' \ astray' : t = n \/ t \in DOMAIN threads \ astray
    BY <1>2, <1>3
<1>7. Known'
    BY <1>1, <1>2, <1>3 DEF QuietInv, Known, Alone
<1>8. OwnRowStays'
    BY <1>1, <1>4 DEF QuietInv, OwnRowStays, Alone, Holding, Pc
<1>9. Mapped'
    <2>. SUFFICES ASSUME NEW t \in DOMAIN threads' \ astray'
                  PROVE  \/ mapping'[threads'[t]] # 0
                         \/ \E q \in Task : pc'[q] = "persist" /\ msg'[q] = threads'[t] /\ OwnRow(q)'
        BY DEF Mapped
    <2>1. CASE t = n
        BY <1>1, <1>2, <1>3, <1>4, <2>1
    <2>2. CASE t \in DOMAIN threads \ astray
        <3>1. CASE mapping[threads[t]] # 0
            BY <1>1, <1>2, <2>2, <3>1
        <3>2. ASSUME NEW q \in Task, pc[q] = "persist", msg[q] = threads[t], OwnRow(q)
              PROVE  pc'[q] = "persist" /\ msg'[q] = threads'[t] /\ OwnRow(q)'
            BY <1>1, <1>2, <2>2, <3>2 DEF Alone, Holding, Pc
        <3>. QED BY <2>2, <3>1, <3>2 DEF QuietInv, Mapped
    <2>. QED BY <1>6, <2>1, <2>2
<1>10. Sees'
    <2>. SUFFICES ASSUME NEW q \in Task, NEW t \in DOMAIN threads' \ astray', pc'[q] = "discord",
                         OwnRow(q)', threads'[t] = msg'[q]
                  PROVE  thread'[q] # 0
        BY DEF Sees
    <2>1. q # p /\ pc[q] = "discord" /\ pc[q] \in Holding /\ OwnRow(q) /\ msg'[q] = msg[q]
          /\ thread'[q] = thread[q]
        BY <1>1 DEF Alone, Holding, Pc
    <2>2. msg[q] # msg[p]
        BY <1>0, <1>1, <2>1, AloneHolder
    <2>3. t \in DOMAIN threads \ astray /\ threads[t] = msg[q]
        BY <1>2, <1>6, <2>1, <2>2
    <2>. QED BY <2>1, <2>3 DEF QuietInv, Sees
<1>11. Single'
    <2>1. OwnRow(p) => \A t \in DOMAIN threads \ astray : threads[t] # msg[p]
        BY <1>1, <1>5 DEF QuietInv, Sees
    <2>2. \A t \in DOMAIN threads' \ astray' :
              \/ t = n /\ OwnRow(p) /\ threads'[t] = msg[p]
              \/ t \in DOMAIN threads \ astray /\ threads'[t] = threads[t]
        BY <1>2, <1>3, <1>6
    <2>. QED BY <2>1, <2>2 DEF QuietInv, Single
<1>. QED BY <1>7, <1>8, <1>9, <1>10, <1>11 DEF QuietInv

LEMMA PersistOne ==
    ASSUME TypeInv, RowInv, QuietInv, NEW p \in Task, PersistMapping(p), Alone(p)
    PROVE  QuietInv'
<1>0. TaskInv /\ RowTypes /\ ChatTypes
    BY Parts
<1>1. /\ pc[p] = "persist" /\ thread[p] # 0 /\ thread[p] \in DOMAIN threads
      /\ pc'[p] \in {"screen", "curate", "idle"}
      /\ UNCHANGED <<owner, threads, gone, astray>>
    BY <1>0 DEF PersistMapping, Finish, Goto, TaskInv, TaskTypes, QuietInv, Known, chat
<1>2. CASE sub[p] \in Live
    <2>1. /\ UNCHANGED <<msg, sub, thread, created>>
          /\ pc'[p] = IF created[p] THEN "screen" ELSE "curate"
          /\ owner[sub[p]] \in Message /\ mapping'[owner[sub[p]]] = thread[p]
          /\ \A m \in Message : m # owner[sub[p]] => mapping'[m] = mapping[m]
        BY <1>0, <1>2 DEF PersistMapping, Goto, TaskInv, TaskTypes, RowTypes, Live
    <2>2. OwnRow(p)' <=> OwnRow(p)
        BY <1>1, <2>1 DEF OwnRow, Live
    <2>3. Known'
        BY <1>1, <2>1 DEF QuietInv, Known, Alone
    <2>4. OwnRowStays'
        BY <1>1, <2>1, <2>2 DEF QuietInv, OwnRowStays, Alone, Holding, Pc
    <2>5. Mapped'
        <3>. SUFFICES ASSUME NEW t \in DOMAIN threads \ astray
                      PROVE  \/ mapping'[threads[t]] # 0
                             \/ \E q \in Task : /\ pc'[q] = "persist" /\ msg'[q] = threads[t]
                                                /\ OwnRow(q)'
            BY <1>1 DEF Mapped
        <3>0. threads[t] \in Message
            BY <1>0 DEF ChatTypes
        <3>1. CASE mapping[threads[t]] # 0
            BY <1>1, <2>1, <3>0, <3>1
        <3>2. ASSUME NEW q \in Task, pc[q] = "persist", msg[q] = threads[t], OwnRow(q)
              PROVE  \/ mapping'[threads[t]] # 0
                     \/ pc'[q] = "persist" /\ msg'[q] = threads[t] /\ OwnRow(q)'
            BY <1>1, <2>1, <3>2 DEF Alone, Holding, Pc, OwnRow
        <3>. QED BY <3>1, <3>2 DEF QuietInv, Mapped
    <2>6. Sees' /\ Single'
        BY <1>1, <2>1 DEF QuietInv, Sees, Single, Alone, Holding, Pc
    <2>. QED BY <2>3, <2>4, <2>5, <2>6 DEF QuietInv
<1>3. CASE sub[p] \notin Live
    <2>1. /\ ~OwnRow(p) /\ UNCHANGED mapping
          /\ pc'[p] = "idle" /\ thread'[p] = 0 /\ created'[p] = FALSE
        BY <1>0, <1>3 DEF PersistMapping, Finish, TaskInv, TaskTypes, OwnRow
    <2>2. Known'
        BY <1>1, <2>1 DEF QuietInv, Known, Alone
    <2>3. OwnRowStays'
        BY <1>1, <2>1 DEF QuietInv, OwnRowStays, Alone, Holding, Pc
    <2>4. Mapped'
        BY <1>1, <2>1 DEF QuietInv, Mapped, Alone, Holding, Pc
    <2>5. Sees' /\ Single'
        BY <1>1, <2>1 DEF QuietInv, Sees, Single, Alone, Holding, Pc
    <2>. QED BY <2>2, <2>3, <2>4, <2>5 DEF QuietInv
<1>. QED BY <1>2, <1>3

LEMMA AloneStep ==
    ASSUME TypeInv, QuietInv, NEW p \in Task, Step(p)
    PROVE  Alone(p)
<1>0. TaskInv /\ RowTypes
    BY Parts
<1>. SUFFICES ASSUME NEW q \in Task, q # p
              PROVE  /\ pc'[q] = pc[q] /\ msg'[q] = msg[q] /\ sub'[q] = sub[q]
                     /\ thread'[q] = thread[q] /\ created'[q] = created[q]
                     /\ pc[q] \in Holding => (OwnRow(q)' <=> OwnRow(q))
    BY DEF Alone
<1>1. /\ pc'[q] = pc[q] /\ msg'[q] = msg[q] /\ sub'[q] = sub[q]
      /\ thread'[q] = thread[q] /\ created'[q] = created[q]
    BY <1>0 DEF Step, Acquire, LoadOrCreate, Ingest, ReadMapping, Resolve, CreateThread,
               ThreadFails, PersistMapping, Screen, Curate, Goto, Finish, TaskInv, TaskTypes
<1>2. CASE UNCHANGED owner
    BY <1>1, <1>2 DEF OwnRow, Live
<1>3. CASE LoadOrCreate(p)
    <2>. SUFFICES ASSUME pc[q] \in Holding, NEW id \in Id,
                         \A i \in Live : owner[i] # msg[p] /\ i < id,
                         owner' = [owner EXCEPT ![id] = msg[p]]
                  PROVE  OwnRow(q)' <=> OwnRow(q)
        BY <1>1, <1>2, <1>3 DEF LoadOrCreate
    <2>1. msg[q] # msg[p]
        BY <1>0, <1>3, AloneHolder DEF LoadOrCreate, Holding, Pc
    <2>2. id \notin Live /\ owner'[id] = msg[p] /\ \A i \in Id : i # id => owner'[i] = owner[i]
        BY <1>0 DEF RowTypes, Id
    <2>3. CASE sub[q] = id
        BY <1>1, <2>1, <2>2, <2>3 DEF OwnRow
    <2>4. CASE sub[q] # id
        BY <1>1, <2>2, <2>4 DEF OwnRow, Live
    <2>. QED BY <2>3, <2>4
<1>4. CASE Screen(p)
    <2>. SUFFICES ASSUME pc[q] \in Holding, sub[p] \in Live, DeleteRow(sub[p])
                  PROVE  OwnRow(q)' <=> OwnRow(q)
        BY <1>1, <1>2, <1>4 DEF Screen, rows
    <2>1. msg[q] # msg[p]
        BY <1>0, <1>4, AloneHolder DEF Screen, Holding, Pc
    <2>2. owner[sub[p]] = msg[p]
        BY <1>4 DEF Screen, QuietInv, OwnRowStays, OwnRow
    <2>3. owner'[sub[p]] = None /\ \A i \in Id : i # sub[p] => owner'[i] = owner[i]
        BY <1>0 DEF DeleteRow, RowTypes, Live
    <2>4. CASE sub[q] = sub[p]
        BY <1>1, <2>1, <2>2, <2>3, <2>4 DEF OwnRow, Live
    <2>5. CASE sub[q] # sub[p]
        BY <1>1, <2>3, <2>5 DEF OwnRow, Live
    <2>. QED BY <2>4, <2>5
<1>. QED BY <1>1, <1>2, <1>3, <1>4
         DEF Step, Acquire, Ingest, ReadMapping, Resolve, CreateThread, ThreadFails,
             PersistMapping, Curate, db, rows

\* A task that begins to wait for a message, or lets go of it.
LEMMA FinishOne ==
    ASSUME TaskInv, QuietInv, NEW p \in Task, Alone(p), pc[p] # "persist", Finish(p),
           UNCHANGED <<threads, astray, gone, mapping>>
    PROVE  QuietInv'
BY Aside DEF Finish, TaskInv, TaskTypes

LEMMA QueueOne ==
    ASSUME TaskInv, QuietInv, NEW p \in Task, NEW m \in Message, pc[p] = "idle", Queue(p, m),
           \A q \in Task : q # p => sub'[q] = sub[q],
           UNCHANGED <<owner, threads, astray, gone, mapping>>
    PROVE  QuietInv'
<1>1. /\ pc'[p] = "waiting" /\ UNCHANGED <<thread, created>>
      /\ \A q \in Task : q # p => pc'[q] = pc[q] /\ msg'[q] = msg[q]
    BY DEF Queue, Goto, TaskInv, TaskTypes
<1>2. Alone(p)
    BY <1>1 DEF Alone, OwnRow, Live
<1>3. ~created'[p]
    BY <1>1 DEF QuietInv, OwnRowStays, Holding, Pc, TaskInv, TaskTypes
<1>. QED BY <1>1, <1>2, <1>3, Aside

LEMMA StepOne ==
    ASSUME TypeInv, RowInv, QuietInv, NEW p \in Task, Step(p)
    PROVE  QuietInv'
<1>0. TaskInv /\ RowTypes /\ Alone(p)
    BY Parts, AloneStep
<1>1. CASE Acquire(p)
    <2>1. pc[p] = "waiting" /\ pc'[p] \in {"recheck", "load"} /\ UNCHANGED <<thread, created>>
        BY <1>0, <1>1 DEF Acquire, Goto, TaskInv, TaskTypes
    <2>2. ~created'[p]
        BY <2>1 DEF QuietInv, OwnRowStays, Holding, Pc, TaskInv, TaskTypes
    <2>. QED BY <1>0, <1>1, <2>1, <2>2, Aside DEF Acquire, db, chat
<1>2. CASE LoadOrCreate(p)
    <2>1. /\ pc[p] = "load" /\ pc'[p] \in {"read", "ingest"} /\ msg[p] \in Message
          /\ UNCHANGED <<thread, msg, threads, astray, gone, mapping>>
        BY <1>0, <1>2 DEF LoadOrCreate, Goto, TaskInv, TaskTypes, Working, chat
    <2>2. OwnRow(p)'
        <3>1. CASE UNCHANGED owner
            <4>1. PICK id \in Live : owner[id] = msg[p] /\ sub' = [sub EXCEPT ![p] = id]
                <5>1. ~ \E id \in Id : /\ \A i \in Live : owner[i] # msg[p] /\ i < id
                                       /\ owner' = [owner EXCEPT ![id] = msg[p]]
                    BY <1>0, <2>1, <3>1, NotATask DEF RowTypes, Live, Id
                <5>. QED BY <1>2, <5>1 DEF LoadOrCreate
            <4>. QED BY <1>0, <2>1, <3>1, <4>1 DEF OwnRow, TaskInv, TaskTypes, Live
        <3>2. ASSUME NEW id \in Id, owner' = [owner EXCEPT ![id] = msg[p]],
                     sub' = [sub EXCEPT ![p] = id]
              PROVE  OwnRow(p)'
            BY <1>0, <2>1, <3>2, NotATask DEF OwnRow, TaskInv, TaskTypes, RowTypes, Live
        <3>. QED BY <1>2, <3>1, <3>2 DEF LoadOrCreate
    <2>. QED BY <1>0, <2>1, <2>2, Aside DEF Holding, Pc
<1>3. CASE Ingest(p)
    <2>1. /\ pc[p] = "ingest" /\ pc'[p] = "read"
          /\ UNCHANGED <<owner, sub, msg, thread, created, threads, astray, gone, mapping>>
        BY <1>0, <1>3 DEF Ingest, Goto, TaskInv, TaskTypes, chat
    <2>2. created'[p] => OwnRow(p)'
        BY <2>1 DEF QuietInv, OwnRowStays, OwnRow, Live
    <2>. QED BY <1>0, <2>1, <2>2, Aside DEF Holding, Pc
<1>4. CASE ReadMapping(p)
    <2>1. CASE sub[p] \in Live
        BY <1>0, <1>4, <2>1, ReadMappingOne
    <2>2. CASE sub[p] \notin Live
        BY <1>0, <1>4, <2>2, FinishOne DEF ReadMapping, db, chat
    <2>. QED BY <2>1, <2>2
<1>5. CASE ThreadFails(p)
    BY <1>0, <1>5, FinishOne DEF ThreadFails, NeedsThread, db, chat
<1>6. CASE Screen(p)
    <2>1. CASE Finish(p)
        BY <1>0, <1>6, <2>1, FinishOne DEF Screen
    <2>2. CASE Goto(p, "curate") /\ UNCHANGED <<rows, msg, sub, thread, created>>
        <3>1. created'[p] => OwnRow(p)'
            BY <2>2 DEF QuietInv, OwnRowStays, OwnRow, Live, rows
        <3>2. pc'[p] = "curate"
            BY <1>0, <2>2 DEF Goto, TaskInv, TaskTypes
        <3>. QED BY <1>0, <1>6, <2>2, <3>1, <3>2, Aside DEF Screen, Holding, Pc
    <2>. QED BY <1>6, <2>1, <2>2 DEF Screen
<1>7. CASE Curate(p)
    BY <1>0, <1>7, FinishOne DEF Curate, chat
<1>. QED BY <1>0, <1>1, <1>2, <1>3, <1>4, <1>5, <1>6, <1>7, ResolveOne, CreateOne, PersistOne
         DEF Step

\* What changes neither the tasks nor the threads.
LEMMA ElseOne ==
    ASSUME QuietInv, UNCHANGED <<owner, mapping, threads, gone, astray, tasks>>
    PROVE  QuietInv'
BY DEF QuietInv, Known, OwnRowStays, Mapped, Sees, Single, OwnRow, Live, tasks

LEMMA LoopOne ==
    ASSUME TypeInv, QuietInv, RetryLoop \/ Boot
    PROVE  QuietInv'
<1>0. TaskInv /\ RowTypes /\ BootTypes /\ Retrier \in Task /\ Scanner \in Task
    BY Parts, NotATask
<1>1. CASE Scan
    BY <1>1, ElseOne DEF Scan, db, rows, chat
<1>2. ASSUME NEW x \in todo, RetryNext(x) PROVE QuietInv'
    <2>1. x.msg \in Message /\ \A q \in Task : q # Retrier => sub'[q] = sub[q]
        BY <1>0, <1>2 DEF RetryNext, BootTypes, TaskInv, TaskTypes
    <2>. QED BY <1>0, <1>2, <2>1, QueueOne DEF RetryNext, db, rows, chat
<1>3. CASE Recheck
    <2>1. Alone(Retrier) /\ pc[Retrier] = "recheck"
        BY <1>0, <1>3 DEF Alone, Recheck, Finish, Goto, TaskInv, TaskTypes, OwnRow, Live, db, rows
    <2>2. CASE Finish(Retrier)
        BY <1>0, <1>3, <2>1, <2>2, FinishOne DEF Recheck, db, chat
    <2>3. CASE Goto(Retrier, "read") /\ UNCHANGED <<msg, sub, thread, created>>
        <3>1. created'[Retrier] => OwnRow(Retrier)'
            BY <1>0, <1>3, <2>3 DEF Recheck, QuietInv, OwnRowStays, OwnRow, Live, db, rows
        <3>2. pc'[Retrier] = "read"
            BY <1>0, <2>3 DEF Goto, TaskInv, TaskTypes
        <3>. QED BY <1>0, <1>3, <2>1, <2>3, <3>1, <3>2, Aside DEF Recheck, Holding, Pc, db, chat
    <2>. QED BY <1>3, <2>2, <2>3 DEF Recheck
<1>4. ASSUME NEW m \in missed, CatchUp(m) PROVE QuietInv'
    <2>1. m \in Message
        BY <1>0 DEF BootTypes
    <2>2. CASE Queue(Scanner, m) /\ sub' = sub
        BY <1>0, <1>4, <2>1, <2>2, QueueOne DEF CatchUp, db, rows, chat
    <2>3. CASE UNCHANGED tasks
        BY <1>4, <2>3, ElseOne DEF CatchUp, db, rows, chat
    <2>. QED BY <1>4, <2>2, <2>3 DEF CatchUp
<1>5. CASE ListThreads
    BY <1>5, ElseOne DEF ListThreads, db, rows, chat
<1>6. ASSUME NEW x \in replay, Replay(x) PROVE QuietInv'
    BY <1>6, ElseOne DEF Replay, rows, chat, QuietInv, Known
<1>. QED BY <1>1, <1>2, <1>3, <1>4, <1>5, <1>6 DEF RetryLoop, Boot

\* Nothing disturbed before, and this step does not.
LEMMA QuietStep ==
    ASSUME TypeInv, [Next]_vars, Quiet'
    PROVE  Quiet /\ ~Outages /\ ~Crash /\ (\A id \in Id : ~Remove(id)) /\ (\A t \in Thread : ~DeleteThread(t))
<1>1. removals \in Nat /\ deletions \in Nat /\ crashes \in Nat /\ outages \in Nat
    BY IntakeAssumption DEF TypeInv, TypeOK
<1>2. UNCHANGED limit => Quiet
    BY DEF limit, Quiet
<1>3. ~Outages
    BY <1>1 DEF Outages, ScanTimesOut, CreatedTooLate, ResolveFails, Quiet, boot, limit
<1>4. ~Crash
    <2>. SUFFICES ASSUME Crash PROVE FALSE
        OBVIOUS
    <2>1. TypeInv'
        BY TypeStep
    <2>2. deletions' \in Nat
        BY <2>1, IntakeAssumption DEF TypeInv, TypeOK
    <2>. QED BY <1>1, <2>2 DEF Crash, Quiet
<1>5. (\A id \in Id : ~Remove(id)) /\ (\A t \in Thread : ~DeleteThread(t))
    BY <1>1 DEF Remove, DeleteThread, Quiet
<1>6. UNCHANGED limit
    <2>1. CASE UNCHANGED vars
        BY <2>1 DEF vars
    <2>2. ASSUME NEW p \in Handler, NEW m \in Message, React(p, m) PROVE UNCHANGED limit
        BY <2>2 DEF React
    <2>3. ASSUME NEW p \in Task, Step(p) PROVE UNCHANGED limit
        BY <2>3 DEF Step, Acquire, LoadOrCreate, Ingest, ReadMapping, Resolve, CreateThread,
                   ThreadFails, PersistMapping, Screen, Curate
    <2>4. CASE RetryLoop \/ Boot
        BY <2>4 DEF RetryLoop, Boot, Scan, RetryNext, Recheck, CatchUp, ListThreads, Replay
    <2>5. CASE Curators
        BY <1>5, <2>5 DEF Curators, Confirm
    <2>. QED BY <1>3, <1>4, <2>1, <2>2, <2>3, <2>4, <2>5 DEF Next
<1>. QED BY <1>2, <1>3, <1>4, <1>5, <1>6

LEMMA ThreadStep == TypeInv /\ RowInv /\ ThreadInv /\ [Next]_vars => ThreadInv'
<1>. SUFFICES ASSUME TypeInv, RowInv, ThreadInv, [Next]_vars, Quiet' PROVE QuietInv'
    BY DEF ThreadInv
<1>0. TaskInv /\ QuietInv /\ ~Outages /\ ~Crash
      /\ (\A id \in Id : ~Remove(id)) /\ (\A t \in Thread : ~DeleteThread(t))
    BY Parts, QuietStep DEF ThreadInv
<1>1. CASE UNCHANGED vars
    BY <1>0, <1>1, ElseOne DEF vars, db, rows, chat
<1>2. ASSUME NEW p \in Handler, NEW m \in Message, React(p, m) PROVE QuietInv'
    <2>1. p \in Task
        BY DEF Task
    <2>. QED BY <1>0, <1>2, <2>1, QueueOne DEF React, db, rows
<1>3. CASE Curators
    <2>1. PICK id \in Id : Confirm(id)
        BY <1>0, <1>3 DEF Curators
    <2>. QED BY <1>0, <2>1, ElseOne DEF Confirm, chat
<1>. QED BY <1>0, <1>1, <1>2, <1>3, StepOne, LoopOne DEF Next

LEMMA ThreadInit == Init => ThreadInv
BY DEF Init, ThreadInv, QuietInv, Known, OwnRowStays, Mapped, Sees, Single

\* Issue #52: for any number of messages, handlers and threads, a message gets one
\* thread from reactions, replays and the retry loop together, while nobody takes a
\* submission back and Discord answers; but for the threads the retry loop makes for
\* a row that is another message's by then (_threadless_retry_once).
THEOREM OneThreadEach == Spec => []OneThread
<1>1. ThreadInv => OneThread
    BY DEF ThreadInv, QuietInv, Single, OneThread, Quiet
<1>. QED BY <1>1, TypeInit, TypeStep, RowInit, RowInvStep, ThreadInit, ThreadStep, PTL DEF Spec
=============================================================================
