------------------------------ MODULE Closing -------------------------------
(***************************************************************************)
(* What follows a submission's being queued, besides its publication: its  *)
(* videos go to the board's YouTube playlist, and its thread is archived   *)
(* (curation/handlers.py, scheduler/__init__.py, discord_ingest/).         *)
(*                                                                         *)
(* The handlers call YouTube inside their transaction, so the table and    *)
(* the playlist part whenever an answer is lost or the transaction is      *)
(* rolled back after the call.  A thread is archived by three independent  *)
(* agents: in-memory timers, a scan at every start that sets such timers   *)
(* anew, and a sweep that looks at archived_at, which nothing ever resets. *)
(*                                                                         *)
(* One board with a playlist.  A row of YoutubePlaylistAdd is named by the *)
(* attempt that made it, <<message, video, attempt>>; so is the playlist   *)
(* item that came of it.                                                   *)
(***************************************************************************)
EXTENDS Naturals, FiniteSets

CONSTANTS Message,   \* Discord source messages
          Video,     \* YouTube videos
          VideosOf,  \* the videos a message's submission links to
          MaxTries,  \* bound: Queue presses per message
          MaxFaults, \* bound: calls to YouTube or Discord that fail
          MaxEdits,  \* bound: cancellations, deletions, replies, restarts
          MaxTimers  \* bound: pending archives of one thread

ASSUME ClosingAssumption ==
    /\ VideosOf \in [Message -> SUBSET Video]
    /\ {MaxTries, MaxFaults, MaxEdits} \subseteq Nat
    /\ MaxTimers \in Nat \ {0}

VARIABLES
    \* the database
    state,     \* Submission.state; "none" without a row, "open" before queued
    skipped,   \* messages whose submission has playlist_skipped
    rows,      \* YoutubePlaylistAdd
    ok,        \* the rows with success = True
    marked,    \* messages whose SubmissionThread has archived_at
    \* YouTube and Discord
    playlist,  \* the items the bot has put into the playlist
    thread,    \* "none", "open" or "closed" (archived)
    \* memory: lost at a restart
    timers,    \* archives scheduled for the thread
    scan,      \* what _archive_queued_threads read and has not looked at yet
    booting,   \* it has not read yet
    \* observations
    flops,     \* rows for which YouTube once refused to add or to remove
    strays,    \* videos for which the outcome of a call was not recorded
    withdrawn, \* videos taken out of the playlist
    unqueued,  \* messages whose queued submission was deleted
    reopened,  \* messages whose archived thread was reopened after publication
    \* the bounded environment
    tries, faults, edits

db   == <<state, skipped, rows, ok, marked>>
mem  == <<timers, scan, booting>>
obs  == <<flops, strays, withdrawn, unqueued, reopened>>
vars == <<db, playlist, thread, mem, obs, tries, faults, edits>>

CLOSED_STATES == {"queued", "published", "publish_failed"}

Row    == Message \X Video \X (1 .. MaxTries)
Msg(r) == r[1]
Vid(r) == r[2]

\* Mutant: the rows of this submission only.
AddedNow(m) == {r \in ok : Msg(r) = m /\ r[3] = tries[m]}

\* The rows a handler selects to take a submission's videos out.
Added(m) == {r \in ok : Msg(r) = m}
Playing(v) == \E r \in ok : Vid(r) = v

Fault(happens) == /\ happens => faults < MaxFaults
                  /\ faults' = IF happens THEN faults + 1 ELSE faults
Edit == edits < MaxEdits /\ edits' = edits + 1

\* A message that must be accepted, or the handler's transaction is rolled back.
Sent(m) == IF thread[m] = "none" THEN "none" ELSE "open"
\* A message that may be refused: an archived thread rejects it, or reopens for it.
MaybeSent(m) == {Sent(m), thread[m]}
Archived(m) == IF thread[m] = "none" THEN "none" ELSE "closed"

\* A message in the thread of a published submission, which stays open with it.
Reopened(m, sent) == IF sent /\ state[m] = "published" THEN reopened \cup {m} ELSE reopened

\* archive_after_delay: a task nothing can call back.
Armed(m) == [timers EXCEPT ![m] = IF @ < MaxTimers THEN @ + 1 ELSE @]

\* _playlist_close_ready, after the rows become rs and the opt-outs sk.
CloseReady(m, rs, sk) == m \in sk \/ \E r \in rs : Msg(r) = m

Init ==
    /\ state = [m \in Message |-> "none"] /\ skipped = {}
    /\ rows = {} /\ ok = {} /\ marked = {} /\ playlist = {}
    /\ thread = [m \in Message |-> "none"]
    /\ timers = [m \in Message |-> 0] /\ scan = {} /\ booting = FALSE
    /\ flops = {} /\ strays = {} /\ withdrawn = {} /\ unqueued = {} /\ reopened = {}
    /\ tries = [m \in Message |-> 0] /\ faults = 0 /\ edits = 0

-----------------------------------------------------------------------------
(* A submission is made, queued and cancelled.                             *)

\* A butterfly: a new submission, in a new thread or in the old one, reopened.
Mark(m) ==
    /\ state[m] = "none"
    /\ state' = [state EXCEPT ![m] = "open"]
    /\ skipped' = skipped \ {m}
    /\ \E t \in IF thread[m] = "none" THEN {"open"} ELSE MaybeSent(m) :
           thread' = [thread EXCEPT ![m] = t]
    /\ UNCHANGED <<rows, ok, marked, playlist, mem, obs, tries, faults, edits>>

\* The videos _auto_add_to_playlist sends to YouTube: none that is there for anyone.
ToAdd(m) == IF m \in skipped THEN {} ELSE {v \in VideosOf[m] : ~Playing(v)}

Attempt(m, vs) == {<<m, v, tries[m] + 1>> : v \in vs}

\* The calls: of the videos not added, some (lost) were added all the same, and
\* only the answer was lost.  Then a row for each of the videos recorded.
AddToPlaylist(m, good, lost, recorded) ==
    /\ good \subseteq ToAdd(m) /\ lost \subseteq ToAdd(m) \ good
    /\ rows' = rows \cup Attempt(m, recorded)
    /\ ok' = ok \cup Attempt(m, good)
    /\ playlist' = playlist \cup Attempt(m, good \cup lost)
    /\ flops' = flops \cup Attempt(m, ToAdd(m) \ good)
    /\ strays' = strays \cup lost
    /\ Fault(good # ToAdd(m))

\* Mutants: only refused videos are recorded; only added ones.
AutoAddFailures(m, good, lost)  == AddToPlaylist(m, good, lost, ToAdd(m) \ good)
AutoAddSuccesses(m, good, lost) == AddToPlaylist(m, good, lost, good)

\* _auto_add_to_playlist: every video sent is recorded.
AutoAdd(m, good, lost) == AddToPlaylist(m, good, lost, ToAdd(m))

\* Queue: the state, the videos, the notice and the timer, in one transaction.
QueueCommits(m) ==
    /\ \E good, lost \in SUBSET Video : AutoAdd(m, good, lost)
    /\ state' = [state EXCEPT ![m] = "queued"]
    /\ thread' = [thread EXCEPT ![m] = "open"]
    /\ timers' = IF CloseReady(m, rows', skipped) THEN Armed(m) ELSE timers
    /\ UNCHANGED <<skipped, marked, scan, booting, withdrawn, unqueued, reopened>>

\* The notice is refused: everything is undone, except what YouTube has done.
QueueRollsBack(m) ==
    /\ \E sent \in SUBSET ToAdd(m) :
           /\ playlist' = playlist \cup Attempt(m, sent)
           /\ strays' = strays \cup sent
    /\ Fault(TRUE)
    /\ UNCHANGED <<db, thread, mem, flops, withdrawn, unqueued, reopened>>

Confirm(m) ==
    /\ state[m] = "open" /\ thread[m] # "none"
    /\ tries[m] < MaxTries /\ tries' = [tries EXCEPT ![m] = @ + 1]
    /\ QueueCommits(m) \/ QueueRollsBack(m)
    /\ UNCHANGED edits

HandleConfirmButton(m)         == Confirm(m)
HandleConfirmationReaction(m)  == Confirm(m)

Delete(m) ==
    /\ state' = [state EXCEPT ![m] = "none"]
    /\ unqueued' = IF state[m] = "open" THEN unqueued ELSE unqueued \cup {m}

\* The submission goes, its playlist rows stay, and the thread is closed at once.
Cancel(m) ==
    /\ state[m] \notin {"none", "published"} /\ Edit /\ Delete(m)
    /\ \E fails \in BOOLEAN :
           /\ thread' = [thread EXCEPT ![m] = IF fails THEN Sent(m) ELSE Archived(m)]
           /\ Fault(fails)
    /\ UNCHANGED <<skipped, rows, ok, marked, playlist, mem, flops, strays, withdrawn, reopened, tries>>

HandleCancelButton(m)   == Cancel(m)
HandleCancelReaction(m) == Cancel(m)

-----------------------------------------------------------------------------
(* Videos are taken out again, or sent again.                              *)

\* The rows gone are deleted; YouTube removes the items of those in good.  An
\* item that is not there any more it refuses to remove.
RemoveFromPlaylist(m, good, gone) ==
    /\ good \subseteq Added(m) \cap playlist
    /\ rows' = rows \ gone /\ ok' = ok \ gone /\ playlist' = playlist \ good
    /\ flops' = flops \cup (Added(m) \ good)
    /\ withdrawn' = withdrawn \cup {Vid(r) : r \in gone}
    /\ Fault(good # Added(m) \cap playlist)

\* Mutant: the row goes in any case.
DoPlaylistForget(m, good) == RemoveFromPlaylist(m, good, Added(m))

\* _do_playlist_remove: a row whose item YouTube does not remove is kept.
DoPlaylistRemove(m, good) == RemoveFromPlaylist(m, good, good)

\* The Skip playlist button.  The time left of a queued submission's timer is
\* counted again, in a second timer.
SkipCommits(m) ==
    /\ \E good \in SUBSET Added(m) : DoPlaylistRemove(m, good)
    /\ skipped' = skipped \cup {m}
    /\ thread' = IF Added(m) = {} THEN thread ELSE [thread EXCEPT ![m] = Sent(m)]
    /\ timers' = IF state[m] = "queued" THEN Armed(m) ELSE timers
    /\ reopened' = Reopened(m, Added(m) # {})
    /\ UNCHANGED <<state, marked, scan, booting, strays, unqueued>>

\* A notice is refused after some removals: the rows are back, the items are not.
RemovalRollsBack(m) ==
    /\ Added(m) # {}
    /\ \E sent \in SUBSET Added(m) :
           /\ playlist' = playlist \ sent
           /\ strays' = strays \cup {Vid(r) : r \in sent}
    /\ Fault(TRUE)
    /\ UNCHANGED <<db, thread, mem, flops, withdrawn, unqueued, reopened>>

HandlePlaylistSkipButton(m) ==
    /\ state[m] # "none" /\ thread[m] # "none" /\ m \notin skipped
    /\ SkipCommits(m) \/ RemovalRollsBack(m)
    /\ UNCHANGED <<tries, edits>>

\* A curator's cross on the source post: the submission goes unless it is
\* published, its videos in any case, and their rows even when YouTube refuses.
\* Each video's notice comes last, and opens the thread that was just archived.
SourceCancelCommits(m) ==
    /\ IF state[m] \in {"none", "published"} THEN UNCHANGED <<state, unqueued>> ELSE Delete(m)
    /\ \E good \in SUBSET (Added(m) \cap playlist), fails \in BOOLEAN :
           /\ playlist' = playlist \ good
           /\ strays' = strays \cup {Vid(r) : r \in Added(m) \ good}
           /\ thread' = [thread EXCEPT ![m] =
                             IF fails \/ Added(m) # {} THEN Sent(m) ELSE Archived(m)]
           /\ Fault(fails \/ good # Added(m) \cap playlist)
    /\ rows' = rows \ Added(m) /\ ok' = ok \ Added(m)
    /\ withdrawn' = withdrawn \cup {Vid(r) : r \in Added(m)}
    /\ reopened' = Reopened(m, TRUE)
    /\ UNCHANGED <<skipped, marked, mem, flops>>

HandleSourceCancelReaction(m) ==
    /\ state[m] \notin {"none", "published"} \/ Added(m) # {}
    /\ Edit
    /\ SourceCancelCommits(m) \/ RemovalRollsBack(m)
    /\ UNCHANGED tries

\* Mutants: also what has been added since; only of submissions that are there.
FailedEver == rows \ ok
FailedLive == {r \in rows \ ok : ~Playing(Vid(r)) /\ state[Msg(r)] # "none"}

\* The rows the hourly retry selects, before it sends any of them.
Failed == {r \in rows \ ok : ~Playing(Vid(r))}

\* _retry_failed_playlist_adds: some of what it selected is added.
RetryFailedPlaylistAdds ==
    \E good \in SUBSET Failed :
        /\ good # {}
        /\ ok' = ok \cup good
        /\ playlist' = playlist \cup good
        /\ UNCHANGED <<state, skipped, rows, marked, thread, mem, obs, tries, faults, edits>>

-----------------------------------------------------------------------------
(* Threads are archived.                                                   *)

\* _archive_thread_after_delay_seconds, _archive_thread_by_id: the time is up.
\* No one asks what has become of the submission.
TimerFires(m) ==
    /\ timers[m] > 0
    /\ timers' = [timers EXCEPT ![m] = @ - 1]
    /\ \E fails \in BOOLEAN, t \in MaybeSent(m) :
           /\ thread' = [thread EXCEPT ![m] = IF fails THEN t ELSE Archived(m)]
           /\ Fault(fails)
    /\ UNCHANGED <<db, playlist, scan, booting, obs, tries, edits>>

\* Mutant: only of published submissions.
StalePublished == {m \in Message : state[m] = "published" /\ m \notin marked}

\* The threads _archive_stale_threads selects.
Stale == {m \in Message : state[m] \in CLOSED_STATES /\ m \notin marked}

\* _archive_stale_threads: those that it finds closed, or closes, are ticked off.
ArchiveStaleThreads ==
    \E done \in SUBSET {m \in Stale : thread[m] # "none"} :
        /\ done # {}
        /\ marked' = marked \cup done
        /\ thread' = [m \in Message |-> IF m \in done THEN "closed" ELSE thread[m]]
        /\ UNCHANGED <<state, skipped, rows, ok, playlist, mem, obs, tries, faults, edits>>

\* The process stops and starts again: the timers are lost.
Restart ==
    /\ Edit
    /\ timers' = [m \in Message |-> 0] /\ scan' = {} /\ booting' = TRUE
    /\ UNCHANGED <<db, playlist, thread, obs, tries, faults>>

\* Mutants: whatever has a thread; queued submissions only.
ScannedAll == {"open"} \cup CLOSED_STATES
ScannedQueued == {"queued"}

Scanned == {"queued", "published"}

\* _archive_queued_threads reads which submissions are queued or published ...
BootScan ==
    /\ booting /\ booting' = FALSE
    /\ scan' = {[msg |-> m, state |-> state[m], skipped |-> m \in skipped] :
                    m \in {n \in Message : state[n] \in Scanned}}
    /\ UNCHANGED <<db, playlist, thread, timers, obs, tries, faults, edits>>

\* ... and sets a timer for each, a queued one's if its videos do not stand
\* in the way, each in a transaction of its own.
BootSchedule(b) ==
    /\ b \in scan /\ scan' = scan \ {b}
    /\ timers' = IF b.state = "published"
                    \/ CloseReady(b.msg, rows, IF b.skipped THEN {b.msg} ELSE {})
                 THEN Armed(b.msg) ELSE timers
    /\ UNCHANGED <<db, playlist, thread, booting, obs, tries, faults, edits>>

-----------------------------------------------------------------------------
(* The rest of the system.                                                 *)

\* The dispatcher publishes a queued submission (Publishing), or fails to.
Publish(m) ==
    /\ state[m] \in {"queued", "publish_failed"}
    /\ state' = [state EXCEPT ![m] = "published"]
    /\ \E t \in MaybeSent(m) : thread' = [thread EXCEPT ![m] = t]
    /\ timers' = Armed(m)
    /\ UNCHANGED <<skipped, rows, ok, marked, playlist, scan, booting, obs, tries, faults, edits>>

PublishFails(m) ==
    /\ state[m] \in {"queued", "publish_failed"}
    /\ \E s \in {"publish_failed", "publish_blocked"} : state' = [state EXCEPT ![m] = s]
    /\ \E t \in MaybeSent(m) : thread' = [thread EXCEPT ![m] = t]
    /\ UNCHANGED <<skipped, rows, ok, marked, playlist, mem, obs, tries, faults, edits>>

\* requeue_blocked, run by hand.
Requeue(m) ==
    /\ state[m] = "publish_blocked"
    /\ state' = [state EXCEPT ![m] = "publish_failed"]
    /\ UNCHANGED <<skipped, rows, ok, marked, playlist, thread, mem, obs, tries, faults, edits>>

\* A member writes into an archived thread, which Discord reopens.
MemberPosts(m) ==
    /\ thread[m] = "closed" /\ Edit
    /\ thread' = [thread EXCEPT ![m] = "open"]
    /\ reopened' = Reopened(m, TRUE)
    /\ UNCHANGED <<db, playlist, mem, flops, strays, withdrawn, unqueued, tries, faults>>

\* A thread is deleted, and with it a submission that is not queued yet.  The
\* archives pending for it will find nothing.
DeleteThread(m) ==
    /\ thread[m] # "none" /\ Edit
    /\ thread' = [thread EXCEPT ![m] = "none"]
    /\ state' = [state EXCEPT ![m] = IF @ = "open" THEN "none" ELSE @]
    /\ timers' = [timers EXCEPT ![m] = 0]
    /\ scan' = {b \in scan : b.msg # m}
    /\ UNCHANGED <<skipped, rows, ok, marked, playlist, booting, obs, tries, faults>>

Next ==
    \/ \E m \in Message :
           \/ Mark(m) \/ HandleConfirmButton(m) \/ HandleConfirmationReaction(m)
           \/ HandleCancelButton(m) \/ HandleCancelReaction(m)
           \/ HandlePlaylistSkipButton(m) \/ HandleSourceCancelReaction(m)
           \/ TimerFires(m) \/ Publish(m) \/ PublishFails(m) \/ Requeue(m)
           \/ MemberPosts(m) \/ DeleteThread(m)
    \/ RetryFailedPlaylistAdds \/ ArchiveStaleThreads
    \/ Restart \/ BootScan \/ \E b \in scan : BootSchedule(b)

Spec == Init /\ [][Next]_vars

\* The two loops run for ever and catch every exception; timers fire; the scan
\* at the start ends.  YouTube and Discord accept a call that is repeated.
FairSpec ==
    /\ Spec
    /\ WF_vars(RetryFailedPlaylistAdds) /\ WF_vars(ArchiveStaleThreads)
    /\ WF_vars(BootScan) /\ WF_vars(\E b \in scan : BootSchedule(b))
    /\ \A m \in Message : WF_vars(TimerFires(m))

-----------------------------------------------------------------------------
(* Properties.                                                             *)

\* Every variable has the shape the code gives it; a successful row is a row.
TypeOK ==
    /\ state \in [Message -> {"none", "open", "publish_blocked"} \cup CLOSED_STATES]
    /\ skipped \subseteq Message /\ marked \subseteq Message /\ unqueued \cup reopened \subseteq Message
    /\ rows \subseteq Row /\ ok \subseteq rows /\ playlist \subseteq Row /\ flops \subseteq Row
    /\ thread \in [Message -> {"none", "open", "closed"}]
    /\ timers \in [Message -> 0 .. MaxTimers] /\ booting \in BOOLEAN
    /\ scan \subseteq [msg : Message, state : Scanned, skipped : BOOLEAN]
    /\ strays \subseteq Video /\ withdrawn \subseteq Video
    /\ tries \in [Message -> 0 .. MaxTries] /\ faults \in 0 .. MaxFaults /\ edits \in 0 .. MaxEdits

\* A video is recorded as added once, whoever submits it and however often,
\* unless YouTube refused it twice: the retry sends all it selected.
VideoOnce ==
    \A r, s \in ok : Vid(r) = Vid(s) /\ r # s => {r, s} \subseteq flops

\* None of the videos of a submission that opted out is recorded as added, from
\* whichever time the message was queued, unless YouTube refused a call for it.
OptedOut ==
    \A r \in ok : Msg(r) \in skipped => r \in flops

\* A queued submission's videos are added, or will be retried: no submission of
\* the same video takes them with it when it is cancelled, only when a member
\* takes the video out.
Wanted ==
    \A m \in Message : state[m] \notin {"none", "open"} /\ m \notin skipped =>
        \A v \in VideosOf[m] \ withdrawn : \E r \in rows : Vid(r) = v

\* The table and the playlist agree on every video, except where the outcome of
\* a call to YouTube was lost or undone.
Truthful ==
    \A v \in Video \ strays :
        {r \in playlist : Vid(r) = v} = {r \in ok : Vid(r) = v}

\* No archive is pending for the thread of a submission that is still being
\* worked on, also across restarts, unless an earlier one was deleted when queued.
OpenNotArchived ==
    \A m \in Message : state[m] = "open" /\ timers[m] > 0 => m \in unqueued

\* An open thread of a published submission is going to be archived, also when a
\* restart came in between and when it had been archived before, as long as no
\* archiving failed and nobody reopened it since.
ArchivePending ==
    \A m \in Message : state[m] = "published" /\ thread[m] = "open" =>
        \/ timers[m] > 0 \/ booting \/ \E b \in scan : b.msg = m
        \/ m \notin marked \/ m \in reopened \/ faults > 0

\* A video YouTube refused is in the playlist some time.
Recovers ==
    \A v \in Video : (\E r \in rows \ ok : Vid(r) = v) ~> Playing(v)

\* The thread of a queued, published or failed submission that was never archived
\* is archived some time, whatever fails.
Closes ==
    \A m \in Message :
        state[m] \in CLOSED_STATES /\ m \notin marked
            ~> thread[m] # "open" \/ state[m] \in {"none", "publish_blocked"}
=============================================================================
