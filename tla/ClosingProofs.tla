--------------------------- MODULE ClosingProofs ----------------------------
(***************************************************************************)
(* Theorems about Closing: its types, which videos are recorded as added   *)
(* and what the table says of them, that no queued video is forgotten, and *)
(* which threads may have an archive pending.                              *)
(***************************************************************************)
EXTENDS Closing, TLAPS

\* A step that touches neither the videos nor what they depend on.
VideosKept == UNCHANGED <<rows, ok, flops, skipped>>

\* The actions, without their twins.
LEMMA Actions ==
    ASSUME Next
    PROVE  \/ \E m \in Message :
                  \/ Mark(m) \/ Confirm(m) \/ Cancel(m)
                  \/ HandlePlaylistSkipButton(m) \/ HandleSourceCancelReaction(m)
                  \/ TimerFires(m) \/ Publish(m) \/ PublishFails(m) \/ Requeue(m)
                  \/ MemberPosts(m) \/ DeleteThread(m)
           \/ RetryFailedPlaylistAdds \/ ArchiveStaleThreads
           \/ Restart \/ BootScan \/ \E b \in scan : BootSchedule(b)
BY DEF Next, HandleConfirmButton, HandleConfirmationReaction,
       HandleCancelButton, HandleCancelReaction

-----------------------------------------------------------------------------
(* Videos.  Whatever is not recorded as added was refused once; the retry  *)
(* is the only step that adds a second row of one video, and it takes from *)
(* these.                                                                  *)

RefusedBefore == rows \ ok \subseteq flops

VInv == RefusedBefore /\ VideoOnce /\ OptedOut

\* Rows are deleted, in both sets, and refusals noted.
LEMMA DeletingKeeps ==
    ASSUME VInv, NEW gone, rows' = rows \ gone, ok' = ok \ gone, flops \subseteq flops',
           \A r \in ok' : Msg(r) \in skipped' => Msg(r) \in skipped \/ r \in flops'
    PROVE  VInv'
BY DEF VInv, RefusedBefore, VideoOnce, OptedOut, Msg, Vid

\* The queue: a row for every video that nobody has added.
LEMMA QueueKeepsVideos ==
    ASSUME NEW m \in Message, NEW good, NEW lost, VInv,
           AutoAdd(m, good, lost), skipped' = skipped
    PROVE  VInv'
<1>. DEFINE new == Attempt(m, good)
            refused == Attempt(m, ToAdd(m) \ good)
<1>1. /\ rows' = rows \cup Attempt(m, ToAdd(m))
      /\ ok' = ok \cup new
      /\ flops' = flops \cup refused
      /\ good \subseteq ToAdd(m)
    BY DEF AutoAdd, AddToPlaylist
<1>2. Attempt(m, ToAdd(m)) \subseteq new \cup refused
    BY DEF Attempt
<1>3. RefusedBefore'
    BY <1>1, <1>2 DEF VInv, RefusedBefore
<1>4. \A r \in new : Msg(r) = m /\ Vid(r) \in good /\ r = <<m, Vid(r), tries[m] + 1>>
    BY DEF Attempt, Msg, Vid
<1>5. \A r \in new : m \notin skipped /\ ~Playing(Vid(r))
    BY <1>1, <1>4 DEF ToAdd
<1>6. VideoOnce'
    <2>. SUFFICES ASSUME NEW r \in ok', NEW s \in ok', Vid(r) = Vid(s), r # s
                  PROVE  r \in flops' /\ s \in flops'
        BY DEF VideoOnce, Vid
    <2>1. CASE r \in ok /\ s \in ok
        BY <1>1, <2>1 DEF VInv, VideoOnce
    <2>2. CASE r \in new /\ s \in new
        BY <1>4, <2>2
    <2>3. CASE r \in ok /\ s \in new
        BY <1>5, <2>3 DEF Playing
    <2>4. CASE r \in new /\ s \in ok
        BY <1>5, <2>4 DEF Playing
    <2>. QED BY <1>1, <2>1, <2>2, <2>3, <2>4
<1>7. OptedOut'
    BY <1>1, <1>4, <1>5 DEF VInv, OptedOut, Msg
<1>. QED BY <1>3, <1>6, <1>7 DEF VInv

\* The retry: what it adds was refused before, and nobody has added it.
LEMMA RetryKeepsVideos ==
    ASSUME VInv, RetryFailedPlaylistAdds
    PROVE  VInv'
<1>1. PICK good \in SUBSET Failed : ok' = ok \cup good
    BY DEF RetryFailedPlaylistAdds
<1>2. rows' = rows /\ flops' = flops /\ skipped' = skipped
    BY DEF RetryFailedPlaylistAdds, obs
<1>3. \A r \in good : r \in rows \ ok /\ r \in flops /\ ~Playing(Vid(r))
    BY DEF Failed, VInv, RefusedBefore
<1>4. RefusedBefore'
    BY <1>1, <1>2 DEF VInv, RefusedBefore
<1>5. VideoOnce'
    <2>. SUFFICES ASSUME NEW r \in ok', NEW s \in ok', Vid(r) = Vid(s), r # s
                  PROVE  r \in flops /\ s \in flops
        BY <1>2 DEF VideoOnce, Vid
    <2>1. CASE r \in ok /\ s \in ok
        BY <2>1 DEF VInv, VideoOnce
    <2>2. CASE r \in good /\ s \in good
        BY <1>3, <2>2
    <2>3. CASE r \in ok /\ s \in good
        BY <1>3, <2>3 DEF Playing
    <2>4. CASE r \in good /\ s \in ok
        BY <1>3, <2>4 DEF Playing
    <2>. QED BY <1>1, <2>1, <2>2, <2>3, <2>4
<1>6. OptedOut'
    BY <1>1, <1>2, <1>3 DEF VInv, OptedOut, Msg
<1>. QED BY <1>4, <1>5, <1>6 DEF VInv

LEMMA VStep == VInv /\ [Next]_vars => VInv'
<1>. SUFFICES ASSUME VInv, [Next]_vars PROVE VInv'
    OBVIOUS
<1>1. ASSUME VideosKept PROVE VInv'
    BY <1>1 DEF VideosKept, VInv, RefusedBefore, VideoOnce, OptedOut, Msg, Vid
<1>2. ASSUME NEW m \in Message, Mark(m) PROVE VInv'
    BY <1>2 DEF Mark, obs, VInv, RefusedBefore, VideoOnce, OptedOut, Msg, Vid
<1>3. ASSUME NEW m \in Message, Confirm(m) PROVE VInv'
    <2>1. CASE QueueCommits(m)
        BY <2>1, QueueKeepsVideos DEF QueueCommits
    <2>2. CASE QueueRollsBack(m)
        BY <1>1, <2>2 DEF QueueRollsBack, VideosKept, db
    <2>. QED BY <1>3, <2>1, <2>2 DEF Confirm
<1>4. ASSUME NEW m \in Message, RemovalRollsBack(m) PROVE VInv'
    BY <1>1, <1>4 DEF RemovalRollsBack, VideosKept, db
<1>5. ASSUME NEW m \in Message, HandlePlaylistSkipButton(m) PROVE VInv'
    <2>1. CASE SkipCommits(m)
        <3>1. PICK good : RemoveFromPlaylist(m, good, good)
            BY <2>1 DEF SkipCommits, DoPlaylistRemove
        <3>2. skipped' = skipped \cup {m}
            BY <2>1 DEF SkipCommits
        <3>3. flops' = flops \cup (Added(m) \ good) /\ rows' = rows \ good /\ ok' = ok \ good
            BY <3>1 DEF RemoveFromPlaylist
        <3>4. \A r \in ok' : Msg(r) \in skipped' => Msg(r) \in skipped \/ r \in flops'
            BY <3>2, <3>3 DEF Added, Msg
        <3>. QED BY <3>3, <3>4, DeletingKeeps
    <2>. QED BY <1>4, <1>5, <2>1 DEF HandlePlaylistSkipButton
<1>6. ASSUME NEW m \in Message, HandleSourceCancelReaction(m) PROVE VInv'
    <2>1. CASE SourceCancelCommits(m)
        BY <2>1, DeletingKeeps DEF SourceCancelCommits
    <2>. QED BY <1>4, <1>6, <2>1 DEF HandleSourceCancelReaction
<1>7. ASSUME NEW m \in Message, Cancel(m) PROVE VideosKept
    BY <1>7 DEF Cancel, VideosKept
<1>8. ASSUME NEW m \in Message,
             \/ TimerFires(m) \/ Publish(m) \/ PublishFails(m) \/ Requeue(m)
             \/ MemberPosts(m) \/ DeleteThread(m)
      PROVE  VideosKept
    BY <1>8 DEF TimerFires, Publish, PublishFails, Requeue, MemberPosts, DeleteThread,
                VideosKept, db, obs
<1>9. ASSUME \/ ArchiveStaleThreads \/ Restart \/ BootScan
             \/ \E b \in scan : BootSchedule(b)
      PROVE  VideosKept
    BY <1>9 DEF ArchiveStaleThreads, Restart, BootScan, BootSchedule, VideosKept, db, obs
<1>10. CASE UNCHANGED vars
    BY <1>1, <1>10 DEF vars, db, obs, VideosKept
<1>11. CASE Next
    BY <1>1, <1>2, <1>3, <1>5, <1>6, <1>7, <1>8, <1>9, <1>11, RetryKeepsVideos, Actions
<1>. QED BY <1>10, <1>11

\* However many submissions share a video, and whatever is queued, cancelled,
\* opted out and retried, it is recorded as added once, unless YouTube refused it
\* for two of them before (_auto_add_to_playlist, _retry_failed_playlist_adds).
THEOREM AddedOnce == Spec => []VideoOnce
<1>1. Init => VInv
    BY DEF Init, VInv, RefusedBefore, VideoOnce, OptedOut
<1>2. VInv => VideoOnce
    BY DEF VInv
<1>. QED BY <1>1, <1>2, VStep, PTL DEF Spec

\* No video of a submission that opted out is recorded as added, unless YouTube
\* refused to add or to remove it (handle_playlist_skip_button).
THEOREM OptOutRespected == Spec => []OptedOut
<1>1. Init => VInv
    BY DEF Init, VInv, RefusedBefore, VideoOnce, OptedOut
<1>2. VInv => OptedOut
    BY DEF VInv
<1>. QED BY <1>1, <1>2, VStep, PTL DEF Spec

-----------------------------------------------------------------------------
(* Types, and what the rows say of YouTube and of what people want.        *)

State == {"none", "open", "publish_blocked"} \cup CLOSED_STATES

\* The actions that touch the videos.
LEMMA VideoSteps ==
    ASSUME [Next]_vars
    PROVE  \/ \E m \in Message :
                  \/ (QueueCommits(m) /\ Confirm(m)) \/ QueueRollsBack(m)
                  \/ SkipCommits(m) \/ RemovalRollsBack(m) \/ SourceCancelCommits(m)
           \/ RetryFailedPlaylistAdds
           \/ UNCHANGED <<rows, ok, playlist, strays, withdrawn>>
<1>1. CASE UNCHANGED vars
    BY <1>1 DEF vars, db, obs
<1>2. ASSUME NEW m \in Message,
             Confirm(m) \/ HandlePlaylistSkipButton(m) \/ HandleSourceCancelReaction(m)
      PROVE  \/ (QueueCommits(m) /\ Confirm(m)) \/ QueueRollsBack(m)
             \/ SkipCommits(m) \/ RemovalRollsBack(m) \/ SourceCancelCommits(m)
    BY <1>2, Zenon DEF Confirm, HandlePlaylistSkipButton, HandleSourceCancelReaction
<1>3. ASSUME NEW m \in Message,
             \/ Mark(m) \/ Cancel(m) \/ TimerFires(m) \/ Publish(m) \/ PublishFails(m)
             \/ Requeue(m) \/ MemberPosts(m) \/ DeleteThread(m)
      PROVE  UNCHANGED <<rows, ok, playlist, strays, withdrawn>>
    BY <1>3 DEF Mark, Cancel, TimerFires, Publish, PublishFails, Requeue, MemberPosts,
                DeleteThread, db, obs
<1>4. ASSUME ArchiveStaleThreads \/ Restart \/ BootScan \/ \E b \in scan : BootSchedule(b)
      PROVE  UNCHANGED <<rows, ok, playlist, strays, withdrawn>>
    BY <1>4 DEF ArchiveStaleThreads, Restart, BootScan, BootSchedule, db, obs
<1>5. CASE Next
    BY <1>2, <1>3, <1>4, <1>5, Actions
<1>. QED BY <1>1, <1>5

LEMMA TruthfulStep == Truthful /\ [Next]_vars => Truthful'
<1>. SUFFICES ASSUME Truthful, [Next]_vars, NEW v \in Video, v \notin strays'
              PROVE  {r \in playlist' : Vid(r) = v} = {r \in ok' : Vid(r) = v}
    BY DEF Truthful, Vid
<1>1. strays \subseteq strays' => {r \in playlist : Vid(r) = v} = {r \in ok : Vid(r) = v}
    BY DEF Truthful
<1>2. ASSUME NEW m \in Message, QueueCommits(m)
      PROVE  {r \in playlist' : Vid(r) = v} = {r \in ok' : Vid(r) = v}
    <2>1. PICK good, lost :
              /\ ok' = ok \cup Attempt(m, good) /\ playlist' = playlist \cup Attempt(m, good \cup lost)
              /\ strays' = strays \cup lost
        BY <1>2 DEF QueueCommits, AutoAdd, AddToPlaylist
    <2>2. \A r \in Attempt(m, lost) : Vid(r) \in lost
        BY DEF Attempt, Vid
    <2>3. Attempt(m, good \cup lost) = Attempt(m, good) \cup Attempt(m, lost)
        BY DEF Attempt
    <2>. QED BY <1>1, <2>1, <2>2, <2>3
<1>3. ASSUME NEW m \in Message, QueueRollsBack(m)
      PROVE  {r \in playlist' : Vid(r) = v} = {r \in ok' : Vid(r) = v}
    <2>1. PICK sent : ok' = ok /\ playlist' = playlist \cup Attempt(m, sent) /\ strays' = strays \cup sent
        BY <1>3 DEF QueueRollsBack, db
    <2>2. \A r \in Attempt(m, sent) : Vid(r) \in sent
        BY DEF Attempt, Vid
    <2>. QED BY <1>1, <2>1, <2>2
<1>4. ASSUME NEW m \in Message, SkipCommits(m)
      PROVE  {r \in playlist' : Vid(r) = v} = {r \in ok' : Vid(r) = v}
    <2>1. PICK good : ok' = ok \ good /\ playlist' = playlist \ good /\ strays' = strays
        BY <1>4 DEF SkipCommits, DoPlaylistRemove, RemoveFromPlaylist
    <2>. QED BY <1>1, <2>1
<1>5. ASSUME NEW m \in Message, RemovalRollsBack(m)
      PROVE  {r \in playlist' : Vid(r) = v} = {r \in ok' : Vid(r) = v}
    <2>1. PICK sent : ok' = ok /\ playlist' = playlist \ sent /\ strays' = strays \cup {Vid(r) : r \in sent}
        BY <1>5 DEF RemovalRollsBack, db
    <2>. QED BY <1>1, <2>1
<1>6. ASSUME NEW m \in Message, SourceCancelCommits(m)
      PROVE  {r \in playlist' : Vid(r) = v} = {r \in ok' : Vid(r) = v}
    <2>1. PICK good \in SUBSET Added(m) :
              /\ playlist' = playlist \ good /\ ok' = ok \ Added(m)
              /\ strays' = strays \cup {Vid(r) : r \in Added(m) \ good}
        BY <1>6 DEF SourceCancelCommits
    <2>2. \A r \in Added(m) \ good : Vid(r) # v
        BY <2>1
    <2>. QED BY <1>1, <2>1, <2>2
<1>7. ASSUME RetryFailedPlaylistAdds
      PROVE  {r \in playlist' : Vid(r) = v} = {r \in ok' : Vid(r) = v}
    BY <1>1, <1>7 DEF RetryFailedPlaylistAdds, obs
<1>8. CASE UNCHANGED <<rows, ok, playlist, strays, withdrawn>>
    BY <1>1, <1>8
<1>. QED BY <1>2, <1>3, <1>4, <1>5, <1>6, <1>7, <1>8, VideoSteps

\* The table and the playlist agree on every video, whoever adds, removes and retries it,
\* unless the outcome of a call was lost or undone (_do_playlist_remove keeps the row of
\* an item that YouTube does not remove).
THEOREM TableIsTruthful == Spec => []Truthful
<1>1. Init => Truthful
    BY DEF Init, Truthful
<1>. QED BY <1>1, TruthfulStep, PTL DEF Spec

\* Every row of a queued submission that is wanted is there, under some message.
WInv == Wanted /\ ok \subseteq rows /\ state \in [Message -> State]

\* Nothing is wanted that was not, and what is gone was withdrawn.
LEMMA WantedKept ==
    ASSUME WInv, state' \in [Message -> State], ok' \subseteq rows',
           \A n \in Message : state'[n] \notin {"none", "open"} /\ n \notin skipped'
                                 => state[n] \notin {"none", "open"} /\ n \notin skipped,
           withdrawn \subseteq withdrawn',
           \A r \in rows \ rows' : Vid(r) \in withdrawn'
    PROVE  WInv'
<1>. SUFFICES ASSUME NEW n \in Message, state'[n] \notin {"none", "open"}, n \notin skipped',
                     NEW v \in VideosOf[n] \ withdrawn'
              PROVE  \E r \in rows' : Vid(r) = v
    BY DEF WInv, Wanted, Vid
<1>1. PICK r \in rows : Vid(r) = v
    BY DEF WInv, Wanted
<1>. QED BY <1>1

LEMMA WantedStep == WInv /\ [Next]_vars => WInv'
<1>. SUFFICES ASSUME WInv, [Next]_vars PROVE WInv'
    OBVIOUS
<1>. DEFINE Same == UNCHANGED <<rows, ok, withdrawn, state, skipped>>
<1>1. ASSUME Same PROVE WInv'
    BY <1>1, WantedKept DEF WInv
<1>2. ASSUME NEW m \in Message, Confirm(m) PROVE WInv'
    <2>1. CASE QueueCommits(m)
        <3>1. /\ rows' = rows \cup Attempt(m, ToAdd(m))
              /\ \E good \in SUBSET ToAdd(m) : ok' = ok \cup Attempt(m, good)
              /\ skipped' = skipped /\ withdrawn' = withdrawn
              /\ state' = [state EXCEPT ![m] = "queued"]
            BY <2>1 DEF QueueCommits, AutoAdd, AddToPlaylist
        <3>2. state' \in [Message -> State] /\ \A n \in Message : n # m => state'[n] = state[n]
            BY <3>1 DEF WInv, State, CLOSED_STATES
        <3>3. ok' \subseteq rows'
            BY <3>1 DEF WInv, Attempt
        <3>4. ASSUME NEW v \in VideosOf[m], m \notin skipped PROVE \E r \in rows' : Vid(r) = v
            <4>1. CASE Playing(v)
                BY <3>1, <4>1 DEF Playing, WInv
            <4>2. CASE ~Playing(v)
                <5>1. <<m, v, tries[m] + 1>> \in rows'
                    BY <3>1, <3>4, <4>2 DEF ToAdd, Attempt
                <5>. QED BY <5>1 DEF Vid
            <4>. QED BY <4>1, <4>2
        <3>. QED BY <3>1, <3>2, <3>3, <3>4 DEF WInv, Wanted, Vid
    <2>2. CASE QueueRollsBack(m)
        BY <1>1, <2>2 DEF QueueRollsBack, db
    <2>. QED BY <1>2, <2>1, <2>2 DEF Confirm
<1>3. ASSUME NEW m \in Message, RemovalRollsBack(m) PROVE WInv'
    BY <1>1, <1>3 DEF RemovalRollsBack, db
<1>4. ASSUME NEW m \in Message, HandlePlaylistSkipButton(m) PROVE WInv'
    <2>1. CASE SkipCommits(m)
        <3>1. PICK good : /\ rows' = rows \ good /\ ok' = ok \ good
                          /\ withdrawn' = withdrawn \cup {Vid(r) : r \in good}
            BY <2>1 DEF SkipCommits, DoPlaylistRemove, RemoveFromPlaylist
        <3>2. state' = state /\ skipped' = skipped \cup {m}
            BY <2>1 DEF SkipCommits
        <3>. QED BY <3>1, <3>2, WantedKept DEF WInv
    <2>. QED BY <1>3, <1>4, <2>1 DEF HandlePlaylistSkipButton
<1>5. ASSUME NEW m \in Message, Delete(m)
      PROVE  /\ state' \in [Message -> State]
             /\ \A n \in Message : state'[n] \notin {"none", "open"} => state'[n] = state[n]
    BY <1>5 DEF Delete, WInv, State
<1>6. ASSUME NEW m \in Message, HandleSourceCancelReaction(m) PROVE WInv'
    <2>1. CASE SourceCancelCommits(m)
        <3>1. /\ rows' = rows \ Added(m) /\ ok' = ok \ Added(m) /\ skipped' = skipped
              /\ withdrawn' = withdrawn \cup {Vid(r) : r \in Added(m)}
              /\ state' = state \/ Delete(m)
            BY <2>1 DEF SourceCancelCommits
        <3>2. /\ state' \in [Message -> State]
              /\ \A n \in Message : state'[n] \notin {"none", "open"} => state'[n] = state[n]
            BY <1>5, <3>1 DEF WInv
        <3>. QED BY <3>1, <3>2, WantedKept DEF WInv
    <2>. QED BY <1>3, <1>6, <2>1 DEF HandleSourceCancelReaction
<1>7. ASSUME NEW m \in Message, Cancel(m) PROVE WInv'
    <2>1. /\ state' \in [Message -> State]
          /\ \A n \in Message : state'[n] \notin {"none", "open"} => state'[n] = state[n]
        BY <1>5, <1>7 DEF Cancel
    <2>2. UNCHANGED <<rows, ok, skipped, withdrawn>>
        BY <1>7 DEF Cancel
    <2>. QED BY <2>1, <2>2, WantedKept DEF WInv
<1>8. ASSUME NEW m \in Message,
             \/ Mark(m) \/ Publish(m) \/ PublishFails(m) \/ Requeue(m) \/ DeleteThread(m)
      PROVE  WInv'
    <2>1. /\ UNCHANGED <<rows, ok, withdrawn>> /\ skipped' \in {skipped, skipped \ {m}}
          /\ skipped' # skipped => state'[m] = "open"
          /\ state' \in [Message -> State]
          /\ \A n \in Message : state'[n] \notin {"none", "open"} => state[n] \notin {"none", "open"}
        BY <1>8 DEF Mark, Publish, PublishFails, Requeue, DeleteThread, obs, WInv, State, CLOSED_STATES
    <2>. QED BY <2>1, WantedKept DEF WInv
<1>9. ASSUME NEW m \in Message, TimerFires(m) \/ MemberPosts(m) PROVE Same
    BY <1>9 DEF TimerFires, MemberPosts, db, obs
<1>10. ASSUME ArchiveStaleThreads \/ Restart \/ BootScan \/ \E b \in scan : BootSchedule(b)
       PROVE  Same
    BY <1>10 DEF ArchiveStaleThreads, Restart, BootScan, BootSchedule, db, obs
<1>11. ASSUME RetryFailedPlaylistAdds PROVE WInv'
    <2>1. ok' \subseteq rows' /\ UNCHANGED <<rows, state, skipped, withdrawn>>
        BY <1>11 DEF RetryFailedPlaylistAdds, Failed, WInv, obs
    <2>. QED BY <2>1, WantedKept DEF WInv
<1>12. CASE UNCHANGED vars
    BY <1>1, <1>12 DEF vars, db, obs
<1>13. CASE Next
    BY <1>1, <1>2, <1>4, <1>6, <1>7, <1>8, <1>9, <1>10, <1>11, <1>13, Actions
<1>. QED BY <1>12, <1>13

\* A queued submission's videos have a row, its own or another's, whoever queues, cancels
\* and retries the same video, unless a member took the video out
\* (_auto_add_to_playlist records each video it sends, and skips only what is added).
THEOREM NoneForgotten == Spec => []Wanted
<1>1. Init => WInv
    BY DEF Init, WInv, Wanted, State
<1>2. WInv => Wanted
    BY DEF WInv
<1>. QED BY <1>1, <1>2, WantedStep, PTL DEF Spec

-----------------------------------------------------------------------------
(* Threads.                                                                *)

ThreadState == {"none", "open", "closed"}

\* The part of the types that the archives depend on.
TTypes ==
    /\ state \in [Message -> State]
    /\ thread \in [Message -> ThreadState]
    /\ timers \in [Message -> 0 .. MaxTimers]
    /\ \A b \in scan : b.msg \in Message

\* An archive that is pending, or that the scan at the start may still set.
Foreseen(n) == timers[n] > 0 \/ \E b \in scan : b.msg = n

\* OpenNotArchived, as an archive's past and future preserve it.
OnlyAfterQueue ==
    \A n \in Message : Foreseen(n) => state[n] \notin {"none", "open"} \/ n \in unqueued

\* ArchivePending, with the scan entries that are sure to set a timer.
Provided(n) ==
    \/ timers[n] > 0 \/ booting \/ \E b \in scan : b.msg = n /\ b.state = "published"
    \/ n \notin marked \/ n \in reopened \/ faults > 0
ClosesAgain ==
    \A n \in Message : state[n] = "published" /\ thread[n] = "open" => Provided(n)

AInv == TTypes /\ faults \in Nat /\ OnlyAfterQueue /\ ClosesAgain

LEMMA ArmedType ==
    ASSUME TTypes, NEW m \in Message
    PROVE  /\ Armed(m) \in [Message -> 0 .. MaxTimers]
           /\ Armed(m)[m] > 0
           /\ \A n \in Message : n # m => Armed(m)[n] = timers[n]
BY ClosingAssumption DEF Armed, TTypes

LEMMA FaultGrows ==
    ASSUME NEW happens \in BOOLEAN, faults \in Nat, Fault(happens)
    PROVE  faults' \in Nat /\ faults' >= faults /\ (happens => faults' > 0)
BY DEF Fault

\* Every step but the threads' own leaves alone what an archive depends on.
Untouched == UNCHANGED <<state, thread, timers, scan, booting, marked, unqueued>>

LEMMA UntouchedKeeps ==
    ASSUME AInv, Untouched, faults' \in Nat, faults' >= faults, reopened \subseteq reopened'
    PROVE  AInv'
BY DEF AInv, TTypes, OnlyAfterQueue, Foreseen, ClosesAgain, Provided, Untouched

LEMMA CurationKeeps ==
    ASSUME AInv, NEW m \in Message,
           \/ Mark(m) \/ Confirm(m) \/ Cancel(m)
           \/ HandlePlaylistSkipButton(m) \/ HandleSourceCancelReaction(m)
    PROVE  AInv'
<1>1. CASE Mark(m)
    BY <1>1 DEF AInv, TTypes, OnlyAfterQueue, Foreseen, ClosesAgain, Provided, Mark, MaybeSent,
                Sent, State, ThreadState, mem, obs
<1>2. CASE Confirm(m)
    <2>1. CASE QueueCommits(m)
        <3>1. faults' \in Nat /\ faults' >= faults
            BY <2>1, FaultGrows DEF AInv, QueueCommits, AutoAdd, AddToPlaylist
        <3>2. /\ state' = [state EXCEPT ![m] = "queued"]
              /\ thread' = [thread EXCEPT ![m] = "open"]
              /\ timers' = Armed(m) \/ timers' = timers
              /\ UNCHANGED <<scan, booting, marked, unqueued, reopened>>
            BY <1>2, <2>1 DEF QueueCommits, Confirm, AutoAdd, AddToPlaylist
        <3>. QED BY <3>1, <3>2, ArmedType DEF AInv, TTypes, OnlyAfterQueue, Foreseen,
                    ClosesAgain, Provided, State, CLOSED_STATES, ThreadState
    <2>2. CASE QueueRollsBack(m)
        BY <2>2, FaultGrows, UntouchedKeeps DEF AInv, QueueRollsBack, Untouched, db, mem
    <2>. QED BY <1>2, <2>1, <2>2 DEF Confirm
<1>3. CASE Cancel(m)
    <2>1. faults' \in Nat /\ faults' >= faults
        BY <1>3, FaultGrows DEF AInv, Cancel
    <2>2. thread' \in [Message -> ThreadState] /\ \A n \in Message : n # m => thread'[n] = thread[n]
        BY <1>3 DEF AInv, TTypes, Cancel, Sent, Archived, ThreadState
    <2>. QED BY <1>3, <2>1, <2>2 DEF AInv, TTypes, OnlyAfterQueue, Foreseen, ClosesAgain,
                Provided, Cancel, Delete, State, mem
<1>4. CASE HandlePlaylistSkipButton(m)
    <2>1. CASE SkipCommits(m)
        <3>1. faults' \in Nat /\ faults' >= faults
            BY <2>1, FaultGrows DEF AInv, SkipCommits, DoPlaylistRemove, RemoveFromPlaylist
        <3>2. timers' = timers \/ (state[m] = "queued" /\ timers' = Armed(m))
            BY <2>1 DEF SkipCommits
        <3>3. /\ UNCHANGED <<state, scan, booting, marked, unqueued>>
              /\ reopened \subseteq reopened'
              /\ thread' \in [Message -> ThreadState]
              /\ \A n \in Message : thread'[n] = thread[n] \/ (n = m /\ reopened' = Reopened(m, TRUE))
            BY <2>1 DEF AInv, TTypes, SkipCommits, Reopened, Sent, ThreadState
        <3>. QED BY <3>1, <3>2, <3>3, ArmedType DEF AInv, TTypes, OnlyAfterQueue, Foreseen,
                    ClosesAgain, Provided, Reopened
    <2>2. CASE RemovalRollsBack(m)
        BY <2>2, FaultGrows, UntouchedKeeps DEF AInv, RemovalRollsBack, Untouched, db, mem
    <2>. QED BY <1>4, <2>1, <2>2 DEF HandlePlaylistSkipButton
<1>5. CASE HandleSourceCancelReaction(m)
    <2>1. CASE SourceCancelCommits(m)
        <3>1. faults' \in Nat /\ faults' >= faults
            BY <2>1, FaultGrows DEF AInv, SourceCancelCommits
        <3>2. /\ thread' \in [Message -> ThreadState]
              /\ \A n \in Message : n # m => thread'[n] = thread[n]
            BY <2>1 DEF AInv, TTypes, SourceCancelCommits, Sent, Archived, ThreadState
        <3>3. /\ UNCHANGED <<timers, scan, booting, marked>> /\ reopened' = Reopened(m, TRUE)
              /\ \/ UNCHANGED <<state, unqueued>>
                 \/ state[m] # "published" /\ Delete(m)
            BY <2>1 DEF SourceCancelCommits, mem
        <3>. QED BY <3>1, <3>2, <3>3 DEF AInv, TTypes, OnlyAfterQueue, Foreseen, ClosesAgain,
                    Provided, Delete, Reopened, State
    <2>2. CASE RemovalRollsBack(m)
        BY <2>2, FaultGrows, UntouchedKeeps DEF AInv, RemovalRollsBack, Untouched, db, mem
    <2>. QED BY <1>5, <2>1, <2>2 DEF HandleSourceCancelReaction
<1>. QED BY <1>1, <1>2, <1>3, <1>4, <1>5

LEMMA ArchivingKeeps ==
    ASSUME AInv,
           \/ \E m \in Message : TimerFires(m)
           \/ ArchiveStaleThreads \/ Restart \/ BootScan \/ \E b \in scan : BootSchedule(b)
    PROVE  AInv'
<1>1. ASSUME NEW m \in Message, TimerFires(m) PROVE AInv'
    <2>1. PICK fails \in BOOLEAN, t \in MaybeSent(m) :
              /\ thread' = [thread EXCEPT ![m] = IF fails THEN t ELSE Archived(m)]
              /\ Fault(fails)
        BY <1>1 DEF TimerFires
    <2>2. faults' \in Nat /\ faults' >= faults /\ (fails => faults' > 0)
        BY <2>1, FaultGrows DEF AInv
    <2>3. /\ thread' \in [Message -> ThreadState]
          /\ \A n \in Message : n # m => thread'[n] = thread[n]
          /\ thread'[m] = "open" => fails
        BY <2>1 DEF AInv, TTypes, MaybeSent, Sent, Archived, ThreadState
    <2>4. timers' \in [Message -> 0 .. MaxTimers]
        BY <1>1, ClosingAssumption DEF TimerFires, AInv, TTypes
    <2>5. \A n \in Message : timers'[n] > 0 => timers[n] > 0
        BY <1>1, ClosingAssumption DEF TimerFires, AInv, TTypes
    <2>6. /\ \A n \in Message : n # m => timers'[n] = timers[n]
          /\ UNCHANGED <<state, marked, scan, booting, unqueued, reopened>>
        BY <1>1 DEF TimerFires, AInv, TTypes, db, obs
    <2>. QED BY <2>2, <2>3, <2>4, <2>5, <2>6 DEF AInv, TTypes, OnlyAfterQueue, Foreseen,
                ClosesAgain, Provided
<1>2. CASE ArchiveStaleThreads
    BY <1>2 DEF ArchiveStaleThreads, AInv, TTypes, OnlyAfterQueue, Foreseen, ClosesAgain,
                Provided, ThreadState, mem, obs
<1>3. CASE Restart
    BY <1>3, ClosingAssumption DEF Restart, AInv, TTypes, OnlyAfterQueue, Foreseen, ClosesAgain,
                Provided, db, obs
<1>4. CASE BootScan
    <2>1. \A b \in scan' : b.msg \in Message /\ state[b.msg] \in Scanned
        BY <1>4 DEF BootScan
    <2>2. \A n \in Message : state[n] = "published" =>
              \E b \in scan' : b.msg = n /\ b.state = "published"
        <3>1. SUFFICES ASSUME NEW n \in Message, state[n] = "published"
                       PROVE  \E b \in scan' : b.msg = n /\ b.state = "published"
            OBVIOUS
        <3>2. [msg |-> n, state |-> state[n], skipped |-> n \in skipped] \in scan'
            BY <1>4, <3>1 DEF BootScan, Scanned
        <3>. QED BY <3>1, <3>2
    <2>. QED BY <1>4, <2>1, <2>2 DEF BootScan, AInv, TTypes, OnlyAfterQueue, Foreseen,
                ClosesAgain, Provided, Scanned, db, obs
<1>5. ASSUME NEW b \in scan, BootSchedule(b) PROVE AInv'
    <2>1. b.msg \in Message /\ scan' = scan \ {b}
        BY <1>5 DEF BootSchedule, AInv, TTypes
    <2>2. /\ timers' = Armed(b.msg) \/ (timers' = timers /\ b.state # "published")
          /\ UNCHANGED <<state, thread, marked, booting, unqueued, reopened, faults>>
        BY <1>5 DEF BootSchedule, db, obs
    <2>. QED BY <2>1, <2>2, ArmedType DEF AInv, TTypes, OnlyAfterQueue, Foreseen, ClosesAgain, Provided
<1>. QED BY <1>1, <1>2, <1>3, <1>4, <1>5

LEMMA OutsideKeeps ==
    ASSUME AInv, NEW m \in Message,
           Publish(m) \/ PublishFails(m) \/ Requeue(m) \/ MemberPosts(m) \/ DeleteThread(m)
    PROVE  AInv'
<1>1. CASE Publish(m)
    <2>1. thread' \in [Message -> ThreadState] /\ \A n \in Message : n # m => thread'[n] = thread[n]
        BY <1>1 DEF Publish, AInv, TTypes, MaybeSent, Sent, ThreadState
    <2>. QED BY <1>1, <2>1, ArmedType DEF Publish, AInv, TTypes, OnlyAfterQueue, Foreseen,
                ClosesAgain, Provided, State, CLOSED_STATES, obs
<1>2. CASE PublishFails(m)
    <2>1. thread' \in [Message -> ThreadState] /\ \A n \in Message : n # m => thread'[n] = thread[n]
        BY <1>2 DEF PublishFails, AInv, TTypes, MaybeSent, Sent, ThreadState
    <2>. QED BY <1>2, <2>1 DEF PublishFails, AInv, TTypes, OnlyAfterQueue, Foreseen,
                ClosesAgain, Provided, State, CLOSED_STATES, mem, obs
<1>3. CASE Requeue(m)
    BY <1>3 DEF Requeue, AInv, TTypes, OnlyAfterQueue, Foreseen,
                ClosesAgain, Provided, State, CLOSED_STATES, mem, obs
<1>4. CASE MemberPosts(m)
    BY <1>4 DEF MemberPosts, AInv, TTypes, OnlyAfterQueue, Foreseen,
                ClosesAgain, Provided, ThreadState, Reopened, db, mem
<1>5. CASE DeleteThread(m)
    BY <1>5, ClosingAssumption DEF DeleteThread, AInv, TTypes, OnlyAfterQueue, Foreseen,
                ClosesAgain, Provided, ThreadState, State, obs
<1>. QED BY <1>1, <1>2, <1>3, <1>4, <1>5

LEMMA AStep ==
    ASSUME AInv, [Next]_vars
    PROVE  AInv'
<1>1. CASE RetryFailedPlaylistAdds
    BY <1>1, UntouchedKeeps DEF RetryFailedPlaylistAdds, AInv, Untouched, mem, obs
<1>2. CASE UNCHANGED vars
    BY <1>2, UntouchedKeeps DEF AInv, Untouched, vars, db, mem, obs
<1>. QED BY <1>1, <1>2, CurationKeeps, ArchivingKeeps, OutsideKeeps DEF Next,
            HandleConfirmButton, HandleConfirmationReaction, HandleCancelButton, HandleCancelReaction

LEMMA AInit == Init => AInv
BY ClosingAssumption DEF Init, AInv, TTypes, OnlyAfterQueue, Foreseen, ClosesAgain, Provided,
        State, ThreadState

\* However often the process restarts, and whatever timers it has lost or set
\* twice, no archive is pending for a submission still being worked on, unless
\* an earlier one of the message was deleted when queued (_archive_thread_after_delay).
THEOREM NotUnderWork == Spec => []OpenNotArchived
<1>1. AInv => OpenNotArchived
    BY DEF AInv, OnlyAfterQueue, Foreseen, OpenNotArchived
<1>. QED BY <1>1, AInit, AStep, PTL DEF Spec

\* The open thread of a published submission has an archive before it, or was
\* never archived, or was reopened since, or an archiving failed
\* (_archive_queued_threads, _archive_stale_threads).
THEOREM WillBeArchived == Spec => []ArchivePending
<1>1. AInv => ArchivePending
    BY DEF AInv, ClosesAgain, Provided, ArchivePending
<1>. QED BY <1>1, AInit, AStep, PTL DEF Spec
-----------------------------------------------------------------------------
(* All types.                                                              *)

LEMMA Small ==
    /\ MaxTries \in Nat /\ MaxFaults \in Nat /\ MaxEdits \in Nat /\ MaxTimers \in Nat \ {0}
    /\ \A m \in Message : VideosOf[m] \subseteq Video
BY ClosingAssumption

LEMMA TimerType ==
    ASSUME TypeOK, NEW m \in Message
    PROVE  Armed(m) \in [Message -> 0 .. MaxTimers]
BY Small DEF TypeOK, Armed

\* What the environment has spent stays within its bounds.
LEMMA FaultType ==
    ASSUME TypeOK, NEW happens \in BOOLEAN, Fault(happens)
    PROVE  faults' \in 0 .. MaxFaults
BY Small DEF TypeOK, Fault

LEMMA EditType == ASSUME TypeOK, Edit PROVE edits' \in 0 .. MaxEdits
BY Small DEF TypeOK, Edit

\* A row of this attempt.
LEMMA AttemptType ==
    ASSUME TypeOK, NEW m \in Message, tries[m] < MaxTries, NEW vs \in SUBSET ToAdd(m)
    PROVE  Attempt(m, vs) \subseteq Row /\ vs \subseteq Video
<1>1. tries[m] + 1 \in 1 .. MaxTries
    BY Small DEF TypeOK
<1>2. ToAdd(m) \subseteq Video
    BY Small DEF ToAdd
<1>. QED BY <1>1, <1>2 DEF Attempt, Row

LEMMA ConfirmType == ASSUME TypeOK, NEW m \in Message, Confirm(m) PROVE TypeOK'
<1>1. tries' \in [Message -> 0 .. MaxTries] /\ tries[m] < MaxTries /\ edits' = edits
    BY Small DEF TypeOK, Confirm
<1>2. CASE QueueCommits(m)
    <2>1. PICK good, lost : AutoAdd(m, good, lost)
        BY <1>2 DEF QueueCommits
    <2>2. /\ good \subseteq ToAdd(m) /\ lost \subseteq ToAdd(m)
          /\ rows' = rows \cup Attempt(m, ToAdd(m)) /\ ok' = ok \cup Attempt(m, good)
          /\ playlist' = playlist \cup Attempt(m, good \cup lost)
          /\ flops' = flops \cup Attempt(m, ToAdd(m) \ good) /\ strays' = strays \cup lost
          /\ \E happens \in BOOLEAN : Fault(happens)
        BY <2>1 DEF AutoAdd, AddToPlaylist
    <2>3. /\ Attempt(m, ToAdd(m)) \subseteq Row /\ Attempt(m, good \cup lost) \subseteq Row
          /\ Attempt(m, ToAdd(m) \ good) \subseteq Row /\ lost \subseteq Video
        BY <1>1, <2>2, AttemptType
    <2>4. Attempt(m, good) \subseteq Attempt(m, ToAdd(m))
        BY <2>2 DEF Attempt
    <2>5. faults' \in 0 .. MaxFaults
        BY <2>2, FaultType
    <2>6. timers' \in [Message -> 0 .. MaxTimers]
        BY <1>2, TimerType DEF QueueCommits, TypeOK
    <2>7. state' \in [Message -> State] /\ thread' \in [Message -> ThreadState]
        BY <1>2 DEF QueueCommits, TypeOK, State, CLOSED_STATES, ThreadState
    <2>8. UNCHANGED <<skipped, marked, scan, booting, withdrawn, unqueued, reopened>>
        BY <1>2 DEF QueueCommits
    <2>. QED BY <1>1, <2>2, <2>3, <2>4, <2>5, <2>6, <2>7, <2>8 DEF TypeOK, State, ThreadState
<1>3. CASE QueueRollsBack(m)
    <2>1. PICK sent \in SUBSET ToAdd(m) :
              playlist' = playlist \cup Attempt(m, sent) /\ strays' = strays \cup sent
        BY <1>3 DEF QueueRollsBack
    <2>2. Attempt(m, sent) \subseteq Row /\ sent \subseteq Video
        BY <1>1, AttemptType
    <2>3. faults' \in 0 .. MaxFaults
        BY <1>3, FaultType DEF QueueRollsBack
    <2>. QED BY <1>1, <1>3, <2>1, <2>2, <2>3 DEF QueueRollsBack, TypeOK, db, mem
<1>. QED BY <1>2, <1>3 DEF Confirm

\* Videos taken out are videos.
LEMMA TakenOutType ==
    ASSUME TypeOK, NEW gone \in SUBSET Row
    PROVE  {Vid(r) : r \in gone} \subseteq Video
BY DEF Row, Vid

LEMMA AddedType == ASSUME TypeOK, NEW m \in Message PROVE Added(m) \subseteq Row
BY DEF TypeOK, Added

LEMMA RollbackType ==
    ASSUME TypeOK, NEW m \in Message, RemovalRollsBack(m), tries' = tries, edits' \in 0 .. MaxEdits
    PROVE  TypeOK'
<1>1. PICK sent \in SUBSET Added(m) :
          playlist' = playlist \ sent /\ strays' = strays \cup {Vid(r) : r \in sent}
    BY DEF RemovalRollsBack
<1>2. {Vid(r) : r \in sent} \subseteq Video
    BY AddedType, TakenOutType
<1>3. faults' \in 0 .. MaxFaults
    BY FaultType DEF RemovalRollsBack
<1>. QED BY <1>1, <1>2, <1>3 DEF RemovalRollsBack, TypeOK, db, mem

LEMMA SkipType == ASSUME TypeOK, NEW m \in Message, HandlePlaylistSkipButton(m) PROVE TypeOK'
<1>1. tries' = tries /\ edits' = edits /\ edits' \in 0 .. MaxEdits
    BY DEF HandlePlaylistSkipButton, TypeOK
<1>2. CASE SkipCommits(m)
    <2>1. PICK good \in SUBSET Added(m) : DoPlaylistRemove(m, good)
        BY <1>2 DEF SkipCommits
    <2>2. /\ rows' = rows \ good /\ ok' = ok \ good /\ playlist' = playlist \ good
          /\ flops' = flops \cup (Added(m) \ good)
          /\ withdrawn' = withdrawn \cup {Vid(r) : r \in good}
          /\ \E happens \in BOOLEAN : Fault(happens)
        BY <2>1 DEF DoPlaylistRemove, RemoveFromPlaylist
    <2>3. {Vid(r) : r \in good} \subseteq Video /\ Added(m) \subseteq Row
        BY AddedType, TakenOutType
    <2>4. faults' \in 0 .. MaxFaults
        BY <2>2, FaultType
    <2>5. timers' \in [Message -> 0 .. MaxTimers]
        BY <1>2, TimerType DEF SkipCommits, TypeOK
    <2>6. thread' \in [Message -> ThreadState] /\ reopened' \subseteq Message
        BY <1>2 DEF SkipCommits, TypeOK, Sent, Reopened, ThreadState
    <2>7. skipped' \subseteq Message /\ UNCHANGED <<state, marked, scan, booting, strays, unqueued>>
        BY <1>2 DEF SkipCommits, TypeOK
    <2>. QED BY <1>1, <2>2, <2>3, <2>4, <2>5, <2>6, <2>7 DEF TypeOK, ThreadState
<1>. QED BY <1>1, <1>2, RollbackType DEF HandlePlaylistSkipButton

LEMMA DeleteType ==
    ASSUME TypeOK, NEW m \in Message, Delete(m)
    PROVE  state' \in [Message -> State] /\ unqueued' \subseteq Message
BY DEF Delete, TypeOK, State

LEMMA SourceCancelType == ASSUME TypeOK, NEW m \in Message, HandleSourceCancelReaction(m) PROVE TypeOK'
<1>1. tries' = tries /\ edits' \in 0 .. MaxEdits
    BY EditType DEF HandleSourceCancelReaction
<1>2. CASE SourceCancelCommits(m)
    <2>1. PICK good \in SUBSET (Added(m) \cap playlist), fails \in BOOLEAN :
              /\ playlist' = playlist \ good
              /\ strays' = strays \cup {Vid(r) : r \in Added(m) \ good}
              /\ thread' = [thread EXCEPT ![m] = IF fails \/ Added(m) # {} THEN Sent(m) ELSE Archived(m)]
              /\ \E happens \in BOOLEAN : Fault(happens)
        BY <1>2 DEF SourceCancelCommits
    <2>2. /\ {Vid(r) : r \in Added(m) \ good} \subseteq Video
          /\ {Vid(r) : r \in Added(m)} \subseteq Video
        BY AddedType, TakenOutType
    <2>3. faults' \in 0 .. MaxFaults
        BY <2>1, FaultType
    <2>4. thread' \in [Message -> ThreadState] /\ reopened' \subseteq Message
        BY <1>2, <2>1 DEF SourceCancelCommits, TypeOK, Sent, Archived, Reopened, ThreadState
    <2>5. state' \in [Message -> State] /\ unqueued' \subseteq Message
        BY <1>2, DeleteType DEF SourceCancelCommits, TypeOK, State
    <2>6. /\ rows' = rows \ Added(m) /\ ok' = ok \ Added(m)
          /\ withdrawn' = withdrawn \cup {Vid(r) : r \in Added(m)}
          /\ UNCHANGED <<skipped, marked, mem, flops>>
        BY <1>2 DEF SourceCancelCommits
    <2>. QED BY <1>1, <2>1, <2>2, <2>3, <2>4, <2>5, <2>6 DEF TypeOK, State, ThreadState, mem
<1>. QED BY <1>1, <1>2, RollbackType DEF HandleSourceCancelReaction

LEMMA TypeStep == TypeOK /\ [Next]_vars => TypeOK'
<1>. SUFFICES ASSUME TypeOK, [Next]_vars PROVE TypeOK'
    OBVIOUS
<1>1. ASSUME NEW m \in Message, Mark(m) PROVE TypeOK'
    <2>1. thread' \in [Message -> ThreadState]
        BY <1>1 DEF Mark, TypeOK, MaybeSent, Sent, ThreadState
    <2>. QED BY <1>1, <2>1 DEF Mark, TypeOK, ThreadState, mem, obs
<1>2. ASSUME NEW m \in Message, Cancel(m) PROVE TypeOK'
    <2>1. PICK fails \in BOOLEAN :
              thread' = [thread EXCEPT ![m] = IF fails THEN Sent(m) ELSE Archived(m)] /\ Fault(fails)
        BY <1>2 DEF Cancel
    <2>2. thread' \in [Message -> ThreadState] /\ faults' \in 0 .. MaxFaults
        BY <2>1, FaultType DEF TypeOK, Sent, Archived, ThreadState
    <2>3. state' \in [Message -> State] /\ unqueued' \subseteq Message /\ edits' \in 0 .. MaxEdits
        BY <1>2, DeleteType, EditType DEF Cancel
    <2>. QED BY <1>2, <2>2, <2>3 DEF Cancel, TypeOK, State, ThreadState, mem
<1>3. ASSUME NEW m \in Message, TimerFires(m) PROVE TypeOK'
    <2>1. PICK fails \in BOOLEAN, t \in MaybeSent(m) :
              thread' = [thread EXCEPT ![m] = IF fails THEN t ELSE Archived(m)] /\ Fault(fails)
        BY <1>3 DEF TimerFires
    <2>2. thread' \in [Message -> ThreadState] /\ faults' \in 0 .. MaxFaults
        BY <2>1, FaultType DEF TypeOK, MaybeSent, Sent, Archived, ThreadState
    <2>3. timers' \in [Message -> 0 .. MaxTimers]
        BY <1>3, Small DEF TimerFires, TypeOK
    <2>. QED BY <1>3, <2>2, <2>3 DEF TimerFires, TypeOK, ThreadState, db, obs
<1>4. ASSUME NEW m \in Message, Publish(m) \/ PublishFails(m) PROVE TypeOK'
    <2>1. thread' \in [Message -> ThreadState]
        BY <1>4 DEF Publish, PublishFails, TypeOK, MaybeSent, Sent, ThreadState
    <2>2. state' \in [Message -> State]
        BY <1>4 DEF Publish, PublishFails, TypeOK, State, CLOSED_STATES
    <2>3. timers' \in [Message -> 0 .. MaxTimers]
        BY <1>4, TimerType DEF Publish, PublishFails, TypeOK, mem
    <2>4. UNCHANGED <<skipped, rows, ok, marked, playlist, scan, booting, obs, tries, faults, edits>>
        BY <1>4 DEF Publish, PublishFails, mem
    <2>. QED BY <2>1, <2>2, <2>3, <2>4 DEF TypeOK, State, ThreadState, obs
<1>5. ASSUME NEW m \in Message, Requeue(m) PROVE TypeOK'
    BY <1>5 DEF Requeue, TypeOK, CLOSED_STATES, mem, obs
<1>6. ASSUME NEW m \in Message, MemberPosts(m) PROVE TypeOK'
    <2>1. edits' \in 0 .. MaxEdits
        BY <1>6, EditType DEF MemberPosts
    <2>. QED BY <1>6, <2>1 DEF MemberPosts, TypeOK, Reopened, db, mem
<1>7. ASSUME NEW m \in Message, DeleteThread(m) PROVE TypeOK'
    <2>1. edits' \in 0 .. MaxEdits
        BY <1>7, EditType DEF DeleteThread
    <2>2. timers' \in [Message -> 0 .. MaxTimers]
        BY <1>7, Small DEF DeleteThread, TypeOK
    <2>3. scan' \subseteq scan
        BY <1>7 DEF DeleteThread
    <2>. QED BY <1>7, <2>1, <2>2, <2>3 DEF DeleteThread, TypeOK, obs
<1>8. ASSUME RetryFailedPlaylistAdds PROVE TypeOK'
    BY <1>8 DEF RetryFailedPlaylistAdds, Failed, TypeOK, mem, obs
<1>9. ASSUME ArchiveStaleThreads PROVE TypeOK'
    BY <1>9 DEF ArchiveStaleThreads, Stale, TypeOK, mem, obs
<1>10. ASSUME Restart PROVE TypeOK'
    <2>1. edits' \in 0 .. MaxEdits /\ timers' \in [Message -> 0 .. MaxTimers]
        BY <1>10, EditType, Small DEF Restart
    <2>. QED BY <1>10, <2>1 DEF Restart, TypeOK, db, obs
<1>11. ASSUME BootScan PROVE TypeOK'
    <2>1. scan' \subseteq [msg : Message, state : Scanned, skipped : BOOLEAN]
        <3>. SUFFICES ASSUME NEW m \in Message, state[m] \in Scanned
                      PROVE  [msg |-> m, state |-> state[m], skipped |-> m \in skipped]
                                 \in [msg : Message, state : Scanned, skipped : BOOLEAN]
            BY <1>11, Zenon DEF BootScan
        <3>1. (m \in skipped) \in BOOLEAN
            OBVIOUS
        <3>. QED BY <3>1, Zenon
    <2>. QED BY <1>11, <2>1 DEF BootScan, TypeOK, db, obs
<1>12. ASSUME NEW b \in scan, BootSchedule(b) PROVE TypeOK'
    <2>1. b.msg \in Message
        BY DEF TypeOK
    <2>2. timers' \in [Message -> 0 .. MaxTimers]
        BY <1>12, <2>1, TimerType DEF BootSchedule, TypeOK
    <2>. QED BY <1>12, <2>2 DEF BootSchedule, TypeOK, db, obs
<1>13. CASE UNCHANGED vars
    BY <1>13 DEF TypeOK, vars, db, mem, obs
<1>14. CASE Next
    BY <1>1, <1>2, <1>3, <1>4, <1>5, <1>6, <1>7, <1>8, <1>9, <1>10, <1>11, <1>12, <1>14,
       Actions, ConfirmType, SkipType, SourceCancelType
<1>. QED BY <1>13, <1>14

\* Every variable keeps its type, for all messages, videos and bounds (YoutubePlaylistAdd,
\* SubmissionThread, _background_tasks).
THEOREM ClosingTypes == Spec => []TypeOK
<1>1. Init => TypeOK
    <2>. SUFFICES ASSUME Init PROVE TypeOK
        OBVIOUS
    <2>1. /\ timers \in [Message -> 0 .. MaxTimers] /\ tries \in [Message -> 0 .. MaxTries]
          /\ faults \in 0 .. MaxFaults /\ edits \in 0 .. MaxEdits
        BY Small DEF Init
    <2>. QED BY <2>1 DEF Init, TypeOK
<1>. QED BY <1>1, TypeStep, PTL DEF Spec
=============================================================================
