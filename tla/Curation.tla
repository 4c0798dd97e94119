------------------------------ MODULE Curation ------------------------------
(***************************************************************************)
(* One submission's questions and answers, from its thread's creation to   *)
(* the queue (state.py, curation/statemachine.py, curation/handlers.py).   *)
(*                                                                         *)
(* Every answer ends in recompute_and_request, which decides what is       *)
(* missing, posts what was not asked yet and stores what it posted.  A     *)
(* handler runs it inside its own transaction, in one step; the butterfly  *)
(* runs it in beats, and answers arrive between its decision and its       *)
(* record.  /reingest runs in beats as well, under the message's lock.     *)
(*                                                                         *)
(* Left out: texts, titles and the checklist's contents; the graphic       *)
(* label, which blocks nothing; the playlist and the delayed archiving;    *)
(* videos found behind a link; removal, which is in Intake and Publishing; *)
(* the emoji twins of the buttons.                                         *)
(***************************************************************************)
EXTENDS Naturals, Sequences, FiniteSets

CONSTANTS Link,         \* canonical URLs
          Repost,       \* those of a Bluesky post
          Bare,         \* those whose metadata cannot be resolved
          Plain,        \* those without a thumbnail
          Media,        \* images and videos
          Text,         \* alt texts
          None,         \* no text
          SourceLinks,  \* the links of the message, in order
          SourceMedia,  \* the attachments of the message
          Described,    \* media that come with a description
          Recent,       \* the message is within the lookback of the boot scan
          ConfId,       \* ids SQLite may give a confirmation row
          Msg,          \* messages that carry the Queue button
          MaxEdits,     \* bound: answers, buttons and commands that change something
          MaxNotes,     \* bound: source replies without a URL
          MaxForms,     \* bound: edit forms opened
          MaxReactions, \* bound: butterflies
          MaxReingests, \* bound: /reingest
          MaxRestarts,  \* bound: restarts
          MaxFailures,  \* bound: recomputes in which Discord refuses a message
          MaxDeletes,   \* bound: Queue messages deleted by a moderator
          MaxEvents     \* bound: all of these but the edits together

ASSUME CurationAssumption ==
    /\ Repost \subseteq Link /\ Bare \subseteq Link /\ Plain \subseteq Link
    /\ SourceLinks \in Seq(Link) /\ SourceMedia \subseteq Media /\ Described \subseteq Media
    /\ Media \cap {"source", "metadata", "image", "moreImages", "moreLinks"} = {}
    /\ Recent \in BOOLEAN /\ Text # {} /\ None \notin Text /\ ConfId # {} /\ Msg # {}
    /\ {MaxEdits, MaxNotes, MaxForms, MaxReactions, MaxReingests, MaxRestarts,
        MaxFailures, MaxDeletes, MaxEvents} \subseteq Nat

Terminal == {"queued", "published", "publish_failed", "publish_blocked"}
Pending  == {"intent_submitted", "awaiting_source", "awaiting_better_link",
             "awaiting_image", "awaiting_alt_text"}
State    == Pending \cup Terminal \cup {"ready_to_queue"}

\* The kinds of requests; a medium stands for the request for its alt text.
Kind == {"source", "metadata", "image", "moreImages", "moreLinks"} \cup Media

VARIABLES
    row,        \* the submission with its links and attachments
    ask,        \* what was asked: the request rows and the buttons
    job,        \* the beats of handle_reaction or of /reingest that are under way
    asked,      \* /reingest was accepted and the message is being fetched
    form,       \* the edit form someone has open: the alt text shown for each medium
    notes,      \* prompts "use it as the source?" whose buttons are live
    said,       \* the replies in the thread that a catch-up may apply again, in order
    replay,     \* how far the catch-up after a restart is
    used        \* the bounded environment

vars == <<row, ask, job, asked, form, notes, said, replay, used>>

Absent   == [status |-> "absent", text |-> None]
AltType  == [status : {"absent", "needed", "provided", "skipped"}, text : Text \cup {None}]
NoForm   == [m \in Media |-> Absent]
NoReplay == [at |-> "off", next |-> 1, last |-> 0]
ConfType == [row : {"none", "open", "confirmed"}, id : ConfId, msg : Msg]
NoConf   == [row |-> "none", id |-> CHOOSE i \in ConfId : TRUE, msg |-> CHOOSE i \in Msg : TRUE]
NoPlan   == [ask |-> {}, cancel |-> FALSE, checklist |-> FALSE, retire |-> FALSE,
             offer |-> FALSE, check |-> FALSE, conf |-> NoConf]
PlanType == [ask : SUBSET Kind, cancel : BOOLEAN, checklist : BOOLEAN, retire : BOOLEAN,
             offer : BOOLEAN, check : BOOLEAN, conf : ConfType]
Idle     == [at |-> "idle", plan |-> NoPlan, kept |-> NoForm]
Limits   == [edits |-> MaxEdits, notes |-> MaxNotes, forms |-> MaxForms,
             reactions |-> MaxReactions, reingests |-> MaxReingests,
             restarts |-> MaxRestarts, failures |-> MaxFailures, deletes |-> MaxDeletes]

RowType  == [state : State, links : Seq(Link), resolved : BOOLEAN, media : [Media -> AltType],
             waived : BOOLEAN, note : {"none", "pending", "confirmed"}, meta : BOOLEAN]
AskType  == [open : [Kind -> Nat], done : SUBSET Kind, cancel : BOOLEAN, checklist : BOOLEAN,
             conf : ConfType, live : SUBSET Msg, gone : SUBSET Msg, late : BOOLEAN]
JobType  == [at : {"idle", "sending", "torn", "listed", "rebuilt", "restored"},
             plan : PlanType, kept : [Media -> AltType]]
SaidType == [kind : Media \cup {"source"}, text : Text \cup {None}]
ReplayType == [at : {"off", "scan", "scanning", "scanned", "replies"}, next : Nat, last : Nat]
UsedType == [edits : 0 .. MaxEdits, notes : 0 .. MaxNotes, forms : 0 .. MaxForms,
             reactions : 0 .. MaxReactions, reingests : 0 .. MaxReingests,
             restarts : 0 .. MaxRestarts, failures : 0 .. MaxFailures, deletes : 0 .. MaxDeletes]

\* The variables are of their types: a request is never answered more often than
\* it was asked, the catch-up reads no reply that is not in the thread, and the
\* bounds are kept (_apply_answer, _run_thread_catchup).
TypeOK ==
    /\ row \in RowType /\ ask \in AskType /\ job \in JobType
    /\ asked \in BOOLEAN /\ form \in [Media -> AltType] /\ notes \in Nat
    /\ said \in Seq(SaidType) /\ replay \in ReplayType
    /\ replay.next \in 1 .. replay.last + 1 /\ replay.last <= Len(said)
    /\ used \in UsedType

-----------------------------------------------------------------------------
(* What is missing (p is a submission) *)

Has(p) == {m \in Media : p.media[m].status # "absent"}

IsRepost(p) == p.links # <<>> /\ Head(p.links) \in Repost
PostKind(p) == IF IsRepost(p) THEN "record"
               ELSE IF Has(p) # {} THEN "media"
               ELSE IF p.links # <<>> THEN "external" ELSE "empty"

MissingSource(p)   == p.links = <<>> /\ ~p.waived /\ p.note # "confirmed"
MissingMetadata(p) == /\ PostKind(p) = "external" /\ ~p.meta
                      /\ ~p.resolved \/ Head(p.links) \in Bare
MissingImage(p)    == /\ PostKind(p) = "external"
                      /\ ~p.resolved \/ Head(p.links) \in Plain \cup Bare
MissingAlt(p)      == {m \in Media : p.media[m].status = "needed"}

Gaps(p) == {k \in Kind : \/ k = "source"   /\ MissingSource(p)
                         \/ k = "metadata" /\ MissingMetadata(p)
                         \/ k = "image"    /\ MissingImage(p)}
           \cup MissingAlt(p)

Evaluated(p) == IF MissingSource(p) THEN "awaiting_source"
                ELSE IF MissingMetadata(p) THEN "awaiting_better_link"
                ELSE IF MissingImage(p) THEN "awaiting_image"
                ELSE IF MissingAlt(p) # {} THEN "awaiting_alt_text" ELSE "ready_to_queue"

\* The gaps there is a request for: no image is asked for while a better link is.
Askable(p) == Gaps(p) \ (IF MissingMetadata(p) THEN {"image"} ELSE {})

-----------------------------------------------------------------------------
(* recompute_and_request *)

\* Mutant: the state of a queued submission is computed like any other.
SettledAlways(p) == [p EXCEPT !.state = Evaluated(p)]
\* The decision: the new state, kept for those past the queue button ...
Settled(p) == IF p.state \in Terminal THEN p ELSE [p EXCEPT !.state = Evaluated(p)]

\* Mutant: what was asked and answered once is not asked again.
PlanOnce(p, a) ==
    [ask |-> {k \in Askable(p) : a.open[k] = 0 /\ k \notin a.done},
     cancel |-> ~a.cancel, checklist |-> p.state \notin Terminal,
     retire |-> p.state \notin Terminal /\ Gaps(p) # {} /\ a.conf.row = "open",
     offer |-> p.state \notin Terminal /\ Gaps(p) = {} /\ a.conf.row # "open",
     check |-> FALSE, conf |-> a.conf]
\* ... and what to post.
Plan(p, a) ==
    LET going   == p.state \notin Terminal
        ready   == going /\ Evaluated(p) = "ready_to_queue"
        waiting == a.conf.row = "open"
        offers  == {k \in {"moreImages", "moreLinks"} :
                        going /\ (k = "moreLinks" => p.links # <<>>)}
    IN  [ask       |-> {k \in Askable(p) \cup offers : a.open[k] = 0},
         cancel    |-> ~a.cancel,
         checklist |-> going,
         retire    |-> going /\ ~ready /\ waiting,
         offer     |-> ready /\ ~waiting,
         check     |-> ready /\ waiting /\ p.state = "ready_to_queue",
         conf      |-> a.conf]

Sends(plan) == plan.ask \cup (IF plan.cancel THEN {"cancel"} ELSE {})
                        \cup (IF plan.offer \/ plan.check THEN {"offer"} ELSE {})

\* Messages a new Queue button can get.  (Bound: Msg.)
Unused(a, plan)   == Msg \ (a.live \cup {a.conf.msg, plan.conf.msg})
CanOffer(a, plan) == plan.offer \/ plan.check => Unused(a, plan) # {}

\* Mutant: the row of a retired Queue button stays.
PerformKeepsRow(a, plan, R, i) ==
    LET post == plan.offer /\ "offer" \notin R /\ a.conf.row = "none"
        new  == CHOOSE n \in Unused(a, plan) : TRUE
    IN  [a EXCEPT !.live = (IF plan.retire THEN @ \ {plan.conf.msg} ELSE @)
                           \cup (IF post THEN {new} ELSE {}),
                  !.open = [k \in Kind |-> @[k] + IF k \in plan.ask \ R THEN 1 ELSE 0],
                  !.cancel = TRUE, !.checklist = @ \/ plan.checklist,
                  !.conf = IF post THEN [row |-> "open", id |-> i, msg |-> new] ELSE @]
\* The sends and their record.  R is refused by Discord; a new confirmation row
\* gets an id i.  Neither a second cancel row nor a second confirmation row can
\* be stored (UNIQUE), and what one commit holds is lost together.
Perform(a, plan, R, i) ==
    LET lost   == plan.check /\ plan.conf.msg \in a.gone
        post   == (plan.offer \/ lost) /\ "offer" \notin R
        new    == CHOOSE n \in Unused(a, plan) : TRUE
        live   == (IF plan.retire THEN a.live \ {plan.conf.msg} ELSE a.live)
                  \cup (IF post THEN {new} ELSE {})
        gone   == IF post THEN a.gone \ {new} ELSE a.gone
        kept   == IF (plan.retire \/ lost) /\ a.conf.id = plan.conf.id
                  THEN [a.conf EXCEPT !.row = "none"] ELSE a.conf
        cancel == plan.cancel /\ "cancel" \notin R
        clash  == (cancel /\ a.cancel) \/ (post /\ kept.row # "none")
    IN  IF clash
        THEN [a EXCEPT !.live = live, !.gone = gone]
        ELSE [a EXCEPT !.live = live, !.gone = gone,
                       !.open = [k \in Kind |-> @[k] + IF k \in plan.ask \ R THEN 1 ELSE 0],
                       !.cancel = @ \/ cancel,
                       !.checklist = @ \/ plan.checklist,
                       !.conf = IF post THEN [row |-> "open", id |-> i, msg |-> new]
                                ELSE kept]

Events    == used.notes + used.forms + used.reactions + used.reingests + used.restarts
             + used.failures + used.deletes
CanSpend(k) == used[k] < Limits[k] /\ Events < MaxEvents
Spend(k)  == CanSpend(k) /\ used' = [used EXCEPT ![k] = @ + 1]
Refuse(u, plan, R) ==
    /\ R \subseteq Sends(plan)
    /\ IF R = {} THEN used' = u
       ELSE CanSpend("failures") /\ used' = [u EXCEPT !.failures = @ + 1]

\* A recompute inside a handler's transaction: p and a are the rows after the answer.
Recompute(p, a, u) ==
    LET plan == Plan(p, a) IN
    /\ CanOffer(a, plan)
    /\ row' = Settled(p)
    /\ \E R \in SUBSET Sends(plan), i \in ConfId :
        Refuse(u, plan, R) /\ ask' = Perform(a, plan, R, i)

Edited    == [used EXCEPT !.edits = @ + 1]
CanEdit   == used.edits < MaxEdits
Bystander == UNCHANGED <<job, asked, form, notes, said, replay>>

-----------------------------------------------------------------------------
(* Replies to requests *)

Open(k)        == ask.open[k] > 0

\* Mutant: a second answer closes a request that is closed already.
AnsweredTwice(a, k) == [a EXCEPT !.open[k] = @ - 1, !.done = @ \cup {k}]
Answered(a, k) == [a EXCEPT !.open[k] = IF @ > 0 THEN @ - 1 ELSE 0, !.done = @ \cup {k}]

\* An attachment arrives with its description, or without alt text.
Received(m) == IF m \in Described THEN [status |-> "provided", text |-> CHOOSE t \in Text : TRUE]
               ELSE [status |-> "needed", text |-> None]
Given(t)    == IF t = None THEN [status |-> "skipped", text |-> None]
               ELSE [status |-> "provided", text |-> t]

\* A link answers the request for the source, or the offer of more links; the
\* links are resolved before the transaction ends.  (Bound: MaxLinks.)
MaxLinks == Cardinality(Link)
ReplyLink(k, l) ==
    /\ CanEdit /\ Open(k) /\ k \in {"source", "moreLinks"} /\ Len(row.links) < MaxLinks
    /\ Recompute([row EXCEPT !.links = Append(@, l), !.resolved = TRUE], Answered(ask, k), Edited)
    /\ Bystander

\* A link answers the request for a better one: it takes the first one's place.
ReplyBetterLink(l) ==
    /\ CanEdit /\ Open("metadata")
    /\ Recompute(IF row.links = <<>> THEN row
                 ELSE [row EXCEPT !.links[1] = l, !.resolved = TRUE],
                 Answered(ask, "metadata"), Edited)
    /\ Bystander

\* An upload is a medium of its own, not one of the message's.
ReplyImage(k, m) ==
    /\ CanEdit /\ Open(k) /\ k \in {"image", "moreImages"} /\ m \notin Has(row) \cup SourceMedia
    /\ Recompute([row EXCEPT !.media[m] = Received(m)], Answered(ask, k), Edited)
    /\ Bystander

\* Alt text may be given again: every request for it stays good.
AltRow(m)      == Open(m) \/ m \in ask.done
TakeAlt(m, t, u) ==
    Recompute([row EXCEPT !.media[m] = IF @.status = "absent" THEN @ ELSE Given(t)],
              Answered(ask, m), u)
ReplyAlt(m, t) ==
    /\ CanEdit /\ AltRow(m) /\ TakeAlt(m, t, Edited)
    /\ said' = Append(said, [kind |-> m, text |-> t])
    /\ UNCHANGED <<job, asked, form, notes, replay>>

\* Text instead of a link: kept until somebody confirms it, and nothing recomputed.
TakeNote == /\ row' = [row EXCEPT !.note = "pending"]
            /\ notes' = notes + 1
            /\ UNCHANGED ask
ReplyNote ==
    /\ Spend("notes") /\ Open("source") /\ TakeNote
    /\ said' = Append(said, [kind |-> "source", text |-> None])
    /\ UNCHANGED <<job, asked, form, replay>>

-----------------------------------------------------------------------------
(* Buttons, commands and the edit form *)

\* Mutant: the prompt keeps its buttons.
ConfirmNoteAgain ==
    /\ CanEdit /\ notes > 0 /\ row.note # "none"
    /\ Recompute([row EXCEPT !.note = "confirmed"],
                 IF Open("source") THEN Answered(ask, "source") ELSE ask, Edited)
    /\ Bystander

ConfirmNote ==
    /\ CanEdit /\ notes > 0 /\ row.note # "none"
    /\ notes' = notes - 1
    /\ Recompute([row EXCEPT !.note = "confirmed"],
                 IF Open("source") THEN Answered(ask, "source") ELSE ask, Edited)
    /\ UNCHANGED <<job, asked, form, said, replay>>

RejectNote ==
    /\ CanEdit /\ notes > 0
    /\ notes' = notes - 1
    /\ Recompute([row EXCEPT !.note = "none"], ask, Edited)
    /\ UNCHANGED <<job, asked, form, said, replay>>

ConfirmMetadata ==
    /\ CanEdit /\ Open("metadata")
    /\ Recompute([row EXCEPT !.meta = TRUE], Answered(ask, "metadata"), Edited)
    /\ Bystander

\* The Queue button: what is missing is looked at once more before the row is queued.
CanQueue == ask.conf.row = "open" /\ row.state \notin Terminal
Queue(n) ==
    /\ CanEdit /\ n \in ask.live /\ CanQueue /\ Gaps(row) = {}
    /\ row' = [row EXCEPT !.state = "queued"]
    /\ ask' = [ask EXCEPT !.conf.row = "confirmed", !.live = @ \ {n}]
    /\ used' = Edited
    /\ Bystander
RefuseToQueue ==
    /\ CanEdit /\ ask.live # {} /\ CanQueue /\ Gaps(row) # {}
    /\ Recompute(row, ask, Edited)
    /\ Bystander

\* /no_source and /skip_alt hand recompute a channel where it expects a surface:
\* it sends plain texts and fails on everything else, and the transaction with it.
FailsOnChannel(plan, a) ==
    \/ plan.cancel \/ "metadata" \in plan.ask
    \/ plan.checklist /\ a.checklist
    \/ plan.retire \/ plan.offer \/ plan.check
SlashRecompute(p, a) ==
    IF FailsOnChannel(Plan(p, a), a) THEN used' = Edited /\ UNCHANGED <<row, ask>>
    ELSE Recompute(p, a, Edited)

NoSource ==
    /\ CanEdit /\ ~row.waived
    /\ SlashRecompute([row EXCEPT !.waived = TRUE],
                      IF Open("source") THEN Answered(ask, "source") ELSE ask)
    /\ UNCHANGED <<job, asked, form, notes, said, replay>>

SkipAlt ==
    LET need == MissingAlt(row) IN
    /\ CanEdit /\ need # {}
    /\ SlashRecompute([row EXCEPT !.media = [m \in Media |-> IF m \in need THEN Given(None) ELSE @[m]]],
                      [ask EXCEPT !.open = [k \in Kind |-> IF k \in need THEN 0 ELSE @[k]],
                                  !.done = @ \cup {k \in need : Open(k)}])
    /\ Bystander

\* The form shows the alt texts of the moment it is opened, and writes them all.
OpenForm ==
    /\ Spend("forms") /\ ask.live # {} /\ form = NoForm
    /\ form' = row.media
    /\ UNCHANGED <<row, ask, job, asked, notes, said, replay>>
SubmitForm(m, t) ==
    LET filled == [form EXCEPT ![m] = Given(t)]
        hit    == {k \in Has(row) : form[k] # Absent}
    IN  /\ CanEdit /\ form[m] # Absent
        /\ row' = [row EXCEPT !.media = [k \in Media |-> IF k \in hit THEN Given(filled[k].text) ELSE @[k]]]
        /\ form' = NoForm /\ used' = Edited
        /\ UNCHANGED <<ask, job, asked, notes, said, replay>>

DeleteQueueMessage(n) ==
    /\ Spend("deletes") /\ n \in ask.live
    /\ ask' = [ask EXCEPT !.live = @ \ {n}, !.gone = @ \cup {n}]
    /\ UNCHANGED row /\ Bystander

-----------------------------------------------------------------------------
(* A butterfly on a message whose thread exists *)

\* The decision is committed, the lock released ...
Decide ==
    /\ job.at = "idle"
    /\ row' = Settled(row)
    /\ job' = [job EXCEPT !.at = "sending", !.plan = Plan(row, ask)]
    /\ UNCHANGED <<ask, asked, form, notes, said>>
React == Decide /\ Spend("reactions") /\ UNCHANGED replay

\* A request of this record is late: it was answered meanwhile, or asked twice.
Late(a) == \E k \in {"source", "metadata"} :
                a.open[k] > ask.open[k] /\ (Open(k) \/ k \notin Askable(row))

\* ... and what was decided is sent and recorded, whatever was answered meanwhile.
SendAndRecord ==
    /\ job.at = "sending" /\ CanOffer(ask, job.plan)
    /\ \E R \in SUBSET Sends(job.plan), i \in ConfId :
        /\ Refuse(used, job.plan, R)
        /\ LET a == Perform(ask, job.plan, R, i) IN
            ask' = [a EXCEPT !.late = @ \/ Late(a)]
    /\ job' = Idle
    /\ replay' = IF replay.at = "scanning" THEN [replay EXCEPT !.at = "scanned"] ELSE replay
    /\ UNCHANGED <<row, asked, form, notes, said>>

\* The retry loop made the thread: its recompute is inside a transaction.
ThreadRetried ==
    /\ job.at = "idle" /\ row.state = "intent_submitted"
    /\ Recompute(row, ask, used)
    /\ Bystander

-----------------------------------------------------------------------------
(* /reingest *)

AskReingest ==
    /\ Spend("reingests") /\ ~asked /\ row.state \notin Terminal
    /\ asked' = TRUE
    /\ UNCHANGED <<row, ask, job, form, notes, said, replay>>
FetchFails ==
    /\ asked /\ asked' = FALSE
    /\ UNCHANGED <<row, ask, job, form, notes, said, replay, used>>

\* Links and attachments go, with their alt-text requests; answered alt text is
\* kept in memory.  An open form may find other attachments under its ids.
Teardown ==
    /\ asked /\ job.at = "idle"
    /\ asked' = FALSE
    /\ job' = [Idle EXCEPT !.at = "torn", !.kept = [m \in Media |->
                    IF row.media[m].status = "needed" THEN Absent ELSE row.media[m]]]
    /\ row' = [row EXCEPT !.links = <<>>, !.media = NoForm]
    /\ ask' = [ask EXCEPT !.open = [k \in Kind |-> IF k \in Has(row) THEN 0 ELSE @[k]],
                          !.done = @ \ Has(row)]
    /\ form' \in {form, NoForm}
    /\ UNCHANGED <<notes, said, replay, used>>

\* ingest_message_content: the message's links and attachments are stored ...
Relist ==
    /\ job.at = "torn"
    /\ job' = [job EXCEPT !.at = "listed"]
    /\ row' = [row EXCEPT !.links = SourceLinks \o @, !.resolved = FALSE,
                          !.media = [m \in Media |-> IF m \in SourceMedia THEN Received(m) ELSE @[m]]]
    /\ UNCHANGED <<ask, asked, form, notes, said, replay, used>>
\* ... and resolved with the lock released.
Resolve ==
    /\ job.at = "listed"
    /\ job' = [job EXCEPT !.at = "rebuilt"]
    /\ row' = [row EXCEPT !.resolved = TRUE]
    /\ UNCHANGED <<ask, asked, form, notes, said, replay, used>>

RestoreAlt ==
    /\ job.at = "rebuilt"
    /\ job' = [job EXCEPT !.at = "restored"]
    /\ row' = [row EXCEPT !.media = [m \in Media |->
                    IF m \in Has(row) /\ job.kept[m] # Absent THEN job.kept[m] ELSE @[m]]]
    /\ UNCHANGED <<ask, asked, form, notes, said, replay, used>>

\* Mutant: nothing is asked about what was read again.
ReingestedSilently ==
    /\ job.at = "restored" /\ job' = Idle
    /\ UNCHANGED <<row, ask, asked, form, notes, said, replay, used>>

Reingested ==
    /\ job.at = "restored"
    /\ Recompute(row, ask, used)
    /\ job' = Idle
    /\ UNCHANGED <<asked, form, notes, said, replay>>

-----------------------------------------------------------------------------
(* The dispatcher, the curators' script and restarts *)

Publish(s) ==
    /\ row.state \in {"queued", "publish_failed"}
    /\ s \in {"published", "publish_failed", "publish_blocked"} /\ s # row.state
    /\ row' = [row EXCEPT !.state = s]
    /\ UNCHANGED <<ask, used>> /\ Bystander

Requeue ==
    /\ CanEdit /\ row.state = "publish_blocked"
    /\ row' = [row EXCEPT !.state = "publish_failed"] /\ used' = Edited
    /\ UNCHANGED ask /\ Bystander

\* What was in memory is lost; of what was being sent some messages are out.
Restart ==
    /\ Spend("restarts")
    /\ job' = Idle /\ asked' = FALSE /\ form' = NoForm
    /\ replay' = [NoReplay EXCEPT !.at = "scan"]
    /\ \/ ask' = ask
       \/ /\ job.at = "sending" /\ job.plan.retire
          /\ ask' = [ask EXCEPT !.live = @ \ {job.plan.conf.msg}]
    /\ UNCHANGED <<row, notes, said>>

\* The boot scan treats a recent message as if its butterfly were new ...
ScanReact == replay.at = "scan" /\ Recent /\ Decide
             /\ replay' = [replay EXCEPT !.at = "scanning"] /\ UNCHANGED used
\* ... then the threads that wait for an answer are listed; one that waits for
\* the Queue button is not.
ListThreads ==
    /\ replay.at = IF Recent THEN "scanned" ELSE "scan"
    /\ replay' = IF row.state \in Pending THEN [at |-> "replies", next |-> 1, last |-> Len(said)]
                 ELSE NoReplay
    /\ UNCHANGED <<row, ask, job, asked, form, notes, said, used>>

\* The thread catch-up hands every reply it read to handle_reply again, oldest
\* first; a request that was answered ignores it, except one for alt text.
ReplayReply ==
    /\ replay.at = "replies" /\ replay.next <= replay.last
    /\ replay' = [replay EXCEPT !.next = @ + 1]
    /\ LET s == said[replay.next] IN
        \/ /\ s.kind \in Media /\ AltRow(s.kind)
           /\ TakeAlt(s.kind, s.text, used) /\ UNCHANGED notes
        \/ s.kind = "source" /\ Open("source") /\ TakeNote /\ UNCHANGED used
        \/ /\ IF s.kind = "source" THEN ~Open("source") ELSE ~AltRow(s.kind)
           /\ UNCHANGED <<row, ask, notes, used>>
    /\ UNCHANGED <<job, asked, form, said>>
ThreadCaughtUp ==
    /\ replay.at = "replies" /\ replay.next > replay.last
    /\ replay' = NoReplay
    /\ Recompute(row, ask, used)
    /\ UNCHANGED <<job, asked, form, notes, said>>

-----------------------------------------------------------------------------
Init ==
    /\ row = [state |-> "intent_submitted", links |-> SourceLinks, resolved |-> TRUE,
              media |-> [m \in Media |-> IF m \in SourceMedia THEN Received(m) ELSE Absent],
              waived |-> FALSE, note |-> "none", meta |-> FALSE]
    /\ ask = [open |-> [k \in Kind |-> 0], done |-> {}, cancel |-> FALSE, checklist |-> FALSE,
              conf |-> NoConf, live |-> {}, gone |-> {}, late |-> FALSE]
    /\ job = Idle /\ asked = FALSE /\ form = NoForm /\ notes = 0
    /\ said = <<>> /\ replay = NoReplay
    /\ used = [edits |-> 0, notes |-> 0, forms |-> 0, reactions |-> 0, reingests |-> 0,
                restarts |-> 0, failures |-> 0, deletes |-> 0]

Reply ==
    \/ \E k \in {"source", "moreLinks"}, l \in Link : ReplyLink(k, l)
    \/ \E l \in Link : ReplyBetterLink(l)
    \/ \E k \in {"image", "moreImages"}, m \in Media : ReplyImage(k, m)
    \/ \E m \in Media, t \in Text : ReplyAlt(m, t)
    \/ ReplyNote
Button ==
    \/ ConfirmNote \/ RejectNote \/ ConfirmMetadata
    \/ \E n \in Msg : Queue(n)
    \/ RefuseToQueue
    \/ \E n \in Msg : DeleteQueueMessage(n)
Command ==
    \/ NoSource \/ SkipAlt \/ OpenForm
    \/ \E m \in Media, t \in Text \cup {None} : SubmitForm(m, t)
Task ==
    \/ React \/ SendAndRecord \/ ThreadRetried
    \/ AskReingest \/ FetchFails \/ Teardown \/ Relist \/ Resolve \/ RestoreAlt \/ Reingested
    \/ \E s \in Terminal : Publish(s)
    \/ Requeue
    \/ Restart \/ ScanReact \/ ListThreads \/ ReplayReply \/ ThreadCaughtUp

Next == Reply \/ Button \/ Command \/ Task
Spec == Init /\ [][Next]_vars

-----------------------------------------------------------------------------
(* Properties *)

Settles == job.at = "idle" /\ replay.at = "off"

\* Whatever is missing has been asked for, and the request is still open, unless
\* Discord refused it: nobody has to guess what a thread waits for
\* (recompute_and_request posts "any still-missing requests").  Not so when a stop
\* cuts a /reingest short and the message is out of the reach of the boot scan.
Asked ==
    /\ Settles /\ row.state # "intent_submitted" /\ used.failures = 0
    /\ Recent \/ used.reingests = 0 \/ used.restarts = 0
    =>
        \A k \in Askable(row) : Open(k)

\* What was queued, posted or blocked is never taken back into curation by a
\* recompute, not even by one that was decided before the Queue button was
\* pressed (statemachine.py, "would downgrade QUEUED/PUBLISHED").
QueueKept == [][row.state \in Terminal => row'.state \in Terminal]_vars

\* A queued or posted submission lacks nothing but alt text of media added since
\* (handle_confirm_button looks at the gaps once more).  Not so after /reingest,
\* which may tear down what was queued while it fetched the message, nor with two
\* prompts about a source note (a second note, or one replayed after a restart):
\* the second can take back the note that was confirmed; nor with a request that a
\* butterfly recorded late: an answer to it changes what was queued.
QueueComplete ==
    used.reingests = 0 /\ used.notes + used.restarts <= 1 /\ ~ask.late =>
        (row.state \in Terminal => Gaps(row) \subseteq Media)

\* A submission that waits for the Queue button has one that works ("the Queue
\* button reopens once everything's resolved", replies.py), as long as Discord
\* posts and keeps what it is given, nothing restarts, and one butterfly at most
\* was recorded: a second one's record may belong to a decision that is out of date.
Undisturbed == used.failures + used.deletes + used.restarts = 0 /\ used.reactions <= 1
QueueOffered ==
    Settles /\ Undisturbed /\ row.state = "ready_to_queue" =>
        ask.conf.row = "open" /\ ask.live # {}

============================================================================
