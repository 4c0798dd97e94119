------------------------------- MODULE Ingest -------------------------------
(***************************************************************************)
(* How the content of a Discord message gets onto its submission           *)
(* (curation/ingest.py, asset_store/store.py, reingest_submission in       *)
(* discord_ingest/service.py).                                             *)
(*                                                                         *)
(* A butterfly or a /reingest fetches the message, waits for the message's *)
(* lock, writes rows without content in one transaction, downloads and     *)
(* resolves with no database lock held, and writes what it got onto the    *)
(* rows, by their ids, in a later transaction.  Meanwhile replies in the   *)
(* thread add files and links in transactions of their own, a curator may  *)
(* remove the submission, and the bot may stop; none of these takes the    *)
(* message's lock.  Ids are SQLite's: the highest in use plus one, so the  *)
(* id of a deleted row is given out again.                                 *)
(*                                                                         *)
(* One board.  Pasted files all have one name in Discord, so a download    *)
(* goes to a path of the submission's and the row's ids.  Left out: the    *)
(* thumbnails and captured embeds of links, which are columns of a link    *)
(* like its title ("meta" stands for all of them).                         *)
(***************************************************************************)
EXTENDS Naturals, Sequences, FiniteSets, FiniteSetsExt

CONSTANTS Message, File, Url,
          Bluesky,    \* the urls of Bluesky posts, which have a permanent uri
          Streaming,  \* the urls whose resolver offers a video
          Clip,       \* the files that are videos
          Content,    \* what the messages carry at first
          Edited,     \* what they may be edited to
          Supplied,   \* the files and urls curators reply with
          Task,       \* handlers of butterflies and of /reingest
          None,
          MaxId,      \* bound: ids of submissions, of attachments, of links
          Budget      \* bound: handlers run; replies, removals, edits, failures, stops

ASSUME IngestAssumption ==
    /\ Bluesky \cup Streaming \subseteq Url /\ Clip \subseteq File /\ File \cap Url = {}
    /\ None \notin Message \cup File \cup Url \cup Task \cup 1 .. MaxId
    /\ Content \in [Message -> [files : Seq(File), urls : Seq(Url)]]
    /\ Edited \in [Message -> [files : Seq(File), urls : Seq(Url)]]
    /\ Supplied \subseteq File \cup Url
    /\ MaxId \in Nat \ {0}
    /\ Budget \in [{"handlers", "events"} -> Nat]

(* Discord gives every attachment an id of its own: it is in one message, once.  *)
FilesOf(m) == {Content[m].files[i] : i \in DOMAIN Content[m].files}
              \cup {Edited[m].files[i] : i \in DOMAIN Edited[m].files}

ASSUME AttachmentAssumption ==
    /\ \A m \in Message : /\ FilesOf(m) \cap Supplied = {}
                          /\ \A n \in Message \ {m} : FilesOf(m) \cap FilesOf(n) = {}
    /\ \A c \in {Content, Edited}, m \in Message :
           \A i, j \in DOMAIN c[m].files : c[m].files[i] = c[m].files[j] => i = j

VARIABLES
    content, \* the messages, as Discord has them
    \* the database
    subs,    \* submissions: the message of each, None where there is no row
    atts,    \* attachments; file is a url for the video of a link
    links,   \* submission links
    \* the volume
    dirs,    \* the submissions with a directory
    disk,    \* what is at each path
    \* memory
    lock,    \* _message_processing_locks: the holder of each
    task,
    \* observations
    answered,\* the files described in the thread, <<submission, file>>
    left     \* of the budget

db   == <<subs, atts, links>>
vol  == <<dirs, disk>>
vars == <<content, db, vol, lock, task, answered, left>>

Id == 1 .. MaxId

NoRow    == [sub |-> None]
Rows(t)  == {r \in Id : t[r] # NoRow}
Of(t, s) == {r \in Rows(t) : t[r].sub = s}
Live     == {s \in Id : subs[s] # None}
SubOf(m) == {s \in Live : subs[s] = m}

NextId(used) == IF used = {} THEN 1 ELSE Max(used) + 1

Fits(t, n) == NextId(Rows(t)) + n - 1 <= MaxId
Insert(t, new) ==
    LET first == NextId(Rows(t)) IN
    [r \in Id |-> IF r \in first .. first + Len(new) - 1 THEN new[r - first + 1] ELSE t[r]]
Delete(t, rs) == [r \in Id |-> IF r \in rs THEN NoRow ELSE t[r]]

\* A row is stray, and so is a file, once something has written it that no longer
\* had it to write: its submission removed, its link replaced, or rolled back.
NoPath == <<>>
Attachment(s, f, p) == [sub |-> s, file |-> f, path |-> p, alt |-> FALSE, stray |-> FALSE]
SubmissionLink(s, u) == [sub |-> s, url |-> u, meta |-> None, uri |-> None, stray |-> FALSE]

\* Mutant: a download goes by the name of the attachment alone.
FilePathByName(s, r) == <<s, "file", 0>>

FilePath(s, r) == <<s, "file", r>>
VideoPath(s, l) == <<s, "linkvid", l>>

HasVideo(t, s) == \E r \in Of(t, s) : t[r].file \in Url \cup Clip

\* keep: the files whose description is put back.  cut: the submission was removed, or
\* its files were, or another took its id for its own, since the task began.
\* old: the links of its plan whose url a reply has replaced.
Blank == [pc |-> "idle", kind |-> None, msg |-> None, sub |-> 0,
          files |-> <<>>, urls |-> <<>>, keep |-> {}, plan |-> {}, rows |-> {}, got |-> {},
          todo |-> {}, outs |-> {}, video |-> FALSE, old |-> {}, cut |-> FALSE]

Spend(what) == left[what] > 0 /\ left' = [left EXCEPT ![what] = @ - 1]

Init ==
    /\ content = Content
    /\ subs = [s \in Id |-> None]
    /\ atts = [r \in Id |-> NoRow] /\ links = [l \in Id |-> NoRow]
    /\ dirs = {} /\ disk = <<>>
    /\ lock = [m \in Message |-> None] /\ task = [t \in Task |-> Blank]
    /\ answered = {}
    /\ left = Budget

-----------------------------------------------------------------------------
(* A butterfly or a /reingest.                                             *)

\* The message is fetched, and its author's later edits are not seen.
Fetch(t) ==
    /\ task[t].pc = "idle" /\ Spend("handlers")
    /\ \E m \in Message, kind \in {"butterfly", "reingest"} :
           /\ kind = "reingest" => SubOf(m) # {}
           /\ task' = [task EXCEPT ![t] =
                  [Blank EXCEPT !.pc = "wait", !.kind = kind, !.msg = m,
                                !.files = content[m].files, !.urls = content[m].urls]]
    /\ UNCHANGED <<content, db, vol, lock, answered>>

\* Mutant: a handler that returns early keeps the lock.
FinishLocked(t) == task' = [task EXCEPT ![t] = Blank] /\ UNCHANGED lock

Finish(t) ==
    /\ task' = [task EXCEPT ![t] = Blank]
    /\ lock' = [m \in Message |-> IF lock[m] = t THEN None ELSE lock[m]]

\* Mutant: a /reingest does not wait for the lock.
MayEnterUnlocked(t, m) == lock[m] = None \/ task[t].kind = "reingest"

MayEnter(t, m) == lock[m] = None

Enter(t) ==
    LET m == task[t].msg IN
    /\ task[t].pc = "wait" /\ MayEnter(t, m)
    /\ \/ /\ (task[t].kind = "butterfly") = (SubOf(m) # {})
          /\ Finish(t) /\ UNCHANGED subs
       \/ /\ task[t].kind = "butterfly" /\ SubOf(m) = {}
          /\ NextId(Live) \in Id
          /\ subs' = [subs EXCEPT ![NextId(Live)] = m]
          /\ task' = [task EXCEPT ![t].pc = "skeletons", ![t].sub = NextId(Live)]
          /\ lock' = [lock EXCEPT ![m] = t]
       \/ /\ task[t].kind = "reingest"
          /\ \E s \in SubOf(m) :
                 task' = [task EXCEPT ![t].pc = "teardown", ![t].sub = s]
          /\ lock' = [lock EXCEPT ![m] = t] /\ UNCHANGED subs
    /\ UNCHANGED <<content, atts, links, vol, answered, left>>

\* What the tasks of s hold is no longer theirs.
Cut(s) == [t \in Task |-> [task[t] EXCEPT !.cut = @ \/ task[t].sub = s]]

\* Mutant: the descriptions are read once the rows are gone.
DescribedAfter(s) == {f \in Url : \E r \in Of(atts, s) : atts[r].file = f /\ atts[r].alt}

Described(s) == {atts[r].file : r \in {r \in Of(atts, s) : atts[r].alt}}

\* reingest_submission, beat 1.  The video of a link is kept.
TearDown(t) ==
    LET s == task[t].sub IN
    /\ task[t].pc = "teardown"
    /\ IF s \in Live
       THEN /\ task' = [IF task[t].cut THEN Cut(s) ELSE task EXCEPT
                            ![t].pc = "skeletons",
                            ![t].keep = Described(s)]
            /\ answered' = IF task[t].cut THEN {a \in answered : a[1] # s} ELSE answered
            /\ atts' = Delete(atts, {r \in Of(atts, s) : atts[r].file \in File})
            /\ links' = Delete(links, Of(links, s)) /\ UNCHANGED lock
       ELSE Finish(t) /\ UNCHANGED <<atts, links, answered>>
    /\ UNCHANGED <<content, subs, vol, left>>

\* _persist_ingest_skeletons, and the directory its downloads go to.
Skeletons(t) ==
    LET s == task[t].sub  files == task[t].files  urls == task[t].urls IN
    /\ task[t].pc = "skeletons"
    /\ IF s \in Live
       THEN /\ Fits(atts, Len(files)) /\ Fits(links, Len(urls))
            /\ links' = Insert(links, [i \in DOMAIN urls |-> SubmissionLink(s, urls[i])])
            /\ atts' = Insert(atts, [i \in DOMAIN files |->
                          [Attachment(s, files[i], NoPath) EXCEPT !.stray = task[t].cut]])
            /\ dirs' = dirs \cup {s}
            /\ LET rows == {[id |-> r, file |-> atts'[r].file] : r \in Rows(atts') \ Rows(atts)} IN
               task' = [task EXCEPT ![t].pc = "gather", ![t].rows = rows, ![t].todo = rows,
                            ![t].plan = {[id |-> l, url |-> links'[l].url] : l \in Of(links', s)},
                            ![t].video = HasVideo(atts', s), ![t].old = {}]
       ELSE /\ task' = [task EXCEPT ![t].pc = "close"]
            /\ UNCHANGED <<atts, links, dirs>>
    /\ UNCHANGED <<content, subs, disk, lock, answered, left>>

\* A download into the submission's directory, if that is still there.
Write(path, what, stray) ==
    disk' = [p \in DOMAIN disk \cup {path} |->
                 IF p = path THEN [of |-> what, stray |-> stray] ELSE disk[p]]

\* _gather_ingest: the attachments in order, with no lock held.
GatherFile(t) ==
    LET s == task[t].sub IN
    /\ task[t].pc = "gather"
    /\ \E a \in task[t].todo :
           /\ \A b \in task[t].todo : a.id <= b.id
           /\ \/ /\ s \in dirs
                 /\ Write(FilePath(s, a.id), a.file, task[t].cut)
                 /\ task' = [task EXCEPT ![t].todo = @ \ {a}, ![t].got = @ \cup {a}]
                 /\ UNCHANGED left
              \/ /\ IF s \in dirs THEN Spend("events") ELSE UNCHANGED left
                 /\ task' = [task EXCEPT ![t].todo = @ \ {a}] /\ UNCHANGED disk
    /\ UNCHANGED <<content, db, dirs, lock, answered>>

Outcome(l, uri, video) == [id |-> l.id, url |-> l.url, uri |-> uri, video |-> video]

\* What resolving a link of a plan gives, or may give when some request fails.
\* first: the primary link; video: the submission has one already.
Uri(u) == IF u \in Bluesky THEN u ELSE None
Best(l, first, video) == Outcome(l, Uri(l.url), first /\ l.url \in Streaming /\ ~video)
Outcomes(l, first, video) ==
    {Outcome(l, uri, v) : uri \in {Uri(l.url), None}, v \in {Best(l, first, video).video, FALSE}}

Primary(plan) == CHOOSE l \in plan : \A k \in plan : l.id <= k.id

\* What a task plans for a link that has been replaced since.
Outdated(t, l) == task[t].cut \/ l.id \in task[t].old

GatherLink(t) ==
    LET s == task[t].sub  rest == {l \in task[t].plan : \A o \in task[t].outs : o.id # l.id} IN
    /\ task[t].pc = "gather" /\ task[t].todo = {} /\ rest # {}
    /\ LET l == Primary(rest) IN
       \E o \in Outcomes(l, l = Primary(task[t].plan), task[t].video) :
           /\ o.video => s \in dirs
           /\ IF o = Best(l, l = Primary(task[t].plan), task[t].video) \/ s \notin dirs
              THEN UNCHANGED left ELSE Spend("events")
           /\ IF o.video THEN Write(VideoPath(s, l.id), l.url, Outdated(t, l)) ELSE UNCHANGED disk
           /\ task' = [task EXCEPT ![t].outs = @ \cup {o}]
    /\ UNCHANGED <<content, db, dirs, lock, answered>>

\* Mutant: the uri is cleared by nothing.
ResolvedKeepsUri(link, o, stray) ==
    [link EXCEPT !.meta = o.url, !.uri = IF o.uri = None THEN @ ELSE o.uri, !.stray = stray]

Resolved(link, o, stray) == [link EXCEPT !.meta = o.url, !.uri = o.uri, !.stray = stray]

\* The outcomes written onto the rows of t that are still there.
WriteBack(t, outs, Stray(_)) ==
    [l \in Id |-> IF t[l] # NoRow /\ \E o \in outs : o.id = l
                  THEN LET o == CHOOSE o \in outs : o.id = l IN Resolved(t[l], o, Stray(o))
                  ELSE t[l]]

\* Mutant: the plan's word is taken for it that there is no video yet.
AttachVideoPlanned(t, ls, s, outs, stray) ==
    LET new == {o \in outs : o.video /\ ls[o.id] # NoRow} IN
    IF new = {} THEN t
    ELSE LET o == CHOOSE o \in new : TRUE IN
         Insert(t, <<[Attachment(s, o.url, VideoPath(s, o.id)) EXCEPT !.stray = stray]>>)

\* _attach_resolved_video; ls are the links.  Only the primary link of a plan has one.
AttachVideo(t, ls, s, outs, stray) ==
    LET new == {o \in outs : o.video /\ ls[o.id] # NoRow} IN
    IF new = {} \/ HasVideo(t, s) THEN t
    ELSE LET o == CHOOSE o \in new : TRUE IN
         Insert(t, <<[Attachment(s, o.url, VideoPath(s, o.id)) EXCEPT !.stray = stray]>>)

\* _persist_ingest_outcome, by ids alone.
Persist(t) ==
    LET s == task[t].sub
        Stray(o) == task[t].cut \/ links[o.id].url # o.url
        stored == [r \in Id |-> IF atts[r] # NoRow /\ \E a \in task[t].got : a.id = r
                                THEN [atts[r] EXCEPT !.path = FilePath(s, r), !.stray = task[t].cut]
                                ELSE atts[r]]
    IN
    /\ task[t].pc = "gather" /\ task[t].todo = {}
    /\ {o.id : o \in task[t].outs} = {l.id : l \in task[t].plan}
    /\ Fits(atts, 1)
    /\ atts' = AttachVideo(stored, links, s, task[t].outs, task[t].cut)
    /\ links' = WriteBack(links, task[t].outs, Stray)
    /\ task' = [task EXCEPT ![t].pc = "close"]
    /\ UNCHANGED <<content, subs, vol, lock, answered, left>>

\* reingest_submission, beat 3.
Restored(t) ==
    [r \in Id |-> IF atts[r].sub = task[t].sub /\ atts[r].file \in task[t].keep
                  THEN [atts[r] EXCEPT !.alt = TRUE] ELSE atts[r]]

Restore(t) ==
    /\ task[t].pc = "close" /\ task[t].kind = "reingest"
    /\ atts' = Restored(t)
    /\ answered' = {a \in answered : a[1] = task[t].sub =>
                                      \E r \in Of(atts, a[1]) : atts[r].file = a[2]}
    /\ Finish(t)
    /\ UNCHANGED <<content, subs, links, vol, left>>

\* The rows, the directory and the tasks of a submission that is deleted.
Drop(s) ==
    /\ subs' = [subs EXCEPT ![s] = None]
    /\ atts' = Delete(atts, Of(atts, s)) /\ links' = Delete(links, Of(links, s))
    /\ answered' = {a \in answered : a[1] # s}

RemoveFiles(s) ==
    /\ dirs' = dirs \ {s}
    /\ disk' = [p \in {p \in DOMAIN disk : p[1] # s} |-> disk[p]]

\* _detect_and_teardown_duplicate, once the new submission has its content.
Duplicate(s) ==
    \E l \in Of(links, s), k \in Rows(links) :
        links[k].sub \in Live \ {s} /\ links[k].url = links[l].url

Settle(t) ==
    LET s == task[t].sub IN
    /\ task[t].pc = "close" /\ task[t].kind = "butterfly"
    /\ IF s \in Live /\ Duplicate(s)
       THEN /\ Drop(s) /\ RemoveFiles(s)
            /\ task' = [Cut(s) EXCEPT ![t] = Blank]
            /\ lock' = [m \in Message |-> IF lock[m] = t THEN None ELSE lock[m]]
       ELSE Finish(t) /\ UNCHANGED <<db, vol, answered>>
    /\ UNCHANGED <<content, left>>

-----------------------------------------------------------------------------
(* What happens meanwhile.                                                 *)

\* A file in a reply, each one in one reply, stored in the reply's transaction, which may be rolled back.
ReplyFile(s, f) ==
    LET r == NextId(Rows(atts)) IN
    /\ r \in Id /\ \A q \in Of(atts, s) : atts[q].file # f
    /\ dirs' = dirs \cup {s}
    /\ \E stored \in BOOLEAN, commits \in BOOLEAN :
           /\ IF stored THEN Write(FilePath(s, r), f, ~commits) ELSE UNCHANGED disk
           /\ atts' = IF commits
                      THEN Insert(atts, <<Attachment(s, f, IF stored THEN FilePath(s, r) ELSE NoPath)>>)
                      ELSE atts
    /\ UNCHANGED <<links, task>>

\* _resolve_links_in_session: the links, now t, are resolved and stored at once.
ResolveInSession(s, t, replaced) ==
    LET plan == {[id |-> l, url |-> t[l].url] : l \in Of(t, s)}
        Never(o) == FALSE
        results == UNION {Outcomes(l, l = Primary(plan), HasVideo(atts, s)) : l \in plan}
    IN
    /\ dirs' = IF plan = {} THEN dirs ELSE dirs \cup {s}
    /\ \E outs \in kSubset(Cardinality(plan), results), commits \in BOOLEAN :
           /\ {o.id : o \in outs} = {l.id : l \in plan}
           /\ IF \E o \in outs : o.video
              THEN LET o == CHOOSE o \in outs : o.video IN Write(VideoPath(s, o.id), o.url, ~commits)
              ELSE UNCHANGED disk
           /\ IF commits
              THEN /\ links' = WriteBack(t, outs, Never)
                   /\ Fits(atts, 1) /\ atts' = AttachVideo(atts, t, s, outs, FALSE)
                   /\ task' = [k \in Task |-> [task[k] EXCEPT !.old = IF task[k].sub = s
                                                                     THEN @ \cup replaced ELSE @]]
              ELSE UNCHANGED <<links, atts, task>>

\* The answer to a SourceRequest or a SupplementalLinkRequest: one more link.
ReplyLink(s, u) ==
    Fits(links, 1) /\ ResolveInSession(s, Insert(links, <<SubmissionLink(s, u)>>), {})

\* The answer to a MetadataRequest: another url in the row of the primary link.
ReplyMetadata(s, u) ==
    LET primary == {l \in Of(links, s) : \A k \in Of(links, s) : l <= k} IN
    ResolveInSession(s, [l \in Id |-> IF l \in primary
                                      THEN [links[l] EXCEPT !.url = u, !.meta = None]
                                      ELSE links[l]], primary)

Reply ==
    /\ Spend("events")
    /\ \E s \in Live : \/ \E f \in Supplied \cap File : ReplyFile(s, f)
                       \/ \E u \in Supplied \cap Url : ReplyLink(s, u) \/ ReplyMetadata(s, u)
    /\ UNCHANGED <<content, subs, lock, answered>>

\* The answer to an AttachmentAltTextRequest.
Describe(r) ==
    /\ Spend("events") /\ atts[r] # NoRow /\ ~atts[r].alt
    /\ atts' = [atts EXCEPT ![r].alt = TRUE]
    /\ answered' = answered \cup {<<atts[r].sub, atts[r].file>>}
    /\ UNCHANGED <<content, subs, links, vol, lock, task>>

\* A curator removes the submission.  The notice of it is sent in the transaction,
\* after the files are gone: if it cannot be sent, the rows stay.
Remove(s) ==
    /\ s \in Live /\ Spend("events")
    /\ RemoveFiles(s) /\ task' = Cut(s)
    /\ \/ Drop(s)
       \/ /\ atts' = [r \in Id |-> IF atts[r].sub = s THEN [atts[r] EXCEPT !.stray = TRUE]
                                   ELSE atts[r]]
          /\ UNCHANGED <<subs, links, answered>>
    /\ UNCHANGED <<content, lock>>

Edit(m) ==
    /\ Spend("events") /\ content[m] # Edited[m]
    /\ content' = [content EXCEPT ![m] = Edited[m]]
    /\ UNCHANGED <<db, vol, lock, task, answered>>

\* The bot stops: what its tasks were to put back is forgotten.
Stop ==
    /\ Spend("events")
    /\ task' = [t \in Task |-> Blank] /\ lock' = [m \in Message |-> None]
    /\ answered' = {a \in answered :
                        ~ \E t \in Task : task[t].sub = a[1] /\ a[2] \in task[t].keep}
    /\ UNCHANGED <<content, db, vol>>

Next ==
    \/ \E t \in Task :
           \/ Fetch(t) \/ Enter(t) \/ TearDown(t) \/ Skeletons(t) \/ GatherFile(t)
           \/ GatherLink(t) \/ Persist(t) \/ Restore(t) \/ Settle(t)
    \/ Reply \/ (\E r \in Id : Describe(r)) \/ (\E s \in Id : Remove(s))
    \/ (\E m \in Message : Edit(m)) \/ Stop

Spec == Init /\ [][Next]_vars

-----------------------------------------------------------------------------
(* Properties.                                                             *)

AttachmentRow ==
    [sub : Id, file : File \cup Url, path : {NoPath} \cup (Id \X {"file", "linkvid"} \X Id),
     alt : BOOLEAN, stray : BOOLEAN]
LinkRow == [sub : Id, url : Url, meta : Url \cup {None}, uri : Url \cup {None}, stray : BOOLEAN]

\* Every variable has its type; a message has at most one submission, and the holder of
\* its lock is a task at work on it (service.py's _message_processing_locks).
TypeOK ==
    /\ content \in [Message -> [files : Seq(File), urls : Seq(Url)]]
    /\ subs \in [Id -> Message \cup {None}] /\ \A m \in Message : Cardinality(SubOf(m)) <= 1
    /\ atts \in [Id -> AttachmentRow \cup {NoRow}] /\ links \in [Id -> LinkRow \cup {NoRow}]
    /\ dirs \subseteq Id /\ \A p \in DOMAIN disk : p[1] \in dirs
    /\ lock \in [Message -> Task \cup {None}]
    /\ \A t \in Task : task[t].pc \in {"idle", "wait"} <=> \A m \in Message : lock[m] # t
    /\ answered \subseteq Id \X (File \cup Url)

\* From its skeletons to its outcome, an ingest finds under the ids of its plan the rows
\* it wrote there, one for each attachment of the message, whatever replies and other
\* handlers do meanwhile; unless its submission was removed (_persist_ingest_outcome).
PlanHolds ==
    \A t \in Task :
        task[t].pc = "gather" /\ ~task[t].cut =>
            /\ \A a \in task[t].rows : atts[a.id].sub = task[t].sub /\ atts[a.id].file = a.file
            /\ \A i \in DOMAIN task[t].files :
                   Cardinality({r \in Of(atts, task[t].sub) : atts[r].file = task[t].files[i]}) = 1

\* What an attachment's path leads to is the attachment, and not the file of another row,
\* message or link; unless the path or the file there was written for a submission
\* that had been removed, a link that had been replaced or a reply that was rolled back
\* (_download_attachment_file, _download_resolved_video, submission_dir).
OwnFiles ==
    \A r \in Rows(atts) :
        atts[r].path # NoPath /\ ~atts[r].stray =>
            /\ atts[r].path \in DOMAIN disk
            /\ disk[atts[r].path].of = atts[r].file \/ disk[atts[r].path].stray

\* The metadata and the Bluesky uri stored with a link come from its url, so that an edit
\* or a reply that changes the url leaves no stale uri to repost; unless a gather that had
\* begun with the old url wrote last (_persist_ingest_outcome).
LinkAgrees ==
    \A l \in Rows(links) :
        ~links[l].stray => {links[l].meta, links[l].uri} \subseteq {None, links[l].url}

\* A submission never has two videos of links, though a reply may attach one while a
\* gather that knew of none downloads its own (_attach_resolved_video).
OneVideo ==
    \A s \in Live : Cardinality({r \in Of(atts, s) : atts[r].file \in Url}) <= 1

\* A description given in the thread stays with its file through every /reingest, which
\* deletes the row and makes another, once the /reingest is over; unless the bot stops in
\* the middle of it, or a /reingest finds the file in the message no more
\* (reingest_submission's preserved_alt).
AltKept ==
    \A r \in Rows(atts) :
        /\ <<atts[r].sub, atts[r].file>> \in answered
        /\ \A t \in Task : task[t].sub = atts[r].sub => atts[r].file \notin task[t].keep
        => atts[r].alt
=============================================================================
