------------------------------ MODULE Posting -------------------------------
(***************************************************************************)
(* How one submission is posted (publish/__init__.py): the bot logs in,    *)
(* uploads files and creates a chain of posts, one request at a time.  Any *)
(* request may fail, or succeed with its answer lost, and the bot may stop *)
(* between any two.  The first post decides: a failure before it makes the *)
(* attempt a failure, which is routed by its kind and tried again at a     *)
(* later slot; a failure after it only costs parts of the thread.          *)
(*                                                                         *)
(* Publishing has this conversation as one step; here are its steps, for   *)
(* one submission whose content does not change meanwhile.  Its board has  *)
(* a handle and a password: beat 1 blocks a submission without them, and   *)
(* the scheduler passes over a board without a handle, so that the test    *)
(* for one in publish_submission never fails.  Thumbnails of link cards    *)
(* and likes are left out: nothing depends on their outcome.               *)
(***************************************************************************)
EXTENDS Naturals, Sequences, SequencesExt, FiniteSets

CONSTANTS Content,       \* the submissions to post
          File,          \* attached images and videos
          Link,          \* links
          None,          \* no link
          GallerySize,   \* images in a reply to a video (4 in the code)
          LoginAttempts, \* _LOGIN_ATTEMPTS (3 in the code)
          MaxFaults      \* bound: requests that fail, answers lost, stops

\* What beat 1 hands over.  repost: the first link is a Bluesky post.  On disk, a file
\* is "there" to be sent, was never stored ("none"), or is "bad": its path is known, but
\* nothing is there, or too much: an image over the limit that Pillow cannot open or
\* save smaller, a video over the limit.
Submission ==
    [images : Seq(File), videos : Seq(File), links : Seq(Link), repost : BOOLEAN,
     disk : [File -> {"there", "none", "bad"}]]

ASSUME PostingAssumption ==
    /\ Content \subseteq Submission
    /\ \A s \in Content : s.repost => s.links # <<>>
    /\ \A s \in Content : IsInjective(s.images \o s.videos)   \* they are rows
    /\ None \notin File \cup Link /\ File \cap Link = {}
    /\ {GallerySize, LoginAttempts} \subseteq Nat \ {0}
    /\ MaxFaults \in Nat

VARIABLES
    sub,     \* the submission
    state,   \* its state
    pc,      \* "idle" between two attempts, "login", "post"
    logins,  \* log-ins of this attempt that failed
    todo,    \* the parts to post, the first of which is being posted
    pending, \* its files still to upload
    blobs,   \* its files uploaded
    kinds,   \* the kinds of its failed uploads
    root,    \* the attempt's first post, 0 before it
    last,    \* the post the next part replies to
    posts,   \* what Bluesky has created for this submission, in order
    \* observations
    mishap,  \* something of this attempt failed
    cut,     \* the first posts whose attempt was stopped before it was recorded
    faults

part == <<todo, pending, blobs, kinds>>
conv == <<pc, logins, part, root, last>>
vars == <<sub, state, conv, posts, mishap, cut, faults>>

FailureKind == {"upstream", "local", "unknown"}
Eligible    == {"queued", "publish_failed"}

-----------------------------------------------------------------------------
(* The parts of a submission, in the order they are posted.                *)

DetermineKind(s) ==
    IF s.repost THEN "record"
    ELSE IF s.videos # <<>> THEN "video"
    ELSE IF s.images # <<>> THEN "images"
    ELSE IF s.links # <<>> THEN "external" ELSE "empty"

Part(type, media, link) == [type |-> type, media |-> media, link |-> link]

\* The link in the text of a post with media.
Primary(s) == IF s.links = <<>> THEN None ELSE Head(s.links)
Rest(seq)  == IF seq = <<>> THEN <<>> ELSE Tail(seq)

Videos(s)  == [i \in DOMAIN s.videos |-> Part("video", <<s.videos[i]>>, Primary(s))]
Gallery(s) ==
    IF s.images = <<>> THEN <<>>
    ELSE <<Part("gallery",
                SubSeq(s.images, 1, Min({GallerySize, Len(s.images)})), Primary(s))>>
Replies(s) == [i \in DOMAIN Rest(s.links) |-> Part("reply", <<>>, Rest(s.links)[i])]

\* Mutant: images only where there is no video.
PartsOneMedia(s) ==
    CASE DetermineKind(s) = "record"   -> <<Part("record", <<>>, Primary(s))>>
      [] DetermineKind(s) = "video"    -> Videos(s) \o Replies(s)
      [] DetermineKind(s) = "images"   -> <<Part("images", s.images, Primary(s))>> \o Replies(s)
      [] DetermineKind(s) = "external" -> <<Part("card", <<>>, Primary(s))>> \o Replies(s)
      [] OTHER                         -> <<>>

Parts(s) ==
    CASE DetermineKind(s) = "record"   -> <<Part("record", <<>>, Primary(s))>>
      [] DetermineKind(s) = "video"    -> Videos(s) \o Gallery(s) \o Replies(s)
      [] DetermineKind(s) = "images"   -> <<Part("images", s.images, Primary(s))>> \o Replies(s)
      [] DetermineKind(s) = "external" -> <<Part("card", <<>>, Primary(s))>> \o Replies(s)
      [] OTHER                         -> <<>>

\* The loops over videos and over links break at the first failure.
AfterFailure ==
    LET rest == {i \in DOMAIN todo : todo[i].type # Head(todo).type} IN
    IF rest = {} THEN <<>> ELSE SubSeq(todo, Min(rest), Len(todo))

WorstKind(ks) ==
    IF Contains(ks, "upstream") THEN "upstream"
    ELSE IF Contains(ks, "unknown") THEN "unknown" ELSE Last(ks)

\* How a file that cannot be sent fails, at every attempt: an OSError of an image is not
\* told from an unknown failure, what is wrong with a video is looked for first.
\* Mutant: a file that was never stored counts as a failure of the network.
UnreadableAsOutage(f) == IF sub.disk[f] = "bad" THEN "unknown" ELSE "upstream"

Unreadable(f) ==
    IF sub.disk[f] = "none" \/ Contains(sub.videos, f) THEN "local" ELSE "unknown"

-----------------------------------------------------------------------------
(* An attempt.                                                             *)

Fault == faults < MaxFaults /\ faults' = faults + 1

Init ==
    /\ sub \in Content
    /\ state = "queued" /\ pc = "idle" /\ logins = 0
    /\ todo = <<>> /\ pending = <<>> /\ blobs = <<>> /\ kinds = <<>>
    /\ root = 0 /\ last = 0 /\ posts = <<>>
    /\ mishap = FALSE /\ cut = {} /\ faults = 0

\* The scheduler's slot comes.
Start ==
    /\ pc = "idle" /\ state \in Eligible
    /\ pc' = "login" /\ logins' = 0 /\ root' = 0 /\ last' = 0 /\ mishap' = FALSE
    /\ UNCHANGED <<sub, state, part, posts, cut, faults>>

\* The attempt fails, and its kind routes the submission.
Fail(kind) ==
    /\ state' = IF kind = "local" THEN "publish_blocked" ELSE "publish_failed"
    /\ pc' = "idle" /\ mishap' = TRUE
    /\ todo' = <<>> /\ pending' = <<>> /\ blobs' = <<>> /\ kinds' = <<>>

LoginFails(kind) ==
    /\ pc = "login" /\ Fault
    /\ logins' = logins + 1
    /\ IF logins + 1 = LoginAttempts THEN Fail(kind)
       ELSE UNCHANGED <<state, pc, part, mishap>>
    /\ UNCHANGED <<sub, root, last, posts, cut>>

\* Mutant: the thread is never finished.
ContinueAtEnd(parts) ==
    /\ todo' = parts /\ blobs' = <<>> /\ kinds' = <<>>
    /\ pending' = IF parts = <<>> THEN <<>> ELSE Head(parts).media
    /\ pc' = "post"
    /\ state' = IF parts = <<>> THEN "published" ELSE state

\* On to the next part; after the last one the attempt has succeeded.
Continue(parts) ==
    /\ todo' = parts /\ blobs' = <<>> /\ kinds' = <<>>
    /\ pending' = IF parts = <<>> THEN <<>> ELSE Head(parts).media
    /\ pc' = IF parts = <<>> THEN "idle" ELSE "post"
    /\ state' = IF parts = <<>> THEN "published" ELSE state

Login ==
    /\ pc = "login"
    /\ IF DetermineKind(sub) = "empty" THEN Fail("unknown")
       ELSE Continue(Parts(sub)) /\ UNCHANGED mishap
    /\ UNCHANGED <<sub, logins, root, last, posts, cut, faults>>

\* Mutant: an exception of any part is one of the attempt.
FailPartAlways(kind) == Fail(kind)

\* A part fails: before the first post the attempt, after it this part only.
FailPart(kind) ==
    IF root = 0 THEN Fail(kind) ELSE Continue(AfterFailure) /\ mishap' = TRUE

\* One file of the part.
Upload ==
    /\ pc = "post" /\ pending # <<>> /\ sub.disk[Head(pending)] = "there"
    /\ pending' = Tail(pending) /\ blobs' = Append(blobs, Head(pending))
    /\ UNCHANGED <<sub, state, pc, logins, todo, kinds, root, last, posts,
                   mishap, cut, faults>>

UploadFails(kind) ==
    /\ pc = "post" /\ pending # <<>>
    /\ IF sub.disk[Head(pending)] = "there" THEN Fault
       ELSE kind = Unreadable(Head(pending)) /\ UNCHANGED faults
    /\ pending' = Tail(pending) /\ kinds' = Append(kinds, kind) /\ mishap' = TRUE
    /\ UNCHANGED <<sub, state, pc, logins, todo, blobs, root, last, posts, cut>>

\* A part with media of which nothing could be uploaded is not posted.
NoMedia == Head(todo).media # <<>> /\ blobs = <<>>

GiveUpPart ==
    /\ pc = "post" /\ pending = <<>> /\ NoMedia
    /\ FailPart(WorstKind(kinds))
    /\ UNCHANGED <<sub, logins, root, last, posts, cut, faults>>

NewPost(answered) ==
    [type |-> Head(todo).type, media |-> ToSet(blobs), link |-> Head(todo).link,
     parent |-> last, first |-> IF root = 0 THEN Len(posts) + 1 ELSE root,
     answered |-> answered]

\* Mutant: what follows the images replies to the post before them.
CreatePostGalleryAside ==
    /\ pc = "post" /\ pending = <<>> /\ ~NoMedia
    /\ posts' = Append(posts, NewPost(TRUE))
    /\ root' = NewPost(TRUE).first
    /\ last' = IF Head(todo).type = "gallery" THEN last ELSE Len(posts')
    /\ Continue(Tail(todo))
    /\ UNCHANGED <<sub, logins, mishap, cut, faults>>

CreatePost ==
    /\ pc = "post" /\ pending = <<>> /\ ~NoMedia
    /\ posts' = Append(posts, NewPost(TRUE))
    /\ root' = NewPost(TRUE).first /\ last' = Len(posts')
    /\ Continue(Tail(todo))
    /\ UNCHANGED <<sub, logins, mishap, cut, faults>>

\* Refused; for a repost, the original may not be found either.
CreateFails(kind) ==
    /\ pc = "post" /\ pending = <<>> /\ ~NoMedia /\ Fault
    /\ FailPart(kind)
    /\ UNCHANGED <<sub, logins, root, last, posts, cut>>

\* Created, and the request times out all the same.
CreateLost ==
    /\ pc = "post" /\ pending = <<>> /\ ~NoMedia /\ Fault
    /\ posts' = Append(posts, NewPost(FALSE))
    /\ FailPart("upstream")
    /\ UNCHANGED <<sub, logins, root, last, cut>>

\* The process stops; after the restart the submission is where it was.
Stop ==
    /\ pc # "idle" /\ Fault
    /\ pc' = "idle" /\ cut' = (cut \cup {root}) \ {0}
    /\ todo' = <<>> /\ pending' = <<>> /\ blobs' = <<>> /\ kinds' = <<>>
    /\ UNCHANGED <<sub, state, logins, root, last, posts, mishap>>

Requests ==
    \/ Login \/ Upload \/ GiveUpPart \/ CreatePost \/ CreateLost
    \/ \E k \in FailureKind : LoginFails(k) \/ UploadFails(k) \/ CreateFails(k)

Next == Start \/ Requests \/ Stop

Spec == Init /\ [][Next]_vars

\* Slots keep coming, every request ends (the client times out), and an attempt
\* whose requests end does.
FairSpec == Spec /\ WF_vars(Start) /\ WF_vars(Requests)

-----------------------------------------------------------------------------
(* Properties.                                                             *)

\* The types; between two attempts nothing is under way, in one there is a part.
TypeOK ==
    /\ sub \in Submission
    /\ state \in Eligible \cup {"published", "publish_blocked"}
    /\ pc \in {"idle", "login", "post"} /\ logins \in 0 .. LoginAttempts
    /\ pc = "post" <=> todo # <<>>
    /\ ToSet(pending) \cup ToSet(blobs) \subseteq File /\ ToSet(kinds) \subseteq FailureKind
    /\ {root, last} \subseteq 0 .. Len(posts) /\ cut \subseteq DOMAIN posts
    /\ faults \in 0 .. MaxFaults

\* The posts the bot knows of: answered, and of an attempt that was not stopped.
Known   == {i \in DOMAIN posts : posts[i].answered /\ posts[i].first \notin cut}
Shown(i) == posts[i].media \cup (IF posts[i].type \in {"card", "reply", "record"}
                                 THEN {posts[i].link} ELSE {})

\* Nothing is posted twice, however often and wherever attempts fail, unless an
\* answer was lost or the bot stopped: once something is posted, publish_submission
\* reports a success whatever happens to the rest.  A link that the thread was given
\* twice is posted twice, as nobody compares it with the others (handlers.py:1350).
PostedOnce ==
    IsInjective(sub.links) => \A i, j \in Known : i # j => Shown(i) \cap Shown(j) = {}

\* The parts of an attempt form one chain under its first post, each a reply to the
\* part posted before it, also across parts that failed.
Chained ==
    \A i \in Known :
        posts[i].parent =
            Max({0} \cup {j \in Known : j < i /\ posts[j].first = posts[i].first})

\* An attempt without a mishap has posted everything: all files and links, but for
\* the images beyond the first four after a video, and all but the repost itself.
Everything(s) ==
    IF s.repost THEN {Primary(s)}
    ELSE ToSet(s.videos) \cup ToSet(Rest(s.links))
         \cup {s.images[i] : i \in {n \in DOMAIN s.images : s.videos = <<>> \/ n <= GallerySize}}
         \cup IF s.images \o s.videos = <<>> THEN {Primary(s)} ELSE {}

Complete ==
    state = "published" /\ ~mishap =>
        Everything(sub) = UNION {Shown(i) : i \in {n \in Known : posts[n].first = root}}

\* What every attempt fails at in a way that is retried: an empty submission, and images
\* none of which can be sent, one at least for being missing or too large to be encoded.
Endless ==
    \/ DetermineKind(sub) = "empty"
    \/ /\ DetermineKind(sub) = "images"
       /\ \A f \in ToSet(sub.images) : sub.disk[f] # "there"
       /\ \E f \in ToSet(sub.images) : sub.disk[f] = "bad"

\* Any other submission is published, or blocked for a human, once faults end: what
\* fails for good fails as our side's (a 4xx answer, a ValueError, a video that cannot be
\* sent).
Settles == ~Endless => <>[](state \in {"published", "publish_blocked"})
=============================================================================
