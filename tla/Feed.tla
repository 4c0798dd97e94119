------------------------------- MODULE Feed -------------------------------
(***************************************************************************)
(* What the boards' Bluesky followers are promised: an append-only feed in *)
(* which no link is posted again as long as the bot still accounts for the *)
(* post that carried it, and in which every reply hangs in the thread of   *)
(* the post it replies to.  Publishing is shown to implement this module.  *)
(***************************************************************************)
EXTENDS Naturals, Sequences

CONSTANTS NotAThread   \* messages whose record is a repost, not a post

VARIABLES posts,       \* [msg, urls, parent, root] records; the index is the URI
          forgotten    \* URIs of posts the bot no longer accounts for

feed == <<posts, forgotten>>

Kept == DOMAIN posts \ forgotten

Init == posts = <<>> /\ forgotten = {}

(* A post without a parent starts a thread; a reply stays in its parent's. *)
WellThreaded(p, uri) ==
    \/ p.parent = 0 /\ p.root = uri
    \/ /\ p.parent \in 1 .. uri - 1
       /\ posts[p.parent].msg \notin NotAThread => p.root = posts[p.parent].root

(* One more post, of links that no kept post carries.  The bot may lose track
   of it in the same instant. *)
Announce ==
    LET uri == Len(posts) + 1
        p   == posts'[uri]
    IN  /\ Len(posts') = uri
        /\ posts' = Append(posts, p)
        /\ \A q \in Kept : posts[q].urls \cap p.urls = {}
        /\ WellThreaded(p, uri)
        /\ forgotten' \in {forgotten, forgotten \cup {uri}}

Forget ==
    /\ posts' = posts
    /\ forgotten \subseteq forgotten' /\ forgotten' \subseteq DOMAIN posts

Next == Announce \/ Forget

Spec == Init /\ [][Next]_feed
============================================================================
