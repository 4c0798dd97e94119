------------------------------ MODULE MCIngest ------------------------------
(***************************************************************************)
(* Instances of Ingest for TLC: a message with a file and a link to a      *)
(* Bluesky post with a video, one with a file; a reply with a link.        *)
(***************************************************************************)
EXTENDS Ingest, TLC

CONSTANTS m1, m2, f1, f2, f3, f4, sky, web, handlers, events

First  == (m1 :> [files |-> <<f1>>, urls |-> <<sky>>]) @@ (m2 :> [files |-> <<f2>>, urls |-> <<>>])
Second == (m1 :> [files |-> <<f1, f3>>, urls |-> <<web>>]) @@ (m2 :> [files |-> <<f2>>, urls |-> <<>>])

Bounds == ("handlers" :> handlers) @@ ("events" :> events)

Tasks == Permutations(Task)
=============================================================================
