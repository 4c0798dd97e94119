--------------------------- MODULE MCPublishing ---------------------------
(***************************************************************************)
(* Instances of Publishing for TLC.  The constants that are functions are  *)
(* given here; each cfg names the ones it uses.                            *)
(***************************************************************************)
EXTENDS Publishing, TLC

CONSTANTS m1, m2, m3, m4, b1, b2, u1, u2, u3

Dates == (m1 :> 1) @@ (m2 :> 2) @@ (m3 :> 3) @@ (m4 :> 4)
DatesOf    == [m \in Message |-> Dates[m]]
OneBoard   == [m \in Message |-> b1]
NoReplies  == [m \in Message |-> None]

\* Two messages that share a link.
SharedLinks == [m \in Message |-> IF m = m1 THEN {u1} ELSE {u1, u2}]

\* A chain of replies: m3 to m2, m2 to m1, each with a link of its own.
OwnLinks   == [m \in Message |-> CASE m = m1 -> {u1} [] m = m2 -> {u2} [] OTHER -> {u3}]
ReplyChain == [m \in Message |-> CASE m = m3 -> m2 [] m = m2 -> m1 [] OTHER -> None]

\* m2 replies to m1, which may never be queued; m3 comes after both.
HeldReply  == [m \in Message |-> IF m = m2 THEN m1 ELSE None]

\* m4 alone on a second board, the others on the first; no links.
LastApart  == [m \in Message |-> IF m = m4 THEN b2 ELSE b1]
NoLinks    == [m \in Message |-> {}]
=============================================================================
