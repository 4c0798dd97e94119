------------------------------ MODULE MCIntake ------------------------------
(***************************************************************************)
(* Instances of Intake for TLC.                                            *)
(***************************************************************************)
EXTENDS Intake, TLC

CONSTANTS m1, m2, h1, h2, u1, u2

\* Both messages have the same link.
SameLink == [m \in Message |-> {u1}]

\* The messages are alike: the same link, and no order among them.
Messages == Permutations(Message)
============================================================================
