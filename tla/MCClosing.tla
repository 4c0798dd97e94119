----------------------------- MODULE MCClosing ------------------------------
(***************************************************************************)
(* Instances of Closing for TLC.                                           *)
(***************************************************************************)
EXTENDS Closing, TLC

\* Every message links to the same videos.
Shared == [m \in Message |-> Video]

Messages == Permutations(Message)
=============================================================================
