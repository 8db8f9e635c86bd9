---------------------------- MODULE MCChainCode ----------------------------
(***************************************************************************)
(* An instance of ChainCode for TLC.                                       *)
(***************************************************************************)
EXTENDS ChainCode

CONSTANTS c1, c2, k1, k2

\* Two names.
TwoKeys == [c \in Codes |-> IF c = c1 THEN k1 ELSE k2]

\* One chain code has been saved.
OneSaved == <<c1>>

=============================================================================
