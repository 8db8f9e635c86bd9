-------------------------- MODULE MCFrontRegistry --------------------------
(***************************************************************************)
(* An instance of FrontRegistry for TLC.                                   *)
(***************************************************************************)
EXTENDS FrontRegistry, TLC

CONSTANTS a1, a2, p1, p2, n1

\* Two fronts of one channel; the second sees a peer that joined later.
OneName    == [a \in Addrs |-> n1]
GrownPeers == [a \in Addrs |-> IF a = a1 THEN {p1} ELSE {p1, p2}]

Symmetric == Permutations(Requests)

=============================================================================
