----------------------------- MODULE MCAccount -----------------------------
(***************************************************************************)
(* An instance of Account for TLC.                                         *)
(***************************************************************************)
EXTENDS Account, TLC

CONSTANTS admin, user, p1, p2, role1, unknown

\* The account of webase-dml.sql and one that was added, both logged in.
TwoAccounts == [a \in Accounts |->
  [pwd |-> p1, role |-> role1, status |-> UNMODIFIEDPWD]]

BothIn == <<admin, user>>

Symmetric == Permutations(Requests)

=============================================================================
