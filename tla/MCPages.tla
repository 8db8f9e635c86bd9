------------------------------ MODULE MCPages ------------------------------
(***************************************************************************)
(* An instance of Pages for TLC.                                           *)
(***************************************************************************)
EXTENDS Pages

CONSTANTS f1, c1, config, a, b, c, d

Tx(id, day) == [tx |-> TRUE, id |-> id, day |-> day]

OneFront == [f \in {f1} |-> c1]

\* A transaction of the second block occurs again in the third, where the
\* ignored insert consumes a number.
FourBlocks ==
  [ch \in {c1} |-> << <<[tx |-> FALSE, id |-> config, day |-> 1]>>,
                      <<Tx(a, 1), Tx(b, 1)>>, <<Tx(b, 1), Tx(c, 2)>>, <<Tx(d, 2)>> >>]

=============================================================================
