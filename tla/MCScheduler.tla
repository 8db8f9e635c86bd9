---------------------------- MODULE MCScheduler ----------------------------
(***************************************************************************)
(* Instances of Scheduler for TLC.                                         *)
(***************************************************************************)
EXTENDS Scheduler

CONSTANTS f1, f2, c1, c2, config, a, b, c, d

Tx(id, day) == [tx |-> TRUE, id |-> id, day |-> day]
Config      == [tx |-> FALSE, id |-> config, day |-> 1]
Genesis     == <<Config>>

\* One channel; two of its fronts, or one.
OneChannel == [f \in {f1, f2} |-> c1]
OneFront   == [f \in {f1} |-> c1]
\* Two channels with a front each.
TwoChannels == [f \in {f1, f2} |-> IF f = f1 THEN c1 ELSE c2]

\* Client timestamps that follow the chain, with a transaction id that occurs
\* in two blocks, and a block that mixes an id already stored with a new one.
OrderedDays ==
  [ch \in {c1} |-> << Genesis, <<Tx(a, 1), Config, Tx(b, 1)>>,
                      <<Tx(a, 1), Tx(c, 2)>>, <<Tx(d, 2)>> >>]

\* Clients' timestamps on both sides of midnight in one block, and a later
\* block with an earlier day; a second channel without
\* transactions.
MixedDays ==
  [ch \in {c1, c2} |->
     IF ch = c1 THEN << Genesis, <<Tx(a, 2), Tx(b, 1)>>, <<Tx(c, 1)>>, <<Tx(d, 2)>> >>
                ELSE << Genesis >>]

ShortChain ==
  [ch \in {c1} |-> << Genesis, <<Tx(a, 1)>>, <<Tx(b, 2)>> >>]

=============================================================================
