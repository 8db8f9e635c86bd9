----------------------------- MODULE TransLife -----------------------------
(***************************************************************************)
(* What pull, statistics and deletion together promise about the numbers   *)
(* of each channel's transactions: a number is given out once, in          *)
(* ascending order; it is counted at most once, while its row is stored;   *)
(* its row goes after it was counted or dropped by a run that was cut      *)
(* short, before any younger row, and never while it is among the newest   *)
(* Retain numbers.                                                         *)
(***************************************************************************)
EXTENDS Naturals

CONSTANTS Channels, Retain

VARIABLES
  issued,    \* the next number of each channel
  stored,    \* the numbers whose row is in the table
  counted,   \* the numbers that were counted
  dropped    \* the numbers some run left uncounted when it was cut short

Init ==
  /\ issued = [c \in Channels |-> 1]
  /\ stored = [c \in Channels |-> {}]
  /\ counted = [c \in Channels |-> {}]
  /\ dropped = [c \in Channels |-> {}]

\* A number is given out, for a new row or for one that was there already.
Issue(c) ==
  /\ issued' = [issued EXCEPT ![c] = @ + 1]
  /\ stored' \in { stored, [stored EXCEPT ![c] = @ \union {issued[c]}] }
  /\ UNCHANGED <<counted, dropped>>

Uncounted(c) == stored[c] \ counted[c]

Count(c, S) ==
  /\ S # {}
  /\ S \subseteq Uncounted(c)
  /\ counted' = [counted EXCEPT ![c] = @ \union S]
  /\ UNCHANGED <<issued, stored, dropped>>

Drop(c, S) ==
  /\ S \subseteq Uncounted(c)
  /\ dropped' = [dropped EXCEPT ![c] = @ \union S]
  /\ UNCHANGED <<issued, stored, counted>>

Forget(c, S) ==
  /\ S \subseteq counted[c] \union dropped[c]
  /\ \A n \in S : \E m \in stored[c] : n + Retain <= m
  /\ \A n \in S : \A m \in stored[c] \ S : n < m
  /\ stored' = [stored EXCEPT ![c] = @ \ S]
  /\ UNCHANGED <<issued, counted, dropped>>

Next ==
  \E c \in Channels :
    \/ Issue(c)
    \/ \E S \in SUBSET stored[c] : Count(c, S) \/ Drop(c, S) \/ Forget(c, S)

Spec == Init /\ [][Next]_<<issued, stored, counted, dropped>>

=============================================================================
