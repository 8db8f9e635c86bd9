---------------------------- MODULE ChainMirror ----------------------------
(***************************************************************************)
(* What the pull and delete tasks together promise a reader of the block   *)
(* tables: each table mirrors a window of its channel's chain.  The window *)
(* moves up a block at a time, over blocks a front has published, and lets *)
(* go of its oldest blocks only, never of the newest Retain.               *)
(***************************************************************************)
EXTENDS Integers

CONSTANTS Fronts, Channels, ChannelOf, Retain

VARIABLES
  height,   \* number of blocks each front has published
  mirror    \* the block numbers held of each channel

Published(c) == UNION { 0..(height[f] - 1) : f \in { g \in Fronts : ChannelOf[g] = c } }

Init ==
  /\ height \in [Fronts -> {1}]
  /\ mirror = [c \in Channels |-> {}]

Publish(f) ==
  /\ height' = [height EXCEPT ![f] = @ + 1]
  /\ UNCHANGED mirror

\* The window opens at any published block, then grows by its successor.
Record(c, n) ==
  /\ n \in Published(c)
  /\ mirror[c] = {} \/ (n - 1 \in mirror[c] /\ \A m \in mirror[c] : m < n)
  /\ mirror' = [mirror EXCEPT ![c] = @ \union {n}]
  /\ UNCHANGED height

\* Everything below `low` goes; the Retain blocks from `low` on are held.
Forget(c, low) ==
  /\ low..(low + Retain - 1) \subseteq mirror[c]
  /\ mirror' = [mirror EXCEPT ![c] = { n \in @ : n >= low }]
  /\ UNCHANGED height

Next ==
  \/ \E f \in Fronts : Publish(f)
  \/ \E c \in Channels : \/ \E n \in Published(c) : Record(c, n)
                         \/ \E low \in mirror[c] : Forget(c, low)

Spec == Init /\ [][Next]_<<height, mirror>>

=============================================================================
