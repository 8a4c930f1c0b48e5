---------------------------- MODULE MCPollCycle ----------------------------
(***************************************************************************)
(* Instances of PollCycle for TLC.  PollTiers: one machine in two tiers,   *)
(* whose poll and slow collection meet in a cycle and overlap with those   *)
(* of the next.  JoinCeiling: two machines that both hang.  In both, one   *)
(* manual refresh races the scheduler, and two slots let a thread whose    *)
(* join timed out live beside its successor.                               *)
(***************************************************************************)
EXTENDS PollCycle

CONSTANTS s1, s2, m1

OneServer  == {s1}
TwoServers == {s1, s2}
SlowTier   == {"slow"}
NoTier     == {}
OneRefresh == {m1}
TwoSlots   == 1..2
=============================================================================
