---------------------------- MODULE MCIdleState ----------------------------
(***************************************************************************)
(* Instances of IdleState for TLC: GPUs are pairs of a server and a number.*)
(***************************************************************************)
EXTENDS IdleState

CONSTANTS s1, s2

OneServer   == {s1}
TwoServers  == {s1, s2}
TwoGpus     == {<<s1, 1>>, <<s1, 2>>}
OneGpuEach  == {<<s1, 1>>, <<s2, 1>>}
HostOf(g)   == g[1]
=============================================================================
