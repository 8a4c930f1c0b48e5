---------------------------- MODULE MCPollStore ----------------------------
EXTENDS PollStore
CONSTANTS p1, p2, g1, k1, k2, k3, k4
TwoPasses == {p1, p2}
OneGpu    == {g1}
KLines    == {k1, k2, k3, k4}
\* An Xid, a disk error, and an incident that takes two lines.
OomLines  == {k2, k3}
Victims   == {k3}
\* A server whose GPU comes and goes, one whose kernel logs more events than
\* one sample takes, and one whose incident takes two lines.
Talkative == {k1, k3, k4}
Machines  == {{g1}, Talkative, {k2, k3}}
Copies    == {1, 2}
Channels  == {"critical"}

\* Bound: on the second of them nothing fails.
MCNext == Next /\ (hardware = Talkative => faults' = 0)

MCSpec == Init /\ [][MCNext]_vars /\ Fairness
=============================================================================
