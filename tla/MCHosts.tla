------------------------------ MODULE MCHosts ------------------------------
EXTENDS Hosts, TLC
CONSTANTS s1, a1, a2, k1, k2, t1, t2
OneServer  == {s1}
TwoAddrs   == {a1, a2}
OneTarget  == {a1}
TwoKeys    == {k1, k2}
TwoTasks   == {t1, t2}
\* a1 is a target, a name that was resolved to a2, and a2 is not.
Resolved   == [a \in {a1, a2} |-> a2]
Same       == Permutations(TwoKeys) \cup Permutations(Task)
=============================================================================
