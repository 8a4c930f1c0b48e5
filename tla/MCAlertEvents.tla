--------------------------- MODULE MCAlertEvents ---------------------------
(***************************************************************************)
(* Instances of AlertEvents for TLC.  No action relates two keys except    *)
(* through the order a worker takes them in, and the TTL, which closes old *)
(* events of every server.  Each behaviour therefore has samples for one   *)
(* key only, chosen at the start; the rule is changed when it is the one   *)
(* watched.  The other keys stay unclear, so no worker ever has work to do *)
(* for them and fairness towards the watched key is all there is.          *)
(***************************************************************************)
EXTENDS AlertEvents

CONSTANTS s1, s2, p1, p2, f, h, k, b, r

VARIABLE focus

OneServer  == {s1}
TwoServers == {s1, s2}
NoPoller   == {}
OnePoller  == {p1}
TwoPollers == {p1, p2}
None       == {}
OneFault   == {f}
OneSsh     == {h}
OnePoint   == {k}
OneBmc     == {b}
OneRule    == {r}
OneCopy    == {1}
ThreeCopies == 1..3

FocusInit == Init /\ focus \in Key

FocusNext ==
    /\ Next
    /\ \A j \in Key \ {focus} : reading'[j] = reading[j]
    /\ focus[2] \notin Rule => UNCHANGED rule
    /\ UNCHANGED focus

FocusSpec == FocusInit /\ [][FocusNext]_<<vars, focus>>

FairFocusSpec ==
    /\ FocusSpec
    /\ PassFairness
    /\ SF_vars(\E w \in Worker : Look(w, focus))
    /\ SF_vars(\E w \in Worker : Commit(w, focus))
=============================================================================
