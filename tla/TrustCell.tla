----------------------------- MODULE TrustCell -----------------------------
(***************************************************************************)
(* What recorded host keys promise: an identity without a key is given one *)
(* by a contact, and from then on the key is replaced or taken away only   *)
(* by an order of an administrator that is still being carried out.        *)
(***************************************************************************)
CONSTANTS Ident, Pin, None

VARIABLES
    pin,      \* the key recorded for an identity
    orders    \* <<identity, its new key, or None to forget the old one>>

vars == <<pin, orders>>

Order == Ident \X (Pin \cup {None})

Init == pin \in [Ident -> Pin \cup {None}] /\ orders = {}

\* Administrators give orders, and orders fail.
Command == orders' \in SUBSET Order /\ UNCHANGED pin

FirstUse(i, p) ==
    /\ pin[i] = None
    /\ pin' = [pin EXCEPT ![i] = p]
    /\ UNCHANGED orders

\* The same order may have been given twice.
Obey(o) ==
    /\ o \in orders
    /\ pin' = [pin EXCEPT ![o[1]] = o[2]]
    /\ orders' \in {orders, orders \ {o}}

Next ==
    \/ Command
    \/ \E i \in Ident, p \in Pin : FirstUse(i, p)
    \/ \E o \in Order : Obey(o)

Spec == Init /\ [][Next]_vars
=============================================================================
