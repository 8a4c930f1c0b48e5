----------------------------- MODULE RowKeeper -----------------------------
(***************************************************************************)
(* What retention promises of the samples in server_metrics, whoever reads *)
(* archives or deletes them and whenever a process dies: a sample leaves   *)
(* the table only when a published archive holds it or when its server is  *)
(* deleted, and what an archive holds stays there.                         *)
(***************************************************************************)
CONSTANTS Server, Time

VARIABLES
    live,    \* the samples in the table
    kept     \* the samples in the published archives

vars == <<live, kept>>

Sample == Server \X Time

Init == live = {} /\ kept = {}

Store(K) == K # {} /\ live' = live \cup K /\ UNCHANGED kept

Keep(K) == kept' = kept \cup K /\ UNCHANGED live

Drop(K) == K \subseteq kept /\ live' = live \ K /\ UNCHANGED kept

\* Deleting a server takes its samples along.
Forget(s) == live' = {k \in live : k[1] # s} /\ UNCHANGED kept

Next ==
    \/ \E K \in SUBSET Sample : Store(K) \/ Keep(K) \/ Drop(K)
    \/ \E s \in Server : Forget(s)

Spec == Init /\ [][Next]_vars
=============================================================================
