---------------------------- MODULE SshSessions ----------------------------
(***************************************************************************)
(* What the scheduler promises about the machines it watches: at any       *)
(* moment at most one collection thread talks to a server on behalf of a   *)
(* tier.  scheduler.py states it beside _server_busy: "one in-flight poll  *)
(* per server; overlapping cycles must not stack SSH storms".              *)
(***************************************************************************)

CONSTANTS
    Thread,        \* the collection threads
    Job(_)         \* the (server, tier) a thread collects

VARIABLE sessions  \* the threads that hold an SSH session

Init == sessions = {}

\* A thread opens its session when nobody holds one for the same job.
Open(t) ==
    /\ t \in Thread \ sessions
    /\ \A u \in sessions : Job(u) # Job(t)
    /\ sessions' = sessions \cup {t}

Close(t) ==
    /\ t \in sessions
    /\ sessions' = sessions \ {t}

Next == \E t \in Thread : Open(t) \/ Close(t)

Spec == Init /\ [][Next]_sessions
=============================================================================
