----------------------------- MODULE PollCycle -----------------------------
(***************************************************************************)
(* The polling core of backend/app/scheduler.py.                           *)
(*                                                                         *)
(* Runners execute collection cycles: the scheduler thread                 *)
(* (_scheduler_loop) and the threads POST /api/metrics/refresh starts      *)
(* (trigger_poll).  A cycle loads the enabled servers, starts one thread   *)
(* per server and due tier (_poll_one, _slow_one, _inventory_one), joins   *)
(* each with a time-out of its own and evaluates the user alert rules.     *)
(* A thread whose join timed out lives on, so threads of several cycles    *)
(* overlap; _server_busy keeps them from talking to one machine at once.   *)
(*                                                                         *)
(* Abstracted: what a collection returns is reduced to whether the thread  *)
(* goes on to store it, the stored rows to what decides that a slow or     *)
(* inventory tier is due, and time to the moments a join expires or a      *)
(* tier's last row grows old.                                              *)
(***************************************************************************)
EXTENDS Naturals, FiniteSets

CONSTANTS
    Server,              \* the servers an administrator registers
    Periodic,            \* the tiers not run in every cycle: slow, inventory
    Manual,              \* threads started by manual refreshes
    Slot,                \* bound: live threads of one (server, tier)
    NoRunner,            \* nobody holds _cycle_lock
    CYCLE_JOIN_TIMEOUT   \* seconds one Thread.join may wait

Scheduler == "scheduler"
Poll      == "poll"

ASSUME NamesAssumption ==
    /\ Scheduler \notin Manual
    /\ Poll \notin Periodic
    /\ NoRunner \notin Manual \cup {Scheduler}

ASSUME TimeoutAssumption == CYCLE_JOIN_TIMEOUT \in Nat \ {0}

Runner == {Scheduler} \cup Manual
Tier   == {Poll} \cup Periodic
Thread == [server : Server, tier : Tier, slot : Slot]

\* The key of _server_busy a thread competes for.
Job(t) == <<t.server, t.tier>>

VARIABLES
    enabled,    \* Server rows with enabled = true
    due,        \* due[p]: no row of tier p is younger than its period
    busy,       \* _server_busy
    cycleLock,  \* the runner that holds _cycle_lock, or NoRunner
    pc,         \* where each runner is
    servers,    \* the servers a runner's cycle has loaded
    spawned,    \* the threads a runner's cycle has started
    waiting,    \* those it has still to join
    late,       \* those whose join timed out
    phase       \* what each thread is doing; "idle" when there is none

vars == <<enabled, due, busy, cycleLock, pc, servers, spawned, waiting, late,
          phase>>

cycleVars == <<cycleLock, pc, servers, spawned, waiting, late>>

InCycle == {"load", "spawn", "join", "eval"}
Phase   == {"idle", "new", "ssh", "store", "detect"}

TypeOK ==
    /\ enabled \in SUBSET Server
    /\ due \in [Periodic -> BOOLEAN]
    /\ busy \in SUBSET (Server \X Tier)
    /\ cycleLock \in Runner \cup {NoRunner}
    /\ pc \in [Runner -> {"rest", "try", "interval", "dead"} \cup InCycle]
    /\ servers \in [Runner -> SUBSET Server]
    /\ spawned \in [Runner -> SUBSET Thread]
    /\ waiting \in [Runner -> SUBSET Thread]
    /\ late \in [Runner -> SUBSET Thread]
    /\ phase \in [Thread -> Phase]

Init ==
    /\ enabled = Server
    /\ due = [p \in Periodic |-> TRUE]
    /\ busy = {}
    /\ cycleLock = NoRunner
    /\ pc = [r \in Runner |-> "rest"]
    /\ servers = [r \in Runner |-> {}]
    /\ spawned = [r \in Runner |-> {}]
    /\ waiting = [r \in Runner |-> {}]
    /\ late = [r \in Runner |-> {}]
    /\ phase = [t \in Thread |-> "idle"]

-----------------------------------------------------------------------------
(* The environment.                                                        *)

\* An administrator adds, enables, disables or deletes a server.
Toggle(s) ==
    /\ enabled' = IF s \in enabled THEN enabled \ {s} ELSE enabled \cup {s}
    /\ UNCHANGED <<due, busy, cycleVars, phase>>

\* SLOW_INTERVAL or INVENTORY_INTERVAL has passed since the tier's last row.
Ages(p) ==
    /\ ~due[p]
    /\ due' = [due EXCEPT ![p] = TRUE]
    /\ UNCHANGED <<enabled, busy, cycleVars, phase>>

-----------------------------------------------------------------------------
(* The runners.                                                            *)

\* _scheduler_loop comes round after _stop_event.wait(interval).
Wake ==
    /\ pc[Scheduler] = "rest"
    /\ pc' = [pc EXCEPT ![Scheduler] = "try"]
    /\ UNCHANGED <<enabled, due, busy, cycleLock, servers, spawned, waiting,
                   late, phase>>

\* Where a runner is when its cycle has ended or was skipped: the refresh
\* thread ends, the scheduler goes on to read its interval.
AfterCycle(r) == IF r = Scheduler THEN "interval" ELSE "rest"

\* _load_interval returns, and the scheduler waits.
LoadInterval ==
    /\ pc[Scheduler] = "interval"
    /\ pc' = [pc EXCEPT ![Scheduler] = "rest"]
    /\ UNCHANGED <<enabled, due, busy, cycleLock, servers, spawned, waiting,
                   late, phase>>

\* A database error in _load_interval.  The call is behind the try of
\* _scheduler_loop, so the exception ends the scheduler thread; _state still
\* says it is running, and nothing in the process starts another.
IntervalFails ==
    /\ pc[Scheduler] = "interval"
    /\ pc' = [pc EXCEPT ![Scheduler] = "dead"]
    /\ UNCHANGED <<enabled, due, busy, cycleLock, servers, spawned, waiting,
                   late, phase>>

\* trigger_poll looks at the lock and starts a thread that will try to take
\* it; when the lock is held the endpoint answers 409 and nothing changes.
TriggerPoll(m) ==
    /\ pc[m] = "rest"
    /\ cycleLock = NoRunner
    /\ pc' = [pc EXCEPT ![m] = "try"]
    /\ UNCHANGED <<enabled, due, busy, cycleLock, servers, spawned, waiting,
                   late, phase>>

\* Mutant: the lock is taken without looking whether it is free.
AcquireAnyway(r) ==
    /\ pc[r] = "try"
    /\ cycleLock' = r
    /\ pc' = [pc EXCEPT ![r] = "load"]
    /\ UNCHANGED <<enabled, due, busy, servers, spawned, waiting, late, phase>>

\* _run_cycle_guarded: _cycle_lock.acquire(blocking=False).
Acquire(r) ==
    /\ pc[r] = "try"
    /\ cycleLock = NoRunner
    /\ cycleLock' = r
    /\ pc' = [pc EXCEPT ![r] = "load"]
    /\ UNCHANGED <<enabled, due, busy, servers, spawned, waiting, late, phase>>

SkipCycle(r) ==
    /\ pc[r] = "try"
    /\ cycleLock # NoRunner
    /\ pc' = [pc EXCEPT ![r] = AfterCycle(r)]
    /\ UNCHANGED <<enabled, due, busy, cycleLock, servers, spawned, waiting,
                   late, phase>>

\* The finally clause of _run_cycle_guarded; the cycle's locals are gone.
EndCycle(r) ==
    /\ cycleLock' = NoRunner
    /\ pc' = [pc EXCEPT ![r] = AfterCycle(r)]
    /\ servers' = [servers EXCEPT ![r] = {}]
    /\ spawned' = [spawned EXCEPT ![r] = {}]
    /\ waiting' = [waiting EXCEPT ![r] = {}]
    /\ late' = [late EXCEPT ![r] = {}]

\* _load_servers, and the early return of a cycle without servers.
LoadServers(r) ==
    /\ pc[r] = "load"
    /\ \/ /\ enabled = {}
          /\ EndCycle(r)
       \/ /\ enabled # {}
          /\ servers' = [servers EXCEPT ![r] = enabled]
          /\ pc' = [pc EXCEPT ![r] = "spawn"]
          /\ UNCHANGED <<cycleLock, spawned, waiting, late>>
    /\ UNCHANGED <<enabled, due, busy, phase>>

\* A database error before the threads exist: the exception passes the
\* finally clause and ends the refresh thread, or is caught by the try of
\* _scheduler_loop, which goes on to the interval as after any cycle.
CycleFails(r) ==
    /\ pc[r] \in {"load", "spawn"}
    /\ EndCycle(r)
    /\ UNCHANGED <<enabled, due, busy, phase>>

\* What the cycle collects: every loaded server in the poll tier, and in
\* each tier that is due for the fleet as a whole.
Jobs(r) == servers[r] \X ({Poll} \cup {p \in Periodic : due[p]})

IdleThreads(j) == {t \in Thread : Job(t) = j /\ phase[t] = "idle"}

StartedFor(r) == {CHOOSE t \in IdleThreads(j) : TRUE : j \in Jobs(r)}

\* _run_cycle reads the age of both tiers and starts all the threads.
Spawn(r) ==
    /\ pc[r] = "spawn"
    /\ \A j \in Jobs(r) : IdleThreads(j) # {}
    /\ LET started == StartedFor(r) IN
       /\ phase' = [t \in Thread |-> IF t \in started THEN "new" ELSE phase[t]]
       /\ spawned' = [spawned EXCEPT ![r] = started]
       /\ waiting' = [waiting EXCEPT ![r] = started]
    /\ servers' = [servers EXCEPT ![r] = {}]
    /\ pc' = [pc EXCEPT ![r] = "join"]
    /\ UNCHANGED <<enabled, due, busy, cycleLock, late>>

\* Mutant: the first join that ends is taken for the last.
JoinedFirst(r, t) ==
    /\ waiting' = [waiting EXCEPT ![r] = @ \ {t}]
    /\ pc' = [pc EXCEPT ![r] = "eval"]
    /\ UNCHANGED <<enabled, due, busy, cycleLock, servers, spawned, phase>>

\* One iteration of "for t in threads: t.join(timeout=...)" ends.
Joined(r, t) ==
    /\ waiting' = [waiting EXCEPT ![r] = @ \ {t}]
    /\ pc' = [pc EXCEPT ![r] = IF waiting[r] = {t} THEN "eval" ELSE "join"]
    /\ UNCHANGED <<enabled, due, busy, cycleLock, servers, spawned, phase>>

JoinFinished(r, t) ==
    /\ pc[r] = "join" /\ t \in waiting[r]
    /\ phase[t] = "idle"
    /\ Joined(r, t)
    /\ UNCHANGED late

JoinTimesOut(r, t) ==
    /\ pc[r] = "join" /\ t \in waiting[r]
    /\ phase[t] # "idle"
    /\ Joined(r, t)
    /\ late' = [late EXCEPT ![r] = @ \cup {t}]

\* _eval_alerts, which catches its own exceptions, and the end of the cycle.
EvalAlerts(r) ==
    /\ pc[r] = "eval"
    /\ EndCycle(r)
    /\ UNCHANGED <<enabled, due, busy, phase>>

-----------------------------------------------------------------------------
(* The collection threads: _poll_one, _slow_one, _inventory_one.           *)

SetPhase(t, p) == phase' = [phase EXCEPT ![t] = p]

\* Mutant: _server_begin without the test for a collection in flight.
BeginAnyway(t) ==
    /\ phase[t] = "new"
    /\ busy' = busy \cup {Job(t)}
    /\ SetPhase(t, "ssh")
    /\ UNCHANGED <<enabled, due, cycleVars>>

\* _server_begin succeeds and the SSH phase starts.
Begin(t) ==
    /\ phase[t] = "new"
    /\ Job(t) \notin busy
    /\ busy' = busy \cup {Job(t)}
    /\ SetPhase(t, "ssh")
    /\ UNCHANGED <<enabled, due, cycleVars>>

\* _server_begin finds the key: an earlier collection is still in flight.
Skip(t) ==
    /\ phase[t] = "new"
    /\ Job(t) \in busy
    /\ SetPhase(t, "idle")
    /\ UNCHANGED <<enabled, due, busy, cycleVars>>

\* The collection returns and the finally clause calls _server_end.  A poll
\* goes on with ok and error results, the other tiers only with ok.
SshReturns(t) ==
    /\ phase[t] = "ssh"
    /\ busy' = busy \ {Job(t)}
    /\ SetPhase(t, "store")
    /\ UNCHANGED <<enabled, due, cycleVars>>

\* Mutant: the early return skips _server_end.
GivesUpHolding(t) ==
    /\ phase[t] = "ssh"
    /\ SetPhase(t, "idle")
    /\ UNCHANGED <<enabled, due, busy, cycleVars>>

\* The collection raises, or a slow or inventory result is not ok.
SshGivesUp(t) ==
    /\ phase[t] = "ssh"
    /\ busy' = busy \ {Job(t)}
    /\ SetPhase(t, "idle")
    /\ UNCHANGED <<enabled, due, cycleVars>>

\* The row is committed.  A poll goes on to the GPU baseline, the idle state
\* and the detectors; the other tiers end, and their row is now the youngest.
Store(t) ==
    /\ phase[t] = "store"
    /\ \/ /\ t.tier = Poll
          /\ SetPhase(t, "detect")
          /\ UNCHANGED due
       \/ /\ t.tier # Poll
          /\ SetPhase(t, "idle")
          /\ due' = [due EXCEPT ![t.tier] = FALSE]
    /\ UNCHANGED <<enabled, busy, cycleVars>>

\* Mutant: the exception is not caught, and the thread ends nowhere.
StoreRaises(t) ==
    /\ phase[t] = "store"
    /\ SetPhase(t, "failed")
    /\ UNCHANGED <<enabled, due, busy, cycleVars>>

\* The commit fails and is rolled back; a deleted server's metric row ends
\* here too, on its foreign key.
StoreFails(t) ==
    /\ phase[t] = "store"
    /\ SetPhase(t, "idle")
    /\ UNCHANGED <<enabled, due, busy, cycleVars>>

\* update_gpu_baseline, update_gpu_idle_state and run_detectors are through.
DetectorsDone(t) ==
    /\ phase[t] = "detect"
    /\ SetPhase(t, "idle")
    /\ UNCHANGED <<enabled, due, busy, cycleVars>>

-----------------------------------------------------------------------------
CycleStep(r) ==
    \/ Acquire(r) \/ SkipCycle(r) \/ LoadServers(r) \/ CycleFails(r)
    \/ Spawn(r) \/ EvalAlerts(r)
    \/ \E t \in Thread : JoinFinished(r, t) \/ JoinTimesOut(r, t)

ThreadStep(t) ==
    \/ Begin(t) \/ Skip(t) \/ SshReturns(t) \/ SshGivesUp(t)
    \/ Store(t) \/ StoreFails(t) \/ DetectorsDone(t)

Next ==
    \/ \E s \in Server : Toggle(s)
    \/ \E p \in Periodic : Ages(p)
    \/ Wake \/ LoadInterval \/ IntervalFails
    \/ \E m \in Manual : TriggerPoll(m)
    \/ \E r \in Runner : CycleStep(r)
    \/ \E t \in Thread : ThreadStep(t)

\* Threads run until they end: every SSH step has a connect, command and
\* exit-status time-out, and every webhook one of its own.  Time passes.
\* The database does not fail in every single cycle, so a cycle that can
\* load, or start its threads, again and again does so in the end.  That it
\* never fails in _load_interval is not assumed.
Fairness ==
    /\ WF_vars(Wake)
    /\ WF_vars(LoadInterval \/ IntervalFails)
    /\ \A p \in Periodic : WF_vars(Ages(p))
    /\ \A r \in Runner : WF_vars(CycleStep(r))
    /\ \A r \in Runner : SF_vars(LoadServers(r)) /\ SF_vars(Spawn(r))
    /\ \A t \in Thread : WF_vars(ThreadStep(t))

Spec == Init /\ [][Next]_vars

FairSpec == Spec /\ Fairness

-----------------------------------------------------------------------------
InSsh == {t \in Thread : phase[t] = "ssh"}

\* No two threads, of one cycle or of several that overlap after join
\* time-outs, hold SSH sessions for the same server and tier: the comment on
\* _server_busy, "overlapping cycles must not stack SSH storms".
SshExclusive == \A t, u \in InSsh : Job(t) = Job(u) => t = u

\* _server_busy holds exactly the keys of the threads in their SSH phase.  A
\* key left behind would stop the server from ever being polled again; a key
\* released early would let a second session in.
BusyOwned == busy = {Job(t) : t \in InSsh}

\* _run_cycle never runs twice at once, although trigger_poll looks at the
\* lock long before its thread tries to take it.
CycleExclusive == \A r \in Runner : pc[r] \in InCycle <=> cycleLock = r

\* When alert rules are evaluated, a thread of this cycle is unfinished only
\* if its own join ran into CYCLE_JOIN_TIMEOUT, whatever other cycles and
\* their left-over threads do meanwhile.
EvalAfterJoins ==
    \A r \in Runner : pc[r] = "eval" =>
        \A t \in spawned[r] \ late[r] : phase[t] = "idle"

\* A lower bound of the time a cycle has spent in its joins: the ones that
\* timed out, in full.
JoinTime(r) == Cardinality(late[r]) * CYCLE_JOIN_TIMEOUT

\* The comment on CYCLE_JOIN_TIMEOUT: "hard ceiling for one full poll cycle
\* (all joins combined)".
JoinCeiling == \A r \in Runner : JoinTime(r) <= CYCLE_JOIN_TIMEOUT

\* As long as the scheduler thread lives, a server that stays enabled keeps
\* being collected in every tier, through skipped cycles, refreshes that win
\* the lock, failed collections and threads left behind: "fast every poll
\* interval, slow every ~5 min, inventory every ~24h" without the figures.
\* The thread dies of one database error in _load_interval (IntervalFails);
\* then servers are served by manual refreshes only, until the process is
\* started again.
EveryJobServed ==
    \A s \in Server, i \in Tier :
        []<>(\/ s \notin enabled
             \/ pc[Scheduler] = "dead"
             \/ \E t \in InSsh : Job(t) = <<s, i>>)

\* The threads in their SSH phase behave as the sessions of SshSessions: each
\* step of the scheduler opens one session that is free, closes one, or
\* leaves them alone.
Sessions == INSTANCE SshSessions WITH sessions <- InSsh

ImplementsSessions == Sessions!Spec
=============================================================================
