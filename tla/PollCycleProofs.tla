-------------------------- MODULE PollCycleProofs --------------------------
(***************************************************************************)
(* Proofs about PollCycle for every set of servers, tiers, refreshes and   *)
(* thread slots.                                                           *)
(***************************************************************************)
EXTENDS PollCycle, TLAPS

\* What the joins have established so far.  It is inductive only together
\* with CycleExclusive: starting threads for one cycle must not revive a
\* thread another cycle has already joined.
JoinInv ==
    \A r \in Runner :
        /\ pc[r] \notin {"join", "eval"} => spawned[r] = {}
        /\ pc[r] = "eval" => waiting[r] = {}
        /\ \A t \in spawned[r] \ (late[r] \cup waiting[r]) : phase[t] = "idle"

\* The inductive invariant.
IInv ==
    /\ TypeOK
    /\ SshExclusive
    /\ BusyOwned
    /\ CycleExclusive
    /\ JoinInv

-----------------------------------------------------------------------------
\* Every thread a cycle starts was idle, so no running thread is restarted.
LEMMA StartedIdle ==
    ASSUME NEW r \in Runner,
           \A j \in Jobs(r) : IdleThreads(j) # {}
    PROVE  /\ StartedFor(r) \in SUBSET Thread
           /\ \A t \in StartedFor(r) : phase[t] = "idle"
<1>1. ASSUME NEW j \in Jobs(r)
      PROVE  /\ (CHOOSE t \in IdleThreads(j) : TRUE) \in Thread
             /\ phase[CHOOSE t \in IdleThreads(j) : TRUE] = "idle"
  <2>1. (CHOOSE t \in IdleThreads(j) : TRUE) \in IdleThreads(j)
    BY <1>1
  <2>2. QED
    BY <2>1 DEF IdleThreads
<1>2. QED
  BY <1>1 DEF StartedFor

\* The scheduler's name is no manual refresh's, and nobody is NoRunner.
LEMMA RunnerFacts ==
    /\ Scheduler \in Runner
    /\ Manual \subseteq Runner
    /\ NoRunner \notin Runner
BY NamesAssumption DEF Runner

\* A thread's job is a key of the busy set.
LEMMA JobType == \A t \in Thread : Job(t) \in Server \X Tier
BY DEF Thread, Job

-----------------------------------------------------------------------------
\* A scheduler that has just started: no cycle, no thread, no key.
LEMMA InitIInv == Init => IInv
<1> SUFFICES ASSUME Init PROVE IInv
  OBVIOUS
<1> USE DEF Init
<1>1. TypeOK
  BY RunnerFacts DEF TypeOK, Phase, InCycle
<1>2. InSsh = {}
  BY DEF InSsh
<1>3. SshExclusive /\ BusyOwned
  BY <1>2 DEF SshExclusive, BusyOwned
<1>4. CycleExclusive
  BY RunnerFacts DEF CycleExclusive, InCycle
<1>5. JoinInv
  BY DEF JoinInv
<1>6. QED
  BY <1>1, <1>3, <1>4, <1>5 DEF IInv

-----------------------------------------------------------------------------
(* Types.                                                                  *)

\* No operation of the scheduler or of a thread writes an ill-typed value.
LEMMA TypeStep == TypeOK /\ [Next]_vars => TypeOK'
<1> SUFFICES ASSUME TypeOK, [Next]_vars PROVE TypeOK'
  OBVIOUS
<1> USE RunnerFacts DEF TypeOK, Phase, InCycle, cycleVars
<1>1. ASSUME NEW s \in Server, Toggle(s) PROVE TypeOK'
  BY <1>1 DEF Toggle
<1>2. ASSUME NEW p \in Periodic, Ages(p) PROVE TypeOK'
  BY <1>2 DEF Ages
<1>3. ASSUME Wake \/ LoadInterval \/ IntervalFails PROVE TypeOK'
  BY <1>3 DEF Wake, LoadInterval, IntervalFails
<1>4. ASSUME NEW m \in Manual, TriggerPoll(m) PROVE TypeOK'
  BY <1>4 DEF TriggerPoll
<1>5. ASSUME NEW r \in Runner, CycleStep(r) PROVE TypeOK'
  <2>1. CASE Acquire(r)
    BY <2>1 DEF Acquire
  <2>2. CASE SkipCycle(r)
    BY <2>2 DEF SkipCycle, AfterCycle
  <2>3. CASE LoadServers(r)
    BY <2>3 DEF LoadServers, EndCycle, AfterCycle
  <2>4. CASE CycleFails(r)
    BY <2>4 DEF CycleFails, EndCycle, AfterCycle
  <2>5. CASE Spawn(r)
    <3>1. StartedFor(r) \in SUBSET Thread
      BY <2>5, StartedIdle DEF Spawn
    <3>2. QED
      BY <2>5, <3>1 DEF Spawn
  <2>6. CASE EvalAlerts(r)
    BY <2>6 DEF EvalAlerts, EndCycle, AfterCycle
  <2>7. ASSUME NEW t \in Thread, JoinFinished(r, t) PROVE TypeOK'
    BY <2>7 DEF JoinFinished, Joined
  <2>8. ASSUME NEW t \in Thread, JoinTimesOut(r, t) PROVE TypeOK'
    BY <2>8 DEF JoinTimesOut, Joined
  <2>9. QED
    BY <1>5, <2>1, <2>2, <2>3, <2>4, <2>5, <2>6, <2>7, <2>8 DEF CycleStep
<1>6. ASSUME NEW t \in Thread, ThreadStep(t) PROVE TypeOK'
  <2> USE JobType DEF SetPhase
  <2>1. CASE Begin(t)
    BY <2>1 DEF Begin
  <2>2. CASE Skip(t)
    BY <2>2 DEF Skip
  <2>3. CASE SshReturns(t)
    BY <2>3 DEF SshReturns
  <2>4. CASE SshGivesUp(t)
    BY <2>4 DEF SshGivesUp
  <2>5. CASE Store(t)
    BY <2>5, ZenonT(60) DEF Store, Thread, Tier
  <2>6. CASE StoreFails(t)
    BY <2>6 DEF StoreFails
  <2>7. CASE DetectorsDone(t)
    BY <2>7 DEF DetectorsDone
  <2>8. QED
    BY <1>6, <2>1, <2>2, <2>3, <2>4, <2>5, <2>6, <2>7 DEF ThreadStep
<1>7. CASE UNCHANGED vars
  BY <1>7 DEF vars
<1>8. QED
  BY <1>1, <1>2, <1>3, <1>4, <1>5, <1>6, <1>7 DEF Next

-----------------------------------------------------------------------------
(* The busy set and the SSH sessions.                                      *)

BusyInv == SshExclusive /\ BusyOwned

\* A step that neither enters nor leaves an SSH phase keeps the busy set
\* accounted for.
LEMMA BusyFrame ==
    ASSUME BusyInv, busy' = busy, InSsh' = InSsh
    PROVE  BusyInv'
BY DEF BusyInv, SshExclusive, BusyOwned, Job

\* _server_begin: a free key gains one owner.
LEMMA BusyOpen ==
    ASSUME BusyInv, NEW t \in Thread, TypeOK, Begin(t)
    PROVE  BusyInv' /\ InSsh' = InSsh \cup {t} /\ t \notin InSsh
<1>1. InSsh' = InSsh \cup {t} /\ t \notin InSsh
  BY DEF Begin, SetPhase, InSsh, TypeOK
<1>2. \A u \in InSsh : Job(u) # Job(t)
  BY DEF Begin, BusyInv, BusyOwned
<1>3. SshExclusive'
  BY <1>1, <1>2 DEF BusyInv, SshExclusive, Job
<1>4. BusyOwned'
  BY <1>1 DEF BusyInv, BusyOwned, Begin, Job
<1>5. QED
  BY <1>1, <1>3, <1>4 DEF BusyInv

\* _server_end: the key goes with its only owner, so no other thread's key
\* is discarded.
LEMMA BusyClose ==
    ASSUME BusyInv, NEW t \in InSsh, TypeOK,
           busy' = busy \ {Job(t)}, InSsh' = InSsh \ {t}
    PROVE  BusyInv'
<1>1. SshExclusive'
  BY DEF BusyInv, SshExclusive, Job
<1>2. BusyOwned'
  BY DEF BusyInv, SshExclusive, BusyOwned, Job
<1>3. QED
  BY <1>1, <1>2 DEF BusyInv

\* What one step may do to the sessions: open one by Begin, close one, or
\* leave them alone.
LEMMA SessionStep ==
    ASSUME TypeOK, [Next]_vars
    PROVE  \/ \E t \in Thread : Begin(t)
           \/ \E t \in InSsh : busy' = busy \ {Job(t)} /\ InSsh' = InSsh \ {t}
           \/ busy' = busy /\ InSsh' = InSsh
<1> USE DEF InSsh, TypeOK, SetPhase
<1>1. ASSUME NEW s \in Server, Toggle(s) PROVE busy' = busy /\ InSsh' = InSsh
  BY <1>1 DEF Toggle
<1>2. ASSUME NEW p \in Periodic, Ages(p) PROVE busy' = busy /\ InSsh' = InSsh
  BY <1>2 DEF Ages
<1>3. ASSUME Wake \/ LoadInterval \/ IntervalFails
      PROVE  busy' = busy /\ InSsh' = InSsh
  BY <1>3 DEF Wake, LoadInterval, IntervalFails
<1>4. ASSUME NEW m \in Manual, TriggerPoll(m)
      PROVE  busy' = busy /\ InSsh' = InSsh
  BY <1>4 DEF TriggerPoll
<1>5. ASSUME NEW r \in Runner, CycleStep(r)
      PROVE  busy' = busy /\ InSsh' = InSsh
  <2>1. CASE Spawn(r)
    <3>1. /\ StartedFor(r) \in SUBSET Thread
          /\ \A t \in StartedFor(r) : phase[t] = "idle"
      BY <2>1, StartedIdle DEF Spawn
    <3>2. QED
      BY <2>1, <3>1 DEF Spawn
  <2>2. ASSUME NEW t \in Thread, JoinFinished(r, t) \/ JoinTimesOut(r, t)
        PROVE  busy' = busy /\ InSsh' = InSsh
    BY <2>2 DEF JoinFinished, JoinTimesOut, Joined
  <2>3. CASE Acquire(r) \/ SkipCycle(r) \/ LoadServers(r) \/ CycleFails(r)
             \/ EvalAlerts(r)
    BY <2>3 DEF Acquire, SkipCycle, LoadServers, CycleFails, EvalAlerts
  <2>4. QED
    BY <1>5, <2>1, <2>2, <2>3 DEF CycleStep
<1>6. ASSUME NEW t \in Thread, SshReturns(t) \/ SshGivesUp(t)
      PROVE  t \in InSsh /\ busy' = busy \ {Job(t)} /\ InSsh' = InSsh \ {t}
  BY <1>6 DEF SshReturns, SshGivesUp
<1>7. ASSUME NEW t \in Thread,
             Skip(t) \/ Store(t) \/ StoreFails(t) \/ DetectorsDone(t)
      PROVE  busy' = busy /\ InSsh' = InSsh
  BY <1>7 DEF Skip, Store, StoreFails, DetectorsDone
<1>8. CASE UNCHANGED vars
  BY <1>8 DEF vars
<1>9. QED
  BY <1>1, <1>2, <1>3, <1>4, <1>5, <1>6, <1>7, <1>8 DEF Next, ThreadStep

\* Every operation keeps the busy set and the SSH sessions in step.
LEMMA BusyStep == TypeOK /\ BusyInv /\ [Next]_vars => BusyInv'
BY SessionStep, BusyFrame, BusyOpen, BusyClose

-----------------------------------------------------------------------------
(* The cycle lock and the joins.                                           *)

\* A step of a runner moves only that runner, and takes the lock when it is
\* free or gives back its own.
LEMMA LockStep == TypeOK /\ CycleExclusive /\ [Next]_vars => CycleExclusive'
<1> SUFFICES ASSUME TypeOK, CycleExclusive, [Next]_vars PROVE CycleExclusive'
  OBVIOUS
<1> USE RunnerFacts DEF TypeOK, CycleExclusive, InCycle, cycleVars
<1>1. ASSUME NEW s \in Server, Toggle(s) PROVE CycleExclusive'
  BY <1>1 DEF Toggle
<1>2. ASSUME NEW p \in Periodic, Ages(p) PROVE CycleExclusive'
  BY <1>2 DEF Ages
<1>3. ASSUME Wake \/ LoadInterval \/ IntervalFails PROVE CycleExclusive'
  BY <1>3 DEF Wake, LoadInterval, IntervalFails
<1>4. ASSUME NEW m \in Manual, TriggerPoll(m) PROVE CycleExclusive'
  BY <1>4 DEF TriggerPoll
<1>5. ASSUME NEW r \in Runner, CycleStep(r) PROVE CycleExclusive'
  <2>1. CASE Acquire(r)
    BY <2>1 DEF Acquire
  <2>2. CASE SkipCycle(r)
    BY <2>2 DEF SkipCycle, AfterCycle
  <2>3. CASE LoadServers(r)
    BY <2>3 DEF LoadServers, EndCycle, AfterCycle
  <2>4. CASE CycleFails(r)
    BY <2>4 DEF CycleFails, EndCycle, AfterCycle
  <2>5. CASE Spawn(r)
    BY <2>5 DEF Spawn
  <2>6. CASE EvalAlerts(r)
    BY <2>6 DEF EvalAlerts, EndCycle, AfterCycle
  <2>7. ASSUME NEW t \in Thread, JoinFinished(r, t) \/ JoinTimesOut(r, t)
        PROVE  CycleExclusive'
    BY <2>7 DEF JoinFinished, JoinTimesOut, Joined
  <2>8. QED
    BY <1>5, <2>1, <2>2, <2>3, <2>4, <2>5, <2>6, <2>7 DEF CycleStep
<1>6. ASSUME NEW t \in Thread, ThreadStep(t) PROVE CycleExclusive'
  BY <1>6 DEF ThreadStep, Begin, Skip, SshReturns, SshGivesUp, Store,
              StoreFails, DetectorsDone
<1>7. CASE UNCHANGED vars
  BY <1>7 DEF vars
<1>8. QED
  BY <1>1, <1>2, <1>3, <1>4, <1>5, <1>6, <1>7 DEF Next

\* A thread's own steps start only from a thread that is already running.
LEMMA ThreadStaysIdle ==
    ASSUME TypeOK, NEW t \in Thread, ThreadStep(t)
    PROVE  \A u \in Thread : phase[u] = "idle" => phase'[u] = "idle"
BY DEF ThreadStep, Begin, Skip, SshReturns, SshGivesUp, Store, StoreFails,
       DetectorsDone, SetPhase, TypeOK

\* Every operation keeps what the joins have established: only the cycle that
\* holds the lock starts threads, and it starts them before it joins any.
LEMMA JoinStep ==
    TypeOK /\ CycleExclusive /\ JoinInv /\ [Next]_vars => JoinInv'
<1> SUFFICES ASSUME TypeOK, CycleExclusive, JoinInv, [Next]_vars
             PROVE  JoinInv'
  OBVIOUS
<1> USE RunnerFacts DEF TypeOK, JoinInv, cycleVars
<1>1. ASSUME NEW s \in Server, Toggle(s) PROVE JoinInv'
  BY <1>1 DEF Toggle
<1>2. ASSUME NEW p \in Periodic, Ages(p) PROVE JoinInv'
  BY <1>2 DEF Ages
<1>3. ASSUME Wake \/ LoadInterval \/ IntervalFails PROVE JoinInv'
  BY <1>3 DEF Wake, LoadInterval, IntervalFails
<1>4. ASSUME NEW m \in Manual, TriggerPoll(m) PROVE JoinInv'
  BY <1>4 DEF TriggerPoll
<1>5. ASSUME NEW r \in Runner, CycleStep(r) PROVE JoinInv'
  <2>1. CASE Acquire(r)
    BY <2>1 DEF Acquire
  <2>2. CASE SkipCycle(r)
    BY <2>2 DEF SkipCycle, AfterCycle
  <2>3. CASE LoadServers(r)
    BY <2>3 DEF LoadServers, EndCycle, AfterCycle
  <2>4. CASE CycleFails(r)
    BY <2>4 DEF CycleFails, EndCycle, AfterCycle
  <2>5. CASE Spawn(r)
    \* Only the lock's holder is in a cycle, so no other cycle waits for the
    \* threads that are started here.
    <3>1. \A q \in Runner \ {r} : pc[q] \notin {"join", "eval"}
      BY <2>5 DEF Spawn, CycleExclusive, InCycle
    <3>2. \A q \in Runner \ {r} : spawned'[q] = {} /\ pc'[q] = pc[q]
      BY <2>5, <3>1 DEF Spawn
    <3>3. /\ pc'[r] = "join"
          /\ spawned'[r] = waiting'[r]
      BY <2>5 DEF Spawn
    <3>4. QED
      BY <3>1, <3>2, <3>3
  <2>6. CASE EvalAlerts(r)
    BY <2>6 DEF EvalAlerts, EndCycle, AfterCycle
  <2>7. ASSUME NEW t \in Thread, JoinFinished(r, t) PROVE JoinInv'
    BY <2>7 DEF JoinFinished, Joined
  <2>8. ASSUME NEW t \in Thread, JoinTimesOut(r, t) PROVE JoinInv'
    BY <2>8 DEF JoinTimesOut, Joined
  <2>9. QED
    BY <1>5, <2>1, <2>2, <2>3, <2>4, <2>5, <2>6, <2>7, <2>8 DEF CycleStep
<1>6. ASSUME NEW t \in Thread, ThreadStep(t) PROVE JoinInv'
  <2>1. UNCHANGED cycleVars
    BY <1>6 DEF ThreadStep, Begin, Skip, SshReturns, SshGivesUp, Store,
                StoreFails, DetectorsDone
  <2>2. QED
    BY <1>6, <2>1, ThreadStaysIdle
<1>7. CASE UNCHANGED vars
  BY <1>7 DEF vars
<1>8. QED
  BY <1>1, <1>2, <1>3, <1>4, <1>5, <1>6, <1>7 DEF Next

-----------------------------------------------------------------------------
(* The theorems.                                                           *)

\* The inductive invariant holds in every state the scheduler can reach.
THEOREM Inductive == Spec => []IInv
<1>1. IInv /\ [Next]_vars => IInv'
  BY TypeStep, BusyStep, LockStep, JoinStep DEF IInv, BusyInv
<1>2. QED
  BY InitIInv, <1>1, PTL DEF Spec

\* Every variable keeps its type, for all servers, tiers and slots.
THEOREM TypeCorrect == Spec => []TypeOK
<1>1. IInv => TypeOK
  BY DEF IInv
<1>2. QED
  BY Inductive, <1>1, PTL

\* At most one SSH session per server and tier, over any number of cycles
\* that overlap after join time-outs (_server_begin, _server_end).
THEOREM OneSessionPerJob == Spec => []SshExclusive
<1>1. IInv => SshExclusive
  BY DEF IInv
<1>2. QED
  BY Inductive, <1>1, PTL

\* _server_busy never leaks a key and never loses one early.
THEOREM NoLeakedKey == Spec => []BusyOwned
<1>1. IInv => BusyOwned
  BY DEF IInv
<1>2. QED
  BY Inductive, <1>1, PTL

\* At most one runner is inside _run_cycle.
THEOREM OneCycle == Spec => []CycleExclusive
<1>1. IInv => CycleExclusive
  BY DEF IInv
<1>2. QED
  BY Inductive, <1>1, PTL

\* Alert rules are evaluated after every thread of the cycle has ended or
\* has used up its own join time-out.
THEOREM EvaluationAfterJoins == Spec => []EvalAfterJoins
<1>1. IInv => EvalAfterJoins
  BY DEF IInv, JoinInv, EvalAfterJoins
<1>2. QED
  BY Inductive, <1>1, PTL

\* The scheduler implements the session table of SshSessions.
THEOREM Refinement == Spec => ImplementsSessions
<1>1. Init => Sessions!Init
  BY DEF Init, InSsh, Sessions!Init
<1>2. IInv /\ [Next]_vars => [Sessions!Next]_(InSsh)
  <2> SUFFICES ASSUME IInv, [Next]_vars PROVE [Sessions!Next]_(InSsh)
    OBVIOUS
  <2>1. TypeOK /\ BusyInv
    BY DEF IInv, BusyInv
  <2>2. ASSUME NEW t \in Thread, Begin(t) PROVE Sessions!Open(t)
    <3>1. InSsh' = InSsh \cup {t} /\ t \notin InSsh
      BY <2>1, <2>2, BusyOpen
    <3>2. \A u \in InSsh : Job(u) # Job(t)
      BY <2>1, <2>2 DEF Begin, BusyInv, BusyOwned
    <3>3. QED
      BY <3>1, <3>2 DEF Sessions!Open
  <2>3. ASSUME NEW t \in InSsh, InSsh' = InSsh \ {t} PROVE Sessions!Close(t)
    BY <2>3 DEF Sessions!Close
  <2>4. InSsh \subseteq Thread
    BY DEF InSsh
  <2>5. QED
    BY <2>1, <2>2, <2>3, <2>4, SessionStep DEF Sessions!Next
<1>3. QED
  BY Inductive, <1>1, <1>2, PTL DEF Spec, ImplementsSessions, Sessions!Spec
=============================================================================
