-------------------------- MODULE IdleStateProofs --------------------------
(***************************************************************************)
(* Proofs about IdleState: the types for any fleet, and, for one server    *)
(* with any number of GPUs, samples and faults, that the map in memory is  *)
(* the committed one and that the committed one reports every idle GPU.    *)
(***************************************************************************)
EXTENDS IdleState, TLAPS

LEMMA UpdatedType ==
    ASSUME TypeOK, NEW s \in Server
    PROVE  Updated(s) \in Map
  BY DEF TypeOK, Updated, Map

LEMMA TypeNext == TypeOK /\ [Next]_vars => TypeOK'
<1> SUFFICES ASSUME TypeOK, [Next]_vars PROVE TypeOK'
  OBVIOUS
<1> USE IdleAssumption
<1>1. CASE UNCHANGED vars
  BY <1>1 DEF vars, TypeOK
<1>2. ASSUME NEW s \in Server, NEW idle \in SUBSET Gpu, StoreSample(s, idle) PROVE TypeOK'
  BY <1>2 DEF StoreSample, Goto, TypeOK, Map, Time
<1>3. ASSUME NEW s \in Server, LoadMemory(s) \/ LoadRow(s) PROVE TypeOK'
  BY <1>3 DEF LoadMemory, LoadRow, Goto, TypeOK
<1>4. ASSUME NEW s \in Server, CacheRow(s) \/ SaveRow(s) \/ SaveMemory(s) PROVE TypeOK'
  <2>1. Empty \in Map /\ local[s] \in Map
    BY DEF Empty, Map, TypeOK
  <2> QED
    BY <1>4, <2>1 DEF CacheRow, SaveRow, SaveMemory, Goto, TypeOK
<1>5. ASSUME NEW s \in Server, UpdateEntries(s) PROVE TypeOK'
  <2>1. Empty \in Map
    BY DEF Empty, Map
  <2> QED
    BY <1>5, <2>1, UpdatedType DEF UpdateEntries, Goto, TypeOK
<1>6. ASSUME NEW s \in Server, UpdateFails(s) PROVE TypeOK'
  BY <1>6 DEF UpdateFails, Unended, GpusOf, Goto, TypeOK, Empty, Map
<1>7. CASE Crash
  BY <1>7 DEF Crash, Unended, TypeOK, Empty, Map
<1> QED
  BY <1>1, <1>2, <1>3, <1>4, <1>5, <1>6, <1>7 DEF Next

\* Every variable keeps its type, for any servers and GPUs.
THEOREM TypeCorrect == Spec => []TypeOK
<1>1. Init => TypeOK
  BY IdleAssumption DEF Init, TypeOK, Empty, Map, Time
<1> QED
  BY <1>1, TypeNext, PTL DEF Spec

-----------------------------------------------------------------------------
(* One server at a time.                                                   *)

\* The map a poller works on is the committed one until it is changed, and
\* again once it is committed; a start differs from its run's only where an
\* update that was to remove the entry has been dropped.
Committed(s) ==
    /\ pc[s] \in {"cache", "update", "saved"} => local[s] = row
    /\ mem # NotLoaded /\ pc[s] # "saved" => mem = row

Start(g, start) ==
    start # NotIdle =>
        /\ start <= now
        /\ run[g] # NotIdle => start <= run[g] /\ (start = run[g] \/ g \in overrun)

NoLater(map) == \A g \in Gpu : Start(g, map[g])

Reports(map) == NoLater(map) /\ \A g \in Gpu : map[g] = NotIdle <=> run[g] = NotIdle

\* Between updates the row has an entry of a busy GPU only if it is overrun.
AtRest(s) ==
    pc[s] = "rest" => \A g \in Gpu : run[g] = NotIdle /\ row[g] # NotIdle => g \in overrun

SerialInv(s) ==
    /\ TypeOK
    /\ Committed(s)
    /\ NoLater(row)
    /\ AtRest(s)
    /\ pc[s] \in {"save", "saved"} => Reports(local[s])
    /\ s \in current => pc[s] = "rest" /\ Reports(row)
    /\ \A g \in Gpu : run[g] # NotIdle => run[g] <= now

LEMMA SerialNext ==
    ASSUME NEW s, Server = {s}, SerialInv(s), [Next]_vars
    PROVE  SerialInv(s)'
<1> USE IdleAssumption
<1>1. TypeOK' /\ s \in Server
  BY TypeNext DEF SerialInv
<1>2. CASE UNCHANGED vars
  BY <1>1, <1>2 DEF vars, SerialInv, Committed, NoLater, Start, Reports, AtRest
<1>3. ASSUME NEW idle \in SUBSET Gpu, StoreSample(s, idle) PROVE SerialInv(s)'
  BY <1>1, <1>3
  DEF StoreSample, Goto, SerialInv, TypeOK, Committed, NoLater, Start, Reports, AtRest, Map, Time
<1>4. CASE LoadMemory(s) \/ LoadRow(s)
  BY <1>1, <1>4 DEF LoadMemory, LoadRow, Goto, SerialInv, TypeOK, Committed, NoLater, Start, Reports, AtRest
<1>5. CASE CacheRow(s)
  BY <1>1, <1>5 DEF CacheRow, Goto, SerialInv, TypeOK, Committed, NoLater, Start, Reports, AtRest
<1>6. CASE UpdateEntries(s)
  <2>1. local[s] = row /\ NoLater(row) /\ pc[s] = "update" /\ row \in Map /\ run \in Map
    BY <1>6 DEF UpdateEntries, SerialInv, Committed, TypeOK
  <2>2. Updated(s) = [g \in Gpu |-> IF run[g] = NotIdle THEN NotIdle
                                    ELSE IF row[g] = NotIdle THEN run[g] ELSE row[g]]
    BY <1>1, <2>1 DEF Updated
  <2>3. Reports(Updated(s))
    BY <2>1, <2>2 DEF Reports, NoLater, Start, SerialInv, Map, Time
  <2>4. UNCHANGED <<now, run, row, mem, overrun>>
    BY <1>6 DEF UpdateEntries
  <2>5. CASE Updated(s) = row
    BY <1>1, <1>6, <2>1, <2>3, <2>4, <2>5
    DEF UpdateEntries, Goto, SerialInv, TypeOK, Committed, NoLater, Start, Reports, AtRest
  <2>6. CASE Updated(s) # row
    BY <1>1, <1>6, <2>1, <2>3, <2>4, <2>6
    DEF UpdateEntries, Goto, SerialInv, TypeOK, Committed, NoLater, Start, Reports, AtRest
  <2> QED
    BY <2>5, <2>6
<1>7. CASE SaveRow(s) \/ SaveMemory(s)
  BY <1>1, <1>7 DEF SaveRow, SaveMemory, Goto, SerialInv, TypeOK, Committed, NoLater, Start, Reports, AtRest
<1>8. CASE UpdateFails(s)
  BY <1>1, <1>8 DEF UpdateFails, Unended, GpusOf, Goto, SerialInv, TypeOK, Committed, NoLater, Start, Reports, AtRest
<1>9. CASE Crash
  BY <1>1, <1>9 DEF Crash, Unended, SerialInv, TypeOK, Committed, NoLater, Start, Reports, AtRest
<1> QED
  BY <1>2, <1>3, <1>4, <1>5, <1>6, <1>7, <1>8, <1>9 DEF Next

LEMMA SerialInductive ==
    ASSUME NEW s, Server = {s}
    PROVE  Spec => []SerialInv(s)
<1>1. Init => SerialInv(s)
  BY IdleAssumption
  DEF Init, SerialInv, TypeOK, Committed, NoLater, Start, Reports, AtRest, Empty, Map, Time
<1>2. SerialInv(s) /\ [Next]_vars => SerialInv(s)'
  BY SerialNext
<1> QED
  BY <1>1, <1>2, PTL DEF Spec

\* _save_idle_state: memory is never ahead of the committed row or behind it,
\* whatever commit fails and whenever the process restarts.
THEOREM OneServerCommitted ==
    ASSUME NEW s, Server = {s}
    PROVE  Spec => []MemoryCommitted
<1>1. SerialInv(s) => MemoryCommitted
  BY DEF SerialInv, Committed, MemoryCommitted
<1> QED
  BY <1>1, SerialInductive, PTL

\* update_gpu_idle_state: after every update that is not lost the row names
\* exactly the idle GPUs, with the start the samples have; only where the end
\* of an earlier run was lost to a fault is the start that run's.
THEOREM OneServerReported ==
    ASSUME NEW s, Server = {s}
    PROVE  Spec => []RunsReported
<1>1. SerialInv(s) => RunsReported
  BY IdleAssumption DEF SerialInv, Reports, NoLater, Start, TypeOK, Map, Time, RunsReported
<1> QED
  BY <1>1, SerialInductive, PTL
=============================================================================
