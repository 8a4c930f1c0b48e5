----------------------------- MODULE IdleState -----------------------------
(***************************************************************************)
(* When did each GPU start to sit idle with its memory held?               *)
(* backend/app/scheduler.py keeps the answer for the whole fleet in one    *)
(* JSON row of the settings table (IDLE_STATE_KEY) and in a copy in memory *)
(* (_gpu_idle_mem).  Every successful poll of a server loads the map,      *)
(* changes the entries of its own GPUs and writes the whole map back; the  *)
(* pollers of one cycle do this side by side, and _idle_lock covers only   *)
(* the single accesses to _gpu_idle_mem.                                   *)
(*                                                                         *)
(* Abstracted: time is the number of samples stored so far, a sample is    *)
(* the set of the server's GPUs it shows idle, the rows of server_metrics  *)
(* are reduced to the start of the run of idle samples they end with.      *)
(* Two polls of one server do not overlap here.                            *)
(***************************************************************************)
EXTENDS Naturals

CONSTANTS
    Server,
    Gpu,
    Host(_),      \* the server a GPU is in
    NotIdle,      \* no entry in the map; no idle run in the rows
    NotLoaded,    \* _gpu_idle_mem is None
    MaxSamples,   \* bound: samples stored
    MaxFaults     \* bound: process restarts and database errors together

VARIABLES
    now,      \* collected_at of the youngest sample
    run,      \* the truth in server_metrics: start of each GPU's idle run
    row,      \* the settings row
    mem,      \* _gpu_idle_mem
    pc,       \* where the poller of each server is
    local,    \* the map it works on
    current,  \* the servers whose last sample has been worked into the map
    overrun,  \* history: the GPUs whose entry in the row has outlived its run,
              \* because a fault dropped the update that was to remove it
    faults    \* restarts and database errors so far

vars == <<now, run, row, mem, pc, local, current, overrun, faults>>

Time   == 0..MaxSamples
Map    == [Gpu -> Time \cup {NotIdle}]

ASSUME IdleAssumption ==
    /\ MaxSamples \in Nat /\ MaxFaults \in Nat
    /\ NotIdle \notin Nat /\ NotLoaded \notin Map
    /\ \A g \in Gpu : Host(g) \in Server

GpusOf(s) == {g \in Gpu : Host(g) = s}
Empty  == [g \in Gpu |-> NotIdle]

TypeOK ==
    /\ now \in Time
    /\ run \in Map /\ row \in Map
    /\ mem \in Map \cup {NotLoaded}
    /\ pc \in [Server -> {"rest", "load", "cache", "update", "save", "saved"}]
    /\ local \in [Server -> Map]
    /\ current \in SUBSET Server
    /\ overrun \in SUBSET Gpu
    /\ faults \in 0..MaxFaults

Init ==
    /\ now = 0
    /\ run = Empty /\ row = Empty
    /\ mem = NotLoaded
    /\ pc = [s \in Server |-> "rest"]
    /\ local = [s \in Server |-> Empty]
    /\ current = {}
    /\ overrun = {}
    /\ faults = 0

Goto(s, l) == pc' = [pc EXCEPT ![s] = l]

-----------------------------------------------------------------------------
\* _poll_one commits the sample, then calls update_gpu_idle_state.
StoreSample(s, idle) ==
    /\ pc[s] = "rest" /\ now < MaxSamples
    /\ now' = now + 1
    /\ run' = [g \in Gpu |->
                 IF Host(g) # s THEN run[g]
                 ELSE IF g \notin idle THEN NotIdle
                 ELSE IF run[g] = NotIdle THEN now + 1 ELSE run[g]]
    /\ Goto(s, "load")
    /\ current' = current \ {s}
    /\ UNCHANGED <<row, mem, local, overrun, faults>>

\* _load_idle_state finds the map in memory.
LoadMemory(s) ==
    /\ pc[s] = "load" /\ mem # NotLoaded
    /\ local' = [local EXCEPT ![s] = mem]
    /\ Goto(s, "update")
    /\ UNCHANGED <<now, run, row, mem, current, overrun, faults>>

\* It does not, and reads the row ...
LoadRow(s) ==
    /\ pc[s] = "load" /\ mem = NotLoaded
    /\ local' = [local EXCEPT ![s] = row]
    /\ Goto(s, "cache")
    /\ UNCHANGED <<now, run, row, mem, current, overrun, faults>>

\* ... which becomes the map in memory, whatever is there by now.
CacheRow(s) ==
    /\ pc[s] = "cache"
    /\ mem' = local[s]
    /\ Goto(s, "update")
    /\ UNCHANGED <<now, run, row, local, current, overrun, faults>>

\* Mutant: a busy GPU keeps its entry.
UpdatedKeepsBusy(s) ==
    [g \in Gpu |->
        IF Host(g) = s /\ local[s][g] = NotIdle THEN run[g] ELSE local[s][g]]

\* Mutant: a run is taken to start with the sample after the newest.
UpdatedNextSample(s) ==
    [g \in Gpu |->
        IF Host(g) # s THEN local[s][g]
        ELSE IF run[g] = NotIdle THEN NotIdle
        ELSE IF local[s][g] = NotIdle THEN now + 1 ELSE local[s][g]]

\* The entries of the server's own GPUs: an idle GPU without one gets the
\* start _backfill_idle_start finds in the stored samples, a GPU that is
\* busy or no longer listed loses its own.
Updated(s) ==
    [g \in Gpu |->
        IF Host(g) # s THEN local[s][g]
        ELSE IF run[g] = NotIdle THEN NotIdle
        ELSE IF local[s][g] = NotIdle THEN run[g] ELSE local[s][g]]

\* Mutant: the map in memory is changed in place, not a copy of it.
UpdateInPlace(s) ==
    /\ pc[s] = "update"
    /\ local' = [local EXCEPT ![s] = Updated(s)]
    /\ mem' = Updated(s)
    /\ Goto(s, IF Updated(s) = local[s] THEN "rest" ELSE "save")
    /\ current' = IF Updated(s) = local[s] THEN current \cup {s} ELSE current
    /\ UNCHANGED <<now, run, row, overrun, faults>>

UpdateEntries(s) ==
    /\ pc[s] = "update"
    /\ IF Updated(s) = local[s]
       THEN /\ Goto(s, "rest")
            /\ current' = current \cup {s}
            /\ local' = [local EXCEPT ![s] = Empty]
       ELSE /\ Goto(s, "save")
            /\ local' = [local EXCEPT ![s] = Updated(s)]
            /\ UNCHANGED current
    /\ UNCHANGED <<now, run, row, mem, overrun, faults>>

\* _save_idle_state commits the whole map ...
SaveRow(s) ==
    /\ pc[s] = "save"
    /\ row' = local[s]
    /\ overrun' = {g \in overrun : local[s][g] # NotIdle}
    /\ Goto(s, "saved")
    /\ UNCHANGED <<now, run, mem, local, current, faults>>

\* ... and then replaces the one in memory.
SaveMemory(s) ==
    /\ pc[s] = "saved"
    /\ mem' = local[s]
    /\ Goto(s, "rest")
    /\ current' = current \cup {s}
    /\ local' = [local EXCEPT ![s] = Empty]
    /\ UNCHANGED <<now, run, row, overrun, faults>>

\* Of some GPUs, those whose run has ended while the row has it still.
Unended(gpus) == {g \in gpus : run[g] = NotIdle /\ row[g] # NotIdle}

\* A database error: the update is logged and dropped.
UpdateFails(s) ==
    /\ pc[s] \in {"load", "update", "save"}
    /\ faults < MaxFaults
    /\ faults' = faults + 1
    /\ Goto(s, "rest")
    /\ local' = [local EXCEPT ![s] = Empty]
    /\ overrun' = overrun \cup Unended(GpusOf(s))
    /\ UNCHANGED <<now, run, row, mem, current>>

\* The process ends and starts again; the database remains.
Crash ==
    /\ faults < MaxFaults
    /\ faults' = faults + 1
    /\ mem' = NotLoaded
    /\ pc' = [s \in Server |-> "rest"]
    /\ local' = [s \in Server |-> Empty]
    /\ overrun' = overrun \cup Unended(Gpu)
    /\ UNCHANGED <<now, run, row, current>>

Next ==
    \/ \E s \in Server, idle \in SUBSET Gpu :
           idle \subseteq GpusOf(s) /\ StoreSample(s, idle)
    \/ \E s \in Server :
           \/ LoadMemory(s) \/ LoadRow(s) \/ CacheRow(s)
           \/ UpdateEntries(s) \/ SaveRow(s) \/ SaveMemory(s)
           \/ UpdateFails(s)
    \/ Crash

Spec == Init /\ [][Next]_vars

-----------------------------------------------------------------------------
\* While the polls of a fleet do not run side by side, the row says after
\* every update which GPUs are idle, and since exactly when: the start of a
\* run that a crash or a failed commit loses is found again by
\* _backfill_idle_start.  Its end is not found again: when the update that
\* was to remove an entry is dropped and the GPU is idle in the next sample
\* that is worked in, the entry stays and the new run is given the old start,
\* too early.  This, and nothing else, makes a start inexact.
RunsReported ==
    \A g \in Gpu : Host(g) \in current =>
        /\ row[g] = NotIdle <=> run[g] = NotIdle
        /\ g \notin overrun => row[g] = run[g]
        /\ run[g] # NotIdle => row[g] <= run[g]

\* The map in memory is the committed one, except between the commit and the
\* assignment that follows it: a failed commit must not leave memory ahead of
\* the row, or the entry would never be written.
MemoryCommitted ==
    mem # NotLoaded /\ (\A s \in Server : pc[s] # "saved") => mem = row

\* The comment on the idle state: it "persists idle_since per GPU so the
\* analysis page can report exact, unbounded idle durations".
DurationExact ==
    \A g \in Gpu :
        Host(g) \in current /\ run[g] # NotIdle /\ row[g] # NotIdle
            => row[g] = run[g]
=============================================================================
