------------------------------- MODULE Rollup -------------------------------
(***************************************************************************)
(* The hourly rollup of scheduler.py: _hourly_aggregate closes hours in    *)
(* the scheduler thread (the foreground) and starts a worker that rebuilds *)
(* the rows an older version has written without GPU card time (the        *)
(* background); both go through _roll_hour, hour by hour, each hour a      *)
(* transaction that reads rows and samples and then replaces the rows.     *)
(* Polls, the retention pass, administrators, restarts and restores of     *)
(* archived samples go on beside.                                          *)
(*                                                                         *)
(* Abstracted: hours are numbered; a sample is its server, its hour and    *)
(* its place in the hour, none exactly on the stroke; an aggregate is the  *)
(* set of the places it was computed from, so averages, maxima and card    *)
(* minutes are left out, and with them the carry-in from the hour before.  *)
(* The limit of 96 hours per worker is not reached.                        *)
(***************************************************************************)
EXTENDS Integers, FiniteSets

CONSTANTS
    Server,
    Place,      \* of samples in an hour, in order
    Sample,     \* bound: the samples that may be taken
    Start,      \* the hour at which this version is first started
    MaxHour,    \* bound: the last hour
    MaxBackfill,\* _ROLLUP_BACKFILL_HOURS
    Keep,       \* retention_days, in hours
    MaxChanges, \* bound: servers enabled, disabled and deleted
    None

Hour   == 0..MaxHour

ASSUME HoursAssumption ==
    /\ MaxHour \in Nat /\ Start \in 1..MaxHour
    /\ MaxBackfill \in Nat \ {0} /\ MaxChanges \in Nat /\ Keep \in Nat \ {0, 1}
    /\ Place \subseteq Nat /\ IsFiniteSet(Place)
    /\ Sample \subseteq Server \X Hour \X Place

\* kind: card time not computed and to be estimated ("legacy"), never to be
\* computed because the samples are gone ("kept"), or computed ("measured").
Row == [from : SUBSET Place, kind : {"legacy", "kept", "measured"}]

ASSUME NoneAssumption == None \notin Row

Job == [pc : {"idle", "select", "read", "write"},
        servers : SUBSET Server,
        todo : SUBSET Hour,          \* the hours still to be rolled
        bound : Hour,                \* prev_hour, before_hour
        had : [Server -> Row \cup {None}],
        got : SUBSET Sample,
        thinned : SUBSET Hour]       \* history: hours retention has taken
                                     \* samples of while the worker ran

VARIABLES
    now,      \* the hour it is
    enabled,  \* the enabled servers; a deleted one is not among servers
    servers,
    raw,      \* server_metrics
    row,      \* server_metrics_hourly
    ran,      \* this process has rolled in this hour: last_hourly_day_hour
    job,      \* "fore" and "back"
    steady,   \* history: servers enabled since Start
    taken,    \* history: hours retention has ever taken samples of
    torn,     \* history: of these, the ones older samples were left before,
              \* by a pass broken off, or put back before, by a restore
    changes   \* bounded by MaxChanges

vars == <<now, enabled, servers, raw, row, ran, job, steady, taken, torn, changes>>

TypeOK ==
    /\ now \in Hour
    /\ enabled \subseteq servers /\ servers \subseteq Server
    /\ raw \subseteq Sample
    /\ row \in [Server \X Hour -> Row \cup {None}]
    /\ ran \in BOOLEAN
    /\ job \in [{"fore", "back"} -> Job]
    /\ steady \subseteq enabled
    /\ taken \subseteq Hour /\ torn \subseteq taken
    /\ changes \in 0..MaxChanges

Idle == [pc |-> "idle", servers |-> {}, todo |-> {}, bound |-> 0,
         had |-> [s \in Server |-> None], got |-> {}, thinned |-> {}]

\* A database that is new, or that an older version has left: every hour
\* before Start has its legacy row, samples are kept from some hour on.
Legacy(s, h) == [from |-> {p \in Place : <<s, h, p>> \in Sample}, kind |-> "legacy"]

Init ==
    /\ now = Start
    /\ enabled = Server /\ servers = Server
    /\ \/ /\ raw = {}
          /\ row = [x \in Server \X Hour |-> None]
          /\ taken = {}
       \/ \E h \in 0..(Start - 1) :
             /\ raw = {x \in Sample : x[2] \in h..(Start - 1)}
             /\ row = [x \in Server \X Hour |->
                                       IF x[2] < Start THEN Legacy(x[1], x[2]) ELSE None]
             /\ taken = 0..(h - 1)
    /\ torn = {}
    /\ ran = FALSE
    /\ job = [j \in {"fore", "back"} |-> Idle]
    /\ steady = Server
    /\ changes = 0

At(j, pc)  == job[j].pc = pc
Set(j, r)  == job' = [job EXCEPT ![j] = r]
Prev       == now - 1
Rolled     == {h \in Hour : \E s \in Server : row[<<s, h>>] # None}
LegacyRows(ids, before) ==
    {h \in Hour : h < before /\ \E s \in ids :
                    row[<<s, h>>] # None /\ row[<<s, h>>].kind = "legacy"}

-----------------------------------------------------------------------------
(* Around the rollup.                                                      *)

\* The next hour begins.
Tick ==
    /\ now < MaxHour
    /\ now' = now + 1
    /\ ran' = FALSE
    /\ UNCHANGED <<enabled, servers, raw, row, job, steady, taken, torn, changes>>

\* _poll_one commits a sample, which may carry a time of the hour before.
Poll(x) ==
    /\ x[1] \in servers /\ x \notin raw
    /\ x[2] \in {now, Prev}
    /\ raw' = raw \cup {x}
    /\ UNCHANGED <<now, enabled, servers, row, ran, job, steady, taken, torn, changes>>

TornBy(samples, hours) == {h \in hours : \E y \in samples : y[2] < h}

\* _retention_cleanup deletes samples past the cutoff, which lies in the hour
\* now - Keep, batch by batch and in no order; a pass that is broken off, or
\* has not archived them all, leaves others.  It is called by the scheduler
\* thread, hence never beside the foreground.
Retention(gone) ==
    LET hours == {x[2] : x \in gone} IN
    /\ At("fore", "idle")
    /\ gone # {} /\ gone \subseteq {x \in raw : x[2] + Keep <= now}
    /\ raw' = raw \ gone
    /\ job' = IF At("back", "idle") THEN job
              ELSE [job EXCEPT !["back"].thinned = @ \cup hours]
    /\ taken' = taken \cup hours
    /\ torn' = torn \cup TornBy(raw', hours)
    /\ UNCHANGED <<now, enabled, servers, row, ran, steady, changes>>

Changes == changes < MaxChanges /\ changes' = changes + 1

\* restore_archive.py, or an import, puts a sample of the past back.
PutBack(x) ==
    /\ Changes
    /\ x[1] \in servers /\ x \notin raw
    /\ x[2] < Prev
    /\ raw' = raw \cup {x}
    /\ torn' = torn \cup TornBy({x}, taken)
    /\ UNCHANGED <<now, enabled, servers, row, ran, job, steady, taken>>

\* update_server.
SetEnabled(s) ==
    /\ Changes /\ s \in servers
    /\ enabled' = IF s \in enabled THEN enabled \ {s} ELSE enabled \cup {s}
    /\ steady' = steady \ {s}
    /\ UNCHANGED <<now, servers, raw, row, ran, job, taken, torn>>

\* delete_server takes the samples and the rows of all hours with it.
DeleteServer(s) ==
    /\ Changes /\ s \in servers
    /\ servers' = servers \ {s} /\ enabled' = enabled \ {s}
    /\ steady' = steady \ {s}
    /\ raw' = {x \in raw : x[1] # s}
    /\ row' = [x \in Server \X Hour |-> IF x[1] = s THEN None ELSE row[x]]
    /\ UNCHANGED <<now, ran, job, taken, torn>>

\* The process ends and is started again: threads and memory are lost.
Restart ==
    /\ ran' = FALSE
    /\ job' = [j \in {"fore", "back"} |-> Idle]
    /\ UNCHANGED <<now, enabled, servers, raw, row, steady, taken, torn, changes>>

-----------------------------------------------------------------------------
(* _hourly_aggregate.                                                      *)

\* Mutant: only the previous hour is closed, whatever is missing.
OnlyPrevious == {Prev}

\* From the hour after the last one closed to the previous hour, the whole
\* window if there is none, the previous hour again if it is closed.
Gap ==
    IF \E k \in Rolled : k >= Prev THEN {Prev}
    ELSE {h \in Hour :
            /\ h <= Prev
            /\ \A k \in Rolled : k < h
            /\ IF Rolled = {} THEN Prev - MaxBackfill < h
               ELSE \E k \in Rolled : h <= k + MaxBackfill}

\* Once in an hour for every process; without enabled servers nothing is done.
HourlyAggregate ==
    /\ ~ran /\ ran' = TRUE
    /\ At("fore", "idle")
    /\ Set("fore", IF enabled = {} THEN Idle
                   ELSE [Idle EXCEPT !.pc = "read", !.servers = enabled,
                                     !.todo = Gap, !.bound = Prev])
    /\ UNCHANGED <<now, enabled, servers, raw, row, steady, taken, torn, changes>>

\* All hours are closed: _start_legacy_backfill, unless a worker is alive.
StartBackfill ==
    LET f == job["fore"] IN
    /\ At("fore", "read") /\ f.todo = {}
    /\ job' = [fore |-> Idle,
               back |-> IF LegacyRows(f.servers, f.bound) # {} /\ At("back", "idle")
                        THEN [Idle EXCEPT !.pc = "select", !.servers = f.servers,
                                          !.bound = f.bound]
                        ELSE job["back"]]
    /\ UNCHANGED <<now, enabled, servers, raw, row, ran, steady, taken, torn, changes>>

\* Mutant: the hour of the oldest sample is taken for complete.
FromFirst == {h \in Hour : \E x \in raw : x[2] <= h}

\* From full_raw_hour on, the hour after the oldest sample's, all samples are
\* retained.
FullRaw == {h \in Hour : \E x \in raw : x[2] < h}

\* _upgrade_legacy_gpu_card_time chooses its hours.
SelectHours ==
    LET b == job["back"]
        hours == LegacyRows(b.servers, b.bound) \cap FullRaw
    IN /\ At("back", "select")
       /\ Set("back", IF hours = {} THEN Idle
                      ELSE [b EXCEPT !.pc = "read", !.todo = hours])
       /\ UNCHANGED <<now, enabled, servers, raw, row, ran, steady, taken, torn, changes>>

-----------------------------------------------------------------------------
(* _roll_hour.                                                             *)

\* The foreground goes from the first hour up, the worker from the last down.
Turn(j, h) ==
    /\ h \in job[j].todo
    /\ \A k \in job[j].todo : IF j = "fore" THEN h <= k ELSE k <= h

\* Mutant: only the rows that exist are remembered.
HadSome(j, h) == [s \in {t \in job[j].servers : row[<<t, h>>] # None} |-> row[<<s, h>>]]

\* existing_by_server.
Had(j, h) == [s \in Server |-> IF s \in job[j].servers THEN row[<<s, h>>] ELSE None]

RollReads(j, h) ==
    /\ At(j, "read") /\ Turn(j, h)
    /\ Set(j, [job[j] EXCEPT !.pc = "write", !.had = Had(j, h),
                  !.got = {x \in raw : x[1] \in job[j].servers /\ x[2] = h}])
    /\ UNCHANGED <<now, enabled, servers, raw, row, ran, steady, taken, torn, changes>>

PlacesOf(j, s) == {x[3] : x \in {y \in job[j].got : y[1] = s}}

\* Raw retention has taken the samples: the row stays as it is, and a legacy
\* row is not to be rebuilt any more.
Keeps(j, s) == PlacesOf(j, s) = {} /\ job[j].had[s] # None

NewRow(j, s) ==
    IF Keeps(j, s)
    THEN [job[j].had[s] EXCEPT !.kind = IF @ = "legacy" THEN "kept" ELSE @]
    ELSE [from |-> PlacesOf(j, s), kind |-> "measured"]

\* The transaction fails when another one has inserted or replaced a row
\* (uq_metric_hourly), or has deleted one that is to be updated.
Conflict(j, h) ==
    \E s \in job[j].servers :
        LET r == row[<<s, h>>] IN
        r # job[j].had[s] /\ (r # None \/ Keeps(j, s))

RollWrites(j, h) ==
    /\ At(j, "write") /\ Turn(j, h) /\ ~Conflict(j, h)
    /\ row' = [x \in Server \X Hour |->
                 IF x[1] \in job[j].servers /\ x[2] = h THEN NewRow(j, x[1]) ELSE row[x]]
    /\ LET left == job[j].todo \ {h} IN
       Set(j, IF j = "back" /\ left = {} THEN Idle
              ELSE [job[j] EXCEPT !.pc = "read", !.todo = left,
                                  !.had = Idle.had, !.got = {}])
    /\ UNCHANGED <<now, enabled, servers, raw, ran, steady, taken, torn, changes>>

\* An exception anywhere in a job ends it; nothing of the hour is written.
Fails(j) ==
    /\ ~At(j, "idle")
    /\ Set(j, Idle)
    /\ UNCHANGED <<now, enabled, servers, raw, row, ran, steady, taken, torn, changes>>

-----------------------------------------------------------------------------
Next ==
    \/ Tick \/ Restart
    \/ \E x \in Sample : Poll(x) \/ PutBack(x)
    \/ \E gone \in SUBSET Sample : Retention(gone)
    \/ \E s \in Server : SetEnabled(s) \/ DeleteServer(s)
    \/ HourlyAggregate \/ StartBackfill \/ SelectHours
    \/ \E j \in {"fore", "back"} :
           Fails(j) \/ \E h \in Hour : RollReads(j, h) \/ RollWrites(j, h)

Spec == Init /\ [][Next]_vars

-----------------------------------------------------------------------------
(* Properties.                                                             *)

\* The hours closed for a server that stays enabled have no gap, whatever
\* downtime, failed hours and restarts there were: the next run goes on
\* where the last one stopped (_hourly_aggregate).
NoHole ==
    \A s \in steady : \A h, i, k \in Hour :
        (h < i /\ i < k /\ row[<<s, h>>] # None /\ row[<<s, k>>] # None)
            => row[<<s, i>>] # None

\* A row is never replaced by one computed from fewer samples (_roll_hour
\* keeps the row of an hour without samples, the worker begins after the
\* oldest sample), whatever retention has taken of the hour before.  Two kinds
\* of hours are excused: those retention has taken samples of while a worker
\* was running, and those where the oldest sample says nothing about what is
\* missing, since a pass was broken off or a restore has put samples back.
KeepsCounted ==
    [][\A x \in Server \X Hour :
         (row[x] # None /\ row'[x] # None /\ x[2] \notin job["back"].thinned \cup torn)
            => row[x].from \subseteq row'[x].from]_vars
=============================================================================
