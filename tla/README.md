# lab-gpu-server-monitor in TLA+

This directory models the monitoring back end of the repository: a FastAPI
process that polls a fleet of GPU and CPU servers over SSH, stores the samples
in SQLite or MySQL, raises alerts from them and serves a Vue front end. Names
of modules, actions and variables follow the Python names where TLA+ allows it.

Contents: [inventory](#1-inventory), [plan](#2-plan), [modules](#3-modules),
[runs](#4-runs), [proofs](#5-proofs), [what the checks found](#6-where-code-and-documents-disagree),
[limits](#7-what-is-not-modelled).

## 1. Inventory

One process, many threads. All of them share the database; what else they share
is in the table.

| component | state it keeps | operations | hard behaviour | what makes it correct |
|---|---|---|---|---|
| poll scheduler (`scheduler.py`) | `_cycle_lock`, `_server_busy`, heartbeat, threads | `_scheduler_loop`, `trigger_poll`, `_run_cycle`, `_poll_one`, `_slow_one`, `_inventory_one` | threads outlive their cycle after a join time-out; refresh races the loop; the loop itself may die | one SSH session per server and tier, no leaked key, one cycle at a time, rules only after the joins, every server served while the loop lives |
| alert events (`health.py`, `_eval_alerts`, `_store_ipmi`, `api/alerts.py`) | `alert_events`, `alert_rules`, server status | fire, recover, TTL, ack, resolve, rule changes | check-then-insert by several threads, decisions on old samples, maintenance and acks in the middle of a pass | bounded duplicates, faults raised and cleared, silence in maintenance |
| GPU idle state (`scheduler.py`) | one JSON row for the fleet, `_gpu_idle_mem` | load, update, save | unlocked read-modify-write by all pollers, restart between commit and cache | the row tells the truth of the samples; memory equals the row |
| IPMI loop (`_ipmi_cycle`) | `ipmi_snapshots` | collect, store, fire | runs beside the polls, does not look at the status | as for alert events |
| server life cycle (`api/servers.py`) | `servers`, notes | create, update, delete, status, expiry | changes under a running cycle | a deleted or disabled server leaves nothing running for it |
| GPU baseline (`update_gpu_baseline`, `_detect_gpu_missing`) | `gpu_baseline` | register, missing, seen | edge-triggered alert, overlapping passes | a missing GPU has an open event |
| retention and archive | archives on disk, `server_metrics` | archive, publish, delete in batches, restore | crash at any point, rows inserted meanwhile | nothing deleted that is not in a published archive |
| hourly rollup | `server_metrics_hourly` | close hours, legacy upgrade | gaps, worker beside the loop and retention, restored samples | closed hours without gap, no row rebuilt from less than it had |
| kernel events | `kernel_events` | selection from the tail of the log, de-duplicating insert | overlapping polls meet the unique index, lines drop out of the tail | each selected event once, none lost |
| cache and warmer (`cache.py`) | values, in-flight table | `cached`, `invalidate_prefix` | single flight, leader older than an invalidation | no value older than the last invalidation |
| host keys (`ssh_transport.py`) | one file per server, process lock | trust on first use, verify, re-pin, forget | concurrent first contacts, re-pin during a poll | a key once trusted is never replaced by a connection |
| sessions and users (`security.py`, `api/auth.py`, `api/users.py`, `reset_admin_mfa.py`) | token versions, TOTP counters | login, MFA, logout, user changes, recovery script | concurrent transitions, a script that writes what it has read | one login per TOTP code, old tokens end for good |
| rate limiter (`rate_limit.py`) | two bounded tables | check, failure, success | eviction at the bound | failures in any window are bounded |
| notifications (`notifier.py`) | channels, `notified` | dispatch | time-outs, crash after commit, severity filters | no recovery of an alert nobody had |
| migrations and import | `schema_migrations` | apply, import | crash between statements, repeated import | applied once |
| collectors (`ssh_collector.py`, `collectors_extra.py`, `ipmi_collector.py`) | none | run remote commands, parse | time-outs | formats; no state |
| settings, read-only APIs, MCP server | settings rows | single requests | none across requests | values |
| front end (`frontend/src`) | per-view requests | load, poll, cancel | responses out of order | the newest request wins |

How they interact. `_run_cycle` calls the collection threads; a poll thread
stores its sample and then calls the GPU baseline, the idle state and
`run_detectors`; the cycle joins the threads and calls `_eval_alerts`; the
scheduler loop goes on to retention and rollup. The IPMI loop and the cache
warmer are threads of their own. Requests run beside all of these and meet them
in the database, in `_cycle_lock` (refresh), in the host-key files and in the
cache.

`PROJECT.json` lists every component with its sources and every hazard at its
line.

## 2. Plan

Most important behaviour first. Written:

1. `SshSessions`, the abstract promise of the scheduler, and `PollCycle`, which
   implements it.
2. `AlertEvents`, every writer of alert events but GPU_MISSING.
3. `IdleState`, the idle map.
4. `RowKeeper`, the abstract promise of retention (a row is in the table or in a
   published archive), and `Retention`, which implements it.
5. `LoginRateLimiter` and `Accounts`, which uses it: logins, second factors,
   sessions, administration of users.
6. `TrustCell`, a write-once cell that administrators may order to change, and
   `Hosts`, the key files that implement it.
7. `PollStore`: one server's polls from the sample to the webhook, with the GPU
   baseline, GPU_MISSING, kernel events and recovery notices.
8. `Rollup`, hourly aggregation with the legacy worker.

Each has an `MC...` module with the instance and a `...Proofs` module;
`LoginRateLimiter`, which takes no step by itself, is instantiated and proved
about as a part of `Accounts`.

Every safety property the passing runs check is proved. Left: the runs of two servers
side by side in `IdleState`, whose proofs are about one; the cache; migrations;
the request helpers of the front end.

## 3. Modules

### PollCycle and SshSessions

`PollCycle` has one `Runner` for the scheduler thread and one for each thread a
manual refresh may start. `pc` is where a runner is: resting, about to try
`_cycle_lock` (`trigger_poll` looked at the lock earlier, so the two are
separate steps), loading servers, starting threads, joining, evaluating rules.
`phase` is where a collection thread is: `new` before `_server_begin`, `ssh`
until `_server_end`, `store`, and for polls `detect`. `busy` is `_server_busy`.

| actions | code |
|---|---|
| `Wake`, `LoadInterval`, `IntervalFails`, `TriggerPoll`, `Acquire`, `SkipCycle`, `EndCycle` | `_scheduler_loop`, `_load_interval`, `trigger_poll`, `_run_cycle_guarded` |
| `LoadServers`, `CycleFails`, `Spawn` | `_load_servers`, the first half of `_run_cycle` |
| `JoinFinished`, `JoinTimesOut`, `EvalAlerts` | the joins, one at a time and in any order, and the end of `_run_cycle` |
| `Begin`, `Skip`, `SshReturns`, `SshGivesUp`, `Store`, `StoreFails`, `DetectorsDone` | the three collection functions |
| `Toggle`, `Ages` | administrators; the age of the newest slow or inventory row |

The code joins threads in the order of its list; the model in any order, which
allows every outcome of the list. Threads are drawn from `Slot`s, so a bounded
number lives per (server, tier); `Spawn` waits for a free slot, the code would
start one more thread. Raising and returning early are one action,
`SshGivesUp`, since both pass through `finally`.

After each cycle, whether it ran, failed or was skipped, the scheduler reads its
interval (`LoadInterval`). That call is outside the `try` of `_scheduler_loop`, and
`_load_interval` catches `ValueError` only, so a database error there ends the
thread (`IntervalFails`, `pc` "dead"). Nothing in the process starts another:
`start_scheduler` returns while `_state["running"]` is set. Refreshes still poll, and the
heartbeat that goes stale is seen by `/api/ready`. `EveryJobServed` is about the
scheduler while it lives; retention and rollup end with the thread as well.

The refinement mapping takes `sessions` to be the threads in phase `ssh`.

### AlertEvents

Workers are poll threads (`Poller`, more than one because polls of one server
overlap), the IPMI task of each server, and the one thread in `_eval_alerts`
(`Evaluator`, the holder of `_cycle_lock`, see `PollCycle`). A pass has a start
(`RunDetectors`, `StoreIpmi`, `EvalAlerts`), where the samples, the status and
the rules are read, and then for each key a look (`LooksToFire`,
`LooksToClose`: the query for an open event) and a commit (`Fire`, `Recover`).
Between any two of these steps other workers, administrators and samples act.
`Abort` is any exception; it ends the pass, as the `try` around each pass does.

`Fault` stands for the detectors that fire while a condition holds and
`_recover` one event when it does not: idle VRAM, ECC (its volatile counter),
thermal throttling, NVMe, RAID, services, storage bottleneck. `SshFault`
recovers all events at once, `Point` events close by TTL only, `Bmc` and `Rule`
as named. A rule leaves acknowledged events alone. A rule that is deleted loses
its events (`rule_id` becomes NULL) and cannot fire (foreign key). The servers
of the model are enabled throughout; drained and repair are states in which
detectors run, so they are `active` here.

A query sees what is committed when it runs, which is SQLite, the default. On
MySQL with REPEATABLE READ a look may see the state since the worker's last
commit; that is older, and `Found` does not model it.

### IdleState

The steps of `update_gpu_idle_state` on the map of the fleet: read memory or
the row, change the server's own entries, commit the row, replace memory.
Time is the number of samples, `run` is the truth in `server_metrics`: the
start of the run of idle samples that `_backfill_idle_start` would find. What
retention removes from the history is not modelled. `Crash` forgets memory and
pollers; `UpdateFails` is a database error in the update.

`overrun` names the one way in which a start becomes inexact with a single server:
a busy sample is stored, a fault drops the update that was to remove the GPU's entry,
and by the next update that succeeds the GPU is idle again. The entry is then
kept, and the new run has the start of the old one. `RunsReported` says that the row
names exactly the idle GPUs, with exact starts but for `overrun`, and never with a
later start than the true one.

### Retention and RowKeeper

The retention thread goes `find`, `count`, `read`, `encrypt`, `link`, `finish`,
`select`, `delete`: the cutoff and the greatest expired id, the content of the
archive, its publication under a new name, and the deletes in batches. `rows`
have an id and a sample (server, period); `archive` maps file names to content.
Polls, imports, deletions of servers and changes of `retention_days` run between
any two steps. `ArchiveFails`, `CleanupFails` and `Crash` end the thread
anywhere; `Restore...` is `restore_archive.py`, which may be run while the
server is up, broken off and run again. The cipher and the tar format are the
set of samples they carry.

`RowKeeper` knows only which samples are live and which are kept in published
archives: a sample may be stored, published, expire if it is kept, come back from
an archive, or go with its server; kept ones stay.

Limits. SQLite gives the id of a deleted last row again: with
`IdsReused = TRUE` the batch chosen by `SelectBatch` may name a row inserted
since, and `ImplementsRowKeeper` does not hold; run and proofs are about
`IdsReused = FALSE` (MySQL, or SQLite while newer rows exist, which is so as long
as polls go on). An import is of samples the table does not have; a second
import would insert everything again, see the hazard at `import_sqlite.py:122`.

### Accounts and LoginRateLimiter

A request is a record that walks through its steps on what it has read:
`LoginChecks` (limiter, account), `LoginVerifies` or `LoginFails`, `LoginIssues`
and `LoginConsumes` (the compare-and-set on the TOTP counter and the token
version); `...Reads` and `...Commits` for set-up, confirmation and disabling of a
second factor, password changes, logout and administration. `Unchanged` is the
`WHERE` clause of the conditional updates, `Revoked` is
`increment_token_version`. `auth_id`s, passwords and secrets are numbers that
are never used twice, which is what random values amount to. `uses` counts how
often a code of a secret was accepted, the history `CodeUsedOnce` is about.

`rewound` names the cases in which a code is accepted again. One is with requests
alone, the other with the reset script (below). `reset_user_mfa` assigns "no secret, not confirmed, no counter" to the row it has
read, and the ORM writes the columns that differ from what was read
(`users.py:166-170`, `Written`). A reset that read the row between a set-up and
its confirmation, and commits after it, clears the secret and keeps the
confirmation and the counter. If another reset reads this row, the user sets a
new secret up and confirms it, and the reset then commits, it finds no secret to
clear, as it had read none, and sets the confirmation and the counter of the
*new* secret back (`Rewinds`): the code that confirmed it is accepted once more,
which "atomically consume one TOTP counter" (`auth.py:51`) does not foresee.
This takes two resets, each of which overlaps a request of the user's; the
"resets" instance of `MCAccounts` begins after the first.

`reset_admin_mfa.py` is run with `docker compose exec` in the container that serves
requests (`DEPLOYMENT.en.md:226-229`, `SECURITY_HARDENING.md:130-135`), so here it is
a worker beside them: `ScriptReads` loads the account, `ScriptCommits` writes.
`user.token_version += 1` on a loaded row assigns a number, so what is written is the
version that was read plus one. Where a logout or a change of password has raised the
version meanwhile, it stays as it is, or with several of them is set back, and tokens
that were refused may carry the account's version again. `overwritten` has the
`auth_id`s of these accounts, which `SessionsCurrent` and `RevokedForGood` except, and
`rewound` the secrets that were in hand at that moment (`InHand`), since the `WHERE`
clauses of requests under way compare with that version too.

`LoginRateLimiter` has the two tables as functions on the keys that are in them:
of each key its failures, its lock and the keys before it in the order of the
table, with pruning, locks, sweep and eviction at `MAX_BUCKETS`, over a clock. A
failure is its tick and its number among the key's in that tick. At
`MAX_BUCKETS` the oldest entry goes, locked or not: `missed`, which
`GuessesBounded` counts, is what a key has failed since it was last cleared.

Limits. `step_up_limiter`, which `mfa_disable` and `change_password` ask before they
verify a password, is left out: a refusal leaves the account alone, so it is a
request that is not made here; `GuessesBounded` is about logins. SQLite may give the
id of a deleted user again; that a request in flight meets it is left out. That an
administrator remains when two administrators demote each other at once
(`users.py:73`) is not stated anywhere and not checked.

### Hosts and TrustCell

A task is a thread with the address it read with the server, and a step of
`connect_host` (`check`, `load`, `hello`, `trust`) or of an order (`intent`,
`fetch`, `pin`, `forget`). The locks of the code cover single file operations,
so each file operation is one action. `Reinstall` changes a host's key;
`GivesUp` is any exception, refusal or the end of the process at any step.
Files of tested addresses may date from a version that recorded keys under the
address a name was resolved to (`IpOf`); `connect_host` accepts such a key for a
test, in memory, and leaves the file alone (`Matches`).

`TrustCell` has for every identity (a stored server, or a tested address) a cell
that an ordinary contact may fill when it is empty and that only an order under
way may clear or set to the key it names.

What the code does leave open, excused by the history `stray`: a poll that had
read the old address, or a process that ends between the commit of an address
and `forget_hostkey`, leaves the key of the old address in the server's file; the
server is then rejected until the key is reset. A late `forget_hostkey` may also
remove a newer key. The file of a tested address is never removed.

### PollStore

A pass is a poll thread after its SSH phase, with its own ORM session: what it
sets (`mark`, `clear`) is written at its next commit, with `Written`, and its
rows are read again after a commit (`base` "expired"). `event` is the rows of
GPU_MISSING. `Collect` and `CollectFails` are the two outcomes of
`_poll_one`; `ReadHashes`, `InsertRows`, `Store` the transactions of the
sample; `ReadBaseline` and `UpdateBaseline` the baseline; the rest the detector
with its two webhooks. `RollsBack` is a failed transaction, `Crash` the end of
the process, anywhere. `excused` and `alone` say what overlapping passes and
administrators take away: such a pass can close the event of a GPU that stays
missing, and no second event is fired because `missing_since` is still set.
`MissingTold` is therefore about failed transactions and crashes.

`log` is the tail of the kernel log that a sample brings, in order; lines are added
(`Logs`) and drop out of the last 400 (`DropsOut`). `Parsed` is `parse_kernel_log`:
of all OOM lines of a tail one is kept, the first that names a victim
(`Chosen`), and of the events that are left the first `MaxEvents` (100).
`KernelRecorded` promises a row only to lines that this selection goes on taking. A
line beyond the first hundred, or a second OOM incident whose lines share the tail
with the first one's, gets a row only if those before it drop out in time.

Facts met while modelling that no document contradicts: a RECOVERY has severity
"info" and is filtered by `min_severity`, so a channel for critical alerts never
hears it; an alert that is delivered while its event is being closed gets no
RECOVERY; kernel events without a detector (GPU_FALLEN_OFF_BUS among them) are
stored but alert nobody; when `nvidia-smi` prints nothing all GPUs count as
missing.

### Rollup

`job["fore"]` is `_hourly_aggregate` in the scheduler thread, `job["back"]` the
worker. `Turn` gives the hour at hand, `RollReads` the row and samples a
transaction reads, `RollWrites` its commit, refused on `Conflict`. A row is the
set of the samples it was made of and whether it is of the older version.

`Retention` deletes any of the expired samples, because the batches have no order
(`LIMIT 5000` without `ORDER BY`, `scheduler.py:589-597`) and a pass may be broken off
between them. `PutBack` is `restore_archive.py` or an import, which may put a
sample of any past hour back at any time.

The worker takes an hour for whole if an older sample is left
(`scheduler.py:1147-1154`), and rebuilds its rows from what samples it finds. In two
kinds of hours the code does admit that a row comes out with less than it had, and
`KeepsCounted` excuses these and no others: hours retention takes samples of while the
worker is between its choice of hours and that hour (`thinned`), and hours retention
took samples of while older samples were left, or put back later (`torn`). `taken`
is the hours of all samples ever deleted.

A job that has read the ids of the servers may insert rows of one that is deleted
meanwhile. `_hourly_aggregate` is called once per hour and process, and a sample that
comes after the call is taken up only if the process restarts within the hour:
no property is about such samples. The docstring's "the whole gap" after a
restore or import is what follows `max(hour)`; holes before it would stay.

## 4. Runs

| run | instance | shows |
|---|---|---|
| `PollTiers.cfg` | one server, tiers poll and slow, one refresh, two slots; about 171,000 states | types, `SshExclusive`, `BusyOwned`, `CycleExclusive`, `EvalAfterJoins`, refinement, `EveryJobServed` |
| `JoinCeiling.cfg` | two servers, poll tier | violation, see section 6 |
| `AlertEvents.cfg` | two servers, two poll threads, one key of each kind, three copies; about 22,000 states | types, `DuplicateBound`, `SingleAlert`, five liveness properties |
| `MaintenanceSilent.cfg`, `AckedRule.cfg` | one server, one BMC detector; one server, one rule | violations |
| `IdleSerial.cfg` | one server, two GPUs, six samples, two faults; about 18,500 states | types, `RunsReported`, `MemoryCommitted` |
| `IdleFleet.cfg` | two servers, one GPU each, no faults | violation |
| `Retention.cfg` | one server, two archive names, three periods, three ids, deletes one by one, restores by two; about 794,000 states | types, `RestoredOnce`, refinement of `RowKeeper` |
| `Accounts.cfg` | two users, two workers, two TOTP counters, a small limiter; four foci; about 288,000 states | types, `CodeUsedOnce`, `SessionsCurrent`, `GuessesBounded`, `RevokedForGood` |
| `Hosts.cfg` | one server, two addresses, two keys, two tasks, keys of older tests; about 951,000 states | types, `OneIdentity`, `PinFollows`, refinement of `TrustCell` |
| `PollStore.cfg` | two passes, one GPU, four lines of the kernel log, two events of a tail, one fault; about 173,000 states | types, `MissingTold`, `RecoveryHeard`, and, under fairness, `KernelRecorded`, `ReturnClears` |
| `Rollup.cfg` | two servers, five hours, five samples, one change of servers or restored sample; about 573,000 states | types, `NoHole`, `KeepsCounted` |

Bounds. `Slot = 1..2`: a thread left behind and its successor; `_server_busy`
admits one session per job, so a third thread would only repeat the second's
skip. One server in two tiers: the tiers of a server and the servers of a fleet
compete for nothing but slots and the joins of a cycle, so a second tier plays
the part of a second server too. Two pollers give the smallest race for an
event, and three copies leave room for an event beyond `DuplicateBound`. Each
behaviour of `MCAlertEvents` has samples for one key (`focus`): workers take
keys one at a time and actions on different keys touch different events, only
the TTL sweep goes across servers, and it is kept. `MaxSamples = 6` lets an idle
run begin, end and begin again around two faults. `MaxSamples` stops the model
of `IdleState` and `MaxHour` that of `Rollup`, so their runs do not check deadlock;
the others do.

Retention, three ids: one row to delete, one inserted beside it, one restored; two
names: an archive and its successor. Accounts: two requests at a time are the
smallest race, and `MCAccounts` looks at them in four foci: "sessions", where an
enrolled administrator stays as it is and all requests are about the other user;
"scripts", where runs of the reset script meet that user's logins, logouts and changes
of password; "resets", where set-ups, confirmations and resets go on from a row that a reset
has half cleared, a state that "sessions" reaches, up to `MaxVersion = 5`; and
"logins", from the empty table on with time and failures. Hosts: two tasks, because each file
operation is atomic and a task meets one other at a time; keys and tasks are
symmetric, and of the two addresses one is a name that was resolved to the other.
PollStore: the three members of `Machine` are looked at one by one,
because nothing relates a server's GPUs to its kernel log: a GPU that comes and goes,
a log with more events than a tail yields (`MaxEvents = 2`, without faults), an OOM
incident of two lines. Two passes overlap, one fault comes at any step. Rollup: one
server has a sample in each of three hours, two in the second, so that hours can be
thinned and torn; `Start = 2` leaves two hours of an older
version, `MaxHour = 4` two hours of downtime, `MaxBackfill = 3` covers the
longest downtime here (a longer one only cuts the newest end of the gap), and
`Keep = 2` lets retention overtake the worker. The bounds of `Accounts`, `Hosts` and
`PollStore` on workers, tasks and passes, and all of `Rollup`, are lifted for
safety by the proofs of section 5.

Fairness. In `PollCycle` threads run until they end, because each SSH step and
each webhook has a time-out; the database may fail in any cycle but not in every
one, hence strong fairness for `LoadServers` and `Spawn`. After a cycle the loop
reads its interval or dies of the attempt, and fairness does not choose between
the two: `EveryJobServed` holds of a server while the thread lives. Nothing is assumed
of refreshes being made, of administrators, or of collections succeeding. In
`AlertEvents` passes are started again and again, so its liveness properties
are conditional on that: for detectors and rules it is what `EveryJobServed` gives,
hence as long as the scheduler thread lives; IPMI has a loop of its own. A worker
goes on with the key at hand, and exceptions do not hit the same step for ever.
Strong fairness is needed where `Abort`, maintenance or the other worker can take
the step away. For `Sample`, administrators and `Abort` no fairness is assumed.

In `PollStore` a pass is started whenever one is free, while the scheduler thread
lives, and goes on: database and webhook calls return. Weak fairness is enough because nothing takes a pass's next
step away but its own failure, and there are at most `MaxFaults` of those.
The other modules state safety only, without fairness.

What the properties say is at their definitions. `EveryJobServed` says that a
server is collected again and again in each tier, not how often: that a new
server may wait a day for its inventory (the due time is that of the fleet) is
compatible with it.

Every property is paired in `PROJECT.json` with a mutant of a code definition
(`...Anyway`, `GivesUpHolding`, `ToCloseUnacked`, ...) under which it fails.

## 5. Proofs

`PollCycleProofs` proves, for all sets of servers, tiers, refreshes and slots,
from `NamesAssumption` alone:

* `TypeCorrect`, `OneSessionPerJob`, `NoLeakedKey`, `OneCycle`,
  `EvaluationAfterJoins`: the invariants of `PollTiers.cfg`;
* `Refinement`: `Spec => Sessions!Spec`.

The argument. `SshExclusive` is not inductive: a thread may begin when its key
is free, and only `BusyOwned` says that a free key has no owner; conversely
giving a key back keeps `BusyOwned` only because the owner is unique. So the two
go together (`BusyOpen`, `BusyClose`, `BusyFrame`). `EvalAfterJoins` needs to
know that a thread that ended stays ended until the rules are evaluated:
`JoinInv` says that every thread a cycle has started and no longer waits for is
idle or late, and a thread becomes `new` again only by `Spawn` of a cycle,
which by `CycleExclusive` is the same one, at a point where it has started
nothing. `IInv` is the conjunction of types, these invariants and `JoinInv`.
The refinement shows that `Begin` is `Open` (the key was free, so by `BusyOwned`
no session has the job), `SshReturns` and `SshGivesUp` are `Close`, and all
other steps leave the sessions alone.

`AlertEventsProofs` proves, for all sets of servers, detectors and rules, any
finite set of pollers and any number of copies of an event, from
`WorkersAssumption`, `SourcesAssumption` and `PollersAssumption`:

* `TypeCorrect`, `OneOpenEvent` and `BoundedDuplicates`: the three invariants
  of `AlertEvents.cfg`.

The argument. That a rule or BMC key has at most one open event rests on what
its worker knew when it looked: an insert adds a second event only if one was
opened between the look and the commit. `OwnKeys` says that such a key is in the
hands of one worker only, the evaluator or the server's IPMI task, and
`LookHolds` that while this worker is about to insert there is no open event of
the key, provided that the key can still be inserted at all: a rule deleted in
between takes its events with it and the insert fails. All steps but a look and
an insert are `Quiet`: they open nothing, decide nothing and bring no rule back.
Keys of the other kinds have many owners, and looks of several pollers may find
nothing at the same time. `CountInv` counts: the open events of a key and the
pollers about to insert one are together no more than there are pollers. A look adds a poller only when no
event is open, and an insert turns a poller into an event.

`IdleStateProofs` proves `TypeCorrect` for any fleet and, for a fleet of one
server (`Server = {s}`), `OneServerCommitted` and `OneServerReported`: memory
equals the committed row outside the save, and the row names exactly the idle GPUs,
each with its exact start unless a fault made it `overrun`, and then with an earlier
one, through any number of faults. One server is
assumed because polls of several side by side do lose updates (`IdleFleet.cfg`).

`RetentionProofs` proves, where ids are not given twice, `TypeCorrect`,
`NoDuplicates` and `KeeperImplemented`. Rows that appear after the boundary was
found have greater ids, so what the thread will delete only becomes less
(`Covered`), and all of it was in the content that was published. `Absent` says
that what a restore is about to insert is not in the table: restored samples are
of past periods (`Past`), polls and imports write none of those that are
archived.

`HostsProofs` proves `TypeCorrect`, `OneKeyPerIdentity`, `TrustImplemented` and
`PinFollowsHolds`.
`Places` says at which steps a task of which kind can be; `PinFresh` that a
task which has loaded a key holds the file's key, unless an order was obeyed
since. `PinFollowsHolds` follows from these: a key is written for the address its
task has read, and `stray` has the server from then on if that is not the one
it has any more.

`PollStoreProofs` proves `TypesHold`, `RecoveryHeardHolds` and `MissingToldHolds`,
for any cards and lines of the log and any number of passes. Recoveries: an event
is `notified` only if it was heard, and a pass about to write `notified` holds an
event that was (`Heard`). Missing GPUs: the invariant `Missing` extends
`MissingTold` to what a pass has set and not written (`mark`): its event is there
or its insert is the next step, in the same transaction or before it. A pass that
was alone throughout has loaded rows that are still as they were (`Alone`), and
when it closes an event, the same commit leaves no `missing_since` (`Resets`);
every other close is in `excused`.

`AccountsProofs` proves `OnlyCurrentSessions`, `RefusedStayRefused`,
`CodeUsedOnceHolds`, `GuessesBoundedHolds` and `TypesHold` for any number of users,
addresses and codes, any finite number of concurrent requests and any limits, in
three invariants. `Inv`, for the sessions: token versions and `auth_id`s only
grow (`Numbered`), no session or request is ahead of its account
(`SessionsBehind`, `RequestsBehind`), and one that carries the account's present
version was made after the last change of password; `AccountStep` reduces every
commit to what it does to the version. All of this is said of accounts that are not
in `overwritten`: the reset script breaks it for those and for no others.

`CodeInv`, for the codes. `CodeUsedOnce` is not inductive: a request may hold a
code that has been accepted since it read its row, and it is the `WHERE` clause
that turns it away. `SpentBehind` says that the codes accepted for a secret are not
newer than its counter, so nobody who reads the row now gets such a code past
`verify_totp`; `SpentMissed` that whoever holds one, with the version still as it
was read, has read another counter than the row has; `SameStage` that between two
versions nobody sees a secret both confirmed and not, which is what a counter of
0 would hide; `SecretsOwned` that a secret is never had by two accounts, and
`AllPaired` that a row has a counter exactly when it is confirmed. A row written
column by column can break `SpentBehind`, for secrets in `rewound` only.

`LimiterInv`, for the failed logins. What the limiter keeps of a key and what the
key has failed are not the same, because a lock clears the list. `Sound` says that
they agree on every failure whose window ends after the lock does: so an unlocked
key has failed less often than its limit, and at the moment it is locked, at most
as often. While it is locked no login of it passes the check, and each of those
that had passed fails at most once: failures and logins under way together stay
below the limit plus the number of workers (`Known`). A sweep takes a key only
when there is nothing to agree on; an eviction ends the count.

`RollupProofs` proves `TypeCorrect`, `RowsOnlyGrow` and `HoursWithoutHole` for any
servers, samples, window and retention, with samples deleted in any order and put back
at any time. For the second: a row is backed by all its samples as long as nothing of
its hour was taken (`Full`); and an hour of which something was taken while it has
an older sample in the table, which is what the worker's choice asks for, is in `torn`
(`Taken`). So the hours chosen are whole or excused; `Excused`, `Beyond`, `Ahead` and
`InHand` carry that to the moment of the write, `Covering` and `Apart` keep the two
jobs from spoiling each other's hours. For the third: servers that stay enabled have
rows for exactly the hours any server has (`Even`), those hours have no gap
(`Whole`), and the foreground's hours follow on them (`Onward`).

Only model-checked: all liveness (`EveryJobServed`, `FaultClears`, `FaultRaised`,
`MaintenanceSettles`, `RuleClears`, `PointCloses`, `KernelRecorded`,
`ReturnClears`), which is beyond this prover, as fairness and `ENABLED` are. The
four refuted properties of section 6 have their counterexamples from TLC.
Refinements are proved without fairness; the abstract specifications have none.

## 6. Where code and documents disagree

| run | code | document |
|---|---|---|
| `JoinCeiling.cfg` | every join waits up to 180 s by itself (`scheduler.py:906`) | "hard ceiling for one full poll cycle (all joins combined)" (`scheduler.py:47`) |
| `MaintenanceSilent.cfg` | the IPMI loop selects servers by `enabled` only and fires (`scheduler.py:1412`) | maintenance silences all detectors and rule alerts (`README.md:90-91`) |
| `AckedRule.cfg` | an acknowledged rule event is skipped before the recovery branch (`scheduler.py:240`) | acknowledging only claims the event, it recovers by itself (`README.md:96-97`) |
| `IdleFleet.cfg` | unlocked load, change and save of one map by all pollers (`scheduler.py:386`) | "exact, unbounded idle durations" (`scheduler.py:302-303`) |

`MaintenanceSilent` and `AckedRuleClears` are refuted under fairness, with
behaviours in which the server stays in maintenance, or the condition stays
clear, for ever. `MaintenanceSettles` and `RuleClears`, which hold, are the same
statements without the IPMI loop and without acknowledged events.

The following the models have as the code has it, and the properties name as
exceptions:

* `reset_admin_mfa.py:31` writes the token version it has read plus one. Run beside
  requests, as the documents have it run, it may set a version back, and a token that
  was refused is accepted again; `README.md:62-63` says that old tokens are
  invalid at once (`overwritten` in `Accounts`).
* `scheduler.py:1283`: one database error in `_load_interval` ends the scheduler thread
  (`IntervalFails` in `PollCycle`).
* With one server too, a fault between a busy sample and the save of the idle map
  makes the next idle run begin too early, where `scheduler.py:302-303` says "exact"
  (`overrun` in `IdleState`).
* `collectors_extra.py:530-534`: one OOM event of each tail, and no more than 100
  events; the others may never get a row (`Parsed` in `PollStore`).
* `scheduler.py:1147-1154`: a broken-off retention pass or a restore makes an hour
  of which samples are gone look whole, and a legacy row of it is rebuilt from less
  (`torn` in `Rollup`).

## 7. What is not modelled

Components. The cache: values live for seconds, every miss, failure or race ends
in a direct computation, and no document promises how fresh a value is. Migrations
are SQL text. The MCP server and the read-only APIs keep no state; the front end's
request helpers live in the browser. Collectors' remote commands and parsers are
formats; of the collection only its outcome is here. Middleware, validation and
most settings are single requests over values.

Inside modelled components: the text of messages, webhooks and their templates,
address checks; the values of samples (only what a detector or rule makes of
them), averages and card minutes of the rollup; PSU_FAULT and SEL_CRITICAL, which
only an administrator closes; assignment of alerts; two polls of one server in
`IdleState`; shutdown of the scheduler and the heartbeat; hashing, cookies and
CSRF; the limiter of re-authentications; permissions of key files;
`scrub_sensitive_history.py`, which takes process lists out of stored samples, and
`rotate_credentials.py`, which encrypts stored credentials and secrets anew, both one
pass in the live container (`SECURITY_HARDENING.md:37-38`, `116-117`): the models
have no ciphertexts, and that the pass may write a secret back which a request has
replaced or cleared meanwhile is left out; several
copies of a GPU's baseline row, which two first polls may insert.
