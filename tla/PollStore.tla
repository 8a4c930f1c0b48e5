----------------------------- MODULE PollStore -----------------------------
(***************************************************************************)
(* What polls of one server leave behind, from the sample to the webhook:  *)
(* collect and parse_kernel_log, _store_kernel_events and the store of     *)
(* _poll_one, update_gpu_baseline, and of run_detectors the one detector   *)
(* with a memory of its own: GPU_MISSING fires only when it sets           *)
(* missing_since.  The other detectors, kernel events among them, look at  *)
(* what is stored and are in AlertEvents, as are servers in maintenance.   *)
(*                                                                         *)
(* A pass whose SSH phase is over no longer holds the server's slot, so    *)
(* passes overlap, and each writes through a session of its own: what it   *)
(* has changed is written at its next commit (autoflush=False), and after  *)
(* a commit its rows are read again when they are next used.               *)
(*                                                                         *)
(* Abstracted: a sample is an error (None) or the uuids it shows; a line   *)
(* of the kernel log is one parsed event, with its hash for identity;      *)
(* messages, templates and addresses are left out, and a webhook call may  *)
(* fail for any reason.  gpu_baseline has no unique constraint: copies of  *)
(* a row that two first polls insert are one row here, missing when one    *)
(* of them is.                                                             *)
(***************************************************************************)
EXTENDS Naturals, FiniteSets, Sequences

CONSTANTS
    Pass,       \* poll threads of the server that may overlap
    Gpu,
    Line,       \* lines the kernel may log, of the kinds that are parsed
    Oom,        \* those of out-of-memory incidents
    Victim,     \* those that say "Killed process"
    Machine,    \* the hardware looked at: sets of GPUs and lines
    Copy,       \* bound: event rows of one GPU, numbered
    MaxEvents,  \* the events parse_kernel_log returns of one tail: 100
    Channel,    \* min_severity of the enabled webhook channels
    MaxFaults,  \* bound: failed collections, failed transactions and crashes
    None

Source   == Gpu \cup Line
Event    == Gpu \X Copy
Rank     == [info |-> 0, warning |-> 1, critical |-> 2]
Severity == DOMAIN Rank

ASSUME SourceAssumption ==
    /\ Gpu \cap Line = {} /\ None \notin Source \cup Event \cup Pass
    /\ Oom \subseteq Line /\ Victim \subseteq Oom
    /\ Machine \subseteq SUBSET Source /\ Channel \subseteq Severity
    /\ {MaxEvents, MaxFaults} \subseteq Nat /\ Copy \subseteq Nat

Pc == {"idle", "hashes", "insert", "store", "baseline", "update", "detect",
       "load", "look", "fire", "send", "note", "close", "reread"}

PassState ==
    [pc : Pc,
     gpus : (SUBSET Gpu) \cup {None},  \* the sample, then the latest stored one
     lines : SUBSET Line,            \* the sample's, then those without a row
     base : [Gpu -> {"unknown", "seen", "missing", "expired"}],
     todo : SUBSET Gpu,
     at : Gpu \cup {None},
     ev : Event \cup {None},
     mark : SUBSET Gpu,              \* missing_since set, not yet written
     clear : SUBSET Gpu,             \* missing_since reset, not yet written
     alone : BOOLEAN]                \* history: no other pass has run beside it

VARIABLES
    hardware,  \* the member of Machine this server is
    present,   \* the GPUs nvidia-smi shows
    log,       \* the tail of the kernel log the script reads, oldest line first
    latest,    \* the last sample stored: ServerMetric by collected_at
    baseline,  \* gpu_baseline: missing_since set or not
    row,       \* kernel_events: the lines that have a row
    event,     \* alert_events, with what is history: heard, whether a channel
               \* has taken the alert
    pass,
    faults,
    excused    \* history: GPUs whose event an administrator, or a pass that
               \* overlapped another, has closed since it was inserted

environment == <<hardware, present, log>>
store       == <<latest, baseline, row>>
alerts      == <<event, excused>>
vars        == <<environment, store, alerts, pass, faults>>

TypeOK ==
    /\ hardware \in Machine
    /\ present \subseteq Gpu \cap hardware
    /\ log \in Seq(Line \cap hardware)
    /\ latest \in (SUBSET Gpu) \cup {None}
    /\ baseline \in [Gpu -> {"unknown", "seen", "missing"}]
    /\ row \subseteq Line
    /\ event \in [Event -> [open : BOOLEAN, notified : BOOLEAN, heard : BOOLEAN]]
    /\ pass \in [Pass -> PassState]
    /\ faults \in 0..MaxFaults
    /\ excused \subseteq Gpu

Closed == [open |-> FALSE, notified |-> FALSE, heard |-> FALSE]

Expired == [g \in Gpu |-> "expired"]

Rest == [pc |-> "idle", gpus |-> None, lines |-> {},
         base |-> Expired, todo |-> {}, at |-> None, ev |-> None,
         mark |-> {}, clear |-> {}, alone |-> TRUE]

Init ==
    /\ hardware \in Machine
    /\ present = Gpu \cap hardware
    /\ log = << >>
    /\ latest = None
    /\ baseline = [g \in Gpu |-> "unknown"]
    /\ row = {}
    /\ event = [e \in Event |-> Closed]
    /\ pass = [p \in Pass |-> Rest]
    /\ faults = 0
    /\ excused = {}

At(p, pc)   == pass[p].pc = pc
Active      == {p \in Pass : ~At(p, "idle")}
OpenOf(g)   == {e \in Event : e[1] = g /\ event[e].open}
\* p refers to its event no more; a closed row is kept only while a pass does.
LetsGo(p, rows) ==
    event' = [e \in Event |->
        IF rows[e].open \/ \E q \in Pass \ {p} : pass[q].ev = e THEN rows[e] ELSE Closed]

Step(p, r)  == pass' = [pass EXCEPT ![p] = r]
Goto(p, pc) == Step(p, [pass[p] EXCEPT !.pc = pc])

-----------------------------------------------------------------------------
(* The server and the administrators.                                      *)

\* A GPU falls off the bus, or is back after a reboot.
Hardware(g) ==
    /\ g \in hardware
    /\ present' = IF g \in present THEN present \ {g} ELSE present \cup {g}
    /\ UNCHANGED <<hardware, log, store, alerts, pass, faults>>

Lines(tail) == {tail[i] : i \in DOMAIN tail}

\* The kernel logs a line.
Logs(k) ==
    /\ k \in hardware \ Lines(log)
    /\ log' = Append(log, k)
    /\ UNCHANGED <<hardware, present, store, alerts, pass, faults>>

\* The oldest line is no longer among the last 400.
DropsOut ==
    /\ log # << >>
    /\ log' = Tail(log)
    /\ UNCHANGED <<hardware, present, store, alerts, pass, faults>>

\* resolve_event.
Resolve(e) ==
    /\ event[e].open
    /\ LetsGo(None, [event EXCEPT ![e].open = FALSE])
    /\ excused' = excused \cup {e[1]}
    /\ UNCHANGED <<environment, store, pass, faults>>

-----------------------------------------------------------------------------
(* The sample, and the lines that come with it.                            *)

Begins(p, r) ==
    /\ At(p, "idle")
    /\ pass' = [q \in Pass |-> IF q = p THEN [r EXCEPT !.alone = (Active = {})]
                               ELSE [pass[q] EXCEPT !.alone = At(q, "idle")]]
    /\ UNCHANGED <<environment, store, alerts>>

\* The one OOM line of a tail that becomes an event: the first that names a
\* victim, or, when none does, the first.
Chosen(tail, i) ==
    LET kind == IF Lines(tail) \cap Victim # {} THEN Victim ELSE Oom
    IN  tail[i] \in kind /\ \A j \in DOMAIN tail : tail[j] \in kind => i <= j

Events(tail) == {i \in DOMAIN tail : tail[i] \in Oom => Chosen(tail, i)}

\* parse_kernel_log: the first MaxEvents events of the tail.
Parsed(tail) ==
    {tail[i] : i \in {x \in Events(tail) :
                         Cardinality({y \in Events(tail) : y < x}) < MaxEvents}}

\* collect returns a sample; without events _store_kernel_events does nothing.
Collect(p) ==
    /\ Begins(p, [Rest EXCEPT !.gpus = present, !.lines = Parsed(log),
                              !.pc = IF Parsed(log) = {} THEN "store" ELSE "hashes"])
    /\ UNCHANGED faults

\* connect_host, the script or the parser fails: an error is stored.
CollectFails(p) ==
    /\ faults < MaxFaults
    /\ Begins(p, [Rest EXCEPT !.pc = "store"])
    /\ faults' = faults + 1

\* Mutant: a batch with a known line is skipped as a whole.
KnownBatch(lines) == IF lines \cap row = {} THEN {} ELSE lines

\* _store_kernel_events, the query for known hashes.
KnownAmong(lines) == lines \cap row

ReadHashes(p) ==
    LET fresh == pass[p].lines \ KnownAmong(pass[p].lines) IN
    /\ At(p, "hashes")
    /\ Step(p, [pass[p] EXCEPT !.pc = IF fresh = {} THEN "store" ELSE "insert",
                               !.lines = fresh])
    /\ UNCHANGED <<environment, store, alerts, faults>>

\* The inserts: when another pass has inserted one of them meanwhile,
\* uq_kernel_dedup fails the commit and none of the batch is stored.
InsertRows(p) ==
    LET fresh == pass[p].lines IN
    /\ At(p, "insert")
    /\ row' = IF fresh \cap row = {} THEN row \cup fresh ELSE row
    /\ Step(p, [pass[p] EXCEPT !.pc = "store", !.lines = {}])
    /\ UNCHANGED <<environment, latest, baseline, alerts, faults>>

\* The ServerMetric row, stamped now.
Store(p) ==
    /\ At(p, "store")
    /\ latest' = pass[p].gpus
    /\ Goto(p, CASE pass[p].gpus = None -> "detect"
                 [] pass[p].gpus = {} -> "detect"    \* no uuid: nothing to record
                 [] OTHER -> "baseline")
    /\ UNCHANGED <<environment, baseline, row, alerts, faults>>

-----------------------------------------------------------------------------
(* The baseline.                                                           *)

\* What a row loaded in this session says: what was loaded, or the row as
\* it is now when a commit has expired it.
Loaded(p, g) == IF pass[p].base[g] = "expired" THEN baseline[g]
                ELSE pass[p].base[g]

ReadBaseline(p) ==
    /\ At(p, "baseline")
    /\ Step(p, [pass[p] EXCEPT !.pc = "update", !.base = baseline])
    /\ UNCHANGED <<environment, store, alerts, faults>>

\* A new row, or missing_since = None, which is written only when the row
\* was loaded with a date in it.
UpdateBaseline(p) ==
    /\ At(p, "update")
    /\ baseline' = [g \in Gpu |->
           CASE g \in pass[p].gpus /\ pass[p].base[g] = "missing" -> "seen"
             [] g \in pass[p].gpus /\ baseline[g] = "unknown" -> "seen"
             [] OTHER -> baseline[g]]
    /\ Step(p, [pass[p] EXCEPT !.pc = "detect", !.gpus = None, !.base = Expired])
    /\ UNCHANGED <<environment, latest, row, alerts, faults>>

-----------------------------------------------------------------------------
(* run_detectors: what the session has pending, and GPU_MISSING.           *)

\* Mutants: whole rows are written back; missing_since is never reset.
WrittenWhole(p) == [g \in Gpu |-> CASE g \in pass[p].clear -> "seen"
                                    [] g \in pass[p].mark -> "missing"
                                    [] OTHER -> pass[p].base[g]]

WrittenMarks(p) == [g \in Gpu |-> IF g \in pass[p].mark THEN "missing"
                                  ELSE baseline[g]]

\* Every commit of the session writes what is pending and expires its rows.
Written(p) == [g \in Gpu |-> CASE g \in pass[p].clear -> "seen"
                               [] g \in pass[p].mark -> "missing"
                               [] OTHER -> baseline[g]]

Committed(p) == [pass[p] EXCEPT !.mark = {}, !.clear = {}, !.base = Expired]

Commit(p, r) ==
    /\ baseline' = Written(p)
    /\ Step(p, r)

\* The next turn of the loop.
Onward(r, g) == [r EXCEPT !.pc = "look", !.at = None, !.ev = None, !.todo = @ \ {g}]

\* The latest sample is read; an error ends what is modelled here.
Detect(p) ==
    /\ At(p, "detect")
    /\ Step(p, IF latest = None THEN Rest
               ELSE [pass[p] EXCEPT !.pc = "load", !.gpus = latest])
    /\ UNCHANGED <<environment, store, alerts, faults>>

LoadBaseline(p) ==
    /\ At(p, "load")
    /\ Step(p, [pass[p] EXCEPT !.pc = "look", !.base = baseline,
                               !.todo = {g \in Gpu : baseline[g] # "unknown"}])
    /\ UNCHANGED <<environment, store, alerts, faults>>

\* Mutant: an event is closed only by the pass that resets missing_since.
ToCloseOnReset(p, g) ==
    IF g \in pass[p].gpus /\ Loaded(p, g) = "missing" THEN OpenOf(g) ELSE {}

\* _recover looks for an event of a GPU that is in the sample; _fire inserts
\* one for a GPU that is not, when missing_since was unset and none is open.
ToClose(p, g) == IF g \in pass[p].gpus THEN OpenOf(g) ELSE {}

Lost(p, g) == g \notin pass[p].gpus /\ Loaded(p, g) = "seen"
Back(p, g) == g \in pass[p].gpus /\ Loaded(p, g) = "missing"

\* One turn of the loop of _detect_gpu_missing: the change of missing_since
\* stays in the session.
LooksAtGpu(p, g) ==
    LET r == [pass[p] EXCEPT !.clear = IF Back(p, g) THEN @ \cup {g} ELSE @,
                             !.mark = IF Lost(p, g) THEN @ \cup {g} ELSE @]
        fires == Lost(p, g) /\ OpenOf(g) = {}
    IN /\ At(p, "look") /\ g \in pass[p].todo
       /\ \/ \E e \in ToClose(p, g) : Step(p, [r EXCEPT !.pc = "close", !.ev = e])
          \/ fires /\ Step(p, [r EXCEPT !.pc = "fire", !.at = g])
          \/ ~fires /\ ToClose(p, g) = {} /\ Step(p, Onward(r, g))
       /\ UNCHANGED <<environment, store, alerts, faults>>

\* The commit after the loop.
GpusDone(p) ==
    /\ At(p, "look") /\ pass[p].todo = {}
    /\ Commit(p, Rest)
    /\ UNCHANGED <<environment, latest, row, alerts, faults>>

\* _recover sets recovered_at and commits.
CloseEvent(p) ==
    LET e == pass[p].ev IN
    /\ At(p, "close")
    /\ event' = [event EXCEPT ![e].open = FALSE]
    /\ excused' = IF pass[p].alone THEN excused ELSE excused \cup {e[1]}
    /\ Commit(p, [Committed(p) EXCEPT !.pc = "reread"])
    /\ UNCHANGED <<environment, latest, row, faults>>

\* Mutant: the recovery is sent in any case.
Always(e) == TRUE

\* "if ev.notified": the row is read again.
WasNotified(e) == event[e].notified

\* notify_recovery: whatever comes of it, nothing is stored.
SendRecovery(p) ==
    /\ At(p, "reread") /\ WasNotified(pass[p].ev)
    /\ Step(p, Onward(pass[p], pass[p].ev[1]))
    /\ LetsGo(p, event)
    /\ UNCHANGED <<environment, store, excused, faults>>

NoRecovery(p) ==
    /\ At(p, "reread") /\ ~WasNotified(pass[p].ev)
    /\ Step(p, Onward(pass[p], pass[p].ev[1]))
    /\ LetsGo(p, event)
    /\ UNCHANGED <<environment, store, excused, faults>>

-----------------------------------------------------------------------------
(* _fire and its webhook.                                                  *)

\* The first slot that is closed, and that no pass refers to any more,
\* stands for a new row.
Free(e) == ~event[e].open /\ \A q \in Pass : pass[q].ev # e

NewRow(g, e) == /\ e[1] = g /\ Free(e)
                /\ \A c \in Copy : Free(<<g, c>>) => e[2] <= c

\* The insert commits, and with it missing_since.
Fire(p) ==
    LET g == pass[p].at IN
    /\ At(p, "fire")
    /\ \E e \in {f \in Event : NewRow(g, f)} :
          /\ event' = [event EXCEPT ![e] = [Closed EXCEPT !.open = TRUE]]
          /\ Commit(p, [Committed(p) EXCEPT !.pc = "send", !.ev = e])
    /\ excused' = excused \ {g}
    /\ UNCHANGED <<environment, latest, row, faults>>

\* _dispatch reaches the channels whose threshold the severity meets.
Reached(severity) == {c \in Channel : Rank[c] <= Rank[severity]}

\* send_webhook: an address that is refused, a connection that fails and any
\* status but 2xx are failures alike.
SendWebhook == BOOLEAN

\* One success is enough.  Without one notified stays FALSE, as inserted.
Send(p) ==
    LET r == pass[p] IN
    /\ At(p, "send")
    /\ \/ /\ \E ok \in [Reached("critical") -> SendWebhook] :
                TRUE \in {ok[c] : c \in DOMAIN ok}
          /\ event' = [event EXCEPT ![r.ev].heard = TRUE]
          /\ Goto(p, "note")
       \/ /\ Step(p, Onward(r, r.at))
          /\ LetsGo(p, event)
    /\ UNCHANGED <<environment, store, excused, faults>>

\* ev.notified is written.
Note(p) ==
    LET r == pass[p] IN
    /\ At(p, "note")
    /\ LetsGo(p, [event EXCEPT ![r.ev].notified = TRUE])
    /\ Commit(p, Onward(Committed(p), r.at))
    /\ UNCHANGED <<environment, latest, row, excused, faults>>

-----------------------------------------------------------------------------
(* A transaction fails: what is pending is rolled back and the pass goes   *)
(* on after it, or ends.  A crash ends every pass where it is.             *)

RollsBack(p) ==
    LET r == pass[p] IN
    /\ ~At(p, "idle") /\ faults < MaxFaults
    /\ faults' = faults + 1
    /\ Step(p, CASE r.pc \in {"hashes", "insert"} ->
                        [r EXCEPT !.pc = "store", !.lines = {}]
                 [] r.pc \in {"baseline", "update"} ->
                        [r EXCEPT !.pc = "detect", !.gpus = None, !.base = Expired]
                 [] OTHER -> Rest)
    /\ LetsGo(p, event)
    /\ UNCHANGED <<environment, store, excused>>

Crash ==
    /\ faults < MaxFaults /\ Active # {}
    /\ faults' = faults + 1
    /\ pass' = [p \in Pass |-> Rest]
    /\ event' = [e \in Event |-> IF event[e].open THEN event[e] ELSE Closed]
    /\ UNCHANGED <<environment, store, excused>>

-----------------------------------------------------------------------------
Work(p) ==
    \/ ReadHashes(p) \/ InsertRows(p) \/ Store(p)
    \/ ReadBaseline(p) \/ UpdateBaseline(p)
    \/ Detect(p) \/ LoadBaseline(p) \/ GpusDone(p)
    \/ \E g \in Gpu : LooksAtGpu(p, g)
    \/ CloseEvent(p) \/ SendRecovery(p) \/ NoRecovery(p)
    \/ Fire(p) \/ Send(p) \/ Note(p)

Next ==
    \/ \E g \in Gpu : Hardware(g)
    \/ \E k \in Line : Logs(k)
    \/ DropsOut
    \/ \E e \in Event : Resolve(e)
    \/ \E p \in Pass : Collect(p) \/ CollectFails(p) \/ Work(p) \/ RollsBack(p)
    \/ Crash

\* The poll loop starts a poll whenever the slot is free, and a thread goes
\* on: every database and webhook call returns.
Fairness == \A p \in Pass : WF_vars(Collect(p)) /\ WF_vars(Work(p))

Spec == Init /\ [][Next]_vars /\ Fairness

-----------------------------------------------------------------------------
(* Properties.                                                             *)

\* A GPU that gpu_baseline says is missing has an open GPU_MISSING event,
\* unless an administrator or overlapping passes have closed it: the event
\* and missing_since, which keeps it from being fired again, are never one
\* without the other through a failed transaction or a crash
\* (_detect_gpu_missing, _fire).
MissingTold ==
    \A g \in Gpu : baseline[g] = "missing" => OpenOf(g) # {} \/ g \in excused

\* A recovery is sent only for an event whose alert a channel has taken
\* (_recover's test of notified, which _notify sets from what
\* notify_alert returned).
RecoveryHeard ==
    [][\A p \in Pass : SendRecovery(p) => event[pass[p].ev].heard]_vars

\* A line that stays among the events parse_kernel_log returns gets its row,
\* whatever the batches that overlapping passes lose to uq_kernel_dedup
\* (_store_kernel_events).  Of the other lines of a tail nothing is promised:
\* not those past the first MaxEvents events, and of OOM lines, those of one
\* incident or of several, only the chosen one.
KernelRecorded == \A k \in Line : k \in Parsed(log) ~> (k \in row \/ k \notin Parsed(log))

\* The GPU_MISSING events of a GPU that is back are closed, also when an
\* overlapping pass stores or acts on an older sample (_detect_gpu_missing).
ReturnClears ==
    \A g \in Gpu : g \in present ~> (OpenOf(g) = {} \/ g \notin present)
=============================================================================
