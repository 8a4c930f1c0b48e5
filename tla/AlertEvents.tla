---------------------------- MODULE AlertEvents ----------------------------
(***************************************************************************)
(* The life of alert events: backend/app/health.py (run_detectors, _fire,  *)
(* _recover, the TTL of point events), scheduler.py (_eval_alerts,         *)
(* _store_ipmi, _expire_maintenance) and api/alerts.py (ack, resolve, rule *)
(* changes).                                                               *)
(*                                                                         *)
(* Every worker first reads what the latest samples say and then, key by   *)
(* key, looks for an open event and inserts or closes one in a transaction *)
(* of its own; nothing in the database keeps two workers from inserting    *)
(* the same event.  Poll threads of one server may overlap (PollCycle);    *)
(* rules are evaluated by one thread, the holder of _cycle_lock; the IPMI  *)
(* loop has one task per server and waits for all before the next round.   *)
(*                                                                         *)
(* Abstracted: a sample is reduced to what a detector or rule makes of it: *)
(* "bad" (it would fire), "good" (it would recover) or "unclear" (neither: *)
(* no value, a first SSH error, a breach that has not lasted).  Closed     *)
(* events are forgotten.  Messages, values and webhooks are left out.      *)
(* A worker's query sees what is committed by then, as in SQLite, the      *)
(* default database.                                                       *)
(*                                                                         *)
(* Left out: GPU_MISSING, which fires on the change of missing_since only; *)
(* PSU_FAULT and SEL_CRITICAL, which nothing but resolve_event closes.     *)
(***************************************************************************)
EXTENDS Naturals, FiniteSets

CONSTANTS
    Server,
    Poller,     \* poll threads that may run detectors at the same time
    Fault,      \* detectors that _recover one open event: idle VRAM, ECC,
                \* throttling, storage, NVMe, RAID, services
    SshFault,   \* SSH_FAULT, which recovers every open event at once
    Point,      \* kernel event keys (Xid, OOM, MCE, AER), closed by the TTL
    Bmc,        \* BMC_UNREACHABLE and CHASSIS_POWER_OFF of the IPMI loop
    Rule,       \* user alert rules
    Evaluator,  \* the thread in _eval_alerts
    Copy        \* bound: open events of one key

ASSUME WorkersAssumption ==
    /\ Poller \cap Server = {}
    /\ Evaluator \notin Poller \cup Server

ASSUME PollersAssumption == IsFiniteSet(Poller)

ASSUME SourcesAssumption ==
    /\ (Fault \cup SshFault \cup Point) \cap (Bmc \cup Rule) = {}
    /\ Bmc \cap Rule = {}
    /\ Point \cap (Fault \cup SshFault) = {}

\* The IPMI task of a server goes by the server's name.
Worker == Poller \cup Server \cup {Evaluator}

PollSource == Fault \cup SshFault \cup Point
Source     == PollSource \cup Bmc \cup Rule
Key        == Server \X Source
Event      == [key : Key, copy : Copy]

VARIABLES
    status,   \* Server.status, reduced to active or maintenance
    rule,     \* AlertRule: enabled, disabled or deleted
    reading,  \* what the latest stored samples say about a key
    event,    \* "none", "open" or "acked"; open means not recovered
    aged,     \* open point events older than POINT_EVENT_TTL_MINUTES
    todo,     \* what a worker has read and still has to act on
    fires,    \* the keys a worker is about to insert an event for
    closes    \* the events a worker is about to close

vars    == <<status, rule, reading, event, aged, todo, fires, closes>>
rows    == <<status, rule, event, aged>>
workers == <<todo, fires, closes>>

Verdict == {"bad", "good"}

TypeOK ==
    /\ status \in [Server -> {"active", "maintenance"}]
    /\ rule \in [Rule -> {"enabled", "disabled", "deleted"}]
    /\ reading \in [Key -> Verdict \cup {"unclear"}]
    /\ event \in [Event -> {"none", "open", "acked"}]
    /\ aged \in SUBSET Event
    /\ todo \in [Worker -> SUBSET (Key \X Verdict)]
    /\ fires \in [Worker -> SUBSET Key]
    /\ closes \in [Worker -> SUBSET Event]

Init ==
    /\ status = [s \in Server |-> "active"]
    /\ rule = [r \in Rule |-> "enabled"]
    /\ reading = [k \in Key |-> "unclear"]
    /\ event = [e \in Event |-> "none"]
    /\ aged = {}
    /\ todo = [w \in Worker |-> {}]
    /\ fires = [w \in Worker |-> {}]
    /\ closes = [w \in Worker |-> {}]

IsOpen(e)  == event[e] # "none"
OpenOf(k)  == {e \in Event : e.key = k /\ IsOpen(e)}
Rows(S)    == {e \in Event : e.key[2] \in S}
Idle(w)    == todo[w] = {} /\ fires[w] = {} /\ closes[w] = {}

\* The keys K with what the samples say of them, the unclear ones left out.
ReadOf(K) == {<<k, reading[k]>> : k \in {j \in K : reading[j] # "unclear"}}

\* What the detectors of a poll make of the samples of a server.
Detected(s) == ReadOf({s} \X PollSource)

-----------------------------------------------------------------------------
(* The environment.                                                        *)

\* A poll, a slow collection or an IPMI snapshot is stored.
Sample(k, v) ==
    /\ reading[k] # v
    /\ reading' = [reading EXCEPT ![k] = v]
    /\ UNCHANGED <<rows, workers>>

\* A point event passes its time to live.
Ages(e) ==
    /\ e \in Rows(Point) /\ IsOpen(e) /\ e \notin aged
    /\ aged' = aged \cup {e}
    /\ UNCHANGED <<status, rule, reading, event, workers>>

-----------------------------------------------------------------------------
(* Administrators.                                                         *)

\* PUT /api/servers/{id}/status, or _expire_maintenance at the window's end.
SetStatus(s, v) ==
    /\ status[s] # v
    /\ status' = [status EXCEPT ![s] = v]
    /\ UNCHANGED <<rule, reading, event, aged, workers>>

\* update_rule and delete_rule.  A deleted rule stays deleted; its events
\* keep rule_id NULL, which no evaluation and no detector looks for.
SetRule(r, v) ==
    /\ rule[r] \notin {v, "deleted"}
    /\ rule' = [rule EXCEPT ![r] = v]
    /\ UNCHANGED <<status, reading, event, aged, workers>>

\* ack_event: a recovered event is refused, a second ack changes nothing.
AckEvent(e) ==
    /\ event[e] = "open"
    /\ event' = [event EXCEPT ![e] = "acked"]
    /\ UNCHANGED <<status, rule, reading, aged, workers>>

\* Rows recovered_at is set for: they leave the open list for good.
Close(S) ==
    /\ event' = [e \in Event |-> IF e \in S THEN "none" ELSE event[e]]
    /\ aged' = aged \ S

\* resolve_event.
ResolveEvent(e) ==
    /\ IsOpen(e)
    /\ Close({e})
    /\ UNCHANGED <<status, rule, reading, workers>>

-----------------------------------------------------------------------------
(* The workers start.                                                      *)

\* Mutant: detectors run in maintenance as well.
RunDetectorsAlways(p, s) ==
    /\ Idle(p)
    /\ Close(aged)
    /\ todo' = [todo EXCEPT ![p] = Detected(s)]
    /\ UNCHANGED <<status, rule, reading, fires, closes>>

\* Mutant: no TTL.
RunDetectorsNoTtl(p, s) ==
    /\ Idle(p)
    /\ status[s] = "active"
    /\ todo' = [todo EXCEPT ![p] = Detected(s)]
    /\ UNCHANGED <<rows, reading, fires, closes>>

\* run_detectors: silent in maintenance; otherwise the TTL of point events,
\* of all servers, and then the detectors on the latest samples.
RunDetectors(p, s) ==
    /\ Idle(p)
    /\ status[s] = "active"
    /\ Close(aged)
    /\ todo' = [todo EXCEPT ![p] = Detected(s)]
    /\ UNCHANGED <<status, rule, reading, fires, closes>>

\* Mutant: the return on a failed collection comes before the detectors.
StoreIpmiGoodOnly(s) ==
    /\ Idle(s)
    /\ todo' = [todo EXCEPT ![s] =
                   {q \in ReadOf({s} \X Bmc) : q[2] = "good"}]
    /\ UNCHANGED <<rows, reading, fires, closes>>

\* Mutant: the detectors are noted without what the snapshot says.
StoreIpmiKeys(s) ==
    /\ Idle(s)
    /\ todo' = [todo EXCEPT ![s] = {s} \X Bmc]
    /\ UNCHANGED <<rows, reading, fires, closes>>

\* _store_ipmi for one server; its status is not looked at.
StoreIpmi(s) ==
    /\ Idle(s)
    /\ todo' = [todo EXCEPT ![s] = ReadOf({s} \X Bmc)]
    /\ UNCHANGED <<rows, reading, fires, closes>>

\* _eval_alerts reads the enabled rules, the servers' status and the latest
\* samples once, before it looks at any event.
EvalAlerts ==
    LET active  == {s \in Server : status[s] = "active"}
        enabled == {r \in Rule : rule[r] = "enabled"}
    IN  /\ Idle(Evaluator)
        /\ todo' = [todo EXCEPT ![Evaluator] = ReadOf(active \X enabled)]
        /\ UNCHANGED <<rows, reading, fires, closes>>

-----------------------------------------------------------------------------
(* The workers act, one key at a time.                                     *)

Between(w) == fires[w] = {} /\ closes[w] = {}

\* The open event a query for the key finds; the rule_id of a deleted rule's
\* event is NULL, so there is none.
Found(k) == IF k[2] \in Rule /\ rule[k[2]] = "deleted" THEN {} ELSE OpenOf(k)

\* Mutant: detectors leave acknowledged events alone, as rules do.
ToCloseUnacked(k) ==
    IF k[2] \in Point THEN {}
    ELSE {{e} : e \in {o \in Found(k) : event[o] = "open"}}

\* Mutant: a rule recovers acknowledged events only.
ToCloseAckedRules(k) ==
    CASE k[2] \in Fault \cup Bmc -> {{e} : e \in Found(k)}
      [] k[2] \in SshFault       -> {Found(k)} \ {{}}
      [] k[2] \in Rule           -> {{e} : e \in {o \in Found(k) : event[o] = "acked"}}
      [] OTHER                   -> {}

\* A good reading: what the worker will close.  _recover takes the first
\* open event, SSH_FAULT all of them; a point event has no recovery; a rule
\* leaves an acknowledged event alone.
ToClose(k) ==
    CASE k[2] \in Fault \cup Bmc -> {{e} : e \in Found(k)}
      [] k[2] \in SshFault       -> {Found(k)} \ {{}}
      [] k[2] \in Rule           -> {{e} : e \in {o \in Found(k) : event[o] = "open"}}
      [] OTHER                   -> {}

\* Mutant: no look for an open event before the insert.
LooksAwayAndFires(w, k) ==
    /\ Between(w) /\ <<k, "bad">> \in todo[w]
    /\ fires' = [fires EXCEPT ![w] = {k}]
    /\ todo' = [todo EXCEPT ![w] = @ \ {<<k, "bad">>}]
    /\ UNCHANGED <<rows, reading, closes>>

\* A bad reading: nothing is done when an event of the key is open.
LooksToFire(w, k) ==
    /\ Between(w) /\ <<k, "bad">> \in todo[w]
    /\ fires' = [fires EXCEPT ![w] = IF Found(k) = {} THEN {k} ELSE {}]
    /\ todo' = [todo EXCEPT ![w] = @ \ {<<k, "bad">>}]
    /\ UNCHANGED <<rows, reading, closes>>

LooksToClose(w, k) ==
    /\ Between(w) /\ <<k, "good">> \in todo[w]
    /\ \/ \E S \in ToClose(k) : closes' = [closes EXCEPT ![w] = S]
       \/ ToClose(k) = {} /\ UNCHANGED closes
    /\ todo' = [todo EXCEPT ![w] = @ \ {<<k, "good">>}]
    /\ UNCHANGED <<rows, reading, fires>>

\* A row not in use: no open event, and none a worker still holds on to.
Fresh(k) == {e \in Event : /\ e.key = k
                           /\ ~IsOpen(e)
                           /\ \A w \in Worker : e \notin closes[w]}

\* The INSERT commits.  The row of a deleted rule fails on its foreign key,
\* which ends the evaluation.
Fire(w, k) ==
    /\ k \in fires[w]
    /\ fires' = [fires EXCEPT ![w] = {}]
    /\ \/ /\ k[2] \in Rule => rule[k[2]] # "deleted"
          /\ Fresh(k) # {}
          /\ event' = [event EXCEPT ![CHOOSE e \in Fresh(k) : TRUE] = "open"]
          /\ UNCHANGED todo
       \/ /\ k[2] \in Rule /\ rule[k[2]] = "deleted"
          /\ todo' = [todo EXCEPT ![w] = {}]
          /\ UNCHANGED event
    /\ UNCHANGED <<status, rule, reading, aged, closes>>

\* The UPDATE of recovered_at commits.
Recover(w, k) ==
    /\ closes[w] # {} /\ \A e \in closes[w] : e.key = k
    /\ Close(closes[w])
    /\ closes' = [closes EXCEPT ![w] = {}]
    /\ UNCHANGED <<status, rule, reading, todo, fires>>

\* Any exception, a database error above all, ends the whole pass.
Abort(w) ==
    /\ ~Idle(w)
    /\ todo' = [todo EXCEPT ![w] = {}]
    /\ fires' = [fires EXCEPT ![w] = {}]
    /\ closes' = [closes EXCEPT ![w] = {}]
    /\ UNCHANGED <<rows, reading>>

-----------------------------------------------------------------------------
Look(w, k)   == LooksToFire(w, k) \/ LooksToClose(w, k)
Commit(w, k) == Fire(w, k) \/ Recover(w, k)

Admin ==
    \/ \E s \in Server, v \in {"active", "maintenance"} : SetStatus(s, v)
    \/ \E r \in Rule, v \in {"enabled", "disabled", "deleted"} : SetRule(r, v)
    \/ \E e \in Event : AckEvent(e) \/ ResolveEvent(e)

Next ==
    \/ \E k \in Key, v \in Verdict \cup {"unclear"} : Sample(k, v)
    \/ \E e \in Event : Ages(e)
    \/ Admin
    \/ \E p \in Poller, s \in Server : RunDetectors(p, s)
    \/ \E s \in Server : StoreIpmi(s)
    \/ EvalAlerts
    \/ \E w \in Worker : Abort(w) \/ \E k \in Key : Look(w, k) \/ Commit(w, k)

\* Every server is polled again and again (PollCycle, EveryJobServed), so
\* its detectors are run again and again; so are the IPMI loop and, once per
\* cycle, the rules.  Workers run on; exceptions are not so frequent that a
\* step the workers come to again and again never gets done.  Time passes.
PassFairness ==
    /\ \A e \in Rows(Point) : WF_vars(Ages(e))
    /\ \A s \in Server : SF_vars(\E p \in Poller : RunDetectors(p, s))
    /\ \A s \in Server : WF_vars(StoreIpmi(s))
    /\ WF_vars(EvalAlerts)

Fairness ==
    /\ PassFairness
    /\ \A k \in Key : SF_vars(\E w \in Worker : Look(w, k))
    /\ \A k \in Key : SF_vars(\E w \in Worker : Commit(w, k))

Spec == Init /\ [][Next]_vars

FairSpec == Spec /\ Fairness

-----------------------------------------------------------------------------
\* A rule and a BMC detector have one worker each, so they never show the
\* same alert twice: the check-then-insert of _eval_alerts and of the IPMI
\* loop is safe, and only because _cycle_lock and the pool keep it so.
SingleAlert ==
    \A d, e \in Rows(Rule \cup Bmc) :
        d.key = e.key /\ IsOpen(d) /\ IsOpen(e) => d = e

\* Poll threads of one server may overlap, and _fire has no unique
\* constraint behind it: they may open the same alert once each, and never
\* more often than that.
DuplicateBound ==
    \A k \in Server \X PollSource : Cardinality(OpenOf(k)) <= Cardinality(Poller)

\* A fault that is gone for good disappears from the open list, duplicates
\* and acknowledged events included, although _recover closes one event per
\* pass and a pass may act on samples read long ago.
FaultClears ==
    \A s \in Server, d \in Fault \cup SshFault \cup Bmc :
        <>[](reading[<<s, d>>] = "good" /\ status[s] = "active")
            => <>[](OpenOf(<<s, d>>) = {})

\* A fault that persists on an active server is on the open list again and
\* again, whatever administrators resolve and stale passes close.
FaultRaised ==
    \A s \in Server, d \in PollSource \cup Bmc :
        <>[](reading[<<s, d>>] = "bad" /\ status[s] = "active")
            => []<>(OpenOf(<<s, d>>) # {})

\* Point events do not stay open for ever while one server is out of
\* maintenance: "point events auto-close via _ttl_recover_point_events".
PointCloses ==
    (\E s \in Server : <>[](status[s] = "active"))
        => \A e \in Rows(Point) : []<>(~IsOpen(e))

Opened(e) == event[e] = "none" /\ event'[e] # "none"

\* No event of the sources S is opened any more once a server has been in
\* maintenance for long enough that the passes begun before are through.
SilentIn(S) ==
    \A s \in Server :
        <>[](status[s] = "maintenance")
            => <>[][\A e \in Rows(S) : e.key[1] = s => ~Opened(e)]_vars

\* Polls and rules fall silent for a server in maintenance: run_detectors and
\* _eval_alerts look at its status before they start.
MaintenanceSettles == SilentIn(PollSource \cup Rule)

\* README, server life cycle: a server in maintenance silences "all
\* detectors and rule alerts", those of the IPMI loop therefore as well.
MaintenanceSilent == SilentIn(Source)

Cleared(k) ==
    reading[k] = "good" /\ status[k[1]] = "active" /\ rule[k[2]] = "enabled"

\* When a rule's condition is gone for good, its unacknowledged event is
\* recovered, through evaluations that fail and samples that come and go.
RuleClears ==
    \A k \in Server \X Rule :
        <>[]Cleared(k) => <>[](\A e \in OpenOf(k) : event[e] = "acked")

\* README, alerts: "ack and recovery are separate: acknowledging only claims
\* and silences the event, it recovers by itself when the condition clears".
AckedRuleClears ==
    \A k \in Server \X Rule : <>[]Cleared(k) => <>[](OpenOf(k) = {})
=============================================================================
