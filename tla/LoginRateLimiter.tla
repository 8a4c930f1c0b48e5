-------------------------- MODULE LoginRateLimiter --------------------------
(***************************************************************************)
(* backend/app/rate_limit.py: failed logins counted per address and per    *)
(* address and account in two bounded tables, each an OrderedDict from the *)
(* least to the most recently failed key.  The tables live in memory and   *)
(* every operation holds the limiter's lock, so an operation is one step;  *)
(* a login calls check, verifies the password for a while, and then calls  *)
(* record_failure or record_success.                                       *)
(*                                                                         *)
(* Time is counted in ticks of which WINDOW_SECONDS, equal to              *)
(* LOCK_SECONDS, has Window.                                               *)
(***************************************************************************)
EXTENDS Naturals, FiniteSets

CONSTANTS
    Ip, User,
    MaxFailuresPair, MaxFailuresIp, Window, MaxBuckets,
    MaxClock    \* bound: ticks

Pair == Ip \X User
Key  == Ip \cup Pair
Tick == 0 .. MaxClock

ASSUME LimiterAssumption ==
    /\ {MaxFailuresPair, MaxFailuresIp, Window, MaxBuckets} \subseteq Nat \ {0}
    /\ MaxClock \in Nat
    /\ Ip \cap Pair = {}

VARIABLES
    clock,
    byIp, byPair,  \* the tables: a counter for each key in them
    missed         \* history: the failures of a key since it was last cleared

limiterVars == <<clock, byIp, byPair, missed>>

\* A failure is its tick and its number among the key's in that tick.  older
\* has the keys before this one in the order of the table.
Failure     == Tick \X Nat
Counters(K) == [failures : SUBSET Failure, until : Nat, older : SUBSET K]

LimiterTypeOK ==
    /\ clock \in Tick
    /\ DOMAIN byIp \subseteq Ip     /\ byIp \in [DOMAIN byIp -> Counters(Ip)]
    /\ DOMAIN byPair \subseteq Pair /\ byPair \in [DOMAIN byPair -> Counters(Pair)]
    /\ missed \in [Key -> SUBSET Failure]

Empty == [k \in {} |-> k]

LimiterInit ==
    /\ clock = 0
    /\ byIp = Empty /\ byPair = Empty
    /\ missed = [k \in Key |-> {}]

Without(table, keys) ==
    [k \in (DOMAIN table) \ keys |-> [table[k] EXCEPT !.older = @ \ keys]]

Recent(failures)   == {e \in failures : clock - e[1] < Window}
Locked(table, key) == key \in DOMAIN table /\ table[key].until > clock

\* check: neither the address nor the pair is locked.
Allowed(ip, u) == ~Locked(byIp, ip) /\ ~Locked(byPair, <<ip, u>>)

\* _prune, and the failure of now.
Failed(failures) ==
    Recent(failures) \cup {<<clock, Cardinality({e \in failures : e[1] = clock}) + 1>>}

\* setdefault.
CounterOf(table, key) ==
    IF key \in DOMAIN table THEN table[key]
    ELSE [failures |-> {}, until |-> 0, older |-> {}]

\* The counter, moved to the end; the lock once the limit is reached.
Counted(table, key, limit) ==
    LET old      == CounterOf(table, key)
        failures == Failed(old.failures)
        full     == Cardinality(failures) >= limit
    IN  [k \in (DOMAIN table) \cup {key} |->
            IF k = key
            THEN [failures |-> IF full THEN {} ELSE failures,
                  until    |-> IF full THEN clock + Window ELSE old.until,
                  older    |-> (DOMAIN table) \ {key}]
            ELSE [table[k] EXCEPT !.older = @ \ {key}]]

\* _bounded: the key that failed longest ago goes, locked or not.
Bounded(table) ==
    IF Cardinality(DOMAIN table) > MaxBuckets
    THEN Without(table, {k \in DOMAIN table : table[k].older = {}})
    ELSE table

\* Mutant: an entry without failures is dropped although it is locked.
SweptLocked(table) == Without(table, {k \in DOMAIN table : table[k].failures = {}})

\* Entries that neither count nor lock any more go.
Swept(table) ==
    Without(table, {k \in DOMAIN table : table[k].failures = {} /\ table[k].until <= clock})

RecordFailure(ip, u) ==
    LET ips   == Bounded(Counted(byIp, ip, MaxFailuresIp))
        pairs == Bounded(Counted(byPair, <<ip, u>>, MaxFailuresPair))
        gone  == ((DOMAIN byIp) \cup (DOMAIN byPair)) \ ((DOMAIN ips) \cup (DOMAIN pairs))
    IN  /\ byIp' = Swept(ips)
        /\ byPair' = Swept(pairs)
        /\ missed' = [k \in Key |-> IF k \in gone THEN {}
                                    ELSE IF k \in {ip, <<ip, u>>} THEN Failed(missed[k])
                                    ELSE missed[k]]
        /\ UNCHANGED clock

RecordSuccess(ip, u) ==
    /\ byPair' = Without(byPair, {<<ip, u>>})
    /\ missed' = [missed EXCEPT ![<<ip, u>>] = {}]
    /\ UNCHANGED <<clock, byIp>>

\* A restart forgets the tables.
LimiterForgets ==
    /\ byIp' = Empty /\ byPair' = Empty
    /\ missed' = [k \in Key |-> {}]
    /\ UNCHANGED clock

ClockTicks ==
    /\ clock < MaxClock
    /\ clock' = clock + 1
    /\ missed' = [k \in Key |-> {e \in missed[k] : clock + 1 - e[1] < Window}]
    /\ UNCHANGED <<byIp, byPair>>

\* In any stretch of Window ticks a key fails no more often than its limit
\* and the logins that had passed the check before it was locked allow:
\* pruning, locking, unlocking and sweeping leave no gap between them.  Only
\* a success, a restart or MAX_BUCKETS other keys clear a key.
FailuresBounded(workers) ==
    /\ \A i \in Ip : Cardinality(Recent(missed[i])) < MaxFailuresIp + Cardinality(workers)
    /\ \A p \in Pair : Cardinality(Recent(missed[p])) < MaxFailuresPair + Cardinality(workers)
=============================================================================
