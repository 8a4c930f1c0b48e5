------------------------- MODULE AlertEventsProofs -------------------------
(***************************************************************************)
(* Proofs about AlertEvents for every set of servers, workers, detectors   *)
(* and rules, and for any number of events per key.                        *)
(***************************************************************************)
EXTENDS AlertEvents, FiniteSetTheorems, TLAPS

\* Who works on a key: the one worker that evaluates rules or stores the
\* server's IPMI snapshots, any poller for the rest.
Owns(w, k) ==
    /\ k[2] \in PollSource => w \in Poller
    /\ k[2] \in Rule => w = Evaluator
    /\ k[2] \in Bmc => w = k[1]

\* Workers hold on to keys of their own only.
OwnKeys ==
    \A w \in Worker :
        /\ \A q \in todo[w] : Owns(w, q[1])
        /\ \A k \in fires[w] : Owns(w, k)

\* A key whose event can still be inserted: not that of a deleted rule.
Insertable(k) ==
    /\ k[2] \in Rule \cup Bmc
    /\ k[2] \in Rule => rule[k[2]] # "deleted"

\* What the look for an open event has found still holds when the worker
\* inserts one.
LookHolds ==
    \A w \in Worker : \A k \in fires[w] :
        Insertable(k) => \A e \in Event : e.key = k => ~IsOpen(e)

\* The inductive invariant.
IInv ==
    /\ TypeOK
    /\ OwnKeys
    /\ LookHolds
    /\ SingleAlert

-----------------------------------------------------------------------------
\* What a worker reads of some keys is a set of pairs of these keys.
LEMMA ReadOfType ==
    ASSUME TypeOK, NEW K \in SUBSET Key
    PROVE  /\ ReadOf(K) \in SUBSET (Key \X Verdict)
           /\ \A q \in ReadOf(K) : q[1] \in K
<1>1. \A k \in K : reading[k] # "unclear" => reading[k] \in Verdict
  BY DEF TypeOK
<1>2. ASSUME NEW q \in ReadOf(K)
      PROVE  q \in Key \X Verdict /\ q[1] \in K
  <2>1. PICK k \in K : reading[k] # "unclear" /\ q = <<k, reading[k]>>
    BY <1>2 DEF ReadOf
  <2>2. QED
    BY <1>1, <2>1
<1>3. QED
  BY <1>2

\* A row the insert may take is an event of the key, and not in use.
LEMMA FreshFacts ==
    ASSUME NEW k, Fresh(k) # {}
    PROVE  LET e == CHOOSE e \in Fresh(k) : TRUE
           IN  e \in Event /\ e.key = k /\ ~IsOpen(e)
<1>1. (CHOOSE e \in Fresh(k) : TRUE) \in Fresh(k)
  OBVIOUS
<1>2. QED
  BY <1>1 DEF Fresh

\* What a worker sets out to close are events.
LEMMA ToCloseType ==
    ASSUME NEW k, NEW S \in ToClose(k)
    PROVE  S \in SUBSET Event
<1>1. Found(k) \in SUBSET Event
  BY DEF Found, OpenOf
<1>2. CASE k[2] \in Fault \cup Bmc
  BY <1>1, <1>2 DEF ToClose
<1>3. CASE k[2] \notin Fault \cup Bmc /\ k[2] \in SshFault
  <2>1. CASE k[2] \in Rule
    BY <1>1, <1>3, <2>1, SourcesAssumption
       DEF ToClose
  <2>2. CASE k[2] \notin Rule
    BY <1>1, <1>3, <2>2 DEF ToClose
  <2>3. QED
    BY <2>1, <2>2
<1>4. CASE k[2] \notin Fault \cup Bmc \cup SshFault
  BY <1>1, <1>4 DEF ToClose
<1>5. QED
  BY <1>2, <1>3, <1>4

-----------------------------------------------------------------------------
(* Types.                                                                  *)

\* Closing events keeps the types of the two variables it changes.
LEMMA CloseType ==
    ASSUME TypeOK, NEW S, Close(S)
    PROVE  /\ event' \in [Event -> {"none", "open", "acked"}]
           /\ aged' \in SUBSET Event
BY DEF TypeOK, Close

\* The keys a pass looks at are keys of the model.
LEMMA PassKeys ==
    /\ \A s \in Server : {s} \X PollSource \in SUBSET Key
    /\ \A s \in Server : {s} \X Bmc \in SUBSET Key
    /\ \A S \in SUBSET Server, R \in SUBSET Rule : S \X R \in SUBSET Key
BY DEF Key, Source

\* Pollers, the servers' IPMI tasks and the evaluator are the workers.
LEMMA Workers ==
    /\ Poller \subseteq Worker
    /\ Server \subseteq Worker
    /\ Evaluator \in Worker
BY DEF Worker

\* No operation writes an ill-typed value.
LEMMA TypeStep == TypeOK /\ [Next]_vars => TypeOK'
<1> SUFFICES ASSUME TypeOK, [Next]_vars PROVE TypeOK'
  OBVIOUS
<1> USE DEF rows, workers
<1>1. ASSUME NEW k \in Key, NEW v \in Verdict \cup {"unclear"}, Sample(k, v)
      PROVE  TypeOK'
  BY <1>1 DEF Sample, TypeOK
<1>2. ASSUME NEW e \in Event, Ages(e) PROVE TypeOK'
  BY <1>2 DEF Ages, TypeOK
<1>3. ASSUME Admin PROVE TypeOK'
  <2>1. ASSUME NEW s \in Server, NEW v \in {"active", "maintenance"},
               SetStatus(s, v)
        PROVE  TypeOK'
    BY <2>1 DEF SetStatus, TypeOK
  <2>2. ASSUME NEW r \in Rule, NEW v \in {"enabled", "disabled", "deleted"},
               SetRule(r, v)
        PROVE  TypeOK'
    BY <2>2 DEF SetRule, TypeOK
  <2>3. ASSUME NEW e \in Event, AckEvent(e) PROVE TypeOK'
    BY <2>3 DEF AckEvent, TypeOK
  <2>4. ASSUME NEW e \in Event, ResolveEvent(e) PROVE TypeOK'
    BY <2>4, CloseType DEF ResolveEvent, TypeOK
  <2>5. QED
    BY <1>3, <2>1, <2>2, <2>3, <2>4 DEF Admin
<1>4. ASSUME NEW p \in Poller, NEW s \in Server, RunDetectors(p, s)
      PROVE  TypeOK'
  <2>1. ReadOf({s} \X PollSource) \in SUBSET (Key \X Verdict)
    BY ReadOfType, PassKeys
  <2>2. Close(aged)
    BY <1>4 DEF RunDetectors
  <2>3. QED
    BY <1>4, <2>1, <2>2, CloseType, Workers DEF RunDetectors, Detected, TypeOK
<1>5. ASSUME NEW s \in Server, StoreIpmi(s) PROVE TypeOK'
  <2>1. ReadOf({s} \X Bmc) \in SUBSET (Key \X Verdict)
    BY ReadOfType, PassKeys
  <2>2. QED
    BY <1>5, <2>1, Workers DEF StoreIpmi, TypeOK
<1>6. ASSUME EvalAlerts PROVE TypeOK'
  <2> DEFINE active  == {s \in Server : status[s] = "active"}
             enabled == {r \in Rule : rule[r] = "enabled"}
  <2>1. ReadOf(active \X enabled) \in SUBSET (Key \X Verdict)
    BY ReadOfType, PassKeys
  <2>2. QED
    BY <1>6, <2>1, Workers DEF EvalAlerts, TypeOK
<1>7. ASSUME NEW w \in Worker, Abort(w) PROVE TypeOK'
  BY <1>7 DEF Abort, TypeOK
<1>8. ASSUME NEW w \in Worker, NEW k \in Key, Look(w, k) PROVE TypeOK'
  <2>1. CASE LooksToFire(w, k)
    BY <2>1 DEF LooksToFire, TypeOK
  <2>2. CASE LooksToClose(w, k)
    <3>1. closes' \in [Worker -> SUBSET Event]
      BY <2>2, ToCloseType DEF LooksToClose, TypeOK
    <3>2. QED
      BY <2>2, <3>1 DEF LooksToClose, TypeOK
  <2>3. QED
    BY <1>8, <2>1, <2>2 DEF Look
<1>9. ASSUME NEW w \in Worker, NEW k \in Key, Commit(w, k) PROVE TypeOK'
  <2>1. CASE Fire(w, k)
    <3>1. event' \in [Event -> {"none", "open", "acked"}]
      BY <2>1, FreshFacts DEF Fire, TypeOK
    <3>2. QED
      BY <2>1, <3>1 DEF Fire, TypeOK
  <2>2. CASE Recover(w, k)
    <3>1. Close(closes[w])
      BY <2>2 DEF Recover
    <3>2. QED
      BY <2>2, <3>1, CloseType DEF Recover, TypeOK
  <2>3. QED
    BY <1>9, <2>1, <2>2 DEF Commit
<1>10. CASE UNCHANGED vars
  BY <1>10 DEF vars, TypeOK
<1>11. QED
  BY <1>1, <1>2, <1>3, <1>4, <1>5, <1>6, <1>7, <1>8, <1>9, <1>10 DEF Next

-----------------------------------------------------------------------------
(* Who works on which key.                                                 *)

\* Every pass reads keys of its worker, and a look fires the key it is at.
LEMMA OwnStep == TypeOK /\ OwnKeys /\ [Next]_vars => OwnKeys'
<1> SUFFICES ASSUME TypeOK, OwnKeys, [Next]_vars PROVE OwnKeys'
  OBVIOUS
<1> USE DEF rows, workers
<1>1. ASSUME \A w \in Worker : /\ todo'[w] \subseteq todo[w]
                               /\ fires'[w] \subseteq fires[w]
      PROVE  OwnKeys'
  BY <1>1 DEF OwnKeys
<1>2. ASSUME NEW k \in Key, NEW v \in Verdict \cup {"unclear"}, Sample(k, v)
      PROVE  OwnKeys'
  BY <1>1, <1>2 DEF Sample
<1>3. ASSUME NEW e \in Event, Ages(e) PROVE OwnKeys'
  BY <1>1, <1>3 DEF Ages
<1>4. ASSUME Admin PROVE OwnKeys'
  BY <1>1, <1>4 DEF Admin, SetStatus, SetRule, AckEvent, ResolveEvent
<1>5. ASSUME NEW p \in Poller, NEW s \in Server, RunDetectors(p, s)
      PROVE  OwnKeys'
  <2>1. \A q \in ReadOf({s} \X PollSource) : Owns(p, q[1])
    BY ReadOfType, PassKeys, SourcesAssumption DEF Owns, PollSource
  <2>2. \A w \in Worker : \A q \in todo'[w] : Owns(w, q[1])
    BY <1>5, <2>1 DEF RunDetectors, Detected, OwnKeys, TypeOK
  <2>3. QED
    BY <1>5, <2>2 DEF RunDetectors, Detected, OwnKeys
<1>6. ASSUME NEW s \in Server, StoreIpmi(s) PROVE OwnKeys'
  <2>1. \A q \in ReadOf({s} \X Bmc) : Owns(s, q[1])
    BY ReadOfType, PassKeys, SourcesAssumption DEF Owns, PollSource
  <2>2. \A w \in Worker : \A q \in todo'[w] : Owns(w, q[1])
    BY <1>6, <2>1 DEF StoreIpmi, OwnKeys, TypeOK
  <2>3. QED
    BY <1>6, <2>2 DEF StoreIpmi, OwnKeys
<1>7. ASSUME EvalAlerts PROVE OwnKeys'
  <2> DEFINE active  == {s \in Server : status[s] = "active"}
             enabled == {r \in Rule : rule[r] = "enabled"}
  <2>1. \A q \in ReadOf(active \X enabled) : Owns(Evaluator, q[1])
    BY ReadOfType, PassKeys, SourcesAssumption DEF Owns, PollSource
  <2>2. \A w \in Worker : \A q \in todo'[w] : Owns(w, q[1])
    BY <1>7, <2>1 DEF EvalAlerts, OwnKeys, TypeOK
  <2>3. QED
    BY <1>7, <2>2 DEF EvalAlerts, OwnKeys
<1>8. ASSUME NEW w \in Worker, Abort(w) PROVE OwnKeys'
  BY <1>1, <1>8 DEF Abort, TypeOK
<1>9. ASSUME NEW w \in Worker, NEW k \in Key, Look(w, k) PROVE OwnKeys'
  <2>1. CASE LooksToFire(w, k)
    <3>1. Owns(w, k)
      BY <2>1 DEF LooksToFire, OwnKeys
    <3>2. QED
      BY <2>1, <3>1 DEF LooksToFire, OwnKeys, TypeOK
  <2>2. CASE LooksToClose(w, k)
    BY <1>1, <2>2 DEF LooksToClose, TypeOK
  <2>3. QED
    BY <1>9, <2>1, <2>2 DEF Look
<1>10. ASSUME NEW w \in Worker, NEW k \in Key, Commit(w, k) PROVE OwnKeys'
  BY <1>1, <1>10 DEF Commit, Fire, Recover, TypeOK
<1>11. CASE UNCHANGED vars
  BY <1>1, <1>11 DEF vars
<1>12. QED
  BY <1>2, <1>3, <1>4, <1>5, <1>6, <1>7, <1>8, <1>9, <1>10, <1>11 DEF Next

-----------------------------------------------------------------------------
(* The steps that can make a second event: a look and an insert.           *)

\* The steps that open no event, let no worker decide to insert one and
\* bring no rule back.
Quiet ==
    /\ \A e \in Event : event'[e] # "none" => event[e] # "none"
    /\ \A r \in Rule : rule[r] = "deleted" => rule'[r] = "deleted"
    /\ \A w \in Worker : fires'[w] \subseteq fires[w]

\* Every step is quiet but a look that finds nothing and an insert.
LEMMA QuietSteps ==
    ASSUME TypeOK, [Next]_vars
    PROVE  \/ Quiet
           \/ \E w \in Worker, k \in Key : LooksToFire(w, k) \/ Fire(w, k)
<1> USE DEF rows, workers, Quiet
<1>1. ASSUME NEW S, Close(S)
      PROVE  \A e \in Event : event'[e] # "none" => event[e] # "none"
  BY <1>1 DEF Close
<1>2. ASSUME NEW k \in Key, NEW v \in Verdict \cup {"unclear"}, Sample(k, v)
      PROVE  Quiet
  BY <1>2 DEF Sample
<1>3. ASSUME NEW e \in Event, Ages(e) PROVE Quiet
  BY <1>3 DEF Ages
<1>4. ASSUME Admin PROVE Quiet
  <2>1. ASSUME NEW s \in Server, NEW v \in {"active", "maintenance"},
               SetStatus(s, v)
        PROVE  Quiet
    BY <2>1 DEF SetStatus
  <2>2. ASSUME NEW r \in Rule, NEW v \in {"enabled", "disabled", "deleted"},
               SetRule(r, v)
        PROVE  Quiet
    BY <2>2 DEF SetRule, TypeOK
  <2>3. ASSUME NEW e \in Event, AckEvent(e) PROVE Quiet
    BY <2>3 DEF AckEvent, TypeOK
  <2>4. ASSUME NEW e \in Event, ResolveEvent(e) PROVE Quiet
    BY <2>4, <1>1 DEF ResolveEvent
  <2>5. QED
    BY <1>4, <2>1, <2>2, <2>3, <2>4 DEF Admin
<1>5. ASSUME NEW p \in Poller, NEW s \in Server, RunDetectors(p, s)
      PROVE  Quiet
  BY <1>5, <1>1 DEF RunDetectors
<1>6. ASSUME NEW s \in Server, StoreIpmi(s) PROVE Quiet
  BY <1>6 DEF StoreIpmi
<1>7. ASSUME EvalAlerts PROVE Quiet
  BY <1>7 DEF EvalAlerts
<1>8. ASSUME NEW w \in Worker, Abort(w) PROVE Quiet
  BY <1>8 DEF Abort, TypeOK
<1>9. ASSUME NEW w \in Worker, NEW k \in Key, LooksToClose(w, k) PROVE Quiet
  BY <1>9 DEF LooksToClose
<1>10. ASSUME NEW w \in Worker, NEW k \in Key, Recover(w, k) PROVE Quiet
  BY <1>10, <1>1 DEF Recover
<1>11. CASE UNCHANGED vars
  BY <1>11 DEF vars
<1>12. QED
  BY <1>2, <1>3, <1>4, <1>5, <1>6, <1>7, <1>8, <1>9, <1>10, <1>11
     DEF Next, Look, Commit

\* A quiet step keeps what looks have found, and adds no second event.
LEMMA QuietAlert ==
    ASSUME TypeOK, LookHolds, SingleAlert, Quiet
    PROVE  LookHolds' /\ SingleAlert'
<1>1. ASSUME NEW w \in Worker, NEW k \in fires'[w], Insertable(k)'
      PROVE  \A e \in Event : e.key = k => event'[e] = "none"
  <2>1. k \in fires[w]
    BY <1>1 DEF Quiet
  <2>2. Insertable(k)
    BY <1>1 DEF Quiet, Insertable
  <2>3. QED
    BY <2>1, <2>2 DEF LookHolds, Quiet, IsOpen
<1>2. LookHolds'
  BY <1>1 DEF LookHolds, IsOpen
<1>3. SingleAlert'
  BY DEF SingleAlert, Quiet, Rows, IsOpen
<1>4. QED
  BY <1>2, <1>3

\* A look that decides to insert has found no open event of the key.
LEMMA LookAlert ==
    ASSUME TypeOK, LookHolds, SingleAlert,
           NEW v \in Worker, NEW j \in Key, LooksToFire(v, j)
    PROVE  LookHolds' /\ SingleAlert'
<1> USE DEF rows
<1>1. /\ event' = event /\ rule' = rule
      /\ \A w \in Worker : w # v => fires'[w] = fires[w]
      /\ fires'[v] = IF Found(j) = {} THEN {j} ELSE {}
  BY DEF LooksToFire, TypeOK
<1>2. ASSUME NEW w \in Worker, NEW k \in fires'[w], Insertable(k)
      PROVE  \A e \in Event : e.key = k => ~IsOpen(e)
  <2>1. CASE w # v
    BY <1>1, <1>2, <2>1 DEF LookHolds
  <2>2. CASE w = v
    <3>1. k = j /\ Found(j) = {}
      BY <1>1, <1>2, <2>2
    <3>2. OpenOf(j) = {}
      BY <3>1, <1>2 DEF Found, Insertable
    <3>3. QED
      BY <3>1, <3>2 DEF OpenOf
  <2>3. QED
    BY <2>1, <2>2
<1>3. LookHolds'
  BY <1>1, <1>2 DEF LookHolds, Insertable, IsOpen
<1>4. SingleAlert'
  BY <1>1 DEF SingleAlert, Rows, IsOpen
<1>5. QED
  BY <1>3, <1>4

\* An insert adds the only open event of its key, and no other worker is
\* about to add one: the key has one owner.
LEMMA FireAlert ==
    ASSUME TypeOK, OwnKeys, LookHolds, SingleAlert,
           NEW v \in Worker, NEW j \in Key, Fire(v, j)
    PROVE  LookHolds' /\ SingleAlert'
<1>1. /\ rule' = rule /\ j \in fires[v]
      /\ fires'[v] = {}
      /\ \A w \in Worker : w # v => fires'[w] = fires[w]
  BY DEF Fire, TypeOK
<1>2. CASE event' = event
  <2>1. Quiet
    BY <1>1, <1>2 DEF Quiet
  <2>2. QED
    BY <2>1, QuietAlert
<1>3. CASE event' # event
  <2> DEFINE new == CHOOSE e \in Fresh(j) : TRUE
  <2>1. /\ j[2] \in Rule => rule[j[2]] # "deleted"
        /\ Fresh(j) # {}
        /\ event' = [event EXCEPT ![new] = "open"]
    BY <1>3 DEF Fire
  <2>2. new \in Event /\ new.key = j
    BY <2>1, FreshFacts
  <2>3. \A e \in Event : e # new => event'[e] = event[e]
    BY <2>1, <2>2 DEF TypeOK
  <2>4. ASSUME NEW w \in Worker, NEW k \in fires'[w], Insertable(k)
        PROVE  \A e \in Event : e.key = k => event'[e] = "none"
    <3>1. w # v /\ k \in fires[w]
      BY <1>1, <2>4
    <3>2. k # j
      BY <1>1, <2>4, <3>1 DEF OwnKeys, Owns, Insertable
    <3>3. QED
      BY <2>2, <2>3, <2>4, <3>1, <3>2 DEF LookHolds, IsOpen
  <2>5. LookHolds'
    BY <1>1, <2>4 DEF LookHolds, Insertable, IsOpen
  <2>6. ASSUME NEW d \in Event, NEW e \in Event,
               d.key = e.key, d.key[2] \in Rule \cup Bmc,
               event'[d] # "none", event'[e] # "none"
        PROVE  d = e
    <3>1. CASE d.key = j
      <4>1. \A x \in Event : x.key = j => event[x] = "none"
        BY <1>1, <2>1, <2>6, <3>1 DEF LookHolds, Insertable, IsOpen
      <4>2. QED
        BY <2>3, <2>6, <3>1, <4>1
    <3>2. CASE d.key # j
      BY <2>2, <2>3, <2>6, <3>2 DEF SingleAlert, Rows, IsOpen
    <3>3. QED
      BY <3>1, <3>2
  <2>7. SingleAlert'
    BY <2>6 DEF SingleAlert, Rows, IsOpen
  <2>8. QED
    BY <2>5, <2>7
<1>4. QED
  BY <1>2, <1>3

-----------------------------------------------------------------------------
(* The theorems about rules and the IPMI loop.                             *)

\* At the start no worker has read anything and no event exists.
LEMMA InitIInv == Init => IInv
BY DEF Init, IInv, TypeOK, OwnKeys, LookHolds, SingleAlert, Rows, IsOpen

\* The inductive invariant holds in every reachable state.
THEOREM Inductive == Spec => []IInv
<1>1. IInv /\ [Next]_vars => IInv'
  <2> SUFFICES ASSUME IInv, [Next]_vars PROVE IInv'
    OBVIOUS
  <2>1. TypeOK' /\ OwnKeys'
    BY TypeStep, OwnStep DEF IInv
  <2>2. LookHolds' /\ SingleAlert'
    BY QuietSteps, QuietAlert, LookAlert, FireAlert DEF IInv
  <2>3. QED
    BY <2>1, <2>2 DEF IInv
<1>2. QED
  BY InitIInv, <1>1, PTL DEF Spec

\* Every variable keeps its type.
THEOREM TypeCorrect == Spec => []TypeOK
<1>1. IInv => TypeOK
  BY DEF IInv
<1>2. QED
  BY Inductive, <1>1, PTL

\* A user rule and a BMC detector never have two open events for a server,
\* whatever samples, administrators, rule changes and failures do between
\* the look for an open event and the insert.
THEOREM OneOpenEvent == Spec => []SingleAlert
<1>1. IInv => SingleAlert
  BY DEF IInv
<1>2. QED
  BY Inductive, <1>1, PTL

-----------------------------------------------------------------------------
(* Duplicates of detector events.                                          *)

\* The pollers that have looked and are about to insert an event.
Firing(k) == {p \in Poller : k \in fires[p]}

\* Open events and inserts on their way are together no more than there are
\* pollers: an insert turns one of the latter into one of the former, and a
\* look adds one of the latter only when there is none of the former.
CountInv ==
    \A k \in Server \X PollSource :
        /\ IsFiniteSet(OpenOf(k))
        /\ Cardinality(OpenOf(k)) + Cardinality(Firing(k)) <= Cardinality(Poller)

\* Both sets may shrink.
LEMMA CountShrinks ==
    ASSUME NEW k, IsFiniteSet(OpenOf(k)),
           Cardinality(OpenOf(k)) + Cardinality(Firing(k)) <= Cardinality(Poller),
           OpenOf(k)' \subseteq OpenOf(k), Firing(k)' \subseteq Firing(k)
    PROVE  /\ IsFiniteSet(OpenOf(k)')
           /\ Cardinality(OpenOf(k)') + Cardinality(Firing(k)') <= Cardinality(Poller)
<1>1. IsFiniteSet(Poller)
  BY PollersAssumption
<1>2. IsFiniteSet(Firing(k))
  BY <1>1, FS_Subset DEF Firing
<1>3. /\ IsFiniteSet(OpenOf(k)')
      /\ Cardinality(OpenOf(k)') <= Cardinality(OpenOf(k))
  BY FS_Subset
<1>4. /\ IsFiniteSet(Firing(k)')
      /\ Cardinality(Firing(k)') <= Cardinality(Firing(k))
  BY <1>2, FS_Subset
<1>5. /\ Cardinality(OpenOf(k)) \in Nat /\ Cardinality(OpenOf(k)') \in Nat
      /\ Cardinality(Firing(k)) \in Nat /\ Cardinality(Firing(k)') \in Nat
      /\ Cardinality(Poller) \in Nat
  BY <1>1, <1>2, <1>3, <1>4, FS_CardinalityType
<1>6. QED
  BY <1>3, <1>4, <1>5

\* A quiet step opens nothing and announces nothing.
LEMMA QuietCount ==
    ASSUME TypeOK, CountInv, Quiet
    PROVE  CountInv'
<1>1. ASSUME NEW k \in Server \X PollSource
      PROVE  OpenOf(k)' \subseteq OpenOf(k) /\ Firing(k)' \subseteq Firing(k)
  BY Workers DEF Quiet, OpenOf, IsOpen, Firing
<1>2. QED
  BY <1>1, CountShrinks DEF CountInv

\* A look announces an insert only when no event is open, and there are no
\* more announcements than pollers.
LEMMA LookCount ==
    ASSUME TypeOK, CountInv,
           NEW v \in Worker, NEW j \in Key, LooksToFire(v, j)
    PROVE  CountInv'
<1> USE DEF rows
<1>1. /\ event' = event
      /\ fires[v] = {}
      /\ \A w \in Worker : w # v => fires'[w] = fires[w]
      /\ fires'[v] = IF Found(j) = {} THEN {j} ELSE {}
  BY DEF LooksToFire, Between, TypeOK
<1>2. ASSUME NEW k \in Server \X PollSource
      PROVE  /\ IsFiniteSet(OpenOf(k)')
             /\ Cardinality(OpenOf(k)') + Cardinality(Firing(k)') <= Cardinality(Poller)
  <2>1. OpenOf(k)' = OpenOf(k)
    BY <1>1 DEF OpenOf, IsOpen
  <2>2. CASE k = j /\ OpenOf(k) = {}
    <3>1. Firing(k)' \subseteq Poller
      BY DEF Firing
    <3>2. /\ IsFiniteSet(Firing(k)')
          /\ Cardinality(Firing(k)') <= Cardinality(Poller)
      BY <3>1, PollersAssumption, FS_Subset
    <3>3. Cardinality(OpenOf(k)') = 0 /\ IsFiniteSet(OpenOf(k)')
      BY <2>1, <2>2, FS_EmptySet
    <3>4. Cardinality(Firing(k)') \in Nat /\ Cardinality(Poller) \in Nat
      BY <3>2, PollersAssumption, FS_CardinalityType
    <3>5. QED
      BY <3>2, <3>3, <3>4
  <2>3. CASE ~(k = j /\ OpenOf(k) = {})
    <3>1. Found(k) = OpenOf(k)
      BY SourcesAssumption DEF Found, PollSource
    <3>2. Firing(k)' \subseteq Firing(k)
      BY <1>1, <2>3, <3>1, Workers DEF Firing
    <3>3. QED
      BY <2>1, <3>2, CountShrinks DEF CountInv
  <2>4. QED
    BY <2>2, <2>3
<1>3. QED
  BY <1>2 DEF CountInv

\* An insert keeps its announcement: one event more, one poller fewer.
LEMMA FireCount ==
    ASSUME TypeOK, OwnKeys, CountInv,
           NEW v \in Worker, NEW j \in Key, Fire(v, j)
    PROVE  CountInv'
<1>1. /\ rule' = rule /\ j \in fires[v]
      /\ fires'[v] = {}
      /\ \A w \in Worker : w # v => fires'[w] = fires[w]
  BY DEF Fire, TypeOK
<1>2. CASE event' = event
  <2>1. Quiet
    BY <1>1, <1>2 DEF Quiet
  <2>2. QED
    BY <2>1, QuietCount
<1>3. CASE event' # event
  <2> DEFINE new == CHOOSE e \in Fresh(j) : TRUE
  <2>1. Fresh(j) # {} /\ event' = [event EXCEPT ![new] = "open"]
    BY <1>3 DEF Fire
  <2>2. new \in Event /\ new.key = j /\ ~IsOpen(new)
    BY <2>1, FreshFacts
  <2>3. /\ \A e \in Event : e # new => event'[e] = event[e]
        /\ event'[new] = "open"
    BY <2>1, <2>2 DEF TypeOK
  <2> HIDE DEF new
  <2>4. ASSUME NEW k \in Server \X PollSource
        PROVE  /\ IsFiniteSet(OpenOf(k)')
               /\ Cardinality(OpenOf(k)') + Cardinality(Firing(k)') <= Cardinality(Poller)
    <3>1. CASE k = j
      <4>1. OpenOf(k)' = OpenOf(k) \cup {new} /\ new \notin OpenOf(k)
        BY <2>2, <2>3, <3>1 DEF OpenOf, IsOpen
      <4>2. /\ IsFiniteSet(OpenOf(k)')
            /\ Cardinality(OpenOf(k)') = Cardinality(OpenOf(k)) + 1
        BY <4>1, FS_AddElement DEF CountInv
      <4>3. v \in Firing(k) /\ Firing(k)' = Firing(k) \ {v}
        BY <1>1, <3>1, Workers DEF Firing, OwnKeys, Owns
      <4>4. IsFiniteSet(Firing(k))
        BY PollersAssumption, FS_Subset DEF Firing
      <4>5. Cardinality(Firing(k)') = Cardinality(Firing(k)) - 1
        BY <4>3, <4>4, FS_RemoveElement
      <4>6. /\ Cardinality(OpenOf(k)) \in Nat
            /\ Cardinality(Firing(k)) \in Nat
            /\ Cardinality(Poller) \in Nat
        BY <4>4, PollersAssumption, FS_CardinalityType DEF CountInv
      <4>7. Cardinality(OpenOf(k)) + Cardinality(Firing(k)) <= Cardinality(Poller)
        BY DEF CountInv
      <4>8. QED
        BY <4>2, <4>5, <4>6, <4>7
    <3>2. CASE k # j
      <4>1. OpenOf(k)' \subseteq OpenOf(k)
        BY <2>2, <2>3, <3>2 DEF OpenOf, IsOpen
      <4>2. Firing(k)' \subseteq Firing(k)
        BY <1>1, Workers DEF Firing
      <4>3. QED
        BY <4>1, <4>2, CountShrinks DEF CountInv
    <3>3. QED
      BY <3>1, <3>2
  <2>5. QED
    BY <2>4 DEF CountInv
<1>4. QED
  BY <1>2, <1>3

\* At the start nothing is open and nothing announced.
LEMMA InitCount == Init => CountInv
<1> SUFFICES ASSUME Init, NEW k \in Server \X PollSource
             PROVE  /\ IsFiniteSet(OpenOf(k))
                    /\ Cardinality(OpenOf(k)) + Cardinality(Firing(k))
                          <= Cardinality(Poller)
  BY DEF CountInv
<1>1. OpenOf(k) = {} /\ Firing(k) = {}
  BY Workers DEF Init, OpenOf, IsOpen, Firing
<1>2. Cardinality(Poller) \in Nat
  BY PollersAssumption, FS_CardinalityType
<1>3. QED
  BY <1>1, <1>2, FS_EmptySet

\* Overlapping detector passes of one server may open an alert more than
\* once, as _fire looks and inserts in two steps; they never open it more
\* often than there are passes at a time.
THEOREM BoundedDuplicates == Spec => []DuplicateBound
<1>1. IInv /\ CountInv /\ [Next]_vars => CountInv'
  BY QuietSteps, QuietCount, LookCount, FireCount DEF IInv
<1>2. CountInv => DuplicateBound
  <2> SUFFICES ASSUME CountInv, NEW k \in Server \X PollSource
               PROVE  Cardinality(OpenOf(k)) <= Cardinality(Poller)
    BY DEF DuplicateBound
  <2>1. IsFiniteSet(Firing(k))
    BY PollersAssumption, FS_Subset DEF Firing
  <2>2. /\ Cardinality(OpenOf(k)) \in Nat
        /\ Cardinality(Firing(k)) \in Nat
        /\ Cardinality(Poller) \in Nat
    BY <2>1, PollersAssumption, FS_CardinalityType DEF CountInv
  <2>3. QED
    BY <2>2 DEF CountInv
<1>3. QED
  BY InitCount, Inductive, <1>1, <1>2, PTL DEF Spec
=============================================================================
