---------------------------- MODULE HostsProofs ----------------------------
(***************************************************************************)
(* Proofs about Hosts for every set of servers, addresses, keys and        *)
(* threads.  Inv adds to TypeOK what a thread's place in its handler says  *)
(* of what it has read (Places) and that a key loaded from a file is still *)
(* the recorded one unless an order has been obeyed since (PinFresh).      *)
(***************************************************************************)
EXTENDS Hosts, TLAPS

\* A reset has a fingerprint to expect and goes from its intent to the fetch
\* and to the replacement, with the key it has fetched; orders are about
\* servers.
Place(r) ==
    /\ r.op = "reset" => r.want \in Key /\ r.step \in {"intent", "fetch", "pin"}
    /\ r.step \in {"fetch", "pin"} => r.op = "reset"
    /\ r.step = "pin" => r.shown = r.want
    /\ r.step = "trust" => r.shown \in Key
    /\ r.step \in {"intent", "fetch", "pin", "forget"} => r.ident \in Server

Places == \A t \in Task : task[t] # None => Place(task[t])

PinFresh ==
    \A t \in Task : (task[t] # None /\ task[t].pin # None /\ ~task[t].stale)
                        => task[t].pin = file[task[t].ident]

Inv == TypeOK /\ Places /\ PinFresh /\ OneIdentity

-----------------------------------------------------------------------------
(* Types.                                                                  *)

\* A request that begins is in its place.
LEMMA BeginsType ==
    ASSUME TypeOK, NEW t \in Task,
           NEW op \in {"collect", "test", "process", "update", "delete", "reset"},
           NEW step \in {"intent", "check", "forget"},
           NEW i \in Ident, NEW a \in Addr, NEW want \in Key \cup {None},
           Begins(t, op, step, i, a, want)
    PROVE  task' \in [Task -> TaskState \cup {None}]
  BY DEF Begins, TypeOK, TaskState

\* What the helpers of several actions write has its type.
LEMMA ObeyedType ==
    ASSUME TypeOK, NEW t \in Task, NEW i \in Ident, NEW p \in Pin \cup {None},
           Obeyed(t, i, p)
    PROVE  /\ file' \in [Ident -> Pin \cup {None}]
           /\ trusted' \in [Ident -> SUBSET Pin]
           /\ task' \in [Task -> TaskState \cup {None}]
<1>1. ASSUME NEW u \in Task, task[u] # None
      PROVE  [task[u] EXCEPT !.stale = TRUE] \in TaskState
  BY <1>1, ZenonT(60) DEF TypeOK, TaskState
<1> QED
  BY <1>1 DEF Obeyed, TypeOK

LEMMA TypeInit == Init => TypeOK
  BY DEF Init, TypeOK, Pin

LEMMA TypeNext == TypeOK /\ Places /\ [Next]_vars => TypeOK'
<1> SUFFICES ASSUME TypeOK, Places, [Next]_vars PROVE TypeOK'
  OBVIOUS
<1> USE IdentAssumption, PinAssumption
<1>1. CASE UNCHANGED vars
  BY <1>1 DEF vars, TypeOK
<1>2. ASSUME NEW a \in Addr, Reinstall(a) PROVE TypeOK'
  BY <1>2 DEF Reinstall, TypeOK
<1>3. ASSUME NEW a \in Addr, NEW s \in Server, CreateServer(s, a) PROVE TypeOK'
  BY <1>3 DEF CreateServer, TypeOK
<1>4. ASSUME NEW t \in Task, NEW s \in Server, Connects(t, s) PROVE TypeOK'
  <2>1. record[s] \in Addr /\ s \in Ident
    BY <1>4 DEF Connects, TypeOK, Ident
  <2> QED
    BY <1>4, <2>1, BeginsType DEF Connects, TypeOK
<1>5. ASSUME NEW t \in Task, NEW s \in Server, ProcessAction(t, s) PROVE TypeOK'
  <2>1. record[s] \in Addr /\ s \in Ident
    BY <1>5 DEF ProcessAction, TypeOK, Ident
  <2> QED
    BY <1>5, <2>1, BeginsType DEF ProcessAction, TypeOK
<1>6. ASSUME NEW t \in Task, NEW s \in Server, DeleteServer(t, s) PROVE TypeOK'
  <2>1. record[s] \in Addr /\ s \in Ident
    BY <1>6 DEF DeleteServer, TypeOK, Ident
  <2>2. record' \in [Server -> Addr \cup {None}]
    BY <1>6 DEF DeleteServer, TypeOK
  <2> QED
    BY <1>6, <2>1, <2>2, BeginsType DEF DeleteServer, TypeOK
<1>7. ASSUME NEW t \in Task, NEW s \in Server, NEW a \in Addr, UpdateServer(t, s, a)
      PROVE  TypeOK'
  <2>1. s \in Ident /\ record' \in [Server -> Addr \cup {None}]
    BY <1>7 DEF UpdateServer, TypeOK, Ident
  <2> QED
    BY <1>7, <2>1, BeginsType DEF UpdateServer, TypeOK
<1>8. ASSUME NEW t \in Task, NEW s \in Server, NEW a \in Addr, TestStoredServer(t, s, a)
      PROVE  TypeOK'
  <2>1. s \in Ident /\ (a \in Target => a \in Ident)
    BY DEF Ident
  <2> QED
    BY <1>8, <2>1, BeginsType DEF TestStoredServer, TypeOK
<1>9. ASSUME NEW t \in Task, NEW s \in Server, NEW k \in Key, ResetHostkey(t, s, k)
      PROVE  TypeOK'
  <2>1. record[s] \in Addr /\ s \in Ident
    BY <1>9 DEF ResetHostkey, TypeOK, Ident
  <2> QED
    BY <1>9, <2>1, BeginsType DEF ResetHostkey, TypeOK
<1>10. ASSUME NEW t \in Task, NEW a \in Addr, TestConnection(t, a) PROVE TypeOK'
  <2>1. a \in Target => a \in Ident
    BY DEF Ident
  <2> QED
    BY <1>10, <2>1, BeginsType DEF TestConnection, TypeOK
<1>11. ASSUME NEW t \in Task, Check(t) \/ Load(t) \/ Greet(t) \/ Intent(t) \/ Fetch(t)
       PROVE  TypeOK'
  <2>1. task[t] \in TaskState
    BY <1>11 DEF Check, Load, Greet, Intent, Fetch, At, TypeOK
  <2>2. file[task[t].ident] \in Pin \cup {None} /\ key[task[t].addr] \in Key
    BY <2>1 DEF TypeOK, TaskState
  <2> QED
    BY <1>11, <2>1, <2>2 DEF Check, Load, Greet, Intent, Fetch, Goto, At, TypeOK, TaskState
<1>12. ASSUME NEW t \in Task, Verify(t) PROVE TypeOK'
  <2>1. task[t] \in TaskState /\ task[t].pin \in Pin
    BY <1>12 DEF Verify, At, TypeOK, TaskState
  <2> QED
    BY <1>12, <2>1 DEF Verify, Trust, Ends, TypeOK, TaskState
<1>13. ASSUME NEW t \in Task, MissingHostKey(t) PROVE TypeOK'
  <2>1. task[t] \in TaskState /\ Line(t) \in Pin
    BY <1>13 DEF MissingHostKey, At, TypeOK, TaskState, Places, Place, Line, Pin
  <2> QED
    BY <1>13, <2>1 DEF MissingHostKey, Trust, Noted, Ends, TypeOK, TaskState
<1>14. ASSUME NEW t \in Task, ForgetHostkey(t) PROVE TypeOK'
  <2>1. task[t].ident \in Ident
    BY <1>14 DEF ForgetHostkey, At, TypeOK, TaskState
  <2>2. /\ file' \in [Ident -> Pin \cup {None}]
        /\ trusted' \in [Ident -> SUBSET Pin]
        /\ task' \in [Task -> TaskState \cup {None}]
    BY <1>14, <2>1, ObeyedType DEF ForgetHostkey
  <2> QED
    BY <1>14, <2>2 DEF ForgetHostkey, TypeOK
<1>15. ASSUME NEW t \in Task, Replace(t) PROVE TypeOK'
  <2>1. task[t] \in TaskState /\ Line(t) \in Pin
    BY <1>15 DEF Replace, At, TypeOK, TaskState, Places, Place, Line, Pin
  <2>2. /\ file' \in [Ident -> Pin \cup {None}]
        /\ trusted' \in [Ident -> SUBSET Pin]
        /\ task' \in [Task -> TaskState \cup {None}]
    BY <1>15, <2>1, ObeyedType DEF Replace, TaskState
  <2>3. task[t].ident \in Server
    BY <1>15, <2>1 DEF Replace, At, Places, Place
  <2> QED
    BY <1>15, <2>2, <2>3 DEF Replace, TypeOK
<1>16. ASSUME NEW t \in Task, GivesUp(t) PROVE TypeOK'
  BY <1>16 DEF GivesUp, Ends, TypeOK, TaskState, Places, Place
<1> QED
  BY <1>1, <1>2, <1>3, <1>4, <1>5, <1>6, <1>7, <1>8, <1>9, <1>10, <1>11, <1>12,
     <1>13, <1>14, <1>15, <1>16
  DEF Next, Requests, Connect, Collect, CollectSlow, CollectInventory, LiveProcesses

-----------------------------------------------------------------------------
(* The inductive invariant.                                                *)

\* Who obeys an order marks others stale, and nothing else about them.
LEMMA ObeyedOthers ==
    ASSUME TypeOK, NEW t \in Task, NEW i \in Ident, NEW p \in Pin \cup {None},
           Obeyed(t, i, p)
    PROVE  /\ task'[t] = None
           /\ \A u \in Task \ {t} :
                 /\ (task'[u] = None) <=> (task[u] = None)
                 /\ task[u] # None =>
                       /\ task'[u].op = task[u].op /\ task'[u].step = task[u].step
                       /\ task'[u].ident = task[u].ident /\ task'[u].addr = task[u].addr
                       /\ task'[u].pin = task[u].pin /\ task'[u].shown = task[u].shown
                       /\ task'[u].want = task[u].want
                       /\ task[u].stale => task'[u].stale
                       /\ (task[u].ident = i /\ task[u].pin # None) => task'[u].stale
<1>1. ASSUME NEW u \in Task, task[u] # None
      PROVE  [task[u] EXCEPT !.stale = TRUE] \in TaskState
  BY <1>1 DEF TypeOK, TaskState
<1> QED
  BY <1>1, TaskAssumption DEF Obeyed, TypeOK, TaskState

LEMMA PlacesNext == TypeOK /\ Places /\ [Next]_vars => Places'
<1> SUFFICES ASSUME TypeOK, Places, [Next]_vars PROVE Places'
  OBVIOUS
<1>1. CASE UNCHANGED task
  BY <1>1 DEF Places, Place
\* What concerns one thread, and leaves or puts it in a place.
<1>2. ASSUME NEW t \in Task,
             \A u \in Task \ {t} : task'[u] = task[u],
             task'[t] # None => Place(task[t])'
      PROVE  Places'
  BY <1>2 DEF Places, Place
<1>3. ASSUME NEW t \in Task, Ends(t) PROVE Places'
  BY <1>3, <1>2 DEF Ends, TypeOK
<1>4. ASSUME NEW t \in Task, NEW op, NEW step, NEW i, NEW a, NEW want,
             Begins(t, op, step, i, a, want),
             step \in {"intent", "check", "forget"},
             op = "reset" => want \in Key /\ step = "intent",
             step \in {"intent", "forget"} => i \in Server
      PROVE  Places'
  <2>1. task'[t].op = op /\ task'[t].step = step /\ task'[t].ident = i /\ task'[t].want = want
    BY <1>4 DEF Begins, TypeOK
  <2>2. \A u \in Task \ {t} : task'[u] = task[u]
    BY <1>4 DEF Begins, TypeOK
  <2> QED
    BY <1>2, <1>4, <2>1, <2>2 DEF Place
<1>5. ASSUME NEW t \in Task, NEW i \in Ident, NEW p \in Pin \cup {None}, Obeyed(t, i, p)
      PROVE  Places'
  <2>1. ASSUME NEW u \in Task, task'[u] # None PROVE Place(task[u])'
    BY <1>5, <2>1, ObeyedOthers DEF Places, Place
  <2> QED
    BY <2>1 DEF Places
<1>6. ASSUME NEW t \in Task, Check(t) \/ Load(t) \/ Greet(t) \/ Intent(t) \/ Fetch(t)
      PROVE  Places'
  <2>1. task[t] \in TaskState /\ key[task[t].addr] \in Key /\ Place(task[t])
    BY <1>6 DEF Check, Load, Greet, Intent, Fetch, At, TypeOK, TaskState, Places
  <2> QED
    BY <1>2, <1>6, <2>1
    DEF Check, Load, Greet, Intent, Fetch, Goto, At, TypeOK, TaskState, Place
<1>7. ASSUME NEW a \in Addr, Reinstall(a) \/ \E s \in Server : CreateServer(s, a)
      PROVE  Places'
  BY <1>1, <1>7 DEF CreateServer, Reinstall
<1>8. ASSUME NEW t \in Task, NEW s \in Server, Requests(t, s) PROVE Places'
  BY <1>4, <1>8
  DEF Requests, Connects, Collect, CollectSlow, CollectInventory, LiveProcesses,
      ProcessAction, DeleteServer, UpdateServer, TestStoredServer, ResetHostkey
<1>9. ASSUME NEW t \in Task, NEW a \in Addr, TestConnection(t, a) PROVE Places'
  BY <1>4, <1>9 DEF TestConnection
<1>10. ASSUME NEW t \in Task, Verify(t) \/ MissingHostKey(t) \/ GivesUp(t) PROVE Places'
  BY <1>3, <1>10 DEF Verify, MissingHostKey, GivesUp
<1>11. ASSUME NEW t \in Task, ForgetHostkey(t) \/ Replace(t) PROVE Places'
  <2>1. task[t] \in TaskState /\ task[t].ident \in Ident
    BY <1>11 DEF ForgetHostkey, Replace, At, TypeOK, TaskState
  <2>2. Replace(t) => Line(t) \in Pin
    BY <2>1 DEF Replace, At, Places, Place, Line, Pin, TaskState
  <2> QED
    BY <1>5, <1>11, <2>1, <2>2 DEF ForgetHostkey, Replace
<1> QED
  BY <1>1, <1>6, <1>7, <1>8, <1>9, <1>10, <1>11 DEF Next, Connect, vars

\* A key that was loaded is the recorded one, since whoever replaces or
\* removes a recorded key makes it stale, and first contacts find no key.
LEMMA PinFreshNext == TypeOK /\ Places /\ PinFresh /\ [Next]_vars => PinFresh'
<1> SUFFICES ASSUME TypeOK, Places, PinFresh, [Next]_vars PROVE PinFresh'
  OBVIOUS
<1> USE IdentAssumption, PinAssumption, TaskAssumption
<1>1. CASE UNCHANGED <<task, file>>
  BY <1>1 DEF PinFresh
<1>2. ASSUME NEW t \in Task, UNCHANGED file,
             \A u \in Task \ {t} : task'[u] = task[u],
             task'[t] # None => task'[t].pin \in {None, file[task'[t].ident]}
      PROVE  PinFresh'
  BY <1>2 DEF PinFresh
<1>3. ASSUME NEW t \in Task, NEW op, NEW step, NEW i, NEW a, NEW want,
             Begins(t, op, step, i, a, want), UNCHANGED file
      PROVE  PinFresh'
  BY <1>2, <1>3 DEF Begins, TypeOK
<1>4. ASSUME NEW t \in Task, Check(t) \/ Greet(t) \/ Intent(t) \/ Fetch(t)
      PROVE  PinFresh'
  BY <1>4 DEF Check, Greet, Intent, Fetch, Goto, At, TypeOK, TaskState, PinFresh
<1>5. ASSUME NEW t \in Task, Load(t) PROVE PinFresh'
  <2>1. task[t] \in TaskState
    BY <1>5 DEF Load, At, TypeOK
  <2> QED
    BY <1>2, <1>5, <2>1 DEF Load, TypeOK, TaskState
<1>6. ASSUME NEW t \in Task, Verify(t) \/ GivesUp(t) PROVE PinFresh'
  BY <1>2, <1>6 DEF Verify, GivesUp, Ends, TypeOK
<1>7. ASSUME NEW t \in Task, MissingHostKey(t) PROVE PinFresh'
  <2>1. task' = [task EXCEPT ![t] = None]
    BY <1>7 DEF MissingHostKey, Ends
  <2>2. CASE UNCHANGED file
    BY <1>2, <2>1, <2>2 DEF TypeOK
  <2>3. CASE /\ file[task[t].ident] = None
             /\ file' = [file EXCEPT ![task[t].ident] = Line(t)]
    BY <2>1, <2>3 DEF PinFresh, TypeOK, TaskState
  <2> QED
    BY <1>7, <2>2, <2>3 DEF MissingHostKey
<1>8. ASSUME NEW t \in Task, NEW i \in Ident, NEW p \in Pin \cup {None}, Obeyed(t, i, p)
      PROVE  PinFresh'
  <2>1. ASSUME NEW u \in Task, task'[u] # None, task'[u].pin # None, ~task'[u].stale
        PROVE  task'[u].pin = file'[task'[u].ident]
    <3>1. /\ u # t /\ task[u] # None /\ task[u].pin # None /\ task[u].ident # i
          /\ task'[u].ident = task[u].ident /\ task'[u].pin = task[u].pin
          /\ ~task[u].stale
      BY <1>8, <2>1, ObeyedOthers
    <3>2. task[u].pin = file[task[u].ident] /\ task[u].ident \in Ident
      BY <3>1 DEF PinFresh, TypeOK, TaskState
    <3>3. file'[task[u].ident] = file[task[u].ident]
      BY <1>8, <3>1, <3>2 DEF Obeyed, TypeOK
    <3> QED
      BY <3>1, <3>2, <3>3
  <2> QED
    BY <2>1 DEF PinFresh
<1>9. ASSUME NEW a \in Addr, Reinstall(a) \/ \E s \in Server : CreateServer(s, a)
      PROVE  PinFresh'
  BY <1>1, <1>9 DEF CreateServer, Reinstall
<1>10. ASSUME NEW t \in Task, NEW s \in Server, Requests(t, s) PROVE PinFresh'
  BY <1>3, <1>10
  DEF Requests, Connects, Collect, CollectSlow, CollectInventory, LiveProcesses,
      ProcessAction, DeleteServer, UpdateServer, TestStoredServer, ResetHostkey
<1>11. ASSUME NEW t \in Task, NEW a \in Addr, TestConnection(t, a) PROVE PinFresh'
  BY <1>3, <1>11 DEF TestConnection
<1>12. ASSUME NEW t \in Task, ForgetHostkey(t) \/ Replace(t) PROVE PinFresh'
  <2>1. task[t] \in TaskState /\ task[t].ident \in Ident
    BY <1>12 DEF ForgetHostkey, Replace, At, TypeOK, TaskState
  <2>2. Replace(t) => Line(t) \in Pin
    BY <1>12, <2>1 DEF Replace, At, Places, Place, Line, Pin, TaskState
  <2> QED
    BY <1>8, <1>12, <2>1, <2>2 DEF ForgetHostkey, Replace
<1> QED
  BY <1>1, <1>4, <1>5, <1>6, <1>7, <1>9, <1>10, <1>11, <1>12 DEF Next, Connect, vars

\* What is accepted as the recorded key is the recorded key.
LEMMA IdentityNext == Inv /\ [Next]_vars => OneIdentity'
<1> SUFFICES ASSUME Inv, [Next]_vars PROVE OneIdentity'
  OBVIOUS
<1> USE IdentAssumption, PinAssumption, TaskAssumption DEF Inv
<1>1. CASE UNCHANGED <<trusted, file>>
  BY <1>1 DEF OneIdentity
<1>2. ASSUME NEW t \in Task, Verify(t) PROVE OneIdentity'
  <2>1. CASE UNCHANGED trusted
    BY <1>1, <1>2, <2>1 DEF Verify
  <2>2. CASE /\ ~task[t].stale
             /\ trusted' = [trusted EXCEPT ![task[t].ident] = @ \cup {task[t].pin}]
    <3>1. task[t].pin = file[task[t].ident] /\ task[t].ident \in Ident
      BY <1>2, <2>2 DEF Verify, At, PinFresh, TypeOK, TaskState
    <3> QED
      BY <1>2, <2>2, <3>1 DEF Verify, OneIdentity, TypeOK
  <2> QED
    BY <1>2, <2>1, <2>2 DEF Verify, Trust
<1>3. ASSUME NEW t \in Task, MissingHostKey(t) PROVE OneIdentity'
  <2> DEFINE i == task[t].ident
  <2>1. i \in Ident
    BY <1>3 DEF MissingHostKey, At, TypeOK, TaskState
  <2>2. CASE UNCHANGED <<trusted, file>>
    BY <1>1, <2>2
  <2>3. CASE /\ file[i] = Line(t) /\ UNCHANGED file
             /\ trusted' = [trusted EXCEPT ![i] = @ \cup {Line(t)}]
    BY <2>1, <2>3 DEF OneIdentity, TypeOK
  <2>4. CASE /\ file[i] = None
             /\ file' = [file EXCEPT ![i] = Line(t)]
             /\ trusted' \in {trusted, [trusted EXCEPT ![i] = @ \cup {Line(t)}]}
    <3>1. trusted[i] = {}
      BY <2>1, <2>4 DEF OneIdentity, TypeOK
    <3> QED
      BY <2>1, <2>4, <3>1 DEF OneIdentity, TypeOK
  <2> QED
    BY <1>3, <2>2, <2>3, <2>4 DEF MissingHostKey, Trust
<1>4. ASSUME NEW t \in Task, NEW i \in Ident, NEW p, Obeyed(t, i, p) PROVE OneIdentity'
  BY <1>4 DEF Obeyed, OneIdentity, TypeOK
<1>5. ASSUME NEW t \in Task, ForgetHostkey(t) \/ Replace(t) PROVE OneIdentity'
  <2>1. task[t].ident \in Ident
    BY <1>5 DEF ForgetHostkey, Replace, At, TypeOK, TaskState
  <2> QED
    BY <1>4, <1>5, <2>1 DEF ForgetHostkey, Replace
<1>6. ASSUME NEW t \in Task, Check(t) \/ Load(t) \/ Greet(t) \/ Intent(t) \/ Fetch(t)
                               \/ GivesUp(t)
      PROVE  OneIdentity'
  BY <1>1, <1>6 DEF Check, Load, Greet, Intent, Fetch, GivesUp
<1>7. ASSUME NEW a \in Addr, Reinstall(a) \/ \E s \in Server : CreateServer(s, a)
      PROVE  OneIdentity'
  BY <1>1, <1>7 DEF CreateServer, Reinstall
<1>8. ASSUME NEW t \in Task, NEW s \in Server, Requests(t, s) PROVE OneIdentity'
  BY <1>1, <1>8
  DEF Requests, Connects, Collect, CollectSlow, CollectInventory, LiveProcesses,
      ProcessAction, DeleteServer, UpdateServer, TestStoredServer, ResetHostkey
<1>9. ASSUME NEW t \in Task, NEW a \in Addr, TestConnection(t, a) PROVE OneIdentity'
  BY <1>1, <1>9 DEF TestConnection
<1> QED
  BY <1>1, <1>2, <1>3, <1>5, <1>6, <1>7, <1>8, <1>9 DEF Next, Connect, vars

\* The invariant of every reachable state.
LEMMA Inductive == Spec => []Inv
<1>1. Init => Inv
  <2>1. Init => Places /\ PinFresh /\ OneIdentity
    BY DEF Init, Places, PinFresh, OneIdentity
  <2> QED
    BY <2>1, TypeInit DEF Inv
<1>2. Inv /\ [Next]_vars => Inv'
  BY TypeNext, PlacesNext, PinFreshNext, IdentityNext DEF Inv
<1> QED
  BY <1>1, <1>2, PTL DEF Spec

\* Every variable keeps its type, for any servers, addresses, keys and threads.
THEOREM TypeCorrect == Spec => []TypeOK
  BY Inductive, PTL DEF Inv

\* connect_host: of all the connections to one identity that began to trust it
\* since the last order, none has accepted a key other than the recorded one,
\* however many of them are first contacts.
THEOREM OneKeyPerIdentity == Spec => []OneIdentity
  BY Inductive, PTL DEF Inv

-----------------------------------------------------------------------------
(* Keys and addresses.                                                     *)

Follows(s) ==
    \/ file[s] = None
    \/ file[s].addr = record[s]
    \/ \E t \in Task : At(t, "forget") /\ task[t].ident = s

\* The removals that are owed stay owed, until they are made or have failed.
LEMMA FollowsKept ==
    ASSUME TypeOK, NEW s \in Server, Follows(s),
           file'[s] = file[s], record'[s] = record[s],
           \A t \in Task : At(t, "forget") /\ task[t].ident = s =>
               At(t, "forget")' /\ task'[t].ident = s
    PROVE  Follows(s)'
BY DEF Follows

LEMMA FollowsNext == Inv /\ PinFollows /\ [Next]_vars => PinFollows'
<1> SUFFICES ASSUME Inv, PinFollows, [Next]_vars, NEW s \in Server, s \notin stray'
             PROVE  Follows(s)'
  BY DEF PinFollows, Follows
<1> USE IdentAssumption, PinAssumption, TaskAssumption DEF Inv
<1>0. s \in Ident /\ TypeOK /\ (s \notin stray => Follows(s))
  BY DEF Ident, PinFollows, Follows
\* What concerns one thread, which owes no removal or goes on to owe one.
<1>1. ASSUME NEW t \in Task, \A u \in Task \ {t} : task'[u] = task[u],
             ~At(t, "forget"), file'[s] = file[s], record'[s] = record[s], stray' = stray
      PROVE  Follows(s)'
  BY <1>0, <1>1, FollowsKept DEF At
<1>2. CASE UNCHANGED <<record, file, task, stray>>
  BY <1>0, <1>2, FollowsKept DEF At
<1>3. ASSUME NEW t \in Task, NEW op, NEW step, NEW i, NEW a, NEW want,
             Begins(t, op, step, i, a, want)
      PROVE  /\ \A u \in Task \ {t} : task'[u] = task[u]
             /\ task'[t] \in [op : {op}, step : {step}, ident : {i}, addr : {a},
                              pin : {None}, shown : {None}, want : {want}, stale : {FALSE}]
             /\ ~At(t, "forget")
  BY <1>0, <1>3 DEF Begins, TypeOK, At
<1>4. ASSUME NEW t \in Task, NEW op, NEW step, NEW i, NEW a, NEW want,
             Begins(t, op, step, i, a, want), UNCHANGED <<record, file, stray>>
      PROVE  Follows(s)'
  BY <1>1, <1>3, <1>4
<1>5. ASSUME NEW t \in Task, NEW r \in Server, NEW op \in {"update", "delete"}, NEW a \in Addr,
             Begins(t, op, "forget", r, a, None), UNCHANGED <<file, stray>>,
             \A x \in Server \ {r} : record'[x] = record[x]
      PROVE  Follows(s)'
  <2>1. CASE s = r
    <3>1. At(t, "forget")' /\ task'[t].ident = s
      <4>1. task'[t] = [op |-> op, step |-> "forget", ident |-> r, addr |-> a, pin |-> None,
                        shown |-> None, want |-> None, stale |-> FALSE]
        BY <1>0, <1>5 DEF Begins, TypeOK
      <4>2. task'[t] \in TaskState
        BY <4>1 DEF TaskState, Ident
      <4>3. task'[t].step = "forget" /\ task'[t].ident = r
        BY <4>1
      <4> QED
        BY <2>1, <4>2, <4>3 DEF At
    <3> QED
      BY <3>1 DEF Follows
  <2>2. CASE s # r
    BY <1>1, <1>3, <1>5, <2>2
  <2> QED
    BY <2>1, <2>2
<1>6. ASSUME NEW a \in Addr, Reinstall(a) PROVE Follows(s)'
  BY <1>2, <1>6 DEF Reinstall
<1>7. ASSUME NEW a \in Addr, NEW r \in Server, CreateServer(r, a) PROVE Follows(s)'
  <2>1. CASE s = r
    <3>1. file[s] # None => file[s].addr # record[s]
      BY <1>0, <1>7, <2>1 DEF CreateServer, TypeOK, Pin
    <3> QED
      BY <1>0, <1>7, <3>1 DEF CreateServer, Follows, At
  <2>2. CASE s # r
    BY <1>0, <1>7, <2>2, FollowsKept DEF CreateServer, At, TypeOK
  <2> QED
    BY <2>1, <2>2
<1>8. ASSUME NEW t \in Task, NEW r \in Server, Requests(t, r) PROVE Follows(s)'
  <2>1. CASE DeleteServer(t, r)
    <3>1. record[r] \in Addr
      BY <2>1 DEF DeleteServer, TypeOK
    <3> QED
      BY <1>0, <1>5, <2>1, <3>1 DEF DeleteServer, TypeOK
  <2>2. ASSUME NEW a \in Addr, UpdateServer(t, r, a) PROVE Follows(s)'
    BY <1>0, <1>5, <2>2 DEF UpdateServer, TypeOK
  <2> QED
    BY <1>4, <1>8, <2>1, <2>2
    DEF Requests, Connects, Collect, CollectSlow, CollectInventory, LiveProcesses,
        ProcessAction, TestStoredServer, ResetHostkey
<1>9. ASSUME NEW t \in Task, NEW a \in Addr, TestConnection(t, a) PROVE Follows(s)'
  BY <1>4, <1>9 DEF TestConnection
<1>10. ASSUME NEW t \in Task, Check(t) \/ Load(t) \/ Greet(t) \/ Intent(t) \/ Fetch(t)
       PROVE  Follows(s)'
  BY <1>0, <1>1, <1>10 DEF Check, Load, Greet, Intent, Fetch, Goto, At, TypeOK
<1>11. ASSUME NEW t \in Task, Verify(t) PROVE Follows(s)'
  BY <1>0, <1>1, <1>11 DEF Verify, Ends, At, TypeOK
<1>12. ASSUME NEW t \in Task, MissingHostKey(t) PROVE Follows(s)'
  <2> DEFINE i == task[t].ident
  <2>1. /\ \A u \in Task \ {t} : task'[u] = task[u]
        /\ ~At(t, "forget") /\ UNCHANGED record
    BY <1>0, <1>12 DEF MissingHostKey, Ends, At, TypeOK
  <2>2. CASE UNCHANGED <<file, stray>>
    BY <1>1, <2>1, <2>2
  <2>3. CASE file' = [file EXCEPT ![i] = Line(t)] /\ Noted(t)
    <3>1. CASE s = i
      <4>1. record[s] = task[t].addr
        BY <2>3, <3>1 DEF Noted, Strays
      <4>2. file'[s].addr = task[t].addr
        BY <1>0, <2>3, <3>1 DEF Line, TypeOK
      <4> QED
        BY <2>1, <4>1, <4>2 DEF Follows
    <3>2. CASE s # i
      <4>1. file'[s] = file[s] /\ (s \in stray <=> s \in stray')
        BY <1>0, <2>3, <3>2 DEF Noted, TypeOK
      <4> QED
        BY <1>0, <2>1, <4>1, FollowsKept DEF At
    <3> QED
      BY <3>1, <3>2
  <2> QED
    BY <1>12, <2>2, <2>3 DEF MissingHostKey
<1>13. ASSUME NEW t \in Task, ForgetHostkey(t) \/ Replace(t) PROVE Follows(s)'
  <2> DEFINE i == task[t].ident
  <2>1. i \in Ident /\ (Replace(t) => Line(t) \in Pin /\ ~At(t, "forget")) /\ UNCHANGED record
    BY <1>0, <1>13
    DEF ForgetHostkey, Replace, At, TypeOK, TaskState, Places, Place, Line, Pin
  <2>2. PICK p \in Pin \cup {None} :
          Obeyed(t, i, p) /\ (p = None \/ (Replace(t) /\ p = Line(t)))
    BY <1>13, <2>1 DEF ForgetHostkey, Replace
  <2>3. file' = [file EXCEPT ![i] = p]
    BY <2>2 DEF Obeyed
  <2>4. CASE s = i
    <3>1. CASE p = None
      BY <1>0, <2>3, <2>4, <3>1 DEF Follows, TypeOK
    <3>2. CASE Replace(t) /\ p = Line(t)
      <4>1. record[s] = task[t].addr
        BY <2>4, <3>2 DEF Replace, Strays
      <4>2. file'[s].addr = task[t].addr
        BY <1>0, <2>3, <2>4, <3>2 DEF Line, TypeOK
      <4> QED
        BY <2>1, <4>1, <4>2 DEF Follows
    <3> QED
      BY <2>2, <3>1, <3>2
  <2>5. CASE s # i
    <3>1. file'[s] = file[s] /\ s \notin stray
      BY <1>0, <1>13, <2>3, <2>5 DEF ForgetHostkey, Replace, TypeOK
    <3>2. ASSUME NEW u \in Task, At(u, "forget"), task[u].ident = s
          PROVE  At(u, "forget")' /\ task'[u].ident = s
      <4>1. u # t
        BY <2>5, <3>2
      <4> QED
        BY <1>0, <2>1, <2>2, <3>2, <4>1, ObeyedOthers DEF At
    <3> QED
      BY <1>0, <2>1, <3>1, <3>2, FollowsKept
  <2> QED
    BY <2>4, <2>5
<1>14. ASSUME NEW t \in Task, GivesUp(t) PROVE Follows(s)'
  <2>1. /\ UNCHANGED <<record, file>> /\ \A u \in Task \ {t} : task'[u] = task[u]
        /\ s \notin stray
    BY <1>0, <1>14 DEF GivesUp, Ends, TypeOK
  <2>2. ~(At(t, "forget") /\ task[t].ident = s)
    BY <1>14 DEF GivesUp, At
  <2> QED
    BY <1>0, <2>1, <2>2, FollowsKept DEF At
<1> QED
  BY <1>2, <1>6, <1>7, <1>8, <1>9, <1>10, <1>11, <1>12, <1>13, <1>14
  DEF Next, Connect, vars

\* update_server, delete_server and forget_hostkey: a key is recorded for the
\* address the server has, unless its removal is owed, or something else that
\* stray names has gone astray, for every interleaving of connections, orders
\* and failures.
THEOREM PinFollowsHolds == Spec => []PinFollows
<1>1. Init => PinFollows
  BY IdentAssumption DEF Init, PinFollows, Ident
<1> QED
  BY <1>1, Inductive, FollowsNext, PTL DEF Spec

-----------------------------------------------------------------------------
(* Hosts implements TrustCell.                                             *)

\* A thread gives an order until it has carried it out or failed.
Gives(r, o) ==
    \/ r.step = "forget" /\ o = <<r.ident, None>>
    \/ r.op = "reset" /\ o = <<r.ident, [addr |-> r.addr, key |-> r.want]>>

LEMMA OrdersGiven ==
    /\ \A o : o \in Orders <=> \E u \in Task : task[u] # None /\ Gives(task[u], o)
    /\ \A o : o \in Orders' <=> \E u \in Task : task'[u] # None /\ Gives(task'[u], o)
  BY DEF Orders, Gives, At

LEMMA OrdersType == Inv => Orders \in SUBSET (Ident \X (Pin \cup {None}))
  BY DEF Inv, TypeOK, TaskState, Places, Place, Orders, At, Pin

\* Who carries out an order drops it, unless somebody else gives the same.
LEMMA ObeyedCell ==
    ASSUME Inv, NEW t \in Task, NEW i \in Ident, NEW p \in Pin \cup {None},
           Obeyed(t, i, p), task[t] # None, Gives(task[t], <<i, p>>),
           \A o : Gives(task[t], o) => o = <<i, p>>
    PROVE  Cell!Obey(<<i, p>>)
<1>1. <<i, p>> \in Orders
  BY OrdersGiven
<1>2. ASSUME NEW o PROVE o \in Orders' => o \in Orders
  <2>1. ASSUME NEW u \in Task, task'[u] # None, Gives(task'[u], o)
        PROVE  task[u] # None /\ Gives(task[u], o)
    BY <2>1, ObeyedOthers DEF Gives, Inv
  <2> QED
    BY <2>1, OrdersGiven
<1>3. ASSUME NEW o, o \in Orders, o # <<i, p>> PROVE o \in Orders'
  <2>1. PICK u \in Task : task[u] # None /\ Gives(task[u], o)
    BY <1>3, OrdersGiven
  <2>2. u # t
    BY <1>3, <2>1
  <2>3. task'[u] # None /\ Gives(task'[u], o)
    BY <2>1, <2>2, ObeyedOthers DEF Gives, Inv
  <2> QED
    BY <2>3, OrdersGiven
<1>4. Orders' \in {Orders, Orders \ {<<i, p>>}}
  <2>1. CASE <<i, p>> \in Orders'
    BY <1>1, <1>2, <1>3, <2>1
  <2>2. CASE <<i, p>> \notin Orders'
    BY <1>1, <1>2, <1>3, <2>2
  <2> QED
    BY <2>1, <2>2
<1> QED
  BY <1>1, <1>4 DEF Cell!Obey, Obeyed

\* A first contact that publishes a key gives no order.
LEMMA MissingCell ==
    ASSUME Inv, NEW t \in Task, MissingHostKey(t), file' # file
    PROVE  Cell!Next
<1> DEFINE i == task[t].ident
<1>1. /\ task[t] \in TaskState /\ Place(task[t]) /\ task[t].step = "trust"
      /\ task' = [task EXCEPT ![t] = None]
      /\ file[i] = None /\ file' = [file EXCEPT ![i] = Line(t)]
  BY DEF MissingHostKey, At, Ends, Inv, TypeOK, Places
<1>2. i \in Ident /\ Line(t) \in Pin
  BY <1>1 DEF TaskState, Place, Line, Pin
<1>3. ASSUME NEW o PROVE ~Gives(task[t], o)
  BY <1>1 DEF Gives, Place
<1>4. Orders' = Orders
  <2>1. \A o : o \in Orders' <=> o \in Orders
    BY <1>1, <1>3, OrdersGiven DEF Inv, TypeOK
  <2>2. Orders' = {o \in Orders' : TRUE} /\ Orders = {o \in Orders : TRUE}
    OBVIOUS
  <2> QED
    BY <2>1
<1>5. Cell!FirstUse(i, Line(t))
  BY <1>1, <1>4 DEF Cell!FirstUse
<1> QED
  BY <1>2, <1>5 DEF Cell!Next

\* A step that is neither leaves the key files alone, and counts as orders
\* given, withdrawn or failed.
LEMMA OtherCell ==
    ASSUME Inv, Inv', UNCHANGED file
    PROVE  Cell!Next
<1>1. (Orders \in SUBSET (Ident \X (Pin \cup {None})))'
  BY OrdersType, PTL
<1> QED
  BY <1>1 DEF Cell!Next, Cell!Command, Cell!Order

\* No connection replaces or removes a recorded key, and a reset pins only the
\* fingerprint that was submitted with it: a step that writes a key file is a
\* first contact that finds none, or carries out an order under way.
THEOREM TrustImplemented == Spec => ImplementsTrust
<1>1. Init => Cell!Init
  BY DEF Init, Cell!Init, Orders, At
<1>2. Inv /\ Inv' /\ [Next]_vars => [Cell!Next]_Cell!vars
  <2> SUFFICES ASSUME Inv, Inv', [Next]_vars PROVE Cell!Next
    BY DEF Cell!vars
  <2>1. CASE UNCHANGED file
    BY <2>1, OtherCell
  <2>2. ASSUME NEW t \in Task, MissingHostKey(t), file' # file PROVE Cell!Next
    BY <2>2, MissingCell
  <2>3. ASSUME NEW t \in Task, ForgetHostkey(t) PROVE Cell!Next
    <3>1. /\ task[t] \in TaskState /\ Place(task[t]) /\ task[t] # None
          /\ task[t].step = "forget"
      BY <2>3 DEF ForgetHostkey, At, Inv, TypeOK, Places
    <3>2. task[t].ident \in Ident
      BY <3>1 DEF TaskState
    <3>3. /\ Gives(task[t], <<task[t].ident, None>>)
          /\ \A o : Gives(task[t], o) => o = <<task[t].ident, None>>
      BY <3>1 DEF Gives, Place
    <3>4. Cell!Obey(<<task[t].ident, None>>)
      BY <2>3, <3>1, <3>2, <3>3, ObeyedCell DEF ForgetHostkey
    <3> QED
      BY <3>2, <3>4 DEF Cell!Next, Cell!Order
  <2>4. ASSUME NEW t \in Task, Replace(t) PROVE Cell!Next
    <3>1. /\ task[t] \in TaskState /\ Place(task[t]) /\ task[t] # None
          /\ task[t].step = "pin"
      BY <2>4 DEF Replace, At, Inv, TypeOK, Places
    <3>2. task[t].ident \in Ident /\ Line(t) \in Pin
      BY <3>1 DEF TaskState, Place, Line, Pin
    <3>3. /\ Gives(task[t], <<task[t].ident, Line(t)>>)
          /\ \A o : Gives(task[t], o) => o = <<task[t].ident, Line(t)>>
      BY <3>1 DEF Gives, Place, Line
    <3>4. Cell!Obey(<<task[t].ident, Line(t)>>)
      BY <2>4, <3>1, <3>2, <3>3, ObeyedCell DEF Replace
    <3> QED
      BY <3>2, <3>4 DEF Cell!Next, Cell!Order
  <2>5. ASSUME NEW t \in Task, NEW s \in Server, Requests(t, s) PROVE UNCHANGED file
    BY <2>5
    DEF Requests, Connects, Collect, CollectSlow, CollectInventory, LiveProcesses,
        ProcessAction, DeleteServer, UpdateServer, TestStoredServer, ResetHostkey
  <2>6. ASSUME NEW t \in Task,
               Check(t) \/ Load(t) \/ Verify(t) \/ Greet(t) \/ Intent(t) \/ Fetch(t)
                  \/ GivesUp(t) \/ \E a \in Addr : TestConnection(t, a)
        PROVE  UNCHANGED file
    BY <2>6 DEF Check, Load, Verify, Greet, Intent, Fetch, GivesUp, TestConnection
  <2>7. ASSUME NEW a \in Addr, Reinstall(a) \/ \E s \in Server : CreateServer(s, a)
        PROVE  UNCHANGED file
    BY <2>7 DEF Reinstall, CreateServer
  <2> QED
    BY <2>1, <2>2, <2>3, <2>4, <2>5, <2>6, <2>7 DEF Next, Connect, vars
<1> QED
  BY <1>1, <1>2, Inductive, PTL DEF Spec, Cell!Spec, ImplementsTrust
=============================================================================
