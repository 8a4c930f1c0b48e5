------------------------------- MODULE Hosts -------------------------------
(***************************************************************************)
(* Servers, their addresses and the host keys recorded for them:           *)
(* ssh_transport.py, and everything that connects (ssh_collector.py,       *)
(* collectors_extra.py, server_test.py) or gives orders (api/servers.py,   *)
(* reset_hostkey in api/enterprise.py, process_action in api/metrics.py).  *)
(*                                                                         *)
(* Key files are read, created, replaced and removed by threads that have  *)
(* read the server's address some time before; only single file            *)
(* operations are under _HOSTKEY_LOCK and the process lock.                *)
(*                                                                         *)
(* Abstracted: an address is host and port, the pattern of a file's line;  *)
(* a fingerprint is its key; credentials, commands and output are left     *)
(* out.  A connection whose authentication or command fails has still      *)
(* accepted the host's key.  The end of the process is GivesUp, task by    *)
(* task.                                                                   *)
(***************************************************************************)
EXTENDS Naturals, FiniteSets

CONSTANTS
    Server,   \* row ids, given again after a deletion on SQLite
    Addr,
    Target,   \* the addresses that are tested without being a server's
    IpOf,     \* the address a name has been resolved to, before a test
    Key,
    Task,     \* threads: collections and requests
    None

ASSUME IdentAssumption ==
    /\ None \notin Server \cup Addr \cup Key
    /\ Target \subseteq Addr /\ Server \cap Addr = {}
    /\ IpOf \in [Addr -> Addr]

\* server_<id>.keys, and target_<host>_<port>.keys for tests of addresses.
Ident == Server \cup Target
Pin   == [addr : Addr, key : Key]

ASSUME PinAssumption == None \notin Pin

TaskState ==
    [op : {"collect", "test", "process", "update", "delete", "reset"},
     step : {"intent", "check", "load", "hello", "trust", "fetch", "pin", "forget"},
     ident : Ident, addr : Addr,
     pin : Pin \cup {None},    \* what load_host_keys has loaded
     shown : Key \cup {None},  \* what the host has presented
     want : Key \cup {None},   \* expected_fingerprint
     stale : BOOLEAN]          \* history: an order was obeyed since pin was loaded

ASSUME TaskAssumption == None \notin TaskState

VARIABLES
    record,   \* the servers table: the address of a server
    key,      \* the key a connection to an address, or by a name, is shown
    file,     \* the key files
    task,
    trusted,  \* history: keys accepted since the last order was obeyed
    stray     \* history: servers whose file was written for an address the
              \* server no longer had, or was not removed after all

vars == <<record, key, file, task, trusted, stray>>

TypeOK ==
    /\ record \in [Server -> Addr \cup {None}]
    /\ key \in [Addr -> Key]
    /\ file \in [Ident -> Pin \cup {None}]
    /\ task \in [Task -> TaskState \cup {None}]
    /\ trusted \in [Ident -> SUBSET Pin]
    /\ stray \in SUBSET Server

\* Nothing is stored but what older tests have recorded, under the address the
\* target's name was resolved to.
Init ==
    /\ record = [s \in Server |-> None]
    /\ key \in [Addr -> Key]
    /\ file \in [Ident -> Pin \cup {None}]
    /\ \A i \in Ident : file[i] # None => i \in Target /\ file[i].addr = IpOf[i]
    /\ task = [t \in Task |-> None]
    /\ trusted = [i \in Ident |-> {}]
    /\ stray = {}

At(t, step) == task[t] # None /\ task[t].step = step
Goto(t, step) == task' = [task EXCEPT ![t].step = step]
Ends(t) == task' = [task EXCEPT ![t] = None]

Begins(t, op, step, i, a, want) ==
    /\ task[t] = None
    /\ task' = [task EXCEPT ![t] =
          [op |-> op, step |-> step, ident |-> i, addr |-> a, pin |-> None,
           shown |-> None, want |-> want, stale |-> FALSE]]

-----------------------------------------------------------------------------
(* Who connects.                                                           *)

\* sshd is installed anew.
Reinstall(a) ==
    /\ key' \in {[key EXCEPT ![a] = k] : k \in Key \ {key[a]}}
    /\ UNCHANGED <<record, file, task, trusted, stray>>

\* To the address that was read with the server.
Connects(t, s) ==
    /\ record[s] # None
    /\ Begins(t, "collect", "check", s, record[s], None)
    /\ UNCHANGED <<record, key, file, trusted, stray>>

\* The scheduler's three tiers and the live process list; whether the script
\* has output, and whether it can be parsed, comes after the key is accepted.
Collect(t, s)          == Connects(t, s)
CollectSlow(t, s)      == Connects(t, s)
CollectInventory(t, s) == Connects(t, s)
LiveProcesses(t, s)    == Connects(t, s)

\* A target that is not stored has a file of its own.
TestConnection(t, a) ==
    /\ a \in Target
    /\ Begins(t, "test", "check", a, a, None)
    /\ UNCHANGED <<record, key, file, trusted, stray>>

\* A stored server with a draft, which may change the address: only the
\* server's own address is tested against its file.
TestStoredServer(t, s, draft) ==
    /\ record[s] # None
    /\ IF draft = record[s] THEN Begins(t, "test", "check", s, draft, None)
       ELSE draft \in Target /\ Begins(t, "test", "check", draft, draft, None)
    /\ UNCHANGED <<record, key, file, trusted, stray>>

\* process_action, after the password was confirmed.
ProcessAction(t, s) ==
    /\ record[s] # None
    /\ Begins(t, "process", "intent", s, record[s], None)
    /\ UNCHANGED <<record, key, file, trusted, stray>>

-----------------------------------------------------------------------------
(* connect_host.                                                           *)

\* _has_recorded_key decides between RejectPolicy and _TofuPolicy, outside any
\* lock.
Check(t) ==
    /\ At(t, "check")
    /\ Goto(t, IF file[task[t].ident] # None THEN "load" ELSE "hello")
    /\ UNCHANGED <<record, key, file, trusted, stray>>

\* load_host_keys; a file that has gone since is an error (GivesUp).
Load(t) ==
    /\ At(t, "load") /\ file[task[t].ident] # None
    /\ task' = [task EXCEPT ![t].pin = file[task[t].ident], ![t].step = "hello"]
    /\ UNCHANGED <<record, key, file, trusted, stray>>

\* A key of another address is as good as none, which RejectPolicy rejects,
\* but tests accept one recorded under the resolved address; the file stays.
Matches(t) ==
    /\ task[t].pin.key = key[task[t].addr]
    /\ \/ task[t].pin.addr = task[t].addr
       \/ task[t].op = "test" /\ task[t].pin.addr = IpOf[task[t].addr]

\* A connection that loaded its keys before an order was obeyed belongs to the
\* time before.
Trust(i, p, stale) ==
    trusted' = IF stale THEN trusted ELSE [trusted EXCEPT ![i] = @ \cup {p}]

\* The handshake, with recorded keys: the same key, or the end.
Verify(t) ==
    /\ At(t, "hello") /\ task[t].pin # None
    /\ IF Matches(t) THEN Trust(task[t].ident, task[t].pin, task[t].stale)
       ELSE UNCHANGED trusted
    /\ Ends(t)
    /\ UNCHANGED <<record, key, file, stray>>

\* Without any, the policy is asked about the key.
Greet(t) ==
    /\ At(t, "hello") /\ task[t].pin = None
    /\ task' = [task EXCEPT ![t].shown = key[task[t].addr], ![t].step = "trust"]
    /\ UNCHANGED <<record, key, file, trusted, stray>>

\* The line of a file that this task would write.
Line(t) == [addr |-> task[t].addr, key |-> task[t].shown]

Strays(t) == record[task[t].ident] # task[t].addr

Noted(t) ==
    stray' = IF task[t].ident \in Server /\ Strays(t) THEN stray \cup {task[t].ident}
             ELSE stray

\* Mutant: the file is put in place by a rename.
MissingHostKeyReplacing(t) ==
    /\ At(t, "trust")
    /\ file' = [file EXCEPT ![task[t].ident] = Line(t)]
    /\ Noted(t)
    /\ Trust(task[t].ident, Line(t), FALSE)
    /\ Ends(t)
    /\ UNCHANGED <<record, key>>

\* missing_host_key, under both locks: verified against a file that has come
\* up meanwhile, or published; an error after the link refuses the connection
\* and leaves the file.
MissingHostKey(t) ==
    LET i == task[t].ident
    IN  /\ At(t, "trust")
        /\ \/ /\ file[i] # None
              /\ IF file[i] = Line(t) THEN Trust(i, Line(t), FALSE) ELSE UNCHANGED trusted
              /\ UNCHANGED <<file, stray>>
           \/ /\ file[i] = None
              /\ file' = [file EXCEPT ![i] = Line(t)]
              /\ Noted(t)
              /\ Trust(i, Line(t), FALSE) \/ UNCHANGED trusted
        /\ Ends(t)
        /\ UNCHANGED <<record, key>>

-----------------------------------------------------------------------------
(* What administrators order.                                              *)

\* An order takes effect: connections that have loaded the old key are stale.
Obeyed(t, i, p) ==
    /\ file' = [file EXCEPT ![i] = p]
    /\ trusted' = [trusted EXCEPT ![i] = {}]
    /\ task' = [u \in Task |->
          IF u = t THEN None
          ELSE IF task[u] # None /\ task[u].ident = i /\ task[u].pin # None
               THEN [task[u] EXCEPT !.stale = TRUE]
               ELSE task[u]]

\* create_server looks at no file.
CreateServer(s, a) ==
    /\ record[s] = None
    /\ record' = [record EXCEPT ![s] = a]
    /\ UNCHANGED <<key, file, task, trusted, stray>>

\* Mutant: the file recorded for the old address stays.
UpdateServerLate(t, s, a) ==
    /\ record[s] \notin {None, a} /\ task[t] = None
    /\ record' = [record EXCEPT ![s] = a]
    /\ UNCHANGED <<key, file, task, trusted, stray>>

\* update_server commits the address; the file goes in a later step.
UpdateServer(t, s, a) ==
    /\ record[s] \notin {None, a}
    /\ record' = [record EXCEPT ![s] = a]
    /\ Begins(t, "update", "forget", s, a, None)
    /\ UNCHANGED <<key, file, trusted, stray>>

\* delete_server: the row and what belongs to it, then the file.
DeleteServer(t, s) ==
    /\ record[s] # None
    /\ record' = [record EXCEPT ![s] = None]
    /\ Begins(t, "delete", "forget", s, record[s], None)
    /\ UNCHANGED <<key, file, trusted, stray>>

\* forget_hostkey.
ForgetHostkey(t) ==
    /\ At(t, "forget")
    /\ Obeyed(t, task[t].ident, None)
    /\ stray' = stray \ {task[t].ident}
    /\ UNCHANGED <<record, key>>

\* reset_hostkey, after the password was confirmed; the administrator has the
\* fingerprint k of what he takes to be the server's key.
ResetHostkey(t, s, k) ==
    /\ record[s] # None
    /\ Begins(t, "reset", "intent", s, record[s], k)
    /\ UNCHANGED <<record, key, file, trusted, stray>>

\* Mutant: the file is written before the key is fetched.
IntentPinning(t) ==
    /\ At(t, "intent")
    /\ Goto(t, IF task[t].op = "reset" THEN "pin" ELSE "check")
    /\ UNCHANGED <<record, key, file, trusted, stray>>

\* The audit row of the intent is committed, or the request ends (GivesUp).
Intent(t) ==
    /\ At(t, "intent")
    /\ Goto(t, IF task[t].op = "reset" THEN "fetch" ELSE "check")
    /\ UNCHANGED <<record, key, file, trusted, stray>>

\* Mutant: whatever key the host presents is pinned.
FetchUnchecked(t) ==
    /\ At(t, "fetch")
    /\ task' = [task EXCEPT ![t].shown = key[task[t].addr], ![t].step = "pin"]
    /\ UNCHANGED <<record, key, file, trusted, stray>>

\* _fetch_remote_host_key, and the comparison with expected_fingerprint.
Fetch(t) ==
    /\ At(t, "fetch") /\ key[task[t].addr] = task[t].want
    /\ task' = [task EXCEPT ![t].shown = key[task[t].addr], ![t].step = "pin"]
    /\ UNCHANGED <<record, key, file, trusted, stray>>

\* os.replace.
Replace(t) ==
    /\ At(t, "pin")
    /\ stray' = IF Strays(t) THEN stray \cup {task[t].ident} ELSE stray \ {task[t].ident}
    /\ Obeyed(t, task[t].ident, Line(t))
    /\ UNCHANGED <<record, key>>

\* An exception, a refusal, a time-out, or the end of the process.
GivesUp(t) ==
    /\ task[t] # None
    /\ stray' = IF task[t].step = "forget" THEN stray \cup {task[t].ident} ELSE stray
    /\ Ends(t)
    /\ UNCHANGED <<record, key, file, trusted>>

-----------------------------------------------------------------------------
Connect(t) == Check(t) \/ Load(t) \/ Verify(t) \/ Greet(t) \/ MissingHostKey(t)

Requests(t, s) ==
    \/ Collect(t, s) \/ CollectSlow(t, s) \/ CollectInventory(t, s)
    \/ LiveProcesses(t, s) \/ ProcessAction(t, s) \/ DeleteServer(t, s)
    \/ \E a \in Addr : UpdateServer(t, s, a) \/ TestStoredServer(t, s, a)
    \/ \E k \in Key : ResetHostkey(t, s, k)

Next ==
    \/ \E a \in Addr : Reinstall(a) \/ \E s \in Server : CreateServer(s, a)
    \/ \E t \in Task :
         \/ \E s \in Server : Requests(t, s)
         \/ \E a \in Addr : TestConnection(t, a)
         \/ Connect(t) \/ Intent(t) \/ Fetch(t) \/ Replace(t) \/ ForgetHostkey(t)
         \/ GivesUp(t)

Spec == Init /\ [][Next]_vars

-----------------------------------------------------------------------------
\* All connections to one identity that began to trust it after the last order
\* was obeyed have accepted one and the same key at one address, the recorded
\* one, although first contacts race each other and forgets come in between.
OneIdentity == \A i \in Ident : trusted[i] \subseteq {file[i]}

\* A recorded key is for the address the server has, while the removal that
\* a change of address owes is under way, or else something went astray: a
\* thread that had read the old address wrote it last, or the removal failed.
PinFollows ==
    \A s \in Server \ stray :
        \/ file[s] = None
        \/ file[s].addr = record[s]
        \/ \E t \in Task : At(t, "forget") /\ task[t].ident = s

\* The orders that are being carried out.
Orders ==
    {<<task[t].ident, None>> : t \in {u \in Task : At(u, "forget")}} \cup
    {<<task[t].ident, [addr |-> task[t].addr, key |-> task[t].want]>> :
        t \in {u \in Task : task[u] # None /\ task[u].op = "reset"}}

Cell == INSTANCE TrustCell WITH pin <- file, orders <- Orders

\* No connection replaces or removes a recorded key, and a reset pins only the
\* fingerprint the administrator has submitted: "a concurrent writer must be
\* verified rather than silently replaced".
ImplementsTrust == Cell!Spec
=============================================================================
