----------------------------- MODULE Retention -----------------------------
(***************************************************************************)
(* The life of a row of server_metrics after it is stored: scheduler.py    *)
(* (_archive_expired_metrics, _retention_cleanup), archive_crypto.py,      *)
(* scripts/restore_archive.py, and what other writers do meanwhile:        *)
(* polls, import_sqlite.py, delete_server.                                 *)
(*                                                                         *)
(* Three processes meet in the table and in ARCHIVE_DIR: the scheduler     *)
(* thread, which archives and deletes in many transactions; an operator's  *)
(* restore, a program of its own; and the requests and polls.  Both        *)
(* programs may die between any two steps.                                 *)
(*                                                                         *)
(* Abstracted: time is counted in periods of retention_days, each a new    *)
(* day, with one sample per server and period; an archive is the set of    *)
(* samples and servers it holds.                                           *)
(***************************************************************************)
EXTENDS Naturals, FiniteSets

CONSTANTS
    Server,
    MaxTime,       \* bound: periods
    MaxId,         \* bound: row ids
    File,          \* archive names, one per second
    DeleteBatch,   \* 5000
    RestoreBatch,  \* 300
    IdsReused,     \* SQLite gives a new row the greatest id plus one; MySQL
                   \* never gives an id twice
    None

ASSUME BoundsAssumption ==
    /\ MaxTime \in Nat /\ MaxId \in Nat
    /\ DeleteBatch \in Nat \ {0} /\ RestoreBatch \in Nat \ {0}
    /\ IdsReused \in BOOLEAN

Time   == 0 .. MaxTime
Sample == Server \X Time
Id     == 1 .. MaxId
Row    == [id : Id, sample : Sample]

VARIABLES
    now,
    expires,   \* retention_days is positive; 0 keeps rows for ever
    servers,
    rows,      \* server_metrics
    lastId,    \* the greatest id ever given
    file,      \* published archives
    part,      \* .part files
    tried,     \* last_retention_day, in memory
    pc,        \* where the scheduler thread is
    job,       \* what it has read: cutoff, boundary, count, samples, name, batch
    rpc,       \* where the restore is
    restore    \* what it has read and still has to write

vars    == <<now, expires, servers, rows, lastId, file, part, tried, pc, job, rpc, restore>>
table   == <<servers, rows, lastId>>
clock   == <<now, expires>>
archive == <<file, part>>
thread  == <<tried, pc, job>>
tool    == <<rpc, restore>>

Content == [samples : SUBSET Sample, servers : SUBSET Server]

ASSUME ContentAssumption == None \notin Content

NoJob == [cutoff |-> 0, boundary |-> 0, count |-> 0,
          content |-> [samples |-> {}, servers |-> {}], name |-> None, batch |-> {}]

NoRestore == [lines |-> {}, missing |-> {}, batch |-> {}]

Steps == {"rest", "find", "count", "read", "encrypt", "link", "finish", "select", "delete"}

TypeOK ==
    /\ now \in Time
    /\ expires \in BOOLEAN
    /\ servers \in SUBSET Server
    /\ rows \in SUBSET Row
    /\ lastId \in 0 .. MaxId
    /\ file \in [File -> Content \cup {None}]
    /\ part \in SUBSET File
    /\ tried \in Time \cup {None}
    /\ pc \in Steps
    /\ job \in [cutoff : Time, boundary : 0 .. MaxId, count : Nat, content : Content,
                name : File \cup {None}, batch : SUBSET Id]
    /\ rpc \in {"rest", "servers", "metrics"}
    /\ restore \in [lines : SUBSET Sample, missing : SUBSET Server, batch : SUBSET Sample]

Init ==
    /\ now = 0 /\ expires \in BOOLEAN
    /\ servers = Server
    /\ rows = {} /\ lastId = 0
    /\ file = [f \in File |-> None] /\ part = {}
    /\ tried = None /\ pc = "rest" /\ job = NoJob
    /\ rpc = "rest" /\ restore = NoRestore

Live      == {r.sample : r \in rows}
Published == {f \in File : file[f] # None}
Kept      == UNION {file[f].samples : f \in Published}

-----------------------------------------------------------------------------
(* Other writers of the table.                                             *)

\* The id before the first one a new row can get.
TopId ==
    IF ~IdsReused THEN lastId
    ELSE CHOOSE n \in 0 .. MaxId :
            /\ \A r \in rows : r.id <= n
            /\ n = 0 \/ \E r \in rows : r.id = n

\* INSERTs of the samples K in one transaction.
Insert(K) ==
    \E id \in [K -> (TopId + 1) .. (TopId + Cardinality(K))] :
        /\ \A j, k \in K : id[j] = id[k] => j = k
        /\ \A k \in K : id[k] <= MaxId
        /\ rows' = rows \cup {[id |-> id[k], sample |-> k] : k \in K}
        /\ lastId' = IF TopId + Cardinality(K) > lastId THEN TopId + Cardinality(K)
                     ELSE lastId

Tick ==
    /\ now < MaxTime
    /\ now' = now + 1
    /\ UNCHANGED <<expires, table, archive, thread, tool>>

\* PUT /api/settings.
SetRetention ==
    /\ expires' = ~expires
    /\ UNCHANGED <<now, table, archive, thread, tool>>

\* A poll stores the sample it has just taken.
Poll(s) ==
    /\ s \in servers
    /\ <<s, now>> \notin Live
    /\ Insert({<<s, now>>})
    /\ UNCHANGED <<clock, servers, archive, thread, tool>>

\* import_from_sqlite refuses any target but MySQL, where no id is reused, and
\* fails on a server that is missing.  Its test for rows the target has
\* compares dates with SQLite's text and finds none, so the operator is taken
\* to import samples the target lacks, and not while restoring.
ImportMetric(s, t) ==
    /\ ~IdsReused /\ rpc = "rest"
    /\ s \in servers /\ t < now
    /\ <<s, t>> \notin Live
    /\ Insert({<<s, t>>})
    /\ UNCHANGED <<clock, servers, archive, thread, tool>>

\* delete_server: the server and its rows in one transaction.
DeleteServer(s) ==
    /\ s \in servers
    /\ servers' = servers \ {s}
    /\ rows' = {r \in rows : r.sample[1] # s}
    /\ UNCHANGED <<clock, lastId, archive, thread, tool>>

-----------------------------------------------------------------------------
(* The scheduler thread.                                                   *)

Goto(p) == pc' = p /\ UNCHANGED tried

Old(r) == r.sample[2] < job.cutoff
Expired == {r \in rows : Old(r)}
Bounded == {r \in rows : Old(r) /\ r.id <= job.boundary}

\* Once a day; the day is noted before anything is tried.
RetentionCleanup ==
    /\ pc = "rest" /\ tried # now
    /\ tried' = now
    /\ IF expires
       THEN pc' = "find" /\ job' = [NoJob EXCEPT !.cutoff = now]
       ELSE UNCHANGED <<pc, job>>
    /\ UNCHANGED <<clock, table, archive, tool>>

\* Mutant: without an expired row the thread goes on, with no boundary.
FindNoBoundary ==
    /\ pc = "find"
    /\ \E n \in {r.id : r \in Expired} \cup {None} :
          /\ \A q \in Expired : n # None /\ q.id <= n
          /\ job' = [job EXCEPT !.boundary = n]
    /\ Goto("count")
    /\ UNCHANGED <<clock, table, archive, tool>>

\* The greatest id of an expired row; without one there is nothing to do.
FindBoundary ==
    /\ pc = "find"
    /\ \/ Expired = {} /\ Goto("rest") /\ job' = NoJob
       \/ \E r \in Expired :
            /\ \A q \in Expired : q.id <= r.id
            /\ job' = [job EXCEPT !.boundary = r.id]
            /\ Goto("count")
    /\ UNCHANGED <<clock, table, archive, tool>>

\* A query of its own; without ARCHIVE_DIR the code returns here (ArchiveFails).
CountExpired ==
    /\ pc = "count"
    /\ job' = [job EXCEPT !.count = Cardinality(Bounded)]
    /\ Goto("read")
    /\ UNCHANGED <<clock, table, archive, tool>>

\* The rows are read again, then the servers; a change of the count is an
\* error.
Serialize ==
    /\ pc = "read"
    /\ Cardinality(Bounded) = job.count
    /\ job' = [job EXCEPT !.content = [samples |-> {r.sample : r \in Bounded},
                                       servers |-> servers]]
    /\ Goto("encrypt")
    /\ UNCHANGED <<clock, table, archive, tool>>

\* encrypt_fileobj: the .part file must not exist.
Encrypt(f) ==
    /\ pc = "encrypt" /\ f \notin part
    /\ part' = part \cup {f}
    /\ job' = [job EXCEPT !.name = f]
    /\ Goto("link")
    /\ UNCHANGED <<clock, table, file, tool>>

\* Mutant: os.replace, which takes the place of an archive of that second.
PublishReplacing ==
    /\ pc = "link"
    /\ file' = [file EXCEPT ![job.name] = job.content]
    /\ part' = part \ {job.name}
    /\ Goto("finish")
    /\ UNCHANGED <<clock, table, job, tool>>

\* os.link does not overwrite; then the .part name goes.
Publish ==
    /\ pc = "link"
    /\ file[job.name] = None
    /\ file' = [file EXCEPT ![job.name] = job.content]
    /\ part' = part \ {job.name}
    /\ Goto("finish")
    /\ UNCHANGED <<clock, table, job, tool>>

\* The directory is synced and the boundary returned.
Finish ==
    /\ pc = "finish"
    /\ Goto("select")
    /\ UNCHANGED <<clock, table, archive, job, tool>>

\* Any exception on the way: nothing is deleted, .part files are removed.
\* After the link the archive stays published.
ArchiveFails ==
    /\ pc \in {"count", "read", "encrypt", "link", "finish"}
    /\ part' = part \ {job.name}
    /\ job' = NoJob
    /\ Goto("rest")
    /\ UNCHANGED <<clock, table, file, tool>>

\* Mutant: the boundary is left out of the deletes.
SelectUnbounded ==
    /\ pc = "select"
    /\ \/ Expired = {} /\ Goto("rest") /\ job' = NoJob
       \/ \E R \in SUBSET Expired :
            /\ Cardinality(R) = IF Cardinality(Expired) < DeleteBatch
                                THEN Cardinality(Expired) ELSE DeleteBatch
            /\ R # {}
            /\ job' = [job EXCEPT !.batch = {r.id : r \in R}]
            /\ Goto("delete")
    /\ UNCHANGED <<clock, table, archive, tool>>

\* The ids of the next rows to delete; none ends the cleanup.
SelectBatch ==
    /\ pc = "select"
    /\ \/ Bounded = {} /\ Goto("rest") /\ job' = NoJob
       \/ \E R \in SUBSET Bounded :
            /\ Cardinality(R) = IF Cardinality(Bounded) < DeleteBatch
                                THEN Cardinality(Bounded) ELSE DeleteBatch
            /\ R # {}
            /\ job' = [job EXCEPT !.batch = {r.id : r \in R}]
            /\ Goto("delete")
    /\ UNCHANGED <<clock, table, archive, tool>>

\* DELETE ... WHERE id IN (...) commits.
DeleteRows ==
    /\ pc = "delete"
    /\ rows' = {r \in rows : r.id \notin job.batch}
    /\ job' = [job EXCEPT !.batch = {}]
    /\ Goto("select")
    /\ UNCHANGED <<clock, servers, lastId, archive, tool>>

\* A database error outside the archive: rolled back, and tomorrow again.
CleanupFails ==
    /\ pc \in {"find", "select", "delete"}
    /\ job' = NoJob
    /\ Goto("rest")
    /\ UNCHANGED <<clock, table, archive, tool>>

\* The process dies and is started again: files stay, memory does not.
Crash ==
    /\ pc # "rest" \/ tried # None
    /\ tried' = None /\ pc' = "rest" /\ job' = NoJob
    /\ UNCHANGED <<clock, table, archive, tool>>

-----------------------------------------------------------------------------
(* scripts/restore_archive.py, started by hand, one at a time.             *)

\* decrypt_fileobj and _safe_members pass or nothing happens.  Servers are
\* created only on request (--create-disabled-servers).
StartRestore(f, create) ==
    /\ rpc = "rest" /\ f \in Published
    /\ rpc' = "servers"
    /\ restore' = [lines |-> file[f].samples,
                   missing |-> IF create THEN file[f].servers ELSE {}, batch |-> {}]
    /\ UNCHANGED <<clock, table, archive, thread>>

\* One commit per server; a server that exists is left as it is.
RestoreServer(s) ==
    /\ rpc = "servers" /\ s \in restore.missing
    /\ servers' = servers \cup {s}
    /\ restore' = [restore EXCEPT !.missing = @ \ {s}]
    /\ UNCHANGED <<clock, rows, lastId, archive, thread, rpc>>

ServersDone ==
    /\ rpc = "servers" /\ restore.missing = {}
    /\ rpc' = "metrics"
    /\ UNCHANGED <<clock, table, archive, thread, restore>>

\* Mutant: lines are not looked up before they are inserted.
RestoreLineBlind(k) ==
    /\ rpc = "metrics" /\ k \in restore.lines
    /\ Cardinality(restore.batch) < RestoreBatch
    /\ restore' = [restore EXCEPT
          !.lines = @ \ {k},
          !.batch = IF k[1] \notin servers THEN @ ELSE @ \cup {k}]
    /\ UNCHANGED <<clock, table, archive, thread, rpc>>

\* A line without a server and a line the table holds are skipped.
RestoreLine(k) ==
    /\ rpc = "metrics" /\ k \in restore.lines
    /\ Cardinality(restore.batch) < RestoreBatch
    /\ restore' = [restore EXCEPT
          !.lines = @ \ {k},
          !.batch = IF k[1] \notin servers \/ k \in Live THEN @ ELSE @ \cup {k}]
    /\ UNCHANGED <<clock, table, archive, thread, rpc>>

\* A full batch, or the last one, commits; the foreign key holds.
RestoreCommit ==
    /\ rpc = "metrics" /\ restore.batch # {}
    /\ Cardinality(restore.batch) = RestoreBatch \/ restore.lines = {}
    /\ \A k \in restore.batch : k[1] \in servers
    /\ Insert(restore.batch)
    /\ restore' = [restore EXCEPT !.batch = {}]
    /\ UNCHANGED <<clock, servers, archive, thread, rpc>>

\* The program ends, is killed, or fails on a server deleted meanwhile.
RestoreEnds ==
    /\ rpc # "rest"
    /\ rpc' = "rest" /\ restore' = NoRestore
    /\ UNCHANGED <<clock, table, archive, thread>>

-----------------------------------------------------------------------------
Writers ==
    \/ Tick
    \/ SetRetention
    \/ \E s \in Server : Poll(s) \/ DeleteServer(s)
    \/ \E s \in Server, t \in Time : ImportMetric(s, t)

Archive ==
    \/ FindBoundary \/ CountExpired \/ Serialize
    \/ \E f \in File : Encrypt(f)
    \/ Publish \/ Finish

Delete == SelectBatch \/ DeleteRows

Restore ==
    \/ \E f \in File, create \in BOOLEAN : StartRestore(f, create)
    \/ \E s \in Server : RestoreServer(s)
    \/ ServersDone
    \/ \E k \in Sample : RestoreLine(k)
    \/ RestoreCommit \/ RestoreEnds

Next ==
    \/ Writers
    \/ RetentionCleanup \/ Archive \/ Delete
    \/ ArchiveFails \/ CleanupFails \/ Crash
    \/ Restore

Spec == Init /\ [][Next]_vars

-----------------------------------------------------------------------------
\* Each sample is in the table at most once, however often an archive is
\* restored, broken off and restored again, and although a restore does not
\* see the rows of its own batch: the docstring's "idempotent".
RestoredOnce == \A q, r \in rows : q.sample = r.sample => q = r

Keeper == INSTANCE RowKeeper WITH live <- Live, kept <- Kept

\* A sample leaves the table only when a published archive holds it or its
\* server is deleted, and archives are never overwritten: "a failed archive
\* blocks the delete", with crashes, late inserts and restores in between.
ImplementsRowKeeper == Keeper!Spec
=============================================================================
