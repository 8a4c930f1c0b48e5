-------------------------- MODULE RetentionProofs --------------------------
(***************************************************************************)
(* Proofs about Retention for every set of servers and archives and every  *)
(* batch size, where the database gives no id twice.  The argument: rows   *)
(* that appear after the boundary was found have greater ids, so the rows  *)
(* the thread will delete only become fewer (Covered), and they were all   *)
(* among those it read for the archive.                                    *)
(***************************************************************************)
EXTENDS Retention, FiniteSetTheorems, FunctionTheorems, TLAPS

\* Ids are given in order and once.
Ids ==
    /\ \A r \in rows : r.id <= lastId
    /\ \A q, r \in rows : q.id = r.id => q = r

\* What the thread may delete is in the content it publishes, later among the
\* published samples.
Covered ==
    /\ pc \notin {"rest", "find"} => job.boundary <= lastId
    /\ pc \in {"encrypt", "link"} => {r.sample : r \in Bounded} \subseteq job.content.samples
    /\ pc = "link" => job.name \in File
    /\ pc \in {"finish", "select", "delete"} => {r.sample : r \in Bounded} \subseteq Kept
    /\ pc = "delete" => \A n \in job.batch : n <= lastId
    /\ pc = "delete" => {r.sample : r \in {q \in rows : q.id \in job.batch}} \subseteq Kept

\* Only samples of earlier periods are read for an archive and restored.
Past ==
    /\ job.cutoff <= now
    /\ \A k \in job.content.samples : k[2] < now
    /\ \A k \in Kept : k[2] < now
    /\ \A k \in restore.lines \cup restore.batch : k[2] < now

\* What a restore is about to insert is not in the table.
Absent ==
    /\ restore.batch \cap Live = {}
    /\ rpc = "rest" => restore.batch = {}

Finite == IsFiniteSet(rows) /\ IsFiniteSet(restore.batch)

Inv == TypeOK /\ Ids /\ Covered /\ Past /\ Absent /\ Finite /\ RestoredOnce

-----------------------------------------------------------------------------
(* Rows that are inserted.                                                 *)

LEMMA Inserted ==
    ASSUME ~IdsReused, TypeOK, Ids, IsFiniteSet(rows),
           NEW K \in SUBSET Sample, IsFiniteSet(K), K # {}, Insert(K)
    PROVE  /\ rows \subseteq rows' /\ rows' \in SUBSET Row /\ IsFiniteSet(rows')
           /\ lastId' \in 0 .. MaxId /\ lastId <= lastId'
           /\ \A r \in rows' \ rows : r.sample \in K /\ r.id > lastId /\ r.id <= lastId'
           /\ \A k \in K : \E r \in rows' : r.sample = k
           /\ \A q, r \in rows' \ rows : q.id = r.id \/ q.sample = r.sample => q = r
<1> DEFINE n == Cardinality(K)
<1>1. n \in Nat /\ lastId \in Nat /\ MaxId \in Nat
  BY FS_CardinalityType, BoundsAssumption DEF TypeOK
<1>2. PICK id \in [K -> (lastId + 1) .. (lastId + n)] :
         /\ \A j, k \in K : id[j] = id[k] => j = k
         /\ \A k \in K : id[k] <= MaxId
         /\ rows' = rows \cup {[id |-> id[k], sample |-> k] : k \in K}
         /\ lastId' = IF lastId + n > lastId THEN lastId + n ELSE lastId
  BY DEF Insert, TopId
<1> DEFINE new == {[id |-> id[k], sample |-> k] : k \in K}
<1>3. new \in SUBSET Row
  BY <1>1, <1>2 DEF Row, Id
<1>4. IsFiniteSet(rows')
  <2> DEFINE f == [k \in K |-> [id |-> id[k], sample |-> k]]
  <2>1. f \in [K -> new] /\ \A r \in new : \E k \in K : f[k] = r
    OBVIOUS
  <2>2. f \in Surjection(K, new)
    <3> HIDE DEF new, f
    <3> QED
      BY <2>1, Fun_IsSurj
  <2>3. IsFiniteSet(new)
    BY <2>2, FS_Surjection
  <2> QED
    BY <1>2, <2>3, FS_Union
<1>5. lastId' \in 0 .. MaxId
  <2>1. CASE lastId + n <= MaxId
    BY <1>1, <1>2, <2>1
  <2>2. CASE lastId + n > MaxId
    <3> DEFINE T == (lastId + 1) .. MaxId
    <3>1. id \in [K -> T]
      BY <1>1, <1>2 
    <3>2. lastId <= MaxId
      BY DEF TypeOK
    <3>3. IsFiniteSet(T) /\ Cardinality(T) = MaxId - lastId
      <4>1. lastId + 1 \in Int /\ MaxId \in Int
        BY <1>1
      <4>2. IsFiniteSet(T) /\ Cardinality(T) = IF lastId + 1 > MaxId THEN 0
                                               ELSE MaxId - (lastId + 1) + 1
        BY <4>1, FS_Interval
      <4> HIDE DEF T
      <4> QED
        BY <1>1, <3>2, <4>2
    <3>4. PICK j, k \in K : j # k /\ id[j] = id[k]
      <4>1. Cardinality(T) < Cardinality(K)
        BY <1>1, <2>2, <3>2, <3>3
      <4> HIDE DEF T
      <4> QED
        BY <3>1, <3>3, <4>1, FS_PigeonHole
    <3> QED
      BY <1>2, <3>4
  <2> QED
    BY <1>1, <2>1, <2>2
<1>6. \A r \in new : r.sample \in K /\ r.id > lastId /\ r.id <= lastId + n
  BY <1>1, <1>2
<1>7. \A q, r \in new : q.id = r.id \/ q.sample = r.sample => q = r
  BY <1>2
<1>8. rows' \ rows \subseteq new /\ rows' = rows \cup new
  BY <1>2
<1>9. ASSUME NEW k \in K PROVE \E r \in new : r.sample = k
  <2>1. [id |-> id[k], sample |-> k] \in new
    OBVIOUS
  <2>2. [id |-> id[k], sample |-> k].sample = k
    OBVIOUS
  <2> HIDE DEF new
  <2> QED
    BY <2>1, <2>2
<1>10. lastId <= lastId' /\ lastId + n <= lastId'
  BY <1>1, <1>2
<1>11. rows' \in SUBSET Row
  BY <1>3, <1>8 DEF TypeOK
<1>12. \A r \in new : r.id <= lastId'
  <2>1. lastId' = lastId + n
    BY <1>1, <1>2, <1>10
  <2> QED
    BY <1>6, <2>1
<1> HIDE DEF new
<1> QED
  BY <1>4, <1>5, <1>6, <1>7, <1>8, <1>9, <1>10, <1>11, <1>12

-----------------------------------------------------------------------------
(* Types.                                                                  *)

\* What is inserted.
LEMMA PollSample ==
    ASSUME TypeOK, NEW s \in servers, NEW t \in Time
    PROVE  {<<s, t>>} \in SUBSET Sample /\ IsFiniteSet({<<s, t>>}) /\ {<<s, t>>} # {}
<1>1. <<s, t>> \in Sample
  BY DEF TypeOK, Sample
<1> QED
  BY <1>1, FS_Singleton

LEMMA CountType ==
    ASSUME Finite
    PROVE  Cardinality(Bounded) \in Nat /\ IsFiniteSet(Bounded)
<1>1. Bounded \in SUBSET rows
  BY DEF Bounded
<1> QED
  BY <1>1, FS_Subset, FS_CardinalityType DEF Finite

LEMMA TypeNext == ~IdsReused /\ TypeOK /\ Ids /\ Covered /\ Finite /\ [Next]_vars => TypeOK'
<1> SUFFICES ASSUME ~IdsReused, TypeOK, Ids, Covered, Finite, [Next]_vars PROVE TypeOK'
  OBVIOUS
<1> USE BoundsAssumption DEF clock, table, archive, thread, tool, Goto, NoJob, NoRestore
<1>1. CASE UNCHANGED vars
  BY <1>1 DEF vars, TypeOK
<1>2. CASE Tick \/ SetRetention
  <2>1. Tick => now' \in Time
    BY DEF Tick, TypeOK, Time
  <2> QED
    BY <1>2, <2>1 DEF Tick, SetRetention, TypeOK
<1>3. ASSUME NEW s \in Server, Poll(s) PROVE TypeOK'
  <2>1. s \in servers /\ now \in Time
    BY <1>3 DEF Poll, TypeOK
  <2>2. rows' \in SUBSET Row /\ lastId' \in 0 .. MaxId
    BY <1>3, <2>1, PollSample, Inserted DEF Poll, Finite
  <2> QED
    BY <1>3, <2>2 DEF Poll, TypeOK
<1>4. ASSUME NEW s \in Server, NEW t \in Time, ImportMetric(s, t) PROVE TypeOK'
  <2>1. s \in servers
    BY <1>4 DEF ImportMetric
  <2>2. rows' \in SUBSET Row /\ lastId' \in 0 .. MaxId
    BY <1>4, <2>1, PollSample, Inserted DEF ImportMetric, Finite
  <2> QED
    BY <1>4, <2>2 DEF ImportMetric, TypeOK
<1>5. ASSUME NEW s \in Server, DeleteServer(s) PROVE TypeOK'
  BY <1>5 DEF DeleteServer, TypeOK
<1>6. CASE RetentionCleanup \/ FindBoundary
  <2>1. \A r \in rows : r.id \in 0 .. MaxId
    BY DEF TypeOK, Row, Id
  <2> QED
    BY <1>6, <2>1
    DEF RetentionCleanup, FindBoundary, TypeOK, Steps, Time, Content, Expired
<1>7. CASE CountExpired
  BY <1>7, CountType DEF CountExpired, TypeOK, Steps
<1>8. CASE Serialize
  <2>1. {r.sample : r \in Bounded} \in SUBSET Sample
    BY DEF Bounded, TypeOK, Row
  <2>2. [samples |-> {r.sample : r \in Bounded}, servers |-> servers] \in Content
    BY <2>1 DEF Content, TypeOK
  <2> QED
    BY <1>8, <2>2 DEF Serialize, TypeOK, Steps
<1>9. ASSUME NEW f \in File, Encrypt(f) PROVE TypeOK'
  BY <1>9 DEF Encrypt, TypeOK, Steps
<1>10. CASE Publish \/ Finish
  BY <1>10 DEF Publish, Finish, TypeOK, Steps
<1>11. CASE SelectBatch
  <2>1. \A R \in SUBSET Bounded : {r.id : r \in R} \in SUBSET Id
    BY DEF Bounded, TypeOK, Row
  <2> QED
    BY <1>11, <2>1 DEF SelectBatch, TypeOK, Steps, Content, Time
<1>12. CASE DeleteRows
  BY <1>12 DEF DeleteRows, TypeOK, Steps
<1>13. CASE ArchiveFails \/ CleanupFails \/ Crash
  BY <1>13 DEF ArchiveFails, CleanupFails, Crash, TypeOK, Steps, Content, Time
<1>14. ASSUME NEW f \in File, NEW create \in BOOLEAN, StartRestore(f, create) PROVE TypeOK'
  <2>1. file[f] \in Content
    BY <1>14 DEF StartRestore, Published, TypeOK
  <2> QED
    BY <1>14, <2>1 DEF StartRestore, TypeOK, Content
<1>15. ASSUME NEW s \in Server, RestoreServer(s) PROVE TypeOK'
  BY <1>15 DEF RestoreServer, TypeOK
<1>16. CASE ServersDone \/ RestoreEnds
  BY <1>16 DEF ServersDone, RestoreEnds, TypeOK
<1>17. ASSUME NEW k \in Sample, RestoreLine(k) PROVE TypeOK'
  BY <1>17 DEF RestoreLine, TypeOK
<1>18. CASE RestoreCommit
  <2>1. restore.batch \in SUBSET Sample
    BY DEF TypeOK
  <2>2. rows' \in SUBSET Row /\ lastId' \in 0 .. MaxId
    BY <1>18, <2>1, Inserted DEF RestoreCommit, Finite
  <2> QED
    BY <1>18, <2>2 DEF RestoreCommit, TypeOK
<1> QED
  BY <1>1, <1>2, <1>3, <1>4, <1>5, <1>6, <1>7, <1>8, <1>9, <1>10, <1>11, <1>12,
     <1>13, <1>14, <1>15, <1>16, <1>17, <1>18
  DEF Next, Writers, Archive, Delete, Restore

-----------------------------------------------------------------------------
(* The parts of the invariant that speak of rows.                          *)

RowInv == Ids /\ Covered /\ RestoredOnce /\ IsFiniteSet(rows)

\* An insert of samples the table lacks, whatever the thread is doing: the new
\* rows lie beyond its boundary and are not in its batch.
LEMMA InsertInv ==
    ASSUME ~IdsReused, Inv, NEW K \in SUBSET Sample, IsFiniteSet(K), K # {}, Insert(K),
           K \cap Live = {}, UNCHANGED <<file, pc, job>>
    PROVE  RowInv' /\ Live' = Live \cup K
<1>1. /\ rows \subseteq rows' /\ rows' \in SUBSET Row /\ IsFiniteSet(rows')
      /\ lastId' \in 0 .. MaxId /\ lastId <= lastId'
      /\ \A r \in rows' \ rows : r.sample \in K /\ r.id > lastId /\ r.id <= lastId'
      /\ \A k \in K : \E r \in rows' : r.sample = k
      /\ \A q, r \in rows' \ rows : q.id = r.id \/ q.sample = r.sample => q = r
  BY Inserted DEF Inv, Finite
<1>2. /\ lastId \in Nat /\ job.boundary \in Nat /\ MaxId \in Nat
      /\ rows \in SUBSET Row /\ \A r \in rows' : r.id \in Nat
  BY <1>1, BoundsAssumption DEF Inv, TypeOK, Row, Id
<1>3. Live' = Live \cup K
  BY <1>1 DEF Live
<1>4. Ids'
  BY <1>1, <1>2 DEF Inv, Ids
<1>5. RestoredOnce'
  BY <1>1 DEF Inv, RestoredOnce, Live
<1>6. Covered'
  <2>1. Kept' = Kept /\ pc' = pc /\ job' = job
    BY DEF Kept, Published
  <2>2. pc \notin {"rest", "find"} => Bounded' = Bounded
    BY <1>1, <1>2, <2>1 DEF Bounded, Old, Inv, Covered
  <2>3. CASE pc # "delete"
    BY <1>1, <1>2, <2>1, <2>2, <2>3 DEF Inv, Covered
  <2>4. CASE pc = "delete"
    <3>1. \A r \in rows' : r.id \in job.batch => r \in rows
      BY <1>1, <1>2, <2>4 DEF Inv, Covered, TypeOK, Id
    <3>2. {q \in rows' : q.id \in job.batch} = {q \in rows : q.id \in job.batch}
      BY <1>1, <3>1
    <3>3. \A m \in job.batch : m <= lastId'
      BY <1>1, <1>2, <2>4 DEF Inv, Covered, TypeOK, Id
    <3>4. job.boundary <= lastId'
      BY <1>1, <1>2, <2>4 DEF Inv, Covered
    <3> QED
      BY <2>1, <2>2, <2>4, <3>2, <3>3, <3>4 DEF Inv, Covered
  <2> QED
    BY <2>3, <2>4
<1> QED
  BY <1>1, <1>3, <1>4, <1>5, <1>6 DEF RowInv

\* A step that inserts nothing and leaves the thread where it is.
LEMMA FewerInv ==
    ASSUME Inv, rows' \subseteq rows, UNCHANGED <<lastId, file, pc, job>>
    PROVE  RowInv'
<1>1. Kept' = Kept
  BY DEF Kept, Published
<1>2. Bounded' \subseteq Bounded
  BY DEF Bounded, Old
<1>3. IsFiniteSet(rows')
  BY FS_Subset DEF Inv, Finite
<1> QED
  BY <1>1, <1>2, <1>3 DEF RowInv, Inv, Ids, Covered, RestoredOnce

LEMMA ThreadInv ==
    ASSUME Inv, RetentionCleanup \/ Archive \/ Delete \/ ArchiveFails \/ CleanupFails \/ Crash
    PROVE  RowInv'
<1> USE DEF clock, table, archive, thread, tool, Goto
<1>1. rows' \subseteq rows /\ UNCHANGED lastId
  BY DEF RetentionCleanup, Archive, FindBoundary, CountExpired, Serialize, Encrypt,
         Publish, Finish, Delete, SelectBatch, DeleteRows, ArchiveFails, CleanupFails, Crash
<1>2. Ids' /\ RestoredOnce' /\ IsFiniteSet(rows')
  BY <1>1, FS_Subset DEF Inv, Ids, RestoredOnce, Finite
<1>3. CASE RetentionCleanup \/ ArchiveFails \/ CleanupFails \/ Crash
  <2>1. pc' \in {"rest", "find"} \/ UNCHANGED <<rows, lastId, file, pc, job>>
    BY <1>3 DEF RetentionCleanup, ArchiveFails, CleanupFails, Crash
  <2>2. CASE pc' \in {"rest", "find"}
    BY <1>2, <2>2 DEF RowInv, Covered
  <2> QED
    BY <2>1, <2>2, FewerInv
<1>4. CASE FindBoundary
  <2>1. pc' = "rest" \/ (pc' = "count" /\ job'.boundary <= lastId)
    BY <1>4 DEF FindBoundary, Inv, TypeOK, Ids, Expired
  <2> QED
    BY <1>1, <1>2, <2>1 DEF RowInv, Covered
<1>5. CASE CountExpired
  BY <1>1, <1>2, <1>5 DEF CountExpired, RowInv, Inv, TypeOK, Covered
<1>6. CASE Serialize
  <2>1. Bounded' = Bounded /\ job'.content.samples = {r.sample : r \in Bounded}
    BY <1>6 DEF Serialize, Bounded, Old, Inv, TypeOK
  <2> QED
    BY <1>1, <1>2, <1>6, <2>1 DEF Serialize, RowInv, Inv, TypeOK, Covered
<1>7. ASSUME NEW f \in File, Encrypt(f) PROVE RowInv'
  <2>1. Bounded' = Bounded
    BY <1>7 DEF Encrypt, Bounded, Old, Inv, TypeOK
  <2> QED
    BY <1>1, <1>2, <1>7, <2>1 DEF Encrypt, RowInv, Inv, TypeOK, Covered
<1>8. CASE Publish
  <2>1. Bounded' = Bounded
    BY <1>8 DEF Publish, Bounded, Old
  <2>2. job.name \in File /\ file'[job.name] = job.content /\ job.content \in Content
    BY <1>8 DEF Publish, Inv, Covered, TypeOK
  <2>3. job.content.samples \subseteq Kept'
    BY <2>2, ContentAssumption DEF Kept, Published
  <2> QED
    BY <1>1, <1>2, <1>8, <2>1, <2>3 DEF Publish, RowInv, Inv, Covered
<1>9. CASE Finish
  <2>1. Bounded' = Bounded /\ Kept' = Kept
    BY <1>9 DEF Finish, Bounded, Old, Kept, Published
  <2> QED
    BY <1>1, <1>2, <1>9, <2>1 DEF Finish, RowInv, Inv, Covered
<1>10. CASE SelectBatch
  <2>1. CASE pc' = "rest"
    BY <1>2, <2>1 DEF RowInv, Covered
  <2>2. CASE pc' # "rest"
    <3>1. PICK R \in SUBSET Bounded :
             pc' = "delete" /\ job' = [job EXCEPT !.batch = {r.id : r \in R}]
      BY <1>10, <2>2 DEF SelectBatch
    <3>2. Kept' = Kept /\ rows' = rows /\ job'.boundary = job.boundary
          /\ job'.cutoff = job.cutoff /\ job'.batch = {r.id : r \in R}
      BY <1>10, <3>1 DEF SelectBatch, Kept, Published, Inv, TypeOK
    <3>3. Bounded' = Bounded
      BY <3>2 DEF Bounded, Old
    <3>4. \A r \in rows : r.id \in job'.batch => r \in R
      BY <3>2 DEF Inv, Ids, Bounded
    <3>5. \A n \in job'.batch : n <= lastId
      BY <3>2 DEF Inv, Ids, Bounded
    <3>6. pc = "select"
      BY <1>10 DEF SelectBatch
    <3>7. {r.sample : r \in Bounded} \subseteq Kept /\ job.boundary <= lastId
      BY <3>6 DEF Inv, Covered
    <3>8. {r.sample : r \in {q \in rows : q.id \in job'.batch}} \subseteq Kept
      BY <3>1, <3>4, <3>7
    <3> QED
      BY <1>1, <1>2, <3>1, <3>2, <3>3, <3>5, <3>7, <3>8 DEF RowInv, Covered
  <2> QED
    BY <2>1, <2>2
<1>11. CASE DeleteRows
  <2>1. Bounded' \subseteq Bounded /\ Kept' = Kept
    BY <1>11 DEF DeleteRows, Bounded, Old, Kept, Published, Inv, TypeOK
  <2> QED
    BY <1>1, <1>2, <1>11, <2>1 DEF DeleteRows, RowInv, Inv, Covered, TypeOK
<1> QED
  BY <1>3, <1>4, <1>5, <1>6, <1>7, <1>8, <1>9, <1>10, <1>11 DEF Archive, Delete

\* A sample that a step inserts is missing from the table before.
LEMMA Inserts ==
    ASSUME ~IdsReused, Inv,
           \/ \E s \in Server : Poll(s) \/ \E t \in Time : ImportMetric(s, t)
           \/ RestoreCommit
    PROVE  \E K \in SUBSET Sample :
              /\ IsFiniteSet(K) /\ K # {} /\ Insert(K) /\ K \cap Live = {}
              /\ restore'.batch \cap (Live \cup K) = {}
              /\ rpc = "rest" => restore'.batch = {}
              /\ IsFiniteSet(restore'.batch)
<1>1. restore.batch \in SUBSET Sample /\ now \in Time
  BY DEF Inv, TypeOK
<1>2. ASSUME NEW s \in Server, Poll(s)
      PROVE  /\ s \in servers /\ Insert({<<s, now>>})
             /\ {<<s, now>>} \cap (Live \cup restore.batch) = {}
  BY <1>1, <1>2 DEF Poll, Inv, Past, Time
<1>3. ASSUME NEW s \in Server, NEW t \in Time, ImportMetric(s, t)
      PROVE  /\ s \in servers /\ Insert({<<s, t>>})
             /\ {<<s, t>>} \cap (Live \cup restore.batch) = {}
  BY <1>3 DEF ImportMetric, Inv, Absent
<1>4. CASE \E s \in Server : Poll(s)
  <2>1. PICK s \in Server : Poll(s)
    BY <1>4
  <2>2. restore' = restore
    BY <2>1 DEF Poll, tool
  <2> QED
    BY <1>1, <1>2, <2>1, <2>2, PollSample DEF Inv, Absent, Finite
<1>5. CASE \E s \in Server, t \in Time : ImportMetric(s, t)
  <2>1. PICK s \in Server, t \in Time : ImportMetric(s, t)
    BY <1>5
  <2>2. restore' = restore
    BY <2>1 DEF ImportMetric, tool
  <2> QED
    BY <1>3, <2>1, <2>2, PollSample, ZenonT(60) DEF Inv, Absent, Finite
<1>6. CASE RestoreCommit
  <2>1. restore'.batch = {}
    BY <1>6 DEF RestoreCommit, Inv, TypeOK
  <2> QED
    BY <1>1, <1>6, <2>1, FS_EmptySet DEF RestoreCommit, Inv, Absent, Finite
<1> QED
  BY <1>4, <1>5, <1>6

\* Steps that neither insert nor belong to the thread.
Aside ==
    \/ Tick \/ SetRetention \/ ServersDone \/ RestoreEnds
    \/ \E s \in Server : DeleteServer(s) \/ RestoreServer(s)
    \/ \E f \in File, create \in BOOLEAN : StartRestore(f, create)
    \/ \E k \in Sample : RestoreLine(k)

LEMMA RowNext == ~IdsReused /\ Inv /\ [Next]_vars => RowInv'
<1> SUFFICES ASSUME ~IdsReused, Inv, [Next]_vars PROVE RowInv'
  OBVIOUS
<1>1. CASE UNCHANGED vars \/ Aside
  <2>1. rows' \subseteq rows /\ UNCHANGED <<lastId, file, pc, job>>
    BY <1>1 DEF vars, Aside, Tick, SetRetention, ServersDone, RestoreEnds, DeleteServer,
       RestoreServer, StartRestore, RestoreLine, clock, table, archive, thread
  <2> QED
    BY <2>1, FewerInv
<1>2. CASE \/ \E s \in Server : Poll(s) \/ \E t \in Time : ImportMetric(s, t)
           \/ RestoreCommit
  <2>1. UNCHANGED <<file, pc, job>>
    BY <1>2 DEF Poll, ImportMetric, RestoreCommit, archive, thread
  <2> QED
    BY <1>2, <2>1, Inserts, InsertInv
<1> QED
  BY <1>1, <1>2, ThreadInv DEF Next, Writers, Restore, Aside

\* Who writes what.
LEMMA Writes ==
    ASSUME [Next]_vars
    PROVE  /\ UNCHANGED now \/ Tick
           /\ UNCHANGED file \/ Publish
           /\ \/ UNCHANGED job \/ Serialize
              \/ job' = NoJob \/ job' = [NoJob EXCEPT !.cutoff = now]
              \/ \E n : \/ job' = [job EXCEPT !.boundary = n]
                        \/ job' = [job EXCEPT !.count = n]
                        \/ job' = [job EXCEPT !.name = n]
                        \/ job' = [job EXCEPT !.batch = n]
           /\ \/ UNCHANGED restore \/ restore' = NoRestore
              \/ \E f \in File, create \in BOOLEAN : StartRestore(f, create)
              \/ \E k \in Sample : RestoreLine(k)
              \/ \E s : restore' = [restore EXCEPT !.missing = s]
              \/ restore' = [restore EXCEPT !.batch = {}]
<1> USE DEF clock, table, archive, thread, tool, Goto
<1>1. CASE UNCHANGED vars
  BY <1>1 DEF vars
<1>2. CASE Writers
  BY <1>2 DEF Writers, SetRetention, Tick, Poll, DeleteServer, ImportMetric
<1>3. CASE RetentionCleanup \/ FindBoundary \/ CountExpired \/ Serialize
  BY <1>3 DEF RetentionCleanup, FindBoundary, CountExpired, Serialize
<1>4. CASE (\E f \in File : Encrypt(f)) \/ Publish \/ Finish
  BY <1>4 DEF Encrypt, Publish, Finish
<1>5. CASE Delete \/ ArchiveFails \/ CleanupFails \/ Crash
  BY <1>5 DEF Delete, SelectBatch, DeleteRows, ArchiveFails, CleanupFails, Crash
<1>6. CASE Restore
  BY <1>6
  DEF Restore, StartRestore, RestoreServer, ServersDone, RestoreLine, RestoreCommit,
      RestoreEnds
<1> QED
  BY <1>1, <1>2, <1>3, <1>4, <1>5, <1>6 DEF Next, Archive

LEMMA PastNext == Inv /\ [Next]_vars => Past'
<1> SUFFICES ASSUME Inv, [Next]_vars PROVE Past'
  OBVIOUS
<1>1. /\ now \in Nat /\ job.cutoff \in Nat /\ job.cutoff <= now
      /\ Kept \subseteq Sample /\ job.content.samples \subseteq Sample
      /\ restore.lines \cup restore.batch \subseteq Sample
      /\ \A k \in Sample : k[2] \in Nat
  BY DEF Inv, Past, TypeOK, Kept, Published, Content, Sample, Time
<1>2. now' \in Nat /\ now <= now'
  BY <1>1, Writes DEF Tick
<1>3. job'.cutoff <= now' /\ \A k \in job'.content.samples : k[2] < now'
  <2>1. CASE UNCHANGED job
    BY <1>1, <1>2, <2>1 DEF Inv, Past
  <2>2. CASE job' = NoJob \/ job' = [NoJob EXCEPT !.cutoff = now]
    BY <1>1, <1>2, <2>2 DEF NoJob
  <2>3. CASE /\ job'.cutoff = job.cutoff /\ job'.content = job.content
    BY <1>1, <1>2, <2>3 DEF Inv, Past
  <2>4. CASE Serialize
    <3>1. \A r \in Bounded : r.sample[2] < job.cutoff /\ r.sample[2] \in Nat
      BY DEF Bounded, Old, Inv, TypeOK, Row, Sample, Time
    <3>2. job'.cutoff = job.cutoff /\ job'.content.samples = {r.sample : r \in Bounded}
      BY <2>4 DEF Serialize, Inv, TypeOK
    <3> QED
      BY <1>1, <1>2, <3>1, <3>2
  <2> QED
    BY <2>1, <2>2, <2>3, <2>4, Writes DEF Inv, TypeOK
<1>4. \A k \in Kept' : k[2] < now'
  <2>1. CASE UNCHANGED file
    BY <1>1, <1>2, <2>1 DEF Kept, Published, Inv, Past
  <2>2. CASE Publish
    <3>1. Kept' \subseteq Kept \cup job.content.samples
      BY <2>2 DEF Publish, Kept, Published, Inv, TypeOK
    <3> QED
      BY <1>1, <1>2, <3>1 DEF Inv, Past
  <2> QED
    BY <2>1, <2>2, Writes
<1>5. \A k \in restore'.lines \cup restore'.batch : k[2] < now'
  <2> DEFINE rest == restore.lines \cup restore.batch \cup Kept
  <2>1. ASSUME NEW f \in File, NEW create \in BOOLEAN, StartRestore(f, create)
        PROVE  restore'.lines \cup restore'.batch \subseteq rest
    BY <2>1 DEF StartRestore, Kept
  <2>2. ASSUME NEW k \in Sample, RestoreLine(k)
        PROVE  restore'.lines \cup restore'.batch \subseteq rest
    BY <2>2 DEF RestoreLine, Inv, TypeOK
  <2>3. ASSUME \/ UNCHANGED restore \/ restore' = NoRestore
               \/ \E s : restore' = [restore EXCEPT !.missing = s]
               \/ restore' = [restore EXCEPT !.batch = {}]
        PROVE  restore'.lines \cup restore'.batch \subseteq rest
    BY <2>3 DEF NoRestore, Inv, TypeOK
  <2>4. restore'.lines \cup restore'.batch \subseteq rest
    BY <2>1, <2>2, <2>3, Writes
  <2> QED
    BY <1>1, <1>2, <2>4 DEF Inv, Past
<1> QED
  BY <1>3, <1>4, <1>5 DEF Past

LEMMA AbsentNext == ~IdsReused /\ Inv /\ [Next]_vars => Absent' /\ Finite'
<1> SUFFICES ASSUME ~IdsReused, Inv, [Next]_vars PROVE Absent' /\ Finite'
  OBVIOUS
<1> USE DEF clock, table, archive, thread, tool, Goto
<1>1. IsFiniteSet(rows')
  BY RowNext DEF RowInv
<1>2. CASE \/ \E s \in Server : Poll(s) \/ \E t \in Time : ImportMetric(s, t)
           \/ RestoreCommit
  <2>1. UNCHANGED <<file, pc, job, rpc>>
    BY <1>2 DEF Poll, ImportMetric, RestoreCommit
  <2>2. PICK K \in SUBSET Sample :
              /\ IsFiniteSet(K) /\ K # {} /\ Insert(K) /\ K \cap Live = {}
              /\ restore'.batch \cap (Live \cup K) = {}
              /\ rpc = "rest" => restore'.batch = {}
              /\ IsFiniteSet(restore'.batch)
    BY <1>2, Inserts
  <2>3. Live' = Live \cup K
    BY <2>1, <2>2, InsertInv
  <2> QED
    BY <1>1, <2>1, <2>2, <2>3 DEF Absent, Finite
<1>3. ASSUME rows' \subseteq rows, UNCHANGED <<rpc, restore>> PROVE Absent' /\ Finite'
  BY <1>1, <1>3 DEF Absent, Finite, Inv, Live
<1>4. CASE RetentionCleanup \/ Archive \/ Delete \/ ArchiveFails \/ CleanupFails \/ Crash
  BY <1>3, <1>4
  DEF RetentionCleanup, Archive, FindBoundary, CountExpired, Serialize, Encrypt,
      Publish, Finish, Delete, SelectBatch, DeleteRows, ArchiveFails, CleanupFails, Crash
<1>5. CASE UNCHANGED vars \/ Tick \/ SetRetention \/ \E s \in Server : DeleteServer(s)
  BY <1>3, <1>5 DEF vars, Tick, SetRetention, DeleteServer
<1>6. CASE \/ ServersDone \/ RestoreEnds \/ \E s \in Server : RestoreServer(s)
           \/ \E f \in File, create \in BOOLEAN : StartRestore(f, create)
  <2>1. /\ rows' = rows /\ restore'.batch \in {restore.batch, {}}
        /\ rpc' = "rest" => restore'.batch = {}
    BY <1>6 DEF ServersDone, RestoreEnds, RestoreServer, StartRestore, NoRestore, Inv, TypeOK
  <2> QED
    BY <1>1, <2>1, FS_EmptySet DEF Absent, Finite, Live, Inv
<1>7. ASSUME NEW k \in Sample, RestoreLine(k) PROVE Absent' /\ Finite'
  <2>1. /\ rows' = rows /\ rpc' = "metrics"
        /\ restore'.batch \in {restore.batch, restore.batch \cup {k}}
        /\ restore'.batch # restore.batch => k \notin Live
    BY <1>7 DEF RestoreLine, Inv, TypeOK
  <2>2. Finite'
    BY <1>1, <2>1, FS_AddElement DEF Finite, Inv
  <2>3. Absent'
    BY <1>1, <2>1 DEF Absent, Live, Inv
  <2> QED
    BY <2>2, <2>3
<1> QED
  BY <1>2, <1>4, <1>5, <1>6, <1>7 DEF Next, Writers, Restore

\* The invariant of every reachable state.
LEMMA Inductive == ~IdsReused => (Spec => []Inv)
<1> SUFFICES ASSUME ~IdsReused PROVE Spec => []Inv
  OBVIOUS
<1>1. Init => Inv
  BY BoundsAssumption, FS_EmptySet
  DEF Init, Inv, TypeOK, Ids, Covered, Past, Absent, Finite, RestoredOnce, NoJob,
      NoRestore, Live, Kept, Published, Content, Steps, Time
<1>2. Inv /\ [Next]_vars => Inv'
  BY TypeNext, RowNext, PastNext, AbsentNext DEF Inv, RowInv
<1> QED
  BY <1>1, <1>2, PTL DEF Spec

\* Every variable keeps its type, the ids that are given included.
THEOREM TypeCorrect == ~IdsReused => (Spec => []TypeOK)
  BY Inductive, PTL DEF Inv

\* restore_archive.py: no sample comes twice into the table, by polls, imports
\* and any sequence of restores that end anywhere.
THEOREM NoDuplicates == ~IdsReused => (Spec => []RestoredOnce)
  BY Inductive, PTL DEF Inv

-----------------------------------------------------------------------------
(* Retention implements RowKeeper.                                         *)

\* Rows that are deleted take away samples that are kept; another row of the
\* same sample, were there one, would keep it in the table.
LEMMA DeleteDrops ==
    ASSUME Inv, DeleteRows
    PROVE  Keeper!Drop(Live \ Live')
<1>1. pc = "delete" /\ rows' = {r \in rows : r.id \notin job.batch} /\ UNCHANGED file
  BY DEF DeleteRows, archive
<1>2. Live' \subseteq Live
  BY <1>1 DEF Live
<1>3. ASSUME NEW k \in Live \ Live' PROVE k \in Kept
  <2>1. PICK r \in rows : r.sample = k
    BY DEF Live
  <2>2. r.id \in job.batch
    BY <1>1, <2>1 DEF Live
  <2> QED
    BY <1>1, <2>1, <2>2 DEF Inv, Covered
<1>4. Kept' = Kept
  BY <1>1 DEF Kept, Published
<1>5. Live' = Live \ (Live \ Live')
  BY <1>2
<1> QED
  BY <1>3, <1>4, <1>5 DEF Keeper!Drop

\* An archive that is published replaces none.
LEMMA PublishKeeps ==
    ASSUME Inv, Publish
    PROVE  Keeper!Keep(job.content.samples) /\ job.content.samples \in SUBSET Sample
<1>1. /\ job.name \in File /\ job.content \in Content /\ file[job.name] = None
      /\ file' = [file EXCEPT ![job.name] = job.content] /\ UNCHANGED rows
  BY DEF Publish, table, Inv, Covered, TypeOK
<1>2. Live' = Live
  BY <1>1 DEF Live
<1>3. Published' = Published \cup {job.name}
  BY <1>1, ContentAssumption DEF Published, Inv, TypeOK
<1>4. /\ file'[job.name] = job.content
      /\ \A f \in Published : file'[f] = file[f] /\ f \in File
  BY <1>1 DEF Published, Inv, TypeOK
<1>5. Kept' = Kept \cup job.content.samples
  BY <1>3, <1>4 DEF Kept
<1> QED
  BY <1>1, <1>2, <1>5 DEF Keeper!Keep, Content

\* A step that concerns neither rows nor archives.
LEMMA Stutters ==
    ASSUME UNCHANGED <<rows, file>>
    PROVE  UNCHANGED Keeper!vars
  BY DEF Keeper!vars, Live, Kept, Published

LEMMA DeleteForgets ==
    ASSUME Inv, NEW s \in Server, DeleteServer(s)
    PROVE  Keeper!Forget(s)
<1>1. rows' = {r \in rows : r.sample[1] # s} /\ UNCHANGED file
  BY DEF DeleteServer, archive
<1>2. Kept' = Kept
  BY <1>1 DEF Kept, Published
<1>3. Live' = {k \in Live : k[1] # s}
  BY <1>1 DEF Live
<1> QED
  BY <1>2, <1>3 DEF Keeper!Forget

\* _archive_expired_metrics and _retention_cleanup: a sample leaves the table
\* only when a published archive holds it or with its server, and no archive
\* is overwritten, whenever the process dies, and whatever polls, imports and
\* restores insert between the steps.
THEOREM KeeperImplemented == ~IdsReused => (Spec => ImplementsRowKeeper)
<1> SUFFICES ASSUME ~IdsReused PROVE Spec => ImplementsRowKeeper
  OBVIOUS
<1>1. Init => Keeper!Init
  BY DEF Init, Keeper!Init, Live, Kept, Published
<1>2. Inv /\ [Next]_vars => [Keeper!Next]_Keeper!vars
  <2> SUFFICES ASSUME Inv, [Next]_vars PROVE [Keeper!Next]_Keeper!vars
    OBVIOUS
  <2> USE DEF clock, table, archive, thread, tool, Goto
  <2>1. CASE \/ \E s \in Server : Poll(s) \/ \E t \in Time : ImportMetric(s, t)
             \/ RestoreCommit
    <3>1. UNCHANGED <<file, pc, job>>
      BY <2>1 DEF Poll, ImportMetric, RestoreCommit
    <3>2. PICK K \in SUBSET Sample :
             IsFiniteSet(K) /\ K # {} /\ Insert(K) /\ K \cap Live = {}
      BY <2>1, Inserts
    <3>3. Live' = Live \cup K /\ Kept' = Kept
      BY <3>1, <3>2, InsertInv DEF Kept, Published
    <3>4. Keeper!Store(K) /\ K \in SUBSET Keeper!Sample
      BY <3>2, <3>3 DEF Keeper!Store, Keeper!Sample, Sample
    <3> QED
      BY <3>4 DEF Keeper!Next
  <2>2. ASSUME NEW s \in Server, DeleteServer(s) PROVE Keeper!Next
    BY <2>2, DeleteForgets DEF Keeper!Next
  <2>3. CASE Publish
    BY <2>3, PublishKeeps DEF Keeper!Next, Keeper!Sample, Sample
  <2>4. CASE DeleteRows
    <3>1. Live \ Live' \in SUBSET Keeper!Sample
      BY DEF Live, Inv, TypeOK, Row, Sample, Keeper!Sample
    <3> QED
      BY <2>4, <3>1, DeleteDrops DEF Keeper!Next
  <2>5. CASE UNCHANGED vars \/ RetentionCleanup \/ ArchiveFails \/ CleanupFails \/ Crash
             \/ SelectBatch \/ Tick \/ SetRetention
    BY <2>5, Stutters
    DEF vars, RetentionCleanup, ArchiveFails, CleanupFails, Crash, SelectBatch, Tick,
        SetRetention
  <2>6. CASE \/ FindBoundary \/ CountExpired \/ Serialize \/ Finish
             \/ \E f \in File : Encrypt(f)
    BY <2>6, Stutters DEF FindBoundary, CountExpired, Serialize, Finish, Encrypt
  <2>7. CASE \/ ServersDone \/ RestoreEnds \/ \E s \in Server : RestoreServer(s)
             \/ \E f \in File, create \in BOOLEAN : StartRestore(f, create)
             \/ \E k \in Sample : RestoreLine(k)
    BY <2>7, Stutters DEF ServersDone, RestoreEnds, RestoreServer, StartRestore, RestoreLine
  <2> QED
    BY <2>1, <2>2, <2>3, <2>4, <2>5, <2>6, <2>7 DEF Next, Writers, Archive, Delete, Restore
<1> QED
  BY <1>1, <1>2, Inductive, PTL DEF Spec, Keeper!Spec, ImplementsRowKeeper
=============================================================================
