-------------------------- MODULE PollStoreProofs --------------------------
(***************************************************************************)
(* Proofs about PollStore: its types, that a recovery is sent only for an  *)
(* alert that was heard, and that a GPU marked as missing has been told.   *)
(***************************************************************************)
EXTENDS PollStore, TLAPS

EventRow == [open : BOOLEAN, notified : BOOLEAN, heard : BOOLEAN]

\* What the fields of a pass are at each of its program points.
Shape(r) ==
    /\ r.pc = "idle" => r.base = Expired
    /\ r.pc \in {"close", "reread", "send", "note"} => r.ev \in Event
    /\ r.pc \in {"fire", "send", "note"} => r.at \in Gpu
    /\ r.pc \notin {"look", "fire", "close"} => r.mark = {} /\ r.clear = {}
    /\ r.mark \cap r.gpus = {} /\ r.clear \subseteq r.gpus

Shapes == \A p \in Pass : Shape(pass[p])

Types == TypeOK /\ Shapes

-----------------------------------------------------------------------------
(* The operators the actions are built from.                               *)

\* A pass that has been given a well-formed state leaves the others alone
\* (Step, Goto).
LEMMA StepTypes ==
    ASSUME Types, NEW p \in Pass, NEW r \in PassState, Shape(r), Step(p, r)
    PROVE  /\ pass' \in [Pass -> PassState]
           /\ Shapes'
           /\ pass'[p] = r
           /\ \A q \in Pass \ {p} : pass'[q] = pass[q]
<1>1. pass' \in [Pass -> PassState] /\ pass'[p] = r
        /\ \A q \in Pass \ {p} : pass'[q] = pass[q]
  BY DEF Types, TypeOK, Step
<1>2. ASSUME NEW q \in Pass PROVE Shape(pass[q])'
  <2>1. Shape(pass[q]) /\ Shape(r)
    BY DEF Types, Shapes
  <2>2. pass'[q] = r \/ pass'[q] = pass[q]
    BY <1>1
  <2>. QED BY <2>1, <2>2 DEF Shape, Event, Expired
<1>. QED BY <1>1, <1>2 DEF Shapes

\* Rows that nobody refers to any more become free slots; open rows and rows
\* that another pass refers to stay what they are (LetsGo).
LEMMA LetsGoKeeps ==
    ASSUME NEW p, NEW rows \in [Event -> EventRow], LetsGo(p, rows)
    PROVE  /\ event' \in [Event -> EventRow]
           /\ \A e \in Event : event'[e] = rows[e] \/ (event'[e] = Closed /\ ~rows[e].open)
           /\ \A q \in Pass \ {p}, e \in Event : pass[q].ev = e => event'[e] = rows[e]
BY DEF LetsGo, EventRow, Closed

\* The state of a pass between two polls, and one turn of the loop on, are
\* well formed (Rest, Onward, Committed).
LEMMA RestTypes == Rest \in PassState /\ Shape(Rest) /\ Rest.mark = {} /\ Rest.base = Expired
                    /\ Rest.pc = "idle" /\ Rest.alone = TRUE
<1>1. Expired \in [Gpu -> {"unknown", "seen", "missing", "expired"}]
  BY DEF Expired
<1>2. Rest \in PassState
  BY <1>1 DEF Rest, PassState, Pc
<1>. QED BY <1>2 DEF Rest, Shape

LEMMA CommittedTypes ==
    ASSUME NEW p \in Pass, pass[p] \in PassState
    PROVE  /\ Committed(p) \in PassState
           /\ Committed(p).mark = {} /\ Committed(p).clear = {}
           /\ Committed(p).base = Expired
           /\ Committed(p).pc = pass[p].pc /\ Committed(p).ev = pass[p].ev
           /\ Committed(p).at = pass[p].at /\ Committed(p).alone = pass[p].alone
           /\ Committed(p).gpus = pass[p].gpus
<1>1. Expired \in [Gpu -> {"unknown", "seen", "missing", "expired"}]
  BY DEF Expired
<1>. QED BY <1>1 DEF Committed, PassState, Pc

LEMMA OnwardTypes ==
    ASSUME NEW r \in PassState, NEW g, r.mark \cap r.gpus = {}, r.clear \subseteq r.gpus
    PROVE  /\ Onward(r, g) \in PassState /\ Shape(Onward(r, g))
           /\ Onward(r, g).pc = "look" /\ Onward(r, g).mark = r.mark
           /\ Onward(r, g).base = r.base /\ Onward(r, g).alone = r.alone
           /\ Onward(r, g).ev = None
<1>1. Onward(r, g) \in PassState
  BY DEF Onward, PassState, Pc
<1>2. /\ Onward(r, g).pc = "look" /\ Onward(r, g).mark = r.mark
      /\ Onward(r, g).base = r.base /\ Onward(r, g).alone = r.alone
      /\ Onward(r, g).ev = None /\ Onward(r, g).gpus = r.gpus
      /\ Onward(r, g).clear = r.clear
  BY DEF Onward, PassState
<1>. QED BY <1>1, <1>2 DEF Shape

\* What a commit writes is a baseline (Written).
LEMMA WrittenTypes ==
    ASSUME TypeOK, NEW p \in Pass
    PROVE  Written(p) \in [Gpu -> {"unknown", "seen", "missing"}]
BY DEF TypeOK, Written

\* A pass that begins marks the others that run as no longer alone (Begins).
LEMMA BeginsTypes ==
    ASSUME Types, NEW p \in Pass, NEW r \in PassState, Shape(r), r.pc # "idle",
           Begins(p, r)
    PROVE  /\ pass' \in [Pass -> PassState]
           /\ Shapes'
           /\ pass'[p] = [r EXCEPT !.alone = (Active = {})]
           /\ \A q \in Pass \ {p} : pass'[q] = [pass[q] EXCEPT !.alone = At(q, "idle")]
           /\ At(p, "idle")
<1>1. /\ pass' = [q \in Pass |-> IF q = p THEN [r EXCEPT !.alone = (Active = {})]
                                ELSE [pass[q] EXCEPT !.alone = At(q, "idle")]]
      /\ At(p, "idle")
  BY DEF Begins
<1>2. ASSUME NEW s \in PassState, Shape(s), NEW b \in BOOLEAN
      PROVE  [s EXCEPT !.alone = b] \in PassState /\ Shape([s EXCEPT !.alone = b])
  <2>1. [s EXCEPT !.alone = b] \in PassState
    BY <1>2 DEF PassState
  <2>. QED BY <2>1, <1>2 DEF Shape, PassState
<1>3. ASSUME NEW q \in Pass
      PROVE  pass'[q] \in PassState /\ Shape(pass'[q])
  <2>1. (Active = {}) \in BOOLEAN /\ At(q, "idle") \in BOOLEAN
    BY DEF At
  <2>2. pass[q] \in PassState /\ Shape(pass[q])
    BY DEF Types, TypeOK, Shapes
  <2>3. CASE q = p
    BY <1>1, <1>2, <2>1, <2>3
  <2>4. CASE q # p
    BY <1>1, <1>2, <2>1, <2>2, <2>4
  <2>. QED BY <2>3, <2>4
<1>4. pass' \in [Pass -> PassState]
  BY <1>1, <1>3
<1>5. \A q \in Pass : Shape(pass[q])'
  BY <1>3 DEF Shape, Event, Expired
<1>. QED BY <1>1, <1>4, <1>5 DEF Shapes

-----------------------------------------------------------------------------
(* Types.                                                                  *)

\* The events of a tail are lines of it (parse_kernel_log).
LEMMA ParsedLines ==
    ASSUME NEW S, S \subseteq Line, log \in Seq(S)
    PROVE  Parsed(log) \subseteq Line
<1>1. \A i \in DOMAIN log : log[i] \in S
  OBVIOUS
<1>. QED BY <1>1 DEF Parsed, Events

LEMMA InitTypes == Init => Types
<1> SUFFICES ASSUME Init PROVE Types
  OBVIOUS
<1>1. [g \in Gpu |-> "unknown"] \in [Gpu -> {"unknown", "seen", "missing"}]
  OBVIOUS
<1>2. [e \in Event |-> Closed] \in [Event -> EventRow]
  BY DEF Closed, EventRow
<1>3. pass \in [Pass -> PassState] /\ Shapes
  BY RestTypes DEF Init, Shapes
<1>4. 0 \in 0..MaxFaults
  BY SourceAssumption
<1>. QED BY <1>1, <1>2, <1>3, <1>4 DEF Init, Types, TypeOK, EventRow

\* Every step keeps the types, one case per action (PollStore's Next).
LEMMA NextTypes == Types /\ [Next]_vars => Types'
<1> SUFFICES ASSUME Types, [Next]_vars PROVE Types'
  OBVIOUS
<1> USE DEF environment, store, alerts, vars
<1>0. /\ TypeOK /\ Shapes /\ event \in [Event -> EventRow]
      /\ \A p \in Pass : pass[p] \in PassState /\ Shape(pass[p])
  BY DEF Types, TypeOK, EventRow, Shapes
<1> DEFINE OnlyPass == UNCHANGED <<environment, store, alerts>>
<1>o. ASSUME pass' \in [Pass -> PassState], Shapes', OnlyPass, faults' \in 0..MaxFaults
      PROVE  Types'
  BY <1>0, <1>o DEF Types, TypeOK
<1>f. ASSUME NEW p \in Pass, RollsBack(p) \/ CollectFails(p)
      PROVE  faults' \in 0..MaxFaults
  BY <1>0, <1>f, SourceAssumption DEF RollsBack, CollectFails, TypeOK
<1>1. CASE UNCHANGED vars
  BY <1>0, <1>1 DEF Types, TypeOK, Shapes, Shape, Event, Expired
<1>2. ASSUME NEW g \in Gpu, Hardware(g) PROVE Types'
  BY <1>0, <1>2 DEF Types, TypeOK, Shapes, Shape, Event, Expired, Hardware
<1>3. ASSUME NEW k \in Line, Logs(k) PROVE Types'
  <2>1. log' \in Seq(Line \cap hardware)
    BY <1>0, <1>3 DEF TypeOK, Logs
  <2>. QED BY <1>0, <1>3, <2>1 DEF Types, TypeOK, Shapes, Shape, Event, Expired, Logs
<1>d. CASE DropsOut
  <2>1. log' \in Seq(Line \cap hardware)
    BY <1>0, <1>d DEF TypeOK, DropsOut
  <2>. QED BY <1>0, <1>d, <2>1 DEF Types, TypeOK, Shapes, Shape, Event, Expired, DropsOut
<1>4. ASSUME NEW e \in Event, Resolve(e) PROVE Types'
  <2>1. [event EXCEPT ![e].open = FALSE] \in [Event -> EventRow]
    BY <1>0 DEF EventRow
  <2>2. event' \in [Event -> EventRow]
    BY <2>1, <1>4, LetsGoKeeps DEF Resolve
  <2>3. excused' \subseteq Gpu
    BY <1>0, <1>4 DEF Resolve, Event, TypeOK
  <2>. QED
    BY <1>0, <1>4, <2>2, <2>3
       DEF Types, TypeOK, Shapes, Shape, Event, Expired, Resolve, EventRow
<1>5. ASSUME NEW p \in Pass, Collect(p) PROVE Types'
  <2> PICK lines : /\ lines = Parsed(log)
                   /\ Begins(p, [Rest EXCEPT !.gpus = present, !.lines = lines,
                                    !.pc = IF lines = {} THEN "store" ELSE "hashes"])
    BY <1>5 DEF Collect
  <2> DEFINE r == [Rest EXCEPT !.gpus = present, !.lines = lines,
                               !.pc = IF lines = {} THEN "store" ELSE "hashes"]
  <2>1. lines \subseteq Line /\ present \subseteq Gpu
    BY <1>0, ParsedLines, SMTT(40) DEF TypeOK
  <2>2. r \in PassState
    BY <2>1, RestTypes DEF PassState, Pc
  <2>3. Shape(r) /\ r.pc # "idle"
    BY <2>1, RestTypes DEF Shape, Rest
  <2>4. OnlyPass /\ UNCHANGED faults
    BY <1>5 DEF Collect, Begins
  <2>5. pass' \in [Pass -> PassState] /\ Shapes'
    <3> HIDE DEF r
    <3>1. Begins(p, r)
      BY DEF r
    <3>. QED BY <3>1, <2>2, <2>3, BeginsTypes
  <2>. QED BY <2>4, <2>5, <1>o, <1>0 DEF TypeOK
<1>6. ASSUME NEW p \in Pass, CollectFails(p) PROVE Types'
  <2> DEFINE r == [Rest EXCEPT !.pc = "store"]
  <2>2. r \in PassState
    BY RestTypes DEF PassState, Pc
  <2>3. Shape(r) /\ r.pc # "idle"
    BY RestTypes DEF Shape, Rest
  <2>4. OnlyPass /\ faults' \in 0..MaxFaults
    BY <1>6, <1>f DEF CollectFails, Begins
  <2>5. pass' \in [Pass -> PassState] /\ Shapes'
    <3> HIDE DEF r
    <3>1. Begins(p, r)
      BY <1>6 DEF r, CollectFails
    <3>. QED BY <3>1, <2>2, <2>3, BeginsTypes
  <2>. QED BY <2>4, <2>5, <1>o
<1>s. ASSUME NEW p \in Pass, NEW r \in PassState, Shape(r), Step(p, r)
      PROVE  pass' \in [Pass -> PassState] /\ Shapes'
  BY <1>s, StepTypes
<1>7. ASSUME NEW p \in Pass, ReadHashes(p) PROVE Types'
  <2> DEFINE fresh == pass[p].lines \ KnownAmong(pass[p].lines)
             r == [pass[p] EXCEPT !.pc = IF fresh = {} THEN "store" ELSE "insert",
                                  !.lines = fresh]
  <2>1. r \in PassState /\ Shape(r)
    <3>1. fresh \subseteq Line
      BY <1>0 DEF PassState
    <3> HIDE DEF fresh
    <3>2. pass[p] \in PassState /\ Shape(pass[p]) /\ pass[p].pc = "hashes"
      BY <1>0, <1>7, SMTT(40) DEF ReadHashes, At
    <3>3. CASE fresh = {}
      <4>1. r = [pass[p] EXCEPT !.pc = "store", !.lines = {}]
        BY <3>3
      <4>. QED BY <3>2, <4>1, ZenonT(60) DEF PassState, Pc, Shape
    <3>4. CASE fresh # {}
      <4>1. r = [pass[p] EXCEPT !.pc = "insert", !.lines = fresh]
        BY <3>4
      <4>. QED BY <3>1, <3>2, <4>1, ZenonT(60) DEF PassState, Pc, Shape
    <3>. QED BY <3>3, <3>4
  <2>. QED BY <1>7, <2>1, <1>s, <1>o, <1>0 DEF ReadHashes, TypeOK
<1>8. ASSUME NEW p \in Pass, InsertRows(p) PROVE Types'
  <2> DEFINE r == [pass[p] EXCEPT !.pc = "store", !.lines = {}]
  <2>1. r \in PassState /\ Shape(r)
    <3>1. r \in PassState
      BY <1>0, ZenonT(60) DEF PassState, Pc
    <3>. QED BY <1>0, <3>1, <1>8 DEF InsertRows, At, PassState, Shape
  <2>2. row' \subseteq Line
    BY <1>8, <1>0 DEF InsertRows, TypeOK, PassState
  <2>3. pass' \in [Pass -> PassState] /\ Shapes'
    BY <1>8, <2>1, <1>s DEF InsertRows
  <2>. QED BY <1>8, <2>2, <2>3, <1>0 DEF InsertRows, TypeOK, Types
<1>9. ASSUME NEW p \in Pass, Store(p) PROVE Types'
  <2>1. PICK pc \in {"detect", "baseline"} : Goto(p, pc)
    BY <1>9 DEF Store
  <2> DEFINE r == [pass[p] EXCEPT !.pc = pc]
  <2>2. r \in PassState /\ Shape(r)
    <3>1. r \in PassState
      BY <1>0 DEF PassState, Pc
    <3>. QED BY <1>0, <3>1, <1>9 DEF Store, At, PassState, Shape
  <2>3. pass' \in [Pass -> PassState] /\ Shapes'
    BY <2>1, <2>2, <1>s DEF Goto
  <2>4. latest' \in (SUBSET Gpu) \cup {None}
    BY <1>9, <1>0 DEF Store, PassState
  <2>. QED BY <1>9, <2>3, <2>4, <1>0 DEF Store, TypeOK, Types
<1>10. ASSUME NEW p \in Pass, ReadBaseline(p) PROVE Types'
  <2> DEFINE r == [pass[p] EXCEPT !.pc = "update", !.base = baseline]
  <2>1. r \in PassState /\ Shape(r)
    <3>1. baseline \in [Gpu -> {"unknown", "seen", "missing", "expired"}]
      BY <1>0 DEF TypeOK
    <3>2. r \in PassState
      BY <1>0, <3>1, ZenonT(60) DEF PassState, Pc
    <3>. QED BY <1>0, <3>2, <1>10 DEF ReadBaseline, At, PassState, Shape
  <2>. QED BY <1>10, <2>1, <1>s, <1>o, <1>0 DEF ReadBaseline, TypeOK
<1>11. ASSUME NEW p \in Pass, UpdateBaseline(p) PROVE Types'
  <2> DEFINE r == [pass[p] EXCEPT !.pc = "detect", !.gpus = None, !.base = Expired]
  <2>1. r \in PassState /\ Shape(r)
    <3>1. Expired \in [Gpu -> {"unknown", "seen", "missing", "expired"}]
      BY DEF Expired
    <3>2. r \in PassState
      BY <1>0, <3>1, ZenonT(60) DEF PassState, Pc
    <3>. QED BY <1>0, <3>2, <1>11 DEF UpdateBaseline, At, PassState, Shape
  <2>2. pass' \in [Pass -> PassState] /\ Shapes'
    BY <1>11, <2>1, <1>s DEF UpdateBaseline
  <2>3. baseline' \in [Gpu -> {"unknown", "seen", "missing"}]
    BY <1>11, <1>0 DEF UpdateBaseline, TypeOK
  <2>. QED BY <1>11, <2>2, <2>3, <1>0 DEF UpdateBaseline, TypeOK, Types
<1>12. ASSUME NEW p \in Pass, Detect(p) PROVE Types'
  <2> DEFINE r == [pass[p] EXCEPT !.pc = "load", !.gpus = latest]
  <2>1. r \in PassState /\ Shape(r)
    <3>0. latest \in (SUBSET Gpu) \cup {None}
      BY <1>0 DEF TypeOK
    <3>1. r \in PassState
      BY <1>0, <3>0, ZenonT(60) DEF PassState, Pc
    <3>. QED BY <1>0, <3>1, <1>12 DEF Detect, At, PassState, Shape
  <2>2. Step(p, r) \/ Step(p, Rest)
    BY <1>12 DEF Detect
  <2>3. pass' \in [Pass -> PassState] /\ Shapes'
    BY <2>1, <2>2, RestTypes, <1>s
  <2>. QED BY <1>12, <2>3, <1>o, <1>0 DEF Detect, TypeOK
<1>13. ASSUME NEW p \in Pass, LoadBaseline(p) PROVE Types'
  <2> DEFINE known == {g \in Gpu : baseline[g] # "unknown"}
             r == [pass[p] EXCEPT !.pc = "look", !.base = baseline, !.todo = known]
  <2>1. r \in PassState /\ Shape(r)
    <3>1. baseline \in [Gpu -> {"unknown", "seen", "missing", "expired"}]
      BY <1>0 DEF TypeOK
    <3>2. known \subseteq Gpu
      OBVIOUS
    <3> HIDE DEF known
    <3>3. r \in PassState
      BY <1>0, <3>1, <3>2, ZenonT(60) DEF PassState, Pc
    <3>. QED BY <1>0, <3>3, <1>13 DEF LoadBaseline, At, PassState, Shape
  <2>. QED BY <1>13, <2>1, <1>s, <1>o, <1>0 DEF LoadBaseline, TypeOK
<1>14. ASSUME NEW p \in Pass, GpusDone(p) PROVE Types'
  <2>1. pass' \in [Pass -> PassState] /\ Shapes'
    BY <1>14, RestTypes, <1>s DEF GpusDone, Commit
  <2>2. baseline' \in [Gpu -> {"unknown", "seen", "missing"}]
    BY <1>14, <1>0, WrittenTypes DEF GpusDone, Commit
  <2>. QED BY <1>14, <2>1, <2>2, <1>0 DEF GpusDone, TypeOK, Types
<1>15. ASSUME NEW p \in Pass, NEW g \in Gpu, LooksAtGpu(p, g) PROVE Types'
  <2> DEFINE m == IF Lost(p, g) THEN pass[p].mark \cup {g} ELSE pass[p].mark
             c == IF Back(p, g) THEN pass[p].clear \cup {g} ELSE pass[p].clear
             r == [pass[p] EXCEPT !.clear = c, !.mark = m]
             fires == Lost(p, g) /\ OpenOf(g) = {}
  <2>1. m \subseteq Gpu /\ c \subseteq Gpu /\ m \cap pass[p].gpus = {} /\ c \subseteq pass[p].gpus
    BY <1>0 DEF PassState, Lost, Back, Shape
  <2>2. \/ \E e \in ToClose(p, g) : Step(p, [r EXCEPT !.pc = "close", !.ev = e])
        \/ Step(p, [r EXCEPT !.pc = "fire", !.at = g])
        \/ Step(p, Onward(r, g))
    BY <1>15 DEF LooksAtGpu
  <2> HIDE DEF m, c
  <2>3. r \in PassState /\ r.mark \cap r.gpus = {} /\ r.clear \subseteq r.gpus
    BY <1>0, <2>1 DEF PassState
  <2>4. ToClose(p, g) \subseteq Event
    BY DEF ToClose, OpenOf
  <2> HIDE DEF r
  <2>5. pass' \in [Pass -> PassState] /\ Shapes'
    <3>1. ASSUME NEW e \in Event, Step(p, [r EXCEPT !.pc = "close", !.ev = e])
          PROVE  pass' \in [Pass -> PassState] /\ Shapes'
      <4>1. [r EXCEPT !.pc = "close", !.ev = e] \in PassState
        BY <2>3 DEF PassState, Pc
      <4>2. Shape([r EXCEPT !.pc = "close", !.ev = e])
        BY <2>3, <4>1 DEF PassState, Shape
      <4>. QED BY <4>1, <4>2, <3>1, <1>s
    <3>2. ASSUME Step(p, [r EXCEPT !.pc = "fire", !.at = g])
          PROVE  pass' \in [Pass -> PassState] /\ Shapes'
      <4>1. [r EXCEPT !.pc = "fire", !.at = g] \in PassState
        BY <2>3 DEF PassState, Pc
      <4>2. Shape([r EXCEPT !.pc = "fire", !.at = g])
        BY <2>3, <4>1 DEF PassState, Shape
      <4>. QED BY <4>1, <4>2, <3>2, <1>s
    <3>3. ASSUME Step(p, Onward(r, g))
          PROVE  pass' \in [Pass -> PassState] /\ Shapes'
      BY <2>3, <3>3, <1>s, OnwardTypes
    <3>. QED BY <2>2, <2>4, <3>1, <3>2, <3>3
  <2>. QED BY <1>15, <2>5, <1>o, <1>0 DEF LooksAtGpu, TypeOK
<1>16. ASSUME NEW p \in Pass, CloseEvent(p) PROVE Types'
  <2> DEFINE r == [Committed(p) EXCEPT !.pc = "reread"]
  <2>0. pass[p].ev \in Event
    BY <1>0, <1>16 DEF CloseEvent, At, Shape
  <2>1. r \in PassState /\ Shape(r)
    <3>1. r \in PassState
      BY <1>0, CommittedTypes DEF PassState, Pc
    <3>. QED BY <1>0, <2>0, <3>1, CommittedTypes DEF PassState, Shape
  <2>2. pass' \in [Pass -> PassState] /\ Shapes'
    BY <1>16, <2>1, <1>s DEF CloseEvent, Commit
  <2>3. baseline' \in [Gpu -> {"unknown", "seen", "missing"}]
    BY <1>16, <1>0, WrittenTypes DEF CloseEvent, Commit
  <2>4. event' \in [Event -> EventRow]
    BY <1>16, <1>0 DEF CloseEvent, EventRow
  <2>5. excused' \subseteq Gpu
    BY <1>16, <1>0, <2>0 DEF CloseEvent, TypeOK, Event
  <2>. QED BY <1>16, <2>2, <2>3, <2>4, <2>5, <1>0 DEF CloseEvent, TypeOK, Types, EventRow
<1>17. ASSUME NEW p \in Pass, SendRecovery(p) \/ NoRecovery(p) PROVE Types'
  <2>1. pass' \in [Pass -> PassState] /\ Shapes'
    BY <1>17, <1>s, <1>0, OnwardTypes DEF SendRecovery, NoRecovery, Shape
  <2>2. event' \in [Event -> EventRow]
    BY <1>17, <1>0, LetsGoKeeps DEF SendRecovery, NoRecovery
  <2>. QED BY <1>17, <2>1, <2>2, <1>0 DEF SendRecovery, NoRecovery, TypeOK, Types, EventRow
<1>18. ASSUME NEW p \in Pass, Fire(p) PROVE Types'
  <2>1. PICK e \in Event :
          /\ event' = [event EXCEPT ![e] = [Closed EXCEPT !.open = TRUE]]
          /\ Commit(p, [Committed(p) EXCEPT !.pc = "send", !.ev = e])
    BY <1>18 DEF Fire
  <2> DEFINE r == [Committed(p) EXCEPT !.pc = "send", !.ev = e]
  <2>2. pass[p].at \in Gpu
    BY <1>0, <1>18 DEF Fire, At, Shape
  <2>3. r \in PassState /\ Shape(r)
    <3>0. Committed(p) \in PassState
      BY <1>0, CommittedTypes
    <3>1. r \in PassState
      BY <3>0 DEF PassState, Pc
    <3>. QED BY <1>0, <2>2, <3>1, CommittedTypes DEF PassState, Shape
  <2>4. pass' \in [Pass -> PassState] /\ Shapes'
    BY <2>1, <2>3, <1>s DEF Commit
  <2>5. baseline' \in [Gpu -> {"unknown", "seen", "missing"}]
    BY <2>1, <1>0, WrittenTypes DEF Commit
  <2>6. event' \in [Event -> EventRow]
    BY <2>1, <1>0 DEF Closed, EventRow
  <2>. QED BY <1>18, <2>4, <2>5, <2>6, <1>0 DEF Fire, TypeOK, Types, EventRow
<1>19. ASSUME NEW p \in Pass, Send(p) PROVE Types'
  <2> DEFINE r == [pass[p] EXCEPT !.pc = "note"]
  <2>1. r \in PassState /\ Shape(r)
    <3>1. r \in PassState
      BY <1>0 DEF PassState, Pc
    <3>. QED BY <1>0, <3>1, <1>19 DEF Send, At, PassState, Shape
  <2>2. pass[p].ev \in Event
    BY <1>0, <1>19 DEF Send, At, Shape
  <2>3. \/ event' = [event EXCEPT ![pass[p].ev].heard = TRUE] /\ Step(p, r)
        \/ Step(p, Onward(pass[p], pass[p].at)) /\ LetsGo(p, event)
    BY <1>19 DEF Send, Goto
  <2>4. pass' \in [Pass -> PassState] /\ Shapes'
    <3>1. Onward(pass[p], pass[p].at) \in PassState /\ Shape(Onward(pass[p], pass[p].at))
      BY <1>0, OnwardTypes DEF Shape
    <3> HIDE DEF r
    <3>. QED BY <2>1, <2>3, <3>1, <1>s
  <2>5. event' \in [Event -> EventRow]
    BY <2>2, <2>3, <1>0, LetsGoKeeps DEF EventRow
  <2>. QED BY <1>19, <2>4, <2>5, <1>0 DEF Send, TypeOK, Types, EventRow
<1>20. ASSUME NEW p \in Pass, Note(p) PROVE Types'
  <2>1. Onward(Committed(p), pass[p].at) \in PassState
          /\ Shape(Onward(Committed(p), pass[p].at))
    BY <1>0, CommittedTypes, OnwardTypes
  <2>2. pass' \in [Pass -> PassState] /\ Shapes'
    BY <1>20, <2>1, <1>s DEF Note, Commit
  <2>3. baseline' \in [Gpu -> {"unknown", "seen", "missing"}]
    BY <1>20, <1>0, WrittenTypes DEF Note, Commit
  <2>4. pass[p].ev \in Event
    BY <1>0, <1>20 DEF Note, At, Shape
  <2>5. [event EXCEPT ![pass[p].ev].notified = TRUE] \in [Event -> EventRow]
    BY <2>4, <1>0 DEF EventRow
  <2>6. event' \in [Event -> EventRow]
    BY <2>5, <1>20, LetsGoKeeps DEF Note
  <2>. QED BY <1>20, <2>2, <2>3, <2>6, <1>0 DEF Note, TypeOK, Types, EventRow
<1>21. ASSUME NEW p \in Pass, RollsBack(p) PROVE Types'
  <2> DEFINE a == [pass[p] EXCEPT !.pc = "store", !.lines = {}]
             b == [pass[p] EXCEPT !.pc = "detect", !.gpus = None, !.base = Expired]
  <2>1. \/ pass[p].pc \in {"hashes", "insert"} /\ Step(p, a)
        \/ pass[p].pc \in {"baseline", "update"} /\ Step(p, b)
        \/ Step(p, Rest)
    BY <1>21 DEF RollsBack
  <2>2. a \in PassState /\ (pass[p].pc \in {"hashes", "insert"} => Shape(a))
    <3>1. a \in PassState
      BY <1>0 DEF PassState, Pc
    <3>. QED BY <1>0, <3>1 DEF PassState, Shape
  <2>3. b \in PassState /\ (pass[p].pc \in {"baseline", "update"} => Shape(b))
    <3>0. Expired \in [Gpu -> {"unknown", "seen", "missing", "expired"}]
      BY DEF Expired
    <3>1. b \in PassState
      BY <1>0, <3>0 DEF PassState, Pc
    <3>. QED BY <1>0, <3>1 DEF PassState, Shape
  <2> HIDE DEF a, b
  <2>4. pass' \in [Pass -> PassState] /\ Shapes'
    BY <2>1, <2>2, <2>3, RestTypes, <1>s
  <2>5. event' \in [Event -> EventRow]
    BY <1>21, <1>0, LetsGoKeeps DEF RollsBack
  <2>6. faults' \in 0..MaxFaults
    BY <1>21, <1>f
  <2>. QED BY <1>21, <2>4, <2>5, <2>6, <1>0 DEF RollsBack, TypeOK, Types, EventRow
<1>22. CASE Crash
  <2>1. pass' \in [Pass -> PassState]
    BY <1>22, RestTypes DEF Crash
  <2>2. Shapes'
    BY <1>22, RestTypes DEF Crash, Shapes, Shape, Event, Expired
  <2>3. event' \in [Event -> EventRow]
    BY <1>22, <1>0 DEF Crash, Closed, EventRow
  <2>4. faults' \in 0..MaxFaults
    BY <1>22, <1>0, SourceAssumption DEF Crash, TypeOK
  <2>. QED BY <1>22, <2>1, <2>2, <2>3, <2>4, <1>0 DEF Crash, TypeOK, Types, EventRow
<1>. QED BY <1>1, <1>2, <1>3, <1>4, <1>5, <1>6, <1>7, <1>8, <1>9, <1>10, <1>11, <1>12,
            <1>13, <1>14, <1>15, <1>16, <1>17, <1>18, <1>19, <1>20, <1>21, <1>22, <1>d
         DEF Next, Work

\* Every variable keeps its type, and a pass that is sending, noting or
\* closing has the event it does so for.
THEOREM TypesHold == Spec => []TypeOK
<1>1. Types => TypeOK
  BY DEF Types
<1>. QED BY <1>1, InitTypes, NextTypes, PTL DEF Spec

-----------------------------------------------------------------------------
(* Recoveries.                                                             *)

\* notified is written only after a channel has taken the alert, and the row
\* it is written to is still the one the alert was sent for.
Heard ==
    /\ \A e \in Event : event[e].notified => event[e].heard
    /\ \A p \in Pass : At(p, "note") => event[pass[p].ev].heard

\* A step that lets go of an event takes nothing from the passes that are
\* about to note theirs.
LEMMA LetsGoHeard ==
    ASSUME Types, NEW p, NEW rows \in [Event -> EventRow], LetsGo(p, rows),
           \A e \in Event : rows[e].notified => rows[e].heard,
           \A q \in Pass \ {p} : At(q, "note") => rows[pass[q].ev].heard,
           \A q \in Pass \ {p} : pass'[q] = pass[q],
           p \in Pass => pass'[p].pc # "note"
    PROVE  Heard'
<1>1. ASSUME NEW e \in Event PROVE event'[e].notified => event'[e].heard
  BY LetsGoKeeps DEF Closed
<1>2. ASSUME NEW q \in Pass, pass'[q].pc = "note" PROVE event'[pass'[q].ev].heard
  <2>1. q # p /\ pass'[q] = pass[q]
    BY <1>2
  <2>2. pass[q].ev \in Event /\ At(q, "note")
    BY <1>2, <2>1 DEF Types, Shapes, Shape, At
  <2>. QED BY <2>1, <2>2, LetsGoKeeps
<1>. QED BY <1>1, <1>2 DEF Heard, At

\* Every other step that leaves the rows alone.
LEMMA SameHeard ==
    ASSUME Types, Heard, event' = event,
           \A q \in Pass : pass'[q].pc = "note" => pass'[q].ev = pass[q].ev /\ At(q, "note")
    PROVE  Heard'
BY DEF Heard, At

LEMMA InitHeard == Init => Heard
BY RestTypes DEF Init, Heard, Closed, At

LEMMA NextHeard == Types /\ Heard /\ [Next]_vars => Heard'
<1> SUFFICES ASSUME Types, Heard, [Next]_vars PROVE Heard'
  OBVIOUS
<1> USE DEF environment, store, alerts, vars
<1>0. /\ event \in [Event -> EventRow] /\ pass \in [Pass -> PassState] /\ None \notin Pass
      /\ \A p \in Pass : pass[p] \in PassState /\ Shape(pass[p])
  BY SourceAssumption DEF Types, TypeOK, EventRow, Shapes
<1>s. ASSUME NEW p \in Pass, NEW r, Step(p, r)
      PROVE  pass'[p] = r /\ \A q \in Pass \ {p} : pass'[q] = pass[q]
  BY <1>s, <1>0 DEF Step
<1>e. ASSUME event' = event, NEW p \in Pass, NEW r, r.pc # "note", Step(p, r)
      PROVE  Heard'
  BY <1>e, <1>s, SameHeard DEF At
<1>1. CASE UNCHANGED vars
  BY <1>1 DEF Heard, At
<1>2. ASSUME \/ \E g \in Gpu : Hardware(g)
             \/ \E k \in Line : Logs(k)
             \/ DropsOut
      PROVE  Heard'
  BY <1>2 DEF Heard, At, Hardware, Logs, DropsOut
<1>3. ASSUME NEW e \in Event, Resolve(e) PROVE Heard'
  <2> DEFINE rows == [event EXCEPT ![e].open = FALSE]
  <2>1. rows \in [Event -> EventRow] /\ \A f \in Event :
          rows[f].notified = event[f].notified /\ rows[f].heard = event[f].heard
    BY <1>0 DEF EventRow
  <2>2. LetsGo(None, rows) /\ pass' = pass
    BY <1>3 DEF Resolve
  <2>3. \A q \in Pass : At(q, "note") => pass[q].ev \in Event
    BY <1>0 DEF At, Shape
  <2> HIDE DEF rows
  <2>. QED BY <1>0, <2>1, <2>2, <2>3, LetsGoHeard DEF Heard
<1>4. ASSUME NEW p \in Pass, Collect(p) \/ CollectFails(p) PROVE Heard'
  <2>1. PICK r : Begins(p, r) /\ r.pc \in {"store", "hashes"}
    <3>1. CASE Collect(p)
      <4> PICK lines :
            Begins(p, [Rest EXCEPT !.gpus = present, !.lines = lines,
                                   !.pc = IF lines = {} THEN "store" ELSE "hashes"])
        BY <3>1 DEF Collect
      <4> WITNESS [Rest EXCEPT !.gpus = present, !.lines = lines,
                               !.pc = IF lines = {} THEN "store" ELSE "hashes"]
      <4>. QED BY DEF Rest
    <3>2. CASE CollectFails(p)
      <4> WITNESS [Rest EXCEPT !.pc = "store"]
      <4>. QED BY <3>2 DEF Rest, CollectFails
    <3>. QED BY <1>4, <3>1, <3>2
  <2>2. [r EXCEPT !.alone = (Active = {})].pc # "note"
    BY <2>1
  <2>. QED BY <1>0, <2>1, SameHeard DEF Begins, At
<1>5. ASSUME NEW p \in Pass, ReadHashes(p) \/ InsertRows(p) \/ ReadBaseline(p)
                                \/ UpdateBaseline(p) \/ LoadBaseline(p)
      PROVE  Heard'
  BY <1>0, <1>5, <1>e DEF ReadHashes, InsertRows, ReadBaseline, UpdateBaseline, LoadBaseline,
                     PassState
<1>6. ASSUME NEW p \in Pass, Store(p) PROVE Heard'
  <2>1. PICK pc \in {"detect", "baseline"} : Goto(p, pc)
    BY <1>6 DEF Store
  <2>. QED BY <1>0, <1>6, <1>e, <2>1 DEF Store, Goto, PassState
<1>7. ASSUME NEW p \in Pass, Detect(p) \/ GpusDone(p) PROVE Heard'
  <2>1. Step(p, Rest) \/ Step(p, [pass[p] EXCEPT !.pc = "load", !.gpus = latest])
    BY <1>7 DEF Detect, GpusDone, Commit
  <2>2. event' = event
    BY <1>7 DEF Detect, GpusDone
  <2>. QED BY <1>0, <2>1, <2>2, <1>e, RestTypes DEF PassState
<1>8. ASSUME NEW p \in Pass, NEW g \in Gpu, LooksAtGpu(p, g) PROVE Heard'
  <2>1. PICK r : Step(p, r) /\ r.pc # "note"
    <3> DEFINE m == IF Lost(p, g) THEN pass[p].mark \cup {g} ELSE pass[p].mark
               c == IF Back(p, g) THEN pass[p].clear \cup {g} ELSE pass[p].clear
               r == [pass[p] EXCEPT !.clear = c, !.mark = m]
    <3>1. \/ \E e \in ToClose(p, g) : Step(p, [r EXCEPT !.pc = "close", !.ev = e])
          \/ Step(p, [r EXCEPT !.pc = "fire", !.at = g])
          \/ Step(p, Onward(r, g))
      BY <1>8 DEF LooksAtGpu
    <3>2. r \in [pc : Pc, gpus : (SUBSET Gpu) \cup {None}, lines : SUBSET Line,
                 base : [Gpu -> {"unknown", "seen", "missing", "expired"}],
                 todo : SUBSET Gpu, at : Gpu \cup {None}, ev : Event \cup {None},
                 mark : SUBSET Gpu, clear : SUBSET Gpu, alone : BOOLEAN]
      <4>1. m \subseteq Gpu /\ c \subseteq Gpu
        BY <1>0 DEF PassState
      <4> HIDE DEF m, c
      <4>. QED BY <1>0, <4>1 DEF PassState
    <3> HIDE DEF r
    <3>3. \A e \in Event : [r EXCEPT !.pc = "close", !.ev = e].pc # "note"
      BY <3>2
    <3>4. [r EXCEPT !.pc = "fire", !.at = g].pc # "note" /\ Onward(r, g).pc # "note"
      BY <3>2 DEF Onward
    <3>5. ToClose(p, g) \subseteq Event
      BY DEF ToClose, OpenOf
    <3>. QED BY <3>1, <3>3, <3>4, <3>5
  <2>. QED BY <1>8, <2>1, <1>e DEF LooksAtGpu
<1>9. ASSUME NEW p \in Pass, CloseEvent(p) PROVE Heard'
  <2>1. /\ \A e \in Event : event'[e].notified = event[e].notified
                          /\ event'[e].heard = event[e].heard
    BY <1>0, <1>9 DEF CloseEvent, EventRow
  <2>2. Step(p, [Committed(p) EXCEPT !.pc = "reread"])
    BY <1>9 DEF CloseEvent, Commit
  <2>3. pass'[p].pc # "note" /\ \A q \in Pass \ {p} : pass'[q] = pass[q]
    <3>1. Committed(p) \in PassState
      BY <1>0, CommittedTypes
    <3>. QED BY <2>2, <1>s, <3>1 DEF PassState
  <2>4. \A q \in Pass : At(q, "note") => pass[q].ev \in Event
    BY <1>0 DEF At, Shape
  <2>. QED BY <2>1, <2>3, <2>4 DEF Heard, At
<1>10. ASSUME NEW p \in Pass, SendRecovery(p) \/ NoRecovery(p) PROVE Heard'
  <2>1. LetsGo(p, event) /\ Step(p, Onward(pass[p], pass[p].ev[1]))
    BY <1>10 DEF SendRecovery, NoRecovery
  <2>2. pass'[p].pc = "look" /\ \A q \in Pass \ {p} : pass'[q] = pass[q]
    BY <1>0, <1>s, <2>1, OnwardTypes DEF Shape
  <2>. QED BY <1>0, <2>1, <2>2, LetsGoHeard DEF Heard
<1>11. ASSUME NEW p \in Pass, Fire(p) PROVE Heard'
  <2>1. PICK e \in Event :
          /\ NewRow(pass[p].at, e)
          /\ event' = [event EXCEPT ![e] = [Closed EXCEPT !.open = TRUE]]
          /\ Step(p, [Committed(p) EXCEPT !.pc = "send", !.ev = e])
    BY <1>11 DEF Fire, Commit
  <2>2. pass'[p].pc # "note" /\ \A q \in Pass \ {p} : pass'[q] = pass[q]
    <3>1. Committed(p) \in PassState
      BY <1>0, CommittedTypes
    <3>2. [Committed(p) EXCEPT !.pc = "send", !.ev = e].pc = "send"
      BY <3>1 DEF PassState
    <3>3. Step(p, [Committed(p) EXCEPT !.pc = "send", !.ev = e])
      BY <2>1
    <3>. QED BY <3>2, <3>3, <1>s
  <2>3. \A q \in Pass : pass[q].ev # e
    BY <2>1 DEF NewRow, Free
  <2>4. \A q \in Pass : At(q, "note") => pass[q].ev \in Event
    BY <1>0 DEF At, Shape
  <2>5. ~event'[e].notified /\ \A f \in Event \ {e} : event'[f] = event[f]
    BY <2>1, <1>0 DEF Closed
  <2>. QED BY <2>2, <2>3, <2>4, <2>5 DEF Heard, At
<1>12. ASSUME NEW p \in Pass, Send(p) PROVE Heard'
  <2>0. pass[p].ev \in Event
    BY <1>0, <1>12 DEF Send, At, Shape
  <2>1. CASE event' = [event EXCEPT ![pass[p].ev].heard = TRUE] /\ Goto(p, "note")
    <3>1. \A e \in Event : event'[e].notified = event[e].notified
                         /\ (event[e].heard => event'[e].heard)
      BY <1>0, <2>1 DEF EventRow
    <3>2. event'[pass[p].ev].heard
      BY <1>0, <2>0, <2>1 DEF EventRow
    <3>3. pass'[p].ev = pass[p].ev /\ \A q \in Pass \ {p} : pass'[q] = pass[q]
      BY <1>0, <2>1, <1>s DEF Goto, PassState
    <3>4. \A q \in Pass : At(q, "note") => pass[q].ev \in Event
      BY <1>0 DEF At, Shape
    <3>. QED BY <3>1, <3>2, <3>3, <3>4 DEF Heard, At
  <2>2. CASE Step(p, Onward(pass[p], pass[p].at)) /\ LetsGo(p, event)
    <3>2. pass'[p].pc = "look" /\ \A q \in Pass \ {p} : pass'[q] = pass[q]
      BY <1>0, <1>s, <2>2, OnwardTypes DEF Shape
    <3>. QED BY <1>0, <2>2, <3>2, LetsGoHeard DEF Heard
  <2>. QED BY <1>12, <2>1, <2>2 DEF Send
<1>13. ASSUME NEW p \in Pass, Note(p) PROVE Heard'
  <2> DEFINE rows == [event EXCEPT ![pass[p].ev].notified = TRUE]
  <2>0. pass[p].ev \in Event /\ event[pass[p].ev].heard
    BY <1>0, <1>13 DEF Note, At, Shape, Heard
  <2>1. rows \in [Event -> EventRow] /\ \A e \in Event :
          /\ rows[e].heard = event[e].heard
          /\ e # pass[p].ev => rows[e].notified = event[e].notified
    BY <1>0, <2>0 DEF EventRow
  <2>2. LetsGo(p, rows) /\ Step(p, Onward(Committed(p), pass[p].at))
    BY <1>13 DEF Note, Commit
  <2>3. pass'[p].pc = "look" /\ \A q \in Pass \ {p} : pass'[q] = pass[q]
    BY <1>0, <2>2, <1>s, CommittedTypes, OnwardTypes
  <2>4. \A q \in Pass : At(q, "note") => pass[q].ev \in Event
    BY <1>0 DEF At, Shape
  <2> HIDE DEF rows
  <2>5. \A e \in Event : rows[e].notified => rows[e].heard
    BY <2>0, <2>1 DEF Heard
  <2>6. \A q \in Pass \ {p} : At(q, "note") => rows[pass[q].ev].heard
    BY <2>1, <2>4 DEF Heard
  <2>. QED BY <2>1, <2>2, <2>3, <2>5, <2>6, LetsGoHeard
<1>14. ASSUME NEW p \in Pass, RollsBack(p) PROVE Heard'
  <2>1. LetsGo(p, event) /\ \A q \in Pass \ {p} : pass'[q] = pass[q]
    BY <1>14, <1>s DEF RollsBack
  <2>2. pass'[p].pc # "note"
    <3>1. \/ Step(p, [pass[p] EXCEPT !.pc = "store", !.lines = {}])
          \/ Step(p, [pass[p] EXCEPT !.pc = "detect", !.gpus = None, !.base = Expired])
          \/ Step(p, Rest)
      BY <1>14 DEF RollsBack
    <3>2. /\ [pass[p] EXCEPT !.pc = "store", !.lines = {}].pc = "store"
          /\ [pass[p] EXCEPT !.pc = "detect", !.gpus = None, !.base = Expired].pc = "detect"
      BY <1>0 DEF PassState
    <3>. QED BY <3>1, <3>2, <1>s, RestTypes
  <2>. QED BY <1>0, <2>1, <2>2, LetsGoHeard DEF Heard
<1>15. CASE Crash
  BY <1>15, <1>0, RestTypes DEF Crash, Heard, At, Closed
<1>. QED BY <1>1, <1>2, <1>3, <1>4, <1>5, <1>6, <1>7, <1>8, <1>9, <1>10, <1>11, <1>12,
            <1>13, <1>14, <1>15
         DEF Next, Work

\* A recovery goes out only for an event whose alert was heard: the event a
\* pass has closed and reads again is not one that another pass has meanwhile
\* put in its place (_recover, _notify).
THEOREM RecoveryHeardHolds == Spec => RecoveryHeard
<1> DEFINE OnlyHeard == \A p \in Pass : SendRecovery(p) => event[pass[p].ev].heard
<1>1. Types /\ Heard /\ [Next]_vars => [OnlyHeard]_vars
  BY DEF Types, Shapes, Shape, Heard, SendRecovery, WasNotified, At
<1>. QED BY <1>1, InitTypes, NextTypes, InitHeard, NextHeard, PTL DEF Spec, RecoveryHeard

-----------------------------------------------------------------------------
(* Missing GPUs.                                                           *)

Told(g) == OpenOf(g) # {} \/ g \in excused

\* A pass that has run alone so far still runs alone, and the rows it has
\* loaded are as they were.
Alone ==
    \A p \in Pass : pass[p].alone =>
        /\ ~At(p, "idle") => Active = {p}
        /\ \A g \in Gpu : pass[p].base[g] \in {"expired", baseline[g]}

\* The commit that closes an event of r's GPU leaves no missing_since there.
Resets(r) ==
    LET g == r.ev[1] IN g \in r.clear \/ (g \notin r.mark /\ baseline[g] # "missing")

\* A GPU whose missing_since is set, or about to be written, has been told,
\* or the insert that the write comes with is the next step.
Missing ==
    /\ MissingTold
    /\ \A p \in Pass : \A g \in pass[p].mark :
          Told(g) \/ (At(p, "fire") /\ pass[p].at = g)
    /\ Alone
    /\ \A p \in Pass : At(p, "close") /\ pass[p].alone => Resets(pass[p])

\* A step of one pass keeps what is said of passes that run alone, if it loads
\* the rows as they are or expires those it has loaded.
LEMMA AloneKept ==
    ASSUME Types, Missing, NEW p \in Pass, NEW r \in PassState, ~At(p, "idle"), Step(p, r),
           r.alone = pass[p].alone \/ r.pc = "idle",
           \/ r.base = Expired
           \/ baseline' = baseline /\ (r.base = pass[p].base \/ r.base = baseline),
           r.pc = "close" /\ pass[p].alone => Resets(r)',
           r.pc = "idle" => r.base = Expired
    PROVE  /\ Alone'
           /\ \A q \in Pass : (At(q, "close") /\ pass[q].alone => Resets(pass[q]))'
           /\ pass'[p] = r /\ \A q \in Pass \ {p} : pass'[q] = pass[q]
<1>1. pass'[p] = r /\ \A q \in Pass \ {p} : pass'[q] = pass[q]
  BY DEF Step, Types, TypeOK
<1>2. ASSUME NEW q \in Pass \ {p}, pass[q].alone PROVE At(q, "idle")
  BY <1>2 DEF Missing, Alone, Active
<1>3. ASSUME NEW q \in Pass \ {p}, pass'[q].alone
      PROVE  /\ pass'[q].pc = "idle"
             /\ \A g \in Gpu : pass'[q].base[g] \in {"expired", baseline'[g]}
  <2>1. At(q, "idle") /\ pass'[q] = pass[q]
    BY <1>1, <1>2, <1>3
  <2>2. pass[q].base = Expired
    BY <2>1 DEF Types, Shapes, Shape, At
  <2>. QED BY <2>1, <2>2 DEF At, Expired
<1>4. ASSUME pass'[p].alone
      PROVE  /\ pass'[p].pc # "idle" => Active' = {p}
             /\ \A g \in Gpu : pass'[p].base[g] \in {"expired", baseline'[g]}
  <2>1. CASE r.pc = "idle"
    BY <2>1, <1>1 DEF Expired
  <2>2. CASE r.pc # "idle"
    <3>1. pass[p].alone
      BY <1>1, <1>4, <2>2
    <3>2. Active = {p} /\ \A g \in Gpu : pass[p].base[g] \in {"expired", baseline[g]}
      BY <3>1 DEF Missing, Alone
    <3>3. Active' = {p}
      BY <1>1, <2>2, <3>2 DEF Active, At
    <3>4. \A g \in Gpu : r.base[g] \in {"expired", baseline'[g]}
      BY <3>2 DEF Expired
    <3>. QED BY <1>1, <3>3, <3>4
  <2>. QED BY <2>1, <2>2
<1>5. Alone'
  BY <1>3, <1>4 DEF Alone, At
<1>6. ASSUME NEW q \in Pass, pass'[q].pc = "close", pass'[q].alone
      PROVE  Resets(pass[q])'
  <2>1. q = p
    BY <1>3, <1>6
  <2>. QED BY <2>1, <1>1, <1>6
<1>. QED BY <1>1, <1>5, <1>6 DEF At

\* A step of one pass that takes back no word, and writes only what has been
\* told, leaves every GPU that is marked told.
LEMMA MarksKept ==
    ASSUME Types, Missing, NEW p \in Pass, NEW r \in PassState, ~At(p, "idle"), Step(p, r),
           r.alone = pass[p].alone \/ r.pc = "idle",
           \/ r.base = Expired
           \/ baseline' = baseline /\ (r.base = pass[p].base \/ r.base = baseline),
           r.pc = "close" /\ pass[p].alone => Resets(r)',
           r.pc = "idle" => r.base = Expired,
           \A g \in Gpu : Told(g) => Told(g)',
           \A g \in r.mark : Told(g)' \/ (r.pc = "fire" /\ r.at = g),
           \A g \in Gpu : baseline'[g] = "missing" => baseline[g] = "missing" \/ Told(g)'
    PROVE  Missing'
<1>1. /\ Alone'
      /\ \A q \in Pass : (At(q, "close") /\ pass[q].alone => Resets(pass[q]))'
      /\ pass'[p] = r /\ \A q \in Pass \ {p} : pass'[q] = pass[q]
  BY AloneKept
<1>2. MissingTold'
  BY DEF Missing, MissingTold, Told
<1>3. ASSUME NEW q \in Pass, NEW g \in pass'[q].mark
      PROVE  Told(g)' \/ (pass'[q].pc = "fire" /\ pass'[q].at = g)
  <2>1. CASE q = p
    BY <1>1, <2>1
  <2>2. CASE q # p
    <3>1. pass'[q] = pass[q] /\ g \in Gpu
      BY <1>1, <2>2 DEF Types, TypeOK, PassState
    <3>. QED BY <3>1 DEF Missing, At
  <2>. QED BY <2>1, <2>2
<1>. QED BY <1>1, <1>2, <1>3 DEF Missing, At

\* Events that stay open and GPUs that stay excused have been told still.
LEMMA ToldKept ==
    ASSUME NEW g,
           \A e \in Event : e[1] = g /\ event[e].open => event'[e].open,
           g \in excused => g \in excused'
    PROVE  Told(g) => Told(g)'
BY DEF Told, OpenOf

LEMMA InitMissing == Init => Missing
<1> SUFFICES ASSUME Init PROVE Missing
  OBVIOUS
<1>1. \A p \in Pass : pass[p].pc = "idle" /\ pass[p].mark = {} /\ pass[p].base = Expired
  BY RestTypes DEF Init
<1>2. MissingTold
  BY DEF Init, MissingTold
<1>3. Alone
  BY <1>1 DEF Alone, At, Expired
<1>. QED BY <1>1, <1>2, <1>3 DEF Missing, At

LEMMA NextMissing == Types /\ Missing /\ [Next]_vars => Missing'
<1> SUFFICES ASSUME Types, Missing, [Next]_vars PROVE Missing'
  OBVIOUS
<1> USE DEF environment, store, alerts, vars
<1>0. /\ event \in [Event -> EventRow] /\ pass \in [Pass -> PassState] /\ None \notin Pass
      /\ \A p \in Pass : pass[p] \in PassState /\ Shape(pass[p])
      /\ baseline \in [Gpu -> {"unknown", "seen", "missing"}]
  BY SourceAssumption DEF Types, TypeOK, EventRow, Shapes
<1>m. \A g \in Gpu : baseline[g] = "missing" => Told(g)
  BY DEF Missing, MissingTold, Told
<1>g. ASSUME NEW rows \in [Event -> EventRow], NEW p, LetsGo(p, rows), NEW e \in Event,
             rows[e].open
      PROVE  event'[e].open
  BY <1>g, LetsGoKeeps
<1>s. ASSUME event' = event, excused' = excused
      PROVE  \A g : Told(g) = Told(g)'
  BY <1>s DEF Told, OpenOf
<1>t. ASSUME pass' = pass, baseline' = baseline, \A g \in Gpu : Told(g) => Told(g)'
      PROVE  Missing'
  <2>1. MissingTold'
    BY <1>t, <1>m DEF MissingTold, Told
  <2>2. \A p \in Pass : pass[p].mark \subseteq Gpu
    BY <1>0 DEF PassState
  <2>. QED BY <1>t, <2>1, <2>2 DEF Missing, Alone, Active, At, Resets
<1>1. CASE UNCHANGED vars
  BY <1>1, <1>s, <1>t
<1>2. ASSUME \/ \E g \in Gpu : Hardware(g)
             \/ \E k \in Line : Logs(k)
             \/ DropsOut
      PROVE  Missing'
  BY <1>2, <1>s, <1>t DEF Hardware, Logs, DropsOut
<1>3. ASSUME NEW e \in Event, Resolve(e) PROVE Missing'
  <2> DEFINE rows == [event EXCEPT ![e].open = FALSE]
  <2>1. rows \in [Event -> EventRow] /\ \A f \in Event \ {e} : rows[f].open = event[f].open
    BY <1>0 DEF EventRow
  <2>2. LetsGo(None, rows) /\ UNCHANGED <<store, pass>> /\ excused' = excused \cup {e[1]}
    BY <1>3 DEF Resolve
  <2> HIDE DEF rows
  <2>3. ASSUME NEW g \in Gpu PROVE Told(g) => Told(g)'
    <3>1. CASE g = e[1]
      BY <3>1, <2>2 DEF Told
    <3>2. CASE g # e[1]
      BY <3>2, <2>1, <2>2, <1>g, ToldKept
    <3>. QED BY <3>1, <3>2
  <2>. QED BY <2>2, <2>3, <1>t
<1>4. ASSUME NEW p \in Pass, Collect(p) \/ CollectFails(p) PROVE Missing'
  <2>1. PICK r \in PassState :
          Begins(p, r) /\ r.pc \in {"store", "hashes"} /\ r.mark = {} /\ r.base = Expired
    <3>1. CASE Collect(p)
      <4> PICK lines :
            /\ lines = Parsed(log)
            /\ Begins(p, [Rest EXCEPT !.gpus = present, !.lines = lines,
                                      !.pc = IF lines = {} THEN "store" ELSE "hashes"])
        BY <3>1 DEF Collect
      <4> DEFINE r == [Rest EXCEPT !.gpus = present, !.lines = lines,
                                   !.pc = IF lines = {} THEN "store" ELSE "hashes"]
      <4>1. lines \subseteq Line /\ present \subseteq Gpu
        BY ParsedLines DEF Types, TypeOK
      <4>2. r \in PassState
        BY <4>1, RestTypes DEF PassState, Pc
      <4>. QED BY <4>2 DEF Rest
    <3>2. CASE CollectFails(p)
      <4> DEFINE r == [Rest EXCEPT !.pc = "store"]
      <4>1. r \in PassState
        BY RestTypes DEF PassState, Pc
      <4>. QED BY <3>2, <4>1 DEF Rest, CollectFails
    <3>. QED BY <1>4, <3>1, <3>2
  <2> DEFINE s == [r EXCEPT !.alone = (Active = {})]
  <2>2. /\ s.pc \in {"store", "hashes"} /\ s.mark = {} /\ s.base = Expired
        /\ s.alone = (Active = {})
    BY <2>1 DEF PassState
  <2>3. /\ pass'[p] = s /\ At(p, "idle")
        /\ \A q \in Pass \ {p} : pass'[q] = [pass[q] EXCEPT !.alone = At(q, "idle")]
        /\ UNCHANGED <<environment, store, alerts>>
    BY <2>1 DEF Begins
  <2> HIDE DEF s
  <2>4. ASSUME NEW q \in Pass \ {p}
        PROVE  /\ pass'[q].pc = pass[q].pc /\ pass'[q].mark = pass[q].mark
               /\ pass'[q].at = pass[q].at /\ pass'[q].base = pass[q].base
               /\ pass'[q].alone = At(q, "idle")
    <3>1. pass[q] \in PassState
      BY <1>0
    <3>2. pass'[q] = [pass[q] EXCEPT !.alone = At(q, "idle")]
      BY <2>3
    <3>. QED BY <3>1, <3>2 DEF PassState
  <2>5. ASSUME NEW q \in Pass, pass'[q].alone
        PROVE  /\ ~At(q, "idle")' => Active' = {q}
               /\ \A g \in Gpu : pass'[q].base[g] \in {"expired", baseline'[g]}
               /\ ~At(q, "close")'
    <3>1. CASE q = p
      <4>1. Active = {}
        BY <2>2, <2>3, <2>5, <3>1
      <4>2. Active' = {p}
        BY <4>1, <2>2, <2>3, <2>4 DEF Active, At
      <4>. QED BY <3>1, <4>2, <2>2, <2>3 DEF Expired, At
    <3>2. CASE q # p
      <4>1. At(q, "idle") /\ pass'[q].pc = "idle" /\ pass'[q].base = pass[q].base
        BY <2>4, <2>5, <3>2 DEF At
      <4>2. pass[q].base = Expired
        BY <4>1, <1>0 DEF Shape, At
      <4>. QED BY <4>1, <4>2 DEF Expired, At
    <3>. QED BY <3>1, <3>2
  <2>6. Alone'
    BY <2>5 DEF Alone, At
  <2>7. ASSUME NEW q \in Pass, NEW g \in pass'[q].mark
        PROVE  Told(g)' \/ (pass'[q].pc = "fire" /\ pass'[q].at = g)
    <3>1. q # p
      BY <2>2, <2>3, <2>7
    <3>. QED BY <3>1, <2>3, <2>4, <1>s DEF Missing, At
  <2>8. MissingTold'
    BY <2>3, <1>s, <1>m DEF MissingTold, Told
  <2>. QED BY <2>5, <2>6, <2>7, <2>8 DEF Missing, At
\* What the steps of one pass have in common.
<1>p. ASSUME NEW p \in Pass, NEW r \in PassState, ~At(p, "idle"), Step(p, r),
             r.alone = pass[p].alone, r.pc \notin {"idle", "close"},
             r.base \in {Expired, pass[p].base, baseline}, r.mark \in {pass[p].mark, {}},
             baseline' = baseline, ~At(p, "fire"), \A g \in Gpu : Told(g) => Told(g)'
      PROVE  Missing'
  <2>1. \A g \in r.mark : Told(g)'
    BY <1>p, <1>0 DEF Missing, PassState
  <2>. QED BY <1>p, <2>1, MarksKept
<1>5. ASSUME NEW p \in Pass, ReadHashes(p) PROVE Missing'
  <2> DEFINE fresh == pass[p].lines \ KnownAmong(pass[p].lines)
             r == [pass[p] EXCEPT !.pc = IF fresh = {} THEN "store" ELSE "insert",
                                  !.lines = fresh]
  <2>1. fresh \subseteq Line
    BY <1>0, SMTT(40) DEF PassState
  <2> HIDE DEF fresh
  <2>2. /\ r \in PassState /\ r.pc \in {"store", "insert"} /\ r.mark = pass[p].mark
        /\ r.base = pass[p].base /\ r.alone = pass[p].alone
    <3>1. pass[p] \in PassState
      BY <1>0
    <3>2. r \in PassState
      BY <2>1, <3>1 DEF PassState, Pc
    <3>. QED BY <3>1, <3>2 DEF PassState
  <2>3. Step(p, r) /\ UNCHANGED <<store, alerts>> /\ pass[p].pc = "hashes"
    BY <1>5 DEF ReadHashes, At, fresh
  <2> HIDE DEF r
  <2>. QED BY <2>2, <2>3, <1>p, <1>s DEF At
<1>6. ASSUME NEW p \in Pass, InsertRows(p) PROVE Missing'
  <2> DEFINE r == [pass[p] EXCEPT !.pc = "store", !.lines = {}]
  <2>1. /\ r \in PassState /\ r.pc = "store" /\ r.mark = pass[p].mark
        /\ r.base = pass[p].base /\ r.alone = pass[p].alone
    <3>1. pass[p] \in PassState
      BY <1>0
    <3>2. r \in PassState
      BY <3>1 DEF PassState, Pc
    <3>. QED BY <3>1, <3>2 DEF PassState
  <2>2. Step(p, r) /\ baseline' = baseline /\ UNCHANGED alerts /\ pass[p].pc = "insert"
    BY <1>6 DEF InsertRows, At
  <2> HIDE DEF r
  <2>. QED BY <2>1, <2>2, <1>p, <1>s DEF At
<1>7. ASSUME NEW p \in Pass, Store(p) PROVE Missing'
  <2>1. PICK pc \in {"detect", "baseline"} : Goto(p, pc)
    BY <1>7 DEF Store
  <2> DEFINE r == [pass[p] EXCEPT !.pc = pc]
  <2>2. /\ r \in PassState /\ r.pc = pc /\ r.mark = pass[p].mark
        /\ r.base = pass[p].base /\ r.alone = pass[p].alone
    <3>1. pass[p] \in PassState
      BY <1>0
    <3>2. r \in PassState
      BY <3>1 DEF PassState, Pc
    <3>. QED BY <3>1, <3>2 DEF PassState
  <2>3. Step(p, r) /\ baseline' = baseline /\ UNCHANGED alerts /\ pass[p].pc = "store"
    BY <1>7, <2>1 DEF Store, At, Goto
  <2> HIDE DEF r
  <2>. QED BY <2>2, <2>3, <1>p, <1>s DEF At
<1>8. ASSUME NEW p \in Pass, ReadBaseline(p) PROVE Missing'
  <2> DEFINE r == [pass[p] EXCEPT !.pc = "update", !.base = baseline]
  <2>0. baseline \in [Gpu -> {"unknown", "seen", "missing", "expired"}]
    BY <1>0
  <2>1. /\ r \in PassState /\ r.pc = "update" /\ r.mark = pass[p].mark
        /\ r.base = baseline /\ r.alone = pass[p].alone
    <3>1. pass[p] \in PassState
      BY <1>0
    <3>2. r \in PassState
      BY <3>1, <2>0 DEF PassState, Pc
    <3>. QED BY <3>1, <3>2 DEF PassState
  <2>2. Step(p, r) /\ UNCHANGED <<store, alerts>> /\ pass[p].pc = "baseline"
    BY <1>8 DEF ReadBaseline, At
  <2> HIDE DEF r
  <2>. QED BY <2>1, <2>2, <1>p, <1>s DEF At
<1>9. ASSUME NEW p \in Pass, UpdateBaseline(p) PROVE Missing'
  <2> DEFINE r == [pass[p] EXCEPT !.pc = "detect", !.gpus = None, !.base = Expired]
  <2>0. Expired \in [Gpu -> {"unknown", "seen", "missing", "expired"}]
    BY DEF Expired
  <2>1. /\ r \in PassState /\ r.pc = "detect" /\ r.mark = pass[p].mark
        /\ r.base = Expired /\ r.alone = pass[p].alone
    <3>1. pass[p] \in PassState
      BY <1>0
    <3>2. r \in PassState
      BY <3>1, <2>0 DEF PassState, Pc
    <3>. QED BY <3>1, <3>2 DEF PassState
  <2>2. Step(p, r) /\ UNCHANGED alerts /\ pass[p].pc = "update"
    BY <1>9 DEF UpdateBaseline, At
  <2>3. \A g \in Gpu : baseline'[g] = "missing" => baseline[g] = "missing"
    BY <1>9 DEF UpdateBaseline
  <2>4. r.mark = {}
    BY <1>0, <2>1, <2>2 DEF Shape
  <2> HIDE DEF r
  <2>. QED BY <2>1, <2>2, <2>3, <2>4, <1>s, MarksKept DEF At
<1>10. ASSUME NEW p \in Pass, Detect(p) \/ LoadBaseline(p) PROVE Missing'
  <2> DEFINE a == [pass[p] EXCEPT !.pc = "load", !.gpus = latest]
             known == {g \in Gpu : baseline[g] # "unknown"}
             b == [pass[p] EXCEPT !.pc = "look", !.base = baseline, !.todo = known]
  <2>1. /\ a \in PassState /\ a.pc = "load" /\ a.mark = pass[p].mark
        /\ a.base = pass[p].base /\ a.alone = pass[p].alone
    <3>1. latest \in (SUBSET Gpu) \cup {None}
      BY DEF Types, TypeOK
    <3>2. pass[p] \in PassState
      BY <1>0
    <3>3. a \in PassState
      BY <3>2, <3>1 DEF PassState, Pc
    <3>. QED BY <3>2, <3>3 DEF PassState
  <2>2. /\ b \in PassState /\ b.pc = "look" /\ b.mark = pass[p].mark
        /\ b.base = baseline /\ b.alone = pass[p].alone
    <3>1. baseline \in [Gpu -> {"unknown", "seen", "missing", "expired"}]
            /\ known \subseteq Gpu
      BY <1>0
    <3> HIDE DEF known
    <3>2. pass[p] \in PassState
      BY <1>0
    <3>3. b \in PassState
      BY <3>2, <3>1 DEF PassState, Pc
    <3>. QED BY <3>2, <3>3 DEF PassState
  <2>3. /\ Step(p, a) \/ Step(p, b) \/ Step(p, Rest)
        /\ UNCHANGED <<store, alerts>> /\ pass[p].pc \in {"detect", "load"}
    BY <1>10 DEF Detect, LoadBaseline, At
  <2> HIDE DEF a, b
  <2>4. CASE Step(p, Rest)
    BY <2>3, <2>4, <1>s, RestTypes, MarksKept DEF At
  <2>. QED BY <2>1, <2>2, <2>3, <2>4, <1>p, <1>s DEF At
<1>w. ASSUME NEW p \in Pass, baseline' = Written(p), NEW g \in Gpu, baseline'[g] = "missing"
      PROVE  g \notin pass[p].clear /\ (g \in pass[p].mark \/ baseline[g] = "missing")
  <2>1. baseline'[g] = CASE g \in pass[p].clear -> "seen"
                         [] g \in pass[p].mark -> "missing"
                         [] OTHER -> baseline[g]
    BY <1>w DEF Written
  <2>2. pass[p].clear \cap pass[p].mark = {}
    BY <1>0 DEF Shape
  <2>. QED BY <2>1, <2>2, <1>w
<1>11. ASSUME NEW p \in Pass, GpusDone(p) PROVE Missing'
  <2>1. Step(p, Rest) /\ UNCHANGED alerts /\ pass[p].pc = "look" /\ baseline' = Written(p)
    BY <1>11 DEF GpusDone, Commit, At
  <2>2. \A g \in Gpu : baseline'[g] = "missing" => baseline[g] = "missing" \/ Told(g)'
    BY <2>1, <1>w, <1>s DEF Missing, At
  <2>. QED BY <2>1, <2>2, <1>s, RestTypes, MarksKept DEF At
<1>12. ASSUME NEW p \in Pass, NEW g \in Gpu, LooksAtGpu(p, g) PROVE Missing'
  <2> DEFINE m == IF Lost(p, g) THEN pass[p].mark \cup {g} ELSE pass[p].mark
             c == IF Back(p, g) THEN pass[p].clear \cup {g} ELSE pass[p].clear
             r == [pass[p] EXCEPT !.clear = c, !.mark = m]
             fires == Lost(p, g) /\ OpenOf(g) = {}
  <2>1. m \subseteq Gpu /\ c \subseteq Gpu /\ m \cap pass[p].gpus = {} /\ c \subseteq pass[p].gpus
    BY <1>0 DEF PassState, Lost, Back, Shape
  <2>2. /\ At(p, "look") /\ UNCHANGED <<store, alerts>>
        /\ \/ \E e \in ToClose(p, g) : Step(p, [r EXCEPT !.pc = "close", !.ev = e])
           \/ fires /\ Step(p, [r EXCEPT !.pc = "fire", !.at = g])
           \/ ~fires /\ Step(p, Onward(r, g))
    BY <1>12 DEF LooksAtGpu
  <2>3. ASSUME NEW h \in m PROVE Told(h)' \/ (h = g /\ fires)
    <3>1. CASE h \in pass[p].mark
      BY <2>2, <3>1, <1>s DEF Missing, At
    <3>2. CASE h = g /\ Lost(p, g)
      BY <2>2, <3>2, <1>s DEF Told
    <3>. QED BY <3>1, <3>2
  <2>4. ASSUME g \in pass[p].gpus, pass[p].alone
        PROVE  g \in c \/ (g \notin m /\ baseline[g] # "missing")
    <3>1. pass[p].base[g] \in {"expired", baseline[g]}
      BY <2>4 DEF Missing, Alone
    <3>2. CASE Loaded(p, g) = "missing"
      BY <2>4, <3>2 DEF Back
    <3>3. CASE Loaded(p, g) # "missing"
      BY <2>1, <2>4, <3>1, <3>3 DEF Loaded
    <3>. QED BY <3>2, <3>3
  <2> HIDE DEF m, c, fires
  <2>5. /\ r \in PassState /\ r.mark = m /\ r.clear = c /\ r.gpus = pass[p].gpus
        /\ r.base = pass[p].base /\ r.alone = pass[p].alone
    BY <1>0, <2>1, ZenonT(60) DEF PassState
  <2> HIDE DEF r
  <2>6. ASSUME NEW e \in ToClose(p, g), Step(p, [r EXCEPT !.pc = "close", !.ev = e])
        PROVE  Missing'
    <3>0. PICK s : s = [r EXCEPT !.pc = "close", !.ev = e]
      OBVIOUS
    <3>1. e \in Event /\ e[1] = g /\ g \in pass[p].gpus
      BY DEF ToClose, OpenOf
    <3>2. /\ s \in PassState /\ s.pc = "close" /\ s.ev = e /\ s.mark = m /\ s.clear = c
          /\ s.base = pass[p].base /\ s.alone = pass[p].alone
      <4>1. s \in PassState
        BY <2>5, <3>0, <3>1 DEF PassState, Pc
      <4>. QED BY <2>5, <3>0, <4>1 DEF PassState
    <3>3. Step(p, s)
      BY <2>6, <3>0
    <3>4. pass[p].alone => Resets(s)'
      <4>1. baseline' = baseline
        BY <2>2
      <4>. QED BY <2>4, <3>1, <3>2, <4>1 DEF Resets
    <3>5. ~fires
      BY <3>1 DEF fires, Lost
    <3>. QED BY <2>2, <2>3, <3>2, <3>3, <3>4, <3>5, <1>s, MarksKept DEF At
  <2>7. ASSUME fires, Step(p, [r EXCEPT !.pc = "fire", !.at = g]) PROVE Missing'
    <3> DEFINE s == [r EXCEPT !.pc = "fire", !.at = g]
    <3>1. /\ s \in PassState /\ s.pc = "fire" /\ s.at = g /\ s.mark = m
          /\ s.base = pass[p].base /\ s.alone = pass[p].alone
      BY <2>5 DEF PassState, Pc
    <3>2. Step(p, s)
      BY <2>7
    <3> HIDE DEF s
    <3>. QED BY <2>2, <2>3, <3>1, <3>2, <1>s, MarksKept DEF At
  <2>8. ASSUME ~fires, Step(p, Onward(r, g)) PROVE Missing'
    <3>1. /\ Onward(r, g) \in PassState /\ Onward(r, g).pc = "look"
          /\ Onward(r, g).mark = m
          /\ Onward(r, g).base = pass[p].base /\ Onward(r, g).alone = pass[p].alone
      BY <2>1, <2>5, OnwardTypes
    <3>. QED BY <2>2, <2>3, <2>8, <3>1, <1>s, MarksKept DEF At
  <2>. QED BY <2>2, <2>6, <2>7, <2>8
<1>13. ASSUME NEW p \in Pass, CloseEvent(p) PROVE Missing'
  <2> DEFINE e == pass[p].ev
             r == [Committed(p) EXCEPT !.pc = "reread"]
  <2>0. At(p, "close") /\ e \in Event /\ e[1] \in Gpu
    BY <1>0, <1>13 DEF CloseEvent, At, Shape, Event
  <2>1. /\ r \in PassState /\ r.pc = "reread" /\ r.mark = {} /\ r.base = Expired
        /\ r.alone = pass[p].alone
    <3>1. Committed(p) \in PassState /\ Committed(p).mark = {}
            /\ Committed(p).base = Expired /\ Committed(p).alone = pass[p].alone
      BY <1>0, CommittedTypes
    <3>. QED BY <3>1 DEF PassState, Pc
  <2>2. Step(p, r) /\ baseline' = Written(p)
    BY <1>13 DEF CloseEvent, Commit
  <2>3. /\ \A f \in Event : f # e /\ event[f].open => event'[f].open
        /\ excused' = IF pass[p].alone THEN excused ELSE excused \cup {e[1]}
    BY <1>0, <1>13 DEF CloseEvent, EventRow
  <2> HIDE DEF r
  <2>4. ASSUME NEW g \in Gpu, g # e[1] \/ ~pass[p].alone PROVE Told(g) => Told(g)'
    <3>1. CASE g = e[1]
      BY <2>3, <2>4, <3>1 DEF Told
    <3>2. CASE g # e[1]
      BY <2>3, <3>2, ToldKept
    <3>. QED BY <3>1, <3>2
  <2>5. ASSUME NEW g \in Gpu, baseline'[g] = "missing" PROVE Told(g)'
    <3>1. g \notin pass[p].clear /\ (g \in pass[p].mark \/ baseline[g] = "missing")
      BY <2>2, <2>5, <1>w
    <3>2. Told(g)
      BY <3>1, <2>0, <1>m DEF Missing, At
    <3>3. CASE g = e[1] /\ pass[p].alone
      BY <3>1, <3>3, <2>0 DEF Missing, Resets
    <3>. QED BY <2>4, <3>2, <3>3
  <2>6. /\ Alone' /\ pass'[p] = r /\ \A q \in Pass \ {p} : pass'[q] = pass[q]
        /\ \A q \in Pass : (At(q, "close") /\ pass[q].alone => Resets(pass[q]))'
    BY <2>0, <2>1, <2>2, AloneKept DEF At
  <2>7. ASSUME NEW q \in Pass, NEW g \in pass'[q].mark
        PROVE  Told(g)' \/ (pass'[q].pc = "fire" /\ pass'[q].at = g)
    <3>1. q # p /\ pass'[q] = pass[q]
      BY <2>1, <2>6, <2>7
    <3>2. g \in Gpu /\ ~At(q, "idle")
      BY <3>1, <2>7, <1>0 DEF PassState, Shape, At
    <3>3. ~pass[p].alone
      BY <3>1, <3>2, <2>0 DEF Missing, Alone, Active, At
    <3>. QED BY <2>4, <3>1, <3>2, <3>3, <2>7 DEF Missing, At
  <2>8. MissingTold'
    BY <2>5 DEF MissingTold, Told
  <2>. QED BY <2>6, <2>7, <2>8 DEF Missing, At
<1>14. ASSUME NEW p \in Pass, SendRecovery(p) \/ NoRecovery(p) PROVE Missing'
  <2> DEFINE r == Onward(pass[p], pass[p].ev[1])
  <2>1. /\ r \in PassState /\ r.pc = "look" /\ r.mark = pass[p].mark
        /\ r.base = pass[p].base /\ r.alone = pass[p].alone
    BY <1>0, OnwardTypes DEF Shape
  <2>2. /\ Step(p, r) /\ LetsGo(p, event) /\ UNCHANGED <<store, excused>>
        /\ pass[p].pc = "reread"
    BY <1>14 DEF SendRecovery, NoRecovery, At
  <2>3. \A g \in Gpu : Told(g) => Told(g)'
    BY <2>2, <1>0, <1>g, ToldKept
  <2> HIDE DEF r
  <2>. QED BY <2>1, <2>2, <2>3, <1>p DEF At
<1>15. ASSUME NEW p \in Pass, Fire(p) PROVE Missing'
  <2> PICK g \in Gpu : g = pass[p].at
    BY <1>0, <1>15 DEF Fire, At, Shape
  <2>0. At(p, "fire")
    BY <1>15 DEF Fire
  <2>1. PICK e \in Event :
          /\ NewRow(g, e)
          /\ event' = [event EXCEPT ![e] = [Closed EXCEPT !.open = TRUE]]
          /\ Step(p, [Committed(p) EXCEPT !.pc = "send", !.ev = e])
          /\ baseline' = Written(p) /\ excused' = excused \ {g}
    BY <1>15 DEF Fire, Commit
  <2> DEFINE r == [Committed(p) EXCEPT !.pc = "send", !.ev = e]
  <2>2. /\ r \in PassState /\ r.pc = "send" /\ r.mark = {} /\ r.base = Expired
        /\ r.alone = pass[p].alone
    <3>1. Committed(p) \in PassState /\ Committed(p).mark = {}
            /\ Committed(p).base = Expired /\ Committed(p).alone = pass[p].alone
      BY <1>0, CommittedTypes
    <3>. QED BY <3>1 DEF PassState, Pc
  <2>3. /\ e[1] = g /\ event'[e].open
        /\ \A f \in Event : event[f].open => event'[f].open
    BY <2>1, <1>0 DEF NewRow, Closed, EventRow
  <2>4. Step(p, r)
    BY <2>1
  <2> HIDE DEF r
  <2>5. Told(g)'
    BY <2>3 DEF Told, OpenOf
  <2>6. ASSUME NEW h \in Gpu PROVE Told(h) => Told(h)'
    <3>1. CASE h = g
      BY <2>5, <3>1
    <3>2. CASE h # g
      BY <2>1, <2>3, <3>2, ToldKept
    <3>. QED BY <3>1, <3>2
  <2>7. \A h \in Gpu : baseline'[h] = "missing" => baseline[h] = "missing" \/ Told(h)'
    BY <2>1, <2>5, <2>6, <1>w DEF Missing
  <2>. QED BY <2>0, <2>2, <2>4, <2>6, <2>7, MarksKept DEF At
<1>16. ASSUME NEW p \in Pass, Send(p) PROVE Missing'
  <2>0. pass[p].ev \in Event /\ pass[p].pc = "send"
    BY <1>0, <1>16 DEF Send, At, Shape
  <2>1. CASE event' = [event EXCEPT ![pass[p].ev].heard = TRUE] /\ Goto(p, "note")
    <3> DEFINE r == [pass[p] EXCEPT !.pc = "note"]
    <3>1. /\ r \in PassState /\ r.pc = "note" /\ r.mark = pass[p].mark
          /\ r.base = pass[p].base /\ r.alone = pass[p].alone
      <4>1. pass[p] \in PassState
        BY <1>0
      <4>2. r \in PassState
        BY <4>1 DEF PassState, Pc
      <4>. QED BY <4>1, <4>2 DEF PassState
    <3>2. \A e \in Event : event[e].open => event'[e].open
      BY <2>1, <1>0 DEF EventRow
    <3>3. Step(p, r) /\ UNCHANGED <<store, excused>>
      BY <1>16, <2>1 DEF Send, Goto
    <3> HIDE DEF r
    <3>4. \A g \in Gpu : Told(g) => Told(g)'
      BY <3>2, <3>3, ToldKept
    <3>. QED BY <2>0, <3>1, <3>3, <3>4, <1>p DEF At
  <2>2. CASE Step(p, Onward(pass[p], pass[p].at)) /\ LetsGo(p, event)
    <3> DEFINE r == Onward(pass[p], pass[p].at)
    <3>1. /\ r \in PassState /\ r.pc = "look" /\ r.mark = pass[p].mark
          /\ r.base = pass[p].base /\ r.alone = pass[p].alone
      BY <1>0, OnwardTypes DEF Shape
    <3>2. Step(p, r) /\ UNCHANGED <<store, excused>>
      BY <1>16, <2>2 DEF Send
    <3>3. \A g \in Gpu : Told(g) => Told(g)'
      BY <2>2, <3>2, <1>0, <1>g, ToldKept
    <3> HIDE DEF r
    <3>. QED BY <2>0, <3>1, <3>2, <3>3, <1>p DEF At
  <2>. QED BY <1>16, <2>1, <2>2 DEF Send
<1>17. ASSUME NEW p \in Pass, Note(p) PROVE Missing'
  <2> DEFINE rows == [event EXCEPT ![pass[p].ev].notified = TRUE]
             r == Onward(Committed(p), pass[p].at)
  <2>0. pass[p].ev \in Event /\ pass[p].pc = "note" /\ pass[p].mark = {}
    BY <1>0, <1>17 DEF Note, At, Shape
  <2>1. rows \in [Event -> EventRow] /\ \A e \in Event : rows[e].open = event[e].open
    BY <1>0, <2>0 DEF EventRow
  <2>2. /\ LetsGo(p, rows) /\ Step(p, r) /\ baseline' = Written(p) /\ excused' = excused
    BY <1>17 DEF Note, Commit
  <2>3. /\ r \in PassState /\ r.pc = "look" /\ r.mark = {} /\ r.base = Expired
        /\ r.alone = pass[p].alone
    BY <1>0, CommittedTypes, OnwardTypes
  <2> HIDE DEF rows, r
  <2>4. \A g \in Gpu : Told(g) => Told(g)'
    BY <2>1, <2>2, <1>g, ToldKept
  <2>5. \A g \in Gpu : baseline'[g] = "missing" => baseline[g] = "missing"
    BY <2>0, <2>2, <1>w
  <2>. QED BY <2>0, <2>2, <2>3, <2>4, <2>5, MarksKept DEF At
<1>18. ASSUME NEW p \in Pass, RollsBack(p) PROVE Missing'
  <2> DEFINE a == [pass[p] EXCEPT !.pc = "store", !.lines = {}]
             b == [pass[p] EXCEPT !.pc = "detect", !.gpus = None, !.base = Expired]
  <2>1. /\ a \in PassState /\ a.pc = "store" /\ a.mark = pass[p].mark
        /\ a.base = pass[p].base /\ a.alone = pass[p].alone
    <3>1. pass[p] \in PassState
      BY <1>0
    <3>2. a \in PassState
      BY <3>1 DEF PassState, Pc
    <3>. QED BY <3>1, <3>2 DEF PassState
  <2>2. /\ b \in PassState /\ b.pc = "detect" /\ b.mark = pass[p].mark
        /\ b.base = Expired /\ b.alone = pass[p].alone
    <3>1. Expired \in [Gpu -> {"unknown", "seen", "missing", "expired"}]
      BY DEF Expired
    <3>2. pass[p] \in PassState
      BY <1>0
    <3>3. b \in PassState
      BY <3>2, <3>1 DEF PassState, Pc
    <3>. QED BY <3>2, <3>3 DEF PassState
  <2>3. \/ pass[p].pc \in {"hashes", "insert"} /\ Step(p, a)
        \/ pass[p].pc \in {"baseline", "update"} /\ Step(p, b)
        \/ Step(p, Rest)
    BY <1>18 DEF RollsBack
  <2>4. ~At(p, "idle") /\ LetsGo(p, event) /\ UNCHANGED <<store, excused>>
    BY <1>18 DEF RollsBack
  <2>5. \A g \in Gpu : Told(g) => Told(g)'
    BY <2>4, <1>0, <1>g, ToldKept
  <2> HIDE DEF a, b
  <2>6. CASE Step(p, Rest)
    BY <2>4, <2>5, <2>6, RestTypes, MarksKept
  <2>. QED BY <2>1, <2>2, <2>3, <2>4, <2>5, <2>6, <1>p DEF At
<1>19. CASE Crash
  <2>1. /\ \A p \in Pass : pass'[p].pc = "idle" /\ pass'[p].mark = {}
                         /\ pass'[p].base = Expired
        /\ \A e \in Event : event[e].open => event'[e].open
        /\ UNCHANGED <<store, excused>>
    BY <1>19, RestTypes DEF Crash
  <2>2. \A g \in Gpu : Told(g) => Told(g)'
    BY <2>1, ToldKept
  <2>3. MissingTold'
    BY <2>1, <2>2, <1>m DEF MissingTold, Told
  <2>4. Alone'
    BY <2>1 DEF Alone, At, Expired
  <2>. QED BY <2>1, <2>3, <2>4 DEF Missing, At
<1>. QED BY <1>1, <1>2, <1>3, <1>4, <1>5, <1>6, <1>7, <1>8, <1>9, <1>10, <1>11, <1>12,
            <1>13, <1>14, <1>15, <1>16, <1>17, <1>18, <1>19
         DEF Next, Work

\* missing_since and the event of a GPU are never one without the other
\* through rollbacks, crashes and overlapping passes: what is written with it
\* commits with the event or after it (_detect_gpu_missing, _fire, _recover).
THEOREM MissingToldHolds == Spec => []MissingTold
<1>1. Missing => MissingTold
  BY DEF Missing
<1>. QED BY <1>1, InitTypes, NextTypes, InitMissing, NextMissing, PTL DEF Spec
=============================================================================
