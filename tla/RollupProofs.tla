---------------------------- MODULE RollupProofs ----------------------------
(***************************************************************************)
(* Proofs about Rollup for every set of servers and samples and any window *)
(* and retention.  The argument for KeepsCounted: a row is full, that is,  *)
(* all it was made of is still there, as long as retention has not taken   *)
(* samples of its hour (Full), and of an hour it has taken samples of none *)
(* older are left unless the hour is torn (Taken); the hours a job goes    *)
(* through are full, and stay so unless they are thinned (Fit).  The       *)
(* argument for NoHole: all servers that stay enabled have rows for the    *)
(* same hours, those hours have no gap, and the foreground goes on at      *)
(* their end (Even, Whole, Onward).                                        *)
(***************************************************************************)
EXTENDS Rollup, TLAPS

Jobs == {"fore", "back"}

\* No row and no job is about the hour that is not over.
Over ==
    /\ now >= 1
    /\ \A x \in Server \X Hour : row[x] # None => x[2] < now
    /\ \A j \in Jobs : \A h \in job[j].todo : h < now

\* The retained samples an hour of a server was made of.
Held(s, h) == {p \in Place : <<s, h, p>> \in raw}

Full ==
    \A s \in servers, h \in Hour :
        row[<<s, h>>] # None /\ h \notin taken => row[<<s, h>>].from \subseteq Held(s, h)

\* Samples of deleted servers are gone.
Cascade == \A x \in raw : x[1] \in servers

\* Hours with rows of the older version have rows of all servers.
Covering ==
    /\ \A h \in LegacyRows(Server, now) : \A s \in servers : row[<<s, h>>] # None
    /\ \A h \in job["back"].todo : \A s \in servers : row[<<s, h>>] # None

\* Hours retention has taken samples of are past, and nothing older is left
\* unless they are torn.
Taken ==
    /\ \A h \in taken : h < now - 1 /\ ((\E x \in raw : x[2] < h) => h \in torn)
    /\ job["back"].thinned \subseteq taken

Excused(j, h) == j = "back" /\ h \in job[j].thinned
Beyond(j, h)  == j = "back" /\ h \in job[j].thinned \cup torn

\* What a job is about to read is full.
Ahead(j) ==
    \A h \in job[j].todo, s \in job[j].servers \cap servers :
        row[<<s, h>>] # None /\ ~Beyond(j, h) => row[<<s, h>>].from \subseteq Held(s, h)

\* What it has read is still there, is not less than the row, and is of one
\* hour.
Still(j) ==
    At(j, "write") =>
        \A y \in job[j].got : y[1] \in servers /\ ~Excused(j, y[2]) => y \in raw

NotLess(j) ==
    At(j, "write") =>
        \A h \in Hour, s \in job[j].servers :
            Turn(j, h) /\ job[j].had[s] # None /\ ~Beyond(j, h) =>
                PlacesOf(j, s) = {} \/ job[j].had[s].from \subseteq PlacesOf(j, s)

OneHour(j) ==
    At(j, "write") =>
        \A h \in Hour : Turn(j, h) => \A y \in job[j].got : y[2] = h

InHand(j) == Still(j) /\ NotLess(j) /\ OneHour(j)

\* The foreground and retention do not meet.
Apart ==
    \A h \in job["fore"].todo, s \in servers :
        row[<<s, h>>] # None => h \notin taken

Resting == \A j \in Jobs : (At(j, "idle") \/ At(j, "select")) => job[j].todo = {}
Fit == Resting /\ Apart /\ \A j \in Jobs : Ahead(j) /\ InHand(j)

Inv == TypeOK /\ Over /\ Full /\ Cascade /\ Covering /\ Taken /\ Fit

-----------------------------------------------------------------------------
(* Types.                                                                  *)

LEMMA Past == ASSUME TypeOK, Over PROVE Prev \in Hour
  BY HoursAssumption DEF TypeOK, Over, Prev, Hour

LEMMA IdleType == Idle \in Job
  BY HoursAssumption DEF Idle, Job, Hour

LEMMA TypeInit == Init => TypeOK
<1> SUFFICES ASSUME Init PROVE TypeOK
  OBVIOUS
<1>1. Start \in Hour /\ 0 \in 0..MaxChanges
  BY HoursAssumption DEF Hour
<1>2. row \in [Server \X Hour -> Row \cup {None}]
  <2>1. \A x \in Server \X Hour : Legacy(x[1], x[2]) \in Row
    BY DEF Legacy, Row
  <2>2. CASE row = [x \in Server \X Hour |-> None]
    BY <2>2
  <2>3. CASE row = [x \in Server \X Hour |->
                      IF x[2] < Start THEN Legacy(x[1], x[2]) ELSE None]
    BY <2>1, <2>3
  <2> QED
    BY <2>2, <2>3 DEF Init
<1>3. raw \subseteq Sample
  BY DEF Init
<1>4. taken \subseteq Hour
  BY HoursAssumption DEF Init, Hour
<1> QED
  BY <1>1, <1>2, <1>3, <1>4, IdleType DEF Init, TypeOK

LEMMA NewRowType ==
    ASSUME TypeOK, NEW j \in Jobs, NEW s \in Server
    PROVE  NewRow(j, s) \in Row
<1>1. PlacesOf(j, s) \in SUBSET Place
  <2>1. job[j].got \subseteq Server \X Hour \X Place
    BY HoursAssumption DEF TypeOK, Job, Jobs
  <2> QED
    BY <2>1 DEF PlacesOf
<1>2. CASE Keeps(j, s)
  <2>1. job[j].had[s] \in Row
    BY <1>2 DEF TypeOK, Job, Keeps, Jobs
  <2> QED
    BY <1>2, <2>1 DEF NewRow, Row
<1>3. CASE ~Keeps(j, s)
  BY <1>1, <1>3 DEF NewRow, Row
<1> QED
  BY <1>2, <1>3

LEMMA TypeNext == TypeOK /\ Over /\ [Next]_vars => TypeOK'
<1> SUFFICES ASSUME TypeOK, Over, [Next]_vars PROVE TypeOK'
  OBVIOUS
<1> USE HoursAssumption DEF Jobs
<1>1. CASE Tick
  <2>1. now' \in Hour
    BY <1>1 DEF Tick, TypeOK, Hour
  <2> QED
    BY <1>1, <2>1 DEF Tick, TypeOK
<1>2. CASE Restart
  BY <1>2, IdleType DEF Restart, TypeOK
<1>3. ASSUME NEW x \in Sample, Poll(x) PROVE TypeOK'
  BY <1>3 DEF Poll, TypeOK
<1>4. ASSUME NEW gone \in SUBSET Sample, Retention(gone) PROVE TypeOK'
  <2> DEFINE hours == {x[2] : x \in gone}
  <2>1. hours \subseteq Hour
    OBVIOUS
  <2> HIDE DEF hours
  <2>2. job' = IF At("back", "idle") THEN job
               ELSE [job EXCEPT !["back"].thinned = @ \cup hours]
    BY <1>4 DEF Retention, hours
  <2>3. job' \in [Jobs -> Job]
    BY <2>1, <2>2 DEF TypeOK, Job
  <2>4. taken' \subseteq Hour /\ torn' \subseteq taken'
    <3>1. taken' = taken \cup hours /\ torn' = torn \cup TornBy(raw', hours)
      BY <1>4 DEF Retention, hours
    <3> QED
      BY <2>1, <3>1 DEF TypeOK, TornBy
  <2> QED
    BY <1>4, <2>3, <2>4 DEF Retention, TypeOK
<1>4a. ASSUME NEW x \in Sample, PutBack(x) PROVE TypeOK'
  BY <1>4a DEF PutBack, Changes, TornBy, TypeOK
<1>5. ASSUME NEW s \in Server, SetEnabled(s) PROVE TypeOK'
  BY <1>5 DEF SetEnabled, Changes, TypeOK
<1>6. ASSUME NEW s \in Server, DeleteServer(s) PROVE TypeOK'
  BY <1>6 DEF DeleteServer, Changes, TypeOK
<1>7. CASE HourlyAggregate
  <2>1. Prev \in Hour /\ Gap \subseteq Hour
    BY Past DEF Gap
  <2>2. [Idle EXCEPT !.pc = "read", !.servers = enabled, !.todo = Gap, !.bound = Prev] \in Job
    BY <2>1 DEF Idle, Job, TypeOK, Hour
  <2> QED
    BY <1>7, <2>2, IdleType DEF HourlyAggregate, Set, TypeOK
<1>8. CASE StartBackfill
  <2>1. [Idle EXCEPT !.pc = "select", !.servers = job["fore"].servers,
                     !.bound = job["fore"].bound] \in Job
    BY IdleType DEF Idle, Job, TypeOK
  <2> QED
    BY <1>8, <2>1, IdleType DEF StartBackfill, TypeOK
<1>9. CASE SelectHours
  <2>1. LegacyRows(job["back"].servers, job["back"].bound) \cap FullRaw \in SUBSET Hour
    BY DEF LegacyRows
  <2>2. [job["back"] EXCEPT !.pc = "read",
           !.todo = LegacyRows(job["back"].servers, job["back"].bound) \cap FullRaw] \in Job
    BY <2>1 DEF TypeOK, Job
  <2> QED
    BY <1>9, <2>2, IdleType DEF SelectHours, Set, TypeOK
<1>10. ASSUME NEW j \in Jobs, Fails(j) PROVE TypeOK'
  BY <1>10, IdleType DEF Fails, Set, TypeOK
<1>11. ASSUME NEW j \in Jobs, NEW h \in Hour, RollReads(j, h) PROVE TypeOK'
  <2>1. Had(j, h) \in [Server -> Row \cup {None}]
    BY DEF Had, TypeOK
  <2>2. {x \in raw : x[1] \in job[j].servers /\ x[2] = h} \in SUBSET Sample
    BY DEF TypeOK
  <2> DEFINE H == Had(j, h)
             G == {x \in raw : x[1] \in job[j].servers /\ x[2] = h}
  <2> HIDE DEF H, G
  <2>3. [job[j] EXCEPT !.pc = "write", !.had = H, !.got = G] \in Job
    <3>1. /\ job[j] \in Job /\ H \in [Server -> Row \cup {None}] /\ G \in SUBSET Sample
      BY <2>1, <2>2 DEF TypeOK, H, G
    <3> QED
      BY <3>1 DEF Job
  <2>4. job' \in [Jobs -> Job]
    BY <1>11, <2>3 DEF RollReads, Set, TypeOK, H, G
  <2> QED
    BY <1>11, <2>4 DEF RollReads, TypeOK
<1>12. ASSUME NEW j \in Jobs, NEW h \in Hour, RollWrites(j, h) PROVE TypeOK'
  <2>1. row' \in [Server \X Hour -> Row \cup {None}]
    BY <1>12, NewRowType DEF RollWrites, TypeOK
  <2>2. Idle.had \in [Server -> Row \cup {None}]
    BY DEF Idle
  <2>3. job' \in [Jobs -> Job]
    BY <1>12, <2>2, IdleType, ZenonT(60) DEF RollWrites, Set, TypeOK, Job
  <2> QED
    BY <1>12, <2>1, <2>3 DEF RollWrites, TypeOK
<1>13. CASE UNCHANGED vars
  BY <1>13 DEF vars, TypeOK
<1> QED
  BY <1>1, <1>2, <1>3, <1>4, <1>5, <1>6, <1>7, <1>8, <1>9, <1>10, <1>11, <1>12, <1>13,
     <1>4a DEF Next

-----------------------------------------------------------------------------
(* The steps around the rollup.                                            *)

\* A job that goes on in the same hour, or rests, while what it may have
\* marked as thinned only grows.
Same(j) ==
    /\ job'[j].pc = job[j].pc /\ job'[j].todo = job[j].todo
    /\ job'[j].servers = job[j].servers
    /\ job'[j].had = job[j].had /\ job'[j].got = job[j].got
    /\ job[j].thinned \subseteq job'[j].thinned /\ torn \subseteq torn'

LEMMA ReadKept ==
    ASSUME NEW j \in Jobs, Same(j), NotLess(j), OneHour(j)
    PROVE  NotLess(j)' /\ OneHour(j)'
<1>1. \A h \in Hour : Turn(j, h)' <=> Turn(j, h)
  BY DEF Same, Turn
<1>2. \A s : PlacesOf(j, s)' = PlacesOf(j, s)
  BY DEF Same, PlacesOf
<1>3. NotLess(j)'
  BY <1>1, <1>2 DEF Same, NotLess, At, Beyond
<1>4. OneHour(j)'
  BY <1>1 DEF Same, OneHour, At
<1> QED
  BY <1>3, <1>4

LEMMA StillKept ==
    ASSUME NEW j \in Jobs, Same(j), Still(j), servers' \subseteq servers,
           \A y \in raw : y[1] \in servers' => y \in raw'
    PROVE  Still(j)'
  BY DEF Same, Still, At, Excused

LEMMA AheadKept ==
    ASSUME Inv, NEW j \in Jobs, Same(j), servers' \subseteq servers,
           \A s \in servers', h \in Hour :
              row'[<<s, h>>] = row[<<s, h>>] /\ Held(s, h) \subseteq Held(s, h)'
    PROVE  Ahead(j)'
<1>1. job[j].todo \subseteq Hour
  BY DEF Inv, TypeOK, Job, Jobs
<1> QED
  BY <1>1 DEF Same, Ahead, Beyond, Inv, Fit

LEMMA Elements ==
    ASSUME TypeOK
    PROVE  /\ \A x \in raw : x = <<x[1], x[2], x[3]>> /\ x[1] \in Server /\ x[2] \in Hour
                                /\ x[3] \in Place
           /\ \A j \in Jobs : \A y \in job[j].got :
                 y = <<y[1], y[2], y[3]>> /\ y[1] \in Server /\ y[2] \in Hour /\ y[3] \in Place
<1>1. \A x \in Sample : x = <<x[1], x[2], x[3]>> /\ x[1] \in Server /\ x[2] \in Hour
                         /\ x[3] \in Place
  BY HoursAssumption
<1>2. raw \subseteq Sample /\ \A j \in Jobs : job[j].got \subseteq Sample
  BY DEF TypeOK, Job, Jobs
<1> QED
  BY <1>1, <1>2

LEMMA InitInv == Init => Inv
<1> SUFFICES ASSUME Init PROVE Inv
  OBVIOUS
<1>1. TypeOK
  BY TypeInit
<1>2. Over /\ Cascade /\ Fit
  <2>1. \A x \in raw : x[1] \in Server
    BY <1>1, Elements
  <2>2. \A x \in Server \X Hour : row[x] # None => x[2] < Start
    BY DEF Init
  <2>3. now = Start /\ Start \in Nat /\ Start >= 1
    BY HoursAssumption DEF Init
  <2>4. \A j \in Jobs : job[j] = Idle
    BY DEF Init, Jobs
  <2> QED
    BY <2>1, <2>2, <2>3, <2>4
    DEF Init, Over, Cascade, Fit, Resting, Apart, Ahead, InHand, Still, NotLess,
        OneHour, At, Idle, Jobs
<1>3. /\ now = Start /\ Start \in Nat /\ servers = Server /\ \A h \in Hour : h \in Nat
      /\ job["back"].thinned = {}
  BY HoursAssumption DEF Init, Idle, Hour
<1>4. ASSUME raw = {} /\ taken = {} /\ row = [x \in Server \X Hour |-> None]
      PROVE  Full /\ Taken
  BY <1>3, <1>4 DEF Full, Taken
<1>5. ASSUME NEW f \in 0..(Start - 1), taken = 0..(f - 1),
             raw = {x \in Sample : x[2] \in f..(Start - 1)},
             row = [x \in Server \X Hour |->
                                 IF x[2] < Start THEN Legacy(x[1], x[2]) ELSE None]
      PROVE  Full /\ Taken
  <2>1. Full
    <3> SUFFICES ASSUME NEW s \in Server, NEW h \in Hour, row[<<s, h>>] # None, h \notin taken
                 PROVE  row[<<s, h>>].from \subseteq Held(s, h)
      BY <1>3 DEF Full
    <3>1. h < Start /\ row[<<s, h>>] = Legacy(s, h)
      BY <1>5
    <3>2. h \in f..(Start - 1)
      BY <1>3, <1>5, <3>1
    <3> QED
      BY <1>5, <3>1, <3>2 DEF Legacy, Held
  <2>2. Taken
    <3>1. \A h \in taken : h \in Nat /\ h < Start - 1 /\ h < f
      BY <1>3, <1>5
    <3>2. \A x \in raw : x[2] \in Nat /\ f <= x[2]
      BY <1>3, <1>5
    <3> QED
      BY <1>3, <3>1, <3>2 DEF Taken
  <2> QED
    BY <2>1, <2>2
<1>6. Covering
  <2>1. CASE row = [x \in Server \X Hour |-> None]
    BY <2>1 DEF Covering, LegacyRows, Init, Idle
  <2>2. CASE row = [x \in Server \X Hour |->
                      IF x[2] < Start THEN Legacy(x[1], x[2]) ELSE None]
    <3>1. \A s \in Server, h \in Hour : Legacy(s, h) # None
      <4>1. \A s \in Server, h \in Hour : Legacy(s, h) \in Row
        BY DEF Legacy, Row
      <4> QED
        BY <4>1, NoneAssumption
    <3> QED
      BY <2>2, <3>1 DEF Covering, LegacyRows, Init, Idle
  <2> QED
    BY <2>1, <2>2 DEF Init
<1>7. Full /\ Taken
  <2>1. CASE raw = {} /\ taken = {} /\ row = [x \in Server \X Hour |-> None]
    BY <1>4, <2>1
  <2>2. CASE \E f \in 0..(Start - 1) :
                /\ raw = {x \in Sample : x[2] \in f..(Start - 1)}
                /\ row = [x \in Server \X Hour |->
                              IF x[2] < Start THEN Legacy(x[1], x[2]) ELSE None]
                /\ taken = 0..(f - 1)
    <3>1. PICK f \in 0..(Start - 1) :
                /\ raw = {x \in Sample : x[2] \in f..(Start - 1)}
                /\ row = [x \in Server \X Hour |->
                              IF x[2] < Start THEN Legacy(x[1], x[2]) ELSE None]
                /\ taken = 0..(f - 1)
      BY <2>2
    <3> QED
      BY <1>5, <3>1
  <2> QED
    BY <2>1, <2>2 DEF Init
<1> QED
  BY <1>1, <1>2, <1>6, <1>7 DEF Inv

\* The clock.
LEMMA TickInv == ASSUME Inv, Tick, TypeOK' PROVE Inv'
<1>1. now \in Nat /\ now' = now + 1 /\ \A h \in Hour : h \in Nat
  BY HoursAssumption DEF Inv, TypeOK, Tick, Hour
<1>2. UNCHANGED <<servers, raw, row, job, taken, torn>>
  BY DEF Tick
<1>3. Over'
  <2>1. \A j \in Jobs : job[j].todo \subseteq Hour
    BY DEF Inv, TypeOK, Job, Jobs
  <2> QED
    BY <1>1, <1>2, <2>1 DEF Inv, Over, Jobs
<1>4. Full'
  BY <1>1, <1>2 DEF Inv, Full, Held
<1>5. Covering'
  <2> SUFFICES ASSUME NEW h \in LegacyRows(Server, now)', NEW s \in servers
               PROVE  row[<<s, h>>] # None
    BY <1>2 DEF Covering, Inv
  <2>1. h \in LegacyRows(Server, now)
    <3>1. PICK t \in Server : row[<<t, h>>] # None /\ row[<<t, h>>].kind = "legacy"
      BY <1>2 DEF LegacyRows
    <3>2. h \in Hour /\ <<t, h>>[2] = h /\ <<t, h>> \in Server \X Hour
      BY DEF LegacyRows
    <3>3. h < now
      BY <3>1, <3>2 DEF Inv, Over
    <3> QED
      BY <3>1, <3>2, <3>3 DEF LegacyRows
  <2> QED
    BY <2>1 DEF Inv, Covering
<1>6. Taken'
  BY <1>1, <1>2 DEF Inv, TypeOK, Taken
<1>7. Cascade' /\ Resting' /\ Apart'
  BY <1>2 DEF Inv, Cascade, Fit, Resting, Apart, At
<1>8. ASSUME NEW j \in Jobs PROVE Ahead(j)' /\ InHand(j)'
  <2>1. Same(j) /\ \A s \in servers', h \in Hour : Held(s, h) \subseteq Held(s, h)'
    BY <1>2 DEF Same, Held
  <2> QED
    BY <1>2, <2>1, AheadKept, ReadKept, StillKept DEF Inv, Fit, InHand
<1> QED
  BY <1>3, <1>4, <1>5, <1>6, <1>7, <1>8 DEF Inv, Fit

\* A poll adds a sample of this hour or the one before.
LEMMA PollInv == ASSUME Inv, NEW x \in Sample, Poll(x), TypeOK' PROVE Inv'
<1>1. /\ now \in Nat /\ \A h \in Hour : h \in Nat
      /\ x[1] \in servers /\ x[2] \in {now, now - 1} /\ raw' = raw \cup {x}
  BY HoursAssumption DEF Inv, TypeOK, Poll, Hour, Prev
<1>2. UNCHANGED <<now, servers, row, job, taken, torn>>
  BY DEF Poll
<1>3. \A s \in servers, h \in Hour : Held(s, h) \subseteq Held(s, h)'
  BY <1>1 DEF Held
<1>4. Full'
  BY <1>1, <1>2, <1>3 DEF Inv, Full
<1>5. Taken'
  <2>1. taken \subseteq Hour
    BY DEF Inv, TypeOK
  <2> QED
    BY <1>1, <1>2, <2>1 DEF Inv, Taken
<1>6. Cascade' /\ Over' /\ Covering' /\ Resting' /\ Apart'
  BY <1>1, <1>2 DEF Inv, Cascade, Over, Covering, LegacyRows, Fit, Resting, Apart, At
<1>7. ASSUME NEW j \in Jobs PROVE Ahead(j)' /\ InHand(j)'
  <2>1. Same(j)
    BY <1>2 DEF Same
  <2> QED
    BY <1>1, <1>2, <1>3, <2>1, AheadKept, ReadKept, StillKept DEF Inv, Fit, InHand
<1> QED
  BY <1>4, <1>5, <1>6, <1>7 DEF Inv, Fit

\* So does a restore, of an hour before; samples may be missing after it.
LEMMA PutBackInv == ASSUME Inv, NEW x \in Sample, PutBack(x), TypeOK' PROVE Inv'
<1>1. /\ x[1] \in servers /\ raw' = raw \cup {x} /\ torn' = torn \cup TornBy({x}, taken)
  BY DEF PutBack
<1>2. UNCHANGED <<now, servers, row, job, taken>>
  BY DEF PutBack
<1>3. \A s \in servers, h \in Hour : Held(s, h) \subseteq Held(s, h)'
  BY <1>1 DEF Held
<1>4. Full'
  BY <1>1, <1>2, <1>3 DEF Inv, Full
<1>5. Taken'
  <2> SUFFICES ASSUME NEW h \in taken, NEW y \in raw', y[2] < h PROVE h \in torn'
    BY <1>2 DEF Inv, Taken
  <2>1. CASE y \in raw
    BY <1>1, <2>1 DEF Inv, Taken
  <2>2. CASE y = x
    BY <1>1, <2>2 DEF TornBy
  <2> QED
    BY <1>1, <2>1, <2>2
<1>6. Cascade' /\ Over' /\ Covering' /\ Resting' /\ Apart'
  BY <1>1, <1>2 DEF Inv, Cascade, Over, Covering, LegacyRows, Fit, Resting, Apart, At
<1>7. ASSUME NEW j \in Jobs PROVE Ahead(j)' /\ InHand(j)'
  <2>1. Same(j)
    BY <1>1, <1>2 DEF Same
  <2> QED
    BY <1>1, <1>2, <1>3, <2>1, AheadKept, ReadKept, StillKept DEF Inv, Fit, InHand
<1> QED
  BY <1>4, <1>5, <1>6, <1>7 DEF Inv, Fit

\* Retention takes samples of hours that are over for Keep hours.
LEMMA RetentionInv ==
    ASSUME Inv, NEW gone \in SUBSET Sample, Retention(gone), TypeOK'
    PROVE  Inv'
<1> DEFINE hours == {x[2] : x \in gone}
<1>1. /\ now \in Nat /\ Keep \in Nat \ {0, 1} /\ \A h \in Hour : h \in Nat
      /\ \A x \in gone : x[2] \in Hour /\ x[2] + Keep <= now
      /\ raw' = raw \ gone
  BY HoursAssumption, Elements DEF Inv, TypeOK, Retention, Hour
<1>2. taken' = taken \cup hours /\ torn' = torn \cup TornBy(raw', hours)
  BY DEF Retention
<1>3. UNCHANGED <<now, servers, row>>
  BY DEF Retention
<1>4. /\ job'["fore"] = job["fore"] /\ At("fore", "idle") /\ job["fore"].todo = {}
      /\ job'["back"].todo = job["back"].todo /\ job'["back"].servers = job["back"].servers
      /\ job'["back"].pc = job["back"].pc /\ job'["back"].got = job["back"].got
      /\ job'["back"].had = job["back"].had
  BY DEF Retention, Inv, TypeOK, Job, Fit, Resting, Jobs, At
<1>5. /\ \/ At("back", "idle") /\ job' = job
         \/ ~At("back", "idle") /\ job'["back"].thinned = job["back"].thinned \cup hours
      /\ job["back"].thinned \subseteq job'["back"].thinned
  BY DEF Retention, Inv, TypeOK, Job
<1>6. \A h \in hours : h \in Nat /\ h < now - 1
  BY <1>1
<1>7. \A s \in servers, h \in Hour : h \notin hours => Held(s, h)' = Held(s, h)
  <2>1. \A s \in servers, h \in Hour, p \in Place : h \notin hours => <<s, h, p>> \notin gone
    OBVIOUS
  <2> QED
    BY <1>1, <2>1 DEF Held
<1> HIDE DEF hours
<1>8. Full'
  BY <1>2, <1>3, <1>7 DEF Inv, Full
<1>9. Taken'
  <2>1. ASSUME NEW h \in taken', NEW x \in raw', x[2] < h PROVE h \in torn'
    BY <1>1, <1>2, <2>1 DEF Inv, Taken, TornBy
  <2>2. \A h \in taken' : h < now' - 1
    BY <1>2, <1>3, <1>6 DEF Inv, Taken
  <2>3. job'["back"].thinned \subseteq taken'
    BY <1>2, <1>5 DEF Inv, Taken
  <2> QED
    BY <2>1, <2>2, <2>3 DEF Taken
<1>10. Cascade' /\ Over' /\ Covering' /\ Resting' /\ Apart'
  BY <1>1, <1>3, <1>4
  DEF Inv, Cascade, Over, Covering, LegacyRows, Fit, Resting, Apart, At, Jobs
<1>11. Ahead("fore")' /\ InHand("fore")'
  BY <1>4 DEF Ahead, InHand, Still, NotLess, OneHour, At
<1>12. CASE At("back", "idle")
  <2>1. job' = job /\ job["back"].todo = {}
    BY <1>5, <1>12 DEF Inv, Fit, Resting, Jobs
  <2>2. Ahead("back")' /\ InHand("back")'
    BY <1>12, <2>1 DEF Ahead, InHand, Still, NotLess, OneHour, At
  <2> QED
    BY <1>8, <1>9, <1>10, <1>11, <2>2 DEF Inv, Fit, Jobs
<1>13. CASE ~At("back", "idle")
  <2>1. job'["back"].thinned = job["back"].thinned \cup hours
    BY <1>5, <1>13
  <2>2. Ahead("back")'
    <3>1. job["back"].todo \subseteq Hour
      BY DEF Inv, TypeOK, Job
    <3> QED
      BY <1>2, <1>3, <1>4, <1>7, <2>1, <3>1 DEF Inv, Fit, Ahead, Beyond, Jobs
  <2>3. InHand("back")'
    <3>1. Still("back")'
      <4> SUFFICES ASSUME At("back", "write"), NEW y \in job["back"].got, y[1] \in servers,
                          y[2] \notin job["back"].thinned \cup hours
                   PROVE  y \in raw'
        BY <1>3, <1>4, <2>1 DEF Still, Excused, At
      <4>1. y \in raw
        BY DEF Inv, Fit, InHand, Still, Excused, Jobs
      <4>2. y \notin gone
        BY DEF hours
      <4> QED
        BY <1>1, <4>1, <4>2
    <3> QED
      BY <1>2, <1>4, <2>1, <3>1, ReadKept DEF Same, Inv, Fit, InHand, Jobs
  <2> QED
    BY <1>8, <1>9, <1>10, <1>11, <2>2, <2>3 DEF Inv, Fit, Jobs
<1> QED
  BY <1>12, <1>13

\* Neither reads nor writes of jobs: no row changes but those of a server that
\* is deleted.
LEMMA SetEnabledInv == ASSUME Inv, NEW s \in Server, SetEnabled(s), TypeOK' PROVE Inv'
<1>1. UNCHANGED <<now, servers, raw, row, job, taken, torn>>
  BY DEF SetEnabled
<1>2. Over' /\ Full' /\ Cascade' /\ Covering' /\ Taken' /\ Resting' /\ Apart'
  BY <1>1 DEF Inv, Over, Full, Held, Cascade, Covering, LegacyRows, Taken, Fit, Resting, Apart, At
<1>3. ASSUME NEW j \in Jobs PROVE Ahead(j)' /\ InHand(j)'
  <2>1. Same(j) /\ \A t \in servers', h \in Hour : Held(t, h) \subseteq Held(t, h)'
    BY <1>1 DEF Same, Held
  <2> QED
    BY <1>1, <2>1, AheadKept, ReadKept, StillKept DEF Inv, Fit, InHand
<1> QED
  BY <1>2, <1>3 DEF Inv, Fit

LEMMA DeleteServerInv == ASSUME Inv, NEW s \in Server, DeleteServer(s), TypeOK' PROVE Inv'
<1>1. /\ UNCHANGED <<now, job, taken, torn>> /\ servers' = servers \ {s}
      /\ raw' = {x \in raw : x[1] # s} /\ servers \subseteq Server
  BY DEF DeleteServer, Inv, TypeOK
<1>2. /\ \A x \in Server \X Hour : row'[x] = IF x[1] = s THEN None ELSE row[x]
      /\ \A t \in servers', h \in Hour : row'[<<t, h>>] = row[<<t, h>>]
  BY <1>1 DEF DeleteServer
<1>3. \A t \in servers', h \in Hour : Held(t, h)' = Held(t, h)
  BY <1>1 DEF Held
<1>4. Over' /\ Cascade' /\ Resting'
  BY <1>1, <1>2 DEF Inv, Over, Cascade, Fit, Resting, At
<1>5. Full'
  BY <1>1, <1>2, <1>3 DEF Inv, Full
<1>6. Covering'
  <2>1. LegacyRows(Server, now)' \subseteq LegacyRows(Server, now)
    BY <1>1, <1>2 DEF LegacyRows
  <2>2. job["back"].todo \subseteq Hour /\ LegacyRows(Server, now) \subseteq Hour
    BY DEF Inv, TypeOK, Job, LegacyRows
  <2> QED
    BY <1>1, <1>2, <2>1, <2>2 DEF Inv, Covering
<1>7. Taken' /\ Apart'
  <2>1. job["fore"].todo \subseteq Hour
    BY DEF Inv, TypeOK, Job
  <2> QED
    BY <1>1, <1>2, <2>1 DEF Inv, Taken, Fit, Apart
<1>8. ASSUME NEW j \in Jobs PROVE Ahead(j)' /\ InHand(j)'
  <2>1. Same(j)
    BY <1>1 DEF Same
  <2> QED
    BY <1>1, <1>2, <1>3, <2>1, AheadKept, ReadKept, StillKept DEF Inv, Fit, InHand
<1> QED
  BY <1>4, <1>5, <1>6, <1>7, <1>8 DEF Inv, Fit

-----------------------------------------------------------------------------
(* Jobs begin and end.                                                     *)

\* Some jobs are replaced by one that has no hour yet, others stay as they are.
LEMMA JobsRest ==
    ASSUME Inv, UNCHANGED <<now, servers, raw, row, taken, torn>>, TypeOK',
           \A j \in Jobs : \/ Same(j) /\ job'[j].thinned = job[j].thinned
                          \/ /\ job'[j].pc \in {"idle", "select"}
                             /\ job'[j].todo = {} /\ job'[j].thinned = {}
    PROVE  Inv'
<1>1. Over' /\ Full' /\ Cascade' /\ Covering' /\ Taken'
  BY DEF Inv, Over, Full, Held, Cascade, Covering, LegacyRows, Taken, Same, Jobs
<1>2. Resting' /\ Apart'
  BY DEF Inv, Fit, Resting, Apart, At, Same, Jobs
<1>3. ASSUME NEW j \in Jobs, Same(j) PROVE Ahead(j)' /\ InHand(j)'
  <2>1. \A t \in servers', h \in Hour : Held(t, h) \subseteq Held(t, h)'
    BY DEF Held
  <2> QED
    BY <1>3, <2>1, AheadKept, ReadKept, StillKept DEF Inv, Fit, InHand
<1>4. ASSUME NEW j \in Jobs, job'[j].pc \in {"idle", "select"}, job'[j].todo = {}
      PROVE  Ahead(j)' /\ InHand(j)'
  BY <1>4 DEF Ahead, InHand, Still, NotLess, OneHour, At
<1> QED
  BY <1>1, <1>2, <1>3, <1>4 DEF Inv, Fit

LEMMA EndsInv ==
    ASSUME Inv, TypeOK', Restart \/ StartBackfill \/ (\E j \in Jobs : Fails(j))
    PROVE  Inv'
<1>1. /\ Idle.pc = "idle" /\ Idle.todo = {} /\ Idle.thinned = {}
      /\ \A S, b : LET r == [Idle EXCEPT !.pc = "select", !.servers = S, !.bound = b]
                    IN  r.pc = "select" /\ r.todo = {} /\ r.thinned = {}
  BY DEF Idle
<1>2. CASE Restart
  BY <1>1, <1>2, JobsRest DEF Restart, Jobs
<1>3. CASE StartBackfill
  <2>1. \/ job'["back"] = job["back"]
        \/ job'["back"] = [Idle EXCEPT !.pc = "select", !.servers = job["fore"].servers,
                                       !.bound = job["fore"].bound]
    BY <1>3 DEF StartBackfill
  <2>2. job'["fore"] = Idle
    BY <1>3 DEF StartBackfill
  <2> QED
    BY <1>1, <1>3, <2>1, <2>2, JobsRest DEF StartBackfill, Jobs, Same
<1>4. ASSUME NEW j \in Jobs, Fails(j) PROVE Inv'
  <2>1. job'[j] = Idle /\ \A i \in Jobs : i # j => job'[i] = job[i]
    BY <1>4 DEF Fails, Set, Inv, TypeOK, Jobs
  <2> QED
    BY <1>1, <1>4, <2>1, JobsRest DEF Fails, Jobs, Same
<1> QED
  BY <1>2, <1>3, <1>4

\* Of the hours in the gap only the previous one may have rows, and it is full.
LEMMA HourlyAggregateInv == ASSUME Inv, HourlyAggregate, TypeOK' PROVE Inv'
<1>1. /\ now \in Nat /\ Keep \in Nat \ {0, 1} /\ \A h \in Hour : h \in Nat
      /\ enabled \subseteq servers /\ servers \subseteq Server /\ Prev \in Hour /\ Prev < now
  BY HoursAssumption, Past DEF Inv, TypeOK, Hour, Prev
<1>2. UNCHANGED <<now, servers, raw, row, taken, torn>> /\ job'["back"] = job["back"]
  BY DEF HourlyAggregate, Set, Inv, TypeOK
<1>3. CASE enabled = {}
  <2>1. job'["fore"] = Idle
    BY <1>3 DEF HourlyAggregate, Set, Inv, TypeOK
  <2> QED
    BY <1>2, <2>1, JobsRest DEF Idle, Jobs, Same
<1>4. CASE enabled # {}
  <2>1. /\ job'["fore"].pc = "read" /\ job'["fore"].servers = enabled
        /\ job'["fore"].todo = Gap /\ job'["fore"].thinned = {}
    BY <1>4 DEF HourlyAggregate, Set, Inv, TypeOK, Idle
  <2>2. \A h \in Gap : h \in Hour /\ h <= Prev
    BY <1>1 DEF Gap
  <2>3. ASSUME NEW h \in Gap, NEW s \in servers, row[<<s, h>>] # None
        PROVE  h = now - 1
    <3>1. h \in Rolled
      BY <1>1, <2>2, <2>3 DEF Rolled
    <3> QED
      BY <1>1, <2>2, <3>1 DEF Gap, Prev
  <2>4. Over' /\ Full' /\ Cascade' /\ Covering' /\ Taken'
    <3>1. Over'
      BY <1>1, <1>2, <2>1, <2>2 DEF Inv, Over, Jobs
    <3>2. Full' /\ Cascade' /\ Taken'
      BY <1>2 DEF Inv, Full, Held, Cascade, Taken
    <3>3. Covering'
      BY <1>2 DEF Inv, Covering, LegacyRows
    <3> QED
      BY <3>1, <3>2, <3>3
  <2>5. Resting' /\ Apart'
    BY <1>1, <1>2, <2>1, <2>3 DEF Inv, Fit, Resting, Apart, At, Jobs, Taken, Prev
  <2>6. Ahead("fore")' /\ InHand("fore")'
    <3>1. Ahead("fore")'
      <4>1. \A h \in Gap, s \in servers : row[<<s, h>>] # None => h \notin taken
        BY <1>1, <2>3 DEF Inv, Taken
      <4> QED
        BY <1>1, <1>2, <2>1, <2>2, <4>1 DEF Ahead, Inv, Full, Held
    <3> QED
      BY <2>1, <3>1 DEF InHand, Still, NotLess, OneHour, At
  <2>7. Ahead("back")' /\ InHand("back")'
    <3>1. Same("back") /\ \A t \in servers', h \in Hour : Held(t, h) \subseteq Held(t, h)'
      BY <1>2 DEF Same, Held
    <3> QED
      BY <1>2, <3>1, AheadKept, ReadKept, StillKept DEF Inv, Fit, InHand, Jobs
  <2> QED
    BY <2>4, <2>5, <2>6, <2>7 DEF Inv, Fit, Jobs
<1> QED
  BY <1>3, <1>4

\* The worker takes hours after the oldest sample's, which are full.
LEMMA SelectHoursInv == ASSUME Inv, SelectHours, TypeOK' PROVE Inv'
<1> DEFINE b == job["back"]
           T == LegacyRows(b.servers, b.bound) \cap FullRaw
<1>1. UNCHANGED <<now, servers, raw, row, taken, torn>> /\ job'["fore"] = job["fore"]
  BY DEF SelectHours, Set, Inv, TypeOK
<1>2. CASE T = {}
  <2>1. job'["back"] = Idle
    BY <1>2 DEF SelectHours, Set, Inv, TypeOK
  <2> QED
    BY <1>1, <2>1, JobsRest DEF Idle, Jobs, Same
<1>3. CASE T # {}
  <2>1. /\ job'["back"].pc = "read" /\ job'["back"].servers = b.servers
        /\ job'["back"].todo = T /\ job'["back"].thinned = b.thinned
    BY <1>3 DEF SelectHours, Set, Inv, TypeOK, Job
  <2>2. ASSUME NEW h \in T
        PROVE  /\ h \in Hour /\ h < now /\ h \in LegacyRows(Server, now)
               /\ \E x \in raw : x[2] < h
    <3>1. b.servers \subseteq Server
      BY DEF Inv, TypeOK, Job
    <3>2. PICK t \in Server : row[<<t, h>>] # None /\ row[<<t, h>>].kind = "legacy"
      BY <3>1 DEF LegacyRows
    <3>3. h \in Hour /\ <<t, h>> \in Server \X Hour /\ <<t, h>>[2] = h
      BY DEF LegacyRows
    <3>4. h < now
      BY <3>2, <3>3 DEF Inv, Over
    <3> QED
      BY <3>2, <3>3, <3>4 DEF LegacyRows, FullRaw
  <2> HIDE DEF T
  <2>3. Over' /\ Full' /\ Cascade' /\ Covering' /\ Taken'
    <3>1. Over'
      BY <1>1, <2>1, <2>2 DEF Inv, Over, Jobs
    <3>2. Full' /\ Cascade' /\ Taken'
      BY <1>1, <2>1 DEF Inv, Full, Held, Cascade, Taken
    <3>3. LegacyRows(Server, now)' = LegacyRows(Server, now)
      BY <1>1 DEF LegacyRows
    <3>4. Covering'
      BY <1>1, <2>1, <2>2, <3>3 DEF Inv, Covering
    <3> QED
      BY <3>1, <3>2, <3>4
  <2>4. Resting' /\ Apart'
    BY <1>1, <2>1 DEF Inv, Fit, Resting, Apart, At, Jobs
  <2>5. Ahead("back")' /\ InHand("back")'
    <3>1. Ahead("back")'
      BY <1>1, <2>1, <2>2 DEF Ahead, Beyond, Inv, Full, Taken, Held
    <3> QED
      BY <2>1, <3>1 DEF InHand, Still, NotLess, OneHour, At
  <2>6. Ahead("fore")' /\ InHand("fore")'
    <3>1. Same("fore") /\ \A t \in servers', h \in Hour : Held(t, h) \subseteq Held(t, h)'
      BY <1>1 DEF Same, Held
    <3> QED
      BY <1>1, <3>1, AheadKept, ReadKept, StillKept DEF Inv, Fit, InHand, Jobs
  <2> QED
    BY <2>3, <2>4, <2>5, <2>6 DEF Inv, Fit, Jobs
<1> QED
  BY <1>2, <1>3

-----------------------------------------------------------------------------
(* An hour is read and written.                                            *)

LEMMA RollReadsInv ==
    ASSUME Inv, NEW j \in Jobs, NEW h \in Hour, RollReads(j, h), TypeOK'
    PROVE  Inv'
<1>1. UNCHANGED <<now, servers, raw, row, taken, torn>> /\ \A i \in Jobs : i # j => job'[i] = job[i]
  BY DEF RollReads, Set, Inv, TypeOK, Jobs
<1>2. /\ job'[j].pc = "write" /\ job'[j].todo = job[j].todo
      /\ job'[j].servers = job[j].servers /\ job'[j].thinned = job[j].thinned
      /\ job'[j].had = Had(j, h)
      /\ job'[j].got = {x \in raw : x[1] \in job[j].servers /\ x[2] = h}
  BY DEF RollReads, Set, Inv, TypeOK, Jobs, Job
<1>3. h \in job[j].todo /\ At(j, "read") /\ job[j].servers \subseteq Server
      /\ job[j].todo \subseteq Hour /\ \A k \in Hour : k \in Nat
  BY HoursAssumption DEF RollReads, Turn, Inv, TypeOK, Job, Jobs, Hour
<1>4. \A i \in Jobs : job'[i].todo = job[i].todo /\ job'[i].thinned = job[i].thinned
  BY <1>1, <1>2
<1>5. Over' /\ Full' /\ Cascade' /\ Covering' /\ Taken'
  BY <1>1, <1>4 DEF Inv, Over, Full, Held, Cascade, Covering, LegacyRows, Taken, Jobs
<1>6. Resting' /\ Apart'
  BY <1>1, <1>2, <1>4 DEF Inv, Fit, Resting, Apart, At, Jobs
<1>7. \A k \in Hour : Turn(j, k)' => k = h
  BY <1>2, <1>3 DEF Turn, RollReads
<1>8. Ahead(j)'
  BY <1>1, <1>2 DEF Inv, Fit, Ahead, Beyond, Held
<1>9. Still(j)' /\ OneHour(j)'
  BY <1>1, <1>2, <1>7 DEF Still, OneHour
<1>10. NotLess(j)'
  <2> SUFFICES ASSUME NEW s \in job[j].servers, Had(j, h)[s] # None, ~Beyond(j, h)
               PROVE  PlacesOf(j, s)' = {} \/ Had(j, h)[s].from \subseteq PlacesOf(j, s)'
    BY <1>1, <1>2, <1>7 DEF NotLess, Beyond
  <2>1. Had(j, h)[s] = row[<<s, h>>]
    BY <1>3 DEF Had
  <2>2. CASE s \in servers
    <3>1. row[<<s, h>>].from \subseteq Held(s, h)
      BY <1>3, <2>1, <2>2 DEF Inv, Fit, Ahead
    <3>2. ASSUME NEW p \in Held(s, h) PROVE p \in PlacesOf(j, s)'
      <4>1. <<s, h, p>> \in job'[j].got /\ <<s, h, p>>[1] = s /\ <<s, h, p>>[3] = p
        BY <1>2 DEF Held
      <4> QED
        BY <4>1 DEF PlacesOf
    <3> QED
      BY <2>1, <3>1, <3>2
  <2>3. CASE s \notin servers
    BY <1>2, <2>3 DEF PlacesOf, Inv, Cascade
  <2> QED
    BY <2>2, <2>3
<1>11. ASSUME NEW i \in Jobs, i # j PROVE Ahead(i)' /\ InHand(i)'
  <2>1. Same(i) /\ \A t \in servers', k \in Hour : Held(t, k) \subseteq Held(t, k)'
    BY <1>1, <1>11 DEF Same, Held
  <2> QED
    BY <1>1, <2>1, AheadKept, ReadKept, StillKept DEF Inv, Fit, InHand
<1> QED
  BY <1>5, <1>6, <1>8, <1>9, <1>10, <1>11 DEF Inv, Fit, InHand

\* What a write finds and leaves.
LEMMA Rewritten ==
    ASSUME Inv, NEW j \in Jobs, NEW h \in Hour, RollWrites(j, h), NEW s \in job[j].servers
    PROVE  /\ s \in Server /\ NewRow(j, s) \in Row
           /\ NewRow(j, s).kind # "legacy"
           /\ Keeps(j, s) => /\ row[<<s, h>>] = job[j].had[s] /\ row[<<s, h>>] # None
                             /\ NewRow(j, s).from = row[<<s, h>>].from
           /\ ~Keeps(j, s) => NewRow(j, s).from = PlacesOf(j, s)
           /\ row[<<s, h>>] # None => row[<<s, h>>] = job[j].had[s]
<1>1. s \in Server
  BY DEF Inv, TypeOK, Job, Jobs
<1>2. NewRow(j, s) \in Row
  BY <1>1, NewRowType DEF Inv
<1>3. row[<<s, h>>] # None \/ Keeps(j, s) => row[<<s, h>>] = job[j].had[s]
  BY DEF RollWrites, Conflict
<1>4. CASE Keeps(j, s)
  <2>1. job[j].had[s] \in Row
    BY <1>1, <1>4 DEF Inv, TypeOK, Job, Keeps, Jobs
  <2>2. NewRow(j, s).from = job[j].had[s].from /\ NewRow(j, s).kind # "legacy"
    BY <1>4, <2>1 DEF NewRow, Row
  <2> QED
    BY <1>1, <1>2, <1>3, <1>4, <2>2 DEF Keeps
<1>5. CASE ~Keeps(j, s)
  BY <1>1, <1>2, <1>3, <1>5 DEF NewRow
<1> QED
  BY <1>4, <1>5

\* The new row is full, unless its hour was torn before or thinned meanwhile.
LEMMA RewrittenFull ==
    ASSUME Inv, NEW j \in Jobs, NEW h \in Hour, RollWrites(j, h),
           NEW s \in job[j].servers, s \in servers, ~Beyond(j, h)
    PROVE  NewRow(j, s).from \subseteq Held(s, h)
<1>1. CASE Keeps(j, s)
  BY <1>1, Rewritten DEF Inv, Fit, Ahead, RollWrites, Turn
<1>2. CASE ~Keeps(j, s)
  <2> SUFFICES ASSUME NEW p \in PlacesOf(j, s) PROVE p \in Held(s, h)
    BY <1>2, Rewritten
  <2>1. PICK y \in job[j].got : y[1] = s /\ y[3] = p
    BY DEF PlacesOf
  <2>2. y = <<y[1], y[2], y[3]>> /\ p \in Place
    BY <2>1, Elements DEF Inv
  <2>3. y[2] = h /\ y \in raw
    BY <2>1 DEF Inv, Fit, InHand, OneHour, Still, Excused, Beyond, RollWrites
  <2> QED
    BY <2>1, <2>2, <2>3 DEF Held
<1> QED
  BY <1>1, <1>2

LEMMA RollWritesInv ==
    ASSUME Inv, NEW j \in Jobs, NEW h \in Hour, RollWrites(j, h), TypeOK'
    PROVE  Inv'
<1>1. UNCHANGED <<now, servers, raw, taken, torn>> /\ \A i \in Jobs : i # j => job'[i] = job[i]
  BY DEF RollWrites, Set, Inv, TypeOK, Jobs
<1>2. /\ job[j].servers \subseteq Server /\ job[j].todo \subseteq Hour /\ h \in job[j].todo
      /\ servers \subseteq Server
  BY DEF RollWrites, Turn, Inv, TypeOK, Job, Jobs
<1>3. \A s \in Server, k \in Hour :
        row'[<<s, k>>] = IF s \in job[j].servers /\ k = h THEN NewRow(j, s) ELSE row[<<s, k>>]
  BY DEF RollWrites
<1>4. \A s \in Server, k \in Hour : row[<<s, k>>] # None => row'[<<s, k>>] # None
  BY <1>3, Rewritten, NoneAssumption
<1>5. \/ job'[j] = Idle
      \/ /\ job'[j].pc = "read" /\ job'[j].todo = job[j].todo \ {h}
         /\ job'[j].servers = job[j].servers /\ job'[j].thinned = job[j].thinned
  BY DEF RollWrites, Set, Inv, TypeOK, Jobs, Job
<1>6. /\ job'[j].todo \subseteq job[j].todo \ {h}
      /\ job'[j].thinned \subseteq job[j].thinned
      /\ job'[j].servers \subseteq job[j].servers
      /\ job'[j].pc \in {"idle", "read"}
      /\ job'[j].todo # {} => job'[j].pc = "read" /\ job'[j].thinned = job[j].thinned
  BY <1>5 DEF Idle
<1>7. Over' /\ Cascade'
  <2>1. \A x \in Server \X Hour : row'[x] # None => x[2] < now
    <3> SUFFICES ASSUME NEW s \in Server, NEW k \in Hour, row'[<<s, k>>] # None PROVE k < now
      OBVIOUS
    <3>1. CASE k = h
      BY <1>2, <3>1 DEF Inv, Over
    <3>2. CASE k # h
      <4>1. row[<<s, k>>] # None /\ <<s, k>> \in Server \X Hour /\ <<s, k>>[2] = k
        BY <1>3, <3>2
      <4> QED
        BY <4>1 DEF Inv, Over
    <3> QED
      BY <3>1, <3>2
  <2> QED
    BY <1>1, <1>6, <2>1 DEF Inv, Over, Cascade
<1>8. Full'
  <2> SUFFICES ASSUME NEW s \in servers, NEW k \in Hour, row'[<<s, k>>] # None,
                      k \notin taken
               PROVE  row'[<<s, k>>].from \subseteq Held(s, k)
    BY <1>1 DEF Full, Held
  <2>1. CASE s \in job[j].servers /\ k = h
    <3>1. ~Beyond(j, h)
      BY <2>1 DEF Inv, TypeOK, Taken, Beyond
    <3> QED
      BY <1>2, <1>3, <2>1, <3>1, RewrittenFull
  <2>2. CASE ~(s \in job[j].servers /\ k = h)
    BY <1>2, <1>3, <2>2 DEF Inv, Full
  <2> QED
    BY <2>1, <2>2
<1>9. Covering'
  <2>1. ASSUME NEW k \in LegacyRows(Server, now)' PROVE k \in LegacyRows(Server, now)
    <3>1. PICK t \in Server : row'[<<t, k>>] # None /\ row'[<<t, k>>].kind = "legacy"
      BY <1>1 DEF LegacyRows
    <3>2. k \in Hour /\ k < now
      BY <1>1 DEF LegacyRows
    <3>3. row'[<<t, k>>] = row[<<t, k>>]
      BY <1>3, <3>1, <3>2, Rewritten
    <3> QED
      BY <3>1, <3>2, <3>3 DEF LegacyRows
  <2>2. job'["back"].todo \subseteq job["back"].todo /\ job["back"].todo \subseteq Hour
    BY <1>1, <1>6 DEF Inv, TypeOK, Job, Jobs
  <2>3. \A k \in LegacyRows(Server, now) : k \in Hour
    BY DEF LegacyRows
  <2> QED
    BY <1>1, <1>2, <1>4, <2>1, <2>2, <2>3 DEF Inv, Covering
<1>10. job'["back"].thinned \subseteq job["back"].thinned
  BY <1>1, <1>6 DEF Jobs
<1>11. Taken'
  BY <1>1, <1>10 DEF Inv, Taken
<1>12. ASSUME j = "back", NEW s \in servers
       PROVE  h \in job["fore"].todo => h \notin taken /\ ~Beyond(j, h)
  BY <1>2, <1>12 DEF Inv, TypeOK, Covering, Fit, Apart, Taken, Beyond
<1>13. Resting' /\ Apart'
  <2>1. Resting'
    BY <1>1, <1>6 DEF Inv, Fit, Resting, At, Jobs
  <2>2. Apart'
    <3> SUFFICES ASSUME NEW k \in job'["fore"].todo, NEW s \in servers, row'[<<s, k>>] # None
                 PROVE  k \notin taken
      BY <1>1 DEF Apart
    <3>1. k \in job["fore"].todo /\ k \in Hour
      BY <1>1, <1>6 DEF Inv, TypeOK, Job, Jobs
    <3>2. CASE k = h
      <4>1. j = "back"
        BY <1>6, <3>2 DEF Jobs
      <4> QED
        BY <1>12, <3>1, <3>2, <4>1
    <3>3. CASE k # h
      BY <1>2, <1>3, <3>1, <3>3 DEF Inv, Fit, Apart
    <3> QED
      BY <3>2, <3>3
  <2> QED
    BY <2>1, <2>2
<1>14. Ahead(j)' /\ InHand(j)'
  <2>1. Ahead(j)'
    <3> SUFFICES ASSUME NEW k \in job'[j].todo, NEW s \in job'[j].servers \cap servers,
                        row'[<<s, k>>] # None, ~Beyond(j, k)
                 PROVE  row'[<<s, k>>].from \subseteq Held(s, k)
      BY <1>1, <1>6 DEF Ahead, Held, Beyond
    <3>1. k # h /\ k \in job[j].todo /\ k \in Hour /\ s \in job[j].servers
      BY <1>2, <1>6
    <3> QED
      BY <1>2, <1>3, <3>1 DEF Inv, Fit, Ahead
  <2> QED
    BY <1>6, <2>1 DEF InHand, Still, NotLess, OneHour, At
<1>15. ASSUME NEW i \in Jobs, i # j PROVE Ahead(i)' /\ InHand(i)'
  <2>1. Same(i) /\ job'[i] = job[i] /\ job[i].todo \subseteq Hour
    BY <1>1, <1>15 DEF Same, Inv, TypeOK, Job, Jobs
  <2>2. Ahead(i)'
    <3> SUFFICES ASSUME NEW k \in job[i].todo, NEW s \in job[i].servers \cap servers,
                        row'[<<s, k>>] # None, ~Beyond(i, k)
                 PROVE  row'[<<s, k>>].from \subseteq Held(s, k)
      BY <1>1, <2>1 DEF Ahead, Held, Beyond
    <3>1. CASE k = h /\ s \in job[j].servers
      <4>1. ~Beyond(j, h)
        BY <1>12, <1>15, <3>1 DEF Jobs, Beyond
      <4> QED
        BY <1>2, <1>3, <3>1, <4>1, RewrittenFull
    <3>2. CASE ~(k = h /\ s \in job[j].servers)
      BY <1>2, <1>3, <2>1, <3>2 DEF Inv, Fit, Ahead
    <3> QED
      BY <3>1, <3>2
  <2> QED
    BY <1>1, <2>1, <2>2, ReadKept, StillKept DEF Inv, Fit, InHand
<1> QED
  BY <1>7, <1>8, <1>9, <1>11, <1>13, <1>14, <1>15 DEF Inv, Fit

LEMMA InvNext == Inv /\ [Next]_vars => Inv'
<1> SUFFICES ASSUME Inv, [Next]_vars PROVE Inv'
  OBVIOUS
<1>1. TypeOK'
  BY TypeNext DEF Inv
<1>2. CASE UNCHANGED vars
  <2>1. UNCHANGED <<now, servers, raw, row, taken, torn>> /\ \A j \in Jobs : Same(j)
    BY <1>2 DEF vars, Same
  <2> QED
    BY <1>1, <1>2, <2>1, JobsRest DEF vars
<1>3. CASE Next
  BY <1>1, <1>3, TickInv, PollInv, PutBackInv, RetentionInv, SetEnabledInv,
     DeleteServerInv, EndsInv,
     HourlyAggregateInv, SelectHoursInv, RollReadsInv, RollWritesInv DEF Next, Jobs
<1> QED
  BY <1>2, <1>3

LEMMA Inductive == Spec => []Inv
  BY InitInv, InvNext, PTL DEF Spec

\* Every variable keeps its type: a job's hours and servers exist, and what it
\* has read are rows and samples.
THEOREM TypeCorrect == Spec => []TypeOK
  BY Inductive, PTL DEF Inv

-----------------------------------------------------------------------------
(* Rows are not rebuilt from less.                                         *)

Counted ==
    \A x \in Server \X Hour :
        (row[x] # None /\ row'[x] # None /\ x[2] \notin job["back"].thinned \cup torn)
            => row[x].from \subseteq row'[x].from

LEMMA CountedStep == Inv /\ [Next]_vars => Counted
<1> SUFFICES ASSUME Inv, [Next]_vars, NEW x \in Server \X Hour, row[x] # None, row'[x] # None,
                    x[2] \notin job["back"].thinned \cup torn, row'[x] # row[x]
             PROVE  row[x].from \subseteq row'[x].from
  BY DEF Counted
<1>1. ASSUME NEW s \in Server, DeleteServer(s) PROVE FALSE
  BY <1>1 DEF DeleteServer
<1>2. ASSUME NEW j \in Jobs, NEW h \in Hour, RollWrites(j, h)
      PROVE  row[x].from \subseteq row'[x].from
  <2>1. /\ x[1] \in job[j].servers /\ x[2] = h /\ x = <<x[1], h>>
        /\ row'[x] = NewRow(j, x[1]) /\ ~Beyond(j, h)
    BY <1>2 DEF RollWrites, Beyond
  <2>2. CASE Keeps(j, x[1])
    BY <1>2, <2>1, <2>2, Rewritten
  <2>3. CASE ~Keeps(j, x[1])
    <3>1. job[j].had[x[1]] = row[x] /\ row'[x].from = PlacesOf(j, x[1])
      BY <1>2, <2>1, <2>3, Rewritten
    <3>2. PlacesOf(j, x[1]) # {}
      BY <2>3, <3>1 DEF Keeps
    <3> QED
      BY <1>2, <2>1, <3>1, <3>2 DEF Inv, Fit, InHand, NotLess, RollWrites
  <2> QED
    BY <2>2, <2>3
<1> QED
  BY <1>1, <1>2
  DEF Next, vars, Tick, Restart, Poll, PutBack, Retention, SetEnabled, HourlyAggregate, StartBackfill,
      SelectHours, Fails, RollReads, Jobs

\* _roll_hour and _upgrade_legacy_gpu_card_time: in whatever order the two jobs,
\* polls, restarts, retention and restores come, no row is replaced by one made
\* of less, unless retention took samples of that hour while the worker ran, or
\* a pass broken off or a restore has left the hour torn.
THEOREM RowsOnlyGrow == Spec => KeepsCounted
<1>1. Inv /\ [Next]_vars => [Counted]_vars
  BY CountedStep
<1>2. Inv /\ [Next]_vars => [\A x \in Server \X Hour :
         (row[x] # None /\ row'[x] # None /\ x[2] \notin job["back"].thinned \cup torn)
            => row[x].from \subseteq row'[x].from]_vars
  BY <1>1 DEF Counted
<1> QED
  BY <1>2, Inductive, PTL DEF Spec, KeepsCounted

-----------------------------------------------------------------------------
(* The closed hours have no gap.                                           *)

\* A server that stays enabled has a row wherever any server has one, and
\* every job is about it.
Even ==
    /\ \A s \in steady, h \in Rolled : row[<<s, h>>] # None
    /\ \A j \in Jobs : ~At(j, "idle") => steady \subseteq job[j].servers

Whole ==
    steady # {} => \A h, i, k \in Hour : h < i /\ i < k /\ h \in Rolled /\ k \in Rolled
                                        => i \in Rolled

\* The foreground's hours follow on those that are closed.
Onward ==
    steady # {} => \A m \in job["fore"].todo :
        /\ \A i \in Hour : i < m /\ (\E k \in Rolled \cup job["fore"].todo : k < i)
                           => i \in Rolled \cup job["fore"].todo
        /\ m \in Rolled \/ \A k \in Rolled : k < m

Closing == Even /\ Whole /\ Onward

LEMMA RolledRow ==
    ASSUME TypeOK, Even, NEW s \in steady, NEW h \in Hour
    PROVE  h \in Rolled <=> row[<<s, h>>] # None
  BY DEF TypeOK, Even, Rolled

\* The rows stay, and the jobs go on or end.
LEMMA ClosingKept ==
    ASSUME Closing, Rolled' = Rolled, steady' \subseteq steady,
           \A s \in steady', h \in Rolled : row[<<s, h>>] # None => row'[<<s, h>>] # None,
           \A j \in Jobs : At(j, "idle")' \/ (~At(j, "idle") /\ job'[j].servers = job[j].servers),
           job'["fore"].todo \in {{}, job["fore"].todo}
    PROVE  Closing'
<1>1. Even'
  BY DEF Closing, Even
<1>2. Whole'
  BY DEF Closing, Whole
<1>3. Onward'
  BY DEF Closing, Onward
<1> QED
  BY <1>1, <1>2, <1>3 DEF Closing

LEMMA ClosingInit == Init => Closing
<1> SUFFICES ASSUME Init PROVE Closing
  OBVIOUS
<1>1. /\ steady = Server /\ \A j \in Jobs : At(j, "idle") /\ job[j].todo = {}
  BY DEF Init, Jobs, At, Idle
<1>2. CASE row = [x \in Server \X Hour |-> None]
  <2>1. Rolled = {}
    BY <1>2 DEF Rolled
  <2> QED
    BY <1>1, <2>1 DEF Closing, Even, Whole, Onward, Jobs
<1>3. CASE row = [x \in Server \X Hour |->
                    IF x[2] < Start THEN Legacy(x[1], x[2]) ELSE None]
  <2>1. \A s \in Server, h \in Hour : Legacy(s, h) # None
    <3>1. \A s \in Server, h \in Hour : Legacy(s, h) \in Row
      BY DEF Legacy, Row
    <3> QED
      BY <3>1, NoneAssumption
  <2>2. \A s \in Server, h \in Hour : row[<<s, h>>] # None <=> h < Start
    BY <1>3, <2>1
  <2>3. \A h \in Rolled : h \in Hour /\ h < Start
    BY <2>2 DEF Rolled
  <2>4. Even
    BY <1>1, <2>2, <2>3 DEF Even
  <2>5. Whole
    <3>1. \A h \in Hour : h \in Nat /\ Start \in Nat
      BY HoursAssumption DEF Hour
    <3>2. Server # {} => \A i \in Hour : i < Start => i \in Rolled
      BY <2>2 DEF Rolled
    <3> QED
      BY <1>1, <2>3, <3>1, <3>2 DEF Whole
  <2> QED
    BY <1>1, <2>4, <2>5 DEF Closing, Onward, Jobs
<1> QED
  BY <1>2, <1>3 DEF Init

\* A deleted server was not the only one with a row, if one stays enabled.
LEMMA ClosingDelete ==
    ASSUME Inv, Closing, NEW s \in Server, DeleteServer(s)
    PROVE  Closing'
<1>1. /\ job' = job /\ steady' = steady \ {s} /\ steady \subseteq Server
      /\ \A x \in Server \X Hour : row'[x] = IF x[1] = s THEN None ELSE row[x]
  BY DEF DeleteServer, Inv, TypeOK
<1>2. \A t \in Server, h \in Hour : row'[<<t, h>>] = IF t = s THEN None ELSE row[<<t, h>>]
  BY <1>1
<1>3. CASE steady' = {}
  BY <1>1, <1>3 DEF Closing, Even, Whole, Onward, At
<1>4. CASE steady' # {}
  <2>1. PICK t \in steady : t # s /\ t \in Server
    BY <1>1, <1>4
  <2>2. \A h \in Hour : h \in Rolled' <=> h \in Rolled
    <3>1. \A h \in Hour : h \in Rolled => h \in Rolled'
      BY <1>2, <2>1 DEF Closing, Even, Rolled
    <3>2. \A h \in Hour : h \in Rolled' => h \in Rolled
      BY <1>2 DEF Rolled
    <3> QED
      BY <3>1, <3>2
  <2>3. Rolled' = Rolled
    BY <2>2 DEF Rolled
  <2>4. Rolled \subseteq Hour
    BY DEF Rolled
  <2> QED
    BY <1>1, <1>2, <2>3, <2>4, ClosingKept DEF At, Closing, Even
<1> QED
  BY <1>3, <1>4

LEMMA ClosingAggregate ==
    ASSUME Inv, Closing, HourlyAggregate
    PROVE  Closing'
<1>1. /\ UNCHANGED <<row, steady>> /\ job'["back"] = job["back"] /\ Rolled' = Rolled
      /\ steady \subseteq enabled
  BY DEF HourlyAggregate, Set, Inv, TypeOK, Rolled
<1>2. CASE enabled = {}
  <2>1. job'["fore"] = Idle
    BY <1>2 DEF HourlyAggregate, Set, Inv, TypeOK
  <2> QED
    BY <1>1, <2>1, ClosingKept DEF Idle, At, Jobs
<1>3. CASE enabled # {}
  <2>1. job'["fore"].servers = enabled /\ job'["fore"].todo = Gap
    BY <1>3 DEF HourlyAggregate, Set, Inv, TypeOK, Idle
  <2>2. Even' /\ Whole'
    BY <1>1, <2>1 DEF Closing, Even, Whole, At, Jobs
  <2>3. /\ MaxBackfill \in Nat /\ now \in Nat /\ Prev = now - 1 /\ Prev \in Hour
        /\ Prev \in Nat /\ \A h \in Hour : h \in Nat
    BY HoursAssumption, Past DEF Inv, TypeOK, Prev, Hour
  <2>4. \A k \in Rolled : k \in Hour /\ k \in Nat /\ k <= Prev
    <3> SUFFICES ASSUME NEW k \in Hour, NEW s \in Server, row[<<s, k>>] # None PROVE k <= Prev
      BY <2>3 DEF Rolled
    <3>1. <<s, k>> \in Server \X Hour /\ <<s, k>>[2] = k
      OBVIOUS
    <3> QED
      BY <2>3, <3>1 DEF Inv, Over
  <2>5. Onward'
    <3> SUFFICES ASSUME steady # {}, NEW m \in Gap
                 PROVE  /\ \A i \in Hour : i < m /\ (\E k \in Rolled \cup Gap : k < i)
                                            => i \in Rolled \cup Gap
                        /\ m \in Rolled \/ \A k \in Rolled : k < m
      BY <1>1, <2>1 DEF Onward
    <3>1. CASE \E k \in Rolled : k >= Prev
      <4>1. PICK k \in Rolled : k >= Prev
        BY <3>1
      <4>2. k = Prev
        BY <2>3, <2>4, <4>1
      <4>3. Gap = {Prev} /\ m = Prev /\ Prev \in Rolled
        BY <3>1, <4>1, <4>2 DEF Gap
      <4>4. ASSUME NEW i \in Hour, i < m, NEW l \in Rolled \cup Gap, l < i PROVE i \in Rolled
        <5>1. l \in Rolled /\ l \in Hour
          BY <2>3, <2>4, <4>3, <4>4
        <5> QED
          BY <2>4, <4>3, <4>4, <5>1 DEF Closing, Whole
      <4> QED
        BY <4>3, <4>4
    <3>2. CASE ~ \E k \in Rolled : k >= Prev
      <4>1. \A g \in Gap :
              /\ g \in Hour /\ g <= Prev /\ \A k \in Rolled : k < g
              /\ Rolled = {} => Prev - MaxBackfill < g
              /\ Rolled # {} => \E k \in Rolled : g <= k + MaxBackfill
        BY <3>2 DEF Gap
      <4>2. ASSUME NEW i \in Hour, i < m, NEW l \in Rolled \cup Gap, l < i, i \notin Rolled
            PROVE  i \in Gap
        <5>1. m \in Nat /\ i \in Nat /\ m <= Prev /\ i <= Prev /\ l \in Nat
              /\ \A k \in Rolled : k \in Nat
          <6>1. m \in Nat /\ i \in Nat /\ m <= Prev /\ \A k \in Rolled : k \in Nat
            BY <2>3, <2>4, <4>1
          <6>2. i <= Prev
            BY <2>3, <4>2, <6>1
          <6>3. l \in Nat
            BY <2>3, <2>4, <4>1
          <6> QED
            BY <6>1, <6>2, <6>3
        <5>2. \A k \in Rolled : k < i
          <6>1. CASE l \in Rolled
            <7> SUFFICES ASSUME NEW k \in Rolled, ~(k < i) PROVE FALSE
              OBVIOUS
            <7>1. i < k
              BY <4>2, <5>1
            <7> QED
              BY <2>4, <4>2, <6>1, <7>1 DEF Closing, Whole
          <6>2. CASE l \in Gap
            BY <4>1, <4>2, <5>1, <6>2
          <6> QED
            BY <6>1, <6>2
        <5>3. CASE Rolled = {}
          <6>1. l \in Gap /\ Prev - MaxBackfill < l
            BY <4>1, <5>3
          <6>2. Prev - MaxBackfill < i
            BY <2>3, <4>2, <5>1, <6>1
          <6> QED
            BY <3>2, <5>1, <5>2, <5>3, <6>2 DEF Gap
        <5>4. CASE Rolled # {}
          <6>1. PICK k \in Rolled : m <= k + MaxBackfill
            BY <4>1, <5>4
          <6>2. i <= k + MaxBackfill
            BY <2>3, <4>2, <5>1, <6>1
          <6> QED
            BY <3>2, <5>1, <5>2, <5>4, <6>2 DEF Gap
        <5> QED
          BY <5>3, <5>4
      <4> QED
        BY <4>1, <4>2
    <3> QED
      BY <3>1, <3>2
  <2> QED
    BY <2>2, <2>5 DEF Closing
<1> QED
  BY <1>2, <1>3

\* The foreground adds the first of its hours, the worker none.
LEMMA ClosingWrite ==
    ASSUME Inv, Closing, NEW j \in Jobs, NEW h \in Hour, RollWrites(j, h)
    PROVE  Closing'
<1>1. steady' = steady /\ \A i \in Jobs : i # j => job'[i] = job[i]
  BY DEF RollWrites, Set, Inv, TypeOK, Jobs
<1>2. /\ job[j].servers \subseteq Server /\ job[j].todo \subseteq Hour /\ h \in job[j].todo
      /\ steady \subseteq Server /\ steady \subseteq servers /\ ~At(j, "idle")
  BY DEF RollWrites, Turn, Inv, TypeOK, Job, Jobs, At
<1>3. \A s \in Server, k \in Hour :
        row'[<<s, k>>] = IF s \in job[j].servers /\ k = h THEN NewRow(j, s) ELSE row[<<s, k>>]
  BY DEF RollWrites
<1>4. \A s \in Server, k \in Hour : row[<<s, k>>] # None => row'[<<s, k>>] # None
  BY <1>3, Rewritten, NoneAssumption
<1>5. \/ job'[j] = Idle
      \/ job'[j].servers = job[j].servers /\ job'[j].pc = "read"
         /\ job'[j].todo = job[j].todo \ {h}
  BY DEF RollWrites, Set, Inv, TypeOK, Jobs, Job
<1>6. Rolled \subseteq Rolled' /\ Rolled' \subseteq Rolled \cup {h} /\ Rolled \subseteq Hour
  <2>1. \A k \in Hour : k # h /\ k \in Rolled' => k \in Rolled
    BY <1>3 DEF Rolled
  <2>2. \A k \in Hour : k \in Rolled => k \in Rolled'
    BY <1>4 DEF Rolled
  <2>3. Rolled \subseteq Hour /\ Rolled' \subseteq Hour
    BY DEF Rolled
  <2> QED
    BY <2>1, <2>2, <2>3
<1>7. CASE steady = {}
  BY <1>1, <1>7 DEF Closing, Even, Whole, Onward
<1>8. CASE steady # {}
  <2>1. \A s \in steady : s \in job[j].servers /\ row'[<<s, h>>] # None
    BY <1>2, <1>3, Rewritten, NoneAssumption DEF Closing, Even
  <2>2. Rolled' = Rolled \cup {h}
    BY <1>2, <1>6, <1>8, <2>1 DEF Rolled
  <2>3. Even'
    <3>1. \A s \in steady, k \in Rolled' : row'[<<s, k>>] # None
      BY <1>2, <1>4, <1>6, <2>1, <2>2 DEF Closing, Even
    <3>2. \A i \in Jobs : ~At(i, "idle")' => steady \subseteq job'[i].servers
      BY <1>1, <1>2, <1>5 DEF Closing, Even, At, Idle
    <3> QED
      BY <1>1, <3>1, <3>2 DEF Even
  <2>4. CASE j = "back"
    <3>1. \A s \in steady : row[<<s, h>>] # None
      BY <1>2, <2>4 DEF Inv, Covering
    <3>2. Rolled' = Rolled
      BY <1>2, <1>8, <2>2, <3>1 DEF Rolled
    <3> QED
      BY <1>1, <2>3, <2>4, <3>2 DEF Closing, Whole, Onward, Jobs
  <2>5. CASE j = "fore"
    <3>1. /\ \A i \in Hour : i < h /\ (\E k \in Rolled : k < i) => i \in Rolled
          /\ h \in Rolled \/ \A k \in Rolled : k < h
          /\ \A k \in job[j].todo : h <= k
      <4>1. \A k \in job[j].todo : h <= k
        BY <2>5 DEF RollWrites, Turn
      <4>2. \A k \in Hour : k \in Nat
        BY HoursAssumption DEF Hour
      <4> QED
        BY <1>2, <1>8, <2>5, <4>1, <4>2 DEF Closing, Onward
    <3>2. \A k \in Hour : k \in Nat
      BY HoursAssumption DEF Hour
    <3>3. Whole'
      <4> SUFFICES ASSUME NEW g \in Rolled', NEW i \in Hour, NEW k \in Rolled', g < i, i < k,
                          g \in Hour, k \in Hour
                   PROVE  i \in Rolled'
        BY DEF Whole
      <4>1. CASE g \in Rolled /\ k \in Rolled
        BY <1>6, <1>8, <4>1 DEF Closing, Whole
      <4>2. CASE g \in Rolled /\ k = h
        BY <1>6, <3>1, <4>2
      <4>3. CASE g = h /\ h \notin Rolled
        BY <2>2, <3>1, <3>2, <4>3
      <4> QED
        BY <2>2, <4>1, <4>2, <4>3
    <3>4. Onward'
      <4> SUFFICES ASSUME NEW m \in job'["fore"].todo
                   PROVE  /\ \A i \in Hour : i < m /\ (\E k \in Rolled' \cup job'["fore"].todo : k < i)
                                => i \in Rolled' \cup job'["fore"].todo
                          /\ m \in Rolled' \/ \A k \in Rolled' : k < m
        BY DEF Onward
      <4>1. job'[j].todo = job[j].todo \ {h} /\ m \in job["fore"].todo /\ m \in Hour /\ h < m
        BY <1>2, <1>5, <2>5, <3>1, <3>2 DEF Idle
      <4>2. ASSUME NEW i \in Hour, i < m, NEW k \in Rolled' \cup job'["fore"].todo, k < i
            PROVE  i \in Rolled' \cup job'["fore"].todo
        <5>1. k \in Rolled \cup job["fore"].todo
          BY <1>2, <2>2, <2>5, <4>1
        <5> QED
          BY <1>8, <2>2, <2>5, <4>1, <4>2, <5>1 DEF Closing, Onward
      <4> QED
        BY <1>6, <1>8, <2>2, <2>5, <4>1, <4>2 DEF Closing, Onward
    <3> QED
      BY <2>3, <3>3, <3>4 DEF Closing
  <2> QED
    BY <2>4, <2>5 DEF Jobs
<1> QED
  BY <1>7, <1>8

LEMMA ClosingNext == Inv /\ Closing /\ [Next]_vars => Closing'
<1> SUFFICES ASSUME Inv, Closing, [Next]_vars PROVE Closing'
  OBVIOUS
<1>1. UNCHANGED row => Rolled' = Rolled
  BY DEF Rolled
<1>2. ASSUME UNCHANGED <<row, job>>, steady' \subseteq steady PROVE Closing'
  BY <1>1, <1>2 DEF Closing, Even, Whole, Onward, At
<1>3. CASE Tick \/ UNCHANGED vars
  BY <1>2, <1>3 DEF Tick, vars
<1>4. CASE Restart
  BY <1>1, <1>4, ClosingKept DEF Restart, Idle, At, Jobs
<1>5. ASSUME NEW x \in Sample, Poll(x) PROVE Closing'
  BY <1>2, <1>5 DEF Poll
<1>5a. ASSUME NEW x \in Sample, PutBack(x) PROVE Closing'
  BY <1>2, <1>5a DEF PutBack
<1>6. ASSUME NEW gone \in SUBSET Sample, Retention(gone) PROVE Closing'
  <2>1. \A j \in Jobs : job'[j].pc = job[j].pc /\ job'[j].servers = job[j].servers
                       /\ job'[j].todo = job[j].todo
    BY <1>6 DEF Retention, Inv, TypeOK, Job, Jobs
  <2> QED
    BY <1>1, <1>6, <2>1, ClosingKept DEF Retention, At, Jobs
<1>7. ASSUME NEW s \in Server, SetEnabled(s) PROVE Closing'
  BY <1>2, <1>7 DEF SetEnabled
<1>8. CASE StartBackfill
  <2>1. /\ UNCHANGED <<row, steady>> /\ job'["fore"] = Idle
        /\ \/ job'["back"] = job["back"]
           \/ job'["back"] = [Idle EXCEPT !.pc = "select", !.servers = job["fore"].servers,
                                          !.bound = job["fore"].bound]
    BY <1>8 DEF StartBackfill
  <2>2. ~At("fore", "idle")
    BY <1>8 DEF StartBackfill, At
  <2>3. Even'
    <3>1. /\ job'["fore"].pc = "idle" /\ steady \subseteq job["fore"].servers
          /\ \A s \in steady', h \in Rolled' : row'[<<s, h>>] # None
      BY <1>1, <2>1, <2>2 DEF Closing, Even, Idle, Jobs
    <3>2. CASE job'["back"] = job["back"]
      BY <2>1, <3>1, <3>2 DEF Closing, Even, At, Jobs
    <3>3. CASE job'["back"] # job["back"]
      <4>1. job'["back"].servers = job["fore"].servers
        BY <2>1, <3>3 DEF Idle
      <4> QED
        BY <2>1, <3>1, <4>1 DEF Even, At, Jobs
    <3> QED
      BY <3>2, <3>3
  <2>4. Whole' /\ Onward'
    BY <1>1, <2>1 DEF Closing, Whole, Onward, Idle
  <2> QED
    BY <2>3, <2>4 DEF Closing
<1>9. CASE SelectHours
  <2>1. /\ UNCHANGED <<row, steady>> /\ job'["fore"] = job["fore"] /\ ~At("back", "idle")
        /\ job'["back"].pc = "idle" \/ job'["back"].servers = job["back"].servers
    BY <1>9 DEF SelectHours, Set, Inv, TypeOK, Job, At, Idle
  <2> QED
    BY <1>1, <2>1, ClosingKept DEF At, Jobs
<1>10. ASSUME NEW j \in Jobs, Fails(j) PROVE Closing'
  <2>1. job'[j] = Idle /\ \A i \in Jobs : i # j => job'[i] = job[i]
    BY <1>10 DEF Fails, Set, Inv, TypeOK, Jobs
  <2> QED
    BY <1>1, <1>10, <2>1, ClosingKept DEF Fails, Idle, At, Jobs
<1>11. ASSUME NEW j \in Jobs, NEW h \in Hour, RollReads(j, h) PROVE Closing'
  <2>1. /\ UNCHANGED <<row, steady>> /\ ~At(j, "idle")
        /\ \A i \in Jobs : i # j => job'[i] = job[i]
        /\ job'[j].todo = job[j].todo /\ job'[j].servers = job[j].servers
    BY <1>11 DEF RollReads, Set, Inv, TypeOK, Job, At, Jobs
  <2> QED
    BY <1>1, <2>1, ClosingKept DEF At, Jobs
<1> QED
  BY <1>3, <1>4, <1>5, <1>6, <1>7, <1>8, <1>9, <1>10, <1>11, <1>5a, ClosingDelete, ClosingAggregate,
     ClosingWrite DEF Next, Jobs

\* _hourly_aggregate: the hours a server has rows for have no hole while it
\* stays enabled, after any downtime, failed hours and restarts, however large
\* the window is.
THEOREM HoursWithoutHole == Spec => []NoHole
<1>1. Inv /\ Closing => NoHole
  <2> SUFFICES ASSUME Inv, Closing, NEW s \in steady, NEW h \in Hour, NEW i \in Hour,
                      NEW k \in Hour, h < i, i < k, row[<<s, h>>] # None, row[<<s, k>>] # None
               PROVE  row[<<s, i>>] # None
    BY DEF NoHole
  <2> QED
    BY RolledRow DEF Inv, Closing, Whole
<1>2. Init => Inv /\ Closing
  BY InitInv, ClosingInit
<1>3. Inv /\ Closing /\ [Next]_vars => Inv' /\ Closing'
  BY InvNext, ClosingNext
<1> QED
  BY <1>1, <1>2, <1>3, PTL DEF Spec
=============================================================================
