--------------------------- MODULE Storage_proofs ---------------------------
(***************************************************************************)
(* Theorems about Storage, for any connections, names and bounds.           *)
(***************************************************************************)
EXTENDS Storage, TLAPS

Pc == {"idle", "audit", "write", "fill", "refill", "create", "save"} \cup Routes
RequestState == [pc : Pc, name : Name \cup {None}, id : 0 .. MaxCommits]
Status == {"none", "part", "whole", "broken", "mixed"}

Sound(x) == x \in Content /\ (x.state # "rows" => x = Hollow(x.state))

Shape(r) ==
  /\ r \in RequestState
  /\ r.pc = "idle" => r.name = None
  /\ r.pc \in {"write", "fill", "refill"} => r.name \in Name

Scalars == /\ up \in BOOLEAN /\ starts \in 0 .. MaxStarts
           /\ commits \in 0 .. MaxCommits /\ restored \in BOOLEAN
FileOK == Sound(file) /\ file.state # "absent"
CacheOK == cache \in [Conn -> Content] /\ \A c \in Conn : Sound(cache[c])
BackupsOK == backups \in [Name -> Content] /\ \A n \in Name : Sound(backups[n])
RequestOK == request \in [Conn -> RequestState] /\ \A c \in Conn : Shape(request[c])
\* Once there, a backup stays there.
RefillOK == \A c \in Conn : request[c].pc = "refill" => backups[request[c].name].state # "absent"

ReportsOK == reports \in [Name -> Status] /\ again \subseteq Name

Typed ==
  Scalars /\ FileOK /\ CacheOK /\ BackupsOK /\ RequestOK /\ RefillOK
  /\ ReportsOK

-----------------------------------------------------------------------------
(* Operators                                                                *)

LEMMA HollowSound ==
  /\ Sound(Empty) /\ Sound(Broken) /\ Sound(Absent)
  /\ Empty.state = "empty" /\ Broken.state = "broken" /\ Absent.state = "absent"
  /\ Empty.rows = {} /\ Broken.rows = {} /\ Absent.rows = {}
BY DEF Sound, Empty, Broken, Absent, Hollow, Content

LEMMA RowsSound ==
  ASSUME NEW n \in Nat, NEW r \in SUBSET Row
  PROVE  /\ Sound(Rows(n, r)) /\ Rows(n, r).state = "rows" /\ Rows(n, r).change = n
         /\ Rows(n, r).rows = r
BY DEF Sound, Rows, Content

LEMMA SoundFacts ==
  ASSUME NEW x, Sound(x)
  PROVE  /\ x.rows \in SUBSET Row /\ x.change \in Nat
         /\ x.state \in {"empty", "broken", "absent", "rows"}
         /\ (x.state # "rows" => x.rows = {})
BY DEF Sound, Content, Hollow

LEMMA ViewFacts ==
  ASSUME Typed, NEW c \in Conn
  PROVE  View(c) \in SUBSET Row /\ View(c) \in {cache[c].rows, file.rows}
         /\ file.change \in Nat /\ file.rows \in SUBSET Row
BY SoundFacts DEF Typed, CacheOK, FileOK, View

\* What became of rows r in rows s: none is lost, and nothing done is undone.
Kept(r, s) ==
  \A q \in r : \E p \in s : p.id = q.id /\ p.file = q.file /\ p.key = q.key /\ (q.done => p.done)

LEMMA DoneFacts ==
  ASSUME NEW r \in SUBSET Row, NEW ids
  PROVE  /\ Done(r, ids) \in SUBSET Row
         /\ Kept(r, Done(r, ids))
         /\ \A p \in Done(r, ids) : \E q \in r : p.file = q.file
<1> DEFINE d(q) == [q EXCEPT !.done = q.done \/ q.id \in ids]
<1>1. ASSUME NEW q \in Row
      PROVE  /\ d(q) \in Row /\ d(q).id = q.id /\ d(q).file = q.file /\ d(q).key = q.key
             /\ (q.done => d(q).done)
  <2>1. (q.done \/ q.id \in ids) \in BOOLEAN
    OBVIOUS
  <2> QED BY <2>1 DEF Row
<1>2. Done(r, ids) = {d(q) : q \in r}
  BY DEF Done
<1> HIDE DEF d
<1> QED BY <1>1, <1>2 DEF Kept

\* The pages that a commit writes: the row it inserts, or the rows it changes
NewRow(c, f, key) == [id |-> commits + 1, file |-> f, key |-> key, done |-> FALSE]

LEMMA NewRowType ==
  ASSUME Typed, commits < MaxCommits, NEW c, NEW f \in Name \cup {None}, NEW key \in BOOLEAN
  PROVE  NewRow(c, f, key) \in Row /\ NewRow(c, f, key).file = f /\ commits + 1 \in 0 .. MaxCommits
<1>1. commits \in Nat /\ commits + 1 \in 1 .. MaxCommits /\ commits + 1 \in 0 .. MaxCommits
  BY StorageAssumption DEF Typed, Scalars, StorageAssumption
<1> QED BY <1>1 DEF NewRow, Row

-----------------------------------------------------------------------------
(* Requests                                                                 *)

\* A step of c's request leaves the others alone.
Only(c) == request' \in [Conn -> RequestState] /\ Shape(request'[c])
           /\ \A x \in Conn \ {c} : request'[x] = request[x]

LEMMA OneRequest ==
  ASSUME Typed, NEW c \in Conn, NEW r, Shape(r), request' = [request EXCEPT ![c] = r]
  PROVE  Only(c) /\ request'[c] = r
BY DEF Typed, RequestOK, Only, Shape

LEMMA IdleShape == Shape(Idle) /\ Idle.pc = "idle" /\ Idle.name = None
BY StorageAssumption DEF Shape, Idle, RequestState, Pc, StorageAssumption

LEMMA GoEffects ==
  ASSUME Typed, NEW c \in Conn, NEW pc \in Pc \ {"idle"}, Go(c, pc),
         pc \in {"write", "fill", "refill"} => request[c].name \in Name
  PROVE  Only(c) /\ request'[c].pc = pc /\ request'[c].name = request[c].name
<1> DEFINE r == [request[c] EXCEPT !.pc = pc]
<1>1. request[c] \in RequestState
  BY DEF Typed, RequestOK
<1>2. r \in RequestState /\ r.pc = pc /\ r.name = request[c].name
  BY <1>1 DEF RequestState
<1>3. request' = [request EXCEPT ![c] = r]
  BY DEF Go
<1> HIDE DEF r
<1>4. Shape(r)
  BY <1>2 DEF Shape
<1> QED BY <1>2, <1>3, <1>4, OneRequest

LEMMA NameEffects ==
  ASSUME Typed, NEW c \in Conn, NEW n \in Name, NEW pc \in {"write", "fill", "refill"},
         request' = [request EXCEPT ![c].pc = pc, ![c].name = n]
  PROVE  Only(c) /\ request'[c].pc = pc /\ request'[c].name = n
<1> DEFINE r == [request[c] EXCEPT !.pc = pc, !.name = n]
<1>1. request[c] \in RequestState /\ pc \in Pc
  BY DEF Typed, RequestOK, Pc
<1>2. r \in RequestState /\ r.pc = pc /\ r.name = n
  BY <1>1 DEF RequestState
<1>3. request' = [request EXCEPT ![c] = r]
  OBVIOUS
<1> HIDE DEF r
<1>4. Shape(r)
  BY <1>2 DEF Shape
<1> QED BY <1>2, <1>3, <1>4, OneRequest

LEMMA LoadEffects ==
  ASSUME Typed, NEW c \in Conn, NEW q \in Row,
         request' = [request EXCEPT ![c].pc = "save", ![c].id = q.id]
  PROVE  Only(c) /\ request'[c].pc = "save" /\ request'[c].name = request[c].name
<1> DEFINE r == [request[c] EXCEPT !.pc = "save", !.id = q.id]
<1>1. request[c] \in RequestState /\ q.id \in 0 .. MaxCommits
  BY StorageAssumption DEF Typed, RequestOK, Row, StorageAssumption
<1>2. r \in RequestState /\ r.pc = "save" /\ r.name = request[c].name
  BY <1>1 DEF RequestState, Pc
<1>3. request' = [request EXCEPT ![c] = r]
  OBVIOUS
<1> HIDE DEF r
<1>4. Shape(r)
  BY <1>2 DEF Shape
<1> QED BY <1>2, <1>3, <1>4, OneRequest

LEMMA EndEffects ==
  ASSUME Typed, NEW c \in Conn, End(c)
  PROVE  Only(c) /\ request'[c].pc = "idle" /\ request'[c].name = None
BY OneRequest, IdleShape DEF End

-----------------------------------------------------------------------------
(* Reads and commits                                                        *)

LEMMA QueryEffects ==
  ASSUME Typed, NEW c \in Conn, Query(c)
  PROVE  /\ CacheOK' /\ cache'[c] = Rows(file.change, View(c)) /\ file.state = "rows"
         /\ cache'[c].rows = View(c) /\ cache'[c].change = file.change
         /\ \A x \in Conn \ {c} : cache'[x] = cache[x]
<1>1. View(c) \in SUBSET Row /\ file.change \in Nat
  BY ViewFacts
<1>2. Sound(Rows(file.change, View(c))) /\ Rows(file.change, View(c)).rows = View(c)
      /\ Rows(file.change, View(c)).change = file.change
  BY <1>1, RowsSound
<1>3. cache' = [cache EXCEPT ![c] = Rows(file.change, View(c))] /\ file.state = "rows"
  BY DEF Query
<1> QED BY <1>2, <1>3 DEF Typed, CacheOK, Sound

LEMMA CommitEffects ==
  ASSUME Typed, NEW c \in Conn, NEW r \in SUBSET Row, Commit(c, r)
  PROVE  /\ CacheOK' /\ FileOK' /\ commits' \in 0 .. MaxCommits
         /\ file.state = "rows" /\ file'.rows = r /\ file'.change = file.change + 1
         /\ file'.state = "rows" /\ cache'[c] = file'
         /\ \A x \in Conn \ {c} : cache'[x] = cache[x]
<1>1. file.change \in Nat /\ file.change + 1 \in Nat
  BY ViewFacts
<1> DEFINE f == Rows(file.change + 1, r)
<1>2. Sound(f) /\ f.rows = r /\ f.change = file.change + 1 /\ f.state = "rows"
  BY <1>1, RowsSound
<1>3. file' = f /\ cache' = [cache EXCEPT ![c] = file'] /\ commits' = commits + 1
      /\ commits < MaxCommits /\ file.state = "rows"
  BY DEF Commit
<1> HIDE DEF f
<1>4. cache' = [cache EXCEPT ![c] = f]
  BY <1>3
<1>5. CacheOK'
  BY <1>2, <1>4 DEF Typed, CacheOK, Sound
<1>6. commits' \in 0 .. MaxCommits
  BY <1>3, StorageAssumption DEF Typed, Scalars, StorageAssumption
<1>7. cache'[c] = f /\ \A x \in Conn \ {c} : cache'[x] = cache[x]
  BY <1>4 DEF Typed, CacheOK
<1> QED BY <1>2, <1>3, <1>5, <1>6, <1>7 DEF FileOK

LEMMA InsertEffects ==
  ASSUME Typed, NEW c \in Conn, NEW f \in Name \cup {None}, NEW key \in BOOLEAN,
         InsertRow(c, f, key)
  PROVE  /\ Commit(c, View(c) \cup {NewRow(c, f, key)})
         /\ View(c) \cup {NewRow(c, f, key)} \in SUBSET Row
         /\ NewRow(c, f, key).file = f
<1>1. Commit(c, View(c) \cup {NewRow(c, f, key)}) /\ commits < MaxCommits
  BY DEF InsertRow, NewRow, Commit
<1> QED BY <1>1, NewRowType, ViewFacts

-----------------------------------------------------------------------------
(* Types                                                                   *)

LEMMA RequestStep ==
  ASSUME Typed, NEW c \in Conn, Only(c), request'[c].pc # "refill",
         \A n \in Name : backups[n].state # "absent" => backups'[n].state # "absent"
  PROVE  RequestOK' /\ RefillOK'
<1>1. RequestOK'
  BY DEF Typed, RequestOK, Only
<1>2. ASSUME NEW x \in Conn, request'[x].pc = "refill"
      PROVE  backups'[request'[x].name].state # "absent"
  <2>1. x # c /\ request'[x] = request[x]
    BY <1>2 DEF Only
  <2>2. backups[request[x].name].state # "absent" /\ request[x].name \in Name
    BY <1>2, <2>1 DEF Typed, RefillOK, RequestOK, Shape
  <2> QED BY <2>1, <2>2
<1> QED BY <1>1, <1>2 DEF RefillOK

\* Only RestoreOpen leaves a request where it refills the file.
LEMMA StepPc ==
  ASSUME Typed, NEW c \in Conn, Step(c), ~\E n \in Name : RestoreOpen(c, n)
  PROVE  request'[c].pc # "refill"
<1>0. Routes \subseteq Pc \ {"idle", "write", "fill", "refill"} /\ Shape(request[c])
      /\ {"audit", "create", "insert"} \subseteq Pc \ {"idle", "write", "fill", "refill"}
  BY DEF Routes, Pc, Typed, RequestOK
<1>1. CASE \E pc \in Routes : Authenticate(c, pc)
  BY <1>0, <1>1, GoEffects DEF Authenticate
<1>2. CASE Insert(c) \/ ReportWrite(c) \/ Save(c) \/ CreateSetting(c)
  BY <1>0, <1>2, GoEffects, EndEffects DEF Insert, ReportWrite, Save, CreateSetting
<1>3. CASE Audit(c) \/ Fail(c) \/ MarkAll(c)
  BY <1>3, EndEffects DEF Audit, Fail, MarkAll
<1>4. CASE \E n \in Name : ReportOpen(c, n) \/ BackupOpen(c, n)
  BY <1>4, NameEffects DEF ReportOpen, BackupOpen
<1>5. CASE BackupFill(c) \/ RestoreFill(c) \/ CheckKey(c)
  <2>1. Go(c, "audit") \/ Go(c, "create") \/ End(c)
    BY <1>5 DEF BackupFill, RestoreFill, CheckKey
  <2> QED BY <1>0, <2>1, GoEffects, EndEffects
<1>6. CASE \E r \in file.rows \cup UNION {cache[x].rows : x \in Conn} : Load(c, r)
  BY <1>6, ViewFacts, LoadEffects DEF Load
<1> QED BY <1>1, <1>2, <1>3, <1>4, <1>5, <1>6 DEF Step

\* The conjuncts of Typed that a step leaves alone
LEMMA Same ==
  ASSUME Typed
  PROVE  /\ UNCHANGED <<up, starts, commits, restored>> => Scalars'
         /\ UNCHANGED file => FileOK'
         /\ UNCHANGED cache => CacheOK'
         /\ UNCHANGED backups => BackupsOK'
         /\ UNCHANGED <<reports, again>> => ReportsOK'
BY DEF Typed, Scalars, FileOK, CacheOK, BackupsOK, ReportsOK, Sound

LEMMA CommitTyped ==
  ASSUME Typed, NEW c \in Conn, NEW r \in SUBSET Row, Commit(c, r),
         Only(c), request'[c].pc \in {"audit", "idle"},
         UNCHANGED <<up, starts, disk, restored>>
  PROVE  Typed'
<1>1. CacheOK' /\ FileOK' /\ commits' \in 0 .. MaxCommits
  BY CommitEffects
<1>2. UNCHANGED <<backups, reports, again>> /\ Scalars'
  BY <1>1 DEF disk, Typed, Scalars
<1>3. RequestOK' /\ RefillOK'
  BY <1>2, RequestStep
<1> QED BY <1>1, <1>2, <1>3, Same DEF Typed

LEMMA StepTyped ==
  ASSUME Typed, NEW c \in Conn, Step(c)
  PROVE  Typed'
<1>0. Routes \subseteq Pc \ {"idle", "write", "fill", "refill"} /\ Shape(request[c])
      /\ {"audit", "create", "insert"} \subseteq Pc \ {"idle", "write", "fill", "refill"}
  BY DEF Routes, Pc, Typed, RequestOK
<1>1. CASE \E pc \in Routes : Authenticate(c, pc)
  <2>1. PICK pc \in Routes : Authenticate(c, pc)
    BY <1>1
  <2>2. Only(c) /\ request'[c].pc # "refill"
    BY <1>0, <2>1, GoEffects DEF Authenticate
  <2>3. UNCHANGED <<up, starts, file, backups, reports, again, commits, restored>>
    BY <2>1 DEF Authenticate, disk, ghosts
  <2>4. CacheOK'
    <3>1. CASE cache' = cache
      BY <3>1, Same
    <3>2. CASE cache' = [cache EXCEPT ![c] = Empty]
      BY <3>2, HollowSound DEF Typed, CacheOK, Sound
    <3> QED BY <2>1, <3>1, <3>2 DEF Authenticate
  <2>5. RequestOK' /\ RefillOK'
    BY <2>2, <2>3, RequestStep
  <2> QED BY <2>3, <2>4, <2>5, Same DEF Typed
<1>2. CASE Insert(c)
  <2>1. Only(c) /\ request'[c].pc = "audit"
    BY <1>0, <1>2, GoEffects DEF Insert
  <2>2. request[c].name \in Name \cup {None}
    BY <1>0 DEF Shape, RequestState
  <2>3. Commit(c, View(c) \cup {NewRow(c, request[c].name, FALSE)})
        /\ View(c) \cup {NewRow(c, request[c].name, FALSE)} \in SUBSET Row
    BY <1>2, <2>2, InsertEffects DEF Insert
  <2> QED BY <1>0, <1>2, <2>1, <2>3, CommitTyped DEF Insert
<1>3. CASE Audit(c)
  <2>1. Only(c) /\ request'[c].pc = "idle"
    BY <1>3, EndEffects DEF Audit
  <2>2. Commit(c, View(c) \cup {NewRow(c, None, FALSE)})
        /\ View(c) \cup {NewRow(c, None, FALSE)} \in SUBSET Row
    BY <1>3, InsertEffects DEF Audit
  <2> QED BY <1>0, <1>3, <2>1, <2>2, CommitTyped DEF Audit
<1>4. CASE Fail(c)
  <2>1. Only(c) /\ request'[c].pc = "idle"
    BY <1>4, EndEffects DEF Fail
  <2>2. UNCHANGED <<up, starts, file, cache, backups, commits, restored>>
    BY <1>4 DEF Fail, ghosts
  <2>3. ReportsOK'
    BY <1>4 DEF Fail, BrokenOff, Typed, ReportsOK, Status
  <2>4. RequestOK' /\ RefillOK'
    BY <2>1, <2>2, RequestStep
  <2> QED BY <2>2, <2>3, <2>4, Same DEF Typed
<1>5. CASE \E n \in Name : ReportOpen(c, n)
  <2>1. PICK n \in Name : ReportOpen(c, n)
    BY <1>5
  <2>2. Only(c) /\ request'[c].pc = "write"
    BY <2>1, NameEffects DEF ReportOpen
  <2>3. UNCHANGED <<up, starts, file, backups, commits, restored>> /\ CacheOK'
    BY <2>1, QueryEffects DEF ReportOpen, ghosts
  <2>4. ReportsOK'
    BY <2>1 DEF ReportOpen, Typed, ReportsOK, Status
  <2>5. RequestOK' /\ RefillOK'
    BY <2>2, <2>3, RequestStep
  <2> QED BY <2>3, <2>4, <2>5, Same DEF Typed
<1>6. CASE ReportWrite(c)
  <2>1. Only(c) /\ request'[c].pc = "insert"
    BY <1>0, <1>6, GoEffects DEF ReportWrite
  <2>2. UNCHANGED <<up, starts, file, cache, backups, commits, restored>>
    BY <1>6 DEF ReportWrite, ghosts
  <2>3. ReportsOK'
    BY <1>6 DEF ReportWrite, Typed, ReportsOK, Status
  <2>4. RequestOK' /\ RefillOK'
    BY <2>1, <2>2, RequestStep
  <2> QED BY <2>2, <2>3, <2>4, Same DEF Typed
<1>7. CASE \E n \in Name : BackupOpen(c, n)
  <2>1. PICK n \in Name : BackupOpen(c, n)
    BY <1>7
  <2>2. Only(c) /\ request'[c].pc = "fill"
    BY <2>1, NameEffects DEF BackupOpen
  <2>3. UNCHANGED <<up, starts, file, cache, reports, again, commits, restored>>
    BY <2>1 DEF BackupOpen, ghosts
  <2>4. backups' = [backups EXCEPT ![n] = Empty]
    BY <2>1 DEF BackupOpen
  <2>5. BackupsOK' /\ \A x \in Name : backups[x].state # "absent" => backups'[x].state # "absent"
    BY <2>4, HollowSound DEF Typed, BackupsOK, Sound
  <2>6. RequestOK' /\ RefillOK'
    BY <2>2, <2>5, RequestStep
  <2> QED BY <2>3, <2>5, <2>6, Same DEF Typed
<1>8. CASE BackupFill(c)
  <2>1. Only(c) /\ request'[c].pc \in {"audit", "idle"}
    BY <1>0, <1>8, GoEffects, EndEffects DEF BackupFill
  <2>2. UNCHANGED <<up, starts, file, cache, reports, again, commits, restored>>
    BY <1>8 DEF BackupFill, ghosts
  <2>3. PICK b : b \in {file, Broken} /\ backups' = [backups EXCEPT ![request[c].name] = b]
    BY <1>8 DEF BackupFill
  <2>4. Sound(b) /\ b.state # "absent"
    BY <2>3, HollowSound DEF Typed, FileOK
  <2>5. BackupsOK' /\ \A x \in Name : backups[x].state # "absent" => backups'[x].state # "absent"
    BY <2>3, <2>4 DEF Typed, BackupsOK, Sound
  <2>6. RequestOK' /\ RefillOK'
    BY <2>1, <2>5, RequestStep
  <2> QED BY <2>2, <2>5, <2>6, Same DEF Typed
<1>9. CASE \E n \in Name : RestoreOpen(c, n)
  <2>1. PICK n \in Name : RestoreOpen(c, n)
    BY <1>9
  <2>2. Only(c) /\ request'[c].pc = "refill" /\ request'[c].name = n
    BY <2>1, NameEffects DEF RestoreOpen
  <2>3. UNCHANGED <<up, starts, cache, backups, reports, again, commits>> /\ restored' = TRUE
        /\ file' = Empty
    BY <2>1 DEF RestoreOpen, disk
  <2>4. backups[n].state # "absent"
    BY <2>1 DEF RestoreOpen, Typed, BackupsOK, Sound, Absent
  <2>5. RequestOK' /\ RefillOK'
    BY <2>2, <2>3, <2>4 DEF Typed, RequestOK, RefillOK, Only
  <2>6. FileOK' /\ Scalars'
    BY <2>3, HollowSound DEF FileOK, Typed, Scalars
  <2> QED BY <2>3, <2>5, <2>6, Same DEF Typed
<1>10. CASE RestoreFill(c)
  <2>1. Only(c) /\ request'[c].pc \in {"audit", "idle"}
    BY <1>0, <1>10, GoEffects, EndEffects DEF RestoreFill
  <2>2. UNCHANGED <<up, starts, cache, backups, reports, again, commits, restored>>
    BY <1>10 DEF RestoreFill, ghosts, disk
  <2>3. file' \in {backups[request[c].name], Broken}
    BY <1>10 DEF RestoreFill
  <2>4. request[c].name \in Name /\ backups[request[c].name].state # "absent"
    BY <1>0, <1>10 DEF RestoreFill, At, Shape, Typed, RefillOK
  <2>5. FileOK'
    BY <2>3, <2>4, HollowSound DEF FileOK, Typed, BackupsOK
  <2>6. RequestOK' /\ RefillOK'
    BY <2>1, <2>2, RequestStep
  <2> QED BY <2>2, <2>5, <2>6, Same DEF Typed
<1>11. CASE CheckKey(c)
  <2>1. Only(c) /\ request'[c].pc \in {"create", "idle"}
    BY <1>0, <1>11, GoEffects, EndEffects DEF CheckKey
  <2>2. UNCHANGED <<up, starts, file, backups, reports, again, commits, restored>> /\ CacheOK'
    BY <1>11, QueryEffects DEF CheckKey, ghosts, disk
  <2>3. RequestOK' /\ RefillOK'
    BY <2>1, <2>2, RequestStep
  <2> QED BY <2>2, <2>3, Same DEF Typed
<1>12. CASE CreateSetting(c)
  <2>1. Only(c) /\ request'[c].pc = "audit"
    BY <1>0, <1>12, GoEffects DEF CreateSetting
  <2>2. Commit(c, View(c) \cup {NewRow(c, None, TRUE)})
        /\ View(c) \cup {NewRow(c, None, TRUE)} \in SUBSET Row
    BY <1>12, InsertEffects DEF CreateSetting
  <2> QED BY <1>0, <1>12, <2>1, <2>2, CommitTyped DEF CreateSetting
<1>13. CASE Save(c)
  <2>1. Only(c) /\ request'[c].pc \in {"audit", "idle"}
    BY <1>0, <1>13, GoEffects, EndEffects DEF Save
  <2>2. Done(View(c), {request[c].id}) \in SUBSET Row
    BY ViewFacts, DoneFacts
  <2> QED BY <1>0, <1>13, <2>1, <2>2, CommitTyped DEF Save
<1>14. CASE MarkAll(c)
  <2>1. Only(c) /\ request'[c].pc = "idle"
    BY <1>14, EndEffects DEF MarkAll
  <2>2. Done(View(c), 1 .. MaxCommits) \in SUBSET Row
    BY ViewFacts, DoneFacts
  <2> QED BY <1>0, <1>14, <2>1, <2>2, CommitTyped DEF MarkAll
<1>15. CASE \E r \in file.rows \cup UNION {cache[x].rows : x \in Conn} : Load(c, r)
  <2>1. PICK r : Load(c, r)
    BY <1>15
  <2>2. r \in Row
    BY <2>1, ViewFacts DEF Load
  <2>3. Only(c) /\ request'[c].pc = "save"
    BY <2>1, <2>2, LoadEffects DEF Load
  <2>4. UNCHANGED <<up, starts, file, backups, reports, again, commits, restored>> /\ CacheOK'
    BY <2>1, QueryEffects DEF Load, ghosts, disk
  <2>5. RequestOK' /\ RefillOK'
    BY <2>3, <2>4, RequestStep
  <2> QED BY <2>4, <2>5, Same DEF Typed
<1> QED BY <1>1, <1>2, <1>3, <1>4, <1>5, <1>6, <1>7, <1>8, <1>9, <1>10, <1>11, <1>12, <1>13,
           <1>14, <1>15 DEF Step

LEMMA CrashTyped == ASSUME Typed, Crash PROVE Typed'
<1>1. UNCHANGED <<starts, file, backups, commits>> /\ up' = FALSE /\ restored' = FALSE
  BY DEF Crash
<1>2. CacheOK'
  BY HollowSound DEF Crash, CacheOK, Sound
<1>3. RequestOK' /\ RefillOK'
  BY IdleShape DEF Crash, RequestOK, RefillOK, Shape
<1>4. ReportsOK'
  BY DEF Crash, BrokenOff, Typed, ReportsOK, Status
<1>5. Scalars'
  BY <1>1 DEF Typed, Scalars
<1> QED BY <1>1, <1>2, <1>3, <1>4, <1>5, Same DEF Typed

LEMMA StartTyped == ASSUME Typed, Start PROVE Typed'
<1>1. UNCHANGED <<cache, backups, reports, again, request, commits, restored>>
  BY DEF Start, disk, ghosts
<1>2. FileOK'
  <2>1. Sound(Rows(1, {})) /\ Rows(1, {}).state = "rows"
    BY RowsSound
  <2> QED BY <2>1 DEF Start, Typed, FileOK
<1>3. Scalars'
  BY StorageAssumption DEF Start, Typed, Scalars, ghosts, StorageAssumption
<1>4. RequestOK' /\ RefillOK'
  BY <1>1 DEF Typed, RequestOK, RefillOK
<1> QED BY <1>1, <1>2, <1>3, <1>4, Same DEF Typed

LEMMA InitTyped == Init => Typed
<1> SUFFICES ASSUME Init PROVE Typed
  OBVIOUS
<1>1. Scalars
  <2>1. up \in BOOLEAN /\ restored \in BOOLEAN
    BY Zenon DEF Init
  <2>2. starts \in 0 .. MaxStarts /\ commits \in 0 .. MaxCommits
    BY StorageAssumption DEF Init, StorageAssumption
  <2> QED BY <2>1, <2>2 DEF Scalars
<1>2. FileOK
  BY RowsSound DEF Init, FileOK
<1>3. CacheOK /\ BackupsOK
  BY HollowSound DEF Init, CacheOK, BackupsOK, Sound
<1>4. RequestOK /\ RefillOK
  BY IdleShape DEF Init, RequestOK, RefillOK, Shape
<1>5. ReportsOK
  BY DEF Init, ReportsOK, Status
<1> QED BY <1>1, <1>2, <1>3, <1>4, <1>5 DEF Typed

LEMMA NextTyped == Typed /\ [Next]_vars => Typed'
<1> SUFFICES ASSUME Typed, [Next]_vars PROVE Typed'
  OBVIOUS
<1>1. CASE UNCHANGED vars
  <2>1. UNCHANGED <<up, starts, file, cache, backups, reports, again, request, commits, restored>>
    BY <1>1 DEF vars, disk, ghosts
  <2> QED BY <2>1, Same DEF Typed, RequestOK, RefillOK
<1> QED BY <1>1, StepTyped, CrashTyped, StartTyped DEF Next

\* TypeOK holds for any connections, names and bounds.
THEOREM TypeCorrect == Spec => []TypeOK
<1>1. Typed => TypeOK
  <2> SUFFICES ASSUME Typed PROVE TypeOK
    OBVIOUS
  <2>1. file \in Content /\ file.state \in {"empty", "broken", "rows"}
    BY SoundFacts DEF Typed, FileOK, Sound
  <2> QED BY <2>1 DEF Typed, Scalars, CacheOK, BackupsOK, ReportsOK, RequestOK, RequestState,
                      Status, Pc, TypeOK
<1> QED BY <1>1, InitTyped, NextTyped, PTL DEF Spec

-----------------------------------------------------------------------------
(* What a step does to contents                                             *)

\* A step reads, commits, copies, or leaves all contents alone.
Reads(c) == Query(c) /\ UNCHANGED <<file, backups>>
Commits(c) ==
  \E r \in SUBSET Row :
    /\ Commit(c, r) /\ UNCHANGED backups
    /\ Kept(View(c), r)
    /\ \A p \in r : \/ \E q \in View(c) : p.file = q.file
                    \/ p.file = None
                    \/ request[c].pc = "insert" /\ p.file = request[c].name
Forgets(c) == /\ cache' \in {cache, [cache EXCEPT ![c] = Empty]}
              /\ UNCHANGED <<file, backups>>
Copies == /\ UNCHANGED <<file, cache>>
          /\ \E n \in Name, b \in {file, Empty, Broken} : backups' = [backups EXCEPT ![n] = b]
Restores(c) == /\ RestoreFill(c) \/ \E n \in Name : RestoreOpen(c, n)
               /\ restored' /\ UNCHANGED <<cache, backups>>
               /\ file' \in {Empty, Broken} \cup {backups[n] : n \in Name}

LEMMA InsertCommits ==
  ASSUME Typed, NEW c \in Conn, NEW f \in Name \cup {None}, NEW key \in BOOLEAN,
         InsertRow(c, f, key), UNCHANGED backups,
         f = None \/ (request[c].pc = "insert" /\ f = request[c].name)
  PROVE  Commits(c)
<1> DEFINE r == View(c) \cup {NewRow(c, f, key)}
<1>1. Commit(c, r) /\ r \in SUBSET Row /\ NewRow(c, f, key).file = f
  BY InsertEffects
<1>2. Kept(View(c), r)
  BY DEF Kept
<1> QED BY <1>1, <1>2 DEF Commits

LEMMA DoneCommits ==
  ASSUME Typed, NEW c \in Conn, NEW ids, Commit(c, Done(View(c), ids)), UNCHANGED backups
  PROVE  Commits(c)
<1>1. View(c) \in SUBSET Row
  BY ViewFacts
<1>2. /\ Done(View(c), ids) \in SUBSET Row
      /\ Kept(View(c), Done(View(c), ids))
      /\ \A p \in Done(View(c), ids) : \E q \in View(c) : p.file = q.file
  BY <1>1, DoneFacts
<1> QED BY <1>2 DEF Commits

LEMMA StepContents ==
  ASSUME Typed, NEW c \in Conn, Step(c),
         \A x \in Conn : request[x].pc = "refill" => restored
  PROVE  /\ Reads(c) \/ Commits(c) \/ Forgets(c) \/ Copies \/ Restores(c)
         /\ restored' = restored \/ restored'
         /\ up /\ up'
<1>0. up /\ up' = up
  BY DEF Step, Authenticate, Insert, Audit, Fail, ReportOpen, ReportWrite, BackupOpen, BackupFill,
         RestoreOpen, RestoreFill, CheckKey, CreateSetting, Load, Save, MarkAll, At
<1>1. CASE \E pc \in Routes : Authenticate(c, pc)
  BY <1>0, <1>1 DEF Authenticate, Forgets, disk, ghosts
<1>2. CASE Insert(c)
  <2>1. request[c].name \in Name \cup {None}
    BY DEF Typed, RequestOK, Shape, RequestState
  <2>2. /\ InsertRow(c, request[c].name, FALSE) /\ request[c].pc = "insert"
        /\ UNCHANGED backups /\ restored' = restored
    BY <1>2 DEF Insert, At, disk
  <2>3. Commits(c)
    BY <2>1, <2>2, InsertCommits
  <2> QED BY <1>0, <2>2, <2>3
<1>3. CASE Audit(c)
  <2>1. InsertRow(c, None, FALSE) /\ UNCHANGED backups /\ restored' = restored
    BY <1>3 DEF Audit, disk
  <2>2. Commits(c)
    BY <2>1, InsertCommits
  <2> QED BY <1>0, <2>1, <2>2
<1>4. CASE Fail(c) \/ ReportWrite(c)
  BY <1>0, <1>4 DEF Fail, ReportWrite, Forgets, ghosts
<1>5. CASE \E n \in Name : ReportOpen(c, n)
  BY <1>0, <1>5 DEF ReportOpen, Reads, ghosts
<1>6. CASE \E n \in Name : BackupOpen(c, n)
  BY <1>0, <1>6 DEF BackupOpen, Copies, ghosts
<1>7. CASE BackupFill(c)
  <2>1. request[c].name \in Name
    BY <1>7 DEF BackupFill, At, Typed, RequestOK, Shape
  <2> QED BY <1>0, <1>7, <2>1 DEF BackupFill, Copies, ghosts
<1>8. CASE \E n \in Name : RestoreOpen(c, n)
  BY <1>0, <1>8 DEF RestoreOpen, Restores, disk
<1>9. CASE RestoreFill(c)
  <2>1. request[c].name \in Name /\ request[c].pc = "refill"
    BY <1>9 DEF RestoreFill, At, Typed, RequestOK, Shape
  <2>2. file' \in {backups[request[c].name], Broken}
    BY <1>9 DEF RestoreFill
  <2> QED BY <1>0, <1>9, <2>1, <2>2 DEF RestoreFill, Restores, disk, ghosts
<1>10. CASE CheckKey(c)
  BY <1>0, <1>10 DEF CheckKey, Reads, disk, ghosts
<1>11. CASE CreateSetting(c)
  <2>1. InsertRow(c, None, TRUE) /\ UNCHANGED backups /\ restored' = restored
    BY <1>11 DEF CreateSetting, disk
  <2>2. Commits(c)
    BY <2>1, InsertCommits
  <2> QED BY <1>0, <2>1, <2>2
<1>12. CASE Save(c)
  BY <1>0, <1>12, DoneCommits DEF Save, disk
<1>13. CASE MarkAll(c)
  BY <1>0, <1>13, DoneCommits DEF MarkAll, disk
<1>14. CASE \E r \in file.rows \cup UNION {cache[x].rows : x \in Conn} : Load(c, r)
  BY <1>0, <1>14 DEF Load, Reads, disk, ghosts
<1> QED BY <1>1, <1>2, <1>3, <1>4, <1>5, <1>6, <1>7, <1>8, <1>9, <1>10, <1>11, <1>12, <1>13,
           <1>14 DEF Step

-----------------------------------------------------------------------------
(* Only a restore takes back                                                *)

\* Until a restore, pages that a connection takes for current are current.
Current ==
  /\ \A c \in Conn : request[c].pc = "refill" => restored
  /\ ~up => \A c \in Conn : cache[c].state # "rows"
  /\ ~restored => \A c \in Conn : cache[c].state = "rows" =>
       /\ cache[c].change <= file.change
       /\ cache[c].change = file.change => cache[c].rows = file.rows

LEMMA KeptSelf == \A r : Kept(r, r)
BY DEF Kept

LEMMA StepCurrent ==
  ASSUME Typed, Current, NEW c \in Conn, Step(c)
  PROVE  Current' /\ (~restored' => Kept(file.rows, file'.rows))
<1>1. /\ Reads(c) \/ Commits(c) \/ Forgets(c) \/ Copies \/ Restores(c)
      /\ up /\ up'
  BY StepContents DEF Current
<1>2. restored => restored'
  BY DEF Step, Authenticate, Insert, Audit, Fail, ReportOpen, ReportWrite, BackupOpen, BackupFill,
         RestoreOpen, RestoreFill, CheckKey, CreateSetting, Load, Save, MarkAll, ghosts
<1>3. \A x \in Conn : request'[x].pc = "refill" => restored'
  <2>1. CASE \E n \in Name : RestoreOpen(c, n)
    BY <2>1 DEF RestoreOpen
  <2>2. CASE ~\E n \in Name : RestoreOpen(c, n)
    <3>1. \A x \in Conn \ {c} : request'[x] = request[x]
      BY DEF Step, Authenticate, Insert, Audit, Fail, ReportOpen, ReportWrite, BackupOpen,
             BackupFill, RestoreOpen, RestoreFill, CheckKey, CreateSetting, Load, Save, MarkAll,
             Go, End, Typed, RequestOK
    <3>2. request'[c].pc # "refill"
      BY <2>2, StepPc
    <3> QED BY <1>2, <3>1, <3>2 DEF Current
  <2> QED BY <2>1, <2>2
<1> DEFINE Agree(x) == /\ cache'[x].change <= file'.change
                       /\ cache'[x].change = file'.change => cache'[x].rows = file'.rows
<1>4. ASSUME ~restored'
      PROVE  /\ Kept(file.rows, file'.rows)
             /\ \A x \in Conn : cache'[x].state = "rows" => Agree(x)
  <2>0. /\ ~restored /\ file.change \in Nat
        /\ \A x \in Conn : cache[x].change \in Nat
        /\ \A x \in Conn : cache[x].state = "rows" =>
             /\ cache[x].change <= file.change
             /\ cache[x].change = file.change => cache[x].rows = file.rows
    BY <1>2, <1>4, SoundFacts DEF Current, Typed, FileOK, CacheOK
  <2>1. View(c) = file.rows
    BY <2>0 DEF View, Knows
  <2>2. CASE Reads(c)
    <3>1. cache'[c].rows = file.rows /\ cache'[c].change = file.change
          /\ (\A x \in Conn \ {c} : cache'[x] = cache[x]) /\ file' = file
      BY <2>1, <2>2, QueryEffects DEF Reads
    <3> QED BY <2>0, <3>1, KeptSelf
  <2>3. CASE Commits(c)
    <3>1. PICK r \in SUBSET Row : Commit(c, r) /\ Kept(View(c), r)
      BY <2>3 DEF Commits
    <3>2. /\ file'.rows = r /\ file'.change = file.change + 1 /\ cache'[c] = file'
          /\ \A x \in Conn \ {c} : cache'[x] = cache[x]
      BY <3>1, CommitEffects
    <3>3. ASSUME NEW x \in Conn, cache'[x].state = "rows" PROVE Agree(x)
      <4>1. CASE x = c
        BY <2>0, <3>2, <4>1
      <4>2. CASE x # c
        BY <2>0, <3>2, <3>3, <4>2
      <4> QED BY <4>1, <4>2
    <3> QED BY <2>1, <3>1, <3>2, <3>3
  <2>4. CASE Forgets(c)
    <3>1. file' = file /\ \A x \in Conn : cache'[x] = cache[x] \/ cache'[x] = Empty
      BY <2>4 DEF Forgets, Typed, CacheOK
    <3> QED BY <2>0, <3>1, KeptSelf, HollowSound
  <2>5. CASE Copies
    BY <2>0, <2>5, KeptSelf DEF Copies
  <2>6. CASE Restores(c)
    BY <1>4, <2>6 DEF Restores
  <2> QED BY <1>1, <2>2, <2>3, <2>4, <2>5, <2>6
<1> QED BY <1>1, <1>3, <1>4 DEF Current

LEMMA NextCurrent ==
  ASSUME Typed, Current, [Next]_vars
  PROVE  Current' /\ (~restored' => Kept(file.rows, file'.rows))
<1>1. CASE UNCHANGED vars
  BY <1>1, KeptSelf DEF vars, disk, ghosts, Current
<1>2. CASE Crash
  <2>1. file' = file /\ (\A x \in Conn : cache'[x] = Empty /\ request'[x] = Idle)
    BY <1>2 DEF Crash
  <2> QED BY <2>1, KeptSelf, HollowSound, IdleShape DEF Current
<1>3. CASE Start
  <2>1. ~up /\ UNCHANGED <<cache, request, restored>>
    BY <1>3 DEF Start, ghosts
  <2>2. file' = file \/ file = Empty
    BY <1>3 DEF Start
  <2>3. Kept(file.rows, file'.rows)
    BY <2>2, KeptSelf, HollowSound DEF Kept
  <2>4. \A x \in Conn : cache'[x].state # "rows"
    BY <2>1 DEF Current
  <2> QED BY <2>1, <2>3, <2>4 DEF Current
<1> QED BY <1>1, <1>2, <1>3, StepCurrent DEF Next

\* OnlyRestoreTakesBack holds for any connections: a commit replaces the pages in the file
\* by its connection's, and until a restore those are the file's.
THEOREM OnlyRestoreTakesBackCorrect == Spec => OnlyRestoreTakesBack
<1>1. Init => Current
  BY HollowSound, IdleShape DEF Init, Current
<1>2. Typed /\ Current /\ [Next]_vars => Current'
  BY NextCurrent
<1>3. Typed /\ Current /\ [Next]_vars =>
        [~restored' => \A r \in file.rows : \E q \in file'.rows :
            q.id = r.id /\ q.file = r.file /\ q.key = r.key /\ (r.done => q.done)]_vars
  BY NextCurrent DEF Kept
<1> QED BY <1>1, <1>2, <1>3, InitTyped, NextTyped, PTL DEF Spec, OnlyRestoreTakesBack

-----------------------------------------------------------------------------
(* What a restore that closes all connections would promise                  *)

\* While the file is being replaced no connection has pages of it.
Closed == \A c \in Conn : request[c].pc = "refill" => \A x \in Conn : cache[x].state # "rows"

\* Pages that a connection takes for current are current.
Coherent ==
  /\ ~up => \A c \in Conn : cache[c].state # "rows"
  /\ \A c \in Conn : cache[c].state = "rows" =>
       /\ cache[c].change <= file.change
       /\ cache[c].change = file.change => cache[c].rows = file.rows

LEMMA StepCoherent ==
  ASSUME Typed, \A x \in Conn : request[x].pc = "refill" => restored,
         Closed, Closed', Coherent, NEW c \in Conn, Step(c)
  PROVE  Coherent'
<1>0. /\ file.change \in Nat /\ \A x \in Conn : cache[x].change \in Nat
      /\ View(c) = file.rows
  BY SoundFacts DEF Typed, FileOK, CacheOK, Coherent, View, Knows
<1>1. Reads(c) \/ Commits(c) \/ Forgets(c) \/ Copies \/ Restores(c)
  BY StepContents
<1>u. up /\ up'
  BY StepContents
<1> DEFINE Agree(x) == /\ cache'[x].change <= file'.change
                       /\ cache'[x].change = file'.change => cache'[x].rows = file'.rows
<1> SUFFICES ASSUME NEW x \in Conn, cache'[x].state = "rows" PROVE Agree(x)
  BY <1>u DEF Coherent
<1>2. CASE Reads(c)
  <2>1. cache'[c].rows = file.rows /\ cache'[c].change = file.change
        /\ (\A v \in Conn \ {c} : cache'[v] = cache[v]) /\ file' = file
    BY <1>0, <1>2, QueryEffects DEF Reads
  <2> QED BY <1>0, <2>1 DEF Coherent
<1>3. CASE Commits(c)
  <2>1. PICK r \in SUBSET Row : Commit(c, r)
    BY <1>3 DEF Commits
  <2>2. /\ file'.change = file.change + 1 /\ cache'[c] = file'
        /\ \A v \in Conn \ {c} : cache'[v] = cache[v]
    BY <2>1, CommitEffects
  <2>3. CASE x = c
    BY <1>0, <2>2, <2>3
  <2>4. CASE x # c
    BY <1>0, <2>2, <2>4 DEF Coherent
  <2> QED BY <2>3, <2>4
<1>4. CASE Forgets(c)
  <2>1. file' = file /\ \A v \in Conn : cache'[v] = cache[v] \/ cache'[v] = Empty
    BY <1>4 DEF Forgets, Typed, CacheOK
  <2> QED BY <2>1, HollowSound DEF Coherent
<1>5. CASE Copies
  BY <1>5 DEF Copies, Coherent
<1>6. CASE Restores(c)
  <2>1. cache[x].state # "rows"
    <3>1. CASE RestoreFill(c)
      BY <3>1 DEF RestoreFill, At, Closed
    <3>2. ASSUME NEW n \in Name, RestoreOpen(c, n) PROVE cache[x].state # "rows"
      <4>1. request'[c].pc = "refill" /\ cache' = cache
        BY <3>2, NameEffects DEF RestoreOpen
      <4> QED BY <4>1 DEF Closed
    <3> QED BY <1>6, <3>1, <3>2 DEF Restores
  <2> QED BY <1>6, <2>1 DEF Restores
<1> QED BY <1>1, <1>2, <1>3, <1>4, <1>5, <1>6

LEMMA NextCoherent ==
  ASSUME Typed, Current, Closed, Closed', Coherent, [Next]_vars PROVE Coherent'
<1>1. CASE UNCHANGED vars
  BY <1>1 DEF vars, Coherent
<1>2. CASE Crash
  <2>1. \A x \in Conn : cache'[x] = Empty
    BY <1>2 DEF Crash
  <2> QED BY <2>1, HollowSound DEF Coherent
<1>3. CASE Start
  <2>1. \A x \in Conn : cache'[x].state # "rows"
    BY <1>3 DEF Start, Coherent
  <2> QED BY <2>1 DEF Coherent
<1> QED BY <1>1, <1>2, <1>3, StepCoherent DEF Next, Current

\* The comment of backups.py:93 would be enough: if every connection that knows the file were
\* closed while a restore replaces it, every read would see what the file holds, across any
\* restores, crashes and commits.  The code closes none, and then it does not hold.
THEOREM ReadsAreCurrentCorrect == Spec /\ []Closed => []ReadsAreCurrent
<1> DEFINE Inv == Typed /\ Current /\ Coherent
<1>1. Init => Inv
  BY InitTyped, HollowSound, IdleShape DEF Init, Current, Coherent
<1>2. Closed /\ Closed' /\ Inv /\ [Next]_vars => Inv'
  BY NextTyped, NextCurrent, NextCoherent
<1>3. Inv => ReadsAreCurrent
  BY DEF Coherent, ReadsAreCurrent, View, Knows
<1> QED BY <1>1, <1>2, <1>3, PTL DEF Spec

-----------------------------------------------------------------------------
(* Report files                                                             *)

\* A report may be listed that is whole or whose name is not its own.
Good(n) == reports[n] = "whole" \/ n \in again

\* A file in part has one writer; the file of every other writer has been shared; a request
\* that is to insert its row has written its file.
Written ==
  /\ \A n \in Name : reports[n] = "part" => Writing(n)
  /\ \A c, d \in Conn :
       request[c].pc = "write" /\ request[d].pc = "write" /\ request[c].name = request[d].name
         => c = d \/ reports[request[c].name] # "part"
  /\ \A c \in Conn : request[c].pc = "write" =>
       reports[request[c].name] = "part" \/ request[c].name \in again
  /\ \A c \in Conn : request[c].pc = "insert" /\ request[c].name # None =>
       Good(request[c].name)

Filed(r) == \A q \in r : q.file # None => q.file \in Name /\ Good(q.file)

AllFiled ==
  /\ Filed(file.rows)
  /\ \A c \in Conn : Filed(cache[c].rows)
  /\ \A n \in Name : Filed(backups[n].rows)

\* A name once good stays good.
Stay == \A n \in Name : Good(n) => reports'[n] = "whole" \/ n \in again'

LEMMA ElsewhereWritten ==
  ASSUME Typed, Written, NEW c \in Conn, Only(c), UNCHANGED <<reports, again>>,
         request[c].pc # "write", request'[c].pc # "write",
         request'[c].pc = "insert" => request'[c].name = None
  PROVE  Written' /\ Stay
<1>1. \A x \in Conn : (request[x].pc = "write" \/ request'[x].pc = "write")
        => request'[x] = request[x]
  BY DEF Only
<1>2. \A n \in Name : reports'[n] = "part" => Writing(n)'
  BY <1>1 DEF Written, Writing
<1>3. \A x \in Conn : request'[x].pc = "insert" /\ request'[x].name # None =>
        Good(request'[x].name)
  BY DEF Only, Written
<1> QED BY <1>1, <1>2, <1>3 DEF Written, Stay, Good

\* A writer stops writing: a file it wrote alone is whole or broken.
LEMMA WriterLeaves ==
  ASSUME Typed, Written, NEW c \in Conn, Only(c), request[c].pc = "write",
         request'[c].pc # "write", again' = again, NEW e \in {"whole", "broken"},
         \A s \in Name : reports'[s] = IF s = request[c].name /\ reports[s] = "part"
                                       THEN e ELSE reports[s],
         request'[c].pc = "insert" => e = "whole" /\ request'[c].name = request[c].name
  PROVE  Written' /\ Stay
<1>0. \A x \in Conn : request[x].pc = "write" => request[x].name \in Name
  BY DEF Typed, RequestOK, Shape
<1>1. Stay
  BY DEF Stay, Good
<1>2. ASSUME NEW s \in Name, reports'[s] = "part" PROVE Writing(s)'
  <2>1. reports[s] = "part" /\ s # request[c].name
    BY <1>2
  <2>2. PICK x \in Conn : request[x].pc = "write" /\ request[x].name = s
    BY <2>1 DEF Written, Writing
  <2> QED BY <2>1, <2>2 DEF Only, Writing
<1>3. ASSUME NEW x \in Conn, request'[x].pc = "write"
      PROVE  /\ request'[x] = request[x] /\ request[x].name \in Name
             /\ reports'[request[x].name] = "part" \/ request[x].name \in again
             /\ reports'[request[x].name] = "part" => reports[request[x].name] = "part"
  <2>1. x # c /\ request'[x] = request[x]
    BY <1>3 DEF Only
  <2>2. request[x].name \in Name
    BY <1>0, <1>3, <2>1
  <2>3. reports[request[x].name] = "part" \/ request[x].name \in again
    BY <1>3, <2>1 DEF Written
  <2>4. request[x].name = request[c].name => reports[request[x].name] # "part"
    BY <1>3, <2>1 DEF Written
  <2> QED BY <2>1, <2>2, <2>3, <2>4
<1>4. ASSUME NEW x \in Conn, request'[x].pc = "insert", request'[x].name # None
      PROVE  reports'[request'[x].name] = "whole" \/ request'[x].name \in again'
  <2>1. CASE x = c
    <3>1. request[c].name \in Name
          /\ (reports[request[c].name] = "part" \/ request[c].name \in again)
      BY <1>0 DEF Written
    <3> QED BY <1>4, <2>1, <3>1
  <2>2. CASE x # c
    <3>1. request'[x] = request[x]
      BY <2>2 DEF Only
    <3>2. request[x].name \in Name /\ Good(request[x].name)
      BY <1>4, <3>1 DEF Written, Typed, RequestOK, Shape, RequestState
    <3> QED BY <1>1, <3>1, <3>2 DEF Stay
  <2> QED BY <2>1, <2>2
<1>5. ASSUME NEW x \in Conn, NEW y \in Conn, request'[x].pc = "write",
             request'[y].pc = "write", request'[x].name = request'[y].name
      PROVE  x = y \/ reports'[request'[x].name] # "part"
  BY <1>3, <1>5 DEF Written
<1> QED BY <1>1, <1>2, <1>3, <1>4, <1>5 DEF Written, Good

LEMMA StepWritten ==
  ASSUME Typed, Written, NEW c \in Conn, Step(c)
  PROVE  Written' /\ Stay
<1>0. Routes \subseteq Pc \ {"idle", "write", "fill", "refill"} /\ Shape(request[c])
      /\ {"audit", "create", "insert"} \subseteq Pc \ {"idle", "write", "fill", "refill"}
  BY DEF Routes, Pc, Typed, RequestOK
<1>1. CASE \E pc \in Routes : Authenticate(c, pc)
  <2>1. PICK pc \in Routes : Authenticate(c, pc)
    BY <1>1
  <2>2. Only(c) /\ request'[c].pc = pc /\ pc # "write" /\ request'[c].name = request[c].name
    BY <1>0, <2>1, GoEffects DEF Authenticate
  <2>3. UNCHANGED <<reports, again>> /\ request[c].pc = "idle"
    BY <2>1 DEF Authenticate, At, disk
  <2>4. request'[c].name = None
    BY <1>0, <2>2, <2>3 DEF Shape
  <2> QED BY <2>2, <2>3, <2>4, ElsewhereWritten
<1>2. CASE Insert(c) \/ Save(c) \/ CreateSetting(c)
  <2>1. Only(c) /\ request'[c].pc \in {"audit", "idle"}
    BY <1>0, <1>2, GoEffects, EndEffects DEF Insert, Save, CreateSetting
  <2>2. UNCHANGED <<reports, again>> /\ request[c].pc # "write"
    BY <1>2 DEF Insert, Save, CreateSetting, At, disk
  <2> QED BY <2>1, <2>2, ElsewhereWritten
<1>3. CASE Audit(c) \/ MarkAll(c)
  <2>1. Only(c) /\ request'[c].pc = "idle"
    BY <1>3, EndEffects DEF Audit, MarkAll
  <2>2. UNCHANGED <<reports, again>> /\ request[c].pc # "write"
    BY <1>3 DEF Audit, MarkAll, At, disk
  <2> QED BY <2>1, <2>2, ElsewhereWritten
<1>4. CASE Fail(c)
  <2>1. Only(c) /\ request'[c].pc = "idle" /\ again' = again
    BY <1>4, EndEffects DEF Fail
  <2>2. CASE request[c].pc = "write"
    <3>1. \A s \in Name : reports'[s] = IF s = request[c].name /\ reports[s] = "part"
                                        THEN "broken" ELSE reports[s]
      BY <1>4, <2>2 DEF Fail, BrokenOff, At
    <3> QED BY <2>1, <2>2, <3>1, WriterLeaves
  <2>3. CASE request[c].pc # "write"
    <3>1. reports' = reports
      BY <1>4, <2>3 DEF Fail, At, Typed, ReportsOK
    <3> QED BY <2>1, <2>3, <3>1, ElsewhereWritten
  <2> QED BY <2>2, <2>3
<1>5. CASE \E n \in Name : ReportOpen(c, n)
  <2>1. PICK n \in Name : ReportOpen(c, n)
    BY <1>5
  <2>2. Only(c) /\ request'[c].pc = "write" /\ request'[c].name = n
    BY <2>1, NameEffects DEF ReportOpen
  <2>3. /\ \A s \in Name : reports'[s] = IF s # n THEN reports[s]
                                        ELSE IF Writing(n) THEN "mixed" ELSE "part"
        /\ again' = (IF reports[n] = "none" THEN again ELSE again \cup {n})
        /\ request[c].pc # "write"
    BY <2>1 DEF ReportOpen, At, Typed, ReportsOK
  <2>4. Stay
    BY <2>3 DEF Stay, Good
  <2>5. ASSUME NEW s \in Name, reports'[s] = "part" PROVE Writing(s)'
    <3>1. CASE s = n
      BY <2>2, <3>1 DEF Writing
    <3>2. CASE s # n
      <4>1. PICK x \in Conn : request[x].pc = "write" /\ request[x].name = s
        BY <2>3, <2>5, <3>2 DEF Written, Writing
      <4> QED BY <2>2, <2>3, <4>1 DEF Only, Writing
    <3> QED BY <3>1, <3>2
  <2>6. ASSUME NEW x \in Conn, x # c, request'[x].pc = "write"
        PROVE  /\ request'[x] = request[x] /\ request[x].name \in Name
               /\ request[x].name = n => n \in again' /\ reports'[n] = "mixed"
               /\ request[x].name # n => reports'[request[x].name] = reports[request[x].name]
               /\ reports'[request[x].name] = "part" \/ request[x].name \in again'
    <3>1. request'[x] = request[x] /\ request[x].name \in Name
      BY <2>2, <2>6 DEF Only, Typed, RequestOK, Shape
    <3>2. reports[request[x].name] = "part" \/ request[x].name \in again
      BY <2>6, <3>1 DEF Written
    <3>3. request[x].name = n => Writing(n)
      BY <2>6, <3>1 DEF Writing
    <3> QED BY <2>3, <3>1, <3>2, <3>3
  <2>7. reports'[n] = "part" \/ n \in again'
    <3>1. ASSUME Writing(n) PROVE n \in again'
      <4>1. PICK x \in Conn : request[x].pc = "write" /\ request[x].name = n
        BY <3>1 DEF Writing
      <4>2. reports[n] = "part" \/ n \in again
        BY <4>1 DEF Written
      <4> QED BY <2>3, <4>2
    <3> QED BY <2>3, <3>1
  <2>8. ASSUME NEW x \in Conn, request'[x].pc = "insert", request'[x].name # None
        PROVE  reports'[request'[x].name] = "whole" \/ request'[x].name \in again'
    <3>1. request'[x] = request[x]
      BY <2>2, <2>8 DEF Only
    <3>2. request[x].name \in Name /\ Good(request[x].name)
      BY <2>8, <3>1 DEF Written, Typed, RequestOK, Shape, RequestState
    <3> QED BY <2>4, <3>1, <3>2 DEF Stay
  <2>9. ASSUME NEW x \in Conn, NEW y \in Conn, request'[x].pc = "write",
               request'[y].pc = "write", request'[x].name = request'[y].name, x # y
        PROVE  reports'[request'[x].name] # "part"
    <3>1. CASE request'[x].name = n
      BY <2>6, <2>9, <3>1
    <3>2. CASE request'[x].name # n
      <4>1. x # c /\ y # c
        BY <2>2, <2>9, <3>2
      <4> QED BY <2>6, <2>9, <3>2, <4>1 DEF Written
    <3> QED BY <3>1, <3>2
  <2>10. ASSUME NEW x \in Conn, request'[x].pc = "write"
         PROVE  reports'[request'[x].name] = "part" \/ request'[x].name \in again'
    BY <2>2, <2>6, <2>7, <2>10
  <2> QED BY <2>4, <2>5, <2>8, <2>9, <2>10 DEF Written, Good
<1>6. CASE ReportWrite(c)
  <2>1. Only(c) /\ request'[c].pc = "insert" /\ request'[c].name = request[c].name
    BY <1>0, <1>6, GoEffects DEF ReportWrite
  <2>2. request[c].pc = "write" /\ request[c].name \in Name /\ again' = again
    BY <1>0, <1>6 DEF ReportWrite, At, Shape
  <2>3. \A s \in Name : reports'[s] = IF s = request[c].name /\ reports[s] = "part"
                                      THEN "whole" ELSE reports[s]
    BY <1>6, <2>2 DEF ReportWrite, Typed, ReportsOK
  <2> QED BY <2>1, <2>2, <2>3, WriterLeaves
<1>7. CASE \E n \in Name : BackupOpen(c, n) \/ RestoreOpen(c, n)
  <2>1. PICK n \in Name : BackupOpen(c, n) \/ RestoreOpen(c, n)
    BY <1>7
  <2>2. Only(c) /\ request'[c].pc \in {"fill", "refill"}
    BY <2>1, NameEffects DEF BackupOpen, RestoreOpen
  <2>3. UNCHANGED <<reports, again>> /\ request[c].pc # "write"
    BY <2>1 DEF BackupOpen, RestoreOpen, At, disk
  <2> QED BY <2>2, <2>3, ElsewhereWritten
<1>8. CASE BackupFill(c) \/ RestoreFill(c) \/ CheckKey(c)
  <2>1. Go(c, "audit") \/ Go(c, "create") \/ End(c)
    BY <1>8 DEF BackupFill, RestoreFill, CheckKey
  <2>2. Only(c) /\ request'[c].pc \in {"audit", "create", "idle"}
    BY <1>0, <2>1, GoEffects, EndEffects
  <2>3. UNCHANGED <<reports, again>> /\ request[c].pc # "write"
    BY <1>8 DEF BackupFill, RestoreFill, CheckKey, At, disk
  <2> QED BY <2>2, <2>3, ElsewhereWritten
<1>9. CASE \E r \in file.rows \cup UNION {cache[x].rows : x \in Conn} : Load(c, r)
  <2>1. PICK r : Load(c, r)
    BY <1>9
  <2>2. Only(c) /\ request'[c].pc = "save"
    BY <2>1, ViewFacts, LoadEffects DEF Load
  <2>3. UNCHANGED <<reports, again>> /\ request[c].pc # "write"
    BY <2>1 DEF Load, At, disk
  <2> QED BY <2>2, <2>3, ElsewhereWritten
<1> QED BY <1>1, <1>2, <1>3, <1>4, <1>5, <1>6, <1>7, <1>8, <1>9 DEF Step

LEMMA StepFiled ==
  ASSUME Typed, Current, Written, AllFiled, NEW c \in Conn, Step(c)
  PROVE  AllFiled'
<1>1. Reads(c) \/ Commits(c) \/ Forgets(c) \/ Copies \/ Restores(c)
  BY StepContents DEF Current
<1>2. Stay
  BY StepWritten
<1> DEFINE Kind(r) == \A q \in r : q.file # None => q.file \in Name /\ (reports'[q.file] = "whole" \/ q.file \in again')
<1>3. /\ Kind(file.rows) /\ (\A x \in Conn : Kind(cache[x].rows))
      /\ (\A n \in Name : Kind(backups[n].rows)) /\ Kind({}) /\ Kind(View(c))
  <2>1. \A r : Filed(r) => Kind(r)
    BY <1>2 DEF Filed, Stay
  <2>2. Filed(View(c)) /\ Filed({})
    BY DEF AllFiled, View, Filed
  <2> QED BY <2>1, <2>2 DEF AllFiled
<1>4. SUFFICES /\ Kind(file'.rows) /\ \A x \in Conn : Kind(cache'[x].rows)
               /\ \A n \in Name : Kind(backups'[n].rows)
  BY DEF AllFiled, Filed, Good
<1>5. CASE Reads(c)
  <2>1. cache'[c].rows = View(c) /\ (\A x \in Conn \ {c} : cache'[x] = cache[x])
        /\ UNCHANGED <<file, backups>>
    BY <1>5, QueryEffects DEF Reads
  <2> HIDE DEF Kind
  <2>2. \A x \in Conn : Kind(cache'[x].rows)
    BY <1>3, <2>1
  <2> QED BY <1>3, <2>1, <2>2
<1>6. CASE Commits(c)
  <2>1. PICK r \in SUBSET Row :
          /\ Commit(c, r) /\ UNCHANGED backups
          /\ \A p \in r : \/ \E q \in View(c) : p.file = q.file
                          \/ p.file = None
                          \/ request[c].pc = "insert" /\ p.file = request[c].name
    BY <1>6 DEF Commits
  <2>2. file'.rows = r /\ cache'[c] = file' /\ \A x \in Conn \ {c} : cache'[x] = cache[x]
    BY <2>1, CommitEffects
  <2>3. request[c].pc = "insert" /\ request[c].name # None =>
          /\ request[c].name \in Name
          /\ (reports'[request[c].name] = "whole" \/ request[c].name \in again')
    BY <1>2 DEF Written, Stay, Typed, RequestOK, Shape, RequestState
  <2>4. Kind(r)
    BY <1>3, <2>1, <2>3
  <2> HIDE DEF Kind
  <2>5. \A x \in Conn : Kind(cache'[x].rows)
    BY <1>3, <2>2, <2>4
  <2> QED BY <1>3, <2>1, <2>2, <2>4, <2>5
<1>7. CASE Forgets(c)
  <2>1. file' = file /\ backups' = backups /\ \A x \in Conn : cache'[x] \in {cache[x], Empty}
    BY <1>7 DEF Forgets, Typed, CacheOK
  <2> HIDE DEF Kind
  <2> QED BY <1>3, <2>1, HollowSound
<1>8. CASE Copies
  <2>1. file' = file /\ cache' = cache
        /\ \A n \in Name : backups'[n] \in {backups[n], file, Empty, Broken}
    BY <1>8 DEF Copies, Typed, BackupsOK
  <2> HIDE DEF Kind
  <2> QED BY <1>3, <2>1, HollowSound
<1>9. CASE Restores(c)
  <2>1. cache' = cache /\ backups' = backups
        /\ (file' \in {Empty, Broken} \/ \E n \in Name : file' = backups[n])
    BY <1>9 DEF Restores
  <2> HIDE DEF Kind
  <2> QED BY <1>3, <2>1, HollowSound
<1> HIDE DEF Kind
<1> QED BY <1>1, <1>5, <1>6, <1>7, <1>8, <1>9

LEMMA NextFiled ==
  Typed /\ Current /\ Written /\ AllFiled /\ [Next]_vars => Written' /\ AllFiled'
<1> SUFFICES ASSUME Typed, Current, Written, AllFiled, [Next]_vars PROVE Written' /\ AllFiled'
  OBVIOUS
<1>1. CASE UNCHANGED vars
  <2>1. UNCHANGED <<file, cache, backups, reports, again, request>>
    BY <1>1 DEF vars, disk
  <2> QED BY <2>1 DEF Written, Writing, AllFiled, Filed, Good
<1>2. CASE Crash
  <2>1. file' = file /\ backups' = backups /\ \A x \in Conn : cache'[x] = Empty /\ request'[x] = Idle
    BY <1>2 DEF Crash
  <2>2. \A n \in Name : reports'[n] = IF Writing(n) /\ reports[n] = "part" THEN "broken"
                                      ELSE reports[n]
    BY <1>2 DEF Crash, BrokenOff
  <2>3. Written'
    BY <2>1, <2>2, IdleShape DEF Written
  <2>4. again' = again
    BY <1>2 DEF Crash
  <2>5. Filed(file.rows)' /\ \A n \in Name : Filed(backups[n].rows)'
    BY <2>1, <2>2, <2>4 DEF AllFiled, Filed, Good
  <2> QED BY <2>1, <2>3, <2>5, HollowSound DEF AllFiled, Filed
<1>3. CASE Start
  <2>1. UNCHANGED <<cache, backups, reports, again, request>>
    BY <1>3 DEF Start, disk
  <2>2. file' = file \/ file'.rows = {}
    BY <1>3, RowsSound DEF Start
  <2> QED BY <2>1, <2>2 DEF Written, Writing, AllFiled, Filed, Good
<1> QED BY <1>1, <1>2, <1>3, StepWritten, StepFiled DEF Next

\* ReportHasFile holds for any connections, names and bounds: a report is written before its
\* row can be committed, only a report of its name can empty it, and none is removed.
THEOREM ReportHasFileCorrect == Spec => []ReportHasFile
<1>1. Init => Current /\ Written /\ AllFiled
  BY HollowSound, IdleShape, RowsSound DEF Init, Current, Written, AllFiled, Filed
<1>2. Typed /\ Current /\ [Next]_vars => Current'
  BY NextCurrent
<1>3. Written /\ AllFiled => ReportHasFile
  <2> SUFFICES ASSUME Written, AllFiled,
                      NEW r \in file.rows \cup (UNION {backups[s].rows : s \in Name})
                                 \cup (UNION {cache[c].rows : c \in Conn}),
                      r.file # None
               PROVE  \/ reports[r.file] = "whole"
                      \/ r.file \in again /\ (reports[r.file] = "part" => Writing(r.file))
    BY DEF ReportHasFile
  <2>1. \/ r \in file.rows
        \/ \E s \in Name : r \in backups[s].rows
        \/ \E c \in Conn : r \in cache[c].rows
    <3>1. CASE r \in UNION {backups[s].rows : s \in Name}
      <4>1. PICK e \in {backups[s].rows : s \in Name} : r \in e
        BY <3>1
      <4> QED BY <4>1
    <3>2. CASE r \in UNION {cache[c].rows : c \in Conn}
      <4>1. PICK e \in {cache[c].rows : c \in Conn} : r \in e
        BY <3>2
      <4> QED BY <4>1
    <3>3. CASE r \in file.rows
      BY <3>3
    <3> QED BY <3>1, <3>2, <3>3
  <2>2. r.file \in Name /\ Good(r.file)
    BY <2>1 DEF AllFiled, Filed
  <2> QED BY <2>2 DEF Written, Good
<1> QED BY <1>1, <1>2, <1>3, NextFiled, InitTyped, NextTyped, PTL DEF Spec
=============================================================================
