--------------------------- MODULE Capture_proofs ---------------------------
(***************************************************************************)
(* Theorems about CaptureSession, for any callers, interfaces and bounds    *)
(* and any finite number of sniffing threads.                               *)
(***************************************************************************)
EXTENDS CaptureSession, TLAPS, FiniteSetTheorems

CallerPc == {"idle", "start_iface", "start_clear", "start_thread", "start_mark", "stop_mark",
             "audit"}
SnifferPc == {"none", "failed", "open", "wait", "store", "count", "detect", "load", "add",
              "filter"}

CallerState == [pc : CallerPc, iface : Interface \cup {None}, alone : BOOLEAN]
\* found and read are bounded by alerts only: see Ledger
SnifferState == [pc : SnifferPc, iface : Interface \cup {None}, found : Nat, read : Nat,
                 late : 0 .. 2]

Typed ==
  /\ isRunning \in BOOLEAN /\ stopEvent \in BOOLEAN /\ calm \in BOOLEAN
  /\ interface \in Interface \cup {None}
  /\ packetsCaptured \in Nat /\ alertsRaised \in Nat
  /\ packets \in Nat /\ cleared \in Nat /\ alerts \in 0 .. MaxAlerts
  /\ caller \in [Caller -> CallerState]
  /\ sniffer \in [Sniffer -> SnifferState]
  \* only a thread between detection and its counter has found something
  /\ \A s \in Sniffer : sniffer[s].pc \notin {"load", "add"} => sniffer[s].found = 0

-----------------------------------------------------------------------------
(* One thread's step                                                        *)

\* Two states of a thread that differ in where it is
Moved(r, q) ==
  r.iface = q.iface /\ r.found = q.found /\ r.read = q.read /\ r.late = q.late

LEMMA SetPc ==
  ASSUME NEW r \in SnifferState, NEW pc \in SnifferPc
  PROVE  LET q == [r EXCEPT !.pc = pc]
         IN  q \in SnifferState /\ q.pc = pc /\ Moved(q, r)
BY DEF SnifferState, Moved

LEMMA NoThreadType ==
  /\ NoThread \in SnifferState
  /\ NoThread.pc = "none" /\ NoThread.found = 0 /\ NoThread.read = 0 /\ NoThread.late = 0
BY DEF NoThread, SnifferState, SnifferPc

\* A step that changes the state of s only
Only(s) == sniffer' \in [Sniffer -> SnifferState]
           /\ \A x \in Sniffer \ {s} : sniffer'[x] = sniffer[x]

LEMMA OneSniffer ==
  ASSUME NEW s \in Sniffer, NEW r \in SnifferState, sniffer \in [Sniffer -> SnifferState],
         sniffer' = [sniffer EXCEPT ![s] = r]
  PROVE  Only(s) /\ sniffer'[s] = r
BY DEF Only

LEMMA SniffEffects ==
  ASSUME NEW s \in Sniffer, NEW pc \in SnifferPc, sniffer \in [Sniffer -> SnifferState],
         Sniff(s, pc)
  PROVE  Only(s) /\ sniffer'[s].pc = pc /\ Moved(sniffer'[s], sniffer[s])
<1> DEFINE q == [sniffer[s] EXCEPT !.pc = pc]
<1>1. sniffer[s] \in SnifferState
  OBVIOUS
<1>2. q \in SnifferState /\ q.pc = pc /\ Moved(q, sniffer[s])
  BY <1>1, SetPc
<1>3. sniffer' = [sniffer EXCEPT ![s] = q]
  BY DEF Sniff
<1> HIDE DEF q
<1> QED BY <1>2, <1>3, OneSniffer

\* What the steps of the loop do to their thread
LEMMA OpenEffects ==
  ASSUME Typed, NEW s \in Sniffer, Open(s)
  PROVE  Only(s) /\ sniffer'[s].pc \in {"wait", "failed"} /\ Moved(sniffer'[s], sniffer[s])
BY SniffEffects DEF Open, Typed, SnifferPc

LEMMA ArriveEffects ==
  ASSUME Typed, NEW s \in Sniffer, Arrive(s)
  PROVE  /\ Only(s) /\ sniffer'[s].pc \in {"store", "filter", "failed"}
         /\ sniffer'[s].pc = "store" => packets + cleared < MaxPackets
         /\ sniffer'[s].iface = sniffer[s].iface /\ sniffer'[s].found = sniffer[s].found
         /\ sniffer'[s].read = sniffer[s].read
         /\ sniffer'[s].late = IF stopEvent /\ sniffer[s].late < 2 THEN sniffer[s].late + 1
                               ELSE sniffer[s].late
<1>1. PICK pc \in {"store", "filter", "failed"} :
        /\ pc = "store" => packets + cleared < MaxPackets
        /\ sniffer' = [sniffer EXCEPT ![s].pc = pc,
                                      ![s].late = IF stopEvent /\ @ < 2 THEN @ + 1 ELSE @]
  BY DEF Arrive
<1> DEFINE n == IF stopEvent /\ sniffer[s].late < 2 THEN sniffer[s].late + 1 ELSE sniffer[s].late
<1> DEFINE q == [sniffer[s] EXCEPT !.pc = pc, !.late = n]
<1>2. sniffer[s] \in SnifferState /\ sniffer[s].late \in 0 .. 2 /\ n \in 0 .. 2
  BY DEF Typed, SnifferState
<1>3. sniffer' = [sniffer EXCEPT ![s] = q]
  BY <1>1
<1> HIDE DEF n
<1>4. q \in SnifferState /\ q.pc = pc /\ q.late = n /\ q.iface = sniffer[s].iface
      /\ q.found = sniffer[s].found /\ q.read = sniffer[s].read
  BY <1>2 DEF SnifferState, SnifferPc
<1> HIDE DEF q
<1>5. Only(s) /\ sniffer'[s] = q
  BY <1>3, <1>4, OneSniffer DEF Typed
<1> QED BY <1>1, <1>4, <1>5 DEF n

LEMMA StoreEffects ==
  ASSUME Typed, NEW s \in Sniffer, Store(s)
  PROVE  /\ Only(s) /\ Moved(sniffer'[s], sniffer[s])
         /\ \/ sniffer'[s].pc = "count" /\ packets' = packets + 1
            \/ sniffer'[s].pc = "filter" /\ packets' = packets
BY SniffEffects DEF Store, Typed, SnifferPc

LEMMA CountEffects ==
  ASSUME Typed, NEW s \in Sniffer, Count(s)
  PROVE  Only(s) /\ sniffer'[s].pc = "detect" /\ Moved(sniffer'[s], sniffer[s])
BY SniffEffects DEF Count, Typed, SnifferPc

LEMMA DetectEffects ==
  ASSUME Typed, NEW s \in Sniffer, Detect(s)
  PROVE  \E n \in 0 .. MaxAlerts - alerts :
           /\ Only(s) /\ alerts' = alerts + n
           /\ sniffer'[s].iface = sniffer[s].iface /\ sniffer'[s].read = sniffer[s].read
           /\ sniffer'[s].late = sniffer[s].late
           /\ \/ sniffer'[s].pc = "load" /\ sniffer'[s].found = n
              \/ sniffer'[s].pc = "filter" /\ sniffer'[s].found = sniffer[s].found
<1>1. PICK n \in 0 .. MaxAlerts - alerts :
        /\ alerts' = alerts + n
        /\ \/ sniffer' = [sniffer EXCEPT ![s].pc = "load", ![s].found = n]
           \/ Sniff(s, "filter")
  BY DEF Detect
<1>2. sniffer[s] \in SnifferState /\ n \in Nat
  BY DEF Typed
<1>3. CASE Sniff(s, "filter")
  BY <1>1, <1>3, SniffEffects DEF Typed, SnifferPc, Moved
<1>4. CASE sniffer' = [sniffer EXCEPT ![s].pc = "load", ![s].found = n]
  <2> DEFINE q == [sniffer[s] EXCEPT !.pc = "load", !.found = n]
  <2>1. q \in SnifferState /\ q.pc = "load" /\ q.late = sniffer[s].late
        /\ q.iface = sniffer[s].iface /\ q.found = n /\ q.read = sniffer[s].read
    BY <1>2 DEF SnifferState, SnifferPc
  <2>2. sniffer' = [sniffer EXCEPT ![s] = q]
    BY <1>4
  <2> HIDE DEF q
  <2>3. Only(s) /\ sniffer'[s] = q
    BY <2>1, <2>2, OneSniffer DEF Typed
  <2> QED BY <1>1, <2>1, <2>3
<1> QED BY <1>1, <1>3, <1>4

LEMMA LoadEffects ==
  ASSUME Typed, NEW s \in Sniffer, LoadRaised(s)
  PROVE  /\ Only(s) /\ sniffer'[s].pc = "add" /\ sniffer'[s].read = alertsRaised
         /\ sniffer'[s].iface = sniffer[s].iface /\ sniffer'[s].found = sniffer[s].found
         /\ sniffer'[s].late = sniffer[s].late
<1> DEFINE q == [sniffer[s] EXCEPT !.pc = "add", !.read = alertsRaised]
<1>1. sniffer[s] \in SnifferState /\ alertsRaised \in Nat
  BY DEF Typed
<1>2. q \in SnifferState /\ q.pc = "add" /\ q.late = sniffer[s].late
      /\ q.iface = sniffer[s].iface /\ q.found = sniffer[s].found /\ q.read = alertsRaised
  BY <1>1 DEF SnifferState, SnifferPc
<1>3. sniffer' = [sniffer EXCEPT ![s] = q]
  BY DEF LoadRaised
<1> HIDE DEF q
<1> QED BY <1>2, <1>3, OneSniffer DEF Typed

LEMMA AddEffects ==
  ASSUME Typed, NEW s \in Sniffer, AddRaised(s)
  PROVE  /\ Only(s) /\ sniffer'[s].pc = "filter" /\ sniffer'[s].read = 0
         /\ sniffer'[s].iface = sniffer[s].iface /\ sniffer'[s].found = 0
         /\ sniffer'[s].late = sniffer[s].late
<1> DEFINE q == [sniffer[s] EXCEPT !.pc = "filter", !.read = 0, !.found = 0]
<1>1. sniffer[s] \in SnifferState
  BY DEF Typed
<1>2. q \in SnifferState /\ q.pc = "filter" /\ q.late = sniffer[s].late
      /\ q.iface = sniffer[s].iface /\ q.found = 0 /\ q.read = 0
  BY <1>1 DEF SnifferState, SnifferPc
<1>3. sniffer' = [sniffer EXCEPT ![s] = q]
  BY DEF AddRaised
<1> HIDE DEF q
<1> QED BY <1>2, <1>3, OneSniffer DEF Typed

LEMMA FilterEffects ==
  ASSUME Typed, NEW s \in Sniffer, Filter(s)
  PROVE  /\ Only(s)
         /\ \/ stopEvent /\ sniffer'[s] = NoThread
            \/ ~stopEvent /\ sniffer'[s].pc = "wait" /\ Moved(sniffer'[s], sniffer[s])
BY SniffEffects, OneSniffer, NoThreadType DEF Filter, Typed, SnifferPc

LEMMA StartThreadEffects ==
  ASSUME Typed, NEW c \in Caller, NEW s \in Sniffer, StartThread(c, s)
  PROVE  /\ Only(s) /\ sniffer'[s].pc = "open" /\ sniffer'[s].iface = caller[c].iface
         /\ sniffer'[s].found = 0 /\ sniffer'[s].read = 0 /\ sniffer'[s].late = 0
<1> DEFINE q == [pc |-> "open", iface |-> caller[c].iface, found |-> 0, read |-> 0, late |-> 0]
<1>1. q.pc = "open" /\ q.iface = caller[c].iface /\ q.found = 0 /\ q.read = 0 /\ q.late = 0
  OBVIOUS
<1>2. caller[c].iface \in Interface \cup {None}
  BY DEF Typed, CallerState
<1>3. sniffer' = [sniffer EXCEPT ![s] = q]
  BY DEF StartThread
<1>4. q \in SnifferState
  BY <1>2 DEF SnifferState, SnifferPc
<1> HIDE DEF q
<1> QED BY <1>1, <1>3, <1>4, OneSniffer DEF Typed

-----------------------------------------------------------------------------
(* One caller's step                                                        *)

OnlyCaller(c) == caller' \in [Caller -> CallerState]
                 /\ \A x \in Caller \ {c} : caller'[x] = caller[x]

LEMMA CallEffects ==
  ASSUME Typed, NEW c \in Caller, NEW pc \in CallerPc, Call(c, pc)
  PROVE  OnlyCaller(c) /\ caller'[c].pc = pc /\ caller'[c].iface = caller[c].iface
         /\ caller'[c].alone = caller[c].alone
<1> DEFINE q == [caller[c] EXCEPT !.pc = pc]
<1>1. caller[c] \in CallerState /\ caller \in [Caller -> CallerState]
  BY DEF Typed
<1>2. q \in CallerState /\ q.pc = pc /\ q.iface = caller[c].iface /\ q.alone = caller[c].alone
  BY <1>1 DEF CallerState
<1>3. caller' = [caller EXCEPT ![c] = q]
  BY DEF Call
<1> HIDE DEF q
<1> QED BY <1>1, <1>2, <1>3 DEF OnlyCaller

LEMMA ReturnEffects ==
  ASSUME Typed, NEW c \in Caller, Return(c)
  PROVE  OnlyCaller(c) /\ caller'[c].pc = "audit"
<1> DEFINE q == [pc |-> "audit", iface |-> None, alone |-> FALSE]
<1>1. q \in CallerState /\ q.pc = "audit"
  BY DEF CallerState, CallerPc
<1>2. caller' = [caller EXCEPT ![c] = q] /\ caller \in [Caller -> CallerState]
  BY DEF Return, Typed
<1> HIDE DEF q
<1> QED BY <1>1, <1>2 DEF OnlyCaller

LEMMA EnterEffects ==
  ASSUME Typed, NEW c \in Caller, NEW pc \in CallerPc, NEW i \in Interface \cup {None},
         Enter(c, pc, i)
  PROVE  /\ caller' \in [Caller -> CallerState]
         /\ caller'[c].pc = pc /\ caller'[c].iface = i /\ caller'[c].alone = (Busy = {})
         /\ \A x \in Caller \ {c} :
              /\ caller'[x].pc = caller[x].pc /\ caller'[x].iface = caller[x].iface
              /\ caller'[x].alone = (caller[x].alone /\ x \notin Busy)
<1> DEFINE q == [pc |-> pc, iface |-> i, alone |-> Busy = {}]
<1> DEFINE r(x) == [caller[x] EXCEPT !.alone = caller[x].alone /\ x \notin Busy]
<1>1. caller \in [Caller -> CallerState]
  BY DEF Typed
<1>2. q \in CallerState /\ q.pc = pc /\ q.iface = i /\ q.alone = (Busy = {})
  BY DEF CallerState
<1>3. ASSUME NEW x \in Caller
      PROVE  /\ r(x) \in CallerState /\ r(x).pc = caller[x].pc /\ r(x).iface = caller[x].iface
             /\ r(x).alone = (caller[x].alone /\ x \notin Busy)
  <2>1. caller[x] \in CallerState /\ (caller[x].alone /\ x \notin Busy) \in BOOLEAN
    BY <1>1 DEF CallerState
  <2> QED BY <2>1 DEF CallerState
<1>4. caller' = [x \in Caller |-> IF x = c THEN q ELSE r(x)]
  BY DEF Enter
<1> HIDE DEF q, r
<1>5. caller'[c] = q /\ \A x \in Caller \ {c} : caller'[x] = r(x)
  BY <1>4
<1>6. caller' \in [Caller -> CallerState]
  BY <1>2, <1>3, <1>4
<1> QED BY <1>2, <1>3, <1>5, <1>6

-----------------------------------------------------------------------------
(* Types                                                                   *)

\* What Typed says of a thread that has moved
Settled(s) == sniffer'[s].pc \notin {"load", "add"} => sniffer'[s].found = 0

LEMMA LoopTyped ==
  ASSUME Typed, NEW s \in Sniffer, Loop(s)
  PROVE  Typed'
<1> DEFINE Numbers == /\ packets' \in Nat /\ packetsCaptured' \in Nat /\ alertsRaised' \in Nat
                      /\ alerts' \in 0 .. MaxAlerts
<1>1. /\ packets \in Nat /\ packetsCaptured \in Nat /\ alertsRaised \in Nat
      /\ alerts \in 0 .. MaxAlerts /\ alerts \in Nat /\ MaxAlerts \in Nat
      /\ sniffer[s].found \in Nat /\ sniffer[s].read \in Nat
      /\ (sniffer[s].pc \notin {"load", "add"} => sniffer[s].found = 0)
  BY CaptureAssumption DEF Typed, SnifferState, CaptureAssumption
<1>2. Only(s) /\ Settled(s) /\ Numbers /\ UNCHANGED <<fields, cleared, caller, calm>>
  <2>1. CASE Open(s)
    <3>1. Only(s) /\ Settled(s)
      BY <1>1, <2>1, OpenEffects DEF Settled, Moved, Open, SnifferAt
    <3>2. Numbers /\ UNCHANGED <<fields, cleared, caller, calm>>
      BY <1>1, <2>1 DEF Open, counters, tables
    <3> QED BY <3>1, <3>2
  <2>2. CASE Arrive(s)
    <3>1. Only(s) /\ Settled(s)
      BY <1>1, <2>2, ArriveEffects DEF Settled, Moved, Arrive, SnifferAt
    <3>2. Numbers /\ UNCHANGED <<fields, cleared, caller, calm>>
      BY <1>1, <2>2 DEF Arrive, counters, tables
    <3> QED BY <3>1, <3>2
  <2>3. CASE Store(s)
    <3>1. Only(s) /\ Settled(s)
      BY <1>1, <2>3, StoreEffects DEF Settled, Moved, Store, SnifferAt
    <3>2. Numbers /\ UNCHANGED <<fields, cleared, caller, calm>>
      BY <1>1, <2>3 DEF Store, counters, tables
    <3> QED BY <3>1, <3>2
  <2>4. CASE Count(s)
    <3>1. Only(s) /\ Settled(s)
      BY <1>1, <2>4, CountEffects DEF Settled, Moved, Count, SnifferAt
    <3>2. Numbers /\ UNCHANGED <<fields, cleared, caller, calm>>
      BY <1>1, <2>4 DEF Count, counters, tables
    <3> QED BY <3>1, <3>2
  <2>5. CASE Detect(s)
    <3>1. Only(s) /\ Settled(s)
      BY <1>1, <2>5, DetectEffects DEF Settled, Moved, Detect, SnifferAt
    <3>2. Numbers /\ UNCHANGED <<fields, cleared, caller, calm>>
      BY <1>1, <2>5 DEF Detect, counters, tables
    <3> QED BY <3>1, <3>2
  <2>6. CASE LoadRaised(s)
    <3>1. Only(s) /\ Settled(s)
      BY <1>1, <2>6, LoadEffects DEF Settled, Moved, LoadRaised, SnifferAt
    <3>2. Numbers /\ UNCHANGED <<fields, cleared, caller, calm>>
      BY <1>1, <2>6 DEF LoadRaised, counters, tables
    <3> QED BY <3>1, <3>2
  <2>7. CASE AddRaised(s)
    <3>1. Only(s) /\ Settled(s)
      BY <1>1, <2>7, AddEffects DEF Settled, Moved, AddRaised, SnifferAt
    <3>2. Numbers /\ UNCHANGED <<fields, cleared, caller, calm>>
      BY <1>1, <2>7 DEF AddRaised, counters, tables
    <3> QED BY <3>1, <3>2
  <2>8. CASE Filter(s)
    <3>1. Only(s) /\ Settled(s)
      BY <1>1, <2>8, FilterEffects, NoThreadType DEF Settled, Moved, Filter, SnifferAt
    <3>2. Numbers /\ UNCHANGED <<fields, cleared, caller, calm>>
      BY <1>1, <2>8 DEF Filter, counters, tables
    <3> QED BY <3>1, <3>2
  <2> QED BY <2>1, <2>2, <2>3, <2>4, <2>5, <2>6, <2>7, <2>8 DEF Loop, Work
<1> QED BY <1>2 DEF Typed, Only, Settled, fields

LEMMA CallTyped ==
  ASSUME Typed, NEW c \in Caller, Route(c) \/ Request(c)
  PROVE  Typed'
<1>1. CASE \E i \in Interface : StartCheck(c, i)
  BY <1>1, EnterEffects DEF StartCheck, Typed, CallerPc, fields, counters, tables
<1>9. CASE StartInterface(c)
  <2>1. OnlyCaller(c) /\ caller[c].iface \in Interface \cup {None}
    BY <1>9, CallEffects DEF StartInterface, CallerPc, Typed, CallerState
  <2> QED BY <1>9, <2>1 DEF StartInterface, Typed, OnlyCaller, counters, tables
<1>10. CASE StartThreadFails(c)
  <2>1. NoCall \in CallerState
    BY DEF NoCall, CallerState, CallerPc
  <2> QED BY <1>10, <2>1 DEF StartThreadFails, Typed, fields, counters, tables
<1>2. CASE StartClear(c)
  <2>1. /\ sniffer' \in [Sniffer -> SnifferState]
        /\ \A s \in Sniffer : sniffer'[s].pc = sniffer[s].pc /\ sniffer'[s].found = sniffer[s].found
    <3> DEFINE r(s) == [sniffer[s] EXCEPT !.late = 0]
    <3>1. ASSUME NEW s \in Sniffer
          PROVE  r(s) \in SnifferState /\ r(s).pc = sniffer[s].pc /\ r(s).found = sniffer[s].found
      <4>1. sniffer[s] \in SnifferState
        BY DEF Typed
      <4> QED BY <4>1 DEF SnifferState
    <3>2. sniffer' = [s \in Sniffer |-> r(s)]
      BY <1>2 DEF StartClear
    <3> HIDE DEF r
    <3> QED BY <3>1, <3>2
  <2>2. OnlyCaller(c) /\ caller[c].iface \in Interface \cup {None}
    BY <1>2, CallEffects DEF StartClear, CallerPc, Typed, CallerState
  <2> QED BY <1>2, <2>1, <2>2 DEF StartClear, Typed, OnlyCaller, counters, tables
<1>3. CASE \E s \in Sniffer : StartThread(c, s)
  <2>1. PICK s \in Sniffer : StartThread(c, s)
    BY <1>3
  <2>2. OnlyCaller(c)
    BY <2>1, CallEffects DEF StartThread, CallerPc
  <2>3. Only(s) /\ sniffer'[s].found = 0
    BY <2>1, StartThreadEffects
  <2> QED BY <2>1, <2>2, <2>3 DEF StartThread, Typed, OnlyCaller, Only, fields, counters, tables
<1>4. CASE StartMark(c)
  <2>1. OnlyCaller(c) /\ caller[c].alone \in BOOLEAN
    BY <1>4, ReturnEffects DEF StartMark, CallerPc, Typed, CallerState
  <2> QED BY <1>4, <2>1 DEF StartMark, Typed, OnlyCaller, counters, tables
<1>5. CASE StopSet(c)
  BY <1>5, EnterEffects DEF StopSet, Typed, CallerPc, counters, tables
<1>6. CASE StopMark(c)
  <2>1. OnlyCaller(c) /\ caller[c].alone \in BOOLEAN
    BY <1>6, ReturnEffects DEF StopMark, CallerPc, Typed, CallerState
  <2> QED BY <1>6, <2>1 DEF StopMark, Typed, OnlyCaller, counters, tables
<1>7. CASE ClearPackets(c)
  <2>1. OnlyCaller(c)
    BY <1>7, ReturnEffects DEF ClearPackets, CallerPc
  <2> QED BY <1>7, <2>1 DEF ClearPackets, Typed, OnlyCaller, fields, counters
<1>8. CASE Audit(c)
  <2>1. NoCall \in CallerState
    BY DEF NoCall, CallerState, CallerPc
  <2> QED BY <1>8, <2>1 DEF Audit, Typed, fields, counters, tables
<1> QED BY <1>1, <1>2, <1>3, <1>4, <1>5, <1>6, <1>7, <1>8, <1>9, <1>10 DEF Route, Request

LEMMA InitTyped == Init => Typed
<1> SUFFICES ASSUME Init PROVE Typed
  OBVIOUS
<1>1. NoCall \in CallerState
  BY DEF NoCall, CallerState, CallerPc
<1>2. sniffer \in [Sniffer -> SnifferState] /\ \A s \in Sniffer : sniffer[s].found = 0
  BY NoThreadType DEF Init
<1>3. caller \in [Caller -> CallerState]
  BY <1>1 DEF Init
<1>4. MaxAlerts \in Nat
  BY CaptureAssumption DEF CaptureAssumption
<1>5. /\ isRunning \in BOOLEAN /\ stopEvent \in BOOLEAN /\ calm \in BOOLEAN
      /\ interface \in Interface \cup {None}
  BY Zenon DEF Init
<1>6. /\ packetsCaptured = 0 /\ alertsRaised = 0 /\ packets = 0 /\ cleared = 0 /\ alerts = 0
  BY DEF Init
<1> QED BY <1>2, <1>3, <1>4, <1>5, <1>6 DEF Typed

LEMMA NextTyped == Typed /\ [Next]_vars => Typed'
<1> SUFFICES ASSUME Typed, [Next]_vars PROVE Typed'
  OBVIOUS
<1>1. CASE UNCHANGED vars
  BY <1>1 DEF vars, fields, counters, tables, Typed
<1> QED BY <1>1, LoopTyped, CallTyped DEF Next

-----------------------------------------------------------------------------
(* One packet more                                                          *)

\* Where a thread is from a packet to the question of stop_filter
Taken == {"store", "count", "detect", "load", "add", "filter", "failed"}

\* A thread that has taken a packet up since it was told to stop has not asked since.
Late ==
  \A s \in Sniffer :
    /\ sniffer[s].late \in {0, 1}
    /\ sniffer[s].late = 1 =>
         stopEvent /\ sniffer[s].pc \in Taken

LEMMA LoopLate ==
  ASSUME Typed, Late, NEW s \in Sniffer, Loop(s)
  PROVE  Late'
<1>1. /\ Only(s) /\ stopEvent' = stopEvent
      /\ sniffer'[s].late \in {0, 1}
      /\ sniffer'[s].late = 1 =>
           stopEvent /\ sniffer'[s].pc \in Taken
  <2>0. /\ sniffer[s].late \in {0, 1}
        /\ sniffer[s].late = 1 =>
             stopEvent /\ sniffer[s].pc \in Taken
    BY DEF Late
  <2>1. CASE Open(s)
    BY <2>0, <2>1, OpenEffects DEF Taken, Open, SnifferAt, Moved, fields
  <2>2. CASE Arrive(s)
    <3>1. sniffer[s].late = 0 /\ Only(s) /\ sniffer'[s].pc \in {"store", "filter", "failed"}
          /\ sniffer'[s].late = IF stopEvent /\ sniffer[s].late < 2 THEN sniffer[s].late + 1
                                ELSE sniffer[s].late
      BY <2>0, <2>2, ArriveEffects DEF Taken, Arrive, SnifferAt
    <3>2. sniffer'[s].late = 0 \/ (stopEvent /\ sniffer'[s].late = 1)
      BY <3>1
    <3> QED BY <2>2, <3>1, <3>2 DEF Taken, Arrive, fields
  <2>3. CASE Store(s)
    BY <2>0, <2>3, StoreEffects DEF Taken, Store, Moved, fields
  <2>4. CASE Count(s)
    BY <2>0, <2>4, CountEffects DEF Taken, Count, Moved, fields
  <2>5. CASE Detect(s)
    BY <2>0, <2>5, DetectEffects DEF Taken, Detect, fields
  <2>6. CASE LoadRaised(s)
    BY <2>0, <2>6, LoadEffects DEF Taken, LoadRaised, fields
  <2>7. CASE AddRaised(s)
    BY <2>0, <2>7, AddEffects DEF Taken, AddRaised, fields
  <2>8. CASE Filter(s)
    BY <2>0, <2>8, FilterEffects, NoThreadType DEF Taken, Filter, Moved, fields
  <2> QED BY <2>1, <2>2, <2>3, <2>4, <2>5, <2>6, <2>7, <2>8 DEF Loop, Work
<1> QED BY <1>1 DEF Late, Only

LEMMA CallLate ==
  ASSUME Typed, Late, NEW c \in Caller, Route(c) \/ Request(c)
  PROVE  Late'
<1>1. CASE StartClear(c)
  <2>1. ASSUME NEW s \in Sniffer PROVE sniffer'[s].late = 0
    <3>1. sniffer'[s] = [sniffer[s] EXCEPT !.late = 0] /\ sniffer[s] \in SnifferState
      BY <1>1 DEF StartClear, Typed
    <3> QED BY <3>1 DEF SnifferState
  <2> QED BY <2>1 DEF Late
<1>2. CASE \E s \in Sniffer : StartThread(c, s)
  BY <1>2, StartThreadEffects DEF StartThread, Late, Only, fields
<1>3. CASE UNCHANGED sniffer /\ (stopEvent' = stopEvent \/ stopEvent')
  BY <1>3 DEF Late
<1>4. \/ StartClear(c) \/ \E s \in Sniffer : StartThread(c, s)
      \/ UNCHANGED sniffer /\ (stopEvent' = stopEvent \/ stopEvent')
  BY DEF Route, Request, StartCheck, StartInterface, StartThreadFails, StartMark, StopSet, StopMark,
         ClearPackets, Audit, fields
<1> QED BY <1>1, <1>2, <1>3, <1>4

\* OneMorePacket holds for any number of callers and sniffing threads.
THEOREM OneMorePacketCorrect == Spec => []OneMorePacket
<1>1. Init => Late
  BY NoThreadType DEF Init, Late
<1>2. Typed /\ Late /\ [Next]_vars => Late'
  <2>1. UNCHANGED vars /\ Late => Late'
    BY DEF vars, fields, Late
  <2> QED BY <2>1, LoopLate, CallLate DEF Next
<1>3. Late => OneMorePacket
  BY DEF Late, OneMorePacket
<1> QED BY <1>1, <1>2, <1>3, InitTyped, NextTyped, PTL DEF Spec

-----------------------------------------------------------------------------
(* Packets counted                                                          *)

Where(pc) == {s \in Sniffer : sniffer[s].pc = pc}

Counted ==
  /\ packetsCaptured + Cardinality(Where("count")) = packets + cleared
  /\ packets + cleared + Cardinality(Where("store")) <= MaxPackets + Cardinality(Sniffer)

LEMMA WhereFinite ==
  /\ \A pc : IsFiniteSet(Where(pc)) /\ Cardinality(Where(pc)) \in Nat
             /\ Cardinality(Where(pc)) <= Cardinality(Sniffer)
             /\ Where(pc) \subseteq Sniffer
  /\ Cardinality(Sniffer) \in Nat
BY CaptureAssumption, FS_Subset, FS_CardinalityType DEF Where, CaptureAssumption

\* How a step of one thread changes the number of threads at pc
LEMMA OnlyWhere ==
  ASSUME NEW s \in Sniffer, NEW pc, Only(s)
  PROVE  /\ Cardinality(Where(pc)') \in Nat
         /\ (sniffer[s].pc # pc /\ sniffer'[s].pc # pc => Where(pc)' = Where(pc))
         /\ (sniffer[s].pc # pc /\ sniffer'[s].pc = pc
               => Cardinality(Where(pc)') = Cardinality(Where(pc)) + 1)
         /\ (sniffer[s].pc = pc /\ sniffer'[s].pc # pc
               => Cardinality(Where(pc)') = Cardinality(Where(pc)) - 1)
<1>1. IsFiniteSet(Where(pc)) /\ IsFiniteSet(Where(pc)')
  BY CaptureAssumption, FS_Subset DEF Where, CaptureAssumption
<1>2. ASSUME sniffer[s].pc # pc, sniffer'[s].pc # pc PROVE Where(pc)' = Where(pc)
  BY <1>2 DEF Where, Only
<1>3. ASSUME sniffer[s].pc # pc, sniffer'[s].pc = pc
      PROVE  Where(pc)' = Where(pc) \cup {s} /\ s \notin Where(pc)
  BY <1>3 DEF Where, Only
<1>4. ASSUME sniffer[s].pc = pc, sniffer'[s].pc # pc
      PROVE  Where(pc)' = Where(pc) \ {s} /\ s \in Where(pc)
  BY <1>4 DEF Where, Only
<1> QED BY <1>1, <1>2, <1>3, <1>4, FS_AddElement, FS_RemoveElement, FS_CardinalityType

LEMMA OthersCounted ==
  ASSUME Counted, NEW s \in Sniffer, Only(s), UNCHANGED <<packetsCaptured, packets, cleared>>,
         sniffer[s].pc \notin {"store", "count"}, sniffer'[s].pc \notin {"store", "count"}
  PROVE  Counted'
BY OnlyWhere DEF Counted

LEMMA LoopCounted ==
  ASSUME Typed, Counted, NEW s \in Sniffer, Loop(s)
  PROVE  Counted'
<1>0. /\ packets \in Nat /\ cleared \in Nat /\ packetsCaptured \in Nat /\ MaxPackets \in Nat
      /\ Cardinality(Where("store")) \in Nat /\ Cardinality(Where("count")) \in Nat
      /\ Cardinality(Where("store")) <= Cardinality(Sniffer) /\ Cardinality(Sniffer) \in Nat
  BY WhereFinite, CaptureAssumption DEF Typed, CaptureAssumption
<1>1. CASE Open(s)
  BY <1>1, OpenEffects, OthersCounted DEF Open, SnifferAt, counters, tables
<1>2. CASE Arrive(s)
  <2>1. /\ Only(s) /\ sniffer[s].pc = "wait" /\ sniffer'[s].pc \in {"store", "filter", "failed"}
        /\ sniffer'[s].pc = "store" => packets + cleared < MaxPackets
        /\ UNCHANGED <<packetsCaptured, packets, cleared>>
    BY <1>2, ArriveEffects DEF Arrive, SnifferAt, counters, tables
  <2>2. CASE sniffer'[s].pc \in {"filter", "failed"}
    BY <2>1, <2>2, OthersCounted
  <2>3. CASE sniffer'[s].pc = "store"
    <3>1. Where("count")' = Where("count")
          /\ Cardinality(Where("store")') \in Nat
      BY <2>1, <2>3, OnlyWhere
    <3>2. Cardinality(Where("store")') <= Cardinality(Sniffer)
      BY CaptureAssumption, FS_Subset DEF Where, CaptureAssumption
    <3> QED BY <1>0, <2>1, <2>3, <3>1, <3>2 DEF Counted
  <2> QED BY <2>1, <2>2, <2>3
<1>3. CASE Store(s)
  <2>1. Only(s) /\ sniffer[s].pc = "store" /\ UNCHANGED <<packetsCaptured, cleared>>
    BY <1>3, StoreEffects DEF Store, SnifferAt, counters
  <2>2. \/ sniffer'[s].pc = "count" /\ packets' = packets + 1
        \/ sniffer'[s].pc = "filter" /\ packets' = packets
    BY <1>3, StoreEffects
  <2>3. Cardinality(Where("store")') = Cardinality(Where("store")) - 1
    BY <2>1, <2>2, OnlyWhere
  <2>4. CASE sniffer'[s].pc = "count" /\ packets' = packets + 1
    <3>1. Cardinality(Where("count")') = Cardinality(Where("count")) + 1
      BY <2>1, <2>4, OnlyWhere
    <3> QED BY <1>0, <2>1, <2>3, <2>4, <3>1 DEF Counted
  <2>5. CASE sniffer'[s].pc = "filter" /\ packets' = packets
    <3>1. Where("count")' = Where("count")
      BY <2>1, <2>5, OnlyWhere
    <3> QED BY <1>0, <2>1, <2>3, <2>5, <3>1 DEF Counted
  <2> QED BY <2>2, <2>4, <2>5
<1>4. CASE Count(s)
  <2>1. Only(s) /\ sniffer[s].pc = "count" /\ sniffer'[s].pc = "detect"
        /\ packetsCaptured' = packetsCaptured + 1 /\ UNCHANGED <<packets, cleared>>
    BY <1>4, CountEffects DEF Count, SnifferAt, tables
  <2>2. Cardinality(Where("count")') = Cardinality(Where("count")) - 1
        /\ Where("store")' = Where("store")
    BY <2>1, OnlyWhere
  <2> QED BY <1>0, <2>1, <2>2 DEF Counted
<1>5. CASE Detect(s)
  BY <1>5, DetectEffects, OthersCounted DEF Detect, SnifferAt, counters
<1>6. CASE LoadRaised(s)
  BY <1>6, LoadEffects, OthersCounted DEF LoadRaised, SnifferAt, counters, tables
<1>7. CASE AddRaised(s)
  BY <1>7, AddEffects, OthersCounted DEF AddRaised, SnifferAt, tables
<1>8. CASE Filter(s)
  BY <1>8, FilterEffects, NoThreadType, OthersCounted DEF Filter, SnifferAt, counters, tables
<1> QED BY <1>1, <1>2, <1>3, <1>4, <1>5, <1>6, <1>7, <1>8 DEF Loop, Work

LEMMA CallCounted ==
  ASSUME Typed, Counted, NEW c \in Caller, Route(c) \/ Request(c)
  PROVE  Counted'
<1>1. CASE \E s \in Sniffer : StartThread(c, s)
  <2>1. PICK s \in Sniffer : StartThread(c, s)
    BY <1>1
  <2>2. sniffer[s].pc \in {"none", "failed"}
    BY <2>1 DEF StartThread, Free, Alive
  <2> QED BY <2>1, <2>2, StartThreadEffects, OthersCounted DEF StartThread, counters, tables
<1>2. CASE /\ \A s \in Sniffer : sniffer'[s].pc = sniffer[s].pc
           /\ packetsCaptured' = packetsCaptured
           /\ packets' + cleared' = packets + cleared
  <2>1. Where("store")' = Where("store") /\ Where("count")' = Where("count")
    BY <1>2 DEF Where
  <2> QED BY <1>2, <2>1 DEF Counted
<1>3. CASE StartClear(c)
  <2>1. ASSUME NEW s \in Sniffer PROVE sniffer'[s].pc = sniffer[s].pc
    <3>1. sniffer'[s] = [sniffer[s] EXCEPT !.late = 0] /\ sniffer[s] \in SnifferState
      BY <1>3 DEF StartClear, Typed
    <3> QED BY <3>1 DEF SnifferState
  <2> QED BY <1>2, <1>3, <2>1 DEF StartClear, counters, tables
<1>4. CASE ClearPackets(c)
  BY <1>2, <1>4 DEF ClearPackets, counters, Typed
<1>5. CASE UNCHANGED <<sniffer, counters, tables>>
  BY <1>2, <1>5 DEF counters, tables
<1>6. \/ StartClear(c) \/ ClearPackets(c) \/ (\E s \in Sniffer : StartThread(c, s))
      \/ UNCHANGED <<sniffer, counters, tables>>
  BY DEF Route, Request, StartCheck, StartInterface, StartThreadFails, StartMark, StopSet, StopMark,
         Audit
<1> QED BY <1>1, <1>3, <1>4, <1>5, <1>6

LEMMA InitCounted == Init => Counted
<1> SUFFICES ASSUME Init PROVE Counted
  OBVIOUS
<1>1. Where("store") = {} /\ Where("count") = {}
  BY NoThreadType DEF Init, Where
<1>2. Cardinality(Sniffer) \in Nat /\ MaxPackets \in Nat /\ Cardinality({}) = 0
  BY WhereFinite, CaptureAssumption, FS_EmptySet DEF CaptureAssumption
<1>3. packetsCaptured = 0 /\ packets = 0 /\ cleared = 0
  BY DEF Init
<1>4. Cardinality(Where("store")) = 0 /\ Cardinality(Where("count")) = 0
  BY <1>1, <1>2, Zenon
<1> QED BY <1>2, <1>3, <1>4 DEF Counted

LEMMA NextCounted == Typed /\ Counted /\ [Next]_vars => Counted'
<1>1. UNCHANGED vars /\ Counted => Counted'
  BY DEF vars, counters, tables, Counted, Where
<1> QED BY <1>1, LoopCounted, CallCounted DEF Next

\* PacketsCounted holds for any number of threads and of packets, cleared or not.
THEOREM PacketsCountedCorrect == Spec => []PacketsCounted
<1>1. Counted => PacketsCounted
  BY DEF Counted, PacketsCounted, Where
<1> QED BY <1>1, InitTyped, NextTyped, InitCounted, NextCounted, PTL DEF Spec

-----------------------------------------------------------------------------
(* Alerts counted                                                           *)

\* f names the alerts that each thread has found and not yet added to alerts_raised.
Uncounted(f) == {a \in 1 .. alerts : \E s \in Sniffer : a \in f[s]}
Names(f) ==
  /\ f \in [Sniffer -> SUBSET (1 .. alerts)]
  /\ \A s \in Sniffer : Cardinality(f[s]) = sniffer[s].found
  /\ \A s, x \in Sniffer : s # x => f[s] \cap f[x] = {}

\* No counter, and none a thread has loaded, counts one of them.
Bounds(n) ==
  alertsRaised + n <= alerts /\ \A s \in Sniffer : sniffer[s].read + n <= alerts

Ledger == \E f : Names(f) /\ Bounds(Cardinality(Uncounted(f)))

LEMMA UncountedFinite ==
  ASSUME Typed, NEW f, Names(f)
  PROVE  /\ IsFiniteSet(Uncounted(f)) /\ Cardinality(Uncounted(f)) \in Nat
         /\ Cardinality(Uncounted(f)) <= alerts /\ alerts \in Nat
         /\ \A s \in Sniffer : IsFiniteSet(f[s]) /\ f[s] \subseteq Uncounted(f)
<1>1. alerts \in Nat
  BY DEF Typed
<1>2. IsFiniteSet(1 .. alerts) /\ Cardinality(1 .. alerts) = alerts
  BY <1>1, FS_Interval
<1>3. Uncounted(f) \subseteq 1 .. alerts
  BY DEF Uncounted
<1>4. \A s \in Sniffer : f[s] \subseteq Uncounted(f) /\ f[s] \subseteq 1 .. alerts
  BY DEF Uncounted, Names
<1> QED BY <1>1, <1>2, <1>3, <1>4, FS_Subset, FS_CardinalityType

\* Steps that find nothing and count nothing
LEMMA OthersLedger ==
  ASSUME Ledger, Typed, UNCHANGED <<alertsRaised, alerts>>,
         \A x \in Sniffer : /\ sniffer'[x].found = sniffer[x].found
                            /\ sniffer'[x].read \in {0, sniffer[x].read}
  PROVE  Ledger'
<1>1. PICK f : Names(f) /\ Bounds(Cardinality(Uncounted(f)))
  BY DEF Ledger
<1>2. Names(f)' /\ Uncounted(f)' = Uncounted(f)
  BY <1>1 DEF Names, Uncounted
<1>3. Bounds(Cardinality(Uncounted(f)))'
  <2>1. Cardinality(Uncounted(f)) \in Nat /\ Cardinality(Uncounted(f)) <= alerts
    BY <1>1, UncountedFinite
  <2> DEFINE n == Cardinality(Uncounted(f))
  <2>2. \A x \in Sniffer : sniffer'[x].read + n <= alerts
    BY <1>1, <2>1 DEF Bounds
  <2> QED BY <1>1, <1>2, <2>2 DEF Bounds
<1> QED BY <1>2, <1>3 DEF Ledger

LEMMA BlockFacts ==
  ASSUME NEW a \in Nat, NEW n \in Nat
  PROVE  IsFiniteSet(a + 1 .. a + n) /\ Cardinality(a + 1 .. a + n) = n
<1> DEFINE lo == a + 1
<1> DEFINE hi == a + n
<1>1. lo \in Int /\ hi \in Int
  OBVIOUS
<1>2. (IF lo > hi THEN 0 ELSE hi - lo + 1) = n
  OBVIOUS
<1> HIDE DEF lo, hi
<1>3. IsFiniteSet(lo .. hi) /\ Cardinality(lo .. hi) = IF lo > hi THEN 0 ELSE hi - lo + 1
  BY <1>1, FS_Interval
<1>4. IsFiniteSet(lo .. hi) /\ Cardinality(lo .. hi) = n
  BY <1>2, <1>3
<1> QED BY <1>4 DEF lo, hi

LEMMA DetectLedger ==
  ASSUME Ledger, Typed, NEW s \in Sniffer, Detect(s)
  PROVE  Ledger'
<1>1. PICK f : Names(f) /\ Bounds(Cardinality(Uncounted(f)))
  BY DEF Ledger
<1>2. PICK n \in 0 .. MaxAlerts - alerts :
           /\ Only(s) /\ alerts' = alerts + n
           /\ sniffer'[s].read = sniffer[s].read
           /\ \/ sniffer'[s].pc = "load" /\ sniffer'[s].found = n
              \/ sniffer'[s].pc = "filter" /\ sniffer'[s].found = sniffer[s].found
  BY DetectEffects
<1>3. /\ alerts \in Nat /\ n \in Nat /\ alertsRaised \in Nat /\ sniffer[s].found = 0
      /\ alertsRaised' = alertsRaised /\ \A x \in Sniffer : sniffer'[x].read = sniffer[x].read
      /\ \A x \in Sniffer : sniffer[x].read \in Nat
  BY <1>2 DEF Detect, SnifferAt, Typed, SnifferState, Only, counters
<1>k. PICK k : k = Cardinality(Uncounted(f))
  OBVIOUS
<1>4. k \in Nat /\ IsFiniteSet(Uncounted(f)) /\ IsFiniteSet(f[s])
  BY <1>1, <1>k, UncountedFinite
<1>5. CASE sniffer'[s].found = sniffer[s].found
  <2>1. Names(f)'
    <3>1. f \in [Sniffer -> SUBSET (1 .. alerts')]
      BY <1>1, <1>2, <1>3 DEF Names
    <3> QED BY <1>1, <1>2, <1>5, <3>1 DEF Names, Only
  <2>2. Uncounted(f)' = Uncounted(f)
    BY <1>1, <1>2, <1>3 DEF Names, Uncounted
  <2>3. Bounds(k)'
    BY <1>1, <1>2, <1>3, <1>4, <1>k DEF Bounds
  <2> QED BY <1>k, <2>1, <2>2, <2>3 DEF Ledger, Bounds
<1>6. CASE sniffer'[s].found = n
  <2>n. PICK new : new = alerts + 1 .. alerts + n
    OBVIOUS
  <2>g. PICK g : g = [f EXCEPT ![s] = new]
    OBVIOUS
  <2>1. f[s] = {}
    BY <1>1, <1>3, <1>4, FS_EmptySet DEF Names
  <2>2. IsFiniteSet(new) /\ Cardinality(new) = n /\ new \subseteq 1 .. alerts'
        /\ new \cap (1 .. alerts) = {} /\ 1 .. alerts \subseteq 1 .. alerts'
    <3>1. IsFiniteSet(new) /\ Cardinality(new) = n
      BY <1>3, <2>n, BlockFacts
    <3> QED BY <1>2, <1>3, <2>n, <3>1
  <2>3. f \in [Sniffer -> SUBSET (1 .. alerts)]
    BY <1>1 DEF Names
  <2>4. g[s] = new /\ \A x \in Sniffer \ {s} : g[x] = f[x]
    BY <2>3, <2>g
  <2>5. g \in [Sniffer -> SUBSET (1 .. alerts')]
    BY <2>2, <2>3, <2>g
  <2>6. Names(g)'
    <3>1. \A x \in Sniffer : Cardinality(g[x]) = sniffer'[x].found
      BY <1>1, <1>2, <1>6, <2>2, <2>4 DEF Names, Only
    <3>2. \A x, y \in Sniffer : x # y => g[x] \cap g[y] = {}
      BY <1>1, <2>2, <2>3, <2>4 DEF Names
    <3> QED BY <2>5, <3>1, <3>2 DEF Names
  <2>7. Uncounted(g)' = Uncounted(f) \cup new
    <3>1. \A a \in Uncounted(g)' : a \in Uncounted(f) \cup new
      <4>1. \A x \in Sniffer \ {s} : g[x] \subseteq 1 .. alerts
        BY <2>3, <2>4
      <4> QED BY <2>4, <4>1 DEF Uncounted
    <3>2. \A a \in Uncounted(f) \cup new : a \in Uncounted(g)'
      BY <2>1, <2>2, <2>4 DEF Uncounted
    <3> QED BY <3>1, <3>2
  <2>8. Uncounted(f) \cap new = {}
    BY <2>2 DEF Uncounted
  <2>9. Cardinality(Uncounted(g)') = k + n
    <3>1. Cardinality(Uncounted(f) \cup new)
            = Cardinality(Uncounted(f)) + Cardinality(new) - Cardinality(Uncounted(f) \cap new)
      BY <1>4, <2>2, FS_Union
    <3>2. Cardinality(Uncounted(f) \cap new) = 0
      BY <2>8, FS_EmptySet, Zenon
    <3>3. Cardinality(Uncounted(f) \cup new) = k + n
      BY <1>3, <1>4, <1>k, <2>2, <3>1, <3>2
    <3> QED BY <2>7, <3>3
  <2>10. Bounds(Cardinality(Uncounted(g)))'
    BY <1>1, <1>2, <1>3, <1>4, <1>k, <2>9 DEF Bounds
  <2> QED BY <2>6, <2>10 DEF Ledger
<1> QED BY <1>2, <1>5, <1>6

LEMMA LoadLedger ==
  ASSUME Ledger, Typed, NEW s \in Sniffer, LoadRaised(s)
  PROVE  Ledger'
<1>1. PICK f : Names(f) /\ Bounds(Cardinality(Uncounted(f)))
  BY DEF Ledger
<1>2. Only(s) /\ sniffer'[s].read = alertsRaised /\ sniffer'[s].found = sniffer[s].found
      /\ UNCHANGED <<alertsRaised, alerts>>
  BY LoadEffects DEF LoadRaised, counters, tables
<1>3. Names(f)' /\ Uncounted(f)' = Uncounted(f)
  BY <1>1, <1>2 DEF Names, Uncounted, Only
<1>4. Bounds(Cardinality(Uncounted(f)))'
  <2> DEFINE n == Cardinality(Uncounted(f))
  <2>1. \A x \in Sniffer : sniffer'[x].read + n <= alerts
    BY <1>1, <1>2 DEF Bounds, Only
  <2> QED BY <1>1, <1>2, <1>3, <2>1 DEF Bounds
<1> QED BY <1>3, <1>4 DEF Ledger

LEMMA AddLedger ==
  ASSUME Ledger, Typed, NEW s \in Sniffer, AddRaised(s)
  PROVE  Ledger'
<1>1. PICK f : Names(f) /\ Bounds(Cardinality(Uncounted(f)))
  BY DEF Ledger
<1>k. PICK k : k = Cardinality(Uncounted(f))
  OBVIOUS
<1>d. PICK d : d = sniffer[s].found
  OBVIOUS
<1>2. /\ Only(s) /\ sniffer'[s].read = 0 /\ sniffer'[s].found = 0
      /\ alertsRaised' = sniffer[s].read + d /\ alerts' = alerts
  BY <1>d, AddEffects DEF AddRaised, tables
<1>3. /\ alerts \in Nat /\ d \in Nat /\ \A x \in Sniffer : sniffer[x].read \in Nat
      /\ k \in Nat /\ k <= alerts /\ IsFiniteSet(Uncounted(f)) /\ IsFiniteSet(f[s])
      /\ f[s] \subseteq Uncounted(f) /\ Cardinality(f[s]) = d
  BY <1>1, <1>k, <1>d, UncountedFinite DEF Typed, SnifferState, Names
<1>g. PICK g : g = [f EXCEPT ![s] = {}]
  OBVIOUS
<1>4. f \in [Sniffer -> SUBSET (1 .. alerts)]
  BY <1>1 DEF Names
<1>5. g \in [Sniffer -> SUBSET (1 .. alerts)] /\ g[s] = {} /\ \A x \in Sniffer \ {s} : g[x] = f[x]
  BY <1>4, <1>g
<1>6. Names(g)'
  <2>1. \A x \in Sniffer : Cardinality(g[x]) = sniffer'[x].found
    BY <1>1, <1>2, <1>5, FS_EmptySet DEF Names, Only
  <2>2. \A x, y \in Sniffer : x # y => g[x] \cap g[y] = {}
    BY <1>1, <1>5 DEF Names
  <2> QED BY <1>2, <1>5, <2>1, <2>2 DEF Names
<1>7. Uncounted(g)' = Uncounted(f) \ f[s]
  <2>1. \A a \in Uncounted(g)' : a \in Uncounted(f) /\ a \notin f[s]
    BY <1>1, <1>2, <1>5 DEF Uncounted, Names
  <2>2. \A a \in Uncounted(f) \ f[s] : a \in Uncounted(g)'
    BY <1>2, <1>5 DEF Uncounted
  <2> QED BY <2>1, <2>2
<1>8. Cardinality(Uncounted(g)') = k - d /\ k - d \in Nat
  <2> DEFINE R == Uncounted(f) \ f[s]
  <2>1. IsFiniteSet(R) /\ Cardinality(R) \in Nat
    BY <1>3, FS_Subset, FS_CardinalityType
  <2>2. R \cup f[s] = Uncounted(f) /\ R \cap f[s] = {}
    BY <1>3
  <2> HIDE DEF R
  <2>3. Cardinality(R \cup f[s]) = Cardinality(R) + Cardinality(f[s]) - Cardinality(R \cap f[s])
    BY <1>3, <2>1, FS_Union
  <2>4. Cardinality(R \cap f[s]) = 0
    BY <2>2, FS_EmptySet, Zenon
  <2>5. Cardinality(R) = k - d
    <3>1. Cardinality(Uncounted(f)) = Cardinality(R) + Cardinality(f[s]) - 0
      BY <2>2, <2>3, <2>4
    <3> QED BY <1>3, <1>k, <2>1, <3>1
  <2> QED BY <1>7, <2>1, <2>5 DEF R
<1>9. Bounds(k - d)'
  <2>1. sniffer[s].read + k <= alerts /\ \A x \in Sniffer : sniffer[x].read + k <= alerts
    BY <1>1, <1>k DEF Bounds
  <2>2. \A x \in Sniffer : sniffer'[x].read + (k - d) <= alerts
    BY <1>2, <1>3, <1>8, <2>1 DEF Only
  <2>3. alertsRaised' + (k - d) <= alerts
    BY <1>2, <1>3, <2>1
  <2> QED BY <1>2, <2>2, <2>3 DEF Bounds
<1> QED BY <1>6, <1>8, <1>9 DEF Ledger, Bounds

LEMMA LoopLedger ==
  ASSUME Ledger, Typed, NEW s \in Sniffer, Loop(s)
  PROVE  Ledger'
<1>1. CASE Open(s)
  BY <1>1, OpenEffects, OthersLedger DEF Open, Moved, Only, counters, tables
<1>2. CASE Arrive(s)
  BY <1>2, ArriveEffects, OthersLedger DEF Arrive, Only, counters, tables
<1>3. CASE Store(s)
  BY <1>3, StoreEffects, OthersLedger DEF Store, Moved, Only, counters
<1>4. CASE Count(s)
  BY <1>4, CountEffects, OthersLedger DEF Count, Moved, Only, tables
<1>5. CASE Filter(s)
  <2>1. sniffer[s].found = 0
    BY <1>5 DEF Filter, SnifferAt, Typed
  <2> QED BY <1>5, <2>1, FilterEffects, NoThreadType, OthersLedger
          DEF Filter, Moved, Only, counters, tables
<1> QED BY <1>1, <1>2, <1>3, <1>4, <1>5, DetectLedger, LoadLedger, AddLedger DEF Loop, Work

LEMMA CallLedger ==
  ASSUME Ledger, Typed, NEW c \in Caller, Route(c) \/ Request(c)
  PROVE  Ledger'
<1>1. CASE \E s \in Sniffer : StartThread(c, s)
  <2>1. PICK s \in Sniffer : StartThread(c, s)
    BY <1>1
  <2>2. sniffer[s].found = 0
    BY <2>1 DEF StartThread, Free, Alive, Typed
  <2> QED BY <2>1, <2>2, StartThreadEffects, OthersLedger DEF StartThread, Only, counters, tables
<1>2. CASE StartClear(c)
  <2>1. ASSUME NEW s \in Sniffer
        PROVE  sniffer'[s].found = sniffer[s].found /\ sniffer'[s].read = sniffer[s].read
    <3>1. sniffer'[s] = [sniffer[s] EXCEPT !.late = 0] /\ sniffer[s] \in SnifferState
      BY <1>2 DEF StartClear, Typed
    <3> QED BY <3>1 DEF SnifferState
  <2> QED BY <1>2, <2>1, OthersLedger DEF StartClear, counters, tables
<1>3. CASE UNCHANGED <<sniffer, alertsRaised, alerts>>
  BY <1>3, OthersLedger
<1>4. \/ StartClear(c) \/ (\E s \in Sniffer : StartThread(c, s))
      \/ UNCHANGED <<sniffer, alertsRaised, alerts>>
  BY DEF Route, Request, StartCheck, StartInterface, StartThreadFails, StartMark, StopSet, StopMark,
         Audit, ClearPackets, counters, tables
<1> QED BY <1>1, <1>2, <1>3, <1>4

LEMMA InitLedger == Init => Ledger
<1> SUFFICES ASSUME Init PROVE Ledger
  OBVIOUS
<1> DEFINE f == [s \in Sniffer |-> {}]
<1>1. alerts = 0 /\ alertsRaised = 0
  BY DEF Init
<1>2. \A s \in Sniffer : sniffer[s].found = 0 /\ sniffer[s].read = 0
  BY NoThreadType DEF Init
<1>3. Names(f) /\ Uncounted(f) = {}
  BY <1>2, FS_EmptySet DEF Names, Uncounted
<1>4. Cardinality(Uncounted(f)) = 0
  BY <1>3, FS_EmptySet, Zenon
<1>5. Bounds(0)
  BY <1>1, <1>2 DEF Bounds
<1> QED BY <1>3, <1>4, <1>5 DEF Ledger

LEMMA NextLedger == Ledger /\ Typed /\ [Next]_vars => Ledger'
<1>1. UNCHANGED vars /\ Ledger /\ Typed => Ledger'
  BY OthersLedger DEF vars, counters, tables
<1> QED BY <1>1, LoopLedger, CallLedger DEF Next

LEMMA LedgerBounds ==
  ASSUME Typed, Ledger
  PROVE  /\ alertsRaised <= alerts
         /\ \A s \in Sniffer : sniffer[s].read <= alerts /\ sniffer[s].found <= alerts
<1>1. PICK f : Names(f) /\ Bounds(Cardinality(Uncounted(f)))
  BY DEF Ledger
<1>2. Cardinality(Uncounted(f)) \in Nat /\ Cardinality(Uncounted(f)) <= alerts
      /\ IsFiniteSet(Uncounted(f)) /\ alerts \in Nat /\ alertsRaised \in Nat
      /\ \A s \in Sniffer : sniffer[s].read \in Nat /\ sniffer[s].found \in Nat
                            /\ f[s] \subseteq Uncounted(f)
  BY <1>1, UncountedFinite DEF Typed, SnifferState
<1>3. \A s \in Sniffer : sniffer[s].found <= Cardinality(Uncounted(f))
  BY <1>1, <1>2, FS_Subset DEF Names
<1> QED BY <1>1, <1>2, <1>3 DEF Bounds

\* AlertsNotOvercounted holds for any number of threads, whichever counts they lose.
THEOREM AlertsNotOvercountedCorrect == Spec => []AlertsNotOvercounted
<1>1. Typed /\ Ledger => AlertsNotOvercounted
  BY LedgerBounds DEF AlertsNotOvercounted
<1> QED BY <1>1, InitTyped, NextTyped, InitLedger, NextLedger, PTL DEF Spec

\* TypeOK holds for any callers and finitely many threads; the counters' bounds come from
\* what they count.
THEOREM TypeCorrect == Spec => []TypeOK
<1>1. Typed /\ Counted /\ Ledger => TypeOK
  <2> SUFFICES ASSUME Typed, Counted, Ledger PROVE TypeOK
    OBVIOUS
  <2>1. alerts \in Nat /\ MaxAlerts \in Nat /\ alerts <= MaxAlerts /\ alertsRaised \in Nat
        /\ packets \in Nat /\ cleared \in Nat /\ packetsCaptured \in Nat
    BY CaptureAssumption DEF Typed, CaptureAssumption
  <2>2. alertsRaised \in 0 .. MaxAlerts
    BY <2>1, LedgerBounds
  <2>3. packetsCaptured \in 0 .. MaxPackets + Cardinality(Sniffer)
    <3>1. packetsCaptured + Cardinality(Where("count")) = packets + cleared
          /\ packets + cleared + Cardinality(Where("store")) <= MaxPackets + Cardinality(Sniffer)
          /\ Cardinality(Where("count")) \in Nat /\ Cardinality(Where("store")) \in Nat
          /\ MaxPackets \in Nat /\ Cardinality(Sniffer) \in Nat
      BY WhereFinite, CaptureAssumption DEF Counted, CaptureAssumption
    <3> QED BY <2>1, <3>1
  <2>4. ASSUME NEW s \in Sniffer
        PROVE  sniffer[s] \in [pc : SnifferPc, iface : Interface \cup {None},
                               found : 0 .. MaxAlerts, read : 0 .. MaxAlerts, late : 0 .. 2]
    <3>1. sniffer[s] \in SnifferState /\ sniffer[s].read <= alerts /\ sniffer[s].found <= alerts
      BY LedgerBounds DEF Typed
    <3> QED BY <2>1, <3>1 DEF SnifferState
  <2>5. sniffer \in [Sniffer -> [pc : SnifferPc, iface : Interface \cup {None},
                               found : 0 .. MaxAlerts, read : 0 .. MaxAlerts, late : 0 .. 2]]
    BY <2>4 DEF Typed
  <2> QED BY <2>2, <2>3, <2>5 DEF Typed, TypeOK, CallerState, CallerPc, SnifferPc
<1> QED BY <1>1, InitTyped, NextTyped, InitCounted, NextCounted, InitLedger, NextLedger, PTL
        DEF Spec

-----------------------------------------------------------------------------
(* What status() says                                                       *)

Truth ==
  IF isRunning
  THEN ~stopEvent /\ \E s \in Sniffer : sniffer[s].pc # "none" /\ sniffer[s].iface = interface
  ELSE stopEvent \/ Alive = {}

\* A caller that is alone in start() or stop(), and what it has done so far
Undisturbed ==
  \A c \in Busy : caller[c].alone =>
    /\ Busy = {c}
    /\ CallerAt(c, "start_clear") => interface = caller[c].iface
    /\ CallerAt(c, "start_thread") => ~stopEvent /\ interface = caller[c].iface
    /\ CallerAt(c, "start_mark") =>
         ~stopEvent /\ \E s \in Sniffer : sniffer[s].pc # "none" /\ sniffer[s].iface = interface
    /\ CallerAt(c, "stop_mark") => stopEvent

Honest == Undisturbed /\ (calm /\ Busy = {} => Truth)

\* No step of a thread makes the answer wrong: a thread that has not been told to stop stays.
LEMMA LoopHonest ==
  ASSUME Typed, Honest, NEW s \in Sniffer, Loop(s)
  PROVE  Honest'
<1>1. /\ Only(s) /\ UNCHANGED <<fields, caller, calm>>
      /\ sniffer[s].pc \notin {"none", "failed"}
      /\ \/ sniffer'[s].pc # "none" /\ sniffer'[s].iface = sniffer[s].iface
         \/ stopEvent /\ sniffer'[s].pc = "none"
  <2>1. CASE Open(s)
    BY <2>1, OpenEffects DEF Open, SnifferAt, Moved
  <2>2. CASE Arrive(s)
    BY <2>2, ArriveEffects DEF Arrive, SnifferAt
  <2>3. CASE Store(s)
    BY <2>3, StoreEffects DEF Store, SnifferAt, Moved
  <2>4. CASE Count(s)
    BY <2>4, CountEffects DEF Count, SnifferAt, Moved
  <2>5. CASE Detect(s)
    BY <2>5, DetectEffects DEF Detect, SnifferAt
  <2>6. CASE LoadRaised(s)
    BY <2>6, LoadEffects DEF LoadRaised, SnifferAt
  <2>7. CASE AddRaised(s)
    BY <2>7, AddEffects DEF AddRaised, SnifferAt
  <2>8. CASE Filter(s)
    BY <2>8, FilterEffects, NoThreadType DEF Filter, SnifferAt, Moved
  <2> QED BY <2>1, <2>2, <2>3, <2>4, <2>5, <2>6, <2>7, <2>8 DEF Loop, Work
<1>2. Busy' = Busy /\ isRunning' = isRunning /\ stopEvent' = stopEvent /\ interface' = interface
  BY <1>1 DEF Busy, fields
<1> DEFINE Sniffs == \E x \in Sniffer : sniffer[x].pc # "none" /\ sniffer[x].iface = interface
<1>3. Sniffs /\ ~stopEvent => Sniffs'
  BY <1>1, <1>2 DEF Only
<1>4. Alive # {}
  BY <1>1 DEF Alive
<1>5. Undisturbed'
  BY <1>1, <1>2, <1>3 DEF Honest, Undisturbed, CallerAt
<1>6. (calm /\ Busy = {} => Truth)'
  BY <1>1, <1>2, <1>3, <1>4 DEF Honest, Truth
<1> QED BY <1>5, <1>6 DEF Honest

LEMMA CallHonest ==
  ASSUME Typed, Honest, NEW c \in Caller, Route(c) \/ Request(c)
  PROVE  Honest'
<1> USE DEF CallerAt
<1>0. \A x \in Caller : caller[x].alone \in BOOLEAN
  BY DEF Typed, CallerState
<1>1. CASE (\E i \in Interface : StartCheck(c, i)) \/ StopSet(c)
  <2>1. /\ caller'[c].pc \in {"start_iface", "stop_mark"} /\ caller'[c].alone = (Busy = {})
        /\ (caller'[c].pc = "stop_mark" => stopEvent')
        /\ caller[c].pc = "idle"
        /\ \A x \in Caller \ {c} :
              /\ caller'[x].pc = caller[x].pc
              /\ caller'[x].alone = (caller[x].alone /\ x \notin Busy)
    BY <1>1, EnterEffects DEF StartCheck, StopSet, CallerPc
  <2>2. Busy' = Busy \cup {c} /\ c \notin Busy /\ Busy \subseteq Caller
    BY <2>1 DEF Busy
  <2>3. Undisturbed'
    BY <1>0, <2>1, <2>2 DEF Undisturbed
  <2> QED BY <2>2, <2>3 DEF Honest
<1>2. CASE StartClear(c)
  <2>1. OnlyCaller(c) /\ caller'[c].pc = "start_thread" /\ caller'[c].iface = caller[c].iface
        /\ caller'[c].alone = caller[c].alone /\ caller[c].pc = "start_clear"
        /\ interface' = interface /\ stopEvent' = FALSE
    BY <1>2, CallEffects DEF StartClear, CallerPc
  <2>2. Busy' = Busy /\ c \in Busy /\ Busy \subseteq Caller
    BY <2>1 DEF Busy, OnlyCaller
  <2>3. \A x \in Busy : caller'[x].alone => x = c
    BY <2>1, <2>2 DEF Honest, Undisturbed, OnlyCaller
  <2>4. caller[c].alone => Busy = {c} /\ interface = caller[c].iface
    BY <2>1, <2>2 DEF Honest, Undisturbed
  <2>5. Undisturbed'
    BY <2>1, <2>2, <2>3, <2>4 DEF Undisturbed
  <2> QED BY <2>2, <2>5 DEF Honest
<1>6. CASE StartInterface(c)
  <2>1. OnlyCaller(c) /\ caller'[c].pc = "start_clear" /\ caller'[c].iface = caller[c].iface
        /\ caller'[c].alone = caller[c].alone /\ caller[c].pc = "start_iface"
        /\ interface' = caller[c].iface
    BY <1>6, CallEffects DEF StartInterface, CallerPc
  <2>2. Busy' = Busy /\ c \in Busy /\ Busy \subseteq Caller
    BY <2>1 DEF Busy, OnlyCaller
  <2>3. \A x \in Busy : caller'[x].alone => x = c
    BY <2>1, <2>2 DEF Honest, Undisturbed, OnlyCaller
  <2>4. caller[c].alone => Busy = {c}
    BY <2>2 DEF Honest, Undisturbed
  <2>5. Undisturbed'
    BY <2>1, <2>2, <2>3, <2>4 DEF Undisturbed
  <2> QED BY <2>2, <2>5 DEF Honest
<1>7. CASE StartThreadFails(c)
  <2>1. OnlyCaller(c) /\ caller'[c].pc = "idle" /\ caller[c].pc = "start_thread" /\ calm' = FALSE
    <3>1. NoCall \in CallerState /\ NoCall.pc = "idle"
      BY DEF NoCall, CallerState, CallerPc
    <3> QED BY <1>7, <3>1 DEF StartThreadFails, Typed, OnlyCaller
  <2>2. Busy' = Busy \ {c} /\ c \in Busy /\ Busy \subseteq Caller
    BY <2>1 DEF Busy, OnlyCaller
  <2>3. \A x \in Busy' : ~caller'[x].alone
    BY <2>1, <2>2 DEF Honest, Undisturbed, OnlyCaller
  <2> QED BY <2>1, <2>3 DEF Honest, Undisturbed
<1>3. CASE \E s \in Sniffer : StartThread(c, s)
  <2>0. PICK s \in Sniffer : StartThread(c, s)
    BY <1>3
  <2>1. OnlyCaller(c) /\ caller'[c].pc = "start_mark"
        /\ caller'[c].alone = caller[c].alone /\ caller[c].pc = "start_thread"
        /\ interface' = interface /\ stopEvent' = stopEvent
    BY <2>0, CallEffects DEF StartThread, CallerPc, fields
  <2>2. Busy' = Busy /\ c \in Busy /\ Busy \subseteq Caller
    BY <2>1 DEF Busy, OnlyCaller
  <2>3. \A x \in Busy : caller'[x].alone => x = c
    BY <2>1, <2>2 DEF Honest, Undisturbed, OnlyCaller
  <2>4. caller[c].alone => Busy = {c} /\ ~stopEvent /\ interface = caller[c].iface
    BY <2>1, <2>2 DEF Honest, Undisturbed
  <2>5. sniffer'[s].pc = "open" /\ sniffer'[s].iface = caller[c].iface
    BY <2>0, StartThreadEffects
  <2>6. Undisturbed'
    BY <2>1, <2>2, <2>3, <2>4, <2>5 DEF Undisturbed
  <2> QED BY <2>2, <2>6 DEF Honest
<1>4. CASE StartMark(c) \/ StopMark(c)
  <2>1. OnlyCaller(c) /\ caller'[c].pc = "audit" /\ caller[c].pc \in {"start_mark", "stop_mark"}
        /\ calm' = caller[c].alone /\ UNCHANGED <<interface, stopEvent, sniffer>>
        /\ isRunning' = (caller[c].pc = "start_mark")
    BY <1>4, ReturnEffects DEF StartMark, StopMark, CallerPc
  <2>2. Busy' = Busy \ {c} /\ c \in Busy /\ Busy \subseteq Caller
    BY <2>1 DEF Busy, OnlyCaller
  <2>3. \A x \in Busy' : ~caller'[x].alone
    BY <2>1, <2>2 DEF Honest, Undisturbed, OnlyCaller
  <2>4. caller[c].alone => Truth'
    BY <2>1, <2>2 DEF Honest, Undisturbed, Truth, Alive
  <2> QED BY <2>1, <2>3, <2>4 DEF Honest, Undisturbed
<1>5. CASE ClearPackets(c) \/ Audit(c)
  <2>1. caller'[c].pc \in {"idle", "audit"} /\ caller[c].pc \in {"idle", "audit"}
        /\ \A x \in Caller \ {c} : caller'[x] = caller[x]
    <3>1. NoCall.pc = "idle"
      BY DEF NoCall
    <3>2. CASE Audit(c)
      BY <3>1, <3>2 DEF Audit, Typed
    <3>3. CASE ClearPackets(c)
      BY <3>3, ReturnEffects DEF ClearPackets, OnlyCaller, CallerPc
    <3> QED BY <1>5, <3>2, <3>3
  <2>2. UNCHANGED <<isRunning, interface, stopEvent, sniffer, calm>>
    BY <1>5 DEF ClearPackets, Audit, fields
  <2>3. Busy' = Busy /\ c \notin Busy
    BY <2>1 DEF Busy
  <2>4. \A x \in Busy : caller'[x] = caller[x]
    BY <2>1, <2>3 DEF Busy
  <2>5. Undisturbed'
    BY <2>2, <2>3, <2>4 DEF Honest, Undisturbed
  <2>6. (calm /\ Busy = {} => Truth)'
    BY <2>2, <2>3 DEF Honest, Truth, Alive
  <2> QED BY <2>5, <2>6 DEF Honest
<1> QED BY <1>1, <1>2, <1>3, <1>4, <1>5, <1>6, <1>7 DEF Route, Request

\* StatusIsTrue holds for any number of callers and sniffing threads.
THEOREM StatusIsTrueCorrect == Spec => []StatusIsTrue
<1>1. Init => Honest
  <2> SUFFICES ASSUME Init PROVE Honest
    OBVIOUS
  <2>1. Busy = {}
    BY DEF Init, Busy, NoCall
  <2>2. Alive = {} /\ isRunning = FALSE
    BY NoThreadType DEF Init, Alive
  <2> QED BY <2>1, <2>2 DEF Honest, Undisturbed, Truth
<1>2. Typed /\ Honest /\ [Next]_vars => Honest'
  <2>1. UNCHANGED vars /\ Honest => Honest'
    BY DEF vars, fields, Honest, Undisturbed, Truth, Busy, Alive, CallerAt
  <2> QED BY <2>1, LoopHonest, CallHonest DEF Next
<1>3. Honest => StatusIsTrue
  BY DEF Honest, Truth, StatusIsTrue
<1> QED BY <1>1, <1>2, <1>3, InitTyped, NextTyped, PTL DEF Spec
=============================================================================
