------------------------- MODULE SharedWindow_proofs -------------------------
(***************************************************************************)
(* Theorems about SharedWindow, for any threads, window and threshold.      *)
(***************************************************************************)
EXTENDS SharedWindow, TLAPS, SequenceTheorems

-----------------------------------------------------------------------------
(* Deques                                                                   *)

LEMMA AppendFacts ==
  ASSUME NEW q \in Seq(Entry), NEW e \in Entry
  PROVE  /\ Append(q, e) \in Seq(Entry) /\ Len(Append(q, e)) = Len(q) + 1
         /\ DOMAIN Append(q, e) = 1 .. Len(q) + 1
         /\ Append(q, e)[Len(q) + 1] = e
         /\ \A i \in 1 .. Len(q) : Append(q, e)[i] = q[i]
         /\ EventsOf(Append(q, e)) = EventsOf(q) \cup {e.event}
<1>1. /\ Append(q, e) \in Seq(Entry) /\ Len(Append(q, e)) = Len(q) + 1
      /\ DOMAIN Append(q, e) = 1 .. Len(q) + 1
      /\ Append(q, e)[Len(q) + 1] = e
      /\ \A i \in 1 .. Len(q) : Append(q, e)[i] = q[i]
  BY AppendProperties
<1>2. DOMAIN q = 1 .. Len(q) /\ 1 .. Len(q) + 1 = (1 .. Len(q)) \cup {Len(q) + 1}
  BY LenProperties
<1>3. EventsOf(Append(q, e)) = EventsOf(q) \cup {e.event}
  BY <1>1, <1>2 DEF EventsOf
<1> QED BY <1>1, <1>3

LEMMA TailFacts ==
  ASSUME NEW q \in Seq(Entry), q # <<>>
  PROVE  /\ Tail(q) \in Seq(Entry)
         /\ \A i \in DOMAIN Tail(q) : i + 1 \in DOMAIN q /\ Tail(q)[i] = q[i + 1]
         /\ DOMAIN Tail(q) \subseteq Int
         /\ EventsOf(Tail(q)) \subseteq EventsOf(q)
<1>1. /\ Tail(q) \in Seq(Entry) /\ Len(Tail(q)) = Len(q) - 1
      /\ \A i \in 1 .. Len(Tail(q)) : Tail(q)[i] = q[i + 1]
  BY HeadTailProperties
<1>2. DOMAIN q = 1 .. Len(q) /\ DOMAIN Tail(q) = 1 .. Len(Tail(q))
      /\ Len(q) \in Nat /\ Len(Tail(q)) \in Nat
  BY <1>1, LenProperties
<1>3. \A i \in DOMAIN Tail(q) : i + 1 \in DOMAIN q /\ Tail(q)[i] = q[i + 1]
  BY <1>1, <1>2
<1>4. EventsOf(Tail(q)) \subseteq EventsOf(q)
  BY <1>3 DEF EventsOf
<1> QED BY <1>1, <1>2, <1>3, <1>4

LEMMA EventsType ==
  ASSUME NEW q \in Seq(Entry)
  PROVE  EventsOf(q) \subseteq 1 .. MaxEvents
<1>1. \A i \in DOMAIN q : q[i] \in Entry
  BY ElementOfSeq, LenProperties
<1> QED BY <1>1 DEF EventsOf, Entry

LEMMA EmptyFacts == <<>> \in Seq(Entry) /\ EventsOf(<<>>) = {} /\ Len(<<>>) = 0
BY DEF EventsOf

-----------------------------------------------------------------------------
(* Types                                                                   *)

\* A thread in the block has an event that has been sniffed.
Typed == TypeOK /\ \A t \in Thread : ~At(t, "idle") => thread[t].event \in 1 .. MaxEvents

ThreadState == [pc : {"idle", "add", "prune", "pop", "values", "count", "text", "describe",
                      "raise", "clear"},
                now : 0 .. MaxClock, event : 0 .. MaxEvents,
                changed : BOOLEAN, counted : SUBSET (1 .. MaxEvents)]

LEMMA IdleType == Idle \in ThreadState /\ Idle.pc = "idle"
BY WindowAssumption DEF Idle, WindowAssumption, ThreadState

LEMMA LaterType ==
  ASSUME NEW a \in 0 .. MaxClock, NEW b \in Int, b <= MaxClock
  PROVE  Later(a, b) \in 0 .. MaxClock /\ Later(a, b) >= a /\ Later(a, b) >= b
BY WindowAssumption DEF Later, WindowAssumption

LEMMA InitTyped == Init => Typed
<1> SUFFICES ASSUME Init PROVE Typed
  OBVIOUS
<1>1. thread \in [Thread -> ThreadState] /\ \A t \in Thread : At(t, "idle")
  BY IdleType DEF Init, At
<1>2. deque \in Seq(Entry)
  BY EmptyFacts DEF Init
<1>3. clock \in 0 .. MaxClock /\ sniffed \in 0 .. MaxEvents /\ slowest \in 0 .. MaxClock
  BY WindowAssumption DEF Init, WindowAssumption
<1>4. failed \in BOOLEAN /\ alerts = {}
  BY DEF Init
<1> QED BY <1>1, <1>2, <1>3, <1>4 DEF Typed, TypeOK, ThreadState

\* What TypeOK says of everything but the threads
Shared ==
  /\ clock \in 0 .. MaxClock /\ sniffed \in 0 .. MaxEvents /\ slowest \in 0 .. MaxClock
  /\ deque \in Seq(Entry)
  /\ alerts \subseteq [by : Thread, event : 1 .. MaxEvents, counted : SUBSET (1 .. MaxEvents)]
  /\ failed \in BOOLEAN

\* What Typed says of one thread
Sane(r) == r \in ThreadState /\ (r.pc # "idle" => r.event \in 1 .. MaxEvents)

LEMMA TypedParts ==
  Typed <=> Shared /\ DOMAIN thread = Thread /\ thread = [x \in Thread |-> thread[x]]
            /\ \A x \in Thread : Sane(thread[x])
BY DEF Typed, TypeOK, Shared, Sane, ThreadState, At

LEMMA TypedPartsPrimed ==
  ASSUME Shared', (DOMAIN thread = Thread)', (thread = [x \in Thread |-> thread[x]])',
         (\A x \in Thread : Sane(thread[x]))'
  PROVE  Typed'
BY DEF Typed, TypeOK, Shared, Sane, ThreadState, At

LEMMA IdleSane == Sane(Idle)
BY IdleType DEF Sane

LEMMA GoSane ==
  ASSUME NEW r, Sane(r), r.pc # "idle", 
         NEW pc \in {"prune", "pop", "values", "count", "text", "describe", "raise", "clear"},
         NEW b \in BOOLEAN, NEW d \in SUBSET (1 .. MaxEvents)
  PROVE  /\ Sane([r EXCEPT !.pc = pc]) /\ Sane([r EXCEPT !.pc = pc, !.changed = b])
         /\ Sane([r EXCEPT !.pc = pc, !.counted = d])
BY DEF Sane, ThreadState

LEMMA ChangedSane ==
  ASSUME NEW r, Sane(r), NEW b \in BOOLEAN PROVE Sane([r EXCEPT !.changed = b])
BY DEF Sane, ThreadState

\* The steps that set no thread's state but t's
LEMMA OneThreadSane ==
  ASSUME NEW t \in Thread, NEW r, Sane(r), thread' = [thread EXCEPT ![t] = r],
         DOMAIN thread = Thread, \A x \in Thread : Sane(thread[x])
  PROVE  DOMAIN thread' = Thread /\ thread' = [x \in Thread |-> thread'[x]]
         /\ \A x \in Thread : Sane(thread'[x])
OBVIOUS

LEMMA StepTyped ==
  ASSUME Typed, NEW t \in Thread, Step(t)
  PROVE  Typed'
<1> DEFINE ThreadsSane == DOMAIN thread = Thread /\ thread = [x \in Thread |-> thread[x]]
                          /\ \A x \in Thread : Sane(thread[x])
<1>0. Shared /\ ThreadsSane /\ Sane(thread[t])
  BY TypedParts
<1>1. CASE Sniff(t)
  <2> DEFINE r == [pc |-> "add", now |-> clock, event |-> sniffed + 1, changed |-> FALSE,
                  counted |-> {}]
  <2>1. sniffed' \in 1 .. MaxEvents
    BY <1>0, <1>1, WindowAssumption DEF Shared, Sniff, WindowAssumption
  <2>2. Sane(r)
    <3>2. sniffed + 1 \in 1 .. MaxEvents /\ sniffed + 1 \in 0 .. MaxEvents /\ clock \in 0 .. MaxClock
      BY <1>0, <1>1, <2>1, WindowAssumption DEF Sniff, Shared, WindowAssumption
    <3>3. r \in ThreadState
      BY <3>2 DEF ThreadState
    <3> QED BY <3>2, <3>3 DEF Sane
  <2>3. thread' = [thread EXCEPT ![t] = r]
    BY <1>1 DEF Sniff
  <2>4. ThreadsSane'
    BY <1>0, <2>2, <2>3, OneThreadSane
  <2>5. Shared'
    BY <1>0, <1>1, <2>1 DEF Shared, Sniff
  <2> QED BY <2>4, <2>5, TypedPartsPrimed
<1>2. CASE Miss(t)
  <2>1. ThreadsSane'
    BY <1>0, <1>2, IdleSane, OneThreadSane DEF Miss, Leave
  <2>2. Shared'
    BY <1>0, <1>2 DEF Shared, Miss
  <2> QED BY <2>1, <2>2, TypedPartsPrimed
<1>3. CASE Add(t)
  <2> DEFINE e == [time |-> thread[t].now, event |-> thread[t].event]
  <2> DEFINE d == clock - thread[t].now
  <2>1. thread[t].now \in 0 .. MaxClock /\ e \in Entry
    BY <1>0, <1>3 DEF Add, At, Entry, Sane, ThreadState
  <2>2. Append(deque, e) \in Seq(Entry)
    BY <1>0, <2>1, AppendFacts DEF Shared
  <2>3. d \in Int /\ d <= MaxClock
    BY <1>0, <2>1, WindowAssumption DEF Shared, WindowAssumption
  <2>4. Later(slowest, d) \in 0 .. MaxClock
    BY <1>0, <2>3, LaterType DEF Shared
  <2>5. ThreadsSane'
    BY <1>0, <1>3, GoSane, ChangedSane DEF Add, Change, At
  <2>6. Shared'
    BY <1>0, <1>3, <2>2, <2>4 DEF Shared, Add
  <2> QED BY <2>5, <2>6, TypedPartsPrimed
<1>4. CASE Prune(t)
  <2>1. ThreadsSane'
    BY <1>0, <1>4, GoSane DEF Prune, Go, At
  <2>2. Shared'
    BY <1>0, <1>4 DEF Shared, Prune
  <2> QED BY <2>1, <2>2, TypedPartsPrimed
<1>5. CASE Pop(t)
  <2>1. CASE deque = <<>>
    <3>1. ThreadsSane'
      BY <1>0, <1>5, <2>1, IdleSane, OneThreadSane DEF Pop, Leave
    <3>2. Shared'
      BY <1>0, <1>5, <2>1 DEF Shared, Pop
    <3> QED BY <3>1, <3>2, TypedPartsPrimed
  <2>2. CASE deque # <<>>
    <3>1. Tail(deque) \in Seq(Entry)
      BY <1>0, <2>2, TailFacts DEF Shared
    <3>2. ThreadsSane'
      <4>1. Change(t, "prune") /\ thread[t].pc = "pop"
        BY <1>5, <2>2 DEF Pop, At
      <4> QED BY <1>0, <4>1, GoSane, ChangedSane DEF Change
    <3>3. Shared'
      BY <1>0, <1>5, <2>2, <3>1 DEF Shared, Pop
    <3> QED BY <3>2, <3>3, TypedPartsPrimed
  <2> QED BY <2>1, <2>2
<1>10. CASE CountBegins(t)
  <2>1. ThreadsSane'
    BY <1>0, <1>10, GoSane DEF CountBegins, Walk, At
  <2>2. Shared'
    BY <1>0, <1>10 DEF Shared, CountBegins
  <2> QED BY <2>1, <2>2, TypedPartsPrimed
<1>11. CASE TextBegins(t)
  <2>1. ThreadsSane'
    BY <1>0, <1>11, GoSane DEF TextBegins, Walk, At
  <2>2. Shared'
    BY <1>0, <1>11 DEF Shared, TextBegins
  <2> QED BY <2>1, <2>2, TypedPartsPrimed
<1>6. CASE Count(t)
  <2>1. EventsOf(deque) \in SUBSET (1 .. MaxEvents)
    BY <1>0, EventsType DEF Shared
  <2>2. ThreadsSane'
    <3>1. CASE ~thread[t].changed /\ Len(deque) >= Threshold
      <4> DEFINE r == [thread[t] EXCEPT !.pc = "text", !.counted = EventsOf(deque)]
      <4>1. Sane(r)
        BY <1>0, <1>6, <2>1, GoSane DEF Count, At
      <4>2. thread' = [thread EXCEPT ![t] = r]
        BY <1>6, <3>1 DEF Count
      <4> QED BY <1>0, <4>1, <4>2, OneThreadSane
    <3>2. CASE ~(~thread[t].changed /\ Len(deque) >= Threshold)
      BY <1>0, <1>6, <3>2, IdleSane, OneThreadSane DEF Count, Leave
    <3> QED BY <3>1, <3>2
  <2>3. Shared'
    BY <1>0, <1>6 DEF Shared, Count
  <2> QED BY <2>2, <2>3, TypedPartsPrimed
<1>7. CASE Describe(t)
  <2>1. ThreadsSane'
    <3>1. CASE thread[t].changed
      BY <1>0, <1>7, <3>1, IdleSane, OneThreadSane DEF Describe, Leave
    <3>2. CASE ~thread[t].changed
      <4>1. Sane([thread[t] EXCEPT !.pc = "raise"])
        BY <1>0, <1>7, GoSane DEF Describe, At
      <4>2. thread' = [thread EXCEPT ![t] = [thread[t] EXCEPT !.pc = "raise"]]
        BY <1>7, <3>2 DEF Describe, Go
      <4> QED BY <1>0, <4>1, <4>2, OneThreadSane
    <3> QED BY <3>1, <3>2
  <2>2. Shared'
    BY <1>0, <1>7 DEF Shared, Describe
  <2> QED BY <2>1, <2>2, TypedPartsPrimed
<1>8. CASE Raise(t)
  <2> DEFINE a == [by |-> t, event |-> thread[t].event, counted |-> thread[t].counted]
  <2>1. a \in [by : Thread, event : 1 .. MaxEvents, counted : SUBSET (1 .. MaxEvents)]
    BY <1>0, <1>8 DEF Raise, At, Sane, ThreadState
  <2>2. ThreadsSane'
    <3>1. CASE thread' = [thread EXCEPT ![t].pc = "clear"]
      BY <1>0, <1>8, <3>1, GoSane, OneThreadSane DEF Raise, At
    <3>2. CASE Leave(t)
      BY <1>0, <3>2, IdleSane, OneThreadSane DEF Leave
    <3> QED BY <1>8, <3>1, <3>2 DEF Raise, Go
  <2>3. Shared'
    BY <1>0, <1>8, <2>1 DEF Shared, Raise
  <2> QED BY <2>2, <2>3, TypedPartsPrimed
<1>9. CASE Clear(t)
  <2>1. ThreadsSane'
    BY <1>0, <1>9, IdleSane, ChangedSane DEF Clear
  <2>2. Shared'
    BY <1>0, <1>9, EmptyFacts DEF Shared, Clear
  <2> QED BY <2>1, <2>2, TypedPartsPrimed
<1> QED BY <1>1, <1>2, <1>3, <1>4, <1>5, <1>6, <1>7, <1>8, <1>9, <1>10, <1>11 DEF Step

LEMMA NextTyped == Typed /\ [Next]_vars => Typed'
<1> SUFFICES ASSUME Typed, [Next]_vars PROVE Typed'
  OBVIOUS
<1>1. CASE Tick
  BY <1>1, WindowAssumption DEF Tick, Typed, TypeOK, At, WindowAssumption
<1>2. CASE UNCHANGED vars
  BY <1>2 DEF vars, Typed, TypeOK, At
<1> QED BY <1>1, <1>2, StepTyped DEF Next

\* TypeOK holds in every reachable state, for any threads, window, threshold and bounds.
THEOREM TypeCorrect == Spec => []TypeOK
<1>1. Typed => TypeOK
  BY DEF Typed
<1> QED BY <1>1, InitTyped, NextTyped, PTL DEF Spec

-----------------------------------------------------------------------------
(* No alarm is missed                                                       *)

\* t has yet to look at the deque, or is about to alert.
Due(t) ==
  \/ thread[t].pc \in {"prune", "pop", "values", "text", "raise", "clear"}
  \/ thread[t].pc \in {"count", "describe"} /\ ~thread[t].changed

AlarmDue == failed \/ Len(deque) < Threshold \/ \E t \in Thread : Due(t)

LEMMA StepAlarmDue ==
  ASSUME Typed, AlarmDue, NEW t \in Thread, Step(t)
  PROVE  AlarmDue'
<1> USE DEF Typed, TypeOK, At
<1>1. CASE Sniff(t)
  BY <1>1 DEF Sniff, AlarmDue, Due
<1>2. CASE Miss(t)
  BY <1>2 DEF Miss, Leave, AlarmDue, Due
<1>3. CASE Add(t)
  BY <1>3 DEF Add, Change, AlarmDue, Due
<1>4. CASE Prune(t)
  BY <1>4 DEF Prune, Go, AlarmDue, Due
<1>5. CASE Pop(t)
  <2>1. CASE deque = <<>>
    BY <1>5, <2>1, EmptyFacts, WindowAssumption DEF Pop, AlarmDue, WindowAssumption
  <2>2. CASE deque # <<>>
    BY <1>5, <2>2 DEF Pop, Change, AlarmDue, Due
  <2> QED BY <2>1, <2>2
<1>10. CASE CountBegins(t)
  BY <1>10 DEF CountBegins, Walk, AlarmDue, Due
<1>11. CASE TextBegins(t)
  BY <1>11 DEF TextBegins, Walk, AlarmDue, Due
<1>6. CASE Count(t)
  <2>1. Len(deque) \in Nat /\ Threshold \in Nat
    BY LenProperties, WindowAssumption DEF WindowAssumption
  <2>2. CASE ~thread[t].changed /\ Len(deque) >= Threshold
    BY <1>6, <2>2 DEF Count, AlarmDue, Due
  <2>3. CASE thread[t].changed
    BY <1>6, <2>3 DEF Count, Leave, AlarmDue, Due
  <2>4. CASE ~(Len(deque) >= Threshold)
    BY <1>6, <2>1, <2>4 DEF Count, AlarmDue
  <2> QED BY <2>2, <2>3, <2>4
<1>7. CASE Describe(t)
  BY <1>7 DEF Describe, Go, Leave, AlarmDue, Due
<1>8. CASE Raise(t)
  BY <1>8 DEF Raise, Go, AlarmDue, Due
<1>9. CASE Clear(t)
  BY <1>9, EmptyFacts, WindowAssumption DEF Clear, AlarmDue, WindowAssumption
<1> QED BY <1>1, <1>2, <1>3, <1>4, <1>5, <1>6, <1>7, <1>8, <1>9, <1>10, <1>11 DEF Step

\* NoAlarmMissed holds for any number of threads: whoever has changed the deque last walks
\* it undisturbed.
THEOREM NoAlarmMissedCorrect == Spec => []NoAlarmMissed
<1>1. Init => AlarmDue
  BY EmptyFacts, WindowAssumption DEF Init, AlarmDue, WindowAssumption
<1>2. Typed /\ AlarmDue /\ [Next]_vars => AlarmDue'
  <2> SUFFICES ASSUME Typed, AlarmDue, [Next]_vars PROVE AlarmDue'
    OBVIOUS
  <2>1. CASE Tick
    BY <2>1 DEF Tick, AlarmDue, Due, At
  <2>2. CASE UNCHANGED vars
    BY <2>2 DEF vars, AlarmDue, Due, At
  <2> QED BY <2>1, <2>2, StepAlarmDue DEF Next
<1>3. AlarmDue => NoAlarmMissed
  BY DEF AlarmDue, NoAlarmMissed, Due, At
<1> QED BY <1>1, <1>2, <1>3, InitTyped, NextTyped, PTL DEF Spec

-----------------------------------------------------------------------------
(* No thread alerts twice about an event                                    *)

\* e has been neither added, nor counted, nor alerted about.
Fresh(e) ==
  /\ e \notin EventsOf(deque)
  /\ \A x \in Thread : e \notin thread[x].counted
  /\ \A a \in alerts : e \notin a.counted

Numbered ==
  /\ \A e \in Int : e > sniffed => Fresh(e)
  /\ \A x \in Thread : At(x, "add") => thread[x].event <= sniffed /\ Fresh(thread[x].event)
  /\ \A x, y \in Thread : At(x, "add") /\ At(y, "add") /\ x # y =>
       thread[x].event # thread[y].event

\* What a thread has alerted about has left the deque when it has cleared it.
Alerted ==
  \A x \in Thread : ~At(x, "clear") =>
    \A a \in alerts : a.by = x =>
      /\ \A e \in EventsOf(deque) : e \notin a.counted
      /\ \A e \in thread[x].counted : e \notin a.counted

LEMMA LeaveEffects ==
  ASSUME Typed, NEW t \in Thread, Leave(t)
  PROVE  /\ thread'[t].counted = {} /\ thread'[t].now = 0 /\ thread'[t].pc = "idle"
         /\ \A x \in Thread \ {t} : thread'[x] = thread[x]
<1>1. Idle.counted = {} /\ Idle.now = 0 /\ Idle.pc = "idle"
  BY DEF Idle
<1>2. thread'[t] = Idle /\ \A x \in Thread \ {t} : thread'[x] = thread[x]
  BY DEF Leave, Typed, TypeOK
<1> QED BY <1>1, <1>2

\* The steps that leave the deque alone, once an event has been added
Looks(t) ==
  Prune(t) \/ CountBegins(t) \/ Count(t) \/ TextBegins(t) \/ Describe(t) \/ Raise(t)

\* Where a thread has pruned and not yet alerted
Counting == {"values", "count", "text", "describe"}

\* What these steps do to the threads: t has seen the deque, or has left.
LEMMA LookEffects ==
  ASSUME Typed, NEW t \in Thread, Looks(t)
  PROVE  /\ deque' = deque /\ clock' = clock /\ slowest' = slowest
         /\ thread'[t].counted \in {{}, thread[t].counted, EventsOf(deque)}
         /\ thread'[t].now \in {0, thread[t].now}
         /\ thread'[t].pc \in Counting =>
              /\ thread'[t].now = thread[t].now
              /\ thread[t].pc \in Counting \/ (Prune(t) /\ ~Stale(t))
         /\ \A x \in Thread \ {t} : thread'[x] = thread[x]
<1>0. thread[t] \in ThreadState /\ thread \in [Thread -> ThreadState]
  BY DEF Typed, TypeOK, ThreadState
<1>1. CASE Leave(t)
  BY <1>1, LeaveEffects DEF Looks, Prune, CountBegins, Count, TextBegins, Describe, Raise, Counting
<1>2. CASE Prune(t)
  <2> DEFINE pc == IF Stale(t) THEN "pop" ELSE "values"
  <2>1. thread' = [thread EXCEPT ![t] = [thread[t] EXCEPT !.pc = pc]]
    BY <1>0, <1>2 DEF Prune, Go
  <2>2. thread'[t] = [thread[t] EXCEPT !.pc = pc]
    BY <1>0, <2>1
  <2> QED BY <1>0, <1>2, <2>1, <2>2 DEF Prune, ThreadState, Counting
<1>3. CASE Count(t) /\ ~Leave(t)
  <2>1. thread' = [thread EXCEPT ![t] = [thread[t] EXCEPT !.pc = "text",
                                                           !.counted = EventsOf(deque)]]
    BY <1>0, <1>3 DEF Count
  <2>2. thread'[t] = [thread[t] EXCEPT !.pc = "text", !.counted = EventsOf(deque)]
    BY <1>0, <2>1
  <2> QED BY <1>0, <1>3, <2>1, <2>2 DEF Count, ThreadState, At, Counting
<1>4. CASE Describe(t) /\ ~Leave(t)
  <2>1. thread' = [thread EXCEPT ![t] = [thread[t] EXCEPT !.pc = "raise"]]
    BY <1>0, <1>4 DEF Describe, Go
  <2>2. thread'[t] = [thread[t] EXCEPT !.pc = "raise"]
    BY <1>0, <2>1
  <2> QED BY <1>0, <1>4, <2>1, <2>2 DEF Describe, ThreadState, Counting
<1>5. CASE Raise(t) /\ ~Leave(t)
  <2>1. thread' = [thread EXCEPT ![t] = [thread[t] EXCEPT !.pc = "clear"]]
    BY <1>0, <1>5 DEF Raise, Go
  <2>2. thread'[t] = [thread[t] EXCEPT !.pc = "clear"]
    BY <1>0, <2>1
  <2> QED BY <1>0, <1>5, <2>1, <2>2 DEF Raise, ThreadState, Counting
<1>6. CASE CountBegins(t)
  <2>1. thread' = [thread EXCEPT ![t] = [thread[t] EXCEPT !.pc = "count", !.changed = FALSE]]
    BY <1>0, <1>6 DEF CountBegins, Walk
  <2>2. thread'[t] = [thread[t] EXCEPT !.pc = "count", !.changed = FALSE]
    BY <1>0, <2>1
  <2> QED BY <1>0, <1>6, <2>1, <2>2 DEF CountBegins, ThreadState, At, Counting
<1>7. CASE TextBegins(t)
  <2>1. thread' = [thread EXCEPT ![t] = [thread[t] EXCEPT !.pc = "describe", !.changed = FALSE]]
    BY <1>0, <1>7 DEF TextBegins, Walk
  <2>2. thread'[t] = [thread[t] EXCEPT !.pc = "describe", !.changed = FALSE]
    BY <1>0, <2>1
  <2> QED BY <1>0, <1>7, <2>1, <2>2 DEF TextBegins, ThreadState, At, Counting
<1> QED BY <1>1, <1>2, <1>3, <1>4, <1>5, <1>6, <1>7 DEF Looks

\* What a step adds to the deque, to the counted events and to the alerts
LEMMA StepEffects ==
  ASSUME Typed, NEW t \in Thread, Step(t)
  PROVE  /\ \A e \in EventsOf(deque)' : e \in EventsOf(deque) \/ (At(t, "add") /\ e = thread[t].event)
         /\ \A e \in thread'[t].counted : e \in thread[t].counted \/ e \in EventsOf(deque)
         /\ \A x \in Thread \ {t} : /\ thread'[x].counted = thread[x].counted
                                    /\ thread'[x].pc = thread[x].pc
                                    /\ thread'[x].event = thread[x].event
                                    /\ thread'[x].now = thread[x].now
         /\ \A a \in alerts' : a \in alerts \/ (At(t, "raise") /\ At(t, "clear")' /\ a.by = t
                                               /\ a.counted = thread[t].counted)
<1>0. deque \in Seq(Entry) /\ DOMAIN thread = Thread /\ thread[t] \in ThreadState
      /\ thread = [x \in Thread |-> thread[x]]
  BY DEF Typed, TypeOK, ThreadState
<1>1. CASE Sniff(t)
  BY <1>0, <1>1 DEF Sniff, EventsOf, At
<1>2. CASE Miss(t)
  BY <1>0, <1>2 DEF Miss, Leave, Idle, EventsOf, At
<1>3. CASE Add(t)
  <2> DEFINE n == [time |-> thread[t].now, event |-> thread[t].event]
  <2>1. n \in Entry
    BY <1>3 DEF Add, At, Entry, Typed, TypeOK
  <2>2. EventsOf(Append(deque, n)) = EventsOf(deque) \cup {thread[t].event}
    BY <1>0, <2>1, AppendFacts
  <2>3. EventsOf(deque)' = EventsOf(Append(deque, n))
    BY <1>3 DEF Add, EventsOf
  <2>4. At(t, "add") /\ alerts' = alerts
    BY <1>3 DEF Add
  <2>5. thread'[t].counted = thread[t].counted
        /\ \A x \in Thread \ {t} : /\ thread'[x].counted = thread[x].counted
                                   /\ thread'[x].pc = thread[x].pc
                                   /\ thread'[x].event = thread[x].event
                                   /\ thread'[x].now = thread[x].now
    BY <1>0, <1>3 DEF Add, Change, Typed, TypeOK
  <2> QED BY <2>2, <2>3, <2>4, <2>5
<1>4. CASE Prune(t)
  <2>1. EventsOf(deque)' = EventsOf(deque) /\ alerts' = alerts
    BY <1>4 DEF Prune, EventsOf
  <2> QED BY <1>4, <2>1, LookEffects DEF Looks
<1>5. CASE Pop(t)
  <2>1. CASE deque = <<>>
    <3>1. EventsOf(deque)' = EventsOf(deque) /\ alerts' = alerts /\ Leave(t)
      BY <1>5, <2>1 DEF Pop, EventsOf
    <3> QED BY <3>1, LeaveEffects
  <2>2. CASE deque # <<>>
    <3>1. EventsOf(Tail(deque)) \subseteq EventsOf(deque)
      BY <1>0, <2>2, TailFacts
    <3>2. EventsOf(deque)' = EventsOf(Tail(deque)) /\ alerts' = alerts
      BY <1>5, <2>2 DEF Pop, EventsOf
    <3>3. thread'[t].counted = thread[t].counted
          /\ \A x \in Thread \ {t} : /\ thread'[x].counted = thread[x].counted
                                     /\ thread'[x].pc = thread[x].pc
                                     /\ thread'[x].event = thread[x].event
                                     /\ thread'[x].now = thread[x].now
      BY <1>0, <1>5, <2>2 DEF Pop, Change, Typed, TypeOK
    <3> QED BY <3>1, <3>2, <3>3
  <2> QED BY <2>1, <2>2
<1>10. CASE CountBegins(t)
  <2>1. EventsOf(deque)' = EventsOf(deque) /\ alerts' = alerts
    BY <1>10 DEF CountBegins, EventsOf
  <2> QED BY <1>10, <2>1, LookEffects DEF Looks
<1>11. CASE TextBegins(t)
  <2>1. EventsOf(deque)' = EventsOf(deque) /\ alerts' = alerts
    BY <1>11 DEF TextBegins, EventsOf
  <2> QED BY <1>11, <2>1, LookEffects DEF Looks
<1>6. CASE Count(t)
  <2>1. EventsOf(deque)' = EventsOf(deque) /\ alerts' = alerts
    BY <1>6 DEF Count, EventsOf
  <2> QED BY <1>6, <2>1, LookEffects DEF Looks
<1>7. CASE Describe(t)
  <2>1. EventsOf(deque)' = EventsOf(deque) /\ alerts' = alerts
    BY <1>7 DEF Describe, EventsOf
  <2> QED BY <1>7, <2>1, LookEffects DEF Looks
<1>8. CASE Raise(t)
  <2>1. EventsOf(deque)' = EventsOf(deque) /\ At(t, "raise")
    BY <1>8 DEF Raise, EventsOf
  <2>2. ASSUME NEW a \in alerts', a \notin alerts
        PROVE  At(t, "clear")' /\ a.by = t /\ a.counted = thread[t].counted
    <3>1. alerts' # alerts
      BY <2>2
    <3>2. thread' = [thread EXCEPT ![t] = [thread[t] EXCEPT !.pc = "clear"]]
      BY <1>8, <3>1 DEF Raise, Go
    <3>3. thread'[t].pc = "clear"
      BY <1>0, <3>2 DEF ThreadState
    <3>4. a = [by |-> t, event |-> thread[t].event, counted |-> thread[t].counted]
      BY <1>8, <2>2 DEF Raise
    <3> QED BY <3>3, <3>4 DEF At
  <2> QED BY <1>8, <2>1, <2>2, LookEffects DEF Looks
<1>9. CASE Clear(t)
  <2>1. EventsOf(deque)' = {}
    BY <1>9, EmptyFacts DEF Clear, EventsOf
  <2>2. thread'[t].counted = {}
    BY <1>0, <1>9 DEF Clear, Idle
  <2>3. \A x \in Thread \ {t} : /\ thread'[x].counted = thread[x].counted
                                /\ thread'[x].pc = thread[x].pc
                                /\ thread'[x].event = thread[x].event
                                /\ thread'[x].now = thread[x].now
    BY <1>0, <1>9 DEF Clear, Typed, TypeOK
  <2> QED BY <1>9, <2>1, <2>2, <2>3 DEF Clear
<1> QED BY <1>1, <1>2, <1>3, <1>4, <1>5, <1>6, <1>7, <1>8, <1>9, <1>10, <1>11 DEF Step

LEMMA StepKeepsFresh ==
  ASSUME Typed, NEW t \in Thread, Step(t), NEW e, Fresh(e), At(t, "add") => e # thread[t].event
  PROVE  Fresh(e)'
<1>1. e \notin EventsOf(deque)'
  BY StepEffects DEF Fresh
<1>2. ASSUME NEW x \in Thread PROVE e \notin thread'[x].counted
  BY StepEffects DEF Fresh
<1>3. ASSUME NEW a \in alerts' PROVE e \notin a.counted
  BY StepEffects DEF Fresh
<1> QED BY <1>1, <1>2, <1>3 DEF Fresh

\* Who is about to add after a step: who was before, and the thread that has sniffed
LEMMA StepAdders ==
  ASSUME Typed, NEW t \in Thread, Step(t)
  PROVE  /\ sniffed' \in Int /\ sniffed \in Int /\ sniffed <= sniffed'
         /\ At(t, "add")' => /\ thread'[t].event = sniffed' /\ sniffed' > sniffed
                             /\ ~At(t, "add")
         /\ \A x \in Thread \ {t} :
              At(x, "add")' => At(x, "add") /\ thread'[x].event = thread[x].event
<1>1. sniffed \in Int /\ thread[t] \in ThreadState /\ DOMAIN thread = Thread
  BY DEF Typed, TypeOK, ThreadState
<1>2. (sniffed' = sniffed /\ thread'[t].pc # "add") \/ Sniff(t)
  BY <1>1 DEF Step, Miss, Add, Prune, Pop, CountBegins, Count, TextBegins, Describe, Raise, Clear,
              Change, Go, Walk, Leave, Idle, Typed, TypeOK
<1>3. Sniff(t) => sniffed' = sniffed + 1 /\ thread'[t].event = sniffed + 1 /\ ~At(t, "add")
  BY <1>1 DEF Sniff, At, Typed, TypeOK
<1> QED BY <1>1, <1>2, <1>3, StepEffects DEF At

LEMMA StepNumbered ==
  ASSUME Typed, Numbered, NEW t \in Thread, Step(t)
  PROVE  Numbered'
<1>0. \A x \in Thread : thread[x].event \in Int
  BY DEF Typed, TypeOK
<1>1. ASSUME NEW e \in Int, e > sniffed' PROVE Fresh(e)'
  BY <1>0, <1>1, StepAdders, StepKeepsFresh DEF Numbered
<1>2. ASSUME NEW x \in Thread, At(x, "add")'
      PROVE  thread'[x].event <= sniffed' /\ Fresh(thread[x].event)'
  <2>1. CASE x = t
    <3>1. thread'[t].event = sniffed' /\ sniffed' > sniffed /\ ~At(t, "add") /\ sniffed' \in Int
      BY <1>2, <2>1, StepAdders
    <3>2. Fresh(sniffed')
      BY <3>1 DEF Numbered
    <3>3. \A e : Fresh(e) => Fresh(e)'
      BY <3>1, StepKeepsFresh
    <3>4. \A e : e = sniffed' => (e \notin EventsOf(deque) /\ (\A y \in Thread : e \notin thread[y].counted)
                                  /\ \A a \in alerts : e \notin a.counted)
      BY <3>2 DEF Fresh
    <3> QED BY <2>1, <3>1, <3>2, <3>3 DEF Fresh
  <2>2. CASE x # t
    <3>1. At(x, "add") /\ thread'[x].event = thread[x].event
      BY <1>2, <2>2, StepAdders
    <3>2. thread[x].event <= sniffed /\ Fresh(thread[x].event)
          /\ (At(t, "add") => thread[x].event # thread[t].event)
      BY <2>2, <3>1 DEF Numbered
    <3>3. \A e : e = thread[x].event => Fresh(e)'
      BY <3>2, StepKeepsFresh
    <3>4. thread'[x].event <= sniffed'
      BY <1>0, <3>1, <3>2, StepAdders
    <3> QED BY <3>1, <3>3, <3>4 DEF Fresh
  <2> QED BY <2>1, <2>2
<1>3. ASSUME NEW x \in Thread, NEW y \in Thread, At(x, "add")', At(y, "add")', x # y
      PROVE  thread'[x].event # thread'[y].event
  BY <1>0, <1>3, StepAdders DEF Numbered
<1> QED BY <1>1, <1>2, <1>3 DEF Numbered

LEMMA StepAlerted ==
  ASSUME Typed, Numbered, Alerted, OneAlertPerThread, NEW t \in Thread, Step(t)
  PROVE  Alerted' /\ OneAlertPerThread'
<1>1. ASSUME NEW x \in Thread, ~At(x, "clear")', NEW a \in alerts', a.by = x
      PROVE  /\ \A e \in EventsOf(deque)' : e \notin a.counted
             /\ \A e \in thread'[x].counted : e \notin a.counted
  <2>1. CASE At(x, "clear")
    <3>1. x = t
      BY <1>1, <2>1, StepEffects DEF At
    <3>2. Clear(t)
      BY <2>1, <3>1 DEF At, Step, Sniff, Miss, Add, Prune, Pop, CountBegins, Count, TextBegins, Describe, Raise
    <3>3. EventsOf(deque)' = {}
      BY <3>2, EmptyFacts DEF Clear, EventsOf
    <3>4. thread'[t].counted = {}
      BY <3>2 DEF Clear, Idle
    <3> QED BY <3>1, <3>3, <3>4
  <2>2. CASE ~At(x, "clear")
    <3>1. a \in alerts
      BY <1>1, StepEffects
    <3>2. /\ \A e \in EventsOf(deque) : e \notin a.counted
          /\ \A e \in thread[x].counted : e \notin a.counted
      BY <1>1, <2>2, <3>1 DEF Alerted
    <3>3. At(t, "add") => thread[t].event \notin a.counted
      BY <3>1 DEF Numbered, Fresh
    <3> QED BY <3>2, <3>3, StepEffects
  <2> QED BY <2>1, <2>2
<1>2. ASSUME NEW a \in alerts', NEW b \in alerts', a.by = b.by, a.counted \cap b.counted # {}
      PROVE  a = b
  <2>1. CASE a \in alerts /\ b \in alerts
    BY <1>2, <2>1 DEF OneAlertPerThread
  <2>2. CASE ~(a \in alerts /\ b \in alerts)
    <3>1. Raise(t)
      BY <1>2, <2>2 DEF Step, Sniff, Miss, Add, Prune, Pop, CountBegins, Count, TextBegins, Describe, Clear
    <3> DEFINE n == [by |-> t, event |-> thread[t].event, counted |-> thread[t].counted]
    <3>2. alerts' = alerts \cup {n} /\ ~At(t, "clear")
      BY <2>2, <3>1 DEF Raise, At
    <3>3. \A c \in alerts : c.by = t => c.counted \cap n.counted = {}
      BY <3>2 DEF Alerted
    <3> QED BY <1>2, <2>2, <3>2, <3>3
  <2> QED BY <2>1, <2>2
<1>3. Alerted'
  BY <1>1 DEF Alerted
<1>4. OneAlertPerThread'
  BY <1>2 DEF OneAlertPerThread
<1> QED BY <1>3, <1>4

\* OneAlertPerThread holds for any number of threads: an event has one number, is added
\* once, and has left the deque when the thread that has alerted about it looks again.
THEOREM OneAlertPerThreadCorrect == Spec => []OneAlertPerThread
<1>1. Init => Numbered /\ Alerted /\ OneAlertPerThread
  BY EmptyFacts DEF Init, Numbered, Fresh, Alerted, OneAlertPerThread, At, Idle
<1>2. Typed /\ Numbered /\ Alerted /\ OneAlertPerThread /\ [Next]_vars
      => (Numbered /\ Alerted /\ OneAlertPerThread)'
  <2> SUFFICES ASSUME Typed, Numbered, Alerted, OneAlertPerThread, [Next]_vars
               PROVE  (Numbered /\ Alerted /\ OneAlertPerThread)'
    OBVIOUS
  <2>1. CASE Tick
    BY <2>1 DEF Tick, Numbered, Fresh, Alerted, OneAlertPerThread, At, EventsOf
  <2>2. CASE UNCHANGED vars
    BY <2>2 DEF vars, Numbered, Fresh, Alerted, OneAlertPerThread, At, EventsOf
  <2> QED BY <2>1, <2>2, StepNumbered, StepAlerted DEF Next
<1> QED BY <1>1, <1>2, InitTyped, NextTyped, PTL DEF Spec

-----------------------------------------------------------------------------
(* What is counted is almost recent                                         *)

Past ==
  /\ \A i \in DOMAIN deque : deque[i].time <= clock
  /\ \A x \in Thread : thread[x].now <= clock
  /\ \A i, j \in DOMAIN deque : i < j => deque[i].time - deque[j].time <= slowest

\* What TypeOK says of the numbers
LEMMA Numbers ==
  ASSUME Typed
  PROVE  /\ clock \in Int /\ slowest \in Nat /\ Window \in Int
         /\ \A x \in Thread : thread[x].now \in Nat /\ thread[x].changed \in BOOLEAN
         /\ DOMAIN deque \subseteq Int
         /\ \A i \in DOMAIN deque : deque[i].time \in Nat /\ deque[i] \in Entry
<1>1. \A i \in DOMAIN deque : deque[i] \in Entry /\ i \in Int
  BY ElementOfSeq, LenProperties DEF Typed, TypeOK
<1> QED BY <1>1, WindowAssumption DEF Typed, TypeOK, Entry, WindowAssumption

LEMMA StepPast ==
  ASSUME Typed, Past, CountsAlmostRecent, NEW t \in Thread, Step(t)
  PROVE  Past' /\ CountsAlmostRecent'
<1>0. deque \in Seq(Entry) /\ DOMAIN thread = Thread /\ thread[t] \in ThreadState
      /\ thread = [x \in Thread |-> thread[x]]
  BY DEF Typed, TypeOK, ThreadState
<1>1. CASE Sniff(t)
  <2>1. \A x \in Thread : thread'[x].now <= clock
    BY <1>0, <1>1, Numbers DEF Sniff, Past
  <2> QED BY <1>0, <1>1, <2>1 DEF Sniff, Past, CountsAlmostRecent, At
<1>2. CASE Miss(t)
  BY <1>0, <1>2, Numbers DEF Miss, Leave, Idle, Past, CountsAlmostRecent, At
<1>3. CASE Add(t)
  <2> DEFINE n == [time |-> thread[t].now, event |-> thread[t].event]
  <2> DEFINE k == Len(deque) + 1
  <2>1. n \in Entry /\ Len(deque) \in Nat /\ DOMAIN deque = 1 .. Len(deque)
    BY <1>0, <1>3, LenProperties DEF Add, At, Entry, Typed, TypeOK
  <2>2. /\ DOMAIN deque' = 1 .. k /\ deque'[k] = n
        /\ \A i \in 1 .. Len(deque) : deque'[i] = deque[i]
    BY <1>0, <1>3, <2>1, AppendFacts DEF Add
  <2>3. clock' = clock /\ slowest' = Later(slowest, clock - thread[t].now)
    BY <1>3 DEF Add
  <2>4. slowest' \in Int /\ slowest' >= slowest /\ slowest' >= clock - thread[t].now
    BY <2>3, Numbers DEF Later
  <2>5. \A i \in DOMAIN deque' : deque'[i].time <= clock'
    BY <2>1, <2>2, <2>3, Numbers DEF Past
  <2>6. ASSUME NEW i \in DOMAIN deque', NEW j \in DOMAIN deque', i < j
        PROVE  deque'[i].time - deque'[j].time <= slowest'
    <3>1. i \in DOMAIN deque
      BY <2>1, <2>2, <2>6
    <3>2. CASE j = k
      BY <2>1, <2>2, <2>4, <3>1, <3>2, Numbers DEF Past
    <3>3. CASE j \in DOMAIN deque
      BY <2>1, <2>2, <2>4, <2>6, <3>1, <3>3, Numbers DEF Past
    <3> QED BY <2>1, <2>2, <3>2, <3>3
  <2>7. \A x \in Thread : /\ thread'[x].now = thread[x].now
                          /\ thread'[x].pc \in Counting => thread[x].pc \in Counting
    BY <1>0, <1>3 DEF Add, Change, Typed, TypeOK, Counting
  <2>8. ASSUME NEW x \in Thread, thread'[x].pc \in Counting, NEW i \in DOMAIN deque'
        PROVE  thread'[x].now - deque'[i].time <= Window + slowest'
    <3>1. CASE i = k
      BY <2>2, <2>4, <2>7, <3>1, Numbers, WindowAssumption DEF Past, WindowAssumption
    <3>2. CASE i \in DOMAIN deque
      <4>1. thread[x].now - deque[i].time <= Window + slowest
        BY <2>7, <2>8, <3>2 DEF CountsAlmostRecent, Counting
      <4> QED BY <2>1, <2>2, <2>4, <2>7, <3>2, <4>1, Numbers
    <3> QED BY <2>1, <2>2, <2>8, <3>1, <3>2
  <2> QED BY <2>3, <2>5, <2>6, <2>7, <2>8 DEF Past, CountsAlmostRecent, Counting
<1>4. CASE Looks(t)
  <2>1. ASSUME NEW i \in DOMAIN deque, thread'[t].pc \in Counting
        PROVE  thread[t].now - deque[i].time <= Window + slowest
    <3>1. CASE thread[t].pc \in Counting
      BY <2>1, <3>1 DEF CountsAlmostRecent, Counting
    <3>2. CASE Prune(t) /\ ~Stale(t)
      <4>1. deque # <<>> /\ Head(deque) = deque[1] /\ 1 \in DOMAIN deque /\ i >= 1
        BY <1>0, <2>1, HeadTailProperties, LenProperties, EmptySeq
      <4>2. thread[t].now - deque[1].time <= Window
        BY <3>2, <4>1, Numbers DEF Stale
      <4>3. deque[1].time - deque[i].time <= slowest
        BY <2>1, <4>1, Numbers DEF Past
      <4> QED BY <2>1, <4>1, <4>2, <4>3, Numbers
    <3> QED BY <1>4, <2>1, <3>1, <3>2, LookEffects
  <2>2. \A x \in Thread : thread'[x].now <= clock
    BY <1>4, LookEffects, Numbers DEF Past
  <2>3. \A x \in Thread : thread'[x].pc \in Counting =>
          \A i \in DOMAIN deque : thread'[x].now - deque[i].time <= Window + slowest
    BY <1>4, <2>1, LookEffects DEF CountsAlmostRecent, Counting
  <2> QED BY <1>4, <2>2, <2>3, LookEffects DEF Past, CountsAlmostRecent, Counting
<1>5. CASE Pop(t)
  <2>1. CASE deque = <<>>
    <3>1. Leave(t) /\ deque' = deque /\ clock' = clock /\ slowest' = slowest
      BY <1>5, <2>1 DEF Pop
    <3> QED BY <3>1, LeaveEffects, Numbers DEF Past, CountsAlmostRecent
  <2>2. CASE deque # <<>>
    <3>1. \A i \in DOMAIN Tail(deque) : i + 1 \in DOMAIN deque /\ Tail(deque)[i] = deque[i + 1]
      BY <1>0, <2>2, TailFacts
    <3>2. deque' = Tail(deque) /\ DOMAIN Tail(deque) \subseteq Int /\ clock' = clock
          /\ slowest' = slowest
      BY <1>0, <1>5, <2>2, TailFacts DEF Pop
    <3>3. \A i \in DOMAIN deque' : deque'[i].time <= clock'
      BY <3>1, <3>2 DEF Past
    <3>4. \A i, j \in DOMAIN deque' : i < j => deque'[i].time - deque'[j].time <= slowest'
      BY <3>1, <3>2 DEF Past
    <3>5. \A x \in Thread : /\ thread'[x].now = thread[x].now
                            /\ thread'[x].pc \in Counting => thread[x].pc \in Counting
      BY <1>0, <1>5, <2>2 DEF Pop, Change, Typed, TypeOK, Counting
    <3>6. \A x \in Thread : thread'[x].pc \in Counting =>
            \A i \in DOMAIN deque' : thread'[x].now - deque'[i].time <= Window + slowest'
      BY <3>1, <3>2, <3>5 DEF CountsAlmostRecent, Counting
    <3> QED BY <3>2, <3>3, <3>4, <3>5, <3>6 DEF Past, CountsAlmostRecent, Counting
  <2> QED BY <2>1, <2>2
<1>9. CASE Clear(t)
  <2>1. DOMAIN deque' = {} /\ clock' = clock
    BY <1>9 DEF Clear
  <2>2. \A x \in Thread : thread'[x].now <= clock'
    BY <1>0, <1>9, Numbers DEF Clear, Idle, Past, Typed, TypeOK
  <2> QED BY <2>1, <2>2 DEF Past, CountsAlmostRecent
<1> QED BY <1>1, <1>2, <1>3, <1>4, <1>5, <1>9 DEF Step, Looks

\* CountsAlmostRecent holds for any number of threads, however long an event waits.
THEOREM CountsAlmostRecentCorrect == Spec => []CountsAlmostRecent
<1>1. Init => Past /\ CountsAlmostRecent
  BY DEF Init, Past, CountsAlmostRecent, Idle, At
<1>2. Typed /\ Past /\ CountsAlmostRecent /\ [Next]_vars => (Past /\ CountsAlmostRecent)'
  <2> SUFFICES ASSUME Typed, Past, CountsAlmostRecent, [Next]_vars
               PROVE  (Past /\ CountsAlmostRecent)'
    OBVIOUS
  <2>1. CASE Tick
    BY <2>1, Numbers DEF Tick, Past, CountsAlmostRecent, At
  <2>2. CASE UNCHANGED vars
    BY <2>2 DEF vars, Past, CountsAlmostRecent, At
  <2> QED BY <2>1, <2>2, StepPast DEF Next
<1> QED BY <1>1, <1>2, InitTyped, NextTyped, PTL DEF Spec
=============================================================================
