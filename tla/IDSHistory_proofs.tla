------------------------- MODULE IDSHistory_proofs -------------------------
(***************************************************************************)
(* Windows are queues in the order of age, so that pruning them by the head *)
(* removes whatever is stale; each entry stands for an event of the log.    *)
(***************************************************************************)
EXTENDS IDSHistory, TLAPS, SequenceTheorems, FiniteSetTheorems, WellFoundedInduction

Sorted(q) == \A i, j \in DOMAIN q : i <= j => q[i].age >= q[j].age

LEMMA Least ==
  ASSUME NEW T, T \subseteq Nat, T # {} PROVE \E x \in T : \A y \in T : x <= y
<1> DEFINE R == OpToRel(<, Nat)
<1>1. \A x, y \in Nat : x < y => <<x, y>> \in R
  BY DEF OpToRel
<1>2. IsWellFoundedOn(R, Nat)
  BY NatLessThanWellFounded
<1> HIDE DEF R
<1>3. \E x \in T : \A y \in T : <<y, x>> \notin R
  BY <1>2, WFMin
<1>4. \A x, y \in T : <<y, x>> \notin R => x <= y
  <2>1. \A x, y \in Nat : ~(x < y) => y <= x
    OBVIOUS
  <2> QED BY <1>1, <2>1
<1> QED BY <1>3, <1>4

LEMMA QueueAges ==
  ASSUME NEW V, NEW q \in Seq([age : 0 .. AgeCap, value : V])
  PROVE  /\ Len(q) \in Nat /\ DOMAIN q = 1 .. Len(q)
         /\ \A i \in 1 .. Len(q) : q[i] \in [age : 0 .. AgeCap, value : V] /\ q[i].age \in Nat
<1> DEFINE E == [age : 0 .. AgeCap, value : V]
<1>1. \A x \in E : x.age \in Nat
  BY WindowAssumption
<1> HIDE DEF E
<1>2. Len(q) \in Nat /\ q \in [1 .. Len(q) -> E] /\ DOMAIN q = 1 .. Len(q)
  BY LenProperties DEF E
<1>3. \A i \in 1 .. Len(q) : q[i] \in E
  BY <1>2
<1> QED BY <1>1, <1>2, <1>3 DEF E

\* What pruning by the head leaves: the suffix that starts at the first young entry.
LEMMA PruneShape ==
  ASSUME NEW V, NEW w \in Nat, NEW q \in Seq([age : 0 .. AgeCap, value : V])
  PROVE  /\ Prune(q, w) \in Seq([age : 0 .. AgeCap, value : V])
         /\ \E c \in 1 .. Len(q) + 1 :
              /\ Len(Prune(q, w)) = Len(q) - c + 1
              /\ \A i \in 1 .. Len(q) - c + 1 : /\ c + i - 1 \in c .. Len(q)
                                                /\ Prune(q, w)[i] = q[c + i - 1]
              /\ \A i \in 1 .. c - 1 : q[i].age > w
              /\ c <= Len(q) => q[c].age <= w
<1> DEFINE young == {i \in DOMAIN q : q[i].age <= w}
           E == [age : 0 .. AgeCap, value : V]
<1>q. /\ Len(q) \in Nat /\ DOMAIN q = 1 .. Len(q)
      /\ \A i \in 1 .. Len(q) : q[i] \in E /\ q[i].age \in Nat
  BY QueueAges
<1>1. CASE young = {}
  <2>1. Prune(q, w) = <<>>
    BY <1>1 DEF Prune
  <2>2. ASSUME NEW i \in 1 .. Len(q) PROVE q[i].age > w
    <3>1. q[i].age \in Nat /\ ~(q[i].age <= w)
      BY <1>q, <1>1
    <3> QED BY <3>1
  <2>3. Len(q) + 1 \in 1 .. Len(q) + 1
    BY <1>q
  <2> HIDE DEF E
  <2>4. <<>> \in Seq(E) /\ Len(<<>>) = 0
    BY EmptySeq
  <2> QED BY <1>q, <2>1, <2>2, <2>3, <2>4 DEF E
<1>2. CASE young # {}
  <2> DEFINE first == CHOOSE i \in young : \A j \in young : i <= j
  <2>1. first \in young /\ \A j \in young : first <= j
    <3>1. young \subseteq Nat
      BY <1>q
    <3>2. \E i \in young : \A j \in young : i <= j
      <4> HIDE DEF young
      <4> QED BY <1>2, <3>1, Least
    <3> HIDE DEF young
    <3> QED BY <3>2
  <2>2. first \in 1 .. Len(q) /\ q[first].age <= w
    BY <1>q, <2>1
  <2>3. Prune(q, w) = SubSeq(q, first, Len(q))
    BY <1>2 DEF Prune
  <2> HIDE DEF first, E
  <2>4. \A i \in 1 .. first - 1 : q[i].age > w
    <3> SUFFICES ASSUME NEW i \in 1 .. first - 1 PROVE q[i].age > w
      OBVIOUS
    <3>1. first \in Nat /\ i \in 1 .. Len(q) /\ ~(first <= i)
      BY <1>q, <2>2
    <3>2. i \notin young
      BY <2>1, <3>1
    <3> QED BY <1>q, <3>1, <3>2
  <2> HIDE DEF young
  <2>5. /\ SubSeq(q, first, Len(q)) \in Seq(E)
        /\ Len(SubSeq(q, first, Len(q))) = Len(q) - first + 1
        /\ \A i \in 1 .. Len(q) - first + 1 : SubSeq(q, first, Len(q))[i] = q[first + i - 1]
    <3>1. first \in Int /\ Len(q) \in Int /\ first <= Len(q)
      BY <1>q, <2>2
    <3>2. \A i \in first .. Len(q) : q[i] \in E
      BY <1>q, <2>2
    <3> QED BY <3>1, <3>2, SubSeqProperties
  <2>6. /\ first \in 1 .. Len(q) + 1
        /\ \A i \in 1 .. Len(q) - first + 1 : first + i - 1 \in first .. Len(q)
    <3>1. first \in Nat /\ Len(q) \in Nat /\ 1 <= first /\ first <= Len(q)
      BY <1>q, <2>2
    <3> QED BY <3>1
  <2> QED BY <2>2, <2>3, <2>4, <2>5, <2>6 DEF E
<1> QED BY <1>1, <1>2

\* None of what pruning leaves of a sorted queue is stale.
LEMMA PruneQueue ==
  ASSUME NEW V, NEW w \in Nat, NEW q \in Seq([age : 0 .. AgeCap, value : V]), Sorted(q)
  PROVE  /\ Prune(q, w) \in Seq([age : 0 .. AgeCap, value : V])
         /\ Sorted(Prune(q, w))
         /\ \A i \in DOMAIN Prune(q, w) : Prune(q, w)[i].age <= w
<1> DEFINE p == Prune(q, w)
<1>q. /\ Len(q) \in Nat /\ DOMAIN q = 1 .. Len(q)
      /\ \A i \in 1 .. Len(q) : q[i].age \in Nat
  BY QueueAges
<1>1. p \in Seq([age : 0 .. AgeCap, value : V])
  BY PruneShape
<1>2. PICK c \in 1 .. Len(q) + 1 :
        /\ Len(p) = Len(q) - c + 1
        /\ \A i \in 1 .. Len(q) - c + 1 : c + i - 1 \in c .. Len(q) /\ p[i] = q[c + i - 1]
        /\ c <= Len(q) => q[c].age <= w
  BY PruneShape
<1>3. DOMAIN p = 1 .. Len(q) - c + 1
  BY <1>1, <1>2, LenProperties
<1> HIDE DEF p
<1>4. ASSUME NEW i \in 1 .. Len(q), NEW j \in 1 .. Len(q), i <= j
      PROVE  q[i].age >= q[j].age
  BY <1>q, <1>4 DEF Sorted
<1>5. ASSUME NEW i \in DOMAIN p
      PROVE  /\ c + i - 1 \in 1 .. Len(q) /\ c \in 1 .. Len(q) /\ c <= c + i - 1
             /\ p[i] = q[c + i - 1]
  <2>1. c + i - 1 \in c .. Len(q) /\ p[i] = q[c + i - 1]
    BY <1>2, <1>3
  <2> QED BY <1>q, <2>1
<1>6. \A i \in DOMAIN p : p[i].age <= w
  <2> SUFFICES ASSUME NEW i \in DOMAIN p PROVE p[i].age <= w
    OBVIOUS
  <2>1. q[c].age <= w /\ q[c].age \in Nat /\ q[c + i - 1].age \in Nat
    BY <1>2, <1>5, <1>q
  <2>2. q[c].age >= q[c + i - 1].age
    BY <1>4, <1>5
  <2> QED BY <1>5, <2>1, <2>2
<1>7. Sorted(p)
  <2> SUFFICES ASSUME NEW i \in DOMAIN p, NEW j \in DOMAIN p, i <= j
               PROVE  p[i].age >= p[j].age
    BY DEF Sorted
  <2>1. c + i - 1 <= c + j - 1
    BY <1>3, <1>q
  <2> QED BY <1>4, <1>5, <2>1
<1> QED BY <1>1, <1>6, <1>7 DEF p

LEMMA AppendQueue ==
  ASSUME NEW V, NEW v \in V, NEW q \in Seq([age : 0 .. AgeCap, value : V]), Sorted(q)
  PROVE  /\ Append(q, [age |-> 0, value |-> v]) \in Seq([age : 0 .. AgeCap, value : V])
         /\ Sorted(Append(q, [age |-> 0, value |-> v]))
<1> DEFINE x == [age |-> 0, value |-> v]
           E == [age : 0 .. AgeCap, value : V]
           p == Append(q, x)
<1>1. x \in E /\ x.age = 0
  BY WindowAssumption
<1>q. /\ Len(q) \in Nat /\ DOMAIN q = 1 .. Len(q)
      /\ \A i \in 1 .. Len(q) : q[i].age \in Nat
  BY QueueAges
<1>2. /\ p \in Seq(E) /\ Len(p) = Len(q) + 1
      /\ \A i \in 1 .. Len(q) : p[i] = q[i]
      /\ p[Len(q) + 1] = x
  <2>1. q \in Seq(E)
    OBVIOUS
  <2> HIDE DEF x, E
  <2> QED BY <1>1, <2>1, AppendProperties
<1> HIDE DEF x, E, p
<1>3. DOMAIN p = 1 .. Len(q) + 1
  BY <1>2, LenProperties
<1>4. Sorted(p)
  <2> SUFFICES ASSUME NEW i \in DOMAIN p, NEW j \in DOMAIN p, i <= j
               PROVE  p[i].age >= p[j].age
    BY DEF Sorted
  <2>1. CASE j = Len(q) + 1
    <3>1. p[j].age = 0
      BY <1>1, <1>2, <2>1
    <3>2. p[i].age \in Nat
      BY <1>1, <1>2, <1>3, <1>q
    <3> QED BY <3>1, <3>2
  <2>2. CASE j \in 1 .. Len(q)
    <3>1. i \in 1 .. Len(q)
      BY <1>q, <1>3, <2>2
    <3> QED BY <1>2, <1>q, <2>2, <3>1 DEF Sorted
  <2> QED BY <1>q, <1>3, <2>1, <2>2
<1> QED BY <1>2, <1>4 DEF p, x, E

-----------------------------------------------------------------------------
(* The invariant                                                             *)

WindowsOrdered == TypeOK /\ \A s \in Slot : Sorted(windows[s])

LEMMA EntryAssumption == \A d \in Windowed : Window[d] \in Nat /\ Window[d] < AgeCap
  BY WindowAssumption

LEMMA SlotIsWindowed ==
  /\ \A s \in Slot : s[1] \in Windowed
  /\ \A d \in Windowed, e \in Event : Applies(d, e) => SlotOf(d, e) \in Slot /\ SlotOf(d, e)[1] = d
<1>1. \A s \in Slot : s[1] \in Windowed
  BY DEF Slot, SlotOf
<1>2. ASSUME NEW d \in Windowed, NEW e \in Event, Applies(d, e)
      PROVE  SlotOf(d, e) \in Slot /\ SlotOf(d, e)[1] = d
  <2>1. <<d, e>> \in {q \in Windowed \X Event : Applies(q[1], q[2])}
    BY <1>2
  <2>2. SlotOf(<<d, e>>[1], <<d, e>>[2]) \in Slot
    BY <2>1 DEF Slot
  <2> QED BY <2>2 DEF SlotOf
<1> QED BY <1>1, <1>2

LEMMA FedQueue ==
  ASSUME WindowsOrdered, NEW e \in Event, NEW d \in Windowed, Applies(d, e)
  PROVE  /\ Fed(d, e) \in Seq(Entry(d)) /\ Sorted(Fed(d, e))
         /\ \A i \in DOMAIN Fed(d, e) : Fed(d, e)[i].age <= Window[d]
<1> DEFINE V == {ValueOf(d, f) : f \in Event}
           q == windows[SlotOf(d, e)]
           v == ValueOf(d, e)
<1>1. q \in Seq([age : 0 .. AgeCap, value : V]) /\ Sorted(q)
  BY SlotIsWindowed DEF WindowsOrdered, TypeOK, Entry, ValuesOf
<1>2. v \in V
  OBVIOUS
<1> HIDE DEF V, q, v
<1> DEFINE p == Append(q, [age |-> 0, value |-> v])
<1>3. p \in Seq([age : 0 .. AgeCap, value : V]) /\ Sorted(p)
  BY <1>1, <1>2, AppendQueue
<1> HIDE DEF p
<1>4. /\ Prune(p, Window[d]) \in Seq([age : 0 .. AgeCap, value : V])
      /\ Sorted(Prune(p, Window[d]))
      /\ \A i \in DOMAIN Prune(p, Window[d]) : Prune(p, Window[d])[i].age <= Window[d]
  BY <1>3, EntryAssumption, PruneQueue
<1>5. Fed(d, e) = Prune(p, Window[d])
  BY DEF Fed, p, q, v
<1> QED BY <1>4, <1>5 DEF Entry, ValuesOf, V

LEMMA OlderQueue ==
  ASSUME NEW V, NEW q \in Seq([age : 0 .. AgeCap, value : V]), Sorted(q)
  PROVE  Older(q) \in Seq([age : 0 .. AgeCap, value : V]) /\ Sorted(Older(q))
<1> DEFINE E == [age : 0 .. AgeCap, value : V]
           aged(x) == [x EXCEPT !.age = IF @ < AgeCap THEN @ + 1 ELSE AgeCap]
<1>1. \A x \in E : /\ aged(x) \in E
                   /\ aged(x).age = IF x.age < AgeCap THEN x.age + 1 ELSE AgeCap
  BY WindowAssumption
<1>2. /\ Len(q) \in Nat /\ DOMAIN q = 1 .. Len(q)
      /\ \A i \in 1 .. Len(q) : q[i] \in E /\ q[i].age \in Nat
  BY QueueAges
<1>3. Older(q) = [i \in 1 .. Len(q) |-> aged(q[i])]
  BY <1>2 DEF Older
<1> HIDE DEF E, aged
<1>4. Older(q) \in Seq(E)
  BY <1>1, <1>2, <1>3
<1>5. ASSUME NEW i \in 1 .. Len(q), NEW j \in 1 .. Len(q), i <= j
      PROVE  Older(q)[i].age >= Older(q)[j].age
  <2>1. q[i].age >= q[j].age /\ q[i].age \in Nat /\ q[j].age \in Nat
    BY <1>2, <1>5 DEF Sorted
  <2>2. /\ Older(q)[i].age = IF q[i].age < AgeCap THEN q[i].age + 1 ELSE AgeCap
        /\ Older(q)[j].age = IF q[j].age < AgeCap THEN q[j].age + 1 ELSE AgeCap
    BY <1>1, <1>2, <1>3
  <2>3. \A c, m, n \in Nat : m >= n =>
          (IF m < c THEN m + 1 ELSE c) >= (IF n < c THEN n + 1 ELSE c)
    OBVIOUS
  <2>4. AgeCap \in Nat
    BY WindowAssumption
  <2> QED BY <2>1, <2>2, <2>3, <2>4
<1>6. Sorted(Older(q))
  BY <1>3, <1>5 DEF Sorted
<1> QED BY <1>4, <1>6 DEF E

LEMMA StepOrdered == WindowsOrdered /\ [Next]_engine => WindowsOrdered'
<1> SUFFICES ASSUME WindowsOrdered, [Next]_engine PROVE WindowsOrdered'
  OBVIOUS
<1>1. CASE UNCHANGED engine
  BY <1>1 DEF engine, WindowsOrdered, TypeOK
<1>2. CASE Tick
  <2>1. \A s \in Slot : windows'[s] \in Seq(Entry(s[1])) /\ Sorted(windows'[s])
    <3> SUFFICES ASSUME NEW s \in Slot
                 PROVE  windows'[s] \in Seq(Entry(s[1])) /\ Sorted(windows'[s])
      OBVIOUS
    <3> DEFINE V == {ValueOf(s[1], f) : f \in Event}
    <3>1. windows[s] \in Seq([age : 0 .. AgeCap, value : V]) /\ Sorted(windows[s])
      BY SlotIsWindowed DEF WindowsOrdered, TypeOK, Entry, ValuesOf
    <3>2. windows'[s] = Older(windows[s])
      BY <1>2 DEF Tick
    <3> HIDE DEF V
    <3>3. Older(windows[s]) \in Seq([age : 0 .. AgeCap, value : V]) /\ Sorted(Older(windows[s]))
      BY <3>1, OlderQueue
    <3> QED BY <3>2, <3>3, SlotIsWindowed DEF Entry, ValuesOf, V
  <2> QED BY <1>2, <2>1 DEF Tick, WindowsOrdered, TypeOK
<1>3. ASSUME NEW e \in Event, NEW b, ProcessEvent(e, b) PROVE WindowsOrdered'
  <2>1. ASSUME NEW s \in Slot
        PROVE  windows'[s] \in Seq(Entry(s[1])) /\ Sorted(windows'[s])
    <3>1. CASE windows'[s] = windows[s]
      BY <3>1 DEF WindowsOrdered, TypeOK
    <3>2. CASE windows'[s] = <<>>
      BY <3>2 DEF Sorted
    <3>3. CASE windows'[s] = Fed(s[1], e) /\ Applies(s[1], e)
      BY <3>3, FedQueue, SlotIsWindowed
    <3> QED BY <1>3, <3>1, <3>2, <3>3 DEF ProcessEvent, Feed
  <2>2. DOMAIN windows' = Slot
    BY <1>3 DEF ProcessEvent, Feed
  <2>3. /\ macs' \subseteq {<<f.src, f.mac>> : f \in Event}
        /\ answers' \subseteq {<<f.query, f.answer>> : f \in Event}
    BY <1>3 DEF ProcessEvent, WindowsOrdered, TypeOK
  <2> QED BY <2>1, <2>2, <2>3 DEF WindowsOrdered, TypeOK
<1> QED BY <1>1, <1>2, <1>3 DEF Next

LEMMA InitOrdered == Init => WindowsOrdered
  BY DEF Init, WindowsOrdered, TypeOK, Sorted

LEMMA OrderedRecent == WindowsOrdered => CountsRecent
  BY FedQueue DEF CountsRecent

\* The windows and tables of the engine are well formed, whatever events it is given
\* and whichever alerts cannot be stored.
THEOREM TypeCorrect == Spec => []TypeOK
<1>1. WindowsOrdered => TypeOK
  BY DEF WindowsOrdered
<1> QED BY <1>1, InitOrdered, StepOrdered, PTL DEF Spec

\* No detector ever counts an event older than its window, although pruning looks at
\* the head of the deque alone.
THEOREM CountsRecentCorrect == Spec => []CountsRecent
  BY InitOrdered, StepOrdered, OrderedRecent, PTL DEF Spec

-----------------------------------------------------------------------------
(* The log                                                                   *)

LogEntry == [age : 0 .. AgeCap, event : Event, broken : {None} \cup Detector,
             alarms : SUBSET Detector]
LogTyped == log \in Seq(LogEntry)

Aged(a) == IF a < AgeCap THEN a + 1 ELSE AgeCap

LEMMA AgedFacts ==
  /\ \A a \in 0 .. AgeCap : Aged(a) \in 0 .. AgeCap
  /\ \A a \in 0 .. AgeCap : \A w \in Nat : w < AgeCap /\ Aged(a) <= w => a <= w
  BY WindowAssumption DEF Aged

LEMMA LogFacts ==
  ASSUME LogTyped
  PROVE  /\ Len(log) \in Nat /\ DOMAIN log = 1 .. Len(log)
         /\ \A i \in 1 .. Len(log) : log[i] \in LogEntry /\ log[i].age \in 0 .. AgeCap
<1>1. \A r \in LogEntry : r.age \in 0 .. AgeCap
  BY DEF LogEntry
<1> QED BY <1>1, LenProperties DEF LogTyped

\* Time passes over the log and over the windows alike.
LEMMA LogOlder ==
  ASSUME LogTyped
  PROVE  /\ Older(log) \in Seq(LogEntry) /\ Len(Older(log)) = Len(log)
         /\ DOMAIN Older(log) = 1 .. Len(log)
         /\ \A i \in 1 .. Len(log) : /\ Older(log)[i].age = Aged(log[i].age)
                                     /\ Older(log)[i].event = log[i].event
                                     /\ Older(log)[i].broken = log[i].broken
                                     /\ Older(log)[i].alarms = log[i].alarms
<1> DEFINE aged(x) == [x EXCEPT !.age = IF @ < AgeCap THEN @ + 1 ELSE AgeCap]
<1>1. \A x \in LogEntry : /\ aged(x) \in LogEntry
                          /\ aged(x).age = Aged(x.age) /\ aged(x).event = x.event
                          /\ aged(x).broken = x.broken /\ aged(x).alarms = x.alarms
  BY WindowAssumption DEF LogEntry, Aged
<1>2. /\ Len(log) \in Nat /\ DOMAIN log = 1 .. Len(log)
      /\ \A i \in 1 .. Len(log) : log[i] \in LogEntry
  BY LogFacts
<1>3. Older(log) = [i \in 1 .. Len(log) |-> aged(log[i])]
  BY <1>2 DEF Older
<1> HIDE DEF aged
<1>4. Older(log) \in Seq(LogEntry) /\ DOMAIN Older(log) = 1 .. Len(log)
  BY <1>1, <1>2, <1>3
<1>5. Len(Older(log)) = Len(log)
  BY <1>2, <1>4, LenProperties
<1> QED BY <1>1, <1>2, <1>3, <1>4, <1>5

LEMMA WindowOlder ==
  ASSUME NEW V, NEW q \in Seq([age : 0 .. AgeCap, value : V])
  PROVE  /\ Older(q) \in Seq([age : 0 .. AgeCap, value : V]) /\ Len(Older(q)) = Len(q)
         /\ DOMAIN Older(q) = 1 .. Len(q)
         /\ \A i \in 1 .. Len(q) : Older(q)[i] = [age |-> Aged(q[i].age), value |-> q[i].value]
<1> DEFINE E == [age : 0 .. AgeCap, value : V]
           aged(x) == [x EXCEPT !.age = IF @ < AgeCap THEN @ + 1 ELSE AgeCap]
<1>1. \A x \in E : aged(x) \in E /\ aged(x) = [age |-> Aged(x.age), value |-> x.value]
  BY WindowAssumption DEF Aged
<1>2. /\ Len(q) \in Nat /\ DOMAIN q = 1 .. Len(q)
      /\ \A i \in 1 .. Len(q) : q[i] \in E
  BY QueueAges
<1>3. Older(q) = [i \in 1 .. Len(q) |-> aged(q[i])]
  BY <1>2 DEF Older
<1> HIDE DEF E, aged
<1>4. Older(q) \in Seq(E) /\ DOMAIN Older(q) = 1 .. Len(q)
  BY <1>1, <1>2, <1>3
<1>5. Len(Older(q)) = Len(q)
  BY <1>2, <1>4, LenProperties
<1> QED BY <1>1, <1>2, <1>3, <1>4, <1>5 DEF E

LEMMA WindowedDetector ==
  /\ Windowed \subseteq Detector
  /\ \A d \in Detector : Rank[d] \in Int /\ Order[Rank[d]] = d
<1>1. Windowed \subseteq Detector
  <2>1. DOMAIN Order = 1 .. 16
    BY DEF Order
  <2> QED BY <2>1 DEF Windowed, Detector, Order
<1>2. ASSUME NEW d \in Detector PROVE Rank[d] \in Int /\ Order[Rank[d]] = d
  <2>1. DOMAIN Order = 1 .. 16
    BY DEF Order
  <2>2. \E i \in DOMAIN Order : Order[i] = d
    BY DEF Detector
  <2>3. Rank[d] = CHOOSE i \in DOMAIN Order : Order[i] = d
    BY DEF Rank
  <2>4. Rank[d] \in DOMAIN Order /\ Order[Rank[d]] = d
    BY <2>2, <2>3
  <2> QED BY <2>1, <2>4
<1> QED BY <1>1, <1>2

\* What an event adds to the log
LEMMA EventLogged ==
  ASSUME LogTyped, NEW e \in Event, NEW b \in Outcome(e), HEvent(e, b)
  PROVE  /\ log' \in Seq(LogEntry) /\ Len(log') = Len(log) + 1
         /\ DOMAIN log' = 1 .. Len(log) + 1
         /\ \A i \in 1 .. Len(log) : log'[i] = log[i]
         /\ log'[Len(log) + 1].age = 0
         /\ log'[Len(log) + 1].event = e
         /\ log'[Len(log) + 1].broken = b
         /\ log'[Len(log) + 1].alarms = {d \in Detected(e) : Done(d, b)}
<1> DEFINE A == {d \in Detected(e) : Done(d, b)}
           x == [age |-> 0, event |-> e, broken |-> b, alarms |-> A]
<1>1. b \in {None} \cup Detector /\ A \subseteq Detector
  BY DEF Outcome, Detected
<1>2. log' = Append(log, x)
  BY DEF HEvent
<1>3. x.age = 0 /\ x.event = e /\ x.broken = b /\ x.alarms = A
  OBVIOUS
<1> HIDE DEF A
<1>4. x \in LogEntry
  BY <1>1, WindowAssumption DEF LogEntry
<1> HIDE DEF x
<1>5. /\ log' \in Seq(LogEntry) /\ Len(log') = Len(log) + 1
      /\ \A i \in 1 .. Len(log) : log'[i] = log[i]
      /\ log'[Len(log) + 1] = x
  BY <1>2, <1>4, AppendProperties DEF LogTyped
<1>6. DOMAIN log' = 1 .. Len(log) + 1
  BY <1>5, LenProperties
<1> QED BY <1>3, <1>5, <1>6 DEF A

\* What an event does to one window, told from the record the log keeps of it
LEMMA EventFelt ==
  ASSUME NEW e \in Event, NEW b \in Outcome(e), ProcessEvent(e, b), NEW s \in Slot,
         NEW r, r.event = e, r.broken = b, r.alarms = {d \in Detected(e) : Done(d, b)}
  PROVE  /\ ~Reaches(r, s) => windows'[s] = windows[s]
         /\ Reaches(r, s) /\ s[1] \in r.alarms => windows'[s] = <<>>
         /\ Reaches(r, s) /\ s[1] \notin r.alarms =>
              /\ windows'[s] = Fed(s[1], e)
              /\ Applies(s[1], e) /\ SlotOf(s[1], e) = s /\ Reached(s[1], b)
              /\ ~(Detects(s[1], e) /\ Done(s[1], b))
<1>1. s[1] \in Detector
  BY SlotIsWindowed, WindowedDetector
<1>2. Reaches(r, s) <=> Applies(s[1], e) /\ s = SlotOf(s[1], e) /\ Reached(s[1], b)
  BY DEF Reaches
<1>3. s[1] \in r.alarms <=> Detects(s[1], e) /\ Done(s[1], b)
  BY <1>1 DEF Detected
<1>4. windows'[s] = IF ~(Applies(s[1], e) /\ s = SlotOf(s[1], e) /\ Reached(s[1], b))
                    THEN windows[s]
                    ELSE IF Detects(s[1], e) /\ Done(s[1], b) THEN <<>>
                    ELSE Fed(s[1], e)
  BY DEF ProcessEvent, Feed
<1> QED BY <1>2, <1>3, <1>4

-----------------------------------------------------------------------------
(* What a window holds                                                       *)

\* Each entry of a window stands for an event of the log, in order, and every event since
\* the last stored alert that is still young is one of them.
Matches(s, f) ==
  /\ f \in [DOMAIN windows[s] -> Since(s)]
  /\ \A k, l \in DOMAIN windows[s] : k < l => f[k] < f[l]
  /\ \A k \in DOMAIN windows[s] : windows[s][k] = EntryOf(s, log[f[k]])
  /\ \A i \in Since(s) : log[i].age <= Window[s[1]] => \E k \in DOMAIN windows[s] : f[k] = i

Matched == \A s \in Slot : \E f : Matches(s, f)

LEMMA SinceSame ==
  ASSUME NEW s, NEW n \in Nat, Len(log) = n, Len(log') = n,
         DOMAIN log = 1 .. n, DOMAIN log' = 1 .. n,
         \A i \in 1 .. n : /\ log'[i].event = log[i].event /\ log'[i].broken = log[i].broken
                           /\ log'[i].alarms = log[i].alarms
  PROVE  Since(s)' = Since(s)
<1>1. \A i \in 1 .. n : Reaches(log'[i], s) <=> Reaches(log[i], s)
  BY DEF Reaches
<1>2. \A i, j \in Nat : i >= 1 /\ j \in i .. n => j \in 1 .. n
  OBVIOUS
<1> QED BY <1>1, <1>2 DEF Since

\* Logging a record that has not reached the slot, that has reached it, and that has
\* raised its alert
LEMMA SinceLogged ==
  ASSUME NEW s, NEW n \in Nat, Len(log) = n, Len(log') = n + 1,
         DOMAIN log = 1 .. n, DOMAIN log' = 1 .. n + 1,
         \A i \in 1 .. n : log'[i] = log[i]
  PROVE  /\ ~Reaches(log'[n + 1], s) => Since(s)' = Since(s)
         /\ Reaches(log'[n + 1], s) /\ s[1] \notin log'[n + 1].alarms
              => Since(s)' = Since(s) \cup {n + 1}
         /\ Reaches(log'[n + 1], s) /\ s[1] \in log'[n + 1].alarms => Since(s)' = {}
<1> DEFINE Quiet(r) == Reaches(r, s) => s[1] \notin r.alarms
<1>1. Since(s) = {i \in 1 .. n : Reaches(log[i], s) /\ \A j \in i .. n : Quiet(log[j])}
  BY DEF Since
<1>2. Since(s)' = {i \in 1 .. n + 1 : Reaches(log'[i], s) /\ \A j \in i .. n + 1 : Quiet(log'[j])}
  BY DEF Since
<1> HIDE DEF Quiet
<1>3. \A i \in 1 .. n : (\A j \in i .. n + 1 : Quiet(log'[j]))
                          <=> (\A j \in i .. n : Quiet(log[j])) /\ Quiet(log'[n + 1])
  <2> SUFFICES ASSUME NEW i \in 1 .. n
               PROVE  (\A j \in i .. n + 1 : Quiet(log'[j]))
                        <=> (\A j \in i .. n : Quiet(log[j])) /\ Quiet(log'[n + 1])
    OBVIOUS
  <2>1. i .. n + 1 = (i .. n) \cup {n + 1} /\ i .. n \subseteq 1 .. n
    OBVIOUS
  <2> QED BY <2>1
<1>4. (\A j \in n + 1 .. n + 1 : Quiet(log'[j])) <=> Quiet(log'[n + 1])
  <2>1. n + 1 .. n + 1 = {n + 1}
    OBVIOUS
  <2> QED BY <2>1
<1>5. 1 .. n + 1 = (1 .. n) \cup {n + 1}
  OBVIOUS
<1>6. Since(s)' = {i \in (1 .. n) \cup {n + 1} : Reaches(log'[i], s)
                                                /\ \A j \in i .. n + 1 : Quiet(log'[j])}
  BY <1>2, <1>5
<1>7. CASE Quiet(log'[n + 1])
  <2>1. \A i \in 1 .. n : i \in Since(s)' <=> i \in Since(s)
    BY <1>1, <1>3, <1>6, <1>7
  <2>2. n + 1 \in Since(s)' <=> Reaches(log'[n + 1], s)
    BY <1>4, <1>6, <1>7
  <2>3. Since(s) \subseteq 1 .. n /\ Since(s)' \subseteq (1 .. n) \cup {n + 1} /\ n + 1 \notin 1 .. n
    BY <1>1, <1>6
  <2>4. ~Reaches(log'[n + 1], s) => Since(s)' = Since(s)
    BY <2>1, <2>2, <2>3
  <2>5. Reaches(log'[n + 1], s) => Since(s)' = Since(s) \cup {n + 1}
    BY <2>1, <2>2, <2>3
  <2> QED BY <1>7, <2>4, <2>5 DEF Quiet
<1>8. CASE ~Quiet(log'[n + 1])
  <2>1. Since(s)' = {}
    BY <1>3, <1>4, <1>6, <1>8
  <2> QED BY <1>8, <2>1 DEF Quiet
<1> QED BY <1>7, <1>8

LEMMA WindowFacts ==
  ASSUME WindowsOrdered, NEW s \in Slot
  PROVE  /\ windows[s] \in Seq([age : 0 .. AgeCap, value : {ValueOf(s[1], e) : e \in Event}])
         /\ Sorted(windows[s])
         /\ Len(windows[s]) \in Nat /\ DOMAIN windows[s] = 1 .. Len(windows[s])
         /\ s[1] \in Windowed /\ Window[s[1]] \in Nat /\ Window[s[1]] < AgeCap
<1>1. /\ windows[s] \in Seq([age : 0 .. AgeCap, value : {ValueOf(s[1], e) : e \in Event}])
      /\ Sorted(windows[s])
  BY SlotIsWindowed DEF WindowsOrdered, TypeOK, Entry, ValuesOf
<1> QED BY <1>1, SlotIsWindowed, EntryAssumption, LenProperties

LEMMA SinceFacts ==
  ASSUME LogTyped, NEW s
  PROVE  Since(s) \subseteq 1 .. Len(log) /\ \A i \in Since(s) : i \in Nat /\ i <= Len(log)
<1>1. Since(s) \subseteq 1 .. Len(log) /\ Len(log) \in Nat
  BY LogFacts DEF Since
<1> QED BY <1>1

LEMMA TickMatches ==
  ASSUME WindowsOrdered, LogTyped, HTick, NEW s \in Slot, NEW f, Matches(s, f)
  PROVE  Matches(s, f)'
<1> DEFINE q == windows[s]
           V == {ValueOf(s[1], e) : e \in Event}
<1>q. /\ q \in Seq([age : 0 .. AgeCap, value : V])
      /\ DOMAIN q = 1 .. Len(q)
      /\ Window[s[1]] \in Nat /\ Window[s[1]] < AgeCap
  BY WindowFacts
<1>1. windows'[s] = Older(q)
  BY DEF HTick, Tick
<1>m. /\ f \in [DOMAIN q -> Since(s)]
      /\ \A k, l \in DOMAIN q : k < l => f[k] < f[l]
      /\ \A k \in DOMAIN q : q[k] = EntryOf(s, log[f[k]])
      /\ \A i \in Since(s) : log[i].age <= Window[s[1]] => \E k \in DOMAIN q : f[k] = i
  BY DEF Matches
<1> HIDE DEF V, q
<1>l. /\ Len(log) \in Nat /\ DOMAIN log = 1 .. Len(log)
      /\ \A i \in 1 .. Len(log) : log[i].age \in 0 .. AgeCap
  BY LogFacts
<1>2. /\ DOMAIN windows'[s] = DOMAIN q
      /\ \A k \in DOMAIN q :
           windows'[s][k] = [age |-> Aged(q[k].age), value |-> q[k].value]
  <2>1. /\ DOMAIN Older(q) = 1 .. Len(q)
        /\ \A k \in 1 .. Len(q) :
             Older(q)[k] = [age |-> Aged(q[k].age), value |-> q[k].value]
    BY <1>q, WindowOlder
  <2> QED BY <1>q, <1>1, <2>1
<1>3. /\ Len(log') = Len(log) /\ DOMAIN log' = 1 .. Len(log)
      /\ \A i \in 1 .. Len(log) : /\ log'[i].age = Aged(log[i].age)
                                  /\ log'[i].event = log[i].event
                                  /\ log'[i].broken = log[i].broken
                                  /\ log'[i].alarms = log[i].alarms
  BY LogOlder DEF HTick
<1>4. Since(s)' = Since(s)
  BY <1>l, <1>3, SinceSame
<1>5. f \in [DOMAIN windows'[s] -> Since(s)']
  BY <1>2, <1>4, <1>m
<1>6. ASSUME NEW k, NEW l, k \in DOMAIN windows'[s], l \in DOMAIN windows'[s], k < l
      PROVE  f[k] < f[l]
  BY <1>2, <1>6, <1>m
<1>7. ASSUME NEW k, k \in DOMAIN windows'[s]
      PROVE  windows'[s][k] = EntryOf(s, log'[f[k]])
  <2>1. f[k] \in 1 .. Len(log)
    BY <1>2, <1>7, SinceFacts, <1>m
  <2>2. q[k] = [age |-> log[f[k]].age, value |-> ValueOf(s[1], log[f[k]].event)]
    BY <1>2, <1>7, <1>m DEF EntryOf
  <2>3. q[k].age = log[f[k]].age /\ q[k].value = ValueOf(s[1], log[f[k]].event)
    BY <2>2
  <2>4. windows'[s][k] = [age |-> Aged(q[k].age), value |-> q[k].value]
    BY <1>2, <1>7
  <2>5. EntryOf(s, log'[f[k]]) = [age |-> log'[f[k]].age,
                                  value |-> ValueOf(s[1], log'[f[k]].event)]
    BY DEF EntryOf
  <2>6. log'[f[k]].age = Aged(log[f[k]].age) /\ log'[f[k]].event = log[f[k]].event
    BY <1>3, <2>1
  <2> QED BY <2>3, <2>4, <2>5, <2>6
<1>8. ASSUME NEW i \in Since(s), log'[i].age <= Window[s[1]]
      PROVE  \E k \in DOMAIN windows'[s] : f[k] = i
  <2>1. i \in 1 .. Len(log)
    BY SinceFacts
  <2>2. log[i].age <= Window[s[1]]
    BY <1>l, <1>q, <1>3, <1>8, <2>1, AgedFacts
  <2> QED BY <1>2, <2>2, <1>m
<1> QED BY <1>4, <1>5, <1>6, <1>7, <1>8 DEF Matches

LEMMA MissedMatches ==
  ASSUME LogTyped, NEW e \in Event, NEW b \in Outcome(e), HEvent(e, b),
         NEW s \in Slot, NEW f, Matches(s, f), ~Reaches(log'[Len(log) + 1], s)
  PROVE  Matches(s, f)'
<1>1. /\ Len(log) \in Nat /\ DOMAIN log = 1 .. Len(log)
      /\ Len(log') = Len(log) + 1 /\ DOMAIN log' = 1 .. Len(log) + 1
      /\ \A i \in 1 .. Len(log) : log'[i] = log[i]
  BY LogFacts, EventLogged
<1>2. Since(s)' = Since(s)
  BY <1>1, SinceLogged
<1>3. windows'[s] = windows[s]
  BY EventLogged, EventFelt DEF HEvent
<1>4. ASSUME NEW k, k \in DOMAIN windows'[s]
      PROVE  windows'[s][k] = EntryOf(s, log'[f[k]])
  <2>1. f[k] \in 1 .. Len(log)
    BY <1>3, <1>4, SinceFacts DEF Matches
  <2>2. log'[f[k]] = log[f[k]]
    BY <1>1, <2>1
  <2> QED BY <1>3, <1>4, <2>2 DEF Matches
<1>5. ASSUME NEW i \in Since(s), log'[i].age <= Window[s[1]]
      PROVE  \E k \in DOMAIN windows'[s] : f[k] = i
  <2>1. log'[i] = log[i]
    BY <1>1, SinceFacts
  <2> QED BY <1>3, <1>5, <2>1 DEF Matches
<1> QED BY <1>2, <1>3, <1>4, <1>5 DEF Matches

\* Storing the alert clears the window and starts a new count.
LEMMA ClearedMatches ==
  ASSUME LogTyped, NEW e \in Event, NEW b \in Outcome(e), HEvent(e, b), NEW s \in Slot,
         Reaches(log'[Len(log) + 1], s), s[1] \in log'[Len(log) + 1].alarms
  PROVE  Matches(s, <<>>)'
<1>1. /\ Len(log) \in Nat /\ DOMAIN log = 1 .. Len(log)
      /\ Len(log') = Len(log) + 1 /\ DOMAIN log' = 1 .. Len(log) + 1
      /\ \A i \in 1 .. Len(log) : log'[i] = log[i]
  BY LogFacts, EventLogged
<1>2. Since(s)' = {}
  BY <1>1, SinceLogged
<1>3. windows'[s] = <<>>
  BY EventLogged, EventFelt DEF HEvent
<1>4. DOMAIN windows'[s] = {} /\ <<>> \in [{} -> {}]
  BY <1>3
<1> QED BY <1>2, <1>4 DEF Matches

\* Add and prune: the new entry stands for the new event, and what leaves is stale.
LEMMA FedMatches ==
  ASSUME WindowsOrdered, LogTyped, NEW e \in Event, NEW b \in Outcome(e), HEvent(e, b),
         NEW s \in Slot, NEW f, Matches(s, f),
         Reaches(log'[Len(log) + 1], s), s[1] \notin log'[Len(log) + 1].alarms
  PROVE  \E g : Matches(s, g)'
<1> DEFINE q == windows[s]
           V == {ValueOf(s[1], x) : x \in Event}
           E == [age : 0 .. AgeCap, value : V]
           new == [age |-> 0, value |-> ValueOf(s[1], e)]
           w == Window[s[1]]
           m == Len(q)
           n == Len(log)
           p == Append(q, new)
           z == Prune(p, w)
<1>q. /\ q \in Seq(E) /\ m \in Nat /\ DOMAIN q = 1 .. m /\ w \in Nat
  BY WindowFacts
<1>l. /\ n \in Nat /\ DOMAIN log = 1 .. n
      /\ Len(log') = n + 1 /\ DOMAIN log' = 1 .. n + 1
      /\ \A i \in 1 .. n : log'[i] = log[i]
      /\ log'[n + 1].age = 0 /\ log'[n + 1].event = e
  BY LogFacts, EventLogged
<1>1. Since(s)' = Since(s) \cup {n + 1}
  BY <1>l, SinceLogged
<1>2. windows'[s] = z
  <2>1. windows'[s] = Fed(s[1], e) /\ SlotOf(s[1], e) = s
    BY EventLogged, EventFelt DEF HEvent
  <2> QED BY <2>1 DEF Fed
<1>3. p \in Seq(E) /\ Len(p) = m + 1 /\ p[m + 1] = new /\ \A i \in 1 .. m : p[i] = q[i]
  <2>1. new \in E
    BY WindowAssumption
  <2> HIDE DEF new, E
  <2> QED BY <1>q, <2>1, AppendProperties
<1>4. new.age = 0 /\ new = EntryOf(s, log'[n + 1])
  BY <1>l DEF EntryOf
<1>5. \A k \in 1 .. m : f[k] \in 1 .. n
  BY <1>q, SinceFacts DEF Matches
<1>6. \A k \in 1 .. m : q[k] = EntryOf(s, log'[f[k]])
  BY <1>q, <1>l, <1>5 DEF Matches
<1> HIDE DEF new, q, m, n, w, V, z, p
<1>7. /\ z \in Seq(E)
      /\ \E c \in 1 .. m + 2 :
           /\ Len(z) = m + 2 - c
           /\ \A i \in 1 .. m + 2 - c : c + i - 1 \in c .. m + 1 /\ z[i] = p[c + i - 1]
           /\ \A i \in 1 .. c - 1 : p[i].age > w
  <2>3. Len(p) = m + 1
    BY <1>3
  <2>4. /\ z \in Seq([age : 0 .. AgeCap, value : V])
        /\ \E c \in 1 .. Len(p) + 1 :
              /\ Len(z) = Len(p) - c + 1
              /\ \A i \in 1 .. Len(p) - c + 1 : c + i - 1 \in c .. Len(p) /\ z[i] = p[c + i - 1]
              /\ \A i \in 1 .. c - 1 : p[i].age > w
    BY <1>q, <1>3, PruneShape DEF z
  <2> HIDE DEF E
  <2>5. PICK c \in 1 .. Len(p) + 1 :
          /\ Len(z) = Len(p) - c + 1
          /\ \A i \in 1 .. Len(p) - c + 1 : c + i - 1 \in c .. Len(p) /\ z[i] = p[c + i - 1]
          /\ \A i \in 1 .. c - 1 : p[i].age > w
    BY <2>4
  <2>6. c \in 1 .. m + 2 /\ Len(p) - c + 1 = m + 2 - c
    BY <1>q, <2>3
  <2> QED BY <2>3, <2>4, <2>5, <2>6 DEF E
<1> HIDE DEF E
<1>8. PICK c \in 1 .. m + 2 :
        /\ Len(z) = m + 2 - c
        /\ \A i \in 1 .. m + 2 - c : c + i - 1 \in c .. m + 1 /\ z[i] = p[c + i - 1]
        /\ \A i \in 1 .. c - 1 : p[i].age > w
  BY <1>7
<1>9. DOMAIN z = 1 .. m + 2 - c
  BY <1>7, <1>8, LenProperties
<1> DEFINE h(j) == IF j = m + 1 THEN n + 1 ELSE f[j]
<1>10. \A j \in 1 .. m + 1 : /\ h(j) \in Since(s) \cup {n + 1}
                             /\ p[j] = EntryOf(s, log'[h(j)])
  <2>1. h(m + 1) = n + 1 /\ p[m + 1] = EntryOf(s, log'[n + 1])
    BY <1>3, <1>4
  <2>2. ASSUME NEW j \in 1 .. m PROVE h(j) = f[j] /\ f[j] \in Since(s) /\ p[j] = q[j]
    <3>1. j # m + 1 /\ j \in DOMAIN windows[s]
      BY <1>q DEF q
    <3> QED BY <1>3, <3>1 DEF Matches
  <2>3. \A j \in 1 .. m + 1 : j = m + 1 \/ j \in 1 .. m
    BY <1>q
  <2> HIDE DEF h
  <2> QED BY <1>6, <2>1, <2>2, <2>3
<1>11. \A i, j \in 1 .. m + 1 : i < j => h(i) < h(j)
  <2> SUFFICES ASSUME NEW i \in 1 .. m + 1, NEW j \in 1 .. m + 1, i < j
               PROVE  h(i) < h(j)
    OBVIOUS
  <2>1. i \in 1 .. m /\ i # m + 1
    BY <1>q
  <2>2. CASE j = m + 1
    BY <1>l, <1>5, <2>1, <2>2
  <2>3. CASE j # m + 1
    <3>1. j \in 1 .. m
      BY <1>q, <2>3
    <3> QED BY <1>q, <2>1, <2>3, <3>1 DEF Matches, q
  <2> QED BY <2>2, <2>3
<1>12. \A i \in Since(s) \cup {n + 1} : log'[i].age <= w => \E j \in 1 .. m + 1 : h(j) = i
  <2>1. m + 1 \in 1 .. m + 1 /\ h(m + 1) = n + 1
    BY <1>q
  <2>2. ASSUME NEW i \in Since(s), log'[i].age <= w PROVE \E j \in 1 .. m + 1 : h(j) = i
    <3>1. log'[i] = log[i]
      BY <1>l, SinceFacts DEF n
    <3>2. PICK k \in 1 .. m : f[k] = i
      BY <1>q, <2>2, <3>1 DEF Matches, q, w
    <3>3. k \in 1 .. m + 1 /\ k # m + 1
      BY <1>q
    <3> QED BY <3>2, <3>3
  <2> QED BY <2>1, <2>2
<1>13. \A k \in DOMAIN z : c + k - 1 \in 1 .. m + 1 /\ z[k] = p[c + k - 1]
  <2> SUFFICES ASSUME NEW k \in DOMAIN z
               PROVE  c + k - 1 \in 1 .. m + 1 /\ z[k] = p[c + k - 1]
    OBVIOUS
  <2>1. c + k - 1 \in c .. m + 1 /\ z[k] = p[c + k - 1]
    BY <1>8, <1>9
  <2> QED BY <1>q, <2>1
<1>14. \A j \in 1 .. m + 1 : p[j].age = log'[h(j)].age
  <2> SUFFICES ASSUME NEW j \in 1 .. m + 1 PROVE p[j].age = log'[h(j)].age
    OBVIOUS
  <2> HIDE DEF h
  <2>1. p[j] = EntryOf(s, log'[h(j)])
    BY <1>10
  <2> QED BY <2>1 DEF EntryOf
<1>15. \A j \in c .. m + 1 : j - c + 1 \in DOMAIN z /\ c + (j - c + 1) - 1 = j
  BY <1>q, <1>9
<1> HIDE DEF h
<1>g. PICK g : g = [k \in DOMAIN z |-> h(c + k - 1)]
  OBVIOUS
<1>16. \A k \in DOMAIN z : g[k] = h(c + k - 1)
  BY <1>g
<1>17. g \in [DOMAIN z -> Since(s)']
  BY <1>1, <1>10, <1>13, <1>g
<1>18. ASSUME NEW k \in DOMAIN z, NEW l \in DOMAIN z, k < l PROVE g[k] < g[l]
  <2>1. c + k - 1 < c + l - 1
    BY <1>9, <1>q, <1>18
  <2> QED BY <1>11, <1>13, <1>16, <2>1
<1>19. ASSUME NEW k \in DOMAIN z PROVE z[k] = EntryOf(s, log'[g[k]])
  BY <1>10, <1>13, <1>16
<1>20. ASSUME NEW i \in Since(s)', log'[i].age <= w PROVE \E k \in DOMAIN z : g[k] = i
  <2>1. PICK j \in 1 .. m + 1 : h(j) = i
    BY <1>1, <1>12, <1>20
  <2>2. ~(p[j].age > w)
    <3>1. p[j].age = log'[i].age
      BY <1>14, <2>1
    <3>2. p[j].age \in Nat
      BY <1>3, QueueAges DEF E
    <3> QED BY <1>q, <1>20, <3>1, <3>2
  <2>3. j \in c .. m + 1
    BY <1>8, <1>q, <2>2
  <2>4. j - c + 1 \in DOMAIN z /\ g[j - c + 1] = h(j)
    BY <1>15, <1>16, <2>3
  <2> QED BY <2>1, <2>4
<1>21. Matches(s, g)'
  <2>1. /\ g \in [DOMAIN windows'[s] -> Since(s)']
        /\ \A k, l \in DOMAIN windows'[s] : k < l => g[k] < g[l]
        /\ \A k \in DOMAIN windows'[s] : windows'[s][k] = EntryOf(s, log'[g[k]])
        /\ \A i \in Since(s)' :
             log'[i].age <= Window[s[1]] => \E k \in DOMAIN windows'[s] : g[k] = i
    BY <1>2, <1>17, <1>18, <1>19, <1>20 DEF w
  <2> QED BY <2>1 DEF Matches
<1> QED BY <1>21

LEMMA HistoryIsEngine == (HInit => Init) /\ ([HNext]_<<engine, log>> => [Next]_engine)
<1>1. HInit => Init
  BY DEF HInit
<1>2. HTick => Next
  BY DEF HTick, Next
<1>3. ASSUME NEW e \in Event, NEW b \in Outcome(e), HEvent(e, b) PROVE Next
  BY <1>3 DEF HEvent, Next
<1> QED BY <1>1, <1>2, <1>3 DEF HNext

\* The log restrains no call: what holds of the engine holds here.
THEOREM HistoryImplementsEngine == HSpec => Spec
  BY HistoryIsEngine, PTL DEF HSpec, Spec

WindowInv == WindowsOrdered /\ LogTyped /\ Matched

LEMMA InitWindowInv == HInit => WindowInv
<1> SUFFICES ASSUME HInit PROVE WindowInv
  OBVIOUS
<1>1. WindowsOrdered
  BY InitOrdered DEF HInit
<1>2. log = <<>>
  BY DEF HInit
<1>3. LogTyped
  BY <1>2 DEF LogTyped
<1>4. ASSUME NEW s \in Slot PROVE Matches(s, <<>>)
  <2>1. DOMAIN windows[s] = {} /\ <<>> \in [{} -> {}]
    BY <1>4 DEF HInit, Init
  <2>2. Since(s) = {}
    BY <1>2 DEF Since
  <2> QED BY <2>1, <2>2 DEF Matches
<1> QED BY <1>1, <1>3, <1>4 DEF WindowInv, Matched

LEMMA StepWindowInv == WindowInv /\ [HNext]_<<engine, log>> => WindowInv'
<1> SUFFICES ASSUME WindowInv, [HNext]_<<engine, log>> PROVE WindowInv'
  OBVIOUS
<1>i. WindowsOrdered /\ LogTyped /\ Matched
  BY DEF WindowInv
<1>1. CASE UNCHANGED <<engine, log>>
  <2>1. WindowsOrdered'
    BY <1>i, <1>1, StepOrdered
  <2>2. LogTyped'
    BY <1>i, <1>1 DEF LogTyped
  <2>3. ASSUME NEW s, NEW f, Matches(s, f) PROVE Matches(s, f)'
    BY <1>1, <2>3 DEF Matches, Since, engine
  <2> QED BY <1>i, <2>1, <2>2, <2>3 DEF WindowInv, Matched
<1>2. CASE HTick
  <2>1. WindowsOrdered'
    BY <1>i, <1>2, StepOrdered DEF HTick, Next
  <2>2. LogTyped'
    BY <1>i, <1>2, LogOlder DEF LogTyped, HTick
  <2>3. \A s \in Slot : \E f : Matches(s, f)'
    BY <1>i, <1>2, TickMatches DEF Matched
  <2> QED BY <2>1, <2>2, <2>3 DEF WindowInv, Matched
<1>3. ASSUME NEW e \in Event, NEW b \in Outcome(e), HEvent(e, b) PROVE WindowInv'
  <2>1. WindowsOrdered'
    BY <1>i, StepOrdered, HistoryIsEngine
  <2>2. LogTyped'
    BY <1>i, <1>3, EventLogged DEF LogTyped
  <2>3. ASSUME NEW s \in Slot PROVE \E f : Matches(s, f)'
    <3>1. PICK f : Matches(s, f)
      BY <1>i DEF Matched
    <3>2. CASE ~Reaches(log'[Len(log) + 1], s)
      BY <1>i, <1>3, <3>1, <3>2, MissedMatches
    <3>3. CASE Reaches(log'[Len(log) + 1], s) /\ s[1] \in log'[Len(log) + 1].alarms
      BY <1>i, <1>3, <3>3, ClearedMatches
    <3>4. CASE Reaches(log'[Len(log) + 1], s) /\ s[1] \notin log'[Len(log) + 1].alarms
      BY <1>i, <1>3, <3>1, <3>4, FedMatches
    <3> QED BY <3>2, <3>3, <3>4
  <2> QED BY <2>1, <2>2, <2>3 DEF WindowInv, Matched
<1> QED BY <1>1, <1>2, <1>3 DEF HNext

LEMMA MatchedRecent == WindowInv => WindowIsRecent
<1> SUFFICES ASSUME WindowInv, NEW s \in Slot
             PROVE  \E f \in [Fresh(s) -> Recent(s)] :
                      /\ \A i \in Recent(s) : \E k \in Fresh(s) : f[k] = i
                      /\ \A k, l \in Fresh(s) : k < l => f[k] < f[l]
                      /\ \A k \in Fresh(s) : windows[s][k] = EntryOf(s, log[f[k]])
  BY DEF WindowIsRecent
<1>1. PICK f : Matches(s, f)
  BY DEF WindowInv, Matched
<1>2. \A k \in DOMAIN windows[s] : /\ f[k] \in Since(s)
                                   /\ windows[s][k].age = log[f[k]].age
                                   /\ windows[s][k] = EntryOf(s, log[f[k]])
  BY <1>1 DEF Matches, EntryOf
<1>3. PICK g : g = [k \in Fresh(s) |-> f[k]]
  OBVIOUS
<1>4. \A k \in Fresh(s) : k \in DOMAIN windows[s] /\ windows[s][k].age <= Window[s[1]] /\ g[k] = f[k]
  BY <1>3 DEF Fresh
<1>5. g \in [Fresh(s) -> Recent(s)]
  BY <1>2, <1>3, <1>4 DEF Recent
<1>6. ASSUME NEW i \in Recent(s) PROVE \E k \in Fresh(s) : g[k] = i
  <2>1. i \in Since(s) /\ log[i].age <= Window[s[1]]
    BY DEF Recent
  <2>2. PICK k \in DOMAIN windows[s] : f[k] = i
    BY <1>1, <2>1 DEF Matches
  <2>3. k \in Fresh(s)
    BY <1>2, <2>1, <2>2 DEF Fresh
  <2> QED BY <1>4, <2>2, <2>3
<1>7. \A k, l \in Fresh(s) : k < l => g[k] < g[l]
  BY <1>1, <1>4 DEF Matches
<1> QED BY <1>2, <1>4, <1>5, <1>6, <1>7

\* The young entries of a window are the events since its last stored alert that lie
\* within its seconds, in order, whichever alerts cannot be stored (ids_engine.py:74-83).
THEOREM WindowIsRecentCorrect == HSpec => []WindowIsRecent
  BY InitWindowInv, StepWindowInv, MatchedRecent, PTL DEF HSpec

-----------------------------------------------------------------------------
(* What a detector measures                                                  *)

SumsOf(u, v, n) == u = [k \in 0 .. n |-> IF k = 0 THEN 0 ELSE u[k - 1] + v[k]]

\* The sums up to each position exist, although they are defined by each other.
LEMMA SumsExist ==
  ASSUME NEW n \in Nat, NEW v PROVE \E u : SumsOf(u, v, n)
<1> DEFINE T == {m \in 0 .. n : ~ \E u : SumsOf(u, v, m)}
<1> SUFFICES ASSUME T # {} PROVE FALSE
  <2>1. n \in 0 .. n
    OBVIOUS
  <2> QED BY <2>1
<1>1. T \subseteq Nat
  OBVIOUS
<1> HIDE DEF T
<1>2. PICK m \in T : \A y \in T : m <= y
  BY <1>1, Least
<1>3. m \in 0 .. n /\ ~ \E u : SumsOf(u, v, m)
  BY DEF T
<1>4. CASE m = 0
  <2>1. PICK u : u = [k \in 0 .. 0 |-> 0]
    OBVIOUS
  <2>2. [k \in 0 .. 0 |-> IF k = 0 THEN 0 ELSE u[k - 1] + v[k]] = u
    BY <2>1
  <2> QED BY <1>3, <1>4, <2>2 DEF SumsOf
<1>5. CASE m # 0
  <2>1. m - 1 \in 0 .. n /\ ~(m <= m - 1)
    BY <1>3, <1>5
  <2>2. PICK u : SumsOf(u, v, m - 1)
    BY <1>2, <2>1 DEF T
  <2>3. PICK z : z = [k \in 0 .. m |-> IF k = m THEN u[m - 1] + v[m] ELSE u[k]]
    OBVIOUS
  <2>4. ASSUME NEW k \in 0 .. m PROVE z[k] = IF k = 0 THEN 0 ELSE z[k - 1] + v[k]
    <3>1. CASE k = 0
      <4>1. u[0] = 0
        BY <2>1, <2>2, 0 \in 0 .. m - 1 DEF SumsOf
      <4> QED BY <1>5, <2>3, <3>1, <4>1
    <3>2. CASE k # 0 /\ k # m
      <4>1. k \in 0 .. m - 1 /\ k - 1 \in 0 .. m /\ k - 1 # m
        BY <1>3, <3>2
      <4>2. u[k] = u[k - 1] + v[k]
        BY <2>2, <3>2, <4>1 DEF SumsOf
      <4> QED BY <2>3, <3>2, <4>1, <4>2
    <3>3. CASE k = m
      <4>1. k - 1 \in 0 .. m /\ k - 1 # m
        BY <1>3, <1>5, <3>3
      <4> QED BY <1>5, <2>3, <3>3, <4>1
    <3> QED BY <3>1, <3>2, <3>3
  <2>5. SumsOf(z, v, m)
    BY <2>3, <2>4 DEF SumsOf
  <2> QED BY <1>3, <2>5
<1> QED BY <1>4, <1>5

\* Total(v) is the last of the sums.
LEMMA TotalSums ==
  ASSUME NEW n \in Nat, NEW v \in [1 .. n -> Nat], Len(v) = n
  PROVE  \E u \in [0 .. n -> Nat] : /\ u[0] = 0 /\ Total(v) = u[n]
                                    /\ \A k \in 1 .. n : u[k] = u[k - 1] + v[k]
<1>1. PICK u : u = CHOOSE x : SumsOf(x, v, n)
  OBVIOUS
<1>2. SumsOf(u, v, n)
  BY <1>1, SumsExist
<1>3. Total(v) = u[n]
  BY <1>1 DEF Total, SumsOf
<1>4. u[0] = 0
  BY <1>2, 0 \in 0 .. n DEF SumsOf
<1>5. ASSUME NEW k \in 1 .. n PROVE u[k] = u[k - 1] + v[k]
  <2>1. k \in 0 .. n /\ k # 0
    OBVIOUS
  <2> QED BY <1>2, <2>1 DEF SumsOf
<1>6. \A k \in 0 .. n : u[k] \in Nat
  <2> DEFINE T == {m \in 0 .. n : u[m] \notin Nat}
  <2> SUFFICES ASSUME T # {} PROVE FALSE
    OBVIOUS
  <2>1. T \subseteq Nat
    OBVIOUS
  <2> HIDE DEF T
  <2>2. PICK m \in T : \A y \in T : m <= y
    BY <2>1, Least
  <2>3. m \in 0 .. n /\ u[m] \notin Nat
    BY DEF T
  <2>4. m # 0
    BY <1>4, <2>3
  <2>5. m \in 1 .. n /\ m - 1 \in 0 .. n /\ ~(m <= m - 1)
    BY <2>3, <2>4
  <2>6. u[m - 1] \in Nat
    BY <2>2, <2>5 DEF T
  <2>7. v[m] \in Nat
    BY <2>5
  <2> QED BY <1>5, <2>3, <2>5, <2>6, <2>7
<1>7. u \in [0 .. n -> Nat]
  BY <1>2, <1>6 DEF SumsOf
<1> QED BY <1>3, <1>4, <1>5, <1>7

\* The end of a sequence of naturals adds up to no more than the whole.
LEMMA TotalSuffix ==
  ASSUME NEW n \in Nat, NEW v \in [1 .. n -> Nat], Len(v) = n,
         NEW m \in Nat, NEW t \in [1 .. m -> Nat], Len(t) = m,
         NEW c \in Nat, m + c = n, \A k \in 1 .. m : t[k] = v[c + k]
  PROVE  Total(t) \in Nat /\ Total(t) <= Total(v)
<1>1. PICK u \in [0 .. n -> Nat] : /\ u[0] = 0 /\ Total(v) = u[n]
                                   /\ \A k \in 1 .. n : u[k] = u[k - 1] + v[k]
  BY TotalSums
<1>2. PICK y \in [0 .. m -> Nat] : /\ y[0] = 0 /\ Total(t) = y[m]
                                   /\ \A k \in 1 .. m : y[k] = y[k - 1] + t[k]
  BY TotalSums
<1>3. \A k \in 0 .. m : y[k] + u[c] = u[c + k]
  <2> DEFINE T == {k \in 0 .. m : y[k] + u[c] # u[c + k]}
  <2> SUFFICES ASSUME T # {} PROVE FALSE
    OBVIOUS
  <2>1. T \subseteq Nat
    OBVIOUS
  <2> HIDE DEF T
  <2>2. PICK k \in T : \A x \in T : k <= x
    BY <2>1, Least
  <2>3. k \in 0 .. m /\ y[k] + u[c] # u[c + k]
    BY DEF T
  <2>c. u[c] \in Nat
    <3>1. c \in 0 .. n
      OBVIOUS
    <3> QED BY <3>1
  <2>4. k # 0
    BY <1>2, <2>3, <2>c
  <2>5. /\ k \in 1 .. m /\ k - 1 \in 0 .. m /\ ~(k <= k - 1)
        /\ c + k \in 1 .. n /\ c + k - 1 \in 0 .. n /\ c + (k - 1) = c + k - 1
    BY <2>3, <2>4
  <2>6. y[k - 1] + u[c] = u[c + k - 1]
    BY <2>2, <2>5 DEF T
  <2>7. y[k] = y[k - 1] + t[k] /\ u[c + k] = u[c + k - 1] + v[c + k] /\ t[k] = v[c + k]
    BY <1>1, <1>2, <2>5
  <2>8. y[k - 1] \in Nat /\ t[k] \in Nat
    BY <2>5
  <2>9. \A a, b, d \in Nat : (a + b) + d = (a + d) + b
    OBVIOUS
  <2>10. u[c + k] = (y[k - 1] + u[c]) + t[k]
    BY <2>6, <2>7
  <2>11. u[c + k] = y[k] + u[c]
    BY <2>7, <2>8, <2>9, <2>10, <2>c
  <2> QED BY <2>3, <2>11
<1>4. y[m] \in Nat /\ u[c] \in Nat /\ y[m] + u[c] = u[n]
  <2>1. m \in 0 .. m /\ c \in 0 .. n /\ c + m = n
    OBVIOUS
  <2>2. y[m] + u[c] = u[c + m]
    BY <1>3, <2>1
  <2> QED BY <2>1, <2>2
<1> QED BY <1>1, <1>2, <1>4

LEMMA EmptyMeasure == \A d \in Windowed : ~Trips(d, <<>>)
<1> SUFFICES ASSUME NEW d \in Windowed PROVE ~Trips(d, <<>>)
  OBVIOUS
<1>1. Threshold[d] \in Nat \ {0}
  BY ThresholdAssumption
<1>2. Cardinality({<<>>[i].value : i \in DOMAIN <<>>}) = 0
  <2>1. {<<>>[i].value : i \in DOMAIN <<>>} = {}
    OBVIOUS
  <2> QED BY <2>1, FS_EmptySet
<1>3. Total(Values(<<>>)) = 0
  <2>1. PICK v : v = Values(<<>>)
    OBVIOUS
  <2>2. v \in [1 .. 0 -> Nat] /\ Len(v) = 0
    <3>1. v = <<>>
      BY <2>1 DEF Values
    <3> QED BY <3>1
  <2> QED BY <2>1, <2>2, TotalSums
<1>4. Measure(d, <<>>) = 0
  BY <1>2, <1>3 DEF Measure
<1> QED BY <1>1, <1>4 DEF Trips

LEMMA ValuesOfQueue ==
  ASSUME NEW V, NEW q \in Seq([age : 0 .. AgeCap, value : V])
  PROVE  /\ Values(q) \in [1 .. Len(q) -> V] /\ Len(Values(q)) = Len(q)
         /\ \A i \in 1 .. Len(q) : Values(q)[i] = q[i].value
<1> DEFINE E == [age : 0 .. AgeCap, value : V]
<1>1. \A x \in E : x.value \in V
  OBVIOUS
<1> HIDE DEF E
<1>2. Len(q) \in Nat /\ DOMAIN q = 1 .. Len(q) /\ \A i \in 1 .. Len(q) : q[i] \in E
  BY LenProperties DEF E
<1>3. Values(q) = [i \in 1 .. Len(q) |-> q[i].value]
  BY <1>2 DEF Values
<1>4. Values(q) \in [1 .. Len(q) -> V]
  BY <1>1, <1>2, <1>3
<1>5. Len(Values(q)) = Len(q)
  <2>1. Values(q) \in Seq(V) /\ DOMAIN Values(q) = 1 .. Len(q)
    BY <1>2, <1>4
  <2> QED BY <1>2, <2>1, LenProperties
<1> QED BY <1>3, <1>4, <1>5

LEMMA DistinctFinite ==
  ASSUME NEW n \in Nat, NEW q
  PROVE  /\ IsFiniteSet({q[i].value : i \in 1 .. n})
         /\ Cardinality({q[i].value : i \in 1 .. n}) \in Nat
<1> DEFINE S == {q[i].value : i \in 1 .. n}
<1>1. PICK h : h = [i \in 1 .. n |-> q[i].value]
  OBVIOUS
<1>2. h \in Surjection(1 .. n, S)
  BY <1>1 DEF Surjection
<1>3. IsFiniteSet(1 .. n)
  BY FS_Interval
<1> HIDE DEF S
<1>4. IsFiniteSet(S)
  BY <1>2, <1>3, FS_Surjection
<1> QED BY <1>4, FS_CardinalityType DEF S

\* A window of which only the end is left does not count for more.
LEMMA MeasureSuffix ==
  ASSUME NEW d \in Windowed, NEW q \in Seq(Entry(d)), NEW p \in Seq(Entry(d)),
         NEW c \in Nat, Len(p) + c = Len(q),
         \A i \in 1 .. Len(p) : p[i].value = q[c + i].value, Trips(d, p)
  PROVE  Trips(d, q)
<1> DEFINE V == {ValueOf(d, e) : e \in Event}
<1>e. Entry(d) = [age : 0 .. AgeCap, value : V]
  BY DEF Entry, ValuesOf
<1>q. /\ Len(q) \in Nat /\ DOMAIN q = 1 .. Len(q)
      /\ Len(p) \in Nat /\ DOMAIN p = 1 .. Len(p)
  BY LenProperties
<1>t. Threshold[d] \in Nat
  BY ThresholdAssumption
<1>1. CASE d \in {"port_scan", "network_scan"}
  <2> DEFINE S == {q[i].value : i \in 1 .. Len(q)}
             T == {p[i].value : i \in 1 .. Len(p)}
  <2>1. IsFiniteSet(S) /\ Cardinality(S) \in Nat /\ Cardinality(T) \in Nat
    BY <1>q, DistinctFinite
  <2>2. T \subseteq S
    <3>1. \A i \in 1 .. Len(p) : c + i \in 1 .. Len(q)
      BY <1>q
    <3> QED BY <3>1
  <2>3. Measure(d, q) = Cardinality(S) /\ Measure(d, p) = Cardinality(T)
    BY <1>1, <1>q DEF Measure
  <2> HIDE DEF S, T
  <2>4. Cardinality(T) <= Cardinality(S)
    BY <2>1, <2>2, FS_Subset
  <2> QED BY <1>t, <2>1, <2>3, <2>4 DEF Trips
<1>2. CASE d \in {"bandwidth_abuse", "data_exfiltration"}
  <2>1. V \subseteq Nat
    <3>1. \A e \in Event : ValueOf(d, e) = e.size
      BY <1>2 DEF ValueOf
    <3> QED BY <3>1, EventAssumption
  <2>2. Measure(d, q) = Total(Values(q)) /\ Measure(d, p) = Total(Values(p))
    BY <1>2 DEF Measure
  <2> HIDE DEF V
  <2>3. /\ Values(q) \in [1 .. Len(q) -> V] /\ Len(Values(q)) = Len(q)
        /\ \A i \in 1 .. Len(q) : Values(q)[i] = q[i].value
    BY <1>e, ValuesOfQueue
  <2>4. /\ Values(p) \in [1 .. Len(p) -> V] /\ Len(Values(p)) = Len(p)
        /\ \A i \in 1 .. Len(p) : Values(p)[i] = p[i].value
    BY <1>e, ValuesOfQueue
  <2>5. Values(q) \in [1 .. Len(q) -> Nat] /\ Values(p) \in [1 .. Len(p) -> Nat]
    BY <2>1, <2>3, <2>4
  <2>6. \A i \in 1 .. Len(p) : Values(p)[i] = Values(q)[c + i]
    <3>1. \A i \in 1 .. Len(p) : c + i \in 1 .. Len(q)
      BY <1>q
    <3> QED BY <2>3, <2>4, <3>1
  <2>7. Total(Values(p)) \in Nat /\ Total(Values(p)) <= Total(Values(q))
    BY <1>q, <2>3, <2>4, <2>5, <2>6, TotalSuffix
  <2>8. Total(Values(q)) \in Nat
    <3>1. PICK u \in [0 .. Len(q) -> Nat] : Total(Values(q)) = u[Len(q)]
      BY <1>q, <2>3, <2>5, TotalSums
    <3>2. Len(q) \in 0 .. Len(q)
      BY <1>q
    <3> QED BY <3>1, <3>2
  <2> QED BY <1>t, <2>2, <2>7, <2>8 DEF Trips
<1>3. CASE d \notin {"port_scan", "network_scan", "bandwidth_abuse", "data_exfiltration"}
  <2>1. Measure(d, q) = Len(q) /\ Measure(d, p) = Len(p)
    BY <1>3 DEF Measure
  <2> QED BY <1>q, <1>t, <2>1 DEF Trips
<1> QED BY <1>1, <1>2, <1>3

-----------------------------------------------------------------------------
(* Pruning again                                                             *)

LEMMA PruneTwice ==
  ASSUME NEW V, NEW w \in Nat, NEW q \in Seq([age : 0 .. AgeCap, value : V]),
         \A i \in DOMAIN q : q[i].age <= w
  PROVE  Prune(q, w) = q
<1> DEFINE E == [age : 0 .. AgeCap, value : V]
<1>q. /\ Len(q) \in Nat /\ DOMAIN q = 1 .. Len(q)
      /\ \A i \in 1 .. Len(q) : q[i].age \in Nat
  BY QueueAges
<1>1. Prune(q, w) \in Seq(E)
  BY PruneShape
<1>2. PICK c \in 1 .. Len(q) + 1 :
        /\ Len(Prune(q, w)) = Len(q) - c + 1
        /\ \A i \in 1 .. Len(q) - c + 1 : Prune(q, w)[i] = q[c + i - 1]
        /\ \A i \in 1 .. c - 1 : q[i].age > w
  BY PruneShape
<1>3. c = 1
  <2> SUFFICES ASSUME c # 1 PROVE FALSE
    OBVIOUS
  <2>1. 1 \in 1 .. c - 1 /\ 1 \in 1 .. Len(q)
    BY <1>q
  <2>2. q[1].age > w /\ q[1].age <= w /\ q[1].age \in Nat
    BY <1>q, <1>2, <2>1
  <2> QED BY <2>2
<1> HIDE DEF E
<1>4. Len(Prune(q, w)) = Len(q) /\ \A i \in 1 .. Len(q) : Prune(q, w)[i] = q[i]
  <2>1. Len(q) - c + 1 = Len(q) /\ \A i \in 1 .. Len(q) : c + i - 1 = i
    BY <1>q, <1>3
  <2> QED BY <1>2, <2>1
<1>5. q \in Seq(E)
  BY DEF E
<1> QED BY <1>1, <1>4, <1>5, SeqEqual

\* What is left of a window that has grown older is the end of what was left of it:
\* time alone raises no alert.
LEMMA OlderTrips ==
  ASSUME NEW d \in Windowed, NEW q \in Seq(Entry(d)), Trips(d, Prune(Older(q), Window[d]))
  PROVE  Trips(d, Prune(q, Window[d]))
<1> DEFINE V == {ValueOf(d, e) : e \in Event}
           E == [age : 0 .. AgeCap, value : V]
           w == Window[d]
           o == Older(q)
           z == Prune(q, w)
           p == Prune(o, w)
<1>e. Entry(d) = E /\ w \in Nat /\ w < AgeCap
  BY EntryAssumption DEF Entry, ValuesOf
<1>t. Trips(d, p)
  OBVIOUS
<1> HIDE DEF V, w
<1>s. q \in Seq(E)
  BY <1>e
<1>q. /\ Len(q) \in Nat /\ DOMAIN q = 1 .. Len(q)
      /\ \A i \in 1 .. Len(q) : q[i] \in E
  BY <1>s, QueueAges
<1>a. \A x \in E : x.age \in 0 .. AgeCap
  OBVIOUS
<1>o. /\ o \in Seq(E) /\ Len(o) = Len(q)
      /\ \A i \in 1 .. Len(q) : o[i] = [age |-> Aged(q[i].age), value |-> q[i].value]
  BY <1>s, WindowOlder
<1>v. ASSUME NEW i \in 1 .. Len(q) PROVE o[i].age = Aged(q[i].age) /\ o[i].value = q[i].value
  <2>1. o[i] = [age |-> Aged(q[i].age), value |-> q[i].value]
    BY <1>o
  <2> HIDE DEF o
  <2> QED BY <2>1
<1>1. PICK c1 \in 1 .. Len(q) + 1 :
        /\ Len(z) = Len(q) - c1 + 1
        /\ \A i \in 1 .. Len(q) - c1 + 1 : c1 + i - 1 \in c1 .. Len(q) /\ z[i] = q[c1 + i - 1]
        /\ \A i \in 1 .. c1 - 1 : q[i].age > w
  BY <1>s, <1>e, PruneShape
<1>z. z \in Seq(E)
  BY <1>s, <1>e, PruneShape
<1> HIDE DEF o, z
<1>2. PICK c2 \in 1 .. Len(o) + 1 :
        /\ Len(p) = Len(o) - c2 + 1
        /\ \A i \in 1 .. Len(o) - c2 + 1 : c2 + i - 1 \in c2 .. Len(o) /\ p[i] = o[c2 + i - 1]
        /\ c2 <= Len(o) => o[c2].age <= w
  BY <1>o, <1>e, PruneShape
<1>p. p \in Seq(E)
  BY <1>o, <1>e, PruneShape
<1> HIDE DEF p, E
<1>3. c1 <= c2
  <2> SUFFICES ASSUME ~(c1 <= c2) PROVE FALSE
    OBVIOUS
  <2>1. c2 \in 1 .. c1 - 1 /\ c2 \in 1 .. Len(q)
    BY <1>q, <1>o
  <2>2. q[c2].age > w /\ q[c2].age \in 0 .. AgeCap
    BY <1>a, <1>q, <1>1, <2>1
  <2>3. Aged(q[c2].age) <= w
    <3>1. o[c2].age <= w
      BY <1>o, <1>q, <1>2, <2>1
    <3>2. o[c2].age = Aged(q[c2].age)
      BY <1>v, <2>1
    <3> QED BY <3>1, <3>2
  <2>4. q[c2].age <= w
    BY <1>e, <2>2, <2>3, AgedFacts
  <2> QED BY <1>e, <2>2, <2>4, WindowAssumption
<1>4. c2 - c1 \in Nat /\ Len(p) + (c2 - c1) = Len(z) /\ Len(p) \in Nat
  BY <1>q, <1>o, <1>1, <1>2, <1>3
<1>5. ASSUME NEW i \in 1 .. Len(p) PROVE p[i].value = z[(c2 - c1) + i].value
  <2>1. i \in 1 .. Len(o) - c2 + 1
    BY <1>2
  <2>2. c2 + i - 1 \in 1 .. Len(q) /\ p[i] = o[c2 + i - 1]
    <3>1. c2 + i - 1 \in c2 .. Len(o) /\ p[i] = o[c2 + i - 1]
      BY <1>2, <2>1
    <3> QED BY <1>o, <1>q, <3>1
  <2>3. p[i].value = q[c2 + i - 1].value
    BY <1>v, <2>2
  <2>4. (c2 - c1) + i \in 1 .. Len(q) - c1 + 1 /\ c1 + ((c2 - c1) + i) - 1 = c2 + i - 1
    BY <1>4, <1>1, <1>q
  <2>5. z[(c2 - c1) + i] = q[c2 + i - 1]
    BY <1>1, <2>4
  <2> QED BY <2>3, <2>5
<1>6. Trips(d, z)
  BY <1>e, <1>t, <1>z, <1>p, <1>4, <1>5, MeasureSuffix
<1> QED BY <1>6 DEF z, w

-----------------------------------------------------------------------------
(* Windows at their thresholds                                               *)

\* Storing the alert of the slot failed at the last event that reached it.
BrokeLast(s) ==
  \E i \in DOMAIN log : /\ Reaches(log[i], s) /\ log[i].broken = s[1]
                        /\ \A j \in i + 1 .. Len(log) : ~Reaches(log[j], s)

LEMMA KeptByParts ==
  AlarmKept <=> \A s \in Slot : Trips(s[1], Prune(windows[s], Window[s[1]])) => BrokeLast(s)
  BY DEF AlarmKept, BrokeLast

LEMMA TickKept ==
  ASSUME WindowsOrdered, LogTyped, AlarmKept, HTick, NEW s \in Slot,
         Trips(s[1], Prune(windows[s], Window[s[1]]))'
  PROVE  BrokeLast(s)'
<1> DEFINE V == {ValueOf(s[1], e) : e \in Event}
           w == Window[s[1]]
           q == windows[s]
           p == Prune(Older(q), w)
           z == Prune(q, w)
<1>q. /\ q \in Seq([age : 0 .. AgeCap, value : V]) /\ s[1] \in Windowed
      /\ w \in Nat /\ w < AgeCap
  BY WindowFacts
<1>e. Entry(s[1]) = [age : 0 .. AgeCap, value : V]
  BY <1>q DEF Entry, ValuesOf
<1>l. Len(log) \in Nat /\ DOMAIN log = 1 .. Len(log)
  BY LogFacts
<1>1. Trips(s[1], p)
  BY DEF HTick, Tick
<1>2. /\ Len(log') = Len(log) /\ DOMAIN log' = 1 .. Len(log)
      /\ \A i \in 1 .. Len(log) : log'[i].event = log[i].event /\ log'[i].broken = log[i].broken
  BY LogOlder DEF HTick
<1>3. BrokeLast(s) => BrokeLast(s)'
  <2> SUFFICES ASSUME BrokeLast(s) PROVE BrokeLast(s)'
    OBVIOUS
  <2>1. \A i \in 1 .. Len(log) : Reaches(log'[i], s) <=> Reaches(log[i], s)
    BY <1>2 DEF Reaches
  <2>2. PICK i \in 1 .. Len(log) : /\ Reaches(log[i], s) /\ log[i].broken = s[1]
                                   /\ \A j \in i + 1 .. Len(log) : ~Reaches(log[j], s)
    BY <1>l DEF BrokeLast
  <2>3. \A j \in i + 1 .. Len(log) : ~Reaches(log'[j], s)
    <3>1. \A j \in i + 1 .. Len(log) : j \in 1 .. Len(log)
      BY <1>l
    <3> QED BY <2>1, <2>2, <3>1
  <2>4. Reaches(log'[i], s) /\ log'[i].broken = s[1]
    BY <1>2, <2>1, <2>2
  <2> QED BY <1>2, <2>3, <2>4 DEF BrokeLast
<1>k. Trips(s[1], z) => BrokeLast(s)
  BY KeptByParts
<1> HIDE DEF V, q, w
<1>4. Trips(s[1], z)
  BY <1>1, <1>q, <1>e, OlderTrips DEF w
<1> QED BY <1>3, <1>4, <1>k

\* A window at its threshold after its own event is one whose alert was not stored.
LEMMA FedKept ==
  ASSUME WindowsOrdered, LogTyped, NEW e \in Event, NEW b \in Outcome(e), HEvent(e, b),
         NEW s \in Slot, Reaches(log'[Len(log) + 1], s),
         s[1] \notin log'[Len(log) + 1].alarms, Trips(s[1], Prune(windows[s], Window[s[1]]))'
  PROVE  BrokeLast(s)'
<1> DEFINE d == s[1]
           z == Fed(d, e)
           n == Len(log)
<1>l. /\ n \in Nat /\ DOMAIN log' = 1 .. n + 1 /\ Len(log') = n + 1
      /\ log'[n + 1].broken = b
  BY LogFacts, EventLogged
<1>1. /\ windows'[s] = z
      /\ Applies(d, e) /\ SlotOf(d, e) = s /\ Reached(d, b)
      /\ ~(Detects(d, e) /\ Done(d, b))
  BY EventLogged, EventFelt DEF HEvent
<1>w. d \in Windowed /\ d \in Detector /\ Window[d] \in Nat
  BY WindowFacts, WindowedDetector
<1>2. /\ z \in Seq([age : 0 .. AgeCap, value : {ValueOf(d, x) : x \in Event}])
      /\ \A i \in DOMAIN z : z[i].age <= Window[d]
  BY <1>1, <1>w, FedQueue DEF Entry, ValuesOf
<1>3. Trips(d, Prune(z, Window[d]))
  BY <1>1
<1> HIDE DEF z
<1>4. Prune(z, Window[d]) = z
  BY <1>2, <1>w, PruneTwice
<1>5. Detects(d, e)
  <2>1. Applies(d, e) /\ Trips(d, Fed(d, e))
    BY <1>1, <1>3, <1>4 DEF z
  <2>2. d \notin {"ping_flood", "suspicious_connection", "arp_spoofing", "dns_spoofing"}
    BY <1>w DEF Windowed
  <2> HIDE DEF d
  <2> QED BY <1>w, <2>1, <2>2 DEF Detects
<1>6. b # None /\ Rank[d] <= Rank[b] /\ ~(Rank[d] < Rank[b])
  BY <1>1, <1>5 DEF Reached, Done
<1>7. b \in Detector
  BY <1>6 DEF Outcome, Detected
<1>8. b = d
  <2>1. Rank[d] = Rank[b]
    BY <1>6, <1>7, <1>w, WindowedDetector
  <2> QED BY <1>7, <1>w, <2>1, WindowedDetector
<1>9. n + 1 \in DOMAIN log' /\ \A j \in n + 1 + 1 .. n + 1 : FALSE
  BY <1>l
<1> QED BY <1>l, <1>8, <1>9 DEF BrokeLast

LEMMA MissedKept ==
  ASSUME LogTyped, AlarmKept, NEW e \in Event, NEW b \in Outcome(e), HEvent(e, b),
         NEW s \in Slot, ~Reaches(log'[Len(log) + 1], s),
         Trips(s[1], Prune(windows[s], Window[s[1]]))'
  PROVE  BrokeLast(s)'
<1>l. /\ Len(log) \in Nat /\ DOMAIN log = 1 .. Len(log)
      /\ DOMAIN log' = 1 .. Len(log) + 1 /\ Len(log') = Len(log) + 1
      /\ \A i \in 1 .. Len(log) : log'[i] = log[i]
  BY LogFacts, EventLogged
<1>1. windows'[s] = windows[s]
  BY EventLogged, EventFelt DEF HEvent
<1>2. BrokeLast(s)
  BY <1>1, KeptByParts
<1>3. PICK i \in 1 .. Len(log) : /\ Reaches(log[i], s) /\ log[i].broken = s[1]
                                 /\ \A j \in i + 1 .. Len(log) : ~Reaches(log[j], s)
  BY <1>2, <1>l DEF BrokeLast
<1>4. ASSUME NEW j \in i + 1 .. Len(log) + 1 PROVE ~Reaches(log'[j], s)
  <2>1. j = Len(log) + 1 \/ (j \in i + 1 .. Len(log) /\ j \in 1 .. Len(log))
    BY <1>l
  <2> QED BY <1>l, <1>3, <2>1
<1>5. i \in DOMAIN log' /\ log'[i] = log[i]
  BY <1>l
<1> QED BY <1>l, <1>3, <1>4, <1>5 DEF BrokeLast

LEMMA InitKept == HInit => AlarmKept
<1> SUFFICES ASSUME HInit, NEW s \in Slot PROVE ~Trips(s[1], Prune(windows[s], Window[s[1]]))
  BY DEF AlarmKept
<1>1. windows[s] = <<>>
  BY DEF HInit, Init
<1>2. Prune(<<>>, Window[s[1]]) = <<>>
  BY DEF Prune
<1> QED BY <1>1, <1>2, EmptyMeasure, SlotIsWindowed

LEMMA StepKept == WindowInv /\ AlarmKept /\ [HNext]_<<engine, log>> => AlarmKept'
<1> SUFFICES ASSUME WindowInv, AlarmKept, [HNext]_<<engine, log>>, NEW s \in Slot,
                    Trips(s[1], Prune(windows[s], Window[s[1]]))'
             PROVE  BrokeLast(s)'
  BY KeptByParts DEF AlarmKept, BrokeLast
<1>i. WindowsOrdered /\ LogTyped
  BY DEF WindowInv
<1>1. CASE UNCHANGED <<engine, log>>
  <2>1. Trips(s[1], Prune(windows[s], Window[s[1]]))
    BY <1>1 DEF engine
  <2>2. BrokeLast(s)
    BY <2>1, KeptByParts
  <2> QED BY <1>1, <2>2 DEF BrokeLast
<1>2. CASE HTick
  BY <1>i, <1>2, TickKept
<1>3. ASSUME NEW e \in Event, NEW b \in Outcome(e), HEvent(e, b) PROVE BrokeLast(s)'
  <2>1. CASE ~Reaches(log'[Len(log) + 1], s)
    BY <1>i, <1>3, <2>1, MissedKept
  <2>2. CASE Reaches(log'[Len(log) + 1], s) /\ s[1] \in log'[Len(log) + 1].alarms
    <3>1. windows'[s] = <<>>
      BY <1>i, <1>3, <2>2, EventLogged, EventFelt DEF HEvent
    <3>2. Prune(<<>>, Window[s[1]]) = <<>>
      BY DEF Prune
    <3>3. ~Trips(s[1], Prune(windows'[s], Window[s[1]]))
      BY <3>1, <3>2, EmptyMeasure, SlotIsWindowed
    <3> QED BY <3>3
  <2>3. CASE Reaches(log'[Len(log) + 1], s) /\ s[1] \notin log'[Len(log) + 1].alarms
    BY <1>i, <1>3, <2>3, FedKept
  <2> QED BY <2>1, <2>2, <2>3
<1> QED BY <1>1, <1>2, <1>3 DEF HNext

\* No window is ever left at its threshold without an alert, unless storing the alert
\* failed at its last event (ids_engine.py:133-136).
THEOREM AlarmKeptCorrect == HSpec => []AlarmKept
  BY InitWindowInv, StepWindowInv, InitKept, StepKept, PTL DEF HSpec
=============================================================================
