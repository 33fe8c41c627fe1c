-------------------------- MODULE Credentials_proofs --------------------------
(***************************************************************************)
(* Theorems about Credentials, for any packets, limit, threads and readers. *)
(***************************************************************************)
EXTENDS Credentials, TLAPS, FiniteSetTheorems, SequenceTheorems

Popping(k) == {s \in Sniffer : sniffer[s].pc = "pop" /\ sniffer[s].store = k}

-----------------------------------------------------------------------------
(* Types                                                                   *)

\* The name in an event is the packet's.
LEMMA QueryOfEvent ==
  ASSUME NEW p, EventOf(p) # None, EventOf(p).query # None
  PROVE  EventOf(p).query = p.query
<1> DEFINE common == [NoEvent EXCEPT !.src = p.src, !.dst = p.dst, !.size = p.size, !.mac = p.mac]
           ports == [common EXCEPT !.sport = p.sport, !.dport = p.dport]
<1>1. common.query = None /\ ports.query = None
  BY DEF NoEvent
<1>2. [common EXCEPT !.proto = "ARP"].query = None /\ [common EXCEPT !.proto = "ICMP"].query = None
      /\ [common EXCEPT !.proto = "OTHER"].query = None /\ [ports EXCEPT !.proto = "UDP"].query = None
      /\ [ports EXCEPT !.proto = "TCP", !.flags = p.flags, !.failed = "RST" \in p.flags].query = None
  BY DEF NoEvent
<1>3. [ports EXCEPT !.proto = "DNS", !.query = p.query,
                    !.answer = IF "DNSRR" \in p.layers THEN p.rdata ELSE None].query = p.query
  BY DEF NoEvent
<1> HIDE DEF common, ports
<1> QED BY <1>2, <1>3 DEF EventOf, common, ports

\* A packet that is kept makes an entry of its list.
LEMMA EntryType ==
  ASSUME NEW p \in Packet, TypeOK, KeptIn(p) # None
  PROVE  KeptIn(p) \in Store /\ EntryOf(p, KeptIn(p)) \in Entry(KeptIn(p))
<1>1. KeptIn(p) \in Store
  BY DEF KeptIn, Store
<1>2. KeptIn(p) = "services" =>
        EventOf(p) # None /\ EventOf(p).query # None /\ ServiceOf[EventOf(p).query] # None
  BY DEF KeptIn
<1>3. KeptIn(p) = "services" => ServiceOf[p.query] \in Service
  BY <1>2, QueryOfEvent, StoreAssumption
<1>4. recorded[KeptIn(p)] + 1 \in Nat
  BY <1>1 DEF TypeOK
<1>5. CASE KeptIn(p) = "services"
  BY <1>1, <1>3, <1>4, <1>5 DEF EntryOf, Entry
<1>6. CASE KeptIn(p) # "services"
  BY <1>1, <1>4, <1>6 DEF EntryOf, Entry
<1> QED BY <1>5, <1>6

LEMMA RestingFacts ==
  Resting.pc = "idle" /\ Resting.store = None /\ None \notin Store
  BY StoreAssumption DEF Resting

LEMMA EmptyFound == <<>> \in Found
  BY DEF Found

LEMMA NoAnswerFacts ==
  /\ NoAnswer \in Reading /\ NoAnswer.pc = "idle"
  /\ NoAnswer.page = <<>> /\ NoAnswer.found = <<>> /\ NoAnswer.next = 1
  BY DEF NoAnswer, Reading, Found

LEMMA PageType ==
  ASSUME NEW S, NEW q \in Seq(S), NEW n \in Int
  PROVE  /\ Page(q, n) \in Seq(S)
         /\ \A i \in DOMAIN Page(q, n) :
              Len(q) - i + 1 \in DOMAIN q /\ Page(q, n)[i] = q[Len(q) - i + 1]
<1> DEFINE first == IF n <= 0 THEN 1 - n ELSE IF n < Len(q) THEN Len(q) - n + 1 ELSE 1
           m == Len(q) - first + 1
<1>1. first \in Nat /\ first >= 1 /\ Len(q) \in Nat
  OBVIOUS
<1>2. Page(q, n) = [i \in 1 .. m |-> q[Len(q) - i + 1]]
  BY DEF Page
<1>3. \A i \in 1 .. m : Len(q) - i + 1 \in 1 .. Len(q)
  BY <1>1
<1>4. m \in Int
  BY <1>1
<1> HIDE DEF m
<1>4a. PICK len \in Nat : 1 .. m = 1 .. len
  <2>1. CASE m >= 0
    <3>1. m \in Nat
      BY <1>4, <2>1
    <3> QED BY <3>1
  <2>2. CASE m < 0
    <3>1. 1 .. m = 1 .. 0
      BY <1>4, <2>2
    <3> QED BY <3>1
  <2> QED BY <1>4, <2>1, <2>2
<1>5. \A i \in 1 .. m : q[Len(q) - i + 1] \in S
  BY <1>3, ElementOfSeq
<1>6. Page(q, n) \in [1 .. len -> S]
  BY <1>2, <1>4a, <1>5
<1>7. Page(q, n) \in Seq(S)
  BY <1>6, SeqDef
<1>8. DOMAIN Page(q, n) = 1 .. m /\ DOMAIN q = 1 .. Len(q)
  BY <1>2
<1> QED BY <1>2, <1>3, <1>7, <1>8
\* A thread in a list, and what it looks at
LEMMA InList ==
  ASSUME TypeOK, NEW s \in Sniffer, sniffer[s].pc # "idle"
  PROVE  /\ sniffer[s].store \in Store /\ sniffer[s].pc \in {"test", "pop"}
         /\ sniffer[s] = [pc |-> sniffer[s].pc, store |-> sniffer[s].store]
  BY RestingFacts DEF TypeOK

LEMMA RecordType ==
  ASSUME TypeOK, NEW s \in Sniffer, NEW p \in Packet, Record(s, p) PROVE TypeOK'
<1> DEFINE k == KeptIn(p)
<1>1. k \in Store /\ EntryOf(p, k) \in Entry(k)
  BY EntryType DEF Record
<1> HIDE DEF k
<1>2. /\ lists' = [lists EXCEPT ![k] = Append(@, EntryOf(p, k))]
      /\ recorded' = [recorded EXCEPT ![k] = @ + 1]
      /\ sniffer' = [sniffer EXCEPT ![s] = [pc |-> "test", store |-> k]] /\ reader' = reader
  BY DEF Record, k
<1>3. DOMAIN lists' = Store /\ \A j \in Store : lists'[j] \in Seq(Entry(j))
  BY <1>1, <1>2 DEF TypeOK
<1>4. recorded' \in [Store -> Nat]
  BY <1>1, <1>2 DEF TypeOK
<1>5. sniffer' \in [Sniffer -> {Resting} \cup [pc : {"test", "pop"}, store : Store]]
  BY <1>1, <1>2 DEF TypeOK
<1> QED BY <1>2, <1>3, <1>4, <1>5 DEF TypeOK

LEMMA TestType == ASSUME TypeOK, NEW s \in Sniffer, Test(s) PROVE TypeOK'
<1>1. sniffer[s].store \in Store
  BY InList DEF Test
<1>2. sniffer' \in [Sniffer -> {Resting} \cup [pc : {"test", "pop"}, store : Store]]
  BY <1>1 DEF Test, TypeOK
<1> QED BY <1>2 DEF Test, TypeOK

LEMMA PopType == ASSUME TypeOK, NEW s \in Sniffer, Pop(s) PROVE TypeOK'
<1> DEFINE k == sniffer[s].store
<1>1. k \in Store /\ lists[k] \in Seq(Entry(k))
  BY InList DEF Pop, TypeOK
<1>2. \/ sniffer' = [sniffer EXCEPT ![s] = Resting] /\ UNCHANGED lists
      \/ /\ sniffer' = [sniffer EXCEPT ![s] = [pc |-> "test", store |-> k]]
         /\ lists[k] # <<>> /\ lists' = [lists EXCEPT ![k] = Tail(@)]
  BY DEF Pop
<1> HIDE DEF k
<1>3. sniffer' \in [Sniffer -> {Resting} \cup [pc : {"test", "pop"}, store : Store]]
  BY <1>1, <1>2 DEF TypeOK
<1>4. lists[k] # <<>> => Tail(lists[k]) \in Seq(Entry(k))
  BY <1>1
<1>5. DOMAIN lists' = Store /\ \A j \in Store : lists'[j] \in Seq(Entry(j))
  BY <1>1, <1>2, <1>4 DEF TypeOK
<1> QED BY <1>3, <1>5 DEF Pop, TypeOK

\* An answer is well formed, and so is a scan one entry further.
LEMMA AnswerType ==
  ASSUME NEW k \in Store, NEW p \in Found
  PROVE  LET a == [NoAnswer EXCEPT !.pc = "answer", !.store = k, !.page = p]
         IN  a \in Reading /\ a.store = k /\ a.pc = "answer" /\ a.page = p
<1>1. ASSUME NEW b \in Reading
      PROVE  /\ [b EXCEPT !.pc = "answer"] \in Reading /\ [b EXCEPT !.store = k] \in Reading
             /\ [b EXCEPT !.page = p] \in Reading
  BY DEF Reading
<1> QED BY <1>1, NoAnswerFacts DEF NoAnswer

LEMMA ScannedType ==
  ASSUME NEW a \in Reading, NEW n \in Nat \ {0}, NEW f \in Found
  PROVE  LET b == [a EXCEPT !.next = n, !.found = f] IN b \in Reading /\ b.store = a.store
<1>1. ASSUME NEW b \in Reading
      PROVE  [b EXCEPT !.next = n] \in Reading /\ [b EXCEPT !.found = f] \in Reading
  BY DEF Reading
<1>2. [[a EXCEPT !.next = n] EXCEPT !.found = f] = [a EXCEPT !.next = n, !.found = f]
  OBVIOUS
<1> QED BY <1>1, <1>2 DEF Reading

\* A reader may go on with a well formed record.
LEMMA ReaderType ==
  ASSUME TypeOK, NEW r \in Reader, NEW new \in Reading, new.pc # "idle" => new.store \in Store,
         reader' = [reader EXCEPT ![r] = new], UNCHANGED <<lists, recorded, sniffer>>
  PROVE  TypeOK'
  BY DEF TypeOK

LEMMA AskType ==
  ASSUME TypeOK, NEW r \in Reader, NEW k \in Store, NEW c \in Service \cup {None},
         NEW n \in PageLimit, Ask(r, k, c, n)
  PROVE  TypeOK'
<1> DEFINE new == [NoAnswer EXCEPT !.pc = IF c = None THEN "slice" ELSE "scan",
                                   !.store = k, !.service = c, !.limit = n]
<1>1. new \in Reading /\ new.store = k
  BY NoAnswerFacts, StoreAssumption DEF Reading
<1>2. reader' = [reader EXCEPT ![r] = new] /\ UNCHANGED <<lists, recorded, sniffer>>
  BY DEF Ask
<1> HIDE DEF new
<1> QED BY <1>1, <1>2, ReaderType

LEMMA InFlight ==
  ASSUME TypeOK, NEW r \in Reader, reader[r].pc # "idle"
  PROVE  /\ reader[r] \in Reading /\ reader[r].store \in Store /\ reader[r].limit \in Int
         /\ reader[r].found \in Found /\ reader[r].next \in Nat \ {0}
         /\ lists[reader[r].store] \in Found
<1>1. reader[r] \in Reading /\ reader[r].store \in Store
  BY DEF TypeOK
<1>2. \A k \in Store : Entry(k) \subseteq AnyEntry
  BY DEF Store, AnyEntry
<1>3. lists[reader[r].store] \in Found
  BY <1>1, <1>2, SeqMonotonic DEF TypeOK, Found
<1> QED BY <1>1, <1>3 DEF Reading

LEMMA SliceType == ASSUME TypeOK, NEW r \in Reader, Slice(r) PROVE TypeOK'
<1> DEFINE k == reader[r].store
           page == Page(lists[k], reader[r].limit)
           new == [NoAnswer EXCEPT !.pc = "answer", !.store = k, !.page = page]
<1>1. k \in Store /\ page \in Found
  BY InFlight, PageType DEF Slice, Found
<1>2. reader' = [reader EXCEPT ![r] = new] /\ UNCHANGED <<lists, recorded, sniffer>>
  BY DEF Slice
<1>3. new \in Reading /\ new.store \in Store
  BY <1>1, AnswerType
<1> HIDE DEF new
<1> QED BY <1>2, <1>3, ReaderType

LEMMA ScanType == ASSUME TypeOK, NEW r \in Reader, Scan(r) PROVE TypeOK'
<1> DEFINE a == reader[r]
           x == lists[a.store][a.next]
           found == IF x.service = a.service THEN Append(a.found, x) ELSE a.found
           new == [a EXCEPT !.next = a.next + 1, !.found = found]
<1>1. x \in AnyEntry
  BY InFlight, ElementOfSeq DEF Scan, Found
<1>2. found \in Found
  BY <1>1, InFlight DEF Scan, Found
<1>3. reader' = [reader EXCEPT ![r] = new] /\ UNCHANGED <<lists, recorded, sniffer>>
  BY DEF Scan
<1> HIDE DEF found
<1>4. a \in Reading /\ a.store \in Store
  BY InFlight DEF Scan
<1> HIDE DEF a
<1>5. new \in Reading /\ new.store \in Store
  <2>1. a.next + 1 \in Nat \ {0}
    BY <1>4 DEF Reading
  <2> QED BY <1>2, <1>4, <2>1, ScannedType
<1> HIDE DEF new
<1> QED BY <1>3, <1>5, ReaderType

LEMMA ScanEndType == ASSUME TypeOK, NEW r \in Reader, ScanEnd(r) PROVE TypeOK'
<1> DEFINE k == reader[r].store
           page == Page(reader[r].found, reader[r].limit)
           new == [NoAnswer EXCEPT !.pc = "answer", !.store = k, !.page = page]
<1>1. k \in Store /\ page \in Found
  BY InFlight, PageType DEF ScanEnd, Found
<1>2. reader' = [reader EXCEPT ![r] = new] /\ UNCHANGED <<lists, recorded, sniffer>>
  BY DEF ScanEnd
<1>3. new \in Reading /\ new.store \in Store
  BY <1>1, AnswerType
<1> HIDE DEF new
<1> QED BY <1>2, <1>3, ReaderType

LEMMA InitType == Init => TypeOK
  BY NoAnswerFacts DEF Init, TypeOK

LEMMA NextType == TypeOK /\ [Next]_vars => TypeOK'
<1> SUFFICES ASSUME TypeOK, [Next]_vars PROVE TypeOK'
  OBVIOUS
<1>1. CASE UNCHANGED vars
  BY <1>1 DEF vars, TypeOK
<1>2. ASSUME NEW s \in Sniffer, Test(s) \/ Pop(s) \/ \E p \in Packet : Record(s, p) PROVE TypeOK'
  BY <1>2, TestType, PopType, RecordType
<1>3. ASSUME NEW r \in Reader, Request(r) PROVE TypeOK'
  <2>1. ASSUME Answer(r) PROVE TypeOK'
    BY <2>1, NoAnswerFacts, ReaderType DEF Answer
  <2>2. "services" \in Store
    BY DEF Store
  <2> QED BY <1>3, <2>1, <2>2, AskType, SliceType, ScanType, ScanEndType DEF Request
<1> QED BY <1>1, <1>2, <1>3 DEF Next

\* Whatever threads and requests do to the two lists of credentials.py, entries, threads
\* and answers are well formed.
THEOREM TypeCorrect == Spec => []TypeOK
  BY InitType, NextType, PTL DEF Spec

-----------------------------------------------------------------------------
(* The latest entries                                                      *)

\* The two ways a list changes
Appended(k) ==
  /\ recorded' = [recorded EXCEPT ![k] = @ + 1]
  /\ \E e \in Entry(k) : e.no = recorded[k] + 1 /\ lists' = [lists EXCEPT ![k] = Append(@, e)]
Popped(k) ==
  /\ lists[k] # <<>> /\ recorded' = recorded
  /\ lists' = [lists EXCEPT ![k] = Tail(@)]

LEMMA RecordAppends ==
  ASSUME TypeOK, NEW s \in Sniffer, NEW p \in Packet, Record(s, p)
  PROVE  KeptIn(p) \in Store /\ Appended(KeptIn(p))
<1>1. KeptIn(p) \in Store /\ EntryOf(p, KeptIn(p)) \in Entry(KeptIn(p))
  BY EntryType DEF Record
<1>2. EntryOf(p, KeptIn(p)).no = recorded[KeptIn(p)] + 1
  BY DEF EntryOf
<1> QED BY <1>1, <1>2 DEF Record, Appended

LEMMA PopPops ==
  ASSUME TypeOK, NEW s \in Sniffer, Pop(s)
  PROVE  /\ sniffer[s].store \in Store
         /\ Popped(sniffer[s].store) \/ UNCHANGED <<lists, recorded>>
<1>1. sniffer[s].store \in Store
  BY InList DEF Pop
<1> QED BY <1>1 DEF Pop, Popped

\* No other step changes a list.
LEMMA ListSteps ==
  ASSUME TypeOK, [Next]_vars
  PROVE  \/ UNCHANGED <<lists, recorded>>
         \/ \E k \in Store : Appended(k) \/ Popped(k)
<1>1. ASSUME NEW r \in Reader, Request(r) PROVE UNCHANGED <<lists, recorded>>
  BY <1>1 DEF Request, Ask, Slice, Scan, ScanEnd, Answer
<1>2. ASSUME NEW s \in Sniffer, Test(s) PROVE UNCHANGED <<lists, recorded>>
  BY <1>2 DEF Test
<1> QED BY <1>1, <1>2, RecordAppends, PopPops DEF Next, vars

LEMMA LatestAfterAppend ==
  ASSUME TypeOK, Latest, NEW k \in Store, Appended(k) PROVE Latest'
<1>1. PICK e \in Entry(k) : e.no = recorded[k] + 1 /\ lists' = [lists EXCEPT ![k] = Append(@, e)]
  BY DEF Appended
<1>2. /\ lists[k] \in Seq(Entry(k)) /\ Len(lists[k]) \in Nat /\ recorded[k] \in Nat
      /\ lists'[k] = Append(lists[k], e) /\ recorded'[k] = recorded[k] + 1
  BY <1>1 DEF TypeOK, Appended
<1>3. ASSUME NEW i \in DOMAIN lists'[k]
      PROVE  lists'[k][i].no = recorded'[k] - Len(lists'[k]) + i
  <2>1. Len(lists'[k]) = Len(lists[k]) + 1 /\ i \in 1 .. Len(lists[k]) + 1
    BY <1>2, <1>3
  <2>2. CASE i = Len(lists[k]) + 1
    BY <1>1, <1>2, <2>1, <2>2
  <2>3. CASE i \in 1 .. Len(lists[k])
    <3>1. lists'[k][i] = lists[k][i] /\ i \in DOMAIN lists[k]
      BY <1>2, <2>3
    <3>2. lists[k][i].no = recorded[k] - Len(lists[k]) + i
      BY <3>1 DEF Latest
    <3>3. recorded[k] - Len(lists[k]) + i = recorded'[k] - Len(lists'[k]) + i
      <4>1. \A m, n \in Nat : m - n = (m + 1) - (n + 1)
        OBVIOUS
      <4>2. /\ recorded'[k] = recorded[k] + 1 /\ Len(lists'[k]) = Len(lists[k]) + 1
            /\ recorded[k] \in Nat /\ Len(lists[k]) \in Nat
        BY <1>2, <2>1
      <4>3. recorded[k] - Len(lists[k]) = recorded'[k] - Len(lists'[k])
        BY <4>1, <4>2
      <4> QED BY <4>3
    <3> QED BY <3>1, <3>2, <3>3
  <2> QED BY <1>2, <2>1, <2>2, <2>3
<1>4. \A j \in Store \ {k} : lists'[j] = lists[j] /\ recorded'[j] = recorded[j]
  BY <1>1 DEF TypeOK, Appended
<1> QED BY <1>3, <1>4 DEF Latest

LEMMA LatestAfterPop ==
  ASSUME TypeOK, Latest, NEW k \in Store, Popped(k) PROVE Latest'
<1>1. /\ lists[k] \in Seq(Entry(k)) /\ Len(lists[k]) \in Nat /\ recorded[k] \in Nat
      /\ lists[k] # <<>> /\ lists'[k] = Tail(lists[k]) /\ recorded'[k] = recorded[k]
  BY DEF TypeOK, Popped
<1>2. ASSUME NEW i \in DOMAIN lists'[k]
      PROVE  lists'[k][i].no = recorded'[k] - Len(lists'[k]) + i
  <2>1. /\ Len(lists'[k]) = Len(lists[k]) - 1 /\ i \in 1 .. Len(lists[k]) - 1
        /\ lists'[k][i] = lists[k][i + 1]
    BY <1>1, <1>2
  <2>2. i + 1 \in DOMAIN lists[k]
    BY <1>1, <2>1
  <2>3. lists[k][i + 1].no = recorded[k] - Len(lists[k]) + (i + 1)
    BY <2>2 DEF Latest
  <2> QED BY <1>1, <2>1, <2>3
<1>3. \A j \in Store \ {k} : lists'[j] = lists[j] /\ recorded'[j] = recorded[j]
  BY DEF TypeOK, Popped
<1> QED BY <1>2, <1>3 DEF Latest

LEMMA LatestNext == TypeOK /\ Latest /\ [Next]_vars => Latest'
<1> SUFFICES ASSUME TypeOK, Latest, [Next]_vars PROVE Latest'
  OBVIOUS
<1>1. CASE UNCHANGED <<lists, recorded>>
  BY <1>1 DEF Latest
<1> QED BY <1>1, ListSteps, LatestAfterAppend, LatestAfterPop

LEMMA InitLatest == Init => Latest
  BY DEF Init, Latest

\* However many threads append and trim, a list holds the latest entries, none
\* missing and in order.
THEOREM LatestCorrect == Spec => []Latest
  BY InitLatest, LatestNext, TypeCorrect, PTL DEF Spec

-----------------------------------------------------------------------------
(* The limit                                                               *)

LEMMA FiniteParts ==
  ASSUME NEW T \in SUBSET Sniffer
  PROVE  IsFiniteSet(T) /\ Cardinality(T) \in Nat /\ Cardinality(T) <= Cardinality(Sniffer)
         /\ Cardinality(Sniffer) \in Nat
  BY StoreAssumption, FS_Subset, FS_CardinalityType

LEMMA BoundedRecord ==
  ASSUME TypeOK, Bounded, NEW s \in Sniffer, NEW p \in Packet, Record(s, p) PROVE Bounded'
<1> DEFINE k == KeptIn(p)
<1>1. k \in Store /\ Appended(k) /\ sniffer[s] = Resting
  BY RecordAppends DEF Record, TypeOK
<1>2. sniffer' = [sniffer EXCEPT ![s] = [pc |-> "test", store |-> k]]
  BY DEF Record
<1> HIDE DEF k
<1>3. Trimming(k)' = Trimming(k) \cup {s} /\ s \notin Trimming(k)
  BY <1>1, <1>2, RestingFacts DEF Trimming, TypeOK
<1>4. Cardinality(Trimming(k)') = Cardinality(Trimming(k)) + 1
  <2>1. IsFiniteSet(Trimming(k))
    BY FiniteParts DEF Trimming
  <2> QED BY <1>3, <2>1, FS_AddElement
<1>5. Len(lists'[k]) = Len(lists[k]) + 1 /\ Len(lists[k]) \in Nat
  BY <1>1 DEF Appended, TypeOK
<1>6. Cardinality(Trimming(k)) \in Nat
  BY FiniteParts DEF Trimming
<1>7. Len(lists'[k]) <= Limit + Cardinality(Trimming(k)')
  BY <1>1, <1>4, <1>5, <1>6, StoreAssumption DEF Bounded
<1>8. ASSUME NEW j \in Store \ {k} PROVE Len(lists'[j]) <= Limit + Cardinality(Trimming(j)')
  <2>1. lists'[j] = lists[j]
    BY <1>1, <1>8 DEF Appended, TypeOK
  <2>2. Trimming(j)' = Trimming(j)
    BY <1>1, <1>2, <1>8, RestingFacts DEF Trimming, TypeOK
  <2> QED BY <1>8, <2>1, <2>2 DEF Bounded
<1> QED BY <1>7, <1>8 DEF Bounded

\* A thread that leaves a list leaves it within the limit.
LEMMA BoundedLeave ==
  ASSUME TypeOK, Bounded, NEW s \in Sniffer, NEW k \in Store, sniffer[s].store = k,
         Len(lists[k]) <= Limit, sniffer' = [sniffer EXCEPT ![s] = Resting], lists' = lists
  PROVE  Bounded'
<1>1. \A j \in Store \ {k} : Trimming(j)' = Trimming(j)
  BY RestingFacts DEF Trimming, TypeOK
<1>2. Cardinality(Trimming(k)') \in Nat
  <2>1. Trimming(k)' \in SUBSET Sniffer
    BY DEF Trimming
  <2> QED BY <2>1, FiniteParts
<1>3. Len(lists[k]) \in Nat
  BY DEF TypeOK
<1>4. Len(lists'[k]) <= Limit + Cardinality(Trimming(k)')
  BY <1>2, <1>3, StoreAssumption
<1> QED BY <1>1, <1>4 DEF Bounded

LEMMA BoundedTest ==
  ASSUME TypeOK, Bounded, NEW s \in Sniffer, Test(s) PROVE Bounded'
<1>1. sniffer[s].store \in Store
  BY InList DEF Test
<1>2. CASE Len(lists[sniffer[s].store]) > Limit
  <2>1. sniffer' = [sniffer EXCEPT ![s] = [pc |-> "pop", store |-> sniffer[s].store]]
    BY <1>2 DEF Test
  <2>2. \A j \in Store : Trimming(j)' = Trimming(j)
    BY <2>1 DEF Trimming, TypeOK
  <2> QED BY <2>2 DEF Bounded, Test
<1>3. CASE ~(Len(lists[sniffer[s].store]) > Limit)
  <2>1. sniffer' = [sniffer EXCEPT ![s] = Resting] /\ lists' = lists
    BY <1>3 DEF Test
  <2>2. Len(lists[sniffer[s].store]) <= Limit
    BY <1>1, <1>3, StoreAssumption DEF TypeOK
  <2> QED BY <1>1, <2>1, <2>2, BoundedLeave
<1> QED BY <1>2, <1>3

LEMMA PopShortens ==
  ASSUME TypeOK, NEW k \in Store, Popped(k)
  PROVE  /\ Len(lists[k]) \in Nat /\ Len(lists'[k]) = Len(lists[k]) - 1
         /\ \A j \in Store \ {k} : lists'[j] = lists[j]
<1>1. lists[k] \in Seq(Entry(k)) /\ lists[k] # <<>> /\ lists'[k] = Tail(lists[k])
  BY DEF TypeOK, Popped
<1>2. Len(lists'[k]) = Len(lists[k]) - 1 /\ Len(lists[k]) \in Nat
  BY <1>1
<1> QED BY <1>2 DEF TypeOK, Popped

LEMMA BoundedPop ==
  ASSUME TypeOK, Bounded, NEW s \in Sniffer, Pop(s) PROVE Bounded'
<1> SUFFICES ASSUME NEW k \in Store, sniffer[s].store = k PROVE Bounded'
  BY InList DEF Pop
<1>1. lists[k] \in Seq(Entry(k)) /\ Len(lists[k]) \in Nat
  BY DEF TypeOK
<1>2. CASE lists[k] = <<>>
  <2>1. Len(lists[k]) <= Limit
    BY <1>2, StoreAssumption
  <2> QED BY <1>1, <1>2, <2>1, BoundedLeave DEF Pop
<1>3. CASE lists[k] # <<>>
  <2>1. /\ lists' = [lists EXCEPT ![k] = Tail(@)]
        /\ sniffer' = [sniffer EXCEPT ![s] = [pc |-> "test", store |-> k]]
    BY <1>3 DEF Pop
  <2>2. \A j \in Store : Trimming(j)' = Trimming(j)
    BY <2>1 DEF Trimming, TypeOK
  <2>0. Popped(k)
    BY <1>3, <2>1 DEF Pop, Popped
  <2>3. Len(lists'[k]) = Len(lists[k]) - 1
    BY <1>1, <2>0, PopShortens
  <2>4. \A j \in Store \ {k} : lists'[j] = lists[j]
    BY <1>1, <2>0, PopShortens
  <2>5. Cardinality(Trimming(k)) \in Nat
    BY FiniteParts DEF Trimming
  <2>6. Len(lists'[k]) <= Limit + Cardinality(Trimming(k)')
    BY <1>1, <2>2, <2>3, <2>5, StoreAssumption DEF Bounded
  <2> QED BY <2>2, <2>4, <2>6 DEF Bounded
<1> QED BY <1>2, <1>3

LEMMA BoundedNext == TypeOK /\ Bounded /\ [Next]_vars => Bounded'
<1> SUFFICES ASSUME TypeOK, Bounded, [Next]_vars PROVE Bounded'
  OBVIOUS
<1>1. CASE UNCHANGED vars
  BY <1>1 DEF Bounded, Trimming, vars
<1>2. ASSUME NEW r \in Reader, Request(r) PROVE Bounded'
  BY <1>2 DEF Request, Ask, Slice, Scan, ScanEnd, Answer, Bounded, Trimming
<1> QED BY <1>1, <1>2, BoundedRecord, BoundedTest, BoundedPop DEF Next

LEMMA InitBounded == Init => Bounded
<1> SUFFICES ASSUME Init, NEW k \in Store PROVE Len(lists[k]) <= Limit + Cardinality(Trimming(k))
  BY DEF Bounded
<1>1. Len(lists[k]) = 0
  BY DEF Init
<1>2. Cardinality(Trimming(k)) \in Nat
  BY FiniteParts DEF Trimming
<1> QED BY <1>1, <1>2, StoreAssumption

\* A list exceeds the limit by no more than the threads that are still trimming it.
THEOREM BoundedCorrect == Spec => []Bounded
  BY InitBounded, BoundedNext, TypeCorrect, PTL DEF Spec

\* KeepsLimit is not inductive: the threads that will pop count as having popped.
Kept ==
  \A k \in Store : recorded[k] > Len(lists[k]) \/ Popping(k) # {} =>
    Len(lists[k]) + Cardinality(Sniffer) >= Limit + 1 + Cardinality(Popping(k))

\* What keeps the numbers of the other list and of its threads
LEMMA KeptElsewhere ==
  ASSUME TypeOK, Kept, NEW j \in Store,
         lists'[j] = lists[j], recorded'[j] = recorded[j], Popping(j)' = Popping(j)
  PROVE  recorded'[j] > Len(lists'[j]) \/ Popping(j)' # {} =>
           Len(lists'[j]) + Cardinality(Sniffer) >= Limit + 1 + Cardinality(Popping(j)')
  BY DEF Kept

LEMMA KeptRecord ==
  ASSUME TypeOK, Kept, NEW s \in Sniffer, NEW p \in Packet, Record(s, p) PROVE Kept'
<1> SUFFICES ASSUME NEW k \in Store, k = KeptIn(p) PROVE Kept'
  BY RecordAppends
<1>1. Appended(k) /\ sniffer[s].pc = "idle"
  BY RecordAppends DEF Record
<1>2. sniffer' = [sniffer EXCEPT ![s] = [pc |-> "test", store |-> k]]
  BY DEF Record
<1>3. \A j \in Store : Popping(j)' = Popping(j)
  BY <1>1, <1>2 DEF Popping, TypeOK
<1>4. /\ Len(lists'[k]) = Len(lists[k]) + 1 /\ Len(lists[k]) \in Nat
      /\ recorded'[k] = recorded[k] + 1 /\ recorded[k] \in Nat
  BY <1>1 DEF Appended, TypeOK
<1>5. Cardinality(Popping(k)) \in Nat /\ Cardinality(Sniffer) \in Nat
  BY FiniteParts DEF Popping
<1>6. recorded'[k] > Len(lists'[k]) \/ Popping(k)' # {} =>
        Len(lists'[k]) + Cardinality(Sniffer) >= Limit + 1 + Cardinality(Popping(k)')
  <2> SUFFICES ASSUME recorded'[k] > Len(lists'[k]) \/ Popping(k)' # {}
               PROVE  Len(lists'[k]) + Cardinality(Sniffer) >= Limit + 1 + Cardinality(Popping(k))
    BY <1>3
  <2>1. recorded[k] > Len(lists[k]) \/ Popping(k) # {}
    BY <1>3, <1>4
  <2>2. Len(lists[k]) + Cardinality(Sniffer) >= Limit + 1 + Cardinality(Popping(k))
    BY <2>1 DEF Kept
  <2>3. \A m, n, c, i \in Nat : n + c >= m + 1 + i => n + 1 + c >= m + 1 + i
    OBVIOUS
  <2>4. Limit \in Nat
    BY StoreAssumption
  <2> QED BY <1>4, <1>5, <2>2, <2>3, <2>4
<1>7. \A j \in Store \ {k} : lists'[j] = lists[j] /\ recorded'[j] = recorded[j]
  BY <1>1 DEF Appended, TypeOK
<1> QED BY <1>3, <1>6, <1>7, KeptElsewhere DEF Kept

LEMMA KeptTest ==
  ASSUME TypeOK, Kept, NEW s \in Sniffer, Test(s) PROVE Kept'
<1> SUFFICES ASSUME NEW k \in Store, sniffer[s].store = k PROVE Kept'
  BY InList DEF Test
<1>1. sniffer[s].pc = "test" /\ lists' = lists /\ recorded' = recorded
  BY DEF Test
<1>2. CASE ~(Len(lists[k]) > Limit)
  <2>1. \A j \in Store : Popping(j)' = Popping(j)
    BY <1>1, <1>2, RestingFacts DEF Test, Popping, TypeOK
  <2> QED BY <1>1, <2>1 DEF Kept
<1>3. CASE Len(lists[k]) > Limit
  <2>1. sniffer' = [sniffer EXCEPT ![s] = [pc |-> "pop", store |-> k]]
    BY <1>3 DEF Test
  <2>2. Popping(k)' = Popping(k) \cup {s} /\ s \notin Popping(k) /\ Popping(k) \subseteq Sniffer
    BY <1>1, <2>1 DEF Popping, TypeOK
  <2>3. \A j \in Store \ {k} : Popping(j)' = Popping(j)
    BY <1>1, <2>1 DEF Popping, TypeOK
  <2>4. Cardinality(Popping(k)') <= Cardinality(Sniffer) /\ Cardinality(Popping(k)') \in Nat
        /\ Cardinality(Sniffer) \in Nat
    <3>1. Popping(k)' \in SUBSET Sniffer
      BY <2>2
    <3> QED BY <3>1, FiniteParts
  <2>5. Len(lists[k]) \in Nat
    BY DEF TypeOK
  <2>6. Len(lists'[k]) + Cardinality(Sniffer) >= Limit + 1 + Cardinality(Popping(k)')
    BY <1>1, <1>3, <2>4, <2>5, StoreAssumption
  <2> QED BY <1>1, <2>3, <2>6, KeptElsewhere DEF Kept
<1> QED BY <1>2, <1>3

LEMMA KeptPop ==
  ASSUME TypeOK, Kept, NEW s \in Sniffer, Pop(s) PROVE Kept'
<1> SUFFICES ASSUME NEW k \in Store, sniffer[s].store = k PROVE Kept'
  BY InList DEF Pop
<1>1. /\ s \in Popping(k) /\ recorded' = recorded /\ Popping(k) \subseteq Sniffer
      /\ \/ sniffer' = [sniffer EXCEPT ![s] = Resting] /\ lists' = lists
         \/ sniffer' = [sniffer EXCEPT ![s] = [pc |-> "test", store |-> k]] /\ Popped(k)
  BY DEF Pop, Popped, Popping
<1>2. /\ Popping(k)' = Popping(k) \ {s}
      /\ \A j \in Store \ {k} : Popping(j)' = Popping(j)
  <2>1. sniffer'[s].pc # "pop" /\ \A t \in Sniffer \ {s} : sniffer'[t] = sniffer[t]
    BY <1>1, RestingFacts DEF TypeOK
  <2> QED BY <1>1, <2>1 DEF Popping
<1>4. /\ Cardinality(Popping(k)') = Cardinality(Popping(k)) - 1
      /\ Cardinality(Popping(k)) \in Nat /\ Cardinality(Sniffer) \in Nat
  <2>1. IsFiniteSet(Popping(k)) /\ Cardinality(Popping(k)) \in Nat
        /\ Cardinality(Sniffer) \in Nat
    BY <1>1, FiniteParts
  <2>2. Cardinality(Popping(k) \ {s}) = Cardinality(Popping(k)) - 1
    BY <1>1, <2>1, FS_RemoveElement
  <2> QED BY <1>2, <2>1, <2>2
<1>5. Len(lists[k]) + Cardinality(Sniffer) >= Limit + 1 + Cardinality(Popping(k))
  BY <1>1 DEF Kept
<1>6. /\ Len(lists[k]) \in Nat /\ Len(lists'[k]) \in {Len(lists[k]), Len(lists[k]) - 1}
      /\ \A j \in Store \ {k} : lists'[j] = lists[j]
  BY <1>1, PopShortens DEF TypeOK
<1>7. Len(lists'[k]) + Cardinality(Sniffer) >= Limit + 1 + Cardinality(Popping(k)')
  <2>1. \A m, n, c, i \in Nat : n + c >= m + 1 + i =>
          n + c >= m + 1 + (i - 1) /\ n - 1 + c >= m + 1 + (i - 1)
    OBVIOUS
  <2>2. Limit \in Nat
    BY StoreAssumption
  <2>3. Len(lists'[k]) = Len(lists[k]) \/ Len(lists'[k]) = Len(lists[k]) - 1
    BY <1>6
  <2> QED BY <1>4, <1>5, <1>6, <2>1, <2>2, <2>3
<1> QED BY <1>1, <1>2, <1>6, <1>7, KeptElsewhere DEF Kept

LEMMA KeptNext == TypeOK /\ Kept /\ [Next]_vars => Kept'
<1> SUFFICES ASSUME TypeOK, Kept, [Next]_vars PROVE Kept'
  OBVIOUS
<1>1. CASE UNCHANGED vars
  BY <1>1 DEF Kept, Popping, vars
<1>2. ASSUME NEW r \in Reader, Request(r) PROVE Kept'
  BY <1>2 DEF Request, Ask, Slice, Scan, ScanEnd, Answer, Kept, Popping
<1> QED BY <1>1, <1>2, KeptRecord, KeptTest, KeptPop DEF Next

LEMMA InitKept == Init => Kept
<1> SUFFICES ASSUME Init, NEW k \in Store
             PROVE  ~(recorded[k] > Len(lists[k])) /\ Popping(k) = {}
  BY DEF Kept
<1>1. recorded[k] = 0 /\ Len(lists[k]) = 0
  BY DEF Init
<1> QED BY <1>1, RestingFacts DEF Init, Popping

LEMMA KeptKeeps == TypeOK /\ Kept => KeepsLimit
<1> SUFFICES ASSUME TypeOK, Kept, NEW k \in Store, recorded[k] > Len(lists[k])
             PROVE  Len(lists[k]) + Cardinality(Sniffer) > Limit
  BY DEF KeepsLimit
<1>1. Cardinality(Popping(k)) \in Nat /\ Cardinality(Sniffer) \in Nat
  BY FiniteParts DEF Popping
<1>2. Len(lists[k]) + Cardinality(Sniffer) >= Limit + 1 + Cardinality(Popping(k))
  BY DEF Kept
<1>3. Len(lists[k]) \in Nat
  BY DEF TypeOK
<1> QED BY <1>1, <1>2, <1>3, StoreAssumption

\* Threads that test and pop in two steps trim a list by one entry each too much at most.
THEOREM KeepsLimitCorrect == Spec => []KeepsLimit
  BY InitKept, KeptNext, KeptKeeps, TypeCorrect, PTL DEF Spec

-----------------------------------------------------------------------------
(* Pages                                                                   *)

Ordered(q) == \A i, j \in DOMAIN q : i < j => q[i].no < q[j].no

\* NewestFirst is not inductive: what a scan has found is in order and older than the
\* entry it comes to next, wherever the list has moved.
Scanned ==
  \A r \in Reader : reader[r].pc = "scan" =>
    /\ Ordered(reader[r].found)
    /\ \A i \in DOMAIN reader[r].found :
         reader[r].found[i].no
           < recorded[reader[r].store] - Len(lists[reader[r].store]) + reader[r].next

LEMMA PageOrder ==
  ASSUME NEW q \in Found, Ordered(q), NEW n \in Int,
         NEW i \in DOMAIN Page(q, n), NEW j \in DOMAIN Page(q, n), i < j
  PROVE  Page(q, n)[i].no > Page(q, n)[j].no
<1>1. /\ Page(q, n) \in Seq(AnyEntry) /\ Len(q) \in Nat
      /\ \A h \in DOMAIN Page(q, n) :
           Len(q) - h + 1 \in DOMAIN q /\ Page(q, n)[h] = q[Len(q) - h + 1]
  <2>1. q \in Seq(AnyEntry)
    BY DEF Found
  <2>2. Len(q) \in Nat
    BY <2>1
  <2> QED BY <2>1, <2>2, PageType
<1>2. i \in Nat /\ j \in Nat
  BY <1>1
<1>3. Len(q) - j + 1 < Len(q) - i + 1
  BY <1>1, <1>2
<1>4. q[Len(q) - j + 1].no < q[Len(q) - i + 1].no
  BY <1>1, <1>3 DEF Ordered
<1>5. \A h \in DOMAIN q : q[h].no \in Nat
  BY ElementOfSeq DEF Found, AnyEntry, Entry
<1> QED BY <1>1, <1>4, <1>5

\* A list is in order, since it holds the latest entries.
LEMMA ListOrder ==
  ASSUME TypeOK, Latest, NEW k \in Store PROVE Ordered(lists[k])
<1>1. lists[k] \in Seq(Entry(k)) /\ recorded[k] \in Nat
  BY DEF TypeOK
<1>2. \A i \in DOMAIN lists[k] : i \in Nat /\ lists[k][i].no = recorded[k] - Len(lists[k]) + i
  BY <1>1 DEF Latest
<1>3. Len(lists[k]) \in Nat
  BY <1>1
<1> QED BY <1>1, <1>2, <1>3 DEF Ordered

LEMMA ScannedNextScan ==
  ASSUME TypeOK, Latest, Scanned, NEW r \in Reader, Scan(r) PROVE Scanned'
<1> DEFINE a == reader[r]
           x == lists[a.store][a.next]
<1>1. /\ a \in Reading /\ a.store \in Store /\ a.found \in Found /\ a.next \in Nat \ {0}
      /\ lists[a.store] \in Found /\ recorded[a.store] \in Nat /\ a.pc = "scan"
      /\ a.next <= Len(lists[a.store])
  BY InFlight DEF Scan, TypeOK
<1>2. x \in AnyEntry /\ x.no = recorded[a.store] - Len(lists[a.store]) + a.next
  BY <1>1, ElementOfSeq DEF Found, Latest
<1>3. /\ Ordered(a.found)
      /\ \A i \in DOMAIN a.found : a.found[i].no < x.no
  BY <1>1, <1>2 DEF Scanned
<1> DEFINE f == IF x.service = a.service THEN Append(a.found, x) ELSE a.found
<1>4. /\ reader'[r].pc = "scan" /\ reader'[r].store = a.store /\ reader'[r].next = a.next + 1
      /\ reader'[r].found = f
  BY <1>1 DEF Scan, TypeOK, Reading
<1>5. \A i \in DOMAIN a.found : a.found[i].no \in Nat
  BY <1>1, ElementOfSeq DEF Found, AnyEntry, Entry
<1>6. x.no \in Nat
  BY <1>2 DEF AnyEntry, Entry
<1> HIDE DEF x, a
<1>7. Ordered(f) /\ \A i \in DOMAIN f : f[i].no <= x.no
  <2>1. CASE x.service = a.service
    <3>1. /\ \A i \in DOMAIN f : i \in 1 .. Len(a.found) + 1
          /\ \A i \in 1 .. Len(a.found) : f[i] = a.found[i] /\ i \in DOMAIN a.found
          /\ f[Len(a.found) + 1] = x /\ Len(a.found) \in Nat
      BY <1>1, <2>1 DEF Found
    <3> HIDE DEF f
    <3> QED BY <1>3, <1>5, <1>6, <3>1 DEF Ordered
  <2>2. CASE x.service # a.service
    BY <1>3, <1>5, <1>6, <2>2
  <2> QED BY <2>1, <2>2
<1>8. \A i \in DOMAIN f : f[i].no \in Nat
  <2>1. f \in Seq(AnyEntry)
    BY <1>1, <1>2 DEF Found
  <2> HIDE DEF f
  <2> QED BY <2>1, ElementOfSeq DEF AnyEntry, Entry
<1>9. x.no < recorded[a.store] - Len(lists[a.store]) + (a.next + 1)
  BY <1>1, <1>2 DEF Found
<1>10. recorded[a.store] - Len(lists[a.store]) + (a.next + 1) \in Int
  BY <1>1 DEF Found
<1> HIDE DEF f
<1>11. lists' = lists /\ recorded' = recorded /\ \A o \in Reader \ {r} : reader'[o] = reader[o]
  BY DEF Scan, TypeOK
<1> QED BY <1>4, <1>6, <1>7, <1>8, <1>9, <1>10, <1>11 DEF Scanned

\* Entries that a list gains or loses do not bring a scan back to what it has found.
LEMMA ScannedList ==
  ASSUME TypeOK, Scanned, NEW k \in Store, Appended(k) \/ Popped(k), reader' = reader
  PROVE  Scanned'
<1>1. /\ \A j \in Store : recorded[j] \in Nat /\ Len(lists[j]) \in Nat
      /\ \A j \in Store : recorded'[j] \in Nat /\ Len(lists'[j]) \in Nat
      /\ \A j \in Store \ {k} : recorded'[j] = recorded[j] /\ lists'[j] = lists[j]
  BY DEF TypeOK, Appended, Popped
<1>2. recorded'[k] - Len(lists'[k]) >= recorded[k] - Len(lists[k])
  <2>1. CASE Appended(k)
    <3>1. Len(lists'[k]) = Len(lists[k]) + 1 /\ recorded'[k] = recorded[k] + 1
      BY <2>1 DEF Appended, TypeOK
    <3> QED BY <1>1, <3>1
  <2>2. CASE Popped(k)
    <3>1. Len(lists'[k]) = Len(lists[k]) - 1 /\ recorded'[k] = recorded[k]
      BY <2>2, PopShortens DEF Popped
    <3> QED BY <1>1, <3>1
  <2> QED BY <2>1, <2>2
<1>3. ASSUME NEW r \in Reader, reader[r].pc = "scan", NEW i \in DOMAIN reader[r].found
      PROVE  reader[r].found[i].no
               < recorded'[reader[r].store] - Len(lists'[reader[r].store]) + reader[r].next
  <2>1. /\ reader[r].store \in Store /\ reader[r].next \in Nat
        /\ reader[r].found[i].no \in Nat
    BY <1>3, InFlight, ElementOfSeq DEF Found, AnyEntry, Entry
  <2>2. reader[r].found[i].no
          < recorded[reader[r].store] - Len(lists[reader[r].store]) + reader[r].next
    BY <1>3 DEF Scanned
  <2>3. recorded'[reader[r].store] - Len(lists'[reader[r].store])
          >= recorded[reader[r].store] - Len(lists[reader[r].store])
    <3>1. CASE reader[r].store = k
      BY <1>2, <3>1
    <3>2. CASE reader[r].store # k
      BY <1>1, <2>1, <3>2
    <3> QED BY <3>1, <3>2
  <2>4. /\ recorded[reader[r].store] - Len(lists[reader[r].store]) \in Int
        /\ recorded'[reader[r].store] - Len(lists'[reader[r].store]) \in Int
    BY <1>1, <2>1
  <2>5. \A a, b, m, n \in Int : b >= a /\ m < a + n => m < b + n
    OBVIOUS
  <2>6. reader[r].found[i].no \in Int /\ reader[r].next \in Int
    BY <2>1
  <2> QED BY <2>2, <2>3, <2>4, <2>5, <2>6
<1> QED BY <1>3 DEF Scanned

\* A reader that is given an answer or none has a page in order, and scans no more.
LEMMA ReaderPage ==
  ASSUME TypeOK, NewestFirst, Scanned, NEW r \in Reader, NEW new,
         reader' = [reader EXCEPT ![r] = new], UNCHANGED <<lists, recorded>>,
         \A i, j \in DOMAIN new.page : i < j => new.page[i].no > new.page[j].no,
         new.pc = "scan" => new.found = <<>>
  PROVE  NewestFirst' /\ Scanned'
<1>1. reader'[r] = new /\ \A o \in Reader \ {r} : reader'[o] = reader[o]
  BY DEF TypeOK
<1>2. NewestFirst'
  BY <1>1 DEF NewestFirst
<1>3. DOMAIN <<>> = {}
  OBVIOUS
<1>4. Scanned'
  BY <1>1, <1>3 DEF Scanned, Ordered
<1> QED BY <1>2, <1>4

LEMMA ScanKeepsPage ==
  ASSUME TypeOK, NewestFirst, NEW r \in Reader, Scan(r) PROVE NewestFirst'
<1>1. reader[r] \in Reading
  BY DEF TypeOK
<1>2. reader'[r].page = reader[r].page /\ \A o \in Reader \ {r} : reader'[o] = reader[o]
  BY <1>1 DEF Scan, TypeOK, Reading
<1> QED BY <1>2 DEF NewestFirst

LEMMA PagesNext == TypeOK /\ Latest /\ Scanned /\ NewestFirst /\ [Next]_vars => NewestFirst' /\ Scanned'
<1> SUFFICES ASSUME TypeOK, Latest, Scanned, NewestFirst, [Next]_vars PROVE NewestFirst' /\ Scanned'
  OBVIOUS
<1>1. CASE UNCHANGED vars
  BY <1>1 DEF vars, NewestFirst, Scanned, Ordered
<1>2. ASSUME NEW s \in Sniffer, Test(s) \/ Pop(s) \/ \E p \in Packet : Record(s, p)
      PROVE  NewestFirst' /\ Scanned'
  <2>1. reader' = reader
    BY <1>2 DEF Test, Pop, Record
  <2>2. CASE UNCHANGED <<lists, recorded>>
    BY <2>1, <2>2 DEF NewestFirst, Scanned, Ordered
  <2>3. ASSUME NEW k \in Store, Appended(k) \/ Popped(k) PROVE NewestFirst' /\ Scanned'
    BY <2>1, <2>3, ScannedList DEF NewestFirst
  <2> QED BY <2>2, <2>3, ListSteps
<1>3. ASSUME NEW r \in Reader, Request(r) PROVE NewestFirst' /\ Scanned'
  <2>1. ASSUME NEW k \in Store, NEW c, NEW n \in PageLimit, Ask(r, k, c, n)
        PROVE  NewestFirst' /\ Scanned'
    <3> DEFINE new == [NoAnswer EXCEPT !.pc = IF c = None THEN "slice" ELSE "scan",
                                       !.store = k, !.service = c, !.limit = n]
    <3>1. new.page = <<>> /\ new.found = <<>>
      BY DEF NoAnswer
    <3>2. reader' = [reader EXCEPT ![r] = new] /\ UNCHANGED <<lists, recorded>>
      BY <2>1 DEF Ask
    <3> HIDE DEF new
    <3>3. \A i, j \in DOMAIN new.page : i < j => new.page[i].no > new.page[j].no
      BY <3>1
    <3> QED BY <3>1, <3>2, <3>3, ReaderPage
  <2>2. ASSUME NEW k \in Store, NEW q \in Found, Ordered(q), NEW n \in Int,
               reader' = [reader EXCEPT ![r] =
                 [NoAnswer EXCEPT !.pc = "answer", !.store = k, !.page = Page(q, n)]],
               UNCHANGED <<lists, recorded>>
        PROVE  NewestFirst' /\ Scanned'
    <3> DEFINE new == [NoAnswer EXCEPT !.pc = "answer", !.store = k, !.page = Page(q, n)]
    <3>1. new.pc = "answer" /\ new.page = Page(q, n)
      BY DEF NoAnswer
    <3>2. reader' = [reader EXCEPT ![r] = new]
      BY <2>2
    <3> HIDE DEF new
    <3>3. \A i, j \in DOMAIN new.page : i < j => new.page[i].no > new.page[j].no
      BY <2>2, <3>1, PageOrder
    <3> QED BY <2>2, <3>1, <3>2, <3>3, ReaderPage
  <2>3. CASE Slice(r)
    <3>1. /\ reader[r].store \in Store /\ reader[r].limit \in Int
          /\ lists[reader[r].store] \in Found /\ Ordered(lists[reader[r].store])
      BY <2>3, InFlight, ListOrder DEF Slice
    <3>2. /\ UNCHANGED <<lists, recorded>>
          /\ reader' = [reader EXCEPT ![r] =
               [NoAnswer EXCEPT !.pc = "answer", !.store = reader[r].store,
                                !.page = Page(lists[reader[r].store], reader[r].limit)]]
      BY <2>3 DEF Slice
    <3> QED BY <2>2, <3>1, <3>2
  <2>4. CASE Scan(r)
    BY <2>4, ScannedNextScan, ScanKeepsPage
  <2>5. CASE ScanEnd(r)
    <3>1. /\ reader[r].store \in Store /\ reader[r].limit \in Int
          /\ reader[r].found \in Found /\ Ordered(reader[r].found)
      BY <2>5, InFlight DEF ScanEnd, Scanned
    <3>2. /\ UNCHANGED <<lists, recorded>>
          /\ reader' = [reader EXCEPT ![r] =
               [NoAnswer EXCEPT !.pc = "answer", !.store = reader[r].store,
                                !.page = Page(reader[r].found, reader[r].limit)]]
      BY <2>5 DEF ScanEnd
    <3> QED BY <2>2, <3>1, <3>2
  <2>6. CASE Answer(r)
    <3>1. \A i, j \in DOMAIN NoAnswer.page : i < j => NoAnswer.page[i].no > NoAnswer.page[j].no
      BY NoAnswerFacts
    <3> QED BY <2>6, <3>1, NoAnswerFacts, ReaderPage DEF Answer
  <2>7. "services" \in Store
    BY DEF Store
  <2> QED BY <1>3, <2>1, <2>3, <2>4, <2>5, <2>6, <2>7 DEF Request
<1> QED BY <1>1, <1>2, <1>3 DEF Next

LEMMA InitPages == Init => NewestFirst /\ Scanned
<1> SUFFICES ASSUME Init, NEW r \in Reader PROVE reader[r].page = <<>> /\ reader[r].pc # "scan"
  BY DEF NewestFirst, Scanned
<1> QED BY NoAnswerFacts DEF Init

\* Every page is newest first and free of repetitions, whatever happens to the list while
\* the request reads it.
THEOREM NewestFirstCorrect == Spec => []NewestFirst
  BY InitPages, PagesNext, TypeCorrect, LatestCorrect, PTL DEF Spec

=============================================================================
