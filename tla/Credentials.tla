------------------------------ MODULE Credentials ------------------------------
(***************************************************************************)
(* The two lists of app/routers/credentials.py: services looked up by name  *)
(* and credentials posted in plain HTTP.  The threads that sniff append to  *)
(* them and trim them, requests read them, and no lock guards them.         *)
(*                                                                         *)
(* Under the GIL of Python 3.11 a thread switch falls on a call: len, pop   *)
(* and append are one step each.                                            *)
(***************************************************************************)
EXTENDS PacketEvent, Integers, Sequences, FiniteSets

CONSTANTS Sniffer, Reader,
          Packet,           \* packets on the wire, with the HTTP request they carry
          Name, Service,
          ServiceOf,        \* detect_service
          CredentialField,  \* form fields whose names look like credentials
          Limit,            \* 500
          PageLimit,        \* the limits that requests ask for
          MaxRecorded       \* bound: entries ever recorded in a list

Store == {"services", "credentials"}

ASSUME StoreAssumption ==
  /\ IsFiniteSet(Sniffer) /\ Limit \in Nat \ {0} /\ PageLimit \subseteq Int /\ MaxRecorded \in Nat
  /\ None \notin Service \cup Name \cup Store /\ ServiceOf \in [Name -> Service \cup {None}]
  /\ \A p \in Packet : p.query \in Name \cup {None}

VARIABLES lists,     \* DETECTED_SERVICES and HTTP_CREDENTIALS
          recorded,  \* entries ever appended to each (ghost)
          sniffer,   \* per thread, where it is in record_..., and in which list
          reader     \* per request, what it has asked for and found

vars == <<lists, recorded, sniffer, reader>>

Resting == [pc |-> "idle", store |-> None]
NoAnswer == [pc |-> "idle", store |-> None, service |-> None, limit |-> 0,
             next |-> 1, found |-> <<>>, page |-> <<>>]

\* The payload is a request of HTTP that posts a form with a field of that kind; method is
\* None for any other payload, and fields is empty without a body.
PostsCredentials(p) == p.method = "POST" /\ p.fields \cap CredentialField # {}

\* A name is looked at in the reply; a request with a form only on port 80.
\* Mutant: any name is recorded
KeptInAny(p) ==
  LET e == EventOf(p) IN
  IF e = None THEN None
  ELSE IF e.proto = "DNS" /\ e.query # None THEN "services"
  ELSE IF e.proto = "TCP" /\ e.dport = 80 /\ PostsCredentials(p) THEN "credentials"
  ELSE None
KeptIn(p) ==
  LET e == EventOf(p) IN
  IF e = None THEN None
  ELSE IF e.proto = "DNS" /\ e.query # None /\ ServiceOf[e.query] # None THEN "services"
  ELSE IF e.proto = "TCP" /\ e.dport = 80 /\ PostsCredentials(p) THEN "credentials"
  ELSE None

\* An entry is its number and the service, which only a list of services has.
EntryOf(p, k) == [no |-> recorded[k] + 1,
                  service |-> IF k = "services" THEN ServiceOf[p.query] ELSE None]

-----------------------------------------------------------------------------
(* record_service_access and record_http_credentials                       *)

Record(s, p) ==
  LET k == KeptIn(p) IN
  /\ sniffer[s].pc = "idle" /\ k # None
  /\ recorded[k] < MaxRecorded
  /\ lists' = [lists EXCEPT ![k] = Append(@, EntryOf(p, k))]
  /\ recorded' = [recorded EXCEPT ![k] = @ + 1]
  /\ sniffer' = [sniffer EXCEPT ![s] = [pc |-> "test", store |-> k]]
  /\ UNCHANGED reader

\* Mutant: one more than the limit is left
TestLate(s) ==
  /\ sniffer[s].pc = "test"
  /\ sniffer' = [sniffer EXCEPT ![s] = IF Len(lists[@.store]) > Limit + 1
                                       THEN [pc |-> "pop", store |-> @.store] ELSE Resting]
  /\ UNCHANGED <<lists, recorded, reader>>
\* Mutant: >= instead of >
TestEarly(s) ==
  /\ sniffer[s].pc = "test"
  /\ sniffer' = [sniffer EXCEPT ![s] = IF Len(lists[@.store]) >= Limit
                                       THEN [pc |-> "pop", store |-> @.store] ELSE Resting]
  /\ UNCHANGED <<lists, recorded, reader>>
\* while len(...) > 500
Test(s) ==
  /\ sniffer[s].pc = "test"
  /\ sniffer' = [sniffer EXCEPT ![s] = IF Len(lists[@.store]) > Limit
                                       THEN [pc |-> "pop", store |-> @.store] ELSE Resting]
  /\ UNCHANGED <<lists, recorded, reader>>

\* Mutant: pop() takes the newest
PopNewest(s) ==
  LET k == sniffer[s].store IN
  /\ sniffer[s].pc = "pop"
  /\ lists[k] # <<>>
  /\ lists' = [lists EXCEPT ![k] = SubSeq(@, 1, Len(@) - 1)]
  /\ sniffer' = [sniffer EXCEPT ![s] = [pc |-> "test", store |-> k]]
  /\ UNCHANGED <<recorded, reader>>
\* pop(0) of an empty list raises; _handle_packet catches it.
Pop(s) ==
  LET k == sniffer[s].store IN
  /\ sniffer[s].pc = "pop"
  /\ IF lists[k] = <<>>
     THEN sniffer' = [sniffer EXCEPT ![s] = Resting] /\ UNCHANGED lists
     ELSE /\ lists' = [lists EXCEPT ![k] = Tail(@)]
          /\ sniffer' = [sniffer EXCEPT ![s] = [pc |-> "test", store |-> k]]
  /\ UNCHANGED <<recorded, reader>>

-----------------------------------------------------------------------------
(* get_detections and get_http_credentials                                 *)

\* q[-n:][::-1] for any integer n: n = 0 takes all of q, a negative n skips entries.
\* Mutant: not reversed
PageForward(q, n) ==
  SubSeq(q, IF n <= 0 THEN 1 - n ELSE IF n < Len(q) THEN Len(q) - n + 1 ELSE 1, Len(q))
Page(q, n) ==
  LET first == IF n <= 0 THEN 1 - n ELSE IF n < Len(q) THEN Len(q) - n + 1 ELSE 1
  IN  [i \in 1 .. Len(q) - first + 1 |-> q[Len(q) - i + 1]]

\* Only services can be asked for by name; then the list is scanned.
Ask(r, k, service, n) ==
  /\ reader[r].pc = "idle"
  /\ reader' = [reader EXCEPT ![r] = [NoAnswer EXCEPT
       !.pc = IF service = None THEN "slice" ELSE "scan",
       !.store = k, !.service = service, !.limit = n]]
  /\ UNCHANGED <<lists, recorded, sniffer>>

Slice(r) ==
  /\ reader[r].pc = "slice"
  /\ LET a == reader[r] IN
     reader' = [reader EXCEPT ![r] =
       [NoAnswer EXCEPT !.pc = "answer", !.store = a.store, !.page = Page(lists[a.store], a.limit)]]
  /\ UNCHANGED <<lists, recorded, sniffer>>

\* The iterator has an index, not a place in the list.
Scan(r) ==
  LET a == reader[r]
      x == lists[a.store][a.next]
  IN
  /\ a.pc = "scan"
  /\ a.next <= Len(lists[a.store])
  /\ reader' = [reader EXCEPT ![r] = [a EXCEPT !.next = a.next + 1,
       !.found = IF x.service = a.service THEN Append(a.found, x) ELSE a.found]]
  /\ UNCHANGED <<lists, recorded, sniffer>>

ScanEnd(r) ==
  /\ LET a == reader[r] IN
     /\ a.pc = "scan"
     /\ a.next > Len(lists[a.store])
     /\ reader' = [reader EXCEPT ![r] =
          [NoAnswer EXCEPT !.pc = "answer", !.store = a.store, !.page = Page(a.found, a.limit)]]
  /\ UNCHANGED <<lists, recorded, sniffer>>

Answer(r) ==
  /\ reader[r].pc = "answer"
  /\ reader' = [reader EXCEPT ![r] = NoAnswer]
  /\ UNCHANGED <<lists, recorded, sniffer>>

-----------------------------------------------------------------------------
Init ==
  /\ lists = [k \in Store |-> <<>>] /\ recorded = [k \in Store |-> 0]
  /\ sniffer = [s \in Sniffer |-> Resting]
  /\ reader = [r \in Reader |-> NoAnswer]

Request(r) ==
  \/ \E k \in Store, n \in PageLimit : Ask(r, k, None, n)
  \/ \E c \in Service, n \in PageLimit : Ask(r, "services", c, n)
  \/ Slice(r) \/ Scan(r) \/ ScanEnd(r) \/ Answer(r)

Next == \/ \E s \in Sniffer : Test(s) \/ Pop(s) \/ \E p \in Packet : Record(s, p)
        \/ \E r \in Reader : Request(r)

Spec == Init /\ [][Next]_vars

-----------------------------------------------------------------------------
(* Properties                                                              *)

Entry(k) == [no : Nat, service : IF k = "services" THEN Service ELSE {None}]
AnyEntry == Entry("services") \cup Entry("credentials")
Found == Seq(AnyEntry)
Reading == [pc : {"idle", "slice", "scan", "answer"}, store : Store \cup {None},
            service : Service \cup {None}, limit : Int, next : Nat \ {0},
            found : Found, page : Found]

\* Entries carry what their list is about, threads are in a list they may trim, and
\* readers are in a list while they read.
TypeOK ==
  /\ DOMAIN lists = Store /\ \A k \in Store : lists[k] \in Seq(Entry(k))
  /\ recorded \in [Store -> Nat]
  /\ sniffer \in [Sniffer -> {Resting} \cup [pc : {"test", "pop"}, store : Store]]
  /\ reader \in [Reader -> Reading]
  /\ \A r \in Reader : reader[r].pc # "idle" => reader[r].store \in Store

Trimming(k) == {s \in Sniffer : sniffer[s].store = k}

\* Two threads that trim a list never lose track of each other's entries: it exceeds the
\* limit by no more than the threads that are still at it (credentials.py:74-75, 98-99).
Bounded == \A k \in Store : Len(lists[k]) <= Limit + Cardinality(Trimming(k))

\* The test and the pop are two steps, so threads may trim too much; yet a list that has
\* dropped entries keeps the limit less one for each other thread (credentials.py:74-75).
KeepsLimit ==
  \A k \in Store : recorded[k] > Len(lists[k]) => Len(lists[k]) + Cardinality(Sniffer) > Limit

\* What a list holds are the latest entries, none missing, in the order they came,
\* however many threads append and trim (credentials.py:66-75, 86-99).
Latest ==
  \A k \in Store : \A i \in DOMAIN lists[k] :
    lists[k][i].no = recorded[k] - Len(lists[k]) + i

\* A page is newest first and repeats no entry, also when the list it is read from, by
\* slice or by scan, moves below the reader (credentials.py:172-175, 183-186).
NewestFirst ==
  \A r \in Reader : \A i, j \in DOMAIN reader[r].page :
    i < j => reader[r].page[i].no > reader[r].page[j].no
=============================================================================
