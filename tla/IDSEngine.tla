------------------------------ MODULE IDSEngine ------------------------------
(***************************************************************************)
(* The intrusion detection engine (app/services/ids_engine.py): sliding     *)
(* windows fed by packet events, and the alerts they raise.                 *)
(*                                                                         *)
(* process_event is one action, called by one thread at a time.  It visits  *)
(* the detectors in the order of the code; storing an alert may fail, and   *)
(* the exception leaves the rest of the call undone.  A window entry keeps  *)
(* its age instead of its timestamp; the clock does not run backwards.      *)
(***************************************************************************)
EXTENDS PacketEvent, Integers, Sequences, FiniteSets

CONSTANTS Event,            \* the events the sniffer may hand over
          Window,           \* seconds a windowed detector looks back
          Threshold,        \* when it raises
          SuspiciousPorts, BruteForcePorts, Private,
          AgeCap,           \* bound: an entry is not aged beyond this
          DbFails           \* may storing an alert raise

\* The windowed detectors, named after their alerts, and those without a window
Windowed == {"port_scan", "network_scan", "syn_flood", "fin_scan", "null_scan", "xmas_scan",
             "brute_force", "repeated_failed_connection", "udp_flood", "icmp_flood",
             "bandwidth_abuse", "data_exfiltration"}
Order == <<"port_scan", "network_scan", "syn_flood", "fin_scan", "null_scan", "xmas_scan",
           "brute_force", "suspicious_connection", "repeated_failed_connection", "udp_flood",
           "icmp_flood", "ping_flood", "arp_spoofing", "dns_spoofing", "bandwidth_abuse",
           "data_exfiltration">>
Detector == {Order[i] : i \in DOMAIN Order}
Rank == [d \in Detector |-> CHOOSE i \in DOMAIN Order : Order[i] = d]

ASSUME WindowAssumption ==
  /\ Window \in [Windowed -> Nat]
  /\ AgeCap \in Nat /\ \A d \in Windowed : Window[d] < AgeCap
ASSUME ThresholdAssumption == Threshold \in [Windowed \cup {"ping_flood"} -> Nat \ {0}]
\* size is the length of the packet (packet_capture.py:45).
ASSUME EventAssumption == \A e \in Event : e.size \in Nat

VARIABLES windows,  \* per detector and key, the deque of entries
          macs,     \* arp_table: the <<ip, mac>> seen
          answers   \* dns_answers: the <<domain, ip>> seen

engine == <<windows, macs, answers>>

Tcp(e) == e.proto = "TCP"

\* The condition of a windowed detector's block, the key and the value it adds
Applies(d, e) ==
  CASE d = "port_scan" -> e.src # None /\ e.dport # None
    [] d = "network_scan" -> e.src # None /\ e.dst # None
    [] d = "syn_flood" -> Tcp(e) /\ e.flags = {"SYN"}
    [] d = "fin_scan" -> Tcp(e) /\ e.flags = {"FIN"}
    [] d = "null_scan" -> Tcp(e) /\ e.flags = {}
    [] d = "xmas_scan" -> Tcp(e) /\ e.flags = {"FIN", "PSH", "URG"}
    [] d = "brute_force" -> Tcp(e) /\ e.dport \in BruteForcePorts /\ "SYN" \in e.flags
    [] d = "repeated_failed_connection" -> Tcp(e) /\ e.failed
    [] d = "udp_flood" -> e.proto = "UDP"
    [] d = "icmp_flood" -> e.proto = "ICMP"
    [] d = "bandwidth_abuse" -> e.src # None /\ e.size > 0
    [] d = "data_exfiltration" ->
         /\ e.src # None /\ e.dst # None /\ e.size > 0
         /\ e.src \in Private /\ e.dst \notin Private

KeyOf(d, e) ==
  CASE d \in {"syn_flood", "udp_flood", "icmp_flood"} -> <<e.dst, None>>
    [] d = "brute_force" -> <<e.src, e.dport>>
    [] d = "data_exfiltration" -> <<e.src, e.dst>>
    [] OTHER -> <<e.src, None>>

ValueOf(d, e) ==
  CASE d = "port_scan" -> e.dport
    [] d = "network_scan" -> e.dst
    [] d \in {"bandwidth_abuse", "data_exfiltration"} -> e.size
    [] OTHER -> 1

SlotOf(d, e) == <<d, KeyOf(d, e)>>
Slot == {SlotOf(p[1], p[2]) : p \in {q \in Windowed \X Event : Applies(q[1], q[2])}}

-----------------------------------------------------------------------------
(* Windows                                                                 *)

Values(q) == [i \in DOMAIN q |-> q[i].value]

\* Mutant: drops one entry instead of every stale one
PruneOne(q, w) == IF q # <<>> /\ q[1].age > w THEN Tail(q) ELSE q
\* Entries leave from the left, up to the first that is young enough.
Prune(q, w) ==
  LET young == {i \in DOMAIN q : q[i].age <= w} IN
  IF young = {} THEN <<>>
  ELSE SubSeq(q, CHOOSE i \in young : \A j \in young : i <= j, Len(q))

Total(v) == LET upTo[n \in 0 .. Len(v)] == IF n = 0 THEN 0 ELSE upTo[n - 1] + v[n]
            IN  upTo[Len(v)]

Measure(d, q) ==
  CASE d \in {"port_scan", "network_scan"} -> Cardinality({q[i].value : i \in DOMAIN q})
    [] d \in {"bandwidth_abuse", "data_exfiltration"} -> Total(Values(q))
    [] OTHER -> Len(q)

Trips(d, q) == Measure(d, q) >= Threshold[d]

\* Mutant: the source port is added
FedSport(d, e) == Prune(Append(windows[SlotOf(d, e)], [age |-> 0, value |-> e.sport]),
                        Window[d])
\* The window after add and prune
Fed(d, e) == Prune(Append(windows[SlotOf(d, e)], [age |-> 0, value |-> ValueOf(d, e)]),
                   Window[d])

-----------------------------------------------------------------------------
(* One event                                                               *)

Detects(d, e) ==
  CASE d \in Windowed -> Applies(d, e) /\ Trips(d, Fed(d, e))
    [] d = "ping_flood" -> e.proto = "ICMP" /\ Len(Fed("icmp_flood", e)) >= Threshold[d]
    [] d = "suspicious_connection" -> Tcp(e) /\ {e.sport, e.dport} \cap SuspiciousPorts # {}
    [] d = "arp_spoofing" ->
         /\ e.proto = "ARP" /\ e.src # None /\ e.mac # None
         /\ \E m \in macs : m[1] = e.src /\ m[2] # e.mac
    [] d = "dns_spoofing" ->
         /\ e.proto = "DNS" /\ e.query # None /\ e.answer # None
         /\ \E a \in answers : a[1] = e.query /\ a[2] # e.answer

Detected(e) == {d \in Detector : Detects(d, e)}

\* broken is the alert whose _raise raises, None if all return.  Reached: the block
\* of d has run up to its alert; Done: to its end.
Reached(d, broken) == broken = None \/ Rank[d] <= Rank[broken]
Done(d, broken) == broken = None \/ Rank[d] < Rank[broken]

Outcome(e) == {None} \cup (IF DbFails THEN Detected(e) ELSE {})

\* Mutant: the window is cleared before the alert is stored
FeedClearsFirst(e, broken) ==
  windows' = [s \in Slot |->
    IF ~(Applies(s[1], e) /\ s = SlotOf(s[1], e) /\ Reached(s[1], broken)) THEN windows[s]
    ELSE IF Detects(s[1], e) THEN <<>>
    ELSE Fed(s[1], e)]

\* Mutant: the window is not cleared
FeedKeeps(e, broken) ==
  windows' = [s \in Slot |->
    IF Applies(s[1], e) /\ s = SlotOf(s[1], e) /\ Reached(s[1], broken) THEN Fed(s[1], e)
    ELSE windows[s]]

\* A window is cleared when its alert is stored.
Feed(e, broken) ==
  windows' = [s \in Slot |->
    IF ~(Applies(s[1], e) /\ s = SlotOf(s[1], e) /\ Reached(s[1], broken)) THEN windows[s]
    ELSE IF Detects(s[1], e) /\ Done(s[1], broken) THEN <<>>
    ELSE Fed(s[1], e)]

ProcessEvent(e, broken) ==
  /\ Feed(e, broken)
  /\ macs' = macs \cup
       (IF /\ e.proto = "ARP" /\ e.src # None /\ e.mac # None
           /\ Reached("arp_spoofing", broken)
        THEN {<<e.src, e.mac>>} ELSE {})
  /\ answers' = answers \cup
       (IF /\ e.proto = "DNS" /\ e.query # None /\ e.answer # None
           /\ Reached("dns_spoofing", broken)
        THEN {<<e.query, e.answer>>} ELSE {})

Older(q) == [i \in DOMAIN q |->
               [q[i] EXCEPT !.age = IF @ < AgeCap THEN @ + 1 ELSE AgeCap]]

Tick ==
  /\ windows' = [s \in Slot |-> Older(windows[s])]
  /\ UNCHANGED <<macs, answers>>

Init == windows = [s \in Slot |-> <<>>] /\ macs = {} /\ answers = {}

Next == Tick \/ \E e \in Event : \E broken \in Outcome(e) : ProcessEvent(e, broken)

Spec == Init /\ [][Next]_engine

-----------------------------------------------------------------------------
(* Properties                                                              *)

ValuesOf == [d \in Windowed |-> {ValueOf(d, e) : e \in Event}]
Entry(d) == [age : 0 .. AgeCap, value : ValuesOf[d]]

\* A window holds values its detector has taken from events, with ages within the
\* bound; the spoofing tables hold what events have shown.
TypeOK ==
  /\ DOMAIN windows = Slot
  /\ \A s \in Slot : windows[s] \in Seq(Entry(s[1]))
  /\ macs \subseteq {<<e.src, e.mac>> : e \in Event}
  /\ answers \subseteq {<<e.query, e.answer>> : e \in Event}

\* Prune looks at the head of a deque alone, yet what a detector counts is never older
\* than its window (_Window.prune, ids_engine.py:77-80).
CountsRecent ==
  \A e \in Event, d \in Windowed : Applies(d, e) =>
    LET q == Fed(d, e) IN \A i \in DOMAIN q : q[i].age <= Window[d]
=============================================================================
