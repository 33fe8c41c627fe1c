--------------------------- MODULE CaptureSession ---------------------------
(***************************************************************************)
(* The packet capture singleton (app/services/packet_capture.py): the       *)
(* routes of app/routers/network_monitor.py that start and stop it, run by  *)
(* callers in the request pool, and the daemon threads in which scapy's     *)
(* sniff loop hands packets to _handle_packet.                              *)
(*                                                                         *)
(* No lock guards the singleton.  A step is a read or a write of one of its *)
(* fields, or a commit.  Under the GIL of Python 3.11 a thread switch falls *)
(* on a call, so that packets_captured += 1 is one step, while              *)
(* alerts_raised += len(alerts) has loaded the counter when it calls len.   *)
(***************************************************************************)
EXTENDS Integers, FiniteSets

CONSTANTS Caller,      \* threads that serve start and stop
          Sniffer,     \* bound: threads that sniff at a time
          Interface,
          None,
          MaxPackets,  \* bound: packet rows ever stored
          MaxAlerts,   \* bound: alert rows ever stored
          SniffFails,  \* may sniff raise, or the start of its thread
          DbFails      \* may a commit raise

ASSUME CaptureAssumption ==
  /\ None \notin Interface
  /\ IsFiniteSet(Sniffer) /\ MaxPackets \in Nat /\ MaxAlerts \in Nat
  /\ SniffFails \in BOOLEAN /\ DbFails \in BOOLEAN

VARIABLES isRunning, interface,
          stopEvent,         \* _stop_event.is_set()
          packetsCaptured, alertsRaised,
          packets, cleared,  \* rows of the packets table, and rows deleted from it (ghost)
          alerts,            \* alert rows stored
          caller,            \* per caller, where it is in start() or stop()
          sniffer,           \* per thread, where it is in its loop
          calm               \* the last start() or stop() had no other beside it, and did
                             \* not raise for want of a thread (ghost)

fields == <<isRunning, interface, stopEvent>>
counters == <<packetsCaptured, alertsRaised>>
tables == <<packets, cleared, alerts>>
vars == <<fields, counters, tables, caller, sniffer, calm>>

\* read is the counter loaded, found the alerts to add to it; late (a ghost) counts
\* the packets taken up since the stop event was set.
NoCall == [pc |-> "idle", iface |-> None, alone |-> FALSE]
NoThread == [pc |-> "none", iface |-> None, found |-> 0, read |-> 0, late |-> 0]

Alive == {s \in Sniffer : sniffer[s].pc \notin {"none", "failed"}}
Free == Sniffer \ Alive
\* In start() or stop(), and not yet at the audit row
Busy == {c \in Caller : caller[c].pc \in {"start_iface", "start_clear", "start_thread",
                                         "start_mark", "stop_mark"}}
CallerAt(c, pc) == caller[c].pc = pc
Call(c, pc) == caller' = [caller EXCEPT ![c].pc = pc]
SnifferAt(s, pc) == sniffer[s].pc = pc
Sniff(s, pc) == sniffer' = [sniffer EXCEPT ![s].pc = pc]

-----------------------------------------------------------------------------
(* start() and stop(), with the audit row the route writes after them       *)

\* alone: no other caller has been in start() or stop() since this one came in (ghost)
Enter(c, pc, i) ==
  caller' = [x \in Caller |->
    IF x = c THEN [pc |-> pc, iface |-> i, alone |-> Busy = {}]
    ELSE [caller[x] EXCEPT !.alone = @ /\ x \notin Busy]]

\* Back in the route; what the call knew is forgotten.
Return(c) ==
  caller' = [caller EXCEPT ![c] = [pc |-> "audit", iface |-> None, alone |-> FALSE]]

StartCheck(c, i) ==
  /\ CallerAt(c, "idle") /\ ~isRunning
  /\ Enter(c, "start_iface", i)
  /\ UNCHANGED <<fields, counters, tables, sniffer, calm>>

StartInterface(c) ==
  /\ CallerAt(c, "start_iface")
  /\ interface' = caller[c].iface
  /\ Call(c, "start_clear")
  /\ UNCHANGED <<isRunning, stopEvent, counters, tables, sniffer, calm>>

StartClear(c) ==
  /\ CallerAt(c, "start_clear")
  /\ stopEvent' = FALSE
  /\ sniffer' = [s \in Sniffer |-> [sniffer[s] EXCEPT !.late = 0]]
  /\ Call(c, "start_thread")
  /\ UNCHANGED <<isRunning, interface, counters, tables, calm>>

\* Which of the free names the new thread gets makes no difference.
StartThread(c, s) ==
  /\ CallerAt(c, "start_thread") /\ s \in Free /\ s = CHOOSE x \in Free : TRUE
  /\ sniffer' = [sniffer EXCEPT ![s] = [pc |-> "open", iface |-> caller[c].iface,
                                        found |-> 0, read |-> 0, late |-> 0]]
  /\ Call(c, "start_mark")
  /\ UNCHANGED <<fields, counters, tables, calm>>

\* The system has no thread to give: the event is cleared, nothing runs, and the route
\* answers 409 without an audit row.
StartThreadFails(c) ==
  /\ CallerAt(c, "start_thread") /\ SniffFails
  /\ caller' = [caller EXCEPT ![c] = NoCall]
  /\ calm' = FALSE
  /\ UNCHANGED <<fields, counters, tables, sniffer>>

StartMark(c) ==
  /\ CallerAt(c, "start_mark")
  /\ isRunning' = TRUE
  /\ Return(c)
  /\ calm' = caller[c].alone
  /\ UNCHANGED <<interface, stopEvent, counters, tables, sniffer>>

\* Mutant: the event is not set
StopSetForgets(c) ==
  /\ CallerAt(c, "idle")
  /\ Enter(c, "stop_mark", None)
  /\ UNCHANGED <<fields, counters, tables, sniffer, calm>>

StopSet(c) ==
  /\ CallerAt(c, "idle")
  /\ stopEvent' = TRUE
  /\ Enter(c, "stop_mark", None)
  /\ UNCHANGED <<isRunning, interface, counters, tables, sniffer, calm>>

StopMark(c) ==
  /\ CallerAt(c, "stop_mark")
  /\ isRunning' = FALSE
  /\ Return(c)
  /\ calm' = caller[c].alone
  /\ UNCHANGED <<interface, stopEvent, counters, tables, sniffer>>

ClearPackets(c) ==
  /\ CallerAt(c, "idle")
  /\ packets' = 0 /\ cleared' = cleared + packets
  /\ Return(c)
  /\ UNCHANGED <<fields, counters, alerts, sniffer, calm>>

\* log_action stores an audit row, which nothing here reads, or raises: the request
\* ends, and what it has done stays done.
Audit(c) ==
  /\ CallerAt(c, "audit")
  /\ caller' = [caller EXCEPT ![c] = NoCall]
  /\ UNCHANGED <<fields, counters, tables, sniffer, calm>>

-----------------------------------------------------------------------------
(* The sniff loop                                                           *)

\* sniff opens the interface, or raises, which ends the thread.
Open(s) ==
  /\ SnifferAt(s, "open")
  /\ \/ Sniff(s, "wait")
     \/ SniffFails /\ Sniff(s, "failed")
  /\ UNCHANGED <<fields, counters, tables, caller, calm>>

\* A packet comes in: of a protocol with an event, or of another, or one for which
\* packet_to_event or SessionLocal raises, outside the try, which ends the loop.  late
\* stops at 2, one past what a stopped thread may handle.
Arrive(s) ==
  /\ SnifferAt(s, "wait")
  /\ \E pc \in {"store", "filter", "failed"} :
       /\ pc = "store" => packets + cleared < MaxPackets
       /\ pc = "failed" => SniffFails
       /\ sniffer' = [sniffer EXCEPT ![s].pc = pc,
                                     ![s].late = IF stopEvent /\ @ < 2 THEN @ + 1 ELSE @]
  /\ UNCHANGED <<fields, counters, tables, caller, calm>>

Store(s) ==
  /\ SnifferAt(s, "store")
  /\ \/ packets' = packets + 1 /\ Sniff(s, "count")
     \/ DbFails /\ packets' = packets /\ Sniff(s, "filter")
  /\ UNCHANGED <<fields, counters, cleared, alerts, caller, calm>>

\* Mutant: the counter is set from the table
CountFromTable(s) ==
  /\ SnifferAt(s, "count")
  /\ packetsCaptured' = packets
  /\ Sniff(s, "detect")
  /\ UNCHANGED <<fields, alertsRaised, tables, caller, calm>>

Count(s) ==
  /\ SnifferAt(s, "count")
  /\ packetsCaptured' = packetsCaptured + 1
  /\ Sniff(s, "detect")
  /\ UNCHANGED <<fields, alertsRaised, tables, caller, calm>>

\* process_event stores its alerts one by one and returns them, or raises after some.
Detect(s) ==
  /\ SnifferAt(s, "detect")
  /\ \E n \in 0 .. MaxAlerts - alerts :
       /\ alerts' = alerts + n
       /\ \/ sniffer' = [sniffer EXCEPT ![s].pc = "load", ![s].found = n]
          \/ Sniff(s, "filter")
  /\ UNCHANGED <<fields, counters, packets, cleared, caller, calm>>

LoadRaised(s) ==
  /\ SnifferAt(s, "load")
  /\ sniffer' = [sniffer EXCEPT ![s].pc = "add", ![s].read = alertsRaised]
  /\ UNCHANGED <<fields, counters, tables, caller, calm>>

\* Mutant: one for the packet instead of one for each alert
AddRaisedOne(s) ==
  /\ SnifferAt(s, "add")
  /\ alertsRaised' = sniffer[s].read + 1
  /\ sniffer' = [sniffer EXCEPT ![s].pc = "filter", ![s].read = 0, ![s].found = 0]
  /\ UNCHANGED <<fields, packetsCaptured, tables, caller, calm>>

AddRaised(s) ==
  /\ SnifferAt(s, "add")
  /\ alertsRaised' = sniffer[s].read + sniffer[s].found
  /\ sniffer' = [sniffer EXCEPT ![s].pc = "filter", ![s].read = 0, ![s].found = 0]
  /\ UNCHANGED <<fields, packetsCaptured, tables, caller, calm>>

\* Mutant: the loop does not look at the event
FilterNever(s) ==
  /\ SnifferAt(s, "filter")
  /\ Sniff(s, "wait")
  /\ UNCHANGED <<fields, counters, tables, caller, calm>>

\* stop_filter, called after each packet
Filter(s) ==
  /\ SnifferAt(s, "filter")
  /\ IF stopEvent THEN sniffer' = [sniffer EXCEPT ![s] = NoThread] ELSE Sniff(s, "wait")
  /\ UNCHANGED <<fields, counters, tables, caller, calm>>

-----------------------------------------------------------------------------
Init ==
  /\ isRunning = FALSE /\ interface = None /\ stopEvent = FALSE
  /\ packetsCaptured = 0 /\ alertsRaised = 0
  /\ packets = 0 /\ cleared = 0 /\ alerts = 0
  /\ caller = [c \in Caller |-> NoCall]
  /\ sniffer = [s \in Sniffer |-> NoThread]
  /\ calm = TRUE

Route(c) ==
  \/ StartInterface(c) \/ StartClear(c) \/ StartThreadFails(c) \/ StartMark(c)
  \/ StopMark(c) \/ Audit(c)
  \/ \E s \in Sniffer : StartThread(c, s)

Request(c) ==
  \/ \E i \in Interface : StartCheck(c, i)
  \/ StopSet(c) \/ ClearPackets(c)

\* What a thread does by itself, unlike Arrive
Work(s) ==
  \/ Open(s) \/ Store(s) \/ Count(s) \/ Detect(s)
  \/ LoadRaised(s) \/ AddRaised(s) \/ Filter(s)

Loop(s) == Arrive(s) \/ Work(s)

Next == \/ \E c \in Caller : Route(c) \/ Request(c)
        \/ \E s \in Sniffer : Loop(s)

\* Threads run; no packet ever needs to come.
Fairness == /\ \A c \in Caller : WF_vars(Route(c))
            /\ \A s \in Sniffer : WF_vars(Work(s))

Spec == Init /\ [][Next]_vars /\ Fairness

-----------------------------------------------------------------------------
(* Properties                                                               *)

TypeOK ==
  /\ isRunning \in BOOLEAN /\ stopEvent \in BOOLEAN
  /\ interface \in Interface \cup {None}
  /\ packetsCaptured \in 0 .. MaxPackets + Cardinality(Sniffer) /\ alertsRaised \in 0 .. MaxAlerts
  /\ packets \in Nat /\ cleared \in Nat /\ alerts \in 0 .. MaxAlerts
  /\ caller \in [Caller -> [pc : {"idle", "start_iface", "start_clear", "start_thread",
                                  "start_mark", "stop_mark", "audit"},
                            iface : Interface \cup {None}, alone : BOOLEAN]]
  /\ sniffer \in [Sniffer -> [pc : {"none", "failed", "open", "wait", "store", "count",
                                    "detect", "load", "add", "filter"},
                              iface : Interface \cup {None},
                              found : 0 .. MaxAlerts, read : 0 .. MaxAlerts, late : 0 .. 2]]
  /\ calm \in BOOLEAN

\* status() tells the truth unless calls of start() and stop() have overlapped or a start
\* found no thread, and again after the next of them: if it says running, a thread was
\* started on the interface it names, has not been told to stop and sniffs unless sniff
\* raised; if it says stopped, every thread is told to stop (packet_capture.py:167-203).
StatusIsTrue ==
  calm /\ Busy = {} =>
    IF isRunning
    THEN ~stopEvent /\ \E s \in Sniffer : sniffer[s].pc # "none" /\ sniffer[s].iface = interface
    ELSE stopEvent \/ Alive = {}

\* After stop() a thread handles one more packet at most, unless a start() comes first:
\* stop_filter is asked after each packet, also one without an event
\* (packet_capture.py:179-195).
OneMorePacket == \A s \in Sniffer : sniffer[s].late <= 1

\* packets_captured is the number of rows ever stored but for those being counted, for
\* any number of threads, failed commits and deletions (packet_capture.py:122-124).
PacketsCounted ==
  packetsCaptured + Cardinality({s \in Sniffer : sniffer[s].pc = "count"}) = packets + cleared

\* alerts_raised may lose alerts, to another thread or to an exception, but never
\* counts one that was not stored (packet_capture.py:159-163).
AlertsNotOvercounted == alertsRaised <= alerts

\* s is not left waiting for ever on a silent interface.
PacketsKeepComing(s) == []<>~SnifferAt(s, "wait")

\* Once told to stop, a thread that packets reach ends, or is told to go on; one on a
\* silent interface may wait for ever (packet_capture.py:183, 193).
StopDrains ==
  \A s \in Sniffer : PacketsKeepComing(s) => (stopEvent ~> (s \notin Alive \/ ~stopEvent))
=============================================================================
