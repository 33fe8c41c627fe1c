---------------------------- MODULE SharedWindow ----------------------------
(***************************************************************************)
(* One sliding window of the detection engine under several sniffing        *)
(* threads: the SYN-flood block of process_event                            *)
(* (app/services/ids_engine.py:150-157) for one destination.                *)
(*                                                                         *)
(* IDSEngine has one caller, as the engine's code assumes; but a capture    *)
(* that is stopped and started again has two threads for a while (see       *)
(* CaptureSession), which share the engine.  A step is what no other        *)
(* thread can split under the GIL of CPython 3.11, which switches at calls  *)
(* and backward jumps: an append, a test of prune's loop, a popleft, the    *)
(* making of an iterator, a commit, a clear.  values() makes an iterator of *)
(* the deque and walks it in a loop; a change of the deque after the        *)
(* iterator is made makes the walk raise RuntimeError, one before does not. *)
(* So a walk that ends has seen the deque as it is when it ends.            *)
(***************************************************************************)
EXTENDS Integers, Sequences, FiniteSets

CONSTANTS Thread,
          Window,     \* FLOOD_WINDOW
          Threshold,  \* SYN_FLOOD_THRESHOLD
          DbFails,    \* may storing an alert raise
          MaxEvents,  \* bound: events ever sniffed
          MaxClock    \* bound: the last second

ASSUME WindowAssumption ==
  /\ Window \in Nat /\ Threshold \in Nat \ {0} /\ MaxEvents \in Nat /\ MaxClock \in Nat
  /\ DbFails \in BOOLEAN

VARIABLES clock,
          deque,    \* entries, each the time and the number of its event
          thread,   \* per thread, where it is in the block
          sniffed,  \* events so far (ghost)
          slowest,  \* the longest an event has waited to be added (ghost)
          alerts,   \* alerts stored: who, for which event, counting which (ghost)
          failed    \* storing failed, and the window has not been cleared since (ghost)

vars == <<clock, deque, thread, sniffed, slowest, alerts, failed>>

Entry == [time : 0 .. MaxClock, event : 1 .. MaxEvents]

\* now and event are those of the packet; changed: the deque has changed since this
\* thread's iterator was made; counted are the events its first walk has seen.
Idle == [pc |-> "idle", now |-> 0, event |-> 0, changed |-> FALSE, counted |-> {}]

At(t, pc) == thread[t].pc = pc
EventsOf(q) == {q[i].event : i \in DOMAIN q}

\* t goes on to pc, having changed the deque
Change(t, pc) ==
  thread' = [x \in Thread |->
    IF x = t THEN [thread[t] EXCEPT !.pc = pc] ELSE [thread[x] EXCEPT !.changed = TRUE]]
Go(t, pc) == thread' = [thread EXCEPT ![t].pc = pc]
\* t goes on to pc with an iterator of the deque
Walk(t, pc) == thread' = [thread EXCEPT ![t].pc = pc, ![t].changed = FALSE]
\* The block is left, at its end or by an exception.
Leave(t) == thread' = [thread EXCEPT ![t] = Idle]

-----------------------------------------------------------------------------
\* A packet is stamped when it is sniffed (packet_to_event), before its row is stored.
Sniff(t) ==
  /\ At(t, "idle") /\ sniffed < MaxEvents
  /\ sniffed' = sniffed + 1
  /\ thread' = [thread EXCEPT ![t] = [pc |-> "add", now |-> clock, event |-> sniffed + 1,
                                      changed |-> FALSE, counted |-> {}]]
  /\ UNCHANGED <<clock, deque, slowest, alerts, failed>>

\* The row, or an earlier block, raises: the event does not reach the window.
Miss(t) ==
  /\ At(t, "add") /\ Leave(t)
  /\ UNCHANGED <<clock, deque, sniffed, slowest, alerts, failed>>

Later(a, b) == IF a >= b THEN a ELSE b

Add(t) ==
  /\ At(t, "add")
  /\ deque' = Append(deque, [time |-> thread[t].now, event |-> thread[t].event])
  /\ slowest' = Later(slowest, clock - thread[t].now)
  /\ Change(t, "prune")
  /\ UNCHANGED <<clock, sniffed, alerts, failed>>

Stale(t) == deque # <<>> /\ thread[t].now - Head(deque).time > Window

\* The test of the loop; popleft is reached by a backward jump.
Prune(t) ==
  /\ At(t, "prune")
  /\ Go(t, IF Stale(t) THEN "pop" ELSE "values")
  /\ UNCHANGED <<clock, deque, sniffed, slowest, alerts, failed>>

\* Mutant: one stale entry is dropped, not all
PopOnce(t) ==
  /\ At(t, "pop")
  /\ IF deque = <<>> THEN Leave(t) /\ deque' = deque
     ELSE deque' = Tail(deque) /\ Change(t, "values")
  /\ UNCHANGED <<clock, sniffed, slowest, alerts, failed>>

\* The entry tested may be gone: popleft takes the next, or raises.
Pop(t) ==
  /\ At(t, "pop")
  /\ IF deque = <<>> THEN Leave(t) /\ deque' = deque
     ELSE deque' = Tail(deque) /\ Change(t, "prune")
  /\ UNCHANGED <<clock, sniffed, slowest, alerts, failed>>

\* The iterator of the first walk is made.
CountBegins(t) ==
  /\ At(t, "values") /\ Walk(t, "count")
  /\ UNCHANGED <<clock, deque, sniffed, slowest, alerts, failed>>

\* Mutant: the threshold must be passed
CountMore(t) ==
  /\ At(t, "count")
  /\ IF ~thread[t].changed /\ Len(deque) > Threshold
     THEN thread' = [thread EXCEPT ![t].pc = "text", ![t].counted = EventsOf(deque)]
     ELSE Leave(t)
  /\ UNCHANGED <<clock, deque, sniffed, slowest, alerts, failed>>

\* The walk raises, or counts too few, or goes on to the text, which counts again.
Count(t) ==
  /\ At(t, "count")
  /\ IF ~thread[t].changed /\ Len(deque) >= Threshold
     THEN thread' = [thread EXCEPT ![t].pc = "text", ![t].counted = EventsOf(deque)]
     ELSE Leave(t)
  /\ UNCHANGED <<clock, deque, sniffed, slowest, alerts, failed>>

\* The iterator of the second walk is made, of whatever the deque holds by now.
TextBegins(t) ==
  /\ At(t, "text") /\ Walk(t, "describe")
  /\ UNCHANGED <<clock, deque, sniffed, slowest, alerts, failed>>

Describe(t) ==
  /\ At(t, "describe")
  /\ IF thread[t].changed THEN Leave(t)
     ELSE Go(t, "raise")
  /\ UNCHANGED <<clock, deque, sniffed, slowest, alerts, failed>>

Raise(t) ==
  /\ At(t, "raise")
  /\ \/ /\ alerts' = alerts \cup {[by |-> t, event |-> thread[t].event,
                                   counted |-> thread[t].counted]}
        /\ Go(t, "clear")
        /\ failed' = failed
     \/ DbFails /\ Leave(t) /\ failed' = TRUE /\ alerts' = alerts
  /\ UNCHANGED <<clock, deque, sniffed, slowest>>

\* Mutant: the window is not cleared
ClearForgets(t) ==
  /\ At(t, "clear")
  /\ Leave(t)
  /\ UNCHANGED <<clock, deque, sniffed, slowest, alerts, failed>>

Clear(t) ==
  /\ At(t, "clear")
  /\ deque' = <<>>
  /\ failed' = FALSE
  /\ thread' = [x \in Thread |->
       IF x = t THEN Idle ELSE [thread[x] EXCEPT !.changed = @ \/ deque # <<>>]]
  /\ UNCHANGED <<clock, sniffed, slowest, alerts>>

Tick ==
  /\ clock < MaxClock
  /\ clock' = clock + 1
  /\ UNCHANGED <<deque, thread, sniffed, slowest, alerts, failed>>

Init ==
  /\ clock = 0 /\ deque = <<>> /\ sniffed = 0 /\ slowest = 0 /\ alerts = {}
  /\ failed = FALSE
  /\ thread = [t \in Thread |-> Idle]

Step(t) ==
  \/ Sniff(t) \/ Miss(t) \/ Add(t) \/ Prune(t) \/ Pop(t)
  \/ CountBegins(t) \/ Count(t) \/ TextBegins(t) \/ Describe(t) \/ Raise(t) \/ Clear(t)

Next == Tick \/ \E t \in Thread : Step(t)

Spec == Init /\ [][Next]_vars

-----------------------------------------------------------------------------
(* Properties                                                               *)

TypeOK ==
  /\ clock \in 0 .. MaxClock /\ sniffed \in 0 .. MaxEvents /\ slowest \in 0 .. MaxClock
  /\ deque \in Seq(Entry)
  /\ thread \in [Thread -> [pc : {"idle", "add", "prune", "pop", "values", "count", "text",
                                  "describe", "raise", "clear"},
                            now : 0 .. MaxClock, event : 0 .. MaxEvents,
                            changed : BOOLEAN, counted : SUBSET (1 .. MaxEvents)]]
  /\ alerts \subseteq [by : Thread, event : 1 .. MaxEvents, counted : SUBSET (1 .. MaxEvents)]
  /\ failed \in BOOLEAN

\* Walks of overlapping threads raise and their events raise no alert, yet no alarm is
\* missed: when no thread is in the block, the window is below its threshold, unless an
\* alert could not be stored.  The last thread to change the deque walks it undisturbed
\* (ids_engine.py:74-83, 151-156).
NoAlarmMissed ==
  ~failed /\ (\A t \in Thread : thread[t].pc \in {"idle", "add"}) => Len(deque) < Threshold

\* Two threads may both alert about one event, between a walk and a clear; but no thread
\* alerts about an event twice (ids_engine.py:153-156).
OneAlertPerThread ==
  \A a, b \in alerts : a.by = b.by /\ a.counted \cap b.counted # {} => a = b

\* Threads append out of order, and pop what another has tested, so that a stale entry hides
\* behind a younger one from prune; what a thread counts or describes, entries others append
\* after it has pruned included, is nevertheless older than the window by no more than the
\* longest time between the sniffing of an event and its append (ids_engine.py:77-83).
CountsAlmostRecent ==
  \A t \in Thread : thread[t].pc \in {"values", "count", "text", "describe"} =>
    \A i \in DOMAIN deque : thread[t].now - deque[i].time <= Window + slowest
=============================================================================
