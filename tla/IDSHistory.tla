----------------------------- MODULE IDSHistory -----------------------------
(***************************************************************************)
(* IDSEngine beside a log of every event it was given: what the windows     *)
(* should hold, and what alerts should be raised, is read off the log.      *)
(***************************************************************************)
EXTENDS IDSEngine

CONSTANT MaxEvents   \* bound: events in the log

VARIABLE log  \* of [age, event, broken, alarms], the latest last

HInit == Init /\ log = <<>>

HTick == Tick /\ log' = Older(log)

HEvent(e, broken) ==
  /\ Len(log) < MaxEvents
  /\ ProcessEvent(e, broken)
  /\ log' = Append(log, [age |-> 0, event |-> e, broken |-> broken,
                         alarms |-> {d \in Detected(e) : Done(d, broken)}])

HNext == HTick \/ \E e \in Event : \E broken \in Outcome(e) : HEvent(e, broken)

HSpec == HInit /\ [][HNext]_<<engine, log>>

\* The event of a record has reached a slot.
Reaches(r, s) ==
  Applies(s[1], r.event) /\ SlotOf(s[1], r.event) = s /\ Reached(s[1], r.broken)

\* The positions in the log of the events that have reached a slot since its last alert,
\* and of those that lie within its window
Since(s) == {i \in DOMAIN log : /\ Reaches(log[i], s)
                                /\ \A j \in i .. Len(log) : Reaches(log[j], s)
                                                              => s[1] \notin log[j].alarms}
Recent(s) == {i \in Since(s) : log[i].age <= Window[s[1]]}
Fresh(s) == {k \in DOMAIN windows[s] : windows[s][k].age <= Window[s[1]]}

\* The entry that an event in the log should have left in a slot
EntryOf(s, r) == [age |-> r.age, value |-> ValueOf(s[1], r.event)]

\* A window is the log seen through its detector: its young entries are, one for one and in
\* order, the events since the last alert that was stored, within the window's seconds;
\* pruning by the head, clearing on an alert and failing alerts lose nothing and keep
\* nothing else (ids_engine.py:74-83).
WindowIsRecent ==
  \A s \in Slot : \E f \in [Fresh(s) -> Recent(s)] :
    /\ \A i \in Recent(s) : \E k \in Fresh(s) : f[k] = i
    /\ \A k, l \in Fresh(s) : k < l => f[k] < f[l]
    /\ \A k \in Fresh(s) : windows[s][k] = EntryOf(s, log[f[k]])

\* Between two events a window is at its threshold only if storing its alert has just
\* failed: then the next event of the slot raises it again (ids_engine.py:133-136).
AlarmKept ==
  \A s \in Slot : Trips(s[1], Prune(windows[s], Window[s[1]])) =>
    \E i \in DOMAIN log : /\ Reaches(log[i], s) /\ log[i].broken = s[1]
                          /\ \A j \in i + 1 .. Len(log) : ~Reaches(log[j], s)
=============================================================================
