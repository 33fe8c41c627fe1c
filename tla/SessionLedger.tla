---------------------------- MODULE SessionLedger ----------------------------
(***************************************************************************)
(* What the session table promises, without requests or rows' contents:     *)
(* an id is used once, a revoked session is never live again, and a session *)
(* has a successor only through a holder that took it while it was live.    *)
(* Holders take a session without excluding one another, as app/routers/    *)
(* auth.py does, so a session may have as many successors as it had holders *)
(* at a time.                                                               *)
(***************************************************************************)
CONSTANTS SessionId, Holder, None

VARIABLES state,   \* [SessionId -> {"none", "live", "revoked"}]
          parent,  \* the session that one succeeds, None if a login opened it
          held     \* the session that a holder means to replace, or None

ledger == <<state, parent, held>>

Init == /\ state = [s \in SessionId |-> "none"]
        /\ parent = [s \in SessionId |-> None]
        /\ held = [h \in Holder |-> None]

Open(s) ==
  /\ state[s] = "none"
  /\ state' = [state EXCEPT ![s] = "live"]
  /\ UNCHANGED <<parent, held>>

Take(h, s) ==
  /\ held[h] = None /\ state[s] = "live"
  /\ held' = [held EXCEPT ![h] = s]
  /\ UNCHANGED <<state, parent>>

Release(h) ==
  /\ held' = [held EXCEPT ![h] = None]
  /\ UNCHANGED <<state, parent>>

Revoke(s) ==
  /\ state[s] = "live"
  /\ state' = [state EXCEPT ![s] = "revoked"]
  /\ UNCHANGED <<parent, held>>

Succeed(h, s) ==
  /\ held[h] # None /\ state[held[h]] = "revoked"
  /\ state[s] = "none"
  /\ state' = [state EXCEPT ![s] = "live"]
  /\ parent' = [parent EXCEPT ![s] = held[h]]
  /\ held' = [held EXCEPT ![h] = None]

Next == \/ \E s \in SessionId : Open(s) \/ Revoke(s)
        \/ \E h \in Holder : Release(h)
        \/ \E h \in Holder, s \in SessionId : Take(h, s) \/ Succeed(h, s)

Spec == Init /\ [][Next]_ledger
=============================================================================
