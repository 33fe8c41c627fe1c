----------------------------- MODULE AuthHistory -----------------------------
(***************************************************************************)
(* Auth with history variables: what no row keeps.  They only observe the   *)
(* handlers' steps.                                                         *)
(***************************************************************************)
EXTENDS Auth

VARIABLES strikes,    \* wrong passwords committed since the last success or reset
          redeemed,   \* <<token, thread>>: a request of the thread has changed a password
                      \* with the token
          overlapped  \* have two requests about one account been in flight at once

hvars == <<vars, strikes, redeemed, overlapped>>

\* No two requests about one account are in flight.
AccountsApart ==
  \A v, w \in Worker :
    req[v].pc # "idle" /\ req[w].pc # "idle" /\ req[v].user = req[w].user => v = w

HInit == /\ Init
         /\ strikes = [u \in User |-> 0]
         /\ redeemed = {}
         /\ overlapped = FALSE

\* strikes stops at MaxFailed, which is all the properties look at
Counted(u) ==
  IF \E w \in Worker : req[w].user = u /\ (LoginSuccess(w) \/ ResetWrite(w)) THEN 0
  ELSE IF /\ strikes[u] < MaxFailed
          /\ \E w \in Worker : req[w].user = u /\ WrongPassword(w)
       THEN strikes[u] + 1
  ELSE strikes[u]

\* What a step adds to the history
Observed ==
  /\ strikes' = [u \in User |-> Counted(u)]
  /\ redeemed' = redeemed \cup {<<req[w].token, w>> : w \in {v \in Worker : ResetWrite(v)}}
  /\ overlapped' = (overlapped \/ ~AccountsApart')

\* The steps of Arrive and Continue, each observed
HArrive(w) ==
  \/ \E u \in User : RegisterRead(w, u) /\ Observed
  \/ \E u \in User : LoginUnknown(w, u) /\ Observed
  \/ \E u \in User : LoginWrong(w, u) /\ Observed
  \/ \E u \in User, d \in Device : LoginRight(w, u, d) /\ Observed
  \/ \E s \in SessionId : RefreshRead(w, s) /\ Observed
  \/ \E a \in SessionId, t \in SessionId \cup {None} : LogoutRead(w, a, t) /\ Observed
  \/ \E u \in User : ForgotRead(w, u) /\ Observed
  \/ \E u \in User, t \in ResetToken : ResetRead(w, u, t) /\ Observed
  \/ \E u \in User, b \in BOOLEAN : AdminWrite(w, u, b) /\ Observed
  \/ Abort(w) /\ Observed

HContinue(w) ==
  \/ RegisterInsert(w) /\ Observed
  \/ RegisterAudit(w) /\ Observed
  \/ WrongPassword(w) /\ Observed
  \/ FailureAudit(w) /\ Observed
  \/ LoginDevice(w) /\ Observed
  \/ LoginNewDevice(w) /\ Observed
  \/ LoginSuccess(w) /\ Observed
  \/ LoginAudit(w) /\ Observed
  \/ Reply(w) /\ Observed
  \/ RefreshUser(w) /\ Observed
  \/ RefreshRotate(w) /\ Observed
  \/ \E s \in SessionId : LoginIssue(w, s) /\ Observed
  \/ \E s \in SessionId : RefreshIssue(w, s) /\ Observed
  \/ LogoutRevoke(w) /\ Observed
  \/ LogoutAudit(w) /\ Observed
  \/ \E t \in ResetToken : ForgotWrite(w, t) /\ Observed
  \/ ForgotMail(w) /\ Observed
  \/ ResetWrite(w) /\ Observed
  \/ ResetAudit(w) /\ Observed
  \/ AdminAudit(w) /\ Observed

HNext == \/ \E w \in Worker : HArrive(w) \/ HContinue(w)
         \/ \E u \in User : VerifyEmail(u) /\ Observed
         \/ Tick /\ Observed

HSpec == HInit /\ [][HNext]_hvars /\ Fairness

\* As long as no two requests about one account have overlapped, counter and lock agree:
\* an account carries a lock, running or run out, exactly when its counter has reached the
\* maximum; login, reset-password and failures keep the two columns in step
\* (auth.py:129-132, 158-164, 257-262).
LocksMatch == \A u \in User : users[u].lock # Null <=> users[u].failed >= MaxFailed
LockMatchesCounter == ~overlapped => LocksMatch

\* As long as none have overlapped, the account carries a lock after MAX_FAILED_ATTEMPTS
\* wrong passwords with no success or reset between them (tests/test_auth.py:77-81).
LockAfterMaxFailed ==
  ~overlapped => \A u \in User : strikes[u] >= MaxFailed => users[u].lock # Null

\* A token that has changed a password is in no row again and no thread redeems it a
\* second time, even when resets and new requests for a token overlap: requests that have
\* both passed the check can both redeem it, a thread that serves one after the other
\* cannot (auth.py:243-262).
RedeemedIsDead ==
  \A p \in redeemed :
    /\ \A u \in User : users[u].rtoken # p[1]
    /\ ~(At(p[2], "reset_write") /\ req[p[2]].token = p[1])
=============================================================================
