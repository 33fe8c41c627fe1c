----------------------------- MODULE Auth_proofs -----------------------------
(***************************************************************************)
(* Theorems about Auth and AuthHistory, for every value of their constants: *)
(* types; the session table, its refinement of SessionLedger, devices and   *)
(* audit rows; reset tokens; logout; and what overlapping requests cost.    *)
(***************************************************************************)
EXTENDS AuthHistory, TLAPS

USE DEF DeviceRows

-----------------------------------------------------------------------------
(* Rows and requests are built well formed                                   *)

LEMMA AccountType ==
  /\ NoAccount \in Account /\ NewAccount \in Account /\ SeededAccount \in Account
<1>1. NoAccount \in Account
  BY NoneAssumption, TimeAssumption, CounterAssumption DEF NoAccount, Account, Null
<1>2. NewAccount \in Account
  BY <1>1, SetupAssumption DEF NewAccount, Account
<1>3. SeededAccount \in Account
  BY <1>1 DEF SeededAccount, Account
<1> QED BY <1>1, <1>2, <1>3

LEMMA AccountUpdate ==
  ASSUME NEW f \in [User -> Account], NEW u,
         NEW n \in 0 .. MaxFailed, NEW l \in Null .. LockTicks,
         NEW t \in ResetToken \cup {None}, NEW x \in Null .. ResetTicks
  PROVE  /\ [f EXCEPT ![u].failed = n, ![u].lock = l] \in [User -> Account]
         /\ [f EXCEPT ![u].rtoken = t, ![u].rexp = x] \in [User -> Account]
<1>1. ASSUME NEW r \in Account PROVE [r EXCEPT !.failed = n, !.lock = l] \in Account
  BY DEF Account
<1>2. ASSUME NEW r \in Account PROVE [r EXCEPT !.rtoken = t, !.rexp = x] \in Account
  BY DEF Account
<1>3. [f EXCEPT ![u].failed = n, ![u].lock = l] \in [User -> Account]
  BY <1>1
<1>4. [f EXCEPT ![u].rtoken = t, ![u].rexp = x] \in [User -> Account]
  BY <1>2
<1> QED BY <1>3, <1>4

LEMMA NullTicks == Null \in Null .. LockTicks /\ Null \in Null .. ResetTicks
  BY TimeAssumption DEF Null

LEMMA AccountTick ==
  ASSUME NEW r \in Account
  PROVE  [r EXCEPT !.lock = IF @ > 0 THEN @ - 1 ELSE @,
                   !.rexp = IF @ >= 0 THEN @ - 1 ELSE @] \in Account
<1>1. ASSUME NEW l \in Null .. LockTicks, NEW x \in Null .. ResetTicks
      PROVE  [r EXCEPT !.lock = l, !.rexp = x] \in Account
  BY DEF Account
<1>2. (IF r.lock > 0 THEN r.lock - 1 ELSE r.lock) \in Null .. LockTicks
  BY TimeAssumption DEF Account, Null
<1>3. (IF r.rexp >= 0 THEN r.rexp - 1 ELSE r.rexp) \in Null .. ResetTicks
  BY TimeAssumption DEF Account, Null
<1> QED BY <1>1, <1>2, <1>3

LEMMA SessionTick ==
  ASSUME NEW r \in SessionRow
  PROVE  (IF r.state # "none" /\ r.age < AgeCap
          THEN [r EXCEPT !.age = @ + 1] ELSE r) \in SessionRow
  BY TimeAssumption DEF SessionRow

LEMMA StageType ==
  ASSUME NEW pc \in LoginStages \cup RefreshStages \cup OtherStages,
         NEW u \in User \cup {None}, NEW d \in Device \cup {None},
         NEW s \in SessionId \cup {None}
  PROVE  Stage(pc, u, d, s) \in Request
  BY CounterAssumption DEF Stage, Request

LEMMA TokenUpdate ==
  ASSUME NEW r \in Request, NEW t \in ResetToken \cup {None}
  PROVE  [r EXCEPT !.token = t] \in Request
  BY DEF Request

LEMMA RequestUpdate ==
  ASSUME NEW r \in Request
  PROVE  /\ \A pc \in LoginStages \cup RefreshStages \cup OtherStages :
              [r EXCEPT !.pc = pc] \in Request
         /\ \A pc \in LoginStages \cup RefreshStages \cup OtherStages, b \in BOOLEAN :
              [r EXCEPT !.pc = pc, !.known = b] \in Request
         /\ \A n \in 0 .. MaxFailed : [r EXCEPT !.failed = n] \in Request
         /\ \A n \in 0 .. MaxFailed, b \in BOOLEAN :
              [r EXCEPT !.failed = n, !.lockSet = b] \in Request
         /\ \A t \in ResetToken, n \in 0 .. MaxFailed, b \in BOOLEAN :
              [r EXCEPT !.token = t, !.failed = n, !.lockSet = b] \in Request
<1>1. ASSUME NEW q \in Request, NEW n \in 0 .. MaxFailed PROVE [q EXCEPT !.failed = n] \in Request
  BY DEF Request
<1>2. ASSUME NEW q \in Request, NEW b \in BOOLEAN
      PROVE  [q EXCEPT !.known = b] \in Request /\ [q EXCEPT !.lockSet = b] \in Request
  BY DEF Request
<1>3. ASSUME NEW q \in Request, NEW t \in ResetToken PROVE [q EXCEPT !.token = t] \in Request
  BY DEF Request
<1>4. ASSUME NEW q \in Request, NEW pc \in LoginStages \cup RefreshStages \cup OtherStages
      PROVE  [q EXCEPT !.pc = pc] \in Request
  BY DEF Request
<1> QED BY <1>1, <1>2, <1>3, <1>4

-----------------------------------------------------------------------------
(* Type correctness                                                          *)

\* What a request needs at each of its stages, and of the session table.
Fits(r, tab) ==
  /\ r.pc # "idle" => r.user \in User
  /\ r.pc \in LoginStages \cup RefreshStages => r.dev \in Device
  /\ r.pc \in RefreshStages \cup {"login_audit", "reply", "logout_revoke"}
       => r.sid \in SessionId /\ tab[r.sid].state # "none"

\* TypeOK is not inductive: a handler's commit is well typed because of what its
\* reads put in the request.
Carried ==
  /\ \A w \in Worker : Fits(req[w], sessions)
  /\ \A s \in SessionId : sessions[s].state # "none"
       => sessions[s].user \in User /\ sessions[s].dev \in Device
  /\ \A s \in issued : sessions[s].state # "none"

LEMMA ServeInv ==
  ASSUME TypeOK, Carried, NEW w \in Worker, NEW r \in Request, Fits(r, sessions),
         Serve(w, r), UNCHANGED <<sessions, issued>>
  PROVE  req' \in [Worker -> Request] /\ Carried'
  BY DEF Serve, TypeOK, Carried, Fits

LEMMA InitType == Init => TypeOK /\ Carried
<1> SUFFICES ASSUME Init PROVE TypeOK /\ Carried
  OBVIOUS
<1>1. Idle \in Request
  BY StageType DEF Idle, OtherStages
<1>2. NoSession \in SessionRow
  BY TimeAssumption DEF NoSession, SessionRow
<1>3. TypeOK
  BY <1>1, <1>2, AccountType, SetupAssumption DEF Init, TypeOK
<1>4. Carried
  BY DEF Init, Carried, Fits, Idle, Stage, NoSession, LoginStages, RefreshStages
<1> QED BY <1>3, <1>4

LEMMA IdleFits == Idle \in Request /\ Fits(Idle, sessions)
  BY StageType DEF Idle, Stage, OtherStages, Fits, LoginStages, RefreshStages

\* Steps that only read: what they put in the request fits its stage.
LEMMA ReadInv ==
  ASSUME TypeOK, Carried, NEW w \in Worker,
         \/ \E u \in User : RegisterRead(w, u) \/ LoginWrong(w, u) \/ ForgotRead(w, u)
         \/ \E u \in User, d \in Device : LoginRight(w, u, d)
         \/ LoginDevice(w) \/ RefreshUser(w) \/ Abort(w)
         \/ \E s \in SessionId : RefreshRead(w, s)
         \/ \E a \in SessionId, t \in SessionId \cup {None} : LogoutRead(w, a, t)
         \/ \E u \in User, t \in ResetToken : ResetRead(w, u, t)
  PROVE  TypeOK' /\ Carried'
<1>1. ASSUME UNCHANGED <<registered, users, devices, sessions, issued, mail, audit>>,
             NEW r \in Request, Fits(r, sessions), Serve(w, r)
      PROVE  TypeOK' /\ Carried'
  BY <1>1, ServeInv DEF TypeOK
<1>2. ASSUME NEW u \in User, RegisterRead(w, u) PROVE TypeOK' /\ Carried'
  <2>1. Stage("reg_insert", u, None, None) \in Request
    BY StageType DEF OtherStages
  <2>2. Fits(Stage("reg_insert", u, None, None), sessions)
    BY DEF Fits, Stage, LoginStages, RefreshStages
  <2> QED BY <1>1, <1>2, <2>1, <2>2 DEF RegisterRead
<1>3. ASSUME NEW u \in User, LoginWrong(w, u) PROVE TypeOK' /\ Carried'
  <2> DEFINE r == [Stage("wrong_password", u, None, None) EXCEPT !.failed = users[u].failed]
  <2>1. r \in Request
    <3>1. Stage("wrong_password", u, None, None) \in Request
      BY StageType DEF OtherStages
    <3>2. users[u].failed \in 0 .. MaxFailed /\ (users[u].lock # Null) \in BOOLEAN
      BY DEF TypeOK, Account
    <3> QED BY <3>1, <3>2, RequestUpdate
  <2>2. Fits(r, sessions)
    BY DEF Fits, Stage, LoginStages, RefreshStages
  <2> QED BY <1>1, <1>3, <2>1, <2>2 DEF LoginWrong
<1>4. ASSUME NEW u \in User, ForgotRead(w, u) PROVE TypeOK' /\ Carried'
  <2>1. Stage("forgot_write", u, None, None) \in Request
    BY StageType DEF OtherStages
  <2>2. Fits(Stage("forgot_write", u, None, None), sessions)
    BY DEF Fits, Stage, LoginStages, RefreshStages
  <2> QED BY <1>1, <1>4, <2>1, <2>2 DEF ForgotRead
<1>5. ASSUME NEW u \in User, NEW d \in Device, LoginRight(w, u, d) PROVE TypeOK' /\ Carried'
  <2> DEFINE r == [Stage("login_device", u, d, None)
                     EXCEPT !.failed = users[u].failed, !.lockSet = users[u].lock # Null]
  <2>1. r \in Request
    <3>1. Stage("login_device", u, d, None) \in Request
      BY StageType DEF LoginStages
    <3>2. users[u].failed \in 0 .. MaxFailed /\ (users[u].lock # Null) \in BOOLEAN
      BY DEF TypeOK, Account
    <3> QED BY <3>1, <3>2, RequestUpdate
  <2>2. Fits(r, sessions)
    BY DEF Fits, Stage, LoginStages, RefreshStages
  <2> QED BY <1>1, <1>5, <2>1, <2>2 DEF LoginRight
<1>6. ASSUME LoginDevice(w) PROVE TypeOK' /\ Carried'
  <2> DEFINE k == devices[req[w].user][req[w].dev] > 0
             r == [req[w] EXCEPT !.pc = IF k THEN "login_success" ELSE "login_new_device",
                                 !.known = k]
  <2>1. r \in Request
    <3>1. k \in BOOLEAN /\ req[w] \in Request
      BY DEF TypeOK
    <3> HIDE DEF k
    <3> QED BY <3>1, RequestUpdate DEF LoginStages
  <2>2. Fits(r, sessions)
    BY <1>6 DEF Fits, Stage, LoginStages, RefreshStages, Carried, LoginDevice, At, TypeOK, Request
  <2> QED BY <1>1, <1>6, <2>1, <2>2 DEF LoginDevice
<1>7. ASSUME RefreshUser(w) PROVE TypeOK' /\ Carried'
  <2>1. [req[w] EXCEPT !.pc = "refresh_rotate"] \in Request
    BY RequestUpdate DEF RefreshStages, TypeOK
  <2>2. Fits([req[w] EXCEPT !.pc = "refresh_rotate"], sessions)
    BY <1>7 DEF Fits, LoginStages, RefreshStages, Carried, RefreshUser, At, TypeOK, Request
  <2> QED BY <1>1, <1>7, <2>1, <2>2, IdleFits DEF RefreshUser, Goto
<1>8. ASSUME Abort(w) PROVE TypeOK' /\ Carried'
  BY <1>1, <1>8, IdleFits DEF Abort
<1>9. ASSUME NEW s \in SessionId, RefreshRead(w, s) PROVE TypeOK' /\ Carried'
  <2> DEFINE r == Stage("refresh_user", sessions[s].user, sessions[s].dev, s)
  <2>1. r \in Request
    BY StageType DEF RefreshStages, TypeOK, SessionRow
  <2>2. Fits(r, sessions)
    BY <1>9 DEF Fits, Stage, LoginStages, RefreshStages, Carried, RefreshRead
  <2> QED BY <1>1, <1>9, <2>1, <2>2 DEF RefreshRead
<1>10. ASSUME NEW a \in SessionId, NEW t \in SessionId \cup {None}, LogoutRead(w, a, t)
       PROVE  TypeOK' /\ Carried'
  <2> DEFINE r == Stage(IF t = None THEN "logout_audit" ELSE "logout_revoke",
                        sessions[a].user, None, t)
  <2>1. r \in Request
    BY StageType DEF OtherStages, TypeOK, SessionRow
  <2>2. Fits(r, sessions)
    BY <1>10, NoneAssumption DEF Fits, Stage, LoginStages, RefreshStages, Carried, LogoutRead
  <2> QED BY <1>1, <1>10, <2>1, <2>2 DEF LogoutRead
<1>11. ASSUME NEW u \in User, NEW t \in ResetToken, ResetRead(w, u, t)
       PROVE  TypeOK' /\ Carried'
  <2> DEFINE r == [Stage("reset_write", u, None, None)
                     EXCEPT !.token = t, !.failed = users[u].failed,
                            !.lockSet = users[u].lock # Null]
  <2>1. r \in Request
    <3>1. Stage("reset_write", u, None, None) \in Request
      BY StageType DEF OtherStages
    <3>2. users[u].failed \in 0 .. MaxFailed /\ (users[u].lock # Null) \in BOOLEAN
      BY DEF TypeOK, Account
    <3> QED BY <3>1, <3>2, RequestUpdate
  <2>2. Fits(r, sessions)
    BY DEF Fits, Stage, LoginStages, RefreshStages
  <2> QED BY <1>1, <1>11, <2>1, <2>2 DEF ResetRead
<1> QED BY <1>2, <1>3, <1>4, <1>5, <1>6, <1>7, <1>8, <1>9, <1>10, <1>11

\* Steps that write an audit row, most of them the last of their handler.
LEMMA AuditInv ==
  ASSUME TypeOK, Carried, NEW w \in Worker,
         \/ RegisterAudit(w) \/ FailureAudit(w) \/ LoginAudit(w) \/ LogoutAudit(w)
         \/ ResetAudit(w) \/ AdminAudit(w) \/ \E u \in User : LoginUnknown(w, u)
  PROVE  TypeOK' /\ Carried'
<1>1. ASSUME NEW a \in AuditAction, NEW u \in User \cup {None},
             NEW s \in SessionId \cup {None}, Log(a, u, s)
      PROVE  audit' \subseteq AuditAction \X (User \cup {None}) \X (SessionId \cup {None})
  BY <1>1 DEF Log, TypeOK
<1>2. /\ req[w].user \in User \cup {None} /\ req[w].sid \in SessionId \cup {None}
      /\ req[w] \in Request /\ Fits(req[w], sessions)
  BY DEF TypeOK, Request, Carried
<1>3. CASE RegisterAudit(w)
  BY <1>1, <1>2, <1>3, ServeInv, IdleFits DEF RegisterAudit, AuditAction, TypeOK
<1>4. CASE FailureAudit(w)
  BY <1>1, <1>2, <1>4, ServeInv, IdleFits DEF FailureAudit, AuditAction, TypeOK
<1>5. CASE LoginAudit(w)
  <2>1. [req[w] EXCEPT !.pc = "reply"] \in Request
    BY <1>2, RequestUpdate DEF OtherStages
  <2>2. Fits([req[w] EXCEPT !.pc = "reply"], sessions)
    BY <1>2, <1>5 DEF Fits, LoginStages, RefreshStages, LoginAudit, At, Request
  <2> QED BY <1>1, <1>2, <1>5, <2>1, <2>2, ServeInv DEF LoginAudit, Goto, AuditAction, TypeOK
<1>6. CASE LogoutAudit(w)
  BY <1>1, <1>2, <1>6, ServeInv, IdleFits DEF LogoutAudit, AuditAction, TypeOK
<1>7. CASE ResetAudit(w)
  BY <1>1, <1>2, <1>7, ServeInv, IdleFits DEF ResetAudit, AuditAction, TypeOK
<1>8. CASE AdminAudit(w)
  BY <1>1, <1>2, <1>8, ServeInv, IdleFits DEF AdminAudit, AuditAction, TypeOK
<1>9. ASSUME NEW u \in User, LoginUnknown(w, u) PROVE TypeOK' /\ Carried'
  BY <1>1, <1>9 DEF LoginUnknown, AuditAction, TypeOK, Carried, Fits
<1> QED BY <1>3, <1>4, <1>5, <1>6, <1>7, <1>8, <1>9

\* Steps that write the users table.
LEMMA UserInv ==
  ASSUME TypeOK, Carried, NEW w \in Worker,
         \/ RegisterInsert(w) \/ WrongPassword(w) \/ LoginSuccess(w) \/ ResetWrite(w)
         \/ \E t \in ResetToken : ForgotWrite(w, t)
         \/ \E u \in User, b \in BOOLEAN : AdminWrite(w, u, b)
  PROVE  TypeOK' /\ Carried'
<1> DEFINE v == req[w].user
<1>0. /\ req[w] \in Request /\ Fits(req[w], sessions) /\ users \in [User -> Account]
      /\ v \in User \cup {None} /\ req[w].failed \in 0 .. MaxFailed
      /\ req[w].pc # "idle" => v \in User
  BY DEF TypeOK, Request, Carried, Fits
<1>1. ASSUME NEW r \in Request, Fits(r, sessions), Serve(w, r), users' \in [User -> Account],
             registered' \subseteq User, UNCHANGED <<devices, sessions, issued, mail, audit>>
      PROVE  TypeOK' /\ Carried'
  BY <1>1, ServeInv DEF TypeOK
<1>2. CASE RegisterInsert(w)
  <2>1. users' \in [User -> Account] /\ registered' \subseteq User
    BY <1>0, <1>2, AccountType DEF RegisterInsert, TypeOK, At
  <2>2. [req[w] EXCEPT !.pc = "reg_audit"] \in Request
    BY <1>0, RequestUpdate DEF OtherStages
  <2>3. Fits([req[w] EXCEPT !.pc = "reg_audit"], sessions)
    BY <1>0, <1>2 DEF Fits, RegisterInsert, At, LoginStages, RefreshStages, Request
  <2> QED BY <1>1, <1>2, <2>1, <2>2, <2>3, IdleFits DEF RegisterInsert, Goto
<1>3. CASE WrongPassword(w)
  <2> DEFINE n == IF req[w].failed < MaxFailed THEN req[w].failed + 1 ELSE MaxFailed
             l == IF n >= MaxFailed THEN LockTicks ELSE users[v].lock
  <2>1. n \in 0 .. MaxFailed
    BY <1>0, CounterAssumption
  <2>2. l \in Null .. LockTicks
    BY <1>0, <1>3, TimeAssumption DEF Account, Null, WrongPassword, At
  <2>3. users' = [users EXCEPT ![v].failed = n, ![v].lock = l]
    BY <1>3 DEF WrongPassword
  <2>4. users' \in [User -> Account]
    <3> HIDE DEF n, l, v
    <3> QED BY <1>0, <2>1, <2>2, <2>3, AccountUpdate, NullTicks
  <2>5. Stage("failure_audit", v, None, None) \in Request
    BY <1>0, StageType DEF OtherStages
  <2>6. Fits(Stage("failure_audit", v, None, None), sessions)
    BY <1>0, <1>3 DEF Fits, Stage, LoginStages, RefreshStages, WrongPassword, At
  <2> QED BY <1>1, <1>3, <2>4, <2>5, <2>6 DEF WrongPassword, TypeOK
<1>4. ASSUME NEW k, NEW lk
      PROVE  /\ (IF k THEN 0 ELSE users[v].failed) \in 0 .. MaxFailed \/ v \notin User
             /\ (IF lk THEN Null ELSE users[v].lock) \in Null .. LockTicks \/ v \notin User
  BY <1>0, NullTicks, CounterAssumption DEF Account
<1>5. CASE LoginSuccess(w)
  <2> DEFINE n == IF ~req[w].known \/ req[w].failed # 0 THEN 0 ELSE users[v].failed
             l == IF ~req[w].known \/ req[w].lockSet THEN Null ELSE users[v].lock
  <2>1. n \in 0 .. MaxFailed /\ l \in Null .. LockTicks
    BY <1>0, <1>4, <1>5 DEF LoginSuccess, At
  <2>2. users' = [users EXCEPT ![v].failed = n, ![v].lock = l]
    BY <1>5 DEF LoginSuccess
  <2>3. users' \in [User -> Account]
    <3> HIDE DEF n, l, v
    <3> QED BY <1>0, <2>1, <2>2, AccountUpdate, NullTicks
  <2>4. Stage("login_issue", v, req[w].dev, None) \in Request
    BY <1>0, StageType DEF LoginStages, Request
  <2>5. Fits(Stage("login_issue", v, req[w].dev, None), sessions)
    BY <1>0, <1>5 DEF Fits, Stage, LoginStages, RefreshStages, LoginSuccess, At
  <2> QED BY <1>1, <1>5, <2>3, <2>4, <2>5 DEF LoginSuccess, TypeOK
<1>6. CASE ResetWrite(w)
  <2> DEFINE n == IF req[w].failed # 0 THEN 0 ELSE users[v].failed
             l == IF req[w].lockSet THEN Null ELSE users[v].lock
             f == [users EXCEPT ![v].rtoken = None, ![v].rexp = Null]
  <2>1. n \in 0 .. MaxFailed /\ l \in Null .. LockTicks
    BY <1>0, <1>4, <1>6 DEF ResetWrite, At
  <2>2. f \in [User -> Account]
    <3> HIDE DEF v
    <3> QED BY <1>0, AccountUpdate, NullTicks, CounterAssumption
  <2>3. users' = [f EXCEPT ![v].failed = n, ![v].lock = l]
    BY <1>6 DEF ResetWrite
  <2>4. users' \in [User -> Account]
    <3> HIDE DEF n, l, v, f
    <3> QED BY <2>1, <2>2, <2>3, AccountUpdate, NullTicks
  <2>5. Redeem(w) \in Request
    <3>1. req[w].token \in ResetToken \cup {None}
      BY <1>0 DEF Request
    <3>2. Stage("reset_audit", v, None, None) \in Request
      BY <1>0, StageType DEF OtherStages
    <3> QED BY <3>1, <3>2, TokenUpdate DEF Redeem
  <2>6. Fits(Redeem(w), sessions)
    BY <1>0, <1>6 DEF Fits, Redeem, Stage, LoginStages, RefreshStages, ResetWrite, At
  <2> QED BY <1>1, <1>6, <2>4, <2>5, <2>6 DEF ResetWrite, TypeOK
<1>7. ASSUME NEW t \in ResetToken, ForgotWrite(w, t) PROVE TypeOK' /\ Carried'
  <2>1. users' = [users EXCEPT ![v].rtoken = t, ![v].rexp = ResetTicks]
    BY <1>7 DEF ForgotWrite
  <2>2. ResetTicks \in Null .. ResetTicks /\ 0 \in 0 .. MaxFailed
    BY TimeAssumption, CounterAssumption DEF Null
  <2>3. users' \in [User -> Account]
    <3> HIDE DEF v
    <3> QED BY <1>0, <2>1, <2>2, AccountUpdate, NullTicks
  <2>4. [req[w] EXCEPT !.pc = "forgot_mail"] \in Request
    BY <1>0, RequestUpdate DEF OtherStages
  <2>5. Fits([req[w] EXCEPT !.pc = "forgot_mail"], sessions)
    BY <1>0, <1>7 DEF Fits, ForgotWrite, At, LoginStages, RefreshStages, Request
  <2> QED BY <1>1, <1>7, <2>3, <2>4, <2>5 DEF ForgotWrite, Goto, TypeOK
<1>8. ASSUME NEW u \in User, NEW b \in BOOLEAN, AdminWrite(w, u, b) PROVE TypeOK' /\ Carried'
  <2>1. users' \in [User -> Account]
    BY <1>0, <1>8 DEF AdminWrite, Account
  <2>2. Stage("admin_audit", u, None, None) \in Request
    BY StageType DEF OtherStages
  <2>3. Fits(Stage("admin_audit", u, None, None), sessions)
    BY DEF Fits, Stage, LoginStages, RefreshStages
  <2> QED BY <1>1, <1>8, <2>1, <2>2, <2>3 DEF AdminWrite, TypeOK
<1> QED BY <1>2, <1>3, <1>5, <1>6, <1>7, <1>8

\* Steps that write the session table.
LEMMA SessionInv ==
  ASSUME TypeOK, Carried, NEW w \in Worker,
         \/ RefreshRotate(w) \/ LogoutRevoke(w)
         \/ \E s \in SessionId : LoginIssue(w, s) \/ RefreshIssue(w, s)
  PROVE  TypeOK' /\ Carried'
<1>0. /\ req[w] \in Request /\ Fits(req[w], sessions) /\ sessions \in [SessionId -> SessionRow]
      /\ req \in [Worker -> Request]
  BY DEF TypeOK, Request, Carried
<1>1. ASSUME NEW r \in Request, Serve(w, r), sessions' \in [SessionId -> SessionRow],
             Fits(r, sessions'),
             \A s \in SessionId : sessions[s].state # "none" => sessions'[s].state # "none",
             \A s \in SessionId : sessions'[s].state # "none"
               => sessions'[s].user \in User /\ sessions'[s].dev \in Device,
             UNCHANGED <<registered, users, devices, issued, mail, audit>>
      PROVE  TypeOK' /\ Carried'
  <2>1. req' \in [Worker -> Request] /\ req'[w] = r
        /\ \A x \in Worker \ {w} : req'[x] = req[x]
    BY <1>0, <1>1 DEF Serve
  <2>2. TypeOK'
    BY <1>1, <2>1 DEF TypeOK
  <2>3. \A x \in Worker \ {w} : Fits(req'[x], sessions')
    BY <1>1, <2>1 DEF Carried, Fits
  <2>4. \A s \in issued' : sessions'[s].state # "none"
    BY <1>1 DEF Carried, TypeOK
  <2> QED BY <1>1, <2>1, <2>2, <2>3, <2>4 DEF Carried
<1>2. ASSUME NEW pc \in {"refresh_issue", "logout_audit"}, Goto(w, pc),
             req[w].sid \in SessionId, sessions[req[w].sid].state # "none",
             req[w].user \in User, pc = "refresh_issue" => req[w].dev \in Device,
             sessions' = [sessions EXCEPT ![req[w].sid].state = "revoked"],
             UNCHANGED <<registered, users, devices, issued, mail, audit>>
      PROVE  TypeOK' /\ Carried'
  <2> DEFINE r == [req[w] EXCEPT !.pc = pc]
  <2>1. r \in Request
    BY <1>0, RequestUpdate DEF RefreshStages, OtherStages
  <2>2. sessions' \in [SessionId -> SessionRow]
    BY <1>0, <1>2 DEF SessionRow
  <2>3. \A s \in SessionId : /\ sessions[s].state # "none" <=> sessions'[s].state # "none"
                             /\ sessions'[s].user = sessions[s].user
                             /\ sessions'[s].dev = sessions[s].dev
    BY <1>0, <1>2 DEF SessionRow
  <2>4. Fits(r, sessions')
    BY <1>0, <1>2, <2>3 DEF Fits, LoginStages, RefreshStages, Request
  <2>5. \A s \in SessionId : sessions'[s].state # "none"
           => sessions'[s].user \in User /\ sessions'[s].dev \in Device
    BY <2>3 DEF Carried
  <2> QED BY <1>1, <1>2, <2>1, <2>2, <2>3, <2>4, <2>5 DEF Goto
<1>3. CASE RefreshRotate(w)
  BY <1>0, <1>2, <1>3 DEF RefreshRotate, At, Fits, RefreshStages
<1>4. CASE LogoutRevoke(w)
  BY <1>0, <1>2, <1>4 DEF LogoutRevoke, At, Fits
<1>5. ASSUME NEW s \in SessionId, NEW p \in SessionId \cup {None}, NEW d \in Device \cup {None},
             NEW pc \in {"login_audit", "reply"}, Serve(w, Stage(pc, req[w].user, d, s)),
             req[w].user \in User, req[w].dev \in Device,
             sessions' = [sessions EXCEPT ![s] = NewSession(req[w].user, req[w].dev, p, w)],
             UNCHANGED <<registered, users, devices, issued, mail, audit>>
      PROVE  TypeOK' /\ Carried'
  <2> DEFINE r == Stage(pc, req[w].user, d, s)
  <2>1. r \in Request
    BY <1>5, StageType DEF OtherStages
  <2>2. NewSession(req[w].user, req[w].dev, p, w) \in SessionRow
    BY <1>5, TimeAssumption DEF NewSession, SessionRow
  <2>3. sessions' \in [SessionId -> SessionRow]
    BY <1>0, <1>5, <2>2
  <2>4. /\ sessions'[s] = NewSession(req[w].user, req[w].dev, p, w)
        /\ \A t \in SessionId \ {s} : sessions'[t] = sessions[t]
    BY <1>0, <1>5
  <2>5. Fits(r, sessions')
    BY <1>5, <2>4 DEF Fits, Stage, NewSession, LoginStages, RefreshStages
  <2>6. \A t \in SessionId : /\ sessions[t].state # "none" => sessions'[t].state # "none"
                             /\ sessions'[t].state # "none" =>
                                  sessions'[t].user \in User /\ sessions'[t].dev \in Device
    BY <1>5, <2>4 DEF Carried, NewSession
  <2> QED BY <1>1, <1>5, <2>1, <2>3, <2>5, <2>6
<1>6. ASSUME NEW s \in SessionId, LoginIssue(w, s) PROVE TypeOK' /\ Carried'
  BY <1>0, <1>5, <1>6 DEF LoginIssue, At, Fits, LoginStages
<1>7. ASSUME NEW s \in SessionId, RefreshIssue(w, s) PROVE TypeOK' /\ Carried'
  BY <1>0, <1>5, <1>7 DEF RefreshIssue, At, Fits, RefreshStages
<1> QED BY <1>3, <1>4, <1>6, <1>7

\* The remaining steps.
LEMMA OtherInv ==
  ASSUME TypeOK, Carried,
         \/ \E w \in Worker : LoginNewDevice(w) \/ Reply(w) \/ ForgotMail(w)
         \/ \E u \in User : VerifyEmail(u)
         \/ Tick
         \/ UNCHANGED vars
  PROVE  TypeOK' /\ Carried'
<1>0. \A w \in Worker : req[w] \in Request /\ Fits(req[w], sessions)
  BY DEF TypeOK, Carried
<1>1. ASSUME NEW w \in Worker, LoginNewDevice(w) PROVE TypeOK' /\ Carried'
  <2>1. devices' \in [User -> [Device -> Nat]]
    <3> DEFINE u == req[w].user
               d == req[w].dev
    <3>1. u \in User /\ d \in Device
      BY <1>0, <1>1 DEF LoginNewDevice, At, Fits, LoginStages
    <3>2. devices' = [devices EXCEPT ![u][d] = devices[u][d] + 1]
      BY <1>1 DEF LoginNewDevice
    <3>3. devices[u] \in [Device -> Nat] /\ devices[u][d] + 1 \in Nat
      BY <3>1 DEF TypeOK
    <3> HIDE DEF u, d
    <3> QED BY <3>1, <3>2, <3>3 DEF TypeOK
  <2>2. audit' \subseteq AuditAction \X (User \cup {None}) \X (SessionId \cup {None})
    BY <1>0, <1>1 DEF LoginNewDevice, TypeOK, Log, AuditAction, Fits, At
  <2>3. [req[w] EXCEPT !.pc = "login_success"] \in Request
    BY <1>0, RequestUpdate DEF LoginStages
  <2>4. Fits([req[w] EXCEPT !.pc = "login_success"], sessions)
    BY <1>0, <1>1 DEF Fits, LoginNewDevice, At, LoginStages, RefreshStages, Request
  <2> QED BY <1>1, <2>1, <2>2, <2>3, <2>4, ServeInv DEF LoginNewDevice, Goto, TypeOK
<1>2. ASSUME NEW w \in Worker, Reply(w) PROVE TypeOK' /\ Carried'
  <2>1. req[w].sid \in SessionId /\ sessions[req[w].sid].state # "none"
    BY <1>0, <1>2 DEF Reply, At, Fits
  <2>2. req' = [req EXCEPT ![w] = Idle] /\ sessions' = sessions
    BY <1>2 DEF Reply, Serve
  <2>3. req' \in [Worker -> Request] /\ \A x \in Worker : Fits(req'[x], sessions')
    BY <2>2, IdleFits DEF TypeOK, Carried, Fits
  <2> QED BY <1>2, <2>1, <2>2, <2>3 DEF Reply, TypeOK, Carried
<1>3. ASSUME NEW w \in Worker, ForgotMail(w) PROVE TypeOK' /\ Carried'
  <2>1. req[w].user \in User
    BY <1>0, <1>3 DEF ForgotMail, At, Fits
  <2>2. users[req[w].user].rtoken \in ResetToken \cup {None}
    BY <2>1 DEF TypeOK, Account
  <2>3. <<req[w].user, users[req[w].user].rtoken>> \in User \X (ResetToken \cup {None})
    BY <2>1, <2>2
  <2>4. mail' \subseteq User \X (ResetToken \cup {None})
    BY <1>3, <2>3 DEF ForgotMail, TypeOK
  <2> QED BY <1>3, <2>4, IdleFits, ServeInv DEF ForgotMail, TypeOK
<1>4. ASSUME NEW u \in User, VerifyEmail(u) PROVE TypeOK' /\ Carried'
  <2>1. users' \in [User -> Account]
    BY <1>4 DEF VerifyEmail, TypeOK, Account
  <2> QED BY <1>4, <2>1 DEF VerifyEmail, TypeOK, Carried, Fits
<1>5. CASE Tick
  <2>1. users' \in [User -> Account] /\ sessions' \in [SessionId -> SessionRow]
    BY <1>5, AccountTick, SessionTick DEF Tick, TypeOK
  <2>2. \A s \in SessionId : /\ sessions'[s].state = sessions[s].state
                             /\ sessions'[s].user = sessions[s].user
                             /\ sessions'[s].dev = sessions[s].dev
    BY <1>5 DEF Tick, TypeOK, SessionRow
  <2> QED BY <1>5, <2>1, <2>2 DEF Tick, TypeOK, Carried, Fits
<1>6. CASE UNCHANGED vars
  BY <1>6 DEF vars, TypeOK, Carried, Fits
<1> QED BY <1>1, <1>2, <1>3, <1>4, <1>5, <1>6

LEMMA StepType == TypeOK /\ Carried /\ [Next]_vars => TypeOK' /\ Carried'
  BY ReadInv, AuditInv, UserInv, SessionInv, OtherInv DEF Next, Arrive, Continue

\* In every execution the rows and the requests in flight are well formed, and what
\* a handler carries from its reads to its commits fits the stage it is at.
THEOREM TypeCorrect == Spec => []TypeOK
<1>1. Init => TypeOK /\ Carried
  BY InitType
<1>2. TypeOK /\ Carried /\ [Next]_vars => (TypeOK /\ Carried)'
  BY StepType
<1> QED BY <1>1, <1>2, PTL DEF Spec

-----------------------------------------------------------------------------
(* What any step leaves as it was                                            *)

\* The steps that matter to rotation
Rotates ==
  \E w \in Worker :
    \/ RefreshRotate(w) \/ LogoutRevoke(w)
    \/ \E s \in SessionId : RefreshRead(w, s) \/ LoginIssue(w, s) \/ RefreshIssue(w, s)

\* The others: no row of the session table changes but in age, and no refresh gets
\* ahead of its rotation.
Quiet ==
  /\ \A s \in SessionId :
       /\ sessions'[s].state = sessions[s].state /\ sessions'[s].user = sessions[s].user
       /\ sessions'[s].dev = sessions[s].dev /\ sessions'[s].parent = sessions[s].parent
       /\ sessions'[s].by = sessions[s].by
  /\ \A w \in Worker : req'[w].pc \in RefreshStages =>
       /\ req[w].pc \in RefreshStages
       /\ req'[w].sid = req[w].sid /\ req'[w].user = req[w].user /\ req'[w].dev = req[w].dev
       /\ req'[w].pc = "refresh_issue" => req[w].pc = "refresh_issue"

LEMMA Rotation == TypeOK /\ Carried /\ [Next]_vars => Rotates \/ Quiet
<1> SUFFICES ASSUME TypeOK, Carried, [Next]_vars, ~Rotates PROVE Quiet
  OBVIOUS
<1>1. CASE Tick
  BY <1>1 DEF Tick, Quiet, TypeOK, SessionRow
<1>2. CASE UNCHANGED vars
  BY <1>2 DEF vars, Quiet
<1>3. ASSUME NEW w \in Worker, NEW r, Serve(w, r), UNCHANGED sessions,
             r.pc \notin RefreshStages
      PROVE  Quiet
  BY <1>3 DEF Serve, Quiet, TypeOK
<1>4. ASSUME NEW w \in Worker, NEW pc, Goto(w, pc), UNCHANGED sessions,
             pc \notin RefreshStages
      PROVE  Quiet
  BY <1>4 DEF Serve, Goto, Quiet, TypeOK, Request
<1>5. ASSUME NEW w \in Worker, RefreshUser(w) PROVE Quiet
  <2>1. CASE Serve(w, Idle)
    BY <1>3, <1>5, <2>1 DEF RefreshUser, Idle, Stage, RefreshStages
  <2>2. CASE Goto(w, "refresh_rotate")
    <3>1. /\ \A x \in Worker \ {w} : req'[x] = req[x]
          /\ req'[w].pc = "refresh_rotate" /\ req'[w].sid = req[w].sid
          /\ req'[w].user = req[w].user /\ req'[w].dev = req[w].dev
          /\ req[w].pc \in RefreshStages /\ sessions' = sessions
      BY <1>5, <2>2 DEF Goto, Serve, TypeOK, Request, RefreshUser, At, RefreshStages
    <3> QED BY <3>1 DEF Quiet
  <2> QED BY <1>5, <2>1, <2>2 DEF RefreshUser
<1>6. ASSUME NEW w \in Worker, LoginDevice(w) PROVE Quiet
  <2> DEFINE k == devices[req[w].user][req[w].dev] > 0
             r == [req[w] EXCEPT !.pc = IF k THEN "login_success" ELSE "login_new_device",
                                 !.known = k]
  <2>1. r.pc \notin RefreshStages
    BY DEF TypeOK, Request, RefreshStages
  <2> QED BY <1>3, <1>6, <2>1 DEF LoginDevice
<1>7. ASSUME NEW w \in Worker, Arrive(w) PROVE Quiet
  <2> USE DEF RefreshStages, Stage
  <2>1. ASSUME NEW u \in User, LoginUnknown(w, u) PROVE Quiet
    BY <2>1 DEF LoginUnknown, Quiet
  <2>2. ASSUME NEW u \in User, RegisterRead(w, u) \/ ForgotRead(w, u) PROVE Quiet
    BY <1>3, <2>2 DEF RegisterRead, ForgotRead
  <2>3. ASSUME NEW u \in User, LoginWrong(w, u) PROVE Quiet
    BY <1>3, <2>3 DEF LoginWrong
  <2>4. ASSUME NEW u \in User, NEW d \in Device, LoginRight(w, u, d) PROVE Quiet
    BY <1>3, <2>4 DEF LoginRight
  <2>5. ASSUME NEW a \in SessionId, NEW t \in SessionId \cup {None}, LogoutRead(w, a, t)
        PROVE  Quiet
    BY <1>3, <2>5 DEF LogoutRead
  <2>6. ASSUME NEW u \in User, NEW t \in ResetToken, ResetRead(w, u, t) PROVE Quiet
    BY <1>3, <2>6 DEF ResetRead
  <2>7. ASSUME NEW u \in User, NEW b \in BOOLEAN, AdminWrite(w, u, b) PROVE Quiet
    BY <1>3, <2>7 DEF AdminWrite
  <2>8. CASE Abort(w)
    BY <1>3, <2>8 DEF Abort, Idle
  <2> QED
    BY <1>7, <2>1, <2>2, <2>3, <2>4, <2>5, <2>6, <2>7, <2>8 DEF Arrive, Rotates
<1>8. ASSUME NEW w \in Worker, Continue(w) PROVE Quiet
  <2>1. /\ ~RefreshRotate(w) /\ ~LogoutRevoke(w)
        /\ ~\E s \in SessionId : LoginIssue(w, s) \/ RefreshIssue(w, s)
    BY DEF Rotates
  <2> QED
    BY <1>3, <1>4, <1>5, <1>6, <1>8, <2>1
    DEF Continue, RegisterInsert, RegisterAudit, WrongPassword, FailureAudit, LoginNewDevice,
        LoginSuccess, LoginAudit, Reply, LogoutAudit, ForgotWrite, ForgotMail, ResetWrite,
        ResetAudit, AdminAudit, Redeem, Stage, Idle, RefreshStages
<1>9. ASSUME NEW u \in User, VerifyEmail(u) PROVE Quiet
  BY <1>9 DEF VerifyEmail, Quiet
<1> QED BY <1>1, <1>2, <1>7, <1>8, <1>9 DEF Next

-----------------------------------------------------------------------------
(* Rotation                                                                  *)

\* A refresh in flight holds a session of its user, revokes it before it replaces it,
\* and has not replaced it yet.
Rotating ==
  /\ \A w \in Worker : req[w].pc \in RefreshStages =>
       /\ sessions[req[w].sid].user = req[w].user /\ sessions[req[w].sid].dev = req[w].dev
       /\ req[w].pc = "refresh_issue" => sessions[req[w].sid].state = "revoked"
       /\ \A s \in SessionId : sessions[s].parent = req[w].sid => sessions[s].by # w
  /\ \A s \in SessionId : sessions[s].state = "none" =>
       sessions[s].parent = None /\ sessions[s].user = None

RotationInv == Rotating /\ ParentRevoked /\ OneSuccessorPerThread

LEMMA InitRotation == Init => RotationInv
  BY NoneAssumption
  DEF Init, RotationInv, Rotating, ParentRevoked, OneSuccessorPerThread, NoSession, Idle,
      Stage, RefreshStages

LEMMA QuietRotation ==
  ASSUME TypeOK, Carried, RotationInv, Quiet PROVE RotationInv'
<1>1. Rotating'
  BY DEF Quiet, RotationInv, Rotating, TypeOK, Carried, Fits
<1>2. ParentRevoked'
  BY DEF Quiet, RotationInv, ParentRevoked, TypeOK, SessionRow
<1>3. OneSuccessorPerThread'
  BY DEF Quiet, RotationInv, OneSuccessorPerThread
<1> QED BY <1>1, <1>2, <1>3 DEF RotationInv

\* Revoking a session that exists, with the thread moving on to a stage that fits
LEMMA RevokeRotation ==
  ASSUME TypeOK, Carried, RotationInv, NEW w \in Worker, RefreshRotate(w) \/ LogoutRevoke(w)
  PROVE  RotationInv'
<1> DEFINE p == req[w].sid
<1>1. p \in SessionId /\ sessions[p].state # "none"
  BY DEF RefreshRotate, LogoutRevoke, At, Carried, Fits, RefreshStages
<1>2. /\ sessions'[p].state = "revoked"
      /\ \A s \in SessionId \ {p} : sessions'[s].state = sessions[s].state
      /\ \A s \in SessionId :
           /\ sessions'[s].user = sessions[s].user /\ sessions'[s].dev = sessions[s].dev
           /\ sessions'[s].parent = sessions[s].parent /\ sessions'[s].by = sessions[s].by
  BY <1>1 DEF RefreshRotate, LogoutRevoke, TypeOK, SessionRow
<1>3. /\ \A x \in Worker \ {w} : req'[x] = req[x]
      /\ req'[w].sid = p /\ req'[w].user = req[w].user /\ req'[w].dev = req[w].dev
      /\ req'[w].pc \in RefreshStages => req[w].pc \in RefreshStages
  BY DEF RefreshRotate, LogoutRevoke, Goto, Serve, At, TypeOK, Request, RefreshStages
<1>4. Rotating'
  <2>1. ASSUME NEW x \in Worker, req'[x].pc \in RefreshStages
        PROVE  /\ req[x].pc \in RefreshStages /\ req'[x].sid = req[x].sid
               /\ req'[x].user = req[x].user /\ req'[x].dev = req[x].dev
               /\ req[x].sid \in SessionId
               /\ req'[x].pc = "refresh_issue" => sessions'[req[x].sid].state = "revoked"
    BY <1>1, <1>2, <1>3, <2>1 DEF Carried, Fits, RotationInv, Rotating
  <2> QED BY <1>1, <1>2, <2>1 DEF RotationInv, Rotating
<1>5. ParentRevoked'
  BY <1>1, <1>2 DEF RotationInv, ParentRevoked, TypeOK, SessionRow
<1>6. OneSuccessorPerThread'
  BY <1>2 DEF RotationInv, OneSuccessorPerThread
<1> QED BY <1>4, <1>5, <1>6 DEF RotationInv

LEMMA ReadRotation ==
  ASSUME TypeOK, Carried, RotationInv, NEW w \in Worker, NEW p \in SessionId, RefreshRead(w, p)
  PROVE  RotationInv'
<1>1. \A s \in SessionId : sessions[s].parent # p
  BY NoneAssumption DEF RotationInv, ParentRevoked, RefreshRead
<1>2. /\ \A x \in Worker \ {w} : req'[x] = req[x]
      /\ req'[w] = Stage("refresh_user", sessions[p].user, sessions[p].dev, p)
      /\ sessions' = sessions
  BY DEF RefreshRead, Serve, TypeOK
<1>3. Rotating'
  BY <1>1, <1>2 DEF Stage, RotationInv, Rotating
<1> QED BY <1>2, <1>3 DEF RotationInv, ParentRevoked, OneSuccessorPerThread

LEMMA IssueRotation ==
  ASSUME TypeOK, Carried, RotationInv, NEW w \in Worker, NEW n \in SessionId,
         LoginIssue(w, n) \/ RefreshIssue(w, n)
  PROVE  RotationInv'
<1> DEFINE p == IF req[w].pc = "refresh_issue" THEN req[w].sid ELSE None
<1>1. /\ sessions[n].state = "none" /\ sessions'[n].parent = p /\ sessions'[n].by = w
      /\ sessions'[n].state = "live"
      /\ \A s \in SessionId \ {n} : sessions'[s] = sessions[s]
  BY DEF LoginIssue, RefreshIssue, At, TypeOK, NewSession
<1>2. /\ \A x \in Worker \ {w} : req'[x] = req[x]
      /\ req'[w].pc \notin RefreshStages
  BY DEF LoginIssue, RefreshIssue, Serve, Stage, TypeOK, RefreshStages
<1>3. \A s \in SessionId : sessions[s].parent # n
  BY <1>1, NoneAssumption DEF RotationInv, ParentRevoked
<1>4. p # None => /\ p \in SessionId /\ sessions[p].state = "revoked"
                 /\ \A s \in SessionId : sessions[s].parent = p => sessions[s].by # w
  BY DEF RotationInv, Rotating, Carried, Fits, RefreshStages
<1>5. Rotating'
  <2>1. ASSUME NEW x \in Worker, req'[x].pc \in RefreshStages
        PROVE  /\ x # w /\ req'[x] = req[x] /\ req[x].sid \in SessionId \ {n}
               /\ \A s \in SessionId : sessions'[s].parent = req[x].sid => sessions'[s].by # x
    BY <1>1, <1>2, <2>1 DEF Carried, Fits, RotationInv, Rotating
  <2> QED BY <1>1, <2>1 DEF RotationInv, Rotating
<1>6. ParentRevoked'
  <2>1. ASSUME NEW s \in SessionId, sessions'[s].parent # None
        PROVE  /\ sessions'[s].parent \in SessionId \ {n}
               /\ sessions[sessions'[s].parent].state = "revoked"
    BY <1>1, <1>3, <1>4, <2>1 DEF RotationInv, ParentRevoked, TypeOK, SessionRow
  <2> QED BY <1>1, <2>1 DEF ParentRevoked
<1>7. OneSuccessorPerThread'
  <2> HIDE DEF p
  <2> QED BY <1>1, <1>4 DEF RotationInv, OneSuccessorPerThread
<1> QED BY <1>5, <1>6, <1>7 DEF RotationInv

LEMMA StepRotation ==
  TypeOK /\ Carried /\ RotationInv /\ [Next]_vars => RotationInv'
  BY Rotation, QuietRotation, RevokeRotation, ReadRotation, IssueRotation DEF Rotates

\* A rotation hands out a successor only for a session that is revoked, in every
\* interleaving of requests and failures.
THEOREM ParentRevokedCorrect == Spec => []ParentRevoked
<1>1. Init => TypeOK /\ Carried /\ RotationInv
  BY InitType, InitRotation
<1>2. TypeOK /\ Carried /\ RotationInv /\ [Next]_vars => (TypeOK /\ Carried /\ RotationInv)'
  BY StepType, StepRotation
<1>3. RotationInv => ParentRevoked
  BY DEF RotationInv
<1> QED BY <1>1, <1>2, <1>3, PTL DEF Spec

\* However many threads the pool has, none adds two successors to a session.
THEOREM OneSuccessorPerThreadCorrect == Spec => []OneSuccessorPerThread
<1>1. Init => TypeOK /\ Carried /\ RotationInv
  BY InitType, InitRotation
<1>2. TypeOK /\ Carried /\ RotationInv /\ [Next]_vars => (TypeOK /\ Carried /\ RotationInv)'
  BY StepType, StepRotation
<1>3. RotationInv => OneSuccessorPerThread
  BY DEF RotationInv
<1> QED BY <1>1, <1>2, <1>3, PTL DEF Spec

-----------------------------------------------------------------------------
(* How threads move between the stages of login and refresh                  *)

\* The stages between the admission of a request and its answer
Answering == LoginStages \cup RefreshStages \cup {"login_audit", "reply"}

Moves(w) ==
  \/ \E u \in User, d \in Device : LoginRight(w, u, d)
  \/ LoginDevice(w) \/ LoginNewDevice(w) \/ LoginSuccess(w) \/ LoginAudit(w)
  \/ RefreshUser(w) \/ RefreshRotate(w)
  \/ \E s \in SessionId : RefreshRead(w, s) \/ LoginIssue(w, s) \/ RefreshIssue(w, s)

Only(w) == \A x \in Worker \ {w} : req'[x] = req[x]

\* One thread takes a step: it moves between those stages or leaves them.
LEMMA Flow ==
  ASSUME TypeOK, [Next]_vars
  PROVE  \/ req' = req
         \/ \E w \in Worker : /\ Only(w)
                              /\ Moves(w) \/ req'[w].pc \notin Answering
<1>1. ASSUME NEW w \in Worker, NEW r, Serve(w, r), Moves(w) \/ r.pc \notin Answering
      PROVE  /\ Only(w)
             /\ Moves(w) \/ req'[w].pc \notin Answering
  BY <1>1 DEF Serve, TypeOK, Only
<1>2. ASSUME NEW w \in Worker, NEW pc, Goto(w, pc), Moves(w) \/ pc \notin Answering
      PROVE  /\ Only(w)
             /\ Moves(w) \/ req'[w].pc \notin Answering
  BY <1>2 DEF Goto, Serve, TypeOK, Request, Only
<1>3. ASSUME NEW w \in Worker, Moves(w) PROVE Only(w)
  <2>1. \E r : Serve(w, r)
    BY <1>3 DEF Moves, LoginRight, LoginDevice, LoginNewDevice, LoginSuccess, LoginAudit,
                RefreshUser, RefreshRotate, RefreshRead, LoginIssue, RefreshIssue, Goto
  <2> QED BY <2>1 DEF Serve, TypeOK, Only
<1>4. ASSUME NEW w \in Worker, Arrive(w), ~Moves(w)
      PROVE  \/ req' = req
             \/ /\ Only(w)
                /\ req'[w].pc \notin Answering
  <2> USE DEF Answering, LoginStages, RefreshStages, Stage
  <2>1. ASSUME NEW u \in User, LoginUnknown(w, u) PROVE req' = req
    BY <2>1 DEF LoginUnknown
  <2>2. ASSUME NEW u \in User, RegisterRead(w, u) \/ ForgotRead(w, u)
        PROVE  Only(w) /\ req'[w].pc \notin Answering
    BY <1>1, <1>4, <2>2 DEF RegisterRead, ForgotRead
  <2>3. ASSUME NEW u \in User, LoginWrong(w, u)
        PROVE  Only(w) /\ req'[w].pc \notin Answering
    BY <1>1, <1>4, <2>3 DEF LoginWrong
  <2>4. ASSUME NEW a \in SessionId, NEW t \in SessionId \cup {None}, LogoutRead(w, a, t)
        PROVE  Only(w) /\ req'[w].pc \notin Answering
    BY <1>1, <1>4, <2>4 DEF LogoutRead
  <2>5. ASSUME NEW u \in User, NEW t \in ResetToken, ResetRead(w, u, t)
        PROVE  Only(w) /\ req'[w].pc \notin Answering
    BY <1>1, <1>4, <2>5 DEF ResetRead
  <2>6. ASSUME NEW u \in User, NEW b \in BOOLEAN, AdminWrite(w, u, b)
        PROVE  Only(w) /\ req'[w].pc \notin Answering
    BY <1>1, <1>4, <2>6 DEF AdminWrite
  <2>7. ASSUME Abort(w)
        PROVE  Only(w) /\ req'[w].pc \notin Answering
    BY <1>1, <1>4, <2>7 DEF Abort, Idle
  <2> QED BY <1>4, <2>1, <2>2, <2>3, <2>4, <2>5, <2>6, <2>7 DEF Arrive, Moves
<1>5. ASSUME NEW w \in Worker, Continue(w), ~Moves(w)
      PROVE  Only(w) /\ req'[w].pc \notin Answering
  <2> USE DEF Answering, LoginStages, RefreshStages
  <2>1. ASSUME \/ RegisterAudit(w) \/ FailureAudit(w) \/ Reply(w) \/ LogoutAudit(w)
               \/ ForgotMail(w) \/ ResetAudit(w) \/ AdminAudit(w)
        PROVE  Only(w) /\ req'[w].pc \notin Answering
    BY <1>1, <1>5, <2>1 DEF RegisterAudit, FailureAudit, Reply, LogoutAudit, ForgotMail, ResetAudit,
                      AdminAudit, Stage, Idle
  <2>2. ASSUME WrongPassword(w) \/ ResetWrite(w)
        PROVE  Only(w) /\ req'[w].pc \notin Answering
    BY <1>1, <1>5, <2>2 DEF WrongPassword, ResetWrite, Redeem, Stage
  <2>3. ASSUME LogoutRevoke(w) \/ \E t \in ResetToken : ForgotWrite(w, t)
        PROVE  Only(w) /\ req'[w].pc \notin Answering
    BY <1>2, <1>5, <2>3 DEF LogoutRevoke, ForgotWrite
  <2>4. ASSUME RegisterInsert(w)
        PROVE  Only(w) /\ req'[w].pc \notin Answering
    BY <1>1, <1>2, <1>5, <2>4 DEF RegisterInsert, Stage, Idle
  <2> QED BY <1>5, <2>1, <2>2, <2>3, <2>4 DEF Continue, Moves
<1>6. ASSUME Tick \/ UNCHANGED vars \/ \E u \in User : VerifyEmail(u) PROVE req' = req
  BY <1>6 DEF Tick, vars, VerifyEmail
<1> QED BY <1>3, <1>4, <1>5, <1>6 DEF Next

LEMMA FlowOf ==
  ASSUME TypeOK, [Next]_vars, NEW w \in Worker
  PROVE  req'[w] = req[w] \/ Moves(w) \/ req'[w].pc \notin Answering
<1>1. ASSUME NEW x \in Worker, Only(x), Moves(x) \/ req'[x].pc \notin Answering
      PROVE  req'[w] = req[w] \/ Moves(w) \/ req'[w].pc \notin Answering
  <2>1. CASE x = w
    BY <1>1, <2>1
  <2>2. CASE x # w
    BY <1>1, <2>2 DEF Only
  <2> QED BY <2>1, <2>2
<1>2. CASE req' = req
  BY <1>2
<1>3. req' = req \/ \E x \in Worker : Only(x) /\ (Moves(x) \/ req'[x].pc \notin Answering)
  BY Flow
<1> QED BY <1>1, <1>2, <1>3

LEMMA Writes ==
  ASSUME TypeOK, [Next]_vars
  PROVE  /\ audit \subseteq audit'
         /\ devices' = devices \/ \E w \in Worker : LoginNewDevice(w)
         /\ issued' = issued \/ \E w \in Worker : Reply(w)
<1> DEFINE G == /\ audit \subseteq audit'
                /\ devices' = devices \/ \E w \in Worker : LoginNewDevice(w)
                /\ issued' = issued \/ \E w \in Worker : Reply(w)
<1>1. ASSUME NEW w \in Worker, Arrive(w) PROVE G
  <2>1. audit \subseteq audit' /\ devices' = devices /\ issued' = issued
    BY <1>1 DEF Arrive, Log, RegisterRead, LoginUnknown, LoginWrong, LoginRight, RefreshRead,
                LogoutRead, ForgotRead, ResetRead, AdminWrite, Abort
  <2> QED BY <2>1
<1>2. ASSUME NEW w \in Worker, Continue(w) PROVE G
  <2>1. audit \subseteq audit'
    BY <1>2 DEF Continue, Log, RegisterInsert, RegisterAudit, WrongPassword, FailureAudit,
                LoginDevice, LoginNewDevice, LoginSuccess, LoginIssue, LoginAudit, Reply,
                RefreshUser, RefreshRotate, RefreshIssue, LogoutRevoke, LogoutAudit,
                ForgotWrite, ForgotMail, ResetWrite, ResetAudit, AdminAudit
  <2>2. devices' = devices \/ LoginNewDevice(w)
    BY <1>2 DEF Continue, RegisterInsert, RegisterAudit, WrongPassword, FailureAudit,
                LoginDevice, LoginSuccess, LoginIssue, LoginAudit, Reply,
                RefreshUser, RefreshRotate, RefreshIssue, LogoutRevoke, LogoutAudit,
                ForgotWrite, ForgotMail, ResetWrite, ResetAudit, AdminAudit
  <2>3. issued' = issued \/ Reply(w)
    BY <1>2 DEF Continue, RegisterInsert, RegisterAudit, WrongPassword, FailureAudit,
                LoginDevice, LoginNewDevice, LoginSuccess, LoginIssue, LoginAudit,
                RefreshUser, RefreshRotate, RefreshIssue, LogoutRevoke, LogoutAudit,
                ForgotWrite, ForgotMail, ResetWrite, ResetAudit, AdminAudit
  <2> QED BY <2>1, <2>2, <2>3
<1>3. ASSUME Tick \/ UNCHANGED vars \/ \E u \in User : VerifyEmail(u) PROVE G
  <2>1. audit \subseteq audit' /\ devices' = devices /\ issued' = issued
    BY <1>3 DEF Tick, vars, VerifyEmail
  <2> QED BY <2>1
<1> QED BY <1>1, <1>2, <1>3 DEF Next

\* A step adds at most one row to the session table, for the request that asked for it.
LEMMA RowStep ==
  ASSUME TypeOK, Carried, [Next]_vars, NEW s \in SessionId
  PROVE  \/ /\ sessions'[s].state # "none" <=> sessions[s].state # "none"
            /\ sessions'[s].user = sessions[s].user /\ sessions'[s].dev = sessions[s].dev
            /\ sessions'[s].parent = sessions[s].parent
         \/ \E w \in Worker :
              /\ LoginIssue(w, s) \/ RefreshIssue(w, s)
              /\ sessions'[s] = NewSession(req[w].user, req[w].dev,
                    IF req[w].pc = "refresh_issue" THEN req[w].sid ELSE None, w)
<1>1. CASE Quiet
  BY <1>1 DEF Quiet
<1>2. ASSUME NEW w \in Worker, RefreshRotate(w) \/ LogoutRevoke(w)
      PROVE  /\ sessions'[s].state # "none" <=> sessions[s].state # "none"
             /\ sessions'[s].user = sessions[s].user /\ sessions'[s].dev = sessions[s].dev
             /\ sessions'[s].parent = sessions[s].parent
  BY <1>2 DEF RefreshRotate, LogoutRevoke, At, TypeOK, SessionRow, Carried, Fits, RefreshStages
<1>3. ASSUME NEW w \in Worker, NEW p \in SessionId, RefreshRead(w, p)
      PROVE  sessions' = sessions
  BY <1>3 DEF RefreshRead
<1>4. ASSUME NEW w \in Worker, NEW n \in SessionId, LoginIssue(w, n) \/ RefreshIssue(w, n)
      PROVE  \/ s # n /\ sessions'[s] = sessions[s]
             \/ s = n /\ sessions'[s] = NewSession(req[w].user, req[w].dev,
                    IF req[w].pc = "refresh_issue" THEN req[w].sid ELSE None, w)
  BY <1>4 DEF LoginIssue, RefreshIssue, At, TypeOK
<1> QED BY <1>1, <1>2, <1>3, <1>4, Rotation DEF Rotates

-----------------------------------------------------------------------------
(* Known devices                                                             *)

DeviceInv ==
  /\ \A u \in User, d \in Device : devices[u][d] > 0 => <<"new_device_login", u, None>> \in audit
  /\ \A w \in Worker : req[w].pc \in {"login_success", "login_issue"} =>
       devices[req[w].user][req[w].dev] > 0
  /\ SessionHasDevice

LEMMA InitDevice == Init => DeviceInv
  BY DEF Init, DeviceInv, SessionHasDevice, NoSession, Idle, Stage

LEMMA StepDevice ==
  ASSUME TypeOK, Carried, RotationInv, DeviceInv, [Next]_vars PROVE DeviceInv'
<1>1. ASSUME NEW w \in Worker, LoginNewDevice(w)
      PROVE  /\ req[w].user \in User /\ req[w].dev \in Device
             /\ devices'[req[w].user][req[w].dev] > 0
             /\ \A u \in User, d \in Device : devices'[u][d] > 0
                  => devices[u][d] > 0 \/ u = req[w].user
             /\ \A u \in User, d \in Device : devices[u][d] > 0 => devices'[u][d] > 0
             /\ <<"new_device_login", req[w].user, None>> \in audit'
  <2>1. req[w].user \in User /\ req[w].dev \in Device
    BY <1>1 DEF LoginNewDevice, At, Carried, Fits, LoginStages
  <2> QED BY <1>1, <2>1 DEF LoginNewDevice, Log, TypeOK
<1>2. \A u \in User, d \in Device : devices[u][d] > 0 => devices'[u][d] > 0
  BY <1>1, Writes
<1>3. \A u \in User, d \in Device : devices'[u][d] > 0 => <<"new_device_login", u, None>> \in audit'
  BY <1>1, Writes DEF DeviceInv
<1>4. \A w \in Worker : req'[w].pc \in {"login_success", "login_issue"} =>
        devices'[req'[w].user][req'[w].dev] > 0
  <2> SUFFICES ASSUME NEW w \in Worker, req'[w].pc \in {"login_success", "login_issue"}
               PROVE  devices'[req'[w].user][req'[w].dev] > 0
    OBVIOUS
  <2>1. CASE req'[w] = req[w]
    BY <1>2, <2>1 DEF DeviceInv, Carried, Fits, LoginStages
  <2>2. CASE Moves(w)
    <3>1. CASE LoginDevice(w)
      <4>1. req'[w].user = req[w].user /\ req'[w].dev = req[w].dev /\ devices' = devices
            /\ (devices[req[w].user][req[w].dev] > 0 \/ req'[w].pc = "login_new_device")
        BY <3>1 DEF LoginDevice, Serve, TypeOK, Request
      <4> QED BY <4>1
    <3>2. CASE LoginNewDevice(w)
      <4>1. req'[w].user = req[w].user /\ req'[w].dev = req[w].dev
        BY <3>2 DEF LoginNewDevice, Goto, Serve, TypeOK, Request
      <4> QED BY <1>1, <3>2, <4>1
    <3>3. CASE LoginSuccess(w)
      <4>1. /\ req'[w].user = req[w].user /\ req'[w].dev = req[w].dev /\ devices' = devices
            /\ req[w].pc = "login_success"
        BY <3>3 DEF LoginSuccess, At, Serve, Stage, TypeOK
      <4> QED BY <4>1 DEF DeviceInv
    <3>4. ASSUME ~LoginDevice(w), ~LoginNewDevice(w), ~LoginSuccess(w)
          PROVE  req'[w].pc \notin {"login_success", "login_issue"}
      <4>1. ASSUME NEW r, Serve(w, r), r.pc \notin {"login_success", "login_issue"}
            PROVE  req'[w].pc \notin {"login_success", "login_issue"}
        BY <4>1 DEF Serve, TypeOK
      <4>2. ASSUME NEW pc, Goto(w, pc), pc \notin {"login_success", "login_issue"}
            PROVE  req'[w].pc \notin {"login_success", "login_issue"}
        BY <4>2 DEF Goto, Serve, TypeOK, Request
      <4>3. ASSUME NEW u \in User, NEW d \in Device, LoginRight(w, u, d)
            PROVE  req'[w].pc \notin {"login_success", "login_issue"}
        BY <4>1, <4>3 DEF LoginRight, Stage
      <4>4. ASSUME NEW s \in SessionId, RefreshRead(w, s) \/ LoginIssue(w, s) \/ RefreshIssue(w, s)
            PROVE  req'[w].pc \notin {"login_success", "login_issue"}
        BY <4>1, <4>4 DEF RefreshRead, LoginIssue, RefreshIssue, Stage
      <4>5. ASSUME LoginAudit(w) \/ RefreshUser(w) \/ RefreshRotate(w)
            PROVE  req'[w].pc \notin {"login_success", "login_issue"}
        BY <4>1, <4>2, <4>5 DEF LoginAudit, RefreshUser, RefreshRotate, Stage, Idle
      <4> QED BY <2>2, <3>4, <4>3, <4>4, <4>5 DEF Moves
    <3> QED BY <3>1, <3>2, <3>3, <3>4
  <2> QED BY <2>1, <2>2, FlowOf DEF Answering, LoginStages
<1>5. SessionHasDevice'
  <2> SUFFICES ASSUME NEW s \in SessionId, sessions'[s].state # "none"
               PROVE  /\ devices'[sessions'[s].user][sessions'[s].dev] > 0
                      /\ <<"new_device_login", sessions'[s].user, None>> \in audit'
    BY DEF SessionHasDevice
  <2>1. ASSUME sessions[s].state # "none", sessions'[s].user = sessions[s].user,
               sessions'[s].dev = sessions[s].dev
        PROVE  /\ devices'[sessions'[s].user][sessions'[s].dev] > 0
               /\ <<"new_device_login", sessions'[s].user, None>> \in audit'
    BY <1>2, <1>3, <2>1 DEF Carried, DeviceInv, SessionHasDevice
  <2>2. ASSUME NEW w \in Worker, LoginIssue(w, s) \/ RefreshIssue(w, s),
               sessions'[s].user = req[w].user, sessions'[s].dev = req[w].dev
        PROVE  /\ devices'[sessions'[s].user][sessions'[s].dev] > 0
               /\ <<"new_device_login", sessions'[s].user, None>> \in audit'
    <3>1. req[w].user \in User /\ req[w].dev \in Device
      BY <2>2 DEF LoginIssue, RefreshIssue, At, Carried, Fits, LoginStages, RefreshStages
    <3>2. devices[req[w].user][req[w].dev] > 0
      BY <2>2 DEF LoginIssue, RefreshIssue, At, DeviceInv, SessionHasDevice, Carried, Fits,
                  RotationInv, Rotating, RefreshStages
    <3> QED BY <1>2, <1>3, <2>2, <3>1, <3>2
  <2>3. \A u, d, p, x : NewSession(u, d, p, x).user = u /\ NewSession(u, d, p, x).dev = d
    BY DEF NewSession
  <2> QED BY <2>1, <2>2, <2>3, RowStep
<1> QED BY <1>3, <1>4, <1>5 DEF DeviceInv

\* Every session is on a device the anomaly detection has recorded and audited.
THEOREM SessionHasDeviceCorrect == Spec => []SessionHasDevice
<1> DEFINE Inv == TypeOK /\ Carried /\ RotationInv /\ DeviceInv
<1>1. Init => Inv
  BY InitType, InitRotation, InitDevice
<1>2. Inv /\ [Next]_vars => Inv'
  BY StepType, StepRotation, StepDevice
<1>3. Inv => SessionHasDevice
  BY DEF DeviceInv
<1> QED BY <1>1, <1>2, <1>3, PTL DEF Spec

-----------------------------------------------------------------------------
(* Audit rows                                                                *)

AuditedInv ==
  /\ \A w \in Worker : req[w].pc \in {"login_audit", "reply"} =>
       sessions[req[w].sid].user = req[w].user
  /\ \A w \in Worker : req[w].pc = "reply" =>
       \/ sessions[req[w].sid].parent # None
       \/ <<"login", req[w].user, req[w].sid>> \in audit
  /\ LoginAuditedFirst

LEMMA InitAudited == Init => AuditedInv
  BY DEF Init, AuditedInv, LoginAuditedFirst, Idle, Stage

LEMMA StepAudited ==
  ASSUME TypeOK, Carried, RotationInv, AuditedInv, [Next]_vars PROVE AuditedInv'
<1>1. \A s \in SessionId : sessions[s].state # "none" =>
        sessions'[s].user = sessions[s].user /\ sessions'[s].parent = sessions[s].parent
  BY RowStep DEF LoginIssue, RefreshIssue
<1>2. ASSUME NEW w \in Worker, req'[w].pc \in {"login_audit", "reply"}
      PROVE  /\ sessions'[req'[w].sid].user = req'[w].user
             /\ req'[w].pc = "reply" => \/ sessions'[req'[w].sid].parent # None
                                       \/ <<"login", req'[w].user, req'[w].sid>> \in audit'
  <2>1. CASE req'[w] = req[w]
    BY <1>1, <1>2, <2>1, Writes DEF AuditedInv, Carried, Fits
  <2>2. ASSUME NEW s \in SessionId, LoginIssue(w, s)
        PROVE  /\ req'[w].pc = "login_audit" /\ req'[w].sid = s
               /\ req'[w].user = req[w].user /\ sessions'[s].user = req[w].user
    BY <2>2 DEF LoginIssue, Serve, Stage, NewSession, TypeOK
  <2>3. ASSUME NEW s \in SessionId, RefreshIssue(w, s)
        PROVE  /\ req'[w].sid = s /\ req'[w].user = req[w].user
               /\ sessions'[s].user = req[w].user /\ sessions'[s].parent # None
    BY <2>3, NoneAssumption
    DEF RefreshIssue, Serve, Stage, NewSession, TypeOK, At, Carried, Fits, RefreshStages
  <2>4. CASE LoginAudit(w)
    <3>1. /\ req'[w].sid = req[w].sid /\ req'[w].user = req[w].user
          /\ <<"login", req[w].user, req[w].sid>> \in audit' /\ req[w].pc = "login_audit"
      BY <2>4 DEF LoginAudit, Log, Goto, Serve, At, TypeOK, Request
    <3> QED BY <1>1, <3>1 DEF AuditedInv, Carried, Fits
  <2>5. ASSUME Moves(w), ~LoginAudit(w),
               ~\E s \in SessionId : LoginIssue(w, s) \/ RefreshIssue(w, s)
        PROVE  req'[w].pc \notin {"login_audit", "reply"}
    <3>1. ASSUME NEW r, Serve(w, r), r.pc \notin {"login_audit", "reply"}
          PROVE  req'[w].pc \notin {"login_audit", "reply"}
      BY <3>1 DEF Serve, TypeOK
    <3>2. ASSUME NEW pc, Goto(w, pc), pc \notin {"login_audit", "reply"}
          PROVE  req'[w].pc \notin {"login_audit", "reply"}
      BY <3>2 DEF Goto, Serve, TypeOK, Request
    <3>3. ASSUME NEW u \in User, NEW d \in Device, LoginRight(w, u, d)
          PROVE  req'[w].pc \notin {"login_audit", "reply"}
      BY <3>1, <3>3 DEF LoginRight, Stage
    <3>4. ASSUME LoginDevice(w) PROVE req'[w].pc \notin {"login_audit", "reply"}
      BY <3>4 DEF LoginDevice, Serve, TypeOK, Request
    <3>5. ASSUME NEW s \in SessionId, RefreshRead(w, s)
          PROVE  req'[w].pc \notin {"login_audit", "reply"}
      BY <3>1, <3>5 DEF RefreshRead, Stage
    <3>6. ASSUME LoginNewDevice(w) \/ RefreshUser(w) \/ RefreshRotate(w) \/ LoginSuccess(w)
          PROVE  req'[w].pc \notin {"login_audit", "reply"}
      BY <3>1, <3>2, <3>6
      DEF LoginNewDevice, RefreshUser, RefreshRotate, LoginSuccess, Stage, Idle
    <3> QED BY <2>5, <3>3, <3>4, <3>5, <3>6 DEF Moves
  <2> QED BY <1>2, <2>1, <2>2, <2>3, <2>4, <2>5, FlowOf DEF Answering
<1>3. LoginAuditedFirst'
  <2> SUFFICES ASSUME NEW s \in issued', sessions'[s].parent = None
               PROVE  <<"login", sessions'[s].user, s>> \in audit'
    BY DEF LoginAuditedFirst
  <2>1. CASE s \in issued
    BY <1>1, <2>1, Writes DEF AuditedInv, LoginAuditedFirst, Carried, TypeOK
  <2>2. ASSUME NEW w \in Worker, Reply(w), s \notin issued
        PROVE  <<"login", sessions'[s].user, s>> \in audit'
    <3>1. /\ s = req[w].sid /\ sessions' = sessions /\ audit' = audit /\ req[w].pc = "reply"
      BY <2>2 DEF Reply, At
    <3> QED BY <3>1 DEF AuditedInv
  <2> QED BY <2>1, <2>2, Writes
<1> QED BY <1>2, <1>3 DEF AuditedInv

\* No client holds the tokens of a login that has no audit row of its own, be it a user's
\* first login or a later one (auth.py:180-181).
THEOREM LoginAuditedFirstCorrect == Spec => []LoginAuditedFirst
<1> DEFINE Inv == TypeOK /\ Carried /\ RotationInv /\ AuditedInv
<1>1. Init => Inv
  BY InitType, InitRotation, InitAudited
<1>2. Inv /\ [Next]_vars => Inv'
  BY StepType, StepRotation, StepAudited
<1>3. Inv => LoginAuditedFirst
  BY DEF AuditedInv
<1> QED BY <1>1, <1>2, <1>3, PTL DEF Spec

-----------------------------------------------------------------------------
(* Disabled accounts                                                         *)

LEMMA StepDrains ==
  ASSUME TypeOK, Carried, RotationInv, [Next]_vars, NEW u \in User,
         ~users[u].active, Admitted(u) = {}
  PROVE  SessionsOf(u)' = SessionsOf(u) /\ (users'[u].active \/ Admitted(u)' = {})
<1>1. ASSUME NEW s \in SessionId
      PROVE  sessions'[s].user = u <=> sessions[s].user = u
  <2>1. ASSUME NEW w \in Worker, LoginIssue(w, s) \/ RefreshIssue(w, s)
        PROVE  req[w].user # u /\ sessions[s].user = None
    BY <2>1 DEF LoginIssue, RefreshIssue, At, Admitted, LoginStages, RefreshStages,
                RotationInv, Rotating
  <2>2. \A v, d, p, x : NewSession(v, d, p, x).user = v
    BY DEF NewSession
  <2> QED BY <2>1, <2>2, RowStep, NoneAssumption
<1>2. ASSUME NEW w \in Worker, req'[w].user = u,
             req'[w].pc \in LoginStages \cup (RefreshStages \ {"refresh_user"})
      PROVE  FALSE
  <2> USE DEF LoginStages, RefreshStages
  <2>1. CASE req'[w] = req[w]
    BY <1>2, <2>1 DEF Admitted
  <2>2. ASSUME NEW v \in User, NEW d \in Device, LoginRight(w, v, d) PROVE FALSE
    BY <1>2, <2>2 DEF LoginRight, Serve, Stage, TypeOK
  <2>3. CASE RefreshUser(w)
    <3>1. CASE Serve(w, Idle)
      BY <1>2, <3>1 DEF Serve, Idle, Stage, TypeOK
    <3>2. CASE Goto(w, "refresh_rotate") /\ users[req[w].user].active
      BY <1>2, <3>2 DEF Goto, Serve, TypeOK, Request
    <3> QED BY <2>3, <3>1, <3>2 DEF RefreshUser
  <2>4. CASE LoginDevice(w) \/ LoginNewDevice(w) \/ LoginSuccess(w) \/ RefreshRotate(w)
    <3>1. /\ req[w].user = req'[w].user
          /\ req[w].pc \in LoginStages \cup (RefreshStages \ {"refresh_user"})
      <4>1. CASE LoginDevice(w)
        BY <4>1 DEF LoginDevice, Serve, At, TypeOK, Request
      <4>2. CASE LoginNewDevice(w)
        BY <4>2 DEF LoginNewDevice, Goto, Serve, At, TypeOK, Request
      <4>3. CASE LoginSuccess(w)
        BY <4>3 DEF LoginSuccess, Serve, At, Stage, TypeOK
      <4>4. CASE RefreshRotate(w)
        BY <4>4 DEF RefreshRotate, Goto, Serve, At, TypeOK, Request
      <4> QED BY <2>4, <4>1, <4>2, <4>3, <4>4
    <3> QED BY <1>2, <3>1 DEF Admitted
  <2>5. ASSUME NEW s \in SessionId, RefreshRead(w, s) \/ LoginIssue(w, s) \/ RefreshIssue(w, s)
        PROVE  FALSE
    BY <1>2, <2>5 DEF RefreshRead, LoginIssue, RefreshIssue, Serve, Stage, TypeOK
  <2>6. CASE LoginAudit(w)
    BY <1>2, <2>6 DEF LoginAudit, Goto, Serve, TypeOK, Request
  <2> QED BY <1>2, <2>1, <2>2, <2>3, <2>4, <2>5, <2>6, FlowOf DEF Moves, Answering
<1>3. SessionsOf(u)' = SessionsOf(u)
  BY <1>1 DEF SessionsOf
<1>4. Admitted(u)' = {}
  BY <1>2 DEF Admitted
<1> QED BY <1>3, <1>4

\* Once the requests admitted before an account was disabled are through, no session of
\* it is added and no request admitted until it is enabled again.
THEOREM DeactivationDrainsCorrect == Spec => DeactivationDrains
<1> DEFINE Inv == TypeOK /\ Carried /\ RotationInv
<1>1. Init => Inv
  BY InitType, InitRotation
<1>2. Inv /\ [Next]_vars => Inv'
  BY StepType, StepRotation
<1>3. Inv /\ [Next]_vars =>
        [\A u \in User : ~users[u].active /\ Admitted(u) = {} =>
           /\ SessionsOf(u)' = SessionsOf(u)
           /\ users'[u].active \/ Admitted(u)' = {}]_vars
  BY StepDrains
<1> QED BY <1>1, <1>2, <1>3, PTL DEF Spec, DeactivationDrains

-----------------------------------------------------------------------------
(* The refinement of SessionLedger                                           *)

State == [s \in SessionId |-> sessions[s].state]
Parent == [s \in SessionId |-> sessions[s].parent]
Held == [w \in Worker |-> IF req[w].pc \in RefreshStages THEN req[w].sid ELSE None]

LEMMA LedgerInit == Init => Ledger!Init
<1> SUFFICES ASSUME Init PROVE Ledger!Init
  OBVIOUS
<1>1. \A s \in SessionId : sessions[s].state = "none" /\ sessions[s].parent = None
  BY DEF Init, NoSession
<1>2. \A w \in Worker : req[w].pc \notin RefreshStages
  BY DEF Init, Idle, Stage, RefreshStages
<1> QED BY <1>1, <1>2 DEF Ledger!Init

LEMMA LedgerQuiet ==
  ASSUME TypeOK, Quiet, [Next]_vars PROVE [Ledger!Next]_Ledger!ledger
<1>1. State' = State /\ Parent' = Parent
  BY DEF Quiet, State, Parent
<1>2. \A w \in Worker : Held'[w] \in {Held[w], None}
  BY DEF Quiet, Held
<1>3. ASSUME NEW w \in Worker, Only(w) PROVE Held' = Held \/ Held' = [Held EXCEPT ![w] = None]
  <2>1. \A x \in Worker \ {w} : Held'[x] = Held[x]
    BY <1>3 DEF Only, Held
  <2> QED BY <1>2, <2>1 DEF Held
<1>4. req' = req => Held' = Held
  BY DEF Held
<1>5. Held' = Held \/ \E w \in Worker : Held' = [Held EXCEPT ![w] = None]
  BY <1>3, <1>4, Flow
<1> QED BY <1>1, <1>5 DEF Ledger!Next, Ledger!Release, Ledger!ledger, State, Parent, Held

LEMMA LedgerRevoke ==
  ASSUME TypeOK, Carried, NEW w \in Worker, RefreshRotate(w) \/ LogoutRevoke(w)
  PROVE  [Ledger!Next]_Ledger!ledger
<1> DEFINE p == req[w].sid
<1>1. p \in SessionId /\ State[p] \in {"live", "revoked"}
  BY DEF RefreshRotate, LogoutRevoke, At, Carried, Fits, RefreshStages, TypeOK, SessionRow, State
<1>2. State' = [State EXCEPT ![p] = "revoked"]
  BY <1>1 DEF RefreshRotate, LogoutRevoke, TypeOK, SessionRow, State
<1>3. Parent' = Parent
  BY <1>1 DEF RefreshRotate, LogoutRevoke, TypeOK, SessionRow, Parent
<1>4. Held' = Held
  <2>1. /\ \A x \in Worker \ {w} : req'[x] = req[x]
        /\ req'[w].sid = p
        /\ req'[w].pc \in RefreshStages <=> req[w].pc \in RefreshStages
    BY DEF RefreshRotate, LogoutRevoke, Goto, Serve, At, TypeOK, Request, RefreshStages
  <2> QED BY <2>1 DEF Held
<1>5. State' = State \/ State[p] = "live"
  BY <1>1, <1>2 DEF State
<1> QED
  BY <1>1, <1>2, <1>3, <1>4, <1>5
  DEF Ledger!Next, Ledger!Revoke, Ledger!ledger, State, Parent, Held

LEMMA LedgerTake ==
  ASSUME TypeOK, NEW w \in Worker, NEW p \in SessionId, RefreshRead(w, p)
  PROVE  Ledger!Take(w, p)
<1>1. State' = State /\ Parent' = Parent /\ State[p] = "live"
  BY DEF RefreshRead, State, Parent
<1>2. req[w].pc \notin RefreshStages
  BY DEF RefreshRead, Accept, RefreshStages
<1>3. /\ \A x \in Worker \ {w} : req'[x] = req[x]
      /\ req'[w].pc \in RefreshStages /\ req'[w].sid = p
  BY DEF RefreshRead, Serve, Stage, TypeOK, RefreshStages
<1>4. Held[w] = None
  BY <1>2 DEF Held
<1>5. Held' = [Held EXCEPT ![w] = p]
  BY <1>3 DEF Held
<1> QED BY <1>1, <1>4, <1>5 DEF Ledger!Take, State, Parent, Held

LEMMA LedgerIssue ==
  ASSUME TypeOK, Carried, RotationInv, NEW w \in Worker, NEW n \in SessionId,
         LoginIssue(w, n) \/ RefreshIssue(w, n)
  PROVE  Ledger!Open(n) \/ Ledger!Succeed(w, n)
<1>1. /\ State[n] = "none" /\ Parent[n] = None
      /\ State' = [State EXCEPT ![n] = "live"]
  <2>1. sessions[n].state = "none" /\ sessions[n].parent = None
    BY DEF LoginIssue, RefreshIssue, RotationInv, Rotating
  <2>2. /\ sessions'[n].state = "live"
        /\ \A s \in SessionId \ {n} : sessions'[s] = sessions[s]
    BY DEF LoginIssue, RefreshIssue, NewSession, TypeOK
  <2> QED BY <2>1, <2>2 DEF State, Parent
<1>2. /\ \A x \in Worker \ {w} : req'[x] = req[x]
      /\ req'[w].pc \notin RefreshStages
  BY DEF LoginIssue, RefreshIssue, Serve, Stage, TypeOK, RefreshStages
<1>3. CASE LoginIssue(w, n)
  <2>1. Parent' = Parent
    BY <1>1, <1>3 DEF LoginIssue, NewSession, TypeOK, Parent
  <2>2. Held' = Held
    BY <1>2, <1>3 DEF LoginIssue, At, Held, RefreshStages
  <2> QED BY <1>1, <2>1, <2>2 DEF Ledger!Open, State, Parent, Held
<1>4. CASE RefreshIssue(w, n)
  <2>1. Held[w] = req[w].sid /\ req[w].sid \in SessionId /\ State[req[w].sid] = "revoked"
    BY <1>4 DEF RefreshIssue, At, Carried, Fits, RotationInv, Rotating, State, Held, RefreshStages
  <2>2. Parent' = [Parent EXCEPT ![n] = Held[w]]
    BY <1>4, <2>1 DEF RefreshIssue, NewSession, TypeOK, Parent
  <2>3. Held' = [Held EXCEPT ![w] = None]
    BY <1>2 DEF Held
  <2>4. Held[w] # None
    BY <2>1, NoneAssumption
  <2> QED BY <1>1, <2>1, <2>2, <2>3, <2>4 DEF Ledger!Succeed, State, Parent, Held
<1> QED BY <1>3, <1>4

LEMMA LedgerStep ==
  ASSUME TypeOK, Carried, RotationInv, [Next]_vars PROVE [Ledger!Next]_Ledger!ledger
<1>1. ASSUME Rotates PROVE [Ledger!Next]_Ledger!ledger
  BY <1>1, LedgerRevoke, LedgerTake, LedgerIssue DEF Rotates, Ledger!Next
<1> QED BY <1>1, LedgerQuiet, Rotation

\* The session table the handlers keep is a SessionLedger: ids are used once, revoked
\* sessions stay revoked, and a successor is only for a session taken while live.
THEOREM LedgerCorrect == Spec => ImplementsLedger
<1> DEFINE Inv == TypeOK /\ Carried /\ RotationInv
<1>1. Init => Inv
  BY InitType, InitRotation
<1>2. Inv /\ [Next]_vars => Inv'
  BY StepType, StepRotation
<1>3. Inv /\ [Next]_vars => [Ledger!Next]_Ledger!ledger
  BY LedgerStep
<1> QED BY <1>1, <1>2, <1>3, LedgerInit, PTL DEF Spec, ImplementsLedger, Ledger!Spec

-----------------------------------------------------------------------------
(* Reset tokens                                                              *)

\* Only requests that redeem a token carry one.
Redeeming == {"reset_write", "reset_audit"}
TokenCarried == \A w \in Worker : req[w].token # None => req[w].pc \in Redeeming

Redeems(w) ==
  ResetWrite(w) \/ \E u \in User, t \in ResetToken : ResetRead(w, u, t)

LEMMA TokenArrives ==
  ASSUME TypeOK, NEW w \in Worker, Arrive(w), ~Redeems(w)
  PROVE  req' = req \/ (Only(w) /\ req'[w].token = None)
<1>1. ASSUME NEW r, Serve(w, r), r.token = None PROVE Only(w) /\ req'[w].token = None
  BY <1>1 DEF Serve, TypeOK, Only
<1> USE DEF Stage
<1>2. ASSUME NEW u \in User, LoginUnknown(w, u) PROVE req' = req
  BY <1>2 DEF LoginUnknown
<1>3. ASSUME NEW u \in User, RegisterRead(w, u) \/ ForgotRead(w, u) \/ LoginWrong(w, u)
      PROVE  Only(w) /\ req'[w].token = None
  BY <1>1, <1>3 DEF RegisterRead, ForgotRead, LoginWrong
<1>4. ASSUME NEW u \in User, NEW d \in Device, LoginRight(w, u, d)
      PROVE  Only(w) /\ req'[w].token = None
  BY <1>1, <1>4 DEF LoginRight
<1>5. ASSUME NEW a \in SessionId, NEW t \in SessionId \cup {None}, LogoutRead(w, a, t)
      PROVE  Only(w) /\ req'[w].token = None
  BY <1>1, <1>5 DEF LogoutRead
<1>6. ASSUME NEW s \in SessionId, RefreshRead(w, s) PROVE Only(w) /\ req'[w].token = None
  BY <1>1, <1>6 DEF RefreshRead
<1>7. ASSUME NEW u \in User, NEW b \in BOOLEAN, AdminWrite(w, u, b)
      PROVE  Only(w) /\ req'[w].token = None
  BY <1>1, <1>7 DEF AdminWrite
<1>8. ASSUME Abort(w) PROVE Only(w) /\ req'[w].token = None
  BY <1>1, <1>8 DEF Abort, Idle
<1> QED BY <1>2, <1>3, <1>4, <1>5, <1>6, <1>7, <1>8 DEF Arrive, Redeems

LEMMA TokenContinues ==
  ASSUME TypeOK, TokenCarried, NEW w \in Worker, Continue(w), ~Redeems(w)
  PROVE  Only(w) /\ req'[w].token = None
<1>1. ASSUME NEW r, Serve(w, r), r.token = None PROVE Only(w) /\ req'[w].token = None
  BY <1>1 DEF Serve, TypeOK, Only
<1>2. ASSUME NEW pc, Goto(w, pc), req[w].pc \notin Redeeming
      PROVE  Only(w) /\ req'[w].token = None
  BY <1>2 DEF Goto, Serve, TypeOK, Request, Only, TokenCarried
<1> USE DEF Redeeming
<1>3. ASSUME \/ RegisterAudit(w) \/ FailureAudit(w) \/ Reply(w) \/ LogoutAudit(w)
             \/ ForgotMail(w) \/ ResetAudit(w) \/ AdminAudit(w)
      PROVE  Only(w) /\ req'[w].token = None
  BY <1>1, <1>3 DEF RegisterAudit, FailureAudit, Reply, LogoutAudit, ForgotMail, ResetAudit,
                    AdminAudit, Stage, Idle
<1>4. ASSUME WrongPassword(w) \/ LoginSuccess(w) PROVE Only(w) /\ req'[w].token = None
  BY <1>1, <1>4 DEF WrongPassword, LoginSuccess, Stage
<1>5. ASSUME \/ LogoutRevoke(w) \/ LoginNewDevice(w) \/ LoginAudit(w) \/ RefreshRotate(w)
             \/ \E t \in ResetToken : ForgotWrite(w, t)
      PROVE  Only(w) /\ req'[w].token = None
  BY <1>2, <1>5 DEF LogoutRevoke, LoginNewDevice, LoginAudit, RefreshRotate, ForgotWrite, At
<1>6. ASSUME RegisterInsert(w) \/ RefreshUser(w) PROVE Only(w) /\ req'[w].token = None
  BY <1>1, <1>2, <1>6 DEF RegisterInsert, RefreshUser, Stage, Idle, At
<1>7. ASSUME NEW s \in SessionId, LoginIssue(w, s) \/ RefreshIssue(w, s)
      PROVE  Only(w) /\ req'[w].token = None
  BY <1>1, <1>7 DEF LoginIssue, RefreshIssue, Stage
<1>8. ASSUME LoginDevice(w) PROVE Only(w) /\ req'[w].token = None
  <2> DEFINE k == devices[req[w].user][req[w].dev] > 0
             r == [req[w] EXCEPT !.pc = IF k THEN "login_success" ELSE "login_new_device",
                                 !.known = k]
  <2>1. r.token = req[w].token
    BY DEF TypeOK, Request
  <2>2. req[w].token = None
    BY <1>8 DEF LoginDevice, At, TokenCarried
  <2> QED BY <1>1, <1>8, <2>1, <2>2 DEF LoginDevice
<1> QED BY <1>3, <1>4, <1>5, <1>6, <1>7, <1>8 DEF Continue, Redeems

\* A request keeps its record, drops its token, or redeems.
LEMMA TokenFlow ==
  ASSUME TypeOK, TokenCarried, [Next]_vars, NEW x \in Worker
  PROVE  req'[x] = req[x] \/ req'[x].token = None \/ Redeems(x)
<1>1. ASSUME NEW w \in Worker, Arrive(w) \/ Continue(w)
      PROVE  req'[x] = req[x] \/ req'[x].token = None \/ Redeems(x)
  <2>1. CASE Redeems(w)
    <3>1. \E r : Serve(w, r)
      BY <2>1 DEF Redeems, ResetWrite, ResetRead
    <3> QED BY <2>1, <3>1 DEF Serve, TypeOK
  <2>2. CASE ~Redeems(w)
    <3>1. req' = req \/ (Only(w) /\ req'[w].token = None)
      BY <1>1, <2>2, TokenArrives, TokenContinues
    <3> QED BY <3>1 DEF Only
  <2> QED BY <2>1, <2>2
<1>2. ASSUME Tick \/ UNCHANGED vars \/ \E u \in User : VerifyEmail(u) PROVE req' = req
  BY <1>2 DEF Tick, vars, VerifyEmail
<1> QED BY <1>1, <1>2 DEF Next

LEMMA NewAccountFields ==
  NewAccount.rtoken = None /\ NewAccount.failed = 0 /\ NewAccount.lock = Null
<1>1. /\ NoAccount \in Account
      /\ NoAccount.rtoken = None /\ NoAccount.failed = 0 /\ NoAccount.lock = Null
  BY AccountType DEF NoAccount
<1>2. ASSUME NEW r \in Account
      PROVE  LET n == [r EXCEPT !.active = TRUE, !.verified = ~Smtp, !.vtoken = ~Smtp] IN
             n.rtoken = r.rtoken /\ n.failed = r.failed /\ n.lock = r.lock
  BY DEF Account
<1> QED BY <1>1, <1>2 DEF NewAccount

\* A step clears tokens, or stores one that no one has seen before.
Clears == \A u \in User : users'[u].rtoken \in {users[u].rtoken, None}
Stores(v, t) ==
  Fresh(t) /\ users'[v].rtoken = t /\ \A u \in User \ {v} : users'[u].rtoken = users[u].rtoken

LEMMA RowTokens ==
  ASSUME TypeOK, Carried, [Next]_vars
  PROVE  /\ mail \subseteq mail'
         /\ Clears \/ \E v \in User, t \in ResetToken : Stores(v, t)
<1> DEFINE Same == mail \subseteq mail' /\ Clears
<1>1. ASSUME NEW w \in Worker, Arrive(w) PROVE Same
  <2>1. ASSUME NEW u \in User, NEW b \in BOOLEAN, AdminWrite(w, u, b) PROVE Same
    BY <2>1 DEF AdminWrite, TypeOK, Account, Clears
  <2>2. mail' = mail /\ (users' = users \/ \E u \in User, b \in BOOLEAN : AdminWrite(w, u, b))
    BY <1>1 DEF Arrive, RegisterRead, LoginUnknown, LoginWrong, LoginRight, RefreshRead,
                LogoutRead, ForgotRead, ResetRead, AdminWrite, Abort
  <2> QED BY <2>1, <2>2 DEF Clears
<1>2. ASSUME NEW w \in Worker, Continue(w), ~\E t \in ResetToken : ForgotWrite(w, t) PROVE Same
  <2>1. CASE RegisterInsert(w)
    <3>1. users' = users \/ \E v : users' = [users EXCEPT ![v] = NewAccount]
      BY <2>1 DEF RegisterInsert
    <3>2. NewAccount.rtoken = None
      BY NewAccountFields
    <3> QED BY <2>1, <3>1, <3>2 DEF RegisterInsert, TypeOK, Clears
  <2>2. CASE WrongPassword(w) \/ LoginSuccess(w) \/ ResetWrite(w)
    <3> USE DEF TypeOK, Account, Clears
    <3>1. CASE WrongPassword(w)
      BY <3>1 DEF WrongPassword
    <3>2. CASE LoginSuccess(w)
      BY <3>2 DEF LoginSuccess
    <3>3. CASE ResetWrite(w)
      BY <3>3 DEF ResetWrite
    <3> QED BY <2>2, <3>1, <3>2, <3>3
  <2>3. CASE users' = users /\ mail \subseteq mail'
    BY <2>3 DEF Clears
  <2> QED BY <1>2, <2>1, <2>2, <2>3
      DEF Continue, RegisterAudit, FailureAudit, LoginDevice, LoginNewDevice, LoginAudit, Reply,
          RefreshUser, RefreshRotate, LoginIssue, RefreshIssue, LogoutRevoke, LogoutAudit,
          ForgotMail, ResetAudit, AdminAudit
<1>3. ASSUME NEW w \in Worker, NEW t \in ResetToken, ForgotWrite(w, t)
      PROVE  mail \subseteq mail' /\ \E v \in User, x \in ResetToken : Stores(v, x)
  <2>1. req[w].user \in User
    BY <1>3 DEF ForgotWrite, At, Carried, Fits
  <2>2. Stores(req[w].user, t)
    BY <1>3, <2>1 DEF ForgotWrite, TypeOK, Account, Stores
  <2> QED BY <1>3, <2>1, <2>2 DEF ForgotWrite
<1>4. ASSUME NEW u \in User, VerifyEmail(u) PROVE Same
  BY <1>4 DEF VerifyEmail, TypeOK, Account, Clears
<1>5. CASE Tick
  BY <1>5 DEF Tick, TypeOK, Account, Clears
<1>6. CASE UNCHANGED vars
  BY <1>6 DEF vars, Clears
<1> QED BY <1>1, <1>2, <1>3, <1>4, <1>5, <1>6 DEF Next

Mailed(t) == \E a \in User : <<a, t>> \in mail
Dead(t) == Mailed(t) /\ \A u \in User : users[u].rtoken # t

\* A token that has been mailed is not stored again.
LEMMA NotStoredAgain ==
  ASSUME TypeOK, Carried, [Next]_vars, NEW t \in ResetToken, Mailed(t), NEW u \in User,
         users'[u].rtoken = t
  PROVE  users[u].rtoken = t
<1>1. ASSUME NEW v \in User, NEW x \in ResetToken, Stores(v, x) PROVE x # t
  BY <1>1 DEF Stores, Fresh, Mailed
<1> QED BY <1>1, RowTokens, NoneAssumption DEF Clears, Stores

\* A token is in one row at most, has been mailed when a request carries it, and is in no
\* other row, nor in its own once its password is written.
TokenInv ==
  /\ TokenCarried
  /\ \A u, v \in User : users[u].rtoken # None /\ users[u].rtoken = users[v].rtoken => u = v
  /\ \A w \in Worker : req[w].token # None =>
       /\ Mailed(req[w].token)
       /\ \A v \in User : users[v].rtoken = req[w].token =>
            req[w].pc = "reset_write" /\ v = req[w].user

LEMMA InitTokens == Init => TokenInv
<1> SUFFICES ASSUME Init PROVE TokenInv
  OBVIOUS
<1>1. \A w \in Worker : req[w].token = None
  BY DEF Init, Idle, Stage
<1>2. \A u \in User : users[u].rtoken = None
  BY DEF Init, SeededAccount, NoAccount
<1> QED BY <1>1, <1>2 DEF TokenInv, TokenCarried

LEMMA StepTokens ==
  ASSUME TypeOK, Carried, TokenInv, [Next]_vars PROVE TokenInv'
<1>t. TokenCarried /\ mail \subseteq mail'
  BY RowTokens DEF TokenInv
<1>r. \A x \in Worker : req[x].token \in ResetToken \cup {None}
  BY DEF TypeOK, Request
<1>1. ASSUME NEW u \in User, NEW v \in User, users'[u].rtoken # None,
             users'[u].rtoken = users'[v].rtoken
      PROVE  u = v
  <2>1. CASE Clears
    BY <1>1, <2>1 DEF Clears, TokenInv
  <2>2. ASSUME NEW y \in User, NEW t \in ResetToken, Stores(y, t) PROVE u = v
    BY <1>1, <2>2 DEF Stores, Fresh, TokenInv
  <2> QED BY <2>1, <2>2, RowTokens
<1>2. ASSUME NEW x \in Worker, req'[x].token # None
      PROVE  /\ req'[x].pc \in Redeeming /\ Mailed(req[x].token)'
             /\ \A v \in User : users'[v].rtoken = req'[x].token =>
                  req'[x].pc = "reset_write" /\ v = req'[x].user
  <2>1. CASE req'[x] = req[x]
    <3>1. Mailed(req[x].token) /\ req[x].token \in ResetToken
      BY <1>2, <1>r, <2>1 DEF TokenInv
    <3>2. Mailed(req[x].token)'
      BY <1>t, <2>1, <3>1 DEF Mailed
    <3>3. \A v \in User : users'[v].rtoken = req[x].token => users[v].rtoken = req[x].token
      <4> PICK t \in ResetToken : t = req[x].token
        BY <3>1
      <4>1. Mailed(t)
        BY <3>1
      <4> QED BY <4>1, NotStoredAgain
    <3> QED BY <1>2, <2>1, <3>2, <3>3 DEF TokenInv, TokenCarried
  <2>2. ASSUME NEW u \in User, NEW t \in ResetToken, ResetRead(x, u, t)
        PROVE  /\ req'[x].pc \in Redeeming /\ Mailed(req[x].token)'
               /\ \A v \in User : users'[v].rtoken = req'[x].token =>
                    req'[x].pc = "reset_write" /\ v = req'[x].user
    <3>1. req'[x].pc = "reset_write" /\ req'[x].token = t /\ req'[x].user = u
      BY <2>2 DEF ResetRead, Serve, Stage, TypeOK
    <3>2. users' = users /\ mail' = mail /\ Mailed(t) /\ users[u].rtoken = t /\ t # None
      BY <2>2, NoneAssumption DEF ResetRead, Mailed
    <3> QED BY <3>1, <3>2 DEF TokenInv, Mailed, Redeeming
  <2>3. CASE ResetWrite(x)
    <3>1. /\ req'[x].pc = "reset_audit" /\ req'[x].token = req[x].token
          /\ req[x].user \in User
      BY <2>3 DEF ResetWrite, Serve, Redeem, Stage, TypeOK, At, Carried, Fits
    <3>2. /\ \A v \in User : users'[v].rtoken = (IF v = req[x].user THEN None ELSE users[v].rtoken)
          /\ mail' = mail
      BY <2>3, <3>1 DEF ResetWrite, TypeOK, Account
    <3>3. Mailed(req[x].token)
      BY <1>2, <3>1 DEF TokenInv
    <3>4. \A v \in User : users'[v].rtoken # req[x].token
      BY <1>2, <3>1, <3>2 DEF TokenInv
    <3> QED BY <3>1, <3>2, <3>3, <3>4 DEF Mailed, Redeeming
  <2> QED BY <1>2, <1>t, <2>1, <2>2, <2>3, TokenFlow DEF Redeems
<1> QED BY <1>1, <1>2 DEF TokenInv, TokenCarried

LEMMA DeadStays ==
  ASSUME TypeOK, Carried, [Next]_vars, NEW t \in ResetToken, Dead(t) PROVE Dead(t)'
<1>1. Mailed(t)'
  BY RowTokens DEF Dead, Mailed
<1> QED BY <1>1, NotStoredAgain DEF Dead

-----------------------------------------------------------------------------
(* Requests that do not overlap                                              *)

\* What a handler has read is still what the row holds.
Counting == {"wrong_password", "login_device", "login_new_device", "login_success", "reset_write"}
Unlocking == Counting \ {"wrong_password"}
Recalls(r) ==
  /\ r.pc \in Counting => r.failed = users[r.user].failed
  /\ r.pc \in Unlocking => (r.lockSet = TRUE <=> users[r.user].lock # Null)
  /\ r.pc = "wrong_password" => r.user \in registered

SerialInv == LocksMatch /\ \A w \in Worker : Recalls(req[w])

\* A step that leaves the counters and the locks of the accounts as they were
Leaves ==
  /\ registered \subseteq registered'
  /\ \A u \in User : /\ users'[u].failed = users[u].failed
                     /\ users'[u].lock # Null <=> users[u].lock # Null
\* A step that leaves the columns of all accounts but u as they were
WritesOnly(u) ==
  /\ registered \subseteq registered'
  /\ \A v \in User \ {u} : /\ users'[v].failed = users[v].failed
                          /\ users'[v].lock = users[v].lock

LEMMA Forgets ==
  ASSUME NEW r, r.pc \notin Counting PROVE Recalls(r) /\ Recalls(r)'
BY DEF Recalls, Unlocking, Counting

LEMMA RecallsStays ==
  ASSUME Leaves, NEW r, Recalls(r), r.user \in User PROVE Recalls(r)'
<1>1. r.pc \in Unlocking => (r.lockSet = TRUE <=> users'[r.user].lock # Null)
  BY DEF Leaves, Recalls
<1> QED BY <1>1 DEF Leaves, Recalls

LEMMA RowsStay == ASSUME Leaves, SerialInv PROVE LocksMatch'
BY DEF Leaves, SerialInv, LocksMatch

\* The thread w goes on with record r, and the others remember what still holds.
LEMMA Serves ==
  ASSUME TypeOK, NEW w \in Worker, NEW r, Serve(w, r), Recalls(r)',
         \A v \in Worker \ {w} : Recalls(req[v])',
         LocksMatch'
  PROVE  SerialInv'
<1>1. req'[w] = r
  BY DEF Serve, TypeOK
<1>2. Recalls(req[w])'
  BY <1>1 DEF Recalls
<1> QED BY <1>2 DEF SerialInv

\* What a request remembers stays true when the columns stay,
LEMMA Remembers ==
  ASSUME Carried, SerialInv, Leaves, NEW v \in Worker, req'[v] = req[v] PROVE Recalls(req[v])'
<1> PICK r : r = req[v]
  OBVIOUS
<1>1. Recalls(r) /\ (r.pc # "idle" => r.user \in User)
  BY DEF SerialInv, Carried, Fits
<1>2. Recalls(r)'
  BY <1>1, RecallsStays, Forgets DEF Counting
<1> QED BY <1>2 DEF Recalls

\* and when a request about another account writes them.
LEMMA OthersRemember ==
  ASSUME TypeOK, Carried, SerialInv, AccountsApart, NEW w \in Worker, NEW r, Serve(w, r),
         req[w].pc # "idle", WritesOnly(req[w].user), NEW v \in Worker \ {w}
  PROVE  Recalls(req[v])'
<1>1. req'[v] = req[v]
  BY DEF Serve, TypeOK
<1> PICK q : q = req[v]
  OBVIOUS
<1>2. Recalls(q) /\ (q.pc # "idle" => q.user \in User /\ q.user # req[w].user)
  BY DEF SerialInv, Carried, Fits, AccountsApart
<1>3. CASE q.pc = "idle"
  <2>1. Recalls(q)'
    BY <1>3, Forgets DEF Counting
  <2> QED BY <1>1, <2>1 DEF Recalls
<1>4. CASE q.pc # "idle"
  <2>1. Recalls(q)'
    BY <1>2, <1>4 DEF Recalls, WritesOnly
  <2> QED BY <1>1, <2>1 DEF Recalls
<1> QED BY <1>3, <1>4

LEMMA ServesKeeping ==
  ASSUME TypeOK, Carried, SerialInv, Leaves, NEW w \in Worker, NEW r, Serve(w, r), Recalls(r)'
  PROVE  SerialInv'
<1>1. \A v \in Worker \ {w} : Recalls(req[v])'
  <2> SUFFICES ASSUME NEW v \in Worker \ {w} PROVE Recalls(req[v])'
    OBVIOUS
  <2>1. req'[v] = req[v]
    BY DEF Serve, TypeOK
  <2> QED BY <2>1, Remembers
<1> QED BY <1>1, Serves, RowsStay

LEMMA ServesQuietly ==
  ASSUME TypeOK, Carried, SerialInv, Leaves, NEW w \in Worker, NEW r, Serve(w, r),
         r.pc \notin Counting
  PROVE  SerialInv'
BY ServesKeeping, Forgets

LEMMA GoesQuietly ==
  ASSUME TypeOK, Carried, SerialInv, Leaves, NEW w \in Worker, NEW pc, Goto(w, pc),
         pc \notin Counting
  PROVE  SerialInv'
<1>1. PICK r : r = [req[w] EXCEPT !.pc = pc]
  OBVIOUS
<1>2. r.pc = pc
  BY <1>1 DEF TypeOK, Request
<1> QED BY <1>1, <1>2, ServesQuietly DEF Goto

LEMMA SerialReads ==
  ASSUME TypeOK, Carried, SerialInv, NEW w \in Worker, Arrive(w)
  PROVE  SerialInv'
<1> USE DEF Counting, Unlocking
<1>u. \A u \in User : users[u] \in Account /\ (users[u].lock # Null) \in BOOLEAN
  BY DEF TypeOK
<1>1. ASSUME NEW u \in User, LoginUnknown(w, u) PROVE SerialInv'
  BY <1>1 DEF LoginUnknown, SerialInv, LocksMatch, Recalls
<1>2. ASSUME NEW u \in User, RegisterRead(w, u) \/ ForgotRead(w, u) PROVE SerialInv'
  <2>1. Leaves
    BY <1>2 DEF RegisterRead, ForgotRead, Leaves
  <2> QED BY <1>2, <2>1, ServesQuietly DEF RegisterRead, ForgotRead, Stage
<1>3. ASSUME NEW u \in User, LoginWrong(w, u) PROVE SerialInv'
  <2>1. Leaves /\ u \in registered /\ users' = users /\ registered' = registered
    BY <1>3 DEF LoginWrong, Leaves
  <2>2. PICK r : r = [Stage("wrong_password", u, None, None) EXCEPT !.failed = users[u].failed]
    OBVIOUS
  <2>3. r.pc = "wrong_password" /\ r.user = u /\ r.failed = users[u].failed
    BY <2>2 DEF Stage
  <2>4. Recalls(r)'
    BY <2>1, <2>3 DEF Recalls
  <2> QED BY <1>3, <2>1, <2>2, <2>4, ServesKeeping DEF LoginWrong
<1>4. ASSUME NEW u \in User, NEW d \in Device, LoginRight(w, u, d) PROVE SerialInv'
  <2>1. Leaves /\ users' = users
    BY <1>4 DEF LoginRight, Leaves
  <2>2. PICK r : r = [Stage("login_device", u, d, None)
                        EXCEPT !.failed = users[u].failed, !.lockSet = users[u].lock # Null]
    OBVIOUS
  <2>3. /\ r.pc = "login_device" /\ r.user = u /\ r.failed = users[u].failed
        /\ r.lockSet = (users[u].lock # Null)
    BY <2>2 DEF Stage
  <2>4. Recalls(r)'
    BY <2>1, <2>3 DEF Recalls
  <2> QED BY <1>4, <2>1, <2>2, <2>4, ServesKeeping DEF LoginRight
<1>5. ASSUME NEW s \in SessionId, RefreshRead(w, s) PROVE SerialInv'
  <2>1. Leaves
    BY <1>5 DEF RefreshRead, Leaves
  <2> QED BY <1>5, <2>1, ServesQuietly DEF RefreshRead, Stage
<1>6. ASSUME NEW a \in SessionId, NEW t \in SessionId \cup {None}, LogoutRead(w, a, t)
      PROVE  SerialInv'
  <2>1. Leaves
    BY <1>6 DEF LogoutRead, Leaves
  <2> QED BY <1>6, <2>1, ServesQuietly DEF LogoutRead, Stage
<1>7. ASSUME NEW u \in User, NEW t \in ResetToken, ResetRead(w, u, t) PROVE SerialInv'
  <2>1. Leaves /\ users' = users
    BY <1>7 DEF ResetRead, Leaves
  <2>2. PICK r : r = [Stage("reset_write", u, None, None)
                        EXCEPT !.token = t, !.failed = users[u].failed,
                               !.lockSet = users[u].lock # Null]
    OBVIOUS
  <2>3. /\ r.pc = "reset_write" /\ r.user = u /\ r.failed = users[u].failed
        /\ r.lockSet = (users[u].lock # Null)
    BY <2>2 DEF Stage
  <2>4. Recalls(r)'
    BY <2>1, <2>3 DEF Recalls
  <2> QED BY <1>7, <2>1, <2>2, <2>4, ServesKeeping DEF ResetRead
<1>8. ASSUME NEW u \in User, NEW b \in BOOLEAN, AdminWrite(w, u, b) PROVE SerialInv'
  <2>1. Leaves
    BY <1>8 DEF AdminWrite, Leaves, TypeOK, Account
  <2> QED BY <1>8, <2>1, ServesQuietly DEF AdminWrite, Stage
<1>9. CASE Abort(w)
  <2>1. Leaves
    BY <1>9 DEF Abort, Leaves
  <2> QED BY <1>9, <2>1, ServesQuietly DEF Abort, Idle, Stage
<1> QED BY <1>1, <1>2, <1>3, <1>4, <1>5, <1>6, <1>7, <1>8, <1>9 DEF Arrive

\* The steps of a handler that write neither a counter nor a lock
LEMMA SerialContinues ==
  ASSUME TypeOK, Carried, SerialInv, NEW w \in Worker, Continue(w),
         ~RegisterInsert(w), ~WrongPassword(w), ~LoginSuccess(w), ~ResetWrite(w)
  PROVE  SerialInv'
<1> USE DEF Counting, Unlocking
<1>l. Leaves
  <2>1. CASE \E t \in ResetToken : ForgotWrite(w, t)
    <3>1. ASSUME NEW r \in Account, NEW t, NEW x
          PROVE  /\ [r EXCEPT !.rtoken = t, !.rexp = x].failed = r.failed
                 /\ [r EXCEPT !.rtoken = t, !.rexp = x].lock = r.lock
      BY DEF Account
    <3> QED BY <2>1, <3>1 DEF ForgotWrite, Leaves, TypeOK
  <2>2. CASE ~\E t \in ResetToken : ForgotWrite(w, t)
    BY <2>2
    DEF Continue, RegisterAudit, FailureAudit, LoginDevice, LoginNewDevice, LoginAudit, Reply,
        RefreshUser, RefreshRotate, LoginIssue, RefreshIssue, LogoutRevoke, LogoutAudit,
        ForgotMail, ResetAudit, AdminAudit, Leaves
  <2> QED BY <2>1, <2>2
<1>1. ASSUME \/ RegisterAudit(w) \/ FailureAudit(w) \/ Reply(w) \/ LogoutAudit(w)
             \/ ForgotMail(w) \/ ResetAudit(w) \/ AdminAudit(w)
      PROVE  SerialInv'
  BY <1>l, <1>1, ServesQuietly
  DEF RegisterAudit, FailureAudit, Reply, LogoutAudit, ForgotMail, ResetAudit, AdminAudit,
      Idle, Stage
<1>2. ASSUME \/ LoginAudit(w) \/ RefreshRotate(w) \/ LogoutRevoke(w)
             \/ \E t \in ResetToken : ForgotWrite(w, t)
      PROVE  SerialInv'
  BY <1>l, <1>2, GoesQuietly DEF LoginAudit, RefreshRotate, LogoutRevoke, ForgotWrite
<1>3. ASSUME RefreshUser(w) PROVE SerialInv'
  BY <1>l, <1>3, GoesQuietly, ServesQuietly DEF RefreshUser, Idle, Stage
<1>4. ASSUME NEW s \in SessionId, LoginIssue(w, s) \/ RefreshIssue(w, s) PROVE SerialInv'
  BY <1>l, <1>4, ServesQuietly DEF LoginIssue, RefreshIssue, Stage
<1>5. ASSUME NEW r, Serve(w, r), r.failed = req[w].failed, r.lockSet = req[w].lockSet,
             r.user = req[w].user, req[w].pc \in Unlocking, r.pc \in Unlocking
      PROVE  SerialInv'
  <2>1. Recalls(req[w]) /\ r.user \in User
    BY <1>5 DEF SerialInv, Carried, Fits
  <2>2. Recalls(r)
    BY <1>5, <2>1 DEF Recalls
  <2> QED BY <1>l, <1>5, <2>1, <2>2, RecallsStays, ServesKeeping
<1>6. CASE LoginDevice(w)
  <2> DEFINE k == devices[req[w].user][req[w].dev] > 0
  <2>1. PICK r : r = [req[w] EXCEPT !.pc = IF k THEN "login_success" ELSE "login_new_device",
                                    !.known = k]
    OBVIOUS
  <2>2. /\ r.failed = req[w].failed /\ r.lockSet = req[w].lockSet /\ r.user = req[w].user
        /\ r.pc \in Unlocking
    BY <2>1 DEF TypeOK, Request
  <2> QED BY <1>5, <1>6, <2>1, <2>2 DEF LoginDevice, At
<1>7. CASE LoginNewDevice(w)
  <2>1. PICK r : r = [req[w] EXCEPT !.pc = "login_success"]
    OBVIOUS
  <2>2. /\ r.failed = req[w].failed /\ r.lockSet = req[w].lockSet /\ r.user = req[w].user
        /\ r.pc \in Unlocking
    BY <2>1 DEF TypeOK, Request
  <2> QED BY <1>5, <1>7, <2>1, <2>2 DEF LoginNewDevice, At, Goto
<1> QED BY <1>1, <1>2, <1>3, <1>4, <1>6, <1>7 DEF Continue

LEMMA WritesKeep ==
  ASSUME SerialInv, NEW u \in User, WritesOnly(u),
         users'[u].lock # Null <=> users'[u].failed >= MaxFailed
  PROVE  LocksMatch'
BY DEF SerialInv, LocksMatch, WritesOnly

LEMMA SerialWrites ==
  ASSUME TypeOK, Carried, AccountsApart, SerialInv, NEW w \in Worker,
         RegisterInsert(w) \/ WrongPassword(w) \/ LoginSuccess(w) \/ ResetWrite(w)
  PROVE  SerialInv'
<1> DEFINE u == req[w].user
<1>0. /\ u \in User /\ req[w] \in Request /\ Recalls(req[w]) /\ users \in [User -> Account]
      /\ users[u] \in Account /\ users[u].failed \in 0 .. MaxFailed /\ MaxFailed \in Nat \ {0}
      /\ LockTicks \in Nat \ {0} /\ req[w].pc # "idle"
      /\ users[u].lock # Null <=> users[u].failed >= MaxFailed
  BY CounterAssumption, TimeAssumption
  DEF TypeOK, Carried, Fits, RegisterInsert, WrongPassword, LoginSuccess, ResetWrite, At,
      SerialInv, LocksMatch, Account
<1> HIDE DEF u
<1>o. ASSUME NEW r, Serve(w, r), WritesOnly(u) PROVE \A v \in Worker \ {w} : Recalls(req[v])'
  BY <1>0, <1>o, OthersRemember DEF u
<1>q. ASSUME NEW r, Serve(w, r), r.pc \notin Counting, WritesOnly(u),
             users'[u].lock # Null <=> users'[u].failed >= MaxFailed
      PROVE  SerialInv'
  BY <1>0, <1>o, <1>q, Forgets, Serves, WritesKeep
<1>1. CASE RegisterInsert(w)
  <2>1. CASE u \in registered
    <3>1. Leaves /\ Serve(w, Idle)
      BY <1>1, <2>1 DEF RegisterInsert, Leaves, u
    <3> QED BY <3>1, ServesQuietly DEF Idle, Stage, Counting
  <2>2. CASE u \notin registered
    <3>1. /\ users' = [users EXCEPT ![u] = NewAccount] /\ Goto(w, "reg_audit")
          /\ registered \subseteq registered'
      BY <1>1, <2>2 DEF RegisterInsert, u
    <3>2. WritesOnly(u) /\ users'[u].failed = 0 /\ users'[u].lock = Null
      BY <1>0, <3>1, NewAccountFields DEF WritesOnly
    <3>3. users'[u].lock # Null <=> users'[u].failed >= MaxFailed
      BY <1>0, <3>2
    <3>4. PICK r : r = [req[w] EXCEPT !.pc = "reg_audit"]
      OBVIOUS
    <3>5. r.pc = "reg_audit"
      BY <1>0, <3>4 DEF Request
    <3> QED BY <1>q, <3>1, <3>2, <3>3, <3>4, <3>5 DEF Goto, Counting
  <2> QED BY <2>1, <2>2
<1>2. CASE WrongPassword(w)
  <2> DEFINE n == IF req[w].failed < MaxFailed THEN req[w].failed + 1 ELSE MaxFailed
             l == IF n >= MaxFailed THEN LockTicks ELSE users[u].lock
  <2>1. users' = [users EXCEPT ![u].failed = n, ![u].lock = l] /\ registered' = registered
    BY <1>2 DEF WrongPassword, u
  <2>2. req[w].failed = users[u].failed
    BY <1>0, <1>2 DEF WrongPassword, At, Recalls, Counting, u
  <2>3. l # Null <=> n >= MaxFailed
    BY <1>0, <2>2 DEF Null
  <2> HIDE DEF n, l
  <2>4. WritesOnly(u) /\ users'[u].failed = n /\ users'[u].lock = l
    BY <1>0, <2>1 DEF WritesOnly, Account
  <2>5. users'[u].lock # Null <=> users'[u].failed >= MaxFailed
    BY <2>3, <2>4
  <2> QED BY <1>2, <1>q, <2>4, <2>5 DEF WrongPassword, Stage, Counting
<1>3. ASSUME req[w].pc \in Unlocking,
             users'[u].failed = 0 \/ /\ req[w].failed = 0 /\ users'[u].failed = users[u].failed,
             users'[u].lock = Null \/ /\ req[w].lockSet = FALSE
                                      /\ users'[u].lock = users[u].lock
      PROVE  users'[u].lock # Null <=> users'[u].failed >= MaxFailed
  <2>1. users'[u].failed = 0
    BY <1>0, <1>3 DEF Recalls, Unlocking, u
  <2>2. users'[u].lock = Null
    BY <1>0, <1>3 DEF Recalls, u
  <2> QED BY <1>0, <2>1, <2>2
<1>4. CASE LoginSuccess(w)
  <2> DEFINE n == IF ~req[w].known \/ req[w].failed # 0 THEN 0 ELSE users[u].failed
             l == IF ~req[w].known \/ req[w].lockSet THEN Null ELSE users[u].lock
  <2>1. users' = [users EXCEPT ![u].failed = n, ![u].lock = l] /\ registered' = registered
    BY <1>4 DEF LoginSuccess, u
  <2>2. n = 0 \/ (req[w].failed = 0 /\ n = users[u].failed)
    OBVIOUS
  <2>3. l = Null \/ (req[w].lockSet = FALSE /\ l = users[u].lock)
    BY <1>0 DEF Request
  <2> HIDE DEF n, l
  <2>4. WritesOnly(u) /\ users'[u].failed = n /\ users'[u].lock = l
    BY <1>0, <2>1 DEF WritesOnly, Account
  <2>5. users'[u].lock # Null <=> users'[u].failed >= MaxFailed
    BY <1>3, <1>4, <2>2, <2>3, <2>4 DEF LoginSuccess, At, Unlocking, Counting
  <2> QED BY <1>4, <1>q, <2>4, <2>5 DEF LoginSuccess, Stage, Counting
<1>5. CASE ResetWrite(w)
  <2> DEFINE n == IF req[w].failed # 0 THEN 0 ELSE users[u].failed
             l == IF req[w].lockSet THEN Null ELSE users[u].lock
  <2>1. users' = [users EXCEPT ![u].rtoken = None, ![u].rexp = Null,
                               ![u].failed = n, ![u].lock = l] /\ registered' = registered
    BY <1>5 DEF ResetWrite, u
  <2>2. n = 0 \/ (req[w].failed = 0 /\ n = users[u].failed)
    OBVIOUS
  <2>3. l = Null \/ (req[w].lockSet = FALSE /\ l = users[u].lock)
    BY <1>0 DEF Request
  <2> HIDE DEF n, l
  <2>4. WritesOnly(u) /\ users'[u].failed = n /\ users'[u].lock = l
    BY <1>0, <2>1 DEF WritesOnly, Account
  <2>5. users'[u].lock # Null <=> users'[u].failed >= MaxFailed
    BY <1>3, <1>5, <2>2, <2>3, <2>4 DEF ResetWrite, At, Unlocking, Counting
  <2>6. Redeem(w).pc = "reset_audit"
    BY DEF Redeem, Stage
  <2> QED BY <1>5, <1>q, <2>4, <2>5, <2>6 DEF ResetWrite, Counting
<1> QED BY <1>1, <1>2, <1>4, <1>5

LEMMA SerialStep ==
  ASSUME AccountsApart, TypeOK, Carried, SerialInv, [Next]_vars PROVE SerialInv'
<1>1. ASSUME Leaves, req' = req PROVE SerialInv'
  <2>1. \A w \in Worker : Recalls(req[w])'
    BY <1>1, Remembers
  <2> QED BY <1>1, <2>1, RowsStay DEF SerialInv
<1>2. ASSUME NEW u \in User, VerifyEmail(u) PROVE SerialInv'
  BY <1>1, <1>2 DEF VerifyEmail, Leaves, TypeOK, Account
<1>3. CASE Tick
  <2>1. ASSUME NEW u \in User
        PROVE  /\ users'[u].failed = users[u].failed
               /\ users'[u].lock # Null <=> users[u].lock # Null
    <3>1. users[u] \in Account /\ users[u].lock \in Null .. LockTicks
      BY DEF TypeOK, Account
    <3>2. /\ users'[u].failed = users[u].failed
          /\ users'[u].lock = IF users[u].lock > 0 THEN users[u].lock - 1 ELSE users[u].lock
      BY <1>3, <3>1 DEF Tick, Account
    <3> QED BY <3>1, <3>2, TimeAssumption DEF Null
  <2>2. Leaves
    BY <1>3, <2>1 DEF Tick, Leaves
  <2> QED BY <1>1, <1>3, <2>2 DEF Tick
<1>4. CASE UNCHANGED vars
  BY <1>1, <1>4 DEF vars, Leaves
<1> QED BY <1>2, <1>3, <1>4, SerialReads, SerialContinues, SerialWrites DEF Next

LEMMA SerialInit == Init => SerialInv
<1> SUFFICES ASSUME Init PROVE SerialInv
  OBVIOUS
<1>1. \A w \in Worker : Recalls(req[w])
  BY Forgets DEF Init, Idle, Stage, Counting
<1>2. \A u \in User : users[u].lock = Null /\ users[u].failed = 0
  BY DEF Init, SeededAccount, NoAccount
<1> QED BY <1>1, <1>2, CounterAssumption DEF Init, SerialInv, LocksMatch

\* What holds of handlers that do not overlap holds until two of them do.
Apart == ~overlapped => AccountsApart /\ SerialInv

LEMMA Observing == HNext => Next /\ Observed
  BY DEF HNext, HArrive, HContinue, Next, Arrive, Continue

LEMMA ApartInit == HInit => Apart
  BY SerialInit DEF HInit, Init, Apart, AccountsApart, Idle, Stage

LEMMA ApartStep ==
  ASSUME TypeOK, Carried, Apart, [HNext]_hvars PROVE Apart'
<1>1. CASE UNCHANGED hvars
  <2>1. [Next]_vars /\ req' = req /\ overlapped' = overlapped
    BY <1>1 DEF hvars, vars
  <2> QED BY <2>1, SerialStep DEF Apart, AccountsApart
<1>2. CASE HNext
  BY <1>2, Observing, SerialStep DEF Apart, Observed
<1> QED BY <1>1, <1>2

LEMMA HistoryIsAuth == (HInit => Init) /\ ([HNext]_hvars => [Next]_vars)
  BY Observing DEF HInit, hvars

\* As long as no two requests about one account have overlapped, the locks of the accounts
\* agree with their counters, across logins, resets, failures and the passing of time.
THEOREM LockMatchesCounterCorrect == HSpec => []LockMatchesCounter
<1> DEFINE Inv == TypeOK /\ Carried /\ Apart
<1>1. HInit => Inv
  BY HistoryIsAuth, InitType, ApartInit
<1>2. Inv /\ [HNext]_hvars => Inv'
  BY HistoryIsAuth, StepType, ApartStep
<1>3. Inv => LockMatchesCounter
  BY DEF Apart, SerialInv, LockMatchesCounter
<1> QED BY <1>1, <1>2, <1>3, PTL DEF HSpec

-----------------------------------------------------------------------------
(* Strikes                                                                   *)

Pardons(u) == \E w \in Worker : req[w].user = u /\ (LoginSuccess(w) \/ ResetWrite(w))
Strikes(u) == \E w \in Worker : req[w].user = u /\ WrongPassword(w)

\* The counter of an account goes down only where its strikes start again, and up with each.
LEMMA Counter ==
  ASSUME TypeOK, Carried, SerialInv, [Next]_vars, NEW u \in User,
         u \in registered, ~Pardons(u)
  PROVE  /\ users'[u].failed >= users[u].failed
         /\ Strikes(u) => \/ users'[u].failed = users[u].failed + 1
                          \/ users'[u].failed = MaxFailed
<1>0. /\ users \in [User -> Account] /\ users[u].failed \in 0 .. MaxFailed
      /\ MaxFailed \in Nat
  BY CounterAssumption DEF TypeOK, Account
<1>1. ASSUME NEW w \in Worker, WrongPassword(w), req[w].user = u
      PROVE  /\ users'[u].failed >= users[u].failed
             /\ users'[u].failed = users[u].failed + 1 \/ users'[u].failed = MaxFailed
  <2>1. req[w].failed = users[u].failed
    BY <1>1 DEF WrongPassword, At, SerialInv, Recalls, Counting
  <2>2. users'[u].failed = IF users[u].failed < MaxFailed THEN users[u].failed + 1 ELSE MaxFailed
    BY <1>0, <1>1, <2>1 DEF WrongPassword, Account
  <2> QED BY <1>0, <2>2
<1>2. CASE Strikes(u)
  BY <1>1, <1>2 DEF Strikes
<1>3. CASE ~Strikes(u)
  <2>1. users'[u].failed = users[u].failed
    <3>1. ASSUME NEW w \in Worker, Arrive(w) PROVE users'[u].failed = users[u].failed
      <4>1. ASSUME NEW v \in User, NEW b \in BOOLEAN, AdminWrite(w, v, b)
            PROVE  users'[u].failed = users[u].failed
        BY <1>0, <4>1 DEF AdminWrite, Account
      <4>2. users' = users \/ \E v \in User, b \in BOOLEAN : AdminWrite(w, v, b)
        BY <3>1 DEF Arrive, RegisterRead, LoginUnknown, LoginWrong, LoginRight, RefreshRead,
                    LogoutRead, ForgotRead, ResetRead, AdminWrite, Abort
      <4> QED BY <4>1, <4>2
    <3>2. ASSUME NEW w \in Worker, Continue(w) PROVE users'[u].failed = users[u].failed
      <4>1. ASSUME WrongPassword(w) \/ LoginSuccess(w) \/ ResetWrite(w)
            PROVE  users'[u].failed = users[u].failed
        <5>1. req[w].user # u
          BY <1>3, <4>1 DEF Strikes, Pardons
        <5> QED BY <1>0, <4>1, <5>1 DEF WrongPassword, LoginSuccess, ResetWrite
      <4>2. ASSUME RegisterInsert(w) PROVE users'[u].failed = users[u].failed
        BY <1>0, <4>2 DEF RegisterInsert
      <4>3. ASSUME NEW t \in ResetToken, ForgotWrite(w, t)
            PROVE  users'[u].failed = users[u].failed
        BY <1>0, <4>3 DEF ForgotWrite, Account
      <4>4. CASE users' = users
        BY <4>4
      <4> QED BY <3>2, <4>1, <4>2, <4>3, <4>4
          DEF Continue, RegisterAudit, FailureAudit, LoginDevice, LoginNewDevice, LoginAudit,
              Reply, RefreshUser, RefreshRotate, LoginIssue, RefreshIssue, LogoutRevoke,
              LogoutAudit, ForgotMail, ResetAudit, AdminAudit
    <3>3. ASSUME NEW v \in User, VerifyEmail(v) PROVE users'[u].failed = users[u].failed
      BY <1>0, <3>3 DEF VerifyEmail, Account
    <3>4. ASSUME Tick PROVE users'[u].failed = users[u].failed
      <4>1. users[u] \in Account
        BY <1>0
      <4> QED BY <3>4, <4>1 DEF Tick, Account
    <3>5. UNCHANGED vars => users'[u].failed = users[u].failed
      BY DEF vars
    <3> QED BY <3>1, <3>2, <3>3, <3>4, <3>5 DEF Next
  <2> QED BY <1>0, <1>3, <2>1
<1> QED BY <1>2, <1>3

StrikeInv ==
  /\ strikes \in [User -> Nat]
  /\ \A u \in User : strikes[u] <= users[u].failed /\ (u \notin registered => strikes[u] = 0)

LEMMA RegisteredStays ==
  ASSUME TypeOK, Carried, [Next]_vars
  PROVE  /\ registered \subseteq registered'
         /\ \A u \in User : Strikes(u) /\ SerialInv => u \in registered
<1>1. registered \subseteq registered'
  <2>1. ASSUME NEW w \in Worker, Arrive(w) PROVE registered' = registered
    BY <2>1 DEF Arrive, RegisterRead, LoginUnknown, LoginWrong, LoginRight, RefreshRead,
                LogoutRead, ForgotRead, ResetRead, AdminWrite, Abort
  <2>2. ASSUME NEW w \in Worker, Continue(w), ~RegisterInsert(w) PROVE registered' = registered
    BY <2>2 DEF Continue, RegisterAudit, WrongPassword, FailureAudit, LoginDevice,
                LoginNewDevice, LoginSuccess, LoginAudit, Reply, RefreshUser, RefreshRotate,
                LoginIssue, RefreshIssue, LogoutRevoke, LogoutAudit, ForgotWrite, ForgotMail,
                ResetWrite, ResetAudit, AdminAudit
  <2>3. ASSUME NEW w \in Worker, RegisterInsert(w) PROVE registered \subseteq registered'
    BY <2>3 DEF RegisterInsert
  <2> QED BY <2>1, <2>2, <2>3 DEF Next, vars, Tick, VerifyEmail
<1>2. ASSUME NEW u \in User, Strikes(u), SerialInv PROVE u \in registered
  BY <1>2 DEF Strikes, WrongPassword, At, SerialInv, Recalls
<1> QED BY <1>1, <1>2

LEMMA StrikeStep ==
  ASSUME TypeOK, TypeOK', Carried, SerialInv, StrikeInv, [HNext]_hvars PROVE StrikeInv'
<1>0. [Next]_vars
  BY HistoryIsAuth
<1>1. CASE UNCHANGED hvars
  BY <1>1 DEF hvars, vars, StrikeInv
<1>2. CASE HNext
  <2>1. ASSUME NEW u \in User
        PROVE  /\ Counted(u) \in Nat /\ Counted(u) <= users'[u].failed
               /\ u \notin registered' => Counted(u) = 0
    <3>0. /\ users[u].failed \in Nat /\ users'[u].failed \in Nat /\ MaxFailed \in Nat
          /\ strikes[u] \in Nat /\ strikes[u] <= users[u].failed
      BY CounterAssumption DEF TypeOK, Account, StrikeInv
    <3>1. CASE Pardons(u)
      <4>1. Counted(u) = 0
        BY <3>1 DEF Counted, Pardons
      <4> QED BY <3>0, <4>1
    <3>2. CASE ~Pardons(u) /\ u \in registered
      <4>1. Counted(u) = IF strikes[u] < MaxFailed /\ Strikes(u) THEN strikes[u] + 1 ELSE strikes[u]
        BY <3>2 DEF Counted, Pardons, Strikes
      <4>2. /\ users'[u].failed >= users[u].failed
            /\ Strikes(u) => \/ users'[u].failed = users[u].failed + 1
                             \/ users'[u].failed = MaxFailed
        BY <1>0, <3>2, Counter
      <4>3. u \in registered'
        BY <1>0, <3>2, RegisteredStays
      <4>4. CASE strikes[u] < MaxFailed /\ Strikes(u)
        BY <3>0, <4>1, <4>2, <4>3, <4>4
      <4>5. CASE ~(strikes[u] < MaxFailed /\ Strikes(u))
        BY <3>0, <4>1, <4>2, <4>3, <4>5
      <4> QED BY <4>4, <4>5
    <3>3. CASE ~Pardons(u) /\ u \notin registered
      <4>1. strikes[u] = 0 /\ ~Strikes(u)
        BY <1>0, <3>3, RegisteredStays DEF StrikeInv
      <4>2. Counted(u) = 0
        BY <3>3, <4>1 DEF Counted, Pardons, Strikes
      <4> QED BY <3>0, <4>2
    <3> QED BY <3>1, <3>2, <3>3
  <2>2. strikes' = [u \in User |-> Counted(u)]
    BY <1>2, Observing DEF Observed
  <2> QED BY <2>1, <2>2 DEF StrikeInv
<1> QED BY <1>1, <1>2

\* The history restrains no handler: what holds of Auth holds here.
THEOREM HistoryImplementsAuth == HSpec => Spec
  BY HistoryIsAuth, PTL DEF HSpec, Spec

LEMMA StrikeInit == HInit => StrikeInv
<1> SUFFICES ASSUME HInit PROVE StrikeInv
  OBVIOUS
<1>1. \A u \in User : users[u].failed = 0
  BY DEF HInit, Init, SeededAccount, NoAccount
<1> QED BY <1>1 DEF HInit, StrikeInv

\* The strikes of an account are counted right until two requests about one account overlap.
CountedApart == ~overlapped => StrikeInv

LEMMA CountedStep ==
  ASSUME TypeOK, TypeOK', Carried, Apart, CountedApart, [HNext]_hvars PROVE CountedApart'
<1>1. ~overlapped' => ~overlapped
  BY Observing DEF Observed, hvars
<1> QED BY <1>1, StrikeStep DEF Apart, CountedApart

\* As long as no two requests about one account have overlapped, an account whose password
\* has been mistyped the maximal number of times, with no success between, carries a lock.
THEOREM LockAfterMaxFailedCorrect == HSpec => []LockAfterMaxFailed
<1> DEFINE Inv == TypeOK /\ Carried /\ Apart /\ CountedApart
<1>1. HInit => Inv
  BY HistoryIsAuth, InitType, ApartInit, StrikeInit DEF CountedApart
<1>2. Inv /\ [HNext]_hvars => Inv'
  BY HistoryIsAuth, StepType, ApartStep, CountedStep
<1>3. Inv => LockAfterMaxFailed
  <2> SUFFICES ASSUME Inv, ~overlapped, NEW u \in User, strikes[u] >= MaxFailed
               PROVE  users[u].lock # Null
    BY DEF LockAfterMaxFailed
  <2>1. /\ users[u].failed \in Nat /\ MaxFailed \in Nat
        /\ strikes[u] \in Nat /\ strikes[u] <= users[u].failed
    BY CounterAssumption DEF TypeOK, Account, CountedApart, StrikeInv
  <2>2. users[u].failed >= MaxFailed
    BY <2>1
  <2> QED BY <2>2 DEF Apart, SerialInv, LocksMatch
<1> QED BY <1>1, <1>2, <1>3, PTL DEF HSpec

-----------------------------------------------------------------------------
(* Sessions that are logged out                                              *)

LEMMA RevokedStays ==
  ASSUME TypeOK, Carried, [Next]_vars, NEW s \in SessionId, sessions[s].state = "revoked"
  PROVE  sessions'[s].state = "revoked"
<1>1. CASE Quiet
  BY <1>1 DEF Quiet
<1>2. ASSUME NEW w \in Worker, RefreshRotate(w) \/ LogoutRevoke(w)
      PROVE  sessions'[s].state = "revoked"
  BY <1>2 DEF RefreshRotate, LogoutRevoke, TypeOK, SessionRow
<1>3. ASSUME NEW w \in Worker, NEW n \in SessionId,
             RefreshRead(w, n) \/ LoginIssue(w, n) \/ RefreshIssue(w, n)
      PROVE  sessions'[s].state = "revoked"
  BY <1>3 DEF RefreshRead, LoginIssue, RefreshIssue, TypeOK
<1> QED BY <1>1, <1>2, <1>3, Rotation DEF Rotates

\* How a request gets to the audit row of a logout, and to the write of a new password
Ends == {"logout_audit", "reset_write"}

LEMMA EndFlow ==
  ASSUME TypeOK, [Next]_vars, NEW x \in Worker, req'[x].pc \in Ends
  PROVE  \/ req'[x] = req[x] \/ LogoutRevoke(x)
         \/ \E a \in SessionId, t \in SessionId \cup {None} : LogoutRead(x, a, t)
         \/ \E u \in User, t \in ResetToken : ResetRead(x, u, t)
<1>1. ASSUME NEW w \in Worker, NEW r, Serve(w, r), r.pc \notin Ends PROVE req'[x] = req[x]
  BY <1>1 DEF Serve, TypeOK
<1>2. ASSUME NEW w \in Worker, NEW pc, Goto(w, pc), pc \notin Ends PROVE req'[x] = req[x]
  BY <1>2 DEF Goto, Serve, TypeOK, Request
<1>3. ASSUME NEW w \in Worker, Arrive(w),
             ~\E a \in SessionId, t \in SessionId \cup {None} : LogoutRead(w, a, t),
             ~\E u \in User, t \in ResetToken : ResetRead(w, u, t)
      PROVE  req'[x] = req[x]
  <2> USE DEF Stage, Ends
  <2>1. ASSUME NEW u \in User, LoginUnknown(w, u) PROVE req'[x] = req[x]
    BY <2>1 DEF LoginUnknown
  <2>2. ASSUME NEW u \in User, RegisterRead(w, u) \/ ForgotRead(w, u) \/ LoginWrong(w, u)
        PROVE  req'[x] = req[x]
    BY <1>1, <2>2 DEF RegisterRead, ForgotRead, LoginWrong
  <2>3. ASSUME NEW u \in User, NEW d \in Device, LoginRight(w, u, d) PROVE req'[x] = req[x]
    BY <1>1, <2>3 DEF LoginRight
  <2>4. ASSUME NEW s \in SessionId, RefreshRead(w, s) PROVE req'[x] = req[x]
    BY <1>1, <2>4 DEF RefreshRead
  <2>6. ASSUME NEW u \in User, NEW b \in BOOLEAN, AdminWrite(w, u, b) PROVE req'[x] = req[x]
    BY <1>1, <2>6 DEF AdminWrite
  <2>7. Abort(w) => req'[x] = req[x]
    BY <1>1 DEF Abort, Idle
  <2> QED BY <1>3, <2>1, <2>2, <2>3, <2>4, <2>6, <2>7 DEF Arrive
<1>4. ASSUME NEW w \in Worker, Continue(w), ~LogoutRevoke(w) PROVE req'[x] = req[x]
  <2>1. LoginDevice(w) => req'[x] = req[x]
    <3> SUFFICES ASSUME LoginDevice(w) PROVE req'[x] = req[x]
      OBVIOUS
    <3> DEFINE k == devices[req[w].user][req[w].dev] > 0
               r == [req[w] EXCEPT !.pc = IF k THEN "login_success" ELSE "login_new_device",
                                   !.known = k]
    <3>1. r.pc \notin Ends
      BY DEF TypeOK, Request, Ends
    <3> QED BY <1>1, <3>1 DEF LoginDevice
  <2> QED BY <1>1, <1>2, <1>4, <2>1
      DEF Continue, RegisterInsert, RegisterAudit, WrongPassword, FailureAudit, LoginNewDevice,
          LoginSuccess, LoginAudit, Reply, RefreshUser, RefreshRotate, LoginIssue, RefreshIssue,
          LogoutAudit, ForgotWrite, ForgotMail, ResetWrite, ResetAudit, AdminAudit, Redeem,
          Stage, Idle, Ends
<1>5. ASSUME NEW w \in Worker, \E r : Serve(w, r), w # x PROVE req'[x] = req[x]
  BY <1>5 DEF Serve, TypeOK
<1>6. ASSUME NEW w \in Worker,
             \/ LogoutRevoke(w)
             \/ \E a \in SessionId, t \in SessionId \cup {None} : LogoutRead(w, a, t)
             \/ \E u \in User, t \in ResetToken : ResetRead(w, u, t)
      PROVE  \E r : Serve(w, r)
  BY <1>6 DEF LogoutRevoke, LogoutRead, ResetRead, Goto
<1>7. ASSUME Tick \/ UNCHANGED vars \/ \E u \in User : VerifyEmail(u) PROVE req' = req
  BY <1>7 DEF Tick, vars, VerifyEmail
<1> QED BY <1>3, <1>4, <1>5, <1>6, <1>7 DEF Next

\* A row of a logout is there already or written by the request at its audit row.
LEMMA LogoutRows ==
  ASSUME TypeOK, [Next]_vars, NEW s \in SessionId, s \in LoggedOut'
  PROVE  s \in LoggedOut \/ \E w \in Worker : LogoutAudit(w) /\ s = req[w].sid
<1>1. PICK u \in User : <<"logout", u, s>> \in audit'
  BY DEF LoggedOut
<1> DEFINE G == <<"logout", u, s>> \in audit \/ \E w \in Worker : LogoutAudit(w) /\ s = req[w].sid
<1>2. ASSUME NEW a, NEW v, NEW n, Log(a, v, n), a # "logout" PROVE G
  BY <1>1, <1>2 DEF Log
<1>3. ASSUME audit' = audit PROVE G
  BY <1>1, <1>3
<1>4. ASSUME NEW w \in Worker, Arrive(w) PROVE G
  <2>1. audit' = audit \/ \E v \in User : LoginUnknown(w, v)
    BY <1>4 DEF Arrive, RegisterRead, LoginWrong, LoginRight, RefreshRead, LogoutRead,
                ForgotRead, ResetRead, AdminWrite, Abort
  <2> QED BY <1>2, <1>3, <2>1 DEF LoginUnknown
<1>5. ASSUME NEW w \in Worker, LogoutAudit(w) PROVE G
  BY <1>1, <1>5 DEF LogoutAudit, Log
<1>6. ASSUME NEW w \in Worker, Continue(w), ~LogoutAudit(w) PROVE G
  <2>1. \/ audit' = audit \/ RegisterAudit(w) \/ FailureAudit(w) \/ LoginNewDevice(w)
        \/ LoginAudit(w) \/ ResetAudit(w) \/ AdminAudit(w)
    BY <1>6 DEF Continue, RegisterInsert, WrongPassword, LoginDevice, LoginSuccess, LoginIssue,
                Reply, RefreshUser, RefreshRotate, RefreshIssue, LogoutRevoke, ForgotWrite,
                ForgotMail, ResetWrite
  <2> QED BY <1>2, <1>3, <2>1
          DEF RegisterAudit, FailureAudit, LoginNewDevice, LoginAudit, ResetAudit, AdminAudit
<1>7. ASSUME Tick \/ UNCHANGED vars \/ \E v \in User : VerifyEmail(v) PROVE G
  <2>1. audit' = audit
    BY <1>7 DEF Tick, vars, VerifyEmail
  <2> QED BY <1>3, <2>1
<1>8. G
  BY <1>4, <1>5, <1>6, <1>7 DEF Next
<1> QED BY <1>8 DEF LoggedOut

\* What is logged out, or about to be reported as logged out, is revoked.
LogoutInv ==
  /\ \A s \in LoggedOut : sessions[s].state = "revoked"
  /\ \A w \in Worker : req[w].pc = "logout_audit" /\ req[w].sid # None =>
       req[w].sid \in SessionId /\ sessions[req[w].sid].state = "revoked"

LEMMA LogoutStep ==
  ASSUME TypeOK, Carried, LogoutInv, [Next]_vars PROVE LogoutInv'
<1>1. ASSUME NEW x \in Worker, req'[x].pc = "logout_audit", req'[x].sid # None
      PROVE  req'[x].sid \in SessionId /\ sessions'[req'[x].sid].state = "revoked"
  <2>1. CASE req'[x] = req[x]
    BY <1>1, <2>1, RevokedStays DEF LogoutInv
  <2>2. CASE LogoutRevoke(x)
    <3>1. req'[x].sid = req[x].sid /\ req[x].sid \in SessionId
      BY <2>2 DEF LogoutRevoke, Goto, Serve, TypeOK, Request, Carried, Fits, At
    <3> QED BY <2>2, <3>1 DEF LogoutRevoke, TypeOK, SessionRow
  <2>3. ASSUME NEW a \in SessionId, NEW t \in SessionId \cup {None}, LogoutRead(x, a, t)
        PROVE  FALSE
    BY <1>1, <2>3 DEF LogoutRead, Serve, Stage, TypeOK
  <2>4. ASSUME NEW u \in User, NEW t \in ResetToken, ResetRead(x, u, t) PROVE FALSE
    BY <1>1, <2>4 DEF ResetRead, Serve, Stage, TypeOK
  <2> QED BY <1>1, <2>1, <2>2, <2>3, <2>4, EndFlow DEF Ends
<1>2. ASSUME NEW s \in SessionId, s \in LoggedOut' PROVE sessions'[s].state = "revoked"
  <2>1. sessions[s].state = "revoked"
    BY <1>2, LogoutRows, NoneAssumption DEF LogoutInv, LogoutAudit, At
  <2> QED BY <2>1, RevokedStays
<1> QED BY <1>1, <1>2 DEF LogoutInv, LoggedOut

LEMMA LogoutInit == Init => LogoutInv
  BY DEF Init, LogoutInv, LoggedOut, Idle, Stage

\* A refresh that begins after the logout of its token has been answered is refused, whatever
\* overlaps with either of them (auth.py:196, 229-232).
THEOREM LoggedOutIsFinalCorrect == Spec => LoggedOutIsFinal
<1> DEFINE Inv == TypeOK /\ Carried /\ LogoutInv
           Final == \A w \in Worker : At(w, "idle") /\ req'[w].pc \in RefreshStages
                      => req'[w].sid \notin LoggedOut
<1>1. Init => Inv
  BY InitType, LogoutInit
<1>2. Inv /\ [Next]_vars => Inv'
  BY StepType, LogoutStep
<1>3. Inv /\ [Next]_vars => [Final]_vars
  <2> SUFFICES ASSUME Inv, [Next]_vars, NEW w \in Worker, At(w, "idle"),
                      req'[w].pc \in RefreshStages
               PROVE  req'[w].sid \notin LoggedOut
    OBVIOUS
  <2>1. CASE Quiet
    BY <2>1 DEF Quiet, At, RefreshStages
  <2>2. ASSUME NEW v \in Worker, NEW n \in SessionId, RefreshRead(v, n)
        PROVE  req'[w].sid \notin LoggedOut
    <3>1. w = v
      BY <2>2 DEF RefreshRead, Serve, TypeOK, At, RefreshStages
    <3>2. req'[w].sid = n /\ sessions[n].state = "live"
      BY <2>2, <3>1 DEF RefreshRead, Serve, Stage, TypeOK
    <3> QED BY <3>2 DEF LogoutInv
  <2>3. ASSUME NEW v \in Worker, NEW n \in SessionId,
               \/ RefreshRotate(v) \/ LogoutRevoke(v)
               \/ LoginIssue(v, n) \/ RefreshIssue(v, n)
        PROVE  FALSE
    BY <2>3 DEF RefreshRotate, LogoutRevoke, LoginIssue, RefreshIssue, Goto, Serve, Stage,
                TypeOK, Request, At, RefreshStages
  <2>4. ASSUME NEW v \in Worker, RefreshRotate(v) \/ LogoutRevoke(v) PROVE FALSE
    BY <2>4 DEF RefreshRotate, LogoutRevoke, Goto, Serve, TypeOK, Request, At, RefreshStages
  <2> QED BY <2>1, <2>2, <2>3, <2>4, Rotation DEF Rotates
<1> QED BY <1>1, <1>2, <1>3, PTL DEF Spec, LoggedOutIsFinal

-----------------------------------------------------------------------------
(* Tokens that are redeemed                                                  *)

\* A request that is about to change a password has the token it was called with.
Carrying == \A w \in Worker : req[w].pc = "reset_write" => req[w].token \in ResetToken

LEMMA CarryingStep ==
  ASSUME TypeOK, Carrying, [Next]_vars, NEW x \in Worker, req'[x].pc = "reset_write"
  PROVE  /\ req'[x].token \in ResetToken
         /\ req'[x] = req[x] \/ \E u \in User : users[u].rtoken = req'[x].token
<1>1. ASSUME NEW u \in User, NEW t \in ResetToken, ResetRead(x, u, t)
      PROVE  req'[x].token = t /\ users[u].rtoken = t
  BY <1>1 DEF ResetRead, Serve, Stage, TypeOK
<1>2. ASSUME NEW a \in SessionId, NEW t \in SessionId \cup {None},
             LogoutRevoke(x) \/ LogoutRead(x, a, t)
      PROVE  FALSE
  BY <1>2 DEF LogoutRevoke, LogoutRead, Goto, Serve, Stage, TypeOK, Request, At
<1>3. LogoutRevoke(x) => FALSE
  BY DEF LogoutRevoke, Goto, Serve, TypeOK, Request
<1> QED BY <1>1, <1>2, <1>3, EndFlow DEF Ends, Carrying

RedeemedInv ==
  \A p \in redeemed : /\ p[1] \in ResetToken /\ p[2] \in Worker /\ Dead(p[1])
                      /\ ~(req[p[2]].pc = "reset_write" /\ req[p[2]].token = p[1])

LEMMA RedeemedStep ==
  ASSUME TypeOK, Carried, TokenInv, TokenInv', Carrying, RedeemedInv, [HNext]_hvars
  PROVE  RedeemedInv'
<1>0. [Next]_vars
  BY HistoryIsAuth
<1>1. ASSUME NEW p \in redeemed
      PROVE  /\ p[1] \in ResetToken /\ p[2] \in Worker /\ Dead(p[1])'
             /\ ~(req'[p[2]].pc = "reset_write" /\ req'[p[2]].token = p[1])
  <2>1. p[1] \in ResetToken /\ p[2] \in Worker /\ Dead(p[1])
    BY DEF RedeemedInv
  <2> PICK t \in ResetToken : t = p[1]
    BY <2>1
  <2>2. Dead(t)'
    BY <1>0, <2>1, DeadStays
  <2>3. ~(req'[p[2]].pc = "reset_write" /\ req'[p[2]].token = t)
    BY <1>0, <2>1, CarryingStep DEF Dead, RedeemedInv
  <2> QED BY <2>1, <2>2, <2>3 DEF Dead, Mailed
<1>2. ASSUME NEW w \in Worker, ResetWrite(w), NEW t, t = req[w].token
      PROVE  t \in ResetToken /\ req'[w].pc # "reset_write" /\ Dead(t)'
  <2>1. t \in ResetToken
    BY <1>2 DEF ResetWrite, At, Carrying
  <2>2. req'[w].pc = "reset_audit" /\ req'[w].token = t
    BY <1>2 DEF ResetWrite, Redeem, Serve, Stage, TypeOK
  <2>3. Dead(t)'
    BY <2>1, <2>2, NoneAssumption DEF TokenInv, Dead
  <2> QED BY <2>1, <2>2, <2>3
<1>3. ASSUME NEW p \in redeemed'
      PROVE  p \in redeemed \/ \E w \in Worker : ResetWrite(w) /\ p = <<req[w].token, w>>
  BY <1>3, Observing DEF Observed, hvars
<1>4. ASSUME NEW p \in redeemed'
      PROVE  /\ p[1] \in ResetToken /\ p[2] \in Worker /\ Dead(p[1])'
             /\ ~(req'[p[2]].pc = "reset_write" /\ req'[p[2]].token = p[1])
  <2>1. CASE p \in redeemed
    BY <1>1, <2>1
  <2>2. ASSUME NEW w \in Worker, ResetWrite(w), p = <<req[w].token, w>>
        PROVE  /\ p[1] \in ResetToken /\ p[2] \in Worker /\ Dead(p[1])'
               /\ ~(req'[p[2]].pc = "reset_write" /\ req'[p[2]].token = p[1])
    <3>1. p[1] = req[w].token /\ p[2] = w
      BY <2>2
    <3> QED BY <1>2, <2>2, <3>1
  <2> QED BY <1>3, <1>4, <2>1, <2>2
<1> QED BY <1>4 DEF RedeemedInv, Dead, Mailed

\* However resets and new requests for a token overlap, a token that has changed a password
\* is dead: no row holds it then or ever again, and no thread redeems it a second time.
THEOREM RedeemedIsDeadCorrect == HSpec => []RedeemedIsDead
<1> DEFINE Inv == TypeOK /\ Carried /\ TokenInv /\ Carrying /\ RedeemedInv
<1>1. HInit => Inv
  <2>1. HInit => Carrying /\ RedeemedInv
    BY DEF HInit, Init, Carrying, RedeemedInv, Idle, Stage
  <2> QED BY <2>1, HistoryIsAuth, InitType, InitTokens
<1>2. Inv /\ [HNext]_hvars => Inv'
  <2>1. TypeOK /\ Carrying /\ [Next]_vars => Carrying'
    BY CarryingStep DEF Carrying
  <2> QED BY <2>1, HistoryIsAuth, StepType, StepTokens, RedeemedStep
<1>3. Inv => RedeemedIsDead
  BY DEF RedeemedInv, RedeemedIsDead, Dead, At
<1> QED BY <1>1, <1>2, <1>3, PTL DEF HSpec

-----------------------------------------------------------------------------
(* What overlapping costs: the fork                                          *)

\* No two requests in flight show the same refresh token.
TokensApart ==
  \A v, w \in Worker : req[v].sid # None /\ req[v].sid = req[w].sid => v = w

\* A token that a refresh in flight holds has not been redeemed.
Unredeemed == \A w \in Worker : req[w].pc \in RefreshStages =>
                \A s \in SessionId : sessions[s].parent # req[w].sid

LEMMA ReadUnredeemed ==
  ASSUME TypeOK, Carried, ParentRevoked, Unredeemed,
         NEW w \in Worker, NEW p \in SessionId, RefreshRead(w, p)
  PROVE  Unredeemed'
<1>1. \A s \in SessionId : sessions[s].parent # p
  BY NoneAssumption DEF ParentRevoked, RefreshRead
<1>2. /\ \A x \in Worker \ {w} : req'[x] = req[x]
      /\ req'[w].sid = p /\ sessions' = sessions
  BY DEF RefreshRead, Serve, Stage, TypeOK
<1> QED BY <1>1, <1>2 DEF Unredeemed

LEMMA RevokeUnredeemed ==
  ASSUME TypeOK, Carried, OneSuccessor, Unredeemed,
         NEW w \in Worker, RefreshRotate(w) \/ LogoutRevoke(w)
  PROVE  OneSuccessor' /\ Unredeemed'
<1>1. \A s \in SessionId : sessions'[s].parent = sessions[s].parent
  BY DEF RefreshRotate, LogoutRevoke, TypeOK, SessionRow
<1>2. \A x \in Worker : /\ req'[x].sid = req[x].sid
                        /\ req'[x].pc \in RefreshStages => req[x].pc \in RefreshStages
  BY DEF RefreshRotate, LogoutRevoke, Goto, Serve, At, TypeOK, Request, RefreshStages
<1> QED BY <1>1, <1>2 DEF OneSuccessor, Unredeemed

LEMMA IssueUnredeemed ==
  ASSUME TypeOK, Carried, TokensApart, OneSuccessor, Unredeemed,
         NEW w \in Worker, NEW n \in SessionId, LoginIssue(w, n) \/ RefreshIssue(w, n)
  PROVE  OneSuccessor' /\ Unredeemed'
<1> DEFINE p == IF req[w].pc = "refresh_issue" THEN req[w].sid ELSE None
<1>1. /\ sessions'[n].parent = p
      /\ \A s \in SessionId \ {n} : sessions'[s] = sessions[s]
  BY DEF LoginIssue, RefreshIssue, At, TypeOK, NewSession
<1>2. /\ \A x \in Worker \ {w} : req'[x] = req[x]
      /\ req'[w].pc \notin RefreshStages
  BY DEF LoginIssue, RefreshIssue, Serve, Stage, TypeOK, RefreshStages
<1>3. p # None => p = req[w].sid /\ \A s \in SessionId : sessions[s].parent # p
  BY DEF Unredeemed, RefreshStages
<1> HIDE DEF p
<1>4. OneSuccessor'
  BY <1>1, <1>3 DEF OneSuccessor
<1>5. ASSUME NEW x \in Worker, req'[x].pc \in RefreshStages, NEW s \in SessionId
      PROVE  sessions'[s].parent # req'[x].sid
  <2>1. x # w /\ req'[x] = req[x] /\ req[x].pc \in RefreshStages
    BY <1>2, <1>5
  <2>2. req[x].sid # None
    BY <2>1, NoneAssumption DEF Carried, Fits
  <2>3. req[x].sid # p
    BY <1>3, <2>1, <2>2 DEF TokensApart
  <2> QED BY <1>1, <2>1, <2>3 DEF Unredeemed
<1> QED BY <1>4, <1>5 DEF Unredeemed

LEMMA StepUnredeemed ==
  ASSUME TypeOK, Carried, ParentRevoked, TokensApart, OneSuccessor, Unredeemed, [Next]_vars
  PROVE  OneSuccessor' /\ Unredeemed'
<1>1. CASE Quiet
  BY <1>1 DEF Quiet, OneSuccessor, Unredeemed
<1>2. ASSUME NEW w \in Worker, NEW p \in SessionId, RefreshRead(w, p)
      PROVE  OneSuccessor' /\ Unredeemed'
  BY <1>2, ReadUnredeemed DEF RefreshRead, OneSuccessor
<1> QED BY <1>1, <1>2, Rotation, RevokeUnredeemed, IssueUnredeemed DEF Rotates

\* While no two requests that show one refresh token overlap, no token is redeemed twice: the
\* fork of auth.py:196 needs two requests with the same token, whatever else goes on beside them.
THEOREM OneSuccessorCorrect == Spec /\ []TokensApart => []OneSuccessor
<1> DEFINE Inv == TypeOK /\ Carried /\ RotationInv /\ OneSuccessor /\ Unredeemed
<1>1. Init => OneSuccessor /\ Unredeemed
  BY DEF Init, OneSuccessor, Unredeemed, NoSession, Idle, Stage, RefreshStages
<1>2. Init => Inv
  BY <1>1, InitType, InitRotation
<1>3. TokensApart /\ Inv /\ [Next]_vars => Inv'
  <2>1. RotationInv => ParentRevoked
    BY DEF RotationInv
  <2> QED BY <2>1, StepType, StepRotation, StepUnredeemed
<1>4. Inv => OneSuccessor
  OBVIOUS
<1> QED BY <1>2, <1>3, <1>4, PTL DEF Spec
=============================================================================
