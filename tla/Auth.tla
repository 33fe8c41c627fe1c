-------------------------------- MODULE Auth --------------------------------
(***************************************************************************)
(* The authentication router (app/routers/auth.py), the account switch of   *)
(* the admin router and the rows they share: users, devices, sessions and   *)
(* audit_logs.                                                              *)
(*                                                                         *)
(* FastAPI runs the handlers, plain functions, in a pool of threads, each   *)
(* with a database session of its own.  A handler holds no lock and its     *)
(* transactions are single statements, so what interleaves is its SELECTs   *)
(* and its commits: every one of them is an action here, and req[w] is what *)
(* the handler that thread w runs remembers between two of them.  A request *)
(* that is refused before it writes anything leaves the state as it was and *)
(* has no action.                                                           *)
(*                                                                         *)
(* Instants are kept as the time that is left until them, in ticks.         *)
(***************************************************************************)
EXTENDS Integers

CONSTANTS User, Device, SessionId, ResetToken,  \* rows and tokens that may exist
          Worker,         \* threads of the request pool
          None,           \* SQL NULL
          Seeded,         \* accounts the seed script has put in the database
          MaxFailed,      \* MAX_FAILED_ATTEMPTS
          LockTicks,      \* LOCKOUT_MINUTES
          ResetTicks,     \* the 30 minutes of a reset token
          SessionTicks,   \* the 7 days of a session row
          JwtTicks,       \* REFRESH_TOKEN_EXPIRE_DAYS
          AccessTicks,    \* ACCESS_TOKEN_EXPIRE_MINUTES
          AgeCap,         \* bound: a session is not aged beyond this
          Smtp,           \* is SMTP_HOST configured
          Endpoints       \* what clients may do; "mistype" is a login that must fail

ASSUME NoneAssumption ==
  /\ None \notin User /\ None \notin Device
  /\ None \notin SessionId /\ None \notin ResetToken
ASSUME CounterAssumption == MaxFailed \in Nat \ {0}
ASSUME TimeAssumption ==
  /\ LockTicks \in Nat \ {0} /\ ResetTicks \in Nat
  /\ {SessionTicks, JwtTicks, AccessTicks} \subseteq Nat
  /\ AgeCap \in Nat
  /\ \A t \in {SessionTicks, JwtTicks, AccessTicks} : t < AgeCap
ASSUME SetupAssumption == Seeded \subseteq User /\ Smtp \in BOOLEAN

VARIABLES registered,  \* the users that have a row
          users,       \* their rows
          devices,     \* how many device rows a user has with a fingerprint
          sessions,    \* the rows of refresh tokens
          issued,      \* the sessions whose tokens have reached a client
          mail,        \* the reset mails delivered: <<addressee, token>>
          audit,       \* the audit rows: <<action, user, session>>
          req          \* per thread, the request it is serving

vars == <<registered, users, devices, sessions, issued, mail, audit, req>>

Null == -1       \* locked_until IS NULL; reset_password_expires IS NULL or past

NoAccount == [active |-> FALSE, verified |-> FALSE, vtoken |-> FALSE,
              rtoken |-> None, rexp |-> Null, failed |-> 0, lock |-> Null]
\* the row register() inserts
NewAccount == [NoAccount EXCEPT !.active = TRUE, !.verified = ~Smtp, !.vtoken = ~Smtp]
\* the row of seed.py
SeededAccount == [NoAccount EXCEPT !.active = TRUE, !.verified = TRUE]

NoSession == [state |-> "none", user |-> None, dev |-> None,
              parent |-> None, by |-> None, age |-> 0]
\* parent and by are ghosts: the session it was rotated from, the inserting thread
NewSession(u, d, p, w) == [state |-> "live", user |-> u, dev |-> d,
                           parent |-> p, by |-> w, age |-> 0]

Stage(pc, u, d, s) ==
  [pc |-> pc, user |-> u, dev |-> d, sid |-> s, token |-> None,
   failed |-> 0, lockSet |-> FALSE, known |-> FALSE]
Idle == Stage("idle", None, None, None)

Locked(u) == users[u].lock > 0            \* locked_until > now
JwtValid(s) == sessions[s].age <= JwtTicks
AccessValid(s) == sessions[s].age <= AccessTicks
Expired(s) == sessions[s].age > SessionTicks   \* expires_at < now

\* A free thread takes a request for an endpoint.
Accept(w, e) == e \in Endpoints /\ req[w].pc = "idle"
At(w, pc) == req[w].pc = pc
Serve(w, r) == req' = [req EXCEPT ![w] = r]
Goto(w, pc) == Serve(w, [req[w] EXCEPT !.pc = pc])
\* Login and logout write a row for each session, which the row itself does not name;
\* of the other rows the action and the user are told apart.
Log(action, u, s) == audit' = audit \cup {<<action, u, s>>}

-----------------------------------------------------------------------------
(* Registration and verification                                           *)

RegisterRead(w, u) ==
  /\ Accept(w, "register")
  /\ u \notin registered
  /\ Serve(w, Stage("reg_insert", u, None, None))
  /\ UNCHANGED <<registered, users, devices, sessions, issued, mail, audit>>

\* The email column is UNIQUE: the insert of the slower of two requests fails.
RegisterInsert(w) ==
  /\ At(w, "reg_insert")
  /\ LET u == req[w].user IN
     IF u \in registered
     THEN Serve(w, Idle) /\ UNCHANGED <<registered, users>>
     ELSE /\ registered' = registered \cup {u}
          /\ users' = [users EXCEPT ![u] = NewAccount]
          /\ Goto(w, "reg_audit")
  /\ UNCHANGED <<devices, sessions, issued, mail, audit>>

\* The verification mail carries the row's token; its outcome is not looked at.
RegisterAudit(w) ==
  /\ At(w, "reg_audit")
  /\ Log("register", req[w].user, None)
  /\ Serve(w, Idle)
  /\ UNCHANGED <<registered, users, devices, sessions, issued, mail>>

\* The caller knows the token (the tests read it from the row).  The read and the
\* commit are one step: no one else writes the two columns, or anything else to them.
VerifyEmail(u) ==
  /\ "verify" \in Endpoints
  /\ users[u].vtoken
  /\ users' = [users EXCEPT ![u].verified = TRUE, ![u].vtoken = FALSE]
  /\ UNCHANGED <<registered, devices, sessions, issued, mail, audit, req>>

-----------------------------------------------------------------------------
(* Login                                                                   *)

LoginUnknown(w, u) ==
  /\ Accept(w, "mistype")
  /\ u \notin registered
  /\ Log("login_failure", None, None)
  /\ UNCHANGED <<registered, users, devices, sessions, issued, mail, req>>

\* Mutant: the password is checked before the lock
LoginWrongUnchecked(w, u) ==
  /\ Accept(w, "mistype")
  /\ u \in registered
  /\ Serve(w, [Stage("wrong_password", u, None, None)
                 EXCEPT !.failed = users[u].failed])
  /\ UNCHANGED <<registered, users, devices, sessions, issued, mail, audit>>

\* The SELECT of the user and the checks made on what it returned.
LoginWrong(w, u) ==
  /\ Accept(w, "mistype")
  /\ u \in registered /\ ~Locked(u)
  /\ Serve(w, [Stage("wrong_password", u, None, None)
                 EXCEPT !.failed = users[u].failed])
  /\ UNCHANGED <<registered, users, devices, sessions, issued, mail, audit>>

LoginRight(w, u, d) ==
  /\ Accept(w, "login")
  /\ u \in registered /\ ~Locked(u)
  /\ users[u].active /\ users[u].verified
  /\ Serve(w, [Stage("login_device", u, d, None)
                 EXCEPT !.failed = users[u].failed,
                        !.lockSet = users[u].lock # Null])
  /\ UNCHANGED <<registered, users, devices, sessions, issued, mail, audit>>

\* Mutant: > instead of >=
WrongPasswordLate(w) ==
  /\ At(w, "wrong_password")
  /\ LET u == req[w].user
         n == IF req[w].failed < MaxFailed THEN req[w].failed + 1 ELSE MaxFailed IN
     users' = [users EXCEPT ![u].failed = n,
                            ![u].lock = IF n > MaxFailed THEN LockTicks ELSE @]
  /\ Serve(w, Stage("failure_audit", req[w].user, None, None))
  /\ UNCHANGED <<registered, devices, sessions, issued, mail, audit>>

\* failed_login_attempts += 1 on the value read before.  Bound: the counter stops at
\* MaxFailed, beyond which the code tells no two values apart.
WrongPassword(w) ==
  /\ At(w, "wrong_password")
  /\ LET u == req[w].user
         n == IF req[w].failed < MaxFailed THEN req[w].failed + 1 ELSE MaxFailed IN
     users' = [users EXCEPT ![u].failed = n,
                            ![u].lock = IF n >= MaxFailed THEN LockTicks ELSE @]
  /\ Serve(w, Stage("failure_audit", req[w].user, None, None))
  /\ UNCHANGED <<registered, devices, sessions, issued, mail, audit>>

FailureAudit(w) ==
  /\ At(w, "failure_audit")
  /\ Log("login_failure", req[w].user, None)
  /\ Serve(w, Idle)
  /\ UNCHANGED <<registered, users, devices, sessions, issued, mail>>

\* Mutant: every fingerprint counts as known
LoginDeviceKnown(w) ==
  /\ At(w, "login_device")
  /\ Serve(w, [req[w] EXCEPT !.pc = "login_success", !.known = TRUE])
  /\ UNCHANGED <<registered, users, devices, sessions, issued, mail, audit>>

LoginDevice(w) ==
  /\ At(w, "login_device")
  /\ LET isKnown == devices[req[w].user][req[w].dev] > 0 IN
     Serve(w, [req[w] EXCEPT !.pc = IF isKnown THEN "login_success" ELSE "login_new_device",
                             !.known = isKnown])
  /\ UNCHANGED <<registered, users, devices, sessions, issued, mail, audit>>

\* log_action's commit writes the pending device together with the audit row.
LoginNewDevice(w) ==
  /\ At(w, "login_new_device")
  /\ devices' = [devices EXCEPT ![req[w].user][req[w].dev] = @ + 1]
  /\ Log("new_device_login", req[w].user, None)
  /\ Goto(w, "login_success")
  /\ UNCHANGED <<registered, users, sessions, issued, mail>>

\* An UPDATE names a column only if the value assigned differs from the one
\* loaded.  The commit of LoginNewDevice has expired the loaded row: then both
\* columns are named whatever the row held.
LoginSuccess(w) ==
  /\ At(w, "login_success")
  /\ LET r == req[w] IN
     /\ users' = [users EXCEPT
                    ![r.user].failed = IF ~r.known \/ r.failed # 0 THEN 0 ELSE @,
                    ![r.user].lock = IF ~r.known \/ r.lockSet THEN Null ELSE @]
     /\ Serve(w, Stage("login_issue", r.user, r.dev, None))
  /\ UNCHANGED <<registered, devices, sessions, issued, mail, audit>>

\* Mutant: the tokens are returned without the audit row
LoginIssueSilent(w, s) ==
  /\ At(w, "login_issue")
  /\ sessions[s].state = "none"
  /\ sessions' = [sessions EXCEPT ![s] = NewSession(req[w].user, req[w].dev, None, w)]
  /\ Serve(w, Stage("reply", req[w].user, None, s))
  /\ UNCHANGED <<registered, users, devices, issued, mail, audit>>

LoginIssue(w, s) ==
  /\ At(w, "login_issue")
  /\ sessions[s].state = "none"
  /\ sessions' = [sessions EXCEPT ![s] = NewSession(req[w].user, req[w].dev, None, w)]
  /\ Serve(w, Stage("login_audit", req[w].user, None, s))
  /\ UNCHANGED <<registered, users, devices, issued, mail, audit>>

LoginAudit(w) ==
  /\ At(w, "login_audit")
  /\ Log("login", req[w].user, req[w].sid)
  /\ Goto(w, "reply")
  /\ UNCHANGED <<registered, users, devices, sessions, issued, mail>>

\* The answer of login and of refresh: the client has the session's tokens.
Reply(w) ==
  /\ At(w, "reply")
  /\ issued' = issued \cup {req[w].sid}
  /\ Serve(w, Idle)
  /\ UNCHANGED <<registered, users, devices, sessions, mail, audit>>

-----------------------------------------------------------------------------
(* Refresh and logout                                                      *)

\* Mutant: the query does not filter on is_revoked
RefreshReadRevoked(w, s) ==
  /\ Accept(w, "refresh")
  /\ s \in issued /\ JwtValid(s) /\ ~Expired(s)
  /\ Serve(w, Stage("refresh_user", sessions[s].user, sessions[s].dev, s))
  /\ UNCHANGED <<registered, users, devices, sessions, issued, mail, audit>>

RefreshRead(w, s) ==
  /\ Accept(w, "refresh")
  /\ s \in issued /\ JwtValid(s)
  /\ sessions[s].state = "live" /\ ~Expired(s)
  /\ Serve(w, Stage("refresh_user", sessions[s].user, sessions[s].dev, s))
  /\ UNCHANGED <<registered, users, devices, sessions, issued, mail, audit>>

\* Mutant: is_active is not looked at
RefreshUserAny(w) ==
  /\ At(w, "refresh_user")
  /\ Goto(w, "refresh_rotate")
  /\ UNCHANGED <<registered, users, devices, sessions, issued, mail, audit>>

RefreshUser(w) ==
  /\ At(w, "refresh_user")
  /\ IF users[req[w].user].active THEN Goto(w, "refresh_rotate") ELSE Serve(w, Idle)
  /\ UNCHANGED <<registered, users, devices, sessions, issued, mail, audit>>

\* Mutant: the old session stays live
RefreshRotateKeeps(w) ==
  /\ At(w, "refresh_rotate")
  /\ Goto(w, "refresh_issue")
  /\ UNCHANGED <<registered, users, devices, sessions, issued, mail, audit>>

RefreshRotate(w) ==
  /\ At(w, "refresh_rotate")
  /\ sessions' = [sessions EXCEPT ![req[w].sid].state = "revoked"]
  /\ Goto(w, "refresh_issue")
  /\ UNCHANGED <<registered, users, devices, issued, mail, audit>>

RefreshIssue(w, s) ==
  /\ At(w, "refresh_issue")
  /\ sessions[s].state = "none"
  /\ sessions' = [sessions EXCEPT
                    ![s] = NewSession(req[w].user, req[w].dev, req[w].sid, w)]
  /\ Serve(w, Stage("reply", req[w].user, None, s))
  /\ UNCHANGED <<registered, users, devices, issued, mail, audit>>

\* The caller shows any access token that is valid, and any refresh token: the
\* one of a session (t), or one the table does not have (None).  Sessions are never
\* deleted, so the two SELECTs of the handler are one step.
LogoutRead(w, a, t) ==
  /\ Accept(w, "logout")
  /\ a \in issued /\ AccessValid(a)
  /\ users[sessions[a].user].active
  /\ t \in issued \cup {None}
  /\ Serve(w, Stage(IF t = None THEN "logout_audit" ELSE "logout_revoke",
                    sessions[a].user, None, t))
  /\ UNCHANGED <<registered, users, devices, sessions, issued, mail, audit>>

LogoutRevoke(w) ==
  /\ At(w, "logout_revoke")
  /\ sessions' = [sessions EXCEPT ![req[w].sid].state = "revoked"]
  /\ Goto(w, "logout_audit")
  /\ UNCHANGED <<registered, users, devices, issued, mail, audit>>

LogoutAudit(w) ==
  /\ At(w, "logout_audit")
  /\ Log("logout", req[w].user, req[w].sid)
  /\ Serve(w, Idle)
  /\ UNCHANGED <<registered, users, devices, sessions, issued, mail>>

-----------------------------------------------------------------------------
(* Forgotten passwords                                                     *)

ForgotRead(w, u) ==
  /\ Accept(w, "forgot")
  /\ u \in registered
  /\ Serve(w, Stage("forgot_write", u, None, None))
  /\ UNCHANGED <<registered, users, devices, sessions, issued, mail, audit>>

\* secrets.token_urlsafe: no one has seen the token before.
Fresh(t) ==
  /\ \A u \in User : users[u].rtoken # t /\ <<u, t>> \notin mail
  /\ \A w \in Worker : req[w].token # t

\* Mutant: one tick too long
ForgotWriteLong(w, t) ==
  /\ At(w, "forgot_write")
  /\ Fresh(t)
  /\ users' = [users EXCEPT ![req[w].user].rtoken = t, ![req[w].user].rexp = ResetTicks + 1]
  /\ Goto(w, "forgot_mail")
  /\ UNCHANGED <<registered, devices, sessions, issued, mail, audit>>

ForgotWrite(w, t) ==
  /\ At(w, "forgot_write")
  /\ Fresh(t)
  /\ users' = [users EXCEPT ![req[w].user].rtoken = t, ![req[w].user].rexp = ResetTicks]
  /\ Goto(w, "forgot_mail")
  /\ UNCHANGED <<registered, devices, sessions, issued, mail, audit>>

\* The commit expired the row, so the mail carries what the column holds by now.
\* _send swallows a failure and forgot_password ignores what it returns.
ForgotMail(w) ==
  /\ At(w, "forgot_mail")
  /\ mail' \in {mail, mail \cup {<<req[w].user, users[req[w].user].rtoken>>}}
  /\ Serve(w, Idle)
  /\ UNCHANGED <<registered, users, devices, sessions, issued, audit>>

ResetRead(w, u, t) ==
  /\ Accept(w, "reset")
  /\ \E a \in User : <<a, t>> \in mail
  /\ users[u].rtoken = t /\ users[u].rexp # Null
  /\ Serve(w, [Stage("reset_write", u, None, None)
                 EXCEPT !.token = t, !.failed = users[u].failed,
                        !.lockSet = users[u].lock # Null])
  /\ UNCHANGED <<registered, users, devices, sessions, issued, mail, audit>>

\* The handler still has the token it was called with.
Redeem(w) == [Stage("reset_audit", req[w].user, None, None) EXCEPT !.token = req[w].token]

\* Mutant: locked_until is not reset
ResetWriteKeepsLock(w) ==
  /\ At(w, "reset_write")
  /\ users' = [users EXCEPT
                 ![req[w].user].rtoken = None, ![req[w].user].rexp = Null,
                 ![req[w].user].failed = IF req[w].failed # 0 THEN 0 ELSE @]
  /\ Serve(w, Redeem(w))
  /\ UNCHANGED <<registered, devices, sessions, issued, mail, audit>>

\* Mutant: the token stays valid
ResetWriteReusable(w) ==
  /\ At(w, "reset_write")
  /\ users' = [users EXCEPT
                 ![req[w].user].failed = IF req[w].failed # 0 THEN 0 ELSE @,
                 ![req[w].user].lock = IF req[w].lockSet THEN Null ELSE @]
  /\ Serve(w, Redeem(w))
  /\ UNCHANGED <<registered, devices, sessions, issued, mail, audit>>

ResetWrite(w) ==
  /\ At(w, "reset_write")
  /\ LET r == req[w] IN
     /\ users' = [users EXCEPT
                    ![r.user].rtoken = None, ![r.user].rexp = Null,
                    ![r.user].failed = IF r.failed # 0 THEN 0 ELSE @,
                    ![r.user].lock = IF r.lockSet THEN Null ELSE @]
     /\ Serve(w, Redeem(w))
  /\ UNCHANGED <<registered, devices, sessions, issued, mail, audit>>

ResetAudit(w) ==
  /\ At(w, "reset_audit")
  /\ Log("reset_password", req[w].user, None)
  /\ Serve(w, Idle)
  /\ UNCHANGED <<registered, users, devices, sessions, issued, mail>>

-----------------------------------------------------------------------------
(* The administrator's switch, the clock, and requests that die            *)

AdminWrite(w, u, b) ==
  /\ Accept(w, "admin")
  /\ u \in registered
  /\ users' = [users EXCEPT ![u].active = b]
  /\ Serve(w, Stage("admin_audit", u, None, None))
  /\ UNCHANGED <<registered, devices, sessions, issued, mail, audit>>

\* The row names the administrator, who is not one of the accounts looked at here.
AdminAudit(w) ==
  /\ At(w, "admin_audit")
  /\ Log("update_user", None, None)
  /\ Serve(w, Idle)
  /\ UNCHANGED <<registered, users, devices, sessions, issued, mail>>

\* The process is killed, the client is gone, or the database raises: what the
\* handler has committed stays, the rest of it never runs.
Abort(w) ==
  /\ "crash" \in Endpoints
  /\ ~At(w, "idle")
  /\ Serve(w, Idle)
  /\ UNCHANGED <<registered, users, devices, sessions, issued, mail, audit>>

Tick ==
  /\ users' = [u \in User |-> [users[u] EXCEPT !.lock = IF @ > 0 THEN @ - 1 ELSE @,
                                               !.rexp = IF @ >= 0 THEN @ - 1 ELSE @]]
  /\ sessions' = [s \in SessionId |->
       IF sessions[s].state # "none" /\ sessions[s].age < AgeCap
       THEN [sessions[s] EXCEPT !.age = @ + 1] ELSE sessions[s]]
  /\ UNCHANGED <<registered, devices, issued, mail, audit, req>>

-----------------------------------------------------------------------------
Init ==
  /\ registered = Seeded
  /\ users = [u \in User |-> IF u \in Seeded THEN SeededAccount ELSE NoAccount]
  /\ devices = [u \in User |-> [d \in Device |-> 0]]
  /\ sessions = [s \in SessionId |-> NoSession]
  /\ issued = {} /\ mail = {} /\ audit = {}
  /\ req = [w \in Worker |-> Idle]

\* What a client, an administrator or a failure starts
Arrive(w) ==
  \/ \E u \in User : RegisterRead(w, u) \/ LoginUnknown(w, u) \/ LoginWrong(w, u)
  \/ \E u \in User, d \in Device : LoginRight(w, u, d)
  \/ \E s \in SessionId : RefreshRead(w, s)
  \/ \E a \in SessionId, t \in SessionId \cup {None} : LogoutRead(w, a, t)
  \/ \E u \in User : ForgotRead(w, u)
  \/ \E u \in User, t \in ResetToken : ResetRead(w, u, t)
  \/ \E u \in User, b \in BOOLEAN : AdminWrite(w, u, b)
  \/ Abort(w)

\* The next step of the handler a thread is running
Continue(w) ==
  \/ RegisterInsert(w) \/ RegisterAudit(w)
  \/ WrongPassword(w) \/ FailureAudit(w)
  \/ LoginDevice(w) \/ LoginNewDevice(w) \/ LoginSuccess(w)
  \/ LoginAudit(w) \/ Reply(w)
  \/ RefreshUser(w) \/ RefreshRotate(w)
  \/ \E s \in SessionId : LoginIssue(w, s) \/ RefreshIssue(w, s)
  \/ LogoutRevoke(w) \/ LogoutAudit(w)
  \/ \E t \in ResetToken : ForgotWrite(w, t)
  \/ ForgotMail(w) \/ ResetWrite(w) \/ ResetAudit(w) \/ AdminAudit(w)

Next == \/ \E w \in Worker : Arrive(w) \/ Continue(w)
        \/ \E u \in User : VerifyEmail(u)
        \/ Tick

\* Time passes, and a handler once started is run by its thread.
Fairness == WF_vars(Tick) /\ \A w \in Worker : WF_vars(Continue(w))

Spec == Init /\ [][Next]_vars /\ Fairness

-----------------------------------------------------------------------------
(* Properties                                                              *)

Account == [active : BOOLEAN, verified : BOOLEAN, vtoken : BOOLEAN,
            rtoken : ResetToken \cup {None}, rexp : Null .. ResetTicks,
            failed : 0 .. MaxFailed, lock : Null .. LockTicks]
DeviceRows == [User -> [Device -> Nat]]
SessionRow == [state : {"none", "live", "revoked"}, user : User \cup {None},
               dev : Device \cup {None}, parent : SessionId \cup {None},
               by : Worker \cup {None}, age : 0 .. AgeCap]
LoginStages == {"login_device", "login_new_device", "login_success", "login_issue"}
RefreshStages == {"refresh_user", "refresh_rotate", "refresh_issue"}
OtherStages == {"idle", "reg_insert", "reg_audit", "wrong_password", "failure_audit",
                "login_audit", "reply", "logout_revoke", "logout_audit", "forgot_write",
                "forgot_mail", "reset_write", "reset_audit", "admin_audit"}
Request == [pc : LoginStages \cup RefreshStages \cup OtherStages,
            user : User \cup {None}, dev : Device \cup {None},
            sid : SessionId \cup {None}, token : ResetToken \cup {None},
            failed : 0 .. MaxFailed, lockSet : BOOLEAN, known : BOOLEAN]

AuditAction == {"register", "login", "login_failure", "new_device_login", "logout",
                "reset_password", "update_user"}

\* Every row and every request in flight is well formed: counters, locks and
\* ages stay within the bounds the guards of the handlers give them.
TypeOK ==
  /\ registered \subseteq User
  /\ users \in [User -> Account]
  /\ devices \in DeviceRows
  /\ sessions \in [SessionId -> SessionRow]
  /\ issued \subseteq SessionId
  /\ mail \subseteq User \X (ResetToken \cup {None})
  /\ audit \subseteq AuditAction \X (User \cup {None}) \X (SessionId \cup {None})
  /\ req \in [Worker -> Request]

\* Rotation: a refresh hands out a successor only after the session it replaces is
\* revoked for good, whatever other requests and failures come between
\* (refresh_token_endpoint, auth.py:203-218).
ParentRevoked ==
  \A s \in SessionId : sessions[s].parent # None =>
    sessions[sessions[s].parent].state = "revoked"

\* The rotation is not a compare-and-swap, so requests that overlap may fork a
\* session; but each thread adds one successor at most: a token has no more
\* successors than there are threads (auth.py:195-218).
OneSuccessorPerThread ==
  \A s, t \in SessionId :
    /\ sessions[s].parent # None
    /\ sessions[s].parent = sessions[t].parent
    /\ sessions[s].by = sessions[t].by
    => s = t

\* Requests that do not overlap get what the test suite asks for: a rotated-out
\* refresh token is never redeemed again (tests/test_auth.py:92).
OneSuccessor ==
  \A s, t \in SessionId :
    sessions[s].parent # None /\ sessions[s].parent = sessions[t].parent => s = t

\* Anomaly detection sees every session: the user and fingerprint of a session,
\* passed on by each rotation, have a device row, whose first login was audited
\* (login, auth.py:143-178).
SessionHasDevice ==
  \A s \in SessionId : sessions[s].state # "none" =>
    /\ devices[sessions[s].user][sessions[s].dev] > 0
    /\ <<"new_device_login", sessions[s].user, None>> \in audit

\* Each login has an audit row of its own before its tokens reach a client, the second
\* login of a user as the first (services/audit.py:3, auth.py:180-181).
LoginAuditedFirst ==
  \A s \in issued : sessions[s].parent = None => <<"login", sessions[s].user, s>> \in audit

\* A refresh that begins after a logout of its token has been answered is refused; only
\* one that was past the check by then may still go through (auth.py:196, 229-232,
\* tests/test_auth.py:131).
LoggedOut == {s \in SessionId : \E u \in User : <<"logout", u, s>> \in audit}
LoggedOutIsFinal ==
  [][\A w \in Worker : At(w, "idle") /\ req'[w].pc \in RefreshStages
       => req'[w].sid \notin LoggedOut]_vars

\* Requests that have passed the check that the account is active
Admitted(u) == {w \in Worker : /\ req[w].user = u
                               /\ req[w].pc \in LoginStages \cup (RefreshStages \ {"refresh_user"})}
SessionsOf(u) == {s \in SessionId : sessions[s].user = u}

\* A disabled account drains: once the requests admitted earlier are through, none
\* is admitted and no session of the account is added until it is enabled again
\* (auth.py:137, 200; admin.py:77).
DeactivationDrains ==
  [][\A u \in User : ~users[u].active /\ Admitted(u) = {} =>
       /\ SessionsOf(u)' = SessionsOf(u)
       /\ users'[u].active \/ Admitted(u)' = {}]_vars

\* A lock is temporary: requests already past the check may set it anew, later ones
\* may not, and it runs out (auth.py:122-131).
LockRunsOut == \A u \in User : Locked(u) ~> ~Locked(u)

\* The session table keeps the promises of SessionLedger.
Ledger == INSTANCE SessionLedger WITH
  Holder <- Worker,
  state  <- [s \in SessionId |-> sessions[s].state],
  parent <- [s \in SessionId |-> sessions[s].parent],
  held   <- [w \in Worker |->
               IF req[w].pc \in RefreshStages THEN req[w].sid ELSE None]
\* Every step of the handlers is a step of the ledger or none (auth.py:112-232).
ImplementsLedger == Ledger!Spec
=============================================================================
