----------------------------- MODULE Rbac_proofs -----------------------------
(***************************************************************************)
(* Theorems about Rbac, for any accounts, roles, codes, threads and bounds. *)
(***************************************************************************)
EXTENDS Rbac, TLAPS

USE DEF Grants

\* What a request in flight relies on: its caller has a role, its target a row, and a
\* role it is about to assign exists.
RequestOK(r) ==
  r.pc # "idle" =>
    /\ r.op \in Op /\ r.self.role \in Role
    /\ r.op = "update_user" =>
         /\ r.target \in Account /\ HasRow(r.target)
         /\ r.pc \notin {"permit", "load", "role"} => r.change.role \in roles \cup {None}
    /\ r.op # "update_user" => r.target \in Role

ReqOK == \A w \in Worker : RequestOK(req[w])

\* Only a server that is up serves requests.
Quiet == phase # "up" => \A w \in Worker : At(w, "idle")

\* UpIsSeeded with what the first of the two seeds has left for the second
Started ==
  /\ phase # "down" => codes = Code /\ BuiltIn \subseteq roles
  /\ phase = "up" => HasRow(Root)

Inv == TypeOK /\ ReqOK /\ Quiet /\ Started

-----------------------------------------------------------------------------
LEMMA IdleType == Idle \in Request /\ Idle.pc = "idle"
  BY DEF Idle, NoRow, NoChange, Row, Change, Request

LEMMA InitInv == Init => Inv
<1> SUFFICES ASSUME Init PROVE Inv
  OBVIOUS
<1>1. TypeOK
  BY RbacAssumption, IdleType DEF Init, TypeOK, NoRow, Row
<1>2. ReqOK
  BY IdleType DEF Init, ReqOK, RequestOK
<1>3. Started
  BY DEF Init, Started
<1>4. Quiet
  BY IdleType DEF Init, Quiet, At
<1> QED BY <1>1, <1>2, <1>3, <1>4 DEF Inv

\* A step that serves w's request and lets no row vanish keeps the other requests good.
LEMMA OthersOK ==
  ASSUME Inv, NEW w \in Worker, NEW r \in Request, req' = [req EXCEPT ![w] = r],
         roles \subseteq roles', \A a \in Account : HasRow(a) => HasRow(a)',
         RequestOK(r)'
  PROVE  ReqOK' /\ req' \in [Worker -> Request]
  BY DEF Inv, TypeOK, ReqOK, RequestOK

LEMMA SeedRolesInv == ASSUME Inv, SeedRoles PROVE Inv'
<1>1. {grants', asked', wanted'} \subseteq [Role -> SUBSET Code]
  <2>1. ASSUME NEW f \in [Role -> SUBSET Code], NEW g, \A r \in BuiltIn : g[r] \in SUBSET Code
        PROVE  Seeded(f, g) \in [Role -> SUBSET Code]
    BY <2>1 DEF Seeded
  <2>2. grants' \in [Role -> SUBSET Code]
    BY <2>1, RbacAssumption DEF SeedRoles, Inv, TypeOK
  <2>3. \A r \in BuiltIn : grants'[r] \in SUBSET Code
    BY <2>2, RbacAssumption
  <2> QED BY <2>1, <2>2, <2>3 DEF SeedRoles, Inv, TypeOK
<1>2. TypeOK'
  BY <1>1, RbacAssumption DEF Inv, TypeOK, SeedRoles
<1>3. ReqOK'
  BY DEF Inv, ReqOK, RequestOK, SeedRoles, HasRow
<1>4. Started' /\ Quiet'
  BY DEF Inv, SeedRoles, Started, Quiet, At
<1> QED BY <1>2, <1>3, <1>4 DEF Inv

LEMMA SeedAdminInv == ASSUME Inv, SeedAdmin PROVE Inv'
<1>1. Admin \in roles /\ Admin # None /\ Root \in Account
  BY RbacAssumption DEF Inv, Started, SeedAdmin
<1>2. TypeOK'
  BY <1>1, RbacAssumption DEF Inv, TypeOK, SeedAdmin, bounds, Row, NoRow
<1>3. \A a \in Account : HasRow(a) => HasRow(a)'
  BY <1>1 DEF Inv, TypeOK, SeedAdmin, HasRow
<1>4. ReqOK'
  BY <1>3 DEF Inv, ReqOK, RequestOK, SeedAdmin
<1>5. Started' /\ Quiet'
  BY <1>1 DEF Inv, TypeOK, Started, Quiet, At, SeedAdmin, HasRow
<1> QED BY <1>2, <1>4, <1>5 DEF Inv

LEMMA StopInv == ASSUME Inv, Stop PROVE Inv'
<1>1. TypeOK'
  BY IdleType DEF Inv, TypeOK, Stop, bounds
<1>2. ReqOK'
  BY IdleType DEF ReqOK, RequestOK, Stop
<1>3. Started' /\ Quiet'
  BY IdleType DEF Started, Quiet, At, Stop
<1> QED BY <1>1, <1>2, <1>3 DEF Inv

LEMMA RegisterInv == ASSUME Inv, NEW a \in Account, Register(a) PROVE Inv'
<1>1. TypeOK'
  BY RbacAssumption DEF Inv, TypeOK, Register, bounds, Row
<1>2. \A b \in Account : HasRow(b) => HasRow(b)'
  BY RbacAssumption DEF Inv, TypeOK, Register, HasRow
<1>3. ReqOK'
  BY <1>2 DEF Inv, ReqOK, RequestOK, Register
<1>4. Started' /\ Quiet'
  BY <1>2, RbacAssumption DEF Inv, Started, Quiet, At, Register
<1> QED BY <1>1, <1>3, <1>4 DEF Inv

\* A step of a request in flight: only a server that is up takes it, and it stays up.
LEMMA StillQuiet ==
  ASSUME Inv, NEW w \in Worker, ~At(w, "idle"), phase' = phase
  PROVE  phase = "up" /\ Quiet'
  BY DEF Inv, Quiet

LEMMA AuthenticateInv ==
  ASSUME Inv, NEW w \in Worker, NEW a \in Account, NEW op \in Op,
         NEW t, NEW c \in Change, Authenticate(w, a, op, t, c),
         op = "update_user" => t \in Account /\ HasRow(t),
         op # "update_user" => t \in Role
  PROVE  Inv'
<1>1. accounts[a] \in Row /\ accounts[a].role \in Role
  BY DEF Inv, TypeOK, Authenticate, NoRow
<1>2. t \in Account \cup Role
  BY DEF Op
<1> DEFINE served == [Idle EXCEPT !.pc = "permit", !.op = op, !.by = a, !.self = accounts[a],
                                  !.target = t, !.change = c]
<1>3. served \in Request
  BY <1>1, <1>2 DEF Idle, Request, NoRow, NoChange, Row, Change
<1>4. served.pc = "permit" /\ served.op = op /\ served.self = accounts[a] /\ served.target = t
  BY DEF Idle
<1>5. req' = [req EXCEPT ![w] = served]
  BY DEF Authenticate, Serve
<1> HIDE DEF served
<1>6. PICK r \in Request : r = served
  BY <1>3
<1>7. RequestOK(r)'
  BY <1>1, <1>4, <1>6 DEF RequestOK, HasRow, Authenticate
<1>8. ReqOK' /\ req' \in [Worker -> Request]
  BY <1>5, <1>6, <1>7, OthersOK DEF Authenticate, HasRow
<1>9. TypeOK'
  BY <1>8, RbacAssumption DEF Inv, TypeOK, Authenticate
<1>10. Started' /\ Quiet'
  BY DEF Inv, Started, Quiet, Authenticate, HasRow
<1> QED BY <1>8, <1>9, <1>10 DEF Inv

\* What w's request relies on, spelled out
LEMMA InFlight ==
  ASSUME Inv, NEW w \in Worker, ~At(w, "idle")
  PROVE  /\ req[w] \in Request /\ RequestOK(req[w]) /\ phase = "up"
         /\ req[w].op \in Op /\ req[w].self.role \in Role /\ req[w].seen \subseteq Code
         /\ req[w].change \in Change /\ req[w].old \in Change
         /\ req[w].op = "update_user" => req[w].target \in Account /\ HasRow(req[w].target)
         /\ req[w].op # "update_user" => req[w].target \in Role
<1>1. req[w] \in Request /\ RequestOK(req[w]) /\ phase = "up"
  BY DEF Inv, TypeOK, ReqOK, Quiet
<1> QED BY <1>1 DEF RequestOK, At, Request

\* A request may move on with other data, or end, as long as it stays good.
LEMMA ServeOK ==
  ASSUME Inv, NEW w \in Worker, NEW r \in Request, ~At(w, "idle"), Serve(w, r),
         phase' = phase, codes' = codes, roles \subseteq roles',
         \A a \in Account : HasRow(a) => HasRow(a)', RequestOK(r)'
  PROVE  ReqOK' /\ Quiet' /\ Started' /\ req' \in [Worker -> Request]
<1>1. ReqOK' /\ req' \in [Worker -> Request]
  BY OthersOK DEF Serve
<1>2. Quiet'
  BY StillQuiet
<1>3. Started'
  BY RbacAssumption DEF Inv, Started
<1> QED BY <1>1, <1>2, <1>3

LEMMA PermitInv == ASSUME Inv, NEW w \in Worker, Permit(w) PROVE Inv'
<1> DEFINE seen == grants[req[w].self.role]
<1>1. ~At(w, "idle") /\ req[w].pc = "permit"
  BY DEF Permit, At
<1>2. seen \subseteq Code
  BY <1>1, InFlight DEF Inv, TypeOK
<1>3. PICK r \in Request : Serve(w, r) /\ r \in {Idle, [req[w] EXCEPT !.pc = "load", !.seen = seen]}
  BY <1>1, <1>2, InFlight, IdleType DEF Permit, Request
<1>4. RequestOK(r)'
  BY <1>1, <1>3, InFlight, IdleType DEF RequestOK, Request, HasRow, Permit
<1>5. ReqOK' /\ Quiet' /\ Started' /\ req' \in [Worker -> Request]
  BY <1>1, <1>3, <1>4, ServeOK DEF Permit, HasRow
<1>6. TypeOK'
  BY <1>5 DEF Inv, TypeOK, Permit, bounds
<1> QED BY <1>5, <1>6 DEF Inv

LEMMA LoadUserInv == ASSUME Inv, NEW w \in Worker, LoadUser(w) PROVE Inv'
<1> DEFINE row == IF req[w].target = req[w].by THEN req[w].self ELSE accounts[req[w].target]
           old == [NoChange EXCEPT !.active = row.active, !.role = row.role]
           pc == IF req[w].change.role = None THEN "commit" ELSE "role"
           next == [req[w] EXCEPT !.pc = pc, !.old = old]
<1>1. ~At(w, "idle") /\ req[w].pc = "load" /\ req[w].op = "update_user"
  BY DEF LoadUser, At
<1>2. row \in Row
  BY <1>1, InFlight DEF Inv, TypeOK, Request
<1>3. next \in Request
  <2>1. old \in Change
    BY <1>2 DEF NoChange, Row, Change
  <2> HIDE DEF old
  <2> QED BY <1>1, <2>1, InFlight DEF Request
<1>4. PICK r \in Request : Serve(w, r) /\ r = next
  BY <1>3 DEF LoadUser
<1> HIDE DEF old
<1>5. /\ r.op = "update_user" /\ r.self = req[w].self /\ r.target = req[w].target
      /\ r.change = req[w].change /\ r.pc = pc
  BY <1>1, <1>4, InFlight DEF Request
<1>6. RequestOK(r)'
  BY <1>1, <1>5, InFlight DEF RequestOK, HasRow, LoadUser, Op
<1>7. ReqOK' /\ Quiet' /\ Started' /\ req' \in [Worker -> Request]
  BY <1>1, <1>4, <1>6, ServeOK DEF LoadUser, HasRow
<1>8. TypeOK'
  BY <1>7 DEF Inv, TypeOK, LoadUser, bounds
<1> QED BY <1>7, <1>8 DEF Inv

LEMMA FindRoleInv == ASSUME Inv, NEW w \in Worker, FindRole(w) PROVE Inv'
<1>1. ~At(w, "idle")
  BY DEF FindRole, At
<1>2. PICK r \in Request :
        /\ Serve(w, r)
        /\ r = Idle \/ (r = [req[w] EXCEPT !.pc = "commit"] /\ req[w].change.role \in roles)
  BY <1>1, InFlight, IdleType DEF FindRole, Request
<1>3. RequestOK(r)'
  <2>1. CASE r = Idle
    BY <2>1, IdleType DEF RequestOK
  <2>2. CASE r = [req[w] EXCEPT !.pc = "commit"] /\ req[w].change.role \in roles
    <3>1. /\ r.op = req[w].op /\ r.self = req[w].self /\ r.target = req[w].target
          /\ r.change = req[w].change
      BY <2>2, <1>1, InFlight DEF Request
    <3> QED BY <2>2, <3>1, <1>1, InFlight DEF RequestOK, HasRow, FindRole
  <2> QED BY <1>2, <2>1, <2>2
<1>4. ReqOK' /\ Quiet' /\ Started' /\ req' \in [Worker -> Request]
  BY <1>1, <1>2, <1>3, ServeOK DEF FindRole, HasRow
<1>5. TypeOK'
  BY <1>4 DEF Inv, TypeOK, FindRole, bounds
<1> QED BY <1>4, <1>5 DEF Inv

LEMMA LoadRoleInv == ASSUME Inv, NEW w \in Worker, LoadRole(w) PROVE Inv'
<1> DEFINE old == IF req[w].target = req[w].self.role THEN req[w].seen ELSE grants[req[w].target]
           next == [req[w] EXCEPT !.pc = "commit", !.old = [NoChange EXCEPT !.codes = old]]
<1>1. ~At(w, "idle") /\ req[w].pc = "load" /\ req[w].op = "update_role"
  BY DEF LoadRole, At
<1>2. old \subseteq Code
  BY <1>1, InFlight DEF Inv, TypeOK
<1>3. next \in Request
  <2>1. [NoChange EXCEPT !.codes = old] \in Change
    BY <1>2 DEF NoChange, Change
  <2> QED BY <1>1, <2>1, InFlight DEF Request
<1>4. PICK r \in Request : Serve(w, r) /\ r = next
  BY <1>3 DEF LoadRole
<1>5. r.op = "update_role" /\ r.self = req[w].self /\ r.target = req[w].target
  BY <1>1, <1>4, InFlight DEF Request
<1>6. RequestOK(r)'
  BY <1>1, <1>5, InFlight DEF RequestOK, Op
<1>7. ReqOK' /\ Quiet' /\ Started' /\ req' \in [Worker -> Request]
  BY <1>1, <1>4, <1>6, ServeOK DEF LoadRole, HasRow
<1>8. TypeOK'
  BY <1>7 DEF Inv, TypeOK, LoadRole, bounds
<1> QED BY <1>7, <1>8 DEF Inv

LEMMA CheckNameInv == ASSUME Inv, NEW w \in Worker, CheckName(w) PROVE Inv'
<1>1. ~At(w, "idle") /\ req[w].op = "create_role"
  BY DEF CheckName, At
<1>2. PICK r \in Request : Serve(w, r) /\ r \in {Idle, [req[w] EXCEPT !.pc = "commit"]}
  BY <1>1, InFlight, IdleType DEF CheckName, Request
<1>3. RequestOK(r)'
  BY <1>1, <1>2, InFlight, IdleType DEF RequestOK, Request
<1>4. ReqOK' /\ Quiet' /\ Started' /\ req' \in [Worker -> Request]
  BY <1>1, <1>2, <1>3, ServeOK DEF CheckName, HasRow
<1>5. TypeOK'
  BY <1>4 DEF Inv, TypeOK, CheckName, bounds
<1> QED BY <1>4, <1>5 DEF Inv

LEMMA CommitUserInv == ASSUME Inv, NEW w \in Worker, CommitUser(w) PROVE Inv'
<1> DEFINE t == req[w].target
           new == req[w].change
           row == [active |-> Assign(new.active, req[w].old.active, accounts[t].active),
                   role |-> Assign(new.role, req[w].old.role, accounts[t].role)]
<1>1. ~At(w, "idle") /\ req[w].pc = "commit" /\ req[w].op = "update_user"
  BY DEF CommitUser, At
<1>2. /\ t \in Account /\ accounts[t] \in Row /\ accounts[t].role \in roles
      /\ new \in Change /\ new.role \in roles \cup {None} /\ None \notin roles
  BY <1>1, InFlight, RbacAssumption DEF Inv, TypeOK, RequestOK, HasRow, NoRow
<1>3. row \in Row /\ row.role \in roles
  BY <1>2 DEF Assign, Row, Change, Inv, TypeOK
<1>4. accounts' = [accounts EXCEPT ![t] = row]
  BY <1>2 DEF CommitUser, Inv, TypeOK, Row
<1> HIDE DEF row
<1>5. \A a \in Account : HasRow(a) => HasRow(a)'
  BY <1>2, <1>3, <1>4 DEF HasRow, Inv, TypeOK
<1>6. PICK r \in Request : Serve(w, r) /\ r = [req[w] EXCEPT !.pc = "audit"]
  BY <1>1, InFlight DEF CommitUser, Request
<1>7. r.op = "update_user" /\ r.self = req[w].self /\ r.target = t /\ r.change = new
  BY <1>1, <1>6, InFlight DEF Request
<1>8. RequestOK(r)'
  BY <1>1, <1>2, <1>5, <1>7, InFlight DEF RequestOK, CommitUser, Op
<1>9. ReqOK' /\ Quiet' /\ Started' /\ req' \in [Worker -> Request]
  BY <1>1, <1>5, <1>6, <1>8, ServeOK DEF CommitUser
<1>10. /\ accounts' \in [Account -> Row]
       /\ \A a \in Account : accounts'[a].role \in roles \/ accounts'[a] = NoRow
  BY <1>2, <1>3, <1>4 DEF Inv, TypeOK
<1>11. TypeOK'
  BY <1>9, <1>10 DEF Inv, TypeOK, CommitUser, bounds
<1> QED BY <1>9, <1>11 DEF Inv

\* After its commit a request for a role only has its audit row left to write.
LEMMA RoleServed ==
  ASSUME Inv, NEW w \in Worker, ~At(w, "idle"), req[w].op # "update_user",
         Serve(w, Idle) \/ Serve(w, [req[w] EXCEPT !.pc = "audit"]),
         UNCHANGED <<phase, codes, accounts>>, roles \subseteq roles'
  PROVE  ReqOK' /\ Quiet' /\ Started' /\ req' \in [Worker -> Request]
<1>1. PICK r \in Request : Serve(w, r) /\ r \in {Idle, [req[w] EXCEPT !.pc = "audit"]}
  BY InFlight, IdleType DEF Request
<1>2. RequestOK(r)'
  BY <1>1, InFlight, IdleType DEF RequestOK, Request
<1> QED BY <1>1, <1>2, ServeOK DEF HasRow

LEMMA CommitRoleInv == ASSUME Inv, NEW w \in Worker, CommitRole(w) PROVE Inv'
<1> DEFINE t == req[w].target
           new == req[w].change.codes \cap codes
<1>1. ~At(w, "idle") /\ req[w].op = "update_role"
  BY DEF CommitRole, At
<1>2. t \in Role /\ new \subseteq Code
  BY <1>1, InFlight DEF Inv, TypeOK, Op
<1>3. ReqOK' /\ Quiet' /\ Started' /\ req' \in [Worker -> Request]
  BY <1>1, RoleServed DEF CommitRole
<1>4. {grants', asked', wanted'} \subseteq [Role -> SUBSET Code]
  BY <1>2 DEF CommitRole, Asks, Inv, TypeOK
<1>5. TypeOK'
  BY <1>3, <1>4 DEF Inv, TypeOK, CommitRole, bounds
<1> QED BY <1>3, <1>5 DEF Inv

LEMMA InsertRoleInv == ASSUME Inv, NEW w \in Worker, InsertRole(w) PROVE Inv'
<1> DEFINE t == req[w].target
           new == req[w].change.codes \cap codes
<1>1. ~At(w, "idle") /\ req[w].op = "create_role"
  BY DEF InsertRole, At
<1>2. t \in Role /\ new \subseteq Code
  BY <1>1, InFlight DEF Inv, TypeOK, Op
<1>3. ReqOK' /\ Quiet' /\ Started' /\ req' \in [Worker -> Request]
  BY <1>1, RoleServed DEF InsertRole
<1>4. {grants', asked', wanted'} \subseteq [Role -> SUBSET Code] /\ roles' \subseteq Role
      /\ roles \subseteq roles'
  BY <1>2 DEF InsertRole, Inv, TypeOK
<1>5. TypeOK'
  BY <1>3, <1>4 DEF Inv, TypeOK, InsertRole, bounds
<1> QED BY <1>3, <1>5 DEF Inv

LEMMA AuditInv == ASSUME Inv, NEW w \in Worker, Audit(w) PROVE Inv'
<1>1. ~At(w, "idle")
  BY DEF Audit, At
<1>2. RequestOK(Idle)'
  BY IdleType DEF RequestOK
<1>3. ReqOK' /\ Quiet' /\ Started' /\ req' \in [Worker -> Request]
  BY <1>1, <1>2, IdleType, ServeOK DEF Audit, HasRow
<1>4. TypeOK'
  BY <1>1, <1>3, InFlight DEF Inv, TypeOK, Audit, bounds
<1> QED BY <1>3, <1>4 DEF Inv

LEMMA ArriveInv ==
  ASSUME Inv, NEW w \in Worker, NEW a \in Account, Arrive(w, a) PROVE Inv'
<1>1. UserChange \subseteq Change /\ RoleChange \subseteq Change
  BY RbacAssumption DEF UserChange, RoleChange, Change
<1>2. ASSUME NEW t \in Account, HasRow(t), NEW c \in UserChange,
             Authenticate(w, a, "update_user", t, c)
      PROVE  Inv'
  BY <1>1, <1>2, AuthenticateInv DEF Op
<1>3. ASSUME NEW t \in Role, NEW c \in RoleChange, NEW op \in {"update_role", "create_role"},
             Authenticate(w, a, op, t, c)
      PROVE  Inv'
  BY <1>1, <1>3, AuthenticateInv DEF Op
<1>4. roles \subseteq Role
  BY DEF Inv, TypeOK
<1> QED BY <1>2, <1>3, <1>4 DEF Arrive

LEMMA StepInv == Inv /\ [Next]_vars => Inv'
<1> SUFFICES ASSUME Inv, [Next]_vars PROVE Inv'
  OBVIOUS
<1>1. CASE SeedRoles \/ SeedAdmin \/ Stop
  BY <1>1, SeedRolesInv, SeedAdminInv, StopInv
<1>2. ASSUME NEW a \in Account, Register(a) PROVE Inv'
  BY <1>2, RegisterInv
<1>3. ASSUME NEW w \in Worker, Continue(w) PROVE Inv'
  BY <1>3, PermitInv, LoadUserInv, FindRoleInv, LoadRoleInv, CheckNameInv, CommitUserInv,
     CommitRoleInv, InsertRoleInv, AuditInv DEF Continue
<1>4. ASSUME NEW w \in Worker, NEW a \in Account, Arrive(w, a) PROVE Inv'
  BY <1>4, ArriveInv
<1>5. CASE UNCHANGED vars
  BY <1>5 DEF vars, bounds, Inv, TypeOK, ReqOK, RequestOK, Quiet, At, Started, HasRow
<1> QED BY <1>1, <1>2, <1>3, <1>4, <1>5 DEF Next

\* The inductive invariant holds in every reachable state.
THEOREM InvCorrect == Spec => []Inv
  BY InitInv, StepInv, PTL DEF Spec

-----------------------------------------------------------------------------
\* The tables of app/models/role.py and user.py and the requests of admin.py are always
\* well formed: in particular no account has a role that does not exist, whatever
\* requests, stops and starts overlap.
THEOREM TypeCorrect == Spec => []TypeOK
<1>1. Inv => TypeOK
  BY DEF Inv
<1> QED BY InvCorrect, <1>1, PTL

\* A server that is up is seeded, wherever earlier starts were cut off (seed.py:97-99).
THEOREM UpIsSeededCorrect == Spec => []UpIsSeeded
<1>1. Inv => UpIsSeeded
  BY DEF Inv, Started, UpIsSeeded
<1> QED BY InvCorrect, <1>1, PTL

\* Between two starts, updates of a role that overlap neither lose a code all of them keep
\* nor grant one that none of them has asked for (admin.py:146-151, 158-161).
THEOREM GrantsFollowRequestsCorrect == Spec => []GrantsFollowRequests
<1>1. Init => GrantsFollowRequests
  BY DEF Init, GrantsFollowRequests
<1>2. Inv /\ GrantsFollowRequests /\ [Next]_vars => GrantsFollowRequests'
  <2> SUFFICES ASSUME Inv, GrantsFollowRequests, [Next]_vars PROVE GrantsFollowRequests'
    OBVIOUS
  <2> USE DEF GrantsFollowRequests
  <2>1. CASE SeedRoles
    <3>1. asked' = Seeded(asked, grants') /\ wanted' = Seeded(wanted, grants')
      BY <2>1 DEF SeedRoles
    <3>2. \A r \in Role \ BuiltIn : grants'[r] = grants[r]
      BY <2>1 DEF SeedRoles, Seeded
    <3> QED BY <3>1, <3>2 DEF Seeded
  <2>2. CASE \E w \in Worker : CommitRole(w)
    <3>1. PICK w \in Worker : CommitRole(w)
      BY <2>2
    <3> DEFINE t == req[w].target
               new == req[w].change.codes \cap codes
               old == req[w].old.codes
               serves == /\ grants' = [grants EXCEPT ![t] = (@ \ (old \ new)) \cup (new \ old)]
                         /\ Asks(t, new)
    <3>2. serves \/ UNCHANGED <<grants, asked, wanted>>
      BY <3>1 DEF CommitRole
    <3>3. CASE serves
      BY <3>3 DEF Asks, Inv, TypeOK
    <3> QED BY <3>2, <3>3
  <2>3. CASE \E w \in Worker : InsertRole(w)
    BY <2>3 DEF InsertRole, Inv, TypeOK
  <2>4. CASE UNCHANGED <<grants, asked, wanted>>
    BY <2>4
  <2>5. ASSUME NEW w \in Worker, Continue(w), ~CommitRole(w), ~InsertRole(w)
        PROVE  UNCHANGED <<grants, asked, wanted>>
    BY <2>5 DEF Continue, Permit, LoadUser, FindRole, LoadRole, CheckName, CommitUser, Audit
  <2>6. ASSUME NEW w \in Worker, NEW a \in Account, Arrive(w, a)
        PROVE  UNCHANGED <<grants, asked, wanted>>
    BY <2>6 DEF Arrive, Authenticate
  <2>7. ASSUME NEW a \in Account, Register(a) PROVE UNCHANGED <<grants, asked, wanted>>
    BY <2>7 DEF Register
  <2>8. SeedAdmin \/ Stop \/ UNCHANGED vars => UNCHANGED <<grants, asked, wanted>>
    BY DEF SeedAdmin, Stop, vars
  <2> QED BY <2>1, <2>2, <2>3, <2>4, <2>5, <2>6, <2>7, <2>8 DEF Next
<1> QED BY <1>1, <1>2, InvCorrect, PTL DEF Spec

\* A start does not touch an account that exists: until the server is up no request is
\* served, and the seed of the administrator looks first (seed.py:75-77).
THEOREM StartKeepsAccountsCorrect == Spec => StartKeepsAccounts
<1> DEFINE Kept == phase # "up" => \A a \in Account : HasRow(a) => accounts'[a] = accounts[a]
<1>1. Inv /\ [Next]_vars => [Kept]_vars
  <2> SUFFICES ASSUME Inv, Next, phase # "up", NEW a \in Account, HasRow(a)
               PROVE  accounts'[a] = accounts[a]
    OBVIOUS
  <2>1. \A w \in Worker : At(w, "idle")
    BY DEF Inv, Quiet
  <2>2. CASE SeedAdmin
    BY <2>2 DEF SeedAdmin, Inv, TypeOK
  <2>3. CASE UNCHANGED accounts
    BY <2>3
  <2>4. ~\E w \in Worker : Continue(w) \/ \E b \in Account : Arrive(w, b)
    <3>1. ASSUME NEW w \in Worker, Continue(w) PROVE FALSE
      BY <2>1, <3>1 DEF Continue, At, Permit, LoadUser, FindRole, LoadRole, CheckName, CommitUser,
         CommitRole, InsertRole, Audit
    <3>2. ASSUME NEW w \in Worker, NEW b \in Account, Arrive(w, b) PROVE FALSE
      BY <3>2 DEF Arrive, Authenticate
    <3> QED BY <3>1, <3>2
  <2>5. ASSUME NEW b \in Account, Register(b) PROVE FALSE
    BY <2>5 DEF Register
  <2>6. SeedRoles \/ Stop => UNCHANGED accounts
    BY DEF SeedRoles, Stop
  <2> QED BY <2>2, <2>3, <2>4, <2>5, <2>6 DEF Next
<1> QED BY <1>1, InvCorrect, PTL DEF Spec, StartKeepsAccounts
=============================================================================
