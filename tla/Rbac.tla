--------------------------------- MODULE Rbac ---------------------------------
(***************************************************************************)
(* Roles and permissions: the seeds that run at every start (app/seed.py),  *)
(* the check in front of an endpoint (app/core/deps.py) and the requests of *)
(* app/routers/admin.py that change users and roles.                        *)
(*                                                                         *)
(* Requests interleave at their SELECTs and commits, as in Auth.  SQLAlchemy*)
(* writes differences: a commit touches what differs from the values the    *)
(* request has loaded, and an object loaded by the permission check is not  *)
(* loaded again.  A start is two commits, and may be cut off.               *)
(***************************************************************************)
EXTENDS Integers, FiniteSets

CONSTANTS Account, Root,          \* the bootstrap account is Root
          Role, Admin, Viewer,
          BuiltIn, Defaults,      \* ROLE_PERMISSIONS
          Code, Unknown,          \* permission codes, and one that has no row
          ManageUsers, ManageRoles,
          Worker, None,
          Asked,                  \* the lists of codes that requests carry
          MaxStarts, MaxRequests  \* bounds: starts of the server, admin requests taken

ASSUME RbacAssumption ==
  /\ Root \in Account /\ {Admin, Viewer} \subseteq BuiltIn /\ BuiltIn \subseteq Role
  /\ Defaults \in [BuiltIn -> SUBSET Code] /\ {ManageUsers, ManageRoles} \subseteq Code
  /\ Unknown \notin Code /\ None \notin Account \cup Role
  /\ Asked \subseteq SUBSET (Code \cup {Unknown}) /\ {MaxStarts, MaxRequests} \subseteq Nat

VARIABLES phase,    \* "down", "roles" between the two seeds, "up"
          codes,    \* permission rows
          roles,    \* role rows
          grants,   \* role_permissions, per role
          accounts, \* user rows: is_active and role
          audit,    \* kinds of audit row
          req,      \* per thread, the admin request it is serving
          starts, taken,
                    \* so far
          asked,    \* ghosts: per role, the codes it had after the last start or when it was
                    \* created, with those that updates have asked for since,
          wanted    \* and those it had then that every update since has asked for

bounds == <<starts, taken>>
vars == <<phase, codes, roles, grants, accounts, audit, req, bounds, asked, wanted>>

NoRow == [active |-> FALSE, role |-> None]
NoChange == [active |-> None, role |-> None, codes |-> {}]

\* self and seen are what the permission check has loaded of the caller and of the role
\* it has, target is the row to change, change the payload (None is "not given"), and
\* old what has been loaded of the target.
Idle == [pc |-> "idle", op |-> None, by |-> None, self |-> NoRow, seen |-> {},
         target |-> None, change |-> NoChange, old |-> NoChange]

At(w, pc) == req[w].pc = pc
Serve(w, r) == req' = [req EXCEPT ![w] = r]

HasRow(a) == accounts[a].role # None
Needs(op) == IF op = "update_user" THEN ManageUsers ELSE ManageRoles

-----------------------------------------------------------------------------
(* Start and stop                                                          *)

\* f with the built-in roles as in g
Seeded(f, g) == [r \in Role |-> IF r \in BuiltIn THEN g[r] ELSE f[r]]

\* Mutant: nothing more to do if the roles are there
SeedRolesOnce ==
  /\ phase = "down" /\ starts < MaxStarts /\ starts' = starts + 1
  /\ phase' = IF BuiltIn \subseteq roles THEN "up" ELSE "roles"
  /\ codes' = Code
  /\ roles' = roles \cup BuiltIn
  /\ grants' = Seeded(grants, Defaults)
  /\ asked' = Seeded(asked, grants') /\ wanted' = Seeded(wanted, grants')
  /\ UNCHANGED <<accounts, audit, req, taken>>

\* One commit.  The permissions of a role that exists are set again.
SeedRoles ==
  /\ phase = "down" /\ starts < MaxStarts /\ starts' = starts + 1
  /\ phase' = "roles"
  /\ codes' = Code
  /\ roles' = roles \cup BuiltIn
  /\ grants' = Seeded(grants, Defaults)
  /\ asked' = Seeded(asked, grants') /\ wanted' = Seeded(wanted, grants')
  /\ UNCHANGED <<accounts, audit, req, taken>>

\* Mutant: the account is set up again
SeedAdminAlways ==
  /\ phase = "roles"
  /\ phase' = "up"
  /\ accounts' = [accounts EXCEPT ![Root] = [active |-> TRUE, role |-> Admin]]
  /\ UNCHANGED <<codes, roles, grants, audit, req, bounds, asked, wanted>>

SeedAdmin ==
  /\ phase = "roles"
  /\ phase' = "up"
  /\ accounts' = IF HasRow(Root) \/ Admin \notin roles THEN accounts
                 ELSE [accounts EXCEPT ![Root] = [active |-> TRUE, role |-> Admin]]
  /\ UNCHANGED <<codes, roles, grants, audit, req, bounds, asked, wanted>>

\* The process ends, whatever it was doing.
Stop ==
  /\ phase # "down"
  /\ phase' = "down"
  /\ req' = [w \in Worker |-> Idle]
  /\ UNCHANGED <<codes, roles, grants, accounts, audit, bounds, asked, wanted>>

\* register(), of which Auth has the rest
Register(a) ==
  /\ phase = "up"
  /\ ~HasRow(a) /\ Viewer \in roles
  /\ accounts' = [accounts EXCEPT ![a] = [active |-> TRUE, role |-> Viewer]]
  /\ UNCHANGED <<phase, codes, roles, grants, audit, req, bounds, asked, wanted>>

-----------------------------------------------------------------------------
(* A request: the check reads the caller, then the permissions of its role  *)

Authenticate(w, a, op, target, change) ==
  /\ phase = "up" /\ taken < MaxRequests
  /\ At(w, "idle") /\ accounts[a].active
  /\ Serve(w, [Idle EXCEPT !.pc = "permit", !.op = op, !.by = a, !.self = accounts[a],
                           !.target = target, !.change = change])
  /\ taken' = taken + 1
  /\ UNCHANGED <<starts, phase, codes, roles, grants, accounts, audit, asked, wanted>>

Permit(w) ==
  /\ At(w, "permit")
  /\ LET seen == grants[req[w].self.role] IN
     IF Needs(req[w].op) \in seen
     THEN Serve(w, [req[w] EXCEPT !.pc = "load", !.seen = seen])
     ELSE Serve(w, Idle)
  /\ UNCHANGED <<phase, codes, roles, grants, accounts, audit, bounds, asked, wanted>>

LoadUser(w) ==
  /\ At(w, "load") /\ req[w].op = "update_user"
  /\ LET r == req[w]
         row == IF r.target = r.by THEN r.self ELSE accounts[r.target]
     IN Serve(w, [r EXCEPT !.pc = IF r.change.role = None THEN "commit" ELSE "role",
                           !.old = [NoChange EXCEPT !.active = row.active, !.role = row.role]])
  /\ UNCHANGED <<phase, codes, roles, grants, accounts, audit, bounds, asked, wanted>>

\* Mutant: takes the role as given
FindRoleAny(w) ==
  /\ At(w, "role")
  /\ Serve(w, [req[w] EXCEPT !.pc = "commit"])
  /\ UNCHANGED <<phase, codes, roles, grants, accounts, audit, bounds, asked, wanted>>

FindRole(w) ==
  /\ At(w, "role")
  /\ Serve(w, IF req[w].change.role \in roles THEN [req[w] EXCEPT !.pc = "commit"] ELSE Idle)
  /\ UNCHANGED <<phase, codes, roles, grants, accounts, audit, bounds, asked, wanted>>

LoadRole(w) ==
  /\ At(w, "load") /\ req[w].op = "update_role"
  /\ LET r == req[w] IN
     Serve(w, [r EXCEPT !.pc = "commit", !.old = [NoChange EXCEPT !.codes =
                          IF r.target = r.self.role THEN r.seen ELSE grants[r.target]]])
  /\ UNCHANGED <<phase, codes, roles, grants, accounts, audit, bounds, asked, wanted>>

CheckName(w) ==
  /\ At(w, "load") /\ req[w].op = "create_role"
  /\ Serve(w, IF req[w].target \in roles THEN Idle ELSE [req[w] EXCEPT !.pc = "commit"])
  /\ UNCHANGED <<phase, codes, roles, grants, accounts, audit, bounds, asked, wanted>>

Assign(new, old, value) == IF new \in {None, old} THEN value ELSE new

CommitUser(w) ==
  /\ At(w, "commit") /\ req[w].op = "update_user"
  /\ LET r == req[w] IN
     /\ accounts' = [accounts EXCEPT ![r.target] =
                       [active |-> Assign(r.change.active, r.old.active, @.active),
                        role |-> Assign(r.change.role, r.old.role, @.role)]]
     /\ Serve(w, [r EXCEPT !.pc = "audit"])
  /\ UNCHANGED <<phase, codes, roles, grants, audit, bounds, asked, wanted>>

\* The ghosts of a commit that gives role r the codes of new
Asks(r, new) == /\ asked' = [asked EXCEPT ![r] = @ \cup new]
                /\ wanted' = [wanted EXCEPT ![r] = @ \cap new]

\* Mutant: clears the collection and inserts what is new
CommitRoleClears(w) ==
  /\ At(w, "commit") /\ req[w].op = "update_role"
  /\ LET r == req[w]
         new == r.change.codes \cap codes
         add == new \ r.old.codes
     IN IF r.old.codes \subseteq grants[r.target] /\ add \cap grants[r.target] = {}
        THEN /\ grants' = [grants EXCEPT ![r.target] = (@ \ r.old.codes) \cup add]
             /\ Asks(r.target, new)
             /\ Serve(w, [r EXCEPT !.pc = "audit"])
        ELSE Serve(w, Idle) /\ UNCHANGED <<grants, asked, wanted>>
  /\ UNCHANGED <<phase, codes, roles, accounts, audit, bounds>>

\* Deletes the rows that go and inserts the ones that come; it fails if one that goes
\* is gone already or one that comes is there.
CommitRole(w) ==
  /\ At(w, "commit") /\ req[w].op = "update_role"
  /\ LET r == req[w]
         new == r.change.codes \cap codes
         add == new \ r.old.codes
         del == r.old.codes \ new
     IN IF del \subseteq grants[r.target] /\ add \cap grants[r.target] = {}
        THEN /\ grants' = [grants EXCEPT ![r.target] = (@ \ del) \cup add]
             /\ Asks(r.target, new)
             /\ Serve(w, [r EXCEPT !.pc = "audit"])
        ELSE Serve(w, Idle) /\ UNCHANGED <<grants, asked, wanted>>
  /\ UNCHANGED <<phase, codes, roles, accounts, audit, bounds>>

\* The name column is UNIQUE.
InsertRole(w) ==
  /\ At(w, "commit") /\ req[w].op = "create_role"
  /\ LET r == req[w]
         new == r.change.codes \cap codes
     IN IF r.target \in roles
        THEN Serve(w, Idle) /\ UNCHANGED <<roles, grants, asked, wanted>>
        ELSE /\ roles' = roles \cup {r.target}
             /\ grants' = [grants EXCEPT ![r.target] = new]
             /\ asked' = [asked EXCEPT ![r.target] = new]
             /\ wanted' = [wanted EXCEPT ![r.target] = new]
             /\ Serve(w, [r EXCEPT !.pc = "audit"])
  /\ UNCHANGED <<phase, codes, accounts, audit, bounds>>

Audit(w) ==
  /\ At(w, "audit")
  /\ audit' = audit \cup {req[w].op}
  /\ Serve(w, Idle)
  /\ UNCHANGED <<phase, codes, roles, grants, accounts, bounds, asked, wanted>>

-----------------------------------------------------------------------------
Init ==
  /\ phase = "down" /\ starts = 0 /\ taken = 0
  /\ codes = {} /\ roles = {} /\ audit = {}
  /\ grants = [r \in Role |-> {}] /\ asked = grants /\ wanted = grants
  /\ accounts = [a \in Account |-> NoRow]
  /\ req = [w \in Worker |-> Idle]

UserChange == [active : BOOLEAN \cup {None}, role : Role \cup {None}, codes : {{}}]
RoleChange == [active : {None}, role : {None}, codes : Asked]

Arrive(w, a) ==
  \/ \E t \in {b \in Account : HasRow(b)}, c \in UserChange : Authenticate(w, a, "update_user", t, c)
  \/ \E t \in roles, c \in RoleChange : Authenticate(w, a, "update_role", t, c)
  \/ \E t \in Role, c \in RoleChange : Authenticate(w, a, "create_role", t, c)

Continue(w) ==
  \/ Permit(w) \/ LoadUser(w) \/ FindRole(w) \/ LoadRole(w) \/ CheckName(w)
  \/ CommitUser(w) \/ CommitRole(w) \/ InsertRole(w) \/ Audit(w)

Next ==
  \/ SeedRoles \/ SeedAdmin \/ Stop
  \/ \E a \in Account : Register(a)
  \/ \E w \in Worker : Continue(w) \/ \E a \in Account : Arrive(w, a)

Spec == Init /\ [][Next]_vars

-----------------------------------------------------------------------------
(* Properties                                                              *)

Grants == [Role -> SUBSET Code]
Row == [active : BOOLEAN, role : Role \cup {None}]
Change == [active : BOOLEAN \cup {None}, role : Role \cup {None},
           codes : SUBSET (Code \cup {Unknown})]
Op == {"update_user", "update_role", "create_role"}
Request == [pc : {"idle", "permit", "load", "role", "commit", "audit"},
            op : Op \cup {None}, by : Account \cup {None}, self : Row,
            seen : SUBSET Code, target : Account \cup Role \cup {None},
            change : Change, old : Change]

\* Tables and requests are well formed; every account has a role that exists.
TypeOK ==
  /\ phase \in {"down", "roles", "up"} /\ starts \in 0 .. MaxStarts /\ taken \in 0 .. MaxRequests
  /\ codes \subseteq Code /\ roles \subseteq Role /\ audit \subseteq Op
  /\ {grants, asked, wanted} \subseteq Grants
  /\ accounts \in [Account -> Row]
  /\ \A a \in Account : accounts[a].role \in roles \/ accounts[a] = NoRow
  /\ req \in [Worker -> Request]

\* A server that is up has every permission, the built-in roles and the bootstrap
\* account, however often its start was cut off (seed.py:97-99, main.py:58-67).
UpIsSeeded ==
  phase = "up" => codes = Code /\ BuiltIn \subseteq roles /\ HasRow(Root)

\* Between two starts, updates of a role that overlap may mix or fail, but a code that the
\* role had and every update since has asked for is granted, and one that it did not have
\* and none has asked for is not (admin.py:146-151, 158-161).
GrantsFollowRequests ==
  \A r \in Role : wanted[r] \subseteq grants[r] /\ grants[r] \subseteq asked[r]

\* "Safe to run on every startup" (seed.py:5): a start never touches an account that
\* exists, be it disabled or given another role.
StartKeepsAccounts ==
  [][phase # "up" => \A a \in Account : HasRow(a) => accounts'[a] = accounts[a]]_vars

\* "it only inserts what is missing" (seed.py:5): a start takes no permission away that
\* requests have given to a role.
StartOnlyInserts ==
  [][phase # "up" => \A r \in Role : grants[r] \subseteq grants'[r]]_vars
=============================================================================
