SPECIFICATION Spec
CONSTANTS
  None = None
  Account = {root, a1}
  Root = root
  Role = {admin, viewer, custom}
  Admin = admin
  Viewer = viewer
  BuiltIn = {admin, viewer}
  Defaults <- MCDefaults
  Code = {manage_users, manage_roles}
  Unknown = unknown
  ManageUsers = manage_users
  ManageRoles = manage_roles
  Worker = {w1, w2}
  Asked <- MCAsked
  MaxStarts = 2
  MaxRequests = 3
SYMMETRY Symmetry
PROPERTIES StartOnlyInserts
CHECK_DEADLOCK FALSE
