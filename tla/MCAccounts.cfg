SPECIFICATION Spec
CONSTANTS
  Users = {u1, u2}
  Listed = {u1}
  Calls = {k1, k2}
  Requests <- MCRequests
  MaxFaults = 1
SYMMETRY MCSymmetry
INVARIANTS TypeOK TokenHasRole PrivilegeFromList
PROPERTY LastRoleOnlyRaced
