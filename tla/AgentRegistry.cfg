SPECIFICATION Spec
CONSTANTS
  None = None
  Emails = {e1, e2}
  Users = {u1, u2}
  Requests = {p1, p2}
  OrgIds = {o1, o2}
  Codes = {c1}
  Agents = {a1}
  Recs = {r1, r2}
  Conns = {n1, n2}
CHECK_DEADLOCK FALSE
SYMMETRY RegistrySymmetry
INVARIANTS
  TypeOK
  JoinedByInvitation
  ApprovedByAdmin
 
