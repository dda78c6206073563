SPECIFICATION Spec
CONSTANTS
  u1 = u1
  u2 = u2
  o1 = o1
  o2 = o2
  a1 = a1
  a1x = a1x
  bad = bad
  w1 = w1
  None = None
  Instances = {i1}
  Requests = {q1, q2, q3, q4}
  Policies = {p1, p2, p3}
  Users = {u1, u2}
  Owners = {o1, o2}
  OwnerOf <- MCOwners
  Tenants = {t1, t2}
  Addresses = {a1, a1x, bad}
  Wallets = {w1}
  Normal <- MCNormal
  Databases = {"absent", "legacy"}
  MaxBoots = 2
  MaxFaults = 1
SYMMETRY MCSymmetry
CHECK_DEADLOCK FALSE
INVARIANTS TypeOK OneActivePolicy AnswerTruth
PROPERTIES PoliciesKept
