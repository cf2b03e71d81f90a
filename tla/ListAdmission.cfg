SPECIFICATION Spec
CONSTANTS
  Calls = {c1, c2, c3, c4}
  Owners = {instances, hosts, detail, reports}
  Sems = {s1, s2, s3, s4}
  Nil = Nil
  Permits = 3
SYMMETRY Symmetry
INVARIANTS
  OneListPerOwner
  ListsBounded
