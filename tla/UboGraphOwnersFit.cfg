\* One company, a trust and a person suffice.
CONSTANTS
  Persons = {p1, p2}
  Companies = {c1, c2}
  Trusts = {t1}
  Shares = {4, 6}
  MaxDepth = 5
  MaxEdges = 3
SPECIFICATION Spec
INVARIANT
  OwnersFitTheirModel
SYMMETRY Alike
CHECK_DEADLOCK FALSE
