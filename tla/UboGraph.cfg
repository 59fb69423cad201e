\* Two companies, a trust and two persons; every graph of at most MaxEdges edges.
CONSTANTS
  Persons = {p1, p2}
  Companies = {c1, c2}
  Trusts = {t1}
  Shares = {4, 6}
  MaxDepth = 5
  MaxEdges = 3
SPECIFICATION Spec
INVARIANTS
  
  SharesConserved
  TrusteesControlTrusts
SYMMETRY Alike
CHECK_DEADLOCK FALSE
