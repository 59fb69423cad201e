\* A listed name and another, two screenings: no review is needed.
CONSTANTS
  ListedNames = {"acme"}
  OtherNames = {"nobody"}
  MaxMatches = 2
  MaxSanctionCalls = 2
SPECIFICATION SanctionsSpec
INVARIANTS
  HitsAreShown
CHECK_DEADLOCK FALSE
