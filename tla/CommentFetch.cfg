SPECIFICATION Spec
CONSTANTS
  Comments = {c1, c2, c3}
  None = None
  MaxFetched = 5
  Faults = TRUE
SYMMETRY Interchangeable
INVARIANTS TypeOK ParentsFirst LinksResolved CountCovers
PROPERTIES LinkKept TruncatedHonest RefetchOnlyMissing
