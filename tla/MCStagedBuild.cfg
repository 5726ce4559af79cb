SPECIFICATION Spec
CONSTANTS
  Identities = {idA, idB}
  Shape <- OneShape
  RowCount = 2
  Directories = {d1, d2, d3}
  None = None
INVARIANTS
  CountsAreTrue
  PublishedIsWhole
SYMMETRY Symmetry
