CONSTANTS
  a = a
  b = b
  c = c
  d = d
  Ids <- MCIds
  Lists <- MCLists
SYMMETRY MCSymmetry
SPECIFICATION Spec
INVARIANTS TypeOK VerdictIsRight CascadeIsBranch
