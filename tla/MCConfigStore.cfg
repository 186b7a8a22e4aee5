SPECIFICATION Spec
CONSTANTS
  s1 = s1  s2 = s2  k1 = k1  k2 = k2  m1 = m1  m2 = m2
  Sessions = {s1, s2}
  Keys = {k1, k2}
  Models = {m1, m2}
  Values = {0, 1}
  Default = 0
  NoModel = NoModel
  MaxSaves = 4
SYMMETRY Symmetry
INVARIANTS FilesAreWhole NothingForgotten
PROPERTIES SessionModelIsOwn OthersAreKept
CHECK_DEADLOCK FALSE
