SPECIFICATION Spec
CONSTANTS
  t1 = t1
  t2 = t2
  p1 = p1
  p2 = p2
  p3 = p3
  p4 = p4
  f1 = f1
  f2 = f2
  n1 = n1
  n2 = n2
  NoParser = NoParser
  NoFamily = NoFamily
  NoName = NoName
  Absent = Absent
  Threads <- BothThreads
  Parsers <- TwoParsers
  Families <- TwoFamilies
  Names <- BothNames
  Roots <- OneRoot
  Limits <- SmallLimits
  MaxDeclarations = 1
  MaxErrors = 1
SYMMETRY Symmetry
INVARIANTS FamilyKept
PROPERTIES LimitsKept TablesImplemented
CHECK_DEADLOCK FALSE
