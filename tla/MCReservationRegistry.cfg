SPECIFICATION Spec
CONSTANTS
  z = z
  a = a
  b = b
  p1 = p1
  p2 = p2
  m1 = m1
  m2 = m2
  Names <- MCNames
  Below <- MCBelow
  Projects = {p1, p2}
  Machines = {m1, m2}
  ProjectOf <- MCProjectOf
  Derived <- MCDerived
  InstallNames <- MCInstallNames
  MaxRows = 3
CONSTRAINT RowBound
INVARIANTS
  TypeOK
  NamesDisjoint
  ServedByOneProject
