SPECIFICATION Spec
CONSTANTS
  NoObject = NoObject
  NoBlock = NoBlock
  Vars = {v1, v2, v3}
  Tmp = tmp
  Tmp2 = tmp2
  Objects = {plain, self, counted}
  FromThis = {self}
  SharedObjects = {counted}
  Blocks = {1, 2, 3, 4, 5, 6}
  Wrap = 65536
  MaxBorn = 2
SYMMETRY Symmetric
INVARIANTS
  NothingBroken
  OneOwner
  HeapConsistent
  ManagedNeverDangles
PROPERTIES
  LastShareTells
