SPECIFICATION Spec
CONSTANTS
  Key = {1, 2, 3}
  Value <- MCValue
  kKeyMax = 4
  kValueNull = 0
  kLeafCardinality = 3
  VersionMod = 4
  PageMod = 256
  LineOf <- ThreeLines
  MaxWrites = 4
INVARIANTS
  OthersDoNotDisturb
  FoundValueIsCurrent
  LockedReadConsistent
