SPECIFICATION Spec
CONSTANT
  N = 6
INVARIANTS TypeOK OkMeansConfigured CopyKept
PROPERTY EepromWhole
