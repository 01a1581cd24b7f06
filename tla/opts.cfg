\* Any two of nine options, loaded from short command lines and saved.
SPECIFICATION OptSpec
CONSTANTS
  OptDefs <- AllOpts
  Argvs <- AllArgvs
  Sizes <- AllSizes
  Changes <- AllChanges
  UnitBits = 2
  Unit = 10
  Shown = 10
  MaxOpts = 2
INVARIANT LoadsPrefix
INVARIANT SavesBack
