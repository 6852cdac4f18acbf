SPECIFICATION Spec
CONSTANTS
  Names = {"root", "luc", "ana"}
  MaxUid = 4
  PerSector = 3
  Sectors = 2
  VolumeLba = 4096
  MaxCommands = 3
INVARIANTS TypeOK SavedStateReturns AccountsAreUnique
PROPERTIES OthersUntouched
