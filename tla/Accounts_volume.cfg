SPECIFICATION Spec
CONSTANTS
  Names = {"root", "luc", "ana"}
  MaxUid = 4
  PerSector = 3
  Sectors = 2
  VolumeLba = 2048
  MaxCommands = 1
INVARIANT VolumeIsKept
