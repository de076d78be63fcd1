SPECIFICATION OverlaysSpec
CONSTANTS
  Placements <- BoardsOnAPartition
  DoorPlaces = {1}
  ShowsAtLogin = FALSE
  LoadFails = FALSE
  NoiseLimit = 20
INVARIANT CodeIsInTheZone
