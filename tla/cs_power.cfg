SPECIFICATION Spec
CONSTANTS
  o1 = o1
  o2 = o2
  p1 = p1
  p2 = p2
  Configs <- MCConfigs
  Length <- MCLength
  Sectors <- MCSectors
  SectorCells = 2
  Clears <- MCClears
  Creds = {s1, s2}
  Faults = {"power", "flash"}
  Erased = Erased
  Torn = Torn
  Unreadable = Unreadable
  Nothing = Nothing
INVARIANT StoreTypeOK
INVARIANT ReadsLastStored
INVARIANT MixesOnlyRecent
