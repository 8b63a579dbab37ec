SPECIFICATION FairSpec
CONSTANTS
  Kits = {k0}
  DefaultKit = k0
  None = None
  FirstDisk <- NoFiles
  SoundsPrecached = FALSE
  OpenMayFail = FALSE
  Bound <- ServingBound
INVARIANT TypeOK
PROPERTIES RequestsEnd OptionsReachDisk EveryPassEnds
