SPECIFICATION FairSpec
CONSTANTS
  Kits = {k0, k1}
  DefaultKit = k0
  None = None
  FirstDisk <- OldFiles
  SoundsPrecached = FALSE
  OpenMayFail = FALSE
  Bound <- AutosaveBound
PROPERTIES EveryChangeIsSaved
