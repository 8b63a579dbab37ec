SPECIFICATION Spec
CONSTANTS
  Kits = {k0}
  DefaultKit = k0
  None = None
  FirstDisk <- NoFiles
  SoundsPrecached = TRUE
  OpenMayFail = FALSE
  Bound <- UnloadBound
INVARIANT CleanFilesAgree
PROPERTIES RestoreSavesBothTeams
