SPECIFICATION Spec
CONSTANTS
  Kits = {k0, k1}
  DefaultKit = k0
  None = None
  FirstDisk <- CrashedFiles
  SoundsPrecached = FALSE
  OpenMayFail = TRUE
  Bound <- SavingBound
INVARIANT CleanFilesAgree
PROPERTIES RequestIsServed HistoryIsKept PassRepairsSkinFiles StoreIsAtomic
