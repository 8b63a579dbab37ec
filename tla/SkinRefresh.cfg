SPECIFICATION FairSpec
CONSTANTS
  Entries <- TwoKits
  Models = {m1}
  None = None
  FirstConfs <- First
  MaxChanges = 2
INVARIANTS TypeOK MaterialsAreFresh DetailsAreAskedFor KnifeIsBroughtBack
PROPERTIES PickedGunIsShown PickedKnifeIsShown
