SPECIFICATION Spec
CONSTANTS
  Slots = {i1, i2}
  Guns = {gun}
  Kits = {k1}
  Default = k0
  None = None
  FirstConfig <- OneTeam
  FirstOptions = {"random", "super"}
  Bound <- AimBound
PROPERTIES RandomIsForTheWeaponInHand

SYMMETRY Indexes
