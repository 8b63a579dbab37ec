SPECIFICATION FairSpec
CONSTANTS
  Slots = {i1}
  Guns = {gun}
  Kits = {k1, k2}
  Default = k0
  None = None
  FirstConfig <- OneTeam
  FirstOptions = {}
  Bound <- DressBound
PROPERTIES OwnGunsGetTheirSkin
