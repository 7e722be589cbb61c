CONSTANTS
  rifle = rifle
  pistol = pistol
  shotgun = shotgun
  Weapon = {rifle, pistol, shotgun}
  Inventories <- MCInventories
  AmmoType = {rifle, pistol, shotgun}
  ammoType <- OwnAmmo
  maxClip <- MCMaxClip
  Semi = {pistol}
  Silencer = {rifle, pistol}
  Shells = {shotgun}
  Miscounted = {rifle}
  delay <- MCDelay
  reserve <- MCReserve
  Settling = 15
  MaxUnacked = 2
  Commands <- MCCommands
SPECIFICATION Spec
INVARIANTS TypeOK PredictionAgrees ClipsFit EndsReady
PROPERTY NoRoundFromNowhere
