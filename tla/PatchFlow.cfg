CONSTANTS
  arm32 = arm32
  none = none
  Apks = {arm32, none}
  abis <- MCAbis
  name <- MCName
  arm64_v8a = arm64_v8a
  armeabi_v7a = armeabi_v7a
  SupportedAbis = {arm64_v8a, armeabi_v7a}
  NULL = NULL
  Chunks = 2
  MaxPicks = 1
  MaxFetches = 1
  MaxPatches = 1
SPECIFICATION Spec
INVARIANTS TypeOK OfferedIsPatched
PROPERTY CardsAreLeft
