SPECIFICATION FairSpec
CONSTANTS
  c1 = c1
  c2 = c2
  Conns <- TwoConns
  Slots = 1
  Addresses <- ThreeAddresses
  Public <- TwoAddresses
  NoAddress = 0
  V4 <- V4Addresses
  Names <- TwoNames
  Host = "host"
  Endpoints = 2
  MaxCname = 1
  HeaderUnits <- OneSize
  ClientLimit = 2
  TunnelLimit = 1
  MaxUnits = 1
INVARIANT SlotsAreAccounted
INVARIANT OnlyPublic
PROPERTY NothingCutOff
PROPERTY SlotsComeBack
CHECK_DEADLOCK FALSE
