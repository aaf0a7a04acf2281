SPECIFICATION FairSpec
CONSTANTS
  c1 = c1
  c2 = c2
  Conns <- OneConn
  Slots = 1
  Addresses <- TwoAddresses
  Public <- TwoAddresses
  NoAddress = 0
  V4 <- TwoAddresses
  Names <- OneName
  Host = "host"
  Endpoints = 1
  MaxCname = 0
  HeaderUnits <- TwoSizes
  ClientLimit = 3
  TunnelLimit = 3
  MaxUnits = 2
PROPERTY SentIsRelayed
CHECK_DEADLOCK FALSE
