CONSTANTS
  Hid = {"mouse"}
  Cdc = {"cdc"}
  Midi = {"midi", "midi2"}
  Protocol <- BootProtocols
  ItfMax = 2
  EpMax = 3
  MaxItfs = 2
SPECIFICATION ConfigSpec
INVARIANTS
  OpensOnceReady
  AddressesOwned
  ControlReachesOwner
