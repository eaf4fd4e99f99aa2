CONSTANTS
  a = a
  a1 = a1
  a2 = a2
  Client = {a}
  Socket <- OneTab
  OwnerOf <- Owner
  MaxEvents = 1
  MaxAttempts = 1
SPECIFICATION ChannelSpec
INVARIANT NoHoleIsEverSent
