SPECIFICATION Spec
CONSTANTS
  MaxMsgs = 4
  TTL = 3
  RenewEvery = 1
  MaxAutoRenew = 5
  MaxLag = 1
  Everyone = Everyone
  MaxLive = 2
  Speakers = {alice, bob}
  Platforms = {"discord", "dm", "wa"}
  Debounce = 1
  MaxWait = 2
  MaxBatch = 3
  MayHang = {}
INVARIANTS
  TypeOK LeaseInForce OwnSpeakerOnly WipedIsForgotten OneBusyNotice
PROPERTIES ChatIsOneSlot
SYMMETRY SpeakerSymmetry
