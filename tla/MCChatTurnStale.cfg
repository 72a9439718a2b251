SPECIFICATION Spec
CONSTANTS
  MaxMsgs = 3
  TTL = 2
  RenewEvery = 1
  MaxAutoRenew = 2
  MaxLag = 0
  Everyone = Everyone
  MaxLive = 2
  Speakers = {alice, bob}
  Platforms = {"discord"}
  Debounce = 1
  MaxWait = 2
  MaxBatch = 2
  MayHang = {"deliver"}
INVARIANT OwnSpeakerOnly
