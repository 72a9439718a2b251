SPECIFICATION FairSpec
CONSTANTS
  MaxMsgs = 3
  TTL = 2
  RenewEvery = 1
  MaxAutoRenew = 2
  MaxLag = 2
  Everyone = Everyone
  MaxLive = 1
  Speakers = {alice}
  Platforms = {"discord"}
  Debounce = 1
  MaxWait = 2
  MaxBatch = 2
  MayHang = {"wipe", "notice", "load", "rounds", "deliver"}
INVARIANTS
  NoStrayLease PromptOnce
PROPERTIES ChatAnswersAgain
