SPECIFICATION FairSpec
CONSTANTS
  Requests = {r1, r2}
  Others = {o1}
  Users = {u1}
  Channels <- TwoChannels
  Consents <- OneChannel
  Configured = {"SMS"}
  CLAIM_BATCH = 1
  MAX_ATTEMPTS = 2
  NoDrain = NoDrain
INVARIANTS NoPhantomMessage SentWithinAttempts OnlyDeathOrphans
PROPERTIES SettledForGood EventuallySettled
