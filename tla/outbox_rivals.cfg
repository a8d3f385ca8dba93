SPECIFICATION FairSpec
CONSTANTS
  Events = {1, 2}
  Workers = {w1, w2}
  Handlers = {h1}
  Webhook = Webhook
  Match <- MCMatch
  MaxRetries = 2
  BatchSize = 2
  MaxFaults = 1
  None = None
INVARIANTS
  TypeOK
  PublishedWasHandled
  RetryBound
PROPERTIES
  ImplementsDelivery
  EventuallySettled
  PublishedIsFinal
