\* Three events, of which a and c share a key, and two workers that claim both
\* rows that live at a time, or only one of them; the handler of a never
\* succeeds; one fault and one crash.
SPECIFICATION FairSpec
CONSTANTS
  lone = lone
  Events = {a, lone, c}
  Workers = {w1, w2}
  NoEvent = NoEvent
  Key <- MCKey
  Fanout <- MCFanout
  Unregistered = {}
  Poison = {a}
  BatchSizes = {1, 2}
  Lease = 1
  BackoffBase = 1
  BackoffMultiplier = 2
  BackoffCap = 2
  Jitter = 0
  MaxAttempts = 1
  MaxFailures = 1
  MaxCrashes = 1
INVARIANTS
  TypeOK
  CompletedMeansHandled
  HandlersInOrder
  LeaseExclusive
PROPERTIES
  AtLeastOnceSpec
  EventuallyCompleted
