\* Up to three events posted and not handled: one in the handler, two behind it.
SPECIFICATION FairSpec
CONSTANTS
  MAX_EVENTS = 3
INVARIANTS
  BitsMatch
  ConnectedHasSession
PROPERTIES
  Reconnects
