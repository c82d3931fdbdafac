\* Two contexts, any of whose steps may fail.
SPECIFICATION TlsSpec
CONSTANTS
  Contexts = {c1, c2}
INVARIANTS
  FreesWhatItMade
PROPERTIES
  LostEarlyOnly
