\* Every configuration with at most two attempts, up to three events posted and
\* not handled.  A program whose first request for the link is refused stops:
\* nothing repeats it.
SPECIFICATION FairSpec
CONSTANTS
  MAX_EVENTS = 3
  MAX_ATTEMPTS = 2
INVARIANTS
  BitsMatchLink
PROPERTIES
  StatusSettles
CHECK_DEADLOCK FALSE
