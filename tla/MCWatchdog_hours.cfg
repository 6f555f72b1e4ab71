\* The driver's max_timeout allows 65535 minutes; a day and more is asked for.
SPECIFICATION Spec
CONSTANTS
  Requests = {65536, 983040}
  Lapses = {44, 600}
  DEFAULT_TIMEOUT = 1800
INVARIANT NoEarlyReset
