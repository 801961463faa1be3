\* A round stalls, and nobody started the background check.
SPECIFICATION TmSpec
CONSTANTS
  TmRound = {r1, r2}
  TmMaxStarts = 2
PROPERTY StalledRoundFires
CHECK_DEADLOCK FALSE
