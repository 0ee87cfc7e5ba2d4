CONSTANTS
  Callers = {c1}
  Modules = {m1}
  NotMedia = NotMedia
  Channels = {0, 1, 4}
  Requested <- MCRequested
  Leftovers <- MCLeftovers
  Conditions <- MCConditions
  Fresh = {{}}
SPECIFICATION StatusSpec
INVARIANTS StatusTypeOK AddedFlagsHeld LastingConditionsReported
