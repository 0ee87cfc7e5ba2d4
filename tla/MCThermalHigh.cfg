CONSTANTS
  Callers = {c1, c2}
  Readings <- MCReadings
  Thresholds = {}
  Configured <- MCConfigured
  Unsupported <- MCUnsupported
  Divider = 2
SPECIFICATION Spec
INVARIANTS HighReadingAlerts
