CONSTANTS
  Callers = {c1, c2}
  Readings <- MCReadings
  Thresholds <- MCThresholds
  Configured <- MCConfigured
  Unsupported <- MCUnsupported
  Divider = 2
SPECIFICATION Spec
INVARIANTS TypeOK UnsupportedForever MarkNeverLeaks LowReadingAlerts
SYMMETRY Symmetry
