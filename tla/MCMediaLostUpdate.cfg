CONSTANTS
  c1 = c1
  c2 = c2
  m1 = m1
  Callers = {c1, c2}
  Modules = {m1}
  NotMedia = NotMedia
  Channels = {0, 1}
  Asked <- MCTwoWriters
  FreshBytes <- MCFreshBytes
SPECIFICATION Spec
PROPERTIES ControlsOwnChannelOnly
