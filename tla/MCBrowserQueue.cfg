CONSTANTS
  view = view
  custom = custom
  click = click
  Events = {view, custom, click}
  ClassOf <- MCClassOf
  Unknown = {click}
  Flushes = {f1, f2}
  MaxQueue = 2
  Drain = 2
  MaxTroubles = 3
  Site = Site
SPECIFICATION FairSpec
CHECK_DEADLOCK FALSE
INVARIANTS
  OnePlace
  CountsAreHonest
PROPERTIES
  Settles
