SPECIFICATION FairSpec
CONSTANTS
  Interval = 1
  Timeout = 3
  Delay = 1
  MaxWire = 1
  MaxWakes = 1
PROPERTY EndNoticed
