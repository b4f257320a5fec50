\* Two widgets, one per sweep; one site rebrands once; two failures are enough.
SPECIFICATION FairSpec
CONSTANTS
  Widgets = {w1, w2}
  BatchSize = 1
  MaxFailures = 2
  MaxRebrands = 1
  MaxFaults = 1
PROPERTY NoStarvation
PROPERTY DownIsDealtWith
CHECK_DEADLOCK FALSE
