SPECIFICATION Spec
CONSTANTS
  ProcessorCount = 12
  OverlayCount = 16
  Models <- OneModel
INVARIANT LayersChained
CHECK_DEADLOCK FALSE
