CONSTANTS
  Outputs <- MCOutputs
  BootTypes = {"PWMDir", "DualPWM", "HalfCyclePWM"}
SPECIFICATION BridgeSpec
INVARIANTS
  MotorsObey
  PinsMatchBridges
