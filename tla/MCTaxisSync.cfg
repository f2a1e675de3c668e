SPECIFICATION SSpec
CONSTANTS
  v1 = v1
  v2 = v2
  v3 = v3
  v4 = v4
  None = None
  Validators = {v1, v2, v3, v4}
  Byzantine = {v4}
  Outages = {{v1}}
  Corruptible = {v1}
  Quiet <- NoQuiet
  MaxFaults = 1
  MaxHeight = 3
SYMMETRY Peers
INVARIANTS STypeOK CheckpointsAreRight  RescuedCanServe
PROPERTIES NoRollback
CHECK_DEADLOCK FALSE
