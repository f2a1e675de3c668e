CONSTANTS
  Members = {a, b, z}
  Byz = {z}
  Threshold = 3
  Good = v1
  Versions = {v1, v2}
  Width <- MCWidth
  Other = None
  Bad = Bad
  None = None
SPECIFICATION Spec
INVARIANTS TypeOK PublishedIsUsable PublishedAgree HonestQualifiedIsFolded
SYMMETRY Symmetry
CHECK_DEADLOCK FALSE
