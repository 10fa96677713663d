CONSTANTS
  Value = {0, 1, 2, 4, 8}
  Inline = 4
  Lock = {a, b, c}
  NoLock = NoLock
  Nodes = 3
  Buckets = 2
SPECIFICATION Spec
INVARIANTS TableIsSet ProbesEnd MapFindsNodes
