SPECIFICATION AllSpec
CONSTANTS
  Uses = {u1, u2, u3}
  Volumes = {v1, v2}
  Objs = {o1, o2, o3}
  Calls = {c1, c2}
  NumVolumes = 3
  None = None
  Nil = Nil
INVARIANTS MapExact LocksInOrder
PROPERTIES MutexSpec CallsEnd
