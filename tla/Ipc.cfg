SPECIFICATION Spec
CONSTANTS
  Pid = {p1, p2}
  None = None
  Frames = {f1, f2, f3}
  MaxHandle = 2
  MaxPages = 2
  MaxVa = 2
  MaxQueued = 1
  HasFb = TRUE
INVARIANTS RefsAreMappings MappingsAreDisjoint LentFramesStay
PROPERTY FbIsExclusive
SYMMETRY FrameSymmetry
