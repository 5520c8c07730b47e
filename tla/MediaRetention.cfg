SPECIFICATION Spec
CONSTANTS
  Row = {clip, photo}
  Video = {clip}
  Object = {o1, o2, o3}
  Sweeper = {s1}
  MinAge = 3
  RetainAge = 1
  Gap = 1
  Scan = 1
  MaxTime = 4
  Client = Client
  NoObject = NoObject
SYMMETRY Keys
INVARIANTS PlayableKept RetentionKept
PROPERTY SweepSpares
