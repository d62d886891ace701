CONSTANTS
  Keys = {k1, k2}
  Blobs = {b1, empty}
  Absent = Absent
  EmptyFile = empty
  None = None
  Labels = {l1}
  NoLabel = NoLabel
  MaxCheckpoints = 4
  MaxFiles = 1
  Fits <- MCFits
  OverlayKeys = {o1}
  MaxCalls = 4
SPECIFICATION Spec
INVARIANTS TypeOK IdsAreIndices WithinLimits Chronology RecordedOnce
PROPERTIES TrailKept EditsKeepCurrent RollbackHitsLabel ImplementsTimeline AnswersAgree IdsStayPut
SYMMETRY KeySymmetry
