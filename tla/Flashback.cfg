SPECIFICATION Spec
CONSTANTS
  v = v
  Target = target
  Tables = {target, other}
  NoImage = NoImage
  Keys = {k1, k2}
  Values = {v, Null, TextNull}
  Null = Null
  TextNull = TextNull
  Absent = Absent
  Initial <- MCInitial
  MaxChanges = 3
  MaxFiles = 2
  BatchSize = 1
  PreviewCap = 2
CHECK_DEADLOCK FALSE
SYMMETRY KeySymmetry
INVARIANT FlashbackTypeOK
INVARIANT EventsAreTheWindow
INVARIANT Undoes
INVARIANT Restored
INVARIANT LaterChangesSurvive
INVARIANT PreviewMirrors
 
