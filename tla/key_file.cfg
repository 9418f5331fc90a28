SPECIFICATION KeySpec
CONSTANTS
  p1 = p1  p2 = p2  p3 = p3
  NULL = NULL  FileName = FileName  Absent = Absent  Incomplete = Incomplete
  Keys = {p1, p2, p3}
  PublicSettings = {FileName}
  PrivateSettings = {FileName}
INVARIANTS ConfiguredKeyPublished
