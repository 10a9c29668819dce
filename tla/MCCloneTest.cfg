SPECIFICATION FairSpec
CONSTANTS
  fs1 = fs1 fs2 = fs2 lun1 = lun1 lun2 = lun2
  c1 = c1 c2 = c2 h1 = h1 h2 = h2
  NoObject = NoObject
  Device = {fs1, fs2, lun1, lun2} FS = {fs1, fs2}
  CloneId = {c1, c2} Host = {h1, h2}
  Addresses = 2
INVARIANT TypeOK
INVARIANT TestedIsExposed
INVARIANT StoppedIsGone
PROPERTY StopEndsOrStrands
