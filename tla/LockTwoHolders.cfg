SPECIFICATION Spec
CONSTANTS
  Process = {p1, p2, p3}
  NoOne = NoOne
  NoFile = NoFile
  Protocols = {"authority"}
  MaxEnds = 2
INVARIANT TakenOverOnce
