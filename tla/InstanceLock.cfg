SPECIFICATION Spec
CONSTANTS
  Process = {p1, p2, p3}
  NoOne = NoOne
  NoFile = NoFile
  Protocols = {"authority", "connector", "desktop"}
  MaxEnds = 1
INVARIANTS StartsExclude FileHasOwner
PROPERTIES AloneSucceeds AcquireEnds
