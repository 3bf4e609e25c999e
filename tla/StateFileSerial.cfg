SPECIFICATION Spec
CONSTANTS
  short = short
  long = long
  Procs = {p1, p2}
  Docs = {short, long}
  NoDoc = NoDoc
  Size <- MCSize
  Inodes = {i1, i2, i3, i4}
  NoInode = NoInode
  NoCall = NoCall
  Overlap = FALSE
INVARIANTS VisibleWhole
PROPERTIES PublishedIsFinal ImplementsStore
