CONSTANTS
  RIO_BUFSIZE = 3
  SOCKBUF = 4
  MAXLINE = 4
  CHUNK = 3
  Addresses = 2
  Requests <- MCRequests
SPECIFICATION Spec
INVARIANTS RequestInOrder WholeAtEof NothingLeft
PROPERTIES DiesMidwayOfPeer ReturnsToAccept
