SPECIFICATION Spec
CONSTANTS
  p1 = p1
  p2 = p2
  m1 = m1
  m2 = m2
  Peers <- MCPeers
  Messages <- MCMessages
  Strand = strand
  MaxPosts = 5
PROPERTIES WritesStartOnStrand
CHECK_DEADLOCK FALSE
