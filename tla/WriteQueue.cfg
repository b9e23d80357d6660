SPECIFICATION FairSpec
CONSTANTS
  p1 = p1
  p2 = p2
  m1 = m1
  m2 = m2
  Peers <- MCPeers
  Messages <- MCMessages
  Strand = strand
  MaxPosts = 5
INVARIANTS TypeOK OneWriteAtATime NeverStranded BrokenMeansSilent
PROPERTIES ImplementsOutbox ImplementsFairOutbox
CHECK_DEADLOCK FALSE
