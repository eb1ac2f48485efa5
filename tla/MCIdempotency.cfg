SPECIFICATION FairSpec
CONSTANTS
  r1 = r1
  r2 = r2
  r3 = r3
  r4 = r4
  k1 = k1
  Requests <- MCRequests
  Keys = {k1}
  NoKey = NoKey
  None = None
  KeyOf <- MCKeyOf
  MayCrash <- MCMortal
CHECK_DEADLOCK FALSE
INVARIANTS OneAnswer OneLiveWrite ClaimIsMine
PROPERTIES ClaimEnds
