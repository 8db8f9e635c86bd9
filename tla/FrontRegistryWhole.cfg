SPECIFICATION Spec
CONSTANTS
  a1 = a1  a2 = a2  p1 = p1  p2 = p2  n1 = n1
  Requests = {r1, r2}
  Readers = {d1}
  Addrs = {a1, a2}
  Peers = {p1, p2}
  Names = {n1}
  NameOf <- OneName
  PeersOf <- GrownPeers
  LastIds = {0, 1}
  Faults = {"front"}
  NoList = NoList
  NoAddr = NoAddr
SYMMETRY Symmetric
INVARIANTS
  NewFrontWhole
