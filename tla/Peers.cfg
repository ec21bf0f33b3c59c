SPECIFICATION PeersSpec
CONSTANTS
  NodeID = {1, 2, 3}
  Key = {1, 2}
  HashSpace = 13
  VnodeHash <- MCVnodeHash
  KeyHash <- MCKeyHash
  defaultVnodes = 3
  ReplicationFactor = 2
  Self = 1
  a1 = a1
  a2 = a2
  a3 = a3
  a4 = a4
  PeerAddress = {a1, a2, a3, a4}
  AddressesOf <- MCAddressesOf
  NoAddr = NoAddr
  NotMember = NotMember
  Low = 1
  Mid = 2
  JoinRetries = 2
  MaxEvents = 3
  Caller = {c1, c2}
  Nobody = Nobody
  Client = {x1, x2}
  NoClient = NoClient
  MaxCalls = 2
INVARIANTS TypeOK OwnersAgree  OneConnection NoStrayClients
 
SYMMETRY CallerSymmetry
CHECK_DEADLOCK FALSE
