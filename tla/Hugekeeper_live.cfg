SPECIFICATION FairSpec
CONSTANTS
  p1 = p1
  p2 = p2
  admin = admin
  n1 = n1
  n2 = n2
  n3 = n3
  tenant = tenant
  root = root
  MaxSlots = 1
  MaxCapacity = 1
  InitialSlots = 1
  InitialAllowed <- MCAllowed
  MaxUids = 1
  LeaseModulus = 3
  AdminClients = 1
  AdminLimit = 1
  DataLimit = 1
  AcceptBatch = 1
  Inodes <- TwoInodes
  Peers <- Tenants
  UidOf <- MCUidOf
  DaemonUid = root
  AdminPeers <- NoPeers
  NoInode = NoInode
  NoPeer = NoPeer
PROPERTIES DeadConnectionsAreReaped BacklogIsServed
CHECK_DEADLOCK FALSE
