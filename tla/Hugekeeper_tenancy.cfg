SPECIFICATION Spec
CONSTANTS
  p1 = p1
  p2 = p2
  admin = admin
  n1 = n1
  n2 = n2
  n3 = n3
  tenant = tenant
  root = root
  MaxSlots = 2
  MaxCapacity = 2
  InitialSlots = 2
  InitialAllowed <- MCAllowed
  MaxUids = 1
  LeaseModulus = 3
  AdminClients = 1
  AdminLimit = 1
  DataLimit = 2
  AcceptBatch = 1
  Inodes <- TwoInodes
  Peers <- TenantsAndAdmin
  UidOf <- MCUidOf
  DaemonUid = root
  AdminPeers <- Operator
  NoInode = NoInode
  NoPeer = NoPeer
SYMMETRY TenantSymmetry
INVARIANTS TypeOK CapabilityIsLeased LeaseNumbersAreUnique PoolAccounting StoppedMeansRevoked
PROPERTIES RevokeBeforeRefill NoGrantAfterFatalRevoke FilesAreWipedBetweenTenants
CHECK_DEADLOCK FALSE
