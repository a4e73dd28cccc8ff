CONSTANTS
  Socket = {s1, s2, s3}
  NULL = NULL
  EPHEMERAL_PORT_FIRST = 1
  EPHEMERAL_PORT_COUNT = 2
  MaxPort = 3
SPECIFICATION UdpSpec
INVARIANTS
  SearchStartSound
  AllocatedExact
  PortsAgree
PROPERTY RegistrySpec
SYMMETRY Symmetry
