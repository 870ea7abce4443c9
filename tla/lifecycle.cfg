SPECIFICATION FairSpec
CONSTANTS
  a = a
  b = b
  Clients = {a, b}
  Configs <- AllConfigs
INVARIANTS
  TypeOK
  PoolOutlivesRequests
  CleanExitCutsNobody
  TracesAreFlushed
PROPERTIES
  ShutdownCompletes
  ComesBack
  StopsGracefully
