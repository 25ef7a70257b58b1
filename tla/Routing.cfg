SPECIFICATION ProcessSpec
CONSTANTS
  Submitters <- MCSubmitters
  Mounts <- MCMounts
  Dirs <- MCDirs
  Ladder <- Rungs
  Page = 2
  Settings <- MCSettings
  Hosts <- MCHosts
  Wrappers <- MCWrappers
  Listings <- MCListings
  HostOf <- MCHostOf
  Credential <- MCCredential
  EndpointIn <- MCEndpointIn
  Blank <- MCBlank
  Environs <- MCEnvirons
  MaxClients = 2
  MaxRequests = 2
  Chunks = 2
  Own = "own"
INVARIANTS PluginLocked SettersHonest EnginesFit DeadEngineAvoided ClientsAccounted AnsweredOnce StoppedIsWoken
