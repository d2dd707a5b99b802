CONSTANTS
  Tunnels <- MCTunnels
  Accesses <- MCAccesses
  KeyAccesses <- MCKeyAccesses
  Configs <- MCConfigs
  MaxActive = 1
SPECIFICATION FairSpec
INVARIANTS NothingLeftBehind AdvertisedIsServed
PROPERTIES DrainedFirst ImplementsLifetimes Stops ServeGoroutinesEnd
