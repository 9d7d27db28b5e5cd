CONSTANTS
  Radio = FALSE
  MaxClients = 2
  MaxConnections = 2
  MaxBroadcasts = 2
SPECIFICATION ClientsSpec
INVARIANT ListenersHearUpdates
CHECK_DEADLOCK FALSE
