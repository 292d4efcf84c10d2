SPECIFICATION Spec
CONSTANTS
  Viewers = {"v1", "v2"}
  MaxFrames = 3
  MaxMoves = 4
  MeshBound <- MeshBounds
  Callers = {"a", "b"}
  CallBound <- CallBounds
  Meshes = {"m", "n"}
  Providers = {"cloudflare", "secret", "static", "none"}
  Ttl = 4
  IceEnd = 8
  IceBounds <- IceRuns
  Fleet = {"i", "j"}
  Publishers = {"a", "b"}
  Within <- Reach
  Permanent = {"b"}
  Scopes <- TwoRooms
  NoRoom = "lobby"
  Adapters = {"memory", "redis", "postgres", "polled"}
  MaxEntries = 2
  PresenceBound <- PresenceRuns
  HostClients = {"a", "b"}
  MaxRoomEntries = 1
  PollFailures = 2
  HostBounds <- HostRuns
  Devices = {"a", "b"}
  Accounts = {"u", "v"}
  Tokens <- TokensOf
  Wires = {"ws", "sse", "polling"}
  Cap = 1
  MaxDepth = 2
  ConnBound <- ConnRuns
  Tables = {"A", "B"}
  Carriers = {"ws", "sse", "polling", "serverless"}
  BufferSize = 2
  DelivBound <- DelivRuns
INVARIANTS
  LinkInv
  CallInv
  
  
  ConnInv
  DelivInv
 
CHECK_DEADLOCK FALSE
