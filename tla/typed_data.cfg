SPECIFICATION Spec
CONSTANTS
  MapKeys <- MCKeys
  Values <- MCValues
  Items <- MCItems
  MapItems <- MCMapItems
  Payload <- MCPayload
  Topics <- MCTopics
  Asked <- MCAsked
  Env <- MCEnv
  Channels = {1, 2}
  Peer <- MCPeer
  Depth = 1
  EncodeExtra <- MCEncodeExtra
  DecodeExtra <- MCDecodeExtra
  EncodeParam <- MCEncodeParam
  DecodeParam <- MCDecodeParam
  Arrived <- MCArrived
  Entries <- MCEntries
  MaxPuts = 2
  MaxOps = 3
INVARIANTS
  MapIsModel
  ExtraArrives
  ParamsArrive
  ItemArrives
  ItemIsAddressed
