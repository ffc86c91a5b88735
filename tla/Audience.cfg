SPECIFICATION Spec
CONSTANTS
  Readers = {"r", "q"}
  Editors = {"e"}
  Placements = {"banner"}
  Ttl = 2
  MaxFetch = 1
  Slack = 1
  Streams = {"stream"}
  Ips = {"ip"}
  Window = 1
  MinuteTicks = 2
  Expiry = 2
  Widest = 5
  HistoryCap = 2
  MaxTime = 4
  MaxRestarts = 1
  MaxDoubts = 1
  Addresses = {"x", "y"}
  Lookups = {"g", "h", "b"}
  Backfill = "b"
  MaxGeoFaults = 2
  Texts = {"t", "v"}
  Sender <- MCSender
  MaxSends = 2
  Rooms = {"room", "next"}
  RoomAdmins = {"admin"}
  MaxMoves = 1
  MaxInboundFaults = 2
  Calls = {"c", "d"}
  Users = {"ann", "bob", "cat"}
  Flagged = {"bob"}
  Roled = {"cat"}
  Posts <- MCPosts
  MaxChatFaults = 1
  Uids = {"u", "w"}
  EmailOf <- MCEmailOf
  UserRequests = {"k", "l"}
  MaxOps = 3
  MaxUserFaults = 2
INVARIANTS
  AudienceTypeOK
  CacheHonest
  ViewersTrue
  ChatsTrue
  UsersAgree
CHECK_DEADLOCK FALSE
