\* A radio program and an event in one room, and a TV program that keeps its chat.
SPECIFICATION FairSpec
CONSTANTS
  drive = drive
  news = news
  rally = rally
  tv1 = tv1
  hall = hall
  desk = desk
  RadioPrograms = {drive}
  TvPrograms = {news}
  Events = {rally}
  RoomOf <- MCRoomOf
  StationOf <- MCStationOf
  Platform <- MCPlatform
  KeepShows = {news}
  MaxDay = 1
  MaxChanges = 1
  MaxFaults = 1
INVARIANTS
  TypeOK
  OldChatsNeedFailedDelete
PROPERTIES
  KeptChatsKept
  StampedDayKept
  RoomsFollowAir
CHECK_DEADLOCK FALSE
