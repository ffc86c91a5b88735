\* A delete of the daily clear fails.
SPECIFICATION Spec
CONSTANTS
  drive = drive
  news = news
  rally = rally
  tv1 = tv1
  hall = hall
  desk = desk
  RadioPrograms = {drive}
  TvPrograms = {news}
  Events = {rally}
  RoomOf <- MCRoomOf
  StationOf <- MCStationOf
  Platform <- MCPlatform
  KeepShows = {news}
  MaxDay = 1
  MaxChanges = 1
  MaxFaults = 1
INVARIANTS
  FreshDay
CHECK_DEADLOCK FALSE
