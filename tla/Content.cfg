SPECIFICATION Spec
CONSTANTS
  Shows = {sh1, sh2}
  Slug <- MCSlug
  Mirrored <- MCMirrored
  Admins = {"a", "b"}
  MaxNumber = 2
  MaxEdits = 3
  MaxLost = 1
  Window = 2
  Creators = {"x", "y"}
  MaxBunnyFaults = 2
  RadioRequests = {"request"}
  Reports = {"country", "browser"}
  MaxSongs = 3
  MaxRadioFaults = 1
  RadioPrograms = {"p", "q"}
  TvPrograms = {"t", "u"}
  ContentId <- MCContentId
  EpgRequests = {"request"}
  MaxLineupEdits = 1
  MaxEpgFaults = 1
  Days = {1, 2, 3}
  MaxViews = 2
  Indices <- MCIndices
  Joomla = "joomla"
  Bases <- MCBases
  Docs = {1, 2}
  PageSize = 1
  MaxDocEdits = 2
  MaxIndexFaults = 1
  DaySlots = 4
  HourSlots = 2
  Week = 2
  ShareLimit = 3
  ShowLimit = 1
  SongLimit = 1
  TopLimit = 2
  MaxCount = 4
  MaxTotal = 6
  MaxRows = 2
  MaxFilter = 5
INVARIANTS
  ContentTypeOK
  CatalogTrue
  AlgorithmsRight
  SyncHonest
PROPERTIES
  MirrorsCatchUp
CHECK_DEADLOCK FALSE
