SPECIFICATION Spec
CONSTANTS
  t1 = t1
  t2 = t2
  m1 = m1
  m2 = m2
  cat1 = cat1
  cat2 = cat2
  author1 = author1
  author2 = author2
  \* IndexSync
  BookIds = {k1}
  Texts = {t1, t2}
  Metas = {m1, m2}
  Edits <- EditSet
  SyncWorkers = {s1, s2}
  Reindexers = {x1, x2}
  MaxTries = 1
  MaxJobs = 2
  MaxChanges = 2
  MaxSlips = 1
  Gone = Gone
  \* Listing
  MaxId = 5
  FirstIds = 4
  Hash <- HashOf
  Relevance <- RelevanceOf
  PageSize = 2
  WindowDays = 2
  Activity <- LaterDays
  FirstScores <- FirstDay
  MaxDay = 3
  MaxStirs = 2
  MaxShown = 6
  Start = Start
  NoPage = NoPage
  \* Feed
  Books = {1, 2, 3, 4, 5}
  Category <- CategoryOf
  Author <- AuthorOf
  RandomKey <- KeyOfBook
  Popularity <- ScoreOf
  Sales <- SalesOf
  Affinity <- AffinityOf
  Profiles <- ProfileSet
  TasteRanking <- Tastes
  Slots <- SlotCounts
  Patterns <- Shuffles
  CategoryCap = 1
  AuthorCap = 1
  CandidateMult = 2
  WideMult = 3
  EchelonSize = 1
  PagesPerEchelon = 1
  OffsetLimit = 2
  ColdBySales = 3
  ColdByNewest = 2
  MaxExcluded = 5
  FailureSets <- AnyOne
  Requests = {r1, r2}
  MaxUpsets = 1
  End = End
  None = None
  \* Reviews
  Readers = {"u1", "u2"}
  Posts = {p1, p2}
  Grades = {2, 4}
  MaxReviews = 2
  \* Shelf
  Titles = {"b"}
  Tabs = {"tab1", "tab2"}
  Clicks = {"k1", "k2"}
  MaxQuantity = 3
  MaxDeeds = 3
CHECK_DEADLOCK FALSE
INVARIANTS
  ListedOnce
  FeedTypeOK
  CursorsKeepTheUnshown
  NoRepeatInSession
  CapsYieldOnlyWhenForced
  ReviewsAddUp
  CartAddsUp
  MarksFollowTheShelf
PROPERTIES
  IndexesConverge
  EndsOnlyWhenAllShown
