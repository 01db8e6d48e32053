\* Discovery and batch collection on one job, at the same time or in turn.
SPECIFICATION Spec
CONSTANTS
  None = None
  Urls <- MCUrls
  Answers <- MCAnswers
  FinalOf <- MCFinalOf
  Domains <- MCDomains
  SeedFiles <- MCSeedFiles
  Within <- MCWithin
  Traps <- MCTraps
  TrapWorded <- MCTrapWorded
  PathScore <- MCPathScore
  Bare <- MCBare
  FrontPage <- MCFrontPage
  Conventional <- MCConventional
  Declared <- MCDeclared
  Sitemap <- MCSitemap
  Html <- MCHtml
  Links <- MCLinks
  Target = 3
  MaxSitemaps = 3
  MaxSitemapDepth = 1
  MaxPages = 7
  MaxDepth = 2
  MaxLinks = 3
  MaxDiscoveries = 1
  BatchFiles <- MCBatchFiles
  Programmes <- MCProgrammes
  MaxBatches = 2
INVARIANTS
  CollectionTypeOK
  EmittedAreNew
  NothingOverlooked
  FetchesBounded
  CollectedOnce
  PagesAreExtracted
PROPERTY CommandsEnd
CHECK_DEADLOCK FALSE
