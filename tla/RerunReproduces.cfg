\* What a rerun of discovery reports, of a site that stays the same.
SPECIFICATION Spec
CONSTANTS
  None = None
  Urls <- MCUrls
  Answers <- SteadyAnswers
  FinalOf <- MCFinalOf
  Domains <- MCDomains
  SeedFiles <- MCSeedFiles
  Within <- MCWithin
  Traps <- MCTraps
  TrapWorded <- MCTrapWorded
  PathScore <- MCPathScore
  Bare <- MCBare
  FrontPage <- MCFrontPage
  Conventional <- MCConventional
  Declared <- MCDeclared
  Sitemap <- MCSitemap
  Html <- MCHtml
  Links <- MCLinks
  Target = 4
  MaxSitemaps = 3
  MaxSitemapDepth = 1
  MaxPages = 7
  MaxDepth = 2
  MaxLinks = 3
  MaxDiscoveries = 2
  BatchFiles <- MCBatchFiles
  Programmes <- MCProgrammes
  MaxBatches = 0
PROPERTY RerunReproduces
CHECK_DEADLOCK FALSE
