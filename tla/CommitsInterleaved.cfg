\* Reviewers work while an extraction runs.
SPECIFICATION CommitsSpec
CONSTANTS
  None = None
  Blank = Blank
  Fields <- MCFields
  UrlField = "source_url"
  CountryField = "country_code"
  CategoryField = "field_category"
  CoreFields <- MCCore
  ApprovalCoreFields <- MCApprovalCore
  Sources = {"s1", "s2"}
  Primary = "s1"
  Values <- OneFieldValues
  RawValues = {}
  JobCountry = "DE"
  Pages <- CommitPages
  PagesOf <- CommitPagesOf
  Content <- OneFieldContent
  Notes = {}
  PageNotes <- CommitNotes
  OverrideChoices <- CommitOverrides
  MaxExtractions = 3
  MaxReviews = 0
  MaxResolutions = 1
  MaxExports = 0
  OthersRun = TRUE
  MayCrash = TRUE
INVARIANTS
  CommitsTypeOK
  ConflictsReferToEvidence
  EvidenceFromAttachedSources
  RerunRepairs
PROPERTY ResolutionsLapseWithEvidence
