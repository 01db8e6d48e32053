\* An extraction saves over a review made while it ran.
SPECIFICATION CommitsSpec
CONSTANTS
  None = None
  Blank = Blank
  Fields <- MCFields
  UrlField = "source_url"
  CountryField = "country_code"
  CategoryField = "field_category"
  CoreFields <- MCCore
  ApprovalCoreFields <- MCApprovalCore
  Sources = {"s1", "s2"}
  Primary = "s1"
  Values <- CommitValues
  RawValues = {}
  JobCountry = "DE"
  Pages <- CommitPages
  PagesOf <- CommitPagesOf
  Content <- CommitContent
  Notes = {}
  PageNotes <- CommitNotes
  OverrideChoices <- CommitOverrides
  MaxExtractions = 2
  MaxReviews = 2
  MaxResolutions = 1
  MaxExports = 1
  OthersRun = TRUE
  MayCrash = FALSE
PROPERTY OnlyReviewApproves
