\* Two sources that disagree, refreshes of the primary page, and the operator's
\* country against evidence that comes and goes.
SPECIFICATION Spec
CONSTANTS
  None = None
  Blank = Blank
  Fields <- MCFields
  UrlField = "source_url"
  CountryField = "country_code"
  CategoryField = "field_category"
  CoreFields <- MCCore
  ApprovalCoreFields <- MCApprovalCore
  Sources = {"s1", "s2"}
  Primary = "s1"
  Values <- TwoValues
  RawValues = {"utopia"}
  JobCountry = "DE"
  Pages <- TwoPages
  PagesOf <- TwoPagesOf
  Content <- TwoContent
  Notes = {"ignored_jsonld"}
  PageNotes <- TwoNotes
  OverrideChoices <- TwoOverrides
  MaxExtractions = 3
  MaxReviews = 1
  MaxResolutions = 2
  MaxExports = 1
INVARIANTS
  TypeOK
  ConflictsCurrent
  NormalizedFollowsEvidence
  NoApprovalOverOpenConflict
  OverridesAudited
  OverridesWereAccepted
  OnePrimarySource
  ContextCurrent
  ResolvedFromOfficialValues
PROPERTIES
  NoAutomaticResolution
  ImplementsReviewGate
  UnchangedRerunKeepsResolutions
  ExportedCountryUncontradicted
