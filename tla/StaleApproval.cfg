\* An approval outlives the values it was given for.
SPECIFICATION Spec
CONSTANTS
  None = None
  Blank = Blank
  Fields <- MCFields
  UrlField = "source_url"
  CountryField = "country_code"
  CategoryField = "field_category"
  CoreFields <- MCCore
  ApprovalCoreFields <- MCApprovalCore
  Sources = {"s1", "s2"}
  Primary = "s1"
  Values <- TwoValues
  RawValues = {"utopia"}
  JobCountry = "DE"
  Pages <- TwoPages
  PagesOf <- TwoPagesOf
  Content <- TwoContent
  Notes = {"ignored_jsonld"}
  PageNotes <- TwoNotes
  OverrideChoices <- TwoOverrides
  MaxExtractions = 3
  MaxReviews = 2
  MaxResolutions = 1
  MaxExports = 1
INVARIANT ApprovedValuesWereAccepted
