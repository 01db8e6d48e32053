\* A third value arrives after the first two were settled.
SPECIFICATION Spec
CONSTANTS
  None = None
  Blank = Blank
  Fields <- MCFields
  UrlField = "source_url"
  CountryField = "country_code"
  CategoryField = "field_category"
  CoreFields <- MCCore
  ApprovalCoreFields <- MCApprovalCore
  Sources = {"s1", "s2", "s3"}
  Primary = "s1"
  Values <- ThirdValues
  RawValues = {}
  JobCountry = "DE"
  Pages <- ThirdPages
  PagesOf <- ThirdPagesOf
  Content <- ThirdContent
  Notes = {"ignored_jsonld"}
  PageNotes <- ThirdNotes
  OverrideChoices = {}
  MaxExtractions = 3
  MaxReviews = 2
  MaxResolutions = 1
  MaxExports = 1
PROPERTY NewValueReopensConflict
