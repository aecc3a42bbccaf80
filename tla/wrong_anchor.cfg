SPECIFICATION Spec
CONSTANTS
  Null = Null
  Texts <- MCTexts
  Codes <- MCCodes
  DomainLabel <- MCDomainLabel
  Etc = 5
  Category <- MCCategory
  IssueReplies <- MCIssueReplies
  DocLists <- MCDocLists
  Replies <- MCReplies
  MaxIssues = 2
  Window = 1
  Overlap = 0
  Workers = 2
  Samples <- NoSamples
INVARIANTS
  AnchorIsInUnit
CHECK_DEADLOCK FALSE
