SPECIFICATION Spec
CONSTANTS
  Null = Null
  Texts <- MCTexts
  Codes <- MCCodes
  DomainLabel <- MCDomainLabel
  Etc = 5
  Category <- MCCategory
  IssueReplies <- MCIssueReplies
  DocLists <- MCDocLists
  Replies <- MCReplies
  MaxIssues = 2
  Window = 1
  Overlap = 0
  Workers = 2
  Samples <- MCSamples
INVARIANTS
  DismissedIsNotArgued
  AnswerIsJudged
  ResultIgnoresOrder
  DoneCoversEmitted
  ChunksCoverText
  QuoteIsLocated
PROPERTIES
  SessionIsClosed
CHECK_DEADLOCK FALSE
