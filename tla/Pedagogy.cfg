SPECIFICATION Spec
CONSTANTS
  Corpora <- MCCorpora
  Drafts <- MCDrafts
  Used <- MCUsed
  Decisions = {"approve", "reject"}
  BlockPages = 2
  MaxChars = 9
  MinChars = 2
  TrainShare = 1
  Width = 3
  PerCourse = 3
  TheoryPerEnrich = 1
  BatchSize = 2
  MaxSessions = 2
  MaxTrouble = 1
  MaxReviews = 2
  MaxExports = 1
INVARIANTS ReleaseIsSound
PROPERTIES ReviewsAreCurrent
CHECK_DEADLOCK FALSE
