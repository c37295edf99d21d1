CONSTANTS
  Limit = 3
  Replies <- MCReplies
  JobTexts <- MCJobTexts
  MaxLength = 5
  Users = {owner, other}
  Owner = owner
  MaxOrphans = 2
SPECIFICATION FairBotSpec
INVARIANTS
  PartsInOrder
  FilesGone
  SorryOnlyUnanswered
PROPERTY EveryUpdateEnds
