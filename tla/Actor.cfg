SPECIFICATION FairSpec
CONSTANTS
  Calls = {c1, c2, c3}
  Owner = owner
  MailboxSize = 1
  MoreOps = 1
INVARIANTS
  AnswerTrue
  NoneSkipped
  FewAfterDrop
PROPERTIES
  DropEnds
  CallsReturn
