SPECIFICATION FairSpec
CONSTANTS
  Sq = {s1, s2}
  OWNER = s1
  Tag = {t1, t2}
  SQ_SIZE = 3
  CQ_SIZE = 3
INVARIANTS DispatchedOnce PhaseMarksNew
PROPERTY EveryEntryIsTaken
