SPECIFICATION SessionSpec
CONSTANTS
  n1 = n1
  n2 = n2
  c1 = c1
  c2 = c2
  old = old
  s1 = s1
  s2 = s2
  t1 = t1
  t2 = t2
  Steps = {n1, n2, task}
  TaskStep = task
  Callers = {c1, c2}
  Stores = {s1, s2}
  Homes <- OneOrTwo
  Nobody = nobody
  Texts = {t1, t2}
  Similarity <- Resembling
  Lengths = {1, 2}
  K = 1
  MaxDeletes = 1
  Metadata <- Episodes
  OldRows <- EarlierRow
  Answers <- SomeAnswers
  NoTask = none
  Prompts = {t1, none}
CHECK_DEADLOCK FALSE
INVARIANTS
  SessionTypeOK
  Durable
  EpisodesTrue
  RecallsEarlier
PROPERTIES
  CallsEnd
