SPECIFICATION WorkflowsSpec
CONSTANTS
  Null = Null
  Slots = {s1, s2}
  Groups <- WorkGroups
  Instruments = {i1}
  Holders = {u1}
  MaxLoans = 3
  Entries = {e1, e2}
  CatNames = {travel}
  Amounts = {1, 2}
  MaxEntries = 1
  PerDiems = {p1}
  People = {u1}
  Items = {t1}
  Vehicles = {v1}
  Pickups = {q1}
  MaxRows = 2
  Writers = {w1, w2, w3}
  MaxMessages = 2
  PageSize = 1
  Emails = {a1}
  Musicians = {m1, m2}
  CategoryIds = {c1, c2}
  Skills = {trumpet}
  MaxSkills = 2
SYMMETRY Symmetry
INVARIANTS WorkflowsOK ReportAddsUp
PROPERTIES OnlyUpdatesMislead ImplementsLending
  RowWritesHitTheirRow WritesFollowReads
  NoticeMatchesLedger ReadByItsAddressee OneWelcomePerAddress
  SkillsStayUntilRemoved
CHECK_DEADLOCK FALSE
