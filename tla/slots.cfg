SPECIFICATION FairSpec
CONSTANTS
  exec1 = exec1
  rev1 = rev1
  idea1 = idea1
  r1 = r1
  r2 = r2
  r3 = r3
  NoRun = NoRun
  Execution = {}
  Review = {rev1}
  Ideation = {}
  Run = {r1, r2}
  GlobalMax = 1
  MaxEntries = 1
  MaxMessages = 1
INVARIANTS TypeOK LiveRunOwnsEntry EntryHasItsRun
PROPERTY CountHeals
