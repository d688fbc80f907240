SPECIFICATION FairSpec
CONSTANTS
  c1 = c1
  Clients = {c1}
  SubBuffer = 1
  MaxBuffer = 2
  Faults = {"append", "native"}
  MaxEvents = 4
  MaxRevivals = 1
INVARIANTS TypeOK SeqAheadOfLog HandedIsDurable NothingMissed
PROPERTIES TailsLog EventuallyHanded
CHECK_DEADLOCK FALSE
