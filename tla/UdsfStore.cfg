SPECIFICATION UdsfSpec
CONSTANTS
  Tags = {t1, t2}
  Blocks = {b1}
  NoTag = NoTag
  Handlers = {h1, h2}
  Subs = {s1}
  MaxAttempts = 2
  MaxRequests = 3
  MaxChanges = 1
SYMMETRY Symmetry
INVARIANTS
  IndexMatches
  NotifiesStanding
  ContentionIsReal
PROPERTY
  ImplementsAtomic
CHECK_DEADLOCK FALSE
