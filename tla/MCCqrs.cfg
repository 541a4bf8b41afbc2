CONSTANTS
  order = order
  forever = forever
  c1 = c1
  c2 = c2
  Callers = {c1, c2}
  Keys = {order}
  Slots <- MCSlots
  Forever = forever
  Events <- MCEvents
  Rules <- MCRules
  QueryTtl = 1
  FunctionTtl = forever
  MaxFailures = 1
  Apps <- MCApps
SPECIFICATION FairSpec
INVARIANTS StaleOnlyByRace CommandsAnnounce
PROPERTIES StaleExpires
CHECK_DEADLOCK FALSE
