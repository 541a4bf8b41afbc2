CONSTANTS
  group = group
  NoGroup = NoGroup
  p1 = p1
  p2 = p2
  nightly = nightly beat = beat sync = sync chime = chime chimeTwice = chimeTwice
  Cron = {nightly} Rate = {beat} Delay = {sync} Initial = {sync}
  MaxActive = 2
  Owner <- MCOwner
  Broker = "Port"
  Programs <- MCPrograms
  Kinds = {"memory", "remote"}
  Handlers = {"Orders", "Audit", "Mailer", "Broken"}
  Group <- Group1
  Publishers = {p1, p2}
  MaxPublishes = 3
SPECIFICATION ApplicationFairSpec
INVARIANTS EachGroupOnce ShutdownMirrorsStartup JobsHaveTheirBeans
PROPERTIES StopEnds NoLateSubscription KeepsFiring
CHECK_DEADLOCK FALSE
