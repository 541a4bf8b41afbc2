CONSTANTS
  service = service
  repo = repo
  conn = conn
  plugin = plugin
  ping = ping
  pong = pong
  form = form
  port = port
  missing = missing
  t1 = t1
  t2 = t2
  none = none
  None = none
  Threads = {t1, t2}
  Classes = {service, repo, conn, plugin, ping, pong, form}
  Types = {service, repo, conn, plugin, ping, pong, form, port, missing}
  Scope <- MCScope
  Bindings <- MCBindings
  Primary = {repo}
  Params <- MCParams
  Fields <- MCFields
  InRequest = {t1}
  MaxCalls = 2
SPECIFICATION FairSpec
INVARIANTS OneSingleton SingletonCycleIsReal
PROPERTIES ResolutionEnds
CHECK_DEADLOCK FALSE
