SPECIFICATION BusesSpec
CONSTANTS
  user = user
  app = app
  endpoint = endpoint
  iam = iam
  tenant = tenant
  apis = apis
  tenantLog = tenantLog
  o1 = o1
  a1 = a1
  Request = {user, app, endpoint}
  Subscriber = {iam, tenant, apis, tenantLog}
  Bridges = {iam, tenant, apis}
  Topic = {iam, tenant, apis}
  EventTopic <- Topics
  SubscriberTopic <- Handlers
  BufferSize = 2
  Org = {o1}
  App = {a1}
  None = None
  EventOrg <- Orgs
  EventApp <- Apps
  OrgOf <- AppsTable
  DefaultChannel = "events"
  ChannelOf <- Channels
  m1 = m1
  m2 = m2
  m3 = m3
  Message = {m1, m2, m3}
  Malformed = {m3}
  Idle = Idle
  Partition = {p1, p2}
  Handler = {h1, h2}
  StartFirst = FALSE
  MaxErrors = 2
  MaxRestarts = 1
INVARIANTS
  RoomsInOrder
  MissedOnlyByLookup
  PanicsOnlyWhenHurried
  ExitsDrained
  CommittedWasTried
  RedeliveredByRestartsOnly
PROPERTIES
  AcceptedEventsHandled
  ShutdownTerminates
  EveryMessageTried
CHECK_DEADLOCK FALSE
