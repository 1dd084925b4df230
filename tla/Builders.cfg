SPECIFICATION BothSpec
CONSTANTS
  Topics <- MCTopics
  Prefixes <- MCPrefixes
  Policies <- MCPolicies
  Pipelines <- MCPipelines
  Initial <- MCInitial
  Buses = {b1, b2}
  Listeners = {"l1"}
  MaxRequests = 2
  Clients = {c1, c2}
  Names = {"Authorization", "X"}
  Values = {"v"}
  Tokens = {"t1", "t2"}
SYMMETRY Symmetry
INVARIANTS
  TypeOK
  AuthorizationDecides
  OnlyWithdrawnBusPanics
  SecureByDefault
  SubscriptionsInPrefix
  NothingLeftOnAnyBus
  CountersAgree
  TokensStayHome
  BuiltWithoutHeaders
CHECK_DEADLOCK FALSE
