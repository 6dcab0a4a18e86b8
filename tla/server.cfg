\* Two repositories, one that is configured twice, or none, and a client that sends one request
\* after the other.
SPECIFICATION Spec
CONSTANTS
  Lower <- Capitals
  Configurations <- SomeConfigurations
  Requests = {r1}
  Urls <- AllEndpoints
  Bodies <- SomeBodies
  QueueCap = 3
INVARIANTS TypeOK RoundIsOver PrefetchComplete NobodyWaitsInVain
  AnswersInOrder
PROPERTIES EveryRoundComesBack EveryRequestEnds StaleIsFetched
CHECK_DEADLOCK FALSE
