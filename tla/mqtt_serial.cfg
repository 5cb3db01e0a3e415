SPECIFICATION FairSpec
CONSTANTS
  Topics = {"statistic", "parameter"}
  Statistics = {"statistic"}
  Filters = {"set"}
  MaxValue = 3
  MaxLosses = 2
  MaxSent = 2
  Threads = FALSE
INVARIANTS SubscriptionsKept
PROPERTIES BrokerCatchesUp NoValueReturns
