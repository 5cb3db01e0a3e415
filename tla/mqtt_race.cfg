SPECIFICATION FairSpec
CONSTANTS
  Topics = {"statistic", "parameter"}
  Statistics = {"statistic"}
  Filters = {"set"}
  MaxValue = 2
  MaxLosses = 0
  MaxSent = 1
  Threads = TRUE

PROPERTY BrokerCatchesUp
