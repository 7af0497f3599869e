SPECIFICATION FairSpec
CONSTANTS
  Table <- MCTable
  Me = "ann"
  Online = {"ann"}
  Unknown = "nobody"
  Orders <- MCOrders
  MaxAsks <- MCMaxAsks
  MaxMail = 1
INVARIANTS HandlerSurvives PrintsWhatWasSent
PROPERTIES RequestsInStep RequestTakesEffect
CHECK_DEADLOCK FALSE
