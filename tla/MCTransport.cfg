SPECIFICATION Spec
CONSTANTS
  Calls <- AllCalls
  Addresses = 2
  MaxRows = 3
  RECOMMEND_RANGE_COUNT = 2
  SPECIAL_RANGE_COUNT = 1
  SSL_ERROR_RETRY_NUM = 1
INVARIANT TypeOK
INVARIANT DeliveredAsReported
INVARIANT ListComplete
PROPERTY CallEnds
PROPERTY SessionRenewed
