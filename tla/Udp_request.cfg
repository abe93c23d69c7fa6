SPECIFICATION FairSpec
CONSTANTS
  Parts <- TwoAndTwo
  WebFails = TRUE
INVARIANT HandledOnce
PROPERTIES DeliveredOrRejected ImplementsRemoteCall
\* a request that is answered is over
CHECK_DEADLOCK FALSE
