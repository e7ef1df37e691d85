SPECIFICATION FairSpec
PROPERTIES StopServicesReturns
