\* Three sample sets, two consumers, a repository and the dispatcher to the
\* broker that come and go; one set may be sent again.
SPECIFICATION PipelineSpec
CONSTANTS
  rrd = rrd
  activemq = activemq
  c1 = c1
  c2 = c2
  WbServices = {rrd, activemq}
  Consumers = {c1, c2}
  MaxSets = 3
  MaxForwards = 1
  MaxLives = 2
  MaxMessages = 4
INVARIANTS PipelineTypeOK InOrderOnce ReachesStableServices FewOutOfOrder OnceUnlessForwarded
PROPERTIES StoredUnlessLost ImplementsDelivery
