\* Two services, three versions of the configuration, two restarts of
\* sampler-config and any number of restarts of the scheduler.
SPECIFICATION PollingSpec
CONSTANTS
  snmp = snmp
  jmx = jmx
  Ids = {snmp, jmx}
  MaxVersion = 3
  Content <- MCContent
  Null = Null
  MaxLives = 3
INVARIANTS PollingTypeOK EachPairOnce
PROPERTIES NeverBackToNull NeverOlderPolls EventuallyCurrent StartupPolls
