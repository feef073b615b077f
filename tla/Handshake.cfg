\* One Minion that is started three times, crashes and restarts of both sides.
SPECIFICATION FairHandshakeSpec
CONSTANTS
  minion1 = minion1
  BlankId = BlankId
  NoId = NoId
  NoRecord = NoRecord
  NoMessage = NoMessage
  Minions = {minion1}
  MaxIds = 2
  MaxStarts = 3
  InitialIds <- MCNoOrBlank
INVARIANTS HandshakeTypeOK OneIdentity RecordBeforeInit RecordIsCurrent
PROPERTIES IdKept RunningIsRecorded
