\* Two consumers of one durable, a missing first command, a stray one, a lost ack, a stop or a malformed answer.
SPECIFICATION FairSpec
CONSTANTS
  Workers = {w1, w2}
  MaxVersion = 3
  History <- HistoryDef
  Strays <- StraysDef
  Nothing = Nothing
  Sent <- SentDef
  MaxCopies = 1
  MaxFaults = 1
INVARIANTS TypeOK FoldMatchesLedger SettledIsAccounted IntentHasMessage
PROPERTIES Settles LedgerIsPermanent
CHECK_DEADLOCK FALSE
