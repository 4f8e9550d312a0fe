SPECIFICATION Spec
CONSTANTS
  MaxSaid = 5
  LastFault = 2
  Faults <- AllFaults
INVARIANTS HistoryInv ResumeMatchesLive UserMessagePersisted
PROPERTIES AppendsOverwriteNothing
