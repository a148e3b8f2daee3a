SPECIFICATION FairSpec
CONSTANTS
  Operations = {o1}
  MaxRevision = 4
  MaxBufferedEvents = 2
  MaxObserverEvents = 3
  MaxStreams = 2
INVARIANTS
  TypeOK
  NothingMissed
  ShownIsCurrentOrComing
PROPERTIES
  ObservationRecovers
  ShownOnlyAdvances
