SPECIFICATION Spec
CONSTANTS
  Operations = {o1}
  MaxRevision = 3
  MaxBufferedEvents = 2
  MaxObserverEvents = 3
  MaxStreams = 1
PROPERTY ObservationResumes
