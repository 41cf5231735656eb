SPECIFICATION Spec
CONSTANTS
  MaxJobs = 4
  NoRecord = NoRecord
  d1 = d1
  d2 = d2
  idle = idle
  Barriers = {d1, d2}
  Plain = {idle}
INVARIANTS
  BroadcastIsRecorded
  FlushIsTrue
PROPERTIES
  RecordsAdvance
  FlushEnds
