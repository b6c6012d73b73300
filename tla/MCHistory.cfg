SPECIFICATION MCSpec
CONSTANTS
  r1 = r1
  r2 = r2
  NoRecord = NoRecord
  Records <- MCRecords
  MaxSize = 2
  MaxAdds = 6
INVARIANTS
  TypeOK
  RingIsWindow
  GetFindsTheRequest
PROPERTY RefinesJournal
