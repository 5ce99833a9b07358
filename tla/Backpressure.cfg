SPECIFICATION FairSpec
CONSTANTS
  Requests = {r1, r2, r3, r4}
  Groups = {reads, writes, auth}
  Closed = auth
  Reads = reads
  Exempt = exempt
  Global = 2
  Limit <- MCLimit
INVARIANTS TypeOK PermitsConserved NoLostWakeup QueuesExact
PROPERTIES ImplementsAdmission RequestsLeave
