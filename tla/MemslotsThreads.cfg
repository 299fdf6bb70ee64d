SPECIFICATION FairSpec
CONSTANTS
  Slot = {s1, s2, s3}
  Thread = {t1, t2}
  Vcpu = {u1}
  Requests <- ThreadRequests
  Gfn = {}
  MaxGfn = 4
  MaxGen = 1
  Ratio = 2
  MinPages = 1
  MayFail = {"new", "invalid_slot", "dirty_bitmap"}
  Null = Null
INVARIANTS
  DecisionHolds
PROPERTIES
  RequestsReturn
CHECK_DEADLOCK FALSE
