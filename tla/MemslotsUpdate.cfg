SPECIFICATION Spec
CONSTANTS
  Slot = {s1, s2, s3}
  Thread = {t1}
  Vcpu = {u1}
  Requests <- InPlaceOrMove
  Gfn = {0, 2, 3}
  MaxGfn = 4
  MaxGen = 4
  Ratio = 2
  MinPages = 1
  MayFail = {"new", "invalid_slot", "dirty_bitmap", "lpage_info"}
  Null = Null
SYMMETRY Blocks
INVARIANTS
  ActiveSlotsDisjoint
  SetsAgree
  CachedSlotCurrent
  PagesAccounted
  BitmapsFollowFlags
PROPERTIES
  SlotsStayVisible
