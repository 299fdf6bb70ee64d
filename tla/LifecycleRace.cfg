SPECIFICATION Spec
CONSTANTS
  N = 2
  VM = {k1}
  VCPU = {v1, v2, v3}
  Thread = {t1, t2}
  NVpid = 1
  MayFail = {"vcpu_array", "vcpu", "vmcs"}
  Null = Null
SYMMETRY Objects
INVARIANTS
  FreedVmcsNotCurrent
  FullArrayHoldsAll
