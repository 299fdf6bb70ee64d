SPECIFICATION Spec
CONSTANTS
  N = 2
  VM = {k1, k2}
  VCPU = {v1, v2, v3, v4}
  Thread = {t1}
  NVpid = 3
  MayFail = {"vcpu_array", "vcpu", "vmcs"}
  Null = Null
SYMMETRY Objects
INVARIANTS
  LoadedVmcsTracked
  CurrentVmcsAgrees
  NoTeardownFault
  VpidUnique
  VmxOnlyWhileUsed
  UsageCountsVms
