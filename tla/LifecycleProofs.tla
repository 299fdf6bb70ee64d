--------------------------- MODULE LifecycleProofs ---------------------------
(***************************************************************************)
(* Proofs about Lifecycle, for any number of processors, VMs, vCPUs and    *)
(* threads.                                                                *)
(***************************************************************************)
EXTENDS Lifecycle, FiniteSetTheorems, TLAPS

\* Control points between the allocation of a vCPU and the end of its creation.
Creating ==
  {"vpid", "vmcs", "insert", "vmptrld", "load", "reset", "store"}

\* Control points at which a thread has a VM of its own in kvm[t].
Owning == {"link", "publish", "destroy", "disable"}

\* The locals a control point needs hold real objects.
LocalsOK ==
  \A t \in Thread :
    /\ pc[t] \in Owning \cup Creating \cup {"alloc"} => kvm[t] \in VM
    /\ pc[t] \in Creating => vcpu[t] \in VCPU
    /\ pc[t] \in {"destroy", "disable"} => g_kvm \in VM

TypeInv == TypeOK /\ LocalsOK

LEMMA CpuFacts == CPU \subseteq Nat /\ 0 \in CPU /\ -1 \notin CPU
  BY NAssumption DEF CPU

\* A step that stops the machine changes nothing but bugcheck.
LEMMA BugCheckType ==
  ASSUME TypeInv, NEW f \in Faults, BugCheck(f)
  PROVE  TypeInv'
  BY DEF TypeInv, TypeOK, LocalsOK, BugCheck, hwVars, enableVars, vmVars,
         vcpuVars, loadedVars, fieldVars, vpidVars, threadVars

LEMMA InitType == Init => TypeInv
  BY CpuFacts DEF Init, TypeInv, TypeOK, LocalsOK, Owning, Creating,
                  ControlPoints, Faults

USE DEF hwVars, enableVars, vmVars, vcpuVars, loadedVars, fieldVars, vpidVars,
        threadVars

LEMMA CreateVmType ==
  ASSUME TypeInv, NEW t \in Thread,
         kvm_create_vm(t) \/ link_vm(t) \/ kvm_dev_ioctl_create_vm(t)
  PROVE  TypeInv'
<1>1. CASE kvm_create_vm(t)
  <2>1. /\ hardware_enabled' \in [CPU -> BOOLEAN]
        /\ vmxe' \in [CPU -> BOOLEAN]
        /\ vmx_root' \in [CPU -> BOOLEAN]
    <3>1. CASE kvm_usage_count + 1 = 1
      <4>1. /\ hardware_enabled' = [c \in CPU |-> hardware_enabled[c] \/ Enables(c)]
            /\ vmxe' = [c \in CPU |-> vmxe[c] \/ Enables(c)]
            /\ vmx_root' = [c \in CPU |-> vmx_root[c] \/ Enables(c)]
        BY <1>1, <3>1 DEF kvm_create_vm
      <4>2. QED BY ONLY <4>1, Zenon
    <3>2. CASE kvm_usage_count + 1 # 1
      BY <1>1, <3>2 DEF kvm_create_vm, TypeInv, TypeOK
    <3>3. QED BY <3>1, <3>2
  <2>2. /\ vms' \in [VM -> {"unused", "live", "released", "freed"}]
        /\ kvm_usage_count' \in Int
        /\ kvm' \in [Thread -> VM \cup {Null}]
        /\ pc' \in [Thread -> ControlPoints]
        /\ LocalsOK'
    BY <1>1 DEF TypeInv, TypeOK, LocalsOK, Owning, Creating, ControlPoints,
                kvm_create_vm, Goto
  <2>3. QED
    BY <1>1, <2>1, <2>2 DEF TypeInv, TypeOK, kvm_create_vm
<1>2. CASE link_vm(t)
  <2>1. CASE BugCheck("vm_list")
    BY <2>1, BugCheckType DEF Faults
  <2>2. CASE ~BugCheck("vm_list")
    <3>1. /\ pc[t] = "link" /\ pc' = [pc EXCEPT ![t] = "publish"]
          /\ vm_list' = vm_list \cup {kvm[t]}
          /\ UNCHANGED <<hwVars, enableVars, vms, g_kvm, created_vcpus,
                         vcpu_array, vcpuVars, loadedVars, fieldVars, vpidVars,
                         kvm, id, vcpu, bugcheck>>
      BY <1>2, <2>2 DEF link_vm, Goto
    <3>2. pc' \in [Thread -> ControlPoints]
      BY <3>1 DEF TypeInv, TypeOK, ControlPoints
    <3>3. LocalsOK'
      BY <3>1 DEF TypeInv, TypeOK, LocalsOK, Owning, Creating
    <3>4. vm_list' \subseteq VM
      BY <3>1 DEF TypeInv, TypeOK, LocalsOK, Owning
    <3>5. QED
      BY <3>1, <3>2, <3>3, <3>4 DEF TypeInv, TypeOK
  <2>3. QED BY <2>1, <2>2
<1>3. CASE kvm_dev_ioctl_create_vm(t)
  BY <1>3 DEF TypeInv, TypeOK, LocalsOK, Owning, Creating, ControlPoints,
              kvm_dev_ioctl_create_vm, Goto
<1>4. QED BY <1>1, <1>2, <1>3

\* The steps of kvm_vm_ioctl_create_vcpu up to the allocation of the VMCS.
LEMMA AllocVcpuType ==
  ASSUME TypeInv, NEW t \in Thread,
         \/ KVM_CREATE_VCPU(t) \/ reserve_vcpu(t) \/ alloc_vcpu(t)
         \/ set_vpid(t) \/ alloc_loaded_vmcs(t)
  PROVE  TypeInv'
<1> USE CpuFacts
<1>1. CASE KVM_CREATE_VCPU(t)
  BY <1>1 DEF TypeInv, TypeOK, LocalsOK, Owning, Creating, ControlPoints,
              KVM_CREATE_VCPU, Goto
<1>2. CASE reserve_vcpu(t)
  <2>1. CASE g_kvm = Null
    BY <1>2, <2>1, BugCheckType DEF reserve_vcpu, Faults
  <2>2. CASE g_kvm # Null
    <3>1. /\ created_vcpus' \in [VM -> Nat]
          /\ kvm' \in [Thread -> VM \cup {Null}]
          /\ pc' \in [Thread -> ControlPoints]
      <4>1. created_vcpus' \in [VM -> Nat]
        BY <1>2, <2>2 DEF TypeInv, TypeOK, reserve_vcpu
      <4>2. kvm' \in [Thread -> VM \cup {Null}]
        BY <1>2, <2>2 DEF TypeInv, TypeOK, reserve_vcpu
      <4>3. pc' \in [Thread -> ControlPoints]
        <5>1. \E p \in {"idle", "alloc"} : pc' = [pc EXCEPT ![t] = p]
          BY <1>2, <2>2 DEF reserve_vcpu, Goto
        <5>2. pc \in [Thread -> ControlPoints] /\ {"idle", "alloc"} \subseteq ControlPoints
          BY DEF TypeInv, TypeOK, ControlPoints
        <5>3. QED BY ONLY <5>1, <5>2
      <4>4. QED BY <4>1, <4>2, <4>3
    <3>2. LocalsOK'
      BY <1>2, <2>2 DEF TypeInv, TypeOK, LocalsOK, Owning, Creating,
                        reserve_vcpu, Goto
    <3>3. QED
      BY <1>2, <2>2, <3>1, <3>2 DEF TypeInv, TypeOK, reserve_vcpu
  <2>3. QED BY <2>1, <2>2
<1>3. CASE alloc_vcpu(t)
  <2>1. FindVpid \subseteq VPID \cup {0}
    BY DEF FindVpid
  <2>2. vcpu' \in [Thread -> VCPU \cup {Null}]
    BY <1>3 DEF TypeInv, TypeOK, alloc_vcpu
  <2>3. vmcs' \in [VCPU -> {"unused", "none", "live", "freed"}]
    BY <1>3 DEF TypeInv, TypeOK, alloc_vcpu
  <2>4. /\ vcpu_kvm' \in [VCPU -> VM \cup {Null}]
        /\ vcpu_id' \in [VCPU -> CPU]
    <3>1. kvm[t] \in VM \cup {Null} /\ id[t] \in CPU
      BY DEF TypeInv, TypeOK
    <3>2. vcpu_kvm' \in [VCPU -> VM \cup {Null}]
      BY <1>3, <3>1 DEF TypeInv, TypeOK, alloc_vcpu
    <3>3. vcpu_id' \in [VCPU -> CPU]
      BY <1>3, <3>1 DEF TypeInv, TypeOK, alloc_vcpu
    <3>4. QED BY <3>2, <3>3
  <2>5. vpid' \in [VCPU -> VPID \cup {0}]
    BY <1>3, <2>1 DEF TypeInv, TypeOK, alloc_vcpu
  <2>6. pc' \in [Thread -> ControlPoints]
    BY <1>3 DEF TypeInv, TypeOK, ControlPoints, alloc_vcpu, Goto
  <2>7. LocalsOK'
    BY <1>3 DEF TypeInv, TypeOK, LocalsOK, Owning, Creating, alloc_vcpu, Goto
  <2>8. QED
    BY <1>3, <2>2, <2>3, <2>4, <2>5, <2>6, <2>7 DEF TypeInv, TypeOK, alloc_vcpu
<1>4. CASE set_vpid(t)
  <2>1. MarkVpid(vpid[vcpu[t]]) \subseteq VPID
    BY <1>4 DEF MarkVpid, set_vpid, Goto, TypeInv, TypeOK, LocalsOK, Creating
  <2>2. QED
    BY <1>4, <2>1 DEF TypeInv, TypeOK, LocalsOK, Owning, Creating,
                      ControlPoints, set_vpid, Goto
<1>5. CASE alloc_loaded_vmcs(t)
  <2>1. CASE BugCheck("ud_vmclear") \/ BugCheck("null_vmcs")
    BY <2>1, BugCheckType DEF Faults
  <2>2. CASE ~(BugCheck("ud_vmclear") \/ BugCheck("null_vmcs"))
    <3>1. launched' \in [VCPU -> BOOLEAN]
      BY <1>5, <2>2, Zenon DEF alloc_loaded_vmcs, TypeInv, TypeOK
    <3>2. vmcs' \in [VCPU -> {"unused", "none", "live", "freed"}]
      BY <1>5, <2>2 DEF TypeInv, TypeOK, alloc_loaded_vmcs
    <3>3. vmcs_cpu' \in [VCPU -> CPU \cup {-1}]
      BY <1>5, <2>2 DEF TypeInv, TypeOK, alloc_loaded_vmcs
    <3>4. pc' \in [Thread -> ControlPoints]
      <4>1. pc' = [pc EXCEPT ![t] = "insert"]
        BY <1>5, <2>2 DEF alloc_loaded_vmcs, Goto
      <4>2. QED BY <4>1 DEF TypeInv, TypeOK, ControlPoints
    <3>5. LocalsOK'
      BY <1>5, <2>2 DEF TypeInv, TypeOK, LocalsOK, Owning, Creating,
                        alloc_loaded_vmcs, Goto
    <3>6. QED
      BY <1>5, <2>2, <3>1, <3>2, <3>3, <3>4, <3>5 DEF TypeInv, TypeOK, alloc_loaded_vmcs
  <2>3. QED BY <2>1, <2>2
<1>6. QED BY <1>1, <1>2, <1>3, <1>4, <1>5

\* vcpu_load, kvm_vcpu_reset and the assignment to vcpu_array.
LEMMA LoadVcpuType ==
  ASSUME TypeInv, NEW t \in Thread, NEW e \in CPU,
         \/ load_insert(t) \/ load_vmptrld(t) \/ load_write(t, e)
         \/ kvm_vcpu_reset(t, e) \/ store_vcpu(t)
  PROVE  TypeInv'
<1> USE CpuFacts
<1>1. CASE load_insert(t)
  <2>1. /\ loaded_vmcss_on_cpu' \in [CPU -> SUBSET VCPU]
        /\ current_vmcs' \in [CPU -> VCPU \cup {Null}]
        /\ pc' \in [Thread -> ControlPoints]
    BY <1>1 DEF TypeInv, TypeOK, LocalsOK, Creating, ControlPoints,
                load_insert, Goto
  <2>2. LocalsOK'
    BY <1>1 DEF TypeInv, TypeOK, LocalsOK, Owning, Creating, load_insert, Goto
  <2>3. QED
    BY <1>1, <2>1, <2>2 DEF TypeInv, TypeOK, load_insert
<1>2. CASE load_vmptrld(t)
  <2>1. CASE vmx_root[LoadTarget(t)]
    <3>1. vmptr' \in [CPU -> VCPU \cup {Null}]
      BY <1>2, <2>1 DEF TypeInv, TypeOK, load_vmptrld
    <3>2. pc' \in [Thread -> ControlPoints]
      BY <1>2, <2>1 DEF TypeInv, TypeOK, ControlPoints, load_vmptrld, Goto
    <3>3. LocalsOK'
      BY <1>2, <2>1 DEF TypeInv, TypeOK, LocalsOK, Owning, Creating,
                        load_vmptrld, Goto
    <3>4. QED
      BY <1>2, <2>1, <3>1, <3>2, <3>3 DEF TypeInv, TypeOK, load_vmptrld
  <2>2. CASE ~vmx_root[LoadTarget(t)]
    BY <1>2, <2>2, BugCheckType DEF load_vmptrld, Faults
  <2>3. QED BY <2>1, <2>2
<1>3. CASE load_write(t, e)
  <2>1. CASE vmx_root[e]
    <3>1. host_tr' \in [VCPU -> CPU \cup {-1}]
      BY <1>3, <2>1 DEF TypeInv, TypeOK, load_write
    <3>2. vmcs_cpu' \in [VCPU -> CPU \cup {-1}]
      BY <1>3, <2>1 DEF TypeInv, TypeOK, load_write
    <3>3. pc' \in [Thread -> ControlPoints]
      BY <1>3, <2>1 DEF TypeInv, TypeOK, ControlPoints, load_write, Goto
    <3>4. LocalsOK'
      BY <1>3, <2>1 DEF TypeInv, TypeOK, LocalsOK, Owning, Creating,
                        load_write, Goto
    <3>5. QED
      BY <1>3, <2>1, <3>1, <3>2, <3>3, <3>4 DEF TypeInv, TypeOK, load_write
  <2>2. CASE ~vmx_root[e]
    BY <1>3, <2>2, BugCheckType DEF load_write, Faults
  <2>3. QED BY <2>1, <2>2
<1>4. CASE kvm_vcpu_reset(t, e)
  <2>1. CASE vmx_root[e]
    <3>1. /\ reset_by' \in [VCPU -> VCPU \cup {Null}]
          /\ pc' \in [Thread -> ControlPoints]
      BY <1>4, <2>1 DEF TypeInv, TypeOK, ControlPoints, kvm_vcpu_reset, Goto
    <3>2. LocalsOK'
      BY <1>4, <2>1 DEF TypeInv, TypeOK, LocalsOK, Owning, Creating,
                        kvm_vcpu_reset, Goto
    <3>3. QED
      BY <1>4, <2>1, <3>1, <3>2 DEF TypeInv, TypeOK, kvm_vcpu_reset
  <2>2. CASE ~vmx_root[e]
    BY <1>4, <2>2, BugCheckType DEF kvm_vcpu_reset, Faults
  <2>3. QED BY <2>1, <2>2
<1>5. CASE store_vcpu(t)
  <2>1. ~LastId(t) => id[t] + 1 \in CPU
    BY NAssumption DEF LastId, CPU, TypeInv, TypeOK
  <2>2. vcpu_array' \in [VM -> [CPU -> VCPU \cup {Null}]]
    BY <1>5 DEF TypeInv, TypeOK, LocalsOK, Creating, store_vcpu, Goto
  <2>3. /\ id' \in [Thread -> CPU]
        /\ pc' \in [Thread -> ControlPoints]
    <3>1. id' \in [Thread -> CPU]
      BY <1>5, <2>1 DEF TypeInv, TypeOK, store_vcpu
    <3>2. pc' \in [Thread -> ControlPoints]
      <4>1. \E p \in {"idle", "reserve"} : pc' = [pc EXCEPT ![t] = p]
        BY <1>5 DEF store_vcpu, Goto
      <4>2. pc \in [Thread -> ControlPoints] /\ {"idle", "reserve"} \subseteq ControlPoints
        BY DEF TypeInv, TypeOK, ControlPoints
      <4>3. QED BY ONLY <4>1, <4>2
    <3>3. QED BY <3>1, <3>2
  <2>4. LocalsOK'
    BY <1>5 DEF TypeInv, TypeOK, LocalsOK, Owning, Creating, store_vcpu, Goto
  <2>5. QED
    BY <1>5, <2>2, <2>3, <2>4 DEF TypeInv, TypeOK, store_vcpu
<1>6. QED BY <1>1, <1>2, <1>3, <1>4, <1>5

LEMMA RunType ==
  ASSUME TypeInv, NEW t \in Thread, KVM_RUN(t)
  PROVE  TypeInv'
<1>1. CASE \E f \in RunFaults : BugCheck(f)
  <2>1. RunFaults \subseteq Faults
    BY DEF RunFaults, Faults
  <2>2. QED BY <1>1, <2>1, BugCheckType
<1>2. CASE BugCheck("mmu")
  BY <1>2, BugCheckType DEF Faults
<1>3. CASE ~(BugCheck("mmu") \/ \E f \in RunFaults : BugCheck(f))
  <2> DEFINE arr == vcpu_array[g_kvm]
  <2>1. g_kvm \in VM
    BY <1>3 DEF KVM_RUN, RunFaults, TypeInv, TypeOK
  <2>2. \A c \in CPU : arr[c] \in VCPU
    <3>1. \A c \in CPU : arr[c] \in VCPU \cup {Null}
      BY <2>1 DEF TypeInv, TypeOK
    <3>2. \A c \in CPU : arr[c] # Null
      BY <1>3, <2>1, NullAssumption DEF KVM_RUN, RunFaults
    <3>3. QED BY <3>1, <3>2
  <2> DEFINE fresh == {c \in CPU : ~AlreadyLoaded(arr[c], c)}
  <2>3. launched' \in [VCPU -> BOOLEAN]
    <3>1. PICK entered \in SUBSET {c \in CPU : CanEnter(c)} :
            launched' = [v \in VCPU |-> launched[v] \/ \E c \in entered : v = arr[c]]
      BY <1>3 DEF KVM_RUN
    <3>2. QED BY ONLY <3>1, Zenon
  <2>4. loaded_vmcss_on_cpu' \in [CPU -> SUBSET VCPU]
    <3>1. loaded_vmcss_on_cpu' =
            [c \in CPU |-> loaded_vmcss_on_cpu[c] \cup
                             (IF c \in fresh THEN {arr[c]} ELSE {})]
      BY <1>3 DEF KVM_RUN
    <3>2. loaded_vmcss_on_cpu \in [CPU -> SUBSET VCPU]
      BY DEF TypeInv, TypeOK
    <3> HIDE DEF arr, fresh
    <3>3. QED BY ONLY <2>2, <3>1, <3>2
  <2>5. host_tr' \in [VCPU -> CPU \cup {-1}]
    <3>1. host_tr' = [v \in VCPU |-> IF \E c \in fresh : v \in WriteTarget(c)
                                     THEN CHOOSE c \in fresh : v \in WriteTarget(c)
                                     ELSE host_tr[v]]
      BY <1>3, Zenon DEF KVM_RUN
    <3>2. fresh \subseteq CPU OBVIOUS
    <3> HIDE DEF fresh
    <3>3. QED BY <3>1, <3>2 DEF TypeInv, TypeOK
  <2>6. vmcs_cpu' \in [VCPU -> CPU \cup {-1}]
    <3>1. vmcs_cpu' = [v \in VCPU |-> IF \E c \in fresh : v = arr[c]
                                      THEN CHOOSE c \in fresh : v = arr[c]
                                      ELSE vmcs_cpu[v]]
      BY <1>3, Zenon DEF KVM_RUN
    <3>2. fresh \subseteq CPU OBVIOUS
    <3> HIDE DEF fresh
    <3>3. QED BY <3>1, <3>2 DEF TypeInv, TypeOK
  <2>7. QED
    BY <1>3, <2>3, <2>4, <2>5, <2>6 DEF KVM_RUN, TypeInv, TypeOK, LocalsOK
<1>4. QED BY <1>1, <1>2, <1>3

\* KVM_RELEASE_VM.
LEMMA ReleaseType ==
  ASSUME TypeInv, NEW t \in Thread, NEW e \in CPU,
         kvm_destroy_vm(t) \/ free_loaded_vmcs(t) \/ hardware_disable_all(t, e)
  PROVE  TypeInv'
<1> USE CpuFacts
<1>1. CASE kvm_destroy_vm(t)
  <2>1. CASE BugCheck("null_kvm") \/ BugCheck("vm_list")
    BY <2>1, BugCheckType DEF Faults
  <2>2. CASE ~(BugCheck("null_kvm") \/ BugCheck("vm_list"))
    <3>1. kvm' \in [Thread -> VM \cup {Null}]
      BY <1>1, <2>2 DEF TypeInv, TypeOK, kvm_destroy_vm
    <3>2. id' \in [Thread -> CPU] /\ vm_list' \in SUBSET VM
      BY <1>1, <2>2 DEF TypeInv, TypeOK, kvm_destroy_vm
    <3>3. pc' \in [Thread -> ControlPoints]
      BY <1>1, <2>2 DEF TypeInv, TypeOK, ControlPoints, kvm_destroy_vm, Goto
    <3>4. LocalsOK'
      BY <1>1, <2>2 DEF TypeInv, TypeOK, LocalsOK, Owning, Creating,
                        kvm_destroy_vm, Goto
    <3>5. QED
      BY <1>1, <2>2, <3>1, <3>2, <3>3, <3>4 DEF TypeInv, TypeOK, kvm_destroy_vm
  <2>3. QED BY <2>1, <2>2
<1>2. CASE free_loaded_vmcs(t)
  <2> DEFINE v == vcpu_array[g_kvm][id[t]]
  <2>1. CASE \E f \in {"null_vcpu", "ud_vmclear", "vmclear_list"} : BugCheck(f)
    BY <2>1, BugCheckType DEF Faults
  <2>2. CASE ~\E f \in {"null_vcpu", "ud_vmclear", "vmclear_list"} : BugCheck(f)
    <3>1. pc[t] = "destroy" /\ g_kvm \in VM /\ id[t] \in CPU
      BY <1>2 DEF free_loaded_vmcs, TypeInv, TypeOK, LocalsOK
    <3>2. v \in VCPU
      <4>1. v # Null
        BY <1>2, <2>2, Zenon DEF free_loaded_vmcs
      <4>2. vcpu_array[g_kvm] \in [CPU -> VCPU \cup {Null}]
        BY <3>1 DEF TypeInv, TypeOK
      <4>3. QED BY <3>1, <4>1, <4>2
    <3>3. NextDestroy(t)
      BY <1>2, <2>2, Zenon DEF free_loaded_vmcs
    <3>4. pc' \in [Thread -> ControlPoints]
      BY <3>3 DEF NextDestroy, Goto, TypeInv, TypeOK, ControlPoints
    <3>5. id' \in [Thread -> CPU]
      <4>1. ~LastId(t) => id[t] + 1 \in CPU
        BY <3>1, NAssumption DEF LastId, CPU
      <4>2. QED BY <3>3, <4>1 DEF NextDestroy, TypeInv, TypeOK
    <3>6. \A s \in Thread :
            pc'[s] = pc[s] \/ (pc[s] = "destroy" /\ pc'[s] = "disable")
      <4>1. CASE LastId(t)
        BY <3>3, <4>1 DEF NextDestroy, Goto, TypeInv, TypeOK
      <4>2. CASE ~LastId(t)
        BY <3>3, <4>2 DEF NextDestroy
      <4>3. QED BY <4>1, <4>2
    <3>7. \/ UNCHANGED <<vmptr, loadedVars>>
          \/ /\ vmcs' = [vmcs EXCEPT ![v] = "freed"]
             /\ UNCHANGED <<vmptr, vmcs_cpu, launched, current_vmcs,
                            loaded_vmcss_on_cpu>>
          \/ /\ vmcs' = [vmcs EXCEPT ![v] = "freed"]
             /\ __loaded_vmcs_clear(v, vcpu_id[v])
      BY <1>2, <2>2, Zenon DEF free_loaded_vmcs
    <3>8. launched' \in [VCPU -> BOOLEAN]
      <4>1. launched \in [VCPU -> BOOLEAN]
        BY DEF TypeInv, TypeOK
      <4>2. launched' = launched \/ launched' = [launched EXCEPT ![v] = FALSE]
        BY <3>7 DEF __loaded_vmcs_clear
      <4>3. QED BY ONLY <4>1, <4>2, Zenon
    <3>9. vmcs' \in [VCPU -> {"unused", "none", "live", "freed"}]
      BY <3>7 DEF TypeInv, TypeOK
    <3> DEFINE c == vcpu_id[v]
    <3>10. vmptr' \in [CPU -> VCPU \cup {Null}]
      <4>1. \/ vmptr' = vmptr
            \/ vmptr' = [vmptr EXCEPT ![c] = IF @ = v THEN Null ELSE @]
        BY <3>7 DEF __loaded_vmcs_clear
      <4>2. vmptr \in [CPU -> VCPU \cup {Null}]
        BY DEF TypeInv, TypeOK
      <4>3. QED BY ONLY <4>1, <4>2
    <3>11. vmcs_cpu' \in [VCPU -> CPU \cup {-1}]
      <4>1. vmcs_cpu' = vmcs_cpu \/ vmcs_cpu' = [vmcs_cpu EXCEPT ![v] = -1]
        BY <3>7 DEF __loaded_vmcs_clear
      <4>2. vmcs_cpu \in [VCPU -> CPU \cup {-1}]
        BY DEF TypeInv, TypeOK
      <4>3. QED BY ONLY <4>1, <4>2
    <3>12. current_vmcs' \in [CPU -> VCPU \cup {Null}]
      <4>1. \/ current_vmcs' = current_vmcs
            \/ current_vmcs' = [current_vmcs EXCEPT ![c] = IF @ = v THEN Null ELSE @]
        BY <3>7 DEF __loaded_vmcs_clear
      <4>2. current_vmcs \in [CPU -> VCPU \cup {Null}]
        BY DEF TypeInv, TypeOK
      <4>3. QED BY ONLY <4>1, <4>2
    <3>13. loaded_vmcss_on_cpu' \in [CPU -> SUBSET VCPU]
      <4>1. \/ loaded_vmcss_on_cpu' = loaded_vmcss_on_cpu
            \/ loaded_vmcss_on_cpu' = [loaded_vmcss_on_cpu EXCEPT ![c] = @ \ {v}]
        BY <3>7 DEF __loaded_vmcs_clear
      <4>2. loaded_vmcss_on_cpu \in [CPU -> SUBSET VCPU]
        BY DEF TypeInv, TypeOK
      <4>3. QED BY ONLY <4>1, <4>2
    <3>14. UNCHANGED <<vmxe, vmx_root, enableVars, vmVars, vcpuVars, fieldVars,
                       vpidVars, kvm, vcpu, bugcheck>>
      BY <1>2, <2>2 DEF free_loaded_vmcs
    <3>15. LocalsOK'
      BY <3>6, <3>14 DEF TypeInv, LocalsOK, Owning, Creating
    <3>16. QED
      BY <3>4, <3>5, <3>8, <3>9, <3>10, <3>11, <3>12, <3>13, <3>14, <3>15
      DEF TypeInv, TypeOK
  <2>3. QED BY <2>1, <2>2
<1>3. CASE hardware_disable_all(t, e)
  <2>1. CASE \E f \in DisableFaults(e) : BugCheck(f)
    BY <2>1, BugCheckType DEF DisableFaults, Faults
  <2>2. CASE ~\E f \in DisableFaults(e) : BugCheck(f)
    <3>1. /\ vmx_root' \in [CPU -> BOOLEAN]
          /\ vmxe' \in [CPU -> BOOLEAN]
          /\ hardware_enabled' \in [CPU -> BOOLEAN]
          /\ vpid_buf' \in BOOLEAN
      <4>1. CASE LastUser /\ hardware_enabled[e]
        <5>1. /\ vmx_root' = [c \in CPU |-> FALSE]
              /\ vmxe' = [c \in CPU |-> FALSE]
              /\ vpid_buf' = FALSE
              /\ hardware_enabled' = [hardware_enabled EXCEPT ![e] = FALSE]
          BY <1>3, <2>2, <4>1, Zenon DEF hardware_disable_all, cpu_vmxoff
        <5>2. hardware_enabled \in [CPU -> BOOLEAN]
          BY DEF TypeInv, TypeOK
        <5>3. hardware_enabled' \in [CPU -> BOOLEAN]
          BY <5>1, <5>2, Zenon
        <5>4. QED BY <5>1, <5>3, Zenon
      <4>2. CASE ~(LastUser /\ hardware_enabled[e])
        BY <1>3, <2>2, <4>2 DEF hardware_disable_all, cpu_vmxoff, TypeInv, TypeOK
      <4>3. QED BY <4>1, <4>2
    <3>2. /\ vmptr' \in [CPU -> VCPU \cup {Null}]
          /\ vms' \in [VM -> {"unused", "live", "released", "freed"}]
          /\ kvm_usage_count' \in Int
          /\ pc' \in [Thread -> ControlPoints]
          /\ LocalsOK'
      <4>1. /\ pc[t] = "disable" /\ pc' = [pc EXCEPT ![t] = "idle"]
            /\ kvm_usage_count' = kvm_usage_count - 1
            /\ vms' = [vms EXCEPT ![kvm[t]] = "released"]
            /\ UNCHANGED <<g_kvm, kvm, vcpu>>
            /\ vmptr' = vmptr \/ vmptr' = [c \in CPU |-> Null]
        BY <1>3, <2>2 DEF hardware_disable_all, cpu_vmxoff, Goto
      <4>2. vmptr' \in [CPU -> VCPU \cup {Null}]
        BY <4>1 DEF TypeInv, TypeOK
      <4>3. /\ vms' \in [VM -> {"unused", "live", "released", "freed"}]
            /\ kvm_usage_count' \in Int
        <5>1. /\ vms \in [VM -> {"unused", "live", "released", "freed"}]
              /\ kvm_usage_count \in Int
          BY DEF TypeInv, TypeOK
        <5>2. vms' = [vms EXCEPT ![kvm[t]] = "released"]
          BY <4>1
        <5>3. vms' \in [VM -> {"unused", "live", "released", "freed"}]
          BY ONLY <5>1, <5>2
        <5>4. kvm_usage_count' \in Int
          BY <4>1, <5>1
        <5>5. QED BY <5>3, <5>4
      <4>4. pc' \in [Thread -> ControlPoints]
        BY <4>1 DEF TypeInv, TypeOK, ControlPoints
      <4>5. LocalsOK'
        BY <4>1 DEF TypeInv, TypeOK, LocalsOK, Owning, Creating
      <4>6. QED BY <4>2, <4>3, <4>4, <4>5
    <3>3. QED
      BY <1>3, <2>2, <3>1, <3>2 DEF hardware_disable_all, cpu_vmxoff, TypeInv, TypeOK
  <2>3. QED BY <2>1, <2>2
<1>4. QED BY <1>1, <1>2, <1>3

LEMMA NextType == TypeInv /\ [Next]_vars => TypeInv'
<1> SUFFICES ASSUME TypeInv, [Next]_vars PROVE TypeInv'
  OBVIOUS
<1>1. CASE UNCHANGED vars
  BY <1>1 DEF vars, TypeInv, TypeOK, LocalsOK
<1>2. ASSUME NEW t \in Thread, ThreadStep(t) PROVE TypeInv'
  BY <1>2, CpuFacts, CreateVmType, AllocVcpuType, LoadVcpuType, RunType,
     ReleaseType DEF ThreadStep
<1>3. QED BY <1>1, <1>2 DEF Next, Halted

\* Every variable keeps its type, and the objects a request works on exist, at
\* every step of every request.
THEOREM TypeCorrect == Spec => []TypeOK
<1>1. TypeInv => TypeOK
  BY DEF TypeInv
<1>2. QED BY <1>1, InitType, NextType, PTL DEF Spec

-----------------------------------------------------------------------------
(***************************************************************************)
(* kvm_usage_count.  The count is right because a VM is released at most   *)
(* once: only a linked VM can be released, and a thread that has unlinked  *)
(* it is the only one that works on it.                                    *)
(***************************************************************************)
UsageInv ==
  /\ UsageCountsVms
  /\ \A t \in Thread : pc[t] \in Owning => vms[kvm[t]] = "live"
  /\ \A s, t \in Thread :
       pc[s] \in Owning /\ pc[t] \in Owning /\ s # t => kvm[s] # kvm[t]
  /\ \A t \in Thread : pc[t] \in {"link", "publish"} => kvm[t] # g_kvm
  /\ \A t \in Thread : pc[t] \in {"destroy", "disable"} => kvm[t] \notin vm_list
  /\ g_kvm # Null => vms[g_kvm] \in {"live", "released"}
  /\ \A k \in vm_list : vms[k] \in {"live", "freed"}

\* The second half of the argument: a processor in VMX operation is one the
\* driver enabled, and while a VM is counted a processor it did not enable is
\* one where it found CR4.VMXE set.
VmxInv ==
  /\ \A c \in CPU : vmx_root[c] => hardware_enabled[c]
  /\ kvm_usage_count > 0 => \A c \in CPU : hardware_enabled[c] \/ vmxe[c]
  /\ VmxOnlyWhileUsed

Counted == {k \in VM : vms[k] \in {"live", "freed"}}

LEMMA CountedFinite == IsFiniteSet(Counted) /\ Cardinality(Counted) \in Nat
<1>1. Counted \subseteq VM
  BY DEF Counted
<1>2. IsFiniteSet(Counted)
  BY <1>1, VMAssumption, FS_Subset
<1>3. QED BY <1>2, FS_CardinalityType

\* The VM kvm_create_vm allocates is counted once.
LEMMA CountAdd ==
  ASSUME TypeOK, NEW k \in VM, vms[k] = "unused",
         vms' = [vms EXCEPT ![k] = "live"]
  PROVE  Cardinality(Counted') = Cardinality(Counted) + 1
<1>1. Counted' = Counted \cup {k}
  BY DEF Counted, TypeOK
<1>2. k \notin Counted
  BY DEF Counted
<1>3. QED BY <1>1, <1>2, CountedFinite, FS_AddElement

\* The VM hardware_disable_all is called for was counted once.
LEMMA CountRemove ==
  ASSUME TypeOK, NEW k \in VM, vms[k] = "live",
         vms' = [vms EXCEPT ![k] = "released"]
  PROVE  Cardinality(Counted') = Cardinality(Counted) - 1
<1>1. Counted' = Counted \ {k}
  BY DEF Counted, TypeOK
<1>2. k \in Counted
  BY DEF Counted
<1>3. QED BY <1>1, <1>2, CountedFinite, FS_RemoveElement

\* A step that touches neither the VMs nor the count, and takes over no VM.
Quiet ==
  /\ UNCHANGED <<kvm_usage_count, vms, vm_list, g_kvm>>
  /\ \A s \in Thread :
       /\ pc'[s] \in Owning => pc[s] \in Owning /\ kvm'[s] = kvm[s]
       /\ pc'[s] \in {"link", "publish"} => pc[s] \in {"link", "publish"}
       /\ pc'[s] \in {"destroy", "disable"} => pc[s] \in {"destroy", "disable"}

LEMMA QuietUsage == UsageInv /\ Quiet => UsageInv'
  BY DEF UsageInv, UsageCountsVms, Quiet, Owning

LEMMA BugCheckQuiet == \A f : BugCheck(f) => Quiet
  BY DEF BugCheck, Quiet

\* KVM_CREATE_VCPU and KVM_RUN leave the VMs alone.
LEMMA VcpuStepsQuiet ==
  ASSUME TypeInv, NEW t \in Thread, NEW e \in CPU,
         \/ KVM_CREATE_VCPU(t) \/ reserve_vcpu(t) \/ alloc_vcpu(t)
         \/ set_vpid(t) \/ alloc_loaded_vmcs(t) \/ load_insert(t)
         \/ load_vmptrld(t) \/ load_write(t, e) \/ kvm_vcpu_reset(t, e)
         \/ store_vcpu(t) \/ KVM_RUN(t) \/ free_loaded_vmcs(t)
  PROVE  Quiet
<1> USE DEF TypeInv, TypeOK, Quiet, Owning, Goto
<1>1. CASE KVM_CREATE_VCPU(t) BY <1>1 DEF KVM_CREATE_VCPU
<1>2. CASE reserve_vcpu(t)
  <2>1. CASE g_kvm = Null BY <1>2, <2>1, BugCheckQuiet DEF reserve_vcpu
  <2>2. CASE g_kvm # Null BY <1>2, <2>2 DEF reserve_vcpu
  <2>3. QED BY <2>1, <2>2
<1>3. CASE alloc_vcpu(t) BY <1>3 DEF alloc_vcpu
<1>4. CASE set_vpid(t) BY <1>4 DEF set_vpid
<1>5. CASE alloc_loaded_vmcs(t) BY <1>5, BugCheckQuiet DEF alloc_loaded_vmcs
<1>6. CASE load_insert(t) BY <1>6 DEF load_insert
<1>7. CASE load_vmptrld(t) BY <1>7, BugCheckQuiet DEF load_vmptrld
<1>8. CASE load_write(t, e) BY <1>8, BugCheckQuiet DEF load_write
<1>9. CASE kvm_vcpu_reset(t, e) BY <1>9, BugCheckQuiet DEF kvm_vcpu_reset
<1>10. CASE store_vcpu(t) BY <1>10 DEF store_vcpu
<1>11. CASE KVM_RUN(t) BY <1>11, BugCheckQuiet DEF KVM_RUN
<1>12. CASE free_loaded_vmcs(t)
  <2>1. Quiet \/ /\ NextDestroy(t)
                 /\ UNCHANGED <<kvm_usage_count, vms, vm_list, g_kvm, kvm>>
    BY <1>12, BugCheckQuiet DEF free_loaded_vmcs
  <2>2. QED BY <2>1 DEF NextDestroy
<1>13. QED
  BY <1>1, <1>2, <1>3, <1>4, <1>5, <1>6, <1>7, <1>8, <1>9, <1>10, <1>11, <1>12

LEMMA InitUsage == Init => UsageInv
<1> SUFFICES ASSUME Init PROVE UsageInv
  OBVIOUS
<1>1. {k \in VM : vms[k] \in {"live", "freed"}} = {}
  BY DEF Init
<1>2. UsageCountsVms
  BY <1>1, FS_EmptySet DEF Init, UsageCountsVms
<1>3. QED BY <1>2 DEF UsageInv, Init, Owning

LEMMA CreateVmUsage ==
  ASSUME TypeInv, UsageInv, NEW t \in Thread, kvm_create_vm(t)
  PROVE  UsageInv'
<1>1. PICK k \in VM :
        /\ vms[k] = "unused"
        /\ pc[t] = "idle" /\ pc' = [pc EXCEPT ![t] = "link"]
        /\ kvm' = [kvm EXCEPT ![t] = k]
        /\ vms' = [vms EXCEPT ![k] = "live"]
        /\ kvm_usage_count' = kvm_usage_count + 1
        /\ UNCHANGED <<vm_list, g_kvm>>
  BY DEF kvm_create_vm, Goto
<1>2. UsageCountsVms'
  BY <1>1, CountAdd DEF UsageInv, UsageCountsVms, Counted, TypeInv
<1>3. \A s \in Thread : pc[s] \in Owning => kvm[s] \in VM /\ kvm[s] # k
  BY <1>1 DEF UsageInv, TypeInv, LocalsOK
<1>4. \A s \in Thread : pc'[s] \in Owning => vms'[kvm'[s]] = "live"
  BY <1>1, <1>3 DEF UsageInv, TypeInv, TypeOK, Owning
<1>5. \A r, s \in Thread :
        pc'[r] \in Owning /\ pc'[s] \in Owning /\ r # s => kvm'[r] # kvm'[s]
  BY <1>1, <1>3 DEF UsageInv, TypeInv, TypeOK, Owning
<1>6. g_kvm # k /\ k \notin vm_list
  BY <1>1, NullAssumption DEF UsageInv
<1>7. \A s \in Thread : pc'[s] \in {"link", "publish"} => kvm'[s] # g_kvm'
  BY <1>1, <1>6 DEF UsageInv, TypeInv, TypeOK
<1>8. \A s \in Thread :
        pc'[s] \in {"destroy", "disable"} => kvm'[s] \notin vm_list'
  BY <1>1, <1>6 DEF UsageInv, TypeInv, TypeOK
<1>9. /\ g_kvm' # Null => vms'[g_kvm'] \in {"live", "released"}
      /\ \A j \in vm_list' : vms'[j] \in {"live", "freed"}
  BY <1>1, <1>6 DEF UsageInv, TypeInv, TypeOK
<1>10. QED
  BY <1>2, <1>4, <1>5, <1>7, <1>8, <1>9 DEF UsageInv

LEMMA LinkVmUsage ==
  ASSUME TypeInv, UsageInv, NEW t \in Thread, link_vm(t)
  PROVE  UsageInv'
<1>1. CASE BugCheck("vm_list")
  BY <1>1, BugCheckQuiet, QuietUsage
<1>2. CASE ~BugCheck("vm_list")
  <2>1. /\ pc[t] = "link" /\ pc' = [pc EXCEPT ![t] = "publish"]
        /\ vm_list' = vm_list \cup {kvm[t]}
        /\ UNCHANGED <<kvm_usage_count, vms, g_kvm, kvm>>
    BY <1>2 DEF link_vm, Goto
  <2>2. UsageCountsVms'
    BY <2>1 DEF UsageInv, UsageCountsVms
  <2>3. \A s \in Thread : pc'[s] \in {"destroy", "disable"} =>
          pc[s] \in {"destroy", "disable"} /\ s # t /\ kvm[s] # kvm[t]
    BY <2>1 DEF UsageInv, TypeInv, TypeOK, Owning
  <2>4. QED
    BY <2>1, <2>2, <2>3 DEF UsageInv, TypeInv, TypeOK, Owning
<1>3. QED BY <1>1, <1>2

LEMMA PublishUsage ==
  ASSUME TypeInv, UsageInv, NEW t \in Thread, kvm_dev_ioctl_create_vm(t)
  PROVE  UsageInv'
<1>1. /\ pc[t] = "publish" /\ pc' = [pc EXCEPT ![t] = "idle"]
      /\ kvm[t] \in VM /\ vms[kvm[t]] = "live" /\ kvm[t] # g_kvm
      /\ UNCHANGED <<kvm_usage_count, vm_list, kvm>>
  BY DEF kvm_dev_ioctl_create_vm, Goto, UsageInv, TypeInv, LocalsOK, Owning
<1>2. \A s \in Thread : pc'[s] \in Owning =>
        s # t /\ pc[s] = pc'[s] /\ kvm[s] # kvm[t] /\ vms[kvm[s]] = "live"
  BY <1>1 DEF UsageInv, TypeInv, TypeOK, Owning
<1>3. CASE g_kvm' = kvm[t] /\ UNCHANGED vms
  <2>1. UsageCountsVms'
    BY <1>1, <1>3 DEF UsageInv, UsageCountsVms
  <2>2. QED BY <1>1, <1>2, <1>3, <2>1 DEF UsageInv, Owning
<1>4. CASE vms' = [vms EXCEPT ![kvm[t]] = "freed"] /\ UNCHANGED g_kvm
  <2>1. Counted' = Counted
    BY <1>1, <1>4 DEF Counted, TypeInv, TypeOK
  <2>2. UsageCountsVms'
    BY <1>1, <2>1 DEF UsageInv, UsageCountsVms, Counted
  <2>3. \A s \in Thread : pc'[s] \in Owning => vms'[kvm'[s]] = "live"
    BY <1>1, <1>2, <1>4 DEF TypeInv, TypeOK
  <2>4. /\ g_kvm' # Null => vms'[g_kvm'] \in {"live", "released"}
        /\ \A j \in vm_list' : vms'[j] \in {"live", "freed"}
    BY <1>1, <1>4 DEF UsageInv, TypeInv, TypeOK
  <2>5. QED BY <1>1, <1>2, <1>4, <2>2, <2>3, <2>4 DEF UsageInv, Owning
<1>5. QED BY <1>3, <1>4 DEF kvm_dev_ioctl_create_vm

LEMMA DestroyVmUsage ==
  ASSUME TypeInv, UsageInv, NEW t \in Thread, kvm_destroy_vm(t)
  PROVE  UsageInv'
<1>1. CASE BugCheck("null_kvm") \/ BugCheck("vm_list")
  BY <1>1, BugCheckQuiet, QuietUsage
<1>2. CASE ~(BugCheck("null_kvm") \/ BugCheck("vm_list"))
  <2>1. /\ g_kvm # Null /\ g_kvm \in vm_list
        /\ pc[t] = "idle" /\ pc' = [pc EXCEPT ![t] = "destroy"]
        /\ kvm' = [kvm EXCEPT ![t] = g_kvm]
        /\ vm_list' = vm_list \ {g_kvm}
        /\ UNCHANGED <<kvm_usage_count, vms, g_kvm>>
    BY <1>2 DEF kvm_destroy_vm, Goto, Unlinked
  <2>2. UsageCountsVms'
    BY <2>1 DEF UsageInv, UsageCountsVms
  <2>3. vms[g_kvm] = "live"
    BY <2>1 DEF UsageInv
  <2>4. \A s \in Thread : pc[s] \in Owning => kvm[s] # g_kvm
    BY <2>1 DEF UsageInv, Owning
  <2>5. QED
    BY <2>1, <2>2, <2>3, <2>4 DEF UsageInv, TypeInv, TypeOK, Owning
<1>3. QED BY <1>1, <1>2

LEMMA DisableUsage ==
  ASSUME TypeInv, UsageInv, NEW t \in Thread, NEW e \in CPU,
         hardware_disable_all(t, e)
  PROVE  UsageInv'
<1>1. CASE \E f \in DisableFaults(e) : BugCheck(f)
  BY <1>1, BugCheckQuiet, QuietUsage
<1>2. CASE ~\E f \in DisableFaults(e) : BugCheck(f)
  <2>1. /\ pc[t] = "disable" /\ pc' = [pc EXCEPT ![t] = "idle"]
        /\ kvm_usage_count' = kvm_usage_count - 1
        /\ vms' = [vms EXCEPT ![kvm[t]] = "released"]
        /\ UNCHANGED <<vm_list, g_kvm, kvm>>
    BY <1>2 DEF hardware_disable_all, cpu_vmxoff, Goto
  <2>2. kvm[t] \in VM /\ vms[kvm[t]] = "live" /\ kvm[t] \notin vm_list
    BY <2>1 DEF UsageInv, TypeInv, LocalsOK, Owning
  <2>3. UsageCountsVms'
    BY <2>1, <2>2, CountRemove DEF UsageInv, UsageCountsVms, Counted, TypeInv
  <2>4. \A s \in Thread : pc'[s] \in Owning =>
          s # t /\ pc[s] = pc'[s] /\ kvm[s] # kvm[t] /\ vms[kvm[s]] = "live"
    BY <2>1 DEF UsageInv, TypeInv, TypeOK, Owning
  <2>5. \A s \in Thread : pc'[s] \in Owning => vms'[kvm'[s]] = "live"
    BY <2>1, <2>4 DEF TypeInv, TypeOK
  <2>6. /\ g_kvm' # Null => vms'[g_kvm'] \in {"live", "released"}
        /\ \A j \in vm_list' : vms'[j] \in {"live", "freed"}
    BY <2>1, <2>2 DEF UsageInv, TypeInv, TypeOK
  <2>7. QED BY <2>1, <2>3, <2>4, <2>5, <2>6 DEF UsageInv, Owning
<1>3. QED BY <1>1, <1>2

LEMMA NextUsage == TypeInv /\ UsageInv /\ [Next]_vars => UsageInv'
<1> SUFFICES ASSUME TypeInv, UsageInv, [Next]_vars PROVE UsageInv'
  OBVIOUS
<1>1. CASE UNCHANGED vars
  BY <1>1, QuietUsage DEF vars, Quiet
<1>2. ASSUME NEW t \in Thread, ThreadStep(t) PROVE UsageInv'
  BY <1>2, CpuFacts, CreateVmUsage, LinkVmUsage, PublishUsage, DestroyVmUsage,
     DisableUsage, VcpuStepsQuiet, QuietUsage DEF ThreadStep
<1>3. QED BY <1>1, <1>2 DEF Next, Halted

\* Whatever requests the threads interleave, kvm_usage_count (incremented by
\* hardware_enable_all, decremented by hardware_disable_all) is the number of
\* VMs created and not released: no release is counted twice or lost.
THEOREM UsageCorrect == Spec => []UsageCountsVms
<1>1. UsageInv => UsageCountsVms
  BY DEF UsageInv
<1>2. TypeInv /\ UsageInv /\ [Next]_vars => (TypeInv /\ UsageInv)'
  BY NextType, NextUsage
<1>3. QED BY <1>1, <1>2, InitType, InitUsage, PTL DEF Spec

LEMMA UsageNat == UsageInv => kvm_usage_count \in Nat
  BY CountedFinite DEF UsageInv, UsageCountsVms, Counted

\* A step that leaves VMX operation and the count alone.
VmxQuiet == UNCHANGED <<kvm_usage_count, hardware_enabled, vmxe, vmx_root>>

LEMMA VmxQuietInv == VmxInv /\ VmxQuiet => VmxInv'
  BY DEF VmxInv, VmxOnlyWhileUsed, VmxQuiet

LEMMA EnableVmx ==
  ASSUME TypeInv, UsageInv, VmxInv, NEW t \in Thread, kvm_create_vm(t)
  PROVE  VmxInv'
<1>1. kvm_usage_count \in Nat /\ kvm_usage_count' = kvm_usage_count + 1
  BY UsageNat DEF kvm_create_vm
<1>2. VmxOnlyWhileUsed'
  BY <1>1 DEF VmxOnlyWhileUsed
<1>3. CASE kvm_usage_count = 0
  <2>1. /\ hardware_enabled' = [c \in CPU |-> hardware_enabled[c] \/ Enables(c)]
        /\ vmxe' = [c \in CPU |-> vmxe[c] \/ Enables(c)]
        /\ vmx_root' = [c \in CPU |-> vmx_root[c] \/ Enables(c)]
    BY <1>3 DEF kvm_create_vm
  <2>2. \A c \in CPU : /\ vmx_root'[c] => hardware_enabled'[c]
                       /\ hardware_enabled'[c] \/ vmxe'[c]
    BY <2>1, Zenon DEF VmxInv, Enables
  <2>3. QED BY <1>2, <2>2 DEF VmxInv
<1>4. CASE kvm_usage_count # 0
  <2>1. UNCHANGED <<hardware_enabled, vmxe, vmx_root>> /\ kvm_usage_count > 0
    BY <1>1, <1>4 DEF kvm_create_vm
  <2>2. QED BY <1>2, <2>1 DEF VmxInv
<1>5. QED BY <1>3, <1>4

LEMMA DisableVmx ==
  ASSUME TypeInv, UsageInv, VmxInv, NEW t \in Thread, NEW e \in CPU,
         hardware_disable_all(t, e)
  PROVE  VmxInv'
<1>1. CASE \E f \in DisableFaults(e) : BugCheck(f)
  BY <1>1, VmxQuietInv DEF BugCheck, VmxQuiet
<1>2. CASE ~\E f \in DisableFaults(e) : BugCheck(f)
  <2>1. kvm_usage_count' = kvm_usage_count - 1 /\ kvm_usage_count \in Nat
    BY <1>2, UsageNat DEF hardware_disable_all, cpu_vmxoff
  <2>2. CASE LastUser /\ hardware_enabled[e]
    <3>1. \A c \in CPU : ~vmx_root'[c]
      BY <1>2, <2>2, Zenon DEF hardware_disable_all, cpu_vmxoff
    <3>2. kvm_usage_count' = 0
      BY <2>1, <2>2 DEF LastUser
    <3>3. QED BY <3>1, <3>2 DEF VmxInv, VmxOnlyWhileUsed
  <2>3. CASE ~(LastUser /\ hardware_enabled[e])
    <3>1. UNCHANGED <<vmxe, vmx_root, hardware_enabled>>
      BY <1>2, <2>3 DEF hardware_disable_all, cpu_vmxoff
    <3>2. CASE LastUser
      <4>1. kvm_usage_count' = 0 /\ kvm_usage_count > 0
        BY <2>1, <3>2 DEF LastUser
      <4>2. vmxe[e] /\ ~vmx_root[e]
        BY <2>3, <3>2, <4>1 DEF VmxInv
      <4>3. QED BY <3>1, <4>1, <4>2 DEF VmxInv, VmxOnlyWhileUsed
    <3>3. CASE ~LastUser
      <4>1. kvm_usage_count' # 0
        BY <2>1, <3>3 DEF LastUser
      <4>2. kvm_usage_count' > 0 => kvm_usage_count > 0
        BY <2>1
      <4>3. QED BY <3>1, <4>1, <4>2 DEF VmxInv, VmxOnlyWhileUsed
    <3>4. QED BY <3>2, <3>3
  <2>4. QED BY <2>2, <2>3
<1>3. QED BY <1>1, <1>2

LEMMA OtherStepsVmxQuiet ==
  ASSUME NEW t \in Thread, NEW e \in CPU,
         \/ link_vm(t) \/ kvm_dev_ioctl_create_vm(t)
         \/ KVM_CREATE_VCPU(t) \/ reserve_vcpu(t) \/ alloc_vcpu(t)
         \/ set_vpid(t) \/ alloc_loaded_vmcs(t) \/ load_insert(t)
         \/ load_vmptrld(t) \/ load_write(t, e) \/ kvm_vcpu_reset(t, e)
         \/ store_vcpu(t) \/ KVM_RUN(t) \/ kvm_destroy_vm(t)
         \/ free_loaded_vmcs(t)
  PROVE  VmxQuiet
<1> USE DEF VmxQuiet, BugCheck
<1>1. CASE link_vm(t) \/ kvm_dev_ioctl_create_vm(t) \/ KVM_CREATE_VCPU(t)
  BY <1>1 DEF link_vm, kvm_dev_ioctl_create_vm, KVM_CREATE_VCPU
<1>2. CASE reserve_vcpu(t) \/ alloc_vcpu(t) \/ set_vpid(t)
  BY <1>2 DEF reserve_vcpu, alloc_vcpu, set_vpid
<1>3. CASE alloc_loaded_vmcs(t) \/ load_insert(t) \/ load_vmptrld(t)
  BY <1>3 DEF alloc_loaded_vmcs, load_insert, load_vmptrld
<1>4. CASE load_write(t, e) \/ kvm_vcpu_reset(t, e) \/ store_vcpu(t)
  BY <1>4 DEF load_write, kvm_vcpu_reset, store_vcpu
<1>5. CASE KVM_RUN(t) BY <1>5 DEF KVM_RUN
<1>6. CASE kvm_destroy_vm(t) \/ free_loaded_vmcs(t)
  BY <1>6 DEF kvm_destroy_vm, free_loaded_vmcs
<1>7. QED BY <1>1, <1>2, <1>3, <1>4, <1>5, <1>6

LEMMA NextVmx == TypeInv /\ UsageInv /\ VmxInv /\ [Next]_vars => VmxInv'
<1> SUFFICES ASSUME TypeInv, UsageInv, VmxInv, [Next]_vars PROVE VmxInv'
  OBVIOUS
<1>1. CASE UNCHANGED vars
  BY <1>1, VmxQuietInv DEF vars, VmxQuiet
<1>2. ASSUME NEW t \in Thread, ThreadStep(t) PROVE VmxInv'
  BY <1>2, CpuFacts, EnableVmx, DisableVmx, OtherStepsVmxQuiet, VmxQuietInv
  DEF ThreadStep
<1>3. QED BY <1>1, <1>2 DEF Next, Halted

\* Once the last VM is released no processor stays in VMX operation, for any
\* number of processors and on whichever of them hardware_disable_all runs,
\* unless some processor had CR4.VMXE set before the driver came.
THEOREM VmxOffCorrect == Spec => []VmxOnlyWhileUsed
<1>1. Init => VmxInv
  BY DEF Init, VmxInv, VmxOnlyWhileUsed
<1>2. VmxInv => VmxOnlyWhileUsed
  BY DEF VmxInv
<1>3. TypeInv /\ UsageInv /\ VmxInv /\ [Next]_vars
        => (TypeInv /\ UsageInv /\ VmxInv)'
  BY NextType, NextUsage, NextVmx
<1>4. QED BY <1>1, <1>2, <1>3, InitType, InitUsage, PTL DEF Spec

-----------------------------------------------------------------------------
(***************************************************************************)
(* Which VMCS is loaded where, and how many vCPUs a VM has.                *)
(***************************************************************************)

\* Control points of kvm_vm_ioctl_create_vcpu before the VMCS is allocated,
\* before its cpu field is set, and after.
Early == {"vpid", "vmcs"}
Middle == {"insert", "vmptrld", "load"}
Late == {"reset", "store"}

\* The vCPU a thread creates is its own: in no array and with no other thread.
CreatingInv ==
  \A t \in Thread :
    /\ pc[t] \in Creating =>
         /\ vcpu_id[vcpu[t]] = id[t] /\ vcpu_kvm[vcpu[t]] = kvm[t]
         /\ \A k \in VM, i \in CPU : vcpu_array[k][i] # vcpu[t]
         /\ \A s \in Thread : pc[s] \in Creating /\ s # t => vcpu[s] # vcpu[t]
    /\ pc[t] \in Early => vmcs[vcpu[t]] = "none"
    /\ pc[t] \in Middle \cup Late => vmcs[vcpu[t]] = "live"
    /\ pc[t] \in Early \cup Middle => vmcs_cpu[vcpu[t]] = -1
    /\ pc[t] \in Late => vmcs_cpu[vcpu[t]] # -1

\* A vCPU in a vcpu_array is at its own index, loaded there until it is freed.
StoredInv ==
  \A k \in VM, i \in CPU, v \in VCPU :
    vcpu_array[k][i] = v =>
      /\ vcpu_id[v] = i /\ vcpu_kvm[v] = k
      /\ vmcs[v] \in {"live", "freed"}
      /\ vmcs[v] = "live" => vmcs_cpu[v] # -1

\* A VMCS is loaded and current on no processor but that of its vCPU.
HomeInv ==
  /\ \A v \in VCPU : vmcs_cpu[v] \in {-1, vcpu_id[v]}
  /\ \A c \in CPU, v \in VCPU :
       vmptr[c] = v \/ current_vmcs[c] = v => vmcs[v] = "live" /\ vcpu_id[v] = c

\* An object that is not in use yet belongs to no VM; cpu is -1 until a VMCS
\* exists.
UnusedInv ==
  \A v \in VCPU : /\ vmcs[v] = "unused" <=> vcpu_kvm[v] = Null
                  /\ vmcs[v] \in {"unused", "none"} => vmcs_cpu[v] = -1

VmcsInv == CreatingInv /\ StoredInv /\ HomeInv /\ UnusedInv

\* vCPUs created for VM k, and threads about to create one.
Made(k) == {v \in VCPU : vcpu_kvm[v] = k}
Reserving(k) == {t \in Thread : pc[t] = "alloc" /\ kvm[t] = k}

\* created_vcpus counts both, and at most one vCPU for each processor.
CountInv ==
  \A k \in VM :
    /\ IsFiniteSet(Made(k)) /\ IsFiniteSet(Reserving(k))
    /\ Cardinality(Made(k)) + Cardinality(Reserving(k)) <= created_vcpus[k]
    /\ created_vcpus[k] <= N

-----------------------------------------------------------------------------
(***************************************************************************)
(* A step that moves no VMCS: it touches neither the VMCSs nor the arrays, *)
(* leaves current_vmcs alone, makes no VMCS current, and no thread comes   *)
(* closer to the end of a creation than within its stage.                  *)
(***************************************************************************)
VmcsQuiet ==
  /\ UNCHANGED <<vmcs, vcpu_kvm, vcpu_id, vmcs_cpu, vcpu_array, current_vmcs>>
  /\ \A c \in CPU : vmptr'[c] \in {vmptr[c], Null}
  /\ \A s \in Thread :
       /\ pc'[s] \in Early => pc[s] \in Early
       /\ pc'[s] \in Middle => pc[s] \in Middle
       /\ pc'[s] \in Late => pc[s] \in Late
       /\ pc'[s] \in Creating =>
            kvm'[s] = kvm[s] /\ id'[s] = id[s] /\ vcpu'[s] = vcpu[s]

\* The three stages make up the creation of a vCPU.
LEMMA Stages ==
  /\ Creating = Early \cup Middle \cup Late
  /\ Early \cap Middle = {} /\ Early \cap Late = {} /\ Middle \cap Late = {}
  BY DEF Creating, Early, Middle, Late

\* Such a step preserves the invariant.
LEMMA QuietVmcs == TypeInv /\ VmcsInv /\ VmcsQuiet => VmcsInv'
<1> SUFFICES ASSUME TypeInv, VmcsInv, VmcsQuiet PROVE VmcsInv'
  OBVIOUS
<1>1. CreatingInv'
  <2>1. \A s \in Thread : pc'[s] \in Creating => pc[s] \in Creating
    BY Stages DEF VmcsQuiet
  <2> SUFFICES ASSUME NEW t \in Thread
               PROVE  /\ pc'[t] \in Creating =>
                           /\ vcpu_id'[vcpu'[t]] = id'[t]
                           /\ vcpu_kvm'[vcpu'[t]] = kvm'[t]
                           /\ \A k \in VM, i \in CPU : vcpu_array'[k][i] # vcpu'[t]
                           /\ \A s \in Thread :
                                pc'[s] \in Creating /\ s # t => vcpu'[s] # vcpu'[t]
                      /\ pc'[t] \in Early => vmcs'[vcpu'[t]] = "none"
                      /\ pc'[t] \in Middle \cup Late => vmcs'[vcpu'[t]] = "live"
                      /\ pc'[t] \in Early \cup Middle => vmcs_cpu'[vcpu'[t]] = -1
                      /\ pc'[t] \in Late => vmcs_cpu'[vcpu'[t]] # -1
    BY DEF CreatingInv
  <2>2. CASE pc'[t] \in Creating
    BY <2>1, <2>2, Stages DEF VmcsQuiet, VmcsInv, CreatingInv
  <2>3. CASE pc'[t] \notin Creating
    BY <2>3, Stages
  <2>4. QED BY <2>2, <2>3
<1>2. StoredInv' /\ UnusedInv'
  BY DEF VmcsQuiet, VmcsInv, StoredInv, UnusedInv
<1>3. HomeInv'
  BY NullAssumption DEF VmcsQuiet, VmcsInv, HomeInv
<1>4. QED BY <1>1, <1>2, <1>3 DEF VmcsInv

LEMMA BugCheckVmcsQuiet == TypeOK => \A f : BugCheck(f) => VmcsQuiet
  BY DEF BugCheck, VmcsQuiet, TypeOK

\* The requests move VMCSs in the steps treated one by one below, in no other.
LEMMA OtherStepsVmcsQuiet ==
  ASSUME TypeInv, NEW t \in Thread, NEW e \in CPU,
         \/ kvm_create_vm(t) \/ link_vm(t) \/ kvm_dev_ioctl_create_vm(t)
         \/ KVM_CREATE_VCPU(t) \/ reserve_vcpu(t) \/ set_vpid(t)
         \/ kvm_vcpu_reset(t, e) \/ kvm_destroy_vm(t)
         \/ hardware_disable_all(t, e)
  PROVE  VmcsQuiet
<1> USE DEF TypeInv, TypeOK, VmcsQuiet, Creating, Early, Middle, Late, Goto
<1>1. CASE kvm_create_vm(t) BY <1>1 DEF kvm_create_vm
<1>2. CASE link_vm(t) BY <1>2, BugCheckVmcsQuiet DEF link_vm
<1>3. CASE kvm_dev_ioctl_create_vm(t) BY <1>3 DEF kvm_dev_ioctl_create_vm
<1>4. CASE KVM_CREATE_VCPU(t) BY <1>4 DEF KVM_CREATE_VCPU
<1>5. CASE reserve_vcpu(t)
  <2>1. CASE g_kvm = Null BY <1>5, <2>1, BugCheckVmcsQuiet DEF reserve_vcpu
  <2>2. CASE g_kvm # Null BY <1>5, <2>2 DEF reserve_vcpu
  <2>3. QED BY <2>1, <2>2
<1>6. CASE set_vpid(t) BY <1>6 DEF set_vpid
<1>7. CASE kvm_vcpu_reset(t, e) BY <1>7, BugCheckVmcsQuiet DEF kvm_vcpu_reset
<1>8. CASE kvm_destroy_vm(t) BY <1>8, BugCheckVmcsQuiet DEF kvm_destroy_vm
<1>9. CASE hardware_disable_all(t, e)
  <2>1. CASE \E f \in DisableFaults(e) : BugCheck(f)
    BY <2>1, BugCheckVmcsQuiet
  <2>2. CASE ~\E f \in DisableFaults(e) : BugCheck(f)
    <3>1. \/ UNCHANGED vmptr
          \/ vmptr' = [c \in CPU |-> Null]
      BY <1>9, <2>2 DEF hardware_disable_all, cpu_vmxoff
    <3>2. \A c \in CPU : vmptr'[c] \in {vmptr[c], Null}
      BY <3>1
    <3>3. pc' = [pc EXCEPT ![t] = "idle"]
          /\ UNCHANGED <<vmcs, vcpu_kvm, vcpu_id, vmcs_cpu, vcpu_array,
                         current_vmcs, kvm, id, vcpu>>
      BY <1>9, <2>2 DEF hardware_disable_all
    <3>4. QED BY <3>2, <3>3
  <2>3. QED BY <2>1, <2>2
<1>10. QED
  BY <1>1, <1>2, <1>3, <1>4, <1>5, <1>6, <1>7, <1>8, <1>9

\* kvm_vcpu_init makes an unused vCPU the thread's own.
LEMMA AllocVcpuVmcs ==
  ASSUME TypeInv, VmcsInv, NEW t \in Thread, alloc_vcpu(t)
  PROVE  VmcsInv'
<1>1. CASE vmcs' = vmcs
  <2>1. VmcsQuiet
    BY <1>1 DEF alloc_vcpu, VmcsQuiet, TypeInv, TypeOK, Creating, Early, Middle,
                Late, Goto
  <2>2. QED BY <2>1, QuietVmcs
<1>2. CASE vmcs' # vmcs
  <2>1. PICK v \in VCPU :
          /\ vmcs[v] = "unused"
          /\ pc' = [pc EXCEPT ![t] = "vpid"]
          /\ vcpu' = [vcpu EXCEPT ![t] = v]
          /\ vmcs' = [vmcs EXCEPT ![v] = "none"]
          /\ vcpu_kvm' = [vcpu_kvm EXCEPT ![v] = kvm[t]]
          /\ vcpu_id' = [vcpu_id EXCEPT ![v] = id[t]]
    BY <1>2 DEF alloc_vcpu, Goto
  <2>2. /\ pc[t] = "alloc"
        /\ UNCHANGED <<vmptr, vcpu_array, vmcs_cpu, current_vmcs, kvm, id>>
    BY DEF alloc_vcpu
  <2>3. /\ vmcs_cpu[v] = -1 /\ vcpu_kvm[v] = Null
        /\ \A k \in VM, i \in CPU : vcpu_array[k][i] # v
        /\ \A c \in CPU : vmptr[c] # v /\ current_vmcs[c] # v
    BY <2>1 DEF VmcsInv, UnusedInv, StoredInv, HomeInv
  <2>4. \A s \in Thread : pc[s] \in Creating => vcpu[s] # v
    BY <2>1, Stages DEF VmcsInv, CreatingInv
  <2>5. CreatingInv'
    <3>1. ASSUME NEW s \in Thread, s # t
          PROVE  pc'[s] = pc[s] /\ vcpu'[s] = vcpu[s]
      BY <2>1, <3>1 DEF TypeInv, TypeOK
    <3>2. pc'[t] = "vpid" /\ vcpu'[t] = v
      BY <2>1 DEF TypeInv, TypeOK
    <3>3. /\ vcpu_id'[v] = id[t] /\ vcpu_kvm'[v] = kvm[t] /\ vmcs'[v] = "none"
          /\ \A w \in VCPU : w # v => /\ vcpu_id'[w] = vcpu_id[w]
                                      /\ vcpu_kvm'[w] = vcpu_kvm[w]
                                      /\ vmcs'[w] = vmcs[w]
      BY <2>1 DEF TypeInv, TypeOK
    <3>4. \A s \in Thread : pc[s] \in Creating => vcpu[s] \in VCPU
      BY DEF TypeInv, LocalsOK
    <3>5. "vpid" \in Early /\ "vpid" \in Creating
          /\ "vpid" \notin Middle /\ "vpid" \notin Late
      BY DEF Early, Middle, Late, Creating
    <3> HIDE DEF Creating, Early, Middle, Late
    <3>6. CreatingInv
      BY DEF VmcsInv
    <3>7. QED
      BY <2>2, <2>3, <2>4, <3>1, <3>2, <3>3, <3>4, <3>5, <3>6, Stages
      DEF CreatingInv
  <2>6. StoredInv'
    <3>1. \A w \in VCPU : w # v => /\ vcpu_id'[w] = vcpu_id[w]
                                  /\ vcpu_kvm'[w] = vcpu_kvm[w]
                                  /\ vmcs'[w] = vmcs[w]
      BY <2>1 DEF TypeInv, TypeOK
    <3>2. QED BY <2>2, <2>3, <3>1 DEF VmcsInv, StoredInv
  <2>7. HomeInv'
    <3>1. \A w \in VCPU : vmcs_cpu[w] \in {-1, vcpu_id'[w]}
      BY <2>1, <2>3 DEF VmcsInv, HomeInv, TypeInv, TypeOK
    <3>2. ASSUME NEW c \in CPU, NEW w \in VCPU, vmptr[c] = w \/ current_vmcs[c] = w
          PROVE  vmcs'[w] = "live" /\ vcpu_id'[w] = c
      BY <2>1, <2>3, <3>2 DEF VmcsInv, HomeInv, TypeInv, TypeOK
    <3>3. QED BY <2>2, <3>1, <3>2 DEF HomeInv
  <2>8. UnusedInv'
    <3>1. kvm[t] # Null
      BY <2>2, NullAssumption DEF TypeInv, LocalsOK
    <3>2. QED BY <2>1, <2>2, <2>3, <3>1 DEF VmcsInv, UnusedInv, TypeInv, TypeOK
  <2>9. QED BY <2>5, <2>6, <2>7, <2>8 DEF VmcsInv
<1>3. QED BY <1>1, <1>2

\* The other threads, and the vCPUs that are not the thread's own.
LEMMA OwnVcpu ==
  ASSUME TypeInv, VmcsInv, NEW t \in Thread, pc[t] \in Creating
  PROVE  /\ vcpu[t] \in VCPU /\ kvm[t] \in VM /\ id[t] \in CPU
         /\ vcpu_id[vcpu[t]] = id[t] /\ vcpu_kvm[vcpu[t]] = kvm[t]
         /\ vmcs[vcpu[t]] # "unused"
         /\ \A k \in VM, i \in CPU : vcpu_array[k][i] # vcpu[t]
         /\ \A s \in Thread :
              pc[s] \in Creating /\ s # t => vcpu[s] \in VCPU \ {vcpu[t]}
<1>1. vcpu[t] \in VCPU /\ kvm[t] \in VM /\ id[t] \in CPU
  BY DEF TypeInv, TypeOK, LocalsOK
<1>2. vmcs[vcpu[t]] # "unused"
  BY Stages DEF VmcsInv, CreatingInv
<1>3. \A s \in Thread : pc[s] \in Creating => vcpu[s] \in VCPU
  BY DEF TypeInv, LocalsOK
<1>4. QED BY <1>1, <1>2, <1>3 DEF VmcsInv, CreatingInv

\* A step of t to the control point p of its creation that leaves the vCPUs of
\* the others alone keeps CreatingInv if it does so for t.
LEMMA CreatingStep ==
  ASSUME TypeInv, VmcsInv, NEW t \in Thread, pc[t] \in Creating,
         NEW p \in Creating, pc' = [pc EXCEPT ![t] = p],
         UNCHANGED <<kvm, id, vcpu, vcpu_id, vcpu_kvm, vcpu_array>>,
         \A v \in VCPU \ {vcpu[t]} : vmcs'[v] = vmcs[v] /\ vmcs_cpu'[v] = vmcs_cpu[v],
         p \in Early => vmcs'[vcpu[t]] = "none",
         p \in Middle \cup Late => vmcs'[vcpu[t]] = "live",
         p \in Early \cup Middle => vmcs_cpu'[vcpu[t]] = -1,
         p \in Late => vmcs_cpu'[vcpu[t]] # -1
  PROVE  CreatingInv'
<1> SUFFICES ASSUME NEW s \in Thread
             PROVE  /\ pc'[s] \in Creating =>
                         /\ vcpu_id'[vcpu'[s]] = id'[s]
                         /\ vcpu_kvm'[vcpu'[s]] = kvm'[s]
                         /\ \A k \in VM, i \in CPU : vcpu_array'[k][i] # vcpu'[s]
                         /\ \A r \in Thread :
                              pc'[r] \in Creating /\ r # s => vcpu'[r] # vcpu'[s]
                    /\ pc'[s] \in Early => vmcs'[vcpu'[s]] = "none"
                    /\ pc'[s] \in Middle \cup Late => vmcs'[vcpu'[s]] = "live"
                    /\ pc'[s] \in Early \cup Middle => vmcs_cpu'[vcpu'[s]] = -1
                    /\ pc'[s] \in Late => vmcs_cpu'[vcpu'[s]] # -1
  BY DEF CreatingInv
<1>1. pc'[t] = p /\ \A r \in Thread : r # t => pc'[r] = pc[r]
  BY DEF TypeInv, TypeOK
<1>2. \A r \in Thread : pc'[r] \in Creating => pc[r] \in Creating
  BY <1>1
<1>3. CreatingInv
  BY DEF VmcsInv
<1>4. CASE s = t
  BY <1>1, <1>2, <1>3, <1>4, OwnVcpu DEF CreatingInv
<1>5. CASE s # t /\ pc'[s] \in Creating
  <2>1. pc[s] = pc'[s] /\ pc[s] \in Creating /\ vcpu[s] \in VCPU \ {vcpu[t]}
    BY <1>1, <1>5, OwnVcpu
  <2>2. QED BY <1>2, <1>3, <2>1 DEF CreatingInv
<1>6. CASE s # t /\ pc'[s] \notin Creating
  BY <1>6, Stages
<1>7. QED BY <1>4, <1>5, <1>6

\* alloc_loaded_vmcs.
LEMMA AllocVmcsVmcs ==
  ASSUME TypeInv, VmcsInv, NEW t \in Thread, alloc_loaded_vmcs(t)
  PROVE  VmcsInv'
<1>1. CASE BugCheck("ud_vmclear") \/ BugCheck("null_vmcs")
  BY <1>1, BugCheckVmcsQuiet, QuietVmcs DEF TypeInv
<1>2. CASE ~(BugCheck("ud_vmclear") \/ BugCheck("null_vmcs"))
  <2> DEFINE v == vcpu[t]
  <2>1. /\ pc[t] = "vmcs" /\ pc' = [pc EXCEPT ![t] = "insert"]
        /\ vmcs' = [vmcs EXCEPT ![v] = "live"]
        /\ vmcs_cpu' = [vmcs_cpu EXCEPT ![v] = -1]
        /\ UNCHANGED <<kvm, id, vcpu, vcpu_id, vcpu_kvm, vcpu_array, vmptr,
                       current_vmcs>>
    BY <1>2 DEF alloc_loaded_vmcs, Goto
  <2>2. /\ pc[t] \in Creating /\ "insert" \in Creating /\ "insert" \in Middle
        /\ "insert" \notin Early /\ "insert" \notin Late
    BY <2>1 DEF Creating, Middle, Early, Late
  <2>3. v \in VCPU /\ \A k \in VM, i \in CPU : vcpu_array[k][i] # v
    BY <2>2, OwnVcpu
  <2> HIDE DEF v
  <2>4. /\ vmcs'[v] = "live" /\ vmcs_cpu'[v] = -1
        /\ \A w \in VCPU \ {v} : vmcs'[w] = vmcs[w] /\ vmcs_cpu'[w] = vmcs_cpu[w]
    BY <2>1, <2>3 DEF TypeInv, TypeOK
  <2>5. CreatingInv'
    BY <2>1, <2>2, <2>4, CreatingStep DEF v
  <2>6. StoredInv'
    BY <2>1, <2>3, <2>4 DEF VmcsInv, StoredInv
  <2>7. HomeInv'
    BY <2>1, <2>3, <2>4 DEF VmcsInv, HomeInv
  <2>8. UnusedInv'
    <3>1. vmcs[v] # "unused"
      BY <2>2, OwnVcpu DEF v
    <3>2. QED BY <2>1, <2>4, <3>1 DEF VmcsInv, UnusedInv
  <2>9. QED BY <2>5, <2>6, <2>7, <2>8 DEF VmcsInv
<1>3. QED BY <1>1, <1>2

\* vmx_vcpu_load_vmcs.
LEMMA LoadVmcs ==
  ASSUME TypeInv, VmcsInv, NEW t \in Thread, NEW e \in CPU,
         load_insert(t) \/ load_vmptrld(t) \/ load_write(t, e)
  PROVE  VmcsInv'
<1> DEFINE v == vcpu[t]
<1>1. CASE load_insert(t)
  <2>1. /\ pc[t] = "insert" /\ pc' = [pc EXCEPT ![t] = "vmptrld"]
        /\ current_vmcs' = [current_vmcs EXCEPT ![id[t]] = v]
        /\ UNCHANGED <<kvm, id, vcpu, vcpu_id, vcpu_kvm, vcpu_array, vmptr,
                       vmcs, vmcs_cpu>>
    BY <1>1 DEF load_insert, Goto
  <2>2. /\ pc[t] \in Creating /\ "vmptrld" \in Creating
        /\ pc[t] \in Middle /\ "vmptrld" \notin Early /\ "vmptrld" \notin Late
    BY <2>1 DEF Creating, Middle, Early, Late
  <2>3. v \in VCPU /\ vmcs[v] = "live" /\ vmcs_cpu[v] = -1 /\ vcpu_id[v] = id[t]
    BY <2>2, OwnVcpu DEF VmcsInv, CreatingInv
  <2> HIDE DEF v
  <2>4. CreatingInv'
    BY <2>1, <2>2, <2>3, CreatingStep DEF v
  <2>5. StoredInv' /\ UnusedInv'
    BY <2>1 DEF VmcsInv, StoredInv, UnusedInv
  <2>6. HomeInv'
    BY <2>1, <2>3 DEF VmcsInv, HomeInv, TypeInv, TypeOK
  <2>7. QED BY <2>4, <2>5, <2>6 DEF VmcsInv
<1>2. CASE load_vmptrld(t)
  <2>1. CASE ~vmx_root[LoadTarget(t)]
    BY <1>2, <2>1, BugCheckVmcsQuiet, QuietVmcs DEF load_vmptrld, TypeInv
  <2>2. CASE vmx_root[LoadTarget(t)]
    <3>1. /\ pc[t] = "vmptrld" /\ pc' = [pc EXCEPT ![t] = "load"]
          /\ vmptr' = [vmptr EXCEPT ![vcpu_id[v]] = v]
          /\ UNCHANGED <<kvm, id, vcpu, vcpu_id, vcpu_kvm, vcpu_array,
                         current_vmcs, vmcs, vmcs_cpu>>
      BY <1>2, <2>2 DEF load_vmptrld, LoadTarget, Goto
    <3>2. /\ pc[t] \in Creating /\ "load" \in Creating
          /\ pc[t] \in Middle /\ "load" \notin Early /\ "load" \notin Late
      BY <3>1 DEF Creating, Middle, Early, Late
    <3>3. v \in VCPU /\ vmcs[v] = "live" /\ vmcs_cpu[v] = -1
      BY <3>2, OwnVcpu DEF VmcsInv, CreatingInv
    <3> HIDE DEF v
    <3>4. CreatingInv'
      BY <3>1, <3>2, <3>3, CreatingStep DEF v
    <3>5. StoredInv' /\ UnusedInv'
      BY <3>1 DEF VmcsInv, StoredInv, UnusedInv
    <3>6. HomeInv'
      BY <3>1, <3>3 DEF VmcsInv, HomeInv, TypeInv, TypeOK
    <3>7. QED BY <3>4, <3>5, <3>6 DEF VmcsInv
  <2>3. QED BY <2>1, <2>2
<1>3. CASE load_write(t, e)
  <2>1. CASE ~vmx_root[e]
    BY <1>3, <2>1, BugCheckVmcsQuiet, QuietVmcs DEF load_write, TypeInv
  <2>2. CASE vmx_root[e]
    <3>1. /\ pc[t] = "load" /\ pc' = [pc EXCEPT ![t] = "reset"]
          /\ vmcs_cpu' = [vmcs_cpu EXCEPT ![v] = id[t]]
          /\ UNCHANGED <<kvm, id, vcpu, vcpu_id, vcpu_kvm, vcpu_array,
                         current_vmcs, vmptr, vmcs>>
      BY <1>3, <2>2 DEF load_write, Goto
    <3>2. /\ pc[t] \in Creating /\ "reset" \in Creating
          /\ pc[t] \in Middle /\ "reset" \notin Early /\ "reset" \notin Middle
      BY <3>1 DEF Creating, Middle, Early, Late
    <3>3. /\ v \in VCPU /\ vmcs[v] = "live" /\ vcpu_id[v] = id[t]
          /\ id[t] \in CPU /\ id[t] # -1
          /\ \A k \in VM, i \in CPU : vcpu_array[k][i] # v
      BY <3>2, OwnVcpu, CpuFacts DEF VmcsInv, CreatingInv
    <3> HIDE DEF v
    <3>4. /\ vmcs_cpu'[v] = id[t]
          /\ \A w \in VCPU \ {v} : vmcs_cpu'[w] = vmcs_cpu[w]
      BY <3>1, <3>3 DEF TypeInv, TypeOK
    <3>5. CreatingInv'
      BY <3>1, <3>2, <3>3, <3>4, CreatingStep DEF v
    <3>6. StoredInv'
      BY <3>1, <3>3, <3>4 DEF VmcsInv, StoredInv
    <3>7. HomeInv'
      BY <3>1, <3>3, <3>4 DEF VmcsInv, HomeInv
    <3>8. UnusedInv'
      BY <3>1, <3>3, <3>4 DEF VmcsInv, UnusedInv
    <3>9. QED BY <3>5, <3>6, <3>7, <3>8 DEF VmcsInv
  <2>3. QED BY <2>1, <2>2
<1>4. QED BY <1>1, <1>2, <1>3

\* vcpu_array[id] = vcpu: the vCPU changes hands.
LEMMA StoreVmcs ==
  ASSUME TypeInv, VmcsInv, NEW t \in Thread, store_vcpu(t)
  PROVE  VmcsInv'
<1> DEFINE v == vcpu[t]
           k == kvm[t]
<1>1. /\ pc[t] = "store"
      /\ vcpu_array' = [vcpu_array EXCEPT ![k] = [@ EXCEPT ![id[t]] = v]]
      /\ UNCHANGED <<kvm, vcpu, vcpu_id, vcpu_kvm, vmptr, current_vmcs, vmcs,
                     vmcs_cpu>>
  BY DEF store_vcpu
<1>2. /\ pc'[t] \notin Creating
      /\ \A s \in Thread : s # t => pc'[s] = pc[s] /\ id'[s] = id[s]
  BY DEF store_vcpu, Goto, TypeInv, TypeOK, Creating
<1>3. pc[t] \in Creating /\ pc[t] \in Late
  BY <1>1 DEF Creating, Late
<1>4. /\ v \in VCPU /\ k \in VM /\ id[t] \in CPU
      /\ vcpu_id[v] = id[t] /\ vcpu_kvm[v] = k
      /\ vmcs[v] = "live" /\ vmcs_cpu[v] # -1
      /\ \A s \in Thread : pc[s] \in Creating /\ s # t => vcpu[s] \in VCPU \ {v}
  BY <1>3, OwnVcpu DEF VmcsInv, CreatingInv
<1> HIDE DEF v, k
<1>5. \A j \in VM, i \in CPU :
        vcpu_array'[j][i] = IF j = k /\ i = id[t] THEN v ELSE vcpu_array[j][i]
  BY <1>1, <1>4 DEF TypeInv, TypeOK
<1>6. CreatingInv'
  <2> SUFFICES ASSUME NEW s \in Thread
               PROVE  /\ pc'[s] \in Creating =>
                           /\ vcpu_id'[vcpu'[s]] = id'[s]
                           /\ vcpu_kvm'[vcpu'[s]] = kvm'[s]
                           /\ \A j \in VM, i \in CPU : vcpu_array'[j][i] # vcpu'[s]
                           /\ \A r \in Thread :
                                pc'[r] \in Creating /\ r # s => vcpu'[r] # vcpu'[s]
                      /\ pc'[s] \in Early => vmcs'[vcpu'[s]] = "none"
                      /\ pc'[s] \in Middle \cup Late => vmcs'[vcpu'[s]] = "live"
                      /\ pc'[s] \in Early \cup Middle => vmcs_cpu'[vcpu'[s]] = -1
                      /\ pc'[s] \in Late => vmcs_cpu'[vcpu'[s]] # -1
    BY DEF CreatingInv
  <2>1. CASE pc'[s] \in Creating
    <3>1. s # t /\ pc[s] = pc'[s] /\ id[s] = id'[s] /\ vcpu[s] \in VCPU \ {v}
      BY <1>2, <1>4, <2>1
    <3>2. \A r \in Thread : pc'[r] \in Creating => pc[r] \in Creating
      BY <1>2
    <3>3. \A j \in VM, i \in CPU : vcpu_array[j][i] # vcpu[s]
      BY <2>1, <3>1 DEF VmcsInv, CreatingInv
    <3>4. \A j \in VM, i \in CPU : vcpu_array'[j][i] # vcpu'[s]
      BY <1>1, <1>5, <3>1, <3>3
    <3>5. QED BY <1>1, <2>1, <3>1, <3>2, <3>4 DEF VmcsInv, CreatingInv
  <2>2. CASE pc'[s] \notin Creating
    BY <2>2, Stages
  <2>3. QED BY <2>1, <2>2
<1>7. StoredInv'
  BY <1>1, <1>4, <1>5 DEF VmcsInv, StoredInv
<1>8. HomeInv' /\ UnusedInv'
  BY <1>1 DEF VmcsInv, HomeInv, UnusedInv
<1>9. QED BY <1>6, <1>7, <1>8 DEF VmcsInv

\* RunKvm gives a cpu only to a vCPU of the array, and only its own processor.
LEMMA RunVmcs ==
  ASSUME TypeInv, VmcsInv, NEW t \in Thread, KVM_RUN(t)
  PROVE  VmcsInv'
<1>1. CASE BugCheck("mmu") \/ \E f \in RunFaults : BugCheck(f)
  BY <1>1, BugCheckVmcsQuiet, QuietVmcs DEF TypeInv
<1>2. CASE ~(BugCheck("mmu") \/ \E f \in RunFaults : BugCheck(f))
  <2> DEFINE arr == vcpu_array[g_kvm]
             fresh == {c \in CPU : ~AlreadyLoaded(arr[c], c)}
  <2>1. g_kvm \in VM
    BY <1>2 DEF KVM_RUN, RunFaults, TypeInv, TypeOK
  <2>2. \A c \in CPU : arr[c] \in VCPU
    <3>1. \A c \in CPU : arr[c] \in VCPU \cup {Null}
      BY <2>1 DEF TypeInv, TypeOK
    <3>2. \A c \in CPU : arr[c] # Null
      BY <1>2, <2>1, NullAssumption DEF KVM_RUN, RunFaults
    <3>3. QED BY <3>1, <3>2
  <2>3. /\ vmcs_cpu' = [v \in VCPU |-> IF \E c \in fresh : v = arr[c]
                                       THEN CHOOSE c \in fresh : v = arr[c]
                                       ELSE vmcs_cpu[v]]
        /\ UNCHANGED <<pc, kvm, id, vcpu, vcpu_id, vcpu_kvm, vcpu_array, vmptr,
                       current_vmcs, vmcs>>
    BY <1>2, Zenon DEF KVM_RUN
  <2>4. \A c \in CPU : vcpu_id[arr[c]] = c /\ vmcs[arr[c]] \in {"live", "freed"}
    BY <2>1, <2>2 DEF VmcsInv, StoredInv
  <2>5. fresh \subseteq CPU
    OBVIOUS
  <2> HIDE DEF fresh, arr
  <2>6. ASSUME NEW v \in VCPU
        PROVE  vmcs_cpu'[v] = vmcs_cpu[v] \/
                 \E c \in CPU : v = arr[c] /\ vmcs_cpu'[v] = c
    BY <2>3, <2>5
  <2>7. \A v \in VCPU :
          \/ vmcs_cpu'[v] = vmcs_cpu[v]
          \/ /\ \E c \in CPU : v = vcpu_array[g_kvm][c]
             /\ vmcs_cpu'[v] = vcpu_id[v] /\ vmcs_cpu'[v] # -1
             /\ vmcs[v] \in {"live", "freed"}
    BY <2>4, <2>6, CpuFacts DEF arr
  <2>8. CreatingInv'
    <3>1. \A s \in Thread : pc[s] \in Creating => vmcs_cpu'[vcpu[s]] = vmcs_cpu[vcpu[s]]
      BY <2>1, <2>7, OwnVcpu
    <3>2. QED BY <2>3, <3>1, Stages DEF VmcsInv, CreatingInv
  <2>9. StoredInv'
    BY <2>3, <2>7 DEF VmcsInv, StoredInv
  <2>10. HomeInv' /\ UnusedInv'
    BY <2>3, <2>7 DEF VmcsInv, HomeInv, UnusedInv
  <2>11. QED BY <2>8, <2>9, <2>10 DEF VmcsInv
<1>3. QED BY <1>1, <1>2

\* What free_loaded_vmcs does when it does not stop the machine: the VMCS is
\* gone already, or it is cleared on its processor and freed.  A VMCS in an
\* array that is not freed is loaded, so the code's path for one that is not
\* loaded is never taken.
FreeStep(t, v) ==
  /\ pc[t] = "destroy" /\ NextDestroy(t)
  /\ g_kvm \in VM /\ id[t] \in CPU /\ v \in VCPU /\ v = vcpu_array[g_kvm][id[t]]
  /\ \/ vmcs[v] # "live" /\ UNCHANGED <<vmptr, loadedVars>>
     \/ /\ vmcs[v] = "live" /\ vmcs_cpu[v] # -1
        /\ vmx_root[vcpu_id[v]] /\ v \in loaded_vmcss_on_cpu[vcpu_id[v]]
        /\ __loaded_vmcs_clear(v, vcpu_id[v])
        /\ vmcs' = [vmcs EXCEPT ![v] = "freed"]
  /\ UNCHANGED <<vmxe, vmx_root, enableVars, vmVars, vcpuVars, fieldVars,
                 vpidVars, kvm, vcpu, bugcheck>>

LEMMA FreeCases ==
  ASSUME TypeInv, VmcsInv, NEW t \in Thread, free_loaded_vmcs(t)
  PROVE  \/ \E f \in {"null_vcpu", "ud_vmclear", "vmclear_list"} : BugCheck(f)
         \/ \E v \in VCPU : FreeStep(t, v)
<1> DEFINE v == vcpu_array[g_kvm][id[t]]
<1> SUFFICES ASSUME ~\E f \in {"null_vcpu", "ud_vmclear", "vmclear_list"} : BugCheck(f)
             PROVE  \E w \in VCPU : FreeStep(t, w)
  OBVIOUS
<1>1. pc[t] = "destroy" /\ g_kvm \in VM /\ id[t] \in CPU
  BY DEF free_loaded_vmcs, TypeInv, TypeOK, LocalsOK
<1>2. v \in VCPU
  <2>1. v # Null
    BY Zenon DEF free_loaded_vmcs
  <2>2. vcpu_array[g_kvm] \in [CPU -> VCPU \cup {Null}]
    BY <1>1 DEF TypeInv, TypeOK
  <2>3. QED BY <1>1, <2>1, <2>2
<1>3. vmcs[v] = "live" => vmcs_cpu[v] # -1
  BY <1>1, <1>2 DEF VmcsInv, StoredInv
<1>4. NextDestroy(t)
  BY Zenon DEF free_loaded_vmcs
<1>5. UNCHANGED <<vmxe, vmx_root, enableVars, vmVars, vcpuVars, fieldVars,
                  vpidVars, kvm, vcpu, bugcheck>>
  BY DEF free_loaded_vmcs
<1>6. \/ vmcs[v] # "live" /\ UNCHANGED <<vmptr, loadedVars>>
      \/ /\ vmcs[v] = "live" /\ vmcs_cpu[v] # -1
         /\ vmx_root[vcpu_id[v]] /\ v \in loaded_vmcss_on_cpu[vcpu_id[v]]
         /\ __loaded_vmcs_clear(v, vcpu_id[v])
         /\ vmcs' = [vmcs EXCEPT ![v] = "freed"]
  BY <1>3, Zenon DEF free_loaded_vmcs
<1>7. FreeStep(t, v)
  BY <1>1, <1>2, <1>4, <1>5, <1>6 DEF FreeStep
<1>8. QED BY <1>2, <1>7

\* The thread stays at "destroy" or goes on to "disable".
LEMMA NextDestroyPc ==
  ASSUME TypeInv, NEW t \in Thread, NextDestroy(t)
  PROVE  /\ pc'[t] \in {"destroy", "disable"} /\ pc[t] = "destroy"
         /\ \A s \in Thread \ {t} : pc'[s] = pc[s] /\ id'[s] = id[s]
<1>1. CASE LastId(t)
  BY <1>1 DEF NextDestroy, Goto, TypeInv, TypeOK
<1>2. CASE ~LastId(t)
  BY <1>2 DEF NextDestroy, TypeInv, TypeOK
<1>3. QED BY <1>1, <1>2

LEMMA FreeVmcs ==
  ASSUME TypeInv, VmcsInv, NEW t \in Thread, free_loaded_vmcs(t)
  PROVE  VmcsInv'
<1>1. CASE \E f \in {"null_vcpu", "ud_vmclear", "vmclear_list"} : BugCheck(f)
  BY <1>1, BugCheckVmcsQuiet, QuietVmcs DEF TypeInv
<1>2. ASSUME NEW v \in VCPU, FreeStep(t, v) PROVE VmcsInv'
  <2>1. /\ g_kvm \in VM /\ id[t] \in CPU /\ v = vcpu_array[g_kvm][id[t]]
        /\ NextDestroy(t)
        /\ UNCHANGED <<kvm, vcpu, vcpu_id, vcpu_kvm, vcpu_array>>
    BY <1>2 DEF FreeStep
  <2>2. \A s \in Thread : pc'[s] \in Creating => /\ pc'[s] = pc[s] /\ id'[s] = id[s]
    BY <2>1, NextDestroyPc DEF Creating
  <2>3. CASE UNCHANGED <<vmptr, loadedVars>>
    <3>1. VmcsQuiet
      BY <2>1, <2>2, <2>3, Stages DEF VmcsQuiet
    <3>2. QED BY <3>1, QuietVmcs
  <2>4. CASE /\ vmcs[v] = "live" /\ vmcs' = [vmcs EXCEPT ![v] = "freed"]
             /\ __loaded_vmcs_clear(v, vcpu_id[v])
    <3>1. /\ vmcs'[v] = "freed" /\ vmcs_cpu'[v] = -1
          /\ \A w \in VCPU \ {v} : vmcs'[w] = vmcs[w] /\ vmcs_cpu'[w] = vmcs_cpu[w]
      BY <2>4 DEF __loaded_vmcs_clear, TypeInv, TypeOK
    <3>2. \A s \in Thread : pc[s] \in Creating => vcpu[s] \in VCPU \ {v}
      BY <2>1, OwnVcpu
    <3>3. CreatingInv'
      BY <2>1, <2>2, <3>1, <3>2, Stages DEF VmcsInv, CreatingInv
    <3>4. StoredInv'
      BY <2>1, <3>1 DEF VmcsInv, StoredInv
    <3>5. \A c \in CPU, w \in VCPU :
            vmptr'[c] = w \/ current_vmcs'[c] = w =>
              w # v /\ (vmptr[c] = w \/ current_vmcs[c] = w)
      <4>1. vcpu_id[v] \in CPU
        BY DEF TypeInv, TypeOK
      <4>2. \A c \in CPU : c # vcpu_id[v] => vmptr[c] # v /\ current_vmcs[c] # v
        BY DEF VmcsInv, HomeInv
      <4>3. QED
        BY <2>4, <4>1, <4>2, NullAssumption DEF __loaded_vmcs_clear, TypeInv, TypeOK
    <3>6. HomeInv'
      BY <2>1, <3>1, <3>5 DEF VmcsInv, HomeInv
    <3>7. UnusedInv'
      BY <2>1, <2>4, <3>1 DEF VmcsInv, UnusedInv
    <3>8. QED BY <3>3, <3>4, <3>6, <3>7 DEF VmcsInv
  <2>5. QED BY <1>2, <2>3, <2>4 DEF FreeStep
<1>3. QED BY <1>1, <1>2, FreeCases

LEMMA InitVmcs == Init => VmcsInv
  BY NullAssumption DEF Init, VmcsInv, CreatingInv, StoredInv, HomeInv,
     UnusedInv, Creating, Early, Middle, Late

LEMMA NextVmcs == TypeInv /\ VmcsInv /\ [Next]_vars => VmcsInv'
<1> SUFFICES ASSUME TypeInv, VmcsInv, [Next]_vars PROVE VmcsInv'
  OBVIOUS
<1>1. CASE UNCHANGED vars
  <2>1. VmcsQuiet
    BY <1>1 DEF vars, VmcsQuiet
  <2>2. QED BY <2>1, QuietVmcs
<1>2. ASSUME NEW t \in Thread, ThreadStep(t) PROVE VmcsInv'
  BY <1>2, CpuFacts, OtherStepsVmcsQuiet, QuietVmcs, AllocVcpuVmcs,
     AllocVmcsVmcs, LoadVmcs, StoreVmcs, RunVmcs, FreeVmcs DEF ThreadStep
<1>3. QED BY <1>1, <1>2 DEF Next, Halted

\* free_loaded_vmcs returns the memory of a VMCS only when no processor has it
\* current, however the requests of the threads interleave.
THEOREM FreedCorrect == Spec => []FreedVmcsNotCurrent
<1>1. TypeInv /\ VmcsInv => FreedVmcsNotCurrent
  BY DEF TypeInv, TypeOK, VmcsInv, HomeInv, FreedVmcsNotCurrent
<1>2. TypeInv /\ VmcsInv /\ [Next]_vars => (TypeInv /\ VmcsInv)'
  BY NextType, NextVmcs
<1>3. QED BY <1>1, <1>2, InitType, InitVmcs, PTL DEF Spec

-----------------------------------------------------------------------------
(***************************************************************************)
(* The vCPU count.  created_vcpus is raised under kvm->lock before the     *)
(* vCPU exists, and a failed creation never lowers it: it bounds the vCPUs *)
(* that exist together with those about to be allocated.                   *)
(***************************************************************************)
CountQuiet ==
  /\ UNCHANGED <<vcpu_kvm, created_vcpus>>
  /\ \A s \in Thread :
       /\ pc'[s] = "alloc" <=> pc[s] = "alloc"
       /\ pc[s] = "alloc" => kvm'[s] = kvm[s]

LEMMA QuietCount == CountInv /\ CountQuiet => CountInv'
<1> SUFFICES ASSUME CountInv, CountQuiet, NEW k \in VM
             PROVE  /\ IsFiniteSet(Made(k)') /\ IsFiniteSet(Reserving(k)')
                    /\ Cardinality(Made(k)') + Cardinality(Reserving(k)') <= created_vcpus'[k]
                    /\ created_vcpus'[k] <= N
  BY DEF CountInv
<1>1. Made(k)' = Made(k)
  BY DEF CountQuiet, Made
<1>2. Reserving(k)' = Reserving(k)
  BY DEF CountQuiet, Reserving
<1>3. created_vcpus' = created_vcpus
  BY DEF CountQuiet
<1>4. QED BY <1>1, <1>2, <1>3 DEF CountInv

LEMMA BugCheckCountQuiet == TypeOK => \A f : BugCheck(f) => CountQuiet
  BY DEF BugCheck, CountQuiet, TypeOK

LEMMA OtherStepsCountQuiet ==
  ASSUME TypeInv, VmcsInv, NEW t \in Thread, NEW e \in CPU,
         \/ kvm_create_vm(t) \/ link_vm(t) \/ kvm_dev_ioctl_create_vm(t)
         \/ KVM_CREATE_VCPU(t) \/ set_vpid(t) \/ alloc_loaded_vmcs(t)
         \/ load_insert(t) \/ load_vmptrld(t) \/ load_write(t, e)
         \/ kvm_vcpu_reset(t, e) \/ store_vcpu(t) \/ KVM_RUN(t)
         \/ kvm_destroy_vm(t) \/ free_loaded_vmcs(t)
         \/ hardware_disable_all(t, e)
  PROVE  CountQuiet
<1> USE DEF TypeInv, TypeOK, CountQuiet, Goto
<1>1. CASE kvm_create_vm(t) BY <1>1 DEF kvm_create_vm
<1>2. CASE link_vm(t) BY <1>2, BugCheckCountQuiet DEF link_vm
<1>3. CASE kvm_dev_ioctl_create_vm(t) BY <1>3 DEF kvm_dev_ioctl_create_vm
<1>4. CASE KVM_CREATE_VCPU(t) BY <1>4 DEF KVM_CREATE_VCPU
<1>5. CASE set_vpid(t) BY <1>5 DEF set_vpid
<1>6. CASE alloc_loaded_vmcs(t) BY <1>6, BugCheckCountQuiet DEF alloc_loaded_vmcs
<1>7. CASE load_insert(t) BY <1>7 DEF load_insert
<1>8. CASE load_vmptrld(t) BY <1>8, BugCheckCountQuiet DEF load_vmptrld
<1>9. CASE load_write(t, e) BY <1>9, BugCheckCountQuiet DEF load_write
<1>10. CASE kvm_vcpu_reset(t, e) BY <1>10, BugCheckCountQuiet DEF kvm_vcpu_reset
<1>11. CASE store_vcpu(t) BY <1>11 DEF store_vcpu
<1>12. CASE KVM_RUN(t) BY <1>12, BugCheckCountQuiet DEF KVM_RUN
<1>13. CASE kvm_destroy_vm(t) BY <1>13, BugCheckCountQuiet DEF kvm_destroy_vm
<1>14. CASE free_loaded_vmcs(t)
  <2>1. CASE \E f \in {"null_vcpu", "ud_vmclear", "vmclear_list"} : BugCheck(f)
    BY <2>1, BugCheckCountQuiet
  <2>2. ASSUME NEW v \in VCPU, FreeStep(t, v) PROVE CountQuiet
    <3>1. NextDestroy(t) /\ UNCHANGED <<vcpu_kvm, created_vcpus, kvm>>
      BY <2>2 DEF FreeStep
    <3>2. QED BY <3>1, NextDestroyPc
  <2>3. QED BY <1>14, <2>1, <2>2, FreeCases
<1>15. CASE hardware_disable_all(t, e)
  BY <1>15, BugCheckCountQuiet DEF hardware_disable_all
<1>16. QED
  BY <1>1, <1>2, <1>3, <1>4, <1>5, <1>6, <1>7, <1>8, <1>9, <1>10, <1>11, <1>12,
     <1>13, <1>14, <1>15

\* The section under kvm->lock.
LEMMA ReserveCount ==
  ASSUME TypeInv, CountInv, NEW t \in Thread, reserve_vcpu(t)
  PROVE  CountInv'
<1>1. CASE g_kvm = Null
  BY <1>1, BugCheckCountQuiet, QuietCount DEF reserve_vcpu, TypeInv
<1>2. CASE g_kvm # Null /\ AtVcpuLimit(g_kvm)
  <2>1. CountQuiet
    BY <1>2 DEF reserve_vcpu, Goto, CountQuiet, TypeInv, TypeOK
  <2>2. QED BY <2>1, QuietCount
<1>3. CASE g_kvm # Null /\ ~AtVcpuLimit(g_kvm)
  <2>1. g_kvm \in VM
    BY <1>3 DEF TypeInv, TypeOK
  <2>2. /\ pc[t] = "reserve" /\ pc' = [pc EXCEPT ![t] = "alloc"]
        /\ created_vcpus' = [created_vcpus EXCEPT ![g_kvm] = @ + 1]
        /\ kvm' = [kvm EXCEPT ![t] = g_kvm]
        /\ UNCHANGED vcpu_kvm
    BY <1>3 DEF reserve_vcpu, Goto
  <2> SUFFICES ASSUME NEW k \in VM
               PROVE  /\ IsFiniteSet(Made(k)') /\ IsFiniteSet(Reserving(k)')
                      /\ Cardinality(Made(k)') + Cardinality(Reserving(k)') <= created_vcpus'[k]
                      /\ created_vcpus'[k] <= N
    BY DEF CountInv
  <2>3. Made(k)' = Made(k)
    BY <2>2 DEF Made
  <2>4. /\ IsFiniteSet(Made(k)) /\ IsFiniteSet(Reserving(k))
        /\ Cardinality(Made(k)) \in Nat /\ Cardinality(Reserving(k)) \in Nat
        /\ Cardinality(Made(k)) + Cardinality(Reserving(k)) <= created_vcpus[k]
        /\ created_vcpus[k] <= N /\ created_vcpus[k] \in Nat
    BY FS_CardinalityType DEF CountInv, TypeInv, TypeOK
  <2>5. CASE k = g_kvm
    <3>1. t \notin Reserving(k) /\ Reserving(k)' = Reserving(k) \cup {t}
      BY <2>2, <2>5 DEF Reserving, TypeInv, TypeOK
    <3>2. /\ IsFiniteSet(Reserving(k)')
          /\ Cardinality(Reserving(k)') = Cardinality(Reserving(k)) + 1
      BY <2>4, <3>1, FS_AddElement
    <3>3. created_vcpus'[k] = created_vcpus[k] + 1 /\ created_vcpus[k] < N
      BY <1>3, <2>2, <2>4, <2>5, NAssumption DEF AtVcpuLimit, TypeInv, TypeOK
    <3>4. QED BY <2>3, <2>4, <3>2, <3>3, NAssumption
  <2>6. CASE k # g_kvm
    <3>1. Reserving(k)' = Reserving(k) /\ created_vcpus'[k] = created_vcpus[k]
      BY <2>2, <2>6 DEF Reserving, TypeInv, TypeOK
    <3>2. QED BY <2>3, <2>4, <3>1
  <2>7. QED BY <2>5, <2>6
<1>4. QED BY <1>1, <1>2, <1>3

LEMMA AllocCount ==
  ASSUME TypeInv, VmcsInv, CountInv, NEW t \in Thread, alloc_vcpu(t)
  PROVE  CountInv'
<1> SUFFICES ASSUME NEW k \in VM
             PROVE  /\ IsFiniteSet(Made(k)') /\ IsFiniteSet(Reserving(k)')
                    /\ Cardinality(Made(k)') + Cardinality(Reserving(k)') <= created_vcpus'[k]
                    /\ created_vcpus'[k] <= N
  BY DEF CountInv
<1>1. /\ IsFiniteSet(Made(k)) /\ IsFiniteSet(Reserving(k))
      /\ Cardinality(Made(k)) \in Nat /\ Cardinality(Reserving(k)) \in Nat
      /\ Cardinality(Made(k)) + Cardinality(Reserving(k)) <= created_vcpus[k]
      /\ created_vcpus[k] <= N /\ created_vcpus[k] \in Nat
  BY FS_CardinalityType DEF CountInv, TypeInv, TypeOK
<1>2. /\ pc[t] = "alloc" /\ UNCHANGED <<created_vcpus, kvm>>
      /\ \/ /\ pc' = [pc EXCEPT ![t] = "idle"] /\ UNCHANGED vcpu_kvm
         \/ /\ pc' = [pc EXCEPT ![t] = "vpid"]
            /\ \E v \in VCPU : /\ vmcs[v] = "unused"
                               /\ vcpu_kvm' = [vcpu_kvm EXCEPT ![v] = kvm[t]]
  BY DEF alloc_vcpu, Goto
<1>3. kvm[t] \in VM
  BY <1>2 DEF TypeInv, LocalsOK
<1>4. CASE k = kvm[t]
  <2>1. t \in Reserving(k) /\ Reserving(k)' = Reserving(k) \ {t}
    BY <1>2, <1>4 DEF Reserving, TypeInv, TypeOK
  <2>2. /\ IsFiniteSet(Reserving(k)')
        /\ Cardinality(Reserving(k)') = Cardinality(Reserving(k)) - 1
    BY <1>1, <2>1, FS_RemoveElement
  <2>3. IsFiniteSet(Made(k)') /\ Cardinality(Made(k)') \in Nat
        /\ Cardinality(Made(k)') <= Cardinality(Made(k)) + 1
    <3>1. CASE UNCHANGED vcpu_kvm
      <4>1. Made(k)' = Made(k)
        BY <3>1 DEF Made
      <4>2. QED BY <1>1, <4>1
    <3>2. ASSUME NEW v \in VCPU, vmcs[v] = "unused",
                 vcpu_kvm' = [vcpu_kvm EXCEPT ![v] = kvm[t]]
          PROVE  /\ IsFiniteSet(Made(k)') /\ Cardinality(Made(k)') \in Nat
                 /\ Cardinality(Made(k)') <= Cardinality(Made(k)) + 1
      <4>1. vcpu_kvm[v] = Null
        BY <3>2 DEF VmcsInv, UnusedInv
      <4>2. v \notin Made(k)
        BY <4>1, NullAssumption DEF Made
      <4>3. Made(k)' = Made(k) \cup {v}
        BY <1>4, <3>2 DEF Made, TypeInv, TypeOK
      <4>4. /\ IsFiniteSet(Made(k)')
            /\ Cardinality(Made(k)') = Cardinality(Made(k)) + 1
        BY <1>1, <4>2, <4>3, FS_AddElement
      <4>5. QED BY <1>1, <4>4
    <3>3. QED BY <1>2, <3>1, <3>2
  <2>4. QED BY <1>1, <1>2, <2>2, <2>3, NAssumption
<1>5. CASE k # kvm[t]
  <2>1. Reserving(k)' = Reserving(k)
    BY <1>2, <1>5 DEF Reserving, TypeInv, TypeOK
  <2>2. Made(k)' = Made(k)
    <3>1. CASE UNCHANGED vcpu_kvm
      BY <3>1 DEF Made
    <3>2. ASSUME NEW v \in VCPU, vmcs[v] = "unused",
                 vcpu_kvm' = [vcpu_kvm EXCEPT ![v] = kvm[t]]
          PROVE  Made(k)' = Made(k)
      <4>1. vcpu_kvm[v] = Null
        BY <3>2 DEF VmcsInv, UnusedInv
      <4>2. QED BY <1>5, <3>2, <4>1, NullAssumption DEF Made, TypeInv, TypeOK
    <3>3. QED BY <1>2, <3>1, <3>2
  <2>3. QED BY <1>1, <1>2, <2>1, <2>2
<1>6. QED BY <1>4, <1>5

LEMMA InitCount == Init => CountInv
<1> SUFFICES ASSUME Init, NEW k \in VM
             PROVE  /\ IsFiniteSet(Made(k)) /\ IsFiniteSet(Reserving(k))
                    /\ Cardinality(Made(k)) + Cardinality(Reserving(k)) <= created_vcpus[k]
                    /\ created_vcpus[k] <= N
  BY DEF CountInv
<1>1. Made(k) = {} /\ Reserving(k) = {}
  BY NullAssumption DEF Init, Made, Reserving
<1>2. created_vcpus[k] = 0
  BY DEF Init
<1>3. QED BY <1>1, <1>2, FS_EmptySet, NAssumption

LEMMA NextCount == TypeInv /\ VmcsInv /\ CountInv /\ [Next]_vars => CountInv'
<1> SUFFICES ASSUME TypeInv, VmcsInv, CountInv, [Next]_vars PROVE CountInv'
  OBVIOUS
<1>1. CASE UNCHANGED vars
  <2>1. CountQuiet
    BY <1>1 DEF vars, CountQuiet
  <2>2. QED BY <2>1, QuietCount
<1>2. ASSUME NEW t \in Thread, ThreadStep(t) PROVE CountInv'
  BY <1>2, CpuFacts, OtherStepsCountQuiet, QuietCount, ReserveCount, AllocCount
  DEF ThreadStep
<1>3. QED BY <1>1, <1>2 DEF Next, Halted

\* A full array holds one vCPU for each processor, and there are no more.
LEMMA FullArray ==
  ASSUME TypeInv, VmcsInv, CountInv, NEW k \in VM,
         \A i \in CPU : vcpu_array[k][i] # Null
  PROVE  /\ \A v \in VCPU : vcpu_kvm[v] = k => vcpu_array[k][vcpu_id[v]] = v
         /\ AtVcpuLimit(k)
<1> DEFINE arr == vcpu_array[k]
           cpus == 0 .. N - 1
<1>1. \A i \in CPU : arr[i] \in VCPU /\ vcpu_id[arr[i]] = i /\ vcpu_kvm[arr[i]] = k
  <2>1. \A i \in CPU : arr[i] \in VCPU
    BY DEF TypeInv, TypeOK
  <2>2. QED BY <2>1 DEF VmcsInv, StoredInv
<1>2. Cardinality(CPU) = N
  <2>1. Cardinality(cpus) = IF 0 > N - 1 THEN 0 ELSE (N - 1) - 0 + 1
    <3>1. 0 \in Int /\ N - 1 \in Int
      BY NAssumption
    <3>2. QED BY <3>1, FS_Interval
  <2> HIDE DEF cpus
  <2>2. Cardinality(cpus) = N
    BY <2>1, NAssumption
  <2>3. QED BY <2>2 DEF cpus, CPU
<1>3. arr \in Injection(CPU, Made(k))
  <2>1. DOMAIN arr = CPU /\ arr \in [CPU -> Made(k)]
    BY <1>1 DEF Made, TypeInv, TypeOK
  <2>2. IsInjective(arr)
    BY <1>1, <2>1 DEF IsInjective
  <2>3. QED BY <2>1, <2>2 DEF Injection
<1>4. /\ IsFiniteSet(Made(k)) /\ Cardinality(Made(k)) \in Nat
      /\ Cardinality(Made(k)) <= created_vcpus[k]
      /\ created_vcpus[k] <= N /\ created_vcpus[k] \in Nat
  <2>1. /\ IsFiniteSet(Made(k)) /\ IsFiniteSet(Reserving(k))
        /\ Cardinality(Made(k)) + Cardinality(Reserving(k)) <= created_vcpus[k]
        /\ created_vcpus[k] <= N /\ created_vcpus[k] \in Nat
    BY DEF CountInv, TypeInv, TypeOK
  <2>2. Cardinality(Made(k)) \in Nat /\ Cardinality(Reserving(k)) \in Nat
    BY <2>1, FS_CardinalityType
  <2>3. QED BY <2>1, <2>2, NAssumption
<1> HIDE DEF arr
<1>5. arr \in Surjection(CPU, Made(k)) /\ created_vcpus[k] >= N
  <2>1. /\ Cardinality(CPU) <= Cardinality(Made(k))
        /\ Cardinality(CPU) = Cardinality(Made(k)) <=> arr \in Surjection(CPU, Made(k))
    BY <1>3, <1>4, FS_Injection
  <2>2. QED BY <1>2, <1>4, <2>1, NAssumption
<1>6. ASSUME NEW v \in VCPU, vcpu_kvm[v] = k PROVE arr[vcpu_id[v]] = v
  <2>1. PICK i \in CPU : arr[i] = v
    BY <1>5, <1>6 DEF Surjection, Made
  <2>2. QED BY <1>1, <2>1
<1>7. QED BY <1>5, <1>6 DEF arr, AtVcpuLimit

\* Once every entry of a VM's vcpu_array is filled kvm_destroy_vcpus misses no
\* vCPU of the VM, however many threads created vCPUs for it and whichever of
\* their allocations failed.
THEOREM ArrayCorrect == Spec => []FullArrayHoldsAll
<1>1. TypeInv /\ VmcsInv /\ CountInv => FullArrayHoldsAll
  BY FullArray DEF FullArrayHoldsAll
<1>2. TypeInv /\ VmcsInv /\ CountInv /\ [Next]_vars
        => (TypeInv /\ VmcsInv /\ CountInv)'
  BY NextType, NextVmcs, NextCount
<1>3. QED BY <1>1, <1>2, InitType, InitVmcs, InitCount, PTL DEF Spec

-----------------------------------------------------------------------------
(***************************************************************************)
(* What holds of Lifecycle only if requests come one at a time (Serial),   *)
(* as the client in the repository issues them.  Two insertions into a     *)
(* processor's list can lose one another, two searches of the VPID bitmap  *)
(* can find the same bit, and two threads can create vCPUs for a processor *)
(* whose VMCSs then replace each other.                                    *)
(***************************************************************************)

\* Requests come one at a time: there is at most one thread to make them.
Serial == \A s, t \in Thread : s = t

\* The bitmap holds every VPID that was handed out and is marked.
VpidInv ==
  vpid_buf =>
    /\ \A v \in VCPU :
         vmcs[v] # "unused" /\ vpid[v] # 0 =>
           \/ vpid[v] \in vpid_bitmap
           \/ \E t \in Thread : pc[t] = "vpid" /\ vcpu[t] = v
    /\ \A v, w \in VCPU :
         vmcs[v] # "unused" /\ vmcs[w] # "unused" /\ v # w /\ vpid[v] = vpid[w]
           => vpid[v] = 0

\* Steps that hand out no VPID: the bitmap stays or its buffer is freed.
VpidQuiet ==
  /\ UNCHANGED <<vpid_bitmap, vpid>> /\ (vpid_buf' => vpid_buf)
  /\ \A v \in VCPU : vmcs'[v] # "unused" => vmcs[v] # "unused"
  /\ \A s \in Thread :
       pc[s] = "vpid" => pc'[s] = "vpid" /\ vcpu'[s] = vcpu[s]

LEMMA QuietVpid == VpidInv /\ VpidQuiet => VpidInv'
<1> SUFFICES ASSUME VpidInv, VpidQuiet, vpid_buf' PROVE VpidInv'
  BY DEF VpidInv
<1>1. vpid_buf /\ vpid' = vpid /\ vpid_bitmap' = vpid_bitmap
  BY DEF VpidQuiet
<1>2. \A v \in VCPU :
        vmcs'[v] # "unused" /\ vpid'[v] # 0 =>
          \/ vpid'[v] \in vpid_bitmap'
          \/ \E t \in Thread : pc'[t] = "vpid" /\ vcpu'[t] = v
  BY <1>1 DEF VpidInv, VpidQuiet
<1>3. \A v, w \in VCPU :
         vmcs'[v] # "unused" /\ vmcs'[w] # "unused" /\ v # w /\ vpid'[v] = vpid'[w]
           => vpid'[v] = 0
  BY <1>1 DEF VpidInv, VpidQuiet
<1>4. QED BY <1>2, <1>3 DEF VpidInv

LEMMA BugCheckVpidQuiet == TypeOK => \A f : BugCheck(f) => VpidQuiet
  BY DEF BugCheck, VpidQuiet, TypeOK

LEMMA OtherStepsVpidQuiet ==
  ASSUME TypeInv, VmcsInv, NEW t \in Thread, NEW e \in CPU,
         \/ kvm_create_vm(t) \/ link_vm(t) \/ kvm_dev_ioctl_create_vm(t)
         \/ KVM_CREATE_VCPU(t) \/ reserve_vcpu(t) \/ alloc_loaded_vmcs(t)
         \/ load_insert(t) \/ load_vmptrld(t) \/ load_write(t, e)
         \/ kvm_vcpu_reset(t, e) \/ store_vcpu(t) \/ KVM_RUN(t)
         \/ kvm_destroy_vm(t) \/ free_loaded_vmcs(t)
         \/ hardware_disable_all(t, e)
  PROVE  VpidQuiet
<1> USE DEF TypeInv, TypeOK, VpidQuiet, Goto
<1>1. CASE kvm_create_vm(t) BY <1>1 DEF kvm_create_vm
<1>2. CASE link_vm(t) BY <1>2, BugCheckVpidQuiet DEF link_vm
<1>3. CASE kvm_dev_ioctl_create_vm(t) BY <1>3 DEF kvm_dev_ioctl_create_vm
<1>4. CASE KVM_CREATE_VCPU(t) BY <1>4 DEF KVM_CREATE_VCPU
<1>5. CASE reserve_vcpu(t)
  <2>1. CASE g_kvm = Null BY <1>5, <2>1, BugCheckVpidQuiet DEF reserve_vcpu
  <2>2. CASE g_kvm # Null BY <1>5, <2>2 DEF reserve_vcpu
  <2>3. QED BY <2>1, <2>2
<1>6. CASE alloc_loaded_vmcs(t)
  <2>1. vmcs[vcpu[t]] # "unused"
    BY <1>6, OwnVcpu DEF alloc_loaded_vmcs, Creating
  <2>2. QED BY <1>6, <2>1, BugCheckVpidQuiet DEF alloc_loaded_vmcs
<1>7. CASE load_insert(t) BY <1>7 DEF load_insert
<1>8. CASE load_vmptrld(t) BY <1>8, BugCheckVpidQuiet DEF load_vmptrld
<1>9. CASE load_write(t, e) BY <1>9, BugCheckVpidQuiet DEF load_write
<1>10. CASE kvm_vcpu_reset(t, e) BY <1>10, BugCheckVpidQuiet DEF kvm_vcpu_reset
<1>11. CASE store_vcpu(t) BY <1>11 DEF store_vcpu
<1>12. CASE KVM_RUN(t) BY <1>12, BugCheckVpidQuiet DEF KVM_RUN
<1>13. CASE kvm_destroy_vm(t) BY <1>13, BugCheckVpidQuiet DEF kvm_destroy_vm
<1>14. CASE free_loaded_vmcs(t)
  <2>1. CASE \E f \in {"null_vcpu", "ud_vmclear", "vmclear_list"} : BugCheck(f)
    BY <2>1, BugCheckVpidQuiet
  <2>2. ASSUME NEW v \in VCPU, FreeStep(t, v) PROVE VpidQuiet
    <3>1. NextDestroy(t) /\ UNCHANGED <<vpid_bitmap, vpid_buf, vpid, vcpu>>
          /\ \/ UNCHANGED vmcs
             \/ vmcs[v] = "live" /\ vmcs' = [vmcs EXCEPT ![v] = "freed"]
      BY <2>2 DEF FreeStep
    <3>2. QED BY <3>1, NextDestroyPc
  <2>3. QED BY <1>14, <2>1, <2>2, FreeCases
<1>15. CASE hardware_disable_all(t, e)
  BY <1>15, BugCheckVpidQuiet DEF hardware_disable_all
<1>16. QED
  BY <1>1, <1>2, <1>3, <1>4, <1>5, <1>6, <1>7, <1>8, <1>9, <1>10, <1>11, <1>12,
     <1>13, <1>14, <1>15

\* allocate_vpid: no other request is between finding a bit and setting it, so
\* a bit that is found clear belongs to nobody.
LEMMA AllocateVpid ==
  ASSUME Serial, TypeInv, VmcsInv, VpidInv, NEW t \in Thread,
         alloc_vcpu(t) \/ set_vpid(t)
  PROVE  VpidInv'
<1>1. CASE set_vpid(t)
  <2>1. /\ pc[t] = "vpid" /\ pc' = [pc EXCEPT ![t] = "vmcs"]
        /\ vpid_bitmap' = MarkVpid(vpid[vcpu[t]])
        /\ UNCHANGED <<vpid_buf, vpid, vcpu, vmcs>>
    BY <1>1 DEF set_vpid, Goto
  <2>2. \A s \in Thread : s = t
    BY DEF Serial
  <2> SUFFICES ASSUME vpid_buf PROVE VpidInv'
    BY <2>1 DEF VpidInv
  <2>3. vpid_bitmap \subseteq vpid_bitmap'
        /\ (vpid[vcpu[t]] # 0 => vpid[vcpu[t]] \in vpid_bitmap')
    BY <2>1 DEF MarkVpid
  <2>4. QED BY <2>1, <2>2, <2>3 DEF VpidInv
<1>2. CASE alloc_vcpu(t) /\ UNCHANGED <<vmcs, vpid>>
  <2>1. VpidQuiet
    BY <1>2 DEF alloc_vcpu, Goto, VpidQuiet, TypeInv, TypeOK
  <2>2. QED BY <2>1, QuietVpid
<1>3. CASE alloc_vcpu(t) /\ ~UNCHANGED <<vmcs, vpid>>
  <2>1. PICK v \in VCPU, p \in FindVpid :
          /\ vmcs[v] = "unused"
          /\ pc' = [pc EXCEPT ![t] = "vpid"]
          /\ vcpu' = [vcpu EXCEPT ![t] = v]
          /\ vmcs' = [vmcs EXCEPT ![v] = "none"]
          /\ vpid' = [vpid EXCEPT ![v] = p]
    BY <1>3 DEF alloc_vcpu, Goto
  <2>2. pc[t] = "alloc" /\ UNCHANGED <<vpid_bitmap, vpid_buf>>
    BY <1>3 DEF alloc_vcpu
  <2> SUFFICES ASSUME vpid_buf PROVE VpidInv'
    BY <2>2 DEF VpidInv
  <2>3. p = 0 \/ p \notin vpid_bitmap
    BY <2>1 DEF FindVpid
  <2>4. /\ vmcs'[v] # "unused" /\ vpid'[v] = p
        /\ \A w \in VCPU \ {v} : vmcs'[w] = vmcs[w] /\ vpid'[w] = vpid[w]
        /\ pc'[t] = "vpid" /\ vcpu'[t] = v
    BY <2>1 DEF TypeInv, TypeOK
  <2>5. \A w \in VCPU : vmcs[w] # "unused" /\ vpid[w] # 0 => vpid[w] \in vpid_bitmap
    <3>1. \A s \in Thread : pc[s] # "vpid"
      BY <2>2 DEF Serial
    <3>2. QED BY <3>1 DEF VpidInv
  <2>6. \A w \in VCPU \ {v} : vmcs[w] # "unused" /\ vpid[w] = p => p = 0
    BY <2>3, <2>5
  <2>7. QED BY <2>2, <2>4, <2>5, <2>6 DEF VpidInv
<1>4. QED BY <1>1, <1>2, <1>3

LEMMA NextVpid ==
  ASSUME Serial
  PROVE  TypeInv /\ VmcsInv /\ VpidInv /\ [Next]_vars => VpidInv'
<1> SUFFICES ASSUME TypeInv, VmcsInv, VpidInv, [Next]_vars PROVE VpidInv'
  OBVIOUS
<1>1. CASE UNCHANGED vars
  <2>1. VpidQuiet
    BY <1>1 DEF vars, VpidQuiet
  <2>2. QED BY <2>1, QuietVpid
<1>2. ASSUME NEW t \in Thread, ThreadStep(t) PROVE VpidInv'
  BY <1>2, CpuFacts, OtherStepsVpidQuiet, QuietVpid, AllocateVpid DEF ThreadStep
<1>3. QED BY <1>1, <1>2 DEF Next, Halted

\* If requests come one at a time, no two VMCSs in use carry the same VPID as
\* long as the bitmap exists, with any number of VPIDs left.
THEOREM VpidCorrect ==
  ASSUME Serial
  PROVE  Spec => []VpidUnique
<1>1. Init => VpidInv
  BY DEF Init, VpidInv
<1>2. VpidInv => VpidUnique
  BY DEF VpidInv, VpidUnique
<1>3. TypeInv /\ VmcsInv /\ VpidInv /\ [Next]_vars => (TypeInv /\ VmcsInv /\ VpidInv)'
  BY NextType, NextVmcs, NextVpid
<1>4. QED BY <1>1, <1>2, <1>3, InitType, InitVmcs, PTL DEF Spec

-----------------------------------------------------------------------------
(***************************************************************************)
(* Loading and tear-down.                                                  *)
(***************************************************************************)
\* Control points at which the new VMCS is current_vmcs, and is not yet stored.
Loaded == {"vmptrld", "load", "reset", "store"}
Destroying == {"destroy", "disable"}
Unpublished == {"link", "publish"}

\* A VM that vCPUs are created for or that is destroyed is g_kvm and in use; a
\* VMCS is in use as long as its VM, or freed before it; a VM that was released
\* had all its vCPUs and can get no more.
LiveInv ==
  /\ \A t \in Thread :
       pc[t] \in Destroying \cup {"alloc"} \cup Creating =>
         kvm[t] = g_kvm /\ vms[g_kvm] = "live"
  /\ \A v \in VCPU : vmcs[v] \in {"none", "live"} => vms[vcpu_kvm[v]] = "live"
  /\ \A v \in VCPU : vmcs[v] = "freed" =>
       \/ vms[vcpu_kvm[v]] = "released"
       \/ \E t \in Thread : pc[t] \in Destroying /\ kvm[t] = vcpu_kvm[v]
  /\ \A k \in VM : vms[k] = "released" => AtVcpuLimit(k)
  /\ \A v \in VCPU, t \in Thread : pc[t] \in Unpublished => kvm[t] # vcpu_kvm[v]

\* kvm_destroy_vcpus has freed the vCPUs below id, in the end all.
DestroyInv ==
  \A t \in Thread : pc[t] \in Destroying =>
    \A i \in CPU : i < id[t] \/ pc[t] = "disable" =>
      vcpu_array[g_kvm][i] # Null /\ vmcs[vcpu_array[g_kvm][i]] = "freed"

\* A vCPU can be created on a processor in VMX operation only, and it stays
\* there as long as a VM with a vCPU is in use.
RootInv ==
  /\ \A k \in VM, i \in CPU :
       vcpu_array[k][i] # Null /\ vms[k] = "live" => vmx_root[i]
  /\ \A t \in Thread : pc[t] \in Middle \cup Late => vmx_root[id[t]]

\* current_vmcs, the VMCS that is really current, and the array of g_kvm.
CurrentInv ==
  /\ CurrentVmcsAgrees
  /\ \A t \in Thread : pc[t] \in Loaded => current_vmcs[id[t]] = vcpu[t]
  /\ \A c \in CPU :
       g_kvm # Null /\ vcpu_array[g_kvm][c] # Null =>
         \/ current_vmcs[c] = LoadedPointer(vcpu_array[g_kvm][c])
         \/ \E t \in Thread : pc[t] \in Loaded /\ id[t] = c

\* KVM_RUN for a VM that was released puts its freed VMCSs back on the lists.
\* It gets that far only if another VM, which no request can reach any more,
\* keeps the processors in VMX operation; that VM is counted for ever, and the
\* lists are never looked at by vmx_hardware_disable.
Orphan(k) ==
  /\ vms[k] \in {"live", "freed"} /\ k # g_kvm
  /\ \A t \in Thread : pc[t] \in Unpublished => kvm[t] # k

OrphanInv ==
  (\E v \in VCPU : vmcs[v] = "freed" /\ vmcs_cpu[v] # -1)
    => \E k \in VM : Orphan(k)

SerialInv ==
  /\ LiveInv /\ DestroyInv /\ RootInv /\ LoadedVmcsTracked /\ CurrentInv
  /\ OrphanInv /\ NoTeardownFault

\* With one thread, what holds of it holds of all.
LEMMA Alone == ASSUME Serial, NEW t \in Thread PROVE \A s \in Thread : s = t
  BY DEF Serial

-----------------------------------------------------------------------------
(***************************************************************************)
(* The lists of loaded VMCSs.                                              *)
(***************************************************************************)
TrackQuiet ==
  /\ UNCHANGED loaded_vmcss_on_cpu
  /\ \A v \in VCPU : vmcs_cpu'[v] = vmcs_cpu[v]
  /\ \A s \in Thread :
       /\ pc'[s] \in {"vmptrld", "load"} <=> pc[s] \in {"vmptrld", "load"}
       /\ pc[s] \in {"vmptrld", "load"} => vcpu'[s] = vcpu[s] /\ id'[s] = id[s]

LEMMA QuietTrack == LoadedVmcsTracked /\ TrackQuiet => LoadedVmcsTracked'
  BY DEF LoadedVmcsTracked, Loading, TrackQuiet

LEMMA BugCheckTrackQuiet == TypeOK => \A f : BugCheck(f) => TrackQuiet
  BY DEF BugCheck, TrackQuiet, TypeOK

LEMMA OtherStepsTrackQuiet ==
  ASSUME TypeInv, VmcsInv, NEW t \in Thread, NEW e \in CPU,
         \/ kvm_create_vm(t) \/ link_vm(t) \/ kvm_dev_ioctl_create_vm(t)
         \/ KVM_CREATE_VCPU(t) \/ reserve_vcpu(t) \/ alloc_vcpu(t)
         \/ set_vpid(t) \/ alloc_loaded_vmcs(t) \/ load_vmptrld(t)
         \/ kvm_vcpu_reset(t, e) \/ store_vcpu(t) \/ kvm_destroy_vm(t)
         \/ hardware_disable_all(t, e)
  PROVE  TrackQuiet
<1> USE DEF TypeInv, TypeOK, TrackQuiet, Goto
<1>1. CASE kvm_create_vm(t) BY <1>1 DEF kvm_create_vm
<1>2. CASE link_vm(t) BY <1>2, BugCheckTrackQuiet DEF link_vm
<1>3. CASE kvm_dev_ioctl_create_vm(t) BY <1>3 DEF kvm_dev_ioctl_create_vm
<1>4. CASE KVM_CREATE_VCPU(t) BY <1>4 DEF KVM_CREATE_VCPU
<1>5. CASE reserve_vcpu(t)
  <2>1. CASE g_kvm = Null BY <1>5, <2>1, BugCheckTrackQuiet DEF reserve_vcpu
  <2>2. CASE g_kvm # Null BY <1>5, <2>2 DEF reserve_vcpu
  <2>3. QED BY <2>1, <2>2
<1>6. CASE alloc_vcpu(t) BY <1>6 DEF alloc_vcpu
<1>7. CASE set_vpid(t) BY <1>7 DEF set_vpid
<1>8. CASE alloc_loaded_vmcs(t)
  <2>1. vmcs_cpu[vcpu[t]] = -1
    BY <1>8 DEF alloc_loaded_vmcs, VmcsInv, CreatingInv, Early
  <2>2. QED BY <1>8, <2>1, BugCheckTrackQuiet DEF alloc_loaded_vmcs
<1>9. CASE load_vmptrld(t) BY <1>9, BugCheckTrackQuiet DEF load_vmptrld
<1>10. CASE kvm_vcpu_reset(t, e) BY <1>10, BugCheckTrackQuiet DEF kvm_vcpu_reset
<1>11. CASE store_vcpu(t) BY <1>11 DEF store_vcpu
<1>12. CASE kvm_destroy_vm(t) BY <1>12, BugCheckTrackQuiet DEF kvm_destroy_vm
<1>13. CASE hardware_disable_all(t, e)
  BY <1>13, BugCheckTrackQuiet DEF hardware_disable_all
<1>14. QED
  BY <1>1, <1>2, <1>3, <1>4, <1>5, <1>6, <1>7, <1>8, <1>9, <1>10, <1>11, <1>12,
     <1>13

\* vmx_vcpu_load_vmcs: the insertion opens the window, the assignment to cpu
\* closes it.
LEMMA LoadTrack ==
  ASSUME Serial, TypeInv, VmcsInv, LoadedVmcsTracked, NEW t \in Thread,
         NEW e \in CPU, load_insert(t) \/ load_write(t, e)
  PROVE  LoadedVmcsTracked'
<1> DEFINE v == vcpu[t]
<1>1. CASE load_insert(t)
  <2>1. /\ pc[t] = "insert" /\ pc' = [pc EXCEPT ![t] = "vmptrld"]
        /\ loaded_vmcss_on_cpu' = [loaded_vmcss_on_cpu EXCEPT ![id[t]] = @ \cup {v}]
        /\ UNCHANGED <<vmcs_cpu, vcpu, id>>
    <3>1. ~InsertRace(t)
      BY DEF Serial, InsertRace
    <3>2. QED BY <1>1, <3>1 DEF load_insert, Goto
  <2>2. v \in VCPU /\ id[t] \in CPU /\ vmcs_cpu[v] = -1
    BY <2>1, OwnVcpu DEF Creating, Middle, VmcsInv, CreatingInv
  <2> HIDE DEF v
  <2>3. \A w \in VCPU, c \in CPU : ~Loading(w, c)
    BY <2>1, Alone DEF Loading
  <2>4. \A w \in VCPU, c \in CPU : Loading(w, c)' <=> w = v /\ c = id[t]
    <3>1. pc'[t] = "vmptrld"
      BY <2>1 DEF TypeInv, TypeOK
    <3>2. QED BY <2>1, <3>1, Alone DEF Loading, v
  <2>5. \A w \in VCPU, c \in CPU :
          w \in loaded_vmcss_on_cpu'[c] <=>
            w \in loaded_vmcss_on_cpu[c] \/ (w = v /\ c = id[t])
    BY <2>1, <2>2 DEF TypeInv, TypeOK
  <2>6. QED
    BY <2>1, <2>2, <2>3, <2>4, <2>5, CpuFacts DEF LoadedVmcsTracked
<1>2. CASE load_write(t, e)
  <2>1. CASE ~vmx_root[e]
    BY <1>2, <2>1, BugCheckTrackQuiet, QuietTrack DEF load_write, TypeInv
  <2>2. CASE vmx_root[e]
    <3>1. /\ pc[t] = "load" /\ pc' = [pc EXCEPT ![t] = "reset"]
          /\ vmcs_cpu' = [vmcs_cpu EXCEPT ![v] = id[t]]
          /\ UNCHANGED <<loaded_vmcss_on_cpu, vcpu, id>>
      BY <1>2, <2>2 DEF load_write, Goto
    <3>2. v \in VCPU /\ id[t] \in CPU /\ vmcs_cpu[v] = -1
      BY <3>1, OwnVcpu DEF Creating, Middle, VmcsInv, CreatingInv
    <3> HIDE DEF v
    <3>3. \A w \in VCPU, c \in CPU : Loading(w, c) <=> w = v /\ c = id[t]
      BY <3>1, Alone DEF Loading, v
    <3>4. \A w \in VCPU, c \in CPU : ~Loading(w, c)'
      <4>1. pc'[t] = "reset"
        BY <3>1 DEF TypeInv, TypeOK
      <4>2. QED BY <4>1, Alone DEF Loading
    <3>5. \A w \in VCPU : vmcs_cpu'[w] = IF w = v THEN id[t] ELSE vmcs_cpu[w]
      BY <3>1, <3>2 DEF TypeInv, TypeOK
    <3>6. QED
      BY <3>1, <3>2, <3>3, <3>4, <3>5, CpuFacts DEF LoadedVmcsTracked
  <2>3. QED BY <2>1, <2>2
<1>3. QED BY <1>1, <1>2

\* What KVM_RUN does when it does not stop the machine: every processor's vCPU
\* is there, current_vmcs is its VMCS, and one whose cpu is -1 is loaded.
RunStep ==
  LET arr == vcpu_array[g_kvm]
  IN  /\ g_kvm \in VM
      /\ \A c \in CPU : /\ arr[c] \in VCPU /\ vcpu_id[arr[c]] = c
                        /\ vmcs[arr[c]] \in {"live", "freed"}
                        /\ vmcs_cpu[arr[c]] \in {c, -1} /\ vmx_root[c]
                        /\ current_vmcs[c] = LoadedPointer(arr[c])
      /\ \A c \in CPU :
           loaded_vmcss_on_cpu'[c] =
             loaded_vmcss_on_cpu[c] \cup (IF vmcs_cpu[arr[c]] # c THEN {arr[c]} ELSE {})
      /\ \A v \in VCPU :
           vmcs_cpu'[v] = IF \E c \in CPU : v = arr[c] THEN vcpu_id[v] ELSE vmcs_cpu[v]
      /\ UNCHANGED <<hwVars, enableVars, vmVars, vcpuVars, vmcs, current_vmcs,
                     vpidVars, threadVars, bugcheck>>

LEMMA RunCases ==
  ASSUME TypeInv, VmcsInv, NEW t \in Thread, KVM_RUN(t)
  PROVE  BugCheck("mmu") \/ (\E f \in RunFaults : BugCheck(f)) \/ RunStep
<1> SUFFICES ASSUME ~(BugCheck("mmu") \/ \E f \in RunFaults : BugCheck(f))
             PROVE  RunStep
  OBVIOUS
<1> DEFINE arr == vcpu_array[g_kvm]
           fresh == {c \in CPU : ~AlreadyLoaded(arr[c], c)}
<1>1. RunFaults = {} /\ g_kvm \in VM
  BY DEF KVM_RUN, RunFaults, TypeInv, TypeOK
<1>2. \A c \in CPU : arr[c] \in VCPU
  <2>1. \A c \in CPU : arr[c] \in VCPU \cup {Null}
    BY <1>1 DEF TypeInv, TypeOK
  <2>2. \A c \in CPU : arr[c] # Null
    BY <1>1, NullAssumption DEF RunFaults
  <2>3. QED BY <2>1, <2>2
<1>3. \A c \in CPU : /\ vmcs_cpu[arr[c]] \in {c, -1} /\ vmx_root[c]
                     /\ current_vmcs[c] = LoadedPointer(arr[c])
  <2> SUFFICES ASSUME NEW c \in CPU
               PROVE  /\ vmcs_cpu[arr[c]] \in {c, -1} /\ vmx_root[c]
                      /\ current_vmcs[c] = LoadedPointer(arr[c])
    OBVIOUS
  <2>1. arr[c] # Null /\ g_kvm # Null
    BY <1>1, <1>2, NullAssumption
  <2>2. "nested_ipi" \notin RunFaults /\ "ud_vmwrite" \notin RunFaults
    BY <1>1
  <2>3. QED BY <2>1, <2>2 DEF RunFaults
<1>4. \A c \in CPU : vcpu_id[arr[c]] = c /\ vmcs[arr[c]] \in {"live", "freed"}
  BY <1>1, <1>2 DEF VmcsInv, StoredInv
<1>5. /\ vmcs_cpu' = [v \in VCPU |-> IF \E c \in fresh : v = arr[c]
                                     THEN CHOOSE c \in fresh : v = arr[c]
                                     ELSE vmcs_cpu[v]]
      /\ loaded_vmcss_on_cpu' =
           [c \in CPU |-> loaded_vmcss_on_cpu[c] \cup
                            (IF c \in fresh THEN {arr[c]} ELSE {})]
      /\ UNCHANGED <<hwVars, enableVars, vmVars, vcpuVars, vmcs, current_vmcs,
                     vpidVars, threadVars, bugcheck>>
  BY Zenon DEF KVM_RUN
<1>6. \A c \in CPU : c \in fresh <=> vmcs_cpu[arr[c]] # c
  BY DEF AlreadyLoaded
<1>7. fresh \subseteq CPU
  OBVIOUS
<1> HIDE DEF fresh, arr
<1>8. \A c \in CPU :
           loaded_vmcss_on_cpu'[c] =
             loaded_vmcss_on_cpu[c] \cup (IF vmcs_cpu[arr[c]] # c THEN {arr[c]} ELSE {})
  BY <1>5, <1>6
<1>9. ASSUME NEW v \in VCPU
      PROVE  vmcs_cpu'[v] = IF \E c \in CPU : v = arr[c] THEN vcpu_id[v] ELSE vmcs_cpu[v]
  <2>1. CASE \E c \in fresh : v = arr[c]
    <3>1. PICK c \in fresh : vmcs_cpu'[v] = c /\ v = arr[c]
      BY <1>5, <2>1
    <3>2. QED BY <1>4, <1>7, <3>1
  <2>2. CASE ~\E c \in fresh : v = arr[c]
    <3>1. vmcs_cpu'[v] = vmcs_cpu[v]
      BY <1>5, <2>2
    <3>2. \A c \in CPU : v = arr[c] => vmcs_cpu[v] = vcpu_id[v]
      BY <1>4, <1>6, <2>2
    <3>3. QED BY <3>1, <3>2
  <2>3. QED BY <2>1, <2>2
<1>10. QED BY <1>1, <1>2, <1>3, <1>4, <1>5, <1>8, <1>9 DEF RunStep, arr

LEMMA RunTrack ==
  ASSUME TypeInv, VmcsInv, LoadedVmcsTracked, RunStep
  PROVE  LoadedVmcsTracked'
<1> DEFINE arr == vcpu_array[g_kvm]
<1>1. /\ g_kvm \in VM
      /\ \A c \in CPU : arr[c] \in VCPU /\ vcpu_id[arr[c]] = c
                        /\ vmcs_cpu[arr[c]] \in {c, -1}
      /\ UNCHANGED <<pc, vcpu, id>>
  BY DEF RunStep
<1>2. \A c \in CPU :
        loaded_vmcss_on_cpu'[c] =
          loaded_vmcss_on_cpu[c] \cup (IF vmcs_cpu[arr[c]] # c THEN {arr[c]} ELSE {})
  BY DEF RunStep
<1>3. \A v \in VCPU :
        vmcs_cpu'[v] = IF \E c \in CPU : v = arr[c] THEN vcpu_id[v] ELSE vmcs_cpu[v]
  BY DEF RunStep
<1>4. \A c, d \in CPU : ~Loading(arr[c], d)
  BY <1>1, OwnVcpu DEF Loading, Creating
<1>5. \A v \in VCPU, c \in CPU : Loading(v, c)' <=> Loading(v, c)
  BY <1>1 DEF Loading
<1> HIDE DEF arr
<1> SUFFICES ASSUME NEW v \in VCPU, NEW d \in CPU
             PROVE  v \in loaded_vmcss_on_cpu'[d] <=> vmcs_cpu'[v] = d \/ Loading(v, d)'
  BY DEF LoadedVmcsTracked
<1>6. CASE \E c \in CPU : v = arr[c]
  <2>1. PICK c \in CPU : v = arr[c]
    BY <1>6
  <2>2. vmcs_cpu'[v] = c /\ vmcs_cpu[v] \in {c, -1} /\ (v = arr[d] <=> d = c)
    BY <1>1, <1>3, <2>1
  <2>3. v \in loaded_vmcss_on_cpu[d] <=> vmcs_cpu[v] = d
    BY <1>4, <2>1 DEF LoadedVmcsTracked
  <2>4. ~Loading(v, d)'
    BY <1>4, <1>5, <2>1
  <2>5. v \in loaded_vmcss_on_cpu'[d] <=>
          v \in loaded_vmcss_on_cpu[d] \/ (vmcs_cpu[arr[d]] # d /\ v = arr[d])
    BY <1>2
  <2>6. QED BY <2>1, <2>2, <2>3, <2>4, <2>5, CpuFacts
<1>7. CASE ~\E c \in CPU : v = arr[c]
  <2>1. v \in loaded_vmcss_on_cpu'[d] <=> v \in loaded_vmcss_on_cpu[d]
    BY <1>2, <1>7
  <2>2. QED BY <1>3, <1>5, <1>7, <2>1 DEF LoadedVmcsTracked
<1>8. QED BY <1>6, <1>7

LEMMA FreeTrack ==
  ASSUME TypeInv, VmcsInv, LoadedVmcsTracked, NEW t \in Thread, NEW v \in VCPU,
         FreeStep(t, v)
  PROVE  LoadedVmcsTracked'
<1>1. /\ NextDestroy(t) /\ UNCHANGED vcpu
      /\ g_kvm \in VM /\ id[t] \in CPU /\ v = vcpu_array[g_kvm][id[t]]
  BY DEF FreeStep
<1>2. \A s \in Thread :
        /\ pc'[s] \in {"vmptrld", "load"} <=> pc[s] \in {"vmptrld", "load"}
        /\ pc[s] \in {"vmptrld", "load"} => id'[s] = id[s]
  BY <1>1, NextDestroyPc
<1>3. CASE UNCHANGED <<vmptr, loadedVars>>
  <2>1. TrackQuiet
    BY <1>1, <1>2, <1>3 DEF TrackQuiet
  <2>2. QED BY <2>1, QuietTrack
<1>4. CASE vmcs_cpu[v] # -1 /\ __loaded_vmcs_clear(v, vcpu_id[v])
  <2>1. vcpu_id[v] = vmcs_cpu[v] /\ vcpu_id[v] \in CPU
    BY <1>4 DEF VmcsInv, HomeInv, TypeInv, TypeOK
  <2>2. \A c \in CPU, w \in VCPU : Loading(w, c)' <=> Loading(w, c)
    BY <1>1, <1>2 DEF Loading
  <2>3. \A c \in CPU : ~Loading(v, c)
    BY <1>1, OwnVcpu DEF Loading, Creating
  <2>4. \A w \in VCPU : vmcs_cpu'[w] = IF w = v THEN -1 ELSE vmcs_cpu[w]
    BY <1>4 DEF __loaded_vmcs_clear, TypeInv, TypeOK
  <2>5. \A w \in VCPU, c \in CPU :
          w \in loaded_vmcss_on_cpu'[c] <=>
            w \in loaded_vmcss_on_cpu[c] /\ ~(w = v /\ c = vcpu_id[v])
    BY <1>4, <2>1 DEF __loaded_vmcs_clear, TypeInv, TypeOK
  <2>6. QED BY <2>1, <2>2, <2>3, <2>4, <2>5, CpuFacts DEF LoadedVmcsTracked
<1>5. QED BY <1>3, <1>4 DEF FreeStep

LEMMA NextTrack ==
  ASSUME Serial
  PROVE  TypeInv /\ VmcsInv /\ LoadedVmcsTracked /\ [Next]_vars => LoadedVmcsTracked'
<1> SUFFICES ASSUME TypeInv, VmcsInv, LoadedVmcsTracked, [Next]_vars
             PROVE  LoadedVmcsTracked'
  OBVIOUS
<1>1. CASE UNCHANGED vars
  <2>1. TrackQuiet
    BY <1>1 DEF vars, TrackQuiet
  <2>2. QED BY <2>1, QuietTrack
<1>2. ASSUME NEW t \in Thread, KVM_RUN(t) \/ free_loaded_vmcs(t)
      PROVE  LoadedVmcsTracked'
  BY <1>2, RunCases, RunTrack, FreeCases, FreeTrack, BugCheckTrackQuiet, QuietTrack
  DEF TypeInv
<1>3. ASSUME NEW t \in Thread, ThreadStep(t) PROVE LoadedVmcsTracked'
  BY <1>2, <1>3, CpuFacts, OtherStepsTrackQuiet, QuietTrack, LoadTrack
  DEF ThreadStep
<1>4. QED BY <1>1, <1>3 DEF Next, Halted

\* If requests come one at a time, the list of a processor holds exactly the
\* VMCSs whose cpu field names it.
THEOREM TrackedCorrect ==
  ASSUME Serial
  PROVE  Spec => []LoadedVmcsTracked
<1>1. Init => LoadedVmcsTracked
  BY CpuFacts DEF Init, LoadedVmcsTracked, Loading
<1>2. TypeInv /\ VmcsInv /\ LoadedVmcsTracked /\ [Next]_vars
        => (TypeInv /\ VmcsInv /\ LoadedVmcsTracked)'
  BY NextType, NextVmcs, NextTrack
<1>3. QED BY <1>1, <1>2, InitType, InitVmcs, PTL DEF Spec

-----------------------------------------------------------------------------
(***************************************************************************)
(* Tear-down.                                                              *)
(***************************************************************************)

\* A VM with a vCPU in its array is in use or released, and not a new one.
LEMMA ArrayOwner ==
  ASSUME TypeInv, VmcsInv, LiveInv, NEW k \in VM, NEW v \in VCPU, vcpu_kvm[v] = k
  PROVE  /\ vms[k] \in {"live", "released"}
         /\ \A t \in Thread : pc[t] \in Unpublished => kvm[t] # k
<1>1. vmcs[v] \in {"none", "live", "freed"}
  BY NullAssumption DEF VmcsInv, UnusedInv, TypeInv, TypeOK
<1>2. vmcs[v] = "freed" =>
        \/ vms[k] = "released"
        \/ \E t \in Thread : pc[t] \in Destroying /\ kvm[t] = k
  BY DEF LiveInv
<1>3. \A t \in Thread : pc[t] \in Destroying => vms[kvm[t]] = "live"
  BY DEF LiveInv
<1>4. vmcs[v] \in {"none", "live"} => vms[k] = "live"
  BY DEF LiveInv
<1>5. QED BY <1>1, <1>2, <1>3, <1>4 DEF LiveInv

\* At the end of kvm_destroy_vm every vCPU of the VM is freed, and when it is
\* the last VM none is left at all.
LEMMA Released ==
  ASSUME TypeInv, VmcsInv, CountInv, LiveInv, DestroyInv,
         NEW t \in Thread, pc[t] = "disable"
  PROVE  /\ kvm[t] = g_kvm /\ g_kvm \in VM /\ vms[g_kvm] = "live"
         /\ \A v \in VCPU : vcpu_kvm[v] = g_kvm => vmcs[v] = "freed"
         /\ \A i \in CPU : vcpu_array[g_kvm][i] # Null
         /\ AtVcpuLimit(g_kvm)
<1>1. kvm[t] = g_kvm /\ g_kvm \in VM /\ vms[g_kvm] = "live"
  BY DEF LiveInv, Destroying, TypeInv, LocalsOK, Owning
<1>2. \A i \in CPU : vcpu_array[g_kvm][i] # Null /\ vmcs[vcpu_array[g_kvm][i]] = "freed"
  BY DEF DestroyInv, Destroying
<1>3. /\ \A v \in VCPU : vcpu_kvm[v] = g_kvm => vcpu_array[g_kvm][vcpu_id[v]] = v
      /\ AtVcpuLimit(g_kvm)
  BY <1>1, <1>2, FullArray
<1>4. \A v \in VCPU : vcpu_id[v] \in CPU
  BY DEF TypeInv, TypeOK
<1>5. QED BY <1>1, <1>2, <1>3, <1>4

LEMMA LastRelease ==
  ASSUME TypeInv, UsageInv, VmcsInv, CountInv, LiveInv, DestroyInv,
         NEW t \in Thread, pc[t] = "disable", LastUser
  PROVE  /\ \A k \in VM : vms[k] \in {"live", "freed"} => k = g_kvm
         /\ \A v \in VCPU : vmcs[v] \notin {"none", "live"}
<1>1. kvm[t] = g_kvm /\ g_kvm \in VM /\ vms[g_kvm] = "live"
      /\ \A v \in VCPU : vcpu_kvm[v] = g_kvm => vmcs[v] = "freed"
  BY Released
<1>2. IsFiniteSet(Counted) /\ Cardinality(Counted) = 1
  <2>1. Cardinality(Counted) - 1 = 0 /\ Cardinality(Counted) \in Nat
    BY CountedFinite DEF LastUser, UsageInv, UsageCountsVms, Counted
  <2>2. QED BY <2>1, CountedFinite
<1>3. PICK x : Counted = {x}
  BY <1>2, FS_Singleton
<1>4. g_kvm \in Counted
  BY <1>1 DEF Counted
<1>5. \A k \in VM : vms[k] \in {"live", "freed"} => k = g_kvm
  BY <1>3, <1>4 DEF Counted
<1>6. ASSUME NEW v \in VCPU, vmcs[v] \in {"none", "live"} PROVE FALSE
  <2>1. vcpu_kvm[v] \in VM
    BY <1>6 DEF VmcsInv, UnusedInv, TypeInv, TypeOK
  <2>2. vms[vcpu_kvm[v]] = "live"
    BY <1>6 DEF LiveInv
  <2>3. QED BY <1>1, <1>5, <1>6, <2>1, <2>2
<1>7. QED BY <1>5, <1>6

-----------------------------------------------------------------------------
InUse == Destroying \cup {"alloc"} \cup Creating

\* Steps that neither create nor free an object, and take up no VM.
LiveQuiet ==
  /\ UNCHANGED <<g_kvm, vms, created_vcpus, vcpu_kvm>>
  /\ \A v \in VCPU : \/ vmcs'[v] = vmcs[v]
                     \/ vmcs[v] \in {"none", "live"} /\ vmcs'[v] \in {"none", "live"}
  /\ \A s \in Thread :
       /\ pc'[s] \in InUse => pc[s] \in InUse /\ kvm'[s] = kvm[s]
       /\ pc'[s] \in Unpublished => pc[s] \in Unpublished /\ kvm'[s] = kvm[s]
       /\ pc[s] \in Destroying => pc'[s] \in Destroying /\ kvm'[s] = kvm[s]

LEMMA QuietLive == LiveInv /\ LiveQuiet => LiveInv'
<1> SUFFICES ASSUME LiveInv, LiveQuiet PROVE LiveInv'
  OBVIOUS
<1>1. \A t \in Thread : pc'[t] \in InUse => kvm'[t] = g_kvm' /\ vms'[g_kvm'] = "live"
  BY DEF LiveInv, LiveQuiet, InUse
<1>2. \A v \in VCPU : vmcs'[v] \in {"none", "live"} => vms'[vcpu_kvm'[v]] = "live"
  BY DEF LiveInv, LiveQuiet
<1>3. \A v \in VCPU : vmcs'[v] = "freed" =>
       \/ vms'[vcpu_kvm'[v]] = "released"
       \/ \E t \in Thread : pc'[t] \in Destroying /\ kvm'[t] = vcpu_kvm'[v]
  BY DEF LiveInv, LiveQuiet
<1>4. \A k \in VM : vms'[k] = "released" => AtVcpuLimit(k)'
  BY DEF LiveInv, LiveQuiet, AtVcpuLimit
<1>5. \A v \in VCPU, t \in Thread : pc'[t] \in Unpublished => kvm'[t] # vcpu_kvm'[v]
  BY DEF LiveInv, LiveQuiet
<1>6. QED BY <1>1, <1>2, <1>3, <1>4, <1>5 DEF LiveInv, InUse

LEMMA BugCheckLiveQuiet == TypeOK => \A f : BugCheck(f) => LiveQuiet
  BY DEF BugCheck, LiveQuiet, TypeOK

LEMMA OtherStepsLiveQuiet ==
  ASSUME TypeInv, VmcsInv, NEW t \in Thread, NEW e \in CPU,
         \/ link_vm(t) \/ KVM_CREATE_VCPU(t) \/ set_vpid(t)
         \/ alloc_loaded_vmcs(t) \/ load_insert(t) \/ load_vmptrld(t)
         \/ load_write(t, e) \/ kvm_vcpu_reset(t, e) \/ store_vcpu(t)
         \/ KVM_RUN(t)
  PROVE  LiveQuiet
<1> USE DEF TypeInv, TypeOK, LiveQuiet, InUse, Destroying, Creating,
            Unpublished, Goto
<1>1. CASE link_vm(t) BY <1>1, BugCheckLiveQuiet DEF link_vm
<1>2. CASE KVM_CREATE_VCPU(t) BY <1>2 DEF KVM_CREATE_VCPU
<1>3. CASE set_vpid(t) BY <1>3 DEF set_vpid
<1>4. CASE alloc_loaded_vmcs(t)
  <2>1. vmcs[vcpu[t]] = "none"
    BY <1>4 DEF alloc_loaded_vmcs, VmcsInv, CreatingInv, Early
  <2>2. QED BY <1>4, <2>1, BugCheckLiveQuiet DEF alloc_loaded_vmcs
<1>5. CASE load_insert(t) BY <1>5 DEF load_insert
<1>6. CASE load_vmptrld(t) BY <1>6, BugCheckLiveQuiet DEF load_vmptrld
<1>7. CASE load_write(t, e) BY <1>7, BugCheckLiveQuiet DEF load_write
<1>8. CASE kvm_vcpu_reset(t, e) BY <1>8, BugCheckLiveQuiet DEF kvm_vcpu_reset
<1>9. CASE store_vcpu(t) BY <1>9 DEF store_vcpu
<1>10. CASE KVM_RUN(t) BY <1>10, BugCheckLiveQuiet DEF KVM_RUN
<1>11. QED
  BY <1>1, <1>2, <1>3, <1>4, <1>5, <1>6, <1>7, <1>8, <1>9, <1>10

\* KVM_CREATE_VM: the new VM has no vCPU.
LEMMA CreateVmLive ==
  ASSUME Serial, TypeInv, VmcsInv, LiveInv, NEW t \in Thread,
         kvm_create_vm(t) \/ kvm_dev_ioctl_create_vm(t)
  PROVE  LiveInv'
<1> USE Alone
<1>1. CASE kvm_create_vm(t)
  <2>1. PICK k \in VM :
          /\ vms[k] = "unused" /\ vms' = [vms EXCEPT ![k] = "live"]
          /\ kvm' = [kvm EXCEPT ![t] = k]
          /\ pc[t] = "idle" /\ pc' = [pc EXCEPT ![t] = "link"]
    BY <1>1 DEF kvm_create_vm, Goto
  <2>2. UNCHANGED <<g_kvm, created_vcpus, vcpu_kvm, vmcs>>
    BY <1>1 DEF kvm_create_vm
  <2>3. \A v \in VCPU : vcpu_kvm[v] # k
    BY <2>1, ArrayOwner
  <2>4. pc'[t] = "link" /\ kvm'[t] = k
    BY <2>1 DEF TypeInv, TypeOK
  <2>5. \A j \in VM \ {k} : vms'[j] = vms[j]
    BY <2>1 DEF TypeInv, TypeOK
  <2>6. \A v \in VCPU : vmcs[v] # "unused" => vcpu_kvm[v] \in VM \ {k}
    BY <2>3 DEF VmcsInv, UnusedInv, TypeInv, TypeOK
  <2>7. \A v \in VCPU : vmcs[v] = "freed" => vms[vcpu_kvm[v]] = "released"
    BY <2>1 DEF LiveInv, Destroying
  <2>8. \A j \in VM : vms'[j] = "released" => AtVcpuLimit(j)'
    BY <2>1, <2>2, <2>5 DEF LiveInv, AtVcpuLimit, TypeInv, TypeOK
  <2>9. \A v \in VCPU : vmcs'[v] \in {"none", "live"} => vms'[vcpu_kvm'[v]] = "live"
    BY <2>2, <2>5, <2>6 DEF LiveInv
  <2>10. \A v \in VCPU : vmcs'[v] = "freed" => vms'[vcpu_kvm'[v]] = "released"
    BY <2>2, <2>5, <2>6, <2>7
  <2>11. QED
    BY <2>2, <2>3, <2>4, <2>8, <2>9, <2>10
    DEF LiveInv, Destroying, Creating, Unpublished
<1>2. CASE kvm_dev_ioctl_create_vm(t)
  <2>1. /\ pc[t] = "publish" /\ pc' = [pc EXCEPT ![t] = "idle"]
        /\ UNCHANGED vms \/ vms' = [vms EXCEPT ![kvm[t]] = "freed"]
        /\ UNCHANGED <<created_vcpus, vcpu_kvm, vmcs, kvm>>
    BY <1>2 DEF kvm_dev_ioctl_create_vm, Goto
  <2>2. kvm[t] \in VM /\ \A v \in VCPU : vcpu_kvm[v] # kvm[t]
    BY <2>1 DEF LiveInv, Unpublished, TypeInv, LocalsOK, Owning
  <2>3. pc'[t] = "idle"
    BY <2>1 DEF TypeInv, TypeOK
  <2>4. \A j \in VM \ {kvm[t]} : vms'[j] = vms[j]
    BY <2>1 DEF TypeInv, TypeOK
  <2>5. \A v \in VCPU : vmcs[v] # "unused" => vcpu_kvm[v] \in VM \ {kvm[t]}
    BY <2>2 DEF VmcsInv, UnusedInv, TypeInv, TypeOK
  <2>6. \A j \in VM : vms'[j] = "released" => AtVcpuLimit(j)'
    <3>1. \A j \in VM : vms'[j] = "released" => vms[j] = "released"
      BY <2>1, <2>2 DEF TypeInv, TypeOK
    <3>2. QED BY <2>1, <3>1 DEF LiveInv, AtVcpuLimit
  <2>7. \A v \in VCPU : vmcs[v] = "freed" => vms[vcpu_kvm[v]] = "released"
    BY <2>1 DEF LiveInv, Destroying
  <2>8. \A v \in VCPU : vmcs'[v] \in {"none", "live"} => vms'[vcpu_kvm'[v]] = "live"
    BY <2>1, <2>4, <2>5 DEF LiveInv
  <2>9. \A v \in VCPU : vmcs'[v] = "freed" => vms'[vcpu_kvm'[v]] = "released"
    BY <2>1, <2>4, <2>5, <2>7
  <2>10. QED
    BY <2>3, <2>6, <2>8, <2>9 DEF LiveInv, Destroying, Creating, Unpublished
<1>3. QED BY <1>1, <1>2

\* KVM_CREATE_VCPU: a VM that was released is at its limit.
LEMMA CreateVcpuLive ==
  ASSUME Serial, TypeInv, UsageInv, VmcsInv, LiveInv, NEW t \in Thread,
         reserve_vcpu(t) \/ alloc_vcpu(t)
  PROVE  LiveInv'
<1> USE Alone
<1>1. CASE reserve_vcpu(t)
  <2>1. CASE g_kvm = Null
    BY <1>1, <2>1, BugCheckLiveQuiet, QuietLive DEF reserve_vcpu, TypeInv
  <2>2. CASE g_kvm # Null /\ AtVcpuLimit(g_kvm)
    <3>1. LiveQuiet
      BY <1>1, <2>2 DEF reserve_vcpu, Goto, LiveQuiet, TypeInv, TypeOK, InUse,
         Destroying, Creating, Unpublished
    <3>2. QED BY <3>1, QuietLive
  <2>3. CASE g_kvm # Null /\ ~AtVcpuLimit(g_kvm)
    <3>1. /\ pc[t] = "reserve" /\ pc' = [pc EXCEPT ![t] = "alloc"]
          /\ created_vcpus' = [created_vcpus EXCEPT ![g_kvm] = @ + 1]
          /\ kvm' = [kvm EXCEPT ![t] = g_kvm]
          /\ UNCHANGED <<g_kvm, vms, vcpu_kvm, vmcs>>
      BY <1>1, <2>3 DEF reserve_vcpu, Goto
    <3>2. g_kvm \in VM
      BY <2>3 DEF TypeInv, TypeOK
    <3>3. vms[g_kvm] = "live"
      BY <2>3, <3>2 DEF UsageInv, LiveInv
    <3>4. pc'[t] = "alloc" /\ kvm'[t] = g_kvm
      BY <3>1 DEF TypeInv, TypeOK
    <3>5. \A k \in VM : vms'[k] = "released" => AtVcpuLimit(k)'
      <4>1. \A k \in VM \ {g_kvm} : created_vcpus'[k] = created_vcpus[k]
        BY <3>1 DEF TypeInv, TypeOK
      <4>2. QED BY <3>1, <3>3, <4>1 DEF LiveInv, AtVcpuLimit
    <3>6. \A v \in VCPU : vmcs[v] = "freed" => vms[vcpu_kvm[v]] = "released"
      BY <3>1 DEF LiveInv, Destroying
    <3>7. QED
      BY <3>1, <3>3, <3>4, <3>5, <3>6
      DEF LiveInv, Destroying, Creating, Unpublished
  <2>4. QED BY <2>1, <2>2, <2>3
<1>2. CASE alloc_vcpu(t) /\ UNCHANGED <<vmcs, vcpu_kvm>>
  <2>1. LiveQuiet
    BY <1>2 DEF alloc_vcpu, Goto, LiveQuiet, TypeInv, TypeOK, InUse, Destroying,
       Creating, Unpublished
  <2>2. QED BY <2>1, QuietLive
<1>3. CASE alloc_vcpu(t) /\ ~UNCHANGED <<vmcs, vcpu_kvm>>
  <2>1. PICK v \in VCPU :
          /\ pc' = [pc EXCEPT ![t] = "vpid"]
          /\ vmcs' = [vmcs EXCEPT ![v] = "none"]
          /\ vcpu_kvm' = [vcpu_kvm EXCEPT ![v] = kvm[t]]
    BY <1>3 DEF alloc_vcpu, Goto
  <2>2. pc[t] = "alloc" /\ UNCHANGED <<g_kvm, vms, created_vcpus, kvm>>
    BY <1>3 DEF alloc_vcpu
  <2>3. kvm[t] = g_kvm /\ vms[g_kvm] = "live"
    BY <2>2 DEF LiveInv
  <2>4. pc'[t] = "vpid"
    BY <2>1 DEF TypeInv, TypeOK
  <2>5. /\ vmcs'[v] = "none" /\ vcpu_kvm'[v] = g_kvm
        /\ \A w \in VCPU \ {v} : vmcs'[w] = vmcs[w] /\ vcpu_kvm'[w] = vcpu_kvm[w]
    BY <2>1, <2>3 DEF TypeInv, TypeOK
  <2>6. \A k \in VM : vms'[k] = "released" => AtVcpuLimit(k)'
    BY <2>2 DEF LiveInv, AtVcpuLimit
  <2>7. \A w \in VCPU : vmcs[w] = "freed" => vms[vcpu_kvm[w]] = "released"
    BY <2>2 DEF LiveInv, Destroying
  <2>8. \A w \in VCPU : vmcs'[w] \in {"none", "live"} => vms'[vcpu_kvm'[w]] = "live"
    BY <2>2, <2>3, <2>5 DEF LiveInv
  <2>9. \A w \in VCPU : vmcs'[w] = "freed" => vms'[vcpu_kvm'[w]] = "released"
    BY <2>2, <2>5, <2>7
  <2>10. QED
    BY <2>2, <2>3, <2>4, <2>6, <2>8, <2>9
    DEF LiveInv, Destroying, Creating, Unpublished
<1>4. QED BY <1>1, <1>2, <1>3

\* KVM_RELEASE_VM.
LEMMA ReleaseLive ==
  ASSUME Serial, TypeInv, UsageInv, VmcsInv, CountInv, LiveInv, DestroyInv,
         NEW t \in Thread, NEW e \in CPU,
         kvm_destroy_vm(t) \/ free_loaded_vmcs(t) \/ hardware_disable_all(t, e)
  PROVE  LiveInv'
<1> USE Alone
<1>1. CASE kvm_destroy_vm(t)
  <2>1. CASE BugCheck("null_kvm") \/ BugCheck("vm_list")
    BY <2>1, BugCheckLiveQuiet, QuietLive DEF TypeInv
  <2>2. CASE ~(BugCheck("null_kvm") \/ BugCheck("vm_list"))
    <3>1. /\ g_kvm # Null /\ g_kvm \in vm_list
          /\ pc[t] = "idle" /\ pc' = [pc EXCEPT ![t] = "destroy"]
          /\ kvm' = [kvm EXCEPT ![t] = g_kvm]
          /\ UNCHANGED <<g_kvm, vms, created_vcpus, vcpu_kvm, vmcs>>
      BY <1>1, <2>2 DEF kvm_destroy_vm, Goto, Unlinked
    <3>2. vms[g_kvm] = "live"
      BY <3>1 DEF UsageInv
    <3>3. pc'[t] = "destroy" /\ kvm'[t] = g_kvm
      BY <3>1 DEF TypeInv, TypeOK
    <3>4. \A k \in VM : vms'[k] = "released" => AtVcpuLimit(k)'
      BY <3>1 DEF LiveInv, AtVcpuLimit
    <3>5. \A v \in VCPU : vmcs[v] = "freed" => vms[vcpu_kvm[v]] = "released"
      BY <3>1 DEF LiveInv, Destroying
    <3>6. QED
      BY <3>1, <3>2, <3>3, <3>4, <3>5
      DEF LiveInv, Destroying, Creating, Unpublished
  <2>3. QED BY <2>1, <2>2
<1>2. CASE free_loaded_vmcs(t)
  <2>1. CASE \E f \in {"null_vcpu", "ud_vmclear", "vmclear_list"} : BugCheck(f)
    BY <2>1, BugCheckLiveQuiet, QuietLive DEF TypeInv
  <2>2. ASSUME NEW v \in VCPU, FreeStep(t, v) PROVE LiveInv'
    <3>1. /\ NextDestroy(t) /\ pc[t] = "destroy"
          /\ g_kvm \in VM /\ id[t] \in CPU /\ v = vcpu_array[g_kvm][id[t]]
          /\ UNCHANGED vmcs \/ vmcs' = [vmcs EXCEPT ![v] = "freed"]
          /\ UNCHANGED <<g_kvm, vms, created_vcpus, vcpu_kvm, kvm>>
      BY <2>2 DEF FreeStep
    <3>2. pc'[t] \in Destroying
      BY <3>1, NextDestroyPc DEF Destroying
    <3>3. vcpu_kvm[v] = g_kvm /\ kvm[t] = g_kvm /\ vms[g_kvm] = "live"
      BY <3>1 DEF VmcsInv, StoredInv, LiveInv, Destroying
    <3>4. \A w \in VCPU : w # v => vmcs'[w] = vmcs[w]
      BY <3>1 DEF TypeInv, TypeOK
    <3>5. vmcs'[v] = vmcs[v] \/ vmcs'[v] = "freed"
      BY <3>1 DEF TypeInv, TypeOK
    <3>6. \A k \in VM : vms'[k] = "released" => AtVcpuLimit(k)'
      BY <3>1 DEF LiveInv, AtVcpuLimit
    <3>7. \A w \in VCPU : vmcs'[w] \in {"none", "live"} => vms'[vcpu_kvm'[w]] = "live"
      BY <3>1, <3>4, <3>5 DEF LiveInv
    <3>8. \A w \in VCPU : vmcs'[w] = "freed" =>
            vms'[vcpu_kvm'[w]] = "released" \/ kvm'[t] = vcpu_kvm'[w]
      BY <3>1, <3>3, <3>4 DEF LiveInv
    <3>9. Unpublished \cap Destroying = {}
      BY DEF Unpublished, Destroying
    <3>10. QED
      BY <3>1, <3>2, <3>3, <3>6, <3>7, <3>8, <3>9 DEF LiveInv
  <2>3. QED BY <1>2, <2>1, <2>2, FreeCases
<1>3. CASE hardware_disable_all(t, e)
  <2>1. CASE \E f \in DisableFaults(e) : BugCheck(f)
    BY <2>1, BugCheckLiveQuiet, QuietLive DEF TypeInv
  <2>2. CASE ~\E f \in DisableFaults(e) : BugCheck(f)
    <3>1. /\ pc[t] = "disable" /\ pc' = [pc EXCEPT ![t] = "idle"]
          /\ vms' = [vms EXCEPT ![kvm[t]] = "released"]
          /\ UNCHANGED <<g_kvm, created_vcpus, vcpu_kvm, vmcs>>
      BY <1>3, <2>2 DEF hardware_disable_all, Goto
    <3>2. /\ kvm[t] = g_kvm /\ g_kvm \in VM /\ AtVcpuLimit(g_kvm)
          /\ \A v \in VCPU : vcpu_kvm[v] = g_kvm => vmcs[v] = "freed"
      BY <3>1, Released
    <3>3. pc'[t] = "idle"
      BY <3>1 DEF TypeInv, TypeOK
    <3>4. vms'[g_kvm] = "released" /\ \A k \in VM \ {g_kvm} : vms'[k] = vms[k]
      BY <3>1, <3>2 DEF TypeInv, TypeOK
    <3>5. \A k \in VM : vms'[k] = "released" => AtVcpuLimit(k)'
      BY <3>1, <3>2, <3>4 DEF LiveInv, AtVcpuLimit
    <3>6. \A v \in VCPU : vmcs[v] # "unused" => vcpu_kvm[v] \in VM
      BY DEF VmcsInv, UnusedInv, TypeInv, TypeOK
    <3>7. \A v \in VCPU : vmcs'[v] \in {"none", "live"} => vms'[vcpu_kvm'[v]] = "live"
      BY <3>1, <3>2, <3>4, <3>6 DEF LiveInv
    <3>8. \A v \in VCPU : vmcs'[v] = "freed" => vms'[vcpu_kvm'[v]] = "released"
      BY <3>1, <3>2, <3>4, <3>6 DEF LiveInv
    <3>9. QED
      BY <3>3, <3>5, <3>7, <3>8 DEF LiveInv, Destroying, Creating, Unpublished
  <2>3. QED BY <2>1, <2>2
<1>4. QED BY <1>1, <1>2, <1>3

\* kvm_destroy_vcpus.
LEMMA DestroyStep ==
  ASSUME Serial, TypeInv, VmcsInv, DestroyInv, NEW t \in Thread,
         ThreadStep(t)
  PROVE  DestroyInv'
<1>1. CASE \E f \in Faults : BugCheck(f)
  BY <1>1 DEF BugCheck, DestroyInv
<1>2. CASE pc'[t] \notin Destroying
  BY <1>2, Alone DEF DestroyInv
<1>3. CASE kvm_destroy_vm(t) /\ ~\E f \in Faults : BugCheck(f)
  <2>1. /\ pc' = [pc EXCEPT ![t] = "destroy"] /\ id' = [id EXCEPT ![t] = 0]
    BY <1>3 DEF kvm_destroy_vm, Goto, Faults
  <2>2. pc'[t] = "destroy" /\ id'[t] = 0
    BY <2>1 DEF TypeInv, TypeOK
  <2>3. \A i \in CPU : ~(i < 0)
    BY CpuFacts
  <2>4. QED BY <2>2, <2>3, Alone DEF DestroyInv
<1>4. ASSUME NEW v \in VCPU, FreeStep(t, v) PROVE DestroyInv'
  <2>1. /\ NextDestroy(t) /\ pc[t] = "destroy" /\ UNCHANGED <<g_kvm, vcpu_array>>
        /\ g_kvm \in VM /\ id[t] \in CPU /\ v = vcpu_array[g_kvm][id[t]]
        /\ \/ vmcs[v] # "live" /\ UNCHANGED vmcs
           \/ vmcs' = [vmcs EXCEPT ![v] = "freed"]
    BY <1>4 DEF FreeStep
  <2>2. v # Null /\ vmcs'[v] = "freed"
    BY <2>1, NullAssumption DEF VmcsInv, StoredInv, TypeInv, TypeOK
  <2>3. \A w \in VCPU : vmcs[w] = "freed" => vmcs'[w] = "freed"
    BY <2>1 DEF TypeInv, TypeOK
  <2>4. \A i \in CPU : i < id[t] \/ i = id[t] =>
          vcpu_array[g_kvm][i] # Null /\ vmcs'[vcpu_array[g_kvm][i]] = "freed"
    <3>1. \A i \in CPU : vcpu_array[g_kvm][i] \in VCPU \cup {Null}
      BY <2>1 DEF TypeInv, TypeOK
    <3>2. QED BY <2>1, <2>2, <2>3, <3>1 DEF DestroyInv, Destroying
  <2>5. \/ pc'[t] = "destroy" /\ id'[t] = id[t] + 1
        \/ pc'[t] = "disable" /\ id[t] = N - 1
    BY <2>1 DEF NextDestroy, Goto, LastId, TypeInv, TypeOK
  <2>6. \A i \in CPU : i < id'[t] \/ pc'[t] = "disable" => i < id[t] \/ i = id[t]
    BY <2>1, <2>5, NAssumption DEF CPU
  <2>7. QED BY <2>1, <2>4, <2>6, Alone DEF DestroyInv
<1>5. \/ \E f \in Faults : BugCheck(f)
      \/ pc'[t] \notin Destroying
      \/ kvm_destroy_vm(t) \/ free_loaded_vmcs(t)
  <2> USE DEF TypeInv, TypeOK, Destroying, Goto, Faults
  <2>1. CASE kvm_create_vm(t) BY <2>1 DEF kvm_create_vm
  <2>2. CASE link_vm(t) BY <2>2 DEF link_vm
  <2>3. CASE kvm_dev_ioctl_create_vm(t) BY <2>3 DEF kvm_dev_ioctl_create_vm
  <2>4. CASE KVM_CREATE_VCPU(t) BY <2>4 DEF KVM_CREATE_VCPU
  <2>5. CASE reserve_vcpu(t) BY <2>5 DEF reserve_vcpu
  <2>6. CASE alloc_vcpu(t) BY <2>6 DEF alloc_vcpu
  <2>7. CASE set_vpid(t) BY <2>7 DEF set_vpid
  <2>8. CASE alloc_loaded_vmcs(t) BY <2>8 DEF alloc_loaded_vmcs
  <2>9. CASE load_insert(t) BY <2>9 DEF load_insert
  <2>10. CASE load_vmptrld(t) BY <2>10 DEF load_vmptrld
  <2>11. CASE \E c \in CPU : load_write(t, c) BY <2>11 DEF load_write
  <2>12. CASE \E c \in CPU : kvm_vcpu_reset(t, c) BY <2>12 DEF kvm_vcpu_reset
  <2>13. CASE store_vcpu(t) BY <2>13 DEF store_vcpu
  <2>14. CASE KVM_RUN(t) BY <2>14 DEF KVM_RUN, BugCheck
  <2>15. CASE \E c \in CPU : hardware_disable_all(t, c)
    BY <2>15 DEF hardware_disable_all, DisableFaults
  <2>16. QED
    BY <2>1, <2>2, <2>3, <2>4, <2>5, <2>6, <2>7, <2>8, <2>9, <2>10, <2>11,
       <2>12, <2>13, <2>14, <2>15 DEF ThreadStep
<1>6. QED
  <2>1. CASE free_loaded_vmcs(t)
    BY <2>1, <1>1, <1>4, FreeCases DEF Faults
  <2>2. QED BY <1>1, <1>2, <1>3, <1>5, <2>1

-----------------------------------------------------------------------------
(***************************************************************************)
(* VMX operation where a VM in use has a vCPU.                             *)
(***************************************************************************)
RootQuiet ==
  /\ UNCHANGED vcpu_array
  /\ \A k \in VM : vms'[k] = "live" => vms[k] = "live"
  /\ \A c \in CPU : vmx_root[c] => vmx_root'[c]
  /\ \A s \in Thread : pc'[s] \in Middle \cup Late =>
                         pc[s] \in Middle \cup Late /\ id'[s] = id[s]

LEMMA QuietRoot == TypeInv /\ RootInv /\ RootQuiet => RootInv'
  BY DEF TypeInv, TypeOK, RootInv, RootQuiet

LEMMA BugCheckRootQuiet == TypeOK => \A f : BugCheck(f) => RootQuiet
  BY DEF BugCheck, RootQuiet, TypeOK

LEMMA OtherStepsRootQuiet ==
  ASSUME TypeInv, VmcsInv, NEW t \in Thread, NEW e \in CPU,
         \/ link_vm(t) \/ kvm_dev_ioctl_create_vm(t) \/ KVM_CREATE_VCPU(t)
         \/ reserve_vcpu(t) \/ alloc_vcpu(t) \/ set_vpid(t)
         \/ load_insert(t) \/ load_vmptrld(t)
         \/ load_write(t, e) \/ kvm_vcpu_reset(t, e)
         \/ KVM_RUN(t) \/ kvm_destroy_vm(t) \/ free_loaded_vmcs(t)
  PROVE  RootQuiet
<1> USE DEF TypeInv, TypeOK, RootQuiet, Middle, Late, Goto
<1>1. CASE link_vm(t) BY <1>1, BugCheckRootQuiet DEF link_vm
<1>2. CASE kvm_dev_ioctl_create_vm(t) BY <1>2 DEF kvm_dev_ioctl_create_vm
<1>3. CASE KVM_CREATE_VCPU(t) BY <1>3 DEF KVM_CREATE_VCPU
<1>4. CASE reserve_vcpu(t)
  <2>1. CASE g_kvm = Null BY <1>4, <2>1, BugCheckRootQuiet DEF reserve_vcpu
  <2>2. CASE g_kvm # Null BY <1>4, <2>2 DEF reserve_vcpu
  <2>3. QED BY <2>1, <2>2
<1>5. CASE alloc_vcpu(t) BY <1>5 DEF alloc_vcpu
<1>6. CASE set_vpid(t) BY <1>6 DEF set_vpid
<1>7. CASE load_insert(t) BY <1>7 DEF load_insert
<1>8. CASE load_vmptrld(t) BY <1>8, BugCheckRootQuiet DEF load_vmptrld
<1>9. CASE load_write(t, e) BY <1>9, BugCheckRootQuiet DEF load_write
<1>10. CASE kvm_vcpu_reset(t, e) BY <1>10, BugCheckRootQuiet DEF kvm_vcpu_reset
<1>11. CASE KVM_RUN(t) BY <1>11, BugCheckRootQuiet DEF KVM_RUN
<1>12. CASE kvm_destroy_vm(t) BY <1>12, BugCheckRootQuiet DEF kvm_destroy_vm
<1>13. CASE free_loaded_vmcs(t)
  <2>1. CASE \E f \in {"null_vcpu", "ud_vmclear", "vmclear_list"} : BugCheck(f)
    BY <2>1, BugCheckRootQuiet
  <2>2. ASSUME NEW v \in VCPU, FreeStep(t, v) PROVE RootQuiet
    <3>1. NextDestroy(t) /\ UNCHANGED <<vcpu_array, vms, vmx_root>>
      BY <2>2 DEF FreeStep
    <3>2. QED BY <3>1, NextDestroyPc
  <2>3. QED BY <1>13, <2>1, <2>2, FreeCases
<1>14. QED
  BY <1>1, <1>2, <1>3, <1>4, <1>5, <1>6, <1>7, <1>8, <1>9, <1>10, <1>11, <1>12,
     <1>13

\* VMXON for the first VM, VMCLEAR of a new VMCS, the array, and VMXOFF.
LEMMA RootStep ==
  ASSUME Serial, TypeInv, UsageInv, VmcsInv, CountInv, LiveInv, DestroyInv,
         RootInv, NEW t \in Thread, NEW e \in CPU,
         \/ kvm_create_vm(t) \/ alloc_loaded_vmcs(t) \/ store_vcpu(t)
         \/ hardware_disable_all(t, e)
  PROVE  RootInv'
<1> USE Alone
<1>1. CASE kvm_create_vm(t)
  <2>1. PICK k \in VM : vms[k] = "unused" /\ vms' = [vms EXCEPT ![k] = "live"]
    BY <1>1 DEF kvm_create_vm
  <2>2. /\ pc' = [pc EXCEPT ![t] = "link"] /\ UNCHANGED vcpu_array
    BY <1>1 DEF kvm_create_vm, Goto
  <2>3. \A c \in CPU : vmx_root[c] => vmx_root'[c]
    BY <1>1 DEF kvm_create_vm
  <2>4. \A i \in CPU : vcpu_array[k][i] = Null
    <3>1. \A i \in CPU : vcpu_array[k][i] \in VCPU \cup {Null}
      BY DEF TypeInv, TypeOK
    <3>2. \A i \in CPU : vcpu_array[k][i] \in VCPU => vcpu_kvm[vcpu_array[k][i]] = k
      BY DEF VmcsInv, StoredInv
    <3>3. \A v \in VCPU : vcpu_kvm[v] # k
      BY <2>1, ArrayOwner
    <3>4. QED BY <3>1, <3>2, <3>3
  <2>5. pc'[t] \notin Middle \cup Late
    BY <2>2 DEF TypeInv, TypeOK, Middle, Late
  <2>6. \A j \in VM \ {k} : vms'[j] = vms[j]
    BY <2>1 DEF TypeInv, TypeOK
  <2>7. QED BY <2>2, <2>3, <2>4, <2>5, <2>6 DEF RootInv
<1>2. CASE alloc_loaded_vmcs(t)
  <2>1. CASE BugCheck("ud_vmclear") \/ BugCheck("null_vmcs")
    BY <2>1, BugCheckRootQuiet, QuietRoot DEF TypeInv
  <2>2. CASE ~(BugCheck("ud_vmclear") \/ BugCheck("null_vmcs"))
    BY <1>2, <2>2 DEF alloc_loaded_vmcs, RootInv
  <2>3. QED BY <2>1, <2>2
<1>3. CASE store_vcpu(t)
  <2>1. /\ pc[t] = "store"
        /\ vcpu_array' = [vcpu_array EXCEPT ![kvm[t]] = [@ EXCEPT ![id[t]] = vcpu[t]]]
        /\ UNCHANGED <<vms, vmx_root>>
    BY <1>3 DEF store_vcpu
  <2>2. pc'[t] \notin Middle \cup Late
    BY <1>3 DEF store_vcpu, Goto, TypeInv, TypeOK, Middle, Late
  <2>3. vmx_root[id[t]] /\ kvm[t] \in VM /\ id[t] \in CPU
    BY <2>1 DEF RootInv, Late, Creating, TypeInv, TypeOK, LocalsOK
  <2>4. \A k \in VM, i \in CPU :
          vcpu_array'[k][i] = vcpu_array[k][i] \/ i = id[t]
    BY <2>1, <2>3 DEF TypeInv, TypeOK
  <2>5. QED BY <2>1, <2>2, <2>3, <2>4 DEF RootInv
<1>4. CASE hardware_disable_all(t, e)
  <2>1. CASE \E f \in DisableFaults(e) : BugCheck(f)
    BY <2>1, BugCheckRootQuiet, QuietRoot DEF TypeInv
  <2>2. CASE ~\E f \in DisableFaults(e) : BugCheck(f)
    <3>1. /\ pc[t] = "disable" /\ pc' = [pc EXCEPT ![t] = "idle"]
          /\ vms' = [vms EXCEPT ![kvm[t]] = "released"]
          /\ UNCHANGED vcpu_array
          /\ UNCHANGED vmx_root \/ LastUser
      BY <1>4, <2>2 DEF hardware_disable_all, Goto
    <3>2. kvm[t] = g_kvm /\ g_kvm \in VM
      BY <3>1, Released
    <3>3. vms'[g_kvm] = "released" /\ \A k \in VM \ {g_kvm} : vms'[k] = vms[k]
      BY <3>1, <3>2 DEF TypeInv, TypeOK
    <3>4. pc'[t] \notin Middle \cup Late
      BY <3>1 DEF TypeInv, TypeOK, Middle, Late
    <3>5. LastUser => \A k \in VM : vms'[k] # "live"
      BY <3>1, <3>3, LastRelease
    <3>6. QED BY <3>1, <3>3, <3>4, <3>5 DEF RootInv
  <2>3. QED BY <2>1, <2>2
<1>5. QED BY <1>1, <1>2, <1>3, <1>4

-----------------------------------------------------------------------------
(***************************************************************************)
(* current_vmcs.                                                           *)
(***************************************************************************)
CurrentQuiet ==
  /\ UNCHANGED <<current_vmcs, vmptr, g_kvm, vcpu_array>>
  /\ \A v \in VCPU : \/ vmcs'[v] = vmcs[v]
                     \/ \A k \in VM, i \in CPU : vcpu_array[k][i] # v
  /\ \A s \in Thread :
       /\ pc'[s] = "vmptrld" <=> pc[s] = "vmptrld"
       /\ pc'[s] \in Loaded <=> pc[s] \in Loaded
       /\ pc[s] \in Loaded => vcpu'[s] = vcpu[s] /\ id'[s] = id[s]

LEMMA QuietCurrent == TypeInv /\ CurrentInv /\ CurrentQuiet => CurrentInv'
<1> SUFFICES ASSUME TypeInv, CurrentInv, CurrentQuiet PROVE CurrentInv'
  OBVIOUS
<1>1. CurrentVmcsAgrees'
  BY DEF CurrentInv, CurrentQuiet, CurrentVmcsAgrees, Loaded
<1>2. \A t \in Thread : pc'[t] \in Loaded => current_vmcs'[id'[t]] = vcpu'[t]
  BY DEF CurrentInv, CurrentQuiet
<1>3. ASSUME NEW c \in CPU, g_kvm # Null, vcpu_array[g_kvm][c] # Null
      PROVE  LoadedPointer(vcpu_array[g_kvm][c])' = LoadedPointer(vcpu_array[g_kvm][c])
  <2>1. g_kvm \in VM /\ vcpu_array[g_kvm][c] \in VCPU
    BY <1>3 DEF TypeInv, TypeOK
  <2>2. QED BY <2>1 DEF CurrentQuiet, LoadedPointer
<1>4. \A c \in CPU :
       g_kvm' # Null /\ vcpu_array'[g_kvm'][c] # Null =>
         \/ current_vmcs'[c] = LoadedPointer(vcpu_array[g_kvm][c])'
         \/ \E t \in Thread : pc'[t] \in Loaded /\ id'[t] = c
  BY <1>3 DEF CurrentInv, CurrentQuiet
<1>5. QED BY <1>1, <1>2, <1>4 DEF CurrentInv

LEMMA BugCheckCurrentQuiet == TypeOK => \A f : BugCheck(f) => CurrentQuiet
  BY DEF BugCheck, CurrentQuiet, TypeOK

LEMMA OtherStepsCurrentQuiet ==
  ASSUME TypeInv, VmcsInv, NEW t \in Thread, NEW e \in CPU,
         \/ kvm_create_vm(t) \/ link_vm(t) \/ KVM_CREATE_VCPU(t)
         \/ reserve_vcpu(t) \/ alloc_vcpu(t) \/ set_vpid(t)
         \/ alloc_loaded_vmcs(t) \/ load_write(t, e) \/ kvm_vcpu_reset(t, e)
         \/ KVM_RUN(t) \/ kvm_destroy_vm(t)
  PROVE  CurrentQuiet
<1> USE DEF TypeInv, TypeOK, CurrentQuiet, Loaded, Goto
<1>1. CASE kvm_create_vm(t) BY <1>1 DEF kvm_create_vm
<1>2. CASE link_vm(t) BY <1>2, BugCheckCurrentQuiet DEF link_vm
<1>3. CASE KVM_CREATE_VCPU(t) BY <1>3 DEF KVM_CREATE_VCPU
<1>4. CASE reserve_vcpu(t)
  <2>1. CASE g_kvm = Null BY <1>4, <2>1, BugCheckCurrentQuiet DEF reserve_vcpu
  <2>2. CASE g_kvm # Null BY <1>4, <2>2 DEF reserve_vcpu
  <2>3. QED BY <2>1, <2>2
<1>5. CASE alloc_vcpu(t)
  <2>1. \A v \in VCPU : \/ vmcs'[v] = vmcs[v]
                        \/ \A k \in VM, i \in CPU : vcpu_array[k][i] # v
    <3>1. \A v \in VCPU : vmcs[v] = "unused" =>
            \A k \in VM, i \in CPU : vcpu_array[k][i] # v
      BY DEF VmcsInv, StoredInv
    <3>2. \A v \in VCPU : vmcs'[v] = vmcs[v] \/ vmcs[v] = "unused"
      BY <1>5 DEF alloc_vcpu
    <3>3. QED BY <3>1, <3>2
  <2>2. QED BY <1>5, <2>1 DEF alloc_vcpu
<1>6. CASE set_vpid(t) BY <1>6 DEF set_vpid
<1>7. CASE alloc_loaded_vmcs(t)
  <2>1. \A k \in VM, i \in CPU : vcpu_array[k][i] # vcpu[t]
    BY <1>7, OwnVcpu DEF alloc_loaded_vmcs, Creating
  <2>2. QED BY <1>7, <2>1, BugCheckCurrentQuiet DEF alloc_loaded_vmcs
<1>8. CASE load_write(t, e) BY <1>8, BugCheckCurrentQuiet DEF load_write
<1>9. CASE kvm_vcpu_reset(t, e) BY <1>9, BugCheckCurrentQuiet DEF kvm_vcpu_reset
<1>10. CASE KVM_RUN(t) BY <1>10, BugCheckCurrentQuiet DEF KVM_RUN
<1>11. CASE kvm_destroy_vm(t) BY <1>11, BugCheckCurrentQuiet DEF kvm_destroy_vm
<1>12. QED
  BY <1>1, <1>2, <1>3, <1>4, <1>5, <1>6, <1>7, <1>8, <1>9, <1>10, <1>11

\* A new VM is published: its array is empty.
LEMMA PublishCurrent ==
  ASSUME Serial, TypeInv, VmcsInv, LiveInv, CurrentInv, NEW t \in Thread,
         kvm_dev_ioctl_create_vm(t)
  PROVE  CurrentInv'
<1>1. /\ pc[t] = "publish" /\ pc' = [pc EXCEPT ![t] = "idle"]
      /\ g_kvm' \in {g_kvm, kvm[t]}
      /\ UNCHANGED <<current_vmcs, vmptr, vcpu_array, vmcs, id, vcpu, kvm>>
  BY DEF kvm_dev_ioctl_create_vm, Goto
<1>2. pc'[t] = "idle"
  BY <1>1 DEF TypeInv, TypeOK
<1>3. kvm[t] \in VM /\ \A i \in CPU : vcpu_array[kvm[t]][i] = Null
  <2>1. kvm[t] \in VM /\ \A v \in VCPU : vcpu_kvm[v] # kvm[t]
    BY <1>1 DEF LiveInv, Unpublished, TypeInv, LocalsOK, Owning
  <2>2. \A i \in CPU : vcpu_array[kvm[t]][i] \in VCPU \cup {Null}
    BY <2>1 DEF TypeInv, TypeOK
  <2>3. QED BY <2>1, <2>2 DEF VmcsInv, StoredInv
<1>4. \A c \in CPU : current_vmcs[c] = vmptr[c]
  BY <1>1, Alone DEF CurrentInv, CurrentVmcsAgrees
<1>5. \A c \in CPU :
        g_kvm # Null /\ vcpu_array[g_kvm][c] # Null =>
          current_vmcs[c] = LoadedPointer(vcpu_array[g_kvm][c])
  BY <1>1, Alone DEF CurrentInv, Loaded
<1>6. \A c \in CPU :
        g_kvm' # Null /\ vcpu_array'[g_kvm'][c] # Null =>
          current_vmcs'[c] = LoadedPointer(vcpu_array[g_kvm][c])'
  BY <1>1, <1>3, <1>5 DEF LoadedPointer
<1>7. CurrentVmcsAgrees'
  BY <1>1, <1>4 DEF CurrentVmcsAgrees
<1>8. QED BY <1>2, <1>6, <1>7, Alone DEF CurrentInv, Loaded

\* vmx_vcpu_load_vmcs and the assignment to the array.
LEMMA LoadCurrent ==
  ASSUME Serial, TypeInv, VmcsInv, LiveInv, CurrentInv, NEW t \in Thread,
         load_insert(t) \/ load_vmptrld(t) \/ store_vcpu(t)
  PROVE  CurrentInv'
<1> DEFINE v == vcpu[t]
<1>1. CASE load_insert(t)
  <2>1. /\ pc[t] = "insert" /\ pc' = [pc EXCEPT ![t] = "vmptrld"]
        /\ current_vmcs' = [current_vmcs EXCEPT ![id[t]] = v]
        /\ UNCHANGED <<vmptr, g_kvm, vcpu_array, vmcs, id, vcpu>>
    BY <1>1 DEF load_insert, Goto
  <2>2. pc'[t] = "vmptrld" /\ id[t] \in CPU
    BY <2>1 DEF TypeInv, TypeOK
  <2>3. /\ current_vmcs'[id[t]] = v
        /\ \A c \in CPU : c # id[t] => current_vmcs'[c] = current_vmcs[c]
    BY <2>1, <2>2 DEF TypeInv, TypeOK
  <2>4. \A c \in CPU : current_vmcs[c] = vmptr[c]
    BY <2>1, Alone DEF CurrentInv, CurrentVmcsAgrees
  <2>5. \A c \in CPU :
          g_kvm # Null /\ vcpu_array[g_kvm][c] # Null =>
            current_vmcs[c] = LoadedPointer(vcpu_array[g_kvm][c])
    BY <2>1, Alone DEF CurrentInv, Loaded
  <2>6. \A c \in CPU :
          g_kvm' # Null /\ vcpu_array'[g_kvm'][c] # Null =>
            current_vmcs'[c] = LoadedPointer(vcpu_array[g_kvm][c])' \/ id'[t] = c
    BY <2>1, <2>3, <2>5 DEF LoadedPointer
  <2>7. CurrentVmcsAgrees'
    BY <2>1, <2>2, <2>3, <2>4 DEF CurrentVmcsAgrees
  <2>8. QED BY <2>1, <2>2, <2>3, <2>6, <2>7, Alone DEF CurrentInv, Loaded
<1>2. CASE load_vmptrld(t)
  <2>1. CASE ~vmx_root[LoadTarget(t)]
    BY <1>2, <2>1, BugCheckCurrentQuiet, QuietCurrent DEF load_vmptrld, TypeInv
  <2>2. CASE vmx_root[LoadTarget(t)]
    <3>1. /\ pc[t] = "vmptrld" /\ pc' = [pc EXCEPT ![t] = "load"]
          /\ vmptr' = [vmptr EXCEPT ![vcpu_id[v]] = v]
          /\ UNCHANGED <<current_vmcs, g_kvm, vcpu_array, vmcs, id, vcpu>>
      BY <1>2, <2>2 DEF load_vmptrld, LoadTarget, Goto
    <3>2. vcpu_id[v] = id[t] /\ id[t] \in CPU
      BY <3>1, OwnVcpu DEF Creating
    <3>3. /\ vmptr'[id[t]] = v
          /\ \A c \in CPU : c # id[t] => vmptr'[c] = vmptr[c]
      BY <3>1, <3>2 DEF TypeInv, TypeOK
    <3>4. current_vmcs[id[t]] = v
      BY <3>1 DEF CurrentInv, Loaded
    <3>5. CurrentVmcsAgrees'
      BY <3>1, <3>3, <3>4, Alone DEF CurrentInv, CurrentVmcsAgrees
    <3>6. pc'[t] \in Loaded /\ pc[t] \in Loaded
      BY <3>1 DEF Loaded, TypeInv, TypeOK
    <3>7. \A c \in CPU :
            g_kvm' # Null /\ vcpu_array'[g_kvm'][c] # Null =>
              current_vmcs'[c] = LoadedPointer(vcpu_array[g_kvm][c])' \/ id'[t] = c
      BY <3>1, Alone DEF CurrentInv, LoadedPointer
    <3>8. QED BY <3>1, <3>4, <3>5, <3>6, <3>7, Alone DEF CurrentInv
  <2>3. QED BY <2>1, <2>2
<1>3. CASE store_vcpu(t)
  <2>1. /\ pc[t] = "store"
        /\ vcpu_array' = [vcpu_array EXCEPT ![kvm[t]] = [@ EXCEPT ![id[t]] = v]]
        /\ UNCHANGED <<current_vmcs, vmptr, g_kvm, vmcs, vcpu>>
    BY <1>3 DEF store_vcpu
  <2>2. pc'[t] \notin Loaded
    BY <1>3 DEF store_vcpu, Goto, TypeInv, TypeOK, Loaded
  <2>3. /\ kvm[t] = g_kvm /\ g_kvm \in VM /\ id[t] \in CPU
        /\ current_vmcs[id[t]] = v /\ vmcs[v] = "live"
    BY <2>1, OwnVcpu DEF LiveInv, CurrentInv, Loaded, Creating, Late, VmcsInv,
       CreatingInv
  <2>4. \A c \in CPU : vcpu_array'[g_kvm][c] =
                         IF c = id[t] THEN v ELSE vcpu_array[g_kvm][c]
    BY <2>1, <2>3 DEF TypeInv, TypeOK
  <2>5. \A c \in CPU : current_vmcs[c] = vmptr[c]
    BY <2>1, Alone DEF CurrentInv, CurrentVmcsAgrees
  <2>6. \A c \in CPU : c # id[t] =>
          (vcpu_array[g_kvm][c] # Null =>
             current_vmcs[c] = LoadedPointer(vcpu_array[g_kvm][c]))
    BY <2>3, NullAssumption, Alone DEF CurrentInv
  <2>7. \A c \in CPU :
          g_kvm' # Null /\ vcpu_array'[g_kvm'][c] # Null =>
            current_vmcs'[c] = LoadedPointer(vcpu_array[g_kvm][c])'
    BY <2>1, <2>3, <2>4, <2>6 DEF LoadedPointer
  <2>8. CurrentVmcsAgrees'
    BY <2>1, <2>5 DEF CurrentVmcsAgrees
  <2>9. QED BY <2>2, <2>7, <2>8, Alone DEF CurrentInv
<1>4. QED BY <1>1, <1>2, <1>3

\* free_loaded_vmcs clears the VMCS where it is current, and VMXOFF comes when
\* none is.
LEMMA ReleaseCurrent ==
  ASSUME Serial, TypeInv, UsageInv, VmcsInv, CountInv, LiveInv, DestroyInv,
         CurrentInv, NEW t \in Thread, NEW e \in CPU,
         free_loaded_vmcs(t) \/ hardware_disable_all(t, e)
  PROVE  CurrentInv'
<1>1. ASSUME NEW v \in VCPU, FreeStep(t, v) PROVE CurrentInv'
  <2>1. /\ pc[t] = "destroy" /\ NextDestroy(t)
        /\ g_kvm \in VM /\ id[t] \in CPU /\ v = vcpu_array[g_kvm][id[t]]
        /\ UNCHANGED <<g_kvm, vcpu_array, vcpu>>
    BY <1>1 DEF FreeStep
  <2>2. pc'[t] \notin Loaded /\ pc'[t] # "vmptrld" /\ pc[t] \notin Loaded
    BY <2>1, NextDestroyPc DEF Loaded
  <2>3. vcpu_id[v] = id[t] /\ v # Null /\ g_kvm # Null
    BY <2>1, NullAssumption DEF VmcsInv, StoredInv
  <2>4. \A c \in CPU : current_vmcs[c] = vmptr[c]
    BY <2>1, Alone DEF CurrentInv, CurrentVmcsAgrees
  <2>5. \A c \in CPU : vcpu_array[g_kvm][c] # Null =>
          current_vmcs[c] = LoadedPointer(vcpu_array[g_kvm][c])
    BY <2>2, <2>3, Alone DEF CurrentInv
  <2>6. CASE UNCHANGED <<vmptr, loadedVars>>
    <3>1. CurrentVmcsAgrees'
      BY <2>4, <2>6 DEF CurrentVmcsAgrees
    <3>2. \A c \in CPU : vcpu_array'[g_kvm'][c] # Null =>
            current_vmcs'[c] = LoadedPointer(vcpu_array[g_kvm][c])'
      BY <2>1, <2>5, <2>6 DEF LoadedPointer
    <3>3. QED BY <2>2, <3>1, <3>2, Alone DEF CurrentInv
  <2>7. CASE /\ vmcs[v] = "live" /\ vmcs' = [vmcs EXCEPT ![v] = "freed"]
             /\ __loaded_vmcs_clear(v, vcpu_id[v])
    <3>1. current_vmcs[id[t]] = v /\ vmptr[id[t]] = v
      BY <2>1, <2>3, <2>4, <2>5, <2>7 DEF LoadedPointer
    <3>2. \A c \in CPU :
            /\ current_vmcs'[c] = IF c = id[t] THEN Null ELSE current_vmcs[c]
            /\ vmptr'[c] = IF c = id[t] THEN Null ELSE vmptr[c]
      BY <2>1, <2>3, <2>7, <3>1 DEF __loaded_vmcs_clear, TypeInv, TypeOK
    <3>3. vmcs'[v] = "freed" /\ \A w \in VCPU : w # v => vmcs'[w] = vmcs[w]
      BY <2>7 DEF TypeInv, TypeOK
    <3>4. ASSUME NEW c \in CPU, vcpu_array[g_kvm][c] # Null
          PROVE  current_vmcs'[c] = LoadedPointer(vcpu_array[g_kvm][c])'
      <4>1. vcpu_array[g_kvm][c] \in VCPU
        BY <2>1, <3>4 DEF TypeInv, TypeOK
      <4>2. c # id[t] => vcpu_array[g_kvm][c] # v
        BY <2>1, <2>3 DEF VmcsInv, StoredInv
      <4>3. CASE c = id[t]
        BY <2>1, <3>2, <3>3, <4>3 DEF LoadedPointer
      <4>4. CASE c # id[t]
        BY <2>1, <2>5, <3>2, <3>3, <3>4, <4>1, <4>2, <4>4 DEF LoadedPointer
      <4>5. QED BY <4>3, <4>4
    <3>5. CurrentVmcsAgrees'
      BY <2>4, <3>2 DEF CurrentVmcsAgrees
    <3>6. \A c \in CPU : vcpu_array'[g_kvm'][c] # Null =>
            current_vmcs'[c] = LoadedPointer(vcpu_array[g_kvm][c])'
      BY <2>1, <3>4
    <3>7. QED BY <2>2, <3>5, <3>6, Alone DEF CurrentInv
  <2>8. QED BY <1>1, <2>6, <2>7 DEF FreeStep
<1>2. CASE hardware_disable_all(t, e)
  <2>1. CASE \E f \in DisableFaults(e) : BugCheck(f)
    BY <2>1, BugCheckCurrentQuiet, QuietCurrent DEF TypeInv
  <2>2. CASE ~\E f \in DisableFaults(e) : BugCheck(f)
    <3>1. /\ pc[t] = "disable" /\ pc' = [pc EXCEPT ![t] = "idle"]
          /\ UNCHANGED <<current_vmcs, g_kvm, vcpu_array, vmcs, vcpu, id>>
          /\ UNCHANGED vmptr \/ (LastUser /\ vmptr' = [c \in CPU |-> Null])
      BY <1>2, <2>2 DEF hardware_disable_all, cpu_vmxoff, Goto
    <3>2. pc'[t] = "idle"
      BY <3>1 DEF TypeInv, TypeOK
    <3>3. \A c \in CPU : current_vmcs[c] = vmptr[c]
      BY <3>1, Alone DEF CurrentInv, CurrentVmcsAgrees
    <3>4. LastUser => \A c \in CPU : current_vmcs[c] = Null
      <4>1. LastUser => \A v \in VCPU : vmcs[v] # "live"
        BY <3>1, LastRelease
      <4>2. QED BY <4>1 DEF VmcsInv, HomeInv, TypeInv, TypeOK
    <3>5. CurrentVmcsAgrees'
      BY <3>1, <3>3, <3>4 DEF CurrentVmcsAgrees
    <3>6. \A c \in CPU :
            g_kvm # Null /\ vcpu_array[g_kvm][c] # Null =>
              current_vmcs[c] = LoadedPointer(vcpu_array[g_kvm][c])
      BY <3>1, Alone DEF CurrentInv, Loaded
    <3>7. \A c \in CPU :
            g_kvm' # Null /\ vcpu_array'[g_kvm'][c] # Null =>
              current_vmcs'[c] = LoadedPointer(vcpu_array[g_kvm][c])'
      BY <3>1, <3>6 DEF LoadedPointer
    <3>8. QED BY <3>2, <3>5, <3>7, Alone DEF CurrentInv, Loaded
  <2>3. QED BY <2>1, <2>2
<1>3. CASE free_loaded_vmcs(t)
  BY <1>1, <1>3, FreeCases, BugCheckCurrentQuiet, QuietCurrent DEF TypeInv
<1>4. QED BY <1>2, <1>3

-----------------------------------------------------------------------------
(***************************************************************************)
(* Freed VMCSs on a list.                                                  *)
(***************************************************************************)
OrphanQuiet ==
  /\ \A v \in VCPU : vmcs'[v] = "freed" /\ vmcs_cpu'[v] # -1 =>
                       vmcs[v] = "freed" /\ vmcs_cpu[v] # -1
  /\ \A k \in VM : Orphan(k) => Orphan(k)'

LEMMA QuietOrphan == OrphanInv /\ OrphanQuiet => OrphanInv'
  BY DEF OrphanInv, OrphanQuiet

\* A VM is an orphan for ever: no step touches it, and g_kvm never becomes it.
LEMMA OrphanStays ==
  ASSUME Serial, TypeInv, LiveInv, NEW t \in Thread, ThreadStep(t),
         NEW k \in VM, Orphan(k)
  PROVE  Orphan(k)'
<1> DEFINE Kept == UNCHANGED <<vms, g_kvm>>
                   /\ (pc'[t] \in Unpublished => pc[t] \in Unpublished /\ kvm'[t] = kvm[t])
<1>1. Kept => Orphan(k)'
  BY Alone DEF Orphan
<1>2. CASE \E f \in Faults : BugCheck(f)
  BY <1>1, <1>2 DEF BugCheck
<1>3. CASE kvm_create_vm(t)
  <2>1. PICK j \in VM :
          /\ vms[j] = "unused" /\ vms' = [vms EXCEPT ![j] = "live"]
          /\ kvm' = [kvm EXCEPT ![t] = j]
    BY <1>3 DEF kvm_create_vm
  <2>2. j # k /\ UNCHANGED g_kvm
    BY <1>3, <2>1 DEF Orphan, kvm_create_vm
  <2>3. vms'[k] = vms[k] /\ kvm'[t] = j
    BY <2>1, <2>2 DEF TypeInv, TypeOK
  <2>4. QED BY <2>2, <2>3, Alone DEF Orphan
<1>4. CASE kvm_dev_ioctl_create_vm(t)
  <2>1. /\ pc[t] = "publish" /\ pc' = [pc EXCEPT ![t] = "idle"]
        /\ UNCHANGED vms \/ vms' = [vms EXCEPT ![kvm[t]] = "freed"]
        /\ g_kvm' \in {g_kvm, kvm[t]}
    BY <1>4 DEF kvm_dev_ioctl_create_vm, Goto
  <2>2. kvm[t] # k
    BY <2>1 DEF Orphan, Unpublished
  <2>3. vms'[k] = vms[k] /\ pc'[t] \notin Unpublished
    BY <2>1, <2>2 DEF TypeInv, TypeOK, Unpublished
  <2>4. QED BY <2>1, <2>2, <2>3, Alone DEF Orphan
<1>5. CASE (\E e \in CPU : hardware_disable_all(t, e)) /\ ~\E f \in Faults : BugCheck(f)
  <2>1. /\ pc[t] = "disable" /\ pc' = [pc EXCEPT ![t] = "idle"]
        /\ vms' = [vms EXCEPT ![kvm[t]] = "released"] /\ UNCHANGED g_kvm
    BY <1>5 DEF hardware_disable_all, DisableFaults, Faults, Goto
  <2>2. kvm[t] = g_kvm
    BY <2>1 DEF LiveInv, Destroying
  <2>3. vms'[k] = vms[k] /\ pc'[t] \notin Unpublished
    BY <2>1, <2>2 DEF Orphan, TypeInv, TypeOK, Unpublished
  <2>4. QED BY <2>1, <2>3, Alone DEF Orphan
<1>6. CASE free_loaded_vmcs(t) /\ ~\E f \in Faults : BugCheck(f)
  <2>1. NextDestroy(t) /\ UNCHANGED <<vms, g_kvm>>
    BY <1>6 DEF free_loaded_vmcs, Faults
  <2>2. Kept
    BY <2>1, NextDestroyPc DEF Unpublished
  <2>3. QED BY <1>1, <2>2
<1>7. CASE ~\E f \in Faults : BugCheck(f)
  <2> USE DEF TypeInv, TypeOK, Unpublished, Goto, Faults
  <2>1. CASE link_vm(t) BY <1>1, <1>7, <2>1 DEF link_vm
  <2>2. CASE KVM_CREATE_VCPU(t) BY <1>1, <2>2 DEF KVM_CREATE_VCPU
  <2>3. CASE reserve_vcpu(t) BY <1>1, <1>7, <2>3 DEF reserve_vcpu
  <2>4. CASE alloc_vcpu(t) BY <1>1, <2>4 DEF alloc_vcpu
  <2>5. CASE set_vpid(t) BY <1>1, <2>5 DEF set_vpid
  <2>6. CASE alloc_loaded_vmcs(t) BY <1>1, <1>7, <2>6 DEF alloc_loaded_vmcs
  <2>7. CASE load_insert(t) BY <1>1, <2>7 DEF load_insert
  <2>8. CASE load_vmptrld(t) BY <1>1, <1>7, <2>8 DEF load_vmptrld
  <2>9. CASE \E e \in CPU : load_write(t, e) BY <1>1, <1>7, <2>9 DEF load_write
  <2>10. CASE \E e \in CPU : kvm_vcpu_reset(t, e)
    BY <1>1, <1>7, <2>10 DEF kvm_vcpu_reset
  <2>11. CASE store_vcpu(t) BY <1>1, <2>11 DEF store_vcpu
  <2>12. CASE KVM_RUN(t) BY <1>1, <2>12 DEF KVM_RUN, BugCheck
  <2>13. CASE kvm_destroy_vm(t) BY <1>1, <1>7, <2>13 DEF kvm_destroy_vm
  <2>14. QED
    BY <1>3, <1>4, <1>5, <1>6, <1>7, <2>1, <2>2, <2>3, <2>4, <2>5, <2>6, <2>7,
       <2>8, <2>9, <2>10, <2>11, <2>12, <2>13 DEF ThreadStep
<1>8. QED BY <1>2, <1>7

\* A step that gives no cpu to a VMCS and frees only what it has cleared.
LEMMA OtherStepsOrphan ==
  ASSUME Serial, TypeInv, VmcsInv, LiveInv, OrphanInv, NEW t \in Thread,
         ThreadStep(t), ~KVM_RUN(t)
  PROVE  OrphanInv'
<1> DEFINE Kept == \A v \in VCPU : vmcs'[v] = "freed" /\ vmcs_cpu'[v] # -1 =>
                                     vmcs[v] = "freed" /\ vmcs_cpu[v] # -1
<1>1. Kept => OrphanInv'
  BY OrphanStays, QuietOrphan DEF OrphanQuiet
<1>2. VmcsQuiet => Kept
  BY DEF VmcsQuiet
<1>3. CASE alloc_vcpu(t)
  <2>1. \A v \in VCPU : vmcs'[v] = "freed" => vmcs[v] = "freed"
    BY <1>3 DEF alloc_vcpu, TypeInv, TypeOK
  <2>2. QED BY <1>1, <1>3, <2>1 DEF alloc_vcpu
<1>4. CASE alloc_loaded_vmcs(t)
  <2>1. CASE BugCheck("ud_vmclear") \/ BugCheck("null_vmcs")
    BY <1>1, <1>2, <2>1, BugCheckVmcsQuiet DEF TypeInv
  <2>2. CASE ~(BugCheck("ud_vmclear") \/ BugCheck("null_vmcs"))
    <3>1. /\ vmcs' = [vmcs EXCEPT ![vcpu[t]] = "live"]
          /\ vmcs_cpu' = [vmcs_cpu EXCEPT ![vcpu[t]] = -1]
      BY <1>4, <2>2 DEF alloc_loaded_vmcs
    <3>2. Kept
      BY <3>1 DEF TypeInv, TypeOK
    <3>3. QED BY <1>1, <3>2
  <2>3. QED BY <2>1, <2>2
<1>5. CASE load_insert(t)
  BY <1>1, <1>5 DEF load_insert
<1>6. CASE load_vmptrld(t)
  <2>1. UNCHANGED <<vmcs, vmcs_cpu>>
    BY <1>6 DEF load_vmptrld, BugCheck
  <2>2. QED BY <1>1, <2>1
<1>7. CASE \E e \in CPU : load_write(t, e)
  <2>1. /\ pc[t] = "load" /\ vmcs' = vmcs
        /\ UNCHANGED vmcs_cpu \/ vmcs_cpu' = [vmcs_cpu EXCEPT ![vcpu[t]] = id[t]]
    BY <1>7 DEF load_write, BugCheck
  <2>2. vmcs[vcpu[t]] = "live"
    BY <2>1 DEF VmcsInv, CreatingInv, Middle
  <2>3. Kept
    BY <2>1, <2>2 DEF TypeInv, TypeOK
  <2>4. QED BY <1>1, <2>3
<1>8. CASE store_vcpu(t)
  BY <1>1, <1>8 DEF store_vcpu
<1>9. CASE free_loaded_vmcs(t)
  <2>1. CASE \E f \in {"null_vcpu", "ud_vmclear", "vmclear_list"} : BugCheck(f)
    BY <1>1, <1>2, <2>1, BugCheckVmcsQuiet DEF TypeInv
  <2>2. ASSUME NEW v \in VCPU, FreeStep(t, v) PROVE Kept
    <3>1. \/ UNCHANGED <<vmcs, vmcs_cpu>>
          \/ /\ vmcs' = [vmcs EXCEPT ![v] = "freed"]
             /\ vmcs_cpu' = [vmcs_cpu EXCEPT ![v] = -1]
      BY <2>2 DEF FreeStep, __loaded_vmcs_clear
    <3>2. QED BY <3>1 DEF TypeInv, TypeOK
  <2>3. QED BY <1>1, <1>9, <2>1, <2>2, FreeCases
<1>10. QED
  BY <1>1, <1>2, <1>3, <1>4, <1>5, <1>6, <1>7, <1>8, <1>9, OtherStepsVmcsQuiet,
     CpuFacts DEF ThreadStep

\* RunKvm puts a freed VMCS on a list only if a VM other than g_kvm is counted.
LEMMA RunOrphan ==
  ASSUME Serial, TypeInv, UsageInv, VmxInv, VmcsInv, LiveInv, OrphanInv,
         NEW t \in Thread, ThreadStep(t), KVM_RUN(t)
  PROVE  OrphanInv'
<1>1. CASE BugCheck("mmu") \/ \E f \in RunFaults : BugCheck(f)
  <2>1. UNCHANGED <<vmcs, vmcs_cpu>>
    BY <1>1 DEF BugCheck
  <2>2. QED BY <2>1, OrphanStays, QuietOrphan DEF OrphanQuiet
<1>2. CASE RunStep
  <2> DEFINE arr == vcpu_array[g_kvm]
  <2>1. pc[t] = "idle"
    BY DEF KVM_RUN
  <2>2. /\ g_kvm \in VM /\ UNCHANGED vmcs
        /\ \A c \in CPU : arr[c] \in VCPU /\ vmx_root[c]
        /\ \A v \in VCPU :
             vmcs_cpu'[v] = IF \E c \in CPU : v = arr[c] THEN vcpu_id[v] ELSE vmcs_cpu[v]
    BY <1>2 DEF RunStep
  <2> SUFFICES ASSUME NEW v \in VCPU, vmcs'[v] = "freed", vmcs_cpu'[v] # -1
               PROVE  \E k \in VM : Orphan(k)'
    BY DEF OrphanInv
  <2>3. CASE vmcs_cpu[v] # -1
    BY <2>2, <2>3, OrphanStays DEF OrphanInv
  <2>4. CASE vmcs_cpu[v] = -1
    <3>1. PICK c \in CPU : v = arr[c]
      BY <2>2, <2>4
    <3>2. vms[g_kvm] = "released"
      <4>1. vcpu_kvm[v] = g_kvm
        BY <2>2, <3>1 DEF VmcsInv, StoredInv
      <4>2. vmcs[v] = "freed"
        BY <2>2
      <4>3. QED BY <2>1, <4>1, <4>2, Alone DEF LiveInv, Destroying
    <3>3. kvm_usage_count # 0
      BY <2>2, CpuFacts DEF VmxInv, VmxOnlyWhileUsed
    <3>4. PICK k \in Counted : TRUE
      <4>1. Cardinality(Counted) # 0
        BY <3>3 DEF UsageInv, UsageCountsVms, Counted
      <4>2. QED BY <4>1, FS_EmptySet
    <3>5. k \in VM /\ Orphan(k)
      BY <2>1, <3>2, <3>4, Alone DEF Orphan, Counted, Unpublished
    <3>6. QED BY <3>5, OrphanStays
  <2>5. QED BY <2>3, <2>4
<1>3. QED BY <1>1, <1>2, RunCases

-----------------------------------------------------------------------------
(***************************************************************************)
(* The faults of the tear-down.                                            *)
(***************************************************************************)

\* When the last VM goes, the lists are empty and every processor is in VMX
\* operation.
LEMMA NoDisableFault ==
  ASSUME Serial, TypeInv, UsageInv, VmcsInv, CountInv, SerialInv,
         NEW t \in Thread, NEW e \in CPU, pc[t] = "disable", LastUser
  PROVE  DisableFaults(e) = {}
<1>1. /\ LiveInv /\ DestroyInv /\ RootInv /\ LoadedVmcsTracked /\ OrphanInv
  BY DEF SerialInv
<1>2. /\ \A k \in VM : vms[k] \in {"live", "freed"} => k = g_kvm
      /\ \A v \in VCPU : vmcs[v] \notin {"none", "live"}
  BY <1>1, LastRelease
<1>3. /\ g_kvm \in VM /\ vms[g_kvm] = "live"
      /\ \A i \in CPU : vcpu_array[g_kvm][i] # Null
  BY <1>1, Released
<1>4. \A c \in CPU : vmx_root[c]
  BY <1>1, <1>3 DEF RootInv
<1>5. ASSUME NEW v \in VCPU, v \in loaded_vmcss_on_cpu[e] PROVE FALSE
  <2>1. ~Loading(v, e)
    BY Alone DEF Loading
  <2>2. vmcs_cpu[v] = e /\ e # -1
    BY <1>1, <1>5, <2>1, CpuFacts DEF LoadedVmcsTracked
  <2>3. vmcs[v] = "freed"
    BY <1>2, <2>2 DEF VmcsInv, UnusedInv, TypeInv, TypeOK
  <2>4. PICK k \in VM : Orphan(k)
    BY <1>1, <2>2, <2>3 DEF OrphanInv
  <2>5. QED BY <1>2, <2>4 DEF Orphan
<1>6. loaded_vmcss_on_cpu[e] = {}
  BY <1>5 DEF TypeInv, TypeOK
<1>7. QED BY <1>4, <1>6 DEF DisableFaults

\* When RunKvm is broadcast, each vCPU in the array is loaded on its processor.
LEMMA NoNestedIpi ==
  ASSUME Serial, TypeInv, VmcsInv, CurrentInv, NEW t \in Thread, pc[t] = "idle"
  PROVE  "nested_ipi" \notin RunFaults
<1> SUFFICES ASSUME g_kvm # Null, NEW c \in CPU, vcpu_array[g_kvm][c] # Null
             PROVE  /\ vmcs_cpu[vcpu_array[g_kvm][c]] \in {c, -1}
                    /\ current_vmcs[c] = LoadedPointer(vcpu_array[g_kvm][c])
  BY DEF RunFaults
<1>1. g_kvm \in VM /\ vcpu_array[g_kvm][c] \in VCPU
  BY DEF TypeInv, TypeOK
<1>2. vcpu_id[vcpu_array[g_kvm][c]] = c
  BY <1>1 DEF VmcsInv, StoredInv
<1>3. vmcs_cpu[vcpu_array[g_kvm][c]] \in {c, -1}
  BY <1>1, <1>2 DEF VmcsInv, HomeInv
<1>4. current_vmcs[c] = LoadedPointer(vcpu_array[g_kvm][c])
  BY Alone DEF CurrentInv, Loaded
<1>5. QED BY <1>3, <1>4

\* A loaded VMCS is on the list free_loaded_vmcs removes it from.
LEMMA NoListFault ==
  ASSUME TypeInv, VmcsInv, LoadedVmcsTracked, bugcheck = "none",
         NEW t \in Thread, free_loaded_vmcs(t)
  PROVE  bugcheck' # "vmclear_list"
<1> DEFINE v == vcpu_array[g_kvm][id[t]]
<1> SUFFICES ASSUME bugcheck' = "vmclear_list" PROVE FALSE
  OBVIOUS
<1>1. pc[t] = "destroy" /\ g_kvm \in VM /\ id[t] \in CPU
  BY DEF free_loaded_vmcs, TypeInv, TypeOK, LocalsOK
<1>2. v # Null /\ vmcs_cpu[v] # -1 /\ v \notin loaded_vmcss_on_cpu[vcpu_id[v]]
  BY Zenon DEF free_loaded_vmcs, BugCheck
<1>3. v \in VCPU
  BY <1>1, <1>2 DEF TypeInv, TypeOK
<1>4. vmcs_cpu[v] = vcpu_id[v] /\ vcpu_id[v] \in CPU
  BY <1>2, <1>3 DEF VmcsInv, HomeInv, TypeInv, TypeOK
<1>5. QED BY <1>2, <1>3, <1>4 DEF LoadedVmcsTracked

LEMMA TeardownStep ==
  ASSUME Serial, TypeInv, UsageInv, VmcsInv, CountInv, SerialInv,
         bugcheck = "none", NEW t \in Thread, ThreadStep(t)
  PROVE  NoTeardownFault'
<1> USE DEF NoTeardownFault, BugCheck
<1>1. LoadedVmcsTracked /\ CurrentInv
  BY DEF SerialInv
<1>2. CASE KVM_RUN(t)
  <2>1. pc[t] = "idle"
    BY <1>2 DEF KVM_RUN
  <2>2. "nested_ipi" \notin RunFaults
    BY <1>1, <2>1, NoNestedIpi
  <2>3. RunFaults \subseteq {"null_kvm", "null_vcpu", "nested_ipi", "ud_vmwrite"}
    BY DEF RunFaults
  <2>4. bugcheck' \in RunFaults \cup {"mmu", "none"}
    BY <1>2, Zenon DEF KVM_RUN
  <2>5. QED BY <2>2, <2>3, <2>4
<1>3. CASE free_loaded_vmcs(t)
  <2>1. bugcheck' \in {"none", "null_vcpu", "ud_vmclear", "vmclear_list"}
    BY <1>3, Zenon DEF free_loaded_vmcs
  <2>2. QED BY <1>1, <1>3, <2>1, NoListFault
<1>4. CASE \E e \in CPU : hardware_disable_all(t, e)
  <2>1. PICK e \in CPU : hardware_disable_all(t, e)
    BY <1>4
  <2>2. pc[t] = "disable" /\ (LastUser => DisableFaults(e) = {})
    BY <2>1, NoDisableFault DEF hardware_disable_all
  <2>3. bugcheck' = "none"
    BY <2>1, <2>2 DEF hardware_disable_all
  <2>4. QED BY <2>3
<1>5. CASE \/ kvm_create_vm(t) \/ link_vm(t) \/ kvm_dev_ioctl_create_vm(t)
           \/ KVM_CREATE_VCPU(t) \/ reserve_vcpu(t) \/ alloc_vcpu(t) \/ set_vpid(t)
  BY <1>5 DEF kvm_create_vm, link_vm, kvm_dev_ioctl_create_vm, KVM_CREATE_VCPU,
     reserve_vcpu, alloc_vcpu, set_vpid
<1>6. CASE \/ alloc_loaded_vmcs(t) \/ load_insert(t) \/ load_vmptrld(t)
           \/ (\E e \in CPU : load_write(t, e) \/ kvm_vcpu_reset(t, e))
           \/ store_vcpu(t) \/ kvm_destroy_vm(t)
  BY <1>6 DEF alloc_loaded_vmcs, load_insert, load_vmptrld, load_write,
     kvm_vcpu_reset, store_vcpu, kvm_destroy_vm
<1>7. QED BY <1>2, <1>3, <1>4, <1>5, <1>6 DEF ThreadStep

-----------------------------------------------------------------------------
LEMMA InitSerial == Init => SerialInv
<1> SUFFICES ASSUME Init PROVE SerialInv
  OBVIOUS
<1>1. LiveInv /\ DestroyInv
  BY DEF Init, LiveInv, DestroyInv, Destroying, Creating, Unpublished
<1>2. RootInv
  BY DEF Init, RootInv, Middle, Late
<1>3. LoadedVmcsTracked
  BY CpuFacts DEF Init, LoadedVmcsTracked, Loading
<1>4. CurrentInv
  BY DEF Init, CurrentInv, CurrentVmcsAgrees, Loaded
<1>5. OrphanInv /\ NoTeardownFault
  BY DEF Init, OrphanInv, NoTeardownFault
<1>6. QED BY <1>1, <1>2, <1>3, <1>4, <1>5 DEF SerialInv

StepInv ==
  TypeInv /\ UsageInv /\ VmxInv /\ VmcsInv /\ CountInv /\ SerialInv

LEMMA NextSerial ==
  ASSUME Serial
  PROVE  StepInv /\ [Next]_vars => SerialInv'
<1> SUFFICES ASSUME StepInv, [Next]_vars PROVE SerialInv'
  OBVIOUS
<1>1. /\ TypeInv /\ UsageInv /\ VmxInv /\ VmcsInv /\ CountInv /\ SerialInv
      /\ LiveInv /\ DestroyInv /\ RootInv /\ LoadedVmcsTracked /\ CurrentInv
      /\ OrphanInv
  BY DEF StepInv, SerialInv
<1>2. CASE UNCHANGED vars
  BY <1>1, <1>2
  DEF vars, SerialInv, LiveInv, AtVcpuLimit, DestroyInv, RootInv,
      LoadedVmcsTracked, Loading, CurrentInv, CurrentVmcsAgrees, LoadedPointer,
      OrphanInv, Orphan, NoTeardownFault
<1>3. ASSUME bugcheck = "none", NEW t \in Thread, ThreadStep(t)
      PROVE  SerialInv'
  <2>1. LiveInv'
    BY <1>1, <1>3, CpuFacts, OtherStepsLiveQuiet, QuietLive, CreateVmLive,
       CreateVcpuLive, ReleaseLive DEF ThreadStep
  <2>2. DestroyInv'
    BY <1>1, <1>3, DestroyStep
  <2>3. RootInv'
    BY <1>1, <1>3, CpuFacts, OtherStepsRootQuiet, QuietRoot, RootStep
    DEF ThreadStep
  <2>4. LoadedVmcsTracked'
    BY <1>1, NextTrack
  <2>5. CurrentInv'
    BY <1>1, <1>3, CpuFacts, OtherStepsCurrentQuiet, QuietCurrent,
       PublishCurrent, LoadCurrent, ReleaseCurrent DEF ThreadStep
  <2>6. OrphanInv'
    BY <1>1, <1>3, OtherStepsOrphan, RunOrphan
  <2>7. NoTeardownFault'
    BY <1>1, <1>3, TeardownStep
  <2>8. QED BY <2>1, <2>2, <2>3, <2>4, <2>5, <2>6, <2>7 DEF SerialInv
<1>4. QED BY <1>2, <1>3 DEF Next, Halted

LEMMA NextStep ==
  ASSUME Serial
  PROVE  StepInv /\ [Next]_vars => StepInv'
<1> SUFFICES ASSUME StepInv, [Next]_vars PROVE StepInv'
  OBVIOUS
<1>1. TypeInv /\ UsageInv /\ VmxInv /\ VmcsInv /\ CountInv
  BY DEF StepInv
<1>2. QED
  BY <1>1, NextType, NextUsage, NextVmx, NextVmcs, NextCount, NextSerial
  DEF StepInv

\* The inductive invariant of the life cycle with one request at a time.
LEMMA InitStep == Init => StepInv
<1>1. Init => VmxInv
  BY DEF Init, VmxInv, VmxOnlyWhileUsed
<1>2. QED
  BY <1>1, InitType, InitUsage, InitVmcs, InitCount, InitSerial DEF StepInv

\* If requests come one at a time, current_vmcs is the VMCS each processor has
\* current, except while one is being loaded there: also after free_loaded_vmcs
\* and after VMXOFF.
THEOREM CurrentCorrect ==
  ASSUME Serial
  PROVE  Spec => []CurrentVmcsAgrees
<1>1. StepInv => CurrentVmcsAgrees
  BY DEF StepInv, SerialInv, CurrentInv
<1>2. QED BY <1>1, InitStep, NextStep, PTL DEF Spec

\* If requests come one at a time, tear-down never meets a list that is not
\* empty, a VMCS that is not on its list or a processor outside VMX operation,
\* and KVM_RUN never needs a broadcast inside its broadcast: whatever requests
\* are made, in whatever order, for any number of VMs, whichever allocation
\* fails and whichever processors had CR4.VMXE set.
THEOREM TeardownCorrect ==
  ASSUME Serial
  PROVE  Spec => []NoTeardownFault
<1>1. StepInv => NoTeardownFault
  BY DEF StepInv, SerialInv
<1>2. QED BY <1>1, InitStep, NextStep, PTL DEF Spec

=============================================================================
