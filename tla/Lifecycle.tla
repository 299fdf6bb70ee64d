------------------------------ MODULE Lifecycle ------------------------------
(***************************************************************************)
(* The life of a virtual machine in the svmx driver on Intel processors:   *)
(* KVM_CREATE_VM, KVM_CREATE_VCPU, KVM_RUN and KVM_RELEASE_VM, down to the *)
(* VMX instructions they execute on each processor.                        *)
(*                                                                         *)
(* A request runs in a thread at PASSIVE_LEVEL, so it may be preempted,    *)
(* and may continue on another processor, between any two accesses to      *)
(* shared state: each step is one such access (or one kvm_lock or          *)
(* kvm->lock section) together with the thread-local code around it, and   *)
(* "e" is the processor that executes it.  KeIpiGenericCall holds every    *)
(* processor at IPI_LEVEL until the broadcast function has returned on all *)
(* of them, so a broadcast is one step.                                    *)
(*                                                                         *)
(* What stops the machine (a NULL dereference, #UD from a VMX instruction  *)
(* outside VMX operation, the list check of RemoveEntryList, a broadcast   *)
(* requested from inside a broadcast) sets bugcheck and nothing follows.   *)
(***************************************************************************)
EXTENDS Integers, FiniteSets

CONSTANTS
  N,           \* number of processors, KeQueryActiveProcessorCount(0)
  VM,          \* struct kvm objects, each allocated at most once
  VCPU,        \* struct vcpu_vmx objects with their vmcs01, likewise
  Thread,      \* threads that issue requests
  NVpid,       \* VPIDs the bitmap can hand out
  MayFail,     \* the allocations that may fail
  Null

CPU == 0 .. N - 1
VPID == 1 .. NVpid

ASSUME NAssumption == N \in Nat \ {0}
ASSUME NVpidAssumption == NVpid \in Nat
ASSUME NullAssumption == Null \notin VM /\ Null \notin VCPU
ASSUME VMAssumption == IsFiniteSet(VM)
ASSUME FailAssumption == MayFail \subseteq {"vcpu_array", "vcpu", "vmcs"}

VARIABLES
  vmxe,              \* CR4.VMXE of each processor
  vmx_root,          \* the processor is in VMX operation
  vmptr,             \* its current-VMCS pointer, Null when there is none
  kvm_usage_count,
  hardware_enabled,
  vms,               \* allocation state of each struct kvm
  vm_list,
  g_kvm,
  created_vcpus,
  vcpu_array,
  vmcs,              \* allocation state of each vCPU's VMCS
  vcpu_kvm,          \* vcpu->kvm
  vcpu_id,           \* vcpu->vcpu_id, also loaded_vmcs->vcpu_id
  vmcs_cpu,          \* loaded_vmcs->cpu
  launched,          \* loaded_vmcs->launched
  current_vmcs,
  loaded_vmcss_on_cpu,
  host_tr,           \* processor whose TSS and GDT a VMCS names
  reset_by,          \* vCPU whose reset state a VMCS holds
  vpid_bitmap, vpid_buf, vpid,
  pc, kvm, id, vcpu, \* each thread's control point and locals
  bugcheck

hwVars == <<vmxe, vmx_root, vmptr>>
enableVars == <<kvm_usage_count, hardware_enabled>>
vmVars == <<vms, vm_list, g_kvm, created_vcpus, vcpu_array>>
vcpuVars == <<vcpu_kvm, vcpu_id>>
loadedVars == <<vmcs, vmcs_cpu, launched, current_vmcs, loaded_vmcss_on_cpu>>
fieldVars == <<host_tr, reset_by>>
vpidVars == <<vpid_bitmap, vpid_buf, vpid>>
threadVars == <<pc, kvm, id, vcpu>>

vars == <<hwVars, enableVars, vmVars, vcpuVars, loadedVars, fieldVars,
          vpidVars, threadVars, bugcheck>>

ControlPoints ==
  {"idle", "link", "publish",
   "reserve", "alloc", "vpid", "vmcs", "insert", "vmptrld", "load", "reset",
   "store", "destroy", "disable"}

Faults ==
  {"none", "null_kvm", "null_vcpu", "null_vmcs", "ud_vmclear", "ud_vmptrld",
   "ud_vmwrite", "ud_vmxoff", "vm_list", "vmclear_list", "nested_ipi", "mmu"}

TypeOK ==
  /\ vmxe \in [CPU -> BOOLEAN]
  /\ vmx_root \in [CPU -> BOOLEAN]
  /\ vmptr \in [CPU -> VCPU \cup {Null}]
  /\ kvm_usage_count \in Int
  /\ hardware_enabled \in [CPU -> BOOLEAN]
  /\ vms \in [VM -> {"unused", "live", "released", "freed"}]
  /\ vm_list \in SUBSET VM
  /\ g_kvm \in VM \cup {Null}
  /\ created_vcpus \in [VM -> Nat]
  /\ vcpu_array \in [VM -> [CPU -> VCPU \cup {Null}]]
  /\ vmcs \in [VCPU -> {"unused", "none", "live", "freed"}]
  /\ vcpu_kvm \in [VCPU -> VM \cup {Null}]
  /\ vcpu_id \in [VCPU -> CPU]
  /\ vmcs_cpu \in [VCPU -> CPU \cup {-1}]
  /\ launched \in [VCPU -> BOOLEAN]
  /\ current_vmcs \in [CPU -> VCPU \cup {Null}]
  /\ loaded_vmcss_on_cpu \in [CPU -> SUBSET VCPU]
  /\ host_tr \in [VCPU -> CPU \cup {-1}]
  /\ reset_by \in [VCPU -> VCPU \cup {Null}]
  /\ vpid_bitmap \in SUBSET VPID
  /\ vpid_buf \in BOOLEAN
  /\ vpid \in [VCPU -> VPID \cup {0}]
  /\ pc \in [Thread -> ControlPoints]
  /\ kvm \in [Thread -> VM \cup {Null}]
  /\ id \in [Thread -> CPU]
  /\ vcpu \in [Thread -> VCPU \cup {Null}]
  /\ bugcheck \in Faults

(***************************************************************************)
(* The driver has just been loaded.  CR4.VMXE may already be set on a      *)
(* processor.  hardware_setup does not zero the VPID bitmap, so every bit  *)
(* but bit 0 starts with an arbitrary value.                               *)
(***************************************************************************)
Init ==
  /\ vmxe \in [CPU -> BOOLEAN]
  /\ vmx_root = [c \in CPU |-> FALSE]
  /\ vmptr = [c \in CPU |-> Null]
  /\ kvm_usage_count = 0
  /\ hardware_enabled = [c \in CPU |-> FALSE]
  /\ vms = [k \in VM |-> "unused"]
  /\ vm_list = {}
  /\ g_kvm = Null
  /\ created_vcpus = [k \in VM |-> 0]
  /\ vcpu_array = [k \in VM |-> [i \in CPU |-> Null]]
  /\ vmcs = [v \in VCPU |-> "unused"]
  /\ vcpu_kvm = [v \in VCPU |-> Null]
  /\ vcpu_id = [v \in VCPU |-> 0]
  /\ vmcs_cpu = [v \in VCPU |-> -1]
  /\ launched = [v \in VCPU |-> FALSE]
  /\ current_vmcs = [c \in CPU |-> Null]
  /\ loaded_vmcss_on_cpu = [c \in CPU |-> {}]
  /\ host_tr = [v \in VCPU |-> -1]
  /\ reset_by = [v \in VCPU |-> Null]
  /\ vpid_bitmap \in SUBSET VPID
  /\ vpid_buf = TRUE
  /\ vpid = [v \in VCPU |-> 0]
  /\ pc = [t \in Thread |-> "idle"]
  /\ kvm = [t \in Thread |-> Null]
  /\ id = [t \in Thread |-> 0]
  /\ vcpu = [t \in Thread |-> Null]
  /\ bugcheck = "none"

-----------------------------------------------------------------------------
Goto(t, from, to) ==
  /\ pc[t] = from
  /\ pc' = [pc EXCEPT ![t] = to]

\* The step of thread t stops the machine; nothing it wrote can be seen again.
BugCheck(why) ==
  /\ bugcheck' = why
  /\ UNCHANGED <<hwVars, enableVars, vmVars, vcpuVars, loadedVars, fieldVars,
                 vpidVars, threadVars>>

\* The last iteration of the loops over the processors in DriverDeviceControl
\* and kvm_destroy_vcpus.
LastId(t) == id[t] = N - 1

-----------------------------------------------------------------------------
(***************************************************************************)
(* KVM_CREATE_VM                                                           *)
(***************************************************************************)

\* __hardware_enable_nolock on processor c: skipped when it is already
\* enabled; refused by vmx_hardware_enable when CR4.VMXE is set, and the
\* refusal is dropped by hardware_enable_nolock.
Enables(c) == ~hardware_enabled[c] /\ ~vmxe[c]

\* kvm_create_vm up to hardware_enable_all, which runs under kvm_lock.  (When
\* kvm_arch_alloc_vm fails the request returns and no state has changed.)
kvm_create_vm(t) ==
  \E k \in VM :
    /\ vms[k] = "unused"
    /\ Goto(t, "idle", "link")
    /\ kvm' = [kvm EXCEPT ![t] = k]
    /\ vms' = [vms EXCEPT ![k] = "live"]
    /\ kvm_usage_count' = kvm_usage_count + 1
    /\ IF kvm_usage_count + 1 = 1
       THEN /\ hardware_enabled' =
                 [c \in CPU |-> hardware_enabled[c] \/ Enables(c)]
            /\ vmxe' = [c \in CPU |-> vmxe[c] \/ Enables(c)]
            /\ vmx_root' = [c \in CPU |-> vmx_root[c] \/ Enables(c)]
       ELSE UNCHANGED <<hardware_enabled, vmxe, vmx_root>>
    /\ UNCHANGED <<vmptr, vm_list, g_kvm, created_vcpus, vcpu_array, vcpuVars,
                   loadedVars, fieldVars, vpidVars, id, vcpu, bugcheck>>

\* vm_list links a struct kvm whose memory has been freed.
DanglingVmList == \E k \in vm_list : vms[k] = "freed"

\* InsertHeadList(&vm_list, &kvm->vm_list) under kvm_lock.  If the list runs
\* through freed memory the list check may fail.
link_vm(t) ==
  /\ pc[t] = "link"
  /\ \/ /\ Goto(t, "link", "publish")
        /\ vm_list' = vm_list \cup {kvm[t]}
        /\ UNCHANGED <<hwVars, enableVars, vms, g_kvm, created_vcpus,
                       vcpu_array, vcpuVars, loadedVars, fieldVars, vpidVars,
                       kvm, id, vcpu, bugcheck>>
     \/ DanglingVmList /\ BugCheck("vm_list")

\* The vcpu_array allocation that ends kvm_create_vm and the assignment of
\* g_kvm in kvm_dev_ioctl_create_vm.  On failure kvm is freed while it is
\* linked and counted.
kvm_dev_ioctl_create_vm(t) ==
  /\ Goto(t, "publish", "idle")
  /\ \/ g_kvm' = kvm[t] /\ UNCHANGED vms
     \/ /\ "vcpu_array" \in MayFail
        /\ vms' = [vms EXCEPT ![kvm[t]] = "freed"]
        /\ UNCHANGED g_kvm
  /\ UNCHANGED <<hwVars, enableVars, vm_list, created_vcpus, vcpu_array,
                 vcpuVars, loadedVars, fieldVars, vpidVars, kvm, id, vcpu,
                 bugcheck>>

-----------------------------------------------------------------------------
(***************************************************************************)
(* KVM_CREATE_VCPU: kvm_vm_ioctl_create_vcpu(g_kvm, id) for id = 0 .. N-1, *)
(* stopping at the first failure.  g_kvm is read afresh for each id.       *)
(***************************************************************************)
KVM_CREATE_VCPU(t) ==
  /\ Goto(t, "idle", "reserve")
  /\ id' = [id EXCEPT ![t] = 0]
  /\ UNCHANGED <<hwVars, enableVars, vmVars, vcpuVars, loadedVars, fieldVars,
                 vpidVars, kvm, vcpu, bugcheck>>

AtVcpuLimitOffByOne(k) == created_vcpus[k] > N

AtVcpuLimit(k) == created_vcpus[k] >= N

\* The section under kvm->lock that counts the vCPU.
reserve_vcpu(t) ==
  /\ pc[t] = "reserve"
  /\ IF g_kvm = Null
     THEN BugCheck("null_kvm")
     ELSE /\ IF AtVcpuLimit(g_kvm)
             THEN Goto(t, "reserve", "idle") /\ UNCHANGED created_vcpus
             ELSE /\ Goto(t, "reserve", "alloc")
                  /\ created_vcpus' = [created_vcpus EXCEPT ![g_kvm] = @ + 1]
          /\ kvm' = [kvm EXCEPT ![t] = g_kvm]
          /\ UNCHANGED <<hwVars, enableVars, vms, vm_list, g_kvm, vcpu_array,
                         vcpuVars, loadedVars, fieldVars, vpidVars, id, vcpu,
                         bugcheck>>

\* RtlFindClearBits(&vmx_vpid_bitmap, 1, 1): the lowest clear bit, or nothing,
\* for which allocate_vpid returns 0.  Once vmx_hardware_disable has freed the
\* buffer its content, and so the answer, is arbitrary.
FindVpid ==
  LET clear == VPID \ vpid_bitmap
  IN  IF ~vpid_buf THEN VPID \cup {0}
      ELSE IF clear = {} THEN {0}
      ELSE {b \in clear : \A d \in clear : b <= d}

\* Allocation of the vCPU and its pages, kvm_vcpu_init, kvm_mmu_create, and the
\* first half of allocate_vpid.  A failure frees what was allocated and ends
\* the request, but created_vcpus keeps counting the vCPU.
alloc_vcpu(t) ==
  /\ pc[t] = "alloc"
  /\ \/ \E v \in VCPU, p \in FindVpid :
          /\ vmcs[v] = "unused"
          /\ Goto(t, "alloc", "vpid")
          /\ vcpu' = [vcpu EXCEPT ![t] = v]
          /\ vmcs' = [vmcs EXCEPT ![v] = "none"]
          /\ vcpu_kvm' = [vcpu_kvm EXCEPT ![v] = kvm[t]]
          /\ vcpu_id' = [vcpu_id EXCEPT ![v] = id[t]]
          /\ vpid' = [vpid EXCEPT ![v] = p]
     \/ /\ "vcpu" \in MayFail
        /\ Goto(t, "alloc", "idle")
        /\ UNCHANGED <<vcpu, vmcs, vcpuVars, vpid>>
  /\ UNCHANGED <<hwVars, enableVars, vmVars, vmcs_cpu, launched, current_vmcs,
                 loaded_vmcss_on_cpu, fieldVars, vpid_bitmap, vpid_buf, kvm,
                 id, bugcheck>>

\* RtlSetBit(&vmx_vpid_bitmap, vpid).
MarkVpidForgotten(p) == vpid_bitmap

MarkVpid(p) == IF vpid_buf THEN vpid_bitmap \cup ({p} \ {0}) ELSE vpid_bitmap

set_vpid(t) ==
  /\ Goto(t, "vpid", "vmcs")
  /\ vpid_bitmap' = MarkVpid(vpid[vcpu[t]])
  /\ UNCHANGED <<hwVars, enableVars, vmVars, vcpuVars, loadedVars, fieldVars,
                 vpid_buf, vpid, kvm, id, vcpu, bugcheck>>

\* alloc_loaded_vmcs: the VMCS is VMCLEARed on processor id by broadcast.  Its
\* failure is not looked at by kvm_arch_vcpu_create, and vcpu_load then
\* dereferences a NULL loaded_vmcs.
alloc_loaded_vmcs(t) ==
  /\ pc[t] = "vmcs"
  /\ \/ /\ vmx_root[id[t]]
        /\ Goto(t, "vmcs", "insert")
        /\ vmcs' = [vmcs EXCEPT ![vcpu[t]] = "live"]
        /\ vmcs_cpu' = [vmcs_cpu EXCEPT ![vcpu[t]] = -1]
        /\ launched' = [launched EXCEPT ![vcpu[t]] = FALSE]
        /\ UNCHANGED <<hwVars, enableVars, vmVars, vcpuVars, current_vmcs,
                       loaded_vmcss_on_cpu, fieldVars, vpidVars, kvm, id,
                       vcpu, bugcheck>>
     \/ ~vmx_root[id[t]] /\ BugCheck("ud_vmclear")
     \/ "vmcs" \in MayFail /\ BugCheck("null_vmcs")

\* Another thread is inserting into the same processor's list: InsertHeadList
\* takes no lock, and the last writer of the list head wins.
InsertRace(t) ==
  \E s \in Thread \ {t} : pc[s] = "insert" /\ id[s] = id[t]

\* vmx_vcpu_load_vmcs for a new VMCS (cpu = -1, so loaded_vmcs_clear returns at
\* once): insertion into the list of processor id and current_vmcs[id].
load_insert(t) ==
  /\ Goto(t, "insert", "vmptrld")
  /\ \/ loaded_vmcss_on_cpu' =
          [loaded_vmcss_on_cpu EXCEPT ![id[t]] = @ \cup {vcpu[t]}]
     \/ InsertRace(t) /\ UNCHANGED loaded_vmcss_on_cpu
  /\ current_vmcs' = [current_vmcs EXCEPT ![id[t]] = vcpu[t]]
  /\ UNCHANGED <<hwVars, enableVars, vmVars, vcpuVars, vmcs, vmcs_cpu,
                 launched, fieldVars, vpidVars, kvm, id, vcpu, bugcheck>>

\* VmcsLoadOnSpecificCore: VMPTRLD on the processor named by vcpu_id.
LoadTarget(t) == vcpu_id[vcpu[t]]

load_vmptrld(t) ==
  /\ pc[t] = "vmptrld"
  /\ IF vmx_root[LoadTarget(t)]
     THEN /\ Goto(t, "vmptrld", "load")
          /\ vmptr' = [vmptr EXCEPT ![LoadTarget(t)] = vcpu[t]]
          /\ UNCHANGED <<vmxe, vmx_root, enableVars, vmVars, vcpuVars,
                         loadedVars, fieldVars, vpidVars, kvm, id, vcpu,
                         bugcheck>>
     ELSE BugCheck("ud_vmptrld")

\* A VMWRITE by processor e lands in the VMCS current on e; with none current
\* it fails and the failure is dropped.
WriteTarget(e) == {v \in VCPU : vmptr[e] = v}

\* The end of vmx_vcpu_load_vmcs, on processor e: HOST_TR_BASE and
\* HOST_GDTR_BASE are written with e's own, then cpu is set.
load_write(t, e) ==
  /\ pc[t] = "load"
  /\ IF vmx_root[e]
     THEN /\ Goto(t, "load", "reset")
          /\ host_tr' = [v \in VCPU |-> IF v \in WriteTarget(e) THEN e
                                        ELSE host_tr[v]]
          /\ vmcs_cpu' = [vmcs_cpu EXCEPT ![vcpu[t]] = id[t]]
          /\ UNCHANGED <<hwVars, enableVars, vmVars, vcpuVars, vmcs, launched,
                         current_vmcs, loaded_vmcss_on_cpu, reset_by,
                         vpidVars, kvm, id, vcpu, bugcheck>>
     ELSE BugCheck("ud_vmwrite")

\* kvm_vcpu_reset on processor e, kvm_init_mmu and vcpu_put: the guest state,
\* the controls and the bitmap addresses of the vCPU are written with VMWRITE.
kvm_vcpu_reset(t, e) ==
  /\ pc[t] = "reset"
  /\ IF vmx_root[e]
     THEN /\ Goto(t, "reset", "store")
          /\ reset_by' = [v \in VCPU |-> IF v \in WriteTarget(e) THEN vcpu[t]
                                         ELSE reset_by[v]]
          /\ UNCHANGED <<hwVars, enableVars, vmVars, vcpuVars, loadedVars,
                         host_tr, vpidVars, kvm, id, vcpu, bugcheck>>
     ELSE BugCheck("ud_vmwrite")

\* kvm->vcpu_array[id] = vcpu, outside kvm->lock, and the next id.
store_vcpu(t) ==
  /\ pc[t] = "store"
  /\ vcpu_array' = [vcpu_array EXCEPT ![kvm[t]][id[t]] = vcpu[t]]
  /\ IF LastId(t)
     THEN Goto(t, "store", "idle") /\ UNCHANGED id
     ELSE Goto(t, "store", "reserve") /\ id' = [id EXCEPT ![t] = @ + 1]
  /\ UNCHANGED <<hwVars, enableVars, vms, vm_list, g_kvm, created_vcpus,
                 vcpuVars, loadedVars, fieldVars, vpidVars, kvm, vcpu,
                 bugcheck>>

-----------------------------------------------------------------------------
(***************************************************************************)
(* KVM_RUN: RunKvm is broadcast to every processor.  Processor c loads     *)
(* vCPU c and runs it; inside the broadcast vmx_vcpu_load_vmcs must not    *)
(* need a broadcast of its own, to VMCLEAR or to VMPTRLD.  The MMU is an   *)
(* open environment: a run may end in it and stop the machine (TdpMmu).    *)
(***************************************************************************)
LoadedPointer(v) == IF vmcs[v] = "live" THEN v ELSE Null

AlreadyLoaded(v, c) == vmcs_cpu[v] = c

RunFaults ==
  IF g_kvm = Null THEN {"null_kvm"}
  ELSE LET arr == vcpu_array[g_kvm]
           present == {c \in CPU : arr[c] # Null}
       IN  {f \in {"null_vcpu", "nested_ipi", "ud_vmwrite"} :
              \/ f = "null_vcpu" /\ \E c \in CPU : arr[c] = Null
              \/ /\ f = "nested_ipi"
                 /\ \E c \in present :
                      \/ vmcs_cpu[arr[c]] \notin {c, -1}
                      \/ current_vmcs[c] # LoadedPointer(arr[c])
              \/ f = "ud_vmwrite" /\ \E c \in present : ~vmx_root[c]}

\* VM entry on c can pass the processor's checks only if some vCPU's reset
\* state was written to the VMCS current on c.
CanEnter(c) == \E v \in WriteTarget(c) : reset_by[v] # Null

KVM_RUN(t) ==
  /\ pc[t] = "idle"
  /\ \/ \E f \in RunFaults : BugCheck(f)
     \/ RunFaults = {} /\ BugCheck("mmu")
     \/ /\ RunFaults = {}
        /\ LET arr == vcpu_array[g_kvm]
               fresh == {c \in CPU : ~AlreadyLoaded(arr[c], c)}
           IN  /\ loaded_vmcss_on_cpu' =
                    [c \in CPU |-> loaded_vmcss_on_cpu[c] \cup
                                     (IF c \in fresh THEN {arr[c]} ELSE {})]
               /\ host_tr' =
                    [v \in VCPU |-> IF \E c \in fresh : v \in WriteTarget(c)
                                    THEN CHOOSE c \in fresh : v \in WriteTarget(c)
                                    ELSE host_tr[v]]
               /\ vmcs_cpu' =
                    [v \in VCPU |-> IF \E c \in fresh : v = arr[c]
                                    THEN CHOOSE c \in fresh : v = arr[c]
                                    ELSE vmcs_cpu[v]]
               /\ \E entered \in SUBSET {c \in CPU : CanEnter(c)} :
                    launched' =
                      [v \in VCPU |-> launched[v] \/ \E c \in entered : v = arr[c]]
        /\ UNCHANGED <<hwVars, enableVars, vmVars, vcpuVars, vmcs,
                       current_vmcs, reset_by, vpidVars, threadVars, bugcheck>>

-----------------------------------------------------------------------------
(***************************************************************************)
(* KVM_RELEASE_VM: kvm_put_kvm(g_kvm), that is kvm_destroy_vm.             *)
(***************************************************************************)

\* RemoveEntryList refuses an entry its neighbours do not point to.
UnlinkedUnchecked(k) == k \notin vm_list /\ vms[k] = "freed"

Unlinked(k) == k \notin vm_list

\* RemoveEntryList(&kvm->vm_list) under kvm_lock.
kvm_destroy_vm(t) ==
  /\ pc[t] = "idle"
  /\ \/ g_kvm = Null /\ BugCheck("null_kvm")
     \/ /\ g_kvm # Null
        /\ Unlinked(g_kvm) \/ DanglingVmList
        /\ BugCheck("vm_list")
     \/ /\ g_kvm # Null
        /\ ~Unlinked(g_kvm)
        /\ Goto(t, "idle", "destroy")
        /\ kvm' = [kvm EXCEPT ![t] = g_kvm]
        /\ id' = [id EXCEPT ![t] = 0]
        /\ vm_list' = vm_list \ {g_kvm}
        /\ UNCHANGED <<hwVars, enableVars, vms, g_kvm, created_vcpus,
                       vcpu_array, vcpuVars, loadedVars, fieldVars, vpidVars,
                       vcpu, bugcheck>>

NextDestroy(t) ==
  IF LastId(t)
  THEN Goto(t, "destroy", "disable") /\ UNCHANGED id
  ELSE pc[t] = "destroy" /\ UNCHANGED pc /\ id' = [id EXCEPT ![t] = @ + 1]

ClearWithoutCurrent(v, c) ==
  /\ vmptr' = [vmptr EXCEPT ![c] = IF @ = v THEN Null ELSE @]
  /\ loaded_vmcss_on_cpu' = [loaded_vmcss_on_cpu EXCEPT ![c] = @ \ {v}]
  /\ vmcs_cpu' = [vmcs_cpu EXCEPT ![v] = -1]
  /\ launched' = [launched EXCEPT ![v] = FALSE]
  /\ UNCHANGED current_vmcs

ClearWithoutUnlink(v, c) ==
  /\ current_vmcs' = [current_vmcs EXCEPT ![c] = IF @ = v THEN Null ELSE @]
  /\ vmptr' = [vmptr EXCEPT ![c] = IF @ = v THEN Null ELSE @]
  /\ vmcs_cpu' = [vmcs_cpu EXCEPT ![v] = -1]
  /\ launched' = [launched EXCEPT ![v] = FALSE]
  /\ UNCHANGED loaded_vmcss_on_cpu

\* __loaded_vmcs_clear of v on the processor c named by vcpu_id.
__loaded_vmcs_clear(v, c) ==
  /\ current_vmcs' = [current_vmcs EXCEPT ![c] = IF @ = v THEN Null ELSE @]
  /\ vmptr' = [vmptr EXCEPT ![c] = IF @ = v THEN Null ELSE @]
  /\ loaded_vmcss_on_cpu' = [loaded_vmcss_on_cpu EXCEPT ![c] = @ \ {v}]
  /\ vmcs_cpu' = [vmcs_cpu EXCEPT ![v] = -1]
  /\ launched' = [launched EXCEPT ![v] = FALSE]

\* free_loaded_vmcs of one entry of kvm_destroy_vcpus, which indexes
\* g_kvm->vcpu_array and not the array of the VM it was given.
free_loaded_vmcs(t) ==
  LET v == vcpu_array[g_kvm][id[t]]
      c == vcpu_id[v]
      rest == <<vmxe, vmx_root, enableVars, vmVars, vcpuVars, fieldVars,
                vpidVars, kvm, vcpu, bugcheck>>
  IN  /\ pc[t] = "destroy"
      /\ \/ v = Null /\ BugCheck("null_vcpu")
         \/ /\ v # Null
            /\ vmcs[v] # "live"
            /\ NextDestroy(t)
            /\ UNCHANGED <<vmptr, loadedVars, rest>>
         \/ /\ v # Null
            /\ vmcs[v] = "live"
            /\ vmcs_cpu[v] = -1
            /\ NextDestroy(t)
            /\ vmcs' = [vmcs EXCEPT ![v] = "freed"]
            /\ UNCHANGED <<vmptr, vmcs_cpu, launched, current_vmcs,
                           loaded_vmcss_on_cpu, rest>>
         \/ /\ v # Null
            /\ vmcs[v] = "live"
            /\ vmcs_cpu[v] # -1
            /\ IF ~vmx_root[c] THEN BugCheck("ud_vmclear")
               ELSE IF v \notin loaded_vmcss_on_cpu[c]
               THEN BugCheck("vmclear_list")
               ELSE /\ NextDestroy(t)
                    /\ __loaded_vmcs_clear(v, c)
                    /\ vmcs' = [vmcs EXCEPT ![v] = "freed"]
                    /\ UNCHANGED rest

\* vmx_hardware_disable on processor e.  vmclear_local_loaded_vmcss never
\* advances its cursor, so it survives only an empty list; cpu_vmxoff
\* broadcasts VMXOFF to every processor.
DisableFaults(e) ==
  {f \in {"vmclear_list", "ud_vmxoff"} :
     \/ f = "vmclear_list" /\ loaded_vmcss_on_cpu[e] # {}
     \/ f = "ud_vmxoff" /\ \E c \in CPU : ~vmx_root[c]}

\* VMXOFF, then CR4.VMXE, on every processor.
cpu_vmxoff ==
  /\ vmx_root' = [c \in CPU |-> FALSE]
  /\ vmxe' = [c \in CPU |-> FALSE]
  /\ vmptr' = [c \in CPU |-> Null]

LastUserOffByOne == kvm_usage_count = 0

LastUser == kvm_usage_count - 1 = 0

\* hardware_disable_all, under kvm_lock, on processor e.
hardware_disable_all(t, e) ==
  /\ pc[t] = "disable"
  /\ \/ \E f \in DisableFaults(e) :
          LastUser /\ hardware_enabled[e] /\ BugCheck(f)
     \/ /\ LastUser /\ hardware_enabled[e] => DisableFaults(e) = {}
        /\ Goto(t, "disable", "idle")
        /\ kvm_usage_count' = kvm_usage_count - 1
        /\ vms' = [vms EXCEPT ![kvm[t]] = "released"]
        /\ IF LastUser /\ hardware_enabled[e]
           THEN /\ cpu_vmxoff
                /\ vpid_buf' = FALSE
                /\ hardware_enabled' = [hardware_enabled EXCEPT ![e] = FALSE]
           ELSE UNCHANGED <<hwVars, vpid_buf, hardware_enabled>>
        /\ UNCHANGED <<vm_list, g_kvm, created_vcpus, vcpu_array, vcpuVars,
                       loadedVars, fieldVars, vpid_bitmap, vpid, kvm, id,
                       vcpu, bugcheck>>

-----------------------------------------------------------------------------
\* A stopped machine stays stopped.
Halted == bugcheck # "none" /\ UNCHANGED vars

ThreadStep(t) ==
  \/ kvm_create_vm(t) \/ link_vm(t) \/ kvm_dev_ioctl_create_vm(t)
  \/ KVM_CREATE_VCPU(t) \/ reserve_vcpu(t) \/ alloc_vcpu(t) \/ set_vpid(t)
  \/ alloc_loaded_vmcs(t) \/ load_insert(t) \/ load_vmptrld(t)
  \/ (\E e \in CPU : load_write(t, e))
  \/ (\E e \in CPU : kvm_vcpu_reset(t, e))
  \/ store_vcpu(t) \/ KVM_RUN(t) \/ kvm_destroy_vm(t) \/ free_loaded_vmcs(t)
  \/ (\E e \in CPU : hardware_disable_all(t, e))

Next ==
  \/ bugcheck = "none" /\ \E t \in Thread : ThreadStep(t)
  \/ Halted

Spec == Init /\ [][Next]_vars

-----------------------------------------------------------------------------
(***************************************************************************)
(* Properties                                                              *)
(***************************************************************************)

\* Thread t has inserted v into the list of processor c and not yet set cpu.
Loading(v, c) ==
  \E t \in Thread : pc[t] \in {"vmptrld", "load"} /\ vcpu[t] = v /\ id[t] = c

\* struct loaded_vmcs: a VMCS is on the list of exactly the processor its cpu
\* field names, and on none when cpu is -1 (vmx_vcpu_load_vmcs opens a window
\* between the insertion and the assignment).
LoadedVmcsTracked ==
  \A v \in VCPU, c \in CPU :
    v \in loaded_vmcss_on_cpu[c] <=> vmcs_cpu[v] = c \/ Loading(v, c)

\* The driver's current_vmcs[c] is the VMCS that processor c really has
\* current, except between the assignment and the VMPTRLD broadcast.
CurrentVmcsAgrees ==
  \A c \in CPU :
    \/ current_vmcs[c] = vmptr[c]
    \/ \E t \in Thread : pc[t] = "vmptrld" /\ id[t] = c

\* free_loaded_vmcs: memory of a VMCS is returned only after VMCLEAR, so no
\* processor keeps a freed VMCS current and current_vmcs never names one.
FreedVmcsNotCurrent ==
  \A c \in CPU : \A v \in {vmptr[c], current_vmcs[c]} \ {Null} : vmcs[v] = "live"

\* The tear-down order (destroy vCPUs, then hardware_disable_all) and the
\* vCPU count keep vmclear_local_loaded_vmcss away from a non-empty list, VMXOFF
\* away from processors outside VMX operation, and RunKvm away from a broadcast
\* inside its broadcast.
NoTeardownFault == bugcheck \notin {"vmclear_list", "ud_vmxoff", "nested_ipi"}

\* hardware_disable_all leaves no processor in VMX operation once no VM is
\* counted, on whichever processor it runs, unless some other owner of VMX had
\* set CR4.VMXE on a processor before the driver came.
VmxOnlyWhileUsed ==
  kvm_usage_count = 0 =>
    \/ \A c \in CPU : ~vmx_root[c]
    \/ \E d \in CPU : vmxe[d] /\ ~vmx_root[d]

\* kvm_usage_count is the number of VMs created and not released, whatever
\* sequence of requests the threads issue.
UsageCountsVms ==
  kvm_usage_count = Cardinality({k \in VM : vms[k] \in {"live", "freed"}})

\* As long as the bitmap exists no two VMCSs in use carry the same VPID (0 is
\* the host's and stands for "none left").  The first vmx_hardware_disable frees
\* the bitmap, and allocate_vpid goes on reading the freed buffer.
VpidUnique ==
  vpid_buf =>
    \A v, w \in VCPU :
      vmcs[v] = "live" /\ vmcs[w] = "live" /\ v # w /\ vpid[v] = vpid[w]
        => vpid[v] = 0

\* Once every entry of a VM's vcpu_array is filled, the array holds every vCPU
\* that was created for the VM: kvm_destroy_vcpus then leaks no VMCS.
FullArrayHoldsAll ==
  \A k \in VM :
    (\A i \in CPU : vcpu_array[k][i] # Null)
      => \A v \in VCPU : vcpu_kvm[v] = k => vcpu_array[k][vcpu_id[v]] = v

\* hardware_disable_all_nolock "tells all online CPUs to disable hardware":
\* with no VM left no processor counts as enabled.
DisableReachesAllCpus ==
  kvm_usage_count = 0 => \A c \in CPU : ~hardware_enabled[c]

\* "per-cpu TSS and GDT, so set these when switching processors": a VMCS loaded
\* on processor c names the TSS and GDT of c as host state.
HostStateOfOwnCpu ==
  \A v \in VCPU : vmcs_cpu[v] # -1 => host_tr[v] = vmcs_cpu[v]

=============================================================================
