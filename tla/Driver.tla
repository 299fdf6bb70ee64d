-------------------------------- MODULE Driver --------------------------------
(***************************************************************************)
(* Loading and unloading the driver: DriverEntry, vmx_init and svm_init    *)
(* with the vendor set-up they call, the requests that need what was set   *)
(* up, and DriverUnload.  Loading is sequential: an action is a stretch up *)
(* to the next call that may fail.                                         *)
(*                                                                         *)
(* mem says of every allocation what its global pointer is worth: NULL, a  *)
(* live block or a freed one.  The image, and with it the globals, goes    *)
(* away when DriverEntry fails or DriverUnload returns: what is live then  *)
(* is leaked.  The machine stops at an access through NULL, at a second    *)
(* free, at ExFreePool(NULL), at the list check of RemoveEntryList and at  *)
(* an unhandled #GP or #UD.                                                *)
(*                                                                         *)
(* The requests come one at a time and in any order.  Their own            *)
(* allocations succeed here and the VMCSs are not followed: Lifecycle has  *)
(* both.                                                                   *)
(***************************************************************************)
EXTENDS VmxControls

CONSTANTS
  Cpu,           \* processors
  Processor,     \* the processors a machine may have: records, see ProcessorType
  MaxFailures,   \* bound: allocations that fail
  MaxLoads,      \* bound: calls of DriverEntry
  MaxVms,        \* bound: VMs that are counted at a time
  NONE

ASSUME BoundAssumption == MaxFailures \in Nat /\ MaxLoads \in Nat /\ MaxVms \in Nat
ASSUME ProcessorAssumption ==
  Processor \subseteq [brand : {"GenuineIntel", "AuthenticAMD", "other"},
                       has : SUBSET Features,   \* VMX features
                       vmx : BOOLEAN,           \* CPUID.1:ECX.VMX
                       locked : BOOLEAN,        \* IA32_FEATURE_CONTROL, bit 0
                       vmxon : BOOLEAN,         \* IA32_FEATURE_CONTROL, bit 2
                       svm : BOOLEAN]           \* CPUID and VM_CR allow SVM
\* A control the capability MSRs report as "must be one" is one they allow.
ASSUME AllowedAssumption ==
  \A p \in Processor : p.brand = "GenuineIntel" => DefaultOnes \subseteq p.has

\* A stop that is a request's own doing: it names no VM, one without vCPUs or
\* one that was released.
OutOfOrder == {"g_kvm is NULL", "vcpu_array entry is NULL", "vm_list entry is unlinked"}

ASSUME NoneAssumption ==
  NONE \notin {"created", "vcpus", "released", "no operations", "#UD outside VMX operation"}
                \cup OutOfOrder

MmuCache == <<"pte_list_desc_cache_mdl", "pte_list_desc_cache",
              "mmu_page_header_mdl", "mmu_page_header_cache">>
MmuCaches == {MmuCache[i] : i \in DOMAIN MmuCache}
Block == MmuCaches
           \cup {"device", "link", "hardware_enabled", "vmxarea", "current_vmcs",
                 "vmx_vpid_bitmap_buf", "loaded_vmcss_on_cpu"}
BlockState == {"null", "live", "freed"}

\* The operations of the VMX module that loading, unloading and the requests
\* below call.
vmx_x86_ops ==
  {"hardware_unsetup", "hardware_enable", "hardware_disable", "vm_init", "vm_destroy",
   "vcpu_precreate", "vcpu_create", "vcpu_free", "vcpu_reset", "vcpu_load", "vcpu_put",
   "set_cr0", "set_cr4", "set_efer"}

VARIABLES
  processor,   \* the machine's processors (all alike)
  pc,          \* where the driver is
  mem,
  area,        \* the VMXON regions vmxarea[cpu] points to
  leaked,      \* blocks, and "VMXON region"
  failed,      \* the allocations that failed since the machine started
  loads,
  kvm_x86_ops, \* the runtime operations that are installed
  module,      \* g_vmx_init, g_svm_init: "vmx", "svm" or NONE
  vmcs_config, \* and vmx_capability
  flags,       \* what hardware_setup turned on
  g_kvm,       \* NONE, or the last VM: "created", "vcpus" (it has them), "released"
  vmcs,        \* the controls of its vCPUs' VMCSs
  kvm_usage_count,
  hardware_enabled, \* the processors so marked
  vmxe,        \* the processors with CR4.VMXE on (hardware)
  vmx_root,    \* the processors in VMX operation (hardware)
  fault        \* why the machine stopped

session == <<g_kvm, vmcs, kvm_usage_count, hardware_enabled, vmxe, vmx_root>>
vars == <<processor, pc, mem, area, leaked, failed, loads, kvm_x86_ops, module, vmcs_config,
          flags, session, fault>>

Loading == {"create_device", "create_link", "alloc_enabled", "brand", "alloc_current",
            "vmx_init", "svm_init", "mmu", "setup", "vpid_bitmap", "areas", "update_ops",
            "loaded_lists"}

TypeOK ==
  /\ processor \in Processor
  /\ pc \in Loading \cup {"unloaded", "running", "stopped"}
  /\ mem \in [Block -> BlockState] /\ area \in [Cpu -> BlockState]
  /\ leaked \subseteq Block \cup {"VMXON region"}
  /\ failed \subseteq Block \cup {"VMXON region"}
  /\ loads \in 0 .. MaxLoads
  /\ kvm_x86_ops \subseteq vmx_x86_ops /\ module \in {"vmx", "svm", NONE}
  /\ g_kvm \in {"created", "vcpus", "released", NONE} /\ kvm_usage_count \in 0 .. MaxVms
  /\ hardware_enabled \subseteq Cpu /\ vmxe \subseteq Cpu /\ vmx_root \subseteq vmxe

NoMemory == [b \in Block |-> "null"]
NoRegions == [c \in Cpu |-> "null"]

Init ==
  /\ processor \in Processor
  /\ pc = "unloaded" /\ mem = NoMemory /\ area = NoRegions /\ leaked = {} /\ failed = {} /\ loads = 0
  /\ kvm_x86_ops = {} /\ module = NONE /\ vmcs_config = NONE /\ flags = NONE
  /\ g_kvm = NONE /\ vmcs = NONE /\ kvm_usage_count = 0
  /\ hardware_enabled = {} /\ vmxe = {} /\ vmx_root = {} /\ fault = NONE

-----------------------------------------------------------------------------
Live(m, a) ==
  {b \in Block : m[b] = "live"}
    \cup (IF \E c \in Cpu : a[c] = "live" THEN {"VMXON region"} ELSE {})

Freed(m, bs) == [b \in Block |-> IF b \in bs THEN "freed" ELSE m[b]]

\* The image goes away with memory m and regions a: its globals start afresh,
\* and the processors stay as they are.
Gone(m, a) ==
  /\ leaked' = leaked \cup Live(m, a)
  /\ mem' = NoMemory /\ area' = NoRegions /\ kvm_x86_ops' = {} /\ module' = NONE
  /\ vmcs_config' = NONE /\ flags' = NONE /\ g_kvm' = NONE /\ vmcs' = NONE
  /\ kvm_usage_count' = 0 /\ hardware_enabled' = {}
  /\ pc' = "unloaded"
  /\ UNCHANGED <<processor, loads, vmxe, vmx_root, fault>>

Stop(why) ==
  /\ fault' = why /\ pc' = "stopped"
  /\ UNCHANGED <<processor, mem, area, leaked, loads, kvm_x86_ops, module, vmcs_config,
                 flags, session>>

\* The rest of the globals while DriverEntry is at work.
Globals == <<processor, area, leaked, loads, module, session, fault>>

\* Block b is allocated and the driver goes on at `next'.
Allocated(b, next) ==
  /\ mem' = [mem EXCEPT ![b] = "live"] /\ pc' = next
  /\ UNCHANGED <<Globals, failed, kvm_x86_ops, vmcs_config, flags>>

\* The allocation of b fails, as often as the bound allows.
Fails(b) == Cardinality(failed) < MaxFailures /\ failed' = failed \cup {b}

-----------------------------------------------------------------------------
\* DriverEntry

\* Its last lines, reached with a failure status: both arrays are freed,
\* whether or not this brand of processor has them.
LoadFailed ==
  IF mem["vmxarea"] = "null"
  THEN Stop("ExFreePool(NULL)")
  ELSE Gone(Freed(mem, {"vmxarea", "current_vmcs", "device", "link"}), area)

\* Mutant: the device stays behind when its link cannot be made.
LinkFailureKeepsDevice ==
  \/ /\ pc = "create_device" /\ Allocated("device", "create_link")
  \/ /\ pc = "create_device" /\ Fails("device") /\ Gone(mem, area)
  \/ /\ pc = "create_link" /\ Allocated("link", "alloc_enabled")
  \/ /\ pc = "create_link" /\ Fails("link") /\ Gone(mem, area)

\* IoCreateDevice and IoCreateSymbolicLink.
CreateDevice ==
  \/ /\ pc = "create_device" /\ Allocated("device", "create_link")
  \/ /\ pc = "create_device" /\ Fails("device") /\ Gone(mem, area)
  \/ /\ pc = "create_link" /\ Allocated("link", "alloc_enabled")
  \/ /\ pc = "create_link" /\ Fails("link") /\ Gone(Freed(mem, {"device"}), area)

\* hardware_enabled, which no path frees.
AllocHardwareEnabled ==
  /\ pc = "alloc_enabled"
  /\ \/ Allocated("hardware_enabled", "brand")
     \/ Fails("hardware_enabled") /\ Gone(Freed(mem, {"device", "link"}), area)

\* The brand, and the first array of an Intel processor.
SelectVendor ==
  /\ pc = "brand"
  /\ \/ processor.brand = "GenuineIntel" /\ Allocated("vmxarea", "alloc_current")
     \/ /\ processor.brand = "GenuineIntel"
        /\ Fails("vmxarea") /\ Gone(Freed(mem, {"device", "link"}), area)
     \/ /\ processor.brand = "AuthenticAMD"
        /\ pc' = "svm_init"
        /\ UNCHANGED <<Globals, mem, failed, kvm_x86_ops, vmcs_config, flags>>
     \/ processor.brand = "other" /\ LoadFailed /\ UNCHANGED failed

AllocCurrentVmcs ==
  /\ pc = "alloc_current"
  /\ \/ Allocated("current_vmcs", "vmx_init")
     \/ Fails("current_vmcs") /\ Gone(Freed(mem, {"vmxarea", "device", "link"}), area)

Continue(next) ==
  /\ pc' = next /\ UNCHANGED <<Globals, mem, failed, kvm_x86_ops, vmcs_config, flags>>

\* Only the lock bit of IA32_FEATURE_CONTROL is looked at.
kvm_is_vmx_supported == processor.vmx /\ processor.locked

vmx_init ==
  /\ pc = "vmx_init"
  /\ IF kvm_is_vmx_supported THEN Continue("mmu") ELSE LoadFailed /\ UNCHANGED failed

kvm_is_svm_supported == processor.svm

svm_init ==
  /\ pc = "svm_init"
  /\ IF kvm_is_svm_supported THEN Continue("mmu") ELSE LoadFailed /\ UNCHANGED failed

-----------------------------------------------------------------------------
\* __kvm_x86_vendor_init

\* The module is initialised: kvm_init cannot fail, DriverEntry returns.
Loaded(m, as) ==
  /\ pc' = "running" /\ module' = as /\ mem' = m
  /\ UNCHANGED <<processor, area, leaked, loads, session, fault, vmcs_config, flags>>

\* kvm_mmu_vendor_module_init: four allocations in turn.  When one fails
\* mmu_destroy_caches frees the others, and __kvm_x86_vendor_init leaves
\* with the STATUS_SUCCESS it started from: nothing is set up.
kvm_mmu_vendor_module_init ==
  /\ pc = "mmu"
  /\ \/ /\ mem' = [b \in Block |-> IF b \in MmuCaches THEN "live" ELSE mem[b]]
        /\ pc' = "setup"
        /\ UNCHANGED <<Globals, failed, kvm_x86_ops, vmcs_config, flags>>
     \/ \E i \in DOMAIN MmuCache :
          LET left == Freed(mem, {MmuCache[j] : j \in 1 .. i - 1})
          IN  /\ Fails(MmuCache[i])
              /\ IF processor.brand = "GenuineIntel"
                 THEN /\ pc' = "loaded_lists" /\ mem' = left
                      /\ UNCHANGED <<Globals, kvm_x86_ops, vmcs_config, flags>>
                 ELSE Loaded(left, "svm") /\ UNCHANGED kvm_x86_ops

\* Every processor clears svm_data[cpu], an array nobody allocates.
svm_hardware_setup ==
  /\ pc = "setup" /\ processor.brand = "AuthenticAMD"
  /\ Stop("svm_data is NULL") /\ UNCHANGED failed

\* hardware_setup up to its first allocation.
hardware_setup ==
  /\ pc = "setup" /\ processor.brand = "GenuineIntel" /\ UNCHANGED failed
  /\ IF RdmsrFaults(processor.has) THEN Stop("#GP on rdmsr")
     ELSE LET config == setup_vmcs_config(processor.has)
          IN  IF ConfigRefused(processor.has) \/ ~enable_ept(config)
              THEN LoadFailed
              ELSE /\ vmcs_config' = config /\ flags' = HardwareFlags(config)
                   /\ pc' = "vpid_bitmap"
                   /\ UNCHANGED <<Globals, mem, kvm_x86_ops>>

AllocVpidBitmap ==
  /\ pc = "vpid_bitmap"
  /\ \/ Allocated("vmx_vpid_bitmap_buf", "areas")
     \/ Fails("vmx_vpid_bitmap_buf") /\ LoadFailed

Others == <<processor, mem, leaked, loads, kvm_x86_ops, module, vmcs_config, flags, session,
            fault>>

\* free_kvm_area: MmFreeContiguousMemory on every entry of vmxarea.  What it
\* does with NULL is external: it stops the machine or does nothing.
free_kvm_area(a, after) ==
  IF \E c \in Cpu : a[c] = "freed"
  THEN Stop("double free")
  ELSE \/ (\E c \in Cpu : a[c] = "null") /\ Stop("free of NULL")
       \/ after

\* alloc_kvm_area, one VMXON region per processor in turn.  When one cannot
\* be had all are freed, the NULL of this and of every later processor too,
\* and the value 1 that is returned passes for success.
alloc_kvm_area ==
  /\ pc = "areas"
  /\ \/ /\ area' = [c \in Cpu |-> "live"] /\ pc' = "update_ops"
        /\ UNCHANGED <<Others, failed>>
     \/ \E c \in Cpu :
          LET left == [d \in Cpu |-> IF d < c THEN "freed" ELSE "null"]
          IN  /\ Fails("VMXON region")
              /\ free_kvm_area(area,
                   area' = left /\ pc' = "update_ops" /\ UNCHANGED Others)

\* kvm_ops_update.  Every processor then runs vmx_check_processor_compat, the
\* result of which is dropped.
kvm_ops_update ==
  /\ pc = "update_ops" /\ kvm_x86_ops' = vmx_x86_ops /\ pc' = "loaded_lists"
  /\ UNCHANGED <<Globals, mem, failed, vmcs_config, flags>>

\* The rest of vmx_init: the list heads, then kvm_init.  Without the list
\* heads nothing of the vendor set-up is undone.
AllocLoadedLists ==
  /\ pc = "loaded_lists"
  /\ \/ /\ Loaded([mem EXCEPT !["loaded_vmcss_on_cpu"] = "live"], "vmx")
        /\ UNCHANGED <<failed, kvm_x86_ops>>
     \/ Fails("loaded_vmcss_on_cpu") /\ LoadFailed

DriverEntry ==
  /\ pc = "unloaded" /\ loads < MaxLoads
  /\ loads' = loads + 1 /\ pc' = "create_device"
  /\ UNCHANGED <<processor, mem, area, leaked, failed, kvm_x86_ops, module, vmcs_config, flags,
                 session, fault>>

-----------------------------------------------------------------------------
\* DriverDeviceControl, as far as it needs what loading set up.

Unaffected == <<processor, mem, area, leaked, failed, loads, kvm_x86_ops, module, vmcs_config,
                flags, fault>>

\* The operations a request is about to call are there.
Installed(ops) == ops \subseteq kvm_x86_ops

\* Mutant: the count is looked at before the new VM is added to it.
EnableOffByOne == IF kvm_usage_count = 1 THEN Cpu \ (hardware_enabled \cup vmxe) ELSE {}

\* EnableHardware, on every processor for the first VM: it comes to VMXON
\* where neither the processor is marked as enabled nor CR4.VMXE is on (the
\* refusal of vmx_hardware_enable is dropped).
EnableHardware == IF kvm_usage_count = 0 THEN Cpu \ (hardware_enabled \cup vmxe) ELSE {}

\* kvm_cpu_vmxon on the processors `on'.  VMXON fails, or not, without a
\* region of its own, and its result is dropped.
vmx_hardware_enable(on) ==
  /\ vmxe' = vmxe \cup on
  /\ \E entered \in SUBSET on :
       /\ {c \in on : area[c] = "live"} \subseteq entered
       /\ vmx_root' = vmx_root \cup entered

\* VMXON takes a #GP when the firmware locked it off.  A VM that g_kvm still
\* names is forgotten, and stays counted.
KVM_CREATE_VM ==
  /\ pc = "running" /\ kvm_usage_count < MaxVms
  /\ IF ~Installed({"vm_init", "hardware_enable"})
     THEN Stop("no operations") /\ UNCHANGED failed
     ELSE IF EnableHardware # {} /\ ~processor.vmxon
     THEN Stop("#GP on VMXON") /\ UNCHANGED failed
     ELSE /\ vmx_hardware_enable(EnableHardware)
          /\ hardware_enabled' = hardware_enabled \cup EnableHardware
          /\ kvm_usage_count' = kvm_usage_count + 1
          /\ g_kvm' = "created" /\ vmcs' = NONE
          /\ UNCHANGED <<Unaffected, pc>>

\* What may stop KVM_CREATE_VCPU, and does unless "nothing" is there too:
\* every vCPU's VMCS is cleared and loaded on the processor of its number, and
\* allocate_vpid searches and marks the bitmap, whether or not it was freed.
CreateVcpuFaults ==
  IF g_kvm = NONE THEN {"g_kvm is NULL"}
  ELSE IF ~Installed({"vcpu_precreate", "vcpu_create", "vcpu_load", "vcpu_reset", "set_cr0",
                      "set_cr4", "set_efer", "vcpu_put"})
  THEN {"no operations"}
  ELSE (IF mem["vmx_vpid_bitmap_buf"] = "live" THEN {} ELSE {"freed VPID bitmap"})
         \cup (IF vmx_root = Cpu THEN {"nothing"} ELSE {"#UD outside VMX operation"})

\* One vCPU for each processor.  A VM that has had its vCPUs, released or not,
\* is at its limit and refuses.  A vCPU gets a VPID, or 0 when there is none
\* left.
KVM_CREATE_VCPU ==
  /\ pc = "running"
  /\ IF g_kvm \in {"vcpus", "released"} THEN UNCHANGED vars
     ELSE \/ /\ UNCHANGED failed
             /\ \E why \in CreateVcpuFaults \ {"nothing"} : Stop(why)
          \/ /\ "nothing" \in CreateVcpuFaults
             /\ \E vpid \in {0, 1} :
                  vmcs' = [controls |-> init_vmcs(vmcs_config, vpid), vpid |-> vpid]
             /\ g_kvm' = "vcpus"
             /\ UNCHANGED <<Unaffected, pc, kvm_usage_count, hardware_enabled, vmxe, vmx_root>>

\* What stops KVM_RELEASE_VM, or NONE: RemoveEntryList of the VM, then
\* kvm_destroy_vcpus, which VMCLEARs on every processor.
ReleaseFault ==
  CASE g_kvm = NONE -> "g_kvm is NULL"
    [] g_kvm = "released" -> "vm_list entry is unlinked"
    [] ~Installed({"vm_destroy", "vcpu_free", "hardware_disable"}) -> "no operations"
    [] g_kvm = "created" -> "vcpu_array entry is NULL"
    [] OTHER -> IF vmx_root = Cpu THEN NONE ELSE "#UD outside VMX operation"

\* hardware_disable_all on processor e.  The last VM's release turns VMX off
\* on every processor (cpu_vmxoff) and takes the mark from this one only;
\* vmx_hardware_disable frees the VPID bitmap, which only loading allocates.
hardware_disable_all(e) ==
  /\ kvm_usage_count' = kvm_usage_count - 1
  /\ IF kvm_usage_count = 1 /\ e \in hardware_enabled
     THEN /\ vmxe' = {} /\ vmx_root' = {} /\ hardware_enabled' = hardware_enabled \ {e}
          /\ mem' = [mem EXCEPT !["vmx_vpid_bitmap_buf"] = "null"]
     ELSE UNCHANGED <<vmxe, vmx_root, hardware_enabled, mem>>

\* kvm_put_kvm(g_kvm).  The VM is not freed and g_kvm keeps naming it.
KVM_RELEASE_VM ==
  /\ pc = "running" /\ UNCHANGED failed
  /\ IF ReleaseFault # NONE THEN Stop(ReleaseFault)
     ELSE /\ \E e \in Cpu : hardware_disable_all(e)
          /\ g_kvm' = "released" /\ vmcs' = NONE
          /\ UNCHANGED <<processor, area, leaked, loads, kvm_x86_ops, module,
                         vmcs_config, flags, fault, pc>>

\* Called through hardware_unsetup by vmx_exit and svm_exit; what
\* alloc_kvm_area freed is freed again.
kvm_x86_vendor_exit(after) ==
  IF ~Installed({"hardware_unsetup"}) THEN Stop("no operations") ELSE free_kvm_area(area, after)

\* A VM that is still there is forgotten, VMX stays on.
DriverUnload ==
  /\ pc = "running" /\ UNCHANGED failed
  /\ kvm_x86_vendor_exit(
       Gone(Freed(mem, {"vmxarea", "current_vmcs", "device", "link"}), NoRegions))

Next ==
  \/ DriverEntry \/ CreateDevice \/ AllocHardwareEnabled \/ SelectVendor \/ AllocCurrentVmcs
  \/ vmx_init \/ svm_init \/ kvm_mmu_vendor_module_init \/ svm_hardware_setup
  \/ hardware_setup \/ AllocVpidBitmap
  \/ alloc_kvm_area \/ kvm_ops_update \/ AllocLoadedLists
  \/ KVM_CREATE_VM \/ KVM_CREATE_VCPU \/ KVM_RELEASE_VM \/ DriverUnload

Spec == Init /\ [][Next]_vars

-----------------------------------------------------------------------------
\* Properties

\* On an Intel processor that has EPT or VPID and whose firmware allows VMXON
\* the machine is stopped only
\*  - after one of the MMU caches or one of the VMXON regions could not be
\*    allocated: DriverEntry, the requests and DriverUnload survive every other
\*    failure;
\*  - by a request that is out of order;
\*  - by KVM_CREATE_VCPU after the last VM was released, because the VPID bitmap
\*    is gone or because hardware_disable_nolock has left the mark of a
\*    processor that cpu_vmxoff took out of VMX operation.
\* The first VMs after loading, whatever an earlier load left behind, are safe.
StopsExplained ==
  fault # NONE =>
    \/ processor.brand # "GenuineIntel"
    \/ RdmsrFaults(processor.has)
    \/ ~processor.vmxon
    \/ failed \cap (MmuCaches \cup {"VMXON region"}) # {}
    \/ fault \in OutOfOrder
    \/ /\ mem["vmx_vpid_bitmap_buf"] = "null"
       /\ \/ fault = "freed VPID bitmap"
          \/ fault = "#UD outside VMX operation" /\ ~(hardware_enabled \subseteq vmx_root)

\* Neither an error path of DriverEntry nor DriverUnload leaves the device, its
\* link or the two arrays behind, and the VMXON regions stay allocated only
\* after vmx_init could not allocate its list heads.
LeaksKnown ==
  /\ leaked \cap {"device", "link", "vmxarea", "current_vmcs"} = {}
  /\ "VMXON region" \in leaked => "loaded_vmcss_on_cpu" \in failed

\* What setup_vmcs_config and hardware_setup turn on has what it depends on:
\* MSRs loaded at entry are reloaded at exit, APIC virtualisation has the TPR
\* shadow and posted interrupts their delivery, a capability is kept for a
\* feature that is on only, and the page tables are given accessed and dirty
\* bits, and PML is used, when the processor maintains those bits.
ConfigDependencies ==
  vmcs_config # NONE =>
    /\ \A p \in vmcs_entry_exit_pairs :
         (p[1] \in vmcs_config.entry) <=> (p[2] \in vmcs_config.exit)
    /\ "POSTED_INTR" \in vmcs_config.pin => "VIRTUAL_INTR_DELIVERY" \in vmcs_config.secondary
    /\ "VIRTUAL_INTR_DELIVERY" \in vmcs_config.secondary => "TPR_SHADOW" \in vmcs_config.exec
    /\ vmcs_config.vpid # {} => "ENABLE_VPID" \in vmcs_config.secondary
    /\ "ENABLE_EPT" \in vmcs_config.secondary
    /\ "ENCLS_EXITING" \in vmcs_config.secondary => "SGX" \in processor.has
    /\ (flags.masks.dirty # {}) <=> ("EPT_AD" \in processor.has)
    /\ flags.enable_pml => flags.masks.dirty # {} /\ "ENABLE_PML" \in processor.has

\* The controls of a vCPU pass the processor's checks at VM entry exactly on a
\* processor for which vmcs_config has neither APIC-register virtualisation nor
\* virtual-interrupt delivery (init_vmcs keeps both after clearing the TPR
\* shadow) and which supports what init_vmcs forces on or off.
VmcsAccepted ==
  vmcs # NONE =>
    (VmEntryAccepts(vmcs.controls, vmcs.vpid, processor.has)
      <=> /\ {"APIC_REGISTER_VIRT", "VIRTUAL_INTR_DELIVERY"} \cap vmcs_config.secondary = {}
          /\ {"DESC", "USE_IO_BITMAPS", "TRUE_CONTROLS"} \subseteq processor.has)

=============================================================================
