----------------------------- MODULE DriverProofs -----------------------------
(***************************************************************************)
(* Loading and unloading for any processors, any number of them, and any   *)
(* number of loads and failing allocations: what stops the machine, what   *)
(* is leaked, and for every set of processor features the consistency of   *)
(* vmcs_config and the VM entry checks of the controls init_vmcs writes.   *)
(***************************************************************************)
EXTENDS Driver, TLAPS

-----------------------------------------------------------------------------
\* The control words.

\* With the required controls reported as supported, an adjusted word holds
\* supported controls only.
LEMMA AdjustedSupported ==
  ASSUME NEW min, NEW opt, NEW has, DefaultOnes \subseteq has
  PROVE  adjust_vmx_controls(min, opt, has) \subseteq has
BY DEF adjust_vmx_controls

\* No entry control, and no exit control, belongs to two pairs.
LEMMA PairsApart ==
  /\ \A p, q \in vmcs_entry_exit_pairs : p[1] = q[1] => p = q
  /\ \A p, q \in vmcs_entry_exit_pairs : p[2] = q[2] => p = q
BY DEF vmcs_entry_exit_pairs

\* MatchPairs leaves both halves of a pair or neither, and adds nothing.
LEMMA PairsMatched ==
  ASSUME NEW entry, NEW exit
  PROVE  /\ \A p \in vmcs_entry_exit_pairs :
              (p[1] \in MatchPairs(entry, exit).entry) <=> (p[2] \in MatchPairs(entry, exit).exit)
         /\ MatchPairs(entry, exit).entry \subseteq entry
         /\ MatchPairs(entry, exit).exit \subseteq exit
<1> DEFINE odd == {p \in vmcs_entry_exit_pairs : (p[1] \in entry) # (p[2] \in exit)}
<1>1. /\ MatchPairs(entry, exit).entry = entry \ {p[1] : p \in odd}
      /\ MatchPairs(entry, exit).exit = exit \ {p[2] : p \in odd}
  BY DEF MatchPairs
<1>2. ASSUME NEW p \in vmcs_entry_exit_pairs
      PROVE  (p[1] \in MatchPairs(entry, exit).entry) <=> (p[2] \in MatchPairs(entry, exit).exit)
  <2>1. CASE p \in odd
    BY <1>1, <2>1
  <2>2. CASE p \notin odd
    <3>1. p[1] \notin {q[1] : q \in odd} /\ p[2] \notin {q[2] : q \in odd}
      BY <2>2, PairsApart
    <3>2. (p[1] \in entry) <=> (p[2] \in exit)
      BY <2>2
    <3> QED BY <1>1, <3>1, <3>2
  <2> QED BY <2>1, <2>2
<1> QED BY <1>1, <1>2

\* The processor is one setup_vmcs_config and hardware_setup go on with.
Usable(has) ==
  /\ DefaultOnes \subseteq has
  /\ ~ConfigRefused(has)
  /\ enable_ept(setup_vmcs_config(has))

\* Each word of vmcs_config holds supported controls only.
LEMMA ConfigSupported ==
  ASSUME NEW has, Usable(has)
  PROVE  /\ setup_vmcs_config(has).pin \subseteq has
         /\ setup_vmcs_config(has).exec \subseteq has
         /\ setup_vmcs_config(has).secondary \subseteq has
         /\ setup_vmcs_config(has).exit \subseteq has
         /\ setup_vmcs_config(has).entry \subseteq has
<1> USE DEF Usable
<1>1. PinBased(has) \subseteq has
  BY AdjustedSupported DEF PinBased
<1>2. CpuBased(has) \subseteq has
  BY AdjustedSupported DEF CpuBased
<1>3. Secondary(has) \subseteq has
  BY AdjustedSupported DEF Secondary, SecondaryRead
<1>4. EntryExit(has).entry \subseteq has /\ EntryExit(has).exit \subseteq has
  BY AdjustedSupported, PairsMatched DEF EntryExit
<1> QED BY <1>1, <1>2, <1>3, <1>4 DEF setup_vmcs_config

\* The required controls are there.
LEMMA ConfigRequired ==
  ASSUME NEW has, Usable(has)
  PROVE  /\ {"CR3_LOAD_EXITING", "MOV_DR_EXITING", "CR8_LOAD_EXITING", "CR8_STORE_EXITING"}
              \subseteq setup_vmcs_config(has).exec
         /\ "HOST_ADDR_SPACE_SIZE" \in setup_vmcs_config(has).exit
         /\ "IA32E_MODE" \in setup_vmcs_config(has).entry
<1>1. /\ KVM_REQUIRED_VMX_CPU_BASED_VM_EXEC_CONTROL \subseteq CpuBased(has)
      /\ KVM_REQUIRED_VMX_VM_EXIT_CONTROLS \subseteq EntryExit(has).exit
      /\ KVM_REQUIRED_VMX_VM_ENTRY_CONTROLS \subseteq EntryExit(has).entry
  BY DEF Usable, ConfigRefused, Unsupported
<1>2. {"CR3_LOAD_EXITING", "MOV_DR_EXITING", "CR8_LOAD_EXITING", "CR8_STORE_EXITING"}
        \subseteq KVM_REQUIRED_VMX_CPU_BASED_VM_EXEC_CONTROL
  BY DEF KVM_REQUIRED_VMX_CPU_BASED_VM_EXEC_CONTROL
<1>3. "HOST_ADDR_SPACE_SIZE" \in KVM_REQUIRED_VMX_VM_EXIT_CONTROLS
  BY DEF KVM_REQUIRED_VMX_VM_EXIT_CONTROLS
<1>4. "IA32E_MODE" \in KVM_REQUIRED_VMX_VM_ENTRY_CONTROLS
  BY DEF KVM_REQUIRED_VMX_VM_ENTRY_CONTROLS
<1> QED BY <1>1, <1>2, <1>3, <1>4 DEF setup_vmcs_config

\* What setup_vmcs_config and hardware_setup turn on has what it depends on,
\* whatever the processor supports.
LEMMA ConfigConsistent ==
  ASSUME NEW has, Usable(has)
  PROVE  LET config == setup_vmcs_config(has)
             on == HardwareFlags(config)
         IN  /\ \A p \in vmcs_entry_exit_pairs : (p[1] \in config.entry) <=> (p[2] \in config.exit)
             /\ "POSTED_INTR" \in config.pin => "VIRTUAL_INTR_DELIVERY" \in config.secondary
             /\ "VIRTUAL_INTR_DELIVERY" \in config.secondary => "TPR_SHADOW" \in config.exec
             /\ config.vpid # {} => "ENABLE_VPID" \in config.secondary
             /\ "ENABLE_EPT" \in config.secondary
             /\ "ENCLS_EXITING" \in config.secondary => "SGX" \in has
             /\ (on.masks.dirty # {}) <=> ("EPT_AD" \in has)
             /\ on.enable_pml => on.masks.dirty # {} /\ "ENABLE_PML" \in has
<1> DEFINE config == setup_vmcs_config(has)
           on == HardwareFlags(config)
<1>1. \A p \in vmcs_entry_exit_pairs : (p[1] \in config.entry) <=> (p[2] \in config.exit)
  BY PairsMatched DEF setup_vmcs_config, EntryExit
<1>2. "POSTED_INTR" \in config.pin => "VIRTUAL_INTR_DELIVERY" \in config.secondary
  BY DEF setup_vmcs_config, PinBased
<1>3. "VIRTUAL_INTR_DELIVERY" \in config.secondary => "TPR_SHADOW" \in config.exec
  BY DEF setup_vmcs_config, Secondary
<1>4. config.vpid # {} => "ENABLE_VPID" \in config.secondary
  BY DEF setup_vmcs_config, vmx_capability
<1>5. "ENABLE_EPT" \in config.secondary
  BY DEF Usable, enable_ept, cpu_has_vmx_ept
<1>6. "ENCLS_EXITING" \in config.secondary => "SGX" \in has
  BY DEF setup_vmcs_config, Secondary, cpu_has_sgx
<1>7. ("EPT_AD" \in config.ept) <=> ("EPT_AD" \in has)
  <2>1. config.ept = EptCaps \cap has
    BY <1>5 DEF setup_vmcs_config, vmx_capability
  <2> QED BY <2>1 DEF EptCaps
<1>8. (on.masks.dirty # {}) <=> ("EPT_AD" \in config.ept)
  BY DEF HardwareFlags, kvm_mmu_set_ept_masks, cpu_has_vmx_ept_ad_bits
<1>9. on.enable_pml => "EPT_AD" \in config.ept /\ "ENABLE_PML" \in config.secondary
  BY DEF HardwareFlags, cpu_has_vmx_ept_ad_bits, cpu_has_vmx_pml
<1>10. config.secondary \subseteq has
  BY ConfigSupported
<1> QED BY <1>1, <1>2, <1>3, <1>4, <1>5, <1>6, <1>7, <1>8, <1>9, <1>10

\* CR3-store exiting is no bit of the exit and entry words.
LEMMA WordsApart ==
  ASSUME NEW has
  PROVE  "CR3_STORE_EXITING" \notin setup_vmcs_config(has).exit
                                    \cup setup_vmcs_config(has).entry
<1>1. "CR3_STORE_EXITING" \notin adjust_vmx_controls(KVM_REQUIRED_VMX_VM_ENTRY_CONTROLS,
                                                    KVM_OPTIONAL_VMX_VM_ENTRY_CONTROLS, has)
  BY DEF adjust_vmx_controls, KVM_REQUIRED_VMX_VM_ENTRY_CONTROLS, KVM_OPTIONAL_VMX_VM_ENTRY_CONTROLS
<1>2. "CR3_STORE_EXITING" \notin adjust_vmx_controls(KVM_REQUIRED_VMX_VM_EXIT_CONTROLS,
                                                    KVM_OPTIONAL_VMX_VM_EXIT_CONTROLS, has)
  BY DEF adjust_vmx_controls, KVM_REQUIRED_VMX_VM_EXIT_CONTROLS, KVM_OPTIONAL_VMX_VM_EXIT_CONTROLS
<1>3. "CR3_STORE_EXITING" \notin EntryExit(has).exit \cup EntryExit(has).entry
  BY <1>1, <1>2, PairsMatched DEF EntryExit
<1> QED BY <1>3 DEF setup_vmcs_config

\* The secondary word of a vCPU: the controls it lost, the ones it keeps.
LEMMA SecondaryWord ==
  ASSUME NEW config, NEW vpid \in {0, 1}
  PROVE  LET word == vmx_secondary_exec_control(config, vpid)
         IN  /\ word \subseteq config.secondary \cup {"DESC"} /\ "DESC" \in word
             /\ {"UNRESTRICTED_GUEST", "PT_USE_GPA", "VIRTUALIZE_X2APIC_MODE"} \cap word = {}
             /\ "ENABLE_VPID" \in word => vpid # 0
             /\ \A b \in {"ENABLE_EPT", "APIC_REGISTER_VIRT", "VIRTUAL_INTR_DELIVERY"} :
                  b \in word <=> b \in config.secondary
BY DEF vmx_secondary_exec_control, vmx_adjust_secondary_exec_control

\* The primary word of a vCPU.
LEMMA PrimaryWord ==
  ASSUME NEW config
  PROVE  LET word == vmx_exec_control(config)
         IN  /\ word \subseteq config.exec \cup {"CR8_LOAD_EXITING", "CR8_STORE_EXITING",
                                  "CR3_LOAD_EXITING", "MOV_DR_EXITING", "USE_IO_BITMAPS"}
             /\ "USE_IO_BITMAPS" \in word
             /\ {"TPR_SHADOW", "NMI_WINDOW_EXITING", "CR3_STORE_EXITING"} \cap word = {}
BY DEF vmx_exec_control

\* The checks at VM entry accept the controls init_vmcs computes exactly on
\* the processors VmcsAccepted names, whatever else they support.
LEMMA ControlsAccepted ==
  ASSUME NEW has, Usable(has), NEW vpid \in {0, 1}
  PROVE  VmEntryAccepts(init_vmcs(setup_vmcs_config(has), vpid), vpid, has)
           <=> /\ {"APIC_REGISTER_VIRT", "VIRTUAL_INTR_DELIVERY"}
                    \cap setup_vmcs_config(has).secondary = {}
               /\ {"DESC", "USE_IO_BITMAPS", "TRUE_CONTROLS"} \subseteq has
<1> DEFINE config == setup_vmcs_config(has)
           pin == vmx_pin_based_exec_ctrl(config)
           exec == vmx_exec_control(config)
           secondary == vmx_secondary_exec_control(config, vpid)
           exit == vmx_vmexit_ctrl(config)
           entry == vmx_vmentry_ctrl(config)
           c == init_vmcs(config, vpid)
<1>1. c.pin = pin /\ c.exec = exec /\ c.secondary = secondary /\ c.exit = exit /\ c.entry = entry
  BY DEF init_vmcs
<1>2. /\ config.pin \subseteq has /\ config.exec \subseteq has /\ config.secondary \subseteq has
      /\ config.exit \subseteq has /\ config.entry \subseteq has
      /\ "ENABLE_EPT" \in config.secondary
      /\ {"CR3_LOAD_EXITING", "MOV_DR_EXITING", "CR8_LOAD_EXITING", "CR8_STORE_EXITING"}
           \subseteq config.exec
      /\ "HOST_ADDR_SPACE_SIZE" \in config.exit /\ "IA32E_MODE" \in config.entry
      /\ "CR3_STORE_EXITING" \notin config.exit \cup config.entry
  BY ConfigSupported, ConfigRequired, ConfigConsistent, WordsApart
<1> HIDE DEF config
<1>3. /\ pin \subseteq has
      /\ {"VIRTUAL_NMIS", "POSTED_INTR", "EXT_INTR_MASK"} \cap pin = {}
  BY <1>2 DEF vmx_pin_based_exec_ctrl
<1>4. /\ exec \subseteq has <=> "USE_IO_BITMAPS" \in has
      /\ {"TPR_SHADOW", "NMI_WINDOW_EXITING", "CR3_STORE_EXITING"} \cap exec = {}
  BY <1>2, PrimaryWord
<1>5. /\ secondary \subseteq has <=> "DESC" \in has
      /\ {"UNRESTRICTED_GUEST", "PT_USE_GPA", "VIRTUALIZE_X2APIC_MODE"} \cap secondary = {}
      /\ "ENABLE_VPID" \in secondary => vpid # 0
      /\ "ENABLE_EPT" \in secondary
      /\ "APIC_REGISTER_VIRT" \in secondary <=> "APIC_REGISTER_VIRT" \in config.secondary
      /\ "VIRTUAL_INTR_DELIVERY" \in secondary <=> "VIRTUAL_INTR_DELIVERY" \in config.secondary
  BY <1>2, SecondaryWord
<1>6. /\ exit \subseteq has /\ "HOST_ADDR_SPACE_SIZE" \in exit
      /\ {"CR3_STORE_EXITING", "SAVE_VMX_PREEMPTION_TIMER"} \cap exit = {}
  BY <1>2 DEF vmx_vmexit_ctrl
<1>7. entry \subseteq has /\ "CR3_STORE_EXITING" \notin entry
  BY <1>2 DEF vmx_vmentry_ctrl
<1> HIDE DEF pin, exec, secondary, exit, entry, c
<1>8. MustBeOne(has) \subseteq UNION {exec, exit, entry} <=> "TRUE_CONTROLS" \in has
  <2>1. "CR3_STORE_EXITING" \notin UNION {exec, exit, entry}
    BY <1>4, <1>6, <1>7
  <2> QED BY <2>1 DEF MustBeOne, DefaultOnes
<1>9. UNION {pin, exec, secondary, exit, entry} \subseteq has
        <=> {"DESC", "USE_IO_BITMAPS"} \subseteq has
  BY <1>3, <1>4, <1>5, <1>6, <1>7
<1>10. VmEntryAccepts(c, vpid, has)
         <=> /\ {"DESC", "USE_IO_BITMAPS"} \subseteq has
             /\ "TRUE_CONTROLS" \in has
             /\ {"VIRTUALIZE_X2APIC_MODE", "APIC_REGISTER_VIRT", "VIRTUAL_INTR_DELIVERY"}
                  \cap secondary = {}
  BY <1>1, <1>3, <1>4, <1>5, <1>6, <1>8, <1>9 DEF VmEntryAccepts
<1> QED BY <1>5, <1>10 DEF c, config

-----------------------------------------------------------------------------
\* The inductive invariant.

Intel == processor.brand = "GenuineIntel"

\* The failures and processors that may stop the machine.
Excused ==
  \/ processor.brand # "GenuineIntel"
  \/ RdmsrFaults(processor.has)
  \/ ~processor.vmxon
  \/ failed \cap (MmuCaches \cup {"VMXON region"}) # {}

Arrays == {"device", "link", "vmxarea", "current_vmcs"}

\* The device, its link and the two arrays are allocated in this order, one
\* at a control point: what DriverEntry has not come to yet is not live.
NotYet(at) ==
  CASE at \in {"unloaded", "create_device"} -> Arrays
    [] at = "create_link" -> Arrays \ {"device"}
    [] at \in {"alloc_enabled", "brand"} -> {"vmxarea", "current_vmcs"}
    [] at = "alloc_current" -> {"current_vmcs"}
    [] OTHER -> {}

OrderInv == \A b \in NotYet(pc) : mem[b] # "live"

\* Only Intel processors have vmxarea, and then its error paths free it.
VendorInv ==
  /\ pc \in {"alloc_current", "vmx_init"} => Intel
  /\ Intel /\ pc \notin {"unloaded", "create_device", "create_link", "alloc_enabled", "brand",
                         "stopped"}
       => mem["vmxarea"] = "live" /\ pc # "svm_init"

\* VMXON regions live from alloc_kvm_area on, and until the image goes away.
RegionInv ==
  pc \notin {"update_ops", "loaded_lists", "running", "stopped"} => \A c \in Cpu : area[c] # "live"

\* A driver that was loaded without an allocation failure has its operations
\* and its regions.
ReadyInv ==
  /\ pc \in {"loaded_lists", "running"} => kvm_x86_ops = vmx_x86_ops \/ Excused
  /\ pc \in {"update_ops", "loaded_lists", "running"} => (\A c \in Cpu : area[c] = "live") \/ Excused

\* vmcs_config, and what is derived from it, is what hardware_setup computed
\* for this processor; operations are installed after that only.
Configured ==
  /\ Usable(processor.has)
  /\ vmcs_config = setup_vmcs_config(processor.has)
  /\ flags = HardwareFlags(vmcs_config)

ConfigInv ==
  /\ vmcs_config # NONE => Configured
  /\ pc \in {"vpid_bitmap", "areas", "update_ops"} => Configured
  /\ kvm_x86_ops # {} => Configured
  /\ vmcs # NONE => /\ Configured
                    /\ \E vpid \in {0, 1} :
                         vmcs = [controls |-> init_vmcs(vmcs_config, vpid), vpid |-> vpid]

\* Between two sessions of one load a processor may be left marked as enabled
\* outside VMX operation, and the bitmap is gone then.  Without such a mark,
\* VMX operation and CR4.VMXE agree and a VM has every processor in VMX
\* operation; the vCPUs of a VM are there only with all of them.
SessionInv ==
  /\ pc # "stopped" => fault = NONE
  /\ pc \notin {"running", "stopped"} =>
       hardware_enabled = {} /\ g_kvm = NONE /\ kvm_usage_count = 0
  /\ mem["vmx_vpid_bitmap_buf"] \in {"null", "live"}
  /\ g_kvm \in {"created", "vcpus"} => kvm_usage_count # 0
  /\ g_kvm = "vcpus" => vmx_root = Cpu
  /\ \/ Excused
     \/ /\ vmxe = vmx_root
        /\ mem["vmx_vpid_bitmap_buf"] = "null" \/ hardware_enabled \subseteq vmx_root
        /\ kvm_usage_count # 0 => vmx_root = Cpu \/ ~(hardware_enabled \subseteq vmx_root)

IndInv ==
  /\ TypeOK
  /\ StopsExplained /\ LeaksKnown
  /\ OrderInv /\ VendorInv /\ RegionInv /\ ReadyInv
  /\ ConfigInv /\ SessionInv

-----------------------------------------------------------------------------
\* The step forms the actions share.

LEMMA CacheNames ==
  /\ DOMAIN MmuCache = 1 .. 4
  /\ MmuCaches = {"pte_list_desc_cache_mdl", "pte_list_desc_cache",
                  "mmu_page_header_mdl", "mmu_page_header_cache"}
<1>1. DOMAIN MmuCache = 1 .. 4
  BY DEF MmuCache
<1>2. \A i \in 1 .. 4 : i = 1 \/ i = 2 \/ i = 3 \/ i = 4
  OBVIOUS
<1>3. 1 \in 1 .. 4 /\ 2 \in 1 .. 4 /\ 3 \in 1 .. 4 /\ 4 \in 1 .. 4
  OBVIOUS
<1>4. /\ MmuCache[1] = "pte_list_desc_cache_mdl" /\ MmuCache[2] = "pte_list_desc_cache"
      /\ MmuCache[3] = "mmu_page_header_mdl" /\ MmuCache[4] = "mmu_page_header_cache"
  BY DEF MmuCache
<1> QED BY <1>1, <1>2, <1>3, <1>4 DEF MmuCaches

\* A failed allocation is remembered.
Remembers == failed \subseteq failed' /\ failed' \subseteq Block \cup {"VMXON region"}

LEMMA FailureRemembered ==
  ASSUME failed \subseteq Block \cup {"VMXON region"}, NEW b \in Block \cup {"VMXON region"}, Fails(b)
  PROVE  Remembers /\ b \in failed'
BY DEF Fails, Remembers

LEMMA NothingFailed ==
  ASSUME failed \subseteq Block \cup {"VMXON region"}, UNCHANGED failed
  PROVE  Remembers
BY DEF Remembers

\* What was excused stays excused.
LEMMA StaysExcused ==
  ASSUME Excused, Remembers, UNCHANGED processor
  PROVE  Excused'
BY DEF Excused, Remembers

VpidBuf == mem["vmx_vpid_bitmap_buf"]

\* A step that leaves the VM and the processors alone: while loading the
\* bitmap may be allocated, later it stays as it is.
LEMMA SessionKept ==
  ASSUME SessionInv, Remembers, UNCHANGED <<processor, session>>,
         VpidBuf' \in {"null", "live"},
         \/ pc \notin {"running", "stopped"} /\ UNCHANGED fault
         \/ pc' = "stopped" /\ UNCHANGED VpidBuf
  PROVE  SessionInv'
BY StaysExcused DEF SessionInv, session, VpidBuf

LEMMA StutterInv ==
  ASSUME IndInv, UNCHANGED vars
  PROVE  IndInv'
<1> USE DEF IndInv, vars, session
<1>1. TypeOK' /\ StopsExplained' /\ LeaksKnown'
  BY DEF TypeOK, StopsExplained, LeaksKnown
<1>2. OrderInv' /\ VendorInv' /\ RegionInv' /\ ReadyInv'
  BY DEF OrderInv, VendorInv, Intel, RegionInv, ReadyInv, Excused
<1>3. ConfigInv' /\ SessionInv'
  BY DEF ConfigInv, Configured, SessionInv, Excused
<1> QED BY <1>1, <1>2, <1>3

\* The image may go away when the device, its link and the arrays are not
\* live, nor, but for missing list heads, the VMXON regions.
LEMMA GonePreserves ==
  ASSUME IndInv, Remembers, NEW m, NEW a, Gone(m, a), pc # "stopped",
         \A b \in Arrays : m[b] # "live",
         (\A c \in Cpu : a[c] # "live") \/ "loaded_vmcss_on_cpu" \in failed'
  PROVE  IndInv'
<1> USE DEF IndInv
<1>1. TypeOK'
  <2>1. 0 \in 0 .. MaxVms
    BY BoundAssumption DEF BoundAssumption
  <2>2. mem' \in [Block -> BlockState] /\ area' \in [Cpu -> BlockState]
    BY DEF Gone, NoMemory, NoRegions, BlockState
  <2>3. leaked' \subseteq Block \cup {"VMXON region"}
    BY DEF TypeOK, Gone, Live
  <2> QED BY <2>1, <2>2, <2>3 DEF TypeOK, Gone, Remembers
<1>2. StopsExplained'
  BY DEF StopsExplained, SessionInv, Gone
<1>3. LeaksKnown'
  <2>1. leaked' \cap Arrays = {}
    <3>1. Live(m, a) \cap Arrays = {}
      BY DEF Live, Arrays
    <3> QED BY <3>1 DEF LeaksKnown, Gone, Arrays
  <2>2. "VMXON region" \in Live(m, a) => \E c \in Cpu : a[c] = "live"
    BY CacheNames DEF Live, Block
  <2> QED BY <2>1, <2>2 DEF LeaksKnown, Gone, Remembers, Arrays
<1>4. OrderInv' /\ VendorInv' /\ RegionInv' /\ ReadyInv'
  BY DEF Gone, OrderInv, NotYet, Arrays, NoMemory, NoRegions, Block, VendorInv, RegionInv, ReadyInv
<1>5. ConfigInv'
  BY DEF Gone, ConfigInv
<1>6. SessionInv'
  <2>1. mem'["vmx_vpid_bitmap_buf"] = "null"
    BY DEF Gone, NoMemory, Block
  <2>2. Excused' \/ vmxe = vmx_root
    BY StaysExcused DEF SessionInv, Gone
  <2> QED BY <2>1, <2>2, NoneAssumption DEF Gone, SessionInv, NoneAssumption
<1> QED BY <1>1, <1>2, <1>3, <1>4, <1>5, <1>6

\* The stops a good machine is exposed to.
Explained(why) ==
  \/ why \in OutOfOrder
  \/ /\ VpidBuf = "null"
     /\ \/ why = "freed VPID bitmap"
        \/ why = "#UD outside VMX operation" /\ ~(hardware_enabled \subseteq vmx_root)

\* The machine may stop where that is excused or explained.
LEMMA StopPreserves ==
  ASSUME IndInv, Remembers, NEW why, Stop(why), Excused' \/ Explained(why)
  PROVE  IndInv'
<1> USE DEF IndInv, Stop, session
<1>1. TypeOK'
  BY DEF TypeOK, Remembers
<1>2. StopsExplained'
  BY DEF StopsExplained, Excused, Explained, VpidBuf
<1>3. LeaksKnown'
  BY DEF LeaksKnown, Remembers
<1>4. OrderInv' /\ VendorInv' /\ RegionInv' /\ ReadyInv'
  BY DEF OrderInv, NotYet, VendorInv, RegionInv, ReadyInv, Intel
<1>5. ConfigInv'
  BY DEF ConfigInv, Configured
<1>6. SessionInv'
  BY SessionKept DEF SessionInv, VpidBuf
<1> QED BY <1>1, <1>2, <1>3, <1>4, <1>5, <1>6

\* The error path of DriverEntry, on a processor that has vmxarea or is excused.
LEMMA LoadFailedPreserves ==
  ASSUME IndInv, Remembers, LoadFailed, pc # "stopped",
         mem["vmxarea"] = "live" \/ ~Intel,
         (\A c \in Cpu : area[c] # "live") \/ "loaded_vmcss_on_cpu" \in failed'
  PROVE  IndInv'
<1>1. CASE mem["vmxarea"] = "null"
  <2>1. Stop("ExFreePool(NULL)")
    BY <1>1 DEF LoadFailed
  <2>2. Excused'
    BY <1>1, <2>1 DEF Excused, Intel, Stop
  <2> QED BY <2>1, <2>2, StopPreserves
<1>2. CASE mem["vmxarea"] # "null"
  <2> DEFINE m == Freed(mem, {"vmxarea", "current_vmcs", "device", "link"})
  <2>1. Gone(m, area)
    BY <1>2 DEF LoadFailed
  <2>2. \A b \in Arrays : m[b] # "live"
    BY DEF Freed, Arrays, Block
  <2> QED BY <2>1, <2>2, GonePreserves
<1> QED BY <1>1, <1>2

-----------------------------------------------------------------------------
\* The actions.

\* A block is allocated: what the control points of the next one ask for.
LEMMA AllocatedPreserves ==
  ASSUME IndInv, NEW b \in Block, NEW next \in Loading, Allocated(b, next),
         \/ pc = "create_device" /\ next = "create_link" /\ b = "device"
         \/ pc = "create_link" /\ next = "alloc_enabled" /\ b = "link"
         \/ pc = "alloc_enabled" /\ next = "brand" /\ b = "hardware_enabled"
         \/ pc = "brand" /\ next = "alloc_current" /\ b = "vmxarea" /\ Intel
         \/ pc = "alloc_current" /\ next = "vmx_init" /\ b = "current_vmcs"
         \/ pc = "vpid_bitmap" /\ next = "areas" /\ b = "vmx_vpid_bitmap_buf"
  PROVE  IndInv'
<1> USE DEF IndInv, Allocated, Globals, session
<1>1. TypeOK'
  BY DEF TypeOK, BlockState
<1>2. StopsExplained' /\ LeaksKnown'
  BY DEF StopsExplained, SessionInv, LeaksKnown
<1>3. OrderInv'
  <2>1. \A d \in NotYet(next) : d \in NotYet(pc) /\ d # b
    BY DEF NotYet, Arrays
  <2>2. \A d \in Block : d # b => mem'[d] = mem[d]
    BY DEF TypeOK
  <2>3. NotYet(next) \subseteq Block
    BY DEF NotYet, Arrays, Block
  <2> QED BY <2>1, <2>2, <2>3 DEF OrderInv
<1>4. VendorInv'
  BY CacheNames DEF VendorInv, Intel, TypeOK, Block
<1>5. RegionInv'
  BY DEF RegionInv
<1>6. ReadyInv'
  BY DEF ReadyInv
<1>7. ConfigInv'
  BY DEF ConfigInv, Configured
<1>8. SessionInv'
  <2>1. VpidBuf' \in {"null", "live"}
    BY DEF SessionInv, VpidBuf, TypeOK, Block
  <2> QED BY <2>1, NothingFailed, SessionKept DEF TypeOK
<1> QED BY <1>1, <1>2, <1>3, <1>4, <1>5, <1>6, <1>7, <1>8

LEMMA ContinuePreserves ==
  ASSUME IndInv, NEW next, Continue(next),
         \/ pc = "brand" /\ next = "svm_init" /\ ~Intel
         \/ pc \in {"vmx_init", "svm_init"} /\ next = "mmu"
  PROVE  IndInv'
<1> USE DEF IndInv, Continue, Globals, session
<1>1. TypeOK'
  BY DEF TypeOK, Loading
<1>2. StopsExplained' /\ LeaksKnown'
  BY DEF StopsExplained, LeaksKnown
<1>3. OrderInv' /\ VendorInv' /\ RegionInv' /\ ReadyInv'
  BY DEF OrderInv, NotYet, VendorInv, Intel, RegionInv, ReadyInv
<1>4. ConfigInv'
  BY DEF ConfigInv, Configured
<1>5. SessionInv'
  BY NothingFailed, SessionKept DEF TypeOK, SessionInv, VpidBuf
<1> QED BY <1>1, <1>2, <1>3, <1>4, <1>5

\* Before alloc_kvm_area no VMXON region is live.
LEMMA EarlyRegions ==
  ASSUME IndInv, pc \notin {"update_ops", "loaded_lists", "running", "stopped"}
  PROVE  \A c \in Cpu : area[c] # "live"
BY DEF IndInv, RegionInv

\* DriverEntry up to the vendor set-up.
LEMMA EntryPreserves ==
  ASSUME IndInv,
         \/ DriverEntry \/ CreateDevice \/ AllocHardwareEnabled \/ SelectVendor
         \/ AllocCurrentVmcs \/ vmx_init \/ svm_init
  PROVE  IndInv'
<1> USE DEF IndInv
<1>0. /\ failed \subseteq Block \cup {"VMXON region"}
      /\ {"device", "link", "hardware_enabled", "vmxarea", "current_vmcs",
          "vmx_vpid_bitmap_buf", "loaded_vmcss_on_cpu"} \subseteq Block
      /\ {"create_link", "alloc_enabled", "brand", "alloc_current", "vmx_init"} \subseteq Loading
  BY DEF TypeOK, Block, Loading
<1>1. CASE DriverEntry
  <2>1. TypeOK'
    <3>1. loads' \in 0 .. MaxLoads
      <4>1. loads \in 0 .. MaxLoads
        BY DEF TypeOK
      <4>2. loads < MaxLoads /\ loads' = loads + 1
        BY <1>1 DEF DriverEntry
      <4> QED BY <4>1, <4>2, BoundAssumption DEF BoundAssumption
    <3> QED BY <1>1, <3>1 DEF DriverEntry, TypeOK, Loading, session
  <2>2. StopsExplained' /\ LeaksKnown'
    BY <1>1 DEF DriverEntry, StopsExplained, SessionInv, LeaksKnown
  <2>3. OrderInv' /\ VendorInv' /\ RegionInv' /\ ReadyInv'
    BY <1>1 DEF DriverEntry, OrderInv, NotYet, VendorInv, RegionInv, ReadyInv
  <2>4. ConfigInv'
    BY <1>1 DEF DriverEntry, ConfigInv, Configured, session
  <2>5. SessionInv'
    BY <1>0, <1>1, NothingFailed, SessionKept DEF DriverEntry, SessionInv, VpidBuf
  <2> QED BY <2>1, <2>2, <2>3, <2>4, <2>5
<1>2. CASE CreateDevice
  <2>1. CASE pc = "create_device" /\ Allocated("device", "create_link")
    BY <1>0, <2>1, AllocatedPreserves
  <2>2. CASE pc = "create_device" /\ Fails("device") /\ Gone(mem, area)
    <3>1. \A b \in Arrays : mem[b] # "live"
      BY <2>2 DEF OrderInv, NotYet
    <3> QED BY <1>0, <2>2, <3>1, GonePreserves, FailureRemembered, EarlyRegions
  <2>3. CASE pc = "create_link" /\ Allocated("link", "alloc_enabled")
    BY <1>0, <2>3, AllocatedPreserves
  <2>4. CASE pc = "create_link" /\ Fails("link") /\ Gone(Freed(mem, {"device"}), area)
    <3>1. \A b \in Arrays : Freed(mem, {"device"})[b] # "live"
      BY <1>0, <2>4 DEF OrderInv, NotYet, Freed, Arrays
    <3> QED BY <1>0, <2>4, <3>1, GonePreserves, FailureRemembered, EarlyRegions
  <2> QED BY <1>2, <2>1, <2>2, <2>3, <2>4 DEF CreateDevice
<1>3. CASE AllocHardwareEnabled
  <2>1. CASE Allocated("hardware_enabled", "brand")
    BY <1>0, <1>3, <2>1, AllocatedPreserves DEF AllocHardwareEnabled
  <2>2. CASE Fails("hardware_enabled") /\ Gone(Freed(mem, {"device", "link"}), area)
    <3>1. pc = "alloc_enabled"
      BY <1>3 DEF AllocHardwareEnabled
    <3>2. \A b \in Arrays : Freed(mem, {"device", "link"})[b] # "live"
      BY <1>0, <3>1 DEF OrderInv, NotYet, Freed, Arrays
    <3> QED BY <1>0, <2>2, <3>1, <3>2, GonePreserves, FailureRemembered, EarlyRegions
  <2> QED BY <1>3, <2>1, <2>2 DEF AllocHardwareEnabled
<1>4. CASE SelectVendor
  <2>0. pc = "brand"
    BY <1>4 DEF SelectVendor
  <2>1. CASE processor.brand = "GenuineIntel" /\ Allocated("vmxarea", "alloc_current")
    BY <1>0, <2>0, <2>1, AllocatedPreserves DEF Intel
  <2>2. CASE Fails("vmxarea") /\ Gone(Freed(mem, {"device", "link"}), area)
    <3>1. \A b \in Arrays : Freed(mem, {"device", "link"})[b] # "live"
      BY <1>0, <2>0 DEF OrderInv, NotYet, Freed, Arrays
    <3> QED BY <1>0, <2>0, <2>2, <3>1, GonePreserves, FailureRemembered, EarlyRegions
  <2>3. CASE processor.brand = "AuthenticAMD" /\ Continue("svm_init")
    BY <2>0, <2>3, ContinuePreserves DEF Intel
  <2>4. CASE processor.brand = "other" /\ LoadFailed /\ UNCHANGED failed
    BY <1>0, <2>0, <2>4, LoadFailedPreserves, NothingFailed, EarlyRegions DEF Intel
  <2> QED BY <1>4, <2>1, <2>2, <2>3, <2>4 DEF SelectVendor, Continue
<1>5. CASE AllocCurrentVmcs
  <2>0. pc = "alloc_current"
    BY <1>5 DEF AllocCurrentVmcs
  <2>1. CASE Allocated("current_vmcs", "vmx_init")
    BY <1>0, <2>0, <2>1, AllocatedPreserves
  <2>2. CASE Fails("current_vmcs") /\ Gone(Freed(mem, {"vmxarea", "device", "link"}), area)
    <3>1. \A b \in Arrays : Freed(mem, {"vmxarea", "device", "link"})[b] # "live"
      BY <1>0, <2>0 DEF OrderInv, NotYet, Freed, Arrays
    <3> QED BY <1>0, <2>0, <2>2, <3>1, GonePreserves, FailureRemembered, EarlyRegions
  <2> QED BY <1>5, <2>1, <2>2 DEF AllocCurrentVmcs
<1>6. CASE vmx_init
  <2>1. CASE Continue("mmu")
    BY <1>6, <2>1, ContinuePreserves DEF vmx_init
  <2>2. CASE LoadFailed /\ UNCHANGED failed
    <3>1. pc = "vmx_init" /\ (mem["vmxarea"] = "live" \/ ~Intel)
      BY <1>6 DEF vmx_init, VendorInv
    <3> QED BY <1>0, <2>2, <3>1, LoadFailedPreserves, NothingFailed, EarlyRegions
  <2> QED BY <1>6, <2>1, <2>2 DEF vmx_init
<1>7. CASE svm_init
  <2>1. CASE Continue("mmu")
    BY <1>7, <2>1, ContinuePreserves DEF svm_init
  <2>2. CASE LoadFailed /\ UNCHANGED failed
    <3>1. pc = "svm_init" /\ (mem["vmxarea"] = "live" \/ ~Intel)
      BY <1>7 DEF svm_init, VendorInv
    <3> QED BY <1>0, <2>2, <3>1, LoadFailedPreserves, NothingFailed, EarlyRegions
  <2> QED BY <1>7, <2>1, <2>2 DEF svm_init
<1> QED BY <1>1, <1>2, <1>3, <1>4, <1>5, <1>6, <1>7

\* The VMX module is initialised.
LEMMA LoadedPreserves ==
  ASSUME IndInv, Remembers, NEW m \in [Block -> BlockState], NEW as \in {"vmx", "svm"},
         Loaded(m, as), UNCHANGED kvm_x86_ops,
         Intel => pc = "loaded_lists" /\ m["vmxarea"] = "live",
         pc \notin {"running", "stopped"}, m["vmx_vpid_bitmap_buf"] = VpidBuf
  PROVE  IndInv'
<1> USE DEF IndInv, Loaded, session
<1>1. TypeOK'
  BY DEF TypeOK, Remembers
<1>2. StopsExplained' /\ LeaksKnown'
  BY StaysExcused DEF StopsExplained, SessionInv, LeaksKnown, Remembers
<1>3. OrderInv' /\ RegionInv'
  BY DEF OrderInv, NotYet, RegionInv
<1>4. VendorInv'
  BY DEF VendorInv, Intel
<1>5. ReadyInv'
  <2>1. CASE Intel
    BY <2>1, StaysExcused DEF ReadyInv
  <2>2. CASE ~Intel
    BY <2>2 DEF ReadyInv, Excused, Intel
  <2> QED BY <2>1, <2>2
<1>6. ConfigInv'
  BY DEF ConfigInv, Configured
<1>7. SessionInv'
  BY SessionKept DEF SessionInv, VpidBuf
<1> QED BY <1>1, <1>2, <1>3, <1>4, <1>5, <1>6, <1>7

\* __kvm_x86_vendor_init: the MMU caches.
LEMMA MmuPreserves ==
  ASSUME IndInv, kvm_mmu_vendor_module_init
  PROVE  IndInv'
<1> USE DEF IndInv
<1>0. /\ pc = "mmu" /\ (Intel => mem["vmxarea"] = "live")
      /\ failed \subseteq Block \cup {"VMXON region"}
      /\ MmuCaches \subseteq Block /\ "vmxarea" \in Block /\ "vmxarea" \notin MmuCaches
      /\ "vmx_vpid_bitmap_buf" \in Block /\ "vmx_vpid_bitmap_buf" \notin MmuCaches
      /\ \A i \in DOMAIN MmuCache : MmuCache[i] \in MmuCaches
  BY CacheNames DEF kvm_mmu_vendor_module_init, VendorInv, TypeOK, Block, MmuCaches
<1>1. CASE /\ mem' = [b \in Block |-> IF b \in MmuCaches THEN "live" ELSE mem[b]]
           /\ pc' = "setup"
           /\ UNCHANGED <<Globals, failed, kvm_x86_ops, vmcs_config, flags>>
  <2> USE <1>1 DEF Globals, session
  <2>1. TypeOK'
    BY DEF TypeOK, Loading, BlockState
  <2>2. StopsExplained' /\ LeaksKnown'
    BY <1>0 DEF StopsExplained, SessionInv, LeaksKnown
  <2>3. OrderInv' /\ RegionInv' /\ ReadyInv'
    BY <1>0 DEF OrderInv, NotYet, RegionInv, ReadyInv
  <2>4. VendorInv'
    BY <1>0 DEF VendorInv, Intel
  <2>5. ConfigInv'
    BY <1>0 DEF ConfigInv, Configured
  <2>6. VpidBuf' = VpidBuf
    BY <1>0 DEF VpidBuf
  <2>7. SessionInv'
    BY <1>0, <2>6, NothingFailed, SessionKept DEF SessionInv, VpidBuf
  <2> QED BY <2>1, <2>2, <2>3, <2>4, <2>5, <2>7
<1>2. ASSUME NEW i \in DOMAIN MmuCache,
             Fails(MmuCache[i]),
             NEW left, left = Freed(mem, {MmuCache[j] : j \in 1 .. i - 1}),
             IF processor.brand = "GenuineIntel"
             THEN /\ pc' = "loaded_lists" /\ mem' = left
                  /\ UNCHANGED <<Globals, kvm_x86_ops, vmcs_config, flags>>
             ELSE Loaded(left, "svm") /\ UNCHANGED kvm_x86_ops
      PROVE  IndInv'
  <2>1. {MmuCache[j] : j \in 1 .. i - 1} \subseteq MmuCaches
    <3>1. i \in 1 .. 4
      BY CacheNames
    <3>2. \A j \in 1 .. i - 1 : j \in 1 .. 4
      BY <3>1
    <3> QED BY <1>0, <3>2, CacheNames
  <2>2. /\ left \in [Block -> BlockState] /\ left["vmxarea"] = mem["vmxarea"]
        /\ left["vmx_vpid_bitmap_buf"] = mem["vmx_vpid_bitmap_buf"]
    BY <1>0, <1>2, <2>1 DEF Freed, TypeOK, BlockState
  <2>3. Remembers /\ MmuCache[i] \in failed'
    BY <1>0, <1>2, FailureRemembered
  <2>4. CASE Intel
    <3> USE <1>2, <2>4 DEF Intel, Globals, session
    <3>0. Excused'
      BY <1>0, <2>3 DEF Excused
    <3>1. TypeOK'
      BY <2>2, <2>3 DEF TypeOK, Loading, Remembers
    <3>2. StopsExplained' /\ LeaksKnown'
      BY <1>0, <2>3 DEF StopsExplained, SessionInv, LeaksKnown, Remembers
    <3>3. OrderInv' /\ RegionInv' /\ ReadyInv'
      BY <3>0 DEF OrderInv, NotYet, RegionInv, ReadyInv
    <3>4. VendorInv'
      BY <1>0, <2>2 DEF VendorInv
    <3>5. ConfigInv'
      BY DEF ConfigInv, Configured
    <3>6. SessionInv'
      BY <1>0, <2>2, <2>3, SessionKept DEF SessionInv, VpidBuf
    <3> QED BY <3>1, <3>2, <3>3, <3>4, <3>5, <3>6
  <2>5. CASE ~Intel
    BY <1>0, <1>2, <2>2, <2>3, <2>5, LoadedPreserves DEF Intel, VpidBuf
  <2> QED BY <2>4, <2>5
<1> QED BY <1>1, <1>2 DEF kvm_mmu_vendor_module_init

\* hardware_setup, svm_hardware_setup and the VPID bitmap.
LEMMA SetupPreserves ==
  ASSUME IndInv, svm_hardware_setup \/ hardware_setup \/ AllocVpidBitmap
  PROVE  IndInv'
<1> USE DEF IndInv
<1>0. /\ failed \subseteq Block \cup {"VMXON region"}
      /\ "vmx_vpid_bitmap_buf" \in Block /\ "areas" \in Loading
  BY DEF TypeOK, Block, Loading
<1>1. CASE svm_hardware_setup
  <2>1. Remembers /\ Stop("svm_data is NULL")
    BY <1>0, <1>1, NothingFailed DEF svm_hardware_setup
  <2>2. Excused'
    BY <1>1 DEF svm_hardware_setup, Stop, Excused
  <2> QED BY <2>1, <2>2, StopPreserves
<1>2. CASE hardware_setup
  <2>0. pc = "setup" /\ Intel /\ Remembers /\ mem["vmxarea"] = "live"
    BY <1>0, <1>2, NothingFailed DEF hardware_setup, Intel, VendorInv
  <2>1. CASE RdmsrFaults(processor.has)
    <3>1. Stop("#GP on rdmsr")
      BY <1>2, <2>1 DEF hardware_setup
    <3>2. Excused'
      BY <2>1, <3>1 DEF Stop, Excused
    <3> QED BY <2>0, <3>1, <3>2, StopPreserves
  <2>2. CASE ~RdmsrFaults(processor.has)
    <3> DEFINE config == setup_vmcs_config(processor.has)
    <3>1. CASE ConfigRefused(processor.has) \/ ~enable_ept(config)
      <4>1. LoadFailed
        BY <1>2, <2>2, <3>1 DEF hardware_setup
      <4> QED BY <2>0, <4>1, LoadFailedPreserves, EarlyRegions
    <3>2. CASE ~(ConfigRefused(processor.has) \/ ~enable_ept(config))
      <4>1. /\ vmcs_config' = config /\ flags' = HardwareFlags(config)
            /\ pc' = "vpid_bitmap"
            /\ UNCHANGED <<Globals, mem, kvm_x86_ops, failed>>
        BY <1>2, <2>2, <3>2 DEF hardware_setup
      <4>2. DefaultOnes \subseteq processor.has
        BY <2>0, AllowedAssumption DEF Intel, TypeOK
      <4>3. Usable(processor.has)
        BY <3>2, <4>2 DEF Usable
      <4> HIDE DEF config
      <4> USE <4>1 DEF Globals, session
      <4>4. TypeOK'
        BY DEF TypeOK, Loading
      <4>5. StopsExplained' /\ LeaksKnown'
        BY DEF StopsExplained, LeaksKnown
      <4>6. OrderInv' /\ VendorInv' /\ RegionInv' /\ ReadyInv'
        BY <2>0 DEF OrderInv, NotYet, VendorInv, Intel, RegionInv, ReadyInv
      <4>7. Configured'
        BY <4>3 DEF Configured, config
      <4>8. ConfigInv'
        <5>1. vmcs' # NONE => /\ Configured
                              /\ \E vpid \in {0, 1} :
                                   vmcs = [controls |-> init_vmcs(vmcs_config, vpid), vpid |-> vpid]
          BY DEF ConfigInv
        <5>2. Configured => vmcs_config' = vmcs_config
          BY DEF Configured, config
        <5> QED BY <4>7, <5>1, <5>2 DEF ConfigInv
      <4>9. SessionInv'
        BY <2>0, SessionKept DEF SessionInv, VpidBuf
      <4> QED BY <4>4, <4>5, <4>6, <4>8, <4>9
    <3> QED BY <3>1, <3>2
  <2> QED BY <2>1, <2>2
<1>3. CASE AllocVpidBitmap
  <2>0. pc = "vpid_bitmap" /\ (mem["vmxarea"] = "live" \/ ~Intel)
    BY <1>3 DEF AllocVpidBitmap, VendorInv
  <2>1. CASE Allocated("vmx_vpid_bitmap_buf", "areas")
    BY <1>0, <2>0, <2>1, AllocatedPreserves
  <2>2. CASE Fails("vmx_vpid_bitmap_buf") /\ LoadFailed
    BY <1>0, <2>0, <2>2, FailureRemembered, LoadFailedPreserves, EarlyRegions
  <2> QED BY <1>3, <2>1, <2>2 DEF AllocVpidBitmap
<1> QED BY <1>1, <1>2, <1>3

\* The VMXON regions and the operations.
LEMMA RegionsPreserve ==
  ASSUME IndInv, alloc_kvm_area \/ kvm_ops_update
  PROVE  IndInv'
<1> USE DEF IndInv
<1>0. failed \subseteq Block \cup {"VMXON region"}
  BY DEF TypeOK
<1>1. ASSUME pc = "areas", pc' = "update_ops", area' \in [Cpu -> BlockState], UNCHANGED Others,
             Remembers, (\A c \in Cpu : area'[c] = "live") \/ Excused'
      PROVE  IndInv'
  <2> USE <1>1 DEF Others, session
  <2>1. TypeOK'
    BY DEF TypeOK, Loading, Remembers
  <2>2. StopsExplained' /\ LeaksKnown'
    BY StaysExcused DEF StopsExplained, SessionInv, LeaksKnown, Remembers
  <2>3. OrderInv' /\ VendorInv' /\ RegionInv' /\ ReadyInv'
    BY DEF OrderInv, NotYet, VendorInv, Intel, RegionInv, ReadyInv
  <2>4. ConfigInv'
    BY DEF ConfigInv, Configured
  <2>5. SessionInv'
    BY SessionKept DEF SessionInv, VpidBuf
  <2> QED BY <2>1, <2>2, <2>3, <2>4, <2>5
<1>2. CASE alloc_kvm_area
  <2>0. pc = "areas"
    BY <1>2 DEF alloc_kvm_area
  <2>1. CASE area' = [c \in Cpu |-> "live"] /\ pc' = "update_ops" /\ UNCHANGED <<Others, failed>>
    <3>1. area' \in [Cpu -> BlockState] /\ \A c \in Cpu : area'[c] = "live"
      BY <2>1 DEF BlockState
    <3> QED BY <1>0, <1>1, <2>0, <2>1, <3>1, NothingFailed
  <2>2. ASSUME NEW c \in Cpu, NEW left, left = [d \in Cpu |-> IF d < c THEN "freed" ELSE "null"],
               Fails("VMXON region"),
               free_kvm_area(area, area' = left /\ pc' = "update_ops" /\ UNCHANGED Others)
        PROVE  IndInv'
    <3>1. Remembers /\ "VMXON region" \in failed'
      BY <1>0, <2>2, FailureRemembered
    <3>2. Excused'
      BY <3>1 DEF Excused
    <3>3. CASE area' = left /\ pc' = "update_ops" /\ UNCHANGED Others
      <4>1. area' \in [Cpu -> BlockState]
        BY <2>2, <3>3 DEF BlockState
      <4> QED BY <1>1, <2>0, <3>1, <3>2, <3>3, <4>1
    <3>4. CASE Stop("double free") \/ Stop("free of NULL")
      BY <3>1, <3>2, <3>4, StopPreserves
    <3> QED BY <2>2, <3>3, <3>4 DEF free_kvm_area
  <2> QED BY <1>2, <2>1, <2>2 DEF alloc_kvm_area
<1>3. CASE kvm_ops_update
  <2> USE <1>3 DEF kvm_ops_update, Globals, session
  <2>1. TypeOK'
    BY DEF TypeOK, Loading
  <2>2. StopsExplained' /\ LeaksKnown'
    BY DEF StopsExplained, LeaksKnown
  <2>3. OrderInv' /\ VendorInv' /\ RegionInv'
    BY DEF OrderInv, NotYet, VendorInv, Intel, RegionInv
  <2>4. ReadyInv'
    BY <1>0, NothingFailed, StaysExcused DEF ReadyInv
  <2>5. ConfigInv'
    BY DEF ConfigInv, Configured
  <2>6. SessionInv'
    BY <1>0, NothingFailed, SessionKept DEF SessionInv, VpidBuf
  <2> QED BY <2>1, <2>2, <2>3, <2>4, <2>5, <2>6
<1> QED BY <1>2, <1>3

\* The list heads and the end of loading.
LEMMA ListsPreserve ==
  ASSUME IndInv, AllocLoadedLists
  PROVE  IndInv'
<1> USE DEF IndInv
<1>0. /\ failed \subseteq Block \cup {"VMXON region"} /\ "loaded_vmcss_on_cpu" \in Block
      /\ pc = "loaded_lists" /\ (Intel => mem["vmxarea"] = "live")
  BY DEF TypeOK, Block, AllocLoadedLists, VendorInv
<1>1. CASE /\ Loaded([mem EXCEPT !["loaded_vmcss_on_cpu"] = "live"], "vmx")
           /\ UNCHANGED <<failed, kvm_x86_ops>>
  <2> DEFINE m == [mem EXCEPT !["loaded_vmcss_on_cpu"] = "live"]
  <2>1. m \in [Block -> BlockState]
    BY DEF TypeOK, BlockState
  <2>2. m["vmxarea"] = mem["vmxarea"] /\ m["vmx_vpid_bitmap_buf"] = VpidBuf
    BY DEF TypeOK, Block, VpidBuf
  <2> HIDE DEF m
  <2>3. Loaded(m, "vmx")
    BY <1>1 DEF m
  <2> QED BY <1>0, <1>1, <2>1, <2>2, <2>3, NothingFailed, LoadedPreserves
<1>2. CASE Fails("loaded_vmcss_on_cpu") /\ LoadFailed
  BY <1>0, <1>2, FailureRemembered, LoadFailedPreserves
<1> QED BY <1>1, <1>2 DEF AllocLoadedLists

\* A request, or unloading, that finds its operations missing is excused.
LEMMA MissingExcused ==
  ASSUME IndInv, pc = "running", NEW ops \in SUBSET vmx_x86_ops, ~Installed(ops),
         NEW why, Stop(why), UNCHANGED failed
  PROVE  IndInv'
<1>1. Remembers
  BY NothingFailed DEF IndInv, TypeOK
<1>2. Excused
  BY DEF IndInv, ReadyInv, Installed
<1>3. Excused'
  BY <1>1, <1>2, StaysExcused DEF Stop
<1> QED BY <1>1, <1>3, StopPreserves

\* A request that goes through leaves what loading set up, but for the bitmap.
LEMMA RequestKeeps ==
  ASSUME IndInv, pc = "running", TypeOK', SessionInv', ConfigInv', mem'["vmxarea"] = mem["vmxarea"],
         UNCHANGED <<processor, area, leaked, failed, kvm_x86_ops, fault, pc>>
  PROVE  IndInv'
<1> USE DEF IndInv
<1>1. StopsExplained'
  BY DEF StopsExplained, SessionInv
<1>2. LeaksKnown'
  BY DEF LeaksKnown
<1>3. OrderInv' /\ VendorInv' /\ RegionInv' /\ ReadyInv'
  BY NothingFailed, StaysExcused DEF OrderInv, NotYet, VendorInv, Intel, RegionInv, ReadyInv, TypeOK
<1> QED BY <1>1, <1>2, <1>3

\* KVM_CREATE_VM: unless a mark was left, VMXON takes every processor that was
\* outside into VMX operation.
LEMMA CreateVmPreserves ==
  ASSUME IndInv, KVM_CREATE_VM
  PROVE  IndInv'
<1> USE DEF IndInv
<1>0. pc = "running" /\ failed \subseteq Block \cup {"VMXON region"}
  BY DEF TypeOK, KVM_CREATE_VM
<1>1. CASE ~Installed({"vm_init", "hardware_enable"})
  <2>1. {"vm_init", "hardware_enable"} \in SUBSET vmx_x86_ops
    BY DEF vmx_x86_ops
  <2> QED BY <1>0, <1>1, <2>1, MissingExcused DEF KVM_CREATE_VM
<1>2. CASE /\ Installed({"vm_init", "hardware_enable"})
           /\ EnableHardware # {} /\ ~processor.vmxon
  <2>1. Stop("#GP on VMXON") /\ UNCHANGED failed
    BY <1>2 DEF KVM_CREATE_VM
  <2>2. Excused'
    BY <1>2, <2>1 DEF Excused, Stop
  <2> QED BY <1>0, <2>1, <2>2, NothingFailed, StopPreserves
<1>3. CASE /\ Installed({"vm_init", "hardware_enable"})
           /\ ~(EnableHardware # {} /\ ~processor.vmxon)
  <2> DEFINE on == EnableHardware
  <2>1. /\ vmx_hardware_enable(on) /\ hardware_enabled' = hardware_enabled \cup on
        /\ kvm_usage_count' = kvm_usage_count + 1 /\ g_kvm' = "created" /\ vmcs' = NONE
        /\ UNCHANGED <<Unaffected, pc>> /\ kvm_usage_count < MaxVms
    BY <1>3 DEF KVM_CREATE_VM
  <2>2. on \subseteq Cpu
    BY DEF EnableHardware
  <2>3. PICK entered \in SUBSET on : /\ {c \in on : area[c] = "live"} \subseteq entered
                                     /\ vmx_root' = vmx_root \cup entered
    BY <2>1 DEF vmx_hardware_enable
  <2>4. vmxe' = vmxe \cup on
    BY <2>1 DEF vmx_hardware_enable
  <2>5. kvm_usage_count' \in 0 .. MaxVms /\ kvm_usage_count' # 0
    <3>1. kvm_usage_count \in 0 .. MaxVms
      BY DEF TypeOK
    <3>2. kvm_usage_count' = kvm_usage_count + 1 /\ kvm_usage_count < MaxVms
      BY <2>1
    <3> QED BY <3>1, <3>2, BoundAssumption DEF BoundAssumption
  <2>6. on = IF kvm_usage_count = 0 THEN Cpu \ (hardware_enabled \cup vmxe) ELSE {}
    BY DEF EnableHardware
  <2> HIDE DEF on
  <2>7. TypeOK'
    BY <2>1, <2>2, <2>3, <2>4, <2>5 DEF TypeOK, Unaffected
  <2>8. Excused \/ entered = on
    BY <1>0, <2>2, <2>3 DEF ReadyInv
  <2>9. SessionInv'
    <3>1. Excused => Excused'
      BY <1>0, <2>1, NothingFailed, StaysExcused DEF Unaffected
    <3>2. ASSUME ~Excused
          PROVE  /\ vmxe' = vmx_root'
                 /\ mem["vmx_vpid_bitmap_buf"] = "null" \/ hardware_enabled' \subseteq vmx_root'
                 /\ vmx_root' = Cpu \/ ~(hardware_enabled' \subseteq vmx_root')
      <4>1. /\ vmxe = vmx_root
            /\ mem["vmx_vpid_bitmap_buf"] = "null" \/ hardware_enabled \subseteq vmx_root
            /\ kvm_usage_count # 0 => vmx_root = Cpu \/ ~(hardware_enabled \subseteq vmx_root)
        BY <3>2 DEF SessionInv
      <4>2. /\ hardware_enabled' = hardware_enabled \cup on /\ vmx_root' = vmx_root \cup on
            /\ vmxe' = vmxe \cup on /\ hardware_enabled \subseteq Cpu /\ vmx_root \subseteq Cpu
        BY <2>1, <2>3, <2>4, <2>8, <3>2 DEF TypeOK
      <4>3. CASE kvm_usage_count = 0
        BY <2>6, <4>1, <4>2, <4>3
      <4>4. CASE kvm_usage_count # 0
        BY <2>6, <4>1, <4>2, <4>4
      <4> QED BY <4>3, <4>4
    <3> QED BY <1>0, <2>1, <2>5, <3>1, <3>2 DEF SessionInv, Unaffected
  <2>10. ConfigInv'
    BY <2>1 DEF ConfigInv, Configured, Unaffected
  <2> QED BY <1>0, <2>1, <2>7, <2>9, <2>10, RequestKeeps DEF Unaffected
<1> QED BY <1>1, <1>2, <1>3

\* KVM_CREATE_VCPU: what stops it is a missing VM, a lost bitmap or a left mark.
LEMMA CreateVcpuPreserves ==
  ASSUME IndInv, KVM_CREATE_VCPU
  PROVE  IndInv'
<1> USE DEF IndInv
<1> DEFINE ops == {"vcpu_precreate", "vcpu_create", "vcpu_load", "vcpu_reset", "set_cr0",
                   "set_cr4", "set_efer", "vcpu_put"}
<1>0. pc = "running" /\ failed \subseteq Block \cup {"VMXON region"}
  BY DEF TypeOK, KVM_CREATE_VCPU
<1>1. ops \in SUBSET vmx_x86_ops /\ ops # {}
  BY DEF vmx_x86_ops
<1>2. CASE UNCHANGED vars
  BY <1>2, StutterInv
<1>3. ASSUME UNCHANGED failed, NEW why \in CreateVcpuFaults \ {"nothing"}, Stop(why),
             g_kvm \notin {"vcpus", "released"}
      PROVE  IndInv'
  <2>1. Remembers
    BY <1>0, <1>3, NothingFailed
  <2>2. CASE g_kvm = NONE
    <3>1. Explained(why)
      BY <1>3, <2>2 DEF CreateVcpuFaults, Explained, OutOfOrder
    <3> QED BY <1>3, <2>1, <3>1, StopPreserves
  <2>3. CASE g_kvm # NONE /\ ~Installed(ops)
    BY <1>0, <1>1, <1>3, <2>3, MissingExcused
  <2>4. CASE g_kvm # NONE /\ Installed(ops)
    <3>1. \/ why = "freed VPID bitmap" /\ VpidBuf # "live"
          \/ why = "#UD outside VMX operation" /\ vmx_root # Cpu
      BY <1>3, <2>4 DEF CreateVcpuFaults, VpidBuf
    <3>2. kvm_usage_count # 0 /\ VpidBuf \in {"null", "live"}
      BY <1>3, <2>4 DEF SessionInv, TypeOK, VpidBuf
    <3>3. Excused \/ Explained(why)
      BY <3>1, <3>2 DEF SessionInv, Explained, VpidBuf
    <3>4. Excused => Excused'
      BY <1>3, <2>1, StaysExcused DEF Stop
    <3> QED BY <1>3, <2>1, <3>3, <3>4, StopPreserves
  <2> QED BY <2>2, <2>3, <2>4
<1>4. ASSUME "nothing" \in CreateVcpuFaults,
             \E vpid \in {0, 1} :
               vmcs' = [controls |-> init_vmcs(vmcs_config, vpid), vpid |-> vpid],
             g_kvm' = "vcpus", g_kvm \notin {"vcpus", "released"},
             UNCHANGED <<Unaffected, pc, kvm_usage_count, hardware_enabled, vmxe, vmx_root>>
      PROVE  IndInv'
  <2>1. g_kvm # NONE /\ Installed(ops) /\ vmx_root = Cpu
    BY <1>4 DEF CreateVcpuFaults
  <2>2. Configured
    BY <1>1, <2>1 DEF Installed, ConfigInv
  <2>3. TypeOK'
    BY <1>4 DEF TypeOK, Unaffected
  <2>4. SessionInv'
    <3>1. kvm_usage_count # 0
      BY <1>4, <2>1 DEF SessionInv, TypeOK
    <3>2. Excused => Excused'
      BY <1>0, <1>4, NothingFailed, StaysExcused DEF Unaffected
    <3> QED BY <1>0, <1>4, <2>1, <3>1, <3>2 DEF SessionInv, Unaffected
  <2>5. ConfigInv'
    BY <1>4, <2>2 DEF ConfigInv, Configured, Unaffected
  <2> QED BY <1>0, <1>4, <2>3, <2>4, <2>5, RequestKeeps DEF Unaffected
<1>5. CASE g_kvm \in {"vcpus", "released"}
  BY <1>2, <1>5 DEF KVM_CREATE_VCPU
<1>6. CASE g_kvm \notin {"vcpus", "released"}
  <2>1. \/ UNCHANGED failed /\ \E why \in CreateVcpuFaults \ {"nothing"} : Stop(why)
        \/ /\ "nothing" \in CreateVcpuFaults
           /\ \E vpid \in {0, 1} :
                vmcs' = [controls |-> init_vmcs(vmcs_config, vpid), vpid |-> vpid]
           /\ g_kvm' = "vcpus"
           /\ UNCHANGED <<Unaffected, pc, kvm_usage_count, hardware_enabled, vmxe, vmx_root>>
    BY <1>6 DEF KVM_CREATE_VCPU
  <2> QED BY <1>3, <1>4, <1>6, <2>1
<1> QED BY <1>5, <1>6

\* KVM_RELEASE_VM: a VM with vCPUs has every processor in VMX operation.
LEMMA ReleasePreserves ==
  ASSUME IndInv, KVM_RELEASE_VM
  PROVE  IndInv'
<1> USE DEF IndInv
<1> DEFINE ops == {"vm_destroy", "vcpu_free", "hardware_disable"}
<1>0. /\ pc = "running" /\ failed \subseteq Block \cup {"VMXON region"} /\ UNCHANGED failed
      /\ Remembers
  BY NothingFailed DEF TypeOK, KVM_RELEASE_VM
<1>1. ops \in SUBSET vmx_x86_ops
  BY DEF vmx_x86_ops
<1>2. CASE ReleaseFault # NONE
  <2>1. Stop(ReleaseFault)
    BY <1>2 DEF KVM_RELEASE_VM
  <2>2. CASE ReleaseFault \in OutOfOrder
    BY <1>0, <2>1, <2>2, StopPreserves DEF Explained
  <2>3. CASE ~Installed(ops)
    BY <1>0, <1>1, <2>1, <2>3, MissingExcused
  <2>4. ReleaseFault \in OutOfOrder \/ ~Installed(ops)
    BY <1>2, NoneAssumption DEF ReleaseFault, OutOfOrder, SessionInv, TypeOK, NoneAssumption
  <2> QED BY <2>2, <2>3, <2>4
<1>3. CASE ReleaseFault = NONE
  <2>1. g_kvm = "vcpus"
    BY <1>3, NoneAssumption DEF ReleaseFault, OutOfOrder, TypeOK, NoneAssumption
  <2>2. PICK e \in Cpu : hardware_disable_all(e)
    BY <1>3 DEF KVM_RELEASE_VM
  <2>3. /\ g_kvm' = "released" /\ vmcs' = NONE
        /\ UNCHANGED <<processor, area, leaked, loads, kvm_x86_ops, module,
                       vmcs_config, flags, fault, pc>>
    BY <1>3 DEF KVM_RELEASE_VM
  <2>4. kvm_usage_count' \in 0 .. MaxVms /\ (kvm_usage_count' # 0 <=> kvm_usage_count # 1)
    <3>1. kvm_usage_count \in 0 .. MaxVms /\ kvm_usage_count # 0
      BY <2>1 DEF TypeOK, SessionInv
    <3>2. kvm_usage_count' = kvm_usage_count - 1
      BY <2>2 DEF hardware_disable_all
    <3> QED BY <3>1, <3>2, BoundAssumption DEF BoundAssumption
  <2>5. kvm_usage_count # 0 /\ (Excused => Excused')
    BY <1>0, <2>1, <2>3, StaysExcused DEF SessionInv
  <2>6. CASE kvm_usage_count = 1 /\ e \in hardware_enabled
    <3>1. /\ vmxe' = {} /\ vmx_root' = {} /\ hardware_enabled' = hardware_enabled \ {e}
          /\ mem' = [mem EXCEPT !["vmx_vpid_bitmap_buf"] = "null"]
      BY <2>2, <2>6 DEF hardware_disable_all
    <3>2. /\ mem' \in [Block -> BlockState] /\ mem'["vmxarea"] = mem["vmxarea"]
          /\ mem'["vmx_vpid_bitmap_buf"] = "null"
      BY <3>1 DEF TypeOK, BlockState, Block
    <3>3. TypeOK'
      BY <1>0, <2>3, <2>4, <3>1, <3>2 DEF TypeOK
    <3>4. SessionInv'
      BY <1>0, <2>3, <2>4, <2>6, <3>1, <3>2 DEF SessionInv
    <3>5. ConfigInv'
      BY <2>3 DEF ConfigInv, Configured
    <3> QED BY <1>0, <2>3, <3>2, <3>3, <3>4, <3>5, RequestKeeps
  <2>7. CASE ~(kvm_usage_count = 1 /\ e \in hardware_enabled)
    <3>1. UNCHANGED <<vmxe, vmx_root, hardware_enabled, mem>>
      BY <2>2, <2>7 DEF hardware_disable_all
    <3>3. TypeOK'
      BY <1>0, <2>3, <2>4, <3>1 DEF TypeOK
    <3>4. SessionInv'
      BY <1>0, <2>3, <2>4, <2>5, <3>1 DEF SessionInv
    <3>5. ConfigInv'
      BY <2>3 DEF ConfigInv, Configured
    <3> QED BY <1>0, <2>3, <3>1, <3>3, <3>4, <3>5, RequestKeeps
  <2> QED BY <2>6, <2>7
<1> QED BY <1>2, <1>3

\* Unloading frees the arrays, the device and its link, and takes the regions
\* back.
LEMMA UnloadPreserves ==
  ASSUME IndInv, DriverUnload
  PROVE  IndInv'
<1> DEFINE m == Freed(mem, {"vmxarea", "current_vmcs", "device", "link"})
<1>0. pc = "running" /\ UNCHANGED failed /\ Remembers
  BY NothingFailed DEF DriverUnload, IndInv, TypeOK
<1>1. {"hardware_unsetup"} \in SUBSET vmx_x86_ops
  BY DEF vmx_x86_ops
<1>2. CASE ~Installed({"hardware_unsetup"})
  BY <1>0, <1>1, <1>2, MissingExcused DEF DriverUnload, kvm_x86_vendor_exit
<1>3. CASE Installed({"hardware_unsetup"})
  <2>1. free_kvm_area(area, Gone(m, NoRegions))
    BY <1>3 DEF DriverUnload, kvm_x86_vendor_exit
  <2>2. CASE Gone(m, NoRegions)
    <3>1. \A b \in Arrays : m[b] # "live"
      BY DEF Freed, Arrays, Block
    <3>2. \A c \in Cpu : NoRegions[c] # "live"
      BY DEF NoRegions
    <3> QED BY <1>0, <2>2, <3>1, <3>2, GonePreserves
  <2>3. CASE /\ \E c \in Cpu : area[c] # "live"
             /\ Stop("double free") \/ Stop("free of NULL")
    <3>1. Excused
      BY <1>0, <2>3 DEF IndInv, ReadyInv
    <3>2. Excused'
      BY <1>0, <2>3, <3>1, StaysExcused DEF Stop
    <3> QED BY <1>0, <2>3, <3>2, StopPreserves
  <2> QED BY <2>1, <2>2, <2>3 DEF free_kvm_area
<1> QED BY <1>2, <1>3

-----------------------------------------------------------------------------
\* The theorems.

LEMMA InitInv == Init => IndInv
<1> SUFFICES ASSUME Init PROVE IndInv
  OBVIOUS
<1> USE DEF Init
<1>0. 0 \in 0 .. MaxLoads /\ 0 \in 0 .. MaxVms
  BY BoundAssumption DEF BoundAssumption
<1>1. TypeOK
  BY <1>0 DEF TypeOK, NoMemory, NoRegions, BlockState
<1>2. StopsExplained /\ LeaksKnown
  BY DEF StopsExplained, LeaksKnown
<1>3. OrderInv /\ VendorInv /\ RegionInv /\ ReadyInv
  BY DEF OrderInv, NotYet, Arrays, NoMemory, NoRegions, Block, VendorInv, RegionInv, ReadyInv
<1>4. ConfigInv
  BY DEF ConfigInv
<1>5. SessionInv
  BY NoneAssumption DEF SessionInv, NoMemory, Block, NoneAssumption
<1> QED BY <1>1, <1>2, <1>3, <1>4, <1>5 DEF IndInv

LEMMA StepInv == IndInv /\ [Next]_vars => IndInv'
<1> SUFFICES ASSUME IndInv, [Next]_vars PROVE IndInv'
  OBVIOUS
<1> QED BY StutterInv, EntryPreserves, MmuPreserves, SetupPreserves, RegionsPreserve, ListsPreserve,
           CreateVmPreserves, CreateVcpuPreserves, ReleasePreserves, UnloadPreserves DEF Next

\* Every variable keeps its type, what stops the machine or leaks is as named,
\* and the configuration is the one hardware_setup computes from the
\* processor's features.
THEOREM Invariance == Spec => []IndInv
BY InitInv, StepInv, PTL DEF Spec

\* For any processors and any number of loads, VMs and failing allocations: on
\* an Intel machine with EPT or VPID whose firmware allows VMXON, DriverEntry,
\* the requests and DriverUnload stop the machine only after an MMU cache or a
\* VMXON region could not be allocated, by a request out of order, or by
\* KVM_CREATE_VCPU after a last release has freed the VPID bitmap, which is also
\* the only time a processor is marked as enabled outside VMX operation.
THEOREM StopsCorrect == Spec => []StopsExplained
<1>1. IndInv => StopsExplained
  BY DEF IndInv
<1> QED BY <1>1, Invariance, PTL

\* No error path of DriverEntry and no unloading leaves the device, its link
\* or the arrays behind; VMXON regions are leaked only by the failure path of
\* vmx_init that undoes nothing.
THEOREM LeaksCorrect == Spec => []LeaksKnown
<1>1. IndInv => LeaksKnown
  BY DEF IndInv
<1> QED BY <1>1, Invariance, PTL

\* For every set of features a processor may report, setup_vmcs_config and
\* hardware_setup turn on nothing without what it depends on.
THEOREM ConfigCorrect == Spec => []ConfigDependencies
<1>1. IndInv => ConfigDependencies
  <2> SUFFICES ASSUME IndInv, vmcs_config # NONE
               PROVE  ConfigDependencies
    BY DEF ConfigDependencies
  <2>1. Configured
    BY DEF IndInv, ConfigInv
  <2> QED BY <2>1, ConfigConsistent DEF ConfigDependencies, Configured
<1> QED BY <1>1, Invariance, PTL

\* For every set of features, the controls init_vmcs writes pass the checks at
\* VM entry exactly when vmcs_config has neither APIC-register virtualisation
\* nor virtual-interrupt delivery and the processor supports what init_vmcs
\* forces on or off.
THEOREM VmcsCorrect == Spec => []VmcsAccepted
<1>1. IndInv => VmcsAccepted
  <2> SUFFICES ASSUME IndInv, vmcs # NONE
               PROVE  VmcsAccepted
    BY DEF VmcsAccepted
  <2>1. Configured
    BY DEF IndInv, ConfigInv
  <2>2. PICK vpid \in {0, 1} :
          vmcs = [controls |-> init_vmcs(vmcs_config, vpid), vpid |-> vpid]
    BY DEF IndInv, ConfigInv
  <2>3. vmcs.controls = init_vmcs(vmcs_config, vpid) /\ vmcs.vpid = vpid
    BY <2>2
  <2> QED BY <2>1, <2>2, <2>3, ControlsAccepted DEF VmcsAccepted, Configured
<1> QED BY <1>1, Invariance, PTL

=============================================================================
