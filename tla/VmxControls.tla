------------------------------ MODULE VmxControls ------------------------------
(***************************************************************************)
(* The VMX controls of vmx.c: how setup_vmcs_config derives vmcs_config    *)
(* from what the processor supports, which features hardware_setup turns   *)
(* on, and what init_vmcs writes into the VMCS of a vCPU.                  *)
(*                                                                         *)
(* A control word is the set of the controls whose bit is one.  A          *)
(* processor is the set `has' of what it supports: the controls whose      *)
(* allowed-1 setting is one, the bits of IA32_VMX_EPT_VPID_CAP and the     *)
(* CPUID features asked for.                                               *)
(***************************************************************************)
EXTENDS Integers, FiniteSets

-----------------------------------------------------------------------------
\* The required and optional controls of vmx.h.

KVM_REQUIRED_VMX_CPU_BASED_VM_EXEC_CONTROL ==
  {"HLT_EXITING", "CR3_LOAD_EXITING", "CR3_STORE_EXITING", "UNCOND_IO_EXITING",
   "MOV_DR_EXITING", "USE_TSC_OFFSETTING", "MWAIT_EXITING", "MONITOR_EXITING",
   "INVLPG_EXITING", "RDPMC_EXITING", "INTR_WINDOW_EXITING",
   "CR8_LOAD_EXITING", "CR8_STORE_EXITING"}

KVM_OPTIONAL_VMX_CPU_BASED_VM_EXEC_CONTROL ==
  {"RDTSC_EXITING", "TPR_SHADOW", "USE_IO_BITMAPS", "MONITOR_TRAP_FLAG",
   "USE_MSR_BITMAPS", "NMI_WINDOW_EXITING", "PAUSE_EXITING",
   "ACTIVATE_SECONDARY_CONTROLS", "ACTIVATE_TERTIARY_CONTROLS"}

KVM_OPTIONAL_VMX_SECONDARY_VM_EXEC_CONTROL ==
  {"VIRTUALIZE_APIC_ACCESSES", "VIRTUALIZE_X2APIC_MODE", "WBINVD_EXITING",
   "ENABLE_VPID", "ENABLE_EPT", "UNRESTRICTED_GUEST", "PAUSE_LOOP_EXITING",
   "DESC", "ENABLE_RDTSCP", "ENABLE_INVPCID", "APIC_REGISTER_VIRT",
   "VIRTUAL_INTR_DELIVERY", "SHADOW_VMCS", "XSAVES", "RDSEED_EXITING",
   "RDRAND_EXITING", "ENABLE_PML", "TSC_SCALING", "ENABLE_USR_WAIT_PAUSE",
   "PT_USE_GPA", "PT_CONCEAL_VMX", "ENABLE_VMFUNC", "BUS_LOCK_DETECTION",
   "NOTIFY_VM_EXITING", "ENCLS_EXITING"}

KVM_OPTIONAL_VMX_TERTIARY_VM_EXEC_CONTROL == {"IPI_VIRT"}

KVM_REQUIRED_VMX_VM_EXIT_CONTROLS ==
  {"SAVE_DEBUG_CONTROLS", "ACK_INTR_ON_EXIT", "HOST_ADDR_SPACE_SIZE"}

KVM_OPTIONAL_VMX_VM_EXIT_CONTROLS ==
  {"EXIT_LOAD_PERF_GLOBAL_CTRL", "EXIT_SAVE_PAT", "EXIT_LOAD_PAT",
   "EXIT_SAVE_EFER", "SAVE_VMX_PREEMPTION_TIMER", "EXIT_LOAD_EFER",
   "CLEAR_BNDCFGS", "EXIT_PT_CONCEAL_PIP", "CLEAR_RTIT_CTL"}

KVM_REQUIRED_VMX_PIN_BASED_VM_EXEC_CONTROL == {"EXT_INTR_MASK", "NMI_EXITING"}

KVM_OPTIONAL_VMX_PIN_BASED_VM_EXEC_CONTROL ==
  {"VIRTUAL_NMIS", "POSTED_INTR", "VMX_PREEMPTION_TIMER"}

KVM_REQUIRED_VMX_VM_ENTRY_CONTROLS == {"LOAD_DEBUG_CONTROLS", "IA32E_MODE"}

KVM_OPTIONAL_VMX_VM_ENTRY_CONTROLS ==
  {"ENTRY_LOAD_PERF_GLOBAL_CTRL", "ENTRY_LOAD_PAT", "ENTRY_LOAD_EFER",
   "LOAD_BNDCFGS", "ENTRY_PT_CONCEAL_PIP", "LOAD_RTIT_CTL"}

EptCaps == {"EPT_PAGE_WALK_4", "EPT_PAGE_WALK_5", "EPTP_WB", "EPT_AD",
            "EPT_2MB_PAGE", "EPT_1GB_PAGE", "EPT_EXECUTE_ONLY", "EPT_EXTENT_GLOBAL"}
VpidCaps == {"INVVPID"}

\* Controls reported as "must be one" by the MSRs the driver reads, although
\* a processor with the TRUE capability MSRs allows zero.
DefaultOnes == {"CR3_LOAD_EXITING", "CR3_STORE_EXITING", "SAVE_DEBUG_CONTROLS",
                "LOAD_DEBUG_CONTROLS"}

\* Everything a processor may support.
Features ==
  UNION {KVM_REQUIRED_VMX_CPU_BASED_VM_EXEC_CONTROL, KVM_OPTIONAL_VMX_CPU_BASED_VM_EXEC_CONTROL,
         KVM_OPTIONAL_VMX_SECONDARY_VM_EXEC_CONTROL, KVM_OPTIONAL_VMX_TERTIARY_VM_EXEC_CONTROL,
         KVM_REQUIRED_VMX_VM_EXIT_CONTROLS, KVM_OPTIONAL_VMX_VM_EXIT_CONTROLS,
         KVM_REQUIRED_VMX_PIN_BASED_VM_EXEC_CONTROL, KVM_OPTIONAL_VMX_PIN_BASED_VM_EXEC_CONTROL,
         KVM_REQUIRED_VMX_VM_ENTRY_CONTROLS, KVM_OPTIONAL_VMX_VM_ENTRY_CONTROLS,
         EptCaps, VpidCaps,
         {"SGX", "WORKING_PREEMPTION_TIMER", "TRUE_CONTROLS", "VMCS_WB"}}

-----------------------------------------------------------------------------
\* vmcs_config.

\* The word an adjusted control MSR yields; a required control it lacks is
\* reported by Unsupported.
adjust_vmx_controls(min, opt, has) ==
  ((min \cup opt) \cap has) \cup (min \cap DefaultOnes)

Unsupported(min, ctl) == ~(min \subseteq ctl)

cpu_has_sgx(has) == "SGX" \in has

cpu_has_broken_vmx_preemption_timer(has) == "WORKING_PREEMPTION_TIMER" \notin has

CpuBased(has) ==
  adjust_vmx_controls(KVM_REQUIRED_VMX_CPU_BASED_VM_EXEC_CONTROL,
                      KVM_OPTIONAL_VMX_CPU_BASED_VM_EXEC_CONTROL, has)

\* The secondary word as read, before controls it depends on are looked at.
SecondaryRead(has) ==
  IF "ACTIVATE_SECONDARY_CONTROLS" \in CpuBased(has)
  THEN adjust_vmx_controls({}, KVM_OPTIONAL_VMX_SECONDARY_VM_EXEC_CONTROL, has)
  ELSE {}

Secondary(has) ==
  SecondaryRead(has)
    \ ((IF "TPR_SHADOW" \in CpuBased(has) THEN {}
        ELSE {"APIC_REGISTER_VIRT", "VIRTUALIZE_X2APIC_MODE", "VIRTUAL_INTR_DELIVERY"})
       \cup (IF cpu_has_sgx(has) THEN {} ELSE {"ENCLS_EXITING"}))

adjust_vmx_controls64(opt, has) == opt \cap has

Tertiary(has) ==
  IF "ACTIVATE_TERTIARY_CONTROLS" \in CpuBased(has)
  THEN adjust_vmx_controls64(KVM_OPTIONAL_VMX_TERTIARY_VM_EXEC_CONTROL, has)
  ELSE {}

PinBased(has) ==
  adjust_vmx_controls(KVM_REQUIRED_VMX_PIN_BASED_VM_EXEC_CONTROL,
                      KVM_OPTIONAL_VMX_PIN_BASED_VM_EXEC_CONTROL, has)
    \ ((IF cpu_has_broken_vmx_preemption_timer(has) THEN {"VMX_PREEMPTION_TIMER"} ELSE {})
       \cup (IF "VIRTUAL_INTR_DELIVERY" \in Secondary(has) THEN {} ELSE {"POSTED_INTR"}))

vmcs_entry_exit_pairs ==
  {<<"ENTRY_LOAD_PERF_GLOBAL_CTRL", "EXIT_LOAD_PERF_GLOBAL_CTRL">>,
   <<"ENTRY_LOAD_PAT", "EXIT_LOAD_PAT">>, <<"ENTRY_LOAD_EFER", "EXIT_LOAD_EFER">>,
   <<"LOAD_BNDCFGS", "CLEAR_BNDCFGS">>, <<"LOAD_RTIT_CTL", "CLEAR_RTIT_CTL">>}

\* Mutant: only the entry control of an unmatched pair is cleared.
EntryHalfOnly(entry, exit) ==
  LET odd == {p \in vmcs_entry_exit_pairs : (p[1] \in entry) # (p[2] \in exit)}
  IN  [entry |-> entry \ {p[1] : p \in odd}, exit |-> exit]

\* The pairs of which the processor has one half only lose it.
MatchPairs(entry, exit) ==
  LET odd == {p \in vmcs_entry_exit_pairs : (p[1] \in entry) # (p[2] \in exit)}
  IN  [entry |-> entry \ {p[1] : p \in odd}, exit |-> exit \ {p[2] : p \in odd}]

EntryExit(has) ==
  MatchPairs(adjust_vmx_controls(KVM_REQUIRED_VMX_VM_ENTRY_CONTROLS,
                                 KVM_OPTIONAL_VMX_VM_ENTRY_CONTROLS, has),
             adjust_vmx_controls(KVM_REQUIRED_VMX_VM_EXIT_CONTROLS,
                                 KVM_OPTIONAL_VMX_VM_EXIT_CONTROLS, has))

\* IA32_VMX_EPT_VPID_CAP exists on a processor with EPT or VPID only: rdmsr
\* is the plain instruction, and its #GP in the driver stops the machine.
\* The word is read once the primary controls have been accepted.
RdmsrFaults(has) ==
  /\ ~Unsupported(KVM_REQUIRED_VMX_CPU_BASED_VM_EXEC_CONTROL, CpuBased(has))
  /\ \/ "ACTIVATE_SECONDARY_CONTROLS" \notin has
     \/ {"ENABLE_EPT", "ENABLE_VPID"} \cap has = {}

\* The error returns of setup_vmcs_config.
ConfigRefused(has) ==
  \/ Unsupported(KVM_REQUIRED_VMX_CPU_BASED_VM_EXEC_CONTROL, CpuBased(has))
  \/ Unsupported(KVM_REQUIRED_VMX_VM_EXIT_CONTROLS, EntryExit(has).exit)
  \/ Unsupported(KVM_REQUIRED_VMX_PIN_BASED_VM_EXEC_CONTROL, PinBased(has))
  \/ Unsupported(KVM_REQUIRED_VMX_VM_ENTRY_CONTROLS, EntryExit(has).entry)
  \/ "VMCS_WB" \notin has

\* vmx_capability: the capabilities of EPT and of VPID are forgotten when the
\* secondary word does not offer the feature.
vmx_capability(has) ==
  [ept  |-> IF "ENABLE_EPT" \in Secondary(has) THEN EptCaps \cap has ELSE {},
   vpid |-> IF "ENABLE_VPID" \in Secondary(has) THEN VpidCaps \cap has ELSE {}]

\* vmcs_config and vmx_capability of a processor that is not refused.
setup_vmcs_config(has) ==
  [pin       |-> PinBased(has),
   exec      |-> CpuBased(has),
   secondary |-> Secondary(has),
   tertiary  |-> Tertiary(has),
   exit      |-> EntryExit(has).exit,
   entry     |-> EntryExit(has).entry,
   ept       |-> vmx_capability(has).ept,
   vpid      |-> vmx_capability(has).vpid]

-----------------------------------------------------------------------------
\* hardware_setup: what is turned on.

cpu_has_vmx_ept(config) == "ENABLE_EPT" \in config.secondary
cpu_has_vmx_ept_4levels(config) == "EPT_PAGE_WALK_4" \in config.ept
cpu_has_vmx_ept_5levels(config) == "EPT_PAGE_WALK_5" \in config.ept
cpu_has_vmx_ept_mt_wb(config) == "EPTP_WB" \in config.ept
cpu_has_vmx_ept_ad_bits(config) == "EPT_AD" \in config.ept
cpu_has_vmx_ept_execute_only(config) == "EPT_EXECUTE_ONLY" \in config.ept
cpu_has_vmx_invept_global(config) == "EPT_EXTENT_GLOBAL" \in config.ept
cpu_has_vmx_tpr_shadow(config) == "TPR_SHADOW" \in config.exec
cpu_has_vmx_pml(config) == "ENABLE_PML" \in config.secondary
cpu_has_vmx_virtualize_apic_accesses(config) == "VIRTUALIZE_APIC_ACCESSES" \in config.secondary

\* The conditions under which EPT stays on; without it the set-up fails.
enable_ept(config) ==
  /\ cpu_has_vmx_ept(config) /\ cpu_has_vmx_ept_4levels(config)
  /\ cpu_has_vmx_ept_mt_wb(config) /\ cpu_has_vmx_invept_global(config)

cpu_has_vmx_flexpriority(config) ==
  cpu_has_vmx_tpr_shadow(config) /\ cpu_has_vmx_virtualize_apic_accesses(config)

vmx_get_max_tdp_level(config) == IF cpu_has_vmx_ept_5levels(config) THEN 5 ELSE 4

ept_caps_to_lpage_level(caps) ==
  IF "EPT_1GB_PAGE" \in caps THEN "1G" ELSE IF "EPT_2MB_PAGE" \in caps THEN "2M" ELSE "4K"

\* The SPTE masks, as the bits each one holds.  MMIO caching was never
\* allowed, so both calls of kvm_mmu_set_mmio_spte_mask leave no MMIO value.
kvm_mmu_reset_all_pte_masks ==
  [user |-> {"US"}, accessed |-> {"A"}, dirty |-> {"D"}, nx |-> {"NX"}, x |-> {},
   present |-> {"P"}, memtype |-> {}, acc_track |-> {}, mmio_value |-> {}]

kvm_mmu_set_ept_masks(ad, exec_only) ==
  [user |-> {"R"}, accessed |-> IF ad THEN {"EPT_A"} ELSE {},
   dirty |-> IF ad THEN {"EPT_D"} ELSE {}, nx |-> {}, x |-> {"X"},
   present |-> IF exec_only THEN {} ELSE {"R"}, memtype |-> {"MT", "IPAT"},
   acc_track |-> {"R", "W", "X"}, mmio_value |-> {}]

\* kvm_configure_mmu, called with EPT on and no forced root level.
kvm_configure_mmu(config) ==
  [tdp_mmu_enabled |-> TRUE, tdp_root_level |-> 0,
   max_tdp_level |-> vmx_get_max_tdp_level(config),
   max_huge_page_level |-> ept_caps_to_lpage_level(config.ept)]

\* The preemption timer is always turned off (its frequency is taken to be
\* 5 GHz, above the limit) and unrestricted guest is off by its default.
HardwareFlags(config) ==
  LET ad == cpu_has_vmx_ept_ad_bits(config)
  IN  [enable_ept_ad_bits |-> ad,
       enable_pml |-> ad /\ cpu_has_vmx_pml(config),
       flexpriority_enabled |-> cpu_has_vmx_flexpriority(config),
       update_cr8_intercept |-> cpu_has_vmx_tpr_shadow(config),
       masks |-> kvm_mmu_set_ept_masks(ad, cpu_has_vmx_ept_execute_only(config)),
       mmu |-> kvm_configure_mmu(config)]

-----------------------------------------------------------------------------
\* init_vmcs: the controls of a vCPU.

\* Mutant: virtual NMIs stay on although NMI exiting is turned off.
PinKeepsVirtualNmis(config) ==
  config.pin \ {"POSTED_INTR", "VMX_PREEMPTION_TIMER", "NMI_EXITING", "EXT_INTR_MASK"}

vmx_pin_based_exec_ctrl(config) ==
  config.pin \ {"POSTED_INTR", "VIRTUAL_NMIS", "VMX_PREEMPTION_TIMER",
                "NMI_EXITING", "EXT_INTR_MASK"}

\* The local APIC is always in the kernel, so with a TPR shadow the CR8 exits
\* go first; the shadow itself goes too.
vmx_exec_control(config) ==
  LET cr8 == {"CR8_LOAD_EXITING", "CR8_STORE_EXITING"}
      word == IF cpu_has_vmx_tpr_shadow(config) THEN config.exec \ cr8 ELSE config.exec \cup cr8
  IN  (word \ {"RDTSC_EXITING", "MONITOR_TRAP_FLAG", "PAUSE_EXITING",
               "INTR_WINDOW_EXITING", "NMI_WINDOW_EXITING", "CR3_STORE_EXITING",
               "INVLPG_EXITING", "MONITOR_EXITING", "UNCOND_IO_EXITING", "TPR_SHADOW",
               "MWAIT_EXITING", "RDPMC_EXITING", "HLT_EXITING", "USE_TSC_OFFSETTING"})
      \cup {"CR3_LOAD_EXITING", "MOV_DR_EXITING", "USE_IO_BITMAPS"}

\* A feature every guest is given: its enabling control is kept, the control
\* that makes its instruction exit is cleared.
vmx_adjust_secondary_exec_control(word, control, exiting) ==
  IF exiting THEN word \ {control} ELSE word

\* The two features whose control makes an instruction exit; XSAVES, RDTSCP,
\* INVPCID and WAITPKG are enabling controls and keep theirs.
cpu_has_vmx_rdrand(config) == "RDRAND_EXITING" \in config.secondary
cpu_has_vmx_rdseed(config) == "RDSEED_EXITING" \in config.secondary

\* The bus lock and notify exits stay off: no caller turns them on.
vmx_secondary_exec_control(config, vpid) ==
  LET kept == config.secondary
                \ ({"PT_USE_GPA", "PT_CONCEAL_VMX", "UNRESTRICTED_GUEST",
                    "VIRTUALIZE_X2APIC_MODE", "ENABLE_VMFUNC", "SHADOW_VMCS",
                    "BUS_LOCK_DETECTION", "NOTIFY_VM_EXITING", "WBINVD_EXITING",
                    "PAUSE_LOOP_EXITING"}
                   \cup (IF vpid = 0 THEN {"ENABLE_VPID"} ELSE {}))
      rdrand == vmx_adjust_secondary_exec_control(kept, "RDRAND_EXITING", cpu_has_vmx_rdrand(config))
  IN  vmx_adjust_secondary_exec_control(rdrand, "RDSEED_EXITING", cpu_has_vmx_rdseed(config))
        \cup {"DESC"}

vmx_vmexit_ctrl(config) ==
  config.exit \ {"EXIT_SAVE_PAT", "EXIT_SAVE_EFER", "SAVE_VMX_PREEMPTION_TIMER",
                 "EXIT_PT_CONCEAL_PIP", "CLEAR_RTIT_CTL", "EXIT_LOAD_PERF_GLOBAL_CTRL",
                 "EXIT_LOAD_EFER", "EXIT_LOAD_PAT", "ACK_INTR_ON_EXIT",
                 "SAVE_DEBUG_CONTROLS"}

vmx_vmentry_ctrl(config) ==
  (config.entry \ {"ENTRY_PT_CONCEAL_PIP", "LOAD_RTIT_CTL", "ENTRY_LOAD_PERF_GLOBAL_CTRL",
                   "ENTRY_LOAD_EFER", "ENTRY_LOAD_PAT"})
    \cup {"IA32E_MODE"}

\* The tertiary word is never written: the field of the zeroed VMCS stays 0.
init_vmcs(config, vpid) ==
  [pin |-> vmx_pin_based_exec_ctrl(config), exec |-> vmx_exec_control(config),
   secondary |-> vmx_secondary_exec_control(config, vpid), tertiary |-> {},
   exit |-> vmx_vmexit_ctrl(config), entry |-> vmx_vmentry_ctrl(config)]

-----------------------------------------------------------------------------
\* The processor's checks on the controls of a VMCS at VM entry, as far as
\* they concern the controls above.

\* External: a control the processor must see set.
MustBeOne(has) == IF "TRUE_CONTROLS" \in has THEN {} ELSE DefaultOnes

VmEntryAccepts(c, vpid, has) ==
  /\ UNION {c.pin, c.exec, c.secondary, c.exit, c.entry} \subseteq has
  /\ MustBeOne(has) \subseteq UNION {c.exec, c.exit, c.entry}
  /\ "TPR_SHADOW" \notin c.exec =>
       {"VIRTUALIZE_X2APIC_MODE", "APIC_REGISTER_VIRT", "VIRTUAL_INTR_DELIVERY"}
         \cap c.secondary = {}
  /\ "VIRTUAL_NMIS" \in c.pin => "NMI_EXITING" \in c.pin
  /\ "NMI_WINDOW_EXITING" \in c.exec => "VIRTUAL_NMIS" \in c.pin
  /\ ~({"VIRTUALIZE_X2APIC_MODE", "VIRTUALIZE_APIC_ACCESSES"} \subseteq c.secondary)
  /\ "VIRTUAL_INTR_DELIVERY" \in c.secondary => "EXT_INTR_MASK" \in c.pin
  /\ "POSTED_INTR" \in c.pin =>
       "VIRTUAL_INTR_DELIVERY" \in c.secondary /\ "ACK_INTR_ON_EXIT" \in c.exit
  /\ "ENABLE_VPID" \in c.secondary => vpid # 0
  /\ {"UNRESTRICTED_GUEST", "ENABLE_PML", "PT_USE_GPA"} \cap c.secondary # {} =>
       "ENABLE_EPT" \in c.secondary
  /\ "SAVE_VMX_PREEMPTION_TIMER" \in c.exit => "VMX_PREEMPTION_TIMER" \in c.pin
  /\ "IA32E_MODE" \in c.entry => "HOST_ADDR_SPACE_SIZE" \in c.exit

=============================================================================
