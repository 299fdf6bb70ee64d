------------------------------- MODULE VmxRegs -------------------------------
(***************************************************************************)
(* The registers of one vCPU: reset to the state of the processor it was   *)
(* created on, loaded into the guest fields of its VMCS, run with some CR0 *)
(* and CR4 bits owned by the guest, and cached in vcpu->arch under the     *)
(* regs_avail and regs_dirty marks.                                        *)
(*                                                                         *)
(* A control register is the set of its bits that are on.  The base of a   *)
(* segment is named by where it comes from: a descriptor (32 or 64 bits),  *)
(* the FS_BASE and GS_BASE MSRs, or "zero".  Unrestricted guest is off in  *)
(* every build (enable_unrestricted_guest stays 0), EPT is on, no vCPU is  *)
(* in a nested guest, EFER of the vCPU stays 0.                            *)
(*                                                                         *)
(* The vCPU is one whose creating thread runs on the processor of its      *)
(* number: only then do the VMWRITEs of kvm_vcpu_reset reach its own VMCS  *)
(* (Lifecycle follows where those of the other vCPUs go).                  *)
(***************************************************************************)
EXTENDS FiniteSets

CONSTANTS
  HostCr4,      \* CR4 values the processor may have when a vCPU is created
  OwnedTried,   \* guest-owned bits the guest flips
  Qualification \* exit qualifications: of the CR accesses, and others

Cr0Bit == {"PE", "MP", "EM", "TS", "ET", "NE", "WP", "AM", "NW", "CD", "PG"}
Cr4Bit == {"PAE", "PSE", "VMXE", "PCIDE", "SMEP", "SMAP", "PKE", "DE", "PGE", "FSGSBASE",
           "OSFXSR", "OSXMMEXCPT", "PVI", "PCE", "TSD"}

\* 64-bit Windows with VMX turned on by hardware_enable.
ASSUME HostAssumption ==
  \A cr4 \in HostCr4 : {"PAE", "VMXE"} \subseteq cr4 /\ cr4 \subseteq Cr4Bit

HostCr0 == {"PE", "MP", "ET", "NE", "WP", "AM", "PG"}
Segment == {"ES", "CS", "SS", "DS", "FS", "GS", "TR", "LDTR"}
ExReg == {"CR0", "CR3", "CR4", "PDPTR", "RFLAGS", "EXIT_INFO_1", "EXIT_INFO_2"}

KVM_VM_CR0_ALWAYS_OFF == {"NW", "CD"}
KVM_VM_CR0_ALWAYS_ON == {"WP", "NE", "TS", "MP", "PG", "PE"}
KVM_PMODE_VM_CR4_ALWAYS_ON == {"PAE", "VMXE"}
vmx_l1_guest_owned_cr0_bits == {"TS", "WP"}
cr4_guest_owned_bits ==
  {"PVI", "DE", "PCE", "OSFXSR", "OSXMMEXCPT", "PGE", "TSD", "FSGSBASE"}

ASSUME OwnedAssumption ==
  OwnedTried \subseteq vmx_l1_guest_owned_cr0_bits \cup cr4_guest_owned_bits

\* Mutant: the exit qualification is not among the registers loaded lazily.
LazyWithoutQualification == ExReg \ {"EXIT_INFO_1"}

VMX_REGS_LAZY_LOAD_SET == ExReg

VARIABLES
  host,        \* the processor's CR4, and whether it has a local descriptor table
  arch,        \* cr0, cr3, cr4, exit_qualification of the vCPU
  regs_avail, regs_dirty,
  vmcs,        \* guest fields, read shadows and EXIT_QUALIFICATION
  mode         \* "new", "reset", "root", "guest", "exited"

vars == <<host, arch, regs_avail, regs_dirty, vmcs, mode>>

Base == {"zero", "base32", "base64", "msr"}

TypeOK ==
  /\ host \in [cr4 : HostCr4, ldt : BOOLEAN]
  /\ arch \in [cr0 : SUBSET Cr0Bit, cr3 : {"zero", "host"}, cr4 : SUBSET Cr4Bit,
               exit_qualification : Qualification \cup {"none"}]
  /\ regs_avail \subseteq ExReg /\ regs_dirty \subseteq regs_avail
  /\ vmcs.base \in [Segment -> Base] /\ vmcs.usable \in [Segment -> BOOLEAN]
  /\ mode \in {"new", "reset", "root", "guest", "exited"}

\* kvm_arch_vcpu_create, on a zeroed vCPU and a zeroed VMCS.
Init ==
  /\ host \in [cr4 : HostCr4, ldt : BOOLEAN]
  /\ arch = [cr0 |-> {}, cr3 |-> "zero", cr4 |-> {}, exit_qualification |-> "none"]
  /\ regs_avail = ExReg /\ regs_dirty = ExReg
  /\ vmcs = [GUEST_CR0 |-> {}, CR0_READ_SHADOW |-> {}, GUEST_CR3 |-> "zero",
             GUEST_CR4 |-> {}, CR4_READ_SHADOW |-> {}, EXIT_QUALIFICATION |-> "none",
             tables |-> "zero", GUEST_RFLAGS |-> "zero",
             base |-> [s \in Segment |-> "zero"], usable |-> [s \in Segment |-> FALSE]]
  /\ mode = "new"

-----------------------------------------------------------------------------
\* The cache of registers, on a vCPU v = [arch, avail, vmcs].

\* Owned bits come from the VMCS field.  CR3 stays as it is: loads of CR3 exit.
vmx_cache_reg(v, reg) ==
  CASE reg = "CR0" -> [v.arch EXCEPT
         !.cr0 = (@ \ vmx_l1_guest_owned_cr0_bits)
                   \cup (v.vmcs.GUEST_CR0 \cap vmx_l1_guest_owned_cr0_bits)]
    [] reg = "CR4" -> [v.arch EXCEPT
         !.cr4 = (@ \ cr4_guest_owned_bits) \cup (v.vmcs.GUEST_CR4 \cap cr4_guest_owned_bits)]
    [] OTHER -> v.arch

kvm_register_is_available(v, reg) == reg \in v.avail

kvm_read_cr0_bits(v, mask) ==
  LET stale == /\ mask \cap vmx_l1_guest_owned_cr0_bits # {}
               /\ ~kvm_register_is_available(v, "CR0")
  IN  mask \cap (IF stale THEN vmx_cache_reg(v, "CR0") ELSE v.arch).cr0

kvm_read_cr4_bits(v, mask) ==
  LET stale == mask \cap cr4_guest_owned_bits # {} /\ ~kvm_register_is_available(v, "CR4")
  IN  mask \cap (IF stale THEN vmx_cache_reg(v, "CR4") ELSE v.arch).cr4

\* The exit qualification, read from the VMCS when it is not available.
vmx_get_exit_qual(v) ==
  IF kvm_register_is_available(v, "EXIT_INFO_1")
  THEN v.arch.exit_qualification ELSE v.vmcs.EXIT_QUALIFICATION

Vcpu == [arch |-> arch, avail |-> regs_avail, vmcs |-> vmcs]

is_paging(v) == kvm_read_cr0_bits(v, {"PG"}) # {}

-----------------------------------------------------------------------------
\* Writing the control registers.

vmx_set_cr0(v, cr0) ==
  [v EXCEPT !.vmcs.CR0_READ_SHADOW = cr0,
            !.vmcs.GUEST_CR0 = (cr0 \ KVM_VM_CR0_ALWAYS_OFF) \cup KVM_VM_CR0_ALWAYS_ON,
            !.arch.cr0 = cr0,
            !.avail = @ \cup {"CR0"}]

\* What runs is always in protected mode with paging: a guest that turned
\* paging off has PAE, SMEP, SMAP and PKE taken away.
vmx_set_cr4(v, cr4) ==
  LET hw == cr4 \cup KVM_PMODE_VM_CR4_ALWAYS_ON
      paged == IF ~is_paging(v) THEN (hw \ {"PAE", "SMEP", "SMAP", "PKE"}) \cup {"PSE"}
               ELSE IF "PAE" \notin cr4 THEN hw \ {"PAE"}
               ELSE hw
  IN  [v EXCEPT !.vmcs.CR4_READ_SHADOW = cr4, !.vmcs.GUEST_CR4 = paged, !.arch.cr4 = cr4]

\* A value the caller refuses leaves the vCPU as it is.
kvm_set_cr0(v, value) ==
  LET cr0 == (value \cup {"ET"}) \cap Cr0Bit
      refused == \/ "NW" \in cr0 /\ "CD" \notin cr0
                 \/ "PG" \in cr0 /\ "PE" \notin cr0
                 \/ "PG" \notin cr0 /\ kvm_read_cr4_bits(v, {"PCIDE"}) # {}
  IN  IF refused THEN v ELSE vmx_set_cr0(v, cr0)

-----------------------------------------------------------------------------
\* Reset: the vCPU takes over the state of the processor.

\* The base in the descriptor a selector names.  Those of system segments have
\* 64 bits; without a local descriptor table LDTR names the null descriptor.
get_segment_base(seg) ==
  CASE seg = "LDTR" /\ ~host.ldt -> "zero"
    [] seg = "TR" \/ (seg = "LDTR" /\ host.ldt) -> "base64"
    [] OTHER -> "base32"

get_segment_desc(seg) == [present |-> seg # "LDTR" \/ host.ldt]

\* A segment is usable when its descriptor is present.
vmx_segment_access_rights(desc) == desc.present

vmx_set_segment(g, seg) ==
  [g EXCEPT !.base[seg] = get_segment_base(seg),
            !.usable[seg] = vmx_segment_access_rights(get_segment_desc(seg))]

\* vmx_set_idt and vmx_set_gdt, with the processor's own tables.
vmx_set_gdt(g) == [g EXCEPT !.tables = "host"]

vmx_set_rflags(g) == [g EXCEPT !.GUEST_RFLAGS = "host"]

\* The descriptor tables, the flags, every segment; then init_vmcs, which
\* clears three bases.
__vmx_vcpu_reset(g) ==
  [vmx_set_rflags(vmx_set_gdt(g)) EXCEPT
     !.usable = [s \in Segment |-> vmx_segment_access_rights(get_segment_desc(s))],
     !.base = [s \in Segment |->
                 IF s \in {"ES", "SS", "DS"} THEN "zero" ELSE get_segment_base(s)]]

\* Mutant: FS and GS keep the bases of their descriptors.
ResetWithoutMsrBases(g) ==
  LET set == [__vmx_vcpu_reset(g) EXCEPT !.base["CS"] = "zero"]
  IN  vmx_set_segment(vmx_set_segment(set, "TR"), "LDTR")

\* The code segment, TR and LDTR once more, and the bases kept in MSRs.
vmx_vcpu_reset(g) ==
  LET set == [__vmx_vcpu_reset(g) EXCEPT !.base["CS"] = "zero"]
      system == vmx_set_segment(vmx_set_segment(set, "TR"), "LDTR")
  IN  [system EXCEPT !.base["FS"] = "msr", !.base["GS"] = "msr"]

ResetCr0 == HostCr0 \cup {"ET", "NW", "CD"}

Assign(v, dirty, next) ==
  /\ arch' = v.arch /\ vmcs' = v.vmcs /\ regs_avail' = v.avail
  /\ regs_dirty' = dirty /\ mode' = next /\ UNCHANGED host

\* Mutant: CR4 is set while the vCPU does not page yet.
ResetCr4First ==
  LET v == [Vcpu EXCEPT !.vmcs = vmx_vcpu_reset(vmcs), !.arch.cr3 = "host",
                        !.avail = @ \cup {"CR3"}]
  IN  /\ mode = "new"
      /\ Assign(vmx_set_cr0(vmx_set_cr4(v, host.cr4), ResetCr0), regs_dirty \cup {"CR3"}, "reset")

\* CR0 before CR4: vmx_set_cr4 asks whether the vCPU pages.
kvm_vcpu_reset ==
  LET v == [Vcpu EXCEPT !.vmcs = vmx_vcpu_reset(vmcs), !.arch.cr3 = "host",
                        !.avail = @ \cup {"CR3"}]
  IN  /\ mode = "new"
      /\ Assign(vmx_set_cr4(vmx_set_cr0(v, ResetCr0), host.cr4), regs_dirty \cup {"CR3"}, "reset")

-----------------------------------------------------------------------------
\* Entry, the guest, and exits.

\* Before every entry.  The identity map address of the VM is 0.
vmx_load_mmu_pgd(v) ==
  IF ~is_paging(v) THEN [v EXCEPT !.vmcs.GUEST_CR3 = "zero"]
  ELSE IF "CR3" \in regs_dirty THEN [v EXCEPT !.vmcs.GUEST_CR3 = v.arch.cr3]
  ELSE v

\* kvm_mmu_reload, then vmx_vcpu_run up to the entry, which may fail.
vmx_vcpu_run ==
  /\ mode \in {"reset", "root"}
  /\ \/ Assign(vmx_load_mmu_pgd(Vcpu), {}, "guest")
     \/ Assign([vmx_load_mmu_pgd(Vcpu) EXCEPT !.avail = @ \ VMX_REGS_LAZY_LOAD_SET], {}, "root")

\* kvm_mmu_reload fails before it loads the root: nothing is written.
ReloadFails ==
  /\ mode = "reset" /\ mode' = "root"
  /\ UNCHANGED <<host, arch, regs_avail, regs_dirty, vmcs>>

\* The guest flips a bit it owns: no exit.
GuestWrites ==
  /\ mode = "guest"
  /\ \E b \in OwnedTried :
       LET Flip(cr) == IF b \in cr THEN cr \ {b} ELSE cr \cup {b}
       IN  vmcs' = IF b \in vmx_l1_guest_owned_cr0_bits
                   THEN [vmcs EXCEPT !.GUEST_CR0 = Flip(@)]
                   ELSE [vmcs EXCEPT !.GUEST_CR4 = Flip(@)]
  /\ UNCHANGED <<host, arch, regs_avail, regs_dirty, mode>>

\* A VM exit: the processor writes its qualification, vmx_vcpu_run forgets
\* what it had cached.
VmExit ==
  /\ mode = "guest" /\ mode' = "exited"
  /\ \E q \in Qualification : vmcs' = [vmcs EXCEPT !.EXIT_QUALIFICATION = q]
  /\ regs_avail' = regs_avail \ VMX_REGS_LAZY_LOAD_SET
  /\ UNCHANGED <<host, arch, regs_dirty>>

\* handle_cr, for which the register of every MOV to CR0 holds 0, and the
\* handlers that read the qualification only.
handle_cr ==
  LET qual == vmx_get_exit_qual(Vcpu)
      read == [Vcpu EXCEPT !.arch.exit_qualification = qual, !.avail = @ \cup {"EXIT_INFO_1"}]
  IN  /\ mode = "exited"
      /\ Assign(IF qual = "mov to cr0" THEN kvm_set_cr0(read, {}) ELSE read, regs_dirty, "root")

\* The other handlers do not look at it.
OtherHandler ==
  /\ mode = "exited" /\ vmcs.EXIT_QUALIFICATION = "other" /\ mode' = "root"
  /\ UNCHANGED <<host, arch, regs_avail, regs_dirty, vmcs>>

Next ==
  kvm_vcpu_reset \/ vmx_vcpu_run \/ ReloadFails \/ GuestWrites \/ VmExit \/ handle_cr
    \/ OtherHandler

Spec == Init /\ [][Next]_vars

-----------------------------------------------------------------------------
\* Properties

\* In the guest the control registers are what a 64-bit guest without
\* unrestricted mode must have, whatever it did to CR0 before.
GuestStateValid ==
  mode = "guest" =>
    /\ {"PE", "PG", "NE"} \subseteq vmcs.GUEST_CR0
    /\ {"PAE", "VMXE"} \subseteq vmcs.GUEST_CR4
    /\ vmcs.usable["TR"]

\* The guest is the system that created the vCPU, going on: its segments start
\* with the bases the processor really uses in 64-bit mode, its control
\* registers read as the processor's (CD and NW aside, which reset adds, and TS,
\* which vmx_set_cr0 turns on), and it keeps the processor's CR3 as long as it
\* has paging on.
GuestContinuesHost ==
  /\ mode = "reset" =>
       /\ \A s \in {"ES", "CS", "SS", "DS"} : vmcs.base[s] = "zero"
       /\ \A s \in {"FS", "GS"} : vmcs.base[s] = "msr"
       /\ vmcs.base["TR"] = "base64"
       /\ (vmcs.base["LDTR"] = "base64") <=> host.ldt
       /\ vmcs.CR4_READ_SHADOW = host.cr4
       /\ vmcs.CR0_READ_SHADOW \ KVM_VM_CR0_ALWAYS_OFF = HostCr0
       /\ vmcs.GUEST_CR4 = host.cr4
  /\ mode = "guest" /\ "PG" \in vmcs.CR0_READ_SHADOW => vmcs.GUEST_CR3 = "host"

\* What the guest reads from a control register.
GuestView(field, shadow, owned) == (field \cap owned) \cup (shadow \ owned)

\* After an exit the accessors of the cached registers return what the guest
\* has now: the qualification of this exit, and CR0 and CR4 as the guest reads
\* them.  While vmx_set_cr0 has CR0 marked available the two owned bits, which
\* it turns on in the VMCS only, are excepted.
AccessorsAgree ==
  mode \in {"exited", "root"} =>
    /\ "EXIT_INFO_1" \in regs_avail => arch.exit_qualification = vmcs.EXIT_QUALIFICATION
    /\ kvm_read_cr4_bits(Vcpu, Cr4Bit)
         = GuestView(vmcs.GUEST_CR4, vmcs.CR4_READ_SHADOW, cr4_guest_owned_bits)
    /\ LET excepted == IF "CR0" \in regs_avail THEN vmx_l1_guest_owned_cr0_bits ELSE {}
       IN  kvm_read_cr0_bits(Vcpu, Cr0Bit) \ excepted
             = GuestView(vmcs.GUEST_CR0, vmcs.CR0_READ_SHADOW, vmx_l1_guest_owned_cr0_bits)
                 \ excepted

=============================================================================
