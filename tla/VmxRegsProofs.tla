---------------------------- MODULE VmxRegsProofs ----------------------------
(***************************************************************************)
(* Proofs about VmxRegs, for any CR4 of the processor with PAE and VMXE on *)
(* (PCIDs and supervisor-mode protection on or off), any guest-owned bits  *)
(* the guest flips and any exit qualifications.                            *)
(***************************************************************************)
EXTENDS VmxRegs, TLAPS

Arch == [cr0 : SUBSET Cr0Bit, cr3 : {"zero", "host"}, cr4 : SUBSET Cr4Bit,
         exit_qualification : Qualification \cup {"none"}]

Vmcs == [GUEST_CR0 : SUBSET Cr0Bit, CR0_READ_SHADOW : SUBSET Cr0Bit,
         GUEST_CR3 : {"zero", "host"},
         GUEST_CR4 : SUBSET Cr4Bit, CR4_READ_SHADOW : SUBSET Cr4Bit,
         EXIT_QUALIFICATION : Qualification \cup {"none"},
         tables : {"zero", "host"}, GUEST_RFLAGS : {"zero", "host"},
         base : [Segment -> Base], usable : [Segment -> BOOLEAN]]

TypeInv ==
  /\ host \in [cr4 : HostCr4, ldt : BOOLEAN]
  /\ arch \in Arch
  /\ vmcs \in Vmcs
  /\ regs_avail \in SUBSET ExReg /\ regs_dirty \in SUBSET regs_avail
  /\ mode \in {"new", "reset", "root", "guest", "exited"}

\* What the vCPU holds of CR0, CR3 and CR4 is what the VMCS shows the guest.
ShadowInv ==
  /\ vmcs.CR0_READ_SHADOW = arch.cr0
  /\ vmcs.CR4_READ_SHADOW = arch.cr4
  /\ mode = "new" => arch.exit_qualification = "none" /\ vmcs.EXIT_QUALIFICATION = "none"

\* Reset is done once; the guest can neither leave paging nor 64-bit mode in the
\* fields the processor runs with, and loses CR3 only with PG in its shadow.
ResetInv ==
  mode # "new" =>
    /\ {"PE", "PG", "NE"} \subseteq vmcs.GUEST_CR0
    /\ {"PAE", "VMXE"} \subseteq vmcs.GUEST_CR4
    /\ vmcs.usable["TR"]
    /\ arch.cr3 = "host"
    /\ "PG" \in arch.cr0 => "CR3" \in regs_dirty \/ vmcs.GUEST_CR3 = "host"
    /\ mode = "guest" => regs_dirty = {}

\* A register marked available is the one the guest has, outside the guest.
CacheInv ==
  mode \in {"reset", "root", "exited"} =>
    /\ "EXIT_INFO_1" \in regs_avail => arch.exit_qualification = vmcs.EXIT_QUALIFICATION
    /\ "CR4" \in regs_avail =>
         vmcs.GUEST_CR4 \cap cr4_guest_owned_bits = arch.cr4 \cap cr4_guest_owned_bits

\* The inductive invariant.
IndInv == TypeInv /\ ShadowInv /\ ResetInv /\ CacheInv /\ GuestContinuesHost

-----------------------------------------------------------------------------
(***************************************************************************)
(* What the operators on a vCPU write                                      *)
(***************************************************************************)
VcpuSet == [arch : Arch, avail : SUBSET ExReg, vmcs : Vmcs]

\* vmx_set_cr0 writes CR0 and its shadow, and nothing else.
LEMMA Cr0Written ==
  ASSUME NEW v \in VcpuSet, NEW cr0 \in SUBSET Cr0Bit
  PROVE  /\ vmx_set_cr0(v, cr0) \in VcpuSet
         /\ vmx_set_cr0(v, cr0).arch = [v.arch EXCEPT !.cr0 = cr0]
         /\ vmx_set_cr0(v, cr0).avail = v.avail \cup {"CR0"}
         /\ vmx_set_cr0(v, cr0).vmcs =
              [v.vmcs EXCEPT !.CR0_READ_SHADOW = cr0,
                 !.GUEST_CR0 = (cr0 \ KVM_VM_CR0_ALWAYS_OFF) \cup KVM_VM_CR0_ALWAYS_ON]
<1> DEFINE w == vmx_set_cr0(v, cr0)
<1>1. v.arch \in Arch /\ v.avail \in SUBSET ExReg /\ v.vmcs \in Vmcs
  BY DEF VcpuSet
<1>2. w.arch = [v.arch EXCEPT !.cr0 = cr0]
  BY <1>1 DEF vmx_set_cr0, VcpuSet
<1>3. w.avail = v.avail \cup {"CR0"}
  BY <1>1 DEF vmx_set_cr0, VcpuSet
<1>4. w.vmcs = [v.vmcs EXCEPT !.CR0_READ_SHADOW = cr0,
                 !.GUEST_CR0 = (cr0 \ KVM_VM_CR0_ALWAYS_OFF) \cup KVM_VM_CR0_ALWAYS_ON]
  BY <1>1 DEF vmx_set_cr0, VcpuSet
<1>5. (cr0 \ KVM_VM_CR0_ALWAYS_OFF) \cup KVM_VM_CR0_ALWAYS_ON \in SUBSET Cr0Bit
  BY DEF KVM_VM_CR0_ALWAYS_ON, Cr0Bit
<1>6. w.arch \in Arch
  BY <1>1, <1>2 DEF Arch
<1>7. w.avail \in SUBSET ExReg
  BY <1>1, <1>3 DEF ExReg
<1>8. w.vmcs \in Vmcs
  BY <1>1, <1>4, <1>5 DEF Vmcs
<1>9. w \in VcpuSet
  BY <1>6, <1>7, <1>8 DEF vmx_set_cr0, VcpuSet
<1> QED BY <1>2, <1>3, <1>4, <1>9

\* PG is not owned by the guest: whether the vCPU pages is in arch.cr0.
LEMMA Paging ==
  ASSUME NEW v \in VcpuSet PROVE is_paging(v) <=> "PG" \in v.arch.cr0
<1>1. {"PG"} \cap vmx_l1_guest_owned_cr0_bits = {}
  BY DEF vmx_l1_guest_owned_cr0_bits
<1>2. kvm_read_cr0_bits(v, {"PG"}) = {"PG"} \cap v.arch.cr0
  BY <1>1 DEF kvm_read_cr0_bits
<1> QED BY <1>2 DEF is_paging

\* vmx_set_cr4 gives a vCPU that pages the CR4 of the processor as it is.
LEMMA Cr4Written ==
  ASSUME NEW v \in VcpuSet, NEW cr4 \in SUBSET Cr4Bit, {"PAE", "VMXE"} \subseteq cr4,
         "PG" \in v.arch.cr0
  PROVE  /\ vmx_set_cr4(v, cr4) \in VcpuSet
         /\ vmx_set_cr4(v, cr4).arch = [v.arch EXCEPT !.cr4 = cr4]
         /\ vmx_set_cr4(v, cr4).avail = v.avail
         /\ vmx_set_cr4(v, cr4).vmcs =
              [v.vmcs EXCEPT !.CR4_READ_SHADOW = cr4, !.GUEST_CR4 = cr4]
<1> DEFINE w == [v EXCEPT !.vmcs.CR4_READ_SHADOW = cr4, !.vmcs.GUEST_CR4 = cr4,
                          !.arch.cr4 = cr4]
<1>1. v.arch \in Arch /\ v.avail \in SUBSET ExReg /\ v.vmcs \in Vmcs
  BY DEF VcpuSet
<1>2. cr4 \cup KVM_PMODE_VM_CR4_ALWAYS_ON = cr4
  BY DEF KVM_PMODE_VM_CR4_ALWAYS_ON
<1>3. is_paging(v) /\ "PAE" \in cr4
  BY Paging
<1>4. vmx_set_cr4(v, cr4) = w
  BY <1>2, <1>3 DEF vmx_set_cr4
<1>5. w.arch = [v.arch EXCEPT !.cr4 = cr4]
  BY <1>1 DEF VcpuSet
<1>6. w.avail = v.avail
  BY <1>1 DEF VcpuSet
<1>7. w.vmcs = [v.vmcs EXCEPT !.CR4_READ_SHADOW = cr4, !.GUEST_CR4 = cr4]
  BY <1>1 DEF VcpuSet
<1> HIDE DEF w
<1>8. w.arch \in Arch
  BY <1>1, <1>5 DEF Arch
<1>9. w.vmcs \in Vmcs
  BY <1>1, <1>7 DEF Vmcs
<1>10. w \in VcpuSet
  BY <1>1, <1>6, <1>8, <1>9 DEF w, VcpuSet
<1> QED BY <1>4, <1>5, <1>6, <1>7, <1>10

\* vmx_vcpu_reset gives every segment the base the processor uses in 64-bit
\* mode and leaves the control registers, CR3 and the qualification alone.
LEMMA ResetWritten ==
  ASSUME NEW g \in Vmcs, host \in [cr4 : HostCr4, ldt : BOOLEAN]
  PROVE  /\ vmx_vcpu_reset(g) \in Vmcs
         /\ vmx_vcpu_reset(g).usable["TR"]
         /\ \A s \in {"ES", "CS", "SS", "DS"} : vmx_vcpu_reset(g).base[s] = "zero"
         /\ \A s \in {"FS", "GS"} : vmx_vcpu_reset(g).base[s] = "msr"
         /\ vmx_vcpu_reset(g).base["TR"] = "base64"
         /\ (vmx_vcpu_reset(g).base["LDTR"] = "base64") <=> host.ldt
         /\ vmx_vcpu_reset(g).GUEST_CR3 = g.GUEST_CR3
         /\ vmx_vcpu_reset(g).EXIT_QUALIFICATION = g.EXIT_QUALIFICATION
<1> DEFINE Up == [s \in Segment |-> vmx_segment_access_rights(get_segment_desc(s))]
           Bs == [s \in Segment |->
                    IF s \in {"ES", "SS", "DS"} THEN "zero" ELSE get_segment_base(s)]
           a == __vmx_vcpu_reset(g)
           b == [a EXCEPT !.base["CS"] = "zero"]
           c == vmx_set_segment(b, "TR")
           d == vmx_set_segment(c, "LDTR")
           r == [d EXCEPT !.base["FS"] = "msr", !.base["GS"] = "msr"]
<1>1. Up \in [Segment -> BOOLEAN] /\ Up["TR"]
  BY DEF vmx_segment_access_rights, get_segment_desc, Segment
<1>2. \A s \in Segment : get_segment_base(s) \in Base
  BY DEF get_segment_base, Base
<1>3. Bs \in [Segment -> Base]
  BY <1>2 DEF Base
<1>4. a \in Vmcs /\ a.usable = Up /\ a.base = Bs /\ a.GUEST_CR3 = g.GUEST_CR3
        /\ a.EXIT_QUALIFICATION = g.EXIT_QUALIFICATION
  BY <1>1, <1>3 DEF __vmx_vcpu_reset, vmx_set_rflags, vmx_set_gdt, Vmcs
<1> HIDE DEF a, Up, Bs
<1>5. b = [a EXCEPT !.base = [a.base EXCEPT !["CS"] = "zero"]]
  OBVIOUS
<1>6. [a.base EXCEPT !["CS"] = "zero"] \in [Segment -> Base]
  BY <1>3, <1>4 DEF Base
<1>7. /\ b \in Vmcs /\ b.usable = Up /\ b.base = [Bs EXCEPT !["CS"] = "zero"]
      /\ b.GUEST_CR3 = g.GUEST_CR3 /\ b.EXIT_QUALIFICATION = g.EXIT_QUALIFICATION
  BY <1>4, <1>5, <1>6 DEF Vmcs
<1> HIDE DEF b
<1>8. \A x \in Vmcs, s \in Segment :
        /\ vmx_set_segment(x, s) \in Vmcs
        /\ vmx_set_segment(x, s).base = [x.base EXCEPT ![s] = get_segment_base(s)]
        /\ vmx_set_segment(x, s).usable =
             [x.usable EXCEPT ![s] = vmx_segment_access_rights(get_segment_desc(s))]
        /\ vmx_set_segment(x, s).GUEST_CR3 = x.GUEST_CR3
        /\ vmx_set_segment(x, s).EXIT_QUALIFICATION = x.EXIT_QUALIFICATION
  <2> SUFFICES ASSUME NEW x \in Vmcs, NEW s \in Segment
               PROVE  /\ vmx_set_segment(x, s) \in Vmcs
                      /\ vmx_set_segment(x, s).base = [x.base EXCEPT ![s] = get_segment_base(s)]
                      /\ vmx_set_segment(x, s).usable =
                           [x.usable EXCEPT ![s] = vmx_segment_access_rights(get_segment_desc(s))]
                      /\ vmx_set_segment(x, s).GUEST_CR3 = x.GUEST_CR3
                      /\ vmx_set_segment(x, s).EXIT_QUALIFICATION = x.EXIT_QUALIFICATION
    OBVIOUS
  <2> DEFINE ba == [x.base EXCEPT ![s] = get_segment_base(s)]
             us == [x.usable EXCEPT ![s] = vmx_segment_access_rights(get_segment_desc(s))]
  <2>1. vmx_segment_access_rights(get_segment_desc(s)) \in BOOLEAN
    BY DEF vmx_segment_access_rights, get_segment_desc
  <2>2. x.base \in [Segment -> Base] /\ x.usable \in [Segment -> BOOLEAN]
    BY DEF Vmcs
  <2>3. ba \in [Segment -> Base] /\ us \in [Segment -> BOOLEAN]
    BY <1>2, <2>1, <2>2
  <2>4. vmx_set_segment(x, s) = [x EXCEPT !.base = ba, !.usable = us]
    BY DEF vmx_set_segment
  <2> HIDE DEF ba, us
  <2>5. /\ [x EXCEPT !.base = ba, !.usable = us] \in Vmcs
        /\ [x EXCEPT !.base = ba, !.usable = us].base = ba
        /\ [x EXCEPT !.base = ba, !.usable = us].usable = us
        /\ [x EXCEPT !.base = ba, !.usable = us].GUEST_CR3 = x.GUEST_CR3
        /\ [x EXCEPT !.base = ba, !.usable = us].EXIT_QUALIFICATION = x.EXIT_QUALIFICATION
    BY <2>3 DEF Vmcs
  <2> QED BY <2>4, <2>5 DEF ba, us
<1>9. /\ c \in Vmcs /\ c.base = [b.base EXCEPT !["TR"] = get_segment_base("TR")]
      /\ c.usable = [Up EXCEPT !["TR"] = vmx_segment_access_rights(get_segment_desc("TR"))]
      /\ c.GUEST_CR3 = g.GUEST_CR3 /\ c.EXIT_QUALIFICATION = g.EXIT_QUALIFICATION
  BY <1>7, <1>8 DEF Segment
<1> HIDE DEF c
<1>10. /\ d \in Vmcs /\ d.base = [c.base EXCEPT !["LDTR"] = get_segment_base("LDTR")]
       /\ d.usable = [c.usable EXCEPT !["LDTR"] =
                         vmx_segment_access_rights(get_segment_desc("LDTR"))]
       /\ d.GUEST_CR3 = g.GUEST_CR3 /\ d.EXIT_QUALIFICATION = g.EXIT_QUALIFICATION
  BY <1>8, <1>9 DEF Segment
<1> HIDE DEF d
<1>11. r = [d EXCEPT !.base = [d.base EXCEPT !["FS"] = "msr", !["GS"] = "msr"]]
  OBVIOUS
<1>12. d.base \in [Segment -> Base]
  BY <1>10 DEF Vmcs
<1>13. [d.base EXCEPT !["FS"] = "msr", !["GS"] = "msr"] \in [Segment -> Base]
  BY <1>12 DEF Base
<1>14. /\ r \in Vmcs /\ r.base = [d.base EXCEPT !["FS"] = "msr", !["GS"] = "msr"]
       /\ r.usable = d.usable
       /\ r.GUEST_CR3 = g.GUEST_CR3 /\ r.EXIT_QUALIFICATION = g.EXIT_QUALIFICATION
  BY <1>10, <1>11, <1>13 DEF Vmcs
<1>15. r.usable["TR"]
  BY <1>1, <1>9, <1>10, <1>14 DEF Segment, vmx_segment_access_rights, get_segment_desc
<1>16. vmx_vcpu_reset(g) = r
  BY DEF vmx_vcpu_reset, a, b, c, d
<1> HIDE DEF r
<1>17. /\ r.base["FS"] = "msr" /\ r.base["GS"] = "msr"
       /\ r.base["TR"] = get_segment_base("TR")
       /\ r.base["LDTR"] = get_segment_base("LDTR")
       /\ \A s \in {"ES", "SS", "DS"} : r.base[s] = Bs[s]
       /\ r.base["CS"] = "zero"
  BY <1>3, <1>7, <1>9, <1>10, <1>12, <1>14 DEF Segment
<1>18. \A s \in {"ES", "SS", "DS"} : Bs[s] = "zero"
  BY DEF Segment, Bs
<1>19. get_segment_base("TR") = "base64"
  BY DEF get_segment_base
<1>20. (get_segment_base("LDTR") = "base64") <=> host.ldt
  <2>1. host.ldt \in BOOLEAN
    OBVIOUS
  <2>2. CASE host.ldt
    <3>1. get_segment_base("LDTR") = "base64"
      BY <2>2 DEF get_segment_base
    <3> QED BY <2>2, <3>1
  <2>3. CASE ~ host.ldt
    <3>1. get_segment_base("LDTR") = "zero"
      BY <2>3 DEF get_segment_base
    <3>2. get_segment_base("LDTR") # "base64"
      BY <3>1
    <3> QED BY <2>3, <3>2
  <2> QED BY <2>1, <2>2, <2>3
<1> QED BY <1>14, <1>15, <1>16, <1>17, <1>18, <1>19, <1>20

-----------------------------------------------------------------------------
(***************************************************************************)
(* The steps                                                               *)
(***************************************************************************)

\* A new vCPU satisfies the invariant.
LEMMA InitInv == Init => IndInv
<1> SUFFICES ASSUME Init PROVE IndInv
  OBVIOUS
<1>1. TypeInv
  BY DEF Init, TypeInv, Arch, Vmcs, Base
<1>2. ShadowInv /\ ResetInv /\ CacheInv /\ GuestContinuesHost
  BY DEF Init, ShadowInv, ResetInv, CacheInv, GuestContinuesHost
<1> QED BY <1>1, <1>2 DEF IndInv

\* The vCPU of the state is one the operators take.
LEMMA VcpuTyped == TypeInv => Vcpu \in VcpuSet /\ Vcpu.arch = arch
                             /\ Vcpu.avail = regs_avail /\ Vcpu.vmcs = vmcs
BY DEF TypeInv, Vcpu, VcpuSet

\* Reset takes over the processor: CR0 is set before CR4, so that the vCPU pages
\* when vmx_set_cr4 looks.
LEMMA ResetStep == IndInv /\ kvm_vcpu_reset => IndInv'
<1> SUFFICES ASSUME IndInv, kvm_vcpu_reset PROVE IndInv'
  OBVIOUS
<1> DEFINE g == vmx_vcpu_reset(vmcs)
           v == [Vcpu EXCEPT !.vmcs = g, !.arch.cr3 = "host", !.avail = @ \cup {"CR3"}]
           w == vmx_set_cr0(v, ResetCr0)
           x == vmx_set_cr4(w, host.cr4)
<1>1. /\ mode = "new" /\ mode' = "reset" /\ host' = host
      /\ arch' = x.arch /\ vmcs' = x.vmcs /\ regs_avail' = x.avail
      /\ regs_dirty' = regs_dirty \cup {"CR3"}
  BY DEF kvm_vcpu_reset, Assign
<1>2. /\ Vcpu \in VcpuSet /\ Vcpu.arch = arch /\ Vcpu.avail = regs_avail
      /\ Vcpu.vmcs = vmcs /\ vmcs \in Vmcs /\ arch \in Arch /\ regs_avail \in SUBSET ExReg
      /\ host \in [cr4 : HostCr4, ldt : BOOLEAN]
  BY VcpuTyped DEF IndInv, TypeInv
<1>3. host.cr4 \in SUBSET Cr4Bit /\ {"PAE", "VMXE"} \subseteq host.cr4
  BY <1>2, HostAssumption
<1>4. /\ g \in Vmcs /\ g.usable["TR"]
      /\ \A s \in {"ES", "CS", "SS", "DS"} : g.base[s] = "zero"
      /\ \A s \in {"FS", "GS"} : g.base[s] = "msr"
      /\ g.base["TR"] = "base64"
      /\ (g.base["LDTR"] = "base64") <=> host.ldt
      /\ g.GUEST_CR3 = vmcs.GUEST_CR3
      /\ g.EXIT_QUALIFICATION = vmcs.EXIT_QUALIFICATION
  BY <1>2, ResetWritten
<1> HIDE DEF g
<1>5. /\ v.arch = [arch EXCEPT !.cr3 = "host"] /\ v.vmcs = g
      /\ v.avail = regs_avail \cup {"CR3"}
  BY <1>2 DEF Vcpu
<1>6. v.arch \in Arch
  BY <1>2, <1>5 DEF Arch
<1>7. v \in VcpuSet
  BY <1>2, <1>4, <1>5, <1>6 DEF VcpuSet, ExReg
<1> HIDE DEF v
<1>8. ResetCr0 \in SUBSET Cr0Bit /\ "PG" \in ResetCr0
  BY DEF ResetCr0, HostCr0, Cr0Bit
<1>9. /\ w \in VcpuSet /\ w.arch = [v.arch EXCEPT !.cr0 = ResetCr0]
      /\ w.avail = v.avail \cup {"CR0"}
      /\ w.vmcs = [v.vmcs EXCEPT !.CR0_READ_SHADOW = ResetCr0,
            !.GUEST_CR0 = (ResetCr0 \ KVM_VM_CR0_ALWAYS_OFF) \cup KVM_VM_CR0_ALWAYS_ON]
  BY <1>7, <1>8, Cr0Written
<1> HIDE DEF w
<1>10. "PG" \in w.arch.cr0
  BY <1>6, <1>8, <1>9 DEF Arch
<1>11. /\ x \in VcpuSet /\ x.arch = [w.arch EXCEPT !.cr4 = host.cr4]
       /\ x.avail = w.avail
       /\ x.vmcs = [w.vmcs EXCEPT !.CR4_READ_SHADOW = host.cr4, !.GUEST_CR4 = host.cr4]
  <2>1. \A h \in SUBSET Cr4Bit : {"PAE", "VMXE"} \subseteq h =>
          /\ vmx_set_cr4(w, h) \in VcpuSet
          /\ vmx_set_cr4(w, h).arch = [w.arch EXCEPT !.cr4 = h]
          /\ vmx_set_cr4(w, h).avail = w.avail
          /\ vmx_set_cr4(w, h).vmcs =
               [w.vmcs EXCEPT !.CR4_READ_SHADOW = h, !.GUEST_CR4 = h]
    BY <1>9, <1>10, Cr4Written
  <2> QED BY <1>3, <2>1
<1> HIDE DEF x
<1>12. /\ w.arch \in Arch /\ w.vmcs \in Vmcs /\ x.arch \in Arch /\ x.vmcs \in Vmcs
       /\ x.avail \in SUBSET ExReg
  BY <1>9, <1>11 DEF VcpuSet
<1>13. /\ x.arch.cr0 = ResetCr0 /\ x.arch.cr3 = "host" /\ x.arch.cr4 = host.cr4
       /\ x.arch.exit_qualification = arch.exit_qualification
  BY <1>2, <1>5, <1>6, <1>9, <1>11, <1>12 DEF Arch
<1>14. /\ w.vmcs.GUEST_CR0 = (ResetCr0 \ KVM_VM_CR0_ALWAYS_OFF) \cup KVM_VM_CR0_ALWAYS_ON
       /\ w.vmcs.CR0_READ_SHADOW = ResetCr0 /\ w.vmcs.usable = g.usable
       /\ w.vmcs.base = g.base /\ w.vmcs.GUEST_CR3 = g.GUEST_CR3
       /\ w.vmcs.EXIT_QUALIFICATION = g.EXIT_QUALIFICATION
  BY <1>4, <1>5, <1>9 DEF Vmcs
<1>15. /\ x.vmcs.GUEST_CR0 = (ResetCr0 \ KVM_VM_CR0_ALWAYS_OFF) \cup KVM_VM_CR0_ALWAYS_ON
       /\ x.vmcs.CR0_READ_SHADOW = ResetCr0 /\ x.vmcs.usable = g.usable
       /\ x.vmcs.base = g.base /\ x.vmcs.GUEST_CR3 = g.GUEST_CR3
       /\ x.vmcs.EXIT_QUALIFICATION = g.EXIT_QUALIFICATION
       /\ x.vmcs.GUEST_CR4 = host.cr4 /\ x.vmcs.CR4_READ_SHADOW = host.cr4
  BY <1>11, <1>12, <1>14 DEF Vmcs
<1>16. TypeInv'
  <2>1. regs_dirty' \in SUBSET regs_avail'
    BY <1>1, <1>5, <1>9, <1>11 DEF IndInv, TypeInv
  <2> QED BY <1>1, <1>2, <1>12, <2>1 DEF TypeInv
<1>17. ShadowInv'
  BY <1>1, <1>13, <1>15 DEF ShadowInv
<1>18. {"PE", "PG", "NE"} \subseteq vmcs'.GUEST_CR0
  BY <1>1, <1>15 DEF KVM_VM_CR0_ALWAYS_ON
<1>19. ResetInv'
  BY <1>1, <1>3, <1>4, <1>13, <1>15, <1>18 DEF ResetInv
<1>20. CacheInv'
  BY <1>1, <1>4, <1>13, <1>15 DEF CacheInv, IndInv, ShadowInv
<1>21. GuestContinuesHost'
  <2>1. ResetCr0 \ KVM_VM_CR0_ALWAYS_OFF = HostCr0
    BY DEF ResetCr0, HostCr0, KVM_VM_CR0_ALWAYS_OFF
  <2>2. vmcs'.base = g.base /\ vmcs'.CR4_READ_SHADOW = host'.cr4
          /\ vmcs'.CR0_READ_SHADOW = ResetCr0 /\ vmcs'.GUEST_CR4 = host'.cr4
    BY <1>1, <1>15
  <2>3. (vmcs'.base["LDTR"] = "base64") <=> host'.ldt
    BY <1>1, <1>4, <2>2
  <2> QED BY <1>1, <1>4, <2>1, <2>2, <2>3 DEF GuestContinuesHost
<1> QED BY <1>16, <1>17, <1>19, <1>20, <1>21 DEF IndInv

\* The marks on the registers after an entry that fails or an exit.
LEMMA LazyForgotten == ExReg \ VMX_REGS_LAZY_LOAD_SET = {}
BY DEF VMX_REGS_LAZY_LOAD_SET

\* vmx_load_mmu_pgd writes GUEST_CR3: the guest that pages keeps the CR3 of the
\* processor.
LEMMA RunStep == IndInv /\ vmx_vcpu_run => IndInv'
<1> SUFFICES ASSUME IndInv, vmx_vcpu_run PROVE IndInv'
  OBVIOUS
<1> DEFINE v == vmx_load_mmu_pgd(Vcpu)
<1>1. /\ Vcpu \in VcpuSet /\ Vcpu.arch = arch /\ Vcpu.avail = regs_avail
      /\ Vcpu.vmcs = vmcs /\ vmcs \in Vmcs /\ arch \in Arch /\ regs_avail \in SUBSET ExReg
      /\ host \in [cr4 : HostCr4, ldt : BOOLEAN]
  BY VcpuTyped DEF IndInv, TypeInv
<1>2. PICK c \in {"zero", "host"} :
        /\ v.arch = arch /\ v.avail = regs_avail /\ v.vmcs = [vmcs EXCEPT !.GUEST_CR3 = c]
        /\ "PG" \in arch.cr0 => c = IF "CR3" \in regs_dirty THEN arch.cr3 ELSE vmcs.GUEST_CR3
  <2>1. is_paging(Vcpu) <=> "PG" \in arch.cr0
    BY <1>1, Paging
  <2>2. \A c : LET u == [Vcpu EXCEPT !.vmcs.GUEST_CR3 = c]
               IN  u.arch = arch /\ u.avail = regs_avail
                     /\ u.vmcs = [vmcs EXCEPT !.GUEST_CR3 = c]
    BY <1>1 DEF Vcpu
  <2>3. CASE ~ is_paging(Vcpu)
    BY <2>1, <2>2, <2>3 DEF vmx_load_mmu_pgd
  <2>4. CASE is_paging(Vcpu) /\ "CR3" \in regs_dirty
    <3>1. arch.cr3 \in {"zero", "host"}
      BY <1>1 DEF Arch
    <3> QED BY <1>1, <2>2, <2>4, <3>1 DEF vmx_load_mmu_pgd
  <2>5. CASE is_paging(Vcpu) /\ "CR3" \notin regs_dirty
    <3>1. vmcs.GUEST_CR3 \in {"zero", "host"} /\ vmcs = [vmcs EXCEPT !.GUEST_CR3 = vmcs.GUEST_CR3]
      BY <1>1 DEF Vmcs
    <3> QED BY <1>1, <2>5, <3>1 DEF vmx_load_mmu_pgd
  <2> QED BY <2>3, <2>4, <2>5
<1> HIDE DEF v
<1>3. /\ v.vmcs \in Vmcs /\ v.vmcs.GUEST_CR3 = c
      /\ v.vmcs.GUEST_CR0 = vmcs.GUEST_CR0 /\ v.vmcs.GUEST_CR4 = vmcs.GUEST_CR4
      /\ v.vmcs.CR0_READ_SHADOW = vmcs.CR0_READ_SHADOW
      /\ v.vmcs.CR4_READ_SHADOW = vmcs.CR4_READ_SHADOW
      /\ v.vmcs.EXIT_QUALIFICATION = vmcs.EXIT_QUALIFICATION
      /\ v.vmcs.usable = vmcs.usable
  BY <1>1, <1>2 DEF Vmcs
<1>4. /\ mode \in {"reset", "root"} /\ host' = host
      /\ arch' = arch /\ vmcs' = v.vmcs /\ regs_dirty' = {}
      /\ \/ mode' = "guest" /\ regs_avail' = regs_avail
         \/ mode' = "root" /\ regs_avail' = regs_avail \ VMX_REGS_LAZY_LOAD_SET
  <2>1. CASE Assign(v, {}, "guest")
    BY <1>2, <2>1 DEF vmx_vcpu_run, Assign
  <2>2. CASE Assign([v EXCEPT !.avail = @ \ VMX_REGS_LAZY_LOAD_SET], {}, "root")
    <3> DEFINE u == [v EXCEPT !.avail = @ \ VMX_REGS_LAZY_LOAD_SET]
    <3>1. v = [arch |-> v.arch, avail |-> v.avail, vmcs |-> v.vmcs]
      BY <1>1 DEF v, vmx_load_mmu_pgd, VcpuSet
    <3>2. /\ u.arch = v.arch /\ u.vmcs = v.vmcs
          /\ u.avail = v.avail \ VMX_REGS_LAZY_LOAD_SET
      BY <3>1
    <3> QED BY <1>2, <2>2, <3>2 DEF vmx_vcpu_run, Assign
  <2> QED BY <2>1, <2>2 DEF vmx_vcpu_run, v
<1>5. arch.cr3 = "host" /\ ("PG" \in arch.cr0 => c = "host")
  BY <1>2, <1>4 DEF IndInv, ResetInv
<1>6. TypeInv'
  BY <1>1, <1>3, <1>4 DEF TypeInv
<1>7. ShadowInv'
  BY <1>3, <1>4 DEF IndInv, ShadowInv
<1>8. ResetInv'
  BY <1>3, <1>4, <1>5 DEF IndInv, ResetInv
<1>9. CacheInv'
  BY <1>1, <1>4, LazyForgotten DEF CacheInv
<1>10. GuestContinuesHost'
  BY <1>3, <1>4, <1>5, <1>7 DEF ShadowInv, GuestContinuesHost
<1> QED BY <1>6, <1>7, <1>8, <1>9, <1>10 DEF IndInv

\* An entry given up before anything is written.
LEMMA ReloadStep == IndInv /\ ReloadFails => IndInv'
<1> SUFFICES ASSUME IndInv, ReloadFails PROVE IndInv'
  OBVIOUS
<1>1. TypeInv' /\ ShadowInv'
  BY DEF IndInv, TypeInv, ShadowInv, ReloadFails
<1>2. ResetInv' /\ CacheInv' /\ GuestContinuesHost'
  BY DEF IndInv, ResetInv, CacheInv, GuestContinuesHost, ReloadFails
<1> QED BY <1>1, <1>2 DEF IndInv

\* The guest owns none of the bits it must keep.
LEMMA GuestStep == IndInv /\ GuestWrites => IndInv'
<1> SUFFICES ASSUME IndInv, GuestWrites PROVE IndInv'
  OBVIOUS
<1> DEFINE Flip(b, cr) == IF b \in cr THEN cr \ {b} ELSE cr \cup {b}
<1>1. PICK b \in OwnedTried :
        vmcs' = IF b \in vmx_l1_guest_owned_cr0_bits
                THEN [vmcs EXCEPT !.GUEST_CR0 = Flip(b, vmcs.GUEST_CR0)]
                ELSE [vmcs EXCEPT !.GUEST_CR4 = Flip(b, vmcs.GUEST_CR4)]
  BY DEF GuestWrites
<1>2. mode = "guest" /\ UNCHANGED <<host, arch, regs_avail, regs_dirty, mode>>
  BY DEF GuestWrites
<1>3. vmcs \in Vmcs
  BY DEF IndInv, TypeInv
<1>4. /\ vmcs.GUEST_CR0 \in SUBSET Cr0Bit /\ vmcs.GUEST_CR4 \in SUBSET Cr4Bit
      /\ {"PE", "PG", "NE"} \subseteq vmcs.GUEST_CR0
      /\ {"PAE", "VMXE"} \subseteq vmcs.GUEST_CR4
  BY <1>2, <1>3 DEF IndInv, ResetInv, Vmcs
<1>5. /\ vmcs' \in Vmcs
      /\ {"PE", "PG", "NE"} \subseteq vmcs'.GUEST_CR0
      /\ {"PAE", "VMXE"} \subseteq vmcs'.GUEST_CR4
      /\ vmcs'.CR0_READ_SHADOW = vmcs.CR0_READ_SHADOW
      /\ vmcs'.CR4_READ_SHADOW = vmcs.CR4_READ_SHADOW
      /\ vmcs'.GUEST_CR3 = vmcs.GUEST_CR3 /\ vmcs'.usable = vmcs.usable
  <2>1. CASE b \in vmx_l1_guest_owned_cr0_bits
    <3> DEFINE f == Flip(b, vmcs.GUEST_CR0)
    <3>1. f \in SUBSET Cr0Bit /\ {"PE", "PG", "NE"} \subseteq f
      BY <1>4, <2>1 DEF vmx_l1_guest_owned_cr0_bits, Cr0Bit
    <3>2. vmcs' = [vmcs EXCEPT !.GUEST_CR0 = f]
      BY <1>1, <2>1
    <3> HIDE DEF f
    <3> QED BY <1>3, <1>4, <3>1, <3>2 DEF Vmcs
  <2>2. CASE b \notin vmx_l1_guest_owned_cr0_bits
    <3> DEFINE f == Flip(b, vmcs.GUEST_CR4)
    <3>1. b \in cr4_guest_owned_bits
      BY <2>2, OwnedAssumption
    <3>2. f \in SUBSET Cr4Bit /\ {"PAE", "VMXE"} \subseteq f
      BY <1>4, <3>1 DEF cr4_guest_owned_bits, Cr4Bit
    <3>3. vmcs' = [vmcs EXCEPT !.GUEST_CR4 = f]
      BY <1>1, <2>2
    <3> HIDE DEF f
    <3> QED BY <1>3, <1>4, <3>2, <3>3 DEF Vmcs
  <2> QED BY <2>1, <2>2
<1>6. TypeInv'
  BY <1>2, <1>5 DEF IndInv, TypeInv
<1>7. ShadowInv'
  BY <1>2, <1>5 DEF IndInv, ShadowInv
<1>8. ResetInv'
  BY <1>2, <1>5 DEF IndInv, ResetInv
<1>9. CacheInv'
  BY <1>2 DEF CacheInv
<1>10. GuestContinuesHost'
  BY <1>2, <1>5 DEF IndInv, GuestContinuesHost
<1> QED BY <1>6, <1>7, <1>8, <1>9, <1>10 DEF IndInv

\* An exit forgets every cached register.
LEMMA ExitStep == IndInv /\ VmExit => IndInv'
<1> SUFFICES ASSUME IndInv, VmExit PROVE IndInv'
  OBVIOUS
<1>1. PICK q \in Qualification : vmcs' = [vmcs EXCEPT !.EXIT_QUALIFICATION = q]
  BY DEF VmExit
<1>2. /\ mode = "guest" /\ mode' = "exited" /\ UNCHANGED <<host, arch, regs_dirty>>
      /\ regs_avail' = regs_avail \ VMX_REGS_LAZY_LOAD_SET
  BY DEF VmExit
<1>3. vmcs \in Vmcs /\ regs_avail \in SUBSET ExReg /\ regs_dirty \in SUBSET regs_avail
  BY DEF IndInv, TypeInv
<1>4. /\ vmcs' \in Vmcs /\ vmcs'.GUEST_CR0 = vmcs.GUEST_CR0
      /\ vmcs'.GUEST_CR4 = vmcs.GUEST_CR4
      /\ vmcs'.CR0_READ_SHADOW = vmcs.CR0_READ_SHADOW
      /\ vmcs'.CR4_READ_SHADOW = vmcs.CR4_READ_SHADOW
      /\ vmcs'.GUEST_CR3 = vmcs.GUEST_CR3 /\ vmcs'.usable = vmcs.usable
  BY <1>1, <1>3 DEF Vmcs
<1>5. regs_avail' = {}
  BY <1>2, <1>3, LazyForgotten
<1>6. ShadowInv' /\ ResetInv'
  BY <1>2, <1>4 DEF IndInv, ShadowInv, ResetInv
<1>7. CacheInv' /\ GuestContinuesHost'
  BY <1>2, <1>5 DEF CacheInv, GuestContinuesHost
<1>8. TypeInv'
  BY <1>2, <1>4, <1>5 DEF IndInv, TypeInv, ResetInv
<1> QED BY <1>6, <1>7, <1>8 DEF IndInv

\* handle_cr: the qualification read is that of this exit, and a MOV to CR0
\* leaves the bits the processor needs on.
LEMMA HandleStep == IndInv /\ handle_cr => IndInv'
<1> SUFFICES ASSUME IndInv, handle_cr PROVE IndInv'
  OBVIOUS
<1> DEFINE q == vmx_get_exit_qual(Vcpu)
           r == [Vcpu EXCEPT !.arch.exit_qualification = q, !.avail = @ \cup {"EXIT_INFO_1"}]
           x == IF q = "mov to cr0" THEN kvm_set_cr0(r, {}) ELSE r
<1>1. /\ mode = "exited" /\ mode' = "root" /\ UNCHANGED <<host, regs_dirty>>
      /\ arch' = x.arch /\ vmcs' = x.vmcs /\ regs_avail' = x.avail
  BY DEF handle_cr, Assign
<1>2. /\ Vcpu \in VcpuSet /\ Vcpu.arch = arch /\ Vcpu.avail = regs_avail
      /\ Vcpu.vmcs = vmcs /\ vmcs \in Vmcs /\ arch \in Arch /\ regs_avail \in SUBSET ExReg
  BY VcpuTyped DEF IndInv, TypeInv
<1>3. q = vmcs.EXIT_QUALIFICATION
  BY <1>1, <1>2 DEF vmx_get_exit_qual, kvm_register_is_available, IndInv, CacheInv
<1>4. q \in Qualification \cup {"none"}
  BY <1>2, <1>3 DEF Vmcs
<1> HIDE DEF q
<1>5. /\ r.arch = [arch EXCEPT !.exit_qualification = q] /\ r.vmcs = vmcs
      /\ r.avail = regs_avail \cup {"EXIT_INFO_1"}
  BY <1>2 DEF Vcpu
<1>6. r.arch \in Arch /\ r.avail \in SUBSET ExReg
  BY <1>2, <1>4, <1>5 DEF Arch, ExReg
<1>7. r \in VcpuSet
  BY <1>2, <1>5, <1>6 DEF VcpuSet
<1>8. /\ r.arch.cr0 = arch.cr0 /\ r.arch.cr3 = arch.cr3 /\ r.arch.cr4 = arch.cr4
      /\ r.arch.exit_qualification = q
  BY <1>2, <1>5 DEF Arch
<1> HIDE DEF r
<1>9. CASE x = r
  <2>1. TypeInv'
    BY <1>1, <1>2, <1>5, <1>6, <1>9 DEF IndInv, TypeInv
  <2>2. ShadowInv'
    BY <1>1, <1>5, <1>8, <1>9 DEF IndInv, ShadowInv
  <2>3. ResetInv'
    BY <1>1, <1>5, <1>8, <1>9 DEF IndInv, ResetInv
  <2>4. CacheInv'
    <3>1. "CR4" \in r.avail => "CR4" \in regs_avail
      BY <1>5
    <3> QED BY <1>1, <1>3, <1>5, <1>8, <1>9, <3>1 DEF IndInv, CacheInv
  <2>5. GuestContinuesHost'
    BY <1>1 DEF GuestContinuesHost
  <2> QED BY <2>1, <2>2, <2>3, <2>4, <2>5 DEF IndInv
<1>10. CASE x = vmx_set_cr0(r, {"ET"})
  <2> DEFINE w == vmx_set_cr0(r, {"ET"})
             f == ({"ET"} \ KVM_VM_CR0_ALWAYS_OFF) \cup KVM_VM_CR0_ALWAYS_ON
  <2>1. /\ w \in VcpuSet /\ w.arch = [r.arch EXCEPT !.cr0 = {"ET"}]
        /\ w.avail = r.avail \cup {"CR0"}
        /\ w.vmcs = [r.vmcs EXCEPT !.CR0_READ_SHADOW = {"ET"}, !.GUEST_CR0 = f]
    BY <1>7, Cr0Written DEF Cr0Bit
  <2>2. {"PE", "PG", "NE"} \subseteq f
    BY DEF KVM_VM_CR0_ALWAYS_ON
  <2> HIDE DEF w, f
  <2>3. w.arch \in Arch /\ w.vmcs \in Vmcs /\ w.avail \in SUBSET ExReg
    BY <2>1 DEF VcpuSet
  <2>4. /\ w.arch.cr0 = {"ET"} /\ w.arch.cr3 = arch.cr3 /\ w.arch.cr4 = arch.cr4
        /\ w.arch.exit_qualification = q
    BY <1>6, <1>8, <2>1 DEF Arch
  <2>5. /\ w.vmcs.GUEST_CR0 = f /\ w.vmcs.CR0_READ_SHADOW = {"ET"}
        /\ w.vmcs.GUEST_CR4 = vmcs.GUEST_CR4
        /\ w.vmcs.CR4_READ_SHADOW = vmcs.CR4_READ_SHADOW
        /\ w.vmcs.GUEST_CR3 = vmcs.GUEST_CR3 /\ w.vmcs.usable = vmcs.usable
        /\ w.vmcs.EXIT_QUALIFICATION = vmcs.EXIT_QUALIFICATION
    BY <1>2, <1>5, <2>1 DEF Vmcs
  <2>6. arch' = w.arch /\ vmcs' = w.vmcs /\ regs_avail' = w.avail
    BY <1>1, <1>10 DEF w
  <2>7. TypeInv'
    <3>1. regs_dirty' \in SUBSET regs_avail'
      BY <1>1, <1>5, <2>1, <2>6 DEF IndInv, TypeInv
    <3> QED BY <1>1, <2>3, <2>6, <3>1 DEF IndInv, TypeInv
  <2>8. ShadowInv'
    BY <1>1, <2>4, <2>5, <2>6 DEF IndInv, ShadowInv
  <2>9. ResetInv'
    <3>1. "PG" \notin {"ET"}
      OBVIOUS
    <3> QED BY <1>1, <2>2, <2>4, <2>5, <2>6, <3>1 DEF IndInv, ResetInv
  <2>10. CacheInv'
    <3>1. "CR4" \in w.avail => "CR4" \in regs_avail
      BY <1>5, <2>1
    <3> QED BY <1>1, <1>3, <2>4, <2>5, <2>6, <3>1 DEF IndInv, CacheInv
  <2>11. GuestContinuesHost'
    BY <1>1 DEF GuestContinuesHost
  <2> QED BY <2>7, <2>8, <2>9, <2>10, <2>11 DEF IndInv
<1>11. x = r \/ x = vmx_set_cr0(r, {"ET"})
  <2>1. ({} \cup {"ET"}) \cap Cr0Bit = {"ET"}
    BY DEF Cr0Bit
  <2>2. kvm_set_cr0(r, {}) \in {r, vmx_set_cr0(r, {"ET"})}
    BY <2>1 DEF kvm_set_cr0
  <2> QED BY <2>2
<1> QED BY <1>9, <1>10, <1>11

\* A handler that reads nothing.
LEMMA OtherStep == IndInv /\ OtherHandler => IndInv'
<1> SUFFICES ASSUME IndInv, OtherHandler PROVE IndInv'
  OBVIOUS
<1>1. TypeInv' /\ ShadowInv'
  BY DEF IndInv, TypeInv, ShadowInv, OtherHandler
<1>2. ResetInv' /\ CacheInv' /\ GuestContinuesHost'
  BY DEF IndInv, ResetInv, CacheInv, GuestContinuesHost, OtherHandler
<1> QED BY <1>1, <1>2 DEF IndInv

\* Nothing changes.
LEMMA StutterStep == IndInv /\ UNCHANGED vars => IndInv'
BY DEF IndInv, TypeInv, ShadowInv, ResetInv, CacheInv, GuestContinuesHost, vars

-----------------------------------------------------------------------------
(***************************************************************************)
(* The theorems                                                            *)
(***************************************************************************)

\* The invariant holds in every reachable state.
THEOREM Invariance == Spec => []IndInv
<1>1. IndInv /\ [Next]_vars => IndInv'
  BY ResetStep, RunStep, ReloadStep, GuestStep, ExitStep, HandleStep, OtherStep,
     StutterStep DEF Next
<1> QED BY <1>1, InitInv, PTL DEF Spec

\* Whatever the guest did to CR0, it runs with the control registers a 64-bit
\* guest without unrestricted mode must have.
THEOREM GuestStateCorrect == Spec => []GuestStateValid
<1>1. IndInv => GuestStateValid
  BY DEF IndInv, ResetInv, GuestStateValid
<1> QED BY <1>1, Invariance, PTL

\* The guest is the system that created the vCPU: bases, control registers, CR3.
THEOREM ContinuationCorrect == Spec => []GuestContinuesHost
<1>1. IndInv => GuestContinuesHost
  BY DEF IndInv
<1> QED BY <1>1, Invariance, PTL

\* After an exit the accessors of the cached registers return what the guest has.
THEOREM AccessorsCorrect == Spec => []AccessorsAgree
<1>1. IndInv => AccessorsAgree
  <2> SUFFICES ASSUME IndInv, mode \in {"exited", "root"}
               PROVE  /\ "EXIT_INFO_1" \in regs_avail =>
                           arch.exit_qualification = vmcs.EXIT_QUALIFICATION
                      /\ kvm_read_cr4_bits(Vcpu, Cr4Bit)
                           = GuestView(vmcs.GUEST_CR4, vmcs.CR4_READ_SHADOW,
                                       cr4_guest_owned_bits)
                      /\ LET excepted == IF "CR0" \in regs_avail
                                         THEN vmx_l1_guest_owned_cr0_bits ELSE {}
                         IN  kvm_read_cr0_bits(Vcpu, Cr0Bit) \ excepted
                               = GuestView(vmcs.GUEST_CR0, vmcs.CR0_READ_SHADOW,
                                           vmx_l1_guest_owned_cr0_bits) \ excepted
    BY DEF AccessorsAgree
  <2>1. /\ Vcpu.arch = arch /\ Vcpu.avail = regs_avail
        /\ Vcpu.vmcs = vmcs /\ vmcs \in Vmcs /\ arch \in Arch
    BY VcpuTyped DEF IndInv, TypeInv
  <2>2. /\ arch.cr0 \in SUBSET Cr0Bit /\ arch.cr4 \in SUBSET Cr4Bit
        /\ vmcs.GUEST_CR0 \in SUBSET Cr0Bit /\ vmcs.GUEST_CR4 \in SUBSET Cr4Bit
        /\ vmcs.CR0_READ_SHADOW = arch.cr0 /\ vmcs.CR4_READ_SHADOW = arch.cr4
    BY <2>1 DEF Arch, Vmcs, IndInv, ShadowInv
  <2>3. /\ "EXIT_INFO_1" \in regs_avail => arch.exit_qualification = vmcs.EXIT_QUALIFICATION
        /\ "CR4" \in regs_avail =>
             vmcs.GUEST_CR4 \cap cr4_guest_owned_bits = arch.cr4 \cap cr4_guest_owned_bits
    BY DEF IndInv, CacheInv
  <2>4. kvm_read_cr4_bits(Vcpu, Cr4Bit)
          = GuestView(vmcs.GUEST_CR4, vmcs.CR4_READ_SHADOW, cr4_guest_owned_bits)
    <3>1. Cr4Bit \cap cr4_guest_owned_bits # {}
      BY DEF Cr4Bit, cr4_guest_owned_bits
    <3>2. CASE "CR4" \in regs_avail
      <4>1. kvm_read_cr4_bits(Vcpu, Cr4Bit) = Cr4Bit \cap arch.cr4
        BY <2>1, <3>2 DEF kvm_read_cr4_bits, kvm_register_is_available
      <4> QED BY <2>2, <2>3, <3>2, <4>1 DEF GuestView
    <3>3. CASE "CR4" \notin regs_avail
      <4>1. vmx_cache_reg(Vcpu, "CR4").cr4 =
              (arch.cr4 \ cr4_guest_owned_bits) \cup (vmcs.GUEST_CR4 \cap cr4_guest_owned_bits)
        BY <2>1 DEF vmx_cache_reg, Arch
      <4>2. kvm_read_cr4_bits(Vcpu, Cr4Bit) = Cr4Bit \cap vmx_cache_reg(Vcpu, "CR4").cr4
        BY <2>1, <3>1, <3>3 DEF kvm_read_cr4_bits, kvm_register_is_available
      <4> QED BY <2>2, <4>1, <4>2 DEF GuestView
    <3> QED BY <3>2, <3>3
  <2>5. CASE "CR0" \in regs_avail
    <3>1. kvm_read_cr0_bits(Vcpu, Cr0Bit) = Cr0Bit \cap arch.cr0
      BY <2>1, <2>5 DEF kvm_read_cr0_bits, kvm_register_is_available
    <3> QED BY <2>2, <2>3, <2>4, <2>5, <3>1 DEF GuestView
  <2>6. CASE "CR0" \notin regs_avail
    <3>1. Cr0Bit \cap vmx_l1_guest_owned_cr0_bits # {}
      BY DEF Cr0Bit, vmx_l1_guest_owned_cr0_bits
    <3>2. vmx_cache_reg(Vcpu, "CR0").cr0 =
            (arch.cr0 \ vmx_l1_guest_owned_cr0_bits)
              \cup (vmcs.GUEST_CR0 \cap vmx_l1_guest_owned_cr0_bits)
      BY <2>1 DEF vmx_cache_reg, Arch
    <3>3. kvm_read_cr0_bits(Vcpu, Cr0Bit) = Cr0Bit \cap vmx_cache_reg(Vcpu, "CR0").cr0
      BY <2>1, <2>6, <3>1 DEF kvm_read_cr0_bits, kvm_register_is_available
    <3> QED BY <2>2, <2>3, <2>4, <2>6, <3>2, <3>3 DEF GuestView
  <2> QED BY <2>5, <2>6
<1> QED BY <1>1, Invariance, PTL

=============================================================================
