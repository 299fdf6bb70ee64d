------------------------------- MODULE MCDriver -------------------------------
(***************************************************************************)
(* Machines of two processors.  An Intel processor lacks up to two of the  *)
(* features some decision of the set-up depends on, with or without the    *)
(* APIC virtualisation of servers.                                         *)
(***************************************************************************)
EXTENDS Driver, FiniteSetsExt

Processors == {0, 1}

ApicVirtualisation == {"APIC_REGISTER_VIRT", "VIRTUAL_INTR_DELIVERY", "POSTED_INTR"}

Droppable ==
  {"TPR_SHADOW", "VIRTUAL_INTR_DELIVERY", "ENABLE_EPT", "ENABLE_VPID",
   "ACTIVATE_SECONDARY_CONTROLS", "EPT_AD", "EPTP_WB", "ENTRY_LOAD_EFER", "EXIT_LOAD_PAT",
   "DESC", "USE_IO_BITMAPS", "TRUE_CONTROLS", "SGX", "NMI_EXITING", "VMCS_WB"}

Lacking(k) == UNION {kSubset(i, Droppable) : i \in 0 .. k}

FeatureSets ==
  {Features \ without : without \in Lacking(2)}
    \cup {Features \ (ApicVirtualisation \cup without) : without \in Lacking(1)}

Machine(brand, has, vmx, locked, vmxon, svm) ==
  [brand |-> brand, has |-> has, vmx |-> vmx, locked |-> locked, vmxon |-> vmxon, svm |-> svm]

ProcessorKinds ==
  {Machine("GenuineIntel", has, TRUE, TRUE, TRUE, FALSE) : has \in FeatureSets}
    \cup {Machine("GenuineIntel", Features, vmx, locked, vmxon, FALSE) :
            vmx \in BOOLEAN, locked \in BOOLEAN, vmxon \in BOOLEAN}
    \cup {Machine("AuthenticAMD", {}, FALSE, FALSE, FALSE, svm) : svm \in BOOLEAN}
    \cup {Machine("other", {}, FALSE, FALSE, FALSE, FALSE)}

=============================================================================
