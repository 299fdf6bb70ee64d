------------------------------ MODULE MCVmxRegs ------------------------------
(***************************************************************************)
(* A processor with and without PCIDs, supervisor-mode protection and      *)
(* FSGSBASE; the guest flips the two bits it owns of CR0 and two of CR4.   *)
(***************************************************************************)
EXTENDS VmxRegs

Cr4Values == {{"PAE", "VMXE", "OSFXSR"} \cup more : more \in SUBSET {"PCIDE", "SMEP", "FSGSBASE"}}
Flipped == {"TS", "WP", "PGE", "FSGSBASE"}
Qualifications == {"mov to cr0", "mov to cr3", "other"}

=============================================================================
