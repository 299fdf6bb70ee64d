----------------------------- MODULE MCLifecycle -----------------------------
(***************************************************************************)
(* Small instances of Lifecycle.  Objects are never reused, and one VM     *)
(* creates at most N vCPUs, so N vCPU objects for each VM are as many as   *)
(* can be asked for.                                                       *)
(***************************************************************************)
EXTENDS Lifecycle, TLC

\* VMs, vCPUs and threads are interchangeable.
Objects == Permutations(VM) \cup Permutations(VCPU) \cup Permutations(Thread)

=============================================================================
