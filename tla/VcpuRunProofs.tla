---------------------------- MODULE VcpuRunProofs ----------------------------
(***************************************************************************)
(* Proofs about VcpuRun, for any set of processors, any exits and any      *)
(* bounds.                                                                 *)
(***************************************************************************)
EXTENDS VcpuRun, TLAPS

\* The parts of the inductive invariant behind the four safety properties.
LaunchInv ==
  \A c \in CPU :
    /\ pc[c] = "guest" => launch_state[c] = "launched"
    /\ pc[c] \in {"exited", "save"} =>
         IF exit_reason[c].failed_vmentry
         THEN launched[c] = (launch_state[c] = "launched")
         ELSE launch_state[c] = "launched"

ModeInv ==
  \A c \in CPU :
    pc[c] \in {"idle", "call", "saved", "loop", "put"}
      \/ (pc[c] = "handle" /\ bugcheck = "none")
      => mode[c] = "OUTSIDE_GUEST_MODE"

FailInv ==
  \A c \in CPU :
    (pc[c] \in {"exited", "save"} /\ exit_reason[c].failed_vmentry)
      \/ (pc[c] = "handle" /\ bugcheck = "none" /\ EntryFailed(c))
      => ~exit_reason[c].bus_lock_detected

\* The inductive invariant: the launch state between VM entry and the end of
\* vmx_vcpu_run, the vCPU mode wherever the run loop can stop, and that a
\* failed entry carries no bus lock, together with what they imply.
Safe ==
  /\ LaunchInv /\ ModeInv /\ FailInv
  /\ LaunchStateAgrees /\ EntryFailureReported /\ BusLockReported
  /\ NothingLeftLoaded

IndInv == TypeOK /\ Safe

USE DEF sharedVars, guestVars, vmxVars, vcpuVars, boundVars, Goto, NoExit,
        FailedEntry, BusLockExit, ExitClasses, Register

LEMMA StepType ==
  ASSUME TypeOK, Next
  PROVE  TypeOK'
<1>1. ASSUME KvmRun PROVE TypeOK'
  BY <1>1, BoundsAssumption DEF TypeOK, KvmRun
<1>2. ASSUME NEW c \in CPU, HostStep(c) \/ GuestStep(c) PROVE TypeOK'
  <2>1. CASE SaveState(c)
    BY <2>1 DEF TypeOK, SaveState
  <2>2. CASE IoctlRun(c)
    BY <2>2 DEF TypeOK, IoctlRun
  <2>3. CASE ReloadFails(c)
    BY <2>3 DEF TypeOK, ReloadFails
  <2>4. CASE PrepareSwitch(c)
    BY <2>4 DEF TypeOK, PrepareSwitch
  <2>5. CASE Put(c)
    BY <2>5 DEF TypeOK, Put, SwitchToHost
  <2>6. CASE EnterExit(c)
    BY <2>6 DEF TypeOK, EnterExit
  <2>7. CASE LoadRegs(c)
    BY <2>7 DEF TypeOK, LoadRegs
  <2>8. CASE EntrySucceeds(c)
    BY <2>8 DEF TypeOK, EntrySucceeds, LoadRax
  <2>9. CASE EntryVmFail(c)
    BY <2>9 DEF TypeOK, EntryVmFail, LoadRax
  <2>10. CASE EntryInvalidState(c)
    BY <2>10 DEF TypeOK, EntryInvalidState, LoadRax
  <2>11. CASE SaveRax(c)
    BY <2>11 DEF TypeOK, SaveRax
  <2>12. CASE SaveRegs(c)
    <3>1. launched' \in [CPU -> BOOLEAN]
      BY <2>12 DEF TypeOK, SaveRegs, MarkLaunched
    <3>2. VCPU_regs' \in [Register -> CPU \cup {"zero"}]
      BY <2>12 DEF TypeOK, SaveRegs, SaveGprs
    <3>3. /\ fail' \in [CPU -> BOOLEAN]
          /\ mode' \in [CPU -> {"OUTSIDE_GUEST_MODE", "IN_GUEST_MODE"}]
      BY <2>12 DEF TypeOK, SaveRegs
    <3>4. QED BY <2>12, <3>1, <3>2, <3>3 DEF TypeOK, SaveRegs
  <2>13. CASE FrameLost(c)
    BY <2>13 DEF TypeOK, FrameLost, SaveGprs
  <2>14. CASE HandleExit(c)
    <3> DEFINE bus == ~EntryFailed(c) /\ BusLock(c)
    <3>1. PICK ret \in {-1, 0, 1} :
            /\ r' = [r EXCEPT ![c] = IF bus THEN 0 ELSE ret]
            /\ Goto(c, "handle", IF Continues(IF bus THEN 0 ELSE ret)
                                 THEN "loop" ELSE "put")
            /\ run_exit_reason' = [run_exit_reason EXCEPT ![c] =
                  IF bus /\ ret > 0 THEN "KVM_EXIT_X86_BUS_LOCK" ELSE ReasonSet(c)]
            /\ run_bus_lock' = [run_bus_lock EXCEPT ![c] = @ \/ bus]
      BY <2>14 DEF HandleExit, HandlerReturns, Resuming, Unwritten
    <3> HIDE DEF bus
    <3>2. /\ r' \in [CPU -> {-1, 0, 1}]
          /\ Goto(c, "handle", pc'[c]) /\ pc'[c] \in {"loop", "put"}
      BY <3>1 DEF TypeOK
    <3>3. ReasonSet(c) \in {"KVM_EXIT_SHUTDOWN", "KVM_EXIT_FAIL_ENTRY",
                            "KVM_EXIT_INTERNAL_ERROR", run_exit_reason[c]}
      BY DEF ReasonSet
    <3>4. run_exit_reason' \in [CPU -> {"KVM_EXIT_UNKNOWN", "KVM_EXIT_SHUTDOWN",
                  "KVM_EXIT_FAIL_ENTRY", "KVM_EXIT_X86_BUS_LOCK",
                  "KVM_EXIT_INTERNAL_ERROR"}]
      BY <3>1, <3>3 DEF TypeOK
    <3>5. run_bus_lock' \in [CPU -> BOOLEAN]
      BY <3>1, Zenon DEF TypeOK
    <3>6. exit_reason' \in [CPU -> [basic : ExitClasses \cup {"none"},
                                    failed_vmentry : BOOLEAN,
                                    bus_lock_detected : BOOLEAN]]
      BY <2>14 DEF TypeOK, HandleExit
    <3>7. QED BY <2>14, <3>2, <3>4, <3>5, <3>6 DEF TypeOK, HandleExit
  <2>15. CASE HandleNull(c)
    BY <2>15 DEF TypeOK, HandleNull, EntryFailed
  <2>16. CASE GuestReturn(c)
    BY <2>16 DEF TypeOK, GuestReturn, GuestComputes
  <2>17. CASE GuestOs(c)
    BY <2>17 DEF TypeOK, GuestOs, GuestComputes
  <2>18. CASE GuestCall(c)
    BY <2>18 DEF TypeOK, GuestCall, GuestComputes
  <2>19. CASE InstructionExit(c)
    BY <2>19 DEF TypeOK, InstructionExit, VmExit
  <2>20. CASE OtherExit(c)
    <3>1. PICK e \in Exits, bus \in BOOLEAN : VmExit(c, e, bus)
      BY <2>20 DEF OtherExit
    <3>2. exits' \in [CPU -> 0 .. MaxExits]
      BY <2>20, BoundsAssumption DEF TypeOK, OtherExit
    <3>3. QED BY <3>1, <3>2, ExitsAssumption DEF TypeOK, VmExit
  <2>21. CASE MmuStops(c)
    BY <2>21 DEF TypeOK, MmuStops, Goto
  <2>22. QED
    BY <1>2, <2>1, <2>2, <2>3, <2>4, <2>5, <2>6, <2>7, <2>8,
       <2>9, <2>10, <2>11, <2>12, <2>13, <2>14, <2>15,
       <2>16, <2>17, <2>18, <2>19, <2>20, <2>21
       DEF HostStep, GuestStep
<1>3. QED BY <1>1, <1>2 DEF Next

LEMMA StepSafe ==
  ASSUME TypeOK, Safe, Next
  PROVE  Safe'
<1> USE DEF Safe, LaunchInv, ModeInv, FailInv, LaunchStateAgrees,
            EntryFailureReported, BusLockReported, NothingLeftLoaded, InRoot,
            EntryFailed
<1>0. bugcheck = "none" BY DEF Next
<1>1. ASSUME KvmRun PROVE Safe'
  BY <1>0, <1>1 DEF TypeOK, KvmRun
<1>2. ASSUME NEW c \in CPU, HostStep(c) \/ GuestStep(c) PROVE Safe'
  <2>1. CASE SaveState(c)
    BY <1>0, <2>1 DEF TypeOK, SaveState
  <2>2. CASE IoctlRun(c)
    BY <1>0, <2>2 DEF TypeOK, IoctlRun
  <2>3. CASE ReloadFails(c)
    BY <1>0, <2>3 DEF TypeOK, ReloadFails
  <2>4. CASE PrepareSwitch(c)
    BY <1>0, <2>4 DEF TypeOK, PrepareSwitch
  <2>5. CASE Put(c)
    BY <1>0, <2>5 DEF TypeOK, Put, SwitchToHost
  <2>6. CASE EnterExit(c)
    BY <1>0, <2>6 DEF TypeOK, EnterExit
  <2>7. CASE LoadRegs(c)
    BY <1>0, <2>7 DEF TypeOK, LoadRegs
  <2>8. CASE EntrySucceeds(c)
    BY <1>0, <2>8 DEF TypeOK, EntrySucceeds, LoadRax, EntryInstructionFits
  <2>9. CASE EntryVmFail(c)
    BY <1>0, <2>9 DEF TypeOK, EntryVmFail, LoadRax, EntryInstructionFits
  <2>10. CASE EntryInvalidState(c)
    BY <1>0, <2>10 DEF TypeOK, EntryInvalidState, LoadRax, EntryInstructionFits
  <2>11. CASE SaveRax(c)
    BY <1>0, <2>11 DEF TypeOK, SaveRax
  <2>12. CASE SaveRegs(c)
    <3>1. /\ LaunchInv' /\ ModeInv' /\ FailInv'
          /\ EntryFailureReported' /\ BusLockReported' /\ NothingLeftLoaded'
      BY <1>0, <2>12 DEF TypeOK, SaveRegs, MarkLaunched
    <3>2. ASSUME NEW d \in CPU, InRoot(d)'
          PROVE  launched'[d] = (launch_state'[d] = "launched")
      <4>1. CASE d = c /\ exit_reason[c].failed_vmentry
        BY <2>12, <4>1 DEF SaveRegs, MarkLaunched
      <4>2. CASE d = c /\ ~exit_reason[c].failed_vmentry
        <5>1. launched'[d] = TRUE
          BY <2>12, <4>2 DEF TypeOK, SaveRegs, MarkLaunched
        <5>2. launch_state'[d] = "launched"
          BY <2>12, <4>2 DEF TypeOK, SaveRegs
        <5>3. QED BY <5>1, <5>2
      <4>3. CASE d # c
        <5>1. launched'[d] = launched[d] /\ launch_state' = launch_state
          BY <2>12, <4>3 DEF TypeOK, SaveRegs, MarkLaunched
        <5>2. InRoot(d)
          BY <2>12, <3>2, <4>3 DEF TypeOK, SaveRegs
        <5>3. QED BY <1>0, <5>1, <5>2
      <4>4. QED BY <4>1, <4>2, <4>3
    <3>3. LaunchStateAgrees'
      BY <3>2
    <3>4. QED BY <3>1, <3>3
  <2>13. CASE FrameLost(c)
    BY <1>0, <2>13 DEF TypeOK, FrameLost, SaveGprs
  <2>14. CASE HandleExit(c)
    <3>1. /\ LaunchInv' /\ ModeInv' /\ FailInv'
          /\ LaunchStateAgrees' /\ NothingLeftLoaded'
      BY <1>0, <2>14 DEF TypeOK, HandleExit
    <3>2. EntryFailureReported'
      BY <1>0, <2>14 DEF TypeOK, HandleExit, ReasonSet
    <3>3. ASSUME NEW d \in CPU, exit_reason'[d].bus_lock_detected, InRoot(d)',
                 pc'[d] # "handle"
          PROVE  r'[d] <= 0 /\ (pc'[d] = "put" /\ r'[d] = 0 => run_bus_lock'[d])
      <4>1. CASE d # c
        BY <2>14, <3>3, <4>1 DEF TypeOK, HandleExit
      <4>2. CASE d = c
        <5>1. ~EntryFailed(c) /\ BusLock(c)
          BY <1>0, <2>14, <3>3, <4>2 DEF TypeOK, HandleExit, BusLock
        <5>2. r'[c] = 0
          BY <2>14, <5>1 DEF TypeOK, HandleExit
        <5>3. run_bus_lock' = [run_bus_lock EXCEPT ![c] = TRUE]
          BY <2>14, <5>1 DEF TypeOK, HandleExit
        <5>4. QED BY <4>2, <5>2, <5>3 DEF TypeOK
      <4>3. QED BY <4>1, <4>2
    <3>4. BusLockReported'
      BY <3>3
    <3>5. QED BY <3>1, <3>2, <3>4
  <2>15. CASE HandleNull(c)
    BY <1>0, <2>15 DEF TypeOK, HandleNull
  <2>16. CASE GuestReturn(c)
    BY <1>0, <2>16 DEF TypeOK, GuestReturn, GuestComputes
  <2>17. CASE GuestOs(c)
    BY <1>0, <2>17 DEF TypeOK, GuestOs, GuestComputes
  <2>18. CASE GuestCall(c)
    BY <1>0, <2>18 DEF TypeOK, GuestCall, GuestComputes
  <2>19. CASE InstructionExit(c)
    BY <1>0, <2>19 DEF TypeOK, InstructionExit, VmExit
  <2>20. CASE OtherExit(c)
    BY <1>0, <2>20 DEF TypeOK, OtherExit, VmExit
  <2>21. CASE MmuStops(c)
    BY <1>0, <2>21 DEF TypeOK, MmuStops, Goto
  <2>22. QED
    BY <1>2, <2>1, <2>2, <2>3, <2>4, <2>5, <2>6, <2>7, <2>8,
       <2>9, <2>10, <2>11, <2>12, <2>13, <2>14, <2>15,
       <2>16, <2>17, <2>18, <2>19, <2>20, <2>21
       DEF HostStep, GuestStep
<1>3. QED BY <1>1, <1>2 DEF Next

LEMMA InitInv == Init => IndInv
<1> SUFFICES ASSUME Init PROVE IndInv
  OBVIOUS
<1>1. TypeOK
  BY BoundsAssumption DEF Init, TypeOK
<1>2. Safe
  BY DEF Init, Safe, LaunchInv, ModeInv, FailInv, LaunchStateAgrees,
     EntryFailureReported, BusLockReported, NothingLeftLoaded, InRoot, EntryFailed
<1>3. QED BY <1>1, <1>2 DEF IndInv

LEMMA Invariant == Spec => []IndInv
<1>1. IndInv /\ [Next]_vars => IndInv'
  <2>1. ASSUME IndInv, Next PROVE IndInv'
    BY <2>1, StepType, StepSafe DEF IndInv
  <2>2. ASSUME IndInv, UNCHANGED vars PROVE IndInv'
    BY <2>2 DEF IndInv, Safe, TypeOK, LaunchInv, ModeInv, FailInv,
       LaunchStateAgrees, EntryFailureReported, BusLockReported,
       NothingLeftLoaded, InRoot, EntryFailed, vars
  <2>3. QED BY <2>1, <2>2
<1>2. QED BY InitInv, <1>1, PTL DEF Spec

\* The state variables of the run loop keep their types on any number of
\* processors.
THEOREM TypeCorrect == Spec => []TypeOK
<1>1. IndInv => TypeOK BY DEF IndInv
<1>2. QED BY Invariant, <1>1, PTL

\* Whatever entries fail, loaded_vmcs->launched tells the launch state of the
\* VMCS whenever __vmx_vcpu_run_flags chooses between VMLAUNCH and VMRESUME.
THEOREM LaunchCorrect == Spec => []LaunchStateAgrees
<1>1. IndInv => LaunchStateAgrees BY DEF IndInv, Safe
<1>2. QED BY Invariant, <1>1, PTL

\* A failed VM entry and a bus lock in the guest are always reported in
\* struct kvm_run when the run loop ends.
THEOREM ReportsCorrect == Spec => [](EntryFailureReported /\ BusLockReported)
<1>1. IndInv => EntryFailureReported /\ BusLockReported BY DEF IndInv, Safe
<1>2. QED BY Invariant, <1>1, PTL

\* A processor that is back in root mode has no guest state loaded, however its
\* run loop ended.
THEOREM NothingLeftCorrect == Spec => []NothingLeftLoaded
<1>1. IndInv => NothingLeftLoaded BY DEF IndInv, Safe
<1>2. QED BY Invariant, <1>1, PTL

=============================================================================
