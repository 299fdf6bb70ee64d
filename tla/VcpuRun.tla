------------------------------- MODULE VcpuRun -------------------------------
(***************************************************************************)
(* KVM_RUN from the inside, on Intel processors.  The guest is the running *)
(* system itself: RunKvm, broadcast to every processor, calls              *)
(* vm_save_state, which notes the stack pointer and enters the run loop;   *)
(* the guest starts at vm_restore_state and returns from the same call.    *)
(* A processor therefore returns from RunKvm as a guest, or, when the run  *)
(* loop ends, in root mode.                                                *)
(*                                                                         *)
(* Processor c runs the vCPU vcpu_array[c], loaded by KVM_CREATE_VCPU      *)
(* (Lifecycle).  Between a VM exit and the next entry a processor runs     *)
(* with interrupts off; a step here is one access to what the processors   *)
(* share (guest_stack_pointer, the VCPU_xxx words of vmxenter.asm), one    *)
(* VMX transition, or the local code between two of them.                  *)
(*                                                                         *)
(* A register's content is named by the processor whose guest computed it, *)
(* or "zero"; a stack pointer by the processor on whose stack vm_save_state *)
(* took it, or "moved" once the guest runs on.  The handlers of VM exits   *)
(* are grouped by what they do (ExitClasses).                              *)
(*                                                                         *)
(* The guest and the MMU are an open environment: a guest executes or      *)
(* exits at any point, kvm_mmu_reload and kvm_mmu_page_fault answer as they *)
(* may or stop the machine.  As the fault handler stands it always does    *)
(* (module TdpMmu): a guest under EPT gets no further than its first       *)
(* fetch.  The run loop is modelled for any guest.                         *)
(***************************************************************************)
EXTENDS Integers, FiniteSets

CONSTANTS
  CPU,         \* the processors
  Exits,       \* the classes of VM exits that occur
  EntryFails,  \* the ways a VM entry may fail
  MmuFails,    \* kvm_mmu_reload may fail
  MaxExits,    \* bound: VM exits of each processor
  MaxRuns      \* bound: KVM_RUN requests

\* resume        handlers that return 1: interrupts, windows, monitor trap
\* instruction   handlers that return 1 for an instruction they have not
\*               emulated: handle_vmx_instruction
\* stop          handlers that return 0 and leave kvm_run alone: CPUID, I/O,
\*               exceptions and NMIs, CR and DR accesses, HLT, MSRs
\* triple_fault, ept_violation, bus_lock: the handlers of those names
\* init_signal   a reason inside the table without a handler
\* beyond_table  a reason past the end of the table
ExitClasses == {"resume", "instruction", "stop", "triple_fault",
                "ept_violation", "bus_lock", "init_signal", "beyond_table"}

ASSUME ExitsAssumption == Exits \subseteq ExitClasses
ASSUME FailsAssumption == EntryFails \subseteq {"vmfail", "invalid_state"}
ASSUME MmuAssumption == MmuFails \in BOOLEAN
ASSUME BoundsAssumption == MaxExits \in Nat /\ MaxRuns \in Nat
ASSUME NamesAssumption == "zero" \notin CPU /\ "moved" \notin CPU

Register == {"rax", "gpr"}   \* RAX, and the other registers as one

VARIABLES
  pc,                  \* control point of each processor, "guest" inside it
  gpc,                 \* where its guest is: GUEST_RIP
  waiting,             \* processors that have yet to return from RunKvm
  guest_stack_pointer, \* the global of kvm_host.h
  VCPU_regs,           \* the words VCPU_RAX .. VCPU_R15 of vmxenter.asm
  regs,                \* general registers of the processor in the guest
  guest_rsp,           \* GUEST_RSP of its VMCS
  host_frames,         \* processors whose run loop frames are intact
  launched,            \* loaded_vmcs->launched
  launch_state,        \* launch state the processor keeps for the VMCS
  fail, exit_reason,   \* of struct vcpu_vmx
  guest_state_loaded,
  mode,                \* vcpu->mode
  r,                   \* value vcpu_enter_guest returns
  run_exit_reason,     \* run->exit_reason
  run_bus_lock,        \* run->flags & KVM_RUN_X86_BUS_LOCK
  exits, runs,         \* counted for the bounds
  bugcheck

sharedVars == <<waiting, guest_stack_pointer, VCPU_regs, host_frames>>
guestVars == <<gpc, regs, guest_rsp, launch_state>>
vmxVars == <<launched, fail, exit_reason>>
vcpuVars == <<guest_state_loaded, mode, r, run_exit_reason, run_bus_lock>>
boundVars == <<exits, runs>>

vars == <<pc, sharedVars, guestVars, vmxVars, vcpuVars, boundVars, bugcheck>>

TypeOK ==
  /\ pc \in [CPU -> {"idle", "call", "saved", "loop", "enter", "gprs", "entry",
                     "guest", "exited", "save", "handle", "put"}]
  /\ gpc \in [CPU -> {"restore", "os", "vmx"}]
  /\ waiting \subseteq CPU
  /\ guest_stack_pointer \in CPU \cup {"zero"}
  /\ VCPU_regs \in [Register -> CPU \cup {"zero"}]
  /\ regs \in [CPU -> [Register -> CPU \cup {"zero"}]]
  /\ guest_rsp \in [CPU -> CPU \cup {"zero", "moved"}]
  /\ host_frames \subseteq CPU
  /\ launched \in [CPU -> BOOLEAN]
  /\ launch_state \in [CPU -> {"clear", "launched"}]
  /\ fail \in [CPU -> BOOLEAN]
  /\ exit_reason \in [CPU -> [basic : ExitClasses \cup {"none"},
                              failed_vmentry : BOOLEAN,
                              bus_lock_detected : BOOLEAN]]
  /\ guest_state_loaded \in [CPU -> BOOLEAN]
  /\ mode \in [CPU -> {"OUTSIDE_GUEST_MODE", "IN_GUEST_MODE"}]
  /\ r \in [CPU -> {-1, 0, 1}]
  /\ run_exit_reason \in [CPU -> {"KVM_EXIT_UNKNOWN", "KVM_EXIT_SHUTDOWN",
                                  "KVM_EXIT_FAIL_ENTRY", "KVM_EXIT_X86_BUS_LOCK",
                                  "KVM_EXIT_INTERNAL_ERROR"}]
  /\ run_bus_lock \in [CPU -> BOOLEAN]
  /\ exits \in [CPU -> 0 .. MaxExits]
  /\ runs \in 0 .. MaxRuns
  /\ bugcheck \in {"none", "host_stack", "second_return", "null_handler", "mmu"}

NoExit == [basic |-> "none", failed_vmentry |-> FALSE, bus_lock_detected |-> FALSE]
FailedEntry ==
  [basic |-> "none", failed_vmentry |-> TRUE, bus_lock_detected |-> FALSE]
BusLockExit ==
  [basic |-> "bus_lock", failed_vmentry |-> FALSE, bus_lock_detected |-> TRUE]

\* Every processor has its vCPU, created and never run: struct kvm_run is a
\* zeroed page, GUEST_RIP names vm_restore_state and the VMCS is clear.
Init ==
  /\ pc = [c \in CPU |-> "idle"]
  /\ gpc = [c \in CPU |-> "restore"]
  /\ waiting = {}
  /\ guest_stack_pointer = "zero"
  /\ VCPU_regs = [x \in Register |-> "zero"]
  /\ regs = [c \in CPU |-> [x \in Register |-> "zero"]]
  /\ guest_rsp = [c \in CPU |-> "zero"]
  /\ host_frames = {}
  /\ launched = [c \in CPU |-> FALSE]
  /\ launch_state = [c \in CPU |-> "clear"]
  /\ fail = [c \in CPU |-> FALSE]
  /\ exit_reason = [c \in CPU |-> NoExit]
  /\ guest_state_loaded = [c \in CPU |-> FALSE]
  /\ mode = [c \in CPU |-> "OUTSIDE_GUEST_MODE"]
  /\ r = [c \in CPU |-> 0]
  /\ run_exit_reason = [c \in CPU |-> "KVM_EXIT_UNKNOWN"]
  /\ run_bus_lock = [c \in CPU |-> FALSE]
  /\ exits = [c \in CPU |-> 0]
  /\ runs = 0
  /\ bugcheck = "none"

Goto(c, from, to) ==
  /\ pc[c] = from
  /\ pc' = [pc EXCEPT ![c] = to]

-----------------------------------------------------------------------------
(* KVM_RUN and RunKvm *)

\* KeIpiGenericCall sends RunKvm to every processor and returns when all of
\* them have: a processor in the guest takes it there (GuestCall).
KvmRun ==
  /\ waiting = {}
  /\ runs < MaxRuns
  /\ runs' = runs + 1
  /\ waiting' = CPU
  /\ pc' = [c \in CPU |-> IF pc[c] = "idle" THEN "call" ELSE pc[c]]
  /\ UNCHANGED <<guest_stack_pointer, VCPU_regs, host_frames, guestVars, vmxVars,
                 vcpuVars, exits, bugcheck>>

\* vm_save_state: the stack pointer goes to the global.
SaveState(c) ==
  /\ Goto(c, "call", "saved")
  /\ guest_stack_pointer' = c
  /\ host_frames' = host_frames \cup {c}
  /\ UNCHANGED <<waiting, VCPU_regs, guestVars, vmxVars, vcpuVars, boundVars, bugcheck>>

\* kvm_arch_vcpu_ioctl_run up to its loop.  mp_state is always RUNNABLE.
IoctlRun(c) ==
  /\ Goto(c, "saved", "loop")
  /\ run_bus_lock' = [run_bus_lock EXCEPT ![c] = FALSE]
  /\ UNCHANGED <<sharedVars, guestVars, vmxVars, guest_state_loaded, mode, r,
                 run_exit_reason, boundVars, bugcheck>>

\* vcpu_enter_guest when kvm_mmu_reload fails: the error ends the loop.
ReloadFails(c) ==
  /\ MmuFails
  /\ Goto(c, "loop", "put")
  /\ r' = [r EXCEPT ![c] = -1]
  /\ UNCHANGED <<sharedVars, guestVars, vmxVars, guest_state_loaded, mode,
                 run_exit_reason, run_bus_lock, boundVars, bugcheck>>

\* ... and when it succeeds: prepare_switch_to_guest, IN_GUEST_MODE.
PrepareSwitch(c) ==
  /\ Goto(c, "loop", "enter")
  /\ guest_state_loaded' = [guest_state_loaded EXCEPT ![c] = TRUE]
  /\ mode' = [mode EXCEPT ![c] = "IN_GUEST_MODE"]
  /\ UNCHANGED <<sharedVars, guestVars, vmxVars, r, run_exit_reason, run_bus_lock,
                 boundVars, bugcheck>>

\* Mutant: vcpu_put leaves the guest state loaded.
NoSwitchToHost(c) == c \in CPU /\ UNCHANGED guest_state_loaded

\* vmx_vcpu_put clears what prepare_switch_to_guest set.
SwitchToHost(c) ==
  guest_state_loaded' = [guest_state_loaded EXCEPT ![c] = FALSE]

\* vcpu_put, then the return through vm_save_state, which answers
\* 0xC0000001 whatever vcpu_run returned, and RunKvm, which turns that into
\* STATUS_UNSUCCESSFUL.  If the guest has returned from RunKvm before, the
\* frame returned to no longer exists.
Put(c) ==
  /\ Goto(c, "put", "idle")
  /\ SwitchToHost(c)
  /\ host_frames' = host_frames \ {c}
  /\ waiting' = waiting \ {c}
  /\ bugcheck' = IF c \in waiting /\ gpc[c] = "restore" THEN bugcheck ELSE "second_return"
  /\ UNCHANGED <<guest_stack_pointer, VCPU_regs, guestVars, vmxVars, mode, r,
                 run_exit_reason, run_bus_lock, boundVars>>

-----------------------------------------------------------------------------
(* vmx_vcpu_run *)

\* vmx_vcpu_enter_exit up to the assembly: GUEST_RSP is written from the
\* global before every entry.  emulation_required is never set.
EnterExit(c) ==
  /\ Goto(c, "enter", "gprs")
  /\ guest_rsp' = [guest_rsp EXCEPT ![c] = guest_stack_pointer]
  /\ UNCHANGED <<sharedVars, gpc, regs, launch_state, vmxVars, vcpuVars, boundVars,
                 bugcheck>>

\* __vmx_vcpu_run loads RCX to R15 from the shared words, RAX last.
LoadRegs(c) ==
  /\ Goto(c, "gprs", "entry")
  /\ regs' = [regs EXCEPT ![c]["gpr"] = VCPU_regs["gpr"]]
  /\ UNCHANGED <<sharedVars, gpc, guest_rsp, launch_state, vmxVars, vcpuVars,
                 boundVars, bugcheck>>

\* VMRESUME wants a launched VMCS, VMLAUNCH a clear one.
EntryInstructionFits(c) == launched[c] = (launch_state[c] = "launched")

LoadRax(c) == regs' = [regs EXCEPT ![c]["rax"] = VCPU_regs["rax"]]

EntrySucceeds(c) ==
  /\ EntryInstructionFits(c)
  /\ Goto(c, "entry", "guest")
  /\ LoadRax(c)
  /\ launch_state' = [launch_state EXCEPT ![c] = "launched"]
  /\ UNCHANGED <<sharedVars, gpc, guest_rsp, vmxVars, vcpuVars, boundVars, bugcheck>>

\* VM-Fail: the instruction falls through to Lvmfail, no register is saved;
\* vmx_vcpu_run notes 0xdead and leaves launched alone.
EntryVmFail(c) ==
  /\ "vmfail" \in EntryFails \/ ~EntryInstructionFits(c)
  /\ Goto(c, "entry", "handle")
  /\ LoadRax(c)
  /\ fail' = [fail EXCEPT ![c] = TRUE]
  /\ exit_reason' = [exit_reason EXCEPT ![c] = NoExit]
  /\ mode' = [mode EXCEPT ![c] = "OUTSIDE_GUEST_MODE"]
  /\ UNCHANGED <<sharedVars, gpc, guest_rsp, launch_state, launched, guest_state_loaded,
                 r, run_exit_reason, run_bus_lock, boundVars, bugcheck>>

\* The guest-state checks fail: a VM exit with failed_vmentry, and the
\* launch state stays as it was.
EntryInvalidState(c) ==
  /\ "invalid_state" \in EntryFails
  /\ EntryInstructionFits(c)
  /\ Goto(c, "entry", "exited")
  /\ LoadRax(c)
  /\ exit_reason' = [exit_reason EXCEPT ![c] = FailedEntry]
  /\ UNCHANGED <<sharedVars, gpc, guest_rsp, launch_state, launched, fail, vcpuVars,
                 boundVars, bugcheck>>

\* vmx_vmexit stores RAX first ...
SaveRax(c) ==
  /\ Goto(c, "exited", "save")
  /\ VCPU_regs' = [VCPU_regs EXCEPT !["rax"] = regs[c]["rax"]]
  /\ UNCHANGED <<waiting, guest_stack_pointer, host_frames, guestVars, vmxVars,
                 vcpuVars, boundVars, bugcheck>>

\* Mutant: launched is set before the failed entry is noticed.
MarkLaunchedAlways(c) == launched' = [launched EXCEPT ![c] = TRUE]

\* loaded_vmcs->launched is set once an entry has passed every check.
MarkLaunched(c) ==
  launched' = IF exit_reason[c].failed_vmentry THEN launched
              ELSE [launched EXCEPT ![c] = TRUE]

SaveGprs(c) == VCPU_regs' = [VCPU_regs EXCEPT !["gpr"] = regs[c]["gpr"]]

\* ... then the other registers, pops its frame and returns to vmx_vcpu_run.
SaveRegs(c) ==
  /\ c \in host_frames
  /\ Goto(c, "save", "handle")
  /\ SaveGprs(c)
  /\ fail' = [fail EXCEPT ![c] = FALSE]
  /\ MarkLaunched(c)
  /\ mode' = [mode EXCEPT ![c] = "OUTSIDE_GUEST_MODE"]
  /\ UNCHANGED <<waiting, guest_stack_pointer, host_frames, guestVars, exit_reason,
                 guest_state_loaded, r, run_exit_reason, run_bus_lock, boundVars,
                 bugcheck>>

\* The guest has overwritten the frame: the processor returns to nowhere.
FrameLost(c) ==
  /\ c \notin host_frames
  /\ Goto(c, "save", "handle")
  /\ SaveGprs(c)
  /\ bugcheck' = "host_stack"
  /\ UNCHANGED <<waiting, guest_stack_pointer, host_frames, guestVars, vmxVars,
                 vcpuVars, boundVars>>

-----------------------------------------------------------------------------
(* vmx_handle_exit.  No fast path is ever taken. *)

EntryFailed(c) == exit_reason[c].failed_vmentry \/ fail[c]

\* Handlers that let the guest resume, whatever they did or did not do.
Resuming == {"resume", "instruction", "bus_lock"}

\* Handlers that are not written: they return 0 and say nothing in kvm_run.
Unwritten == {"stop"}

\* What a handler may return; kvm_mmu_page_fault decides for EPT violations.
HandlerReturns(e) ==
  IF e = "ept_violation" THEN {-1, 0, 1}
  ELSE IF e \in Resuming THEN {1}
  ELSE IF e \in Unwritten \cup {"triple_fault", "beyond_table"} THEN {0} ELSE {}

\* Mutant: VM-Fail is not reported.
ReasonWithoutVmFail(c) ==
  IF exit_reason[c].failed_vmentry THEN "KVM_EXIT_FAIL_ENTRY"
  ELSE IF exit_reason[c].basic = "triple_fault" THEN "KVM_EXIT_SHUTDOWN"
  ELSE IF exit_reason[c].basic = "beyond_table" THEN "KVM_EXIT_INTERNAL_ERROR"
  ELSE run_exit_reason[c]

\* The kvm_run reason __vmx_handle_exit and the handler leave behind.
ReasonSet(c) ==
  IF EntryFailed(c) THEN "KVM_EXIT_FAIL_ENTRY"
  ELSE IF exit_reason[c].basic = "triple_fault" THEN "KVM_EXIT_SHUTDOWN"
  ELSE IF exit_reason[c].basic = "beyond_table" THEN "KVM_EXIT_INTERNAL_ERROR"
  ELSE run_exit_reason[c]

\* handle_bus_lock_vmexit sets the flag, which the processor may also have
\* set with another exit reason.
BusLock(c) ==
  exit_reason[c].bus_lock_detected \/ exit_reason[c].basic = "bus_lock"

\* Mutant: vcpu_run stops for errors only.
ContinuesOnZero(ret) == ret >= 0

\* vcpu_run goes round again only for a positive result.
Continues(ret) == ret > 0

HandleExit(c) ==
  /\ ~EntryFailed(c) => exit_reason[c].basic # "init_signal"
  /\ \E ret \in IF EntryFailed(c) THEN {0} ELSE HandlerReturns(exit_reason[c].basic) :
       LET bus == ~EntryFailed(c) /\ BusLock(c)
           res == IF bus THEN 0 ELSE ret
       IN /\ r' = [r EXCEPT ![c] = res]
          /\ Goto(c, "handle", IF Continues(res) THEN "loop" ELSE "put")
          /\ run_exit_reason' = [run_exit_reason EXCEPT ![c] =
                IF bus /\ ret > 0 THEN "KVM_EXIT_X86_BUS_LOCK" ELSE ReasonSet(c)]
          /\ run_bus_lock' = [run_bus_lock EXCEPT ![c] = @ \/ bus]
  /\ exit_reason' = IF ~EntryFailed(c) /\ exit_reason[c].basic = "bus_lock"
                    THEN [exit_reason EXCEPT ![c] = BusLockExit] ELSE exit_reason
  /\ UNCHANGED <<sharedVars, guestVars, launched, fail, guest_state_loaded, mode,
                 boundVars, bugcheck>>

\* kvm_vmx_exit_handlers has no entry for an INIT signal: a call to NULL.
HandleNull(c) ==
  /\ Goto(c, "handle", "handle")
  /\ ~EntryFailed(c)
  /\ exit_reason[c].basic = "init_signal"
  /\ bugcheck' = "null_handler"
  /\ UNCHANGED <<sharedVars, guestVars, vmxVars, vcpuVars, boundVars>>

\* kvm_mmu_reload, or the handler of an EPT violation, stops the machine.
MmuStops(c) ==
  /\ \/ Goto(c, "loop", "loop")
     \/ /\ Goto(c, "handle", "handle")
        /\ ~EntryFailed(c) /\ exit_reason[c].basic = "ept_violation"
  /\ bugcheck' = "mmu"
  /\ UNCHANGED <<sharedVars, guestVars, vmxVars, vcpuVars, boundVars>>

-----------------------------------------------------------------------------
(* The guest *)

\* Guest code computes in its registers, and what it pushes below its stack
\* pointer may hit the run loop frames kept there: those of the processor
\* whose stack it started on and, once it has moved on, those on the stack
\* of any thread that left its RunKvm behind.
LeftBehind == {s \in CPU : gpc[s] = "os"}

GuestComputes(c, stacks) ==
  /\ regs' = [regs EXCEPT ![c] = [x \in Register |-> c]]
  /\ guest_rsp' = [guest_rsp EXCEPT ![c] = "moved"]
  /\ \E hit \in {{}} \cup {{s} : s \in stacks} : host_frames' = host_frames \ hit

\* vm_restore_state returns into RunKvm, which returns to the broadcast.
GuestReturn(c) ==
  /\ pc[c] = "guest" /\ gpc[c] = "restore"
  /\ gpc' = [gpc EXCEPT ![c] = "os"]
  /\ waiting' = waiting \ {c}
  /\ GuestComputes(c, {guest_rsp[c]})
  /\ UNCHANGED <<pc, guest_stack_pointer, VCPU_regs, launch_state, vmxVars, vcpuVars,
                 boundVars, bugcheck>>

GuestOs(c) ==
  /\ pc[c] = "guest" /\ gpc[c] = "os"
  /\ GuestComputes(c, LeftBehind)
  /\ UNCHANGED <<pc, gpc, waiting, guest_stack_pointer, VCPU_regs, launch_state,
                 vmxVars, vcpuVars, boundVars, bugcheck>>

\* A KVM_RUN broadcast finds the processor in the guest: vm_save_state
\* stores its stack pointer, and the VMWRITE in vcpu_load is next.
GuestCall(c) ==
  /\ pc[c] = "guest" /\ gpc[c] = "os" /\ c \in waiting
  /\ gpc' = [gpc EXCEPT ![c] = "vmx"]
  /\ guest_stack_pointer' = c
  /\ GuestComputes(c, LeftBehind)
  /\ UNCHANGED <<pc, waiting, VCPU_regs, launch_state, vmxVars, vcpuVars, boundVars,
                 bugcheck>>

VmExit(c, e, bus) ==
  /\ Goto(c, "guest", "exited")
  /\ exit_reason' = [exit_reason EXCEPT ![c] =
        [basic |-> e, failed_vmentry |-> FALSE, bus_lock_detected |-> bus]]
  /\ UNCHANGED <<sharedVars, guestVars, launched, fail, vcpuVars, runs, bugcheck>>

\* The VMX instruction traps; RIP still names it.
InstructionExit(c) ==
  /\ gpc[c] = "vmx"
  /\ VmExit(c, "instruction", FALSE)
  /\ UNCHANGED exits

OtherExit(c) ==
  /\ exits[c] < MaxExits
  /\ exits' = [exits EXCEPT ![c] = @ + 1]
  /\ \E e \in Exits \ {"instruction"} :
       \E bus \in IF "bus_lock" \in Exits THEN BOOLEAN ELSE {FALSE} : VmExit(c, e, bus)

-----------------------------------------------------------------------------
HostStep(c) ==
  \/ SaveState(c) \/ IoctlRun(c) \/ ReloadFails(c) \/ PrepareSwitch(c) \/ Put(c)
  \/ EnterExit(c) \/ LoadRegs(c)
  \/ EntrySucceeds(c) \/ EntryVmFail(c) \/ EntryInvalidState(c)
  \/ SaveRax(c) \/ SaveRegs(c) \/ FrameLost(c)
  \/ HandleExit(c) \/ HandleNull(c) \/ MmuStops(c)

GuestStep(c) ==
  \/ GuestReturn(c) \/ GuestOs(c) \/ GuestCall(c)
  \/ InstructionExit(c) \/ OtherExit(c)

Next ==
  /\ bugcheck = "none"
  /\ KvmRun \/ \E c \in CPU : HostStep(c) \/ GuestStep(c)

Spec == Init /\ [][Next]_vars

\* A processor in root mode executes its run loop with interrupts off, so
\* nothing holds it up; a guest at a VMX instruction executes it.
Fairness ==
  \A c \in CPU :
    /\ WF_vars(bugcheck = "none" /\ HostStep(c))
    /\ WF_vars(bugcheck = "none" /\ InstructionExit(c))

FairSpec == Spec /\ Fairness

-----------------------------------------------------------------------------
(* Properties *)

InRoot(c) == pc[c] \notin {"guest", "exited", "save"}

\* The driver's launched flag tells the VMCS's launch state whenever
\* __vmx_vcpu_run_flags reads it, failed entries included: no VM entry fails
\* because VMLAUNCH and VMRESUME were confused.
LaunchStateAgrees ==
  bugcheck = "none" =>
    \A c \in CPU : InRoot(c) => launched[c] = (launch_state[c] = "launched")

\* When the run loop ends after a VM entry that failed, by VM-Fail or by the
\* guest-state checks, kvm_run says KVM_EXIT_FAIL_ENTRY (__vmx_handle_exit).
EntryFailureReported ==
  \A c \in CPU :
    pc[c] = "put" /\ r[c] = 0 /\ EntryFailed(c)
      => run_exit_reason[c] = "KVM_EXIT_FAIL_ENTRY"

\* A bus lock in the guest always ends the run loop and is told to the
\* caller (vmx_handle_exit), whichever exit it came with.
BusLockReported ==
  \A c \in CPU :
    exit_reason[c].bus_lock_detected /\ InRoot(c) /\ pc[c] # "handle" =>
      /\ r[c] <= 0
      /\ pc[c] = "put" /\ r[c] = 0 => run_bus_lock[c]

\* Once a processor is back from RunKvm in root mode, nothing of the guest is
\* left loaded and the vCPU is outside guest mode, whichever way the loop
\* ended (vmx_prepare_switch_to_host, vcpu_enter_guest).
NothingLeftLoaded ==
  \A c \in CPU :
    pc[c] = "idle" => ~guest_state_loaded[c] /\ mode[c] = "OUTSIDE_GUEST_MODE"

\* The guest of a processor finds in its registers what it left there; at
\* vm_restore_state that is zero, the status with which RunKvm then returns.
\* vmxenter.asm describes @regs as the guest registers of the vCPU it runs.
OwnRegisters ==
  \A c \in CPU : pc[c] = "guest" =>
    \A x \in Register : regs[c][x] = IF gpc[c] = "restore" THEN "zero" ELSE c

\* A vCPU that has been launched is resumed with the stack pointer it had at
\* its VM exit: a handler that returns 1 says the guest may resume.
ResumeKeepsRsp ==
  [][\A c \in CPU : pc[c] = "enter" /\ launched[c] /\ pc'[c] = "gprs"
       => guest_rsp'[c] = guest_rsp[c]]_vars

\* At a VM exit the run loop's frame is still on the stack, with the @flags
\* and @vmx that __vmx_vcpu_run pushed.
HostFramesIntact == bugcheck # "host_stack"

\* The value vcpu_run returns reaches the caller of KVM_RUN, who must still be
\* waiting for it.
ReturnedToCaller == bugcheck # "second_return"

\* A handler that returns 0 has set the kvm_run parameter: the reason is not
\* the zero of the fresh page.
ExitReasonSet ==
  \A c \in CPU :
    pc[c] = "put" /\ r[c] = 0 => run_exit_reason[c] # "KVM_EXIT_UNKNOWN"

\* A processor in root mode gets into its guest or out of RunKvm, whatever
\* entries fail: it does not spin in vcpu_run, which would hold up every
\* processor waiting for the broadcast.
RootModeEnds ==
  \A c \in CPU :
    pc[c] \notin {"idle", "guest"} ~> (pc[c] \in {"idle", "guest"} \/ bugcheck # "none")

\* A guest whose instruction was handled gets past it.
InstructionCompletes ==
  \A c \in CPU : gpc[c] = "vmx" ~> (gpc[c] # "vmx" \/ bugcheck # "none")

=============================================================================
