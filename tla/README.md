# svmx: TLA+ models, checks and proofs

svmx is a Windows kernel driver that ports the core of Linux KVM. It creates one
virtual machine at a time, gives it one vCPU for each processor, describes the
machine's physical memory to it as memory slots, and runs all vCPUs at once in a
broadcast to every processor. This directory holds TLA+ modules that follow the
driver's code, TLC configurations that check them on small instances, and TLAPS
proofs of most of the safety properties for every instance.

## The system

| Part | State | Operations | Interaction |
|---|---|---|---|
| Driver (`svmx.c`) | device object, `vmxarea`, `current_vmcs`, `hardware_enabled`, `g_kvm` | `DriverEntry`, `DriverUnload`, `DriverDeviceControl` | turns requests into calls of the parts below |
| VM life cycle (`kvm_main.c`, `x86.c`) | `vm_list`, `kvm_usage_count`, `struct kvm` | `KVM_CREATE_VM`, `KVM_RELEASE_VM` | `kvm_lock`; enables and disables VMX by broadcast |
| vCPUs and VMCSs (`kvm_main.c`, `vmx.c`) | `created_vcpus`, `vcpu_array`, `loaded_vmcs`, `loaded_vmcss_on_cpu`, VPID bitmap | `KVM_CREATE_VCPU`, `vcpu_load`, `kvm_vcpu_reset`, `free_loaded_vmcs` | VMX instructions on the executing processor, or on one chosen by broadcast |
| Memory slots (`kvm_main.c`, `kvm_host.h`, `x86.c`) | two memslot sets, generations, per-vCPU cached slot, page totals | `KVM_SET_USER_MEMORY_REGION`, `kvm_vcpu_gfn_to_memslot` | `slots_loc`, `slots_arch_lock`; look-ups come from EPT violations |
| Run loop (`x86.c`, `vmx.c`, `vmxenter.asm`) | registers, `launched`, request bits, exit reasons | `vcpu_enter_guest`, `vmx_vcpu_run`, exit handlers | one process per processor inside the `KVM_RUN` broadcast |
| TDP MMU (`tdp_mmu.c`, `tdp_iter.c`, `mmu.c`, `spte.c`) | roots, page tables, memory caches | root allocation, `kvm_tdp_mmu_map` | shared by all vCPUs, compare-exchange on entries |
| Vendor set-up (`vmx.c`, `svm.c`) | `vmcs_config`, capabilities | `hardware_setup`, `setup_vmcs_config`, `init_vmcs` | at driver load and vCPU creation |
| Guest registers (`vmx.c`, `x86.c`, `kvm_cache_regs.h`) | guest fields and read shadows of the VMCS, register cache | `kvm_vcpu_reset`, `vmx_set_cr0`, `vmx_cache_reg`, `handle_cr` | between the run loop and the VMCS |
| Gfn tree (`rbtree.c`) | nodes, colours, parent links | insertion, removal, replacement, look-ups | one in each memslot set |
| Hash table (`mphashtable.c`) | `g_Table` | insertion, look-up, iterator | `sptep_to_sp` of the TDP MMU |

What is hard to test in it: requests of two threads interleave between any two
accesses; a thread continues on another processor between two VMX instructions;
a broadcast stops a thread in the middle of a change; an allocation fails half way
through; requests come in any order and number. `hazards` in `PROJECT.json` lists
each such place with the properties that watch it.

## Modules

### Lifecycle

The four requests of a VM's life down to the VMX instructions each processor
executes. Threads run at PASSIVE_LEVEL, so every access to shared state, or section
under `kvm_lock` or `kvm->lock`, is one step of its thread, and the processor `e`
that executes a step is chosen afresh: this is what makes VMWRITEs of vCPU creation
land in another VMCS. `KeIpiGenericCall` is one step, because no processor leaves it
before all have run the function.

| Variables | Code |
|---|---|
| `vmxe`, `vmx_root`, `vmptr` | CR4.VMXE, VMX operation and the current-VMCS pointer of each processor (hardware) |
| `kvm_usage_count`, `hardware_enabled`, `vm_list`, `g_kvm` | the globals of `kvm_main.c` and `svmx.c` |
| `created_vcpus`, `vcpu_array`, `vms` | `struct kvm`; `vms` says whether it is allocated, released or freed |
| `vmcs`, `vmcs_cpu`, `launched`, `current_vmcs`, `loaded_vmcss_on_cpu` | `struct loaded_vmcs` and the per-processor tables of `vmx.c` |
| `host_tr`, `reset_by` | which processor's host tables, and which vCPU's reset state, a VMCS holds |
| `vpid_bitmap`, `vpid_buf`, `vpid` | the VPID bitmap, whether its buffer is allocated, each vCPU's VPID |
| `pc`, `kvm`, `id`, `vcpu` | a thread's position and locals |
| `bugcheck` | why the machine stopped, or "none" |

`KVM_CREATE_VM` is `kvm_create_vm`, `link_vm`, `kvm_dev_ioctl_create_vm`;
`KVM_CREATE_VCPU` loops over `reserve_vcpu`, `alloc_vcpu`, `set_vpid`,
`alloc_loaded_vmcs`, `load_insert`, `load_vmptrld`, `load_write`, `kvm_vcpu_reset`,
`store_vcpu`; `KVM_RELEASE_VM` is `kvm_destroy_vm`, `free_loaded_vmcs` for each
vCPU, `hardware_disable_all`.

`KVM_RUN` is one step that loads each vCPU and marks launched those whose entry
succeeded. Inside it no guest instruction completes: the EPT violation of the first
fetch stops the machine (`tdp_mmu_fault`), as does an EPT violation of a frame without a
memory slot. The broadcast returns when each processor has
left its loop, because an entry failed or a handler returned 0; all are then in VMX root
operation again.

What stops the machine is part of the model: NULL dereferences (`g_kvm`, an empty
`vcpu_array` entry, a failed VMCS allocation), VMX instructions outside VMX
operation, list corruption found by `RemoveEntryList`, the cursor of
`vmclear_local_loaded_vmcss` that never advances, a broadcast requested inside a
broadcast. After one of these only `Halted` is possible.

### Memslots

`KVM_SET_USER_MEMORY_REGION` for one VM and the look-ups of its vCPUs. A region is a
slot number, a first frame, a number of pages and flags; `valid` stands for the
sanity checks (flag bits, alignment, slot and address-space number, wrap-around,
size limit). A change passes through `kvm_set_memory_region` (takes `slots_loc`),
`__kvm_set_memory_region` (checks, overlap, allocation), `kvm_set_memslot`
(`slots_arch_lock`, `invalid_slot`, preparation), `kvm_create_memslot` (the first
replacement, which `kvm_move_memslot`, `kvm_delete_memslot` and
`kvm_update_flags_memslot` share), `kvm_swap_active_memslots`, `settle_generation`,
`kvm_activate_memslot`, `kvm_commit_memory_region`, `release_slots_loc` and, after
the last range, `complete_request`.

The hash table and the gfn tree of each set are sets of blocks; the overlap check
follows the iterator (`GfnRange`), and an insertion at an equal base stops the
machine as `kvm_insert_gfn_node` does. Blocks are reused after they are freed. The
generation is a number with the in-progress bit; it cannot reach its 63 bits.
`nr_memslot_pages` cannot overflow (2^15 slots of fewer than 2^31 pages), so the
check for that is left out.

`invalid_slot` is used uninitialised by DELETE and MOVE. The model takes two outcomes:
the block reads as zeros and the code goes on, or the machine stops. MOVE always
stops at the commit, where the metadata pointers just overwritten are freed. A failed
allocation in `kvm_alloc_memslot_metadata` stops the machine too: the error path frees
`rmap` pointers that are NULL with the TDP MMU.

The only caller today, `kvm_vm_ioctl`, passes the physical memory ranges of the
machine: no flags, no empty range, and a move only when memory was added to the host.
The runs also use flags, moves and deletions, which are part of what
`kvm_set_memory_region` accepts.

### VcpuRun

`KVM_RUN` from the inside. svmx virtualises the system that is running: `RunKvm`, on
every processor at once, calls `vm_save_state`, which notes its stack pointer and
enters the run loop; the guest starts at `vm_restore_state` and returns from the same
call with status 0. If the loop ends instead, `vm_save_state` returns 0xC0000001 in
root mode.

| Variables | Code |
|---|---|
| `pc`, `waiting` | each processor's place in the run loop; who has yet to return from the broadcast |
| `gpc`, `regs`, `guest_rsp`, `launch_state` | the guest (at `vm_restore_state`, in the system, at a VMX instruction), its registers, GUEST_RSP, the VMCS's launch state (hardware) |
| `guest_stack_pointer`, `VCPU_regs` | the globals all processors share |
| `host_frames` | processors whose run loop frames are intact on the stack |
| `launched`, `fail`, `exit_reason`, `guest_state_loaded`, `mode`, `r` | `struct loaded_vmcs`, `struct vcpu_vmx`, `struct kvm_vcpu`, the result of `vcpu_enter_guest` |
| `run_exit_reason`, `run_bus_lock` | `struct kvm_run` |

Actions: `KvmRun`, `SaveState`, `IoctlRun`, `ReloadFails` or `PrepareSwitch`,
`EnterExit`, `LoadRegs`, one of `EntrySucceeds`, `EntryVmFail`, `EntryInvalidState`,
then `SaveRax`, `SaveRegs` (or `FrameLost`), `HandleExit` (or `HandleNull`), `Put`;
`GuestReturn`, `GuestOs`, `GuestCall`, `InstructionExit`, `OtherExit` are the guest. A
register's content is the name of the processor whose guest computed it; RAX, saved
first and loaded last, is separate from the others. Stack pointers are named by the
stack they point into.

Dead in the code and left out: `emulation_required` is never set, no fast path
returns anything but NONE, `mp_state` stays RUNNABLE.

The guest and the MMU are an open environment here: at this commit a guest under EPT
stops the machine at its first fetch, and `VcpuRun` asks what the run loop does for any
guest that executes. `MmuStops` is the reload that finds no memory slot.

### RbTree and GfnSet

The red-black tree behind the gfn tree of a memslot set, pointer by pointer. `tree` is
`struct rb_root` and every `struct rb_node`; an operation is one step that links or
unlinks a node (`kvm_replace_memslot`), then one step for each iteration of the
rebalancing loop (`__rb_insert`, `____rb_erase_color`), whose locals are `node` and
`parent`. The code writes each case for a left and for a right child; the operators take
the side as an argument. Look-ups (`search_memslots`, the range iterator, `rb_next`,
`rb_prev`) are operators, because only the set that is not active changes.

`GfnSet` is what `Memslots` assumes of the tree: a set of slots with distinct first
frames. `ImplementsGfnSet` shows that `RbTree` implements it.

### HashTable and EntrySet

`mphashtable.c` with its iterator, a bucket's chain being a sequence of entries and a link
a position on it. `HashUlongPtr` is computed as the code does, over the eight bytes of the
value, modulo the number of buckets. `TableAssumption` says that the array that is allocated
has a power of two of entries, as the 512 of `kvm_mmu_create` are: `HashTableChangeTable`
rounds the number of buckets up, and with any other number the buckets would lie outside it.
`kvm_mmu_create` initialises the one global table again for every vCPU, so entries of
earlier vCPUs are forgotten; when it cannot allocate the buckets it returns with the table
initialised and without any (`kvm_mmu_create_fails`), and inserting into that would write
through NULL. `HashTableChangeTable` is only called on the table just initialised, so its loop
that moves entries (mphashtable.c:116-127) has nothing to do there and is not translated. With
entries to move it would be wrong: it computes the index in the new array from the old number of
buckets. `ImplementsEntrySet` shows that what can be found is a set
of entries (`EntrySet`) that each operation extends, shrinks or empties.

### TdpMmu

`kvm_mmu_load` before an entry and `kvm_mmu_page_fault` after an EPT violation, by all
processors at once. No lock is taken on this path, so a step is what lies between two
accesses to shared memory; the compare-exchange of `tdp_mmu_set_spte_atomic` is one step,
and its result is dropped as in the code.

| Variables | Code |
|---|---|
| `spt`, `sp` | page tables and their `struct kvm_mmu_page`; an SPTE is the table it points to |
| `flink`, `blink`, `next` | `tdp_mmu_roots`, and the local of `InsertHeadList` |
| `root`, `nobjs`, `iter`, `gfn`, `new` | `mmu->root.hpa`, the memory caches, `struct tdp_iter`, the fault, the page taken from the cache |
| `n_max_mmu_pages`, `tdp_mmu_pages` | the limit `make_mmu_pages_available` compares with, and the count |
| `machine` | what stopped the machine |

`sptep_to_sp` looks an SPTE's page up in `g_Table`, into which no page is ever entered,
and its callers dereference the NULL it returns. The constant `Registered` is FALSE for
that code (`tdp_mmu_fault`) and TRUE when the look-up is supposed to work, which shows
what lies behind it (`tdp_mmu`). Behind it the walk creates every table down to the
target level and answers `RET_PF_FIXED` without a leaf.

Facts of the code that shape the model: `root_role` is the same for all vCPUs, so
they share a root once it is on the list; every `kvm_mmu_load` takes another reference,
which nothing puts; `kvm_tdp_mmu_get_vcpu_root_hpa` returns the physical address of the
`struct kvm_mmu_page`, not of the table (tdp_mmu.c:84-87), and the EPTP is made from it;
`REMOVED_SPTE` is never written; `handle_ept_misconfig` changes nothing here;
`is_mmio_spte` (spte.h:196) is not what the comment above the mask says (spte.h:74-75).

### VmxControls and Driver

`VmxControls` has no state: a control word is the set of its bits, a processor the set
of what it supports. `setup_vmcs_config` derives `vmcs_config` (required and optional
controls, matched entry and exit pairs, dependent controls), `hardware_setup` decides the
features, `init_vmcs` computes what a vCPU's VMCS is given, and `VmEntryAccepts` is the
processor's own check (external).

`Driver` is loading and unloading: an action is a stretch of `DriverEntry`, `vmx_init`
or `svm_init` up to the next call that may fail. `mem` tells of each global pointer
whether it is NULL, live or freed; `leaked` collects what is live when the image goes away;
`kvm_x86_ops` is the set of installed operations.

`KVM_CREATE_VM`, `KVM_CREATE_VCPU` and `KVM_RELEASE_VM` come one at a time and in any order.
They are kept as far as they need what loading and earlier VMs left: `hardware_enabled`, `vmxe`
and `vmx_root` are the processors that are marked, have CR4.VMXE on and are in VMX operation,
`g_kvm` is the last VM and how far it got. `EnableHardware` enables the processors that carry
no mark; `hardware_disable_all` is executed by some processor `e`, turns VMX off on all and takes
away the mark of `e` only. A second session after the last VM's release therefore ends in
`KVM_CREATE_VCPU` at a VMCLEAR (#UD) on a processor that is marked and not in VMX operation, or
at the VPID bitmap, which the first release has freed; on a single processor, where no mark
is stale, the bitmap remains, and using it may or may not stop the machine. A request that
needs a VM when there is none, a release of a VM without vCPUs and a second release are out of
order and stop the machine too (`OutOfOrder`). The requests' own allocations, and the VMCSs, are
in `Lifecycle`.

What the code does there, and the properties therefore say: an MMU cache that cannot be
allocated makes loading succeed with nothing set up; `alloc_kvm_area` that runs out of
memory frees regions it has not allocated and returns 1, which counts as success; a
failure to allocate the list heads undoes nothing of the vendor set-up; on a processor
that is neither, or on AMD, the error path of `DriverEntry` frees NULL (svmx.c:130-137);
`svm_data` is never allocated, so `svm_hardware_setup` stops an AMD machine;
`hardware_enabled`, the MMU caches and the lists are never freed; a VM that is alive at unload
leaves VMX on. `init_vmcs` clears the TPR shadow but keeps APIC-register virtualisation
and virtual-interrupt delivery (vmx.c:2964), so on a processor with these a VM entry fails. The
result of `vmx_check_processor_compat` is dropped.

### VmxRegs

The registers of one vCPU: `kvm_vcpu_reset` fills them from the processor it runs on,
`vmx_vcpu_run` writes the dirty ones, the guest flips the bits it owns, `VmExit` clears
the lazy part of the cache, and `handle_cr` or another handler uses it. The module, its three
properties and their proofs are about a vCPU whose creating thread runs on the processor of its
number. The VMWRITEs of `kvm_vcpu_reset` go to the VMCS that is current on the executing
processor, while `vcpu_load` has loaded the vCPU's on processor `vcpu_id` (vmx.c:2607-2693): for
the other vCPUs the reset state lands in another VMCS, which `Lifecycle` follows with `reset_by`
and `host_tr` (`HostStateOfOwnCpu` under Further disagreements). A control
register is the set of its bits; the base of a segment is named by where it comes from.
MOV to CR0 always reads 0 as its new value, because the register file in `vcpu->arch` is
never filled. `vmx_set_cr0` turns the owned bits TS and WP on in the VMCS only while CR0
stays marked available, which `AccessorsAgree` excepts; this contradicts the table at
kvm_cache_regs.h:14-20. `vmx_get_intr_info` at vmx.c:838 reads before the cache is cleared;
nothing uses the value.

### MC modules

The `MC` modules define symmetry sets, regions, slots, entries, frames and kinds of
machine for the `.cfg` files; `VcpuRun` needs no module of its own. `Memslots` uses its
gfn trees as the sets of `GfnSet`, which `RbTree` implements; `Driver` extends
`VmxControls`; `Lifecycle`, `VcpuRun` and `TdpMmu` meet at `KVM_RUN`, each with the other
two as an environment.

## Runs

| Run | Instance | Checks |
|---|---|---|
| `lifecycle_serial` | 2 processors, 2 VMs, 4 vCPUs, 1 thread, 3 VPIDs, all failures | `LoadedVmcsTracked`, `CurrentVmcsAgrees`, `NoTeardownFault`, `VpidUnique`, `VmxOnlyWhileUsed`, `UsageCountsVms` |
| `lifecycle_race` | 2 processors, 1 VM, 3 vCPUs, 2 threads | `FreedVmcsNotCurrent`, `FullArrayHoldsAll` |
| `memslots_update` | 2 slot numbers, 3 blocks, 1 thread, 1 vCPU, 4 changes | `ActiveSlotsDisjoint`, `SetsAgree`, `CachedSlotCurrent`, `PagesAccounted`, `BitmapsFollowFlags`, `SlotsStayVisible` |
| `memslots_threads` | 2 threads, 3 blocks, up to 4 changes: creations, flags, moves, deletions, refusals, fair | `DecisionHolds`, `RequestsReturn` |
| `vcpu_run` | 1 processor, 3 KVM_RUN, 3 exits, every class and failure, fair | `LaunchStateAgrees`, `EntryFailureReported`, `NothingLeftLoaded`, `RootModeEnds` |
| `vcpu_run_registers` | violation, 2 processors | `OwnRegisters`: a guest gets another guest's registers |
| `rbtree` | 12 slots, 6 of which come and go, 4 moves, fair | `WellFormed`, `LookupsAgree`, `ImplementsGfnSet`, `RebalancingEnds` |
| `hashtable` | 4 entries, 2 or 4 buckets, with and without an ignored bit | `TableSound`, `IterationComplete`, `ImplementsEntrySet` |
| `tdp_mmu` | 2 processors, 3 levels of 2 entries, 2 frames, 3 entries, fair | `WalkOnPath`, `TablesFormTrees`, `CacheSuffices`, `RootsReferenced`, `PresentStays`, `FaultsAnswered` |
| `tdp_mmu_fault` | violation, the look-up as it is | `FaultsHandled`: the first EPT violation dereferences NULL |
| `driver` | 146 kinds of machine, 2 processors, 2 loads, 2 failures, 2 VMs at a time | `StopsExplained`, `LeaksKnown`, `ConfigDependencies`, `VmcsAccepted` |
| `vmx_regs` | 8 host CR4 values, 4 owned bits | `GuestStateValid`, `GuestContinuesHost`, `AccessorsAgree` |

The device is exclusive and the client's handle synchronous, so its requests come one
at a time: that is `lifecycle_serial`. A handle shared by threads allows the
interleavings of the other runs. With two threads and two processors
`LoadedVmcsTracked`, `CurrentVmcsAgrees`, `NoTeardownFault` and `VpidUnique` do not
hold: `InsertHeadList`, `current_vmcs` and the VPID bitmap have no lock. They are
promises for serial requests only. `VpidUnique` is moreover a promise for the time the
bitmap exists: the first `vmx_hardware_disable` frees it (vmx.c:592-595), `allocate_vpid`
searches the freed buffer from then on, and vCPUs created later may get the same VPID.

Bounds. Two processors tell "the executing one" from "the other one"; two VMs one after the
other reach a leaked or released VM beside a live one. A VM can ask for at most N vCPUs, so N
vCPU objects for each VM never run out. Two slot numbers over five frames give every relation of
two ranges (apart, touching, overlapping, contained); four changes reuse freed blocks, and three
blocks are two slots and the copy being built. `MaxGen` bounds the changes that succeed and
nothing else. `memslots_threads` has requests of every kind, of one range or two, so that a
thread comes back to a mutex it has given up or not; it leaves out look-ups, which take no mutex
(`Gfn` is empty), and does not check deadlock, because a thread that waits for ever is what
`RequestsReturn` itself decides. Symmetry is used only in runs without liveness. In `VcpuRun`
three exits and three requests on one processor give every order of a failed entry, a resumed
exit and a loop that ends; the exits at a VMX instruction are not counted, so that run has a
real cycle. The runs of `VcpuRun` do not check deadlock: after a fault, or with the bounds used
up, nothing follows.

In `RbTree` half of the slots enter once, in order, and stay, which gives a tree of four
levels; the others come and go at both ends and inside, and the four moves exchange a slot
at its frame and carry one up and down the tree. This fires every case of insertion and
removal on both sides; the bounds `Volatile` and `Moves` only limit which slots do so. Two
buckets make all entries of `HashTable` collide, four do not. In `TdpMmu` two frames share
the root only, so two processors race on the root's entry and below it; eight pages hold
two roots and all tables of both; `CacheMin = CacheCapacity = RootLevel` is the tightest
cache the code's constants allow; three calls of `kvm_mmu_load` let a vCPU come back
while the other still handles a fault. `Driver` takes away any two of the features a
decision depends on, and two allocation failures reach an error path inside an error path;
two loads meet what the first left behind; two VMs at a time reach a VM that is forgotten and
stays counted, and the sessions of one load, which follow each other without a bound, the
stale marks. `VmxRegs` needs no bound. `Driver` and `TdpMmu` do not check
deadlock: a stopped machine, or one with its loads or entries used up, stays.

Fairness. `RequestsReturn` assumes that a thread that can run does (WF) and that a thread
waiting for `slots_loc` gets it if it is free again and again (SF), because Windows hands a
mutex to its waiters in order. It assumes nothing of new requests or look-ups. It makes three
exceptions, and without any one of them TLC finds a counterexample. A refused MOVE has kept
`slots_arch_lock` (`ArchLockReleased` below): its thread is stopped on leaving, and others wait.
The machine stops while a DELETE or a MOVE uses its uninitialised `invalid_slot`. Or it stops
later, because a deletion has left a set whose tree and hash table differ: this takes four
blocks and the request that creates slots 1 and 2, deletes 1 and creates 3 and 4 at the frames
of 1 and 2, with one thread. `RootModeEnds` (and `InstructionCompletes`, below) assume WF of
each processor's own steps in root mode, where interrupts are off, and that a guest executes the
VMX instruction it is at. `RebalancingEnds` assumes WF of the running operation's steps: it
waits for nothing. `FaultsAnswered` assumes WF of each processor's own steps between a fault and
its answer, for the same reason; nothing is assumed of the guest. `memslots_threads` leaves out
the allocation of `lpage_info`, whose failure stops the machine.

### Further disagreements

These properties are stated in the modules and TLC refutes them. No run is kept for
them; adding the property to the `.cfg` named shows the counterexample.

* `DisableReachesAllCpus` (`LifecycleSerial.cfg`): `hardware_disable_all_nolock` clears
  `hardware_enabled` of the executing processor only (kvm_main.c:229) while `cpu_vmxoff`
  broadcasts (virtext.h:50-53); the comment at kvm_main.c:224-225 says it "tells all online CPUs
  to disable hardware". The next session does not enable the others (see `Driver`).
* `HostStateOfOwnCpu` (`LifecycleSerial.cfg`): HOST_TR_BASE and HOST_GDTR_BASE are written on
  the creating thread's processor (vmx.c:2705), not where the VMCS was loaded; the comment at
  vmx.c:2701-2702 asks for the tables of the processor switched to.
* `SetsAgree` with deletions (`MemslotsUpdate.cfg` with `Requests <- WithDelete`):
  `kvm_delete_memslot` replaces the uninitialised `invalid_slot` (kvm_main.c:883), whose removal
  empties the tree of the set that has become inactive; kvm_host.h:1011-1012 says both sets
  "once again point to the same, common set of memslot data". A later move then publishes a set
  with the old slot still in it, which `ActiveSlotsDisjoint` does not survive.
* `SuccessMeansInstalled` (`MemslotsUpdate.cfg`): the result of a range is overwritten by the
  next and dropped (svmx.c:213), so the request always succeeds; the client relies on it
  (src/virt/kvm.c:50-53).
* `ExitReasonSet` (`VcpuRun.cfg`): a dozen handlers return 0 and leave `struct kvm_run` alone
  (vmx.c:962); vmx.c:1192-1193 says they set it.
* `ArchLockReleased` (`MemslotsUpdate.cfg`): `kvm_set_memslot` returns with `slots_arch_lock`
  held when `kvm_prepare_memory_region` refuses a MOVE (kvm_main.c:954); the branch for DELETE
  and MOVE is empty, where the comment at kvm_main.c:949-952 says that the change is reverted,
  which "also release slots_arch_lock".
* `OldSlotPreserved` (`MemslotsUpdate.cfg`): the same refused MOVE has already copied the `arch`
  of the uninitialised `invalid_slot` over the old slot's (kvm_main.c:578).
* `ResumeKeepsRsp` (`VcpuRun.cfg`): `vmx_vcpu_run` writes the global `guest_stack_pointer` to
  GUEST_RSP before every entry (vmx.c:820), so a guest that has returned from `vm_restore_state`
  is resumed on the stack pointer of its start.
* `HostFramesIntact` (`VcpuRun.cfg`): the guest pops and reuses the stack on which the frames of
  the run loop lie, and the exit (vmxenter.asm:179) returns through them.
* `ReturnedToCaller` (`VcpuRun.cfg`): `RunKvm` returns in the guest and, when the loop ends,
  from the same call again in root mode, with 0xC0000001 for any result.
* `InstructionCompletes` (`VcpuRun.cfg` under `FairSpec`): `handle_vmx_instruction` returns 1
  and advances nothing (vmx.c:1017), so the guest exits at that instruction for ever.

## Proofs

Eight modules hold proofs; each EXTENDS the module it is about. Every proof is for all
values of the constants: any number of processors, threads, VMs, slots, levels, loads and
failures. Each inductive invariant was checked with TLC first, on the instance of its run
and on larger ones.

### LifecycleProofs

For any number of threads that issue requests at the same time:

* `TypeCorrect`: `Spec => []TypeOK`. Not immediate: `id` stays a processor number
  because each loop tests its last index before it adds one, and the locals must be
  non-NULL at the control points that use them (`TypeInv`).
* `UsageCorrect`: `Spec => []UsageCountsVms`. The inductive invariant `UsageInv` adds
  that threads between `kvm_destroy_vm` and `hardware_disable_all` hold different live
  VMs that are out of `vm_list`, and that a thread between `kvm_create_vm` and the
  publication holds a VM no other thread has: a VM is then subtracted once.
* `VmxOffCorrect`: `Spec => []VmxOnlyWhileUsed`. `VmxInv` relates VMX operation to
  `CR4.VMXE` and `hardware_enabled`: the last release takes every processor out of VMX
  operation unless the executing one was never enabled, and that happens only when
  some other owner had set CR4.VMXE.
* `FreedCorrect`: `FreedVmcsNotCurrent`. The invariant `VmcsInv` says that the vCPU a thread
  is creating belongs to that thread alone (`CreatingInv`), that a vCPU in a `vcpu_array` is
  at its own index and has been loaded (`StoredInv`), and that a VMCS is current on no
  processor but that of its vCPU (`HomeInv`), so the one VMCLEAR of `free_loaded_vmcs` is
  sent to the one processor that matters. It follows that its path for `cpu = -1` is never
  taken.
* `ArrayCorrect`: `FullArrayHoldsAll`. `CountInv`: the vCPUs made for a VM and the threads
  that have reserved one are together at most `created_vcpus`, which is at most N. N filled
  entries hold N different vCPUs of the VM, which are then all of them.

The assumptions are those named in `Lifecycle`: at least one processor, finitely many
VM objects, NULL is no object.

Under the hypothesis `Serial`, at most one thread: `VpidCorrect`, `TrackedCorrect`,
`CurrentCorrect` and `TeardownCorrect`. With two threads each is false (see Runs). The last
two need the whole story of a VM (`SerialInv`): the VM that is worked on is `g_kvm` and
counted (`LiveInv`), `kvm_destroy_vcpus` has freed exactly the entries it has passed
(`DestroyInv`), a vCPU's processor is in VMX operation as long as its VM is in use
(`RootInv`), and `current_vmcs`, the hardware's pointer and the array of `g_kvm` agree
(`CurrentInv`). The case that is easy to miss is `OrphanInv`: `KVM_RUN` on a VM that was
released puts freed VMCSs back on the lists, and `vmclear_local_loaded_vmcss` would not
end on such a list. This requires another VM that is counted and that nothing points to,
so the count never comes down to 0 again and the lists are never looked at.

### MemslotsProofs

For any number of threads, vCPUs, slots and requests, under the hypothesis `NoDeletion` (no
valid range has zero pages): `DisjointCorrect`, `SetsCorrect`, `CachedSlotCorrect`,
`BitmapsCorrect`, `DecisionCorrect` and the action property `VisibleCorrect`. The only caller never passes an
empty range, and a deletion makes the sets differ for good (Further disagreements). The
invariant follows one change through its steps: `slots_loc` admits one thread (`MutexInv`),
the new block is apart from every slot it does not replace (`ChangeAt`; the lemma `NoOverlap`
shows that the iterator of `kvm_check_memslot_overlap` finds any slot that overlaps), the sets
differ in the old and the new block only, and no vCPU has seen a later generation than the
current one (`GenerationInv`), which is what makes the unlocked cache safe when a block is
freed and used again. `DecisionCorrect` adds to it that the identifier look-up, the overlap check
and the classification read the active set, its slots and the page total only, none of which a
step between the check and the swap changes.

`PagesCorrect` is `PagesAccounted` under the same hypothesis. The total is updated at the
commit, after the swap: `PagesInv` says what it is off by at each step of a change in between,
and that a change of flags keeps the first frame and the size. The frames of a new slot are
disjoint from those of the active set, so the cardinality of the union grows by its pages.

### TdpMmuProofs

For any number of processors, levels and entries per table, whether or not `sptep_to_sp` works:
`TypeCorrect`, `WalkCorrect`, `TreesCorrect`, `CacheCorrect`, `ReferencesCorrect` and the action
property `PresentCorrect`. `OnPath` adds to `WalkOnPath` that each table of the path has the
level and the first frame of its place, which ties the index computed from the frame to the
one computed from `iter->gfn`; `LinkAt` says that a table to be linked was made for the entry
the walk stands at, which was not present when read, so the compare-exchange that
succeeds replaces nothing; `CacheAt` is one page more than the walk still needs;
`ReferenceInv` also counts processors that hold a root they have not published. Assumptions
beyond those the code states: `ExponentAssumption` spells out laws of exponents the provers do
not know (TLC evaluates it), `ProcessorAssumption` and `PointerAssumption` say that the
processors are finitely many and that NULL and the list head are no pages.

### VcpuRunProofs

`VcpuRunProofs` proves for any set of processors, exits, failures and bounds
`TypeCorrect`, `LaunchCorrect` (`LaunchStateAgrees`), `ReportsCorrect`
(`EntryFailureReported` and `BusLockReported`) and `NothingLeftCorrect`
(`NothingLeftLoaded`). The properties speak of root mode only; the inductive invariant
`IndInv` adds what holds on the way: `LaunchInv`, the launch state in the guest and
until `vmx_vcpu_run` has noted it, with the case of an entry that failed; `ModeInv`,
the mode wherever the loop can stop; `FailInv`, a failed entry carries no bus lock,
because `vmx_handle_exit` would report it without the handler having run. It uses only
that the bounds are natural numbers and the exits are among the classes.

### VmxRegsProofs

For any CR4 the host may have with PAE and VMXE on (`HostAssumption`: 64-bit mode, after
VMXON) and any exit qualifications: `GuestStateCorrect`, `ContinuationCorrect` and
`AccessorsCorrect`. `ShadowInv` says that what `vcpu->arch` holds is what the read shadows show,
`ResetInv` that CR3 is either in the VMCS or marked dirty while the guest has paging on, and
`CacheInv` that a register marked available agrees with the VMCS outside the guest.
`OwnedAssumption` restricts the bits the guest flips to those it owns.

### DriverProofs

For any processor, any number of them, of loads, of VMs and of failing allocations:
`StopsCorrect`, `LeaksCorrect`, `ConfigCorrect` and `VmcsCorrect`. TLC takes away two features at
a time; the lemmas `ConfigConsistent` and `ControlsAccepted` hold for every set of features a
processor may report. They need `AllowedAssumption`: a control the capability MSRs report as
"must be one" is also reported as allowed. `IndInv` adds in which order the device, its link and
the arrays become live (`OrderInv`, `VendorInv`), where VMXON regions can be live (`RegionInv`),
that a driver that runs has its operations and regions unless an excused allocation failed
(`ReadyInv`), and that operations are installed only with the configuration `hardware_setup`
computed for this processor (`ConfigInv`). `SessionInv` follows the VM sessions: a mark in
`hardware_enabled` of a processor outside VMX operation exists only after the VPID bitmap was freed,
that is after a last release; as long as there is none CR4.VMXE and VMX operation agree, also
where an earlier load left VMX on, so a counted VM has every processor in VMX operation; and a VM
with vCPUs always has, which is why its release does not take the #UD.

### HashTableProofs

For any entries, hash values, flags and array sizes: `TypeCorrect`, `Sound` (`TableSound`),
`IterationIsComplete` and the refinement `Refinement` (`ImplementsEntrySet`). The invariant
`Inv` adds that every entry is on the chain its key leads to (`Homed`) and on no chain twice
(`Distinct`), and that the iterator stands at a bucket, at its head or at an entry of its chain
(`Placed`), which is what removal through it relies on. That repeated calls of
`HashTableFindNext` return every entry with the key is an induction along the chain: of the
positions that would be missed there would be a least one (the well-foundedness of the natural
numbers, on a set rather than on an operator), and the call before it returns it.

### RbTreeProofs

For any finite set of slots, any sizes and any order of operations: `TypeCorrect`,
`TreeIsSound` (`WellFormed`), `Refinement` (`ImplementsGfnSet`) and `LookupsCorrect`
(`LookupsAgree`).

`Subtree` and `BlackHeights` are recursive, and nothing can be proved about them by unfolding.
The invariant speaks instead of two functions on the nodes that certify the same facts locally.
`below[n]` is the set of nodes below `n`: it is that of its two children and `n`, and the
children's lie on their sides in the order of first frames (`Ordered`). `bh[n]` is the black
height of `n`: that of each child plus the weight of `n`, and one more at the one link where a
loop of `____rb_erase_color` knows a black node to be missing (`Balanced`). Such functions exist
for a tree and for no other linked structure, because along a child link `below` shrinks;
`DownInduction` makes an induction of that, again as a least counterexample, and `SubtreeIs` and
`HeightsAre` show with it that they are what the recursive definitions compute.

`IInv` says which certificate the tree has where: a red-black tree between two operations
(`Finished`); while inserting, one whose node may have a red parent (`Inserting`); while erasing,
one that lacks a black node on one side of `parent` (`Erasing`). `Linked` ties the parent links
to the child links and says that a node outside the tree is cleared, and `NewFits` that the slot
that waits for its insertion starts at a frame of its own. Each operation is then reduced to one
of four changes of a tree, for which the certificates are shown to exist again: a rotation
(`Turned`), a node with one child taken out (`Spliced`), a node put in another's place
(`Substituted`: `rb_replace_node`, and the successor in a removal with two children) and a leaf
added (`Attached`). The code writes some links twice and leaves others wrong for a while within an
iteration; `RotateAtGparentIs`, `RotateAndFlipIs`, `EraseTwoIs` and their like show that its writes
add up to these changes, for both sides at once. That `rb_set_black` is applied to red nodes
only, that the sibling and the grandparent exist where the code dereferences them, and that
an iteration after a red sibling ends the loop, are steps of the proof.

`LookupsCorrect` needs one more invariant, `Apart`: no two slots overlap, of those in the tree
and the one on its way into it. It rests on the guard that `kvm_check_memslot_overlap` gives
`kvm_replace_memslot`; without it a descent may turn away from the slot that holds the frame.
The look-ups are recursive functions over the links, so each proof first exhibits a solution
of the recursion's equation, then shows by induction over the tree that every solution is that
one: downwards for `search_memslots` (`SearchIs`) and the upper bound (`UpperBoundIs`), upwards
for the climb of `rb_next` and `rb_prev` (`NeighbourIs`), along the order of first frames for the
iteration itself (`WalkIs`). The climb is right because a slot outside a subtree lies on the same
side of all its nodes (`Interval`); the iteration starts right because of the slots that start at
or below a frame only the last can reach past it (`IterStartIs`).

### Only model-checked

* Liveness (`RequestsReturn`, `RootModeEnds`, `RebalancingEnds`, `FaultsAnswered`): the prover
  does not handle fairness.

## Not modelled, and why

* Code nothing calls: the shadow MMU (mmu.c:375-708 and 985-1482), unlinking and zapping of
  page tables, `kvm_mmu_destroy`, `HashTableRemoveKey` (which also compares the wrong
  values) and `HashUStringUpcase` (whose loop never advances), `gfn_to_memslot`,
  `reset_guest_paging_metadata`, event injection, `vmx_set_msr` and the exception bitmap,
  which are not in `vmx_x86_ops`, and SVM behind `svm_hardware_setup`.
* MMIO faults: `handle_ept_misconfig` reaches `handle_mmio_page_fault` only with an entry that
  nothing installs.
* HOST_CR3 and the host's segment bases before an entry: they need the host's processes.
* Logging, `dump_vmcs` and the client (I/O); register and MSR tables (data); the stubs of
  the local APIC, PMU, MTRR, page tracking and nested VMX.
