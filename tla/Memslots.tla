------------------------------- MODULE Memslots -------------------------------
(***************************************************************************)
(* Guest memory slots of one VM: KVM_SET_USER_MEMORY_REGION, which changes *)
(* the two memslot sets under slots_loc, and the look-ups that vCPUs make  *)
(* for their EPT violations while a change is under way.                   *)
(*                                                                         *)
(* An EPT violation is handled inside the KVM_RUN broadcast, which holds   *)
(* every processor until it returns; the thread that changes the slots is  *)
(* then stopped between any two of its accesses.  A look-up is therefore   *)
(* one step, and a change is one step for each access a look-up or another *)
(* change can tell apart.                                                  *)
(*                                                                         *)
(* The allocation of invalid_slot is never initialised.  When it happens   *)
(* to read as zeros the code goes on with it; anything else is followed as *)
(* a pointer or as an index into memslots[] and stops the machine.         *)
(***************************************************************************)
EXTENDS Integers, FiniteSets, Sequences

CONSTANTS
  Slot,        \* struct kvm_memory_slot blocks of the pool
  Thread,      \* threads that issue requests
  Vcpu,        \* vCPUs that look up slots
  Requests,    \* lists of regions a request may ask for
  Gfn,         \* guest frames the vCPUs touch
  MaxGfn,      \* kvm_mmu_max_gfn()
  MaxGen,      \* bound: no request starts at a later generation
  Ratio,       \* KVM_MEMSLOT_PAGES_TO_MMU_PAGES_RATIO
  MinPages,    \* KVM_MIN_ALLOC_MMU_PAGES
  MayFail,     \* the allocations that may fail
  Null

Flags == {"log_dirty", "readonly"}

\* struct kvm_userspace_memory_region; valid is FALSE when the flags, the
\* alignment, the slot number or the size fail the sanity checks.
Region == [valid : BOOLEAN, id : Nat, base_gfn : Nat, npages : Nat,
           flags : SUBSET Flags]

ASSUME RequestsAssumption == Requests \subseteq Seq(Region) \ {<<>>}
ASSUME NullSlotAssumption == Null \notin Slot /\ Null \notin Thread
ASSUME GfnAssumption == Gfn \subseteq Nat /\ MaxGfn \in Nat
ASSUME BoundsAssumption ==
  MaxGen \in Nat /\ Ratio \in Nat \ {0} /\ MinPages \in Nat
ASSUME SlotFailAssumption ==
  MayFail \subseteq {"new", "invalid_slot", "dirty_bitmap", "lpage_info"}

VARIABLES
  slot,              \* fields of each block, meaningful while it is in use
  used,              \* blocks in use
  dirty_bitmap,      \* blocks whose dirty_bitmap points to a live bitmap
  arch_lost,         \* blocks whose arch was overwritten by invalid_slot's
  id_hash, gfn_tree, \* members of __memslots[0] and __memslots[1]
  generation,        \* of both sets: a number and the UPDATE_IN_PROGRESS bit
  active,            \* index of the set memslots[] points to
  nr_memslot_pages, n_max_mmu_pages,
  slots_loc,         \* owner of the mutex
  slots_arch_lock,   \* owner of the mutex and how often it holds it
  last_used_slot, last_used_slot_gen,
  ranges, runs,      \* each thread's request and position in it
  pc, old, new, change,
  bugcheck

setVars == <<id_hash, gfn_tree, generation, active>>
poolVars == <<slot, used, dirty_bitmap, arch_lost>>
countVars == <<nr_memslot_pages, n_max_mmu_pages>>
lockVars == <<slots_loc, slots_arch_lock>>
cacheVars == <<last_used_slot, last_used_slot_gen>>
requestVars == <<ranges, runs>>
changeVars == <<old, new, change>>

vars == <<setVars, poolVars, countVars, lockVars, cacheVars, requestVars, pc,
          changeVars, bugcheck>>

ControlPoints ==
  {"idle", "lock", "check", "arch", "install", "swap", "settle", "propagate",
   "commit", "unlock", "return"}

Changes == {"none", "create", "delete", "move", "flags_only"}

Generation == [n : Nat, updating : BOOLEAN]

TypeOK ==
  /\ slot \in [Slot -> [id : Nat, base_gfn : Nat, npages : Nat,
                        flags : SUBSET Flags]]
  /\ used \in SUBSET Slot
  /\ dirty_bitmap \in SUBSET Slot
  /\ arch_lost \in SUBSET Slot
  /\ id_hash \in [{0, 1} -> SUBSET Slot]
  /\ gfn_tree \in [{0, 1} -> SUBSET Slot]
  /\ generation \in [{0, 1} -> Generation]
  /\ active \in {0, 1}
  /\ nr_memslot_pages \in Nat
  /\ n_max_mmu_pages \in Nat
  /\ slots_loc \in Thread \cup {Null}
  /\ slots_arch_lock \in [owner : Thread \cup {Null}, depth : Nat]
  /\ last_used_slot \in [Vcpu -> Slot \cup {Null}]
  /\ last_used_slot_gen \in [Vcpu -> Generation]
  /\ ranges \in [Thread -> Requests \cup {<<>>}]
  /\ runs \in [Thread -> Nat]
  /\ pc \in [Thread -> ControlPoints]
  /\ old \in [Thread -> Slot \cup {Null}]
  /\ new \in [Thread -> Slot \cup {Null}]
  /\ change \in [Thread -> Changes]
  /\ bugcheck \in {"none", "invalid_slot", "equal_gfn", "free_null",
                   "mutex_held"}

\* kvm_create_vm has just returned (struct kvm and the vCPUs are zeroed).
Init ==
  /\ slot = [s \in Slot |-> [id |-> 0, base_gfn |-> 0, npages |-> 0,
                             flags |-> {}]]
  /\ used = {}
  /\ dirty_bitmap = {}
  /\ arch_lost = {}
  /\ id_hash = [i \in {0, 1} |-> {}]
  /\ gfn_tree = [i \in {0, 1} |-> {}]
  /\ generation = [i \in {0, 1} |-> [n |-> 0, updating |-> FALSE]]
  /\ active = 0
  /\ nr_memslot_pages = 0
  /\ n_max_mmu_pages = 0
  /\ slots_loc = Null
  /\ slots_arch_lock = [owner |-> Null, depth |-> 0]
  /\ last_used_slot = [v \in Vcpu |-> Null]
  /\ last_used_slot_gen = [v \in Vcpu |-> [n |-> 0, updating |-> FALSE]]
  /\ ranges = [t \in Thread |-> <<>>]
  /\ runs = [t \in Thread |-> 0]
  /\ pc = [t \in Thread |-> "idle"]
  /\ old = [t \in Thread |-> Null]
  /\ new = [t \in Thread |-> Null]
  /\ change = [t \in Thread |-> "none"]
  /\ bugcheck = "none"

-----------------------------------------------------------------------------
Goto(t, from, to) ==
  /\ pc[t] = from
  /\ pc' = [pc EXCEPT ![t] = to]

BugCheck(why) ==
  /\ bugcheck' = why
  /\ UNCHANGED <<setVars, poolVars, countVars, lockVars, cacheVars,
                 requestVars, pc, changeVars>>

kvm_get_inactive_memslots == 1 - active

First(s) == slot[s].base_gfn
End(s) == slot[s].base_gfn + slot[s].npages

\* KeWaitForSingleObject on a KMUTEX: the owner may take it again.
CanLock(t) == slots_arch_lock.owner \in {Null, t}

Locked(t) == [owner |-> t, depth |-> slots_arch_lock.depth + 1]

\* KeReleaseMutex by its owner.
Released ==
  IF slots_arch_lock.depth <= 1
  THEN [owner |-> Null, depth |-> 0]
  ELSE [slots_arch_lock EXCEPT !.depth = @ - 1]

-----------------------------------------------------------------------------
(***************************************************************************)
(* The look-up of a vCPU                                                   *)
(***************************************************************************)

\* The members of set i that search_memslots can return for gfn.
search_memslots(i, gfn) == {s \in gfn_tree[i] : First(s) <= gfn /\ gfn < End(s)}

\* The cached slot, dropped when the generation has changed.
CachedSlot(v) ==
  IF last_used_slot_gen[v] = generation[active] THEN last_used_slot[v] ELSE Null

try_get_memslot(s, gfn) == s # Null /\ First(s) <= gfn /\ gfn < End(s)

kvm_vcpu_gfn_to_memslot(v, gfn) ==
  LET found == search_memslots(active, gfn)
      kept == {CachedSlot(v)}
  IN  /\ last_used_slot_gen' = [last_used_slot_gen EXCEPT ![v] = generation[active]]
      /\ \E s \in IF try_get_memslot(CachedSlot(v), gfn) \/ found = {}
                  THEN kept ELSE found :
           last_used_slot' = [last_used_slot EXCEPT ![v] = s]
      /\ UNCHANGED <<setVars, poolVars, countVars, lockVars, requestVars, pc,
                     changeVars, bugcheck>>

-----------------------------------------------------------------------------
(***************************************************************************)
(* KVM_SET_USER_MEMORY_REGION: kvm_set_memory_region for each range        *)
(***************************************************************************)
KVM_SET_USER_MEMORY_REGION(t) ==
  \E r \in Requests :
    /\ generation[active].n < MaxGen
    /\ Goto(t, "idle", "lock")
    /\ ranges' = [ranges EXCEPT ![t] = r]
    /\ runs' = [runs EXCEPT ![t] = 1]
    /\ UNCHANGED <<setVars, poolVars, countVars, lockVars, cacheVars,
                   changeVars, bugcheck>>

\* The mutex slots_loc can be taken.
NoWait == TRUE

SlotsLocFree == slots_loc = Null

\* kvm_set_memory_region takes slots_loc.
kvm_set_memory_region(t) ==
  /\ SlotsLocFree
  /\ Goto(t, "lock", "check")
  /\ slots_loc' = t
  /\ UNCHANGED <<setVars, poolVars, countVars, slots_arch_lock, cacheVars,
                 requestVars, changeVars, bugcheck>>

\* id_to_memslot in the active set.
id_to_memslot(id) ==
  LET hits == {s \in id_hash[active] : slot[s].id = id}
  IN  IF hits = {} THEN Null ELSE CHOOSE s \in hits : TRUE

GfnRangeAbove(start, end) ==
  {s \in gfn_tree[active] : First(s) > start /\ First(s) < end}

\* The slots kvm_for_each_memslot_in_gfn_range visits: it starts at the last
\* slot at or below start, unless that one ends there, or else at the first
\* slot above, and stops before end.
GfnRange(start, end) ==
  {s \in gfn_tree[active] :
     /\ First(s) < end
     /\ \/ First(s) > start
        \/ /\ End(s) > start
           /\ \A o \in gfn_tree[active] : First(o) <= start => First(o) <= First(s)}

kvm_check_memslot_overlap(m) ==
  \E s \in GfnRange(m.base_gfn, m.base_gfn + m.npages) : slot[s].id # m.id

\* What __kvm_set_memory_region decides for region m, given the old slot o;
\* "none" when it rejects m or finds nothing to change.
Classify(m, o) ==
  CASE ~m.valid -> "none"
    [] m.valid /\ m.npages = 0 ->
         IF o = Null \/ nr_memslot_pages < slot[o].npages THEN "none" ELSE "delete"
    [] m.valid /\ m.npages # 0 /\ o = Null ->
         IF kvm_check_memslot_overlap(m) THEN "none" ELSE "create"
    [] m.valid /\ m.npages # 0 /\ o # Null ->
         IF \/ m.npages # slot[o].npages
            \/ "readonly" \in (m.flags \ slot[o].flags) \cup (slot[o].flags \ m.flags)
         THEN "none"
         ELSE IF m.base_gfn # slot[o].base_gfn
         THEN IF kvm_check_memslot_overlap(m) THEN "none" ELSE "move"
         ELSE IF m.flags # slot[o].flags THEN "flags_only" ELSE "none"

\* The checks, the classification and the allocation of new.
__kvm_set_memory_region(t) ==
  LET m == ranges[t][runs[t]]
      o == id_to_memslot(m.id)
      ch == Classify(m, o)
      fields == [id |-> m.id, base_gfn |-> m.base_gfn, npages |-> m.npages,
                 flags |-> m.flags]
  IN  /\ pc[t] = "check"
      /\ \/ /\ \/ ch = "none"
               \/ ch # "delete" /\ "new" \in MayFail
            /\ Goto(t, "check", "unlock")
            /\ UNCHANGED <<slot, used, changeVars>>
         \/ /\ ch = "delete"
            /\ Goto(t, "check", "arch")
            /\ old' = [old EXCEPT ![t] = o]
            /\ new' = [new EXCEPT ![t] = Null]
            /\ change' = [change EXCEPT ![t] = ch]
            /\ UNCHANGED <<slot, used>>
         \/ /\ ch \notin {"none", "delete"}
            /\ Goto(t, "check", "arch")
            /\ \E s \in Slot \ used :
                 /\ slot' = [slot EXCEPT ![s] = fields]
                 /\ used' = used \cup {s}
                 /\ new' = [new EXCEPT ![t] = s]
            /\ old' = [old EXCEPT ![t] = o]
            /\ change' = [change EXCEPT ![t] = ch]
      /\ UNCHANGED <<setVars, dirty_bitmap, arch_lost, countVars, lockVars,
                     cacheVars, requestVars, bugcheck>>

-----------------------------------------------------------------------------
(***************************************************************************)
(* kvm_set_memslot                                                         *)
(***************************************************************************)

\* kvm_prepare_memory_region allocates a dirty bitmap for new.
NeedsBitmap(t) ==
  /\ change[t] # "delete"
  /\ "log_dirty" \in slot[new[t]].flags
  /\ ~(old[t] # Null /\ old[t] \in dirty_bitmap)

\* It reuses the bitmap of old.
SharesBitmap(t) ==
  /\ change[t] # "delete"
  /\ "log_dirty" \in slot[new[t]].flags
  /\ old[t] # Null /\ old[t] \in dirty_bitmap

BuildsMetadata(t) == change[t] \in {"create", "move"}

\* kvm_arch_prepare_memory_region refuses a slot past kvm_mmu_max_gfn.
BeyondMaxGfn(t) == BuildsMetadata(t) /\ End(new[t]) - 1 > MaxGfn

\* The ways kvm_prepare_memory_region can return an error.
PrepareFails(t) ==
  \/ NeedsBitmap(t) /\ "dirty_bitmap" \in MayFail
  \/ BeyondMaxGfn(t)

\* Whether slots_arch_lock is still held when kvm_set_memslot returns an error
\* of kvm_prepare_memory_region.
LeakAlways(t) == TRUE

LeaksArchLock(t) == change[t] \in {"delete", "move"}

\* kvm_invalidate_memslot copies the uninitialised arch of invalid_slot to old;
\* kvm_arch_prepare_memory_region builds a new arch or copies that of old.
InvalidatedArch(t) ==
  (arch_lost \ {new[t]})
    \cup (IF change[t] \in {"delete", "move"} THEN {old[t]} ELSE {})
    \cup (IF change[t] = "flags_only" /\ old[t] \in arch_lost THEN {new[t]} ELSE {})

\* kvm_set_memslot up to the change of the sets: slots_arch_lock, invalid_slot
\* and kvm_prepare_memory_region.  kvm_alloc_memslot_metadata that runs out of
\* memory frees rmap pointers that are NULL with the TDP MMU.
kvm_set_memslot(t) ==
  LET fail == /\ Goto(t, "arch", "unlock")
              /\ used' = used \ {new[t]}
              /\ UNCHANGED <<slot, dirty_bitmap>>
      rest == <<setVars, countVars, slots_loc, cacheVars, requestVars,
                changeVars, bugcheck>>
  IN  /\ pc[t] = "arch"
      /\ CanLock(t)
      /\ \/ /\ change[t] \in {"delete", "move"} /\ "invalid_slot" \in MayFail
            /\ fail
            /\ UNCHANGED <<arch_lost, slots_arch_lock>>
            /\ UNCHANGED rest
         \/ /\ PrepareFails(t)
            /\ fail
            /\ arch_lost' = InvalidatedArch(t)
            /\ slots_arch_lock' =
                 IF LeaksArchLock(t) THEN Locked(t) ELSE slots_arch_lock
            /\ UNCHANGED rest
         \/ /\ BuildsMetadata(t) /\ "lpage_info" \in MayFail
            /\ BugCheck("free_null")
         \/ /\ ~BeyondMaxGfn(t)
            /\ Goto(t, "arch", "install")
            /\ dirty_bitmap' = IF NeedsBitmap(t) \/ SharesBitmap(t)
                               THEN dirty_bitmap \cup {new[t]} ELSE dirty_bitmap
            /\ arch_lost' = InvalidatedArch(t)
            /\ slots_arch_lock' = Locked(t)
            /\ UNCHANGED <<slot, used>>
            /\ UNCHANGED rest

\* kvm_insert_gfn_node stops the machine on an equal base_gfn.
EqualGfn(i, o, n) ==
  n # Null /\ \E s \in gfn_tree[i] \ {o} : First(s) = First(n)

ReplaceForgetsNode(i, o, n) ==
  /\ id_hash' = [id_hash EXCEPT ![i] = (@ \ {o}) \cup ({n} \ {Null})]
  /\ gfn_tree' = [gfn_tree EXCEPT ![i] = (@ \ {o}) \cup
                    (IF o = Null THEN {n} ELSE {})]

\* kvm_replace_memslot(o, n) in set i; Null is a NULL argument.
kvm_replace_memslot(i, o, n) ==
  /\ id_hash' = [id_hash EXCEPT ![i] = (@ \ {o}) \cup ({n} \ {Null})]
  /\ gfn_tree' = [gfn_tree EXCEPT ![i] = (@ \ {o}) \cup ({n} \ {Null})]

\* The first kvm_replace_memslot of the change, in the inactive set.
kvm_create_memslot(t) ==
  /\ pc[t] = "install"
  /\ IF EqualGfn(kvm_get_inactive_memslots, old[t], new[t])
     THEN BugCheck("equal_gfn")
     ELSE /\ Goto(t, "install", "swap")
          /\ kvm_replace_memslot(kvm_get_inactive_memslots, old[t], new[t])
          /\ UNCHANGED <<generation, active, poolVars, countVars, lockVars,
                         cacheVars, requestVars, changeVars, bugcheck>>

SwapWithoutFlag(g) == [n |-> g.n, updating |-> FALSE]

\* The generation of the set being published, from that of the active one.
SwapGeneration(g) == [n |-> g.n, updating |-> TRUE]

\* kvm_swap_active_memslots up to the release of slots_arch_lock.  For DELETE
\* and MOVE the address space is read from invalid_slot.
kvm_swap_active_memslots(t) ==
  /\ pc[t] = "swap"
  /\ \/ /\ Goto(t, "swap", "settle")
        /\ generation' = [generation EXCEPT ![kvm_get_inactive_memslots] =
                                              SwapGeneration(generation[active])]
        /\ active' = kvm_get_inactive_memslots
        /\ slots_arch_lock' = Released
        /\ UNCHANGED <<id_hash, gfn_tree, poolVars, countVars, slots_loc,
                       cacheVars, requestVars, changeVars, bugcheck>>
     \/ change[t] \in {"delete", "move"} /\ BugCheck("invalid_slot")

NextWithoutStep(g) == [n |-> g.n, updating |-> FALSE]

\* The generation kvm_swap_active_memslots ends with.
NextGeneration(g) == [n |-> g.n + 1, updating |-> FALSE]

settle_generation(t) ==
  /\ Goto(t, "settle", "propagate")
  /\ generation' = [generation EXCEPT ![active] = NextGeneration(@)]
  /\ UNCHANGED <<id_hash, gfn_tree, active, poolVars, countVars, lockVars,
                 cacheVars, requestVars, changeVars, bugcheck>>

\* kvm_replace_memslot(invalid_slot, n) in set i when invalid_slot is all zeros:
\* its hash node counts as unhashed, and erasing or replacing its tree node,
\* which has no parent, makes the tree empty or n alone.
ReplaceZeroedSlot(i, n) ==
  /\ id_hash' = [id_hash EXCEPT ![i] = @ \cup ({n} \ {Null})]
  /\ gfn_tree' = [gfn_tree EXCEPT ![i] = {n} \ {Null}]

PropagateNothing(t) ==
  /\ Goto(t, "propagate", "commit")
  /\ UNCHANGED <<setVars, poolVars, countVars, lockVars, cacheVars,
                 requestVars, changeVars, bugcheck>>

\* The second kvm_replace_memslot, in the set that has become inactive.
kvm_activate_memslot(t) ==
  /\ pc[t] = "propagate"
  /\ IF change[t] \in {"delete", "move"}
     THEN /\ Goto(t, "propagate", "commit")
          /\ ReplaceZeroedSlot(kvm_get_inactive_memslots, new[t])
          /\ UNCHANGED <<generation, active, poolVars, countVars, lockVars,
                         cacheVars, requestVars, changeVars, bugcheck>>
     ELSE IF EqualGfn(kvm_get_inactive_memslots, old[t], new[t])
     THEN BugCheck("equal_gfn")
     ELSE /\ Goto(t, "propagate", "commit")
          /\ kvm_replace_memslot(kvm_get_inactive_memslots, old[t], new[t])
          /\ UNCHANGED <<generation, active, poolVars, countVars, lockVars,
                         cacheVars, requestVars, changeVars, bugcheck>>

\* nr_memslot_pages after a change.
CommitCountsReplacement(t) ==
  CASE change[t] = "delete" -> nr_memslot_pages - slot[old[t]].npages
    [] change[t] \in {"create", "flags_only"} ->
         nr_memslot_pages + slot[new[t]].npages
    [] OTHER -> nr_memslot_pages

CommittedPages(t) ==
  CASE change[t] = "delete" -> nr_memslot_pages - slot[old[t]].npages
    [] change[t] = "create" -> nr_memslot_pages + slot[new[t]].npages
    [] OTHER -> nr_memslot_pages

\* kvm_mmu_change_mmu_pages, called by kvm_arch_commit_memory_region.  The TDP
\* MMU never counts a used page, so nothing is zapped.
MmuPages(n) == IF n \div Ratio > MinPages THEN n \div Ratio ELSE MinPages

\* Mutant: the bitmap of a replaced slot is not freed with it.
CommitKeepsBitmap(t) == dirty_bitmap

\* The bitmaps that survive kvm_commit_memory_region.
CommittedBitmaps(t) ==
  IF change[t] = "flags_only" THEN dirty_bitmap \ {old[t]} ELSE dirty_bitmap

\* kvm_arch_commit_memory_region; n_requested_mmu_pages is never set.
ArchCommittedPages(t) ==
  IF change[t] \in {"create", "delete"} THEN MmuPages(CommittedPages(t)) ELSE n_max_mmu_pages

\* kvm_commit_memory_region.  FLAGS_ONLY frees old; MOVE first frees old's
\* metadata, whose pointers were overwritten with invalid_slot's.
kvm_commit_memory_region(t) ==
  /\ pc[t] = "commit"
  /\ IF change[t] = "move"
     THEN BugCheck("free_null")
     ELSE /\ Goto(t, "commit", "unlock")
          /\ nr_memslot_pages' = CommittedPages(t)
          /\ n_max_mmu_pages' = ArchCommittedPages(t)
          /\ dirty_bitmap' = CommittedBitmaps(t)
          /\ used' = IF change[t] = "flags_only" THEN used \ {old[t]} ELSE used
          /\ UNCHANGED <<slot, arch_lost, setVars, lockVars, cacheVars,
                         requestVars, changeVars, bugcheck>>

\* kvm_set_memory_region releases slots_loc and kvm_vm_ioctl turns to the next
\* range, whatever the result was.  The locals old, new and change are gone.
release_slots_loc(t) ==
  /\ slots_loc' = Null
  /\ old' = [old EXCEPT ![t] = Null]
  /\ new' = [new EXCEPT ![t] = Null]
  /\ change' = [change EXCEPT ![t] = "none"]
  /\ IF runs[t] = Len(ranges[t])
     THEN Goto(t, "unlock", "return") /\ UNCHANGED runs
     ELSE Goto(t, "unlock", "lock") /\ runs' = [runs EXCEPT ![t] = @ + 1]
  /\ UNCHANGED <<setVars, poolVars, countVars, slots_arch_lock, cacheVars,
                 ranges, bugcheck>>

\* The request completes.  Windows stops a thread that goes back to user mode
\* while it owns a kernel mutex (APC_INDEX_MISMATCH).
complete_request(t) ==
  /\ pc[t] = "return"
  /\ IF slots_arch_lock.owner = t
     THEN BugCheck("mutex_held")
     ELSE /\ Goto(t, "return", "idle")
          /\ UNCHANGED <<setVars, poolVars, countVars, lockVars, cacheVars,
                         requestVars, changeVars, bugcheck>>

-----------------------------------------------------------------------------
\* A stopped machine stays stopped.
Halted == bugcheck # "none" /\ UNCHANGED vars

\* What a thread does from the critical section on; it waits at most for
\* slots_arch_lock.
InsideStep(t) ==
  \/ __kvm_set_memory_region(t) \/ kvm_set_memslot(t) \/ kvm_create_memslot(t)
  \/ kvm_swap_active_memslots(t) \/ settle_generation(t)
  \/ kvm_activate_memslot(t) \/ kvm_commit_memory_region(t)
  \/ release_slots_loc(t) \/ complete_request(t)

Next ==
  \/ /\ bugcheck = "none"
     /\ \/ \E t \in Thread : \/ KVM_SET_USER_MEMORY_REGION(t)
                             \/ kvm_set_memory_region(t)
                             \/ InsideStep(t)
        \/ \E v \in Vcpu, gfn \in Gfn : kvm_vcpu_gfn_to_memslot(v, gfn)
  \/ Halted

Spec == Init /\ [][Next]_vars

\* Running threads are scheduled, and a mutex serves its waiters in order.
Running == bugcheck = "none"
Fairness ==
  \A t \in Thread : /\ WF_vars(Running /\ InsideStep(t))
                    /\ SF_vars(Running /\ kvm_set_memory_region(t))

FairSpec == Spec /\ Fairness

-----------------------------------------------------------------------------
(***************************************************************************)
(* Properties                                                              *)
(***************************************************************************)

\* kvm_check_memslot_overlap and the classification keep the slots a vCPU can
\* be given disjoint at every moment, during a change too.
ActiveSlotsDisjoint ==
  \A s, r \in gfn_tree[active] : s # r => End(s) <= First(r) \/ End(r) <= First(s)

\* "After the operation is complete, both memslot sets once again point to the
\* same, common set of memslot data", in the tree and in the hash.
SetsAgree ==
  slots_loc = Null =>
    /\ id_hash[0] = id_hash[1]
    /\ gfn_tree[0] = gfn_tree[1]
    /\ id_hash[0] = gfn_tree[0]

\* The generation protects the per-vCPU cache: a cached slot whose generation
\* is the current one is a slot of the active set, never a block that was
\* replaced, or freed and reused.
CachedSlotCurrent ==
  \A v \in Vcpu :
    CachedSlot(v) # Null =>
      CachedSlot(v) \in gfn_tree[active] /\ CachedSlot(v) \in used

\* The guest frames that the active slots hold.
Frames == UNION {First(s) .. End(s) - 1 : s \in gfn_tree[active]}

\* Once a change is over, the page total is the number of frames the slots
\* hold, none of which is counted twice, and the MMU page quota is the one
\* computed from it.
PagesAccounted ==
  slots_loc = Null =>
    /\ nr_memslot_pages = Cardinality(Frames)
    /\ n_max_mmu_pages \in {0, MmuPages(nr_memslot_pages)}

\* Between two requests exactly the slots with dirty logging own a bitmap: none
\* is leaked with a freed slot, or missing.
BitmapsFollowFlags ==
  slots_loc = Null =>
    dirty_bitmap = {s \in gfn_tree[active] : "log_dirty" \in slot[s].flags}

\* A change never takes another slot, or the slot whose flags it changes, away
\* from the running vCPUs, not even for one look-up: an identifier leaves the
\* active set only while a thread deletes that very slot.
SlotsStayVisible ==
  [][\A s \in gfn_tree[active] :
       \/ \E r \in gfn_tree'[active'] : slot'[r].id = slot[s].id
       \/ \E t \in Thread : change[t] = "delete" /\ old[t] = s]_vars

\* The decision of __kvm_set_memory_region is not stale when it is carried out:
\* until the sets are swapped the identifier still names the old slot, or none,
\* and the overlap check would still pass, whatever other threads do and however
\* their requests end.
DecisionHolds ==
  \A t \in Thread :
    pc[t] \in {"arch", "install", "swap"} =>
      LET m == ranges[t][runs[t]]
      IN  /\ id_to_memslot(m.id) = old[t]
          /\ Classify(m, old[t]) = change[t]

\* slots_arch_lock is "released in kvm_swap_active_memslots()" or, when a step
\* before fails, by kvm_set_memslot: nobody owns it outside kvm_set_memslot.
ArchLockReleased ==
  slots_arch_lock.owner # Null => pc[slots_arch_lock.owner] \in {"install", "swap"}

\* A request of any kind returns, through kvm_set_memslot's error paths too:
\* no thread waits for ever for slots_loc or slots_arch_lock, and none is
\* stopped for leaving with a mutex, unless
\*  - a MOVE was refused after kvm_invalidate_memslot overwrote its old slot: it
\*    has kept slots_arch_lock;
\*  - the uninitialised invalid_slot of a DELETE or a MOVE stops the machine,
\*    during that change or after it has damaged a set.
RequestsReturn ==
  \A t \in Thread :
    pc[t] # "idle" ~>
      \/ pc[t] = "idle"
      \/ ~ArchLockReleased /\ gfn_tree[active] \cap arch_lost # {}
      \/ /\ bugcheck # "none"
         /\ \/ \E u \in Thread : change[u] \in {"delete", "move"}
            \/ \E i \in {0, 1} : gfn_tree[i] # id_hash[i]

\* "The old slot needs to be preserved in case a later step fails": outside a
\* change every slot a vCPU can be given has its own metadata.
OldSlotPreserved == slots_loc = Null => gfn_tree[active] \cap arch_lost = {}

\* A KVM_SET_USER_MEMORY_REGION that returned success (DriverDeviceControl has
\* no other answer) has made every range it was given a slot.
SuccessMeansInstalled ==
  \A t \in Thread :
    pc[t] = "idle" =>
      \A i \in 1 .. Len(ranges[t]) :
        \E s \in gfn_tree[active] :
          slot[s].id = ranges[t][i].id /\ slot[s].base_gfn = ranges[t][i].base_gfn

=============================================================================
