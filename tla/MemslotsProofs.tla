---------------------------- MODULE MemslotsProofs ----------------------------
(***************************************************************************)
(* Proofs about Memslots, for any slots, threads, vCPUs, bounds and        *)
(* failures, and for any requests that delete no slot: a deletion makes    *)
(* the two sets differ for good (ReplaceZeroedSlot), which the properties  *)
(* do not survive.                                                         *)
(***************************************************************************)
EXTENDS Memslots, FiniteSetTheorems, TLAPS

\* No region of a request asks for a deletion.
NoDeletion ==
  \A r \in Requests : \A i \in 1 .. Len(r) : r[i].valid => r[i].npages # 0

Inside ==
  {"check", "arch", "install", "swap", "settle", "propagate", "commit", "unlock"}

Apart(s, r) == End(s) <= First(r) \/ End(r) <= First(s)

Logged(S) == {s \in S : "log_dirty" \in slot[s].flags}

\* slots_loc: its owner is the one thread in the critical section.
MutexInv ==
  /\ \A t \in Thread : pc[t] \in Inside <=> slots_loc = t
  /\ \A t \in Thread : pc[t] \in Inside \cup {"lock"} =>
       ranges[t] \in Requests /\ runs[t] \in 1 .. Len(ranges[t])

\* The set the vCPUs look slots up in.
ActiveInv ==
  /\ id_hash[active] = gfn_tree[active]
  /\ gfn_tree[active] \subseteq used
  /\ \A s, r \in gfn_tree[active] : s # r => Apart(s, r)
  /\ \A s, r \in gfn_tree[active] : slot[s].id = slot[r].id => s = r

\* Both sets have the same members, in the tree and in the hash.
Same ==
  /\ id_hash[1 - active] = gfn_tree[1 - active]
  /\ gfn_tree[1 - active] = gfn_tree[active]

\* new can take the place of old in the active set.
Fits(t) ==
  /\ change[t] \in {"create", "move", "flags_only"}
  /\ change[t] = "create" <=> old[t] = Null
  /\ new[t] \in used \ gfn_tree[active]
  /\ old[t] = Null \/ (old[t] \in gfn_tree[active] /\ slot[old[t]].id = slot[new[t]].id)
  /\ \A s \in gfn_tree[active] \ {old[t]} : Apart(s, new[t]) /\ slot[s].id # slot[new[t]].id

\* How far the thread in the critical section has come.
ChangeAt(t) ==
  /\ pc[t] \in {"check", "unlock"} =>
       Same /\ dirty_bitmap = Logged(gfn_tree[active])
  /\ pc[t] = "arch" =>
       Same /\ Fits(t) /\ dirty_bitmap = Logged(gfn_tree[active])
  /\ pc[t] = "install" =>
       Same /\ Fits(t) /\ dirty_bitmap = Logged(gfn_tree[active] \cup {new[t]})
  /\ pc[t] = "swap" =>
       /\ Fits(t)
       /\ dirty_bitmap = Logged(gfn_tree[active] \cup {new[t]})
       /\ id_hash[1 - active] = gfn_tree[1 - active]
       /\ gfn_tree[1 - active] = (gfn_tree[active] \ {old[t]}) \cup {new[t]}
  /\ pc[t] \in {"settle", "propagate"} =>
       /\ id_hash[1 - active] = gfn_tree[1 - active]
       /\ gfn_tree[active] = (gfn_tree[1 - active] \ {old[t]}) \cup {new[t]}
  /\ pc[t] \in {"settle", "propagate", "commit"} =>
       /\ change[t] \in {"create", "move", "flags_only"}
       /\ change[t] = "create" => old[t] = Null
       /\ new[t] \in Slot
       /\ old[t] \notin gfn_tree[active]
       /\ dirty_bitmap = Logged(gfn_tree[active] \cup ({old[t]} \ {Null}))
  /\ pc[t] = "commit" => change[t] = "move" \/ Same

RestInv ==
  slots_loc = Null => Same /\ dirty_bitmap = Logged(gfn_tree[active])

\* No vCPU has seen a later generation than the current one.
GenerationInv ==
  /\ generation[active].updating =>
       \E t \in Thread : slots_loc = t /\ pc[t] = "settle"
  /\ \A v \in Vcpu :
       /\ last_used_slot_gen[v].n <= generation[active].n
       /\ last_used_slot_gen[v].n = generation[active].n =>
            (last_used_slot_gen[v].updating => generation[active].updating)

\* The inductive invariant.
IndInv ==
  /\ TypeOK /\ MutexInv /\ ActiveInv /\ RestInv
  /\ \A t \in Thread : ChangeAt(t)
  /\ GenerationInv /\ CachedSlotCurrent

-----------------------------------------------------------------------------
(***************************************************************************)
(* The initial state, and the steps that change no slot                    *)
(***************************************************************************)

\* Every initial state, that of kvm_create_vm, satisfies the invariant.
LEMMA InitInv == Init => IndInv
<1>1. SUFFICES ASSUME Init PROVE IndInv
  OBVIOUS
<1>2. TypeOK
  BY <1>1 DEF Init, TypeOK, ControlPoints, Changes, Generation
<1>3. MutexInv
  BY <1>1, NullSlotAssumption DEF Init, MutexInv, Inside
<1>4. ActiveInv /\ RestInv
  BY <1>1 DEF Init, ActiveInv, RestInv, Same, Logged
<1>5. \A t \in Thread : ChangeAt(t)
  BY <1>1 DEF Init, ChangeAt
<1>6. GenerationInv /\ CachedSlotCurrent
  BY <1>1 DEF Init, GenerationInv, CachedSlotCurrent, CachedSlot
<1> QED BY <1>2, <1>3, <1>4, <1>5, <1>6 DEF IndInv

\* A machine that stops keeps the state it has.
LEMMA BugCheckInv ==
  ASSUME IndInv, NEW why \in {"invalid_slot", "equal_gfn", "free_null", "mutex_held"},
         BugCheck(why)
  PROVE  IndInv'
<1>1. UNCHANGED <<slot, used, dirty_bitmap, arch_lost, id_hash, gfn_tree,
                  generation, active, nr_memslot_pages, n_max_mmu_pages>>
  BY DEF BugCheck, setVars, poolVars, countVars
<1>2. UNCHANGED <<slots_loc, slots_arch_lock, last_used_slot,
                  last_used_slot_gen, ranges, runs, pc, old, new, change>>
  BY DEF BugCheck, lockVars, cacheVars, requestVars, changeVars
<1>3. TypeOK'
  BY <1>1, <1>2 DEF IndInv, TypeOK, BugCheck
<1>4. MutexInv' /\ ActiveInv' /\ RestInv' /\ GenerationInv' /\ CachedSlotCurrent'
  BY <1>1, <1>2 DEF IndInv, MutexInv, ActiveInv, RestInv, GenerationInv,
     CachedSlotCurrent, CachedSlot, Same, Logged, Apart, End, First
<1>5. \A t \in Thread : ChangeAt(t)'
  BY <1>1, <1>2 DEF IndInv, ChangeAt, Fits, Same, Logged, Apart, End, First
<1> QED BY <1>3, <1>4, <1>5 DEF IndInv

\* A halted machine keeps the state it has.
LEMMA StutterInv == IndInv /\ UNCHANGED vars => IndInv'
<1>1. SUFFICES ASSUME IndInv, UNCHANGED vars PROVE IndInv'
  OBVIOUS
<1>2. UNCHANGED <<slot, used, dirty_bitmap, arch_lost, id_hash, gfn_tree,
                  generation, active, nr_memslot_pages, n_max_mmu_pages>>
  BY <1>1 DEF vars, setVars, poolVars, countVars
<1>3. UNCHANGED <<slots_loc, slots_arch_lock, last_used_slot, bugcheck,
                  last_used_slot_gen, ranges, runs, pc, old, new, change>>
  BY <1>1 DEF vars, lockVars, cacheVars, requestVars, changeVars
<1>4. TypeOK'
  BY <1>1, <1>2, <1>3 DEF IndInv, TypeOK
<1>5. MutexInv' /\ ActiveInv' /\ RestInv' /\ GenerationInv' /\ CachedSlotCurrent'
  BY <1>1, <1>2, <1>3 DEF IndInv, MutexInv, ActiveInv, RestInv, GenerationInv,
     CachedSlotCurrent, CachedSlot, Same, Logged, Apart, End, First
<1>6. \A t \in Thread : ChangeAt(t)'
  BY <1>1, <1>2, <1>3 DEF IndInv, ChangeAt, Fits, Same, Logged, Apart, End, First
<1> QED BY <1>4, <1>5, <1>6 DEF IndInv

\* The slot a look-up finds or keeps is a slot of the active set, and the
\* generation it records is the current one.
LEMMA LookupInv ==
  ASSUME IndInv, NEW v \in Vcpu, NEW gfn \in Gfn, kvm_vcpu_gfn_to_memslot(v, gfn)
  PROVE  IndInv'
<1>1. UNCHANGED <<slot, used, dirty_bitmap, arch_lost, id_hash, gfn_tree,
                  generation, active, nr_memslot_pages, n_max_mmu_pages>>
  BY DEF kvm_vcpu_gfn_to_memslot, setVars, poolVars, countVars
<1>2. UNCHANGED <<slots_loc, slots_arch_lock, ranges, runs, pc, old, new, change,
                  bugcheck>>
  BY DEF kvm_vcpu_gfn_to_memslot, lockVars, requestVars, changeVars
<1>3. last_used_slot_gen' = [last_used_slot_gen EXCEPT ![v] = generation[active]]
  BY DEF kvm_vcpu_gfn_to_memslot
<1>4. PICK s \in {CachedSlot(v)} \cup search_memslots(active, gfn) :
        last_used_slot' = [last_used_slot EXCEPT ![v] = s]
  BY DEF kvm_vcpu_gfn_to_memslot
<1>5. s = Null \/ (s \in gfn_tree[active] /\ s \in used)
  <2>1. CASE s = CachedSlot(v)
    BY <2>1 DEF IndInv, CachedSlotCurrent
  <2>2. CASE s \in search_memslots(active, gfn)
    BY <2>2 DEF IndInv, ActiveInv, search_memslots
  <2> QED BY <1>4, <2>1, <2>2
<1>6. s \in Slot \cup {Null}
  BY <1>5 DEF IndInv, TypeOK
<1>7. generation[active] \in Generation
  BY DEF IndInv, TypeOK
<1>8. last_used_slot' \in [Vcpu -> Slot \cup {Null}]
  BY <1>4, <1>6 DEF IndInv, TypeOK
<1>9. last_used_slot_gen' \in [Vcpu -> Generation]
  BY <1>3, <1>7 DEF IndInv, TypeOK
<1>10. TypeOK'
  BY <1>1, <1>2, <1>8, <1>9 DEF IndInv, TypeOK
<1>11. MutexInv' /\ ActiveInv' /\ RestInv'
  BY <1>1, <1>2 DEF IndInv, MutexInv, ActiveInv, RestInv, Same, Logged, Apart,
     End, First
<1>12. \A t \in Thread : ChangeAt(t)'
  BY <1>1, <1>2 DEF IndInv, ChangeAt, Fits, Same, Logged, Apart, End, First
<1>13. GenerationInv'
  <2>1. generation'[active'].updating => \E t \in Thread : slots_loc' = t /\ pc'[t] = "settle"
    BY <1>1, <1>2 DEF IndInv, GenerationInv
  <2>2. ASSUME NEW w \in Vcpu
        PROVE  /\ last_used_slot_gen'[w].n <= generation'[active'].n
               /\ last_used_slot_gen'[w].n = generation'[active'].n =>
                    (last_used_slot_gen'[w].updating => generation'[active'].updating)
    <3>1. last_used_slot_gen'[w] \in {last_used_slot_gen[w], generation[active]}
      BY <1>3 DEF IndInv, TypeOK
    <3>2. generation[active].n <= generation[active].n
      BY <1>7 DEF Generation
    <3> QED BY <1>1, <3>1, <3>2 DEF IndInv, GenerationInv
  <2> QED BY <2>1, <2>2 DEF GenerationInv
<1>14. CachedSlotCurrent'
  <2>1. SUFFICES ASSUME NEW w \in Vcpu, last_used_slot_gen'[w] = generation'[active'],
                        last_used_slot'[w] # Null
                 PROVE  last_used_slot'[w] \in gfn_tree[active] /\ last_used_slot'[w] \in used
    BY <1>1 DEF CachedSlotCurrent, CachedSlot
  <2>2. CASE w = v
    BY <1>4, <1>5, <2>1, <2>2 DEF IndInv, TypeOK
  <2>3. CASE w # v
    <3>1. last_used_slot'[w] = last_used_slot[w] /\ last_used_slot_gen'[w] = last_used_slot_gen[w]
      BY <1>3, <1>4, <2>3 DEF IndInv, TypeOK
    <3>2. CachedSlot(w) = last_used_slot[w]
      BY <1>1, <2>1, <3>1 DEF CachedSlot
    <3> QED BY <2>1, <3>1, <3>2 DEF IndInv, CachedSlotCurrent
  <2> QED BY <2>2, <2>3
<1> QED BY <1>10, <1>11, <1>12, <1>13, <1>14 DEF IndInv

-----------------------------------------------------------------------------
(***************************************************************************)
(* What the steps in the critical section have in common                   *)
(***************************************************************************)

\* The thread in the critical section is alone there, and stays alone.
LEMMA Alone ==
  ASSUME IndInv, NEW t \in Thread, pc[t] \in Inside, NEW p \in Inside,
         pc' = [pc EXCEPT ![t] = p], UNCHANGED <<slots_loc, ranges, runs>>
  PROVE  /\ slots_loc = t /\ pc'[t] = p
         /\ MutexInv' /\ RestInv'
         /\ \A u \in Thread \ {t} : ChangeAt(u)'
<1>1. slots_loc = t /\ \A u \in Thread \ {t} : pc[u] \notin Inside
  BY DEF IndInv, MutexInv
<1>2. pc'[t] = p /\ \A u \in Thread \ {t} : pc'[u] = pc[u]
  BY DEF IndInv, TypeOK
<1>3. MutexInv'
  BY <1>1, <1>2 DEF IndInv, MutexInv, Inside
<1>4. RestInv'
  BY <1>1, NullSlotAssumption DEF RestInv
<1>5. \A u \in Thread \ {t} : ChangeAt(u)'
  BY <1>1, <1>2 DEF ChangeAt, Inside
<1> QED BY <1>1, <1>2, <1>3, <1>4, <1>5

\* A step that leaves the active set alone leaves what the vCPUs see and have
\* cached alone.
LEMMA ActiveKept ==
  ASSUME IndInv, NEW t \in Thread, pc[t] \in Inside, pc[t] # "settle",
         UNCHANGED <<generation, active, last_used_slot, last_used_slot_gen>>,
         gfn_tree'[active] = gfn_tree[active], id_hash'[active] = id_hash[active],
         gfn_tree[active] \subseteq used',
         \A s \in gfn_tree[active] : slot'[s] = slot[s]
  PROVE  ActiveInv' /\ GenerationInv' /\ CachedSlotCurrent'
<1>1. ActiveInv'
  BY DEF IndInv, ActiveInv, Apart, First, End
<1>2. slots_loc = t
  BY DEF IndInv, MutexInv
<1>3. ~ generation[active].updating
  BY <1>2 DEF IndInv, GenerationInv
<1>4. GenerationInv'
  BY <1>3 DEF IndInv, GenerationInv
<1>5. CachedSlotCurrent'
  BY DEF IndInv, CachedSlotCurrent, CachedSlot
<1> QED BY <1>1, <1>4, <1>5

\* The owner of slots_loc is in the critical section, nobody else.
LEMMA OutsideKept ==
  ASSUME IndInv, NEW t \in Thread, pc[t] \notin Inside,
         UNCHANGED <<slot, used, dirty_bitmap, id_hash, gfn_tree, generation,
                     active, last_used_slot, last_used_slot_gen, old, new, change>>
  PROVE  /\ ActiveInv' /\ CachedSlotCurrent'
         /\ \A u \in Thread \ {t} : pc'[u] = pc[u] => ChangeAt(u)'
<1>1. ActiveInv' /\ CachedSlotCurrent'
  BY DEF IndInv, ActiveInv, CachedSlotCurrent, CachedSlot, Apart, First, End
<1>2. \A u \in Thread \ {t} : pc'[u] = pc[u] => ChangeAt(u)'
  BY DEF IndInv, ChangeAt, Fits, Same, Logged, Apart, End, First
<1> QED BY <1>1, <1>2

\* A thread is given a request.
LEMMA RequestInv ==
  ASSUME IndInv, NEW t \in Thread, KVM_SET_USER_MEMORY_REGION(t)
  PROVE  IndInv'
<1>1. PICK r \in Requests :
        /\ pc[t] = "idle" /\ pc' = [pc EXCEPT ![t] = "lock"]
        /\ ranges' = [ranges EXCEPT ![t] = r]
        /\ runs' = [runs EXCEPT ![t] = 1]
  BY DEF KVM_SET_USER_MEMORY_REGION, Goto
<1>2. UNCHANGED <<slot, used, dirty_bitmap, arch_lost, id_hash, gfn_tree,
                  generation, active, nr_memslot_pages, n_max_mmu_pages>>
  BY DEF KVM_SET_USER_MEMORY_REGION, setVars, poolVars, countVars
<1>3. UNCHANGED <<slots_loc, slots_arch_lock, last_used_slot, bugcheck,
                  last_used_slot_gen, old, new, change>>
  BY DEF KVM_SET_USER_MEMORY_REGION, lockVars, cacheVars, changeVars
<1>4. /\ ranges' \in [Thread -> Requests \cup {<<>>}]
      /\ runs' \in [Thread -> Nat]
      /\ pc' \in [Thread -> ControlPoints]
  BY <1>1 DEF IndInv, TypeOK, ControlPoints
<1>5. TypeOK'
  BY <1>2, <1>3, <1>4 DEF IndInv, TypeOK
<1>6. r \in Seq(Region) /\ Len(r) \in Nat /\ Len(r) # 0
  BY RequestsAssumption
<1>7. MutexInv'
  <2>1. \A u \in Thread : pc'[u] \in Inside <=> slots_loc' = u
    BY <1>1, <1>3 DEF IndInv, MutexInv, TypeOK, Inside
  <2>2. ASSUME NEW u \in Thread, pc'[u] \in Inside \cup {"lock"}
        PROVE  ranges'[u] \in Requests /\ runs'[u] \in 1 .. Len(ranges'[u])
    <3>1. CASE u = t
      BY <1>1, <1>6, <3>1 DEF IndInv, TypeOK
    <3>2. CASE u # t
      BY <1>1, <2>2, <3>2 DEF IndInv, MutexInv, TypeOK
    <3> QED BY <3>1, <3>2
  <2> QED BY <2>1, <2>2 DEF MutexInv
<1>8. pc[t] \notin Inside /\ \A u \in Thread \ {t} : pc'[u] = pc[u]
  BY <1>1 DEF IndInv, TypeOK, Inside
<1>9. RestInv'
  BY <1>2, <1>3 DEF IndInv, RestInv, Same, Logged
<1>10. GenerationInv'
  BY <1>1, <1>2, <1>3, <1>8 DEF IndInv, GenerationInv
<1>11. \A u \in Thread : ChangeAt(u)'
  <2>1. ChangeAt(t)'
    BY <1>1 DEF ChangeAt, IndInv, TypeOK
  <2> QED BY <1>2, <1>3, <1>8, <2>1, OutsideKept
<1>12. ActiveInv' /\ CachedSlotCurrent'
  BY <1>2, <1>3, <1>8, OutsideKept
<1> QED BY <1>5, <1>7, <1>9, <1>10, <1>11, <1>12 DEF IndInv

\* The thread that takes slots_loc finds both sets and the bitmaps in order.
LEMMA LockInv ==
  ASSUME IndInv, NEW t \in Thread, kvm_set_memory_region(t)
  PROVE  IndInv'
<1>1. /\ pc[t] = "lock" /\ pc' = [pc EXCEPT ![t] = "check"]
      /\ slots_loc = Null /\ slots_loc' = t
  BY DEF kvm_set_memory_region, Goto, SlotsLocFree
<1>2. UNCHANGED <<slot, used, dirty_bitmap, arch_lost, id_hash, gfn_tree,
                  generation, active, nr_memslot_pages, n_max_mmu_pages>>
  BY DEF kvm_set_memory_region, setVars, poolVars, countVars
<1>3. UNCHANGED <<slots_arch_lock, last_used_slot, bugcheck, ranges, runs,
                  last_used_slot_gen, old, new, change>>
  BY DEF kvm_set_memory_region, cacheVars, requestVars, changeVars
<1>4. pc' \in [Thread -> ControlPoints] /\ slots_loc' \in Thread \cup {Null}
  BY <1>1 DEF IndInv, TypeOK, ControlPoints
<1>5. TypeOK'
  BY <1>2, <1>3, <1>4 DEF IndInv, TypeOK
<1>6. \A u \in Thread : pc[u] \notin Inside
  BY <1>1, NullSlotAssumption DEF IndInv, MutexInv
<1>7. pc'[t] = "check" /\ \A u \in Thread \ {t} : pc'[u] = pc[u]
  BY <1>1 DEF IndInv, TypeOK
<1>8. MutexInv'
  BY <1>1, <1>3, <1>6, <1>7 DEF IndInv, MutexInv, Inside
<1>9. RestInv'
  BY <1>1, NullSlotAssumption DEF RestInv
<1>10. GenerationInv'
  BY <1>1, <1>2, <1>3, <1>6, NullSlotAssumption DEF IndInv, GenerationInv
<1>11. \A u \in Thread : ChangeAt(u)'
  <2>1. Same /\ dirty_bitmap = Logged(gfn_tree[active])
    BY <1>1 DEF IndInv, RestInv
  <2>2. ChangeAt(t)'
    BY <1>2, <1>7, <2>1 DEF ChangeAt, Same, Logged
  <2> QED BY <1>2, <1>3, <1>6, <1>7, <2>2, OutsideKept
<1>12. ActiveInv' /\ CachedSlotCurrent'
  BY <1>2, <1>3, <1>6, OutsideKept
<1> QED BY <1>5, <1>8, <1>9, <1>10, <1>11, <1>12 DEF IndInv

\* slots_loc is released with both sets and the bitmaps in order.
LEMMA ReleaseInv ==
  ASSUME IndInv, NEW t \in Thread, release_slots_loc(t)
  PROVE  IndInv'
<1>1. /\ pc[t] = "unlock" /\ slots_loc' = Null
      /\ \/ pc' = [pc EXCEPT ![t] = "return"] /\ runs' = runs
         \/ /\ runs[t] # Len(ranges[t])
            /\ pc' = [pc EXCEPT ![t] = "lock"]
            /\ runs' = [runs EXCEPT ![t] = @ + 1]
      /\ old' = [old EXCEPT ![t] = Null]
      /\ new' = [new EXCEPT ![t] = Null]
      /\ change' = [change EXCEPT ![t] = "none"]
  BY DEF release_slots_loc, Goto
<1>2. UNCHANGED <<slot, used, dirty_bitmap, arch_lost, id_hash, gfn_tree,
                  generation, active, nr_memslot_pages, n_max_mmu_pages>>
  BY DEF release_slots_loc, setVars, poolVars, countVars
<1>3. UNCHANGED <<slots_arch_lock, last_used_slot, bugcheck, ranges,
                  last_used_slot_gen>>
  BY DEF release_slots_loc, cacheVars
<1>4. /\ pc' \in [Thread -> ControlPoints] /\ runs' \in [Thread -> Nat]
      /\ slots_loc' \in Thread \cup {Null}
      /\ old' \in [Thread -> Slot \cup {Null}]
      /\ new' \in [Thread -> Slot \cup {Null}]
      /\ change' \in [Thread -> Changes]
  <2>1. pc' \in [Thread -> ControlPoints]
    BY <1>1 DEF IndInv, TypeOK, ControlPoints
  <2>2. runs' \in [Thread -> Nat]
    BY <1>1 DEF IndInv, TypeOK
  <2>3. /\ old' \in [Thread -> Slot \cup {Null}]
        /\ new' \in [Thread -> Slot \cup {Null}]
    BY <1>1 DEF IndInv, TypeOK
  <2>4. change' \in [Thread -> Changes]
    BY <1>1 DEF IndInv, TypeOK, Changes
  <2> QED BY <1>1, <2>1, <2>2, <2>3, <2>4
<1>5. TypeOK'
  BY <1>2, <1>3, <1>4 DEF IndInv, TypeOK
<1>6. slots_loc = t /\ \A u \in Thread \ {t} : pc[u] \notin Inside
  BY <1>1 DEF IndInv, MutexInv, Inside
<1>7. pc'[t] \in {"return", "lock"} /\ \A u \in Thread \ {t} : pc'[u] = pc[u]
  BY <1>1 DEF IndInv, TypeOK
<1>8. MutexInv'
  <2>1. \A u \in Thread : pc'[u] \in Inside <=> slots_loc' = u
    BY <1>1, <1>6, <1>7, NullSlotAssumption DEF Inside
  <2>2. ASSUME NEW u \in Thread, pc'[u] \in Inside \cup {"lock"}
        PROVE  ranges'[u] \in Requests /\ runs'[u] \in 1 .. Len(ranges'[u])
    <3>1. CASE u # t
      BY <1>1, <1>3, <1>7, <2>2, <3>1 DEF IndInv, MutexInv, TypeOK
    <3>2. CASE u = t
      <4>1. runs[t] # Len(ranges[t]) /\ runs' = [runs EXCEPT ![t] = @ + 1]
        BY <1>1, <2>2, <3>2 DEF IndInv, TypeOK, Inside
      <4>2. ranges[t] \in Requests /\ runs[t] \in 1 .. Len(ranges[t])
        BY <1>1 DEF IndInv, MutexInv, Inside
      <4>3. Len(ranges[t]) \in Nat
        BY <4>2, RequestsAssumption
      <4>4. runs'[t] = runs[t] + 1
        BY <4>1 DEF IndInv, TypeOK
      <4> QED BY <1>3, <3>2, <4>1, <4>2, <4>3, <4>4
    <3> QED BY <3>1, <3>2
  <2> QED BY <2>1, <2>2 DEF MutexInv
<1>9. Same /\ dirty_bitmap = Logged(gfn_tree[active])
  BY <1>1 DEF IndInv, ChangeAt
<1>10. RestInv'
  BY <1>2, <1>9 DEF RestInv, Same, Logged
<1>11. ActiveInv' /\ GenerationInv' /\ CachedSlotCurrent'
  <2>1. pc[t] \in Inside /\ pc[t] # "settle"
    BY <1>1 DEF Inside
  <2>2. gfn_tree[active] \subseteq used'
    BY <1>2 DEF IndInv, ActiveInv
  <2> QED BY <1>2, <1>3, <2>1, <2>2, ActiveKept
<1>12. \A u \in Thread : ChangeAt(u)'
  BY <1>6, <1>7 DEF ChangeAt, Inside
<1> QED BY <1>5, <1>8, <1>10, <1>11, <1>12 DEF IndInv

\* A thread goes back to user mode.
LEMMA ReturnInv ==
  ASSUME IndInv, NEW t \in Thread, complete_request(t)
  PROVE  IndInv'
<1>1. CASE BugCheck("mutex_held")
  BY <1>1, BugCheckInv
<1>2. CASE ~ BugCheck("mutex_held")
  <2>1. pc[t] = "return" /\ pc' = [pc EXCEPT ![t] = "idle"]
    BY <1>2 DEF complete_request, Goto
  <2>2. UNCHANGED <<slot, used, dirty_bitmap, arch_lost, id_hash, gfn_tree,
                    generation, active, nr_memslot_pages, n_max_mmu_pages>>
    BY <1>2 DEF complete_request, setVars, poolVars, countVars
  <2>3. UNCHANGED <<slots_loc, slots_arch_lock, last_used_slot, bugcheck,
                    ranges, runs, last_used_slot_gen, old, new, change>>
    BY <1>2 DEF complete_request, lockVars, cacheVars, requestVars, changeVars
  <2>4. pc' \in [Thread -> ControlPoints]
    BY <2>1 DEF IndInv, TypeOK, ControlPoints
  <2>5. TypeOK'
    BY <2>2, <2>3, <2>4 DEF IndInv, TypeOK
  <2>6. /\ pc[t] \notin Inside /\ pc'[t] = "idle"
        /\ \A u \in Thread \ {t} : pc'[u] = pc[u]
    BY <2>1 DEF IndInv, TypeOK, Inside
  <2>7. MutexInv'
    BY <2>1, <2>3, <2>6 DEF IndInv, MutexInv, Inside
  <2>8. RestInv'
    BY <2>2, <2>3 DEF IndInv, RestInv, Same, Logged
  <2>9. GenerationInv'
    BY <2>1, <2>2, <2>3, <2>6 DEF IndInv, GenerationInv
  <2>10. \A u \in Thread : ChangeAt(u)'
    <3>1. ChangeAt(t)'
      BY <2>6 DEF ChangeAt
    <3> QED BY <2>2, <2>3, <2>6, <3>1, OutsideKept
  <2>11. ActiveInv' /\ CachedSlotCurrent'
    BY <2>2, <2>3, <2>6, OutsideKept
  <2> QED BY <2>5, <2>7, <2>8, <2>9, <2>10, <2>11 DEF IndInv
<1> QED BY <1>1, <1>2

-----------------------------------------------------------------------------
(***************************************************************************)
(* The checks and the classification                                       *)
(***************************************************************************)

\* kvm_for_each_memslot_in_gfn_range visits every slot of the active set that
\* has a frame in common with the range, because these slots are disjoint.
LEMMA NoOverlap ==
  ASSUME TypeOK, ActiveInv, NEW start \in Nat, NEW end \in Nat,
         NEW s \in gfn_tree[active], s \notin GfnRange(start, end)
  PROVE  End(s) <= start \/ end <= First(s)
<1>1. gfn_tree[active] \subseteq Slot
  BY DEF TypeOK
<1>2. \A x \in gfn_tree[active] : /\ First(x) \in Nat /\ End(x) \in Nat
                                   /\ First(x) <= End(x)
  BY <1>1 DEF TypeOK, First, End
<1>3. SUFFICES ASSUME First(s) < end, End(s) > start PROVE FALSE
  BY <1>2
<1>4. PICK o \in gfn_tree[active] : First(o) <= start /\ First(s) < First(o)
  BY <1>2, <1>3 DEF GfnRange
<1>5. o # s /\ (End(s) <= First(o) \/ End(o) <= First(s))
  BY <1>2, <1>4 DEF ActiveInv, Apart
<1> QED BY <1>2, <1>3, <1>4, <1>5

\* id_to_memslot finds the one slot of the active set with the number, if there
\* is one.
LEMMA IdLookup ==
  ASSUME ActiveInv, NEW id
  PROVE  \/ /\ id_to_memslot(id) = Null
            /\ \A s \in gfn_tree[active] : slot[s].id # id
         \/ /\ id_to_memslot(id) \in gfn_tree[active]
            /\ slot[id_to_memslot(id)].id = id
            /\ \A s \in gfn_tree[active] : slot[s].id = id => s = id_to_memslot(id)
<1> DEFINE hits == {s \in id_hash[active] : slot[s].id = id}
<1>1. CASE hits = {}
  BY <1>1 DEF id_to_memslot, ActiveInv
<1>2. CASE hits # {}
  <2>1. id_to_memslot(id) = CHOOSE s \in hits : TRUE
    BY <1>2 DEF id_to_memslot
  <2>2. id_to_memslot(id) \in hits
    BY <1>2, <2>1
  <2> QED BY <2>2 DEF ActiveInv
<1> QED BY <1>1, <1>2

\* What the classification of a region that asks for no deletion means.
LEMMA ClassifyCases ==
  ASSUME NEW m \in Region, m.valid => m.npages # 0, NEW o
  PROVE  /\ Classify(m, o) \in {"none", "create", "move", "flags_only"}
         /\ Classify(m, o) = "create" => o = Null /\ ~ kvm_check_memslot_overlap(m)
         /\ Classify(m, o) = "move" => o # Null /\ ~ kvm_check_memslot_overlap(m)
         /\ Classify(m, o) = "flags_only" =>
              o # Null /\ m.base_gfn = slot[o].base_gfn /\ m.npages = slot[o].npages
<1>1. m.valid \in BOOLEAN
  BY DEF Region
<1>2. CASE ~ m.valid
  BY <1>2 DEF Classify
<1>3. CASE m.valid /\ o = Null
  BY <1>3 DEF Classify
<1>4. CASE m.valid /\ o # Null
  BY <1>4 DEF Classify
<1> QED BY <1>1, <1>2, <1>3, <1>4

\* A region the checks accept fits into the active set: the new block is apart
\* from every slot but the one it replaces, and has its number.
LEMMA CheckInv ==
  ASSUME NoDeletion, IndInv, NEW t \in Thread, __kvm_set_memory_region(t)
  PROVE  IndInv'
<1> DEFINE m == ranges[t][runs[t]]
           o == id_to_memslot(m.id)
           ch == Classify(m, o)
           fields == [id |-> m.id, base_gfn |-> m.base_gfn, npages |-> m.npages,
                      flags |-> m.flags]
<1>1. pc[t] = "check"
  BY DEF __kvm_set_memory_region
<1>2. /\ UNCHANGED <<dirty_bitmap, arch_lost, id_hash, gfn_tree, generation, active,
                     nr_memslot_pages, n_max_mmu_pages>>
      /\ UNCHANGED <<slots_loc, slots_arch_lock, last_used_slot, bugcheck,
                     last_used_slot_gen, ranges, runs>>
  BY DEF __kvm_set_memory_region, setVars, countVars, lockVars, cacheVars, requestVars
<1>3. m \in Region /\ (m.valid => m.npages # 0)
  <2>1. ranges[t] \in Requests /\ runs[t] \in 1 .. Len(ranges[t])
    BY <1>1 DEF IndInv, MutexInv, Inside
  <2>2. ranges[t] \in Seq(Region)
    BY <2>1, RequestsAssumption
  <2> QED BY <2>1, <2>2 DEF NoDeletion
<1>4. /\ ch \in {"none", "create", "move", "flags_only"}
      /\ ch = "create" => o = Null /\ ~ kvm_check_memslot_overlap(m)
      /\ ch = "move" => o # Null /\ ~ kvm_check_memslot_overlap(m)
      /\ ch = "flags_only" =>
           o # Null /\ m.base_gfn = slot[o].base_gfn /\ m.npages = slot[o].npages
  BY <1>3, ClassifyCases
<1>5. Same /\ dirty_bitmap = Logged(gfn_tree[active])
  BY <1>1 DEF IndInv, ChangeAt
<1>6. pc[t] \in Inside /\ pc[t] # "settle"
  BY <1>1 DEF Inside
<1>7. gfn_tree[active] \subseteq used /\ gfn_tree[active] \subseteq Slot
  BY DEF IndInv, ActiveInv, TypeOK
<1>8. CASE pc' = [pc EXCEPT ![t] = "unlock"] /\ UNCHANGED <<slot, used, old, new, change>>
  <2>1. pc' \in [Thread -> ControlPoints]
    BY <1>8 DEF IndInv, TypeOK, ControlPoints
  <2>2. TypeOK'
    BY <1>2, <1>8, <2>1 DEF IndInv, TypeOK
  <2>3. "unlock" \in Inside
    BY DEF Inside
  <2>4. /\ slots_loc = t /\ pc'[t] = "unlock" /\ MutexInv' /\ RestInv'
        /\ \A u \in Thread \ {t} : ChangeAt(u)'
    BY <1>2, <1>6, <1>8, <2>3, Alone
  <2>5. ChangeAt(t)'
    BY <1>2, <1>5, <1>8, <2>4 DEF ChangeAt, Same, Logged
  <2>6. ActiveInv' /\ GenerationInv' /\ CachedSlotCurrent'
    BY <1>2, <1>6, <1>7, <1>8, ActiveKept
  <2> QED BY <2>2, <2>4, <2>5, <2>6 DEF IndInv
<1>9. CASE \E s \in Slot \ used :
             /\ ch \notin {"none", "delete"}
             /\ pc' = [pc EXCEPT ![t] = "arch"]
             /\ slot' = [slot EXCEPT ![s] = fields]
             /\ used' = used \cup {s}
             /\ new' = [new EXCEPT ![t] = s]
             /\ old' = [old EXCEPT ![t] = o]
             /\ change' = [change EXCEPT ![t] = ch]
  <2>1. PICK s \in Slot \ used :
             /\ ch \notin {"none", "delete"}
             /\ pc' = [pc EXCEPT ![t] = "arch"]
             /\ slot' = [slot EXCEPT ![s] = fields]
             /\ used' = used \cup {s}
             /\ new' = [new EXCEPT ![t] = s]
             /\ old' = [old EXCEPT ![t] = o]
             /\ change' = [change EXCEPT ![t] = ch]
    BY <1>9
  <2>2. \/ /\ o = Null
           /\ \A x \in gfn_tree[active] : slot[x].id # m.id
        \/ /\ o \in gfn_tree[active]
           /\ slot[o].id = m.id
           /\ \A x \in gfn_tree[active] : slot[x].id = m.id => x = o
    BY IdLookup DEF IndInv
  <2> HIDE DEF o, ch
  <2>3. m \in Region
    BY <1>3
  <2>4. fields \in [id : Nat, base_gfn : Nat, npages : Nat, flags : SUBSET Flags]
    BY <2>3 DEF Region
  <2> HIDE DEF m
  <2>5. TypeOK'
    <3>1. slot' \in [Slot -> [id : Nat, base_gfn : Nat, npages : Nat,
                              flags : SUBSET Flags]]
      BY <2>1, <2>4 DEF IndInv, TypeOK
    <3>2. used' \in SUBSET Slot
      BY <2>1 DEF IndInv, TypeOK
    <3>3. pc' \in [Thread -> ControlPoints]
      BY <2>1 DEF IndInv, TypeOK, ControlPoints
    <3>4. old' \in [Thread -> Slot \cup {Null}]
      BY <1>7, <2>1, <2>2 DEF IndInv, TypeOK
    <3>5. new' \in [Thread -> Slot \cup {Null}]
      BY <2>1 DEF IndInv, TypeOK
    <3>6. change' \in [Thread -> Changes]
      BY <1>4, <2>1 DEF IndInv, TypeOK, Changes
    <3> QED BY <1>2, <3>1, <3>2, <3>3, <3>4, <3>5, <3>6 DEF IndInv, TypeOK
  <2>6. "arch" \in Inside
    BY DEF Inside
  <2>7. /\ slots_loc = t /\ pc'[t] = "arch" /\ MutexInv' /\ RestInv'
        /\ \A u \in Thread \ {t} : ChangeAt(u)'
    BY <1>2, <1>6, <2>1, <2>6, Alone
  <2>8. /\ \A x \in gfn_tree[active] : slot'[x] = slot[x]
        /\ slot'[s] = fields
        /\ s \notin gfn_tree[active]
    BY <1>7, <2>1 DEF IndInv, TypeOK
  <2>9. ActiveInv' /\ GenerationInv' /\ CachedSlotCurrent'
    <3>1. gfn_tree[active] \subseteq used'
      BY <1>7, <2>1
    <3> QED BY <1>2, <1>6, <2>8, <3>1, ActiveKept
  <2>10. new'[t] = s /\ old'[t] = o /\ change'[t] = ch
    BY <2>1 DEF IndInv, TypeOK
  <2>11. ASSUME NEW x \in gfn_tree[active] \ {o}
         PROVE  /\ slot[x].id # m.id
                /\ End(x) <= m.base_gfn \/ m.base_gfn + m.npages <= First(x)
    <3>1. slot[x].id # m.id
      BY <2>2, <2>11
    <3>2. CASE ~ kvm_check_memslot_overlap(m)
      <4>1. x \notin GfnRange(m.base_gfn, m.base_gfn + m.npages)
        BY <3>1, <3>2 DEF kvm_check_memslot_overlap
      <4>2. m.base_gfn \in Nat /\ m.base_gfn + m.npages \in Nat
        BY <2>3 DEF Region
      <4> QED BY <3>1, <4>1, <4>2, NoOverlap DEF IndInv
    <3>3. CASE ch = "flags_only"
      <4>1. o \in gfn_tree[active] /\ x # o
        BY <1>4, <2>2, <3>3
      <4>2. Apart(x, o)
        BY <4>1 DEF IndInv, ActiveInv
      <4>3. m.base_gfn = First(o) /\ m.base_gfn + m.npages = End(o)
        BY <1>4, <3>3 DEF First, End
      <4> QED BY <3>1, <4>2, <4>3 DEF Apart
    <3> QED BY <1>4, <2>1, <3>2, <3>3
  <2>12. Fits(t)'
    <3>1. change'[t] \in {"create", "move", "flags_only"}
      BY <1>4, <2>1, <2>10
    <3>2. change'[t] = "create" <=> old'[t] = Null
      BY <1>4, <2>1, <2>10
    <3>3. new'[t] \in used' \ gfn_tree'[active']
      BY <1>2, <2>1, <2>8, <2>10
    <3>4. \/ old'[t] = Null
          \/ old'[t] \in gfn_tree'[active'] /\ slot'[old'[t]].id = slot'[new'[t]].id
      BY <1>2, <2>2, <2>8, <2>10
    <3>5. ASSUME NEW x \in gfn_tree'[active'] \ {old'[t]}
          PROVE  Apart(x, new[t])' /\ slot'[x].id # slot'[new'[t]].id
      <4>1. x \in gfn_tree[active] \ {o}
        BY <1>2, <2>10
      <4>2. slot'[x] = slot[x] /\ slot'[new'[t]] = fields
        BY <2>8, <2>10, <4>1
      <4>3. slot'[new'[t]].id = m.id /\ First(new[t])' = m.base_gfn
              /\ End(new[t])' = m.base_gfn + m.npages
        BY <4>2 DEF First, End
      <4>4. First(x)' = First(x) /\ End(x)' = End(x)
        BY <4>2 DEF First, End
      <4> QED BY <2>11, <4>1, <4>2, <4>3, <4>4 DEF Apart
    <3> QED BY <3>1, <3>2, <3>3, <3>4, <3>5 DEF Fits
  <2>13. Same' /\ dirty_bitmap' = Logged(gfn_tree[active])'
    BY <1>2, <1>5, <2>8 DEF Same, Logged
  <2>14. ChangeAt(t)'
    BY <2>7, <2>12, <2>13 DEF ChangeAt
  <2> QED BY <2>5, <2>7, <2>9, <2>14 DEF IndInv
<1> QED BY <1>4, <1>8, <1>9 DEF __kvm_set_memory_region, Goto, changeVars

-----------------------------------------------------------------------------
(***************************************************************************)
(* kvm_set_memslot                                                         *)
(***************************************************************************)

\* kvm_set_memslot up to the change of the sets: an error frees a block that is
\* in no set; otherwise new has a bitmap exactly if it logs dirty pages.
LEMMA ArchInv ==
  ASSUME IndInv, NEW t \in Thread, kvm_set_memslot(t)
  PROVE  IndInv'
<1>1. CASE BugCheck("free_null")
  BY <1>1, BugCheckInv
<1>2. CASE ~ BugCheck("free_null")
  <2>1. pc[t] = "arch"
    BY DEF kvm_set_memslot
  <2>2. /\ UNCHANGED <<slot, id_hash, gfn_tree, generation, active,
                       nr_memslot_pages, n_max_mmu_pages>>
        /\ UNCHANGED <<slots_loc, last_used_slot, bugcheck, last_used_slot_gen,
                       ranges, runs, old, new, change>>
    BY <1>2 DEF kvm_set_memslot, setVars, countVars, cacheVars, requestVars, changeVars
  <2>3. Same /\ Fits(t) /\ dirty_bitmap = Logged(gfn_tree[active])
    BY <2>1 DEF IndInv, ChangeAt
  <2>4. /\ change[t] \in {"create", "move", "flags_only"}
        /\ new[t] \in used \ gfn_tree[active]
        /\ change[t] # "create" => old[t] \in gfn_tree[active]
    BY <2>3 DEF Fits
  <2>5. gfn_tree[active] \subseteq used /\ used \subseteq Slot /\ new[t] \in Slot
    BY <2>4 DEF IndInv, TypeOK, ActiveInv
  <2>6. InvalidatedArch(t) \in SUBSET Slot
    BY <2>4, <2>5 DEF InvalidatedArch, IndInv, TypeOK
  <2>7. arch_lost' \in SUBSET Slot
    BY <1>2, <2>6 DEF kvm_set_memslot, IndInv, TypeOK
  <2>8. slots_arch_lock' \in [owner : Thread \cup {Null}, depth : Nat]
    <3>1. Locked(t) \in [owner : Thread \cup {Null}, depth : Nat]
      BY DEF Locked, IndInv, TypeOK
    <3>2. slots_arch_lock' = Locked(t) \/ slots_arch_lock' = slots_arch_lock
      BY <1>2 DEF kvm_set_memslot
    <3> QED BY <3>1, <3>2 DEF IndInv, TypeOK
  <2>9. pc[t] \in Inside /\ pc[t] # "settle"
    BY <2>1 DEF Inside
  <2>10. CASE /\ pc' = [pc EXCEPT ![t] = "unlock"]
              /\ used' = used \ {new[t]} /\ UNCHANGED dirty_bitmap
    <3>1. pc' \in [Thread -> ControlPoints]
      BY <2>10 DEF IndInv, TypeOK, ControlPoints
    <3>2. TypeOK'
      BY <2>2, <2>7, <2>8, <2>10, <3>1 DEF IndInv, TypeOK
    <3>3. "unlock" \in Inside
      BY DEF Inside
    <3>4. /\ pc'[t] = "unlock" /\ MutexInv' /\ RestInv'
          /\ \A u \in Thread \ {t} : ChangeAt(u)'
      BY <2>2, <2>9, <2>10, <3>3, Alone
    <3>5. ChangeAt(t)'
      BY <2>2, <2>3, <2>10, <3>4 DEF ChangeAt, Same, Logged
    <3>6. gfn_tree[active] \subseteq used'
      BY <2>4, <2>5, <2>10
    <3>7. ActiveInv' /\ GenerationInv' /\ CachedSlotCurrent'
      BY <2>2, <2>9, <3>6, ActiveKept
    <3> QED BY <3>2, <3>4, <3>5, <3>7 DEF IndInv
  <2>11. CASE /\ pc' = [pc EXCEPT ![t] = "install"] /\ UNCHANGED used
              /\ dirty_bitmap' = IF NeedsBitmap(t) \/ SharesBitmap(t)
                                 THEN dirty_bitmap \cup {new[t]} ELSE dirty_bitmap
    <3>1. pc' \in [Thread -> ControlPoints]
      BY <2>11 DEF IndInv, TypeOK, ControlPoints
    <3>2. dirty_bitmap' \in SUBSET Slot
      BY <2>5, <2>11 DEF IndInv, TypeOK
    <3>3. TypeOK'
      BY <2>2, <2>7, <2>8, <2>11, <3>1, <3>2 DEF IndInv, TypeOK
    <3>4. "install" \in Inside
      BY DEF Inside
    <3>5. /\ pc'[t] = "install" /\ MutexInv' /\ RestInv'
          /\ \A u \in Thread \ {t} : ChangeAt(u)'
      BY <2>2, <2>9, <2>11, <3>4, Alone
    <3>6. NeedsBitmap(t) \/ SharesBitmap(t) <=> "log_dirty" \in slot[new[t]].flags
      BY <2>4 DEF NeedsBitmap, SharesBitmap
    <3>7. dirty_bitmap' = Logged(gfn_tree[active] \cup {new[t]})
      BY <2>3, <2>11, <3>6 DEF Logged
    <3>8. Logged(gfn_tree[active] \cup {new[t]})' = Logged(gfn_tree[active] \cup {new[t]})
      BY <2>2 DEF Logged
    <3>9. Same' /\ Fits(t)'
      BY <2>2, <2>3, <2>11 DEF Same, Fits, Apart, First, End
    <3>10. ChangeAt(t)'
      BY <3>5, <3>7, <3>8, <3>9 DEF ChangeAt
    <3>11. ActiveInv' /\ GenerationInv' /\ CachedSlotCurrent'
      BY <2>2, <2>5, <2>9, <2>11, ActiveKept
    <3> QED BY <3>3, <3>5, <3>10, <3>11 DEF IndInv
  <2> QED BY <1>2, <2>10, <2>11 DEF kvm_set_memslot, Goto
<1> QED BY <1>1, <1>2

\* The inactive set becomes the active one with new in the place of old.
LEMMA InstallInv ==
  ASSUME IndInv, NEW t \in Thread, kvm_create_memslot(t)
  PROVE  IndInv'
<1>1. CASE BugCheck("equal_gfn")
  BY <1>1, BugCheckInv
<1>2. CASE ~ BugCheck("equal_gfn")
  <2>1. /\ pc[t] = "install" /\ pc' = [pc EXCEPT ![t] = "swap"]
        /\ kvm_replace_memslot(1 - active, old[t], new[t])
    BY <1>2 DEF kvm_create_memslot, Goto, kvm_get_inactive_memslots
  <2>2. /\ UNCHANGED <<slot, used, dirty_bitmap, arch_lost, generation, active,
                       nr_memslot_pages, n_max_mmu_pages>>
        /\ UNCHANGED <<slots_loc, slots_arch_lock, last_used_slot, bugcheck,
                       last_used_slot_gen, ranges, runs, old, new, change>>
    BY <1>2 DEF kvm_create_memslot, poolVars, countVars, lockVars, cacheVars,
       requestVars, changeVars
  <2>3. Same /\ Fits(t) /\ dirty_bitmap = Logged(gfn_tree[active] \cup {new[t]})
    BY <2>1 DEF IndInv, ChangeAt
  <2>4. /\ new[t] \in Slot /\ new[t] # Null
        /\ active \in {0, 1} /\ 1 - active \in {0, 1} /\ 1 - active # active
    BY <2>3, NullSlotAssumption DEF IndInv, TypeOK, Fits
  <2>5. /\ id_hash' = [id_hash EXCEPT ![1 - active] = (@ \ {old[t]}) \cup {new[t]}]
        /\ gfn_tree' = [gfn_tree EXCEPT ![1 - active] = (@ \ {old[t]}) \cup {new[t]}]
    BY <2>1, <2>4 DEF kvm_replace_memslot
  <2>6. /\ id_hash' \in [{0, 1} -> SUBSET Slot]
        /\ gfn_tree' \in [{0, 1} -> SUBSET Slot]
    BY <2>4, <2>5 DEF IndInv, TypeOK
  <2>7. /\ gfn_tree'[active] = gfn_tree[active] /\ id_hash'[active] = id_hash[active]
        /\ gfn_tree'[1 - active] = (gfn_tree[1 - active] \ {old[t]}) \cup {new[t]}
        /\ id_hash'[1 - active] = (id_hash[1 - active] \ {old[t]}) \cup {new[t]}
    BY <2>4, <2>5 DEF IndInv, TypeOK
  <2>8. pc' \in [Thread -> ControlPoints]
    BY <2>1 DEF IndInv, TypeOK, ControlPoints
  <2>9. TypeOK'
    BY <2>2, <2>6, <2>8 DEF IndInv, TypeOK
  <2>10. pc[t] \in Inside /\ pc[t] # "settle" /\ "swap" \in Inside
    BY <2>1 DEF Inside
  <2>11. /\ pc'[t] = "swap" /\ MutexInv' /\ RestInv'
         /\ \A u \in Thread \ {t} : ChangeAt(u)'
    BY <2>1, <2>2, <2>10, Alone
  <2>12. ActiveInv' /\ GenerationInv' /\ CachedSlotCurrent'
    <3>1. gfn_tree[active] \subseteq used'
      BY <2>2 DEF IndInv, ActiveInv
    <3> QED BY <2>2, <2>7, <2>10, <3>1, ActiveKept
  <2>13. Fits(t)'
    BY <2>2, <2>3, <2>7 DEF Fits, Apart, First, End
  <2>14. dirty_bitmap' = Logged(gfn_tree[active] \cup {new[t]})'
    BY <2>2, <2>3, <2>7 DEF Logged
  <2>15. /\ (id_hash[1 - active] = gfn_tree[1 - active])'
         /\ (gfn_tree[1 - active] = (gfn_tree[active] \ {old[t]}) \cup {new[t]})'
    BY <2>2, <2>3, <2>7 DEF Same
  <2>16. ChangeAt(t)'
    BY <2>11, <2>13, <2>14, <2>15 DEF ChangeAt
  <2> QED BY <2>9, <2>11, <2>12, <2>16 DEF IndInv
<1> QED BY <1>1, <1>2

\* The set that is published is disjoint, and no vCPU has seen its generation.
LEMMA SwapInv ==
  ASSUME IndInv, NEW t \in Thread, kvm_swap_active_memslots(t)
  PROVE  IndInv'
<1>1. CASE BugCheck("invalid_slot")
  BY <1>1, BugCheckInv
<1>2. CASE ~ BugCheck("invalid_slot")
  <2>1. /\ pc[t] = "swap" /\ pc' = [pc EXCEPT ![t] = "settle"]
        /\ active' = 1 - active /\ slots_arch_lock' = Released
        /\ generation' = [generation EXCEPT ![1 - active] =
                             [n |-> generation[active].n, updating |-> TRUE]]
    BY <1>2 DEF kvm_swap_active_memslots, Goto, kvm_get_inactive_memslots, SwapGeneration
  <2>2. /\ UNCHANGED <<slot, used, dirty_bitmap, arch_lost, id_hash, gfn_tree,
                       nr_memslot_pages, n_max_mmu_pages>>
        /\ UNCHANGED <<slots_loc, last_used_slot, bugcheck,
                       last_used_slot_gen, ranges, runs, old, new, change>>
    BY <1>2 DEF kvm_swap_active_memslots, poolVars, countVars, cacheVars,
       requestVars, changeVars
  <2>3. /\ Fits(t)
        /\ dirty_bitmap = Logged(gfn_tree[active] \cup {new[t]})
        /\ id_hash[1 - active] = gfn_tree[1 - active]
        /\ gfn_tree[1 - active] = (gfn_tree[active] \ {old[t]}) \cup {new[t]}
    BY <2>1 DEF IndInv, ChangeAt
  <2>4. /\ active \in {0, 1} /\ active' \in {0, 1} /\ 1 - active' = active
        /\ generation[active] \in Generation
    BY <2>1 DEF IndInv, TypeOK
  <2>5. /\ generation' \in [{0, 1} -> Generation]
        /\ generation'[active'].n = generation[active].n
        /\ generation'[active'].updating = TRUE
    BY <2>1, <2>4 DEF IndInv, TypeOK, Generation
  <2>6. Released \in [owner : Thread \cup {Null}, depth : Nat]
    <3>1. /\ slots_arch_lock \in [owner : Thread \cup {Null}, depth : Nat]
          /\ slots_arch_lock.depth \in Nat
      BY DEF IndInv, TypeOK
    <3>2. CASE slots_arch_lock.depth <= 1
      BY <3>2 DEF Released
    <3>3. CASE ~ (slots_arch_lock.depth <= 1)
      <4>1. slots_arch_lock.depth - 1 \in Nat
        BY <3>1, <3>3
      <4>2. Released = [slots_arch_lock EXCEPT !.depth = slots_arch_lock.depth - 1]
        BY <3>3 DEF Released
      <4> QED BY <3>1, <4>1, <4>2
    <3> QED BY <3>2, <3>3
  <2>7. pc' \in [Thread -> ControlPoints]
    BY <2>1 DEF IndInv, TypeOK, ControlPoints
  <2>8. TypeOK'
    BY <2>1, <2>2, <2>4, <2>5, <2>6, <2>7 DEF IndInv, TypeOK
  <2>9. pc[t] \in Inside /\ "settle" \in Inside
    BY <2>1 DEF Inside
  <2>10. /\ slots_loc = t /\ pc'[t] = "settle" /\ MutexInv' /\ RestInv'
         /\ \A u \in Thread \ {t} : ChangeAt(u)'
    BY <2>1, <2>2, <2>9, Alone
  <2>11. /\ gfn_tree'[active'] = (gfn_tree[active] \ {old[t]}) \cup {new[t]}
         /\ id_hash'[active'] = gfn_tree'[active']
         /\ gfn_tree'[1 - active'] = gfn_tree[active]
         /\ id_hash'[1 - active'] = gfn_tree[active]
    BY <2>1, <2>2, <2>3, <2>4 DEF IndInv, ActiveInv
  <2>12. ActiveInv'
    <3>1. gfn_tree'[active'] \subseteq used'
      BY <2>2, <2>3, <2>11 DEF Fits, IndInv, ActiveInv
    <3>2. ASSUME NEW s \in gfn_tree'[active'], NEW r \in gfn_tree'[active'], s # r
          PROVE  Apart(s, r) /\ slot[s].id # slot[r].id
      <4>1. CASE s # new[t] /\ r # new[t]
        BY <2>11, <3>2, <4>1 DEF IndInv, ActiveInv
      <4>2. CASE s = new[t]
        BY <2>3, <2>11, <3>2, <4>2 DEF Fits, Apart
      <4>3. CASE r = new[t]
        BY <2>3, <2>11, <3>2, <4>3 DEF Fits, Apart
      <4> QED BY <4>1, <4>2, <4>3
    <3>3. \A s, r : Apart(s, r)' <=> Apart(s, r)
      BY <2>2 DEF Apart, End, First
    <3> QED BY <2>2, <2>11, <3>1, <3>2, <3>3 DEF ActiveInv
  <2>13. ~ generation[active].updating
    BY <2>1, <2>10 DEF IndInv, GenerationInv
  <2>14. GenerationInv'
    BY <2>2, <2>5, <2>10 DEF IndInv, GenerationInv
  <2>15. CachedSlotCurrent'
    <3>1. ASSUME NEW v \in Vcpu PROVE last_used_slot_gen[v] # generation'[active']
      BY <2>5, <2>13 DEF IndInv, GenerationInv
    <3> QED BY <2>2, <3>1 DEF CachedSlotCurrent, CachedSlot
  <2>16. new[t] \in Slot /\ old[t] \notin gfn_tree'[active']
    BY <2>3, <2>11, NullSlotAssumption DEF Fits, IndInv, TypeOK
  <2>17. dirty_bitmap' = Logged(gfn_tree[active] \cup ({old[t]} \ {Null}))'
    <3>1. gfn_tree[active] \cup {new[t]} = gfn_tree'[active'] \cup ({old[t]} \ {Null})
      BY <2>3, <2>11, NullSlotAssumption DEF Fits, IndInv, TypeOK
    <3> QED BY <2>2, <2>3, <3>1 DEF Logged
  <2>18. ChangeAt(t)'
    <3>1. /\ id_hash'[1 - active'] = gfn_tree'[1 - active']
          /\ gfn_tree'[active'] = (gfn_tree'[1 - active'] \ {old'[t]}) \cup {new'[t]}
      BY <2>2, <2>11
    <3>2. /\ change'[t] \in {"create", "move", "flags_only"}
          /\ change'[t] = "create" => old'[t] = Null
      BY <2>2, <2>3 DEF Fits
    <3>3. new'[t] \in Slot /\ old'[t] \notin gfn_tree'[active']
      BY <2>2, <2>16
    <3> QED BY <2>10, <2>17, <3>1, <3>2, <3>3 DEF ChangeAt
  <2> QED BY <2>8, <2>10, <2>12, <2>14, <2>15, <2>18 DEF IndInv
<1> QED BY <1>1, <1>2

\* The generation that ends the swap is new to every vCPU as well.
LEMMA SettleInv ==
  ASSUME IndInv, NEW t \in Thread, settle_generation(t)
  PROVE  IndInv'
<1>1. /\ pc[t] = "settle" /\ pc' = [pc EXCEPT ![t] = "propagate"]
      /\ generation' = [generation EXCEPT ![active] =
                           [n |-> generation[active].n + 1, updating |-> FALSE]]
  BY DEF settle_generation, Goto, NextGeneration
<1>2. /\ UNCHANGED <<slot, used, dirty_bitmap, arch_lost, id_hash, gfn_tree, active,
                     nr_memslot_pages, n_max_mmu_pages>>
      /\ UNCHANGED <<slots_loc, slots_arch_lock, last_used_slot, bugcheck,
                     last_used_slot_gen, ranges, runs, old, new, change>>
  BY DEF settle_generation, poolVars, countVars, lockVars, cacheVars, requestVars, changeVars
<1>3. active \in {0, 1} /\ generation[active] \in Generation
  BY DEF IndInv, TypeOK
<1>4. /\ generation' \in [{0, 1} -> Generation]
      /\ generation'[active].n = generation[active].n + 1
      /\ generation'[active].updating = FALSE
  BY <1>1, <1>3 DEF IndInv, TypeOK, Generation
<1>5. pc' \in [Thread -> ControlPoints]
  BY <1>1 DEF IndInv, TypeOK, ControlPoints
<1>6. TypeOK'
  BY <1>2, <1>4, <1>5 DEF IndInv, TypeOK
<1>7. pc[t] \in Inside /\ "propagate" \in Inside
  BY <1>1 DEF Inside
<1>8. /\ pc'[t] = "propagate" /\ MutexInv' /\ RestInv'
      /\ \A u \in Thread \ {t} : ChangeAt(u)'
  BY <1>1, <1>2, <1>7, Alone
<1>9. ActiveInv'
  BY <1>2 DEF IndInv, ActiveInv, Apart, First, End
<1>10. ASSUME NEW v \in Vcpu
       PROVE  /\ last_used_slot_gen[v].n <= generation'[active].n
              /\ last_used_slot_gen[v].n # generation'[active].n
  <2>1. last_used_slot_gen[v].n \in Nat /\ generation[active].n \in Nat
    BY <1>3 DEF IndInv, TypeOK, Generation
  <2>2. last_used_slot_gen[v].n <= generation[active].n
    BY DEF IndInv, GenerationInv
  <2> QED BY <1>4, <2>1, <2>2
<1>11. GenerationInv'
  BY <1>2, <1>4, <1>10 DEF GenerationInv
<1>12. CachedSlotCurrent'
  BY <1>2, <1>10 DEF CachedSlotCurrent, CachedSlot
<1>13. ChangeAt(t)'
  BY <1>1, <1>2, <1>8 DEF IndInv, ChangeAt, Logged
<1> QED BY <1>6, <1>8, <1>9, <1>11, <1>12, <1>13 DEF IndInv

\* The second replacement makes the sets equal again, except after a move.
LEMMA PropagateInv ==
  ASSUME IndInv, NEW t \in Thread, kvm_activate_memslot(t)
  PROVE  IndInv'
<1>1. CASE BugCheck("equal_gfn")
  BY <1>1, BugCheckInv
<1>2. CASE ~ BugCheck("equal_gfn")
  <2>1. /\ pc[t] = "propagate" /\ pc' = [pc EXCEPT ![t] = "commit"]
    BY <1>2 DEF kvm_activate_memslot, Goto
  <2>2. /\ UNCHANGED <<slot, used, dirty_bitmap, arch_lost, generation, active,
                       nr_memslot_pages, n_max_mmu_pages>>
        /\ UNCHANGED <<slots_loc, slots_arch_lock, last_used_slot, bugcheck,
                       last_used_slot_gen, ranges, runs, old, new, change>>
    BY <1>2 DEF kvm_activate_memslot, poolVars, countVars, lockVars, cacheVars,
       requestVars, changeVars
  <2>3. /\ id_hash[1 - active] = gfn_tree[1 - active]
        /\ gfn_tree[active] = (gfn_tree[1 - active] \ {old[t]}) \cup {new[t]}
        /\ change[t] \in {"create", "move", "flags_only"}
        /\ change[t] = "create" => old[t] = Null
        /\ new[t] \in Slot
        /\ old[t] \notin gfn_tree[active]
        /\ dirty_bitmap = Logged(gfn_tree[active] \cup ({old[t]} \ {Null}))
    BY <2>1 DEF IndInv, ChangeAt
  <2>4. /\ new[t] # Null
        /\ active \in {0, 1} /\ 1 - active \in {0, 1} /\ 1 - active # active
    BY <2>3, NullSlotAssumption DEF IndInv, TypeOK
  <2>5. \E h, g \in SUBSET Slot :
          /\ id_hash' = [id_hash EXCEPT ![1 - active] = h]
          /\ gfn_tree' = [gfn_tree EXCEPT ![1 - active] = g]
          /\ change[t] = "move" \/ (h = gfn_tree[active] /\ g = gfn_tree[active])
    <3>1. CASE change[t] = "move"
      <4>1. ReplaceZeroedSlot(1 - active, new[t])
        BY <1>2, <3>1 DEF kvm_activate_memslot, kvm_get_inactive_memslots
      <4>2. /\ id_hash[1 - active] \cup ({new[t]} \ {Null}) \in SUBSET Slot
            /\ {new[t]} \ {Null} \in SUBSET Slot
        BY <2>3, <2>4 DEF IndInv, TypeOK
      <4> QED BY <3>1, <4>1, <4>2 DEF ReplaceZeroedSlot
    <3>2. CASE change[t] # "move"
      <4>1. kvm_replace_memslot(1 - active, old[t], new[t])
        BY <1>2, <2>3, <3>2 DEF kvm_activate_memslot, kvm_get_inactive_memslots
      <4>2. /\ (id_hash[1 - active] \ {old[t]}) \cup ({new[t]} \ {Null}) = gfn_tree[active]
            /\ (gfn_tree[1 - active] \ {old[t]}) \cup ({new[t]} \ {Null}) = gfn_tree[active]
        BY <2>3, <2>4
      <4>3. gfn_tree[active] \in SUBSET Slot
        BY <2>4 DEF IndInv, TypeOK
      <4> QED BY <4>1, <4>2, <4>3 DEF kvm_replace_memslot
    <3> QED BY <3>1, <3>2
  <2>6. PICK h \in SUBSET Slot, g \in SUBSET Slot :
          /\ id_hash' = [id_hash EXCEPT ![1 - active] = h]
          /\ gfn_tree' = [gfn_tree EXCEPT ![1 - active] = g]
          /\ change[t] = "move" \/ (h = gfn_tree[active] /\ g = gfn_tree[active])
    BY <2>5
  <2>7. /\ id_hash' \in [{0, 1} -> SUBSET Slot]
        /\ gfn_tree' \in [{0, 1} -> SUBSET Slot]
    BY <2>4, <2>6 DEF IndInv, TypeOK
  <2>8. /\ gfn_tree'[active] = gfn_tree[active] /\ id_hash'[active] = id_hash[active]
        /\ gfn_tree'[1 - active] = g /\ id_hash'[1 - active] = h
    BY <2>4, <2>6 DEF IndInv, TypeOK
  <2>9. pc' \in [Thread -> ControlPoints]
    BY <2>1 DEF IndInv, TypeOK, ControlPoints
  <2>10. TypeOK'
    BY <2>2, <2>7, <2>9 DEF IndInv, TypeOK
  <2>11. pc[t] \in Inside /\ pc[t] # "settle" /\ "commit" \in Inside
    BY <2>1 DEF Inside
  <2>12. /\ pc'[t] = "commit" /\ MutexInv' /\ RestInv'
         /\ \A u \in Thread \ {t} : ChangeAt(u)'
    BY <2>1, <2>2, <2>11, Alone
  <2>13. ActiveInv' /\ GenerationInv' /\ CachedSlotCurrent'
    <3>1. gfn_tree[active] \subseteq used'
      BY <2>2 DEF IndInv, ActiveInv
    <3> QED BY <2>2, <2>8, <2>11, <3>1, ActiveKept
  <2>14. ChangeAt(t)'
    <3>1. change'[t] = "move" \/ Same'
      BY <2>2, <2>6, <2>8 DEF Same
    <3>2. dirty_bitmap' = Logged(gfn_tree[active] \cup ({old[t]} \ {Null}))'
      BY <2>2, <2>3, <2>8 DEF Logged
    <3> QED BY <2>2, <2>3, <2>8, <2>12, <3>1, <3>2 DEF ChangeAt
  <2> QED BY <2>10, <2>12, <2>13, <2>14 DEF IndInv
<1> QED BY <1>1, <1>2

\* A change of flags frees the block it replaced, with its bitmap.
LEMMA CommitInv ==
  ASSUME IndInv, NEW t \in Thread, kvm_commit_memory_region(t)
  PROVE  IndInv'
<1>1. CASE change[t] = "move"
  BY <1>1, BugCheckInv DEF kvm_commit_memory_region
<1>2. CASE change[t] # "move"
  <2>1. /\ pc[t] = "commit" /\ pc' = [pc EXCEPT ![t] = "unlock"]
        /\ nr_memslot_pages' = CommittedPages(t)
        /\ n_max_mmu_pages' = ArchCommittedPages(t)
        /\ dirty_bitmap' = CommittedBitmaps(t)
        /\ used' = IF change[t] = "flags_only" THEN used \ {old[t]} ELSE used
    BY <1>2 DEF kvm_commit_memory_region, Goto
  <2>2. /\ UNCHANGED <<slot, arch_lost, id_hash, gfn_tree, generation, active>>
        /\ UNCHANGED <<slots_loc, slots_arch_lock, last_used_slot, bugcheck,
                       last_used_slot_gen, ranges, runs, old, new, change>>
    BY <1>2 DEF kvm_commit_memory_region, setVars, lockVars, cacheVars,
       requestVars, changeVars
  <2>3. /\ change[t] \in {"create", "flags_only"}
        /\ change[t] = "create" => old[t] = Null
        /\ new[t] \in Slot
        /\ old[t] \notin gfn_tree[active]
        /\ dirty_bitmap = Logged(gfn_tree[active] \cup ({old[t]} \ {Null}))
        /\ Same
    BY <1>2, <2>1 DEF IndInv, ChangeAt
  <2>4. CommittedPages(t) \in Nat
    BY <2>3 DEF CommittedPages, IndInv, TypeOK
  <2>5. n_max_mmu_pages' \in Nat
    <3>1. \A n \in Nat : MmuPages(n) \in Nat
      BY BoundsAssumption DEF MmuPages
    <3> QED BY <2>1, <2>4, <3>1 DEF ArchCommittedPages, IndInv, TypeOK
  <2>6. dirty_bitmap' \in SUBSET Slot /\ used' \in SUBSET Slot
    BY <2>1 DEF CommittedBitmaps, IndInv, TypeOK
  <2>7. pc' \in [Thread -> ControlPoints]
    BY <2>1 DEF IndInv, TypeOK, ControlPoints
  <2>8. TypeOK'
    BY <2>1, <2>2, <2>4, <2>5, <2>6, <2>7 DEF IndInv, TypeOK
  <2>9. pc[t] \in Inside /\ pc[t] # "settle" /\ "unlock" \in Inside
    BY <2>1 DEF Inside
  <2>10. /\ pc'[t] = "unlock" /\ MutexInv' /\ RestInv'
         /\ \A u \in Thread \ {t} : ChangeAt(u)'
    BY <2>1, <2>2, <2>9, Alone
  <2>11. ActiveInv' /\ GenerationInv' /\ CachedSlotCurrent'
    <3>1. gfn_tree[active] \subseteq used'
      BY <2>1, <2>3 DEF IndInv, ActiveInv
    <3> QED BY <2>2, <2>9, <3>1, ActiveKept
  <2>12. dirty_bitmap' = Logged(gfn_tree[active])
    <3>1. CASE change[t] = "create"
      <4>1. gfn_tree[active] \cup ({old[t]} \ {Null}) = gfn_tree[active]
        BY <2>3, <3>1
      <4> QED BY <2>1, <2>3, <3>1, <4>1 DEF CommittedBitmaps
    <3>2. CASE change[t] = "flags_only"
      BY <2>1, <2>3, <3>2 DEF CommittedBitmaps, Logged
    <3> QED BY <2>3, <3>1, <3>2
  <2>13. ChangeAt(t)'
    BY <2>2, <2>3, <2>10, <2>12 DEF ChangeAt, Same, Logged
  <2> QED BY <2>8, <2>10, <2>11, <2>13 DEF IndInv
<1> QED BY <1>1, <1>2

-----------------------------------------------------------------------------
(***************************************************************************)
(* The theorems                                                            *)
(***************************************************************************)

\* Every step keeps the invariant, if no request asks for a deletion.
LEMMA NextInv ==
  ASSUME NoDeletion, IndInv, Next PROVE IndInv'
<1>1. CASE \E t \in Thread : KVM_SET_USER_MEMORY_REGION(t)
  BY <1>1, RequestInv
<1>2. CASE \E t \in Thread : kvm_set_memory_region(t)
  BY <1>2, LockInv
<1>3. CASE \E t \in Thread : InsideStep(t)
  <2>1. PICK t \in Thread : InsideStep(t)
    BY <1>3
  <2>2. CASE __kvm_set_memory_region(t)
    BY <2>2, CheckInv
  <2>3. CASE kvm_set_memslot(t)
    BY <2>3, ArchInv
  <2>4. CASE kvm_create_memslot(t)
    BY <2>4, InstallInv
  <2>5. CASE kvm_swap_active_memslots(t)
    BY <2>5, SwapInv
  <2>6. CASE settle_generation(t)
    BY <2>6, SettleInv
  <2>7. CASE kvm_activate_memslot(t)
    BY <2>7, PropagateInv
  <2>8. CASE kvm_commit_memory_region(t)
    BY <2>8, CommitInv
  <2>9. CASE release_slots_loc(t)
    BY <2>9, ReleaseInv
  <2>10. CASE complete_request(t)
    BY <2>10, ReturnInv
  <2> QED BY <2>1, <2>2, <2>3, <2>4, <2>5, <2>6, <2>7, <2>8, <2>9, <2>10 DEF InsideStep
<1>4. CASE \E v \in Vcpu, gfn \in Gfn : kvm_vcpu_gfn_to_memslot(v, gfn)
  BY <1>4, LookupInv
<1>5. CASE Halted
  BY <1>5, StutterInv DEF Halted
<1> QED BY <1>1, <1>2, <1>3, <1>4, <1>5 DEF Next

\* The invariant holds in every reachable state.
THEOREM Invariance ==
  ASSUME NoDeletion PROVE Spec => []IndInv
<1>1. IndInv /\ [Next]_vars => IndInv'
  BY NextInv, StutterInv
<1> QED BY <1>1, InitInv, PTL DEF Spec

\* The slots the vCPUs are given never overlap, in the middle of a change either.
THEOREM DisjointCorrect ==
  ASSUME NoDeletion PROVE Spec => []ActiveSlotsDisjoint
<1>1. IndInv => ActiveSlotsDisjoint
  BY DEF IndInv, ActiveInv, ActiveSlotsDisjoint, Apart
<1> QED BY <1>1, Invariance, PTL

\* Between two changes both sets have the same members, in the tree and in the
\* hash.
THEOREM SetsCorrect ==
  ASSUME NoDeletion PROVE Spec => []SetsAgree
<1>1. IndInv => SetsAgree
  <2>1. SUFFICES ASSUME IndInv, slots_loc = Null
                 PROVE  /\ id_hash[0] = id_hash[1]
                        /\ gfn_tree[0] = gfn_tree[1]
                        /\ id_hash[0] = gfn_tree[0]
    BY DEF SetsAgree
  <2>2. Same /\ active \in {0, 1} /\ id_hash[active] = gfn_tree[active]
    BY <2>1 DEF IndInv, RestInv, ActiveInv, TypeOK
  <2>3. CASE active = 0
    BY <2>2, <2>3 DEF Same
  <2>4. CASE active = 1
    BY <2>2, <2>4 DEF Same
  <2> QED BY <2>2, <2>3, <2>4
<1> QED BY <1>1, Invariance, PTL

\* The generation protects the cache of every vCPU: what it trusts is a slot of
\* the active set that is in use.
THEOREM CachedSlotCorrect ==
  ASSUME NoDeletion PROVE Spec => []CachedSlotCurrent
<1>1. IndInv => CachedSlotCurrent
  BY DEF IndInv
<1> QED BY <1>1, Invariance, PTL

\* Between two changes exactly the slots with dirty logging own a bitmap.
THEOREM BitmapsCorrect ==
  ASSUME NoDeletion PROVE Spec => []BitmapsFollowFlags
<1>1. IndInv => BitmapsFollowFlags
  BY DEF IndInv, RestInv, Logged, BitmapsFollowFlags
<1> QED BY <1>1, Invariance, PTL

\* The slots of the active set keep their fields while they are in it, and the
\* set is replaced by one with the same numbers at least.
LEMMA VisibleStep ==
  ASSUME NoDeletion, IndInv, Next, NEW s \in gfn_tree[active]
  PROVE  \E r \in gfn_tree'[active'] : slot'[r].id = slot[s].id
<1>1. CASE gfn_tree'[active'] = gfn_tree[active] /\ slot'[s] = slot[s]
  BY <1>1
<1>2. s \in used /\ s \in Slot /\ active \in {0, 1} /\ 1 - active # active
  BY DEF IndInv, ActiveInv, TypeOK
<1>3. CASE \E t \in Thread : kvm_swap_active_memslots(t)
  <2>1. PICK t \in Thread : kvm_swap_active_memslots(t)
    BY <1>3
  <2>2. CASE BugCheck("invalid_slot")
    BY <1>1, <2>2 DEF BugCheck, setVars, poolVars
  <2>3. CASE ~ BugCheck("invalid_slot")
    <3>1. /\ pc[t] = "swap" /\ active' = 1 - active
          /\ UNCHANGED <<gfn_tree, slot>>
      BY <2>1, <2>3 DEF kvm_swap_active_memslots, kvm_get_inactive_memslots, poolVars
    <3>2. /\ Fits(t)
          /\ gfn_tree[1 - active] = (gfn_tree[active] \ {old[t]}) \cup {new[t]}
      BY <3>1 DEF IndInv, ChangeAt
    <3>3. CASE s = old[t]
      <4>1. slot[old[t]].id = slot[new[t]].id
        BY <1>2, <3>2, <3>3, NullSlotAssumption DEF Fits
      <4> QED BY <3>1, <3>2, <3>3, <4>1
    <3>4. CASE s # old[t]
      BY <3>1, <3>2, <3>4
    <3> QED BY <3>3, <3>4
  <2> QED BY <2>2, <2>3
<1>4. CASE \E t \in Thread : __kvm_set_memory_region(t)
  <2>1. UNCHANGED <<gfn_tree, active>>
    BY <1>4 DEF __kvm_set_memory_region, setVars
  <2>2. slot' = slot \/ \E x \in Slot \ used : \E f : slot' = [slot EXCEPT ![x] = f]
    BY <1>4 DEF __kvm_set_memory_region
  <2>3. slot'[s] = slot[s]
    BY <1>2, <2>2 DEF IndInv, TypeOK
  <2> QED BY <1>1, <2>1, <2>3
<1>5. CASE \E t \in Thread : kvm_create_memslot(t) \/ kvm_activate_memslot(t)
  <2>1. UNCHANGED <<active, slot>>
    BY <1>5 DEF kvm_create_memslot, kvm_activate_memslot, BugCheck, setVars, poolVars
  <2>2. \/ gfn_tree' = gfn_tree
        \/ \E g : gfn_tree' = [gfn_tree EXCEPT ![1 - active] = g]
    BY <1>5 DEF kvm_create_memslot, kvm_activate_memslot, BugCheck, setVars,
       kvm_replace_memslot, ReplaceZeroedSlot, kvm_get_inactive_memslots
  <2>3. gfn_tree'[active] = gfn_tree[active]
    BY <1>2, <2>2 DEF IndInv, TypeOK
  <2> QED BY <1>1, <2>1, <2>3
<1>6. CASE UNCHANGED <<gfn_tree, active, slot>>
  BY <1>1, <1>6
<1>7. CASE \E t \in Thread : \/ KVM_SET_USER_MEMORY_REGION(t) \/ kvm_set_memory_region(t)
                             \/ kvm_set_memslot(t) \/ settle_generation(t)
                             \/ kvm_commit_memory_region(t) \/ release_slots_loc(t)
                             \/ complete_request(t)
  BY <1>6, <1>7 DEF KVM_SET_USER_MEMORY_REGION, kvm_set_memory_region, kvm_set_memslot,
     settle_generation, kvm_commit_memory_region, release_slots_loc,
     complete_request, BugCheck, setVars, poolVars
<1>8. CASE \E v \in Vcpu, gfn \in Gfn : kvm_vcpu_gfn_to_memslot(v, gfn)
  BY <1>6, <1>8 DEF kvm_vcpu_gfn_to_memslot, setVars, poolVars
<1>9. CASE Halted
  BY <1>6, <1>9 DEF Halted, vars, setVars, poolVars
<1> QED BY <1>3, <1>4, <1>5, <1>7, <1>8, <1>9 DEF Next, InsideStep

\* No change takes a slot number away from the running vCPUs, not for one
\* look-up.
THEOREM VisibleCorrect ==
  ASSUME NoDeletion PROVE Spec => SlotsStayVisible
<1> DEFINE Visible == \A s \in gfn_tree[active] :
                        \/ \E r \in gfn_tree'[active'] : slot'[r].id = slot[s].id
                        \/ \E t \in Thread : change[t] = "delete" /\ old[t] = s
<1>1. IndInv /\ [Next]_vars => [Visible]_vars
  BY VisibleStep
<1> QED BY <1>1, Invariance, PTL DEF Spec, SlotsStayVisible

-----------------------------------------------------------------------------
(***************************************************************************)
(* A decision is not stale when it is carried out                          *)
(***************************************************************************)

\* id_to_memslot looks at the active set only.
LEMMA IdLookupKept ==
  ASSUME IndInv, active' = active, id_hash'[active] = id_hash[active],
         \A s \in gfn_tree[active] : slot'[s] = slot[s],
         NEW id
  PROVE  id_to_memslot(id)' = id_to_memslot(id)
<1>1. id_hash[active] = gfn_tree[active]
  BY DEF IndInv, ActiveInv
<1> DEFINE hits == {s \in id_hash[active] : slot[s].id = id}
           Answer(S) == IF S = {} THEN Null ELSE CHOOSE s \in S : TRUE
<1>2. hits' = hits
  BY <1>1
<1>3. id_to_memslot(id) = Answer(hits) /\ id_to_memslot(id)' = Answer(hits')
  BY DEF id_to_memslot
<1>4. ASSUME NEW S, NEW T, S = T PROVE Answer(S) = Answer(T)
  BY <1>4
<1> HIDE DEF hits, Answer
<1> QED BY <1>2, <1>3, <1>4

\* So does the overlap check.
LEMMA OverlapKept ==
  ASSUME active' = active, gfn_tree'[active] = gfn_tree[active],
         \A s \in gfn_tree[active] : slot'[s] = slot[s],
         NEW m
  PROVE  kvm_check_memslot_overlap(m)' <=> kvm_check_memslot_overlap(m)
<1>1. \A s \in gfn_tree[active] : First(s)' = First(s) /\ End(s)' = End(s)
  BY DEF First, End
<1>2. ASSUME NEW start, NEW end
      PROVE  GfnRange(start, end)' = GfnRange(start, end)
  BY <1>1, Zenon DEF GfnRange
<1>3. GfnRange(m.base_gfn, m.base_gfn + m.npages) \subseteq gfn_tree[active]
  BY DEF GfnRange
<1>4. GfnRange(m.base_gfn, m.base_gfn + m.npages)' = GfnRange(m.base_gfn, m.base_gfn + m.npages)
  BY <1>2
<1> QED BY <1>3, <1>4, Zenon DEF kvm_check_memslot_overlap

\* And with them the classification, which also looks at the total of pages and
\* at the old slot.
LEMMA ClassifyKept ==
  ASSUME IndInv, active' = active, gfn_tree'[active] = gfn_tree[active],
         \A s \in gfn_tree[active] : slot'[s] = slot[s],
         nr_memslot_pages' = nr_memslot_pages,
         NEW m, NEW o \in gfn_tree[active] \cup {Null}
  PROVE  Classify(m, o)' = Classify(m, o)
<1>1. kvm_check_memslot_overlap(m)' <=> kvm_check_memslot_overlap(m)
  BY OverlapKept
<1>2. CASE o = Null
  BY <1>1, <1>2, Zenon DEF Classify
<1>3. CASE o # Null
  <2>1. slot'[o] = slot[o]
    BY <1>3
  <2> QED BY <1>1, <1>3, <2>1, Zenon DEF Classify
<1> QED BY <1>2, <1>3

\* The part of DecisionHolds that is about thread t.
Decided(t) ==
  pc[t] \in {"arch", "install", "swap"} =>
    LET m == ranges[t][runs[t]]
    IN  id_to_memslot(m.id) = old[t] /\ Classify(m, old[t]) = change[t]

\* A step that changes neither the active set, nor its slots, nor the thread's
\* own request and decision.
LEMMA DecisionKept ==
  ASSUME IndInv, active' = active, gfn_tree'[active] = gfn_tree[active],
         id_hash'[active] = id_hash[active],
         \A s \in gfn_tree[active] : slot'[s] = slot[s],
         nr_memslot_pages' = nr_memslot_pages,
         NEW t \in Thread, Decided(t), pc[t] \in {"arch", "install", "swap"},
         ranges'[t] = ranges[t], runs'[t] = runs[t],
         old'[t] = old[t], change'[t] = change[t]
  PROVE  Decided(t)'
<1> DEFINE m == ranges[t][runs[t]]
           o == old[t]
<1>1. id_to_memslot(m.id) = o /\ Classify(m, o) = change[t]
  BY DEF Decided
<1>2. o \in gfn_tree[active] \cup {Null}
  BY <1>1, IdLookup DEF IndInv
<1>3. ASSUME NEW x, NEW y, x = m, y = o
      PROVE  id_to_memslot(x.id)' = y /\ Classify(x, y)' = change[t]
  BY <1>1, <1>2, <1>3, IdLookupKept, ClassifyKept
<1>4. ranges'[t][runs'[t]] = m /\ old'[t] = o
  OBVIOUS
<1> HIDE DEF m, o
<1> QED BY <1>3, <1>4 DEF Decided

\* The check itself decides by the active set, which it leaves alone: the block
\* it fills in is not in use.
LEMMA DecisionMade ==
  ASSUME IndInv, NEW t \in Thread, __kvm_set_memory_region(t), pc'[t] = "arch"
  PROVE  Decided(t)'
<1> DEFINE m == ranges[t][runs[t]]
           o == id_to_memslot(m.id)
<1>1. /\ active' = active /\ gfn_tree' = gfn_tree /\ id_hash' = id_hash
      /\ nr_memslot_pages' = nr_memslot_pages /\ ranges' = ranges /\ runs' = runs
  BY DEF __kvm_set_memory_region, setVars, countVars, requestVars
<1>2. pc \in [Thread -> ControlPoints] /\ gfn_tree[active] \subseteq used
      /\ old \in [Thread -> Slot \cup {Null}] /\ change \in [Thread -> Changes]
  BY DEF IndInv, TypeOK, ActiveInv
<1>3. /\ old' = [old EXCEPT ![t] = o] /\ change' = [change EXCEPT ![t] = Classify(m, o)]
      /\ slot' = slot \/ \E s \in Slot \ used : \E f : slot' = [slot EXCEPT ![s] = f]
  <2>1. pc' # [pc EXCEPT ![t] = "unlock"]
    BY <1>2
  <2> HIDE DEF m, o
  <2> QED BY <2>1, Zenon DEF __kvm_set_memory_region, Goto, m, o
<1>4. \A s \in gfn_tree[active] : slot'[s] = slot[s]
  BY <1>2, <1>3 DEF IndInv, TypeOK
<1>5. old'[t] = o /\ change'[t] = Classify(m, o)
  BY <1>2, <1>3
<1>6. o \in gfn_tree[active] \cup {Null}
  BY IdLookup DEF IndInv
<1>7. ASSUME NEW x, NEW y, x = m, y = o
      PROVE  id_to_memslot(x.id)' = y /\ Classify(x, y)' = Classify(m, o)
  BY <1>1, <1>4, <1>6, <1>7, IdLookupKept, ClassifyKept
<1>8. ranges'[t][runs'[t]] = m
  BY <1>1
<1> HIDE DEF m, o
<1> QED BY <1>5, <1>7, <1>8 DEF Decided

LEMMA DecisionStep ==
  ASSUME IndInv, \A t \in Thread : Decided(t), [Next]_vars,
         NEW u \in Thread, pc'[u] \in {"arch", "install", "swap"}
  PROVE  Decided(u)'
<1> DEFINE Quiet == UNCHANGED <<active, gfn_tree, id_hash, slot, nr_memslot_pages>>
<1>1. /\ pc \in [Thread -> ControlPoints] /\ active \in {0, 1}
      /\ gfn_tree \in [{0, 1} -> SUBSET Slot] /\ id_hash \in [{0, 1} -> SUBSET Slot]
      /\ ranges \in [Thread -> Requests \cup {<<>>}] /\ runs \in [Thread -> Nat]
  BY DEF IndInv, TypeOK
<1>2. \A t \in Thread \ {u} : pc[t] \in Inside => pc[u] \notin Inside
  BY DEF IndInv, MutexInv
<1>3. ASSUME Quiet, pc'[u] = pc[u], ranges'[u] = ranges[u], runs'[u] = runs[u],
             old'[u] = old[u], change'[u] = change[u]
      PROVE  Decided(u)'
  BY <1>3, DecisionKept
<1>4. ASSUME UNCHANGED vars PROVE Decided(u)'
  BY <1>3, <1>4 DEF vars, setVars, poolVars, countVars, requestVars, changeVars
<1>5. ASSUME NEW why, BugCheck(why) PROVE Decided(u)'
  BY <1>3, <1>5 DEF BugCheck, setVars, poolVars, countVars, requestVars, changeVars
<1>6. ASSUME NEW t \in Thread, pc[t] \in Inside, NEW p, pc' = [pc EXCEPT ![t] = p]
      PROVE  t = u /\ pc'[u] = p
  BY <1>1, <1>2, <1>6 DEF Inside
<1>7. ASSUME NEW t \in Thread, KVM_SET_USER_MEMORY_REGION(t) PROVE Decided(u)'
  <2>1. PICK r \in Requests : /\ pc' = [pc EXCEPT ![t] = "lock"]
                              /\ ranges' = [ranges EXCEPT ![t] = r]
                              /\ runs' = [runs EXCEPT ![t] = 1]
                              /\ Quiet /\ UNCHANGED <<old, change>>
    BY <1>7 DEF KVM_SET_USER_MEMORY_REGION, Goto, setVars, poolVars, countVars, changeVars
  <2>2. u # t
    BY <1>1, <2>1
  <2> QED BY <1>1, <1>3, <2>1, <2>2
<1>8. ASSUME NEW t \in Thread, kvm_set_memory_region(t) PROVE Decided(u)'
  <2>1. /\ pc' = [pc EXCEPT ![t] = "check"]
        /\ Quiet /\ UNCHANGED <<ranges, runs, old, change>>
    BY <1>8 DEF kvm_set_memory_region, Goto, setVars, poolVars, countVars, requestVars, changeVars
  <2>2. u # t
    BY <1>1, <2>1
  <2> QED BY <1>1, <1>3, <2>1, <2>2
<1>9. ASSUME NEW t \in Thread, __kvm_set_memory_region(t) PROVE Decided(u)'
  <2>1. pc[t] \in Inside /\ \E p \in {"unlock", "arch"} : pc' = [pc EXCEPT ![t] = p]
    BY <1>9 DEF __kvm_set_memory_region, Goto, Inside
  <2>2. t = u /\ pc'[u] = "arch"
    BY <1>6, <2>1
  <2> QED BY <1>9, <2>2, DecisionMade
<1>10. ASSUME NEW t \in Thread, kvm_set_memslot(t) PROVE Decided(u)'
  <2>1. CASE BugCheck("free_null")
    BY <1>5, <2>1
  <2>2. CASE /\ Quiet /\ UNCHANGED <<ranges, runs, old, change>> /\ pc[t] = "arch"
             /\ \E p \in {"unlock", "install"} : pc' = [pc EXCEPT ![t] = p]
    <3>1. t = u
      BY <1>6, <2>2 DEF Inside
    <3> QED BY <2>2, <3>1, DecisionKept
  <2> QED
    BY <1>10, <2>1, <2>2 DEF kvm_set_memslot, Goto, setVars, countVars, requestVars, changeVars
<1>11. ASSUME NEW t \in Thread, kvm_create_memslot(t) PROVE Decided(u)'
  <2>1. CASE BugCheck("equal_gfn")
    BY <1>5, <2>1
  <2>2. CASE ~ BugCheck("equal_gfn")
    <3>1. /\ pc[t] = "install" /\ pc' = [pc EXCEPT ![t] = "swap"]
          /\ kvm_replace_memslot(1 - active, old[t], new[t])
          /\ UNCHANGED <<active, slot, nr_memslot_pages, ranges, runs, old, change>>
      BY <1>11, <2>2 DEF kvm_create_memslot, kvm_get_inactive_memslots, Goto, poolVars,
         countVars, requestVars, changeVars
    <3>2. t = u
      BY <1>6, <3>1 DEF Inside
    <3>3. gfn_tree'[active] = gfn_tree[active] /\ id_hash'[active] = id_hash[active]
      BY <1>1, <3>1 DEF kvm_replace_memslot
    <3> QED BY <3>1, <3>2, <3>3, DecisionKept
  <2> QED BY <2>1, <2>2
<1>12. ASSUME NEW t \in Thread, pc[t] \in Inside, NEW p \in {"settle", "propagate", "commit",
              "unlock", "return", "lock"}, pc' = [pc EXCEPT ![t] = p]
       PROVE  FALSE
  BY <1>6, <1>12
<1>13. ASSUME NEW t \in Thread, kvm_swap_active_memslots(t) PROVE Decided(u)'
  BY <1>5, <1>12, <1>13 DEF kvm_swap_active_memslots, Goto, Inside
<1>14. ASSUME NEW t \in Thread, settle_generation(t) PROVE Decided(u)'
  BY <1>12, <1>14 DEF settle_generation, Goto, Inside
<1>15. ASSUME NEW t \in Thread, kvm_activate_memslot(t) PROVE Decided(u)'
  BY <1>5, <1>12, <1>15 DEF kvm_activate_memslot, Goto, Inside
<1>16. ASSUME NEW t \in Thread, kvm_commit_memory_region(t) PROVE Decided(u)'
  BY <1>5, <1>12, <1>16 DEF kvm_commit_memory_region, Goto, Inside
<1>17. ASSUME NEW t \in Thread, release_slots_loc(t) PROVE Decided(u)'
  BY <1>12, <1>17 DEF release_slots_loc, Goto, Inside
<1>18. ASSUME NEW t \in Thread, complete_request(t) PROVE Decided(u)'
  <2>1. CASE BugCheck("mutex_held")
    BY <1>5, <2>1
  <2>2. CASE ~ BugCheck("mutex_held")
    <3>1. /\ pc' = [pc EXCEPT ![t] = "idle"]
          /\ Quiet /\ UNCHANGED <<ranges, runs, old, change>>
      BY <1>18, <2>2 DEF complete_request, Goto, setVars, poolVars, countVars, requestVars,
         changeVars
    <3>2. u # t
      BY <1>1, <3>1
    <3> QED BY <1>1, <1>3, <3>1, <3>2
  <2> QED BY <2>1, <2>2
<1>19. ASSUME NEW v \in Vcpu, NEW gfn \in Gfn, kvm_vcpu_gfn_to_memslot(v, gfn)
       PROVE  Decided(u)'
  BY <1>3, <1>19 DEF kvm_vcpu_gfn_to_memslot, setVars, poolVars, countVars, requestVars,
     changeVars
<1> HIDE DEF Quiet
<1> QED BY <1>4, <1>7, <1>8, <1>9, <1>10, <1>11, <1>13, <1>14, <1>15, <1>16, <1>17, <1>18,
           <1>19 DEF Next, InsideStep, Halted

\* Whatever other threads do and however their requests end, what a thread
\* decided about its region is still true when it installs it.
THEOREM DecisionCorrect ==
  ASSUME NoDeletion PROVE Spec => []DecisionHolds
<1> DEFINE AllDecided == \A t \in Thread : Decided(t)
<1>1. AllDecided <=> DecisionHolds
  BY DEF Decided, DecisionHolds
<1>2. Init => AllDecided
  BY DEF Init, Decided
<1>3. IndInv /\ AllDecided /\ [Next]_vars => AllDecided'
  <2> SUFFICES ASSUME IndInv, AllDecided, [Next]_vars, NEW u \in Thread PROVE Decided(u)'
    OBVIOUS
  <2>1. CASE pc'[u] \in {"arch", "install", "swap"}
    BY <2>1, DecisionStep
  <2>2. CASE pc'[u] \notin {"arch", "install", "swap"}
    BY <2>2 DEF Decided
  <2> QED BY <2>1, <2>2
<1> HIDE DEF AllDecided
<1> QED BY <1>1, <1>2, <1>3, Invariance, PTL DEF Spec

-----------------------------------------------------------------------------
(***************************************************************************)
(* The page total                                                          *)
(***************************************************************************)

\* The total lags behind the active set from kvm_swap_active_memslots, which
\* publishes the frames of a created slot, to kvm_commit_memory_region, which
\* counts them.  A change of flags replaces a slot by one with the same frames.
PagesAt(t) ==
  /\ pc[t] \in {"check", "arch", "install", "swap", "unlock"} =>
       nr_memslot_pages = Cardinality(Frames)
  /\ pc[t] \in {"arch", "install", "swap"} /\ change[t] = "flags_only" =>
       First(old[t]) = First(new[t]) /\ End(old[t]) = End(new[t])
  /\ pc[t] \in {"settle", "propagate", "commit"} =>
       /\ change[t] = "create" =>
            nr_memslot_pages + slot[new[t]].npages = Cardinality(Frames)
       /\ change[t] = "flags_only" => nr_memslot_pages = Cardinality(Frames)

PagesInv ==
  /\ IsFiniteSet(Frames)
  /\ n_max_mmu_pages \in {0, MmuPages(nr_memslot_pages)}
  /\ slots_loc = Null => nr_memslot_pages = Cardinality(Frames)
  /\ \A t \in Thread : PagesAt(t)

\* The active set and the blocks in it decide the frames.
LEMMA FramesKept ==
  ASSUME gfn_tree'[active'] = gfn_tree[active],
         \A s \in gfn_tree[active] : slot'[s] = slot[s]
  PROVE  Frames' = Frames
<1>1. \A s \in gfn_tree[active] : First(s)' = First(s) /\ End(s)' = End(s)
  BY DEF First, End
<1>2. {First(s) .. End(s) - 1 : s \in gfn_tree[active]}' =
        {First(s) .. End(s) - 1 : s \in gfn_tree[active]}
  BY <1>1
<1> QED BY <1>2 DEF Frames

\* A step that changes neither the slots, nor the total, nor where the owner of
\* slots_loc stands.
LEMMA PagesUntouched ==
  ASSUME PagesInv,
         UNCHANGED <<slot, gfn_tree, active, nr_memslot_pages, n_max_mmu_pages,
                     slots_loc, old, new, change>>,
         \A u \in Thread : pc'[u] = pc[u] \/ pc'[u] \notin Inside
  PROVE  PagesInv'
<1>1. Frames' = Frames
  BY FramesKept
<1>2. ASSUME NEW u \in Thread PROVE PagesAt(u)'
  <2>1. CASE pc'[u] = pc[u]
    BY <1>1, <2>1 DEF PagesInv, PagesAt, First, End
  <2>2. CASE pc'[u] \notin Inside
    BY <2>2 DEF PagesAt, Inside
  <2> QED BY <2>1, <2>2
<1> QED BY <1>1, <1>2 DEF PagesInv, MmuPages

\* A step of the thread in the critical section concerns that thread alone.
LEMMA PagesInside ==
  ASSUME IndInv, NEW t \in Thread, pc[t] \in Inside, NEW p \in Inside,
         pc' = [pc EXCEPT ![t] = p], UNCHANGED slots_loc,
         IsFiniteSet(Frames)', (n_max_mmu_pages \in {0, MmuPages(nr_memslot_pages)})',
         PagesAt(t)'
  PROVE  PagesInv'
<1>1. slots_loc = t /\ \A u \in Thread \ {t} : pc[u] \notin Inside
  BY DEF IndInv, MutexInv
<1>2. \A u \in Thread \ {t} : pc'[u] \notin Inside
  BY <1>1 DEF IndInv, TypeOK
<1>3. \A u \in Thread \ {t} : PagesAt(u)'
  BY <1>2 DEF PagesAt, Inside
<1> QED BY <1>1, <1>3, NullSlotAssumption DEF PagesInv

\* No guest frame is in a slot when the VM is created.
LEMMA PagesInit == Init => PagesInv
<1>1. SUFFICES ASSUME Init PROVE PagesInv
  OBVIOUS
<1>2. Frames = {}
  BY <1>1 DEF Init, Frames
<1>3. IsFiniteSet(Frames) /\ Cardinality(Frames) = 0
  BY <1>2, FS_EmptySet
<1>4. \A t \in Thread : PagesAt(t)
  BY <1>1 DEF Init, PagesAt
<1> QED BY <1>1, <1>3, <1>4 DEF Init, PagesInv

\* The classification calls a change one of flags only if base and size agree.
LEMMA PagesCheck ==
  ASSUME NoDeletion, IndInv, PagesInv, NEW t \in Thread, __kvm_set_memory_region(t)
  PROVE  PagesInv'
<1> DEFINE m == ranges[t][runs[t]]
           o == id_to_memslot(m.id)
           ch == Classify(m, o)
           fields == [id |-> m.id, base_gfn |-> m.base_gfn, npages |-> m.npages,
                      flags |-> m.flags]
<1>1. pc[t] = "check" /\ pc[t] \in Inside
  BY DEF __kvm_set_memory_region, Inside
<1>2. UNCHANGED <<gfn_tree, active, nr_memslot_pages, n_max_mmu_pages, slots_loc>>
  BY DEF __kvm_set_memory_region, setVars, countVars, lockVars
<1>3. m \in Region /\ (m.valid => m.npages # 0)
  <2>1. ranges[t] \in Requests /\ runs[t] \in 1 .. Len(ranges[t])
    BY <1>1 DEF IndInv, MutexInv
  <2>2. ranges[t] \in Seq(Region)
    BY <2>1, RequestsAssumption
  <2> QED BY <2>1, <2>2 DEF NoDeletion
<1>4. /\ ch # "delete"
      /\ ch = "flags_only" =>
           o # Null /\ m.base_gfn = slot[o].base_gfn /\ m.npages = slot[o].npages
  BY <1>3, ClassifyCases
<1>5. nr_memslot_pages = Cardinality(Frames)
  BY <1>1 DEF PagesInv, PagesAt
<1>6. gfn_tree[active] \subseteq used /\ gfn_tree[active] \subseteq Slot
  BY DEF IndInv, ActiveInv, TypeOK
<1>7. CASE pc' = [pc EXCEPT ![t] = "unlock"] /\ UNCHANGED <<slot, used, old, new, change>>
  <2>1. Frames' = Frames
    BY <1>2, <1>7, FramesKept
  <2>2. pc'[t] = "unlock" /\ "unlock" \in Inside
    BY <1>7 DEF IndInv, TypeOK, Inside
  <2>3. PagesAt(t)'
    BY <1>2, <1>5, <2>1, <2>2 DEF PagesAt
  <2> QED BY <1>1, <1>2, <1>7, <2>1, <2>2, <2>3, PagesInside DEF PagesInv, MmuPages
<1>8. CASE \E s \in Slot \ used :
             /\ pc' = [pc EXCEPT ![t] = "arch"]
             /\ slot' = [slot EXCEPT ![s] = fields]
             /\ new' = [new EXCEPT ![t] = s]
             /\ old' = [old EXCEPT ![t] = o]
             /\ change' = [change EXCEPT ![t] = ch]
  <2>1. PICK s \in Slot \ used :
             /\ pc' = [pc EXCEPT ![t] = "arch"]
             /\ slot' = [slot EXCEPT ![s] = fields]
             /\ new' = [new EXCEPT ![t] = s]
             /\ old' = [old EXCEPT ![t] = o]
             /\ change' = [change EXCEPT ![t] = ch]
    BY <1>8
  <2>2. o = Null \/ o \in gfn_tree[active]
    BY IdLookup DEF IndInv
  <2> HIDE DEF o, ch, m
  <2>3. /\ \A x \in gfn_tree[active] : slot'[x] = slot[x]
        /\ slot'[s] = fields
    BY <1>6, <2>1 DEF IndInv, TypeOK
  <2>4. Frames' = Frames
    BY <1>2, <2>3, FramesKept
  <2>5. pc'[t] = "arch" /\ "arch" \in Inside
    BY <2>1 DEF IndInv, TypeOK, Inside
  <2>6. new'[t] = s /\ old'[t] = o /\ change'[t] = ch
    BY <2>1 DEF IndInv, TypeOK
  <2>7. change'[t] = "flags_only" =>
          First(old[t])' = First(new[t])' /\ End(old[t])' = End(new[t])'
    BY <1>4, <2>2, <2>3, <2>6 DEF First, End
  <2>8. PagesAt(t)'
    BY <1>2, <1>5, <2>4, <2>5, <2>7 DEF PagesAt
  <2> QED BY <1>1, <1>2, <2>1, <2>4, <2>5, <2>8, PagesInside DEF PagesInv, MmuPages
<1> QED BY <1>4, <1>7, <1>8 DEF __kvm_set_memory_region, Goto, changeVars

\* Until the sets are swapped a change concerns the inactive set only.
LEMMA PagesPrepare ==
  ASSUME IndInv, PagesInv, NEW t \in Thread,
         kvm_set_memslot(t) \/ kvm_create_memslot(t), UNCHANGED bugcheck
  PROVE  PagesInv'
<1>1. /\ UNCHANGED <<slot, active, nr_memslot_pages, n_max_mmu_pages, slots_loc,
                     old, new, change>>
      /\ gfn_tree' = gfn_tree \/ \E g : gfn_tree' = [gfn_tree EXCEPT ![1 - active] = g]
  BY DEF kvm_set_memslot, kvm_create_memslot, BugCheck, setVars, poolVars, countVars,
     lockVars, changeVars, kvm_replace_memslot, kvm_get_inactive_memslots
<1>2. active \in {0, 1} /\ 1 - active # active
  BY DEF IndInv, TypeOK
<1>3. gfn_tree'[active'] = gfn_tree[active]
  BY <1>1, <1>2 DEF IndInv, TypeOK
<1>4. Frames' = Frames
  BY <1>1, <1>3, FramesKept
<1>5. \/ UNCHANGED pc
      \/ pc[t] = "arch" /\ \E p \in {"unlock", "install"} : pc' = [pc EXCEPT ![t] = p]
      \/ pc[t] = "install" /\ pc' = [pc EXCEPT ![t] = "swap"]
  BY DEF kvm_set_memslot, kvm_create_memslot, BugCheck, Goto
<1>6. CASE UNCHANGED pc
  <2>1. \A u \in Thread : PagesAt(u)'
    BY <1>1, <1>4, <1>6 DEF PagesInv, PagesAt, First, End
  <2> QED BY <1>1, <1>4, <2>1 DEF PagesInv, MmuPages
<1>7. CASE ~ UNCHANGED pc
  <2>1. PICK p \in {"unlock", "install", "swap"} :
          pc[t] \in {"arch", "install"} /\ pc' = [pc EXCEPT ![t] = p]
    BY <1>5, <1>7
  <2>2. pc'[t] = p /\ p \in Inside /\ pc[t] \in Inside
    BY <2>1 DEF IndInv, TypeOK, Inside
  <2>3. PagesAt(t)'
    BY <1>1, <1>4, <2>1, <2>2 DEF PagesInv, PagesAt, First, End
  <2> QED BY <1>1, <1>4, <2>1, <2>2, <2>3, PagesInside DEF PagesInv, MmuPages
<1> QED BY <1>6, <1>7

\* The frames of a slot are as many as its pages.
LEMMA SlotFrames ==
  ASSUME TypeOK, NEW s \in Slot
  PROVE  /\ IsFiniteSet(First(s) .. End(s) - 1)
         /\ Cardinality(First(s) .. End(s) - 1) = slot[s].npages
<1>1. First(s) \in Int /\ slot[s].npages \in Nat /\ End(s) = First(s) + slot[s].npages
  BY DEF TypeOK, First, End
<1>2. End(s) - 1 \in Int
  BY <1>1
<1>3. /\ IsFiniteSet(First(s) .. End(s) - 1)
      /\ Cardinality(First(s) .. End(s) - 1) =
           IF First(s) > End(s) - 1 THEN 0 ELSE (End(s) - 1) - First(s) + 1
  BY <1>1, <1>2, FS_Interval
<1> QED BY <1>1, <1>3

\* The swap adds the frames of a created slot, none of which was there before,
\* and none for a change of flags.
LEMMA PagesSwap ==
  ASSUME IndInv, PagesInv, NEW t \in Thread, kvm_swap_active_memslots(t),
         ~ BugCheck("invalid_slot")
  PROVE  PagesInv'
<1> DEFINE Added == First(new[t]) .. End(new[t]) - 1
           Taken == First(old[t]) .. End(old[t]) - 1
           Kept == UNION {First(s) .. End(s) - 1 : s \in gfn_tree[active] \ {old[t]}}
<1>1. /\ pc[t] = "swap" /\ pc' = [pc EXCEPT ![t] = "settle"]
      /\ active' = 1 - active
      /\ UNCHANGED <<slot, gfn_tree, nr_memslot_pages, n_max_mmu_pages, slots_loc,
                     old, new, change>>
  BY DEF kvm_swap_active_memslots, Goto, kvm_get_inactive_memslots, poolVars,
     countVars, changeVars
<1>2. /\ Fits(t)
      /\ gfn_tree[1 - active] = (gfn_tree[active] \ {old[t]}) \cup {new[t]}
  BY <1>1 DEF IndInv, ChangeAt
<1>3. /\ change[t] \in {"create", "move", "flags_only"}
      /\ change[t] = "create" <=> old[t] = Null
      /\ new[t] \in Slot
      /\ old[t] = Null \/ old[t] \in gfn_tree[active]
      /\ gfn_tree[active] \subseteq Slot
      /\ Null \notin Slot
  BY <1>2, NullSlotAssumption DEF Fits, IndInv, TypeOK
<1>4. IsFiniteSet(Added) /\ Cardinality(Added) = slot[new[t]].npages
  BY <1>3, SlotFrames DEF IndInv
<1>5. Frames' = Kept \cup Added
  <2>1. \A s : First(s)' = First(s) /\ End(s)' = End(s)
    BY <1>1 DEF First, End
  <2>2. gfn_tree'[active'] = (gfn_tree[active] \ {old[t]}) \cup {new[t]}
    BY <1>1, <1>2
  <2> QED BY <2>1, <2>2 DEF Frames
<1>6. Kept \in SUBSET Frames /\ IsFiniteSet(Frames)
  BY DEF Frames, PagesInv
<1>7. IsFiniteSet(Kept)
  BY <1>6, FS_Subset
<1>8. IsFiniteSet(Kept \cup Added) /\ Cardinality(Kept \cup Added) =
        Cardinality(Kept) + Cardinality(Added) - Cardinality(Kept \cap Added)
  BY <1>4, <1>7, FS_Union
<1>9. nr_memslot_pages = Cardinality(Frames)
  BY <1>1 DEF PagesInv, PagesAt
<1>10. ASSUME change[t] = "create"
       PROVE  nr_memslot_pages + slot[new[t]].npages = Cardinality(Frames')
  <2>1. gfn_tree[active] \ {old[t]} = gfn_tree[active]
    BY <1>3, <1>10
  <2>2. Kept = Frames
    BY <2>1 DEF Frames
  <2>3. Kept \cap Added = {}
    <3>1. SUFFICES ASSUME NEW f \in Kept, f \in Added PROVE FALSE
      OBVIOUS
    <3>2. PICK s \in gfn_tree[active] \ {old[t]} : f \in First(s) .. End(s) - 1
      BY <3>1
    <3>3. /\ First(s) \in Nat /\ End(s) \in Nat
          /\ First(new[t]) \in Nat /\ End(new[t]) \in Nat
      <4>1. \A x \in Slot : First(x) \in Nat /\ End(x) \in Nat
        <5>1. slot \in [Slot -> [id : Nat, base_gfn : Nat, npages : Nat,
                                flags : SUBSET Flags]]
          BY ONLY IndInv DEF IndInv, TypeOK
        <5>2. \A x \in Slot : slot[x].base_gfn \in Nat /\ slot[x].npages \in Nat
          BY ONLY <5>1
        <5> QED BY ONLY <5>2 DEF First, End
      <4>2. s \in Slot /\ new[t] \in Slot
        BY <1>3
      <4> QED BY <4>1, <4>2
    <3>4. End(s) <= First(new[t]) \/ End(new[t]) <= First(s)
      <4>1. s \in gfn_tree[active] \ {old[t]}
        BY <3>2
      <4> QED BY ONLY <1>2, <4>1 DEF Fits, Apart
    <3> QED BY <3>1, <3>2, <3>3, <3>4
  <2>4. Cardinality(Kept \cap Added) = 0
    BY <2>3, FS_EmptySet
  <2>5. Cardinality(Kept) \in Nat /\ slot[new[t]].npages \in Nat
    BY <1>3, <1>7, FS_CardinalityType DEF IndInv, TypeOK
  <2> HIDE DEF Kept, Added
  <2> QED BY <1>4, <1>5, <1>8, <1>9, <2>2, <2>4, <2>5
<1>11. ASSUME change[t] = "flags_only"
       PROVE  nr_memslot_pages = Cardinality(Frames')
  <2>1. old[t] \in gfn_tree[active]
    BY <1>3, <1>11
  <2>2. Taken = Added
    BY <1>1, <1>11 DEF PagesInv, PagesAt
  <2>3. Frames = Kept \cup Taken
    BY <2>1 DEF Frames
  <2> HIDE DEF Kept, Added, Taken
  <2> QED BY <1>5, <1>9, <2>2, <2>3
<1> HIDE DEF Kept, Added, Taken
<1>12. pc'[t] = "settle" /\ "settle" \in Inside /\ pc[t] \in Inside
  BY <1>1 DEF IndInv, TypeOK, Inside
<1>13. PagesAt(t)'
  BY <1>1, <1>10, <1>11, <1>12 DEF PagesAt
<1>14. IsFiniteSet(Frames')
  BY <1>5, <1>8
<1>15. (n_max_mmu_pages \in {0, MmuPages(nr_memslot_pages)})'
  BY <1>1 DEF PagesInv, MmuPages
<1> QED BY <1>1, <1>12, <1>13, <1>14, <1>15, PagesInside

\* The second replacement is in the inactive set.
LEMMA PagesSettle ==
  ASSUME IndInv, PagesInv, NEW t \in Thread,
         settle_generation(t) \/ kvm_activate_memslot(t), UNCHANGED bugcheck
  PROVE  PagesInv'
<1>1. /\ UNCHANGED <<slot, active, nr_memslot_pages, n_max_mmu_pages, slots_loc,
                     old, new, change>>
      /\ gfn_tree' = gfn_tree \/ \E g : gfn_tree' = [gfn_tree EXCEPT ![1 - active] = g]
  BY DEF settle_generation, kvm_activate_memslot, BugCheck, setVars, poolVars, countVars,
     lockVars, changeVars, kvm_replace_memslot, ReplaceZeroedSlot, kvm_get_inactive_memslots
<1>2. active \in {0, 1} /\ 1 - active # active
  BY DEF IndInv, TypeOK
<1>3. gfn_tree'[active'] = gfn_tree[active]
  BY <1>1, <1>2 DEF IndInv, TypeOK
<1>4. Frames' = Frames
  BY <1>1, <1>3, FramesKept
<1>5. \/ UNCHANGED pc
      \/ pc[t] = "settle" /\ pc' = [pc EXCEPT ![t] = "propagate"]
      \/ pc[t] = "propagate" /\ pc' = [pc EXCEPT ![t] = "commit"]
  BY DEF settle_generation, kvm_activate_memslot, BugCheck, Goto
<1>6. CASE UNCHANGED pc
  <2>1. \A u \in Thread : PagesAt(u)'
    BY <1>1, <1>4, <1>6 DEF PagesInv, PagesAt, First, End
  <2> QED BY <1>1, <1>4, <2>1 DEF PagesInv, MmuPages
<1>7. CASE ~ UNCHANGED pc
  <2>1. PICK p \in {"propagate", "commit"} :
          pc[t] \in {"settle", "propagate"} /\ pc' = [pc EXCEPT ![t] = p]
    BY <1>5, <1>7
  <2>2. pc'[t] = p /\ p \in Inside /\ pc[t] \in Inside
    BY <2>1 DEF IndInv, TypeOK, Inside
  <2>3. PagesAt(t)'
    BY <1>1, <1>4, <2>1, <2>2 DEF PagesInv, PagesAt
  <2> QED BY <1>1, <1>4, <2>1, <2>2, <2>3, PagesInside DEF PagesInv, MmuPages
<1> QED BY <1>6, <1>7

\* kvm_commit_memory_region counts the pages of a created slot and derives the
\* quota from the new total.
LEMMA PagesCommit ==
  ASSUME IndInv, PagesInv, NEW t \in Thread, kvm_commit_memory_region(t),
         ~ BugCheck("free_null")
  PROVE  PagesInv'
<1>1. /\ pc[t] = "commit" /\ change[t] # "move"
      /\ pc' = [pc EXCEPT ![t] = "unlock"]
      /\ nr_memslot_pages' = CommittedPages(t)
      /\ n_max_mmu_pages' = ArchCommittedPages(t)
      /\ UNCHANGED <<slot, gfn_tree, active, slots_loc, old, new, change>>
  BY DEF kvm_commit_memory_region, Goto, setVars, lockVars, changeVars
<1>2. change[t] \in {"create", "flags_only"}
  BY <1>1 DEF IndInv, ChangeAt
<1>3. Frames' = Frames
  BY <1>1, FramesKept
<1>4. nr_memslot_pages' = Cardinality(Frames)
  BY <1>1, <1>2 DEF CommittedPages, PagesInv, PagesAt
<1>5. (n_max_mmu_pages \in {0, MmuPages(nr_memslot_pages)})'
  <2>1. CASE change[t] = "create"
    BY <1>1, <2>1 DEF ArchCommittedPages, MmuPages
  <2>2. CASE change[t] = "flags_only"
    BY <1>1, <2>2 DEF ArchCommittedPages, CommittedPages, PagesInv, MmuPages
  <2> QED BY <1>2, <2>1, <2>2
<1>6. pc'[t] = "unlock" /\ "unlock" \in Inside /\ pc[t] \in Inside
  BY <1>1 DEF IndInv, TypeOK, Inside
<1>7. PagesAt(t)'
  BY <1>3, <1>4, <1>6 DEF PagesAt
<1> QED BY <1>1, <1>3, <1>5, <1>6, <1>7, PagesInside DEF PagesInv

\* slots_loc is taken and released with the total in order.
LEMMA PagesLock ==
  ASSUME IndInv, PagesInv, NEW t \in Thread,
         kvm_set_memory_region(t) \/ release_slots_loc(t)
  PROVE  PagesInv'
<1>1. UNCHANGED <<slot, gfn_tree, active, nr_memslot_pages, n_max_mmu_pages>>
  BY DEF kvm_set_memory_region, release_slots_loc, setVars, poolVars, countVars
<1>2. Frames' = Frames
  BY <1>1, FramesKept
<1>3. CASE kvm_set_memory_region(t)
  <2>1. /\ slots_loc = Null /\ slots_loc' = t
        /\ pc' = [pc EXCEPT ![t] = "check"]
    BY <1>3 DEF kvm_set_memory_region, Goto, SlotsLocFree
  <2>2. \A u \in Thread : pc[u] \notin Inside
    BY <2>1, NullSlotAssumption DEF IndInv, MutexInv
  <2>3. pc'[t] = "check" /\ \A u \in Thread \ {t} : pc'[u] \notin Inside
    BY <2>1, <2>2 DEF IndInv, TypeOK
  <2>4. PagesAt(t)'
    BY <1>1, <1>2, <2>1, <2>3 DEF PagesInv, PagesAt
  <2>5. \A u \in Thread \ {t} : PagesAt(u)'
    BY <2>3 DEF PagesAt, Inside
  <2> QED BY <1>1, <1>2, <2>1, <2>4, <2>5, NullSlotAssumption DEF PagesInv, MmuPages
<1>4. CASE release_slots_loc(t)
  <2>1. pc[t] = "unlock" /\ \E p \in {"return", "lock"} : pc' = [pc EXCEPT ![t] = p]
    BY <1>4 DEF release_slots_loc, Goto
  <2>2. \A u \in Thread \ {t} : pc[u] \notin Inside
    BY <2>1 DEF IndInv, MutexInv, Inside
  <2>3. \A u \in Thread : pc'[u] \notin Inside
    BY <2>1, <2>2 DEF IndInv, TypeOK, Inside
  <2>4. \A u \in Thread : PagesAt(u)'
    BY <2>3 DEF PagesAt, Inside
  <2>5. nr_memslot_pages = Cardinality(Frames)
    BY <2>1 DEF PagesInv, PagesAt
  <2> QED BY <1>1, <1>2, <2>4, <2>5 DEF PagesInv, MmuPages
<1> QED BY <1>3, <1>4

\* A step of the request loop, a look-up or a stop.
LEMMA PagesIdle ==
  ASSUME IndInv, PagesInv,
         \/ \E t \in Thread : KVM_SET_USER_MEMORY_REGION(t) \/ complete_request(t)
         \/ \E v \in Vcpu, gfn \in Gfn : kvm_vcpu_gfn_to_memslot(v, gfn)
         \/ \E why \in {"invalid_slot", "equal_gfn", "free_null"} : BugCheck(why)
         \/ UNCHANGED vars
  PROVE  PagesInv'
<1>1. UNCHANGED <<slot, gfn_tree, active, nr_memslot_pages, n_max_mmu_pages,
                  slots_loc, old, new, change>>
  BY DEF KVM_SET_USER_MEMORY_REGION, complete_request, kvm_vcpu_gfn_to_memslot,
     BugCheck, vars, setVars, poolVars, countVars, lockVars, changeVars
<1>2. pc' = pc \/ \E t \in Thread, p \in {"lock", "idle"} : pc' = [pc EXCEPT ![t] = p]
  BY DEF KVM_SET_USER_MEMORY_REGION, complete_request, kvm_vcpu_gfn_to_memslot,
     BugCheck, vars, Goto
<1>3. \A u \in Thread : pc'[u] = pc[u] \/ pc'[u] \notin Inside
  BY <1>2 DEF IndInv, TypeOK, Inside
<1> QED BY <1>1, <1>3, PagesUntouched

\* Every step keeps the account.
LEMMA PagesNext ==
  ASSUME NoDeletion, IndInv, PagesInv, [Next]_vars PROVE PagesInv'
<1>1. CASE \E t \in Thread : __kvm_set_memory_region(t)
  BY <1>1, PagesCheck
<1>2. CASE \E t \in Thread : kvm_set_memslot(t) \/ kvm_create_memslot(t)
  <2>1. \/ UNCHANGED bugcheck
        \/ \E why \in {"equal_gfn", "free_null"} : BugCheck(why)
    BY <1>2 DEF kvm_set_memslot, kvm_create_memslot
  <2> QED BY <1>2, <2>1, PagesIdle, PagesPrepare
<1>3. CASE \E t \in Thread : kvm_swap_active_memslots(t)
  BY <1>3, PagesIdle, PagesSwap
<1>4. CASE \E t \in Thread : settle_generation(t) \/ kvm_activate_memslot(t)
  <2>1. UNCHANGED bugcheck \/ BugCheck("equal_gfn")
    BY <1>4 DEF settle_generation, kvm_activate_memslot
  <2> QED BY <1>4, <2>1, PagesIdle, PagesSettle
<1>5. CASE \E t \in Thread : kvm_commit_memory_region(t)
  BY <1>5, PagesIdle, PagesCommit
<1>6. CASE \E t \in Thread : kvm_set_memory_region(t) \/ release_slots_loc(t)
  BY <1>6, PagesLock
<1>7. CASE \/ \E t \in Thread : KVM_SET_USER_MEMORY_REGION(t) \/ complete_request(t)
           \/ \E v \in Vcpu, gfn \in Gfn : kvm_vcpu_gfn_to_memslot(v, gfn)
           \/ UNCHANGED vars
  BY <1>7, PagesIdle
<1> QED BY <1>1, <1>2, <1>3, <1>4, <1>5, <1>6, <1>7 DEF Next, InsideStep, Halted

\* Between two changes the page total is the number of guest frames the slots
\* hold, and the MMU quota is the one computed from it.
THEOREM PagesCorrect ==
  ASSUME NoDeletion PROVE Spec => []PagesAccounted
<1>1. IndInv /\ PagesInv /\ [Next]_vars => PagesInv'
  BY PagesNext
<1>2. PagesInv => PagesAccounted
  BY DEF PagesInv, PagesAccounted
<1> QED BY <1>1, <1>2, PagesInit, Invariance, PTL DEF Spec

=============================================================================
