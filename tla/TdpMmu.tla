-------------------------------- MODULE TdpMmu --------------------------------
(***************************************************************************)
(* The TDP MMU of tdp_mmu.c, tdp_iter.c and mmu.c: kvm_mmu_load before     *)
(* every entry, the list of roots, the handling of an EPT violation up to  *)
(* the answer of kvm_tdp_mmu_map, and the memory caches both take pages    *)
(* from.  All processors do this at once and no lock is taken, so a step   *)
(* is what lies between two accesses to shared memory.                     *)
(*                                                                         *)
(* A page table and its struct kvm_mmu_page are one Page.  An SPTE is the  *)
(* page table it points to, or NONE when it is not present: the code       *)
(* installs no other entry.                                                *)
(*                                                                         *)
(* sptep_to_sp looks the address of an SPTE up in g_Table, into which no   *)
(* page of the TDP MMU is ever entered, and its callers use the answer at  *)
(* once.  Registered = FALSE is that code: the first violation of a mapped *)
(* frame stops the machine.  Registered = TRUE supposes that the look-up   *)
(* finds the page, which shows what the rest of the handler does.          *)
(***************************************************************************)
EXTENDS Integers, FiniteSets

CONSTANTS
  Cpu,               \* processors, each with its vCPU
  Gfn,               \* frames that fault
  RootLevel,         \* root_role.level, 4 or 5 in the code
  EntriesPerPage,    \* SPTE_ENT_PER_PAGE, 512 in the code
  CacheMin,          \* PT64_ROOT_MAX_LEVEL, the minimum of a page cache
  CacheCapacity,     \* KVM_ARCH_NR_OBJS_PER_MEMORY_CACHE
  Registered,        \* does sptep_to_sp find the page of an SPTE
  AdEnabled,         \* kvm_ad_enabled()
  MaxPages,          \* bound: page tables
  MaxEntries,        \* bound: calls of kvm_mmu_load, of all vCPUs
  HEAD,              \* &kvm->arch.tdp_mmu_roots
  NONE

ASSUME LevelAssumption ==
  /\ RootLevel \in Nat \ {0}
  /\ EntriesPerPage \in Nat \ {0, 1}
  /\ Gfn \subseteq 0 .. EntriesPerPage ^ RootLevel - 1
\* The laws of exponents for what a table of each level spans.
ASSUME ExponentAssumption ==
  /\ EntriesPerPage ^ 1 = EntriesPerPage
  /\ \A m \in 0 .. RootLevel, l \in 0 .. RootLevel :
       /\ EntriesPerPage ^ m \in Nat \ {0}
       /\ l <= m => EntriesPerPage ^ m = EntriesPerPage ^ (m - l) * EntriesPerPage ^ l
ASSUME ProcessorAssumption == IsFiniteSet(Cpu)
ASSUME CacheAssumption ==
  /\ CacheMin \in Nat /\ CacheMin >= RootLevel
  /\ CacheCapacity \in Nat /\ CacheCapacity >= CacheMin
ASSUME FlagAssumption == Registered \in BOOLEAN /\ AdEnabled \in BOOLEAN
ASSUME BoundAssumption == MaxPages \in Nat /\ MaxEntries \in Nat

Page == 1 .. MaxPages
Level == 1 .. RootLevel
Index == 0 .. EntriesPerPage - 1
Cache == {"mmu_shadow_page_cache", "mmu_page_header_cache"}

\* Neither the head of the list nor a null pointer is a page.
ASSUME PointerAssumption == HEAD \notin Page /\ NONE \notin Page

\* make_nonleaf_spte: an entry of the model is the table it points to.
Spte == Page \cup {NONE}

is_shadow_present_pte(spte) == spte # NONE

PG_LEVEL_4K == 1
KVM_MAX_HUGEPAGE_LEVEL == 3
KVM_MIN_ALLOC_MMU_PAGES == 64
KVM_MIN_FREE_MMU_PAGES == 5

VARIABLES
  spt,       \* the SPTEs of every page table
  sp,        \* its struct kvm_mmu_page
  flink,     \* the list of roots: forward and backward links
  blink,
  n_max_mmu_pages,
  tdp_mmu_pages,
  pc,        \* what a processor does next
  root,      \* mmu->root.hpa of its vCPU
  nobjs,     \* the fill of its memory caches
  iter,      \* its struct tdp_iter
  gfn,       \* fault->gfn
  new,       \* the page it has allocated and not yet linked
  next,      \* a local of InsertHeadList
  entries,   \* calls of kvm_mmu_load so far
  machine    \* "up", or what stopped it

memory == <<spt, sp, tdp_mmu_pages>>
list == <<flink, blink, next>>
walk == <<iter, gfn>>
vars == <<spt, sp, flink, blink, n_max_mmu_pages, tdp_mmu_pages, pc, root,
          nobjs, iter, gfn, new, next, entries, machine>>

\* struct kvm_mmu_page; level 0 is a page that is not allocated.
kvm_mmu_page ==
  [level : 0 .. RootLevel, gfn : Nat, ptep : (Page \X Index) \cup {NONE},
   tdp_mmu_root_count : Nat]

tdp_iter ==
  [next_last_level_gfn : Nat, gfn : Nat, level : Level,
   pt_path : [Level -> Spte], sptep : (Page \X Index) \cup {NONE},
   old_spte : Spte, valid : BOOLEAN]

TypeOK ==
  /\ spt \in [Page -> [Index -> Spte]]
  /\ sp \in [Page -> kvm_mmu_page]
  /\ flink \in [Page \cup {HEAD} -> Page \cup {HEAD}]
  /\ blink \in [Page \cup {HEAD} -> Page \cup {HEAD}]
  /\ n_max_mmu_pages \in {0, KVM_MIN_ALLOC_MMU_PAGES}
  /\ tdp_mmu_pages \in Nat
  /\ pc \in [Cpu -> {"user", "roots", "insert", "insert_blink",
                     "insert_flink", "guest", "fast", "topup", "map",
                     "link", "next"}]
  /\ root \in [Cpu -> Spte]
  /\ nobjs \in [Cpu -> [Cache -> 0 .. CacheCapacity]]
  /\ iter \in [Cpu -> tdp_iter]
  /\ gfn \in [Cpu -> Gfn \cup {NONE}]
  /\ new \in [Cpu -> Spte]
  /\ next \in [Cpu -> Page \cup {HEAD}]
  /\ entries \in 0 .. MaxEntries
  /\ machine \in {"up", "pages", "list", "slot", "lookup", "spte", "removed"}

NoIter ==
  [next_last_level_gfn |-> 0, gfn |-> 0, level |-> RootLevel,
   pt_path |-> [l \in Level |-> NONE], sptep |-> NONE, old_spte |-> NONE,
   valid |-> FALSE]

\* Before its first kvm_mmu_load a vCPU has no root; with EPT there is no PAE
\* root to allocate.
__kvm_mmu_create == NONE

\* kvm_mmu_init_tdp_mmu leaves an empty list of roots.
Init ==
  /\ spt = [p \in Page |-> [i \in Index |-> NONE]]
  /\ sp = [p \in Page |-> [level |-> 0, gfn |-> 0, ptep |-> NONE,
                           tdp_mmu_root_count |-> 0]]
  /\ flink = [p \in Page \cup {HEAD} |-> HEAD]
  /\ blink = [p \in Page \cup {HEAD} |-> HEAD]
  /\ n_max_mmu_pages = 0
  /\ tdp_mmu_pages = 0
  /\ pc = [c \in Cpu |-> "user"]
  /\ root = [c \in Cpu |-> __kvm_mmu_create]
  /\ nobjs = [c \in Cpu |-> [k \in Cache |-> 0]]
  /\ iter = [c \in Cpu |-> NoIter]
  /\ gfn = [c \in Cpu |-> NONE]
  /\ new = [c \in Cpu |-> NONE]
  /\ next = [c \in Cpu |-> HEAD]
  /\ entries = 0
  /\ machine = "up"

Goto(c, label) == pc' = [pc EXCEPT ![c] = label]

\* kvm_mmu_page_fault answers: back to vcpu_enter_guest, or to the caller of
\* KVM_RUN after an error; the locals of the handler are gone.
Answer(c) ==
  /\ Goto(c, "user")
  /\ iter' = [iter EXCEPT ![c] = NoIter]
  /\ gfn' = [gfn EXCEPT ![c] = NONE]

Stop(why) ==
  /\ machine' = why
  /\ UNCHANGED <<memory, list, walk, n_max_mmu_pages, pc, root, nobjs, new,
                 entries>>

-----------------------------------------------------------------------------
(***************************************************************************)
(* Memory caches.                                                          *)
(***************************************************************************)

\* The fill that __kvm_mmu_topup_memory_cache may leave: the loop stops at
\* the capacity or at the first allocation that fails.
__kvm_mmu_topup_memory_cache(n) ==
  IF n >= CacheMin THEN {n} ELSE n .. CacheCapacity

\* mmu_topup_memory_caches stops at the first cache left below its minimum.
mmu_topup_memory_caches(old) ==
  {filled \in [Cache -> 0 .. CacheCapacity] :
     /\ \A k \in Cache : filled[k] \in __kvm_mmu_topup_memory_cache(old[k])
     /\ filled["mmu_shadow_page_cache"] < CacheMin =>
          filled["mmu_page_header_cache"] = old["mmu_page_header_cache"]}

\* Mutant: content with a cache that is not empty.
NotEmpty(filled) == \A k \in Cache : filled[k] > 0

ToppedUp(filled) == \A k \in Cache : filled[k] >= CacheMin

\* An empty cache allocates directly, and its fill stays at 0.
kvm_mmu_memory_cache_alloc(n) == IF n = 0 THEN 0 ELSE n - 1

Free == {p \in Page : sp[p].level = 0}
Fresh == CHOOSE p \in Free : \A q \in Free : p <= q

\* tdp_mmu_alloc_sp takes the struct and the table from their caches.
tdp_mmu_alloc_sp(c) ==
  /\ Free # {}
  /\ nobjs' = [nobjs EXCEPT ![c] =
                 [k \in Cache |-> kvm_mmu_memory_cache_alloc(@[k])]]
  /\ new' = [new EXCEPT ![c] = Fresh]

tdp_mmu_init_sp(p, level, base, ptep, count) ==
  sp' = [sp EXCEPT ![p] = [level |-> level, gfn |-> base, ptep |-> ptep,
                           tdp_mmu_root_count |-> count]]

-----------------------------------------------------------------------------
(***************************************************************************)
(* kvm_mmu_load, which vcpu_enter_guest calls before every entry.          *)
(***************************************************************************)

\* The role of the roots of every vCPU: nothing in it depends on the vCPU.
kvm_calc_tdp_mmu_root_page_role ==
  [level |-> RootLevel, direct |-> TRUE, ad_disabled |-> ~AdEnabled]

\* init_kvm_tdp_mmu gives it to the vCPU's MMU.
root_role == kvm_calc_tdp_mmu_root_page_role

\* The special roots shadow 32-bit guests and are for other roles.
mmu_alloc_special_roots == IF root_role.direct THEN 0 ELSE -1

kvm_mmu_load(c) ==
  /\ pc[c] = "user"
  /\ entries < MaxEntries
  /\ entries' = entries + 1
  /\ \E filled \in mmu_topup_memory_caches(nobjs[c]) :
       /\ nobjs' = [nobjs EXCEPT ![c] = filled]
       /\ Goto(c, IF ToppedUp(filled) /\ mmu_alloc_special_roots = 0
                     THEN "roots" ELSE "user")
  /\ UNCHANGED <<memory, list, walk, n_max_mmu_pages, root, new, machine>>

\* make_mmu_pages_available: with no page to spare it walks the list
\* active_mmu_pages, which nothing has initialised.
make_mmu_pages_available == n_max_mmu_pages >= KVM_MIN_FREE_MMU_PAGES

\* mmu_alloc_direct_roots, which root_role.direct chooses.
mmu_alloc_direct_roots(c) ==
  /\ pc[c] = "roots"
  /\ root_role.direct
  /\ make_mmu_pages_available

NoPagesAvailable(c) ==
  /\ pc[c] = "roots"
  /\ ~make_mmu_pages_available
  /\ Stop("pages")

\* Mutant: the root is used without a reference of its own.
TakeWithoutReference(p) ==
  /\ sp[p].tdp_mmu_root_count # 0
  /\ sp' = sp

\* A root is taken with one more reference while it has any.
kvm_tdp_mmu_get_root(p) ==
  /\ sp[p].tdp_mmu_root_count # 0
  /\ sp' = [sp EXCEPT ![p].tdp_mmu_root_count = @ + 1]

\* The first root on the list has the role of every vCPU.
ReuseRoot(c) ==
  /\ mmu_alloc_direct_roots(c)
  /\ flink[HEAD] # HEAD
  /\ sp[flink[HEAD]].level = root_role.level
  /\ kvm_tdp_mmu_get_root(flink[HEAD])
  /\ root' = [root EXCEPT ![c] = flink[HEAD]]
  /\ Goto(c, "guest")
  /\ UNCHANGED <<spt, tdp_mmu_pages, list, walk, n_max_mmu_pages, nobjs, new,
                 entries, machine>>

\* One reference for the vCPU and one for the TDP MMU.
AllocRoot(c) ==
  /\ mmu_alloc_direct_roots(c)
  /\ flink[HEAD] = HEAD
  /\ tdp_mmu_alloc_sp(c)
  /\ tdp_mmu_init_sp(Fresh, root_role.level, 0, NONE, 2)
  /\ Goto(c, "insert")
  /\ UNCHANGED <<spt, tdp_mmu_pages, list, walk, n_max_mmu_pages, root,
                 entries, machine>>

\* InsertHeadList(&kvm->arch.tdp_mmu_roots, &root->link), without a lock. It
\* reads the old first entry and checks its backward link,
InsertHeadList(c) ==
  /\ pc[c] = "insert"
  /\ IF blink[flink[HEAD]] # HEAD
       THEN Stop("list")
       ELSE /\ next' = [next EXCEPT ![c] = flink[HEAD]]
            /\ flink' = [flink EXCEPT ![new[c]] = flink[HEAD]]
            /\ blink' = [blink EXCEPT ![new[c]] = HEAD]
            /\ Goto(c, "insert_blink")
            /\ UNCHANGED <<memory, walk, n_max_mmu_pages, root, nobjs, new,
                           entries, machine>>

\* then writes that backward link,
InsertBlink(c) ==
  /\ pc[c] = "insert_blink"
  /\ blink' = [blink EXCEPT ![next[c]] = new[c]]
  /\ Goto(c, "insert_flink")
  /\ UNCHANGED <<memory, flink, next, walk, n_max_mmu_pages, root, nobjs, new,
                 entries, machine>>

\* and last the forward link of the head; mmu->root.hpa follows.
InsertFlink(c) ==
  /\ pc[c] = "insert_flink"
  /\ flink' = [flink EXCEPT ![HEAD] = new[c]]
  /\ root' = [root EXCEPT ![c] = new[c]]
  /\ new' = [new EXCEPT ![c] = NONE]
  /\ next' = [next EXCEPT ![c] = HEAD]
  /\ Goto(c, "guest")
  /\ UNCHANGED <<memory, blink, walk, n_max_mmu_pages, nobjs, entries,
                 machine>>

\* The first slot that is committed sizes the pool of MMU pages.
kvm_mmu_change_mmu_pages ==
  /\ n_max_mmu_pages' = KVM_MIN_ALLOC_MMU_PAGES
  /\ n_max_mmu_pages # n_max_mmu_pages'
  /\ UNCHANGED <<memory, list, walk, pc, root, nobjs, new, entries, machine>>

-----------------------------------------------------------------------------
(***************************************************************************)
(* The iterator: a pre-order walk that reads shared memory as it goes.     *)
(***************************************************************************)
KVM_PAGES_PER_HPAGE(level) == EntriesPerPage ^ (level - 1)

gfn_round_for_level(g, level) == g - (g % KVM_PAGES_PER_HPAGE(level))

SPTE_INDEX(g, level) == (g \div KVM_PAGES_PER_HPAGE(level)) % EntriesPerPage

kvm_tdp_mmu_read_spte(ptep) == spt[ptep[1]][ptep[2]]

tdp_iter_refresh_sptep(it) ==
  LET ptep == <<it.pt_path[it.level], SPTE_INDEX(it.gfn, it.level)>>
  IN  [it EXCEPT !.sptep = ptep, !.old_spte = kvm_tdp_mmu_read_spte(ptep)]

tdp_iter_start(p, g) ==
  tdp_iter_refresh_sptep(
    [NoIter EXCEPT !.next_last_level_gfn = g,
                   !.gfn = gfn_round_for_level(g, RootLevel),
                   !.pt_path[RootLevel] = p,
                   !.valid = TRUE])

\* An entry of the lowest level has no child.
spte_to_child_pt(spte, level) == IF level = 1 THEN NONE ELSE spte

\* The entry is read again before the walk goes below it.
StepDownTo(it) == spte_to_child_pt(kvm_tdp_mmu_read_spte(it.sptep), it.level)

\* Mutant: the level is not lowered.
StepDownSameLevel(it) == tdp_iter_refresh_sptep(it)

try_step_down(it) ==
  tdp_iter_refresh_sptep(
    [it EXCEPT
       !.level = it.level - 1,
       !.pt_path[it.level - 1] = StepDownTo(it),
       !.gfn = gfn_round_for_level(it.next_last_level_gfn, it.level - 1)])

\* try_step_up, while the entry is the last of its table.
StepUpTo(it) ==
  {l \in it.level .. RootLevel :
     /\ SPTE_INDEX(it.gfn, l) # EntriesPerPage - 1
     /\ \A m \in it.level .. l - 1 :
          SPTE_INDEX(it.gfn, m) = EntriesPerPage - 1}

try_step_side(it, level) ==
  LET g == gfn_round_for_level(it.gfn, level) + KVM_PAGES_PER_HPAGE(level)
  IN  tdp_iter_refresh_sptep(
        [it EXCEPT !.level = level, !.gfn = g, !.next_last_level_gfn = g])

tdp_iter_next(it) ==
  IF it.level > 1 /\ StepDownTo(it) # NONE
    THEN try_step_down(it)
    ELSE IF StepUpTo(it) # {}
      THEN try_step_side(it, CHOOSE l \in StepUpTo(it) : TRUE)
      ELSE [it EXCEPT !.valid = FALSE]

\* for_each_tdp_pte over the one frame of a fault.
InRange(it, g) == it.valid /\ it.gfn < g + 1

-----------------------------------------------------------------------------
(***************************************************************************)
(* Faults.                                                                 *)
(***************************************************************************)

\* The page that holds an SPTE, as g_Table knows it.
sptep_to_sp(ptep) == IF Registered THEN ptep[1] ELSE NONE

\* skip_emulated_instruction answers 1 and skips nothing: the guest faults
\* again.  The MMIO faults of kvm_mmu_page_fault are for nested guests.
handle_ept_misconfig(c) ==
  /\ pc[c] = "guest"
  /\ Goto(c, "user")
  /\ UNCHANGED <<memory, list, walk, n_max_mmu_pages, root, nobjs, new,
                 entries, machine>>

\* The error code says whether an entry was present and a write was tried.
page_fault_can_be_fast(present, write) ==
  IF present THEN write ELSE ~AdEnabled

\* A violation, as kvm_mmu_page_fault hands it to kvm_tdp_page_fault.
kvm_mmu_do_page_fault(c, g, present, write) ==
  /\ pc[c] = "guest"
  /\ gfn' = [gfn EXCEPT ![c] = g]
  /\ IF page_fault_can_be_fast(present, write)
       THEN /\ iter' = [iter EXCEPT ![c] = tdp_iter_start(root[c], g)]
            /\ Goto(c, "fast")
       ELSE /\ iter' = iter
            /\ Goto(c, "topup")
  /\ UNCHANGED <<memory, list, n_max_mmu_pages, root, nobjs, new, entries,
                 machine>>

\* The walk to the last entry, which is read again on the way.
kvm_tdp_mmu_fast_pf_get_last_sptep(c) ==
  LET it == tdp_iter_next(iter[c]) IN
  /\ pc[c] = "fast"
  /\ InRange(it, gfn[c])
  /\ iter' = [iter EXCEPT ![c] = it]
  /\ UNCHANGED <<memory, list, gfn, pc, n_max_mmu_pages, root, nobjs, new,
                 entries, machine>>

\* fast_page_fault then uses the page of that entry if it is present; its
\* answer is RET_PF_INVALID whatever it finds.
fast_page_fault(c) ==
  /\ pc[c] = "fast"
  /\ ~InRange(tdp_iter_next(iter[c]), gfn[c])
  /\ iter' = [iter EXCEPT ![c] = NoIter]
  /\ Goto(c, "topup")
  /\ machine' = IF /\ is_shadow_present_pte(iter[c].old_spte)
                   /\ sptep_to_sp(iter[c].sptep) = NONE
                THEN "lookup" ELSE machine
  /\ UNCHANGED <<memory, list, gfn, n_max_mmu_pages, root, nobjs, new,
                 entries>>

\* A slot that is being removed lets the guest fault again.  A frame of a
\* slot maps to itself, so no pfn is an error.
kvm_faultin_pfn(slot) ==
  IF slot = "invalid" THEN "RET_PF_RETRY" ELSE "RET_PF_CONTINUE"

\* kvm_tdp_mmu_page_fault: top up, then kvm_faultin_pfn.  No fault is tracked
\* or stale: the code never marks a page or a root so.
kvm_tdp_mmu_page_fault(c) ==
  /\ pc[c] = "topup"
  /\ \E filled \in mmu_topup_memory_caches(nobjs[c]),
        slot \in {"valid", "invalid"} :
       /\ nobjs' = [nobjs EXCEPT ![c] = filled]
       /\ IF ToppedUp(filled) /\ kvm_faultin_pfn(slot) = "RET_PF_CONTINUE"
            THEN /\ iter' = [iter EXCEPT ![c] =
                                tdp_iter_start(root[c], gfn[c])]
                 /\ gfn' = gfn
                 /\ Goto(c, "map")
            ELSE Answer(c)
  /\ UNCHANGED <<memory, list, n_max_mmu_pages, root, new, entries,
                 machine>>

\* __gfn_to_pfn_memslot reads the flags of a slot that is not there.
FaultWithoutSlot(c) ==
  /\ pc[c] = "topup"
  /\ Stop("slot")

\* host_pfn_mapping_level knows 4K pages only.
kvm_mmu_max_mapping_level(max_level) ==
  IF max_level < PG_LEVEL_4K THEN max_level ELSE PG_LEVEL_4K

\* The goal_level of a fault, for any size that lpage_info allows;
\* disallowed_hugepage_adjust finds nothing to lower.
kvm_mmu_hugepage_adjust == kvm_mmu_max_mapping_level(KVM_MAX_HUGEPAGE_LEVEL)

\* Target level: RET_PF_FIXED, and no entry is written.
tdp_mmu_map_handle_target_level(c) ==
  /\ pc[c] = "map"
  /\ iter[c].level = kvm_mmu_hugepage_adjust
  /\ IF sptep_to_sp(iter[c].sptep) # NONE
       THEN /\ Answer(c)
            /\ UNCHANGED <<memory, list, n_max_mmu_pages, root, nobjs, new,
                           entries, machine>>
       ELSE Stop("lookup")

\* Mutant: role.level-- is missing.
ChildKeepsLevel(c) ==
  LET it == iter[c] IN
  /\ pc[c] = "map"
  /\ it.level > kvm_mmu_hugepage_adjust
  /\ ~is_shadow_present_pte(it.old_spte)
  /\ tdp_mmu_alloc_sp(c)
  /\ tdp_mmu_init_sp(Fresh, sp[it.sptep[1]].level, it.gfn, it.sptep, 0)
  /\ Goto(c, "link")
  /\ UNCHANGED <<spt, tdp_mmu_pages, list, walk, n_max_mmu_pages, root,
                 entries, machine>>

\* Above it, where no table hangs below the entry that was read.
tdp_mmu_init_child_sp(c) ==
  LET it == iter[c]
      parent_sp == sptep_to_sp(it.sptep)
  IN
  /\ pc[c] = "map"
  /\ it.level > kvm_mmu_hugepage_adjust
  /\ ~is_shadow_present_pte(it.old_spte)
  /\ IF parent_sp # NONE
       THEN /\ tdp_mmu_alloc_sp(c)
            /\ tdp_mmu_init_sp(Fresh, sp[parent_sp].level - 1, it.gfn, it.sptep, 0)
            /\ Goto(c, "link")
            /\ UNCHANGED <<spt, tdp_mmu_pages, list, walk, n_max_mmu_pages,
                           root, entries, machine>>
       ELSE Stop("lookup")

\* Mutant: the entry is written whatever it holds by now.
WriteSpte(ptep, spte, comparand) == [spt EXCEPT ![ptep[1]][ptep[2]] = spte]

\* The entry changes only if it still is what the walk read.
InterlockedCompareExchange64(ptep, spte, comparand) ==
  IF kvm_tdp_mmu_read_spte(ptep) = comparand
    THEN [spt EXCEPT ![ptep[1]][ptep[2]] = spte]
    ELSE spt

\* Mutant: the walk goes on in its own table, linked or not.
LinkAndDescend(c) ==
  /\ pc[c] = "link"
  /\ spt' = InterlockedCompareExchange64(iter[c].sptep, new[c],
                                         iter[c].old_spte)
  /\ iter' = [iter EXCEPT
       ![c].level = @ - 1,
       ![c].pt_path[iter[c].level - 1] = new[c],
       ![c].gfn = gfn_round_for_level(gfn[c], iter[c].level - 1),
       ![c].sptep = <<new[c], SPTE_INDEX(gfn[c], iter[c].level - 1)>>,
       ![c].old_spte = NONE]
  /\ tdp_mmu_pages' = tdp_mmu_pages + 1
  /\ new' = [new EXCEPT ![c] = NONE]
  /\ Goto(c, "map")
  /\ UNCHANGED <<sp, list, gfn, n_max_mmu_pages, root, nobjs, entries,
                 machine>>

\* What handle_changed_spte makes of an entry that went from old to spte: a
\* bug check, a table to tear down, or neither.
handle_changed_spte(old, spte, level) ==
  LET leaf(e) == is_shadow_present_pte(e) /\ level = PG_LEVEL_4K
  IN  IF leaf(old) /\ leaf(spte) /\ old # spte THEN "spte"
      ELSE IF is_shadow_present_pte(old) /\ ~leaf(old) /\ old # spte THEN "removed"
      ELSE "none"

\* tdp_mmu_link_sp ignores whether the exchange took place.
tdp_mmu_link_sp(c) ==
  /\ pc[c] = "link"
  /\ spt' = InterlockedCompareExchange64(iter[c].sptep, new[c],
                                         iter[c].old_spte)
  /\ tdp_mmu_pages' = tdp_mmu_pages + 1
  /\ new' = [new EXCEPT ![c] = NONE]
  /\ Goto(c, "next")
  /\ LET changed == handle_changed_spte(iter[c].old_spte, new[c], iter[c].level)
     IN  machine' = IF changed = "none" THEN machine ELSE changed
  /\ UNCHANGED <<sp, list, walk, n_max_mmu_pages, root, nobjs, entries>>

\* The next iteration, after a link or below an entry that was present when
\* read.  A walk that leaves the range of the fault answers RET_PF_RETRY.
kvm_tdp_mmu_map(c) ==
  /\ \/ pc[c] = "next"
     \/ /\ pc[c] = "map"
        /\ iter[c].level > kvm_mmu_hugepage_adjust
        /\ is_shadow_present_pte(iter[c].old_spte)
  /\ LET it == tdp_iter_next(iter[c]) IN
       IF InRange(it, gfn[c])
         THEN /\ iter' = [iter EXCEPT ![c] = it]
              /\ gfn' = gfn
              /\ Goto(c, "map")
         ELSE Answer(c)
  /\ UNCHANGED <<memory, list, n_max_mmu_pages, root, nobjs, new,
                 entries, machine>>

-----------------------------------------------------------------------------
\* What a processor does once it is in the handler or in kvm_mmu_load.
Step(c) ==
  \/ NoPagesAvailable(c) \/ ReuseRoot(c) \/ AllocRoot(c)
  \/ InsertHeadList(c) \/ InsertBlink(c) \/ InsertFlink(c)
  \/ kvm_tdp_mmu_fast_pf_get_last_sptep(c) \/ fast_page_fault(c)
  \/ kvm_tdp_mmu_page_fault(c) \/ FaultWithoutSlot(c)
  \/ tdp_mmu_map_handle_target_level(c) \/ tdp_mmu_init_child_sp(c)
  \/ tdp_mmu_link_sp(c) \/ kvm_tdp_mmu_map(c)

Next ==
  /\ machine = "up"
  /\ \/ kvm_mmu_change_mmu_pages
     \/ \E c \in Cpu :
          \/ kvm_mmu_load(c)
          \/ Step(c)
          \/ handle_ept_misconfig(c)
          \/ \E g \in Gfn, present, write \in BOOLEAN :
               kvm_mmu_do_page_fault(c, g, present, write)

Spec == Init /\ [][Next]_vars

\* No step waits for another processor: each goes on with its own.
FairSpec == Spec /\ \A c \in Cpu : WF_vars(machine = "up" /\ Step(c))

-----------------------------------------------------------------------------
(***************************************************************************)
(* Properties.                                                             *)
(***************************************************************************)

\* A walk only ever stands in tables that hang below its vCPU's root: each
\* table on its path is what the SPTE above it points to, also when another
\* processor won the compare-exchange.  try_step_down reads the SPTE again
\* for this (tdp_iter.c:77-93).
WalkOnPath ==
  \A c \in Cpu : iter[c].valid =>
    /\ iter[c].pt_path[RootLevel] = root[c]
    /\ \A l \in iter[c].level .. RootLevel - 1 :
         iter[c].pt_path[l] =
           spt[iter[c].pt_path[l + 1]]
              [SPTE_INDEX(iter[c].next_last_level_gfn, l + 1)]
    /\ iter[c].sptep = <<iter[c].pt_path[iter[c].level],
                         SPTE_INDEX(iter[c].gfn, iter[c].level)>>

\* The tables form trees: a table hangs below one SPTE, the one its struct
\* names, is one level below the table of that SPTE and starts at the frame
\* the SPTE starts at (tdp_mmu_init_child_sp, tdp_mmu_link_sp).
TablesFormTrees ==
  \A p \in Page, i \in Index : spt[p][i] # NONE =>
    LET child == sp[spt[p][i]] IN
    /\ child.ptep = <<p, i>>
    /\ child.level = sp[p].level - 1
    /\ child.level > 0
    /\ child.gfn = sp[p].gfn + i * KVM_PAGES_PER_HPAGE(sp[p].level)

\* No processor takes a page from an empty cache: what kvm_mmu_load and the
\* fault handler top up covers all they allocate, even when the pool gave
\* less than the capacity (mmu_topup_memory_caches, tdp_mmu_alloc_sp).
CacheSuffices ==
  \A c \in Cpu :
    LET needed == IF pc[c] = "roots" THEN 1
                  ELSE IF pc[c] \in {"map", "next"} /\ iter[c].valid
                    THEN iter[c].level - 1
                  ELSE IF pc[c] = "link" THEN iter[c].level - 2
                  ELSE 0
    IN  \A k \in Cache : nobjs[c][k] >= needed

\* A root has a reference for the TDP MMU and one for each vCPU that uses it,
\* so that no vCPU runs on a root that another may put to zero
\* (kvm_tdp_mmu_get_root, the comment at tdp_mmu.c:69-75).
RootsReferenced ==
  \A c \in Cpu : root[c] # NONE =>
    sp[root[c]].tdp_mmu_root_count >=
      1 + Cardinality({d \in Cpu : root[d] = root[c]})

\* A present SPTE stays: processors that fault on the same frame never
\* replace each other's tables, which the guest may be using
\* (tdp_mmu_set_spte_atomic).
PresentStays ==
  [][\A p \in Page, i \in Index :
       spt[p][i] # NONE => spt'[p][i] = spt[p][i]]_vars

\* A page fault is answered, or the machine has stopped: the walk of
\* kvm_tdp_mmu_map and of fast_page_fault comes to an end however other
\* processors change the tables meanwhile.
FaultsAnswered ==
  \A c \in Cpu :
    pc[c] \in {"fast", "topup", "map"} ~> (pc[c] = "user" \/ machine # "up")

\* kvm_tdp_mmu_map, tdp_mmu.c:332-335: "Handle a TDP page fault (NPT/EPT
\* violation/misconfiguration) by installing page tables and SPTEs to
\* translate the faulting guest physical address".
FaultsHandled == machine # "lookup"

=============================================================================
