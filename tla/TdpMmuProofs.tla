----------------------------- MODULE TdpMmuProofs -----------------------------
(***************************************************************************)
(* Proofs about TdpMmu, for any processors, any number of levels and of    *)
(* entries per table, any frames and any bounds.                           *)
(***************************************************************************)
EXTENDS TdpMmu, FiniteSetTheorems, WellFoundedInduction, TLAPS

\* Where a processor walks, and where it holds a root it has allocated.
Walking == {"fast", "map", "link", "next"}
Inserting == {"insert", "insert_blink", "insert_flink"}

\* The first frame of the table of some level that maps g.
TableBase(g, level) == g - (g % (EntriesPerPage ^ level))

\* What the position of a processor says about its locals.
ControlAt(c) ==
  /\ pc[c] \in Walking \cup {"guest", "topup"} => root[c] \in Page
  /\ pc[c] \in Walking \cup {"topup"} => gfn[c] \in Gfn
  /\ pc[c] \in Inserting \cup {"link"} => new[c] \in Page
  /\ pc[c] \notin Walking => iter[c] = NoIter

\* Its root, also one it is about to use, is a table of the root level.
RootAt(c) ==
  /\ root[c] \in Page => sp[root[c]].level = RootLevel
  /\ pc[c] \in Inserting => sp[new[c]].level = RootLevel

\* Its walk has not left the frame of the fault; it stands in allocated tables,
\* each of its level and of the frames that hold the fault's.
OnPath(c) ==
  LET it == iter[c] IN
  /\ it.valid
  /\ it.next_last_level_gfn = gfn[c]
  /\ it.gfn = gfn_round_for_level(gfn[c], it.level)
  /\ it.pt_path[RootLevel] = root[c]
  /\ it.sptep = <<it.pt_path[it.level], SPTE_INDEX(it.gfn, it.level)>>
  /\ \A l \in it.level .. RootLevel :
       /\ it.pt_path[l] \in Page
       /\ sp[it.pt_path[l]].level = l
       /\ sp[it.pt_path[l]].gfn = TableBase(gfn[c], l)
  /\ \A l \in it.level .. RootLevel - 1 :
       it.pt_path[l] = spt[it.pt_path[l + 1]][SPTE_INDEX(gfn[c], l + 1)]

WalkAt(c) == pc[c] \in Walking => OnPath(c)

\* A table it is about to link is made for an entry that was not present.
LinkAt(c) ==
  pc[c] = "link" =>
    /\ iter[c].level > 1
    /\ iter[c].old_spte = NONE
    /\ sp[new[c]].level = iter[c].level - 1
    /\ sp[new[c]].gfn = iter[c].gfn
    /\ sp[new[c]].ptep = iter[c].sptep

\* Its caches hold one page more than the walk still needs.
CacheAt(c) ==
  \A k \in Cache :
    /\ pc[c] = "roots" => nobjs[c][k] >= RootLevel
    /\ pc[c] = "map" => nobjs[c][k] >= iter[c].level
    /\ pc[c] \in {"link", "next"} => nobjs[c][k] >= iter[c].level - 1

At(c) == ControlAt(c) /\ RootAt(c) /\ WalkAt(c) /\ LinkAt(c) /\ CacheAt(c)

\* A root maps all frames.
RootsAtZero == \A p \in Page : sp[p].level = RootLevel => sp[p].gfn = 0

\* The processors that use a root or are about to.
Holders(p) ==
  {c \in Cpu : root[c] = p \/ (pc[c] \in Inserting /\ new[c] = p)}

ReferenceInv ==
  \A p \in Page : Holders(p) # {} =>
    sp[p].tdp_mmu_root_count >= 1 + Cardinality(Holders(p))

\* The inductive invariant.
IndInv ==
  /\ TypeOK /\ TablesFormTrees /\ RootsAtZero /\ ReferenceInv
  /\ \A c \in Cpu : At(c)

\* What no step undoes: an allocated table keeps its place, and a present
\* entry stays.
TablesKept ==
  \A p \in Page : sp[p].level > 0 =>
    /\ sp'[p].level = sp[p].level
    /\ sp'[p].gfn = sp[p].gfn
    /\ sp'[p].ptep = sp[p].ptep

EntriesKept ==
  \A p \in Page, i \in Index : spt[p][i] # NONE => spt'[p][i] = spt[p][i]

-----------------------------------------------------------------------------
(***************************************************************************)
(* Arithmetic of frames and levels.                                        *)
(***************************************************************************)

\* Quotient and remainder of a division by a positive number.
LEMMA DivMod ==
  ASSUME NEW g \in Nat, NEW h \in Nat \ {0}
  PROVE  /\ g \div h \in Nat
         /\ g % h \in 0 .. h - 1
         /\ g = (g \div h) * h + (g % h)
OBVIOUS

\* They are the only ones.
LEMMA DivModUnique ==
  ASSUME NEW q \in Nat, NEW h \in Nat \ {0}, NEW r \in 0 .. h - 1
  PROVE  /\ (q * h + r) \div h = q
         /\ (q * h + r) % h = r
OBVIOUS

\* The remainder of a division by e * h, from those by h and then by e.
LEMMA ModProduct ==
  ASSUME NEW g \in Nat, NEW h \in Nat \ {0}, NEW e \in Nat \ {0}
  PROVE  g % (e * h) = ((g \div h) % e) * h + (g % h)
<1> DEFINE q == g \div h
           r == g % h
           a == q \div e
           b == q % e
           m == e * h
           s == b * h + r
<1>1. q \in Nat /\ r \in 0 .. h - 1 /\ g = q * h + r
  BY DivMod
<1>2. a \in Nat /\ b \in 0 .. e - 1 /\ q = a * e + b
  BY <1>1, DivMod
<1> HIDE DEF q, r, a, b
<1>3. g = a * m + s
  BY <1>1, <1>2
<1>4. m \in Nat \ {0} /\ s \in 0 .. m - 1
  <2>1. b + 1 <= e
    BY <1>2
  <2>2. (b + 1) * h <= e * h
    BY <2>1, <1>2
  <2>3. QED BY <2>2, <1>1, <1>2
<1> HIDE DEF m, s
<1>5. g % m = s
  BY <1>2, <1>3, <1>4, DivModUnique
<1>6. QED BY <1>5 DEF m, s, q, r, b

\* What an entry of a level spans, and a table of that level.
LEMMA Span ==
  ASSUME NEW l \in Level
  PROVE  /\ KVM_PAGES_PER_HPAGE(l) \in Nat \ {0}
         /\ EntriesPerPage ^ l \in Nat \ {0}
         /\ EntriesPerPage ^ l = EntriesPerPage * KVM_PAGES_PER_HPAGE(l)
<1>1. l \in 0 .. RootLevel /\ l - 1 \in 0 .. RootLevel /\ l - 1 <= l /\ l - (l - 1) = 1
  BY LevelAssumption DEF Level
<1>2. /\ EntriesPerPage ^ l \in Nat \ {0}
      /\ EntriesPerPage ^ (l - 1) \in Nat \ {0}
      /\ EntriesPerPage ^ l = EntriesPerPage ^ (l - (l - 1)) * EntriesPerPage ^ (l - 1)
  BY <1>1, ExponentAssumption
<1>3. QED BY <1>1, <1>2, ExponentAssumption DEF KVM_PAGES_PER_HPAGE

\* Rounding down to an entry keeps the index of the entry.
LEMMA Rounding ==
  ASSUME NEW g \in Nat, NEW l \in Level
  PROVE  /\ gfn_round_for_level(g, l) \in Nat
         /\ SPTE_INDEX(g, l) \in Index
         /\ SPTE_INDEX(gfn_round_for_level(g, l), l) = SPTE_INDEX(g, l)
<1> DEFINE h == KVM_PAGES_PER_HPAGE(l)
           q == g \div h
           r == g % h
<1>1. h \in Nat \ {0}
  BY Span
<1> HIDE DEF h
<1>2. q \in Nat /\ r \in 0 .. h - 1 /\ g = q * h + r
  BY <1>1, DivMod
<1>3. q % EntriesPerPage \in Index
  BY <1>2, DivMod, LevelAssumption DEF Index
<1> HIDE DEF q, r
<1>4. g - r = q * h + 0 /\ g - r \in Nat
  BY <1>1, <1>2
<1>5. (g - r) \div h = q
  BY <1>1, <1>2, <1>4, DivModUnique
<1>6. QED
  BY <1>3, <1>4, <1>5 DEF q, r, h, gfn_round_for_level, SPTE_INDEX

\* The frame an entry starts at, from the frame its table starts at.
LEMMA EntryBase ==
  ASSUME NEW g \in Nat, NEW l \in Level
  PROVE  /\ TableBase(g, l) \in Nat
         /\ gfn_round_for_level(g, l)
              = TableBase(g, l) + SPTE_INDEX(g, l) * KVM_PAGES_PER_HPAGE(l)
<1> DEFINE h == KVM_PAGES_PER_HPAGE(l)
           e == EntriesPerPage ^ l
<1>1. h \in Nat \ {0} /\ e \in Nat \ {0} /\ e = EntriesPerPage * h
  BY Span
<1> HIDE DEF h, e
<1>2. EntriesPerPage \in Nat \ {0}
  BY LevelAssumption
<1>3. g % e = ((g \div h) % EntriesPerPage) * h + (g % h)
  BY <1>1, <1>2, ModProduct
<1>4. g % e \in 0 .. e - 1 /\ g = (g \div e) * e + (g % e) /\ g \div e \in Nat
  BY <1>1, DivMod
<1>5. g % h \in Nat /\ (g \div h) % EntriesPerPage \in Nat
  BY <1>1, <1>2, DivMod
<1>6. g - (g % e) \in Nat
  <2> DEFINE a == g \div e
             s == g % e
  <2>1. a \in Nat /\ s \in Nat /\ g = a * e + s
    BY <1>1, <1>4
  <2> HIDE DEF a, s
  <2>2. a * e \in Nat /\ g - s = a * e
    BY <1>1, <2>1
  <2>3. QED BY <2>2 DEF s
<1>7. g - (g % h) = (g - (g % e)) + ((g \div h) % EntriesPerPage) * h
  <2> DEFINE r == g % h
             b == (g \div h) % EntriesPerPage
             s == g % e
  <2>1. r \in Nat /\ b \in Nat /\ s = b * h + r
    BY <1>3, <1>5
  <2> HIDE DEF r, b, s
  <2>2. g - r = (g - s) + b * h
    BY <1>1, <2>1
  <2>3. QED BY <2>2 DEF r, b, s
<1>8. QED
  BY <1>6, <1>7 DEF h, e, TableBase, gfn_round_for_level, SPTE_INDEX

\* A table starts where the entry that points to it starts.
LEMMA ChildBase ==
  ASSUME NEW g, NEW l
  PROVE  TableBase(g, l - 1) = gfn_round_for_level(g, l)
BY DEF TableBase, gfn_round_for_level, KVM_PAGES_PER_HPAGE

\* The root maps every frame.
LEMMA RootBase ==
  ASSUME NEW g \in Gfn
  PROVE  g \in Nat /\ TableBase(g, RootLevel) = 0
<1> DEFINE e == EntriesPerPage ^ RootLevel
<1>1. e \in Nat \ {0}
  BY Span, LevelAssumption DEF Level
<1> HIDE DEF e
<1>2. g \in 0 .. e - 1
  BY LevelAssumption DEF e
<1>3. g % e = g
  <2>1. g = 0 * e + g
    BY <1>1, <1>2
  <2>2. QED BY <1>1, <1>2, <2>1, DivModUnique
<1>4. QED BY <1>2, <1>3, <1>1 DEF e, TableBase

\* The entry after one that holds g, at its level or above, starts after g.
LEMMA SideStep ==
  ASSUME NEW g \in Nat, NEW l \in Level, NEW m \in l .. RootLevel
  PROVE  gfn_round_for_level(gfn_round_for_level(g, l), m) + KVM_PAGES_PER_HPAGE(m) > g
<1> DEFINE h == KVM_PAGES_PER_HPAGE(l)
           k == KVM_PAGES_PER_HPAGE(m)
           f == EntriesPerPage ^ (m - l)
           q == g \div h
           r == g % h
           x == g - r
<1>1. m \in Level /\ l - 1 \in 0 .. RootLevel /\ m - 1 \in 0 .. RootLevel /\ m - l \in 0 .. RootLevel
      /\ l - 1 <= m - 1 /\ (m - 1) - (l - 1) = m - l
  BY LevelAssumption DEF Level
<1>2. /\ EntriesPerPage ^ (m - 1)
           = EntriesPerPage ^ ((m - 1) - (l - 1)) * EntriesPerPage ^ (l - 1)
      /\ f \in Nat \ {0}
  BY <1>1, ExponentAssumption
<1>3. k = f * h
  BY <1>1, <1>2 DEF KVM_PAGES_PER_HPAGE
<1>4. h \in Nat \ {0} /\ k \in Nat \ {0}
  BY <1>1, Span
<1> HIDE DEF h, k, f
<1>5. q \in Nat /\ r \in 0 .. h - 1 /\ g = q * h + r
  BY <1>4, DivMod
<1> HIDE DEF q, r
<1>6. x \in Nat /\ x = q * h
  BY <1>4, <1>5
<1>7. x % k = (q % f) * h
  <2>1. x = q * h + 0 /\ 0 \in 0 .. h - 1
    BY <1>4, <1>6, <1>5
  <2>2. x \div h = q /\ x % h = 0
    BY <1>4, <1>5, <2>1, DivModUnique
  <2>3. x % (f * h) = ((x \div h) % f) * h + (x % h)
    BY <1>2, <1>4, <1>6, ModProduct
  <2>4. (q % f) * h \in Nat
    BY <1>2, <1>4, <1>5, DivMod
  <2>5. QED BY <1>3, <2>2, <2>3, <2>4
<1>8. (q % f) * h + h <= k
  <2>1. q % f \in 0 .. f - 1
    BY <1>2, <1>5, DivMod
  <2>2. (q % f) + 1 <= f
    BY <2>1, <1>2
  <2> DEFINE b == q % f
  <2> HIDE DEF b
  <2>3. b \in Nat /\ b + 1 <= f
    BY <2>1, <2>2, <1>2 DEF b
  <2>4. (b + 1) * h <= f * h
    BY <2>3, <1>4, <1>2
  <2>5. b * h + h <= k
    BY <2>3, <2>4, <1>3, <1>4
  <2>6. QED BY <2>5 DEF b
<1>9. (x - (x % k)) + k > g
  <2> DEFINE y == (q % f) * h
  <2>1. y \in Nat
    BY <1>2, <1>4, <1>5, DivMod
  <2> HIDE DEF y
  <2>2. x % k = y /\ y + h <= k
    BY <1>7, <1>8 DEF y
  <2>3. QED BY <2>1, <2>2, <1>4, <1>5, <1>6
<1>10. QED
  BY <1>9 DEF h, k, r, gfn_round_for_level

-----------------------------------------------------------------------------
(***************************************************************************)
(* Pages and the iterator.                                                 *)
(***************************************************************************)

\* A set of natural numbers has a least element.
LEMMA LeastNatural ==
  ASSUME NEW S \in SUBSET Nat, S # {}
  PROVE  \E p \in S : \A q \in S : p <= q
<1> DEFINE R == {ss \in Nat \X Nat : ss[1] < ss[2]}
<1>1. IsWellFoundedOn(R, Nat)
  BY NatLessThanWellFounded DEF OpToRel
<1> HIDE DEF R
<1>2. PICK p \in S : \A q \in S : ~(<<q, p>> \in R)
  BY <1>1, WFMin
<1>3. ASSUME NEW q \in S PROVE p <= q
  <2>1. q \in Nat /\ p \in Nat
    OBVIOUS
  <2>2. <<q, p>> \in Nat \X Nat /\ <<q, p>>[1] = q /\ <<q, p>>[2] = p
    BY <2>1
  <2>3. ~(q < p)
    BY <1>2, <2>2 DEF R
  <2>4. QED BY <2>1, <2>3
<1>4. QED BY <1>3

\* tdp_mmu_alloc_sp takes a page that is not in use.
LEMMA FreshFree ==
  ASSUME Free # {}
  PROVE  Fresh \in Page /\ sp[Fresh].level = 0
<1>1. Free \in SUBSET Nat
  BY BoundAssumption DEF Free, Page
<1>2. \E p \in Free : \A q \in Free : p <= q
  BY <1>1, LeastNatural
<1>3. Fresh \in Free
  BY <1>2, Zenon DEF Fresh
<1>4. QED BY <1>3 DEF Free

\* The iterator of a processor that does not walk.
LEMMA NoIterType == NoIter \in tdp_iter /\ RootLevel \in Level
BY LevelAssumption DEF NoIter, tdp_iter, Level, Spte

\* tdp_iter_refresh_sptep moves to the entry of the frame and reads it.
LEMMA RefreshIter ==
  ASSUME TypeOK, NEW it \in tdp_iter, it.pt_path[it.level] \in Page
  PROVE  LET new_it == tdp_iter_refresh_sptep(it) IN
         /\ new_it \in tdp_iter
         /\ new_it.next_last_level_gfn = it.next_last_level_gfn
         /\ new_it.gfn = it.gfn
         /\ new_it.level = it.level
         /\ new_it.pt_path = it.pt_path
         /\ new_it.valid = it.valid
         /\ new_it.sptep = <<it.pt_path[it.level], SPTE_INDEX(it.gfn, it.level)>>
<1> DEFINE p == it.pt_path[it.level]
           i == SPTE_INDEX(it.gfn, it.level)
<1>1. i \in Index
  BY Rounding DEF tdp_iter
<1> HIDE DEF i
<1>2. spt[p][i] \in Spte
  BY <1>1 DEF TypeOK
<1>3. tdp_iter_refresh_sptep(it) = [it EXCEPT !.sptep = <<p, i>>, !.old_spte = spt[p][i]]
  BY DEF tdp_iter_refresh_sptep, kvm_tdp_mmu_read_spte, i
<1> HIDE DEF p
<1>4. p \in Page
  BY DEF p
<1> DEFINE moved == [it EXCEPT !.sptep = <<p, i>>, !.old_spte = spt[p][i]]
<1>5. moved \in tdp_iter
  BY <1>1, <1>2, <1>4 DEF tdp_iter
<1>6. /\ moved.next_last_level_gfn = it.next_last_level_gfn /\ moved.gfn = it.gfn
      /\ moved.level = it.level /\ moved.pt_path = it.pt_path /\ moved.valid = it.valid
      /\ moved.sptep = <<p, i>>
  BY DEF tdp_iter
<1> HIDE DEF moved
<1>7. tdp_iter_refresh_sptep(it) = moved
  BY <1>3 DEF moved
<1>8. QED BY <1>5, <1>6, <1>7, Zenon DEF p, i

\* A walk starts at the root, in the entry that maps the frame.
LEMMA StartIter ==
  ASSUME TypeOK, NEW p \in Page, NEW g \in Gfn
  PROVE  LET it == tdp_iter_start(p, g) IN
         /\ it \in tdp_iter
         /\ it.valid
         /\ it.next_last_level_gfn = g
         /\ it.level = RootLevel
         /\ it.gfn = gfn_round_for_level(g, RootLevel)
         /\ it.pt_path[RootLevel] = p
         /\ it.sptep = <<it.pt_path[RootLevel], SPTE_INDEX(it.gfn, RootLevel)>>
<1> DEFINE round == gfn_round_for_level(g, RootLevel)
           path == [NoIter.pt_path EXCEPT ![RootLevel] = p]
           first == [NoIter EXCEPT !.next_last_level_gfn = g, !.gfn = round,
                                   !.pt_path[RootLevel] = p, !.valid = TRUE]
<1>1. round \in Nat /\ g \in Nat
  BY RootBase, NoIterType, Rounding
<1>2. path \in [Level -> Spte] /\ path[RootLevel] = p
  BY NoIterType DEF NoIter, Spte
<1> HIDE DEF round
<1>3. first = [NoIter EXCEPT !.next_last_level_gfn = g, !.gfn = round,
                             !.pt_path = path, !.valid = TRUE]
  OBVIOUS
<1> HIDE DEF path, first
<1>4. /\ first \in tdp_iter /\ first.valid = TRUE /\ first.next_last_level_gfn = g
      /\ first.level = NoIter.level /\ first.gfn = round /\ first.pt_path = path
  BY <1>1, <1>2, <1>3, NoIterType DEF tdp_iter
<1>5. NoIter.level = RootLevel
  BY DEF NoIter
<1>6. first.pt_path[first.level] \in Page
  BY <1>2, <1>4, <1>5
<1>7. tdp_iter_start(p, g) = tdp_iter_refresh_sptep(first)
  BY DEF tdp_iter_start, first, round
<1> DEFINE it == tdp_iter_start(p, g)
<1>8. /\ it \in tdp_iter /\ it.next_last_level_gfn = g /\ it.gfn = round
      /\ it.level = RootLevel /\ it.pt_path = path
      /\ it.sptep = <<path[RootLevel], SPTE_INDEX(round, RootLevel)>>
  BY <1>4, <1>5, <1>6, <1>7, RefreshIter
<1>9. it.valid = TRUE
  BY <1>4, <1>6, <1>7, RefreshIter, Zenon
<1> HIDE DEF it
<1>10. QED
  BY <1>2, <1>8, <1>9 DEF it, round

\* try_step_down goes to the table that the entry points to.
LEMMA DownIter ==
  ASSUME TypeOK, NEW it \in tdp_iter, it.level > 1,
         StepDownTo(it) \in Page, it.next_last_level_gfn \in Nat
  PROVE  LET new_it == try_step_down(it) IN
         /\ new_it \in tdp_iter
         /\ new_it.valid = it.valid
         /\ new_it.next_last_level_gfn = it.next_last_level_gfn
         /\ new_it.level = it.level - 1
         /\ new_it.gfn = gfn_round_for_level(it.next_last_level_gfn, it.level - 1)
         /\ new_it.pt_path = [it.pt_path EXCEPT ![it.level - 1] = StepDownTo(it)]
         /\ new_it.sptep = <<new_it.pt_path[it.level - 1],
                             SPTE_INDEX(new_it.gfn, it.level - 1)>>
<1> DEFINE round == gfn_round_for_level(it.next_last_level_gfn, it.level - 1)
           child == StepDownTo(it)
           path == [it.pt_path EXCEPT ![it.level - 1] = child]
           first == [it EXCEPT !.level = it.level - 1,
                               !.pt_path[it.level - 1] = child,
                               !.gfn = round]
<1>1. it.level - 1 \in Level
  BY LevelAssumption DEF tdp_iter, Level
<1>2. round \in Nat
  BY <1>1, Rounding
<1> HIDE DEF round, child
<1>3. path \in [Level -> Spte] /\ path[it.level - 1] = child
  BY <1>1 DEF tdp_iter, Spte, child
<1>4. first = [it EXCEPT !.level = it.level - 1, !.pt_path = path, !.gfn = round]
  OBVIOUS
<1> HIDE DEF path, first
<1>5. /\ first \in tdp_iter /\ first.valid = it.valid
      /\ first.next_last_level_gfn = it.next_last_level_gfn
      /\ first.level = it.level - 1 /\ first.gfn = round /\ first.pt_path = path
  BY <1>1, <1>2, <1>3, <1>4 DEF tdp_iter
<1>6. first.pt_path[first.level] \in Page
  BY <1>3, <1>5 DEF child
<1>7. try_step_down(it) = tdp_iter_refresh_sptep(first)
  BY DEF try_step_down, first, round, child
<1> DEFINE down == tdp_iter_refresh_sptep(first)
<1>8. /\ down \in tdp_iter /\ down.next_last_level_gfn = it.next_last_level_gfn
      /\ down.gfn = round /\ down.level = it.level - 1 /\ down.pt_path = path
      /\ down.sptep = <<path[it.level - 1], SPTE_INDEX(round, it.level - 1)>>
  BY <1>5, <1>6, RefreshIter
<1>9. down.valid = it.valid
  BY <1>5, <1>6, RefreshIter, Zenon
<1> HIDE DEF down
<1>10. QED
  BY <1>7, <1>8, <1>9 DEF down, path, round, child

-----------------------------------------------------------------------------
(***************************************************************************)
(* The walk.                                                               *)
(***************************************************************************)

\* The entry a walk reads is the one that maps its frame.
LEMMA WalkEntry ==
  ASSUME TypeOK, NEW c \in Cpu, OnPath(c), gfn[c] \in Gfn
  PROVE  LET it == iter[c]
             i == SPTE_INDEX(gfn[c], it.level)
         IN  /\ it \in tdp_iter
             /\ it.level \in Level
             /\ i \in Index
             /\ it.pt_path[it.level] \in Page
             /\ it.sptep = <<it.pt_path[it.level], i>>
             /\ sp[it.pt_path[it.level]].level = it.level
             /\ it.gfn = sp[it.pt_path[it.level]].gfn + i * KVM_PAGES_PER_HPAGE(it.level)
<1> DEFINE it == iter[c]
<1>1. it \in tdp_iter /\ it.level \in Level /\ gfn[c] \in Nat
  BY RootBase DEF TypeOK, tdp_iter
<1>2. it.level \in it.level .. RootLevel
  BY <1>1 DEF Level
<1> HIDE DEF it
<1>3. /\ it.pt_path[it.level] \in Page
      /\ sp[it.pt_path[it.level]].level = it.level
      /\ sp[it.pt_path[it.level]].gfn = TableBase(gfn[c], it.level)
      /\ it.gfn = gfn_round_for_level(gfn[c], it.level)
      /\ it.sptep = <<it.pt_path[it.level], SPTE_INDEX(it.gfn, it.level)>>
  BY <1>2 DEF OnPath, it
<1>4. QED BY <1>1, <1>3, Rounding, EntryBase DEF it

\* A walk that goes on within the range of its fault goes down: the entry after
\* the current one, at its level or above, starts after the frame.
LEMMA NextDown ==
  ASSUME TypeOK, NEW c \in Cpu, OnPath(c), gfn[c] \in Gfn,
         InRange(tdp_iter_next(iter[c]), gfn[c])
  PROVE  LET it == iter[c] IN
         /\ it.level > 1
         /\ StepDownTo(it) \in Page
         /\ StepDownTo(it) = spt[it.pt_path[it.level]][SPTE_INDEX(gfn[c], it.level)]
         /\ tdp_iter_next(it) = try_step_down(it)
<1> DEFINE it == iter[c]
           p == it.pt_path[it.level]
           i == SPTE_INDEX(gfn[c], it.level)
<1>1. it \in tdp_iter /\ it.level \in Level /\ i \in Index /\ p \in Page /\ it.sptep = <<p, i>>
  BY WalkEntry
<1>2. gfn[c] \in Nat
  BY RootBase
<1>3. CASE it.level > 1 /\ StepDownTo(it) # NONE
  <2>1. StepDownTo(it) = spt[p][i] /\ spt[p][i] \in Spte
    BY <1>1, <1>3 DEF StepDownTo, spte_to_child_pt, kvm_tdp_mmu_read_spte, TypeOK
  <2>2. tdp_iter_next(it) = try_step_down(it)
    BY <1>3 DEF tdp_iter_next
  <2>3. QED BY <1>3, <2>1, <2>2 DEF Spte
<1>4. CASE ~(it.level > 1 /\ StepDownTo(it) # NONE) /\ StepUpTo(it) = {}
  <2>1. tdp_iter_next(it) = [it EXCEPT !.valid = FALSE]
    BY <1>4 DEF tdp_iter_next
  <2>2. tdp_iter_next(it).valid = FALSE
    BY <1>1, <2>1 DEF tdp_iter
  <2>3. QED BY <2>2 DEF InRange
<1>5. CASE ~(it.level > 1 /\ StepDownTo(it) # NONE) /\ StepUpTo(it) # {}
  <2> DEFINE m == CHOOSE l \in StepUpTo(it) : TRUE
             g == gfn_round_for_level(it.gfn, m) + KVM_PAGES_PER_HPAGE(m)
             side == [it EXCEPT !.level = m, !.gfn = g, !.next_last_level_gfn = g]
  <2>1. m \in StepUpTo(it)
    BY <1>5
  <2>2. tdp_iter_next(it) = try_step_side(it, m)
    BY <1>5 DEF tdp_iter_next
  <2> HIDE DEF m
  <2>3. m \in it.level .. RootLevel
    BY <2>1 DEF StepUpTo
  <2>4. m \in Level /\ it.gfn \in Nat
    BY <1>1, <2>3 DEF Level, tdp_iter
  <2>5. g \in Nat
    BY <2>4, Rounding, Span
  <2>6. g > gfn[c]
    BY <1>1, <1>2, <2>3, SideStep DEF OnPath
  <2>7. tdp_iter_next(it) = tdp_iter_refresh_sptep(side)
    BY <2>2 DEF try_step_side
  <2> HIDE DEF g
  <2>8. side \in tdp_iter /\ side.level = m /\ side.pt_path = it.pt_path /\ side.gfn = g
    BY <1>1, <2>4, <2>5 DEF tdp_iter
  <2>9. side.pt_path[side.level] \in Page
    BY <2>3, <2>8 DEF OnPath
  <2>10. tdp_iter_next(it).gfn = g
    BY <2>7, <2>8, <2>9, RefreshIter
  <2>11. QED BY <1>2, <2>5, <2>6, <2>10 DEF InRange
<1>6. QED BY <1>3, <1>4, <1>5

\* A walk that starts is on the path.
LEMMA StartOnPath ==
  ASSUME TypeOK, RootsAtZero, NEW c \in Cpu, RootAt(c), root[c] \in Page, NEW g \in Gfn,
         iter'[c] = tdp_iter_start(root[c], g), gfn'[c] = g, root'[c] = root[c],
         sp' = sp, spt' = spt
  PROVE  OnPath(c)'
<1> DEFINE it == tdp_iter_start(root[c], g)
<1>1. /\ it.valid /\ it.next_last_level_gfn = g /\ it.level = RootLevel
      /\ it.gfn = gfn_round_for_level(g, RootLevel) /\ it.pt_path[RootLevel] = root[c]
      /\ it.sptep = <<it.pt_path[RootLevel], SPTE_INDEX(it.gfn, RootLevel)>>
  BY StartIter
<1> HIDE DEF it
<1>2. it = iter'[c]
  BY DEF it
<1>3. sp[root[c]].level = RootLevel /\ sp[root[c]].gfn = TableBase(g, RootLevel)
  BY RootBase DEF RootAt, RootsAtZero
<1>4. /\ RootLevel .. RootLevel = {RootLevel}
      /\ RootLevel .. RootLevel - 1 = {}
  BY LevelAssumption
<1>5. QED BY <1>1, <1>2, <1>3, <1>4 DEF OnPath

\* A walk that goes down stays on the path.
LEMMA DownOnPath ==
  ASSUME TypeOK, TablesFormTrees, NEW c \in Cpu, OnPath(c), gfn[c] \in Gfn,
         InRange(tdp_iter_next(iter[c]), gfn[c]), iter'[c] = tdp_iter_next(iter[c]),
         gfn'[c] = gfn[c], root'[c] = root[c], sp' = sp, spt' = spt
  PROVE  /\ OnPath(c)'
         /\ iter'[c] \in tdp_iter
         /\ iter[c].level > 1
         /\ iter'[c].level = iter[c].level - 1
<1> DEFINE it == iter[c]
           down == try_step_down(it)
           L == it.level
           child == StepDownTo(it)
           p == it.pt_path[L]
           i == SPTE_INDEX(gfn[c], L)
<1>1. /\ it \in tdp_iter /\ L \in Level /\ i \in Index /\ p \in Page
      /\ sp[p].level = L /\ it.gfn = sp[p].gfn + i * KVM_PAGES_PER_HPAGE(L)
  BY WalkEntry
<1>2. L > 1 /\ child \in Page /\ child = spt[p][i] /\ iter'[c] = down
  BY NextDown
<1>3. /\ it.valid /\ it.next_last_level_gfn = gfn[c]
      /\ it.gfn = gfn_round_for_level(gfn[c], L)
      /\ it.pt_path[RootLevel] = root[c]
      /\ \A l \in L .. RootLevel :
           /\ it.pt_path[l] \in Page
           /\ sp[it.pt_path[l]].level = l
           /\ sp[it.pt_path[l]].gfn = TableBase(gfn[c], l)
      /\ \A l \in L .. RootLevel - 1 :
           it.pt_path[l] = spt[it.pt_path[l + 1]][SPTE_INDEX(gfn[c], l + 1)]
  BY DEF OnPath
<1>4. gfn[c] \in Nat
  BY RootBase
<1>5. /\ down \in tdp_iter /\ down.next_last_level_gfn = gfn[c] /\ down.level = L - 1
      /\ down.gfn = gfn_round_for_level(gfn[c], L - 1)
      /\ down.pt_path = [it.pt_path EXCEPT ![L - 1] = child]
      /\ down.sptep = <<down.pt_path[L - 1], SPTE_INDEX(down.gfn, L - 1)>>
  BY <1>1, <1>2, <1>3, <1>4, DownIter
<1>6. down.valid
  BY <1>1, <1>2, <1>3, <1>4, DownIter
<1>7. sp[child].level = L - 1 /\ sp[child].gfn = TableBase(gfn[c], L - 1)
  <2>1. child # NONE
    BY <1>2, PointerAssumption
  <2>2. sp[child].level = L - 1 /\ sp[child].gfn = sp[p].gfn + i * KVM_PAGES_PER_HPAGE(L)
    BY <1>1, <1>2, <2>1 DEF TablesFormTrees
  <2>3. QED BY <1>1, <1>3, <2>2, ChildBase
<1> HIDE DEF down, L, child, p, i
<1>8. it.pt_path \in [Level -> Spte]
  BY <1>1 DEF tdp_iter, it
<1>9. /\ L - 1 \in Level
      /\ down.pt_path[L - 1] = child
      /\ \A l \in L .. RootLevel : down.pt_path[l] = it.pt_path[l]
  <2>1. L - 1 \in Level /\ \A l \in L .. RootLevel : l \in Level /\ l # L - 1
    BY <1>1, <1>2, LevelAssumption DEF Level
  <2>2. QED BY <2>1, <1>5, <1>8
<1>10. \A l \in L - 1 .. RootLevel :
         /\ down.pt_path[l] \in Page
         /\ sp[down.pt_path[l]].level = l
         /\ sp[down.pt_path[l]].gfn = TableBase(gfn[c], l)
  <2>1. \A l \in L - 1 .. RootLevel : l = L - 1 \/ l \in L .. RootLevel
    BY <1>1, <1>2 DEF Level
  <2>2. QED BY <1>2, <1>3, <1>7, <1>9, <2>1
<1>11. \A l \in L - 1 .. RootLevel - 1 :
         down.pt_path[l] = spt[down.pt_path[l + 1]][SPTE_INDEX(gfn[c], l + 1)]
  <2>1. \A l \in L - 1 .. RootLevel - 1 :
          /\ l = L - 1 \/ l \in L .. RootLevel - 1
          /\ l + 1 \in L .. RootLevel
    BY <1>1, <1>2, LevelAssumption DEF Level
  <2>2. L - 1 + 1 = L /\ L \in L .. RootLevel
    BY <1>1 DEF Level
  <2>3. spt[p][i] = spt[it.pt_path[L]][SPTE_INDEX(gfn[c], L)]
    BY DEF p, i
  <2>4. ASSUME NEW l \in L - 1 .. RootLevel - 1
        PROVE  down.pt_path[l] = spt[down.pt_path[l + 1]][SPTE_INDEX(gfn[c], l + 1)]
    <3>1. CASE l = L - 1
      <4>1. down.pt_path[l + 1] = it.pt_path[L] /\ l + 1 = L
        BY <1>9, <2>2, <3>1
      <4>2. QED BY <1>2, <1>9, <2>3, <3>1, <4>1
    <3>2. CASE l \in L .. RootLevel - 1
      <4>1. down.pt_path[l] = it.pt_path[l] /\ down.pt_path[l + 1] = it.pt_path[l + 1]
        BY <1>1, <1>9, <2>1, <3>2, LevelAssumption DEF Level
      <4>2. QED BY <1>3, <3>2, <4>1
    <3>3. QED BY <2>1, <3>1, <3>2
  <2>5. QED BY <2>4
<1>12. RootLevel \in L .. RootLevel
  BY <1>1, LevelAssumption DEF Level
<1>13. down.pt_path[RootLevel] = root[c]
  BY <1>3, <1>9, <1>12
<1>14. OnPath(c)'
  <2>1. /\ down.valid
        /\ down.next_last_level_gfn = gfn[c]
        /\ down.gfn = gfn_round_for_level(gfn[c], L - 1)
        /\ down.pt_path[RootLevel] = root[c]
        /\ down.sptep = <<down.pt_path[L - 1], SPTE_INDEX(down.gfn, L - 1)>>
    BY <1>5, <1>6, <1>13
  <2>2. /\ iter'[c] = down /\ down.level = L - 1
        /\ gfn'[c] = gfn[c] /\ root'[c] = root[c] /\ sp' = sp /\ spt' = spt
    BY <1>2, <1>5
  <2>3. QED BY ONLY <1>10, <1>11, <2>1, <2>2 DEF OnPath
<1>15. QED BY <1>2, <1>5, <1>14 DEF L, it

\* A walk stays on the path while others work on the tables.
LEMMA StillOnPath ==
  ASSUME TypeOK, NEW c \in Cpu, OnPath(c), TablesKept, EntriesKept,
         iter'[c] = iter[c], gfn'[c] = gfn[c], root'[c] = root[c], gfn[c] \in Gfn
  PROVE  OnPath(c)'
<1> DEFINE it == iter[c]
           L == it.level
<1>1. it \in tdp_iter /\ L \in Level /\ gfn[c] \in Nat
  BY RootBase DEF TypeOK, tdp_iter
<1>2. ASSUME NEW l \in L .. RootLevel
      PROVE  /\ it.pt_path[l] \in Page
             /\ sp'[it.pt_path[l]].level = l
             /\ sp'[it.pt_path[l]].gfn = TableBase(gfn[c], l)
  <2>1. l > 0
    BY <1>1 DEF Level
  <2>2. QED BY <2>1 DEF OnPath, TablesKept
<1>3. ASSUME NEW l \in L .. RootLevel - 1
      PROVE  it.pt_path[l] = spt'[it.pt_path[l + 1]][SPTE_INDEX(gfn[c], l + 1)]
  <2>1. l \in L .. RootLevel /\ l + 1 \in L .. RootLevel /\ l + 1 \in Level
    BY <1>1, LevelAssumption DEF Level
  <2>2. /\ it.pt_path[l] \in Page /\ it.pt_path[l + 1] \in Page
        /\ it.pt_path[l] = spt[it.pt_path[l + 1]][SPTE_INDEX(gfn[c], l + 1)]
    BY <2>1 DEF OnPath
  <2>3. SPTE_INDEX(gfn[c], l + 1) \in Index
    BY <1>1, <2>1, Rounding
  <2>4. QED BY <2>2, <2>3, PointerAssumption DEF EntriesKept
<1>4. QED BY <1>2, <1>3 DEF OnPath

-----------------------------------------------------------------------------
(***************************************************************************)
(* Steps.                                                                  *)
(***************************************************************************)
USE DEF memory, list, walk, Goto

\* A step of one processor.
StepBy(c) ==
  \/ kvm_mmu_load(c) \/ Step(c) \/ handle_ept_misconfig(c)
  \/ \E g \in Gfn, present, write \in BOOLEAN :
       kvm_mmu_do_page_fault(c, g, present, write)

\* It leaves the locals of the others alone.
Others(c) ==
  \A d \in Cpu : d # c =>
    /\ pc'[d] = pc[d] /\ iter'[d] = iter[d] /\ gfn'[d] = gfn[d]
    /\ new'[d] = new[d] /\ root'[d] = root[d] /\ nobjs'[d] = nobjs[d]

\* The steps of Next are those of the processors and the sizing of the pool.
LEMMA NextCases ==
  ASSUME Next
  PROVE  \/ kvm_mmu_change_mmu_pages
         \/ \E c \in Cpu : StepBy(c)
BY DEF Next, StepBy

\* A step of one processor changes no local of another.
LEMMA OthersStill ==
  ASSUME TypeOK, NEW c \in Cpu, StepBy(c)
  PROVE  Others(c)
<1> USE DEF TypeOK, Others
<1>1. CASE kvm_mmu_load(c)
  BY <1>1 DEF kvm_mmu_load
<1>2. CASE NoPagesAvailable(c) \/ FaultWithoutSlot(c)
  BY <1>2 DEF NoPagesAvailable, FaultWithoutSlot, Stop
<1>3. CASE ReuseRoot(c)
  BY <1>3 DEF ReuseRoot
<1>4. CASE AllocRoot(c)
  BY <1>4 DEF AllocRoot, tdp_mmu_alloc_sp
<1>5. CASE InsertHeadList(c)
  BY <1>5 DEF InsertHeadList, Stop
<1>6. CASE InsertBlink(c) \/ InsertFlink(c)
  BY <1>6 DEF InsertBlink, InsertFlink
<1>7. CASE kvm_tdp_mmu_fast_pf_get_last_sptep(c) \/ fast_page_fault(c)
  BY <1>7 DEF kvm_tdp_mmu_fast_pf_get_last_sptep, fast_page_fault
<1>8. CASE kvm_tdp_mmu_page_fault(c)
  BY <1>8 DEF kvm_tdp_mmu_page_fault, Answer
<1>9. CASE tdp_mmu_map_handle_target_level(c)
  BY <1>9 DEF tdp_mmu_map_handle_target_level, Answer, Stop
<1>10. CASE tdp_mmu_init_child_sp(c)
  BY <1>10 DEF tdp_mmu_init_child_sp, tdp_mmu_alloc_sp, Stop
<1>11. CASE tdp_mmu_link_sp(c)
  BY <1>11 DEF tdp_mmu_link_sp
<1>12. CASE kvm_tdp_mmu_map(c)
  BY <1>12 DEF kvm_tdp_mmu_map, Answer
<1>13. CASE handle_ept_misconfig(c)
  BY <1>13 DEF handle_ept_misconfig
<1>14. CASE \E g \in Gfn, present, write \in BOOLEAN :
              kvm_mmu_do_page_fault(c, g, present, write)
  BY <1>14 DEF kvm_mmu_do_page_fault
<1>15. QED
  BY <1>1, <1>2, <1>3, <1>4, <1>5, <1>6, <1>7, <1>8, <1>9, <1>10, <1>11, <1>12,
     <1>13, <1>14 DEF StepBy, Step

\* The tables change by these steps only.
LEMMA MemoryStill ==
  ASSUME NEW c \in Cpu, StepBy(c)
  PROVE  \/ sp' = sp /\ spt' = spt
         \/ ReuseRoot(c) \/ AllocRoot(c) \/ tdp_mmu_init_child_sp(c) \/ tdp_mmu_link_sp(c)
BY DEF StepBy, Step, kvm_mmu_load, NoPagesAvailable, FaultWithoutSlot, Stop, InsertHeadList,
       InsertBlink, InsertFlink, kvm_tdp_mmu_fast_pf_get_last_sptep, fast_page_fault,
       kvm_tdp_mmu_page_fault, tdp_mmu_map_handle_target_level, kvm_tdp_mmu_map,
       handle_ept_misconfig, kvm_mmu_do_page_fault

\* tdp_mmu_link_sp writes an entry only if it is not present yet.
LEMMA LinkWrites ==
  ASSUME TypeOK, NEW c \in Cpu, At(c), tdp_mmu_link_sp(c)
  PROVE  LET p == iter[c].pt_path[iter[c].level]
             i == SPTE_INDEX(gfn[c], iter[c].level)
         IN  /\ p \in Page /\ i \in Index /\ new[c] \in Page
             /\ spt' = IF spt[p][i] = NONE THEN [spt EXCEPT ![p][i] = new[c]] ELSE spt
<1> DEFINE p == iter[c].pt_path[iter[c].level]
           i == SPTE_INDEX(gfn[c], iter[c].level)
<1>1. pc[c] = "link"
  BY DEF tdp_mmu_link_sp
<1>2. OnPath(c) /\ gfn[c] \in Gfn /\ new[c] \in Page /\ iter[c].old_spte = NONE
  BY <1>1 DEF At, ControlAt, WalkAt, LinkAt, Walking
<1>3. p \in Page /\ i \in Index /\ iter[c].sptep = <<p, i>>
  BY <1>2, WalkEntry
<1> HIDE DEF p, i
<1>4. spt' = IF spt[p][i] = NONE THEN [spt EXCEPT ![p][i] = new[c]] ELSE spt
  BY <1>2, <1>3 DEF tdp_mmu_link_sp, InterlockedCompareExchange64, kvm_tdp_mmu_read_spte
<1>5. QED BY <1>2, <1>3, <1>4 DEF p, i

\* No step takes an entry or a table away.
LEMMA StepKeeps ==
  ASSUME IndInv, NEW c \in Cpu, StepBy(c)
  PROVE  TablesKept /\ EntriesKept
<1> USE DEF TablesKept, EntriesKept
<1>0. TypeOK /\ At(c)
  BY DEF IndInv
<1>1. CASE sp' = sp /\ spt' = spt
  BY <1>1
<1>2. CASE ReuseRoot(c)
  <2>1. PICK q \in Page : sp' = [sp EXCEPT ![q].tdp_mmu_root_count = @ + 1]
    BY <1>0, <1>2 DEF ReuseRoot, kvm_tdp_mmu_get_root, TypeOK
  <2>2. spt' = spt
    BY <1>2 DEF ReuseRoot
  <2>3. QED BY <1>0, <2>1, <2>2 DEF TypeOK, kvm_mmu_page
<1>3. CASE AllocRoot(c) \/ tdp_mmu_init_child_sp(c)
  <2>1. spt' = spt
    BY <1>3 DEF AllocRoot, tdp_mmu_init_child_sp, Stop
  <2>2. sp' = sp \/ (Free # {} /\ \E r : sp' = [sp EXCEPT ![Fresh] = r])
    BY <1>3 DEF AllocRoot, tdp_mmu_init_child_sp, Stop, tdp_mmu_alloc_sp, tdp_mmu_init_sp
  <2>3. Free # {} => Fresh \in Page /\ sp[Fresh].level = 0
    BY FreshFree
  <2>4. CASE sp' = sp
    BY <2>1, <2>4
  <2>5. CASE Free # {} /\ \E r : sp' = [sp EXCEPT ![Fresh] = r]
    <3>1. PICK r : sp' = [sp EXCEPT ![Fresh] = r]
      BY <2>5
    <3>2. \A p \in Page : p # Fresh => sp'[p] = sp[p]
      BY <1>0, <3>1 DEF TypeOK
    <3>3. QED BY <2>1, <2>3, <2>5, <3>2
  <2>6. QED BY <2>2, <2>4, <2>5
<1>4. CASE tdp_mmu_link_sp(c)
  <2>1. sp' = sp
    BY <1>4 DEF tdp_mmu_link_sp
  <2>2. PICK p \in Page, i \in Index :
          spt' = IF spt[p][i] = NONE THEN [spt EXCEPT ![p][i] = new[c]] ELSE spt
    BY <1>0, <1>4, LinkWrites
  <2>3. QED BY <1>0, <2>1, <2>2 DEF TypeOK
<1>5. QED BY <1>1, <1>2, <1>3, <1>4, MemoryStill

\* What holds of a processor still holds after a step that leaves its locals
\* alone.
LEMMA StillAt ==
  ASSUME IndInv, NEW c \in Cpu, StepBy(c), NEW d \in Cpu,
         pc'[d] = pc[d], iter'[d] = iter[d], gfn'[d] = gfn[d],
         new'[d] = new[d], root'[d] = root[d], nobjs'[d] = nobjs[d]
  PROVE  At(d)'
<1>1. TypeOK /\ At(d)
  BY DEF IndInv
<1>2. TablesKept /\ EntriesKept
  BY StepKeeps
<1>3. ControlAt(d)'
  BY <1>1 DEF At, ControlAt
<1>4. RootAt(d)'
  BY <1>1, <1>2, LevelAssumption DEF At, ControlAt, RootAt, TablesKept
<1>5. WalkAt(d)'
  BY <1>1, <1>2, StillOnPath DEF At, ControlAt, WalkAt
<1>6. LinkAt(d)'
  <2>1. CASE pc[d] = "link"
    <3>1. sp[new[d]].level > 0 /\ new[d] \in Page
      BY <1>1, <2>1 DEF At, ControlAt, LinkAt, TypeOK, tdp_iter, Level
    <3>2. QED BY <1>1, <1>2, <2>1, <3>1 DEF At, LinkAt, TablesKept
  <2>2. CASE pc[d] # "link"
    BY <2>2 DEF LinkAt
  <2>3. QED BY <2>1, <2>2
<1>7. CacheAt(d)'
  BY <1>1 DEF At, CacheAt
<1>8. QED BY <1>3, <1>4, <1>5, <1>6, <1>7 DEF At

\* Taking a page from both caches lowers each fill by at most one.
LEMMA AllocType ==
  ASSUME TypeOK, NEW c \in Cpu, tdp_mmu_alloc_sp(c)
  PROVE  /\ Fresh \in Page /\ sp[Fresh].level = 0
         /\ new' \in [Cpu -> Spte] /\ new'[c] = Fresh
         /\ nobjs' \in [Cpu -> [Cache -> 0 .. CacheCapacity]]
         /\ \A k \in Cache : nobjs'[c][k] >= nobjs[c][k] - 1
<1>1. Fresh \in Page /\ sp[Fresh].level = 0
  BY FreshFree DEF tdp_mmu_alloc_sp
<1>2. new' \in [Cpu -> Spte] /\ new'[c] = Fresh
  BY <1>1 DEF TypeOK, tdp_mmu_alloc_sp, Spte
<1> DEFINE left == [k \in Cache |-> kvm_mmu_memory_cache_alloc(nobjs[c][k])]
<1>3. ASSUME NEW k \in Cache
      PROVE  left[k] \in 0 .. CacheCapacity /\ left[k] >= nobjs[c][k] - 1
  <2>1. nobjs[c][k] \in 0 .. CacheCapacity
    BY DEF TypeOK
  <2>2. left[k] = IF nobjs[c][k] = 0 THEN 0 ELSE nobjs[c][k] - 1
    BY DEF kvm_mmu_memory_cache_alloc
  <2> HIDE DEF left
  <2>3. QED BY <2>1, <2>2, CacheAssumption
<1>4. nobjs' = [nobjs EXCEPT ![c] = left]
  BY DEF TypeOK, tdp_mmu_alloc_sp
<1>5. left \in [Cache -> 0 .. CacheCapacity]
  BY <1>3
<1> HIDE DEF left
<1>6. QED BY <1>1, <1>2, <1>3, <1>4, <1>5 DEF TypeOK

\* Type correctness of the steps that allocate and link pages.
LEMMA MemoryType ==
  ASSUME IndInv, NEW c \in Cpu,
         ReuseRoot(c) \/ AllocRoot(c) \/ tdp_mmu_init_child_sp(c) \/ tdp_mmu_link_sp(c)
  PROVE  TypeOK'
<1>0. TypeOK /\ At(c)
  BY DEF IndInv
<1>1. CASE ReuseRoot(c)
  <2> DEFINE q == flink[HEAD]
  <2>1. q \in Page
    BY <1>0, <1>1 DEF ReuseRoot, TypeOK
  <2> HIDE DEF q
  <2>2. sp' = [sp EXCEPT ![q].tdp_mmu_root_count = @ + 1]
    BY <1>1 DEF ReuseRoot, kvm_tdp_mmu_get_root, q
  <2>3. sp' \in [Page -> kvm_mmu_page]
    <3>1. sp' = [sp EXCEPT ![q] = [sp[q] EXCEPT !.tdp_mmu_root_count = @ + 1]]
      BY <2>2
    <3>2. sp[q] \in kvm_mmu_page
      BY <1>0, <2>1 DEF TypeOK
    <3>3. [sp[q] EXCEPT !.tdp_mmu_root_count = @ + 1] \in kvm_mmu_page
      BY <3>2 DEF kvm_mmu_page
    <3>4. QED BY <1>0, <2>1, <3>1, <3>3 DEF TypeOK
  <2>4. root' \in [Cpu -> Spte]
    BY <1>0, <1>1, <2>1 DEF ReuseRoot, TypeOK, Spte, q
  <2>5. QED BY <1>0, <1>1, <2>3, <2>4 DEF ReuseRoot, TypeOK
<1>2. CASE AllocRoot(c)
  <2>1. /\ Fresh \in Page /\ new' \in [Cpu -> Spte]
        /\ nobjs' \in [Cpu -> [Cache -> 0 .. CacheCapacity]]
    BY <1>0, <1>2, AllocType DEF AllocRoot
  <2>2. [level |-> RootLevel, gfn |-> 0, ptep |-> NONE, tdp_mmu_root_count |-> 2]
          \in kvm_mmu_page
    BY LevelAssumption DEF kvm_mmu_page
  <2>3. root_role.level = RootLevel
    BY DEF root_role, kvm_calc_tdp_mmu_root_page_role
  <2>4. sp' \in [Page -> kvm_mmu_page]
    BY <1>0, <1>2, <2>1, <2>2, <2>3 DEF AllocRoot, tdp_mmu_init_sp, TypeOK
  <2>5. QED BY <1>0, <1>2, <2>1, <2>4 DEF AllocRoot, TypeOK
<1>3. CASE tdp_mmu_init_child_sp(c)
  <2>1. CASE sptep_to_sp(iter[c].sptep) = NONE
    BY <1>0, <1>3, <2>1 DEF tdp_mmu_init_child_sp, Stop, TypeOK
  <2>2. CASE sptep_to_sp(iter[c].sptep) # NONE
    <3> DEFINE it == iter[c]
               p == it.pt_path[it.level]
               i == SPTE_INDEX(gfn[c], it.level)
    <3>1. pc[c] = "map" /\ it.level > 1
      BY <1>3 DEF tdp_mmu_init_child_sp, kvm_mmu_hugepage_adjust,
                  kvm_mmu_max_mapping_level, KVM_MAX_HUGEPAGE_LEVEL, PG_LEVEL_4K
    <3>2. /\ p \in Page /\ i \in Index /\ it.sptep = <<p, i>> /\ it.gfn \in Nat
          /\ sp[p].level = it.level /\ it.level \in Level
      BY <1>0, <3>1, WalkEntry DEF At, ControlAt, WalkAt, Walking, tdp_iter
    <3>3. sptep_to_sp(it.sptep) = p
      BY <2>2, <3>2 DEF sptep_to_sp
    <3>4. /\ tdp_mmu_alloc_sp(c) /\ tdp_mmu_init_sp(Fresh, sp[p].level - 1, it.gfn, it.sptep, 0)
          /\ Goto(c, "link")
          /\ UNCHANGED <<spt, tdp_mmu_pages, list, walk, n_max_mmu_pages, root, entries, machine>>
      BY <1>3, <2>2, <3>3 DEF tdp_mmu_init_child_sp
    <3> HIDE DEF it, p, i
    <3>5. /\ Fresh \in Page /\ new' \in [Cpu -> Spte]
          /\ nobjs' \in [Cpu -> [Cache -> 0 .. CacheCapacity]]
      BY <1>0, <3>4, AllocType
    <3>6. [level |-> sp[p].level - 1, gfn |-> it.gfn, ptep |-> it.sptep, tdp_mmu_root_count |-> 0]
            \in kvm_mmu_page
      BY <3>1, <3>2, LevelAssumption DEF kvm_mmu_page, Level
    <3>7. sp' \in [Page -> kvm_mmu_page]
      BY <1>0, <3>4, <3>5, <3>6 DEF tdp_mmu_init_sp, TypeOK
    <3>8. QED BY <1>0, <3>4, <3>5, <3>7 DEF TypeOK
  <2>3. QED BY <2>1, <2>2
<1>4. CASE tdp_mmu_link_sp(c)
  <2>1. spt' \in [Page -> [Index -> Spte]]
    <3>1. PICK p \in Page, i \in Index :
            /\ new[c] \in Page
            /\ spt' = IF spt[p][i] = NONE THEN [spt EXCEPT ![p][i] = new[c]] ELSE spt
      BY <1>0, <1>4, LinkWrites
    <3>2. [spt EXCEPT ![p][i] = new[c]] \in [Page -> [Index -> Spte]]
      BY <1>0, <3>1 DEF TypeOK, Spte
    <3>3. QED BY <1>0, <3>1, <3>2 DEF TypeOK
  <2>2. machine' \in {machine, "spte", "removed"}
    BY <1>4 DEF tdp_mmu_link_sp, handle_changed_spte
  <2>3. new' \in [Cpu -> Spte]
    BY <1>0, <1>4 DEF tdp_mmu_link_sp, TypeOK, Spte
  <2>4. QED BY <1>0, <1>4, <2>1, <2>2, <2>3 DEF tdp_mmu_link_sp, TypeOK
<1>5. QED BY <1>1, <1>2, <1>3, <1>4

\* Every step keeps the types.
LEMMA StepType ==
  ASSUME IndInv, NEW c \in Cpu, StepBy(c)
  PROVE  TypeOK'
<1>0. TypeOK /\ At(c)
  BY DEF IndInv
<1>1. CASE kvm_mmu_load(c)
  <2>1. PICK filled \in mmu_topup_memory_caches(nobjs[c]) :
          nobjs' = [nobjs EXCEPT ![c] = filled]
    BY <1>1 DEF kvm_mmu_load
  <2>2. filled \in [Cache -> 0 .. CacheCapacity]
    BY DEF mmu_topup_memory_caches
  <2>3. entries' \in 0 .. MaxEntries
    BY <1>0, <1>1, BoundAssumption DEF kvm_mmu_load, TypeOK
  <2>4. QED BY <1>0, <1>1, <2>1, <2>2, <2>3 DEF kvm_mmu_load, TypeOK
<1>2. CASE NoPagesAvailable(c) \/ FaultWithoutSlot(c)
  BY <1>0, <1>2 DEF NoPagesAvailable, FaultWithoutSlot, Stop, TypeOK
<1>3. CASE InsertHeadList(c)
  <2>1. CASE blink[flink[HEAD]] # HEAD
    BY <1>0, <1>3, <2>1 DEF InsertHeadList, Stop, TypeOK
  <2>2. CASE blink[flink[HEAD]] = HEAD
    <3>1. new[c] \in Page /\ flink[HEAD] \in Page \cup {HEAD}
      BY <1>0, <1>3 DEF InsertHeadList, At, ControlAt, Inserting, TypeOK
    <3>2. next' \in [Cpu -> Page \cup {HEAD}]
      BY <1>0, <1>3, <2>2, <3>1 DEF InsertHeadList, TypeOK
    <3>3. /\ flink \in [Page \cup {HEAD} -> Page \cup {HEAD}]
          /\ blink \in [Page \cup {HEAD} -> Page \cup {HEAD}]
          /\ flink' = [flink EXCEPT ![new[c]] = flink[HEAD]]
          /\ blink' = [blink EXCEPT ![new[c]] = HEAD]
      BY <1>0, <1>3, <2>2 DEF InsertHeadList, TypeOK
    <3>4. /\ flink' \in [Page \cup {HEAD} -> Page \cup {HEAD}]
          /\ blink' \in [Page \cup {HEAD} -> Page \cup {HEAD}]
      BY <3>1, <3>3
    <3>5. QED BY <1>0, <1>3, <2>2, <3>2, <3>4 DEF InsertHeadList, TypeOK
  <2>3. QED BY <2>1, <2>2
<1>4. CASE InsertBlink(c) \/ InsertFlink(c)
  <2>1. new[c] \in Page
    BY <1>0, <1>4 DEF InsertBlink, InsertFlink, At, ControlAt, Inserting
  <2>2. blink' \in [Page \cup {HEAD} -> Page \cup {HEAD}]
    BY <1>0, <1>4, <2>1 DEF InsertBlink, InsertFlink, TypeOK
  <2>3. flink' \in [Page \cup {HEAD} -> Page \cup {HEAD}]
    BY <1>0, <1>4, <2>1 DEF InsertBlink, InsertFlink, TypeOK
  <2>4. root' \in [Cpu -> Spte] /\ new' \in [Cpu -> Spte]
    <3>1. /\ root' = root \/ root' = [root EXCEPT ![c] = new[c]]
          /\ new' = new \/ new' = [new EXCEPT ![c] = NONE]
      BY <1>4 DEF InsertBlink, InsertFlink
    <3>2. root \in [Cpu -> Spte] /\ new \in [Cpu -> Spte]
      BY <1>0 DEF TypeOK
    <3>3. new[c] \in Spte /\ NONE \in Spte
      BY <2>1 DEF Spte
    <3>4. QED BY ONLY <3>1, <3>2, <3>3
  <2>5. next' \in [Cpu -> Page \cup {HEAD}]
    <3>1. next' = next \/ next' = [next EXCEPT ![c] = HEAD]
      BY <1>4 DEF InsertBlink, InsertFlink
    <3>2. QED BY <1>0, <3>1 DEF TypeOK
  <2>6. pc' \in [Cpu -> {"user", "roots", "insert", "insert_blink", "insert_flink",
                         "guest", "fast", "topup", "map", "link", "next"}]
    <3>1. \E l \in {"insert_flink", "guest"} : pc' = [pc EXCEPT ![c] = l]
      BY <1>4 DEF InsertBlink, InsertFlink, Goto
    <3>2. QED BY <1>0, <3>1 DEF TypeOK
  <2>7. UNCHANGED <<spt, sp, tdp_mmu_pages, n_max_mmu_pages, iter, gfn, nobjs, entries,
                    machine>>
    BY <1>4 DEF InsertBlink, InsertFlink, memory, walk
  <2>8. QED BY <1>0, <2>2, <2>3, <2>4, <2>5, <2>6, <2>7 DEF TypeOK
<1>5. CASE kvm_tdp_mmu_fast_pf_get_last_sptep(c)
  <2>1. /\ pc[c] = "fast" /\ InRange(tdp_iter_next(iter[c]), gfn[c])
        /\ iter' = [iter EXCEPT ![c] = tdp_iter_next(iter[c])]
        /\ UNCHANGED <<memory, list, gfn, pc, n_max_mmu_pages, root, nobjs, new, entries, machine>>
    BY <1>5 DEF kvm_tdp_mmu_fast_pf_get_last_sptep
  <2>2. iter'[c] = tdp_iter_next(iter[c])
    BY <1>0, <2>1 DEF TypeOK
  <2>3. iter'[c] \in tdp_iter
    BY <1>0, <2>1, <2>2, DownOnPath DEF At, ControlAt, WalkAt, Walking, IndInv
  <2>4. QED BY <1>0, <2>1, <2>2, <2>3 DEF TypeOK
<1>6. CASE fast_page_fault(c)
  <2>1. machine' \in {machine, "lookup"}
    BY <1>6 DEF fast_page_fault
  <2>2. QED BY <1>0, <1>6, <2>1, NoIterType DEF fast_page_fault, TypeOK
<1>7. CASE kvm_tdp_mmu_page_fault(c)
  <2>1. PICK filled \in mmu_topup_memory_caches(nobjs[c]) :
          /\ nobjs' = [nobjs EXCEPT ![c] = filled]
          /\ \/ /\ iter' = [iter EXCEPT ![c] = tdp_iter_start(root[c], gfn[c])]
                /\ gfn' = gfn
                /\ Goto(c, "map")
             \/ Answer(c)
    BY <1>7 DEF kvm_tdp_mmu_page_fault
  <2>2. filled \in [Cache -> 0 .. CacheCapacity]
    BY DEF mmu_topup_memory_caches
  <2>3. root[c] \in Page /\ gfn[c] \in Gfn
    BY <1>0, <1>7 DEF kvm_tdp_mmu_page_fault, At, ControlAt
  <2>4. tdp_iter_start(root[c], gfn[c]) \in tdp_iter
    BY <1>0, <2>3, StartIter
  <2>5. iter' \in [Cpu -> tdp_iter] /\ gfn' \in [Cpu -> Gfn \cup {NONE}]
    <3>1. gfn' \in [Cpu -> Gfn \cup {NONE}]
      BY <1>0, <2>1 DEF TypeOK, Answer
    <3>2. PICK it \in tdp_iter : iter' = [iter EXCEPT ![c] = it]
      BY <2>1, <2>4, NoIterType DEF Answer
    <3>3. QED BY <1>0, <3>1, <3>2 DEF TypeOK
  <2>6. QED BY <1>0, <1>7, <2>1, <2>2, <2>5 DEF kvm_tdp_mmu_page_fault, TypeOK, Answer
<1>8. CASE tdp_mmu_map_handle_target_level(c)
  <2>1. CASE sptep_to_sp(iter[c].sptep) # NONE
    <3>1. /\ Answer(c)
          /\ UNCHANGED <<memory, list, n_max_mmu_pages, root, nobjs, new, entries, machine>>
      BY <1>8, <2>1 DEF tdp_mmu_map_handle_target_level
    <3>2. QED BY <1>0, <3>1, NoIterType DEF Answer, TypeOK
  <2>2. CASE sptep_to_sp(iter[c].sptep) = NONE
    BY <1>0, <1>8, <2>2 DEF tdp_mmu_map_handle_target_level, Stop, TypeOK
  <2>3. QED BY <2>1, <2>2
<1>9. CASE kvm_tdp_mmu_map(c)
  <2>1. CASE InRange(tdp_iter_next(iter[c]), gfn[c])
    <3>1. /\ pc[c] \in {"map", "next"}
          /\ iter' = [iter EXCEPT ![c] = tdp_iter_next(iter[c])]
          /\ gfn' = gfn /\ Goto(c, "map")
          /\ UNCHANGED <<memory, list, n_max_mmu_pages, root, nobjs, new, entries, machine>>
      BY <1>9, <2>1 DEF kvm_tdp_mmu_map
    <3>2. iter'[c] = tdp_iter_next(iter[c])
      BY <1>0, <3>1 DEF TypeOK
    <3>3. iter'[c] \in tdp_iter
      BY <1>0, <2>1, <3>1, <3>2, DownOnPath DEF At, ControlAt, WalkAt, Walking, IndInv
    <3>4. QED BY <1>0, <3>1, <3>2, <3>3 DEF TypeOK
  <2>2. CASE ~InRange(tdp_iter_next(iter[c]), gfn[c])
    BY <1>0, <1>9, <2>2, NoIterType DEF kvm_tdp_mmu_map, Answer, TypeOK
  <2>3. QED BY <2>1, <2>2
<1>10. CASE handle_ept_misconfig(c)
  BY <1>0, <1>10 DEF handle_ept_misconfig, TypeOK
<1>11. CASE \E g \in Gfn, present, write \in BOOLEAN :
              kvm_mmu_do_page_fault(c, g, present, write)
  <2>1. PICK g \in Gfn, present \in BOOLEAN, write \in BOOLEAN :
          kvm_mmu_do_page_fault(c, g, present, write)
    BY <1>11
  <2>2. root[c] \in Page
    BY <1>0, <2>1 DEF kvm_mmu_do_page_fault, At, ControlAt
  <2>3. tdp_iter_start(root[c], g) \in tdp_iter
    BY <1>0, <2>2, StartIter
  <2>4. iter' \in [Cpu -> tdp_iter] /\ gfn' \in [Cpu -> Gfn \cup {NONE}]
    BY <1>0, <2>1, <2>3 DEF kvm_mmu_do_page_fault, TypeOK
  <2>5. QED BY <1>0, <2>1, <2>4 DEF kvm_mmu_do_page_fault, TypeOK
<1>12. QED
  BY <1>1, <1>2, <1>3, <1>4, <1>5, <1>6, <1>7, <1>8, <1>9, <1>10, <1>11, MemoryType
     DEF StepBy, Step

\* A processor that has no walk and no new page needs its root only.
LEMMA IdleAt ==
  ASSUME IndInv, NEW c \in Cpu, StepBy(c), pc'[c] \in {"user", "guest", "topup"},
         iter'[c] = NoIter, root'[c] = root[c],
         pc'[c] # "user" => root[c] \in Page, pc'[c] = "topup" => gfn'[c] \in Gfn
  PROVE  At(c)'
<1>1. At(c) /\ TablesKept
  BY StepKeeps DEF IndInv
<1>2. RootAt(c)'
  BY <1>1, LevelAssumption DEF At, RootAt, TablesKept, Inserting
<1>3. QED BY <1>2 DEF At, ControlAt, WalkAt, LinkAt, CacheAt, Walking, Inserting

\* What holds of a processor holds after its own steps of kvm_mmu_load.
LEMMA LoadAt ==
  ASSUME IndInv, NEW c \in Cpu, StepBy(c), TypeOK',
         \/ kvm_mmu_load(c) \/ ReuseRoot(c) \/ AllocRoot(c)
         \/ InsertHeadList(c) \/ InsertBlink(c) \/ InsertFlink(c)
  PROVE  At(c)'
<1>0. TypeOK /\ At(c) /\ TablesKept
  BY StepKeeps DEF IndInv
<1>1. CASE kvm_mmu_load(c)
  <2>1. PICK filled \in mmu_topup_memory_caches(nobjs[c]) :
          /\ nobjs' = [nobjs EXCEPT ![c] = filled]
          /\ Goto(c, IF ToppedUp(filled) /\ mmu_alloc_special_roots = 0
                        THEN "roots" ELSE "user")
    BY <1>1 DEF kvm_mmu_load
  <2>2. filled \in [Cache -> 0 .. CacheCapacity]
    BY DEF mmu_topup_memory_caches
  <2>3. nobjs'[c] = filled /\ pc'[c] \in {"roots", "user"}
        /\ (pc'[c] = "roots" => ToppedUp(filled))
    BY <1>0, <2>1 DEF TypeOK
  <2>4. \A k \in Cache : pc'[c] = "roots" => nobjs'[c][k] >= RootLevel
    BY <2>2, <2>3, CacheAssumption, LevelAssumption DEF ToppedUp
  <2>5. iter'[c] = NoIter /\ root' = root /\ sp' = sp
    BY <1>0, <1>1 DEF kvm_mmu_load, At, ControlAt, Walking
  <2>6. QED
    BY <1>0, <2>3, <2>4, <2>5
       DEF At, ControlAt, RootAt, WalkAt, LinkAt, CacheAt, Walking, Inserting
<1>2. CASE ReuseRoot(c)
  <2> DEFINE q == flink[HEAD]
  <2>1. q \in Page /\ sp[q].level = RootLevel /\ pc[c] = "roots"
    BY <1>0, <1>2
       DEF ReuseRoot, TypeOK, root_role, kvm_calc_tdp_mmu_root_page_role, mmu_alloc_direct_roots
  <2>2. root'[c] = q /\ pc'[c] = "guest" /\ iter'[c] = NoIter
    BY <1>0, <1>2, <2>1 DEF ReuseRoot, TypeOK, At, ControlAt, Walking
  <2> HIDE DEF q
  <2>3. sp'[q].level = RootLevel
    BY <1>0, <2>1, LevelAssumption DEF TablesKept
  <2>4. QED
    BY <2>1, <2>2, <2>3
       DEF At, ControlAt, RootAt, WalkAt, LinkAt, CacheAt, Walking, Inserting
<1>3. CASE AllocRoot(c)
  <2>1. Fresh \in Page /\ new'[c] = Fresh
    BY <1>0, <1>3, AllocType DEF AllocRoot
  <2>2. sp'[Fresh].level = RootLevel
    BY <1>0, <1>3, <2>1
       DEF AllocRoot, TypeOK, tdp_mmu_init_sp, root_role, kvm_calc_tdp_mmu_root_page_role
  <2>3. pc'[c] = "insert" /\ root' = root /\ iter'[c] = NoIter
    BY <1>0, <1>3 DEF AllocRoot, mmu_alloc_direct_roots, TypeOK, At, ControlAt, Walking
  <2>4. RootAt(c)'
    BY <1>0, <2>1, <2>2, <2>3, LevelAssumption DEF At, RootAt, TablesKept
  <2>5. QED
    BY <2>1, <2>3, <2>4 DEF At, ControlAt, WalkAt, LinkAt, CacheAt, Walking, Inserting
<1>4. CASE InsertHeadList(c) \/ InsertBlink(c)
  <2>1. /\ pc[c] \in Inserting /\ pc'[c] \in Inserting
        /\ iter' = iter /\ new' = new /\ root' = root /\ sp' = sp
    BY <1>0, <1>4 DEF InsertHeadList, InsertBlink, Stop, TypeOK, Inserting
  <2>2. QED
    BY <1>0, <2>1 DEF At, ControlAt, RootAt, WalkAt, LinkAt, CacheAt, Walking, Inserting
<1>5. CASE InsertFlink(c)
  <2>1. pc[c] \in Inserting
    BY <1>5 DEF InsertFlink, Inserting
  <2>2. /\ pc'[c] = "guest" /\ root'[c] = new[c]
        /\ iter'[c] = NoIter /\ sp' = sp
    BY <1>0, <1>5, <2>1 DEF InsertFlink, TypeOK, At, ControlAt, Walking, Inserting
  <2>3. new[c] \in Page /\ sp[new[c]].level = RootLevel
    BY <1>0, <2>1 DEF At, ControlAt, RootAt
  <2>4. QED
    BY <2>2, <2>3 DEF At, ControlAt, RootAt, WalkAt, LinkAt, CacheAt, Walking, Inserting
<1>6. QED BY <1>1, <1>2, <1>3, <1>4, <1>5

\* A walk that starts or goes down, with enough pages in the caches.
LEMMA WalkingAt ==
  ASSUME IndInv, NEW c \in Cpu, StepBy(c), pc'[c] \in {"fast", "map"}, OnPath(c)',
         root[c] \in Page, root'[c] = root[c], gfn'[c] \in Gfn,
         \A k \in Cache : pc'[c] = "map" => nobjs'[c][k] >= iter'[c].level
  PROVE  At(c)'
<1>1. At(c) /\ TablesKept
  BY StepKeeps DEF IndInv
<1>2. RootAt(c)'
  BY <1>1, LevelAssumption DEF At, RootAt, TablesKept, Inserting
<1>3. QED BY <1>2 DEF At, ControlAt, WalkAt, LinkAt, CacheAt, Walking, Inserting

\* What holds of a processor holds after it has taken a page for a new table.
LEMMA ChildAt ==
  ASSUME IndInv, NEW c \in Cpu, StepBy(c), tdp_mmu_init_child_sp(c)
  PROVE  At(c)'
<1>0. TypeOK /\ At(c) /\ TablesKept /\ EntriesKept
  BY StepKeeps DEF IndInv
<1>1. CASE sptep_to_sp(iter[c].sptep) = NONE
  BY <1>1, StillAt DEF tdp_mmu_init_child_sp, Stop
<1>2. CASE sptep_to_sp(iter[c].sptep) # NONE
  <2> DEFINE it == iter[c]
             p == it.pt_path[it.level]
  <2>1. pc[c] = "map" /\ it.level > 1 /\ it.old_spte = NONE
    <3>1. /\ pc[c] = "map" /\ it.level > kvm_mmu_hugepage_adjust
          /\ ~is_shadow_present_pte(it.old_spte)
      BY DEF tdp_mmu_init_child_sp
    <3>2. kvm_mmu_hugepage_adjust = 1
      BY DEF kvm_mmu_hugepage_adjust, kvm_mmu_max_mapping_level, KVM_MAX_HUGEPAGE_LEVEL,
             PG_LEVEL_4K
    <3>3. QED BY <3>1, <3>2 DEF is_shadow_present_pte
  <2>2. OnPath(c) /\ gfn[c] \in Gfn /\ root[c] \in Page
    BY <1>0, <2>1 DEF At, ControlAt, WalkAt, Walking
  <2>3. /\ p \in Page /\ it.sptep = <<p, SPTE_INDEX(gfn[c], it.level)>>
        /\ sp[p].level = it.level /\ it.level \in Level
    BY <1>0, <2>2, WalkEntry
  <2>4. sptep_to_sp(it.sptep) = p
    BY <1>2, <2>3 DEF sptep_to_sp
  <2>5. /\ tdp_mmu_alloc_sp(c) /\ tdp_mmu_init_sp(Fresh, it.level - 1, it.gfn, it.sptep, 0)
        /\ Goto(c, "link")
        /\ UNCHANGED <<spt, tdp_mmu_pages, list, walk, n_max_mmu_pages, root, entries, machine>>
    BY <1>2, <2>3, <2>4 DEF tdp_mmu_init_child_sp
  <2> HIDE DEF it, p
  <2>6. /\ Fresh \in Page /\ new'[c] = Fresh
        /\ \A k \in Cache : nobjs'[c][k] >= nobjs[c][k] - 1
        /\ nobjs' \in [Cpu -> [Cache -> 0 .. CacheCapacity]]
    BY <1>0, <2>5, AllocType
  <2>7. sp'[Fresh] = [level |-> it.level - 1, gfn |-> it.gfn, ptep |-> it.sptep,
                      tdp_mmu_root_count |-> 0]
    BY <1>0, <2>5, <2>6 DEF tdp_mmu_init_sp, TypeOK
  <2>8. pc'[c] = "link" /\ iter'[c] = it /\ gfn'[c] = gfn[c] /\ root'[c] = root[c]
    BY <1>0, <2>5 DEF TypeOK, it
  <2>9. OnPath(c)'
    BY <1>0, <2>2, <2>8, StillOnPath DEF it
  <2>10. RootAt(c)'
    BY <1>0, <2>8, LevelAssumption DEF At, RootAt, TablesKept, Inserting
  <2>11. LinkAt(c)'
    BY <2>1, <2>6, <2>7, <2>8 DEF LinkAt
  <2>12. CacheAt(c)'
    <3>1. \A k \in Cache : nobjs[c][k] >= it.level /\ nobjs[c][k] \in Nat /\ nobjs'[c][k] \in Nat
      BY <1>0, <2>1, <2>6, CacheAssumption DEF At, CacheAt, TypeOK, it
    <3>2. it.level \in Nat
      BY <2>3 DEF Level
    <3>3. \A k \in Cache : nobjs'[c][k] >= it.level - 1
      BY <2>6, <3>1, <3>2
    <3>4. QED BY <2>8, <3>3 DEF CacheAt
  <2>13. QED
    BY <2>2, <2>6, <2>8, <2>9, <2>10, <2>11, <2>12 DEF At, ControlAt, WalkAt, Walking, Inserting
<1>3. QED BY <1>1, <1>2

\* What holds of a processor holds after its own steps of the fault handler.
LEMMA FaultAt ==
  ASSUME IndInv, NEW c \in Cpu, StepBy(c),
         \/ kvm_tdp_mmu_fast_pf_get_last_sptep(c) \/ fast_page_fault(c)
         \/ kvm_tdp_mmu_page_fault(c) \/ tdp_mmu_map_handle_target_level(c)
         \/ tdp_mmu_link_sp(c) \/ kvm_tdp_mmu_map(c) \/ handle_ept_misconfig(c)
         \/ \E g \in Gfn, present, write \in BOOLEAN :
              kvm_mmu_do_page_fault(c, g, present, write)
  PROVE  At(c)'
<1>0. TypeOK /\ At(c) /\ TablesKept /\ EntriesKept /\ TablesFormTrees /\ RootsAtZero
  BY StepKeeps DEF IndInv
<1>1. CASE kvm_tdp_mmu_fast_pf_get_last_sptep(c)
  <2>1. /\ pc[c] = "fast" /\ InRange(tdp_iter_next(iter[c]), gfn[c])
        /\ iter' = [iter EXCEPT ![c] = tdp_iter_next(iter[c])]
        /\ pc' = pc /\ gfn' = gfn /\ root' = root /\ sp' = sp /\ spt' = spt
    BY <1>1 DEF kvm_tdp_mmu_fast_pf_get_last_sptep
  <2>2. iter'[c] = tdp_iter_next(iter[c])
    BY <1>0, <2>1 DEF TypeOK
  <2>3. OnPath(c) /\ gfn[c] \in Gfn /\ root[c] \in Page
    BY <1>0, <2>1 DEF At, ControlAt, WalkAt, Walking
  <2>4. OnPath(c)'
    BY <1>0, <2>1, <2>2, <2>3, DownOnPath
  <2>5. QED BY <2>1, <2>3, <2>4, WalkingAt
<1>2. CASE fast_page_fault(c)
  <2>1. pc[c] = "fast" /\ pc'[c] = "topup" /\ iter'[c] = NoIter /\ root' = root /\ gfn' = gfn
    BY <1>0, <1>2 DEF fast_page_fault, TypeOK
  <2>2. QED BY <1>0, <2>1, IdleAt DEF At, ControlAt, Walking
<1>3. CASE kvm_tdp_mmu_page_fault(c)
  <2>1. PICK filled \in mmu_topup_memory_caches(nobjs[c]) :
          /\ nobjs' = [nobjs EXCEPT ![c] = filled]
          /\ \/ /\ ToppedUp(filled)
                /\ iter' = [iter EXCEPT ![c] = tdp_iter_start(root[c], gfn[c])]
                /\ gfn' = gfn
                /\ Goto(c, "map")
             \/ Answer(c)
    BY <1>3 DEF kvm_tdp_mmu_page_fault
  <2>2. filled \in [Cache -> 0 .. CacheCapacity]
    BY DEF mmu_topup_memory_caches
  <2>3. root[c] \in Page /\ gfn[c] \in Gfn /\ root' = root /\ sp' = sp /\ spt' = spt
    BY <1>0, <1>3 DEF kvm_tdp_mmu_page_fault, At, ControlAt
  <2>4. CASE Answer(c)
    <3>1. pc'[c] = "user" /\ iter'[c] = NoIter
      BY <1>0, <2>4 DEF Answer, TypeOK
    <3>2. QED BY <2>3, <3>1, IdleAt
  <2>5. CASE /\ ToppedUp(filled)
             /\ iter' = [iter EXCEPT ![c] = tdp_iter_start(root[c], gfn[c])]
             /\ gfn' = gfn
             /\ Goto(c, "map")
    <3>1. pc'[c] = "map" /\ iter'[c] = tdp_iter_start(root[c], gfn[c])
      BY <1>0, <2>5 DEF TypeOK
    <3>2. OnPath(c)'
      BY <1>0, <2>3, <2>5, <3>1, StartOnPath DEF At
    <3>3. iter'[c].level = RootLevel
      BY <1>0, <2>3, <3>1, StartIter
    <3>4. nobjs'[c] = filled
      BY <1>0, <2>1 DEF TypeOK
    <3>5. \A k \in Cache : nobjs'[c][k] >= RootLevel
      BY <2>2, <2>5, <3>4, CacheAssumption, LevelAssumption DEF ToppedUp
    <3>6. QED BY <2>3, <2>5, <3>1, <3>2, <3>3, <3>5, WalkingAt
  <2>6. QED BY <2>1, <2>4, <2>5
<1>4. CASE tdp_mmu_map_handle_target_level(c)
  <2>1. CASE sptep_to_sp(iter[c].sptep) # NONE
    <3>1. pc'[c] = "user" /\ iter'[c] = NoIter /\ root' = root
      BY <1>0, <1>4, <2>1 DEF tdp_mmu_map_handle_target_level, Answer, TypeOK
    <3>2. QED BY <3>1, IdleAt
  <2>2. CASE sptep_to_sp(iter[c].sptep) = NONE
    BY <1>4, <2>2, StillAt DEF tdp_mmu_map_handle_target_level, Stop
  <2>3. QED BY <2>1, <2>2
<1>5. CASE tdp_mmu_link_sp(c)
  <2>1. /\ pc[c] = "link" /\ pc'[c] = "next" /\ iter' = iter /\ gfn' = gfn /\ root' = root
        /\ nobjs' = nobjs
    BY <1>0, <1>5 DEF tdp_mmu_link_sp, TypeOK
  <2>2. OnPath(c) /\ gfn[c] \in Gfn /\ root[c] \in Page
    BY <1>0, <2>1 DEF At, ControlAt, WalkAt, Walking
  <2>3. OnPath(c)'
    BY <1>0, <2>1, <2>2, StillOnPath
  <2>4. RootAt(c)'
    BY <1>0, <2>1, LevelAssumption DEF At, RootAt, TablesKept, Inserting
  <2>5. CacheAt(c)'
    BY <1>0, <2>1 DEF At, CacheAt
  <2>6. QED
    BY <2>1, <2>2, <2>3, <2>4, <2>5 DEF At, ControlAt, WalkAt, LinkAt, Walking, Inserting
<1>6. CASE kvm_tdp_mmu_map(c)
  <2>0. pc[c] \in {"map", "next"}
    BY <1>6 DEF kvm_tdp_mmu_map
  <2>1. CASE InRange(tdp_iter_next(iter[c]), gfn[c])
    <3>1. /\ iter' = [iter EXCEPT ![c] = tdp_iter_next(iter[c])]
          /\ gfn' = gfn /\ pc'[c] = "map" /\ root' = root /\ sp' = sp /\ spt' = spt /\ nobjs' = nobjs
      BY <1>0, <1>6, <2>1 DEF kvm_tdp_mmu_map, TypeOK
    <3>2. iter'[c] = tdp_iter_next(iter[c])
      BY <1>0, <3>1 DEF TypeOK
    <3>3. OnPath(c) /\ gfn[c] \in Gfn /\ root[c] \in Page
      BY <1>0, <2>0 DEF At, ControlAt, WalkAt, Walking
    <3>4. OnPath(c)' /\ iter'[c].level = iter[c].level - 1
      BY <1>0, <2>1, <3>1, <3>2, <3>3, DownOnPath
    <3>5. iter[c].level \in Nat /\ \A k \in Cache : nobjs[c][k] \in Nat
      BY <1>0, CacheAssumption DEF TypeOK, tdp_iter, Level
    <3>6. \A k \in Cache : nobjs'[c][k] >= iter'[c].level
      BY <1>0, <2>0, <3>1, <3>4, <3>5 DEF At, CacheAt
    <3>7. QED BY <3>1, <3>3, <3>4, <3>6, WalkingAt
  <2>2. CASE ~InRange(tdp_iter_next(iter[c]), gfn[c])
    <3>1. pc'[c] = "user" /\ iter'[c] = NoIter /\ root' = root
      BY <1>0, <1>6, <2>2 DEF kvm_tdp_mmu_map, Answer, TypeOK
    <3>2. QED BY <3>1, IdleAt
  <2>3. QED BY <2>1, <2>2
<1>7. CASE handle_ept_misconfig(c)
  <2>1. pc'[c] = "user" /\ iter'[c] = NoIter /\ root' = root
    BY <1>0, <1>7 DEF handle_ept_misconfig, TypeOK, At, ControlAt, Walking
  <2>2. QED BY <2>1, IdleAt
<1>8. CASE \E g \in Gfn, present, write \in BOOLEAN :
             kvm_mmu_do_page_fault(c, g, present, write)
  <2>1. PICK g \in Gfn, present \in BOOLEAN, write \in BOOLEAN :
          kvm_mmu_do_page_fault(c, g, present, write)
    BY <1>8
  <2>2. /\ root[c] \in Page /\ iter[c] = NoIter /\ root' = root /\ sp' = sp /\ spt' = spt
        /\ gfn'[c] = g
    BY <1>0, <2>1 DEF kvm_mmu_do_page_fault, At, ControlAt, Walking, TypeOK
  <2>3. CASE page_fault_can_be_fast(present, write)
    <3>1. pc'[c] = "fast" /\ iter'[c] = tdp_iter_start(root[c], g)
      BY <1>0, <2>1, <2>3 DEF kvm_mmu_do_page_fault, TypeOK
    <3>2. OnPath(c)'
      BY <1>0, <2>2, <3>1, StartOnPath DEF At
    <3>3. QED BY <2>2, <3>1, <3>2, WalkingAt
  <2>4. CASE ~page_fault_can_be_fast(present, write)
    <3>1. pc'[c] = "topup" /\ iter'[c] = NoIter
      BY <1>0, <2>1, <2>2, <2>4 DEF kvm_mmu_do_page_fault, TypeOK
    <3>2. QED BY <2>2, <3>1, IdleAt
  <2>5. QED BY <2>3, <2>4
<1>9. QED BY <1>1, <1>2, <1>3, <1>4, <1>5, <1>6, <1>7, <1>8

\* The invariant of every processor after a step of one.
LEMMA StepAt ==
  ASSUME IndInv, NEW c \in Cpu, StepBy(c)
  PROVE  \A d \in Cpu : At(d)'
<1>1. ASSUME NEW d \in Cpu, d # c
      PROVE  At(d)'
  BY <1>1, StillAt, OthersStill DEF Others, IndInv
<1>2. At(c)'
  <2>1. CASE NoPagesAvailable(c) \/ FaultWithoutSlot(c)
    BY <2>1, StillAt DEF NoPagesAvailable, FaultWithoutSlot, Stop
  <2>2. QED BY <2>1, StepType, LoadAt, ChildAt, FaultAt DEF StepBy, Step
<1>3. QED BY <1>1, <1>2

\* The tables keep forming trees, below roots that start at frame 0.
LEMMA StepTrees ==
  ASSUME IndInv, NEW c \in Cpu, StepBy(c)
  PROVE  TablesFormTrees' /\ RootsAtZero'
<1>0. /\ TypeOK /\ At(c) /\ TablesKept /\ TablesFormTrees /\ RootsAtZero /\ TypeOK'
  BY StepKeeps, StepType DEF IndInv
<1>1. ASSUME spt' = spt
      PROVE  TablesFormTrees'
  <2> SUFFICES ASSUME NEW p \in Page, NEW i \in Index, spt[p][i] # NONE
               PROVE  LET child == sp'[spt[p][i]] IN
                      /\ child.ptep = <<p, i>>
                      /\ child.level = sp'[p].level - 1
                      /\ child.level > 0
                      /\ child.gfn = sp'[p].gfn + i * KVM_PAGES_PER_HPAGE(sp'[p].level)
    BY <1>1 DEF TablesFormTrees
  <2> DEFINE q == spt[p][i]
  <2>1. q \in Page
    BY <1>0 DEF TypeOK, Spte
  <2>2. /\ sp[q].ptep = <<p, i>> /\ sp[q].level = sp[p].level - 1 /\ sp[q].level > 0
        /\ sp[q].gfn = sp[p].gfn + i * KVM_PAGES_PER_HPAGE(sp[p].level)
    BY <1>0 DEF TablesFormTrees
  <2>3. sp[p].level > 0
    BY <1>0, <2>1, <2>2 DEF TypeOK, kvm_mmu_page
  <2>4. QED BY <1>0, <2>1, <2>2, <2>3 DEF TablesKept
<1>2. ASSUME sp' = sp
      PROVE  RootsAtZero'
  BY <1>0, <1>2 DEF RootsAtZero
<1>3. CASE sp' = sp /\ spt' = spt
  BY <1>1, <1>2, <1>3
<1>4. CASE ReuseRoot(c)
  <2>1. PICK q \in Page : sp' = [sp EXCEPT ![q].tdp_mmu_root_count = @ + 1]
    BY <1>0, <1>4 DEF ReuseRoot, kvm_tdp_mmu_get_root, TypeOK
  <2>2. \A p \in Page : sp'[p].level = sp[p].level /\ sp'[p].gfn = sp[p].gfn
    BY <1>0, <2>1 DEF TypeOK, kvm_mmu_page
  <2>3. RootsAtZero'
    BY <1>0, <2>2 DEF RootsAtZero
  <2>4. QED BY <1>1, <1>4, <2>3 DEF ReuseRoot
<1>5. CASE AllocRoot(c)
  <2>1. Fresh \in Page
    BY <1>0, <1>5, AllocType DEF AllocRoot
  <2>2. sp'[Fresh].gfn = 0 /\ \A p \in Page : p # Fresh => sp'[p] = sp[p]
    BY <1>0, <1>5, <2>1 DEF AllocRoot, tdp_mmu_init_sp, TypeOK
  <2>3. RootsAtZero'
    BY <1>0, <2>2 DEF RootsAtZero
  <2>4. QED BY <1>1, <1>5, <2>3 DEF AllocRoot
<1>6. CASE tdp_mmu_init_child_sp(c)
  <2>1. spt' = spt
    BY <1>6 DEF tdp_mmu_init_child_sp, Stop
  <2>2. CASE pc'[c] # "link"
    BY <1>1, <1>2, <1>6, <2>1, <2>2, <1>0 DEF tdp_mmu_init_child_sp, Stop, TypeOK
  <2>3. CASE pc'[c] = "link"
    <3>1. pc[c] = "map"
      BY <1>6 DEF tdp_mmu_init_child_sp
    <3>2. PICK r : tdp_mmu_alloc_sp(c) /\ sp' = [sp EXCEPT ![Fresh] = r]
      BY <1>6, <2>3, <3>1 DEF tdp_mmu_init_child_sp, Stop, tdp_mmu_init_sp
    <3>3. Fresh \in Page /\ new'[c] = Fresh
      BY <1>0, <3>2, AllocType
    <3>4. \A p \in Page : p # Fresh => sp'[p] = sp[p]
      BY <1>0, <3>2 DEF TypeOK
    <3>5. sp'[Fresh].level = iter'[c].level - 1 /\ iter'[c].level \in Level
      BY <1>0, <2>3, <3>3, StepAt DEF At, LinkAt, TypeOK, tdp_iter
    <3>6. sp'[Fresh].level # RootLevel
      BY <3>5, LevelAssumption DEF Level
    <3>7. RootsAtZero'
      BY <1>0, <3>4, <3>6 DEF RootsAtZero
    <3>8. QED BY <1>1, <2>1, <3>7
  <2>4. QED BY <2>2, <2>3
<1>7. CASE tdp_mmu_link_sp(c)
  <2>1. sp' = sp /\ pc[c] = "link"
    BY <1>7 DEF tdp_mmu_link_sp
  <2> DEFINE p == iter[c].pt_path[iter[c].level]
             i == SPTE_INDEX(gfn[c], iter[c].level)
  <2>2. /\ p \in Page /\ i \in Index /\ new[c] \in Page
        /\ spt' = IF spt[p][i] = NONE THEN [spt EXCEPT ![p][i] = new[c]] ELSE spt
    BY <1>0, <1>7, LinkWrites
  <2>3. /\ iter[c].sptep = <<p, i>> /\ iter[c].level \in Level /\ sp[p].level = iter[c].level
        /\ iter[c].gfn = sp[p].gfn + i * KVM_PAGES_PER_HPAGE(iter[c].level)
    BY <1>0, <2>1, WalkEntry DEF At, ControlAt, WalkAt, Walking
  <2>4. /\ iter[c].level > 1 /\ sp[new[c]].level = iter[c].level - 1
        /\ sp[new[c]].gfn = iter[c].gfn /\ sp[new[c]].ptep = iter[c].sptep
    BY <1>0, <2>1 DEF At, LinkAt
  <2> HIDE DEF p, i
  <2>5. /\ sp[new[c]].ptep = <<p, i>> /\ sp[new[c]].level = sp[p].level - 1
        /\ sp[new[c]].level > 0
        /\ sp[new[c]].gfn = sp[p].gfn + i * KVM_PAGES_PER_HPAGE(sp[p].level)
    BY <2>3, <2>4 DEF Level
  <2>6. CASE spt' = spt
    BY <1>1, <1>2, <2>1, <2>6
  <2>7. CASE spt' = [spt EXCEPT ![p][i] = new[c]]
    <3>1. ASSUME NEW r \in Page, NEW j \in Index
          PROVE  spt'[r][j] = IF r = p /\ j = i THEN new[c] ELSE spt[r][j]
      BY <1>0, <2>2, <2>7 DEF TypeOK
    <3>2. TablesFormTrees'
      BY <1>0, <2>1, <2>5, <3>1 DEF TablesFormTrees
    <3>3. QED BY <1>2, <2>1, <3>2
  <2>8. QED BY <2>2, <2>6, <2>7
<1>8. QED BY <1>3, <1>4, <1>5, <1>6, <1>7, MemoryStill

\* How the holders of a root and its references may change together.
LEMMA ReferencesKept ==
  ASSUME TypeOK, TypeOK', NEW c \in Cpu, NEW p \in Page,
         Holders(p) # {} =>
           sp[p].tdp_mmu_root_count >= 1 + Cardinality(Holders(p)),
         \/ Holders(p)' = {}
         \/ /\ Holders(p)' \subseteq Holders(p)
            /\ sp'[p].tdp_mmu_root_count = sp[p].tdp_mmu_root_count
         \/ /\ Holders(p)' \subseteq Holders(p) \cup {c}
            /\ sp[p].tdp_mmu_root_count # 0
            /\ sp'[p].tdp_mmu_root_count = sp[p].tdp_mmu_root_count + 1
         \/ /\ Holders(p)' \subseteq {c}
            /\ sp'[p].tdp_mmu_root_count = 2
  PROVE  Holders(p)' # {} =>
           sp'[p].tdp_mmu_root_count >= 1 + Cardinality(Holders(p)')
<1> DEFINE H == Holders(p)
           K == Holders(p)'
           n == sp[p].tdp_mmu_root_count
           m == sp'[p].tdp_mmu_root_count
<1>1. n \in Nat /\ m \in Nat
  BY DEF TypeOK, kvm_mmu_page
<1>2. IsFiniteSet(H) /\ IsFiniteSet(H \cup {c}) /\ IsFiniteSet({c})
  <2>1. H \in SUBSET Cpu
    BY DEF Holders
  <2>2. QED BY <2>1, ProcessorAssumption, FS_Subset, FS_AddElement, FS_Singleton
<1>3. /\ Cardinality(H) \in Nat
      /\ Cardinality(H \cup {c}) \in Nat /\ Cardinality(H \cup {c}) <= Cardinality(H) + 1
      /\ Cardinality({c}) = 1
      /\ (H = {} => Cardinality(H) = 0)
  <2> HIDE DEF H
  <2>1. Cardinality(H) \in Nat /\ Cardinality({c}) = 1 /\ (H = {} => Cardinality(H) = 0)
    BY <1>2, FS_CardinalityType, FS_Singleton, FS_EmptySet
  <2>2. Cardinality(H \cup {c}) = IF c \in H THEN Cardinality(H) ELSE Cardinality(H) + 1
    BY <1>2, FS_AddElement
  <2>3. QED BY <2>1, <2>2
<1> HIDE DEF H, K, n, m
<1>4. CASE K \subseteq H /\ m = n
  <2>1. Cardinality(K) \in Nat /\ Cardinality(K) <= Cardinality(H)
    BY <1>2, <1>4, FS_Subset, FS_CardinalityType
  <2>2. QED BY <1>1, <1>3, <1>4, <2>1 DEF H, K, n, m
<1>5. CASE K \subseteq H \cup {c} /\ n # 0 /\ m = n + 1
  <2>1. Cardinality(K) \in Nat /\ Cardinality(K) <= Cardinality(H \cup {c})
    BY <1>2, <1>5, FS_Subset, FS_CardinalityType
  <2>2. n >= 1 + Cardinality(H) \/ Cardinality(H) = 0
    BY <1>3 DEF H, n
  <2>3. m >= 1 + Cardinality(K)
    BY <1>1, <1>3, <1>5, <2>1, <2>2
  <2>4. QED BY <2>3 DEF K, m
<1>6. CASE K \subseteq {c} /\ m = 2
  <2>1. Cardinality(K) \in Nat /\ Cardinality(K) <= Cardinality({c})
    BY <1>2, <1>6, FS_Subset, FS_CardinalityType
  <2>2. m >= 1 + Cardinality(K)
    BY <1>3, <1>6, <2>1
  <2>3. QED BY <2>2 DEF K, m
<1>7. QED BY <1>4, <1>5, <1>6 DEF H, K, n, m

\* Each step that makes a processor hold a root adds a reference to it.
LEMMA StepReferences ==
  ASSUME IndInv, NEW c \in Cpu, StepBy(c)
  PROVE  ReferenceInv'
<1>0. TypeOK /\ At(c) /\ ReferenceInv /\ TypeOK' /\ Others(c)
  BY StepType, OthersStill DEF IndInv
<1>1. \A p \in Page : Holders(p)' \subseteq Holders(p) \cup {c}
  BY <1>0 DEF Holders, Others
<1>2. \A p \in Page : sp[p].level = 0 => Holders(p) = {}
  BY LevelAssumption DEF IndInv, At, RootAt, Holders
<1>3. CASE ReuseRoot(c)
  <2> DEFINE q == flink[HEAD]
  <2>1. q \in Page
    BY <1>0, <1>3 DEF ReuseRoot, TypeOK
  <2>2. /\ pc'[c] = "guest" /\ root'[c] = q
        /\ sp[q].tdp_mmu_root_count # 0
        /\ sp' = [sp EXCEPT ![q].tdp_mmu_root_count = @ + 1]
    BY <1>0, <1>3 DEF ReuseRoot, kvm_tdp_mmu_get_root, TypeOK
  <2> HIDE DEF q
  <2>3. ASSUME NEW p \in Page, p # q
        PROVE  Holders(p)' \subseteq Holders(p) /\ sp'[p] = sp[p]
    BY <1>0, <1>1, <2>2, <2>3 DEF Holders, Inserting, TypeOK
  <2>4. sp'[q].tdp_mmu_root_count = sp[q].tdp_mmu_root_count + 1
    BY <1>0, <2>1, <2>2 DEF TypeOK, kvm_mmu_page
  <2>5. ASSUME NEW p \in Page
        PROVE  Holders(p)' # {} =>
                 sp'[p].tdp_mmu_root_count >= 1 + Cardinality(Holders(p)')
    BY <1>0, <1>1, <2>2, <2>3, <2>4, ReferencesKept DEF ReferenceInv
  <2>6. QED BY <2>5 DEF ReferenceInv
<1>4. CASE AllocRoot(c)
  <2>1. PICK q \in Page : q = Fresh /\ sp[q].level = 0 /\ new'[c] = q
    BY <1>0, <1>4, AllocType DEF AllocRoot
  <2>2. /\ root' = root /\ sp'[q].tdp_mmu_root_count = 2
        /\ \A p \in Page : p # q => sp'[p] = sp[p]
    BY <1>0, <1>4, <2>1 DEF AllocRoot, tdp_mmu_init_sp, TypeOK
  <2>3. Holders(q)' \subseteq {c}
    BY <1>1, <1>2, <2>1
  <2>4. ASSUME NEW p \in Page, p # q
        PROVE  Holders(p)' \subseteq Holders(p)
    BY <1>1, <2>1, <2>2, <2>4 DEF Holders
  <2>5. ASSUME NEW p \in Page
        PROVE  Holders(p)' # {} =>
                 sp'[p].tdp_mmu_root_count >= 1 + Cardinality(Holders(p)')
    BY <1>0, <2>2, <2>3, <2>4, ReferencesKept DEF ReferenceInv
  <2>6. QED BY <2>5 DEF ReferenceInv
<1>5. CASE ~ReuseRoot(c) /\ ~AllocRoot(c)
  <2>1. \A p \in Page : Holders(p)' \subseteq Holders(p)
    <3>1. CASE InsertFlink(c)
      <4>1. pc[c] \in Inserting /\ root'[c] = new[c] /\ pc'[c] \notin Inserting
        BY <1>0, <3>1 DEF InsertFlink, Inserting, TypeOK
      <4>2. QED BY <1>1, <4>1 DEF Holders
    <3>2. CASE ~InsertFlink(c)
      <4>1. /\ root' = root
            /\ pc'[c] \in Inserting => pc[c] \in Inserting /\ new' = new
        BY <1>0, <1>5, <3>2
           DEF StepBy, Step, kvm_mmu_load, NoPagesAvailable, FaultWithoutSlot, Stop, InsertHeadList,
               InsertBlink, kvm_tdp_mmu_fast_pf_get_last_sptep, fast_page_fault,
               kvm_tdp_mmu_page_fault, tdp_mmu_map_handle_target_level, kvm_tdp_mmu_map, Answer,
               handle_ept_misconfig, kvm_mmu_do_page_fault, tdp_mmu_init_child_sp, tdp_mmu_link_sp,
               Inserting, TypeOK
      <4>2. QED BY <1>1, <4>1 DEF Holders
    <3>3. QED BY <3>1, <3>2
  <2>2. \A p \in Page : sp[p].level > 0 => sp'[p] = sp[p]
    <3>1. CASE tdp_mmu_init_child_sp(c)
      <4>1. sp' = sp \/ (Free # {} /\ \E r : sp' = [sp EXCEPT ![Fresh] = r])
        BY <3>1 DEF tdp_mmu_init_child_sp, Stop, tdp_mmu_alloc_sp, tdp_mmu_init_sp
      <4>2. Free # {} => Fresh \in Page /\ sp[Fresh].level = 0
        BY FreshFree
      <4>3. CASE Free # {} /\ \E r : sp' = [sp EXCEPT ![Fresh] = r]
        <5>1. PICK r : sp' = [sp EXCEPT ![Fresh] = r]
          BY <4>3
        <5>2. \A p \in Page : p # Fresh => sp'[p] = sp[p]
          BY <1>0, <5>1 DEF TypeOK
        <5>3. QED BY <4>2, <4>3, <5>2
      <4>4. QED BY <4>1, <4>3
    <3>2. CASE ~tdp_mmu_init_child_sp(c)
      BY <1>5, <3>2, MemoryStill DEF tdp_mmu_link_sp
    <3>3. QED BY <3>1, <3>2
  <2>3. ASSUME NEW p \in Page
        PROVE  Holders(p)' # {} =>
                 sp'[p].tdp_mmu_root_count >= 1 + Cardinality(Holders(p)')
    <3>1. CASE sp[p].level = 0
      BY <1>2, <2>1, <3>1
    <3>2. CASE sp[p].level > 0
      BY <1>0, <2>1, <2>2, <3>2, ReferencesKept DEF ReferenceInv
    <3>3. QED BY <1>0, <3>1, <3>2 DEF TypeOK, kvm_mmu_page
  <2>4. QED BY <2>3 DEF ReferenceInv
<1>6. QED BY <1>3, <1>4, <1>5

-----------------------------------------------------------------------------
(***************************************************************************)
(* The theorems.                                                           *)
(***************************************************************************)

\* No table is allocated and no processor is in the MMU at first.
LEMMA InitInv ==
  ASSUME Init
  PROVE  IndInv
<1>1. TypeOK
  BY NoIterType, CacheAssumption, BoundAssumption, LevelAssumption
     DEF Init, TypeOK, Spte, kvm_mmu_page, __kvm_mmu_create
<1>2. TablesFormTrees /\ RootsAtZero
  BY LevelAssumption DEF Init, TablesFormTrees, RootsAtZero
<1>3. \A c \in Cpu : At(c)
  BY PointerAssumption
     DEF Init, At, ControlAt, RootAt, WalkAt, LinkAt, CacheAt, Walking, Inserting, __kvm_mmu_create
<1>4. ReferenceInv
  BY PointerAssumption DEF Init, ReferenceInv, Holders, Inserting, __kvm_mmu_create
<1>5. QED BY <1>1, <1>2, <1>3, <1>4 DEF IndInv

\* The invariant speaks of these variables only.
LEMMA StutterInv ==
  ASSUME IndInv, n_max_mmu_pages' \in {0, KVM_MIN_ALLOC_MMU_PAGES},
         UNCHANGED <<memory, list, walk, pc, root, nobjs, new, entries, machine>>
  PROVE  IndInv'
<1>1. TypeOK'
  BY DEF IndInv, TypeOK
<1>2. TablesFormTrees' /\ RootsAtZero'
  BY DEF IndInv, TablesFormTrees, RootsAtZero
<1>3. \A c \in Cpu : At(c)'
  BY DEF IndInv, At, ControlAt, RootAt, WalkAt, LinkAt, CacheAt, OnPath
<1>4. ReferenceInv'
  BY DEF IndInv, ReferenceInv, Holders
<1>5. QED BY <1>1, <1>2, <1>3, <1>4 DEF IndInv

\* The inductive invariant holds in every state.
THEOREM Invariance == Spec => []IndInv
<1>1. Init => IndInv
  BY InitInv
<1>2. IndInv /\ [Next]_vars => IndInv'
  <2> SUFFICES ASSUME IndInv, [Next]_vars
               PROVE  IndInv'
    OBVIOUS
  <2>1. CASE UNCHANGED vars
    BY <2>1, StutterInv DEF vars, IndInv, TypeOK
  <2>2. CASE kvm_mmu_change_mmu_pages
    BY <2>2, StutterInv DEF kvm_mmu_change_mmu_pages
  <2>3. CASE \E c \in Cpu : StepBy(c)
    BY <2>3, StepType, StepAt, StepTrees, StepReferences DEF IndInv
  <2>4. QED BY <2>1, <2>2, <2>3, NextCases
<1>3. QED BY <1>1, <1>2, PTL DEF Spec

\* Every variable of the TDP MMU keeps its type, whatever the processors do.
THEOREM TypeCorrect == Spec => []TypeOK
<1>1. IndInv => TypeOK
  BY DEF IndInv
<1>2. QED BY <1>1, Invariance, PTL

\* tdp_iter.c:77-93: a walk only ever stands in tables that hang below its root.
THEOREM WalkCorrect == Spec => []WalkOnPath
<1>1. IndInv => WalkOnPath
  <2> SUFFICES ASSUME IndInv, NEW c \in Cpu, iter[c].valid
               PROVE  /\ iter[c].pt_path[RootLevel] = root[c]
                      /\ \A l \in iter[c].level .. RootLevel - 1 :
                           iter[c].pt_path[l] =
                             spt[iter[c].pt_path[l + 1]]
                                [SPTE_INDEX(iter[c].next_last_level_gfn, l + 1)]
                      /\ iter[c].sptep = <<iter[c].pt_path[iter[c].level],
                                           SPTE_INDEX(iter[c].gfn, iter[c].level)>>
    BY DEF WalkOnPath
  <2>1. pc[c] \in Walking
    BY DEF IndInv, At, ControlAt, NoIter
  <2>2. OnPath(c)
    BY <2>1 DEF IndInv, At, WalkAt
  <2>3. QED BY <2>2 DEF OnPath
<1>2. QED BY <1>1, Invariance, PTL

\* tdp_mmu_init_child_sp and tdp_mmu_link_sp: the tables form trees.
THEOREM TreesCorrect == Spec => []TablesFormTrees
<1>1. IndInv => TablesFormTrees
  BY DEF IndInv
<1>2. QED BY <1>1, Invariance, PTL

\* mmu_topup_memory_caches: no page is taken from an empty cache.
THEOREM CacheCorrect == Spec => []CacheSuffices
<1>1. IndInv => CacheSuffices
  <2> SUFFICES ASSUME IndInv, NEW c \in Cpu, NEW k \in Cache
               PROVE  nobjs[c][k] >=
                        IF pc[c] = "roots" THEN 1
                        ELSE IF pc[c] \in {"map", "next"} /\ iter[c].valid
                          THEN iter[c].level - 1
                        ELSE IF pc[c] = "link" THEN iter[c].level - 2
                        ELSE 0
    BY DEF CacheSuffices
  <2>1. nobjs[c][k] \in Nat /\ iter[c].level \in Nat
    BY CacheAssumption DEF IndInv, TypeOK, tdp_iter, Level
  <2>2. /\ pc[c] = "roots" => nobjs[c][k] >= RootLevel
        /\ pc[c] = "map" => nobjs[c][k] >= iter[c].level
        /\ pc[c] \in {"link", "next"} => nobjs[c][k] >= iter[c].level - 1
    BY DEF IndInv, At, CacheAt
  <2>3. QED BY <2>1, <2>2, LevelAssumption
<1>2. QED BY <1>1, Invariance, PTL

\* tdp_mmu.c:69-75: a root has a reference for every vCPU that uses it and one
\* for the TDP MMU.
THEOREM ReferencesCorrect == Spec => []RootsReferenced
<1>1. IndInv => RootsReferenced
  <2> SUFFICES ASSUME IndInv, NEW c \in Cpu, root[c] # NONE
               PROVE  sp[root[c]].tdp_mmu_root_count >=
                        1 + Cardinality({d \in Cpu : root[d] = root[c]})
    BY DEF RootsReferenced
  <2> DEFINE p == root[c]
             U == {d \in Cpu : root[d] = p}
             H == Holders(p)
             n == sp[p].tdp_mmu_root_count
  <2>1. p \in Page /\ n \in Nat
    BY DEF IndInv, TypeOK, Spte, kvm_mmu_page
  <2>2. c \in H /\ U \in SUBSET H /\ H \in SUBSET Cpu
    BY DEF Holders
  <2>3. n >= 1 + Cardinality(H)
    BY <2>1, <2>2 DEF IndInv, ReferenceInv
  <2> HIDE DEF p, U, H, n
  <2>4. IsFiniteSet(H)
    BY <2>2, ProcessorAssumption, FS_Subset
  <2>5. IsFiniteSet(U) /\ Cardinality(U) <= Cardinality(H)
    BY <2>2, <2>4, FS_Subset
  <2>6. Cardinality(U) \in Nat /\ Cardinality(H) \in Nat
    BY <2>4, <2>5, FS_CardinalityType
  <2>7. n >= 1 + Cardinality(U)
    BY <2>1, <2>3, <2>5, <2>6
  <2>8. QED BY <2>7 DEF p, U, n
<1>2. QED BY <1>1, Invariance, PTL

\* tdp_mmu_set_spte_atomic: processors that fault on the same frame never
\* replace each other's tables.
THEOREM PresentCorrect == Spec => PresentStays
<1> DEFINE Kept == \A p \in Page, i \in Index :
                     spt[p][i] # NONE => spt'[p][i] = spt[p][i]
<1>1. IndInv /\ [Next]_vars => [Kept]_vars
  <2> SUFFICES ASSUME IndInv, Next
               PROVE  Kept
    OBVIOUS
  <2>1. CASE kvm_mmu_change_mmu_pages
    BY <2>1 DEF kvm_mmu_change_mmu_pages
  <2>2. CASE \E c \in Cpu : StepBy(c)
    BY <2>2, StepKeeps DEF EntriesKept
  <2>3. QED BY <2>1, <2>2, NextCases
<1>2. QED BY <1>1, Invariance, PTL DEF Spec, PresentStays

=============================================================================
