----------------------------- MODULE PageMap_proofs -----------------------------
(***************************************************************************)
(* The memory of the kernel is sound for any number of envs, pages and     *)
(* addresses: no page is given out twice, page tables are private, the TLB *)
(* is never stale and no assertion of pmap.c fails, as long as no          *)
(* reference count wraps.                                                  *)
(***************************************************************************)
EXTENDS PageMap, FiniteSetTheorems, TLAPS

-----------------------------------------------------------------------------
(* Counting.                                                               *)

\* Two sets that differ in one element at most.
LEMMA OneElement ==
  ASSUME NEW S, NEW T, NEW m, IsFiniteSet(S), S \ {m} = T \ {m}
  PROVE  /\ IsFiniteSet(T) /\ Cardinality(S) \in Nat /\ Cardinality(T) \in Nat
         /\ Cardinality(T) = Cardinality(S) - (IF m \in S THEN 1 ELSE 0) + (IF m \in T THEN 1 ELSE 0)
<1>1. IsFiniteSet(S \cup {m}) /\ T \in SUBSET (S \cup {m}) BY FS_AddElement
<1>2. IsFiniteSet(T) BY <1>1, FS_Subset
<1>3. Cardinality(S) \in Nat /\ Cardinality(T) \in Nat BY <1>2, FS_CardinalityType
<1>4. Cardinality(S \ {m}) = IF m \in S THEN Cardinality(S) - 1 ELSE Cardinality(S)
  BY FS_RemoveElement
<1>5. Cardinality(T \ {m}) = IF m \in T THEN Cardinality(T) - 1 ELSE Cardinality(T)
  BY <1>2, FS_RemoveElement
<1> QED BY <1>2, <1>3, <1>4, <1>5

\* There are finitely many page directory entries.
LEMMA DirFinite == IsFiniteSet(Dir)
<1> DEFINE f == [v \in VA |-> PDX[v]]
<1>1. f \in Surjection(VA, Dir) BY DEF Surjection, Dir
<1> QED BY <1>1, PageMapAssumption, FS_Surjection

\* The pointers of the live envs to a page can be counted.
LEMMA Counted ==
  ASSUME TypeOK, NEW p
  PROVE  /\ IsFiniteSet(MapsTo(p)) /\ IsFiniteSet(TablesAt(p)) /\ IsFiniteSet(DirsAt(p))
         /\ Cardinality(MapsTo(p)) \in Nat /\ Cardinality(TablesAt(p)) \in Nat
         /\ Cardinality(DirsAt(p)) \in Nat
<1>1. IsFiniteSet(live) BY PageMapAssumption, FS_Subset DEF TypeOK
<1>2. IsFiniteSet(live \X VA) BY <1>1, PageMapAssumption, FS_Product
<1>3. IsFiniteSet(live \X Dir) BY <1>1, DirFinite, FS_Product
<1>4. MapsTo(p) \in SUBSET (live \X VA) BY DEF MapsTo
<1>5. TablesAt(p) \in SUBSET (live \X Dir) BY DEF TablesAt
<1>6. DirsAt(p) \in SUBSET live BY DEF DirsAt
<1>7. IsFiniteSet(MapsTo(p)) BY <1>2, <1>4, FS_Subset
<1>8. IsFiniteSet(TablesAt(p)) BY <1>3, <1>5, FS_Subset
<1>9. IsFiniteSet(DirsAt(p)) BY <1>1, <1>6, FS_Subset
<1> QED BY <1>7, <1>8, <1>9, FS_CardinalityType

\* One entry of a page table changes: the pointers to the old and to the new page.
LEMMA SetPte ==
  ASSUME TypeOK, NEW e \in live, NEW v \in VA, NEW x \in Mapping \cup {NULL},
         \A f \in Env, u \in VA : pte'[f][u] = IF f = e /\ u = v THEN x ELSE pte[f][u],
         live' = live, NEW q \in Page
  PROVE  Cardinality(MapsTo(q)') = Cardinality(MapsTo(q))
            - (IF pte[e][v] # NULL /\ pte[e][v].page = q THEN 1 ELSE 0)
            + (IF x # NULL /\ x.page = q THEN 1 ELSE 0)
<1> DEFINE m == <<e, v>>
<1>1. e \in Env BY DEF TypeOK
<1>2. \A f \in Env, u \in VA : pte'[f][u] = IF f = e /\ u = v THEN x ELSE pte[f][u]
  OBVIOUS
<1>3. live \subseteq Env BY DEF TypeOK
<1>4. MapsTo(q)' = {k \in live \X VA : pte'[k[1]][k[2]] # NULL /\ pte'[k[1]][k[2]].page = q}
  BY DEF MapsTo, Mapped, page_lookup
<1>5. MapsTo(q) = {k \in live \X VA : pte[k[1]][k[2]] # NULL /\ pte[k[1]][k[2]].page = q}
  BY DEF MapsTo, Mapped, page_lookup
<1>6. ASSUME NEW k \in live \X VA, k # m PROVE k \in MapsTo(q) <=> k \in MapsTo(q)'
  <2>1. k[1] \in Env /\ k[2] \in VA /\ ~(k[1] = e /\ k[2] = v) BY <1>3, <1>6
  <2>2. pte'[k[1]][k[2]] = pte[k[1]][k[2]] BY <2>1, <1>2
  <2> QED BY <1>4, <1>5, <2>2
<1>7. MapsTo(q) \ {m} = MapsTo(q)' \ {m} BY <1>4, <1>5, <1>6
<1>8. m \in live \X VA /\ m[1] = e /\ m[2] = v OBVIOUS
<1>9. m \in MapsTo(q) <=> pte[e][v] # NULL /\ pte[e][v].page = q BY <1>5, <1>8
<1>10. m \in MapsTo(q)' <=> x # NULL /\ x.page = q BY <1>1, <1>2, <1>4, <1>8
<1>11. IsFiniteSet(MapsTo(q)) BY Counted
<1> HIDE DEF m
<1> QED BY <1>7, <1>9, <1>10, <1>11, OneElement

\* A page table is added.
LEMMA SetPde ==
  ASSUME TypeOK, NEW e \in live, NEW d \in Dir, pde[e][d] = NULL, NEW t \in Page,
         \A f \in Env, u \in Dir : pde'[f][u] = IF f = e /\ u = d THEN t ELSE pde[f][u],
         live' = live, NEW q \in Page
  PROVE  Cardinality(TablesAt(q)') = Cardinality(TablesAt(q)) + (IF t = q THEN 1 ELSE 0)
<1> DEFINE m == <<e, d>>
<1>1. e \in Env /\ live \subseteq Env BY DEF TypeOK
<1>2. \A f \in Env, u \in Dir : pde'[f][u] = IF f = e /\ u = d THEN t ELSE pde[f][u]
  OBVIOUS
<1>4. TablesAt(q)' = {k \in live \X Dir : pde'[k[1]][k[2]] = q} BY DEF TablesAt
<1>5. TablesAt(q) = {k \in live \X Dir : pde[k[1]][k[2]] = q} BY DEF TablesAt
<1>6. ASSUME NEW k \in live \X Dir, k # m PROVE k \in TablesAt(q) <=> k \in TablesAt(q)'
  <2>1. k[1] \in Env /\ k[2] \in Dir /\ ~(k[1] = e /\ k[2] = d) BY <1>1, <1>6
  <2>2. pde'[k[1]][k[2]] = pde[k[1]][k[2]] BY <2>1, <1>2
  <2> QED BY <1>4, <1>5, <2>2
<1>7. TablesAt(q) \ {m} = TablesAt(q)' \ {m} BY <1>4, <1>5, <1>6
<1>8. m \in live \X Dir /\ m[1] = e /\ m[2] = d OBVIOUS
<1>9. m \notin TablesAt(q) BY <1>5, <1>8, PageMapAssumption
<1>10. m \in TablesAt(q)' <=> t = q BY <1>1, <1>2, <1>4, <1>8
<1>11. IsFiniteSet(TablesAt(q)) BY Counted
<1> HIDE DEF m
<1>12. Cardinality(TablesAt(q)') = Cardinality(TablesAt(q)) - 0 + (IF t = q THEN 1 ELSE 0)
  BY <1>7, <1>9, <1>10, <1>11, OneElement
<1> QED BY <1>12, Counted

\* What is pointed to is counted, and so not free.
LEMMA Pointed ==
  ASSUME PageInv, NEW e \in live
  PROVE  /\ env_pgdir[e] \in Page /\ pp_ref[env_pgdir[e]] > 0
         /\ \A d \in Dir : pde[e][d] # NULL => pde[e][d] \in Page /\ pp_ref[pde[e][d]] > 0
         /\ \A v \in VA : Mapped(e, v) => /\ page_lookup(e, v) \in Page
                                          /\ pp_ref[page_lookup(e, v)] > 0
<1>1. TypeOK /\ RefsCounted /\ e \in Env BY DEF PageInv, TypeOK
<1>2. ASSUME NEW p \in Page, MapsTo(p) # {} \/ TablesAt(p) # {} \/ DirsAt(p) # {}
      PROVE  pp_ref[p] > 0
  <2>1. /\ IsFiniteSet(MapsTo(p)) /\ IsFiniteSet(TablesAt(p)) /\ IsFiniteSet(DirsAt(p))
        /\ Cardinality(MapsTo(p)) \in Nat /\ Cardinality(TablesAt(p)) \in Nat
        /\ Cardinality(DirsAt(p)) \in Nat
    BY <1>1, Counted
  <2>2. \/ Cardinality(MapsTo(p)) # 0 \/ Cardinality(TablesAt(p)) # 0
        \/ Cardinality(DirsAt(p)) # 0
    BY <1>2, <2>1, FS_EmptySet
  <2>3. pp_ref[p] \in Int BY <1>1, PageMapAssumption DEF TypeOK
  <2>4. Pointers(p) <= pp_ref[p] BY <1>1 DEF RefsCounted
  <2> QED BY <2>1, <2>2, <2>3, <2>4 DEF Pointers
<1>3. env_pgdir[e] \in Page /\ pp_ref[env_pgdir[e]] > 0
  <2>1. env_pgdir[e] \in Page BY <1>1 DEF TypeOK
  <2>2. e \in DirsAt(env_pgdir[e]) BY DEF DirsAt
  <2> QED BY <2>1, <2>2, <1>2
<1>4. ASSUME NEW d \in Dir, pde[e][d] # NULL PROVE pde[e][d] \in Page /\ pp_ref[pde[e][d]] > 0
  <2>1. pde[e][d] \in Page BY <1>1, <1>4 DEF TypeOK
  <2>2. <<e, d>> \in TablesAt(pde[e][d]) BY DEF TablesAt
  <2> QED BY <2>1, <2>2, <1>2
<1>5. ASSUME NEW v \in VA, Mapped(e, v)
      PROVE  page_lookup(e, v) \in Page /\ pp_ref[page_lookup(e, v)] > 0
  <2>1. page_lookup(e, v) \in Page BY <1>1, <1>5 DEF TypeOK, Mapped, Mapping, page_lookup
  <2>2. <<e, v>> \in MapsTo(page_lookup(e, v)) BY <1>5 DEF MapsTo
  <2> QED BY <2>1, <2>2, <1>2
<1> QED BY <1>3, <1>4, <1>5
-----------------------------------------------------------------------------
(* Each step keeps PageInv.                                                *)

\* The references that page_insert takes away and adds.
Lost(e, v, q) == IF pte[e][v] # NULL /\ pte[e][v].page = q THEN 1 ELSE 0
One(p, q)     == IF p = q THEN 1 ELSE 0

\* p is no env's page directory or page table.
NoTable(p) == \A f \in live : env_pgdir[f] # p /\ \A d \in Dir : pde[f][d] # p

\* p is mapped at v of e by the entry new, with the page table t where there was none.
MapStep(e, v, p, new, t) ==
  /\ new \in Mapping /\ new.page = p /\ NoTable(p) /\ t \in Page \cup {NULL} /\ t # p
  /\ t = NULL => pde[e][PDX[v]] # NULL
  /\ t # NULL => t \in page_free_list /\ pde[e][PDX[v]] = NULL
  /\ pde' \in [Env -> [Dir -> Page \cup {NULL}]]
  /\ \A f \in Env, d \in Dir :
       pde'[f][d] = IF t # NULL /\ f = e /\ d = PDX[v] THEN t ELSE pde[f][d]
  /\ pte' \in [Env -> [VA -> Mapping \cup {NULL}]]
  /\ \A f \in Env, u \in VA : pte'[f][u] = IF f = e /\ u = v THEN new ELSE pte[f][u]
  /\ tlb_invalidate(env_asid[e], {v}) /\ UNCHANGED <<envs, halted>>
  /\ pp_ref' \in [Page -> 0..(REFMOD - 1)]
  /\ \A q \in Page : pp_ref'[q] = pp_ref[q] - Lost(e, v, q) + One(p, q) + One(t, q)
  /\ page_free_list' \subseteq Page /\ \A q \in page_free_list' : pp_ref'[q] = 0

\* Any such step keeps the invariant.
LEMMA MapKeeps ==
  ASSUME PageInv, NEW e \in live, NEW v \in VA, NEW p \in Page, NEW new, NEW t,
         MapStep(e, v, p, new, t)
  PROVE  PageInv'
<1> USE DEF MapStep
<1>1. /\ TypeOK /\ e \in Env /\ live \subseteq Env /\ PDX[v] \in Dir
      /\ UNCHANGED <<live, env_pgdir, env_asid, halted>>
  BY DEF PageInv, TypeOK, Dir, envs
<1>2. new \in Mapping /\ new # NULL /\ new.page = p BY PageMapAssumption
<1>4. \A f \in Env, u \in VA : pte'[f][u] = IF f = e /\ u = v THEN new ELSE pte[f][u]
  OBVIOUS
<1>5. \A f \in Env, d \in Dir : \/ pde'[f][d] = pde[f][d]
                                \/ f = e /\ d = PDX[v] /\ t # NULL /\ pde'[f][d] = t
  OBVIOUS
<1>6. \A f \in Env, d \in Dir : pde[f][d] # NULL => pde'[f][d] # NULL BY <1>5
<1>7. pde'[e][PDX[v]] # NULL
  <2>1. CASE t = NULL BY <2>1, <1>1
  <2>2. CASE t # NULL BY <2>2, <1>1
  <2> QED BY <2>1, <2>2
<1>8. ASSUME t # NULL, NEW f \in live
      PROVE  /\ env_pgdir[f] # t /\ \A d \in Dir : pde[f][d] # t
             /\ \A u \in VA : Mapped(f, u) => page_lookup(f, u) # t
  <2>1. t \in Page /\ pp_ref[t] = 0 BY <1>8 DEF PageInv, FreeUncounted
  <2>2. ~(pp_ref[t] > 0) BY <2>1
  <2> QED BY <1>8, <2>2, Pointed
<1>9. TypeOK'
  <2>1. tlb' \subseteq Entry BY <1>1 DEF TypeOK, tlb_invalidate
  <2> QED BY <1>1, <2>1 DEF TypeOK
<1>10. RefsCounted'
  <2> SUFFICES ASSUME NEW q \in Page PROVE Pointers(q)' <= pp_ref'[q]
    BY DEF RefsCounted
  <2>1. Cardinality(MapsTo(q)') = Cardinality(MapsTo(q)) - Lost(e, v, q) + One(p, q)
    <3>1. Cardinality(MapsTo(q)') = Cardinality(MapsTo(q))
            - (IF pte[e][v] # NULL /\ pte[e][v].page = q THEN 1 ELSE 0)
            + (IF new # NULL /\ new.page = q THEN 1 ELSE 0)
      <4>1. TypeOK /\ live' = live /\ new \in Mapping \cup {NULL} BY <1>1, <1>2
      <4> QED BY <4>1, <1>4, SetPte
    <3> QED BY <3>1, <1>2 DEF Lost, One
  <2>2. Cardinality(TablesAt(q)') = Cardinality(TablesAt(q)) + One(t, q)
    <3>1. CASE t = NULL
      <4>1. TablesAt(q)' = TablesAt(q)
        <5>1. \A k \in live \X Dir : pde'[k[1]][k[2]] = pde[k[1]][k[2]] BY <3>1, <1>1
        <5> QED BY <1>1, <5>1 DEF TablesAt
      <4>2. One(t, q) = 0 BY <3>1, PageMapAssumption DEF One
      <4> QED BY <1>1, <4>1, <4>2, Counted
    <3>2. CASE t # NULL
      <4>1. \A f \in Env, u \in Dir :
              pde'[f][u] = IF f = e /\ u = PDX[v] THEN t ELSE pde[f][u]
        BY <3>2
      <4>2. t \in Page /\ pde[e][PDX[v]] = NULL /\ live' = live BY <3>2, <1>1
      <4> HIDE DEF MapStep
      <4> QED BY <1>1, <4>1, <4>2, SetPde DEF One
    <3> QED BY <3>1, <3>2
  <2>3. Cardinality(DirsAt(q)') = Cardinality(DirsAt(q))
    <3>1. DirsAt(q)' = DirsAt(q) BY <1>1 DEF DirsAt
    <3> QED BY <3>1
  <2>4. /\ Cardinality(MapsTo(q)) \in Nat /\ Cardinality(TablesAt(q)) \in Nat
        /\ Cardinality(DirsAt(q)) \in Nat
    BY <1>1, Counted
  <2>5. Cardinality(MapsTo(q)) + Cardinality(TablesAt(q)) + Cardinality(DirsAt(q)) <= pp_ref[q]
    BY DEF PageInv, RefsCounted, Pointers
  <2>6. pp_ref[q] \in Int /\ Lost(e, v, q) \in Int /\ One(p, q) \in Int /\ One(t, q) \in Int
    BY <1>1, PageMapAssumption DEF TypeOK, Lost, One
  <2>7. pp_ref'[q] = pp_ref[q] - Lost(e, v, q) + One(p, q) + One(t, q) OBVIOUS
  <2> QED BY <2>1, <2>2, <2>3, <2>4, <2>5, <2>6, <2>7 DEF Pointers
<1>11. FreeUncounted' BY DEF FreeUncounted
<1>12. TablesApart'
  <2>0. NoTable(p) /\ t # p OBVIOUS
  <2> USE DEF Mapped, page_lookup
  <2> HIDE DEF MapStep
  <2> SUFFICES ASSUME NEW f \in live, NEW g \in live
               PROVE  /\ env_pgdir[f] = env_pgdir[g] => f = g
                      /\ \A d \in Dir : pde'[g][d] # env_pgdir[f]
                      /\ \A d, h \in Dir : pde'[f][d] # NULL /\ pde'[f][d] = pde'[g][h] => f = g /\ d = h
                      /\ \A u \in VA : pte'[g][u] # NULL =>
                           /\ pte'[g][u].page # env_pgdir[f]
                           /\ \A d \in Dir : pte'[g][u].page # pde'[f][d]
    BY <1>1 DEF TablesApart
  <2>1. /\ env_pgdir[f] = env_pgdir[g] => f = g
        /\ \A d \in Dir : pde[g][d] # env_pgdir[f]
        /\ \A d, h \in Dir : pde[f][d] # NULL /\ pde[f][d] = pde[g][h] => f = g /\ d = h
        /\ \A u \in VA : pte[g][u] # NULL =>
             /\ pte[g][u].page # env_pgdir[f]
             /\ \A d \in Dir : pte[g][u].page # pde[f][d]
    BY DEF PageInv, TablesApart
  <2>2. f \in Env /\ g \in Env BY <1>1
  <2>3. \A d \in Dir : pde'[g][d] # env_pgdir[f] BY <1>5, <1>8, <2>1, <2>2
  <2>4. \A d, h \in Dir : pde'[f][d] # NULL /\ pde'[f][d] = pde'[g][h] => f = g /\ d = h
    BY <1>5, <1>8, <2>1, <2>2
  <2>5. ASSUME NEW u \in VA, pte'[g][u] # NULL
        PROVE  /\ pte'[g][u].page # env_pgdir[f]
               /\ \A d \in Dir : pte'[g][u].page # pde'[f][d]
    <3>1. CASE g = e /\ u = v
      <4>1. pte'[g][u].page = p BY <3>1, <1>1, <1>2, <1>4
      <4> QED BY <4>1, <2>0, <2>2, <1>5 DEF NoTable
    <3>2. CASE ~(g = e /\ u = v)
      <4>1. pte'[g][u] = pte[g][u] BY <3>2, <2>2, <1>4
      <4> QED BY <4>1, <2>1, <2>2, <2>5, <1>5, <1>8
    <3> QED BY <3>1, <3>2
  <2> QED BY <2>1, <2>3, <2>4, <2>5
<1>13. UnderTable'
  BY <1>1, <1>4, <1>6, <1>7 DEF PageInv, UnderTable, Mapped, Dir
<1>14. AsidsDistinct' /\ NoAssertFails'
  BY <1>1 DEF PageInv, AsidsDistinct, NoAssertFails
<1>15. TlbCoherent'
  <2> SUFFICES ASSUME NEW y \in tlb', y.va \in UserVA
               PROVE  \E f \in live : /\ env_asid[f] = y.asid
                                      /\ pte'[f][y.va] = [page |-> y.page, perm |-> y.perm]
    BY <1>1 DEF TlbCoherent
  <2>1. y \in tlb /\ (y.asid # env_asid[e] \/ y.va # v) BY DEF tlb_invalidate
  <2>2. PICK f \in live : env_asid[f] = y.asid /\ pte[f][y.va] = [page |-> y.page, perm |-> y.perm]
    BY <2>1 DEF PageInv, TlbCoherent
  <2>3. f \in Env /\ y.va \in VA BY <1>1, PageMapAssumption
  <2>4. pte'[f][y.va] = pte[f][y.va] BY <2>1, <2>2, <2>3, <1>4
  <2> QED BY <2>2, <2>4
<1> QED BY <1>9, <1>10, <1>11, <1>12, <1>13, <1>14, <1>15 DEF PageInv

\* Below the wrap a count is incremented.
LEMMA Increment ==
  ASSUME TypeOK, NoWrap, NEW p \in Page
  PROVE  (pp_ref[p] + 1) % REFMOD = pp_ref[p] + 1 /\ pp_ref[p] + 1 \in 0..(REFMOD - 1)
<1>1. pp_ref[p] \in 0..(REFMOD - 1) /\ pp_ref[p] < REFMOD - 1 BY DEF TypeOK, NoWrap
<1>2. REFMOD \in Nat /\ REFMOD > 1 BY PageMapAssumption
<1> QED BY <1>1, <1>2

\* A step that takes pages off the free list and does no more, or the kernel panics.
LEMMA LessFree ==
  ASSUME PageInv, page_free_list' \subseteq page_free_list, halted' \in {halted, "panic"},
         UNCHANGED <<pp_ref, envs, tables, tlb>>
  PROVE  PageInv'
<1>1. UNCHANGED <<live, env_pgdir, env_asid, pde, pte>> BY DEF envs, tables
<1>2. TypeOK' BY <1>1 DEF PageInv, TypeOK
<1>3. RefsCounted'
  <2>1. \A p : MapsTo(p)' = MapsTo(p) /\ TablesAt(p)' = TablesAt(p) /\ DirsAt(p)' = DirsAt(p)
    BY <1>1 DEF MapsTo, TablesAt, DirsAt, Mapped, page_lookup
  <2> QED BY <2>1 DEF PageInv, RefsCounted, Pointers
<1>4. FreeUncounted' BY DEF PageInv, FreeUncounted
<1>5. TablesApart' /\ UnderTable' /\ AsidsDistinct' /\ TlbCoherent' /\ NoAssertFails'
  BY <1>1 DEF PageInv, TablesApart, UnderTable, AsidsDistinct, TlbCoherent, NoAssertFails,
              Mapped, page_lookup
<1> QED BY <1>2, <1>3, <1>4, <1>5 DEF PageInv

\* page_insert, in each of its ways to succeed and when it fails.
LEMMA InsertKeeps ==
  ASSUME PageInv, NoWrap, NEW e \in live, NEW v \in VA, NEW p \in Page, NEW perm \in Perm,
         NoTable(p), NEW free \in SUBSET page_free_list, p \notin free,
         page_insert(e, p, v, perm, free), UNCHANGED envs
  PROVE  PageInv'
<1> DEFINE d   == PDX[v]
           old == pte[e][v]
           new == [page |-> p, perm |-> perm]
<1>1. /\ TypeOK /\ e \in Env /\ live \subseteq Env /\ d \in Dir
      /\ pp_ref \in [Page -> 0..(REFMOD - 1)] /\ page_free_list \subseteq Page
  BY DEF PageInv, TypeOK, Dir
<1>2. /\ (pp_ref[p] + 1) % REFMOD = pp_ref[p] + 1 /\ pp_ref[p] + 1 \in 0..(REFMOD - 1)
      /\ \A q \in Page : pp_ref[q] \in Int
  BY <1>1, Increment, PageMapAssumption
<1>3. \A q \in free : q \in Page /\ pp_ref[q] = 0 BY <1>1 DEF PageInv, FreeUncounted
<1>4. \A q \in Page : One(NULL, q) = 0 BY PageMapAssumption DEF One
<1>5. old # NULL => old.page \in Page /\ pp_ref[old.page] > 0 /\ pde[e][d] # NULL
  BY Pointed DEF PageInv, UnderTable, Mapped, page_lookup
<1>6. NULL \in Page \cup {NULL} /\ NULL # p /\ new \in Mapping /\ new.page = p
  BY PageMapAssumption DEF Mapping
<1> HIDE DEF d, new
<1>20. ASSUME pte' = [pte EXCEPT ![e][v] = new]
       PROVE  /\ pte' \in [Env -> [VA -> Mapping \cup {NULL}]]
              /\ \A f \in Env, u \in VA : pte'[f][u] = IF f = e /\ u = v THEN new ELSE pte[f][u]
  BY <1>1, <1>6, <1>20 DEF TypeOK
<1>21. ASSUME pde' = pde
       PROVE  /\ pde' \in [Env -> [Dir -> Page \cup {NULL}]]
              /\ \A f \in Env, h \in Dir :
                   pde'[f][h] = IF NULL # NULL /\ f = e /\ h = PDX[v] THEN NULL ELSE pde[f][h]
  BY <1>1, <1>21 DEF TypeOK
<1>22. \A q \in Page : Lost(e, v, q) = IF old # NULL /\ old.page = q THEN 1 ELSE 0
  BY DEF Lost
<1> HIDE DEF old
<1>23. ASSUME pte' = [pte EXCEPT ![e][v] = new], NEW t \in Page \cup {NULL}, t # p,
              t = NULL => pde[e][PDX[v]] # NULL,
              t # NULL => t \in page_free_list /\ pde[e][PDX[v]] = NULL,
              pde' \in [Env -> [Dir -> Page \cup {NULL}]],
              \A f \in Env, h \in Dir :
                pde'[f][h] = IF t # NULL /\ f = e /\ h = PDX[v] THEN t ELSE pde[f][h],
              tlb_invalidate(env_asid[e], {v}), UNCHANGED <<envs, halted>>,
              pp_ref' \in [Page -> 0..(REFMOD - 1)],
              \A q \in Page : pp_ref'[q] = pp_ref[q] - Lost(e, v, q) + One(p, q) + One(t, q),
              page_free_list' \subseteq Page, \A q \in page_free_list' : pp_ref'[q] = 0
       PROVE  PageInv'
  <2>1. /\ pte' \in [Env -> [VA -> Mapping \cup {NULL}]]
        /\ \A f \in Env, u \in VA : pte'[f][u] = IF f = e /\ u = v THEN new ELSE pte[f][u]
    BY <1>20, <1>23
  <2>2. MapStep(e, v, p, new, t) BY <1>6, <1>23, <2>1 DEF MapStep
  <2> QED BY <2>2, MapKeeps
<1>7. CASE /\ old # NULL /\ old.page = p
           /\ pte' = [pte EXCEPT ![e][v] = new]
           /\ page_free_list' = free
           /\ tlb_invalidate(env_asid[e], {v})
           /\ UNCHANGED <<pp_ref, pde, halted>>
  <2>1. \A q \in Page : pp_ref'[q] = pp_ref[q] - Lost(e, v, q) + One(p, q) + One(NULL, q)
    BY <1>2, <1>4, <1>7, <1>22 DEF One
  <2>2. /\ page_free_list' \subseteq Page /\ \A q \in page_free_list' : pp_ref'[q] = 0
        /\ pp_ref' \in [Page -> 0..(REFMOD - 1)] /\ UNCHANGED <<envs, halted>>
    BY <1>1, <1>3, <1>7
  <2>3. NULL = NULL => pde[e][PDX[v]] # NULL BY <1>5, <1>7 DEF d
  <2>4. /\ pte' = [pte EXCEPT ![e][v] = new] /\ pde' = pde
        /\ tlb_invalidate(env_asid[e], {v})
    BY <1>7
  <2> QED BY <1>6, <1>21, <1>23, <2>1, <2>2, <2>3, <2>4
<1>8. CASE /\ old # NULL /\ old.page # p
           /\ pp_ref' = [pp_ref EXCEPT ![old.page] = @ - 1, ![p] = (@ + 1) % REFMOD]
           /\ page_free_list' = IF pp_ref[old.page] = 1 THEN free \cup {old.page} ELSE free
           /\ pte' = [pte EXCEPT ![e][v] = new]
           /\ tlb_invalidate(env_asid[e], {v})
           /\ UNCHANGED <<pde, halted>>
  <2>9. old # NULL /\ old.page # p BY <1>8
  <2>0. old.page \in Page /\ pp_ref[old.page] - 1 \in 0..(REFMOD - 1) /\ pp_ref[old.page] \in Int
    <3>1. pp_ref[old.page] \in 0..(REFMOD - 1) /\ pp_ref[old.page] > 0 BY <1>1, <1>5, <1>8
    <3> QED BY <1>5, <1>8, <3>1, PageMapAssumption
  <2>1. \A q \in Page : pp_ref'[q] = IF q = p THEN pp_ref[p] + 1
                                     ELSE IF q = old.page THEN pp_ref[old.page] - 1 ELSE pp_ref[q]
    BY <1>1, <1>2, <1>8, <2>0
  <2>2. \A q \in Page : pp_ref'[q] = pp_ref[q] - Lost(e, v, q) + One(p, q) + One(NULL, q)
    BY <1>2, <1>4, <1>22, <2>9, <2>0, <2>1 DEF One
  <2>3. pp_ref' \in [Page -> 0..(REFMOD - 1)] BY <1>1, <1>2, <1>8, <2>0
  <2>4. page_free_list' \subseteq Page /\ \A q \in page_free_list' : pp_ref'[q] = 0
    <3>1. \A q \in free : q # p /\ q # old.page /\ pp_ref'[q] = 0
      BY <1>3, <1>5, <2>9, <2>1
    <3>2. pp_ref[old.page] = 1 => pp_ref'[old.page] = 0 BY <2>9, <2>0, <2>1
    <3> QED BY <1>3, <1>8, <2>0, <3>1, <3>2
  <2>5. NULL = NULL => pde[e][PDX[v]] # NULL BY <1>5, <1>8 DEF d
  <2>6. UNCHANGED <<envs, halted>> BY <1>8
  <2>7. /\ pte' = [pte EXCEPT ![e][v] = new] /\ pde' = pde
        /\ tlb_invalidate(env_asid[e], {v})
    BY <1>8
  <2> QED BY <1>6, <1>21, <1>23, <2>2, <2>3, <2>4, <2>5, <2>6, <2>7
<1>9. CASE /\ old = NULL /\ pde[e][d] # NULL
           /\ pp_ref' = [pp_ref EXCEPT ![p] = (@ + 1) % REFMOD]
           /\ page_free_list' = free
           /\ pte' = [pte EXCEPT ![e][v] = new]
           /\ tlb_invalidate(env_asid[e], {v})
           /\ UNCHANGED <<pde, halted>>
  <2>1. \A q \in Page : pp_ref'[q] = IF q = p THEN pp_ref[p] + 1 ELSE pp_ref[q]
    BY <1>1, <1>2, <1>9
  <2>2. \A q \in Page : pp_ref'[q] = pp_ref[q] - Lost(e, v, q) + One(p, q) + One(NULL, q)
    BY <1>2, <1>4, <1>9, <1>22, <2>1 DEF One
  <2>3. pp_ref' \in [Page -> 0..(REFMOD - 1)] BY <1>1, <1>2, <1>9
  <2>4. page_free_list' \subseteq Page /\ \A q \in page_free_list' : pp_ref'[q] = 0
    BY <1>3, <1>9, <2>1
  <2>5. NULL = NULL => pde[e][PDX[v]] # NULL BY <1>9 DEF d
  <2>6. UNCHANGED <<envs, halted>> BY <1>9
  <2>7. /\ pte' = [pte EXCEPT ![e][v] = new] /\ pde' = pde
        /\ tlb_invalidate(env_asid[e], {v})
    BY <1>9
  <2> QED BY <1>6, <1>21, <1>23, <2>2, <2>3, <2>4, <2>5, <2>6, <2>7
<1>10. CASE /\ pde[e][d] = NULL
            /\ \E t \in free :
                 /\ pp_ref' = [pp_ref EXCEPT ![t] = 1, ![p] = (@ + 1) % REFMOD]
                 /\ page_free_list' = free \ {t}
                 /\ pde' = [pde EXCEPT ![e][d] = t]
            /\ pte' = [pte EXCEPT ![e][v] = new]
            /\ tlb_invalidate(env_asid[e], {v})
            /\ UNCHANGED halted
  <2>0. PICK t \in free : /\ pp_ref' = [pp_ref EXCEPT ![t] = 1, ![p] = (@ + 1) % REFMOD]
                          /\ page_free_list' = free \ {t}
                          /\ pde' = [pde EXCEPT ![e][d] = t]
    BY <1>10
  <2>1. t \in Page /\ t # p /\ pp_ref[t] = 0 /\ t # NULL /\ t \in page_free_list
    BY <1>3, PageMapAssumption
  <2>2. \A q \in Page : pp_ref'[q] = IF q = p THEN pp_ref[p] + 1
                                     ELSE IF q = t THEN 1 ELSE pp_ref[q]
    BY <1>1, <1>2, <2>0, <2>1
  <2>3. \A q \in Page : Lost(e, v, q) = 0 BY <1>5, <1>10, <1>22
  <2>4. \A q \in Page : pp_ref'[q] = pp_ref[q] - Lost(e, v, q) + One(p, q) + One(t, q)
    BY <1>2, <2>1, <2>2, <2>3 DEF One
  <2>5. pp_ref' \in [Page -> 0..(REFMOD - 1)]
    <3>1. 1 \in 0..(REFMOD - 1) BY PageMapAssumption
    <3> QED BY <1>1, <1>2, <2>0, <2>1, <3>1
  <2>6. page_free_list' \subseteq Page /\ \A q \in page_free_list' : pp_ref'[q] = 0
    BY <1>3, <2>0, <2>2
  <2>7. /\ t # NULL => t \in page_free_list /\ pde[e][PDX[v]] = NULL
        /\ t = NULL => pde[e][PDX[v]] # NULL
    BY <1>10, <2>0, <2>1 DEF d
  <2>9. /\ pde' \in [Env -> [Dir -> Page \cup {NULL}]]
        /\ \A f \in Env, h \in Dir :
             pde'[f][h] = IF t # NULL /\ f = e /\ h = PDX[v] THEN t ELSE pde[f][h]
    BY <1>1, <2>0, <2>1 DEF TypeOK, d
  <2>8. UNCHANGED <<envs, halted>> BY <1>10
  <2>10. pte' = [pte EXCEPT ![e][v] = new] /\ tlb_invalidate(env_asid[e], {v})
    BY <1>10
  <2> QED BY <1>23, <2>1, <2>4, <2>5, <2>6, <2>7, <2>8, <2>9, <2>10
<1>11. CASE /\ pde[e][d] = NULL /\ free = {}
            /\ page_free_list' = free
            /\ UNCHANGED <<pp_ref, tables, tlb, halted>>
  BY <1>11, LessFree
<1>12. old # NULL => pp_ref[old.page] # 0 BY <1>5
<1> QED BY <1>7, <1>8, <1>9, <1>10, <1>11, <1>12 DEF page_insert, d, old, new

\* Of a set of pairs, those that belong to e: B is counted among them.
LEMMA OwnPart ==
  ASSUME NEW S, IsFiniteSet(S), NEW e, NEW B, \A b \in B : <<e, b>> \in S,
         NEW T, T = {k \in S : k[1] # e}
  PROVE  /\ IsFiniteSet(B) /\ Cardinality(B) \in Nat /\ Cardinality(T) \in Nat
         /\ Cardinality(T) + Cardinality(B) <= Cardinality(S)
         /\ (\A k \in S : \E b \in B : k = <<e, b>>) => Cardinality(B) = Cardinality(S)
<1> DEFINE A == {k \in S : k[1] = e}
           g == [b \in B |-> <<e, b>>]
<1>1. A \in SUBSET S /\ S \cap A = A /\ T = S \ A OBVIOUS
<1>2. IsFiniteSet(A) /\ Cardinality(T) = Cardinality(S) - Cardinality(A)
  <2>1. IsFiniteSet(A) BY <1>1, FS_Subset
  <2>2. Cardinality(S \ A) = Cardinality(S) - Cardinality(S \cap A) BY FS_Difference
  <2> QED BY <1>1, <2>1, <2>2
<1>3. g \in Injection(B, A) /\ g \in [B -> A]
  <2>1. \A b \in B : <<e, b>> \in A OBVIOUS
  <2>2. g \in [B -> A] BY <2>1
  <2>3. \A a, b \in B : g[a] = g[b] => a = b
    <3> TAKE a, b \in B
    <3>1. g[a] = <<e, a>> /\ g[b] = <<e, b>> OBVIOUS
    <3> HIDE DEF g
    <3> QED BY <3>1
  <2> HIDE DEF g, A
  <2> QED BY <2>2, <2>3 DEF Injection, IsInjective
<1>4. /\ IsFiniteSet(B) /\ Cardinality(B) <= Cardinality(A)
      /\ Cardinality(B) = Cardinality(A) <=> g \in Surjection(B, A)
  BY <1>2, <1>3, FS_Injection
<1>5. Cardinality(S) \in Nat /\ Cardinality(A) \in Nat /\ Cardinality(B) \in Nat
  BY <1>2, <1>4, FS_CardinalityType
<1>6. IsFiniteSet(T) /\ Cardinality(T) \in Nat
  <2>1. IsFiniteSet(T) BY <1>1, FS_Subset
  <2> QED BY <2>1, FS_CardinalityType
<1>7. ASSUME \A k \in S : \E b \in B : k = <<e, b>> PROVE Cardinality(B) = Cardinality(S)
  <2>1. A = S BY <1>7
  <2>2. \A k \in A : \E b \in B : g[b] = k BY <1>7
  <2>3. g \in Surjection(B, A) BY <1>3, <2>2 DEF Surjection
  <2> QED BY <1>4, <2>1, <2>3
<1> QED BY <1>2, <1>4, <1>5, <1>6, <1>7

\* What env_free drops is what e holds below UTOP.
LEMMA FreeCount ==
  ASSUME TypeOK, NEW e \in live, env_free(e), NEW q \in Page
  PROVE  /\ Drops(e, q) \in Nat /\ Pointers(q) \in Nat /\ Pointers(q)' \in Nat
         /\ Pointers(q)' + Drops(e, q) <= Pointers(q)
         /\ /\ \A m \in MapsTo(q) : m[1] = e /\ m[2] \in UserVA
            /\ \A m \in TablesAt(q) : m[1] = e /\ m[2] \in UserDir
            /\ DirsAt(q) \subseteq {e}
            => Drops(e, q) = Pointers(q)
<1> DEFINE B == {v \in UserVA : Mapped(e, v) /\ page_lookup(e, v) = q}
           D == {d \in UserDir : pde[e][d] = q}
           o == IF env_pgdir[e] = q THEN 1 ELSE 0
<1>1. /\ live' = live \ {e} /\ e \in Env /\ live \subseteq Env
      /\ pde' = [pde EXCEPT ![e] = [d \in Dir |-> IF d \in UserDir THEN NULL ELSE @[d]]]
      /\ pte' = [pte EXCEPT ![e] = [v \in VA |-> IF v \in UserVA THEN NULL ELSE @[v]]]
      /\ UNCHANGED <<env_pgdir, env_asid>>
  BY DEF env_free, TypeOK
<1>2. UserVA \subseteq VA /\ UserDir \subseteq Dir BY PageMapAssumption DEF UserDir, Dir
<1>3. /\ \A f \in live : f # e => pte'[f] = pte[f] /\ pde'[f] = pde[f]
  BY <1>1 DEF TypeOK
<1>4. /\ IsFiniteSet(MapsTo(q)) /\ IsFiniteSet(TablesAt(q)) /\ IsFiniteSet(DirsAt(q))
      /\ Cardinality(MapsTo(q)) \in Nat /\ Cardinality(TablesAt(q)) \in Nat
      /\ Cardinality(DirsAt(q)) \in Nat
  BY Counted
<1>5. MapsTo(q)' = {k \in MapsTo(q) : k[1] # e}
  <2>1. \A k \in live \X VA : k[1] # e =>
          pte'[k[1]][k[2]] = pte[k[1]][k[2]]
    BY <1>3
  <2> QED BY <1>1, <2>1 DEF MapsTo, Mapped, page_lookup
<1>6. TablesAt(q)' = {k \in TablesAt(q) : k[1] # e}
  <2>1. \A k \in live \X Dir : k[1] # e => pde'[k[1]][k[2]] = pde[k[1]][k[2]] BY <1>3
  <2> QED BY <1>1, <2>1 DEF TablesAt
<1>7. DirsAt(q)' = DirsAt(q) \ {e} /\ (e \in DirsAt(q) <=> env_pgdir[e] = q)
  BY <1>1 DEF DirsAt
<1>8. (\A b \in B : <<e, b>> \in MapsTo(q)) /\ (\A b \in D : <<e, b>> \in TablesAt(q))
  BY <1>2 DEF MapsTo, TablesAt
<1>9. /\ Cardinality(B) \in Nat /\ Cardinality(MapsTo(q)') \in Nat
      /\ Cardinality(MapsTo(q)') + Cardinality(B) <= Cardinality(MapsTo(q))
      /\ (\A k \in MapsTo(q) : \E b \in B : k = <<e, b>>)
           => Cardinality(B) = Cardinality(MapsTo(q))
  <2> HIDE DEF B
  <2> QED BY <1>4, <1>5, <1>8, OwnPart
<1>10. /\ Cardinality(D) \in Nat /\ Cardinality(TablesAt(q)') \in Nat
       /\ Cardinality(TablesAt(q)') + Cardinality(D) <= Cardinality(TablesAt(q))
       /\ (\A k \in TablesAt(q) : \E b \in D : k = <<e, b>>)
            => Cardinality(D) = Cardinality(TablesAt(q))
  <2> HIDE DEF D
  <2> QED BY <1>4, <1>6, <1>8, OwnPart
<1>11. /\ Cardinality(DirsAt(q)') \in Nat /\ o \in Nat
       /\ Cardinality(DirsAt(q)') + o = Cardinality(DirsAt(q))
  <2>1. /\ IsFiniteSet(DirsAt(q) \ {e})
        /\ Cardinality(DirsAt(q) \ {e}) = IF e \in DirsAt(q) THEN Cardinality(DirsAt(q)) - 1
                                          ELSE Cardinality(DirsAt(q))
    BY <1>4, FS_RemoveElement
  <2>2. Cardinality(DirsAt(q) \ {e}) \in Nat BY <2>1, FS_CardinalityType
  <2> QED BY <1>4, <1>7, <2>1, <2>2
<1>12. Drops(e, q) = Cardinality(B) + Cardinality(D) + o BY DEF Drops
<1>13. ASSUME \A m \in MapsTo(q) : m[1] = e /\ m[2] \in UserVA,
              \A m \in TablesAt(q) : m[1] = e /\ m[2] \in UserDir,
              DirsAt(q) \subseteq {e}
       PROVE  Drops(e, q) = Pointers(q)
  <2>1. Cardinality(B) = Cardinality(MapsTo(q))
    <3>1. ASSUME NEW k \in MapsTo(q) PROVE \E b \in B : k = <<e, b>>
      <4>1. k \in live \X VA /\ Mapped(k[1], k[2]) /\ page_lookup(k[1], k[2]) = q BY DEF MapsTo
      <4>2. k = <<e, k[2]>> /\ k[2] \in B BY <1>13, <4>1
      <4> QED BY <4>2
    <3> QED BY <1>9, <3>1
  <2>2. Cardinality(D) = Cardinality(TablesAt(q))
    <3>1. ASSUME NEW k \in TablesAt(q) PROVE \E b \in D : k = <<e, b>>
      <4>1. k \in live \X Dir /\ pde[k[1]][k[2]] = q BY DEF TablesAt
      <4>2. k = <<e, k[2]>> /\ k[2] \in D BY <1>13, <4>1
      <4> QED BY <4>2
    <3> QED BY <1>10, <3>1
  <2>3. o = Cardinality(DirsAt(q))
    <3>1. DirsAt(q)' = {} BY <1>7, <1>13
    <3>2. Cardinality(DirsAt(q)') = 0 BY <3>1, FS_EmptySet
    <3> QED BY <1>4, <1>11, <3>2
  <2> QED BY <1>12, <2>1, <2>2, <2>3 DEF Pointers
<1>14. /\ Pointers(q)' = Cardinality(MapsTo(q)') + Cardinality(TablesAt(q)') + Cardinality(DirsAt(q)')
       /\ Pointers(q) = Cardinality(MapsTo(q)) + Cardinality(TablesAt(q)) + Cardinality(DirsAt(q))
  BY DEF Pointers
<1> HIDE DEF B, D, o
<1> QED BY <1>4, <1>9, <1>10, <1>11, <1>12, <1>13, <1>14

\* env_free never drops more than was counted, and leaves nothing behind in the TLB.
LEMMA env_freeKeeps ==
  ASSUME PageInv, NEW e \in live, env_free(e)
  PROVE  PageInv'
<1>1. /\ live' = live \ {e} /\ e \in Env /\ live \subseteq Env /\ TypeOK
      /\ pde' = [pde EXCEPT ![e] = [d \in Dir |-> IF d \in UserDir THEN NULL ELSE @[d]]]
      /\ pte' = [pte EXCEPT ![e] = [v \in VA |-> IF v \in UserVA THEN NULL ELSE @[v]]]
      /\ UNCHANGED <<env_pgdir, env_asid>> /\ halted = "no"
      /\ tlb_invalidate(env_asid[e], {v \in UserVA : Mapped(e, v)})
      /\ page_decref([p \in Page |-> Drops(e, p)], page_free_list)
  BY DEF env_free, PageInv, TypeOK
<1>2. \A q \in Page :
        /\ Drops(e, q) \in Nat /\ Pointers(q)' \in Nat /\ pp_ref[q] \in 0..(REFMOD - 1)
        /\ Drops(e, q) <= pp_ref[q] /\ Pointers(q)' <= pp_ref[q] - Drops(e, q)
  <2> TAKE q \in Page
  <2>1. /\ Drops(e, q) \in Nat /\ Pointers(q) \in Nat /\ Pointers(q)' \in Nat
        /\ Pointers(q)' + Drops(e, q) <= Pointers(q)
    BY <1>1, FreeCount
  <2>2. Pointers(q) <= pp_ref[q] /\ pp_ref[q] \in 0..(REFMOD - 1)
    BY <1>1 DEF PageInv, RefsCounted, TypeOK
  <2>3. REFMOD \in Nat BY PageMapAssumption
  <2> QED BY <2>1, <2>2, <2>3
<1>3. REFMOD \in Nat BY PageMapAssumption
<1>4. /\ pp_ref' = [p \in Page |-> pp_ref[p] - Drops(e, p)]
      /\ page_free_list' = page_free_list \cup {p \in Page : Drops(e, p) > 0 /\ pp_ref[p] = Drops(e, p)}
      /\ UNCHANGED halted
  <2> DEFINE n == [p \in Page |-> Drops(e, p)]
  <2>1. \A p \in Page : n[p] = Drops(e, p) OBVIOUS
  <2>2. page_decref(n, page_free_list) BY <1>1
  <2> HIDE DEF n
  <2>3. ~\E p \in Page : pp_ref[p] < n[p] BY <1>2, <1>3, <2>1
  <2> QED BY <2>1, <2>2, <2>3 DEF page_decref
<1>5. /\ pte' \in [Env -> [VA -> Mapping \cup {NULL}]] /\ pde' \in [Env -> [Dir -> Page \cup {NULL}]]
      /\ \A f \in Env : f # e => pte'[f] = pte[f] /\ pde'[f] = pde[f]
  BY <1>1 DEF TypeOK
<1>6. TypeOK'
  <2>1. pp_ref' \in [Page -> 0..(REFMOD - 1)]
    <3>1. \A p \in Page : pp_ref[p] - Drops(e, p) \in 0..(REFMOD - 1) BY <1>2, <1>3
    <3> QED BY <1>4, <3>1
  <2>2. tlb' \subseteq tlb BY <1>1 DEF tlb_invalidate
  <2> QED BY <1>1, <1>4, <1>5, <2>1, <2>2 DEF TypeOK
<1>7. RefsCounted' BY <1>2, <1>4 DEF RefsCounted
<1>8. FreeUncounted'
  <2> SUFFICES ASSUME NEW q \in page_free_list' PROVE pp_ref'[q] = 0 BY DEF FreeUncounted
  <2>1. q \in Page BY <1>1, <1>4 DEF TypeOK
  <2>2. CASE q \in page_free_list
    <3>1. pp_ref[q] = 0 BY <2>2 DEF PageInv, FreeUncounted
    <3> QED BY <1>2, <1>3, <1>4, <2>1, <3>1
  <2>3. CASE pp_ref[q] = Drops(e, q) BY <1>2, <1>3, <1>4, <2>1, <2>3
  <2> QED BY <1>4, <2>2, <2>3
<1>9. TablesApart' /\ UnderTable' /\ AsidsDistinct'
  <2>1. \A f \in live' : f \in live /\ f # e /\ pte'[f] = pte[f] /\ pde'[f] = pde[f]
    BY <1>1, <1>5
  <2>2. TablesApart' BY <1>1, <2>1 DEF PageInv, TablesApart, Mapped, page_lookup
  <2>3. UnderTable' BY <2>1 DEF PageInv, UnderTable, Mapped
  <2>4. AsidsDistinct' BY <1>1, <2>1 DEF PageInv, AsidsDistinct
  <2> QED BY <2>2, <2>3, <2>4
<1>10. NoAssertFails' BY <1>1, <1>4 DEF NoAssertFails
<1>11. TlbCoherent'
  <2> SUFFICES ASSUME NEW y \in tlb', y.va \in UserVA
               PROVE  \E f \in live' : /\ env_asid[f] = y.asid
                                       /\ pte'[f][y.va] = [page |-> y.page, perm |-> y.perm]
    BY <1>1 DEF TlbCoherent
  <2>1. y \in tlb /\ (y.asid # env_asid[e] \/ y.va \notin {v \in UserVA : Mapped(e, v)})
    BY <1>1 DEF tlb_invalidate
  <2>2. PICK f \in live : env_asid[f] = y.asid /\ pte[f][y.va] = [page |-> y.page, perm |-> y.perm]
    BY <2>1 DEF PageInv, TlbCoherent
  <2>3. pte[f][y.va] # NULL
    <3>1. y.page \in Page /\ y.perm \in Perm BY <1>1, <2>1 DEF TypeOK, Entry
    <3>2. [page |-> y.page, perm |-> y.perm] \in Mapping BY <3>1 DEF Mapping
    <3> QED BY <2>2, <3>2, PageMapAssumption
  <2>4. f # e BY <2>1, <2>2, <2>3 DEF Mapped
  <2> QED BY <1>1, <1>5, <2>2, <2>4
<1> QED BY <1>6, <1>7, <1>8, <1>9, <1>10, <1>11 DEF PageInv

\* env_alloc gives the env a page directory and an ASID that are nobody's; when there
\* is no ASID left the page is lost, and no more.
LEMMA env_allocKeeps ==
  ASSUME PageInv, NoWrap, NEW e \in Env, env_alloc(e)
  PROVE  PageInv'
<1>1. /\ TypeOK /\ live \subseteq Env /\ e \notin live /\ UNCHANGED <<tlb, halted>>
      /\ pde' = [pde EXCEPT ![e] = [d \in Dir |-> NULL]]
      /\ pte' = [pte EXCEPT ![e] = [v \in VA |-> NULL]]
  BY DEF env_alloc, PageInv, TypeOK
<1>2. PICK p \in page_free_list :
        /\ pp_ref' = [pp_ref EXCEPT ![p] = (@ + 1) % REFMOD]
        /\ page_free_list' = page_free_list \ {p}
        /\ env_pgdir' = [env_pgdir EXCEPT ![e] = p]
  BY DEF env_alloc
<1>3. /\ p \in Page /\ pp_ref[p] = 0 /\ (pp_ref[p] + 1) % REFMOD = pp_ref[p] + 1
      /\ pp_ref[p] + 1 \in 0..(REFMOD - 1)
  <2>1. p \in Page /\ pp_ref[p] = 0 BY <1>1 DEF PageInv, FreeUncounted, TypeOK
  <2> QED BY <1>1, <2>1, Increment
<1>4. /\ env_asid' \in [Env -> Asid \cup {NULL}] /\ live' \in {live, live \cup {e}}
      /\ \A f \in Env : f # e => env_asid'[f] = env_asid[f]
      /\ e \in live' => env_asid'[e] # NULL /\ \A f \in live : env_asid'[e] # env_asid[f]
  <2> DEFINE free == Asid \ {env_asid[f] : f \in live}
  <2>1. ASSUME NEW a \in free, env_asid' = [env_asid EXCEPT ![e] = a], live' = live \cup {e}
        PROVE  /\ env_asid' \in [Env -> Asid \cup {NULL}] /\ live' \in {live, live \cup {e}}
               /\ \A f \in Env : f # e => env_asid'[f] = env_asid[f]
               /\ e \in live' => env_asid'[e] # NULL /\ \A f \in live : env_asid'[e] # env_asid[f]
    BY <1>1, <2>1, PageMapAssumption DEF TypeOK
  <2>2. CASE UNCHANGED <<env_asid, live>> BY <1>1, <2>2 DEF TypeOK
  <2> QED BY <2>1, <2>2 DEF env_alloc
<1>5. \A q \in Page : pp_ref'[q] = pp_ref[q] + One(p, q) /\ pp_ref[q] \in Int
  BY <1>1, <1>2, <1>3, PageMapAssumption DEF TypeOK, One
<1>6. /\ \A f \in Env : f # e => pte'[f] = pte[f] /\ pde'[f] = pde[f] /\ env_pgdir'[f] = env_pgdir[f]
      /\ \A v \in VA : pte'[e][v] = NULL
      /\ \A d \in Dir : pde'[e][d] = NULL
      /\ env_pgdir'[e] = p
      /\ pte' \in [Env -> [VA -> Mapping \cup {NULL}]] /\ pde' \in [Env -> [Dir -> Page \cup {NULL}]]
  BY <1>1, <1>2 DEF TypeOK
<1>7. \A f \in live : f \in live' /\ f # e /\ f \in Env BY <1>1, <1>4
<1>8. TypeOK'
  <2>1. pp_ref' \in [Page -> 0..(REFMOD - 1)] BY <1>1, <1>2, <1>3 DEF TypeOK
  <2>2. env_pgdir' \in [Env -> Page \cup {NULL}] BY <1>1, <1>2, <1>3 DEF TypeOK
  <2>3. \A f \in live' : env_pgdir'[f] # NULL /\ env_asid'[f] # NULL
    BY <1>1, <1>3, <1>4, <1>6, <1>7, PageMapAssumption DEF TypeOK
  <2> QED BY <1>1, <1>2, <1>4, <1>6, <2>1, <2>2, <2>3 DEF TypeOK
<1>9. RefsCounted'
  <2> SUFFICES ASSUME NEW q \in Page PROVE Pointers(q)' <= pp_ref'[q] BY DEF RefsCounted
  <2>0. q # NULL BY PageMapAssumption
  <2>1. MapsTo(q)' = MapsTo(q)
    <3>1. ASSUME NEW k, k \in MapsTo(q)' PROVE k \in MapsTo(q)
      <4>1. k \in live' \X VA /\ pte'[k[1]][k[2]] # NULL /\ pte'[k[1]][k[2]].page = q
        BY <3>1 DEF MapsTo, Mapped, page_lookup
      <4>2. k[1] # e /\ k[1] \in live /\ k \in live \X VA BY <4>1, <1>4, <1>6
      <4>3. pte'[k[1]] = pte[k[1]] BY <4>2, <1>6, <1>7
      <4> QED BY <4>1, <4>2, <4>3 DEF MapsTo, Mapped, page_lookup
    <3>2. ASSUME NEW k, k \in MapsTo(q) PROVE k \in MapsTo(q)'
      <4>1. k \in live \X VA /\ pte[k[1]][k[2]] # NULL /\ pte[k[1]][k[2]].page = q
        BY <3>2 DEF MapsTo, Mapped, page_lookup
      <4>2. pte'[k[1]] = pte[k[1]] /\ k \in live' \X VA BY <4>1, <1>6, <1>7
      <4> QED BY <4>1, <4>2 DEF MapsTo, Mapped, page_lookup
    <3> QED BY <3>1, <3>2
  <2>2. TablesAt(q)' = TablesAt(q)
    <3>1. ASSUME NEW k, k \in TablesAt(q)' PROVE k \in TablesAt(q)
      <4>1. k \in live' \X Dir /\ pde'[k[1]][k[2]] = q BY <3>1 DEF TablesAt
      <4>2. k[1] # e /\ k[1] \in live /\ k \in live \X Dir BY <4>1, <1>4, <1>6, <2>0
      <4>3. pde'[k[1]] = pde[k[1]] BY <4>2, <1>6, <1>7
      <4> QED BY <4>1, <4>2, <4>3 DEF TablesAt
    <3>2. ASSUME NEW k, k \in TablesAt(q) PROVE k \in TablesAt(q)'
      <4>1. k \in live \X Dir /\ pde[k[1]][k[2]] = q BY <3>2 DEF TablesAt
      <4>2. pde'[k[1]] = pde[k[1]] /\ k \in live' \X Dir BY <4>1, <1>6, <1>7
      <4> QED BY <4>1, <4>2 DEF TablesAt
    <3> QED BY <3>1, <3>2
  <2>3. /\ Cardinality(DirsAt(q)') <= Cardinality(DirsAt(q)) + One(p, q)
        /\ Cardinality(DirsAt(q)') \in Nat
    <3>1. DirsAt(q) \ {e} = DirsAt(q)' \ {e}
      <4>1. \A f : f # e => (f \in live <=> f \in live') BY <1>4
      <4>2. \A f \in live : env_pgdir'[f] = env_pgdir[f] BY <1>6, <1>7
      <4>3. \A f : f # e => (f \in DirsAt(q) <=> f \in DirsAt(q)') BY <4>1, <4>2 DEF DirsAt
      <4> QED BY <4>3
    <3>2. e \notin DirsAt(q) /\ (e \in DirsAt(q)' => p = q) BY <1>1, <1>6 DEF DirsAt
    <3>3. /\ Cardinality(DirsAt(q)) \in Nat /\ Cardinality(DirsAt(q)') \in Nat
          /\ Cardinality(DirsAt(q)') = Cardinality(DirsAt(q)) - (IF e \in DirsAt(q) THEN 1 ELSE 0)
                                        + (IF e \in DirsAt(q)' THEN 1 ELSE 0)
      BY <1>1, <3>1, Counted, OneElement
    <3> QED BY <3>2, <3>3 DEF One
  <2>4. /\ Cardinality(MapsTo(q)) \in Nat /\ Cardinality(TablesAt(q)) \in Nat
        /\ Cardinality(DirsAt(q)) \in Nat
    BY <1>1, Counted
  <2>6. Cardinality(MapsTo(q)) + Cardinality(TablesAt(q)) + Cardinality(DirsAt(q)) <= pp_ref[q]
    BY DEF PageInv, RefsCounted, Pointers
  <2>7. Pointers(q)' = Cardinality(MapsTo(q)) + Cardinality(TablesAt(q)) + Cardinality(DirsAt(q)')
    BY <2>1, <2>2 DEF Pointers
  <2>8. One(p, q) \in Nat BY DEF One
  <2> QED BY <1>5, <2>3, <2>4, <2>6, <2>7, <2>8
<1>10. FreeUncounted'
  BY <1>1, <1>2, <1>5 DEF PageInv, FreeUncounted, One, TypeOK
<1>11. ASSUME NEW f \in live
       PROVE  /\ env_pgdir[f] # p /\ \A d \in Dir : pde[f][d] # p
              /\ \A u \in VA : Mapped(f, u) => page_lookup(f, u) # p
  <2>1. ~(pp_ref[p] > 0) BY <1>3
  <2>2. p # NULL BY <1>3, PageMapAssumption
  <2> QED BY <2>1, <2>2, Pointed
<1>12. \A f \in live' : f = e \/ (f \in live /\ f # e /\ f \in Env) BY <1>1, <1>4
<1>13. TablesApart'
  <2> USE DEF Mapped, page_lookup
  <2> SUFFICES ASSUME NEW f \in live', NEW g \in live'
               PROVE  /\ env_pgdir'[f] = env_pgdir'[g] => f = g
                      /\ \A d \in Dir : pde'[g][d] # env_pgdir'[f]
                      /\ \A d, h \in Dir : pde'[f][d] # NULL /\ pde'[f][d] = pde'[g][h] => f = g /\ d = h
                      /\ \A u \in VA : pte'[g][u] # NULL =>
                           /\ pte'[g][u].page # env_pgdir'[f]
                           /\ \A d \in Dir : pte'[g][u].page # pde'[f][d]
    BY DEF TablesApart
  <2>1. p # NULL BY <1>3, PageMapAssumption
  <2>2. CASE f # e /\ g # e
    <3>1. /\ f \in live /\ g \in live /\ env_pgdir'[f] = env_pgdir[f] /\ env_pgdir'[g] = env_pgdir[g]
          /\ pde'[f] = pde[f] /\ pde'[g] = pde[g] /\ pte'[g] = pte[g]
      BY <2>2, <1>6, <1>12
    <3> QED BY <3>1 DEF PageInv, TablesApart
  <2>3. CASE f = e /\ g = e BY <2>1, <2>3, <1>6
  <2>4. CASE f = e /\ g # e
    <3>1. g \in live /\ env_pgdir'[g] = env_pgdir[g] /\ pde'[g] = pde[g] /\ pte'[g] = pte[g]
      BY <2>4, <1>6, <1>12
    <3>2. \A u \in VA : pte[g][u] # NULL => pte[g][u].page # NULL
      BY <3>1, Pointed, PageMapAssumption
    <3> QED BY <2>1, <2>4, <3>1, <3>2, <1>6, <1>11
  <2>5. CASE f # e /\ g = e
    <3>1. f \in live /\ env_pgdir'[f] = env_pgdir[f] /\ pde'[f] = pde[f]
      BY <2>5, <1>6, <1>12
    <3>2. env_pgdir[f] # NULL BY <1>1, <3>1 DEF TypeOK
    <3> QED BY <2>5, <3>1, <3>2, <1>6, <1>11
  <2> QED BY <2>2, <2>3, <2>4, <2>5
<1>14. UnderTable'
  BY <1>6, <1>12 DEF PageInv, UnderTable, Mapped
<1>15. AsidsDistinct'
  <2> SUFFICES ASSUME NEW f \in live', NEW g \in live', env_asid'[f] = env_asid'[g] PROVE f = g
    BY DEF AsidsDistinct
  <2>1. \A h \in live : env_asid'[h] = env_asid[h] BY <1>4, <1>7
  <2>2. AsidsDistinct BY DEF PageInv
  <2> QED BY <1>4, <1>12, <2>1, <2>2 DEF AsidsDistinct
<1>16. NoAssertFails' BY <1>1 DEF PageInv, NoAssertFails
<1>17. TlbCoherent'
  <2> SUFFICES ASSUME NEW y \in tlb, y.va \in UserVA
               PROVE  \E f \in live' : /\ env_asid'[f] = y.asid
                                       /\ pte'[f][y.va] = [page |-> y.page, perm |-> y.perm]
    BY <1>1 DEF TlbCoherent
  <2>1. PICK f \in live : env_asid[f] = y.asid /\ pte[f][y.va] = [page |-> y.page, perm |-> y.perm]
    BY DEF PageInv, TlbCoherent
  <2>2. f \in live' /\ env_asid'[f] = env_asid[f] /\ pte'[f] = pte[f] BY <1>4, <1>6, <1>7
  <2> QED BY <2>1, <2>2
<1> QED BY <1>8, <1>9, <1>10, <1>13, <1>14, <1>15, <1>16, <1>17 DEF PageInv

\* sys_mem_unmap takes one counted reference away, and the TLB forgets it.
LEMMA sys_mem_unmapKeeps ==
  ASSUME PageInv, NEW e \in live, NEW v \in VA, sys_mem_unmap(e, v)
  PROVE  PageInv'
<1> DEFINE p == pte[e][v].page
           n == [q \in Page |-> IF q = p THEN 1 ELSE 0]
<1>1. /\ TypeOK /\ e \in Env /\ live \subseteq Env /\ UNCHANGED <<live, env_pgdir, env_asid, pde>>
      /\ pte[e][v] # NULL /\ pte' = [pte EXCEPT ![e][v] = NULL] /\ halted = "no"
      /\ tlb_invalidate(env_asid[e], {v}) /\ page_decref(n, page_free_list)
  BY DEF sys_mem_unmap, PageInv, TypeOK, envs, Mapped, page_lookup
<1>2. p \in Page /\ pp_ref[p] > 0 BY <1>1, Pointed DEF Mapped, page_lookup
<1>3. \A q \in Page : /\ n[q] = One(p, q) /\ pp_ref[q] \in 0..(REFMOD - 1)
                      /\ One(p, q) \in {0, 1} /\ (One(p, q) = 1 <=> p = q)
  BY <1>1 DEF TypeOK, One
<1>4. REFMOD \in Nat BY PageMapAssumption
<1> HIDE DEF n, p
<1>5. \A q \in Page : /\ pp_ref[q] \in Nat /\ One(p, q) <= pp_ref[q]
                      /\ pp_ref[q] - One(p, q) \in 0..(REFMOD - 1)
  BY <1>2, <1>3, <1>4
<1>6. /\ pp_ref' = [q \in Page |-> pp_ref[q] - n[q]]
      /\ page_free_list' = page_free_list \cup {q \in Page : n[q] > 0 /\ pp_ref[q] = n[q]}
      /\ UNCHANGED halted
  <2>1. ~\E q \in Page : pp_ref[q] < n[q] BY <1>3, <1>5
  <2> QED BY <1>1, <2>1 DEF page_decref
<1>7. \A q \in Page : pp_ref'[q] = pp_ref[q] - One(p, q) BY <1>3, <1>6
<1>8. /\ \A f \in Env, u \in VA : pte'[f][u] = IF f = e /\ u = v THEN NULL ELSE pte[f][u]
      /\ pte' \in [Env -> [VA -> Mapping \cup {NULL}]]
  BY <1>1 DEF TypeOK
<1>9. TypeOK'
  <2>1. pp_ref' \in [Page -> 0..(REFMOD - 1)] BY <1>3, <1>5, <1>6
  <2>2. tlb' \subseteq tlb BY <1>1 DEF tlb_invalidate
  <2> QED BY <1>1, <1>6, <1>8, <2>1, <2>2 DEF TypeOK
<1>10. RefsCounted'
  <2> SUFFICES ASSUME NEW q \in Page PROVE Pointers(q)' <= pp_ref'[q] BY DEF RefsCounted
  <2>1. Cardinality(MapsTo(q)') = Cardinality(MapsTo(q)) - One(p, q)
    <3>1. PICK x \in Mapping \cup {NULL} : x = NULL OBVIOUS
    <3>2. \A f \in Env, u \in VA : pte'[f][u] = IF f = e /\ u = v THEN x ELSE pte[f][u]
      BY <1>8, <3>1
    <3>3. Cardinality(MapsTo(q)') = Cardinality(MapsTo(q))
            - (IF pte[e][v] # NULL /\ pte[e][v].page = q THEN 1 ELSE 0)
            + (IF x # NULL /\ x.page = q THEN 1 ELSE 0)
      BY <1>1, <3>2, SetPte
    <3>4. Cardinality(MapsTo(q)) \in Nat BY <1>1, Counted
    <3> QED BY <1>1, <3>1, <3>3, <3>4 DEF One, p
  <2>2. TablesAt(q)' = TablesAt(q) /\ DirsAt(q)' = DirsAt(q) BY <1>1 DEF TablesAt, DirsAt
  <2>3. /\ Cardinality(MapsTo(q)) \in Nat /\ Cardinality(TablesAt(q)) \in Nat
        /\ Cardinality(DirsAt(q)) \in Nat
    BY <1>1, Counted
  <2>4. Cardinality(MapsTo(q)) + Cardinality(TablesAt(q)) + Cardinality(DirsAt(q)) <= pp_ref[q]
    BY DEF PageInv, RefsCounted, Pointers
  <2>5. Pointers(q)' = Cardinality(MapsTo(q)') + Cardinality(TablesAt(q)) + Cardinality(DirsAt(q))
    BY <2>2 DEF Pointers
  <2> QED BY <1>3, <1>5, <1>7, <2>1, <2>3, <2>4, <2>5
<1>11. FreeUncounted'
  <2> SUFFICES ASSUME NEW q \in page_free_list' PROVE pp_ref'[q] = 0 BY DEF FreeUncounted
  <2>1. q \in Page BY <1>1, <1>6 DEF TypeOK
  <2>2. CASE q \in page_free_list
    <3>1. pp_ref[q] = 0 BY <2>2 DEF PageInv, FreeUncounted
    <3> QED BY <1>3, <1>5, <1>7, <2>1, <3>1
  <2>3. CASE pp_ref[q] = n[q] BY <1>3, <1>5, <1>7, <2>1, <2>3
  <2> QED BY <1>6, <2>2, <2>3
<1>12. \A f \in live, u \in VA : pte'[f][u] # NULL => pte'[f][u] = pte[f][u] BY <1>1, <1>8
<1>13. TablesApart'
  <2> USE DEF Mapped, page_lookup
  <2> SUFFICES ASSUME NEW f \in live, NEW g \in live, NEW u \in VA, pte'[g][u] # NULL
               PROVE  /\ pte'[g][u].page # env_pgdir[f]
                      /\ \A d \in Dir : pte'[g][u].page # pde[f][d]
    BY <1>1 DEF PageInv, TablesApart
  <2> QED BY <1>12 DEF PageInv, TablesApart
<1>14. UnderTable' /\ AsidsDistinct' /\ NoAssertFails'
  BY <1>1, <1>6, <1>12 DEF PageInv, UnderTable, AsidsDistinct, NoAssertFails, Mapped
<1>15. TlbCoherent'
  <2> SUFFICES ASSUME NEW y \in tlb', y.va \in UserVA
               PROVE  \E f \in live : /\ env_asid[f] = y.asid
                                      /\ pte'[f][y.va] = [page |-> y.page, perm |-> y.perm]
    BY <1>1 DEF TlbCoherent
  <2>1. y \in tlb /\ (y.asid # env_asid[e] \/ y.va # v) BY <1>1 DEF tlb_invalidate
  <2>2. PICK f \in live : env_asid[f] = y.asid /\ pte[f][y.va] = [page |-> y.page, perm |-> y.perm]
    BY <2>1 DEF PageInv, TlbCoherent
  <2>3. f \in Env /\ y.va \in VA BY <1>1, PageMapAssumption
  <2>4. pte'[f][y.va] = pte[f][y.va] BY <2>1, <2>2, <2>3, <1>8
  <2> QED BY <2>2, <2>4
<1> QED BY <1>9, <1>10, <1>11, <1>13, <1>14, <1>15 DEF PageInv

\* What the hart caches is the mapping of the env whose ASID it is cached under.
LEMMA TranslateKeeps ==
  ASSUME PageInv, NEW e \in live, NEW v \in VA, Translate(e, v)
  PROVE  PageInv'
<1> DEFINE new == [asid |-> env_asid[e], va |-> v, page |-> pte[e][v].page, perm |-> pte[e][v].perm]
<1>1. /\ TypeOK /\ e \in Env /\ live \subseteq Env /\ pte[e][v] # NULL /\ tlb' = tlb \cup {new}
      /\ UNCHANGED <<pp_ref, page_free_list, live, env_pgdir, env_asid, pde, pte, halted>>
  BY DEF Translate, PageInv, TypeOK, Mapped, envs, tables
<1>2. pte[e][v] \in Mapping /\ env_asid[e] \in Asid BY <1>1 DEF TypeOK
<1>3. new \in Entry BY <1>2 DEF Entry, Mapping
<1>4. pte[e][v] = [page |-> new.page, perm |-> new.perm] BY <1>2 DEF Mapping
<1>5. new.va = v /\ new.asid = env_asid[e] OBVIOUS
<1> HIDE DEF new
<1>6. TypeOK' BY <1>1, <1>3 DEF TypeOK
<1>7. RefsCounted'
  <2>1. \A p : MapsTo(p)' = MapsTo(p) /\ TablesAt(p)' = TablesAt(p) /\ DirsAt(p)' = DirsAt(p)
    BY <1>1 DEF MapsTo, TablesAt, DirsAt, Mapped, page_lookup
  <2> QED BY <1>1, <2>1 DEF PageInv, RefsCounted, Pointers
<1>8. FreeUncounted' /\ TablesApart' /\ UnderTable' /\ AsidsDistinct' /\ NoAssertFails'
  BY <1>1 DEF PageInv, FreeUncounted, TablesApart, UnderTable, AsidsDistinct, NoAssertFails,
              Mapped, page_lookup
<1>9. TlbCoherent'
  <2> SUFFICES ASSUME NEW y \in tlb', y.va \in UserVA
               PROVE  \E f \in live : /\ env_asid[f] = y.asid
                                      /\ pte[f][y.va] = [page |-> y.page, perm |-> y.perm]
    BY <1>1 DEF TlbCoherent
  <2>1. CASE y = new BY <2>1, <1>4, <1>5
  <2>2. CASE y \in tlb BY <2>2 DEF PageInv, TlbCoherent
  <2> QED BY <1>1, <2>1, <2>2
<1> QED BY <1>6, <1>7, <1>8, <1>9 DEF PageInv

\* A page from the free list, and a page that is mapped, holds no page table.
LEMMA FreshOrMapped ==
  ASSUME PageInv
  PROVE  /\ \A p \in page_free_list : p \in Page /\ NoTable(p)
         /\ \A f \in live, u \in VA : Mapped(f, u) =>
              /\ page_lookup(f, u) \in Page /\ page_lookup(f, u) \notin page_free_list
              /\ NoTable(page_lookup(f, u))
<1>1. ASSUME NEW p \in page_free_list PROVE p \in Page /\ NoTable(p)
  <2>1. p \in Page /\ pp_ref[p] = 0 BY DEF PageInv, TypeOK, FreeUncounted
  <2>2. ~(pp_ref[p] > 0) /\ p # NULL BY <2>1, PageMapAssumption
  <2> QED BY <2>1, <2>2, Pointed DEF NoTable
<1>2. ASSUME NEW f \in live, NEW u \in VA, Mapped(f, u)
      PROVE  /\ page_lookup(f, u) \in Page /\ page_lookup(f, u) \notin page_free_list
             /\ NoTable(page_lookup(f, u))
  <2>1. page_lookup(f, u) \in Page /\ pp_ref[page_lookup(f, u)] > 0 BY <1>2, Pointed
  <2>2. pp_ref[page_lookup(f, u)] # 0 BY <2>1
  <2>3. page_lookup(f, u) \notin page_free_list BY <2>2 DEF PageInv, FreeUncounted
  <2>4. NoTable(page_lookup(f, u))
    BY <1>2 DEF PageInv, TablesApart, NoTable
  <2> QED BY <2>1, <2>3, <2>4
<1> QED BY <1>1, <1>2

\* A page from page_alloc is mapped.
LEMMA FreshKeeps ==
  ASSUME PageInv, NoWrap, NEW e \in live, NEW v \in VA, NEW perm \in Perm,
         NEW p \in page_free_list, page_insert(e, p, v, perm, page_free_list \ {p}), UNCHANGED envs
  PROVE  PageInv'
<1> DEFINE free == page_free_list \ {p}
<1>1. p \in Page /\ NoTable(p) BY FreshOrMapped
<1>2. free \in SUBSET page_free_list /\ p \notin free /\ page_insert(e, p, v, perm, free) OBVIOUS
<1> HIDE DEF free
<1> QED BY <1>1, <1>2, InsertKeeps

\* A page that is mapped somewhere is mapped once more.
LEMMA SharedKeeps ==
  ASSUME PageInv, NoWrap, NEW e \in live, NEW v \in VA, NEW perm \in Perm,
         NEW f \in live, NEW u \in VA, Mapped(f, u),
         page_insert(e, page_lookup(f, u), v, perm, page_free_list), UNCHANGED envs
  PROVE  PageInv'
<1> DEFINE p == page_lookup(f, u)
<1>1. p \in Page /\ p \notin page_free_list /\ NoTable(p) BY FreshOrMapped
<1>2. page_free_list \in SUBSET page_free_list /\ page_insert(e, p, v, perm, page_free_list)
  OBVIOUS
<1> HIDE DEF p
<1> QED BY <1>1, <1>2, InsertKeeps

\* Every step keeps PageInv, unless a count is about to wrap.
LEMMA StepKeeps ==
  ASSUME PageInv, NoWrap, [Next]_mvars
  PROVE  PageInv'
<1>1. CASE UNCHANGED mvars
  <2>1. UNCHANGED <<pp_ref, page_free_list, envs, tables, tlb, halted>> BY <1>1 DEF mvars
  <2> QED BY <2>1, LessFree
<1>2. ASSUME NEW e \in Env, env_alloc(e) PROVE PageInv' BY <1>2, env_allocKeeps
<1>3. ASSUME NEW e \in Env, env_free(e) PROVE PageInv'
  <2>1. e \in live BY <1>3 DEF env_free
  <2> QED BY <1>3, <2>1, env_freeKeeps
<1>4. ASSUME NEW e \in Env, NEW v \in VA, sys_mem_unmap(e, v) PROVE PageInv'
  <2>1. e \in live BY <1>4 DEF sys_mem_unmap
  <2> QED BY <1>4, <2>1, sys_mem_unmapKeeps
<1>5. ASSUME NEW e \in Env, NEW v \in VA, Translate(e, v) PROVE PageInv'
  <2>1. e \in live BY <1>5 DEF Translate
  <2> QED BY <1>5, <2>1, TranslateKeeps
<1>6. ASSUME NEW e \in Env, NEW v \in VA, NEW perm \in Perm, sys_mem_alloc(e, v, perm)
      PROVE  PageInv'
  <2>1. e \in live /\ UNCHANGED envs BY <1>6 DEF sys_mem_alloc
  <2>2. PICK p \in page_free_list : page_insert(e, p, v, perm, page_free_list \ {p})
    BY <1>6 DEF sys_mem_alloc
  <2> QED BY <2>1, <2>2, FreshKeeps
<1>7. ASSUME NEW e \in Env, NEW v \in VA, NEW perm \in Perm, page_fault(e, v, perm)
      PROVE  PageInv'
  <2>1. e \in live /\ UNCHANGED envs BY <1>7 DEF page_fault
  <2>2. CASE halted' = "panic" /\ UNCHANGED <<pp_ref, page_free_list, tables, tlb>>
    BY <2>1, <2>2, LessFree
  <2>3. CASE \E p \in page_free_list : page_insert(e, p, v, perm, page_free_list \ {p})
    BY <2>1, <2>3, FreshKeeps
  <2> QED BY <1>7, <2>2, <2>3 DEF page_fault
<1>8. ASSUME NEW e \in Env, NEW v \in VA, NEW perm \in Perm, NEW f \in Env, NEW w \in VA,
             sys_mem_map(e, v, f, w, perm)
      PROVE  PageInv'
  <2>1. /\ e \in live /\ f \in live /\ Mapped(e, v) /\ UNCHANGED envs
        /\ page_insert(f, page_lookup(e, v), w, perm, page_free_list)
    BY <1>8 DEF sys_mem_map
  <2> QED BY <2>1, SharedKeeps
<1>9. ASSUME NEW e \in Env, NEW v \in VA, NEW perm \in Perm, NEW f \in Env, NEW w \in VA,
             sys_ipc_try_send(e, v, f, w, perm)
      PROVE  PageInv'
  <2>1. /\ e \in live /\ f \in live /\ Mapped(e, v) /\ UNCHANGED envs
        /\ page_insert(f, page_lookup(e, v), w, perm, page_free_list)
    BY <1>9 DEF sys_ipc_try_send
  <2> QED BY <2>1, SharedKeeps
<1> QED BY <1>1, <1>2, <1>3, <1>4, <1>5, <1>6, <1>7, <1>8, <1>9 DEF Next

\* At the start nothing refers to a page.
LEMMA InitPageInv == Init => PageInv
<1> SUFFICES ASSUME Init PROVE PageInv OBVIOUS
<1>1. TypeOK BY PageMapAssumption DEF Init, TypeOK
<1>2. RefsCounted
  <2> SUFFICES ASSUME NEW p \in Page PROVE Pointers(p) <= pp_ref[p] BY DEF RefsCounted
  <2>1. MapsTo(p) = {} /\ TablesAt(p) = {} /\ DirsAt(p) = {}
    BY DEF Init, MapsTo, TablesAt, DirsAt
  <2>2. Cardinality({}) = 0 BY FS_EmptySet
  <2>3. pp_ref[p] = 0 BY DEF Init
  <2> QED BY <2>1, <2>2, <2>3 DEF Pointers
<1>3. FreeUncounted BY DEF Init, FreeUncounted
<1>4. live = {} /\ tlb = {} /\ halted = "no" BY DEF Init
<1>5. TablesApart /\ UnderTable /\ AsidsDistinct /\ TlbCoherent /\ NoAssertFails
  BY <1>4 DEF TablesApart, UnderTable, AsidsDistinct, TlbCoherent, NoAssertFails
<1> QED BY <1>1, <1>2, <1>3, <1>5 DEF PageInv

-----------------------------------------------------------------------------
(* The types, and what env_free returns, whatever the counts do.           *)

\* page_insert keeps the types, also when a count wraps.
LEMMA InsertTypes ==
  ASSUME TypeOK, NEW e \in Env, NEW v \in VA, NEW p \in Page, NEW perm \in Perm,
         NEW free \in SUBSET page_free_list, page_insert(e, p, v, perm, free), UNCHANGED envs
  PROVE  TypeOK'
<1> DEFINE d   == PDX[v]
           old == pte[e][v]
           new == [page |-> p, perm |-> perm]
           count == (pp_ref[p] + 1) % REFMOD
<1>1. /\ d \in Dir /\ new \in Mapping /\ free \subseteq Page /\ pp_ref \in [Page -> 0..(REFMOD - 1)]
      /\ UNCHANGED <<live, env_pgdir, env_asid>> /\ REFMOD \in Nat /\ REFMOD > 1
  BY PageMapAssumption DEF TypeOK, Dir, Mapping, envs
<1>2. count \in 0..(REFMOD - 1)
  <2>1. pp_ref[p] \in 0..(REFMOD - 1) BY <1>1
  <2> QED BY <1>1, <2>1
<1>3. 1 \in 0..(REFMOD - 1) BY <1>1
<1>4. old # NULL => old.page \in Page /\ pp_ref[old.page] \in 0..(REFMOD - 1)
  BY <1>1 DEF TypeOK, Mapping
<1>5. pte' \in {pte, [pte EXCEPT ![e][v] = new]} BY DEF page_insert, tables
<1>6. pte' \in [Env -> [VA -> Mapping \cup {NULL}]]
  <2>1. pte \in [Env -> [VA -> Mapping \cup {NULL}]] /\ new \in Mapping BY <1>1 DEF TypeOK
  <2> HIDE DEF new
  <2>2. CASE pte' = pte BY <2>1, <2>2
  <2>3. CASE pte' = [pte EXCEPT ![e][v] = new] BY <2>1, <2>3
  <2> QED BY <1>5, <2>2, <2>3
<1>7. tlb' \subseteq tlb BY DEF page_insert, tlb_invalidate
<1>8. halted' \in {"no", "panic", "assert"} BY DEF page_insert, TypeOK
<1> HIDE DEF d, old, new, count
<1>9. pp_ref' \in [Page -> 0..(REFMOD - 1)] /\ page_free_list' \subseteq Page
  <2>1. CASE UNCHANGED pp_ref /\ page_free_list' \in {free, page_free_list}
    BY <1>1, <2>1 DEF TypeOK
  <2>2. CASE /\ old # NULL /\ old.page # p /\ pp_ref[old.page] # 0
             /\ pp_ref' = [pp_ref EXCEPT ![old.page] = @ - 1, ![p] = (@ + 1) % REFMOD]
             /\ page_free_list' \subseteq free \cup {old.page}
    <3>1. old.page \in Page /\ pp_ref[old.page] - 1 \in 0..(REFMOD - 1) BY <1>1, <1>4, <2>2
    <3>2. pp_ref' = [pp_ref EXCEPT ![old.page] = pp_ref[old.page] - 1, ![p] = count]
      BY <1>1, <2>2, <3>1 DEF count
    <3> QED BY <1>1, <1>2, <2>2, <3>1, <3>2
  <2>3. CASE pp_ref' = [pp_ref EXCEPT ![p] = (@ + 1) % REFMOD] /\ page_free_list' = free
    <3>1. pp_ref' = [pp_ref EXCEPT ![p] = count] BY <1>1, <2>3 DEF count
    <3> QED BY <1>1, <1>2, <2>3, <3>1
  <2>4. ASSUME NEW t \in free, pp_ref' = [pp_ref EXCEPT ![t] = 1, ![p] = (@ + 1) % REFMOD],
               page_free_list' = free \ {t}
        PROVE  pp_ref' \in [Page -> 0..(REFMOD - 1)] /\ page_free_list' \subseteq Page
    <3>1. PICK c \in 0..(REFMOD - 1) : pp_ref' = [pp_ref EXCEPT ![t] = 1, ![p] = c]
      <4>1. CASE t = p
        <5>1. (1 + 1) % REFMOD \in 0..(REFMOD - 1) BY <1>1
        <5>2. pp_ref' = [pp_ref EXCEPT ![t] = 1, ![p] = (1 + 1) % REFMOD] BY <1>1, <2>4, <4>1
        <5> QED BY <5>1, <5>2
      <4>2. CASE t # p
        <5>1. pp_ref' = [pp_ref EXCEPT ![t] = 1, ![p] = count] BY <1>1, <2>4, <4>2 DEF count
        <5> QED BY <1>2, <5>1
      <4> QED BY <4>1, <4>2
    <3> QED BY <1>1, <1>3, <2>4, <3>1
  <2> QED BY <2>1, <2>2, <2>3, <2>4 DEF page_insert, old
<1>10. pde' \in [Env -> [Dir -> Page \cup {NULL}]]
  <2>1. UNCHANGED pde \/ \E t \in free : pde' = [pde EXCEPT ![e][d] = t]
    BY DEF page_insert, tables, d
  <2>2. pde \in [Env -> [Dir -> Page \cup {NULL}]] /\ d \in Dir /\ free \subseteq Page
    BY <1>1 DEF TypeOK
  <2>3. CASE pde' = pde BY <2>2, <2>3
  <2>4. ASSUME NEW t \in free, pde' = [pde EXCEPT ![e][d] = t]
        PROVE  pde' \in [Env -> [Dir -> Page \cup {NULL}]]
    BY <2>2, <2>4
  <2> QED BY <2>1, <2>3, <2>4
<1> QED BY <1>1, <1>6, <1>7, <1>8, <1>9, <1>10 DEF TypeOK

\* page_decref keeps the types: its assertion stops an underflow.
LEMMA DecrefTypes ==
  ASSUME TypeOK, NEW n \in [Page -> Nat], page_decref(n, page_free_list)
  PROVE  /\ pp_ref' \in [Page -> 0..(REFMOD - 1)] /\ page_free_list' \subseteq Page
         /\ halted' \in {"no", "panic", "assert"}
         /\ halted' = "no" =>
              page_free_list' = page_free_list \cup {p \in Page : n[p] > 0 /\ pp_ref[p] = n[p]}
<1>1. CASE halted' = "assert" /\ UNCHANGED <<pp_ref, page_free_list>>
  BY <1>1 DEF TypeOK
<1>2. CASE /\ ~\E p \in Page : pp_ref[p] < n[p]
           /\ pp_ref' = [p \in Page |-> pp_ref[p] - n[p]]
           /\ page_free_list' = page_free_list \cup {p \in Page : n[p] > 0 /\ pp_ref[p] = n[p]}
           /\ UNCHANGED halted
  <2>1. ASSUME NEW p \in Page PROVE pp_ref[p] - n[p] \in 0..(REFMOD - 1)
    <3>1. pp_ref[p] \in 0..(REFMOD - 1) /\ n[p] \in Nat /\ ~(pp_ref[p] < n[p]) /\ REFMOD \in Nat
      BY <1>2, PageMapAssumption DEF TypeOK
    <3> QED BY <3>1
  <2> QED BY <1>2, <2>1 DEF TypeOK
<1> QED BY <1>1, <1>2 DEF page_decref

\* Every step keeps the types.
LEMMA TypesStep ==
  ASSUME TypeOK, [Next]_mvars
  PROVE  TypeOK'
<1>1. CASE UNCHANGED mvars BY <1>1 DEF mvars, envs, tables, TypeOK
<1>2. ASSUME NEW e \in Env, env_alloc(e) PROVE TypeOK'
  <2>1. PICK p \in page_free_list :
          /\ pp_ref' = [pp_ref EXCEPT ![p] = (@ + 1) % REFMOD]
          /\ page_free_list' = page_free_list \ {p}
          /\ env_pgdir' = [env_pgdir EXCEPT ![e] = p]
    BY <1>2 DEF env_alloc
  <2>2. p \in Page BY DEF TypeOK
  <2>3. (pp_ref[p] + 1) % REFMOD \in 0..(REFMOD - 1)
    <3>1. pp_ref[p] \in 0..(REFMOD - 1) /\ REFMOD \in Nat /\ REFMOD > 1
      BY <2>2, PageMapAssumption DEF TypeOK
    <3> QED BY <3>1
  <2>4. pp_ref' \in [Page -> 0..(REFMOD - 1)] BY <2>1, <2>2, <2>3 DEF TypeOK
  <2>5. /\ env_pgdir' \in [Env -> Page \cup {NULL}] /\ env_pgdir'[e] # NULL
        /\ \A f \in Env : f # e => env_pgdir'[f] = env_pgdir[f]
    BY <2>1, <2>2, PageMapAssumption DEF TypeOK
  <2>6. /\ env_asid' \in [Env -> Asid \cup {NULL}] /\ live' \subseteq Env
        /\ live' \in {live, live \cup {e}}
        /\ \A f \in live' : env_asid'[f] # NULL
    <3>1. CASE UNCHANGED <<env_asid, live>> BY <3>1 DEF TypeOK
    <3>2. ASSUME NEW a \in Asid, env_asid' = [env_asid EXCEPT ![e] = a], live' = live \cup {e}
          PROVE  /\ env_asid' \in [Env -> Asid \cup {NULL}] /\ live' \subseteq Env
                 /\ live' \in {live, live \cup {e}}
                 /\ \A f \in live' : env_asid'[f] # NULL
      BY <3>2, PageMapAssumption DEF TypeOK
    <3> QED BY <1>2, <3>1, <3>2 DEF env_alloc
  <2>7. \A f \in live' : env_pgdir'[f] # NULL BY <2>5, <2>6 DEF TypeOK
  <2>8. /\ pde' \in [Env -> [Dir -> Page \cup {NULL}]] /\ pte' \in [Env -> [VA -> Mapping \cup {NULL}]]
        /\ UNCHANGED <<tlb, halted>>
    BY <1>2 DEF TypeOK, env_alloc
  <2> QED BY <2>1, <2>4, <2>5, <2>6, <2>7, <2>8 DEF TypeOK
<1>3. ASSUME NEW e \in Env, env_free(e) PROVE TypeOK'
  <2> DEFINE n == [p \in Page |-> Drops(e, p)]
  <2>1. e \in live /\ page_decref(n, page_free_list) BY <1>3 DEF env_free
  <2>2. n \in [Page -> Nat] BY <1>3, <2>1, FreeCount
  <2> HIDE DEF n
  <2>3. /\ pp_ref' \in [Page -> 0..(REFMOD - 1)] /\ page_free_list' \subseteq Page
        /\ halted' \in {"no", "panic", "assert"}
    BY <2>1, <2>2, DecrefTypes
  <2>4. /\ pde' \in [Env -> [Dir -> Page \cup {NULL}]] /\ pte' \in [Env -> [VA -> Mapping \cup {NULL}]]
        /\ live' \subseteq live /\ UNCHANGED <<env_pgdir, env_asid>> /\ tlb' \subseteq tlb
    BY <1>3 DEF TypeOK, env_free, tlb_invalidate
  <2> QED BY <2>3, <2>4 DEF TypeOK
<1>4. ASSUME NEW e \in Env, NEW v \in VA, sys_mem_unmap(e, v) PROVE TypeOK'
  <2> DEFINE n == [p \in Page |-> IF p = page_lookup(e, v) THEN 1 ELSE 0]
  <2>1. n \in [Page -> Nat] /\ page_decref(n, page_free_list) BY <1>4 DEF sys_mem_unmap
  <2> HIDE DEF n
  <2>2. /\ pp_ref' \in [Page -> 0..(REFMOD - 1)] /\ page_free_list' \subseteq Page
        /\ halted' \in {"no", "panic", "assert"}
    BY <2>1, DecrefTypes
  <2>3. /\ pte' \in [Env -> [VA -> Mapping \cup {NULL}]] /\ tlb' \subseteq tlb
        /\ UNCHANGED <<pde, live, env_pgdir, env_asid>>
    BY <1>4 DEF TypeOK, sys_mem_unmap, tlb_invalidate, envs
  <2> QED BY <2>2, <2>3 DEF TypeOK
<1>5. ASSUME NEW e \in Env, NEW v \in VA, Translate(e, v) PROVE TypeOK'
  <2>1. /\ pte[e][v] \in Mapping /\ env_asid[e] \in Asid
        /\ UNCHANGED <<pp_ref, page_free_list, live, env_pgdir, env_asid, pde, pte, halted>>
    BY <1>5 DEF TypeOK, Translate, Mapped, envs, tables
  <2>2. tlb' \subseteq Entry BY <1>5, <2>1 DEF TypeOK, Translate, Entry, Mapping
  <2> QED BY <2>1, <2>2 DEF TypeOK
<1>6. ASSUME NEW e \in Env, NEW v \in VA, NEW perm \in Perm, NEW p \in page_free_list,
             page_insert(e, p, v, perm, page_free_list \ {p}), UNCHANGED envs
      PROVE  TypeOK'
  <2> DEFINE free == page_free_list \ {p}
  <2>1. p \in Page /\ free \in SUBSET page_free_list /\ page_insert(e, p, v, perm, free)
    BY <1>6 DEF TypeOK
  <2> HIDE DEF free
  <2> QED BY <1>6, <2>1, InsertTypes
<1>7. ASSUME NEW e \in Env, NEW v \in VA, NEW perm \in Perm, NEW f \in Env, NEW w \in VA,
             Mapped(e, v), page_insert(f, page_lookup(e, v), w, perm, page_free_list), UNCHANGED envs
      PROVE  TypeOK'
  <2> DEFINE p == page_lookup(e, v)
  <2>1. /\ p \in Page /\ page_free_list \in SUBSET page_free_list
        /\ page_insert(f, p, w, perm, page_free_list)
    BY <1>7 DEF TypeOK, Mapped, Mapping, page_lookup
  <2> HIDE DEF p
  <2> QED BY <1>7, <2>1, InsertTypes
<1>8. ASSUME NEW e \in Env, NEW v \in VA, NEW perm \in Perm, page_fault(e, v, perm)
      PROVE  TypeOK'
  <2>1. CASE halted' = "panic" /\ UNCHANGED <<pp_ref, page_free_list, tables, tlb>>
    BY <1>8, <2>1 DEF page_fault, TypeOK, envs, tables
  <2>2. CASE \E p \in page_free_list : page_insert(e, p, v, perm, page_free_list \ {p})
    BY <1>6, <1>8, <2>2 DEF page_fault
  <2> QED BY <1>8, <2>1, <2>2 DEF page_fault
<1>9. ASSUME NEW e \in Env, NEW v \in VA, NEW perm \in Perm, sys_mem_alloc(e, v, perm)
      PROVE  TypeOK'
  BY <1>6, <1>9 DEF sys_mem_alloc
<1>10. ASSUME NEW e \in Env, NEW v \in VA, NEW perm \in Perm, NEW f \in Env, NEW w \in VA,
              sys_mem_map(e, v, f, w, perm) \/ sys_ipc_try_send(e, v, f, w, perm)
       PROVE  TypeOK'
  BY <1>7, <1>10 DEF sys_mem_map, sys_ipc_try_send
<1> QED BY <1>1, <1>2, <1>3, <1>4, <1>5, <1>8, <1>9, <1>10 DEF Next

\* What env_free returns to the free list.
LEMMA FreesStep ==
  ASSUME TypeOK, [Next]_mvars, NEW e \in live \ live', halted' = "no", NEW p \in Page,
         pp_ref[p] = Pointers(p), Pointers(p) > 0,
         \A m \in MapsTo(p) : m[1] = e /\ m[2] \in UserVA,
         \A m \in TablesAt(p) : m[1] = e /\ m[2] \in UserDir,
         DirsAt(p) \subseteq {e}
  PROVE  p \in page_free_list'
<1> DEFINE n == [q \in Page |-> Drops(e, q)]
<1>1. e \in Env BY DEF TypeOK
<1>2. env_free(e)
  <2>1. \A f \in Env : env_alloc(f) => live \subseteq live' BY DEF env_alloc
  <2>2. \A f \in Env : env_free(f) => live' = live \ {f} BY DEF env_free
  <2>3. UNCHANGED envs => live' = live BY DEF envs
  <2>4. UNCHANGED mvars => live' = live BY DEF mvars, envs
  <2>5. \A f \in Env, v \in VA : sys_mem_unmap(f, v) \/ Translate(f, v) => UNCHANGED envs
    BY DEF sys_mem_unmap, Translate
  <2>6. \A f \in Env, v \in VA, perm \in Perm :
          sys_mem_alloc(f, v, perm) \/ page_fault(f, v, perm) => UNCHANGED envs
    BY DEF sys_mem_alloc, page_fault
  <2>7. \A f \in Env, v \in VA, perm \in Perm, g \in Env, w \in VA :
          sys_mem_map(f, v, g, w, perm) \/ sys_ipc_try_send(f, v, g, w, perm) => UNCHANGED envs
    BY DEF sys_mem_map, sys_ipc_try_send
  <2> QED BY <2>1, <2>2, <2>3, <2>4, <2>5, <2>6, <2>7 DEF Next
<1>3. Drops(e, p) = Pointers(p) BY <1>2, FreeCount
<1>4. n \in [Page -> Nat] BY <1>2, FreeCount
<1>5. n[p] = pp_ref[p] /\ n[p] > 0 BY <1>3
<1>6. page_decref(n, page_free_list) BY <1>2 DEF env_free
<1> HIDE DEF n
<1>7. page_free_list' = page_free_list \cup {q \in Page : n[q] > 0 /\ pp_ref[q] = n[q]}
  BY <1>4, <1>6, DecrefTypes
<1> QED BY <1>5, <1>7
-----------------------------------------------------------------------------
(* The theorems.                                                           *)

\* Every state is well typed: kern/pmap.c and kern/env.c never take a page or an
\* ASID that is not theirs to take, whether or not a count wraps.
THEOREM Types == Spec => []TypeOK
<1>1. Init => TypeOK BY InitPageInv DEF PageInv
<1>2. TypeOK /\ [Next]_mvars => TypeOK' BY TypesStep
<1> QED BY <1>1, <1>2, PTL DEF Spec

\* env_free: "Free env e and all memory it uses."  A page that only e refers to is
\* on the free list after env_free(e), for every way the page came to e.
THEOREM Frees == Spec => FreesUser
<1> DEFINE A == \A e \in live \ live' : halted' = "no" =>
       \A p \in Page :
         /\ pp_ref[p] = Pointers(p) /\ Pointers(p) > 0
         /\ \A m \in MapsTo(p) : m[1] = e /\ m[2] \in UserVA
         /\ \A m \in TablesAt(p) : m[1] = e /\ m[2] \in UserDir
         /\ DirsAt(p) \subseteq {e}
         => p \in page_free_list'
<1>1. TypeOK /\ [Next]_mvars => [A]_mvars BY FreesStep
<1>2. Spec => [][A]_mvars
  <2> HIDE DEF A
  <2>1. TypeOK /\ [Next]_mvars => [A]_mvars BY <1>1
  <2> QED BY <2>1, Types, PTL DEF Spec
<1> QED BY <1>2 DEF FreesUser

\* The inductive invariant, as long as no reference count wraps.
THEOREM PageInvariant == Spec /\ []NoWrap => []PageInv
<1>1. Init => PageInv BY InitPageInv
<1>2. PageInv /\ NoWrap /\ [Next]_mvars => PageInv' BY StepKeeps
<1> QED BY <1>1, <1>2, PTL DEF Spec

\* pp_ref counts every pointer that a live env holds: page_insert, page_remove and
\* env_free keep the count together.
THEOREM Counts == Spec /\ []NoWrap => []RefsCounted
<1>1. PageInv => RefsCounted BY DEF PageInv
<1> QED BY <1>1, PageInvariant, PTL

\* A page on page_free_list is referred to by nothing: page_alloc never gives a page
\* out twice.
THEOREM NeverFreedInUse == Spec /\ []NoWrap => []NoUseAfterFree
<1>1. PageInv => NoUseAfterFree
  <2> SUFFICES ASSUME PageInv, NEW p \in page_free_list PROVE pp_ref[p] = 0 /\ Pointers(p) = 0
    BY DEF NoUseAfterFree
  <2>1. TypeOK /\ p \in Page /\ pp_ref[p] = 0 /\ Pointers(p) <= pp_ref[p]
    BY DEF PageInv, TypeOK, FreeUncounted, RefsCounted
  <2>2. /\ Cardinality(MapsTo(p)) \in Nat /\ Cardinality(TablesAt(p)) \in Nat
        /\ Cardinality(DirsAt(p)) \in Nat
    BY <2>1, Counted
  <2> QED BY <2>1, <2>2 DEF Pointers
<1> QED BY <1>1, PageInvariant, PTL

\* A page table or page directory has one pointer, its env's, and no user mapping.
THEOREM TablesOwn == Spec /\ []NoWrap => []TablesPrivate
<1>1. PageInv => TablesPrivate
  <2> SUFFICES ASSUME PageInv, NEW p \in Page,
                      Cardinality(TablesAt(p)) + Cardinality(DirsAt(p)) > 0
               PROVE  Pointers(p) = 1 /\ MapsTo(p) = {}
    BY DEF TablesPrivate
  <2>1. TypeOK /\ TablesApart /\ p # NULL BY PageMapAssumption DEF PageInv
  <2>2. Cardinality({}) = 0 /\ \A x : Cardinality({x}) = 1 BY FS_EmptySet, FS_Singleton
  <2>3. ASSUME NEW e \in live, env_pgdir[e] = p PROVE Pointers(p) = 1 /\ MapsTo(p) = {}
    <3>1. DirsAt(p) = {e} BY <2>1, <2>3 DEF DirsAt, TablesApart
    <3>2. TablesAt(p) = {} BY <2>1, <2>3 DEF TablesAt, TablesApart
    <3>3. MapsTo(p) = {} BY <2>1, <2>3 DEF MapsTo, TablesApart
    <3>4. Cardinality(DirsAt(p)) = 1 BY <2>2, <3>1, <3>2
    <3>5. Cardinality(TablesAt(p)) = 0 /\ Cardinality(MapsTo(p)) = 0 BY <2>2, <3>1, <3>2, <3>3
    <3> QED BY <3>3, <3>4, <3>5 DEF Pointers
  <2>4. ASSUME NEW e \in live, NEW d \in Dir, pde[e][d] = p
        PROVE  Pointers(p) = 1 /\ MapsTo(p) = {}
    <3>1. DirsAt(p) = {} BY <2>1, <2>4 DEF DirsAt, TablesApart
    <3>2. TablesAt(p) = {<<e, d>>}
      <4>1. <<e, d>> \in TablesAt(p) BY <2>4 DEF TablesAt
      <4>2. ASSUME NEW k \in TablesAt(p) PROVE k = <<e, d>>
        <5>1. k \in live \X Dir /\ pde[k[1]][k[2]] = p BY DEF TablesAt
        <5>2. k[1] = e /\ k[2] = d BY <2>1, <2>4, <5>1 DEF TablesApart
        <5> QED BY <5>1, <5>2
      <4> QED BY <4>1, <4>2
    <3>3. MapsTo(p) = {} BY <2>1, <2>4 DEF MapsTo, TablesApart
    <3>4. Cardinality(TablesAt(p)) = 1 BY <2>2, <3>1, <3>2
    <3>5. Cardinality(DirsAt(p)) = 0 /\ Cardinality(MapsTo(p)) = 0 BY <2>2, <3>1, <3>2, <3>3
    <3> QED BY <3>3, <3>4, <3>5 DEF Pointers
  <2>5. TablesAt(p) # {} \/ DirsAt(p) # {} BY <2>2
  <2> QED BY <2>3, <2>4, <2>5 DEF TablesAt, DirsAt
<1> QED BY <1>1, PageInvariant, PTL

\* The sfence.vma of page_insert, page_remove and env_free are enough: the TLB holds
\* no user translation that the page tables do not, also when an ASID is used again.
THEOREM TlbNeverStale == Spec /\ []NoWrap => []TlbCoherent
<1>1. PageInv => TlbCoherent BY DEF PageInv
<1> QED BY <1>1, PageInvariant, PTL

\* page_decref's assertion that pp_ref > 0 never fails.
THEOREM AssertsHold == Spec /\ []NoWrap => []NoAssertFails
<1>1. PageInv => NoAssertFails BY DEF PageInv
<1> QED BY <1>1, PageInvariant, PTL
================================================================================
