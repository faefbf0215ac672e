-------------------------------- MODULE PageMap --------------------------------
(***************************************************************************)
(* Physical pages, their reference counts and the two-level page tables of *)
(* the envs: kern/pmap.c, the parts of kern/env.c that set up and tear     *)
(* down an address space, the memory syscalls of kern/syscall_all.c, the   *)
(* page that sys_ipc_try_send maps and the page faults of kern/traps.c.    *)
(*                                                                         *)
(* Which env may name which other env is modelled in EnvKernel; here a     *)
(* syscall may name any live env, which includes all that envid2env lets   *)
(* through.  Each action is one trap, atomic because interrupts are off.   *)
(* Page contents are left out.                                             *)
(*                                                                         *)
(* page_insert ORs the perm it is given into the entry, whose page number  *)
(* starts at bit 10, and the syscalls pass on what their caller gave.  The *)
(* library and the programs give PTE_ bits only: those are the perms of    *)
(* this module, and what it shows is for callers that give no others.      *)
(***************************************************************************)
EXTENDS Integers, FiniteSets

CONSTANTS
  Env,      (* the slots of envs                                            *)
  Asid,     (* the address space identifiers                                *)
  Page,     (* the pages that page_init puts on page_free_list              *)
  VA,       (* virtual pages below ULIM that no template table maps         *)
  PDX,      (* PDX[va]: the page directory slot of va                       *)
  UserVA,   (* the part of VA below UTOP; the rest is in [UVPT, ULIM)       *)
  LegalVA,  (* the part of UserVA that is not below UTEMP                   *)
  PanicVA,  (* where passive_alloc panics: below UTEMP and at USTACKTOP     *)
  Perm,     (* permissions: combinations of the PTE_ bits, all below bit 10 *)
  REFMOD,   (* pp_ref is a u_short: it counts modulo REFMOD                 *)
  NULL

Dir     == {PDX[v] : v \in VA}
UserDir == {PDX[v] : v \in UserVA}
Mapping == [page : Page, perm : Perm]
Entry   == [asid : Asid, va : VA, page : Page, perm : Perm]

ASSUME PageMapAssumption ==
  /\ IsFiniteSet(Env) /\ IsFiniteSet(Page) /\ IsFiniteSet(VA)
  /\ NULL \notin Page /\ NULL \notin Asid /\ NULL \notin Mapping
  /\ LegalVA \subseteq UserVA /\ UserVA \subseteq VA
  /\ UserVA \ LegalVA \subseteq PanicVA /\ PanicVA \subseteq UserVA
  /\ DOMAIN PDX = VA
  /\ \A u \in UserVA, w \in VA \ UserVA : PDX[u] # PDX[w]  \* UTOP is aligned
  /\ REFMOD \in Nat /\ REFMOD > 1

VARIABLES
  pp_ref,          (* pp_ref of each page                                   *)
  page_free_list,  (* the pages on the free list; only its first element is *)
                   (* ever taken, here any: the order does not matter       *)
  live,            (* the envs that are not ENV_FREE                        *)
  env_pgdir,       (* the page that holds an env's page directory           *)
  env_asid,        (* the ASID of a live env                                *)
  pde,             (* pde[e][d]: the page table in slot d, or NULL          *)
  pte,             (* pte[e][v]: the mapping of v, or NULL                  *)
  tlb,             (* translations the hart may have cached                 *)
  halted           (* "no", or "panic", "assert"                            *)

tables == <<pde, pte>>
envs   == <<live, env_pgdir, env_asid>>
mvars  == <<pp_ref, page_free_list, envs, tables, tlb, halted>>

Init ==
  /\ pp_ref = [p \in Page |-> 0]
  /\ page_free_list = Page
  /\ live = {}
  /\ env_pgdir = [e \in Env |-> NULL]
  /\ env_asid = [e \in Env |-> NULL]
  /\ pde = [e \in Env |-> [d \in Dir |-> NULL]]
  /\ pte = [e \in Env |-> [v \in VA |-> NULL]]
  /\ tlb = {}
  /\ halted = "no"

-----------------------------------------------------------------------------
(* The helpers of pmap.c.                                                  *)

Mapped(e, v) == pte[e][v] # NULL

\* page_lookup, for a va that is mapped.
page_lookup(e, v) == pte[e][v].page

\* An sfence.vma that is not executed.
tlb_invalidateNot(asid, vs) == tlb' = tlb

\* sfence.vma with an address and an ASID.  Only translations of addresses are cached
\* here; that a hart may keep entries of the page directory apart, which such a fence
\* need not order, is left out.
tlb_invalidate(asid, vs) == tlb' = {t \in tlb : t.asid # asid \/ t.va \notin vs}

\* A page_decref that frees a page that is still referenced.
page_decrefEager(n, free) ==
  IF \E p \in Page : pp_ref[p] < n[p]
  THEN halted' = "assert" /\ UNCHANGED <<pp_ref, page_free_list>>
  ELSE /\ pp_ref' = [p \in Page |-> pp_ref[p] - n[p]]
       /\ page_free_list' = free \cup {p \in Page : n[p] > 0}
       /\ UNCHANGED halted

\* page_decref, n[p] times for each page p: the assertion of page_decref, or the
\* pages that page_free returns to the list, which is now free.
page_decref(n, free) ==
  IF \E p \in Page : pp_ref[p] < n[p]
  THEN halted' = "assert" /\ UNCHANGED <<pp_ref, page_free_list>>
  ELSE /\ pp_ref' = [p \in Page |-> pp_ref[p] - n[p]]
       /\ page_free_list' = free \cup {p \in Page : n[p] > 0 /\ pp_ref[p] = n[p]}
       /\ UNCHANGED halted

\* page_insert(pgdir of e, p, v, perm), with the free list as page_alloc left it.  The
\* entry is p's number OR perm: for the permissions of Perm these do not overlap.
\* A page that is mapped at v already only gets its permission changed; another
\* page is removed first, and then v's page table exists; without a page table one
\* is allocated, and when that fails -E_NO_MEM is returned and p stays as it was.
page_insert(e, p, v, perm, free) ==
  LET d   == PDX[v]
      old == pte[e][v]
      new == [page |-> p, perm |-> perm]
  IN
  \/ /\ old # NULL /\ old.page = p
     /\ pte' = [pte EXCEPT ![e][v] = new]
     /\ page_free_list' = free
     /\ tlb_invalidate(env_asid[e], {v})
     /\ UNCHANGED <<pp_ref, pde, halted>>
  \/ /\ old # NULL /\ old.page # p
     /\ IF pp_ref[old.page] = 0
        THEN halted' = "assert" /\ UNCHANGED <<pp_ref, page_free_list, pte, tlb>>
        ELSE /\ pp_ref' = [pp_ref EXCEPT ![old.page] = @ - 1, ![p] = (@ + 1) % REFMOD]
             /\ page_free_list' = IF pp_ref[old.page] = 1
                                  THEN free \cup {old.page} ELSE free
             /\ pte' = [pte EXCEPT ![e][v] = new]
             /\ tlb_invalidate(env_asid[e], {v})
             /\ UNCHANGED halted
     /\ UNCHANGED pde
  \/ /\ old = NULL /\ pde[e][d] # NULL
     /\ pp_ref' = [pp_ref EXCEPT ![p] = (@ + 1) % REFMOD]
     /\ page_free_list' = free
     /\ pte' = [pte EXCEPT ![e][v] = new]
     /\ tlb_invalidate(env_asid[e], {v})
     /\ UNCHANGED <<pde, halted>>
  \/ /\ pde[e][d] = NULL
     /\ \E t \in free :
          /\ pp_ref' = [pp_ref EXCEPT ![t] = 1, ![p] = (@ + 1) % REFMOD]
          /\ page_free_list' = free \ {t}
          /\ pde' = [pde EXCEPT ![e][d] = t]
     /\ pte' = [pte EXCEPT ![e][v] = new]
     /\ tlb_invalidate(env_asid[e], {v})
     /\ UNCHANGED halted
  \/ /\ pde[e][d] = NULL /\ free = {}
     /\ page_free_list' = free
     /\ UNCHANGED <<pp_ref, tables, tlb, halted>>

-----------------------------------------------------------------------------
(* Address spaces.                                                         *)

\* An env_alloc that does not store the ASID.
env_allocNoAsid(e) ==
  /\ halted = "no" /\ e \notin live
  /\ \E p \in page_free_list :
       /\ pp_ref' = [pp_ref EXCEPT ![p] = (@ + 1) % REFMOD]
       /\ page_free_list' = page_free_list \ {p}
       /\ env_pgdir' = [env_pgdir EXCEPT ![e] = p]
  /\ pde' = [pde EXCEPT ![e] = [d \in Dir |-> NULL]]
  /\ pte' = [pte EXCEPT ![e] = [v \in VA |-> NULL]]
  /\ live' = live \cup {e}
  /\ UNCHANGED <<env_asid, tlb, halted>>

\* env_alloc: env_setup_vm takes a page for the directory, then asid_alloc may fail.
env_alloc(e) ==
  /\ halted = "no" /\ e \notin live
  /\ \E p \in page_free_list :
       /\ pp_ref' = [pp_ref EXCEPT ![p] = (@ + 1) % REFMOD]
       /\ page_free_list' = page_free_list \ {p}
       /\ env_pgdir' = [env_pgdir EXCEPT ![e] = p]
  /\ pde' = [pde EXCEPT ![e] = [d \in Dir |-> NULL]]
  /\ pte' = [pte EXCEPT ![e] = [v \in VA |-> NULL]]
  /\ LET free == Asid \ {env_asid[f] : f \in live} IN
     \/ \E a \in free : /\ env_asid' = [env_asid EXCEPT ![e] = a]
                        /\ live' = live \cup {e}
     \/ free = {} /\ UNCHANGED <<env_asid, live>>
  /\ UNCHANGED <<tlb, halted>>

\* An env_free that drops every mapping twice.
DropsTwice(e, p) ==
    2 * Cardinality({v \in UserVA : Mapped(e, v) /\ page_lookup(e, v) = p})
  + Cardinality({d \in UserDir : pde[e][d] = p})
  + (IF env_pgdir[e] = p THEN 1 ELSE 0)

\* An env_free that leaves the page tables.
DropsNoTables(e, p) ==
    Cardinality({v \in UserVA : Mapped(e, v) /\ page_lookup(e, v) = p})
  + (IF env_pgdir[e] = p THEN 1 ELSE 0)

\* How often env_free passes p to page_decref: for its mappings below UTOP, for the
\* page tables below UTOP, and for the page directory.
Drops(e, p) ==
    Cardinality({v \in UserVA : Mapped(e, v) /\ page_lookup(e, v) = p})
  + Cardinality({d \in UserDir : pde[e][d] = p})
  + (IF env_pgdir[e] = p THEN 1 ELSE 0)

env_free(e) ==
  /\ halted = "no" /\ e \in live
  /\ page_decref([p \in Page |-> Drops(e, p)], page_free_list)
  /\ tlb_invalidate(env_asid[e], {v \in UserVA : Mapped(e, v)})
  /\ live' = live \ {e}
  /\ pde' = [pde EXCEPT ![e] = [d \in Dir |-> IF d \in UserDir THEN NULL ELSE @[d]]]
  /\ pte' = [pte EXCEPT ![e] = [v \in VA |-> IF v \in UserVA THEN NULL ELSE @[v]]]
  /\ UNCHANGED <<env_pgdir, env_asid>>

-----------------------------------------------------------------------------
(* Syscalls and faults, made by some live env.                             *)

\* A sys_mem_alloc whose page_alloc leaves the page on the free list.
mem_allocStays(e, v, perm) ==
  /\ halted = "no" /\ e \in live /\ v \in LegalVA
  /\ \E p \in page_free_list : page_insert(e, p, v, perm, page_free_list)
  /\ UNCHANGED envs

\* sys_mem_alloc; without a free page it returns -E_NO_MEM and changes nothing.
sys_mem_alloc(e, v, perm) ==
  /\ halted = "no" /\ e \in live /\ v \in LegalVA
  /\ \E p \in page_free_list : page_insert(e, p, v, perm, page_free_list \ {p})
  /\ UNCHANGED envs

sys_mem_map(src, sv, dst, dv, perm) ==
  /\ halted = "no" /\ src \in live /\ dst \in live
  /\ sv \in LegalVA /\ dv \in LegalVA /\ Mapped(src, sv)
  /\ page_insert(dst, page_lookup(src, sv), dv, perm, page_free_list)
  /\ UNCHANGED envs

\* sys_mem_unmap of a va that is mapped (page_remove).
sys_mem_unmap(e, v) ==
  /\ halted = "no" /\ e \in live /\ v \in LegalVA /\ Mapped(e, v)
  /\ page_decref([p \in Page |-> IF p = page_lookup(e, v) THEN 1 ELSE 0], page_free_list)
  /\ pte' = [pte EXCEPT ![e][v] = NULL]
  /\ tlb_invalidate(env_asid[e], {v})
  /\ UNCHANGED <<envs, pde>>

\* The page part of sys_ipc_try_send from e: the receiver's env_ipc_dstva is a legal
\* address or 0, and 0 is mapped like any other.
sys_ipc_try_send(e, sv, to, dstva, perm) ==
  /\ halted = "no" /\ e \in live /\ to \in live /\ e # to
  /\ sv \in LegalVA /\ dstva \in UserVA /\ Mapped(e, sv)
  /\ page_insert(to, page_lookup(e, sv), dstva, perm, page_free_list)
  /\ UNCHANGED envs

\* A fault of the running env on an unmapped va: normal_page_fault and
\* passive_alloc.  Below UTEMP, in the page at USTACKTOP, or without memory for the
\* page or for its page table, the kernel panics.  In [UVPT, ULIM) only a store comes
\* here.
page_fault(e, v, perm) ==
  /\ halted = "no" /\ e \in live /\ ~Mapped(e, v)
  /\ \/ /\ \/ v \in PanicVA
           \/ page_free_list = {}
           \/ pde[e][PDX[v]] = NULL /\ Cardinality(page_free_list) = 1
        /\ halted' = "panic"
        /\ UNCHANGED <<pp_ref, page_free_list, tables, tlb>>
     \/ /\ v \notin PanicVA
        /\ pde[e][PDX[v]] # NULL \/ Cardinality(page_free_list) > 1
        /\ \E p \in page_free_list : page_insert(e, p, v, perm, page_free_list \ {p})
  /\ UNCHANGED envs

\* The hart translates an access of the running env.
Translate(e, v) ==
  /\ halted = "no" /\ e \in live /\ Mapped(e, v)
  /\ tlb' = tlb \cup {[asid |-> env_asid[e], va |-> v, page |-> pte[e][v].page,
                       perm |-> pte[e][v].perm]}
  /\ UNCHANGED <<pp_ref, page_free_list, envs, tables, halted>>

Next ==
  \E e \in Env :
    \/ env_alloc(e)
    \/ env_free(e)
    \/ \E v \in VA :
         \/ sys_mem_unmap(e, v)
         \/ Translate(e, v)
         \/ \E perm \in Perm :
              \/ sys_mem_alloc(e, v, perm)
              \/ page_fault(e, v, perm)
              \/ \E f \in Env, w \in VA :
                   \/ sys_mem_map(e, v, f, w, perm)
                   \/ sys_ipc_try_send(e, v, f, w, perm)

Spec == Init /\ [][Next]_mvars

-----------------------------------------------------------------------------
(* Properties.                                                             *)

TypeOK ==
  /\ pp_ref \in [Page -> 0..(REFMOD - 1)]
  /\ page_free_list \subseteq Page
  /\ live \subseteq Env
  /\ env_pgdir \in [Env -> Page \cup {NULL}]
  /\ env_asid \in [Env -> Asid \cup {NULL}]
  /\ \A e \in live : env_pgdir[e] # NULL /\ env_asid[e] # NULL
  /\ pde \in [Env -> [Dir -> Page \cup {NULL}]]
  /\ pte \in [Env -> [VA -> Mapping \cup {NULL}]]
  /\ tlb \subseteq Entry
  /\ halted \in {"no", "panic", "assert"}

\* The pointers to p that live envs hold: mappings, page tables, page directories.
MapsTo(p)   == {m \in live \X VA : Mapped(m[1], m[2]) /\ page_lookup(m[1], m[2]) = p}
TablesAt(p) == {m \in live \X Dir : pde[m[1]][m[2]] = p}
DirsAt(p)   == {e \in live : env_pgdir[e] = p}
Pointers(p) == Cardinality(MapsTo(p)) + Cardinality(TablesAt(p)) + Cardinality(DirsAt(p))

\* No page is given out twice: a page that anything points to is not on the free
\* list, whatever mixture of sharing, remapping, failing and exiting led there.
NoUseAfterFree ==
  \A p \in page_free_list : pp_ref[p] = 0 /\ Pointers(p) = 0

\* include/pmap.h: "Ref is the count of pointers (usually in page table entries) to
\* this page."  Here: every pointer of a live env is counted.
RefsCounted == \A p \in Page : Pointers(p) <= pp_ref[p]

\* A page table or directory is one env's alone and never mapped into user space,
\* through failing page_inserts, faults and the reuse of pages: as long as the perm of
\* a syscall has permission bits only, no env can write translations.
TablesPrivate ==
  \A p \in Page :
    Cardinality(TablesAt(p)) + Cardinality(DirsAt(p)) > 0
      => Pointers(p) = 1 /\ MapsTo(p) = {}

\* The hart never translates a user address by a mapping that was removed,
\* replaced, restricted or belonged to a former owner of the ASID.
TlbCoherent ==
  \A t \in tlb : t.va \in UserVA =>
    \E e \in live : /\ env_asid[e] = t.asid
                    /\ pte[e][t.va] = [page |-> t.page, perm |-> t.perm]

\* The assertions of page_decref and page_free never fail.
NoAssertFails == halted # "assert"

\* kern/env.c: "Free env e and all memory it uses."  A page whose references are all
\* of the env that dies, below UTOP, is free afterwards; pages that others share are
\* not.  What a fault has mapped in [UVPT, ULIM) is never released.
FreesUser ==
  [][\A e \in live \ live' : halted' = "no" =>
       \A p \in Page :
         /\ pp_ref[p] = Pointers(p) /\ Pointers(p) > 0
         /\ \A m \in MapsTo(p) : m[1] = e /\ m[2] \in UserVA
         /\ \A m \in TablesAt(p) : m[1] = e /\ m[2] \in UserDir
         /\ DirsAt(p) \subseteq {e}
         => p \in page_free_list']_mvars
-----------------------------------------------------------------------------
(* The inductive invariant of the proofs.                                  *)

\* No reference count is about to wrap.
NoWrap == \A p \in Page : pp_ref[p] < REFMOD - 1

FreeUncounted == \A p \in page_free_list : pp_ref[p] = 0

\* The page directories and page tables of live envs are all different pages, and
\* none of them is mapped.
TablesApart ==
  \A e, f \in live :
    /\ env_pgdir[e] = env_pgdir[f] => e = f
    /\ \A d \in Dir : pde[f][d] # env_pgdir[e]
    /\ \A d, g \in Dir : pde[e][d] # NULL /\ pde[e][d] = pde[f][g] => e = f /\ d = g
    /\ \A v \in VA : Mapped(f, v) =>
         /\ page_lookup(f, v) # env_pgdir[e]
         /\ \A d \in Dir : page_lookup(f, v) # pde[e][d]

\* A mapping has a page table that holds it.
UnderTable == \A e \in live, v \in VA : Mapped(e, v) => pde[e][PDX[v]] # NULL

AsidsDistinct == \A e, f \in live : env_asid[e] = env_asid[f] => e = f

PageInv ==
  /\ TypeOK /\ RefsCounted /\ FreeUncounted /\ TablesApart /\ UnderTable
  /\ AsidsDistinct /\ TlbCoherent /\ NoAssertFails
================================================================================
