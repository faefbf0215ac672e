-------------------------------- MODULE ForkCow --------------------------------
(***************************************************************************)
(* Copy-on-write fork: fork, duppage and cow_entry of user/lib/fork.c with *)
(* the faults of kern/traps.c that lead to cow_entry.  The memory syscalls *)
(* are the ones of PageMap; here a page has contents, and is free when no  *)
(* env maps it.                                                            *)
(*                                                                         *)
(* fork and cow_entry are user code: an action is one syscall, one fault   *)
(* or one access to memory, and any other env can run between two of them. *)
(* The env that forks keeps storing to its stack while it copies it, so    *)
(* cow_entry also runs in the middle of fork.                              *)
(***************************************************************************)
EXTENDS Integers, FiniteSets

CONSTANTS
  Env,      (* the envs                                                         *)
  Page,     (* physical pages                                                   *)
  Top,      (* virtual pages are numbered 0..Top; page 0 is the one at UCOW     *)
  Value,    (* contents of a page; 0 for a page that page_alloc has cleared     *)
  Root,     (* the first env                                                    *)
  Private,  (* the virtual pages Root has mapped writable                       *)
  Library,  (* and those it has mapped writable with PTE_LIBRARY                *)
  MaxForks, (* bound: calls of fork                                             *)
  NULL

Vpn  == 0..Top
UCOW == 0

\* The bits PTE_W, PTE_COW and PTE_LIBRARY of a page table entry.
Perm == [w : BOOLEAN, cow : BOOLEAN, lib : BOOLEAN]
Pte  == [page : Page, perm : Perm]

ASSUME CowAssumption ==
  /\ Top \in Nat /\ MaxForks \in Nat /\ 0 \in Value /\ Root \in Env
  /\ IsFiniteSet(Env) /\ IsFiniteSet(Page) /\ NULL \notin Env \cup Page
  /\ NULL \notin Pte \cup Perm
  /\ Private \subseteq 1..Top /\ Library \subseteq 1..Top
  /\ Private \cap Library = {}
  /\ \E f \in [1..Top -> Page] : \A u, v \in 1..Top : f[u] = f[v] => u = v

VARIABLES
  mem,      (* mem[p]: the contents of page p                                   *)
  pt,       (* pt[e][v]: the mapping of v in e, or NULL                         *)
  entry,    (* entry[e]: env_user_tlb_mod_entry is cow_entry, and not 0         *)
  pc,       (* where env e is in fork.  "none": free; "unborn": not runnable    *)
  loc,      (* the locals of its fork: the child, vpn and perm                  *)
  forks,    (* how often fork was called                                        *)
  trap,     (* where e is in cow_entry, with its va and perm                    *)
  halted    (* "no", or the panic: "memory", "handler"                          *)

cvars == <<mem, pt, entry, pc, loc, forks, trap, halted>>

Loc0  == [child |-> NULL, vpn |-> 0, perm |-> NULL]
Trap0 == [at |-> "no", va |-> 0, perm |-> NULL]

Writable == [w |-> TRUE, cow |-> FALSE, lib |-> FALSE]

Init ==
  /\ mem \in [Page -> {0}]
  /\ \E f \in [1..Top -> Page] :
       /\ \A u, v \in 1..Top : f[u] = f[v] => u = v
       /\ pt = [e \in Env |-> [v \in Vpn |->
                  IF e = Root /\ v \in Private \cup Library
                  THEN [page |-> f[v], perm |-> [Writable EXCEPT !.lib = v \in Library]]
                  ELSE NULL]]
  /\ entry = [e \in Env |-> FALSE]
  /\ pc = [e \in Env |-> IF e = Root THEN "user" ELSE "none"]
  /\ loc = [e \in Env |-> Loc0]
  /\ forks = 0
  /\ trap = [e \in Env |-> Trap0]
  /\ halted = "no"

-----------------------------------------------------------------------------
Mapped(e, v) == pt[e][v] # NULL
Free == {p \in Page : \A e \in Env, v \in Vpn : Mapped(e, v) => pt[e][v].page # p}

\* e has the CPU, outside cow_entry or at one of its steps.
Runs(e)       == halted = "no" /\ pc[e] \notin {"none", "unborn"} /\ trap[e].at = "no"
At(e, where)  == Runs(e) /\ pc[e] = where
In(e, where)  == halted = "no" /\ trap[e].at = where

Goto(e, where, l) ==
  /\ pc' = [pc EXCEPT ![e] = where]
  /\ loc' = [loc EXCEPT ![e] = l]

Handle(e, where) == trap' = [trap EXCEPT ![e].at = where]

Map(e, v, p, perm) == pt' = [pt EXCEPT ![e][v] = [page |-> p, perm |-> perm]]

\* A page from page_alloc, cleared, is mapped in e at v.
MapNew(e, v) ==
  \E p \in Free : Map(e, v, p, Writable) /\ mem' = [mem EXCEPT ![p] = 0]

-----------------------------------------------------------------------------
(* Accesses to memory.                                                     *)

\* A store to a page that is mapped writable.
Store(e, v, x) ==
  /\ Runs(e) /\ Mapped(e, v) /\ pt[e][v].perm.w
  /\ mem' = [mem EXCEPT ![pt[e][v].page] = x]
  /\ UNCHANGED <<pt, entry, pc, loc, trap, halted, forks>>

\* A store to a copy-on-write page: user_mod enters the registered handler, which
\* reads the permission of the page.  The store is executed again afterwards.
user_mod(e, v) ==
  /\ Runs(e) /\ Mapped(e, v)
  /\ ~pt[e][v].perm.w /\ pt[e][v].perm.cow
  /\ IF entry[e]
     THEN /\ trap' = [trap EXCEPT ![e] = [at |-> "alloc", va |-> v, perm |-> pt[e][v].perm]]
          /\ UNCHANGED halted
     ELSE halted' = "handler" /\ UNCHANGED trap
  /\ UNCHANGED <<mem, pt, entry, pc, loc, forks>>

\* An access to a page that is not mapped (passive_alloc).
page_fault(e, v) ==
  /\ Runs(e) /\ ~Mapped(e, v)
  /\ \/ MapNew(e, v) /\ UNCHANGED halted
     \/ Free = {} /\ halted' = "memory" /\ UNCHANGED <<mem, pt>>
  /\ UNCHANGED <<entry, pc, loc, trap, forks>>

-----------------------------------------------------------------------------
(* cow_entry.                                                              *)

\* syscall_mem_alloc(0, UCOW, PTE_W); its result is not looked at.
cow_alloc(e) ==
  /\ In(e, "alloc")
  /\ \/ MapNew(e, UCOW)
     \/ Free = {} /\ UNCHANGED <<mem, pt>>
  /\ Handle(e, "copy")
  /\ UNCHANGED <<entry, pc, loc, halted, forks>>

\* memcpy to UCOW.  Without a page there the copy faults first, and the kernel
\* allocates one or panics.
cow_copy(e) ==
  /\ In(e, "copy")
  /\ \/ /\ Mapped(e, UCOW)
        /\ mem' = [mem EXCEPT ![pt[e][UCOW].page] = mem[pt[e][trap[e].va].page]]
        /\ Handle(e, "map")
        /\ UNCHANGED <<pt, halted>>
     \/ ~Mapped(e, UCOW) /\ MapNew(e, UCOW) /\ UNCHANGED <<trap, halted>>
     \/ /\ ~Mapped(e, UCOW) /\ Free = {}
        /\ halted' = "memory"
        /\ UNCHANGED <<mem, pt, trap>>
  /\ UNCHANGED <<entry, pc, loc, forks>>

\* syscall_mem_map(0, UCOW, 0, va, perm), with perm writable and no longer COW.
cow_map(e) ==
  /\ In(e, "map")
  /\ Map(e, trap[e].va, pt[e][UCOW].page, [trap[e].perm EXCEPT !.w = TRUE, !.cow = FALSE])
  /\ Handle(e, "unmap")
  /\ UNCHANGED <<mem, entry, pc, loc, halted, forks>>

\* syscall_mem_unmap(0, UCOW), and back to the store.
cow_unmap(e) ==
  /\ In(e, "unmap")
  /\ pt' = [pt EXCEPT ![e][UCOW] = NULL]
  /\ trap' = [trap EXCEPT ![e] = Trap0]
  /\ UNCHANGED <<mem, entry, pc, loc, halted, forks>>

-----------------------------------------------------------------------------
(* fork.                                                                   *)

\* fork registers cow_entry and calls syscall_exofork.  When there is no env left
\* or no page for its tables, child holds an error, which fork does not notice: every
\* syscall on the child will fail.
ForkBegin(e, c) ==
  /\ At(e, "user") /\ forks < MaxForks
  /\ c = NULL => Free = {} \/ \A f \in Env : pc[f] # "none"
  /\ entry' = [f \in Env |-> IF f = e THEN TRUE ELSE IF f = c THEN FALSE ELSE entry[f]]
  /\ pc' = [f \in Env |-> IF f = e THEN "fork" ELSE IF f = c THEN "unborn" ELSE pc[f]]
  /\ loc' = [loc EXCEPT ![e] = [Loc0 EXCEPT !.child = c]]
  /\ forks' = forks + 1
  /\ UNCHANGED <<mem, pt, trap, halted>>

\* A loop that runs one page too far, where nothing is mapped.
forkTooFar(e) ==
  /\ At(e, "fork")
  /\ LET k == loc[e].vpn IN
     \/ k <= Top /\ Mapped(e, k) /\ Goto(e, "dup", [loc[e] EXCEPT !.perm = pt[e][k].perm])
     \/ (k <= Top => ~Mapped(e, k)) /\ Goto(e, "fork", [loc[e] EXCEPT !.vpn = @ + 1])
     \/ k > Top + 1 /\ Goto(e, "entry", loc[e])
  /\ UNCHANGED <<mem, pt, entry, trap, halted, forks>>

\* The head of fork's loop: skip what is not mapped; duppage reads the permission.
fork(e) ==
  /\ At(e, "fork")
  /\ LET k == loc[e].vpn IN
     \/ k <= Top /\ Mapped(e, k) /\ Goto(e, "dup", [loc[e] EXCEPT !.perm = pt[e][k].perm])
     \/ k <= Top /\ ~Mapped(e, k) /\ Goto(e, "fork", [loc[e] EXCEPT !.vpn = @ + 1])
     \/ k > Top /\ Goto(e, "entry", loc[e])
  /\ UNCHANGED <<mem, pt, entry, trap, halted, forks>>

\* A duppage that does not look at PTE_LIBRARY.
CopiesAny(perm) == perm.w

\* Whether duppage makes the page copy-on-write.
Copies(perm) == perm.w /\ ~perm.lib

\* syscall_mem_map(0, addr, envid, addr, perm) fails on a child that does not exist,
\* and can fail without a page for the child's tables; duppage does not notice.
duppage(e) ==
  LET k    == loc[e].vpn
      c    == loc[e].child
      perm == IF Copies(loc[e].perm)
              THEN [loc[e].perm EXCEPT !.w = FALSE, !.cow = TRUE] ELSE loc[e].perm
  IN
  /\ At(e, "dup")
  /\ \/ c # NULL /\ Map(c, k, pt[e][k].page, perm)
     \/ (c = NULL \/ Free = {}) /\ UNCHANGED pt
  /\ IF Copies(loc[e].perm)
     THEN Goto(e, "remap", [loc[e] EXCEPT !.perm = perm])
     ELSE Goto(e, "fork", [loc[e] EXCEPT !.vpn = @ + 1, !.perm = NULL])
  /\ UNCHANGED <<mem, entry, trap, halted, forks>>

\* A duppage that forgets the parent's own page.
duppage_remapNot(e) ==
  /\ At(e, "remap")
  /\ Goto(e, "fork", [loc[e] EXCEPT !.vpn = @ + 1, !.perm = NULL])
  /\ UNCHANGED <<mem, pt, entry, trap, halted, forks>>

\* syscall_mem_map(0, addr, 0, addr, perm).
duppage_remap(e) ==
  /\ At(e, "remap")
  /\ Map(e, loc[e].vpn, pt[e][loc[e].vpn].page, loc[e].perm)
  /\ Goto(e, "fork", [loc[e] EXCEPT !.vpn = @ + 1, !.perm = NULL])
  /\ UNCHANGED <<mem, entry, trap, halted, forks>>

\* A fork that does not register the child's handler.
fork_entryNot(e) ==
  /\ At(e, "entry")
  /\ Goto(e, "run", loc[e])
  /\ UNCHANGED <<mem, pt, entry, trap, halted, forks>>

\* syscall_set_tlb_mod_entry(child, cow_entry).
fork_entry(e) ==
  /\ At(e, "entry")
  /\ entry' = [f \in Env |-> f = loc[e].child \/ entry[f]]
  /\ Goto(e, "run", loc[e])
  /\ UNCHANGED <<mem, pt, trap, halted, forks>>

\* syscall_set_env_status(child, ENV_RUNNABLE).
fork_run(e) ==
  /\ At(e, "run")
  /\ pc' = [f \in Env |-> IF f = e \/ f = loc[e].child THEN "user" ELSE pc[f]]
  /\ loc' = [loc EXCEPT ![e] = Loc0]
  /\ UNCHANGED <<mem, pt, entry, trap, halted, forks>>

\* exit: env_free unmaps everything.
Exit(e) ==
  /\ At(e, "user")
  /\ pt' = [pt EXCEPT ![e] = [v \in Vpn |-> NULL]]
  /\ pc' = [pc EXCEPT ![e] = "none"]
  /\ entry' = [entry EXCEPT ![e] = FALSE]
  /\ UNCHANGED <<mem, loc, trap, halted, forks>>

-----------------------------------------------------------------------------
\* An assumption on the stack: the call of syscall_mem_map does not run it over into
\* the very page that duppage is about to map and has found to be copy-on-write.
Shallow(e, v) == ~(pc[e] = "dup" /\ v = loc[e].vpn)

UserStep(e) ==
  \/ \E v \in Vpn \ {UCOW} :
       \/ \E x \in Value : Store(e, v, x)
       \/ Shallow(e, v) /\ user_mod(e, v)
       \/ page_fault(e, v)
  \/ cow_alloc(e) \/ cow_copy(e) \/ cow_map(e) \/ cow_unmap(e)
  \/ \E c \in {f \in Env : pc[f] = "none"} \cup {NULL} : ForkBegin(e, c)
  \/ fork(e) \/ duppage(e) \/ duppage_remap(e) \/ fork_entry(e) \/ fork_run(e)
  \/ Exit(e)

CowNext == \E e \in Env : UserStep(e)

CowSpec == Init /\ [][CowNext]_cvars

-----------------------------------------------------------------------------
(* Properties.                                                             *)

CowTypeOK ==
  /\ mem \in [Page -> Value]
  /\ pt \in [Env -> [Vpn -> Pte \cup {NULL}]]
  /\ entry \in [Env -> BOOLEAN]
  /\ pc \in [Env -> {"none", "unborn", "user", "fork", "dup", "remap", "entry", "run"}]
  /\ loc \in [Env -> [child : Env \cup {NULL}, vpn : 0..(Top + 1), perm : Perm \cup {NULL}]]
  /\ forks \in Nat
  /\ trap \in [Env -> [at : {"no", "alloc", "copy", "map", "unmap"}, va : Vpn,
                       perm : Perm \cup {NULL}]]
  /\ halted \in {"no", "memory", "handler"}

View(e, v) == IF Mapped(e, v) THEN mem[pt[e][v].page] ELSE NULL

\* f's fork is between the two syscalls of duppage on page v of its child e.
HalfDone(e, v) ==
  \E f \in Env : pc[f] = "remap" /\ loc[f].child = e /\ loc[f].vpn = v

\* fork.c: "'PTE_COW' should be used to isolate the modifications on unshared memory
\* from a parent and its children."  What an env reads in a page that is not a
\* library page changes only by its own stores: not by the stores of its parent, its
\* children or its siblings, nor by a copy-on-write fault of its own or of another.
Isolation ==
  [][\A e \in Env, v \in Vpn \ {UCOW} :
       Mapped(e, v) /\ ~pt[e][v].perm.lib /\ ~HalfDone(e, v)
       => \/ View(e, v)' = View(e, v)
          \/ \E x \in Value : Store(e, v, x)
          \/ Exit(e)]_cvars

\* "'PTE_LIBRARY' indicates that the page should be shared among a parent and its
\* children": all who have inherited a library page still see the same one, and can
\* all write to it.
LibraryShared ==
  \A e, f \in Env, v \in Vpn :
    /\ Mapped(e, v) /\ pt[e][v].perm.lib => pt[e][v].perm.w
    /\ Mapped(e, v) /\ Mapped(f, v) /\ pt[e][v].perm.lib /\ pt[f][v].perm.lib
         => pt[e][v].page = pt[f][v].page

\* No store finds a copy-on-write page in an env without a handler (the panic of
\* user_mod): neither the parent's pages before fork has registered it nor the
\* child's first store.
HandlerThere == halted # "handler"

-----------------------------------------------------------------------------
(* The inductive invariant of the proofs.                                  *)

CowPerm == [w |-> FALSE, cow |-> TRUE, lib |-> FALSE]
LibPerm == [w |-> TRUE, cow |-> FALSE, lib |-> TRUE]

Forking == {"fork", "dup", "remap", "entry", "run"}

\* A page is mapped private, copy-on-write or as a library page, in no other way.
PermsKnown ==
  \A e \in Env, v \in Vpn : Mapped(e, v) => pt[e][v].perm \in {Writable, CowPerm, LibPerm}

\* cow_entry of e has mapped its copy at va and not yet unmapped it at UCOW.
Copied(e, v, u) == trap[e].at = "unmap" /\ {v, u} = {UCOW, trap[e].va}

\* A page that e has mapped private at v is mapped nowhere else, but at UCOW while
\* cow_entry ends, and in the child between the two syscalls of duppage.
Exclusive ==
  \A e, f \in Env, v, u \in Vpn :
    /\ Mapped(e, v) /\ Mapped(f, u) /\ pt[e][v].page = pt[f][u].page
    /\ pt[e][v].perm = Writable
    /\ <<e, v>> # <<f, u>>
    => \/ e = f /\ Copied(e, v, u)
       \/ pc[e] = "remap" /\ loc[e].child = f /\ loc[e].vpn = v /\ u = v

\* A library page is mapped as one everywhere, and at one address.
LibraryOnly ==
  \A e, f \in Env, v, u \in Vpn :
    Mapped(e, v) /\ Mapped(f, u) /\ pt[e][v].perm = LibPerm =>
      /\ pt[e][v].page = pt[f][u].page => pt[f][u].perm = LibPerm
      /\ pt[f][u].perm = LibPerm => (pt[e][v].page = pt[f][u].page <=> v = u)

\* What holds where e is in fork: its child is there and is no one else's, the pages
\* from vpn on are not in the child yet, and the permission is the one that was read.
InFork(e) ==
  LET k == loc[e].vpn
      c == loc[e].child
  IN
  /\ pc[e] \in Forking => entry[e]
  /\ pc[e] \in Forking /\ c # NULL =>
       /\ pc[c] = "unborn"
       /\ \A f \in Env : pc[f] \in Forking /\ loc[f].child = c => f = e
       /\ \A v \in Vpn : v > k \/ (v = k /\ pc[e] # "remap") => ~Mapped(c, v)
  /\ pc[e] = "fork" => loc[e].perm = NULL
  /\ pc[e] = "dup" => k \in Vpn \ {UCOW} /\ Mapped(e, k) /\ loc[e].perm = pt[e][k].perm
  /\ pc[e] = "remap" => /\ k \in Vpn \ {UCOW} /\ Mapped(e, k)
                         /\ loc[e].perm = CowPerm /\ pt[e][k].perm = Writable
  /\ pc[e] = "run" /\ c # NULL => entry[c]

\* What holds where e is in cow_entry: the page at va is copy-on-write until the copy
\* takes its place, and the copy, from the memcpy on, is what va shows.
InCow(e) ==
  LET v == trap[e].va IN
  /\ trap[e].at = "no" => ~Mapped(e, UCOW)
  /\ trap[e].at # "no" =>
       /\ pc[e] \notin {"none", "unborn"} /\ v # UCOW
       /\ pc[e] \in {"dup", "remap"} => v # loc[e].vpn
       /\ trap[e].perm = CowPerm /\ Mapped(e, v)
  /\ trap[e].at \in {"alloc", "copy", "map"} => pt[e][v].perm = CowPerm
  /\ trap[e].at = "alloc" => ~Mapped(e, UCOW)
  /\ trap[e].at \in {"map", "unmap"} => Mapped(e, UCOW)
  /\ Mapped(e, UCOW) => pt[e][UCOW].perm = Writable
  /\ trap[e].at = "map" => mem[pt[e][UCOW].page] = mem[pt[e][v].page]
  /\ trap[e].at = "unmap" => /\ pt[e][v].perm = Writable
                              /\ pt[e][UCOW].page = pt[e][v].page

\* A slot that is free maps nothing, and an env that can run has a handler when it has
\* a copy-on-write page.
Ready(e) ==
  /\ pc[e] = "none" => \A v \in Vpn : ~Mapped(e, v)
  /\ pc[e] \in {"none", "unborn"} => trap[e].at = "no"
  /\ pc[e] \notin {"none", "unborn"} =>
       \A v \in Vpn : Mapped(e, v) /\ pt[e][v].perm = CowPerm => entry[e]

CowInv ==
  /\ CowTypeOK /\ PermsKnown /\ Exclusive /\ LibraryOnly
  /\ \A e \in Env : InFork(e) /\ InCow(e) /\ Ready(e)
  /\ HandlerThere
================================================================================
