----------------------------- MODULE ForkCow_proofs -----------------------------
(***************************************************************************)
(* Copy-on-write fork isolates private pages and shares library pages, for *)
(* any number of envs, pages and addresses, however the steps interleave   *)
(* and whichever syscalls fail.                                            *)
(***************************************************************************)
EXTENDS ForkCow, TLAPS

-----------------------------------------------------------------------------
(* Permissions and mappings.                                               *)

\* The three ways to map a page differ, and what the code does with them.
LEMMA Perms ==
  /\ Writable \in Perm /\ CowPerm \in Perm /\ LibPerm \in Perm
  /\ Writable # CowPerm /\ Writable # LibPerm /\ CowPerm # LibPerm
  /\ Writable.w /\ ~Writable.lib /\ ~Writable.cow
  /\ ~CowPerm.w /\ ~CowPerm.lib /\ CowPerm.cow
  /\ LibPerm.w /\ LibPerm.lib /\ ~LibPerm.cow
<1>1. Writable.w = TRUE /\ Writable.lib = FALSE /\ Writable.cow = FALSE BY DEF Writable
<1>2. CowPerm.w = FALSE /\ CowPerm.lib = FALSE /\ CowPerm.cow = TRUE BY DEF CowPerm
<1>3. LibPerm.w = TRUE /\ LibPerm.lib = TRUE /\ LibPerm.cow = FALSE BY DEF LibPerm
<1>4. Writable \in Perm /\ CowPerm \in Perm /\ LibPerm \in Perm
  BY DEF Writable, CowPerm, LibPerm, Perm
<1> QED BY <1>1, <1>2, <1>3, <1>4

\* The three bits are all there is.
LEMMA SamePerm ==
  ASSUME NEW r \in Perm, NEW s \in Perm, r.w = s.w, r.cow = s.cow, r.lib = s.lib
  PROVE  r = s
BY DEF Perm

\* duppage and cow_entry turn private pages into copy-on-write pages and back.
LEMMA PermSteps ==
  /\ [Writable EXCEPT !.w = FALSE, !.cow = TRUE] = CowPerm
  /\ [CowPerm EXCEPT !.w = TRUE, !.cow = FALSE] = Writable
  /\ Copies(Writable) /\ ~Copies(CowPerm) /\ ~Copies(LibPerm)
<1>1. ASSUME NEW r \in Perm, NEW s \in Perm, NEW b \in BOOLEAN, NEW c \in BOOLEAN,
             s.w = b, s.cow = c, s.lib = r.lib
      PROVE  [r EXCEPT !.w = b, !.cow = c] = s
  <2> DEFINE x == [r EXCEPT !.w = b, !.cow = c]
  <2>1. x \in Perm /\ x.w = b /\ x.cow = c /\ x.lib = r.lib BY DEF Perm
  <2> HIDE DEF x
  <2>2. x = s BY <1>1, <2>1, SamePerm
  <2> QED BY <2>2 DEF x
<1>2. CowPerm.w = FALSE /\ CowPerm.lib = FALSE /\ CowPerm.cow = TRUE BY DEF CowPerm
<1>3. Writable.w = TRUE /\ Writable.lib = FALSE /\ Writable.cow = FALSE BY DEF Writable
<1>4. [Writable EXCEPT !.w = FALSE, !.cow = TRUE] = CowPerm
  BY <1>1, <1>2, <1>3, Perms
<1>5. [CowPerm EXCEPT !.w = TRUE, !.cow = FALSE] = Writable
  BY <1>1, <1>2, <1>3, Perms
<1> QED BY <1>4, <1>5, Perms DEF Copies

\* The page tables after one entry was changed.
LEMMA Remapped ==
  ASSUME CowTypeOK, NEW e \in Env, NEW v \in Vpn, NEW x, pt' = [pt EXCEPT ![e][v] = x]
  PROVE  \A f \in Env, u \in Vpn : pt'[f][u] = IF f = e /\ u = v THEN x ELSE pt[f][u]
BY DEF CowTypeOK

\* A page table entry that is written is one.
LEMMA NewEntry ==
  ASSUME NEW p \in Page, NEW perm \in Perm
  PROVE  /\ [page |-> p, perm |-> perm] \in Pte /\ [page |-> p, perm |-> perm] # NULL
         /\ [page |-> p, perm |-> perm].page = p /\ [page |-> p, perm |-> perm].perm = perm
BY CowAssumption DEF Pte

\* syscall_mem_map changes one entry.
LEMMA MapDoes ==
  ASSUME CowTypeOK, NEW e \in Env, NEW v \in Vpn, NEW p \in Page, NEW perm \in Perm,
         Map(e, v, p, perm)
  PROVE  /\ pt' \in [Env -> [Vpn -> Pte \cup {NULL}]]
         /\ \A f \in Env, u \in Vpn : ~(f = e /\ u = v) => pt'[f][u] = pt[f][u]
         /\ pt'[e][v] # NULL /\ pt'[e][v].page = p /\ pt'[e][v].perm = perm
<1> DEFINE x == [page |-> p, perm |-> perm]
<1>1. x \in Pte /\ x # NULL /\ x.page = p /\ x.perm = perm BY NewEntry
<1>2. pt' = [pt EXCEPT ![e][v] = x] BY DEF Map
<1> HIDE DEF x
<1>3. pt' \in [Env -> [Vpn -> Pte \cup {NULL}]] BY <1>1, <1>2 DEF CowTypeOK
<1>4. \A f \in Env, u \in Vpn : pt'[f][u] = IF f = e /\ u = v THEN x ELSE pt[f][u]
  BY <1>2 DEF CowTypeOK
<1> QED BY <1>1, <1>3, <1>4

\* What is mapped has a page and permissions.
LEMMA Entries ==
  ASSUME CowTypeOK, NEW e \in Env, NEW v \in Vpn, Mapped(e, v)
  PROVE  pt[e][v] \in Pte /\ pt[e][v].page \in Page /\ pt[e][v].perm \in Perm
BY DEF CowTypeOK, Mapped, Pte

-----------------------------------------------------------------------------
(* What CowInv says of a page that is mapped twice.                        *)

\* A writable page is private or a library page.
LEMMA WritableKind ==
  ASSUME CowInv, NEW e \in Env, NEW v \in Vpn, Mapped(e, v)
  PROVE  /\ pt[e][v].perm.w => pt[e][v].perm \in {Writable, LibPerm}
         /\ ~pt[e][v].perm.w => pt[e][v].perm = CowPerm
         /\ pt[e][v].perm.lib => pt[e][v].perm = LibPerm
         /\ ~pt[e][v].perm.lib => pt[e][v].perm \in {Writable, CowPerm}
BY Perms DEF CowInv, PermsKnown

\* A copy-on-write page is writable to no one but a parent in the middle of duppage.
LEMMA CowNotWritten ==
  ASSUME CowInv, NEW e \in Env, NEW v \in Vpn, NEW f \in Env, NEW u \in Vpn,
         Mapped(e, v), Mapped(f, u), pt[e][v].page = pt[f][u].page,
         pt[e][v].perm = CowPerm, pt[f][u].perm.w
  PROVE  pc[f] = "remap" /\ loc[f].child = e /\ loc[f].vpn = v /\ u = v /\ pc[e] = "unborn"
<1>1. pt[f][u].perm \in {Writable, LibPerm} BY WritableKind
<1>2. pt[f][u].perm # LibPerm BY Perms DEF CowInv, LibraryOnly
<1>3. pt[f][u].perm = Writable /\ <<f, u>> # <<e, v>> BY <1>1, <1>2, Perms
<1>4. ~(f = e /\ Copied(f, u, v))
  BY <1>3, Perms DEF CowInv, InCow, Copied, UCOW
<1>5. pc[f] = "remap" /\ loc[f].child = e /\ loc[f].vpn = u /\ v = u
  BY <1>3, <1>4 DEF CowInv, Exclusive
<1>6. pc[e] = "unborn" BY <1>5, CowAssumption DEF CowInv, InFork, Forking
<1> QED BY <1>5, <1>6

\* A private page is mapped once, but for the ends of cow_entry and duppage.
LEMMA PrivateOnce ==
  ASSUME CowInv, NEW e \in Env, NEW v \in Vpn, NEW f \in Env, NEW u \in Vpn,
         Mapped(e, v), Mapped(f, u), pt[e][v].page = pt[f][u].page,
         pt[e][v].perm = Writable, <<e, v>> # <<f, u>>, trap[e].at # "unmap"
  PROVE  /\ pc[e] = "remap" /\ loc[e].child = f /\ loc[e].vpn = v /\ u = v /\ pc[f] = "unborn"
         /\ v # UCOW
<1>1. pc[e] = "remap" /\ loc[e].child = f /\ loc[e].vpn = v /\ u = v
  BY DEF CowInv, Exclusive, Copied
<1>2. pc[f] = "unborn" /\ v # UCOW BY <1>1, CowAssumption DEF CowInv, InFork, Forking
<1> QED BY <1>1, <1>2

-----------------------------------------------------------------------------
(* Each step keeps CowInv.                                                 *)

\* A store to a writable page.
LEMMA StoreKeeps ==
  ASSUME CowInv, NEW e \in Env, NEW v \in Vpn \ {UCOW}, NEW x \in Value, Store(e, v, x)
  PROVE  CowInv'
<1> USE DEF Mapped
<1>1. /\ UNCHANGED <<pt, entry, pc, loc, trap, halted, forks>>
      /\ trap[e].at = "no" /\ Mapped(e, v) /\ pt[e][v].perm.w
  BY DEF Store, Runs
<1>2. CowTypeOK BY DEF CowInv
<1>3. mem' = [mem EXCEPT ![pt[e][v].page] = x] /\ pt[e][v].page \in Page
  BY <1>1, <1>2, Entries DEF Store
<1>4. CowTypeOK' BY <1>1, <1>2, <1>3 DEF CowTypeOK
<1>5. PermsKnown' /\ Exclusive' /\ LibraryOnly' /\ HandlerThere'
  BY <1>1 DEF CowInv, PermsKnown, Exclusive, LibraryOnly, HandlerThere, Copied
<1>6. ASSUME NEW f \in Env PROVE InFork(f)' /\ Ready(f)'
  BY <1>1 DEF CowInv, InFork, Ready
<1>7. ASSUME NEW f \in Env PROVE InCow(f)'
  <2>1. ASSUME trap[f].at = "map" PROVE mem'[pt[f][UCOW].page] = mem'[pt[f][trap[f].va].page]
    <3>1. /\ trap[f].va \in Vpn \ {UCOW} /\ Mapped(f, UCOW) /\ Mapped(f, trap[f].va)
          /\ pt[f][UCOW].perm = Writable /\ pt[f][trap[f].va].perm = CowPerm
          /\ mem[pt[f][UCOW].page] = mem[pt[f][trap[f].va].page]
          /\ pc[f] # "unborn" /\ UCOW \in Vpn /\ f # e
      BY <1>1, <1>2, <2>1, CowAssumption DEF CowInv, InCow, CowTypeOK, UCOW, Vpn
    <3>2. pt[e][v].page # pt[f][UCOW].page BY <1>1, <2>1, <3>1, PrivateOnce
    <3>3. pt[e][v].page # pt[f][trap[f].va].page BY <1>1, <3>1, CowNotWritten
    <3> QED BY <3>1, <3>2, <3>3, <1>2, <1>3, Entries DEF CowTypeOK
  <2> QED BY <1>1, <2>1 DEF CowInv, InCow
<1> QED BY <1>4, <1>5, <1>6, <1>7 DEF CowInv

\* A fault on a copy-on-write page enters cow_entry; there is a handler.
LEMMA user_modKeeps ==
  ASSUME CowInv, NEW e \in Env, NEW v \in Vpn \ {UCOW}, Shallow(e, v), user_mod(e, v)
  PROVE  CowInv'
<1> USE DEF Mapped
<1>1. /\ UNCHANGED <<mem, pt, entry, pc, loc, forks>> /\ halted = "no"
      /\ pc[e] \notin {"none", "unborn"} /\ trap[e].at = "no"
      /\ Mapped(e, v) /\ ~pt[e][v].perm.w
  BY DEF user_mod, Runs
<1>2. CowTypeOK BY DEF CowInv
<1>3. pt[e][v].perm = CowPerm BY <1>1, WritableKind
<1>4. entry[e] BY <1>1, <1>3 DEF CowInv, Ready
<1>5. halted' = "no" /\ trap' = [trap EXCEPT ![e] = [at |-> "alloc", va |-> v, perm |-> CowPerm]]
  BY <1>1, <1>3, <1>4 DEF user_mod
<1>6. /\ trap'[e].at = "alloc" /\ trap'[e].va = v /\ trap'[e].perm = CowPerm
      /\ \A f \in Env : f # e => trap'[f] = trap[f]
  BY <1>2, <1>5 DEF CowTypeOK
<1>7. CowTypeOK' BY <1>1, <1>2, <1>5, Perms DEF CowTypeOK
<1>8. PermsKnown' /\ LibraryOnly' /\ HandlerThere'
  BY <1>1, <1>5 DEF CowInv, PermsKnown, LibraryOnly, HandlerThere
<1>9. Exclusive'
  BY <1>1, <1>6 DEF CowInv, Exclusive, Copied
<1>10. ASSUME NEW f \in Env PROVE InFork(f)' /\ Ready(f)'
  BY <1>1, <1>6 DEF CowInv, InFork, Ready
<1>11. ASSUME NEW f \in Env PROVE InCow(f)'
  <2>1. CASE f = e
    <3>1. ~Mapped(e, UCOW) BY <1>1 DEF CowInv, InCow
    <3>2. pc[e] = "dup" => v # loc[e].vpn BY DEF Shallow
    <3>3. pc[e] = "remap" => v # loc[e].vpn BY <1>3, Perms DEF CowInv, InFork
    <3> QED BY <2>1, <1>1, <1>3, <1>6, <3>1, <3>2, <3>3 DEF InCow
  <2>2. CASE f # e BY <2>2, <1>1, <1>6 DEF CowInv, InCow
  <2> QED BY <2>1, <2>2
<1> QED BY <1>7, <1>8, <1>9, <1>10, <1>11 DEF CowInv

\* A step that changes no mapping and no duppage between its two syscalls.
LEMMA ExclusiveKept ==
  ASSUME CowInv, UNCHANGED <<pt, trap>>,
         \A f \in Env : pc[f] = "remap" => pc'[f] = "remap" /\ loc'[f] = loc[f]
  PROVE  Exclusive'
BY DEF CowInv, Exclusive, Copied, Mapped

\* The steps of fork that change no mapping.
LEMMA ForkBeginKeeps ==
  ASSUME CowInv, NEW e \in Env, NEW c \in {f \in Env : pc[f] = "none"} \cup {NULL},
         ForkBegin(e, c)
  PROVE  CowInv'
<1> USE DEF Mapped
<1>1. /\ UNCHANGED <<mem, pt, trap, halted>> /\ forks' = forks + 1
      /\ pc[e] = "user" /\ trap[e].at = "no" /\ e # c
  BY CowAssumption DEF ForkBegin, At, Runs
<1>2. CowTypeOK BY DEF CowInv
<1>3. /\ \A f \in Env : entry'[f] = IF f = e THEN TRUE ELSE IF f = c THEN FALSE ELSE entry[f]
      /\ \A f \in Env : pc'[f] = IF f = e THEN "fork" ELSE IF f = c THEN "unborn" ELSE pc[f]
      /\ \A f \in Env : f # e => loc'[f] = loc[f]
      /\ loc'[e] = [child |-> c, vpn |-> 0, perm |-> NULL]
  BY <1>2 DEF ForkBegin, CowTypeOK, Loc0
<1>4. CowTypeOK'
  <2>1. loc' \in [Env -> [child : Env \cup {NULL}, vpn : 0..(Top + 1), perm : Perm \cup {NULL}]]
    BY <1>2, CowAssumption DEF ForkBegin, CowTypeOK, Loc0
  <2>2. entry' \in [Env -> BOOLEAN] BY <1>2 DEF ForkBegin, CowTypeOK
  <2>3. pc' \in [Env -> {"none", "unborn", "user", "fork", "dup", "remap", "entry", "run"}]
    BY <1>2 DEF ForkBegin, CowTypeOK
  <2> QED BY <1>1, <1>2, <2>1, <2>2, <2>3 DEF CowTypeOK
<1>5. PermsKnown' /\ LibraryOnly' /\ HandlerThere'
  BY <1>1 DEF CowInv, PermsKnown, LibraryOnly, HandlerThere
<1>6. c # NULL => /\ c \in Env /\ pc[c] = "none" /\ trap[c].at = "no"
                  /\ \A v \in Vpn : ~Mapped(c, v)
  BY DEF CowInv, Ready
<1>61. ASSUME NEW f \in Env, f = c PROVE c # NULL BY <1>61, CowAssumption
<1>7. Exclusive'
  <2>1. \A f \in Env : pc[f] = "remap" => pc'[f] = "remap" /\ loc'[f] = loc[f]
    BY <1>1, <1>3, <1>6, <1>61
  <2> QED BY <2>1, <1>1 DEF CowInv, Exclusive, Copied
<1>8. ASSUME NEW f \in Env PROVE InFork(f)'
  <2>1. \A g \in Env : pc[g] \in Forking => loc[g].child # c \/ c = NULL
    BY <1>6 DEF CowInv, InFork
  <2>2. CASE f = e
    <3>1. c # NULL => pc'[c] = "unborn" BY <1>1, <1>3, <1>6
    <3>2. ASSUME c # NULL, NEW g \in Env, pc'[g] \in Forking, loc'[g].child = c PROVE g = e
      <4>1. CASE g = c BY <4>1, <3>1, <3>2 DEF Forking
      <4>2. CASE g # c /\ g # e BY <4>2, <2>1, <3>2, <1>3
      <4> QED BY <4>1, <4>2
    <3>3. pc'[e] = "fork" /\ loc'[e].child = c /\ loc'[e].perm = NULL BY <1>3
    <3>4. entry'[e] BY <1>3, Zenon
    <3> QED BY <2>2, <3>1, <3>2, <3>3, <3>4, <1>1, <1>6 DEF InFork, Forking
  <2>3. CASE f = c
    BY <2>3, <1>1, <1>3 DEF InFork, Forking
  <2>4. CASE f # e /\ f # c
    <3>1. pc'[f] = pc[f] /\ loc'[f] = loc[f] /\ entry'[f] = entry[f] BY <2>4, <1>3
    <3>2. InFork(f) BY DEF CowInv
    <3>3. pc[f] \in Forking /\ loc[f].child # NULL =>
            /\ loc[f].child \in Env /\ loc[f].child # c /\ loc[f].child # e
            /\ pc[loc[f].child] = "unborn"
      BY <2>1, <1>1, <1>2, <3>2, <1>6 DEF InFork, CowTypeOK
    <3>4. ASSUME pc[f] \in Forking, loc[f].child # NULL, NEW g \in Env,
                 pc'[g] \in Forking, loc'[g].child = loc[f].child
          PROVE  g = f
      BY <3>4, <3>3, <3>2, <1>3 DEF InFork, Forking
    <3>5. pc[f] \in Forking /\ loc[f].child # NULL =>
            pc'[loc[f].child] = "unborn" /\ entry'[loc[f].child] = entry[loc[f].child]
      BY <3>3, <1>3
    <3> QED BY <1>1, <3>1, <3>2, <3>4, <3>5 DEF InFork, Forking
  <2> QED BY <2>2, <2>3, <2>4
<1>9. ASSUME NEW f \in Env PROVE Ready(f)'
  <2>1. CASE f = e BY <2>1, <1>1, <1>3 DEF Ready
  <2>2. CASE f = c BY <2>2, <1>1, <1>3, <1>6, CowAssumption DEF Ready
  <2>3. CASE f # e /\ f # c BY <2>3, <1>1, <1>3 DEF CowInv, Ready
  <2> QED BY <2>1, <2>2, <2>3
<1>10. ASSUME NEW f \in Env PROVE InCow(f)'
  <2>1. CASE f = e BY <2>1, <1>1, <1>3 DEF CowInv, InCow
  <2>2. CASE f = c
    <3>1. ~Mapped(c, UCOW) BY <2>2, <1>6, <1>61, CowAssumption DEF UCOW, Vpn
    <3> QED BY <2>2, <3>1, <1>1, <1>6, <1>61 DEF InCow
  <2>3. CASE f # e /\ f # c BY <2>3, <1>1, <1>3 DEF CowInv, InCow
  <2> QED BY <2>1, <2>2, <2>3
<1> QED BY <1>4, <1>5, <1>7, <1>8, <1>9, <1>10 DEF CowInv

\* A step of fork that only moves e on: what has to hold where it goes.
LEMMA GotoKeeps ==
  ASSUME CowInv, NEW e \in Env, pc[e] \in Forking \ {"remap"}, trap[e].at = "no",
         NEW where \in Forking \ {"remap"},
         NEW l \in [child : Env \cup {NULL}, vpn : 0..(Top + 1), perm : Perm \cup {NULL}],
         Goto(e, where, l), UNCHANGED <<mem, pt, trap, halted, forks>>,
         l.child = loc[e].child, l.vpn >= loc[e].vpn,
         entry' \in [Env -> BOOLEAN], \A f \in Env : entry[f] => entry'[f],
         where = "fork" => l.perm = NULL,
         where = "dup" => l.vpn \in Vpn \ {UCOW} /\ Mapped(e, l.vpn) /\ l.perm = pt[e][l.vpn].perm,
         where = "run" /\ l.child # NULL => entry'[l.child]
  PROVE  CowInv'
<1> USE DEF Mapped
<1>2. CowTypeOK BY DEF CowInv
<1>3. /\ pc' = [pc EXCEPT ![e] = where] /\ loc' = [loc EXCEPT ![e] = l]
      /\ pc'[e] = where /\ loc'[e] = l
      /\ \A f \in Env : f # e => pc'[f] = pc[f] /\ loc'[f] = loc[f]
  BY <1>2 DEF Goto, CowTypeOK
<1>4. CowTypeOK' BY <1>2, <1>3 DEF CowTypeOK, Forking
<1>5. PermsKnown' /\ LibraryOnly' /\ HandlerThere'
  BY DEF CowInv, PermsKnown, LibraryOnly, HandlerThere
<1>7. Exclusive'
  <2>0. pc[e] # "remap" OBVIOUS
  <2>1. \A f \in Env : pc[f] = "remap" => pc'[f] = "remap" /\ loc'[f] = loc[f]
    BY <2>0, <1>3
  <2> QED BY <2>1, ExclusiveKept
<1>8. ASSUME NEW f \in Env PROVE InFork(f)'
  <2>1. \A g \in Env : (pc[g] \in Forking) = (pc'[g] \in Forking) /\ loc'[g].child = loc[g].child
    BY <1>3
  <2>2. \A g \in Env : pc[g] = "unborn" => pc'[g] = "unborn" BY <1>3 DEF Forking
  <2>3. InFork(f) BY DEF CowInv
  <2>4. loc[f].child # NULL => loc[f].child \in Env BY <1>2 DEF CowTypeOK
  <2>5. loc[e].vpn \in Int /\ l.vpn \in Int BY <1>2, CowAssumption DEF CowTypeOK
  <2>6. CASE f = e
    BY <2>1, <2>2, <2>3, <2>4, <2>5, <2>6, <1>3, CowAssumption DEF InFork, Forking, Vpn
  <2>7. CASE f # e
    <3>1. pc'[f] = pc[f] /\ loc'[f] = loc[f] BY <2>7, <1>3
    <3> QED BY <3>1, <2>1, <2>2, <2>3, <2>4 DEF InFork
  <2> QED BY <2>6, <2>7
<1>9. ASSUME NEW f \in Env PROVE Ready(f)' /\ InCow(f)'
  BY <1>3 DEF CowInv, Ready, InCow, Forking
<1> QED BY <1>4, <1>5, <1>7, <1>8, <1>9 DEF CowInv

\* fork looks for the next page to hand over, or goes on to the entry.
LEMMA forkKeeps ==
  ASSUME CowInv, NEW e \in Env, fork(e)
  PROVE  CowInv'
<1>1. /\ pc[e] = "fork" /\ trap[e].at = "no" /\ UNCHANGED <<mem, pt, entry, trap, halted, forks>>
  BY DEF fork, At, Runs
<1>2. /\ CowTypeOK /\ loc[e].vpn \in 0..(Top + 1) /\ loc[e].perm = NULL
      /\ loc[e] \in [child : Env \cup {NULL}, vpn : 0..(Top + 1), perm : Perm \cup {NULL}]
      /\ ~Mapped(e, UCOW) /\ entry \in [Env -> BOOLEAN]
  BY <1>1 DEF CowInv, CowTypeOK, InFork, InCow
<1>3. pc[e] \in Forking \ {"remap"} /\ {"fork", "dup", "entry"} \subseteq Forking \ {"remap"}
  BY <1>1 DEF Forking
<1> DEFINE k == loc[e].vpn
<1>4. CASE k <= Top /\ Mapped(e, k) /\ Goto(e, "dup", [loc[e] EXCEPT !.perm = pt[e][k].perm])
  <2> DEFINE l == [loc[e] EXCEPT !.perm = pt[e][k].perm]
  <2>1. k \in Vpn \ {UCOW} BY <1>2, <1>4, CowAssumption DEF Vpn
  <2>2. pt[e][k].perm \in Perm BY <1>2, <1>4, <2>1, Entries
  <2>3. /\ l \in [child : Env \cup {NULL}, vpn : 0..(Top + 1), perm : Perm \cup {NULL}]
        /\ l.child = loc[e].child /\ l.vpn = k /\ l.perm = pt[e][k].perm
    BY <1>2, <2>2
  <2>4. k >= k BY <1>2
  <2>5. Goto(e, "dup", l) BY <1>4
  <2> HIDE DEF l
  <2> QED BY <1>1, <1>2, <1>3, <1>4, <2>1, <2>3, <2>4, <2>5, GotoKeeps
<1>5. CASE k <= Top /\ ~Mapped(e, k) /\ Goto(e, "fork", [loc[e] EXCEPT !.vpn = @ + 1])
  <2> DEFINE l == [loc[e] EXCEPT !.vpn = @ + 1]
  <2>1. /\ l \in [child : Env \cup {NULL}, vpn : 0..(Top + 1), perm : Perm \cup {NULL}]
        /\ l.child = loc[e].child /\ l.vpn >= k /\ l.perm = NULL
    BY <1>2, <1>5, CowAssumption
  <2>2. Goto(e, "fork", l) BY <1>5
  <2> HIDE DEF l
  <2> QED BY <1>1, <1>2, <1>3, <2>1, <2>2, GotoKeeps
<1>6. CASE k > Top /\ Goto(e, "entry", loc[e])
  <2>1. k >= k BY <1>2
  <2> QED BY <1>1, <1>2, <1>3, <1>6, <2>1, GotoKeeps
<1> QED BY <1>4, <1>5, <1>6 DEF fork

\* fork registers the handler of the child.
LEMMA fork_entryKeeps ==
  ASSUME CowInv, NEW e \in Env, fork_entry(e)
  PROVE  CowInv'
<1>1. /\ pc[e] = "entry" /\ trap[e].at = "no" /\ UNCHANGED <<mem, pt, trap, halted, forks>>
      /\ entry' = [f \in Env |-> f = loc[e].child \/ entry[f]] /\ Goto(e, "run", loc[e])
  BY DEF fork_entry, At, Runs
<1>2. /\ CowTypeOK /\ loc[e].vpn >= loc[e].vpn /\ loc[e].child \in Env \cup {NULL}
      /\ loc[e] \in [child : Env \cup {NULL}, vpn : 0..(Top + 1), perm : Perm \cup {NULL}]
  BY <1>1 DEF CowInv, CowTypeOK
<1>3. /\ entry' \in [Env -> BOOLEAN] /\ \A f \in Env : entry[f] => entry'[f]
      /\ loc[e].child # NULL => entry'[loc[e].child]
  BY <1>1, <1>2 DEF CowTypeOK
<1>4. pc[e] \in Forking \ {"remap"} /\ "run" \in Forking \ {"remap"} BY <1>1 DEF Forking
<1> QED BY <1>1, <1>2, <1>3, <1>4, GotoKeeps

\* The child is started, with everything it needs.
LEMMA fork_runKeeps ==
  ASSUME CowInv, NEW e \in Env, fork_run(e)
  PROVE  CowInv'
<1> USE DEF Mapped
<1>1. /\ UNCHANGED <<mem, pt, entry, trap, halted, forks>> /\ pc[e] = "run" /\ trap[e].at = "no"
  BY DEF fork_run, At, Runs
<1>2. CowTypeOK BY DEF CowInv
<1> DEFINE c == loc[e].child
<1>3. /\ \A f \in Env : pc'[f] = IF f = e \/ f = c THEN "user" ELSE pc[f]
      /\ \A f \in Env : f # e => loc'[f] = loc[f]
  BY <1>2 DEF fork_run, CowTypeOK
<1>4. CowTypeOK'
  <2>1. Loc0 \in [child : Env \cup {NULL}, vpn : 0..(Top + 1), perm : Perm \cup {NULL}]
    BY CowAssumption DEF Loc0
  <2>2. loc' \in [Env -> [child : Env \cup {NULL}, vpn : 0..(Top + 1), perm : Perm \cup {NULL}]]
    BY <1>2, <2>1 DEF fork_run, CowTypeOK
  <2>3. pc' \in [Env -> {"none", "unborn", "user", "fork", "dup", "remap", "entry", "run"}]
    BY <1>2 DEF fork_run, CowTypeOK
  <2> QED BY <1>1, <1>2, <2>2, <2>3 DEF CowTypeOK
<1>5. PermsKnown' /\ LibraryOnly' /\ HandlerThere'
  BY <1>1 DEF CowInv, PermsKnown, LibraryOnly, HandlerThere
<1>6. c \in Env => pc[c] = "unborn" /\ entry[c] /\ trap[c].at = "no"
  BY <1>1, CowAssumption DEF CowInv, InFork, Forking, Ready
<1>7. Exclusive'
  <2>1. \A f \in Env : pc[f] = "remap" => pc'[f] = "remap" /\ loc'[f] = loc[f]
    BY <1>1, <1>3, <1>6
  <2> QED BY <2>1, <1>1 DEF CowInv, Exclusive, Copied
<1>8. ASSUME NEW f \in Env PROVE InFork(f)'
  <2>1. CASE f = e \/ f = c BY <2>1, <1>3 DEF InFork, Forking
  <2>2. CASE f # e /\ f # c
    <3>1. pc'[f] = pc[f] /\ loc'[f] = loc[f] BY <2>2, <1>3
    <3>2. InFork(f) BY DEF CowInv
    <3>3. pc[f] \in Forking /\ loc[f].child # NULL =>
            loc[f].child \in Env /\ loc[f].child # c /\ pc'[loc[f].child] = "unborn"
      BY <2>2, <1>1, <1>2, <1>3, <3>2 DEF InFork, CowTypeOK, Forking
    <3>4. ASSUME pc[f] \in Forking, loc[f].child # NULL, NEW g \in Env,
                 pc'[g] \in Forking, loc'[g].child = loc[f].child
          PROVE  g = f
      BY <3>4, <3>2, <1>3 DEF InFork, Forking
    <3> QED BY <1>1, <3>1, <3>2, <3>3, <3>4 DEF InFork
  <2> QED BY <2>1, <2>2
<1>9. ASSUME NEW f \in Env PROVE Ready(f)' /\ InCow(f)'
  BY <1>1, <1>3, <1>6 DEF CowInv, Ready, InCow
<1> QED BY <1>4, <1>5, <1>7, <1>8, <1>9 DEF CowInv
-----------------------------------------------------------------------------
(* A new page, and the handler.                                            *)

\* page_alloc finds a page that nobody maps, so mapping it disturbs nobody.
LEMMA NewPage ==
  ASSUME CowInv, NEW e \in Env, NEW v \in Vpn, ~Mapped(e, v),
         pc[e] \notin {"none", "unborn"}, trap[e].at # "unmap", trap'[e].at # "unmap",
         NEW p \in Free, Map(e, v, p, Writable), mem' = [mem EXCEPT ![p] = 0],
         UNCHANGED <<entry, pc, loc, forks, halted>>,
         trap' \in [Env -> [at : {"no", "alloc", "copy", "map", "unmap"}, va : Vpn,
                            perm : Perm \cup {NULL}]],
         \A f \in Env : f # e => trap'[f] = trap[f]
  PROVE  /\ CowTypeOK' /\ PermsKnown' /\ Exclusive' /\ LibraryOnly' /\ HandlerThere'
         /\ \A f \in Env : InFork(f)' /\ Ready(f)'
         /\ \A f \in Env : f # e => InCow(f)'
         /\ pt'[e][v] # NULL /\ pt'[e][v].perm = Writable
         /\ \A u \in Vpn : u # v => pt'[e][u] = pt[e][u]
         /\ \A f \in Env, u \in Vpn : Mapped(f, u) => View(f, u)' = View(f, u)
<1> USE DEF Mapped
<1>1. CowTypeOK /\ p \in Page /\ \A f \in Env, u \in Vpn : Mapped(f, u) => pt[f][u].page # p
  BY DEF CowInv, Free
<1>2. /\ pt' \in [Env -> [Vpn -> Pte \cup {NULL}]]
      /\ \A f \in Env, u \in Vpn : ~(f = e /\ u = v) => pt'[f][u] = pt[f][u]
      /\ pt'[e][v] # NULL /\ pt'[e][v].page = p /\ pt'[e][v].perm = Writable
  BY <1>1, Perms, MapDoes
<1>3. CowTypeOK'
  <2>1. mem' \in [Page -> Value] BY <1>1, CowAssumption DEF CowTypeOK
  <2> QED BY <1>1, <1>2, <2>1 DEF CowTypeOK
<1>4. PermsKnown' BY <1>2 DEF CowInv, PermsKnown
<1>5. LibraryOnly'
  <2> SUFFICES ASSUME NEW f \in Env, NEW g \in Env, NEW u \in Vpn, NEW w \in Vpn,
                      pt'[f][u] # NULL, pt'[g][w] # NULL, pt'[f][u].perm = LibPerm
               PROVE  /\ pt'[f][u].page = pt'[g][w].page => pt'[g][w].perm = LibPerm
                      /\ pt'[g][w].perm = LibPerm => (pt'[f][u].page = pt'[g][w].page <=> u = w)
    BY DEF LibraryOnly
  <2>1. ~(f = e /\ u = v) /\ pt'[f][u] = pt[f][u] BY <1>2, Perms
  <2>2. CASE g = e /\ w = v BY <2>1, <2>2, <1>1, <1>2, Perms
  <2>3. CASE ~(g = e /\ w = v)
    <3>1. pt'[g][w] = pt[g][w] BY <2>3, <1>2
    <3>2. LibraryOnly BY DEF CowInv
    <3> QED BY <2>1, <3>1, <3>2 DEF LibraryOnly
  <2> QED BY <2>2, <2>3
<1>6. Exclusive'
  <2> SUFFICES ASSUME NEW f \in Env, NEW g \in Env, NEW u \in Vpn, NEW w \in Vpn,
                      pt'[f][u] # NULL, pt'[g][w] # NULL, pt'[f][u].page = pt'[g][w].page,
                      pt'[f][u].perm = Writable, <<f, u>> # <<g, w>>
               PROVE  \/ f = g /\ Copied(f, u, w)'
                      \/ pc'[f] = "remap" /\ loc'[f].child = g /\ loc'[f].vpn = u /\ w = u
    BY DEF Exclusive
  <2>1. ~(f = e /\ u = v) /\ ~(g = e /\ w = v) BY <1>1, <1>2
  <2>2. pt'[f][u] = pt[f][u] /\ pt'[g][w] = pt[g][w] BY <2>1, <1>2
  <2>3. \/ f = g /\ Copied(f, u, w)
        \/ pc[f] = "remap" /\ loc[f].child = g /\ loc[f].vpn = u /\ w = u
    BY <2>2 DEF CowInv, Exclusive
  <2> QED BY <2>3 DEF Copied
<1>7. HandlerThere' BY DEF CowInv, HandlerThere
<1>8. ASSUME NEW f \in Env PROVE InFork(f)'
  <2>1. InFork(f) BY DEF CowInv
  <2>2. \A u \in Vpn : Mapped(f, u) => pt'[f][u] = pt[f][u] BY <1>2
  <2>3. pc[f] \in Forking /\ loc[f].child # NULL =>
          loc[f].child # e /\ \A u \in Vpn : pt'[loc[f].child][u] = pt[loc[f].child][u]
    BY <1>1, <1>2, <2>1 DEF InFork, CowTypeOK
  <2> QED BY <2>1, <2>2, <2>3 DEF InFork
<1>9. ASSUME NEW f \in Env PROVE Ready(f)'
  <2>1. Ready(f) BY DEF CowInv
  <2>2. CASE f = e
    <3>1. \A u \in Vpn : pt'[e][u] # NULL /\ pt'[e][u].perm = CowPerm => u # v /\ pt'[e][u] = pt[e][u]
      BY <1>2, Perms
    <3> QED BY <2>1, <2>2, <3>1 DEF Ready
  <2>3. CASE f # e
    <3>1. trap'[f] = trap[f] /\ \A u \in Vpn : pt'[f][u] = pt[f][u] BY <2>3, <1>2
    <3> QED BY <2>1, <3>1 DEF Ready
  <2> QED BY <2>2, <2>3
<1>10. ASSUME NEW f \in Env, NEW u \in Vpn, Mapped(f, u)
       PROVE  pt'[f][u] = pt[f][u] /\ mem'[pt[f][u].page] = mem[pt[f][u].page]
  BY <1>10, <1>1, <1>2, Entries DEF CowTypeOK
<1>11. ASSUME NEW f \in Env, f # e PROVE InCow(f)'
  <2>1. InCow(f) /\ trap'[f] = trap[f] /\ trap[f].va \in Vpn /\ UCOW \in Vpn
    BY <1>1, <1>11, CowAssumption DEF CowInv, CowTypeOK, UCOW, Vpn
  <2>2. \A u \in Vpn : pt'[f][u] = pt[f][u] BY <1>2, <1>11
  <2> QED BY <2>1, <2>2, <1>10 DEF InCow
<1> QED BY <1>2, <1>3, <1>4, <1>5, <1>6, <1>7, <1>8, <1>9, <1>10, <1>11 DEF View

\* The kernel panics for want of memory.
LEMMA PanicKeeps ==
  ASSUME CowInv, halted' \in {halted, "memory"}, UNCHANGED <<mem, pt, entry, pc, loc, forks, trap>>
  PROVE  CowInv'
<1> USE DEF Mapped
<1>1. CowTypeOK' /\ HandlerThere' BY DEF CowInv, CowTypeOK, HandlerThere
<1>2. PermsKnown' /\ Exclusive' /\ LibraryOnly'
  BY DEF CowInv, PermsKnown, Exclusive, LibraryOnly, Copied
<1>3. ASSUME NEW f \in Env PROVE InFork(f)' /\ InCow(f)' /\ Ready(f)'
  BY DEF CowInv, InFork, InCow, Ready
<1> QED BY <1>1, <1>2, <1>3 DEF CowInv

\* passive_alloc, which gives e the page or stops the machine.
LEMMA page_faultKeeps ==
  ASSUME CowInv, NEW e \in Env, NEW v \in Vpn \ {UCOW}, page_fault(e, v)
  PROVE  CowInv'
<1> USE DEF Mapped
<1>1. /\ UNCHANGED <<entry, pc, loc, trap, forks>> /\ ~Mapped(e, v) /\ halted = "no"
      /\ pc[e] \notin {"none", "unborn"} /\ trap[e].at = "no"
  BY DEF page_fault, Runs
<1>2. CASE MapNew(e, v) /\ UNCHANGED halted
  <2>1. PICK p \in Free : Map(e, v, p, Writable) /\ mem' = [mem EXCEPT ![p] = 0]
    BY <1>2 DEF MapNew
  <2>2. /\ CowTypeOK' /\ PermsKnown' /\ Exclusive' /\ LibraryOnly' /\ HandlerThere'
        /\ \A f \in Env : InFork(f)' /\ Ready(f)'
        /\ \A f \in Env : f # e => InCow(f)'
        /\ \A u \in Vpn : u # v => pt'[e][u] = pt[e][u]
    <3>1. trap' \in [Env -> [at : {"no", "alloc", "copy", "map", "unmap"}, va : Vpn,
                             perm : Perm \cup {NULL}]]
      BY <1>1 DEF CowInv, CowTypeOK
    <3>2. /\ \A f \in Env : f # e => trap'[f] = trap[f]
          /\ trap[e].at # "unmap" /\ trap'[e].at # "unmap"
          /\ UNCHANGED <<entry, pc, loc, forks, halted>>
      BY <1>1, <1>2
    <3> QED BY <1>1, <2>1, <3>1, <3>2, NewPage
  <2>3. InCow(e)'
    <3>1. UCOW \in Vpn BY CowAssumption DEF UCOW, Vpn
    <3> QED BY <2>2, <3>1, <1>1 DEF CowInv, InCow
  <2> QED BY <2>2, <2>3 DEF CowInv
<1>3. CASE Free = {} /\ halted' = "memory" /\ UNCHANGED <<mem, pt>>
  BY <1>1, <1>3, PanicKeeps
<1> QED BY <1>2, <1>3 DEF page_fault

\* A step of cow_entry before its map, which may write to the page at UCOW.
LEMMA HandlerStep ==
  ASSUME CowInv, NEW e \in Env, trap[e].at \in {"alloc", "copy"},
         NEW where \in {"copy", "map"}, Handle(e, where),
         UNCHANGED <<pt, entry, pc, loc, forks, halted>>, mem' \in [Page -> Value],
         \A f \in Env, u \in Vpn : f # e /\ Mapped(f, u) => mem'[pt[f][u].page] = mem[pt[f][u].page],
         InCow(e)'
  PROVE  CowInv'
<1> USE DEF Mapped
<1>1. CowTypeOK BY DEF CowInv
<1>2. /\ trap'[e].at = where /\ \A f \in Env : f # e => trap'[f] = trap[f]
      /\ trap' \in [Env -> [at : {"no", "alloc", "copy", "map", "unmap"}, va : Vpn,
                            perm : Perm \cup {NULL}]]
  BY <1>1 DEF CowTypeOK, Handle
<1>3. CowTypeOK' BY <1>1, <1>2 DEF CowTypeOK
<1>4. PermsKnown' /\ LibraryOnly' /\ HandlerThere'
  BY DEF CowInv, PermsKnown, LibraryOnly, HandlerThere
<1>5. \A f \in Env, u, v \in Vpn : Copied(f, v, u) => Copied(f, v, u)'
  BY <1>2 DEF Copied
<1>6. Exclusive'
  <2>1. Exclusive BY DEF CowInv
  <2> QED BY <2>1, <1>5 DEF Exclusive
<1>7. ASSUME NEW f \in Env PROVE InFork(f)' BY DEF CowInv, InFork
<1>8. ASSUME NEW f \in Env PROVE Ready(f)' BY <1>2 DEF CowInv, Ready
<1>9. ASSUME NEW f \in Env, f # e PROVE InCow(f)'
  <2>1. InCow(f) /\ trap'[f] = trap[f] /\ trap[f].va \in Vpn /\ UCOW \in Vpn
    BY <1>1, <1>2, <1>9, CowAssumption DEF CowInv, CowTypeOK, UCOW, Vpn
  <2> QED BY <2>1, <1>9 DEF InCow
<1> QED BY <1>3, <1>4, <1>6, <1>7, <1>8, <1>9 DEF CowInv

\* What holds in the handler.
LEMMA InHandler ==
  ASSUME CowInv, NEW e \in Env, trap[e].at # "no"
  PROVE  /\ CowTypeOK /\ trap[e].va \in Vpn \ {UCOW} /\ UCOW \in Vpn /\ trap[e].perm = CowPerm
         /\ pc[e] \notin {"none", "unborn"} /\ Mapped(e, trap[e].va)
         /\ pc[e] \in {"dup", "remap"} => trap[e].va # loc[e].vpn
BY CowAssumption DEF CowInv, InCow, CowTypeOK, UCOW, Vpn

\* The handler goes on, for the same page.
LEMMA HandlerAt ==
  ASSUME CowTypeOK, NEW e \in Env, NEW where \in {"no", "alloc", "copy", "map", "unmap"},
         Handle(e, where)
  PROVE  /\ trap' \in [Env -> [at : {"no", "alloc", "copy", "map", "unmap"}, va : Vpn,
                               perm : Perm \cup {NULL}]]
         /\ trap'[e].at = where /\ trap'[e].va = trap[e].va /\ trap'[e].perm = trap[e].perm
         /\ \A f \in Env : f # e => trap'[f] = trap[f]
BY DEF CowTypeOK, Handle

\* syscall_mem_alloc at UCOW, which may fail.
LEMMA cow_allocKeeps ==
  ASSUME CowInv, NEW e \in Env, cow_alloc(e)
  PROVE  CowInv'
<1>1. trap[e].at = "alloc" /\ Handle(e, "copy") /\ UNCHANGED <<entry, pc, loc, forks, halted>>
  BY DEF cow_alloc, In
<1>2. /\ CowTypeOK /\ trap[e].va \in Vpn \ {UCOW} /\ UCOW \in Vpn /\ trap[e].perm = CowPerm
      /\ pc[e] \notin {"none", "unborn"} /\ Mapped(e, trap[e].va)
      /\ pc[e] \in {"dup", "remap"} => trap[e].va # loc[e].vpn
  BY <1>1, InHandler
<1>3. pt[e][trap[e].va].perm = CowPerm /\ ~Mapped(e, UCOW) BY <1>1 DEF CowInv, InCow
<1>4. /\ trap' \in [Env -> [at : {"no", "alloc", "copy", "map", "unmap"}, va : Vpn,
                            perm : Perm \cup {NULL}]]
      /\ trap'[e].at = "copy" /\ trap'[e].va = trap[e].va /\ trap'[e].perm = trap[e].perm
      /\ \A f \in Env : f # e => trap'[f] = trap[f]
  BY <1>1, <1>2, HandlerAt
<1>5. CASE MapNew(e, UCOW)
  <2>1. PICK p \in Free : Map(e, UCOW, p, Writable) /\ mem' = [mem EXCEPT ![p] = 0]
    BY <1>5 DEF MapNew
  <2>2. /\ CowTypeOK' /\ PermsKnown' /\ Exclusive' /\ LibraryOnly' /\ HandlerThere'
        /\ \A f \in Env : InFork(f)' /\ Ready(f)'
        /\ \A f \in Env : f # e => InCow(f)'
        /\ pt'[e][UCOW] # NULL /\ pt'[e][UCOW].perm = Writable
        /\ \A u \in Vpn : u # UCOW => pt'[e][u] = pt[e][u]
    <3>1. trap[e].at # "unmap" /\ trap'[e].at # "unmap" BY <1>1, <1>4
    <3> QED BY <1>1, <1>2, <1>3, <1>4, <2>1, <3>1, NewPage
  <2>3. InCow(e)' BY <2>2, <1>1, <1>2, <1>3, <1>4 DEF InCow, Mapped
  <2> QED BY <2>2, <2>3 DEF CowInv
<1>6. CASE Free = {} /\ UNCHANGED <<mem, pt>>
  <2>1. InCow(e)' BY <1>6, <1>1, <1>2, <1>3, <1>4 DEF InCow, Mapped
  <2>2. mem' \in [Page -> Value] BY <1>2, <1>6 DEF CowTypeOK
  <2> QED BY <1>1, <1>6, <2>1, <2>2, HandlerStep
<1> QED BY <1>5, <1>6 DEF cow_alloc

\* What is at UCOW is mapped nowhere else before the copy takes its place.
LEMMA CopyAlone ==
  ASSUME CowInv, NEW e \in Env, trap[e].at \in {"copy", "map"}, Mapped(e, UCOW)
  PROVE  /\ pt[e][UCOW].page \in Page
         /\ \A f \in Env, u \in Vpn :
              Mapped(f, u) /\ ~(f = e /\ u = UCOW) => pt[f][u].page # pt[e][UCOW].page
<1>1. CowTypeOK /\ UCOW \in Vpn BY InHandler
<1>2. pt[e][UCOW].perm = Writable BY DEF CowInv, InCow
<1>3. ASSUME NEW f \in Env, NEW u \in Vpn, Mapped(f, u), ~(f = e /\ u = UCOW)
      PROVE  pt[f][u].page # pt[e][UCOW].page
  BY <1>1, <1>2, <1>3, PrivateOnce
<1> QED BY <1>1, <1>3, Entries

\* memcpy to UCOW, or the fault it takes first.
LEMMA cow_copyKeeps ==
  ASSUME CowInv, NEW e \in Env, cow_copy(e)
  PROVE  CowInv'
<1>1. trap[e].at = "copy" /\ UNCHANGED <<entry, pc, loc, forks>> BY DEF cow_copy, In
<1>2. /\ CowTypeOK /\ trap[e].va \in Vpn \ {UCOW} /\ UCOW \in Vpn /\ trap[e].perm = CowPerm
      /\ pc[e] \notin {"none", "unborn"} /\ Mapped(e, trap[e].va)
      /\ pc[e] \in {"dup", "remap"} => trap[e].va # loc[e].vpn
  BY <1>1, InHandler
<1>3. /\ pt[e][trap[e].va].perm = CowPerm
      /\ Mapped(e, UCOW) => pt[e][UCOW].perm = Writable
  BY <1>1 DEF CowInv, InCow
<1>4. CASE /\ Mapped(e, UCOW)
           /\ mem' = [mem EXCEPT ![pt[e][UCOW].page] = mem[pt[e][trap[e].va].page]]
           /\ Handle(e, "map")
           /\ UNCHANGED <<pt, halted>>
  <2>1. /\ pt[e][UCOW].page \in Page /\ pt[e][trap[e].va].page \in Page
        /\ \A f \in Env, u \in Vpn :
             Mapped(f, u) /\ ~(f = e /\ u = UCOW) => pt[f][u].page # pt[e][UCOW].page
    BY <1>1, <1>2, <1>4, CopyAlone, Entries
  <2>2. mem' \in [Page -> Value] /\ mem'[pt[e][UCOW].page] = mem[pt[e][trap[e].va].page]
    BY <1>2, <1>4, <2>1 DEF CowTypeOK
  <2>3. ASSUME NEW f \in Env, NEW u \in Vpn, Mapped(f, u), ~(f = e /\ u = UCOW)
        PROVE  mem'[pt[f][u].page] = mem[pt[f][u].page]
    BY <1>2, <1>4, <2>1, <2>3, Entries DEF CowTypeOK
  <2>4. trap'[e].at = "map" /\ trap'[e].va = trap[e].va /\ trap'[e].perm = trap[e].perm
    BY <1>2, <1>4, HandlerAt
  <2>5. InCow(e)' BY <1>1, <1>2, <1>3, <1>4, <2>2, <2>3, <2>4 DEF InCow, Mapped
  <2> QED BY <1>1, <1>4, <2>2, <2>3, <2>5, HandlerStep
<1>5. CASE ~Mapped(e, UCOW) /\ MapNew(e, UCOW) /\ UNCHANGED <<trap, halted>>
  <2>1. PICK p \in Free : Map(e, UCOW, p, Writable) /\ mem' = [mem EXCEPT ![p] = 0]
    BY <1>5 DEF MapNew
  <2>2. /\ CowTypeOK' /\ PermsKnown' /\ Exclusive' /\ LibraryOnly' /\ HandlerThere'
        /\ \A f \in Env : InFork(f)' /\ Ready(f)'
        /\ \A f \in Env : f # e => InCow(f)'
        /\ pt'[e][UCOW] # NULL /\ pt'[e][UCOW].perm = Writable
        /\ \A u \in Vpn : u # UCOW => pt'[e][u] = pt[e][u]
    <3>1. trap' \in [Env -> [at : {"no", "alloc", "copy", "map", "unmap"}, va : Vpn,
                             perm : Perm \cup {NULL}]]
      BY <1>2, <1>5 DEF CowTypeOK
    <3>2. trap[e].at # "unmap" /\ trap'[e].at # "unmap" BY <1>1, <1>5
    <3>3. UNCHANGED <<entry, pc, loc, forks, halted>> BY <1>1, <1>5
    <3> QED BY <1>2, <1>5, <2>1, <3>1, <3>2, <3>3, NewPage
  <2>3. InCow(e)' BY <2>2, <1>1, <1>2, <1>3, <1>5 DEF InCow, Mapped
  <2> QED BY <2>2, <2>3 DEF CowInv
<1>6. CASE /\ ~Mapped(e, UCOW) /\ Free = {}
           /\ halted' = "memory"
           /\ UNCHANGED <<mem, pt, trap>>
  BY <1>1, <1>6, PanicKeeps
<1> QED BY <1>4, <1>5, <1>6 DEF cow_copy

\* The copy takes the place of the page that was copied: it is alone, and e sees in it
\* what it saw before.
LEMMA cow_mapDoes ==
  ASSUME CowInv, NEW e \in Env, cow_map(e)
  PROVE  /\ trap[e].at = "map" /\ UNCHANGED <<mem, entry, pc, loc, halted, forks>>
         /\ pt' \in [Env -> [Vpn -> Pte \cup {NULL}]]
         /\ \A f \in Env, u \in Vpn : ~(f = e /\ u = trap[e].va) => pt'[f][u] = pt[f][u]
         /\ pt'[e][trap[e].va] # NULL /\ pt'[e][trap[e].va].page = pt[e][UCOW].page
         /\ pt'[e][trap[e].va].perm = Writable
         /\ Mapped(e, UCOW) /\ pt[e][UCOW].perm = Writable
         /\ mem[pt[e][UCOW].page] = mem[pt[e][trap[e].va].page]
         /\ Handle(e, "unmap")
<1>1. /\ trap[e].at = "map" /\ UNCHANGED <<mem, entry, pc, loc, halted, forks>>
      /\ Handle(e, "unmap")
      /\ Map(e, trap[e].va, pt[e][UCOW].page, [trap[e].perm EXCEPT !.w = TRUE, !.cow = FALSE])
  BY DEF cow_map, In
<1>2. CowTypeOK /\ trap[e].va \in Vpn \ {UCOW} /\ UCOW \in Vpn /\ trap[e].perm = CowPerm
  BY <1>1, InHandler
<1>3. /\ Mapped(e, UCOW) /\ pt[e][UCOW].perm = Writable
      /\ mem[pt[e][UCOW].page] = mem[pt[e][trap[e].va].page]
  BY <1>1 DEF CowInv, InCow
<1>4. pt[e][UCOW].page \in Page BY <1>2, <1>3, Entries
<1>5. Map(e, trap[e].va, pt[e][UCOW].page, Writable) BY <1>1, <1>2, PermSteps
<1> QED BY <1>1, <1>2, <1>3, <1>4, <1>5, Perms, MapDoes

\* cow_entry maps its copy where the page was.
LEMMA cow_mapKeeps ==
  ASSUME CowInv, NEW e \in Env, cow_map(e)
  PROVE  CowInv'
<1> DEFINE v == trap[e].va
<1> DEFINE q == pt[e][UCOW].page
<1>1. /\ trap[e].at = "map" /\ UNCHANGED <<mem, entry, pc, loc, halted, forks>>
      /\ pt' \in [Env -> [Vpn -> Pte \cup {NULL}]]
      /\ \A f \in Env, u \in Vpn : ~(f = e /\ u = v) => pt'[f][u] = pt[f][u]
      /\ pt'[e][v] # NULL /\ pt'[e][v].page = q /\ pt'[e][v].perm = Writable
      /\ Mapped(e, UCOW) /\ pt[e][UCOW].perm = Writable
      /\ Handle(e, "unmap")
  BY cow_mapDoes
<1>2. /\ CowTypeOK /\ v \in Vpn \ {UCOW} /\ UCOW \in Vpn /\ trap[e].perm = CowPerm
      /\ pc[e] \notin {"none", "unborn"} /\ Mapped(e, v)
      /\ pc[e] \in {"dup", "remap"} => v # loc[e].vpn
  BY <1>1, InHandler
<1>3. \A f \in Env, u \in Vpn : Mapped(f, u) /\ ~(f = e /\ u = UCOW) => pt[f][u].page # q
  BY <1>1, CopyAlone
<1>4. /\ trap' \in [Env -> [at : {"no", "alloc", "copy", "map", "unmap"}, va : Vpn,
                            perm : Perm \cup {NULL}]]
      /\ trap'[e].at = "unmap" /\ trap'[e].va = v /\ trap'[e].perm = trap[e].perm
      /\ \A f \in Env : f # e => trap'[f] = trap[f]
  BY <1>1, <1>2, HandlerAt
<1> HIDE DEF v, q
<1> USE DEF Mapped
<1>5. CowTypeOK' BY <1>1, <1>2, <1>4 DEF CowTypeOK
<1>6. PermsKnown' BY <1>1 DEF CowInv, PermsKnown
<1>7. HandlerThere' BY <1>1 DEF CowInv, HandlerThere
<1>8. LibraryOnly'
  <2> SUFFICES ASSUME NEW f \in Env, NEW g \in Env, NEW u \in Vpn, NEW w \in Vpn,
                      pt'[f][u] # NULL, pt'[g][w] # NULL, pt'[f][u].perm = LibPerm
               PROVE  /\ pt'[f][u].page = pt'[g][w].page => pt'[g][w].perm = LibPerm
                      /\ pt'[g][w].perm = LibPerm => (pt'[f][u].page = pt'[g][w].page <=> u = w)
    BY DEF LibraryOnly
  <2>1. ~(f = e /\ u = v) /\ pt'[f][u] = pt[f][u] BY <1>1, Perms
  <2>2. CASE g = e /\ w = v
    <3>1. ~(f = e /\ u = UCOW) BY <2>1, <1>1, Perms
    <3>2. pt[f][u].page # q BY <2>1, <3>1, <1>3
    <3> QED BY <2>1, <2>2, <3>2, <1>1, Perms
  <2>3. CASE ~(g = e /\ w = v)
    <3>1. pt'[g][w] = pt[g][w] BY <2>3, <1>1
    <3>2. LibraryOnly BY DEF CowInv
    <3> QED BY <2>1, <3>1, <3>2 DEF LibraryOnly
  <2> QED BY <2>2, <2>3
<1>9. Exclusive'
  <2> SUFFICES ASSUME NEW f \in Env, NEW g \in Env, NEW u \in Vpn, NEW w \in Vpn,
                      pt'[f][u] # NULL, pt'[g][w] # NULL, pt'[f][u].page = pt'[g][w].page,
                      pt'[f][u].perm = Writable, <<f, u>> # <<g, w>>
               PROVE  \/ f = g /\ Copied(f, u, w)'
                      \/ pc'[f] = "remap" /\ loc'[f].child = g /\ loc'[f].vpn = u /\ w = u
    BY DEF Exclusive
  <2>1. ASSUME NEW h \in Env, NEW x \in Vpn, pt'[h][x] # NULL, pt'[h][x].page = q
        PROVE  h = e /\ x \in {v, UCOW}
    BY <2>1, <1>1, <1>3
  <2>2. CASE pt'[f][u].page = q
    <3>1. f = e /\ g = e /\ u \in {v, UCOW} /\ w \in {v, UCOW} BY <2>1, <2>2
    <3>2. {u, w} = {UCOW, v} BY <3>1
    <3> QED BY <3>1, <3>2, <1>4 DEF Copied
  <2>3. CASE pt'[f][u].page # q
    <3>1. pt'[f][u] = pt[f][u] /\ pt'[g][w] = pt[g][w] BY <2>3, <1>1
    <3>2. \/ f = g /\ Copied(f, u, w)
          \/ pc[f] = "remap" /\ loc[f].child = g /\ loc[f].vpn = u /\ w = u
      BY <3>1 DEF CowInv, Exclusive
    <3>3. Copied(f, u, w) => Copied(f, u, w)' BY <1>1, <1>4 DEF Copied
    <3> QED BY <3>2, <3>3, <1>1
  <2> QED BY <2>2, <2>3
<1>10. ASSUME NEW f \in Env PROVE InFork(f)'
  <2>1. InFork(f) BY DEF CowInv
  <2>2. pc[f] \in {"dup", "remap"} /\ loc[f].vpn \in Vpn => pt'[f][loc[f].vpn] = pt[f][loc[f].vpn]
    BY <1>1, <1>2
  <2>3. pc[f] \in Forking /\ loc[f].child # NULL =>
          loc[f].child # e /\ \A u \in Vpn : pt'[loc[f].child][u] = pt[loc[f].child][u]
    BY <1>1, <1>2, <2>1 DEF InFork, CowTypeOK
  <2> QED BY <1>1, <2>1, <2>2, <2>3 DEF InFork
<1>11. ASSUME NEW f \in Env PROVE Ready(f)'
  <2>1. Ready(f) BY DEF CowInv
  <2>2. CASE f = e
    <3>1. \A u \in Vpn : pt'[e][u] # NULL /\ pt'[e][u].perm = CowPerm => pt'[e][u] = pt[e][u]
      BY <1>1, Perms
    <3> QED BY <1>1, <1>2, <2>1, <2>2, <3>1 DEF Ready
  <2>3. CASE f # e
    <3>1. trap'[f] = trap[f] /\ \A u \in Vpn : pt'[f][u] = pt[f][u] BY <2>3, <1>1, <1>4
    <3> QED BY <1>1, <2>1, <3>1 DEF Ready
  <2> QED BY <2>2, <2>3
<1>12. ASSUME NEW f \in Env PROVE InCow(f)'
  <2>1. CASE f = e
    <3>1. pt'[e][UCOW] = pt[e][UCOW] BY <1>1, <1>2
    <3> QED BY <2>1, <3>1, <1>1, <1>2, <1>4 DEF InCow, q
  <2>2. CASE f # e
    <3>1. InCow(f) /\ trap'[f] = trap[f] /\ trap[f].va \in Vpn /\ UCOW \in Vpn
      BY <1>2, <1>4, <2>2 DEF CowInv, CowTypeOK
    <3>2. \A u \in Vpn : pt'[f][u] = pt[f][u] BY <1>1, <2>2
    <3> QED BY <3>1, <3>2, <1>1 DEF InCow
  <2> QED BY <2>1, <2>2
<1> QED BY <1>5, <1>6, <1>7, <1>8, <1>9, <1>10, <1>11, <1>12 DEF CowInv

\* Unmapping an address disturbs no one else's mapping.
LEMMA cow_unmapKeeps ==
  ASSUME CowInv, NEW e \in Env, cow_unmap(e)
  PROVE  CowInv'
<1>1. /\ trap[e].at = "unmap" /\ UNCHANGED <<mem, entry, pc, loc, halted, forks>>
      /\ pt' = [pt EXCEPT ![e][UCOW] = NULL] /\ trap' = [trap EXCEPT ![e] = Trap0]
  BY DEF cow_unmap, In
<1>2. /\ CowTypeOK /\ UCOW \in Vpn /\ pc[e] \notin {"none", "unborn"}
  BY <1>1, InHandler
<1>3. /\ trap' \in [Env -> [at : {"no", "alloc", "copy", "map", "unmap"}, va : Vpn,
                            perm : Perm \cup {NULL}]]
      /\ trap'[e].at = "no" /\ \A f \in Env : f # e => trap'[f] = trap[f]
  BY <1>1, <1>2, CowAssumption DEF CowTypeOK, Trap0, Vpn
<1>4. /\ pt' \in [Env -> [Vpn -> Pte \cup {NULL}]] /\ pt'[e][UCOW] = NULL
      /\ \A f \in Env, u \in Vpn : ~(f = e /\ u = UCOW) => pt'[f][u] = pt[f][u]
  BY <1>1, <1>2 DEF CowTypeOK
<1> USE DEF Mapped
<1>5. CowTypeOK' BY <1>1, <1>2, <1>3, <1>4 DEF CowTypeOK
<1>6. \A f \in Env, u \in Vpn : pt'[f][u] # NULL => pt'[f][u] = pt[f][u] /\ ~(f = e /\ u = UCOW)
  BY <1>4
<1>7. PermsKnown' /\ HandlerThere'
  BY <1>1, <1>6 DEF CowInv, PermsKnown, HandlerThere
<1>8. LibraryOnly'
  <2>1. LibraryOnly BY DEF CowInv
  <2> QED BY <1>6, <2>1 DEF LibraryOnly
<1>9. Exclusive'
  <2> SUFFICES ASSUME NEW f \in Env, NEW g \in Env, NEW u \in Vpn, NEW w \in Vpn,
                      pt'[f][u] # NULL, pt'[g][w] # NULL, pt'[f][u].page = pt'[g][w].page,
                      pt'[f][u].perm = Writable, <<f, u>> # <<g, w>>
               PROVE  \/ f = g /\ Copied(f, u, w)'
                      \/ pc'[f] = "remap" /\ loc'[f].child = g /\ loc'[f].vpn = u /\ w = u
    BY DEF Exclusive
  <2>1. /\ pt'[f][u] = pt[f][u] /\ pt'[g][w] = pt[g][w]
        /\ ~(f = e /\ u = UCOW) /\ ~(g = e /\ w = UCOW)
    BY <1>6
  <2>2. \/ f = g /\ Copied(f, u, w)
        \/ pc[f] = "remap" /\ loc[f].child = g /\ loc[f].vpn = u /\ w = u
    BY <2>1 DEF CowInv, Exclusive
  <2>3. f = g /\ Copied(f, u, w) => f # e BY <2>1 DEF Copied
  <2>4. f = g /\ Copied(f, u, w) => Copied(f, u, w)' BY <2>3, <1>3 DEF Copied
  <2> QED BY <2>2, <2>4, <1>1
<1>10. ASSUME NEW f \in Env PROVE InFork(f)'
  <2>1. InFork(f) BY DEF CowInv
  <2>2. pc[f] \in {"dup", "remap"} => pt'[f][loc[f].vpn] = pt[f][loc[f].vpn]
    BY <1>4, <2>1 DEF InFork
  <2>3. pc[f] \in Forking /\ loc[f].child # NULL =>
          loc[f].child # e /\ \A u \in Vpn : pt'[loc[f].child][u] = pt[loc[f].child][u]
    BY <1>2, <1>4, <2>1 DEF InFork, CowTypeOK
  <2> QED BY <1>1, <2>1, <2>2, <2>3 DEF InFork
<1>11. ASSUME NEW f \in Env PROVE Ready(f)'
  <2>1. Ready(f) BY DEF CowInv
  <2>2. trap[f].at = "no" => trap'[f].at = "no" BY <1>1, <1>3
  <2> QED BY <1>1, <1>6, <2>1, <2>2 DEF Ready
<1>12. ASSUME NEW f \in Env PROVE InCow(f)'
  <2>1. CASE f = e BY <2>1, <1>1, <1>3, <1>4 DEF InCow
  <2>2. CASE f # e
    <3>1. InCow(f) /\ trap'[f] = trap[f] /\ trap[f].va \in Vpn /\ UCOW \in Vpn
      BY <1>2, <1>3, <2>2 DEF CowInv, CowTypeOK
    <3>2. \A u \in Vpn : pt'[f][u] = pt[f][u] BY <1>4, <2>2
    <3> QED BY <3>1, <3>2, <1>1 DEF InCow
  <2> QED BY <2>1, <2>2
<1> QED BY <1>5, <1>7, <1>8, <1>9, <1>10, <1>11, <1>12 DEF CowInv
-----------------------------------------------------------------------------
(* duppage and exit.                                                       *)

\* What duppage finds.
LEMMA InDup ==
  ASSUME CowInv, NEW e \in Env, pc[e] \in {"dup", "remap"}, trap[e].at = "no"
  PROVE  /\ CowTypeOK /\ entry[e] /\ loc[e].vpn \in Vpn \ {UCOW} /\ Mapped(e, loc[e].vpn)
         /\ loc[e].child \in Env \cup {NULL} /\ loc[e].vpn \in 0..Top
         /\ pt[e][loc[e].vpn].page \in Page /\ pt[e][loc[e].vpn].perm \in {Writable, CowPerm, LibPerm}
         /\ pc[e] = "dup" => loc[e].perm = pt[e][loc[e].vpn].perm
         /\ pc[e] = "remap" => loc[e].perm = CowPerm /\ pt[e][loc[e].vpn].perm = Writable
         /\ \A g \in Env : pc[g] \in Forking => loc[g].child # e
         /\ loc[e].child # NULL =>
              /\ pc[loc[e].child] = "unborn" /\ loc[e].child # e
              /\ trap[loc[e].child].at = "no"
              /\ \A g \in Env : pc[g] \in Forking /\ loc[g].child = loc[e].child => g = e
              /\ \A v \in Vpn : v > loc[e].vpn \/ (v = loc[e].vpn /\ pc[e] = "dup")
                                   => ~Mapped(loc[e].child, v)
<1>1. CowTypeOK /\ InFork(e) /\ pc[e] \in Forking BY DEF CowInv, Forking
<1>2. /\ entry[e] /\ loc[e].vpn \in Vpn \ {UCOW} /\ Mapped(e, loc[e].vpn)
      /\ pc[e] = "dup" => loc[e].perm = pt[e][loc[e].vpn].perm
      /\ pc[e] = "remap" => loc[e].perm = CowPerm /\ pt[e][loc[e].vpn].perm = Writable
  BY <1>1 DEF InFork
<1>3. loc[e].child \in Env \cup {NULL} /\ loc[e].vpn \in 0..Top
  BY <1>1, <1>2 DEF CowTypeOK, Vpn
<1>4. pt[e][loc[e].vpn].page \in Page BY <1>1, <1>2, Entries
<1>5. pt[e][loc[e].vpn].perm \in {Writable, CowPerm, LibPerm} BY <1>2 DEF CowInv, PermsKnown
<1>6. ASSUME NEW g \in Env, pc[g] \in Forking PROVE loc[g].child # e
  BY <1>6, CowAssumption DEF CowInv, InFork
<1>7. ASSUME loc[e].child # NULL
      PROVE  /\ pc[loc[e].child] = "unborn" /\ loc[e].child # e
             /\ \A g \in Env : pc[g] \in Forking /\ loc[g].child = loc[e].child => g = e
             /\ \A v \in Vpn : v > loc[e].vpn \/ (v = loc[e].vpn /\ pc[e] = "dup")
                                  => ~Mapped(loc[e].child, v)
  BY <1>1, <1>7 DEF InFork
<1>8. loc[e].child # NULL => trap[loc[e].child].at = "no"
  BY <1>3, <1>7 DEF CowInv, Ready
<1> QED BY <1>1, <1>2, <1>3, <1>4, <1>5, <1>6, <1>7, <1>8

\* fork goes on, in one env.
LEMMA GotoDoes ==
  ASSUME CowTypeOK, NEW e \in Env, NEW where \in {"remap", "fork"},
         NEW l \in [child : Env \cup {NULL}, vpn : 0..(Top + 1), perm : Perm \cup {NULL}],
         Goto(e, where, l)
  PROVE  /\ loc' \in [Env -> [child : Env \cup {NULL}, vpn : 0..(Top + 1), perm : Perm \cup {NULL}]]
         /\ pc' \in [Env -> {"none", "unborn", "user", "fork", "dup", "remap", "entry", "run"}]
         /\ pc'[e] = where /\ loc'[e] = l
         /\ \A f \in Env : f # e => pc'[f] = pc[f] /\ loc'[f] = loc[f]
BY DEF CowTypeOK, Goto

\* What the first syscall of duppage does, with a child or without.
LEMMA duppageDoes ==
  ASSUME CowInv, NEW e \in Env, duppage(e)
  PROVE  LET k == loc[e].vpn
             c == loc[e].child
             q == IF pt[e][k].perm = Writable THEN CowPerm ELSE pt[e][k].perm
         IN
         /\ pc[e] = "dup" /\ trap[e].at = "no" /\ UNCHANGED <<mem, entry, trap, halted, forks>>
         /\ pt' \in [Env -> [Vpn -> Pte \cup {NULL}]]
         /\ \A f \in Env, u \in Vpn :
              \/ pt'[f][u] = pt[f][u]
              \/ f = c /\ u = k /\ c # NULL /\ pt'[f][u] # NULL
                 /\ pt'[f][u].page = pt[e][k].page /\ pt'[f][u].perm = q
         /\ pt[e][k].perm = Writable => Goto(e, "remap", [loc[e] EXCEPT !.perm = CowPerm])
         /\ pt[e][k].perm # Writable =>
              Goto(e, "fork", [loc[e] EXCEPT !.vpn = @ + 1, !.perm = NULL])
<1> DEFINE k == loc[e].vpn
<1> DEFINE c == loc[e].child
<1> DEFINE q == IF pt[e][k].perm = Writable THEN CowPerm ELSE pt[e][k].perm
<1>1. pc[e] = "dup" /\ trap[e].at = "no" /\ UNCHANGED <<mem, entry, trap, halted, forks>>
  BY DEF duppage, At, Runs
<1>2. /\ CowTypeOK /\ k \in Vpn /\ c \in Env \cup {NULL} /\ loc[e].perm = pt[e][k].perm
      /\ pt[e][k].page \in Page /\ pt[e][k].perm \in {Writable, CowPerm, LibPerm}
  BY <1>1, InDup
<1>3. /\ Copies(loc[e].perm) <=> pt[e][k].perm = Writable
      /\ Copies(loc[e].perm) => [loc[e].perm EXCEPT !.w = FALSE, !.cow = TRUE] = CowPerm
  BY <1>2, PermSteps, Perms
<1>4. q \in Perm /\ q = IF Copies(loc[e].perm)
                        THEN [loc[e].perm EXCEPT !.w = FALSE, !.cow = TRUE] ELSE loc[e].perm
  BY <1>2, <1>3, Perms
<1>5. \/ c # NULL /\ Map(c, k, pt[e][k].page, q)
      \/ UNCHANGED pt
  BY <1>4 DEF duppage
<1>6. /\ pt[e][k].perm = Writable => Goto(e, "remap", [loc[e] EXCEPT !.perm = CowPerm])
      /\ pt[e][k].perm # Writable =>
           Goto(e, "fork", [loc[e] EXCEPT !.vpn = @ + 1, !.perm = NULL])
  BY <1>3 DEF duppage
<1> HIDE DEF q
<1>7. CASE c # NULL /\ Map(c, k, pt[e][k].page, q)
  <2>1. /\ pt' \in [Env -> [Vpn -> Pte \cup {NULL}]]
        /\ \A f \in Env, u \in Vpn : ~(f = c /\ u = k) => pt'[f][u] = pt[f][u]
        /\ pt'[c][k] # NULL /\ pt'[c][k].page = pt[e][k].page /\ pt'[c][k].perm = q
    BY <1>2, <1>4, <1>7, MapDoes
  <2>2. \A f \in Env, u \in Vpn :
              \/ pt'[f][u] = pt[f][u]
              \/ f = c /\ u = k /\ c # NULL /\ pt'[f][u] # NULL
                 /\ pt'[f][u].page = pt[e][k].page /\ pt'[f][u].perm = q
    BY <1>7, <2>1
  <2> QED BY <1>1, <1>6, <2>1, <2>2 DEF q
<1>8. CASE UNCHANGED pt
  <2>1. pt' \in [Env -> [Vpn -> Pte \cup {NULL}]] BY <1>2, <1>8 DEF CowTypeOK
  <2> QED BY <1>1, <1>6, <1>8, <2>1
<1> QED BY <1>5, <1>7, <1>8

\* duppage maps the page in the child, copy-on-write where it is private and writable,
LEMMA duppageKeeps ==
  ASSUME CowInv, NEW e \in Env, duppage(e)
  PROVE  CowInv'
<1> DEFINE k == loc[e].vpn
<1> DEFINE c == loc[e].child
<1> DEFINE q == IF pt[e][k].perm = Writable THEN CowPerm ELSE pt[e][k].perm
<1>1. /\ pc[e] = "dup" /\ trap[e].at = "no" /\ UNCHANGED <<mem, entry, trap, halted, forks>>
      /\ pt' \in [Env -> [Vpn -> Pte \cup {NULL}]]
      /\ \A f \in Env, u \in Vpn :
           \/ pt'[f][u] = pt[f][u]
           \/ f = c /\ u = k /\ c # NULL /\ pt'[f][u] # NULL
              /\ pt'[f][u].page = pt[e][k].page /\ pt'[f][u].perm = q
      /\ pt[e][k].perm = Writable => Goto(e, "remap", [loc[e] EXCEPT !.perm = CowPerm])
      /\ pt[e][k].perm # Writable =>
           Goto(e, "fork", [loc[e] EXCEPT !.vpn = @ + 1, !.perm = NULL])
  BY duppageDoes
<1>2. /\ CowTypeOK /\ entry[e] /\ k \in Vpn \ {UCOW} /\ Mapped(e, k)
      /\ c \in Env \cup {NULL} /\ k \in 0..Top
      /\ pt[e][k].page \in Page /\ pt[e][k].perm \in {Writable, CowPerm, LibPerm}
      /\ \A g \in Env : pc[g] \in Forking => loc[g].child # e
  BY <1>1, InDup
<1>3. c # NULL => /\ pc[c] = "unborn" /\ c # e /\ trap[c].at = "no"
                  /\ \A g \in Env : pc[g] \in Forking /\ loc[g].child = c => g = e
                  /\ \A v \in Vpn : v > k \/ v = k => ~Mapped(c, v)
  BY <1>1, InDup
<1>4. /\ loc' \in [Env -> [child : Env \cup {NULL}, vpn : 0..(Top + 1), perm : Perm \cup {NULL}]]
      /\ pc' \in [Env -> {"none", "unborn", "user", "fork", "dup", "remap", "entry", "run"}]
      /\ pc'[e] \in {"remap", "fork"} /\ loc'[e].child = c
      /\ pt[e][k].perm = Writable => pc'[e] = "remap" /\ loc'[e].vpn = k /\ loc'[e].perm = CowPerm
      /\ pt[e][k].perm # Writable => pc'[e] = "fork" /\ loc'[e].vpn = k + 1 /\ loc'[e].perm = NULL
      /\ \A f \in Env : f # e => pc'[f] = pc[f] /\ loc'[f] = loc[f]
  <2>0. loc[e] \in [child : Env \cup {NULL}, vpn : 0..(Top + 1), perm : Perm \cup {NULL}]
    BY <1>2 DEF CowTypeOK
  <2>1. CASE pt[e][k].perm = Writable
    <3> DEFINE l == [loc[e] EXCEPT !.perm = CowPerm]
    <3>1. /\ l \in [child : Env \cup {NULL}, vpn : 0..(Top + 1), perm : Perm \cup {NULL}]
          /\ l.child = c /\ l.vpn = k /\ l.perm = CowPerm
      BY <2>0, Perms
    <3>2. Goto(e, "remap", l) BY <1>1, <2>1
    <3> HIDE DEF l
    <3> QED BY <1>2, <2>1, <3>1, <3>2, GotoDoes
  <2>2. CASE pt[e][k].perm # Writable
    <3> DEFINE l == [loc[e] EXCEPT !.vpn = @ + 1, !.perm = NULL]
    <3>1. /\ l \in [child : Env \cup {NULL}, vpn : 0..(Top + 1), perm : Perm \cup {NULL}]
          /\ l.child = c /\ l.vpn = k + 1 /\ l.perm = NULL
      <4>1. k + 1 \in 0..(Top + 1) BY <1>2, CowAssumption
      <4> QED BY <2>0, <4>1
    <3>2. Goto(e, "fork", l) BY <1>1, <2>2
    <3> HIDE DEF l
    <3> QED BY <1>2, <2>2, <3>1, <3>2, GotoDoes
  <2> QED BY <2>1, <2>2
<1>5. q \in {CowPerm, LibPerm} /\ (q = LibPerm <=> pt[e][k].perm = LibPerm)
  BY <1>2, Perms
<1> HIDE DEF k, c, q
<1> USE DEF Mapped
<1>6. CowTypeOK' BY <1>1, <1>2, <1>4 DEF CowTypeOK
<1>7. PermsKnown' BY <1>1, <1>5 DEF CowInv, PermsKnown
<1>8. HandlerThere' BY <1>1 DEF CowInv, HandlerThere
<1>9. LibraryOnly'
  <2>1. ASSUME NEW f \in Env, NEW u \in Vpn, pt'[f][u] # NULL
        PROVE  \E h \in Env : /\ pt[h][u] # NULL /\ pt[h][u].page = pt'[f][u].page
                              /\ pt[h][u].perm = LibPerm <=> pt'[f][u].perm = LibPerm
    <3>1. CASE pt'[f][u] = pt[f][u] BY <2>1, <3>1
    <3>2. CASE u = k /\ pt'[f][u].page = pt[e][k].page /\ pt'[f][u].perm = q
      BY <3>2, <1>2, <1>5
    <3> QED BY <3>1, <3>2, <1>1
  <2> SUFFICES ASSUME NEW f \in Env, NEW g \in Env, NEW u \in Vpn, NEW w \in Vpn,
                      pt'[f][u] # NULL, pt'[g][w] # NULL, pt'[f][u].perm = LibPerm
               PROVE  /\ pt'[f][u].page = pt'[g][w].page => pt'[g][w].perm = LibPerm
                      /\ pt'[g][w].perm = LibPerm => (pt'[f][u].page = pt'[g][w].page <=> u = w)
    BY DEF LibraryOnly
  <2>2. PICK h \in Env : pt[h][u] # NULL /\ pt[h][u].page = pt'[f][u].page /\ pt[h][u].perm = LibPerm
    BY <2>1
  <2>3. PICK i \in Env : /\ pt[i][w] # NULL /\ pt[i][w].page = pt'[g][w].page
                         /\ pt[i][w].perm = LibPerm <=> pt'[g][w].perm = LibPerm
    BY <2>1
  <2>4. LibraryOnly BY DEF CowInv
  <2>5. /\ pt[h][u].page = pt[i][w].page => pt[i][w].perm = LibPerm
        /\ pt[i][w].perm = LibPerm => (pt[h][u].page = pt[i][w].page <=> u = w)
    BY <2>2, <2>3, <2>4 DEF LibraryOnly
  <2> QED BY <2>2, <2>3, <2>5
<1>10. Exclusive'
  <2> SUFFICES ASSUME NEW f \in Env, NEW g \in Env, NEW u \in Vpn, NEW w \in Vpn,
                      pt'[f][u] # NULL, pt'[g][w] # NULL, pt'[f][u].page = pt'[g][w].page,
                      pt'[f][u].perm = Writable, <<f, u>> # <<g, w>>
               PROVE  \/ f = g /\ Copied(f, u, w)'
                      \/ pc'[f] = "remap" /\ loc'[f].child = g /\ loc'[f].vpn = u /\ w = u
    BY DEF Exclusive
  <2>1. pt'[f][u] = pt[f][u] BY <1>1, <1>5, Perms
  <2>2. ASSUME NEW h \in Env, NEW x \in Vpn, pt[h][x] # NULL, pt[h][x].page = pt[f][u].page,
               <<f, u>> # <<h, x>>
        PROVE  \/ f = h /\ Copied(f, u, x)
               \/ pc[f] = "remap" /\ loc[f].child = h /\ loc[f].vpn = u /\ x = u
    BY <2>1, <2>2 DEF CowInv, Exclusive
  <2>3. CASE pt'[g][w] = pt[g][w]
    <3>1. \/ f = g /\ Copied(f, u, w)
          \/ pc[f] = "remap" /\ loc[f].child = g /\ loc[f].vpn = u /\ w = u
      BY <2>1, <2>2, <2>3
    <3>2. pc[f] = "remap" => pc'[f] = pc[f] /\ loc'[f] = loc[f] BY <1>1, <1>4
    <3> QED BY <3>1, <3>2, <1>1 DEF Copied
  <2>4. CASE g = c /\ w = k /\ c # NULL /\ pt'[g][w].page = pt[e][k].page
    <3>1. CASE f = e /\ u = k BY <2>1, <2>4, <3>1, <1>4
    <3>2. CASE ~(f = e /\ u = k)
      <4>1. \/ f = e /\ Copied(f, u, k)
            \/ pc[f] = "remap" /\ loc[f].child = e
        BY <2>1, <2>2, <2>4, <3>2, <1>2
      <4> QED BY <4>1, <1>1, <1>2 DEF Copied, Forking
    <3> QED BY <3>1, <3>2
  <2> QED BY <2>3, <2>4, <1>1
<1>11. ASSUME NEW f \in Env PROVE InFork(f)'
  <2>1. InFork(f) BY DEF CowInv
  <2>2. \A g \in Env : (pc'[g] \in Forking <=> pc[g] \in Forking) /\ loc'[g].child = loc[g].child
    BY <1>1, <1>4 DEF Forking, c
  <2>3. \A g \in Env : pc[g] = "unborn" => pc'[g] = "unborn" BY <1>1, <1>4
  <2>4. CASE f = e
    <3>1. pt'[e][k] = pt[e][k] BY <1>1, <1>2, <1>3
    <3>2. k \in Int /\ \A v \in Vpn : v \in Int BY <1>2 DEF Vpn
    <3>3. \A v \in Vpn : c # NULL /\ (v > loc'[e].vpn \/ (v = loc'[e].vpn /\ pc'[e] # "remap"))
                           => pt'[c][v] = NULL
      <4>1. c # NULL => \A v \in Vpn : v > k => pt'[c][v] = NULL BY <1>1, <1>2, <1>3, <3>2
      <4> QED BY <4>1, <3>2, <1>2, <1>4
    <3>4. c # NULL => pc'[c] = "unborn" /\ \A g \in Env : pc'[g] \in Forking /\ loc'[g].child = c => g = e
      BY <2>2, <2>3, <1>2, <1>3
    <3> QED BY <2>4, <3>1, <3>3, <3>4, <1>1, <1>2, <1>4 DEF InFork
  <2>5. CASE f # e
    <3>1. pc'[f] = pc[f] /\ loc'[f] = loc[f] BY <2>5, <1>4
    <3>2. \A u \in Vpn : pt[f][u] # NULL => pt'[f][u] = pt[f][u] BY <1>1, <1>2, <1>3
    <3>3. pc[f] \in Forking /\ loc[f].child # NULL =>
            loc[f].child \in Env /\ \A u \in Vpn : pt'[loc[f].child][u] = pt[loc[f].child][u]
      BY <1>1, <1>2, <1>3, <2>5 DEF CowTypeOK
    <3> QED BY <2>1, <2>2, <2>3, <3>1, <3>2, <3>3, <1>1 DEF InFork
  <2> QED BY <2>4, <2>5
<1>12. ASSUME NEW f \in Env PROVE Ready(f)'
  <2>1. Ready(f) BY DEF CowInv
  <2>2. CASE f = e BY <2>1, <2>2, <1>1, <1>2, <1>4 DEF Ready
  <2>3. CASE f # e /\ f = c
    <3>1. pc'[f] = "unborn" BY <2>3, <1>2, <1>3, <1>4, CowAssumption
    <3> QED BY <2>1, <3>1, <2>3, <1>1, <1>3, CowAssumption DEF Ready
  <2>4. CASE f # e /\ f # c
    <3>1. pc'[f] = pc[f] /\ \A u \in Vpn : pt'[f][u] = pt[f][u] BY <2>4, <1>1, <1>4
    <3> QED BY <2>1, <3>1, <1>1 DEF Ready
  <2> QED BY <2>2, <2>3, <2>4
<1>13. ASSUME NEW f \in Env PROVE InCow(f)'
  <2>1. InCow(f) /\ trap'[f] = trap[f] /\ trap[f].va \in Vpn /\ UCOW \in Vpn
    BY <1>1, <1>2, CowAssumption DEF CowInv, CowTypeOK, UCOW, Vpn
  <2>2. pt'[f][UCOW] = pt[f][UCOW] BY <1>1, <1>2, <2>1
  <2>3. CASE f = e \/ f = c
    <3>1. trap[f].at = "no" BY <2>3, <1>1, <1>3, CowAssumption
    <3> QED BY <2>1, <2>2, <3>1 DEF InCow
  <2>4. CASE f # e /\ f # c
    <3>1. pc'[f] = pc[f] /\ loc'[f] = loc[f] /\ \A u \in Vpn : pt'[f][u] = pt[f][u]
      BY <2>4, <1>1, <1>4
    <3> QED BY <2>1, <3>1, <1>1 DEF InCow
  <2> QED BY <2>3, <2>4
<1> QED BY <1>6, <1>7, <1>8, <1>9, <1>10, <1>11, <1>12, <1>13 DEF CowInv

\* The second syscall of duppage: the parent's page becomes copy-on-write too.
LEMMA duppage_remapDoes ==
  ASSUME CowInv, NEW e \in Env, duppage_remap(e)
  PROVE  /\ pc[e] = "remap" /\ trap[e].at = "no" /\ UNCHANGED <<mem, entry, trap, halted, forks>>
         /\ pt' \in [Env -> [Vpn -> Pte \cup {NULL}]]
         /\ \A f \in Env, u \in Vpn : ~(f = e /\ u = loc[e].vpn) => pt'[f][u] = pt[f][u]
         /\ pt'[e][loc[e].vpn] # NULL /\ pt'[e][loc[e].vpn].page = pt[e][loc[e].vpn].page
         /\ pt'[e][loc[e].vpn].perm = CowPerm
         /\ Goto(e, "fork", [loc[e] EXCEPT !.vpn = @ + 1, !.perm = NULL])
<1>1. /\ pc[e] = "remap" /\ trap[e].at = "no" /\ UNCHANGED <<mem, entry, trap, halted, forks>>
      /\ Map(e, loc[e].vpn, pt[e][loc[e].vpn].page, loc[e].perm)
      /\ Goto(e, "fork", [loc[e] EXCEPT !.vpn = @ + 1, !.perm = NULL])
  BY DEF duppage_remap, At, Runs
<1>2. CowTypeOK /\ loc[e].vpn \in Vpn /\ pt[e][loc[e].vpn].page \in Page /\ loc[e].perm = CowPerm
  BY <1>1, InDup
<1>3. Map(e, loc[e].vpn, pt[e][loc[e].vpn].page, CowPerm) BY <1>1, <1>2
<1> QED BY <1>1, <1>2, <1>3, Perms, MapDoes

\* and then in the parent.
LEMMA duppage_remapKeeps ==
  ASSUME CowInv, NEW e \in Env, duppage_remap(e)
  PROVE  CowInv'
<1> DEFINE k == loc[e].vpn
<1> DEFINE c == loc[e].child
<1>1. /\ pc[e] = "remap" /\ trap[e].at = "no" /\ UNCHANGED <<mem, entry, trap, halted, forks>>
      /\ pt' \in [Env -> [Vpn -> Pte \cup {NULL}]]
      /\ \A f \in Env, u \in Vpn : ~(f = e /\ u = k) => pt'[f][u] = pt[f][u]
      /\ pt'[e][k] # NULL /\ pt'[e][k].page = pt[e][k].page /\ pt'[e][k].perm = CowPerm
      /\ Goto(e, "fork", [loc[e] EXCEPT !.vpn = @ + 1, !.perm = NULL])
  BY duppage_remapDoes
<1>2. /\ CowTypeOK /\ entry[e] /\ k \in Vpn \ {UCOW} /\ Mapped(e, k)
      /\ c \in Env \cup {NULL} /\ k \in 0..Top
      /\ pt[e][k].perm = Writable
      /\ \A g \in Env : pc[g] \in Forking => loc[g].child # e
  BY <1>1, InDup
<1>3. c # NULL => /\ pc[c] = "unborn" /\ c # e
                  /\ \A g \in Env : pc[g] \in Forking /\ loc[g].child = c => g = e
                  /\ \A v \in Vpn : v > k => ~Mapped(c, v)
  BY <1>1, InDup
<1>4. /\ loc' \in [Env -> [child : Env \cup {NULL}, vpn : 0..(Top + 1), perm : Perm \cup {NULL}]]
      /\ pc' \in [Env -> {"none", "unborn", "user", "fork", "dup", "remap", "entry", "run"}]
      /\ pc'[e] = "fork" /\ loc'[e].child = c /\ loc'[e].vpn = k + 1 /\ loc'[e].perm = NULL
      /\ \A f \in Env : f # e => pc'[f] = pc[f] /\ loc'[f] = loc[f]
  <2> DEFINE l == [loc[e] EXCEPT !.vpn = @ + 1, !.perm = NULL]
  <2>1. loc[e] \in [child : Env \cup {NULL}, vpn : 0..(Top + 1), perm : Perm \cup {NULL}]
    BY <1>2 DEF CowTypeOK
  <2>2. k + 1 \in 0..(Top + 1) BY <1>2, CowAssumption
  <2>3. /\ l \in [child : Env \cup {NULL}, vpn : 0..(Top + 1), perm : Perm \cup {NULL}]
        /\ l.child = c /\ l.vpn = k + 1 /\ l.perm = NULL
    BY <2>1, <2>2
  <2>4. Goto(e, "fork", l) BY <1>1
  <2> HIDE DEF l
  <2> QED BY <1>2, <2>3, <2>4, GotoDoes
<1> HIDE DEF k, c
<1> USE DEF Mapped
<1>5. CowTypeOK' BY <1>1, <1>2, <1>4 DEF CowTypeOK
<1>6. PermsKnown' BY <1>1 DEF CowInv, PermsKnown
<1>7. HandlerThere' BY <1>1 DEF CowInv, HandlerThere
<1>8. \A f \in Env, u \in Vpn : pt'[f][u] # NULL =>
        /\ pt[f][u] # NULL /\ pt[f][u].page = pt'[f][u].page
        /\ pt[f][u].perm = LibPerm <=> pt'[f][u].perm = LibPerm
        /\ pt'[f][u].perm = Writable => pt'[f][u] = pt[f][u] /\ ~(f = e /\ u = k)
  BY <1>1, <1>2, Perms
<1>9. LibraryOnly'
  <2>1. LibraryOnly BY DEF CowInv
  <2> QED BY <1>8, <2>1 DEF LibraryOnly
<1>10. Exclusive'
  <2> SUFFICES ASSUME NEW f \in Env, NEW g \in Env, NEW u \in Vpn, NEW w \in Vpn,
                      pt'[f][u] # NULL, pt'[g][w] # NULL, pt'[f][u].page = pt'[g][w].page,
                      pt'[f][u].perm = Writable, <<f, u>> # <<g, w>>
               PROVE  \/ f = g /\ Copied(f, u, w)'
                      \/ pc'[f] = "remap" /\ loc'[f].child = g /\ loc'[f].vpn = u /\ w = u
    BY DEF Exclusive
  <2>1. pt'[f][u] = pt[f][u] /\ ~(f = e /\ u = k) BY <1>8
  <2>2. pt[g][w] # NULL /\ pt[g][w].page = pt'[g][w].page BY <1>8
  <2>3. \/ f = g /\ Copied(f, u, w)
        \/ pc[f] = "remap" /\ loc[f].child = g /\ loc[f].vpn = u /\ w = u
    BY <2>1, <2>2 DEF CowInv, Exclusive
  <2>4. pc[f] = "remap" /\ loc[f].vpn = u => pc'[f] = pc[f] /\ loc'[f] = loc[f]
    BY <2>1, <1>4 DEF k
  <2> QED BY <2>3, <2>4, <1>1 DEF Copied
<1>11. ASSUME NEW f \in Env PROVE InFork(f)'
  <2>1. InFork(f) BY DEF CowInv
  <2>2. \A g \in Env : (pc'[g] \in Forking <=> pc[g] \in Forking) /\ loc'[g].child = loc[g].child
    BY <1>1, <1>4 DEF Forking, c
  <2>3. \A g \in Env : pc[g] = "unborn" => pc'[g] = "unborn" BY <1>1, <1>4
  <2>4. CASE f = e
    <3>1. k \in Int /\ \A v \in Vpn : v \in Int BY <1>2 DEF Vpn
    <3>2. c # NULL => \A v \in Vpn : v > k => pt'[c][v] = NULL BY <1>1, <1>2, <1>3
    <3>3. \A v \in Vpn : c # NULL /\ (v > loc'[e].vpn \/ (v = loc'[e].vpn /\ pc'[e] # "remap"))
                           => pt'[c][v] = NULL
      BY <3>1, <3>2, <1>4
    <3>4. c # NULL => pc'[c] = "unborn" /\ \A g \in Env : pc'[g] \in Forking /\ loc'[g].child = c => g = e
      BY <2>2, <2>3, <1>2, <1>3
    <3> QED BY <2>4, <3>3, <3>4, <1>1, <1>2, <1>4 DEF InFork
  <2>5. CASE f # e
    <3>1. pc'[f] = pc[f] /\ loc'[f] = loc[f] BY <2>5, <1>4
    <3>2. \A u \in Vpn : pt'[f][u] = pt[f][u] BY <1>1, <2>5
    <3>3. pc[f] \in Forking /\ loc[f].child # NULL =>
            loc[f].child \in Env /\ \A u \in Vpn : pt'[loc[f].child][u] = pt[loc[f].child][u]
      BY <1>1, <1>2 DEF CowTypeOK
    <3> QED BY <2>1, <2>2, <2>3, <3>1, <3>2, <3>3, <1>1 DEF InFork
  <2> QED BY <2>4, <2>5
<1>12. ASSUME NEW f \in Env PROVE Ready(f)' /\ InCow(f)'
  <2>1. Ready(f) /\ InCow(f) /\ trap'[f] = trap[f] /\ trap[f].va \in Vpn /\ UCOW \in Vpn
    BY <1>1, <1>2, CowAssumption DEF CowInv, CowTypeOK, UCOW, Vpn
  <2>2. CASE f = e
    <3>1. pt'[e][UCOW] = pt[e][UCOW] BY <1>1, <1>2, <2>1
    <3> QED BY <2>1, <2>2, <3>1, <1>1, <1>2, <1>4 DEF Ready, InCow
  <2>3. CASE f # e
    <3>1. pc'[f] = pc[f] /\ loc'[f] = loc[f] /\ \A u \in Vpn : pt'[f][u] = pt[f][u]
      BY <2>3, <1>1, <1>4
    <3> QED BY <2>1, <3>1, <1>1 DEF Ready, InCow
  <2> QED BY <2>2, <2>3
<1> QED BY <1>5, <1>6, <1>7, <1>9, <1>10, <1>11, <1>12 DEF CowInv

\* env_free of an env that is in neither fork nor cow_entry.
LEMMA ExitKeeps ==
  ASSUME CowInv, NEW e \in Env, Exit(e)
  PROVE  CowInv'
<1>1. /\ UNCHANGED <<mem, loc, trap, halted, forks>> /\ pc[e] = "user" /\ trap[e].at = "no"
      /\ pt' = [pt EXCEPT ![e] = [v \in Vpn |-> NULL]]
      /\ pc' = [pc EXCEPT ![e] = "none"] /\ entry' = [entry EXCEPT ![e] = FALSE]
  BY DEF Exit, At, Runs
<1>2. CowTypeOK BY DEF CowInv
<1>3. /\ pt' \in [Env -> [Vpn -> Pte \cup {NULL}]] /\ \A v \in Vpn : pt'[e][v] = NULL
      /\ \A f \in Env, u \in Vpn : f # e => pt'[f][u] = pt[f][u]
  BY <1>1, <1>2 DEF CowTypeOK
<1>4. /\ pc'[e] = "none" /\ \A f \in Env : f # e => pc'[f] = pc[f] /\ entry'[f] = entry[f]
  BY <1>1, <1>2 DEF CowTypeOK
<1>5. CowTypeOK' BY <1>1, <1>2, <1>3 DEF CowTypeOK
<1> USE DEF Mapped
<1>6. \A f \in Env, u \in Vpn : pt'[f][u] # NULL => pt'[f][u] = pt[f][u] /\ f # e
  BY <1>3
<1>7. PermsKnown' /\ HandlerThere'
  BY <1>1, <1>6 DEF CowInv, PermsKnown, HandlerThere
<1>8. LibraryOnly'
  <2>1. LibraryOnly BY DEF CowInv
  <2> QED BY <1>6, <2>1 DEF LibraryOnly
<1>9. Exclusive'
  <2>1. Exclusive BY DEF CowInv
  <2> QED BY <1>1, <1>4, <1>6, <2>1 DEF Exclusive, Copied
<1>10. ASSUME NEW f \in Env PROVE InFork(f)'
  <2>1. InFork(f) BY DEF CowInv
  <2>2. CASE f = e BY <2>2, <1>4 DEF InFork, Forking
  <2>3. CASE f # e
    <3>1. pc'[f] = pc[f] /\ entry'[f] = entry[f] /\ \A u \in Vpn : pt'[f][u] = pt[f][u]
      BY <2>3, <1>3, <1>4
    <3>2. pc[f] \in Forking /\ loc[f].child # NULL =>
            /\ loc[f].child # e /\ pc'[loc[f].child] = "unborn"
            /\ entry'[loc[f].child] = entry[loc[f].child]
            /\ \A u \in Vpn : pt'[loc[f].child][u] = pt[loc[f].child][u]
      BY <1>1, <1>2, <1>3, <1>4, <2>1 DEF InFork, CowTypeOK
    <3>3. \A g \in Env : pc'[g] \in Forking => pc[g] \in Forking BY <1>4 DEF Forking
    <3>4. loc' = loc /\ ("run" \in Forking) BY <1>1 DEF Forking
    <3> QED BY <2>1, <3>1, <3>2, <3>3, <3>4 DEF InFork
  <2> QED BY <2>2, <2>3
<1>11. ASSUME NEW f \in Env PROVE Ready(f)' /\ InCow(f)'
  <2>1. Ready(f) /\ InCow(f) /\ trap[f].va \in Vpn /\ UCOW \in Vpn
    BY <1>2, CowAssumption DEF CowInv, CowTypeOK, UCOW, Vpn
  <2>2. CASE f = e BY <2>1, <2>2, <1>1, <1>3, <1>4 DEF Ready, InCow
  <2>3. CASE f # e
    <3>1. pc'[f] = pc[f] /\ entry'[f] = entry[f] /\ \A u \in Vpn : pt'[f][u] = pt[f][u]
      BY <2>3, <1>3, <1>4
    <3> QED BY <2>1, <3>1, <1>1 DEF Ready, InCow
  <2> QED BY <2>2, <2>3
<1> QED BY <1>5, <1>7, <1>8, <1>9, <1>10, <1>11 DEF CowInv

-----------------------------------------------------------------------------
(* The theorems.                                                           *)

\* The first env has pages of its own and no handler to need.
LEMMA InitInv == Init => CowInv
<1> SUFFICES ASSUME Init PROVE CowInv OBVIOUS
<1>1. PICK f \in [1..Top -> Page] :
        /\ \A u, v \in 1..Top : f[u] = f[v] => u = v
        /\ pt = [e \in Env |-> [v \in Vpn |->
                   IF e = Root /\ v \in Private \cup Library
                   THEN [page |-> f[v], perm |-> [Writable EXCEPT !.lib = v \in Library]]
                   ELSE NULL]]
  BY DEF Init
<1>2. [Writable EXCEPT !.lib = TRUE] = LibPerm /\ [Writable EXCEPT !.lib = FALSE] = Writable
  <2>1. ASSUME NEW r \in Perm, NEW s \in Perm, NEW b \in BOOLEAN,
               s.w = r.w, s.cow = r.cow, s.lib = b
        PROVE  [r EXCEPT !.lib = b] = s
    <3> DEFINE x == [r EXCEPT !.lib = b]
    <3>1. x \in Perm /\ x.w = r.w /\ x.cow = r.cow /\ x.lib = b BY DEF Perm
    <3> HIDE DEF x
    <3>2. x = s BY <2>1, <3>1, SamePerm
    <3> QED BY <3>2 DEF x
  <2>2. LibPerm.w = TRUE /\ LibPerm.lib = TRUE /\ LibPerm.cow = FALSE BY DEF LibPerm
  <2>3. Writable.w = TRUE /\ Writable.lib = FALSE /\ Writable.cow = FALSE BY DEF Writable
  <2> QED BY <2>1, <2>2, <2>3, Perms
<1>3. ASSUME NEW v \in Private \cup Library
      PROVE  /\ v \in Vpn \ {UCOW} /\ v \in 1..Top /\ f[v] \in Page
             /\ [Writable EXCEPT !.lib = v \in Library] = IF v \in Library THEN LibPerm ELSE Writable
  <2>1. v \in 1..Top BY CowAssumption
  <2>2. v \in Vpn \ {UCOW} /\ f[v] \in Page BY <2>1, CowAssumption DEF Vpn, UCOW
  <2>3. CASE v \in Library
    <3>1. (v \in Library) = TRUE BY <2>3
    <3> QED BY <2>1, <2>2, <2>3, <3>1, <1>2
  <2>4. CASE v \notin Library
    <3>1. (v \in Library) = FALSE BY <2>4
    <3> QED BY <2>1, <2>2, <2>4, <3>1, <1>2
  <2> QED BY <2>3, <2>4
<1>4. ASSUME NEW e \in Env, NEW v \in Vpn
      PROVE  \/ pt[e][v] = NULL
             \/ /\ e = Root /\ v \in 1..Top /\ v # UCOW /\ pt[e][v] \in Pte /\ pt[e][v] # NULL
                /\ pt[e][v].page = f[v] /\ pt[e][v].perm = IF v \in Library THEN LibPerm ELSE Writable
  <2>1. CASE e = Root /\ v \in Private \cup Library
    <3> DEFINE r == IF v \in Library THEN LibPerm ELSE Writable
    <3>1. r \in Perm BY Perms
    <3>2. pt[e][v] = [page |-> f[v], perm |-> r] BY <1>1, <1>3, <2>1
    <3> HIDE DEF r
    <3>3. f[v] \in Page BY <1>3, <2>1
    <3>4. pt[e][v] \in Pte /\ pt[e][v] # NULL /\ pt[e][v].page = f[v] /\ pt[e][v].perm = r
      BY <3>1, <3>2, <3>3, NewEntry
    <3> QED BY <2>1, <1>3, <3>4 DEF r
  <2>2. CASE ~(e = Root /\ v \in Private \cup Library)
    BY <2>2, <1>1
  <2> QED BY <2>1, <2>2
<1>5. /\ entry = [e \in Env |-> FALSE] /\ loc = [e \in Env |-> Loc0]
      /\ pc = [e \in Env |-> IF e = Root THEN "user" ELSE "none"]
      /\ forks = 0 /\ trap = [e \in Env |-> Trap0] /\ halted = "no" /\ mem \in [Page -> {0}]
  BY DEF Init
<1>6. CowTypeOK
  <2>1. pt \in [Env -> [Vpn -> Pte \cup {NULL}]] BY <1>1, <1>4
  <2>2. mem \in [Page -> Value] BY <1>5, CowAssumption
  <2>3. loc \in [Env -> [child : Env \cup {NULL}, vpn : 0..(Top + 1), perm : Perm \cup {NULL}]]
    BY <1>5, CowAssumption DEF Loc0
  <2>4. trap \in [Env -> [at : {"no", "alloc", "copy", "map", "unmap"}, va : Vpn,
                          perm : Perm \cup {NULL}]]
    BY <1>5, CowAssumption DEF Trap0, Vpn
  <2> QED BY <2>1, <2>2, <2>3, <2>4, <1>5 DEF CowTypeOK
<1> USE DEF Mapped
<1>7. PermsKnown BY <1>4 DEF PermsKnown
<1>8. Exclusive
  <2> SUFFICES ASSUME NEW e \in Env, NEW g \in Env, NEW v \in Vpn, NEW u \in Vpn,
                      pt[e][v] # NULL, pt[g][u] # NULL, pt[e][v].page = pt[g][u].page,
                      <<e, v>> # <<g, u>>
               PROVE  FALSE
    BY DEF Exclusive
  <2>1. pt[e][v].page = f[v] /\ pt[g][u].page = f[u] /\ e = g /\ v \in 1..Top /\ u \in 1..Top
    BY <1>4
  <2> QED BY <2>1, <1>1
<1>9. LibraryOnly
  <2> SUFFICES ASSUME NEW e \in Env, NEW g \in Env, NEW v \in Vpn, NEW u \in Vpn,
                      pt[e][v] # NULL, pt[g][u] # NULL, pt[e][v].perm = LibPerm
               PROVE  /\ pt[e][v].page = pt[g][u].page => pt[g][u].perm = LibPerm
                      /\ pt[g][u].perm = LibPerm => (pt[e][v].page = pt[g][u].page <=> v = u)
    BY DEF LibraryOnly
  <2>1. pt[e][v].page = f[v] /\ pt[g][u].page = f[u] /\ e = g /\ v \in 1..Top /\ u \in 1..Top
    BY <1>4
  <2> QED BY <2>1, <1>1
<1>10. ASSUME NEW e \in Env PROVE InFork(e) /\ InCow(e) /\ Ready(e)
  <2>1. trap[e].at = "no" /\ pc[e] = IF e = Root THEN "user" ELSE "none" BY <1>5 DEF Trap0
  <2>2. InFork(e) BY <2>1 DEF InFork, Forking
  <2>3. pt[e][UCOW] = NULL BY <1>4, CowAssumption DEF UCOW, Vpn
  <2>4. InCow(e) BY <2>1, <2>3 DEF InCow
  <2>5. \A v \in Vpn : (e # Root => pt[e][v] = NULL) /\ (pt[e][v] # NULL => pt[e][v].perm # CowPerm)
    BY <1>4, Perms
  <2>6. Ready(e) BY <2>1, <2>5 DEF Ready
  <2> QED BY <2>2, <2>4, <2>6
<1> QED BY <1>5, <1>6, <1>7, <1>8, <1>9, <1>10 DEF CowInv, HandlerThere

\* Every step keeps it.
LEMMA NextInv == CowInv /\ [CowNext]_cvars => CowInv'
<1> SUFFICES ASSUME CowInv, [CowNext]_cvars PROVE CowInv' OBVIOUS
<1>1. CASE UNCHANGED cvars
  BY <1>1, PanicKeeps DEF cvars
<1>2. ASSUME NEW e \in Env, UserStep(e) PROVE CowInv'
  <2>1. CASE \E v \in Vpn \ {UCOW}, x \in Value : Store(e, v, x) BY <2>1, StoreKeeps
  <2>2. CASE \E v \in Vpn \ {UCOW} : Shallow(e, v) /\ user_mod(e, v) BY <2>2, user_modKeeps
  <2>3. CASE \E v \in Vpn \ {UCOW} : page_fault(e, v) BY <2>3, page_faultKeeps
  <2>4. CASE \E c \in {f \in Env : pc[f] = "none"} \cup {NULL} : ForkBegin(e, c)
    BY <2>4, ForkBeginKeeps
  <2>5. CASE cow_alloc(e) \/ cow_copy(e) \/ cow_map(e) \/ cow_unmap(e)
    BY <2>5, cow_allocKeeps, cow_copyKeeps, cow_mapKeeps, cow_unmapKeeps
  <2>6. CASE fork(e) \/ duppage(e) \/ duppage_remap(e) \/ fork_entry(e) \/ fork_run(e) \/ Exit(e)
    BY <2>6, forkKeeps, duppageKeeps, duppage_remapKeeps, fork_entryKeeps, fork_runKeeps, ExitKeeps
  <2> QED BY <1>2, <2>1, <2>2, <2>3, <2>4, <2>5, <2>6, Zenon DEF UserStep
<1> QED BY <1>1, <1>2 DEF CowNext

\* The inductive invariant holds in every state.
THEOREM CowInvariant == CowSpec => []CowInv
BY InitInv, NextInv, PTL DEF CowSpec

\* Every variable of the model keeps its type.
THEOREM CowTypes == CowSpec => []CowTypeOK
<1>1. CowInv => CowTypeOK BY DEF CowInv
<1> QED BY <1>1, CowInvariant, PTL

\* No store finds a copy-on-write page in an env without a handler: the panic of
\* user_mod for a missing env_user_tlb_mod_entry is never reached.
THEOREM HandlerRegistered == CowSpec => []HandlerThere
<1>1. CowInv => HandlerThere BY DEF CowInv
<1> QED BY <1>1, CowInvariant, PTL

\* Library pages stay shared and writable among all who have inherited them, however
\* many generations of fork lie between.
THEOREM LibraryPages == CowSpec => []LibraryShared
<1>1. ASSUME CowInv PROVE LibraryShared
  <2> SUFFICES ASSUME NEW e \in Env, NEW f \in Env, NEW v \in Vpn
               PROVE  /\ Mapped(e, v) /\ pt[e][v].perm.lib => pt[e][v].perm.w
                      /\ Mapped(e, v) /\ Mapped(f, v) /\ pt[e][v].perm.lib /\ pt[f][v].perm.lib
                           => pt[e][v].page = pt[f][v].page
    BY DEF LibraryShared
  <2>1. Mapped(e, v) /\ pt[e][v].perm.lib => pt[e][v].perm = LibPerm BY <1>1, WritableKind
  <2>2. Mapped(f, v) /\ pt[f][v].perm.lib => pt[f][v].perm = LibPerm BY <1>1, WritableKind
  <2> QED BY <1>1, <2>1, <2>2, Perms DEF CowInv, LibraryOnly
<1> QED BY <1>1, CowInvariant, PTL

\* Which steps change what e sees at v: only its own stores and its exit, when the page
\* is not a library page and no duppage on it is half done.
LEMMA Isolated ==
  ASSUME CowInv, NEW g \in Env, UserStep(g), NEW e \in Env, NEW v \in Vpn \ {UCOW},
         Mapped(e, v), ~pt[e][v].perm.lib, ~HalfDone(e, v),
         ~\E x \in Value : Store(e, v, x), ~Exit(e)
  PROVE  View(e, v)' = View(e, v)
<1>1. CowTypeOK /\ UCOW \in Vpn BY CowAssumption DEF CowInv, Vpn, UCOW
<1>2. pt[e][v].perm \in {Writable, CowPerm} /\ pt[e][v].page \in Page
  BY <1>1, WritableKind, Entries
<1>3. ASSUME pt'[e][v] = pt[e][v], mem'[pt[e][v].page] = mem[pt[e][v].page]
      PROVE  View(e, v)' = View(e, v)
  BY <1>3 DEF View, Mapped
<1>4. ASSUME NEW w \in Vpn, ~Mapped(g, w), MapNew(g, w) PROVE View(e, v)' = View(e, v)
  <2>1. PICK p \in Free : Map(g, w, p, Writable) /\ mem' = [mem EXCEPT ![p] = 0]
    BY <1>4 DEF MapNew
  <2>2. p \in Page /\ p # pt[e][v].page BY DEF Free
  <2>3. pt'[e][v] = pt[e][v] BY <1>1, <1>4, <2>1, <2>2, Perms, MapDoes
  <2> QED BY <1>1, <1>2, <1>3, <2>1, <2>2, <2>3 DEF CowTypeOK
<1>5. ASSUME NEW w \in Vpn \ {UCOW}, NEW x \in Value, Store(g, w, x)
      PROVE  View(e, v)' = View(e, v)
  <2>1. /\ Runs(g) /\ Mapped(g, w) /\ pt[g][w].perm.w /\ pt' = pt
        /\ mem' = [mem EXCEPT ![pt[g][w].page] = x] /\ <<g, w>> # <<e, v>>
    BY <1>5 DEF Store
  <2>2. pt[g][w].page # pt[e][v].page
    <3> SUFFICES ASSUME pt[g][w].page = pt[e][v].page PROVE FALSE OBVIOUS
    <3>1. CASE pt[e][v].perm = CowPerm BY <2>1, <3>1, CowNotWritten DEF HalfDone
    <3>2. CASE pt[e][v].perm = Writable
      <4>1. \/ e = g /\ Copied(e, v, w)
            \/ pc[e] = "remap" /\ loc[e].child = g
        BY <2>1, <3>2 DEF CowInv, Exclusive
      <4>2. ~Copied(e, v, w)
        <5>1. UCOW \notin {v, w} BY <1>5
        <5> QED BY <5>1 DEF Copied
      <4>3. pc[e] = "remap" /\ loc[e].child = g => pc[g] = "unborn"
        BY CowAssumption DEF CowInv, InFork, Forking
      <4> QED BY <2>1, <4>1, <4>2, <4>3 DEF Runs
    <3> QED BY <1>2, <3>1, <3>2
  <2> QED BY <1>1, <1>2, <1>3, <2>1, <2>2 DEF CowTypeOK
<1>6. CASE UNCHANGED <<mem, pt>> BY <1>3, <1>6
<1>7. ASSUME NEW w \in Vpn \ {UCOW}, page_fault(g, w) PROVE View(e, v)' = View(e, v)
  BY <1>4, <1>6, <1>7 DEF page_fault
<1>8. CASE cow_alloc(g)
  <2>1. ~Mapped(g, UCOW) BY <1>8 DEF CowInv, InCow, cow_alloc, In
  <2> QED BY <1>1, <1>4, <1>6, <1>8, <2>1 DEF cow_alloc
<1>9. CASE cow_copy(g)
  <2>1. CASE /\ Mapped(g, UCOW) /\ UNCHANGED pt
             /\ mem' = [mem EXCEPT ![pt[g][UCOW].page] = mem[pt[g][trap[g].va].page]]
    <3>1. trap[g].at = "copy" BY <1>9 DEF cow_copy, In
    <3>2. pt[e][v].page # pt[g][UCOW].page BY <2>1, <3>1, CopyAlone
    <3> QED BY <1>1, <1>2, <1>3, <2>1, <3>2 DEF CowTypeOK
  <2>2. CASE ~Mapped(g, UCOW) /\ MapNew(g, UCOW) BY <1>1, <1>4, <2>2
  <2> QED BY <1>6, <1>9, <2>1, <2>2 DEF cow_copy
<1>10. CASE cow_map(g)
  <2>1. /\ UNCHANGED mem /\ trap[g].at = "map"
        /\ \A f \in Env, u \in Vpn : ~(f = g /\ u = trap[g].va) => pt'[f][u] = pt[f][u]
        /\ pt'[g][trap[g].va] # NULL /\ pt'[g][trap[g].va].page = pt[g][UCOW].page
        /\ mem[pt[g][UCOW].page] = mem[pt[g][trap[g].va].page]
    BY <1>10, cow_mapDoes
  <2>2. CASE e = g /\ v = trap[g].va BY <2>1, <2>2 DEF View, Mapped
  <2>3. CASE ~(e = g /\ v = trap[g].va) BY <1>3, <2>1, <2>3
  <2> QED BY <2>2, <2>3
<1>11. CASE cow_unmap(g)
  <2>1. pt' = [pt EXCEPT ![g][UCOW] = NULL] /\ UNCHANGED mem BY <1>11 DEF cow_unmap
  <2>2. pt'[e][v] = pt[e][v] BY <1>1, <2>1 DEF CowTypeOK
  <2> QED BY <1>3, <2>1, <2>2
<1>12. CASE duppage(g)
  <2>1. /\ pc[g] = "dup" /\ trap[g].at = "no" /\ UNCHANGED mem
        /\ \/ pt'[e][v] = pt[e][v]
           \/ e = loc[g].child /\ v = loc[g].vpn /\ loc[g].child # NULL
    <3> DEFINE q == IF pt[g][loc[g].vpn].perm = Writable THEN CowPerm ELSE pt[g][loc[g].vpn].perm
    <3>1. /\ pc[g] = "dup" /\ trap[g].at = "no" /\ UNCHANGED mem
          /\ \A f \in Env, u \in Vpn :
               \/ pt'[f][u] = pt[f][u]
               \/ f = loc[g].child /\ u = loc[g].vpn /\ loc[g].child # NULL /\ pt'[f][u] # NULL
                  /\ pt'[f][u].page = pt[g][loc[g].vpn].page /\ pt'[f][u].perm = q
      BY <1>12, duppageDoes
    <3> QED BY <3>1
  <2>2. CASE pt'[e][v] = pt[e][v] BY <1>3, <2>1, <2>2
  <2>3. CASE e = loc[g].child /\ v = loc[g].vpn /\ loc[g].child # NULL
    <3>1. loc[g].vpn \in Vpn /\ \A u \in Vpn : u = loc[g].vpn => ~Mapped(loc[g].child, u)
      BY <2>1, <2>3, InDup
    <3> QED BY <2>3, <3>1
  <2> QED BY <2>1, <2>2, <2>3
<1>13. CASE duppage_remap(g)
  <2>1. /\ UNCHANGED mem
        /\ \A f \in Env, u \in Vpn : ~(f = g /\ u = loc[g].vpn) => pt'[f][u] = pt[f][u]
        /\ pt'[g][loc[g].vpn] # NULL /\ pt'[g][loc[g].vpn].page = pt[g][loc[g].vpn].page
    BY <1>13, duppage_remapDoes
  <2>2. CASE e = g /\ v = loc[g].vpn BY <2>1, <2>2 DEF View, Mapped
  <2>3. CASE ~(e = g /\ v = loc[g].vpn) BY <1>3, <2>1, <2>3
  <2> QED BY <2>2, <2>3
<1>14. CASE Exit(g)
  <2>1. pt' = [pt EXCEPT ![g] = [u \in Vpn |-> NULL]] /\ UNCHANGED mem /\ g # e
    BY <1>14 DEF Exit
  <2>2. pt'[e][v] = pt[e][v] BY <1>1, <2>1 DEF CowTypeOK
  <2> QED BY <1>3, <2>1, <2>2
<1>15. CASE \E w \in Vpn \ {UCOW} : user_mod(g, w) BY <1>6, <1>15 DEF user_mod
<1>16. CASE \/ \E c \in {f \in Env : pc[f] = "none"} \cup {NULL} : ForkBegin(g, c)
            \/ fork(g) \/ fork_entry(g) \/ fork_run(g)
  BY <1>6, <1>16 DEF ForkBegin, fork, fork_entry, fork_run
<1> QED BY <1>5, <1>7, <1>8, <1>9, <1>10, <1>11, <1>12, <1>13, <1>14, <1>15, <1>16 DEF UserStep

\* Copy-on-write isolates: what an env reads in a page that is not a library page changes
\* only by its own stores, whatever its parent, its children and their handlers do.
THEOREM Isolates == CowSpec => Isolation
<1>1. ASSUME CowInv, [CowNext]_cvars
      PROVE  [\A e \in Env, v \in Vpn \ {UCOW} :
                Mapped(e, v) /\ ~pt[e][v].perm.lib /\ ~HalfDone(e, v)
                => \/ View(e, v)' = View(e, v)
                   \/ \E x \in Value : Store(e, v, x)
                   \/ Exit(e)]_cvars
  <2>1. CASE UNCHANGED cvars BY <2>1
  <2>2. ASSUME NEW g \in Env, UserStep(g), NEW e \in Env, NEW v \in Vpn \ {UCOW},
               Mapped(e, v) /\ ~pt[e][v].perm.lib /\ ~HalfDone(e, v)
        PROVE  \/ View(e, v)' = View(e, v)
               \/ \E x \in Value : Store(e, v, x)
               \/ Exit(e)
    BY <1>1, <2>2, Isolated
  <2> QED BY <1>1, <2>1, <2>2 DEF CowNext
<1> QED BY <1>1, CowInvariant, PTL DEF CowSpec, Isolation
================================================================================
