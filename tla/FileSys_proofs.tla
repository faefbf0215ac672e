----------------------------- MODULE FileSys_proofs -----------------------------
(***************************************************************************)
(* No block belongs to two files, or to one and is free, in the cache and  *)
(* wherever the machine stops, and a file that was closed is on the disk:  *)
(* FsInv is an inductive invariant of FsSpec, for any number of files,     *)
(* blocks and sizes and every disk that is sound to begin with.            *)
(***************************************************************************)
EXTENDS FileSys, WellFoundedInduction, SequenceTheorems, TLAPS

-----------------------------------------------------------------------------
(* Blocks and pointers.                                                    *)

\* Block numbers are positive.
LEMMA Numbers ==
  /\ Block \subseteq Nat /\ 0 \notin Block
  /\ Word \subseteq 0..NINDIRECT /\ NINDIRECT \notin Word /\ 0..(NDIRECT - 1) \subseteq 0..NINDIRECT
  /\ \A i \in 0..NINDIRECT : i \in 0..(NDIRECT - 1) \/ i \in Word \/ i = NINDIRECT
  /\ \A i \in 0..NINDIRECT : (i \in 0..(NDIRECT - 1) <=> i < NDIRECT)
  /\ Zero \in [Word -> Nat]
BY FsAssumption DEF Block, Word, Zero

\* alloc_block_num finds a free block when there is one.
LEMMA FirstFreeIsFree ==
  ASSUME NEW m, m.bitmap \subseteq Block, m.bitmap # {}
  PROVE  FirstFree(m) \in m.bitmap
<1> DEFINE S == m.bitmap
<1>1. S \in SUBSET Nat
  BY Numbers
<1>2. \E x \in S : \A y \in S : x <= y
  <2>1. PICK x \in S : \A y \in S : ~(<<y, x>> \in OpToRel(<, Nat))
    <3> HIDE DEF S
    <3> QED BY <1>1, NatLessThanWellFounded, WFMin DEF S
  <2>2. \A y \in S : x <= y
    <3> TAKE y \in S
    <3>1. x \in Nat /\ y \in Nat BY <1>1
    <3>2. ~(y < x) BY <2>1, <3>1 DEF OpToRel
    <3> QED BY <3>1, <3>2
  <2> QED BY <2>2
<1> QED BY <1>2 DEF FirstFree

\* The parts of an image.
LEMMA Parts ==
  ASSUME NEW m \in Image
  PROVE  /\ m.bitmap \subseteq Block
         /\ m.file \in [File -> Inode] /\ m.page \in [Block -> [Word -> Nat] \cup {NULL}]
         /\ \A f \in File :
              /\ m.file[f] \in Inode
              /\ m.file[f].f_name \in BOOLEAN /\ m.file[f].f_size \in Nat
              /\ m.file[f].f_direct \in [0..(NDIRECT - 1) -> Nat]
              /\ m.file[f].f_indirect \in Nat
BY DEF Image, Inode

\* What the places of an image hold, by their kind: a direct pointer,
LEMMA HeldDirect ==
  ASSUME NEW m, NEW d, NEW f, NEW i \in 0..NINDIRECT, i < NDIRECT
  PROVE  Held(m, d, <<f, i>>) = m.file[f].f_direct[i]
BY DEF Held

\* the table,
LEMMA HeldTable ==
  ASSUME NEW m, NEW d, NEW f
  PROVE  Held(m, d, <<f, NINDIRECT>>) = m.file[f].f_indirect
BY FsAssumption DEF Held

\* and a word of the table.
LEMMA HeldWord ==
  ASSUME NEW m, NEW d, NEW f, NEW i \in Word, NEW t, m.file[f].f_indirect = t
  PROVE  Held(m, d, <<f, i>>) = IF t \notin Block THEN 0
                                ELSE IF m.page[t] = NULL THEN d.page[t][i] ELSE m.page[t][i]
<1>1. ~(i < NDIRECT) /\ i # NINDIRECT
  BY FsAssumption DEF Word
<1> QED BY <1>1 DEF Held

\* A place is a file and a number.
LEMMA PlaceIs ==
  ASSUME NEW p \in Places
  PROVE  p[1] \in File /\ p[2] \in 0..NINDIRECT /\ p = <<p[1], p[2]>>
BY DEF Places

\* A place holds the same in images with the same pointers.
LEMMA SamePointers ==
  ASSUME NEW m, NEW n, NEW d, NEW p \in Places,
         n.file[p[1]].f_direct = m.file[p[1]].f_direct,
         n.file[p[1]].f_indirect = m.file[p[1]].f_indirect,
         m.file[p[1]].f_indirect \in Block =>
           n.page[m.file[p[1]].f_indirect] = m.page[m.file[p[1]].f_indirect]
  PROVE  Held(n, d, p) = Held(m, d, p)
BY DEF Held

\* Pointers may be cleared, and the blocks they led to be freed.
LEMMA SoundShrinks ==
  ASSUME NEW m, NEW n, NEW d, NEW ps, Sound(m, d, ps), n.bitmap \cap DirBlocks = {},
         \A p \in ps : Held(n, d, p) \in {0, Held(m, d, p)},
         \A p \in ps : Held(n, d, p) # 0 => Held(n, d, p) \notin n.bitmap
  PROVE  Sound(n, d, ps)
BY DEF Sound

\* A place that is empty may get a block that is free.
LEMMA SoundGrows ==
  ASSUME NEW m, NEW n, NEW d, NEW ps, Sound(m, d, ps), m.bitmap \subseteq Block,
         NEW p0 \in ps, NEW b \in m.bitmap,
         Held(m, d, p0) = 0, Held(n, d, p0) = b, n.bitmap = m.bitmap \ {b},
         \A p \in ps : p # p0 => Held(n, d, p) = Held(m, d, p)
  PROVE  Sound(n, d, ps)
BY DEF Sound
\* read_block brings a block into the cache and changes no pointer.
LEMMA Reads ==
  ASSUME NEW m \in Image, NEW b, disk \in Image
  PROVE  LET n == read_block(m, b) IN
         /\ n \in Image /\ n.bitmap = m.bitmap /\ n.file = m.file
         /\ \A c \in Block : n.page[c] = IF c = b /\ m.page[c] = NULL THEN disk.page[c]
                                         ELSE m.page[c]
         /\ \A p \in Places : Held(n, disk, p) = Held(m, disk, p)
<1> DEFINE n == read_block(m, b)
<1>1. /\ n.bitmap = m.bitmap /\ n.file = m.file
      /\ n.page = [c \in Block |-> IF c = b /\ m.page[c] = NULL THEN disk.page[c] ELSE m.page[c]]
      /\ n = [bitmap |-> m.bitmap, file |-> m.file, page |-> n.page]
  BY DEF read_block, Image
<1>2. n.page \in [Block -> [Word -> Nat] \cup {NULL}]
  BY <1>1, Parts
<1>3. n \in Image
  BY <1>1, <1>2, Parts DEF Image
<1>4. ASSUME NEW p \in Places PROVE Held(n, disk, p) = Held(m, disk, p)
  <2> DEFINE t == m.file[p[1]].f_indirect
  <2>1. t \in Block => n.page[t] = IF t = b /\ m.page[t] = NULL THEN disk.page[t] ELSE m.page[t]
    BY <1>1
  <2>2. n.file = m.file
    BY <1>1
  <2> HIDE DEF n
  <2> QED BY <2>1, <2>2 DEF Held
<1> QED BY <1>1, <1>3, <1>4

\* alloc_block takes a free block, whose page is cleared if it is new.
LEMMA Allocs ==
  ASSUME NEW m \in Image, m.bitmap # {}
  PROVE  LET n == alloc_block(m)
             b == FirstFree(m)
         IN  /\ b \in m.bitmap /\ b \in Block
             /\ n \in Image /\ n.bitmap = m.bitmap \ {b} /\ n.file = m.file
             /\ \A c \in Block : n.page[c] = IF c = b /\ m.page[c] = NULL THEN Zero
                                             ELSE m.page[c]
<1> DEFINE n == alloc_block(m)
           b == FirstFree(m)
<1>1. b \in m.bitmap /\ b \in Block
  BY Parts, FirstFreeIsFree
<1>2. /\ n.bitmap = m.bitmap \ {b} /\ n.file = m.file
      /\ n.page = [c \in Block |-> IF c = b /\ m.page[c] = NULL THEN Zero ELSE m.page[c]]
      /\ n = [bitmap |-> n.bitmap, file |-> n.file, page |-> n.page]
  <2> DEFINE new == m.bitmap \ {b}
             pg == [c \in Block |-> IF c = b /\ m.page[c] = NULL THEN Zero ELSE m.page[c]]
  <2>1. n = [m EXCEPT !.bitmap = new, !.page = pg]
    BY DEF alloc_block
  <2> HIDE DEF new, pg, n, b
  <2>2. n.bitmap = new /\ n.file = m.file /\ n.page = pg
    BY <2>1 DEF Image
  <2>3. n = [bitmap |-> n.bitmap, file |-> n.file, page |-> n.page]
    BY <2>1 DEF Image
  <2> QED BY <2>2, <2>3 DEF new, pg
<1>3. \A c \in Block : n.page[c] = IF c = b /\ m.page[c] = NULL THEN Zero ELSE m.page[c]
  <2> HIDE DEF n, b
  <2> QED BY <1>1, <1>2, Parts
<1>4. n.page \in [Block -> [Word -> Nat] \cup {NULL}]
  <2> HIDE DEF n, b
  <2> QED BY <1>1, <1>2, Parts, Numbers
<1>5. n \in Image
  <2> HIDE DEF n, b
  <2> QED BY <1>1, <1>2, <1>4, Parts DEF Image
<1> QED BY <1>1, <1>2, <1>3, <1>5

\* The cache n is m after blocks were allocated: what had a pointer keeps it.
Grows(m, n, d) ==
  /\ n \in Image /\ Sound(n, d, Places) /\ n.bitmap \subseteq m.bitmap
  /\ \A p \in Places : Held(m, d, p) \in {0, Held(n, d, p)}

\* A pointer that is not 0 leads to a block that is in use.
LEMMA HeldInUse ==
  ASSUME NEW m, NEW d, Sound(m, d, Places), NEW p \in Places, Held(m, d, p) # 0
  PROVE  /\ Held(m, d, p) \in Block /\ Held(m, d, p) \notin m.bitmap
         /\ \A q \in Places : Held(m, d, q) = Held(m, d, p) => q = p
BY DEF Sound

\* The table of a file is in use, and of no other file.
LEMMA TableInUse ==
  ASSUME NEW m, NEW d, Sound(m, d, Places), NEW f \in File, m.file[f].f_indirect # 0
  PROVE  /\ m.file[f].f_indirect \in Block /\ m.file[f].f_indirect \notin m.bitmap
         /\ \A g \in File : m.file[g].f_indirect = m.file[f].f_indirect => g = f
<1>2. \A g \in File : /\ <<g, NINDIRECT>> \in Places
                      /\ Held(m, d, <<g, NINDIRECT>>) = m.file[g].f_indirect
  <2>1. NINDIRECT \in 0..NINDIRECT
    BY FsAssumption
  <2>2. \A g \in File : <<g, NINDIRECT>> \in Places
    BY <2>1 DEF Places
  <2> QED BY <2>2, HeldTable, Zenon
<1>3. \A g \in File : <<g, NINDIRECT>> = <<f, NINDIRECT>> => g = f
  OBVIOUS
<1> QED BY <1>2, <1>3, HeldInUse

\* alloc_block changes no pointer.
LEMMA AllocHolds ==
  ASSUME NEW m \in Image, NEW d, Sound(m, d, Places), m.bitmap # {}, NEW p \in Places
  PROVE  Held(alloc_block(m), d, p) = Held(m, d, p)
<1> DEFINE n == alloc_block(m)
           t == m.file[p[1]].f_indirect
<1>1. /\ FirstFree(m) \in m.bitmap /\ n.file = m.file
      /\ \A c \in Block : n.page[c] = IF c = FirstFree(m) /\ m.page[c] = NULL THEN Zero
                                      ELSE m.page[c]
  BY Allocs, Zenon
<1>2. t \in Block => t \notin m.bitmap
  BY TableInUse, PlaceIs, Numbers
<1>3. t \in Block => n.page[t] = m.page[t]
  BY <1>1, <1>2
<1> QED BY <1>1, <1>3, SamePointers, Zenon

\* file_block_walk makes a table of a block that was not in the cache.
LEMMA TableMade ==
  ASSUME NEW m \in Image, NEW d, Sound(m, d, Places), NEW f \in File,
         m.file[f].f_indirect = 0, m.bitmap # {}, m.page[FirstFree(m)] = NULL
  PROVE  LET n == [alloc_block(m) EXCEPT !.file[f].f_indirect = FirstFree(m)] IN
         /\ Grows(m, n, d)
         /\ n.file[f].f_indirect = FirstFree(m) /\ n.page[FirstFree(m)] # NULL
<1> DEFINE b == FirstFree(m)
           a == alloc_block(m)
           n == [a EXCEPT !.file[f].f_indirect = b]
           p0 == <<f, NINDIRECT>>
<1>1. /\ b \in m.bitmap /\ b \in Block
      /\ a \in Image /\ a.bitmap = m.bitmap \ {b} /\ a.file = m.file
      /\ a.page[b] = Zero
  BY Allocs
<1>2. \A p \in Places : Held(a, d, p) = Held(m, d, p)
  BY AllocHolds
<1> HIDE DEF a, b
<1>3. /\ n.bitmap = a.bitmap /\ n.page = a.page
      /\ n.file = [a.file EXCEPT ![f] = [a.file[f] EXCEPT !.f_indirect = b]]
      /\ n = [bitmap |-> n.bitmap, file |-> n.file, page |-> n.page]
  BY <1>1 DEF Image
<1>4. /\ n.file[f] = [a.file[f] EXCEPT !.f_indirect = b]
      /\ \A g \in File : g # f => n.file[g] = a.file[g]
  BY <1>1, <1>3, Parts
<1>5. /\ n.file[f].f_indirect = b /\ n.file[f].f_direct = m.file[f].f_direct
      /\ n.file[f] \in Inode
  <2>1. a.file[f] \in Inode /\ b \in Nat /\ a.file[f] = m.file[f]
    BY <1>1, Parts, Numbers
  <2> QED BY <1>4, <2>1 DEF Inode
<1>6. n \in Image
  <2> HIDE DEF n
  <2>1. n.file \in [File -> Inode]
    BY <1>1, <1>3, <1>4, <1>5, Parts
  <2> QED BY <1>1, <1>3, <2>1, Parts DEF Image
<1> HIDE DEF n
<1>7. ASSUME NEW p \in Places, p # p0 PROVE Held(n, d, p) = Held(m, d, p)
  <2>1. PICK g \in File, i \in 0..NINDIRECT : p = <<g, i>>
    BY PlaceIs
  <2>2. CASE g # f
    <3>1. n.file[p[1]] = a.file[p[1]] /\ n.page = a.page
      BY <1>3, <1>4, <2>1, <2>2
    <3>2. Held(n, d, p) = Held(a, d, p)
      BY <3>1, SamePointers, Zenon
    <3> QED BY <1>2, <3>2
  <2>3. CASE g = f /\ i < NDIRECT
    <3>1. Held(n, d, <<f, i>>) = n.file[f].f_direct[i] /\ Held(m, d, <<f, i>>) = m.file[f].f_direct[i]
      BY <2>3 DEF Held
    <3> QED BY <1>5, <2>1, <2>3, <3>1, Zenon
  <2>4. CASE g = f /\ i \in Word
    <3>1. Held(m, d, p) = 0
      <4>1. Held(m, d, <<f, i>>) = IF 0 \notin Block THEN 0
                                   ELSE IF m.page[0] = NULL THEN d.page[0][i] ELSE m.page[0][i]
        BY <2>4, HeldWord
      <4> QED BY <2>1, <2>4, <4>1, Numbers
    <3>2. Held(n, d, p) = IF n.page[b] = NULL THEN d.page[b][i] ELSE n.page[b][i]
      <4>1. Held(n, d, <<f, i>>) = IF b \notin Block THEN 0
                                   ELSE IF n.page[b] = NULL THEN d.page[b][i] ELSE n.page[b][i]
        BY <1>5, <2>4, HeldWord
      <4> QED BY <1>1, <2>1, <2>4, <4>1
    <3>3. n.page[b] = Zero /\ Zero # NULL /\ Zero[i] = 0
      BY <1>1, <1>3, <2>4, Numbers, NullAssumption DEF Zero
    <3> QED BY <3>1, <3>2, <3>3
  <2>5. i # NINDIRECT \/ g # f
    BY <1>7, <2>1
  <2>6. i < NDIRECT \/ i \in Word \/ i = NINDIRECT
    BY Numbers
  <2> QED BY <2>2, <2>3, <2>4, <2>5, <2>6
<1>8. p0 \in Places /\ Held(m, d, p0) = 0 /\ Held(n, d, p0) = b
  <2>1. NINDIRECT \in 0..NINDIRECT
    BY FsAssumption
  <2>2. p0 \in Places
    BY <2>1 DEF Places
  <2> QED BY <1>5, <2>2, HeldTable, Zenon
<1>9. Sound(n, d, Places)
  <2> HIDE DEF p0
  <2>1. n.bitmap = m.bitmap \ {b} /\ m.bitmap \subseteq Block
    BY <1>1, <1>3, Parts
  <2> QED BY <1>1, <1>7, <1>8, <2>1, SoundGrows, Zenon
<1>10. Zero # NULL
  BY Numbers, NullAssumption
<1> QED BY <1>1, <1>3, <1>5, <1>6, <1>7, <1>8, <1>9, <1>10 DEF Grows, b, n, a

\* The pointer that a walk finds is what its place holds, when the table is in the cache.
LEMMA PointerIsHeld ==
  ASSUME NEW m, NEW d, NEW f \in File, NEW bno \in 0..(NINDIRECT - 1), NEW t,
         m.file[f].f_indirect = t, t # 0 => t \in Block,
         InTable(bno) /\ t # 0 => m.page[t] # NULL
  PROVE  Pointer(m, f, bno) = Held(m, d, <<f, bno>>)
<1>1. bno \in 0..NINDIRECT /\ bno < NINDIRECT /\ bno \in Nat
  BY FsAssumption
<1>2. CASE bno < NDIRECT
  BY <1>1, <1>2, HeldDirect DEF Pointer
<1>3. CASE ~(bno < NDIRECT)
  <2>1. bno \in Word /\ InTable(bno)
    BY <1>1, <1>3, FsAssumption DEF Word, InTable
  <2>2. Held(m, d, <<f, bno>>) = IF t \notin Block THEN 0
                                 ELSE IF m.page[t] = NULL THEN d.page[t][bno] ELSE m.page[t][bno]
    BY <2>1, HeldWord
  <2>3. Pointer(m, f, bno) = IF t # 0 THEN m.page[t][bno] ELSE 0
    BY <1>1, <1>3 DEF Pointer
  <2> QED BY <2>1, <2>2, <2>3, Numbers
<1> QED BY <1>2, <1>3

\* file_map_block through a direct pointer keeps the cache sound.
LEMMA DirectMapped ==
  ASSUME NEW m \in Image, NEW d, Sound(m, d, Places), m.bitmap # {},
         NEW f \in File, NEW bno \in 0..NINDIRECT, bno < NDIRECT,
         m.file[f].f_direct[bno] = 0
  PROVE  LET n == [alloc_block(m) EXCEPT !.file[f].f_direct[bno] = FirstFree(m)] IN
         /\ Grows(m, n, d) /\ n.file[f].f_direct[bno] = FirstFree(m)
         /\ n.file[f].f_indirect = m.file[f].f_indirect
<1> DEFINE b == FirstFree(m)
           a == alloc_block(m)
           n == [a EXCEPT !.file[f].f_direct[bno] = b]
           p0 == <<f, bno>>
<1>1. /\ b \in m.bitmap /\ b \in Block
      /\ a \in Image /\ a.bitmap = m.bitmap \ {b} /\ a.file = m.file
  BY Allocs
<1>2. \A p \in Places : Held(a, d, p) = Held(m, d, p)
  BY AllocHolds
<1> HIDE DEF a, b
<1> DEFINE new == [a.file[f].f_direct EXCEPT ![bno] = b]
<1>3. /\ n.bitmap = a.bitmap /\ n.page = a.page
      /\ n.file = [a.file EXCEPT ![f] = [a.file[f] EXCEPT !.f_direct = new]]
      /\ n = [bitmap |-> n.bitmap, file |-> n.file, page |-> n.page]
  BY <1>1 DEF Image
<1>4. bno \in 0..(NDIRECT - 1) /\ new \in [0..(NDIRECT - 1) -> Nat]
  <2>1. a.file[f].f_direct \in [0..(NDIRECT - 1) -> Nat] /\ b \in Nat
    BY <1>1, Parts, Numbers
  <2> QED BY <2>1, Numbers
<1>5. /\ new[bno] = b
      /\ \A i \in 0..(NDIRECT - 1) : i # bno => new[i] = a.file[f].f_direct[i]
  BY <1>1, <1>4, Parts
<1> HIDE DEF new
<1>6. /\ n.file[f] = [a.file[f] EXCEPT !.f_direct = new]
      /\ \A g \in File : g # f => n.file[g] = a.file[g]
  BY <1>1, <1>3, Parts
<1>7. /\ n.file[f].f_indirect = m.file[f].f_indirect /\ n.file[f].f_direct = new
      /\ n.file[f] \in Inode
  <2>1. a.file[f] \in Inode /\ a.file[f] = m.file[f]
    BY <1>1, Parts
  <2> QED BY <1>4, <1>6, <2>1 DEF Inode
<1> HIDE DEF n
<1>8. n \in Image
  <2>1. n.file \in [File -> Inode]
    BY <1>1, <1>3, <1>6, <1>7, Parts
  <2> QED BY <1>1, <1>3, <2>1, Parts DEF Image
<1>9. ASSUME NEW p \in Places, p # p0 PROVE Held(n, d, p) = Held(m, d, p)
  <2>1. PICK g \in File, i \in 0..NINDIRECT : p = <<g, i>>
    BY PlaceIs
  <2>2. CASE g # f
    <3>1. n.file[p[1]] = a.file[p[1]] /\ n.page = a.page
      BY <1>3, <1>6, <2>1, <2>2
    <3>2. Held(n, d, p) = Held(a, d, p)
      BY <3>1, SamePointers, Zenon
    <3> QED BY <1>2, <3>2
  <2>3. CASE g = f /\ i < NDIRECT
    <3>1. Held(n, d, <<f, i>>) = n.file[f].f_direct[i] /\ Held(m, d, <<f, i>>) = m.file[f].f_direct[i]
      BY <2>3, HeldDirect
    <3>2. i # bno /\ i \in 0..(NDIRECT - 1)
      BY <1>9, <2>1, <2>3, Numbers
    <3> QED BY <1>1, <1>5, <1>7, <2>1, <2>3, <3>1, <3>2
  <2>4. CASE g = f /\ i \in Word
    <3> DEFINE t == m.file[f].f_indirect
    <3>1. Held(n, d, <<f, i>>) = IF t \notin Block THEN 0
                                 ELSE IF n.page[t] = NULL THEN d.page[t][i] ELSE n.page[t][i]
      BY <1>7, <2>4, HeldWord
    <3>2. Held(a, d, <<f, i>>) = IF t \notin Block THEN 0
                                 ELSE IF a.page[t] = NULL THEN d.page[t][i] ELSE a.page[t][i]
      BY <1>1, <2>4, HeldWord
    <3> QED BY <1>2, <1>3, <2>1, <2>4, <3>1, <3>2
  <2>5. CASE g = f /\ i = NINDIRECT
    <3>1. Held(n, d, <<f, i>>) = n.file[f].f_indirect /\ Held(m, d, <<f, i>>) = m.file[f].f_indirect
      BY <2>5, HeldTable
    <3> QED BY <1>7, <2>1, <2>5, <3>1
  <2>6. i < NDIRECT \/ i \in Word \/ i = NINDIRECT
    BY Numbers
  <2> QED BY <2>2, <2>3, <2>4, <2>5, <2>6
<1>10. p0 \in Places /\ Held(m, d, p0) = 0 /\ Held(n, d, p0) = b
  <2>1. Held(n, d, p0) = n.file[f].f_direct[bno] /\ Held(m, d, p0) = m.file[f].f_direct[bno]
    BY HeldDirect
  <2> QED BY <1>5, <1>7, <2>1 DEF Places
<1>11. Sound(n, d, Places)
  <2> HIDE DEF p0
  <2>1. n.bitmap = m.bitmap \ {b} /\ m.bitmap \subseteq Block
    BY <1>1, <1>3, Parts
  <2> QED BY <1>1, <1>9, <1>10, <2>1, SoundGrows, Zenon
<1> QED BY <1>1, <1>3, <1>5, <1>7, <1>8, <1>9, <1>10, <1>11 DEF Grows, b, n, a

\* From m to n, word bno of the table t of file f is changed.
WordSet(m, n, f, bno, t) ==
  /\ n.file = m.file /\ f \in File /\ bno \in Word /\ t \in Block
  /\ m.file[f].f_indirect = t /\ \A g \in File : m.file[g].f_indirect = t => g = f
  /\ m.page[t] # NULL /\ n.page[t] # NULL
  /\ \A i \in Word : i # bno => n.page[t][i] = m.page[t][i]
  /\ \A c \in Block : c # t => n.page[c] = m.page[c]

\* The other pointers stay.
WordHolds(m, n, d, f, bno, t) ==
  /\ Held(n, d, <<f, bno>>) = n.page[t][bno] /\ Held(m, d, <<f, bno>>) = m.page[t][bno]
  /\ \A p \in Places : p # <<f, bno>> => Held(n, d, p) = Held(m, d, p)

\* A new pointer in a table shows in its own place only.
LEMMA WordHeld ==
  ASSUME NEW m, NEW n, NEW d, NEW f, NEW bno, NEW t, WordSet(m, n, f, bno, t)
  PROVE  WordHolds(m, n, d, f, bno, t)
<1> USE DEF WordSet, WordHolds
<1>1. ~(bno < NDIRECT) /\ bno # NINDIRECT
  BY FsAssumption DEF Word
<1>2. Held(n, d, <<f, bno>>) = n.page[t][bno] /\ Held(m, d, <<f, bno>>) = m.page[t][bno]
  BY <1>1 DEF Held
<1>3. ASSUME NEW p \in Places, p # <<f, bno>> PROVE Held(n, d, p) = Held(m, d, p)
  <2>1. PICK g \in File, i \in 0..NINDIRECT : p = <<g, i>>
    BY PlaceIs
  <2>2. p[1] = g /\ p[2] = i
    BY <2>1
  <2>3. CASE g # f
    <3>1. m.file[g].f_indirect # t
      BY <2>3
    <3> QED BY <2>2, <3>1 DEF Held
  <2>4. CASE g = f
    <3>1. i # bno
      BY <1>3, <2>1, <2>4
    <3>2. ~(i < NDIRECT) /\ i # NINDIRECT => i \in Word
      BY Numbers
    <3> QED BY <2>2, <2>4, <3>1, <3>2 DEF Held
  <2> QED BY <2>3, <2>4
<1> QED BY <1>2, <1>3

\* A new pointer in a table that is in the cache.
LEMMA WordMapped ==
  ASSUME NEW m \in Image, NEW d, Sound(m, d, Places), m.bitmap # {},
         NEW f \in File, NEW bno \in Word, NEW t, m.file[f].f_indirect = t, t # 0,
         m.page[t] # NULL, m.page[t][bno] = 0
  PROVE  LET n == [alloc_block(m) EXCEPT !.page[alloc_block(m).file[f].f_indirect][bno] =
                                              FirstFree(m)] IN
         /\ Grows(m, n, d) /\ n.page[t] # NULL /\ n.page[t][bno] = FirstFree(m)
         /\ n.file[f].f_indirect = t
<1> DEFINE b == FirstFree(m)
           a == alloc_block(m)
           n == [a EXCEPT !.page[a.file[f].f_indirect][bno] = b]
           p0 == <<f, bno>>
<1>1. /\ b \in m.bitmap /\ b \in Block
      /\ a \in Image /\ a.bitmap = m.bitmap \ {b} /\ a.file = m.file
      /\ \A c \in Block : a.page[c] = IF c = b /\ m.page[c] = NULL THEN Zero ELSE m.page[c]
  BY Allocs
<1>2. \A p \in Places : Held(a, d, p) = Held(m, d, p)
  BY AllocHolds
<1>3. t \in Block /\ \A g \in File : m.file[g].f_indirect = t => g = f
  BY TableInUse
<1> HIDE DEF a, b
<1>4. a.page[t] = m.page[t] /\ a.page[t] \in [Word -> Nat] /\ a.file[f].f_indirect = t
  BY <1>1, <1>3, Parts
<1> DEFINE new == [a.page[t] EXCEPT ![bno] = b]
<1>5. /\ n.bitmap = a.bitmap /\ n.file = a.file
      /\ n.page = [a.page EXCEPT ![t] = new]
      /\ n = [bitmap |-> n.bitmap, file |-> n.file, page |-> n.page]
  BY <1>1, <1>4 DEF Image
<1>6. /\ new \in [Word -> Nat] /\ new # NULL /\ new[bno] = b
      /\ \A i \in Word : i # bno => new[i] = m.page[t][i]
  BY <1>1, <1>4, Numbers, NullAssumption
<1> HIDE DEF new, n
<1>7. n.page[t] = new /\ \A c \in Block : c # t => n.page[c] = a.page[c]
  BY <1>1, <1>3, <1>5, Parts
<1>8. n \in Image
  <2>1. n.page \in [Block -> [Word -> Nat] \cup {NULL}]
    BY <1>1, <1>3, <1>5, <1>6, Parts
  <2> QED BY <1>1, <1>5, <2>1, Parts DEF Image
<1>12. n.file[f].f_indirect = t
  BY <1>4, <1>5
<1>9. /\ Held(n, d, p0) = new[bno] /\ Held(a, d, p0) = m.page[t][bno]
      /\ \A p \in Places : p # p0 => Held(n, d, p) = Held(a, d, p)
  <2>1. n.file = a.file /\ \A g \in File : a.file[g].f_indirect = t => g = f
    BY <1>1, <1>3, <1>5
  <2>2. n.page[t] # NULL /\ \A i \in Word : i # bno => n.page[t][i] = a.page[t][i]
    BY <1>4, <1>6, <1>7
  <2>3. a.page[t] # NULL
    BY <1>4
  <2>4. f \in File /\ bno \in Word /\ t \in Block /\ a.file[f].f_indirect = t
    BY <1>3, <1>4
  <2>5. /\ Held(n, d, <<f, bno>>) = n.page[t][bno] /\ Held(a, d, <<f, bno>>) = a.page[t][bno]
        /\ \A p \in Places : p # <<f, bno>> => Held(n, d, p) = Held(a, d, p)
    <3>1. WordSet(a, n, f, bno, t)
      BY <1>7, <2>1, <2>2, <2>3, <2>4 DEF WordSet
    <3>2. WordHolds(a, n, d, f, bno, t)
      BY <3>1, WordHeld
    <3> QED BY <3>2 DEF WordHolds
  <2> QED BY <1>4, <1>7, <2>5
<1>10. p0 \in Places /\ Held(m, d, p0) = 0 /\ Held(n, d, p0) = b
  <2>1. p0 \in Places
    BY Numbers DEF Places
  <2> QED BY <1>2, <1>6, <1>9, <2>1
<1>11. Sound(n, d, Places)
  <2> HIDE DEF p0
  <2>1. n.bitmap = m.bitmap \ {b} /\ m.bitmap \subseteq Block
    BY <1>1, <1>5, Parts
  <2>2. \A p \in Places : p # p0 => Held(n, d, p) = Held(m, d, p)
    BY <1>2, <1>9
  <2> QED BY <1>1, <1>10, <2>1, <2>2, SoundGrows, Zenon
<1>13. Grows(m, n, d)
  BY <1>1, <1>2, <1>5, <1>8, <1>9, <1>10, <1>11 DEF Grows
<1>14. n.page[t] # NULL /\ n.page[t][bno] = b
  BY <1>6, <1>7
<1> QED BY <1>12, <1>13, <1>14 DEF b, n, a

\* The cache n differs from m by blocks that were read.
Reread(m, n, d) ==
  /\ n \in Image /\ n.bitmap = m.bitmap /\ n.file = m.file
  /\ \A p \in Places : Held(n, d, p) = Held(m, d, p)

\* Reading makes a sound cache no worse.
LEMMA RereadGrows ==
  ASSUME NEW m, NEW n, NEW d, Sound(m, d, Places), Reread(m, n, d)
  PROVE  Grows(m, n, d)
BY DEF Reread, Grows, Sound

\* Growing twice is growing.
LEMMA GrowsOn ==
  ASSUME NEW l, NEW m, NEW n, NEW d, Grows(l, m, d), Grows(m, n, d)
  PROVE  Grows(l, n, d)
BY DEF Grows

\* read_block brings a page in and changes nothing else.
LEMMA ReadRereads ==
  ASSUME NEW m \in Image, NEW b, disk \in Image
  PROVE  Reread(m, read_block(m, b), disk)
BY Reads DEF Reread

\* After a walk the table that it needs is in the cache.
TableThere(m, f, bno) ==
  InTable(bno) /\ m.file[f].f_indirect # 0 => m.page[m.file[f].f_indirect] # NULL

\* file_block_walk without alloc only reads, and leaves the table in the cache.
LEMMA Walks ==
  ASSUME NEW m \in Image, disk \in Image, PagesOnDisk, Sound(m, disk, Places),
         NEW f \in File, NEW bnos
  PROVE  LET n == Walk(m, f, bnos) IN
         /\ Reread(m, n, disk) /\ \A bno \in bnos : TableThere(n, f, bno)
<1> DEFINE n == Walk(m, f, bnos)
           t == m.file[f].f_indirect
<1>1. CASE t # 0 /\ \E bno \in bnos : InTable(bno)
  <2>1. n = read_block(m, t)
    BY <1>1 DEF Walk
  <2>2. t \in Block
    BY <1>1, TableInUse
  <2>3. Reread(m, n, disk)
    BY <2>1, ReadRereads
  <2>4. n.page[t] = IF m.page[t] = NULL THEN disk.page[t] ELSE m.page[t]
    BY <2>1, <2>2, Reads
  <2>5. disk.page[t] # NULL
    BY <2>2 DEF PagesOnDisk
  <2>6. n.file[f].f_indirect = t /\ n.page[t] # NULL
    BY <2>3, <2>4, <2>5 DEF Reread
  <2> QED BY <2>3, <2>6 DEF TableThere
<1>2. CASE t = 0 \/ ~\E bno \in bnos : InTable(bno)
  <2>1. n = m
    BY <1>2 DEF Walk
  <2>2. Reread(m, m, disk)
    BY DEF Reread
  <2>3. \A bno \in bnos : TableThere(m, f, bno)
    BY <1>2 DEF TableThere
  <2> QED BY <2>1, <2>2, <2>3
<1> QED BY <1>1, <1>2

\* file_block_walk with alloc.
LEMMA WalkAllocs ==
  ASSUME NEW m \in Image, disk \in Image, PagesOnDisk, Sound(m, disk, Places),
         NEW f \in File, NEW bno \in 0..NINDIRECT,
         NeedsTable(m, f, bno) /\ m.bitmap # {} => m.page[FirstFree(m)] = NULL
  PROVE  LET n == file_block_walk(m, f, bno) IN
         Grows(m, n, disk) /\ TableThere(n, f, bno)
<1> DEFINE n == file_block_walk(m, f, bno)
<1>1. CASE NeedsTable(m, f, bno) /\ m.bitmap # {}
  <2> DEFINE k == [alloc_block(m) EXCEPT !.file[f].f_indirect = FirstFree(m)]
  <2>1. n = k
    BY <1>1 DEF file_block_walk
  <2>2. m.file[f].f_indirect = 0
    BY <1>1 DEF NeedsTable
  <2>3. /\ Grows(m, k, disk)
        /\ k.file[f].f_indirect = FirstFree(m) /\ k.page[FirstFree(m)] # NULL
    BY <1>1, <2>2, TableMade
  <2> QED BY <2>1, <2>3 DEF TableThere
<1>2. CASE ~(NeedsTable(m, f, bno) /\ m.bitmap # {})
  <2>1. n = Walk(m, f, {bno})
    BY <1>2 DEF file_block_walk
  <2>2. Reread(m, n, disk) /\ TableThere(n, f, bno)
    <3> HIDE DEF n
    <3>1. Reread(m, n, disk) /\ \A i \in {bno} : TableThere(n, f, i)
      BY <2>1, Walks
    <3> QED BY <3>1
  <2> QED BY <2>2, RereadGrows
<1> QED BY <1>1, <1>2

\* file_map_block with alloc, after the walk.
LEMMA MapAllocs ==
  ASSUME NEW m \in Image, NEW d, Sound(m, d, Places),
         NEW f \in File, NEW bno \in 0..NINDIRECT, TableThere(m, f, bno)
  PROVE  LET n == file_map_block(m, f, bno) IN
         Grows(m, n, d) /\ TableThere(n, f, bno)
<1> DEFINE n == file_map_block(m, f, bno)
           t == m.file[f].f_indirect
<1>1. CASE NeedsBlock(m, f, bno) /\ m.bitmap # {} /\ bno < NDIRECT
  <2> DEFINE k == [alloc_block(m) EXCEPT !.file[f].f_direct[bno] = FirstFree(m)]
  <2>1. n = k
    BY <1>1 DEF file_map_block, SetPointer
  <2>2. m.file[f].f_direct[bno] = 0
    BY <1>1 DEF NeedsBlock, Pointer
  <2>3. Grows(m, k, d)
    BY <1>1, <2>2, DirectMapped
  <2>4. ~InTable(bno)
    BY <1>1, FsAssumption DEF InTable
  <2> HIDE DEF k
  <2> QED BY <2>1, <2>3, <2>4 DEF TableThere
<1>2. CASE NeedsBlock(m, f, bno) /\ m.bitmap # {} /\ ~(bno < NDIRECT)
  <2> DEFINE k == [alloc_block(m) EXCEPT !.page[alloc_block(m).file[f].f_indirect][bno] = FirstFree(m)]
  <2>1. n = k
    BY <1>2 DEF file_map_block, SetPointer
  <2>2. InTable(bno) /\ t # 0 /\ bno \in Word
    BY <1>2, FsAssumption DEF NeedsBlock, InTable, Word
  <2>3. m.page[t] # NULL /\ m.page[t][bno] = 0
    BY <1>2, <2>2 DEF TableThere, NeedsBlock, Pointer, InTable
  <2>4. Grows(m, k, d) /\ k.page[t] # NULL /\ k.file[f].f_indirect = t
    BY <1>2, <2>2, <2>3, WordMapped
  <2>5. TableThere(k, f, bno)
    <3> HIDE DEF k
    <3> QED BY <2>4 DEF TableThere
  <2> HIDE DEF k
  <2> QED BY <2>1, <2>4, <2>5
<1>3. CASE ~(NeedsBlock(m, f, bno) /\ m.bitmap # {})
  <2>1. n = m
    BY <1>3 DEF file_map_block
  <2>2. Grows(m, m, d)
    BY DEF Grows
  <2> QED BY <2>1, <2>2
<1> QED BY <1>1, <1>2, <1>3

\* A file has at least one block.
LEMMA Counts ==
  ASSUME NEW size \in Nat
  PROVE  NBlocks(size) \in Nat /\ NBlocks(size) >= 1 /\ NewBlocks(size) \in Nat
<1>1. size \div BY2BLK \in Nat
  BY FsAssumption
<1> QED BY <1>1 DEF NBlocks, NewBlocks

\* What file_truncate leaves, field by field.
LEMMA TruncateIs ==
  ASSUME NEW m0 \in Image, disk \in Image, PagesOnDisk, Sound(m0, disk, Places),
         NEW f \in File, NEW newsize \in Nat
  PROVE  LET n      == file_truncate(m0, f, newsize)
             cut    == Cut(m0, f, newsize)
             m      == Walk(m0, f, cut)
             table  == m0.file[f].f_indirect
             direct == NewBlocks(newsize) <= NDIRECT
             held   == {Pointer(m, f, bno) : bno \in cut} \cup (IF direct THEN {table} ELSE {})
         IN  /\ n \in Image /\ n.bitmap = m.bitmap \cup Freed(held)
             /\ \A g \in File : g # f => n.file[g] = m.file[g]
             /\ n.file[f].f_direct = Cleared(m.file[f].f_direct, cut)
             /\ n.file[f].f_indirect = IF direct THEN 0 ELSE table
             /\ \A b \in Block : n.page[b] = IF b = table /\ m.page[b] # NULL
                                             THEN Cleared(m.page[b], cut) ELSE m.page[b]
<1> DEFINE n      == file_truncate(m0, f, newsize)
           cut    == Cut(m0, f, newsize)
           m      == Walk(m0, f, cut)
           table  == m0.file[f].f_indirect
           direct == NewBlocks(newsize) <= NDIRECT
           held   == {Pointer(m, f, bno) : bno \in cut} \cup (IF direct THEN {table} ELSE {})
           bm     == m.bitmap \cup Freed(held)
           dr     == Cleared(m.file[f].f_direct, cut)
           ind    == IF direct THEN 0 ELSE m.file[f].f_indirect
           pg     == [b \in Block |-> IF b = table /\ m.page[b] # NULL
                                      THEN Cleared(m.page[b], cut) ELSE m.page[b]]
<1>1. n = [m EXCEPT !.bitmap = bm, !.file[f].f_size = newsize, !.file[f].f_direct = dr,
                    !.file[f].f_indirect = ind, !.page = pg]
  BY DEF file_truncate
<1>2. m \in Image /\ m.file = m0.file
  BY Walks DEF Reread
<1>3. bm \subseteq Block /\ dr \in [0..(NDIRECT - 1) -> Nat] /\ ind \in Nat
  <2> HIDE DEF m, cut
  <2>1. m.bitmap \subseteq Block /\ m.file[f].f_direct \in [0..(NDIRECT - 1) -> Nat]
        /\ m.file[f].f_indirect \in Nat
    BY <1>2, Parts
  <2> HIDE DEF held
  <2> QED BY <2>1 DEF Freed, Cleared
<1>4. pg \in [Block -> [Word -> Nat] \cup {NULL}]
  <2> HIDE DEF m, cut, table
  <2>1. \A b \in Block : m.page[b] \in [Word -> Nat] \cup {NULL}
    BY <1>2, Parts
  <2>2. \A b \in Block : m.page[b] # NULL => Cleared(m.page[b], cut) \in [Word -> Nat]
    BY <2>1 DEF Cleared
  <2> QED BY <2>1, <2>2
<1> HIDE DEF n, cut, m, held, bm, dr, ind, pg
<1> DEFINE new == [m.file[f] EXCEPT !.f_size = newsize, !.f_direct = dr, !.f_indirect = ind]
<1>5. /\ n.bitmap = bm /\ n.page = pg
      /\ n.file = [m.file EXCEPT ![f] = new]
      /\ n = [bitmap |-> n.bitmap, file |-> n.file, page |-> n.page]
  BY <1>1, <1>2 DEF Image, Inode
<1>6. new \in Inode /\ new.f_direct = dr /\ new.f_indirect = ind
  <2>1. m.file[f] \in Inode
    BY <1>2, Parts
  <2> QED BY <1>3, <2>1 DEF Inode
<1> HIDE DEF new
<1>7. n.file[f] = new /\ (\A g \in File : g # f => n.file[g] = m.file[g])
      /\ n.file \in [File -> Inode]
  BY <1>2, <1>5, <1>6, Parts
<1>8. n \in Image
  BY <1>3, <1>4, <1>5, <1>7 DEF Image
<1>9. \A b \in Block : n.page[b] = IF b = table /\ m.page[b] # NULL
                                   THEN Cleared(m.page[b], cut) ELSE m.page[b]
  BY <1>5 DEF pg
<1>10. n.file[f].f_indirect = IF direct THEN 0 ELSE table
  BY <1>2, <1>6, <1>7 DEF ind
<1>11. n.bitmap = m.bitmap \cup Freed(held)
  BY <1>5 DEF bm
<1>12. n.file[f].f_direct = Cleared(m.file[f].f_direct, cut)
  BY <1>6, <1>7 DEF dr
<1> USE DEF n, cut, m, held
<1> QED BY <1>7, <1>8, <1>9, <1>10, <1>11, <1>12, Zenon

\* The cache n is m after pointers of f were cleared and their blocks freed.
Shrinks(m, n, d, f) ==
  /\ n \in Image /\ Sound(n, d, Places) /\ m.bitmap \subseteq n.bitmap
  /\ \A p \in Places : p[1] # f => Held(n, d, p) = Held(m, d, p)

\* file_truncate frees just the blocks whose pointers it clears.
LEMMA Truncates ==
  ASSUME NEW m0 \in Image, disk \in Image, PagesOnDisk, Sound(m0, disk, Places),
         NEW f \in File, NEW newsize \in Nat
  PROVE  Shrinks(m0, file_truncate(m0, f, newsize), disk, f)
<1> DEFINE n      == file_truncate(m0, f, newsize)
           cut    == Cut(m0, f, newsize)
           m      == Walk(m0, f, cut)
           table  == m0.file[f].f_indirect
           direct == NewBlocks(newsize) <= NDIRECT
           held   == {Pointer(m, f, bno) : bno \in cut} \cup (IF direct THEN {table} ELSE {})
<1>1. /\ n \in Image /\ n.bitmap = m.bitmap \cup Freed(held)
      /\ \A g \in File : g # f => n.file[g] = m.file[g]
      /\ n.file[f].f_direct = Cleared(m.file[f].f_direct, cut)
      /\ n.file[f].f_indirect = IF direct THEN 0 ELSE table
      /\ \A b \in Block : n.page[b] = IF b = table /\ m.page[b] # NULL
                                      THEN Cleared(m.page[b], cut) ELSE m.page[b]
  BY TruncateIs, Zenon
<1>2. Reread(m0, m, disk) /\ \A bno \in cut : TableThere(m, f, bno)
  BY Walks, Zenon
<1>3. m \in Image /\ m.file = m0.file /\ m.bitmap = m0.bitmap /\ Sound(m, disk, Places)
  BY <1>2, RereadGrows DEF Reread, Grows
<1>4. \A bno \in cut : bno \in Nat
  <2>1. NewBlocks(newsize) \in Nat
    BY Counts
  <2>2. NBlocks(m0.file[f].f_size) \in Nat
    BY Counts, Parts
  <2> QED BY <2>1, <2>2 DEF Cut
<1> HIDE DEF n, cut, m, held, direct
<1>5. ASSUME NEW p \in Places, p[1] # f PROVE Held(n, disk, p) = Held(m, disk, p)
  <2> DEFINE t == m.file[p[1]].f_indirect
  <2>1. p[1] \in File
    BY PlaceIs
  <2>2. t \in Block => t # table
    BY <1>3, <1>5, <2>1, TableInUse, Numbers
  <2>3. /\ n.file[p[1]].f_direct = m.file[p[1]].f_direct
        /\ n.file[p[1]].f_indirect = m.file[p[1]].f_indirect
        /\ t \in Block => n.page[t] = m.page[t]
    BY <1>1, <1>5, <2>1, <2>2
  <2> QED BY <2>3, SamePointers, Zenon
<1>6. ASSUME NEW i \in 0..NINDIRECT, i < NDIRECT
      PROVE  Held(n, disk, <<f, i>>) = IF i \in cut THEN 0 ELSE Held(m, disk, <<f, i>>)
  <2>1. /\ Held(n, disk, <<f, i>>) = n.file[f].f_direct[i]
        /\ Held(m, disk, <<f, i>>) = m.file[f].f_direct[i]
    BY <1>6, HeldDirect
  <2>2. DOMAIN m.file[f].f_direct = 0..(NDIRECT - 1) /\ i \in 0..(NDIRECT - 1)
    BY <1>3, <1>6, Parts, Numbers
  <2> QED BY <1>1, <2>1, <2>2 DEF Cleared
<1>7. Held(n, disk, <<f, NINDIRECT>>) = IF direct THEN 0 ELSE Held(m, disk, <<f, NINDIRECT>>)
  <2>1. /\ Held(n, disk, <<f, NINDIRECT>>) = n.file[f].f_indirect
        /\ Held(m, disk, <<f, NINDIRECT>>) = m.file[f].f_indirect
    BY HeldTable
  <2> QED BY <1>1, <1>3, <2>1
<1>8. ASSUME NEW i \in Word
      PROVE  Held(n, disk, <<f, i>>) = IF direct \/ i \in cut THEN 0 ELSE Held(m, disk, <<f, i>>)
  <2> DEFINE t == n.file[f].f_indirect
  <2>1. /\ Held(n, disk, <<f, i>>) = IF t \notin Block THEN 0
                                 ELSE IF n.page[t] = NULL THEN disk.page[t][i] ELSE n.page[t][i]
        /\ Held(m, disk, <<f, i>>) = IF table \notin Block THEN 0
                                 ELSE IF m.page[table] = NULL THEN disk.page[table][i]
                                 ELSE m.page[table][i]
    BY <1>3, HeldWord
  <2>2. CASE direct
    BY <1>1, <2>1, <2>2, Numbers
  <2>3. CASE ~direct /\ table \notin Block
    BY <1>1, <2>1, <2>3
  <2>4. CASE ~direct /\ table \in Block /\ m.page[table] = NULL
    <3>1. InTable(i)
      BY FsAssumption DEF Word, InTable
    <3>2. i \notin cut
      BY <1>2, <1>3, <2>4, <3>1, Numbers DEF TableThere
    <3> QED BY <1>1, <2>1, <2>4, <3>2
  <2>5. CASE ~direct /\ table \in Block /\ m.page[table] # NULL
    <3>1. m.page[table] \in [Word -> Nat]
      BY <1>3, <2>5, Parts
    <3>2. Cleared(m.page[table], cut)[i] = (IF i \in cut THEN 0 ELSE m.page[table][i])
          /\ Cleared(m.page[table], cut) # NULL
      <4>1. Cleared(m.page[table], cut) \in [Word -> Nat]
        BY <3>1 DEF Cleared
      <4> QED BY <3>1, <4>1, NullAssumption DEF Cleared
    <3> QED BY <1>1, <2>1, <2>5, <3>2
  <2> QED BY <2>2, <2>3, <2>4, <2>5
<1>9. \A p \in Places : Held(n, disk, p) \in {0, Held(m, disk, p)}
  <2> TAKE p \in Places
  <2>1. PICK g \in File, i \in 0..NINDIRECT : p = <<g, i>>
    BY PlaceIs
  <2>2. CASE g # f
    BY <1>5, <2>1, <2>2
  <2>3. CASE g = f
    <3>1. i < NDIRECT \/ i \in Word \/ i = NINDIRECT
      BY Numbers
    <3> QED BY <1>6, <1>7, <1>8, <2>1, <2>3, <3>1
  <2> QED BY <2>2, <2>3
<1>10. ASSUME NEW b \in Freed(held)
       PROVE  b \in Block /\ \E q \in Places : Held(m, disk, q) = b /\ Held(n, disk, q) = 0
  <2>1. b \in Block /\ b \in held /\ b # 0
    BY <1>10, Numbers DEF Freed
  <2>2. CASE direct /\ b = table
    <3>1. <<f, NINDIRECT>> \in Places
      BY FsAssumption DEF Places
    <3>2. Held(m, disk, <<f, NINDIRECT>>) = b
      BY <1>3, <2>2, HeldTable
    <3> QED BY <1>7, <2>1, <2>2, <3>1, <3>2
  <2>3. CASE \E bno \in cut : b = Pointer(m, f, bno)
    <3>1. PICK bno \in cut : b = Pointer(m, f, bno)
      BY <2>3
    <3>2. bno \in 0..(NINDIRECT - 1) /\ bno \in 0..NINDIRECT
      BY <1>4, <2>1, <3>1, FsAssumption DEF Pointer
    <3>3. Held(m, disk, <<f, bno>>) = b
      <4>1. table # 0 => table \in Block
        BY TableInUse
      <4>2. m.file[f].f_indirect = table /\ (InTable(bno) /\ table # 0 => m.page[table] # NULL)
        BY <1>2, <1>3 DEF TableThere
      <4> QED BY <3>1, <3>2, <4>1, <4>2, PointerIsHeld
    <3>4. bno < NDIRECT \/ bno \in Word
      BY <3>2, FsAssumption DEF Word
    <3>5. Held(n, disk, <<f, bno>>) = 0
      BY <1>6, <1>8, <3>2, <3>4
    <3>6. <<f, bno>> \in Places
      BY <3>2 DEF Places
    <3> QED BY <2>1, <3>3, <3>5, <3>6
  <2> QED BY <2>1, <2>2, <2>3 DEF held
<1>11. \A p \in Places : Held(n, disk, p) # 0 => Held(n, disk, p) \notin n.bitmap
  <2> SUFFICES ASSUME NEW p \in Places, Held(n, disk, p) # 0, Held(n, disk, p) \in n.bitmap
               PROVE  FALSE
    OBVIOUS
  <2>1. Held(n, disk, p) = Held(m, disk, p)
    BY <1>9
  <2>2. Held(m, disk, p) \notin m.bitmap /\ \A q \in Places : Held(m, disk, q) = Held(m, disk, p) => q = p
    BY <1>3, <2>1, HeldInUse
  <2>3. Held(n, disk, p) \in Freed(held)
    BY <1>1, <2>1, <2>2
  <2> QED BY <1>10, <2>1, <2>2, <2>3
<1>12. n.bitmap \cap DirBlocks = {}
  <2>1. \A b \in Freed(held) : b \notin DirBlocks
    BY <1>3, <1>10, Numbers DEF Sound
  <2>2. m.bitmap \cap DirBlocks = {}
    BY <1>3 DEF Sound
  <2> QED BY <1>1, <2>1, <2>2
<1>13. Sound(n, disk, Places)
  BY <1>3, <1>9, <1>11, <1>12, SoundShrinks, Zenon
<1>14. \A p \in Places : p[1] # f => Held(n, disk, p) = Held(m0, disk, p)
  BY <1>2, <1>5 DEF Reread
<1>15. Shrinks(m0, n, disk, f)
  BY <1>1, <1>3, <1>13, <1>14 DEF Shrinks
<1> QED BY <1>15 DEF n

\* The size and the name of a file are no pointers.
LEMMA SizeSet ==
  ASSUME NEW m \in Image, NEW d, NEW f \in File, NEW size \in Nat
  PROVE  LET n == [m EXCEPT !.file[f].f_size = size] IN
         n \in Image /\ n.bitmap = m.bitmap /\ \A p \in Places : Held(n, d, p) = Held(m, d, p)
<1> DEFINE n == [m EXCEPT !.file[f].f_size = size]
           new == [m.file[f] EXCEPT !.f_size = size]
<1>1. /\ n.bitmap = m.bitmap /\ n.page = m.page
      /\ n.file = [m.file EXCEPT ![f] = new]
      /\ n = [bitmap |-> n.bitmap, file |-> n.file, page |-> n.page]
  BY DEF Image
<1>2. /\ new \in Inode /\ new.f_direct = m.file[f].f_direct
      /\ new.f_indirect = m.file[f].f_indirect
  <2>1. m.file[f] \in Inode
    BY Parts
  <2> QED BY <2>1 DEF Inode
<1> HIDE DEF n, new
<1>3. /\ n.file \in [File -> Inode]
      /\ \A g \in File : /\ n.file[g].f_direct = m.file[g].f_direct
                         /\ n.file[g].f_indirect = m.file[g].f_indirect
  BY <1>1, <1>2, Parts
<1>4. n \in Image
  BY <1>1, <1>3, Parts DEF Image
<1>5. ASSUME NEW p \in Places PROVE Held(n, d, p) = Held(m, d, p)
  <2>1. /\ n.file[p[1]].f_direct = m.file[p[1]].f_direct
        /\ n.file[p[1]].f_indirect = m.file[p[1]].f_indirect
        /\ m.file[p[1]].f_indirect \in Block =>
             n.page[m.file[p[1]].f_indirect] = m.page[m.file[p[1]].f_indirect]
    BY <1>1, <1>3, PlaceIs
  <2> QED BY <2>1, SamePointers, Zenon
<1> QED BY <1>1, <1>4, <1>5 DEF n

\* Changing the name of a file changes no pointer either.
LEMMA NameSet ==
  ASSUME NEW m \in Image, NEW d, NEW f \in File, NEW name \in BOOLEAN
  PROVE  LET n == [m EXCEPT !.file[f].f_name = name] IN
         n \in Image /\ n.bitmap = m.bitmap /\ \A p \in Places : Held(n, d, p) = Held(m, d, p)
<1> DEFINE n == [m EXCEPT !.file[f].f_name = name]
           new == [m.file[f] EXCEPT !.f_name = name]
<1>1. /\ n.bitmap = m.bitmap /\ n.page = m.page
      /\ n.file = [m.file EXCEPT ![f] = new]
      /\ n = [bitmap |-> n.bitmap, file |-> n.file, page |-> n.page]
  BY DEF Image
<1>2. /\ new \in Inode /\ new.f_direct = m.file[f].f_direct
      /\ new.f_indirect = m.file[f].f_indirect
  <2>1. m.file[f] \in Inode
    BY Parts
  <2> QED BY <2>1 DEF Inode
<1> HIDE DEF n, new
<1>3. /\ n.file \in [File -> Inode]
      /\ \A g \in File : /\ n.file[g].f_direct = m.file[g].f_direct
                         /\ n.file[g].f_indirect = m.file[g].f_indirect
  BY <1>1, <1>2, Parts
<1>4. n \in Image
  BY <1>1, <1>3, Parts DEF Image
<1>5. ASSUME NEW p \in Places PROVE Held(n, d, p) = Held(m, d, p)
  <2>1. /\ n.file[p[1]].f_direct = m.file[p[1]].f_direct
        /\ n.file[p[1]].f_indirect = m.file[p[1]].f_indirect
        /\ m.file[p[1]].f_indirect \in Block =>
             n.page[m.file[p[1]].f_indirect] = m.page[m.file[p[1]].f_indirect]
    BY <1>1, <1>3, PlaceIs
  <2> QED BY <2>1, SamePointers, Zenon
<1> QED BY <1>1, <1>4, <1>5 DEF n

\* Relabelling a file keeps a cache shrunk.
LEMMA ShrinksOn ==
  ASSUME NEW l, NEW m, NEW n \in Image, NEW d, NEW f, Shrinks(l, m, d, f),
         n.bitmap = m.bitmap, \A p \in Places : Held(n, d, p) = Held(m, d, p)
  PROVE  Shrinks(l, n, d, f)
<1>1. Sound(n, d, Places)
  BY DEF Shrinks, Sound
<1> QED BY <1>1 DEF Shrinks

\* Reading is a way to shrink.
LEMMA RereadShrinks ==
  ASSUME NEW m, NEW n, NEW d, NEW f, Sound(m, d, Places), Reread(m, n, d)
  PROVE  Shrinks(m, n, d, f)
<1>1. Grows(m, n, d)
  BY RereadGrows
<1> QED BY <1>1 DEF Reread, Grows, Shrinks

\* read_block does not panic on the table of a file.
LEMMA TablesReadable ==
  ASSUME NEW m, NEW d, Sound(m, d, Places), NEW f \in File, NEW bnos
  PROVE  \A b \in Tables(m, f, bnos) : b < NBLOCKS /\ b \notin m.bitmap
<1>1. m.file[f].f_indirect # 0 =>
        m.file[f].f_indirect \in Block /\ m.file[f].f_indirect \notin m.bitmap
  BY TableInUse
<1>2. \A b \in Block : b < NBLOCKS
  BY FsAssumption DEF Block
<1> QED BY <1>1, <1>2 DEF Tables
-----------------------------------------------------------------------------
(* Requests.                                                               *)

\* With no write to come, the directories on the disk have pointers of the cache only.
LEMMA AllFresh ==
  ASSUME FsInv, writes = <<>>, NEW p \in DirPlaces
  PROVE  Held(disk, disk, p) \in {0, Held(mem, disk, p)}
<1>1. p \in Places /\ p[1] \in File
  BY PlaceIs DEF DirPlaces
<1>2. Fresh(p[1])
  BY <1>1 DEF FsInv, LateWritten, DirLast
<1> QED BY <1>2 DEF Fresh

\* A set of blocks that are free in the cache can be written as the bitmap.
LEMMA FreeFits ==
  ASSUME FsInv, writes = <<>>, NEW s, s \subseteq mem.bitmap
  PROVE  BitmapFits(s)
<1>1. Sound(mem, disk, Places) /\ mem \in Image
  BY DEF FsInv, NoCrossLink, FsTypeOK
<1>2. s \cap DirBlocks = {}
  BY <1>1 DEF Sound
<1>3. ASSUME NEW p \in DirPlaces PROVE Held(disk, disk, p) \notin s
  <2>1. p \in Places
    BY DEF DirPlaces
  <2>2. 0 \notin s
    BY <1>1, Parts, Numbers
  <2>3. Held(mem, disk, p) # 0 => Held(mem, disk, p) \notin mem.bitmap
    BY <1>1, <2>1, HeldInUse
  <2> QED BY <2>2, <2>3, AllFresh
<1> QED BY <1>2, <1>3 DEF BitmapFits

\* What a request leaves of the invariant: everything that is not about writes.
Served(m) ==
  /\ writes = <<>> /\ closing = NULL /\ mem' = m /\ disk' = disk
  /\ panicked' = panicked /\ boots' = boots
  /\ closing' \in File \cup {NULL} /\ orphans' \subseteq File /\ lent' \subseteq Block

\* The types and the pointers of the cache after a request.
LEMMA ServedSound ==
  ASSUME FsInv, NEW m \in Image, Sound(m, disk, Places), Served(m), writes' \in Seq(Write)
  PROVE  FsTypeOK' /\ PagesOnDisk' /\ NoCrossLink' /\ DiskSafe'
<1>1. FsTypeOK'
  BY DEF FsInv, FsTypeOK, Served
<1>2. PagesOnDisk'
  BY DEF FsInv, PagesOnDisk, Served
<1>3. NoCrossLink'
  BY DEF FsInv, NoCrossLink, Served
<1>4. DiskSafe'
  BY DEF FsInv, DiskSafe, Served
<1> QED BY <1>1, <1>2, <1>3, <1>4

\* A request that allocates, and then writes bitmaps.
LEMMA GrowKeeps ==
  ASSUME FsInv, NEW m, Served(m), Grows(mem, m, disk), closing' = NULL,
         writes' \in Seq(Write),
         \A i \in 1..Len(writes') : IsBitmapW(writes'[i]) /\ writes'[i][2] \subseteq mem.bitmap,
         writes' # <<>> => writes'[Len(writes')][2] \subseteq m.bitmap,
         writes' = <<>> => m.bitmap = mem.bitmap
  PROVE  FsInv'
<1>1. FsTypeOK' /\ PagesOnDisk' /\ NoCrossLink' /\ DiskSafe'
  BY ServedSound DEF Grows
<1>2. writes = <<>> /\ mem' = m /\ disk' = disk
  BY DEF Served
<1>3. Len(writes') \in Nat /\ (writes' # <<>> => Len(writes') >= 1)
  OBVIOUS
<1>4. BitmapsRight'
  <2>1. \A i \in 1..Len(writes') : BitmapFits(writes'[i][2])
    BY <1>2, FreeFits
  <2>2. (\A i \in 1..Len(writes) : IsBitmapW(writes[i]) => BitmapFits(writes[i][2]))'
    BY <1>2, <2>1 DEF BitmapFits
  <2>3. disk.bitmap \subseteq mem.bitmap
    BY <1>2 DEF FsInv, BitmapsRight
  <2>4. (writes = <<>> \/ ~IsBitmapW(writes[1]) => disk.bitmap \subseteq mem.bitmap)'
    BY <1>2, <1>3, <2>3
  <2>5. (\A i \in 1..Len(writes) :
          IsBitmapW(writes[i]) /\ (i = Len(writes) \/ ~IsBitmapW(writes[i + 1])) =>
            writes[i][2] \subseteq mem.bitmap)'
    <3> SUFFICES ASSUME NEW i \in 1..Len(writes'),
                        i = Len(writes') \/ ~IsBitmapW(writes'[i + 1])
                 PROVE  writes'[i][2] \subseteq m.bitmap
      BY <1>2
    <3>1. i = Len(writes') /\ writes' # <<>>
      BY <1>3
    <3> QED BY <3>1
  <2> QED BY <2>2, <2>4, <2>5 DEF BitmapsRight
<1>5. LateWritten'
  <2> SUFFICES ASSUME NEW f \in File, NEW p \in DirPlaces
               PROVE  Held(disk, disk, p) \in {0, Held(m, disk, p)}
    BY <1>2 DEF LateWritten, Fresh
  <2>1. p \in Places
    BY DEF DirPlaces
  <2> QED BY <1>2, <2>1, AllFresh DEF Grows
<1>6. CloseLate'
  BY DEF CloseLate
<1> QED BY <1>1, <1>4, <1>5, <1>6 DEF FsInv

\* A request that frees blocks of f, and then writes blocks and last the directory.
LEMMA ShrinkKeeps ==
  ASSUME FsInv, NEW m, NEW f \in File, Served(m), Shrinks(mem, m, disk, f),
         closing' \in {NULL, f}, writes' \in Seq(Write), DirLast(f)'
  PROVE  FsInv'
<1>1. FsTypeOK' /\ PagesOnDisk' /\ NoCrossLink' /\ DiskSafe'
  BY ServedSound DEF Shrinks
<1>2. writes = <<>> /\ mem' = m /\ disk' = disk
  BY DEF Served
<1>3. \A i \in 1..Len(writes') : ~IsBitmapW(writes'[i])
  <2>1. Len(writes') \in Nat
    OBVIOUS
  <2> TAKE i \in 1..Len(writes')
  <2>2. CASE i = Len(writes')
    BY <2>2 DEF DirLast, IsBitmapW, DirW
  <2>3. CASE i # Len(writes')
    <3>1. i \in 1..(Len(writes') - 1)
      BY <2>1, <2>3
    <3> QED BY <3>1 DEF DirLast, IsBitmapW
  <2> QED BY <2>2, <2>3
<1>4. BitmapsRight'
  <2>1. disk.bitmap \subseteq mem.bitmap
    BY <1>2 DEF FsInv, BitmapsRight
  <2>2. (disk.bitmap \subseteq mem.bitmap)'
    BY <1>2, <2>1 DEF Shrinks
  <2> QED BY <1>3, <2>2 DEF BitmapsRight
<1>5. LateWritten'
  <2> SUFFICES ASSUME NEW g \in File PROVE Fresh(g)' \/ DirLast(g)'
    BY DEF LateWritten
  <2>1. CASE g = f
    BY <2>1
  <2>2. CASE g # f
    <3>1. ASSUME NEW p \in DirPlaces, p[1] = g
          PROVE  Held(disk, disk, p) \in {0, Held(m, disk, p)}
      <4>1. p \in Places
        BY DEF DirPlaces
      <4> QED BY <1>2, <2>2, <3>1, <4>1, AllFresh DEF Shrinks
    <3> QED BY <1>2, <3>1 DEF Fresh
  <2> QED BY <2>1, <2>2
<1>6. CloseLate'
  BY DEF CloseLate
<1> QED BY <1>1, <1>4, <1>5, <1>6 DEF FsInv

\* A concatenation of two sequences of at most one write each.
LEMMA Concats ==
  ASSUME NEW v, NEW w
  PROVE  /\ <<>> \o <<>> = <<>> /\ <<>> \o <<w>> = <<w>> /\ <<v>> \o <<>> = <<v>>
         /\ <<v>> \o <<w>> = <<v, w>>
<1>2. <<>> \in Seq({v, w}) /\ <<v>> \in Seq({v, w}) /\ <<w>> \in Seq({v, w})
  OBVIOUS
<1>1. <<v>> \o <<w>> = <<v, w>>
  <2> DEFINE a == <<v>>
             b == <<w>>
             c == a \o b
             e == <<v, w>>
  <2>1. Len(a) = 1 /\ Len(b) = 1 /\ a[1] = v /\ b[1] = w
    OBVIOUS
  <2>2. e \in Seq({v, w}) /\ Len(e) = 2 /\ e[1] = v /\ e[2] = w
    OBVIOUS
  <2>3. /\ c \in Seq({v, w}) /\ Len(c) = Len(a) + Len(b)
        /\ \A i \in 1..(Len(a) + Len(b)) : c[i] = IF i <= Len(a) THEN a[i] ELSE b[i - Len(a)]
    BY <1>2, ConcatProperties
  <2> HIDE DEF a, b, c, e
  <2>4. Len(c) = 2 /\ c[1] = v /\ c[2] = w
    BY <2>1, <2>3
  <2>5. \A i \in 1..Len(c) : c[i] = e[i]
    BY <2>2, <2>4
  <2>6. c = e
    BY <2>2, <2>3, <2>4, <2>5, SeqEqual
  <2> QED BY <2>6 DEF a, b, c, e
<1>3. \A s \in Seq({v, w}) : s \o <<>> = s /\ <<>> \o s = s
  BY ConcatEmptySeq
<1> QED BY <1>1, <1>2, <1>3, Zenon

\* ws are the bitmaps from m0 to m2.
BitmapsOf(ws, m0, m2) ==
  /\ ws \in Seq(Write)
  /\ \A i \in 1..Len(ws) : IsBitmapW(ws[i]) /\ ws[i][2] \subseteq m0.bitmap
  /\ ws # <<>> => ws[Len(ws)][2] = m2.bitmap
  /\ ws = <<>> => m2.bitmap = m0.bitmap

\* The bitmaps that two allocations write.
LEMMA AllocWritesAre ==
  ASSUME NEW m0 \in Image, NEW m1 \in Image, NEW m2 \in Image,
         m1.bitmap \subseteq m0.bitmap, m2.bitmap \subseteq m1.bitmap,
         NEW ws, ws = AllocWrites(m0, m1) \o AllocWrites(m1, m2)
  PROVE  BitmapsOf(ws, m0, m2)
<1> USE DEF BitmapsOf
<1> DEFINE b1 == BitmapW(m1.bitmap)
           b2 == BitmapW(m2.bitmap)
<1>1. b1 \in Write /\ b2 \in Write
  BY Parts DEF BitmapW, Write
<1>2. /\ IsBitmapW(b1) /\ b1[2] = m1.bitmap
      /\ IsBitmapW(b2) /\ b2[2] = m2.bitmap
  BY DEF BitmapW, IsBitmapW
<1> HIDE DEF b1, b2
<1>3. ws = IF m0.bitmap = m1.bitmap
           THEN (IF m1.bitmap = m2.bitmap THEN <<>> ELSE <<b2>>)
           ELSE (IF m1.bitmap = m2.bitmap THEN <<b1>> ELSE <<b1, b2>>)
  <2>1. AllocWrites(m0, m1) = IF m0.bitmap = m1.bitmap THEN <<>> ELSE <<b1>>
    BY DEF AllocWrites, b1
  <2>2. AllocWrites(m1, m2) = IF m1.bitmap = m2.bitmap THEN <<>> ELSE <<b2>>
    BY DEF AllocWrites, b2
  <2>3. /\ <<>> \o <<>> = <<>> /\ <<>> \o <<b2>> = <<b2>> /\ <<b1>> \o <<>> = <<b1>>
        /\ <<b1>> \o <<b2>> = <<b1, b2>>
    BY Concats, Zenon
  <2>4. CASE m0.bitmap = m1.bitmap
    BY <2>1, <2>2, <2>3, <2>4
  <2>5. CASE m0.bitmap # m1.bitmap
    BY <2>1, <2>2, <2>3, <2>5
  <2> QED BY <2>4, <2>5
<1>4. CASE ws = <<>>
  BY <1>2, <1>3, <1>4
<1>5. CASE ws = <<b2>> /\ m0.bitmap = m1.bitmap
  BY <1>1, <1>2, <1>5
<1>6. CASE ws = <<b1>> /\ m1.bitmap = m2.bitmap
  BY <1>1, <1>2, <1>6
<1>7. CASE ws = <<b1, b2>>
  BY <1>1, <1>2, <1>7
<1>8. ws = <<>> => m0.bitmap = m1.bitmap /\ m1.bitmap = m2.bitmap
  BY <1>3
<1> QED BY <1>3, <1>4, <1>5, <1>6, <1>7, <1>8

\* file_get_block never panics and keeps the invariant.
LEMMA MapKeeps ==
  ASSUME FsInv, NEW f \in File, NEW bno \in 0..NINDIRECT, TableClean(f, bno), serve_map(f, bno)
  PROVE  FsInv'
<1> DEFINE m1 == file_block_walk(mem, f, bno)
           m2 == file_map_block(m1, f, bno)
           b  == Pointer(m2, f, bno)
           m3 == IF b \in Block THEN read_block(m2, b) ELSE m2
           bs == Tables(m1, f, {bno}) \cup ({b} \ {0})
           ws == AllocWrites(mem, m1) \o AllocWrites(m1, m2)
<1>1. /\ Serve(Unreadable(m2, bs), m3, ws)
      /\ lent' = (IF b = 0 \/ panicked' THEN lent ELSE lent \cup {b})
      /\ closing' = closing /\ orphans' = orphans
  BY DEF serve_map
<1>2. /\ mem \in Image /\ disk \in Image /\ PagesOnDisk /\ Sound(mem, disk, Places)
      /\ lent \subseteq Block /\ orphans \subseteq File /\ panicked = FALSE
      /\ closing \in File \cup {NULL}
  BY DEF FsInv, FsTypeOK, NoCrossLink
<1>3. Grows(mem, m1, disk) /\ TableThere(m1, f, bno)
  BY <1>2, WalkAllocs DEF TableClean
<1>4. Grows(m1, m2, disk) /\ TableThere(m2, f, bno)
  <2> HIDE DEF m1
  <2>1. m1 \in Image /\ Sound(m1, disk, Places)
    BY <1>3 DEF Grows
  <2> QED BY <1>3, <2>1, MapAllocs
<1> HIDE DEF m1, m2
<1>5. m1 \in Image /\ m2 \in Image /\ Sound(m1, disk, Places) /\ Sound(m2, disk, Places)
      /\ m1.bitmap \subseteq mem.bitmap /\ m2.bitmap \subseteq m1.bitmap
  BY <1>3, <1>4 DEF Grows
<1>6. b # 0 => b \in Block /\ b \notin m2.bitmap
  <2>1. CASE bno = NINDIRECT
    BY <2>1, FsAssumption DEF Pointer
  <2>2. CASE bno # NINDIRECT
    <3> DEFINE t == m2.file[f].f_indirect
    <3>1. bno \in 0..(NINDIRECT - 1) /\ <<f, bno>> \in Places
      BY <2>2, FsAssumption DEF Places
    <3>2. t # 0 => t \in Block
      BY <1>5, TableInUse
    <3>3. InTable(bno) /\ t # 0 => m2.page[t] # NULL
      BY <1>4 DEF TableThere
    <3>4. b = Held(m2, disk, <<f, bno>>)
      BY <3>1, <3>2, <3>3, PointerIsHeld
    <3> QED BY <1>5, <3>1, <3>4, HeldInUse
  <2> QED BY <2>1, <2>2
<1> HIDE DEF b
<1>7. ~Unreadable(m2, bs)
  <2>1. \A c \in Tables(m1, f, {bno}) : c < NBLOCKS /\ c \notin m1.bitmap
    BY <1>5, TablesReadable
  <2>2. NBLOCKS \in Int /\ \A c \in Block : c < NBLOCKS /\ ~(c >= NBLOCKS)
    BY FsAssumption DEF Block
  <2>3. \A c \in Tables(m1, f, {bno}) : c \in Block
    BY <1>5, TableInUse DEF Tables
  <2> QED BY <1>5, <1>6, <2>1, <2>2, <2>3 DEF Unreadable
<1>8. /\ writes = <<>> /\ closing = NULL /\ mem' = m3 /\ writes' = ws
      /\ panicked' = panicked /\ disk' = disk /\ boots' = boots
  BY <1>1, <1>7 DEF Serve
<1>9. Grows(m2, m3, disk) /\ m3.bitmap = m2.bitmap
  <2>1. Reread(m2, m3, disk)
    <3>1. CASE b \in Block
      BY <1>2, <1>5, <3>1, ReadRereads
    <3>2. CASE b \notin Block
      BY <1>5, <3>2 DEF Reread
    <3> QED BY <3>1, <3>2
  <2> QED BY <1>5, <2>1, RereadGrows DEF Reread
<1> HIDE DEF m3
<1>10. Grows(mem, m3, disk)
  BY <1>3, <1>4, <1>9, GrowsOn
<1>11. Served(m3) /\ closing' = NULL
  BY <1>1, <1>2, <1>6, <1>8 DEF Served
<1>12. BitmapsOf(ws, mem, m2)
  <2>1. ws = AllocWrites(mem, m1) \o AllocWrites(m1, m2)
    OBVIOUS
  <2> HIDE DEF ws
  <2> QED BY <1>2, <1>5, <2>1, AllocWritesAre, Zenon
<1> HIDE DEF ws
<1> QED BY <1>8, <1>9, <1>10, <1>11, <1>12, GrowKeeps DEF BitmapsOf

\* An alloc_block that finds no memory writes a smaller bitmap.
LEMMA FailWritesAre ==
  ASSUME NEW m0 \in Image, NEW m \in Image, m.bitmap \subseteq m0.bitmap, AllocFails(m),
         NEW ws, ws = AllocWrites(m0, m) \o FailWrites(m)
  PROVE  /\ ws \in Seq(Write) /\ ws # <<>>
         /\ \A i \in 1..Len(ws) : IsBitmapW(ws[i]) /\ ws[i][2] \subseteq m0.bitmap
         /\ ws[Len(ws)][2] \subseteq m.bitmap
<1> DEFINE n == [m EXCEPT !.bitmap = @ \ {FirstFree(m)}]
<1>1. FirstFree(m) \in m.bitmap /\ m.bitmap \subseteq Block
  BY Parts, FirstFreeIsFree DEF AllocFails
<1>2. /\ n \in Image /\ n.bitmap \subseteq m.bitmap /\ n.bitmap # m.bitmap
  BY <1>1 DEF Image
<1>3. ws = AllocWrites(m0, m) \o AllocWrites(m, n)
  BY DEF FailWrites
<1> HIDE DEF n
<1>4. BitmapsOf(ws, m0, n)
  BY <1>2, <1>3, AllocWritesAre
<1>5. n.bitmap # m0.bitmap
  BY <1>2
<1> QED BY <1>2, <1>4, <1>5 DEF BitmapsOf

\* file_get_block keeps the invariant when there is no memory.
LEMMA MapFailKeeps ==
  ASSUME FsInv, NEW f \in File, NEW bno \in 0..NINDIRECT, TableClean(f, bno),
         serve_map_no_mem(f, bno)
  PROVE  FsInv'
<1>1. /\ mem \in Image /\ disk \in Image /\ PagesOnDisk /\ Sound(mem, disk, Places)
      /\ lent \subseteq Block /\ orphans \subseteq File /\ panicked = FALSE
      /\ closing \in File \cup {NULL}
  BY DEF FsInv, FsTypeOK, NoCrossLink
<1>2. closing' = closing /\ orphans' = orphans /\ lent' = lent
  BY DEF serve_map_no_mem, clients
<1>3. ASSUME NEW m \in Image, Grows(mem, m, disk), AllocFails(m), NEW ws,
             ws = AllocWrites(mem, m) \o FailWrites(m), Serve(FALSE, m, ws)
      PROVE  FsInv'
  <2>1. m.bitmap \subseteq mem.bitmap
    BY <1>3 DEF Grows
  <2>2. /\ ws \in Seq(Write) /\ ws # <<>>
        /\ \A i \in 1..Len(ws) : IsBitmapW(ws[i]) /\ ws[i][2] \subseteq mem.bitmap
        /\ ws[Len(ws)][2] \subseteq m.bitmap
    BY <1>1, <1>3, <2>1, FailWritesAre
  <2>3. writes' = ws /\ Served(m) /\ closing' = NULL
    BY <1>1, <1>2, <1>3 DEF Serve, Served
  <2> QED BY <1>3, <2>2, <2>3, GrowKeeps
<1>4. CASE AllocFails(mem) /\ Serve(FALSE, mem, FailWrites(mem))
  <2> DEFINE w == FailWrites(mem)
  <2>1. Reread(mem, mem, disk)
    BY <1>1 DEF Reread
  <2>2. Grows(mem, mem, disk)
    BY <1>1, <2>1, RereadGrows
  <2>3. AllocWrites(mem, mem) = <<>>
    BY DEF AllocWrites
  <2>4. w \in Seq(Write)
    <3>1. \A t \in SUBSET Block : BitmapW(t) \in Write
      BY DEF BitmapW, Write
    <3>2. mem.bitmap \ {FirstFree(mem)} \in SUBSET Block
      BY <1>1, Parts
    <3>3. [mem EXCEPT !.bitmap = @ \ {FirstFree(mem)}].bitmap = mem.bitmap \ {FirstFree(mem)}
      BY <1>1 DEF Image
    <3> QED BY <3>1, <3>2, <3>3 DEF FailWrites, AllocWrites
  <2>5. w = <<>> \o w
    BY <2>4, ConcatEmptySeq
  <2>6. w = AllocWrites(mem, mem) \o w
    BY <2>3, <2>5
  <2> QED BY <1>1, <1>3, <1>4, <2>2, <2>6
<1>5. ASSUME NEW m, m = file_block_walk(mem, f, bno), AllocFails(m),
             Serve(Unreadable(m, Tables(m, f, {bno})), m, AllocWrites(mem, m) \o FailWrites(m))
      PROVE  FsInv'
  <2>1. Grows(mem, m, disk)
    BY <1>1, <1>5, WalkAllocs DEF TableClean
  <2>2. m \in Image /\ Sound(m, disk, Places)
    BY <2>1 DEF Grows
  <2>3. Unreadable(m, Tables(m, f, {bno})) = FALSE
    <3>1. \A c \in Tables(m, f, {bno}) : c < NBLOCKS /\ c \notin m.bitmap
      BY <2>2, TablesReadable
    <3>2. NBLOCKS \in Int /\ \A c \in Block : c < NBLOCKS /\ ~(c >= NBLOCKS)
      BY FsAssumption DEF Block
    <3>3. \A c \in Tables(m, f, {bno}) : c \in Block
      BY <2>2, TableInUse DEF Tables
    <3> QED BY <3>1, <3>2, <3>3 DEF Unreadable
  <2>4. Serve(FALSE, m, AllocWrites(mem, m) \o FailWrites(m))
    BY <1>5, <2>3 DEF Serve
  <2> QED BY <1>3, <1>5, <2>1, <2>2, <2>4
<1> QED BY <1>4, <1>5 DEF serve_map_no_mem

\* What the cache is before a request, in the words of the lemmas.
LEMMA Before ==
  ASSUME FsInv
  PROVE  /\ mem \in Image /\ disk \in Image /\ PagesOnDisk /\ Sound(mem, disk, Places)
         /\ lent \subseteq Block /\ orphans \subseteq File /\ panicked = FALSE
         /\ closing \in File \cup {NULL}
BY DEF FsInv, FsTypeOK, NoCrossLink

\* A request that only reads tables does not panic.
LEMMA NoPanic ==
  ASSUME FsInv, NEW f \in File, NEW bnos
  PROVE  ~Unreadable(mem, Tables(mem, f, bnos))
<1>1. Sound(mem, disk, Places)
  BY Before
<1>2. \A b \in Tables(mem, f, bnos) : b \in Block /\ b \notin mem.bitmap
  BY <1>1, TableInUse DEF Tables
<1>3. \A b \in Block : ~(b >= NBLOCKS)
  BY FsAssumption DEF Block
<1> QED BY <1>2, <1>3 DEF Unreadable

\* file_dirty keeps the invariant.
LEMMA DirtyKeeps ==
  ASSUME FsInv, NEW f \in File, NEW bno \in 0..NINDIRECT, serve_dirty(f, bno)
  PROVE  FsInv'
<1> DEFINE m == Walk(mem, f, {bno})
<1>1. /\ Serve(Unreadable(mem, Tables(mem, f, {bno})), m, <<>>)
      /\ closing' = closing /\ orphans' = orphans /\ lent' = lent
  BY DEF serve_dirty, clients
<1>2. /\ writes = <<>> /\ closing = NULL /\ mem' = m /\ writes' = <<>>
      /\ panicked' = panicked /\ disk' = disk /\ boots' = boots
  BY <1>1, NoPanic DEF Serve
<1>3. Reread(mem, m, disk)
  BY Before, Walks
<1> HIDE DEF m
<1>4. Grows(mem, m, disk) /\ m.bitmap = mem.bitmap
  BY <1>3, Before, RereadGrows DEF Reread
<1>5. Served(m) /\ closing' = NULL
  BY <1>1, <1>2, Before DEF Served
<1>6. /\ writes' \in Seq(Write) /\ writes' = <<>> /\ 1..Len(writes') = {}
  BY <1>2
<1> QED BY <1>4, <1>5, <1>6, GrowKeeps

\* The writes of file_close.
LEMMA CloseWrites ==
  ASSUME NEW m \in Image, NEW d, Sound(m, d, Places), NEW f \in File,
         \A bno \in Blocks(m, f) : TableThere(m, f, bno)
  PROVE  LET ws == file_close(m, f) IN
         /\ ws \in Seq(Write) /\ ws # <<>> /\ ws[Len(ws)] = DirW(DirOf[f])
         /\ \A i \in 1..(Len(ws) - 1) : ws[i][1] = "block"
<1> DEFINE k == NBlocks(m.file[f].f_size)
           fl == file_flush(m, f)
           w == DirW(DirOf[f])
           ws == file_close(m, f)
<1>1. k \in Nat
  BY Counts, Parts
<1>2. ASSUME NEW i \in 1..k PROVE Pointer(m, f, i - 1) \in Nat
  <2> DEFINE t == m.file[f].f_indirect
  <2>1. i - 1 \in Blocks(m, f) /\ i - 1 \in Nat
    BY <1>1, <1>2 DEF Blocks
  <2>2. m.file[f].f_direct \in [0..(NDIRECT - 1) -> Nat]
    BY Parts
  <2>3. CASE i - 1 < NDIRECT
    <3>1. i - 1 \in 0..(NDIRECT - 1)
      BY <2>1, <2>3, FsAssumption
    <3> QED BY <2>2, <2>3, <3>1 DEF Pointer
  <2>4. CASE ~(i - 1 < NDIRECT) /\ i - 1 < NINDIRECT /\ t # 0
    <3>1. InTable(i - 1) /\ i - 1 \in Word
      BY <2>1, <2>4, FsAssumption DEF InTable, Word
    <3>2. t \in Block /\ m.page[t] # NULL
      BY <2>1, <2>4, <3>1, TableInUse DEF TableThere
    <3>3. m.page[t] \in [Word -> Nat]
      BY <3>2, Parts
    <3> QED BY <2>4, <3>1, <3>3 DEF Pointer
  <2>5. CASE ~(i - 1 < NDIRECT) /\ ~(i - 1 < NINDIRECT /\ t # 0)
    BY <2>5 DEF Pointer
  <2> QED BY <2>3, <2>4, <2>5
<1>3. fl = [i \in 1..k |-> BlockW(Pointer(m, f, i - 1))]
  BY DEF file_flush
<1>4. \A i \in 1..k : BlockW(Pointer(m, f, i - 1)) \in Write /\ BlockW(Pointer(m, f, i - 1))[1] = "block"
  BY <1>2 DEF BlockW, Write
<1> HIDE DEF k, fl
<1>5. fl \in Seq(Write) /\ Len(fl) = k /\ \A i \in 1..k : fl[i][1] = "block"
  BY <1>1, <1>3, <1>4
<1>6. w \in Write
  BY FsAssumption DEF DirW, Write
<1>7. ws = Append(fl, w)
  BY DEF file_close, fl
<1> HIDE DEF ws, w
<1>8. /\ ws \in Seq(Write) /\ ws # <<>> /\ Len(ws) = k + 1 /\ ws[k + 1] = w
      /\ \A i \in 1..k : ws[i] = fl[i]
  BY <1>5, <1>6, <1>7, AppendProperties
<1>9. ws[Len(ws)] = w /\ \A i \in 1..(Len(ws) - 1) : ws[i][1] = "block"
  BY <1>1, <1>5, <1>8
<1> QED BY <1>8, <1>9 DEF ws, w

\* file_set_size keeps the invariant: the directory is its only write.
LEMMA SetSizeKeeps ==
  ASSUME FsInv, NEW f \in File, NEW newsize \in Sizes, serve_set_size(f, newsize)
  PROVE  FsInv'
<1> DEFINE shrink == mem.file[f].f_size > newsize
           m0 == IF shrink THEN file_truncate(mem, f, newsize) ELSE mem
           m  == [m0 EXCEPT !.file[f].f_size = newsize]
           ws == <<DirW(DirOf[f])>>
<1>1. /\ Serve(shrink /\ Unreadable(mem, Tables(mem, f, Cut(mem, f, newsize))), m, ws)
      /\ closing' = closing /\ orphans' = orphans /\ lent' = lent
  BY DEF serve_set_size, clients
<1>2. /\ writes = <<>> /\ closing = NULL /\ mem' = m /\ writes' = ws
      /\ panicked' = panicked /\ disk' = disk /\ boots' = boots
  BY <1>1, NoPanic DEF Serve
<1>3. newsize \in Nat
  BY FsAssumption
<1>4. Shrinks(mem, m0, disk, f)
  <2>1. CASE shrink
    BY <1>3, <2>1, Before, Truncates
  <2>2. CASE ~shrink
    BY <2>2, Before DEF Shrinks
  <2> QED BY <2>1, <2>2
<1> HIDE DEF m0, shrink
<1>5. m \in Image /\ m.bitmap = m0.bitmap /\ \A p \in Places : Held(m, disk, p) = Held(m0, disk, p)
  <2>1. m0 \in Image
    BY <1>4 DEF Shrinks
  <2> QED BY <1>3, <2>1, SizeSet, Zenon
<1> HIDE DEF m
<1>6. Shrinks(mem, m, disk, f)
  BY <1>4, <1>5, ShrinksOn
<1>7. Served(m) /\ closing' = NULL
  BY <1>1, <1>2, Before DEF Served
<1>8. /\ ws \in Seq(Write) /\ ws # <<>> /\ ws[Len(ws)] = DirW(DirOf[f])
      /\ 1..(Len(ws) - 1) = {}
  <2>1. DirW(DirOf[f]) \in Write
    BY FsAssumption DEF DirW, Write
  <2> QED BY <2>1
<1>9. writes' \in Seq(Write) /\ DirLast(f)'
  BY <1>2, <1>8 DEF DirLast
<1> QED BY <1>6, <1>7, <1>9, ShrinkKeeps

\* file_close keeps the invariant.
LEMMA CloseKeeps ==
  ASSUME FsInv, NEW f \in File, serve_close(f)
  PROVE  FsInv'
<1> DEFINE m == Walk(mem, f, Blocks(mem, f))
           ws == file_close(m, f)
<1>1. /\ Serve(Unreadable(mem, Tables(mem, f, Blocks(mem, f))), m, ws)
      /\ closing' = (IF panicked' THEN NULL ELSE f) /\ orphans' = orphans /\ lent' = lent
  BY DEF serve_close, clients
<1>2. /\ writes = <<>> /\ closing = NULL /\ mem' = m /\ writes' = ws
      /\ panicked' = panicked /\ disk' = disk /\ boots' = boots
  BY <1>1, NoPanic DEF Serve
<1>3. Reread(mem, m, disk) /\ \A bno \in Blocks(mem, f) : TableThere(m, f, bno)
  BY Before, Walks
<1> HIDE DEF m
<1>4. Shrinks(mem, m, disk, f)
  BY <1>3, Before, RereadShrinks
<1>5. \A bno \in Blocks(m, f) : TableThere(m, f, bno)
  BY <1>3 DEF Blocks, Reread
<1>6. /\ ws \in Seq(Write) /\ ws # <<>> /\ ws[Len(ws)] = DirW(DirOf[f])
      /\ \A i \in 1..(Len(ws) - 1) : ws[i][1] = "block"
  BY <1>4, <1>5, CloseWrites DEF Shrinks
<1> HIDE DEF ws
<1>7. Served(m) /\ closing' = f
  BY <1>1, <1>2, Before DEF Served
<1>8. writes' \in Seq(Write) /\ DirLast(f)'
  BY <1>2, <1>6 DEF DirLast
<1> QED BY <1>4, <1>7, <1>8, ShrinkKeeps

\* file_remove keeps the invariant: the directory is its last write.
LEMMA RemoveKeeps ==
  ASSUME FsInv, NEW f \in File, serve_remove(f)
  PROVE  FsInv'
<1> DEFINE m0 == file_truncate(mem, f, 0)
           m  == [m0 EXCEPT !.file[f].f_name = FALSE]
           ws == file_close(m, f)
<1>1. /\ Serve(Unreadable(mem, Tables(mem, f, Cut(mem, f, 0))), m, ws)
      /\ closing' = closing /\ orphans' = orphans \cup {f} /\ lent' = lent
  BY DEF serve_remove
<1>2. /\ writes = <<>> /\ closing = NULL /\ mem' = m /\ writes' = ws
      /\ panicked' = panicked /\ disk' = disk /\ boots' = boots
  BY <1>1, NoPanic DEF Serve
<1>3. Shrinks(mem, m0, disk, f)
  BY Before, Truncates
<1>4. m0.file[f].f_indirect = 0
  <2>1. NewBlocks(0) <= NDIRECT
    BY FsAssumption DEF NewBlocks
  <2>2. m0.file[f].f_indirect = IF NewBlocks(0) <= NDIRECT THEN 0 ELSE mem.file[f].f_indirect
    BY Before, TruncateIs
  <2> QED BY <2>1, <2>2
<1> HIDE DEF m0
<1>5. m \in Image /\ m.bitmap = m0.bitmap /\ \A p \in Places : Held(m, disk, p) = Held(m0, disk, p)
  <2>1. m0 \in Image /\ FALSE \in BOOLEAN
    BY <1>3 DEF Shrinks
  <2> QED BY <2>1, NameSet, Zenon
<1>6. m.file[f].f_indirect = 0
  <2>1. m0.file \in [File -> Inode]
    BY <1>3, Parts DEF Shrinks
  <2>2. m.file[f] = [m0.file[f] EXCEPT !.f_name = FALSE]
    BY <1>3, <2>1 DEF Shrinks, Image
  <2> QED BY <1>4, <2>1, <2>2 DEF Inode
<1> HIDE DEF m
<1>7. Shrinks(mem, m, disk, f)
  BY <1>3, <1>5, ShrinksOn
<1>8. \A bno \in Blocks(m, f) : TableThere(m, f, bno)
  BY <1>6 DEF TableThere
<1>9. /\ ws \in Seq(Write) /\ ws # <<>> /\ ws[Len(ws)] = DirW(DirOf[f])
      /\ \A i \in 1..(Len(ws) - 1) : ws[i][1] = "block"
  BY <1>7, <1>8, CloseWrites DEF Shrinks
<1> HIDE DEF ws
<1>10. Served(m) /\ closing' = NULL
  BY <1>1, <1>2, Before DEF Served
<1>11. writes' \in Seq(Write) /\ DirLast(f)'
  BY <1>2, <1>9 DEF DirLast
<1> QED BY <1>7, <1>10, <1>11, ShrinkKeeps

\* The writes of fs_sync: the bitmap, and no other.
LEMMA SyncWrites ==
  ASSUME NEW s \in SUBSET Block
  PROVE  LET ws == <<BitmapW(s)>> \o [i \in 1..(NBLOCKS - FIRST) |-> BlockNoW(FIRST + i - 1)] IN
         /\ ws \in Seq(Write) /\ Len(ws) >= 1 /\ ws[1] = BitmapW(s)
         /\ \A i \in 2..Len(ws) : ~IsBitmapW(ws[i])
<1> DEFINE k == NBLOCKS - FIRST
           a == <<BitmapW(s)>>
           r == [i \in 1..k |-> BlockNoW(FIRST + i - 1)]
           ws == a \o r
<1>1. k \in Nat
  BY FsAssumption
<1>2. BitmapW(s) \in Write /\ a \in Seq(Write) /\ Len(a) = 1 /\ a[1] = BitmapW(s)
  <2>1. BitmapW(s) \in Write
    BY DEF BitmapW, Write
  <2> QED BY <2>1
<1>3. \A b \in Nat : BlockNoW(b) \in Write /\ ~IsBitmapW(BlockNoW(b))
  <2> TAKE b \in Nat
  <2>1. CASE b \in DirBlocks
    <3>1. (CHOOSE d \in Dir : DirBlock[d] = b) \in Dir
      BY <2>1 DEF DirBlocks
    <3> DEFINE e == CHOOSE d \in Dir : DirBlock[d] = b
    <3>2. BlockNoW(b) = <<"dir", e>>
      BY <2>1 DEF BlockNoW, DirW
    <3>3. e \in Dir
      BY <3>1
    <3> HIDE DEF e
    <3> QED BY <3>2, <3>3 DEF Write, IsBitmapW
  <2>2. CASE b \notin DirBlocks
    BY <2>2 DEF BlockNoW, BlockW, Write, IsBitmapW
  <2> QED BY <2>1, <2>2
<1>4. \A i \in 1..k : FIRST + i - 1 \in Nat
  BY <1>1, FsAssumption
<1>5. r \in Seq(Write) /\ Len(r) = k /\ \A i \in 1..k : ~IsBitmapW(r[i])
  <2> HIDE DEF k
  <2> QED BY <1>1, <1>3, <1>4
<1> HIDE DEF a, r, k
<1>6. /\ ws \in Seq(Write) /\ Len(ws) = Len(a) + Len(r)
      /\ \A i \in 1..(Len(a) + Len(r)) : ws[i] = IF i <= Len(a) THEN a[i] ELSE r[i - Len(a)]
  BY <1>2, <1>5, ConcatProperties
<1> HIDE DEF ws
<1>7. ws[1] = BitmapW(s) /\ Len(ws) = k + 1
  BY <1>1, <1>2, <1>5, <1>6
<1>8. \A i \in 2..Len(ws) : ~IsBitmapW(ws[i])
  <2> TAKE i \in 2..Len(ws)
  <2>1. i - 1 \in 1..k /\ i \in 1..(k + 1) /\ ~(i <= 1)
    BY <1>1, <1>7
  <2>2. ws[i] = r[i - 1]
    BY <1>2, <1>5, <1>6, <2>1
  <2> QED BY <1>5, <2>1, <2>2
<1>9. Len(ws) >= 1
  BY <1>1, <1>7
<1> QED BY <1>6, <1>7, <1>8, <1>9 DEF ws, a, r, k

\* fs_sync keeps the invariant: the bitmap is its first write, and that of the cache.
LEMMA SyncKeeps == ASSUME FsInv, serve_sync PROVE FsInv'
<1> DEFINE ws == <<BitmapW(mem.bitmap)>> \o [i \in 1..(NBLOCKS - FIRST) |-> BlockNoW(FIRST + i - 1)]
<1>1. /\ writes = <<>> /\ closing = NULL /\ mem' = mem /\ writes' = ws
      /\ panicked' = panicked /\ disk' = disk /\ boots' = boots
      /\ closing' = closing /\ orphans' = orphans /\ lent' = lent
  BY DEF serve_sync, Serve, clients
<1>2. /\ ws \in Seq(Write) /\ Len(ws) >= 1 /\ ws[1] = BitmapW(mem.bitmap)
      /\ \A i \in 2..Len(ws) : ~IsBitmapW(ws[i])
  BY Before, Parts, SyncWrites
<1> HIDE DEF ws
<1>3. FsTypeOK' /\ PagesOnDisk' /\ NoCrossLink' /\ DiskSafe'
  <2>1. Served(mem)
    BY <1>1, Before DEF Served
  <2> QED BY <1>1, <1>2, <2>1, Before, ServedSound
<1>4. BitmapFits(mem.bitmap) /\ IsBitmapW(ws[1]) /\ ws[1][2] = mem.bitmap
  BY <1>1, <1>2, FreeFits DEF BitmapW, IsBitmapW
<1>5. Len(ws) \in Nat /\ ws # <<>> /\ \A i \in 1..Len(ws) : IsBitmapW(ws[i]) <=> i = 1
  <2>1. Len(ws) \in Nat /\ ws # <<>>
    BY <1>2
  <2> QED BY <1>2, <1>4, <2>1
<1>6. BitmapsRight'
  <2>1. BitmapFits(mem.bitmap)'
    BY <1>1, <1>4 DEF BitmapFits
  <2>2. (\A i, j \in 1..Len(writes) : i < j /\ IsBitmapW(writes[j]) => IsBitmapW(writes[i]))'
    BY <1>1, <1>5
  <2>3. (\A i \in 1..Len(writes) : IsBitmapW(writes[i]) => writes[i][2] = mem.bitmap)'
    BY <1>1, <1>4, <1>5
  <2>4. (\A i \in 1..Len(writes) : IsBitmapW(writes[i]) => BitmapFits(writes[i][2]))'
    BY <1>1, <2>1, <2>3 DEF BitmapFits
  <2>5. ~(writes = <<>> \/ ~IsBitmapW(writes[1]))'
    BY <1>1, <1>4, <1>5
  <2> QED BY <2>2, <2>3, <2>4, <2>5 DEF BitmapsRight
<1>7. LateWritten'
  <2> SUFFICES ASSUME NEW f \in File, NEW p \in DirPlaces
               PROVE  Held(disk, disk, p) \in {0, Held(mem, disk, p)}
    BY <1>1 DEF LateWritten, Fresh
  <2> QED BY <1>1, AllFresh
<1>8. CloseLate'
  BY <1>1 DEF CloseLate
<1> QED BY <1>3, <1>6, <1>7, <1>8 DEF FsInv

\* The answer to a close keeps the invariant.
LEMMA ClosedKeeps == ASSUME FsInv, Closed PROVE FsInv'
<1>1. /\ mem' = mem /\ disk' = disk /\ writes' = writes /\ orphans' = orphans /\ lent' = lent
      /\ panicked' = panicked /\ boots' = boots /\ closing' = NULL
  BY DEF Closed, clients
<1>2. FsTypeOK'
  BY <1>1 DEF FsInv, FsTypeOK
<1>3. PagesOnDisk' /\ NoCrossLink' /\ DiskSafe'
  BY <1>1 DEF FsInv, PagesOnDisk, NoCrossLink, DiskSafe
<1>4. BitmapsRight'
  BY <1>1 DEF FsInv, BitmapsRight, BitmapFits
<1>5. LateWritten'
  BY <1>1 DEF FsInv, LateWritten, Fresh, DirLast
<1>6. CloseLate'
  BY <1>1 DEF CloseLate
<1> QED BY <1>2, <1>3, <1>4, <1>5, <1>6 DEF FsInv
-----------------------------------------------------------------------------
(* Block writes, restarts and the initial state.                           *)

\* What a directory holds depends on its files only.
LEMMA DirHeld ==
  ASSUME NEW m, NEW n, NEW d, NEW e, NEW p \in DirPlaces, n.file[p[1]] = m.file[p[1]]
  PROVE  Held(n, e, p) = Held(m, d, p)
<1>1. p[2] < NDIRECT \/ p[2] = NINDIRECT
  BY DEF DirPlaces
<1> QED BY <1>1 DEF Held

\* What the cache holds does not change with the disk, where it has the blocks.
LEMMA LowerHeld ==
  ASSUME NEW m, NEW d, NEW e, NEW p \in Places,
         \A b \in Block : m.page[b] = NULL => e.page[b] = d.page[b]
  PROVE  Held(m, e, p) = Held(m, d, p)
BY DEF Held

\* The first write has been done.
LEMMA Shifted ==
  ASSUME writes \in Seq(Write), writes # <<>>, writes' = Tail(writes)
  PROVE  /\ Len(writes) \in Nat \ {0} /\ writes[1] = Head(writes) /\ writes[1] \in Write
         /\ writes' \in Seq(Write) /\ Len(writes') = Len(writes) - 1
         /\ \A i \in 1..(Len(writes) - 1) : writes'[i] = writes[i + 1]
         /\ writes' = <<>> <=> Len(writes) = 1
<1>1. Len(writes) \in Nat \ {0} /\ writes[1] = Head(writes) /\ writes[1] \in Write
  OBVIOUS
<1>2. /\ writes' \in Seq(Write) /\ Len(writes') = Len(writes) - 1
      /\ \A i \in 1..(Len(writes) - 1) : writes'[i] = writes[i + 1]
  OBVIOUS
<1>3. writes' = <<>> <=> Len(writes') = 0
  BY <1>2, EmptySeq
<1> QED BY <1>1, <1>2, <1>3

\* If the directory of f is written last, the first write is a block, or it is the last.
LEMMA FirstOfLast ==
  ASSUME NEW f \in File, DirLast(f), writes \in Seq(Write)
  PROVE  \/ writes[1] = DirW(DirOf[f]) /\ Len(writes) = 1
         \/ writes[1][1] = "block" /\ Len(writes) > 1
<1>1. Len(writes) \in Nat \ {0}
  <2>1. writes # <<>>
    BY DEF DirLast
  <2> QED BY <2>1
<1>2. CASE Len(writes) = 1
  BY <1>2 DEF DirLast
<1>3. CASE Len(writes) # 1
  <2>1. 1 \in 1..(Len(writes) - 1)
    BY <1>1, <1>3
  <2> QED BY <1>1, <1>3, <2>1 DEF DirLast
<1> QED BY <1>2, <1>3

\* What write_block leaves alone.
LEMMA WriteBasics ==
  ASSUME FsInv, writes # <<>>, writes' = Tail(writes), mem' = mem, closing' = closing,
         orphans' = orphans, lent' = lent, panicked' = panicked, boots' = boots,
         disk' \in Image, \A b \in Block : disk'.page[b] # NULL,
         \A b \in Block : mem.page[b] = NULL => disk'.page[b] = disk.page[b]
  PROVE  /\ FsTypeOK' /\ PagesOnDisk' /\ NoCrossLink'
         /\ \A p \in Places : Held(mem, disk', p) = Held(mem, disk, p)
<1>1. \A p \in Places : Held(mem, disk', p) = Held(mem, disk, p)
  BY LowerHeld
<1>2. FsTypeOK'
  BY Shifted DEF FsInv, FsTypeOK
<1>3. PagesOnDisk'
  BY DEF PagesOnDisk
<1>4. Sound(mem, disk', Places)
  BY <1>1, Before DEF Sound
<1>5. NoCrossLink'
  BY <1>4 DEF FsInv, NoCrossLink
<1> QED BY <1>1, <1>2, <1>3, <1>5

\* A bitmap reaches the disk.
LEMMA BitmapWritten ==
  ASSUME FsInv, write_block, Head(writes)[1] = "bitmap"
  PROVE  FsInv'
<1> DEFINE s == Head(writes)[2]
<1>1. /\ writes # <<>> /\ writes' = Tail(writes) /\ mem' = mem /\ closing' = closing
      /\ orphans' = orphans /\ lent' = lent /\ panicked' = panicked /\ boots' = boots
      /\ disk' = [disk EXCEPT !.bitmap = s]
  BY DEF write_block, clients
<1>2. /\ Len(writes) \in Nat \ {0} /\ writes[1] = Head(writes) /\ writes[1] \in Write
      /\ writes' \in Seq(Write) /\ Len(writes') = Len(writes) - 1
      /\ \A i \in 1..(Len(writes) - 1) : writes'[i] = writes[i + 1]
      /\ writes' = <<>> <=> Len(writes) = 1
  BY <1>1, Shifted DEF FsInv, FsTypeOK
<1>3. s \subseteq Block /\ IsBitmapW(writes[1]) /\ s = writes[1][2]
  BY <1>2 DEF Write, IsBitmapW
<1>4. /\ disk' \in Image /\ disk'.bitmap = s /\ disk'.file = disk.file /\ disk'.page = disk.page
  BY <1>1, <1>3, Before DEF Image
<1>5. /\ FsTypeOK' /\ PagesOnDisk' /\ NoCrossLink'
      /\ \A p \in Places : Held(mem, disk', p) = Held(mem, disk, p)
  <2>1. \A b \in Block : disk'.page[b] # NULL
    BY <1>4, Before DEF PagesOnDisk
  <2>2. \A b \in Block : mem.page[b] = NULL => disk'.page[b] = disk.page[b]
    BY <1>4
  <2> QED BY <1>1, <1>4, <2>1, <2>2, WriteBasics
<1>6. \A p \in DirPlaces : Held(disk', disk', p) = Held(disk, disk, p)
  BY <1>4, DirHeld
<1>7. BitmapFits(s)
  BY <1>2, <1>3 DEF FsInv, BitmapsRight
<1>8. DiskSafe'
  <2>1. Sound(disk, disk, DirPlaces)
    BY DEF FsInv, DiskSafe
  <2>2. Sound(disk', disk', DirPlaces)
    BY <1>4, <1>6, <1>7, <2>1 DEF Sound, BitmapFits
  <2> QED BY <2>2 DEF DiskSafe
<1>9. BitmapsRight'
  <2>1. ASSUME NEW i \in 1..Len(writes') PROVE i + 1 \in 1..Len(writes) /\ writes'[i] = writes[i + 1]
    BY <1>2, <2>1
  <2>2. (\A i, j \in 1..Len(writes) : i < j /\ IsBitmapW(writes[j]) => IsBitmapW(writes[i]))'
    <3> SUFFICES ASSUME NEW i \in 1..Len(writes'), NEW j \in 1..Len(writes'),
                        i < j, IsBitmapW(writes'[j])
                 PROVE  IsBitmapW(writes'[i])
      OBVIOUS
    <3>1. i + 1 < j + 1
      OBVIOUS
    <3> QED BY <2>1, <3>1 DEF FsInv, BitmapsRight
  <2>3. (\A i \in 1..Len(writes) : IsBitmapW(writes[i]) => BitmapFits(writes[i][2]))'
    <3> SUFFICES ASSUME NEW i \in 1..Len(writes'), IsBitmapW(writes'[i])
                 PROVE  BitmapFits(writes[i][2])'
      OBVIOUS
    <3>1. BitmapFits(writes[i + 1][2])
      BY <2>1 DEF FsInv, BitmapsRight
    <3> QED BY <1>6, <2>1, <3>1 DEF BitmapFits
  <2>4. (\A i \in 1..Len(writes) :
          IsBitmapW(writes[i]) /\ (i = Len(writes) \/ ~IsBitmapW(writes[i + 1])) =>
            writes[i][2] \subseteq mem.bitmap)'
    <3> SUFFICES ASSUME NEW i \in 1..Len(writes'), IsBitmapW(writes'[i]),
                        i = Len(writes') \/ ~IsBitmapW(writes'[i + 1])
                 PROVE  writes'[i][2] \subseteq mem.bitmap
      BY <1>1
    <3>1. i + 1 = Len(writes) \/ ~IsBitmapW(writes[i + 2])
      BY <1>2, <2>1
    <3>2. (i + 1) + 1 = i + 2
      OBVIOUS
    <3> QED BY <2>1, <3>1, <3>2 DEF FsInv, BitmapsRight
  <2>5. (writes = <<>> \/ ~IsBitmapW(writes[1]) => disk.bitmap \subseteq mem.bitmap)'
    <3> SUFFICES ASSUME writes' = <<>> \/ ~IsBitmapW(writes'[1]) PROVE s \subseteq mem.bitmap
      BY <1>1, <1>4
    <3>1. 1 = Len(writes) \/ ~IsBitmapW(writes[1 + 1])
      BY <1>2
    <3> QED BY <1>2, <1>3, <3>1 DEF FsInv, BitmapsRight
  <2> QED BY <2>2, <2>3, <2>4, <2>5 DEF BitmapsRight
<1>10. \A f \in File : ~DirLast(f)
  BY <1>2, FirstOfLast DEF FsInv, FsTypeOK, DirW
<1>11. LateWritten'
  <2> SUFFICES ASSUME NEW f \in File PROVE Fresh(f)'
    BY DEF LateWritten
  <2>1. Fresh(f)
    BY <1>10 DEF FsInv, LateWritten
  <2>2. \A p \in DirPlaces : p \in Places
    BY DEF DirPlaces
  <2> QED BY <1>1, <1>5, <1>6, <2>1, <2>2 DEF Fresh
<1>12. CloseLate'
  <2>1. closing # NULL => disk.file[closing] = mem.file[closing]
    BY <1>10 DEF FsInv, CloseLate, FsTypeOK
  <2> QED BY <1>1, <1>4, <2>1 DEF CloseLate
<1> QED BY <1>5, <1>8, <1>9, <1>11, <1>12 DEF FsInv

\* With the bitmaps written, the rest of the invariant about them.
LEMMA NoBitmapLeft ==
  ASSUME FsInv, writes # <<>>, writes' = Tail(writes), mem' = mem, disk'.bitmap = disk.bitmap,
         ~IsBitmapW(writes[1])
  PROVE  BitmapsRight' /\ disk.bitmap \subseteq mem.bitmap
<1>1. /\ Len(writes) \in Nat \ {0} /\ Len(writes') = Len(writes) - 1
      /\ \A i \in 1..(Len(writes) - 1) : writes'[i] = writes[i + 1]
  BY Shifted DEF FsInv, FsTypeOK
<1>2. ASSUME NEW i \in 1..Len(writes') PROVE ~IsBitmapW(writes'[i])
  <2>1. 1 \in 1..Len(writes) /\ i + 1 \in 1..Len(writes) /\ 1 < i + 1 /\ writes'[i] = writes[i + 1]
    BY <1>1, <1>2
  <2> QED BY <2>1 DEF FsInv, BitmapsRight
<1>3. disk.bitmap \subseteq mem.bitmap
  BY DEF FsInv, BitmapsRight
<1> QED BY <1>2, <1>3 DEF BitmapsRight

\* A block reaches the disk.
LEMMA BlockWritten ==
  ASSUME FsInv, write_block, Head(writes)[1] = "block"
  PROVE  FsInv'
<1> DEFINE c == Head(writes)[2]
           pg == [b \in Block |-> IF b = c /\ mem.page[b] # NULL THEN mem.page[b] ELSE disk.page[b]]
<1>1. /\ writes # <<>> /\ writes' = Tail(writes) /\ mem' = mem /\ closing' = closing
      /\ orphans' = orphans /\ lent' = lent /\ panicked' = panicked /\ boots' = boots
      /\ disk' = [disk EXCEPT !.page = pg]
  BY DEF write_block, clients
<1>2. /\ Len(writes) \in Nat \ {0} /\ writes[1] = Head(writes)
      /\ Len(writes') = Len(writes) - 1
      /\ \A i \in 1..(Len(writes) - 1) : writes'[i] = writes[i + 1]
      /\ writes' = <<>> <=> Len(writes) = 1
  BY <1>1, Shifted DEF FsInv, FsTypeOK
<1>3. /\ pg \in [Block -> [Word -> Nat] \cup {NULL}]
      /\ \A b \in Block : pg[b] # NULL /\ (mem.page[b] = NULL => pg[b] = disk.page[b])
  <2>1. /\ mem.page \in [Block -> [Word -> Nat] \cup {NULL}]
        /\ disk.page \in [Block -> [Word -> Nat] \cup {NULL}]
    BY Before, Parts
  <2> HIDE DEF c
  <2> QED BY <2>1, Before DEF PagesOnDisk
<1> HIDE DEF pg
<1>4. disk' \in Image /\ disk'.bitmap = disk.bitmap /\ disk'.file = disk.file /\ disk'.page = pg
  BY <1>1, <1>3, Before DEF Image
<1>5. /\ FsTypeOK' /\ PagesOnDisk' /\ NoCrossLink'
      /\ \A p \in Places : Held(mem, disk', p) = Held(mem, disk, p)
  BY <1>1, <1>3, <1>4, WriteBasics
<1>6. \A p \in DirPlaces : Held(disk', disk', p) = Held(disk, disk, p)
  BY <1>4, DirHeld
<1>7. DiskSafe'
  <2>1. Sound(disk, disk, DirPlaces)
    BY DEF FsInv, DiskSafe
  <2>2. Sound(disk', disk', DirPlaces)
    BY <1>4, <1>6, <2>1 DEF Sound
  <2> QED BY <2>2 DEF DiskSafe
<1>8. BitmapsRight'
  BY <1>1, <1>2, <1>4, NoBitmapLeft DEF IsBitmapW
<1>9. ASSUME NEW f \in File, DirLast(f) PROVE DirLast(f)'
  <2>1. Len(writes) > 1
    BY <1>2, <1>9, FirstOfLast DEF FsInv, FsTypeOK, DirW
  <2>2. writes' # <<>> /\ Len(writes) - 1 \in 1..(Len(writes) - 1) /\ (Len(writes) - 1) + 1 = Len(writes)
    BY <1>2, <2>1
  <2>3. writes'[Len(writes')] = DirW(DirOf[f])
    BY <1>2, <1>9, <2>2 DEF DirLast
  <2>4. ASSUME NEW i \in 1..(Len(writes') - 1) PROVE writes'[i][1] = "block"
    <3>1. i \in 1..(Len(writes) - 1) /\ i + 1 \in 1..(Len(writes) - 1)
      BY <1>2, <2>4
    <3> QED BY <1>2, <1>9, <3>1 DEF DirLast
  <2> QED BY <2>2, <2>3, <2>4 DEF DirLast
<1>10. LateWritten'
  <2> SUFFICES ASSUME NEW f \in File PROVE Fresh(f)' \/ DirLast(f)'
    BY DEF LateWritten
  <2>1. CASE DirLast(f)
    BY <1>9, <2>1
  <2>2. CASE Fresh(f)
    <3>1. \A p \in DirPlaces : p \in Places
      BY DEF DirPlaces
    <3> QED BY <1>1, <1>5, <1>6, <2>2, <3>1 DEF Fresh
  <2> QED BY <2>1, <2>2 DEF FsInv, LateWritten
<1>11. CloseLate'
  <2> SUFFICES ASSUME closing # NULL
               PROVE  disk'.file[closing] = mem.file[closing] \/ DirLast(closing)'
    BY <1>1 DEF CloseLate, DirLast
  <2>1. closing \in File
    BY DEF FsInv, FsTypeOK
  <2>2. PICK f \in File : f = closing
    BY <2>1
  <2>3. disk.file[closing] = mem.file[closing] \/ DirLast(f)
    BY <2>2 DEF FsInv, CloseLate, DirLast
  <2>4. DirLast(f)' => DirLast(closing)'
    BY <1>1, <2>2 DEF DirLast
  <2> QED BY <1>4, <1>9, <2>3, <2>4
<1> QED BY <1>5, <1>7, <1>8, <1>10, <1>11 DEF FsInv

\* A directory reaches the disk.
LEMMA DirWritten ==
  ASSUME FsInv, write_block, Head(writes)[1] = "dir"
  PROVE  FsInv'
<1> DEFINE d == Head(writes)[2]
           fl == [f \in File |-> IF DirOf[f] = d THEN mem.file[f] ELSE disk.file[f]]
<1>1. /\ writes # <<>> /\ writes' = Tail(writes) /\ mem' = mem /\ closing' = closing
      /\ orphans' = orphans /\ lent' = lent /\ panicked' = panicked /\ boots' = boots
      /\ disk' = [disk EXCEPT !.file = fl]
  BY DEF write_block, clients
<1>2. Len(writes) \in Nat \ {0} /\ writes[1] = Head(writes)
  BY <1>1, Shifted DEF FsInv, FsTypeOK
<1>3. fl \in [File -> Inode]
  <2>1. mem.file \in [File -> Inode] /\ disk.file \in [File -> Inode]
    BY Before, Parts
  <2> HIDE DEF d
  <2> QED BY <2>1
<1>4. \A f \in File : fl[f] = IF DirOf[f] = d THEN mem.file[f] ELSE disk.file[f]
  OBVIOUS
<1> HIDE DEF fl
<1>5. disk' \in Image /\ disk'.bitmap = disk.bitmap /\ disk'.file = fl /\ disk'.page = disk.page
  BY <1>1, <1>3, Before DEF Image
<1>6. /\ FsTypeOK' /\ PagesOnDisk' /\ NoCrossLink'
      /\ \A p \in Places : Held(mem, disk', p) = Held(mem, disk, p)
  <2>1. \A b \in Block : disk'.page[b] # NULL
    BY <1>5, Before DEF PagesOnDisk
  <2>2. \A b \in Block : mem.page[b] = NULL => disk'.page[b] = disk.page[b]
    BY <1>5
  <2> QED BY <1>1, <1>5, <2>1, <2>2, WriteBasics
<1>7. \A f \in File : DirLast(f) => DirOf[f] = d
  <2> SUFFICES ASSUME NEW f \in File, DirLast(f) PROVE DirOf[f] = d
    OBVIOUS
  <2>1. writes[1] = DirW(DirOf[f])
    BY <1>2, FirstOfLast DEF FsInv, FsTypeOK
  <2> QED BY <1>2, <2>1 DEF DirW
<1>8. ASSUME NEW p \in DirPlaces PROVE Held(disk', disk', p) \in {0, Held(mem, disk, p)}
  <2>1. p \in Places /\ p[1] \in File
    BY PlaceIs DEF DirPlaces
  <2>2. CASE DirOf[p[1]] = d
    <3>1. disk'.file[p[1]] = mem.file[p[1]]
      BY <1>4, <1>5, <2>1, <2>2
    <3> QED BY <3>1, DirHeld
  <2>3. CASE DirOf[p[1]] # d
    <3>1. disk'.file[p[1]] = disk.file[p[1]]
      BY <1>4, <1>5, <2>1, <2>3
    <3>2. Held(disk', disk', p) = Held(disk, disk, p)
      BY <3>1, DirHeld
    <3>3. Fresh(p[1])
      BY <1>7, <2>1, <2>3 DEF FsInv, LateWritten
    <3> QED BY <3>2, <3>3 DEF Fresh
  <2> QED BY <2>2, <2>3
<1>9. BitmapsRight' /\ disk.bitmap \subseteq mem.bitmap
  BY <1>1, <1>2, <1>5, NoBitmapLeft DEF IsBitmapW
<1>10. DiskSafe'
  <2>1. Sound(mem, disk, Places) /\ disk.bitmap \cap DirBlocks = {}
    BY Before DEF FsInv, DiskSafe, Sound
  <2>2. \A p \in DirPlaces : p \in Places
    BY DEF DirPlaces
  <2>3. Sound(disk', disk', DirPlaces)
    BY <1>5, <1>8, <1>9, <2>1, <2>2 DEF Sound
  <2> QED BY <2>3 DEF DiskSafe
<1>11. LateWritten'
  <2> SUFFICES ASSUME NEW f \in File, NEW p \in DirPlaces
               PROVE  Held(disk', disk', p) \in {0, Held(mem, disk', p)}
    BY <1>1 DEF LateWritten, Fresh
  <2>1. p \in Places
    BY DEF DirPlaces
  <2> QED BY <1>6, <1>8, <2>1
<1>12. CloseLate'
  <2> SUFFICES ASSUME closing # NULL PROVE disk'.file[closing] = mem.file[closing]
    BY <1>1 DEF CloseLate
  <2>1. closing \in File
    BY DEF FsInv, FsTypeOK
  <2>2. disk.file[closing] = mem.file[closing] \/ DirOf[closing] = d
    BY <1>7, <2>1 DEF FsInv, CloseLate
  <2> QED BY <1>4, <1>5, <2>1, <2>2
<1> QED BY <1>6, <1>9, <1>10, <1>11, <1>12 DEF FsInv

\* Every block write keeps the invariant.
LEMMA WriteKeeps == ASSUME FsInv, write_block PROVE FsInv'
<1>1. writes \in Seq(Write) /\ writes # <<>>
  BY DEF FsInv, FsTypeOK, write_block
<1>2. Head(writes) \in Write
  BY <1>1
<1>3. Head(writes)[1] = "bitmap" \/ Head(writes)[1] = "dir" \/ Head(writes)[1] = "block"
  BY <1>2 DEF Write
<1> QED BY <1>3, BitmapWritten, DirWritten, BlockWritten

\* What fs_init makes of a disk without tables.
LEMMA Restarted ==
  ASSUME NEW d \in Image
  PROVE  /\ fs_init(d) \in Image
         /\ fs_init(d).bitmap = d.bitmap /\ fs_init(d).file = d.file
         /\ \A b \in Block : fs_init(d).page[b] = NULL
<1> DEFINE pg == [b \in Block |-> NULL]
<1>1. pg \in [Block -> [Word -> Nat] \cup {NULL}] /\ \A b \in Block : pg[b] = NULL
  OBVIOUS
<1>2. fs_init(d) = [d EXCEPT !.page = pg]
  BY DEF fs_init
<1> HIDE DEF pg
<1> QED BY <1>1, <1>2 DEF Image

\* A restart from a disk whose directories lead to no table: the cache holds what
\* the disk does.
LEMMA CrashKeeps == ASSUME FsInv, NoTables, Crash PROVE FsInv'
<1> DEFINE m == fs_init(disk)
<1>1. /\ mem' = m /\ disk' = disk /\ writes' = <<>> /\ closing' = NULL
      /\ orphans' = {} /\ lent' = {} /\ panicked' = FALSE /\ boots' = boots + 1 /\ boots < MaxBoots
  BY DEF Crash
<1>2. /\ m \in Image /\ m.bitmap = disk.bitmap /\ m.file = disk.file
  BY Before, Restarted
<1> HIDE DEF m
<1>3. FsTypeOK'
  <2>1. boots \in 0..MaxBoots /\ disk \in Image
    BY DEF FsInv, FsTypeOK
  <2>2. boots + 1 \in 0..MaxBoots
    BY <1>1, <2>1, FsAssumption
  <2>3. writes' \in Seq(Write)
    BY <1>1
  <2> QED BY <1>1, <1>2, <2>1, <2>2, <2>3 DEF FsTypeOK
<1>4. \A p \in DirPlaces : Held(m, disk, p) = Held(disk, disk, p)
  BY <1>2, DirHeld
<1>5. \A p \in Places : p \in DirPlaces \/ Held(m, disk, p) = 0
  <2> SUFFICES ASSUME NEW p \in Places, p \notin DirPlaces PROVE Held(m, disk, p) = 0
    OBVIOUS
  <2>1. p[1] \in File /\ ~(p[2] < NDIRECT) /\ p[2] # NINDIRECT
    BY PlaceIs DEF DirPlaces
  <2>2. m.file[p[1]].f_indirect \notin Block
    BY <1>2, <2>1, Numbers DEF NoTables
  <2> QED BY <2>1, <2>2 DEF Held
<1>6. NoCrossLink'
  <2>1. Sound(disk, disk, DirPlaces)
    BY DEF FsInv, DiskSafe
  <2>2. Sound(m, disk, Places)
    BY <1>2, <1>4, <1>5, <2>1 DEF Sound
  <2> QED BY <1>1, <2>2 DEF NoCrossLink
<1>7. PagesOnDisk' /\ DiskSafe'
  BY <1>1 DEF FsInv, PagesOnDisk, DiskSafe
<1>8. BitmapsRight'
  BY <1>1, <1>2 DEF BitmapsRight
<1>9. LateWritten'
  BY <1>1, <1>4 DEF LateWritten, Fresh
<1>10. CloseLate'
  BY <1>1 DEF CloseLate
<1> QED BY <1>3, <1>6, <1>7, <1>8, <1>9, <1>10 DEF FsInv

\* The disk that fsformat writes is a good one to start from.
LEMMA FsInitially == Init => FsInv
<1> SUFFICES ASSUME Init PROVE FsInv
  OBVIOUS
<1>1. /\ mem = fs_init(disk) /\ disk = Format /\ writes = <<>> /\ closing = NULL
      /\ orphans = {} /\ lent = {} /\ panicked = FALSE /\ boots = 0
  BY DEF Init
<1>2. disk \in Image /\ (\A b \in Block : disk.page[b] # NULL) /\ Sound(disk, disk, Places)
  BY <1>1, FormatAssumption
<1>3. /\ mem \in Image /\ mem.bitmap = disk.bitmap /\ mem.file = disk.file
      /\ \A b \in Block : mem.page[b] = NULL
  BY <1>1, <1>2, Restarted
<1>4. FsTypeOK
  <2>1. 0 \in 0..MaxBoots
    BY FsAssumption
  <2>2. writes \in Seq(Write)
    BY <1>1
  <2> QED BY <1>1, <1>2, <1>3, <2>1, <2>2 DEF FsTypeOK
<1>5. \A p \in Places : Held(mem, disk, p) = Held(disk, disk, p)
  BY <1>2, <1>3 DEF Held
<1>6. NoCrossLink
  BY <1>1, <1>2, <1>3, <1>5 DEF NoCrossLink, Sound
<1>7. DiskSafe
  BY <1>2 DEF DiskSafe, Sound, DirPlaces
<1>8. BitmapsRight
  BY <1>1, <1>3 DEF BitmapsRight
<1>9. LateWritten
  BY <1>5 DEF LateWritten, Fresh, DirPlaces
<1> QED BY <1>1, <1>2, <1>4, <1>6, <1>7, <1>8, <1>9 DEF FsInv, PagesOnDisk, CloseLate

\* Every step keeps the invariant.
LEMMA FsNextKeeps == FsInv /\ [FsNext]_fsVars => FsInv'
<1> SUFFICES ASSUME FsInv, [FsNext]_fsVars PROVE FsInv'
  OBVIOUS
<1>1. CASE write_block
  BY <1>1, WriteKeeps
<1>2. CASE Closed
  BY <1>2, ClosedKeeps
<1>3. CASE serve_sync
  BY <1>3, SyncKeeps
<1>4. ASSUME NEW f \in File, Requests(f) PROVE FsInv'
  <2>1. CASE serve_close(f)
    BY <2>1, CloseKeeps
  <2>2. CASE serve_remove(f)
    BY <2>2, RemoveKeeps
  <2>3. ASSUME NEW bno \in 0..NINDIRECT, serve_dirty(f, bno) PROVE FsInv'
    BY <2>3, DirtyKeeps
  <2>4. ASSUME NEW newsize \in Sizes, serve_set_size(f, newsize) PROVE FsInv'
    BY <2>4, SetSizeKeeps
  <2> QED BY <1>4, <2>1, <2>2, <2>3, <2>4 DEF Requests
<1>5. ASSUME NEW f \in File, NEW bno \in 0..NINDIRECT, TableClean(f, bno), serve_map(f, bno)
      PROVE  FsInv'
  BY <1>5, MapKeeps
<1>6. ASSUME NEW f \in File, NEW bno \in 0..NINDIRECT, TableClean(f, bno),
             serve_map_no_mem(f, bno)
      PROVE  FsInv'
  BY <1>6, MapFailKeeps
<1>7. CASE NoTables /\ Crash
  BY <1>7, CrashKeeps
<1>8. CASE UNCHANGED fsVars
  <2>1. /\ mem' = mem /\ disk' = disk /\ writes' = writes /\ closing' = closing
        /\ orphans' = orphans /\ lent' = lent /\ panicked' = panicked /\ boots' = boots
    BY <1>8 DEF fsVars, clients
  <2>2. FsTypeOK' /\ CloseLate'
    BY <2>1 DEF FsInv, FsTypeOK, CloseLate, DirLast
  <2>3. PagesOnDisk' /\ NoCrossLink' /\ DiskSafe'
    BY <2>1 DEF FsInv, PagesOnDisk, NoCrossLink, DiskSafe
  <2>4. BitmapsRight' /\ LateWritten'
    BY <2>1 DEF FsInv, BitmapsRight, BitmapFits, LateWritten, Fresh, DirLast
  <2> QED BY <2>2, <2>3, <2>4 DEF FsInv
<1> QED BY <1>1, <1>2, <1>3, <1>4, <1>5, <1>7, <1>8, <1>6 DEF FsNext

-----------------------------------------------------------------------------
(* The theorems.                                                           *)

\* FsInv holds in every state of FsSpec.
THEOREM FsInvariant == FsSpec => []FsInv
BY FsInitially, FsNextKeeps, PTL DEF FsSpec

\* Every variable of the file server keeps its type: requests, block writes and
\* restarts leave images of the disk in the cache and on the disk.
THEOREM FsTypes == FsSpec => []FsTypeOK
<1>1. FsInv => FsTypeOK
  BY DEF FsInv
<1> QED BY <1>1, FsInvariant, PTL

\* The cache never has a block in two files, or in a file and free, and read_block
\* never panics, whatever clients ask for in whatever order, with the disk full or
\* the machine restarted in the middle of a request.
THEOREM NeverCrossLinked == FsSpec => []NoCrossLink
<1>1. FsInv => NoCrossLink
  BY DEF FsInv
<1> QED BY <1>1, FsInvariant, PTL

\* Nor does the disk, after any of the block writes of any request.
THEOREM DiskAlwaysSafe == FsSpec => []DiskSafe
<1>1. FsInv => DiskSafe
  BY DEF FsInv
<1> QED BY <1>1, FsInvariant, PTL

\* Once serve_close has answered, what the directory has of the file is on the disk,
\* and its blocks are not free there.
THEOREM CloseIsDurable == FsSpec => []CloseDurable
<1>1. FsInv => CloseDurable
  <2> SUFFICES ASSUME FsInv, closing # NULL, writes = <<>>
               PROVE  /\ disk.file[closing] = mem.file[closing]
                      /\ \A i \in 0..(NDIRECT - 1) :
                           mem.file[closing].f_direct[i] \notin disk.bitmap
    BY DEF CloseDurable
  <2>1. closing \in File
    BY DEF FsInv, FsTypeOK
  <2>2. disk.file[closing] = mem.file[closing]
    BY DEF FsInv, CloseLate, DirLast
  <2>3. ASSUME NEW i \in 0..(NDIRECT - 1)
        PROVE  disk.file[closing].f_direct[i] \notin disk.bitmap
    <3> DEFINE p == <<closing, i>>
    <3>1. p \in DirPlaces /\ i \in 0..NINDIRECT
      BY <2>1, <2>3, Numbers, FsAssumption DEF DirPlaces, Places
    <3>2. Held(disk, disk, p) = disk.file[closing].f_direct[i]
      <4>1. i < NDIRECT /\ p[1] = closing /\ p[2] = i
        BY FsAssumption
      <4> HIDE DEF p
      <4> QED BY <4>1 DEF Held
    <3>3. 0 \notin disk.bitmap
      BY Before, Parts, Numbers
    <3>4. Sound(disk, disk, DirPlaces)
      BY DEF FsInv, DiskSafe
    <3> HIDE DEF p
    <3>5. Held(disk, disk, p) \notin disk.bitmap
      BY <3>1, <3>3, <3>4 DEF Sound
    <3> QED BY <3>2, <3>5
  <2> QED BY <2>2, <2>3
<1> QED BY <1>1, FsInvariant, PTL
================================================================================
