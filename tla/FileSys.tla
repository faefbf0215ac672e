-------------------------------- MODULE FileSys --------------------------------
(***************************************************************************)
(* The file system of the file server: fs/fs.c as the requests of          *)
(* fs/serv.c drive it.                                                     *)
(*                                                                         *)
(* The server is one env that serves one request at a time, on a cache of  *)
(* the disk that it never shrinks.  A request is one step on the cache and *)
(* a sequence of block writes, each a step of its own: the machine may     *)
(* stop between any two, and clients store into the pages that were mapped *)
(* to them whenever they like.  A directory is one block.  Paths, the open *)
(* table and the messages are left out: a request names a file that some   *)
(* client may have open, which it could open while the file had its name.  *)
(* No request reaches file_create, and the directories themselves are not  *)
(* truncated or removed.                                                   *)
(***************************************************************************)
EXTENDS Integers, Sequences, FiniteSets

CONSTANTS
  File,      (* the files                                                       *)
  Dir,       (* the directories, each one block                                 *)
  DirOf,     (* DirOf[f]: the directory of f                                    *)
  DirBlock,  (* DirBlock[d]: the block of d                                     *)
  NBLOCKS,   (* s_nblocks: blocks are numbered 0..NBLOCKS-1; 0 is "no block"    *)
  FIRST,     (* the first block that is not reserved                            *)
  BY2BLK,    (* bytes in a block                                                *)
  NDIRECT,   (* direct pointers of a file                                       *)
  NINDIRECT, (* words of a block; a table holds the pointers NDIRECT and up     *)
  Sizes,     (* the sizes that clients ask for                                  *)
  Data,      (* the words that clients store                                    *)
  Format,    (* the disk that fsformat has written                              *)
  MaxBoots,  (* bound: restarts                                                 *)
  NULL

ASSUME FsAssumption ==
  /\ NBLOCKS \in Nat /\ FIRST \in Nat \ {0} /\ FIRST < NBLOCKS
  /\ NDIRECT \in Nat \ {0} /\ NINDIRECT \in Nat /\ NDIRECT < NINDIRECT
  /\ BY2BLK \in Nat \ {0} /\ Sizes \subseteq Nat /\ MaxBoots \in Nat
  /\ Data \subseteq FIRST..(NBLOCKS - 1)
  /\ IsFiniteSet(File) /\ IsFiniteSet(Dir) /\ DirOf \in [File -> Dir]
  /\ DirBlock \in [Dir -> FIRST..(NBLOCKS - 1)]
  /\ \A d, e \in Dir : DirBlock[d] = DirBlock[e] => d = e

Block == FIRST..(NBLOCKS - 1)
Word  == NDIRECT..(NINDIRECT - 1)
Zero  == [w \in Word |-> 0]

\* A struct File, and an image of what the blocks hold: of the bitmap the set of
\* blocks that are free, of the directories their files, of the other blocks the
\* words that matter, NULL for a block that is not in the cache.
Inode == [f_name : BOOLEAN, f_size : Nat, f_direct : [0..(NDIRECT - 1) -> Nat],
          f_indirect : Nat]
Image == [bitmap : SUBSET Block, file : [File -> Inode],
          page : [Block -> [Word -> Nat] \cup {NULL}]]

ASSUME NullAssumption == NULL \notin [Word -> Nat] /\ NULL \notin File

\* The places of an image m that hold a pointer, and what they hold.  What is not in
\* the cache is on the disk, whose image is d.
Places == File \X (0..NINDIRECT)
Held(m, d, p) ==
  LET i == m.file[p[1]]
      t == i.f_indirect
  IN  IF p[2] < NDIRECT THEN i.f_direct[p[2]]
      ELSE IF p[2] = NINDIRECT THEN t
      ELSE IF t \notin Block THEN 0
      ELSE IF m.page[t] = NULL THEN d.page[t][p[2]] ELSE m.page[t][p[2]]

\* In the places ps of m: no two hold the same block, and none holds a block that
\* is free, does not exist or is a directory's; these are not free either.
DirBlocks == {DirBlock[d] : d \in Dir}
Sound(m, d, ps) ==
  /\ m.bitmap \cap DirBlocks = {}
  /\ \A p \in ps : Held(m, d, p) # 0 =>
       /\ Held(m, d, p) \in Block \ (m.bitmap \cup DirBlocks)
       /\ \A q \in ps : Held(m, d, q) = Held(m, d, p) => q = p

\* fsformat gives every file blocks of its own, and frees none of them.
ASSUME FormatAssumption ==
  /\ Format \in Image /\ \A b \in Block : Format.page[b] # NULL
  /\ Sound(Format, Format, Places)

VARIABLES
  mem,      (* the cache of the server                                          *)
  disk,     (* the disk                                                         *)
  writes,   (* the block writes of the current request that are still to come   *)
  closing,  (* the file of the FSREQ_CLOSE that is being served, or NULL        *)
  orphans,  (* files that were removed while clients may have had them open     *)
  lent,     (* blocks whose cached page clients may have mapped: it only grows   *)
  panicked, (* read_block has called user_panic                                 *)
  boots     (* how often the machine was restarted                              *)

clients == <<orphans, lent>>
fsVars  == <<mem, disk, writes, closing, clients, panicked, boots>>

\* What read_super and read_bitmap leave in the cache.  The directories come with the
\* paths that are looked up.  Between the two, check_write_block writes over the
\* superblock and restores it: the machine is not stopped there.
fs_init(d) == [d EXCEPT !.page = [b \in Block |-> NULL]]

Init ==
  /\ disk = Format /\ mem = fs_init(Format)
  /\ writes = <<>> /\ closing = NULL
  /\ orphans = {} /\ lent = {}
  /\ panicked = FALSE /\ boots = 0

-----------------------------------------------------------------------------
(* Blocks.  m is an image of the cache.                                    *)

\* read_block, without its panics, and with memory for the page: it does not look
\* whether it got some.
read_block(m, b) ==
  [m EXCEPT !.page = [c \in Block |-> IF c = b /\ @[c] = NULL THEN disk.page[c] ELSE @[c]]]

\* One of the blocks bs makes it panic: "reading non-existent block" or "reading
\* free block".
Unreadable(m, bs) == \E b \in bs : b >= NBLOCKS \/ b \in m.bitmap

\* alloc_block_num takes the first free block.
FirstFree(m) == CHOOSE b \in m.bitmap : \A c \in m.bitmap : b <= c

\* alloc_block, with a free block there and memory for it: map_block leaves a page that
\* is already in the cache as it is.
alloc_block(m) ==
  LET b == FirstFree(m) IN
  [m EXCEPT !.bitmap = @ \ {b},
            !.page = [c \in Block |-> IF c = b /\ @[c] = NULL THEN Zero ELSE @[c]]]

\* A block write: alloc_block_num and fs_sync write the bitmap, file_flush and
\* fs_sync the block of a directory or of a file, if block_is_dirty: it is in the
\* cache, where every page counts as dirty.
BitmapW(free) == <<"bitmap", free>>
DirW(d)       == <<"dir", d>>
BlockW(b)     == <<"block", b>>
Write == ({"bitmap"} \X SUBSET Block) \cup ({"dir"} \X Dir) \cup ({"block"} \X Nat)

write_block ==
  /\ writes # <<>>
  /\ writes' = Tail(writes)
  /\ LET w == Head(writes) IN
     disk' = CASE w[1] = "bitmap" -> [disk EXCEPT !.bitmap = w[2]]
               [] w[1] = "dir"    -> [disk EXCEPT !.file = [f \in File |->
                                        IF DirOf[f] = w[2] THEN mem.file[f] ELSE @[f]]]
               [] w[1] = "block"  -> [disk EXCEPT !.page = [b \in Block |->
                                        IF b = w[2] /\ mem.page[b] # NULL
                                        THEN mem.page[b] ELSE @[b]]]
  /\ UNCHANGED <<mem, closing, clients, panicked, boots>>

-----------------------------------------------------------------------------
(* Files.                                                                  *)

\* The pointer to block bno of file f, 0 when there is none or nowhere to keep it.
Pointer(m, f, bno) ==
  LET i == m.file[f] IN
  IF bno < NDIRECT THEN i.f_direct[bno]
  ELSE IF bno < NINDIRECT /\ i.f_indirect # 0 THEN m.page[i.f_indirect][bno] ELSE 0

SetPointer(m, f, bno, b) ==
  IF bno < NDIRECT THEN [m EXCEPT !.file[f].f_direct[bno] = b]
  ELSE [m EXCEPT !.page[m.file[f].f_indirect][bno] = b]

InTable(bno) == bno >= NDIRECT /\ bno < NINDIRECT

\* file_block_walk without alloc, for each of the blocks bnos.
Walk(m, f, bnos) ==
  IF m.file[f].f_indirect # 0 /\ \E bno \in bnos : InTable(bno)
  THEN read_block(m, m.file[f].f_indirect) ELSE m

\* file_block_walk with alloc.  A new table is whatever alloc_block returns.
NeedsTable(m, f, bno) == InTable(bno) /\ m.file[f].f_indirect = 0
file_block_walk(m, f, bno) ==
  IF NeedsTable(m, f, bno) /\ m.bitmap # {}
  THEN [alloc_block(m) EXCEPT !.file[f].f_indirect = FirstFree(m)]
  ELSE Walk(m, f, {bno})

\* file_map_block with alloc, after the walk.
NeedsBlock(m, f, bno) ==
  (bno < NDIRECT \/ (InTable(bno) /\ m.file[f].f_indirect # 0)) /\ Pointer(m, f, bno) = 0
file_map_block(m, f, bno) ==
  IF NeedsBlock(m, f, bno) /\ m.bitmap # {}
  THEN SetPointer(alloc_block(m), f, bno, FirstFree(m))
  ELSE m

\* The writes of an alloc_block_num that does not sync the bitmap,
AllocWritesNone(m0, m1) == <<>>

\* and of the one there is, between the caches m0 and m1.
AllocWrites(m0, m1) == IF m0.bitmap = m1.bitmap THEN <<>> ELSE <<BitmapW(m1.bitmap)>>

NBlocks(size) == size \div BY2BLK + 1

\* A free_block that does not look at its argument,
FreedAny(bs) == bs

\* and free_block, which ignores 0 and what is not on the disk.
Freed(bs) == bs \cap Block

\* A file_clear_block that leaves the pointer,
ClearedNot(pointers, bnos) == pointers

\* and what file_clear_block does to the pointers to the blocks bnos.
Cleared(pointers, bnos) == [i \in DOMAIN pointers |-> IF i \in bnos THEN 0 ELSE pointers[i]]

\* The blocks of f from the new count to the old one.
NewBlocks(newsize) == IF newsize = 0 THEN 0 ELSE NBlocks(newsize)
Cut(m, f, newsize) == NewBlocks(newsize)..(NBlocks(m.file[f].f_size) - 1)

\* file_truncate: these are freed and their pointers cleared; the table too when the
\* direct pointers are enough.
file_truncate(m0, f, newsize) ==
  LET cut    == Cut(m0, f, newsize)
      table  == m0.file[f].f_indirect
      direct == NewBlocks(newsize) <= NDIRECT
      m      == Walk(m0, f, cut)
      held   == {Pointer(m, f, bno) : bno \in cut} \cup (IF direct THEN {table} ELSE {})
  IN  [m EXCEPT !.bitmap = @ \cup Freed(held),
                !.file[f].f_size = newsize,
                !.file[f].f_direct = Cleared(@, cut),
                !.file[f].f_indirect = IF direct THEN 0 ELSE @,
                !.page = [b \in Block |-> IF b = table /\ m.page[b] # NULL
                                          THEN Cleared(m.page[b], cut) ELSE m.page[b]]]

Blocks(m, f) == 0..(NBlocks(m.file[f].f_size) - 1)

\* The loop of file_flush(f) over the blocks of f.  The table is not among them.
file_flush(m, f) ==
  [i \in 1..NBlocks(m.file[f].f_size) |-> BlockW(Pointer(m, f, i - 1))]

-----------------------------------------------------------------------------
(* Requests.                                                               *)

\* The server takes a request, leaves the cache as m and has the writes ws to do; or
\* it panics.
Serve(panics, m, ws) ==
  /\ writes = <<>> /\ closing = NULL /\ ~panicked
  /\ IF panics
     THEN panicked' = TRUE /\ UNCHANGED <<mem, writes>>
     ELSE mem' = m /\ writes' = ws /\ UNCHANGED panicked
  /\ UNCHANGED <<disk, boots>>

\* The blocks that a walk over bnos reads.
Tables(m, f, bnos) ==
  IF \E bno \in bnos : InTable(bno) THEN {m.file[f].f_indirect} \ {0} ELSE {}

\* A client may have f open.
Open(f) == mem.file[f].f_name \/ f \in orphans

\* file_get_block; on -E_NO_DISK a table that was allocated stays.
serve_map(f, bno) ==
  /\ Open(f)
  /\ LET m1 == file_block_walk(mem, f, bno)
         m2 == file_map_block(m1, f, bno)
         b  == Pointer(m2, f, bno)
         m3 == IF b \in Block THEN read_block(m2, b) ELSE m2
     IN  /\ Serve(Unreadable(m2, Tables(m1, f, {bno}) \cup ({b} \ {0})), m3,
                  AllocWrites(mem, m1) \o AllocWrites(m1, m2))
         /\ lent' = IF b = 0 \/ panicked' THEN lent ELSE lent \cup {b}
  /\ UNCHANGED <<closing, orphans>>

\* An alloc_block whose map_block finds no memory: free_block gives the block back, but
\* the bitmap was written without it.
AllocFails(m) == m.bitmap # {} /\ m.page[FirstFree(m)] = NULL
FailWrites(m) == AllocWrites(m, [m EXCEPT !.bitmap = @ \ {FirstFree(m)}])

\* file_get_block without memory for a new table, or for a new block.
serve_map_no_mem(f, bno) ==
  /\ Open(f)
  /\ \/ /\ NeedsTable(mem, f, bno) /\ AllocFails(mem)
        /\ Serve(FALSE, mem, FailWrites(mem))
     \/ LET m == file_block_walk(mem, f, bno) IN
        /\ NeedsBlock(m, f, bno) /\ AllocFails(m)
        /\ Serve(Unreadable(m, Tables(m, f, {bno})), m, AllocWrites(mem, m) \o FailWrites(m))
  /\ UNCHANGED <<closing, clients>>

\* file_dirty: it only reads the table, every page counts as dirty.
serve_dirty(f, bno) ==
  /\ Open(f)
  /\ Serve(Unreadable(mem, Tables(mem, f, {bno})), Walk(mem, f, {bno}), <<>>)
  /\ UNCHANGED <<closing, clients>>

\* file_set_size: shrink if need be, then flush the directory at once.
serve_set_size(f, newsize) ==
  /\ Open(f)
  /\ LET shrink == mem.file[f].f_size > newsize IN
     Serve(shrink /\ Unreadable(mem, Tables(mem, f, Cut(mem, f, newsize))),
           [(IF shrink THEN file_truncate(mem, f, newsize) ELSE mem)
              EXCEPT !.file[f].f_size = newsize],
           <<DirW(DirOf[f])>>)
  /\ UNCHANGED <<closing, clients>>

\* The writes of a file_close that does not flush the directory,
file_closeNoDir(m, f) == file_flush(m, f)

\* and of file_close: the file, then its directory.
file_close(m, f) == Append(file_flush(m, f), DirW(DirOf[f]))

serve_close(f) ==
  /\ Open(f)
  /\ LET m == Walk(mem, f, Blocks(mem, f)) IN
     Serve(Unreadable(mem, Tables(mem, f, Blocks(mem, f))), m, file_close(m, f))
  /\ closing' = IF panicked' THEN NULL ELSE f
  /\ UNCHANGED clients

\* The client of serve_close has its answer.
Closed ==
  /\ writes = <<>> /\ closing # NULL
  /\ closing' = NULL
  /\ UNCHANGED <<mem, disk, writes, clients, panicked, boots>>

\* file_remove: other clients may have the file open.
serve_remove(f) ==
  /\ mem.file[f].f_name
  /\ LET m == [file_truncate(mem, f, 0) EXCEPT !.file[f].f_name = FALSE] IN
     Serve(Unreadable(mem, Tables(mem, f, Cut(mem, f, 0))), m, file_close(m, f))
  /\ orphans' = orphans \cup {f}
  /\ UNCHANGED <<closing, lent>>

\* fs_sync: the bitmap, and the loop over the blocks that follow it.
BlockNoW(b) ==
  IF b \in DirBlocks THEN DirW(CHOOSE d \in Dir : DirBlock[d] = b) ELSE BlockW(b)

serve_sync ==
  /\ Serve(FALSE, mem, <<BitmapW(mem.bitmap)>>
                         \o [i \in 1..(NBLOCKS - FIRST) |-> BlockNoW(FIRST + i - 1)])
  /\ UNCHANGED <<closing, clients>>

-----------------------------------------------------------------------------
(* Clients and the machine.                                                *)

\* A client stores into a page that was mapped to it (file_write), at any time, even
\* when the block has been freed or given to another file since.
ClientStore(b, x) ==
  /\ b \in lent
  /\ mem' = [mem EXCEPT !.page[b] = [w \in Word |-> x]]
  /\ UNCHANGED <<disk, writes, closing, clients, panicked, boots>>

\* The machine stops, and starts again from the disk.  It does not stop before fs_init
\* is through.
Crash ==
  /\ boots < MaxBoots
  /\ boots' = boots + 1
  /\ mem' = fs_init(disk)
  /\ writes' = <<>> /\ closing' = NULL
  /\ orphans' = {} /\ lent' = {} /\ panicked' = FALSE
  /\ UNCHANGED disk

-----------------------------------------------------------------------------
Requests(f) ==
  \/ serve_close(f) \/ serve_remove(f)
  \/ \E bno \in 0..NINDIRECT : serve_dirty(f, bno)
  \/ \E newsize \in Sizes : serve_set_size(f, newsize)

\* A block that is about to become a table was not in the cache before, so that
\* map_block gives it a page that is cleared, and no client has it mapped.
TableClean(f, bno) ==
  NeedsTable(mem, f, bno) /\ mem.bitmap # {} => mem.page[FirstFree(mem)] = NULL

\* No directory on the disk leads to a table: only fs_sync writes tables, and what
\* the disk has of one may be anything.
NoTables == \A f \in File : disk.file[f].f_indirect = 0

\* With tables made of clean blocks, the stores of clients only change what no
\* property looks at: they are left out.
FsNext ==
  \/ write_block \/ Closed \/ serve_sync
  \/ \E f \in File :
       \/ Requests(f)
       \/ \E bno \in 0..NINDIRECT :
            TableClean(f, bno) /\ (serve_map(f, bno) \/ serve_map_no_mem(f, bno))
  \/ NoTables /\ Crash

FsSpec == Init /\ [][FsNext]_fsVars

\* With the stores, and tables made of any block.
RawNext ==
  \/ write_block \/ Closed \/ serve_sync
  \/ \E f \in File :
       \/ Requests(f)
       \/ \E bno \in 0..NINDIRECT : serve_map(f, bno) \/ serve_map_no_mem(f, bno)
  \/ \E b \in Block, x \in Data : ClientStore(b, x)

RawSpec == Init /\ [][RawNext]_fsVars

-----------------------------------------------------------------------------
(* Properties.                                                             *)

FsTypeOK ==
  /\ mem \in Image /\ disk \in Image
  /\ writes \in Seq(Write)
  /\ closing \in File \cup {NULL}
  /\ orphans \subseteq File /\ lent \subseteq Block
  /\ panicked \in BOOLEAN /\ boots \in 0..MaxBoots

\* No block belongs to two files or directories, or to one and is free, after any sequence of
\* growing, shrinking, removing, running out of space and restarting; so read_block
\* never finds a reason to panic.  It takes tables that are made of clean blocks.
NoCrossLink == Sound(mem, disk, Places) /\ ~panicked

\* Wherever the machine stops, the pointers that the directories on the disk hold
\* lead to blocks that the bitmap on the disk does not give away again:
\* alloc_block_num writes the bitmap before a pointer can reach the disk, and
\* file_set_size and file_remove write the directory before a freed block is
\* allocated again.
DirPlaces == {p \in Places : p[2] < NDIRECT \/ p[2] = NINDIRECT}
DiskSafe == Sound(disk, disk, DirPlaces)

\* When the client of a close has its answer, the directory on the disk has the file
\* as the cache has it, and the blocks that it reaches through direct pointers are
\* not free there: a crash after the close loses neither the size nor the blocks.
CloseDurable ==
  closing # NULL /\ writes = <<>> =>
    /\ disk.file[closing] = mem.file[closing]
    /\ \A i \in 0..(NDIRECT - 1) : mem.file[closing].f_direct[i] \notin disk.bitmap

\* read_block: user_panic("reading free block %08x\n", blockno).
NeverReadsFree == ~panicked
-----------------------------------------------------------------------------
(* The inductive invariant of FsSpec.                                      *)

PagesOnDisk == \A b \in Block : disk.page[b] # NULL

\* The bitmap writes that are still to come are the first, and the last of them
\* frees nothing that is not free in the cache.  None of them frees a block that a directory on
\* the disk leads to.  When they are done, what is free on the disk is free.
IsBitmapW(w) == w[1] = "bitmap"
BitmapFits(s) ==
  s \cap DirBlocks = {} /\ \A p \in DirPlaces : Held(disk, disk, p) \notin s
BitmapsRight ==
  /\ \A i, j \in 1..Len(writes) : i < j /\ IsBitmapW(writes[j]) => IsBitmapW(writes[i])
  /\ \A i \in 1..Len(writes) : IsBitmapW(writes[i]) => BitmapFits(writes[i][2])
  /\ \A i \in 1..Len(writes) :
       IsBitmapW(writes[i]) /\ (i = Len(writes) \/ ~IsBitmapW(writes[i + 1])) =>
         writes[i][2] \subseteq mem.bitmap
  /\ writes = <<>> \/ ~IsBitmapW(writes[1]) => disk.bitmap \subseteq mem.bitmap

\* A pointer that a directory on the disk has is the one of the cache; if f has lost
\* it there, the last write of the request is the directory's, with none but blocks
\* of f before it.
Fresh(f) ==
  \A p \in DirPlaces : p[1] = f => Held(disk, disk, p) \in {0, Held(mem, disk, p)}
DirLast(f) ==
  /\ writes # <<>> /\ writes[Len(writes)] = DirW(DirOf[f])
  /\ \A i \in 1..(Len(writes) - 1) : writes[i][1] = "block"
LateWritten == \A f \in File : Fresh(f) \/ DirLast(f)
CloseLate ==
  closing # NULL => disk.file[closing] = mem.file[closing] \/ DirLast(closing)

FsInv ==
  /\ FsTypeOK /\ PagesOnDisk /\ NoCrossLink /\ DiskSafe
  /\ BitmapsRight /\ LateWritten /\ CloseLate
================================================================================
