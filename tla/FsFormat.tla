-------------------------------- MODULE FsFormat --------------------------------
(***************************************************************************)
(* tools/fsformat.c: the disk image that the file server starts from.      *)
(*                                                                         *)
(* The image is built by one pass over the files and directories named on  *)
(* the command line, each directory followed by what is in it.  Blocks are *)
(* handed out one after the other and never taken back.  Names, types and  *)
(* the data of the files are left out; of a directory block the number of  *)
(* its struct Files that are used is kept.                                 *)
(***************************************************************************)
EXTENDS Integers, Sequences, SequencesExt

CONSTANTS
  Node,      (* the files and directories                                       *)
  NBLOCK,    (* blocks of the disk                                              *)
  BIT2BLK,   (* bits in a block                                                 *)
  BITS,      (* bits that memset sets at once: those of a byte                  *)
  BY2BLK,    (* bytes in a block                                                *)
  FILE2BLK,  (* struct Files in a block                                         *)
  NDIRECT,   (* direct pointers of a file                                       *)
  NINDIRECT  (* words of a block, of which a table uses NDIRECT and up          *)

nbitblock == (NBLOCK + BIT2BLK - 1) \div BIT2BLK

NewFile == [f_size |-> 0, f_direct |-> [i \in 0..(NDIRECT - 1) |-> 0], f_indirect |-> 0]

\* The bits that are set before a block is used: all, but for the end of the last
\* bitmap block.
InitBits ==
  {i \in 0..(nbitblock * BIT2BLK - 1) :
     NBLOCK # nbitblock * BIT2BLK =>
       i < (nbitblock - 1) * BIT2BLK + ((NBLOCK % BIT2BLK) \div BITS) * BITS}

\* The disk in the making: the next block, the struct File of each node, the tables,
\* and how many struct Files of a directory block are used.
init_disk ==
  [nextbno |-> 2 + nbitblock,
   file    |-> [n \in Node |-> NewFile],
   table   |-> [b \in 0..(NBLOCK - 1) |-> [w \in NDIRECT..(NINDIRECT - 1) |-> 0]],
   used    |-> [b \in 0..(NBLOCK - 1) |-> 0]]

\* next_block hands out d.nextbno.
next_block(d) == [d EXCEPT !.nextbno = @ + 1]

\* flush_bitmap: the blocks that are free.
flush_bitmap(d) == InitBits \ (0..(d.nextbno - 1))

\* The pointer to block nblk of f; the table, if there is none, is the next block.
save_block_link(d, f, nblk, bno) ==
  LET table == d.file[f].f_indirect IN
  IF nblk < NDIRECT THEN [d EXCEPT !.file[f].f_direct[nblk] = bno]
  ELSE IF table # 0 THEN [d EXCEPT !.table[table][nblk] = bno]
  ELSE [next_block(d) EXCEPT !.file[f].f_indirect = d.nextbno, !.table[d.nextbno][nblk] = bno]

BlockOf(d, f, i) ==
  IF i < NDIRECT THEN d.file[f].f_direct[i] ELSE d.table[d.file[f].f_indirect][i]

make_link_block(d, dirf, nblk) ==
  [save_block_link(next_block(d), dirf, nblk, d.nextbno) EXCEPT !.file[dirf].f_size = @ + BY2BLK]

\* create_file takes an unused struct File of dirf, in the first block that has one or
\* in a new block.
create_file(d, dirf) ==
  LET nblk == d.file[dirf].f_size \div BY2BLK
      room == {i \in 0..(nblk - 1) : d.used[BlockOf(d, dirf, i)] < FILE2BLK}
      e    == IF room # {} THEN d ELSE make_link_block(d, dirf, nblk)
      i    == IF room # {} THEN CHOOSE j \in room : \A k \in room : j <= k ELSE nblk
  IN  [e EXCEPT !.used[BlockOf(e, dirf, i)] = @ + 1]

\* write_file: one block for every read that returns something.
write_file(d, dirf, f, size) ==
  FoldLeft(LAMBDA e, iblk : save_block_link(next_block(e), f, iblk, e.nextbno),
           [create_file(d, dirf) EXCEPT !.file[f].f_size = size],
           [i \in 1..((size + BY2BLK - 1) \div BY2BLK) |-> i - 1])

\* write_directory, before it turns to what is in the directory.
write_directory(d, dirf) == create_file(d, dirf)

\* main: the nodes in the order in which they are met, each with the directory it goes
\* to.
main(args) ==
  FoldLeft(LAMBDA d, a : IF a.isdir THEN write_directory(d, a.dir)
                         ELSE write_file(d, a.dir, a.node, a.size),
           init_disk, args)
================================================================================
