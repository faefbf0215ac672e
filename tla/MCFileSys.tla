------------------------------- MODULE MCFileSys -------------------------------
(* Instances of FileSys, on the disk that fsformat writes for two files,   *)
(* each in a directory of its own: the root has block 3, motd the blocks 4 *)
(* and 5 and the table 6, home has block 7, and note is empty.             *)
EXTENDS FileSys

CONSTANTS motd, note, home, root

Apart == [f \in File |-> IF f = motd THEN root ELSE home]

Image0 == INSTANCE FsFormat WITH
  Node <- File \cup Dir, NBLOCK <- NBLOCKS, BIT2BLK <- 16, BITS <- 1, FILE2BLK <- 2

Reg(f, dir, size) == [node |-> f, dir |-> dir, size |-> size, isdir |-> FALSE]
Sub(d, dir)       == [node |-> d, dir |-> dir, size |-> 0, isdir |-> TRUE]

Written == Image0!main(<<Reg(motd, root, 3), Sub(home, root), Reg(note, home, 0)>>)

Formatted ==
  [bitmap |-> Image0!flush_bitmap(Written),
   file   |-> [f \in File |->
                 LET i == Written.file[f] IN
                 [f_name |-> TRUE, f_size |-> i.f_size, f_direct |-> i.f_direct,
                  f_indirect |-> i.f_indirect]],
   page   |-> [b \in Block |-> Written.table[b]]]

DirBlocks0 == [d \in Dir |-> Written.file[d].f_direct[0]]

-----------------------------------------------------------------------------
(* The disks that fsformat writes for all small trees, in any order of the *)
(* files, on a disk with two bitmap blocks and one struct File to a block. *)

Small == INSTANCE FsFormat WITH
  Node <- File \cup Dir, NBLOCK <- 15, BIT2BLK <- 8, BITS <- 1, FILE2BLK <- 1,
  NDIRECT <- 1, NINDIRECT <- 3, BY2BLK <- 2

Trees ==
  LET m(x) == Reg(motd, root, x)
      n(x) == Reg(note, home, x)
      h    == Sub(home, root)
  IN  UNION {{<<m(x), h, n(y)>>, <<h, n(y), m(x)>>, <<h, Reg(motd, home, x), n(y)>>} :
               x \in 0..6, y \in 0..4}

\* The blocks of f, by its size, and its table.
BlocksOf(d, f) ==
  LET n == (d.file[f].f_size + 1) \div 2 IN
  {<<f, i, Small!BlockOf(d, f, i)>> : i \in 0..(n - 1)}
    \cup (IF n > 1 THEN {<<f, -1, d.file[f].f_indirect>>} ELSE {})

\* As many blocks are used as the sizes ask for, each once, all of them after the bitmap,
\* without a gap; the bitmap has the others.
ASSUME FormatSound ==
  \A t \in Trees :
    LET d    == Small!main(t)
        held == UNION {BlocksOf(d, f) : f \in File \cup Dir}
    IN  /\ {h[3] : h \in held} = 4..(d.nextbno - 1)
        /\ Cardinality(held) = d.nextbno - 4
        /\ Small!flush_bitmap(d) = d.nextbno..14
================================================================================
