-------------------------------- MODULE ElfLoad --------------------------------
(***************************************************************************)
(* How a program gets into the memory of a new env: lib/elfloader.c with   *)
(* the callbacks of kern/env.c and user/lib/spawn.c, and the stack page    *)
(* that spawn prepares.                                                    *)
(*                                                                         *)
(* These are computations, not protocols.  A memory is a function from the *)
(* page numbers that are mapped to what the pages hold; of a file the      *)
(* positions of its bytes are kept, counted from 1, and 0 is a zero byte.  *)
(* A page that cannot be had ends the load: the kernel panics and spawn    *)
(* destroys the child, so that what was loaded by then does not matter.    *)
(***************************************************************************)
EXTENDS Integers, Sequences, SequencesExt

CONSTANTS
  BY2PG,  (* bytes in a page                                                    *)
  WORD    (* bytes in a word                                                    *)

Least(a, b)  == IF a < b THEN a ELSE b
ROUND(a, n)  == ((a + n - 1) \div n) * n
InPage       == 0..(BY2PG - 1)
NOTHING      == <<>>    \* a memory without a page

-----------------------------------------------------------------------------
(* Segments.                                                               *)

\* load_icode_mapper and spawn_mapper: a page of zeros, with len bytes of the file from
\* position src on at offset unless src is 0, takes the place of what is mapped at va.
map_page(mem, va, offset, src, len) ==
  LET page == [k \in InPage |-> IF src # 0 /\ k >= offset /\ k < offset + len
                                THEN src + k - offset ELSE 0]
  IN  [n \in DOMAIN mem \cup {va \div BY2PG} |-> IF n = va \div BY2PG THEN page ELSE mem[n]]

\* The calls of map_page that elf_load_seg makes for a segment: the rest of the page it
\* begins in, the pages of the file, and pages of zeros up to p_memsz.
SegmentCalls(ph) ==
  LET offset == ph.p_vaddr % BY2PG
      first  == Least(ph.p_filesz, BY2PG - offset)
      i0     == IF offset # 0 THEN first ELSE 0
      nfile  == (ph.p_filesz - i0 + BY2PG - 1) \div BY2PG
      i1     == i0 + nfile * BY2PG
      nzero  == IF i1 < ph.p_memsz THEN (ph.p_memsz - i1 + BY2PG - 1) \div BY2PG ELSE 0
      at(i, off, src, len) == [va |-> ph.p_vaddr + i, offset |-> off, src |-> src, len |-> len]
  IN  (IF offset # 0 THEN <<at(0, offset, ph.p_offset + 1, first)>> ELSE <<>>)
        \o [k \in 1..nfile |->
              LET i == i0 + (k - 1) * BY2PG
              IN  at(i, 0, ph.p_offset + i + 1, Least(ph.p_filesz - i, BY2PG))]
        \o [k \in 1..nzero |-> at(i1 + (k - 1) * BY2PG, 0, 0, 0)]

elf_load_seg(mem, ph) ==
  FoldLeft(LAMBDA m, c : map_page(m, c.va, c.offset, c.src, c.len), mem, SegmentCalls(ph))

\* load_icode, and the loop of spawn: phdrs are the program headers of type PT_LOAD.
load_icode(phdrs) == FoldLeft(elf_load_seg, NOTHING, phdrs)

-----------------------------------------------------------------------------
(* The first stack page of a program that is spawned.  lens are the        *)
(* lengths of the arguments; addresses are offsets in the page.            *)

Total(lens) == FoldLeft(LAMBDA tot, len : tot + len + 1, 0, lens)

Fits(lens) == ROUND(Total(lens), WORD) + WORD * (Len(lens) + 3) <= BY2PG

\* init_stack: the strings end the page, below them come args, a pointer for each and
\* one more, which is not null but points to the end of the last string; then argv and
\* argc, where the stack pointer is.
init_stack(lens) ==
  LET argc    == Len(lens)
      strings == BY2PG - Total(lens)
      args    == BY2PG - ROUND(Total(lens), WORD) - WORD * (argc + 1)
  IN  [sp   |-> args - 2 * WORD,
       argc |-> argc,
       argv |-> args,
       args |-> [i \in 1..(argc + 1) |->
                   IF i <= argc THEN strings + Total(SubSeq(lens, 1, i - 1)) ELSE BY2PG - 1]]
================================================================================
