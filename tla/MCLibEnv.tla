------------------------------- MODULE MCLibEnv -------------------------------
(* Instances of LibEnv for TLC. *)
EXTENDS LibEnv

\* rv32_init creates user_icode and fs_serv with priority 1; where one env gets 2,
\* a time slice can outlast one tick.
Boot2 == <<1, 1>>
Boot3 == <<1, 2, 1>>

-----------------------------------------------------------------------------
(* What env_create and spawn put into the memory of the envs: ElfLoad      *)
(* against what the program headers and the arguments ask for, for all     *)
(* small segments and argument lists, with pages of 4 bytes and stack      *)
(* pages of 16.                                                            *)
Elf   == INSTANCE ElfLoad WITH BY2PG <- 4, WORD <- 2
Stack == INSTANCE ElfLoad WITH BY2PG <- 16, WORD <- 2

Segment(va, offset, filesz, memsz) ==
  [p_vaddr |-> va, p_offset |-> offset, p_filesz |-> filesz, p_memsz |-> memsz]

\* The segment is there, its bytes of the file first and then zeros.
Loaded(mem, ph) ==
  \A k \in 0..(ph.p_memsz - 1) :
    LET x == ph.p_vaddr + k IN
    /\ x \div 4 \in DOMAIN mem
    /\ mem[x \div 4][x % 4] = (IF k < ph.p_filesz THEN ph.p_offset + k + 1 ELSE 0)

\* Programs as user.lds lays them out, code and data each from the start of a page on,
\* are loaded whole: no segment overwrites a page of the other and none is short.
ASSUME ProgramLoaded ==
  \A filesz1, filesz2 \in 0..9, zeros \in 0..6 :
    LET code == Segment(4, 5, filesz1, filesz1)
        data == Segment(4 + 4 * ((filesz1 + 3) \div 4), 5 + filesz1, filesz2, filesz2 + zeros)
        mem  == Elf!load_icode(<<code, data>>)
    IN  Loaded(mem, code) /\ Loaded(mem, data)

\* A segment that starts inside a page is loaded only if the file fills that page or there
\* is nothing to clear: otherwise the first page of zeros takes the place of the page
\* with the bytes of the file.
ASSUME ShortSegmentLost ==
  \A va \in 4..7, filesz \in 1..9, zeros \in 0..6 :
    LET ph == Segment(va, 0, filesz, filesz + zeros) IN
    Loaded(Elf!load_icode(<<ph>>), ph)
      <=> va % 4 = 0 \/ filesz >= 4 - (va % 4) \/ zeros = 0

\* When init_stack finds room, the stack pointer is in the page, the two words at it, the
\* pointers and the strings follow one another without overlap, each pointer leads to
\* its string, and the one after the last leads to a zero byte.
ASSUME StackLaidOut ==
  \A lens \in UNION {[1..n -> 0..3] : n \in 0..3} :
    LET s == Stack!init_stack(lens)
        n == Len(lens)
    IN  Stack!Fits(lens) =>
          /\ 0 <= s.sp /\ s.sp + 4 = s.argv /\ s.sp % 2 = 0
          /\ \A i \in 1..n : /\ s.args[i] >= s.argv + 2 * (n + 1)
                             /\ s.args[i] + lens[i] + 1 =
                                  (IF i < n THEN s.args[i + 1] ELSE 16)
          /\ s.args[n + 1] = 15
================================================================================
