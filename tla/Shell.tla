--------------------------------- MODULE Shell ---------------------------------
(***************************************************************************)
(* The pipelines of user/sh.c: the shell forks an env for the line, which  *)
(* forks one for what is right of each bar; each of them spawns its        *)
(* program, waits for it and for the env to its right, and exits.  What    *)
(* ties them together is the reference counts of the pages of the pipes    *)
(* (user/lib/pipe.c): they are what makes a reader see the end of the file *)
(* and a writer give up.                                                   *)
(*                                                                         *)
(* An env has the descriptors 0..3, of which only the ends of pipes are    *)
(* kept: NULL stands for the console, a file or nothing at all.  init has  *)
(* put the console on 0 and 1, so that pipe returns 2 and 3.  Every page   *)
(* that is mapped, unmapped or handed to a child is a step of its own;     *)
(* fork and spawn hand over the Fd pages, which are lower, before the      *)
(* pages of the pipes.                                                     *)
(***************************************************************************)
EXTENDS Integers, Sequences, FiniteSets

CONSTANTS
  N,      (* commands in a line, at most                                        *)
  BUF,    (* bytes that a pipe holds (BY2PIPE)                                  *)
  Output, (* how many bytes programs may want to write                          *)
  NULL

Command == 1..N
Sh(i)   == <<"sh", i>>      \* the env of sh.c for command i
Prog(i) == <<"prog", i>>    \* the env of its program
Proc    == {Sh(i) : i \in Command} \cup {Prog(i) : i \in Command}
Fd      == 0..3
Pipe    == 1..(N - 1)
R(k)    == <<"r", k>>       \* the Fd page of the read end of pipe k
W(k)    == <<"w", k>>       \* and of its write end
End     == {R(k) : k \in Pipe} \cup {W(k) : k \in Pipe}

ASSUME ShellAssumption ==
  /\ N \in Nat \ {0} /\ BUF \in Nat \ {0} /\ Output \subseteq Nat /\ IsFiniteSet(Output)
  /\ NULL \notin End

VARIABLES
  prompt,  (* the shell reads a line, or waits for the env of the line          *)
  pc,      (* where each env is                                                 *)
  todo,    (* the pages it has still to map, unmap or hand over                 *)
  fd,      (* fd[p][d]: the Fd page at descriptor d                             *)
  data,    (* data[p][d]: the pipe whose page is mapped in the window of d, or 0 *)
  right,   (* right[i]: rightpipe of Sh(i) is an env                            *)
  out,     (* out[i]: bytes that program i still wants to write                 *)
  reads,   (* reads[i]: it then reads to the end of the file                    *)
  buf,     (* bytes in each pipe                                                *)
  empty    (* history: a command of the line had no words                       *)

maps   == <<fd, data>>
prog   == <<out, reads, buf>>
shVars == <<prompt, pc, todo, maps, right, prog, empty>>

NoFd   == [d \in Fd |-> NULL]
NoData == [d \in Fd |-> 0]

Init ==
  /\ prompt = TRUE
  /\ pc = [p \in Proc |-> "off"] /\ todo = [p \in Proc |-> <<>>]
  /\ fd = [p \in Proc |-> NoFd] /\ data = [p \in Proc |-> NoData]
  /\ right = [i \in Command |-> FALSE]
  /\ out = [i \in Command |-> 0] /\ reads = [i \in Command |-> FALSE]
  /\ buf = [k \in Pipe |-> 0]
  /\ empty = FALSE

-----------------------------------------------------------------------------
(* Pages.                                                                  *)

\* The references to a page.
FdRefs(e)   == Cardinality({x \in Proc \X Fd : fd[x[1]][x[2]] = e})
PipeRefs(k) == Cardinality({x \in Proc \X Fd : data[x[1]][x[2]] = k})

\* A pipe_close that unmaps the pipe first.
closeDataFirst(d) == <<<<"data-", d, d>>, <<"fd-", d, d>>>>

Step == {"fd-", "fd+", "data-", "data+", "givefd", "givedata"} \X Fd \X Fd

\* What close, dup, close_all, and the sharing of fork and spawn do, page by page.
close(d)  == <<<<"fd-", d, d>>, <<"data-", d, d>>>>
dup(d, e) == close(e) \o <<<<"data+", d, e>>, <<"fd+", d, e>>>>
close_all == close(0) \o close(1) \o close(2) \o close(3)
share     == [i \in 1..4 |-> <<"givefd", i - 1, i - 1>>]
               \o [i \in 1..4 |-> <<"givedata", i - 1, i - 1>>]

\* The steps that are about a page of a pipe, with the descriptors F and windows D.
Moves(F, D, s) ==
  IF s[1] \in {"fd-", "fd+", "givefd"} THEN F[s[2]] # NULL ELSE D[s[2]] # 0
Rest(F, D, ss) ==
  LET I == {i \in DOMAIN ss : Moves(F, D, ss[i])} IN
  IF I = {} THEN <<>> ELSE SubSeq(ss, CHOOSE i \in I : \A j \in I : i <= j, Len(ss))

\* The env that p is making.
Child(p) == IF pc[p] = "fork" THEN Sh(p[2] + 1) ELSE Prog(p[2])

\* p does the next of its steps.
page(p) ==
  /\ todo[p] # <<>>
  /\ LET s == Head(todo[p])
         q == IF s[1] \in {"givefd", "givedata"} THEN Child(p) ELSE p
     IN  /\ fd' = CASE s[1] = "fd-"                 -> [fd EXCEPT ![p][s[2]] = NULL]
                    [] s[1] \in {"fd+", "givefd"}   -> [fd EXCEPT ![q][s[3]] = fd[p][s[2]]]
                    [] OTHER                        -> fd
         /\ data' = CASE s[1] = "data-"                 -> [data EXCEPT ![p][s[2]] = 0]
                      [] s[1] \in {"data+", "givedata"} -> [data EXCEPT ![q][s[3]] = data[p][s[2]]]
                      [] OTHER                          -> data
  /\ todo' = [todo EXCEPT ![p] = Rest(fd'[p], data'[p], Tail(@))]
  /\ UNCHANGED <<prompt, pc, right, prog, empty>>

\* p goes on at l and has the steps ss to do.
Goto(p, l, ss) ==
  /\ todo[p] = <<>>
  /\ pc' = [pc EXCEPT ![p] = l]
  /\ todo' = [todo EXCEPT ![p] = Rest(fd'[p], data'[p], ss)]

-----------------------------------------------------------------------------
(* The env of command i.                                                   *)

\* parsecmd.  A redirection replaces what is on descriptor d.
redirect(i, d) ==
  /\ pc[Sh(i)] = "parse" /\ fd[Sh(i)][d] # NULL
  /\ UNCHANGED maps
  /\ Goto(Sh(i), "parse", close(d))
  /\ UNCHANGED <<prompt, right, prog, empty>>

\* A syntax error, a file that cannot be opened, too many arguments, no pipe: exit.
parse_error(i) ==
  /\ pc[Sh(i)] = "parse"
  /\ UNCHANGED maps
  /\ Goto(Sh(i), "exit", close_all)
  /\ UNCHANGED <<prompt, right, prog, empty>>

\* What the env left of a bar does with the pipe, and the one to its right.
LeftEnd == dup(3, 1) \o close(3) \o close(2)

\* A right side that keeps the write end,
RightEndKept == dup(2, 0) \o close(2)

\* and the one there is.
RightEnd == dup(2, 0) \o close(2) \o close(3)

\* A bar: pipe makes a pipe, and fork a child which is handed every page.  When fork
\* fails, at its exofork, rightpipe is no env, and the command still writes to the pipe.
\* There is memory for the single mappings of fork and of dup.
fork(i) ==
  /\ pc[Sh(i)] = "parse" /\ i < N
  /\ fd' = [fd EXCEPT ![Sh(i)][2] = R(i), ![Sh(i)][3] = W(i)]
  /\ data' = [data EXCEPT ![Sh(i)][2] = i, ![Sh(i)][3] = i]
  /\ buf' = [buf EXCEPT ![i] = 0]
  /\ Goto(Sh(i), "fork", share) \/ Goto(Sh(i), "left", LeftEnd)
  /\ UNCHANGED <<prompt, right, out, reads, empty>>

\* The child runs, and parses the rest of the line when it has the read end on 0.
fork_done(i) ==
  /\ pc[Sh(i)] = "fork" /\ todo[Sh(i)] = <<>>
  /\ pc' = [pc EXCEPT ![Sh(i)] = "left", ![Sh(i + 1)] = "parse"]
  /\ todo' = [todo EXCEPT ![Sh(i)] = Rest(fd[Sh(i)], data[Sh(i)], LeftEnd),
                          ![Sh(i + 1)] = Rest(fd[Sh(i + 1)], data[Sh(i + 1)], RightEnd)]
  /\ right' = [right EXCEPT ![i] = TRUE]
  /\ UNCHANGED <<prompt, maps, prog, empty>>

\* runcmd, after parsecmd: without a word it returns, and the env exits.
Parsed(i) == pc[Sh(i)] \in {"parse", "left"}

no_words(i) ==
  /\ Parsed(i)
  /\ UNCHANGED maps
  /\ Goto(Sh(i), "exit", close_all)
  /\ empty' = TRUE
  /\ UNCHANGED <<prompt, right, prog>>

\* spawn: the program cannot be loaded, or its env is there and is handed every page,
spawn(i) ==
  /\ Parsed(i)
  /\ UNCHANGED maps
  /\ Goto(Sh(i), "spawn", share) \/ Goto(Sh(i), "wait", close_all)
  /\ UNCHANGED <<prompt, right, prog, empty>>

\* and runs, or is destroyed when a page could not be handed over.  The env closes what
\* it has.
spawn_done(i) ==
  /\ pc[Sh(i)] = "spawn" /\ todo[Sh(i)] = <<>>
  /\ todo' = [todo EXCEPT ![Sh(i)] = Rest(fd[Sh(i)], data[Sh(i)], close_all)]
  /\ \/ /\ pc' = [pc EXCEPT ![Sh(i)] = "wait", ![Prog(i)] = "run"]
        /\ \E n \in Output, b \in BOOLEAN :
             out' = [out EXCEPT ![i] = n] /\ reads' = [reads EXCEPT ![i] = b]
        /\ UNCHANGED maps
     \/ /\ pc' = [pc EXCEPT ![Sh(i)] = "wait"]
        /\ fd' = [fd EXCEPT ![Prog(i)] = NoFd] /\ data' = [data EXCEPT ![Prog(i)] = NoData]
        /\ UNCHANGED <<out, reads>>
  /\ UNCHANGED <<prompt, right, buf, empty>>

\* A runcmd that does not wait for the right side,
WaitedProg(i) == pc[Prog(i)] = "off"

\* and the one there is: it waits for its program and for the env of the right side.
Waited(i) == pc[Prog(i)] = "off" /\ (right[i] => pc[Sh(i + 1)] = "off")

wait(i) ==
  /\ pc[Sh(i)] = "wait" /\ Waited(i)
  /\ UNCHANGED maps
  /\ Goto(Sh(i), "exit", close_all)
  /\ UNCHANGED <<prompt, right, prog, empty>>

\* exit, when close_all is done: env_free drops what is left.
exit(p) ==
  /\ pc[p] = "exit"
  /\ fd' = [fd EXCEPT ![p] = NoFd] /\ data' = [data EXCEPT ![p] = NoData]
  /\ Goto(p, "off", <<>>)
  /\ right' = IF p[1] = "sh" THEN [right EXCEPT ![p[2]] = FALSE] ELSE right
  /\ UNCHANGED <<prompt, prog, empty>>

-----------------------------------------------------------------------------
(* Programs: they write, then they may read to the end of the file.        *)

\* _pipe_is_closed, for the end at descriptor d of p.
Closed(p, d) == FdRefs(fd[p][d]) = PipeRefs(data[p][d])

\* pipe_write: a byte, or the rest is given up.  The console and a file take it all.
write(i) ==
  LET p == Prog(i)
      k == data[p][1]
  IN
  /\ pc[p] = "run" /\ out[i] > 0
  /\ \/ /\ k # 0 /\ buf[k] < BUF
        /\ buf' = [buf EXCEPT ![k] = @ + 1]
        /\ out' = [out EXCEPT ![i] = @ - 1]
     \/ /\ k # 0 => buf[k] = BUF /\ Closed(p, 1)
        /\ out' = [out EXCEPT ![i] = 0]
        /\ UNCHANGED buf
  /\ UNCHANGED <<prompt, pc, todo, maps, right, reads, empty>>

\* pipe_read: a byte, or the end of the file.  The console and a file come to an end.
read(i) ==
  LET p == Prog(i)
      k == data[p][0]
  IN
  /\ pc[p] = "run" /\ out[i] = 0 /\ reads[i]
  /\ \/ /\ k # 0 /\ buf[k] > 0
        /\ buf' = [buf EXCEPT ![k] = @ - 1]
        /\ UNCHANGED reads
     \/ /\ k # 0 => buf[k] = 0 /\ Closed(p, 0)
        /\ reads' = [reads EXCEPT ![i] = FALSE]
        /\ UNCHANGED buf
  /\ UNCHANGED <<prompt, pc, todo, maps, right, out, empty>>

\* A program exits when it is done, or before.
Quit(i) ==
  /\ pc[Prog(i)] = "run"
  /\ UNCHANGED maps
  /\ Goto(Prog(i), "exit", close_all)
  /\ out' = [out EXCEPT ![i] = 0] /\ reads' = [reads EXCEPT ![i] = FALSE]
  /\ UNCHANGED <<prompt, right, buf, empty>>

Done(i)   == out[i] = 0 /\ ~reads[i]
finish(i) == Done(i) /\ Quit(i)
abort(i)  == ~Done(i) /\ Quit(i)

-----------------------------------------------------------------------------
(* The shell.                                                              *)

\* main reads a line and forks an env for it, when nothing of an earlier line is left,
main_fork ==
  /\ prompt /\ \A p \in Proc : pc[p] = "off"
  /\ prompt' = FALSE /\ empty' = FALSE
  /\ pc' = [pc EXCEPT ![Sh(1)] = "parse"]
  /\ UNCHANGED <<todo, maps, right, prog>>

\* and waits for it.
main_wait ==
  /\ ~prompt /\ pc[Sh(1)] = "off"
  /\ prompt' = TRUE
  /\ UNCHANGED <<pc, todo, maps, right, prog, empty>>

ShStep(i) ==
  \/ page(Sh(i)) \/ (\E d \in {0, 1} : redirect(i, d)) \/ parse_error(i)
  \/ fork(i) \/ fork_done(i)
  \/ no_words(i) \/ spawn(i) \/ spawn_done(i) \/ wait(i) \/ exit(Sh(i))

ProgStep(i) ==
  page(Prog(i)) \/ write(i) \/ read(i) \/ finish(i) \/ exit(Prog(i))

Next ==
  \/ main_fork \/ main_wait
  \/ \E i \in Command : ShStep(i) \/ ProgStep(i) \/ abort(i)

\* The scheduler runs every env that is runnable again and again: an env that waits or
\* retries finds out.  A program need not abort, and a line need not be typed.
ShellSpec ==
  /\ Init /\ [][Next]_shVars
  /\ WF_shVars(main_wait)
  /\ \A i \in Command : WF_shVars(ShStep(i)) /\ WF_shVars(ProgStep(i))

-----------------------------------------------------------------------------
(* Properties.                                                             *)

\* _pipe_is_closed compares two counts.  Although fork and spawn count the ends of a
\* child before its pipes, and close and dup change them one by one, a program that
\* finds them equal has lost the other end: no env has it any more.
VerdictRight ==
  \A i \in Command, d \in {0, 1} :
    LET p == Prog(i)
        e == fd[p][d]
    IN  pc[p] = "run" /\ e # NULL /\ Closed(p, d) =>
          FdRefs(IF e[1] = "r" THEN W(e[2]) ELSE R(e[2])) = 0

\* The shell prompts when all envs of the line have gone, whatever fails or quits on the
\* way; only a command without words is not waited for.
WaitsForAll == prompt /\ ~empty => \A p \in Proc : pc[p] = "off"

\* Every line comes to an end: no end of a pipe stays behind in an env that waits, so
\* that each reader sees the end of the file and each writer can give up.
PipelineEnds == ~prompt ~> prompt
-----------------------------------------------------------------------------
(* An inductive invariant.                                                 *)

\* Where the envs of a line can be: an env that still parses is the last of the line, a
\* program runs while its env waits, and as long as no command was without words each
\* env is still there that has to wait for the one to its right.
LineAt(i) ==
  /\ pc[Sh(i)] # "run" /\ pc[Prog(i)] \in {"off", "run", "exit"}
  /\ pc[Sh(i)] = "fork" => i < N
  /\ right[i] => pc[Sh(i)] # "off"
  /\ pc[Prog(i)] # "off" => pc[Sh(i)] = "wait"
  /\ pc[Sh(i)] \in {"parse", "fork"} => \A j \in Command : j > i => pc[Sh(j)] = "off"
  /\ ~empty /\ i < N /\ pc[Sh(i + 1)] # "off" =>
       right[i] /\ pc[Sh(i)] \in {"left", "spawn", "wait"}

LineInv ==
  /\ prompt \in BOOLEAN /\ empty \in BOOLEAN
  /\ pc \in [Proc -> {"off", "parse", "fork", "left", "spawn", "wait", "run", "exit"}]
  /\ right \in [Command -> BOOLEAN]
  /\ \A i \in Command : LineAt(i)
  /\ prompt => pc[Sh(1)] = "off"

\* In the following an env is at l, has the steps T to do, the ends F and the windows D.

\* The next of the steps T is the k-th of L.
From(L, k)  == SubSeq(L, k, Len(L))
At(T, L, k) == k \in 1..(Len(L) + 1) /\ T = From(L, k)

\* F has at most these ends, one set for each descriptor.
Has(F, s0, s1, s2, s3) ==
  /\ F[0] \in {NULL} \cup s0 /\ F[1] \in {NULL} \cup s1
  /\ F[2] \in {NULL} \cup s2 /\ F[3] \in {NULL} \cup s3

\* The page of a pipe is mapped wherever an end of it is.
Backed(F, D) == \A d \in Fd : F[d] # NULL => D[d] = F[d][2]

\* Descriptors are closed by the list L: a pipe is unmapped when its Fd page is gone.
Closes(T, F, L, k) ==
  At(T, L, k) /\ (k \in DOMAIN L /\ L[k][1] = "data-" => F[L[k][2]] = NULL)

\* The env right of a bar moves the read end from 2 to 0.
Joins(i, T, F, D, k) ==
  /\ Closes(T, F, RightEnd, k)
  /\ Has(F, IF k = 1 THEN End ELSE {R(i - 1)}, {}, {R(i - 1)}, {W(i - 1)})
  /\ k \in {2, 3, 4} => F[0] = NULL
  /\ k = 4 /\ F[2] # NULL => D[0] = F[2][2]
  /\ k > 5 => F[2] = NULL
  /\ k > 7 => F[3] = NULL

\* The env left of it moves the write end from 3 to 1.
Leaves(i, T, F, D, k) ==
  /\ Closes(T, F, LeftEnd, k)
  /\ Has(F, {R(i - 1)}, {W(i)}, {R(i)}, {W(i)})
  /\ k \in {2, 3, 4} => F[1] = NULL
  /\ k = 4 /\ F[3] # NULL => D[1] = F[3][2]
  /\ k > 5 => F[3] = NULL
  /\ k > 7 => F[2] = NULL

\* What F has is handed to a child with G and E, the Fd pages first.
Shares(T, F, G, E, k) ==
  /\ At(T, share, k)
  /\ \A d \in Fd :
       /\ G[d] = IF d + 1 < k THEN F[d] ELSE NULL
       /\ d + 5 < k /\ G[d] # NULL => E[d] = G[d][2]

\* What the env of command i has, and what it has still to do,
ShFits(i, l, T, F, D, G, E) ==
  /\ l = "parse" =>
       \/ \E k \in 1..9 : Joins(i, T, F, D, k)
       \/ Has(F, {R(i - 1)}, {}, {}, {}) /\ \E d \in {0, 1}, k \in 1..3 : Closes(T, F, close(d), k)
  /\ l = "fork" =>
       Has(F, {R(i - 1)}, {}, {R(i)}, {W(i)}) /\ \E k \in 1..9 : Shares(T, F, G, E, k)
  /\ l = "left" => \E k \in 1..9 : Leaves(i, T, F, D, k)
  /\ l = "spawn" =>
       Has(F, {R(i - 1)}, {W(i)}, {}, {}) /\ \E k \in 1..9 : Shares(T, F, G, E, k)
  /\ l \in {"wait", "exit"} => \E k \in 1..9 : Closes(T, F, close_all, k)

\* and its program.
ProgFits(i, l, T, F) ==
  /\ l = "run" => T = <<>> /\ Has(F, {R(i - 1)}, {W(i)}, {}, {})
  /\ l = "exit" => \E k \in 1..9 : Closes(T, F, close_all, k)

ShHas(i) ==
  LET p == Sh(i)
      q == Child(p)
  IN  ShFits(i, pc[p], todo[p], fd[p], data[p], fd[q], data[q])

ProgHas(i) == ProgFits(i, pc[Prog(i)], todo[Prog(i)], fd[Prog(i)])

\* p is being made: the page steps of a fork or a spawn are under way.
Made(p) == \E i \in Command : pc[Sh(i)] \in {"fork", "spawn"} /\ p = Child(Sh(i))

\* An env that is not there has nothing.
Outside(p) ==
  /\ pc[p] = "off" => todo[p] = <<>>
  /\ ~Made(p) => (pc[p] = "off" => fd[p] = NoFd) /\ Backed(fd[p], data[p])

EndsInv ==
  /\ todo \in [Proc -> Seq(Step)]
  /\ fd \in [Proc -> [Fd -> End \cup {NULL}]]
  /\ data \in [Proc -> [Fd -> Pipe \cup {0}]]
  /\ \A i \in Command : ShHas(i) /\ ProgHas(i)
  /\ \A p \in Proc : Outside(p)

ShellInv == LineInv /\ EndsInv
================================================================================
