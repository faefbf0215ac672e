---------------------------------- MODULE Pipe ----------------------------------
(***************************************************************************)
(* A pipe shared by several envs: user/lib/pipe.c with the close, dup and  *)
(* close_all of user/lib/fd.c and exit of user/lib/libos.c.                *)
(*                                                                         *)
(* The pipe is plain shared memory.  A step is one syscall or the loads    *)
(* and stores between which a timer interrupt can make a difference; the   *)
(* interrupt (Switch) may come between any two.  "Closed" is deduced from  *)
(* the reference counts of three pages: the read Fd, the write Fd and the  *)
(* struct Pipe.  The library has no lock, so the model lets one env at a   *)
(* time be inside read and one inside write, as in the pipelines of sh;    *)
(* any number of envs hold, dup and close descriptors meanwhile.  The      *)
(* forks that handed the descriptors on are over: fork shares the Fd pages *)
(* before the data pages, and the counts mislead while it does.            *)
(***************************************************************************)
EXTENDS Integers, Sequences, FiniteSets

CONSTANTS
  Env,       (* the envs that may come to share the pipe                      *)
  Slot,      (* file descriptor numbers, 1..n                                 *)
  BY2PIPE,   (* size of the buffer                                            *)
  POSMOD,    (* p_rpos and p_wpos are u_int: they count modulo POSMOD         *)
  Orders,    (* orders in which a build may execute p_pos++ and the access to *)
             (* p_buf, which C leaves open.  "buf": the access comes first    *)
  MaxBytes,  (* bound: bytes written in all                                   *)
  Holders,   (* Holders[e][s]: what env e holds in slot s at the start        *)
  NULL

ASSUME PipeAssumption ==
  /\ BY2PIPE \in Nat \ {0} /\ MaxBytes \in Nat
  /\ POSMOD \in Nat /\ POSMOD > BY2PIPE /\ POSMOD % BY2PIPE = 0
  /\ IsFiniteSet(Env) /\ IsFiniteSet(Slot) /\ Slot = 1..Cardinality(Slot)
  /\ Orders \subseteq {"buf", "pos"}
  /\ NULL \notin Env \cup {"R", "W"} /\ 1 \in Slot
  /\ Holders \in [Env -> [Slot -> {"R", "W", NULL}]]

VARIABLES
  build,     (* the orders the compiler has chosen for pipe_read, pipe_write  *)
  p_rpos, p_wpos, p_buf,   (* struct Pipe                                     *)
  fd,        (* fd[e][s]: which Fd page is mapped at slot s, "R", "W" or NULL *)
  data,      (* data[e][s]: whether the Pipe page is mapped at slot s         *)
  cur,       (* the env that has the CPU                                      *)
  pc,        (* where env e is; "none": it does not exist                     *)
  loc,       (* its locals: slot, target slot, bytes done, bytes wanted, the  *)
             (* two counts of _pipe_is_closed, and where the call continues   *)
  stale,     (* stale[e]: e has saved env_runs in runs and env_runs changed   *)
  written,   (* how many bytes writers have put in; the k-th byte is k        *)
  got        (* the bytes readers have taken out                              *)

shared == <<build, p_rpos, p_wpos, p_buf, written, got>>
pages  == <<fd, data>>
pvars  == <<shared, pages, cur, pc, loc, stale>>

Loc0 == [slot |-> 1, to |-> 1, i |-> 0, n |-> 0, fdref |-> 0, pref |-> 0, ret |-> "user"]

\* pipe() and the forks after it are over; each env holds the ends of Holders.
Init ==
  /\ build \in [read : Orders, write : Orders]
  /\ p_rpos = 0 /\ p_wpos = 0 /\ p_buf = [k \in 0..(BY2PIPE - 1) |-> 0]
  /\ fd = Holders
  /\ data = [e \in Env |-> [s \in Slot |-> Holders[e][s] # NULL]]
  /\ pc = [e \in Env |-> IF \E s \in Slot : Holders[e][s] # NULL THEN "user" ELSE "none"]
  /\ cur \in {e \in Env : pc[e] # "none"}
  /\ loc = [e \in Env |-> Loc0]
  /\ stale = [e \in Env |-> FALSE]
  /\ written = 0 /\ got = <<>>

\* pageref: how many slots map a page, which is its pp_ref.
pageref(table, page) == Cardinality({m \in Env \X Slot : table[m[1]][m[2]] = page})
FdRef(end) == pageref(fd, end)
PipeRef    == pageref(data, TRUE)

\* An env that can be given the CPU.
Ready(e) == pc[e] # "none"

\* The scheduler dispatches e: env_run increments e's env_runs, which matters to
\* an e that has saved it.
Dispatch(e) ==
  /\ Ready(e)
  /\ cur' = e
  /\ stale' = [stale EXCEPT ![e] = pc[e] \in {"c_fd", "c_pipe", "c_cmp"}]

\* A timer interrupt.
Switch(e) == Dispatch(e) /\ UNCHANGED <<shared, pages, pc, loc>>

At(e, where) == cur = e /\ pc[e] = where

Goto(e, where, l) ==
  /\ pc' = [pc EXCEPT ![e] = where]
  /\ loc' = [loc EXCEPT ![e] = l]
  /\ UNCHANGED cur

Reading == {"r_check", "r_take", "r_end"}
Writing == {"w_check", "w_put", "w_end"}
Checking == {"c_runs", "c_fd", "c_pipe", "c_cmp", "yield"}
InCall(e, calls) ==
  \/ pc[e] \in calls
  \/ pc[e] \in Checking /\ loc[e].ret \in calls

-----------------------------------------------------------------------------
(* read and write.                                                         *)

Begin(e, end, where, calls, n) ==
  /\ At(e, "user")
  /\ \A f \in Env : ~InCall(f, calls)
  /\ \E s \in Slot : /\ fd[e][s] = end /\ data[e][s]
                     /\ Goto(e, where, [Loc0 EXCEPT !.slot = s, !.n = n, !.ret = where])
  /\ UNCHANGED <<shared, pages, stale>>

Read(e, n)  == Begin(e, "R", "r_check", Reading, n)
Write(e, n) == written + n <= MaxBytes /\ Begin(e, "W", "w_check", Writing, n)

Return(e) == Goto(e, "user", Loc0)

\* pipe_is_closed called by the program itself, on either end.
pipe_is_closed(e) ==
  /\ At(e, "user")
  /\ \E s \in Slot : fd[e][s] # NULL /\ Goto(e, "c_runs", [Loc0 EXCEPT !.slot = s])
  /\ UNCHANGED <<shared, pages, stale>>

\* The loop head of pipe_read.
r_check(e) ==
  /\ At(e, "r_check")
  /\ IF loc[e].i = loc[e].n THEN Return(e)
     ELSE IF p_rpos < p_wpos THEN Goto(e, "r_take", loc[e])
     ELSE IF loc[e].i > 0 THEN Return(e)
     ELSE Goto(e, "c_runs", loc[e])
  /\ UNCHANGED <<shared, pages, stale>>

\* A pipe_write that takes a full buffer for one with room.
w_checkOff(e) ==
  /\ At(e, "w_check")
  /\ IF loc[e].i = loc[e].n THEN Return(e)
     ELSE IF (p_wpos - p_rpos) % POSMOD <= BY2PIPE THEN Goto(e, "w_put", loc[e])
     ELSE Goto(e, "c_runs", loc[e])
  /\ UNCHANGED <<shared, pages, stale>>

\* The loop head of pipe_write.  The subtraction is unsigned.
w_check(e) ==
  /\ At(e, "w_check")
  /\ IF loc[e].i = loc[e].n THEN Return(e)
     ELSE IF (p_wpos - p_rpos) % POSMOD < BY2PIPE THEN Goto(e, "w_put", loc[e])
     ELSE Goto(e, "c_runs", loc[e])
  /\ UNCHANGED <<shared, pages, stale>>

\* rbuf[i] = p_buf[p_rpos++ % BY2PIPE], as one access to p_buf and one to p_rpos,
\* the first of the two here and the second in r_end.
r_take(e) ==
  /\ At(e, "r_take")
  /\ IF build.read = "buf"
     THEN got' = Append(got, p_buf[p_rpos % BY2PIPE]) /\ UNCHANGED p_rpos
     ELSE p_rpos' = (p_rpos + 1) % POSMOD /\ UNCHANGED got
  /\ Goto(e, "r_end", loc[e])
  /\ UNCHANGED <<build, p_wpos, p_buf, written, pages, stale>>

\* The register that holds the old p_rpos is p_rpos - 1 here.
r_end(e) ==
  /\ At(e, "r_end")
  /\ IF build.read = "buf"
     THEN p_rpos' = (p_rpos + 1) % POSMOD /\ UNCHANGED got
     ELSE got' = Append(got, p_buf[(p_rpos - 1) % BY2PIPE]) /\ UNCHANGED p_rpos
  /\ Goto(e, "r_check", [loc[e] EXCEPT !.i = @ + 1])
  /\ UNCHANGED <<build, p_wpos, p_buf, written, pages, stale>>

\* p_buf[p_wpos++ % BY2PIPE] = wbuf[i], in the same way.
w_put(e) ==
  /\ At(e, "w_put")
  /\ IF build.write = "buf"
     THEN p_buf' = [p_buf EXCEPT ![p_wpos % BY2PIPE] = written + 1] /\ UNCHANGED p_wpos
     ELSE p_wpos' = (p_wpos + 1) % POSMOD /\ UNCHANGED p_buf
  /\ Goto(e, "w_end", loc[e])
  /\ UNCHANGED <<build, p_rpos, written, got, pages, stale>>

w_end(e) ==
  /\ At(e, "w_end")
  /\ IF build.write = "buf"
     THEN p_wpos' = (p_wpos + 1) % POSMOD /\ UNCHANGED p_buf
     ELSE p_buf' = [p_buf EXCEPT ![(p_wpos - 1) % BY2PIPE] = written + 1] /\ UNCHANGED p_wpos
  /\ written' = written + 1
  /\ Goto(e, "w_check", [loc[e] EXCEPT !.i = @ + 1])
  /\ UNCHANGED <<build, p_rpos, got, pages, stale>>

-----------------------------------------------------------------------------
(* _pipe_is_closed, called by read and write.                              *)

c_runs(e) ==
  /\ At(e, "c_runs")
  /\ stale' = [stale EXCEPT ![e] = FALSE]
  /\ Goto(e, "c_fd", loc[e])
  /\ UNCHANGED <<shared, pages>>

c_fd(e) ==
  /\ At(e, "c_fd")
  /\ Goto(e, "c_pipe", [loc[e] EXCEPT !.fdref = FdRef(fd[e][loc[e].slot])])
  /\ UNCHANGED <<shared, pages, stale>>

c_pipe(e) ==
  /\ At(e, "c_pipe")
  /\ Goto(e, "c_cmp", [loc[e] EXCEPT !.pref = PipeRef])
  /\ UNCHANGED <<shared, pages, stale>>

\* A _pipe_is_closed that does not look at env_runs.
ClosedNoRuns(e) == At(e, "c_cmp") /\ loc[e].fdref = loc[e].pref

\* The verdict that read or write acts on.
Closed(e) == At(e, "c_cmp") /\ ~stale[e] /\ loc[e].fdref = loc[e].pref

\* Retry when env_runs has changed.  pipe_is_closed returns either way; read and
\* write return when the pipe is closed and yield when it is not.
c_cmp(e) ==
  /\ At(e, "c_cmp")
  /\ IF stale[e] THEN Goto(e, "c_runs", [loc[e] EXCEPT !.fdref = 0, !.pref = 0])
     ELSE IF Closed(e) \/ loc[e].ret = "user" THEN Return(e)
     ELSE Goto(e, "yield", [loc[e] EXCEPT !.fdref = 0, !.pref = 0])
  /\ stale' = [stale EXCEPT ![e] = FALSE]
  /\ UNCHANGED <<shared, pages>>

\* A yield that may pick an env that does not exist.
yieldToAny(e) ==
  /\ At(e, "yield")
  /\ pc' = [pc EXCEPT ![e] = loc[e].ret]
  /\ cur' \in Env
  /\ UNCHANGED <<shared, pages, loc, stale>>

\* syscall_yield, then back to the head of the inner loop.
yield(e) ==
  /\ At(e, "yield")
  /\ pc' = [pc EXCEPT ![e] = loc[e].ret]
  /\ \E f \in Env : /\ Dispatch(f)
                    /\ f = e => \A g \in Env \ {e} : ~Ready(g)
  /\ UNCHANGED <<shared, pages, loc>>

-----------------------------------------------------------------------------
(* close, dup and exit.                                                    *)

\* close(s) on behalf of ret: pipe_close unmaps the Fd page, then the data page
\* (close2); the second unmapping of the Fd page by fd_close changes nothing.
CloseFd(e, s, l) ==
  /\ fd' = [fd EXCEPT ![e][s] = NULL]
  /\ Goto(e, "close2", l)
  /\ UNCHANGED <<shared, data, stale>>

Close(e) ==
  /\ At(e, "user")
  /\ \E s \in Slot : /\ fd[e][s] # NULL
                     /\ CloseFd(e, s, [Loc0 EXCEPT !.to = s])

close2(e) ==
  /\ At(e, "close2")
  /\ data' = [data EXCEPT ![e][loc[e].to] = FALSE]
  /\ Goto(e, loc[e].ret, IF loc[e].ret = "user" THEN Loc0 ELSE loc[e])
  /\ UNCHANGED <<shared, fd, stale>>

\* dup(old, new): close new if it is open, map the data page, map the Fd page.  The first
\* of the two mappings may need a page table and find no memory: dup returns, and there
\* is nothing of new to unmap.  The second has its table, the one of old's Fd page.
Dup(e) ==
  /\ At(e, "user")
  /\ \E old, new \in Slot :
       /\ old # new /\ fd[e][old] # NULL
       /\ LET l == [Loc0 EXCEPT !.slot = old, !.to = new, !.ret = "dup_data"] IN
          IF fd[e][new] # NULL THEN CloseFd(e, new, l)
          ELSE Goto(e, "dup_data", l) /\ UNCHANGED <<shared, pages, stale>>

dup_data(e) ==
  /\ At(e, "dup_data")
  /\ \/ /\ data' = [data EXCEPT ![e][loc[e].to] = data[e][loc[e].slot]]
        /\ Goto(e, "dup_fd", loc[e])
     \/ Return(e) /\ UNCHANGED data
  /\ UNCHANGED <<shared, fd, stale>>

dup_fd(e) ==
  /\ At(e, "dup_fd")
  /\ fd' = [fd EXCEPT ![e][loc[e].to] = fd[e][loc[e].slot]]
  /\ Return(e)
  /\ UNCHANGED <<shared, data, stale>>

\* exit(): close_all closes the open slots in order, then the env is destroyed.
Exit(e) ==
  /\ At(e, "user") \/ At(e, "exit")
  /\ LET open == {s \in Slot : fd[e][s] # NULL} IN
     \/ \E s \in open : /\ \A t \in open : s <= t
                        /\ CloseFd(e, s, [Loc0 EXCEPT !.to = s, !.ret = "exit"])
     \/ /\ open = {}
        /\ pc' = [pc EXCEPT ![e] = "none"]
        /\ loc' = [loc EXCEPT ![e] = Loc0]
        /\ \E f \in Env \ {e} : Dispatch(f)
        /\ UNCHANGED <<shared, pages>>

-----------------------------------------------------------------------------
Progress(e) ==
  \/ r_check(e) \/ r_take(e) \/ r_end(e)
  \/ w_check(e) \/ w_put(e) \/ w_end(e)
  \/ c_runs(e) \/ c_fd(e) \/ c_pipe(e) \/ c_cmp(e) \/ yield(e)
  \/ close2(e) \/ dup_data(e) \/ dup_fd(e)
  \/ At(e, "exit") /\ Exit(e)

UserCall(e) ==
  \/ \E n \in 1..2 : Read(e, n) \/ Write(e, n)
  \/ pipe_is_closed(e) \/ Close(e) \/ Dup(e)
  \/ At(e, "user") /\ Exit(e)

PipeNext == \E e \in Env : Switch(e) \/ Progress(e) \/ UserCall(e)

PipeSpec == Init /\ [][PipeNext]_pvars

-----------------------------------------------------------------------------
(* Properties.                                                             *)

PipeTypeOK ==
  /\ build \in [read : Orders, write : Orders]
  /\ p_rpos \in 0..(POSMOD - 1) /\ p_wpos \in 0..(POSMOD - 1)
  /\ p_buf \in [0..(BY2PIPE - 1) -> Nat]
  /\ fd \in [Env -> [Slot -> {"R", "W", NULL}]]
  /\ data \in [Env -> [Slot -> BOOLEAN]]
  /\ cur \in Env /\ Ready(cur)
  /\ pc \in [Env -> Reading \cup Writing \cup Checking \cup
                     {"none", "user", "close2", "dup_data", "dup_fd", "exit"}]
  /\ loc \in [Env -> [slot : Nat \ {0}, to : Slot, i : Nat, n : Nat, fdref : Nat, pref : Nat,
                      ret : {"user", "r_check", "w_check", "dup_data", "exit"}]]
  /\ stale \in [Env -> BOOLEAN]
  /\ written \in Nat /\ got \in Seq(Nat)

\* _pipe_is_closed: "Return 1 if pipe is closed."  When a reader concludes that the
\* pipe is closed no write end is open anywhere, and the other way round, although
\* the counts are read one by one while other envs dup and close.
ClosedIsClosed ==
  \A e \in Env : Closed(e) =>
    FdRef(IF fd[e][loc[e].slot] = "R" THEN "W" ELSE "R") = 0

\* The bytes come out as they went in, none lost, repeated or stale, and the
\* buffer never holds more than it can, while reads, writes, dups, closes and exits
\* of several envs interleave.  It takes a build that accesses p_buf before it moves
\* the position: the library has no lock and no barrier to enforce it.
Fifo ==
  build = [read |-> "buf", write |-> "buf"] =>
    /\ \A k \in DOMAIN got : got[k] = k
    /\ Len(got) <= written /\ written <= Len(got) + BY2PIPE

\* pipe_read: "The return value must be greater than 0, unless the pipe is closed
\* and nothing has been written since the last read."
ZeroMeansDrained ==
  [][\A e \in Env : Closed(e) /\ loc[e].ret = "r_check" /\ pc'[e] = "user"
       => Len(got) = written]_pvars

-----------------------------------------------------------------------------
(* The inductive invariant behind ClosedIsClosed (proved in Pipe_proofs).  *)

\* An Fd page is never mapped without the Pipe page of its slot: close unmaps the
\* Fd page first, dup maps it last.
Backed == \A e \in Env, s \in Slot : fd[e][s] # NULL => data[e][s]

\* What the call of an env that is at where with locals l has established about
\* the env's slots, f and d of fd and data.
Established(f, d, where, l) ==
  /\ where \in Reading \cup Writing \cup Checking =>
       l.slot \in Slot /\ f[l.slot] # NULL /\ l.ret \in {"user", "r_check", "w_check"}
  /\ where = "close2" => f[l.to] = NULL /\ l.ret \in {"user", "dup_data", "exit"}
  /\ where = "dup_data" \/ (where = "close2" /\ l.ret = "dup_data") =>
       l.slot \in Slot /\ l.slot # l.to /\ f[l.slot] # NULL /\ f[l.to] = NULL
  /\ where = "dup_fd" => l.slot \in Slot /\ f[l.slot] # NULL /\ d[l.to]

CallsHold == \A e \in Env : Established(fd[e], data[e], pc[e], loc[e])

\* Counts that no dispatch separates from the check of env_runs are those of now.
Fresh ==
  \A e \in Env : cur = e /\ ~stale[e] =>
    /\ pc[e] \in {"c_pipe", "c_cmp"} => loc[e].fdref = FdRef(fd[e][loc[e].slot])
    /\ pc[e] = "c_cmp" => loc[e].pref = PipeRef

PipeInv == PipeTypeOK /\ Backed /\ CallsHold /\ Fresh

-----------------------------------------------------------------------------
(* The inductive invariant behind Fifo.                                    *)

\* One env at a time is in read and one in write, _pipe_is_closed included.
Turns ==
  /\ \A e \in Env : /\ pc[e] \in Reading => loc[e].ret = "r_check"
                    /\ pc[e] \in Writing => loc[e].ret = "w_check"
  /\ \A e, f \in Env : /\ InCall(e, Reading) /\ InCall(f, Reading) => e = f
                       /\ InCall(e, Writing) /\ InCall(f, Writing) => e = f

\* The bytes that p_rpos has passed: a reader at r_end has its byte already.
Taken == Len(got) - (IF \E e \in Env : pc[e] = "r_end" THEN 1 ELSE 0)

\* The positions are the counts, the bytes between them are in the buffer, and a reader
\* or writer that has seen a byte or room still has it.
Queue ==
  /\ Taken \in Nat /\ Taken <= written /\ written <= Taken + BY2PIPE
  /\ p_rpos = Taken % POSMOD /\ p_wpos = written % POSMOD
  /\ \A k \in DOMAIN got : got[k] = k
  /\ \A k \in (Taken + 1)..written : p_buf[(k - 1) % BY2PIPE] = k
  /\ \A e \in Env :
       /\ pc[e] \in {"r_take", "r_end"} => Taken < written
       /\ pc[e] \in {"w_put", "w_end"} => written < Taken + BY2PIPE
       /\ pc[e] = "w_end" => p_buf[written % BY2PIPE] = written + 1

FifoInv == Turns /\ (build = [read |-> "buf", write |-> "buf"] => Queue)
================================================================================
