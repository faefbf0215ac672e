------------------------------ MODULE Pipe_proofs ------------------------------
(***************************************************************************)
(* The verdict of _pipe_is_closed is right for any number of envs, slots   *)
(* and bytes, as long as no fork or spawn is under way: PipeInv is         *)
(* inductive, and equal counts leave no room for the other end.  And what  *)
(* is read is what was written: FifoInv ties the positions, which wrap, to *)
(* the numbers of bytes, which do not.                                     *)
(***************************************************************************)
EXTENDS Pipe, FiniteSetTheorems, TLAPS

Where == Reading \cup Writing \cup Checking \cup
         {"none", "user", "close2", "dup_data", "dup_fd", "exit"}

LocType == [slot : Nat \ {0}, to : Slot, i : Nat, n : Nat, fdref : Nat, pref : Nat,
            ret : {"user", "r_check", "w_check", "dup_data", "exit"}]

\* pageref is a number.
LEMMA PagerefNat ==
  ASSUME NEW table, NEW page
  PROVE  pageref(table, page) \in Nat
<1>1. IsFiniteSet(Env \X Slot) BY PipeAssumption, FS_Product
<1>2. IsFiniteSet({m \in Env \X Slot : table[m[1]][m[2]] = page}) BY <1>1, FS_Subset
<1> QED BY <1>2, FS_CardinalityType DEF pageref

\* A remainder by a positive number is below it.
LEMMA ModRange ==
  ASSUME NEW x \in Int, NEW m \in Nat \ {0}
  PROVE  x % m \in 0..(m - 1)
OBVIOUS

\* Descriptor numbers count from 1.
LEMMA SlotNat == Slot \subseteq Nat \ {0}
BY PipeAssumption, FS_CardinalityType

\* The local variables of an env that is in no call.
LEMMA Loc0Type == Loc0 \in LocType
BY PipeAssumption DEF Loc0, LocType

\* The initial states satisfy the invariant.
LEMMA PipeInitially == Init => PipeInv
<1> SUFFICES ASSUME Init PROVE PipeInv OBVIOUS
<1>1. PipeTypeOK
  BY PipeAssumption, Loc0Type DEF Init, PipeTypeOK, Ready, LocType, Reading, Writing, Checking
<1>2. Backed BY PipeAssumption DEF Init, Backed
<1>3. CallsHold BY DEF Init, CallsHold, Established, Reading, Writing, Checking
<1>4. Fresh BY DEF Init, Fresh
<1> QED BY <1>1, <1>2, <1>3, <1>4 DEF PipeInv

\* The part of PipeTypeOK about what all envs share.
SharedTyped ==
  /\ build \in [read : Orders, write : Orders]
  /\ p_rpos \in 0..(POSMOD - 1) /\ p_wpos \in 0..(POSMOD - 1)
  /\ p_buf \in [0..(BY2PIPE - 1) -> Nat]
  /\ written \in Nat /\ got \in Seq(Nat)

\* The env e that has the CPU goes to where with locals l, and only its own
\* mappings change.
LEMMA StepKeeps ==
  ASSUME PipeInv, NEW e \in Env, cur = e,
         NEW where \in Where \ {"none"}, NEW l \in LocType, Goto(e, where, l),
         fd' \in [Env -> [Slot -> {"R", "W", NULL}]], data' \in [Env -> [Slot -> BOOLEAN]],
         \A g \in Env \ {e} : fd'[g] = fd[g] /\ data'[g] = data[g],
         \A s \in Slot : fd'[e][s] # NULL => data'[e][s],
         Established(fd'[e], data'[e], where, l),
         NEW b \in BOOLEAN, stale' = [stale EXCEPT ![e] = b],
         b \/ where \notin {"c_pipe", "c_cmp"} \/ l.fdref = pageref(fd', fd'[e][l.slot]),
         b \/ where # "c_cmp" \/ l.pref = pageref(data', TRUE),
         SharedTyped'
  PROVE  PipeInv'
<1>1. /\ cur' = e /\ pc' = [pc EXCEPT ![e] = where] /\ loc' = [loc EXCEPT ![e] = l]
      /\ pc'[e] = where /\ loc'[e] = l /\ stale'[e] = b
  BY DEF Goto, PipeInv, PipeTypeOK
<1>2. PipeTypeOK'
  BY <1>1 DEF PipeInv, PipeTypeOK, SharedTyped, Ready, Where, LocType
<1>3. Backed'
  <2> SUFFICES ASSUME NEW g \in Env, NEW s \in Slot, fd'[g][s] # NULL PROVE data'[g][s]
    BY DEF Backed
  <2>1. CASE g = e BY <2>1
  <2>2. CASE g # e
    <3>1. fd'[g] = fd[g] /\ data'[g] = data[g] BY <2>2
    <3> QED BY <3>1 DEF PipeInv, Backed
  <2> QED BY <2>1, <2>2
<1>4. CallsHold'
  <2> SUFFICES ASSUME NEW g \in Env PROVE Established(fd'[g], data'[g], pc'[g], loc'[g])
    BY DEF CallsHold
  <2>1. CASE g = e BY <2>1, <1>1
  <2>2. CASE g # e
    <3>1. fd'[g] = fd[g] /\ data'[g] = data[g] /\ pc'[g] = pc[g] /\ loc'[g] = loc[g]
      BY <2>2, <1>1 DEF PipeInv, PipeTypeOK
    <3> QED BY <3>1 DEF PipeInv, CallsHold
  <2> QED BY <2>1, <2>2
<1>5. Fresh'
  BY <1>1 DEF Fresh, FdRef, PipeRef
<1> QED BY <1>2, <1>3, <1>4, <1>5 DEF PipeInv

\* The same for a step that maps and unmaps nothing,
LEMMA StayKeeps ==
  ASSUME PipeInv, NEW e \in Env, cur = e,
         NEW where \in Where \ {"none"},
         NEW l \in LocType, Goto(e, where, l),
         UNCHANGED pages, Established(fd[e], data[e], where, l),
         NEW b \in BOOLEAN, stale' = [stale EXCEPT ![e] = b],
         b \/ where \notin {"c_pipe", "c_cmp"} \/ l.fdref = FdRef(fd[e][l.slot]),
         b \/ where # "c_cmp" \/ l.pref = PipeRef,
         SharedTyped'
  PROVE  PipeInv'
<1>1. fd' = fd /\ data' = data BY DEF pages
<1>2. /\ fd' \in [Env -> [Slot -> {"R", "W", NULL}]] /\ data' \in [Env -> [Slot -> BOOLEAN]]
      /\ \A g \in Env \ {e} : fd'[g] = fd[g] /\ data'[g] = data[g]
      /\ \A s \in Slot : fd'[e][s] # NULL => data'[e][s]
      /\ Established(fd'[e], data'[e], where, l)
  BY <1>1 DEF PipeInv, PipeTypeOK, Backed
<1>3. /\ b \/ where \notin {"c_pipe", "c_cmp"} \/ l.fdref = pageref(fd', fd'[e][l.slot])
      /\ b \/ where # "c_cmp" \/ l.pref = pageref(data', TRUE)
  BY <1>1 DEF FdRef, PipeRef
<1> QED BY <1>2, <1>3, StepKeeps

\* which also is no part of the counting.
LEMMA MoveKeeps ==
  ASSUME PipeInv, NEW e \in Env, cur = e,
         NEW where \in Where \ {"none", "c_pipe", "c_cmp"},
         NEW l \in LocType, Goto(e, where, l),
         UNCHANGED pages, Established(fd[e], data[e], where, l),
         NEW b \in BOOLEAN, stale' = [stale EXCEPT ![e] = b],
         SharedTyped'
  PROVE  PipeInv'
<1>1. where \in Where \ {"none"} /\ where # "c_pipe" /\ where # "c_cmp" OBVIOUS
<1> QED BY <1>1, StayKeeps

\* What PipeInv says of one env, for use below.
LEMMA OfOne ==
  ASSUME PipeInv, NEW e \in Env
  PROVE  /\ loc[e] \in LocType /\ pc[e] \in Where /\ stale[e] \in BOOLEAN
         /\ stale = [stale EXCEPT ![e] = stale[e]]
         /\ fd[e] \in [Slot -> {"R", "W", NULL}] /\ data[e] \in [Slot -> BOOLEAN]
         /\ Established(fd[e], data[e], pc[e], loc[e])
         /\ SharedTyped
         /\ \A s \in Slot : fd[e][s] # NULL => data[e][s]
BY DEF PipeInv, PipeTypeOK, LocType, Where, CallsHold, SharedTyped, Backed

\* Steps that touch neither the shared memory nor the mappings.
LEMMA SharedKept == ASSUME SharedTyped, UNCHANGED shared PROVE SharedTyped'
BY DEF SharedTyped, shared

\* Returning to the program.
LEMMA ReturnKeeps ==
  ASSUME PipeInv, NEW e \in Env, cur = e, Return(e), UNCHANGED <<shared, pages>>,
         NEW b \in BOOLEAN, stale' = [stale EXCEPT ![e] = b]
  PROVE  PipeInv'
<1>1. SharedTyped' BY OfOne, SharedKept
<1>2. Goto(e, "user", Loc0) BY DEF Return
<1>3. "user" \in Where \ {"none", "c_pipe", "c_cmp"} BY DEF Where
<1>4. Established(fd[e], data[e], "user", Loc0)
  BY DEF Established, Reading, Writing, Checking
<1> QED BY <1>1, <1>2, <1>3, <1>4, Loc0Type, MoveKeeps

\* The start of a read or write, and of pipe_is_closed.
LEMMA BeginKeeps ==
  ASSUME PipeInv, NEW e \in Env, NEW end \in {"R", "W"}, NEW where \in {"r_check", "w_check"},
         NEW calls, NEW n \in Nat, Begin(e, end, where, calls, n)
  PROVE  PipeInv'
<1>1. PICK s \in Slot :
        /\ fd[e][s] = end
        /\ Goto(e, where, [Loc0 EXCEPT !.slot = s, !.n = n, !.ret = where])
  BY DEF Begin
<1> DEFINE l == [Loc0 EXCEPT !.slot = s, !.n = n, !.ret = where]
<1>2. l \in LocType /\ l.slot = s /\ l.ret = where
  BY PipeAssumption, SlotNat DEF LocType, Loc0
<1>3. cur = e /\ UNCHANGED <<shared, pages, stale>> BY DEF Begin, At
<1>4. Established(fd[e], data[e], where, l)
  BY <1>1, <1>2, PipeAssumption DEF Established, Reading, Writing, Checking
<1>5. SharedTyped' BY <1>3, OfOne, SharedKept
<1>6. where \in Where \ {"none", "c_pipe", "c_cmp"}
  BY DEF Where, Reading, Writing
<1>7. stale[e] \in BOOLEAN /\ stale' = [stale EXCEPT ![e] = stale[e]] BY <1>3, OfOne
<1>8. UNCHANGED pages BY <1>3
<1> HIDE DEF l
<1> QED BY <1>1, <1>2, <1>3, <1>4, <1>5, <1>6, <1>7, <1>8, MoveKeeps DEF l

\* pipe_is_closed starts to count.
LEMMA ProbeKeeps ==
  ASSUME PipeInv, NEW e \in Env, pipe_is_closed(e)
  PROVE  PipeInv'
<1>1. PICK s \in Slot : fd[e][s] # NULL /\ Goto(e, "c_runs", [Loc0 EXCEPT !.slot = s])
  BY DEF pipe_is_closed
<1> DEFINE l == [Loc0 EXCEPT !.slot = s]
<1>2. l \in LocType /\ l.slot = s /\ l.ret = "user"
  BY PipeAssumption, SlotNat DEF LocType, Loc0
<1>3. cur = e /\ UNCHANGED <<shared, pages, stale>> BY DEF pipe_is_closed, At
<1>4. Established(fd[e], data[e], "c_runs", l)
  BY <1>1, <1>2, PipeAssumption DEF Established, Reading, Writing, Checking
<1>5. SharedTyped' BY <1>3, OfOne, SharedKept
<1>6. "c_runs" \in Where \ {"none", "c_pipe", "c_cmp"} BY DEF Where, Checking
<1>7. stale[e] \in BOOLEAN /\ stale' = [stale EXCEPT ![e] = stale[e]] BY <1>3, OfOne
<1> HIDE DEF l
<1> QED BY <1>1, <1>2, <1>3, <1>4, <1>5, <1>6, <1>7, MoveKeeps DEF l

\* The loop heads of pipe_read and pipe_write.
LEMMA HeadKeeps ==
  ASSUME PipeInv, NEW e \in Env, r_check(e) \/ w_check(e)
  PROVE  PipeInv'
<1>1. cur = e /\ pc[e] \in {"r_check", "w_check"} /\ UNCHANGED <<shared, pages, stale>>
  BY DEF r_check, w_check, At
<1>2. stale[e] \in BOOLEAN /\ stale' = [stale EXCEPT ![e] = stale[e]] BY <1>1, OfOne
<1>3. \/ Return(e)
      \/ \E where \in {"r_take", "w_put", "c_runs"} : Goto(e, where, loc[e])
  BY DEF r_check, w_check
<1>4. CASE Return(e) BY <1>1, <1>2, <1>4, ReturnKeeps
<1>5. ASSUME NEW where \in {"r_take", "w_put", "c_runs"}, Goto(e, where, loc[e])
      PROVE  PipeInv'
  <2>1. SharedTyped' BY <1>1, OfOne, SharedKept
  <2>2. Established(fd[e], data[e], where, loc[e])
    BY <1>1, OfOne DEF Established, Reading, Writing, Checking
  <2>3. where \in Where \ {"none", "c_pipe", "c_cmp"}
    BY DEF Where, Reading, Writing, Checking
  <2>4. loc[e] \in LocType /\ UNCHANGED pages BY <1>1, OfOne
  <2> QED BY <1>1, <1>2, <1>5, <2>1, <2>2, <2>3, <2>4, MoveKeeps
<1> QED BY <1>3, <1>4, <1>5

\* The accesses to p_buf and to the positions.
LEMMA TransferTyped ==
  ASSUME SharedTyped, NEW e, r_take(e) \/ r_end(e) \/ w_put(e) \/ w_end(e)
  PROVE  SharedTyped'
<1>1. /\ p_rpos \in Int /\ p_wpos \in Int /\ p_rpos - 1 \in Int /\ p_wpos - 1 \in Int
      /\ p_rpos + 1 \in Int /\ p_wpos + 1 \in Int
  BY PipeAssumption DEF SharedTyped
<1>2. \A x \in Int : x % POSMOD \in 0..(POSMOD - 1) BY PipeAssumption, ModRange
<1>3. \A x \in Int : x % BY2PIPE \in 0..(BY2PIPE - 1) BY PipeAssumption, ModRange
<1>4. p_buf[p_rpos % BY2PIPE] \in Nat /\ p_buf[(p_rpos - 1) % BY2PIPE] \in Nat
  BY <1>1, <1>3 DEF SharedTyped
<1>5. (p_rpos + 1) % POSMOD \in 0..(POSMOD - 1) /\ (p_wpos + 1) % POSMOD \in 0..(POSMOD - 1)
  BY <1>1, <1>2
<1>6. /\ Append(got, p_buf[p_rpos % BY2PIPE]) \in Seq(Nat)
      /\ Append(got, p_buf[(p_rpos - 1) % BY2PIPE]) \in Seq(Nat)
      /\ written + 1 \in Nat
      /\ \A k : [p_buf EXCEPT ![k] = written + 1] \in [0..(BY2PIPE - 1) -> Nat]
  <2>1. \A v \in Nat : Append(got, v) \in Seq(Nat) BY DEF SharedTyped
  <2>2. written + 1 \in Nat BY DEF SharedTyped
  <2>3. \A k : [p_buf EXCEPT ![k] = written + 1] \in [0..(BY2PIPE - 1) -> Nat]
    BY <2>2 DEF SharedTyped
  <2> QED BY <1>4, <2>1, <2>2, <2>3, Zenon
<1>7. /\ p_rpos' \in {p_rpos, (p_rpos + 1) % POSMOD}
      /\ p_wpos' \in {p_wpos, (p_wpos + 1) % POSMOD}
      /\ \/ p_buf' = p_buf
         \/ p_buf' = [p_buf EXCEPT ![p_wpos % BY2PIPE] = written + 1]
         \/ p_buf' = [p_buf EXCEPT ![(p_wpos - 1) % BY2PIPE] = written + 1]
      /\ written' \in {written, written + 1}
      /\ got' \in {got, Append(got, p_buf[p_rpos % BY2PIPE]),
                   Append(got, p_buf[(p_rpos - 1) % BY2PIPE])}
      /\ build' = build
  <2>1. CASE r_take(e) BY ONLY <2>1, Zenon DEF r_take
  <2>2. CASE r_end(e) BY ONLY <2>2, Zenon DEF r_end
  <2>3. CASE w_put(e) BY ONLY <2>3, Zenon DEF w_put
  <2>4. CASE w_end(e) BY ONLY <2>4, Zenon DEF w_end
  <2> QED BY <2>1, <2>2, <2>3, <2>4
<1>8. p_rpos' \in 0..(POSMOD - 1) /\ p_wpos' \in 0..(POSMOD - 1)
  BY ONLY <1>5, <1>7, SharedTyped, Zenon DEF SharedTyped
<1>9. /\ p_buf' \in [0..(BY2PIPE - 1) -> Nat]
      /\ written' \in Nat /\ got' \in Seq(Nat)
      /\ build' \in [read : Orders, write : Orders]
  BY ONLY <1>6, <1>7, SharedTyped, Zenon DEF SharedTyped
<1> QED BY <1>8, <1>9 DEF SharedTyped

\* pipe_read and pipe_write move a byte, or are done.
LEMMA TransferKeeps ==
  ASSUME PipeInv, NEW e \in Env, r_take(e) \/ r_end(e) \/ w_put(e) \/ w_end(e)
  PROVE  PipeInv'
<1> DEFINE next == [loc[e] EXCEPT !.i = @ + 1]
<1>1. /\ cur = e /\ pc[e] \in {"r_take", "r_end", "w_put", "w_end"}
      /\ UNCHANGED <<pages, stale>>
  BY DEF r_take, r_end, w_put, w_end, At
<1>2. stale[e] \in BOOLEAN /\ stale' = [stale EXCEPT ![e] = stale[e]] BY <1>1, OfOne
<1>3. SharedTyped' BY OfOne, TransferTyped
<1>4. PICK where \in {"r_end", "w_end", "r_check", "w_check"}, l \in {loc[e], next} :
        Goto(e, where, l)
  BY DEF r_take, r_end, w_put, w_end
<1>5. l \in LocType /\ l.slot = loc[e].slot /\ l.ret = loc[e].ret
  <2>1. next \in LocType /\ next.slot = loc[e].slot /\ next.ret = loc[e].ret
    BY OfOne DEF LocType
  <2> QED BY <2>1, OfOne
<1>6. Established(fd[e], data[e], where, l)
  BY <1>1, <1>5, OfOne DEF Established, Reading, Writing, Checking
<1>7. where \in Where \ {"none", "c_pipe", "c_cmp"}
  BY DEF Where, Reading, Writing
<1> HIDE DEF next
<1> QED BY <1>1, <1>2, <1>3, <1>4, <1>5, <1>6, <1>7, MoveKeeps

\* _pipe_is_closed: the counts it keeps are those of the moment.
LEMMA CountKeeps ==
  ASSUME PipeInv, NEW e \in Env, c_runs(e) \/ c_fd(e) \/ c_pipe(e)
  PROVE  PipeInv'
<1>1. cur = e /\ pc[e] \in {"c_runs", "c_fd", "c_pipe"} /\ UNCHANGED <<shared, pages>>
  BY DEF c_runs, c_fd, c_pipe, At
<1>2. SharedTyped' BY <1>1, OfOne, SharedKept
<1>3. UNCHANGED pages BY <1>1
<1>4. \A where \in {"c_fd", "c_pipe", "c_cmp"}, l \in LocType :
        l.slot = loc[e].slot /\ l.ret = loc[e].ret
          => /\ Established(fd[e], data[e], where, l)
             /\ where \in Where \ {"none"}
  BY <1>1, OfOne DEF Established, Where, Reading, Writing, Checking
<1>5. stale[e] \in BOOLEAN /\ stale = [stale EXCEPT ![e] = stale[e]] BY OfOne
<1>6. CASE c_runs(e)
  <2>1. Goto(e, "c_fd", loc[e]) /\ stale' = [stale EXCEPT ![e] = FALSE]
    BY <1>6 DEF c_runs
  <2>2. /\ loc[e] \in LocType /\ Established(fd[e], data[e], "c_fd", loc[e])
        /\ "c_fd" \in Where \ {"none", "c_pipe", "c_cmp"}
    BY <1>4, OfOne
  <2> QED BY <1>1, <1>2, <1>3, <2>1, <2>2, MoveKeeps
<1>7. CASE c_fd(e)
  <2> DEFINE l == [loc[e] EXCEPT !.fdref = FdRef(fd[e][loc[e].slot])]
  <2>1. Goto(e, "c_pipe", l) /\ UNCHANGED stale BY <1>7 DEF c_fd
  <2>2. /\ l \in LocType /\ l.slot = loc[e].slot /\ l.ret = loc[e].ret
        /\ l.fdref = FdRef(fd[e][l.slot])
    BY OfOne, PagerefNat DEF LocType, FdRef
  <2> HIDE DEF l
  <2>3. /\ Established(fd[e], data[e], "c_pipe", l)
        /\ "c_pipe" \in Where \ {"none"} /\ "c_pipe" # "c_cmp"
    BY <1>4, <2>2
  <2> QED BY <1>1, <1>2, <1>3, <1>5, <2>1, <2>2, <2>3, StayKeeps
<1>8. CASE c_pipe(e)
  <2> DEFINE l == [loc[e] EXCEPT !.pref = PipeRef]
  <2>1. Goto(e, "c_cmp", l) /\ UNCHANGED stale BY <1>8 DEF c_pipe
  <2>2. /\ l \in LocType /\ l.slot = loc[e].slot /\ l.ret = loc[e].ret
        /\ l.fdref = loc[e].fdref /\ l.pref = PipeRef
    BY OfOne, PagerefNat DEF LocType, PipeRef
  <2>3. stale[e] \/ l.fdref = FdRef(fd[e][l.slot])
    BY <1>1, <1>8, <2>2 DEF PipeInv, Fresh, c_pipe, At
  <2> HIDE DEF l
  <2>4. /\ Established(fd[e], data[e], "c_cmp", l)
        /\ "c_cmp" \in Where \ {"none"}
    BY <1>4, <2>2
  <2> QED BY <1>1, <1>2, <1>3, <1>5, <2>1, <2>2, <2>3, <2>4, StayKeeps
<1> QED BY <1>6, <1>7, <1>8

\* _pipe_is_closed compares, and counts again when env_runs has changed.
LEMMA CompareKeeps ==
  ASSUME PipeInv, NEW e \in Env, c_cmp(e)
  PROVE  PipeInv'
<1> DEFINE l == [loc[e] EXCEPT !.fdref = 0, !.pref = 0]
<1>1. /\ cur = e /\ pc[e] = "c_cmp" /\ UNCHANGED <<shared, pages>>
      /\ stale' = [stale EXCEPT ![e] = FALSE]
      /\ Return(e) \/ \E where \in {"c_runs", "yield"} : Goto(e, where, l)
  BY DEF c_cmp, At
<1>2. CASE Return(e) BY <1>1, <1>2, ReturnKeeps
<1>3. ASSUME NEW where \in {"c_runs", "yield"}, Goto(e, where, l) PROVE PipeInv'
  <2>1. SharedTyped' BY <1>1, OfOne, SharedKept
  <2>2. l \in LocType /\ l.slot = loc[e].slot /\ l.ret = loc[e].ret BY OfOne DEF LocType
  <2>3. Established(fd[e], data[e], where, l)
    BY <1>1, <2>2, OfOne DEF Established, Reading, Writing, Checking
  <2>4. where \in Where \ {"none", "c_pipe", "c_cmp"} BY DEF Where, Checking
  <2> HIDE DEF l
  <2> QED BY <1>1, <1>3, <2>1, <2>2, <2>3, <2>4, MoveKeeps
<1> HIDE DEF l
<1> QED BY <1>1, <1>2, <1>3

\* Another env, or the same one again, gets the CPU: what it has counted is stale.
LEMMA DispatchKeeps ==
  ASSUME PipeInv, NEW e \in Env, Dispatch(e), UNCHANGED <<shared, pages>>,
         NEW g \in Env, NEW where \in Where \ {"c_pipe", "c_cmp"}, NEW l \in LocType,
         \/ UNCHANGED <<pc, loc>>
         \/ /\ pc' = [pc EXCEPT ![g] = where] /\ loc' = [loc EXCEPT ![g] = l]
            /\ Established(fd[g], data[g], where, l)
            /\ g = e => where \notin {"none"}
  PROVE  PipeInv'
<1>1. SharedTyped' BY OfOne, SharedKept
<1>2. PipeTypeOK'
  <2>1. pc' \in [Env -> Where] /\ loc' \in [Env -> LocType]
    <3>1. pc \in [Env -> Where] /\ loc \in [Env -> LocType]
      BY DEF PipeInv, PipeTypeOK, Where, LocType
    <3> QED BY <3>1
  <2>2. cur' \in Env /\ stale' \in [Env -> BOOLEAN] BY DEF PipeInv, PipeTypeOK, Dispatch
  <2>3. pc'[cur'] \notin {"none"} BY DEF PipeInv, PipeTypeOK, Dispatch, Ready
  <2> QED BY <1>1, <2>1, <2>2, <2>3
          DEF PipeInv, PipeTypeOK, SharedTyped, Ready, Where, LocType, pages
<1>3. Backed' BY DEF PipeInv, Backed, pages
<1>4. CallsHold'
  <2> SUFFICES ASSUME NEW h \in Env PROVE Established(fd[h], data[h], pc'[h], loc'[h])
    BY DEF CallsHold, pages
  <2> QED BY DEF PipeInv, PipeTypeOK, CallsHold
<1>5. Fresh'
  <2>1. cur' = e /\ stale'[e] = (pc[e] \in {"c_fd", "c_pipe", "c_cmp"})
    BY DEF Dispatch, PipeInv, PipeTypeOK
  <2>2. pc'[e] \in {"c_pipe", "c_cmp"} => pc[e] \in {"c_pipe", "c_cmp"}
    BY DEF PipeInv, PipeTypeOK
  <2> QED BY <2>1, <2>2 DEF Fresh
<1> QED BY <1>2, <1>3, <1>4, <1>5 DEF PipeInv

\* An env yields and another one runs.
LEMMA YieldKeeps ==
  ASSUME PipeInv, NEW e \in Env, yield(e)
  PROVE  PipeInv'
<1>1. /\ pc[e] = "yield" /\ UNCHANGED <<shared, pages>>
      /\ pc' = [pc EXCEPT ![e] = loc[e].ret]
      /\ loc' = [loc EXCEPT ![e] = loc[e]]
  BY DEF yield, At, PipeInv, PipeTypeOK
<1>2. PICK f \in Env : Dispatch(f) BY DEF yield
<1>3. /\ loc[e].ret \in Where \ {"c_pipe", "c_cmp"} /\ loc[e].ret \notin {"none"}
      /\ loc[e] \in LocType /\ Established(fd[e], data[e], loc[e].ret, loc[e])
  BY <1>1, OfOne DEF Established, Where, Reading, Writing, Checking
<1> QED BY <1>1, <1>2, <1>3, DispatchKeeps

\* close and the exits: the Fd page goes first.
LEMMA CloseFdKeeps ==
  ASSUME PipeInv, NEW e \in Env, cur = e, NEW s \in Slot, NEW l \in LocType, CloseFd(e, s, l),
         l.to = s, l.ret \in {"user", "dup_data", "exit"},
         l.ret = "dup_data" => l.slot \in Slot /\ l.slot # s /\ fd[e][l.slot] # NULL
  PROVE  PipeInv'
<1>1. /\ fd' = [fd EXCEPT ![e][s] = NULL] /\ data' = data /\ UNCHANGED stale
      /\ Goto(e, "close2", l) /\ UNCHANGED shared
  BY DEF CloseFd
<1>2. /\ fd' \in [Env -> [Slot -> {"R", "W", NULL}]] /\ data' \in [Env -> [Slot -> BOOLEAN]]
      /\ \A g \in Env \ {e} : fd'[g] = fd[g] /\ data'[g] = data[g]
      /\ \A t \in Slot : fd'[e][t] = IF t = s THEN NULL ELSE fd[e][t]
  BY <1>1 DEF PipeInv, PipeTypeOK
<1>3. \A t \in Slot : fd'[e][t] # NULL => data'[e][t]
  BY <1>1, <1>2, OfOne
<1>4. Established(fd'[e], data'[e], "close2", l)
  BY <1>2 DEF Established, Reading, Writing, Checking
<1>5. "close2" \in Where \ {"none"} /\ "close2" \notin {"c_pipe", "c_cmp"}
  BY DEF Where
<1>6. SharedTyped' /\ stale[e] \in BOOLEAN /\ stale' = [stale EXCEPT ![e] = stale[e]]
  BY <1>1, OfOne, SharedKept
<1> QED BY <1>1, <1>2, <1>3, <1>4, <1>5, <1>6, StepKeeps

\* close unmaps the Fd page,
LEMMA CloseKeeps ==
  ASSUME PipeInv, NEW e \in Env, Close(e)
  PROVE  PipeInv'
<1>1. PICK s \in Slot : CloseFd(e, s, [Loc0 EXCEPT !.to = s]) BY DEF Close
<1> DEFINE l == [Loc0 EXCEPT !.to = s]
<1>2. l \in LocType /\ l.to = s /\ l.ret = "user" BY PipeAssumption DEF Loc0, LocType
<1>3. cur = e BY DEF Close, At
<1> HIDE DEF l
<1> QED BY <1>1, <1>2, <1>3, CloseFdKeeps DEF l

\* and then the Pipe page.
LEMMA Close2Keeps ==
  ASSUME PipeInv, NEW e \in Env, close2(e)
  PROVE  PipeInv'
<1> DEFINE to == loc[e].to
           l == IF loc[e].ret = "user" THEN Loc0 ELSE loc[e]
<1>1. /\ cur = e /\ pc[e] = "close2"
      /\ data' = [data EXCEPT ![e][to] = FALSE] /\ fd' = fd /\ UNCHANGED stale
      /\ Goto(e, loc[e].ret, l) /\ UNCHANGED shared
  BY DEF close2, At
<1>2. to \in Slot /\ l \in LocType BY OfOne, Loc0Type DEF LocType
<1>3. /\ fd[e][to] = NULL /\ loc[e].ret \in {"user", "dup_data", "exit"}
      /\ loc[e].ret = "dup_data" =>
           loc[e].slot \in Slot /\ loc[e].slot # to /\ fd[e][loc[e].slot] # NULL
  BY <1>1, OfOne DEF Established
<1>4. /\ fd' \in [Env -> [Slot -> {"R", "W", NULL}]] /\ data' \in [Env -> [Slot -> BOOLEAN]]
      /\ \A g \in Env \ {e} : fd'[g] = fd[g] /\ data'[g] = data[g]
      /\ \A t \in Slot : data'[e][t] = IF t = to THEN FALSE ELSE data[e][t]
  BY <1>1, <1>2 DEF PipeInv, PipeTypeOK
<1>5. \A t \in Slot : fd'[e][t] # NULL => data'[e][t]
  BY <1>1, <1>3, <1>4, OfOne
<1>6. Established(fd'[e], data'[e], loc[e].ret, l)
  BY <1>1, <1>3 DEF Established, Reading, Writing, Checking
<1>7. /\ loc[e].ret \in Where \ {"none"} /\ loc[e].ret # "c_cmp"
      /\ loc[e].ret \notin {"c_pipe", "c_cmp"}
  BY <1>3 DEF Where
<1>8. SharedTyped' /\ stale[e] \in BOOLEAN /\ stale' = [stale EXCEPT ![e] = stale[e]]
  BY <1>1, OfOne, SharedKept
<1> HIDE DEF l, to
<1> QED BY <1>1, <1>2, <1>4, <1>5, <1>6, <1>7, <1>8, StepKeeps

\* dup: the Fd page comes last.
LEMMA DupKeeps ==
  ASSUME PipeInv, NEW e \in Env, Dup(e)
  PROVE  PipeInv'
<1>1. PICK old \in Slot, new \in Slot :
        /\ old # new /\ fd[e][old] # NULL
        /\ LET l == [Loc0 EXCEPT !.slot = old, !.to = new, !.ret = "dup_data"] IN
           IF fd[e][new] # NULL THEN CloseFd(e, new, l)
           ELSE Goto(e, "dup_data", l) /\ UNCHANGED <<shared, pages, stale>>
  BY DEF Dup
<1> DEFINE l == [Loc0 EXCEPT !.slot = old, !.to = new, !.ret = "dup_data"]
<1>2. /\ l \in LocType /\ l.to = new /\ l.slot = old /\ l.ret = "dup_data"
  BY SlotNat DEF Loc0, LocType
<1>3. cur = e BY DEF Dup, At
<1>4. CASE fd[e][new] # NULL
  <2>1. CloseFd(e, new, l) BY <1>1, <1>4
  <2> HIDE DEF l
  <2> QED BY <1>1, <1>2, <1>3, <2>1, CloseFdKeeps
<1>5. CASE fd[e][new] = NULL
  <2>1. Goto(e, "dup_data", l) /\ UNCHANGED <<shared, pages, stale>> BY <1>1, <1>5
  <2> HIDE DEF l
  <2>2. Established(fd[e], data[e], "dup_data", l)
    BY <1>1, <1>2, <1>5 DEF Established, Reading, Writing, Checking
  <2>3. "dup_data" \in Where \ {"none", "c_pipe", "c_cmp"} BY DEF Where
  <2>4. /\ SharedTyped' /\ stale[e] \in BOOLEAN /\ stale' = [stale EXCEPT ![e] = stale[e]]
        /\ UNCHANGED pages
    BY <2>1, OfOne, SharedKept
  <2> QED BY <1>2, <1>3, <2>1, <2>2, <2>3, <2>4, MoveKeeps
<1> QED BY <1>4, <1>5

\* dup maps the Pipe page,
DupMaps(e) ==
  /\ At(e, "dup_data") /\ Goto(e, "dup_fd", loc[e])
  /\ data' = [data EXCEPT ![e][loc[e].to] = data[e][loc[e].slot]]
  /\ UNCHANGED <<shared, fd, stale>>

LEMMA DupMapsKeeps ==
  ASSUME PipeInv, NEW e \in Env, DupMaps(e)
  PROVE  PipeInv'
<1> DEFINE to == loc[e].to
           old == loc[e].slot
<1>1. /\ cur = e /\ pc[e] = "dup_data"
      /\ data' = [data EXCEPT ![e][to] = data[e][old]] /\ fd' = fd /\ UNCHANGED stale
      /\ Goto(e, "dup_fd", loc[e]) /\ UNCHANGED shared
  BY DEF DupMaps, At
<1>2. to \in Slot /\ loc[e] \in LocType BY OfOne DEF LocType
<1>3. old \in Slot /\ old # to /\ fd[e][old] # NULL /\ fd[e][to] = NULL /\ data[e][old]
  BY <1>1, OfOne DEF Established
<1>4. /\ fd' \in [Env -> [Slot -> {"R", "W", NULL}]] /\ data' \in [Env -> [Slot -> BOOLEAN]]
      /\ \A g \in Env \ {e} : fd'[g] = fd[g] /\ data'[g] = data[g]
      /\ \A t \in Slot : data'[e][t] = IF t = to THEN data[e][old] ELSE data[e][t]
  BY <1>1, <1>2, <1>3 DEF PipeInv, PipeTypeOK
<1>5. \A t \in Slot : fd'[e][t] # NULL => data'[e][t]
  BY <1>1, <1>3, <1>4, OfOne
<1>6. Established(fd'[e], data'[e], "dup_fd", loc[e])
  BY <1>1, <1>2, <1>3, <1>4 DEF Established, Reading, Writing, Checking
<1>7. "dup_fd" \in Where \ {"none"} /\ "dup_fd" \notin {"c_pipe", "c_cmp"}
  BY DEF Where
<1>8. SharedTyped' /\ stale[e] \in BOOLEAN /\ stale' = [stale EXCEPT ![e] = stale[e]]
  BY <1>1, OfOne, SharedKept
<1> QED BY <1>1, <1>2, <1>4, <1>5, <1>6, <1>7, <1>8, StepKeeps

\* or gives up,
LEMMA DupDataKeeps ==
  ASSUME PipeInv, NEW e \in Env, dup_data(e)
  PROVE  PipeInv'
<1>1. CASE Goto(e, "dup_fd", loc[e])
           /\ data' = [data EXCEPT ![e][loc[e].to] = data[e][loc[e].slot]]
  BY <1>1, DupMapsKeeps DEF dup_data, DupMaps
<1>2. CASE Return(e) /\ UNCHANGED data
  <2>1. cur = e /\ Goto(e, "user", Loc0) /\ UNCHANGED <<shared, pages, stale>>
    BY <1>2 DEF dup_data, At, Return, pages
  <2>2. Established(fd[e], data[e], "user", Loc0)
    BY DEF Established, Reading, Writing, Checking
  <2>3. "user" \in Where \ {"none", "c_pipe", "c_cmp"} BY DEF Where
  <2>4. /\ SharedTyped' /\ stale[e] \in BOOLEAN /\ stale' = [stale EXCEPT ![e] = stale[e]]
        /\ UNCHANGED pages
    BY <2>1, OfOne, SharedKept
  <2> QED BY <2>1, <2>2, <2>3, <2>4, Loc0Type, MoveKeeps
<1> QED BY <1>1, <1>2 DEF dup_data

\* and then the Fd page.
LEMMA DupFdKeeps ==
  ASSUME PipeInv, NEW e \in Env, dup_fd(e)
  PROVE  PipeInv'
<1> DEFINE to == loc[e].to
           old == loc[e].slot
<1>1. /\ cur = e /\ pc[e] = "dup_fd"
      /\ fd' = [fd EXCEPT ![e][to] = fd[e][old]] /\ data' = data /\ UNCHANGED stale
      /\ Goto(e, "user", Loc0) /\ UNCHANGED shared
  BY DEF dup_fd, At, Return
<1>2. to \in Slot BY OfOne DEF LocType
<1>3. old \in Slot /\ fd[e][old] # NULL /\ data[e][to]
  BY <1>1, OfOne DEF Established
<1>4. /\ fd' \in [Env -> [Slot -> {"R", "W", NULL}]] /\ data' \in [Env -> [Slot -> BOOLEAN]]
      /\ \A g \in Env \ {e} : fd'[g] = fd[g] /\ data'[g] = data[g]
      /\ \A t \in Slot : fd'[e][t] = IF t = to THEN fd[e][old] ELSE fd[e][t]
  BY <1>1, <1>2, <1>3 DEF PipeInv, PipeTypeOK
<1>5. \A t \in Slot : fd'[e][t] # NULL => data'[e][t]
  BY <1>1, <1>3, <1>4, OfOne
<1>6. Established(fd'[e], data'[e], "user", Loc0)
  BY DEF Established, Reading, Writing, Checking
<1>7. "user" \in Where \ {"none"} /\ "user" \notin {"c_pipe", "c_cmp"}
  BY DEF Where
<1>8. SharedTyped' /\ stale[e] \in BOOLEAN /\ stale' = [stale EXCEPT ![e] = stale[e]]
  BY <1>1, OfOne, SharedKept
<1> QED BY <1>1, <1>4, <1>5, <1>6, <1>7, <1>8, Loc0Type, StepKeeps

\* exit closes what is open, and another env runs when nothing is.
LEMMA ExitKeeps ==
  ASSUME PipeInv, NEW e \in Env, Exit(e)
  PROVE  PipeInv'
<1>1. cur = e BY DEF Exit, At
<1>2. ASSUME NEW s \in Slot, CloseFd(e, s, [Loc0 EXCEPT !.to = s, !.ret = "exit"])
      PROVE  PipeInv'
  <2> DEFINE l == [Loc0 EXCEPT !.to = s, !.ret = "exit"]
  <2>1. l \in LocType /\ l.to = s /\ l.ret = "exit"
    BY Loc0Type, SlotNat DEF Loc0, LocType
  <2> HIDE DEF l
  <2> QED BY <1>1, <1>2, <2>1, CloseFdKeeps DEF l
<1>3. ASSUME NEW f \in Env \ {e}, Dispatch(f), UNCHANGED <<shared, pages>>,
             pc' = [pc EXCEPT ![e] = "none"], loc' = [loc EXCEPT ![e] = Loc0]
      PROVE  PipeInv'
  <2>1. Established(fd[e], data[e], "none", Loc0)
    BY DEF Established, Reading, Writing, Checking
  <2>2. "none" \in Where \ {"c_pipe", "c_cmp"} /\ e # f /\ f \in Env BY DEF Where
  <2> QED BY <1>3, <2>1, <2>2, Loc0Type, DispatchKeeps
<1> QED BY <1>2, <1>3 DEF Exit

\* The timer interrupt.
LEMMA SwitchKeeps ==
  ASSUME PipeInv, NEW e \in Env, Switch(e)
  PROVE  PipeInv'
<1>1. Dispatch(e) /\ UNCHANGED <<shared, pages>> /\ UNCHANGED <<pc, loc>> BY DEF Switch
<1>2. "user" \in Where \ {"c_pipe", "c_cmp"} BY DEF Where
<1> QED BY <1>1, <1>2, Loc0Type, DispatchKeeps

\* Every step keeps the invariant.
LEMMA PipeStep == PipeInv /\ [PipeNext]_pvars => PipeInv'
<1> SUFFICES ASSUME PipeInv, [PipeNext]_pvars PROVE PipeInv' OBVIOUS
<1>1. CASE UNCHANGED pvars
  BY <1>1 DEF pvars, shared, pages, PipeInv, PipeTypeOK, Ready, Backed, CallsHold, Fresh,
              FdRef, PipeRef
<1>2. ASSUME NEW e \in Env, Progress(e) PROVE PipeInv'
  BY <1>2, HeadKeeps, TransferKeeps, CountKeeps, CompareKeeps, YieldKeeps, Close2Keeps,
     DupDataKeeps, DupFdKeeps, ExitKeeps DEF Progress
<1>3. ASSUME NEW e \in Env, UserCall(e) PROVE PipeInv'
  <2>1. ASSUME NEW n \in 1..2, Read(e, n) \/ Write(e, n) PROVE PipeInv'
    <3>1. n \in Nat BY <2>1
    <3> QED BY <2>1, <3>1, BeginKeeps DEF Read, Write
  <2> QED BY <1>3, <2>1, ProbeKeeps, CloseKeeps, DupKeeps, ExitKeeps DEF UserCall
<1> QED BY <1>1, <1>2, <1>3, SwitchKeeps DEF PipeNext

\* So the invariant holds in every state.
LEMMA PipeAlways == PipeSpec => []PipeInv
BY PipeInitially, PipeStep, PTL DEF PipeSpec

\* A verdict of _pipe_is_closed that read or write acts on means what it says: the
\* mappings of the env's own end are all mappings of the Pipe page, and every
\* mapping of the other end would be one more.
LEMMA VerdictRight == PipeInv => ClosedIsClosed
<1> SUFFICES ASSUME PipeInv, NEW e \in Env, Closed(e)
    PROVE  FdRef(IF fd[e][loc[e].slot] = "R" THEN "W" ELSE "R") = 0
  BY DEF ClosedIsClosed
<1> DEFINE mine == fd[e][loc[e].slot]
           other == IF mine = "R" THEN "W" ELSE "R"
           All == Env \X Slot
           M == {m \in All : fd[m[1]][m[2]] = mine}
           O == {m \in All : fd[m[1]][m[2]] = other}
           D == {m \in All : data[m[1]][m[2]] = TRUE}
<1>1. cur = e /\ pc[e] = "c_cmp" /\ ~stale[e] /\ loc[e].fdref = loc[e].pref
  BY DEF Closed, At
<1>2. FdRef(mine) = PipeRef BY <1>1 DEF PipeInv, Fresh
<1>3. mine # NULL /\ mine # other /\ other # NULL
  BY <1>1, OfOne, PipeAssumption DEF Established, Checking
<1>4. Cardinality(M) = Cardinality(D) BY <1>2 DEF FdRef, PipeRef, pageref
<1>5. M \subseteq D /\ O \subseteq D
  BY <1>3 DEF PipeInv, PipeTypeOK, Backed
<1>6. IsFiniteSet(D)
  <2>1. IsFiniteSet(All) BY PipeAssumption, FS_Product
  <2> QED BY <2>1, FS_Subset
<1>7. M = D BY <1>4, <1>5, <1>6, FS_Subset
<1>8. O = {} BY <1>3, <1>5, <1>7
<1>9. Cardinality(O) = 0 BY <1>8, FS_EmptySet
<1> QED BY <1>9 DEF FdRef, pageref

\* PipeTypeOK holds in every reachable state, for any number of envs and slots and
\* any size of the buffer (pipe.c, fd.c).
THEOREM PipeKeepsType == PipeSpec => []PipeTypeOK
BY PipeAlways, PTL DEF PipeInv

\* _pipe_is_closed (pipe.c) never calls a pipe closed while the other end is open
\* somewhere, whatever dup, close, exit and the scheduler do between its two counts.
THEOREM PipeVerdictRight == PipeSpec => []ClosedIsClosed
BY PipeAlways, VerdictRight, PTL
-----------------------------------------------------------------------------
(* The bytes come out as they went in.                                     *)

\* Adding a multiple of m does not change the remainder.
LEMMA ModStep ==
  ASSUME NEW m \in Nat, m > 0, NEW a \in Int, NEW q \in Int, NEW b \in Int, b = a + q * m
  PROVE  b % m = a % m
<1> DEFINE x == a \div m
           y == b \div m
           r == a % m
           t == b % m
<1>1. /\ a = m * x + r /\ r \in 0..(m - 1) /\ x \in Int
      /\ b = m * y + t /\ t \in 0..(m - 1) /\ y \in Int
  OBVIOUS
<1> HIDE DEF x, y, r, t
<1>2. t - r = m * (x + q - y) BY <1>1
<1>3. PICK z \in Int : z = x + q - y BY <1>1
<1>4. t - r = m * z BY <1>2, <1>3
<1>5. ~(z >= 1)
  <2> SUFFICES ASSUME z >= 1 PROVE FALSE OBVIOUS
  <2>1. m * z >= m BY <1>3
  <2> QED BY <1>1, <1>4, <2>1
<1>6. ~(z <= -1)
  <2> SUFFICES ASSUME z <= -1 PROVE FALSE OBVIOUS
  <2>1. m * z <= -m BY <1>3
  <2> QED BY <1>1, <1>4, <2>1
<1>7. z = 0 BY <1>3, <1>5, <1>6
<1>8. t - r = 0 BY <1>4, <1>7
<1>9. t = r BY <1>1, <1>8
<1> QED BY <1>9 DEF t, r

\* A number is its remainder and a multiple.
LEMMA ModIs ==
  ASSUME NEW m \in Nat, m > 0, NEW a \in Int
  PROVE  /\ a % m \in 0..(m - 1)
         /\ \E q \in Int : a = (a % m) + q * m /\ a % m = a + (-q) * m
<1> DEFINE x == a \div m
           r == a % m
<1>1. a = m * x + r /\ r \in 0..(m - 1) /\ x \in Int OBVIOUS
<1> HIDE DEF x, r
<1>2. m * x = x * m /\ (-x) * m = -(x * m) BY <1>1
<1>3. x * m \in Int BY <1>1
<1>4. a = r + x * m /\ r = a + (-x) * m BY <1>1, <1>2, <1>3
<1> QED BY <1>1, <1>4 DEF r

\* Numbers that are less than m apart have different remainders.
LEMMA ModDiffers ==
  ASSUME NEW m \in Nat, m > 0, NEW a \in Int, NEW b \in Int, a < b, b < a + m
  PROVE  a % m # b % m
<1> SUFFICES ASSUME a % m = b % m PROVE FALSE OBVIOUS
<1> DEFINE r == a % m
           t == b % m
<1>1. PICK p \in Int : a = r + p * m BY ModIs
<1>2. PICK q \in Int : b = t + q * m BY ModIs
<1>3. r = t /\ r \in Int BY ModIs
<1> HIDE DEF r, t
<1>4. b - a = q * m - p * m BY <1>1, <1>2, <1>3
<1>5. q * m - p * m = (q - p) * m BY <1>1, <1>2
<1>6. PICK z \in Int : z = q - p BY <1>1, <1>2
<1>7. b - a = z * m BY <1>4, <1>5, <1>6
<1>8. CASE z >= 1
  <2>1. z * m >= m BY <1>6, <1>8
  <2> QED BY <1>7, <2>1
<1>9. CASE z <= 0
  <2>1. z * m <= 0 BY <1>6, <1>9
  <2> QED BY <1>7, <2>1
<1> QED BY <1>6, <1>8, <1>9

\* The positions: they lead to the same place of p_buf as the counts, move with them, and
\* their difference is that of the counts.
LEMMA PositionIs ==
  ASSUME NEW a \in Nat
  PROVE  /\ (a % POSMOD) % BY2PIPE = a % BY2PIPE
         /\ ((a % POSMOD) + 1) % POSMOD = (a + 1) % POSMOD
         /\ a % BY2PIPE \in 0..(BY2PIPE - 1)
<1>0. POSMOD \in Nat /\ POSMOD > 0 /\ BY2PIPE \in Nat /\ BY2PIPE > 0 /\ POSMOD % BY2PIPE = 0
  BY PipeAssumption
<1> DEFINE r == a % POSMOD
<1>1. PICK q \in Int : a = r + q * POSMOD /\ r = a + (-q) * POSMOD BY <1>0, ModIs
<1>2. r \in 0..(POSMOD - 1) BY <1>0, ModIs
<1>3. PICK n \in Int : POSMOD = n * BY2PIPE
  <2> DEFINE z == POSMOD % BY2PIPE
  <2>1. PICK n \in Int : POSMOD = z + n * BY2PIPE BY <1>0, ModIs
  <2>2. z = 0 BY <1>0
  <2> HIDE DEF z
  <2>3. n * BY2PIPE \in Int BY <1>0, <2>1
  <2>4. POSMOD = n * BY2PIPE BY <1>0, <2>1, <2>2, <2>3
  <2> QED BY <2>1, <2>4
<1> HIDE DEF r
<1>4. r % BY2PIPE = a % BY2PIPE
  <2>1. PICK w \in Int : w = (-q) * n BY <1>1, <1>3
  <2>2. (-q) * POSMOD = w * BY2PIPE BY <1>0, <1>1, <1>3, <2>1
  <2>3. r = a + w * BY2PIPE BY <1>1, <2>2
  <2>4. r \in Int /\ a \in Int BY <1>0, <1>2
  <2> QED BY <1>0, <2>1, <2>3, <2>4, ModStep
<1>5. (r + 1) % POSMOD = (a + 1) % POSMOD
  <2> DEFINE u == r + 1
             v == a + 1
             w == -q
  <2>1. u = v + w * POSMOD
    <3>1. (-q) * POSMOD \in Int BY <1>0, <1>1
    <3> QED BY <1>1, <1>2, <3>1
  <2>2. u \in Int /\ v \in Int /\ w \in Int BY <1>0, <1>1, <1>2
  <2> HIDE DEF u, v, w
  <2>3. u % POSMOD = v % POSMOD BY <1>0, <2>1, <2>2, ModStep
  <2> QED BY <2>3 DEF u, v
<1>6. a % BY2PIPE \in 0..(BY2PIPE - 1) BY <1>0, ModIs
<1> QED BY <1>4, <1>5, <1>6 DEF r

\* The unsigned difference of the positions is that of the counts.
LEMMA DistanceIs ==
  ASSUME NEW a \in Nat, NEW b \in Nat, a <= b, b <= a + BY2PIPE
  PROVE  ((b % POSMOD) - (a % POSMOD)) % POSMOD = b - a
<1>0. POSMOD \in Nat /\ POSMOD > 0 /\ BY2PIPE \in Nat /\ BY2PIPE < POSMOD BY PipeAssumption
<1> DEFINE r == a % POSMOD
           t == b % POSMOD
           u == t - r
           v == b - a
<1>1. PICK p \in Int : a = r + p * POSMOD /\ r = a + (-p) * POSMOD BY <1>0, ModIs
<1>2. PICK q \in Int : b = t + q * POSMOD /\ t = b + (-q) * POSMOD BY <1>0, ModIs
<1>3. r \in Int /\ t \in Int
  <2>1. r \in 0..(POSMOD - 1) /\ t \in 0..(POSMOD - 1) BY <1>0, ModIs
  <2> QED BY <1>0, <2>1
<1> HIDE DEF r, t
<1>4. PICK w \in Int : w = p - q BY <1>1, <1>2
<1>5. w * POSMOD = p * POSMOD - q * POSMOD BY <1>0, <1>1, <1>2, <1>4
<1>6. p * POSMOD \in Int /\ q * POSMOD \in Int BY <1>0, <1>1, <1>2
<1>7. u = v + w * POSMOD BY <1>1, <1>2, <1>3, <1>5, <1>6
<1>8. u \in Int /\ v \in Int /\ v >= 0 /\ v < POSMOD BY <1>0, <1>3
<1> HIDE DEF u, v
<1>9. u % POSMOD = v % POSMOD BY <1>0, <1>4, <1>7, <1>8, ModStep
<1>10. v % POSMOD = v BY <1>0, <1>8
<1>11. u % POSMOD = v BY <1>9, <1>10
<1> QED BY <1>11, Zenon DEF u, v, r, t

\* An env goes on to where with locals l and leaves the pipe alone.
Passes(e, where, l) ==
  /\ UNCHANGED <<build, p_rpos, p_wpos, p_buf, written, got>>
  /\ pc' = [pc EXCEPT ![e] = where] /\ loc' = [loc EXCEPT ![e] = l]
  /\ pc[e] # "r_end" /\ where \notin {"r_end", "w_end"}
  /\ where \in Reading => l.ret = "r_check"
  /\ where \in Writing => l.ret = "w_check"
  /\ where \in Reading \/ (where \in Checking /\ l.ret \in Reading) =>
       InCall(e, Reading) \/ \A f \in Env : ~InCall(f, Reading)
  /\ where \in Writing \/ (where \in Checking /\ l.ret \in Writing) =>
       InCall(e, Writing) \/ \A f \in Env : ~InCall(f, Writing)
  /\ where = "r_take" => p_rpos < p_wpos
  /\ where = "w_put" => (p_wpos - p_rpos) % POSMOD < BY2PIPE

\* Whose turn it is stays clear.
LEMMA TurnsKept ==
  ASSUME PipeInv, Turns, NEW e \in Env, NEW where, NEW l,
         pc' = [pc EXCEPT ![e] = where], loc' = [loc EXCEPT ![e] = l],
         where \in Reading => l.ret = "r_check",
         where \in Writing => l.ret = "w_check",
         where \in Reading \/ (where \in Checking /\ l.ret \in Reading) =>
           InCall(e, Reading) \/ \A f \in Env : ~InCall(f, Reading),
         where \in Writing \/ (where \in Checking /\ l.ret \in Writing) =>
           InCall(e, Writing) \/ \A f \in Env : ~InCall(f, Writing)
  PROVE  Turns'
<1>1. /\ pc'[e] = where /\ loc'[e] = l
      /\ \A f \in Env : f # e => pc'[f] = pc[f] /\ loc'[f] = loc[f]
  BY DEF PipeInv, PipeTypeOK
<1>2. \A f \in Env : f # e => /\ InCall(f, Reading)' <=> InCall(f, Reading)
                              /\ InCall(f, Writing)' <=> InCall(f, Writing)
  BY <1>1 DEF InCall, Reading, Writing
<1>3. /\ InCall(e, Reading)' => InCall(e, Reading) \/ \A f \in Env : ~InCall(f, Reading)
      /\ InCall(e, Writing)' => InCall(e, Writing) \/ \A f \in Env : ~InCall(f, Writing)
  BY <1>1 DEF InCall, Reading, Writing
<1>4. \A f \in Env : /\ pc'[f] \in Reading => loc'[f].ret = "r_check"
                     /\ pc'[f] \in Writing => loc'[f].ret = "w_check"
  BY <1>1 DEF Turns
<1>5. \A f, g \in Env : /\ InCall(f, Reading)' /\ InCall(g, Reading)' => f = g
                        /\ InCall(f, Writing)' /\ InCall(g, Writing)' => f = g
  BY <1>2, <1>3 DEF Turns
<1> QED BY <1>4, <1>5 DEF Turns, Reading, Writing

\* The counts are numbers and the positions are theirs.
LEMMA QueueIs ==
  ASSUME PipeInv, Queue
  PROVE  /\ Taken \in Nat /\ written \in Nat
         /\ p_rpos < p_wpos => Taken < written
         /\ (p_wpos - p_rpos) % POSMOD = written - Taken
         /\ p_rpos % BY2PIPE = Taken % BY2PIPE /\ p_wpos % BY2PIPE = written % BY2PIPE
         /\ (p_rpos + 1) % POSMOD = (Taken + 1) % POSMOD
         /\ (p_wpos + 1) % POSMOD = (written + 1) % POSMOD
<1>1. /\ Taken \in Nat /\ written \in Nat /\ Taken <= written /\ written <= Taken + BY2PIPE
      /\ p_rpos = Taken % POSMOD /\ p_wpos = written % POSMOD
      /\ p_rpos \in Int
  BY PipeAssumption DEF PipeInv, PipeTypeOK, Queue
<1>2. (p_wpos - p_rpos) % POSMOD = written - Taken BY <1>1, DistanceIs
<1>3. p_rpos < p_wpos => Taken < written
  <2> SUFFICES ASSUME p_rpos < p_wpos, Taken = written PROVE FALSE BY <1>1
  <2>1. p_rpos = p_wpos BY <1>1
  <2> QED BY <1>1, <2>1
<1>4. /\ p_rpos % BY2PIPE = Taken % BY2PIPE /\ (p_rpos + 1) % POSMOD = (Taken + 1) % POSMOD
  BY <1>1, PositionIs
<1>5. /\ p_wpos % BY2PIPE = written % BY2PIPE /\ (p_wpos + 1) % POSMOD = (written + 1) % POSMOD
  BY <1>1, PositionIs
<1> QED BY <1>1, <1>2, <1>3, <1>4, <1>5

\* Such a step keeps the queue.
LEMMA PassesKeeps ==
  ASSUME PipeInv, FifoInv, NEW e \in Env, NEW where, NEW l, Passes(e, where, l)
  PROVE  FifoInv'
<1>1. Turns' BY TurnsKept DEF Passes, FifoInv
<1>2. SUFFICES ASSUME build' = [read |-> "buf", write |-> "buf"] PROVE Queue'
  BY <1>1 DEF FifoInv
<1>3. Queue BY <1>2 DEF FifoInv, Passes
<1>4. UNCHANGED <<p_rpos, p_wpos, p_buf, written, got>> BY DEF Passes
<1>5. /\ pc'[e] = where /\ \A f \in Env : f # e => pc'[f] = pc[f]
      /\ pc[e] # "r_end" /\ where \notin {"r_end", "w_end"}
  BY DEF Passes, PipeInv, PipeTypeOK
<1>6. Taken' = Taken
  <2>1. (\E f \in Env : pc'[f] = "r_end") <=> (\E f \in Env : pc[f] = "r_end") BY <1>5
  <2> QED BY <1>4, <2>1 DEF Taken
<1>7. where = "r_take" => Taken < written BY <1>3, QueueIs DEF Passes
<1>8. where = "w_put" => written < Taken + BY2PIPE
  <2>1. where = "w_put" => written - Taken < BY2PIPE BY <1>3, QueueIs DEF Passes
  <2> QED BY <1>3, <2>1, QueueIs, PipeAssumption
<1>9. \A f \in Env : /\ pc'[f] \in {"r_take", "r_end"} => Taken < written
                     /\ pc'[f] \in {"w_put", "w_end"} => written < Taken + BY2PIPE
                     /\ pc'[f] = "w_end" => p_buf[written % BY2PIPE] = written + 1
  <2> TAKE f \in Env
  <2>1. CASE f = e BY <1>5, <1>7, <1>8, <2>1
  <2>2. CASE f # e BY <1>3, <1>5, <2>2 DEF Queue
  <2> QED BY <2>1, <2>2
<1> QED BY <1>3, <1>4, <1>6, <1>9 DEF Queue

\* An env that is in neither call goes on to somewhere that is in neither.
LEMMA OutsideKeeps ==
  ASSUME PipeInv, FifoInv, NEW e \in Env, NEW where \in {"none", "user", "close2", "dup_data", "dup_fd", "exit"},
         NEW l, UNCHANGED shared, pc' = [pc EXCEPT ![e] = where], loc' = [loc EXCEPT ![e] = l],
         pc[e] # "r_end"
  PROVE  FifoInv'
<1>1. Passes(e, where, l) BY DEF Passes, shared, Reading, Writing, Checking
<1> QED BY <1>1, PassesKeeps

\* An env goes on within _pipe_is_closed, or from the head of its loop into it.
LEMMA WithinKeeps ==
  ASSUME PipeInv, FifoInv, NEW e \in Env, NEW where \in Checking, NEW l, UNCHANGED shared,
         pc' = [pc EXCEPT ![e] = where], loc' = [loc EXCEPT ![e] = l],
         l.ret = loc[e].ret, pc[e] \in Checking \cup {"r_check", "w_check"}
  PROVE  FifoInv'
<1>1. /\ pc[e] = "r_check" => loc[e].ret = "r_check"
      /\ pc[e] = "w_check" => loc[e].ret = "w_check"
  BY DEF FifoInv, Turns, Reading, Writing
<1>2. /\ l.ret \in Reading => InCall(e, Reading)
      /\ l.ret \in Writing => InCall(e, Writing)
  BY <1>1 DEF InCall, Reading, Writing
<1>3. Passes(e, where, l)
  BY <1>2 DEF Passes, shared, Reading, Writing, Checking
<1> QED BY <1>3, PassesKeeps

\* The steps that do not touch the pipe.
LEMMA BeginFifo ==
  ASSUME PipeInv, FifoInv, NEW e \in Env, NEW n, Read(e, n) \/ Write(e, n)
  PROVE  FifoInv'
<1>1. PICK where \in {"r_check", "w_check"}, s \in Slot :
        /\ At(e, "user") /\ UNCHANGED <<shared, pages, stale>>
        /\ where = "r_check" => \A f \in Env : ~InCall(f, Reading)
        /\ where = "w_check" => \A f \in Env : ~InCall(f, Writing)
        /\ Goto(e, where, [Loc0 EXCEPT !.slot = s, !.n = n, !.ret = where])
  BY DEF Read, Write, Begin
<1> DEFINE l == [Loc0 EXCEPT !.slot = s, !.n = n, !.ret = where]
<1>2. l.ret = where BY DEF Loc0
<1>3. pc' = [pc EXCEPT ![e] = where] /\ loc' = [loc EXCEPT ![e] = l] /\ pc[e] = "user"
  BY <1>1 DEF Goto, At
<1> HIDE DEF l
<1>4. Passes(e, where, l) BY <1>1, <1>2, <1>3 DEF Passes, shared, Reading, Writing, Checking
<1> QED BY <1>4, PassesKeeps

\* The heads of the loops.
LEMMA HeadFifo ==
  ASSUME PipeInv, FifoInv, NEW e \in Env, r_check(e) \/ w_check(e)
  PROVE  FifoInv'
<1>1. /\ UNCHANGED shared /\ pc[e] \in {"r_check", "w_check"}
      /\ pc[e] = "r_check" => loc[e].ret = "r_check"
      /\ pc[e] = "w_check" => loc[e].ret = "w_check"
  BY DEF r_check, w_check, At, FifoInv, Turns, Reading, Writing
<1>2. \/ Goto(e, "user", Loc0) \/ Goto(e, "c_runs", loc[e])
      \/ Goto(e, "r_take", loc[e]) /\ p_rpos < p_wpos /\ pc[e] = "r_check"
      \/ Goto(e, "w_put", loc[e]) /\ (p_wpos - p_rpos) % POSMOD < BY2PIPE /\ pc[e] = "w_check"
  BY DEF r_check, w_check, At, Return
<1>3. CASE Goto(e, "user", Loc0) BY <1>1, <1>3, OutsideKeeps DEF Goto
<1>4. CASE Goto(e, "c_runs", loc[e])
  <2>1. pc' = [pc EXCEPT ![e] = "c_runs"] /\ loc' = [loc EXCEPT ![e] = loc[e]] /\ "c_runs" \in Checking
    BY <1>4 DEF Goto, Checking
  <2> QED BY <1>1, <2>1, WithinKeeps
<1>5. CASE Goto(e, "r_take", loc[e]) /\ p_rpos < p_wpos /\ pc[e] = "r_check"
  <2>1. InCall(e, Reading) BY <1>5 DEF InCall, Reading
  <2>2. Passes(e, "r_take", loc[e])
    BY <1>1, <1>5, <2>1 DEF Passes, Goto, shared, Reading, Writing, Checking
  <2> QED BY <2>2, PassesKeeps
<1>6. CASE Goto(e, "w_put", loc[e]) /\ (p_wpos - p_rpos) % POSMOD < BY2PIPE /\ pc[e] = "w_check"
  <2>1. InCall(e, Writing) BY <1>6 DEF InCall, Writing
  <2>2. Passes(e, "w_put", loc[e])
    BY <1>1, <1>6, <2>1 DEF Passes, Goto, shared, Reading, Writing, Checking
  <2> QED BY <2>2, PassesKeeps
<1> QED BY <1>2, <1>3, <1>4, <1>5, <1>6

\* _pipe_is_closed.
LEMMA CheckFifo ==
  ASSUME PipeInv, FifoInv, NEW e \in Env,
         c_runs(e) \/ c_fd(e) \/ c_pipe(e) \/ c_cmp(e) \/ pipe_is_closed(e) \/ yield(e)
  PROVE  FifoInv'
<1>1. loc[e] \in LocType /\ UNCHANGED shared
  BY OfOne DEF c_runs, c_fd, c_pipe, c_cmp, pipe_is_closed, yield
<1>2. ASSUME NEW where \in Checking, NEW l, Goto(e, where, l), l.ret = loc[e].ret, pc[e] \in Checking
      PROVE  FifoInv'
  BY <1>1, <1>2, WithinKeeps DEF Goto
<1>3. CASE c_runs(e)
  <2>1. Goto(e, "c_fd", loc[e]) /\ pc[e] \in Checking /\ "c_fd" \in Checking
    BY <1>3 DEF c_runs, At, Checking
  <2> QED BY <1>2, <2>1
<1>4. CASE c_fd(e)
  <2> DEFINE l == [loc[e] EXCEPT !.fdref = FdRef(fd[e][loc[e].slot])]
  <2>1. Goto(e, "c_pipe", l) /\ pc[e] \in Checking /\ "c_pipe" \in Checking
    BY <1>4 DEF c_fd, At, Checking
  <2>2. l.ret = loc[e].ret BY <1>1 DEF LocType
  <2> HIDE DEF l
  <2> QED BY <1>2, <2>1, <2>2
<1>5. CASE c_pipe(e)
  <2> DEFINE l == [loc[e] EXCEPT !.pref = PipeRef]
  <2>1. Goto(e, "c_cmp", l) /\ pc[e] \in Checking /\ "c_cmp" \in Checking
    BY <1>5 DEF c_pipe, At, Checking
  <2>2. l.ret = loc[e].ret BY <1>1 DEF LocType
  <2> HIDE DEF l
  <2> QED BY <1>2, <2>1, <2>2
<1>6. CASE c_cmp(e)
  <2> DEFINE l == [loc[e] EXCEPT !.fdref = 0, !.pref = 0]
  <2>1. pc[e] = "c_cmp" /\ (Goto(e, "c_runs", l) \/ Goto(e, "yield", l) \/ Goto(e, "user", Loc0))
    BY <1>6 DEF c_cmp, At, Return
  <2>2. l.ret = loc[e].ret BY <1>1 DEF LocType
  <2>3. pc[e] \in Checking /\ "c_runs" \in Checking /\ "yield" \in Checking BY <2>1 DEF Checking
  <2> HIDE DEF l
  <2>4. CASE Goto(e, "user", Loc0) BY <1>1, <2>1, <2>4, OutsideKeeps DEF Goto
  <2> QED BY <1>2, <2>1, <2>2, <2>3, <2>4
<1>7. CASE pipe_is_closed(e)
  <2>1. PICK s \in Slot : Goto(e, "c_runs", [Loc0 EXCEPT !.slot = s]) BY <1>7 DEF pipe_is_closed
  <2> DEFINE l == [Loc0 EXCEPT !.slot = s]
  <2>2. l.ret = "user" /\ pc[e] = "user" BY <1>7 DEF Loc0, pipe_is_closed, At
  <2>3. Goto(e, "c_runs", l) BY <2>1
  <2> HIDE DEF l
  <2>4. Passes(e, "c_runs", l)
    BY <1>1, <2>2, <2>3 DEF Passes, Goto, shared, Reading, Writing, Checking
  <2> QED BY <2>4, PassesKeeps
<1>8. CASE yield(e)
  <2>1. pc[e] = "yield" /\ pc' = [pc EXCEPT ![e] = loc[e].ret] /\ loc' = loc BY <1>8 DEF yield, At
  <2>2. loc[e].ret \in {"user", "r_check", "w_check"}
    BY <2>1, OfOne DEF Established, Checking
  <2>3. loc' = [loc EXCEPT ![e] = loc[e]] BY <2>1 DEF PipeInv, PipeTypeOK
  <2>4. /\ loc[e].ret = "r_check" => InCall(e, Reading)
        /\ loc[e].ret = "w_check" => InCall(e, Writing)
    BY <2>1 DEF InCall, Reading, Writing, Checking
  <2>5. Passes(e, loc[e].ret, loc[e])
    BY <1>1, <2>1, <2>2, <2>3, <2>4 DEF Passes, shared, Reading, Writing, Checking
  <2> QED BY <2>5, PassesKeeps
<1> QED BY <1>3, <1>4, <1>5, <1>6, <1>7, <1>8

\* close, dup and exit.
LEMMA DescriptorFifo ==
  ASSUME PipeInv, FifoInv, NEW e \in Env,
         Close(e) \/ close2(e) \/ Dup(e) \/ dup_data(e) \/ dup_fd(e) \/ Exit(e)
  PROVE  FifoInv'
<1>1. pc[e] # "r_end" /\ UNCHANGED shared
  BY DEF Close, close2, Dup, dup_data, dup_fd, Exit, CloseFd, At
<1>2. ASSUME NEW where \in {"user", "close2", "dup_data", "dup_fd", "exit"}, NEW l, Goto(e, where, l)
      PROVE  FifoInv'
  BY <1>1, <1>2, OutsideKeeps DEF Goto
<1>3. CASE close2(e)
  <2>1. loc[e].ret \in {"user", "dup_data", "exit"} BY <1>3, OfOne DEF close2, At, Established
  <2> QED BY <1>2, <1>3, <2>1 DEF close2
<1>4. CASE Close(e) \/ Dup(e) \/ dup_data(e) \/ dup_fd(e)
  BY <1>2, <1>4 DEF Close, Dup, dup_data, dup_fd, CloseFd, Return
<1>5. CASE Exit(e)
  <2>1. ASSUME NEW s \in Slot, CloseFd(e, s, [Loc0 EXCEPT !.to = s, !.ret = "exit"]) PROVE FifoInv'
    BY <1>2, <2>1 DEF CloseFd
  <2>2. CASE pc' = [pc EXCEPT ![e] = "none"] /\ loc' = [loc EXCEPT ![e] = Loc0]
    BY <1>1, <2>2, OutsideKeeps
  <2> QED BY <1>5, <2>1, <2>2 DEF Exit
<1> QED BY <1>3, <1>4, <1>5

\* A timer interrupt, or no step at all.
LEMMA StillFifo ==
  ASSUME FifoInv, UNCHANGED <<shared, pc, loc>>
  PROVE  FifoInv'
<1>1. UNCHANGED <<build, p_rpos, p_wpos, p_buf, written, got, pc, loc>> BY DEF shared
<1>2. Turns' BY <1>1 DEF FifoInv, Turns, InCall, Reading, Writing
<1>3. Queue => Queue' BY <1>1 DEF Queue, Taken
<1> QED BY <1>1, <1>2, <1>3 DEF FifoInv

\* The accesses keep whose turn it is; nobody else is at such an access of the same call.
LEMMA TransferTurns ==
  ASSUME PipeInv, FifoInv, NEW e \in Env, r_take(e) \/ r_end(e) \/ w_put(e) \/ w_end(e)
  PROVE  /\ Turns'
         /\ \A f \in Env : f # e => pc'[f] = pc[f]
         /\ pc[e] \in Reading => \A f \in Env : f # e => pc[f] \notin Reading
         /\ pc[e] \in Writing => \A f \in Env : f # e => pc[f] \notin Writing
<1> DEFINE next == [loc[e] EXCEPT !.i = @ + 1]
<1>1. PICK where \in {"r_end", "w_end", "r_check", "w_check"}, l \in {loc[e], next} :
        /\ Goto(e, where, l) /\ pc[e] \in Reading \cup Writing
        /\ pc[e] \in Reading <=> where \in Reading
        /\ pc[e] \in Writing <=> where \in Writing
  BY DEF r_take, r_end, w_put, w_end, At, Reading, Writing
<1>2. l.ret = loc[e].ret
  <2>1. next.ret = loc[e].ret BY OfOne DEF LocType
  <2> HIDE DEF next
  <2> QED BY <2>1
<1>3. /\ pc[e] \in Reading => loc[e].ret = "r_check" /\ InCall(e, Reading)
      /\ pc[e] \in Writing => loc[e].ret = "w_check" /\ InCall(e, Writing)
  BY DEF FifoInv, Turns, InCall
<1>4. where \notin Checking BY DEF Checking
<1>5. pc' = [pc EXCEPT ![e] = where] /\ loc' = [loc EXCEPT ![e] = l] BY <1>1 DEF Goto
<1> HIDE DEF next
<1>6. Turns
  BY DEF FifoInv
<1>7. Turns' BY <1>1, <1>2, <1>3, <1>4, <1>5, <1>6, TurnsKept
<1>8. \A f \in Env : f # e => pc'[f] = pc[f] BY <1>5 DEF PipeInv, PipeTypeOK
<1>9. /\ pc[e] \in Reading => \A f \in Env : f # e => pc[f] \notin Reading
      /\ pc[e] \in Writing => \A f \in Env : f # e => pc[f] \notin Writing
  BY <1>3, <1>6 DEF Turns, InCall
<1> QED BY <1>7, <1>8, <1>9

\* A reader takes a byte and then moves p_rpos.
LEMMA ReadFifo ==
  ASSUME PipeInv, FifoInv, NEW e \in Env, r_take(e) \/ r_end(e)
  PROVE  FifoInv'
<1>1. /\ Turns' /\ \A f \in Env : f # e => pc'[f] = pc[f] /\ pc[f] \notin Reading
      /\ pc[e] \in {"r_take", "r_end"}
  BY TransferTurns DEF r_take, r_end, At, Reading
<1>2. UNCHANGED <<build, p_wpos, p_buf, written>> BY DEF r_take, r_end
<1>3. SUFFICES ASSUME build = [read |-> "buf", write |-> "buf"] PROVE Queue'
  BY <1>1, <1>2 DEF FifoInv
<1>4. Queue /\ build.read = "buf" BY <1>3 DEF FifoInv
<1>5. /\ Taken \in Nat /\ written \in Nat /\ BY2PIPE \in Nat /\ got \in Seq(Nat) /\ Len(got) \in Nat
      /\ p_rpos % BY2PIPE = Taken % BY2PIPE
      /\ (p_rpos + 1) % POSMOD = (Taken + 1) % POSMOD
  <2>1. BY2PIPE \in Nat /\ got \in Seq(Nat) BY PipeAssumption DEF PipeInv, PipeTypeOK
  <2>2. Len(got) \in Nat BY <2>1
  <2> QED BY <1>4, <2>1, <2>2, QueueIs
<1>6. Taken < written BY <1>1, <1>4 DEF Queue
<1>7. CASE r_take(e)
  <2>1. /\ got' = Append(got, p_buf[p_rpos % BY2PIPE]) /\ p_rpos' = p_rpos /\ pc'[e] = "r_end"
        /\ pc[e] = "r_take"
    BY <1>4, <1>7 DEF r_take, At, Goto, PipeInv, PipeTypeOK
  <2>2. Taken = Len(got)
    <3>1. ~\E f \in Env : pc[f] = "r_end" BY <1>1, <2>1 DEF Reading
    <3> QED BY <1>5, <3>1 DEF Taken
  <2>3. p_buf[p_rpos % BY2PIPE] = Taken + 1
    <3>1. Taken + 1 \in (Taken + 1)..written /\ (Taken + 1) - 1 = Taken BY <1>5, <1>6
    <3>2. p_buf[((Taken + 1) - 1) % BY2PIPE] = Taken + 1 BY <1>4, <3>1 DEF Queue
    <3> QED BY <1>5, <3>1, <3>2
  <2>4. Len(got') = Len(got) + 1 /\ DOMAIN got' = 1..(Len(got) + 1)
        /\ \A k \in DOMAIN got' : got'[k] = IF k = Len(got) + 1 THEN Taken + 1 ELSE got[k]
    <3>1. p_buf[p_rpos % BY2PIPE] \in Nat BY <1>5, <2>3
    <3> QED BY <1>5, <2>1, <2>3, <3>1
  <2>5. Taken' = Taken
    <3>1. \E f \in Env : pc'[f] = "r_end" BY <2>1
    <3>2. Taken' = Len(got') - 1 BY <3>1 DEF Taken
    <3> QED BY <1>5, <2>2, <2>4, <3>2
  <2>6. \A k \in DOMAIN got' : got'[k] = k
    <3> TAKE k \in DOMAIN got'
    <3>1. CASE k = Len(got) + 1 BY <2>2, <2>4, <3>1
    <3>2. CASE k # Len(got) + 1
      <4>1. k \in 1..Len(got) BY <1>5, <2>4, <3>2
      <4>2. k \in DOMAIN got BY <1>5, <4>1
      <4> QED BY <1>4, <2>4, <3>2, <4>2 DEF Queue
    <3> QED BY <3>1, <3>2
  <2>7. \A f \in Env : /\ pc'[f] \in {"r_take", "r_end"} => Taken < written
                       /\ pc'[f] \in {"w_put", "w_end"} => written < Taken + BY2PIPE
                       /\ pc'[f] = "w_end" => p_buf[written % BY2PIPE] = written + 1
    <3> TAKE f \in Env
    <3>1. CASE f = e BY <1>6, <2>1, <3>1
    <3>2. CASE f # e BY <1>1, <1>4, <3>2 DEF Queue
    <3> QED BY <3>1, <3>2
  <2> QED BY <1>2, <1>4, <2>1, <2>5, <2>6, <2>7 DEF Queue
<1>8. CASE r_end(e)
  <2>1. /\ got' = got /\ p_rpos' = (p_rpos + 1) % POSMOD /\ pc'[e] = "r_check" /\ pc[e] = "r_end"
    BY <1>4, <1>8 DEF r_end, At, Goto, PipeInv, PipeTypeOK
  <2>2. Taken = Len(got) - 1
    <3>1. \E f \in Env : pc[f] = "r_end" BY <2>1
    <3> QED BY <3>1 DEF Taken
  <2>3. Taken' = Taken + 1
    <3>1. ~\E f \in Env : pc'[f] = "r_end" BY <1>1, <2>1 DEF Reading
    <3>2. Taken' = Len(got') - 0 BY <3>1 DEF Taken
    <3> QED BY <1>5, <2>1, <2>2, <3>2
  <2>4. \A f \in Env : /\ pc'[f] \notin {"r_take", "r_end"}
                       /\ pc'[f] \in {"w_put", "w_end"} => written < Taken + 1 + BY2PIPE
                       /\ pc'[f] = "w_end" => p_buf[written % BY2PIPE] = written + 1
    <3> TAKE f \in Env
    <3>1. CASE f = e BY <2>1, <3>1
    <3>2. CASE f # e
      <4>1. pc'[f] = pc[f] /\ pc[f] \notin {"r_take", "r_end"} BY <1>1, <3>2 DEF Reading
      <4>2. pc[f] \in {"w_put", "w_end"} => written < Taken + BY2PIPE BY <1>4 DEF Queue
      <4>3. pc[f] = "w_end" => p_buf[written % BY2PIPE] = written + 1 BY <1>4 DEF Queue
      <4> QED BY <1>5, <4>1, <4>2, <4>3
    <3> QED BY <3>1, <3>2
  <2>5. \A k \in (Taken + 1 + 1)..written : p_buf[(k - 1) % BY2PIPE] = k
    <3>1. \A k \in (Taken + 1 + 1)..written : k \in (Taken + 1)..written BY <1>5
    <3> QED BY <1>4, <3>1 DEF Queue
  <2>6. Taken + 1 \in Nat /\ Taken + 1 <= written /\ written <= Taken + 1 + BY2PIPE
    BY <1>4, <1>5, <1>6 DEF Queue
  <2>7. p_wpos = written % POSMOD /\ \A k \in DOMAIN got : got[k] = k BY <1>4 DEF Queue
  <2> QED BY <1>2, <1>5, <2>1, <2>3, <2>4, <2>5, <2>6, <2>7 DEF Queue
<1> QED BY <1>7, <1>8

\* A writer puts a byte in and then moves p_wpos.
LEMMA WriteFifo ==
  ASSUME PipeInv, FifoInv, NEW e \in Env, w_put(e) \/ w_end(e)
  PROVE  FifoInv'
<1>1. /\ Turns' /\ \A f \in Env : f # e => pc'[f] = pc[f] /\ pc[f] \notin Writing
      /\ pc[e] \in {"w_put", "w_end"}
  BY TransferTurns DEF w_put, w_end, At, Writing
<1>2. UNCHANGED <<build, p_rpos, got>> BY DEF w_put, w_end
<1>3. SUFFICES ASSUME build = [read |-> "buf", write |-> "buf"] PROVE Queue'
  BY <1>1, <1>2 DEF FifoInv
<1>4. Queue /\ build.write = "buf" BY <1>3 DEF FifoInv
<1>5. /\ Taken \in Nat /\ written \in Nat /\ BY2PIPE \in Nat /\ BY2PIPE > 0
      /\ p_wpos % BY2PIPE = written % BY2PIPE
      /\ (p_wpos + 1) % POSMOD = (written + 1) % POSMOD
      /\ written % BY2PIPE \in 0..(BY2PIPE - 1)
  <2>1. BY2PIPE \in Nat /\ BY2PIPE > 0 BY PipeAssumption
  <2>2. written \in Nat BY <1>4, QueueIs
  <2>3. written % BY2PIPE \in 0..(BY2PIPE - 1) BY <2>2, PositionIs
  <2> QED BY <1>4, <2>1, <2>3, QueueIs
<1>6. written < Taken + BY2PIPE BY <1>1, <1>4 DEF Queue
<1>7. Taken' = Taken
  <2>1. pc'[e] # "r_end" /\ pc[e] # "r_end"
    BY <1>1 DEF w_put, w_end, Goto, PipeInv, PipeTypeOK
  <2>2. (\E f \in Env : pc'[f] = "r_end") <=> (\E f \in Env : pc[f] = "r_end") BY <1>1, <2>1
  <2> QED BY <1>2, <2>2 DEF Taken
<1>8. CASE w_put(e)
  <2>1. /\ p_buf' = [p_buf EXCEPT ![p_wpos % BY2PIPE] = written + 1] /\ p_wpos' = p_wpos
        /\ pc'[e] = "w_end" /\ pc[e] = "w_put" /\ written' = written
    BY <1>4, <1>8 DEF w_put, At, Goto, PipeInv, PipeTypeOK
  <2>2. /\ p_buf'[written % BY2PIPE] = written + 1
        /\ \A i \in 0..(BY2PIPE - 1) : i # written % BY2PIPE => p_buf'[i] = p_buf[i]
    <3>1. p_buf \in [0..(BY2PIPE - 1) -> Nat] BY DEF PipeInv, PipeTypeOK
    <3> QED BY <1>5, <2>1, <3>1
  <2>3. \A k \in (Taken + 1)..written : p_buf'[(k - 1) % BY2PIPE] = k
    <3> TAKE k \in (Taken + 1)..written
    <3> DEFINE a == k - 1
    <3>1. a \in Nat /\ a < written /\ written < a + BY2PIPE BY <1>5, <1>6
    <3>2. p_buf[a % BY2PIPE] = k BY <1>4 DEF Queue
    <3> HIDE DEF a
    <3>3. a % BY2PIPE # written % BY2PIPE BY <1>5, <3>1, ModDiffers
    <3>4. a % BY2PIPE \in 0..(BY2PIPE - 1) BY <3>1, PositionIs
    <3>5. p_buf'[a % BY2PIPE] = k BY <2>2, <3>2, <3>3, <3>4
    <3> QED BY <3>5 DEF a
  <2>4. \A f \in Env : /\ pc'[f] \in {"r_take", "r_end"} => Taken < written
                       /\ pc'[f] \in {"w_put", "w_end"} => written < Taken + BY2PIPE
                       /\ pc'[f] = "w_end" => p_buf'[written % BY2PIPE] = written + 1
    <3> TAKE f \in Env
    <3>1. CASE f = e BY <1>6, <2>1, <2>2, <3>1
    <3>2. CASE f # e
      <4>1. pc'[f] = pc[f] /\ pc[f] \notin {"w_put", "w_end"} BY <1>1, <3>2 DEF Writing
      <4> QED BY <1>4, <4>1 DEF Queue
    <3> QED BY <3>1, <3>2
  <2> QED BY <1>2, <1>4, <1>7, <2>1, <2>3, <2>4 DEF Queue
<1>9. CASE w_end(e)
  <2>1. /\ p_buf' = p_buf /\ p_wpos' = (p_wpos + 1) % POSMOD /\ pc'[e] = "w_check" /\ pc[e] = "w_end"
        /\ written' = written + 1
    BY <1>4, <1>9 DEF w_end, At, Goto, PipeInv, PipeTypeOK
  <2>2. p_buf[written % BY2PIPE] = written + 1 BY <1>4, <2>1 DEF Queue
  <2>3. \A k \in (Taken + 1)..(written + 1) : p_buf[(k - 1) % BY2PIPE] = k
    <3> TAKE k \in (Taken + 1)..(written + 1)
    <3>1. CASE k = written + 1
      <4>1. k - 1 = written BY <1>5, <3>1
      <4> QED BY <2>2, <3>1, <4>1
    <3>2. CASE k # written + 1
      <4>1. k \in (Taken + 1)..written BY <1>5, <3>2
      <4> QED BY <1>4, <4>1 DEF Queue
    <3> QED BY <3>1, <3>2
  <2>4. \A f \in Env : /\ pc'[f] \in {"r_take", "r_end"} => Taken < written + 1
                       /\ pc'[f] \notin {"w_put", "w_end"}
    <3> TAKE f \in Env
    <3>1. CASE f = e BY <2>1, <3>1
    <3>2. CASE f # e
      <4>1. pc'[f] = pc[f] /\ pc[f] \notin {"w_put", "w_end"} BY <1>1, <3>2 DEF Writing
      <4>2. pc[f] \in {"r_take", "r_end"} => Taken < written BY <1>4 DEF Queue
      <4> QED BY <1>5, <4>1, <4>2
    <3> QED BY <3>1, <3>2
  <2>5. Taken <= written + 1 /\ written + 1 <= Taken + BY2PIPE BY <1>4, <1>5, <1>6 DEF Queue
  <2>6. p_rpos = Taken % POSMOD /\ \A k \in DOMAIN got : got[k] = k BY <1>4 DEF Queue
  <2> QED BY <1>2, <1>5, <1>7, <2>1, <2>3, <2>4, <2>5, <2>6 DEF Queue
<1> QED BY <1>8, <1>9

\* Every step keeps it.
LEMMA FifoStep == PipeInv /\ FifoInv /\ [PipeNext]_pvars => FifoInv'
<1> SUFFICES ASSUME PipeInv, FifoInv, [PipeNext]_pvars PROVE FifoInv' OBVIOUS
<1>1. CASE UNCHANGED pvars BY <1>1, StillFifo DEF pvars
<1>2. ASSUME NEW e \in Env, Switch(e) PROVE FifoInv' BY <1>2, StillFifo DEF Switch
<1>3. ASSUME NEW e \in Env, Progress(e) PROVE FifoInv'
  BY <1>3, HeadFifo, ReadFifo, WriteFifo, CheckFifo, DescriptorFifo DEF Progress
<1>4. ASSUME NEW e \in Env, UserCall(e) PROVE FifoInv'
  BY <1>4, BeginFifo, CheckFifo, DescriptorFifo DEF UserCall
<1> QED BY <1>1, <1>2, <1>3, <1>4 DEF PipeNext

\* At the start the pipe is empty and nobody is in a call.
LEMMA FifoInitially == Init => FifoInv
<1> SUFFICES ASSUME Init PROVE FifoInv OBVIOUS
<1>1. \A e \in Env : pc[e] \in {"user", "none"} BY DEF Init
<1>2. Turns BY <1>1 DEF Turns, InCall, Reading, Writing, Checking
<1>3. Taken = 0 /\ written = 0
  <2>1. ~\E e \in Env : pc[e] = "r_end" BY <1>1
  <2> QED BY <2>1 DEF Taken, Init
<1>4. 0 % POSMOD = 0 /\ BY2PIPE \in Nat BY PipeAssumption
<1>5. /\ p_rpos = Taken % POSMOD /\ p_wpos = written % POSMOD
      /\ DOMAIN got = {} /\ (Taken + 1)..written = {}
  BY <1>3, <1>4 DEF Init
<1>6. Queue BY <1>1, <1>3, <1>4, <1>5 DEF Queue
<1> QED BY <1>2, <1>6 DEF FifoInv

\* pipe_read and pipe_write: whatever interleaves, the bytes come out as they went in, for
\* any size of the buffer and also when the positions wrap, in a build that accesses
\* p_buf before it moves the position.
THEOREM PipeFifo == PipeSpec => []Fifo
<1>1. PipeInv /\ FifoInv => Fifo
  <2> SUFFICES ASSUME PipeInv, FifoInv, build = [read |-> "buf", write |-> "buf"]
      PROVE  /\ \A k \in DOMAIN got : got[k] = k
             /\ Len(got) <= written /\ written <= Len(got) + BY2PIPE
    BY DEF Fifo
  <2>1. /\ Queue /\ written \in Nat /\ BY2PIPE \in Nat /\ Len(got) \in Nat
    BY PipeAssumption DEF FifoInv, PipeInv, PipeTypeOK
  <2>2. CASE \E e \in Env : pc[e] = "r_end"
    <3>1. Taken = Len(got) - 1 BY <2>2 DEF Taken
    <3>2. Taken < written BY <2>1, <2>2 DEF Queue
    <3> QED BY <2>1, <3>1, <3>2 DEF Queue
  <2>3. CASE ~\E e \in Env : pc[e] = "r_end"
    <3>1. Taken = Len(got) - 0 BY <2>3 DEF Taken
    <3>2. Taken = Len(got) BY <2>1, <3>1
    <3> QED BY <2>1, <3>2 DEF Queue
  <2> QED BY <2>2, <2>3
<1>2. PipeSpec => []FifoInv BY FifoInitially, FifoStep, PipeAlways, PTL DEF PipeSpec
<1> QED BY <1>1, <1>2, PipeAlways, PTL
================================================================================
