------------------------------ MODULE LibEnv_proofs ------------------------------
(***************************************************************************)
(* The library's use of the kernel keeps the run list intact: LibInv is an *)
(* inductive invariant of LibSpec, for every size of the table.  Its       *)
(* kernel part is inherited: a library step is a step of EnvKernel or      *)
(* leaves the kernel alone.                                                *)
(***************************************************************************)
EXTENDS LibEnv, EnvKernel_proofs

\* Every set of envs is finite.
LEMMA ElemFinite == IsFiniteSet(Elem) /\ \A S \in SUBSET Elem : IsFiniteSet(S)
<1>1. 0 \in Int /\ NENV \in Int
  BY KernelAssumption
<1>2. IsFiniteSet(0..NENV)
  BY <1>1, FS_Interval
<1>3. IsFiniteSet(Elem)
  BY <1>2, KernelAssumption
<1>4. QED
  BY <1>3, FS_Subset

\* An envid that envid2env accepts is the id of some env.
LEMMA FoundIsId ==
  ASSUME NEW envid \in Ids \cup {NULL}, NEW checkperm \in BOOLEAN,
         envid2env(envid, checkperm) # NULL
  PROVE  envid \in EnvIds
<1>1. CASE envid = NULL
  BY <1>1 DEF EnvIds
<1>2. CASE envid # NULL
  <2>1. ENVX(envid) \in Elem
    BY <1>2, KernelAssumption DEF ENVX, Ids
  <2>2. env_id[ENVX(envid)] = envid
    BY <1>2 DEF envid2env
  <2>3. QED
    BY <2>1, <2>2 DEF EnvIds
<1>3. QED
  BY <1>1, <1>2

\* Before the first step nothing is queued.
LEMMA LibInitially == LibInit => LibInv
<1> SUFFICES ASSUME LibInit PROVE LibInv
  OBVIOUS
<1>1. KernelInv
  BY KernelInitially DEF LibInit
<1>2. Live = {} /\ Runnables = {}
  BY DEF LibInit, Init, Live, Runnables, FREE, RUNNABLE
<1>3. LibTypeOK
  BY <1>1 DEF KernelInv, LibInit, LibTypeOK, Pc
<1>4. SchedListIffRunnable
  BY <1>2, HoldsInit DEF SchedListIffRunnable, LibInit, Init
<1>5. OnlyEmptyHalts /\ CurRunnable /\ ArgsNamed /\ BlockedOrBuilt
  BY <1>2 DEF OnlyEmptyHalts, CurRunnable, ArgsNamed, BlockedOrBuilt, Running, LibInit, Init
<1>6. QED
  BY <1>1, <1>3, <1>4, <1>5 DEF LibInv

\* LibInv is about the variables of the module and nothing else.
LEMMA LibStutter == LibInv /\ UNCHANGED vars => LibInv'
<1> SUFFICES ASSUME LibInv, UNCHANGED vars PROVE LibInv'
  OBVIOUS
<1>1. UNCHANGED kvars /\ KernelInv'
  BY KernelStutter DEF LibInv, vars
<1>2. LibTypeOK'
  BY <1>1 DEF LibInv, LibTypeOK, KernelInv, vars, Ids
<1>3. SchedListIffRunnable' /\ OnlyEmptyHalts' /\ CurRunnable'
  BY <1>1 DEF LibInv, SchedListIffRunnable, OnlyEmptyHalts, CurRunnable, Running,
              Runnables, kvars, runVars
<1>4. BlockedOrBuilt' /\ ArgsNamed'
  BY <1>1 DEF LibInv, BlockedOrBuilt, ArgsNamed, Live, ENVX, Ids, vars, kvars, ipcVars,
              envVars
<1>5. QED
  BY <1>1, <1>2, <1>3, <1>4 DEF LibInv

-----------------------------------------------------------------------------
(* The scheduler on an intact list.                                        *)

\* On a list that holds exactly the runnable envs schedule rotates without losing
\* one, dispatches a runnable env, and stops only when there is none.
LEMMA ScheduleHolds ==
  ASSUME NEW yield \in BOOLEAN, NEW e \in Elem \cup {NULL}, NEW q \in TailQ,
         NEW st \in [Elem -> Status],
         Holds(q, {f \in Elem : st[f] = RUNNABLE}),
         halted = "no", schedule(yield, e, q, st)
  PROVE  /\ Holds(env_sched_list', {f \in Elem : st[f] = RUNNABLE})
         /\ halted' \in {"no", "empty"}
         /\ halted' = "empty" => {f \in Elem : st[f] = RUNNABLE} = {}
         /\ halted' = "no" => curenv' \in {f \in Elem : st[f] = RUNNABLE}
<1> DEFINE S == {f \in Elem : st[f] = RUNNABLE}
           over == yield \/ count = 0 \/ e = NULL \/ st[e] # RUNNABLE
           rot  == over /\ e # NULL /\ st[e] = RUNNABLE
           q1   == IF rot THEN TAILQ_INSERT_TAIL(TAILQ_REMOVE(q, e), e) ELSE q
           new  == IF over THEN TAILQ_FIRST(q1) ELSE e
<1>1. S \in SUBSET Elem /\ IsFiniteSet(S)
  BY ElemFinite
<1>2. Holds(q1, S) /\ q1 \in TailQ
  <2>1. CASE rot
    <3>1. e \in Elem /\ e \in S
      BY <2>1
    <3> HIDE DEF S
    <3> DEFINE m == TAILQ_REMOVE(q, e)
               R == S \ {e}
    <3>2. Holds(m, R) /\ ~RemoveFaults(q, e)
      BY <1>1, <3>1, HoldsRemove DEF S
    <3>3. m \in TailQ
      BY <3>1, <3>2, RemoveType
    <3>4. R \in SUBSET Elem /\ IsFiniteSet(R) /\ e \notin R /\ R \cup {e} = S
      BY <1>1, <3>1, ElemFinite
    <3> HIDE DEF m, R
    <3>5. Holds(TAILQ_INSERT_TAIL(m, e), R \cup {e})
      BY <3>1, <3>2, <3>3, <3>4, HoldsInsertTail
    <3>6. TAILQ_INSERT_TAIL(m, e) \in TailQ
      BY <3>1, <3>3, InsertTailType
    <3>7. q1 = TAILQ_INSERT_TAIL(m, e)
      BY <2>1 DEF m
    <3>8. QED
      BY <3>4, <3>5, <3>6, <3>7
  <2>2. CASE ~rot
    BY <2>2
  <2>3. QED
    BY <2>1, <2>2
<1>3. /\ env_sched_list' = q1
      /\ \/ new = NULL /\ halted' = "empty"
         \/ /\ new # NULL
            /\ \/ st[new] = RUNNABLE /\ curenv' = new /\ halted' = halted
               \/ st[new] # RUNNABLE
  BY DEF schedule
<1>4. ~over => e \in S
  OBVIOUS
<1>5. (TAILQ_FIRST(q1) = NULL <=> S = {}) /\ (S # {} => TAILQ_FIRST(q1) \in S)
  <2> HIDE DEF q1, S
  <2>1. QED
    BY <1>1, <1>2, HoldsFirst
<1>6. (new = NULL => S = {}) /\ (new # NULL => new \in S)
  <2> HIDE DEF q1, S
  <2>1. CASE over
    BY <1>5, <2>1
  <2>2. CASE ~over
    <3>1. e \in S /\ new = e
      BY <1>4, <2>2
    <3>2. e # NULL
      BY <2>2
    <3>3. QED
      BY <3>1, <3>2
  <2>3. QED
    BY <2>1, <2>2
<1>7. new \in S => st[new] = RUNNABLE
  <2> HIDE DEF new
  <2>1. QED
    OBVIOUS
<1> HIDE DEF S, new, q1, over
<1>8. Holds(env_sched_list', S) /\ halted' \in {"no", "empty"}
      /\ (halted' = "empty" => S = {}) /\ (halted' = "no" => curenv' \in S)
  BY <1>2, <1>3, <1>6, <1>7
<1>9. QED
  BY <1>8 DEF S

-----------------------------------------------------------------------------
(* One lemma per library step.                                             *)

\* What LibInv says of the env that has the CPU.
LEMMA LibRunning ==
  ASSUME LibInv, Running
  PROVE  /\ halted = "no" /\ curenv \in Elem /\ curenv # NULL
         /\ curenv \in Live /\ curenv \in Runnables
         /\ env_id[curenv] \in Ids /\ ~env_ipc_recving[curenv]
         /\ env_sched_list \in TailQ /\ Holds(env_sched_list, Runnables)
         /\ Runnables \in SUBSET Elem /\ IsFiniteSet(Runnables)
         /\ env_status \in [Elem -> Status]
<1>1. /\ halted = "no" /\ curenv \in Elem /\ curenv # NULL /\ curenv \in Live
      /\ env_id[curenv] \in Ids /\ env_sched_list \in TailQ
  BY RunningBooted DEF LibInv, Running
<1>2. curenv \in Runnables
  BY DEF LibInv, CurRunnable
<1>3. ~env_ipc_recving[curenv]
  BY <1>2 DEF LibInv, BlockedOrBuilt, Runnables, RUNNABLE, NOT_RUNNABLE
<1>4. Holds(env_sched_list, Runnables)
  BY <1>1 DEF LibInv, SchedListIffRunnable
<1>5. Runnables \in SUBSET Elem
  BY DEF Runnables
<1>6. IsFiniteSet(Runnables)
  BY <1>5, ElemFinite
<1>7. env_status \in [Elem -> Status]
  BY DEF LibInv, LibTypeOK, TypeOK
<1>8. QED
  BY <1>1, <1>2, <1>3, <1>4, <1>5, <1>6, <1>7

\* The run list after a reschedule of curenv.
LEMMA RescheduleList ==
  ASSUME LibInv, halted = "no", NEW yield \in BOOLEAN,
         schedule(yield, curenv, env_sched_list, env_status), UNCHANGED env_status
  PROVE  SchedListIffRunnable' /\ OnlyEmptyHalts' /\ CurRunnable'
<1>1. /\ curenv \in Elem \cup {NULL} /\ env_sched_list \in TailQ
      /\ env_status \in [Elem -> Status]
      /\ Holds(env_sched_list, {f \in Elem : env_status[f] = RUNNABLE})
  BY DEF LibInv, LibTypeOK, TypeOK, SchedListIffRunnable, Runnables
<1>2. /\ Holds(env_sched_list', {f \in Elem : env_status[f] = RUNNABLE})
      /\ halted' \in {"no", "empty"}
      /\ halted' = "empty" => {f \in Elem : env_status[f] = RUNNABLE} = {}
      /\ halted' = "no" => curenv' \in {f \in Elem : env_status[f] = RUNNABLE}
  BY <1>1, ScheduleHolds
<1>3. QED
  BY <1>2 DEF SchedListIffRunnable, OnlyEmptyHalts, CurRunnable, Runnables, Running

\* The child of a fork is alive, blocked, and the child of no other fork.
LEMMA ForkChild ==
  ASSUME LibInv, NEW f \in Live, pc[f] = "fork"
  PROVE  /\ f \in Elem /\ arg[f] \in Ids /\ ENVX(arg[f]) \in Elem
         /\ ENVX(arg[f]) \in Live /\ ENVX(arg[f]) \notin Runnables
         /\ env_status[ENVX(arg[f])] = NOT_RUNNABLE /\ ~env_ipc_recving[ENVX(arg[f])]
         /\ env_id[ENVX(arg[f])] = arg[f] /\ env_parent_id[ENVX(arg[f])] = env_id[f]
         /\ \A g \in Live : pc[g] = "fork" /\ ENVX(arg[g]) = ENVX(arg[f]) => g = f
<1>1. f \in Elem /\ arg[f] \in Ids
  BY DEF Live, LibInv, ArgsNamed
<1>2. ENVX(arg[f]) \in Elem
  BY <1>1, KernelAssumption DEF ENVX, Ids
<1>3. /\ env_status[ENVX(arg[f])] = NOT_RUNNABLE /\ ~env_ipc_recving[ENVX(arg[f])]
      /\ env_id[ENVX(arg[f])] = arg[f] /\ env_parent_id[ENVX(arg[f])] = env_id[f]
  BY <1>1 DEF LibInv, BlockedOrBuilt
<1>4. ENVX(arg[f]) \in Live /\ ENVX(arg[f]) \notin Runnables
  BY <1>2, <1>3 DEF Live, Runnables, FREE, RUNNABLE, NOT_RUNNABLE
<1>5. ASSUME NEW g \in Live, pc[g] = "fork", ENVX(arg[g]) = ENVX(arg[f])
      PROVE  g = f
  <2>1. env_parent_id[ENVX(arg[g])] = env_id[g]
    BY <1>5 DEF LibInv, BlockedOrBuilt, Live
  <2>2. env_id[g] = env_id[f]
    BY <1>3, <1>5, <2>1
  <2>3. QED
    BY <2>2 DEF LibInv, KernelInv, IdsOwned
<1>6. QED
  BY <1>1, <1>2, <1>3, <1>4, <1>5

\* env_alloc disturbs no receiver and no other fork's child.
LEMMA AllocKeepsBuilt ==
  ASSUME LibInv, NEW e \in Elem, e \notin Live, NEW parent, env_alloc(e, parent),
         \/ UNCHANGED env_status /\ Live' = Live
         \/ Live' = Live \cup {e} /\ \E st \in Status : env_status' = [env_status EXCEPT ![e] = st],
         UNCHANGED <<ipcVars, pc, arg>>
  PROVE  BlockedOrBuilt'
<1>1. /\ env_id \in [Elem -> Ids \cup {NULL}] /\ env_status \in [Elem -> Status]
      /\ env_parent_id \in [Elem -> Ids \cup {NULL}] /\ pc[e] = "user"
  BY DEF LibInv, LibTypeOK, TypeOK, ArgsNamed
<1>2. \A f \in Elem : f # e => /\ env_status'[f] = env_status[f] /\ env_id'[f] = env_id[f]
                               /\ env_parent_id'[f] = env_parent_id[f]
  BY <1>1 DEF env_alloc
<1>3. \A f \in Elem : env_ipc_recving'[f] => f # e /\ env_status'[f] = NOT_RUNNABLE
                                             /\ pc'[f] = "recv"
  BY <1>2 DEF LibInv, BlockedOrBuilt, Live, NOT_RUNNABLE, FREE, ipcVars
<1>4. ASSUME NEW f \in Live', pc'[f] = "fork"
      PROVE  LET c == ENVX(arg'[f]) IN
             /\ env_status'[c] = NOT_RUNNABLE /\ ~env_ipc_recving'[c]
             /\ env_id'[c] = arg'[f] /\ env_parent_id'[c] = env_id'[f]
  <2> DEFINE c == ENVX(arg[f])
  <2>1. f # e /\ f \in Live /\ f \in Elem
    BY <1>1, <1>4 DEF Live
  <2>2. /\ c \in Elem /\ c \in Live /\ env_status[c] = NOT_RUNNABLE /\ ~env_ipc_recving[c]
        /\ env_id[c] = arg[f] /\ env_parent_id[c] = env_id[f]
    BY <1>4, <2>1, ForkChild
  <2>3. c # e
    BY <2>2
  <2> HIDE DEF c
  <2>4. /\ env_status'[c] = NOT_RUNNABLE /\ ~env_ipc_recving'[c]
        /\ env_id'[c] = arg'[f] /\ env_parent_id'[c] = env_id'[f]
    BY <1>2, <2>1, <2>2, <2>3 DEF ipcVars
  <2>5. QED
    BY <2>4 DEF c, ENVX
<1>5. QED
  BY <1>3, <1>4 DEF BlockedOrBuilt

\* A timer interrupt.
LEMMA TickKeeps == ASSUME LibInv, Tick, KernelInv' PROVE LibInv'
<1>1. /\ halted = "no" /\ schedule(FALSE, curenv, env_sched_list, env_status)
      /\ UNCHANGED <<env_status, ipcVars, envVars, pc, arg>>
  BY DEF Tick, Timer
<1>2. SchedListIffRunnable' /\ OnlyEmptyHalts' /\ CurRunnable'
  BY <1>1, RescheduleList
<1>3. LibTypeOK' /\ BlockedOrBuilt' /\ ArgsNamed'
  BY <1>1 DEF LibInv, LibTypeOK, KernelInv, BlockedOrBuilt, ArgsNamed, Live, ENVX, Ids,
              ipcVars, envVars
<1>4. QED
  BY <1>2, <1>3 DEF LibInv

\* A yield, by itself or in ipc_send's loop.
LEMMA YieldKeeps ==
  ASSUME LibInv, Yield \/ IpcSendYield, KernelInv'
  PROVE  LibInv'
<1>1. /\ Running /\ schedule(TRUE, curenv, env_sched_list, env_status)
      /\ UNCHANGED <<env_status, ipcVars, envVars>>
      /\ \/ UNCHANGED <<pc, arg>>
         \/ /\ pc[curenv] = "send" /\ pc' = [pc EXCEPT ![curenv] = "retry"]
            /\ arg' = [arg EXCEPT ![curenv] = arg[curenv]]
  BY DEF Yield, IpcSendYield, At, Goto, sys_yield
<1>2. halted = "no" /\ curenv \in Elem /\ ~env_ipc_recving[curenv]
  BY <1>1, LibRunning
<1>3. SchedListIffRunnable' /\ OnlyEmptyHalts' /\ CurRunnable'
  BY <1>1, <1>2, RescheduleList
<1>4. LibTypeOK' /\ ArgsNamed'
  BY <1>1, <1>2 DEF LibInv, LibTypeOK, KernelInv, ArgsNamed, Pc, Ids, Live
<1>5. BlockedOrBuilt'
  BY <1>1, <1>2 DEF LibInv, LibTypeOK, BlockedOrBuilt, Live, ENVX, ipcVars, envVars
<1>6. QED
  BY <1>3, <1>4, <1>5 DEF LibInv

\* The creation of a boot env.
LEMMA BootKeeps == ASSUME LibInv, Boot, KernelInv' PROVE LibInv'
<1>1. PICK e \in Elem :
        /\ env_alloc(e, NULL)
        /\ env_status' = [env_status EXCEPT ![e] = RUNNABLE]
        /\ env_sched_list' = TAILQ_INSERT_HEAD(env_sched_list, e)
  BY DEF Boot, env_create
<1>2. /\ halted = "no" /\ halted' = "no" /\ UNCHANGED <<ipcVars, curenv, pc, arg>>
      /\ curenv = NULL
  BY DEF Boot, env_create, LibInv, KernelInv, BootAsids
<1>3. e \notin Live /\ Live' = Live \cup {e}
  <2>1. asid_bitmap # 0..(NASID - 1)
    BY CreateKeeps DEF Boot, LibInv
  <2>2. RUNNABLE \in Status /\ RUNNABLE # FREE
    BY DEF Status, RUNNABLE, FREE
  <2>3. QED
    BY <1>1, <2>1, <2>2, AllocTable DEF LibInv
<1>4. Runnables' = Runnables \cup {e} /\ e \notin Runnables
  BY <1>1, <1>3 DEF Runnables, Live, LibInv, LibTypeOK, TypeOK, RUNNABLE, FREE
<1>5. SchedListIffRunnable'
  <2>1. Holds(env_sched_list, Runnables) /\ env_sched_list \in TailQ
        /\ Runnables \in SUBSET Elem
    BY <1>2 DEF LibInv, LibTypeOK, TypeOK, SchedListIffRunnable, Runnables
  <2>2. IsFiniteSet(Runnables)
    BY <2>1, ElemFinite
  <2>3. Holds(env_sched_list', Runnables \cup {e})
    BY <1>1, <1>4, <2>1, <2>2, HoldsInsertHead
  <2>4. QED
    BY <1>4, <2>3 DEF SchedListIffRunnable
<1>6. OnlyEmptyHalts' /\ CurRunnable' /\ ArgsNamed' /\ LibTypeOK'
  BY <1>2, <1>3 DEF LibInv, OnlyEmptyHalts, CurRunnable, ArgsNamed, LibTypeOK, KernelInv,
                    Running, Ids
<1>7. BlockedOrBuilt'
  <2>1. \E st \in Status : env_status' = [env_status EXCEPT ![e] = st]
    BY <1>1 DEF Status
  <2>2. QED
    BY <1>1, <1>2, <1>3, <2>1, AllocKeepsBuilt
<1>8. QED
  BY <1>5, <1>6, <1>7 DEF LibInv

\* syscall_exofork.
LEMMA ForkBeginKeeps == ASSUME LibInv, ForkBegin, KernelInv' PROVE LibInv'
<1>1. PICK e \in Elem :
        /\ sys_exofork(e)
        /\ IF asid_bitmap # 0..(NASID - 1)
           THEN /\ pc' = [pc EXCEPT ![curenv] = "fork", ![e] = "user"]
                /\ arg' = [arg EXCEPT ![curenv] = env_id'[e], ![e] = NULL]
           ELSE UNCHANGED <<pc, arg>>
  BY DEF ForkBegin
<1>2. /\ Running /\ env_alloc(e, env_id[curenv]) /\ UNCHANGED <<ipcVars, runVars>>
      /\ pc[curenv] = "user"
  BY <1>1 DEF sys_exofork, ForkBegin, At
<1>3. /\ halted = "no" /\ curenv \in Elem /\ curenv \in Live /\ env_id[curenv] \in Ids
      /\ ~env_ipc_recving[curenv] /\ Holds(env_sched_list, Runnables)
      /\ env_status \in [Elem -> Status] /\ curenv \in Runnables
  BY <1>2, LibRunning
<1>4. /\ env_id \in [Elem -> Ids \cup {NULL}] /\ env_parent_id \in [Elem -> Ids \cup {NULL}]
      /\ pc \in [Elem -> Pc] /\ arg \in [Elem -> Ids \cup {NULL}]
      /\ env_id' \in [Elem -> Ids \cup {NULL}]
  BY DEF LibInv, LibTypeOK, TypeOK, KernelInv, Ids
<1>5. CASE asid_bitmap # 0..(NASID - 1)
  <2>1. env_status' = [env_status EXCEPT ![e] = NOT_RUNNABLE]
    BY <1>1, <1>5 DEF sys_exofork
  <2>2. e \notin Live /\ e # NENV /\ Live' = Live \cup {e} /\ e \in Elem
    <3>1. NOT_RUNNABLE \in Status /\ NOT_RUNNABLE # FREE
      BY DEF Status, NOT_RUNNABLE, FREE
    <3>2. QED
      BY <1>2, <1>3, <1>5, <2>1, <3>1, AllocTable DEF LibInv
  <2>3. Runnables' = Runnables
    BY <1>3, <2>1, <2>2 DEF Runnables, Live, RUNNABLE, NOT_RUNNABLE, FREE
  <2>4. SchedListIffRunnable' /\ OnlyEmptyHalts' /\ CurRunnable'
    BY <1>2, <1>3, <2>3 DEF SchedListIffRunnable, OnlyEmptyHalts, CurRunnable, runVars, Running
  <2>5. /\ pc' = [pc EXCEPT ![curenv] = "fork", ![e] = "user"]
        /\ arg' = [arg EXCEPT ![curenv] = env_id'[e], ![e] = NULL]
        /\ env_id'[e] \in Ids /\ env_id'[e].slot = e /\ e # curenv
        /\ env_parent_id' = [env_parent_id EXCEPT ![e] = env_id[curenv]]
        /\ \A f \in Elem : f # e => env_id'[f] = env_id[f]
    <3>1. env_id'[e] \in Ids /\ env_id'[e].slot = e
      BY <2>2 DEF KernelInv, IdsOwned, Ids
    <3>2. QED
      BY <1>1, <1>2, <1>3, <1>4, <1>5, <2>2, <3>1 DEF env_alloc
  <2>6. LibTypeOK' /\ ArgsNamed'
    BY <1>3, <1>4, <2>2, <2>5 DEF LibInv, LibTypeOK, KernelInv, ArgsNamed, Pc, Ids, Live
  <2>7. \A f \in Elem : f # e => env_status'[f] = env_status[f]
                                 /\ env_parent_id'[f] = env_parent_id[f]
    BY <1>3, <1>4, <2>1, <2>5
  <2>8. ~env_ipc_recving[e]
    BY <2>2 DEF LibInv, BlockedOrBuilt, Live, NOT_RUNNABLE, FREE
  <2>9. BlockedOrBuilt'
    <3>1. ASSUME NEW f \in Elem, env_ipc_recving'[f]
          PROVE  env_status'[f] = NOT_RUNNABLE /\ pc'[f] = "recv"
      <4>1. env_ipc_recving[f] /\ f # e /\ f # curenv
        BY <1>2, <1>3, <2>8, <3>1 DEF ipcVars
      <4>2. QED
        BY <1>4, <2>5, <2>7, <4>1 DEF LibInv, BlockedOrBuilt
    <3>2. ASSUME NEW f \in Elem, f \in Live', pc'[f] = "fork"
          PROVE  LET c == ENVX(arg'[f]) IN
                 /\ env_status'[c] = NOT_RUNNABLE /\ ~env_ipc_recving'[c]
                 /\ env_id'[c] = arg'[f] /\ env_parent_id'[c] = env_id'[f]
      <4>1. CASE f = curenv
        <5>1. arg'[f] = env_id'[e] /\ ENVX(env_id'[e]) = e
          BY <1>3, <1>4, <2>2, <2>5, <4>1 DEF ENVX
        <5>2. /\ env_status'[e] = NOT_RUNNABLE /\ ~env_ipc_recving'[e]
              /\ env_parent_id'[e] = env_id'[f]
          BY <1>2, <1>3, <1>4, <2>1, <2>5, <2>8, <4>1 DEF ipcVars
        <5>3. QED
          BY <5>1, <5>2 DEF ENVX
      <4>2. CASE f # curenv
        <5> DEFINE c == ENVX(arg[f])
        <5>1. f # e /\ f \in Live /\ pc[f] = "fork" /\ arg'[f] = arg[f]
          BY <1>3, <1>4, <2>2, <2>5, <3>2, <4>2
        <5>2. /\ c \in Elem /\ c \in Live /\ env_status[c] = NOT_RUNNABLE
              /\ ~env_ipc_recving[c] /\ env_id[c] = arg[f] /\ env_parent_id[c] = env_id[f]
          BY <5>1, ForkChild
        <5>3. c # e
          BY <2>2, <5>2
        <5> HIDE DEF c
        <5>4. /\ env_status'[c] = NOT_RUNNABLE /\ ~env_ipc_recving'[c]
              /\ env_id'[c] = arg'[f] /\ env_parent_id'[c] = env_id'[f]
          BY <1>2, <2>5, <2>7, <5>1, <5>2, <5>3 DEF ipcVars
        <5>5. QED
          BY <5>1, <5>4 DEF c, ENVX
      <4>3. QED
        BY <4>1, <4>2
    <3>3. QED
      BY <3>1, <3>2 DEF BlockedOrBuilt, Live
  <2>10. QED
    BY <2>4, <2>6, <2>9 DEF LibInv
<1>6. CASE asid_bitmap = 0..(NASID - 1)
  <2>1. UNCHANGED <<env_status, pc, arg>>
    BY <1>1, <1>6 DEF sys_exofork
  <2>2. e \notin Live /\ Live' = Live
    BY <1>2, <1>3, <1>6, <2>1, AllocFailsTable DEF LibInv
  <2>3. SchedListIffRunnable' /\ OnlyEmptyHalts' /\ CurRunnable'
    BY <1>2, <1>3, <2>1
       DEF SchedListIffRunnable, OnlyEmptyHalts, CurRunnable, runVars, Running, Runnables
  <2>4. LibTypeOK' /\ ArgsNamed'
    BY <2>1, <2>2 DEF LibInv, LibTypeOK, KernelInv, ArgsNamed, Ids
  <2>5. BlockedOrBuilt'
    BY <1>2, <2>1, <2>2, AllocKeepsBuilt
  <2>6. QED
    BY <2>3, <2>4, <2>5 DEF LibInv
<1>7. QED
  BY <1>5, <1>6

\* A step that changes the status and the receiving flag of one env, which no other
\* fork is filling, and the call that curenv is in.
LEMMA OneEnvKeepsBuilt ==
  ASSUME LibInv, NEW e \in Elem, NEW me \in Elem, NEW where \in Pc, NEW what,
         \A f \in Elem : f # e => /\ env_status'[f] = env_status[f]
                                  /\ env_ipc_recving'[f] = env_ipc_recving[f],
         UNCHANGED <<env_id, env_parent_id>>, Live' \subseteq Live,
         pc' = [pc EXCEPT ![me] = where], arg' = [arg EXCEPT ![me] = what],
         where # "fork", ~env_ipc_recving[me],
         env_ipc_recving'[e] => env_status'[e] = NOT_RUNNABLE /\ pc'[e] = "recv",
         \A f \in Live : pc[f] = "fork" /\ f # me => ENVX(arg[f]) # e
  PROVE  BlockedOrBuilt'
<1>1. pc \in [Elem -> Pc] /\ arg \in [Elem -> Ids \cup {NULL}]
  BY DEF LibInv, LibTypeOK
<1>2. ASSUME NEW f \in Elem, env_ipc_recving'[f]
      PROVE  env_status'[f] = NOT_RUNNABLE /\ pc'[f] = "recv"
  <2>1. CASE f = e
    BY <1>2, <2>1
  <2>2. CASE f # e
    BY <1>1, <1>2, <2>2 DEF LibInv, BlockedOrBuilt
  <2>3. QED
    BY <2>1, <2>2
<1>3. ASSUME NEW f \in Elem, f \in Live', pc'[f] = "fork"
      PROVE  LET c == ENVX(arg'[f]) IN
             /\ env_status'[c] = NOT_RUNNABLE /\ ~env_ipc_recving'[c]
             /\ env_id'[c] = arg'[f] /\ env_parent_id'[c] = env_id'[f]
  <2> DEFINE c == ENVX(arg[f])
  <2>1. f # me /\ f \in Live /\ pc[f] = "fork" /\ arg'[f] = arg[f]
    BY <1>1, <1>3
  <2>2. /\ c \in Elem /\ env_status[c] = NOT_RUNNABLE /\ ~env_ipc_recving[c]
        /\ env_id[c] = arg[f] /\ env_parent_id[c] = env_id[f]
    BY <2>1, ForkChild
  <2>3. c # e
    BY <2>1
  <2> HIDE DEF c
  <2>4. /\ env_status'[c] = NOT_RUNNABLE /\ ~env_ipc_recving'[c]
        /\ env_id'[c] = arg'[f] /\ env_parent_id'[c] = env_id'[f]
    BY <2>1, <2>2, <2>3
  <2>5. QED
    BY <2>1, <2>4 DEF c, ENVX
<1>4. QED
  BY <1>2, <1>3 DEF BlockedOrBuilt, Live

\* The types of pc and arg after Goto.
LEMMA GotoTypes ==
  ASSUME LibInv, KernelInv', NEW me \in Elem, NEW where \in Pc, NEW what \in Ids \cup {NULL},
         pc' = [pc EXCEPT ![me] = where], arg' = [arg EXCEPT ![me] = what],
         where \in {"fork", "send", "retry"} => what \in Ids,
         Live \subseteq Live' \cup {me}, me \in Live' \/ where = "user"
  PROVE  LibTypeOK' /\ ArgsNamed'
BY DEF LibInv, LibTypeOK, KernelInv, ArgsNamed, Ids

\* The end of fork: the child is what it was when it was allocated, and joins the
\* run list once.
LEMMA ForkEndKeeps == ASSUME LibInv, ForkEnd, KernelInv' PROVE LibInv'
<1> DEFINE c == ENVX(arg[curenv])
<1>1. /\ Running /\ pc[curenv] = "fork" /\ sys_set_env_status(arg[curenv], RUNNABLE)
      /\ pc' = [pc EXCEPT ![curenv] = "user"] /\ arg' = [arg EXCEPT ![curenv] = NULL]
  BY DEF ForkEnd, At, Goto
<1>2. /\ halted = "no" /\ curenv \in Elem /\ curenv \in Live /\ curenv \in Runnables
      /\ ~env_ipc_recving[curenv]
      /\ env_sched_list \in TailQ /\ Holds(env_sched_list, Runnables)
      /\ Runnables \in SUBSET Elem /\ IsFiniteSet(Runnables)
      /\ env_status \in [Elem -> Status]
  BY <1>1, LibRunning
<1>3. /\ arg[curenv] \in Ids /\ c \in Elem /\ c \in Live /\ c \notin Runnables
      /\ ~env_ipc_recving[c]
      /\ \A g \in Live : pc[g] = "fork" /\ ENVX(arg[g]) = c => g = curenv
  BY <1>1, <1>2, ForkChild
<1>4. envid2env(arg[curenv], TRUE) = c
  <2>1. arg[curenv] # NULL
    BY <1>1, <1>2 DEF envid2env, sys_set_env_status, Runnables
  <2>2. envid2env(arg[curenv], TRUE) # NULL
    BY <1>1 DEF sys_set_env_status
  <2>3. QED
    BY <2>1, <2>2 DEF envid2env
<1> HIDE DEF c
<1>5. /\ env_status' = [env_status EXCEPT ![c] = RUNNABLE]
      /\ env_sched_list' = TAILQ_INSERT_TAIL(env_sched_list, c)
      /\ UNCHANGED <<ipcVars, envVars, curenv, count, halted>>
  BY <1>1, <1>4 DEF sys_set_env_status
<1>6. Runnables' = Runnables \cup {c} /\ Live' = Live
  BY <1>2, <1>3, <1>5 DEF Runnables, Live, RUNNABLE, FREE
<1>7. SchedListIffRunnable'
  BY <1>2, <1>3, <1>5, <1>6, HoldsInsertTail DEF SchedListIffRunnable
<1>8. OnlyEmptyHalts' /\ CurRunnable'
  BY <1>2, <1>5, <1>6 DEF OnlyEmptyHalts, CurRunnable, Running
<1>9. LibTypeOK' /\ ArgsNamed'
  BY <1>1, <1>2, <1>6, GotoTypes DEF Pc
<1>10. BlockedOrBuilt'
  <2>1. "user" \in Pc
    BY DEF Pc
  <2>2. \A f \in Elem : f # c => /\ env_status'[f] = env_status[f]
                                 /\ env_ipc_recving'[f] = env_ipc_recving[f]
    BY <1>2, <1>5 DEF ipcVars
  <2>3. UNCHANGED <<env_id, env_parent_id>> /\ ~env_ipc_recving'[c]
    BY <1>3, <1>5 DEF ipcVars, envVars
  <2>4. \A f \in Live : pc[f] = "fork" /\ f # curenv => ENVX(arg[f]) # c
    BY <1>3
  <2>5. QED
    BY <1>1, <1>2, <1>3, <1>6, <2>1, <2>2, <2>3, <2>4, OneEnvKeepsBuilt
<1>11. QED
  BY <1>7, <1>8, <1>9, <1>10 DEF LibInv

\* exit(): the env that leaves is in the run list.
LEMMA ExitKeeps == ASSUME LibInv, Exit, KernelInv' PROVE LibInv'
<1>1. /\ Running /\ sys_env_destroy(NULL)
      /\ pc' = [pc EXCEPT ![curenv] = "user"] /\ arg' = [arg EXCEPT ![curenv] = NULL]
  BY DEF Exit, At, Goto
<1>2. /\ halted = "no" /\ curenv \in Elem /\ curenv # NULL /\ curenv \in Live
      /\ curenv \in Runnables /\ ~env_ipc_recving[curenv]
      /\ env_sched_list \in TailQ /\ Holds(env_sched_list, Runnables)
      /\ Runnables \in SUBSET Elem /\ IsFiniteSet(Runnables)
      /\ env_status \in [Elem -> Status]
  BY <1>1, LibRunning
<1> DEFINE q == TAILQ_REMOVE(env_sched_list, curenv)
<1>3. Holds(q, Runnables \ {curenv}) /\ ~RemoveFaults(env_sched_list, curenv) /\ q \in TailQ
  BY <1>2, HoldsRemove, RemoveType
<1>4. env_free(curenv) /\ schedule(TRUE, NULL, q, env_status')
  BY <1>1, <1>2, <1>3 DEF sys_env_destroy, envid2env
<1>5. /\ env_status' = [env_status EXCEPT ![curenv] = FREE]
      /\ UNCHANGED <<env_id, env_parent_id, ipcVars>>
  BY <1>4 DEF env_free
<1>6. /\ Runnables' = Runnables \ {curenv} /\ Live' = Live \ {curenv}
      /\ env_status' \in [Elem -> Status]
  BY <1>2, <1>5 DEF Runnables, Live, RUNNABLE, FREE, Status
<1> HIDE DEF q
<1>7. SchedListIffRunnable' /\ OnlyEmptyHalts' /\ CurRunnable'
  <2>1. Holds(q, {f \in Elem : env_status'[f] = RUNNABLE})
    BY <1>3, <1>6 DEF Runnables
  <2>2. /\ Holds(env_sched_list', {f \in Elem : env_status'[f] = RUNNABLE})
        /\ halted' \in {"no", "empty"}
        /\ halted' = "empty" => {f \in Elem : env_status'[f] = RUNNABLE} = {}
        /\ halted' = "no" => curenv' \in {f \in Elem : env_status'[f] = RUNNABLE}
    BY <1>2, <1>3, <1>4, <1>6, <2>1, ScheduleHolds
  <2>3. QED
    BY <2>2 DEF SchedListIffRunnable, OnlyEmptyHalts, CurRunnable, Runnables, Running
<1>8. LibTypeOK' /\ ArgsNamed'
  BY <1>1, <1>2, <1>6, GotoTypes DEF Pc
<1>9. BlockedOrBuilt'
  <2>1. "user" \in Pc
    BY DEF Pc
  <2>2. \A f \in Elem : f # curenv => /\ env_status'[f] = env_status[f]
                                      /\ env_ipc_recving'[f] = env_ipc_recving[f]
    BY <1>2, <1>5 DEF ipcVars
  <2>3. ~env_ipc_recving'[curenv]
    BY <1>2, <1>5 DEF ipcVars
  <2>4. \A f \in Live : pc[f] = "fork" => ENVX(arg[f]) # curenv
    BY <1>2, ForkChild
  <2>5. QED
    BY <1>1, <1>2, <1>5, <1>6, <2>1, <2>2, <2>3, <2>4, OneEnvKeepsBuilt
<1>10. QED
  BY <1>7, <1>8, <1>9 DEF LibInv

\* Blocking in ipc_recv.
LEMMA IpcRecvKeeps == ASSUME LibInv, IpcRecv, KernelInv' PROVE LibInv'
<1> DEFINE q == TAILQ_REMOVE(env_sched_list, curenv)
<1>1. /\ Running
      /\ env_ipc_recving' = [env_ipc_recving EXCEPT ![curenv] = TRUE]
      /\ env_status' = [env_status EXCEPT ![curenv] = NOT_RUNNABLE]
      /\ schedule(TRUE, curenv, q, env_status')
      /\ UNCHANGED envVars
      /\ pc' = [pc EXCEPT ![curenv] = "recv"] /\ arg' = [arg EXCEPT ![curenv] = NULL]
  BY DEF IpcRecv, At, Goto, sys_ipc_recv
<1>2. /\ halted = "no" /\ curenv \in Elem /\ curenv # NULL /\ curenv \in Live
      /\ curenv \in Runnables /\ ~env_ipc_recving[curenv]
      /\ env_sched_list \in TailQ /\ Holds(env_sched_list, Runnables)
      /\ Runnables \in SUBSET Elem /\ IsFiniteSet(Runnables)
      /\ env_status \in [Elem -> Status]
  BY <1>1, LibRunning
<1>3. Holds(q, Runnables \ {curenv}) /\ q \in TailQ
  BY <1>2, HoldsRemove, RemoveType
<1>4. /\ Runnables' = Runnables \ {curenv} /\ Live' = Live
      /\ env_status' \in [Elem -> Status]
  BY <1>1, <1>2 DEF Runnables, Live, RUNNABLE, NOT_RUNNABLE, FREE, Status
<1> HIDE DEF q
<1>5. SchedListIffRunnable' /\ OnlyEmptyHalts' /\ CurRunnable'
  <2>1. Holds(q, {f \in Elem : env_status'[f] = RUNNABLE})
    BY <1>3, <1>4 DEF Runnables
  <2>2. /\ Holds(env_sched_list', {f \in Elem : env_status'[f] = RUNNABLE})
        /\ halted' \in {"no", "empty"}
        /\ halted' = "empty" => {f \in Elem : env_status'[f] = RUNNABLE} = {}
        /\ halted' = "no" => curenv' \in {f \in Elem : env_status'[f] = RUNNABLE}
    BY <1>1, <1>2, <1>3, <1>4, <2>1, ScheduleHolds
  <2>3. QED
    BY <2>2 DEF SchedListIffRunnable, OnlyEmptyHalts, CurRunnable, Runnables, Running
<1>6. LibTypeOK' /\ ArgsNamed'
  <2>1. "recv" \in Pc /\ "recv" \notin {"fork", "send", "retry"}
    BY DEF Pc
  <2>2. QED
    BY <1>1, <1>2, <1>4, <2>1, GotoTypes, Zenon
<1>7. BlockedOrBuilt'
  <2>1. "recv" \in Pc
    BY DEF Pc
  <2>2. /\ env_ipc_recving \in [Elem -> BOOLEAN] /\ pc \in [Elem -> Pc]
    BY DEF LibInv, LibTypeOK, TypeOK
  <2>3. \A f \in Elem : f # curenv => /\ env_status'[f] = env_status[f]
                                      /\ env_ipc_recving'[f] = env_ipc_recving[f]
    BY <1>1, <1>2, <2>2
  <2>4. env_status'[curenv] = NOT_RUNNABLE /\ pc'[curenv] = "recv"
    BY <1>1, <1>2, <2>2
  <2>5. \A f \in Live : pc[f] = "fork" => ENVX(arg[f]) # curenv
    BY <1>2, ForkChild
  <2>6. UNCHANGED <<env_id, env_parent_id>>
    BY <1>1 DEF envVars
  <2>7. QED
    BY <1>1, <1>2, <1>4, <2>1, <2>3, <2>4, <2>5, <2>6, OneEnvKeepsBuilt
<1>8. QED
  BY <1>5, <1>6, <1>7 DEF LibInv

\* Steps in which curenv only moves on inside its library call.
LEMMA LocalKeeps ==
  ASSUME LibInv, Running, KernelInv', UNCHANGED kvars, NEW where \in Pc,
         NEW what \in Ids \cup {NULL}, where # "fork",
         where \in {"send", "retry"} => what \in Ids, Goto(where, what)
  PROVE  LibInv'
<1>1. curenv \in Elem /\ curenv \in Live /\ ~env_ipc_recving[curenv]
  BY LibRunning
<1>2. Live' = Live
  BY DEF Live, kvars
<1>3. pc' = [pc EXCEPT ![curenv] = where] /\ arg' = [arg EXCEPT ![curenv] = what]
  BY DEF Goto
<1>4. SchedListIffRunnable' /\ OnlyEmptyHalts' /\ CurRunnable'
  BY DEF LibInv, SchedListIffRunnable, OnlyEmptyHalts, CurRunnable, Running,
         Runnables, kvars, runVars
<1>5. LibTypeOK' /\ ArgsNamed'
  <2>1. where \in {"fork", "send", "retry"} => what \in Ids
    OBVIOUS
  <2>2. QED
    BY <1>1, <1>2, <1>3, <2>1, GotoTypes, Zenon
<1>6. BlockedOrBuilt'
  <2>1. \A f \in Live : pc[f] = "fork" => ENVX(arg[f]) # curenv
    <3>1. curenv \in Runnables
      BY LibRunning
    <3>2. QED
      BY <3>1, ForkChild
  <2>2. \A f \in Elem : f # curenv => /\ env_status'[f] = env_status[f]
                                      /\ env_ipc_recving'[f] = env_ipc_recving[f]
    BY DEF kvars, ipcVars
  <2>3. UNCHANGED <<env_id, env_parent_id>> /\ ~env_ipc_recving'[curenv]
    BY <1>1 DEF kvars, ipcVars, envVars
  <2>4. QED
    BY <1>1, <1>2, <1>3, <2>1, <2>2, <2>3, OneEnvKeepsBuilt
<1>7. QED
  BY <1>4, <1>5, <1>6 DEF LibInv

\* One round of ipc_send.
LEMMA TrySendKeeps ==
  ASSUME LibInv, Running, KernelInv', NEW whom \in Ids, TrySend(whom)
  PROVE  LibInv'
<1>1. /\ halted = "no" /\ curenv \in Elem /\ curenv \in Live /\ curenv \in Runnables
      /\ ~env_ipc_recving[curenv]
      /\ env_sched_list \in TailQ /\ Holds(env_sched_list, Runnables)
      /\ Runnables \in SUBSET Elem /\ IsFiniteSet(Runnables)
      /\ env_status \in [Elem -> Status]
  BY LibRunning
<1>2. ASSUME NEW where \in {"user", "die"}, sys_ipc_try_send(whom), Goto(where, NULL)
      PROVE  LibInv'
  <2> DEFINE e == envid2env(whom, FALSE)
  <2>1. e # NULL /\ env_ipc_recving[e]
    BY <1>2 DEF sys_ipc_try_send, SendResult
  <2>2. e \in Live /\ e \in Elem
    BY <2>1, FoundIsId, FoundLive DEF LibInv, Live
  <2>3. /\ env_ipc_recving' = [env_ipc_recving EXCEPT ![e] = FALSE]
        /\ env_status' = [env_status EXCEPT ![e] = RUNNABLE]
        /\ env_sched_list' = TAILQ_INSERT_TAIL(env_sched_list, e)
        /\ UNCHANGED <<envVars, curenv, count, halted>>
        /\ pc' = [pc EXCEPT ![curenv] = where] /\ arg' = [arg EXCEPT ![curenv] = NULL]
    BY <1>2 DEF sys_ipc_try_send, Goto
  <2> HIDE DEF e
  <2>4. env_status[e] = NOT_RUNNABLE /\ e \notin Runnables
    BY <2>1, <2>2 DEF LibInv, BlockedOrBuilt, Runnables, RUNNABLE, NOT_RUNNABLE
  <2>5. Runnables' = Runnables \cup {e} /\ Live' = Live
    BY <1>1, <2>2, <2>3 DEF Runnables, Live, RUNNABLE, FREE
  <2>6. SchedListIffRunnable'
    BY <1>1, <2>2, <2>3, <2>4, <2>5, HoldsInsertTail DEF SchedListIffRunnable
  <2>7. OnlyEmptyHalts' /\ CurRunnable'
    BY <1>1, <2>3, <2>5 DEF OnlyEmptyHalts, CurRunnable, Running
  <2>8. LibTypeOK' /\ ArgsNamed'
    <3>1. where \in Pc /\ where \notin {"fork", "send", "retry"} BY DEF Pc
    <3>2. QED
      BY <1>1, <2>3, <2>5, <3>1, GotoTypes
  <2>9. BlockedOrBuilt'
    <3>1. where \in Pc /\ where # "fork" /\ env_ipc_recving \in [Elem -> BOOLEAN]
      BY DEF Pc, LibInv, LibTypeOK, TypeOK
    <3>2. \A f \in Elem : f # e => /\ env_status'[f] = env_status[f]
                                   /\ env_ipc_recving'[f] = env_ipc_recving[f]
      BY <1>1, <2>3, <3>1
    <3>3. UNCHANGED <<env_id, env_parent_id>> /\ ~env_ipc_recving'[e]
      BY <2>2, <2>3, <3>1 DEF envVars
    <3>4. \A f \in Live : pc[f] = "fork" => ENVX(arg[f]) # e
      BY <2>1, ForkChild
    <3>5. QED
      BY <1>1, <2>2, <2>3, <2>5, <3>1, <3>2, <3>3, <3>4, OneEnvKeepsBuilt
  <2>10. QED
    BY <2>6, <2>7, <2>8, <2>9 DEF LibInv
<1>3. CASE Goto("send", whom) /\ UNCHANGED kvars
  <2>1. "send" \in Pc /\ "send" # "fork"
    BY DEF Pc
  <2>2. QED
    BY <1>3, <2>1, LocalKeeps
<1>4. CASE Goto("die", NULL) /\ UNCHANGED kvars
  <2>1. "die" \in Pc /\ "die" # "fork" /\ "die" \notin {"send", "retry"}
    BY DEF Pc
  <2>2. QED
    BY <1>4, <2>1, LocalKeeps
<1>5. QED
  BY <1>2, <1>3, <1>4 DEF TrySend

\* Every library step is a step of the kernel's specification or none of its business.
LEMMA LibStepIsKernelStep == ASSUME LibInv, LibNext PROVE [Next]_kvars
<1>1. CASE Boot \/ Tick \/ Yield \/ ForkBegin \/ IpcRecv \/ IpcSendYield
  BY <1>1 DEF Boot, Tick, Yield, ForkBegin, IpcRecv, IpcSendYield, Next
<1>2. CASE Exit
  BY <1>2 DEF Exit, Next, EnvIds
<1>3. CASE ForkEnd
  <2>1. Running /\ pc[curenv] = "fork" /\ sys_set_env_status(arg[curenv], RUNNABLE)
    BY <1>3 DEF ForkEnd, At
  <2>2. arg[curenv] \in Ids
    BY <2>1, LibRunning, ForkChild
  <2>3. arg[curenv] \in EnvIds
    BY <2>1, <2>2, FoundIsId DEF sys_set_env_status
  <2>4. QED
    BY <2>1, <2>3 DEF Next
<1>4. ASSUME NEW whom \in Ids \cup {NULL}, TrySend(whom)
      PROVE  [Next]_kvars
  <2>1. CASE sys_ipc_try_send(whom)
    <3>1. whom \in EnvIds
      BY <2>1, FoundIsId DEF sys_ipc_try_send, SendResult
    <3>2. QED
      BY <2>1, <3>1 DEF Next
  <2>2. CASE UNCHANGED kvars
    BY <2>2
  <2>3. QED
    BY <1>4, <2>1, <2>2 DEF TrySend
<1>5. CASE IpcSend
  <2>1. EnvIds \subseteq Ids \cup {NULL}
    BY DEF EnvIds, LibInv, LibTypeOK, TypeOK
  <2>2. QED
    BY <1>4, <1>5, <2>1 DEF IpcSend
<1>6. CASE IpcSendRetry
  <2>1. Running /\ TrySend(arg[curenv])
    BY <1>6 DEF IpcSendRetry, At
  <2>2. arg[curenv] \in Ids \cup {NULL}
    BY <2>1, LibRunning DEF LibInv, LibTypeOK
  <2>3. QED
    BY <1>4, <2>1, <2>2
<1>7. CASE IpcRecvReturn
  BY <1>7 DEF IpcRecvReturn
<1>8. QED
  BY <1>1, <1>2, <1>3, <1>5, <1>6, <1>7 DEF LibNext, UserStep

-----------------------------------------------------------------------------
(* The theorems.                                                           *)

\* One step: every library step keeps LibInv.
LEMMA LibStep == LibInv /\ [LibNext]_vars => LibInv'
<1> SUFFICES ASSUME LibInv, [LibNext]_vars PROVE LibInv'
  OBVIOUS
<1>1. CASE UNCHANGED vars
  BY <1>1, LibStutter
<1>2. CASE LibNext
  <2>1. KernelInv'
    BY <1>2, LibStepIsKernelStep, KernelNext DEF LibInv
  <2>2. CASE Boot
    BY <2>1, <2>2, BootKeeps
  <2>3. CASE Tick
    BY <2>1, <2>3, TickKeeps
  <2>4. CASE Yield \/ IpcSendYield
    BY <2>1, <2>4, YieldKeeps
  <2>5. CASE ForkBegin
    BY <2>1, <2>5, ForkBeginKeeps
  <2>6. CASE ForkEnd
    BY <2>1, <2>6, ForkEndKeeps
  <2>7. CASE Exit
    BY <2>1, <2>7, ExitKeeps
  <2>8. CASE IpcRecv
    BY <2>1, <2>8, IpcRecvKeeps
  <2>9. CASE IpcRecvReturn
    <3>1. Running /\ UNCHANGED kvars /\ Goto("user", NULL)
      BY <2>9 DEF IpcRecvReturn, At
    <3>2. "user" \in Pc /\ "user" # "fork" /\ "user" \notin {"send", "retry"}
      BY DEF Pc
    <3>3. QED
      BY <2>1, <3>1, <3>2, LocalKeeps
  <2>10. CASE IpcSend
    <3>1. PICK whom \in EnvIds \ {NULL} : Running /\ TrySend(whom)
      BY <2>10 DEF IpcSend, At
    <3>2. whom \in Ids
      BY DEF EnvIds, LibInv, LibTypeOK, TypeOK
    <3>3. QED
      BY <2>1, <3>1, <3>2, TrySendKeeps
  <2>11. CASE IpcSendRetry
    <3>1. Running /\ pc[curenv] = "retry" /\ TrySend(arg[curenv])
      BY <2>11 DEF IpcSendRetry, At
    <3>2. arg[curenv] \in Ids
      BY <3>1, LibRunning DEF LibInv, ArgsNamed
    <3>3. QED
      BY <2>1, <3>1, <3>2, TrySendKeeps
  <2>12. QED
    BY <1>2, <2>2, <2>3, <2>4, <2>5, <2>6, <2>7, <2>8, <2>9, <2>10, <2>11
       DEF LibNext, UserStep
<1>3. QED
  BY <1>1, <1>2

\* LibInv holds in every reachable state.
LEMMA LibAlways == LibSpec => []LibInv
BY LibInitially, LibStep, PTL DEF LibSpec

\* With programs that use the library alone, env_sched_list is at all times a
\* well-formed queue of exactly the runnable envs, the claim at kern/env.c:18.
THEOREM LibKeepsSchedList == LibSpec => []SchedListIffRunnable
<1>1. LibInv => SchedListIffRunnable
  BY DEF LibInv
<1>2. QED
  BY <1>1, LibAlways, PTL

\* With programs that use the library alone, the kernel stops only in the panic of
\* schedule, and then no env is runnable.
THEOREM LibOnlyEmptyHalts == LibSpec => []OnlyEmptyHalts
<1>1. LibInv => OnlyEmptyHalts
  BY DEF LibInv
<1>2. QED
  BY <1>1, LibAlways, PTL

\* A receiver is blocked until its message comes, and no sender can start the child
\* of an unfinished fork.
THEOREM LibBlockedOrBuilt == LibSpec => []BlockedOrBuilt
<1>1. LibInv => BlockedOrBuilt
  BY DEF LibInv
<1>2. QED
  BY <1>1, LibAlways, PTL

\* A delivered message is not overwritten before ipc_recv has read it: only
\* sys_ipc_try_send writes env_ipc_from, and only of an env that is receiving.
THEOREM LibMessageKept == LibSpec => MessageKept
<1>1. LibInv /\ [LibNext]_vars
        => [\A e \in Live : pc[e] = "recv" /\ ~env_ipc_recving[e]
              => env_ipc_from'[e] = env_ipc_from[e]]_vars
  <2> SUFFICES ASSUME LibInv, LibNext, NEW e \in Live, pc[e] = "recv", ~env_ipc_recving[e]
               PROVE  env_ipc_from'[e] = env_ipc_from[e]
    BY DEF vars
  <2>1. CASE UNCHANGED env_ipc_from
    BY <2>1
  <2>2. ASSUME NEW whom, sys_ipc_try_send(whom)
        PROVE  env_ipc_from'[e] = env_ipc_from[e]
    <3>1. env_ipc_recving[envid2env(whom, FALSE)]
      BY <2>2 DEF sys_ipc_try_send, SendResult
    <3>2. e # envid2env(whom, FALSE)
      BY <3>1
    <3>3. /\ env_ipc_from' = [env_ipc_from EXCEPT ![envid2env(whom, FALSE)] = env_id[curenv]]
          /\ env_ipc_from \in [Elem -> Ids \cup {NULL}] /\ e \in Elem
      BY <2>2 DEF sys_ipc_try_send, LibInv, LibTypeOK, TypeOK, Live
    <3>4. QED
      BY <3>2, <3>3
  <2>3. UNCHANGED env_ipc_from \/ \E whom : sys_ipc_try_send(whom)
    <3>1. CASE Boot \/ Tick \/ Yield \/ IpcSendYield
      BY <3>1 DEF Boot, env_create, Tick, Timer, Yield, IpcSendYield, sys_yield, ipcVars
    <3>2. CASE ForkBegin \/ ForkEnd
      BY <3>2 DEF ForkBegin, sys_exofork, ForkEnd, sys_set_env_status, ipcVars
    <3>3. CASE Exit \/ IpcRecv \/ IpcRecvReturn
      BY <3>3 DEF Exit, sys_env_destroy, env_free, IpcRecv, sys_ipc_recv, IpcRecvReturn,
                  kvars, ipcVars
    <3>4. CASE IpcSend \/ IpcSendRetry
      BY <3>4 DEF IpcSend, IpcSendRetry, TrySend, kvars, ipcVars
    <3>5. QED
      BY <3>1, <3>2, <3>3, <3>4 DEF LibNext, UserStep
  <2>4. QED
    BY <2>1, <2>2, <2>3
<1>2. QED
  BY <1>1, LibAlways, PTL DEF LibSpec, MessageKept
================================================================================
