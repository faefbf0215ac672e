-------------------------------- MODULE LibEnv --------------------------------
(***************************************************************************)
(* The kernel of EnvKernel driven by programs that use only the user       *)
(* library: fork and spawn (user/lib/fork.c, spawn.c), ipc_send and        *)
(* ipc_recv (user/lib/ipc.c), wait's yield loop (user/lib/wait.c) and exit *)
(* (user/lib/libos.c).  A library call is a sequence of syscalls; a timer  *)
(* interrupt, and with it any other env, can come between two of them.     *)
(* pc[e] says which call env e is in and arg[e] the envid it works on.     *)
(***************************************************************************)
EXTENDS EnvKernel

VARIABLES
  pc,    (* "user": outside the calls below.  "fork": the child arg[e] exists   *)
         (* and is being filled.  "recv": in ipc_recv.  "send", "retry":        *)
         (* ipc_send is to yield, to try again.  "die": user_assert failed.     *)
  arg    (* the child of a fork, the whom of an ipc_send                        *)

vars == <<kvars, pc, arg>>

Pc == {"user", "fork", "recv", "send", "retry", "die"}

LibInit ==
  /\ Init
  /\ pc = [e \in Elem |-> "user"]
  /\ arg = [e \in Elem |-> NULL]

At(where) == Running /\ pc[curenv] = where

Goto(where, what) ==
  /\ pc' = [pc EXCEPT ![curenv] = where]
  /\ arg' = [arg EXCEPT ![curenv] = what]

Boot == env_create /\ UNCHANGED <<pc, arg>>

Tick == Timer /\ UNCHANGED <<pc, arg>>

\* wait() polls and yields; programs also yield by themselves.
Yield == At("user") /\ sys_yield /\ UNCHANGED <<pc, arg>>

\* syscall_exofork of fork or spawn.  The child, when there is one, will start
\* as a copy of its parent that is outside every call.
ForkBegin ==
  /\ At("user")
  /\ \E e \in Elem :
       /\ sys_exofork(e)
       /\ IF asid_bitmap # 0..(NASID - 1)
          THEN /\ pc' = [pc EXCEPT ![curenv] = "fork", ![e] = "user"]
               /\ arg' = [arg EXCEPT ![curenv] = env_id'[e], ![e] = NULL]
          ELSE UNCHANGED <<pc, arg>>

\* The child is complete: syscall_set_env_status(child, ENV_RUNNABLE).
ForkEnd ==
  /\ At("fork")
  /\ sys_set_env_status(arg[curenv], RUNNABLE)
  /\ Goto("user", NULL)

\* spawn's err1 and err2: loading the program failed, destroy the child.
SpawnAbort ==
  /\ At("fork")
  /\ sys_env_destroy(arg[curenv])
  /\ Goto("user", NULL)

\* exit(), also reached from user_panic.
Exit ==
  /\ At("user") \/ At("die")
  /\ sys_env_destroy(NULL)
  /\ Goto("user", NULL)

IpcRecv == At("user") /\ sys_ipc_recv /\ Goto("recv", NULL)

\* syscall_ipc_recv returned: ipc_recv reads env_ipc_from and env_ipc_value.
IpcRecvReturn == At("recv") /\ Goto("user", NULL) /\ UNCHANGED kvars

\* A sys_ipc_try_send that fills in the message before it looks at env_ipc_recving.
TrySendEarly(whom) ==
  \/ \E where \in {"user", "die"} : sys_ipc_try_send(whom) /\ Goto(where, NULL)
  \/ /\ SendResult(whom) = "E_IPC_NOT_RECV" /\ Goto("send", whom)
     /\ env_ipc_from' = [env_ipc_from EXCEPT ![ENVX(whom)] = env_id[curenv]]
     /\ UNCHANGED <<env_status, env_ipc_recving, envVars, runVars>>
  \/ SendResult(whom) = "E_BAD_ENV" /\ Goto("die", NULL) /\ UNCHANGED kvars

\* One round of the loop of ipc_send: syscall_ipc_try_send, then by its result
\* return, get ready to retry, or fail the assertion.  When the page cannot be
\* mapped the assertion fails although the receiver has been woken.
TrySend(whom) ==
  \/ \E where \in {"user", "die"} : sys_ipc_try_send(whom) /\ Goto(where, NULL)
  \/ SendResult(whom) = "E_IPC_NOT_RECV" /\ Goto("send", whom) /\ UNCHANGED kvars
  \/ SendResult(whom) = "E_BAD_ENV" /\ Goto("die", NULL) /\ UNCHANGED kvars

IpcSend ==
  /\ At("user")
  /\ \E whom \in EnvIds \ {NULL} : TrySend(whom)

\* An ipc_send that yields without trying again.
IpcSendYieldOnly == At("send") /\ sys_yield /\ UNCHANGED <<pc, arg>>

\* The yield of ipc_send's loop; when the env runs again it retries.
IpcSendYield == At("send") /\ sys_yield /\ Goto("retry", arg[curenv])

IpcSendRetry == At("retry") /\ TrySend(arg[curenv])

UserStep ==
  \/ Yield \/ ForkBegin \/ ForkEnd \/ Exit
  \/ IpcRecv \/ IpcRecvReturn \/ IpcSend \/ IpcSendYield \/ IpcSendRetry

LibNext == Boot \/ Tick \/ UserStep

LibSpec == LibInit /\ [][LibNext]_vars

\* With programs that also meet a spawn failing half way.
SpawnSpec == LibInit /\ [][LibNext \/ SpawnAbort]_vars

-----------------------------------------------------------------------------
(* Fairness.  clock_set_next_event re-arms the timer in every interrupt    *)
(* and rv32_init runs to its end.  An env that is given the CPU executes   *)
(* its next instruction, so one that is dispatched again and again does    *)
(* not stay in the middle of a library call.                               *)
InCall(e) == curenv = e /\ (ForkEnd \/ IpcRecvReturn \/ IpcSendYield \/ IpcSendRetry)

FairLibSpec ==
  /\ LibSpec
  /\ WF_vars(Boot) /\ WF_vars(Tick)
  /\ \A e \in 0..(NENV - 1) : SF_vars(InCall(e))

-----------------------------------------------------------------------------
(* Properties.                                                             *)

LibTypeOK ==
  /\ TypeOK
  /\ pc \in [Elem -> Pc]
  /\ arg \in [Elem -> Ids \cup {NULL}]

\* No sequence of library calls makes the kernel store through a null link or fail
\* the assertion of env_run: it stops only when every env is blocked or gone, with
\* the panic of schedule.
OnlyEmptyHalts ==
  /\ halted \in {"no", "empty"}
  /\ halted = "empty" => Runnables = {}

\* An env that waits in sys_ipc_recv is blocked, and what a fork is filling is
\* neither runnable nor receiving: no sender can start a half-built child, and
\* ForkEnd never wakes a receiver.
BlockedOrBuilt ==
  \A e \in Elem :
    /\ env_ipc_recving[e] => env_status[e] = NOT_RUNNABLE /\ pc[e] = "recv"
    /\ e \in Live /\ pc[e] = "fork" =>
         LET c == ENVX(arg[e]) IN
         /\ env_status[c] = NOT_RUNNABLE /\ ~env_ipc_recving[c]
         /\ env_id[c] = arg[e] /\ env_parent_id[c] = env_id[e]

\* 'env_ipc_recving' is set to 0 to block future sends (sys_ipc_try_send): a
\* message is not overwritten between its delivery and the moment ipc_recv reads it.
MessageKept ==
  [][\A e \in Live : pc[e] = "recv" /\ ~env_ipc_recving[e]
       => env_ipc_from'[e] = env_ipc_from[e]]_vars

\* The scheduler is fair (sched.c): every runnable env gets the CPU.
RoundRobin ==
  \A e \in 0..(NENV - 1) :
    env_status[e] = RUNNABLE ~> (curenv = e \/ halted # "no")

\* ipc_send "keeps trying until it succeeds": an env blocked in ipc_recv that some
\* env is sending to is woken.
SendReaches ==
  \A e \in 0..(NENV - 1) :
    (/\ env_ipc_recving[e]
     /\ \E s \in Live : pc[s] \in {"send", "retry"} /\ arg[s] = env_id[e])
      ~> (~env_ipc_recving[e] \/ halted # "no")

-----------------------------------------------------------------------------
(* The inductive invariant behind SchedListIffRunnable, OnlyEmptyHalts,    *)
(* BlockedOrBuilt and MessageKept (proved in LibEnv_proofs).               *)

\* The env that has the CPU is runnable: nobody takes it off the list behind its back.
CurRunnable == Running => curenv \in Runnables

\* A call that works on an env has its envid; a free env is in no call.
ArgsNamed ==
  \A e \in Elem : /\ pc[e] \in {"fork", "send", "retry"} => arg[e] \in Ids
                  /\ e \notin Live => pc[e] = "user"

LibInv ==
  /\ KernelInv /\ LibTypeOK /\ SchedListIffRunnable /\ OnlyEmptyHalts
  /\ BlockedOrBuilt /\ CurRunnable /\ ArgsNamed

-----------------------------------------------------------------------------
(* Refinement of RoundRobinAbs: the queue is the order that the links of   *)
(* env_sched_list spell.                                                   *)
SchedOrder ==
  LET at[i \in 1..Cardinality(Runnables)] ==
        IF i = 1 THEN TAILQ_FIRST(env_sched_list) ELSE env_sched_list.next[at[i - 1]]
  IN  at

Abs == INSTANCE RoundRobinAbs
         WITH Env <- Elem, None <- NULL, ready <- SchedOrder,
              running <- IF halted = "no" THEN curenv ELSE NULL

\* schedule, the wake-up of sys_ipc_try_send, sys_set_env_status, sys_ipc_recv and
\* exit together implement round robin without overtaking.
RefinesRoundRobin == Abs!AbsSpec
================================================================================
