------------------------------- MODULE EnvKernel -------------------------------
(***************************************************************************)
(* The environment table, the scheduler and the environment and IPC        *)
(* syscalls of the kernel: kern/env.c, kern/sched.c, the timer branch of   *)
(* kern/traps.c and the syscalls of kern/syscall_all.c that change them.   *)
(*                                                                         *)
(* The kernel runs on one hart with interrupts disabled, so a syscall or a *)
(* timer interrupt, up to the env_pop_tf that ends it, is one atomic step. *)
(* Each action below is one such step.  The static pointer lists are kept  *)
(* as the code keeps them: env_sched_list at the level of its pointers     *)
(* (TailQueue), because the kernel removes envs from it that may not be in *)
(* it; env_free_list as a sequence, because the code only pushes and pops  *)
(* its first element.  Page tables are modelled in PageMap; here           *)
(* env_setup_vm either succeeds or finds no page.                          *)
(***************************************************************************)
EXTENDS TailQueue, Integers

CONSTANTS
  NENV,      (* length of the array envs; Elem is 0..NENV, see env_init      *)
  NASID,     (* number of address space identifiers                          *)
  BootPri,   (* priorities given to the ENV_CREATEs of rv32_init, in order   *)
  MaxIds     (* bound: env_alloc is called at most this often (mkenvid's i)  *)

ASSUME KernelAssumption ==
  /\ NENV \in Nat /\ NASID \in Nat /\ MaxIds \in Nat
  /\ Elem = 0..NENV
  /\ BootPri \in Seq(Nat \ {0})
  /\ 1 <= Len(BootPri) /\ Len(BootPri) <= NASID /\ NASID <= NENV

VARIABLES
  env_status,       (* env_status of each struct Env                        *)
  env_id,           (* env_id: NULL stands for the initial 0                *)
  env_parent_id,    (* env_parent_id                                        *)
  env_pri,          (* env_pri                                              *)
  env_asid,         (* env_asid                                             *)
  env_ipc_recving,  (* env_ipc_recving                                      *)
  env_ipc_from,     (* env_ipc_from; env_ipc_value and env_ipc_perm are set *)
                    (* with it and stand or fall with it                    *)
  env_sched_list,   (* the TAILQ of runnable envs                           *)
  env_free_list,    (* the LIST of free envs, first element first           *)
  asid_bitmap,      (* the set of ASIDs whose bit is set                    *)
  idcount,          (* the static i of mkenvid                              *)
  curenv,           (* the current env, or NULL                             *)
  count,            (* the static count of schedule                         *)
  created,          (* how many ENV_CREATEs rv32_init has executed          *)
  halted            (* "no", or why the kernel stopped for good             *)

ipcVars  == <<env_ipc_recving, env_ipc_from>>
envVars  == <<env_id, env_parent_id, env_pri, env_asid, env_free_list,
              asid_bitmap, idcount, created>>
runVars  == <<env_sched_list, curenv, count, halted>>
kvars    == <<env_status, ipcVars, envVars, runVars>>

FREE         == "ENV_FREE"
RUNNABLE     == "ENV_RUNNABLE"
NOT_RUNNABLE == "ENV_NOT_RUNNABLE"
Status       == {FREE, RUNNABLE, NOT_RUNNABLE}

\* An envid is the value of mkenvid's counter above the slot of the env.
Ids == [n : Nat, slot : Elem]

Live      == {e \in Elem : env_status[e] # FREE}
Runnables == {e \in Elem : env_status[e] = RUNNABLE}
Running   == halted = "no" /\ curenv # NULL

-----------------------------------------------------------------------------
(* Identifiers.                                                            *)

\* ENVX masks the slot with NENV - 1: the one-past-the-end slot NENV aliases 0.
ENVX(id) == IF id.slot = NENV THEN 0 ELSE id.slot

\* The env that envid denotes for the calling env, or NULL for -E_BAD_ENV;
\* envid NULL stands for 0, the caller itself.
envid2env(envid, checkperm) ==
  IF envid = NULL THEN curenv
  ELSE LET e == ENVX(envid) IN
       IF \/ env_status[e] = FREE \/ env_id[e] # envid
          \/ checkperm /\ env_id[e] # env_id[curenv]
                       /\ env_parent_id[e] # env_id[curenv]
       THEN NULL ELSE e

\* The first clear bit of the bitmap, when there is one.
asid_alloc == CHOOSE a \in (0..(NASID - 1)) \ asid_bitmap :
                \A b \in (0..(NASID - 1)) \ asid_bitmap : a <= b

-----------------------------------------------------------------------------
(* env_init: every slot, the slot after the array included, is free, in    *)
(* ascending order; nothing is runnable.                                   *)
Init ==
  /\ env_status = [e \in Elem |-> FREE]
  /\ env_id = [e \in Elem |-> NULL]
  /\ env_parent_id = [e \in Elem |-> NULL]
  /\ env_pri = [e \in Elem |-> 0]
  /\ env_asid = [e \in Elem |-> 0]
  /\ env_ipc_recving = [e \in Elem |-> FALSE]
  /\ env_ipc_from = [e \in Elem |-> NULL]
  /\ env_sched_list = TAILQ_INIT
  /\ env_free_list = [i \in 1..(NENV + 1) |-> i - 1]
  /\ asid_bitmap = {}
  /\ idcount = 0
  /\ curenv = NULL
  /\ count = 0
  /\ created = 0
  /\ halted = "no"

-----------------------------------------------------------------------------
(* Scheduling.                                                             *)

\* A schedule that puts the env whose turn is over back at the head.
scheduleAtHead(yield, e, q, st) ==
  LET over == yield \/ count = 0 \/ e = NULL \/ st[e] # RUNNABLE
      new  == IF over THEN TAILQ_FIRST(q) ELSE e
  IN  /\ env_sched_list' = q
      /\ IF new = NULL
         THEN halted' = "empty" /\ curenv' = e /\ UNCHANGED count
         ELSE /\ count' = (IF over THEN env_pri[new] ELSE count) - 1
              /\ IF st[new] = RUNNABLE
                 THEN curenv' = new /\ UNCHANGED halted
                 ELSE curenv' = e /\ halted' = "assert"

\* schedule(yield) with curenv = e, run list q and statuses st: rotate e to the
\* tail when its turn is over, pick the first env, and env_run it.
schedule(yield, e, q, st) ==
  LET over == yield \/ count = 0 \/ e = NULL \/ st[e] # RUNNABLE
      q1   == IF over /\ e # NULL /\ st[e] = RUNNABLE
              THEN TAILQ_INSERT_TAIL(TAILQ_REMOVE(q, e), e) ELSE q
      new  == IF over THEN TAILQ_FIRST(q1) ELSE e
  IN  /\ env_sched_list' = q1
      /\ IF new = NULL
         THEN halted' = "empty" /\ curenv' = e /\ UNCHANGED count
         ELSE /\ count' = (IF over THEN env_pri[new] ELSE count) - 1
              /\ IF st[new] = RUNNABLE
                 THEN curenv' = new /\ UNCHANGED halted
                 ELSE curenv' = e /\ halted' = "assert"

\* The timer interrupt: interrupt_handler calls schedule(0).  Interrupts are
\* enabled once rv32_init has created the boot envs.
Timer ==
  /\ halted = "no" /\ created = Len(BootPri)
  /\ schedule(FALSE, curenv, env_sched_list, env_status)
  /\ UNCHANGED <<env_status, ipcVars, envVars>>

sys_yield ==
  /\ Running
  /\ schedule(TRUE, curenv, env_sched_list, env_status)
  /\ UNCHANGED <<env_status, ipcVars, envVars>>

-----------------------------------------------------------------------------
(* Creating and destroying envs.                                           *)

\* An env_alloc whose asid_alloc tries the bit after the last one,
env_allocOneMore(e, parent) ==
  /\ env_free_list # <<>> /\ e = Head(env_free_list)
  /\ idcount < MaxIds
  /\ idcount' = idcount + 1
  /\ env_id' = [env_id EXCEPT ![e] = [n |-> idcount + 1, slot |-> e]]
  /\ env_parent_id' = [env_parent_id EXCEPT ![e] = parent]
  /\ \E a \in (0..NASID) \ asid_bitmap :
       /\ \A b \in (0..NASID) \ asid_bitmap : a <= b
       /\ env_asid' = [env_asid EXCEPT ![e] = a]
       /\ asid_bitmap' = asid_bitmap \cup {a}
  /\ env_free_list' = Tail(env_free_list)

\* one whose asid_alloc does not set the bit,
env_allocNoBit(e, parent) ==
  /\ env_free_list # <<>> /\ e = Head(env_free_list)
  /\ idcount < MaxIds
  /\ idcount' = idcount + 1
  /\ env_id' = [env_id EXCEPT ![e] = [n |-> idcount + 1, slot |-> e]]
  /\ env_parent_id' = [env_parent_id EXCEPT ![e] = parent]
  /\ env_asid' = [env_asid EXCEPT ![e] = asid_alloc]
  /\ env_free_list' = Tail(env_free_list)
  /\ UNCHANGED asid_bitmap

\* and one that takes the env off the free list before asid_alloc can fail.
env_allocEarly(e, parent) ==
  /\ env_free_list # <<>> /\ e = Head(env_free_list)
  /\ idcount < MaxIds
  /\ idcount' = idcount + 1
  /\ env_id' = [env_id EXCEPT ![e] = [n |-> idcount + 1, slot |-> e]]
  /\ env_parent_id' = [env_parent_id EXCEPT ![e] = parent]
  /\ env_free_list' = Tail(env_free_list)
  /\ IF asid_bitmap # 0..(NASID - 1)
     THEN /\ env_asid' = [env_asid EXCEPT ![e] = asid_alloc]
          /\ asid_bitmap' = asid_bitmap \cup {asid_alloc}
     ELSE UNCHANGED <<env_asid, asid_bitmap>>

\* env_alloc(parent) gets as far as mkenvid, and with an ASID left it takes the
\* first free env e off the free list.
env_alloc(e, parent) ==
  /\ env_free_list # <<>> /\ e = Head(env_free_list)
  /\ idcount < MaxIds
  /\ idcount' = idcount + 1
  /\ env_id' = [env_id EXCEPT ![e] = [n |-> idcount + 1, slot |-> e]]
  /\ env_parent_id' = [env_parent_id EXCEPT ![e] = parent]
  /\ IF asid_bitmap # 0..(NASID - 1)
     THEN /\ env_asid' = [env_asid EXCEPT ![e] = asid_alloc]
          /\ asid_bitmap' = asid_bitmap \cup {asid_alloc}
          /\ env_free_list' = Tail(env_free_list)
     ELSE UNCHANGED <<env_asid, asid_bitmap, env_free_list>>

\* The next ENV_CREATE of rv32_init (env_create; the image is not modelled).  The
\* result of env_alloc is not looked at.
env_create ==
  /\ halted = "no" /\ created < Len(BootPri)
  /\ \E e \in Elem :
       /\ env_alloc(e, NULL)
       /\ env_pri' = [env_pri EXCEPT ![e] = BootPri[created + 1]]
       /\ env_status' = [env_status EXCEPT ![e] = RUNNABLE]
       /\ env_sched_list' = TAILQ_INSERT_HEAD(env_sched_list, e)
  /\ created' = created + 1
  /\ UNCHANGED <<ipcVars, curenv, count, halted>>

\* sys_exofork, when env_alloc finds a page for the page directory; the child
\* stays NOT_RUNNABLE.  Without an ASID env_alloc fails after mkenvid.
sys_exofork(e) ==
  /\ Running
  /\ env_alloc(e, env_id[curenv])
  /\ IF asid_bitmap # 0..(NASID - 1)
     THEN /\ env_status' = [env_status EXCEPT ![e] = NOT_RUNNABLE]
          /\ env_pri' = [env_pri EXCEPT ![e] = env_pri[curenv]]
     ELSE UNCHANGED <<env_status, env_pri>>
  /\ UNCHANGED <<ipcVars, runVars, created>>

\* env_free: e returns to the free list and its ASID to the bitmap, then e is
\* taken out of env_sched_list whether or not it is in it.
env_free(e) ==
  /\ env_status' = [env_status EXCEPT ![e] = FREE]
  /\ env_free_list' = <<e>> \o env_free_list
  /\ asid_bitmap' = asid_bitmap \ {env_asid[e]}
  /\ UNCHANGED <<env_id, env_parent_id, env_pri, env_asid, idcount, created,
                 ipcVars>>

\* sys_env_destroy(envid), through env_destroy.
sys_env_destroy(envid) ==
  /\ Running
  /\ LET e == envid2env(envid, TRUE) IN
     /\ e # NULL
     /\ env_free(e)
     /\ IF RemoveFaults(env_sched_list, e)
        THEN halted' = "fault" /\ UNCHANGED <<env_sched_list, curenv, count>>
        ELSE IF e = curenv
             THEN schedule(TRUE, NULL, TAILQ_REMOVE(env_sched_list, e), env_status')
             ELSE /\ env_sched_list' = TAILQ_REMOVE(env_sched_list, e)
                  /\ UNCHANGED <<curenv, count, halted>>

\* A sys_set_env_status that forgets env_sched_list,
set_env_statusNoList(envid, status) ==
  /\ Running
  /\ LET e == envid2env(envid, TRUE) IN
     /\ e # NULL
     /\ env_status[e] # status
     /\ env_status' = [env_status EXCEPT ![e] = status]
  /\ UNCHANGED <<ipcVars, envVars, runVars>>

\* and one that inserts at the head.
set_env_statusAtHead(envid, status) ==
  /\ Running
  /\ LET e == envid2env(envid, TRUE) IN
     /\ e # NULL
     /\ env_status[e] # status
     /\ env_status' = [env_status EXCEPT ![e] = status]
     /\ env_sched_list' = IF status = RUNNABLE
                          THEN TAILQ_INSERT_HEAD(env_sched_list, e)
                          ELSE TAILQ_REMOVE(env_sched_list, e)
  /\ UNCHANGED <<ipcVars, envVars, curenv, count, halted>>

\* sys_set_env_status(envid, status), for a legal status that is a change.
sys_set_env_status(envid, status) ==
  /\ Running
  /\ LET e == envid2env(envid, TRUE) IN
     /\ e # NULL
     /\ env_status[e] # status
     /\ env_status' = [env_status EXCEPT ![e] = status]
     /\ env_sched_list' = IF status = RUNNABLE
                          THEN TAILQ_INSERT_TAIL(env_sched_list, e)
                          ELSE TAILQ_REMOVE(env_sched_list, e)
  /\ UNCHANGED <<ipcVars, envVars, curenv, count, halted>>

-----------------------------------------------------------------------------
(* Message passing.                                                        *)

\* A sys_ipc_recv that leaves curenv in env_sched_list.
ipc_recvQueued ==
  /\ Running
  /\ env_ipc_recving' = [env_ipc_recving EXCEPT ![curenv] = TRUE]
  /\ env_status' = [env_status EXCEPT ![curenv] = NOT_RUNNABLE]
  /\ schedule(TRUE, curenv, env_sched_list, env_status')
  /\ UNCHANGED <<env_ipc_from, envVars>>

\* sys_ipc_recv(dstva), for a legal dstva: block until a message is sent.
sys_ipc_recv ==
  /\ Running
  /\ env_ipc_recving' = [env_ipc_recving EXCEPT ![curenv] = TRUE]
  /\ env_status' = [env_status EXCEPT ![curenv] = NOT_RUNNABLE]
  /\ schedule(TRUE, curenv, TAILQ_REMOVE(env_sched_list, curenv), env_status')
  /\ UNCHANGED <<env_ipc_from, envVars>>

\* What sys_ipc_try_send(envid, ...) returns, before any page is mapped.
SendResult(envid) ==
  LET e == envid2env(envid, FALSE) IN
  IF e = NULL THEN "E_BAD_ENV"
  ELSE IF env_ipc_recving[e] THEN "ok" ELSE "E_IPC_NOT_RECV"

\* A sys_ipc_try_send that does not clear env_ipc_recving.
ipc_try_sendOpen(envid) ==
  /\ Running
  /\ SendResult(envid) = "ok"
  /\ LET e == envid2env(envid, FALSE) IN
     /\ env_ipc_from' = [env_ipc_from EXCEPT ![e] = env_id[curenv]]
     /\ env_status' = [env_status EXCEPT ![e] = RUNNABLE]
     /\ env_sched_list' = TAILQ_INSERT_TAIL(env_sched_list, e)
  /\ UNCHANGED <<env_ipc_recving, envVars, curenv, count, halted>>

\* sys_ipc_try_send(envid, value, 0, 0) to an env that is receiving.
sys_ipc_try_send(envid) ==
  /\ Running
  /\ SendResult(envid) = "ok"
  /\ LET e == envid2env(envid, FALSE) IN
     /\ env_ipc_from' = [env_ipc_from EXCEPT ![e] = env_id[curenv]]
     /\ env_ipc_recving' = [env_ipc_recving EXCEPT ![e] = FALSE]
     /\ env_status' = [env_status EXCEPT ![e] = RUNNABLE]
     /\ env_sched_list' = TAILQ_INSERT_TAIL(env_sched_list, e)
  /\ UNCHANGED <<envVars, curenv, count, halted>>

-----------------------------------------------------------------------------
(* Any env may make any syscall at any time; envids name envs that exist   *)
(* or existed (the last id of a slot), or the caller (0).                  *)
EnvIds == {env_id[e] : e \in Elem} \cup {NULL}

Next ==
  \/ env_create
  \/ Timer
  \/ sys_yield
  \/ \E e \in Elem : sys_exofork(e)
  \/ \E envid \in EnvIds : sys_env_destroy(envid)
  \/ \E envid \in EnvIds, status \in {RUNNABLE, NOT_RUNNABLE} :
       sys_set_env_status(envid, status)
  \/ sys_ipc_recv
  \/ \E envid \in EnvIds : sys_ipc_try_send(envid)

Spec == Init /\ [][Next]_kvars

-----------------------------------------------------------------------------
(* Properties.                                                             *)

TypeOK ==
  /\ env_status \in [Elem -> Status]
  /\ env_id \in [Elem -> Ids \cup {NULL}]
  /\ env_parent_id \in [Elem -> Ids \cup {NULL}]
  /\ env_pri \in [Elem -> Nat]
  /\ env_asid \in [Elem -> 0..NASID]
  /\ env_ipc_recving \in [Elem -> BOOLEAN]
  /\ env_ipc_from \in [Elem -> Ids \cup {NULL}]
  /\ env_sched_list \in TailQ
  /\ env_free_list \in Seq(Elem)
  /\ asid_bitmap \subseteq 0..(NASID - 1)
  /\ idcount \in Nat
  /\ curenv \in Elem \cup {NULL}
  /\ count \in Int
  /\ created \in 0..Len(BootPri)
  /\ halted \in {"no", "empty", "assert", "fault"}

\* The claim at kern/env.c:18: an env is in env_sched_list iff it is RUNNABLE,
\* and the list itself is a well-formed queue.
SchedListIffRunnable == halted = "no" => Holds(env_sched_list, Runnables)

\* Two envs that are alive never run under the same ASID: asid_alloc never hands
\* out an identifier that a live env holds, so one env's TLB entries never
\* translate for another.
AsidsDistinct ==
  \A e, f \in Live : env_asid[e] = env_asid[f] => e = f

\* The free list and the table agree through every alloc, failed alloc and free:
\* every env is on the free list exactly once or alive (env_alloc, env_free).
FreeListExact ==
  /\ \A e \in Elem : e \in Live \/ \E i \in DOMAIN env_free_list : env_free_list[i] = e
  /\ \A i, j \in DOMAIN env_free_list :
       /\ env_free_list[i] \notin Live
       /\ env_free_list[i] = env_free_list[j] => i = j

\* env_init puts the slot after the end of envs on the free list.  It stays there:
\* the ASIDs run out before env_alloc comes to it.
PhantomStaysFree == env_status[NENV] = FREE

-----------------------------------------------------------------------------
(* The inductive invariant behind AsidsDistinct, FreeListExact and         *)
(* PhantomStaysFree (proved in EnvKernel_proofs).                          *)

\* The kernel only writes through links that an insertion has set: an env that is
\* runnable or running has been inserted at least once.
LinksWritten ==
  /\ \A e \in Runnables : env_sched_list.prev[e] # NULL
  /\ Running => curenv \in Live /\ env_sched_list.prev[curenv] # NULL

\* The slot after the array is the last one that env_alloc would take.
PhantomLast ==
  /\ Len(env_free_list) # 0
  /\ env_free_list[Len(env_free_list)] = NENV

\* The identifier and the ASID of a live env are its own.
IdsOwned ==
  \A e \in Live : /\ env_id[e] \in Ids /\ env_id[e].slot = e
                  /\ env_asid[e] \in asid_bitmap

\* While rv32_init creates the boot envs nothing runs and each of them has taken
\* one ASID, so env_create, which ignores env_alloc's result, never sees it fail.
BootAsids ==
  created < Len(BootPri) => curenv = NULL /\ Cardinality(asid_bitmap) = created

KernelInv ==
  /\ TypeOK /\ LinksWritten /\ PhantomLast /\ IdsOwned
  /\ FreeListExact /\ AsidsDistinct /\ BootAsids
================================================================================
