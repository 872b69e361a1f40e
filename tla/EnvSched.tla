------------------------------ MODULE EnvSched ------------------------------
(***************************************************************************)
(* The environment table, the processors and the big kernel lock of the    *)
(* JOS kernel (tps/kern: env.c, sched.c, trap.c, syscall.c, spinlock.c,     *)
(* init.c).                                                                *)
(*                                                                         *)
(* Every kernel path from lock_kernel() to unlock_kernel() is one action:  *)
(* no other processor can read or write the table in between.  Entering    *)
(* the kernel is three steps (the trap, the acquisition of the lock, the   *)
(* handler), so that processors race for the lock and other processors'    *)
(* handlers run between a trap and its own handler.                        *)
(***************************************************************************)
EXTENDS Integers, Sequences, FiniteSets

CONSTANTS
  NENV,       \* number of slots of envs[]
  NCPU,       \* number of processors; processor 0 is the boot processor
  NBoot,      \* number of environments that i386_init creates
  MaxGen,     \* last generation before the int32 wraps (2^19 - 1 in the code)
  Values,     \* values an environment may send by IPC
  Pages,      \* {FALSE}: messages carry no page; BOOLEAN: some do
  Syscalls,   \* the state-changing system calls that user programs make, and
              \* "breakpoint" when they execute int3 (inc/x86.h)
  Raw,        \* TRUE: they are called with any arguments the kernel accepts;
              \* FALSE: only as lib/ and user/ call them
  DeviceIrqs  \* TRUE: keys are pressed (or bytes arrive on the serial line)

ASSUME EnvSchedAssumption ==
  /\ NENV \in Nat \ {0}
  /\ NCPU \in Nat \ {0}
  /\ NBoot \in 0..NENV
  /\ MaxGen \in Nat \ {0}
  /\ Values # {}
  /\ Pages \subseteq BOOLEAN
  /\ Raw \in BOOLEAN
  /\ DeviceIrqs \in BOOLEAN

Envs == 0..(NENV - 1)
Cpus == 0..(NCPU - 1)
BSP  == 0
NoEnv == -1                        \* the pointer value NULL of curenv
NoCpu == -1                        \* nobody holds the lock

\* envid_t: a generation and a slot.  Id0 is envid 0: "the caller" as an
\* argument, "created by the kernel" as a parent.
EnvIds == (0..MaxGen) \X Envs
Id0    == <<0, 0>>
ENVX(id) == id[2]

Statuses == {"FREE", "DYING", "RUNNABLE", "RUNNING", "NOT_RUNNABLE"}

\* Where a processor is.  off, start: an AP before and in mp_main.  boot: the
\* BSP in i386_init.  user: running curenv.  spin: in lock_kernel.  kern: in a
\* handler, with the lock.  halt: in the hlt loop of sched_halt.  debug: in the
\* monitor that a breakpoint calls.  monitor: in the final loop of sched_halt.
\* panic: in _panic.  dead: stopped by panicstr.
Phases == {"off", "start", "boot", "user", "spin", "kern", "halt",
           "debug", "monitor", "panic", "dead"}

VARIABLES
  env_status, env_id, env_parent_id, env_free_list,
  env_ipc_recving,
  env_ipc_dstva,                   \* the receiver asks for a page (dstva < UTOP)
  env_ipc_from, env_ipc_value,
  env_ipc_perm,                    \* nonzero: a page came with the message
  kernel_lock,                     \* the processor that holds it, or NoCpu
  panicstr,                        \* some processor has called panic()
  pc, curenv, cpu_status           \* per processor

tabVars == <<env_id, env_parent_id, env_free_list>>
ipcVars == <<env_ipc_recving, env_ipc_dstva, env_ipc_from, env_ipc_value,
             env_ipc_perm>>
cpuVars == <<kernel_lock, panicstr, pc, curenv, cpu_status>>
vars == <<env_status, tabVars, ipcVars, cpuVars>>

-----------------------------------------------------------------------------
(* Leaving the kernel.  `cur' and `st' are curenv and env_status as the    *)
(* handler has left them when it calls the scheduler.                      *)

\* panic(): records panicstr and loops in the monitor; the lock, if this
\* processor holds it, is never released.
Panic(c) ==
  /\ panicstr' = TRUE
  /\ pc' = [pc EXCEPT ![c] = "panic"]
  /\ UNCHANGED <<kernel_lock, curenv, cpu_status>>

\* unlock_kernel() and then user mode or the hlt loop; spin_unlock panics when
\* the caller does not hold the lock.
unlock_kernel(c, phase) ==
  IF kernel_lock = c
  THEN /\ kernel_lock' = NoCpu
       /\ pc' = [pc EXCEPT ![c] = phase]
       /\ UNCHANGED panicstr
  ELSE /\ panicstr' = TRUE
       /\ pc' = [pc EXCEPT ![c] = "panic"]
       /\ UNCHANGED kernel_lock

\* Mutant of env_run: the environment it replaces stays RUNNING.
env_run_keeps(c, cur, st, e) ==
  /\ env_status' = [st EXCEPT ![e] = "RUNNING"]
  /\ curenv' = [curenv EXCEPT ![c] = e]
  /\ unlock_kernel(c, "user")
  /\ UNCHANGED cpu_status

env_run(c, cur, st, e) ==
  /\ env_status' =
       [x \in Envs |->
          IF x = e THEN "RUNNING"
          ELSE IF x = cur /\ st[x] = "RUNNING" THEN "RUNNABLE" ELSE st[x]]
  /\ curenv' = [curenv EXCEPT ![c] = e]
  /\ unlock_kernel(c, "user")
  /\ UNCHANGED cpu_status

\* Mutant of Idle: environments on other processors are forgotten.
Idle_alone(st) == \A e \in Envs : st[e] # "RUNNABLE"

\* The search of sched_halt: nothing to run here or on another processor.
Idle(st) == \A e \in Envs : st[e] \notin {"RUNNABLE", "RUNNING", "DYING"}

\* Mutant of MarkHalted: nothing says that the lock is released.
MarkHalted_not(c) == UNCHANGED cpu_status

\* For trap(), which then knows that it has to take the lock again.
MarkHalted(c) == cpu_status' = [cpu_status EXCEPT ![c] = "HALTED"]

sched_halt(c, cur, st) ==
  /\ env_status' = st
  /\ IF Idle(st)
     THEN /\ pc' = [pc EXCEPT ![c] = "monitor"]
          /\ curenv' = [curenv EXCEPT ![c] = cur]
          /\ UNCHANGED <<kernel_lock, panicstr, cpu_status>>
     ELSE /\ curenv' = [curenv EXCEPT ![c] = NoEnv]
          /\ MarkHalted(c)
          /\ unlock_kernel(c, "halt")

\* The slot that the k-th iteration of the scheduler's loop looks at.
Probe(cur, k) == ((IF cur = NoEnv THEN 0 ELSE cur + 1) + k) % NENV

\* Mutant of LastProbe: one iteration less.
LastProbe_short == NENV - 3

\* The loop makes NENV - 1 iterations, whether or not there is a curenv.
LastProbe == NENV - 2

\* Mutant of Eligible: a zombie is as good as a runnable environment.
Eligible_zombie(st, e) == st[e] \in {"RUNNABLE", "DYING"}

\* What the scheduler may pick in its loop.
Eligible(st, e) == st[e] = "RUNNABLE"

sched_yield(c, cur, st) ==
  \/ \E k \in 0..LastProbe :
       /\ Eligible(st, Probe(cur, k))
       /\ \A j \in 0..(k - 1) : ~Eligible(st, Probe(cur, j))
       /\ env_run(c, cur, st, Probe(cur, k))
  \/ /\ \A k \in 0..LastProbe : ~Eligible(st, Probe(cur, k))
     /\ IF cur # NoEnv /\ st[cur] = "RUNNING"
        THEN env_run(c, cur, st, cur)
        ELSE sched_halt(c, cur, st)

\* The end of trap(): back to curenv if it is still RUNNING.
trap_return(c, st) ==
  IF curenv[c] # NoEnv /\ st[curenv[c]] = "RUNNING"
  THEN env_run(c, curenv[c], st, curenv[c])
  ELSE sched_yield(c, curenv[c], st)

-----------------------------------------------------------------------------
(* Booting *)

Init ==
  /\ env_status = [e \in Envs |-> "FREE"]
  /\ env_id = [e \in Envs |-> 0]
  /\ env_parent_id = [e \in Envs |-> Id0]
  /\ env_free_list = [i \in 1..NENV |-> i - 1]
  /\ env_ipc_recving = [e \in Envs |-> FALSE]
  /\ env_ipc_dstva = [e \in Envs |-> FALSE]
  /\ env_ipc_from = [e \in Envs |-> Id0]
  /\ env_ipc_value = [e \in Envs |-> CHOOSE v \in Values : TRUE]
  /\ env_ipc_perm = [e \in Envs |-> FALSE]
  /\ kernel_lock = BSP
  /\ panicstr = FALSE
  /\ pc = [c \in Cpus |-> IF c = BSP THEN "boot" ELSE "off"]
  /\ curenv = [c \in Cpus |-> NoEnv]
  /\ cpu_status = [c \in Cpus |-> IF c = BSP THEN "STARTED" ELSE "UNUSED"]

\* boot_aps: the APs are started one at a time, in the order of cpus[]; the
\* next one only when the previous one has announced itself.
boot_aps(c) ==
  /\ pc[BSP] = "boot"
  /\ pc[c] = "off"
  /\ \A d \in 0..(c - 1) : cpu_status[d] = "STARTED"
  /\ pc' = [pc EXCEPT ![c] = "start"]
  /\ UNCHANGED <<env_status, tabVars, ipcVars, kernel_lock, panicstr, curenv,
                 cpu_status>>

\* Mutant of mp_main: the processor announces itself with the lock.
mp_main_late(c) ==
  /\ pc[c] = "start"
  /\ kernel_lock = NoCpu
  /\ kernel_lock' = c
  /\ cpu_status' = [cpu_status EXCEPT ![c] = "STARTED"]
  /\ pc' = [pc EXCEPT ![c] = "kern"]
  /\ UNCHANGED <<env_status, tabVars, ipcVars, panicstr, curenv>>

\* mp_main up to lock_kernel().
mp_main(c) ==
  /\ pc[c] = "start"
  /\ cpu_status' = [cpu_status EXCEPT ![c] = "STARTED"]
  /\ pc' = [pc EXCEPT ![c] = "spin"]
  /\ UNCHANGED <<env_status, tabVars, ipcVars, kernel_lock, panicstr, curenv>>

\* What boot_aps waits for before it returns.
ApsStarted == \A c \in Cpus : cpu_status[c] = "STARTED"

\* The rest of i386_init: NBoot times ENV_CREATE (env_alloc hands out slots
\* 0, 1, ... because nothing has been freed yet), then the scheduler.
i386_init ==
  /\ pc[BSP] = "boot"
  /\ ApsStarted
  /\ env_id' = [e \in Envs |-> IF e < NBoot THEN 1 ELSE 0]
  /\ env_free_list' = SubSeq(env_free_list, NBoot + 1, NENV)
  /\ sched_yield(BSP, NoEnv,
                 [e \in Envs |-> IF e < NBoot THEN "RUNNABLE" ELSE "FREE"])
  /\ UNCHANGED <<env_parent_id, ipcVars>>
-----------------------------------------------------------------------------
(* Entering the kernel *)

\* trap() from user mode, up to lock_kernel().  A processor that finds
\* panicstr set stops for good.  A cpu_status of HALTED here would make trap()
\* acquire the lock twice, which spin_lock turns into a panic.
trap_user(c) ==
  /\ pc[c] = "user"
  /\ cpu_status' = [cpu_status EXCEPT ![c] = "STARTED"]
  /\ IF panicstr
     THEN pc' = [pc EXCEPT ![c] = "dead"] /\ UNCHANGED panicstr
     ELSE IF curenv[c] = NoEnv \/ cpu_status[c] = "HALTED"
     THEN pc' = [pc EXCEPT ![c] = "panic"] /\ panicstr' = TRUE
     ELSE pc' = [pc EXCEPT ![c] = "spin"] /\ UNCHANGED panicstr
  /\ UNCHANGED <<env_status, tabVars, ipcVars, kernel_lock, curenv>>

\* Mutant of trap_halted: cpu_status stays HALTED.
trap_halted_stale(c) ==
  /\ pc[c] = "halt"
  /\ pc' = [pc EXCEPT ![c] = IF panicstr THEN "dead" ELSE "spin"]
  /\ UNCHANGED <<env_status, tabVars, ipcVars, kernel_lock, panicstr, curenv,
                 cpu_status>>

\* trap() out of the hlt loop: the lock is taken again only if cpu_status says
\* that sched_halt released it.
trap_halted(c) ==
  /\ pc[c] = "halt"
  /\ cpu_status' = [cpu_status EXCEPT ![c] = "STARTED"]
  /\ pc' = [pc EXCEPT ![c] = IF panicstr THEN "dead"
                             ELSE IF cpu_status[c] = "HALTED" THEN "spin"
                             ELSE "kern"]
  /\ UNCHANGED <<env_status, tabVars, ipcVars, kernel_lock, panicstr, curenv>>

spin_lock(c) ==
  /\ pc[c] = "spin"
  /\ \/ /\ kernel_lock = NoCpu
        /\ kernel_lock' = c
        /\ pc' = [pc EXCEPT ![c] = "kern"]
        /\ UNCHANGED <<panicstr, curenv, cpu_status>>
     \/ kernel_lock = c /\ Panic(c)
  /\ UNCHANGED <<env_status, tabVars, ipcVars>>

-----------------------------------------------------------------------------
(* Handlers: the rest of trap(), with the lock *)

\* Mutant of Zombie: trap() does not look.
Zombie_never(c) == FALSE

\* curenv was destroyed while it ran on this processor.
Zombie(c) == curenv[c] # NoEnv /\ env_status[curenv[c]] = "DYING"

Dispatching(c) == pc[c] = "kern" /\ ~Zombie(c)

\* Mutant of FreeEnv: the rest of the list is lost.
FreeEnv_drops(e) == env_free_list' = <<e>>

FreeEnv(e) == env_free_list' = <<e>> \o env_free_list

\* The garbage collection at the head of trap().
reap(c) ==
  /\ pc[c] = "kern"
  /\ Zombie(c)
  /\ FreeEnv(curenv[c])
  /\ sched_yield(c, NoEnv, [env_status EXCEPT ![curenv[c]] = "FREE"])
  /\ UNCHANGED <<env_id, env_parent_id, ipcVars>>

\* The timer interrupt and sys_yield; also what mp_main does with the lock.
sys_yield(c) ==
  /\ Dispatching(c)
  /\ sched_yield(c, curenv[c], env_status)
  /\ UNCHANGED <<tabVars, ipcVars>>

\* Every trap that changes nothing of this state: a system call that fails or
\* that only reads or prints, a page fault with an upcall, a spurious interrupt.
trap_noop(c) ==
  /\ Dispatching(c)
  /\ trap_return(c, env_status)
  /\ UNCHANGED <<tabVars, ipcVars>>

\* The breakpoint trap of a user program calls the monitor, with the lock held.
\* None of the monitor's commands returns a negative number: it never ends, and
\* every processor that traps after it spins for ever.
breakpoint(c) ==
  /\ "breakpoint" \in Syscalls
  /\ Dispatching(c)
  /\ curenv[c] # NoEnv
  /\ pc' = [pc EXCEPT ![c] = "debug"]
  /\ UNCHANGED <<env_status, tabVars, ipcVars, kernel_lock, panicstr, curenv,
                 cpu_status>>

\* env_destroy(e) called by a handler on processor c, and the end of trap().
\* Freeing a slot that is free already dereferences its null env_pgdir: the
\* kernel page-faults and panics.
env_destroy(c, e) ==
  IF env_status[e] = "RUNNING" /\ curenv[c] # e
  THEN /\ trap_return(c, [env_status EXCEPT ![e] = "DYING"])
       /\ UNCHANGED <<tabVars, ipcVars>>
  ELSE IF env_status[e] = "FREE"
  THEN Panic(c) /\ UNCHANGED <<env_status, tabVars, ipcVars>>
  ELSE /\ FreeEnv(e)
       /\ LET st == [env_status EXCEPT ![e] = "FREE"]
          IN IF curenv[c] = e
             THEN sched_yield(c, NoEnv, st)
             ELSE trap_return(c, st)
       /\ UNCHANGED <<env_id, env_parent_id, ipcVars>>

\* An exception that no handler knows, a page fault without an upcall or
\* without room on the exception stack, or a bad pointer in sys_cputs.  The
\* keyboard and the serial line interrupt the boot processor only, and no gate
\* of the IDT is theirs: out of the hlt loop, that is fatal to the kernel.
unexpected_trap(c) ==
  /\ Dispatching(c)
  /\ IF curenv[c] # NoEnv
     THEN env_destroy(c, curenv[c])
     ELSE /\ DeviceIrqs /\ c = BSP
          /\ Panic(c)
          /\ UNCHANGED <<env_status, tabVars, ipcVars>>

\* envid2env: the slot that an envid names for the caller on c, or NoEnv.
envid2env(c, id, checkperm) ==
  LET e == ENVX(id)
  IN IF id = Id0 THEN curenv[c]
     ELSE IF \/ env_status[e] = "FREE"
             \/ env_id[e] # id[1]
             \/ /\ checkperm
                /\ e # curenv[c]
                /\ env_parent_id[e] # <<env_id[curenv[c]], curenv[c]>>
     THEN NoEnv ELSE e

\* A system call of curenv that user programs of this instance make.
Calling(c, name) ==
  name \in Syscalls /\ Dispatching(c) /\ curenv[c] # NoEnv

\* No program destroys the same child twice (user/spin.c,
\* user/testpiperace2.c, the error path of lib/spawn.c).
sys_env_destroy(c, id) ==
  /\ Calling(c, "env_destroy")
  /\ LET e == envid2env(c, id, TRUE)
     IN /\ e # NoEnv
        /\ Raw \/ env_status[e] # "DYING"
        /\ env_destroy(c, e)

\* Mutant of NextGen: the generation does not wrap.
NextGen_unbounded(g) == g + 1

\* env_alloc's next generation for a slot: the int32 wraps to a negative
\* number, which is replaced by the first generation.
NextGen(g) == IF g >= MaxGen THEN 1 ELSE g + 1

\* Mutant of ClearRecving: the flag of the slot's last owner stays.
ClearRecving_not(e) == UNCHANGED env_ipc_recving

\* env_alloc clears the flag that the slot's last owner may have left.
ClearRecving(e) == env_ipc_recving' = [env_ipc_recving EXCEPT ![e] = FALSE]

\* sys_exofork, when env_alloc finds a slot and a page for its directory.
sys_exofork(c) ==
  /\ Calling(c, "exofork")
  /\ env_free_list # <<>>
  /\ LET e == Head(env_free_list)
     IN /\ env_id' = [env_id EXCEPT ![e] = NextGen(@)]
        /\ env_parent_id' =
             [env_parent_id EXCEPT ![e] = <<env_id[curenv[c]], curenv[c]>>]
        /\ env_free_list' = Tail(env_free_list)
        /\ ClearRecving(e)
        /\ trap_return(c, [env_status EXCEPT ![e] = "NOT_RUNNABLE"])
  /\ UNCHANGED <<env_ipc_dstva, env_ipc_from, env_ipc_value, env_ipc_perm>>

\* An environment between its sys_exofork and its first run.
Embryo(e) == env_status[e] = "NOT_RUNNABLE" /\ ~env_ipc_recving[e]

\* fork, fork_v0, spawn and dumbfork call it once, on the child that they have
\* just built, with ENV_RUNNABLE; the kernel accepts more.
sys_env_set_status(c, id, s) ==
  /\ Calling(c, "env_set_status")
  /\ LET e == envid2env(c, id, TRUE)
     IN /\ e # NoEnv
        /\ Raw \/ (s = "RUNNABLE" /\ e # curenv[c] /\ Embryo(e))
        /\ trap_return(c, [env_status EXCEPT ![e] = s])
  /\ UNCHANGED <<tabVars, ipcVars>>

sys_ipc_recv(c, dstva) ==
  /\ Calling(c, "ipc")
  /\ LET e == curenv[c]
     IN /\ env_ipc_recving' = [env_ipc_recving EXCEPT ![e] = TRUE]
        /\ env_ipc_dstva' = [env_ipc_dstva EXCEPT ![e] = dstva]
        /\ sched_yield(c, e, [env_status EXCEPT ![e] = "NOT_RUNNABLE"])
  /\ UNCHANGED <<tabVars, env_ipc_from, env_ipc_value, env_ipc_perm>>

\* Mutant of Receiving: any environment takes a message.
Receiving_any(e) == TRUE

\* The receiver is waiting; otherwise the send fails with -E_IPC_NOT_RECV.
Receiving(e) == env_ipc_recving[e]

\* Mutant of SentPerm: env_ipc_perm is not reset first.
SentPerm_stale(e, page, ok) ==
  env_ipc_perm[e] \/ (page /\ ok /\ env_ipc_dstva[e])

\* What the receiver finds in env_ipc_perm, once it has been reset.
SentPerm(e, page, ok) == page /\ ok /\ env_ipc_dstva[e]

\* Mutant of StopReceiving: the receiver stays marked.
StopReceiving_not(e) == UNCHANGED env_ipc_recving

\* Later senders must find the receiver busy.
StopReceiving(e) == env_ipc_recving' = [env_ipc_recving EXCEPT ![e] = FALSE]

\* sys_ipc_try_send to a receiver that is waiting.  `page': the sender gives a
\* page; `ok': that page is mapped, permitted, and can be inserted.  The
\* receiver's env_ipc_perm is cleared even when the call then fails.
sys_ipc_try_send(c, id, v, page, ok) ==
  /\ Calling(c, "ipc")
  /\ LET e == envid2env(c, id, FALSE)
     IN /\ e # NoEnv
        /\ Receiving(e)
        /\ env_ipc_perm' = [env_ipc_perm EXCEPT ![e] = SentPerm(e, page, ok)]
        /\ IF page /\ ~ok
           THEN /\ trap_return(c, env_status)
                /\ UNCHANGED <<env_ipc_recving, env_ipc_from, env_ipc_value>>
           ELSE /\ StopReceiving(e)
                /\ env_ipc_from' =
                     [env_ipc_from EXCEPT ![e] = <<env_id[curenv[c]], curenv[c]>>]
                /\ env_ipc_value' = [env_ipc_value EXCEPT ![e] = v]
                /\ trap_return(c, [env_status EXCEPT ![e] = "RUNNABLE"])
  /\ UNCHANGED <<tabVars, env_ipc_dstva>>

\* sched_halt, _panic and the breakpoint trap stay in the monitor for ever.
monitor(c) == pc[c] \in {"debug", "monitor", "panic"} /\ UNCHANGED vars

-----------------------------------------------------------------------------
Syscall(c) ==
  \/ sys_exofork(c)
  \/ \E id \in EnvIds : sys_env_destroy(c, id)
  \/ \E id \in EnvIds, s \in {"RUNNABLE", "NOT_RUNNABLE"} :
       sys_env_set_status(c, id, s)
  \/ \E dstva \in Pages : sys_ipc_recv(c, dstva)
  \/ \E id \in EnvIds, v \in Values, page \in Pages, ok \in BOOLEAN :
       sys_ipc_try_send(c, id, v, page, ok)

Handler(c) == reap(c) \/ sys_yield(c) \/ trap_noop(c) \/ breakpoint(c)
              \/ unexpected_trap(c) \/ Syscall(c)

Next ==
  \/ i386_init
  \/ \E c \in Cpus :
       \/ boot_aps(c)
       \/ mp_main(c)
       \/ trap_user(c)
       \/ trap_halted(c)
       \/ spin_lock(c)
       \/ Handler(c)
       \/ monitor(c)

Spec == Init /\ [][Next]_vars

\* Every processor keeps executing.  The timer interrupts user mode and the
\* hlt loop again and again, so a processor that keeps entering the kernel
\* keeps being preempted (SF on sys_yield).  spin_lock is a test-and-set loop:
\* the pause in unlock_kernel is there to let a waiting processor win some day.
Fairness ==
  /\ WF_vars(i386_init)
  /\ \A c \in Cpus :
       /\ WF_vars(boot_aps(c))
       /\ WF_vars(mp_main(c))
       /\ WF_vars(trap_user(c))
       /\ WF_vars(trap_halted(c))
       /\ SF_vars(spin_lock(c))
       /\ WF_vars(Handler(c))
       /\ SF_vars(sys_yield(c))

FairSpec == Spec /\ Fairness
-----------------------------------------------------------------------------
(* Properties *)

\* The fields of struct Env and struct CpuInfo keep to their types; in
\* particular the generations of env_alloc stay in range when they wrap.
TypeOK ==
  /\ env_status \in [Envs -> Statuses]
  /\ env_id \in [Envs -> 0..MaxGen]
  /\ env_parent_id \in [Envs -> EnvIds]
  /\ env_free_list \in Seq(Envs)
  /\ env_ipc_recving \in [Envs -> BOOLEAN]
  /\ env_ipc_dstva \in [Envs -> BOOLEAN]
  /\ env_ipc_from \in [Envs -> EnvIds]
  /\ env_ipc_value \in [Envs -> Values]
  /\ env_ipc_perm \in [Envs -> BOOLEAN]
  /\ kernel_lock \in Cpus \cup {NoCpu}
  /\ panicstr \in BOOLEAN
  /\ pc \in [Cpus -> Phases]
  /\ curenv \in [Cpus -> Envs \cup {NoEnv}]
  /\ cpu_status \in [Cpus -> {"UNUSED", "STARTED", "HALTED"}]

InKernel(c) == pc[c] \in {"boot", "kern", "debug", "monitor"}

\* The big kernel lock: a processor executes kernel code on shared data exactly
\* while it holds kernel_lock, so no two do.  It rests on cpu_status telling
\* trap() whether sched_halt released the lock (trap.c:290).
LockProtectsKernel ==
  \A c \in Cpus :
    /\ InKernel(c) => kernel_lock = c
    /\ kernel_lock = c => InKernel(c) \/ pc[c] = "panic"

Runs(c, e) == curenv[c] = e /\ pc[c] # "monitor"

\* No environment is executed by two processors at once (sched.c:26,
\* user/stresssched.c:25).
NeverTwoCpus ==
  \A c, d \in Cpus : \A e \in Envs : Runs(c, e) /\ Runs(d, e) => c = d

\* An environment is RUNNING or DYING exactly while it is the curenv of one
\* processor: the scheduler, env_destroy and trap() all infer "a processor is
\* using it" from the status alone.
RunsOnOneCpu ==
  /\ \A e \in Envs :
       env_status[e] \in {"RUNNING", "DYING"} <=> \E c \in Cpus : Runs(c, e)
  /\ NeverTwoCpus

\* env_free_list holds every free slot once and no slot in use (env_alloc,
\* env_free): a slot on it twice would be given to two environments.
FreeListExact ==
  /\ \A e \in Envs :
       env_status[e] = "FREE" <=> \E i \in DOMAIN env_free_list : env_free_list[i] = e
  /\ \A i, j \in DOMAIN env_free_list :
       env_free_list[i] = env_free_list[j] => i = j

\* sched_halt gives the machine to the monitor, for ever, only when no
\* environment can run and none is running on another processor.
MonitorMeansIdle ==
  (\E c \in Cpus : pc[c] = "monitor") =>
     /\ \A e \in Envs : env_status[e] \in {"FREE", "NOT_RUNNABLE"}
     /\ \A c \in Cpus : pc[c] # "user"

\* An environment marked as receiving is blocked in sys_ipc_recv.
RecvMeansBlocked ==
  \A e \in Envs :
    env_ipc_recving[e] => env_status[e] \in {"NOT_RUNNABLE", "FREE"}

\* No panic: the lock is never taken twice nor released by another processor,
\* trap() finds a curenv, no slot is freed twice.
NoPanic == ~panicstr

\* A zombie is freed by the processor that runs it, and by nobody else
\* (env.c:471).
ZombieFreedByItsCpu ==
  [][\A e \in Envs :
       env_status[e] = "DYING" /\ env_status'[e] # "DYING" =>
         env_status'[e] = "FREE" /\ \E c \in Cpus : kernel_lock = c /\ curenv[c] = e
    ]_vars

\* A child made by sys_exofork does not run until its parent says so: a slot in
\* use again receives nothing before its new owner asks (its last owner may have
\* died inside sys_ipc_recv, env.c:260), and until then nobody else's system
\* call makes the child RUNNABLE.
EmbryoReleasedByParent ==
  [][\A e \in Envs :
       /\ env_status[e] = "FREE" /\ env_status'[e] # "FREE" => ~env_ipc_recving'[e]
       /\ Embryo(e) /\ env_status'[e] \notin {"NOT_RUNNABLE", "FREE"} =>
            \E c \in Cpus :
              /\ kernel_lock = c
              /\ curenv[c] # NoEnv
              /\ env_parent_id[e] = <<env_id[curenv[c]], curenv[c]>>
    ]_vars

\* A received message stays as it is until the receiver calls sys_ipc_recv
\* again: user code reads the fields without the lock (lib/ipc.c:31).
MessageStable ==
  [][\A e \in Envs :
       <<env_ipc_from[e], env_ipc_value[e], env_ipc_perm[e]>>' #
         <<env_ipc_from[e], env_ipc_value[e], env_ipc_perm[e]>> =>
         env_ipc_recving[e] /\ env_status[e] = "NOT_RUNNABLE"
    ]_vars

\* A receiver that asked for no page is never told that it got one, whatever
\* messages it received before and whatever sends to it failed.
PageOnlyIfAsked ==
  [][\A e \in Envs :
       env_ipc_recving[e] /\ ~env_ipc_recving'[e] /\ env_status'[e] # "NOT_RUNNABLE" =>
         (env_ipc_perm'[e] => env_ipc_dstva[e])
    ]_vars

\* Round robin is fair: a runnable environment in any slot but the last gets a
\* processor, unless environments exit for ever (each exit sends the scheduler
\* back to slot 0).
NoStarvation ==
  \/ []<><<\E e \in Envs : env_status[e] # "FREE" /\ env_status'[e] = "FREE">>_vars
  \/ \A e \in Envs \ {NENV - 1} :
       env_status[e] = "RUNNABLE" ~> env_status[e] # "RUNNABLE"

\* The same of the last slot.
NoStarvationLastSlot ==
  env_status[NENV - 1] = "RUNNABLE" ~> env_status[NENV - 1] # "RUNNABLE"

\* An environment destroyed from another processor is freed in the end.
ZombiesAreReaped ==
  \A e \in Envs : env_status[e] = "DYING" ~> env_status[e] = "FREE"

\* i386_init and mp_main meet (boot_aps holds the lock that the AP will ask for
\* while it waits for it): every processor gets through the lock to the
\* scheduler, and out of it with an environment or into the hlt loop, unless the
\* machine has been given to the monitor by then.
BootCompletes ==
  \A c \in Cpus :
    <>(\/ pc[c] \in {"user", "halt"}
       \/ \E d \in Cpus : pc[d] = "monitor")
=============================================================================
