-------------------------- MODULE EnvSched_proofs --------------------------
(***************************************************************************)
(* Theorems about EnvSched, for every number of slots, processors and      *)
(* boot-time environments, and any set of system calls made as the         *)
(* library makes them (Raw = FALSE).                                       *)
(***************************************************************************)
EXTENDS EnvSched, TLAPS

\* What a processor's phase says of its curenv and of its cpu_status.
CpuShape ==
  \A c \in Cpus :
    /\ pc[c] \in {"off", "start", "boot", "halt"} => curenv[c] = NoEnv
    /\ pc[c] = "user" => curenv[c] # NoEnv
    /\ pc[c] = "halt" <=> cpu_status[c] = "HALTED"

\* Until i386_init calls the scheduler nothing runs, nothing receives and the
\* free list is as env_init built it.
BootInv ==
  pc[BSP] = "boot" =>
    /\ \A c \in Cpus : curenv[c] = NoEnv
    /\ \A e \in Envs : ~env_ipc_recving[e]
    /\ env_free_list = [i \in 1..NENV |-> i - 1]

\* Only an interrupt of a device makes the kernel panic.
PanicInv == panicstr => DeviceIrqs

\* The inductive invariant.
IInv ==
  /\ TypeOK
  /\ LockProtectsKernel
  /\ CpuShape
  /\ BootInv
  /\ RunsOnOneCpu
  /\ FreeListExact
  /\ RecvMeansBlocked
  /\ MonitorMeansIdle
  /\ PanicInv

-----------------------------------------------------------------------------
(* What a handler on processor c must have established when it calls the   *)
(* scheduler with curenv = cur and env_status = st.                        *)

SchedPre(c, cur, st) ==
  /\ pc[c] \in {"kern", "boot"}
  /\ \A d \in Cpus \ {c} : \A e \in Envs :
       Runs(d, e) => st[e] \in {"RUNNING", "DYING"} /\ e # cur
  /\ \A e \in Envs :
       st[e] \in {"RUNNING", "DYING"} =>
         e = cur \/ \E d \in Cpus \ {c} : Runs(d, e)
  /\ cur # NoEnv => st[cur] # "DYING"

\* What leaving the kernel through the scheduler then gives.
SchedPost ==
  /\ env_status' \in [Envs -> Statuses]
  /\ kernel_lock' \in Cpus \cup {NoCpu}
  /\ panicstr' = panicstr
  /\ pc' \in [Cpus -> Phases]
  /\ curenv' \in [Cpus -> Envs \cup {NoEnv}]
  /\ cpu_status' \in [Cpus -> {"UNUSED", "STARTED", "HALTED"}]
  /\ pc'[BSP] # "boot"
  /\ LockProtectsKernel'
  /\ CpuShape'
  /\ RunsOnOneCpu'
  /\ MonitorMeansIdle'

\* The scheduler moves environments between RUNNABLE and RUNNING only.
StatusKept(st) ==
  \A x \in Envs :
    /\ st[x] \in {"NOT_RUNNABLE", "FREE"} => env_status'[x] = st[x]
    /\ env_status'[x] = "FREE" => st[x] = "FREE"

\* env_run: the environment it starts is not in use, or is curenv itself.
LEMMA EnvRunLemma ==
  ASSUME IInv, NEW c \in Cpus
  PROVE  \A cur \in Envs \cup {NoEnv}, st \in [Envs -> Statuses], e \in Envs :
           /\ SchedPre(c, cur, st)
           /\ (e = cur /\ st[e] = "RUNNING") \/ st[e] = "RUNNABLE"
           /\ env_run(c, cur, st, e)
           => SchedPost /\ StatusKept(st)
PROOF
  <1> SUFFICES ASSUME NEW cur \in Envs \cup {NoEnv},
                      NEW st \in [Envs -> Statuses],
                      NEW e \in Envs,
                      SchedPre(c, cur, st),
                      (e = cur /\ st[e] = "RUNNING") \/ st[e] = "RUNNABLE",
                      env_run(c, cur, st, e)
               PROVE  SchedPost /\ StatusKept(st)
    OBVIOUS
  <1>1. kernel_lock = c /\ NoCpu \notin Cpus /\ BSP \in Cpus /\ e # NoEnv
    BY EnvSchedAssumption DEF IInv, LockProtectsKernel, InKernel, SchedPre, Cpus, NoCpu,
       Envs, NoEnv, BSP
  <1>2. /\ kernel_lock' = NoCpu
        /\ pc' = [pc EXCEPT ![c] = "user"]
        /\ panicstr' = panicstr
        /\ curenv' = [curenv EXCEPT ![c] = e]
        /\ cpu_status' = cpu_status
        /\ env_status' = [x \in Envs |->
             IF x = e THEN "RUNNING"
             ELSE IF x = cur /\ st[x] = "RUNNING" THEN "RUNNABLE" ELSE st[x]]
    BY <1>1 DEF env_run, unlock_kernel
  <1>3. /\ env_status' \in [Envs -> Statuses]
        /\ kernel_lock' \in Cpus \cup {NoCpu}
        /\ pc' \in [Cpus -> Phases]
        /\ curenv' \in [Cpus -> Envs \cup {NoEnv}]
        /\ cpu_status' \in [Cpus -> {"UNUSED", "STARTED", "HALTED"}]
    BY <1>2 DEF IInv, TypeOK, Statuses, Phases
  <1>4. LockProtectsKernel'
    BY <1>1, <1>2, <1>3 DEF IInv, TypeOK, LockProtectsKernel, InKernel
  <1>5. CpuShape'
    <2> SUFFICES ASSUME NEW d \in Cpus
                 PROVE  /\ pc'[d] \in {"off", "start", "boot", "halt"} => curenv'[d] = NoEnv
                        /\ pc'[d] = "user" => curenv'[d] # NoEnv
                        /\ pc'[d] = "halt" <=> cpu_status'[d] = "HALTED"
      BY DEF CpuShape
    <2>1. CASE d = c
      BY <1>1, <1>2, <2>1 DEF IInv, TypeOK, CpuShape, SchedPre
    <2>2. CASE d # c
      BY <1>2, <2>2 DEF IInv, TypeOK, CpuShape
    <2> QED BY <2>1, <2>2
  <1>6. pc'[BSP] # "boot"
    <2>1. pc[BSP] = "boot" => kernel_lock = BSP
      BY <1>1 DEF IInv, LockProtectsKernel, InKernel
    <2> QED BY <2>1, <1>1, <1>2 DEF IInv, TypeOK
  <1>7. RunsOnOneCpu'
    <2>1. \A d \in Cpus \ {c} : \A x \in Envs :
            (Runs(d, x))' <=> Runs(d, x)
      BY <1>2 DEF Runs, IInv, TypeOK
    <2>2. \A x \in Envs : (Runs(c, x))' <=> x = e
      BY <1>2 DEF Runs, IInv, TypeOK
    <2>3. \A d \in Cpus \ {c} : ~ Runs(d, e)
      BY DEF SchedPre
    <2>4. \A x \in Envs \ {e} :
            env_status'[x] \in {"RUNNING", "DYING"} <=> \E d \in Cpus \ {c} : Runs(d, x)
      BY <1>2 DEF SchedPre, Statuses, Envs, NoEnv
    <2>5. \A x \in Envs :
            env_status'[x] \in {"RUNNING", "DYING"} <=> \E d \in Cpus : (Runs(d, x))'
      <3> SUFFICES ASSUME NEW x \in Envs
                   PROVE env_status'[x] \in {"RUNNING", "DYING"}
                         <=> \E d \in Cpus : (Runs(d, x))'
        OBVIOUS
      <3>1. CASE x = e
        BY <3>1, <2>2, <1>2
      <3>2. CASE x # e
        BY <3>2, <2>1, <2>2, <2>4
      <3> QED BY <3>1, <3>2
    <2>6. \A d1, d2 \in Cpus : \A x \in Envs : (Runs(d1, x))' /\ (Runs(d2, x))' => d1 = d2
      BY <2>1, <2>2, <2>3 DEF IInv, RunsOnOneCpu, NeverTwoCpus
    <2> QED BY <2>5, <2>6 DEF RunsOnOneCpu, NeverTwoCpus
  <1>8. StatusKept(st)
    BY <1>2 DEF StatusKept
  <1>9. MonitorMeansIdle'
    <2>1. \A d \in Cpus : pc'[d] # "monitor"
      BY <1>1, <1>2 DEF IInv, TypeOK, LockProtectsKernel, InKernel
    <2> QED BY <2>1 DEF MonitorMeansIdle
  <1> QED BY <1>2, <1>3, <1>4, <1>5, <1>6, <1>7, <1>8, <1>9 DEF SchedPost

\* sched_halt, when the scheduler found nothing to run.
LEMMA SchedHaltLemma ==
  ASSUME IInv, NEW c \in Cpus
  PROVE  \A cur \in Envs \cup {NoEnv}, st \in [Envs -> Statuses] :
           /\ SchedPre(c, cur, st)
           /\ ~ (cur # NoEnv /\ st[cur] = "RUNNING")
           /\ sched_halt(c, cur, st)
           => SchedPost /\ env_status' = st
PROOF
  <1> SUFFICES ASSUME NEW cur \in Envs \cup {NoEnv},
                      NEW st \in [Envs -> Statuses],
                      SchedPre(c, cur, st),
                      ~ (cur # NoEnv /\ st[cur] = "RUNNING"),
                      sched_halt(c, cur, st)
               PROVE  SchedPost /\ env_status' = st
    OBVIOUS
  <1>1. kernel_lock = c /\ NoCpu \notin Cpus /\ BSP \in Cpus /\ NoEnv \notin Envs
    BY EnvSchedAssumption DEF IInv, LockProtectsKernel, InKernel, SchedPre, Cpus, NoCpu,
       Envs, NoEnv, BSP
  <1>2. env_status' = st
    BY DEF sched_halt
  <1>a. pc[BSP] = "boot" => c = BSP
    BY <1>1 DEF IInv, LockProtectsKernel, InKernel
  <1>b. \A e \in Envs : st[e] \in {"RUNNING", "DYING"} => e # cur
    BY <1>1 DEF SchedPre
  <1>3. CASE \A e \in Envs : st[e] \notin {"RUNNABLE", "RUNNING", "DYING"}
    <2>1. /\ pc' = [pc EXCEPT ![c] = "monitor"]
          /\ curenv' = [curenv EXCEPT ![c] = cur]
          /\ kernel_lock' = kernel_lock /\ panicstr' = panicstr /\ cpu_status' = cpu_status
      BY <1>3 DEF sched_halt, Idle
    <2>2. /\ kernel_lock' \in Cpus \cup {NoCpu}
          /\ pc' \in [Cpus -> Phases]
          /\ curenv' \in [Cpus -> Envs \cup {NoEnv}]
          /\ cpu_status' \in [Cpus -> {"UNUSED", "STARTED", "HALTED"}]
      BY <2>1 DEF IInv, TypeOK, Phases
    <2>3. LockProtectsKernel'
      BY <1>1, <2>1 DEF IInv, TypeOK, LockProtectsKernel, InKernel
    <2>4. CpuShape'
      BY <1>1, <2>1 DEF IInv, TypeOK, CpuShape, SchedPre
    <2>5. pc'[BSP] # "boot"
      BY <1>1, <1>a, <2>1 DEF IInv, TypeOK
    <2>6. RunsOnOneCpu'
      <3>1. \A d \in Cpus, x \in Envs : ~ (Runs(d, x))'
        BY <1>3, <2>1 DEF Runs, IInv, TypeOK, SchedPre
      <3> QED BY <1>2, <1>3, <3>1 DEF RunsOnOneCpu, NeverTwoCpus
    <2>7. MonitorMeansIdle'
      <3>1. \A d \in Cpus : pc'[d] # "user"
        <4> SUFFICES ASSUME NEW d \in Cpus, d # c, pc[d] = "user"
                     PROVE  FALSE
          BY <2>1 DEF IInv, TypeOK
        <4>1. curenv[d] \in Envs /\ Runs(d, curenv[d])
          BY DEF IInv, TypeOK, CpuShape, Runs
        <4> QED BY <4>1, <1>3 DEF SchedPre
      <3>2. \A e \in Envs : st[e] \in {"FREE", "NOT_RUNNABLE"}
        BY <1>3 DEF Statuses
      <3> QED BY <1>2, <3>1, <3>2 DEF MonitorMeansIdle
    <2> QED BY <1>2, <2>1, <2>2, <2>3, <2>4, <2>5, <2>6, <2>7 DEF SchedPost
  <1>4. CASE ~ (\A e \in Envs : st[e] \notin {"RUNNABLE", "RUNNING", "DYING"})
    <2>1. /\ pc' = [pc EXCEPT ![c] = "halt"]
          /\ curenv' = [curenv EXCEPT ![c] = NoEnv]
          /\ cpu_status' = [cpu_status EXCEPT ![c] = "HALTED"]
          /\ kernel_lock' = NoCpu /\ panicstr' = panicstr
      BY <1>1, <1>4 DEF sched_halt, Idle, MarkHalted, unlock_kernel
    <2>2. /\ kernel_lock' \in Cpus \cup {NoCpu}
          /\ pc' \in [Cpus -> Phases]
          /\ curenv' \in [Cpus -> Envs \cup {NoEnv}]
          /\ cpu_status' \in [Cpus -> {"UNUSED", "STARTED", "HALTED"}]
      BY <2>1 DEF IInv, TypeOK, Phases
    <2>3. LockProtectsKernel'
      BY <1>1, <2>1 DEF IInv, TypeOK, LockProtectsKernel, InKernel
    <2>4. CpuShape'
      BY <1>1, <2>1 DEF IInv, TypeOK, CpuShape, SchedPre
    <2>5. pc'[BSP] # "boot"
      BY <1>1, <1>a, <2>1 DEF IInv, TypeOK
    <2>6. RunsOnOneCpu'
      <3>1. \A x \in Envs : ~ (Runs(c, x))'
        BY <1>1, <2>1 DEF Runs, IInv, TypeOK
      <3>2. \A d \in Cpus \ {c}, x \in Envs : (Runs(d, x))' <=> Runs(d, x)
        BY <2>1 DEF Runs, IInv, TypeOK
      <3>3. \A x \in Envs : st[x] \in {"RUNNING", "DYING"} <=> \E d \in Cpus \ {c} : Runs(d, x)
        BY <1>b DEF SchedPre
      <3>4. \A x \in Envs : st[x] \in {"RUNNING", "DYING"} <=> \E d \in Cpus : (Runs(d, x))'
        BY <3>1, <3>2, <3>3
      <3>5. \A d1, d2 \in Cpus : \A x \in Envs : (Runs(d1, x))' /\ (Runs(d2, x))' => d1 = d2
        BY <3>1, <3>2 DEF IInv, RunsOnOneCpu, NeverTwoCpus
      <3> QED BY <1>2, <3>4, <3>5 DEF RunsOnOneCpu, NeverTwoCpus
    <2>7. MonitorMeansIdle'
      <3>1. \A d \in Cpus : pc'[d] # "monitor"
        BY <1>1, <2>1 DEF IInv, TypeOK, LockProtectsKernel, InKernel
      <3> QED BY <3>1 DEF MonitorMeansIdle
    <2> QED BY <1>2, <2>1, <2>2, <2>3, <2>4, <2>5, <2>6, <2>7 DEF SchedPost
  <1> QED BY <1>3, <1>4

\* sched_yield, whatever it finds.
LEMMA SchedYieldLemma ==
  ASSUME IInv, NEW c \in Cpus
  PROVE  \A cur \in Envs \cup {NoEnv}, st \in [Envs -> Statuses] :
           SchedPre(c, cur, st) /\ sched_yield(c, cur, st) =>
             SchedPost /\ StatusKept(st)
PROOF
  <1> SUFFICES ASSUME NEW cur \in Envs \cup {NoEnv},
                      NEW st \in [Envs -> Statuses],
                      SchedPre(c, cur, st),
                      sched_yield(c, cur, st)
               PROVE  SchedPost /\ StatusKept(st)
    OBVIOUS
  <1>1. ASSUME NEW k \in 0..LastProbe,
               st[Probe(cur, k)] = "RUNNABLE",
               env_run(c, cur, st, Probe(cur, k))
        PROVE  SchedPost /\ StatusKept(st)
    <2>1. Probe(cur, k) \in Envs
      BY EnvSchedAssumption DEF Probe, Envs, NoEnv, LastProbe
    <2> QED BY <1>1, <2>1, EnvRunLemma
  <1>2. ASSUME cur # NoEnv, st[cur] = "RUNNING", env_run(c, cur, st, cur)
        PROVE  SchedPost /\ StatusKept(st)
    BY <1>2, EnvRunLemma
  <1>3. ASSUME ~ (cur # NoEnv /\ st[cur] = "RUNNING"), sched_halt(c, cur, st)
        PROVE  SchedPost /\ StatusKept(st)
    BY <1>3, SchedHaltLemma DEF StatusKept
  <1> QED BY <1>1, <1>2, <1>3 DEF sched_yield, Eligible

\* The end of trap().
LEMMA TrapReturnLemma ==
  ASSUME IInv, NEW c \in Cpus
  PROVE  \A st \in [Envs -> Statuses] :
           SchedPre(c, curenv[c], st) /\ trap_return(c, st) =>
             SchedPost /\ StatusKept(st)
PROOF
  <1>1. curenv[c] \in Envs \cup {NoEnv}
    BY DEF IInv, TypeOK
  <1> SUFFICES ASSUME NEW st \in [Envs -> Statuses],
                      SchedPre(c, curenv[c], st),
                      trap_return(c, st)
               PROVE  SchedPost /\ StatusKept(st)
    OBVIOUS
  <1>2. CASE curenv[c] # NoEnv /\ st[curenv[c]] = "RUNNING"
    BY <1>1, <1>2, EnvRunLemma DEF trap_return
  <1>3. CASE ~ (curenv[c] # NoEnv /\ st[curenv[c]] = "RUNNING")
    BY <1>1, <1>3, SchedYieldLemma DEF trap_return
  <1> QED BY <1>2, <1>3

-----------------------------------------------------------------------------
(* From what a handler does to the table to the invariant. *)

\* What a handler leaves in the table, and in the receivers' fields, agrees
\* with the statuses st it hands to the scheduler.
TableOK(st) ==
  /\ env_id' \in [Envs -> 0..MaxGen]
  /\ env_parent_id' \in [Envs -> EnvIds]
  /\ env_free_list' \in Seq(Envs)
  /\ env_ipc_recving' \in [Envs -> BOOLEAN]
  /\ env_ipc_dstva' \in [Envs -> BOOLEAN]
  /\ env_ipc_from' \in [Envs -> EnvIds]
  /\ env_ipc_value' \in [Envs -> Values]
  /\ env_ipc_perm' \in [Envs -> BOOLEAN]
  /\ \A e \in Envs :
       st[e] = "FREE" <=> \E i \in DOMAIN env_free_list' : env_free_list'[i] = e
  /\ \A i, j \in DOMAIN env_free_list' :
       env_free_list'[i] = env_free_list'[j] => i = j
  /\ \A e \in Envs : env_ipc_recving'[e] => st[e] \in {"NOT_RUNNABLE", "FREE"}

\* What the scheduler leaves of the processors and what the handler leaves of
\* the table make up the invariant again.
LEMMA Conclude ==
  ASSUME IInv
  PROVE  \A st \in [Envs -> Statuses] :
           SchedPost /\ StatusKept(st) /\ TableOK(st) => IInv'
PROOF
  <1> SUFFICES ASSUME NEW st \in [Envs -> Statuses],
                      SchedPost, StatusKept(st), TableOK(st)
               PROVE  IInv'
    OBVIOUS
  <1>1. TypeOK'
    BY DEF SchedPost, TableOK, IInv, TypeOK
  <1>2. \A e \in Envs : env_status'[e] = "FREE" <=> st[e] = "FREE"
    BY DEF StatusKept
  <1>3. FreeListExact'
    BY <1>2 DEF TableOK, FreeListExact
  <1>4. RecvMeansBlocked'
    BY DEF TableOK, StatusKept, RecvMeansBlocked
  <1>5. BootInv' /\ PanicInv'
    BY DEF SchedPost, BootInv, PanicInv, IInv
  <1> QED BY <1>1, <1>3, <1>4, <1>5 DEF SchedPost, IInv

\* Handlers that change no field of the table but statuses.
LEMMA TableUnchanged ==
  ASSUME IInv, UNCHANGED <<tabVars, ipcVars>>
  PROVE  \A st \in [Envs -> Statuses] :
           /\ \A e \in Envs : st[e] = "FREE" <=> env_status[e] = "FREE"
           /\ \A e \in Envs : env_ipc_recving[e] => st[e] \in {"NOT_RUNNABLE", "FREE"}
           => TableOK(st)
PROOF
  <1>1. /\ env_id' = env_id /\ env_parent_id' = env_parent_id
        /\ env_free_list' = env_free_list
        /\ env_ipc_recving' = env_ipc_recving /\ env_ipc_dstva' = env_ipc_dstva
        /\ env_ipc_from' = env_ipc_from /\ env_ipc_value' = env_ipc_value
        /\ env_ipc_perm' = env_ipc_perm
    BY DEF tabVars, ipcVars
  <1> QED BY <1>1 DEF TableOK, IInv, TypeOK, FreeListExact

\* What a handler on c knows of the table when it starts.
LEMMA KernFacts ==
  ASSUME IInv, NEW c \in Cpus, pc[c] = "kern"
  PROVE  /\ NoEnv \notin Envs /\ curenv[c] \in Envs \cup {NoEnv}
         /\ env_status \in [Envs -> Statuses]
         /\ \A d \in Cpus \ {c} : \A e \in Envs :
              Runs(d, e) => env_status[e] \in {"RUNNING", "DYING"} /\ e # curenv[c]
         /\ \A e \in Envs :
              env_status[e] \in {"RUNNING", "DYING"} =>
                e = curenv[c] \/ \E d \in Cpus \ {c} : Runs(d, e)
         /\ curenv[c] # NoEnv => env_status[curenv[c]] \in {"RUNNING", "DYING"}
PROOF
  <1>1. NoEnv \notin Envs /\ curenv[c] \in Envs \cup {NoEnv}
        /\ env_status \in [Envs -> Statuses]
    BY EnvSchedAssumption DEF IInv, TypeOK, Envs, NoEnv
  <1>2. \A e \in Envs : Runs(c, e) <=> e = curenv[c]
    BY <1>1 DEF Runs
  <1>3. \A e \in Envs :
          env_status[e] \in {"RUNNING", "DYING"} <=> \E d \in Cpus : Runs(d, e)
    BY DEF IInv, RunsOnOneCpu
  <1>4. \A d \in Cpus \ {c} : \A e \in Envs : Runs(d, e) => e # curenv[c]
    BY <1>2 DEF IInv, RunsOnOneCpu, NeverTwoCpus
  <1> QED BY <1>1, <1>2, <1>3, <1>4

\* env_free pushes the slot of an environment that was in use.
LEMMA FreeLemma ==
  ASSUME IInv, NEW e \in Envs, env_status[e] # "FREE",
         FreeEnv(e), UNCHANGED <<env_id, env_parent_id, ipcVars>>
  PROVE  TableOK([env_status EXCEPT ![e] = "FREE"])
PROOF
  <1> DEFINE st == [env_status EXCEPT ![e] = "FREE"]
             L == env_free_list
  <1>1. L \in Seq(Envs) /\ env_status \in [Envs -> Statuses]
    BY DEF IInv, TypeOK
  <1>2. env_free_list' = <<e>> \o L
    BY DEF FreeEnv
  <1>3. /\ env_free_list' \in Seq(Envs)
        /\ Len(env_free_list') = Len(L) + 1
        /\ env_free_list'[1] = e
        /\ \A i \in 1..Len(L) : env_free_list'[i + 1] = L[i]
    BY <1>1, <1>2
  <1>4. \A x \in Envs : env_status[x] = "FREE" <=> \E i \in 1..Len(L) : L[i] = x
    BY <1>1 DEF IInv, FreeListExact
  <1>5. \A i, j \in 1..Len(L) : L[i] = L[j] => i = j
    BY <1>1 DEF IInv, FreeListExact
  <1>6. DOMAIN env_free_list' = 1..(Len(L) + 1)
    BY <1>3
  <1>7. \A x \in Envs :
          st[x] = "FREE" <=> \E i \in DOMAIN env_free_list' : env_free_list'[i] = x
    <2> SUFFICES ASSUME NEW x \in Envs
                 PROVE st[x] = "FREE" <=>
                       \E i \in 1..(Len(L) + 1) : env_free_list'[i] = x
      BY <1>6
    <2>1. CASE x = e
      BY <2>1, <1>1, <1>3
    <2>2. CASE x # e
      <3>1. st[x] = env_status[x]
        BY <2>2, <1>1
      <3>2. ASSUME NEW i \in 1..Len(L), L[i] = x
            PROVE  \E k \in 1..(Len(L) + 1) : env_free_list'[k] = x
        <4>1. i + 1 \in 1..(Len(L) + 1) /\ env_free_list'[i + 1] = x
          BY <3>2, <1>1, <1>3
        <4> QED BY <4>1
      <3>3. ASSUME NEW k \in 1..(Len(L) + 1), env_free_list'[k] = x
            PROVE  \E i \in 1..Len(L) : L[i] = x
        <4>1. k # 1
          BY <3>3, <2>2, <1>3
        <4>2. k - 1 \in 1..Len(L) /\ L[k - 1] = x
          BY <3>3, <4>1, <1>1, <1>3
        <4> QED BY <4>2
      <3> QED BY <3>1, <3>2, <3>3, <1>4
    <2> QED BY <2>1, <2>2
  <1>8. \A i, j \in DOMAIN env_free_list' :
          env_free_list'[i] = env_free_list'[j] => i = j
    <2>1. \A i \in 1..Len(L) : L[i] # e
      BY <1>4
    <2>2. \A k \in 2..(Len(L) + 1) : k - 1 \in 1..Len(L) /\ env_free_list'[k] = L[k - 1]
      BY <1>1, <1>3
    <2>3. \A i, j \in 1..(Len(L) + 1) : env_free_list'[i] = env_free_list'[j] => i = j
      <3> SUFFICES ASSUME NEW i \in 1..(Len(L) + 1), NEW j \in 1..(Len(L) + 1),
                          env_free_list'[i] = env_free_list'[j]
                   PROVE  i = j
        OBVIOUS
      <3>0. Len(L) \in Nat
        BY <1>1
      <3>1. CASE i = 1 /\ j # 1
        <4>1. j \in 2..(Len(L) + 1)
          BY <3>0, <3>1
        <4> QED BY <3>1, <4>1, <1>3, <2>1, <2>2
      <3>2. CASE i # 1 /\ j = 1
        <4>1. i \in 2..(Len(L) + 1)
          BY <3>0, <3>2
        <4> QED BY <3>2, <4>1, <1>3, <2>1, <2>2
      <3>3. CASE i # 1 /\ j # 1
        <4>1. i \in 2..(Len(L) + 1) /\ j \in 2..(Len(L) + 1)
          BY <3>0, <3>3
        <4>2. i - 1 = j - 1
          BY <4>1, <1>5, <2>2
        <4> QED BY <4>1, <4>2
      <3> QED BY <3>1, <3>2, <3>3
    <2> QED BY <2>3, <1>6
  <1>9. \A x \in Envs : env_ipc_recving'[x] => st[x] \in {"NOT_RUNNABLE", "FREE"}
    BY <1>1 DEF IInv, RecvMeansBlocked, ipcVars
  <1>10. /\ env_id' \in [Envs -> 0..MaxGen]
         /\ env_parent_id' \in [Envs -> EnvIds]
         /\ env_ipc_recving' \in [Envs -> BOOLEAN]
         /\ env_ipc_dstva' \in [Envs -> BOOLEAN]
         /\ env_ipc_from' \in [Envs -> EnvIds]
         /\ env_ipc_value' \in [Envs -> Values]
         /\ env_ipc_perm' \in [Envs -> BOOLEAN]
    BY DEF IInv, TypeOK, ipcVars
  <1> HIDE DEF st
  <1> QED BY <1>3, <1>7, <1>8, <1>9, <1>10 DEF TableOK, st

\* env_destroy, of an environment that is neither free nor a zombie.
LEMMA DestroyLemma ==
  ASSUME IInv, NEW c \in Cpus, Dispatching(c), NEW e \in Envs,
         env_status[e] \notin {"FREE", "DYING"}, env_destroy(c, e)
  PROVE  IInv'
PROOF
  <1> USE KernFacts DEF Dispatching, Zombie
  <1>1. CASE env_status[e] = "RUNNING" /\ curenv[c] # e
    <2> DEFINE st == [env_status EXCEPT ![e] = "DYING"]
    <2>1. st \in [Envs -> Statuses]
      BY DEF Statuses
    <2>2. SchedPre(c, curenv[c], st)
      BY <1>1 DEF SchedPre
    <2>3. trap_return(c, st) /\ UNCHANGED <<tabVars, ipcVars>>
      BY <1>1 DEF env_destroy
    <2>4. TableOK(st)
      <3>1. \A x \in Envs : st[x] = "FREE" <=> env_status[x] = "FREE"
        BY <1>1
      <3>2. \A x \in Envs : env_ipc_recving[x] => st[x] \in {"NOT_RUNNABLE", "FREE"}
        BY <1>1 DEF IInv, RecvMeansBlocked
      <3> HIDE DEF st
      <3> QED BY <2>1, <2>3, <3>1, <3>2, TableUnchanged
    <2> HIDE DEF st
    <2> QED BY <2>1, <2>2, <2>3, <2>4, TrapReturnLemma, Conclude
  <1>2. CASE ~ (env_status[e] = "RUNNING" /\ curenv[c] # e)
    <2> DEFINE st == [env_status EXCEPT ![e] = "FREE"]
    <2>1. st \in [Envs -> Statuses]
      BY DEF Statuses
    <2>2. /\ FreeEnv(e)
          /\ IF curenv[c] = e THEN sched_yield(c, NoEnv, st) ELSE trap_return(c, st)
          /\ UNCHANGED <<env_id, env_parent_id, ipcVars>>
      BY <1>2 DEF env_destroy
    <2>3. TableOK(st)
      BY <2>2, FreeLemma
    <2>4. CASE curenv[c] = e
      <3>1. SchedPre(c, NoEnv, st)
        BY <2>4 DEF SchedPre
      <3> HIDE DEF st
      <3> QED BY <2>1, <2>2, <2>3, <2>4, <3>1, SchedYieldLemma, Conclude
    <2>5. CASE curenv[c] # e
      <3>1. SchedPre(c, curenv[c], st)
        <4>1. env_status[e] \notin {"RUNNING", "DYING"}
          BY <1>2, <2>5
        <4> QED BY <2>5, <4>1 DEF SchedPre
      <3> HIDE DEF st
      <3> QED BY <2>1, <2>2, <2>3, <2>5, <3>1, TrapReturnLemma, Conclude
    <2> QED BY <2>4, <2>5
  <1> QED BY <1>1, <1>2

\* The garbage collection at the head of trap().
LEMMA ReapLemma ==
  ASSUME IInv, NEW c \in Cpus, reap(c)
  PROVE  IInv'
PROOF
  <1> DEFINE e == curenv[c]
             st == [env_status EXCEPT ![e] = "FREE"]
  <1> USE KernFacts DEF reap, Zombie
  <1>1. e \in Envs /\ env_status[e] = "DYING"
    OBVIOUS
  <1>2. st \in [Envs -> Statuses]
    BY DEF Statuses
  <1>3. TableOK(st)
    BY <1>1, FreeLemma
  <1>4. SchedPre(c, NoEnv, st)
    BY <1>1 DEF SchedPre
  <1>5. sched_yield(c, NoEnv, st)
    OBVIOUS
  <1> HIDE DEF st
  <1> QED BY <1>2, <1>3, <1>4, <1>5, SchedYieldLemma, Conclude

\* A handler that leaves curenv RUNNING and changes the status of no
\* environment to or from RUNNING, DYING or FREE may return from the trap.
LEMMA ReturnLemma ==
  ASSUME IInv, NEW c \in Cpus, Dispatching(c)
  PROVE  \A st \in [Envs -> Statuses] :
           /\ trap_return(c, st)
           /\ \A x \in Envs : st[x] # env_status[x] =>
                /\ st[x] \in {"RUNNABLE", "NOT_RUNNABLE"}
                /\ env_status[x] \notin {"RUNNING", "DYING"}
           /\ TableOK(st)
           => IInv'
PROOF
  <1> SUFFICES ASSUME NEW st \in [Envs -> Statuses],
                      trap_return(c, st),
                      \A x \in Envs : st[x] # env_status[x] =>
                        /\ st[x] \in {"RUNNABLE", "NOT_RUNNABLE"}
                        /\ env_status[x] \notin {"RUNNING", "DYING"},
                      TableOK(st)
               PROVE  IInv'
    OBVIOUS
  <1>1. SchedPre(c, curenv[c], st)
    BY KernFacts DEF Dispatching, Zombie, SchedPre
  <1> QED BY <1>1, TrapReturnLemma, Conclude

\* envid2env never finds a free slot.
LEMMA LookupLemma ==
  ASSUME IInv, NEW c \in Cpus, Dispatching(c), curenv[c] # NoEnv,
         NEW id \in EnvIds, NEW perm \in BOOLEAN, envid2env(c, id, perm) # NoEnv
  PROVE  /\ envid2env(c, id, perm) \in Envs
         /\ env_status[envid2env(c, id, perm)] # "FREE"
PROOF
  <1>1. ENVX(id) \in Envs
    BY DEF EnvIds, ENVX
  <1>2. curenv[c] \in Envs /\ env_status[curenv[c]] = "RUNNING"
    BY KernFacts DEF Dispatching, Zombie
  <1> QED BY <1>1, <1>2 DEF envid2env

\* The caller's own envid.
LEMMA OwnIdLemma ==
  ASSUME IInv, NEW c \in Cpus, curenv[c] # NoEnv
  PROVE  <<env_id[curenv[c]], curenv[c]>> \in EnvIds
PROOF BY DEF IInv, TypeOK, EnvIds

\* sys_exofork: the new slot leaves the free list and is not receiving,
\* whatever its last owner was doing.
LEMMA ExoforkLemma ==
  ASSUME IInv, NEW c \in Cpus, sys_exofork(c)
  PROVE  IInv'
PROOF
  <1> DEFINE L == env_free_list
             e == Head(L)
             st == [env_status EXCEPT ![e] = "NOT_RUNNABLE"]
  <1>0. Dispatching(c) /\ curenv[c] # NoEnv
    BY DEF sys_exofork, Calling
  <1>1. L \in Seq(Envs) /\ L # <<>> /\ env_status \in [Envs -> Statuses]
    BY DEF IInv, TypeOK, sys_exofork
  <1>2. e \in Envs /\ e = L[1] /\ Len(L) \in Nat /\ Len(L) >= 1
    BY <1>1
  <1>3. \A x \in Envs : env_status[x] = "FREE" <=> \E i \in 1..Len(L) : L[i] = x
    BY <1>1 DEF IInv, FreeListExact
  <1>4. \A i, j \in 1..Len(L) : L[i] = L[j] => i = j
    BY <1>1 DEF IInv, FreeListExact
  <1>5. env_status[e] = "FREE"
    BY <1>2, <1>3
  <1>6. st \in [Envs -> Statuses]
    BY <1>1 DEF Statuses
  <1>7. env_free_list' = Tail(L)
    BY DEF sys_exofork, ClearRecving
  <1>8. /\ env_free_list' \in Seq(Envs)
        /\ DOMAIN env_free_list' = 1..(Len(L) - 1)
        /\ \A i \in 1..(Len(L) - 1) : env_free_list'[i] = L[i + 1]
    BY <1>1, <1>2, <1>7
  <1>9. TableOK(st)
    <2>1. \A x \in Envs :
            st[x] = "FREE" <=> \E i \in DOMAIN env_free_list' : env_free_list'[i] = x
      <3> SUFFICES ASSUME NEW x \in Envs
                   PROVE st[x] = "FREE" <=> \E i \in 1..(Len(L) - 1) : L[i + 1] = x
        BY <1>8
      <3>1. st[x] = "FREE" <=> env_status[x] = "FREE" /\ x # e
        BY <1>1
      <3>2. ASSUME NEW i \in 1..(Len(L) - 1), L[i + 1] = x
            PROVE  env_status[x] = "FREE" /\ x # e
        <4>1. i + 1 \in 1..Len(L) /\ i + 1 # 1
          BY <1>2
        <4> QED BY <4>1, <3>2, <1>2, <1>3, <1>4
      <3>3. ASSUME env_status[x] = "FREE", x # e
            PROVE  \E i \in 1..(Len(L) - 1) : L[i + 1] = x
        <4>1. PICK k \in 1..Len(L) : L[k] = x
          BY <3>3, <1>3
        <4>2. k # 1
          BY <4>1, <3>3, <1>2
        <4>3. k - 1 \in 1..(Len(L) - 1) /\ L[(k - 1) + 1] = x
          BY <4>1, <4>2, <1>2
        <4> QED BY <4>3
      <3> QED BY <3>1, <3>2, <3>3
    <2>2. \A i, j \in DOMAIN env_free_list' :
            env_free_list'[i] = env_free_list'[j] => i = j
      <3> SUFFICES ASSUME NEW i \in 1..(Len(L) - 1), NEW j \in 1..(Len(L) - 1),
                          L[i + 1] = L[j + 1]
                   PROVE  i = j
        BY <1>8
      <3>1. i + 1 \in 1..Len(L) /\ j + 1 \in 1..Len(L)
        BY <1>2
      <3>2. i + 1 = j + 1
        BY <3>1, <1>4
      <3> QED BY <3>2
    <2>3. NextGen(env_id[e]) \in 0..MaxGen
      <3>1. env_id[e] \in 0..MaxGen /\ MaxGen \in Nat \ {0}
        BY <1>2, EnvSchedAssumption DEF IInv, TypeOK
      <3> QED BY <3>1 DEF NextGen
    <2>4. env_id' \in [Envs -> 0..MaxGen]
      BY <2>3 DEF sys_exofork, ClearRecving, IInv, TypeOK
    <2>5. env_parent_id' \in [Envs -> EnvIds]
      BY <1>0, OwnIdLemma DEF sys_exofork, ClearRecving, IInv, TypeOK
    <2>6. /\ env_ipc_recving' \in [Envs -> BOOLEAN]
          /\ env_ipc_dstva' \in [Envs -> BOOLEAN]
          /\ env_ipc_from' \in [Envs -> EnvIds]
          /\ env_ipc_value' \in [Envs -> Values]
          /\ env_ipc_perm' \in [Envs -> BOOLEAN]
      BY DEF sys_exofork, ClearRecving, IInv, TypeOK
    <2>7. \A x \in Envs : env_ipc_recving'[x] => st[x] \in {"NOT_RUNNABLE", "FREE"}
      BY <1>1 DEF sys_exofork, ClearRecving, IInv, TypeOK, RecvMeansBlocked
    <2> HIDE DEF st
    <2> QED BY <1>8, <2>1, <2>2, <2>4, <2>5, <2>6, <2>7 DEF TableOK
  <1>10. trap_return(c, st)
    BY DEF sys_exofork, ClearRecving
  <1>11. \A x \in Envs : st[x] # env_status[x] =>
           /\ st[x] \in {"RUNNABLE", "NOT_RUNNABLE"}
           /\ env_status[x] \notin {"RUNNING", "DYING"}
    BY <1>1, <1>2, <1>5
  <1> HIDE DEF st
  <1> QED BY <1>0, <1>6, <1>9, <1>10, <1>11, ReturnLemma

\* sys_env_set_status, as the library calls it: its target is on no processor.
LEMMA SetStatusLemma ==
  ASSUME IInv, ~Raw, NEW c \in Cpus, NEW id \in EnvIds,
         NEW s \in {"RUNNABLE", "NOT_RUNNABLE"}, sys_env_set_status(c, id, s)
  PROVE  IInv'
PROOF
  <1> DEFINE e == envid2env(c, id, TRUE)
             st == [env_status EXCEPT ![e] = s]
  <1>1. /\ Dispatching(c) /\ curenv[c] # NoEnv
        /\ e # NoEnv /\ s = "RUNNABLE" /\ Embryo(e)
        /\ trap_return(c, st)
        /\ UNCHANGED <<tabVars, ipcVars>>
    BY DEF sys_env_set_status, Calling
  <1>2. e \in Envs
    BY <1>1, LookupLemma
  <1> HIDE DEF e
  <1>3. env_status \in [Envs -> Statuses] /\ st \in [Envs -> Statuses]
    BY <1>1 DEF IInv, TypeOK, Statuses
  <1>4. TableOK(st)
    <2>1. \A x \in Envs : st[x] = "FREE" <=> env_status[x] = "FREE"
      BY <1>1, <1>2, <1>3 DEF Embryo
    <2>2. \A x \in Envs : env_ipc_recving[x] => st[x] \in {"NOT_RUNNABLE", "FREE"}
      BY <1>1, <1>2, <1>3 DEF IInv, RecvMeansBlocked, Embryo
    <2> HIDE DEF st
    <2> QED BY <1>1, <1>3, <2>1, <2>2, TableUnchanged
  <1>5. \A x \in Envs : st[x] # env_status[x] =>
           /\ st[x] \in {"RUNNABLE", "NOT_RUNNABLE"}
           /\ env_status[x] \notin {"RUNNING", "DYING"}
    BY <1>1, <1>2, <1>3 DEF Embryo
  <1> HIDE DEF st
  <1> QED BY <1>1, <1>3, <1>4, <1>5, ReturnLemma

\* sys_ipc_recv: the caller blocks, and its processor gives it up.
LEMMA RecvLemma ==
  ASSUME IInv, NEW c \in Cpus, NEW dstva \in BOOLEAN, sys_ipc_recv(c, dstva)
  PROVE  IInv'
PROOF
  <1> DEFINE e == curenv[c]
             st == [env_status EXCEPT ![e] = "NOT_RUNNABLE"]
  <1>1. /\ Dispatching(c) /\ e # NoEnv
        /\ env_ipc_recving' = [env_ipc_recving EXCEPT ![e] = TRUE]
        /\ env_ipc_dstva' = [env_ipc_dstva EXCEPT ![e] = dstva]
        /\ sched_yield(c, e, st)
        /\ UNCHANGED <<tabVars, env_ipc_from, env_ipc_value, env_ipc_perm>>
    BY DEF sys_ipc_recv, Calling
  <1>2. e \in Envs /\ env_status[e] = "RUNNING" /\ env_status \in [Envs -> Statuses]
    BY <1>1, KernFacts DEF Dispatching, Zombie
  <1>3. st \in [Envs -> Statuses]
    BY <1>2 DEF Statuses
  <1>4. SchedPre(c, e, st)
    BY <1>1, <1>2, KernFacts DEF Dispatching, SchedPre
  <1>5. TableOK(st)
    <2>1. /\ env_id' = env_id /\ env_parent_id' = env_parent_id
          /\ env_free_list' = env_free_list
          /\ env_ipc_from' = env_ipc_from /\ env_ipc_value' = env_ipc_value
          /\ env_ipc_perm' = env_ipc_perm
      BY <1>1 DEF tabVars
    <2>2. /\ env_ipc_recving' \in [Envs -> BOOLEAN]
          /\ env_ipc_dstva' \in [Envs -> BOOLEAN]
      BY <1>1, <1>2 DEF IInv, TypeOK
    <2>3. \A x \in Envs : st[x] = "FREE" <=> env_status[x] = "FREE"
      BY <1>2
    <2>4. \A x \in Envs : env_ipc_recving'[x] => st[x] \in {"NOT_RUNNABLE", "FREE"}
      BY <1>1, <1>2 DEF IInv, TypeOK, RecvMeansBlocked
    <2> HIDE DEF st, e
    <2> QED BY <2>1, <2>2, <2>3, <2>4 DEF TableOK, IInv, TypeOK, FreeListExact
  <1> HIDE DEF st
  <1> QED BY <1>1, <1>2, <1>3, <1>4, <1>5, SchedYieldLemma, Conclude

\* sys_ipc_try_send: a receiver is blocked, hence on no processor, hence may be
\* made RUNNABLE.
LEMMA SendLemma ==
  ASSUME IInv, NEW c \in Cpus, NEW id \in EnvIds, NEW v \in Values,
         NEW page \in BOOLEAN, NEW ok \in BOOLEAN,
         sys_ipc_try_send(c, id, v, page, ok)
  PROVE  IInv'
PROOF
  <1> DEFINE e == envid2env(c, id, FALSE)
             given == page /\ ok /\ env_ipc_dstva[e]
  <1>1. /\ Dispatching(c) /\ curenv[c] # NoEnv /\ e # NoEnv
        /\ env_ipc_recving[e]
        /\ env_ipc_perm' = [env_ipc_perm EXCEPT ![e] = given]
        /\ UNCHANGED <<tabVars, env_ipc_dstva>>
    BY DEF sys_ipc_try_send, Calling, Receiving, SentPerm
  <1>2. e \in Envs /\ env_status[e] # "FREE"
    BY <1>1, LookupLemma
  <1>3. env_status[e] = "NOT_RUNNABLE" /\ env_status \in [Envs -> Statuses]
    BY <1>1, <1>2 DEF IInv, TypeOK, RecvMeansBlocked
  <1>4. /\ env_id' = env_id /\ env_parent_id' = env_parent_id
        /\ env_free_list' = env_free_list
        /\ env_ipc_dstva' = env_ipc_dstva
    BY <1>1 DEF tabVars
  <1>5. env_ipc_perm' \in [Envs -> BOOLEAN]
    <2>1. given \in BOOLEAN
      BY <1>2 DEF IInv, TypeOK
    <2> HIDE DEF given, e
    <2> QED BY <1>1, <1>2, <2>1 DEF IInv, TypeOK
  <1>6. CASE page /\ ~ok
    <2>1. trap_return(c, env_status) /\ env_ipc_recving' = env_ipc_recving
          /\ env_ipc_from' = env_ipc_from /\ env_ipc_value' = env_ipc_value
      BY <1>6 DEF sys_ipc_try_send
    <2>2. TableOK(env_status)
      BY <1>4, <1>5, <2>1 DEF TableOK, IInv, TypeOK, FreeListExact, RecvMeansBlocked
    <2> QED BY <1>1, <1>3, <2>1, <2>2, ReturnLemma
  <1>7. CASE ~ (page /\ ~ok)
    <2> DEFINE st == [env_status EXCEPT ![e] = "RUNNABLE"]
               me == <<env_id[curenv[c]], curenv[c]>>
    <2>1. /\ trap_return(c, st)
          /\ env_ipc_recving' = [env_ipc_recving EXCEPT ![e] = FALSE]
          /\ env_ipc_from' = [env_ipc_from EXCEPT ![e] = me]
          /\ env_ipc_value' = [env_ipc_value EXCEPT ![e] = v]
      BY <1>7 DEF sys_ipc_try_send, StopReceiving
    <2>2. st \in [Envs -> Statuses]
      BY <1>3 DEF Statuses
    <2>3. me \in EnvIds
      BY <1>1, OwnIdLemma
    <2> HIDE DEF e, me
    <2>4. /\ env_ipc_recving' \in [Envs -> BOOLEAN]
          /\ env_ipc_from' \in [Envs -> EnvIds]
          /\ env_ipc_value' \in [Envs -> Values]
      BY <2>1, <2>3 DEF IInv, TypeOK
    <2>5. \A x \in Envs : st[x] = "FREE" <=> env_status[x] = "FREE"
      BY <1>2, <1>3
    <2>6. \A x \in Envs : env_ipc_recving'[x] => st[x] \in {"NOT_RUNNABLE", "FREE"}
      BY <1>2, <1>3, <2>1 DEF IInv, TypeOK, RecvMeansBlocked
    <2>7. \A x \in Envs : st[x] # env_status[x] =>
           /\ st[x] \in {"RUNNABLE", "NOT_RUNNABLE"}
           /\ env_status[x] \notin {"RUNNING", "DYING"}
      BY <1>2, <1>3
    <2> HIDE DEF st
    <2>8. TableOK(st)
      BY <1>4, <1>5, <2>4, <2>5, <2>6 DEF TableOK, IInv, TypeOK, FreeListExact
    <2> QED BY <1>1, <2>1, <2>2, <2>7, <2>8, ReturnLemma
  <1> QED BY <1>6, <1>7

\* Handlers that pass env_status on as it is.
LEMMA PlainLemma ==
  ASSUME IInv, NEW c \in Cpus, sys_yield(c) \/ trap_noop(c)
  PROVE  IInv'
PROOF
  <1>1. Dispatching(c) /\ UNCHANGED <<tabVars, ipcVars>>
    BY DEF sys_yield, trap_noop
  <1>2. env_status \in [Envs -> Statuses] /\ curenv[c] \in Envs \cup {NoEnv}
    BY DEF IInv, TypeOK
  <1>3. TableOK(env_status)
    BY <1>1, <1>2, TableUnchanged DEF IInv, RecvMeansBlocked
  <1>4. CASE trap_noop(c)
    BY <1>1, <1>2, <1>3, <1>4, ReturnLemma DEF trap_noop
  <1>5. CASE sys_yield(c)
    <2>1. SchedPre(c, curenv[c], env_status)
      BY <1>1, KernFacts DEF Dispatching, Zombie, SchedPre
    <2> QED BY <1>2, <1>3, <1>5, <2>1, SchedYieldLemma, Conclude DEF sys_yield
  <1> QED BY <1>4, <1>5

\* A step of a processor that only moves to another phase, and with it changes
\* the lock, cpu_status or panicstr.
LEMMA PhaseLemma ==
  ASSUME IInv, NEW c \in Cpus,
         UNCHANGED <<env_status, tabVars, ipcVars, curenv>>,
         NEW p \in Phases \ {"boot", "monitor"}, pc' = [pc EXCEPT ![c] = p],
         pc[c] # "monitor",
         kernel_lock' \in Cpus \cup {NoCpu}, panicstr' \in BOOLEAN,
         cpu_status' \in [Cpus -> {"UNUSED", "STARTED", "HALTED"}],
         p # "user",
         LockProtectsKernel', CpuShape', PanicInv'
  PROVE  IInv'
PROOF
  <1>1. /\ env_id' = env_id /\ env_parent_id' = env_parent_id
        /\ env_free_list' = env_free_list /\ env_status' = env_status
        /\ env_ipc_recving' = env_ipc_recving /\ env_ipc_dstva' = env_ipc_dstva
        /\ env_ipc_from' = env_ipc_from /\ env_ipc_value' = env_ipc_value
        /\ env_ipc_perm' = env_ipc_perm /\ curenv' = curenv
    BY DEF tabVars, ipcVars
  <1>2. pc \in [Cpus -> Phases]
    BY DEF IInv, TypeOK
  <1>3. TypeOK'
    BY <1>1, <1>2 DEF IInv, TypeOK
  <1>4. \A d \in Cpus, e \in Envs : (Runs(d, e))' <=> Runs(d, e)
    BY <1>1, <1>2 DEF Runs
  <1>5. RunsOnOneCpu'
    BY <1>1, <1>4 DEF IInv, RunsOnOneCpu, NeverTwoCpus
  <1>6. FreeListExact' /\ RecvMeansBlocked'
    BY <1>1 DEF IInv, FreeListExact, RecvMeansBlocked
  <1>7. MonitorMeansIdle'
    BY <1>1, <1>2 DEF IInv, MonitorMeansIdle
  <1>8. BootInv'
    <2>1. BSP \in Cpus
      BY EnvSchedAssumption DEF BSP, Cpus
    <2>2. pc'[BSP] = "boot" => pc[BSP] = "boot"
      BY <1>2, <2>1
    <2> QED BY <1>1, <2>2 DEF IInv, BootInv
  <1> QED BY <1>3, <1>5, <1>6, <1>7, <1>8 DEF IInv

\* boot_aps and mp_main: an AP starts without environment and without lock.
LEMMA BootApsLemma ==
  ASSUME IInv, NEW c \in Cpus, boot_aps(c) \/ mp_main(c)
  PROVE  IInv'
PROOF
  <1> DEFINE p == IF pc[c] = "off" THEN "start" ELSE "spin"
  <1>1. /\ UNCHANGED <<env_status, tabVars, ipcVars, curenv, kernel_lock, panicstr>>
        /\ pc' = [pc EXCEPT ![c] = p]
        /\ pc[c] \in {"off", "start"}
        /\ cpu_status' \in {cpu_status, [cpu_status EXCEPT ![c] = "STARTED"]}
    BY DEF boot_aps, mp_main
  <1>2. p \in Phases \ {"boot", "monitor"} /\ p # "user"
    BY DEF Phases
  <1>3. cpu_status' \in [Cpus -> {"UNUSED", "STARTED", "HALTED"}]
    BY <1>1 DEF IInv, TypeOK
  <1>4. LockProtectsKernel'
    BY <1>1 DEF IInv, TypeOK, LockProtectsKernel, InKernel
  <1>5. CpuShape'
    BY <1>1 DEF IInv, TypeOK, CpuShape
  <1>6. PanicInv'
    BY <1>1 DEF IInv, PanicInv
  <1> HIDE DEF p
  <1> QED BY <1>1, <1>2, <1>3, <1>4, <1>5, <1>6, PhaseLemma DEF IInv, TypeOK

\* trap() up to lock_kernel(): the tests that would panic never succeed.
LEMMA TrapLemma ==
  ASSUME IInv, NEW c \in Cpus, trap_user(c) \/ trap_halted(c)
  PROVE  IInv'
PROOF
  <1> DEFINE p == IF panicstr THEN "dead" ELSE "spin"
  <1>1. /\ UNCHANGED <<env_status, tabVars, ipcVars, curenv, kernel_lock, panicstr>>
        /\ pc' = [pc EXCEPT ![c] = p]
        /\ pc[c] \in {"user", "halt"}
        /\ cpu_status' = [cpu_status EXCEPT ![c] = "STARTED"]
    BY DEF trap_user, trap_halted, IInv, CpuShape, TypeOK
  <1>2. p \in Phases \ {"boot", "monitor"} /\ p # "user"
    BY DEF Phases
  <1>3. cpu_status' \in [Cpus -> {"UNUSED", "STARTED", "HALTED"}]
    BY <1>1 DEF IInv, TypeOK
  <1>4. LockProtectsKernel'
    BY <1>1 DEF IInv, TypeOK, LockProtectsKernel, InKernel
  <1>5. CpuShape'
    BY <1>1 DEF IInv, TypeOK, CpuShape
  <1>6. PanicInv'
    BY <1>1 DEF IInv, PanicInv
  <1> HIDE DEF p
  <1> QED BY <1>1, <1>2, <1>3, <1>4, <1>5, <1>6, PhaseLemma DEF IInv, TypeOK

\* lock_kernel: the second acquisition that would panic does not happen.
LEMMA SpinLockLemma ==
  ASSUME IInv, NEW c \in Cpus, spin_lock(c)
  PROVE  IInv'
PROOF
  <1>1. /\ UNCHANGED <<env_status, tabVars, ipcVars, curenv, cpu_status, panicstr>>
        /\ kernel_lock = NoCpu /\ kernel_lock' = c
        /\ pc' = [pc EXCEPT ![c] = "kern"] /\ pc[c] = "spin"
    BY DEF spin_lock, Panic, IInv, LockProtectsKernel, InKernel
  <1>2. NoCpu \notin Cpus
    BY EnvSchedAssumption DEF Cpus, NoCpu
  <1>3. "kern" \in Phases \ {"boot", "monitor"}
    BY DEF Phases
  <1>4. LockProtectsKernel'
    BY <1>1, <1>2 DEF IInv, TypeOK, LockProtectsKernel, InKernel
  <1>5. CpuShape'
    BY <1>1 DEF IInv, TypeOK, CpuShape
  <1>6. PanicInv'
    BY <1>1 DEF IInv, PanicInv
  <1> QED BY <1>1, <1>3, <1>4, <1>5, <1>6, PhaseLemma DEF IInv, TypeOK

\* A breakpoint: the processor stays in the monitor, with the lock.
LEMMA BreakpointLemma ==
  ASSUME IInv, NEW c \in Cpus, breakpoint(c)
  PROVE  IInv'
PROOF
  <1>1. /\ UNCHANGED <<env_status, tabVars, ipcVars, curenv, cpu_status, panicstr,
                       kernel_lock>>
        /\ pc' = [pc EXCEPT ![c] = "debug"] /\ pc[c] = "kern"
    BY DEF breakpoint, Dispatching
  <1>2. "debug" \in Phases \ {"boot", "monitor"}
    BY DEF Phases
  <1>3. LockProtectsKernel'
    BY <1>1 DEF IInv, TypeOK, LockProtectsKernel, InKernel
  <1>4. CpuShape'
    BY <1>1 DEF IInv, TypeOK, CpuShape
  <1>5. PanicInv'
    BY <1>1 DEF IInv, PanicInv
  <1> QED BY <1>1, <1>2, <1>3, <1>4, <1>5, PhaseLemma DEF IInv, TypeOK

\* An unexpected trap destroys curenv, or stops the kernel.
LEMMA UnexpectedTrapLemma ==
  ASSUME IInv, NEW c \in Cpus, unexpected_trap(c)
  PROVE  IInv'
PROOF
  <1>1. Dispatching(c)
    BY DEF unexpected_trap
  <1>2. CASE curenv[c] # NoEnv
    <2>1. curenv[c] \in Envs /\ env_status[curenv[c]] = "RUNNING"
      BY <1>1, <1>2, KernFacts DEF Dispatching, Zombie
    <2> QED BY <1>1, <1>2, <2>1, DestroyLemma DEF unexpected_trap
  <1>3. CASE curenv[c] = NoEnv
    <2>1. /\ UNCHANGED <<env_status, tabVars, ipcVars, curenv, cpu_status, kernel_lock>>
          /\ pc' = [pc EXCEPT ![c] = "panic"] /\ pc[c] = "kern"
          /\ panicstr' = TRUE /\ DeviceIrqs
      BY <1>1, <1>3 DEF unexpected_trap, Panic, Dispatching
    <2>2. "panic" \in Phases \ {"boot", "monitor"}
      BY DEF Phases
    <2>3. LockProtectsKernel'
      BY <2>1 DEF IInv, TypeOK, LockProtectsKernel, InKernel
    <2>4. CpuShape'
      BY <2>1 DEF IInv, TypeOK, CpuShape
    <2>5. PanicInv'
      BY <2>1 DEF PanicInv
    <2> QED BY <2>1, <2>2, <2>3, <2>4, <2>5, PhaseLemma DEF IInv, TypeOK
  <1> QED BY <1>2, <1>3

\* The boot processor creates the first environments and enters the scheduler.
LEMMA BootLemma ==
  ASSUME IInv, i386_init
  PROVE  IInv'
PROOF
  <1> DEFINE st == [e \in Envs |-> IF e < NBoot THEN "RUNNABLE" ELSE "FREE"]
             L == env_free_list'
  <1>1. /\ BSP \in Cpus /\ NBoot \in Nat /\ NENV \in Nat /\ NBoot <= NENV
        /\ NoEnv \notin Envs /\ 1 \in 0..MaxGen /\ 0 \in 0..MaxGen
    BY EnvSchedAssumption DEF BSP, Cpus, Envs, NoEnv
  <1>2. /\ pc[BSP] = "boot"
        /\ \A c \in Cpus : curenv[c] = NoEnv
        /\ \A e \in Envs : ~env_ipc_recving[e]
        /\ env_free_list = [i \in 1..NENV |-> i - 1]
    BY DEF i386_init, IInv, BootInv
  <1>3. /\ env_id' = [e \in Envs |-> IF e < NBoot THEN 1 ELSE 0]
        /\ L = SubSeq(env_free_list, NBoot + 1, NENV)
        /\ sched_yield(BSP, NoEnv, st)
        /\ UNCHANGED <<env_parent_id, ipcVars>>
    BY DEF i386_init
  <1>4. st \in [Envs -> Statuses]
    BY DEF Statuses
  <1>5. SchedPre(BSP, NoEnv, st)
    BY <1>1, <1>2 DEF SchedPre, Runs
  <1>6. /\ L \in Seq(Envs)
        /\ DOMAIN L = 1..(NENV - NBoot)
        /\ \A i \in 1..(NENV - NBoot) : L[i] = NBoot + i - 1
    <2>1. env_free_list \in Seq(Envs) /\ Len(env_free_list) = NENV
      BY <1>1, <1>2 DEF IInv, TypeOK
    <2>2. L \in Seq(Envs) /\ Len(L) = NENV - NBoot
          /\ \A i \in 1..(NENV - NBoot) : L[i] = env_free_list[NBoot + i]
      BY <1>1, <1>3, <2>1
    <2>3. \A i \in 1..(NENV - NBoot) : NBoot + i \in 1..NENV
      BY <1>1
    <2> QED BY <1>1, <1>2, <2>2, <2>3
  <1>7. TableOK(st)
    <2>1. \A e \in Envs : st[e] = "FREE" <=> \E i \in DOMAIN L : L[i] = e
      <3> SUFFICES ASSUME NEW e \in Envs
                   PROVE  e >= NBoot <=> \E i \in 1..(NENV - NBoot) : NBoot + i - 1 = e
        <4>1. ASSUME NEW e \in Envs
              PROVE  /\ st[e] = "FREE" <=> e >= NBoot
                     /\ (\E i \in DOMAIN L : L[i] = e)
                          <=> \E i \in 1..(NENV - NBoot) : NBoot + i - 1 = e
          <5>1. st[e] = "FREE" <=> ~ (e < NBoot)
            OBVIOUS
          <5>2. e \in Int
            BY <1>1 DEF Envs
          <5>3. st[e] = "FREE" <=> e >= NBoot
            BY <1>1, <5>1, <5>2
          <5>4. (\E i \in DOMAIN L : L[i] = e)
                  <=> \E i \in 1..(NENV - NBoot) : NBoot + i - 1 = e
            <6> HIDE DEF L
            <6> QED BY <1>6
          <5> QED BY <5>3, <5>4
        <4> HIDE DEF st, L
        <4> QED BY <4>1
      <3>1. e >= NBoot => e - NBoot + 1 \in 1..(NENV - NBoot)
                          /\ NBoot + (e - NBoot + 1) - 1 = e
        BY <1>1 DEF Envs
      <3> QED BY <1>1, <3>1 DEF Envs
    <2>2. \A i, j \in DOMAIN L : L[i] = L[j] => i = j
      BY <1>1, <1>6
    <2>3. env_id' \in [Envs -> 0..MaxGen]
      BY <1>1, <1>3
    <2>4. /\ env_parent_id' = env_parent_id
          /\ env_ipc_recving' = env_ipc_recving /\ env_ipc_dstva' = env_ipc_dstva
          /\ env_ipc_from' = env_ipc_from /\ env_ipc_value' = env_ipc_value
          /\ env_ipc_perm' = env_ipc_perm
      BY <1>3 DEF ipcVars
    <2> HIDE DEF st
    <2> QED BY <1>2, <1>6, <2>1, <2>2, <2>3, <2>4 DEF TableOK, IInv, TypeOK
  <1> HIDE DEF st
  <1> QED BY <1>1, <1>3, <1>4, <1>5, <1>7, SchedYieldLemma, Conclude

-----------------------------------------------------------------------------
\* The inductive invariant holds when the kernel starts.
LEMMA InitIInv == Init => IInv
PROOF
  <1> SUFFICES ASSUME Init PROVE IInv
    OBVIOUS
  <1>1. /\ BSP \in Cpus /\ NENV \in Nat /\ NoEnv \notin Envs /\ NoCpu \notin Cpus
        /\ 0 \in 0..MaxGen /\ Id0 \in EnvIds
    BY EnvSchedAssumption DEF BSP, Cpus, Envs, NoEnv, NoCpu, EnvIds, Id0
  <1>2. env_free_list \in Seq(Envs) /\ DOMAIN env_free_list = 1..NENV
        /\ \A i \in 1..NENV : env_free_list[i] = i - 1
    BY <1>1 DEF Init, Envs
  <1>3. TypeOK
    <2>1. (CHOOSE v \in Values : TRUE) \in Values
      BY EnvSchedAssumption
    <2> QED BY <1>1, <1>2, <2>1 DEF Init, TypeOK, Statuses, Phases
  <1>4. LockProtectsKernel /\ CpuShape /\ BootInv /\ PanicInv
    BY <1>1 DEF Init, LockProtectsKernel, InKernel, CpuShape, BootInv, PanicInv
  <1>5. RunsOnOneCpu /\ RecvMeansBlocked /\ MonitorMeansIdle
    BY <1>1 DEF Init, RunsOnOneCpu, NeverTwoCpus, Runs, RecvMeansBlocked, MonitorMeansIdle
  <1>6. FreeListExact
    <2>1. \A e \in Envs : e + 1 \in 1..NENV /\ env_free_list[e + 1] = e
      BY <1>1, <1>2 DEF Envs
    <2>2. \A e \in Envs : env_status[e] = "FREE"
      BY DEF Init
    <2>3. \A i, j \in 1..NENV : env_free_list[i] = env_free_list[j] => i = j
      BY <1>1, <1>2
    <2> QED BY <1>2, <2>1, <2>2, <2>3 DEF FreeListExact
  <1> QED BY <1>3, <1>4, <1>5, <1>6 DEF IInv

\* Every step of the kernel preserves the inductive invariant.
LEMMA NextIInv == ~Raw /\ IInv /\ [Next]_vars => IInv'
PROOF
  <1> SUFFICES ASSUME ~Raw, IInv, [Next]_vars PROVE IInv'
    OBVIOUS
  <1>1. CASE i386_init
    BY <1>1, BootLemma
  <1>2. ASSUME NEW c \in Cpus, boot_aps(c) \/ mp_main(c) PROVE IInv'
    BY <1>2, BootApsLemma
  <1>3. ASSUME NEW c \in Cpus, trap_user(c) \/ trap_halted(c) PROVE IInv'
    BY <1>3, TrapLemma
  <1>4. ASSUME NEW c \in Cpus, spin_lock(c) PROVE IInv'
    BY <1>4, SpinLockLemma
  <1>5. ASSUME NEW c \in Cpus, Handler(c) PROVE IInv'
    <2>1. CASE reap(c)
      BY <2>1, ReapLemma
    <2>2. CASE sys_yield(c) \/ trap_noop(c)
      BY <2>2, PlainLemma
    <2>3. CASE unexpected_trap(c)
      BY <2>3, UnexpectedTrapLemma
    <2>4. CASE sys_exofork(c)
      BY <2>4, ExoforkLemma
    <2>5. ASSUME NEW id \in EnvIds, sys_env_destroy(c, id) PROVE IInv'
      <3> DEFINE e == envid2env(c, id, TRUE)
      <3>1. /\ Dispatching(c) /\ curenv[c] # NoEnv /\ e # NoEnv
            /\ env_status[e] # "DYING" /\ env_destroy(c, e)
        BY <2>5 DEF sys_env_destroy, Calling
      <3>2. e \in Envs /\ env_status[e] # "FREE"
        BY <3>1, LookupLemma
      <3> HIDE DEF e
      <3> QED BY <3>1, <3>2, DestroyLemma
    <2>6. ASSUME NEW id \in EnvIds, NEW s \in {"RUNNABLE", "NOT_RUNNABLE"},
                 sys_env_set_status(c, id, s)
          PROVE  IInv'
      BY <2>6, SetStatusLemma
    <2>7. ASSUME NEW dstva \in Pages, sys_ipc_recv(c, dstva) PROVE IInv'
      BY <2>7, RecvLemma, EnvSchedAssumption
    <2>8. ASSUME NEW id \in EnvIds, NEW v \in Values, NEW page \in Pages,
                 NEW ok \in BOOLEAN, sys_ipc_try_send(c, id, v, page, ok)
          PROVE  IInv'
      BY <2>8, SendLemma, EnvSchedAssumption
    <2>9. CASE breakpoint(c)
      BY <2>9, BreakpointLemma
    <2> QED BY <1>5, <2>1, <2>2, <2>3, <2>4, <2>5, <2>6, <2>7, <2>8, <2>9
            DEF Handler, Syscall
  <1>6. CASE UNCHANGED vars
    BY <1>6 DEF vars, tabVars, ipcVars, cpuVars, IInv, TypeOK, LockProtectsKernel,
       InKernel, CpuShape, BootInv, RunsOnOneCpu, NeverTwoCpus, Runs, FreeListExact,
       RecvMeansBlocked, MonitorMeansIdle, PanicInv
  <1> QED BY <1>1, <1>2, <1>3, <1>4, <1>5, <1>6 DEF Next, monitor

-----------------------------------------------------------------------------
(* Action properties: what a step may never do.                            *)

\* The scheduler takes up only RUNNABLE environments and curenv: it leaves
\* everybody who is blocked, free or a zombie alone.
LEMMA SchedulerLeavesAlone ==
  ASSUME IInv, NEW c \in Cpus
  PROVE  \A cur \in Envs \cup {NoEnv}, st \in [Envs -> Statuses] :
           sched_yield(c, cur, st) \/ (cur = curenv[c] /\ trap_return(c, st)) =>
             \A x \in Envs : st[x] \in {"NOT_RUNNABLE", "FREE", "DYING"} =>
               env_status'[x] = st[x]
PROOF
  <1> DEFINE Alone(st) == \A x \in Envs : st[x] \in {"NOT_RUNNABLE", "FREE", "DYING"} =>
                            env_status'[x] = st[x]
  <1>1. ASSUME NEW cur \in Envs \cup {NoEnv}, NEW st \in [Envs -> Statuses],
               NEW e, st[e] \in {"RUNNABLE", "RUNNING"}, env_run(c, cur, st, e)
        PROVE  Alone(st)
    BY <1>1 DEF env_run
  <1>2. ASSUME NEW cur \in Envs \cup {NoEnv}, NEW st \in [Envs -> Statuses],
               sched_yield(c, cur, st)
        PROVE  Alone(st)
    <2>1. ASSUME NEW k \in 0..LastProbe, Eligible(st, Probe(cur, k)),
                 env_run(c, cur, st, Probe(cur, k))
          PROVE  Alone(st)
      BY <2>1, <1>1 DEF Eligible
    <2>2. ASSUME st[cur] = "RUNNING", env_run(c, cur, st, cur)
          PROVE  Alone(st)
      BY <2>2, <1>1
    <2>3. ASSUME sched_halt(c, cur, st) PROVE Alone(st)
      BY <2>3 DEF sched_halt
    <2> HIDE DEF Alone
    <2> QED BY <1>2, <2>1, <2>2, <2>3 DEF sched_yield
  <1>3. ASSUME NEW st \in [Envs -> Statuses], trap_return(c, st)
        PROVE  Alone(st)
    <2>1. curenv[c] \in Envs \cup {NoEnv}
      BY DEF IInv, TypeOK
    <2> HIDE DEF Alone
    <2> QED BY <1>1, <1>2, <1>3, <2>1 DEF trap_return
  <1> QED BY <1>2, <1>3

\* How an environment that is blocked or a zombie may leave that status: it is
\* reaped by its processor, destroyed, released by its parent, or sent a
\* message; always by a processor that holds the lock.
LEMMA WhoLeaves ==
  ASSUME ~Raw, IInv, Next, NEW e \in Envs,
         env_status[e] \in {"NOT_RUNNABLE", "DYING"},
         env_status'[e] # env_status[e]
  PROVE  \E c \in Cpus :
           /\ kernel_lock = c
           /\ \/ curenv[c] = e /\ env_status[e] = "DYING" /\ env_status'[e] = "FREE"
              \/ env_status[e] = "NOT_RUNNABLE" /\ env_status'[e] = "FREE"
              \/ /\ env_status[e] = "NOT_RUNNABLE"
                 /\ curenv[c] # NoEnv
                 /\ env_parent_id[e] = <<env_id[curenv[c]], curenv[c]>>
              \/ env_status[e] = "NOT_RUNNABLE" /\ env_ipc_recving[e]
PROOF
  <1> DEFINE Who(c) ==
        /\ kernel_lock = c
        /\ \/ curenv[c] = e /\ env_status[e] = "DYING" /\ env_status'[e] = "FREE"
           \/ env_status[e] = "NOT_RUNNABLE" /\ env_status'[e] = "FREE"
           \/ /\ env_status[e] = "NOT_RUNNABLE"
              /\ curenv[c] # NoEnv
              /\ env_parent_id[e] = <<env_id[curenv[c]], curenv[c]>>
           \/ env_status[e] = "NOT_RUNNABLE" /\ env_ipc_recving[e]
  <1>0. /\ env_status \in [Envs -> Statuses] /\ NoEnv \notin Envs
        /\ \A c \in Cpus : curenv[c] \in Envs \cup {NoEnv}
    BY EnvSchedAssumption DEF IInv, TypeOK, Envs, NoEnv
  <1>k. \A c \in Cpus : pc[c] = "kern" => kernel_lock = c
    BY DEF IInv, LockProtectsKernel, InKernel
  <1>s. ASSUME NEW c \in Cpus, NEW st \in [Envs -> Statuses],
               \/ sched_yield(c, NoEnv, st)
               \/ sched_yield(c, curenv[c], st)
               \/ trap_return(c, st)
        PROVE  st[e] \in {"NOT_RUNNABLE", "FREE", "DYING"} => env_status'[e] = st[e]
    BY <1>0, <1>s, SchedulerLeavesAlone
  <1>1. CASE i386_init
    <2>1. /\ pc[BSP] = "boot" /\ NENV \in Nat /\ BSP \in Cpus
          /\ env_free_list = [i \in 1..NENV |-> i - 1]
      BY <1>1, EnvSchedAssumption DEF i386_init, IInv, BootInv, BSP, Cpus
    <2>2. e + 1 \in DOMAIN env_free_list /\ env_free_list[e + 1] = e
      BY <2>1 DEF Envs
    <2>3. env_status[e] = "FREE"
      BY <2>2 DEF IInv, FreeListExact
    <2> QED BY <2>3
  <1>2. ASSUME NEW c \in Cpus,
               boot_aps(c) \/ mp_main(c) \/ trap_user(c) \/ trap_halted(c) \/ spin_lock(c)
               \/ monitor(c)
        PROVE  FALSE
    BY <1>2 DEF boot_aps, mp_main, trap_user, trap_halted, spin_lock, monitor, vars
  <1>3. ASSUME NEW c \in Cpus, Handler(c) PROVE Who(c)
    <2>d. ASSUME Dispatching(c), NEW x \in Envs,
                 env_status[x] \notin {"FREE", "DYING"}, env_destroy(c, x)
          PROVE  Who(c)
      <3>1. CASE env_status[x] = "RUNNING" /\ curenv[c] # x
        <4>1. trap_return(c, [env_status EXCEPT ![x] = "DYING"])
          BY <2>d, <3>1 DEF env_destroy
        <4>2. [env_status EXCEPT ![x] = "DYING"] \in [Envs -> Statuses]
          BY <1>0 DEF Statuses
        <4> QED BY <1>0, <1>s, <3>1, <4>1, <4>2
      <3>2. CASE ~ (env_status[x] = "RUNNING" /\ curenv[c] # x)
        <4> DEFINE st == [env_status EXCEPT ![x] = "FREE"]
        <4>1. st \in [Envs -> Statuses]
          BY <1>0 DEF Statuses
        <4>2. sched_yield(c, NoEnv, st) \/ trap_return(c, st)
          BY <2>d, <3>2 DEF env_destroy
        <4>3. st[e] = (IF e = x THEN "FREE" ELSE env_status[e])
          BY <1>0
        <4>4. env_status'[e] = st[e]
          <5> HIDE DEF st
          <5> QED BY <1>s, <4>1, <4>2, <4>3
        <4> QED BY <1>k, <2>d, <4>3, <4>4 DEF Dispatching
      <3> QED BY <3>1, <3>2
    <2>1. CASE reap(c)
      <3> DEFINE st == [env_status EXCEPT ![curenv[c]] = "FREE"]
      <3>1. /\ st \in [Envs -> Statuses] /\ sched_yield(c, NoEnv, st)
            /\ pc[c] = "kern" /\ curenv[c] \in Envs /\ env_status[curenv[c]] = "DYING"
        BY <1>0, <2>1 DEF reap, Zombie, Statuses
      <3>2. st[e] = (IF e = curenv[c] THEN "FREE" ELSE env_status[e])
        BY <1>0
      <3>3. env_status'[e] = st[e]
        <4> HIDE DEF st
        <4> QED BY <1>s, <3>1, <3>2
      <3> QED BY <1>k, <3>1, <3>2, <3>3
    <2>2. CASE sys_yield(c) \/ trap_noop(c)
      BY <1>0, <1>s, <2>2 DEF sys_yield, trap_noop
    <2>3. CASE unexpected_trap(c)
      <3>1. Dispatching(c)
        BY <2>3 DEF unexpected_trap
      <3>2. CASE curenv[c] # NoEnv
        <4>1. curenv[c] \in Envs /\ env_status[curenv[c]] = "RUNNING"
          BY <3>1, <3>2, KernFacts DEF Dispatching, Zombie
        <4> QED BY <2>3, <2>d, <3>1, <3>2, <4>1 DEF unexpected_trap
      <3>3. CASE curenv[c] = NoEnv
        BY <2>3, <3>3 DEF unexpected_trap
      <3> QED BY <3>2, <3>3
    <2>4. CASE sys_exofork(c)
      <3> DEFINE x == Head(env_free_list)
                 st == [env_status EXCEPT ![x] = "NOT_RUNNABLE"]
      <3>1. x \in Envs /\ env_status[x] = "FREE"
        <4>1. env_free_list \in Seq(Envs) /\ env_free_list # <<>>
          BY <2>4 DEF IInv, TypeOK, sys_exofork
        <4>2. x \in Envs /\ x = env_free_list[1] /\ 1 \in DOMAIN env_free_list
          BY <4>1
        <4> QED BY <4>2 DEF IInv, FreeListExact
      <3>2. st \in [Envs -> Statuses] /\ trap_return(c, st)
        BY <1>0, <2>4 DEF sys_exofork, ClearRecving, Statuses
      <3>3. st[e] = env_status[e]
        BY <1>0, <3>1
      <3> HIDE DEF st
      <3> QED BY <1>s, <3>2, <3>3
    <2>5. ASSUME NEW id \in EnvIds, sys_env_destroy(c, id) PROVE Who(c)
      <3> DEFINE x == envid2env(c, id, TRUE)
      <3>1. /\ Dispatching(c) /\ curenv[c] # NoEnv /\ x # NoEnv
            /\ env_status[x] # "DYING" /\ env_destroy(c, x)
        BY <2>5 DEF sys_env_destroy, Calling
      <3>2. x \in Envs /\ env_status[x] # "FREE"
        BY <3>1, LookupLemma
      <3> HIDE DEF x
      <3> QED BY <2>d, <3>1, <3>2
    <2>6. ASSUME NEW id \in EnvIds, NEW s \in {"RUNNABLE", "NOT_RUNNABLE"},
                 sys_env_set_status(c, id, s)
          PROVE  Who(c)
      <3> DEFINE x == envid2env(c, id, TRUE)
                 st == [env_status EXCEPT ![x] = s]
      <3>1. /\ Dispatching(c) /\ curenv[c] # NoEnv /\ x # NoEnv
            /\ x # curenv[c] /\ Embryo(x) /\ trap_return(c, st)
        BY <2>6 DEF sys_env_set_status, Calling
      <3>2. x \in Envs /\ st \in [Envs -> Statuses]
        BY <1>0, <3>1, LookupLemma DEF Statuses
      <3>3. env_parent_id[x] = <<env_id[curenv[c]], curenv[c]>>
        BY <3>1 DEF envid2env
      <3> HIDE DEF x
      <3>4. x # e => st[e] = env_status[e]
        BY <1>0
      <3> HIDE DEF st
      <3>5. x = e
        BY <1>s, <3>1, <3>2, <3>4
      <3> QED BY <1>k, <3>1, <3>3, <3>5 DEF Embryo, Dispatching
    <2>7. ASSUME NEW dstva \in Pages, sys_ipc_recv(c, dstva) PROVE Who(c)
      <3> DEFINE st == [env_status EXCEPT ![curenv[c]] = "NOT_RUNNABLE"]
      <3>1. /\ Dispatching(c) /\ curenv[c] # NoEnv /\ sched_yield(c, curenv[c], st)
        BY <2>7 DEF sys_ipc_recv, Calling
      <3>2. curenv[c] \in Envs /\ env_status[curenv[c]] = "RUNNING"
        BY <3>1, KernFacts DEF Dispatching, Zombie
      <3>3. st \in [Envs -> Statuses] /\ st[e] = env_status[e]
        BY <1>0, <3>2 DEF Statuses
      <3> HIDE DEF st
      <3> QED BY <1>s, <3>1, <3>3
    <2>8. ASSUME NEW id \in EnvIds, NEW v \in Values, NEW page \in Pages,
                 NEW ok \in BOOLEAN, sys_ipc_try_send(c, id, v, page, ok)
          PROVE  Who(c)
      <3> DEFINE x == envid2env(c, id, FALSE)
                 st == [env_status EXCEPT ![x] = "RUNNABLE"]
      <3>1. /\ Dispatching(c) /\ curenv[c] # NoEnv /\ x # NoEnv /\ env_ipc_recving[x]
            /\ trap_return(c, env_status) \/ trap_return(c, st)
        BY <2>8 DEF sys_ipc_try_send, Calling, Receiving
      <3>2. x \in Envs /\ env_status[x] # "FREE"
        BY <3>1, LookupLemma
      <3>3. st \in [Envs -> Statuses] /\ env_status[x] = "NOT_RUNNABLE"
        BY <1>0, <3>1, <3>2 DEF Statuses, IInv, RecvMeansBlocked
      <3> HIDE DEF x
      <3>4. x # e => st[e] = env_status[e]
        BY <1>0
      <3> HIDE DEF st
      <3>5. x = e
        BY <1>0, <1>s, <3>1, <3>3, <3>4
      <3> QED BY <1>k, <3>1, <3>3, <3>5 DEF Dispatching
    <2>9. ~breakpoint(c)
      BY DEF breakpoint
    <2> HIDE DEF Who
    <2> QED BY <1>3, <2>1, <2>2, <2>3, <2>4, <2>5, <2>6, <2>7, <2>8, <2>9
            DEF Handler, Syscall
  <1> QED BY <1>1, <1>2, <1>3 DEF Next

\* The fields of a received message change in one place, sys_ipc_try_send, and
\* its target is blocked in sys_ipc_recv.
LEMMA MessageLemma ==
  ASSUME ~Raw, IInv, Next, NEW e \in Envs,
         \/ env_ipc_from'[e] # env_ipc_from[e]
         \/ env_ipc_value'[e] # env_ipc_value[e]
         \/ env_ipc_perm'[e] # env_ipc_perm[e]
  PROVE  env_ipc_recving[e] /\ env_status[e] = "NOT_RUNNABLE"
PROOF
  <1> DEFINE Same == /\ env_ipc_from' = env_ipc_from
                     /\ env_ipc_value' = env_ipc_value
                     /\ env_ipc_perm' = env_ipc_perm
  <1>a. i386_init => Same
    BY DEF i386_init, ipcVars
  <1>b. ASSUME NEW c \in Cpus,
               boot_aps(c) \/ mp_main(c) \/ trap_user(c) \/ trap_halted(c) \/ spin_lock(c)
               \/ monitor(c)
        PROVE  Same
    BY <1>b DEF boot_aps, mp_main, trap_user, trap_halted, spin_lock, monitor, vars, ipcVars
  <1>c. ASSUME NEW c \in Cpus, reap(c) \/ sys_yield(c) \/ trap_noop(c) \/ breakpoint(c)
               \/ unexpected_trap(c)
        PROVE  Same
    BY <1>c DEF reap, sys_yield, trap_noop, breakpoint, unexpected_trap, env_destroy, ipcVars
  <1>d. ASSUME NEW c \in Cpus, NEW id \in EnvIds, sys_env_destroy(c, id)
        PROVE  Same
    BY <1>d DEF sys_env_destroy, env_destroy, ipcVars
  <1>e. ASSUME NEW c \in Cpus, NEW id \in EnvIds, NEW s \in {"RUNNABLE", "NOT_RUNNABLE"},
               sys_env_set_status(c, id, s)
        PROVE  Same
    BY <1>e DEF sys_env_set_status, ipcVars
  <1>f. ASSUME NEW c \in Cpus, sys_exofork(c) \/ \E dstva \in Pages : sys_ipc_recv(c, dstva)
        PROVE  Same
    BY <1>f DEF sys_exofork, ClearRecving, sys_ipc_recv
  <1>1. PICK c \in Cpus, id \in EnvIds, v \in Values, page \in Pages, ok \in BOOLEAN :
          sys_ipc_try_send(c, id, v, page, ok)
    <2>1. ~Same
      OBVIOUS
    <2> HIDE DEF Same
    <2> QED BY <1>a, <1>b, <1>c, <1>d, <1>e, <1>f, <2>1 DEF Next, Handler, Syscall
  <1> DEFINE x == envid2env(c, id, FALSE)
  <1>2. /\ Dispatching(c) /\ curenv[c] # NoEnv /\ x # NoEnv /\ env_ipc_recving[x]
    BY <1>1 DEF sys_ipc_try_send, Calling, Receiving
  <1>3. x \in Envs /\ env_status[x] # "FREE"
    BY <1>2, LookupLemma
  <1>4. x # e => /\ env_ipc_from'[e] = env_ipc_from[e]
                 /\ env_ipc_value'[e] = env_ipc_value[e]
                 /\ env_ipc_perm'[e] = env_ipc_perm[e]
    BY <1>1 DEF sys_ipc_try_send, IInv, TypeOK
  <1> QED BY <1>2, <1>3, <1>4 DEF IInv, RecvMeansBlocked

\* A wait ends with a message, and env_ipc_perm then tells whether a page came
\* and was wanted; otherwise the slot has been given to a new environment.
LEMMA WaitLemma ==
  ASSUME ~Raw, IInv, Next, NEW e \in Envs,
         env_ipc_recving[e], ~env_ipc_recving'[e], env_status'[e] # "NOT_RUNNABLE"
  PROVE  env_ipc_perm'[e] => env_ipc_dstva[e]
PROOF
  <1>1. CASE \E c \in Cpus : sys_exofork(c)
    <2>1. PICK c \in Cpus : sys_exofork(c)
      BY <1>1
    <2> DEFINE x == Head(env_free_list)
               st == [env_status EXCEPT ![x] = "NOT_RUNNABLE"]
    <2>2. x = e
      BY <2>1 DEF sys_exofork, ClearRecving, IInv, TypeOK
    <2>3. st \in [Envs -> Statuses] /\ st[e] = "NOT_RUNNABLE" /\ trap_return(c, st)
          /\ curenv[c] \in Envs \cup {NoEnv}
      BY <2>1, <2>2 DEF sys_exofork, ClearRecving, IInv, TypeOK, Statuses
    <2> HIDE DEF st
    <2> QED BY <2>3, SchedulerLeavesAlone
  <1>2. CASE ~ \E c \in Cpus : sys_exofork(c)
    <2>1. CASE \E c \in Cpus, dstva \in Pages : sys_ipc_recv(c, dstva)
      BY <2>1 DEF sys_ipc_recv, IInv, TypeOK
    <2>2. CASE ~ \E c \in Cpus, dstva \in Pages : sys_ipc_recv(c, dstva)
      <3>1. PICK c \in Cpus, id \in EnvIds, v \in Values, page \in Pages, ok \in BOOLEAN :
              sys_ipc_try_send(c, id, v, page, ok)
        BY <1>2, <2>2 DEF Next, Handler, Syscall, i386_init, boot_aps, mp_main, trap_user,
           trap_halted, spin_lock, monitor, vars, reap, sys_yield, trap_noop, breakpoint,
           unexpected_trap, env_destroy, sys_env_destroy, sys_env_set_status, ipcVars
      <3>2. envid2env(c, id, FALSE) = e
        BY <3>1 DEF sys_ipc_try_send, StopReceiving, IInv, TypeOK
      <3>3. env_ipc_perm' = [env_ipc_perm EXCEPT ![e] = SentPerm(e, page, ok)]
        BY <3>1, <3>2 DEF sys_ipc_try_send
      <3> QED BY <3>3 DEF SentPerm, IInv, TypeOK
    <2> QED BY <2>1, <2>2
  <1> QED BY <1>1, <1>2

\* A slot leaves the free list in two places, at boot and in env_alloc, and
\* its new owner does not receive.
LEMMA NewOwnerLemma ==
  ASSUME ~Raw, IInv, IInv', Next, NEW e \in Envs,
         env_status[e] = "FREE", env_status'[e] # "FREE"
  PROVE  ~env_ipc_recving'[e]
PROOF
  <1> DEFINE L == env_free_list
             Kept == env_free_list' = L \/ \E x \in Envs : env_free_list' = <<x>> \o L
  <1>1. L \in Seq(Envs) /\ env_free_list' \in Seq(Envs)
    BY DEF IInv, TypeOK
  <1>2. (\E i \in 1..Len(L) : L[i] = e) /\ ~ \E i \in DOMAIN env_free_list' : env_free_list'[i] = e
    BY <1>1 DEF IInv, FreeListExact
  <1>3. ~Kept
    <2>1. env_free_list' # L
      BY <1>1, <1>2
    <2>2. ASSUME NEW x \in Envs, env_free_list' = <<x>> \o L PROVE FALSE
      <3>1. PICK i \in 1..Len(L) : L[i] = e
        BY <1>2
      <3>2. i + 1 \in DOMAIN env_free_list' /\ env_free_list'[i + 1] = e
        BY <1>1, <2>2, <3>1
      <3> QED BY <1>2, <3>2
    <2> QED BY <2>1, <2>2
  <1>a. ASSUME NEW c \in Cpus,
               boot_aps(c) \/ mp_main(c) \/ trap_user(c) \/ trap_halted(c) \/ spin_lock(c)
               \/ monitor(c) \/ breakpoint(c) \/ sys_yield(c) \/ trap_noop(c)
        PROVE  Kept
    BY <1>a DEF boot_aps, mp_main, trap_user, trap_halted, spin_lock, monitor, breakpoint,
       sys_yield, trap_noop, vars, tabVars
  <1>b. ASSUME NEW c \in Cpus, NEW x \in Envs, env_destroy(c, x)
        PROVE  Kept
    BY <1>b DEF env_destroy, FreeEnv, tabVars
  <1>c. ASSUME NEW c \in Cpus, reap(c)
        PROVE  Kept
    <2>1. curenv[c] \in Envs /\ env_free_list' = <<curenv[c]>> \o L
      BY <1>c DEF reap, Zombie, FreeEnv, IInv, TypeOK
    <2> QED BY <2>1
  <1>d. ASSUME NEW c \in Cpus, unexpected_trap(c)
        PROVE  Kept
    <2>1. \/ curenv[c] \in Envs /\ env_destroy(c, curenv[c])
          \/ UNCHANGED tabVars
      BY <1>d DEF unexpected_trap, IInv, TypeOK
    <2> QED BY <1>b, <2>1 DEF tabVars
  <1>e. ASSUME NEW c \in Cpus, NEW id \in EnvIds, sys_env_destroy(c, id)
        PROVE  Kept
    <2>1. PICK x : x = envid2env(c, id, TRUE)
      OBVIOUS
    <2>2. Dispatching(c) /\ curenv[c] # NoEnv /\ x # NoEnv /\ env_destroy(c, x)
      BY <1>e, <2>1 DEF sys_env_destroy, Calling
    <2>3. x \in Envs
      BY <2>1, <2>2, LookupLemma
    <2> QED BY <1>b, <2>2, <2>3
  <1>f. ASSUME NEW c \in Cpus,
               \/ \E id \in EnvIds, s \in {"RUNNABLE", "NOT_RUNNABLE"} :
                    sys_env_set_status(c, id, s)
               \/ \E dstva \in Pages : sys_ipc_recv(c, dstva)
               \/ \E id \in EnvIds, v \in Values, page \in Pages, ok \in BOOLEAN :
                    sys_ipc_try_send(c, id, v, page, ok)
        PROVE  Kept
    BY <1>f DEF sys_env_set_status, sys_ipc_recv, sys_ipc_try_send, tabVars
  <1>4. i386_init \/ \E c \in Cpus : sys_exofork(c)
    <2> HIDE DEF Kept
    <2> QED BY <1>3, <1>a, <1>c, <1>d, <1>e, <1>f DEF Next, Handler, Syscall
  <1>5. CASE i386_init
    BY <1>5 DEF i386_init, IInv, BootInv, ipcVars
  <1>6. ASSUME NEW c \in Cpus, sys_exofork(c) PROVE ~env_ipc_recving'[e]
    <2>1. /\ L # <<>> /\ env_free_list' = Tail(L)
          /\ env_ipc_recving' = [env_ipc_recving EXCEPT ![Head(L)] = FALSE]
      BY <1>6 DEF sys_exofork, ClearRecving
    <2>2. PICK i \in 1..Len(L) : L[i] = e
      BY <1>2
    <2>3. i = 1
      <3>1. CASE i # 1
        <4>1. i - 1 \in DOMAIN Tail(L) /\ Tail(L)[i - 1] = e
          BY <1>1, <2>1, <2>2, <3>1
        <4> QED BY <1>2, <2>1, <4>1
      <3> QED BY <3>1
    <2>4. Head(L) = e
      BY <1>1, <2>1, <2>2, <2>3
    <2> QED BY <2>1, <2>4 DEF IInv, TypeOK
  <1> QED BY <1>4, <1>5, <1>6

-----------------------------------------------------------------------------
(* The theorems *)

\* Type correctness of the environment table and the processors.
THEOREM TypeCorrect == ~Raw => (Spec => []TypeOK)
PROOF
  <1> SUFFICES ASSUME ~Raw PROVE Spec => []TypeOK
    OBVIOUS
  <1>1. IInv => TypeOK
    BY DEF IInv
  <1>2. IInv /\ [Next]_vars => IInv'
    BY NextIInv
  <1> QED BY <1>1, <1>2, InitIInv, PTL DEF Spec

\* The big kernel lock protects the kernel (spinlock.c, trap.c:290).
THEOREM KernelLockTheorem == ~Raw => (Spec => []LockProtectsKernel)
PROOF
  <1> SUFFICES ASSUME ~Raw PROVE Spec => []LockProtectsKernel
    OBVIOUS
  <1>1. IInv => LockProtectsKernel
    BY DEF IInv
  <1>2. IInv /\ [Next]_vars => IInv'
    BY NextIInv
  <1> QED BY <1>1, <1>2, InitIInv, PTL DEF Spec

\* RUNNING and DYING mean "in use by exactly one processor" (sched.c:26).
THEOREM OneCpuTheorem == ~Raw => (Spec => []RunsOnOneCpu)
PROOF
  <1> SUFFICES ASSUME ~Raw PROVE Spec => []RunsOnOneCpu
    OBVIOUS
  <1>1. IInv => RunsOnOneCpu
    BY DEF IInv
  <1>2. IInv /\ [Next]_vars => IInv'
    BY NextIInv
  <1> QED BY <1>1, <1>2, InitIInv, PTL DEF Spec

\* env_free_list is the set of free slots, each once (env.c: env_alloc, env_free).
THEOREM FreeListTheorem == ~Raw => (Spec => []FreeListExact)
PROOF
  <1> SUFFICES ASSUME ~Raw PROVE Spec => []FreeListExact
    OBVIOUS
  <1>1. IInv => FreeListExact
    BY DEF IInv
  <1>2. IInv /\ [Next]_vars => IInv'
    BY NextIInv
  <1> QED BY <1>1, <1>2, InitIInv, PTL DEF Spec

\* A receiver is blocked until a message arrives (syscall.c: sys_ipc_recv,
\* sys_ipc_try_send).
THEOREM BlockedTheorem == ~Raw => (Spec => []RecvMeansBlocked)
PROOF
  <1> SUFFICES ASSUME ~Raw PROVE Spec => []RecvMeansBlocked
    OBVIOUS
  <1>1. IInv => RecvMeansBlocked
    BY DEF IInv
  <1>2. IInv /\ [Next]_vars => IInv'
    BY NextIInv
  <1> QED BY <1>1, <1>2, InitIInv, PTL DEF Spec

\* sched_halt enters the monitor only on an idle machine (sched.c:60).
THEOREM MonitorTheorem == ~Raw => (Spec => []MonitorMeansIdle)
PROOF
  <1> SUFFICES ASSUME ~Raw PROVE Spec => []MonitorMeansIdle
    OBVIOUS
  <1>1. IInv => MonitorMeansIdle
    BY DEF IInv
  <1>2. IInv /\ [Next]_vars => IInv'
    BY NextIInv
  <1> QED BY <1>1, <1>2, InitIInv, PTL DEF Spec

\* Without device interrupts the kernel does not panic.
THEOREM NoPanicTheorem == ~Raw /\ ~DeviceIrqs => (Spec => []NoPanic)
PROOF
  <1> SUFFICES ASSUME ~Raw /\ ~DeviceIrqs PROVE Spec => []NoPanic
    OBVIOUS
  <1>1. IInv => NoPanic
    BY DEF IInv, PanicInv, NoPanic
  <1>2. IInv /\ [Next]_vars => IInv'
    BY NextIInv
  <1> QED BY <1>1, <1>2, InitIInv, PTL DEF Spec
\* A zombie is freed by the processor that runs it, in trap() (env.c:471,
\* trap.c:300).
THEOREM ZombieTheorem == ~Raw => (Spec => ZombieFreedByItsCpu)
PROOF
  <1> SUFFICES ASSUME ~Raw PROVE Spec => ZombieFreedByItsCpu
    OBVIOUS
  <1> DEFINE A == \A e \in Envs :
       env_status[e] = "DYING" /\ env_status'[e] # "DYING" =>
         env_status'[e] = "FREE" /\ \E c \in Cpus : kernel_lock = c /\ curenv[c] = e
  <1>1. IInv /\ Next => A
    <2> SUFFICES ASSUME IInv, Next, NEW e \in Envs,
                        env_status[e] = "DYING", env_status'[e] # "DYING"
                 PROVE  env_status'[e] = "FREE"
                        /\ \E c \in Cpus : kernel_lock = c /\ curenv[c] = e
      OBVIOUS
    <2> QED BY WhoLeaves
  <1>2. IInv /\ [Next]_vars => IInv' /\ [A]_vars
    BY <1>1, NextIInv
  <1> HIDE DEF A
  <1>3. Spec => [][A]_vars
    BY <1>2, InitIInv, PTL DEF Spec
  <1> QED BY <1>3 DEF A, ZombieFreedByItsCpu

\* A new child receives nothing, and nobody but its parent starts it (env.c:260,
\* syscall.c: sys_exofork, sys_env_set_status, sys_ipc_try_send).
THEOREM EmbryoTheorem == ~Raw => (Spec => EmbryoReleasedByParent)
PROOF
  <1> SUFFICES ASSUME ~Raw PROVE Spec => EmbryoReleasedByParent
    OBVIOUS
  <1> DEFINE A == \A e \in Envs :
       /\ env_status[e] = "FREE" /\ env_status'[e] # "FREE" => ~env_ipc_recving'[e]
       /\ Embryo(e) /\ env_status'[e] \notin {"NOT_RUNNABLE", "FREE"} =>
            \E c \in Cpus :
              /\ kernel_lock = c
              /\ curenv[c] # NoEnv
              /\ env_parent_id[e] = <<env_id[curenv[c]], curenv[c]>>
  <1>n. IInv /\ IInv' /\ Next => \A e \in Envs :
          env_status[e] = "FREE" /\ env_status'[e] # "FREE" => ~env_ipc_recving'[e]
    BY NewOwnerLemma
  <1>1. IInv /\ Next => \A e \in Envs :
          Embryo(e) /\ env_status'[e] \notin {"NOT_RUNNABLE", "FREE"} =>
            \E c \in Cpus :
              /\ kernel_lock = c
              /\ curenv[c] # NoEnv
              /\ env_parent_id[e] = <<env_id[curenv[c]], curenv[c]>>
    <2> SUFFICES ASSUME IInv, Next, NEW e \in Envs, Embryo(e),
                        env_status'[e] \notin {"NOT_RUNNABLE", "FREE"}
                 PROVE  \E c \in Cpus :
                          /\ kernel_lock = c
                          /\ curenv[c] # NoEnv
                          /\ env_parent_id[e] = <<env_id[curenv[c]], curenv[c]>>
      OBVIOUS
    <2> QED BY WhoLeaves DEF Embryo
  <1>2. IInv /\ [Next]_vars => IInv' /\ [A]_vars
    BY <1>n, <1>1, NextIInv
  <1> HIDE DEF A
  <1>3. Spec => [][A]_vars
    BY <1>2, InitIInv, PTL DEF Spec
  <1> QED BY <1>3 DEF A, EmbryoReleasedByParent

\* A received message stays as it is until the next sys_ipc_recv (lib/ipc.c:31).
THEOREM MessageTheorem == ~Raw => (Spec => MessageStable)
PROOF
  <1> SUFFICES ASSUME ~Raw PROVE Spec => MessageStable
    OBVIOUS
  <1> DEFINE A == \A e \in Envs :
       <<env_ipc_from[e], env_ipc_value[e], env_ipc_perm[e]>>' #
         <<env_ipc_from[e], env_ipc_value[e], env_ipc_perm[e]>> =>
         env_ipc_recving[e] /\ env_status[e] = "NOT_RUNNABLE"
  <1>1. IInv /\ Next => A
    BY MessageLemma
  <1>2. IInv /\ [Next]_vars => IInv' /\ [A]_vars
    BY <1>1, NextIInv
  <1> HIDE DEF A
  <1>3. Spec => [][A]_vars
    BY <1>2, InitIInv, PTL DEF Spec
  <1> QED BY <1>3 DEF A, MessageStable

\* env_ipc_perm never announces a page to a receiver that asked for none
\* (syscall.c: sys_ipc_try_send).
THEOREM PageTheorem == ~Raw => (Spec => PageOnlyIfAsked)
PROOF
  <1> SUFFICES ASSUME ~Raw PROVE Spec => PageOnlyIfAsked
    OBVIOUS
  <1> DEFINE A == \A e \in Envs :
       env_ipc_recving[e] /\ ~env_ipc_recving'[e] /\ env_status'[e] # "NOT_RUNNABLE" =>
         (env_ipc_perm'[e] => env_ipc_dstva[e])
  <1>1. IInv /\ Next => A
    BY WaitLemma
  <1>2. IInv /\ [Next]_vars => IInv' /\ [A]_vars
    BY <1>1, NextIInv
  <1> HIDE DEF A
  <1>3. Spec => [][A]_vars
    BY <1>2, InitIInv, PTL DEF Spec
  <1> QED BY <1>3 DEF A, PageOnlyIfAsked
=============================================================================
