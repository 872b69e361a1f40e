------------------------------ MODULE CowFork -------------------------------
(***************************************************************************)
(* Copy-on-write fork in user space: tps/lib/fork.c, the page fault        *)
(* handler it installs (lib/pgfault.c, lib/pfentry.S) and the kernel's     *)
(* part of it (page_fault_handler in kern/trap.c).  Every system call is   *)
(* one step; environments interleave between them.                         *)
(*                                                                         *)
(* The library pushes on its stack before each system call, so a step of   *)
(* fork needs a stack that it can write.  The contents of stack pages are  *)
(* not kept, only the mapping.                                             *)
(***************************************************************************)
EXTENDS Integers, Sequences

CONSTANTS
  Envs, Root,       \* the environments, the one that boots
  NoEnv,
  Data, ReadOnly,   \* writable pages of a program and its text
  NFrames,          \* physical pages there are
  Values, Zero,     \* contents of a page; sys_page_alloc clears it
  UxWords,          \* words of the exception stack (PGSIZE / 4 in the code)
  Dead              \* see ForkSpec

Frames == 1..NFrames
Vas == Data \cup ReadOnly \cup {"pftemp", "stack", "ux"}
Program == Data \cup ReadOnly \cup {"stack"}     \* mapped in every program

ASSUME CowForkAssumption ==
  /\ Root \in Envs
  /\ NoEnv \notin Envs
  /\ NFrames \in Nat /\ UxWords \in Nat
  /\ Zero \in Values
  /\ Data \cap ReadOnly = {}
  /\ (Data \cup ReadOnly) \cap {"pftemp", "stack", "ux"} = {}
  /\ Dead \notin [Data -> Values]
  /\ \E a \in [Program -> Frames] :        \* the program fits in memory
       \A x, y \in Program : x # y => a[x] # a[y]

NoPte == [frame |-> 0, perm |-> "none"]
Pte(f, p) == [frame |-> f, perm |-> p]
Ptes == [frame : Frames, perm : {"r", "w", "cow"}] \cup {NoPte}
NoOp == [va |-> "none", v |-> Zero]
Ops == [va : Program, v : Values] \cup {NoOp}

VARIABLES
  status,     \* "free", "embryo" (not runnable yet), "live", "stuck" (in the
              \* endless int3 loop of the library's panic) or "gone": a slot
              \* is used once, which bounds the forks by the number of slots
  pte,        \* the page tables
  mem,        \* the contents of the frames
  upcall,     \* env_pgfault_upcall is set
  handler,    \* _pgfault_handler is set
  pc,         \* where in fork() an environment is, "user" if it is not
  child,      \* child_id in fork()
  todo,       \* pages below the exception stack that fork has still to copy
  op,         \* the store of user code that has faulted and is to be retried
  fault       \* the trap frames on the exception stack: the word where each
              \* begins, and how far the handler has got with it

vars == <<status, pte, mem, upcall, handler, pc, child, todo, op, fault>>
forkVars == <<pc, child, todo>>

FaultSteps == {"alloc", "copy", "map", "unmap", "ret"}
Phases == {"user", "exofork", "uxstack", "dup", "mark"}

TypeOK ==
  /\ status \in [Envs -> {"free", "embryo", "live", "stuck", "gone"}]
  /\ pte \in [Envs -> [Vas -> Ptes]]
  /\ mem \in [Frames -> Values]
  /\ upcall \in [Envs -> BOOLEAN] /\ handler \in [Envs -> BOOLEAN]
  /\ pc \in [Envs -> Phases] /\ child \in [Envs -> Envs \cup {NoEnv}]
  /\ todo \in [Envs -> SUBSET Vas]
  /\ op \in [Envs -> Ops]
  /\ fault \in [Envs -> Seq([va : Program, step : FaultSteps, at : Nat])]

-----------------------------------------------------------------------------
(* Frames and environments *)

FreeFrames == {f \in Frames : \A e \in Envs, va \in Vas : pte[e][va].frame # f}
NextFrame == CHOOSE f \in FreeFrames : \A g \in FreeFrames : f <= g

Executing(e) == status[e] = "live" /\ fault[e] = <<>>
CanPush(e) == pte[e]["stack"].perm = "w"
InFork(e, phase) == Executing(e) /\ pc[e] = phase /\ CanPush(e)

\* panic() of the library: the environment spins on a breakpoint.
panic(e) == status' = [status EXCEPT ![e] = "stuck"]

\* env_destroy and env_free, of an environment that is running.  Nobody reads
\* a free frame, so the model forgets what is in it.
MappedOnlyBy(e, f) == \A o \in Envs \ {e}, va \in Vas : pte[o][va].frame # f
env_destroy(e) ==
  /\ status' = [status EXCEPT ![e] = "gone"]
  /\ pte' = [pte EXCEPT ![e] = [va \in Vas |-> NoPte]]
  /\ upcall' = [upcall EXCEPT ![e] = FALSE]
  /\ handler' = [handler EXCEPT ![e] = FALSE]
  /\ pc' = [pc EXCEPT ![e] = "user"]
  /\ child' = [child EXCEPT ![e] = NoEnv]
  /\ todo' = [todo EXCEPT ![e] = {}]
  /\ op' = [op EXCEPT ![e] = NoOp]
  /\ fault' = [fault EXCEPT ![e] = <<>>]
  /\ mem' = [f \in Frames |-> IF MappedOnlyBy(e, f) THEN Zero ELSE mem[f]]

-----------------------------------------------------------------------------
(* Page faults *)

Depth(e) == Len(fault[e])

\* sizeof(struct UTrapframe), in words.
UTrapWords == 13

\* Mutant of FrameTop: no word is left between nested trap frames.
FrameTop_tight(e) == IF Depth(e) = 0 THEN UxWords ELSE fault[e][Depth(e)].at

\* Where the kernel puts a trap frame: at the top of the exception stack or,
\* when the handler itself faults (its stack pointer is at the last frame),
\* below a word that it leaves for the return.
FrameTop(e) == IF Depth(e) = 0 THEN UxWords ELSE fault[e][Depth(e)].at - 1
FrameAt(e) == FrameTop(e) - UTrapWords

\* user_mem_assert on the next trap frame: the exception stack is mapped
\* writable and the frame does not reach below it.
user_mem_assert(e) == pte[e]["ux"].perm = "w" /\ FrameAt(e) >= 0

\* The kernel's page_fault_handler: an environment without an upcall or
\* without room on its exception stack dies, the others go on in the upcall.
page_fault_handler(e, va, instr) ==
  IF upcall[e] /\ user_mem_assert(e)
  THEN /\ fault' = [fault EXCEPT
                      ![e] = Append(@, [va |-> va, step |-> "alloc",
                                        at |-> FrameAt(e)])]
       /\ op' = [op EXCEPT ![e] = instr]
       /\ UNCHANGED <<status, pte, mem, upcall, handler, forkVars>>
  ELSE env_destroy(e)

Handling(e, step) ==
  status[e] = "live" /\ fault[e] # <<>> /\ fault[e][Depth(e)].step = step
FaultVa(e) == fault[e][Depth(e)].va
SetStep(e, step) == fault' = [fault EXCEPT ![e][Depth(e)].step = step]

\* pgfault: its three tests (an access that is mapped and faults is a write)
\* and the new page at PFTEMP.
pgfault_alloc(e) ==
  /\ Handling(e, "alloc")
  /\ IF pte[e][FaultVa(e)].perm # "cow" \/ FreeFrames = {}
     THEN panic(e) /\ UNCHANGED <<pte, mem, fault>>
     ELSE /\ pte' = [pte EXCEPT ![e]["pftemp"] = Pte(NextFrame, "w")]
          /\ mem' = [mem EXCEPT ![NextFrame] = Zero]
          /\ SetStep(e, "copy")
          /\ UNCHANGED status
  /\ UNCHANGED <<upcall, handler, forkVars, op>>

\* Mutant of pgfault_copy: nothing is copied.
pgfault_copy_not(e) ==
  /\ Handling(e, "copy")
  /\ SetStep(e, "map")
  /\ UNCHANGED <<status, pte, mem, upcall, handler, forkVars, op>>

\* memcpy(PFTEMP, addr).
pgfault_copy(e) ==
  /\ Handling(e, "copy")
  /\ mem' = [mem EXCEPT
               ![pte[e]["pftemp"].frame] = mem[pte[e][FaultVa(e)].frame]]
  /\ SetStep(e, "map")
  /\ UNCHANGED <<status, pte, upcall, handler, forkVars, op>>

\* Mutant of pgfault_map: the copy is mapped with the old permissions.
pgfault_map_cow(e) ==
  /\ Handling(e, "map")
  /\ pte' = [pte EXCEPT ![e][FaultVa(e)].frame = pte[e]["pftemp"].frame]
  /\ SetStep(e, "unmap")
  /\ UNCHANGED <<status, mem, upcall, handler, forkVars, op>>

\* sys_page_map(PFTEMP, addr), writable.
pgfault_map(e) ==
  /\ Handling(e, "map")
  /\ pte' = [pte EXCEPT ![e][FaultVa(e)] = Pte(pte[e]["pftemp"].frame, "w")]
  /\ SetStep(e, "unmap")
  /\ UNCHANGED <<status, mem, upcall, handler, forkVars, op>>

pgfault_unmap(e) ==
  /\ Handling(e, "unmap")
  /\ pte' = [pte EXCEPT ![e]["pftemp"] = NoPte]
  /\ SetStep(e, "ret")
  /\ UNCHANGED <<status, mem, upcall, handler, forkVars, op>>

\* The trap-time stack of the topmost trap frame: the exception stack when the
\* handler faulted, the user's stack below.
TrapStack(e) == IF Depth(e) > 1 THEN "ux" ELSE "stack"

\* The end of _pgfault_upcall pushes the trap-time eip on the trap-time stack:
\* back to the instruction that faulted, or a fault of its own.
_pgfault_upcall(e) ==
  /\ Handling(e, "ret")
  /\ \/ /\ pte[e][TrapStack(e)].perm = "w"
        /\ fault' = [fault EXCEPT ![e] = SubSeq(@, 1, Depth(e) - 1)]
        /\ UNCHANGED <<status, pte, mem, upcall, handler, forkVars, op>>
     \/ /\ pte[e][TrapStack(e)].perm # "w"
        /\ page_fault_handler(e, TrapStack(e), op[e])

-----------------------------------------------------------------------------
(* User code *)

\* The store instruction, once its page is writable.
execute(e, va, v) ==
  /\ pte[e][va].perm = "w"
  /\ mem' = IF va \in Data THEN [mem EXCEPT ![pte[e][va].frame] = v] ELSE mem
  /\ op' = [op EXCEPT ![e] = NoOp]
  /\ UNCHANGED <<status, pte, upcall, handler, forkVars, fault>>

write(e) ==
  /\ Executing(e) /\ pc[e] = "user" /\ op[e] = NoOp
  /\ \E va \in Program, v \in Values \ {Zero} :
        /\ \/ execute(e, va, v)
           \/ pte[e][va].perm # "w" /\ page_fault_handler(e, va, [va |-> va, v |-> v])

\* The handler is back at the store that faulted.
write_again(e) ==
  /\ Executing(e) /\ op[e] # NoOp
  /\ \/ execute(e, op[e].va, op[e].v)
     \/ pte[e][op[e].va].perm # "w" /\ page_fault_handler(e, op[e].va, op[e])

\* A push of fork() on a stack that is copy-on-write.
push_fault(e) ==
  /\ Executing(e) /\ pc[e] # "user" /\ ~CanPush(e)
  /\ page_fault_handler(e, "stack", op[e])

exit(e) == InFork(e, "user") /\ op[e] = NoOp /\ env_destroy(e)

\* The parent of an environment destroys it, wherever it is.
sys_env_destroy(e) == e # Root /\ status[e] \in {"live", "stuck"} /\ env_destroy(e)

-----------------------------------------------------------------------------
(* fork() *)

\* The first time, it allocates the exception stack and sets the upcall.
set_pgfault_handler(e) ==
  \/ /\ handler[e]
     /\ UNCHANGED <<status, pte, mem, upcall, handler>>
  \/ /\ ~handler[e] /\ FreeFrames # {}
     /\ pte' = [pte EXCEPT ![e]["ux"] = Pte(NextFrame, "w")]
     /\ mem' = [mem EXCEPT ![NextFrame] = Zero]
     /\ upcall' = [upcall EXCEPT ![e] = TRUE]
     /\ handler' = [handler EXCEPT ![e] = TRUE]
     /\ UNCHANGED status
  \/ /\ ~handler[e] /\ FreeFrames = {}
     /\ panic(e)
     /\ UNCHANGED <<pte, mem, upcall, handler>>

fork_start(e) ==
  /\ InFork(e, "user") /\ op[e] = NoOp
  /\ set_pgfault_handler(e)
  /\ pc' = [pc EXCEPT ![e] = "exofork"]
  /\ UNCHANGED <<child, todo, op, fault>>

\* The child gets its upcall in the same step, with which nothing interferes:
\* nobody else may name the embryo.  Its _pgfault_handler is the copy of its
\* parent's.  Every page but the exception stack is to be copied.
fork_exofork(e) ==
  /\ InFork(e, "exofork")
  /\ \/ \E c \in Envs :
          /\ status[c] = "free"
          /\ status' = [status EXCEPT ![c] = "embryo"]
          /\ upcall' = [upcall EXCEPT ![c] = TRUE]
          /\ handler' = [handler EXCEPT ![c] = handler[e]]
          /\ child' = [child EXCEPT ![e] = c]
          /\ pc' = [pc EXCEPT ![e] = "uxstack"]
     \/ /\ \A c \in Envs : status[c] # "free"
        /\ panic(e)
        /\ UNCHANGED <<upcall, handler, child, pc>>
  /\ UNCHANGED <<pte, mem, todo, op, fault>>

\* Mutant of fork_uxstack: the child shares its parent's exception stack.
fork_uxstack_shares(e) ==
  /\ InFork(e, "uxstack")
  /\ pte' = [pte EXCEPT ![child[e]]["ux"] = pte[e]["ux"]]
  /\ todo' = [todo EXCEPT ![e] = Vas \ {"ux"}]
  /\ pc' = [pc EXCEPT ![e] = "dup"]
  /\ UNCHANGED <<status, mem, upcall, handler, child, op, fault>>

\* The child's exception stack; fork does not look at what the call returns.
fork_uxstack(e) ==
  /\ InFork(e, "uxstack")
  /\ IF FreeFrames # {}
     THEN /\ pte' = [pte EXCEPT ![child[e]]["ux"] = Pte(NextFrame, "w")]
          /\ mem' = [mem EXCEPT ![NextFrame] = Zero]
     ELSE UNCHANGED <<pte, mem>>
  /\ todo' = [todo EXCEPT ![e] = Vas \ {"ux"}]
  /\ pc' = [pc EXCEPT ![e] = "dup"]
  /\ UNCHANGED <<status, upcall, handler, child, op, fault>>

\* The next page in the order of addresses: PFTEMP lies below the program and
\* the stack above it.
NextPage(e) ==
  IF "pftemp" \in todo[e] THEN "pftemp"
  ELSE IF todo[e] = {"stack"} THEN "stack"
  ELSE CHOOSE va \in todo[e] : va # "stack"

\* The first half of duppage, or all of it for a page that is not writable:
\* the mapping in the child.
duppage(e) ==
  LET va == NextPage(e)
      my == pte[e][va]
  IN /\ InFork(e, "dup") /\ todo[e] # {}
     /\ IF my = NoPte THEN UNCHANGED pte
        ELSE pte' = [pte EXCEPT ![child[e]][va] =
                       Pte(my.frame, IF my.perm = "r" THEN "r" ELSE "cow")]
     /\ IF my.perm \in {"w", "cow"}
        THEN pc' = [pc EXCEPT ![e] = "mark"] /\ UNCHANGED todo
        ELSE todo' = [todo EXCEPT ![e] = @ \ {va}] /\ UNCHANGED pc
     /\ UNCHANGED <<status, mem, upcall, handler, child, op, fault>>

\* The second half: our own mapping becomes copy-on-write.
duppage_mark(e) ==
  /\ InFork(e, "mark")
  /\ pte' = [pte EXCEPT ![e][NextPage(e)].perm = "cow"]
  /\ todo' = [todo EXCEPT ![e] = @ \ {NextPage(e)}]
  /\ pc' = [pc EXCEPT ![e] = "dup"]
  /\ UNCHANGED <<status, mem, upcall, handler, child, op, fault>>

\* No memory for a page directory or a page table of the child: fork panics
\* and leaves the embryo behind.
fork_nomem(e) ==
  /\ Executing(e) /\ CanPush(e) /\ pc[e] \in {"exofork", "dup"}
  /\ FreeFrames = {}
  /\ panic(e)
  /\ UNCHANGED <<pte, mem, upcall, handler, forkVars, op, fault>>

\* sys_env_set_status(child_id, ENV_RUNNABLE), and fork returns in both.
fork_release(e) ==
  /\ InFork(e, "dup") /\ todo[e] = {}
  /\ status' = [status EXCEPT ![child[e]] = "live"]
  /\ pc' = [pc EXCEPT ![e] = "user"]
  /\ child' = [child EXCEPT ![e] = NoEnv]
  /\ UNCHANGED <<pte, mem, upcall, handler, todo, op, fault>>

-----------------------------------------------------------------------------
\* One program is loaded: its pages are mapped, each in a frame of its own.
Init ==
  /\ status = [e \in Envs |-> IF e = Root THEN "live" ELSE "free"]
  /\ LET at == CHOOSE a \in [Program -> Frames] :
                  \A x, y \in Program : x # y => a[x] # a[y]
     IN pte = [e \in Envs |-> [va \in Vas |->
                    IF e = Root /\ va \in Program
                    THEN Pte(at[va], IF va \in ReadOnly THEN "r" ELSE "w")
                    ELSE NoPte]]
  /\ mem = [f \in Frames |-> Zero]
  /\ upcall = [e \in Envs |-> FALSE] /\ handler = [e \in Envs |-> FALSE]
  /\ pc = [e \in Envs |-> "user"] /\ child = [e \in Envs |-> NoEnv]
  /\ todo = [e \in Envs |-> {}]
  /\ op = [e \in Envs |-> NoOp] /\ fault = [e \in Envs |-> <<>>]

\* What the library does without being asked.
Step(e) ==
  \/ write_again(e) \/ push_fault(e)
  \/ pgfault_alloc(e) \/ pgfault_copy(e) \/ pgfault_map(e) \/ pgfault_unmap(e)
  \/ _pgfault_upcall(e)
  \/ fork_exofork(e) \/ fork_uxstack(e)
  \/ duppage(e) \/ duppage_mark(e) \/ fork_nomem(e) \/ fork_release(e)

Next ==
  \E e \in Envs :
    Step(e) \/ write(e) \/ fork_start(e) \/ exit(e) \/ sys_env_destroy(e)

\* Every environment that can run gets to run (EnvSched's NoStarvation).
Spec == Init /\ [][Next]_vars /\ \A e \in Envs : WF_vars(Step(e))

-----------------------------------------------------------------------------
(* Properties *)

\* The pages of a program seen through its page tables.  A program that is
\* stuck in panic still has its memory.
Memory(e) ==
  IF status[e] \in {"live", "stuck"}
  THEN [d \in Data |-> mem[pte[e][d].frame]]
  ELSE Dead

Abstract == INSTANCE ForkSpec WITH amem <- [e \in Envs |-> Memory(e)]

\* duppage, pgfault and the kernel's calls between them implement memories
\* that are copied at the fork and private afterwards, however parent, child
\* and grandchild interleave, and also when memory runs out half way.
ForkIsolates == Abstract!IsolatedMemory

\* A frame that somebody may write is mapped once.  Two exceptions: the page
\* duppage is at, which the child has already and the parent has not marked
\* yet (fork.c:66), and the copy that pgfault has mapped at its final place
\* while it is still mapped at PFTEMP.  It follows that no exception stack is
\* ever shared ("Neither user exception stack should ever be marked
\* copy-on-write", fork.c:139).
WritableIsPrivate ==
  \A e, o \in Envs : \A va, ov \in Vas :
    ( /\ pte[e][va].perm = "w"
      /\ pte[o][ov].frame = pte[e][va].frame
      /\ <<e, va>> # <<o, ov>> )
    => \/ pc[e] = "mark" /\ o = child[e] /\ ov = va /\ va = NextPage(e)
       \/ /\ e = o /\ fault[e] # <<>> /\ fault[e][Depth(e)].step = "unmap"
          /\ {va, ov} = {"pftemp", FaultVa(e)}

FrameWords(e, i) == fault[e][i].at..(fault[e][i].at + UTrapWords - 1)

\* The word below the handler's stack, where the return from the i-th trap
\* frame pushes the eip of the handler it interrupted (pfentry.S).
ReturnWord(e, i) == fault[e][i - 1].at - 1

\* Trap frames lie inside the exception stack and apart from each other, and
\* what the return from a nested one pushes is in none of them: the kernel and
\* the upcall agree on the blank word (trap.c:394, pfentry.S:44).
TrapFramesIntact ==
  \A e \in Envs : \A i \in 1..Depth(e) :
    /\ FrameWords(e, i) \subseteq 0..(UxWords - 1)
    /\ \A j \in 1..Depth(e) :
         /\ i # j => FrameWords(e, i) \cap FrameWords(e, j) = {}
         /\ i > 1 => ReturnWord(e, i) \notin FrameWords(e, j)

Busy(e) == status[e] = "live" /\ (fault[e] # <<>> \/ pc[e] # "user")
Panicked == \E e \in Envs : status[e] = "stuck"

\* A fork and a fault of user code come to an end: with the instruction
\* executed again, or with the environment destroyed; unless somebody panics,
\* which executes int3 and stops the machine for all (EnvSched).
ForkAndFaultsEnd == \A e \in Envs : Busy(e) ~> ~Busy(e) \/ Panicked
=============================================================================
