# A TLA+ development of sisop

The repository holds three programs:

* `tps/` — JOS, a small multiprocessor exokernel for the x86 (`kern/`), the user
  library that builds processes, pipes and files on it (`lib/`), a file server
  (`fs/`) and user programs (`user/`);
* `shell/` — a Unix shell;
* `fork/` — four Unix exercises (`primes`, `pingpong`, `xargs`, `find`).

This directory models them in TLA+, checks the models with TLC on small
instances and proves theorems about them with TLAPS. `PROJECT.json` lists the
runs, which lines each definition stands for, the hazards of the code and which
property covers which, and the theorems.

## Inventory

| Part | State | Operations | Interacts with |
|---|---|---|---|
| Environments and scheduler (`env.c`, `sched.c`, `init.c`, `spinlock.c`) | `envs[]` (status, id, parent, IPC fields), `env_free_list`, `kernel_lock`, `cpus[]` (`cpu_status`, `cpu_env`), `panicstr` | boot of the BSP and the APs, `env_alloc`, `env_free`, `env_destroy`, `env_run`, `sched_yield`, `sched_halt`, lock and unlock | every trap and system call; all processors share all of it under one lock |
| Traps and system calls (`trap.c`, `syscall.c`) | none of its own; the trap frame of `curenv` | the dispatch; exofork, set_status, destroy, yield, ipc_recv, ipc_try_send, page_alloc, page_map, page_unmap, set_pgfault_upcall | environments, pages |
| Physical memory and address spaces (`pmap.c`) | `pages[]` (`pp_ref`, `pp_link`), `page_free_list`, page directories and tables, the TLBs | `page_alloc`, `page_free`, `page_decref`, `pgdir_walk`, `page_lookup`, `page_insert`, `page_remove`, `user_mem_check` | system calls, `env_setup_vm`, `env_free` |
| User page faults (`page_fault_handler`, `pgfault.c`, `pfentry.S`) | exception stack, `env_pgfault_upcall` | fault, nested fault, return | fork, block cache |
| Copy-on-write fork (`fork.c`) | PTE_COW marks | `fork`, `duppage`, `pgfault` | pages, page faults |
| IPC library (`ipc.c`, `wait.c`) | — | `ipc_send` (retry loop), `ipc_recv`, `ipc_find_env`, `wait` | kernel IPC |
| Pipes and descriptors (`pipe.c`, `fd.c`) | ring of 32 bytes, `p_rpos`, `p_wpos`; reference counts of the descriptor page and of the data page | read, write, close, dup, `_pipeisclosed` | pages, the scheduler (`env_runs`) |
| Spawn (`spawn.c`) | the child's image | `spawn` | file server, pages; needs `sys_env_set_trapframe`, which the kernel does not dispatch |
| File server (`serv.c`, `lib/file.c`) | `opentab[]`, the reference counts of its descriptor pages | open, read, stat, flush, sync over IPC | IPC, file system |
| File system (`fs.c`, `bc.c`) | block bitmap, super block, block cache, disk | `alloc_block`, `file_get_block`, `file_create`, `flush_block`, ... | page faults, disk |
| Unix shell (`shell/`) | `status`, foreground and background children, descriptors | `run_cmd`, `exec_cmd`, `exec_pipeline`, redirections, SIGCHLD handler | Unix processes, pipes, signals, the terminal |
| Unix exercises (`fork/`) | pipes, children, argument batches | `filter`, `primes`, `pingpong`, `xargs`, `find` | Unix processes and pipes |
| Console (`console.c`, `readline.c`) | shift state, ring of typed characters, screen, the line being read | `cons_intr`, `cons_getc`, `kbd_proc_data`, `cga_putc`, `readline` | keyboard, serial port, monitor and environments |
| Boot of the memory system (`mem_init`) | `nextfree`, the first free list, the kernel's page directory | `boot_alloc`, `page_init`, `boot_map_region`, the self-checks | everything that comes after it |
| Other drivers, monitor, formatting, boot loader | device registers | port I/O, text | not modelled, see below |

What is hard in this code: processors that trap, spin, hold the lock and wake
from `hlt` in any order; environments destroyed while another processor executes
them; slots reused while messages and identifiers of their last owner are still
around; reference counts that many operations change and that decide when a
page is reused and when a pipe is at its end; memory that runs out half way
through a call; counters at their width; a scheduler that has to be fair; a file
system whose disk writes may stop between any two; and, in the Unix programs,
descriptors that must be closed in every process and signals that compete with
`waitpid`. `PROJECT.json` gives the line at which each of these bites.

## Modules

### EnvSched — environments, processors, the lock, IPC

One variable per field of `struct Env` that matters (`env_status`, `env_id`,
`env_parent_id`, the five IPC fields), the free list, the lock, `panicstr` and,
per processor, `curenv`, `cpu_status` and a phase `pc`.

An environment's user code is not modelled: a processor in phase `user` may trap
at any time, for any reason. Entering the kernel takes three steps — the trap,
which reads and sets `cpu_status` and `panicstr` without the lock
(`trap_user`, `trap_halted`), the acquisition of the lock (`spin_lock`), and the
handler — so that processors overtake each other and a handler may find its
`curenv` destroyed. Everything from the lock to the release is one action,
because nobody else may touch the data meanwhile; `LockProtectsKernel` is what
justifies that. A handler action covers the whole path: the system call, the
end of `trap()` and the scheduler it ends in (`trap_return`, `sched_yield`,
`env_run` or `sched_halt`, `unlock_kernel`), which are operators over the
`curenv` and the statuses that the handler has left.

| Action | Code |
|---|---|
| `boot_aps`, `mp_main`, `i386_init` | start of the APs, of an AP, the rest of `i386_init` |
| `trap_user`, `trap_halted`, `spin_lock` | `trap()` up to the lock, `lock_kernel` |
| `reap` | collection of a zombie at the head of `trap()` |
| `sys_yield` | timer interrupt, `sys_yield`, `mp_main` with the lock |
| `trap_noop` | traps that change nothing here: failing calls, page faults with an upcall, spurious interrupts |
| `breakpoint` | `int3`: the monitor, which none of its commands leaves, with the lock held |
| `unexpected_trap` | the end of `trap_dispatch`, and every other `env_destroy(curenv)` |
| `sys_exofork`, `sys_env_destroy`, `sys_env_set_status`, `sys_ipc_recv`, `sys_ipc_try_send` | the system calls |
| `monitor` | the endless loops of `sched_halt`, `_panic` and the breakpoint |

`envid_t` is a pair of a generation and a slot; the generation wraps at `MaxGen`
as the `int32_t` does after 2^19 - 1. Messages carry a value and, by a flag, a
page; why a page cannot be transferred (not mapped, not writable, no memory) is
one nondeterministic `ok`.

The kernel lets an environment do things that no program of the repository
does: destroy a child twice, set the status of a child that already runs. The
constant `Raw` separates the two: with `Raw = FALSE` the calls are made as
`lib/` and `user/` make them (`sys_env_set_status` once, on an embryo, with
`ENV_RUNNABLE`; no second destroy), with `Raw = TRUE` with any arguments the
kernel accepts. The safety properties are checked and proved for the first and
two of them are refuted for the second, see below.

### The proof modules

| Module | Theorems about |
|---|---|
| `EnvSched_proofs` | the lock, the environment table, the monitor, zombies and messages |
| `PageMap_proofs` | reference counts, the free list, page tables |
| `CowFork_proofs` | private writable frames, nested trap frames, the refinement of ForkSpec |
| `Pipe_proofs` | descriptors, the ring, the end of a pipe |
| `FsServer_proofs` | the open-file table and what its clients hold |
| `FsBlocks_proofs` | who owns a block, and what a crash leaves |
| `Machine_proofs` | the console: the echo, and what waits between the keys and the reader; the memory set-up at boot |
| `Shell_proofs` | the status of a foreground command |

Each extends the module it is about, `Machine_proofs` the two that `MCMachine` runs
(Console and BootMem); see Proofs.

### PageMap, MCPageMap — reference counts and address spaces

The references that keep a page alive — `env_pgdir`, the entries of page
directories, the entries of page tables — are one function `entry` from sites to
pages, next to `pp_ref`, the free list (a set: which page `page_alloc` returns
does not matter) and PTE_W. `page_insert`, `page_remove`, `page_decref`,
`page_lookup`, `pgdir_walk` are functions from memory to memory, composed as the
code composes them; the actions are `env_setup_vm`, the three page system
calls and `env_free`. The transfer of a page by IPC is `sys_page_map`. Everything
runs under the kernel lock, hence one action per call. `page_lookup` treats an
empty entry as physical page 0, as the code does; `Unmapped` says whether calls
name such addresses.

Left out: the mappings above UTOP, which `pp_ref` does not count (BootMem has
them); the TLB; PTE bits other than P and W; contents of pages.

### BootMem — from the kernel image to the first page directory

`mem_init`, one action per part: `boot_alloc` hands out the directory, the `pages`
and the `envs` arrays, `page_init` builds the free list, the checks of the
allocator shuffle it and scribble on it, `boot_map_region` maps arrays, stacks
and memory through `pgdir_walk` (which silently leaves a page out when there is no
memory for its table), with large pages or without, and `mem_init_mp` the stacks
of the other processors. Addresses count pages. Until `lcr3` only the first LOW
pages are mapped (`entry_pgdir`): `touched` collects what is written. After it
`mmio_map_region` is called by the processors. `BootMemAssumption` says what the
code takes for granted: memory fits at KERNBASE, the arrays and the stacks each
fit in the page table they are given, base memory holds the page tables, the boot
data lies below 4 MB. With the constants of `memlayout.h` and `cpu.h`, 31 pages of
environments and a kernel of 300 pages it holds for all memory up to the 256 MB that
KERNBASE leaves room for: base memory has 158 pages, and 68 tables are needed. The
loops (`boot_map_region`, `mem_init_mp`, the walks over the free list) are recursive
functions, one application per iteration.

### CowFork, ForkSpec — page faults and copy-on-write fork

`CowFork` has, per environment, its page mappings (a frame and `r`, `w` or
`cow`), the contents of frames, the two upcall pointers, the place in `fork()` and a
stack of faults: the trap frames on the exception stack, the word at which each
begins and the place in `pgfault()` it belongs to. The kernel computes that word
(`FrameTop`: one is left free below a nested frame) and checks it, and the return pushes
on whatever stack the trap came from; how deep faults nest is not assumed. Every system call of `fork`, `duppage` and `pgfault` is
a step; so are the kernel's `page_fault_handler`, the return through
`_pgfault_upcall` (whose push onto the interrupted stack may fault again), the
stores of the program (`write`, then `write_again` when a fault has been
served), the pushes of library code on its own stack (`push_fault`), and the
destruction of an environment by another. `fork_nomem`, `pgfault_alloc` and
`fork_exofork` fail when frames run out; a parent that panics half way leaves its
embryo.

`ForkSpec` is the promise: an array of memories; fork copies one, a write changes
one. `ForkIsolates` states that CowFork implements it, with the memory of `e`
mapped to what its page mappings lead to, and dead as long as `e` has not been
released by its parent.

### Pipe — descriptors and pipes

Per environment and descriptor the frame of the `struct Fd` and of the data page,
and whether each is copy-on-write; per frame its contents; per environment the
library call it is in. `pipe`, `close` and `dup` take one step per system call.
`_pipeisclosed` takes two, one for each `pageref`, and looks at `env_runs` in
between (`switched`: some other environment has run since). `fork` is CowFork's as
far as these pages go: `sys_exofork`, then `duppage` for one page after the other in
the order of their addresses, descriptor pages before data pages, all copy-on-write,
`PTE_SHARE` or not; it may panic, and leaves a half-built child then. The order
matters: it is the one that `dup` avoids. Between the two kinds of page an
environment that asks finds equal counts although the other end is open, so
`ClosedIsReal` names that window (`HalfForked`), and `ClosedDuringFork`, without it, is
false (`Pipe_fork.cfg`). A store into
a copy-on-write ring takes a new frame, and after it the two environments have
two pipes. That is the behaviour of this `duppage`, although
`user/testpteshare.c` expects descriptors to stay shared; the properties about
ends are therefore about pipes that no store has split (`Unsplit`). A read or write
that waits tests its condition and takes the first count in one step. No
interleaving is lost: a ring that two environments map is copy-on-write in both
(`CowShared` in `Pipe_proofs`), so nobody else's store can change the ring in
between, and the scheduler's part is `switched`.

### FsServer, FsBlocks, MCFileSystem — the file system

`FsServer` is `serv.c` with its clients: `opentab[]` with file ids of IDMOD values and
page counts, requests that travel by IPC with the client's retry loop
(`ipc_send` fires when the server listens; a failed try changes nothing), replies,
and the unmap that ends a close (`fd_close`). Clients open, read, truncate, close, sync,
fork (their descriptor pages and their `fsipcbuf` become copy-on-write), seek (which
makes the `struct Fd` private, so that the server believes the file is closed) and are
destroyed at any point. What the code does and one might not expect: an id with the
sign bit set reaches the client as an error; `sync` after a fork panics, because it
sends a page that is still copy-on-write; a client that dies before its answer, or has
no memory for the page table of its new descriptor, makes the server panic;
`serve_read` returns 0; `devfile_write` is a panic.

`FsBlocks` is `fs.c` over `bc.c`. Operations are functions from file systems to file
systems; `images` collects the states of the disk that the `flush_block` calls of
one operation leave, and a crash (`Do`) picks any of them. The disk begins as
`fsformat.c` makes it. `alloc_block` clears the whole bitmap word; the indirect
block is an array of bytes, since `file_block_walk` adds an entry number to a
`void *` (fs.c:161): entry k overlaps the next three, whereas `finishfile` of
fsformat writes 32-bit entries. A number that is read there is computed from its four
bytes, and `free_block`, which does not compare it with `s_nblocks` (fs.c:46), sets a
bit in the block that the number leads to (`BitBlock`): beyond the end of the disk but
in the bitmap, harmless; in a block that is not on the disk, or free and not in the
cache, a panic of `bc_pgfault`; in any other block, damage. `ok` is FALSE from a panic
or from such damage on, and the model does not follow the server further. `Bad` is a
number as text gives it, when a block of text serves as an indirect block.

`check_bc`, which smashes the super block and
repairs it at every boot, is part of the model, and a crash inside it is the one
that leaves a disk that cannot be mounted; `CrashIsSafe` excludes it by name
(`Smashed`). What recovery would do with stale indirect entries that a truncation
leaves on the disk (fs.c:455) is not claimed.

The two layers meet only in calls that succeed or fail, so `MCFileSystem` runs them
side by side, a behaviour being about one of them.

### Console, MCMachine

`Console` follows a character from the key to the line: scan codes with the E0
prefix, the static shift state, with two Shift and two Ctrl keys that share a flag each, the
ring, `readline`, the echo on the screen.
The interrupts have no gate in this kernel, so that devices are polled when
somebody reads. `typed` is an observer that computes from the keys what was meant: a
modifier counts from the press of one of its two keys to the release of either
(`shiftcode` gives both the same flag, so releasing one ends the other, which is still
down). `overrun` marks the wrap of the ring, which the code does not
notice. `MCMachine` runs it beside BootMem.

### Shell, Sieve, PingPong, MCUnix — the Unix programs

The Unix kernel is external: processes with descriptors, exit codes and process
groups, `waitpid`, bounded pipes, signals, the terminal. `Shell` has the loop of the
shell, `parse_line` over tokens, built-ins, foreground and background commands, the
SIGCHLD handler (inherited by pipeline processes, which run `exec_pipeline`), and
programs that read their input to the end, or do not read it, and write a number of
blocks. The shell gives every command a group of its own and never gives it the
terminal (no `tcsetpgrp`): a command that reads the terminal, a plain `cat`, is stopped
by SIGTTIN, its parent gets a SIGCHLD, and the `waitpid` without WUNTRACED waits on.
Forks, pipes and `exec_cmd` may fail, and every process may be killed anywhere. Several behaviours
of the code are in the model and excluded from properties by their own name:
after a failed fork the shell waits for any child (`sh.p = NoPid`); a child that is
killed before its `setpgid` may be taken by the handler
(`proc[sh.p].grp = sh.p`); a line with only `|` dereferences NULL (`crash`).

`Sieve` is the chain of `primes.c`, `PingPong` the exchange of `pingpong.c`.

## Runs

| Run | Expected | What it shows |
|---|---|---|
| `sched_procs` | pass | 2 processors, 3 slots, 2 boot-time environments, 2 generations; fork, release, destroy, yield, exceptions, breakpoints, children that block in `sys_ipc_recv`, die there and leave their slot to the next. Lock, table, free list, monitor, zombies and embryos are consistent; no panic. |
| `sched_ipc` | pass | the same with 3 boot-time environments, fork and IPC, messages with pages, failing sends, exits, key presses that panic the kernel. |
| `sched_live` | pass | fairness: every processor gets to user mode or to the `hlt` loop, zombies are reaped, round robin reaches every slot but the last unless environments exit for ever. |
| `sched_last_slot` | violation | the environment in the last slot starves (`sched.c:18`). |
| `pages_spaces` | pass | 2 spaces of 2 tables with 2 entries, 5 pages: every order of maps, remaps, unmaps, frees and failures for want of memory. |
| `pages_unmapped` | pass | calls on unmapped addresses damage page 0 only. |
| `pages_page0` | violation | `page_lookup` finds page 0 where nothing is mapped (`pmap.c:568`). |
| `cow_fork` | pass | 3 environments, 1 data page, text, stack and exception stack, 7 frames (too few for all to copy everything). Refinement of ForkSpec, private writable frames, trap frames that nest in 40 words without touching each other or the word of the return, no fork or fault without end. |
| `pipes` | pass | 3 environments, 3 descriptors each, 4 frames, a ring of 1 byte, reads and writes of up to 2, 5 library calls in all: FIFO, no false end of file but while a fork is half done, none missed, no half descriptor. |
| `file_system` | pass | server: 2 clients with a descriptor each, 2 paths, 1 slot, 6 ids, 3 opens; blocks: 12 blocks, 2 direct and 3 indirect entries, 2-bit bitmap words, a bitmap block of the real 32768 bits; files of 0 and 5 blocks. |
| `unix` | pass | 4 processes and 2 command lines out of 7 kinds, programs that write one or two blocks into pipes of one and read the terminal or not; the sieve up to 12 with pipes of 2; the ping-pong. |
| `machine` | pass | 4 key presses out of 8 keys, a ring of 3, a screen of 2 by 2; 12 amounts of memory around every limit of the boot. |

Six configurations are not among the runs and can be checked by hand:
`EnvSched_double_destroy.cfg` (`Raw`: a second destroy frees a running
environment, `env.c:471`), `EnvSched_two_cpus.cfg` (`Raw`: set_status of a running
child starts it twice, `sched.c:26`), `PageMap_refwrap.cfg` (module MCPageMap: a
16-bit `pp_ref`, here `REFMOD = 3`, wraps and a mapped page is freed, `pmap.c:423`),
`Pipe_fork.cfg` (a fork hands on the `struct Fd` before the ring, and an environment that
looks in between finds the pipe closed, on one processor, `fork.c:160`),
`MCFileSystem_overlap.cfg` (a truncation of a file with two indirect entries frees a
number made of both and panics or damages a block, `fs.c:161`) and `Pipe_smp.cfg` (with several processors the second look at `env_runs` does not
notice a close on another one, and `pipeisclosed` answers 1 while a writer is
open, `pipe.c:85`) end in the violation they are named for.
`MCFileSystem_large.cfg` passes: the safety properties with two slots and two
descriptors per client, in a million states.

Bounds. Two processors show every race of the lock protocol, whose steps
involve a processor and the lock only; three slots let a parent, its child and
a stranger interact while a slot is reused; two generations let an identifier
be stale and wrap. The theorems hold for all values of the constants that the
assumptions admit, which is the real answer to whether the bounds of the runs
they cover are enough. Five pages let two spaces hold a directory each, a
table each and a shared page, or one space both tables, and are few enough for
every allocation to fail in some state. `pages_unmapped` takes `REFMOD = 4`,
more than the three references a page can have there, so that the count of page
0 wraps and the others' do not.

Three environments are needed in CowFork for a page that is shared over two
generations; one data page is enough because pages do not interact except on
the stack and the exception stack, which are there besides. A ring of one byte is
both full and empty after every step, so a write of two waits; the false end of file
during a fork takes one environment with both ends that forks and one that asks, and
five calls let them get there. One slot of the open-file
table is reused in every way, and is exhausted when both clients want it; ids
begin to be negative with the third open. Twelve blocks run out; a bitmap word of
two bits shows what clearing a word does to a neighbour; three indirect entries
overlap, and the numbers made of two of them reach beyond the bitmap. A screen of two lines scrolls at every line, and the cursor begins at its
last place. A pipeline of three stages has a first, a middle and a last one, and
four processes are its process and the stages.

Fairness (`FairSpec`). Every processor keeps executing (WF on each of its
steps): the processors are independent hardware. A waiting processor gets the
lock if it is free again and again (SF on `spin_lock`): the `pause` in
`unlock_kernel` is there for that, and nothing stronger is guaranteed by the
test-and-set loop. The timer preempts (SF on `sys_yield`): the local APIC
interrupts user mode and the `hlt` loop periodically, so a processor that keeps
entering the kernel enters it by the timer infinitely often.
In CowFork and Pipe every environment gets to run (WF on its steps), which is what
NoStarvation gives them. In Pipe an environment also gets a time slice long
enough for the few instructions of `_pipeisclosed` again and again (SF): without
it `_pipeisclosed` itself may spin for ever. The file server and its clients run (WF, each): a
client that retries finds the server listening only if no other client is always
there first, and nothing in `sched_yield` or `ipc_send` sees to that, so a strong fairness
would be more than the code gives. For the Unix programs it is enough that the
kernel does not stop as long as a process can run (one WF), because their
behaviours are finite. Nobody has to type, nobody has to die.

The liveness properties say what they leave out. A user panic executes `int3`, and
the breakpoint stops the machine (`EnvSched`'s `breakpoint`): `ForkAndFaultsEnd`,
`EndIsNoticed` and `CallsReturn` end there (`Panicked`, `stuck`), and `sched_live` has no
breakpoints. `CallsReturn` is about requests that the server has taken, and about those
that are being sent unless another client is sending again and again: that is the
starvation which the retry loop of `ipc_send` allows (`ipc.c:50`). `CommandsEnd` names the
two deadlocks that the shell really has: a command that reads the terminal is stopped
for ever (`StoppedAtTerminal`), and a stage that writes more than a pipe holds waits for a
reader that is started only after it (`PipeIsFull`; here `CAP = 1` and a program may
write two). What is left is that no other reader waits for an end of file that does not
come, and that no exit is missed. `ctrl_d`, the end of input a user types for a
background program, is not fair. `SievePrintsPrimes` and `BallComesBack` leave out failed forks and killed
processes: there the programs do hang, since each process holds both ends of the
pipe it reads.

`NoStarvation` excludes two behaviours that the code really has: the last slot
(`sched_last_slot`), and environments exiting for ever. After an exit
`curenv` is NULL and the search restarts at slot 0, so that a low slot that is
forked and exits again and again can starve a higher one, although the comment
at `sched.c:18` promises "circular fashion starting just after the env this CPU
was last running".

## Proofs

A theorem holds for every value of the constants that satisfies the module's
ASSUME; what else it assumes is in its statement. The pattern is the same
everywhere: an inductive invariant `IInv`, one lemma per action that it is kept,
and the property from it (an invariant because IInv implies it, an action
property because a step from IInv can do nothing else). Seldom is a property
inductive alone, and what has to be added is the argument for the code.

### EnvSched_proofs — for `Raw = FALSE`

* `TypeCorrect`, `KernelLockTheorem`, `OneCpuTheorem`, `FreeListTheorem`,
  `BlockedTheorem`, `MonitorTheorem`: TypeOK, LockProtectsKernel, RunsOnOneCpu,
  FreeListExact, RecvMeansBlocked and MonitorMeansIdle are invariants;
* `NoPanicTheorem`: so is NoPanic, if no device interrupts arrive;
* `ZombieTheorem`, `EmbryoTheorem`, `MessageTheorem`, `PageTheorem`: the action
  properties ZombieFreedByItsCpu, EmbryoReleasedByParent, MessageStable and
  PageOnlyIfAsked.

`IInv` is the conjunction of the invariants with `CpuShape` (what a phase says of
`curenv` and `cpu_status`; in particular a processor is in the `hlt` loop exactly when
`cpu_status` is HALTED, which is why `trap()` locks exactly when it must), `BootInv`
(nothing runs before `i386_init` is done) and `PanicInv`. They need each other: that a
receiver may be made RUNNABLE rests on RecvMeansBlocked and RunsOnOneCpu (it is
blocked, hence on no processor); that `sched_halt` may enter the monitor rests on
RunsOnOneCpu and CpuShape (an environment on another processor is RUNNING or
DYING); that no handler meets a foreign status rests on the lock.

The argument follows the code. `SchedPre` is what a handler must have established
when it calls the scheduler, `SchedPost` what leaving the kernel then gives;
`EnvRunLemma`, `SchedHaltLemma`, `SchedYieldLemma` and `TrapReturnLemma` lead from one to the
other once for all handlers. Each handler has a lemma that establishes `SchedPre`
and the table's part of the invariant, and `Conclude` puts the two halves together.

### PageMap_proofs — while no page collects REFMOD - 1 references

* `MemoryTypes`, `FreeTheorem` (FreeExact), `ReadOnlyTheorem` (ReadOnlyStays);
* `RefTheorem` (RefExact) and `TablesTheorem` (TablesArePrivate), if calls do not name
  unmapped addresses (`~Unmapped`).

The hypothesis `[]RefsBelow` is needed: with 65535 references `pp_ref` wraps
(`PageMap_refwrap.cfg`). `~Unmapped` is needed too: `page_lookup` finds page 0 where nothing
is mapped (`pages_page0`).

`IInv` is `Account` (a count is the number of sites that refer to the page, and a page
is free exactly if nothing does), `Rooted` (an entry of a space leads from its
directory), and, if `~Unmapped`, `Clean` (nothing refers to page 0) and `Private` (a page
that serves as a directory or table has one site). `Account` has two parameters, the pages a
function holds in its hands at the moment: `page_insert` counts before it
stores, `page_remove` clears before it uncounts, `pgdir_walk` allocates a table before
it is entered. With them every operator over memories has a lemma of its own,
and a system call is the composition of those. The counting is cardinality: a
site more or less is an element more or less of `Uses(p)`.

### CowFork_proofs — when the program fits in memory

* `CowTypes`, `PrivateTheorem` (WritableIsPrivate), `TrapFramesTheorem` (TrapFramesIntact);
* `IsolationTheorem` (ForkIsolates): every behaviour implements ForkSpec, for any
  number of environments that fork, fault, write and die at the same time.

`IInv` adds, per environment: the place in `fork()` and what is embryo (`ForkShape`), what
the loop has done so far (`LoopShape`), the moment between the two calls of `duppage`
when the child has the page already (`MarkShape`), what a page table entry may hold
(`PteShape`), the trap frames (`FaultShape`: there are never more than two, because the
exception stack is never copy-on-write and `pgfault` writes only to it and to the page it has
just mapped; a consequence of the code, and no guard of the model), and that PFTEMP holds a copy until it takes the
page's place (`CopyInv`); and that an embryo has one parent. The refinement then
goes by cases: a step changes no memory of ForkSpec, except the last one of
`fork` (the copy is complete, by LoopShape), a store that reaches a writable
frame (private, by WritableIsPrivate, so nobody else sees it), and a death.
`page_insert` of PFTEMP over the page changes the frame but not the contents.

### Pipe_proofs — for finitely many environments

* `TypeTheorem` (TypeOK), `HalfTheorem` (NoHalfDescriptor), `FifoTheorem` (RingIsFifo);
* `ClosedTheorem` (ClosedIsReal), on one processor (`~Smp`; with several it is false,
  `Pipe_smp.cfg`) and but for the window of a fork (`HalfForked`; without that it is false
  on one processor too, `Pipe_fork.cfg`).

`IInv` says what kind of page a descriptor leads to (`Kinds`), that every ring is a
queue (`AllFifo`), which descriptors are half there in which call (`Half`), what a call
knows about its own descriptor (`Knows`), that nobody maps a page that `pipe()` is
still setting up (`Fresh`), that shared rings are copy-on-write (`CowShared`, but in an
environment whose fork goes on), that a child under construction has pages of one parent
only and no others (`Building`, `Unborn`), and that
between the halves of `_pipeisclosed` the ring is as it was and the first count is
current unless somebody else has run (`Waiting`). `StepLemma` states
once what a step leaves alone, so that an action has to look at the stepping
environment only; `FamilyLemma` does the same for a fork, which changes two. The end of a
pipe: whoever maps the descriptor page maps the ring as well (Half, Fresh, Unsplit, and
no half-done fork), and the open other end maps the
ring and not this descriptor page; so the users of one page are a proper subset of the
users of the other, the counts differ (`CountsDiffer`), and `_pipeisclosed` does not answer 1.

### FsServer_proofs — for finitely many clients, and MaxOpens opens

* `OpenTheorem` (OpenStaysOpen), `OwnFileTheorem` (OwnFileOnly).

The bound `MaxOpens < IDMOD \div MAXOPEN` is the range in which no file id comes up
twice; with 32-bit ids and 1024 slots that is four million opens. `IInv` says that a
slot has had one id per open served on it (`IdsCounted`), that whoever holds an id got it
from a slot, which has the holder's file as long as it has the id (`Holders`), that the
page a client shares with its slot carries the slot's id and file (`SharedOK`), and what
the client whose request is served waits for (`Waiting`).

### FsBlocks_proofs — for disks of up to 256 blocks, bitmap words, files and directories of any size

* `BlocksInvariant`: the inductive invariant `BlocksInv`;
* `OwnedOnceAlways` (BlocksOwnedOnce), `CrashSafeAlways` (CrashIsSafe).

A block number takes one byte of an indirect block here (`NBLOCKS \in 5..256`), so that
whatever two overlapping entries make together is no block's number (`EntryVal`). That is
a restriction: the image the Makefrag builds has 1024 blocks (fs/Makefrag:66), where a
number made of two entries may be that of another file's block, and BlocksOwnedOnce would
not hold. The theorems speak of the time up to a panic or to a bit that `free_block` sets
where no bitmap is (`ok`). The other bound is `RootFits`: the root directory keeps to its
direct blocks, as `create_file` is guarded. `BlocksInv` is `Safe(fs, {})` with every image a `GoodDisk`.
`Safe(s, X)` says three things of a file system in the middle of an operation. The cache is
`Good`: every pointer that is not 0 holds a block that is in use and that no other pointer
holds, the root directory's blocks are directories and no other block is one, an indirect
block is one. The disk is `Below` the cache: it may lack pointers, but it has no other ones,
and what is free on it is free in the cache, but for the files in X, which are being
truncated: their blocks are freed before the file is written. And every disk since the
operation began is good. Then every function from file systems to file systems has a lemma
(`alloc_block`, the one that fills a place, `file_block_walk`, `free_block`, `flush_block`, ...),
and an operation is their composition. The order of the writes is where the argument
bites: a bitmap is flushed before a block is entered, and a truncated file's pointers
vanish from the disk after its blocks have been freed on it, which is harmless only
because nothing is allocated in between. The loops (`file_truncate_blocks`, `file_write`,
`file_flush`, `file_read`) are recursive functions in the model; `LoopRuns` shows, by
well-founded induction over the numbers, that such a function has the values its rounds
give it, and `LoopKeeps` that what every round keeps holds at the end.

### Machine_proofs, the console — for a screen, a ring, a line and a keyboard controller of any size

* `EchoTheorem` (EchoMatches). `IInv` is that the cursor is on the screen and that
  what stands before it is the line. Nothing about devices, shift state or ring is
  needed: `ReadlineLemma` holds for whatever character `cons_getc` finds.
* `TypedTheorem` (ReadIsTyped). `RInv` adds to the property the moment at which a key
  gets its meaning: `Drain(shift, kbd).shift = Modifiers(held)`, once the scan codes that
  wait have been read the static `shift` is what presses and releases so far, of either key
of a modifier, have left. So a press
  appends to the waiting characters what it means now (`KeyProc`, with and without the E0
  prefix), however late it is read. The ring is a queue as long as it has room (`PutNext`,
  `GetNext`, over the places counted modulo its size), and what came over the serial port
  drops out of both sides (`KeyedCat`). The loops of `cons_intr` are treated as in FsBlocks.

### Machine_proofs, the boot — for any amount of memory, of environments and of processors

`BootTheorem` (BootMemorySafe), from `BootMemAssumption` alone. What could go wrong is
that `pgdir_walk` finds no page for a table, or one above 4 MB that cannot be touched yet:
`boot_map_region` would leave out a mapping in silence, or the kernel fault. `BInv` has the
count that excludes both, in `MapOK`: the free list begins with at least as many pages below
4 MB as the directory has empty entries (`LowFirst`). It holds first after
`check_page_free_list`, because the pages of base memory are more than the tables
(`LongEnough`, `CheckedList`); the checks of the allocator turn the list without losing any
(`TurnedLemma`); and every table takes one page and fills one entry (`WalkLemma`,
`LargeLemma`, `Fewer`). So a region is mapped as a whole and nothing else is changed
(`RegionLemma`), the regions lie apart (`SlotFacts`, `GapFacts`, `Layout`), and what has been
mapped stays mapped (`Done`, one step of `mem_init` each). `Reserved` relates the free list
to `nextfree`: boot data lies end to end (`Allocated`, with `InfoFacts` for the rounding of
the `pages` array). The proof shows a little more than the property: `check_kern_pgdir` finds
nothing wrong whether or not there is memory left (`CheckFact`).

### Shell_proofs

`StatusTheorem` (StatusIsOwn), for any number of processes, pipes and lines. `IInv` says what
the process is that the shell waits for (`Held`): its own child, dead, alive or stopped, in
the shell's group or in its own, or collected by the handler while it was in the shell's
group. `Moves` is what all other steps may do to a process; the handler and the
`waitpid` of a pipeline process are the interesting cases.

### Only model-checked

* Liveness, which is out of the prover's reach: NoStarvation, ZombiesAreReaped, BootCompletes,
  ForkAndFaultsEnd, EndIsNoticed, CallsReturn, JobsAreReaped, CommandsEnd, SievePrintsPrimes,
  BallComesBack.

Every invariant of the passing runs and every property that a single step can break is stated by a
theorem.

## Not modelled

* Disk driver and interrupt controllers, clock, multiprocessor tables
  (`ide.c`, `lapic.c`, `picirq.c`, `kclock.c`, `mpconfig.c`): port I/O. What the interrupts do
  to the kernel is part of EnvSched.
* The kernel monitor, debug information, formatted output, strings: text.
* The boot loader and the entry assembly: straight-line initialisation. The
  larger part of `entrypgdir.c` is a table inside `#if 0`.
* `spawn.c`: the child needs `sys_env_set_trapframe`, which the kernel does not dispatch
  (`syscall()` returns `-E_INVAL`, syscall.c:432), so that `spawn` panics.
  `sh.c` and `init.c` in `user/` rest on it; the other user programs are tests whose
  races are behaviours of EnvSched, CowFork and Pipe.
* The TLB: a mapping changed by one processor while another runs the same
  address space (`pmap.c:626`).
* `xargs.c` and `find.c`: one process, in sequence.
* After a crash of the disk, the next boot: `CrashIsSafe` says what it finds.
* A disk of more than 256 blocks, and what the server does after it has damaged a block.
* The contents of stack pages: what the child of a fork sees of its parent's pushes.

## Plan

What is left, in this order:

1. Sieve: the safety half of SievePrintsPrimes (only primes are printed, in
   order).
2. Tlb: stale translations on another processor, composed with EnvSched's rule
   that an address space is in use by one processor.
