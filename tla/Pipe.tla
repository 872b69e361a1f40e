-------------------------------- MODULE Pipe --------------------------------
(***************************************************************************)
(* Descriptors and pipes of the user library: tps/lib/fd.c, lib/pipe.c,    *)
(* lib/pageref.c and lib/exit.c.  A descriptor is a page of its own (the   *)
(* struct Fd) and a data page that all ends of a pipe map; who is still    *)
(* there is found out by comparing how often the two pages are mapped.     *)
(* A step is one system call or one access to the shared pages.  fork is   *)
(* the one of module CowFork, page by page: it does not know PTE_SHARE, so *)
(* descriptor and data pages become copy-on-write in both environments.    *)
(***************************************************************************)
EXTENDS Naturals, Sequences, FiniteSets, FiniteSetsExt

CONSTANTS
  Envs, Root,       \* the environments, the one that is there at the start
  MAXFD,            \* descriptors of an environment
  NFrames,          \* physical pages there are
  PIPEBUFSIZ,       \* bytes in the ring of a pipe
  MaxCount,         \* the largest n given to read and write
  MaxPos,           \* bound: bytes that go through one pipe
  MaxCalls,         \* bound: library calls made, by all together
  Smp               \* more than one processor executes environments

ASSUME PipeAssumption ==
  /\ Root \in Envs /\ IsFiniteSet(Envs)
  /\ {MAXFD, NFrames, PIPEBUFSIZ, MaxCount, MaxPos, MaxCalls} \subseteq Nat
  /\ PIPEBUFSIZ > 0 /\ Smp \in BOOLEAN

Fds == 0..(MAXFD - 1)
Frames == 1..NFrames

NoPage == [frame |-> 0, cow |-> FALSE]
Page(f) == [frame |-> f, cow |-> FALSE]
Mapping == [frame : Frames, cow : BOOLEAN] \cup {NoPage}

\* struct Fd: only the mode matters.  struct Pipe: the bytes that go through
\* it are numbered, so that a byte tells where it belongs.
O_RDONLY == "rd"
O_WRONLY == "wr"
Empty == [kind |-> "none"]
NewFd == [kind |-> "fd", mode |-> "unset"]
NewPipe == [kind |-> "pipe", rpos |-> 0, wpos |-> 0,
            buf |-> [k \in 0..(PIPEBUFSIZ - 1) |-> 0]]

VARIABLES
  live,       \* the environments that exist
  fdp,        \* fdp[e][i]: the mapping of the descriptor page INDEX2FD(i)
  datap,      \* datap[e][i]: the mapping of the data page INDEX2DATA(i)
  page,       \* the contents of the frames
  call,       \* the library call each environment is in
  switched,   \* thisenv->env_runs has changed since _pipeisclosed read it
  calls       \* calls made

vars == <<live, fdp, datap, page, call, switched, calls>>

Idle == [op |-> "idle"]
Embryo == [op |-> "embryo"]      \* a child that its fork has not started yet
Ops == {"pipe1", "pipe2", "pipe3", "unmap_fd", "unmap_data",
        "dup_data", "dup_fd", "read", "write", "pipeisclosed", "fork", "embryo",
        "exit", "stuck"}

FreeFrames ==
  {f \in Frames : \A e \in Envs, i \in Fds : fdp[e][i].frame # f /\ datap[e][i].frame # f}
NextFrame == Min(FreeFrames)

TypeOK ==
  /\ live \subseteq Envs
  /\ fdp \in [Envs -> [Fds -> Mapping]] /\ datap \in [Envs -> [Fds -> Mapping]]
  /\ \A f \in Frames :
        page[f].kind = "pipe" => page[f].wpos \in 0..MaxPos
  /\ \A e \in Envs : call[e].op \in Ops \cup {"idle", "closed"}
  /\ \A e \in Envs, i \in Fds :
        /\ fdp[e][i] # NoPage => page[fdp[e][i].frame].kind = "fd"
        /\ datap[e][i] # NoPage => page[datap[e][i].frame].kind = "pipe"

-----------------------------------------------------------------------------
(* Pages *)

Return(e) == call' = [call EXCEPT ![e] = Idle]
Goto(e, c) == call' = [call EXCEPT ![e] = c]

\* Between the two halves of _pipeisclosed.
Comparing(e) ==
  call[e].op \in {"read", "write", "pipeisclosed"} /\ call[e].ref # 0

\* One processor: if somebody else runs now, I have been switched out and
\* shall find another env_runs.  A step on another processor need not change
\* it.
Ran(e) ==
  \E sw \in IF Smp THEN BOOLEAN ELSE {TRUE} :
    switched' = [o \in Envs |-> o # e /\ Comparing(o) /\ (switched[o] \/ sw)]

\* pageref: pp_ref of the frame behind an address.
pageref(m) ==
  IF m = NoPage THEN 0
  ELSE Cardinality({x \in Envs \X Fds : fdp[x[1]][x[2]].frame = m.frame})
       + Cardinality({x \in Envs \X Fds : datap[x[1]][x[2]].frame = m.frame})

\* Nobody reads a free frame: the model forgets what is in it.
Forget(m) ==
  IF pageref(m) = 1 THEN [page EXCEPT ![m.frame] = Empty] ELSE page

\* fd_lookup, for a number in range.
fd_lookup(e, i) == fdp[e][i] # NoPage

\* fd_alloc: the smallest unmapped descriptor; MAXFD is -E_MAX_OPEN.
fd_alloc(e) == Min({i \in Fds : ~fd_lookup(e, i)} \cup {MAXFD})

Mode(e, i) == page[fdp[e][i].frame].mode
Ring(e, i) == page[datap[e][i].frame]

-----------------------------------------------------------------------------
(* pipe() *)

\* fd0, fd1 and the data page.  Each allocation may find no memory; the pages
\* allocated until then are unmapped again (err1, err2).  Nobody else knows
\* them, so this is one step.
Undo(e, c) ==
  /\ fdp' = [fdp EXCEPT ![e] = [i \in Fds |->
               IF i \in {c.fd, c.to} THEN NoPage ELSE @[i]]]
  /\ page' = [f \in Frames |->
               IF f \in {fdp[e][c.fd].frame, fdp[e][c.to].frame} THEN Empty
               ELSE page[f]]
  /\ Return(e)
  /\ UNCHANGED <<live, datap>>

pipe_start(e) ==
  /\ call[e] = Idle
  /\ fd_alloc(e) # MAXFD /\ FreeFrames # {}
  /\ fdp' = [fdp EXCEPT ![e][fd_alloc(e)] = Page(NextFrame)]
  /\ page' = [page EXCEPT ![NextFrame] = NewFd]
  /\ Goto(e, [op |-> "pipe1", fd |-> fd_alloc(e), to |-> fd_alloc(e)])
  /\ UNCHANGED <<live, datap>>

\* Mutant of pipe_fd1: goto err instead of err1.
pipe_fd1_err(e) ==
  /\ call[e].op = "pipe1"
  /\ IF fd_alloc(e) = MAXFD \/ FreeFrames = {}
     THEN Return(e) /\ UNCHANGED <<live, fdp, datap, page>>
     ELSE /\ fdp' = [fdp EXCEPT ![e][fd_alloc(e)] = Page(NextFrame)]
          /\ page' = [page EXCEPT ![NextFrame] = NewFd]
          /\ Goto(e, [call[e] EXCEPT !.op = "pipe2", !.to = fd_alloc(e)])
          /\ UNCHANGED <<live, datap>>

pipe_fd1(e) ==
  /\ call[e].op = "pipe1"
  /\ IF fd_alloc(e) = MAXFD \/ FreeFrames = {}
     THEN Undo(e, call[e])
     ELSE /\ fdp' = [fdp EXCEPT ![e][fd_alloc(e)] = Page(NextFrame)]
          /\ page' = [page EXCEPT ![NextFrame] = NewFd]
          /\ Goto(e, [call[e] EXCEPT !.op = "pipe2", !.to = fd_alloc(e)])
          /\ UNCHANGED <<live, datap>>

pipe_data(e) ==
  /\ call[e].op = "pipe2"
  /\ IF FreeFrames = {} THEN Undo(e, call[e])
     ELSE /\ datap' = [datap EXCEPT ![e][call[e].fd] = Page(NextFrame)]
          /\ page' = [page EXCEPT ![NextFrame] = NewPipe]
          /\ Goto(e, [call[e] EXCEPT !.op = "pipe3"])
          /\ UNCHANGED <<live, fdp>>

\* The second mapping of the data page needs no memory (the page table is
\* there), so it cannot fail; the descriptors get their modes.
pipe_map(e) ==
  LET c == call[e]
  IN /\ c.op = "pipe3"
     /\ datap' = [datap EXCEPT ![e][c.to] = datap[e][c.fd]]
     /\ page' = [page EXCEPT ![fdp[e][c.fd].frame].mode = O_RDONLY,
                             ![fdp[e][c.to].frame].mode = O_WRONLY]
     /\ Return(e)
     /\ UNCHANGED <<live, fdp>>

-----------------------------------------------------------------------------
(* close() and dup() *)

\* The call that close() is part of goes on with what is in then.
close(e, i, then) ==
  IF fd_lookup(e, i) THEN Goto(e, [op |-> "unmap_fd", fd |-> i, then |-> then])
  ELSE Goto(e, then)

close_start(e) ==
  /\ call[e] = Idle
  /\ \E i \in Fds : fd_lookup(e, i) /\ close(e, i, Idle)
  /\ UNCHANGED <<live, fdp, datap, page>>

\* The descriptor page, then the data page.  (fd_close unmaps the descriptor
\* page once more, which changes nothing here.)
devpipe_close(e) ==
  /\ \/ /\ call[e].op = "unmap_fd"
        /\ fdp' = [fdp EXCEPT ![e][call[e].fd] = NoPage]
        /\ page' = Forget(fdp[e][call[e].fd])
        /\ Goto(e, [call[e] EXCEPT !.op = "unmap_data"])
        /\ UNCHANGED datap
     \/ /\ call[e].op = "unmap_data"
        /\ datap' = [datap EXCEPT ![e][call[e].fd] = NoPage]
        /\ page' = Forget(datap[e][call[e].fd])
        /\ Goto(e, call[e].then)
        /\ UNCHANGED fdp
  /\ UNCHANGED live

dup_start(e) ==
  /\ call[e] = Idle
  /\ \E old, new \in Fds :
        /\ fd_lookup(e, old)
        /\ close(e, new, [op |-> "dup_data", fd |-> old, to |-> new])
  /\ UNCHANGED <<live, fdp, datap, page>>

\* Mutant of dup: the descriptor is mapped before its data page.
dup_swapped(e) ==
  LET c == call[e]
  IN /\ \/ /\ c.op = "dup_data"
           /\ fdp' = [fdp EXCEPT ![e][c.to] = fdp[e][c.fd]]
           /\ Goto(e, [c EXCEPT !.op = "dup_fd"])
           /\ UNCHANGED datap
        \/ /\ c.op = "dup_fd"
           /\ datap' = [datap EXCEPT ![e][c.to] = datap[e][c.fd]]
           /\ Return(e)
           /\ UNCHANGED fdp
     /\ UNCHANGED <<live, page>>

\* The data page first, then the descriptor.  With old = new close() has
\* unmapped both, the second map fails and err: finds nothing to unmap.
dup(e) ==
  LET c == call[e]
  IN /\ \/ /\ c.op = "dup_data"
           /\ datap' = [datap EXCEPT ![e][c.to] = datap[e][c.fd]]
           /\ Goto(e, [c EXCEPT !.op = "dup_fd"])
           /\ UNCHANGED fdp
        \/ /\ c.op = "dup_fd"
           /\ fdp' = [fdp EXCEPT ![e][c.to] = fdp[e][c.fd]]
           /\ Return(e)
           /\ UNCHANGED datap
     /\ UNCHANGED <<live, page>>

-----------------------------------------------------------------------------
(* read(), write() and pipeisclosed() *)

\* The checks of read and write; pipeisclosed checks only the descriptor.
io_start(e) ==
  /\ call[e] = Idle
  /\ \E i \in Fds, op \in {"read", "write", "pipeisclosed"}, n \in 1..MaxCount :
        /\ fd_lookup(e, i)
        /\ op = "read" => Mode(e, i) = O_RDONLY
        /\ op = "write" => Mode(e, i) = O_WRONLY
        /\ op = "pipeisclosed" => n = 1
        /\ Goto(e, [op |-> op, fd |-> i, n |-> n, i |-> 0, ref |-> 0])
  /\ UNCHANGED <<live, fdp, datap, page>>

empty(p) == p.rpos = p.wpos
full(p) == p.wpos >= p.rpos + PIPEBUFSIZ

\* The loop that read and write leave when the other ends are gone.
Blocked(e) ==
  LET c == call[e]
  IN \/ c.op = "read" /\ c.i = 0 /\ empty(Ring(e, c.fd))
     \/ c.op = "write" /\ c.i < c.n /\ full(Ring(e, c.fd))
     \/ c.op = "pipeisclosed"

\* A store to a data page.  If it is copy-on-write, this mapping, and only
\* this one, gets a copy (module CowFork); without memory pgfault panics.
Store(e, i, p) ==
  IF ~datap[e][i].cow
  THEN page' = [page EXCEPT ![datap[e][i].frame] = p] /\ UNCHANGED datap
  ELSE /\ page' = [Forget(datap[e][i]) EXCEPT ![NextFrame] = p]
       /\ datap' = [datap EXCEPT ![e][i] = Page(NextFrame)]
CanStore(e, i) == ~datap[e][i].cow \/ FreeFrames # {}

\* One byte is taken.
devpipe_read(e) ==
  LET c == call[e]
      p == Ring(e, c.fd)
  IN /\ c.op = "read" /\ c.i < c.n /\ ~empty(p) /\ CanStore(e, c.fd)
     /\ Store(e, c.fd, [p EXCEPT !.rpos = @ + 1])
     /\ Goto(e, [c EXCEPT !.i = @ + 1])
     /\ UNCHANGED <<live, fdp>>

\* Mutant of devpipe_write: one byte too many.
devpipe_write_over(e) ==
  LET c == call[e]
      p == Ring(e, c.fd)
  IN /\ c.op = "write" /\ c.i < c.n /\ CanStore(e, c.fd)
     /\ p.wpos <= p.rpos + PIPEBUFSIZ /\ p.wpos < MaxPos
     /\ Store(e, c.fd, [p EXCEPT !.buf[p.wpos % PIPEBUFSIZ] = p.wpos + 1,
                                 !.wpos = @ + 1])
     /\ Goto(e, [c EXCEPT !.i = @ + 1])
     /\ UNCHANGED <<live, fdp>>

\* One byte is stored.
devpipe_write(e) ==
  LET c == call[e]
      p == Ring(e, c.fd)
  IN /\ c.op = "write" /\ c.i < c.n /\ ~full(p) /\ CanStore(e, c.fd)
     /\ p.wpos < MaxPos
     /\ Store(e, c.fd, [p EXCEPT !.buf[p.wpos % PIPEBUFSIZ] = p.wpos + 1,
                                 !.wpos = @ + 1])
     /\ Goto(e, [c EXCEPT !.i = @ + 1])
     /\ UNCHANGED <<live, fdp>>

\* All n bytes, or the bytes that are there.
io_return(e) ==
  LET c == call[e]
  IN /\ c.op \in {"read", "write"}
     /\ c.i = c.n \/ (c.op = "read" /\ c.i > 0 /\ empty(Ring(e, c.fd)))
     /\ Return(e)
     /\ UNCHANGED <<live, fdp, datap, page>>

\* The library panics in the page fault handler: the environment is lost to
\* everybody, with its descriptors open.
io_nomem(e) ==
  LET c == call[e]
  IN /\ c.op \in {"read", "write"} /\ c.i < c.n /\ ~CanStore(e, c.fd)
     /\ IF c.op = "read" THEN ~empty(Ring(e, c.fd)) ELSE ~full(Ring(e, c.fd))
     /\ Goto(e, [op |-> "stuck"])
     /\ UNCHANGED <<live, fdp, datap, page>>

\* _pipeisclosed, first half: env_runs and pageref(fd).
_pipeisclosed_fd(e) ==
  /\ Blocked(e) /\ call[e].ref = 0
  /\ Goto(e, [call[e] EXCEPT !.ref = pageref(fdp[e][call[e].fd])])
  /\ UNCHANGED <<live, fdp, datap, page>>

\* Mutant of _pipeisclosed_data: read and write do not use the answer.
_pipeisclosed_data_ignored(e) ==
  LET c == call[e]
  IN /\ Blocked(e) /\ c.ref # 0
     /\ IF c.op = "pipeisclosed" THEN Return(e) ELSE Goto(e, [c EXCEPT !.ref = 0])
     /\ UNCHANGED <<live, fdp, datap, page>>

\* Second half: pageref(p) and env_runs again.  If it has changed, the loop
\* starts anew; read and write also come back after their sys_yield.
_pipeisclosed_data(e) ==
  LET c == call[e]
  IN /\ Blocked(e) /\ c.ref # 0
     /\ IF switched[e] THEN Goto(e, [c EXCEPT !.ref = 0])
        ELSE IF c.ref = pageref(datap[e][c.fd]) THEN Goto(e, [c EXCEPT !.op = "closed"])
        ELSE IF c.op = "pipeisclosed" THEN Return(e)
        ELSE Goto(e, [c EXCEPT !.ref = 0])
     /\ UNCHANGED <<live, fdp, datap, page>>

\* read and write return 0, pipeisclosed 1.
return_closed(e) ==
  /\ call[e].op = "closed"
  /\ Return(e)
  /\ UNCHANGED <<live, fdp, datap, page>>

-----------------------------------------------------------------------------
(* fork and exit *)

Cow(m) == IF m = NoPage THEN m ELSE [m EXCEPT !.cow = TRUE]

\* sys_exofork; without a free slot fork panics.
fork(e) ==
  /\ call[e] = Idle
  /\ \/ \E c \in Envs \ live :
          /\ call[c] = Idle
          /\ call' = [call EXCEPT ![e] = [op |-> "fork", child |-> c], ![c] = Embryo]
     \/ Goto(e, [op |-> "stuck"])
  /\ UNCHANGED <<live, fdp, datap, page>>

\* The loop of fork over the address space: the descriptor pages lie below
\* the data pages.  A page is one step: the second system call of duppage
\* marks a mapping of e's own, which only e looks at.  The first page needs
\* a page table in the child (one for descriptors and data, 0xD0000000), and
\* without memory fork panics.  At last the child runs.
duppage(e) ==
  LET c == call[e].child
      fds == {i \in Fds : fdp[e][i] # NoPage /\ fdp[c][i] = NoPage}
      datas == {i \in Fds : datap[e][i] # NoPage /\ datap[c][i] = NoPage}
  IN /\ call[e].op = "fork"
     /\ \/ /\ fds # {}
           /\ LET i == Min(fds)
              IN fdp' = [fdp EXCEPT ![e][i] = Cow(fdp[e][i]), ![c][i] = Cow(fdp[e][i])]
           /\ UNCHANGED <<live, datap, call>>
        \/ /\ fds = {} /\ datas # {}
           /\ LET i == Min(datas)
              IN datap' = [datap EXCEPT ![e][i] = Cow(datap[e][i]),
                                        ![c][i] = Cow(datap[e][i])]
           /\ UNCHANGED <<live, fdp, call>>
        \/ /\ fds # {} /\ \A i \in Fds : fdp[c][i] = NoPage
           /\ Goto(e, [op |-> "stuck"])
           /\ UNCHANGED <<live, fdp, datap>>
        \/ /\ fds = {} /\ datas = {}
           /\ live' = live \cup {c}
           /\ call' = [call EXCEPT ![e] = Idle, ![c] = Idle]
           /\ UNCHANGED <<fdp, datap>>
     /\ UNCHANGED page

\* exit: close_all(), then sys_env_destroy.  The slot is not used again.
exit(e) ==
  /\ call[e] = Idle /\ Goto(e, [op |-> "exit", fd |-> 0])
  /\ UNCHANGED <<live, fdp, datap, page>>

exit_close(e) ==
  /\ call[e].op = "exit" /\ call[e].fd < MAXFD
  /\ close(e, call[e].fd, [call[e] EXCEPT !.fd = @ + 1])
  /\ UNCHANGED <<live, fdp, datap, page>>

-----------------------------------------------------------------------------
Init ==
  /\ live = {Root}
  /\ fdp = [e \in Envs |-> [i \in Fds |-> NoPage]]
  /\ datap = [e \in Envs |-> [i \in Fds |-> NoPage]]
  /\ page = [f \in Frames |-> Empty]
  /\ call = [e \in Envs |-> Idle]
  /\ switched = [e \in Envs |-> FALSE]
  /\ calls = 0

\* What the library does of itself once it is called.
Lib(e) ==
  \/ pipe_fd1(e) \/ pipe_data(e) \/ pipe_map(e) \/ devpipe_close(e) \/ dup(e)
  \/ devpipe_read(e) \/ devpipe_write(e) \/ io_return(e) \/ io_nomem(e)
  \/ _pipeisclosed_fd(e) \/ _pipeisclosed_data(e) \/ return_closed(e)
  \/ duppage(e) \/ exit_close(e)

Call(e) ==
  \/ pipe_start(e) \/ close_start(e) \/ dup_start(e) \/ io_start(e)
  \/ fork(e) \/ exit(e)

Next ==
  \E e \in live :
    /\ Ran(e)
    /\ \/ Lib(e) /\ UNCHANGED calls
       \/ calls < MaxCalls /\ calls' = calls + 1 /\ Call(e)

\* Every environment gets to run, and now and then long enough to execute
\* the few instructions of _pipeisclosed without being switched out.
Spec ==
  /\ Init /\ [][Next]_vars
  /\ \A e \in Envs : /\ WF_vars(e \in live /\ Lib(e) /\ Ran(e) /\ UNCHANGED calls)
                     /\ SF_vars(/\ ~switched[e] /\ Ran(e)
                               /\ _pipeisclosed_data(e) /\ UNCHANGED calls)

-----------------------------------------------------------------------------
(* Properties *)

\* An end of the other kind of the pipe that descriptor i of e belongs to.
OtherEnd(e, i) ==
  \E o \in Envs, j \in Fds :
    /\ fdp[o][j] # NoPage
    /\ datap[o][j].frame = datap[e][i].frame
    /\ Mode(o, j) # Mode(e, i)

\* No store after a fork has given one of the descriptors that share the
\* struct Fd a data page of its own.
Unsplit(e, i) ==
  \A o \in Envs, j \in Fds :
    fdp[o][j].frame = fdp[e][i].frame
    => datap[o][j].frame \in {datap[e][i].frame, NoPage.frame}

\* A fork has given its child the struct Fd that e uses, and not yet the ring.
HalfForked(e, i) ==
  \E c \in Envs, j \in Fds :
    /\ call[c] = Embryo
    /\ fdp[c][j].frame = fdp[e][i].frame /\ datap[c][j] = NoPage

\* What pipeisclosed and the end of file of read and write should say: no end
\* of the other kind is open (testpiperace.c, testpiperace2.c: "RACE: pipe
\* appears closed").  False of the code: a fork in another environment raises
\* the count of the struct Fd before that of the ring.
ClosedDuringFork ==
  [][\A e \in live :
       ( /\ call[e].op # "closed" /\ call'[e].op = "closed"
         /\ Unsplit(e, call[e].fd) )
       => ~OtherEnd(e, call[e].fd)]_vars

\* What holds of the code: but for such a fork, the order of the unmaps in
\* close, of the maps in dup and the second look at env_runs keep the counts
\* apart while an end of the other kind is open.
ClosedIsReal ==
  [][\A e \in live :
       ( /\ call[e].op # "closed" /\ call'[e].op = "closed"
         /\ Unsplit(e, call[e].fd) /\ ~HalfForked(e, call[e].fd) )
       => ~OtherEnd(e, call[e].fd)]_vars

\* Between two calls of the library a data page is mapped exactly where a
\* descriptor is: no path through pipe, dup, close and exit, out of memory
\* included, leaks a page or leaves half a descriptor.
NoHalfDescriptor ==
  \A e \in Envs : call[e].op \in {"idle", "closed"} =>
    \A i \in Fds : fdp[e][i] = NoPage <=> datap[e][i] = NoPage

\* The ring holds the bytes that were written and not yet read, in order, in
\* every copy of it that a fork and a store have made.
RingIsFifo ==
  \A f \in Frames \ FreeFrames : page[f].kind = "pipe" =>
    /\ page[f].wpos - page[f].rpos \in 0..PIPEBUFSIZ
    /\ \A k \in page[f].rpos..(page[f].wpos - 1) :
          page[f].buf[k % PIPEBUFSIZ] = k + 1

\* Nobody is halfway through a close or a dup of a descriptor of this pipe.
Quiet(e) ==
  \A o \in Envs, j \in Fds :
    datap[o][j].frame = datap[e][call[e].fd].frame => fdp[o][j] # NoPage

\* A read or a write does not wait for ever for an end that nobody has any
\* more, unless somebody goes on for ever to dup and close the pipe, or
\* somebody panics, which executes int3 and stops the machine (EnvSched).
Waits(e) == e \in live /\ call[e].op \in {"read", "write"} /\ Blocked(e)
EndIsNoticed ==
  \A e \in Envs :
    ~<>[](/\ Waits(e) /\ Quiet(e)
          /\ ~OtherEnd(e, call[e].fd) /\ Unsplit(e, call[e].fd)
          /\ \A o \in Envs : call[o].op # "stuck")
=============================================================================
