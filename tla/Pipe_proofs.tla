---------------------------- MODULE Pipe_proofs -----------------------------
(***************************************************************************)
(* Theorems about descriptors and pipes, for any number of environments,   *)
(* descriptors and page frames and any size of the ring: no path through   *)
(* pipe, dup, close and exit leaves half a descriptor, a ring is a queue,  *)
(* and on one processor the two counts of _pipeisclosed do not lie, but    *)
(* for a fork that is half done.                                           *)
(***************************************************************************)
EXTENDS Pipe, FiniteSetTheorems, WellFoundedInduction, TLAPS

\* The contents of a frame.
FdPages == [kind : {"fd"}, mode : {"unset", O_RDONLY, O_WRONLY}]
Rings == [kind : {"pipe"}, rpos : Nat, wpos : 0..MaxPos, buf : [0..(PIPEBUFSIZ - 1) -> Nat]]
Contents == FdPages \cup Rings \cup {Empty}

\* The calls an environment can be in.
Pipes == [op : {"pipe1", "pipe2", "pipe3"}, fd : Fds, to : Fds]
Dups == [op : {"dup_data", "dup_fd"}, fd : Fds, to : Fds]
StartDups == [op : {"dup_data"}, fd : Fds, to : Fds]
Exits == [op : {"exit"}, fd : 0..MAXFD]
Closes == [op : {"unmap_fd", "unmap_data"}, fd : Fds,
           then : {Idle} \cup StartDups \cup Exits]
Ios == [op : {"read", "write", "pipeisclosed", "closed"}, fd : Fds, n : Nat, i : Nat, ref : Nat]
Forks == [op : {"fork"}, child : Envs]
Calls == Pipes \cup Dups \cup Exits \cup Closes \cup Ios \cup Forks
         \cup {Idle, Embryo, [op |-> "stuck"]}

Types ==
  /\ live \subseteq Envs
  /\ fdp \in [Envs -> [Fds -> Mapping]] /\ datap \in [Envs -> [Fds -> Mapping]]
  /\ page \in [Frames -> Contents]
  /\ call \in [Envs -> Calls]
  /\ switched \in [Envs -> BOOLEAN]

\* A descriptor page holds a struct Fd and a data page a ring.
Kinds ==
  \A e \in Envs, i \in Fds :
    /\ fdp[e][i] # NoPage => page[fdp[e][i].frame].kind = "fd"
    /\ datap[e][i] # NoPage => page[datap[e][i].frame].kind = "pipe"

\* A ring holds the bytes that were written and not yet read.
Fifo(p) ==
  /\ p.wpos - p.rpos \in 0..PIPEBUFSIZ
  /\ \A k \in p.rpos..(p.wpos - 1) : p.buf[k % PIPEBUFSIZ] = k + 1
AllFifo == \A f \in Frames : page[f].kind = "pipe" => Fifo(page[f])

\* The descriptors that are half there, during a call c, and what else the
\* call knows about the descriptor pages F and the data pages D of its
\* environment.  A fork leaves its child half built.
OnlyFd(c) ==
  IF c.op \in {"pipe1", "pipe2"} THEN {c.fd, c.to} ELSE IF c.op = "pipe3" THEN {c.to} ELSE {}
OnlyData(c) ==
  IF c.op = "unmap_data" THEN {c.fd}
  ELSE IF c.op = "dup_fd" THEN {c.to} \ {c.fd} ELSE {}
Half(F, D, c) ==
  c.op # "embryo" => \A i \in Fds :
    /\ i \in OnlyFd(c) => F[i] # NoPage /\ D[i] = NoPage
    /\ i \in OnlyData(c) => F[i] = NoPage /\ D[i] # NoPage
    /\ i \notin OnlyFd(c) \cup OnlyData(c) => (F[i] = NoPage <=> D[i] = NoPage)
Knows(F, c) ==
  /\ c.op = "pipe1" => c.to = c.fd
  /\ c.op \in {"pipe2", "pipe3"} => c.to # c.fd
  /\ c.op \in {"pipe3", "unmap_fd", "read", "write", "pipeisclosed"} => F[c.fd] # NoPage
  /\ c.op \in {"unmap_fd", "unmap_data"} /\ c.then.op = "dup_data" =>
       c.fd = c.then.to /\ (c.then.fd # c.then.to => F[c.then.fd] # NoPage)
  /\ c.op \in {"dup_data", "dup_fd"} => (F[c.fd] = NoPage <=> c.fd = c.to)
  /\ c.op \in {"dup_data", "dup_fd"} => F[c.to] = NoPage

\* The descriptor pages that pipe has allocated are not mapped elsewhere.
Fresh(F, e, c) ==
  c.op \in {"pipe1", "pipe2", "pipe3"} =>
    \A j \in {c.fd, c.to}, o \in Envs, k \in Fds :
      F[o][k].frame = F[e][j].frame => o = e /\ k = j

\* An environment that neither forks nor is a child that is being built.
Common(c) == c.op \notin {"fork", "stuck", "embryo"}

\* A ring that two environments map is copy-on-write in both, once the fork
\* that has shared it is over.
Forking(c) == c.op \in {"fork", "stuck"}
CowShared ==
  \A e, o \in Envs, i, j \in Fds :
    /\ e # o /\ ~Forking(call[e]) /\ datap[e][i] # NoPage
    /\ datap[o][j].frame = datap[e][i].frame
    => datap[e][i].cow

\* What the child c of a fork of e has got comes from e; nobody else builds it.
\* An environment that was never built has nothing.
Builds(e, c) ==
  /\ c \notin live /\ call[c] = Embryo
  /\ \A o \in Envs : call[o].op = "fork" /\ call[o].child = c => o = e
  /\ \A i \in Fds :
       /\ fdp[c][i] # NoPage => fdp[e][i] # NoPage
       /\ datap[c][i] # NoPage =>
            datap[e][i] # NoPage /\ datap[e][i].cow /\ datap[c][i].cow
Building == \A e \in Envs : call[e].op = "fork" => Builds(e, call[e].child)
Unborn(e) ==
  e \notin live =>
    /\ call[e] \in {Idle, Embryo}
    /\ call[e] = Idle => \A i \in Fds : fdp[e][i] = NoPage /\ datap[e][i] = NoPage

\* Between the halves of _pipeisclosed the ring stays as it was, and on one
\* processor so does the first count, unless env_runs changes.
Waiting ==
  \A e \in Envs : Comparing(e) =>
    /\ Blocked(e)
    /\ Smp \/ switched[e] \/ call[e].ref = pageref(fdp[e][call[e].fd])

\* The inductive invariant.
IInv ==
  /\ Types
  /\ Kinds
  /\ AllFifo
  /\ \A e \in Envs : /\ Unborn(e)
                     /\ Half(fdp[e], datap[e], call[e])
                     /\ Knows(fdp[e], call[e])
                     /\ Fresh(fdp, e, call[e])
  /\ CowShared /\ Building
  /\ Waiting

-----------------------------------------------------------------------------
(* Records, numbers and frames *)

\* A set of natural numbers that is not empty has a minimum.
LEMMA MinLemma ==
  ASSUME NEW S, S \subseteq Nat, S # {}
  PROVE  Min(S) \in S /\ \A y \in S : Min(S) <= y
PROOF
  <1> DEFINE Less == OpToRel(<, Nat)
  <1>1. \A x, y \in Nat : y < x => <<y, x>> \in Less BY DEF OpToRel
  <1>2. IsWellFoundedOn(Less, Nat) BY NatLessThanWellFounded
  <1> HIDE DEF Less
  <1>3. PICK m \in S : \A y \in S : ~(<<y, m>> \in Less) BY <1>2, WFMin
  <1>4. ASSUME NEW y \in S PROVE m <= y
    <2>1. ~(y < m) BY <1>1, <1>3, Zenon
    <2> QED BY <2>1
  <1> QED BY <1>4 DEF Min

\* What a call is made of.
LEMMA CallLemma ==
  ASSUME NEW c \in Calls
  PROVE  /\ c.op \in {"pipe1", "pipe2", "pipe3"} => c \in Pipes
         /\ c.op \in {"dup_data", "dup_fd"} => c \in Dups
         /\ c.op = "exit" => c \in Exits
         /\ c.op \in {"unmap_fd", "unmap_data"} => c \in Closes
         /\ c.op \in {"read", "write", "pipeisclosed", "closed"} => c \in Ios
         /\ c.op = "fork" => c \in Forks
         /\ c.op = "idle" => c = Idle
         /\ c.op = "embryo" => c = Embryo
PROOF
  <1>1. CASE c \in Pipes BY <1>1 DEF Pipes
  <1>2. CASE c \in Dups BY <1>2 DEF Dups
  <1>3. CASE c \in Exits BY <1>3 DEF Exits
  <1>4. CASE c \in Closes BY <1>4 DEF Closes
  <1>5. CASE c \in Ios BY <1>5 DEF Ios
  <1>6. CASE c \in {Idle, Embryo, [op |-> "stuck"]} BY <1>6 DEF Idle, Embryo
  <1>7. CASE c \in Forks BY <1>7 DEF Forks
  <1> QED BY <1>1, <1>2, <1>3, <1>4, <1>5, <1>6, <1>7 DEF Calls

\* An environment that is in no call.
LEMMA IdleLemma ==
  /\ Idle.op = "idle" /\ Idle \in Calls
  /\ OnlyFd(Idle) = {} /\ OnlyData(Idle) = {}
  /\ Embryo.op = "embryo" /\ Embryo \in Calls /\ Embryo # Idle
PROOF BY DEF Idle, Embryo, Calls, OnlyFd, OnlyData

\* A mapping leads to a frame.
LEMMA MapLemma ==
  /\ NoPage.frame = 0 /\ NoPage \in Mapping /\ 0 \notin Frames
  /\ \A m \in Mapping : /\ m # NoPage => m.frame \in Frames /\ m.frame # 0 /\ m.cow \in BOOLEAN
                        /\ m.frame = 0 => m = NoPage
  /\ \A f \in Frames : /\ Page(f) \in Mapping /\ Page(f) # NoPage
                       /\ Page(f).frame = f /\ Page(f).cow = FALSE
PROOF
  <1>1. NoPage.frame = 0 /\ NoPage \in Mapping /\ 0 \notin Frames
    BY DEF NoPage, Mapping, Frames
  <1>2. ASSUME NEW m \in Mapping, m # NoPage
        PROVE  m.frame \in Frames /\ m.frame # 0 /\ m.cow \in BOOLEAN
    BY <1>2 DEF Mapping, Frames
  <1>3. ASSUME NEW f \in Frames
        PROVE  /\ Page(f) \in Mapping /\ Page(f) # NoPage
               /\ Page(f).frame = f /\ Page(f).cow = FALSE
    BY <1>3 DEF Mapping, Frames, Page, NoPage
  <1> QED BY <1>1, <1>2, <1>3

\* The contents of frames.
LEMMA ContentsLemma ==
  /\ Empty \in Contents /\ Empty.kind = "none"
  /\ NewFd \in Contents /\ NewFd.kind = "fd"
  /\ NewPipe \in Contents /\ NewPipe.kind = "pipe" /\ Fifo(NewPipe)
  /\ \A p \in Contents : /\ p.kind = "fd" => p \in FdPages
                         /\ p.kind = "pipe" => p \in Rings
PROOF
  <1>1. PIPEBUFSIZ \in Nat /\ MaxPos \in Nat BY PipeAssumption
  <1>2. NewPipe \in Rings BY <1>1 DEF NewPipe, Rings
  <1>3. NewPipe.kind = "pipe" /\ NewPipe.wpos = 0 /\ NewPipe.rpos = 0 BY DEF NewPipe
  <1>4. Fifo(NewPipe) BY <1>1, <1>3 DEF Fifo
  <1>5. NewFd \in FdPages /\ NewFd.kind = "fd" BY DEF NewFd, FdPages
  <1> QED BY <1>2, <1>3, <1>4, <1>5 DEF Contents, Empty, FdPages, Rings

\* The frames nobody maps, and the one that is taken next.
LEMMA FreeLemma ==
  ASSUME Types
  PROVE  /\ \A f : f \in FreeFrames <=>
                     f \in Frames /\ \A o \in Envs, k \in Fds :
                                       fdp[o][k].frame # f /\ datap[o][k].frame # f
         /\ FreeFrames # {} => NextFrame \in FreeFrames
PROOF
  <1>1. \A f : f \in FreeFrames <=>
                 f \in Frames /\ \A o \in Envs, k \in Fds :
                                   fdp[o][k].frame # f /\ datap[o][k].frame # f
    BY DEF FreeFrames
  <1>2. FreeFrames \subseteq Nat BY DEF FreeFrames, Frames
  <1> QED BY <1>1, <1>2, MinLemma DEF NextFrame

\* The descriptor that is taken next is not mapped.
LEMMA AllocLemma ==
  ASSUME NEW e \in Envs, NEW d, d = fd_alloc(e), d # MAXFD
  PROVE  d \in Fds /\ fdp[e][d] = NoPage
PROOF
  <1>1. MAXFD \in Nat /\ {i \in Fds : ~fd_lookup(e, i)} \cup {MAXFD} \subseteq Nat
    BY PipeAssumption DEF Fds
  <1>2. d \in {i \in Fds : ~fd_lookup(e, i)} \cup {MAXFD} BY <1>1, MinLemma DEF fd_alloc
  <1> QED BY <1>2 DEF fd_lookup

-----------------------------------------------------------------------------
(* Counts *)

FdUsers(f) == {x \in Envs \X Fds : fdp[x[1]][x[2]].frame = f}
DataUsers(f) == {x \in Envs \X Fds : datap[x[1]][x[2]].frame = f}

\* Sets of mappings are finite.
LEMMA FiniteLemma ==
  \A S \in SUBSET (Envs \X Fds) :
    /\ IsFiniteSet(S) /\ Cardinality(S) \in Nat
    /\ Cardinality(S) = 0 <=> S = {}
    /\ Cardinality(S) = 1 <=> \E x : S = {x}
PROOF
  <1>1. IsFiniteSet(Envs) /\ MAXFD \in Nat BY PipeAssumption
  <1>2. IsFiniteSet(Fds) BY <1>1, FS_Interval DEF Fds
  <1>3. IsFiniteSet(Envs \X Fds) BY <1>1, <1>2, FS_Product
  <1>4. \A S \in SUBSET (Envs \X Fds) : IsFiniteSet(S) BY <1>3, FS_Subset
  <1>5. \A S \in SUBSET (Envs \X Fds) : Cardinality(S) \in Nat BY <1>4, FS_CardinalityType
  <1>6. \A S \in SUBSET (Envs \X Fds) : Cardinality(S) = 0 <=> S = {} BY <1>4, FS_EmptySet
  <1>7. \A S \in SUBSET (Envs \X Fds) : Cardinality(S) = 1 <=> \E x : S = {x}
    BY <1>4, FS_Singleton
  <1> QED BY <1>4, <1>5, <1>6, <1>7

\* The count of a descriptor page is a count of descriptors, and that of a
\* ring one of data pages.
LEMMA RefLemma ==
  ASSUME Types, Kinds, NEW e \in Envs, NEW i \in Fds
  PROVE  /\ fdp[e][i] # NoPage =>
              /\ pageref(fdp[e][i]) = Cardinality(FdUsers(fdp[e][i].frame))
              /\ DataUsers(fdp[e][i].frame) = {}
         /\ datap[e][i] # NoPage =>
              /\ pageref(datap[e][i]) = Cardinality(DataUsers(datap[e][i].frame))
              /\ FdUsers(datap[e][i].frame) = {}
PROOF
  <1>1. \A f : FdUsers(f) \in SUBSET (Envs \X Fds) /\ DataUsers(f) \in SUBSET (Envs \X Fds)
    BY DEF FdUsers, DataUsers
  <1>2. \A f : Cardinality(FdUsers(f)) \in Nat /\ Cardinality(DataUsers(f)) \in Nat
    BY <1>1, FiniteLemma
  <1>3. Cardinality({}) = 0 BY FS_EmptySet
  <1>4. \A m : m # NoPage =>
                 pageref(m) = Cardinality(FdUsers(m.frame)) + Cardinality(DataUsers(m.frame))
    BY DEF pageref, FdUsers, DataUsers
  <1>5. ASSUME NEW o \in Envs, NEW k \in Fds, NEW p \in Envs, NEW j \in Fds,
               fdp[o][k] # NoPage, datap[p][j].frame = fdp[o][k].frame
        PROVE  FALSE
    <2>1. fdp[o][k] \in Mapping /\ datap[p][j] \in Mapping BY DEF Types
    <2>2. datap[p][j] # NoPage BY <1>5, <2>1, MapLemma
    <2> QED BY <1>5, <2>2 DEF Kinds
  <1>6. fdp[e][i] # NoPage => DataUsers(fdp[e][i].frame) = {}
    BY <1>1, <1>5 DEF DataUsers
  <1>7. datap[e][i] # NoPage => FdUsers(datap[e][i].frame) = {}
    <2> SUFFICES ASSUME datap[e][i] # NoPage, NEW x \in FdUsers(datap[e][i].frame)
                 PROVE  FALSE
      OBVIOUS
    <2>1. x[1] \in Envs /\ x[2] \in Fds /\ fdp[x[1]][x[2]].frame = datap[e][i].frame
      BY DEF FdUsers
    <2>2. datap[e][i] \in Mapping /\ fdp[x[1]][x[2]] \in Mapping BY <2>1 DEF Types
    <2>3. fdp[x[1]][x[2]] # NoPage BY <2>1, <2>2, MapLemma
    <2> QED BY <1>5, <2>1, <2>3
  <1>8. ASSUME fdp[e][i] # NoPage
        PROVE  pageref(fdp[e][i]) = Cardinality(FdUsers(fdp[e][i].frame))
    <2>1. pageref(fdp[e][i]) = Cardinality(FdUsers(fdp[e][i].frame)) + 0
      BY <1>3, <1>4, <1>6, <1>8
    <2> QED BY <1>2, <2>1
  <1>9. ASSUME datap[e][i] # NoPage
        PROVE  pageref(datap[e][i]) = Cardinality(DataUsers(datap[e][i].frame))
    <2>1. pageref(datap[e][i]) = 0 + Cardinality(DataUsers(datap[e][i].frame))
      BY <1>3, <1>4, <1>7, <1>9
    <2> QED BY <1>2, <2>1
  <1> QED BY <1>6, <1>7, <1>8, <1>9

\* A page with a count of 1 is mapped in one place.
LEMMA SoleLemma ==
  ASSUME Types, Kinds, NEW e \in Envs, NEW i \in Fds,
         NEW m \in {fdp[e][i], datap[e][i]}, m # NoPage, pageref(m) = 1
  PROVE  \A o \in Envs, k \in Fds :
           /\ fdp[o][k].frame = m.frame => m = fdp[e][i] /\ o = e /\ k = i
           /\ datap[o][k].frame = m.frame => m = datap[e][i] /\ o = e /\ k = i
PROOF
  <1>1. \A f : FdUsers(f) \in SUBSET (Envs \X Fds) /\ DataUsers(f) \in SUBSET (Envs \X Fds)
    BY DEF FdUsers, DataUsers
  <1>2. \A f : \A o \in Envs, k \in Fds :
          /\ fdp[o][k].frame = f <=> <<o, k>> \in FdUsers(f)
          /\ datap[o][k].frame = f <=> <<o, k>> \in DataUsers(f)
    BY DEF FdUsers, DataUsers
  <1>3. CASE m = fdp[e][i]
    <2>1. Cardinality(FdUsers(m.frame)) = 1 /\ DataUsers(m.frame) = {} BY <1>3, RefLemma
    <2>2. PICK x : FdUsers(m.frame) = {x} BY <1>1, <2>1, FiniteLemma
    <2>3. <<e, i>> \in FdUsers(m.frame) BY <1>2, <1>3
    <2>4. x = <<e, i>> BY <2>2, <2>3
    <2> QED BY <1>2, <1>3, <2>1, <2>2, <2>4
  <1>4. CASE m = datap[e][i]
    <2>1. Cardinality(DataUsers(m.frame)) = 1 /\ FdUsers(m.frame) = {} BY <1>4, RefLemma
    <2>2. PICK x : DataUsers(m.frame) = {x} BY <1>1, <2>1, FiniteLemma
    <2>3. <<e, i>> \in DataUsers(m.frame) BY <1>2, <1>4
    <2>4. x = <<e, i>> BY <2>2, <2>3
    <2> QED BY <1>2, <1>4, <2>1, <2>2, <2>4
  <1> QED BY <1>3, <1>4

-----------------------------------------------------------------------------
(* Steps *)

\* An environment in read or write has both pages of its descriptor.
LEMMA IoLemma ==
  ASSUME IInv, NEW e \in Envs, call[e].op \in {"read", "write", "pipeisclosed"}
  PROVE  /\ call[e] \in Ios /\ call[e].fd \in Fds
         /\ fdp[e][call[e].fd] # NoPage /\ datap[e][call[e].fd] # NoPage
         /\ datap[e][call[e].fd].frame \in Frames
         /\ Ring(e, call[e].fd) \in Rings /\ Fifo(Ring(e, call[e].fd))
         /\ OnlyFd(call[e]) = {} /\ OnlyData(call[e]) = {}
PROOF
  <1>1. call[e] \in Ios /\ call[e].fd \in Fds BY CallLemma DEF IInv, Types, Ios
  <1>2. fdp[e][call[e].fd] # NoPage BY DEF IInv, Knows
  <1>3. OnlyFd(call[e]) = {} /\ OnlyData(call[e]) = {} BY DEF OnlyFd, OnlyData
  <1>4. datap[e][call[e].fd] # NoPage BY <1>1, <1>2, <1>3 DEF IInv, Half
  <1>5. datap[e][call[e].fd] \in Mapping BY <1>1 DEF IInv, Types
  <1>6. datap[e][call[e].fd].frame \in Frames BY <1>4, <1>5, MapLemma
  <1>7. Ring(e, call[e].fd) \in Rings /\ Fifo(Ring(e, call[e].fd))
    <2>1. Ring(e, call[e].fd).kind = "pipe" BY <1>1, <1>4 DEF IInv, Kinds, Ring
    <2>2. Ring(e, call[e].fd) \in Contents BY <1>6 DEF IInv, Types, Ring
    <2> QED BY <1>6, <2>1, <2>2, ContentsLemma DEF IInv, AllFifo, Ring
  <1> QED BY <1>1, <1>2, <1>3, <1>4, <1>6, <1>7

\* A step of e changes pages that nobody else maps, and maps free frames or
\* what it has mapped already: the others keep what they know.
MapsOwn(e) ==
  /\ \A i \in Fds : fdp'[e][i] # NoPage =>
       \/ fdp'[e][i].frame \in FreeFrames
       \/ \E j \in Fds : fdp'[e][i].frame = fdp[e][j].frame
  /\ \A i \in Fds : datap'[e][i] # NoPage =>
       \/ datap'[e][i].frame \in FreeFrames
       \/ \E j \in Fds : datap'[e][i] = datap[e][j]
StoresOwn(e) ==
  \A f \in Frames : page'[f] # page[f] =>
    /\ page'[f].kind = "pipe" => Fifo(page'[f])
    /\ \A o \in Envs \ {e}, k \in Fds : fdp[o][k].frame # f /\ datap[o][k].frame # f

\* A step of one environment leaves the invariant in place, if it keeps what
\* the environment itself knows: the others need not be looked at.
LEMMA StepLemma ==
  ASSUME IInv, NEW e \in live, Ran(e), live' = live,
         fdp' \in [Envs -> [Fds -> Mapping]], datap' \in [Envs -> [Fds -> Mapping]],
         page' \in [Frames -> Contents], call' \in [Envs -> Calls],
         \A o \in Envs \ {e} : /\ fdp'[o] = fdp[o] /\ datap'[o] = datap[o]
                               /\ call'[o] = call[o],
         MapsOwn(e), StoresOwn(e),
         \A i \in Fds : /\ fdp'[e][i] # NoPage => page'[fdp'[e][i].frame].kind = "fd"
                        /\ datap'[e][i] # NoPage => page'[datap'[e][i].frame].kind = "pipe",
         Half(fdp'[e], datap'[e], call'[e]), Knows(fdp'[e], call'[e]),
         Fresh(fdp', e, call'[e]),
         Comparing(e)' => Blocked(e)' /\ call'[e].ref = pageref(fdp[e][call[e].fd])',
         Common(call[e]), call'[e].op \notin {"fork", "embryo"}
  PROVE  IInv'
PROOF
  <1>1. /\ Types /\ Kinds /\ AllFifo /\ CowShared /\ Building /\ Waiting /\ e \in Envs
        /\ \A o \in Envs : /\ Unborn(o)
                           /\ Half(fdp[o], datap[o], call[o]) /\ Knows(fdp[o], call[o])
                           /\ Fresh(fdp, o, call[o])
    BY DEF IInv, Types
  <1>2. /\ fdp \in [Envs -> [Fds -> Mapping]] /\ datap \in [Envs -> [Fds -> Mapping]]
        /\ call \in [Envs -> Calls] /\ live \subseteq Envs
    BY <1>1 DEF Types
  <1>3. PICK sw \in IF Smp THEN BOOLEAN ELSE {TRUE} :
          switched' = [o \in Envs |-> o # e /\ Comparing(o) /\ (switched[o] \/ sw)]
    BY DEF Ran
  <1>4. Types'
    <2>1. switched' \in [Envs -> BOOLEAN] BY <1>3
    <2> QED BY <1>2, <2>1 DEF Types
  <1>5. ASSUME NEW o \in Envs \ {e}, NEW k \in Fds, NEW f \in Frames,
               fdp[o][k].frame = f \/ datap[o][k].frame = f
        PROVE  page'[f] = page[f] /\ f \notin FreeFrames
    BY <1>1, <1>5, FreeLemma DEF StoresOwn
  <1>6. Kinds'
    <2> SUFFICES ASSUME NEW o \in Envs, NEW k \in Fds
                 PROVE  /\ fdp'[o][k] # NoPage => page'[fdp'[o][k].frame].kind = "fd"
                        /\ datap'[o][k] # NoPage => page'[datap'[o][k].frame].kind = "pipe"
      BY DEF Kinds
    <2>1. CASE o = e BY <2>1
    <2>2. CASE o # e
      <3>1. fdp[o][k] \in Mapping /\ datap[o][k] \in Mapping BY <1>2
      <3>2. fdp[o][k] # NoPage => page'[fdp[o][k].frame] = page[fdp[o][k].frame]
        BY <1>5, <2>2, <3>1, MapLemma
      <3>3. datap[o][k] # NoPage => page'[datap[o][k].frame] = page[datap[o][k].frame]
        BY <1>5, <2>2, <3>1, MapLemma
      <3> QED BY <1>1, <2>2, <3>2, <3>3 DEF Kinds
    <2> QED BY <2>1, <2>2
  <1>7. AllFifo' BY <1>1 DEF AllFifo, StoresOwn
  <1>8. ASSUME NEW o \in Envs
        PROVE  /\ Unborn(o)'
               /\ Half(fdp'[o], datap'[o], call'[o]) /\ Knows(fdp'[o], call'[o])
    BY <1>1 DEF Unborn
  <1>9. ASSUME NEW o \in Envs, o # e PROVE Fresh(fdp', o, call[o])
    <2> SUFFICES ASSUME call[o].op \in {"pipe1", "pipe2", "pipe3"},
                        NEW j \in {call[o].fd, call[o].to}, NEW p \in Envs, NEW k \in Fds,
                        fdp'[p][k].frame = fdp'[o][j].frame
                 PROVE  p = o /\ k = j
      BY DEF Fresh
    <2>1. j \in Fds
      <3>1. call[o] \in Pipes BY <1>2, CallLemma
      <3> QED BY <3>1 DEF Pipes
    <2>2. fdp[o][j] # NoPage
      <3>1. CASE call[o].op \in {"pipe1", "pipe2"} BY <1>1, <2>1, <3>1 DEF Half, OnlyFd
      <3>2. CASE call[o].op = "pipe3" /\ j = call[o].to BY <1>1, <2>1, <3>2 DEF Half, OnlyFd
      <3>3. CASE call[o].op = "pipe3" /\ j = call[o].fd BY <1>1, <3>3 DEF Knows
      <3> QED BY <3>1, <3>2, <3>3
    <2>3. fdp'[o][j] = fdp[o][j] BY <1>9
    <2>4. fdp[o][j].frame \in Frames /\ fdp[o][j].frame # 0
      BY <1>2, <2>1, <2>2, MapLemma
    <2>5. CASE p # e BY <1>1, <2>3, <2>5 DEF Fresh
    <2>6. CASE p = e
      <3>1. fdp'[e][k] # NoPage BY <2>3, <2>4, <2>6, MapLemma
      <3>2. fdp'[e][k].frame \notin FreeFrames BY <1>5, <1>9, <2>1, <2>3, <2>4, <2>6
      <3>3. PICK l \in Fds : fdp'[e][k].frame = fdp[e][l].frame
        BY <3>1, <3>2 DEF MapsOwn
      <3> QED BY <1>1, <1>9, <2>3, <2>6, <3>3 DEF Fresh
    <2> QED BY <2>5, <2>6
  <1>10. \A o \in Envs : Fresh(fdp', o, call'[o]) BY <1>9
  <1>11. CowShared'
    <2> SUFFICES ASSUME NEW o \in Envs, NEW p \in Envs, NEW i \in Fds, NEW j \in Fds,
                        o # p, ~Forking(call'[o]), datap'[o][i] # NoPage,
                        datap'[p][j].frame = datap'[o][i].frame
                 PROVE  datap'[o][i].cow
      BY DEF CowShared
    <2>1. datap'[o][i].frame \in Frames /\ datap'[p][j] # NoPage
      <3>1. datap'[o][i].frame \in Frames BY MapLemma
      <3> QED BY <3>1, MapLemma
    <2>2. CASE o # e /\ p # e
      <3>1. datap'[o] = datap[o] /\ datap'[p] = datap[p] /\ call'[o] = call[o] BY <2>2
      <3> QED BY <1>1, <3>1 DEF CowShared
    <2>3. CASE o = e
      <3>1. datap'[p] = datap[p] BY <2>3
      <3>2. datap'[e][i].frame \notin FreeFrames BY <1>5, <2>1, <2>3, <3>1
      <3>3. PICK l \in Fds : datap'[e][i] = datap[e][l] BY <2>3, <3>2 DEF MapsOwn
      <3>4. ~Forking(call[e]) BY DEF Common, Forking
      <3> QED BY <1>1, <2>3, <3>1, <3>3, <3>4 DEF CowShared
    <2>4. CASE p = e
      <3>1. datap'[o] = datap[o] /\ call'[o] = call[o] BY <2>4
      <3>2. datap'[e][j].frame \notin FreeFrames BY <1>5, <2>1, <2>4, <3>1
      <3>3. PICK l \in Fds : datap'[e][j] = datap[e][l] BY <2>1, <2>4, <3>2 DEF MapsOwn
      <3> QED BY <1>1, <2>4, <3>1, <3>3 DEF CowShared
    <2> QED BY <2>2, <2>3, <2>4
  <1>12. Waiting'
    <2> SUFFICES ASSUME NEW o \in Envs, Comparing(o)'
                 PROVE  /\ Blocked(o)'
                        /\ Smp \/ switched'[o] \/ call'[o].ref = pageref(fdp[o][call[o].fd])'
      BY DEF Waiting
    <2>1. CASE o = e BY <2>1
    <2>2. CASE o # e
      <3>1. call'[o] = call[o] /\ fdp'[o] = fdp[o] /\ datap'[o] = datap[o] BY <2>2
      <3>2. Comparing(o) /\ Blocked(o) BY <1>1, <3>1 DEF Comparing, Waiting
      <3>3. page'[datap[o][call[o].fd].frame] = page[datap[o][call[o].fd].frame]
        BY <1>5, <2>2, <3>2, IoLemma DEF Comparing
      <3>4. Blocked(o)' BY <3>1, <3>2, <3>3 DEF Blocked, Ring
      <3>5. Smp \/ switched'[o]
        <4>1. ~Smp => sw = TRUE OBVIOUS
        <4> QED BY <1>3, <2>2, <3>2, <4>1
      <3> QED BY <3>4, <3>5
    <2> QED BY <2>1, <2>2
  <1>13. Building'
    <2> SUFFICES ASSUME NEW o \in Envs, call'[o].op = "fork"
                 PROVE  Builds(o, call[o].child)'
      BY DEF Building
    <2>1. o # e /\ call'[o] = call[o] OBVIOUS
    <2>2. PICK c : c = call[o].child OBVIOUS
    <2>3. Builds(o, c) BY <1>1, <2>1, <2>2 DEF Building
    <2>4. c \in Envs
      <3>1. call[o] \in Forks BY <1>2, <2>1, CallLemma
      <3> QED BY <2>2, <3>1 DEF Forks
    <2>5. c # e BY <2>3 DEF Builds
    <2>6. /\ fdp'[c] = fdp[c] /\ datap'[c] = datap[c] /\ call'[c] = call[c]
          /\ fdp'[o] = fdp[o] /\ datap'[o] = datap[o] /\ call'[o].child = c
      BY <2>1, <2>2, <2>4, <2>5
    <2>7. \A p \in Envs : call'[p].op = "fork" => call'[p] = call[p] OBVIOUS
    <2>8. Builds(o, c)' BY <2>3, <2>6, <2>7 DEF Builds
    <2> QED BY <2>6, <2>8
  <1> QED BY <1>4, <1>6, <1>7, <1>8, <1>10, <1>11, <1>12, <1>13 DEF IInv

\* A step that leaves the pages alone.
LEMMA QuietLemma ==
  ASSUME IInv, NEW e \in live, Ran(e), UNCHANGED <<live, fdp, datap, page>>,
         NEW c \in Calls, call' = [call EXCEPT ![e] = c],
         OnlyFd(c) = OnlyFd(call[e]), OnlyData(c) = OnlyData(call[e]),
         Knows(fdp[e], c), c.op \notin {"pipe1", "pipe2", "pipe3"},
         c.op \in {"read", "write", "pipeisclosed"} /\ c.ref # 0 =>
           Blocked(e)' /\ c.ref = pageref(fdp[e][c.fd]),
         Common(call[e]), c.op \notin {"fork", "embryo"}
  PROVE  IInv'
PROOF
  <1>1. Types /\ Kinds /\ e \in Envs /\ call'[e] = c BY DEF IInv, Types
  <1>2. call' \in [Envs -> Calls] BY <1>1 DEF Types
  <1>3. MapsOwn(e) BY DEF MapsOwn
  <1>4. StoresOwn(e) BY DEF StoresOwn
  <1>5. Half(fdp'[e], datap'[e], call'[e]) BY <1>1 DEF IInv, Half, Common
  <1>6. Fresh(fdp', e, call'[e]) BY <1>1 DEF Fresh
  <1>7. Comparing(e)' => Blocked(e)' /\ call'[e].ref = pageref(fdp[e][call[e].fd])'
    BY <1>1 DEF Comparing, pageref
  <1>8. \A o \in Envs \ {e} : call'[o] = call[o] BY <1>1 DEF Types
  <1>9. /\ live' = live /\ fdp' \in [Envs -> [Fds -> Mapping]]
        /\ datap' \in [Envs -> [Fds -> Mapping]] /\ page' \in [Frames -> Contents]
    BY <1>1 DEF Types
  <1>10. \A o \in Envs \ {e} : /\ fdp'[o] = fdp[o] /\ datap'[o] = datap[o]
                               /\ call'[o] = call[o]
    BY <1>8
  <1>11. \A i \in Fds : /\ fdp'[e][i] # NoPage => page'[fdp'[e][i].frame].kind = "fd"
                        /\ datap'[e][i] # NoPage => page'[datap'[e][i].frame].kind = "pipe"
    BY <1>1 DEF Kinds
  <1>12. Knows(fdp'[e], call'[e]) BY <1>1
  <1>13. call'[e].op \notin {"fork", "embryo"} BY <1>1
  <1> QED BY <1>2, <1>3, <1>4, <1>5, <1>6, <1>7, <1>9, <1>10, <1>11, <1>12, <1>13, StepLemma

-----------------------------------------------------------------------------
(* Steps that leave the pages alone *)

\* In these calls no descriptor is half there.
Plain == {"idle", "exit", "unmap_fd", "dup_data", "read", "write", "pipeisclosed",
          "closed"}
LEMMA PlainLemma ==
  \A c : /\ c.op \in Plain \cup {"stuck", "fork"} => OnlyFd(c) = {} /\ OnlyData(c) = {}
         /\ c.op \in Plain => Common(c) /\ c.op \notin {"fork", "embryo"}
PROOF BY DEF Plain, OnlyFd, OnlyData, Common

\* A call that knows nothing of the descriptors.
LEMMA LeaveLemma ==
  ASSUME IInv, NEW e \in live, Ran(e), UNCHANGED <<live, fdp, datap, page>>,
         call[e].op \in Plain, NEW c \in Calls, call' = [call EXCEPT ![e] = c],
         c.op \in {"idle", "stuck", "exit", "closed"}
  PROVE  IInv'
PROOF
  <1>1. c.op \in Plain \cup {"stuck"} /\ c.op \notin {"fork", "embryo"} BY DEF Plain
  <1>2. OnlyFd(c) = OnlyFd(call[e]) /\ OnlyData(c) = OnlyData(call[e])
    BY <1>1, PlainLemma
  <1>3. Knows(fdp[e], c) BY DEF Knows
  <1> QED BY <1>1, <1>2, <1>3, PlainLemma, QuietLemma

\* close() begins: it knows that the descriptor is open, or it is over.
LEMMA CloseLemma ==
  ASSUME IInv, NEW e \in live, Ran(e), UNCHANGED <<live, fdp, datap, page>>,
         call[e].op \in Plain, NEW i \in Fds, NEW then \in {Idle} \cup StartDups \cup Exits,
         then \in StartDups => i = then.to /\ fdp[e][then.fd] # NoPage,
         close(e, i, then)
  PROVE  IInv'
PROOF
  <1>1. CASE fdp[e][i] # NoPage
    <2>1. PICK c : c = [op |-> "unmap_fd", fd |-> i, then |-> then] OBVIOUS
    <2>2. /\ c \in Closes /\ c \in Calls /\ c.op = "unmap_fd" /\ c.op \in Plain
          /\ c.fd = i /\ c.then = then
      BY <2>1 DEF Closes, Calls, Plain
    <2>3. call' = [call EXCEPT ![e] = c] BY <1>1, <2>1 DEF close, fd_lookup, Goto
    <2>4. OnlyFd(c) = OnlyFd(call[e]) /\ OnlyData(c) = OnlyData(call[e])
      BY <2>2, PlainLemma
    <2>5. then.op = "dup_data" => then \in StartDups BY IdleLemma DEF Exits
    <2>6. Knows(fdp[e], c) BY <1>1, <2>2, <2>5 DEF Knows
    <2> QED BY <2>2, <2>3, <2>4, <2>6, PlainLemma, QuietLemma
  <1>2. CASE fdp[e][i] = NoPage
    <2>1. call' = [call EXCEPT ![e] = then] BY <1>2 DEF close, fd_lookup, Goto
    <2>2. then \in Calls BY DEF Calls, StartDups, Dups
    <2>3. CASE then \in StartDups
      <3>1. then.op \in Plain /\ then.op = "dup_data" BY <2>3 DEF Plain, StartDups
      <3>2. OnlyFd(then) = OnlyFd(call[e]) /\ OnlyData(then) = OnlyData(call[e])
        BY <3>1, PlainLemma
      <3>3. Knows(fdp[e], then) BY <1>2, <2>3, <3>1 DEF Knows
      <3> QED BY <2>1, <2>2, <3>1, <3>2, <3>3, PlainLemma, QuietLemma
    <2>4. CASE then \in {Idle} \cup Exits
      <3>1. then.op \in {"idle", "exit"} BY <2>4, IdleLemma DEF Exits
      <3> QED BY <2>1, <2>2, <3>1, LeaveLemma
    <2> QED BY <2>3, <2>4
  <1> QED BY <1>1, <1>2

\* close() called by the program, by dup and by exit.
LEMMA CloseStartLemma ==
  ASSUME IInv, NEW e \in live, Ran(e), close_start(e) \/ dup_start(e) \/ exit_close(e)
  PROVE  IInv'
PROOF
  <1>1. UNCHANGED <<live, fdp, datap, page>> BY DEF close_start, dup_start, exit_close
  <1>2. CASE close_start(e)
    <2>1. PICK i \in Fds : close(e, i, Idle) BY <1>2 DEF close_start
    <2>2. call[e].op \in Plain BY <1>2, IdleLemma DEF close_start, Plain
    <2>3. Idle \notin StartDups BY IdleLemma DEF StartDups
    <2> QED BY <1>1, <2>1, <2>2, <2>3, CloseLemma
  <1>3. CASE dup_start(e)
    <2>1. PICK old \in Fds, new \in Fds :
            /\ fdp[e][old] # NoPage
            /\ close(e, new, [op |-> "dup_data", fd |-> old, to |-> new])
      BY <1>3 DEF dup_start, fd_lookup
    <2>2. call[e].op \in Plain BY <1>3, IdleLemma DEF dup_start, Plain
    <2>3. PICK c : c = [op |-> "dup_data", fd |-> old, to |-> new] OBVIOUS
    <2>4. c \in StartDups /\ c.to = new /\ c.fd = old BY <2>3 DEF StartDups
    <2> QED BY <1>1, <2>1, <2>2, <2>3, <2>4, CloseLemma
  <1>4. CASE exit_close(e)
    <2>1. PICK c, i : c = [call[e] EXCEPT !.fd = @ + 1] /\ i = call[e].fd OBVIOUS
    <2>2. call[e] \in Exits
      BY <1>4, CallLemma DEF exit_close, IInv, Types
    <2>3. MAXFD \in Nat BY PipeAssumption
    <2>4. i \in Fds /\ c \in Exits BY <1>4, <2>1, <2>2, <2>3 DEF exit_close, Exits, Fds
    <2>5. c \notin StartDups BY <2>4 DEF Exits, StartDups
    <2>6. call[e].op \in Plain BY <1>4 DEF exit_close, Plain
    <2> QED BY <1>1, <1>4, <2>1, <2>4, <2>5, <2>6, CloseLemma DEF exit_close
  <1> QED BY <1>2, <1>3, <1>4

\* read, write and pipeisclosed begin with an open descriptor.
LEMMA IoStartLemma ==
  ASSUME IInv, NEW e \in live, Ran(e), io_start(e)
  PROVE  IInv'
PROOF
  <1>1. PICK i \in Fds, op \in {"read", "write", "pipeisclosed"}, n \in 1..MaxCount :
          /\ fdp[e][i] # NoPage
          /\ Goto(e, [op |-> op, fd |-> i, n |-> n, i |-> 0, ref |-> 0])
    BY DEF io_start, fd_lookup
  <1>2. PICK c : c = [op |-> op, fd |-> i, n |-> n, i |-> 0, ref |-> 0] OBVIOUS
  <1>3. n \in Nat BY PipeAssumption
  <1>4. /\ c \in Ios /\ c.op \in {"read", "write", "pipeisclosed"} /\ c.fd = i
        /\ c.ref = 0
    BY <1>2, <1>3 DEF Ios
  <1>5. c \in Calls /\ c.op \in Plain /\ call[e].op \in Plain
    BY <1>4, IdleLemma DEF io_start, Calls, Plain
  <1>6. OnlyFd(c) = OnlyFd(call[e]) /\ OnlyData(c) = OnlyData(call[e])
    BY <1>5, PlainLemma
  <1>7. Knows(fdp[e], c) BY <1>1, <1>4 DEF Knows
  <1> QED BY <1>1, <1>2, <1>4, <1>5, <1>6, <1>7, PlainLemma, QuietLemma DEF io_start, Goto

\* The end of read, write, pipeisclosed, or of everything.
LEMMA ReturnLemma ==
  ASSUME IInv, NEW e \in live, Ran(e),
         io_return(e) \/ io_nomem(e) \/ return_closed(e) \/ exit(e)
  PROVE  IInv'
PROOF
  <1>1. /\ UNCHANGED <<live, fdp, datap, page>>
        /\ call[e].op \in Plain
    BY IdleLemma DEF io_return, io_nomem, return_closed, exit, Plain
  <1>2. PICK c : /\ c \in {Idle, [op |-> "stuck"], [op |-> "exit", fd |-> 0]}
                 /\ call' = [call EXCEPT ![e] = c]
    BY DEF io_return, io_nomem, return_closed, exit, Return, Goto
  <1>3. c \in Calls /\ c.op \in {"idle", "stuck", "exit"}
    <2>1. 0 \in 0..MAXFD BY PipeAssumption
    <2> QED BY <1>2, <2>1, IdleLemma DEF Calls, Exits
  <1> QED BY <1>1, <1>2, <1>3, LeaveLemma

\* The first half of _pipeisclosed takes the count of the descriptor page.
LEMMA CountFdLemma ==
  ASSUME IInv, NEW e \in live, Ran(e), _pipeisclosed_fd(e)
  PROVE  IInv'
PROOF
  <1>1. PICK c : c = [call[e] EXCEPT !.ref = pageref(fdp[e][call[e].fd])] OBVIOUS
  <1>2. /\ Blocked(e) /\ call' = [call EXCEPT ![e] = c]
        /\ UNCHANGED <<live, fdp, datap, page>>
        /\ e \in Envs /\ call[e].op \in {"read", "write", "pipeisclosed"}
    BY <1>1 DEF _pipeisclosed_fd, Goto, Blocked, IInv, Types
  <1>3. call[e] \in Ios /\ call[e].fd \in Fds BY <1>2, IoLemma
  <1>4. pageref(fdp[e][call[e].fd]) \in Nat
    <2>1. \A f : /\ FdUsers(f) \in SUBSET (Envs \X Fds) /\ DataUsers(f) \in SUBSET (Envs \X Fds)
                 /\ Cardinality(FdUsers(f)) \in Nat /\ Cardinality(DataUsers(f)) \in Nat
      BY FiniteLemma DEF FdUsers, DataUsers
    <2> QED BY <1>2, <1>3, <2>1, IoLemma, RefLemma DEF IInv
  <1>5. /\ c \in Ios /\ c.op = call[e].op /\ c.fd = call[e].fd
        /\ c.ref = pageref(fdp[e][call[e].fd]) /\ c.i = call[e].i /\ c.n = call[e].n
    BY <1>1, <1>3, <1>4 DEF Ios
  <1>6. c \in Calls /\ c.op \in Plain /\ call[e].op \in Plain
    BY <1>2, <1>5 DEF Calls, Plain
  <1>7. OnlyFd(c) = OnlyFd(call[e]) /\ OnlyData(c) = OnlyData(call[e])
    BY <1>6, PlainLemma
  <1>8. Knows(fdp[e], c) BY <1>2, <1>5 DEF IInv, Knows
  <1>9. call'[e] = c BY <1>2 DEF IInv, Types
  <1>10. Blocked(e)' BY <1>2, <1>5, <1>9 DEF Blocked, Ring
  <1> QED BY <1>2, <1>5, <1>6, <1>7, <1>8, <1>10, PlainLemma, QuietLemma

\* The second half answers, or starts anew.
LEMMA CountDataLemma ==
  ASSUME IInv, NEW e \in live, Ran(e), _pipeisclosed_data(e)
  PROVE  IInv'
PROOF
  <1>1. /\ UNCHANGED <<live, fdp, datap, page>>
        /\ e \in Envs /\ call[e].op \in {"read", "write", "pipeisclosed"}
    BY DEF _pipeisclosed_data, Blocked, IInv, Types
  <1>2. call[e] \in Ios /\ call[e].op \in Plain BY <1>1, IoLemma DEF Plain
  <1>3. PICK c : /\ c \in {[call[e] EXCEPT !.ref = 0], [call[e] EXCEPT !.op = "closed"], Idle}
                 /\ call' = [call EXCEPT ![e] = c]
    BY DEF _pipeisclosed_data, Goto, Return
  <1>4. CASE c = [call[e] EXCEPT !.ref = 0]
    <2>1. c \in Ios /\ c.op = call[e].op /\ c.fd = call[e].fd /\ c.ref = 0
      BY <1>2, <1>4 DEF Ios
    <2>2. c \in Calls /\ c.op \in Plain BY <1>2, <2>1 DEF Calls
    <2>3. OnlyFd(c) = OnlyFd(call[e]) /\ OnlyData(c) = OnlyData(call[e])
      BY <1>2, <2>2, PlainLemma
    <2>4. Knows(fdp[e], c) BY <1>1, <2>1 DEF IInv, Knows
    <2> QED BY <1>1, <1>3, <2>1, <2>2, <2>3, <2>4, PlainLemma, QuietLemma
  <1>5. CASE c = [call[e] EXCEPT !.op = "closed"] \/ c = Idle
    <2>1. c \in Calls /\ c.op \in {"closed", "idle"} BY <1>2, <1>5, IdleLemma DEF Ios, Calls
    <2> QED BY <1>1, <1>2, <1>3, <2>1, LeaveLemma
  <1> QED BY <1>3, <1>4, <1>5

-----------------------------------------------------------------------------
(* pipe() *)

\* A descriptor page is allocated.
LEMMA AllocFdLemma ==
  ASSUME IInv, NEW e \in live, Ran(e), UNCHANGED <<live, datap>>,
         NEW d \in Fds, fdp[e][d] = NoPage, NEW n \in FreeFrames,
         fdp' = [fdp EXCEPT ![e][d] = Page(n)], page' = [page EXCEPT ![n] = NewFd],
         NEW c \in Pipes, call' = [call EXCEPT ![e] = c],
         OnlyFd(c) = OnlyFd(call[e]) \cup {d}, OnlyData(call[e]) = {}, Common(call[e]),
         \/ c.op = "pipe1" /\ c.fd = d /\ c.to = d
         \/ c.op = "pipe2" /\ c.to = d /\ call[e].op = "pipe1" /\ c.fd = call[e].fd
  PROVE  IInv'
PROOF
  <1>1. /\ Types /\ Kinds /\ e \in Envs
        /\ Half(fdp[e], datap[e], call[e]) /\ Knows(fdp[e], call[e])
        /\ Fresh(fdp, e, call[e])
    BY DEF IInv, Types
  <1>2. /\ fdp \in [Envs -> [Fds -> Mapping]] /\ datap \in [Envs -> [Fds -> Mapping]]
        /\ call \in [Envs -> Calls] /\ page \in [Frames -> Contents]
    BY <1>1 DEF Types
  <1>3. /\ n \in Frames
        /\ \A o \in Envs, k \in Fds : fdp[o][k].frame # n /\ datap[o][k].frame # n
    BY <1>1, FreeLemma
  <1>4. /\ Page(n) \in Mapping /\ Page(n) # NoPage /\ Page(n).frame = n
    BY <1>3, MapLemma
  <1>5. \A o \in Envs, k \in Fds : fdp'[o][k] = IF o = e /\ k = d THEN Page(n) ELSE fdp[o][k]
    BY <1>1, <1>2
  <1>6. /\ fdp' \in [Envs -> [Fds -> Mapping]] /\ datap' \in [Envs -> [Fds -> Mapping]]
        /\ page' \in [Frames -> Contents] /\ call' \in [Envs -> Calls]
    <2>1. [fdp[e] EXCEPT ![d] = Page(n)] \in [Fds -> Mapping] BY <1>1, <1>2, <1>4
    <2>2. fdp' \in [Envs -> [Fds -> Mapping]] BY <1>2, <2>1
    <2> QED BY <1>2, <2>2, ContentsLemma DEF Calls
  <1>7. \A o \in Envs \ {e} : /\ fdp'[o] = fdp[o] /\ datap'[o] = datap[o]
                              /\ call'[o] = call[o]
    BY <1>2
  <1>8. call'[e] = c BY <1>1, <1>2
  <1>9. MapsOwn(e) BY <1>1, <1>4, <1>5 DEF MapsOwn
  <1>10. \A f \in Frames : page'[f] = IF f = n THEN NewFd ELSE page[f] BY <1>2
  <1>11. StoresOwn(e) BY <1>3, <1>10, ContentsLemma DEF StoresOwn
  <1>12. \A i \in Fds : /\ fdp'[e][i] # NoPage => page'[fdp'[e][i].frame].kind = "fd"
                        /\ datap'[e][i] # NoPage => page'[datap'[e][i].frame].kind = "pipe"
    <2> SUFFICES ASSUME NEW i \in Fds
                 PROVE  /\ fdp'[e][i] # NoPage => page'[fdp'[e][i].frame].kind = "fd"
                        /\ datap[e][i] # NoPage => page'[datap[e][i].frame].kind = "pipe"
      OBVIOUS
    <2>1. fdp[e][i] \in Mapping /\ datap[e][i] \in Mapping BY <1>1, <1>2
    <2>2. datap[e][i] # NoPage => page'[datap[e][i].frame].kind = "pipe"
      BY <1>1, <1>3, <1>10, <2>1, MapLemma DEF Kinds
    <2>3. fdp[e][i] # NoPage => page'[fdp[e][i].frame].kind = "fd"
      BY <1>1, <1>3, <1>10, <2>1, MapLemma DEF Kinds
    <2> QED BY <1>1, <1>3, <1>4, <1>5, <1>10, <2>2, <2>3, ContentsLemma
  <1>13. Half(fdp'[e], datap'[e], call'[e])
    <2>1. d \notin OnlyFd(call[e]) BY <1>1 DEF Half, Common
    <2>2. datap[e][d] = NoPage BY <1>1, <2>1 DEF Half, Common
    <2>3. OnlyData(c) = {} BY DEF OnlyData
    <2>4. \A i \in Fds : fdp'[e][i] = IF i = d THEN Page(n) ELSE fdp[e][i] BY <1>1, <1>5
    <2> QED BY <1>1, <1>4, <1>8, <2>1, <2>2, <2>3, <2>4 DEF Half, Common
  <1>14. Knows(fdp'[e], call'[e])
    <2>1. c.op = "pipe2" => c.fd # c.to
      <3> SUFFICES ASSUME call[e].op = "pipe1", c.fd = call[e].fd, c.op = "pipe2", c.to = d
                   PROVE  c.fd # d
        OBVIOUS
      <3>1. c.fd \in OnlyFd(call[e]) /\ c.fd \in Fds BY DEF OnlyFd, Pipes
      <3>2. fdp[e][c.fd] # NoPage BY <1>1, <3>1 DEF Half
      <3> QED BY <3>2
    <2> QED BY <1>8, <2>1 DEF Knows
  <1>15. Fresh(fdp', e, call'[e])
    <2> SUFFICES ASSUME NEW j \in {c.fd, c.to}, NEW o \in Envs, NEW k \in Fds,
                        fdp'[o][k].frame = fdp'[e][j].frame
                 PROVE  o = e /\ k = j
      BY <1>8 DEF Fresh
    <2>1. CASE j = d BY <1>1, <1>3, <1>4, <1>5, <2>1
    <2>2. CASE j # d
      <3>1. call[e].op = "pipe1" /\ j = call[e].fd /\ j \in Fds BY <2>2 DEF Pipes
      <3>2. fdp'[e][j] = fdp[e][j] /\ fdp[e][j].frame # n BY <1>1, <1>3, <1>5, <2>2, <3>1
      <3>3. fdp'[o][k] = fdp[o][k] BY <1>4, <1>5, <3>2
      <3> QED BY <1>1, <3>1, <3>2, <3>3 DEF Fresh
    <2> QED BY <2>1, <2>2
  <1>16. ~Comparing(e)' BY <1>8 DEF Comparing
  <1>17. live' = live /\ call'[e].op \notin {"fork", "embryo"} BY <1>8
  <1> QED BY <1>6, <1>7, <1>9, <1>11, <1>12, <1>13, <1>14, <1>15, <1>16, <1>17, StepLemma

\* pipe() begins with the smallest free descriptor.
LEMMA PipeStartLemma ==
  ASSUME IInv, NEW e \in live, Ran(e), pipe_start(e)
  PROVE  IInv'
PROOF
  <1>1. PICK d, n : d = fd_alloc(e) /\ n = NextFrame OBVIOUS
  <1>2. e \in Envs /\ Types BY DEF IInv, Types
  <1>3. d \in Fds /\ fdp[e][d] = NoPage BY <1>1, <1>2, AllocLemma DEF pipe_start
  <1>4. n \in FreeFrames BY <1>1, <1>2, FreeLemma DEF pipe_start
  <1>5. PICK c : c = [op |-> "pipe1", fd |-> d, to |-> d] OBVIOUS
  <1>6. c \in Pipes /\ c.op = "pipe1" /\ c.fd = d /\ c.to = d BY <1>3, <1>5 DEF Pipes
  <1>7. OnlyFd(c) = OnlyFd(call[e]) \cup {d} /\ OnlyData(call[e]) = {} /\ Common(call[e])
    BY <1>6, IdleLemma DEF pipe_start, OnlyFd, Common
  <1>8. /\ UNCHANGED <<live, datap>> /\ call' = [call EXCEPT ![e] = c]
        /\ fdp' = [fdp EXCEPT ![e][d] = Page(n)] /\ page' = [page EXCEPT ![n] = NewFd]
    BY <1>1, <1>5 DEF pipe_start, Goto
  <1> QED BY <1>3, <1>4, <1>6, <1>7, <1>8, AllocFdLemma

\* Out of memory, or of descriptors: what was allocated goes.
LEMMA UndoLemma ==
  ASSUME IInv, NEW e \in live, Ran(e), call[e].op \in {"pipe1", "pipe2"}, Undo(e, call[e])
  PROVE  IInv'
PROOF
  <1> DEFINE a == call[e].fd
             b == call[e].to
  <1>1. /\ Types /\ Kinds /\ e \in Envs
        /\ Half(fdp[e], datap[e], call[e]) /\ Knows(fdp[e], call[e])
        /\ Fresh(fdp, e, call[e])
    BY DEF IInv, Types
  <1>2. /\ fdp \in [Envs -> [Fds -> Mapping]] /\ datap \in [Envs -> [Fds -> Mapping]]
        /\ call \in [Envs -> Calls] /\ page \in [Frames -> Contents]
    BY <1>1 DEF Types
  <1>3. a \in Fds /\ b \in Fds BY <1>1, <1>2, CallLemma DEF Pipes
  <1>4. \A i \in {a, b} : fdp[e][i] # NoPage /\ datap[e][i] = NoPage
    BY <1>1, <1>3 DEF Half, OnlyFd
  <1>5. /\ call' = [call EXCEPT ![e] = Idle] /\ UNCHANGED <<live, datap>>
        /\ fdp' = [fdp EXCEPT ![e] = [i \in Fds |-> IF i \in {a, b} THEN NoPage ELSE fdp[e][i]]]
        /\ page' = [f \in Frames |-> IF f \in {fdp[e][a].frame, fdp[e][b].frame} THEN Empty
                                     ELSE page[f]]
    BY DEF Undo, Return
  <1>6. \A i \in {a, b}, o \in Envs, k \in Fds :
          fdp[o][k].frame = fdp[e][i].frame => o = e /\ k = i
    BY <1>1 DEF Fresh
  <1> HIDE DEF a, b
  <1>7. \A i \in Fds : fdp'[e][i] = IF i \in {a, b} THEN NoPage ELSE fdp[e][i]
    BY <1>1, <1>2, <1>5
  <1>8. /\ fdp' \in [Envs -> [Fds -> Mapping]] /\ datap' \in [Envs -> [Fds -> Mapping]]
        /\ page' \in [Frames -> Contents] /\ call' \in [Envs -> Calls]
    <2>1. [i \in Fds |-> IF i \in {a, b} THEN NoPage ELSE fdp[e][i]] \in [Fds -> Mapping]
      BY <1>1, <1>2, MapLemma
    <2>2. fdp' \in [Envs -> [Fds -> Mapping]] BY <1>2, <1>5, <2>1
    <2>3. page' \in [Frames -> Contents] BY <1>2, <1>5, ContentsLemma
    <2> QED BY <1>2, <1>5, <2>2, <2>3, IdleLemma
  <1>9. \A o \in Envs \ {e} : /\ fdp'[o] = fdp[o] /\ datap'[o] = datap[o]
                              /\ call'[o] = call[o]
    BY <1>2, <1>5
  <1>10. call'[e] = Idle BY <1>1, <1>2, <1>5
  <1>11. MapsOwn(e) BY <1>5, <1>7 DEF MapsOwn
  <1>12. ASSUME NEW i \in {a, b}, NEW o \in Envs, NEW k \in Fds
         PROVE  datap[o][k].frame # fdp[e][i].frame
    <2>1. fdp[e][i] \in Mapping /\ datap[o][k] \in Mapping BY <1>1, <1>2, <1>3
    <2>2. fdp[e][i] # NoPage /\ fdp[e][i].frame # 0 BY <1>4, <2>1, MapLemma
    <2>3. datap[o][k].frame = fdp[e][i].frame => datap[o][k] # NoPage BY <2>2, MapLemma
    <2> QED BY <1>1, <1>3, <2>2, <2>3 DEF Kinds
  <1>13. StoresOwn(e)
    <2> SUFFICES ASSUME NEW f \in Frames, page'[f] # page[f]
                 PROVE  /\ page'[f].kind = "pipe" => Fifo(page'[f])
                        /\ \A o \in Envs \ {e}, k \in Fds :
                             fdp[o][k].frame # f /\ datap[o][k].frame # f
      BY DEF StoresOwn
    <2>1. PICK i \in {a, b} : f = fdp[e][i].frame /\ page'[f] = Empty BY <1>5
    <2> QED BY <1>6, <1>12, <2>1, ContentsLemma
  <1>14. \A i \in Fds : /\ fdp'[e][i] # NoPage => page'[fdp'[e][i].frame].kind = "fd"
                        /\ datap'[e][i] # NoPage => page'[datap'[e][i].frame].kind = "pipe"
    <2> SUFFICES ASSUME NEW i \in Fds
                 PROVE  /\ fdp'[e][i] # NoPage => page'[fdp'[e][i].frame].kind = "fd"
                        /\ datap[e][i] # NoPage => page'[datap[e][i].frame].kind = "pipe"
      BY <1>5
    <2>1. fdp[e][i] \in Mapping /\ datap[e][i] \in Mapping BY <1>1, <1>2
    <2>2. datap[e][i] # NoPage => page'[datap[e][i].frame].kind = "pipe"
      BY <1>1, <1>5, <1>12, <2>1, MapLemma DEF Kinds
    <2>3. fdp[e][i] # NoPage /\ i \notin {a, b} => page'[fdp[e][i].frame].kind = "fd"
      BY <1>1, <1>5, <1>6, <2>1, MapLemma DEF Kinds
    <2> QED BY <1>7, <2>2, <2>3
  <1>15. Half(fdp'[e], datap'[e], call'[e])
    <2>1. OnlyFd(call[e]) = {a, b} /\ OnlyData(call[e]) = {} BY DEF OnlyFd, OnlyData, a, b
    <2> QED BY <1>1, <1>4, <1>5, <1>7, <1>10, <2>1, IdleLemma DEF Half
  <1>16. /\ Knows(fdp'[e], call'[e]) /\ Fresh(fdp', e, call'[e]) /\ ~Comparing(e)'
         /\ live' = live
    BY <1>5, <1>10, IdleLemma DEF Knows, Fresh, Comparing
  <1> QED BY <1>8, <1>9, <1>10, <1>11, <1>13, <1>14, <1>15, <1>16, IdleLemma, StepLemma DEF Common

\* The second descriptor of pipe(), or err1.
LEMMA PipeFdLemma ==
  ASSUME IInv, NEW e \in live, Ran(e), pipe_fd1(e)
  PROVE  IInv'
PROOF
  <1>1. PICK d, n : d = fd_alloc(e) /\ n = NextFrame OBVIOUS
  <1>2. e \in Envs /\ Types /\ call[e].op = "pipe1" BY DEF IInv, Types, pipe_fd1
  <1>3. CASE d = MAXFD \/ FreeFrames = {} BY <1>1, <1>2, <1>3, UndoLemma DEF pipe_fd1
  <1>4. CASE d # MAXFD /\ FreeFrames # {}
    <2>1. d \in Fds /\ fdp[e][d] = NoPage BY <1>1, <1>2, <1>4, AllocLemma
    <2>2. n \in FreeFrames BY <1>1, <1>2, <1>4, FreeLemma
    <2>3. call[e] \in Pipes /\ call[e].to = call[e].fd
      BY <1>2, CallLemma DEF Types, IInv, Knows
    <2>4. PICK c : c = [[call[e] EXCEPT !.op = "pipe2"] EXCEPT !.to = d] OBVIOUS
    <2>5. c \in Pipes /\ c.op = "pipe2" /\ c.fd = call[e].fd /\ c.to = d
      BY <2>1, <2>3, <2>4 DEF Pipes
    <2>6. OnlyFd(c) = OnlyFd(call[e]) \cup {d} /\ OnlyData(call[e]) = {}
      BY <1>2, <2>3, <2>5 DEF OnlyFd, OnlyData
    <2>7. /\ UNCHANGED <<live, datap>> /\ call' = [call EXCEPT ![e] = c]
          /\ fdp' = [fdp EXCEPT ![e][d] = Page(n)] /\ page' = [page EXCEPT ![n] = NewFd]
      BY <1>1, <1>4, <2>3, <2>4 DEF pipe_fd1, Goto
    <2>8. Common(call[e]) BY <1>2 DEF Common
    <2> QED BY <1>2, <2>1, <2>2, <2>5, <2>6, <2>7, <2>8, AllocFdLemma
  <1> QED BY <1>3, <1>4

\* The ring is allocated.
LEMMA PipeDataLemma ==
  ASSUME IInv, NEW e \in live, Ran(e), pipe_data(e)
  PROVE  IInv'
PROOF
  <1>1. /\ Types /\ Kinds /\ e \in Envs /\ call[e].op = "pipe2"
        /\ Half(fdp[e], datap[e], call[e]) /\ Knows(fdp[e], call[e])
        /\ Fresh(fdp, e, call[e])
    BY DEF IInv, Types, pipe_data
  <1>2. CASE FreeFrames = {} BY <1>1, <1>2, UndoLemma DEF pipe_data
  <1>3. CASE FreeFrames # {}
    <2>1. PICK n, d, c : n = NextFrame /\ d = call[e].fd /\ c = [call[e] EXCEPT !.op = "pipe3"]
      OBVIOUS
    <2>2. /\ fdp \in [Envs -> [Fds -> Mapping]] /\ datap \in [Envs -> [Fds -> Mapping]]
          /\ call \in [Envs -> Calls] /\ page \in [Frames -> Contents]
      BY <1>1 DEF Types
    <2>3. call[e] \in Pipes BY <1>1, <2>2, CallLemma
    <2>4. /\ d \in Fds /\ c \in Pipes /\ c.op = "pipe3" /\ c.fd = d /\ c.to = call[e].to
          /\ c.to \in Fds
      BY <2>1, <2>3 DEF Pipes
    <2>5. /\ n \in FreeFrames /\ n \in Frames
          /\ \A o \in Envs, k \in Fds : fdp[o][k].frame # n /\ datap[o][k].frame # n
      BY <1>1, <1>3, <2>1, FreeLemma
    <2>6. /\ Page(n) \in Mapping /\ Page(n) # NoPage /\ Page(n).frame = n
      BY <2>5, MapLemma
    <2>7. /\ UNCHANGED <<live, fdp>> /\ call' = [call EXCEPT ![e] = c]
          /\ datap' = [datap EXCEPT ![e][d] = Page(n)] /\ page' = [page EXCEPT ![n] = NewPipe]
      BY <1>3, <2>1 DEF pipe_data, Goto
    <2>8. \A i \in Fds : datap'[e][i] = IF i = d THEN Page(n) ELSE datap[e][i]
      BY <1>1, <2>2, <2>7
    <2>9. /\ fdp' \in [Envs -> [Fds -> Mapping]] /\ datap' \in [Envs -> [Fds -> Mapping]]
          /\ page' \in [Frames -> Contents] /\ call' \in [Envs -> Calls]
      <3>1. [datap[e] EXCEPT ![d] = Page(n)] \in [Fds -> Mapping] BY <1>1, <2>2, <2>6
      <3>2. datap' \in [Envs -> [Fds -> Mapping]] BY <2>2, <2>7, <3>1
      <3>3. page' \in [Frames -> Contents] BY <2>2, <2>7, ContentsLemma
      <3>4. call' \in [Envs -> Calls] BY <2>2, <2>4, <2>7 DEF Calls
      <3> QED BY <2>2, <2>7, <3>2, <3>3, <3>4
    <2>10. \A o \in Envs \ {e} : /\ fdp'[o] = fdp[o] /\ datap'[o] = datap[o]
                                 /\ call'[o] = call[o]
      BY <2>2, <2>7
    <2>11. call'[e] = c BY <1>1, <2>2, <2>7
    <2>12. MapsOwn(e) BY <2>5, <2>6, <2>7, <2>8 DEF MapsOwn
    <2>13. \A f \in Frames : page'[f] = IF f = n THEN NewPipe ELSE page[f] BY <2>2, <2>7
    <2>14. StoresOwn(e) BY <2>5, <2>13, ContentsLemma DEF StoresOwn
    <2>15. \A i \in Fds : /\ fdp'[e][i] # NoPage => page'[fdp'[e][i].frame].kind = "fd"
                          /\ datap'[e][i] # NoPage => page'[datap'[e][i].frame].kind = "pipe"
      <3> SUFFICES ASSUME NEW i \in Fds
                   PROVE  /\ fdp[e][i] # NoPage => page'[fdp[e][i].frame].kind = "fd"
                          /\ datap'[e][i] # NoPage => page'[datap'[e][i].frame].kind = "pipe"
        BY <2>7
      <3>1. fdp[e][i] \in Mapping /\ datap[e][i] \in Mapping BY <1>1, <2>2
      <3>2. datap[e][i] # NoPage => page'[datap[e][i].frame].kind = "pipe"
        BY <1>1, <2>5, <2>13, <3>1, MapLemma DEF Kinds
      <3>3. fdp[e][i] # NoPage => page'[fdp[e][i].frame].kind = "fd"
        BY <1>1, <2>5, <2>13, <3>1, MapLemma DEF Kinds
      <3> QED BY <2>5, <2>6, <2>8, <2>13, <3>2, <3>3, ContentsLemma
    <2>16. Half(fdp'[e], datap'[e], call'[e])
      <3>1. /\ OnlyFd(call[e]) = {d, c.to} /\ OnlyData(call[e]) = {}
            /\ OnlyFd(c) = {c.to} /\ OnlyData(c) = {} /\ d # c.to
        BY <1>1, <2>1, <2>4 DEF OnlyFd, OnlyData, Knows
      <3> QED BY <1>1, <2>6, <2>7, <2>8, <2>11, <3>1 DEF Half
    <2>17. Knows(fdp'[e], call'[e])
      <3>1. fdp[e][d] # NoPage BY <1>1, <2>1, <2>4 DEF Half, OnlyFd
      <3> QED BY <1>1, <2>1, <2>4, <2>7, <2>11, <3>1 DEF Knows
    <2>18. Fresh(fdp', e, call'[e]) BY <1>1, <2>1, <2>4, <2>7, <2>11 DEF Fresh
    <2>19. ~Comparing(e)' BY <2>4, <2>11 DEF Comparing
    <2>20. live' = live BY <2>7
    <2>21. Common(call[e]) /\ call'[e].op \notin {"fork", "embryo"}
      BY <1>1, <2>4, <2>11 DEF Common
    <2> QED BY <2>9, <2>10, <2>12, <2>14, <2>15, <2>16, <2>17, <2>18, <2>19, <2>20, <2>21, StepLemma
  <1> QED BY <1>2, <1>3

\* The ring is mapped a second time and the modes are set.
LEMMA PipeMapLemma ==
  ASSUME IInv, NEW e \in live, Ran(e), pipe_map(e)
  PROVE  IInv'
PROOF
  <1>1. /\ Types /\ Kinds /\ e \in Envs /\ call[e].op = "pipe3"
        /\ Half(fdp[e], datap[e], call[e]) /\ Knows(fdp[e], call[e])
        /\ Fresh(fdp, e, call[e])
    BY DEF IInv, Types, pipe_map
  <1>2. /\ fdp \in [Envs -> [Fds -> Mapping]] /\ datap \in [Envs -> [Fds -> Mapping]]
        /\ call \in [Envs -> Calls] /\ page \in [Frames -> Contents]
    BY <1>1 DEF Types
  <1>3. PICK a, b : a = call[e].fd /\ b = call[e].to OBVIOUS
  <1>4. a \in Fds /\ b \in Fds /\ a # b
    BY <1>1, <1>2, <1>3, CallLemma DEF Pipes, Knows
  <1>5. OnlyFd(call[e]) = {b} /\ OnlyData(call[e]) = {} BY <1>1, <1>3 DEF OnlyFd, OnlyData
  <1>6. fdp[e][a] # NoPage /\ fdp[e][b] # NoPage /\ datap[e][a] # NoPage
    BY <1>1, <1>3, <1>4, <1>5 DEF Half, Knows
  <1>7. PICK f, g : f = fdp[e][a].frame /\ g = fdp[e][b].frame OBVIOUS
  <1>8. /\ UNCHANGED <<live, fdp>> /\ call' = [call EXCEPT ![e] = Idle]
        /\ datap' = [datap EXCEPT ![e][b] = datap[e][a]]
        /\ page' = [page EXCEPT ![f].mode = O_RDONLY, ![g].mode = O_WRONLY]
    BY <1>3, <1>7 DEF pipe_map, Return
  <1>9. f \in Frames /\ g \in Frames /\ page[f] \in FdPages /\ page[g] \in FdPages
    <2>1. fdp[e][a] \in Mapping /\ fdp[e][b] \in Mapping BY <1>1, <1>2, <1>4
    <2>2. f \in Frames /\ g \in Frames BY <1>6, <1>7, <2>1, MapLemma
    <2> QED BY <1>1, <1>2, <1>4, <1>6, <1>7, <2>2, ContentsLemma DEF Kinds
  <1>10. f # g BY <1>1, <1>3, <1>4, <1>7 DEF Fresh
  <1>11. PICK p, q : /\ p = [page[f] EXCEPT !.mode = O_RDONLY]
                     /\ q = [page[g] EXCEPT !.mode = O_WRONLY]
    OBVIOUS
  <1>12. p \in FdPages /\ q \in FdPages BY <1>9, <1>11 DEF FdPages
  <1>13. \A h \in Frames : page'[h] = IF h = f THEN p ELSE IF h = g THEN q ELSE page[h]
    BY <1>2, <1>8, <1>9, <1>10, <1>11
  <1>14. p.kind = "fd" /\ q.kind = "fd" BY <1>12 DEF FdPages
  <1>15. \A i \in Fds : datap'[e][i] = IF i = b THEN datap[e][a] ELSE datap[e][i]
    BY <1>1, <1>2, <1>8
  <1>16. /\ fdp' \in [Envs -> [Fds -> Mapping]] /\ datap' \in [Envs -> [Fds -> Mapping]]
         /\ page' \in [Frames -> Contents] /\ call' \in [Envs -> Calls]
    <2>1. [datap[e] EXCEPT ![b] = datap[e][a]] \in [Fds -> Mapping] BY <1>1, <1>2, <1>4
    <2>2. datap' \in [Envs -> [Fds -> Mapping]] BY <1>2, <1>8, <2>1
    <2>3. page' \in [Frames -> Contents]
      <3>1. page' = [h \in Frames |-> page'[h]] BY <1>2, <1>8
      <3>2. \A h \in Frames : page'[h] \in Contents BY <1>2, <1>12, <1>13 DEF Contents
      <3> QED BY <3>1, <3>2
    <2>4. call' \in [Envs -> Calls] BY <1>2, <1>8, IdleLemma
    <2> QED BY <1>2, <1>8, <2>2, <2>3, <2>4
  <1>17. \A o \in Envs \ {e} : /\ fdp'[o] = fdp[o] /\ datap'[o] = datap[o]
                               /\ call'[o] = call[o]
    BY <1>2, <1>8
  <1>18. call'[e] = Idle BY <1>1, <1>2, <1>8
  <1>19. MapsOwn(e) BY <1>4, <1>8, <1>15 DEF MapsOwn
  <1>20. \A o \in Envs, k \in Fds : datap[o][k].frame \notin {f, g}
    <2> SUFFICES ASSUME NEW o \in Envs, NEW k \in Fds, datap[o][k].frame \in {f, g}
                 PROVE  FALSE
      OBVIOUS
    <2>1. datap[o][k] # NoPage BY <1>9, MapLemma
    <2>2. page[datap[o][k].frame].kind = "pipe" BY <1>1, <2>1 DEF Kinds
    <2> QED BY <1>1, <1>4, <1>6, <1>7, <2>2 DEF Kinds
  <1>21. StoresOwn(e)
    <2> SUFFICES ASSUME NEW h \in Frames, page'[h] # page[h]
                 PROVE  /\ page'[h].kind = "pipe" => Fifo(page'[h])
                        /\ \A o \in Envs \ {e}, k \in Fds :
                             fdp[o][k].frame # h /\ datap[o][k].frame # h
      BY DEF StoresOwn
    <2>1. h \in {f, g} /\ page'[h].kind = "fd" BY <1>13, <1>14
    <2>2. \A o \in Envs \ {e}, k \in Fds : fdp[o][k].frame # h
      BY <1>1, <1>3, <1>7, <2>1 DEF Fresh
    <2> QED BY <1>20, <2>1, <2>2
  <1>22. \A i \in Fds : /\ fdp'[e][i] # NoPage => page'[fdp'[e][i].frame].kind = "fd"
                        /\ datap'[e][i] # NoPage => page'[datap'[e][i].frame].kind = "pipe"
    <2> SUFFICES ASSUME NEW i \in Fds
                 PROVE  /\ fdp[e][i] # NoPage => page'[fdp[e][i].frame].kind = "fd"
                        /\ datap'[e][i] # NoPage => page'[datap'[e][i].frame].kind = "pipe"
      BY <1>8
    <2>1. fdp[e][i] \in Mapping BY <1>1, <1>2
    <2>2. fdp[e][i] # NoPage => page'[fdp[e][i].frame].kind = "fd"
      BY <1>1, <1>13, <1>14, <2>1, MapLemma DEF Kinds
    <2>3. \A k \in Fds : datap[e][k] # NoPage => page'[datap[e][k].frame].kind = "pipe"
      <3> SUFFICES ASSUME NEW k \in Fds, datap[e][k] # NoPage
                   PROVE  page'[datap[e][k].frame].kind = "pipe"
        OBVIOUS
      <3>1. datap[e][k].frame \in Frames BY <1>1, <1>2, MapLemma
      <3> QED BY <1>1, <1>13, <1>20, <3>1 DEF Kinds
    <2> QED BY <1>4, <1>15, <2>2, <2>3
  <1>23. Half(fdp'[e], datap'[e], call'[e])
    BY <1>1, <1>4, <1>5, <1>6, <1>8, <1>15, <1>18, IdleLemma DEF Half
  <1>24. /\ Knows(fdp'[e], call'[e]) /\ Fresh(fdp', e, call'[e]) /\ ~Comparing(e)'
         /\ live' = live
    BY <1>8, <1>18, IdleLemma DEF Knows, Fresh, Comparing
  <1>25. Common(call[e]) /\ call'[e].op \notin {"fork", "embryo"}
    BY <1>1, <1>18, IdleLemma DEF Common
  <1> QED BY <1>16, <1>17, <1>19, <1>21, <1>22, <1>23, <1>24, <1>25, StepLemma

-----------------------------------------------------------------------------
(* close() and dup() *)

\* The page behind a mapping that goes is forgotten if nobody else has it.
LEMMA ForgetLemma ==
  ASSUME IInv, NEW e \in Envs, NEW i \in Fds,
         NEW m \in {fdp[e][i], datap[e][i]}, m # NoPage
  PROVE  /\ m.frame \in Frames
         /\ Forget(m) \in [Frames -> Contents]
         /\ \A f \in Frames : Forget(m)[f] # page[f] =>
              /\ Forget(m)[f] = Empty
              /\ \A o \in Envs, k \in Fds :
                   /\ fdp[o][k].frame = f => m = fdp[e][i] /\ o = e /\ k = i
                   /\ datap[o][k].frame = f => m = datap[e][i] /\ o = e /\ k = i
PROOF
  <1>1. Types /\ Kinds /\ page \in [Frames -> Contents] BY DEF IInv, Types
  <1>2. m \in Mapping BY <1>1 DEF Types
  <1>3. m.frame \in Frames BY <1>2, MapLemma
  <1>4. CASE pageref(m) = 1
    <2>1. Forget(m) = [page EXCEPT ![m.frame] = Empty] BY <1>4 DEF Forget
    <2>2. \A o \in Envs, k \in Fds :
            /\ fdp[o][k].frame = m.frame => m = fdp[e][i] /\ o = e /\ k = i
            /\ datap[o][k].frame = m.frame => m = datap[e][i] /\ o = e /\ k = i
      BY <1>1, <1>4, SoleLemma
    <2> QED BY <1>1, <1>3, <2>1, <2>2, ContentsLemma
  <1>5. CASE pageref(m) # 1 BY <1>1, <1>3, <1>5 DEF Forget
  <1> QED BY <1>4, <1>5

\* The descriptor page goes first.
LEMMA UnmapFdLemma ==
  ASSUME IInv, NEW e \in live, Ran(e), devpipe_close(e), call[e].op = "unmap_fd"
  PROVE  IInv'
PROOF
  <1>1. /\ Types /\ Kinds /\ e \in Envs
        /\ Half(fdp[e], datap[e], call[e]) /\ Knows(fdp[e], call[e])
    BY DEF IInv, Types
  <1>2. /\ fdp \in [Envs -> [Fds -> Mapping]] /\ datap \in [Envs -> [Fds -> Mapping]]
        /\ call \in [Envs -> Calls] /\ page \in [Frames -> Contents]
    BY <1>1 DEF Types
  <1>3. PICK i, m, c : /\ i = call[e].fd /\ m = fdp[e][i]
                      /\ c = [call[e] EXCEPT !.op = "unmap_data"]
    OBVIOUS
  <1>4. call[e] \in Closes BY <1>1, <1>2, CallLemma
  <1>5. /\ i \in Fds /\ c \in Closes /\ c.op = "unmap_data" /\ c.fd = i
        /\ c.then = call[e].then
    BY <1>3, <1>4 DEF Closes
  <1>6. /\ UNCHANGED <<live, datap>> /\ call' = [call EXCEPT ![e] = c]
        /\ fdp' = [fdp EXCEPT ![e][i] = NoPage] /\ page' = Forget(m)
    BY <1>3 DEF devpipe_close, Goto
  <1>7. m # NoPage /\ datap[e][i] # NoPage
    BY <1>1, <1>3, <1>5 DEF Half, Knows, OnlyFd, OnlyData
  <1>8. /\ page' \in [Frames -> Contents]
        /\ \A f \in Frames : page'[f] # page[f] =>
             /\ page'[f] = Empty
             /\ \A o \in Envs, k \in Fds :
                  /\ fdp[o][k].frame = f => o = e /\ k = i
                  /\ datap[o][k].frame = f => o = e /\ k = i /\ m = datap[e][i]
    BY <1>1, <1>3, <1>5, <1>6, <1>7, ForgetLemma
  <1>9. m # datap[e][i] BY <1>1, <1>3, <1>5, <1>7 DEF Kinds
  <1>10. \A k \in Fds : fdp'[e][k] = IF k = i THEN NoPage ELSE fdp[e][k]
    BY <1>1, <1>2, <1>6
  <1>11. /\ fdp' \in [Envs -> [Fds -> Mapping]] /\ datap' \in [Envs -> [Fds -> Mapping]]
         /\ call' \in [Envs -> Calls]
    <2>1. [fdp[e] EXCEPT ![i] = NoPage] \in [Fds -> Mapping] BY <1>1, <1>2, MapLemma
    <2>2. fdp' \in [Envs -> [Fds -> Mapping]] BY <1>2, <1>6, <2>1
    <2>3. call' \in [Envs -> Calls] BY <1>2, <1>5, <1>6 DEF Calls
    <2> QED BY <1>2, <1>6, <2>2, <2>3
  <1>12. \A o \in Envs \ {e} : /\ fdp'[o] = fdp[o] /\ datap'[o] = datap[o]
                               /\ call'[o] = call[o]
    BY <1>2, <1>6
  <1>13. call'[e] = c BY <1>1, <1>2, <1>6
  <1>14. MapsOwn(e) BY <1>6, <1>10 DEF MapsOwn
  <1>15. StoresOwn(e) BY <1>8, ContentsLemma DEF StoresOwn
  <1>16. \A k \in Fds : /\ fdp'[e][k] # NoPage => page'[fdp'[e][k].frame].kind = "fd"
                        /\ datap'[e][k] # NoPage => page'[datap'[e][k].frame].kind = "pipe"
    <2> SUFFICES ASSUME NEW k \in Fds
                 PROVE  /\ fdp'[e][k] # NoPage => page'[fdp'[e][k].frame].kind = "fd"
                        /\ datap[e][k] # NoPage => page'[datap[e][k].frame].kind = "pipe"
      BY <1>6
    <2>1. fdp[e][k] \in Mapping /\ datap[e][k] \in Mapping BY <1>1, <1>2
    <2>2. datap[e][k] # NoPage => page'[datap[e][k].frame] = page[datap[e][k].frame]
      BY <1>1, <1>8, <1>9, <2>1, MapLemma
    <2>3. fdp[e][k] # NoPage /\ k # i => page'[fdp[e][k].frame] = page[fdp[e][k].frame]
      BY <1>1, <1>8, <2>1, MapLemma
    <2> QED BY <1>1, <1>10, <2>2, <2>3 DEF Kinds
  <1>17. Half(fdp'[e], datap'[e], call'[e])
    <2>1. /\ OnlyFd(call[e]) = {} /\ OnlyData(call[e]) = {}
          /\ OnlyFd(c) = {} /\ OnlyData(c) = {i}
      BY <1>5 DEF OnlyFd, OnlyData
    <2> QED BY <1>1, <1>6, <1>7, <1>10, <1>13, <2>1 DEF Half
  <1>18. Knows(fdp'[e], call'[e])
    <2> SUFFICES ASSUME c.then.op = "dup_data"
                 PROVE  i = c.then.to /\ (c.then.fd # c.then.to => fdp'[e][c.then.fd] # NoPage)
      BY <1>5, <1>13 DEF Knows
    <2>1. c.then \in StartDups BY <1>5, IdleLemma DEF Closes, Exits
    <2>2. i = c.then.to /\ (c.then.fd # c.then.to => fdp[e][c.then.fd] # NoPage)
      BY <1>1, <1>3, <1>5 DEF Knows
    <2> QED BY <1>10, <2>1, <2>2 DEF StartDups
  <1>19. /\ Fresh(fdp', e, call'[e]) /\ ~Comparing(e)' /\ live' = live
         /\ Common(call[e]) /\ call'[e].op \notin {"fork", "embryo"}
    BY <1>5, <1>6, <1>13 DEF Fresh, Comparing, Common
  <1> QED BY <1>8, <1>11, <1>12, <1>14, <1>15, <1>16, <1>17, <1>18, <1>19, StepLemma

\* Then the data page; after it the call goes on that close was part of.
LEMMA UnmapDataLemma ==
  ASSUME IInv, NEW e \in live, Ran(e), devpipe_close(e), call[e].op = "unmap_data"
  PROVE  IInv'
PROOF
  <1>1. /\ Types /\ Kinds /\ e \in Envs
        /\ Half(fdp[e], datap[e], call[e]) /\ Knows(fdp[e], call[e])
    BY DEF IInv, Types
  <1>2. /\ fdp \in [Envs -> [Fds -> Mapping]] /\ datap \in [Envs -> [Fds -> Mapping]]
        /\ call \in [Envs -> Calls] /\ page \in [Frames -> Contents]
    BY <1>1 DEF Types
  <1>3. PICK i, m, c : i = call[e].fd /\ m = datap[e][i] /\ c = call[e].then OBVIOUS
  <1>4. call[e] \in Closes BY <1>1, <1>2, CallLemma
  <1>5. i \in Fds /\ c \in {Idle} \cup StartDups \cup Exits BY <1>3, <1>4 DEF Closes
  <1>6. /\ UNCHANGED <<live, fdp>> /\ call' = [call EXCEPT ![e] = c]
        /\ datap' = [datap EXCEPT ![e][i] = NoPage] /\ page' = Forget(m)
    BY <1>3 DEF devpipe_close, Goto
  <1>7. /\ OnlyFd(call[e]) = {} /\ OnlyData(call[e]) = {i}
    BY <1>3 DEF OnlyFd, OnlyData
  <1>8. m # NoPage /\ fdp[e][i] = NoPage BY <1>1, <1>3, <1>5, <1>7 DEF Half
  <1>9. /\ page' \in [Frames -> Contents]
        /\ \A f \in Frames : page'[f] # page[f] =>
             /\ page'[f] = Empty
             /\ \A o \in Envs, k \in Fds :
                  /\ fdp[o][k].frame = f => o = e /\ k = i
                  /\ datap[o][k].frame = f => o = e /\ k = i
    BY <1>1, <1>3, <1>5, <1>6, <1>8, ForgetLemma
  <1>10. \A k \in Fds : datap'[e][k] = IF k = i THEN NoPage ELSE datap[e][k]
    BY <1>1, <1>2, <1>6
  <1>11. c.op \in {"idle", "dup_data", "exit"} /\ c \in Calls
    BY <1>5, IdleLemma DEF Exits, StartDups, Calls, Dups
  <1>12. /\ fdp' \in [Envs -> [Fds -> Mapping]] /\ datap' \in [Envs -> [Fds -> Mapping]]
         /\ call' \in [Envs -> Calls]
    <2>1. [datap[e] EXCEPT ![i] = NoPage] \in [Fds -> Mapping] BY <1>1, <1>2, MapLemma
    <2>2. datap' \in [Envs -> [Fds -> Mapping]] BY <1>2, <1>6, <2>1
    <2>3. call' \in [Envs -> Calls] BY <1>2, <1>6, <1>11
    <2> QED BY <1>2, <1>6, <2>2, <2>3
  <1>13. \A o \in Envs \ {e} : /\ fdp'[o] = fdp[o] /\ datap'[o] = datap[o]
                               /\ call'[o] = call[o]
    BY <1>2, <1>6
  <1>14. call'[e] = c BY <1>1, <1>2, <1>6
  <1>15. MapsOwn(e) BY <1>6, <1>10 DEF MapsOwn
  <1>16. StoresOwn(e) BY <1>9, ContentsLemma DEF StoresOwn
  <1>17. \A k \in Fds : /\ fdp'[e][k] # NoPage => page'[fdp'[e][k].frame].kind = "fd"
                        /\ datap'[e][k] # NoPage => page'[datap'[e][k].frame].kind = "pipe"
    <2> SUFFICES ASSUME NEW k \in Fds
                 PROVE  /\ fdp[e][k] # NoPage => page'[fdp[e][k].frame].kind = "fd"
                        /\ datap'[e][k] # NoPage => page'[datap'[e][k].frame].kind = "pipe"
      BY <1>6
    <2>1. fdp[e][k] \in Mapping /\ datap[e][k] \in Mapping BY <1>1, <1>2
    <2>2. datap[e][k] # NoPage /\ k # i => page'[datap[e][k].frame] = page[datap[e][k].frame]
      BY <1>1, <1>9, <2>1, MapLemma
    <2>3. fdp[e][k] # NoPage => page'[fdp[e][k].frame] = page[fdp[e][k].frame]
      BY <1>1, <1>8, <1>9, <2>1, MapLemma
    <2> QED BY <1>1, <1>10, <2>2, <2>3 DEF Kinds
  <1>18. Half(fdp'[e], datap'[e], call'[e])
    <2>1. OnlyFd(c) = {} /\ OnlyData(c) = {} BY <1>11, PlainLemma DEF Plain
    <2> QED BY <1>1, <1>6, <1>7, <1>8, <1>10, <1>14, <2>1 DEF Half
  <1>19. Knows(fdp'[e], call'[e]) BY <1>1, <1>3, <1>6, <1>8, <1>11, <1>14 DEF Knows
  <1>20. /\ Fresh(fdp', e, call'[e]) /\ ~Comparing(e)' /\ live' = live
         /\ Common(call[e]) /\ call'[e].op \notin {"fork", "embryo"}
    BY <1>6, <1>11, <1>14 DEF Fresh, Comparing, Common
  <1> QED BY <1>9, <1>12, <1>13, <1>15, <1>16, <1>17, <1>18, <1>19, <1>20, StepLemma

\* dup maps the data page, then the descriptor page.
LEMMA DupLemma ==
  ASSUME IInv, NEW e \in live, Ran(e), dup(e)
  PROVE  IInv'
PROOF
  <1>1. /\ Types /\ Kinds /\ e \in Envs
        /\ Half(fdp[e], datap[e], call[e]) /\ Knows(fdp[e], call[e])
        /\ call[e].op \in {"dup_data", "dup_fd"}
    BY DEF IInv, Types, dup
  <1>2. /\ fdp \in [Envs -> [Fds -> Mapping]] /\ datap \in [Envs -> [Fds -> Mapping]]
        /\ call \in [Envs -> Calls] /\ page \in [Frames -> Contents]
    BY <1>1 DEF Types
  <1>3. PICK a, b : a = call[e].fd /\ b = call[e].to OBVIOUS
  <1>4. call[e] \in Dups /\ a \in Fds /\ b \in Fds BY <1>1, <1>2, <1>3, CallLemma DEF Dups
  <1>5. fdp[e][b] = NoPage /\ (fdp[e][a] = NoPage <=> a = b) BY <1>1, <1>3 DEF Knows
  <1>6. UNCHANGED <<live, page>> BY DEF dup
  <1>7. StoresOwn(e) BY <1>6 DEF StoresOwn
  <1>8. CASE call[e].op = "dup_data"
    <2>1. PICK c : c = [call[e] EXCEPT !.op = "dup_fd"] OBVIOUS
    <2>2. c \in Dups /\ c.op = "dup_fd" /\ c.fd = a /\ c.to = b BY <1>3, <1>4, <2>1 DEF Dups
    <2>3. /\ fdp' = fdp /\ call' = [call EXCEPT ![e] = c]
          /\ datap' = [datap EXCEPT ![e][b] = datap[e][a]]
      BY <1>3, <1>8, <2>1 DEF dup, Goto
    <2>4. \A i \in Fds : datap'[e][i] = IF i = b THEN datap[e][a] ELSE datap[e][i]
      BY <1>1, <1>2, <2>3
    <2>5. /\ fdp' \in [Envs -> [Fds -> Mapping]] /\ datap' \in [Envs -> [Fds -> Mapping]]
          /\ page' \in [Frames -> Contents] /\ call' \in [Envs -> Calls]
      <3>1. [datap[e] EXCEPT ![b] = datap[e][a]] \in [Fds -> Mapping] BY <1>1, <1>2, <1>4
      <3>2. datap' \in [Envs -> [Fds -> Mapping]] BY <1>2, <2>3, <3>1
      <3>3. call' \in [Envs -> Calls] BY <1>2, <2>2, <2>3 DEF Calls
      <3> QED BY <1>2, <1>6, <2>3, <3>2, <3>3
    <2>6. \A o \in Envs \ {e} : /\ fdp'[o] = fdp[o] /\ datap'[o] = datap[o]
                                /\ call'[o] = call[o]
      BY <1>2, <2>3
    <2>7. call'[e] = c BY <1>1, <1>2, <2>3
    <2>8. MapsOwn(e) BY <1>4, <2>3, <2>4 DEF MapsOwn
    <2>9. \A i \in Fds : /\ fdp'[e][i] # NoPage => page'[fdp'[e][i].frame].kind = "fd"
                         /\ datap'[e][i] # NoPage => page'[datap'[e][i].frame].kind = "pipe"
      BY <1>1, <1>4, <1>6, <2>3, <2>4 DEF Kinds
    <2>10. Half(fdp'[e], datap'[e], call'[e])
      <3>1. /\ OnlyFd(call[e]) = {} /\ OnlyData(call[e]) = {}
            /\ OnlyFd(c) = {} /\ OnlyData(c) = {b} \ {a}
        BY <1>8, <2>2 DEF OnlyFd, OnlyData
      <3>2. \A i \in Fds : fdp[e][i] = NoPage <=> datap[e][i] = NoPage
        BY <1>1, <3>1 DEF Half
      <3> QED BY <1>4, <1>5, <2>3, <2>4, <2>7, <3>1, <3>2 DEF Half
    <2>11. Knows(fdp'[e], call'[e]) BY <1>5, <2>2, <2>3, <2>7 DEF Knows
    <2>12. /\ Fresh(fdp', e, call'[e]) /\ ~Comparing(e)' /\ live' = live
           /\ Common(call[e]) /\ call'[e].op \notin {"fork", "embryo"}
      BY <1>6, <1>8, <2>2, <2>7 DEF Fresh, Comparing, Common
    <2> QED BY <1>7, <2>5, <2>6, <2>8, <2>9, <2>10, <2>11, <2>12, StepLemma
  <1>9. CASE call[e].op = "dup_fd"
    <2>1. /\ datap' = datap /\ call' = [call EXCEPT ![e] = Idle]
          /\ fdp' = [fdp EXCEPT ![e][b] = fdp[e][a]]
      BY <1>3, <1>9 DEF dup, Return
    <2>2. \A i \in Fds : fdp'[e][i] = IF i = b THEN fdp[e][a] ELSE fdp[e][i]
      BY <1>1, <1>2, <2>1
    <2>3. /\ fdp' \in [Envs -> [Fds -> Mapping]] /\ datap' \in [Envs -> [Fds -> Mapping]]
          /\ page' \in [Frames -> Contents] /\ call' \in [Envs -> Calls]
      <3>1. [fdp[e] EXCEPT ![b] = fdp[e][a]] \in [Fds -> Mapping] BY <1>1, <1>2, <1>4
      <3>2. fdp' \in [Envs -> [Fds -> Mapping]] BY <1>2, <2>1, <3>1
      <3> QED BY <1>2, <1>6, <2>1, <3>2, IdleLemma
    <2>4. \A o \in Envs \ {e} : /\ fdp'[o] = fdp[o] /\ datap'[o] = datap[o]
                                /\ call'[o] = call[o]
      BY <1>2, <2>1
    <2>5. call'[e] = Idle BY <1>1, <1>2, <2>1
    <2>6. MapsOwn(e) BY <1>4, <2>1, <2>2 DEF MapsOwn
    <2>7. \A i \in Fds : /\ fdp'[e][i] # NoPage => page'[fdp'[e][i].frame].kind = "fd"
                         /\ datap'[e][i] # NoPage => page'[datap'[e][i].frame].kind = "pipe"
      BY <1>1, <1>4, <1>6, <2>1, <2>2 DEF Kinds
    <2>8. Half(fdp'[e], datap'[e], call'[e])
      <3>1. OnlyFd(call[e]) = {} /\ OnlyData(call[e]) = {b} \ {a}
        BY <1>3, <1>9 DEF OnlyFd, OnlyData
      <3> QED BY <1>1, <1>4, <1>5, <2>1, <2>2, <2>5, <3>1, IdleLemma DEF Half
    <2>9. /\ Knows(fdp'[e], call'[e]) /\ Fresh(fdp', e, call'[e]) /\ ~Comparing(e)'
          /\ live' = live /\ Common(call[e]) /\ call'[e].op \notin {"fork", "embryo"}
      BY <1>6, <1>9, <2>5, IdleLemma DEF Knows, Fresh, Comparing, Common
    <2> QED BY <1>7, <2>3, <2>4, <2>6, <2>7, <2>8, <2>9, StepLemma
  <1> QED BY <1>1, <1>8, <1>9

-----------------------------------------------------------------------------
(* read() and write() *)

\* Two positions less than a ring apart have different places in it.
LEMMA ModLemma ==
  ASSUME NEW P \in Nat, P > 0, NEW k \in Nat, NEW w \in Nat, k < w, w - k < P
  PROVE  k % P # w % P /\ w % P \in 0..(P - 1)
PROOF
  <1>1. PICK q, r : q = k \div P /\ r = k % P OBVIOUS
  <1>2. PICK s, t : s = w \div P /\ t = w % P OBVIOUS
  <1>3. q \in Nat /\ r \in 0..(P - 1) /\ k = P * q + r BY <1>1
  <1>4. s \in Nat /\ t \in 0..(P - 1) /\ w = P * s + t BY <1>2
  <1>5. ASSUME r = t PROVE FALSE
    <2>1. w - k = P * s - P * q BY <1>3, <1>4, <1>5
    <2>2. CASE s <= q
      <3>1. PICK d \in Nat : q = s + d
        <4>1. q - s \in Nat /\ q = s + (q - s) BY <1>3, <1>4, <2>2
        <4> QED BY <4>1
      <3>2. P * q = P * s + P * d BY <1>4, <3>1
      <3>3. P * d >= 0 BY <3>1
      <3> QED BY <1>3, <1>4, <2>1, <3>2, <3>3
    <2>3. CASE s > q
      <3>1. PICK d \in Nat : s = q + 1 + d
        <4>1. s - q - 1 \in Nat /\ s = q + 1 + (s - q - 1) BY <1>3, <1>4, <2>3
        <4> QED BY <4>1
      <3>2. P * s = P * q + P + P * d BY <1>3, <3>1
      <3>3. P * d >= 0 BY <3>1
      <3> QED BY <1>3, <1>4, <2>1, <3>2, <3>3
    <2> QED BY <1>3, <1>4, <2>2, <2>3
  <1> QED BY <1>1, <1>2, <1>4, <1>5

\* Taking a byte from a ring, and storing one, leave it a queue.
LEMMA FifoLemma ==
  ASSUME NEW p \in Rings, Fifo(p)
  PROVE  /\ ~empty(p) => LET t == [p EXCEPT !.rpos = @ + 1] IN t \in Rings /\ Fifo(t)
         /\ ~full(p) /\ p.wpos < MaxPos =>
              LET s == [p EXCEPT !.buf[p.wpos % PIPEBUFSIZ] = p.wpos + 1, !.wpos = @ + 1]
              IN  s \in Rings /\ Fifo(s)
PROOF
  <1>1. PIPEBUFSIZ \in Nat /\ PIPEBUFSIZ > 0 /\ MaxPos \in Nat BY PipeAssumption
  <1>2. /\ p.rpos \in Nat /\ p.wpos \in Nat /\ p.wpos \in 0..MaxPos
        /\ p.buf \in [0..(PIPEBUFSIZ - 1) -> Nat]
        /\ p = [kind |-> "pipe", rpos |-> p.rpos, wpos |-> p.wpos, buf |-> p.buf]
    BY <1>1 DEF Rings
  <1>3. /\ p.wpos - p.rpos \in 0..PIPEBUFSIZ
        /\ \A k \in p.rpos..(p.wpos - 1) : p.buf[k % PIPEBUFSIZ] = k + 1
    BY DEF Fifo
  <1>4. ASSUME ~empty(p), NEW t, t = [p EXCEPT !.rpos = @ + 1]
        PROVE  t \in Rings /\ Fifo(t)
    <2>1. p.rpos # p.wpos BY <1>4 DEF empty
    <2>2. t.rpos = p.rpos + 1 /\ t.wpos = p.wpos /\ t.buf = p.buf /\ t \in Rings
      BY <1>2, <1>4 DEF Rings
    <2>3. t.wpos - t.rpos \in 0..PIPEBUFSIZ BY <1>1, <1>2, <1>3, <2>1, <2>2
    <2>4. \A k \in t.rpos..(t.wpos - 1) : k \in p.rpos..(p.wpos - 1) BY <1>2, <2>2
    <2> QED BY <1>3, <2>2, <2>3, <2>4 DEF Fifo
  <1>5. ASSUME ~full(p), p.wpos < MaxPos, NEW s,
               s = [p EXCEPT !.buf[p.wpos % PIPEBUFSIZ] = p.wpos + 1, !.wpos = @ + 1]
        PROVE  s \in Rings /\ Fifo(s)
    <2>1. p.wpos < p.rpos + PIPEBUFSIZ BY <1>1, <1>2, <1>5 DEF full
    <2>2. PICK a, b : a = p.wpos % PIPEBUFSIZ /\ b = [p.buf EXCEPT ![a] = p.wpos + 1]
      OBVIOUS
    <2>3. a \in 0..(PIPEBUFSIZ - 1) BY <1>1, <1>2, <2>2
    <2>4. b \in [0..(PIPEBUFSIZ - 1) -> Nat] BY <1>2, <2>2, <2>3
    <2>5. PICK t : t = [p EXCEPT !.buf = b] OBVIOUS
    <2>6. s.rpos = p.rpos /\ s.wpos = p.wpos + 1 /\ s.buf = b /\ s \in Rings
      <3>1. s = [[p EXCEPT !.buf = [p.buf EXCEPT ![a] = p.wpos + 1]] EXCEPT !.wpos = p.wpos + 1]
        BY <1>2, <1>5, <2>2, <2>3
      <3>2. s = [t EXCEPT !.wpos = p.wpos + 1] BY <2>2, <2>5, <3>1
      <3>3. t.rpos = p.rpos /\ t.wpos = p.wpos /\ t.buf = b /\ t \in Rings
        BY <2>4, <2>5 DEF Rings
      <3>4. s.rpos = t.rpos /\ s.wpos = p.wpos + 1 /\ s.buf = t.buf
        BY <3>2, <3>3 DEF Rings
      <3>5. p.wpos + 1 \in 0..MaxPos BY <1>1, <1>2, <1>5
      <3>6. s \in Rings BY <3>2, <3>3, <3>5 DEF Rings
      <3> QED BY <3>3, <3>4, <3>6
    <2>7. s.wpos - s.rpos \in 0..PIPEBUFSIZ BY <1>1, <1>2, <1>3, <2>1, <2>6
    <2>8. ASSUME NEW k \in s.rpos..(s.wpos - 1) PROVE s.buf[k % PIPEBUFSIZ] = k + 1
      <3>1. CASE k = p.wpos BY <1>2, <2>2, <2>3, <2>6, <3>1
      <3>2. CASE k # p.wpos
        <4>1. /\ k \in p.rpos..(p.wpos - 1) /\ k \in Nat /\ k < p.wpos
              /\ p.wpos - k < PIPEBUFSIZ
          BY <1>1, <1>2, <2>1, <2>6, <3>2
        <4>2. k % PIPEBUFSIZ # a BY <1>1, <1>2, <2>2, <4>1, ModLemma
        <4>3. p.buf[k % PIPEBUFSIZ] = k + 1 BY <1>3, <4>1
        <4>4. k % PIPEBUFSIZ \in 0..(PIPEBUFSIZ - 1) BY <1>1, <4>1
        <4> QED BY <1>2, <2>2, <2>6, <4>2, <4>3, <4>4
      <3> QED BY <3>1, <3>2
    <2> QED BY <2>6, <2>7, <2>8 DEF Fifo
  <1> QED BY <1>4, <1>5

\* One byte is taken or stored: in place, if nobody else maps the ring, in a
\* copy of the ring if it is copy-on-write.
LEMMA StoreLemma ==
  ASSUME IInv, NEW e \in live, Ran(e), UNCHANGED <<live, fdp>>,
         call[e].op \in {"read", "write"}, call[e].ref = 0,
         NEW p \in Rings, Fifo(p),
         CanStore(e, call[e].fd), Store(e, call[e].fd, p),
         call' = [call EXCEPT ![e] = [call[e] EXCEPT !.i = @ + 1]]
  PROVE  IInv'
PROOF
  <1>1. /\ Types /\ Kinds /\ CowShared /\ e \in Envs
        /\ Half(fdp[e], datap[e], call[e]) /\ Knows(fdp[e], call[e])
    BY DEF IInv, Types
  <1>2. /\ fdp \in [Envs -> [Fds -> Mapping]] /\ datap \in [Envs -> [Fds -> Mapping]]
        /\ call \in [Envs -> Calls] /\ page \in [Frames -> Contents]
    BY <1>1 DEF Types
  <1>3. PICK d, m, c : d = call[e].fd /\ m = datap[e][d] /\ c = [call[e] EXCEPT !.i = @ + 1]
    OBVIOUS
  <1>4. /\ call[e] \in Ios /\ d \in Fds /\ m # NoPage /\ fdp[e][d] # NoPage
        /\ m.frame \in Frames /\ OnlyFd(call[e]) = {} /\ OnlyData(call[e]) = {}
    BY <1>1, <1>3, IoLemma
  <1>5. c \in Ios /\ c.op = call[e].op /\ c.fd = d /\ c.ref = 0 BY <1>3, <1>4 DEF Ios
  <1>6. call' = [call EXCEPT ![e] = c] BY <1>3
  <1>7. call' \in [Envs -> Calls] /\ call'[e] = c BY <1>1, <1>2, <1>5, <1>6 DEF Calls
  <1>8. /\ Knows(fdp'[e], call'[e]) /\ Fresh(fdp', e, call'[e]) /\ ~Comparing(e)'
        /\ OnlyFd(c) = {} /\ OnlyData(c) = {}
        /\ Common(call[e]) /\ call'[e].op \notin {"fork", "embryo"} /\ ~Forking(call[e])
    BY <1>1, <1>3, <1>4, <1>5, <1>7
       DEF Knows, Fresh, Comparing, OnlyFd, OnlyData, Common, Forking
  <1>9. p \in Contents /\ p.kind = "pipe" BY DEF Contents, Rings
  <1>10. ASSUME NEW o \in Envs, NEW k \in Fds PROVE fdp[o][k].frame # m.frame
    <2>1. fdp[o][k] \in Mapping BY <1>2
    <2>2. fdp[o][k] # NoPage => page[fdp[o][k].frame].kind = "fd" BY <1>1 DEF Kinds
    <2>3. page[m.frame].kind = "pipe" BY <1>1, <1>3, <1>4 DEF Kinds
    <2> QED BY <1>4, <2>1, <2>2, <2>3, MapLemma
  <1>11. CASE ~m.cow
    <2>1. page' = [page EXCEPT ![m.frame] = p] /\ datap' = datap
      BY <1>3, <1>11 DEF Store
    <2>2. \A o \in Envs \ {e}, k \in Fds : datap[o][k].frame # m.frame
      BY <1>1, <1>3, <1>4, <1>8, <1>11 DEF CowShared
    <2>3. \A f \in Frames : page'[f] = IF f = m.frame THEN p ELSE page[f] BY <1>2, <2>1
    <2>4. page' \in [Frames -> Contents] BY <1>2, <1>9, <2>1
    <2>5. \A o \in Envs \ {e} : /\ fdp'[o] = fdp[o] /\ datap'[o] = datap[o]
                                /\ call'[o] = call[o]
      BY <1>2, <1>6, <2>1
    <2>6. MapsOwn(e) BY <2>1 DEF MapsOwn
    <2>7. StoresOwn(e) BY <1>10, <2>2, <2>3 DEF StoresOwn
    <2>8. \A i \in Fds : /\ fdp'[e][i] # NoPage => page'[fdp'[e][i].frame].kind = "fd"
                         /\ datap'[e][i] # NoPage => page'[datap'[e][i].frame].kind = "pipe"
      <3> SUFFICES ASSUME NEW i \in Fds
                   PROVE  /\ fdp[e][i] # NoPage => page'[fdp[e][i].frame].kind = "fd"
                          /\ datap[e][i] # NoPage => page'[datap[e][i].frame].kind = "pipe"
        BY <2>1
      <3>1. fdp[e][i] \in Mapping /\ datap[e][i] \in Mapping BY <1>1, <1>2
      <3> QED BY <1>1, <1>9, <1>10, <2>3, <3>1, MapLemma DEF Kinds
    <2>9. Half(fdp'[e], datap'[e], call'[e]) BY <1>1, <1>4, <1>7, <1>8, <2>1 DEF Half
    <2>10. /\ live' = live /\ fdp' \in [Envs -> [Fds -> Mapping]]
           /\ datap' \in [Envs -> [Fds -> Mapping]]
      BY <1>2, <2>1
    <2> QED BY <1>7, <1>8, <2>4, <2>5, <2>6, <2>7, <2>8, <2>9, <2>10, StepLemma
  <1>12. CASE m.cow
    <2>1. PICK n : n = NextFrame OBVIOUS
    <2>2. /\ n \in FreeFrames /\ n \in Frames
          /\ \A o \in Envs, k \in Fds : fdp[o][k].frame # n /\ datap[o][k].frame # n
      BY <1>1, <1>3, <1>12, <2>1, FreeLemma DEF CanStore
    <2>3. Page(n) \in Mapping /\ Page(n) # NoPage /\ Page(n).frame = n BY <2>2, MapLemma
    <2>4. page' = [Forget(m) EXCEPT ![n] = p] /\ datap' = [datap EXCEPT ![e][d] = Page(n)]
      BY <1>3, <1>12, <2>1 DEF Store
    <2>5. /\ Forget(m) \in [Frames -> Contents]
          /\ \A f \in Frames : Forget(m)[f] # page[f] =>
               /\ Forget(m)[f] = Empty
               /\ \A o \in Envs, k \in Fds :
                    /\ fdp[o][k].frame = f => m = fdp[e][d] /\ o = e /\ k = d
                    /\ datap[o][k].frame = f => o = e /\ k = d
      BY <1>1, <1>3, <1>4, ForgetLemma
    <2>6. \A f \in Frames : page'[f] = IF f = n THEN p ELSE Forget(m)[f] BY <2>4, <2>5
    <2>7. \A i \in Fds : datap'[e][i] = IF i = d THEN Page(n) ELSE datap[e][i]
      BY <1>1, <1>2, <2>4
    <2>8. /\ page' \in [Frames -> Contents] /\ datap' \in [Envs -> [Fds -> Mapping]]
      <3>1. [datap[e] EXCEPT ![d] = Page(n)] \in [Fds -> Mapping] BY <1>1, <1>2, <2>3
      <3> QED BY <1>2, <1>9, <2>4, <2>5, <3>1
    <2>9. \A o \in Envs \ {e} : /\ fdp'[o] = fdp[o] /\ datap'[o] = datap[o]
                                /\ call'[o] = call[o]
      BY <1>2, <1>6, <2>4
    <2>10. MapsOwn(e) BY <2>2, <2>3, <2>7 DEF MapsOwn
    <2>11. m # fdp[e][d] BY <1>1, <1>4, <1>10
    <2>12. StoresOwn(e) BY <2>2, <2>5, <2>6, ContentsLemma DEF StoresOwn
    <2>13. \A i \in Fds : /\ fdp'[e][i] # NoPage => page'[fdp'[e][i].frame].kind = "fd"
                          /\ datap'[e][i] # NoPage => page'[datap'[e][i].frame].kind = "pipe"
      <3> SUFFICES ASSUME NEW i \in Fds
                   PROVE  /\ fdp[e][i] # NoPage => page'[fdp[e][i].frame].kind = "fd"
                          /\ datap'[e][i] # NoPage => page'[datap'[e][i].frame].kind = "pipe"
        OBVIOUS
      <3>1. fdp[e][i] \in Mapping /\ datap[e][i] \in Mapping BY <1>1, <1>2
      <3>2. fdp[e][i] # NoPage => page'[fdp[e][i].frame] = page[fdp[e][i].frame]
        BY <1>1, <2>2, <2>5, <2>6, <2>11, <3>1, MapLemma
      <3>3. datap[e][i] # NoPage /\ i # d => page'[datap[e][i].frame] = page[datap[e][i].frame]
        BY <1>1, <2>2, <2>5, <2>6, <3>1, MapLemma
      <3> QED BY <1>1, <1>9, <2>2, <2>3, <2>6, <2>7, <3>2, <3>3 DEF Kinds
    <2>14. Half(fdp'[e], datap'[e], call'[e])
      BY <1>1, <1>4, <1>7, <1>8, <2>3, <2>7 DEF Half
    <2>15. live' = live /\ fdp' \in [Envs -> [Fds -> Mapping]] BY <1>2
    <2> QED BY <1>7, <1>8, <2>8, <2>9, <2>10, <2>12, <2>13, <2>14, <2>15, StepLemma
  <1> QED BY <1>11, <1>12

\* Nobody who finds something to read, or room, is comparing the counts.
LEMMA IoStepLemma ==
  ASSUME IInv, NEW e \in live, Ran(e), devpipe_read(e) \/ devpipe_write(e)
  PROVE  IInv'
PROOF
  <1>1. e \in Envs /\ call[e].op \in {"read", "write"}
    BY DEF IInv, Types, devpipe_read, devpipe_write
  <1>2. call[e] \in Ios BY <1>1, IoLemma
  <1>3. PICK q : q = Ring(e, call[e].fd) OBVIOUS
  <1>4. q \in Rings /\ Fifo(q) BY <1>1, <1>3, IoLemma
  <1>5. call[e].ref = 0
    <2>1. call[e].op = "read" => ~empty(q) BY <1>3 DEF devpipe_read, devpipe_write
    <2>2. call[e].op = "write" => ~full(q) BY <1>3 DEF devpipe_read, devpipe_write
    <2>3. ~Blocked(e) BY <1>1, <1>3, <2>1, <2>2 DEF Blocked
    <2> QED BY <1>1, <2>3 DEF IInv, Waiting, Comparing
  <1>6. CASE devpipe_read(e)
    <2>1. PICK p : p = [q EXCEPT !.rpos = @ + 1] OBVIOUS
    <2>2. p \in Rings /\ Fifo(p) BY <1>3, <1>4, <1>6, <2>1, FifoLemma DEF devpipe_read
    <2> QED BY <1>1, <1>3, <1>5, <1>6, <2>1, <2>2, StoreLemma DEF devpipe_read, Goto
  <1>7. CASE devpipe_write(e)
    <2>1. PICK p : p = [q EXCEPT !.buf[q.wpos % PIPEBUFSIZ] = q.wpos + 1, !.wpos = @ + 1]
      OBVIOUS
    <2>2. p \in Rings /\ Fifo(p) BY <1>3, <1>4, <1>7, <2>1, FifoLemma DEF devpipe_write
    <2> QED BY <1>1, <1>3, <1>5, <1>7, <2>1, <2>2, StoreLemma DEF devpipe_write, Goto
  <1> QED BY <1>6, <1>7

-----------------------------------------------------------------------------
(* fork, and all steps *)

\* Copy-on-write changes the permissions of a mapping only.
LEMMA CowLemma ==
  ASSUME NEW m \in Mapping
  PROVE  /\ Cow(m) \in Mapping /\ Cow(m).frame = m.frame /\ (Cow(m) = NoPage <=> m = NoPage)
         /\ m # NoPage => Cow(m).cow = TRUE
PROOF
  <1>1. CASE m = NoPage BY <1>1 DEF Cow
  <1>2. CASE m # NoPage
    <2>1. m \in [frame : Frames, cow : BOOLEAN] BY <1>2 DEF Mapping
    <2>2. Cow(m) = [m EXCEPT !.cow = TRUE] BY <1>2 DEF Cow
    <2>3. Cow(m) \in Mapping /\ Cow(m).frame = m.frame /\ Cow(m).cow = TRUE
      BY <2>1, <2>2 DEF Mapping
    <2>4. Cow(m).frame # 0 BY <1>2, <2>3, MapLemma
    <2> QED BY <1>2, <2>3, <2>4, MapLemma
  <1> QED BY <1>1, <1>2

\* What a fork of e with the child c does to a table of mappings: nothing, or
\* it gives a page of e to the child, copy-on-write in both.
Given(new, old, e, c) ==
  \A i \in Fds :
    \/ new[e][i] = old[e][i] /\ new[c][i] = old[c][i]
    \/ /\ old[e][i] # NoPage
       /\ new[e][i] = Cow(old[e][i]) /\ new[c][i] = Cow(old[e][i])

\* The parent and the child of a fork: it goes on, or it is over and the child
\* has all that the parent has.
Goes(x, y, c) == x.op = "fork" /\ x.child = c /\ y = Embryo /\ live' = live
Ends(x, y, e, c) ==
  /\ x = Idle /\ y = Idle /\ live' = live \cup {c} /\ UNCHANGED <<fdp, datap>>
  /\ call[e].op = "fork"
  /\ \A i \in Fds : /\ fdp[e][i] = NoPage <=> fdp[c][i] = NoPage
                    /\ datap[e][i] = NoPage <=> datap[c][i] = NoPage

\* A step of a fork: the parent is in no other call, and nobody else knows the
\* child; everybody else knows what it knew.
LEMMA FamilyLemma ==
  ASSUME IInv, NEW e \in live, NEW c \in Envs \ live, Ran(e), UNCHANGED page,
         \/ call[e].op = "fork" /\ call[e].child = c
         \/ call[e] = Idle /\ call[c] = Idle,
         NEW x \in Calls, NEW y \in Calls, call' = [call EXCEPT ![e] = x, ![c] = y],
         Goes(x, y, c) \/ Ends(x, y, e, c),
         fdp' \in [Envs -> [Fds -> Mapping]], datap' \in [Envs -> [Fds -> Mapping]],
         \A o \in Envs \ {e, c} : fdp'[o] = fdp[o] /\ datap'[o] = datap[o],
         Given(fdp', fdp, e, c), Given(datap', datap, e, c)
  PROVE  IInv'
PROOF
  <1>1. /\ Types /\ Kinds /\ AllFifo /\ CowShared /\ Building /\ Waiting /\ e \in Envs
        /\ \A o \in Envs : /\ Unborn(o)
                           /\ Half(fdp[o], datap[o], call[o]) /\ Knows(fdp[o], call[o])
                           /\ Fresh(fdp, o, call[o])
    BY DEF IInv, Types
  <1>2. /\ fdp \in [Envs -> [Fds -> Mapping]] /\ datap \in [Envs -> [Fds -> Mapping]]
        /\ call \in [Envs -> Calls] /\ page \in [Frames -> Contents] /\ live \subseteq Envs
    BY <1>1 DEF Types
  <1>3. /\ c # e /\ call'[e] = x /\ call'[c] = y
        /\ \A o \in Envs \ {e, c} : call'[o] = call[o]
    BY <1>1, <1>2
  <1>4. PICK sw \in IF Smp THEN BOOLEAN ELSE {TRUE} :
          switched' = [o \in Envs |-> o # e /\ Comparing(o) /\ (switched[o] \/ sw)]
    BY DEF Ran
  <1>5. /\ call[e].op \in {"idle", "fork"} /\ x.op \in {"idle", "fork"}
        /\ y.op \in {"idle", "embryo"} /\ live \subseteq live' /\ live' \subseteq live \cup {c}
    BY IdleLemma DEF Goes, Ends
  <1>6. Types'
    <2>1. switched' \in [Envs -> BOOLEAN] BY <1>4
    <2>2. call' \in [Envs -> Calls] BY <1>2
    <2>3. live' \subseteq Envs BY <1>2, <1>5
    <2> QED BY <1>2, <2>1, <2>2, <2>3 DEF Types
  \* What the child has got before: nothing, or what it was given.
  <1>7. /\ call[e].op = "fork" => Builds(e, c)
        /\ call[e].op # "fork" => \A i \in Fds : fdp[c][i] = NoPage /\ datap[c][i] = NoPage
    <2>1. call[e].op = "fork" => Builds(e, c) BY <1>1, IdleLemma DEF Building
    <2>2. call[e].op # "fork" => \A i \in Fds : fdp[c][i] = NoPage /\ datap[c][i] = NoPage
      BY <1>1 DEF Unborn
    <2> QED BY <2>1, <2>2
  \* The mappings of e stay where they are, and those of c are old or e's.
  <1>8. ASSUME NEW k \in Fds
        PROVE  /\ fdp'[e][k].frame = fdp[e][k].frame
               /\ fdp'[e][k] = NoPage <=> fdp[e][k] = NoPage
               /\ fdp'[c][k].frame \in {fdp[c][k].frame, fdp[e][k].frame}
               /\ fdp'[c][k] = fdp[c][k] \/ (fdp'[c][k] # NoPage /\ fdp[e][k] # NoPage)
               /\ fdp'[c][k] # NoPage => \E p \in {e, c} :
                     fdp[p][k] # NoPage /\ fdp'[c][k].frame = fdp[p][k].frame
    <2>1. fdp[e][k] \in Mapping BY <1>1, <1>2
    <2>2. /\ Cow(fdp[e][k]).frame = fdp[e][k].frame
          /\ Cow(fdp[e][k]) = NoPage <=> fdp[e][k] = NoPage
      BY <2>1, CowLemma
    <2> QED BY <2>2 DEF Given
  <1>9. ASSUME NEW k \in Fds
        PROVE  /\ datap'[e][k].frame = datap[e][k].frame
               /\ datap'[e][k] = NoPage <=> datap[e][k] = NoPage
               /\ datap[e][k] # NoPage /\ datap[e][k].cow => datap'[e][k].cow
               /\ datap'[c][k].frame \in {datap[c][k].frame, datap[e][k].frame}
               /\ \/ datap'[c][k] = datap[c][k]
                  \/ /\ datap'[c][k] # NoPage /\ datap[e][k] # NoPage
                     /\ datap'[c][k].cow /\ datap'[e][k].cow
               /\ datap'[c][k] # NoPage => \E p \in {e, c} :
                     datap[p][k] # NoPage /\ datap'[c][k].frame = datap[p][k].frame
    <2>1. datap[e][k] \in Mapping BY <1>1, <1>2
    <2>2. /\ Cow(datap[e][k]).frame = datap[e][k].frame
          /\ Cow(datap[e][k]) = NoPage <=> datap[e][k] = NoPage
          /\ datap[e][k] # NoPage => Cow(datap[e][k]).cow = TRUE
      BY <2>1, CowLemma
    <2> QED BY <2>2 DEF Given
  <1>10. Kinds'
    <2>1. page' = page OBVIOUS
    <2>2. ASSUME NEW o \in Envs, NEW k \in Fds, fdp'[o][k] # NoPage
          PROVE  page[fdp'[o][k].frame].kind = "fd"
      <3>1. PICK p \in Envs : fdp[p][k] # NoPage /\ fdp'[o][k].frame = fdp[p][k].frame
        <4>1. CASE o \notin {e, c} BY <2>2, <4>1
        <4>2. CASE o = e BY <1>1, <1>8, <2>2, <4>2
        <4>3. CASE o = c BY <1>1, <1>8, <2>2, <4>3
        <4> QED BY <4>1, <4>2, <4>3
      <3> QED BY <1>1, <3>1 DEF Kinds
    <2>3. ASSUME NEW o \in Envs, NEW k \in Fds, datap'[o][k] # NoPage
          PROVE  page[datap'[o][k].frame].kind = "pipe"
      <3>1. PICK p \in Envs : datap[p][k] # NoPage /\ datap'[o][k].frame = datap[p][k].frame
        <4>1. CASE o \notin {e, c} BY <2>3, <4>1
        <4>2. CASE o = e BY <1>1, <1>9, <2>3, <4>2
        <4>3. CASE o = c BY <1>1, <1>9, <2>3, <4>3
        <4> QED BY <4>1, <4>2, <4>3
      <3> QED BY <1>1, <3>1 DEF Kinds
    <2> QED BY <2>1, <2>2, <2>3 DEF Kinds
  <1>11. AllFifo' BY <1>1 DEF AllFifo
  <1>12. ASSUME NEW o \in Envs PROVE Half(fdp'[o], datap'[o], call'[o])
    <2>1. CASE o \notin {e, c} BY <1>1, <1>3, <2>1
    <2>2. \A i \in Fds : fdp[e][i] = NoPage <=> datap[e][i] = NoPage
      BY <1>1, <1>5 DEF Half, OnlyFd, OnlyData
    <2>3. CASE o = e
      <3>1. OnlyFd(x) = {} /\ OnlyData(x) = {} BY <1>5 DEF OnlyFd, OnlyData
      <3> QED BY <1>3, <1>8, <1>9, <2>2, <2>3, <3>1 DEF Half
    <2>4. CASE o = c
      <3>1. CASE Goes(x, y, c)
        <4>1. call'[c].op = "embryo" BY <1>3, <3>1, IdleLemma DEF Goes
        <4> QED BY <2>4, <4>1 DEF Half
      <3>2. CASE Ends(x, y, e, c)
        <4>1. call'[c] = Idle /\ fdp'[c] = fdp[c] /\ datap'[c] = datap[c]
          BY <1>3, <3>2 DEF Ends
        <4>2. \A i \in Fds : fdp[c][i] = NoPage <=> datap[c][i] = NoPage
          BY <2>2, <3>2 DEF Ends
        <4> QED BY <2>4, <4>1, <4>2, IdleLemma DEF Half
      <3> QED BY <3>1, <3>2
    <2> QED BY <2>1, <2>3, <2>4
  <1>13. ASSUME NEW o \in Envs PROVE Knows(fdp'[o], call'[o])
    <2>1. CASE o \notin {e, c} BY <1>1, <1>3, <2>1
    <2>2. CASE o \in {e, c}
      <3>1. call'[o].op \in {"idle", "fork", "embryo"} BY <1>3, <1>5, <2>2
      <3> QED BY <3>1 DEF Knows
    <2> QED BY <2>1, <2>2
  <1>14. ASSUME NEW o \in Envs PROVE Fresh(fdp', o, call'[o])
    <2>1. CASE o \in {e, c}
      <3>1. call'[o].op \in {"idle", "fork", "embryo"} BY <1>3, <1>5, <2>1
      <3> QED BY <3>1 DEF Fresh
    <2>2. CASE o \notin {e, c}
      <3> SUFFICES ASSUME call[o].op \in {"pipe1", "pipe2", "pipe3"},
                          NEW j \in {call[o].fd, call[o].to}, NEW p \in Envs, NEW k \in Fds,
                          fdp'[p][k].frame = fdp'[o][j].frame
                   PROVE  p = o /\ k = j
        BY <1>3, <2>2 DEF Fresh
      <3>1. call[o] \in Pipes BY <1>2, CallLemma
      <3>2. j \in Fds BY <3>1 DEF Pipes
      <3>3. fdp'[o][j] = fdp[o][j] BY <2>2
      <3>4. \A q \in Envs : fdp[q][k].frame = fdp[o][j].frame => q = o /\ k = j
        BY <1>1 DEF Fresh
      <3>5. CASE p \notin {e, c} BY <3>3, <3>4, <3>5
      <3>6. CASE p \in {e, c}
        <4>1. fdp'[p][k].frame \in {fdp[e][k].frame, fdp[c][k].frame} BY <1>8, <3>6
        <4>2. PICK q \in {e, c} : fdp[q][k].frame = fdp[o][j].frame BY <3>3, <4>1
        <4>3. q \in Envs /\ q # o BY <1>1, <2>2
        <4> QED BY <3>4, <4>2, <4>3
      <3> QED BY <3>5, <3>6
    <2> QED BY <2>1, <2>2
  <1>15. ASSUME NEW o \in Envs PROVE Unborn(o)'
    <2>1. CASE o \notin {e, c}
      <3>1. o \in live => o \in live' BY <1>5
      <3>2. call'[o] = call[o] /\ fdp'[o] = fdp[o] /\ datap'[o] = datap[o] BY <1>3, <2>1
      <3>3. Unborn(o) BY <1>1
      <3> QED BY <3>1, <3>2, <3>3, Zenon DEF Unborn
    <2>2. CASE o = e BY <1>5, <2>2 DEF Unborn
    <2>3. CASE o = c BY <1>3, <2>3, IdleLemma DEF Unborn, Goes, Ends
    <2> QED BY <2>1, <2>2, <2>3
  <1>16. CowShared'
    <2> SUFFICES ASSUME NEW o \in Envs, NEW p \in Envs, NEW i \in Fds, NEW j \in Fds,
                        o # p, ~Forking(call'[o]), datap'[o][i] # NoPage,
                        datap'[p][j].frame = datap'[o][i].frame
                 PROVE  datap'[o][i].cow
      BY DEF CowShared
    <2>1. CASE o = e
      <3>1. Ends(x, y, e, c) BY <1>3, <2>1 DEF Goes, Forking
      <3>2. Builds(e, c) /\ datap[c][i] # NoPage /\ datap' = datap
        BY <1>7, <2>1, <3>1 DEF Ends
      <3> QED BY <2>1, <3>2 DEF Builds
    <2>2. CASE o = c
      <3>1. datap[c][i] # NoPage => datap[c][i].cow BY <1>7 DEF Builds
      <3> QED BY <1>9, <2>2, <3>1
    <2>3. CASE o \notin {e, c}
      <3>1. datap'[o][i] = datap[o][i] /\ ~Forking(call[o]) BY <1>3, <2>3
      <3>2. \A q \in Envs : q # o /\ datap[q][j].frame = datap[o][i].frame
                            => datap[o][i].cow
        BY <1>1, <3>1 DEF CowShared
      <3>3. CASE p \notin {e, c} BY <3>1, <3>2, <3>3
      <3>4. CASE p \in {e, c}
        <4>1. datap'[p][j] # NoPage BY <1>2, <3>1, MapLemma
        <4>2. PICK q \in {e, c} : datap'[p][j].frame = datap[q][j].frame
          <5>1. CASE p = e BY <1>9, <5>1
          <5>2. CASE p = c BY <1>9, <4>1, <5>2
          <5> QED BY <3>4, <5>1, <5>2
        <4>3. q \in Envs /\ q # o BY <1>1, <2>3
        <4>4. datap[q][j].frame = datap[o][i].frame BY <3>1, <4>2
        <4> QED BY <3>1, <3>2, <4>3, <4>4
      <3> QED BY <3>3, <3>4
    <2> QED BY <2>1, <2>2, <2>3
  <1>17. Building'
    <2> SUFFICES ASSUME NEW o \in Envs, call'[o].op = "fork", NEW d, d = call'[o].child
                 PROVE  Builds(o, d)'
      BY DEF Building
    \* Nobody but e forks the child c.
    <2>1. \A q \in Envs \ {e} : ~(call[q].op = "fork" /\ call[q].child = c)
      <3> SUFFICES ASSUME NEW q \in Envs \ {e}, call[q].op = "fork", call[q].child = c
                   PROVE  FALSE
        OBVIOUS
      <3>1. Builds(q, c) BY <1>1 DEF Building
      <3>2. call[e] = Idle BY <3>1, <1>1 DEF Builds
      <3> QED BY <3>1, <3>2, IdleLemma DEF Builds
    <2>2. o # c BY <1>3, <1>5
    <2>3. CASE o = e
      <3>1. Goes(x, y, c) /\ d = c BY <1>3, <2>3, IdleLemma DEF Goes, Ends
      <3>2. c \notin live' /\ call'[c] = Embryo BY <1>3, <3>1 DEF Goes
      <3>3. \A q \in Envs : call'[q].op = "fork" /\ call'[q].child = c => q = e
        BY <1>3, <1>5, <2>1
      <3>4. ASSUME NEW i \in Fds
            PROVE  /\ fdp'[c][i] # NoPage => fdp'[e][i] # NoPage
                   /\ datap'[c][i] # NoPage =>
                        datap'[e][i] # NoPage /\ datap'[e][i].cow /\ datap'[c][i].cow
        <4>1. fdp[c][i] # NoPage => fdp[e][i] # NoPage BY <1>7 DEF Builds
        <4>2. datap[c][i] # NoPage => datap[e][i] # NoPage /\ datap[e][i].cow /\ datap[c][i].cow
          BY <1>7 DEF Builds
        <4>3. fdp'[c][i] # NoPage => fdp'[e][i] # NoPage BY <1>8, <4>1
        <4>4. datap'[c][i] # NoPage =>
                datap'[e][i] # NoPage /\ datap'[e][i].cow /\ datap'[c][i].cow
          BY <1>9, <4>2
        <4> QED BY <4>3, <4>4
      <3> QED BY <2>3, <3>1, <3>2, <3>3, <3>4 DEF Builds
    <2>4. CASE o # e
      <3>1. call'[o] = call[o] BY <1>3, <2>2, <2>4
      <3>2. Builds(o, d) BY <1>1, <3>1 DEF Building
      <3>3. d \in Envs
        <4>1. call[o] \in Forks BY <1>2, <3>1, CallLemma
        <4> QED BY <3>1, <4>1 DEF Forks
      <3>4. d # e /\ d # c BY <2>1, <2>4, <3>1, <3>2 DEF Builds
      <3>5. /\ fdp'[d] = fdp[d] /\ datap'[d] = datap[d] /\ call'[d] = call[d]
            /\ fdp'[o] = fdp[o] /\ datap'[o] = datap[o] /\ d \notin live'
        <4>1. fdp'[d] = fdp[d] /\ datap'[d] = datap[d] /\ call'[d] = call[d]
          BY <1>3, <3>3, <3>4
        <4>2. fdp'[o] = fdp[o] /\ datap'[o] = datap[o] BY <2>2, <2>4
        <4>3. d \notin live BY <3>2 DEF Builds
        <4>4. d \notin live' BY <1>5, <3>4, <4>3
        <4> QED BY <4>1, <4>2, <4>4
      <3>6. \A q \in Envs : call'[q].op = "fork" /\ call'[q].child = d => q = o
        <4> SUFFICES ASSUME NEW q \in Envs, call'[q].op = "fork", call'[q].child = d
                     PROVE  q = o
          OBVIOUS
        <4>1. q # c BY <1>3, <1>5
        <4>2. q # e BY <1>3, <3>4, IdleLemma DEF Goes, Ends
        <4>3. call'[q] = call[q] BY <1>3, <4>1, <4>2
        <4> QED BY <3>2, <4>3 DEF Builds
      <3>7. ASSUME NEW i \in Fds
            PROVE  /\ fdp'[d][i] # NoPage => fdp'[o][i] # NoPage
                   /\ datap'[d][i] # NoPage =>
                        datap'[o][i] # NoPage /\ datap'[o][i].cow /\ datap'[d][i].cow
        <4>1. /\ fdp[d][i] # NoPage => fdp[o][i] # NoPage
              /\ datap[d][i] # NoPage =>
                   datap[o][i] # NoPage /\ datap[o][i].cow /\ datap[d][i].cow
          BY <3>2 DEF Builds
        <4>2. /\ fdp'[d][i] = fdp[d][i] /\ datap'[d][i] = datap[d][i]
              /\ fdp'[o][i] = fdp[o][i] /\ datap'[o][i] = datap[o][i]
          BY <3>5
        <4> QED BY <4>1, <4>2
      <3>8. call'[d] = Embryo BY <3>2, <3>5 DEF Builds
      <3> QED BY <3>5, <3>6, <3>7, <3>8, Zenon DEF Builds
    <2> QED BY <2>3, <2>4
  <1>18. Waiting'
    <2> SUFFICES ASSUME NEW o \in Envs, Comparing(o)'
                 PROVE  /\ Blocked(o)'
                        /\ Smp \/ switched'[o] \/ call'[o].ref = pageref(fdp[o][call[o].fd])'
      BY DEF Waiting
    <2>1. o \notin {e, c} BY <1>3, <1>5 DEF Comparing
    <2>2. call'[o] = call[o] /\ datap'[o] = datap[o] BY <1>3, <2>1
    <2>3. Comparing(o) /\ Blocked(o) BY <1>1, <2>2 DEF Comparing, Waiting
    <2>4. Blocked(o)' BY <2>2, <2>3 DEF Blocked, Ring
    <2>5. ~Smp => sw = TRUE OBVIOUS
    <2>6. Smp \/ switched'[o] BY <1>4, <2>1, <2>3, <2>5
    <2> QED BY <2>4, <2>6
  <1> QED BY <1>6, <1>10, <1>11, <1>12, <1>13, <1>14, <1>15, <1>16, <1>17, <1>18 DEF IInv

\* fork and every step of it may panic.
LEMMA PanicLemma ==
  ASSUME IInv, NEW e \in live, Ran(e), UNCHANGED <<live, fdp, datap, page>>,
         call[e].op = "fork", Goto(e, [op |-> "stuck"])
  PROVE  IInv'
PROOF
  <1>1. /\ Types /\ Kinds /\ AllFifo /\ CowShared /\ Building /\ Waiting /\ e \in Envs
        /\ \A o \in Envs : /\ Unborn(o)
                           /\ Half(fdp[o], datap[o], call[o]) /\ Knows(fdp[o], call[o])
                           /\ Fresh(fdp, o, call[o])
    BY DEF IInv, Types
  <1>2. PICK s : s = [op |-> "stuck"] OBVIOUS
  <1>3. /\ s.op = "stuck" /\ s \in Calls /\ s # Idle /\ OnlyFd(s) = {} /\ OnlyData(s) = {}
        /\ OnlyFd(call[e]) = {} /\ OnlyData(call[e]) = {}
    BY <1>2, IdleLemma DEF Calls, OnlyFd, OnlyData
  <1>4. call' = [call EXCEPT ![e] = s] BY <1>2 DEF Goto
  <1>5. call'[e] = s /\ \A o \in Envs \ {e} : call'[o] = call[o] BY <1>1, <1>4 DEF Types
  <1>6. PICK sw \in IF Smp THEN BOOLEAN ELSE {TRUE} :
          switched' = [o \in Envs |-> o # e /\ Comparing(o) /\ (switched[o] \/ sw)]
    BY DEF Ran
  <1>7. Types'
    <2>1. switched' \in [Envs -> BOOLEAN] BY <1>6
    <2>2. call' \in [Envs -> Calls] BY <1>1, <1>3, <1>4 DEF Types
    <2> QED BY <1>1, <2>1, <2>2 DEF Types
  <1>8. Kinds' /\ AllFifo' BY <1>1 DEF Kinds, AllFifo
  <1>9. CowShared' BY <1>1, <1>3, <1>5 DEF CowShared, Forking
  <1>10. ASSUME NEW o \in Envs
         PROVE  /\ Unborn(o)' /\ Half(fdp'[o], datap'[o], call'[o])
                /\ Knows(fdp'[o], call'[o]) /\ Fresh(fdp', o, call'[o])
    <2>1. CASE o # e BY <1>1, <1>5, <2>1 DEF Unborn
    <2>2. CASE o = e
      <3>1. Unborn(e)' BY DEF Unborn
      <3>2. Half(fdp'[e], datap'[e], call'[e]) BY <1>1, <1>3, <1>5 DEF Half
      <3>3. Knows(fdp'[e], call'[e]) /\ Fresh(fdp', e, call'[e])
        BY <1>3, <1>5 DEF Knows, Fresh
      <3> QED BY <2>2, <3>1, <3>2, <3>3
    <2> QED BY <2>1, <2>2
  <1>11. Building'
    <2> SUFFICES ASSUME NEW o \in Envs, call'[o].op = "fork" PROVE Builds(o, call[o].child)'
      BY DEF Building
    <2>1. PICK c : c = call[o].child OBVIOUS
    <2>2. o # e /\ call'[o] = call[o] BY <1>3, <1>5
    <2>3. Builds(o, c) BY <1>1, <2>1, <2>2 DEF Building
    <2>4. c \in Envs /\ c # e
      <3>1. call[o] \in Forks BY <1>1, <2>2, CallLemma DEF Types
      <3> QED BY <2>1, <2>3, <3>1 DEF Forks, Builds
    <2>5. \A p \in Envs : call'[p].op = "fork" => call'[p] = call[p] BY <1>3, <1>5
    <2>6. call'[c] = call[c] /\ call'[o].child = c BY <1>5, <2>1, <2>2, <2>4
    <2>7. Builds(o, c)' BY <2>3, <2>5, <2>6 DEF Builds
    <2> QED BY <2>6, <2>7
  <1>12. Waiting'
    <2> SUFFICES ASSUME NEW o \in Envs, Comparing(o)'
                 PROVE  /\ Blocked(o)'
                        /\ Smp \/ switched'[o] \/ call'[o].ref = pageref(fdp[o][call[o].fd])'
      BY DEF Waiting
    <2>1. o # e BY <1>3, <1>5 DEF Comparing
    <2>2. Comparing(o) /\ Blocked(o) BY <1>1, <1>5, <2>1 DEF Comparing, Waiting
    <2>3. Blocked(o)' BY <1>5, <2>1, <2>2 DEF Blocked, Ring
    <2>4. ~Smp => sw = TRUE OBVIOUS
    <2>5. Smp \/ switched'[o] BY <1>6, <2>1, <2>2, <2>4
    <2> QED BY <2>3, <2>5
  <1> QED BY <1>7, <1>8, <1>9, <1>10, <1>11, <1>12 DEF IInv

\* A fork begins, with a child that nobody knows, or panics at once.
LEMMA ForkLemma ==
  ASSUME IInv, NEW e \in live, Ran(e), fork(e)
  PROVE  IInv'
PROOF
  <1>1. /\ UNCHANGED <<live, fdp, datap, page>> /\ call[e] = Idle /\ e \in Envs
        /\ fdp \in [Envs -> [Fds -> Mapping]] /\ datap \in [Envs -> [Fds -> Mapping]]
    BY DEF fork, IInv, Types
  <1>2. CASE Goto(e, [op |-> "stuck"])
    <2>1. PICK s : s = [op |-> "stuck"] OBVIOUS
    <2>2. s \in Calls /\ s.op = "stuck" BY <2>1 DEF Calls
    <2>3. call[e].op \in Plain BY <1>1, IdleLemma DEF Plain
    <2> QED BY <1>1, <1>2, <2>1, <2>2, <2>3, LeaveLemma DEF Goto
  <1>3. CASE \E c \in Envs \ live :
               /\ call[c] = Idle
               /\ call' = [call EXCEPT ![e] = [op |-> "fork", child |-> c], ![c] = Embryo]
    <2>1. PICK c \in Envs \ live :
            /\ call[c] = Idle
            /\ call' = [call EXCEPT ![e] = [op |-> "fork", child |-> c], ![c] = Embryo]
      BY <1>3
    <2>2. PICK x : x = [op |-> "fork", child |-> c] OBVIOUS
    <2>3. x \in Calls /\ x.op = "fork" /\ x.child = c BY <2>2 DEF Calls, Forks
    <2>4. call' = [call EXCEPT ![e] = x, ![c] = Embryo] BY <2>1, <2>2
    <2>5. Goes(x, Embryo, c) BY <1>1, <2>3 DEF Goes
    <2>6. Given(fdp', fdp, e, c) /\ Given(datap', datap, e, c) BY <1>1 DEF Given
    <2>7. /\ fdp' \in [Envs -> [Fds -> Mapping]] /\ datap' \in [Envs -> [Fds -> Mapping]]
          /\ \A o \in Envs \ {e, c} : fdp'[o] = fdp[o] /\ datap'[o] = datap[o]
          /\ UNCHANGED page /\ Embryo \in Calls
      BY <1>1, IdleLemma
    <2>8. PICK y : y = Embryo OBVIOUS
    <2>9. /\ call[e] = Idle /\ call[c] = Idle /\ c \in Envs \ live
          /\ call' = [call EXCEPT ![e] = x, ![c] = y] /\ y \in Calls
          /\ Goes(x, y, c) \/ Ends(x, y, e, c)
      BY <1>1, <2>1, <2>4, <2>5, <2>7, <2>8
    <2> QED BY <2>3, <2>6, <2>7, <2>9, FamilyLemma
  <1> QED BY <1>2, <1>3 DEF fork

\* A page is given to the child, fork panics, or the child runs.
LEMMA DuppageLemma ==
  ASSUME IInv, NEW e \in live, Ran(e), duppage(e)
  PROVE  IInv'
PROOF
  <1> DEFINE c == call[e].child
             fds == {i \in Fds : fdp[e][i] # NoPage /\ fdp[c][i] = NoPage}
             datas == {i \in Fds : datap[e][i] # NoPage /\ datap[c][i] = NoPage}
  <1>1. /\ call[e].op = "fork" /\ UNCHANGED page
        /\ \/ /\ fds # {}
              /\ fdp' = [fdp EXCEPT ![e][Min(fds)] = Cow(fdp[e][Min(fds)]),
                                    ![c][Min(fds)] = Cow(fdp[e][Min(fds)])]
              /\ UNCHANGED <<live, datap, call>>
           \/ /\ datas # {}
              /\ datap' = [datap EXCEPT ![e][Min(datas)] = Cow(datap[e][Min(datas)]),
                                        ![c][Min(datas)] = Cow(datap[e][Min(datas)])]
              /\ UNCHANGED <<live, fdp, call>>
           \/ Goto(e, [op |-> "stuck"]) /\ UNCHANGED <<live, fdp, datap>>
           \/ /\ fds = {} /\ datas = {}
              /\ live' = live \cup {c} /\ call' = [call EXCEPT ![e] = Idle, ![c] = Idle]
              /\ UNCHANGED <<fdp, datap>>
    BY Zenon DEF duppage
  <1>2. /\ Types /\ e \in Envs
        /\ fdp \in [Envs -> [Fds -> Mapping]] /\ datap \in [Envs -> [Fds -> Mapping]]
        /\ call \in [Envs -> Calls]
    BY DEF IInv, Types
  <1>3. call[e] \in Forks /\ c \in Envs
    <2>1. call[e] \in Forks BY <1>1, <1>2, CallLemma
    <2> QED BY <2>1 DEF Forks
  <1>4. Builds(e, c) BY <1>1, <1>2 DEF IInv, Building
  <1>5. c \in Envs \ live /\ call[c] = Embryo /\ c # e BY <1>3, <1>4 DEF Builds
  <1>6. call[e] \in Calls /\ call[c] \in Calls BY <1>2, <1>3
  <1>7. fds \subseteq Nat /\ datas \subseteq Nat
    <2>1. Fds \subseteq Nat BY PipeAssumption DEF Fds
    <2> QED BY <2>1
  <1>8. fds # {} => Min(fds) \in fds BY <1>7, MinLemma
  <1>9. datas # {} => Min(datas) \in datas BY <1>7, MinLemma
  \* A page of one of the tables is given.
  <1>10. ASSUME NEW old \in [Envs -> [Fds -> Mapping]], NEW i \in Fds, old[e][i] # NoPage,
                NEW new, new = [old EXCEPT ![e][i] = Cow(old[e][i]), ![c][i] = Cow(old[e][i])]
         PROVE  /\ new \in [Envs -> [Fds -> Mapping]] /\ Given(new, old, e, c)
                /\ \A o \in Envs \ {e, c} : new[o] = old[o]
    <2>1. Cow(old[e][i]) \in Mapping BY <1>2, CowLemma
    <2>2. PICK m \in Mapping : m = Cow(old[e][i]) BY <2>1
    <2>3. /\ [old[e] EXCEPT ![i] = m] \in [Fds -> Mapping]
          /\ [old[c] EXCEPT ![i] = m] \in [Fds -> Mapping]
      BY <1>2, <1>3
    <2>4. new = [old EXCEPT ![e][i] = m, ![c][i] = m] BY <1>10, <2>2
    <2>5. PICK h : h = [old EXCEPT ![e][i] = m] OBVIOUS
    <2>6. new = [h EXCEPT ![c][i] = m] BY <2>4, <2>5, Zenon
    <2>7. h = [old EXCEPT ![e] = [old[e] EXCEPT ![i] = m]] BY <1>2, <2>5
    <2>8. h \in [Envs -> [Fds -> Mapping]] BY <1>2, <2>3, <2>7
    <2>9. h[c] = old[c] BY <1>3, <1>5, <2>7
    <2>10. new = [h EXCEPT ![c] = [old[c] EXCEPT ![i] = m]] BY <1>3, <2>6, <2>8, <2>9
    <2>11. new \in [Envs -> [Fds -> Mapping]] BY <2>3, <2>8, <2>10
    <2>12. new[c] = [old[c] EXCEPT ![i] = m] BY <1>3, <2>8, <2>10
    <2>13. /\ new[e] = [old[e] EXCEPT ![i] = m]
           /\ \A o \in Envs \ {e, c} : new[o] = old[o]
      <3>1. \A o \in Envs \ {c} : new[o] = h[o] BY <2>8, <2>10
      <3>2. h[e] = [old[e] EXCEPT ![i] = m] /\ \A o \in Envs \ {e} : h[o] = old[o]
        BY <1>2, <2>7
      <3> QED BY <1>2, <1>5, <3>1, <3>2
    <2>14. Given(new, old, e, c)
      <3> SUFFICES ASSUME NEW k \in Fds
                   PROVE  \/ new[e][k] = old[e][k] /\ new[c][k] = old[c][k]
                          \/ /\ old[e][k] # NoPage
                             /\ new[e][k] = Cow(old[e][k]) /\ new[c][k] = Cow(old[e][k])
        BY Zenon DEF Given
      <3>1. old[e] \in [Fds -> Mapping] /\ old[c] \in [Fds -> Mapping] BY <1>2, <1>3
      <3>2. CASE k = i
        <4>1. new[e][k] = m /\ new[c][k] = m BY <2>12, <2>13, <3>1, <3>2
        <4> QED BY <1>10, <2>2, <3>2, <4>1
      <3>3. CASE k # i BY <2>12, <2>13, <3>1, <3>3
      <3> QED BY <3>2, <3>3
    <2> QED BY <2>11, <2>13, <2>14
  <1>11. /\ Given(fdp, fdp, e, c) /\ Given(datap, datap, e, c) BY DEF Given
  <1>12. call[e].child = c OBVIOUS
  <1>13. UNCHANGED <<live, call>> => /\ Goes(call[e], call[c], c)
                                     /\ call' = [call EXCEPT ![e] = call[e], ![c] = call[c]]
    BY <1>1, <1>2, <1>5, <1>12 DEF Goes
  <1> HIDE DEF c
  <1>14. CASE /\ fds # {}
              /\ fdp' = [fdp EXCEPT ![e][Min(fds)] = Cow(fdp[e][Min(fds)]),
                                    ![c][Min(fds)] = Cow(fdp[e][Min(fds)])]
              /\ UNCHANGED <<live, datap, call>>
    <2>1. PICK i : i = Min(fds) OBVIOUS
    <2>2. i \in Fds /\ fdp[e][i] # NoPage BY <1>8, <1>14, <2>1
    <2>3. fdp' = [fdp EXCEPT ![e][i] = Cow(fdp[e][i]), ![c][i] = Cow(fdp[e][i])]
      BY <1>14, <2>1
    <2>4. /\ fdp' \in [Envs -> [Fds -> Mapping]] /\ Given(fdp', fdp, e, c)
          /\ \A o \in Envs \ {e, c} : fdp'[o] = fdp[o]
      BY <1>2, <1>10, <2>2, <2>3
    <2>5. datap' = datap /\ UNCHANGED <<live, call>> BY <1>14
    <2>6. Given(datap', datap, e, c) /\ datap' \in [Envs -> [Fds -> Mapping]]
      BY <1>2, <1>11, <2>5
    <2>7. \A o \in Envs \ {e, c} : fdp'[o] = fdp[o] /\ datap'[o] = datap[o] BY <2>4, <2>5
    <2> HIDE DEF fds, datas
    <2> QED BY <1>1, <1>5, <1>6, <1>12, <1>13, <2>4, <2>5, <2>6, <2>7, FamilyLemma
  <1>15. CASE /\ datas # {}
              /\ datap' = [datap EXCEPT ![e][Min(datas)] = Cow(datap[e][Min(datas)]),
                                        ![c][Min(datas)] = Cow(datap[e][Min(datas)])]
              /\ UNCHANGED <<live, fdp, call>>
    <2>1. PICK i : i = Min(datas) OBVIOUS
    <2>2. i \in Fds /\ datap[e][i] # NoPage BY <1>9, <1>15, <2>1
    <2>3. datap' = [datap EXCEPT ![e][i] = Cow(datap[e][i]), ![c][i] = Cow(datap[e][i])]
      BY <1>15, <2>1
    <2>4. /\ datap' \in [Envs -> [Fds -> Mapping]] /\ Given(datap', datap, e, c)
          /\ \A o \in Envs \ {e, c} : datap'[o] = datap[o]
      BY <1>2, <1>10, <2>2, <2>3
    <2>5. fdp' = fdp /\ UNCHANGED <<live, call>> BY <1>15
    <2>6. Given(fdp', fdp, e, c) /\ fdp' \in [Envs -> [Fds -> Mapping]]
      BY <1>2, <1>11, <2>5
    <2>7. \A o \in Envs \ {e, c} : fdp'[o] = fdp[o] /\ datap'[o] = datap[o] BY <2>4, <2>5
    <2> HIDE DEF fds, datas
    <2> QED BY <1>1, <1>5, <1>6, <1>12, <1>13, <2>4, <2>5, <2>6, <2>7, FamilyLemma
  <1>16. CASE Goto(e, [op |-> "stuck"]) /\ UNCHANGED <<live, fdp, datap>>
    BY <1>1, <1>16, PanicLemma
  <1>17. CASE /\ fds = {} /\ datas = {}
              /\ live' = live \cup {c} /\ call' = [call EXCEPT ![e] = Idle, ![c] = Idle]
              /\ UNCHANGED <<fdp, datap>>
    <2>1. ASSUME NEW i \in Fds
          PROVE  /\ fdp[e][i] = NoPage <=> fdp[c][i] = NoPage
                 /\ datap[e][i] = NoPage <=> datap[c][i] = NoPage
      <3>1. /\ fdp[e][i] # NoPage => fdp[c][i] # NoPage
            /\ datap[e][i] # NoPage => datap[c][i] # NoPage
        BY <1>17
      <3> QED BY <1>4, <3>1 DEF Builds
    <2>2. Ends(Idle, Idle, e, c) BY <1>1, <1>17, <2>1 DEF Ends
    <2>3. /\ fdp' = fdp /\ datap' = datap
          /\ call' = [call EXCEPT ![e] = Idle, ![c] = Idle]
      BY <1>17
    <2>4. /\ Given(fdp', fdp, e, c) /\ Given(datap', datap, e, c)
          /\ fdp' \in [Envs -> [Fds -> Mapping]] /\ datap' \in [Envs -> [Fds -> Mapping]]
          /\ \A o \in Envs \ {e, c} : fdp'[o] = fdp[o] /\ datap'[o] = datap[o]
      BY <1>2, <1>11, <2>3
    <2> HIDE DEF fds, datas
    <2> QED BY <1>1, <1>5, <1>12, <2>2, <2>3, <2>4, IdleLemma, FamilyLemma
  <1> HIDE DEF fds, datas
  <1> QED BY <1>1, <1>14, <1>15, <1>16, <1>17

\* Nothing is open at the start.
LEMMA InitLemma == Init => IInv
PROOF
  <1> SUFFICES ASSUME Init PROVE IInv OBVIOUS
  <1> USE DEF Init
  <1>1. Types
    <2>1. live \subseteq Envs BY PipeAssumption
    <2>2. fdp \in [Envs -> [Fds -> Mapping]] /\ datap \in [Envs -> [Fds -> Mapping]]
      BY MapLemma
    <2>3. page \in [Frames -> Contents] /\ call \in [Envs -> Calls]
      BY ContentsLemma, IdleLemma
    <2> QED BY <2>1, <2>2, <2>3 DEF Types
  <1>2. \A e \in Envs, i \in Fds : fdp[e][i] = NoPage /\ datap[e][i] = NoPage OBVIOUS
  <1>3. \A e \in Envs : call[e] = Idle OBVIOUS
  <1>4. Kinds BY <1>2 DEF Kinds
  <1>5. AllFifo BY ContentsLemma DEF AllFifo
  <1>6. CowShared BY <1>2 DEF CowShared
  <1>7. Waiting BY <1>3, IdleLemma DEF Waiting, Comparing
  <1>8. ASSUME NEW e \in Envs
        PROVE  /\ Unborn(e)
               /\ Half(fdp[e], datap[e], call[e])
               /\ Knows(fdp[e], call[e])
               /\ Fresh(fdp, e, call[e])
    <2>1. Half(fdp[e], datap[e], call[e]) BY <1>2, <1>3, IdleLemma DEF Half
    <2>2. Knows(fdp[e], call[e]) /\ Fresh(fdp, e, call[e])
      BY <1>3, IdleLemma DEF Knows, Fresh
    <2>3. Unborn(e) BY <1>2, <1>3 DEF Unborn
    <2> QED BY <2>1, <2>2, <2>3
  <1>9. Building BY <1>3, IdleLemma DEF Building
  <1> QED BY <1>1, <1>4, <1>5, <1>6, <1>7, <1>8, <1>9 DEF IInv

\* Every step keeps the invariant.
LEMMA NextLemma == IInv /\ [Next]_vars => IInv'
PROOF
  <1>1. ASSUME IInv, NEW e \in live, Ran(e), Lib(e) \/ Call(e) PROVE IInv'
    <2>1. CASE pipe_fd1(e) BY <1>1, <2>1, PipeFdLemma
    <2>2. CASE pipe_data(e) BY <1>1, <2>2, PipeDataLemma
    <2>3. CASE pipe_map(e) BY <1>1, <2>3, PipeMapLemma
    <2>4. CASE devpipe_close(e)
      <3>1. call[e].op \in {"unmap_fd", "unmap_data"} BY <2>4 DEF devpipe_close
      <3> QED BY <1>1, <2>4, <3>1, UnmapFdLemma, UnmapDataLemma
    <2>5. CASE dup(e) BY <1>1, <2>5, DupLemma
    <2>6. CASE devpipe_read(e) \/ devpipe_write(e) BY <1>1, <2>6, IoStepLemma
    <2>7. CASE io_return(e) \/ io_nomem(e) \/ return_closed(e) \/ exit(e)
      BY <1>1, <2>7, ReturnLemma
    <2>8. CASE _pipeisclosed_fd(e) BY <1>1, <2>8, CountFdLemma
    <2>9. CASE _pipeisclosed_data(e) BY <1>1, <2>9, CountDataLemma
    <2>10. CASE close_start(e) \/ dup_start(e) \/ exit_close(e)
      BY <1>1, <2>10, CloseStartLemma
    <2>11. CASE pipe_start(e) BY <1>1, <2>11, PipeStartLemma
    <2>12. CASE io_start(e) BY <1>1, <2>12, IoStartLemma
    <2>13. CASE fork(e) \/ duppage(e) BY <1>1, <2>13, ForkLemma, DuppageLemma
    <2> QED BY <1>1, <2>1, <2>2, <2>3, <2>4, <2>5, <2>6, <2>7, <2>8, <2>9, <2>10, <2>11,
               <2>12, <2>13 DEF Lib, Call
  <1>2. IInv /\ Next => IInv' BY <1>1 DEF Next
  <1>3. ASSUME IInv, UNCHANGED vars PROVE IInv'
    <2>1. UNCHANGED <<live, fdp, datap, page, call, switched>> BY <1>3 DEF vars
    <2>2. Types' /\ Kinds' /\ AllFifo' /\ CowShared'
      BY <1>3, <2>1 DEF IInv, Types, Kinds, AllFifo, CowShared
    <2>3. ASSUME NEW e \in Envs
          PROVE  /\ Unborn(e)'
                 /\ Half(fdp'[e], datap'[e], call'[e])
                 /\ Knows(fdp'[e], call'[e])
                 /\ Fresh(fdp', e, call'[e])
      BY <1>3, <2>1 DEF IInv, Unborn
    <2>4. ASSUME NEW e \in Envs, Comparing(e)'
          PROVE  /\ Blocked(e)'
                 /\ Smp \/ switched'[e] \/ call'[e].ref = pageref(fdp[e][call[e].fd])'
      <3>1. Comparing(e) BY <2>1, <2>4 DEF Comparing
      <3>2. Blocked(e)' BY <1>3, <2>1, <3>1 DEF IInv, Waiting, Blocked, Ring
      <3>3. pageref(fdp[e][call[e].fd])' = pageref(fdp[e][call[e].fd])
        BY <2>1 DEF pageref
      <3> QED BY <1>3, <2>1, <3>1, <3>2, <3>3 DEF IInv, Waiting
    <2>5. Building' BY <1>3, <2>1 DEF IInv, Building, Builds
    <2> QED BY <2>2, <2>3, <2>4, <2>5 DEF IInv, Waiting
  <1> QED BY <1>2, <1>3

\* The inductive invariant holds in every state the library reaches.
THEOREM InvariantTheorem == Spec => []IInv
PROOF
  <1>1. Init => IInv BY InitLemma
  <1>2. IInv /\ [Next]_vars => IInv' BY NextLemma
  <1> QED BY <1>1, <1>2, PTL DEF Spec

-----------------------------------------------------------------------------
(* What the invariant says *)

\* Contents, mappings and calls have their types, and a descriptor page never
\* holds a ring.
THEOREM TypeTheorem == Spec => []TypeOK
PROOF
  <1>1. IInv => TypeOK
    <2> SUFFICES ASSUME IInv PROVE TypeOK OBVIOUS
    <2>1. Types /\ Kinds BY DEF IInv
    <2>2. ASSUME NEW f \in Frames, page[f].kind = "pipe" PROVE page[f].wpos \in 0..MaxPos
      <3>1. page[f] \in Rings BY <2>1, <2>2, ContentsLemma DEF Types
      <3> QED BY <3>1 DEF Rings
    <2>3. ASSUME NEW e \in Envs PROVE call[e].op \in Ops \cup {"idle", "closed"}
      <3>1. call[e] \in Calls BY <2>1 DEF Types
      <3> QED BY <3>1, IdleLemma DEF Calls, Pipes, Dups, Exits, Closes, Ios, Forks, Ops
    <2> QED BY <2>1, <2>2, <2>3 DEF TypeOK, Types, Kinds
  <1> QED BY <1>1, InvariantTheorem, PTL

\* Between two calls a data page is mapped exactly where a descriptor is: the
\* error paths of pipe, and close and dup, undo all they did (lib/pipe.c:57,
\* lib/fd.c:174).
THEOREM HalfTheorem == Spec => []NoHalfDescriptor
PROOF
  <1>1. IInv => NoHalfDescriptor
    <2> SUFFICES ASSUME IInv, NEW e \in Envs, call[e].op \in {"idle", "closed"}, NEW i \in Fds
                 PROVE  fdp[e][i] = NoPage <=> datap[e][i] = NoPage
      BY DEF NoHalfDescriptor
    <2>1. OnlyFd(call[e]) = {} /\ OnlyData(call[e]) = {} BY DEF OnlyFd, OnlyData
    <2> QED BY <2>1 DEF IInv, Half
  <1> QED BY <1>1, InvariantTheorem, PTL

\* Whoever reads and writes a pipe, and whatever copies of it a fork has left,
\* a ring holds the bytes between rpos and wpos in their order (lib/pipe.c:105,
\* 135).
THEOREM FifoTheorem == Spec => []RingIsFifo
PROOF
  <1>1. IInv => RingIsFifo BY DEF IInv, AllFifo, Fifo, RingIsFifo
  <1> QED BY <1>1, InvariantTheorem, PTL

\* Only _pipeisclosed finds a pipe closed, after two equal counts between
\* which env_runs did not change.
LEMMA FoundClosed ==
  ASSUME IInv, Next, NEW e \in live, call[e].op # "closed", call'[e].op = "closed"
  PROVE  /\ Comparing(e) /\ ~switched[e]
         /\ call[e].ref = pageref(datap[e][call[e].fd])
PROOF
  <1>1. e \in Envs /\ call \in [Envs -> Calls] /\ live \subseteq Envs BY DEF IInv, Types
  <1>2. ASSUME NEW a \in live, Lib(a) \/ Call(a), ~_pipeisclosed_data(a)
        PROVE  call'[e] = call[e] \/ call'[e].op # "closed"
    <2>1. \A x : call' = [call EXCEPT ![a] = x] /\ x.op # "closed"
                 => call'[e] = call[e] \/ call'[e].op # "closed"
      BY <1>1, <1>2
    <2>2. \A i, then : close(a, i, then) /\ then.op # "closed" =>
                         call'[e] = call[e] \/ call'[e].op # "closed"
      <3> SUFFICES ASSUME NEW i, NEW then, close(a, i, then), then.op # "closed"
                   PROVE  call'[e] = call[e] \/ call'[e].op # "closed"
        OBVIOUS
      <3>1. PICK x \in {then, [op |-> "unmap_fd", fd |-> i, then |-> then]} :
              call' = [call EXCEPT ![a] = x]
        BY DEF close, Goto
      <3>2. x.op # "closed" OBVIOUS
      <3> QED BY <2>1, <3>1, <3>2
    <2>3. Return(a) => call'[e] = call[e] \/ call'[e].op # "closed"
      BY <2>1, IdleLemma DEF Return
    <2>4. ASSUME NEW x, Goto(a, x), x.op # "closed"
          PROVE  call'[e] = call[e] \/ call'[e].op # "closed"
      BY <2>1, <2>4 DEF Goto
    <2>5. CASE pipe_start(a)
      <3>1. PICK d : Goto(a, [op |-> "pipe1", fd |-> d, to |-> d]) BY <2>5 DEF pipe_start
      <3> QED BY <2>4, <3>1
    <2>6. CASE pipe_fd1(a) \/ pipe_data(a) \/ pipe_map(a)
      <3>1. call[a] \in Pipes \/ Return(a)
        BY <1>1, <2>6, CallLemma DEF pipe_fd1, pipe_data, pipe_map
      <3>2. CASE Return(a) BY <2>3, <3>2
      <3>3. CASE call[a] \in Pipes /\ ~Return(a)
        <4>1. PICK d, x : /\ x \in {[[call[a] EXCEPT !.op = "pipe2"] EXCEPT !.to = d],
                                    [call[a] EXCEPT !.op = "pipe3"]}
                          /\ Goto(a, x)
          BY <2>6, <3>3 DEF pipe_fd1, pipe_data, pipe_map, Undo
        <4>2. x.op # "closed" BY <3>3, <4>1 DEF Pipes
        <4> QED BY <2>4, <4>1, <4>2
      <3> QED BY <3>1, <3>2, <3>3
    <2>7. CASE devpipe_close(a)
      <3>1. call[a] \in Closes BY <1>1, <2>7, CallLemma DEF devpipe_close
      <3>2. PICK x : /\ x \in {[call[a] EXCEPT !.op = "unmap_data"], call[a].then}
                     /\ Goto(a, x)
        BY <2>7 DEF devpipe_close
      <3>3. x.op # "closed" BY <3>1, <3>2, IdleLemma DEF Closes, StartDups, Exits
      <3> QED BY <2>4, <3>2, <3>3
    <2>8. CASE dup(a)
      <3>1. call[a] \in Dups BY <1>1, <2>8, CallLemma DEF dup
      <3>2. CASE Return(a) BY <2>3, <3>2
      <3>3. CASE ~Return(a)
        <4>1. PICK x : x = [call[a] EXCEPT !.op = "dup_fd"] OBVIOUS
        <4>2. Goto(a, x) BY <2>8, <3>3, <4>1 DEF dup
        <4>3. x.op # "closed" BY <3>1, <4>1 DEF Dups
        <4> QED BY <2>4, <4>2, <4>3
      <3> QED BY <3>2, <3>3
    <2>9. CASE devpipe_read(a) \/ devpipe_write(a) \/ _pipeisclosed_fd(a)
      <3>1. call[a] \in Ios /\ call[a].op \in {"read", "write", "pipeisclosed"}
        BY <1>1, <2>9, CallLemma DEF devpipe_read, devpipe_write, _pipeisclosed_fd, Blocked
      <3>2. PICK r, x : /\ x \in {[call[a] EXCEPT !.i = @ + 1], [call[a] EXCEPT !.ref = r]}
                        /\ Goto(a, x)
        BY <2>9 DEF devpipe_read, devpipe_write, _pipeisclosed_fd
      <3>3. x.op = call[a].op BY <3>1, <3>2 DEF Ios
      <3> QED BY <2>4, <3>1, <3>2, <3>3
    <2>10. CASE io_return(a) \/ return_closed(a)
      BY <2>3, <2>10 DEF io_return, return_closed
    <2>11. CASE io_nomem(a) \/ exit(a)
      <3>1. PICK x \in {[op |-> "stuck"], [op |-> "exit", fd |-> 0]} : Goto(a, x)
        BY <2>11 DEF io_nomem, exit
      <3> QED BY <2>4, <3>1
    <2>12. CASE io_start(a)
      <3>1. PICK i \in Fds, op \in {"read", "write", "pipeisclosed"}, n \in 1..MaxCount :
              Goto(a, [op |-> op, fd |-> i, n |-> n, i |-> 0, ref |-> 0])
        BY <2>12 DEF io_start
      <3> QED BY <2>4, <3>1
    <2>13. CASE close_start(a) \/ dup_start(a)
      <3>1. PICK i, d, x : /\ x \in {Idle, [op |-> "dup_data", fd |-> d, to |-> i]}
                           /\ close(a, i, x)
        BY <2>13 DEF close_start, dup_start
      <3>2. x.op # "closed" BY <3>1, IdleLemma
      <3> QED BY <2>2, <3>1, <3>2
    <2>14. CASE exit_close(a)
      <3>1. call[a] \in Exits BY <1>1, <2>14, CallLemma DEF exit_close
      <3>2. PICK i, x : x = [call[a] EXCEPT !.fd = @ + 1] /\ close(a, i, x)
        BY <2>14 DEF exit_close
      <3>3. x.op # "closed" BY <3>1, <3>2 DEF Exits
      <3> QED BY <2>2, <3>2, <3>3
    <2>15. CASE fork(a) \/ duppage(a)
      <3>1. CASE UNCHANGED call BY <3>1
      <3>2. CASE \E c, x, y : /\ call' = [call EXCEPT ![a] = x, ![c] = y]
                              /\ x.op # "closed" /\ y.op # "closed"
        BY <1>1, <3>2
      <3>3. CASE Goto(a, [op |-> "stuck"]) BY <2>4, <3>3
      <3>4. \A c : [op |-> "fork", child |-> c].op # "closed" OBVIOUS
      <3>5. \/ UNCHANGED call \/ Goto(a, [op |-> "stuck"])
            \/ \E c : call' = [call EXCEPT ![a] = [op |-> "fork", child |-> c],
                                           ![c] = Embryo]
            \/ \E c : call' = [call EXCEPT ![a] = Idle, ![c] = Idle]
        BY <2>15, Zenon DEF fork, duppage
      <3> QED BY <3>1, <3>2, <3>3, <3>4, <3>5, IdleLemma
    <2> QED BY <1>2, <2>5, <2>6, <2>7, <2>8, <2>9, <2>10, <2>11, <2>12, <2>13, <2>14, <2>15
            DEF Lib, Call
  <1>3. PICK a \in live : Lib(a) \/ Call(a) BY DEF Next
  <1>4. _pipeisclosed_data(a) BY <1>2, <1>3
  <1>5. call[a] \in Ios /\ call[a].op \in {"read", "write", "pipeisclosed"}
    BY <1>1, <1>4, CallLemma DEF _pipeisclosed_data, Blocked
  <1>6. CASE Return(a) \/ Goto(a, [call[a] EXCEPT !.ref = 0])
    <2>1. PICK x \in {Idle, [call[a] EXCEPT !.ref = 0]} : call' = [call EXCEPT ![a] = x]
      BY <1>6 DEF Return, Goto
    <2>2. x.op # "closed" BY <1>5, <2>1, IdleLemma DEF Ios
    <2>3. call'[e] = call[e] \/ call'[e].op # "closed" BY <1>1, <2>1, <2>2
    <2> QED BY <2>3
  <1>7. CASE ~ (Return(a) \/ Goto(a, [call[a] EXCEPT !.ref = 0]))
    <2>1. /\ ~switched[a] /\ call[a].ref # 0 /\ call[a].ref = pageref(datap[a][call[a].fd])
          /\ Goto(a, [call[a] EXCEPT !.op = "closed"])
      BY <1>4, <1>7 DEF _pipeisclosed_data
    <2>2. a = e BY <1>1, <2>1 DEF Goto
    <2> QED BY <1>5, <2>1, <2>2 DEF Comparing
  <1> QED BY <1>6, <1>7

\* Everybody who has the descriptor page has the ring too, so that an end of
\* the other kind makes the second count larger.
LEMMA CountsDiffer ==
  ASSUME IInv, NEW e \in Envs, call[e].op \in {"read", "write", "pipeisclosed"},
         Unsplit(e, call[e].fd), ~HalfForked(e, call[e].fd), OtherEnd(e, call[e].fd)
  PROVE  pageref(fdp[e][call[e].fd]) # pageref(datap[e][call[e].fd])
PROOF
  <1>1. PICK i, F, D : i = call[e].fd /\ F = fdp[e][i].frame /\ D = datap[e][i].frame
    OBVIOUS
  <1>2. i \in Fds /\ fdp[e][i] # NoPage /\ datap[e][i] # NoPage BY <1>1, IoLemma
  <1>3. Types /\ Kinds BY DEF IInv
  <1>4. pageref(fdp[e][i]) = Cardinality(FdUsers(F)) BY <1>1, <1>2, <1>3, RefLemma
  <1>5. pageref(datap[e][i]) = Cardinality(DataUsers(D)) BY <1>1, <1>2, <1>3, RefLemma
  <1>6. FdUsers(F) \subseteq DataUsers(D)
    <2> SUFFICES ASSUME NEW o \in Envs, NEW j \in Fds, fdp[o][j].frame = F
                 PROVE  datap[o][j].frame = D
      BY DEF FdUsers, DataUsers
    <2>1. /\ fdp[o][j] \in Mapping /\ datap[o][j] \in Mapping /\ fdp[e][i] \in Mapping
      BY <1>2, <1>3 DEF Types
    <2>2. fdp[o][j] # NoPage BY <1>1, <1>2, <2>1, MapLemma
    <2>3. datap[o][j].frame = D \/ datap[o][j] = NoPage
      BY <1>1, <2>1, MapLemma DEF Unsplit
    <2>4. ASSUME datap[o][j] = NoPage PROVE FALSE
      <3>0. call[o].op # "embryo"
        <4> SUFFICES ASSUME call[o].op = "embryo" PROVE FALSE
          OBVIOUS
        <4>1. call[o] \in Calls BY <1>3 DEF Types
        <4>2. call[o] = Embryo BY <4>1, CallLemma
        <4> QED BY <1>1, <2>4, <4>2 DEF HalfForked
      <3>1. j \in OnlyFd(call[o]) BY <2>2, <2>4, <3>0 DEF IInv, Half
      <3>2. call[o].op \in {"pipe1", "pipe2", "pipe3"} /\ j \in {call[o].fd, call[o].to}
        BY <3>1 DEF OnlyFd
      <3>3. e = o BY <1>1, <1>2, <3>2 DEF IInv, Fresh
      <3> QED BY <3>2, <3>3
    <2> QED BY <2>3, <2>4
  <1>7. PICK o \in Envs, j \in Fds : datap[o][j].frame = D /\ Mode(o, j) # Mode(e, i)
    BY <1>1 DEF OtherEnd
  <1>8. <<o, j>> \in DataUsers(D) /\ <<o, j>> \notin FdUsers(F)
    BY <1>1, <1>7 DEF DataUsers, FdUsers, Mode
  <1>9. IsFiniteSet(DataUsers(D)) /\ FdUsers(F) # DataUsers(D)
    <2>1. DataUsers(D) \in SUBSET (Envs \X Fds) BY DEF DataUsers
    <2> QED BY <1>8, <2>1, FiniteLemma
  <1>10. Cardinality(FdUsers(F)) # Cardinality(DataUsers(D)) BY <1>6, <1>9, FS_Subset
  <1> QED BY <1>1, <1>4, <1>5, <1>10

\* On one processor a pipe does not appear closed while an end of the other
\* kind is open, unless a fork has handed on the struct Fd and not the ring yet
\* (lib/pipe.c:75, lib/fork.c:160, user/testpiperace.c).
THEOREM ClosedTheorem == ~Smp => (Spec => ClosedIsReal)
PROOF
  <1> SUFFICES ASSUME ~Smp PROVE Spec => ClosedIsReal
    OBVIOUS
  <1> DEFINE A == \A e \in live :
       (/\ call[e].op # "closed" /\ call'[e].op = "closed"
        /\ Unsplit(e, call[e].fd) /\ ~HalfForked(e, call[e].fd))
       => ~OtherEnd(e, call[e].fd)
  <1>1. IInv /\ Next => A
    <2> SUFFICES ASSUME IInv, Next, NEW e \in live,
                        call[e].op # "closed", call'[e].op = "closed",
                        Unsplit(e, call[e].fd), ~HalfForked(e, call[e].fd),
                        OtherEnd(e, call[e].fd)
                 PROVE  FALSE
      OBVIOUS
    <2>1. /\ Comparing(e) /\ ~switched[e]
          /\ call[e].ref = pageref(datap[e][call[e].fd])
      BY FoundClosed
    <2>2. e \in Envs BY DEF IInv, Types
    <2>3. call[e].ref = pageref(fdp[e][call[e].fd]) BY <2>1, <2>2 DEF IInv, Waiting
    <2> QED BY <2>1, <2>2, <2>3, CountsDiffer DEF Comparing
  <1>2. IInv /\ [Next]_vars => IInv' /\ [A]_vars
    BY <1>1, NextLemma
  <1> HIDE DEF A
  <1>3. Spec => [][A]_vars
    BY <1>2, InitLemma, PTL DEF Spec
  <1> QED BY <1>3 DEF A, ClosedIsReal
=============================================================================
