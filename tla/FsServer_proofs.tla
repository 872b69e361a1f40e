-------------------------- MODULE FsServer_proofs ---------------------------
(***************************************************************************)
(* Theorems about the file server, for any number of clients, descriptors, *)
(* paths and slots of the open-file table: a slot is not given away under  *)
(* a client that has it open, and the file ids tell the successive users   *)
(* of a slot apart.                                                        *)
(***************************************************************************)
EXTENDS FsServer, FiniteSetTheorems, WellFoundedInduction, TLAPS

FileOps == {"read", "set_size", "flush"}

\* struct Fd as a client sees it.
Fds == [slot : Slots, id : Nat, shared : BOOLEAN, cow : BOOLEAN, file : Names]

\* The requests, and where a client may be with one.
OpenReqs(S) == [at : S, op : {"open"}, i : OpenFds, name : Names, mode : Modes]
FileReqs(S) == [at : S, op : FileOps, i : OpenFds, id : Nat, file : Names]
SyncReqs(S) == [at : S, op : {"sync"}, i : {0}]
Requests(S) == OpenReqs(S) \cup FileReqs(S) \cup SyncReqs(S)
Closing == [at : {"unmap"}, i : OpenFds]
Idles == {NoReq, Unborn, [at |-> "panic"]} \cup Closing

Serving == [at : {"serve"}, from : Clients, r : Requests({"send"})]
Replying == [at : {"reply"}, to : Clients, ret : {"ok", "error", "inval"},
             slot : Slots \cup {MAXOPEN}]

Types ==
  /\ alive \subseteq Clients
  /\ fd \in [Clients -> [OpenFds -> Fds \cup {NoFd}]]
  /\ req \in [Clients -> Requests({"send", "wait"}) \cup Idles]
  /\ opentab \in [Slots -> [id : Nat, mapped : BOOLEAN, file : Names \cup {NoFile}]]
  /\ server \in Serving \cup Replying \cup {Listening, [at |-> "panic"]}
  /\ opens \in 0..MaxOpens

\* The opens that have been requested and not been served.
Asking == {c \in Clients : req[c].at = "send" /\ req[c].op = "open"}
BeingServed == IF server.at = "serve" THEN (IF server.r.op = "open" THEN 1 ELSE 0) ELSE 0

\* A slot has had one id for each open served on it, and one to begin with.
IdAfter(s, k) == s + MAXOPEN * k
IdsCounted ==
  \A s \in Slots : \E k \in 0..opens :
    opentab[s].id = IdAfter(s, k) /\ k + Cardinality(Asking) + BeingServed <= opens

\* Whoever holds an id got it from a slot, and while the slot has it, it has
\* the holder's file.
HolderOK(tab, n, id, file) ==
  \E s \in Slots : \E k \in 0..n :
    /\ id = IdAfter(s, k) /\ id <= tab[s].id
    /\ tab[s].id = id => tab[s].file = file
HasId(id, file) == HolderOK(opentab, opens, id, file)
Holders ==
  /\ \A c \in Clients, i \in OpenFds : fd[c][i] # NoFd => HasId(fd[c][i].id, fd[c][i].file)
  /\ \A c \in Clients : req[c] \in FileReqs({"send", "wait"}) => HasId(req[c].id, req[c].file)
  /\ server \in Serving /\ server.r \in FileReqs({"send"}) => HasId(server.r.id, server.r.file)

\* The page of a client is the page of its slot.
SharedOK(c, i) ==
  Shared(c, i) => /\ opentab[fd[c][i].slot].mapped
                  /\ opentab[fd[c][i].slot].id = fd[c][i].id
                  /\ opentab[fd[c][i].slot].file = fd[c][i].file

\* The client whose request is being served waits, unless it is gone for good.
Waiting ==
  /\ \A c \in alive : req[c] # Unborn
  /\ server.at = "serve" =>
       /\ req[server.from] # Unborn
       /\ server.from \in alive =>
            /\ req[server.from].at = "wait" /\ req[server.from].op = server.r.op
            /\ server.r.op = "open" => req[server.from].name = server.r.name
  /\ server.at = "reply" =>
       /\ req[server.to] # Unborn
       /\ server.to \in alive =>
            /\ req[server.to].at = "wait"
            /\ req[server.to].op = "open" /\ server.ret = "ok" =>
                 /\ server.slot \in Slots /\ opentab[server.slot].mapped
                 /\ opentab[server.slot].file = req[server.to].name

\* The inductive invariant.
IInv ==
  /\ Types
  /\ IdsCounted
  /\ Holders
  /\ \A c \in Clients, i \in OpenFds : SharedOK(c, i)
  /\ Waiting

-----------------------------------------------------------------------------
(* Records, ids and slots *)

\* What a request is made of.
LEMMA ReqLemma ==
  ASSUME NEW S, NEW r \in Requests(S)
  PROVE  /\ r.at \in S
         /\ \/ r.op = "open" /\ r \in OpenReqs(S)
            \/ r.op \in FileOps /\ r \in FileReqs(S)
            \/ r.op = "sync" /\ r \in SyncReqs(S)
PROOF
  <1>1. CASE r \in OpenReqs(S) BY <1>1 DEF OpenReqs
  <1>2. CASE r \in FileReqs(S) BY <1>2 DEF FileReqs
  <1>3. CASE r \in SyncReqs(S) BY <1>3 DEF SyncReqs
  <1> QED BY <1>1, <1>2, <1>3 DEF Requests

\* An environment that is not in a call has no request.
LEMMA IdleLemma ==
  /\ NoReq.at = "none" /\ Unborn.at = "unborn" /\ [at |-> "panic"].at = "panic"
  /\ NoReq # Unborn /\ [at |-> "panic"] # Unborn
  /\ \A r \in Idles : r.at \notin {"send", "wait"}
  /\ \A r \in Closing : r.at = "unmap" /\ r # Unborn /\ r \in Idles
PROOF BY DEF NoReq, Unborn, Idles, Closing

\* The request of a client that sends or waits.
LEMMA BusyLemma ==
  ASSUME NEW r \in Requests({"send", "wait"}) \cup Idles
  PROVE  /\ r.at = "send" => r \in Requests({"send"})
         /\ r.at = "wait" => r \in Requests({"wait"})
         /\ \A S \in {{"send"}, {"wait"}} :
              r \in Requests(S) => r \in Requests({"send", "wait"})
         /\ r \in FileReqs({"send", "wait"}) => r.at \in {"send", "wait"}
PROOF
  <1>1. r.at \in {"send", "wait"} => r \in Requests({"send", "wait"}) BY IdleLemma
  <1>2. ASSUME r \in Requests({"send", "wait"}), NEW x \in {"send", "wait"}, r.at = x
        PROVE  r \in Requests({x})
    <2>1. CASE r \in OpenReqs({"send", "wait"}) BY <1>2, <2>1 DEF OpenReqs, Requests
    <2>2. CASE r \in FileReqs({"send", "wait"}) BY <1>2, <2>2 DEF FileReqs, Requests
    <2>3. CASE r \in SyncReqs({"send", "wait"}) BY <1>2, <2>3 DEF SyncReqs, Requests
    <2> QED BY <1>2, <2>1, <2>2, <2>3 DEF Requests
  <1>3. \A S \in {{"send"}, {"wait"}} : r \in Requests(S) => r \in Requests({"send", "wait"})
    BY DEF Requests, OpenReqs, FileReqs, SyncReqs
  <1>4. r \in FileReqs({"send", "wait"}) => r.at \in {"send", "wait"} BY DEF FileReqs
  <1> QED BY <1>1, <1>2, <1>3, <1>4

\* A request that has been taken waits for its answer.
LEMMA TakenLemma ==
  ASSUME NEW r \in Requests({"send"}), NEW w, w = [r EXCEPT !.at = "wait"]
  PROVE  /\ w \in Requests({"wait"}) /\ w.at = "wait" /\ w.op = r.op
         /\ r.op = "open" => w.name = r.name
         /\ r \in FileReqs({"send"}) <=> w \in FileReqs({"send", "wait"})
         /\ r \in FileReqs({"send"}) => w.id = r.id /\ w.file = r.file
PROOF
  <1>1. CASE r \in OpenReqs({"send"})
    <2>1. /\ w \in OpenReqs({"wait"}) /\ w.at = "wait" /\ w.op = r.op /\ w.name = r.name
          /\ r.op = "open"
      BY <1>1 DEF OpenReqs
    <2>2. r \notin FileReqs({"send"}) /\ w \notin FileReqs({"send", "wait"})
      BY <2>1 DEF FileReqs, FileOps
    <2> QED BY <2>1, <2>2 DEF Requests
  <1>2. CASE r \in FileReqs({"send"})
    <2>1. /\ w \in FileReqs({"wait"}) /\ w \in FileReqs({"send", "wait"}) /\ w.at = "wait"
          /\ w.op = r.op /\ w.id = r.id /\ w.file = r.file /\ r.op \in FileOps
      BY <1>2 DEF FileReqs
    <2> QED BY <1>2, <2>1 DEF Requests, FileOps
  <1>3. CASE r \in SyncReqs({"send"})
    <2>1. /\ w \in SyncReqs({"wait"}) /\ w.at = "wait" /\ w.op = r.op /\ r.op = "sync"
      BY <1>3 DEF SyncReqs
    <2>2. r \notin FileReqs({"send"}) /\ w \notin FileReqs({"send", "wait"})
      BY <2>1 DEF FileReqs, FileOps
    <2> QED BY <2>1, <2>2 DEF Requests
  <1> QED BY <1>1, <1>2, <1>3 DEF Requests

\* What the server is doing.
LEMMA ServerLemma ==
  ASSUME Types
  PROVE  /\ server.at = "serve" => /\ server \in Serving /\ server.from \in Clients
                                   /\ server.r \in Requests({"send"})
         /\ server.at = "reply" => /\ server \in Replying /\ server.to \in Clients
                                   /\ server.ret \in {"ok", "error", "inval"}
         /\ server \in Serving => server.at = "serve"
PROOF
  <1>1. server \in Serving => server.at = "serve" /\ server.from \in Clients
                              /\ server.r \in Requests({"send"})
    BY DEF Serving
  <1>2. server \in Replying => server.at = "reply" /\ server.to \in Clients
                               /\ server.ret \in {"ok", "error", "inval"}
    BY DEF Replying
  <1>3. Listening.at = "recv" /\ [at |-> "panic"].at = "panic" BY DEF Listening
  <1> QED BY <1>1, <1>2, <1>3 DEF Types

\* A set of natural numbers that is not empty has a minimum.
LEMMA MinLemma ==
  ASSUME NEW S, S \subseteq Nat, S # {}
  PROVE  Min(S) \in S /\ \A y \in S : Min(S) <= y
PROOF
  <1> DEFINE Less == OpToRel(<, Nat)
  <1>1. \A x, y \in Nat : y < x => <<y, x>> \in Less BY DEF OpToRel
  <1>2. IsWellFoundedOn(Less, Nat) BY NatLessThanWellFounded
  <1> HIDE DEF Less
  <1>3. PICK m \in S : \A y \in S : ~(<<y, m>> \in Less) BY <1>2, WFMin
  <1>4. ASSUME NEW y \in S PROVE m <= y
    <2>1. ~(y < m) BY <1>1, <1>3, Zenon
    <2> QED BY <2>1
  <1> QED BY <1>4 DEF Min

\* The constants.
LEMMA SlotFacts ==
  /\ MAXOPEN \in Nat /\ MAXOPEN > 0 /\ MAXOPEN \notin Slots /\ Slots \subseteq Nat
  /\ \A s \in Slots : s < MAXOPEN
  /\ \A n \in Nat : n % MAXOPEN \in Slots
  /\ \A n \in Nat : n < IDMOD => n % IDMOD = n
PROOF
  <1>1. MAXOPEN \in Nat \ {0} /\ IDMOD \in Nat \ {0} BY FsServerAssumption
  <1> QED BY <1>1 DEF Slots

\* An id tells its slot.
LEMMA IdLemma ==
  ASSUME NEW s \in Slots, NEW t \in Slots, NEW k \in Nat, NEW j \in Nat
  PROVE  /\ IdAfter(s, k) \in Nat /\ IdAfter(s, k) + MAXOPEN = IdAfter(s, k + 1)
         /\ IdAfter(s, k) = IdAfter(t, j) => s = t
PROOF
  <1> DEFINE M == MAXOPEN
  <1>1. M \in Nat /\ M > 0 /\ s \in Nat /\ t \in Nat /\ s < M /\ t < M BY SlotFacts
  <1> HIDE DEF M
  <1>2. M * k \in Nat /\ M * j \in Nat /\ M * (k + 1) = M * k + M BY <1>1
  <1>3. ASSUME k < j PROVE M * k + M <= M * j
    <2>1. j - k - 1 \in Nat BY <1>3
    <2>2. M * j = M * k + M + M * (j - k - 1) BY <1>1
    <2>3. M * (j - k - 1) \in Nat BY <1>1, <2>1
    <2> QED BY <1>1, <1>2, <2>2, <2>3
  <1>4. ASSUME j < k PROVE M * j + M <= M * k
    <2>1. k - j - 1 \in Nat BY <1>4
    <2>2. M * k = M * j + M + M * (k - j - 1) BY <1>1
    <2>3. M * (k - j - 1) \in Nat BY <1>1, <2>1
    <2> QED BY <1>1, <1>2, <2>2, <2>3
  <1>5. s + M * k = t + M * j => s = t
    <2>1. CASE k < j BY <2>1, <1>1, <1>2, <1>3
    <2>2. CASE j < k BY <2>2, <1>1, <1>2, <1>4
    <2>3. CASE k = j BY <2>3, <1>1, <1>2
    <2> QED BY <2>1, <2>2, <2>3
  <1> QED BY <1>1, <1>2, <1>5 DEF IdAfter, M

\* As long as the opens are bounded, ids do not wrap.
LEMMA NoWrap ==
  ASSUME NEW s \in Slots, NEW k \in Nat, k <= MaxOpens
  PROVE  IdAfter(s, k) < IDMOD
PROOF
  <1> DEFINE M == MAXOPEN
             q == IDMOD \div MAXOPEN
  <1>1. M \in Nat /\ M > 0 /\ s \in Nat /\ s < M BY SlotFacts
  <1>2. MaxOpens \in Nat /\ IDMOD \in Nat BY FsServerAssumption
  <1>3. q \in Nat /\ M * q <= IDMOD BY <1>1, <1>2
  <1>4. MaxOpens < q BY FsServerAssumption
  <1> HIDE DEF M, q
  <1>5. q - k - 1 \in Nat BY <1>2, <1>3, <1>4
  <1>6. M * q = M * k + M + M * (q - k - 1) BY <1>1, <1>3
  <1>7. M * (q - k - 1) \in Nat /\ M * k \in Nat BY <1>1, <1>5
  <1>8. M * k + M <= IDMOD BY <1>1, <1>2, <1>3, <1>6, <1>7
  <1>9. s + M * k < IDMOD BY <1>1, <1>2, <1>7, <1>8
  <1> QED BY <1>9 DEF IdAfter, M

-----------------------------------------------------------------------------
(* Counting *)

\* The sets that are counted are finite.
LEMMA FiniteLemma ==
  /\ \A S \in SUBSET Clients : IsFiniteSet(S) /\ Cardinality(S) \in Nat
  /\ \A S \in SUBSET (Clients \X OpenFds) :
       IsFiniteSet(S) /\ Cardinality(S) \in Nat /\ (Cardinality(S) = 0 => S = {})
PROOF
  <1>1. IsFiniteSet(Clients) /\ IsFiniteSet(OpenFds) BY FsServerAssumption
  <1>2. IsFiniteSet(Clients \X OpenFds) BY <1>1, FS_Product
  <1>3. \A S \in SUBSET Clients : IsFiniteSet(S) BY <1>1, FS_Subset
  <1>4. \A S \in SUBSET (Clients \X OpenFds) : IsFiniteSet(S) BY <1>2, FS_Subset
  <1>5. \A S \in SUBSET Clients : Cardinality(S) \in Nat BY <1>3, FS_CardinalityType
  <1>6. \A S \in SUBSET (Clients \X OpenFds) : Cardinality(S) \in Nat
    BY <1>4, FS_CardinalityType
  <1>7. \A S \in SUBSET (Clients \X OpenFds) : Cardinality(S) = 0 => S = {}
    BY <1>4, FS_EmptySet
  <1> QED BY <1>3, <1>4, <1>5, <1>6, <1>7

\* Clients that ask more, less, or the same.
LEMMA CountLemma ==
  ASSUME NEW A \in SUBSET Clients, NEW B \in SUBSET Clients, NEW c \in Clients
  PROVE  /\ Cardinality(A) \in Nat /\ Cardinality(B) \in Nat
         /\ B \subseteq A => Cardinality(B) <= Cardinality(A)
         /\ B \subseteq A \cup {c} => Cardinality(B) <= Cardinality(A) + 1
         /\ c \in A /\ B \subseteq A \ {c} => Cardinality(B) + 1 <= Cardinality(A)
PROOF
  <1>1. IsFiniteSet(A) /\ IsFiniteSet(B) /\ Cardinality(A) \in Nat /\ Cardinality(B) \in Nat
    BY FiniteLemma
  <1>2. B \subseteq A => Cardinality(B) <= Cardinality(A) BY <1>1, FS_Subset
  <1>3. /\ IsFiniteSet(A \cup {c}) /\ Cardinality(A \cup {c}) \in Nat
        /\ Cardinality(A \cup {c}) <= Cardinality(A) + 1
    <2>1. Cardinality(A \cup {c}) = IF c \in A THEN Cardinality(A) ELSE Cardinality(A) + 1
      BY <1>1, FS_AddElement
    <2> QED BY <1>1, <2>1, FiniteLemma
  <1>4. B \subseteq A \cup {c} => Cardinality(B) <= Cardinality(A \cup {c})
    BY <1>3, FS_Subset
  <1>5. ASSUME c \in A, B \subseteq A \ {c} PROVE Cardinality(B) + 1 <= Cardinality(A)
    <2>1. IsFiniteSet(A \ {c}) /\ Cardinality(A \ {c}) \in Nat BY FiniteLemma
    <2>2. Cardinality(A \ {c}) = Cardinality(A) - 1 BY <1>1, <1>5, FS_RemoveElement
    <2>3. Cardinality(B) <= Cardinality(A \ {c}) BY <1>5, <2>1, FS_Subset
    <2> QED BY <1>1, <2>1, <2>2, <2>3
  <1> QED BY <1>1, <1>2, <1>3, <1>4, <1>5

\* A bound that moves with what it bounds.
LEMMA BoundMoves ==
  ASSUME NEW k \in Nat, NEW n \in Nat, NEW m \in Nat, NEW o \in Nat, NEW p \in Nat,
         k + n <= o, m + o <= n + p
  PROVE  k + m <= p
PROOF OBVIOUS

\* Opens are served at most once.
LEMMA CountedStays ==
  ASSUME Types, IdsCounted, opentab' = opentab, opens' \in Nat, opens <= opens',
         BeingServed' \in {0, 1},
         Cardinality(Asking)' \in Nat,
         Cardinality(Asking)' + BeingServed' + opens
           <= Cardinality(Asking) + BeingServed + opens'
  PROVE  IdsCounted'
PROOF
  <1> DEFINE n == Cardinality(Asking) + BeingServed
             m == Cardinality(Asking)' + BeingServed'
  <1>1. Asking \in SUBSET Clients /\ Cardinality(Asking) \in Nat BY FiniteLemma DEF Asking
  <1>2. n \in Nat /\ m \in Nat /\ m + opens <= n + opens' /\ opens \in Nat
    BY <1>1, FsServerAssumption DEF BeingServed, Types
  <1> SUFFICES ASSUME NEW s \in Slots
               PROVE  \E k \in 0..opens' : opentab[s].id = IdAfter(s, k) /\
                        k + Cardinality(Asking)' + BeingServed' <= opens'
    BY DEF IdsCounted, IdAfter
  <1>3. PICK k \in 0..opens : opentab[s].id = IdAfter(s, k)
                              /\ k + Cardinality(Asking) + BeingServed <= opens
    BY DEF IdsCounted
  <1>4. k + n <= opens BY <1>1, <1>3 DEF BeingServed
  <1> HIDE DEF n, m
  <1>5. k + m <= opens'
    <2>1. k \in Nat BY <1>2, <1>3
    <2> QED BY <1>2, <1>4, <2>1, BoundMoves
  <1>6. k \in 0..opens' BY <1>2, <1>3
  <1> QED BY <1>1, <1>3, <1>5, <1>6 DEF m

\* Who holds an id keeps it, as long as no file is opened.
LEMMA HolderStays ==
  ASSUME Types, NEW id, NEW file, HasId(id, file), opentab' = opentab,
         opens' \in Nat, opens <= opens'
  PROVE  HolderOK(opentab', opens', id, file)
PROOF
  <1>1. PICK s \in Slots, k \in 0..opens :
          /\ id = IdAfter(s, k) /\ id <= opentab[s].id
          /\ opentab[s].id = id => opentab[s].file = file
    BY DEF HolderOK, HasId
  <1>2. k \in 0..opens' BY DEF Types
  <1> QED BY <1>1, <1>2 DEF HolderOK

-----------------------------------------------------------------------------
(* Clients *)

\* A step of a client: it makes a request, it comes into being or it goes, and
\* it never has a descriptor that nobody had before.
Change(x) ==
  \/ req'[x] = req[x] /\ (x \in alive' => x \in alive)
  \/ x \in alive /\ req[x].at # "wait" /\ req'[x] # Unborn
  \/ x \notin alive' /\ req'[x] # Unborn
  \/ req[x] = Unborn /\ req'[x] # Unborn
CopyOf(x, i, y, j) ==
  /\ fd[y][j] # NoFd
  /\ fd'[x][i].slot = fd[y][j].slot /\ fd'[x][i].id = fd[y][j].id
  /\ fd'[x][i].file = fd[y][j].file /\ (fd'[x][i].shared => fd[y][j].shared)

\* A step of the clients keeps the invariant, if it hands out copies of
\* descriptors there are, and requests carry ids that a client holds.
LEMMA ClientLemma ==
  ASSUME IInv, Types', IdsCounted', UNCHANGED <<opentab, server>>, opens <= opens',
         \A x \in Clients : Change(x),
         \A x \in Clients : \/ req'[x] = req[x]
                            \/ req'[x] \notin FileReqs({"send", "wait"})
                            \/ HasId(req'[x].id, req'[x].file),
         \A x \in Clients, i \in OpenFds :
           fd'[x][i] # NoFd => \E y \in Clients, j \in OpenFds : CopyOf(x, i, y, j)
  PROVE  IInv'
PROOF
  <1>1. Types /\ Holders /\ Waiting /\ opens' \in Nat
    BY FsServerAssumption DEF IInv, Types
  <1>2. Holders'
    <2>1. ASSUME NEW x \in Clients, NEW i \in OpenFds, fd'[x][i] # NoFd
          PROVE  HolderOK(opentab', opens', fd'[x][i].id, fd'[x][i].file)
      <3>1. PICK y \in Clients, j \in OpenFds : CopyOf(x, i, y, j) BY <2>1
      <3>2. HasId(fd[y][j].id, fd[y][j].file) BY <1>1, <3>1 DEF Holders, CopyOf
      <3>3. HolderOK(opentab', opens', fd[y][j].id, fd[y][j].file)
        BY <1>1, <3>2, HolderStays
      <3> QED BY <3>1, <3>3 DEF CopyOf
    <2>2. ASSUME NEW x \in Clients, req'[x] \in FileReqs({"send", "wait"})
          PROVE  HolderOK(opentab', opens', req'[x].id, req'[x].file)
      <3>1. HasId(req'[x].id, req'[x].file) BY <1>1, <2>2 DEF Holders
      <3> QED BY <1>1, <3>1, HolderStays
    <2>3. ASSUME server \in Serving, server.r \in FileReqs({"send"})
          PROVE  HolderOK(opentab', opens', server.r.id, server.r.file)
      <3>1. HasId(server.r.id, server.r.file) BY <1>1, <2>3 DEF Holders
      <3> QED BY <1>1, <3>1, HolderStays
    <2> QED BY <2>1, <2>2, <2>3
         DEF Holders, HasId, Serving, FileReqs, Requests, OpenReqs, SyncReqs
  <1>3. ASSUME NEW x \in Clients, NEW i \in OpenFds PROVE SharedOK(x, i)'
    <2> SUFFICES ASSUME Shared(x, i)'
                 PROVE  /\ opentab[fd'[x][i].slot].mapped
                        /\ opentab[fd'[x][i].slot].id = fd'[x][i].id
                        /\ opentab[fd'[x][i].slot].file = fd'[x][i].file
      BY DEF SharedOK
    <2>1. fd'[x][i] # NoFd /\ fd'[x][i].shared BY DEF Shared
    <2>2. PICK y \in Clients, j \in OpenFds : CopyOf(x, i, y, j) BY <2>1
    <2>3. Shared(y, j) BY <2>1, <2>2 DEF CopyOf, Shared
    <2>4. SharedOK(y, j) BY DEF IInv
    <2> QED BY <2>2, <2>3, <2>4 DEF CopyOf, SharedOK
  <1>4. Waiting'
    <2>1. \A x \in alive' : req'[x] # Unborn
      BY <1>1 DEF Waiting, Change, Types
    <2>2. ASSUME NEW x \in Clients, req[x] # Unborn,
                 x \in alive => req[x].at = "wait"
          PROVE  /\ req'[x] # Unborn
                 /\ x \in alive' => x \in alive /\ req'[x] = req[x]
      BY <2>2 DEF Change
    <2>3. ASSUME server.at = "serve"
          PROVE  /\ req'[server.from] # Unborn
                 /\ server.from \in alive' =>
                      /\ req'[server.from].at = "wait" /\ req'[server.from].op = server.r.op
                      /\ server.r.op = "open" => req'[server.from].name = server.r.name
      BY <1>1, <2>2, <2>3, ServerLemma DEF Waiting
    <2>4. ASSUME server.at = "reply"
          PROVE  /\ req'[server.to] # Unborn
                 /\ server.to \in alive' =>
                      /\ req'[server.to].at = "wait"
                      /\ req'[server.to].op = "open" /\ server.ret = "ok" =>
                           /\ server.slot \in Slots /\ opentab[server.slot].mapped
                           /\ opentab[server.slot].file = req'[server.to].name
      BY <1>1, <2>2, <2>4, ServerLemma DEF Waiting
    <2> QED BY <2>1, <2>3, <2>4 DEF Waiting
  <1> QED BY <1>2, <1>3, <1>4 DEF IInv

\* The count of the opens after a step of a client.
LEMMA AskingLemma ==
  ASSUME Types, IdsCounted, UNCHANGED <<opentab, server>>, NEW c \in Clients,
         \/ opens' = opens /\ Asking' \subseteq Asking
         \/ opens' = opens + 1 /\ Asking' \subseteq Asking \cup {c}
  PROVE  IdsCounted'
PROOF
  <1>1. Asking \in SUBSET Clients /\ Asking' \in SUBSET Clients BY DEF Asking
  <1>2. /\ Cardinality(Asking) \in Nat /\ Cardinality(Asking') \in Nat
        /\ Asking' \subseteq Asking => Cardinality(Asking') <= Cardinality(Asking)
        /\ Asking' \subseteq Asking \cup {c} => Cardinality(Asking') <= Cardinality(Asking) + 1
    BY <1>1, CountLemma
  <1>3. BeingServed' = BeingServed /\ BeingServed \in {0, 1} BY DEF BeingServed
  <1>4. opens \in Nat /\ opens' \in Nat /\ opens <= opens'
    BY FsServerAssumption DEF Types
  <1>5. PICK a \in Nat, b \in Nat, s \in {0, 1}, o \in Nat, p \in Nat :
          /\ a = Cardinality(Asking) /\ b = Cardinality(Asking') /\ s = BeingServed
          /\ o = opens /\ p = opens'
    BY <1>2, <1>3, <1>4
  <1>6. \/ p = o /\ b <= a
        \/ p = o + 1 /\ b <= a + 1
    BY <1>2, <1>5
  <1>7. b + s + o <= a + s + p BY <1>6
  <1> QED BY <1>2, <1>3, <1>4, <1>5, <1>7, CountedStays

\* A client that starts a call.
LEMMA CallLemma ==
  ASSUME IInv, NEW c \in Clients, Calling(c),
         NEW w \in Requests({"send"}) \cup {[at |-> "panic"]},
         req' = [req EXCEPT ![c] = w], UNCHANGED <<alive, fd, opentab, server>>,
         \/ opens' = opens /\ w \notin OpenReqs({"send"})
         \/ opens' = opens + 1 /\ opens < MaxOpens,
         w \in FileReqs({"send"}) => HasId(w.id, w.file)
  PROVE  IInv'
PROOF
  <1>1. Types /\ IdsCounted BY DEF IInv
  <1>2. MaxOpens \in Nat /\ opens \in 0..MaxOpens BY <1>1, FsServerAssumption DEF Types
  <1>3. w \in Requests({"send", "wait"}) \cup Idles /\ w # Unborn
    <2>1. w \in Requests({"send"}) => w.at = "send" BY ReqLemma
    <2>2. w # Unborn BY <2>1, IdleLemma
    <2> QED BY <2>2, BusyLemma DEF Idles, Requests, OpenReqs, FileReqs, SyncReqs
  <1>4. Types' BY <1>1, <1>2, <1>3 DEF Types
  <1>5. \A x \in Clients : req'[x] = IF x = c THEN w ELSE req[x] BY <1>1 DEF Types
  <1>6. w.op = "open" /\ w.at = "send" => w \in OpenReqs({"send"})
    BY ReqLemma, IdleLemma DEF FileOps
  <1>7. \/ opens' = opens /\ Asking' \subseteq Asking
        \/ opens' = opens + 1 /\ Asking' \subseteq Asking \cup {c}
    BY <1>5, <1>6 DEF Asking
  <1>8. IdsCounted' BY <1>1, <1>7, AskingLemma
  <1>9. \A x \in Clients : Change(x) BY <1>3, <1>5 DEF Change, Calling
  <1>10. w \in FileReqs({"send", "wait"}) => w \in FileReqs({"send"})
    <2>1. w \in FileReqs({"send", "wait"}) => w.op \in FileOps /\ w.at \in {"send", "wait"}
      BY DEF FileReqs
    <2>2. w \in FileReqs({"send", "wait"}) => w \in Requests({"send"}) BY <2>1, IdleLemma
    <2> QED BY <2>1, <2>2, ReqLemma DEF FileOps
  <1>11. \A x \in Clients : \/ req'[x] = req[x]
                            \/ req'[x] \notin FileReqs({"send", "wait"})
                            \/ HasId(req'[x].id, req'[x].file)
    BY <1>5, <1>10
  <1>12. \A x \in Clients, i \in OpenFds :
           fd'[x][i] # NoFd => \E y \in Clients, j \in OpenFds : CopyOf(x, i, y, j)
    BY DEF CopyOf
  <1>13. opens <= opens' BY <1>2
  <1> QED BY <1>4, <1>8, <1>9, <1>11, <1>12, <1>13, ClientLemma

\* open() sends a request that names no open file.
LEMMA OpenLemma ==
  ASSUME IInv, NEW c \in Clients, open(c)
  PROVE  IInv'
PROOF
  <1>1. PICK n \in Names, mode \in Modes :
          Ask(c, [at |-> "send", op |-> "open", i |-> Min(Unused(c)),
                  name |-> n, mode |-> mode])
    BY DEF open
  <1>2. Min(Unused(c)) \in OpenFds
    <2>1. Unused(c) \subseteq Nat /\ Unused(c) # {} /\ Unused(c) \subseteq OpenFds
      BY FsServerAssumption DEF open, Unused
    <2> QED BY <2>1, MinLemma
  <1>3. PICK w : w = [at |-> "send", op |-> "open", i |-> Min(Unused(c)),
                      name |-> n, mode |-> mode]
    OBVIOUS
  <1>4. w \in OpenReqs({"send"}) BY <1>2, <1>3 DEF OpenReqs
  <1>5. w \in Requests({"send"}) /\ w \notin FileReqs({"send"})
    <2>1. w \in FileReqs({"send"}) => w.op \in FileOps BY DEF FileReqs
    <2> QED BY <1>3, <1>4, <2>1 DEF Requests, FileOps
  <1> QED BY <1>1, <1>3, <1>5, CallLemma DEF open, Ask

\* A request on an open file carries the id that its descriptor holds.
LEMMA RequestLemma ==
  ASSUME IInv, NEW c \in Clients, request(c)
  PROVE  IInv'
PROOF
  <1>1. PICK i \in OpenFds, op \in FileOps :
          /\ fd[c][i] # NoFd
          /\ Ask(c, [at |-> "send", op |-> op, i |-> i,
                     id |-> fd[c][i].id, file |-> fd[c][i].file])
    BY DEF request, FileOps
  <1>2. fd[c][i] \in Fds BY <1>1 DEF IInv, Types
  <1>3. PICK w : w = [at |-> "send", op |-> op, i |-> i,
                      id |-> fd[c][i].id, file |-> fd[c][i].file]
    OBVIOUS
  <1>4. w \in FileReqs({"send"}) /\ w.id = fd[c][i].id /\ w.file = fd[c][i].file
    BY <1>2, <1>3 DEF FileReqs, Fds
  <1>5. w \in Requests({"send"}) /\ w \notin OpenReqs({"send"})
    <2>1. w \in OpenReqs({"send"}) => w.op = "open" BY DEF OpenReqs
    <2>2. w.op \in FileOps BY <1>3
    <2> QED BY <1>4, <2>1, <2>2 DEF Requests, FileOps
  <1>6. HasId(w.id, w.file) BY <1>1, <1>4 DEF IInv, Holders
  <1> QED BY <1>1, <1>3, <1>5, <1>6, CallLemma DEF request, Ask

\* sync, and write, which the library does not have.
LEMMA PanicLemma ==
  ASSUME IInv, NEW c \in Clients, sync(c) \/ write(c)
  PROVE  IInv'
PROOF
  <1>1. PICK w : /\ w \in {[at |-> "panic"], [at |-> "send", op |-> "sync", i |-> 0]}
                 /\ req' = [req EXCEPT ![c] = w]
    BY DEF sync, write
  <1>2. w = [at |-> "panic"] \/ w \in SyncReqs({"send"}) BY <1>1 DEF SyncReqs
  <1>3. w \in Requests({"send"}) \cup {[at |-> "panic"]} BY <1>2 DEF Requests
  <1>4. w \notin OpenReqs({"send"}) /\ w \notin FileReqs({"send"})
    <2>1. CASE w = [at |-> "panic"] BY <2>1 DEF OpenReqs, FileReqs
    <2>2. CASE w \in SyncReqs({"send"}) BY <2>2 DEF SyncReqs, OpenReqs, FileReqs, FileOps
    <2> QED BY <1>2, <2>1, <2>2
  <1>5. Calling(c) /\ UNCHANGED <<alive, fd, opentab, server, opens>> BY DEF sync, write
  <1> QED BY <1>1, <1>3, <1>4, <1>5, CallLemma

\* A store to a descriptor page makes it private.
LEMMA SeekLemma ==
  ASSUME IInv, NEW c \in Clients, seek(c)
  PROVE  IInv'
PROOF
  <1>1. PICK i \in OpenFds :
          /\ fd[c][i] # NoFd
          /\ fd' = [fd EXCEPT ![c][i].cow = FALSE, ![c][i].shared = FALSE]
    BY DEF seek
  <1>2. /\ UNCHANGED <<alive, req, opentab, server, opens>>
        /\ Types /\ IdsCounted
    BY DEF seek, IInv
  <1>3. fd \in [Clients -> [OpenFds -> Fds \cup {NoFd}]] /\ fd[c][i] \in Fds
    BY <1>1, <1>2 DEF Types
  <1>4. PICK d : d = [[fd[c][i] EXCEPT !.cow = FALSE] EXCEPT !.shared = FALSE] OBVIOUS
  <1>5. /\ d \in Fds /\ d.slot = fd[c][i].slot /\ d.id = fd[c][i].id
        /\ d.file = fd[c][i].file /\ d.shared = FALSE
    BY <1>3, <1>4 DEF Fds
  <1>6. fd' = [fd EXCEPT ![c] = [fd[c] EXCEPT ![i] = d]] BY <1>1, <1>3, <1>4
  <1>7. [fd[c] EXCEPT ![i] = d] \in [OpenFds -> Fds \cup {NoFd}] BY <1>3, <1>5
  <1>8. Types' BY <1>2, <1>3, <1>6, <1>7 DEF Types
  <1>9. IdsCounted' BY <1>2, AskingLemma DEF Asking
  <1>10. \A x \in Clients, j \in OpenFds :
           fd'[x][j] = IF x = c /\ j = i THEN d ELSE fd[x][j]
    BY <1>3, <1>6
  <1>11. \A x \in Clients, j \in OpenFds :
           fd'[x][j] # NoFd => \E y \in Clients, l \in OpenFds : CopyOf(x, j, y, l)
    <2>1. ASSUME NEW x \in Clients, NEW j \in OpenFds, fd'[x][j] # NoFd
          PROVE  CopyOf(x, j, x, j)
      <3>1. CASE x = c /\ j = i
        <4>1. fd'[x][j] = d /\ fd[x][j] = fd[c][i] /\ fd[x][j] # NoFd BY <1>1, <1>10, <3>1
        <4> QED BY <1>5, <4>1 DEF CopyOf
      <3>2. CASE ~(x = c /\ j = i)
        <4>1. fd'[x][j] = fd[x][j] BY <1>10, <3>2
        <4> QED BY <2>1, <4>1 DEF CopyOf
      <3> QED BY <3>1, <3>2
    <2> QED BY <2>1
  <1>12. \A x \in Clients : Change(x) BY <1>2 DEF Change
  <1>13. opens \in Nat BY <1>2, FsServerAssumption DEF Types
  <1> QED BY <1>2, <1>8, <1>9, <1>11, <1>12, <1>13, ClientLemma

\* The child's descriptors are those of its parent, copy-on-write.
LEMMA ForkLemma ==
  ASSUME IInv, NEW c \in Clients, fork(c)
  PROVE  IInv'
PROOF
  <1> DEFINE copy == [i \in OpenFds |->
                        IF fd[c][i] = NoFd THEN NoFd ELSE [fd[c][i] EXCEPT !.cow = TRUE]]
  <1>1. PICK k \in Clients :
          /\ req[k] = Unborn /\ alive' = alive \cup {k}
          /\ fd' = [x \in Clients |-> IF x \in {c, k} THEN copy ELSE fd[x]]
          /\ req' = [req EXCEPT ![k] = NoReq]
    BY DEF fork
  <1>2. UNCHANGED <<opentab, server, opens>> /\ Types /\ IdsCounted BY DEF fork, IInv
  <1>3. fd \in [Clients -> [OpenFds -> Fds \cup {NoFd}]] BY <1>2 DEF Types
  <1>4. ASSUME NEW i \in OpenFds, fd[c][i] # NoFd
        PROVE  /\ copy[i] \in Fds /\ copy[i].slot = fd[c][i].slot /\ copy[i].id = fd[c][i].id
               /\ copy[i].file = fd[c][i].file /\ copy[i].shared = fd[c][i].shared
    <2>1. fd[c][i] \in Fds BY <1>3, <1>4
    <2>2. copy[i] = [fd[c][i] EXCEPT !.cow = TRUE] BY <1>4
    <2> QED BY <2>1, <2>2 DEF Fds
  <1>5. \A i \in OpenFds : fd[c][i] = NoFd => copy[i] = NoFd OBVIOUS
  <1>6. copy \in [OpenFds -> Fds \cup {NoFd}]
    <2>1. copy = [i \in OpenFds |-> copy[i]] OBVIOUS
    <2>2. \A i \in OpenFds : copy[i] \in Fds \cup {NoFd} BY <1>4, <1>5
    <2> HIDE DEF copy
    <2> QED BY <2>1, <2>2
  <1> HIDE DEF copy
  <1>7. Types'
    <2>1. NoReq \in Idles BY DEF Idles
    <2>2. req' \in [Clients -> Requests({"send", "wait"}) \cup Idles]
      BY <1>1, <1>2, <2>1 DEF Types
    <2>3. fd' \in [Clients -> [OpenFds -> Fds \cup {NoFd}]] BY <1>1, <1>3, <1>6
    <2> QED BY <1>1, <1>2, <2>2, <2>3 DEF Types
  <1>8. \A x \in Clients : req'[x] = IF x = k THEN NoReq ELSE req[x]
    BY <1>1, <1>2 DEF Types
  <1>9. IdsCounted'
    <2>1. Asking' \subseteq Asking BY <1>8, IdleLemma DEF Asking
    <2> QED BY <1>2, <2>1, AskingLemma
  <1>10. ASSUME NEW x \in Clients, NEW i \in OpenFds, fd'[x][i] # NoFd
         PROVE  \E y \in Clients, j \in OpenFds : CopyOf(x, i, y, j)
    <2>1. CASE x \in {c, k}
      <3>1. fd'[x][i] = copy[i] /\ fd[c][i] # NoFd BY <1>1, <1>5, <1>10, <2>1
      <3> QED BY <1>4, <3>1 DEF CopyOf
    <2>2. CASE x \notin {c, k}
      <3>1. fd'[x][i] = fd[x][i] BY <1>1, <2>2
      <3> QED BY <1>10, <3>1 DEF CopyOf
    <2> QED BY <2>1, <2>2
  <1>11. \A x \in Clients : Change(x) BY <1>1, <1>8, IdleLemma DEF Change
  <1>12. \A x \in Clients : \/ req'[x] = req[x]
                            \/ req'[x] \notin FileReqs({"send", "wait"})
    <2>1. NoReq \notin FileReqs({"send", "wait"}) BY IdleLemma DEF FileReqs
    <2> QED BY <1>8, <2>1
  <1>13. opens \in Nat BY <1>2, FsServerAssumption DEF Types
  <1> QED BY <1>2, <1>7, <1>9, <1>10, <1>11, <1>12, <1>13, ClientLemma

\* A client that goes takes its mappings and its request with it.
LEMMA DestroyLemma ==
  ASSUME IInv, NEW c \in Clients, destroy(c)
  PROVE  IInv'
PROOF
  <1>1. /\ alive' = alive \ {c} /\ fd' = [fd EXCEPT ![c] = [i \in OpenFds |-> NoFd]]
        /\ req' = [req EXCEPT ![c] = NoReq] /\ UNCHANGED <<opentab, server, opens>>
        /\ Types /\ IdsCounted
    BY DEF destroy, IInv
  <1>2. NoReq \in Idles /\ NoReq \notin FileReqs({"send", "wait"})
    BY IdleLemma DEF Idles, FileReqs
  <1>3. Types'
    <2>1. req' \in [Clients -> Requests({"send", "wait"}) \cup Idles] BY <1>1, <1>2 DEF Types
    <2>2. fd' \in [Clients -> [OpenFds -> Fds \cup {NoFd}]] BY <1>1 DEF Types
    <2> QED BY <1>1, <2>1, <2>2 DEF Types
  <1>4. \A x \in Clients : req'[x] = IF x = c THEN NoReq ELSE req[x] BY <1>1 DEF Types
  <1>5. \A x \in Clients, i \in OpenFds : fd'[x][i] = IF x = c THEN NoFd ELSE fd[x][i]
    BY <1>1 DEF Types
  <1>6. IdsCounted'
    <2>1. Asking' \subseteq Asking BY <1>4, IdleLemma DEF Asking
    <2> QED BY <1>1, <2>1, AskingLemma
  <1>7. \A x \in Clients : Change(x) BY <1>1, <1>4, IdleLemma DEF Change
  <1>8. \A x \in Clients, i \in OpenFds :
          fd'[x][i] # NoFd => \E y \in Clients, j \in OpenFds : CopyOf(x, i, y, j)
    BY <1>5 DEF CopyOf
  <1>9. \A x \in Clients : \/ req'[x] = req[x]
                           \/ req'[x] \notin FileReqs({"send", "wait"})
    BY <1>2, <1>4
  <1>10. opens \in Nat BY <1>1, FsServerAssumption DEF Types
  <1> QED BY <1>1, <1>3, <1>6, <1>7, <1>8, <1>9, <1>10, ClientLemma

\* A client is back in user code, or in panic, perhaps with less descriptors.
LEMMA EndLemma ==
  ASSUME IInv, NEW c \in Clients, c \in alive, req[c].at # "wait",
         NEW w \in {NoReq, [at |-> "panic"]}, req' = [req EXCEPT ![c] = w],
         UNCHANGED <<alive, opentab, server, opens>>,
         fd' \in [Clients -> [OpenFds -> Fds \cup {NoFd}]],
         \A x \in Clients, i \in OpenFds : fd'[x][i] \in {fd[x][i], NoFd}
  PROVE  IInv'
PROOF
  <1>1. Types /\ IdsCounted BY DEF IInv
  <1>2. w \in Idles /\ w # Unborn /\ w.at # "send" BY IdleLemma DEF Idles
  <1>3. w \notin FileReqs({"send", "wait"}) BY <1>2, IdleLemma DEF FileReqs
  <1>4. \A x \in Clients : req'[x] = IF x = c THEN w ELSE req[x] BY <1>1 DEF Types
  <1>5. Types'
    <2>1. req' \in [Clients -> Requests({"send", "wait"}) \cup Idles] BY <1>1, <1>2 DEF Types
    <2> QED BY <1>1, <2>1 DEF Types
  <1>6. IdsCounted'
    <2>1. Asking' \subseteq Asking BY <1>2, <1>4 DEF Asking
    <2> QED BY <1>1, <2>1, AskingLemma
  <1>7. \A x \in Clients : Change(x) BY <1>2, <1>4 DEF Change
  <1>8. \A x \in Clients, i \in OpenFds :
          fd'[x][i] # NoFd => \E y \in Clients, j \in OpenFds : CopyOf(x, i, y, j)
    BY DEF CopyOf
  <1>9. \A x \in Clients : req'[x] = req[x] \/ req'[x] \notin FileReqs({"send", "wait"})
    BY <1>3, <1>4
  <1>10. opens \in Nat BY <1>1, FsServerAssumption DEF Types
  <1> QED BY <1>5, <1>6, <1>7, <1>8, <1>9, <1>10, ClientLemma

\* The end of close.
LEMMA CloseLemma ==
  ASSUME IInv, NEW c \in Clients, fd_close(c)
  PROVE  IInv'
PROOF
  <1>1. /\ c \in alive /\ req[c].at # "wait" /\ req' = [req EXCEPT ![c] = NoReq]
        /\ UNCHANGED <<alive, opentab, server, opens>>
    BY DEF fd_close
  <1>2. PICK i : i = req[c].i /\ fd' = [fd EXCEPT ![c][i] = NoFd] BY DEF fd_close
  <1>3. fd \in [Clients -> [OpenFds -> Fds \cup {NoFd}]] BY DEF IInv, Types
  <1>4. fd' \in [Clients -> [OpenFds -> Fds \cup {NoFd}]] BY <1>2, <1>3
  <1>5. \A x \in Clients, j \in OpenFds : fd'[x][j] \in {fd[x][j], NoFd} BY <1>2, <1>3
  <1> QED BY <1>1, <1>4, <1>5, EndLemma

\* A request with a page that may not be sent.
LEMMA RefuseLemma ==
  ASSUME IInv, NEW c \in Clients, ipc_send(c), SendsCow(c)
  PROVE  IInv'
PROOF
  <1>1. /\ c \in alive /\ req[c].at # "wait" /\ req' = [req EXCEPT ![c] = [at |-> "panic"]]
        /\ UNCHANGED <<alive, fd, opentab, server, opens>>
    BY DEF ipc_send
  <1>2. fd' \in [Clients -> [OpenFds -> Fds \cup {NoFd}]] BY <1>1 DEF IInv, Types
  <1> QED BY <1>1, <1>2, EndLemma

\* The server takes a request: what is being served was asked for.
LEMMA SendLemma ==
  ASSUME IInv, NEW c \in Clients, ipc_send(c), ~SendsCow(c)
  PROVE  IInv'
PROOF
  <1>1. PICK r, w : r = req[c] /\ w = [req[c] EXCEPT !.at = "wait"] OBVIOUS
  <1>2. /\ c \in alive /\ r.at = "send" /\ server = Listening
        /\ server' = [at |-> "serve", from |-> c, r |-> r]
        /\ req' = [req EXCEPT ![c] = w]
        /\ UNCHANGED <<alive, fd, opentab, opens>>
        /\ Types /\ IdsCounted /\ Holders /\ Waiting
    BY <1>1 DEF ipc_send, IInv
  <1>3. r \in Requests({"send"}) BY <1>1, <1>2, BusyLemma DEF Types
  <1>4. /\ w \in Requests({"wait"}) /\ w.at = "wait" /\ w.op = r.op
        /\ r.op = "open" => w.name = r.name
        /\ r \in FileReqs({"send"}) <=> w \in FileReqs({"send", "wait"})
        /\ r \in FileReqs({"send"}) => w.id = r.id /\ w.file = r.file
    BY <1>1, <1>3, TakenLemma
  <1>5. /\ server'.at = "serve" /\ server'.from = c /\ server'.r = r /\ server' \in Serving
        /\ w # Unborn
    BY <1>2, <1>3, <1>4, IdleLemma DEF Serving
  <1>6. Types'
    <2>1. w \in Requests({"send", "wait"}) BY <1>4 DEF Requests, OpenReqs, FileReqs, SyncReqs
    <2>2. req' \in [Clients -> Requests({"send", "wait"}) \cup Idles] BY <1>2, <2>1 DEF Types
    <2> QED BY <1>2, <1>5, <2>2 DEF Types
  <1>7. \A x \in Clients : req'[x] = IF x = c THEN w ELSE req[x] BY <1>2 DEF Types
  <1>8. IdsCounted'
    <2>1. BeingServed = 0 BY <1>2 DEF BeingServed, Listening
    <2>2. BeingServed' = IF r.op = "open" THEN 1 ELSE 0 BY <1>5 DEF BeingServed
    <2>3. Asking' \subseteq Asking \ {c} BY <1>4, <1>7 DEF Asking
    <2>4. r.op = "open" => c \in Asking BY <1>1, <1>2 DEF Asking
    <2>5. Asking \in SUBSET Clients /\ Asking' \in SUBSET Clients BY DEF Asking
    <2>6. /\ Cardinality(Asking) \in Nat /\ Cardinality(Asking') \in Nat
          /\ Cardinality(Asking') <= Cardinality(Asking)
          /\ r.op = "open" => Cardinality(Asking') + 1 <= Cardinality(Asking)
      BY <2>3, <2>4, <2>5, CountLemma
    <2>7. opens \in Nat BY <1>2, FsServerAssumption DEF Types
    <2>8. Cardinality(Asking') + BeingServed' + opens
            <= Cardinality(Asking) + BeingServed + opens'
      BY <1>2, <2>1, <2>2, <2>6, <2>7
    <2> QED BY <1>2, <2>2, <2>6, <2>7, <2>8, CountedStays
  <1>9. Holders'
    <2>1. \A id, file : HasId(id, file)' = HasId(id, file) BY <1>2 DEF HasId, HolderOK
    <2>2. r \in FileReqs({"send"}) => HasId(r.id, r.file)
      BY <1>1, <1>2 DEF Holders, FileReqs
    <2>3. \A x \in Clients : req'[x] \in FileReqs({"send", "wait"}) =>
                               HasId(req'[x].id, req'[x].file)
      BY <1>2, <1>4, <1>7, <2>2 DEF Holders
    <2> QED BY <1>2, <1>5, <2>2, <2>3 DEF Holders, HasId
  <1>10. \A x \in Clients, i \in OpenFds : SharedOK(x, i)'
    BY <1>2 DEF IInv, SharedOK, Shared
  <1>11. Waiting'
    BY <1>2, <1>4, <1>5, <1>7 DEF Waiting
  <1> QED BY <1>6, <1>8, <1>9, <1>10, <1>11 DEF IInv

-----------------------------------------------------------------------------
(* The server *)

\* The answer to a request that opens nothing.
LEMMA AnswerLemma ==
  ASSUME IInv, server.at = "serve", NEW ret \in {"ok", "error", "inval"},
         server.r.op = "open" => ret # "ok", Reply(ret, MAXOPEN),
         UNCHANGED <<alive, fd, req, opentab, opens>>
  PROVE  IInv'
PROOF
  <1>1. Types /\ IdsCounted /\ Holders /\ Waiting BY DEF IInv
  <1>2. server' = [at |-> "reply", to |-> server.from, ret |-> ret, slot |-> MAXOPEN]
    BY DEF Reply
  <1>3. /\ server'.at = "reply" /\ server'.to = server.from /\ server'.ret = ret
        /\ server.from \in Clients /\ server' \in Replying /\ server' \notin Serving
    BY <1>1, <1>2, ServerLemma DEF Replying, Serving
  <1>4. Types' BY <1>1, <1>3 DEF Types
  <1>5. IdsCounted'
    <2>1. BeingServed' = 0 /\ BeingServed \in {0, 1} BY <1>3 DEF BeingServed
    <2>2. Asking \in SUBSET Clients /\ Asking' = Asking BY DEF Asking
    <2>3. Cardinality(Asking) \in Nat BY <2>2, FiniteLemma
    <2>4. opens \in Nat BY <1>1, FsServerAssumption DEF Types
    <2>5. Cardinality(Asking') + BeingServed' + opens
            <= Cardinality(Asking) + BeingServed + opens'
      BY <2>1, <2>2, <2>3, <2>4
    <2> QED BY <1>1, <2>1, <2>2, <2>3, <2>4, <2>5, CountedStays
  <1>6. Holders' BY <1>1, <1>3 DEF Holders, HasId, HolderOK
  <1>7. \A x \in Clients, i \in OpenFds : SharedOK(x, i)'
    BY DEF IInv, SharedOK, Shared
  <1>8. Waiting' BY <1>1, <1>3 DEF Waiting
  <1> QED BY <1>4, <1>5, <1>6, <1>7, <1>8 DEF IInv

\* The slot that is taken: nobody else maps its page.
LEMMA AllocLemma ==
  ASSUME IInv, NEW s, s = openfile_alloc
  PROVE  /\ s \in Slots \cup {MAXOPEN}
         /\ s # MAXOPEN => \A c \in Clients, i \in OpenFds : Shared(c, i) => fd[c][i].slot # s
PROOF
  <1> DEFINE free == {t \in Slots : pageref(t) <= 1}
  <1>1. s \in free \cup {MAXOPEN}
    <2>1. free \cup {MAXOPEN} \subseteq Nat BY SlotFacts
    <2> QED BY <2>1, MinLemma DEF openfile_alloc
  <1>2. ASSUME s # MAXOPEN, NEW c \in Clients, NEW i \in OpenFds, Shared(c, i),
               fd[c][i].slot = s
        PROVE  FALSE
    <2>1. s \in Slots /\ pageref(s) <= 1 BY <1>1, <1>2
    <2>2. opentab[s].mapped BY <1>2 DEF IInv, SharedOK
    <2>3. 1 + Cardinality(Mappers(s)) <= 1 BY <2>1, <2>2 DEF pageref
    <2>4. <<c, i>> \in Mappers(s) BY <1>2 DEF Mappers
    <2>5. Mappers(s) \in SUBSET (Clients \X OpenFds) BY DEF Mappers
    <2>6. Cardinality(Mappers(s)) \in Nat /\ (Cardinality(Mappers(s)) = 0 => Mappers(s) = {})
      BY <2>5, FiniteLemma
    <2>7. Cardinality(Mappers(s)) = 0 BY <2>3, <2>6
    <2> QED BY <2>4, <2>6, <2>7
  <1> QED BY <1>1, <1>2

\* A slot that nobody has open gets its next id, and perhaps a file.
LEMMA GiveLemma ==
  ASSUME IInv, server.at = "serve", server.r.op = "open", NEW s \in Slots,
         NEW e \in [id : Nat, mapped : {TRUE}, file : Names \cup {NoFile}],
         e.id = (opentab[s].id + MAXOPEN) % IDMOD,
         opentab' = [opentab EXCEPT ![s] = e],
         \A c \in Clients, i \in OpenFds : Shared(c, i) => fd[c][i].slot # s,
         NEW ret \in {"ok", "error"}, NEW rs \in Slots \cup {MAXOPEN}, Reply(ret, rs),
         ret = "ok" => rs = s /\ e.file = server.r.name,
         UNCHANGED <<alive, fd, req, opens>>
  PROVE  IInv'
PROOF
  <1>1. Types /\ IdsCounted /\ Holders /\ Waiting BY DEF IInv
  <1>2. server' = [at |-> "reply", to |-> server.from, ret |-> ret, slot |-> rs]
    BY DEF Reply
  <1>3. /\ server'.at = "reply" /\ server'.to = server.from /\ server'.ret = ret
        /\ server'.slot = rs
        /\ server.from \in Clients /\ server' \in Replying /\ server' \notin Serving
    BY <1>1, <1>2, ServerLemma DEF Replying, Serving
  <1>4. /\ opentab \in [Slots -> [id : Nat, mapped : BOOLEAN, file : Names \cup {NoFile}]]
        /\ \A t \in Slots : opentab'[t] = IF t = s THEN e ELSE opentab[t]
        /\ opens \in Nat /\ MaxOpens \in Nat /\ opens <= MaxOpens
    BY <1>1, FsServerAssumption DEF Types
  <1>5. Types'
    <2>1. e \in [id : Nat, mapped : BOOLEAN, file : Names \cup {NoFile}] OBVIOUS
    <2>2. opentab' \in [Slots -> [id : Nat, mapped : BOOLEAN, file : Names \cup {NoFile}]]
      BY <1>4, <2>1
    <2> QED BY <1>1, <1>3, <2>2 DEF Types
  <1>6. /\ BeingServed = 1 /\ BeingServed' = 0
        /\ Asking' = Asking /\ Cardinality(Asking) \in Nat
    <2>1. Asking \in SUBSET Clients /\ Asking' = Asking BY DEF Asking
    <2> QED BY <1>3, <2>1, FiniteLemma DEF BeingServed
  <1>7. PICK a \in Nat, o \in Nat : a = Cardinality(Asking) /\ o = opens BY <1>4, <1>6
  <1>8. PICK k \in 0..o : opentab[s].id = IdAfter(s, k) /\ k + a + 1 <= o
    BY <1>1, <1>6, <1>7 DEF IdsCounted
  <1>9. /\ k \in Nat /\ k + 1 \in 0..o /\ k + 1 + a <= o /\ k + 1 <= MaxOpens
    BY <1>4, <1>7, <1>8
  <1>10. e.id = IdAfter(s, k + 1)
    <2>1. opentab[s].id + MAXOPEN = IdAfter(s, k + 1) BY <1>8, <1>9, IdLemma
    <2>2. IdAfter(s, k + 1) \in Nat BY <1>9, IdLemma
    <2>3. IdAfter(s, k + 1) < IDMOD BY <1>9, NoWrap
    <2> QED BY <2>1, <2>2, <2>3, SlotFacts
  <1>11. opentab[s].id < e.id
    <2>1. opentab[s].id \in Nat BY <1>4
    <2>2. e.id = opentab[s].id + MAXOPEN BY <1>8, <1>9, <1>10, IdLemma
    <2> QED BY <2>1, <2>2, SlotFacts
  <1>12. IdsCounted'
    <2> SUFFICES ASSUME NEW t \in Slots
                 PROVE  \E j \in 0..o : opentab'[t].id = IdAfter(t, j) /\ j + a + 0 <= o
      BY <1>6, <1>7 DEF IdsCounted, IdAfter
    <2>1. CASE t = s BY <1>4, <1>7, <1>9, <1>10, <2>1
    <2>2. CASE t # s
      <3>1. PICK j \in 0..o : opentab[t].id = IdAfter(t, j) /\ j + a + 1 <= o
        BY <1>1, <1>6, <1>7 DEF IdsCounted
      <3>2. opentab'[t] = opentab[t] /\ j + a + 0 <= o BY <1>4, <1>7, <2>2, <3>1
      <3> QED BY <3>1, <3>2
    <2> QED BY <2>1, <2>2
  <1>13. ASSUME NEW id, NEW file, HasId(id, file)
         PROVE  HolderOK(opentab', opens', id, file)
    <2>1. PICK t \in Slots, j \in 0..opens :
            /\ id = IdAfter(t, j) /\ id <= opentab[t].id
            /\ opentab[t].id = id => opentab[t].file = file
      BY <1>13 DEF HolderOK, HasId
    <2>2. CASE t # s BY <1>4, <2>1, <2>2 DEF HolderOK
    <2>3. CASE t = s
      <3>1. id \in Nat /\ opentab[t].id \in Nat BY <1>4, <2>1, IdLemma
      <3>2. id <= e.id /\ id # e.id BY <1>11, <2>1, <2>3, <3>1
      <3> QED BY <1>4, <2>1, <2>3, <3>2 DEF HolderOK
    <2> QED BY <2>2, <2>3
  <1>14. Holders' BY <1>1, <1>3, <1>13 DEF Holders, HasId
  <1>15. ASSUME NEW x \in Clients, NEW i \in OpenFds PROVE SharedOK(x, i)'
    <2> SUFFICES ASSUME Shared(x, i)'
                 PROVE  /\ opentab'[fd[x][i].slot].mapped
                        /\ opentab'[fd[x][i].slot].id = fd[x][i].id
                        /\ opentab'[fd[x][i].slot].file = fd[x][i].file
      BY DEF SharedOK
    <2>1. Shared(x, i) BY DEF Shared
    <2>2. fd[x][i].slot \in Slots BY <1>1, <2>1 DEF Types, Shared, Fds
    <2>3. opentab'[fd[x][i].slot] = opentab[fd[x][i].slot] BY <1>4, <2>1, <2>2
    <2>4. SharedOK(x, i) BY DEF IInv
    <2> QED BY <2>1, <2>3, <2>4 DEF SharedOK
  <1>16. Waiting'
    <2>1. ret = "ok" => rs \in Slots /\ opentab'[rs].mapped /\ opentab'[rs].file = server.r.name
      BY <1>4
    <2> QED BY <1>1, <1>3, <2>1 DEF Waiting
  <1> QED BY <1>5, <1>12, <1>14, <1>15, <1>16 DEF IInv

\* serve_open gives away a slot that no client maps.
LEMMA ServeOpenLemma ==
  ASSUME IInv, serve_open
  PROVE  IInv'
PROOF
  <1> DEFINE id == (opentab[openfile_alloc].id + MAXOPEN) % IDMOD
             new == [opentab EXCEPT ![openfile_alloc].id = id, ![openfile_alloc].mapped = TRUE]
  <1>1. PICK s : s = openfile_alloc OBVIOUS
  <1>2. /\ s \in Slots \cup {MAXOPEN}
        /\ s # MAXOPEN => \A c \in Clients, i \in OpenFds : Shared(c, i) => fd[c][i].slot # s
    BY <1>1, AllocLemma
  <1>3. /\ server.at = "serve" /\ server.r.op = "open" /\ UNCHANGED <<alive, fd, req, opens>>
        /\ \/ Reply("error", MAXOPEN) /\ UNCHANGED opentab
           \/ s # MAXOPEN /\ opentab' = new /\ Reply("error", MAXOPEN)
           \/ /\ s # MAXOPEN /\ opentab' = [new EXCEPT ![s].file = server.r.name]
              /\ Reply("ok", s)
    BY <1>1 DEF serve_open
  <1>4. CASE Reply("error", MAXOPEN) /\ UNCHANGED opentab BY <1>3, <1>4, AnswerLemma
  <1>5. CASE s # MAXOPEN /\ ~(Reply("error", MAXOPEN) /\ UNCHANGED opentab)
    <2>1. s \in Slots BY <1>2, <1>5
    <2>2. /\ opentab \in [Slots -> [id : Nat, mapped : BOOLEAN, file : Names \cup {NoFile}]]
          /\ opentab[s] \in [id : Nat, mapped : BOOLEAN, file : Names \cup {NoFile}]
          /\ opentab[s].id \in Nat
      BY <2>1 DEF IInv, Types
    <2>3. server.r.name \in Names
      BY <1>3, ServerLemma, ReqLemma DEF IInv, OpenReqs, FileOps
    <2>4. PICK d : d = (opentab[s].id + MAXOPEN) % IDMOD OBVIOUS
    <2>5. d \in Nat /\ d = id
      <3>1. MAXOPEN \in Nat /\ IDMOD \in Nat \ {0} BY FsServerAssumption
      <3>2. opentab[s].id + MAXOPEN \in Nat BY <2>2, <3>1
      <3> QED BY <1>1, <2>4, <3>1, <3>2
    <2>6. PICK e1 : e1 = [[opentab[s] EXCEPT !.id = d] EXCEPT !.mapped = TRUE] OBVIOUS
    <2>7. /\ e1 \in [id : Nat, mapped : {TRUE}, file : Names \cup {NoFile}]
          /\ e1.id = d /\ e1.file = opentab[s].file
      BY <2>2, <2>5, <2>6
    <2>8. new = [opentab EXCEPT ![s] = e1] BY <1>1, <2>1, <2>2, <2>5, <2>6
    <2>9. PICK e2 : e2 = [e1 EXCEPT !.file = server.r.name] OBVIOUS
    <2>10. /\ e2 \in [id : Nat, mapped : {TRUE}, file : Names \cup {NoFile}]
           /\ e2.id = d /\ e2.file = server.r.name
      BY <2>3, <2>7, <2>9
    <2>11. [new EXCEPT ![s].file = server.r.name] = [opentab EXCEPT ![s] = e2]
      BY <2>1, <2>2, <2>8, <2>9
    <2> HIDE DEF id, new
    <2>12. CASE opentab' = new /\ Reply("error", MAXOPEN)
      BY <1>2, <1>3, <1>5, <2>1, <2>4, <2>7, <2>8, <2>12, GiveLemma
    <2>13. CASE opentab' = [new EXCEPT ![s].file = server.r.name] /\ Reply("ok", s)
      BY <1>2, <1>3, <1>5, <2>1, <2>4, <2>10, <2>11, <2>13, GiveLemma
    <2> QED BY <1>3, <1>5, <2>12, <2>13
  <1> QED BY <1>3, <1>4, <1>5

\* The other requests leave the table of open files alone.
LEMMA ServeFileLemma ==
  ASSUME IInv, serve_set_size \/ serve_flush \/ serve_read \/ serve_sync
  PROVE  IInv'
PROOF
  <1>1. /\ server.at = "serve" /\ server.r.op # "open"
        /\ UNCHANGED <<alive, fd, req, opentab, opens>>
    BY DEF serve_set_size, serve_flush, serve_read, serve_sync, serve_file
  <1>2. Reply("ok", MAXOPEN) \/ Reply("inval", MAXOPEN)
    BY DEF serve_set_size, serve_flush, serve_read, serve_sync, serve_file
  <1> QED BY <1>1, <1>2, AnswerLemma

\* The answer arrives: an open that succeeded gives a descriptor on the page
\* of the slot, and nothing else gives one.
LEMMA ReplyLemma ==
  ASSUME IInv, serve_reply
  PROVE  IInv'
PROOF
  <1>1. /\ server.at = "reply" /\ UNCHANGED <<alive, opentab, opens>>
        /\ Types /\ IdsCounted /\ Holders /\ Waiting
    BY DEF serve_reply, IInv
  <1>2. opens \in Nat /\ BeingServed = 0 BY <1>1, FsServerAssumption DEF Types, BeingServed
  <1>3. CASE server' = [at |-> "panic"] /\ UNCHANGED <<req, fd>>
    <2>1. server' = [at |-> "panic"] /\ UNCHANGED <<req, fd>> BY <1>3
    <2>2. server'.at = "panic" /\ server' \notin Serving BY <2>1 DEF Serving
    <2>3. Types' BY <1>1, <2>1 DEF Types
    <2>4. IdsCounted'
      <3>1. Asking' = Asking /\ BeingServed' = 0 BY <2>1, <2>2 DEF Asking, BeingServed
      <3> QED BY <1>1, <1>2, <3>1 DEF IdsCounted, IdAfter
    <2>5. Holders' BY <1>1, <2>1, <2>2 DEF Holders, HasId, HolderOK
    <2>6. \A x \in Clients, i \in OpenFds : SharedOK(x, i)'
      BY <1>1, <2>1 DEF IInv, SharedOK, Shared
    <2>7. Waiting' BY <1>1, <2>1, <2>2 DEF Waiting
    <2> QED BY <2>3, <2>4, <2>5, <2>6, <2>7 DEF IInv
  <1>4. CASE server.to \in alive /\ Return(server.to) /\ server' = Listening
    <2>1. PICK c, r, s : c = server.to /\ r = req[c] /\ s = server.slot OBVIOUS
    <2>2. /\ c \in Clients /\ r.at = "wait" /\ Return(c) /\ server' = Listening
          /\ r.op = "open" /\ server.ret = "ok" =>
               s \in Slots /\ opentab[s].mapped /\ opentab[s].file = r.name
      BY <1>1, <1>4, <2>1, ServerLemma DEF Waiting
    <2>3. server'.at = "recv" /\ server' \notin Serving BY <2>2 DEF Listening, Serving
    <2>4. r \in Requests({"wait"}) BY <1>1, <2>1, <2>2, BusyLemma DEF Types
    <2>0. PICK q : q = IF r.op = "flush" THEN [at |-> "unmap", i |-> r.i] ELSE NoReq OBVIOUS
    <2>17. q \in Idles /\ q # Unborn /\ q.at \notin {"send", "wait"}
      <3>1. CASE r.op = "flush"
        <4>1. r.i \in OpenFds BY <2>4, <3>1, ReqLemma DEF FileReqs, FileOps
        <4>2. q \in Closing BY <2>0, <3>1, <4>1 DEF Closing
        <4> QED BY <4>2, IdleLemma
      <3>2. CASE r.op # "flush" BY <2>0, <3>2, IdleLemma DEF Idles
      <3> QED BY <3>1, <3>2
    <2>18. req' = [req EXCEPT ![c] = q] BY <2>0, <2>1, <2>2 DEF Return
    <2>5. \A x \in Clients : req'[x] = IF x = c THEN q ELSE req[x]
      BY <1>1, <2>18 DEF Types
    <2>6. PICK d : d = [slot |-> s, id |-> opentab[s].id, shared |-> TRUE,
                        cow |-> FALSE, file |-> r.name]
      OBVIOUS
    <2>7. PICK v : v = IF r.op = "open" /\ server.ret = "ok" THEN d ELSE fd[c][r.i]
      OBVIOUS
    <2>8. fd' = [fd EXCEPT ![c] = [fd[c] EXCEPT ![r.i] = v]]
      BY <1>1, <2>1, <2>2, <2>6, <2>7 DEF Return, Types
    <2>9. r.op = "open" /\ server.ret = "ok" => d \in Fds
      <3>1. r.op = "open" => r.name \in Names BY <2>4, ReqLemma DEF OpenReqs, FileOps
      <3>2. s \in Slots => opentab[s].id \in Nat BY <1>1 DEF Types
      <3> QED BY <2>2, <2>6, <3>1, <3>2 DEF Fds
    <2>10. fd \in [Clients -> [OpenFds -> Fds \cup {NoFd}]] BY <1>1 DEF Types
    <2>11. ASSUME NEW x \in Clients, NEW i \in OpenFds
           PROVE  \/ fd'[x][i] = fd[x][i]
                  \/ fd'[x][i] = d /\ r.op = "open" /\ server.ret = "ok"
      BY <2>2, <2>7, <2>8, <2>10
    <2>12. Types'
      <3>1. req' \in [Clients -> Requests({"send", "wait"}) \cup Idles]
        BY <1>1, <2>17, <2>18 DEF Types
      <3>2. ASSUME NEW x \in Clients PROVE fd'[x] \in [OpenFds -> Fds \cup {NoFd}]
        <4>1. \A i \in OpenFds : fd'[x][i] \in Fds \cup {NoFd} BY <2>9, <2>10, <2>11
        <4>2. fd'[x] = [i \in OpenFds |-> fd'[x][i]] BY <2>8, <2>10
        <4> QED BY <4>1, <4>2
      <3>3. fd' \in [Clients -> [OpenFds -> Fds \cup {NoFd}]]
        <4>1. fd' = [x \in Clients |-> fd'[x]] BY <2>8, <2>10
        <4> QED BY <3>2, <4>1
      <3> QED BY <1>1, <2>2, <3>1, <3>3 DEF Types
    <2>13. IdsCounted'
      <3>1. BeingServed' = 0 BY <2>3 DEF BeingServed
      <3>2. Asking' \subseteq Asking /\ Asking \in SUBSET Clients
        BY <2>5, <2>17 DEF Asking
      <3>3. /\ Cardinality(Asking) \in Nat /\ Cardinality(Asking') \in Nat
            /\ Cardinality(Asking') <= Cardinality(Asking)
        BY <2>2, <3>2, CountLemma
      <3>4. Cardinality(Asking') + BeingServed' + opens
              <= Cardinality(Asking) + BeingServed + opens'
        BY <1>1, <1>2, <3>1, <3>3
      <3> QED BY <1>1, <1>2, <3>1, <3>3, <3>4, CountedStays
    <2>14. Holders'
      <3>1. ASSUME r.op = "open", server.ret = "ok" PROVE HasId(d.id, d.file)
        <4>1. s \in Slots /\ opentab[s].file = d.file /\ d.id = opentab[s].id
          BY <2>2, <2>6, <3>1
        <4>2. PICK k \in 0..opens : opentab[s].id = IdAfter(s, k)
          BY <1>1, <4>1 DEF IdsCounted
        <4>3. opentab[s].id \in Nat BY <1>1, <4>1 DEF Types
        <4> QED BY <4>1, <4>2, <4>3 DEF HasId, HolderOK
      <3>2. \A id, file : HasId(id, file) => HolderOK(opentab', opens', id, file)
        BY <1>1 DEF HasId
      <3>3. ASSUME NEW x \in Clients, NEW i \in OpenFds, fd'[x][i] # NoFd
            PROVE  HolderOK(opentab', opens', fd'[x][i].id, fd'[x][i].file)
        <4>1. CASE fd'[x][i] = fd[x][i] BY <1>1, <3>2, <3>3, <4>1 DEF Holders
        <4>2. CASE fd'[x][i] = d /\ r.op = "open" /\ server.ret = "ok"
          BY <3>1, <3>2, <4>2
        <4> QED BY <2>11, <3>3, <4>1, <4>2
      <3>4. ASSUME NEW x \in Clients, req'[x] \in FileReqs({"send", "wait"})
            PROVE  HolderOK(opentab', opens', req'[x].id, req'[x].file)
        <4>1. q \notin FileReqs({"send", "wait"}) BY <2>17 DEF FileReqs
        <4>2. req'[x] = req[x] BY <2>5, <3>4, <4>1
        <4> QED BY <1>1, <3>2, <3>4, <4>2 DEF Holders
      <3> QED BY <2>3, <3>3, <3>4 DEF Holders, HasId
    <2>15. ASSUME NEW x \in Clients, NEW i \in OpenFds PROVE SharedOK(x, i)'
      <3>1. CASE fd'[x][i] = fd[x][i]
        <4>1. SharedOK(x, i) BY DEF IInv
        <4> QED BY <1>1, <3>1, <4>1 DEF SharedOK, Shared
      <3>2. CASE fd'[x][i] = d /\ r.op = "open" /\ server.ret = "ok"
        <4>1. /\ opentab[s].mapped /\ opentab[s].file = d.file /\ d.id = opentab[s].id
              /\ d.slot = s
          BY <2>2, <2>6, <3>2
        <4> QED BY <1>1, <3>2, <4>1 DEF SharedOK
      <3> QED BY <2>11, <3>1, <3>2
    <2>16. Waiting'
      <3>1. \A x \in alive : req'[x] # Unborn BY <1>1, <2>5, <2>17 DEF Waiting, Types
      <3> QED BY <1>1, <2>3, <3>1 DEF Waiting
    <2> QED BY <2>12, <2>13, <2>14, <2>15, <2>16 DEF IInv
  <1> QED BY <1>3, <1>4 DEF serve_reply

-----------------------------------------------------------------------------
(* The theorems *)

\* Nothing is open at the start.
LEMMA InitLemma ==
  ASSUME ServerInit
  PROVE  IInv
PROOF
  <1>1. /\ alive = {First} /\ First \in Clients
        /\ fd = [c \in Clients |-> [i \in OpenFds |-> NoFd]]
        /\ req = [c \in Clients |-> IF c = First THEN NoReq ELSE Unborn]
        /\ opentab = [s \in Slots |-> [id |-> s, mapped |-> FALSE, file |-> NoFile]]
        /\ server = Listening /\ opens = 0 /\ MaxOpens \in Nat
    BY FsServerAssumption DEF ServerInit, serve_init
  <1>2. server.at = "recv" BY <1>1 DEF Listening
  <1>3. Types
    <2>1. NoReq \in Idles /\ Unborn \in Idles BY DEF Idles
    <2>2. opentab \in [Slots -> [id : Nat, mapped : BOOLEAN, file : Names \cup {NoFile}]]
      BY <1>1, SlotFacts
    <2>3. req \in [Clients -> Requests({"send", "wait"}) \cup Idles] BY <1>1, <2>1
    <2>4. fd \in [Clients -> [OpenFds -> Fds \cup {NoFd}]] BY <1>1
    <2> QED BY <1>1, <2>2, <2>3, <2>4 DEF Types
  <1>4. IdsCounted
    <2>1. Asking = {} BY <1>1, IdleLemma DEF Asking
    <2>2. Cardinality(Asking) = 0 BY <2>1, FS_EmptySet
    <2>3. BeingServed = 0 BY <1>2 DEF BeingServed
    <2>4. \A s \in Slots : opentab[s].id = IdAfter(s, 0) BY <1>1, SlotFacts DEF IdAfter
    <2> QED BY <1>1, <2>2, <2>3, <2>4 DEF IdsCounted
  <1>5. Holders
    <2>1. \A c \in Clients, i \in OpenFds : fd[c][i] = NoFd BY <1>1
    <2>2. \A c \in Clients : req[c] \notin FileReqs({"send", "wait"})
      BY <1>1, IdleLemma DEF FileReqs
    <2>3. server \notin Serving BY <1>2 DEF Serving
    <2> QED BY <2>1, <2>2, <2>3 DEF Holders
  <1>6. \A c \in Clients, i \in OpenFds : SharedOK(c, i) BY <1>1 DEF SharedOK, Shared
  <1>7. Waiting BY <1>1, <1>2, IdleLemma DEF Waiting
  <1> QED BY <1>3, <1>4, <1>5, <1>6, <1>7 DEF IInv

\* Every step keeps the invariant.
LEMMA NextLemma ==
  ASSUME IInv, [ServerNext]_srvVars
  PROVE  IInv'
PROOF
  <1>1. CASE UNCHANGED srvVars
    <2>1. UNCHANGED <<alive, fd, req, opentab, server, opens>> BY <1>1 DEF srvVars
    <2>2. Asking' = Asking /\ BeingServed' = BeingServed BY <2>1 DEF Asking, BeingServed
    <2>3. Types' BY <2>1 DEF Types, IInv
    <2>4. IdsCounted' BY <2>1, <2>2 DEF IdsCounted, IInv
    <2>5. Holders' BY <2>1 DEF Holders, HasId, HolderOK, IInv
    <2>6. \A x \in Clients, i \in OpenFds : SharedOK(x, i)'
      BY <2>1 DEF IInv, SharedOK, Shared
    <2>7. Waiting' BY <2>1 DEF Waiting, IInv
    <2> QED BY <2>3, <2>4, <2>5, <2>6, <2>7 DEF IInv
  <1>2. CASE serve BY <1>2, ServeOpenLemma, ServeFileLemma, ReplyLemma DEF serve
  <1>3. ASSUME NEW c \in Clients, ClientNext(c) PROVE IInv'
    BY <1>3, OpenLemma, RequestLemma, PanicLemma, SeekLemma, ForkLemma, DestroyLemma,
       SendLemma, RefuseLemma, CloseLemma DEF ClientNext
  <1> QED BY <1>1, <1>2, <1>3 DEF ServerNext

\* The invariant that the theorems rest on.
THEOREM ServerTheorem == ServerInit /\ [][ServerNext]_srvVars => []IInv
PROOF BY InitLemma, NextLemma, PTL

\* openfile_alloc never gives a slot away under a client that maps its page,
\* however clients fork, seek, close and die.
THEOREM OpenTheorem == ServerInit /\ [][ServerNext]_srvVars => []OpenStaysOpen
PROOF
  <1>1. IInv => OpenStaysOpen BY DEF IInv, SharedOK, OpenStaysOpen
  <1> QED BY <1>1, ServerTheorem, PTL

\* A request that openfile_lookup lets through reaches the file its caller
\* opened: the id in the request is the id of one open only.
THEOREM OwnFileTheorem == ServerInit /\ [][ServerNext]_srvVars => OwnFileOnly
PROOF
  <1> DEFINE A == ((serve_set_size \/ serve_flush) /\ openfile_lookup(server.r.id))
                    => opentab[server.r.id % MAXOPEN].file = server.r.file
  <1>1. ASSUME IInv, serve_set_size \/ serve_flush, openfile_lookup(server.r.id)
        PROVE  opentab[server.r.id % MAXOPEN].file = server.r.file
    <2>1. server.at = "serve" /\ server.r.op \in {"set_size", "flush"}
      BY <1>1 DEF serve_set_size, serve_flush, serve_file
    <2>2. server \in Serving /\ server.r \in FileReqs({"send"})
      BY <1>1, <2>1, ServerLemma, ReqLemma DEF IInv, FileOps
    <2>3. PICK id, f, t : id = server.r.id /\ f = server.r.file /\ t = id % MAXOPEN OBVIOUS
    <2>4. HasId(id, f) BY <1>1, <2>2, <2>3 DEF IInv, Holders
    <2>5. id \in Nat /\ t \in Slots BY <2>2, <2>3, SlotFacts DEF FileReqs
    <2>6. opentab[t].id = id BY <1>1, <2>3 DEF openfile_lookup
    <2>7. PICK s \in Slots, k \in 0..opens :
            id = IdAfter(s, k) /\ (opentab[s].id = id => opentab[s].file = f)
      BY <2>4 DEF HasId, HolderOK
    <2>8. PICK j \in 0..opens : opentab[t].id = IdAfter(t, j)
      BY <1>1, <2>5 DEF IInv, IdsCounted
    <2>9. opens \in Nat BY <1>1, FsServerAssumption DEF IInv, Types
    <2>10. k \in Nat /\ j \in Nat BY <2>7, <2>8, <2>9
    <2>11. s = t BY <2>5, <2>6, <2>7, <2>8, <2>10, IdLemma
    <2> QED BY <2>3, <2>6, <2>7, <2>11
  <1>2. IInv => A BY <1>1
  <1>3. IInv /\ [ServerNext]_srvVars => IInv' /\ [A]_srvVars BY <1>2, NextLemma
  <1>4. ServerInit => IInv BY InitLemma
  <1> HIDE DEF A
  <1>5. ServerInit /\ [][ServerNext]_srvVars => [][A]_srvVars BY <1>3, <1>4, PTL
  <1> QED BY <1>5 DEF A, OwnFileOnly
=============================================================================
