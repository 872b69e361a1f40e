------------------------------ MODULE FsServer ------------------------------
(***************************************************************************)
(* The file server (tps/fs/serv.c) and its clients (lib/file.c over        *)
(* lib/ipc.c).  Each open file has a struct Fd on a page that the server   *)
(* shares with whoever has it open; the server takes a slot of its table   *)
(* for free when nobody else maps the page, and recognises requests for    *)
(* an earlier user of a slot by the file id.  Clients fork: the page then  *)
(* is copy-on-write (module CowFork), and one that seeks gets a private    *)
(* struct Fd that the server does not know about.                          *)
(*                                                                         *)
(* Size and contents of a file are out of sight here: it exists or not.    *)
(***************************************************************************)
EXTENDS Naturals, FiniteSets, FiniteSetsExt

CONSTANTS
  Clients, First,   \* the client environments, the one that is there first
  Names,            \* the paths clients use
  MAXOPEN,          \* slots of opentab
  OpenFds,          \* descriptors of a client
  IDMOD,            \* file ids are IDMOD values wide (2^32 in the code)
  MaxOpens          \* bound: open requests

ASSUME FsServerAssumption ==
  /\ First \in Clients
  /\ IsFiniteSet(Clients) /\ IsFiniteSet(OpenFds) /\ OpenFds \subseteq Nat
  /\ {MAXOPEN, IDMOD, MaxOpens} \subseteq Nat \ {0}
  /\ IDMOD % (2 * MAXOPEN) = 0
  /\ MaxOpens < IDMOD \div MAXOPEN      \* no id comes up a second time

Modes == {{}, {"O_CREAT"}, {"O_CREAT", "O_EXCL"}}
Slots == 0..(MAXOPEN - 1)
Ids == 0..(IDMOD - 1)
NoFd == [slot |-> MAXOPEN]
NoFile == "nofile"

VARIABLES
  alive,      \* the clients that exist
  fd,         \* the descriptor pages of the clients
  cow,        \* clients whose fsipcbuf is copy-on-write since a fork
  req,        \* where each client is in a call, and the request it makes
  opentab,    \* the open-file table, and whether o_fd is mapped
  files,      \* the files there are
  server,     \* what the server is doing
  opens       \* open requests so far

srvVars == <<alive, fd, cow, req, opentab, files, server, opens>>

\* req: a client sends (and retries), waits for the answer and, in close,
\* unmaps the descriptor.  A client that is gone does not come back: its envid
\* is not used again.
NoReq == [at |-> "none"]
Unborn == [at |-> "unborn"]
Listening == [at |-> "recv"]

\* A descriptor: on the server's own page, or a private copy.
Shared(c, i) == fd[c][i] # NoFd /\ fd[c][i].shared
Mappers(s) == {x \in Clients \X OpenFds : Shared(x[1], x[2]) /\ fd[x[1]][x[2]].slot = s}

\* pageref(opentab[s].o_fd): the server's mapping and the clients'.
pageref(s) ==
  IF opentab[s].mapped THEN 1 + Cardinality(Mappers(s)) ELSE 0

-----------------------------------------------------------------------------
(* Clients *)

Calling(c) == c \in alive /\ req[c].at = "none"
Unused(c) == {i \in OpenFds : fd[c][i] = NoFd}
Ask(c, r) == req' = [req EXCEPT ![c] = r] /\ cow' = cow \ {c}

open(c) ==
  /\ Calling(c) /\ Unused(c) # {} /\ opens < MaxOpens
  /\ \E n \in Names, mode \in Modes :
        Ask(c, [at |-> "send", op |-> "open", i |-> Min(Unused(c)),
                name |-> n, mode |-> mode])
  /\ opens' = opens + 1
  /\ UNCHANGED <<alive, fd, opentab, files, server>>

\* devfile_read, devfile_trunc (and devfile_stat, which does not differ from
\* it here), and devfile_flush for close.
request(c) ==
  /\ Calling(c)
  /\ \E i \in OpenFds, op \in {"read", "set_size", "flush"} :
        /\ fd[c][i] # NoFd
        /\ Ask(c, [at |-> "send", op |-> op, i |-> i,
                   id |-> fd[c][i].id, file |-> fd[c][i].file])
  /\ UNCHANGED <<alive, fd, opentab, files, server, opens>>

\* sync fills in no request: after a fork its page is still copy-on-write.
sync(c) ==
  /\ Calling(c)
  /\ req' = [req EXCEPT ![c] = [at |-> "send", op |-> "sync", i |-> 0]]
  /\ UNCHANGED <<alive, fd, cow, opentab, files, server, opens>>

\* seek writes to the struct Fd: a copy-on-write page becomes private.
seek(c) ==
  /\ Calling(c)
  /\ \E i \in OpenFds :
        /\ fd[c][i] # NoFd /\ fd[c][i].cow
        /\ fd' = [fd EXCEPT ![c][i].cow = FALSE, ![c][i].shared = FALSE]
  /\ UNCHANGED <<alive, cow, req, opentab, files, server, opens>>

\* devfile_write is not implemented.
write(c) ==
  /\ Calling(c) /\ \E i \in OpenFds : fd[c][i] # NoFd
  /\ req' = [req EXCEPT ![c] = [at |-> "panic"]]
  /\ UNCHANGED <<alive, fd, cow, opentab, files, server, opens>>

fork(c) ==
  /\ Calling(c)
  /\ \E k \in Clients :
        /\ req[k] = Unborn
        /\ alive' = alive \cup {k}
        /\ fd' = [x \in Clients |->
                    IF x \in {c, k}
                    THEN [i \in OpenFds |->
                            IF fd[c][i] = NoFd THEN NoFd
                            ELSE [fd[c][i] EXCEPT !.cow = TRUE]]
                    ELSE fd[x]]
        /\ cow' = cow \cup {c, k}
        /\ req' = [req EXCEPT ![k] = NoReq]
  /\ UNCHANGED <<opentab, files, server, opens>>

\* Destroyed, wherever it is: its mappings go.
destroy(c) ==
  /\ c \in alive
  /\ alive' = alive \ {c}
  /\ fd' = [fd EXCEPT ![c] = [i \in OpenFds |-> NoFd]]
  /\ cow' = cow \ {c}
  /\ req' = [req EXCEPT ![c] = NoReq]
  /\ UNCHANGED <<opentab, files, server, opens>>

\* A copy-on-write page may not be sent as writable.
SendsCow(c) == req[c].at = "send" /\ req[c].op = "sync" /\ c \in cow

\* ipc_send of a client: the server takes the request when it is waiting;
\* until then sys_ipc_try_send fails and is repeated, which changes nothing.
\* Any other failure is a panic.
ipc_send(c) ==
  /\ c \in alive /\ req[c].at = "send" /\ server = Listening
  /\ \/ /\ ~SendsCow(c)
        /\ server' = [at |-> "serve", from |-> c, r |-> req[c]]
        /\ req' = [req EXCEPT ![c].at = "wait"]
     \/ /\ SendsCow(c)
        /\ req' = [req EXCEPT ![c] = [at |-> "panic"]]
        /\ UNCHANGED server
  /\ UNCHANGED <<alive, fd, cow, opentab, files, opens>>

\* The end of fd_close, which unmaps whatever the flush returned.
fd_close(c) ==
  /\ c \in alive /\ req[c].at = "unmap"
  /\ fd' = [fd EXCEPT ![c][req[c].i] = NoFd]
  /\ req' = [req EXCEPT ![c] = NoReq]
  /\ UNCHANGED <<alive, cow, opentab, files, server, opens>>

-----------------------------------------------------------------------------
(* The server *)

\* Mutant of openfile_lookup: the id is not compared.
openfile_lookup_any(id) == pageref(id % MAXOPEN) > 1

openfile_lookup(id) == pageref(id % MAXOPEN) > 1 /\ opentab[id % MAXOPEN].id = id

\* Mutant of openfile_alloc: a page with one other user is taken for closed.
openfile_alloc_greedy == Min({s \in Slots : pageref(s) <= 2} \cup {MAXOPEN})

\* The first slot whose page nobody else maps; MAXOPEN is -E_MAX_OPEN.
openfile_alloc == Min({s \in Slots : pageref(s) <= 1} \cup {MAXOPEN})

Negative(id) == id >= IDMOD \div 2
Reply(ret, s) ==
  server' = [at |-> "reply", to |-> server.from, ret |-> ret, slot |-> s]

\* serve_open.  Once the slot has a page, its new id is stored before anything
\* can fail.  An id with the sign bit set is returned as an error to the client.
serve_open ==
  LET r == server.r
      creat == "O_CREAT" \in r.mode
      excl == "O_EXCL" \in r.mode
      s == openfile_alloc
      id == (opentab[s].id + MAXOPEN) % IDMOD
      new == [opentab EXCEPT ![s].id = id, ![s].mapped = TRUE]
  IN /\ server.at = "serve" /\ r.op = "open"
     /\ \/ /\ s = MAXOPEN
           /\ Reply("error", s) /\ UNCHANGED <<opentab, files>>
        \/ /\ s # MAXOPEN /\ ~opentab[s].mapped       \* sys_page_alloc fails
           /\ Reply("error", MAXOPEN) /\ UNCHANGED <<opentab, files>>
        \/ /\ s # MAXOPEN
           /\ \/ Negative(id)
              \/ r.name \notin files /\ ~creat
              \/ r.name \in files /\ creat /\ excl
              \/ r.name \notin files /\ creat        \* the disk is full
           /\ opentab' = new /\ Reply("error", MAXOPEN) /\ UNCHANGED files
        \/ /\ s # MAXOPEN /\ ~Negative(id)
           /\ IF creat /\ r.name \notin files THEN TRUE
              ELSE r.name \in files /\ ~(creat /\ excl)
           /\ files' = files \cup {r.name}
           /\ opentab' = [new EXCEPT ![s].file = r.name]
           /\ Reply("ok", s)
     /\ UNCHANGED <<alive, fd, cow, req, opens>>

\* A handler that does something with the file of the request, or nothing.
serve_file(op) ==
  /\ server.at = "serve" /\ server.r.op = op
  /\ Reply(IF openfile_lookup(server.r.id) THEN "ok" ELSE "inval", MAXOPEN)
  /\ UNCHANGED <<alive, fd, cow, req, opentab, files, opens>>
serve_set_size == serve_file("set_size")
serve_flush == serve_file("flush")         \* and serve_stat

\* serve_read returns 0 and looks at nothing.
serve_read ==
  /\ server.at = "serve" /\ server.r.op = "read"
  /\ Reply("ok", MAXOPEN)
  /\ UNCHANGED <<alive, fd, cow, req, opentab, files, opens>>

\* Mutant of serve_sync: the request is left hanging.
serve_sync_silent ==
  /\ server.at = "serve" /\ server.r.op = "sync"
  /\ server' = Listening
  /\ UNCHANGED <<alive, fd, cow, req, opentab, files, opens>>

serve_sync ==
  /\ server.at = "serve" /\ server.r.op = "sync"
  /\ Reply("ok", MAXOPEN)
  /\ UNCHANGED <<alive, fd, cow, req, opentab, files, opens>>

\* What the client does with the answer: a new descriptor; the rest of close;
\* nothing.
Return(c) ==
  /\ req' = [req EXCEPT ![c] = IF req[c].op = "flush"
                               THEN [at |-> "unmap", i |-> req[c].i] ELSE NoReq]
  /\ fd' = [fd EXCEPT ![c][req[c].i] =
              IF req[c].op = "open" /\ server.ret = "ok"
              THEN [slot |-> server.slot, id |-> opentab[server.slot].id,
                    shared |-> TRUE, cow |-> FALSE, file |-> req[c].name]
              ELSE @]

\* ipc_send of the server: to a client that waits; the page is mapped in the
\* same system call.  A client that is gone, and one without memory for the
\* page table of its new descriptor, make it panic.
serve_reply ==
  /\ server.at = "reply"
  /\ \/ /\ server.to \in alive /\ req[server.to].at = "wait"
        /\ Return(server.to)
        /\ server' = Listening
     \/ /\ server.to \in alive => req[server.to].op = "open" /\ server.ret = "ok"
        /\ server' = [at |-> "panic"]
        /\ UNCHANGED <<req, fd>>
  /\ UNCHANGED <<alive, cow, opentab, files, opens>>

serve ==
  \/ serve_open \/ serve_set_size \/ serve_flush \/ serve_read \/ serve_sync
  \/ serve_reply

-----------------------------------------------------------------------------
serve_init ==
  opentab = [s \in Slots |-> [id |-> s, mapped |-> FALSE, file |-> NoFile]]

ServerInit ==
  /\ alive = {First}
  /\ fd = [c \in Clients |-> [i \in OpenFds |-> NoFd]]
  /\ cow = {}
  /\ req = [c \in Clients |-> IF c = First THEN NoReq ELSE Unborn]
  /\ serve_init
  /\ files \in SUBSET Names
  /\ server = Listening
  /\ opens = 0

ClientNext(c) ==
  \/ open(c) \/ request(c) \/ sync(c) \/ seek(c) \/ write(c) \/ fork(c)
  \/ destroy(c) \/ ipc_send(c) \/ fd_close(c)

ServerNext == serve \/ \E c \in Clients : ClientNext(c)

\* Everybody gets to run (EnvSched's NoStarvation), so a send is repeated while
\* the server waits.  That is weak fairness: when another client is served each
\* time first, round robin does not help the one that finds the server busy.
ServerFair ==
  /\ WF_srvVars(serve)
  /\ \A c \in Clients : WF_srvVars(ipc_send(c)) /\ WF_srvVars(fd_close(c))

-----------------------------------------------------------------------------
(* Properties *)

\* A request reaches the file its caller opened or is refused, whoever has
\* used the slot in between.
OwnFileOnly ==
  [][ ((serve_set_size \/ serve_flush) /\ openfile_lookup(server.r.id))
      => opentab[server.r.id % MAXOPEN].file = server.r.file ]_srvVars

\* The server never gives a slot away under a client that maps its page, so
\* the request of such a client is not refused.
OpenStaysOpen ==
  \A c \in Clients, i \in OpenFds :
    Shared(c, i) => /\ opentab[fd[c][i].slot].id = fd[c][i].id
                    /\ opentab[fd[c][i].slot].file = fd[c][i].file

Taken(c) == c \in alive /\ req[c].at \in {"wait", "unmap"}
Sending(c) == c \in alive /\ req[c].at = "send"
Returned(c) == c \notin alive \/ req[c].at = "none"

\* panic executes int3, and the breakpoint trap stops the machine for all.
Panicked == server.at = "panic" \/ \E c \in Clients : req[c].at = "panic"

\* A request that the server has taken is answered, whatever the other clients
\* do, and one that is being sent is answered unless others keep calling all
\* the time: the retries of ipc_send (ipc.c:50) are not in a queue.  A client
\* that dies or has no memory in the middle of a call makes the server panic.
CallsReturn ==
  \A c \in Clients :
    /\ Taken(c) ~> Returned(c) \/ Panicked
    /\ \/ []<>(\E o \in Clients \ {c} : req[o].at = "send")
       \/ Sending(c) ~> Returned(c) \/ Panicked
=============================================================================
