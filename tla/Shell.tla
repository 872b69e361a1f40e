------------------------------- MODULE Shell -------------------------------
(***************************************************************************)
(* The Unix shell (shell/): one command line after the other, background   *)
(* jobs that a SIGCHLD handler collects, and pipelines whose stages are    *)
(* started and waited for one by one.  The kernel (fork, pipe, waitpid,    *)
(* process groups, the terminal) and the programs that are run are         *)
(* external: a program reads its input to the end or not at all, writes    *)
(* `left` blocks, and exits; one that reads the terminal from a group that *)
(* does not have it is stopped; any process may be killed at any time.     *)
(*                                                                         *)
(* A line is a sequence of segments, what '|' separates; a segment is a    *)
(* sequence of tokens.  What a word says is left out.                      *)
(***************************************************************************)
EXTENDS Integers, Sequences, FiniteSets, FiniteSetsExt, SequencesExt

CONSTANTS
  Pids,       \* children, each used once
  Lines,      \* what the user may type
  MaxLines,   \* bound: lines typed
  NPIPES,     \* pipes of the system
  CAP,        \* blocks a pipe holds
  Outputs,    \* blocks a program may write
  Codes       \* exit codes of programs

ASSUME ShellAssumption ==
  /\ Pids \subseteq Nat \ {0, 1}
  /\ {MaxLines, NPIPES, CAP} \subseteq Nat \ {0}
  /\ Outputs \subseteq Nat /\ Codes \subseteq 0..255

VARIABLES
  sh,       \* the shell: where in run_cmd, the command, fork's result, lines
  status,   \* the global `status`
  sig,      \* processes with a SIGCHLD pending
  proc,     \* the children and their children
  buf,      \* blocks in each pipe
  failed    \* some fork or pipe has failed

shVars == <<sh, status, sig, proc, buf, failed>>

-----------------------------------------------------------------------------
(* Parsing *)

Null == [type |-> "NULL"]
Redirs == {">f", "2>f", "2>&1", "a>f", "<f"}

\* A token with '>' (first, second or any other character) or '<' makes the
\* command a REDIR; K=V is for the environment; the others are arguments.
parse_exec(seg) ==
  LET words == SelectSeq(seg, LAMBDA t : t \notin Redirs \cup {"K=V"})
  IN [type |-> IF \E t \in Range(seg) : t \in Redirs THEN "REDIR" ELSE "EXEC",
      scmd |-> seg # <<>>,
      out |-> ">f" \in Range(seg), in |-> "<f" \in Range(seg), argc |-> Len(words)]

\* The first '&' of the segment decides: not after '>', it ends the command.
parse_cmd(seg) ==
  LET amps == {k \in DOMAIN seg : seg[k] \in {"&", "2>&1"}}
  IN IF seg = <<>> THEN Null
     ELSE IF amps # {} /\ seg[Min(amps)] = "&"
     THEN LET c == parse_exec(SubSeq(seg, 1, Min(amps) - 1))
          IN [type |-> "BACK", c |-> c, scmd |-> c.scmd]
     ELSE parse_exec(seg)

\* One command if the second is missing.  The array ends at its first NULL.
pipe_cmd_create(cs) ==
  LET nulls == {k \in DOMAIN cs : cs[k] = Null} \cup {Len(cs) + 1}
  IN IF Len(cs) = 1 \/ cs[2] = Null THEN cs[1]
     ELSE [type |-> "PIPE", scmd |-> FALSE, commands |-> SubSeq(cs, 1, Min(nulls) - 1)]

parse_line(line) == pipe_cmd_create([k \in DOMAIN line |-> parse_cmd(line[k])])

\* print_status_info, for a command that has a text (a pipeline has none): a
\* status that waitpid stored, or an older result of this very function,
\* is decoded as WIFEXITED, WIFSIGNALED or stopped.
print_status_info(cmd, s) ==
  LET low == s % 128
      high == (s \div 256) % 256
  IN IF ~cmd.scmd THEN s
     ELSE IF low = 0 THEN high ELSE IF low # 127 THEN -low ELSE -high

-----------------------------------------------------------------------------
(* The kernel *)

FDs == 0..7
End(k, q) == [k |-> k, q |-> q]
Shut == End("shut", 0)
Tty == [n \in FDs |-> IF n <= 2 THEN End("tty", 0) ELSE Shut]
shell == 1
NoPid == 0         \* -1 in the code
Failure == 255

Alive(p) == proc[p].st = "run"
Parented(p) == proc[p].par \in {shell} \cup {q \in Pids : Alive(q)}
Open(k, q) == \E p \in Pids : Alive(p) /\ \E n \in FDs : proc[p].tbl[n] = End(k, q)
FreePids == {p \in Pids : proc[p].st = "none"}
FreePipes == {q \in 1..NPIPES : ~Open("r", q) /\ ~Open("w", q)}
Lowest(tbl) == Min({n \in FDs : tbl[n] = Shut})
Closed(tbl, fds) == [n \in FDs |-> IF n \in fds THEN Shut ELSE tbl[n]]

Child(par, grp, at, cmd, tbl) ==
  [st |-> "run", par |-> par, grp |-> grp, at |-> at, cmd |-> cmd, tbl |-> tbl]

\* The end of process p: its descriptors are closed, its parent is told.
Exit(p, s) ==
  /\ proc' = [proc EXCEPT ![p] = [st |-> "zombie", par |-> @.par, grp |-> @.grp,
                                  code |-> s]]
  /\ sig' = (sig \ {p}) \cup
            IF Parented(p) THEN {proc[p].par} ELSE {}

Reaped(ps) ==
  [p \in Pids |-> IF p \in ps THEN [st |-> "gone", grp |-> proc[p].grp] ELSE proc[p]]
Kids(par) == {p \in Pids : proc[p].st \in {"run", "zombie"} /\ proc[p].par = par}
Zombies(ps) == {p \in ps : proc[p].st = "zombie"}

\* Whom waitpid(pid) may return for process par; {} with no such child left.
Waited(par, pid) == IF pid = NoPid THEN Kids(par) ELSE {pid} \cap Kids(par)

Up == sh.at \notin {"exit", "crash"}

-----------------------------------------------------------------------------
(* The shell *)

\* read_line and the built-in commands of run_cmd, which start no process.
builtin ==
  /\ sh.at = "prompt" /\ sh.lines < MaxLines
  /\ \/ sh' = [sh EXCEPT !.at = "exit"] /\ UNCHANGED status   \* exit or ctrl-D
     \/ /\ sh' = [sh EXCEPT !.lines = @ + 1]
        /\ status' \in {status, 0, -1}                         \* enter, cd, pwd
  /\ UNCHANGED <<sig, proc, buf, failed>>

\* read_line, parse_line and fork; an empty first and second command is a
\* null pointer.  A background command is not waited for; the old status is
\* decoded again in its name.
run_cmd ==
  /\ sh.at = "prompt" /\ sh.lines < MaxLines
  /\ \E line \in Lines :
       LET cmd == parse_line(line)
           on(p) == [at |-> IF cmd.type = "BACK" THEN "prompt" ELSE "wait",
                     cmd |-> cmd, p |-> p, lines |-> sh.lines + 1]
       IN \/ /\ cmd = Null
             /\ sh' = [sh EXCEPT !.at = "crash"]
             /\ UNCHANGED <<status, proc, failed>>
          \/ /\ cmd # Null
             /\ \/ /\ FreePids # {}
                   /\ sh' = on(Min(FreePids))
                   /\ proc' = [proc EXCEPT ![Min(FreePids)] =
                                 Child(shell, shell, "child", cmd, Tty)]
                   /\ UNCHANGED failed
                \/ /\ sh' = on(NoPid)
                   /\ failed' = TRUE
                   /\ UNCHANGED proc
             /\ status' = IF cmd.type = "BACK"
                          THEN print_status_info(cmd, status) ELSE status
  /\ UNCHANGED <<sig, buf>>

\* waitpid(p, &status, 0) and what follows.  After a failed fork p is -1, and
\* any child ends the wait.
run_wait ==
  /\ sh.at = "wait"
  /\ \/ \E k \in Zombies(Waited(shell, sh.p)) :
           /\ proc' = Reaped({k})
           /\ status' = print_status_info(sh.cmd, proc[k].code)
     \/ /\ Waited(shell, sh.p) = {}
        /\ status' = print_status_info(sh.cmd, status)
        /\ UNCHANGED proc
  /\ sh' = [sh EXCEPT !.at = "prompt"]
  /\ UNCHANGED <<sig, buf, failed>>

\* Mutants of handler: it looks at every child; it collects just one.
handler_any(p) ==
  /\ p \in sig
  /\ proc' = Reaped(Zombies(Kids(p)))
  /\ sig' = sig \ {p}
  /\ UNCHANGED <<sh, status, buf, failed>>
handler_once(p) ==
  /\ p \in sig
  /\ LET z == {k \in Zombies(Kids(p)) : proc[k].grp = (IF p = shell THEN shell ELSE proc[p].grp)}
     IN proc' = Reaped(IF z = {} THEN {} ELSE {Min(z)})
  /\ sig' = sig \ {p}
  /\ UNCHANGED <<sh, status, buf, failed>>

\* The SIGCHLD handler, in the shell and in a pipeline process, which has
\* inherited it: every dead child of its own process group.
handler(p) ==
  /\ p \in sig
  /\ LET grp == IF p = shell THEN shell ELSE proc[p].grp
     IN proc' = Reaped({k \in Zombies(Kids(p)) : proc[k].grp = grp})
  /\ sig' = sig \ {p}
  /\ UNCHANGED <<sh, status, buf, failed>>

-----------------------------------------------------------------------------
(* The children *)

\* What redirections leave of the descriptors; the files are close-on-exec.
redirect_file(c, tbl) ==
  [tbl EXCEPT ![0] = IF c.in THEN End("file", 0) ELSE @,
              ![1] = IF c.out THEN End("file", 0) ELSE @]

\* exec_cmd of an EXEC, REDIR or BACK command: setenv, open, dup2 or execvp
\* may fail, and execvp does without a word.
exec_cmd(p, cmd, tbl) ==
  LET c == IF cmd.type = "BACK" THEN cmd.c ELSE cmd
  IN \/ Exit(p, 256 * Failure)
     \/ /\ c.argc > 0
        /\ \E n \in Outputs, r \in BOOLEAN :
              proc' = [proc EXCEPT ![p] = [st |-> "run", par |-> @.par, grp |-> @.grp,
                                           at |-> "program", left |-> n, reads |-> r,
                                           tbl |-> redirect_file(c, tbl)]]
        /\ UNCHANGED sig

\* The child of run_cmd moves to a group of its own, unless it runs behind.
\* Until then it is in the reach of the handler.
child(p) ==
  /\ Alive(p) /\ proc[p].at = "child"
  /\ LET cmd == proc[p].cmd
     IN \/ /\ cmd.type # "BACK" /\ proc[p].grp = shell
           /\ proc' = [proc EXCEPT ![p].grp = p]
           /\ UNCHANGED sig
        \/ /\ cmd.type = "BACK" \/ (cmd.type # "PIPE" /\ proc[p].grp = p)
           /\ exec_cmd(p, cmd, proc[p].tbl)
        \/ /\ cmd.type = "PIPE" /\ proc[p].grp = p
           /\ proc' = [proc EXCEPT ![p] = [st |-> "run", par |-> @.par, grp |-> p,
                         at |-> "pipe", cmd |-> cmd, tbl |-> @.tbl,
                         i |-> 1, fd |-> -1, kid |-> NoPid]]
           /\ UNCHANGED sig
  /\ UNCHANGED <<sh, status, buf, failed>>

\* Mutant of CloseOwn: the write end stays open.
CloseOwn_not(tbl, i, fd, fds, more) == Closed(tbl, IF i > 1 THEN {fd} ELSE {})

\* What a pipeline process closes of its own after a fork.
CloseOwn(tbl, i, fd, fds, more) ==
  Closed(tbl, (IF i > 1 THEN {fd} ELSE {}) \cup (IF more THEN {fds[2]} ELSE {}))

\* exec_pipeline, up to waitpid: pipe, fork, close.  When one of them fails
\* pipeline_error closes the descriptors and the function goes on; fds[1] is
\* 0, not -1, before pipe has set it.
exec_pipeline(p) ==
  LET s == proc[p]
      n == Len(s.cmd.commands)
      more == s.i < n
      lo == Lowest(s.tbl)
      hi == Lowest([s.tbl EXCEPT ![lo] = End("tty", 0)])
      Start(tbl, fds, ok) ==
        LET bad == Closed(tbl, {fds[1], fds[2], s.fd})
            next(t, kid) == [s EXCEPT !.at = "pipewait", !.kid = kid, !.fd = fds[1],
                               !.tbl = CloseOwn(t, s.i, s.fd, fds, more)]
        IN \/ /\ FreePids # {}
              /\ proc' = [proc EXCEPT ![p] = next(tbl, Min(FreePids)),
                            ![Min(FreePids)] =
                              [st |-> "run", par |-> p, grp |-> s.grp, at |-> "stage",
                               cmd |-> s.cmd.commands[s.i], tbl |-> tbl,
                               fd |-> s.fd, fds |-> fds, i |-> s.i, more |-> more]]
              /\ failed' = (failed \/ ~ok)
           \/ /\ proc' = [proc EXCEPT ![p] = next(bad, NoPid)]
              /\ failed' = TRUE
  IN /\ Alive(p) /\ s.at = "pipe"
     /\ \/ /\ s.i > n
           /\ Exit(p, 256 * Failure)
           /\ UNCHANGED <<buf, failed>>
        \/ /\ s.i = n
           /\ Start(s.tbl, <<-1, 0>>, TRUE)
           /\ UNCHANGED <<sig, buf>>
        \/ /\ more /\ FreePipes # {}
           /\ LET q == Min(FreePipes)
              IN /\ Start([s.tbl EXCEPT ![lo] = End("r", q), ![hi] = End("w", q)],
                          <<lo, hi>>, TRUE)
                 /\ buf' = [buf EXCEPT ![q] = 0]
           /\ UNCHANGED sig
        \/ /\ more
           /\ Start(Closed(s.tbl, {0, s.fd}), <<-1, 0>>, FALSE)
           /\ UNCHANGED <<sig, buf>>
     /\ UNCHANGED <<sh, status>>

\* waitpid(pid, NULL, 0) and the next stage.
pipeline_wait(p) ==
  /\ Alive(p) /\ proc[p].at = "pipewait"
  /\ LET on(f) == [f EXCEPT ![p].at = "pipe", ![p].i = @ + 1]
         kids == Waited(p, proc[p].kid)
     IN \/ \E k \in Zombies(kids) : proc' = on(Reaped({k}))
        \/ kids = {} /\ proc' = on(proc)
  /\ UNCHANGED <<sh, status, sig, buf, failed>>

\* The child of exec_pipeline: its own group, its descriptors, its program.
\* A descriptor that is not open is an error of dup2.
stage(p) ==
  LET s == proc[p]
      in == IF s.i = 1 THEN s.tbl
            ELSE Closed([s.tbl EXCEPT ![0] = s.tbl[s.fd]], {s.fd})
      out == IF ~s.more THEN in
             ELSE Closed([in EXCEPT ![1] = in[s.fds[2]]], {s.fds[1], s.fds[2]})
      opened(t, n) == n \in FDs /\ t[n] # Shut
  IN /\ Alive(p) /\ s.at = "stage"
     /\ \/ /\ s.grp # p
           /\ proc' = [proc EXCEPT ![p].grp = p]
           /\ UNCHANGED sig
        \/ /\ s.grp = p
           /\ IF (s.i > 1 => opened(s.tbl, s.fd)) /\ (s.more => opened(in, s.fds[2]))
              THEN exec_cmd(p, s.cmd, out)
              ELSE Exit(p, 256 * Failure)
     /\ UNCHANGED <<sh, status, buf, failed>>

\* A program: its input to the end, if it reads it, then its output, then the
\* end.  Without a reader a write kills it (13 is SIGPIPE); a full pipe makes it
\* wait.  No command ever gets the terminal (there is no tcsetpgrp): outside
\* the shell's group SIGTTIN stops the reader, and a waitpid without WUNTRACED
\* does not return for that.  Without a parent the read is an error.
program(p) ==
  LET in == proc[p].tbl[0]
      out == proc[p].tbl[1]
      reads == proc[p].reads
      eof == CASE ~reads -> TRUE
               [] in.k = "r" -> buf[in.q] = 0 /\ ~Open("w", in.q)
               [] in.k = "tty" -> ~Parented(p)
               [] OTHER -> TRUE
  IN /\ Alive(p) /\ proc[p].at = "program"
     /\ \/ /\ reads /\ in.k = "r" /\ buf[in.q] > 0
           /\ buf' = [buf EXCEPT ![in.q] = @ - 1]
           /\ UNCHANGED <<proc, sig>>
        \/ /\ reads /\ in.k = "tty" /\ proc[p].grp # shell /\ Parented(p)
           /\ proc' = [proc EXCEPT ![p].at = "stopped"]
           /\ sig' = sig \cup {proc[p].par}
           /\ UNCHANGED buf
        \/ /\ eof /\ proc[p].left > 0
           /\ IF out.k # "w" \/ Open("r", out.q)
              THEN /\ out.k = "w" => buf[out.q] < CAP
                   /\ proc' = [proc EXCEPT ![p].left = @ - 1]
                   /\ buf' = IF out.k = "w" THEN [buf EXCEPT ![out.q] = @ + 1] ELSE buf
                   /\ UNCHANGED sig
              ELSE Exit(p, 13) /\ UNCHANGED buf
        \/ /\ eof /\ proc[p].left = 0
           /\ \E c \in Codes : Exit(p, 256 * c)
           /\ UNCHANGED buf
     /\ UNCHANGED <<sh, status, failed>>

\* A stopped process that loses its parent is hung up (1 is SIGHUP).
hangup(p) ==
  /\ Alive(p) /\ proc[p].at = "stopped" /\ ~Parented(p)
  /\ Exit(p, 1)
  /\ UNCHANGED <<sh, status, buf, failed>>

\* The user ends the input of a background program: it is in the shell's group
\* and shares the terminal with it.
ctrl_d(p) ==
  /\ Alive(p) /\ proc[p].at = "program" /\ proc[p].grp = shell
  /\ proc[p].reads /\ proc[p].tbl[0].k = "tty"
  /\ proc' = [proc EXCEPT ![p].reads = FALSE]
  /\ UNCHANGED <<sh, status, sig, buf, failed>>

\* A signal from outside (9 is SIGKILL), wherever the process is.
kill(p) ==
  /\ Alive(p) /\ Exit(p, 9)
  /\ UNCHANGED <<sh, status, buf, failed>>

-----------------------------------------------------------------------------
ShellInit ==
  /\ sh = [at |-> "prompt", cmd |-> Null, p |-> NoPid, lines |-> 0]
  /\ status = 0
  /\ sig = {}
  /\ proc = [p \in Pids |-> [st |-> "none"]]
  /\ buf = [q \in 1..NPIPES |-> 0]
  /\ failed = FALSE

Run(p) == child(p) \/ exec_pipeline(p) \/ pipeline_wait(p) \/ stage(p) \/ program(p)
          \/ hangup(p)

Progress == run_wait \/ (\E p \in Pids \cup {shell} : handler(p)) \/ (\E p \in Pids : Run(p))

ShellNext == Up /\ (builtin \/ run_cmd \/ Progress \/ \E p \in Pids : kill(p) \/ ctrl_d(p))

\* The kernel does not stop as long as a process can run or a signal can be
\* delivered.  (With finitely many lines this is all the fairness there is to
\* ask for.)  Nobody has to type, and nobody has to kill.
ShellFair == WF_shVars(Up /\ Progress)

-----------------------------------------------------------------------------
(* Properties *)

\* The wait of a foreground command that has got to its own process group
\* gets that command's result, whatever background jobs die and however the
\* handler interrupts: the handler only takes what is in the shell's group.
StatusIsOwn ==
  [][ (/\ sh.at = "wait" /\ sh'.at = "prompt" /\ sh.p # NoPid
       /\ proc[sh.p].grp = sh.p)
      => /\ proc[sh.p].st = "zombie"
         /\ status' = print_status_info(sh.cmd, proc[sh.p].code) ]_shVars

\* No background job stays a zombie, even when several end while one signal
\* is pending.
Jobs == {p \in Pids : proc[p].st = "zombie" /\ proc[p].par = shell /\ proc[p].grp = shell}
JobsAreReaped == (Jobs # {}) ~> (Jobs = {} \/ ~Up)

\* Whom the shell waits for in the end: the command, or the stage that a
\* pipeline waits for.
Awaited == IF Alive(sh.p) /\ proc[sh.p].at = "pipewait" THEN proc[sh.p].kid ELSE sh.p

\* The two ways in which that process may never end: it is stopped, because
\* it reads a terminal that no command is ever given; or it has filled the pipe
\* to a stage that is started only when it has ended.
StoppedAtTerminal(p) == Alive(p) /\ proc[p].at = "stopped"
PipeIsFull(p) ==
  LET out == proc[p].tbl[1]
  IN /\ Alive(p) /\ proc[p].at = "program" /\ proc[p].left > 0
     /\ out.k = "w" /\ buf[out.q] = CAP /\ Open("r", out.q)

\* As long as no fork or pipe fails, a command, or a whole pipeline, whose
\* stages run one after the other, comes to its end, whatever is killed; but
\* for the two deadlocks above there is no other: every reader sees the end
\* of its pipe, since nobody keeps the write end, and no exit is missed.
CommandsEnd ==
  (sh.at = "wait") ~> (\/ sh.at # "wait" \/ failed
                       \/ Awaited \in Pids /\ (StoppedAtTerminal(Awaited) \/ PipeIsFull(Awaited)))
=============================================================================
