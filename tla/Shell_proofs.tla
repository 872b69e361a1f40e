---------------------------- MODULE Shell_proofs ----------------------------
(***************************************************************************)
(* A theorem about the shell, for any number of processes, pipes and       *)
(* lines: the wait of a foreground command gets that command's result.     *)
(***************************************************************************)
EXTENDS Shell, WellFoundedInduction, TLAPS

\* What process p is while the shell waits for it: a child of the shell that
\* nobody has collected, or one that died in the shell's group and was taken
\* by the handler.
Held(p) ==
  /\ p \in Pids
  /\ proc[p].st \in {"run", "zombie"} => proc[p].par = shell
  /\ proc[p].st \in {"run", "zombie", "gone"} /\ proc[p].grp \in {shell, p}
  /\ proc[p].st = "gone" => proc[p].grp = shell

\* Records of the processes: what every one that lives or is dead has.
Shape(r) ==
  /\ r.st \in {"none", "run", "zombie", "gone"}
  /\ {"st"} \subseteq DOMAIN r
  /\ r.st \in {"run", "zombie"} => {"par", "grp"} \subseteq DOMAIN r
  /\ r.st = "run" => {"at", "tbl"} \subseteq DOMAIN r

IInv ==
  /\ DOMAIN proc = Pids /\ \A p \in Pids : Shape(proc[p])
  /\ DOMAIN sh = {"at", "cmd", "p", "lines"}
  /\ sh.at = "wait" /\ sh.p # NoPid => Held(sh.p)

-----------------------------------------------------------------------------
\* The shell is none of its children.
LEMMA PidLemma == Pids \subseteq Nat /\ shell \notin Pids /\ NoPid \notin Pids
BY ShellAssumption DEF shell, NoPid

\* The least element of a set of numbers is one of them.
LEMMA MinLemma ==
  ASSUME NEW S, S \subseteq Nat, S # {}
  PROVE  Min(S) \in S
PROOF
  <1> DEFINE Less == OpToRel(<, Nat)
  <1>1. \A x, y \in Nat : y < x => <<y, x>> \in Less BY DEF OpToRel
  <1>2. IsWellFoundedOn(Less, Nat) BY NatLessThanWellFounded
  <1> HIDE DEF Less
  <1>3. PICK m \in S : \A y \in S : ~(<<y, m>> \in Less) BY <1>2, WFMin
  <1>4. ASSUME NEW y \in S PROVE m <= y
    <2>1. ~(y < m) BY <1>1, <1>3, Zenon
    <2> QED BY <2>1
  <1> QED BY <1>4 DEF Min

\* A process that is free can be started.
LEMMA FreeLemma ==
  ASSUME FreePids # {}
  PROVE  Min(FreePids) \in Pids /\ proc[Min(FreePids)].st = "none"
PROOF
  <1>1. FreePids \subseteq Nat BY PidLemma DEF FreePids
  <1> QED BY <1>1, MinLemma DEF FreePids

-----------------------------------------------------------------------------
\* What a step of anybody but the shell itself may do to process p: start
\* it, let it go on or end, or collect it, but a child of the shell only
\* from the shell's group.
Moves(p) ==
  \/ proc'[p] = proc[p]
  \/ /\ Shape(proc'[p])
     /\ \/ proc[p].st = "none"
        \/ /\ proc[p].st = "run" /\ proc'[p].st \in {"run", "zombie"}
           /\ proc'[p].par = proc[p].par /\ proc'[p].grp \in {proc[p].grp, p}
        \/ /\ proc[p].st = "zombie" /\ proc'[p].st = "gone"
           /\ proc'[p].grp = proc[p].grp
           /\ proc[p].par = shell => proc[p].grp = shell
AllMove == DOMAIN proc' = Pids /\ \A p \in Pids : Moves(p)

\* Such steps keep the invariant.
LEMMA MovesLemma ==
  ASSUME IInv, AllMove, UNCHANGED sh
  PROVE  IInv'
PROOF
  <1>1. \A p \in Pids : Shape(proc'[p]) BY DEF IInv, AllMove, Moves
  <1>2. ASSUME NEW p, Held(p) PROVE Held(p)'
    BY <1>2 DEF Held, AllMove, Moves
  <1> QED BY <1>1, <1>2 DEF IInv, AllMove

\* The end of a process is such a step.
LEMMA ExitLemma ==
  ASSUME IInv, NEW p \in Pids, Alive(p), NEW s, Exit(p, s)
  PROVE  AllMove
PROOF
  <1> DEFINE r == [st |-> "zombie", par |-> proc[p].par, grp |-> proc[p].grp, code |-> s]
  <1>1. proc' = [proc EXCEPT ![p] = r] BY DEF Exit
  <1>2. /\ r.st = "zombie" /\ r.par = proc[p].par /\ r.grp = proc[p].grp
        /\ DOMAIN r = {"st", "par", "grp", "code"}
    OBVIOUS
  <1> HIDE DEF r
  <1> QED BY <1>1, <1>2 DEF IInv, AllMove, Moves, Shape, Alive

\* A process that goes on keeps its parent; its group may become its own.
LEMMA ChangeLemma ==
  ASSUME IInv, NEW p \in Pids, Alive(p), NEW r, proc' = [proc EXCEPT ![p] = r],
         r.st = "run", r.par = proc[p].par, r.grp \in {proc[p].grp, p},
         {"st", "par", "grp", "at", "tbl"} \subseteq DOMAIN r
  PROVE  AllMove
BY DEF IInv, AllMove, Moves, Shape, Alive

\* exec_cmd ends the process or makes it a program.
LEMMA ExecLemma ==
  ASSUME IInv, NEW p \in Pids, Alive(p), NEW cmd, NEW tbl, exec_cmd(p, cmd, tbl)
  PROVE  AllMove
PROOF
  <1>1. CASE \E s : Exit(p, s) BY <1>1, ExitLemma
  <1>2. CASE \E n, x, t : proc' = [proc EXCEPT ![p] =
                         [st |-> "run", par |-> @.par, grp |-> @.grp,
                          at |-> "program", left |-> n, reads |-> x, tbl |-> t]]
    <2>1. PICK n, x, t : proc' = [proc EXCEPT ![p] =
                         [st |-> "run", par |-> @.par, grp |-> @.grp,
                          at |-> "program", left |-> n, reads |-> x, tbl |-> t]]
      BY <1>2
    <2> DEFINE r == [st |-> "run", par |-> proc[p].par, grp |-> proc[p].grp,
                     at |-> "program", left |-> n, reads |-> x, tbl |-> t]
    <2>2. proc' = [proc EXCEPT ![p] = r] BY <2>1
    <2>3. /\ r.st = "run" /\ r.par = proc[p].par /\ r.grp = proc[p].grp
          /\ DOMAIN r = {"st", "par", "grp", "at", "left", "reads", "tbl"}
      OBVIOUS
    <2> HIDE DEF r
    <2> QED BY <2>2, <2>3, ChangeLemma
  <1> QED BY <1>1, <1>2 DEF exec_cmd

\* Collecting zombies is such a step unless one is a child of the shell that
\* is in another group.
LEMMA ReapLemma ==
  ASSUME IInv, NEW ps,
         \A k \in ps : /\ k \in Pids /\ proc[k].st = "zombie"
                       /\ proc[k].par = shell => proc[k].grp = shell,
         proc' = Reaped(ps)
  PROVE  AllMove
PROOF
  <1>1. DOMAIN proc' = Pids BY DEF Reaped
  <1>2. ASSUME NEW q \in Pids PROVE Moves(q)
    <2>1. CASE q \in ps
      <3> DEFINE r == [st |-> "gone", grp |-> proc[q].grp]
      <3>1. proc'[q] = r BY <2>1 DEF Reaped
      <3>2. r.st = "gone" /\ r.grp = proc[q].grp /\ DOMAIN r = {"st", "grp"} OBVIOUS
      <3> HIDE DEF r
      <3> QED BY <2>1, <3>1, <3>2 DEF Moves, Shape
    <2>2. CASE q \notin ps
      <3>1. proc'[q] = proc[q] BY <2>2 DEF Reaped
      <3> QED BY <3>1 DEF Moves
    <2> QED BY <2>1, <2>2
  <1> QED BY <1>1, <1>2 DEF AllMove

-----------------------------------------------------------------------------
(* The steps of the children *)

\* The child of run_cmd: a group, a program, or a pipeline.
LEMMA ChildLemma ==
  ASSUME IInv, NEW p \in Pids, child(p)
  PROVE  AllMove /\ UNCHANGED sh
PROOF
  <1>1. Alive(p) /\ UNCHANGED sh BY DEF child
  <1>2. Shape(proc[p]) /\ proc[p].st = "run" BY <1>1 DEF IInv, Alive
  <1>3. CASE proc' = [proc EXCEPT ![p].grp = p]
    <2> DEFINE r == [proc[p] EXCEPT !.grp = p]
    <2>1. proc' = [proc EXCEPT ![p] = r] BY <1>3
    <2>2. /\ r.st = "run" /\ r.par = proc[p].par /\ r.grp = p
          /\ DOMAIN r = DOMAIN proc[p]
      BY <1>2 DEF Shape
    <2> HIDE DEF r
    <2> QED BY <1>1, <1>2, <2>1, <2>2, ChangeLemma DEF Shape
  <1>4. CASE \E cmd, tbl : exec_cmd(p, cmd, tbl) BY <1>1, <1>4, ExecLemma
  <1>5. CASE /\ proc[p].grp = p
             /\ proc' = [proc EXCEPT ![p] = [st |-> "run", par |-> @.par, grp |-> p,
                           at |-> "pipe", cmd |-> proc[p].cmd, tbl |-> @.tbl,
                           i |-> 1, fd |-> -1, kid |-> NoPid]]
    <2> DEFINE r == [st |-> "run", par |-> proc[p].par, grp |-> p,
                     at |-> "pipe", cmd |-> proc[p].cmd, tbl |-> proc[p].tbl,
                     i |-> 1, fd |-> -1, kid |-> NoPid]
    <2>1. proc' = [proc EXCEPT ![p] = r] BY <1>5
    <2>2. /\ r.st = "run" /\ r.par = proc[p].par /\ r.grp = p
          /\ DOMAIN r = {"st", "par", "grp", "at", "cmd", "tbl", "i", "fd", "kid"}
      OBVIOUS
    <2> HIDE DEF r
    <2> QED BY <1>1, <2>1, <2>2, ChangeLemma
  <1>6. \/ proc' = [proc EXCEPT ![p].grp = p]
        \/ exec_cmd(p, proc[p].cmd, proc[p].tbl)
        \/ /\ proc[p].grp = p
           /\ proc' = [proc EXCEPT ![p] = [st |-> "run", par |-> @.par, grp |-> p,
                         at |-> "pipe", cmd |-> proc[p].cmd, tbl |-> @.tbl,
                         i |-> 1, fd |-> -1, kid |-> NoPid]]
    BY Zenon DEF child
  <1> QED BY <1>1, <1>3, <1>4, <1>5, <1>6

\* A pipeline process that waits for its stage.
AtStage(p, kid, fd, tbl) ==
  [proc[p] EXCEPT !.at = "pipewait", !.kid = kid, !.fd = fd, !.tbl = tbl]

\* It goes on to wait, and its stage is started.
LEMMA StartLemma ==
  ASSUME IInv, NEW p \in Pids, Alive(p), FreePids # {}, NEW kid, NEW fd, NEW tbl,
         NEW c, c.st = "run", {"st", "par", "grp", "at", "tbl"} \subseteq DOMAIN c,
         proc' = [proc EXCEPT ![p] = AtStage(p, kid, fd, tbl), ![Min(FreePids)] = c]
  PROVE  AllMove
PROOF
  <1> DEFINE m == Min(FreePids)
             r == AtStage(p, kid, fd, tbl)
  <1>1. m \in Pids /\ proc[m].st = "none" BY FreeLemma
  <1>2. Shape(proc[p]) /\ proc[p].st = "run" /\ m # p BY <1>1 DEF IInv, Alive
  <1>3. /\ r.st = "run" /\ r.par = proc[p].par /\ r.grp = proc[p].grp
        /\ DOMAIN r = DOMAIN proc[p]
    BY <1>2 DEF AtStage, Shape
  <1>5. proc' = [proc EXCEPT ![p] = r, ![m] = c] OBVIOUS
  <1> HIDE DEF m, r
  <1>6. /\ proc'[p] = r /\ proc'[m] = c /\ DOMAIN proc' = Pids
        /\ \A q \in Pids : q # p /\ q # m => proc'[q] = proc[q]
    BY <1>1, <1>2, <1>5 DEF IInv
  <1>7. Moves(p) /\ Moves(m)
    BY <1>1, <1>2, <1>3, <1>6 DEF Moves, Shape
  <1> QED BY <1>6, <1>7 DEF AllMove, Moves

\* It goes on to wait, although no stage could be started.
LEMMA FailLemma ==
  ASSUME IInv, NEW p \in Pids, Alive(p), NEW kid, NEW fd, NEW tbl,
         proc' = [proc EXCEPT ![p] = AtStage(p, kid, fd, tbl)]
  PROVE  AllMove
PROOF
  <1>1. Shape(proc[p]) /\ proc[p].st = "run" BY DEF IInv, Alive
  <1> DEFINE r == AtStage(p, kid, fd, tbl)
  <1>2. /\ r.st = "run" /\ r.par = proc[p].par /\ r.grp = proc[p].grp
        /\ DOMAIN r = DOMAIN proc[p]
    BY <1>1 DEF AtStage, Shape
  <1> HIDE DEF r
  <1> QED BY <1>1, <1>2, ChangeLemma DEF Shape, r

\* One turn of exec_pipeline.
LEMMA PipelineLemma ==
  ASSUME IInv, NEW p \in Pids, exec_pipeline(p)
  PROVE  AllMove /\ UNCHANGED sh
PROOF
  <1>1. Alive(p) /\ UNCHANGED sh BY Zenon DEF exec_pipeline
  <1> DEFINE s == proc[p]
             n == Len(s.cmd.commands)
             more == s.i < n
             lo == Lowest(s.tbl)
             hi == Lowest([s.tbl EXCEPT ![lo] = End("tty", 0)])
             Next1(fds, t, kid) ==
               [s EXCEPT !.at = "pipewait", !.kid = kid, !.fd = fds[1],
                         !.tbl = CloseOwn(t, s.i, s.fd, fds, more)]
             Bad(tbl, fds) == Closed(tbl, {fds[1], fds[2], s.fd})
             Start(tbl, fds, ok) ==
               \/ /\ FreePids # {}
                  /\ proc' = [proc EXCEPT ![p] = Next1(fds, tbl, Min(FreePids)),
                                ![Min(FreePids)] =
                                  [st |-> "run", par |-> p, grp |-> s.grp, at |-> "stage",
                                   cmd |-> s.cmd.commands[s.i], tbl |-> tbl,
                                   fd |-> s.fd, fds |-> fds, i |-> s.i, more |-> more]]
               \/ proc' = [proc EXCEPT ![p] = Next1(fds, Bad(tbl, fds), NoPid)]
  <1>2. ASSUME NEW tbl, NEW fds, NEW ok, Start(tbl, fds, ok) PROVE AllMove
    <2>1. \A t, kid : Next1(fds, t, kid) =
                        AtStage(p, kid, fds[1], CloseOwn(t, s.i, s.fd, fds, more))
      BY DEF AtStage
    <2> DEFINE c == [st |-> "run", par |-> p, grp |-> s.grp, at |-> "stage",
                     cmd |-> s.cmd.commands[s.i], tbl |-> tbl,
                     fd |-> s.fd, fds |-> fds, i |-> s.i, more |-> more]
    <2>2. c.st = "run" /\ {"st", "par", "grp", "at", "tbl"} \subseteq DOMAIN c
      OBVIOUS
    <2>3. \/ /\ FreePids # {}
             /\ proc' = [proc EXCEPT ![p] = Next1(fds, tbl, Min(FreePids)),
                                     ![Min(FreePids)] = c]
          \/ proc' = [proc EXCEPT ![p] = Next1(fds, Bad(tbl, fds), NoPid)]
      BY <1>2, Zenon
    <2> HIDE DEF Next1, Bad, more, s, n, c, Start
    <2>4. CASE /\ FreePids # {}
               /\ proc' = [proc EXCEPT ![p] = Next1(fds, tbl, Min(FreePids)),
                                       ![Min(FreePids)] = c]
      <3> DEFINE kid == Min(FreePids)
                 t == CloseOwn(tbl, s.i, s.fd, fds, more)
      <3>1. proc' = [proc EXCEPT ![p] = AtStage(p, kid, fds[1], t), ![Min(FreePids)] = c]
        BY <2>1, <2>4
      <3> HIDE DEF kid, t
      <3>2. FreePids # {} BY <2>4
      <3> QED BY <1>1, <2>2, <3>1, <3>2, StartLemma, Zenon
    <2>5. CASE proc' = [proc EXCEPT ![p] = Next1(fds, Bad(tbl, fds), NoPid)]
      <3> DEFINE t == CloseOwn(Bad(tbl, fds), s.i, s.fd, fds, more)
      <3>1. proc' = [proc EXCEPT ![p] = AtStage(p, NoPid, fds[1], t)] BY <2>1, <2>5
      <3> HIDE DEF t
      <3> QED BY <1>1, <3>1, FailLemma
    <2> QED BY <2>3, <2>4, <2>5
  <1>3. \/ Exit(p, 256 * Failure)
        \/ Start(s.tbl, <<-1, 0>>, TRUE)
        \/ Start([s.tbl EXCEPT ![lo] = End("r", Min(FreePipes)),
                               ![hi] = End("w", Min(FreePipes))], <<lo, hi>>, TRUE)
        \/ Start(Closed(s.tbl, {0, s.fd}), <<-1, 0>>, FALSE)
    BY Zenon DEF exec_pipeline
  <1> HIDE DEF Start
  <1> QED BY <1>1, <1>2, <1>3, ExitLemma

\* waitpid in a pipeline process collects a child of that process.
LEMMA WaitLemma ==
  ASSUME IInv, NEW p \in Pids, pipeline_wait(p)
  PROVE  AllMove /\ UNCHANGED sh
PROOF
  <1> DEFINE on(f) == [f EXCEPT ![p].at = "pipe", ![p].i = @ + 1]
             kids == Waited(p, proc[p].kid)
             r == [[proc[p] EXCEPT !.at = "pipe"] EXCEPT !.i = @ + 1]
  <1>1. Alive(p) /\ UNCHANGED sh BY DEF pipeline_wait
  <1>2. Shape(proc[p]) /\ proc[p].st = "run" BY <1>1 DEF IInv, Alive
  <1>3. /\ r.st = "run" /\ r.par = proc[p].par /\ r.grp = proc[p].grp
        /\ DOMAIN r = DOMAIN proc[p]
    BY <1>2 DEF Shape
  <1>4. Moves(p) \/ proc'[p] # r BY <1>2, <1>3 DEF Moves, Shape
  <1>5. \/ \E k \in Zombies(kids) : proc' = on(Reaped({k}))
        \/ proc' = on(proc)
    BY Zenon DEF pipeline_wait
  <1>6. CASE proc' = on(proc)
    <2>1. /\ proc'[p] = r /\ DOMAIN proc' = Pids
          /\ \A q \in Pids : q # p => proc'[q] = proc[q]
      BY <1>6 DEF IInv
    <2> QED BY <1>1, <1>4, <2>1 DEF AllMove, Moves
  <1>7. CASE \E k \in Zombies(kids) : proc' = on(Reaped({k}))
    <2>1. PICK k \in Zombies(kids) : proc' = on(Reaped({k})) BY <1>7
    <2>2. k \in Pids /\ proc[k].st = "zombie" /\ proc[k].par = p
      BY DEF Zombies, Waited, Kids
    <2>3. k # p /\ p # shell BY <1>2, <2>2, PidLemma
    <2> DEFINE f == Reaped({k})
               g == [st |-> "gone", grp |-> proc[k].grp]
    <2>4. /\ DOMAIN f = Pids /\ f[p] = proc[p] /\ f[k] = g
          /\ \A q \in Pids : q # k => f[q] = proc[q]
      BY <2>2, <2>3 DEF Reaped
    <2>5. g.st = "gone" /\ g.grp = proc[k].grp /\ DOMAIN g = {"st", "grp"} OBVIOUS
    <2> HIDE DEF f, g
    <2>6. /\ proc'[p] = r /\ proc'[k] = g /\ DOMAIN proc' = Pids
          /\ \A q \in Pids : q # p /\ q # k => proc'[q] = proc[q]
      BY <2>1, <2>2, <2>3, <2>4 DEF f
    <2>7. Moves(k) BY <2>2, <2>3, <2>5, <2>6 DEF Moves, Shape
    <2> QED BY <1>1, <1>4, <2>6, <2>7 DEF AllMove, Moves
  <1> QED BY <1>5, <1>6, <1>7

\* A stage moves to its own group and becomes a program.
LEMMA StageLemma ==
  ASSUME IInv, NEW p \in Pids, stage(p)
  PROVE  AllMove /\ UNCHANGED sh
PROOF
  <1>1. Alive(p) /\ UNCHANGED sh BY Zenon DEF stage
  <1>2. Shape(proc[p]) /\ proc[p].st = "run" BY <1>1 DEF IInv, Alive
  <1>3. CASE proc' = [proc EXCEPT ![p].grp = p]
    <2> DEFINE r == [proc[p] EXCEPT !.grp = p]
    <2>1. proc' = [proc EXCEPT ![p] = r] BY <1>3
    <2>2. /\ r.st = "run" /\ r.par = proc[p].par /\ r.grp = p
          /\ DOMAIN r = DOMAIN proc[p]
      BY <1>2 DEF Shape
    <2> HIDE DEF r
    <2> QED BY <1>1, <1>2, <2>1, <2>2, ChangeLemma DEF Shape
  <1>4. CASE \E cmd, tbl : exec_cmd(p, cmd, tbl) BY <1>1, <1>4, ExecLemma
  <1>5. CASE Exit(p, 256 * Failure) BY <1>1, <1>5, ExitLemma
  <1>6. \/ proc' = [proc EXCEPT ![p].grp = p]
        \/ \E cmd, tbl : exec_cmd(p, cmd, tbl)
        \/ Exit(p, 256 * Failure)
    BY Zenon DEF stage
  <1> QED BY <1>1, <1>3, <1>4, <1>5, <1>6

\* A process that goes on with one of its other fields changed.
LEMMA FieldLemma ==
  ASSUME IInv, NEW p \in Pids, Alive(p), NEW x,
         \/ proc' = [proc EXCEPT ![p].left = x]
         \/ proc' = [proc EXCEPT ![p].reads = x]
         \/ proc' = [proc EXCEPT ![p].at = x]
  PROVE  AllMove
PROOF
  <1>1. Shape(proc[p]) /\ proc[p].st = "run" BY DEF IInv, Alive
  <1>2. ASSUME NEW r, proc' = [proc EXCEPT ![p] = r],
               r = [proc[p] EXCEPT !.left = x] \/ r = [proc[p] EXCEPT !.reads = x]
                 \/ r = [proc[p] EXCEPT !.at = x]
        PROVE  AllMove
    <2>1. /\ r.st = "run" /\ r.par = proc[p].par /\ r.grp = proc[p].grp
          /\ DOMAIN r = DOMAIN proc[p]
      BY <1>1, <1>2 DEF Shape
    <2> QED BY <1>1, <1>2, <2>1, ChangeLemma DEF Shape
  <1>3. CASE proc' = [proc EXCEPT ![p].left = x] BY <1>2, <1>3
  <1>4. CASE proc' = [proc EXCEPT ![p].reads = x] BY <1>2, <1>4
  <1>5. CASE proc' = [proc EXCEPT ![p].at = x] BY <1>2, <1>5
  <1> QED BY <1>3, <1>4, <1>5

\* A program reads, writes, is stopped and ends.
LEMMA ProgramLemma ==
  ASSUME IInv, NEW p \in Pids, program(p)
  PROVE  AllMove /\ UNCHANGED sh
PROOF
  <1>1. Alive(p) /\ UNCHANGED sh BY Zenon DEF program
  <1>2. CASE proc' = proc BY <1>1, <1>2 DEF AllMove, Moves, IInv
  <1>3. CASE \E x : proc' = [proc EXCEPT ![p].left = x] BY <1>1, <1>3, FieldLemma
  <1>4. CASE proc' = [proc EXCEPT ![p].at = "stopped"] BY <1>1, <1>4, FieldLemma
  <1>5. CASE \E s : Exit(p, s) BY <1>1, <1>5, ExitLemma
  <1>6. \/ proc' = proc
        \/ proc' = [proc EXCEPT ![p].left = @ - 1]
        \/ proc' = [proc EXCEPT ![p].at = "stopped"]
        \/ \E s : Exit(p, s)
    BY Zenon DEF program
  <1>7. proc' = [proc EXCEPT ![p].left = @ - 1] =>
          \E x : proc' = [proc EXCEPT ![p].left = x]
    OBVIOUS
  <1> QED BY <1>1, <1>2, <1>3, <1>4, <1>5, <1>6, <1>7

\* A stopped process is hung up; a background program gets its end of file.
LEMMA TerminalLemma ==
  ASSUME IInv, NEW p \in Pids, hangup(p) \/ ctrl_d(p)
  PROVE  AllMove /\ UNCHANGED sh
PROOF
  <1>1. CASE hangup(p) BY <1>1, ExitLemma DEF hangup
  <1>2. CASE ctrl_d(p) BY <1>2, FieldLemma DEF ctrl_d
  <1> QED BY <1>1, <1>2

\* The handler takes children of the shell's group in the shell, and children
\* of a pipeline process in that process.
LEMMA HandlerLemma ==
  ASSUME IInv, NEW p \in Pids \cup {shell}, handler(p)
  PROVE  AllMove /\ UNCHANGED sh
PROOF
  <1> DEFINE grp == IF p = shell THEN shell ELSE proc[p].grp
             ps == {k \in Zombies(Kids(p)) : proc[k].grp = grp}
  <1>1. proc' = Reaped(ps) /\ UNCHANGED sh BY DEF handler
  <1>2. ASSUME NEW k \in ps
        PROVE  /\ k \in Pids /\ proc[k].st = "zombie"
               /\ proc[k].par = shell => proc[k].grp = shell
    BY PidLemma DEF Zombies, Kids
  <1> HIDE DEF ps
  <1> QED BY <1>1, <1>2, ReapLemma

-----------------------------------------------------------------------------
(* The steps of the shell *)

\* A command that is started is a child of the shell, in its group.
LEMMA RunLemma ==
  ASSUME IInv, run_cmd
  PROVE  IInv'
PROOF
  <1>1. PICK cmd, at :
          \/ sh' = [sh EXCEPT !.at = "crash"] /\ UNCHANGED proc
          \/ /\ FreePids # {}
             /\ sh' = [at |-> at, cmd |-> cmd, p |-> Min(FreePids), lines |-> sh.lines + 1]
             /\ proc' = [proc EXCEPT ![Min(FreePids)] =
                           Child(shell, shell, "child", cmd, Tty)]
          \/ /\ sh' = [at |-> at, cmd |-> cmd, p |-> NoPid, lines |-> sh.lines + 1]
             /\ UNCHANGED proc
    BY Zenon DEF run_cmd
  <1>2. CASE sh' = [sh EXCEPT !.at = "crash"] /\ UNCHANGED proc BY <1>2 DEF IInv
  <1>3. CASE /\ sh' = [at |-> at, cmd |-> cmd, p |-> NoPid, lines |-> sh.lines + 1]
             /\ UNCHANGED proc
    BY <1>3 DEF IInv
  <1>4. CASE /\ FreePids # {}
             /\ sh' = [at |-> at, cmd |-> cmd, p |-> Min(FreePids), lines |-> sh.lines + 1]
             /\ proc' = [proc EXCEPT ![Min(FreePids)] =
                           Child(shell, shell, "child", cmd, Tty)]
    <2> DEFINE r == Child(shell, shell, "child", cmd, Tty)
    <2>1. PICK m \in Pids : m = Min(FreePids) BY <1>4, FreeLemma
    <2>2. /\ r.st = "run" /\ r.par = shell /\ r.grp = shell
          /\ DOMAIN r = {"st", "par", "grp", "at", "cmd", "tbl"}
      BY DEF Child
    <2>3. sh'.p = m /\ DOMAIN sh' = {"at", "cmd", "p", "lines"} BY <1>4, <2>1
    <2>4. proc' = [proc EXCEPT ![m] = r] BY <1>4, <2>1
    <2> HIDE DEF r
    <2>5. DOMAIN proc' = Pids /\ proc'[m] = r /\ \A q \in Pids : q # m => proc'[q] = proc[q]
      BY <2>1, <2>4 DEF IInv
    <2>6. Held(m)' BY <2>1, <2>2, <2>5 DEF Held
    <2>7. \A q \in Pids : Shape(proc'[q]) BY <2>2, <2>5 DEF IInv, Shape
    <2> QED BY <2>3, <2>5, <2>6, <2>7 DEF IInv
  <1> QED BY <1>1, <1>2, <1>3, <1>4

\* waitpid(p) collects p, whatever the handler has taken, if p has reached a
\* group of its own; and the wait is over.
LEMMA RunWaitLemma ==
  ASSUME IInv, run_wait
  PROVE  /\ IInv'
         /\ sh.p # NoPid /\ proc[sh.p].grp = sh.p =>
              /\ proc[sh.p].st = "zombie"
              /\ status' = print_status_info(sh.cmd, proc[sh.p].code)
PROOF
  <1>1. /\ sh.at = "wait" /\ sh' = [sh EXCEPT !.at = "prompt"]
        /\ \/ \E k \in Zombies(Waited(shell, sh.p)) :
                /\ proc' = Reaped({k})
                /\ status' = print_status_info(sh.cmd, proc[k].code)
           \/ Waited(shell, sh.p) = {} /\ UNCHANGED proc
    BY DEF run_wait
  <1>2. sh'.at = "prompt" /\ DOMAIN sh' = {"at", "cmd", "p", "lines"} BY <1>1 DEF IInv
  <1>3. DOMAIN proc' = Pids /\ \A q \in Pids : Shape(proc'[q])
    <2>1. CASE UNCHANGED proc BY <2>1 DEF IInv
    <2>2. CASE \E k : proc' = Reaped({k})
      <3>1. PICK k : proc' = Reaped({k}) BY <2>2
      <3>2. DOMAIN proc' = Pids BY <3>1 DEF Reaped
      <3>3. ASSUME NEW q \in Pids PROVE Shape(proc'[q])
        <4> DEFINE r == [st |-> "gone", grp |-> proc[q].grp]
        <4>1. proc'[q] = r \/ proc'[q] = proc[q] BY <3>1 DEF Reaped
        <4>2. r.st = "gone" /\ DOMAIN r = {"st", "grp"} OBVIOUS
        <4> HIDE DEF r
        <4> QED BY <4>1, <4>2 DEF IInv, Shape
      <3> QED BY <3>2, <3>3
    <2> QED BY <1>1, <2>1, <2>2
  <1>4. ASSUME sh.p # NoPid, proc[sh.p].grp = sh.p
        PROVE  /\ proc[sh.p].st = "zombie"
               /\ status' = print_status_info(sh.cmd, proc[sh.p].code)
    <2>1. Held(sh.p) BY <1>1, <1>4 DEF IInv
    <2>2. sh.p \in Kids(shell) BY <1>4, <2>1, PidLemma DEF Held, Kids
    <2>3. Waited(shell, sh.p) = {sh.p} BY <1>4, <2>2 DEF Waited
    <2> QED BY <1>1, <2>3 DEF Zombies
  <1> QED BY <1>2, <1>3, <1>4 DEF IInv

-----------------------------------------------------------------------------
\* No process exists and the shell waits for none at first.
LEMMA InitLemma == ShellInit => IInv
PROOF
  <1> SUFFICES ASSUME ShellInit PROVE IInv
    OBVIOUS
  <1>1. sh.at = "prompt" /\ DOMAIN sh = {"at", "cmd", "p", "lines"} BY DEF ShellInit
  <1> DEFINE r == [st |-> "none"]
  <1>2. r.st = "none" /\ DOMAIN r = {"st"} OBVIOUS
  <1>3. DOMAIN proc = Pids /\ \A p \in Pids : proc[p] = r BY DEF ShellInit
  <1> HIDE DEF r
  <1> QED BY <1>1, <1>2, <1>3 DEF IInv, Shape

\* The end of the wait for p.
OwnStatus ==
  (/\ sh.at = "wait" /\ sh'.at = "prompt" /\ sh.p # NoPid
   /\ proc[sh.p].grp = sh.p)
  => /\ proc[sh.p].st = "zombie"
     /\ status' = print_status_info(sh.cmd, proc[sh.p].code)

\* Every step keeps the invariant and gives a command its own status.
LEMMA NextLemma == IInv /\ [ShellNext]_shVars => IInv' /\ [OwnStatus]_shVars
PROOF
  <1> SUFFICES ASSUME IInv, [ShellNext]_shVars PROVE IInv' /\ [OwnStatus]_shVars
    OBVIOUS
  <1>1. CASE UNCHANGED shVars BY <1>1 DEF shVars, IInv, Held
  <1>2. CASE UNCHANGED sh /\ AllMove BY <1>2, MovesLemma DEF OwnStatus
  <1>3. CASE builtin
    <2>1. /\ sh.at = "prompt" /\ UNCHANGED proc
          /\ sh' = [sh EXCEPT !.at = "exit"] \/ sh' = [sh EXCEPT !.lines = @ + 1]
      BY <1>3 DEF builtin
    <2>2. sh'.at # "wait" /\ DOMAIN sh' = {"at", "cmd", "p", "lines"} BY <2>1 DEF IInv
    <2> QED BY <2>1, <2>2 DEF IInv, OwnStatus
  <1>4. CASE run_cmd
    <2>1. sh.at = "prompt" BY <1>4 DEF run_cmd
    <2> QED BY <1>4, <2>1, RunLemma DEF OwnStatus
  <1>5. CASE run_wait BY <1>5, RunWaitLemma DEF OwnStatus
  <1>6. CASE \E p \in Pids \cup {shell} : handler(p) BY <1>2, <1>6, HandlerLemma
  <1>7. CASE \E p \in Pids : Run(p)
    BY <1>2, <1>7, ChildLemma, PipelineLemma, WaitLemma, StageLemma, ProgramLemma,
       TerminalLemma DEF Run
  <1>8. CASE \E p \in Pids : kill(p) BY <1>2, <1>8, ExitLemma DEF kill
  <1>9. CASE \E p \in Pids : ctrl_d(p) BY <1>2, <1>9, TerminalLemma
  <1> QED BY <1>1, <1>3, <1>4, <1>5, <1>6, <1>7, <1>8, <1>9 DEF ShellNext, Progress

\* A foreground command that has got to its own group gives the shell its
\* own result, whatever other children die, whenever the handler runs, and
\* whatever is killed (shell/runcmd.c:63, the SIGCHLD handler, shell/sh.c:28).
THEOREM StatusTheorem == ShellInit /\ [][ShellNext]_shVars => StatusIsOwn
PROOF
  <1>1. ShellInit /\ [][ShellNext]_shVars => [][OwnStatus]_shVars
    BY InitLemma, NextLemma, PTL
  <1> QED BY <1>1 DEF StatusIsOwn, OwnStatus
=============================================================================
