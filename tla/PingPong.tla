----------------------------- MODULE PingPong ------------------------------
(***************************************************************************)
(* The exchange of fork/pingpong.c: a number goes to the child through the *)
(* second pipe and comes back through the first.  Both processes hold both *)
(* ends of a pipe while they read from it, so neither ever sees an end of  *)
(* file.  The kernel is external: pipe and fork may fail, a process may be *)
(* killed, a write that nobody can read kills the writer.  It begins when  *)
(* the two pipes are made.                                                 *)
(***************************************************************************)
EXTENDS Sequences

CONSTANT Numbers        \* what random() may return

VARIABLES
  where,    \* what each process does next
  ends,     \* the ends of the pipes that each process has open
  holds,    \* num and to_recv, or to_send: the numbers each has, in order
  pipe,     \* the number in each pipe
  killed    \* somebody has been killed, or fork has failed

pongVars == <<where, ends, holds, pipe, killed>>

Both == {"parent", "child"}
Nothing == "nothing"
All == {"read", "write"} \X {1, 2}

\* exit, or a return after pipe_error: the kernel closes the rest.
leave(p) == where' = [where EXCEPT ![p] = "gone"] /\ ends' = [ends EXCEPT ![p] = {}]

\* fork, in the parent.
fork_pong ==
  /\ where.parent = "fork"
  /\ UNCHANGED <<holds, pipe>>
  /\ \/ leave("parent") /\ killed' = TRUE
     \/ /\ where' = [parent |-> "send", child |-> "receive"]
        /\ ends' = [parent |-> All \ {<<"read", 2>>}, child |-> All \ {<<"read", 1>>}]
        /\ UNCHANGED killed

CanRead(k) == \E p \in Both : <<"read", k>> \in ends[p]

\* A write of n to pipe k by p, which goes on at next.
Put(p, k, n, next) ==
  IF CanRead(k)
  THEN /\ pipe' = [pipe EXCEPT ![k] = n]
       /\ where' = [where EXCEPT ![p] = next]
       /\ UNCHANGED ends
  ELSE leave(p) /\ UNCHANGED pipe

\* Mutant of ping: the wrong pipe.
ping_back ==
  /\ where.parent = "send"
  /\ \E n \in Numbers : Put("parent", 1, n, "sent") /\ holds' = [holds EXCEPT !.parent = <<n>>]
  /\ UNCHANGED killed

\* The parent: write, close the end it has written to.
ping ==
  /\ where.parent = "send"
  /\ \E n \in Numbers : Put("parent", 2, n, "sent") /\ holds' = [holds EXCEPT !.parent = <<n>>]
  /\ UNCHANGED killed

close_ping ==
  /\ where.parent = "sent"
  /\ ends' = [ends EXCEPT !.parent = @ \ {<<"write", 2>>}]
  /\ where' = [where EXCEPT !.parent = "receive"]
  /\ UNCHANGED <<holds, pipe, killed>>

\* A read of pipe k by p, and the closes that follow it.  It waits as long as
\* the pipe is empty: p has the write end open itself.
Receive(p, k, next) ==
  /\ where[p] = "receive" /\ pipe[k] # Nothing
  /\ holds' = [holds EXCEPT ![p] = Append(@, pipe[k])]
  /\ pipe' = [pipe EXCEPT ![k] = Nothing]
  /\ ends' = [ends EXCEPT ![p] = @ \ {<<"read", k>>, <<"write", k>>}]
  /\ where' = [where EXCEPT ![p] = next]
  /\ UNCHANGED killed

receive_pong == Receive("parent", 1, "done")
receive_ping == Receive("child", 2, "send")

pong ==
  /\ where.child = "send"
  /\ Put("child", 1, holds.child[1], "done")
  /\ UNCHANGED <<holds, killed>>

end(p) == where[p] = "done" /\ leave(p) /\ UNCHANGED <<holds, pipe, killed>>

kill_one(p) ==
  /\ where[p] \notin {"none", "gone"}
  /\ leave(p) /\ killed' = TRUE
  /\ UNCHANGED <<holds, pipe>>

-----------------------------------------------------------------------------
PongInit ==
  /\ where = [parent |-> "fork", child |-> "none"]
  /\ ends = [parent |-> All, child |-> {}]
  /\ holds = [p \in Both |-> <<>>]
  /\ pipe = [k \in {1, 2} |-> Nothing]
  /\ killed = FALSE

PongStep ==
  fork_pong \/ ping \/ close_ping \/ receive_pong \/ receive_ping \/ pong \/ \E p \in Both : end(p)

PongNext == PongStep \/ \E p \in Both : kill_one(p)

\* The kernel goes on with one of the two processes as long as one can run.
PongFair == WF_pongVars(PongStep)

-----------------------------------------------------------------------------
(* Properties *)

\* Both processes come to their end and the parent has received the number it
\* has sent, if neither is killed half way: nobody waits for the other, or
\* for an end of file that its own open descriptors keep away, and no close
\* comes so early that a write finds no reader.
BallComesBack ==
  (where.parent = "send") ~>
    (\/ killed
     \/ /\ \A p \in Both : where[p] = "gone"
        /\ \E n \in Numbers : holds.parent = <<n, n>>)
=============================================================================
