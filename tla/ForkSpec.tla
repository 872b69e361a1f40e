------------------------------ MODULE ForkSpec ------------------------------
(***************************************************************************)
(* What fork promises: every environment has a memory of its own.  A child *)
(* starts with a copy of its parent's memory and from then on neither      *)
(* sees what the other one writes.                                         *)
(***************************************************************************)
CONSTANTS
  Envs, Root,       \* the environments, the one there is at the start
  Data, Values,     \* the pages of a memory and what a page may hold
  Zero,             \* what they hold at the start and no program writes: a
                    \* page that is lost does not pass for one written
  Dead              \* the memory of an environment that does not exist

VARIABLE amem       \* the memory of every environment

ForkInit ==
  amem = [e \in Envs |-> IF e = Root THEN [d \in Data |-> Zero] ELSE Dead]

Alive(e) == amem[e] # Dead

AWrite(e) ==
  /\ Alive(e)
  /\ \E d \in Data, v \in Values \ {Zero} : amem' = [amem EXCEPT ![e][d] = v]

AFork(p) ==
  /\ Alive(p)
  /\ \E c \in Envs : ~Alive(c) /\ amem' = [amem EXCEPT ![c] = amem[p]]

AExit(e) == Alive(e) /\ amem' = [amem EXCEPT ![e] = Dead]

ForkNext == \E e \in Envs : AWrite(e) \/ AFork(e) \/ AExit(e)

IsolatedMemory == ForkInit /\ [][ForkNext]_amem
=============================================================================
