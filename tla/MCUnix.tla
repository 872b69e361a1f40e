------------------------------- MODULE MCUnix -------------------------------
(***************************************************************************)
(* The Unix programs of the repository in one run: the shell, the prime    *)
(* sieve and the ping-pong have nothing to do with each other, and a       *)
(* behaviour is one of them, fixed in the initial state.                   *)
(***************************************************************************)
EXTENDS Shell, Sieve, PingPong

VARIABLE which

\* A program; one in the background; pipelines of two and three with
\* redirections in them; the lines that parse to something odd.
MCLines ==
  { <<<<"w">>>>,
    <<<<"w", "&">>>>,
    <<<<"w">>, <<"w", ">f", "2>&1">>>>,
    <<<<"K=V", "w">>, <<"w", "<f">>, <<"w">>>>,
    <<<<"&">>>>,
    <<<<>>, <<>>>>,
    <<<<>>, <<"w">>>> }

Init == which \in {"shell", "sieve", "pingpong"} /\ ShellInit /\ SieveInit /\ PongInit

Next ==
  /\ \/ which = "shell" /\ ShellNext /\ UNCHANGED <<sieveVars, pongVars>>
     \/ which = "sieve" /\ SieveNext /\ UNCHANGED <<shVars, pongVars>>
     \/ which = "pingpong" /\ PongNext /\ UNCHANGED <<shVars, sieveVars>>
  /\ UNCHANGED which

\* The fairness of the program that runs; the others take no step.
Fair ==
  /\ WF_shVars(which = "shell" /\ Up /\ Progress)
  /\ WF_sieveVars(which = "sieve" /\ SieveNext)
  /\ WF_pongVars(which = "pingpong" /\ PongStep)

Spec == Init /\ [][Next]_<<which, shVars, sieveVars, pongVars>> /\ Fair
=============================================================================
