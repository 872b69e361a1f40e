----------------------------- MODULE MCMachine -----------------------------
(***************************************************************************)
(* The console and the memory set-up at boot in one run.  Neither uses the *)
(* other's state; a behaviour is about one of them, fixed in the initial   *)
(* state.                                                                  *)
(***************************************************************************)
EXTENDS Console, BootMem

VARIABLE part

\* One size for the behaviours of the console, which do not look at it.
Init ==
  /\ part \in {"console", "boot"}
  /\ ConsoleInit
  /\ BootInit
  /\ part = "boot" => line.who = "monitor"
  /\ part = "console" => pse /\ \A n \in Sizes : npages <= n

Next ==
  /\ \/ part = "console" /\ ConsoleNext /\ UNCHANGED bootVars
     \/ part = "boot" /\ BootNext /\ UNCHANGED conVars
  /\ UNCHANGED part

Spec == Init /\ [][Next]_<<part, conVars, bootVars>>
=============================================================================
