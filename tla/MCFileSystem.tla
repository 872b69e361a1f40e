---------------------------- MODULE MCFileSystem ----------------------------
(***************************************************************************)
(* The two layers of the file system in one run.  They meet only in the    *)
(* calls of fs.c, which FsServer sees as succeeding or failing, so a       *)
(* behaviour is about one of them, fixed in the initial state.             *)
(***************************************************************************)
EXTENDS FsServer, FsBlocks

VARIABLE layer

Init ==
  /\ layer \in {"server", "blocks"}
  /\ ServerInit
  /\ files = {}                 \* O_CREAT leads to every other set
  /\ BlocksInit

Next ==
  /\ \/ layer = "server" /\ ServerNext /\ UNCHANGED blkVars
     \/ layer = "blocks" /\ BlocksNext /\ UNCHANGED srvVars
  /\ UNCHANGED layer

Spec == Init /\ [][Next]_<<layer, srvVars, blkVars>> /\ ServerFair
=============================================================================
