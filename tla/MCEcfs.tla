------------------------------- MODULE MCEcfs -------------------------------
(* A volume of sixteen blocks with a directory, a file in it and one in    *)
(* the root.                                                               *)
EXTENDS Ecfs

MCPaths == {<<1, 2>>, <<0, 3>>}
MCDataPaths == {<<1, 2>>, <<0, 3>>}
=============================================================================
