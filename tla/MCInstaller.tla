---------------------------- MODULE MCInstaller ----------------------------
(***************************************************************************)
(* A core pack with an ownership file, a document the user may override    *)
(* and a reference file that release 2 drops, next to an advanced addon    *)
(* pack of one file.                                                       *)
(***************************************************************************)
EXTENDS Doctor

CONSTANTS Core, Addon

MCPaths == {"own", "doc", "ref", "addon"}
MCPackOf == [p \in MCPaths |-> IF p = "addon" THEN Addon ELSE Core]

MCShips ==
  [r \in {1, 2} |->
    [p \in MCPaths |->
      CASE r = 1                   -> "v1"
        [] r = 2 /\ p = "ref"      -> Absent
        [] OTHER                   -> "v2"]]

\* Release 2 drops the overridable document instead.
MCShipsWithoutDoc ==
  [r \in {1, 2} |->
    [p \in MCPaths |->
      CASE r = 1                   -> "v1"
        [] r = 2 /\ p = "doc"      -> Absent
        [] OTHER                   -> "v2"]]
=============================================================================
