--------------------------- MODULE MCPatchSettings ---------------------------
(* Small instances of PatchSettings: expirations below, at and above each  *)
(* limit, in a scale in which ten minutes are 2 and a day is 5.            *)
EXTENDS PatchSettingsProperties
=============================================================================
