---------------------------- MODULE MCFileWatcher ----------------------------
(* Small instances of FileWatcher: one or two identities, and a back-off   *)
(* that doubles once or twice before it reaches its limit.                 *)
EXTENDS FileWatcherProperties
=============================================================================
