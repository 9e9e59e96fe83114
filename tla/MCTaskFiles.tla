------------------------------- MODULE MCTaskFiles -------------------------------
(* TaskFiles for TLC; MCTaskFiles.cfg gives the requests, names and keys. *)
EXTENDS TaskFiles

================================================================================
