-------------------------------- MODULE MCOutbox --------------------------------
(* Outbox for TLC; MCOutbox.cfg gives the workers and the bounds. *)
EXTENDS Outbox

================================================================================
