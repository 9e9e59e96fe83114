------------------------------ MODULE MCPublishing ------------------------------
(* Publishing for TLC; MCPublishing.cfg gives the entities and the bounds. *)
EXTENDS Publishing

================================================================================
