---------------------------- MODULE AccountLifecycle ----------------------------
(***************************************************************************)
(* What the account services promise about users.status: an account is     *)
(* opened by an invitation, becomes active by its first e-mail link, can   *)
(* be barred and let in again by an administrator, and is erased only      *)
(* while a deletion its owner asked for stands.  Accounts implements it.   *)
(***************************************************************************)
VARIABLES status,     \* users.status
          grace       \* the grace of a standing deletion: none, running or over

vars == <<status, grace>>

Init == status = "none" /\ grace = "none"

Move(from, to) == status \in from /\ status' = to

Open     == Move({"none"}, "pending") /\ UNCHANGED grace
Verify   == Move({"pending"}, "active") /\ UNCHANGED grace
Bar      == Move({"active", "deleting"}, "suspended") /\ grace' = "none"
LetIn    == Move({"suspended"}, "active") /\ UNCHANGED grace
AskEnd   == Move({"active"}, "deleting") /\ grace' = "running"
Withdraw == Move({"deleting"}, "active") /\ grace' = "none"
GraceIsOver == grace = "running" /\ grace' = "over" /\ UNCHANGED status
Erase    == Move({"deleting"}, "deleted") /\ grace' = "none"

Next == Open \/ Verify \/ Bar \/ LetIn \/ AskEnd \/ Withdraw \/ GraceIsOver \/ Erase

Spec == Init /\ [][Next]_vars

================================================================================
