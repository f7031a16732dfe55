------------------------- MODULE SubstituteRequests -------------------------
(***************************************************************************)
(* What a game promises about its substitute requests, without teams,      *)
(* slots, coaches or clocks (the abstract specification GameRoster is      *)
(* shown to implement; domain/enums.py SubstituteStatus and the flow of    *)
(* docs/product/substitute-use-case.md):                                   *)
(*                                                                         *)
(*   - a player has one open request at a time, and makes none once on     *)
(*     the roster;                                                         *)
(*   - a request ends once, for good, and a closed game ends none, except  *)
(*     that cancelling ends all that are open;                             *)
(*   - accepting a request puts the player on the roster in the same step. *)
(***************************************************************************)
CONSTANTS
  Players, Rows,
  Owner(_)       \* row -> the player it belongs to

VARIABLES
  request,       \* row -> "none", "enrolled", "offered" or how it ended
  rostered,      \* players with a roster row
  closed         \* the game takes no roster change

vars == <<request, rostered, closed>>

Open(r) == request[r] \in {"enrolled", "offered"}
Free(p) == p \notin rostered /\ \A r \in Rows : Owner(r) = p => ~Open(r)

Init ==
  /\ request = [r \in Rows |-> "none"]
  /\ rostered \in SUBSET Players /\ closed = FALSE

Become(r, status) == ~closed /\ request' = [request EXCEPT ![r] = status]

Enroll(r) ==
  /\ request[r] = "none" /\ Free(Owner(r)) /\ Become(r, "enrolled")
  /\ UNCHANGED <<rostered, closed>>
Offer(r) ==
  /\ request[r] = "enrolled" /\ Become(r, "offered")
  /\ UNCHANGED <<rostered, closed>>
\* An offer accepted, or the coach's override of either open state.
Accept(r) ==
  /\ Open(r) /\ Become(r, "accepted")
  /\ rostered' = rostered \cup {Owner(r)} /\ UNCHANGED closed
End(r) ==
  /\ \/ Open(r) /\ Become(r, "withdrawn")
     \/ request[r] = "offered" /\ (Become(r, "declined") \/ Become(r, "expired"))
  /\ UNCHANGED <<rostered, closed>>

\* The coach selects players, with or without open requests.
Select(P) == ~closed /\ rostered' = rostered \cup P /\ UNCHANGED <<request, closed>>

Close == closed' = TRUE /\ UNCHANGED <<request, rostered>>
OpenAgain == closed' = FALSE /\ UNCHANGED <<request, rostered>>
Cancel ==
  /\ closed' = TRUE /\ UNCHANGED rostered
  /\ request' = [r \in Rows |-> IF Open(r) THEN "cancelled" ELSE request[r]]

Next ==
  \/ \E r \in Rows : Enroll(r) \/ Offer(r) \/ Accept(r) \/ End(r)
  \/ \E P \in SUBSET Players : Select(P)
  \/ Close \/ OpenAgain \/ Cancel

Spec == Init /\ [][Next]_vars
=============================================================================
