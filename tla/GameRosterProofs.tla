-------------------------- MODULE GameRosterProofs --------------------------
(***************************************************************************)
(* The roster's invariants, and that its requests keep the promise of      *)
(* SubstituteRequests, for any players, any target, any number of requests *)
(* and any clock.                                                          *)
(*                                                                         *)
(* RosterInv adds to the invariants of the runs the two facts that make    *)
(* them inductive: a player with an open request has never had one         *)
(* accepted, and a request that was made names a side.  Without the first  *)
(* the second of two requests could be accepted on top of the first, and   *)
(* the borrowed seat would name the wrong side.                            *)
(*                                                                         *)
(* Many handlers write the rows in few ways.  StepKinds reduces a step to  *)
(* the way it writes, and each conjunct is shown per way.                  *)
(***************************************************************************)
EXTENDS GameViews, FiniteSetTheorems, TLAPS

OpenNotAccepted == \A q, r \in Rows :
  Owner(q) = Owner(r) /\ request[q] \in OpenStates => request[r] # "accepted"

\* A used row names a side; a deadline comes with an offer.
RowsWritten == \A r \in Rows :
  /\ request[r] # "none" => target[r] \in Sides
  /\ request[r] \in {"none", "enrolled"} => due[r] = NoTime

RosterInv ==
  /\ TypeOK /\ OneOpenRequest /\ OpenNotAccepted /\ RowsWritten
  /\ CancelledHasNoOpenRequest /\ SubstituteSeatExplained /\ CrossOfferEndsByStart

SeatStates == Occupying \cup {"none", "unavailable", "removed"}

\* The ways a step writes.
Seats == \E P \in SUBSET Players, status \in Occupying :
  Mutable /\ (\A p \in P : Playing(p)) /\ Seat(P, status)
Attends == \E p \in Players, status \in SeatStates \ {"none"} :
  Mutable /\ seat[p] # "none" /\ SetSeat(p, status)
Settles == \E p \in Players, r \in Rows, status \in {"expired", "declined", "withdrawn"} :
  /\ Mutable /\ r \in OpenRows(p)
  /\ status \in {"expired", "declined"} => request[r] = "offered"
  /\ SetRequest(r, status)
Joins == \E p \in Players, r \in Rows :
  Mutable /\ r \in OpenRows(p) /\ SideFor(p, r) \in Sides \cup {NoTeam} /\ Join(p, r)
Enrolls == \E p \in Players, t \in Sides, who \in Staff \cup {Self} : Enroll(p, t, who)
Offers == \E p \in Players, who \in Staff, asked \in Nat \cup {NoTime} : Offer(p, who, asked)
Flags == \E f \in SUBSET {"locked", "cancelled", "archived"} :
  f \ flags \subseteq {"locked", "archived"} /\ SetFlags(f)
Elsewhere ==
  \/ \E p \in Players : Look(p)
  \/ \E p \in Players, t \in Teams \cup {NoTeam} : Move(p, t)
  \/ \E A \in SUBSET Players : SetActive(A)
  \/ Tick \/ UNCHANGED vars

\* The roster's own handlers seat a batch of players or set one row's status.
LEMMA SelectKinds ==
  ASSUME TypeOK, SeatStep PROVE Seats \/ Attends
<1>1. ASSUME NEW P \in SUBSET Players, NEW who \in Staff, Select(P, who) PROVE Seats
  <2>1. Unseated(P) \in SUBSET Players BY DEF Unseated
  <2>. QED BY <1>1, <2>1 DEF Select, Seats, Occupying, Unseated
<1>2. ASSUME NEW P \in SUBSET Players, NEW who \in Staff, NEW s \in Sides,
             CopyPrevious(P, s, who) \/ AutoBuild(P, s, who) PROVE Seats
  BY <1>2 DEF CopyPrevious, AutoBuild, Seats, Occupying, Seatable, Unseated, Playing
<1>3. ASSUME NEW p \in Players, NEW who \in Staff \cup {Self},
             Confirm(p, who) \/ Reconfirm(p, who) \/ BackOut(p, who) \/ Remove(p, who)
      PROVE Attends
  BY <1>3 DEF Confirm, Reconfirm, BackOut, Remove, Attends, SeatStates, Occupying
<1>. QED BY <1>1, <1>2, <1>3 DEF SeatStep

\* A handler of a request enrolls, offers, settles one, or seats its player.
LEMMA RequestKinds ==
  ASSUME TypeOK, RequestStep PROVE Settles \/ Joins \/ Enrolls \/ Offers \/ Elsewhere
<1>1. ASSUME NEW p \in Players, NEW who \in Staff \cup {Self},
             Accept(p, who) \/ Override(p, who) PROVE Joins
  <2>1. PICK r \in OpenRows(p) : /\ Mutable /\ Join(p, r)
                                 /\ IsCross(r) \/ Playing(p)
    BY <1>1 DEF Accept, Override, StaffMayUse
  <2>2. r \in Rows BY DEF OpenRows
  <2>3. SideFor(p, r) \in Sides \cup {NoTeam} BY <2>1, <2>2 DEF SideFor, Playing, TypeOK
  <2>. QED BY <2>1, <2>2, <2>3 DEF Joins
<1>2. ASSUME NEW p \in Players, NEW who \in Staff \cup {Self},
             \/ AcceptLate(p, who) \/ Decline(p, who) \/ Withdraw(p, who)
             \/ OverrideLate(p, who) PROVE Settles
  BY <1>2 DEF AcceptLate, Decline, Withdraw, OverrideLate, Settles, OpenRows
<1>3. ASSUME NEW p \in Players, NEW who \in Staff, NEW asked \in {NoTime, now + Window},
             Offer(p, who, asked) PROVE Offers
  <2>1. asked \in Nat \cup {NoTime} BY TimeAssumption DEF TypeOK
  <2>. QED BY <1>3, <2>1 DEF Offers
<1>. QED BY <1>1, <1>2, <1>3 DEF RequestStep, Enrolls, Elsewhere

\* Around them, the game's flags, its cancellation, members, the clock.
LEMMA WorldKinds ==
  ASSUME TypeOK, WorldStep PROVE Flags \/ CancelGame \/ Elsewhere
<1>1. ASSUME Lock \/ Unlock \/ Archive \/ Reopen PROVE Flags
  BY <1>1 DEF Lock, Unlock, Archive, Reopen, Flags, TypeOK
<1>2. ASSUME NEW p \in Players, Deactivate(p) \/ Reactivate(p) PROVE Elsewhere
  BY <1>2 DEF Deactivate, Reactivate, Elsewhere, TypeOK
<1>. QED BY <1>1, <1>2 DEF WorldStep, Elsewhere

\* Every step writes in one of these ways.
LEMMA StepKinds ==
  ASSUME TypeOK, [Next]_vars
  PROVE Seats \/ Attends \/ Settles \/ Joins \/ Enrolls \/ Offers \/ Flags \/ CancelGame \/ Elsewhere
BY SelectKinds, RequestKinds, WorldKinds DEF Next, Elsewhere

\* A new enrollment takes a row of its player that was never used.
LEMMA NextRowIsFresh ==
  ASSUME NEW p \in Players, NEW r \in NextRow(p)
  PROVE  r \in Rows /\ Owner(r) = p /\ request[r] = "none"
<1>1. PICK n \in 1..MaxRequests : r = <<p, n>> /\ request[<<p, n>>] = "none" BY DEF NextRow
<1>2. r \in Players \X (1..MaxRequests) /\ r[1] = p BY <1>1
<1>. QED BY <1>1, <1>2 DEF Rows, Owner

-----------------------------------------------------------------------------
(* One lemma per conjunct: each way of writing preserves it.               *)

\* The types are kept.
LEMMA TypeStep ==
  ASSUME TypeOK, [Next]_vars PROVE TypeOK'
<1>1. CASE Seats
  BY <1>1 DEF Seats, Seat, TypeOK, Playing, members, requests, Occupying
<1>2. CASE Attends
  BY <1>2 DEF Attends, SetSeat, TypeOK, members, requests, SeatStates
<1>3. CASE Settles
  BY <1>3 DEF Settles, SetRequest, TypeOK, members, entries, Settled
<1>4. CASE Joins
  BY <1>4 DEF Joins, Join, TypeOK, members, Settled, Occupying
<1>5. CASE Enrolls
  <2>1. PICK p \in Players, t \in Sides, who \in Staff \cup {Self} : Enroll(p, t, who)
    BY <1>5 DEF Enrolls
  <2>2. ~Playing(p) => team[p] = Third BY <2>1 DEF Enroll, MayEnroll
  <2>3. PICK r \in NextRow(p) :
          /\ request' = [request EXCEPT ![r] = "enrolled"]
          /\ target' = [target EXCEPT ![r] = t]
          /\ source' = [source EXCEPT ![r] = IF Playing(p) THEN NoTeam ELSE team[p]]
          /\ UNCHANGED <<members, entries, due, tab, flags, now>>
    BY <2>1 DEF Enroll
  <2>. QED BY <2>2, <2>3, NextRowIsFresh DEF TypeOK, members, entries, OpenStates
<1>6. CASE Offers
  <2>1. PICK p \in Players, who \in Staff, asked \in Nat \cup {NoTime} : Offer(p, who, asked)
    BY <1>6 DEF Offers
  <2>2. PICK r \in OpenRows(p) :
          /\ IsCross(r) \/ Playing(p)
          /\ request' = [request EXCEPT ![r] = "offered"]
          /\ target' = [target EXCEPT ![r] = SideFor(p, r)]
          /\ due' = [due EXCEPT ![r] = OfferDue(r, asked)]
          /\ UNCHANGED <<members, entries, source, tab, flags, now>>
    BY <2>1 DEF Offer, StaffMayUse
  <2>3. r \in Rows BY DEF OpenRows
  <2>4. SideFor(p, r) \in Sides \cup {NoTeam} BY <2>2, <2>3 DEF SideFor, Playing, TypeOK
  <2>5. OfferDue(r, asked) \in Nat \cup {NoTime}
    BY TimeAssumption DEF OfferDue, Earlier, TypeOK
  <2>. QED BY <2>2, <2>3, <2>4, <2>5 DEF TypeOK, members, entries, OpenStates
<1>7. CASE Flags
  BY <1>7 DEF Flags, SetFlags, TypeOK, members, entries, requests
<1>8. CASE CancelGame
  BY <1>8 DEF CancelGame, TypeOK, members, entries, Settled, OpenStates
<1>9. CASE Elsewhere
  <2>1. CASE \E p \in Players : Look(p)
    BY <2>1 DEF Look, OpenRows, TypeOK, members, entries, requests
  <2>2. CASE Tick
    BY <2>2 DEF Tick, TypeOK, members, entries, requests
  <2>3. CASE \E p \in Players, t \in Teams \cup {NoTeam} : Move(p, t)
    BY <2>3 DEF Move, TypeOK, entries, requests
  <2>4. CASE \E A \in SUBSET Players : SetActive(A)
    BY <2>4 DEF SetActive, TypeOK, entries, requests
  <2>5. CASE UNCHANGED vars
    BY <2>5 DEF TypeOK, members, entries, requests, vars
  <2>. QED BY <1>9, <2>1, <2>2, <2>3, <2>4, <2>5 DEF Elsewhere
<1>. QED BY <1>1, <1>2, <1>3, <1>4, <1>5, <1>6, <1>7, <1>8, <1>9, StepKinds

\* Which rows may be open, and which accepted, after a step.
LEMMA RowsStep ==
  ASSUME RosterInv, [Next]_vars
  PROVE  OneOpenRequest' /\ OpenNotAccepted' /\ CancelledHasNoOpenRequest'
<1>. USE DEF RosterInv, OneOpenRequest, OpenNotAccepted, CancelledHasNoOpenRequest, OpenRows,
             OpenStates, TypeOK
<1>1. CASE Seats
  BY <1>1 DEF Seats, Seat, requests
<1>2. CASE Attends
  BY <1>2 DEF Attends, SetSeat, requests
<1>3. CASE Settles
  BY <1>3 DEF Settles, SetRequest
<1>4. CASE Joins
  BY <1>4 DEF Joins, Join
<1>5. CASE Enrolls
  <2>0. PICK p \in Players : \E t \in Sides, who \in Staff \cup {Self} : Enroll(p, t, who)
    BY <1>5 DEF Enrolls
  <2>1. PICK r \in NextRow(p) :
          /\ Mutable /\ seat[p] = "none" /\ OpenRows(p) = {}
          /\ request' = [request EXCEPT ![r] = "enrolled"] /\ UNCHANGED flags
    BY <2>0 DEF Enroll
  <2>2. r \in Rows /\ Owner(r) = p BY NextRowIsFresh
  <2>3. AcceptedRows(p) = {} BY <2>1 DEF SubstituteSeatExplained
  <2>. QED BY <2>1, <2>2, <2>3 DEF AcceptedRows, Mutable
<1>6. CASE Offers
  BY <1>6 DEF Offers, Offer
<1>7. CASE Flags
  BY <1>7 DEF Flags, SetFlags, requests
<1>8. CASE CancelGame
  BY <1>8 DEF CancelGame
<1>9. CASE Elsewhere
  BY <1>9 DEF Elsewhere, Look, Move, SetActive, Tick, requests, vars
<1>. QED BY <1>1, <1>2, <1>3, <1>4, <1>5, <1>6, <1>7, <1>8, <1>9, StepKinds

\* Seats stay explained while they, and the accepted requests, stay as they are.
LEMMA SeatsStayExplained ==
  ASSUME SubstituteSeatExplained, UNCHANGED <<entries, source>>,
         \A q \in Rows : /\ request'[q] = "accepted" <=> request[q] = "accepted"
                         /\ request[q] = "accepted" => target'[q] = target[q]
  PROVE  SubstituteSeatExplained'
<1>1. SUFFICES ASSUME NEW p \in Players
      PROVE  /\ role'[p] = "substitute" =>
                  \E q \in AcceptedRows(p)' : source'[q] # NoTeam => side'[p] = target'[q]
             /\ \A q, r \in AcceptedRows(p)' : q = r
             /\ AcceptedRows(p)' # {} => seat'[p] # "none"
  BY DEF SubstituteSeatExplained, IsCross
<1>2. AcceptedRows(p)' = AcceptedRows(p) BY DEF AcceptedRows
<1>3. \A q \in AcceptedRows(p) : target'[q] = target[q] BY DEF AcceptedRows
<1>. QED BY <1>2, <1>3 DEF SubstituteSeatExplained, IsCross, entries

\* Who holds a seat as a substitute, and why.
LEMMA SeatExplainedStep ==
  ASSUME RosterInv, [Next]_vars PROVE SubstituteSeatExplained'
<1>. USE DEF RosterInv, SubstituteSeatExplained, AcceptedRows, TypeOK, IsCross
<1>1. CASE Seats
  BY <1>1 DEF Seats, Seat, requests, Occupying
<1>2. CASE Attends
  BY <1>2 DEF Attends, SetSeat, requests
<1>3. CASE Settles
  BY <1>3 DEF Settles, SetRequest, entries, OpenRows, OpenStates
<1>4. CASE Joins
  BY <1>4 DEF Joins, Join, OpenNotAccepted, OpenRows, SideFor
<1>5. CASE Enrolls
  <2>0. PICK p \in Players : \E t \in Sides, who \in Staff \cup {Self} : Enroll(p, t, who)
    BY <1>5 DEF Enrolls
  <2>1. PICK r \in NextRow(p) :
          /\ request' = [request EXCEPT ![r] = "enrolled"]
          /\ \E t \in Sides : target' = [target EXCEPT ![r] = t]
          /\ \E x : source' = [source EXCEPT ![r] = x]
          /\ UNCHANGED entries
    BY <2>0 DEF Enroll
  <2>2. r \in Rows /\ request[r] = "none" BY NextRowIsFresh
  <2>. QED BY <2>1, <2>2 DEF entries
<1>6. CASE Offers
  <2>0. PICK p \in Players, who \in Staff, asked \in Nat \cup {NoTime} : Offer(p, who, asked)
    BY <1>6 DEF Offers
  <2>1. PICK r \in OpenRows(p) :
          /\ request' = [request EXCEPT ![r] = "offered"]
          /\ target' = [target EXCEPT ![r] = SideFor(p, r)]
          /\ UNCHANGED <<entries, source>>
    BY <2>0 DEF Offer
  <2>2. r \in Rows /\ request[r] # "accepted" BY DEF OpenRows, OpenStates
  <2>. QED BY <2>1, <2>2, SeatsStayExplained
<1>7. CASE Flags
  BY <1>7 DEF Flags, SetFlags, entries, requests
<1>8. CASE CancelGame
  BY <1>8, SeatsStayExplained DEF CancelGame, OpenStates
<1>9. CASE Elsewhere
  BY <1>9 DEF Elsewhere, Look, Move, SetActive, Tick, entries, requests, vars
<1>. QED BY <1>1, <1>2, <1>3, <1>4, <1>5, <1>6, <1>7, <1>8, <1>9, StepKinds

\* An offer across teams gets its end when it is made and keeps it.
LEMMA CrossOfferStep ==
  ASSUME RosterInv, [Next]_vars PROVE CrossOfferEndsByStart'
<1>. USE DEF RosterInv, CrossOfferEndsByStart, TypeOK, IsCross
<1>1. CASE Seats \/ Attends
  BY <1>1 DEF Seats, Seat, Attends, SetSeat, requests
<1>2. CASE Settles
  BY <1>2 DEF Settles, SetRequest
<1>3. CASE Joins
  BY <1>3 DEF Joins, Join
<1>4. CASE Enrolls
  BY <1>4 DEF Enrolls, Enroll
<1>5. CASE Offers
  <2>0. PICK p \in Players, who \in Staff, asked \in Nat \cup {NoTime} : Offer(p, who, asked)
    BY <1>5 DEF Offers
  <2>1. PICK r \in OpenRows(p) :
          /\ request' = [request EXCEPT ![r] = "offered"]
          /\ due' = [due EXCEPT ![r] = OfferDue(r, asked)]
          /\ UNCHANGED source
    BY <2>0 DEF Offer
  <2>2. IsCross(r) => OfferDue(r, asked) \in Nat /\ OfferDue(r, asked) <= Start
    BY TimeAssumption DEF OfferDue, Earlier
  <2>3. r \in Rows BY DEF OpenRows
  <2>. QED BY <2>1, <2>2, <2>3, TimeAssumption
<1>6. CASE Flags
  BY <1>6 DEF Flags, SetFlags, requests
<1>7. CASE CancelGame
  BY <1>7 DEF CancelGame
<1>8. CASE Elsewhere
  BY <1>8 DEF Elsewhere, Look, Move, SetActive, Tick, requests, vars
<1>. QED BY <1>1, <1>2, <1>3, <1>4, <1>5, <1>6, <1>7, <1>8, StepKinds

\* What a row says of its side and its deadline.
LEMMA RowsWrittenStep ==
  ASSUME RosterInv, [Next]_vars PROVE RowsWritten'
<1>. USE DEF RosterInv, RowsWritten, TypeOK
<1>1. CASE Seats \/ Attends
  BY <1>1 DEF Seats, Seat, Attends, SetSeat, requests
<1>2. CASE Settles
  BY <1>2 DEF Settles, SetRequest, OpenRows, OpenStates
<1>3. CASE Joins
  BY <1>3 DEF Joins, Join, OpenRows, OpenStates
<1>4. CASE Enrolls
  <2>0. PICK p \in Players, t \in Sides, who \in Staff \cup {Self} : Enroll(p, t, who)
    BY <1>4 DEF Enrolls
  <2>1. PICK r \in NextRow(p) :
          /\ request' = [request EXCEPT ![r] = "enrolled"]
          /\ target' = [target EXCEPT ![r] = t] /\ UNCHANGED due
    BY <2>0 DEF Enroll
  <2>. QED BY <2>1, NextRowIsFresh
<1>5. CASE Offers
  <2>0. PICK p \in Players, who \in Staff, asked \in Nat \cup {NoTime} : Offer(p, who, asked)
    BY <1>5 DEF Offers
  <2>1. PICK r \in OpenRows(p) :
          /\ IsCross(r) \/ Playing(p)
          /\ request' = [request EXCEPT ![r] = "offered"]
          /\ target' = [target EXCEPT ![r] = SideFor(p, r)]
          /\ due' = [due EXCEPT ![r] = OfferDue(r, asked)]
    BY <2>0 DEF Offer, StaffMayUse
  <2>2. r \in Rows /\ request[r] # "none" BY DEF OpenRows, OpenStates
  <2>3. SideFor(p, r) \in Sides BY <2>1, <2>2 DEF SideFor, Playing
  <2>. QED BY <2>1, <2>2, <2>3
<1>6. CASE Flags
  BY <1>6 DEF Flags, SetFlags, requests
<1>7. CASE CancelGame
  BY <1>7 DEF CancelGame, OpenStates
<1>8. CASE Elsewhere
  BY <1>8 DEF Elsewhere, Look, Move, SetActive, Tick, requests, vars
<1>. QED BY <1>1, <1>2, <1>3, <1>4, <1>5, <1>6, <1>7, <1>8, StepKinds

-----------------------------------------------------------------------------
\* A new game's rows: none, but for the seats of Legacy.
LEMMA RosterInit == Init => RosterInv
BY BoundsAssumption, NamesAssumption
   DEF Init, RosterInv, TypeOK, OneOpenRequest, OpenNotAccepted, CancelledHasNoOpenRequest,
       SubstituteSeatExplained, CrossOfferEndsByStart, RowsWritten, OpenRows, AcceptedRows, OpenStates,
       Occupying, IsCross

\* RosterInv holds in every reachable state: one live candidacy per player,
\* none in a cancelled game, substitutes' seats explained by their requests,
\* cross-team offers over by the start of the game.
THEOREM RosterInvariant == Spec => []RosterInv
<1>1. RosterInv /\ [Next]_vars => RosterInv'
  BY TypeStep, RowsStep, RowsWrittenStep, SeatExplainedStep, CrossOfferStep DEF RosterInv
<1>. QED BY RosterInit, <1>1, PTL DEF Spec

\* Every conjunct the handlers rely on, together.
THEOREM RosterIsSound == Spec => []RosterSound
<1>1. RosterInv => RosterSound
  BY DEF RosterInv, RosterSound
<1>. QED BY <1>1, RosterInvariant, PTL

\* The variables keep their types.
THEOREM RosterTypeOK == Spec => []TypeOK
BY RosterInvariant, PTL DEF RosterInv

\* Two live candidacies of one player never exist: the conflict
\* _active_substitute_for_player raises on is unreachable.
THEOREM RosterOneOpenRequest == Spec => []OneOpenRequest
BY RosterInvariant, PTL DEF RosterInv

\* A cancelled game has no live candidacy.
THEOREM RosterCancelled == Spec => []CancelledHasNoOpenRequest
BY RosterInvariant, PTL DEF RosterInv

\* A substitute's seat is explained by exactly one accepted request.
THEOREM RosterSeatExplained == Spec => []SubstituteSeatExplained
BY RosterInvariant, PTL DEF RosterInv

\* A cross-team offer is over when the game starts.
THEOREM RosterCrossOfferEnds == Spec => []CrossOfferEndsByStart
BY RosterInvariant, PTL DEF RosterInv

\* A closed game keeps its roster and requests; only cancelling ends requests.
THEOREM RosterFrozen == Spec => ClosedRosterFrozen
<1>. DEFINE Frozen == flags # {} =>
       /\ UNCHANGED <<entries, target, source, due>>
       /\ \A r \in Rows : request'[r] \in {request[r], "cancelled"}
       /\ "cancelled" \notin flags' \ flags => UNCHANGED request
<1>1. ASSUME TypeOK, [Next]_vars PROVE Frozen
  <2>1. CASE Seats \/ Attends \/ Settles \/ Joins
    BY <2>1 DEF Seats, Attends, Settles, Joins, Mutable
  <2>2. CASE Enrolls \/ Offers
    BY <2>2 DEF Enrolls, Enroll, Offers, Offer, Mutable
  <2>3. CASE Flags
    BY <2>3 DEF Flags, SetFlags, requests
  <2>4. CASE CancelGame
    BY <2>4 DEF CancelGame, TypeOK
  <2>5. CASE Elsewhere
    BY <2>5 DEF Elsewhere, Look, Move, SetActive, Tick, entries, requests, vars
  <2>. QED BY <1>1, <2>1, <2>2, <2>3, <2>4, <2>5, StepKinds
<1>2. [][Frozen]_vars <=> ClosedRosterFrozen BY DEF ClosedRosterFrozen
<1>. QED BY <1>1, <1>2, RosterTypeOK, PTL DEF Spec

-----------------------------------------------------------------------------
(* Who comes to a seat, and when.                                          *)

\* The steps that leave every roster row alone.
LEMMA EntriesStay ==
  ASSUME [Next]_vars, ~SeatStep,
         ~\E p \in Players, who \in Staff \cup {Self} : Accept(p, who) \/ (who \in Staff /\ Override(p, who))
  PROVE  UNCHANGED entries
<1>1. CASE UNCHANGED vars BY <1>1 DEF vars
<1>2. CASE RequestStep
  <2>1. ASSUME NEW p \in Players, NEW who \in Staff \cup {Self}, NEW t \in Sides, Enroll(p, t, who)
        PROVE  UNCHANGED entries
    BY <2>1 DEF Enroll
  <2>2. ASSUME NEW p \in Players, NEW who \in Staff \cup {Self},
               AcceptLate(p, who) \/ Decline(p, who) \/ Withdraw(p, who) \/ OverrideLate(p, who)
        PROVE  UNCHANGED entries
    BY <2>2 DEF AcceptLate, Decline, Withdraw, OverrideLate, SetRequest
  <2>3. ASSUME NEW p \in Players, NEW who \in Staff, NEW asked, Offer(p, who, asked) PROVE UNCHANGED entries
    BY <2>3 DEF Offer
  <2>4. ASSUME NEW p \in Players, Look(p) PROVE UNCHANGED entries BY <2>4 DEF Look
  <2>. QED BY <1>2, <2>1, <2>2, <2>3, <2>4 DEF RequestStep
<1>3. CASE WorldStep
  BY <1>3 DEF WorldStep, Lock, Unlock, Archive, Reopen, SetFlags, CancelGame, Tick, Deactivate, Reactivate,
              SetActive, Move
<1>. QED BY <1>1, <1>2, <1>3 DEF Next

\* An answer, or a coach's override, seats its player on the side of the request,
\* where there is room for him.
LEMMA JoinSeats ==
  ASSUME RosterInv, NEW p \in Players, NEW who \in Staff \cup {Self},
         Accept(p, who) \/ (who \in Staff /\ Override(p, who))
  PROVE  \E r \in OpenRows(p) :
           /\ Join(p, r) /\ p \in active /\ SideFor(p, r) \in Sides /\ HasRoom(SideFor(p, r))
           /\ IsCross(r) => ~CrossLate(r)
           /\ Accept(p, who) => MayAnswer(p, r, who, team[p]) /\ target[r] \in Sides
<1>1. CASE Accept(p, who)
  <2>1. PICK r \in OpenRows(p) :
          /\ MayAnswer(p, r, who, team[p]) /\ Join(p, r) /\ HasRoom(SideFor(p, r))
          /\ IF IsCross(r) THEN ~CrossLate(r) /\ p \in active /\ CrossHolds(p, r)
             ELSE now <= Start /\ ~SameLate(r) /\ p \in active /\ Playing(p)
    BY <1>1 DEF Accept
  <2>2. r \in Rows /\ request[r] # "none" BY DEF OpenRows, OpenStates
  <2>3. target[r] \in Sides BY <2>2 DEF RosterInv, RowsWritten
  <2>. QED BY <2>1, <2>3 DEF SideFor, Playing
<1>2. CASE ~Accept(p, who) /\ who \in Staff /\ Override(p, who)
  <2>1. PICK r \in OpenRows(p) :
          /\ StaffMayUse(p, r, who) /\ Join(p, r)
          /\ ~(IsCross(r) /\ request[r] = "offered" /\ CrossLate(r))
    BY <1>2 DEF Override
  <2>2. r \in Rows /\ request[r] \in {"enrolled", "offered"} BY DEF OpenRows, OpenStates
  <2>3. target[r] \in Sides /\ (request[r] = "enrolled" => due[r] = NoTime)
    BY <2>2 DEF RosterInv, RowsWritten
  <2>4. IsCross(r) => ~CrossLate(r)
    <3> SUFFICES ASSUME IsCross(r), CrossLate(r), request[r] = "enrolled" PROVE FALSE BY <2>1, <2>2
    <3>1. now < Start /\ due[r] = NoTime BY <2>1, <2>3 DEF StaffMayUse
    <3>2. now \in Nat BY DEF RosterInv, TypeOK
    <3>. QED BY <3>1, <3>2, TimeAssumption DEF CrossLate
  <2>. QED BY <1>2, <2>1, <2>3, <2>4 DEF StaffMayUse, SideFor, Playing
<1>. QED BY <1>1, <1>2

\* The roster's own handlers, per player's row.
LEMMA SeatRows ==
  ASSUME TypeOK, SeatStep, NEW p \in Players
  PROVE  /\ UNCHANGED requests
         /\ \/ seat'[p] = seat[p] /\ side'[p] = side[p]
            \/ /\ seat[p] \notin Occupying /\ p \in active /\ team[p] \in Sides /\ side'[p] = team[p]
               /\ \/ seat'[p] = "selected"
                  \/ \E P \in SUBSET Players, s \in Sides, who \in Staff :
                       seat'[p] = "confirmed" /\ p \in P /\ AutoBuild(P, s, who)
            \/ seat'[p] \in {"unavailable", "removed"} /\ side'[p] = side[p]
            \/ /\ seat[p] \in {"selected", "accepted"} /\ seat'[p] = "confirmed" /\ side'[p] = side[p] /\ MayHold(p)
            \/ /\ seat[p] = "unavailable" /\ seat'[p] = "confirmed" /\ side'[p] = side[p] /\ MayHold(p)
               /\ HasRoom(side[p]) /\ \A q \in Players \ {p} : seat'[q] = seat[q] /\ side'[q] = side[q]
<1>. USE DEF TypeOK
<1>1. ASSUME NEW P \in SUBSET Players, NEW who \in Staff, Select(P, who)
      PROVE  /\ UNCHANGED requests
             /\ \/ seat'[p] = seat[p] /\ side'[p] = side[p]
                \/ /\ seat[p] \notin Occupying /\ p \in active /\ team[p] \in Sides /\ side'[p] = team[p]
                   /\ seat'[p] = "selected"
  BY <1>1 DEF Select, Seat, Unseated, Playing
<1>2. ASSUME NEW P \in SUBSET Players, NEW who \in Staff, NEW s \in Sides, CopyPrevious(P, s, who)
      PROVE  /\ UNCHANGED requests
             /\ \/ seat'[p] = seat[p] /\ side'[p] = side[p]
                \/ /\ seat[p] \notin Occupying /\ p \in active /\ team[p] \in Sides /\ side'[p] = team[p]
                   /\ seat'[p] = "selected"
  BY <1>2 DEF CopyPrevious, Seat, Seatable, Unseated
<1>3. ASSUME NEW P \in SUBSET Players, NEW who \in Staff, NEW s \in Sides, AutoBuild(P, s, who)
      PROVE  /\ UNCHANGED requests
             /\ \/ seat'[p] = seat[p] /\ side'[p] = side[p]
                \/ /\ seat[p] \notin Occupying /\ p \in active /\ team[p] \in Sides /\ side'[p] = team[p]
                   /\ seat'[p] = "confirmed" /\ p \in P
  BY <1>3 DEF AutoBuild, Seat, Seatable, Unseated
<1>4. ASSUME NEW q \in Players, NEW who \in Staff \cup {Self}, BackOut(q, who) \/ Remove(q, who)
      PROVE  /\ UNCHANGED requests
             /\ \/ seat'[p] = seat[p] /\ side'[p] = side[p]
                \/ seat'[p] \in {"unavailable", "removed"} /\ side'[p] = side[p]
  BY <1>4 DEF BackOut, Remove, SetSeat
<1>5. ASSUME NEW q \in Players, NEW who \in Staff \cup {Self}, Confirm(q, who)
      PROVE  /\ UNCHANGED requests
             /\ \/ seat'[p] = seat[p] /\ side'[p] = side[p]
                \/ seat[p] \in {"selected", "accepted"} /\ seat'[p] = "confirmed" /\ side'[p] = side[p] /\ MayHold(p)
  BY <1>5 DEF Confirm, SetSeat
<1>6. ASSUME NEW q \in Players, NEW who \in Staff \cup {Self}, Reconfirm(q, who)
      PROVE  /\ UNCHANGED requests
             /\ \/ seat'[p] = seat[p] /\ side'[p] = side[p]
                \/ /\ seat[p] = "unavailable" /\ seat'[p] = "confirmed" /\ side'[p] = side[p] /\ MayHold(p)
                   /\ HasRoom(side[p]) /\ \A o \in Players \ {p} : seat'[o] = seat[o] /\ side'[o] = side[o]
  BY <1>6 DEF Reconfirm, SetSeat
<1>. QED BY <1>1, <1>2, <1>3, <1>4, <1>5, <1>6 DEF SeatStep

\* The steps that touch a request leave its side to be answered in time.
LEMMA RequestRows ==
  ASSUME RosterInv, [Next]_vars, NEW r \in Rows, request'[r] \in {"accepted", "offered"}, request'[r] # request[r]
  PROVE  IsCross(r) => ~CrossLate(r)
<1>. USE DEF RosterInv, TypeOK
<1>1. ASSUME NEW p \in Players, NEW who \in Staff \cup {Self}, Accept(p, who) \/ (who \in Staff /\ Override(p, who))
      PROVE  IsCross(r) => ~CrossLate(r)
  <2>1. PICK x \in OpenRows(p) : Join(p, x) /\ (IsCross(x) => ~CrossLate(x)) BY <1>1, JoinSeats
  <2>2. x = r BY <2>1 DEF Join
  <2>. QED BY <2>1, <2>2
<1>2. ASSUME NEW p \in Players, NEW who \in Staff, NEW asked, Offer(p, who, asked)
      PROVE  IsCross(r) => ~CrossLate(r)
  <2>1. PICK x \in OpenRows(p) :
          /\ request[x] = "enrolled" /\ StaffMayUse(p, x, who) /\ request' = [request EXCEPT ![x] = "offered"]
    BY <1>2 DEF Offer
  <2>2. x = r BY <2>1
  <2>3. due[r] = NoTime BY <2>1, <2>2 DEF RowsWritten
  <2>4. IsCross(r) => now < Start BY <2>1, <2>2 DEF StaffMayUse
  <2>. QED BY <2>3, <2>4, TimeAssumption DEF CrossLate
<1>3. CASE RequestStep
  <2>1. ASSUME NEW p \in Players, NEW who \in Staff \cup {Self}, NEW t \in Sides, Enroll(p, t, who) PROVE FALSE
    BY <2>1 DEF Enroll
  <2>2. ASSUME NEW p \in Players, NEW who \in Staff \cup {Self},
               AcceptLate(p, who) \/ Decline(p, who) \/ Withdraw(p, who) \/ OverrideLate(p, who)
        PROVE  FALSE
    BY <2>2 DEF AcceptLate, Decline, Withdraw, OverrideLate, SetRequest
  <2>3. ASSUME NEW p \in Players, Look(p) PROVE FALSE BY <2>3 DEF Look, requests
  <2>. QED BY <1>1, <1>2, <1>3, <2>1, <2>2, <2>3 DEF RequestStep
<1>4. ~SeatStep BY SeatRows DEF requests, Rows
<1>5. ~WorldStep
  BY DEF WorldStep, Lock, Unlock, Archive, Reopen, SetFlags, CancelGame, Tick, Deactivate, Reactivate,
         SetActive, Move, requests
<1>6. ~UNCHANGED vars BY DEF vars, requests
<1>. QED BY <1>3, <1>4, <1>5, <1>6 DEF Next

\* A player comes to a seat only where, when and as he is entitled to it: the
\* confirmed are of the side or borrowed in time, nobody joins on a request that
\* is over, an answer seats where the page said, and deactivation stops it all.
THEOREM RosterSeating == Spec => SeatingSound
<1>. DEFINE Entitled == \A p \in Players : seat'[p] = "confirmed" /\ seat[p] # "confirmed" =>
              \/ side'[p] \in Sides /\ side'[p] = team[p]
              \/ /\ now < Start
                 /\ \E r \in AcceptedRows(p) : target[r] = side'[p] /\ source[r] = team[p]
            InTime == \A r \in Rows : IsCross(r) /\ CrossLate(r) /\ request'[r] # request[r] =>
              request'[r] \notin {"accepted", "offered"}
            Shown == \A p \in Players : Accept(p, Self) =>
              side'[p] = IF tab[p] = NoTeam THEN team[p] ELSE tab[p]
            Active == \A p \in Players : seat[p] \in {"none", "removed"} /\ seat'[p] \in Occupying => p \in active
<1>1. ASSUME RosterInv, [Next]_vars PROVE Entitled
  <2> SUFFICES ASSUME NEW p \in Players, seat'[p] = "confirmed", seat[p] # "confirmed"
               PROVE  \/ side'[p] \in Sides /\ side'[p] = team[p]
                      \/ now < Start /\ \E r \in AcceptedRows(p) : target[r] = side'[p] /\ source[r] = team[p]
    OBVIOUS
  <2>1. SeatStep
    <3>1. ASSUME NEW q \in Players, NEW who \in Staff \cup {Self}, Accept(q, who) \/ (who \in Staff /\ Override(q, who))
          PROVE  FALSE
      BY <1>1, <3>1, JoinSeats DEF Join, RosterInv, TypeOK
    <3>. QED BY <1>1, <3>1, EntriesStay DEF entries
  <2>2. \/ side'[p] = team[p] /\ team[p] \in Sides
        \/ side'[p] = side[p] /\ MayHold(p)
    BY <1>1, <2>1, SeatRows DEF RosterInv
  <2>3. side[p] \in Sides \cup {NoTeam} BY <1>1 DEF RosterInv, TypeOK
  <2>4. ASSUME side'[p] = side[p], side[p] # NoTeam, Borrowed(p), now < Start,
               \A r \in AcceptedRows(p) : IsCross(r) => CrossHolds(p, r)
        PROVE  \E r \in AcceptedRows(p) : target[r] = side'[p] /\ source[r] = team[p]
    <3>1. PICK r \in AcceptedRows(p) : {q \in AcceptedRows(p) : IsCross(q)} = {r} /\ target[r] = side[p]
      BY <2>4 DEF Borrowed
    <3>2. IsCross(r) BY <3>1
    <3>. QED BY <2>4, <3>1, <3>2 DEF CrossHolds
  <2>. QED BY <2>2, <2>3, <2>4 DEF MayHold
<1>2. ASSUME RosterInv, [Next]_vars PROVE InTime BY <1>2, RequestRows
<1>3. ASSUME RosterInv PROVE Shown
  <2> SUFFICES ASSUME NEW p \in Players, Accept(p, Self)
               PROVE  side'[p] = IF tab[p] = NoTeam THEN team[p] ELSE tab[p]
    OBVIOUS
  <2>1. PICK r \in OpenRows(p) : Join(p, r) /\ MayAnswer(p, r, Self, team[p]) /\ target[r] \in Sides
    BY <1>3, JoinSeats
  <2>2. side'[p] = SideFor(p, r) BY <1>3, <2>1 DEF Join, RosterInv, TypeOK
  <2>. QED BY <2>1, <2>2, NamesAssumption DEF MayAnswer, SameChoice, SideFor, Teams
<1>4. ASSUME RosterInv, [Next]_vars PROVE Active
  <2> SUFFICES ASSUME NEW p \in Players, seat[p] \in {"none", "removed"}, seat'[p] \in Occupying PROVE p \in active
    OBVIOUS
  <2>1. CASE SeatStep BY <1>4, <2>1, SeatRows DEF RosterInv, Occupying
  <2>2. ASSUME NEW q \in Players, NEW who \in Staff \cup {Self}, Accept(q, who) \/ (who \in Staff /\ Override(q, who))
        PROVE  p \in active
    BY <1>4, <2>2, JoinSeats DEF Join, RosterInv, TypeOK, Occupying
  <2>. QED BY <1>4, <2>1, <2>2, EntriesStay DEF entries, Occupying
<1>5. [][Entitled]_vars <=> ConfirmedWhereEntitled BY DEF ConfirmedWhereEntitled
<1>6. [][InTime]_vars <=> LateCrossRequestJoinsNobody BY DEF LateCrossRequestJoinsNobody
<1>7. [][Shown]_vars <=> AnsweredAsShown BY DEF AnsweredAsShown
<1>8. [][Active]_vars <=> InactiveNotNewlySeated BY DEF InactiveNotNewlySeated
<1>. QED BY <1>1, <1>2, <1>3, <1>4, <1>5, <1>6, <1>7, <1>8, RosterInvariant, PTL DEF Spec, SeatingSound

\* Players that are seated on s after the step.
After(s) == {p \in Players : seat'[p] \in Occupying /\ side'[p] \in {s, NoTeam}}

LEMMA OccupantsFinite ==
  ASSUME NEW s
  PROVE  IsFiniteSet(Occupants(s)) /\ Cardinality(Occupants(s)) \in Nat
<1>1. Occupants(s) \subseteq Players BY DEF Occupants
<1>. QED BY <1>1, BoundsAssumption, FS_Subset, FS_CardinalityType

\* One more than leaves room is no more than the target.
LEMMA OneFits ==
  ASSUME NEW s, HasRoom(s), NEW p, After(s) \subseteq Occupants(s) \cup {p}
  PROVE  Cardinality(After(s)) <= Target
<1>1. /\ IsFiniteSet(Occupants(s) \cup {p})
      /\ Cardinality(Occupants(s) \cup {p}) <= Cardinality(Occupants(s)) + 1
      /\ Cardinality(Occupants(s) \cup {p}) \in Nat
  <2>1. IsFiniteSet(Occupants(s)) /\ Cardinality(Occupants(s)) \in Nat BY OccupantsFinite
  <2>2. /\ IsFiniteSet(Occupants(s) \cup {p})
        /\ Cardinality(Occupants(s) \cup {p}) =
             IF p \in Occupants(s) THEN Cardinality(Occupants(s)) ELSE Cardinality(Occupants(s)) + 1
    BY <2>1, FS_AddElement
  <2>. QED BY <2>1, <2>2
<1>2. Cardinality(After(s)) \in Nat /\ Cardinality(After(s)) <= Cardinality(Occupants(s) \cup {p})
  BY <1>1, FS_Subset, FS_CardinalityType
<1>3. Cardinality(Occupants(s)) \in Nat BY OccupantsFinite
<1>. QED BY <1>1, <1>2, <1>3, BoundsAssumption DEF HasRoom

\* An auto-build fills the room there is, on its own side.
LEMMA BuildFits ==
  ASSUME TypeOK, NEW P \in SUBSET Players, NEW t \in Sides, NEW who, AutoBuild(P, t, who),
         NEW s \in Sides, NEW p \in After(s) \ Occupants(s)
  PROVE  Cardinality(After(s)) <= Target
<1>1. /\ P \subseteq Seatable(t) /\ Cardinality(P) <= Room(t) /\ Seat(P, "confirmed") BY DEF AutoBuild
<1>2. \A q \in Players : q \in P => seat[q] \notin Occupying /\ team[q] = t BY <1>1 DEF Seatable, Unseated
<1>3. \A q \in Players : IF q \in P THEN seat'[q] = "confirmed" /\ side'[q] = t
                                    ELSE seat'[q] = seat[q] /\ side'[q] = side[q]
  BY <1>1, <1>2 DEF Seat
<1>4. t \in Sides /\ t # NoTeam BY NamesAssumption DEF Teams
<1>5. t = s /\ p \in P BY <1>3, <1>4 DEF After, Occupants
<1>6. After(s) \subseteq Occupants(s) \cup P BY <1>3 DEF After, Occupants
<1>7. IsFiniteSet(P) /\ Cardinality(P) \in Nat /\ Cardinality(P) # 0
  <2>1. IsFiniteSet(P) BY BoundsAssumption, FS_Subset
  <2>2. P # {} BY <1>5
  <2>. QED BY <2>1, <2>2, FS_CardinalityType, FS_EmptySet
<1>8. Cardinality(Occupants(s)) \in Nat /\ IsFiniteSet(Occupants(s)) BY OccupantsFinite
<1>9. Cardinality(P) <= Target - Cardinality(Occupants(s)) BY <1>1, <1>5, <1>7, BoundsAssumption DEF Room
<1>10. /\ IsFiniteSet(Occupants(s) \cup P)
       /\ Cardinality(Occupants(s) \cup P) \in Nat
       /\ Cardinality(Occupants(s) \cup P) <= Cardinality(Occupants(s)) + Cardinality(P)
  <2>1. Occupants(s) \cap P = {} BY <1>2 DEF Occupants
  <2>2. /\ IsFiniteSet(Occupants(s) \cup P)
        /\ Cardinality(Occupants(s) \cup P) =
             Cardinality(Occupants(s)) + Cardinality(P) - Cardinality(Occupants(s) \cap P)
    BY <1>7, <1>8, FS_Union
  <2>3. Cardinality(Occupants(s) \cap P) = 0 BY <2>1, FS_EmptySet
  <2>. QED BY <1>7, <1>8, <2>2, <2>3
<1>11. Cardinality(After(s)) \in Nat /\ Cardinality(After(s)) <= Cardinality(Occupants(s) \cup P)
  BY <1>6, <1>10, FS_Subset, FS_CardinalityType
<1>. QED BY <1>7, <1>8, <1>9, <1>10, <1>11, BoundsAssumption

\* Two substitutes for one slot: the first accepted wins.  A step that leaves more
\* players on a side than its target adds only players selected by name.
THEOREM RosterFirstAccepted == Spec => FirstAcceptedWins
<1>. DEFINE Fits == \A s \in Sides, p \in Players :
       LET after == {q \in Players : seat'[q] \in Occupying /\ side'[q] \in {s, NoTeam}}
       IN  p \in after \ Occupants(s) /\ Cardinality(after) > Target => seat'[p] = "selected"
<1>1. ASSUME RosterInv, [Next]_vars PROVE Fits
  <2> SUFFICES ASSUME NEW s \in Sides, NEW p \in Players, p \in After(s) \ Occupants(s), Cardinality(After(s)) > Target
               PROVE  seat'[p] = "selected"
    BY DEF After
  <2>1. /\ TypeOK /\ IsFiniteSet(After(s)) /\ Cardinality(After(s)) \in Nat /\ NoTeam \notin Sides
        /\ ~(Cardinality(After(s)) <= Target)
        /\ seat'[p] \in Occupying /\ side'[p] \in {s, NoTeam}
        /\ seat[p] \notin Occupying \/ side[p] \notin {s, NoTeam}
    <3>1. After(s) \subseteq Players BY DEF After
    <3>2. IsFiniteSet(After(s)) /\ Cardinality(After(s)) \in Nat
      BY <3>1, BoundsAssumption, FS_Subset, FS_CardinalityType
    <3>. QED BY <1>1, <3>2, BoundsAssumption, NamesAssumption DEF RosterInv, After, Occupants, Teams
  <2>2. CASE SeatStep
    <3>1. CASE \E P \in SUBSET Players, t \in Sides, who \in Staff : AutoBuild(P, t, who)
      BY <2>1, <3>1, BuildFits
    <3>2. CASE /\ seat[p] = "unavailable" /\ seat'[p] = "confirmed" /\ side'[p] = side[p] /\ MayHold(p)
               /\ HasRoom(side[p]) /\ \A q \in Players \ {p} : seat'[q] = seat[q] /\ side'[q] = side[q]
      <4>1. side[p] = s BY <2>1, <3>2 DEF MayHold
      <4>2. After(s) \subseteq Occupants(s) \cup {p} BY <3>2 DEF After, Occupants
      <4>. QED BY <2>1, <3>2, <4>1, <4>2, OneFits
    <3>. QED BY <2>1, <2>2, <3>1, <3>2, SeatRows DEF Occupying
  <2>3. ASSUME NEW q \in Players, NEW who \in Staff \cup {Self}, Accept(q, who) \/ (who \in Staff /\ Override(q, who))
        PROVE  FALSE
    <3>1. PICK r \in OpenRows(q) : Join(q, r) /\ SideFor(q, r) \in Sides /\ HasRoom(SideFor(q, r))
      BY <1>1, <2>3, JoinSeats
    <3>2. /\ \A o \in Players \ {q} : seat'[o] = seat[o] /\ side'[o] = side[o]
          /\ side'[q] = SideFor(q, r)
      BY <2>1, <3>1 DEF Join, TypeOK
    <3>3. p = q BY <2>1, <3>2
    <3>4. SideFor(q, r) = s BY <2>1, <3>1, <3>2, <3>3
    <3>5. After(s) \subseteq Occupants(s) \cup {q} BY <3>2 DEF After, Occupants
    <3>. QED BY <2>1, <3>1, <3>4, <3>5, OneFits
  <2>. QED BY <1>1, <2>1, <2>2, <2>3, EntriesStay DEF entries
<1>2. [][Fits]_vars <=> FirstAcceptedWins BY DEF FirstAcceptedWins
<1>. QED BY <1>1, <1>2, RosterInvariant, PTL DEF Spec

\* A coach's calls leave the other side's rows as they were.
THEOREM RosterSidesApart == Spec => CoachLeavesOtherSideAlone
<1>. DEFINE Apart == \A s \in Sides, p \in Players :
       /\ seat[p] \in Occupying /\ side[p] # s
       /\ \/ \E P \in SUBSET Players :
               Select(P, s) \/ \E t \in Sides : CopyPrevious(P, t, s) \/ AutoBuild(P, t, s)
          \/ \E q \in Players : Confirm(q, s) \/ BackOut(q, s) \/ Remove(q, s)
       => <<seat[p], side[p], role[p]>>' = <<seat[p], side[p], role[p]>>
<1>1. ASSUME TypeOK PROVE Apart
  <2> SUFFICES ASSUME NEW s \in Sides, NEW p \in Players, seat[p] \in Occupying, side[p] # s,
                      \/ \E P \in SUBSET Players :
                           Select(P, s) \/ \E t \in Sides : CopyPrevious(P, t, s) \/ AutoBuild(P, t, s)
                      \/ \E q \in Players : Confirm(q, s) \/ BackOut(q, s) \/ Remove(q, s)
               PROVE  seat'[p] = seat[p] /\ side'[p] = side[p] /\ role'[p] = role[p]
    OBVIOUS
  <2>1. CASE \E P \in SUBSET Players :
               Select(P, s) \/ \E t \in Sides : CopyPrevious(P, t, s) \/ AutoBuild(P, t, s)
    BY <2>1 DEF Select, CopyPrevious, AutoBuild, Seat, Seatable, Unseated
  <2>2. CASE \E q \in Players : Confirm(q, s) \/ BackOut(q, s) \/ Remove(q, s)
    BY <1>1, <2>2 DEF Confirm, BackOut, Remove, SetSeat, Authorized, TypeOK
  <2>. QED BY <2>1, <2>2
<1>2. [][Apart]_vars <=> CoachLeavesOtherSideAlone BY DEF CoachLeavesOtherSideAlone
<1>. QED BY <1>1, <1>2, RosterTypeOK, PTL DEF Spec

-----------------------------------------------------------------------------
(* The refinement: every way of writing is a step of the promise, or none. *)

Rostered == {p \in Players : seat[p] # "none"}

\* A new game's requests start as SubstituteRequests' do.
LEMMA PromiseInit == Init => Promise!Init
BY DEF Init, Promise!Init

\* Each way of writing is a step of SubstituteRequests, or changes nothing it sees.
LEMMA PromiseStep ==
  ASSUME RosterInv, [Next]_vars PROVE [Promise!Next]_(Promise!vars)
<1>. USE DEF RosterInv, TypeOK, Promise!Open, Promise!Become
<1>1. CASE Seats
  <2>1. PICK P \in SUBSET Players, status \in Occupying : Mutable /\ Seat(P, status)
    BY <1>1 DEF Seats
  <2>2. Rostered' = Rostered \cup P BY <2>1 DEF Rostered, Seat, Occupying
  <2>3. Promise!Select(P) BY <2>1, <2>2 DEF Promise!Select, Rostered, Seat, Mutable, requests
  <2>. QED BY <2>3 DEF Promise!Next
<1>2. CASE Attends
  <2>1. Rostered' = Rostered BY <1>2 DEF Attends, SetSeat, Rostered
  <2>. QED BY <1>2, <2>1 DEF Attends, SetSeat, Rostered, requests, Promise!vars
<1>3. CASE Settles
  <2>1. PICK p \in Players, r \in Rows, status \in {"expired", "declined", "withdrawn"} :
          /\ Mutable /\ r \in OpenRows(p) /\ SetRequest(r, status)
          /\ status \in {"expired", "declined"} => request[r] = "offered"
    BY <1>3 DEF Settles
  <2>2. Promise!End(r)
    BY <2>1 DEF Promise!End, OpenRows, OpenStates, SetRequest, Mutable, entries
  <2>. QED BY <2>2 DEF Promise!Next
<1>4. CASE Joins
  <2>1. PICK p \in Players, r \in Rows : Mutable /\ r \in OpenRows(p) /\ Join(p, r)
    BY <1>4 DEF Joins
  <2>2. Rostered' = Rostered \cup {p} BY <2>1 DEF Rostered, Join
  <2>3. Promise!Accept(r)
    BY <2>1, <2>2 DEF Promise!Accept, OpenRows, OpenStates, Join, Mutable, Rostered
  <2>. QED BY <2>3 DEF Promise!Next
<1>5. CASE Enrolls
  <2>1. PICK p \in Players, t \in Sides, who \in Staff \cup {Self} : Enroll(p, t, who)
    BY <1>5 DEF Enrolls
  <2>2. PICK r \in NextRow(p) :
          /\ Mutable /\ seat[p] = "none" /\ OpenRows(p) = {}
          /\ request' = [request EXCEPT ![r] = "enrolled"] /\ UNCHANGED <<seat, flags>>
    BY <2>1 DEF Enroll, entries
  <2>3. r \in Rows /\ Owner(r) = p /\ request[r] = "none" BY NextRowIsFresh
  <2>4. Promise!Free(Owner(r)) BY <2>2, <2>3 DEF Promise!Free, OpenRows, OpenStates
  <2>5. Promise!Enroll(r) BY <2>2, <2>3, <2>4 DEF Promise!Enroll, Mutable
  <2>. QED BY <2>3, <2>5 DEF Promise!Next
<1>6. CASE Offers
  <2>1. PICK p \in Players, who \in Staff, asked \in Nat \cup {NoTime} : Offer(p, who, asked)
    BY <1>6 DEF Offers
  <2>2. PICK r \in OpenRows(p) :
          /\ Mutable /\ request[r] = "enrolled"
          /\ request' = [request EXCEPT ![r] = "offered"] /\ UNCHANGED <<seat, flags>>
    BY <2>1 DEF Offer, entries
  <2>3. r \in Rows BY DEF OpenRows
  <2>4. Promise!Offer(r) BY <2>2, <2>3 DEF Promise!Offer, Mutable
  <2>. QED BY <2>3, <2>4 DEF Promise!Next
<1>7. CASE Flags
  <2>1. UNCHANGED <<request, seat>> BY <1>7 DEF Flags, SetFlags, entries, requests
  <2>2. Promise!Close \/ Promise!OpenAgain BY <2>1 DEF Promise!Close, Promise!OpenAgain
  <2>. QED BY <2>2 DEF Promise!Next
<1>8. CASE CancelGame
  <2>1. Promise!Cancel BY <1>8 DEF CancelGame, Promise!Cancel, OpenStates, entries
  <2>. QED BY <2>1 DEF Promise!Next
<1>9. CASE Elsewhere
  BY <1>9 DEF Elsewhere, Look, Move, SetActive, Tick, entries, requests, vars, Promise!vars
<1>. QED BY <1>1, <1>2, <1>3, <1>4, <1>5, <1>6, <1>7, <1>8, <1>9, StepKinds

\* The requests of every game, of any size, keep the promise of
\* SubstituteRequests.
THEOREM RosterKeepsPromise == Spec => PromiseKept
BY RosterInvariant, PromiseInit, PromiseStep, PTL DEF Spec, PromiseKept, Promise!Spec
-----------------------------------------------------------------------------
(* What the reads show: OtherSideHidesOnly follows from how they select    *)
(* rows, in every state, so each read is shown to use the rows of its own  *)
(* side, and a settled badge to give way to nothing but the other side's.  *)

\* The rows asking for s, and those not asking for o.
Asking(s, Q) == {r \in Sub(Q) : target[r] = s}
NotAsking(o) == {r \in Rows : target[r] # o}

\* A player's live rows for s are shown whatever else he asked for.
LEMMA LiveSubRows ==
  ASSUME NEW p, NEW s, NEW Q
  PROVE  LiveSub(p, s, Q) = {r \in Asking(s, Q) : Owner(r) = p /\ request[r] \in OpenStates}
<1>1. ASSUME NEW r \in LiveSub(p, s, Q)
      PROVE  r \in Asking(s, Q) /\ Owner(r) = p /\ request[r] \in OpenStates
  BY <1>1 DEF LiveSub, OwnedSub, Standing, Asking
<1>2. ASSUME NEW r \in Asking(s, Q), Owner(r) = p, request[r] \in OpenStates
      PROVE  r \in LiveSub(p, s, Q)
  BY <1>2 DEF LiveSub, OwnedSub, Standing, Asking
<1>3. LiveSub(p, s, Q) \subseteq {r \in Asking(s, Q) : Owner(r) = p /\ request[r] \in OpenStates} BY <1>1
<1>4. {r \in Asking(s, Q) : Owner(r) = p /\ request[r] \in OpenStates} \subseteq LiveSub(p, s, Q) BY <1>2
<1>. QED BY <1>3, <1>4

\* The one row a player is shown by is his own side's, unless he asked elsewhere.
LEMMA OwnedRows ==
  ASSUME NEW p, NEW s \in Sides, NEW o \in Sides \ {s}
  PROVE  LET blind == OwnedSub(p, s, NotAsking(o))
         IN  OwnedSub(p, s, Rows) =
               IF TurnedTo(p, o, s) /\ LiveSub(p, s, NotAsking(o)) = {} THEN {} ELSE blind
<1>. DEFINE Mine(Q) == {r \in Sub(Q) : Owner(r) = p}
            Live(Q) == {r \in Mine(Q) : request[r] \in OpenStates}
            N == NotAsking(o)
<1>1. /\ Mine(N) = {r \in Mine(Rows) : target[r] # o} /\ o # s
      /\ \A r \in Mine(Rows) : r \in Sub(Rows) /\ Owner(r) = p /\ r[2] \in Nat
  <2>1. \A r \in Rows : r[2] \in Nat BY DEF Rows
  <2>. QED BY <2>1 DEF NotAsking, Sub
<1>2. \A r \in Sub(Rows) : Owner(r) = p => r \in Mine(Rows) OBVIOUS
<1>3. \A Q : OwnedSub(p, s, Q) =
               IF Live(Q) # {} THEN {r \in Live(Q) : target[r] = s}
               ELSE {r \in Mine(Q) : target[r] = s /\ \A q \in Mine(Q) : q[2] <= r[2]}
  BY DEF OwnedSub, Standing
<1>4. LiveSub(p, s, N) = {r \in OwnedSub(p, s, N) : request[r] \in OpenStates} BY DEF LiveSub
<1>5. TurnedTo(p, o, s) <=>
        \E r \in Mine(Rows) : /\ target[r] = o
                              /\ \/ request[r] \in OpenStates
                                 \/ \A q \in Mine(Rows) : target[q] = s => q[2] < r[2]
  BY <1>1, <1>2 DEF TurnedTo
<1>. HIDE DEF Mine, N
<1>6. CASE Live(N) # {}
  <2>1. Live(Rows) # {} BY <1>1, <1>6
  <2>2. OwnedSub(p, s, Rows) = {r \in Live(Rows) : target[r] = s} BY <1>3, <2>1
  <2>3. OwnedSub(p, s, N) = {r \in Live(N) : target[r] = s} BY <1>3, <1>6
  <2>4. {r \in Live(Rows) : target[r] = s} = {r \in Live(N) : target[r] = s} BY <1>1
  <2>5. LiveSub(p, s, N) = OwnedSub(p, s, N) BY <1>4, <2>3
  <2>. QED BY <2>2, <2>3, <2>4, <2>5 DEF N
<1>7. CASE Live(N) = {} /\ Live(Rows) # {}
  <2>1. PICK r \in Mine(Rows) : request[r] \in OpenStates /\ target[r] = o BY <1>1, <1>7
  <2>2. TurnedTo(p, o, s) BY <1>5, <2>1
  <2>3. OwnedSub(p, s, Rows) = {q \in Live(Rows) : target[q] = s} BY <1>3, <1>7
  <2>4. OwnedSub(p, s, Rows) = {} BY <1>1, <1>7, <2>3
  <2>5. LiveSub(p, s, N) = {}
    <3>1. OwnedSub(p, s, N) \subseteq Mine(N) BY <1>3, <1>7
    <3>. QED BY <1>4, <1>7, <3>1
  <2>. QED BY <2>2, <2>4, <2>5 DEF N
<1>8. CASE Live(N) = {} /\ Live(Rows) = {}
  <2>1. OwnedSub(p, s, Rows) = {r \in Mine(Rows) : target[r] = s /\ \A q \in Mine(Rows) : q[2] <= r[2]}
    BY <1>3, <1>8
  <2>2. OwnedSub(p, s, N) = {r \in Mine(N) : target[r] = s /\ \A q \in Mine(N) : q[2] <= r[2]}
    BY <1>3, <1>8
  <2>3. LiveSub(p, s, N) = {} BY <1>4, <1>8, <2>2
  <2>4. CASE TurnedTo(p, o, s)
    <3>1. PICK r \in Mine(Rows) : \A q \in Mine(Rows) : target[q] = s => q[2] < r[2]
      BY <1>5, <1>8, <2>4
    <3>2. OwnedSub(p, s, Rows) = {} BY <1>1, <2>1, <3>1
    <3>. QED BY <2>3, <2>4, <3>2 DEF N
  <2>5. CASE ~TurnedTo(p, o, s)
    <3>1. ASSUME NEW r \in OwnedSub(p, s, N), NEW q \in Mine(Rows) PROVE q[2] <= r[2]
      <4>1. r \in Mine(Rows) /\ target[r] = s /\ \A m \in Mine(N) : m[2] <= r[2] BY <1>1, <2>2, <3>1
      <4>2. CASE target[q] # o BY <1>1, <4>1, <4>2
      <4>3. CASE target[q] = o
        <5>1. PICK m \in Mine(Rows) : target[m] = s /\ ~(m[2] < q[2]) BY <1>5, <2>5, <4>3
        <5>2. m[2] <= r[2] BY <1>1, <4>1, <5>1
        <5>3. m[2] \in Nat /\ q[2] \in Nat /\ r[2] \in Nat BY <1>1, <4>1, <5>1
        <5>. QED BY <5>1, <5>2, <5>3
      <4>. QED BY <4>2, <4>3
    <3>2. OwnedSub(p, s, N) \subseteq OwnedSub(p, s, Rows) BY <1>1, <2>1, <2>2, <3>1
    <3>3. OwnedSub(p, s, Rows) \subseteq OwnedSub(p, s, N) BY <1>1, <2>1, <2>2
    <3>. QED BY <2>5, <3>2, <3>3 DEF N
  <2>. QED BY <2>4, <2>5
<1>. QED BY <1>6, <1>7, <1>8

\* A side's numbers, groups and candidates are read off its own rows.
LEMMA OwnSideReads ==
  ASSUME NEW s, NEW E, NEW F, NEW Q, NEW R,
         Seated(E, s) = Seated(F, s), Counted(s, E) = Counted(s, F), Asking(s, Q) = Asking(s, R)
  PROVE  /\ \A p : Group(p, s, E, Q) = Group(p, s, F, R)
         /\ \A p, group : Eligible(p, s, group, Q) = Eligible(p, s, group, R)
         /\ RosterStatus(s, E, Q) = RosterStatus(s, F, R)
         /\ Open(s, E) = Open(s, F) /\ Candidates(s, Q) = Candidates(s, R)
<1>1. \A p : LiveSub(p, s, Q) = LiveSub(p, s, R) BY LiveSubRows
<1>2. \A p : Group(p, s, E, Q) = Group(p, s, F, R) BY <1>1 DEF Group
<1>3. ASSUME NEW p, NEW group PROVE Eligible(p, s, group, Q) = Eligible(p, s, group, R)
  <2>1. LiveSub(p, s, Q) = LiveSub(p, s, R) BY <1>1
  <2>. QED BY <2>1, Zenon DEF Eligible
<1>4. Filled(s, E) = Filled(s, F) BY DEF Filled
<1>5. Open(s, E) = Open(s, F) BY <1>4 DEF Open
<1>6. Matched(s, Q) = Matched(s, R)
  <2>1. \A B : Matched(s, B) = {r \in Asking(s, B) : LiveFor(Owner(r), r, s)} BY DEF Matched, Asking
  <2>. QED BY <2>1
<1>7. Enrolled(s, Q) = Enrolled(s, R) BY <1>6 DEF Enrolled
<1>8. GameStatus(s, E, Q) = GameStatus(s, F, R) BY <1>4, <1>5, <1>7 DEF GameStatus
<1>9. Candidates(s, Q) = Candidates(s, R)
  <2>1. \A B : Candidates(s, B) = {r \in Asking(s, B) : /\ Owner(r) \in active /\ LiveFor(Owner(r), r, s)
                                                        /\ IsCross(r) => CrossReady}
    BY DEF Candidates, Asking
  <2>. QED BY <2>1
<1>10. RosterStatus(s, E, Q) = RosterStatus(s, F, R) BY <1>4, <1>5, <1>7, <1>8 DEF RosterStatus, Numbers
<1>. QED BY <1>2, <1>3, <1>5, <1>9, <1>10

\* The lineup of a side, with the other side's seats and requests and without.
LEMMA OwnLineup ==
  ASSUME NEW s \in Sides, NEW o \in Sides \ {s}, NEW F,
         Seated(Players, s) = Seated(F, s), Counted(s, Players) = Counted(s, F),
         Asking(s, Rows) = Asking(s, NotAsking(o))
  PROVE  LET blind == Lineup(s, F, NotAsking(o))
         IN  Lineup(s, Players, Rows) = [p \in DOMAIN blind |-> Overtaken(blind[p], p, o, s)]
<1>. DEFINE N == NotAsking(o)
            Shown == {p \in Players : Group(p, s, Players, Rows) # "none"}
            Row(p) == LineupRow(p, s, Group(p, s, F, N), N)
<1>1. /\ \A p : Group(p, s, Players, Rows) = Group(p, s, F, N)
      /\ \A p, group : Eligible(p, s, group, Rows) = Eligible(p, s, group, N)
  BY OwnSideReads
<1>2. Lineup(s, Players, Rows) = [p \in Shown |-> LineupRow(p, s, Group(p, s, Players, Rows), Rows)]
  BY DEF Lineup
<1>3. Lineup(s, F, N) = [p \in Shown |-> Row(p)] BY <1>1 DEF Lineup
<1>4. ASSUME NEW p, NEW group
      PROVE  LineupRow(p, s, group, Rows) = Overtaken(LineupRow(p, s, group, N), p, o, s)
  <2>. DEFINE badge(Q) == {request[r] : r \in OwnedSub(p, s, Q)}
              gone == badge(N) \cap OpenStates = {} /\ TurnedTo(p, o, s)
  <2>1. badge(N) \cap OpenStates = {} <=> LiveSub(p, s, N) = {} BY DEF LiveSub
  <2>2. badge(Rows) = IF gone THEN {} ELSE badge(N)
    <3>1. OwnedSub(p, s, Rows) = IF gone THEN {} ELSE OwnedSub(p, s, N) BY <2>1, OwnedRows
    <3>. HIDE DEF gone, N
    <3>. QED BY <3>1
  <2>3. \A Q : LineupRow(p, s, group, Q) =
                 [group |-> group, status |-> IF group = "selected" THEN seat[p] ELSE "none",
                  eligible |-> Eligible(p, s, group, Q), sub_status |-> badge(Q)]
    BY DEF LineupRow
  <2>4. LineupRow(p, s, group, N).sub_status = badge(N) BY <2>3
  <2>5. Overtaken(LineupRow(p, s, group, N), p, o, s) =
          IF gone THEN [LineupRow(p, s, group, N) EXCEPT !.sub_status = {}] ELSE LineupRow(p, s, group, N)
    BY <2>4 DEF Overtaken
  <2>6. Eligible(p, s, group, Rows) = Eligible(p, s, group, N) BY <1>1
  <2>. HIDE DEF badge, gone, N
  <2>. QED BY <2>2, <2>3, <2>5, <2>6
<1>. HIDE DEF N, Row
<1>5. DOMAIN Lineup(s, F, N) = Shown /\ \A p \in Shown : Lineup(s, F, N)[p] = Row(p) BY <1>3
<1>6. \A p : LineupRow(p, s, Group(p, s, Players, Rows), Rows) = Overtaken(Row(p), p, o, s)
  BY <1>1, <1>4 DEF Row
<1>. HIDE DEF Shown
<1>7. Lineup(s, Players, Rows) = [p \in DOMAIN Lineup(s, F, N) |-> Overtaken(Lineup(s, F, N)[p], p, o, s)]
  BY <1>2, <1>5, <1>6
<1>. QED BY <1>7 DEF N

\* A lineup sheet and its numbers tell nothing of the requests.
LEMMA SheetReads ==
  ASSUME NEW s, NEW E, NEW Q, NEW R
  PROVE  Sheet(s, E, Q) = Sheet(s, E, R) /\ SheetStatus(s, E, Q) = SheetStatus(s, E, R)
<1>1. \A p, B : Group(p, s, E, B) = "selected" <=> p \in Seated(E, s) BY DEF Group
<1>2. {q \in Players : Group(q, s, E, Q) = "selected" /\ seat[q] \in Occupying}
      = {q \in Players : Group(q, s, E, R) = "selected" /\ seat[q] \in Occupying}
  BY <1>1
<1>3. Sheet(s, E, Q) = Sheet(s, E, R) BY <1>2 DEF Sheet
<1>4. \/ GameStatus(s, E, Q) = GameStatus(s, E, R)
      \/ /\ GameStatus(s, E, Q) \in {"needs_substitute", "open_slot"}
         /\ GameStatus(s, E, R) \in {"needs_substitute", "open_slot"}
  BY DEF GameStatus
<1>5. SheetStatus(s, E, Q) = SheetStatus(s, E, R)
  <2>. DEFINE Told(B) == IF GameStatus(s, E, B) = "needs_substitute" THEN "open_slot" ELSE GameStatus(s, E, B)
  <2>1. Told(Q) = Told(R) BY <1>4
  <2>2. SheetStatus(s, E, Q) = Numbers(s, E, Told(Q), 0) /\ SheetStatus(s, E, R) = Numbers(s, E, Told(R), 0)
    BY DEF SheetStatus
  <2>. HIDE DEF Told
  <2>. QED BY <2>1, <2>2
<1>. QED BY <1>3, <1>5

\* What a coach or player of one side is answered is what he would be answered
\* had the other side no seats and no requests, less the badges of settled requests
\* whose players asked the other side afterwards; no answer an official can obtain
\* depends on any request.
THEOREM RosterSideHides == Spec => []OtherSideHidesOnly
<1>. DEFINE Hides(s, o, E, Q) ==
       Answers(s, Players, Rows) =
         [Answers(s, E, Q) EXCEPT !.lineups[s].lineup = [p \in DOMAIN @ |-> Overtaken(@[p], p, o, s)]]
<1>1. ASSUME NEW s \in Sides, NEW o \in Sides \ {s}
      PROVE  Hides(s, o, Players \ Seated(Players, o), NotAsking(o))
  <2>. DEFINE F == Players \ Seated(Players, o)
              R == NotAsking(o)
  <2>1. o # s /\ o # NoTeam /\ s # "operator" /\ s # "official"
    BY NamesAssumption, ViewersAssumption DEF Teams
  <2>2. /\ Seated(Players, s) = Seated(F, s) /\ Counted(s, Players) = Counted(s, F)
        /\ Asking(s, Rows) = Asking(s, R)
    BY <2>1 DEF Seated, Counted, Asking, Sub, NotAsking
  <2>. HIDE DEF F, R
  <2>3. /\ Open(s, Players) = Open(s, F)
        /\ RosterStatus(s, Players, Rows) = RosterStatus(s, F, R) /\ Candidates(s, Rows) = Candidates(s, R)
    BY <2>2, OwnSideReads
  <2>. DEFINE hidden == [p \in DOMAIN Lineup(s, F, R) |-> Overtaken(Lineup(s, F, R)[p], p, o, s)]
  <2>4. Lineup(s, Players, Rows) = hidden BY <2>2, OwnLineup DEF R
  <2>5. Audience(s) = "own_side" /\ ShownSides(s) = {s} BY <2>1 DEF Audience, ShownSides
  <2>6. /\ \A E, Q : LineupSide(s, s, E, Q) = [status |-> RosterStatus(s, E, Q), lineup |-> Lineup(s, E, Q)]
        /\ \A t, E, Q : t # s => LineupSide(s, t, E, Q) = <<>>
    <3>1. \A t : t # s => Projection(s, t) = "restricted" BY <2>1 DEF Projection
    <3>2. Projection(s, s) = "full" BY <2>1 DEF Projection
    <3>. QED BY <3>1, <3>2 DEF LineupSide
  <2>7. RosterRead(s, Players, Rows) = RosterRead(s, F, R)
    <3>1. \A E : {q \in E : seat[q] # "none" /\ side[q] \in ShownSides(s)} = Seated(E, s) BY <2>5 DEF Seated
    <3>. QED BY <2>2, <2>5, <3>1 DEF RosterRead
  <2>8. SubstitutesRead(s, Rows) = SubstitutesRead(s, R)
    <3>1. \A Q : {q \in Sub(Q) : target[q] \in ShownSides(s)} = Asking(s, Q) BY <2>5 DEF Asking
    <3>. QED BY <2>2, <3>1 DEF SubstitutesRead
  <2>9. StatusRead(s, Players, Rows) = StatusRead(s, F, R) BY <2>3, <2>5 DEF StatusRead
  <2>10. \A r : CanOffer(r, s, Players) = CanOffer(r, s, F) BY <2>3 DEF CanOffer
  <2>. DEFINE lineups(E, Q) == [t \in Sides |-> LineupSide(s, t, E, Q)]
              choices(E, Q) == {<<r, CanOffer(r, s, E)>> : r \in Candidates(s, Q)}
  <2>11. lineups(Players, Rows) = [lineups(F, R) EXCEPT ![s].lineup = hidden]
    <3>1. lineups(Players, Rows)[s] = [lineups(F, R)[s] EXCEPT !.lineup = hidden]
      <4>. HIDE DEF hidden
      <4>. QED BY <2>3, <2>4, <2>6
    <3>2. \A t \in Sides \ {s} : lineups(Players, Rows)[t] = lineups(F, R)[t] BY <2>6
    <3>. HIDE DEF hidden
    <3>. QED BY <3>1, <3>2
  <2>12. choices(Players, Rows) = choices(F, R) BY <2>3, <2>10
  <2>13. \A E, Q : Answers(s, E, Q) =
           [lineups |-> lineups(E, Q), roster |-> RosterRead(s, E, Q), substitutes |-> SubstitutesRead(s, Q),
            roster_status |-> StatusRead(s, E, Q), candidates |-> choices(E, Q)]
    BY DEF Answers
  <2>14. Answers(s, F, R).lineups[s].lineup = Lineup(s, F, R) BY <2>6, <2>13
  <2>. HIDE DEF lineups, choices, hidden
  <2>15. Answers(s, Players, Rows) = [Answers(s, F, R) EXCEPT !.lineups[s].lineup = hidden]
    BY <2>7, <2>8, <2>9, <2>11, <2>12, <2>13
  <2>. QED BY <2>14, <2>15 DEF F, R, hidden
<1>2. Answers("official", Players, Rows) = Answers("official", Players, {})
  <2>1. "official" \notin Sides /\ "official" # "operator" BY ViewersAssumption DEF Teams
  <2>2. Audience("official") = "submitted_lineup" /\ ShownSides("official") = {}
    BY <2>1 DEF Audience, ShownSides
  <2>3. \A t \in Sides : Projection("official", t) = "submitted_lineup" BY <2>1 DEF Projection
  <2>4. \A t \in Sides : /\ LineupSide("official", t, Players, Rows) = LineupSide("official", t, Players, {})
               /\ Sheet(t, Players, Rows) = Sheet(t, Players, {})
    BY <2>3, SheetReads DEF LineupSide
  <2>5. RosterRead("official", Players, Rows) = RosterRead("official", Players, {}) BY <2>2, <2>4 DEF RosterRead
  <2>6. SubstitutesRead("official", Rows) = SubstitutesRead("official", {}) BY <2>2 DEF SubstitutesRead
  <2>7. StatusRead("official", Players, Rows) = StatusRead("official", Players, {}) BY <2>2 DEF StatusRead
  <2>. QED BY <2>1, <2>4, <2>5, <2>6, <2>7 DEF Answers
<1>3. \A s, o \in Sides : s # o =>
        \E E \in {Players \ Seated(Players, o)}, Q \in {{r \in Rows : target[r] # o}} : Hides(s, o, E, Q)
  <2>. HIDE DEF Hides
  <2>. QED BY <1>1 DEF NotAsking
<1>4. OtherSideHidesOnly BY <1>2, <1>3, Zenon DEF OtherSideHidesOnly
<1>. QED BY <1>4, PTL
=============================================================================
