----------------------------- MODULE GameRoster -----------------------------
(***************************************************************************)
(* One game's roster and its substitute requests: services/                *)
(* roster_service.py RosterService.                                        *)
(*                                                                         *)
(* Every handler runs in one transaction that takes the game's Season row  *)
(* lock first (season_guard.guard_game_season) and re-reads the game under *)
(* it, so a handler is one action here.  What stays hard is the order of   *)
(* handlers: coaches of both teams, league staff, the player, the clock,   *)
(* membership changes and the game's own lifecycle meet on the same rows   *)
(* in any order, and each handler trusts what earlier ones left behind.    *)
(*                                                                         *)
(* A roster row (one per player) never leaves the table: seat[p] is its    *)
(* status, "none" before it exists.  A row of substitute_enrollments is a  *)
(* pair <<player, n>>.  The game is published and bound to a league season *)
(* and its start does not move.  One slot bucket per side stands for the   *)
(* two (goalie, skater), which never interact.                             *)
(*                                                                         *)
(* A definition named X_... is a seeded mistake in X (see ContextGate).    *)
(***************************************************************************)
EXTENDS Naturals, FiniteSets

CONSTANTS
  Players,
  Home, Away,   \* the game's two teams; also their coaches (authorized_team_id)
  Third,        \* a team of the same division that is not in the game
  NoTeam,       \* NULL: no active membership, no attribution, no source team
  Operator,     \* league staff: authorized_team_id is None
  Self,         \* the player (or a verified guardian) answering from /api/me
  Target,       \* game.target_skaters, per side
  Start,        \* game.start_time
  Window,       \* cross_team_response_window
  NoTime,       \* an offer without offer_expires_at
  MaxTime,      \* bound: the clock stops here
  MaxRequests,  \* bound: enrollments of one player
  Legacy,       \* players who may be seated since before team_side was recorded
  Upsets        \* bound: which of lock, cancel, archive, move, deactivate occur

Sides == {Home, Away}
Teams == Sides \cup {Third}
Staff == Sides \cup {Operator}
Rows == Players \X (1..MaxRequests)
Owner(r) == r[1]

ASSUME NamesAssumption ==
  /\ Home # Away /\ Third \notin Sides /\ NoTeam \notin Teams
  /\ Operator \notin Teams /\ Self \notin Teams \cup {Operator}
ASSUME TimeAssumption ==
  /\ Start \in Nat /\ MaxTime \in Nat /\ Window \in Nat \ {0} /\ NoTime \notin Nat
ASSUME BoundsAssumption ==
  /\ Target \in Nat /\ MaxRequests \in Nat
  /\ IsFiniteSet(Players) /\ Legacy \subseteq Players

VARIABLES
  team,      \* player -> the team of the ACTIVE membership, or NoTeam
  active,    \* players with is_active
  seat,      \* player -> GameRosterEntry.status
  side,      \* player -> GameRosterEntry.team_side
  role,      \* player -> GameRosterEntry.roster_role
  request,   \* row -> SubstituteEnrollment.status
  target,    \* row -> team_id, the team asked for
  source,    \* row -> source_team_id: NoTeam unless the request crosses teams
  due,       \* row -> offer_expires_at
  tab,       \* player -> the target_team_id the player's page will send
  flags,     \* game.locked, game.cancelled, season archived
  now        \* the server clock

entries == <<seat, side, role>>
requests == <<request, target, source, due>>
members == <<team, active>>
vars == <<members, entries, requests, tab, flags, now>>

-----------------------------------------------------------------------------
(* What the handlers ask of the rows.                                      *)

Occupying == {"selected", "confirmed", "accepted"}
OpenStates == {"enrolled", "offered"}
Settled == {"accepted", "declined", "expired", "withdrawn", "cancelled"}

Mutable_UnlessArchived == flags \subseteq {"archived"}
Mutable == flags = {}
Writable == "archived" \notin flags
Playing(p) == team[p] \in Sides
OpenRows(p) == {r \in Rows : Owner(r) = p /\ request[r] \in OpenStates}
AcceptedRows(p) == {r \in Rows : Owner(r) = p /\ request[r] = "accepted"}
IsCross(r) == source[r] # NoTeam

\* A row without a side is charged to both.
Occupants(s) == {p \in Players : seat[p] \in Occupying /\ side[p] \in {s, NoTeam}}
HasRoom(s) == Cardinality(Occupants(s)) < Target
Room(s) == IF HasRoom(s) THEN Target - Cardinality(Occupants(s)) ELSE 0

\* A coach acts for one team only; nobody else is compared.
Authorized(who, owner) == who \in Sides => owner = who

\* The source stint the request was made from still holds.
CrossHolds(p, r) == ~Playing(p) /\ team[p] = source[r]
\* A cross-team answer is late at its deadline, a same-team one after it.
CrossLate(r) == now >= Start \/ (due[r] # NoTime /\ now >= due[r])
SameLate(r) == due[r] # NoTime /\ now > due[r]
\* The player names the choice the page showed.
SameChoice(p, r) == tab[p] = IF IsCross(r) THEN target[r] ELSE NoTeam

\* An accepted cross-team row explains why an outsider sits on this side.
Borrowed(p) ==
  /\ p \in active /\ role[p] = "substitute" /\ side[p] \in Sides
  /\ \E r \in AcceptedRows(p) :
       /\ {q \in AcceptedRows(p) : IsCross(q)} = {r}
       /\ target[r] = side[p] /\ source[r] \notin Sides
MayHold_OnRecord(p) == side[p] = NoTeam \/ Borrowed(p) \/ team[p] = side[p]
\* _authorize_seated_side: may this row be confirmed on the side it records?
MayHold(p) ==
  /\ side[p] # NoTeam
  /\ IF seat[p] \in {"accepted", "unavailable"} /\ Borrowed(p)
     THEN now < Start /\ \A r \in AcceptedRows(p) : IsCross(r) => CrossHolds(p, r)
     ELSE team[p] = side[p]

-----------------------------------------------------------------------------
(* The coach's roster.                                                     *)

Seat(P, status) ==
  /\ seat' = [p \in Players |-> IF p \in P THEN status ELSE seat[p]]
  /\ side' = [p \in Players |-> IF p \in P THEN team[p] ELSE side[p]]
  /\ role' = [p \in Players |-> IF p \in P THEN "selected" ELSE role[p]]
  /\ UNCHANGED <<members, requests, tab, flags, now>>

Unseated(P) == {p \in P : seat[p] \notin Occupying}
\* The candidates of a batch for side s that are neither skipped nor seated.
Seatable(s) == Unseated({p \in active : team[p] = s})

\* POST roster/select: all or nothing, and no regard for the target.
Select(P, who) ==
  /\ Mutable
  /\ \A p \in P : Playing(p) /\ p \in active
  /\ \A p \in P : Authorized(who, team[p])
  /\ \A p \in P : seat[p] \in Occupying => Authorized(who, side[p])
  /\ Seat(Unseated(P), "selected")

\* POST roster/copy-previous: the prior game names the candidates.
CopyPrevious(P, s, who) ==
  /\ Mutable /\ Authorized(who, s)
  /\ P \subseteq Seatable(s)
  /\ Seat(P, "selected")

\* POST build-roster: fills the room that is left and answers for the seated.
AutoBuild(P, s, who) ==
  /\ Mutable /\ Authorized(who, s)
  /\ P \subseteq Seatable(s) /\ Cardinality(P) <= Room(s)
  /\ P # Seatable(s) => Cardinality(P) = Room(s)
  /\ Seat(P, "confirmed")

SetSeat(p, status) ==
  /\ seat' = [seat EXCEPT ![p] = status]
  /\ UNCHANGED <<members, side, role, requests, tab, flags, now>>

\* set_availability(AVAILABLE), the player's row still occupying its slot...
Confirm(p, who) ==
  /\ Mutable /\ seat[p] \in {"selected", "accepted"}
  /\ Authorized(who, side[p]) /\ MayHold(p)
  /\ SetSeat(p, "confirmed")
Reconfirm_WithoutSlot(p, who) ==
  /\ Mutable /\ seat[p] = "unavailable"
  /\ Authorized(who, side[p]) /\ MayHold(p)
  /\ SetSeat(p, "confirmed")
\* ... or given up before, when the slot has to be open still.
Reconfirm(p, who) ==
  /\ Mutable /\ seat[p] = "unavailable"
  /\ Authorized(who, side[p]) /\ MayHold(p) /\ HasRoom(side[p])
  /\ SetSeat(p, "confirmed")
BackOut_LiveComparand(p, who) ==
  /\ Mutable /\ seat[p] \in Occupying /\ Authorized(who, team[p])
  /\ SetSeat(p, "unavailable")
\* set_availability(UNAVAILABLE).
BackOut(p, who) ==
  /\ Mutable /\ seat[p] \in Occupying /\ Authorized(who, side[p])
  /\ SetSeat(p, "unavailable")
\* POST roster/remove.
Remove(p, who) ==
  /\ Mutable /\ seat[p] # "none" /\ Authorized(who, side[p])
  /\ SetSeat(p, "removed")

-----------------------------------------------------------------------------
(* The substitute requests.                                                *)

SetRequest(r, status) ==
  /\ request' = [request EXCEPT ![r] = status]
  /\ UNCHANGED <<members, entries, target, source, due, tab, flags, now>>

\* The row a new enrollment gets, within the bound.
NextRow(p) ==
  {<<p, n>> : n \in {m \in 1..MaxRequests :
                       /\ request[<<p, m>>] = "none"
                       /\ \A k \in 1..(m - 1) : request[<<p, k>>] # "none"}}

\* _require_substitute_target_context: one's own side, or, for a player of a
\* third team answering for himself, either side of a game yet to start.
MayEnroll(p, t, who) ==
  \/ Playing(p) /\ t = team[p] /\ Authorized(who, t)
  \/ team[p] = Third /\ t \in Sides /\ who = Self /\ now < Start

Enroll(p, t, who) == \E r \in NextRow(p) :
  /\ Mutable /\ MayEnroll(p, t, who) /\ p \in active
  /\ seat[p] = "none" /\ OpenRows(p) = {}
  /\ request' = [request EXCEPT ![r] = "enrolled"]
  /\ target' = [target EXCEPT ![r] = t]
  /\ source' = [source EXCEPT ![r] = IF Playing(p) THEN NoTeam ELSE team[p]]
  /\ UNCHANGED <<members, entries, due, tab, flags, now>>

\* The side a request is offered or seated on: a cross-team row keeps its
\* target, a same-team row follows the player's live membership.
SideFor(p, r) == IF IsCross(r) THEN target[r] ELSE team[p]
\* What offering and seating by the staff both require of the player.
StaffMayUse(p, r, who) ==
  /\ p \in active
  /\ IF IsCross(r) THEN now < Start /\ CrossHolds(p, r) ELSE Playing(p)
  /\ Authorized(who, SideFor(p, r))
  /\ HasRoom(SideFor(p, r))

\* The expiry of a cross-team offer is the server's, of another the caller's.
Earlier(t, u) == IF t < u THEN t ELSE u
OfferDue(r, asked) == IF IsCross(r) THEN Earlier(now + Window, Start) ELSE asked
Offer(p, who, asked) == \E r \in OpenRows(p) :
  /\ Mutable /\ request[r] = "enrolled"
  /\ StaffMayUse(p, r, who)
  /\ IsCross(r) => asked = NoTime
  /\ request' = [request EXCEPT ![r] = "offered"]
  /\ target' = [target EXCEPT ![r] = SideFor(p, r)]
  /\ due' = [due EXCEPT ![r] = OfferDue(r, asked)]
  /\ UNCHANGED <<members, entries, source, tab, flags, now>>

\* _accept_offered_substitute and _add_to_roster_entry: the request and the
\* roster row move together.
Join(p, r) ==
  /\ request' = [request EXCEPT ![r] = "accepted"]
  /\ seat' = [seat EXCEPT ![p] = "accepted"]
  /\ side' = [side EXCEPT ![p] = SideFor(p, r)]
  /\ role' = [role EXCEPT ![p] = "substitute"]
  /\ UNCHANGED <<members, target, source, due, tab, flags, now>>

\* Who may answer: the player, naming the choice; for a same-team row the
\* owner's coach or the league staff as well.
MayAnswer(p, r, who, owner) ==
  IF who = Self THEN SameChoice(p, r) ELSE ~IsCross(r) /\ Authorized(who, owner)

Accept(p, who) == \E r \in OpenRows(p) :
  /\ Mutable /\ request[r] = "offered"
  /\ MayAnswer(p, r, who, team[p])
  /\ IF IsCross(r)
     THEN ~CrossLate(r) /\ p \in active /\ CrossHolds(p, r)
     ELSE now <= Start /\ ~SameLate(r) /\ p \in active /\ Playing(p)
  /\ HasRoom(SideFor(p, r))
  /\ Join(p, r)

\* An answer that comes too late settles the request instead.
AcceptLate(p, who) == \E r \in OpenRows(p) :
  /\ Mutable /\ request[r] = "offered"
  /\ MayAnswer(p, r, who, team[p])
  /\ IF IsCross(r) THEN CrossLate(r)
     ELSE SameLate(r) /\ now <= Start /\ p \in active
  /\ SetRequest(r, "expired")

Decline(p, who) == \E r \in OpenRows(p) :
  /\ Mutable /\ request[r] = "offered"
  /\ MayAnswer(p, r, who, target[r])
  /\ SetRequest(r, IF IsCross(r) /\ CrossLate(r) THEN "expired" ELSE "declined")

\* A cross-team offer is answered, not withdrawn; asking late expires it.
Withdraw(p, who) == \E r \in OpenRows(p) :
  /\ Mutable
  /\ MayAnswer(p, r, who, target[r])
  /\ IsCross(r) /\ request[r] = "offered" => CrossLate(r)
  /\ SetRequest(r, IF IsCross(r) /\ request[r] = "offered" THEN "expired"
                   ELSE "withdrawn")

\* POST substitutes/{id}/add-to-roster: the coach's override, offer or not.
Override(p, who) == \E r \in OpenRows(p) :
  /\ Mutable
  /\ ~(IsCross(r) /\ request[r] = "offered" /\ CrossLate(r))
  /\ StaffMayUse(p, r, who)
  /\ Join(p, r)
OverrideLate(p, who) == \E r \in OpenRows(p) :
  /\ Mutable /\ IsCross(r) /\ request[r] = "offered" /\ CrossLate(r)
  /\ Authorized(who, target[r])
  /\ SetRequest(r, "expired")

\* The page renders the choice it will name when the player answers.
Look(p) == \E r \in OpenRows(p) :
  /\ tab' = [tab EXCEPT ![p] = IF IsCross(r) THEN target[r] ELSE NoTeam]
  /\ UNCHANGED <<members, entries, requests, flags, now>>

-----------------------------------------------------------------------------
(* The game, its season, its players and the clock.                        *)

SetFlags(f) == flags' = f /\ UNCHANGED <<members, entries, requests, tab, now>>

Lock == "lock" \in Upsets /\ flags = {} /\ SetFlags({"locked"})
Unlock == Writable /\ "locked" \in flags /\ SetFlags(flags \ {"locked"})
Archive == "archive" \in Upsets /\ Writable /\ SetFlags(flags \cup {"archived"})
Reopen == ~Writable /\ SetFlags(flags \ {"archived"})

CancelGame_OffersOnly ==
  /\ "cancel" \in Upsets /\ Writable /\ "cancelled" \notin flags
  /\ flags' = flags \cup {"cancelled"}
  /\ request' = [r \in Rows |-> IF request[r] = "offered" THEN "cancelled" ELSE request[r]]
  /\ UNCHANGED <<members, entries, target, source, due, tab, now>>
CancelGame_Everything ==
  /\ "cancel" \in Upsets /\ Writable /\ "cancelled" \notin flags
  /\ flags' = flags \cup {"cancelled"}
  /\ request' = [r \in Rows |-> IF request[r] = "none" THEN "none" ELSE "cancelled"]
  /\ UNCHANGED <<members, entries, target, source, due, tab, now>>
\* cancel_game withdraws every live candidacy; a locked roster is no obstacle.
CancelGame ==
  /\ "cancel" \in Upsets /\ Writable /\ "cancelled" \notin flags
  /\ flags' = flags \cup {"cancelled"}
  /\ request' = [r \in Rows |-> IF request[r] \in OpenStates THEN "cancelled" ELSE request[r]]
  /\ UNCHANGED <<members, entries, target, source, due, tab, now>>

\* A membership is parked, or a player without an active one gets one.  An
\* ended stint cannot be replaced (terminal statuses are refused), so a
\* player's stint with a team is one row.
Move(p, t) ==
  /\ "move" \in Upsets /\ Writable
  /\ t # team[p] /\ NoTeam \in {t, team[p]}
  /\ team' = [team EXCEPT ![p] = t]
  /\ UNCHANGED <<active, entries, requests, tab, flags, now>>

\* set_player_active takes the Player row, not the Season.
SetActive(A) == active' = A /\ UNCHANGED <<team, entries, requests, tab, flags, now>>
Deactivate(p) == "deactivate" \in Upsets /\ p \in active /\ SetActive(active \ {p})
Reactivate(p) == p \notin active /\ SetActive(active \cup {p})

Tick == now < MaxTime /\ now' = now + 1 /\ UNCHANGED <<members, entries, requests, tab, flags>>

-----------------------------------------------------------------------------
Init ==
  /\ team \in [Players -> Teams \cup {NoTeam}] /\ active = Players
  /\ seat \in [Players -> {"none", "selected"}] /\ role = seat
  /\ \A p \in Players : seat[p] = "selected" => p \in Legacy /\ Playing(p)
  /\ side = [p \in Players |-> NoTeam]
  /\ request = [r \in Rows |-> "none"]
  /\ target = [r \in Rows |-> NoTeam] /\ source = target
  /\ due = [r \in Rows |-> NoTime]
  /\ tab = [p \in Players |-> NoTeam]
  /\ flags = {} /\ now = 0

SeatStep ==
  \/ \E P \in SUBSET Players, who \in Staff :
       \/ Select(P, who)
       \/ \E s \in Sides : CopyPrevious(P, s, who) \/ AutoBuild(P, s, who)
  \/ \E p \in Players :
       \/ \E who \in Staff \cup {Self} :
            Confirm(p, who) \/ Reconfirm(p, who) \/ BackOut(p, who)
       \/ \E who \in Staff : Remove(p, who)

RequestStep == \E p \in Players :
  \/ \E who \in Staff \cup {Self} :
       \/ \E t \in Sides : Enroll(p, t, who)
       \/ Accept(p, who) \/ AcceptLate(p, who) \/ Decline(p, who) \/ Withdraw(p, who)
  \/ \E who \in Staff :
       \/ \E asked \in {NoTime, now + Window} : Offer(p, who, asked)
       \/ Override(p, who) \/ OverrideLate(p, who)
  \/ Look(p)

WorldStep ==
  \/ Lock \/ Unlock \/ CancelGame \/ Archive \/ Reopen \/ Tick
  \/ \E p \in Players :
       Deactivate(p) \/ Reactivate(p) \/ \E t \in Teams \cup {NoTeam} : Move(p, t)

Next == SeatStep \/ RequestStep \/ WorldStep
Spec == Init /\ [][Next]_vars

-----------------------------------------------------------------------------
(* Properties.                                                             *)

TypeOK ==
  /\ team \in [Players -> Teams \cup {NoTeam}] /\ active \in SUBSET Players
  /\ seat \in [Players -> Occupying \cup {"none", "unavailable", "removed"}]
  /\ side \in [Players -> Sides \cup {NoTeam}]
  /\ role \in [Players -> {"none", "selected", "substitute"}]
  /\ request \in [Rows -> {"none"} \cup OpenStates \cup Settled]
  /\ target \in [Rows -> Sides \cup {NoTeam}]
  /\ source \in [Rows -> {NoTeam, Third}]
  /\ due \in [Rows -> Nat \cup {NoTime}]
  /\ tab \in [Players -> Sides \cup {NoTeam}]
  /\ flags \in SUBSET {"locked", "cancelled", "archived"}
  /\ now \in Nat

\* A player never has two live candidacies in one game
\* (_active_substitute_for_player raises integrity_conflict on two, and every
\* handler of that player would then refuse).
OneOpenRequest == \A p \in Players : \A q, r \in OpenRows(p) : q = r

\* "Game cancelled: substitute enrollments cancelled" (docs/product/
\* substitute-use-case.md): none is left open, and none opens afterwards.
CancelledHasNoOpenRequest ==
  "cancelled" \in flags => \A p \in Players : OpenRows(p) = {}

\* A seat held as a substitute is explained by exactly one accepted request of
\* that player, and a cross-team one names the side the seat is on: what
\* accepted_cross_team_roster_entry relies on to let the borrowed player back.
SubstituteSeatExplained == \A p \in Players :
  /\ role[p] = "substitute" =>
       \E r \in AcceptedRows(p) : IsCross(r) => side[p] = target[r]
  /\ \A q, r \in AcceptedRows(p) : q = r
  /\ AcceptedRows(p) # {} => seat[p] # "none"

\* A cross-team offer ends no later than the game starts (offer_substitute's
\* server-controlled expiry).
CrossOfferEndsByStart == \A r \in Rows :
  IsCross(r) /\ request[r] = "offered" => due[r] # NoTime /\ due[r] <= Start

\* The rows every handler of the game trusts when it reads them.
RosterSound ==
  /\ TypeOK
  /\ OneOpenRequest
  /\ CancelledHasNoOpenRequest
  /\ SubstituteSeatExplained
  /\ CrossOfferEndsByStart

-----------------------------------------------------------------------------
\* "Two substitutes accept the same slot: first accepted wins": a step that
\* leaves more players on a side than its target adds only players a coach
\* selected by name, never a substitute, a returning player or an auto-build.
FirstAcceptedWins == [][\A s \in Sides, p \in Players :
  LET after == {q \in Players : seat'[q] \in Occupying /\ side'[q] \in {s, NoTeam}}
  IN  p \in after \ Occupants(s) /\ Cardinality(after) > Target => seat'[p] = "selected"]_vars

\* A row becomes confirmed only on the side its player belongs to, or on the
\* side an accepted request lent the player to, while the lending stint holds
\* and the game has not started (_authorize_seated_side).
ConfirmedWhereEntitled == [][\A p \in Players :
  seat'[p] = "confirmed" /\ seat[p] # "confirmed" =>
    \/ side'[p] \in Sides /\ side'[p] = team[p]
    \/ /\ now < Start
       /\ \E r \in AcceptedRows(p) : target[r] = side'[p] /\ source[r] = team[p]]_vars

\* Locked, cancelled or archived, a game keeps its roster and its requests;
\* only cancelling ends requests then (_guard_mutable).
ClosedRosterFrozen == [][flags # {} =>
  /\ UNCHANGED <<entries, target, source, due>>
  /\ \A r \in Rows : request'[r] \in {request[r], "cancelled"}
  /\ "cancelled" \notin flags' \ flags => UNCHANGED request]_vars

\* Nobody joins the other team on a cross-team request whose time is over,
\* by whatever route (accept, override), nor is one offered.
LateCrossRequestJoinsNobody == [][\A r \in Rows :
  IsCross(r) /\ CrossLate(r) /\ request'[r] # request[r] =>
    request'[r] \notin {"accepted", "offered"}]_vars

\* A player who answers from a page is seated where the page said: on the team
\* it named, or, when it named none, on the player's own side.
AnsweredAsShown == [][\A p \in Players : Accept(p, Self) =>
  side'[p] = IF tab[p] = NoTeam THEN team[p] ELSE tab[p]]_vars

\* A coach's roster and attendance calls leave the rows of the other side as
\* they were, rows without a side included.
CoachLeavesOtherSideAlone == [][\A s \in Sides, p \in Players :
  /\ seat[p] \in Occupying /\ side[p] # s
  /\ \/ \E P \in SUBSET Players :
          Select(P, s) \/ \E t \in Sides : CopyPrevious(P, t, s) \/ AutoBuild(P, t, s)
     \/ \E q \in Players : Confirm(q, s) \/ BackOut(q, s) \/ Remove(q, s)
  => <<seat[p], side[p], role[p]>>' = <<seat[p], side[p], role[p]>>]_vars

\* Deactivating a player stops every new seat: a step that seats a player who
\* held none finds the player active, unless it is the player's own return or
\* the coach's answer for one who backed out.
InactiveNotNewlySeated == [][\A p \in Players :
  seat[p] \in {"none", "removed"} /\ seat'[p] \in Occupying => p \in active]_vars

\* A player comes to a seat only where, when and as he is entitled to it.
SeatingSound ==
  /\ ConfirmedWhereEntitled
  /\ LateCrossRequestJoinsNobody
  /\ AnsweredAsShown
  /\ InactiveNotNewlySeated

\* The requests keep the promise of SubstituteRequests.
Promise == INSTANCE SubstituteRequests WITH
  rostered <- {p \in Players : seat[p] # "none"},
  closed <- flags # {}
PromiseKept == Promise!Spec

=============================================================================
