------------------------------ MODULE GameViews ------------------------------
(***************************************************************************)
(* What the reads of one game show of the rows GameRoster keeps: the two   *)
(* lineups, the roster, the substitutes and the status of a side, the      *)
(* coach's pickers, and the player's home page.  services/                 *)
(* lineup_visibility.py decides who is answered what.                      *)
(*                                                                         *)
(* E is the set of players whose roster rows are read and Q the set of     *)
(* request rows that are: leaving some out asks what an answer would have  *)
(* been had those rows not existed.  Names, jerseys and availability rows  *)
(* are left out.                                                           *)
(***************************************************************************)
EXTENDS GameRoster, TLC

\* A viewer is a side, whose coach or player it is, or one of these two.
ASSUME ViewersAssumption == {"operator", "official"} \cap Teams = {}

Seated(E, s) == {p \in E : seat[p] # "none" /\ side[p] = s}
Sub(Q) == {r \in Q : request[r] # "none"}

-----------------------------------------------------------------------------
(* Who reads what.                                                         *)

\* side_projections, for a viewer whose own team in this game is known (coach,
\* player), an official assigned to it, or an operator of the league.
Projection(viewer, s) ==
  CASE viewer = "operator" -> "full"
    [] viewer = "official" -> "submitted_lineup"
    [] viewer = s -> "full"
    [] OTHER -> "restricted"

\* route_audience, of the reads with one answer for the whole game.
Audience(viewer) ==
  CASE viewer = "operator" -> "full"
    [] viewer = "official" -> "submitted_lineup"
    [] viewer \in Sides -> "own_side"
    [] OTHER -> "restricted"

\* resolve_private_game_read: a coach reads as his team, an active player as
\* the team he plays for in this game.
\* The sides whose rows the roster, substitutes and status reads show.
ShownSides(viewer) ==
  CASE Audience(viewer) = "full" -> Sides \cup {NoTeam}
    [] Audience(viewer) = "own_side" -> {viewer}
    [] OTHER -> {}

-----------------------------------------------------------------------------
(* One side's lineup.                                                      *)

\* _lineup_substitutes: of a player's rows the live one, else the last.
Standing(p, Q) ==
  LET mine == {r \in Sub(Q) : Owner(r) = p}
      live == {r \in mine : request[r] \in OpenStates}
  IN IF live # {} THEN live ELSE {r \in mine : \A q \in mine : q[2] <= r[2]}
OwnedSub_OfEither(p, s, Q) == Standing(p, Q)
\* owned_sub: that one row, if it asks for this side.
OwnedSub(p, s, Q) == {r \in Standing(p, Q) : target[r] = s}
LiveSub(p, s, Q) == {r \in OwnedSub(p, s, Q) : request[r] \in OpenStates}

\* cross_team_game_block_reason.
CrossReady == Mutable /\ now < Start
LiveFor(p, r, s) == IF IsCross(r) THEN CrossHolds(p, r) ELSE team[p] = s

\* lineup_population: the seated of this side, its live substitutes, then the
\* members neither seated on it nor asking for it.
Group(p, s, E, Q) ==
  CASE p \in Seated(E, s) -> "selected"
    [] p \notin Seated(E, s) /\ LiveSub(p, s, Q) # {} -> "substitute"
    [] p \notin Seated(E, s) /\ LiveSub(p, s, Q) = {} /\ team[p] = s -> "candidate"
    [] OTHER -> "none"

Eligible(p, s, group, Q) ==
  IF group = "substitute"
  THEN \A r \in LiveSub(p, s, Q) :
         IF IsCross(r) THEN p \in active /\ CrossHolds(p, r) /\ CrossReady ELSE team[p] = s
  ELSE team[p] = s

LineupRow(p, s, group, Q) ==
  [group |-> group,
   status |-> IF group = "selected" THEN seat[p] ELSE "none",
   eligible |-> Eligible(p, s, group, Q),
   sub_status |-> {request[r] : r \in OwnedSub(p, s, Q)}]
Lineup(s, E, Q) ==
  LET group == [p \in Players |-> Group(p, s, E, Q)]
  IN [p \in {q \in Players : group[q] # "none"} |-> LineupRow(p, s, group[p], Q)]

\* _submitted_lineup_rows: the seated who have not backed out, without what
\* the coach's work with candidates and substitutes would tell.
Sheet(s, E, Q) ==
  [p \in {q \in Players : Group(q, s, E, Q) = "selected" /\ seat[q] \in Occupying} |-> seat[p]]

-----------------------------------------------------------------------------
(* One side's numbers: _side_data and _derive_status.                      *)

Counted(s, E) == {p \in E : seat[p] # "none" /\ side[p] \in {s, NoTeam}}
Filled(s, E) == {p \in Counted(s, E) : seat[p] \in Occupying}
Matched(s, Q) == {r \in Sub(Q) : target[r] = s /\ LiveFor(Owner(r), r, s)}
Enrolled(s, Q) == Cardinality({r \in Matched(s, Q) : request[r] = "enrolled"})
Open(s, E) ==
  LET filled == Cardinality(Filled(s, E)) IN IF filled < Target THEN Target - filled ELSE 0

GameStatus(s, E, Q) ==
  LET filled == Filled(s, E)
  IN CASE "cancelled" \in flags -> "final"
       [] "cancelled" \notin flags /\ filled = {} -> "draft"
       [] "cancelled" \notin flags /\ filled # {} /\ "locked" \in flags -> "locked"
       [] OTHER -> IF Open(s, E) > 0
                   THEN IF Enrolled(s, Q) > 0 THEN "needs_substitute" ELSE "open_slot"
                   ELSE IF \A p \in filled : seat[p] \in {"confirmed", "accepted"}
                        THEN "roster_confirmed" ELSE "awaiting_responses"

Numbers(s, E, status, enrolled) ==
  [open |-> Open(s, E), status |-> status, enrolled |-> enrolled,
   confirmed |-> Cardinality({p \in Filled(s, E) : seat[p] \in {"confirmed", "accepted"}})]
RosterStatus(s, E, Q) == Numbers(s, E, GameStatus(s, E, Q), Enrolled(s, Q))

\* _submitted_lineup_status: an open slot says nothing of who could fill it.
SheetStatus(s, E, Q) ==
  LET status == GameStatus(s, E, Q)
  IN Numbers(s, E, IF status = "needs_substitute" THEN "open_slot" ELSE status, 0)

-----------------------------------------------------------------------------
(* The whole answers.                                                      *)

\* get_lineups, and get_board for one side of it.
LineupSide(viewer, s, E, Q) ==
  CASE Projection(viewer, s) = "full" ->
         [status |-> RosterStatus(s, E, Q), lineup |-> Lineup(s, E, Q)]
    [] Projection(viewer, s) = "submitted_lineup" ->
         [status |-> SheetStatus(s, E, Q), lineup |-> Sheet(s, E, Q)]
    [] OTHER -> <<>>

\* get_roster, get_substitutes and get_roster_status.
RosterRead(viewer, E, Q) ==
  IF Audience(viewer) = "submitted_lineup" THEN [s \in Sides |-> Sheet(s, E, Q)]
  ELSE {<<p, seat[p]>> : p \in {q \in E : seat[q] # "none" /\ side[q] \in ShownSides(viewer)}}
SubstitutesRead(viewer, Q) ==
  {<<r, request[r]>> : r \in {q \in Sub(Q) : target[q] \in ShownSides(viewer)}}
StatusRead(viewer, E, Q) ==
  CASE Audience(viewer) = "own_side" -> RosterStatus(viewer, E, Q)
    [] Audience(viewer) = "full" -> RosterStatus(Home, E, Q)
    [] OTHER -> <<>>

\* list_substitute_candidates, of the side _workflow_side trusts.
Candidates(s, Q) ==
  {r \in Sub(Q) : /\ target[r] = s /\ Owner(r) \in active /\ LiveFor(Owner(r), r, s)
                  /\ IsCross(r) => CrossReady}
CanOffer(r, s, E) ==
  /\ request[r] = "enrolled" /\ flags \cap {"locked", "cancelled"} = {}
  /\ Open(s, E) > 0

Answers(viewer, E, Q) ==
  [lineups |-> [s \in Sides |-> LineupSide(viewer, s, E, Q)],
   roster |-> RosterRead(viewer, E, Q),
   substitutes |-> SubstitutesRead(viewer, Q),
   roster_status |-> StatusRead(viewer, E, Q),
   candidates |-> IF viewer \in Sides
                  THEN {<<r, CanOffer(r, viewer, E)>> : r \in Candidates(viewer, Q)} ELSE {}]

-----------------------------------------------------------------------------
(* What a page lets its reader do.                                         *)

\* substitute_block_reason is None, for the player's own side.
Substitutable(p) ==
  /\ p \in active /\ Playing(p) /\ flags \cap {"locked", "cancelled"} = {}
  /\ now <= Start /\ seat[p] = "none" /\ Open(team[p], Players) > 0
\* cross_team_substitute_block_reason is None, for a fresh request or for r.
CrossSubstitutable(p) == p \in active /\ CrossReady /\ seat[p] = "none"

\* list_substitute_opportunities, list_cross_team_substitute_opportunities and
\* the detail page's can_accept: the teams the player may ask to play for.
Opportunities(p) ==
  IF OpenRows(p) # {} THEN {}
  ELSE {s \in Sides : \/ Substitutable(p) /\ s = team[p]
                      \/ CrossSubstitutable(p) /\ team[p] = Third}

\* list_addable_players.
Addable(s) == {p \in active : team[p] = s /\ OpenRows(p) = {} /\ Substitutable(p)}

\* list_player_offer_choices, and substitute_offer_block_reason is None.
OfferShown(p, r) ==
  /\ r \in OpenRows(p) /\ request[r] = "offered"
  /\ IsCross(r) \/ (p \in active /\ "cancelled" \notin flags /\ now <= Start /\ Playing(p))
OfferExpired_AfterIt(r) == due[r] # NoTime /\ now > due[r]
OfferExpired(r) ==
  due[r] # NoTime /\ IF IsCross(r) THEN now >= due[r] ELSE now > due[r]
CanAccept(p, r) ==
  /\ OfferShown(p, r) /\ ~OfferExpired(r)
  /\ IF IsCross(r)
     THEN CrossHolds(p, r) /\ CrossSubstitutable(p) /\ Open(target[r], Players) > 0
     ELSE Substitutable(p)

\* get_player_home: the player's own cross-team request, until it is offered.
CanWithdraw(p, r) == r \in OpenRows(p) /\ request[r] = "enrolled" /\ IsCross(r) /\ Mutable
CanDecline(p, r) == OfferShown(p, r) /\ Mutable

\* The page names this choice when its reader acts on r.
Choice(r) == IF IsCross(r) THEN target[r] ELSE NoTeam

-----------------------------------------------------------------------------
\* The player asks side o now, or did after he last asked side s.
TurnedTo(p, o, s) == \E r \in Sub(Rows) :
  /\ Owner(r) = p /\ target[r] = o
  /\ \/ request[r] \in OpenStates
     \/ \A q \in Sub(Rows) : Owner(q) = p /\ target[q] = s => q[2] < r[2]

\* A lineup row whose badge of a settled request gave way to such a request.
Overtaken(row, p, o, s) ==
  IF row.sub_status \cap OpenStates = {} /\ TurnedTo(p, o, s)
  THEN [row EXCEPT !.sub_status = {}] ELSE row

\* lineup_visibility.py: "the acceptance boundary is the caller's obtainable
\* private game state": what a coach or player of one side is answered is what
\* he would be answered had the other side seated nobody and been asked by
\* nobody, whatever led to the rows, but for one thing: the badge of a settled
\* request disappears when its player turns to the other side afterwards (one
\* row per player is kept before the side is looked at).  No live request
\* disappears, nothing is added, and no answer an official can obtain depends on
\* any request.
OtherSideHidesOnly ==
  /\ \A s, o \in Sides : s # o =>
       \E E \in {Players \ Seated(Players, o)}, Q \in {{r \in Rows : target[r] # o}} :
         Answers(s, Players, Rows) =
           [Answers(s, E, Q) EXCEPT
              !.lineups[s].lineup = [p \in DOMAIN @ |-> Overtaken(@[p], p, o, s)]]
  /\ Answers("official", Players, Rows) = Answers("official", Players, {})

\* What a page offers to do, the handler it calls then does: no dead button.
\* (The own-side lists do not look at the season's archive; the handlers do.)
ListedIsDoable == \A p \in Players :
  /\ \A s \in Opportunities(p) :
       NextRow(p) # {} /\ Writable => ENABLED Enroll(p, s, Self)
  /\ \A s \in Sides : p \in Addable(s) /\ NextRow(p) # {} /\ Writable => ENABLED Enroll(p, s, s)
  /\ \A r \in OpenRows(p) :
       /\ tab[p] = Choice(r) =>
            /\ CanAccept(p, r) /\ (Writable \/ IsCross(r)) => ENABLED Accept(p, Self)
            /\ CanDecline(p, r) => ENABLED Decline(p, Self)
            /\ CanWithdraw(p, r) => ENABLED Withdraw(p, Self)
       /\ \A s \in Sides :
            r \in Candidates(s, Rows) /\ CanOffer(r, s, Players) /\ Writable
              => ENABLED Offer(p, s, NoTime)
-----------------------------------------------------------------------------
\* For TLC: players are alike, in what they held before as well, and nothing
\* GameRoster does and no answer compared here tells Home from Away.
Symmetry == Permutations(Players) \cup Permutations(Sides)
=============================================================================
