------------------------------ MODULE GameContexts ------------------------------
(***************************************************************************)
(* Which side of a game a player plays for, why a player plays for         *)
(* neither, and what the two batches that fill a side's roster make of it  *)
(* (services/roster_service.py, services/membership_spine.py).  A pure     *)
(* function of the rows it reads: what is hard is that a player may hold   *)
(* several memberships, read in whatever order the store returns them, by  *)
(* two resolvers, one player at a time or all of a game's at once.         *)
(*                                                                         *)
(* A person's rows are a sequence, and a row's place in it is its id; an   *)
(* order is a sequence of those places.  A bucket keeps one row for a      *)
(* status and a team, or none, 0.                                          *)
(***************************************************************************)
EXTENDS Integers, SequencesExt, FiniteSetsExt

CONSTANTS
  People,       \* in the order of their names
  Home, Away,   \* the game's two teams
  NoTeam,       \* a roster row without a side
  Questions,    \* [game, broken, people, bench, prior, target]
  Unasked

Sides == <<Home, Away>>
Slots == {"goalie", "skater"}
ParticipationGranting == <<"active", "affiliate">>
Ineligible == <<"transferred", "released", "inactive", "injured", "applicant">>

\* Which reason wins when several apply, the most specific first.
Spine == <<"team_missing", "season_missing", "league_mismatch", "program_mismatch",
           "registration_conflict", "not_registered">>
SkipReasons ==
  <<"prior_seat_unattributed", "league_season_missing", "player_missing", "season_mismatch">>
  \o Spine \o Ineligible
  \o <<"other_team", "other_side", "other_league_season", "no_membership", "player_inactive">>
Rank(reason) == CHOOSE i \in DOMAIN SkipReasons : SkipReasons[i] = reason

-----------------------------------------------------------------------------
(* The rows a person holds *)

IdsOf(q, p) == DOMAIN q.people[p].rows
InOrder(q, p) == [i \in IdsOf(q, p) |-> i]
Here(q, p, order) == SelectSeq(order, LAMBDA i : q.people[p].rows[i].here)
OnSides(q, p, order) ==
  SelectSeq(Here(q, p, order), LAMBDA i : q.people[p].rows[i].team \in {Home, Away})

\* The first leg between the league's season and the team that does not hold.
SideSpineBreak(q, team) ==
  LET broken == SelectSeq(Spine, LAMBDA leg : leg \in q.broken[team])
  IN IF broken = <<>> THEN "none" ELSE Head(broken)
RowReason(q, p, i) ==
  LET m == q.people[p].rows[i] IN
  IF ~m.season THEN "season_mismatch" ELSE SideSpineBreak(q, m.team)

-----------------------------------------------------------------------------
(* Buckets.  Of the rows with one status and one team the lowest id stays, *)
(* or, of those that fail, the one whose reason ranks first.               *)

Kept(q, p, ids, better) ==
  LET Keep(bucket, i) ==
        LET m == q.people[p].rows[i]  current == bucket[m.status, m.team] IN
        IF current = 0 \/ <<i, current>> \in better THEN [bucket EXCEPT ![m.status, m.team] = i] ELSE bucket
  IN FoldLeft(Keep, [key \in Range(ParticipationGranting \o Ineligible) \X {Home, Away} |-> 0], ids)
KeepLowestId(q, p, ids) ==
  Kept(q, p, ids, {pair \in Range(ids) \X Range(ids) : pair[1] < pair[2]})
KeepBestReason(q, p, ids) ==
  LET rank == [i \in Range(ids) |-> Rank(RowReason(q, p, i))] IN
  Kept(q, p, ids, {pair \in Range(ids) \X Range(ids) :
    \/ rank[pair[1]] < rank[pair[2]]
    \/ rank[pair[1]] = rank[pair[2]] /\ pair[1] < pair[2]})

\* Status before side, the home side first.
Walk(statuses) == [i \in 1..(2 * Len(statuses)) |-> <<statuses[(i + 1) \div 2], Sides[2 - (i % 2)]>>]
Found(bucket, statuses) == SelectSeq(Walk(statuses), LAMBDA key : bucket[key] # 0)
PickMembership(bucket, statuses) ==
  LET found == Found(bucket, statuses) IN IF found = <<>> THEN 0 ELSE bucket[Head(found)]

\* Across the buckets the reasons' order decides first, and the walk after it.
PickReason_ByStatus(q, p, bucket) == PickMembership(bucket, ParticipationGranting)
PickReason(q, p, bucket) ==
  LET found == Found(bucket, ParticipationGranting)
      RankOf(key) == Rank(RowReason(q, p, bucket[key]))
      best == Min({RankOf(found[i]) : i \in DOMAIN found})
  IN IF found = <<>> THEN 0 ELSE bucket[Head(SelectSeq(found, LAMBDA key : RankOf(key) = best))]

-----------------------------------------------------------------------------
(* The two resolvers *)

Context(team, row) == [team |-> team, row |-> row, reason |-> "none"]
Refusal(reason) == [team |-> NoTeam, row |-> 0, reason |-> reason]

Granting(q, p, i) == q.people[p].rows[i].status \in Range(ParticipationGranting)
Valid(q, p, i) == Granting(q, p, i) /\ RowReason(q, p, i) = "none"

\* One player: the context, or the reason there is none.
Resolve(q, p, order) ==
  LET person == q.people[p]
      rows == OnSides(q, p, order)
      valid == KeepLowestId(q, p, SelectSeq(rows, LAMBDA i : Valid(q, p, i)))
      raw == KeepBestReason(q, p, SelectSeq(rows, LAMBDA i : Granting(q, p, i) /\ ~Valid(q, p, i)))
      parked == KeepLowestId(q, p, SelectSeq(rows, LAMBDA i : ~Granting(q, p, i)))
      chosen == PickMembership(valid, ParticipationGranting)
      failed == PickReason(q, p, raw)
      ended == PickMembership(parked, Ineligible)
  IN CASE q.game = "unbound" -> IF person.team \in {Home, Away} THEN Context(person.team, 0)
                                ELSE Refusal("no_membership")
       [] q.game # "bound" -> Refusal(q.game)
       [] ~person.exists -> Refusal("player_missing")
       [] chosen # 0 -> Context(person.rows[chosen].team, chosen)
       [] failed # 0 -> Refusal(RowReason(q, p, failed))
       [] ended # 0 -> Refusal(person.rows[ended].status)
       [] Here(q, p, order) # <<>> -> Refusal("other_team")
       [] order # <<>> -> Refusal("other_league_season")
       [] OTHER -> Refusal("no_membership")

\* All of a game's players: the rows of each side whose spine holds.
ContextsForGame(q, p, order) ==
  LET held == SelectSeq(OnSides(q, p, order), LAMBDA i :
                /\ SideSpineBreak(q, q.people[p].rows[i].team) = "none"
                /\ Granting(q, p, i) /\ q.people[p].rows[i].season)
      chosen == PickMembership(KeepLowestId(q, p, held), ParticipationGranting)
  IN IF q.game # "bound" \/ ~q.people[p].exists THEN 0 ELSE chosen

SeatingBlockReason(q, p) ==
  LET reason == Resolve(q, p, InOrder(q, p)).reason IN
  IF reason = "none" /\ ~q.people[p].active THEN "player_inactive" ELSE reason

-----------------------------------------------------------------------------
(* The batches: who is a candidate, who of them is seatable, who is seated *)

PriorCandidates(prior, s) == {p \in People : prior[p] \in {s, NoTeam}}
\* The newest earlier game of the side that names anyone.
NewestPrior(q, s) ==
  LET named == SelectSeq(q.prior, LAMBDA prior : PriorCandidates(prior, s) # {})
  IN IF named = <<>> THEN [p \in People |-> "absent"] ELSE Head(named)
CopyCandidates(q, s) == PriorCandidates(NewestPrior(q, s), s)
AutoBuildCandidates(q, s) ==
  {p \in People : \/ q.people[p].exists /\ q.people[p].team = s
                  \/ \E i \in IdsOf(q, p) : q.people[p].rows[i].team = s}
OrderedCandidates(P) == SetToSortSeq(P, <)

\* The side a player would be seated on, from the game's contexts at once.
ContextTeam(q, p) ==
  IF q.game = "unbound" THEN Resolve(q, p, InOrder(q, p)).team
  ELSE LET row == ContextsForGame(q, p, InOrder(q, p)) IN
       IF row = 0 THEN NoTeam ELSE q.people[p].rows[row].team

Verdict(q, s, p, unattributed) ==
  CASE p \in unattributed -> "prior_seat_unattributed"
    [] ~q.people[p].exists -> "player_missing"
    [] ContextTeam(q, p) = NoTeam -> SeatingBlockReason(q, p)
    [] ~q.people[p].active -> "player_inactive"
    [] ContextTeam(q, p) # s -> "other_side"
    [] OTHER -> "seatable"
Seatables(q, s, P, unattributed) ==
  SelectSeq(OrderedCandidates(P), LAMBDA p : Verdict(q, s, p, unattributed) = "seatable")

\* A row without a side is charged to both sides and both slots.
Occupied(bench, s, slot) ==
  Cardinality({p \in People : /\ bench[p].occupies
                              /\ bench[p].side = NoTeam \/ <<bench[p].side, bench[p].slot>> = <<s, slot>>})
OpenCount(q, s, slot) == Max({0, q.target[slot] - Occupied(q.bench, s, slot)})

\* Who of the seatable is seated, in their order, while their slot has room.
WithinRoom(q, s, seatable) ==
  LET Take(acc, p) ==
        LET slot == q.people[p].slot IN
        IF q.bench[p].occupies \/ acc.room[slot] <= 0 THEN acc
        ELSE [seated |-> acc.seated \cup {p}, room |-> [acc.room EXCEPT ![slot] = @ - 1]]
  IN FoldLeft(Take, [seated |-> {}, room |-> [slot \in Slots |-> OpenCount(q, s, slot)]], seatable).seated

\* What is on the bench after seating these: an occupied row stays as it is.
SeatBatch(q, s, seated) ==
  [q EXCEPT !.bench = [p \in People |->
     IF p \in seated /\ ~q.bench[p].occupies
     THEN [occupies |-> TRUE, side |-> s, slot |-> q.people[p].slot] ELSE q.bench[p]]]

AutoBuilt(q, s) == WithinRoom(q, s, Seatables(q, s, AutoBuildCandidates(q, s), {}))
AutoBuild(q, s) == SeatBatch(q, s, AutoBuilt(q, s))
Unattributed(q, s) == {p \in CopyCandidates(q, s) : NewestPrior(q, s)[p] = NoTeam}
Copied(q, s) == Range(Seatables(q, s, CopyCandidates(q, s), Unattributed(q, s)))
CopyPrevious(q, s) == SeatBatch(q, s, Copied(q, s))

-----------------------------------------------------------------------------
VARIABLE asked
ContextsInit == asked = Unasked
ContextsNext == asked = Unasked /\ asked' \in Questions

-----------------------------------------------------------------------------
(* "nothing here can fall back to store iteration order": the answer is    *)
(* the same however the store orders the rows, and both resolvers name the *)
(* same row.                                                               *)
OneAnswer(q) ==
  \A p \in People : \A order \in SetToSeqs(IdsOf(q, p)) :
    /\ Resolve(q, p, order) = Resolve(q, p, InOrder(q, p))
    /\ ContextsForGame(q, p, order) = Resolve(q, p, InOrder(q, p)).row

(* The reason for a refusal is the first, in the published order, of all   *)
(* those that the player's rows for this game's sides give.                *)
LadderGoverns(q) ==
  \A p \in People :
    LET sides == Range(OnSides(q, p, InOrder(q, p)))
        Why(i) == IF Granting(q, p, i) THEN RowReason(q, p, i) ELSE q.people[p].rows[i].status
    IN q.game = "bound" /\ q.people[p].exists /\ sides # {} =>
         \/ Resolve(q, p, InOrder(q, p)).reason = "none" /\ \E i \in sides : Valid(q, p, i)
         \/ Rank(Resolve(q, p, InOrder(q, p)).reason) = Min({Rank(Why(i)) : i \in sides})

(* A batch says of each candidate what selecting that player alone would:  *)
(* it seats those the selection takes onto this side, and gives the        *)
(* selection's own reason for the rest.                                    *)
VerdictsAsSelected(q) ==
  \A s \in {Home, Away} : \A p \in AutoBuildCandidates(q, s) :
    LET alone == SeatingBlockReason(q, p)  verdict == Verdict(q, s, p, {}) IN
    IF alone # "none" /\ q.people[p].exists THEN verdict = alone
    ELSE q.people[p].exists =>
           verdict = IF Resolve(q, p, InOrder(q, p)).team = s THEN "seatable" ELSE "other_side"

(* Filling the remaining places never takes a slot past its target, leaves *)
(* nobody out while the slot has room, and done again does nothing.        *)
FillsWhatIsOpen(q) ==
  \A s \in {Home, Away} : LET after == AutoBuild(q, s) IN
    /\ \A slot \in Slots :
         Occupied(after.bench, s, slot) <= Max({q.target[slot], Occupied(q.bench, s, slot)})
    /\ \A p \in Range(Seatables(q, s, AutoBuildCandidates(q, s), {})) :
         after.bench[p].occupies \/ OpenCount(after, s, q.people[p].slot) = 0
    /\ AutoBuilt(after, s) = {}

(* Neither batch seats anyone on the other side, nor moves a row that      *)
(* holds a place.                                                          *)
BatchKeepsToItsSide(q) ==
  \A s \in {Home, Away} : \A after \in {AutoBuild(q, s), CopyPrevious(q, s)} : \A p \in People :
    after.bench[p] # q.bench[p] =>
      ~q.bench[p].occupies /\ Resolve(q, p, InOrder(q, p)).team = s /\ after.bench[p].side = s

ContextsSound ==
  asked # Unasked =>
    /\ OneAnswer(asked) /\ LadderGoverns(asked) /\ VerdictsAsSelected(asked)
    /\ FillsWhatIsOpen(asked) /\ BatchKeepsToItsSide(asked)
================================================================================
