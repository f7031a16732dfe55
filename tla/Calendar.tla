------------------------------- MODULE Calendar --------------------------------
(***************************************************************************)
(* The schedule as one caller at a time sees it: games, the ice they hold, *)
(* scheduling policies and archived Seasons, with every call of            *)
(* services/setup_service.py atomic.  GameSchedule is the same program     *)
(* with its transactions, and implements this module.                      *)
(*                                                                         *)
(* An ice slot has a rink and a time; slots of equal time overlap, a slot  *)
(* at time t ends exactly when one at t + 1 starts.  Of the policy fields  *)
(* only resurfacing is kept, as "none" (0 minutes) or "buffer" (longer     *)
(* than nothing, shorter than a slot); "inherit" is a row or field that is *)
(* not set.  Registrations, venue access, rosters and results never refuse *)
(* here.                                                                   *)
(***************************************************************************)
EXTENDS Naturals

CONSTANTS
  Games, Slots, Seasons,
  NoSlot,        \* ice_slot_id of a game without ice
  RinkOf, When,  \* slot -> rink, slot -> time
  SeasonOf,      \* game -> season
  TeamsOf,       \* game -> its two teams
  ProgramOf,     \* season -> program
  PolicyScopes,  \* rows <<kind, id>> whose policy is edited
  Calendars      \* games, as the schedule may stand at the start

ASSUME SlotAssumption == NoSlot \notin Slots /\ When \in [Slots -> Nat]
ASSUME SeasonAssumption == SeasonOf \in [Games -> Seasons]

VARIABLES
  game,       \* game -> its row
  allocated,  \* slots whose status is ALLOCATED
  policy,     \* scope -> resurfacing
  archived    \* seasons

tables == <<game, allocated, policy, archived>>

Program == 1
Team == 2
Rink == 3
Season == 4

Row == [life : {"none", "live", "cancelled", "deleted"}, slot : Slots \cup {NoSlot},
        published : BOOLEAN, draft : BOOLEAN]
Absent(life) == [life |-> life, slot |-> NoSlot, published |-> FALSE, draft |-> FALSE]

\* Overlap on one rink, or of two games with a team in common.
Clash(g, s, h, t) ==
  /\ When[s] = When[t]
  /\ RinkOf[s] = RinkOf[t] \/ TeamsOf[g] \cap TeamsOf[h] # {}

ASSUME CalendarsAssumption ==
  \A c \in Calendars :
    /\ c \in [Games -> Row]
    /\ \A g \in Games : c[g].slot # NoSlot <=> c[g].life = "live"
    /\ \A g \in Games : c[g].draft => c[g].life # "none"
    /\ \A g, h \in Games : g # h /\ c[g].slot # NoSlot /\ c[h].slot # NoSlot
         => c[g].slot # c[h].slot /\ ~Clash(g, c[g].slot, h, c[h].slot)

TypeOK ==
  /\ game \in [Games -> Row]
  /\ allocated \subseteq Slots
  /\ policy \in [PolicyScopes -> {"inherit", "none", "buffer"}]
  /\ archived \subseteq Seasons

-----------------------------------------------------------------------------
(* The placement gate, _assert_slot_free_for_game.                         *)

Slotted == {g \in Games : game[g].slot # NoSlot}
Writable(g) == SeasonOf[g] \notin archived

Policy(scope) == IF scope \in PolicyScopes THEN policy[scope] ELSE "inherit"
\* The first scope that sets the field decides: Rink, Season, Program.
Buffered(rink, season) ==
  LET r == Policy(<<Rink, rink>>)
      s == Policy(<<Season, season>>)
      p == Policy(<<Program, ProgramOf[season]>>)
  IN  "buffer" = IF r # "inherit" THEN r ELSE IF s # "inherit" THEN s ELSE p

\* The earlier of two adjacent games owes the later one its resurfacing.
Crowds(g, s, h, t) ==
  /\ RinkOf[s] = RinkOf[t]
  /\ \/ When[t] = When[s] + 1 /\ Buffered(RinkOf[s], SeasonOf[g])
     \/ When[s] = When[t] + 1 /\ Buffered(RinkOf[t], SeasonOf[h])

Fits(g, s) ==
  /\ s \notin allocated
  /\ \A h \in Slotted \ {g} :
       LET t == game[h].slot IN s # t /\ ~Clash(g, s, h, t) /\ ~Crowds(g, s, h, t)

-----------------------------------------------------------------------------
(* What a call leaves in the tables, whoever decided it might.             *)

Moved(row, s) ==
  [life |-> row.life, slot |-> s, published |-> FALSE, draft |-> row.draft]
CalledOff(row) ==
  [life |-> "cancelled", slot |-> NoSlot, published |-> row.published, draft |-> row.draft]
Shown(row, isPublic) ==
  [life |-> row.life, slot |-> row.slot, published |-> isPublic, draft |-> row.draft]
Released(row) ==
  [life |-> row.life, slot |-> row.slot, published |-> TRUE, draft |-> FALSE]
Ice(P) == {game[g].slot : g \in P} \cap Slots

PlaceRow(g, s, isDraft) ==
  /\ game' = [game EXCEPT ![g] = [life |-> "live", slot |-> s, published |-> FALSE, draft |-> isDraft]]
  /\ allocated' = allocated \cup {s}
  /\ UNCHANGED <<policy, archived>>
MoveRow(g, row, s) ==
  /\ game' = [game EXCEPT ![g] = Moved(row, s)]
  /\ allocated' = (allocated \ {row.slot}) \cup {s}
  /\ UNCHANGED <<policy, archived>>
CancelRow(g, row) ==
  /\ game' = [game EXCEPT ![g] = CalledOff(row)]
  /\ allocated' = allocated \ {row.slot}
  /\ UNCHANGED <<policy, archived>>
PublishRow(g, row, isPublic) ==
  /\ game' = [game EXCEPT ![g] = Shown(row, isPublic)]
  /\ UNCHANGED <<allocated, policy, archived>>
PublishRows(P) ==
  /\ game' = [g \in Games |-> IF g \in P THEN Released(game[g]) ELSE game[g]]
  /\ allocated' = allocated \cup Ice(P)
  /\ UNCHANGED <<policy, archived>>
RemoveRows(P) ==
  /\ game' = [g \in Games |-> IF g \in P THEN Absent("deleted") ELSE game[g]]
  /\ allocated' = allocated \ Ice(P)
  /\ UNCHANGED <<policy, archived>>
SetPolicyRow(scope, value) ==
  /\ policy[scope] # value
  /\ policy' = [policy EXCEPT ![scope] = value]
  /\ UNCHANGED <<game, allocated, archived>>
ArchiveRow(z) ==
  /\ z \notin archived
  /\ archived' = archived \cup {z}
  /\ UNCHANGED <<game, allocated, policy>>
ReopenRow(z) ==
  /\ z \in archived
  /\ archived' = archived \ {z}
  /\ UNCHANGED <<game, allocated, policy>>

-----------------------------------------------------------------------------
(* When a call may, taken alone.                                           *)

Exists(g) == game[g].life \in {"live", "cancelled"}
Drafts == {g \in Games : game[g].draft}

Place(g, s, isDraft) ==
  game[g].life = "none" /\ Writable(g) /\ Fits(g, s) /\ PlaceRow(g, s, isDraft)
Move(g, s) ==
  game[g].life = "live" /\ Writable(g) /\ Fits(g, s) /\ MoveRow(g, game[g], s)
Cancel(g) == game[g].life = "live" /\ Writable(g) /\ CancelRow(g, game[g])
Publish(g) == game[g].life = "live" /\ Writable(g) /\ PublishRow(g, game[g], TRUE)
Unpublish(g) == Exists(g) /\ Writable(g) /\ PublishRow(g, game[g], FALSE)
PublishDrafts(P) ==
  (\A g \in P : game[g].life = "live" /\ Writable(g)) /\ PublishRows(P)
Remove(P) == (\A g \in P : Writable(g)) /\ RemoveRows(P)

Init ==
  /\ game \in Calendars
  /\ allocated = Ice(Games)
  /\ policy = [r \in PolicyScopes |-> "inherit"]
  /\ archived = {}

Next ==
  \/ \E g \in Games, s \in Slots : Move(g, s) \/ \E d \in BOOLEAN : Place(g, s, d)
  \/ \E g \in Games : Cancel(g) \/ Publish(g) \/ Unpublish(g)
  \/ \E P \in SUBSET Drafts : PublishDrafts(P) \/ Remove(P)
  \/ \E r \in PolicyScopes, v \in {"inherit", "none", "buffer"} : SetPolicyRow(r, v)
  \/ \E z \in Seasons : ArchiveRow(z) \/ ReopenRow(z)

Spec == Init /\ [][Next]_tables

-----------------------------------------------------------------------------
(* A slot reads ALLOCATED exactly while a live game holds it, and no two   *)
(* games hold one slot: ice is neither leaked nor given twice by move,     *)
(* cancel, discard and delete.                                             *)
IceMatchesGames ==
  /\ Slotted = {g \in Games : game[g].life = "live"}
  /\ allocated = {game[g].slot : g \in Slotted}
  /\ \A g, h \in Slotted : game[g].slot = game[h].slot => g = h

(* No two games overlap on a rink or for a team, whichever path placed     *)
(* them: the promise of _assert_slot_free_for_game and its locks.          *)
NoClash ==
  \A g, h \in Slotted : g # h => ~Clash(g, game[g].slot, h, game[h].slot)
================================================================================
