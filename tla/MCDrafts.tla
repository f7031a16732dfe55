------------------------------- MODULE MCDrafts -------------------------------
(***************************************************************************)
(* Two questions of the draft scheduler, each with its own teams.  "plan": *)
(* every calendar of up to MaxMeanwhile games between up to five teams,    *)
(* and every format asked of it; once a preview is shown nothing moves.    *)
(* "commit": the calendar of the first teams, one or two operators, and    *)
(* everything that can happen between a review and its commit.             *)
(***************************************************************************)
EXTENDS DraftCommit

CONSTANTS Parts, PlanSizes, PlanMeanwhile, CommitTeams, CommitMeanwhile

ASSUME MCDraftsAssumption ==
  /\ Parts \subseteq {"plan", "commit"} /\ PlanSizes \subseteq Nat /\ IsFiniteSet(CommitTeams)
  /\ 3 \in DOMAIN Ice

VARIABLE part

\* Two rinks; slots 1 and 2 overlap across rinks, 3 follows 1 on its rink, 4
\* starts after 3's buffer, 5 is the next day.
MCIce ==
  [slot \in 1 .. 5 |->
     CASE slot = 1 -> [rink |-> 1, start |-> 0, end |-> 2]
       [] slot = 2 -> [rink |-> 2, start |-> 1, end |-> 3]
       [] slot = 3 -> [rink |-> 1, start |-> 2, end |-> 4]
       [] slot = 4 -> [rink |-> 2, start |-> 5, end |-> 7]
       [] slot = 5 -> [rink |-> 1, start |-> 8, end |-> 10]]

Free == [closed |-> {}, away |-> {}, perDay |-> 0, rest |-> 0, turnaround |-> 0]
Strict == [closed |-> {}, away |-> {<<1, 1>>}, perDay |-> 2, rest |-> 2, turnaround |-> 1]

MCPolicies ==
  {[playable |-> 2, buffer |-> 0, curfew |-> 8], [playable |-> 2, buffer |-> 1, curfew |-> 6]}

\* The games of the calendar, by the number of teams.
MCPlanMeanwhile == [m \in PlanSizes |-> IF m = 5 THEN 2 ELSE 3]

Asking(format, count, slots, rules) ==
  [format |-> format, count |-> count, slots |-> slots, rules |-> rules]

PlanRequests ==
  {Asking("games", n, {}, Strict) : n \in 1 .. 4}
    \cup {Asking("meetings", n, {}, Strict) : n \in 1 .. 2}

MCRequests ==
  {Asking("meetings", 1, {3, 4, 5}, Free), Asking("games", 2, {}, Strict)}

-----------------------------------------------------------------------------
\* The reference for the closed condition: what some games add up to.  Teams
\* are interchangeable, so needs are told apart by their shape alone, how many
\* teams need each number of games; one game more moves two teams up by one.
Shape(m, need) == [n \in 0 .. Ceiling |-> Cardinality({t \in 1 .. m : need[t] = n})]
MovedUp(shape, n) == [shape EXCEPT ![n] = @ - 1, ![n + 1] = @ + 1]

OneGameMore(shape) ==
  {MovedUp(MovedUp(shape, pair[2]), pair[1]) :
     pair \in {q \in (0 .. Ceiling - 1) \X (0 .. Ceiling - 1) :
                /\ q[1] <= q[2] /\ shape[q[1]] > 0 /\ shape[q[2]] > 0
                /\ q[1] = q[2] => shape[q[1]] > 1}}

Fulfilled(m) ==
  LET Sums[k \in 0 .. (m * Ceiling) \div 2] ==
        IF k = 0 THEN {Shape(m, [t \in 1 .. m |-> 0])}
        ELSE LET before == Sums[k - 1] IN before \cup UNION {OneGameMore(s) : s \in before}
  IN Sums[(m * Ceiling) \div 2]

Fulfillable == [m \in PlanSizes |-> Fulfilled(m)]

Completable(m, count) ==
  Shape(m, Needs(m, count, Hosted(Now))) \in Fulfillable[m]

\* A guarantee is refused exactly when no set of further games keeps it, and
\* the number advised instead is the smallest one that can be kept
\* (require_completable_games_per_team, smallest_completable_games); nor does
\* the completion ever find itself without an opponent.
RefusedOnlyWhenImpossible ==
  part = "plan" /\ meanwhile <= PlanMeanwhile[Cardinality(teams)] /\ (\A o \in Operators : reviewed[o] = Nothing) =>
    LET m == Cardinality(teams)
        kept == {count \in 1 .. Ceiling : Completable(m, count)}
    IN /\ \A count \in 1 .. Ceiling :
            /\ (FormatRefusal(m, count, Hosted(Now)) = "none") = (count \in kept)
            /\ count \in kept => ~Completion(m, count, Hosted(Now)).stuck
       /\ SmallestCompletable(m, Hosted(Now), Ceiling) = IF kept = {} THEN 0 ELSE Min(kept)

-----------------------------------------------------------------------------
MCInit ==
  /\ part \in Parts
  /\ games = {} /\ access = Rinks /\ open = TRUE
  /\ policy \in {p \in Policies : p.buffer = 1}
  /\ teams \in CASE part = "plan" -> {1 .. m : m \in PlanSizes}
                 [] part = "commit" -> {CommitTeams}
  /\ chosen = [o \in Operators |-> "here"]
  /\ reviewed = [o \in Operators |-> Nothing] /\ scenario = Nothing
  /\ call = [o \in Operators |-> Idle]
  /\ meanwhile = 0 /\ reviews = 0

\* Every calendar once: its games are booked in the order of their pairs.
Rank(home, away) == 10 * home + away

PlanNext ==
  /\ \A o \in Operators : reviewed[o] = Nothing
  /\ \/ /\ meanwhile < PlanMeanwhile[Cardinality(teams)]
        /\ \E home, away \in teams, slot \in IF games = {} THEN {Off, 3} ELSE {Off} :
             /\ home # away /\ \A game \in games : Rank(game.home, game.away) <= Rank(home, away)
             /\ Book(home, away, slot, TRUE)
     \/ \E o \in Operators, asked \in PlanRequests : Preview(o, asked)

MCNext ==
  /\ UNCHANGED part
  /\ \/ part = "plan" /\ PlanNext
     \/ part = "commit" /\ CommitNext /\ meanwhile' <= CommitMeanwhile

MCSymmetry == Permutations(Operators)

MCSpec == MCInit /\ [][MCNext]_<<commitVars, part>>
=============================================================================
