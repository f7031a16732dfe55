------------------------------ MODULE Pairings ------------------------------
(***************************************************************************)
(* Who plays whom: the pairings of services/scheduler.py.  The teams of    *)
(* one division are 1..m in the order of their sorted ids.  The games the  *)
(* division already has are a matrix: hosted[h, a] counts the regular      *)
(* games h has hosted against a, so it is both the multigraph and the home *)
(* ledger fixed_pair_counts returns.  Two formats: so many meetings of     *)
(* every pair, or so many games guaranteed to every team.                  *)
(***************************************************************************)
EXTENDS Integers, Sequences, FiniteSets, SequencesExt, FiniteSetsExt

Nobody(m) == [pair \in (1 .. m) \X (1 .. m) |-> 0]

Met(hosted, a, b) == hosted[<<a, b>>] + hosted[<<b, a>>]

\* The entries of a sequence at some places, in their order.
At(seq, places) ==
  FlattenSeq([i \in DOMAIN seq |-> IF i \in places THEN <<seq[i]>> ELSE <<>>])

\* The teams in the places of the circle at round r (from 0): the first one
\* stays, the others have moved r places on.
Circle(n, r) ==
  [place \in 1 .. n |->
     IF place = 1 THEN 1 ELSE 2 + ((place - 2 - r) % (n - 1))]

\* One round: the places facing each other; team m + 1 is the bye of an odd m.
Round(m, r) ==
  LET n == m + (m % 2)
      seats == Circle(n, r)
  IN At([i \in 1 .. n \div 2 |-> <<seats[i], seats[n + 1 - i]>>],
        {i \in 1 .. n \div 2 : seats[i] <= m /\ seats[n + 1 - i] <= m})

Turned(pairs) == [i \in DOMAIN pairs |-> <<pairs[i][2], pairs[i][1]>>]

\* Every pair once; the home side changes from one round to the next.
OneRoundRobin(m) ==
  IF m < 2 THEN <<>>
  ELSE FlattenSeq([k \in 1 .. m + (m % 2) - 1 |->
                     IF k % 2 = 1 THEN Round(m, k - 1) ELSE Turned(Round(m, k - 1))])

RoundRobin(m, meetings) ==
  FlattenSeq([k \in 1 .. meetings |->
                IF k % 2 = 1 THEN OneRoundRobin(m) ELSE Turned(OneRoundRobin(m))])

\* rem more games for every team: rounds of the circle, or chords of an odd one.
ExtraPairs(m, rem) ==
  IF m % 2 = 0 THEN FlattenSeq([k \in 1 .. rem |-> Round(m, k - 1)])
  ELSE FlattenSeq([k \in 1 .. rem \div 2 |->
                     [i \in 1 .. m |-> <<i, ((i - 1 + k) % m) + 1>>]])

TargetOrder(m, games) ==
  RoundRobin(m, games \div (m - 1)) \o ExtraPairs(m, games % (m - 1))

Among(pairs, a, b) ==
  Cardinality({i \in DOMAIN pairs : {pairs[i][1], pairs[i][2]} = {a, b}})

-----------------------------------------------------------------------------
\* The home ledger: the side that has hosted this pair less, the circle's own
\* orientation when they are level.
FewerHosted(m, hosted, a, b) ==
  CASE hosted[<<a, b>>] < hosted[<<b, a>>] -> <<a, b>>
    [] hosted[<<b, a>>] < hosted[<<a, b>>] -> <<b, a>>
    [] OTHER -> CHOOSE pair \in Range(OneRoundRobin(m)) : {pair[1], pair[2]} = {a, b}

OrientNext(m, done, key) ==
  LET pair == FewerHosted(m, done.hosted, key[1], key[2])
  IN [hosted |-> [done.hosted EXCEPT ![pair] = @ + 1],
      pairs |-> Append(done.pairs, pair)]

Oriented(m, keys, hosted) ==
  FoldLeft(LAMBDA done, key : OrientNext(m, done, key),
           [hosted |-> hosted, pairs |-> <<>>], keys).pairs

-----------------------------------------------------------------------------
\* Can the games there are be completed to `games` for every team?
Degree(m, hosted, team) ==
  FoldFunction(+, 0, [other \in 1 .. m |-> Met(hosted, team, other)])

Needs(m, games, hosted) == [team \in 1 .. m |-> games - Degree(m, hosted, team)]

TotalOf(need) == FoldFunction(+, 0, need)

FormatRefusal_Unbalanced(m, games, hosted) ==
  LET need == Needs(m, games, hosted)
  IN CASE m = 1 -> "games_per_team_residual_infeasible"
       [] \E team \in 1 .. m : need[team] < 0 -> "games_per_team_over_scheduled"
       [] TotalOf(need) % 2 = 1 -> "games_per_team_infeasible"
       [] OTHER -> "none"

FormatRefusal(m, games, hosted) ==
  LET need == Needs(m, games, hosted)
      total == TotalOf(need)
  IN CASE m >= 2 /\ (m * games) % 2 = 1 -> "games_per_team_infeasible"
       [] m = 1 -> "games_per_team_residual_infeasible"
       [] \E team \in 1 .. m : need[team] < 0 -> "games_per_team_over_scheduled"
       [] total % 2 = 1 -> "games_per_team_infeasible"
       [] \E team \in 1 .. m : 2 * need[team] > total ->
            "games_per_team_residual_infeasible"
       [] OTHER -> "none"

\* smallest_completable_games: what the refusal advises, 0 when nothing is.
SmallestCompletable(m, hosted, ceiling) ==
  LET degree == [team \in 1 .. m |-> Degree(m, hosted, team)]
      possible ==
        {games \in 1 .. ceiling :
           /\ \A team \in 1 .. m : degree[team] <= games
           /\ (m * games) % 2 = 0
           /\ \A team \in 1 .. m :
                2 * (games - degree[team]) <= m * games - TotalOf(degree)}
  IN IF possible = {} THEN 0 ELSE Min(possible)

-----------------------------------------------------------------------------
\* The neediest team first; with the opponent it has met least, then the
\* neediest of those, then the first.
Neediest(need) ==
  CHOOSE team \in DOMAIN need :
    /\ need[team] > 0
    /\ \A other \in DOMAIN need :
         need[other] < need[team] \/ (need[other] = need[team] /\ team <= other)

Preferred(met, need, team, one, two) ==
  \/ met[{team, one}] < met[{team, two}]
  \/ /\ met[{team, one}] = met[{team, two}]
     /\ need[one] > need[two] \/ (need[one] = need[two] /\ one <= two)

Partner(met, need, team) ==
  LET partners == {other \in DOMAIN need \ {team} : need[other] > 0}
  IN IF partners = {} THEN 0
     ELSE CHOOSE one \in partners :
            \A two \in partners : Preferred(met, need, team, one, two)

OneLess(need, team) == [need EXCEPT ![team] = @ - 1]

PairUp(done, team, partner) ==
  [need |-> OneLess(OneLess(done.need, team), partner), stuck |-> FALSE,
   met |-> [done.met EXCEPT ![{team, partner}] = @ + 1],
   keys |-> Append(done.keys, <<team, partner>>)]

CompletionStep(done, k) ==
  IF done.stuck \/ \A team \in DOMAIN done.need : done.need[team] <= 0 THEN done
  ELSE LET team == Neediest(done.need)
           partner == Partner(done.met, done.need, team)
       IN IF partner = 0 THEN [done EXCEPT !.stuck = TRUE] ELSE PairUp(done, team, partner)

\* _residual_completion: its keys, or stuck when it would raise.
CompletionStart(m, games, hosted) ==
  [need |-> Needs(m, games, hosted), keys |-> <<>>, stuck |-> FALSE,
   met |-> [key \in {{a, b} : a, b \in 1 .. m} |->
              LET a == Min(key) b == Max(key) IN Met(hosted, a, b)]]

Completion(m, games, hosted) ==
  FoldLeft(CompletionStep, CompletionStart(m, games, hosted),
           [k \in 1 .. TotalOf(Needs(m, games, hosted)) |-> k])

\* The target's rows less the meetings there are, one per game, from the front.
Deficit(order, hosted) ==
  LET key(i) == {order[i][1], order[i][2]}
      before(i) == Cardinality({j \in 1 .. i - 1 : key(j) = key(i)})
  IN At(order, {i \in DOMAIN order : before(i) >= Met(hosted, order[i][1], order[i][2])})

FitsTarget(m, order, hosted) ==
  \A a, b \in 1 .. m : a < b => Met(hosted, a, b) <= Among(order, a, b)

\* games_per_team_residual_pairings
ResidualPairings(m, games, hosted) ==
  IF m < 2 THEN <<>>
  ELSE LET order == TargetOrder(m, games)
           keys == IF FitsTarget(m, order, hosted)
                   THEN Deficit(order, hosted)
                   ELSE Completion(m, games, hosted).keys
       IN Oriented(m, keys, hosted)

\* The meetings format: the meetings there are stand for the first ones asked.
MissingMeetings(m, meetings, hosted) ==
  Deficit(RoundRobin(m, meetings), hosted)
=============================================================================
