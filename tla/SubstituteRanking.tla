--------------------------- MODULE SubstituteRanking ---------------------------
(***************************************************************************)
(* Who is proposed for an open seat (services/substitute_ranking.py,       *)
(* rank_substitutes): two gates leave players out, the league's enabled    *)
(* rules order the rest, and the answer names the rules that decided.  An  *)
(* operator may name another player, whom the same gates admit or refuse.  *)
(* A pure function of what it is asked; it keeps no state of its own.      *)
(***************************************************************************)
EXTENDS Integers, SequencesExt

CONSTANTS
  Players,     \* ids, in order
  Candidates,  \* [primary, also, skill, games, notice, draw]
  SeatsAsked,  \* [needed, absent, remaining]
  Policies,    \* [rules, seeded, notice]
  NoPlayer, NoAnswer

Unrated == 0
UnknownDistance == 7   \* the worst real distance, and one

-----------------------------------------------------------------------------
(* The policy: rules in the league's order, each on or off.                *)

KindsOf(rules) == [i \in DOMAIN rules |-> rules[i].kind]
Enabled(policy) == KindsOf(SelectSeq(policy.rules, LAMBDA rule : rule.on))

\* No rule twice, one enabled, and no draw without a seed.
PolicyValid(policy) ==
  /\ IsInjective(KindsOf(policy.rules))
  /\ Enabled(policy) # <<>>
  /\ Contains(Enabled(policy), "random") => policy.seeded

-----------------------------------------------------------------------------
(* The gates.  Whoever keeps goal at all fills a goalie's seat and no      *)
(* other, and notice is owed in whole minutes.                             *)

PlaysAt(c) == {c.primary} \cup c.also
GoalieSeparation(request, c) == ("goalie" \in PlaysAt(c)) # (request.needed = "goalie")
NoticeWindow(request, c) == request.remaining < c.notice
Gated(request, c, policy) ==
  \/ GoalieSeparation(request, c)
  \/ policy.notice /\ NoticeWindow(request, c)

-----------------------------------------------------------------------------
(* The rules: a number each, lower is better.                              *)

Distance(request, c) ==
  IF c.skill = Unrated THEN UnknownDistance
  ELSE IF request.absent = Unrated THEN 0
  ELSE IF c.skill > request.absent THEN c.skill - request.absent ELSE request.absent - c.skill

Misplaced(request, c) ==
  IF request.needed \in {"goalie", "skater", c.primary} THEN 0
  ELSE IF {"forward", "defense"} \subseteq PlaysAt(c) THEN 1 ELSE 2

Score(kind, request, c) ==
  CASE kind = "fairness" -> c.games
    [] kind = "skill" -> Distance(request, c)
    [] kind = "position" -> Misplaced(request, c)
    [] kind = "random" -> c.draw   \* a hash of the seed, the request and the player

Scores(request, c, policy) ==
  [i \in DOMAIN Enabled(policy) |-> Score(Enabled(policy)[i], request, c)]

\* Rated players come first wherever skill counts; the id settles the rest.
SortKey(request, p, c, policy) ==
  (IF Contains(Enabled(policy), "skill") THEN <<IF c.skill = Unrated THEN 1 ELSE 0>> ELSE <<>>)
    \o Scores(request, c, policy) \o <<p>>

Lower(key, other) ==
  \E i \in DOMAIN key :
    key[i] < other[i] /\ \A j \in 1 .. i - 1 : key[j] = other[j]

Eligible(ask) == {p \in DOMAIN ask.pool : ~Gated(ask.request, ask.pool[p], ask.policy)}
Keys(ask) == [p \in Eligible(ask) |-> SortKey(ask.request, p, ask.pool[p], ask.policy)]
Ranked(ask) ==
  LET key == Keys(ask)
  IN SetToSortSeq(Eligible(ask), LAMBDA p, q : Lower(key[p], key[q]))

-----------------------------------------------------------------------------
(* Which rules decided: those without which another would have come first. *)

\* The key as if the i-th rule were not there; skill takes its partition along.
WithoutRule(key, kinds, i) ==
  IF kinds[i] = "skill" THEN RemoveAt(Tail(key), i)
  ELSE RemoveAt(key, IF Contains(kinds, "skill") THEN i + 1 ELSE i)

FirstWithout(ask, i) ==
  LET kinds == Enabled(ask.policy)
      key == [p \in Eligible(ask) |-> WithoutRule(Keys(ask)[p], kinds, i)]
  IN CHOOSE p \in Eligible(ask) : \A q \in Eligible(ask) \ {p} : Lower(key[p], key[q])

LoadBearing(ask, winner) ==
  IF Cardinality(Eligible(ask)) < 2 THEN {}
  ELSE {i \in DOMAIN Enabled(ask.policy) : FirstWithout(ask, i) # winner}

\* What the summary says of the proposal.
Summary(ask, ranked, deciding) ==
  LET scores(p) == Scores(ask.request, ask.pool[p], ask.policy)
  IN IF ranked = <<>> THEN "nobody"
     ELSE IF Len(ranked) = 1 THEN "sole"
     ELSE IF deciding # {} THEN "rules"
     ELSE IF scores(ranked[1]) = scores(ranked[2]) THEN "id" ELSE "no single rule"

\* A name outside the pool is refused unjudged, one inside by the gates.
NamedAnswer(ask) ==
  IF ask.named = NoPlayer THEN "none"
  ELSE IF ask.named \notin DOMAIN ask.pool THEN "unknown"
  ELSE IF ask.named \notin Eligible(ask) THEN "ineligible" ELSE "applied"

RankSubstitutes(ask) ==
  LET ranked == Ranked(ask)
      proposed == IF ranked = <<>> THEN NoPlayer ELSE ranked[1]
      deciding == LoadBearing(ask, proposed)
      named == NamedAnswer(ask)
  IN [ranked |-> ranked, proposed |-> proposed, named |-> named,
      deciding |-> {<<i, FirstWithout(ask, i)>> : i \in deciding},
      summary |-> Summary(ask, ranked, deciding),
      selected |-> IF named = "applied" THEN ask.named ELSE proposed]

-----------------------------------------------------------------------------
(* One ranking after another.                                              *)

VARIABLES ask, answer
rankingVars == <<ask, answer>>

RankingInit == ask = NoAnswer /\ answer = NoAnswer
RankingNext ==
  \E seat \in SeatsAsked, policy \in Policies, pool \in [Players -> Candidates], named \in Players \cup {0, NoPlayer} :
    /\ ask' = [request |-> seat, pool |-> pool, policy |-> policy, named |-> named]
    /\ answer' = (IF PolicyValid(policy) THEN RankSubstitutes(ask') ELSE NoAnswer)

-----------------------------------------------------------------------------
(* What is said of every answer.                                           *)

Stripped(policy, kind) == [policy EXCEPT !.rules = SelectSeq(@, LAMBDA rule : rule.kind # kind)]
Asking(policy, pool) == [ask EXCEPT !.policy = policy, !.pool = pool]
\* The order of a policy that may be left with no rule at all: by id.
FirstUnder(policy) == Ranked(Asking(policy, ask.pool))[1]

\* A rule is said to have decided exactly when ranking anew without it would
\* propose someone else - the player the summary names, whom the proposed one
\* strictly beats on that rule.
DecidersExact ==
  Len(answer.ranked) > 1 =>
    \A i \in DOMAIN Enabled(ask.policy) :
      LET kind == Enabled(ask.policy)[i]
          first == FirstUnder(Stripped(ask.policy, kind))
      IN /\ first # answer.proposed <=> \E d \in answer.deciding : d[1] = i
         /\ \A d \in answer.deciding :
              d[1] = i => d[2] = first
                /\ Score(kind, ask.request, ask.pool[answer.proposed]) < Score(kind, ask.request, ask.pool[first])

\* Where skill counts, no unrated player stands before a rated one.
UnratedLast ==
  Contains(Enabled(ask.policy), "skill") =>
    \A i, j \in DOMAIN answer.ranked :
      i < j /\ ask.pool[answer.ranked[i]].skill = Unrated => ask.pool[answer.ranked[j]].skill = Unrated

\* Taking a player away leaves the others in the order they had.
OthersUnmoved ==
  \A p \in DOMAIN ask.pool :
    Ranked(Asking(ask.policy, [q \in DOMAIN ask.pool \ {p} |-> ask.pool[q]]))
      = SelectSeq(answer.ranked, LAMBDA q : q # p)

\* Whoever is selected passed every gate, named by an operator or not.
SelectedMayPlay ==
  answer.selected # NoPlayer =>
    answer.selected \in DOMAIN ask.pool /\ ~Gated(ask.request, ask.pool[answer.selected], ask.policy)

\* Where the summary says only the id decided, the next player's would have.
TieTold ==
  answer.summary = "id" =>
    \A k \in DOMAIN Keys(ask)[answer.ranked[1]] :
      k < Len(Keys(ask)[answer.ranked[1]]) => Keys(ask)[answer.ranked[1]][k] = Keys(ask)[answer.ranked[2]][k]

\* rank_substitutes: the proposal, its order, its stated reasons and the
\* selection agree with each other and with the league's policy.
RankingSound ==
  answer # NoAnswer => DecidersExact /\ UnratedLast /\ OthersUnmoved /\ SelectedMayPlay /\ TieTold
================================================================================
