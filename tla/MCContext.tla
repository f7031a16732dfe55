------------------------------- MODULE MCContext -------------------------------
(***************************************************************************)
(* Two programs, two administrators, a coach and an official; four         *)
(* seasons, three leagues, a team, and one record of every other kind.  In *)
(* "read" the four choose and look while changes are made elsewhere; in    *)
(* "write" the administrators make changes.                                *)
(***************************************************************************)
EXTENDS SetupGate

CONSTANTS
  P, Q, s1, s2, t1, t2, l1, l2, m1, T, g1, g2,            \* programs, seasons, leagues, a team, games
  K, p, A, B, C, O, V, R, i, N, d,                     \* the other records and accounts
  MaxSwitches, MaxAsked, MaxMeanwhile

ASSUME StartAssumption ==
  /\ {P, Q} \subseteq Programs /\ {s1, s2, t1, t2} \subseteq Seasons /\ {l1, l2, m1} \subseteq Leagues
  /\ T \in Teams /\ O \in DOMAIN KindOf /\ g1 \in Games
  /\ \A b \in {<<l1, s1>>, <<l2, s1>>, <<l2, s2>>, <<m1, t1>>} : ProgramOf[b[1]] = ProgramOf[b[2]]

VARIABLES part, switched, asks, others
contextVars == <<gateVars, part, switched, asks, others>>

MCRank == [r \in {P, Q, s1, s2, t1, t2} |-> IF r \in {P, s1, t1} THEN 1 ELSE 2]
MCProgramOf == [r \in {s1, s2, t1, t2, l1, l2, m1} |-> IF r \in {t1, t2, m1} THEN Q ELSE P]
MCGameOf == [g \in {g1, g2} |-> IF g = g1 THEN [season |-> s1, league |-> l1] ELSE [season |-> t1, league |-> m1]]
MCScope ==
  [u \in {A, B, C, O} |->
     [role |-> IF u = C THEN "coach" ELSE IF u = O THEN "official" ELSE "admin", teams |-> IF u = C THEN {T} ELSE {}]]
MCKind ==
  [r \in {K, p, O, V, R, i, N, d} |->
     CASE r = K -> "club" [] r = p -> "player" [] r = O -> "official" [] r = V -> "venue"
       [] r = R -> "rink" [] r = i -> "ice_slot" [] r = N -> "organization" [] r = d -> "division"]
MCUp ==
  [r \in {K, p, O, V, R, i, N, d, P, Q, T} |->
     CASE r = p -> T [] r = O -> K [] r = R -> V [] r = i -> R [] r = V -> N [] r = T -> K [] r = P -> N
       [] r = d -> <<l1, s1>> [] OTHER -> NoRecord]
MCCreator == [r \in {K, p, O, V, R, i, N, d, P, Q, s1, s2, t1, t2, l1, l2, m1, T, g1, g2} |-> IF r = R THEN A ELSE B]

ContextInit ==
  /\ part \in {"read", "write", "team", "ice", "reset"}
  /\ live = {P, Q, s1, s2, t1, l1, l2, m1} \cup (IF part = "read" THEN {t2} ELSE {}) /\ archived = {}
  /\ bindings = {<<l1, s1>>, <<l2, s1>>, <<m1, t1>>} \cup (IF part = "read" THEN {<<l2, s2>>} ELSE {})
  /\ teamLeague = [t \in Teams |-> l1] /\ registered = {<<T, l1, s1>>} /\ assigned = {<<O, g1>>}
  /\ saved = [u \in Users |-> NoRow]
  /\ grants = {} /\ asked = [u \in Operators |-> Idle] /\ made = Idle
  /\ switched = 0 /\ asks = 0 /\ others = 0

Switches ==
  /\ part \in {"read", "write"} /\ switched < MaxSwitches /\ switched' = switched + 1
  /\ \E u \in (IF part = "read" THEN Users ELSE Operators) : Switch(u)
  /\ made' = Idle /\ UNCHANGED <<grants, asked, part, asks, others>>

Changing ==
  /\ part = "write" /\ UNCHANGED <<part, switched, others>>
  /\ \/ asks < MaxAsked /\ asks' = asks + 1 /\ \E u \in Operators, c \in Changes : Ask(u, c)
     \/ (\E u \in Operators : Commit(u) \/ Refused(u)) /\ UNCHANGED asks

Elsewhere ==
  /\ part = "read" /\ UNCHANGED <<part, switched, asks>>
  /\ others < MaxMeanwhile /\ others' = others + 1
  /\ \/ Meanwhile
     \/ (\E c \in Changes : c.op \in {"delete", "unbind", "bind", "transfer"} /\ Apply(c))
          /\ made' = Idle /\ UNCHANGED <<saved, asked>>

ContextNext == Switches \/ Changing \/ Elsewhere
================================================================================
