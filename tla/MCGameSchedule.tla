---------------------------- MODULE MCGameSchedule -----------------------------
EXTENDS GameSchedule, TLC

\* Games 1 and 3 share a season and a team, game 2 is another program's.
\* Slots 1 and 2 follow each other on rink 1, slot 3 is on rink 2 at the time
\* of slot 1.
MCRinkOf == [s \in Slots |-> IF s = 3 THEN 2 ELSE 1]
MCWhen == [s \in Slots |-> IF s = 2 THEN 2 ELSE 1]
MCSeasonOf == [g \in Games |-> IF g = 2 THEN 2 ELSE 1]
MCTeamsOf == [g \in Games |-> {MCSeasonOf[g]}]
MCProgramOf == [z \in Seasons |-> z]
MCPolicyScopes == {<<Program, 1>>, <<Season, 2>>}

Draft(s) == [life |-> "live", slot |-> s, published |-> FALSE, draft |-> TRUE]
Public(s) == [life |-> "live", slot |-> s, published |-> TRUE, draft |-> FALSE]
Gone == [life |-> "cancelled", slot |-> NoSlot, published |-> FALSE, draft |-> TRUE]
None == Absent("none")
MCCalendars ==
  {<<None, None, None>>, <<Draft(1), None, None>>, <<Public(2), None, None>>,
   <<Public(3), Draft(1), None>>, <<Draft(3), Draft(2), None>>, <<Gone, None, Draft(1)>>}
MCSymmetry == Permutations(Servers)
================================================================================
