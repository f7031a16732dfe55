-------------------------------- MODULE GameDay ---------------------------------
(***************************************************************************)
(* What happens to a scheduled game afterwards: a team asks for another    *)
(* time (services/setup_service.py, "reschedule request / approval         *)
(* workflow"), officials are assigned to it, and its result is entered and *)
(* approved.  The calendar's own calls are Calendar's, one transaction     *)
(* each; so are the calls added here, except two.                          *)
(*                                                                         *)
(* decide_reschedule is no transaction: it reads the request, moves the    *)
(* game, publishes it and saves the request it read, each committed by     *)
(* itself, and may stop in between.  set_official_availability looks the   *)
(* official up and adds the window in two statements.                      *)
(***************************************************************************)
EXTENDS Calendar

CONSTANTS
  Requests,     \* ids of reschedule requests, 1..n in the order they are made
  Deciders,     \* requests of the league's operators being served at once
  Agreed,       \* request -> the slot an approval is retried with
  Officials,
  ConflictOf,   \* official -> teams of the official's home club
  MaxOperator   \* bound: calendar calls other than approvals

ASSUME GameDayAssumption ==
  /\ Requests \subseteq Nat
  /\ Agreed \in [Requests -> Slots]
  /\ ConflictOf \in [Officials -> SUBSET UNION {TeamsOf[g] : g \in Games}]

VARIABLES
  request,     \* id -> [game, status]
  deciding,    \* decider -> where its call of decide_reschedule stands
  assignment,  \* <<official, game>> -> status of the last row
  shifted,     \* pairs whose game moved after the assignment (history)
  listed,      \* officials that exist
  window,      \* <<official, time>>: declared unavailable
  announcing,  \* <<official, time>> looked up, window not added yet
  result,      \* game -> status of its result
  operated     \* calendar calls made

officialVars == <<assignment, shifted, listed, window, announcing>>
dayVars == <<request, deciding, officialVars, result, operated>>

Open == {"pending_opponent", "pending_league"}
Closed == {"rejected", "denied", "republished"}
NoDecision == [step |-> "idle"]
Active == {"proposed", "accepted"}
Times == {When[s] : s \in Slots}
Pairs == Officials \X Games

GameDayTypeOK ==
  /\ \A r \in Requests :
       \/ request[r].status = "none"
       \/ request[r].game \in Games /\ request[r].status \in Open \cup Closed
  /\ \A d \in Deciders :
       \/ deciding[d] = NoDecision
       \/ /\ deciding[d].step \in {"deny", "move", "publish", "save"}
          /\ deciding[d].request \in Requests /\ deciding[d].slot \in Slots
  /\ assignment \in [Pairs -> {"none", "proposed", "accepted", "declined"}]
  /\ result \in [Games -> {"none", "draft", "final"}]

-----------------------------------------------------------------------------
(* The calendar's calls, and what they do to the rows that hang on a game. *)

\* _notify_game_change and the audit aside, a move, a cancellation and a
\* publication leave requests, assignments and results as they are.
Aside == UNCHANGED <<request, deciding, assignment, listed, window, announcing, result>>
Shift(g) == shifted' = shifted \cup {p \in Pairs : p[2] = g /\ assignment[p] \in Active}

\* delete_game refuses a game anything hangs on; the discard of drafts does not.
Dependents(g) ==
  \/ result[g] # "none"
  \/ \E r \in Requests : request[r].status # "none" /\ request[r].game = g
  \/ \E o \in Officials : assignment[<<o, g>>] # "none"
DeleteGame(g) == game[g].draft /\ ~game[g].published /\ game[g].life = "live"
                 /\ ~Dependents(g) /\ Remove({g})

Operate(A) == operated < MaxOperator /\ operated' = operated + 1 /\ Aside /\ A
OperatorMove(g, s) == Operate(Move(g, s) /\ game[g].slot # s /\ Shift(g))
OperatorCall ==
  \/ \E g \in Games, s \in Slots : OperatorMove(g, s)
  \/ \E g \in Games : Operate((Cancel(g) \/ Publish(g) \/ DeleteGame(g)) /\ UNCHANGED shifted)
  \/ \E P \in SUBSET Drafts : P # {} /\ Operate((PublishDrafts(P) \/ Remove(P)) /\ UNCHANGED shifted)
  \/ \E z \in Seasons : Operate((ArchiveRow(z) \/ ReopenRow(z)) /\ UNCHANGED shifted)

-----------------------------------------------------------------------------
(* Reschedule requests.                                                    *)

Pend(r, g) == request' = [request EXCEPT ![r] = [game |-> g, status |-> "pending_opponent"]]
Mark(r, status) ==
  request' = [request EXCEPT ![r] = [game |-> request[r].game, status |-> status]]
OpenOn(g) == \E r \in Requests : request[r].status \in Open /\ request[r].game = g

RequestReschedule(r, g) ==
  /\ request[r].status = "none" /\ \A q \in Requests : q < r => request[q].status # "none"
  /\ game[g].life = "live" /\ game[g].published /\ Writable(g) /\ ~OpenOn(g)
  /\ Pend(r, g)
  /\ UNCHANGED <<tables, deciding, officialVars, result, operated>>

\* A request may outlive its game; the Season is guarded only if it is there.
Guarded(r) == Exists(request[r].game) => Writable(request[r].game)
Respond(r, accept) ==
  /\ request[r].status = "pending_opponent" /\ Guarded(r)
  /\ Mark(r, IF accept THEN "pending_league" ELSE "rejected")
  /\ UNCHANGED <<tables, deciding, officialVars, result, operated>>

\* The read at the start of decide_reschedule, and the checks made on it.
Awaits_AnyOpen(r) == request[r].status \in Open
Awaits(r) == request[r].status = "pending_league"
Decide(d, r, step, s) ==
  /\ deciding[d] = NoDecision /\ Awaits(r) /\ Guarded(r)
  /\ deciding' = [deciding EXCEPT ![d] = [step |-> step, request |-> r, slot |-> s]]
  /\ UNCHANGED <<tables, request, officialVars, result, operated>>

Goto(d, step) ==
  deciding' = [deciding EXCEPT ![d] =
                 [step |-> step, request |-> deciding[d].request, slot |-> deciding[d].slot]]
Undisturbed == UNCHANGED <<request, assignment, listed, window, announcing, result, operated>>

\* Re-approving a move that was done already skips it.
AlreadyThere_Never(g, s) == FALSE
AlreadyThere(g, s) == game[g].slot = s
SkipMove(d) ==
  /\ deciding[d].step = "move"
  /\ AlreadyThere(request[deciding[d].request].game, deciding[d].slot)
  /\ Goto(d, "publish") /\ UNCHANGED <<tables, shifted>> /\ Undisturbed
ApprovedMove(d) ==
  /\ deciding[d].step = "move"
  /\ LET g == request[deciding[d].request].game
     IN  game[g].slot # deciding[d].slot /\ Move(g, deciding[d].slot) /\ Shift(g)
  /\ Goto(d, "publish") /\ Undisturbed
\* The game is read again, unlocked, wherever it stands by now.
ApprovedPublish(d) ==
  /\ deciding[d].step = "publish"
  /\ LET g == request[deciding[d].request].game
     IN  \/ game[g].published /\ UNCHANGED tables
         \/ ~game[g].published /\ Publish(g)
  /\ Goto(d, "save") /\ UNCHANGED shifted /\ Undisturbed

\* The request as it was read is saved: its status is not looked at again.
SaveDecision(d) ==
  /\ deciding[d].step \in {"deny", "save"}
  /\ Mark(deciding[d].request,
          IF deciding[d].step = "deny" THEN "denied" ELSE "republished")
  /\ deciding' = [deciding EXCEPT ![d] = NoDecision]
  /\ UNCHANGED <<tables, officialVars, result, operated>>

\* The process stops, or a step is refused: no slot, same slot, cancelled,
\* archived, gone.
Fails(d) ==
  \/ /\ deciding[d].step = "move"
     /\ LET g == request[deciding[d].request].game
        IN  ~AlreadyThere(g, deciding[d].slot)
            /\ ~(game[g].life = "live" /\ Writable(g) /\ game[g].slot # deciding[d].slot
                 /\ Fits(g, deciding[d].slot))
  \/ /\ deciding[d].step = "publish"
     /\ LET g == request[deciding[d].request].game
        IN  ~game[g].published /\ ~(game[g].life = "live" /\ Writable(g))
DecisionFails(d) ==
  /\ Fails(d)
  /\ deciding' = [deciding EXCEPT ![d] = NoDecision]
  /\ UNCHANGED <<tables, shifted>> /\ Undisturbed
\* Bounded with the operators' calls.
DecisionStops(d) ==
  /\ deciding[d] # NoDecision /\ operated < MaxOperator /\ operated' = operated + 1
  /\ deciding' = [deciding EXCEPT ![d] = NoDecision]
  /\ UNCHANGED <<tables, request, officialVars, result>>

DecideStep(d) ==
  SkipMove(d) \/ ApprovedMove(d) \/ ApprovedPublish(d) \/ SaveDecision(d) \/ DecisionFails(d)
Retry(d, r) == Decide(d, r, "move", Agreed[r])

-----------------------------------------------------------------------------
(* Officials.                                                              *)

\* An active assignment on another live game at the same time.
Busy_AcceptedOnly(o, g) ==
  \E h \in Games \ {g} :
    /\ assignment[<<o, h>>] = "accepted" /\ game[h].life = "live"
    /\ When[game[h].slot] = When[game[g].slot]
Busy(o, g) ==
  \E h \in Games \ {g} :
    /\ assignment[<<o, h>>] \in Active /\ game[h].life = "live"
    /\ When[game[h].slot] = When[game[g].slot]

Assign(o, g, override) ==
  /\ game[g].life = "live" /\ Writable(g)
  /\ o \in listed /\ ConflictOf[o] \cap TeamsOf[g] = {}
  /\ assignment[<<o, g>>] \notin Active /\ ~Busy(o, g)
  /\ override \/ <<o, When[game[g].slot]>> \notin window
  /\ assignment' = [assignment EXCEPT ![<<o, g>>] = "proposed"]
  /\ shifted' = shifted \ {<<o, g>>}
  /\ UNCHANGED <<tables, request, deciding, listed, window, announcing, result, operated>>
GameGuard(g) == Exists(g) => Writable(g)
RespondAssignment(o, g, accept) ==
  /\ assignment[<<o, g>>] = "proposed" /\ GameGuard(g)
  /\ assignment' = [assignment EXCEPT ![<<o, g>>] = IF accept THEN "accepted" ELSE "declined"]
  /\ UNCHANGED <<tables, request, deciding, shifted, listed, window, announcing, result, operated>>
Unassign(o, g) ==
  /\ assignment[<<o, g>>] # "none" /\ GameGuard(g)
  /\ assignment' = [assignment EXCEPT ![<<o, g>>] = "none"]
  /\ shifted' = shifted \ {<<o, g>>}
  /\ UNCHANGED <<tables, request, deciding, listed, window, announcing, result, operated>>

LookUp(o, t) ==
  /\ o \in listed /\ announcing = {} /\ announcing' = {<<o, t>>}
  /\ UNCHANGED <<tables, request, deciding, assignment, shifted, listed, window, result, operated>>
SetAvailability(o, t) ==
  /\ <<o, t>> \in announcing /\ announcing' = {} /\ window' = window \cup {<<o, t>>}
  /\ UNCHANGED <<tables, request, deciding, assignment, shifted, listed, result, operated>>
DeleteAvailability(o, t) ==
  /\ <<o, t>> \in window /\ window' = window \ {<<o, t>>}
  /\ UNCHANGED <<tables, request, deciding, assignment, shifted, listed, announcing, result, operated>>

Bound(o) == (\E g \in Games : assignment[<<o, g>>] # "none") \/ \E t \in Times : <<o, t>> \in window
DeleteOfficial(o) ==
  /\ o \in listed /\ ~Bound(o) /\ listed' = listed \ {o}
  /\ UNCHANGED <<tables, request, deciding, assignment, shifted, window, announcing, result, operated>>

-----------------------------------------------------------------------------
(* Results.                                                                *)

RecordResult(g) ==
  /\ game[g].life = "live" /\ Writable(g) /\ result[g] # "final"
  /\ result' = [result EXCEPT ![g] = "draft"]
  /\ UNCHANGED <<tables, request, deciding, assignment, shifted, listed, window, announcing, operated>>
ApproveResult(g) ==
  /\ game[g].life = "live" /\ Writable(g) /\ result[g] = "draft"
  /\ result' = [result EXCEPT ![g] = "final"]
  /\ UNCHANGED <<tables, request, deciding, assignment, shifted, listed, window, announcing, operated>>

-----------------------------------------------------------------------------
GameDayInit ==
  /\ Init
  /\ request = [r \in Requests |-> [status |-> "none"]]
  /\ deciding = [d \in Deciders |-> NoDecision]
  /\ assignment = [p \in Pairs |-> "none"] /\ shifted = {}
  /\ listed = Officials /\ window = {} /\ announcing = {}
  /\ result = [g \in Games |-> "none"] /\ operated = 0

RequestsNext ==
  \/ \E r \in Requests : \E g \in Games : RequestReschedule(r, g)
  \/ \E r \in Requests : \E accept \in BOOLEAN : Respond(r, accept)
  \/ \E d \in Deciders, r \in Requests :
       Decide(d, r, "deny", Agreed[r]) \/ \E s \in Slots : Decide(d, r, "move", s)
  \/ \E d \in Deciders : DecideStep(d) \/ DecisionStops(d)
OfficialsNext ==
  \/ \E o \in Officials, g \in Games : \E b \in BOOLEAN : Assign(o, g, b) \/ RespondAssignment(o, g, b)
  \/ \E o \in Officials : DeleteOfficial(o) \/ \E g \in Games : Unassign(o, g)
  \/ \E o \in Officials, t \in Times : LookUp(o, t) \/ SetAvailability(o, t) \/ DeleteAvailability(o, t)
ResultsNext == \E g \in Games : RecordResult(g) \/ ApproveResult(g)

GameDayNext == RequestsNext \/ OfficialsNext \/ ResultsNext \/ OperatorCall

\* A served call runs on; the league repeats an approval that did not get
\* through, with the slot it was given for.
GameDayFairness ==
  /\ \A d \in Deciders : WF_<<tables, dayVars>>(DecideStep(d))
  /\ \A r \in Requests : SF_<<tables, dayVars>>(\E d \in Deciders : Retry(d, r))
GameDaySpec == GameDayInit /\ [][GameDayNext]_<<tables, dayVars>>

-----------------------------------------------------------------------------
(* One open request per game, though decisions are saved unlocked from     *)
(* rows read before: the stale save of a decision never reopens one.       *)
OneOpenRequest ==
  \A q, r \in Requests :
    q # r /\ request[q].status \in Open /\ request[r].status \in Open
      => request[q].game # request[r].game

(* Only a request the other team accepted is decided, whatever two         *)
(* operators do with it at once: rejected stays rejected.                  *)
BothSigned ==
  [][\A r \in Requests :
       request'[r].status \in {"denied", "republished"} /\ request'[r] # request[r]
         => request[r].status \in {"pending_league", "denied", "republished"}]_request

(* An official holds two games at one time only if one of them was moved   *)
(* after the assignment: a move looks at ice and teams, not at officials.  *)
(* And no assignment outlives its official, whose deletion counts them.    *)
OfficialsApart ==
  /\ \A o \in Officials, g, h \in Games :
       /\ g # h /\ game[g].life = "live" /\ game[h].life = "live"
       /\ assignment[<<o, g>>] \in Active /\ assignment[<<o, h>>] \in Active
       /\ When[game[g].slot] = When[game[h].slot]
       => <<o, g>> \in shifted \/ <<o, h>> \in shifted
  /\ \A p \in Pairs : assignment[p] # "none" => p[1] \in listed

(* An approval that moved its game and stopped is completed by repeating   *)
(* it with the same slot (the comment at setup_service.py:7195), unless    *)
(* somebody takes the game elsewhere or its Season is closed.              *)
ApprovalRecovers ==
  \A r \in Requests :
    LET stands == Awaits(r) /\ request[r].game \in Games /\ game[request[r].game].slot = Agreed[r]
                  /\ Writable(request[r].game)
    IN  stands ~> ~stands

(* OPPONENT_REJECTED and DENIED are terminal (domain/enums.py:266); two    *)
(* operators deciding at once break it.                                    *)
RefusedStaysRefused ==
  [][\A r \in Requests :
       request[r].status \in {"rejected", "denied"} => request'[r] = request[r]]_request

(* "a raw move_game drag/drop ... conservatively unpublishes pending human *)
(* review" (setup_service.py:7186): the publish step of an approval shows  *)
(* a game where somebody else has moved it since.                          *)
PublishedWhereApproved ==
  [][\A d \in Deciders :
       /\ deciding[d] # NoDecision /\ deciding[d].step = "publish"
       /\ deciding'[d] # NoDecision /\ deciding'[d].step = "save"
       /\ ~game[request[deciding[d].request].game].published
       => game[request[deciding[d].request].game].slot = deciding[d].slot]_<<tables, deciding>>
================================================================================
