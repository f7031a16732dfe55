-------------------------- MODULE GameScheduleProofs ---------------------------
(***************************************************************************)
(* Proofs about the schedule, for any games, ice, teams, Seasons, policies *)
(* and processes, and any number of calls.                                 *)
(*                                                                         *)
(* Calls alone: SchedInv.  Ice is allocated exactly where a live game      *)
(* stands, one game to a slot, and no two games clash.                     *)
(*                                                                         *)
(* Transactions: TxnInv.  What a transaction decided still holds when it   *)
(* commits, for one of two reasons.  A placement, a move or an edit holds  *)
(* the rows on which its decision rests (Planned), so nobody has changed   *)
(* what stands behind them (Decided).  A call from a snapshot (Seen) ends  *)
(* with an audit entry of its own, and its counter's row was then written  *)
(* by no other since: the others have at most called games off.  So each   *)
(* commit is one call of Calendar, made alone at that moment, and what     *)
(* SchedInv says of calls it says of transactions.                         *)
(*                                                                         *)
(* Days: DayInv.  A request that is being decided is one the opponent      *)
(* accepted, and only a decision saves it from then on; a withdrawn        *)
(* official holds nothing.  Each step of GameDay is a step of Calendar or  *)
(* leaves the schedule alone.                                              *)
(***************************************************************************)
EXTENDS GameSchedule, MCGameDay, FiniteSetTheorems, WellFoundedInduction, TLAPS

SchedInv == TypeOK /\ IceMatchesGames /\ NoClash

(* A step that leaves every slot and every life alone keeps the invariant. *)
LEMMA SameIce ==
  ASSUME SchedInv, game' \in [Games -> Row], allocated' = allocated,
         policy' \in [PolicyScopes -> {"inherit", "none", "buffer"}], archived' \subseteq Seasons,
         \A g \in Games : game'[g].slot = game[g].slot /\ (game'[g].life = "live" <=> game[g].life = "live")
  PROVE  SchedInv'
<1>1. Slotted' = Slotted BY DEF Slotted
<1>2. IceMatchesGames' BY <1>1 DEF SchedInv, IceMatchesGames, Slotted
<1>3. NoClash' BY <1>1 DEF SchedInv, NoClash, Slotted, Clash
<1> QED BY <1>2, <1>3 DEF SchedInv, TypeOK

(* One game takes slot t, free until then, and gives up the one it had.    *)
LEMMA TakeSlot ==
  ASSUME SchedInv, NEW g \in Games, NEW t \in Slots, NEW row \in Row,
         row.slot = t, row.life = "live", Fits(g, t),
         game' = [game EXCEPT ![g] = row],
         allocated' = (allocated \ {game[g].slot}) \cup {t},
         UNCHANGED <<policy, archived>>
  PROVE  SchedInv'
<1> USE DEF SchedInv
<1>0. t # NoSlot BY SlotAssumption
<1>1. /\ game' \in [Games -> Row] /\ game'[g] = row
      /\ \A h \in Games \ {g} : game'[h] = game[h]
  BY DEF TypeOK
<1>2. Slotted' = Slotted \cup {g} BY <1>0, <1>1 DEF Slotted
<1>3. \A h \in Slotted \ {g} : game[h].slot # t /\ ~Clash(g, t, h, game[h].slot)
  BY DEF Fits
<1>4. TypeOK' BY <1>1 DEF TypeOK
<1>5. IceMatchesGames'
  <2>1. Slotted' = {h \in Games : game'[h].life = "live"}
    BY <1>1, <1>2 DEF IceMatchesGames
  <2>2. allocated' = {game'[h].slot : h \in Slotted'}
    <3>1. ASSUME NEW x \in allocated' PROVE \E h \in Slotted' : x = game'[h].slot
      BY <3>1, <1>1, <1>2 DEF IceMatchesGames
    <3>2. ASSUME NEW h \in Slotted' PROVE game'[h].slot \in allocated'
      <4>1. CASE h = g BY <4>1, <1>1
      <4>2. CASE h # g
        <5>1. h \in Slotted /\ h \in Games /\ game'[h] = game[h] BY <4>2, <1>1, <1>2 DEF Slotted
        <5>2. game[h].slot \in allocated BY <5>1 DEF IceMatchesGames
        <5>3. game[h].slot # game[g].slot
          BY <4>2, <5>1 DEF IceMatchesGames, Slotted
        <5> QED BY <5>1, <5>2, <5>3
      <4> QED BY <4>1, <4>2
    <3> QED BY <3>1, <3>2
  <2>3. \A h, k \in Slotted' : game'[h].slot = game'[k].slot => h = k
    BY <1>1, <1>2, <1>3 DEF IceMatchesGames, Slotted
  <2> QED BY <2>1, <2>2, <2>3 DEF IceMatchesGames
<1>6. NoClash'
  <2> SUFFICES ASSUME NEW h \in Slotted', NEW k \in Slotted', h # k
               PROVE  ~Clash(h, game'[h].slot, k, game'[k].slot)
    BY DEF NoClash, Clash
  <2>1. CASE h = g
    BY <2>1, <1>1, <1>2, <1>3 DEF Slotted
  <2>2. CASE k = g
    <3>1. h \in Slotted \ {g} /\ game'[h] = game[h] BY <2>2, <1>1, <1>2 DEF Slotted
    <3>2. ~Clash(g, t, h, game[h].slot) BY <3>1, <1>3
    <3> QED BY <2>2, <3>1, <3>2, <1>1 DEF Clash
  <2>3. CASE h # g /\ k # g
    BY <2>3, <1>1, <1>2 DEF NoClash, Slotted
  <2> QED BY <2>1, <2>2, <2>3
<1> QED BY <1>4, <1>5, <1>6

(* Games of P give up their ice and are no longer live.                    *)
LEMMA GiveUpSlots ==
  ASSUME SchedInv, NEW P \in SUBSET Games,
         game' \in [Games -> Row],
         \A g \in P : game'[g].slot = NoSlot /\ game'[g].life # "live",
         \A g \in Games \ P : game'[g] = game[g],
         allocated' = allocated \ Ice(P), UNCHANGED <<policy, archived>>
  PROVE  SchedInv'
<1> USE DEF SchedInv
<1>1. Slotted' = Slotted \ P BY DEF Slotted
<1>2. TypeOK' BY DEF TypeOK
<1>3. IceMatchesGames'
  <2>1. Slotted' = {h \in Games : game'[h].life = "live"}
    BY <1>1 DEF IceMatchesGames
  <2>2. allocated' = {game'[h].slot : h \in Slotted'}
    <3>1. ASSUME NEW x \in allocated' PROVE \E h \in Slotted' : x = game'[h].slot
      <4>1. PICK h \in Slotted : x = game[h].slot BY <3>1 DEF IceMatchesGames
      <4>2. h \notin P BY <3>1, <4>1 DEF Ice, TypeOK
      <4> QED BY <4>1, <4>2, <1>1 DEF Slotted
    <3>2. ASSUME NEW h \in Slotted' PROVE game'[h].slot \in allocated'
      <4>1. h \in Slotted /\ h \in Games \ P /\ game'[h] = game[h] BY <3>2, <1>1 DEF Slotted
      <4>2. game[h].slot \in allocated BY <4>1 DEF IceMatchesGames
      <4>3. game[h].slot \notin Ice(P)
        <5> SUFFICES ASSUME NEW g \in P, game[g].slot = game[h].slot PROVE FALSE BY DEF Ice
        <5>1. g \in Slotted BY <4>1 DEF Slotted
        <5>2. g = h BY <4>1, <5>1 DEF IceMatchesGames
        <5> QED BY <4>1, <5>2
      <4> QED BY <4>1, <4>2, <4>3
    <3> QED BY <3>1, <3>2
  <2>3. \A h, k \in Slotted' : game'[h].slot = game'[k].slot => h = k
    BY <1>1 DEF IceMatchesGames, Slotted
  <2> QED BY <2>1, <2>2, <2>3 DEF IceMatchesGames
<1>4. NoClash' BY <1>1 DEF NoClash, Slotted, Clash
<1> QED BY <1>2, <1>3, <1>4

LEMMA InitInv == Init => SchedInv
<1> SUFFICES ASSUME Init PROVE SchedInv OBVIOUS
<1>1. /\ game \in [Games -> Row] /\ game \in Calendars /\ allocated = Ice(Games)
      /\ \A g \in Games : game[g].slot # NoSlot <=> game[g].life = "live"
  BY CalendarsAssumption DEF Init
<1>2. TypeOK BY <1>1 DEF Init, TypeOK, Ice
<1>3. IceMatchesGames
  <2>1. Slotted = {g \in Games : game[g].life = "live"} BY <1>1 DEF Slotted
  <2>2. \A g \in Games : game[g].slot \in Slots \cup {NoSlot} BY <1>1 DEF Row
  <2>3. allocated = {game[g].slot : g \in Slotted}
    BY <1>1, <2>2, SlotAssumption DEF Ice, Slotted
  <2>4. \A g, h \in Slotted : game[g].slot = game[h].slot => g = h
    BY <1>1, CalendarsAssumption DEF Slotted
  <2> QED BY <2>1, <2>3, <2>4 DEF IceMatchesGames
<1>4. NoClash BY <1>1, CalendarsAssumption DEF NoClash, Slotted
<1> QED BY <1>2, <1>3, <1>4 DEF SchedInv

LEMMA NextInv == SchedInv /\ [Next]_tables => SchedInv'
<1> SUFFICES ASSUME SchedInv, [Next]_tables PROVE SchedInv' OBVIOUS
<1>t. /\ game \in [Games -> Row] /\ allocated \subseteq Slots /\ archived \subseteq Seasons
      /\ policy \in [PolicyScopes -> {"inherit", "none", "buffer"}]
  BY DEF SchedInv, TypeOK
<1>1. ASSUME NEW g \in Games, NEW s \in Slots, NEW d \in BOOLEAN, Place(g, s, d) PROVE SchedInv'
  <2> DEFINE row == [life |-> "live", slot |-> s, published |-> FALSE, draft |-> d]
  <2>1. game[g].slot = NoSlot /\ Fits(g, s)
    BY <1>1, <1>t DEF Place, SchedInv, IceMatchesGames, Slotted
  <2>2. NoSlot \notin allocated BY <1>t, SlotAssumption
  <2>3. allocated' = (allocated \ {game[g].slot}) \cup {s}
    BY <1>1, <2>1, <2>2 DEF Place, PlaceRow
  <2>4. row \in Row /\ row.slot = s /\ row.life = "live" /\ game' = [game EXCEPT ![g] = row]
    BY <1>1 DEF Place, PlaceRow, Row
  <2>5. UNCHANGED <<policy, archived>> BY <1>1 DEF Place, PlaceRow
  <2> HIDE DEF row
  <2> QED BY <2>1, <2>3, <2>4, <2>5, TakeSlot
<1>2. ASSUME NEW g \in Games, NEW s \in Slots, Move(g, s) PROVE SchedInv'
  <2> DEFINE row == Moved(game[g], s)
  <2>1. row \in Row /\ row.slot = s /\ row.life = "live"
    BY <1>2, <1>t DEF Move, Moved, Row
  <2>2. /\ Fits(g, s) /\ game' = [game EXCEPT ![g] = row]
        /\ allocated' = (allocated \ {game[g].slot}) \cup {s} /\ UNCHANGED <<policy, archived>>
    BY <1>2 DEF Move, MoveRow
  <2> HIDE DEF row
  <2> QED BY <2>1, <2>2, TakeSlot
<1>3. ASSUME NEW g \in Games, Cancel(g) PROVE SchedInv'
  <2> DEFINE row == CalledOff(game[g])
  <2>1. row \in Row /\ row.slot = NoSlot /\ row.life = "cancelled" BY <1>t DEF CalledOff, Row
  <2>2. game' = [game EXCEPT ![g] = row] /\ UNCHANGED <<policy, archived>>
    BY <1>3 DEF Cancel, CancelRow
  <2>3. allocated' = allocated \ Ice({g}) BY <1>3, <1>t DEF Cancel, CancelRow, Ice
  <2> HIDE DEF row
  <2>4. game' \in [Games -> Row] /\ game'[g] = row /\ \A h \in Games \ {g} : game'[h] = game[h]
    BY <1>t, <2>1, <2>2
  <2>5. {g} \in SUBSET Games /\ \A h \in {g} : game'[h].slot = NoSlot /\ game'[h].life # "live"
    BY <2>1, <2>4
  <2> QED BY <2>2, <2>3, <2>4, <2>5, GiveUpSlots
<1>4. ASSUME NEW g \in Games, Publish(g) \/ Unpublish(g) PROVE SchedInv'
  <2>1. PICK b \in BOOLEAN : PublishRow(g, game[g], b) BY <1>4 DEF Publish, Unpublish
  <2>2. game' = [game EXCEPT ![g] = Shown(game[g], b)] BY <2>1 DEF PublishRow
  <2>3. Shown(game[g], b) \in Row BY <1>t DEF Row, Shown
  <2>4. game' \in [Games -> Row] BY <1>t, <2>2, <2>3
  <2>5. \A h \in Games : game'[h].slot = game[h].slot /\ (game'[h].life = "live" <=> game[h].life = "live")
    BY <1>t, <2>2 DEF Row, Shown
  <2> QED BY <1>t, <2>1, <2>4, <2>5, SameIce DEF PublishRow
<1>5. ASSUME NEW P \in SUBSET Drafts, PublishDrafts(P) PROVE SchedInv'
  <2>1. \A g \in Games : game'[g] = IF g \in P THEN Released(game[g]) ELSE game[g]
    BY <1>5 DEF PublishDrafts, PublishRows
  <2>2. game' \in [Games -> Row] BY <1>5, <1>t DEF PublishDrafts, PublishRows, Released, Row
  <2>3. ASSUME NEW g \in Games
        PROVE  game'[g].slot = game[g].slot /\ (game'[g].life = "live" <=> game[g].life = "live")
    <3>1. /\ Released(game[g]).slot = game[g].slot
          /\ Released(game[g]).life = game[g].life
      BY DEF Released
    <3>2. game'[g] = Released(game[g]) \/ game'[g] = game[g] BY <2>1
    <3> HIDE DEF Released
    <3> QED BY <3>1, <3>2
  <2>4. \A g \in Slotted : game[g].slot \in allocated BY DEF SchedInv, IceMatchesGames
  <2>5. Ice(P) \subseteq allocated
    BY <2>4, <1>t, SlotAssumption DEF Ice, Drafts, Slotted
  <2>6. allocated' = allocated /\ UNCHANGED <<policy, archived>>
    BY <1>5, <2>5 DEF PublishDrafts, PublishRows
  <2> QED BY <1>t, <2>2, <2>3, <2>6, SameIce
<1>6. ASSUME NEW P \in SUBSET Drafts, Remove(P) PROVE SchedInv'
  <2>1. /\ P \in SUBSET Games /\ Absent("deleted") \in Row
        /\ Absent("deleted").slot = NoSlot /\ Absent("deleted").life # "live"
    BY DEF Drafts, Absent, Row
  <2>2. /\ game' = [g \in Games |-> IF g \in P THEN Absent("deleted") ELSE game[g]]
        /\ allocated' = allocated \ Ice(P) /\ UNCHANGED <<policy, archived>>
    BY <1>6 DEF Remove, RemoveRows
  <2>3. game' \in [Games -> Row] BY <1>t, <2>1, <2>2
  <2> QED BY <2>1, <2>2, <2>3, GiveUpSlots
<1>7. ASSUME \/ \E r \in PolicyScopes, v \in {"inherit", "none", "buffer"} : SetPolicyRow(r, v)
             \/ \E z \in Seasons : ArchiveRow(z) \/ ReopenRow(z)
      PROVE SchedInv'
  <2>1. /\ game' = game /\ allocated' = allocated
        /\ policy' \in [PolicyScopes -> {"inherit", "none", "buffer"}] /\ archived' \subseteq Seasons
    BY <1>7, <1>t DEF SetPolicyRow, ArchiveRow, ReopenRow
  <2> QED BY <1>t, <2>1, SameIce
<1>8. CASE UNCHANGED tables
  BY <1>8, <1>t, SameIce DEF tables
<1> QED BY <1>1, <1>2, <1>3, <1>4, <1>5, <1>6, <1>7, <1>8 DEF Next

(* The rows keep their types, whatever is called.                          *)
THEOREM CalendarTypeOK == Spec => []TypeOK
<1> QED BY InitInv, NextInv, PTL DEF Spec, SchedInv

(* Ice is neither leaked nor given twice: a slot is ALLOCATED exactly      *)
(* while one live game holds it.                                           *)
THEOREM CalendarIce == Spec => []IceMatchesGames
<1> QED BY InitInv, NextInv, PTL DEF Spec, SchedInv

(* No rink and no team is ever booked twice at a time.                     *)
THEOREM CalendarNoClash == Spec => []NoClash
<1> QED BY InitInv, NextInv, PTL DEF Spec, SchedInv
-----------------------------------------------------------------------------
(* The transactions.  What a server's transaction knows of itself:         *)
(* - Planned: the rows it has locked or still means to, in lock order;     *)
(* - Decided: what it found under its locks, which they keep true;         *)
(* - Seen: what its snapshot showed, true while no audited commit of       *)
(*   another server has made its own audit entry impossible;               *)
(* - Named: the games it names are there, or still its own to create.      *)

LockRow == (1..5) \X Nat
AnyRow == LockRow \cup {AuditCounter} \cup Rows(IceSlot, Slots \cup {NoSlot})
Txn == [op : Identified \cup {"idle", "seed", "move", "cancel", "publish", "unpublish"},
        games : SUBSET Games, slot : Slots \cup {NoSlot}, step : {"begun", "ordered", "writing"},
        todo : SUBSET LockRow, held : SUBSET LockRow, rinks : SUBSET Nat, plan : SUBSET Seasons,
        found : Row, changed : SUBSET AnyRow]

Batches == {"publishDrafts", "discard"}
Single == {"create", "commit", "seed", "move", "cancel", "publish", "unpublish", "delete"}
Placing == Creating \cup {"move"}
Deciding == {"seed", "move", "cancel", "publish", "unpublish"}

Before(q, r) == q[1] < r[1] \/ (q[1] = r[1] /\ q[2] < r[2])
Locks(s) == txn[s].todo \cup txn[s].held
SeasonRow(g) == <<Season, SeasonOf[g]>>

Shaped(s) ==
  /\ txn[s].op = "idle" => txn[s] = Idle
  /\ txn[s].op \in Single => txn[s].games = {The(s)}
  /\ txn[s].op \in Placing => txn[s].slot \in Slots /\ SeasonOf[The(s)] \in txn[s].plan
  /\ txn[s].op \in Creating \/ (txn[s].op = "move" /\ txn[s].step # "begun")
       => RinkOf[txn[s].slot] \in txn[s].rinks
  /\ txn[s].step = "writing" => txn[s].op \in Deciding
  /\ txn[s].step = "begun" => txn[s].op \in {"idle", "create", "move", "cancel", "delete"}

Planned(s) ==
  /\ txn[s].op \in Placing /\ txn[s].step # "begun"
       => PlacementLocks(The(s), txn[s].rinks, txn[s].plan) \subseteq Locks(s)
  /\ txn[s].op = "move" => Programs(txn[s].plan) \cup Rows(Team, TeamsOf[The(s)]) \subseteq Locks(s)
  /\ txn[s].step # "begun" => \A g \in txn[s].games : SeasonRow(g) \in Locks(s)
  /\ txn[s].step = "writing" => txn[s].todo \subseteq Rows(Game, txn[s].games)

LockOrder(s) ==
  /\ txn[s].todo \cap txn[s].held = {}
  /\ txn[s].op \in {"move", "cancel"} /\ txn[s].step = "begun" => \A q \in Locks(s) : q[1] <= Team
  /\ txn[s].op \in Deciding /\ txn[s].step = "ordered" => \A q \in Locks(s) : q[1] <= Season
  /\ txn[s].op = "delete" /\ txn[s].step = "begun" => \A q \in Locks(s) : q[1] = Game
  /\ txn[s].op \notin {"create", "delete"} => \A q \in txn[s].held, r \in txn[s].todo : Before(q, r)

\* The rink's games are under policies the placement locked.
Covered(s) == \A h \in Slotted \ txn[s].games :
  RinkOf[game[h].slot] = RinkOf[txn[s].slot] => SeasonOf[h] \in txn[s].plan
FitsIn(s) == \A g \in txn[s].games, t \in {txn[s].slot} : Fits(g, t)
Decided(s) == txn[s].step = "writing" =>
  /\ txn[s].op \in {"move", "seed"} => FitsIn(s) /\ Covered(s)
  /\ \A g \in txn[s].games :
       /\ Writable(g)
       /\ txn[s].op # "seed" => txn[s].found = game[g] /\ Exists(g)
       /\ txn[s].op \in {"move", "cancel", "publish"} => game[g].life = "live"

Seen(s) == AuditCounter \notin txn[s].changed =>
  /\ txn[s].op \in {"create", "commit"} => FitsIn(s) /\ \A g \in txn[s].games : Writable(g)
  /\ txn[s].op \in Batches \cup {"delete"} => \A g \in txn[s].games :
       /\ Writable(g)
       /\ <<Game, g>> \notin txn[s].changed =>
            game[g].draft /\ (txn[s].op = "publishDrafts" => game[g].life = "live")

Named(s) == \A g \in txn[s].games : game[g].life = "none" <=> txn[s].op \in Creating

Own(s) == Shaped(s) /\ Planned(s) /\ LockOrder(s) /\ Decided(s) /\ Seen(s) /\ Named(s)

DraftsExist == \A g \in Drafts : game[g].life # "none"
Exclusive == \A s, o \in Servers : s # o => txn[s].held \cap txn[o].held = {}
Claims == \A s, o \in Servers :
  s # o /\ txn[s].op \in Creating /\ txn[o].op \in Creating => txn[s].games \cap txn[o].games = {}

TxnInv ==
  /\ SchedInv /\ DraftsExist /\ txn \in [Servers -> Txn] /\ Exclusive /\ Claims
  /\ \A s \in Servers : Own(s)

-----------------------------------------------------------------------------
(* Locks are taken in order.                                               *)

\* The row locked next comes before every other row still to lock.
LEMMA NextRowFirst ==
  ASSUME NEW todo \in SUBSET LockRow, todo # {}
  PROVE  NextRow(todo) \in todo /\ \A q \in todo \ {NextRow(todo)} : Before(NextRow(todo), q)
<1>1. \A T \in SUBSET Nat : T # {} => \E n \in T : \A m \in T : n <= m
  <2> SUFFICES ASSUME NEW T \in SUBSET Nat, T # {} PROVE \E n \in T : \A m \in T : n <= m
    OBVIOUS
  <2>1. PICK n \in T : \A m \in T : <<m, n>> \notin OpToRel(<, Nat)
    BY NatLessThanWellFounded, WFMin, Zenon
  <2>2. \A m \in T : ~(m < n) BY <2>1, Zenon DEF OpToRel
  <2>. QED BY <2>2
<1>2. \A q \in todo : q[1] \in Nat /\ q[2] \in Nat /\ q = <<q[1], q[2]>> BY DEF LockRow
<1>3. PICK k \in {q[1] : q \in todo} : \A m \in {q[1] : q \in todo} : k <= m
  BY <1>1, <1>2
<1>4. PICK n \in {q[2] : q \in {r \in todo : r[1] = k}} : \A m \in {q[2] : q \in {r \in todo : r[1] = k}} : n <= m
  <2>1. {q[2] : q \in {r \in todo : r[1] = k}} \in SUBSET Nat BY <1>2
  <2>2. {q[2] : q \in {r \in todo : r[1] = k}} # {} BY <1>3
  <2>. QED BY <1>1, <2>1, <2>2
<1>5. PICK r \in todo : r[1] = k /\ r[2] = n BY <1>4
<1>6. \A q \in todo : Precedes(r, q)
  <2> SUFFICES ASSUME NEW q \in todo PROVE Precedes(r, q) OBVIOUS
  <2>1. k <= q[1] BY <1>3
  <2>2. q[1] = k => n <= q[2] BY <1>4
  <2>. QED BY <1>2, <1>5, <2>1, <2>2 DEF Precedes
<1>7. NextRow(todo) \in todo /\ \A q \in todo : Precedes(NextRow(todo), q) BY <1>6 DEF NextRow
<1>8. ASSUME NEW q \in todo \ {NextRow(todo)} PROVE Before(NextRow(todo), q)
  BY <1>2, <1>7, <1>8 DEF Precedes, Before
<1>. QED BY <1>7, <1>8

\* The rows a placement locks.
LEMMA PlacementRows ==
  ASSUME NEW g \in Games, NEW rinks \in SUBSET Nat, NEW plan \in SUBSET Seasons
  PROVE  /\ PlacementLocks(g, rinks, plan) \subseteq LockRow
         /\ \A q \in PlacementLocks(g, rinks, plan) : q[1] <= Season
         /\ \A q \in Programs(plan) \cup Rows(Team, TeamsOf[g]) : q[1] <= Team
         /\ \A q \in Rows(Rink, rinks) \cup Rows(Season, plan) : Team < q[1] /\ q[1] <= Season
  BY IdsAssumption DEF PlacementLocks, Programs, Rows, LockRow, Program, Team, Rink, Season

-----------------------------------------------------------------------------
(* A commit does what its call alone would have done.                      *)

CommitsOf(s) ==
  \/ CommitPlacement(s) \/ CommitMove(s) \/ CommitCancel(s) \/ CommitPublish(s)
  \/ CommitPublishDrafts(s) \/ CommitRemoval(s)

\* A placement's snapshot, or its locks, still vouch for the slot.
LEMMA PlacementStands ==
  ASSUME TxnInv, NEW s \in Servers, txn[s].op \in Placing,
         txn[s].op = "seed" \/ txn[s].op = "move" => txn[s].step = "writing",
         txn[s].op \in {"create", "commit"} => AuditCounter \notin txn[s].changed
  PROVE  /\ The(s) \in Games /\ txn[s].games = {The(s)} /\ txn[s].slot \in Slots
         /\ Writable(The(s)) /\ Fits(The(s), txn[s].slot)
         /\ txn[s].op # "move" => game[The(s)].life = "none"
<1>1. Own(s) /\ txn[s] \in Txn BY DEF TxnInv
<1>2. txn[s].games = {The(s)} /\ txn[s].slot \in Slots BY <1>1 DEF Own, Shaped, Placing, Creating, Single
<1>3. The(s) \in Games BY <1>1, <1>2 DEF Txn
<1>4. Writable(The(s)) /\ Fits(The(s), txn[s].slot)
  BY <1>1, <1>2 DEF Own, Decided, Seen, FitsIn, Placing, Creating
<1>5. txn[s].op # "move" => game[The(s)].life = "none" BY <1>1, <1>2 DEF Own, Named, Placing
<1>. QED BY <1>2, <1>3, <1>4, <1>5

LEMMA CommitIsCall ==
  ASSUME TxnInv, NEW s \in Servers, CommitsOf(s)
  PROVE  Next
<1>0. Own(s) /\ txn[s] \in Txn /\ TypeOK BY DEF TxnInv, SchedInv
<1>1. CASE CommitPlacement(s)
  <2>1. txn[s].op \in Creating /\ (txn[s].op = "seed" => txn[s].step = "writing")
    BY <1>1 DEF CommitPlacement, At
  <2>2. txn[s].op \in {"create", "commit"} => AuditCounter \notin txn[s].changed
    BY <1>1 DEF CommitPlacement, End, Stale, Audited, Identified
  <2>3. /\ The(s) \in Games /\ txn[s].slot \in Slots
        /\ Writable(The(s)) /\ Fits(The(s), txn[s].slot) /\ game[The(s)].life = "none"
    BY <2>1, <2>2, PlacementStands DEF Placing, Creating
  <2>4. PlaceRow(The(s), txn[s].slot, txn[s].op = "commit") BY <1>1 DEF CommitPlacement
  <2>5. \E d \in BOOLEAN : Place(The(s), txn[s].slot, d)
    <3>1. (txn[s].op = "commit") \in BOOLEAN OBVIOUS
    <3>2. Place(The(s), txn[s].slot, txn[s].op = "commit") BY <2>3, <2>4 DEF Place
    <3>. QED BY <3>1, <3>2
  <2>. QED BY <2>3, <2>5 DEF Next
<1>2. CASE CommitMove(s)
  <2>1. txn[s].op = "move" /\ txn[s].step = "writing" BY <1>2 DEF CommitMove, At
  <2>2. /\ The(s) \in Games /\ txn[s].slot \in Slots
        /\ Writable(The(s)) /\ Fits(The(s), txn[s].slot)
    BY <2>1, PlacementStands DEF Placing, Creating
  <2>3. txn[s].found = game[The(s)] /\ game[The(s)].life = "live"
    BY <1>0, <2>1 DEF Own, Decided, Shaped, Single
  <2>4. Move(The(s), txn[s].slot) BY <1>2, <2>2, <2>3 DEF CommitMove, Move
  <2>. QED BY <2>2, <2>4 DEF Next
<1>3. CASE CommitCancel(s) \/ CommitPublish(s)
  <2>1. txn[s].op \in {"cancel", "publish", "unpublish"} /\ txn[s].step = "writing"
    BY <1>3 DEF CommitCancel, CommitPublish, At
  <2>2. The(s) \in Games BY <1>0, <2>1 DEF Own, Shaped, Txn, Single
  <2>3. /\ Writable(The(s)) /\ txn[s].found = game[The(s)] /\ Exists(The(s))
        /\ txn[s].op # "unpublish" => game[The(s)].life = "live"
    BY <1>0, <2>1 DEF Own, Decided, Shaped, Single
  <2>4. Cancel(The(s)) \/ Publish(The(s)) \/ Unpublish(The(s))
    <3>1. CASE CommitCancel(s) BY <3>1, <2>3 DEF CommitCancel, Cancel
    <3>2. CASE CommitPublish(s)
      <4>1. CASE txn[s].op = "publish" BY <4>1, <3>2, <2>3 DEF CommitPublish, Publish
      <4>2. CASE txn[s].op = "unpublish" BY <4>2, <3>2, <2>3 DEF CommitPublish, Unpublish
      <4>. QED BY <3>2, <4>1, <4>2 DEF CommitPublish
    <3>. QED BY <1>3, <3>1, <3>2
  <2>. QED BY <2>2, <2>4 DEF Next
<1>4. CASE CommitPublishDrafts(s) \/ CommitRemoval(s)
  <2>. DEFINE P == txn[s].games
  <2>1. /\ txn[s].op \in Batches \cup {"delete"} /\ txn[s].op \in Identified /\ P \subseteq Games
        /\ End(s, Written(P))
    BY <1>0, <1>4 DEF CommitPublishDrafts, CommitRemoval, Batches, Identified, Txn
  <2>2. AuditCounter \notin txn[s].changed /\ \A g \in P : <<Game, g>> \notin txn[s].changed
    BY <2>1 DEF End, Stale, Written, Audited, Rows
  <2>3. \A g \in P : Writable(g) /\ game[g].draft /\ (txn[s].op = "publishDrafts" => game[g].life = "live")
    BY <1>0, <2>1, <2>2 DEF Own, Seen
  <2>4. P \in SUBSET Drafts BY <2>1, <2>3 DEF Drafts
  <2>5. PublishDrafts(P) \/ Remove(P)
    BY <1>4, <2>3 DEF CommitPublishDrafts, CommitRemoval, PublishDrafts, Remove
  <2>. QED BY <2>4, <2>5 DEF Next
<1>. QED BY <1>1, <1>2, <1>3, <1>4 DEF CommitsOf

-----------------------------------------------------------------------------
(* What a commit of s may do to the others.                                *)

\* s places a game on ice whose rink, and for teams which, it holds.
Places(s) ==
  /\ txn[s].slot \in Slots /\ <<Rink, RinkOf[txn[s].slot]>> \in txn[s].held
  /\ \A g \in txn[s].games : Rows(Team, TeamsOf[g]) \subseteq txn[s].held

\* A commit changes only the games it names, under their Season, and tells the
\* snapshots of the others: of the audit entry, or of the games it called off.
Effect(s, rows) ==
  /\ UNCHANGED <<policy, archived>>
  /\ game' \in [Games -> Row] /\ \A g \in Games \ txn[s].games : game'[g] = game[g]
  /\ \A g \in txn[s].games :
       /\ SeasonRow(g) \in txn[s].held
       /\ game'[g].life \in {"live", "cancelled", "deleted"}
       /\ game'[g].slot \in {NoSlot, game[g].slot} \/ (Places(s) /\ game'[g].slot = txn[s].slot)
  /\ allocated' \subseteq allocated \/ (Places(s) /\ allocated' \subseteq allocated \cup {txn[s].slot})
  /\ rows \subseteq AnyRow
  /\ AuditCounter \in rows \/
       (allocated' \subseteq allocated
        /\ \A g \in txn[s].games : game'[g].slot = NoSlot /\ <<Game, g>> \in rows)
  /\ txn' = [Changes(rows) EXCEPT ![s] = Idle]

LEMMA CommitEffect ==
  ASSUME TxnInv, NEW s \in Servers, CommitsOf(s)
  PROVE  \E rows : Effect(s, rows)
<1>0. /\ Shaped(s) /\ Planned(s) /\ Decided(s) /\ Named(s) /\ txn[s] \in Txn
      /\ game \in [Games -> Row] /\ NoSlot \notin Slots
  BY SlotAssumption DEF TxnInv, SchedInv, TypeOK, Own
<1>a. AuditCounter \in AnyRow /\ \A t \in Slots \cup {NoSlot} : <<IceSlot, t>> \in AnyRow
  BY DEF AnyRow, Rows
<1>b. \A g \in Games : <<Game, g>> \in AnyRow BY IdsAssumption DEF AnyRow, LockRow, Game
<1>c. ASSUME txn[s].op \in Placing, txn[s].step # "begun", txn[s].todo = {}
      PROVE  /\ The(s) \in Games /\ txn[s].games = {The(s)} /\ Places(s) /\ SeasonRow(The(s)) \in txn[s].held
  <2>1. /\ txn[s].games = {The(s)} /\ txn[s].slot \in Slots /\ SeasonOf[The(s)] \in txn[s].plan
        /\ RinkOf[txn[s].slot] \in txn[s].rinks
    BY <1>0, <1>c DEF Shaped, Placing, Creating, Single
  <2>2. PlacementLocks(The(s), txn[s].rinks, txn[s].plan) \subseteq txn[s].held
    BY <1>0, <1>c DEF Planned, Locks
  <2>3. /\ Rows(Team, TeamsOf[The(s)]) \subseteq txn[s].held
        /\ <<Rink, RinkOf[txn[s].slot]>> \in txn[s].held /\ SeasonRow(The(s)) \in txn[s].held
    BY <2>1, <2>2 DEF PlacementLocks, Rows, SeasonRow
  <2>. QED BY <1>0, <2>1, <2>3 DEF Places, Txn
<1>d. ASSUME txn[s].step # "begun", txn[s].todo = {} PROVE \A g \in txn[s].games : SeasonRow(g) \in txn[s].held
  BY <1>0, <1>d DEF Planned, Locks
<1>1. CASE CommitPlacement(s)
  <2>1. /\ txn[s].op \in Placing /\ txn[s].step # "begun" /\ txn[s].todo = {}
        /\ PlaceRow(The(s), txn[s].slot, txn[s].op = "commit")
        /\ txn' = [Changes(Audited({<<IceSlot, txn[s].slot>>})) EXCEPT ![s] = Idle]
    BY <1>1 DEF CommitPlacement, At, End, Placing
  <2>2. The(s) \in Games /\ txn[s].games = {The(s)} /\ Places(s) /\ SeasonRow(The(s)) \in txn[s].held
    BY <1>c, <2>1
  <2>3. /\ UNCHANGED <<policy, archived>> /\ allocated' \subseteq allocated \cup {txn[s].slot}
        /\ game'[The(s)].life = "live" /\ game'[The(s)].slot = txn[s].slot
        /\ \A g \in Games \ {The(s)} : game'[g] = game[g] /\ game' \in [Games -> Row]
    BY <1>0, <2>1, <2>2 DEF PlaceRow, Row, Places
  <2>4. game' \in [Games -> Row]
    <3>1. [life |-> "live", slot |-> txn[s].slot, published |-> FALSE, draft |-> txn[s].op = "commit"] \in Row
      BY <2>2 DEF Row, Places
    <3>. QED BY <1>0, <2>1, <3>1 DEF PlaceRow
  <2>5. /\ Audited({<<IceSlot, txn[s].slot>>}) \subseteq AnyRow
        /\ AuditCounter \in Audited({<<IceSlot, txn[s].slot>>})
    BY <1>a, <2>2 DEF Audited, Places
  <2>. QED BY <2>1, <2>2, <2>3, <2>4, <2>5 DEF Effect
<1>2. CASE CommitMove(s)
  <2>. DEFINE rows == Audited({<<Game, The(s)>>, <<IceSlot, txn[s].found.slot>>, <<IceSlot, txn[s].slot>>})
  <2>1. /\ txn[s].op \in Placing /\ txn[s].step = "writing" /\ txn[s].todo = {} /\ txn[s].op # "seed"
        /\ MoveRow(The(s), txn[s].found, txn[s].slot)
        /\ txn' = [Changes(rows) EXCEPT ![s] = Idle] /\ txn[s].op = "move"
    BY <1>2 DEF CommitMove, At, End, Placing
  <2>2. The(s) \in Games /\ txn[s].games = {The(s)} /\ Places(s) /\ SeasonRow(The(s)) \in txn[s].held
    BY <1>c, <2>1
  <2>3. txn[s].found = game[The(s)] /\ game[The(s)].life = "live" /\ txn[s].found \in Row
    BY <1>0, <2>1, <2>2 DEF Decided, Txn
  <2>4. /\ Moved(txn[s].found, txn[s].slot) \in Row /\ Moved(txn[s].found, txn[s].slot).life = "live"
        /\ Moved(txn[s].found, txn[s].slot).slot = txn[s].slot
    BY <2>2, <2>3 DEF Moved, Row, Places
  <2>. HIDE DEF rows
  <2>5. /\ UNCHANGED <<policy, archived>> /\ allocated' \subseteq allocated \cup {txn[s].slot}
        /\ game' \in [Games -> Row] /\ game'[The(s)] = Moved(txn[s].found, txn[s].slot)
        /\ \A g \in Games \ {The(s)} : game'[g] = game[g]
    BY <1>0, <2>1, <2>2, <2>4 DEF MoveRow
  <2>6. rows \subseteq AnyRow /\ AuditCounter \in rows
    BY <1>a, <1>b, <2>2, <2>3 DEF Audited, Places, Row, rows
  <2>. QED BY <2>1, <2>2, <2>4, <2>5, <2>6 DEF Effect
<1>3. CASE CommitCancel(s)
  <2>. DEFINE rows == {<<Game, The(s)>>, <<IceSlot, txn[s].found.slot>>}
  <2>1. /\ txn[s].op = "cancel" /\ txn[s].step = "writing" /\ txn[s].todo = {}
        /\ CancelRow(The(s), txn[s].found) /\ txn' = [Changes(rows) EXCEPT ![s] = Idle]
    BY <1>3 DEF CommitCancel, At, End
  <2>2. /\ txn[s].games = {The(s)} /\ The(s) \in Games /\ txn[s].found \in Row
        /\ SeasonRow(The(s)) \in txn[s].held
    BY <1>0, <1>d, <2>1 DEF Shaped, Single, Txn
  <2>3. /\ CalledOff(txn[s].found) \in Row /\ CalledOff(txn[s].found).life = "cancelled"
        /\ CalledOff(txn[s].found).slot = NoSlot
    BY <2>2 DEF CalledOff, Row
  <2>. HIDE DEF rows
  <2>4. /\ UNCHANGED <<policy, archived>> /\ allocated' \subseteq allocated
        /\ game' \in [Games -> Row] /\ game'[The(s)] = CalledOff(txn[s].found)
        /\ \A g \in Games \ {The(s)} : game'[g] = game[g]
    BY <1>0, <2>1, <2>2, <2>3 DEF CancelRow
  <2>5. rows \subseteq AnyRow /\ <<Game, The(s)>> \in rows BY <1>a, <1>b, <2>2 DEF Row, rows
  <2>. QED BY <2>1, <2>2, <2>3, <2>4, <2>5 DEF Effect
<1>4. CASE CommitPublish(s)
  <2>. DEFINE rows == Audited({<<Game, The(s)>>})
  <2>1. /\ txn[s].op \in {"publish", "unpublish"} /\ txn[s].step = "writing" /\ txn[s].todo = {}
        /\ PublishRow(The(s), txn[s].found, txn[s].op = "publish")
        /\ txn' = [Changes(rows) EXCEPT ![s] = Idle]
    BY <1>4 DEF CommitPublish, At, End
  <2>2. /\ txn[s].games = {The(s)} /\ The(s) \in Games /\ txn[s].found = game[The(s)]
        /\ SeasonRow(The(s)) \in txn[s].held /\ game[The(s)] \in Row
        /\ game[The(s)].life \in {"live", "cancelled"}
    BY <1>0, <1>d, <2>1 DEF Shaped, Single, Txn, Decided, Exists
  <2>. DEFINE row == Shown(game[The(s)], txn[s].op = "publish")
  <2>3. row \in Row /\ row.life \in {"live", "cancelled"} /\ row.slot = game[The(s)].slot
    BY <2>2 DEF Shown, Row
  <2>4. game' = [game EXCEPT ![The(s)] = row] /\ UNCHANGED <<policy, archived>> /\ allocated' = allocated
    BY <2>1, <2>2 DEF PublishRow
  <2>. HIDE DEF rows, row
  <2>5. game' \in [Games -> Row] /\ game'[The(s)] = row /\ \A g \in Games \ {The(s)} : game'[g] = game[g]
    BY <1>0, <2>2, <2>3, <2>4
  <2>6. rows \subseteq AnyRow /\ AuditCounter \in rows BY <1>a, <1>b, <2>2 DEF Audited, rows
  <2>. QED BY <2>1, <2>2, <2>3, <2>4, <2>5, <2>6 DEF Effect
<1>5. CASE CommitPublishDrafts(s) \/ CommitRemoval(s)
  <2>. DEFINE P == txn[s].games
              rows == Written(P)
  <2>1. /\ txn[s].op \in Batches \cup {"delete"} /\ txn[s].step = "ordered" /\ txn[s].todo = {}
        /\ txn' = [Changes(rows) EXCEPT ![s] = Idle] /\ P \subseteq Games
        /\ \A g \in P : SeasonRow(g) \in txn[s].held
    BY <1>0, <1>5, <1>d DEF CommitPublishDrafts, CommitRemoval, At, End, Batches, Txn
  <2>2. rows \subseteq AnyRow /\ AuditCounter \in rows
    BY <1>a, <1>b, <2>1 DEF Written, Audited, Rows, Ice
  <2>3. /\ UNCHANGED <<policy, archived>> /\ allocated' \subseteq allocated /\ game' \in [Games -> Row]
        /\ \A g \in Games \ P : game'[g] = game[g]
        /\ \A g \in P : game'[g].life \in {"live", "deleted"} /\ game'[g].slot \in {NoSlot, game[g].slot}
    <3>. HIDE DEF rows
    <3>1. CASE CommitPublishDrafts(s)
      <4>1. /\ PublishRows(P) /\ Next /\ \A g \in P : game[g].life = "live"
        <5>1. AuditCounter \notin txn[s].changed /\ \A g \in P : <<Game, g>> \notin txn[s].changed
          BY <3>1, <2>1 DEF CommitPublishDrafts, End, Stale, Written, Audited, Rows, Identified
        <5>2. txn[s].op = "publishDrafts" /\ Seen(s) BY <3>1 DEF CommitPublishDrafts, TxnInv, Own
        <5>. QED BY <3>1, <5>1, <5>2, CommitIsCall DEF CommitPublishDrafts, CommitsOf, Seen, Batches
      <4>2. /\ game' = [g \in Games |-> IF g \in P THEN Released(game[g]) ELSE game[g]]
            /\ allocated' = allocated \cup Ice(P) /\ UNCHANGED <<policy, archived>>
        BY <4>1 DEF PublishRows
      <4>3. Ice(P) \subseteq allocated
        BY <1>0, <2>1 DEF Ice, TxnInv, SchedInv, IceMatchesGames, Slotted
      <4>4. \A g \in P : /\ Released(game[g]) \in Row /\ Released(game[g]).life = "live"
                         /\ Released(game[g]).slot = game[g].slot
        BY <1>0, <2>1, <4>1 DEF Released, Row
      <4>. QED BY <1>0, <2>1, <4>2, <4>3, <4>4
    <3>2. CASE CommitRemoval(s)
      <4>1. /\ game' = [g \in Games |-> IF g \in P THEN Absent("deleted") ELSE game[g]]
            /\ allocated' = allocated \ Ice(P) /\ UNCHANGED <<policy, archived>>
        BY <3>2 DEF CommitRemoval, RemoveRows
      <4>2. Absent("deleted") \in Row /\ Absent("deleted").slot = NoSlot /\ Absent("deleted").life = "deleted"
        BY DEF Absent, Row
      <4>. QED BY <1>0, <2>1, <4>1, <4>2
    <3>. QED BY <1>5, <3>1, <3>2
  <2>. HIDE DEF rows
  <2>. QED BY <2>1, <2>2, <2>3 DEF Effect
<1>. QED BY <1>1, <1>2, <1>3, <1>4, <1>5 DEF CommitsOf

-----------------------------------------------------------------------------
(* What the others have decided under their locks stays true.              *)

\* What a transaction that is writing has locked.
LEMMA WritingHolds ==
  ASSUME NEW s \in Servers, txn[s] \in Txn, Shaped(s), Planned(s), txn[s].step = "writing"
  PROVE  /\ The(s) \in Games /\ txn[s].games = {The(s)} /\ SeasonRow(The(s)) \in txn[s].held
         /\ txn[s].op \in {"seed", "move"} =>
              /\ txn[s].slot \in Slots /\ <<Rink, RinkOf[txn[s].slot]>> \in txn[s].held
              /\ Rows(Team, TeamsOf[The(s)]) \subseteq txn[s].held
              /\ SeasonOf[The(s)] \in txn[s].plan
              /\ \A z \in txn[s].plan : <<Season, z>> \in txn[s].held /\ <<Program, ProgramOf[z]>> \in txn[s].held
<1>1. /\ The(s) \in Games /\ txn[s].games = {The(s)} /\ \A q \in txn[s].todo : q[1] = Game
  BY DEF Shaped, Planned, Deciding, Single, Txn, Rows
<1>2. \A q \in Locks(s) : q[1] # Game => q \in txn[s].held BY <1>1 DEF Locks
<1>3. SeasonRow(The(s)) \in txn[s].held BY <1>1, <1>2 DEF Planned, SeasonRow, Season, Game
<1>4. ASSUME txn[s].op \in {"seed", "move"}
      PROVE  /\ txn[s].slot \in Slots /\ <<Rink, RinkOf[txn[s].slot]>> \in txn[s].held
             /\ Rows(Team, TeamsOf[The(s)]) \subseteq txn[s].held
             /\ SeasonOf[The(s)] \in txn[s].plan
             /\ \A z \in txn[s].plan : <<Season, z>> \in txn[s].held /\ <<Program, ProgramOf[z]>> \in txn[s].held
  <2>1. /\ txn[s].slot \in Slots /\ SeasonOf[The(s)] \in txn[s].plan /\ RinkOf[txn[s].slot] \in txn[s].rinks
        /\ PlacementLocks(The(s), txn[s].rinks, txn[s].plan) \subseteq Locks(s)
    BY <1>4 DEF Shaped, Planned, Placing, Creating
  <2>2. \A q \in PlacementLocks(The(s), txn[s].rinks, txn[s].plan) : q[1] # Game
    BY DEF PlacementLocks, Programs, Rows, Program, Team, Rink, Season, Game
  <2>3. PlacementLocks(The(s), txn[s].rinks, txn[s].plan) \subseteq txn[s].held BY <1>2, <2>1, <2>2
  <2>. QED BY <2>1, <2>3 DEF PlacementLocks, Programs, Rows
<1>. QED BY <1>1, <1>3, <1>4

\* A slot still fits a game when others took only ice of other rinks, for other teams.
LEMMA FitsStays ==
  ASSUME NEW g \in Games, NEW t \in Slots, Fits(g, t), policy' = policy, t \notin allocated',
         \A h \in Slotted' \ {g} :
           \/ h \in Slotted /\ game'[h].slot = game[h].slot
           \/ RinkOf[game'[h].slot] # RinkOf[t] /\ TeamsOf[g] \cap TeamsOf[h] = {}
  PROVE  Fits(g, t)'
<1>1. \A r, z : Buffered(r, z)' <=> Buffered(r, z) BY DEF Buffered, Policy
<1>2. ASSUME NEW h \in Slotted' \ {g}
      PROVE  (t # game[h].slot /\ ~Clash(g, t, h, game[h].slot) /\ ~Crowds(g, t, h, game[h].slot))'
  <2>1. CASE h \in Slotted /\ game'[h].slot = game[h].slot
    BY <1>1, <1>2, <2>1 DEF Fits, Crowds, Clash
  <2>2. CASE RinkOf[game'[h].slot] # RinkOf[t] /\ TeamsOf[g] \cap TeamsOf[h] = {}
    BY <2>2 DEF Clash, Crowds
  <2>. QED BY <1>2, <2>1, <2>2
<1>. QED BY <1>2 DEF Fits, Clash

\* A transaction that is only told of changes keeps its plan.
LEMMA ToldKeepsPlan ==
  ASSUME NEW o \in Servers, txn[o] \in Txn, Shaped(o), Planned(o), LockOrder(o), NEW rows \in SUBSET AnyRow,
         txn'[o] = IF txn[o].op \in Identified THEN [txn[o] EXCEPT !.changed = @ \cup rows] ELSE txn[o]
  PROVE  /\ txn'[o] \in Txn /\ txn'[o].op = txn[o].op /\ txn'[o].games = txn[o].games
         /\ txn'[o].slot = txn[o].slot /\ txn'[o].step = txn[o].step /\ txn'[o].plan = txn[o].plan
         /\ txn'[o].held = txn[o].held /\ txn'[o].found = txn[o].found
         /\ txn[o].changed \subseteq txn'[o].changed
         /\ txn[o].op \in Identified => rows \subseteq txn'[o].changed
         /\ Shaped(o)' /\ Planned(o)' /\ LockOrder(o)'
<1>1. /\ txn'[o] \in Txn /\ txn'[o].op = txn[o].op /\ txn'[o].games = txn[o].games
      /\ txn'[o].slot = txn[o].slot /\ txn'[o].step = txn[o].step /\ txn'[o].todo = txn[o].todo
      /\ txn'[o].held = txn[o].held /\ txn'[o].rinks = txn[o].rinks /\ txn'[o].plan = txn[o].plan
      /\ txn'[o].found = txn[o].found /\ txn[o].changed \subseteq txn'[o].changed
      /\ txn[o].op \in Identified => rows \subseteq txn'[o].changed
      /\ txn[o].op \notin Identified => txn'[o] = txn[o]
  BY DEF Txn
<1>2. The(o)' = The(o) BY <1>1 DEF The
<1>3. Shaped(o)' BY <1>1, <1>2 DEF Shaped, Identified
<1>4. Planned(o)' /\ LockOrder(o)' BY <1>1, <1>2 DEF Planned, LockOrder, Locks
<1>. QED BY <1>1, <1>3, <1>4

\* A commit of s leaves the others what they know.
LEMMA OthersStay ==
  ASSUME TxnInv, NEW s \in Servers, NEW rows, Effect(s, rows), NEW o \in Servers, o # s
  PROVE  /\ txn'[o] \in Txn /\ Own(o)'
         /\ txn'[o].held = txn[o].held /\ txn'[o].op = txn[o].op /\ txn'[o].games = txn[o].games
<1>0. /\ txn[o] \in Txn /\ txn[s] \in Txn /\ Shaped(o) /\ Planned(o) /\ LockOrder(o) /\ Decided(o)
      /\ Seen(o) /\ Named(o) /\ Named(s) /\ txn[o].held \cap txn[s].held = {}
      /\ txn[s].op \in Creating /\ txn[o].op \in Creating => txn[s].games \cap txn[o].games = {}
  BY DEF TxnInv, Own, Exclusive, Claims
<1>1. /\ txn'[o] = IF txn[o].op \in Identified THEN [txn[o] EXCEPT !.changed = @ \cup rows] ELSE txn[o]
      /\ rows \in SUBSET AnyRow
  BY DEF Effect, Changes, TxnInv
<1>2. /\ txn'[o] \in Txn /\ txn'[o].op = txn[o].op /\ txn'[o].games = txn[o].games
      /\ txn'[o].slot = txn[o].slot /\ txn'[o].step = txn[o].step /\ txn'[o].plan = txn[o].plan
      /\ txn'[o].held = txn[o].held /\ txn'[o].found = txn[o].found
      /\ txn[o].changed \subseteq txn'[o].changed
      /\ txn[o].op \in Identified => rows \subseteq txn'[o].changed
      /\ Shaped(o)' /\ Planned(o)' /\ LockOrder(o)'
  BY <1>0, <1>1, ToldKeepsPlan
<1>6. /\ \A g \in Games \ txn[s].games : game'[g] = game[g]
      /\ \A g \in txn[s].games : game'[g].life \in {"live", "cancelled", "deleted"}
      /\ policy' = policy /\ archived' = archived /\ \A g : Writable(g)' <=> Writable(g)
      /\ NoSlot \notin Slots
  BY SlotAssumption DEF Effect, Writable
<1>7. Decided(o)'
  <2> SUFFICES ASSUME txn[o].step = "writing"
               PROVE  /\ txn[o].op \in {"move", "seed"} => FitsIn(o)' /\ Covered(o)'
                      /\ \A g \in txn[o].games :
                           /\ Writable(g)'
                           /\ txn[o].op # "seed" => txn[o].found = game'[g] /\ Exists(g)'
                           /\ txn[o].op \in {"move", "cancel", "publish"} => game'[g].life = "live"
    BY <1>2 DEF Decided
  <2>1. The(o) \in Games /\ txn[o].games = {The(o)} /\ SeasonRow(The(o)) \in txn[o].held BY <1>0, WritingHolds
  <2>2. The(o) \notin txn[s].games BY <1>0, <2>1 DEF Effect
  <2>3. \A g \in txn[o].games : game'[g] = game[g] BY <1>6, <2>1, <2>2
  <2>4. ASSUME txn[o].op \in {"move", "seed"} PROVE FitsIn(o)' /\ Covered(o)'
    <3>1. PICK g \in Games : g = The(o) BY <2>1
    <3>2. /\ txn[o].slot \in Slots /\ <<Rink, RinkOf[txn[o].slot]>> \in txn[o].held
          /\ Rows(Team, TeamsOf[g]) \subseteq txn[o].held
      BY <1>0, <2>4, <3>1, WritingHolds
    <3>3. PICK t \in Slots : t = txn[o].slot BY <3>2
    <3>4. Fits(g, t) /\ Covered(o) BY <1>0, <2>1, <2>4, <3>1, <3>3 DEF Decided, FitsIn
    <3>5. ASSUME Places(s), NEW h \in txn[s].games
          PROVE  RinkOf[txn[s].slot] # RinkOf[t] /\ TeamsOf[g] \cap TeamsOf[h] = {}
      <4>1. RinkOf[txn[s].slot] # RinkOf[t] BY <1>0, <3>2, <3>3, <3>5 DEF Places
      <4>2. \A i \in TeamsOf[g] : <<Team, i>> \in txn[o].held BY <3>2 DEF Rows
      <4>3. \A i \in TeamsOf[h] : <<Team, i>> \in txn[s].held BY <3>5 DEF Places, Rows
      <4>. QED BY <1>0, <4>1, <4>2, <4>3
    <3>6. t \notin allocated'
      <4>1. Places(s) => RinkOf[txn[s].slot] # RinkOf[t] BY <1>0, <3>2, <3>3 DEF Places
      <4>. QED BY <3>4, <4>1 DEF Effect, Fits
    <3>7. ASSUME NEW h \in Slotted' \ {g}
          PROVE  \/ h \in Slotted /\ game'[h].slot = game[h].slot
                 \/ RinkOf[game'[h].slot] # RinkOf[t] /\ TeamsOf[g] \cap TeamsOf[h] = {}
      <4>1. CASE h \notin txn[s].games BY <1>6, <3>7, <4>1 DEF Slotted
      <4>2. CASE h \in txn[s].games
        <5>1. game'[h].slot = game[h].slot \/ (Places(s) /\ game'[h].slot = txn[s].slot)
          BY <3>7, <4>2 DEF Effect, Slotted
        <5>. QED BY <3>5, <3>7, <4>2, <5>1 DEF Slotted
      <4>. QED BY <4>1, <4>2
    <3>8. Fits(g, t)' BY <1>6, <3>4, <3>6, <3>7, FitsStays
    <3>9. FitsIn(o)' BY <1>2, <2>1, <3>1, <3>3, <3>8 DEF FitsIn
    <3>10. Covered(o)' BY <1>2, <2>1, <3>1, <3>3, <3>4, <3>7 DEF Covered
    <3>. QED BY <3>9, <3>10
  <2>. QED BY <1>0, <1>6, <2>3, <2>4 DEF Decided, Exists
<1>8. Seen(o)'
  <2> SUFFICES ASSUME AuditCounter \notin txn'[o].changed, txn[o].op \in Identified
               PROVE  /\ txn[o].op \in {"create", "commit"} => FitsIn(o)' /\ \A g \in txn[o].games : Writable(g)'
                      /\ txn[o].op \in Batches \cup {"delete"} => \A g \in txn[o].games :
                           /\ Writable(g)'
                           /\ <<Game, g>> \notin txn'[o].changed =>
                                game'[g].draft /\ (txn[o].op = "publishDrafts" => game'[g].life = "live")
    BY <1>2 DEF Seen, Identified, Batches
  <2>1. /\ allocated' \subseteq allocated /\ AuditCounter \notin txn[o].changed
        /\ \A g \in txn[s].games : game'[g].slot = NoSlot /\ <<Game, g>> \in txn'[o].changed
    BY <1>2 DEF Effect
  <2>2. ASSUME txn[o].op \in {"create", "commit"}
        PROVE  FitsIn(o)' /\ \A g \in txn[o].games : Writable(g)'
    <3>1. \A h \in Slotted' : h \in Slotted /\ game'[h].slot = game[h].slot BY <1>6, <2>1 DEF Slotted
    <3>2. FitsIn(o) /\ txn[o].slot \in Slots /\ \A g \in txn[o].games : g \in Games /\ Writable(g)
      BY <1>0, <2>1, <2>2 DEF Seen, Shaped, Placing, Creating, Txn
    <3>3. ASSUME NEW g \in txn[o].games, NEW t \in {txn[o].slot} PROVE Fits(g, t)'
      <4>1. g \in Games /\ t \in Slots /\ Fits(g, t) BY <3>2, <3>3 DEF FitsIn
      <4>2. t \notin allocated' BY <2>1, <4>1 DEF Fits
      <4>. QED BY <1>6, <3>1, <4>1, <4>2, FitsStays
    <3>4. FitsIn(o)' BY <1>2, <3>3 DEF FitsIn
    <3>. QED BY <1>6, <3>2, <3>4
  <2>3. ASSUME txn[o].op \in Batches \cup {"delete"}, NEW g \in txn[o].games
        PROVE  /\ Writable(g)'
               /\ <<Game, g>> \notin txn'[o].changed =>
                    game'[g].draft /\ (txn[o].op = "publishDrafts" => game'[g].life = "live")
    <3>1. g \in Games /\ Writable(g) /\ (<<Game, g>> \notin txn[o].changed =>
            game[g].draft /\ (txn[o].op = "publishDrafts" => game[g].life = "live"))
      BY <1>0, <2>1, <2>3 DEF Seen, Txn
    <3>2. <<Game, g>> \notin txn'[o].changed => <<Game, g>> \notin txn[o].changed /\ game'[g] = game[g]
      BY <1>2, <1>6, <2>1, <3>1
    <3>. QED BY <1>6, <3>1, <3>2
  <2>. QED BY <2>2, <2>3
<1>9. Named(o)'
  <2> SUFFICES ASSUME NEW g \in txn[o].games PROVE game'[g].life = "none" <=> txn[o].op \in Creating
    BY <1>2 DEF Named
  <2>1. g \in Games BY <1>0 DEF Txn
  <2>2. CASE g \notin txn[s].games BY <1>0, <1>6, <2>1, <2>2 DEF Named
  <2>3. CASE g \in txn[s].games
    <3>1. game'[g].life # "none" BY <1>6, <2>3
    <3>2. txn[o].op \notin Creating BY <1>0, <2>3 DEF Named
    <3>. QED BY <3>1, <3>2
  <2>. QED BY <2>2, <2>3
<1>. QED BY <1>2, <1>7, <1>8, <1>9 DEF Own

\* A policy or a Season's lifecycle changes only while nobody holds its row.
LEMMA SettingsStay ==
  ASSUME TxnInv, NEW rows \in SUBSET AnyRow, AuditCounter \in rows, txn' = Changes(rows),
         game' = game, allocated' = allocated, NEW r, Free(r),
         \A k \in PolicyScopes : k # r => policy'[k] = policy[k],
         \A z \in Seasons : <<Season, z>> # r => (z \in archived' <=> z \in archived),
         NEW o \in Servers
  PROVE  /\ txn'[o] \in Txn /\ Own(o)'
         /\ txn'[o].held = txn[o].held /\ txn'[o].op = txn[o].op /\ txn'[o].games = txn[o].games
<1>0. /\ txn[o] \in Txn /\ Shaped(o) /\ Planned(o) /\ LockOrder(o) /\ Decided(o)
      /\ Seen(o) /\ Named(o) /\ r \notin txn[o].held
  BY DEF TxnInv, Own, Free
<1>1. txn'[o] = IF txn[o].op \in Identified THEN [txn[o] EXCEPT !.changed = @ \cup rows] ELSE txn[o]
  BY DEF Changes
<1>2. /\ txn'[o] \in Txn /\ txn'[o].op = txn[o].op /\ txn'[o].games = txn[o].games
      /\ txn'[o].slot = txn[o].slot /\ txn'[o].step = txn[o].step /\ txn'[o].plan = txn[o].plan
      /\ txn'[o].held = txn[o].held /\ txn'[o].found = txn[o].found
      /\ txn[o].op \in Identified => rows \subseteq txn'[o].changed
      /\ Shaped(o)' /\ Planned(o)' /\ LockOrder(o)'
  BY <1>0, <1>1, ToldKeepsPlan
<1>3. Decided(o)'
  <2> SUFFICES ASSUME txn[o].step = "writing"
               PROVE  /\ txn[o].op \in {"move", "seed"} => FitsIn(o)' /\ Covered(o)'
                      /\ \A g \in txn[o].games : Writable(g)'
    BY <1>0, <1>2 DEF Decided, Exists
  <2>1. The(o) \in Games /\ txn[o].games = {The(o)} /\ SeasonRow(The(o)) \in txn[o].held BY <1>0, WritingHolds
  <2>2. \A g \in txn[o].games : Writable(g)'
    <3>1. PICK g \in Games : g = The(o) BY <2>1
    <3>2. SeasonOf[g] \in Seasons /\ <<Season, SeasonOf[g]>> # r
      BY <1>0, <2>1, <3>1, SeasonAssumption DEF SeasonRow
    <3>. QED BY <1>0, <2>1, <3>1, <3>2 DEF Decided, Writable
  <2>3. ASSUME txn[o].op \in {"move", "seed"} PROVE FitsIn(o)' /\ Covered(o)'
    <3>1. PICK g \in Games : g = The(o) BY <2>1
    <3>2. /\ txn[o].slot \in Slots /\ <<Rink, RinkOf[txn[o].slot]>> \in txn[o].held
          /\ SeasonOf[g] \in txn[o].plan
          /\ \A z \in txn[o].plan : <<Season, z>> \in txn[o].held /\ <<Program, ProgramOf[z]>> \in txn[o].held
      BY <1>0, <2>3, <3>1, WritingHolds
    <3>3. PICK t \in Slots : t = txn[o].slot BY <3>2
    <3>4. Fits(g, t) /\ Covered(o) BY <1>0, <2>1, <2>3, <3>1, <3>3 DEF Decided, FitsIn
    <3>5. \A k : k \in txn[o].held => Policy(k)' = Policy(k) BY <1>0 DEF Policy
    <3>6. \A z \in txn[o].plan : Buffered(RinkOf[t], z)' <=> Buffered(RinkOf[t], z)
      BY <3>2, <3>3, <3>5 DEF Buffered
    <3>7. Slotted' = Slotted BY DEF Slotted
    <3>8. \A h \in Slotted \ {g} : RinkOf[game[h].slot] = RinkOf[t] => SeasonOf[h] \in txn[o].plan
      BY <2>1, <3>1, <3>3, <3>4 DEF Covered
    <3>9. ASSUME NEW h \in Slotted \ {g}
          PROVE  (t # game[h].slot /\ ~Clash(g, t, h, game[h].slot) /\ ~Crowds(g, t, h, game[h].slot))'
      <4>1. t # game[h].slot /\ ~Clash(g, t, h, game[h].slot) /\ ~Crowds(g, t, h, game[h].slot)
        BY <3>4, <3>9 DEF Fits
      <4>2. CASE RinkOf[game[h].slot] # RinkOf[t] BY <4>1, <4>2 DEF Crowds, Clash
      <4>3. CASE RinkOf[game[h].slot] = RinkOf[t]
        <5>1. /\ Buffered(RinkOf[t], SeasonOf[g])' <=> Buffered(RinkOf[t], SeasonOf[g])
              /\ Buffered(RinkOf[t], SeasonOf[h])' <=> Buffered(RinkOf[t], SeasonOf[h])
          BY <3>2, <3>6, <3>8, <3>9, <4>3
        <5>. QED BY <4>1, <4>3, <5>1 DEF Crowds, Clash
      <4>. QED BY <4>2, <4>3
    <3>10. Fits(g, t)' BY <3>4, <3>7, <3>9 DEF Fits, Clash
    <3>11. FitsIn(o)' BY <1>2, <2>1, <3>1, <3>3, <3>10 DEF FitsIn
    <3>12. Covered(o)' BY <1>2, <3>4, <3>7 DEF Covered
    <3>. QED BY <3>11, <3>12
  <2>. QED BY <2>2, <2>3
<1>4. Seen(o)' BY <1>0, <1>2 DEF Seen, Identified, Batches
<1>5. Named(o)' BY <1>0, <1>2 DEF Named
<1>. QED BY <1>2, <1>3, <1>4, <1>5 DEF Own

-----------------------------------------------------------------------------
(* Steps of one transaction that leave the tables alone.                   *)

LEMMA IdleOwns ==
  ASSUME NEW s \in Servers, txn[s] = Idle
  PROVE  txn[s] \in Txn /\ Own(s)
<1>1. /\ Idle \in Txn /\ Idle.op = "idle" /\ Idle.games = {} /\ Idle.step = "begun"
      /\ Idle.todo = {} /\ Idle.held = {}
  BY DEF Idle, Txn, Absent, Row
<1>. QED BY <1>1 DEF Own, Shaped, Planned, LockOrder, Decided, Seen, Named, Locks, Single, Placing,
               Creating, Batches, Deciding

\* s changes its own transaction to u.
Becomes(s, u) ==
  /\ UNCHANGED tables /\ txn' = [txn EXCEPT ![s] = u] /\ u \in Txn
  /\ \A o \in Servers \ {s} : u.held \cap txn[o].held = {}
  /\ u.op \in Creating => \A o \in Servers \ {s} : txn[o].op \in Creating => u.games \cap txn[o].games = {}

LEMMA PrivateStep ==
  ASSUME TxnInv, NEW s \in Servers, NEW u, Becomes(s, u), Own(s)'
  PROVE  TxnInv'
<1>1. /\ txn \in [Servers -> Txn] /\ txn' \in [Servers -> Txn] /\ txn'[s] = u
      /\ \A o \in Servers \ {s} : txn'[o] = txn[o]
      /\ game' = game /\ allocated' = allocated /\ policy' = policy /\ archived' = archived
  BY DEF TxnInv, Becomes, tables
<1>2. SchedInv' /\ DraftsExist' BY <1>1, NextInv DEF TxnInv, Becomes, DraftsExist, Drafts
<1>3. Exclusive' BY <1>1 DEF TxnInv, Exclusive, Becomes
<1>4. Claims' BY <1>1 DEF TxnInv, Claims, Becomes
<1>5. ASSUME NEW o \in Servers \ {s} PROVE Own(o)'
  <2>1. txn'[o] = txn[o] /\ The(o)' = The(o) /\ Locks(o)' = Locks(o) BY <1>1 DEF The, Locks
  <2>2. Own(o) BY DEF TxnInv
  <2>3. \A r, z : Buffered(r, z)' <=> Buffered(r, z) BY <1>1 DEF Buffered, Policy
  <2>4. \A g, t : Fits(g, t)' <=> Fits(g, t) BY <1>1, <2>3 DEF Fits, Slotted, Crowds, Clash
  <2>5. \A g : (Writable(g)' <=> Writable(g)) /\ (Exists(g)' <=> Exists(g)) BY <1>1 DEF Writable, Exists
  <2>6. Shaped(o)' /\ Planned(o)' /\ LockOrder(o)' /\ Named(o)'
    BY <1>1, <2>1, <2>2 DEF Own, Shaped, Planned, LockOrder, Named
  <2>7. (FitsIn(o)' <=> FitsIn(o)) /\ (Covered(o)' <=> Covered(o)) BY <1>1, <2>1, <2>4 DEF FitsIn, Covered, Slotted
  <2>8. Decided(o)' BY <1>1, <2>1, <2>2, <2>5, <2>7 DEF Own, Decided
  <2>9. Seen(o)' BY <1>1, <2>1, <2>2, <2>5, <2>7 DEF Own, Seen
  <2>. QED BY <2>6, <2>8, <2>9 DEF Own
<1>. QED BY <1>1, <1>2, <1>3, <1>4, <1>5 DEF TxnInv

\* The same of the transaction a step leaves idle.
LEMMA IdleNext ==
  ASSUME NEW s \in Servers, txn'[s] = Idle
  PROVE  txn'[s] \in Txn /\ Own(s)'
<1>1. /\ Idle \in Txn /\ Idle.op = "idle" /\ Idle.games = {} /\ Idle.step = "begun"
      /\ Idle.todo = {} /\ Idle.held = {}
  BY DEF Idle, Txn, Absent, Row
<1>. QED BY <1>1 DEF Own, Shaped, Planned, LockOrder, Decided, Seen, Named, Locks, Single, Placing,
               Creating, Batches, Deciding

\* A transaction that is rolled back.
LEMMA AbortStep ==
  ASSUME TxnInv, NEW s \in Servers, Abort(s)
  PROVE  TxnInv'
<1>1. Idle \in Txn /\ Idle.held = {} /\ Idle.op \notin Creating BY DEF Idle, Txn, Absent, Row, Creating
<1>2. Becomes(s, Idle) BY <1>1 DEF Becomes, Abort, tables
<1>3. txn'[s] = Idle BY DEF Abort, TxnInv
<1>. QED BY <1>2, <1>3, IdleNext, PrivateStep

\* A transaction that begins holds nothing, has seen no change, and has decided nothing.
LEMMA BeginStep ==
  ASSUME TxnInv, NEW s \in Servers, NEW u \in Txn, u.held = {}, u.changed = {}, u.step # "writing",
         UNCHANGED tables, txn' = [txn EXCEPT ![s] = u],
         Shaped(s)', Planned(s)', Seen(s)', Named(s)',
         u.op \in {"move", "cancel"} /\ u.step = "begun" => \A q \in u.todo : q[1] <= Team,
         u.op \in Deciding /\ u.step = "ordered" => \A q \in u.todo : q[1] <= Season,
         u.op = "delete" /\ u.step = "begun" => \A q \in u.todo : q[1] = Game,
         u.op \in Creating => \A o \in Servers \ {s} : u.games \cap txn[o].games = {}
  PROVE  TxnInv'
<1>1. txn'[s] = u BY DEF TxnInv
<1>2. LockOrder(s)' BY <1>1 DEF LockOrder, Locks
<1>3. Decided(s)' BY <1>1 DEF Decided
<1>4. Becomes(s, u) BY DEF Becomes
<1>. QED BY <1>2, <1>3, <1>4, PrivateStep DEF Own

LEMMA IdleFields ==
  /\ Idle \in Txn /\ Idle.op = "idle" /\ Idle.games = {} /\ Idle.slot = NoSlot /\ Idle.step = "begun"
  /\ Idle.todo = {} /\ Idle.held = {} /\ Idle.rinks = {} /\ Idle.plan = {} /\ Idle.changed = {}
BY DEF Idle, Txn, Absent, Row

\* The request a placement starts from.
LEMMA PlacementFields ==
  ASSUME NEW g \in Games, NEW t \in Slots, NEW op \in Creating, NEW rinks \in SUBSET Nat
  PROVE  LET u == Placement(op, g, t, rinks)
         IN  /\ u \in Txn /\ u.op = op /\ u.games = {g} /\ u.slot = t /\ u.step = "ordered"
             /\ u.todo = PlacementLocks(g, rinks, u.plan) /\ u.held = {} /\ u.rinks = rinks
             /\ SeasonOf[g] \in u.plan /\ u.changed = {}
<1>. DEFINE plan == Plan(rinks, SeasonOf[g])
<1>1. plan \in SUBSET Seasons /\ SeasonOf[g] \in plan BY SeasonAssumption DEF Plan, Slotted
<1>2. PlacementLocks(g, rinks, plan) \in SUBSET LockRow BY <1>1, PlacementRows
<1>3. op \in Identified \cup {"idle", "seed", "move", "cancel", "publish", "unpublish"}
  BY DEF Creating, Identified
<1>4. Placement(op, g, t, rinks) =
        [Idle EXCEPT !.op = op, !.games = {g}, !.slot = t, !.step = "ordered",
           !.rinks = rinks, !.plan = plan, !.todo = PlacementLocks(g, rinks, plan)]
  BY DEF Placement
<1>. DEFINE u == Placement(op, g, t, rinks)
<1>. HIDE DEF plan
<1>5. /\ u.op = op /\ u.games = {g} /\ u.slot = t /\ u.step = "ordered" /\ u.held = {} /\ u.rinks = rinks
      /\ u.plan = plan /\ u.todo = PlacementLocks(g, rinks, plan) /\ u.changed = {}
  BY <1>4, IdleFields DEF Txn
<1>6. u \in Txn
  <2>. DEFINE v == [Idle EXCEPT !.op = op, !.games = {g}, !.slot = t]
  <2>1. v \in Txn BY <1>3, IdleFields DEF Txn
  <2>2. u = [v EXCEPT !.step = "ordered", !.rinks = rinks, !.plan = plan, !.todo = PlacementLocks(g, rinks, plan)]
    BY <1>4
  <2>. HIDE DEF u, v
  <2>. QED BY <1>1, <1>2, <2>1, <2>2 DEF Txn
<1>. HIDE DEF u
<1>. QED BY <1>1, <1>5, <1>6 DEF u

\* The calls that place a game begin.
LEMMA PlacementBegins ==
  ASSUME TxnInv, NEW s \in Servers, txn[s] = Idle, NEW g \in Games, NEW t \in Slots,
         BeginCreate(s, g, t) \/ BeginDraftCommit(s, g, t) \/ BeginSeed(s, g, t)
  PROVE  TxnInv'
<1>0. /\ RinkOf[t] \in Nat /\ RinkOf[t] \in RinksOf(Slots) /\ RinksOf(Slots) \in SUBSET Nat
      /\ SeasonOf[g] \in Seasons /\ Seasons \subseteq Nat /\ game[g].life = "none"
      /\ \A o \in Servers : g \notin txn[o].games
  BY IdsAssumption, SeasonAssumption DEF RinksOf, BeginCreate, BeginDraftCommit, BeginSeed, Unclaimed
<1>2. PICK u \in Txn :
        /\ UNCHANGED tables /\ txn' = [txn EXCEPT ![s] = u]
        /\ u.op \in Creating /\ u.games = {g} /\ u.slot = t /\ u.held = {} /\ u.changed = {}
        /\ RinkOf[t] \in u.rinks /\ SeasonOf[g] \in u.plan /\ u.step \in {"begun", "ordered"}
        /\ u.op = "create" => u.step = "begun"
        /\ u.op # "create" => u.step = "ordered"
        /\ u.op \in {"create", "commit"} => Writable(g) /\ Fits(g, t)
        /\ u.step = "ordered" => u.todo = PlacementLocks(g, u.rinks, u.plan)
  <2>1. CASE BeginCreate(s, g, t)
    <3>. DEFINE p == Placement("create", g, t, {RinkOf[t]})
    <3>1. /\ p \in Txn /\ p.op = "create" /\ p.games = {g} /\ p.slot = t /\ p.held = {}
          /\ p.rinks = {RinkOf[t]} /\ SeasonOf[g] \in p.plan /\ p.changed = {}
      BY <1>0, PlacementFields DEF Creating
    <3>. DEFINE u == [p EXCEPT !.step = "begun", !.todo = {<<Season, SeasonOf[g]>>}]
    <3>2. /\ Writable(g) /\ Fits(g, t) /\ UNCHANGED tables /\ txn' = [txn EXCEPT ![s] = u]
      BY <2>1 DEF BeginCreate, Begin
    <3>3. {<<Season, SeasonOf[g]>>} \in SUBSET LockRow
      <4>1. Season \in 1..5 BY DEF Season
      <4>2. SeasonOf[g] \in Nat BY <1>0
      <4>. QED BY <4>1, <4>2 DEF LockRow
    <3>. HIDE DEF p
    <3>4. /\ u \in Txn /\ u.op = "create" /\ u.games = {g} /\ u.slot = t /\ u.held = {} /\ u.changed = {}
          /\ u.rinks = {RinkOf[t]} /\ SeasonOf[g] \in u.plan /\ u.step = "begun"
      BY <3>1, <3>3 DEF Txn
    <3>. HIDE DEF u
    <3>. QED BY <3>2, <3>4 DEF Creating
  <2>2. CASE BeginDraftCommit(s, g, t)
    <3>. DEFINE u == Placement("commit", g, t, RinksOf(Slots))
    <3>1. /\ u \in Txn /\ u.op = "commit" /\ u.games = {g} /\ u.slot = t /\ u.held = {}
          /\ u.rinks = RinksOf(Slots) /\ SeasonOf[g] \in u.plan /\ u.changed = {} /\ u.step = "ordered"
          /\ u.todo = PlacementLocks(g, u.rinks, u.plan)
      BY <1>0, PlacementFields DEF Creating
    <3>2. /\ Writable(g) /\ Fits(g, t) /\ UNCHANGED tables /\ txn' = [txn EXCEPT ![s] = u]
      BY <2>2 DEF BeginDraftCommit, Begin
    <3>. HIDE DEF u
    <3>. QED BY <1>0, <3>1, <3>2 DEF Creating
  <2>3. CASE BeginSeed(s, g, t)
    <3>. DEFINE u == Placement("seed", g, t, {RinkOf[t]})
    <3>1. /\ u \in Txn /\ u.op = "seed" /\ u.games = {g} /\ u.slot = t /\ u.held = {}
          /\ u.rinks = {RinkOf[t]} /\ SeasonOf[g] \in u.plan /\ u.changed = {} /\ u.step = "ordered"
          /\ u.todo = PlacementLocks(g, u.rinks, u.plan)
      BY <1>0, PlacementFields DEF Creating
    <3>2. UNCHANGED tables /\ txn' = [txn EXCEPT ![s] = u] BY <2>3 DEF BeginSeed, Begin
    <3>. HIDE DEF u
    <3>. QED BY <1>0, <3>1, <3>2 DEF Creating
  <2>. QED BY <2>1, <2>2, <2>3
<1>5. txn'[s] = u /\ The(s)' = g BY <1>2 DEF TxnInv, The
<1>6. Fits(g, t) => Fits(g, t)'
  BY <1>2 DEF Fits, Slotted, Clash, Crowds, Buffered, Policy, tables
<1>7. (Writable(g) => Writable(g)') /\ game'[g].life = "none" BY <1>0, <1>2 DEF Writable, tables
<1>8. Shaped(s)' BY <1>2, <1>5 DEF Shaped, Placing, Creating, Single, Deciding
<1>9. Planned(s)'
  <2>1. SeasonRow(g) \in PlacementLocks(g, u.rinks, u.plan) BY <1>2 DEF PlacementLocks, Rows, SeasonRow
  <2>. QED BY <1>2, <1>5, <2>1 DEF Planned, Locks, Creating
<1>10. Seen(s)'
  <2>1. u.op \in {"create", "commit"} => FitsIn(s)' BY <1>2, <1>5, <1>6 DEF FitsIn
  <2>. QED BY <1>2, <1>5, <1>7, <2>1 DEF Seen, Creating, Batches
<1>11. Named(s)' BY <1>2, <1>5, <1>7 DEF Named
<1>12. u.op \in Deciding /\ u.step = "ordered" => \A q \in u.todo : q[1] <= Season
  BY <1>2, PlacementRows DEF Txn
<1>. QED BY <1>0, <1>2, <1>8, <1>9, <1>10, <1>11, <1>12, BeginStep DEF Creating

\* A game that exists is nobody's to create.
LEMMA ExistingBegins ==
  ASSUME TxnInv, NEW s \in Servers, txn[s] = Idle, NEW u \in Txn, UNCHANGED tables,
         txn' = [txn EXCEPT ![s] = u], u.held = {}, u.changed = {}, u.step # "writing",
         u.op \in (Single \cup Batches) \ Creating, \A g \in u.games : game[g].life # "none",
         u.op \in Single => \E g \in Games : u.games = {g},
         u.step = "begun" => u.op \in {"move", "cancel", "delete"},
         u.op = "move" => u.step = "begun" /\ u.slot \in Slots /\ \A g \in u.games :
           /\ SeasonOf[g] \in u.plan
           /\ Programs(u.plan) \cup Rows(Team, TeamsOf[g]) \subseteq u.todo,
         u.step = "ordered" => \A g \in u.games : SeasonRow(g) \in u.todo,
         u.op \in {"move", "cancel"} /\ u.step = "begun" => \A q \in u.todo : q[1] <= Team,
         u.op \in Deciding /\ u.step = "ordered" => \A q \in u.todo : q[1] <= Season,
         u.op = "delete" /\ u.step = "begun" => \A q \in u.todo : q[1] = Game,
         u.op \in Batches \cup {"delete"} => \A g \in u.games :
           Writable(g) /\ game[g].draft /\ (u.op = "publishDrafts" => game[g].life = "live")
  PROVE  TxnInv'
<1>1. txn'[s] = u BY DEF TxnInv
<1>2. u.op \in Single => u.games = {The(s)'} BY <1>1 DEF The
<1>3. Shaped(s)' BY <1>1, <1>2 DEF Shaped, Single, Batches, Placing, Creating, Txn
<1>4. Planned(s)'
  <2>1. /\ u.op \notin Placing \/ u.step = "begun"
        /\ u.step # "begun" => \A g \in u.games : SeasonRow(g) \in u.todo
        /\ u.op = "move" => Programs(u.plan) \cup Rows(Team, TeamsOf[The(s)']) \subseteq u.todo
    BY <1>2 DEF Single, Batches, Placing, Txn
  <2>2. Locks(s)' = u.todo BY <1>1 DEF Locks
  <2>. QED BY <1>1, <2>1, <2>2 DEF Planned
<1>5. game' = game /\ \A g : Writable(g) => Writable(g)' BY DEF Writable, tables
<1>6. Seen(s)' BY <1>1, <1>5 DEF Seen, Creating, Single, Batches
<1>7. Named(s)' BY <1>1, <1>5 DEF Named
<1>. QED BY <1>3, <1>4, <1>6, <1>7, BeginStep

LEMMA SeasonRows ==
  ASSUME NEW g \in Games
  PROVE  SeasonOf[g] \in Seasons /\ SeasonRow(g) \in LockRow /\ SeasonRow(g)[1] = Season
         /\ <<Game, g>> \in LockRow /\ <<Game, g>>[1] = Game
<1>1. SeasonOf[g] \in Seasons /\ SeasonOf[g] \in Nat /\ g \in Nat BY IdsAssumption, SeasonAssumption
<1>2. Season \in 1..5 /\ Game \in 1..5 BY DEF Season, Game
<1>. QED BY <1>1, <1>2 DEF SeasonRow, LockRow

LEMMA MoveBegins ==
  ASSUME TxnInv, NEW s \in Servers, txn[s] = Idle, NEW g \in Games,
         (\E t \in Slots : BeginMove(s, g, t)) \/ BeginCancel(s, g)
  PROVE  TxnInv'
<1>1. \A plan \in SUBSET Seasons :
        /\ Programs(plan) \cup Rows(Team, TeamsOf[g]) \in SUBSET LockRow
        /\ \A q \in Programs(plan) \cup Rows(Team, TeamsOf[g]) : q[1] <= Team
  BY PlacementRows DEF PlacementLocks
<1>2. /\ SeasonOf[g] \in Seasons /\ game[g] \in Row /\ game[g].life # "none"
  <2>1. Exists(g) BY Zenon DEF BeginMove, BeginCancel
  <2>. QED BY <2>1, SeasonAssumption DEF TxnInv, SchedInv, TypeOK, Exists
<1>3. ASSUME NEW t \in Slots, BeginMove(s, g, t) PROVE TxnInv'
  <2>. DEFINE plan == Plan(RinksOf({t, game[g].slot}), SeasonOf[g])
              todo == Programs(plan) \cup Rows(Team, TeamsOf[g])
              v == [Idle EXCEPT !.op = "move", !.games = {g}, !.slot = t]
              u == [v EXCEPT !.plan = plan, !.found = game[g], !.todo = todo]
  <2>1. plan \in SUBSET Seasons /\ SeasonOf[g] \in plan BY <1>2, SeasonAssumption DEF Plan, Slotted
  <2>2. todo \in SUBSET LockRow /\ \A q \in todo : q[1] <= Team BY <1>1, <2>1
  <2>3. UNCHANGED tables /\ txn' = [txn EXCEPT ![s] = u] BY <1>3, Zenon DEF BeginMove, Begin
  <2>. HIDE DEF plan, todo
  <2>4. /\ v \in Txn /\ v.op = "move" /\ v.games = {g} /\ v.slot = t /\ v.step = "begun"
        /\ v.held = {} /\ v.changed = {}
    BY IdleFields DEF Txn
  <2>. HIDE DEF v
  <2>5. /\ u \in Txn /\ u.op = "move" /\ u.games = {g} /\ u.slot = t /\ u.step = "begun" /\ u.plan = plan
        /\ u.held = {} /\ u.changed = {} /\ u.todo = todo
    BY <1>2, <2>1, <2>2, <2>4 DEF Txn
  <2>. HIDE DEF u
  <2>. QED BY <1>2, <2>1, <2>2, <2>3, <2>5, ExistingBegins DEF Single, Batches, Creating, todo
<1>4. CASE BeginCancel(s, g)
  <2>. DEFINE todo == Programs({SeasonOf[g]}) \cup Rows(Team, TeamsOf[g])
              v == [Idle EXCEPT !.op = "cancel", !.games = {g}]
              u == [v EXCEPT !.found = game[g], !.todo = todo]
  <2>1. todo \in SUBSET LockRow /\ \A q \in todo : q[1] <= Team
    <3>1. {SeasonOf[g]} \in SUBSET Seasons BY <1>2
    <3>. QED BY <1>1, <3>1
  <2>2. UNCHANGED tables /\ txn' = [txn EXCEPT ![s] = u] BY <1>4 DEF BeginCancel, Begin
  <2>. HIDE DEF todo
  <2>3. /\ v \in Txn /\ v.op = "cancel" /\ v.games = {g} /\ v.step = "begun" /\ v.held = {} /\ v.changed = {}
    BY IdleFields DEF Txn
  <2>. HIDE DEF v
  <2>4. /\ u \in Txn /\ u.op = "cancel" /\ u.games = {g} /\ u.step = "begun"
        /\ u.held = {} /\ u.changed = {} /\ u.todo = todo
    BY <1>2, <2>1, <2>3 DEF Txn
  <2>. HIDE DEF u
  <2>. QED BY <1>2, <2>1, <2>2, <2>4, ExistingBegins DEF Single, Batches, Creating
<1>. QED BY <1>3, <1>4

LEMMA PublishBegins ==
  ASSUME TxnInv, NEW s \in Servers, txn[s] = Idle, NEW g \in Games,
         (\E op \in {"publish", "unpublish"} : BeginPublish(s, g, op)) \/ BeginDelete(s, g)
  PROVE  TxnInv'
<1>1. game[g] \in Row BY DEF TxnInv, SchedInv, TypeOK
<1>2. CASE \E op \in {"publish", "unpublish"} : BeginPublish(s, g, op)
  <2>1. PICK op \in {"publish", "unpublish"} : BeginPublish(s, g, op) BY <1>2
  <2>. DEFINE v == [Idle EXCEPT !.op = op, !.games = {g}]
              u == [v EXCEPT !.found = game[g], !.step = "ordered", !.todo = {SeasonRow(g)}]
  <2>2. UNCHANGED tables /\ txn' = [txn EXCEPT ![s] = u] /\ game[g].life # "none"
    BY <2>1 DEF BeginPublish, Begin, SeasonRow, Exists
  <2>3. /\ v \in Txn /\ v.op = op /\ v.games = {g} /\ v.held = {} /\ v.changed = {}
    BY <2>1, IdleFields DEF Txn
  <2>. HIDE DEF v
  <2>4. {SeasonRow(g)} \in SUBSET LockRow BY SeasonRows
  <2>5. /\ u \in Txn /\ u.op = op /\ u.games = {g} /\ u.step = "ordered"
        /\ u.held = {} /\ u.changed = {} /\ u.todo = {SeasonRow(g)}
    BY <1>1, <2>3, <2>4 DEF Txn
  <2>6. \A q \in {SeasonRow(g)} : q[1] <= Season BY DEF SeasonRow, Season
  <2>. HIDE DEF u
  <2>. QED BY <2>2, <2>5, <2>6, ExistingBegins DEF Single, Batches, Creating
<1>3. CASE BeginDelete(s, g)
  <2>. DEFINE u == [Idle EXCEPT !.op = "delete", !.games = {g}, !.todo = {<<Game, g>>}]
  <2>1. /\ UNCHANGED tables /\ txn' = [txn EXCEPT ![s] = u]
        /\ game[g].life # "none" /\ game[g].draft /\ Writable(g)
    BY <1>3 DEF BeginDelete, Begin
  <2>2. {<<Game, g>>} \in SUBSET LockRow BY SeasonRows
  <2>3. /\ u \in Txn /\ u.op = "delete" /\ u.games = {g} /\ u.step = "begun"
        /\ u.held = {} /\ u.changed = {} /\ u.todo = {<<Game, g>>}
    BY <2>2, IdleFields DEF Txn, Identified
  <2>4. \A q \in u.todo : q[1] = Game BY <2>3
  <2>. HIDE DEF u
  <2>5. u.op \in (Single \cup Batches) \ Creating /\ u.op \notin Deciding /\ u.op \notin Batches
    BY <2>3 DEF Single, Batches, Creating, Deciding
  <2>. QED BY <2>1, <2>3, <2>4, <2>5, ExistingBegins
<1>. QED BY <1>2, <1>3

LEMMA BatchBegins ==
  ASSUME TxnInv, NEW s \in Servers, txn[s] = Idle, NEW z \in Seasons, NEW op \in Batches,
         NEW P \in SUBSET {g \in Drafts : SeasonOf[g] = z}, BeginBatch(s, z, P, op)
  PROVE  TxnInv'
<1>. DEFINE todo == {<<Season, z>>} \cup Rows(Game, P)
            v == [Idle EXCEPT !.op = op, !.games = P]
            u == [v EXCEPT !.step = "ordered", !.todo = todo]
<1>1. UNCHANGED tables /\ txn' = [txn EXCEPT ![s] = u] BY DEF BeginBatch, Begin
<1>2. P \subseteq Games /\ \A g \in P : game[g].draft /\ SeasonOf[g] = z BY DEF Drafts
<1>3. todo \in SUBSET LockRow
  <2>1. z \in Nat /\ Season \in 1..5 /\ Game \in 1..5 BY IdsAssumption DEF Season, Game
  <2>. QED BY <1>2, <2>1, IdsAssumption DEF LockRow, Rows
<1>4. \A g \in P : SeasonRow(g) \in todo BY <1>2 DEF SeasonRow
<1>5. \A g \in P : /\ Writable(g) /\ game[g].life # "none"
                   /\ op = "publishDrafts" => game[g].life = "live"
  BY <1>2 DEF BeginBatch, Writable, TxnInv, DraftsExist
<1>. HIDE DEF todo
<1>6. /\ v \in Txn /\ v.op = op /\ v.games = P /\ v.held = {} /\ v.changed = {}
  BY <1>2, IdleFields DEF Txn, Batches, Identified
<1>. HIDE DEF v
<1>7. /\ u \in Txn /\ u.op = op /\ u.games = P /\ u.step = "ordered"
      /\ u.held = {} /\ u.changed = {} /\ u.todo = todo
  BY <1>3, <1>6 DEF Txn
<1>. HIDE DEF u
<1>. QED BY <1>1, <1>2, <1>4, <1>5, <1>7, ExistingBegins DEF Single, Batches, Creating, Deciding

-----------------------------------------------------------------------------
(* A transaction goes on.                                                  *)

\* It locks, reads again or decides: what it was asked and was told stays.
LEMMA GoesOn ==
  ASSUME TxnInv, NEW s \in Servers, NEW u \in Txn, UNCHANGED tables, txn' = [txn EXCEPT ![s] = u],
         u.op = txn[s].op, u.games = txn[s].games, u.slot = txn[s].slot, u.plan = txn[s].plan,
         u.changed = txn[s].changed,
         \A o \in Servers \ {s} : u.held \cap txn[o].held = {},
         Shaped(s)', Planned(s)', LockOrder(s)',
         u.step = "writing" =>
           /\ u.op \in {"move", "seed"} => FitsIn(s) /\ Covered(s)
           /\ \A g \in u.games :
                /\ Writable(g)
                /\ u.op # "seed" => u.found = game[g] /\ Exists(g)
                /\ u.op \in {"move", "cancel", "publish"} => game[g].life = "live"
  PROVE  TxnInv'
<1>1. /\ txn'[s] = u /\ game' = game /\ allocated' = allocated /\ policy' = policy /\ archived' = archived
  BY DEF TxnInv, tables
<1>2. \A r, z : Buffered(r, z)' <=> Buffered(r, z) BY <1>1 DEF Buffered, Policy
<1>3. \A g, t : Fits(g, t)' <=> Fits(g, t) BY <1>1, <1>2 DEF Fits, Slotted, Crowds, Clash
<1>4. \A g : (Writable(g)' <=> Writable(g)) /\ (Exists(g)' <=> Exists(g)) BY <1>1 DEF Writable, Exists
<1>5. (FitsIn(s)' <=> FitsIn(s)) /\ (Covered(s)' <=> Covered(s)) BY <1>1, <1>3 DEF FitsIn, Covered, Slotted
<1>6. Decided(s)' BY <1>1, <1>4, <1>5 DEF Decided
<1>7. Own(s) BY DEF TxnInv
<1>8. Seen(s)' /\ Named(s)' BY <1>1, <1>4, <1>5, <1>7 DEF Own, Seen, Named
<1>9. Becomes(s, u) BY DEF Becomes, TxnInv, Claims
<1>. QED BY <1>6, <1>8, <1>9, PrivateStep DEF Own

LEMMA LockStep ==
  ASSUME TxnInv, NEW s \in Servers, Lock(s)
  PROVE  TxnInv'
<1>0. txn[s] \in Txn /\ Own(s) BY DEF TxnInv
<1>. DEFINE r == NextRow(txn[s].todo)
            u == [txn[s] EXCEPT !.todo = @ \ {r}, !.held = @ \cup {r}]
<1>1. /\ txn[s].todo # {} /\ txn' = [txn EXCEPT ![s] = u] /\ UNCHANGED tables
      /\ \A o \in Servers : r \notin txn[o].held
  BY DEF Lock, Free
<1>2. txn[s].todo \in SUBSET LockRow BY <1>0 DEF Txn
<1>3. r \in txn[s].todo /\ \A q \in txn[s].todo \ {r} : Before(r, q) BY <1>1, <1>2, NextRowFirst
<1>. HIDE DEF r
<1>4. /\ u \in Txn /\ u.op = txn[s].op /\ u.games = txn[s].games /\ u.slot = txn[s].slot
      /\ u.step = txn[s].step /\ u.rinks = txn[s].rinks /\ u.plan = txn[s].plan
      /\ u.found = txn[s].found /\ u.changed = txn[s].changed
      /\ u.todo = txn[s].todo \ {r} /\ u.held = txn[s].held \cup {r}
  BY <1>0, <1>3 DEF Txn
<1>. HIDE DEF u
<1>5. txn'[s] = u BY <1>1 DEF TxnInv
<1>6. The(s)' = The(s) /\ Locks(s)' = Locks(s) BY <1>3, <1>4, <1>5 DEF The, Locks
<1>7. \A o \in Servers \ {s} : u.held \cap txn[o].held = {} BY <1>1, <1>4 DEF TxnInv, Exclusive
<1>8. Shaped(s)'
  <2>1. txn[s].op # "idle" BY <1>0, <1>1, IdleFields DEF Own, Shaped
  <2>. QED BY <1>0, <1>4, <1>5, <1>6, <2>1 DEF Own, Shaped
<1>9. Planned(s)' BY <1>0, <1>4, <1>5, <1>6 DEF Own, Planned
<1>10. LockOrder(s)' BY <1>0, <1>3, <1>4, <1>5, <1>6 DEF Own, LockOrder
<1>11. u.step = "writing" =>
         /\ u.op \in {"move", "seed"} => FitsIn(s) /\ Covered(s)
         /\ \A g \in u.games :
              /\ Writable(g)
              /\ u.op # "seed" => u.found = game[g] /\ Exists(g)
              /\ u.op \in {"move", "cancel", "publish"} => game[g].life = "live"
  BY <1>0, <1>4 DEF Own, Decided
<1>. QED BY <1>1, <1>4, <1>7, <1>8, <1>9, <1>10, <1>11, GoesOn

\* Of a single transaction: its game, and the locks already taken when none is left to take.
LEMMA Resting ==
  ASSUME TxnInv, NEW s \in Servers, txn[s].op \in Single, txn[s].todo = {}
  PROVE  /\ The(s) \in Games /\ txn[s].games = {The(s)} /\ txn[s] \in Txn
         /\ Locks(s) = txn[s].held /\ Shaped(s) /\ Planned(s) /\ LockOrder(s) /\ Named(s)
         /\ game[The(s)] \in Row /\ \A o \in Servers \ {s} : txn[s].held \cap txn[o].held = {}
<1>1. txn[s] \in Txn /\ Own(s) BY DEF TxnInv
<1>2. txn[s].games = {The(s)} /\ The(s) \in Games BY <1>1 DEF Own, Shaped, Txn
<1>. QED BY <1>1, <1>2 DEF Own, Locks, TxnInv, SchedInv, TypeOK, Exclusive

LEMMA LockPlacementStep ==
  ASSUME TxnInv, NEW s \in Servers, LockPlacement(s)
  PROVE  TxnInv'
<1>. DEFINE rows == PlacementLocks(The(s), txn[s].rinks, txn[s].plan)
            u == [txn[s] EXCEPT !.step = "ordered", !.todo = rows \ txn[s].held]
<1>1. /\ txn[s].op = "create" /\ txn[s].todo = {} /\ txn' = [txn EXCEPT ![s] = u] /\ UNCHANGED tables
  BY DEF LockPlacement, At
<1>2. /\ The(s) \in Games /\ txn[s].games = {The(s)} /\ txn[s] \in Txn /\ Shaped(s)
      /\ \A o \in Servers \ {s} : txn[s].held \cap txn[o].held = {}
  BY <1>1, Resting DEF Single
<1>3. rows \in SUBSET LockRow BY <1>2, PlacementRows DEF Txn
<1>4. SeasonRow(The(s)) \in rows BY <1>1, <1>2 DEF Shaped, Placing, Creating, PlacementLocks, Rows, SeasonRow
<1>. HIDE DEF rows
<1>5. /\ u \in Txn /\ u.op = "create" /\ u.games = txn[s].games /\ u.slot = txn[s].slot
      /\ u.step = "ordered" /\ u.rinks = txn[s].rinks /\ u.plan = txn[s].plan
      /\ u.changed = txn[s].changed /\ u.todo = rows \ txn[s].held /\ u.held = txn[s].held
  BY <1>1, <1>2, <1>3 DEF Txn
<1>. HIDE DEF u
<1>6. txn'[s] = u /\ The(s)' = The(s) BY <1>1, <1>5 DEF TxnInv, The
<1>7. Shaped(s)' BY <1>1, <1>2, <1>5, <1>6 DEF Shaped, Placing, Creating, Single
<1>8. Planned(s)' BY <1>2, <1>4, <1>5, <1>6 DEF Planned, Locks, rows, Creating
<1>9. LockOrder(s)' BY <1>5, <1>6 DEF LockOrder, Deciding
<1>. QED BY <1>1, <1>2, <1>5, <1>7, <1>8, <1>9, GoesOn

LEMMA LockSeasonStep ==
  ASSUME TxnInv, NEW s \in Servers, LockSeason(s)
  PROVE  TxnInv'
<1>. DEFINE rows == Rows(Season, {SeasonOf[g] : g \in txn[s].games})
            u == [txn[s] EXCEPT !.step = "ordered", !.todo = rows]
<1>1. /\ txn[s].op \in {"delete", "discard", "publishDrafts"} /\ txn[s].step = "begun"
      /\ txn[s].todo = {} /\ txn' = [txn EXCEPT ![s] = u] /\ UNCHANGED tables
  BY DEF LockSeason, At
<1>2. txn[s].op = "delete" BY <1>1 DEF TxnInv, Own, Shaped
<1>3. /\ The(s) \in Games /\ txn[s].games = {The(s)} /\ txn[s] \in Txn /\ Shaped(s) /\ LockOrder(s)
      /\ Locks(s) = txn[s].held /\ \A o \in Servers \ {s} : txn[s].held \cap txn[o].held = {}
  BY <1>1, <1>2, Resting DEF Single
<1>4. rows = {SeasonRow(The(s))} BY <1>3 DEF Rows, SeasonRow
<1>5. rows \in SUBSET LockRow /\ \A q \in rows : q[1] = Season BY <1>3, <1>4, SeasonRows
<1>. HIDE DEF rows
<1>6. /\ u \in Txn /\ u.op = "delete" /\ u.games = txn[s].games /\ u.slot = txn[s].slot
      /\ u.step = "ordered" /\ u.plan = txn[s].plan
      /\ u.changed = txn[s].changed /\ u.todo = rows /\ u.held = txn[s].held
  BY <1>2, <1>3, <1>5 DEF Txn
<1>. HIDE DEF u
<1>7. txn'[s] = u /\ The(s)' = The(s) BY <1>1, <1>6 DEF TxnInv, The
<1>8. Shaped(s)' BY <1>3, <1>6, <1>7 DEF Shaped, Placing, Creating, Single
<1>9. Planned(s)' BY <1>3, <1>4, <1>6, <1>7 DEF Planned, Locks, Placing, Creating
<1>10. LockOrder(s)'
  <2>1. \A q \in txn[s].held : q[1] = Game BY <1>1, <1>2, <1>3 DEF LockOrder
  <2>2. Season # Game BY DEF Season, Game
  <2>. QED BY <1>5, <1>6, <1>7, <2>1, <2>2 DEF LockOrder, Deciding
<1>. QED BY <1>1, <1>2, <1>3, <1>6, <1>8, <1>9, <1>10, GoesOn
LEMMA RelocateStep ==
  ASSUME TxnInv, NEW s \in Servers, RelocateMove(s) \/ RelocateCancel(s)
  PROVE  TxnInv'
<1>1. txn[s].op \in {"move", "cancel"} /\ txn[s].step = "begun" /\ txn[s].todo = {} /\ UNCHANGED tables
  BY DEF RelocateMove, RelocateCancel, At
<1>2. /\ The(s) \in Games /\ txn[s].games = {The(s)} /\ txn[s] \in Txn /\ Shaped(s) /\ Planned(s)
      /\ LockOrder(s) /\ Locks(s) = txn[s].held /\ game[The(s)] \in Row
      /\ \A o \in Servers \ {s} : txn[s].held \cap txn[o].held = {}
  BY <1>1, Resting DEF Single
<1>3. \A q \in txn[s].held : q[1] <= Team BY <1>1, <1>2 DEF LockOrder
<1>4. \A slots : RinksOf(slots) \in SUBSET Nat BY IdsAssumption DEF RinksOf
<1>5. ASSUME NEW u \in Txn, txn' = [txn EXCEPT ![s] = u],
             u.op = txn[s].op, u.games = txn[s].games, u.slot = txn[s].slot, u.plan = txn[s].plan,
             u.changed = txn[s].changed, u.held = txn[s].held, u.step = "ordered",
             \A q \in u.todo : Team < q[1] /\ q[1] <= Season,
             SeasonRow(The(s)) \in u.todo,
             u.op = "move" => /\ RinkOf[u.slot] \in u.rinks
                              /\ Rows(Rink, u.rinks) \cup Rows(Season, u.plan) \subseteq u.todo
      PROVE  TxnInv'
  <2>1. txn'[s] = u /\ The(s)' = The(s) BY <1>5 DEF TxnInv, The
  <2>2. Shaped(s)' BY <1>1, <1>2, <1>5, <2>1 DEF Shaped, Placing, Creating, Single
  <2>3. Planned(s)'
    <3>1. u.op = "move" => Programs(u.plan) \cup Rows(Team, TeamsOf[The(s)]) \subseteq u.held
      BY <1>2, <1>5 DEF Planned
    <3>2. u.op = "move" => PlacementLocks(The(s), u.rinks, u.plan) \subseteq u.todo \cup u.held
      BY <1>5, <3>1 DEF PlacementLocks
    <3>. QED BY <1>1, <1>2, <1>5, <2>1, <3>1, <3>2 DEF Planned, Locks, Placing, Creating
  <2>4. LockOrder(s)'
    <3>1. \A q \in u.held : q[1] <= Team BY <1>3, <1>5
    <3>2. \A q \in u.todo \cup u.held : q[1] \in Nat BY <1>5 DEF Txn, LockRow
    <3>3. Team = 2 /\ Season = 4 BY DEF Team, Season
    <3>4. \A q \in u.held, r \in u.todo : Before(q, r) /\ q # r BY <1>5, <3>1, <3>2, <3>3 DEF Before
    <3>5. \A q \in u.todo \cup u.held : q[1] <= Season BY <1>5, <3>1, <3>2, <3>3
    <3>. QED BY <1>5, <2>1, <3>4, <3>5 DEF LockOrder, Locks
  <2>. QED BY <1>1, <1>2, <1>5, <2>2, <2>3, <2>4, GoesOn
<1>6. CASE RelocateMove(s)
  <2>. DEFINE rinks == RinksOf({txn[s].slot, game[The(s)].slot})
              todo == Rows(Rink, rinks) \cup Rows(Season, txn[s].plan)
              v == [txn[s] EXCEPT !.step = "ordered", !.found = game[The(s)]]
              u == [v EXCEPT !.rinks = rinks, !.todo = todo]
  <2>1. txn[s].op = "move" /\ txn' = [txn EXCEPT ![s] = u] BY <1>6 DEF RelocateMove
  <2>2. txn[s].slot \in Slots /\ SeasonOf[The(s)] \in txn[s].plan /\ txn[s].plan \in SUBSET Seasons
    BY <1>2, <2>1 DEF Shaped, Placing, Txn
  <2>3. rinks \in SUBSET Nat /\ RinkOf[txn[s].slot] \in rinks BY <1>4, <2>2 DEF RinksOf
  <2>. HIDE DEF rinks
  <2>4. todo \in SUBSET LockRow /\ \A q \in todo : Team < q[1] /\ q[1] <= Season
    <3>1. /\ PlacementLocks(The(s), rinks, txn[s].plan) \subseteq LockRow
          /\ \A q \in todo : Team < q[1] /\ q[1] <= Season
      BY <1>2, <2>2, <2>3, PlacementRows
    <3>. QED BY <3>1 DEF PlacementLocks
  <2>5. SeasonRow(The(s)) \in todo BY <2>2 DEF SeasonRow, Rows
  <2>6. /\ v \in Txn /\ v.op = txn[s].op /\ v.games = txn[s].games /\ v.slot = txn[s].slot
        /\ v.plan = txn[s].plan /\ v.changed = txn[s].changed /\ v.held = txn[s].held /\ v.step = "ordered"
    BY <1>2 DEF Txn
  <2>7. Rows(Rink, rinks) \cup Rows(Season, txn[s].plan) \subseteq todo OBVIOUS
  <2>. HIDE DEF v, todo
  <2>8. /\ u \in Txn /\ u.op = txn[s].op /\ u.games = txn[s].games /\ u.slot = txn[s].slot
        /\ u.plan = txn[s].plan /\ u.changed = txn[s].changed /\ u.held = txn[s].held /\ u.step = "ordered"
        /\ u.rinks = rinks /\ u.todo = todo
    BY <2>3, <2>4, <2>6 DEF Txn
  <2>. HIDE DEF u
  <2>. QED BY <1>5, <2>1, <2>3, <2>4, <2>5, <2>7, <2>8
<1>7. CASE RelocateCancel(s)
  <2>. DEFINE todo == Rows(Rink, RinksOf({game[The(s)].slot})) \cup {SeasonRow(The(s))}
              u == [txn[s] EXCEPT !.step = "ordered", !.todo = todo]
  <2>1. txn[s].op = "cancel" /\ txn' = [txn EXCEPT ![s] = u] BY <1>7 DEF RelocateCancel, SeasonRow
  <2>2. todo \in SUBSET LockRow /\ \A q \in todo : Team < q[1] /\ q[1] <= Season
    <3>1. PICK rinks \in SUBSET Nat : rinks = RinksOf({game[The(s)].slot}) BY <1>4
    <3>2. {SeasonOf[The(s)]} \in SUBSET Seasons BY <1>2, SeasonAssumption
    <3>3. todo = Rows(Rink, rinks) \cup Rows(Season, {SeasonOf[The(s)]}) BY <3>1 DEF Rows, SeasonRow
    <3>4. /\ PlacementLocks(The(s), rinks, {SeasonOf[The(s)]}) \subseteq LockRow
          /\ \A q \in todo : Team < q[1] /\ q[1] <= Season
      BY <1>2, <3>2, <3>3, PlacementRows
    <3>. QED BY <3>3, <3>4 DEF PlacementLocks
  <2>3. SeasonRow(The(s)) \in todo OBVIOUS
  <2>. HIDE DEF todo
  <2>4. /\ u \in Txn /\ u.op = txn[s].op /\ u.games = txn[s].games /\ u.slot = txn[s].slot
        /\ u.plan = txn[s].plan /\ u.changed = txn[s].changed /\ u.held = txn[s].held /\ u.step = "ordered"
        /\ u.todo = todo
    BY <1>2, <2>2 DEF Txn
  <2>. HIDE DEF u
  <2>. QED BY <1>5, <2>1, <2>2, <2>3, <2>4
<1>. QED BY <1>6, <1>7

LEMMA DecidedStep ==
  ASSUME TxnInv, NEW s \in Servers,
         DecideSeed(s) \/ DecideMove(s) \/ DecideCancel(s) \/ DecidePublish(s)
  PROVE  TxnInv'
<1>1. txn[s].op \in Deciding /\ txn[s].step = "ordered" /\ txn[s].todo = {} /\ UNCHANGED tables
  BY DEF DecideSeed, DecideMove, DecideCancel, DecidePublish, Reread, At, Deciding
<1>2. /\ The(s) \in Games /\ txn[s].games = {The(s)} /\ txn[s] \in Txn /\ Shaped(s) /\ Planned(s)
      /\ LockOrder(s) /\ Locks(s) = txn[s].held /\ game[The(s)] \in Row
      /\ \A o \in Servers \ {s} : txn[s].held \cap txn[o].held = {}
  BY <1>1, Resting DEF Single, Deciding
<1>3. \A q \in txn[s].held : q[1] <= Season BY <1>1, <1>2 DEF LockOrder
<1>4. Writable(The(s)) BY DEF DecideSeed, DecideMove, DecideCancel, DecidePublish, Reread
<1>5. txn[s].op \in {"seed", "move"} => FitsIn(s) /\ Covered(s)
  <2> SUFFICES ASSUME txn[s].op \in {"seed", "move"} PROVE FitsIn(s) /\ Covered(s) OBVIOUS
  <2>1. PlanHolds(s, The(s)) /\ Fits(The(s), txn[s].slot)
    BY DEF DecideSeed, DecideMove, DecideCancel, DecidePublish
  <2>2. RinkOf[txn[s].slot] \in txn[s].rinks BY <1>1, <1>2 DEF Shaped, Creating
  <2>3. FitsIn(s) BY <1>2, <2>1 DEF FitsIn
  <2>4. Covered(s) BY <1>2, <2>1, <2>2 DEF Covered, PlanHolds, Fits
  <2>. QED BY <2>3, <2>4
<1>6. ASSUME NEW u \in Txn, txn' = [txn EXCEPT ![s] = u],
             u.op = txn[s].op, u.games = txn[s].games, u.slot = txn[s].slot, u.plan = txn[s].plan,
             u.rinks = txn[s].rinks, u.changed = txn[s].changed, u.held = txn[s].held, u.step = "writing",
             u.todo \subseteq {<<Game, The(s)>>},
             u.op # "seed" => u.found = game[The(s)] /\ Exists(The(s)),
             u.op \in {"move", "cancel", "publish"} => game[The(s)].life = "live"
      PROVE  TxnInv'
  <2>1. txn'[s] = u /\ The(s)' = The(s) BY <1>6 DEF TxnInv, The
  <2>2. Shaped(s)' BY <1>1, <1>2, <1>6, <2>1 DEF Shaped, Deciding
  <2>3. Planned(s)'
    <3>1. u.todo \subseteq Rows(Game, u.games) BY <1>2, <1>6 DEF Rows
    <3>. QED BY <1>1, <1>2, <1>6, <2>1, <3>1 DEF Planned, Locks
  <2>4. LockOrder(s)'
    <3>1. \A q \in u.held : q[1] <= Season /\ q[1] \in Nat BY <1>2, <1>3, <1>6 DEF Txn, LockRow
    <3>2. \A q \in u.todo : q[1] = Game BY <1>6
    <3>3. Game = 5 /\ Season = 4 BY DEF Game, Season
    <3>4. \A q \in u.held, r \in u.todo : Before(q, r) /\ q # r BY <3>1, <3>2, <3>3 DEF Before
    <3>. QED BY <1>6, <2>1, <3>4 DEF LockOrder
  <2>. QED BY <1>1, <1>2, <1>4, <1>5, <1>6, <2>2, <2>3, <2>4, GoesOn
<1>7. CASE DecideSeed(s)
  <2>. DEFINE u == [txn[s] EXCEPT !.step = "writing"]
  <2>1. txn[s].op = "seed" /\ txn' = [txn EXCEPT ![s] = u] BY <1>7 DEF DecideSeed
  <2>2. /\ u \in Txn /\ u.op = txn[s].op /\ u.games = txn[s].games /\ u.slot = txn[s].slot
        /\ u.plan = txn[s].plan /\ u.rinks = txn[s].rinks /\ u.changed = txn[s].changed
        /\ u.held = txn[s].held /\ u.step = "writing" /\ u.todo = {}
    BY <1>1, <1>2 DEF Txn
  <2>. HIDE DEF u
  <2>. QED BY <1>6, <2>1, <2>2
<1>8. CASE DecideMove(s) \/ DecideCancel(s) \/ DecidePublish(s)
  <2>. DEFINE u == [txn[s] EXCEPT !.step = "writing", !.found = game[The(s)], !.todo = {<<Game, The(s)>>}]
  <2>1. /\ Exists(The(s)) /\ txn' = [txn EXCEPT ![s] = u]
        /\ txn[s].op \in {"move", "cancel", "publish"} => game[The(s)].life = "live"
    BY <1>8 DEF DecideMove, DecideCancel, DecidePublish, Reread
  <2>2. {<<Game, The(s)>>} \in SUBSET LockRow BY <1>2, SeasonRows
  <2>3. /\ u \in Txn /\ u.op = txn[s].op /\ u.games = txn[s].games /\ u.slot = txn[s].slot
        /\ u.plan = txn[s].plan /\ u.rinks = txn[s].rinks /\ u.changed = txn[s].changed
        /\ u.held = txn[s].held /\ u.step = "writing" /\ u.todo = {<<Game, The(s)>>}
        /\ u.found = game[The(s)]
    BY <1>2, <2>2 DEF Txn
  <2>. HIDE DEF u
  <2>. QED BY <1>6, <2>1, <2>3
<1>. QED BY <1>7, <1>8
-----------------------------------------------------------------------------
(* Every step keeps the invariant, and is a step of one call or none.      *)

LEMMA CommitStep ==
  ASSUME TxnInv, NEW s \in Servers, CommitsOf(s)
  PROVE  TxnInv' /\ Next
<1>1. Next BY CommitIsCall
<1>2. SchedInv' BY <1>1, NextInv DEF TxnInv
<1>3. PICK rows : Effect(s, rows) BY CommitEffect
<1>4. txn \in [Servers -> Txn] BY DEF TxnInv
<1>5. txn'[s] = Idle /\ \E f : txn' = [f EXCEPT ![s] = Idle] /\ f = Changes(rows)
  BY <1>3, <1>4 DEF Effect, Changes
<1>6. txn'[s] \in Txn /\ Own(s)' BY <1>5, IdleNext
<1>7. \A o \in Servers \ {s} : /\ txn'[o] \in Txn /\ Own(o)' /\ txn'[o].held = txn[o].held
                               /\ txn'[o].op = txn[o].op /\ txn'[o].games = txn[o].games
  BY <1>3, OthersStay
<1>8. txn' \in [Servers -> Txn] /\ \A o \in Servers : Own(o)'
  <2>1. DOMAIN Changes(rows) = Servers BY DEF Changes
  <2>2. txn' = [o \in Servers |-> txn'[o]] BY <1>5, <2>1
  <2>. QED BY <1>6, <1>7, <2>2
<1>9. Exclusive' BY <1>5, <1>7, IdleFields DEF TxnInv, Exclusive
<1>10. Claims' BY <1>5, <1>7, IdleFields DEF TxnInv, Claims, Creating
<1>11. DraftsExist'
  <2>1. ASSUME NEW g \in Games, game'[g].draft PROVE game'[g].life # "none"
    BY <1>3, <2>1 DEF Effect, TxnInv, DraftsExist, Drafts
  <2>. QED BY <2>1 DEF DraftsExist, Drafts
<1>. QED BY <1>1, <1>2, <1>8, <1>9, <1>10, <1>11 DEF TxnInv

LEMMA SettingStep ==
  ASSUME TxnInv, \/ \E r \in PolicyScopes, v \in {"inherit", "none", "buffer"} : SetPolicy(r, v)
                 \/ \E z \in Seasons : Archive(z) \/ Reopen(z)
  PROVE  TxnInv' /\ Next
<1>1. Next BY DEF SetPolicy, Archive, Reopen, Next
<1>2. SchedInv' BY <1>1, NextInv DEF TxnInv
<1>3. ASSUME NEW rows \in SUBSET AnyRow, AuditCounter \in rows, txn' = Changes(rows),
             game' = game, allocated' = allocated, NEW r, Free(r),
             \A k \in PolicyScopes : k # r => policy'[k] = policy[k],
             \A z \in Seasons : <<Season, z>> # r => (z \in archived' <=> z \in archived)
      PROVE  TxnInv'
  <2>1. \A o \in Servers : /\ txn'[o] \in Txn /\ Own(o)' /\ txn'[o].held = txn[o].held
                           /\ txn'[o].op = txn[o].op /\ txn'[o].games = txn[o].games
    BY <1>3, SettingsStay
  <2>2. txn' \in [Servers -> Txn]
    <3>1. txn' = [o \in Servers |-> txn'[o]] BY <1>3 DEF Changes
    <3>. QED BY <2>1, <3>1
  <2>3. Exclusive' /\ Claims' BY <2>1 DEF TxnInv, Exclusive, Claims
  <2>4. DraftsExist' BY <1>3 DEF TxnInv, DraftsExist, Drafts
  <2>. QED BY <1>2, <2>1, <2>2, <2>3, <2>4 DEF TxnInv
<1>4. ASSUME NEW r \in PolicyScopes, NEW v \in {"inherit", "none", "buffer"}, SetPolicy(r, v) PROVE TxnInv'
  <2>1. {AuditCounter} \in SUBSET AnyRow BY DEF AnyRow
  <2>2. /\ txn' = Changes({AuditCounter}) /\ game' = game /\ allocated' = allocated /\ Free(r)
        /\ \A k \in PolicyScopes : k # r => policy'[k] = policy[k]
        /\ archived' = archived
    BY <1>4 DEF SetPolicy, SetPolicyRow, TxnInv, SchedInv, TypeOK
  <2>. QED BY <1>3, <2>1, <2>2
<1>5. ASSUME NEW z \in Seasons, Archive(z) \/ Reopen(z) PROVE TxnInv'
  <2>1. Audited({<<Season, z>>}) \in SUBSET AnyRow
    <3>1. z \in Nat /\ Season \in 1..5 BY IdsAssumption DEF Season
    <3>. QED BY <3>1 DEF Audited, AnyRow, LockRow
  <2>2. /\ txn' = Changes(Audited({<<Season, z>>})) /\ game' = game /\ allocated' = allocated
        /\ Free(<<Season, z>>) /\ policy' = policy
        /\ \A y \in Seasons : y # z => (y \in archived' <=> y \in archived)
    BY <1>5 DEF Archive, Reopen, ArchiveRow, ReopenRow
  <2>3. AuditCounter \in Audited({<<Season, z>>}) BY DEF Audited
  <2>4. \A y \in Seasons : <<Season, y>> # <<Season, z>> => (y \in archived' <=> y \in archived)
    BY <2>2
  <2>. QED BY <1>3, <2>1, <2>2, <2>3, <2>4
<1>. QED BY <1>1, <1>4, <1>5

LEMMA StutterStep ==
  ASSUME TxnInv, UNCHANGED vars PROVE TxnInv'
<1>1. txn' = txn /\ UNCHANGED tables /\ txn \in [Servers -> Txn] BY DEF vars, TxnInv
<1>2. CASE Servers = {}
  <2>1. SchedInv' BY <1>1, NextInv DEF TxnInv
  <2>2. DraftsExist' BY <1>1 DEF TxnInv, DraftsExist, Drafts, tables
  <2>3. Exclusive' /\ Claims' /\ \A s \in Servers : Own(s)' BY <1>2 DEF Exclusive, Claims
  <2>. QED BY <1>1, <2>1, <2>2, <2>3 DEF TxnInv
<1>3. ASSUME NEW s \in Servers PROVE TxnInv'
  <2>1. PICK u \in Txn : u = txn[s] BY <1>1, <1>3
  <2>2. txn' = [txn EXCEPT ![s] = u] BY <1>1, <1>3, <2>1
  <2>3. Own(s) /\ The(s)' = The(s) /\ Locks(s)' = Locks(s) BY <1>1, <1>3 DEF TxnInv, The, Locks
  <2>4. Shaped(s)' /\ Planned(s)' /\ LockOrder(s)'
    BY <1>1, <2>3 DEF Own, Shaped, Planned, LockOrder
  <2>5. \A o \in Servers \ {s} : u.held \cap txn[o].held = {} BY <1>3, <2>1 DEF TxnInv, Exclusive
  <2>. QED BY <1>1, <1>3, <2>1, <2>2, <2>3, <2>4, <2>5, GoesOn DEF Own, Decided
<1>. QED BY <1>2, <1>3

LEMMA ScheduleStep ==
  ASSUME TxnInv, [ScheduleNext]_vars PROVE TxnInv' /\ [Next]_tables
<1>1. ASSUME NEW s \in Servers, Start(s) PROVE TxnInv' /\ UNCHANGED tables
  <2>1. txn[s] = Idle BY <1>1 DEF Start
  <2>2. ASSUME NEW g \in Games, NEW t \in Slots,
               BeginCreate(s, g, t) \/ BeginDraftCommit(s, g, t) \/ BeginSeed(s, g, t) \/ BeginMove(s, g, t)
        PROVE  TxnInv' /\ UNCHANGED tables
    <3>1. UNCHANGED tables BY <2>2, Zenon DEF BeginCreate, BeginDraftCommit, BeginSeed, BeginMove, Begin
    <3>. QED BY <2>1, <2>2, <3>1, PlacementBegins, MoveBegins
  <2>3. ASSUME NEW g \in Games, BeginCancel(s, g) \/ BeginDelete(s, g)
        PROVE  TxnInv' /\ UNCHANGED tables
    <3>1. UNCHANGED tables BY <2>3, Zenon DEF BeginCancel, BeginDelete, Begin
    <3>. QED BY <2>1, <2>3, <3>1, MoveBegins, PublishBegins
  <2>4. ASSUME NEW g \in Games, NEW op \in {"publish", "unpublish"}, BeginPublish(s, g, op)
        PROVE  TxnInv' /\ UNCHANGED tables
    <3>1. UNCHANGED tables BY <2>4, Zenon DEF BeginPublish, Begin
    <3>. QED BY <2>1, <2>4, <3>1, PublishBegins
  <2>5. ASSUME NEW z \in Seasons, NEW op \in {"publishDrafts", "discard"},
               NEW P \in SUBSET {g \in Drafts : SeasonOf[g] = z}, BeginBatch(s, z, P, op)
        PROVE  TxnInv' /\ UNCHANGED tables
    <3>1. UNCHANGED tables BY <2>5, Zenon DEF BeginBatch, Begin
    <3>. QED BY <2>1, <2>5, <3>1, BatchBegins DEF Batches
  <2>. QED BY <1>1, <2>2, <2>3, <2>4, <2>5 DEF Start
<1>2. ASSUME NEW s \in Servers, Continue(s) PROVE TxnInv' /\ UNCHANGED tables
  <2>1. TxnInv'
    BY <1>2, LockStep, LockPlacementStep, LockSeasonStep, RelocateStep, DecidedStep DEF Continue
  <2>2. UNCHANGED tables
    BY <1>2 DEF Continue, Lock, LockPlacement, LockSeason, RelocateMove, RelocateCancel, DecideSeed,
                DecideMove, DecideCancel, DecidePublish, Reread
  <2>. QED BY <2>1, <2>2
<1>3. ASSUME NEW s \in Servers, Finish(s) PROVE TxnInv' /\ (Next \/ UNCHANGED tables)
  <2>1. CASE Abort(s) BY <2>1, AbortStep DEF Abort
  <2>2. CASE CommitsOf(s) BY <2>2, CommitStep
  <2>. QED BY <1>3, <2>1, <2>2 DEF Finish, CommitsOf
<1>4. CASE \/ \E r \in PolicyScopes, v \in {"inherit", "none", "buffer"} : SetPolicy(r, v)
           \/ \E z \in Seasons : Archive(z) \/ Reopen(z)
  BY <1>4, SettingStep
<1>5. CASE UNCHANGED vars BY <1>5, StutterStep DEF vars
<1>. QED BY <1>1, <1>2, <1>3, <1>4, <1>5 DEF ScheduleNext

LEMMA ScheduleStart == ScheduleInit => TxnInv
<1> SUFFICES ASSUME ScheduleInit PROVE TxnInv OBVIOUS
<1>1. SchedInv BY InitInv DEF ScheduleInit
<1>2. DraftsExist BY CalendarsAssumption DEF ScheduleInit, Init, DraftsExist, Drafts
<1>3. \A s \in Servers : txn[s] = Idle BY DEF ScheduleInit
<1>4. \A s \in Servers : txn[s] \in Txn /\ Own(s) BY <1>3, IdleOwns
<1>5. txn \in [Servers -> Txn] BY <1>4 DEF ScheduleInit
<1>6. Exclusive /\ Claims BY <1>3, IdleFields DEF Exclusive, Claims, Creating
<1>. QED BY <1>1, <1>2, <1>4, <1>5, <1>6 DEF TxnInv

(* Whatever the processes interleave, and whichever transactions are       *)
(* rolled back, the tables go through the states that single calls, one    *)
(* after the other, would have led them through.                           *)
THEOREM ScheduleOneAtATime == ScheduleSpec => OneAtATime
<1>1. ScheduleInit => Init BY DEF ScheduleInit
<1>. QED BY <1>1, ScheduleStart, ScheduleStep, PTL DEF ScheduleSpec, OneAtATime, Spec
-----------------------------------------------------------------------------
(* Who waits for whom.                                                     *)

LEMMA SmallestSubset ==
  ASSUME NEW S, IsFiniteSet(S), NEW F \in SUBSET (SUBSET S), F # {}
  PROVE  \E A \in F : \A B \in F : B \subseteq A => B = A
<1>1. IsWellFoundedOn(StrictSubsetOrdering(S), SUBSET S)
  BY FS_StrictSubsetOrderingWellFounded, FS_FiniteSubsetsOfFinite
<1>2. PICK A \in F : \A B \in F : <<B, A>> \notin StrictSubsetOrdering(S)
  <2>1. F \subseteq SUBSET S OBVIOUS
  <2>. QED BY <1>1, <2>1, WFMin
<1>3. ASSUME NEW B \in F, B \subseteq A PROVE B = A
  BY <1>2, <1>3 DEF StrictSubsetOrdering
<1>. QED BY <1>2, <1>3

\* In a cycle that takes its rows in order, the row waited for last in the
\* order is held by one that waits for a later row still.
LEMMA OrderedCallsDontDeadlock == ASSUME TxnInv PROVE OnlyGuardedCallsDeadlock
<1> SUFFICES ASSUME NEW C \in SUBSET Servers, WaitCycle(C), \A s \in C : txn[s].op \notin {"create", "delete"}
             PROVE  FALSE
  BY DEF OnlyGuardedCallsDeadlock
<1>. DEFINE next == [s \in C |-> NextRow(txn[s].todo)]
            above(s) == {o \in C : Before(next[s], next[o])}
            F == {above(s) : s \in C}
<1>1. ASSUME NEW s \in C
      PROVE  /\ next[s] \in txn[s].todo /\ next[s] \in LockRow
             /\ \E o \in C : next[s] \in txn[o].held
  <2>1. txn[s] \in Txn BY DEF TxnInv
  <2>2. txn[s].todo # {} /\ \E o \in C : next[s] \in txn[o].held BY DEF WaitCycle, AwaitsRowOf
  <2>3. NextRow(txn[s].todo) \in txn[s].todo BY <2>1, <2>2, NextRowFirst DEF Txn
  <2>. QED BY <2>1, <2>2, <2>3 DEF Txn
<1>2. ASSUME NEW o \in C, NEW q \in txn[o].held PROVE Before(q, next[o])
  <2>1. LockOrder(o) BY DEF TxnInv, Own
  <2>. QED BY <1>1, <1>2, <2>1 DEF LockOrder
<1>. HIDE DEF next
<1>3. \A q, r, t \in LockRow : Before(q, r) /\ Before(r, t) => Before(q, t) /\ ~Before(r, r)
  BY DEF Before, LockRow
<1>4. IsFiniteSet(C) BY IdsAssumption, FS_Subset
<1>5. F \in SUBSET (SUBSET C) /\ F # {}
  <2>1. PICK s \in C : TRUE BY DEF WaitCycle
  <2>2. above(s) \in F BY <2>1
  <2>. QED BY <2>2
<1>6. PICK s \in C : \A B \in F : B \subseteq above(s) => B = above(s)
  <2>. HIDE DEF above
  <2>1. F \in SUBSET (SUBSET C) /\ F # {} BY <1>5
  <2>2. PICK A \in F : \A B \in F : B \subseteq A => B = A
    <3>. HIDE DEF F
    <3>. QED BY <1>4, <2>1, SmallestSubset
  <2>. QED BY <2>2
<1>7. PICK o \in C : next[s] \in txn[o].held BY <1>1
<1>8. Before(next[s], next[o]) /\ ~Before(next[o], next[o]) BY <1>1, <1>2, <1>3, <1>7
<1>9. above(o) \subseteq above(s) /\ o \in above(s) /\ o \notin above(o) BY <1>1, <1>3, <1>8
<1>10. above(o) \in F OBVIOUS
<1>. HIDE DEF F, above
<1>. QED BY <1>6, <1>9, <1>10

LEMMA TypedTransactions == ASSUME TxnInv PROVE ScheduleTypeOK
<1>1. TypeOK BY DEF TxnInv, SchedInv
<1>2. ASSUME NEW s \in Servers
      PROVE  /\ txn[s].op \in Identified \cup {"idle", "seed", "move", "cancel", "publish", "unpublish"}
             /\ txn[s].games \subseteq Games /\ txn[s].slot \in Slots \cup {NoSlot}
             /\ txn[s].found \in Row /\ txn[s].plan \subseteq Seasons
             /\ txn[s].todo \cap txn[s].held = {}
             /\ txn[s].op = "idle" <=> txn[s] = Idle
  <2>1. txn[s] \in Txn /\ Shaped(s) /\ LockOrder(s) BY DEF TxnInv, Own
  <2>2. txn[s].op = "idle" <=> txn[s] = Idle BY <2>1, IdleFields DEF Shaped
  <2>. QED BY <2>1, <2>2 DEF Txn, LockOrder
<1>. QED BY <1>1, <1>2 DEF ScheduleTypeOK

(* Ice is allocated exactly where a game stands, no two games clash and    *)
(* only the guarded create and delete can be part of a deadlock, for any   *)
(* games, ice, Seasons, teams and processes.                               *)
THEOREM ScheduleIsSound == ScheduleSpec => []ScheduleSound
<1>1. TxnInv => ScheduleSound
  BY OrderedCallsDontDeadlock, TypedTransactions DEF TxnInv, SchedInv, ScheduleSound
<1>. QED BY <1>1, ScheduleStart, ScheduleStep, PTL DEF ScheduleSpec

-----------------------------------------------------------------------------
(* GameDay: what happens to a game once it is scheduled.                   *)

(* A request that is being decided was accepted by the opponent, and stays *)
(* past that: nothing but the save of a decision touches it again.         *)
Accepted == {"pending_league", "denied", "republished"}
RequestsInv ==
  /\ request = [r \in Requests |-> request[r]] /\ deciding = [d \in Deciders |-> deciding[d]]
  /\ \A r \in Requests :
       \/ request[r].status = "none"
       \/ request[r].game \in Games /\ request[r].status \in Open \cup Closed
  /\ \A d \in Deciders :
       \/ deciding[d] = NoDecision
       \/ /\ deciding[d].step \in {"deny", "move", "publish", "save"}
          /\ deciding[d].request \in Requests /\ deciding[d].slot \in Slots
          /\ request[deciding[d].request].status \in Accepted
  /\ OneOpenRequest
OfficialsInv ==
  /\ assignment \in [Pairs -> {"none", "proposed", "accepted", "declined"}]
  /\ OfficialsApart
DayInv == SchedInv /\ RequestsInv /\ OfficialsInv /\ result \in [Games -> {"none", "draft", "final"}]

LEMMA DayStarts == GameDayInit => DayInv
<1> SUFFICES ASSUME GameDayInit PROVE DayInv OBVIOUS
<1>1. SchedInv BY InitInv DEF GameDayInit
<1>2. RequestsInv BY DEF GameDayInit, RequestsInv, OneOpenRequest, Open
<1>3. OfficialsInv BY DEF GameDayInit, OfficialsInv, OfficialsApart, Active, Pairs
<1>4. QED BY <1>1, <1>2, <1>3 DEF DayInv, GameDayInit

(* Every call is one of the calendar's or leaves the calendar alone.       *)
LEMMA DayTables ==
  ASSUME DayInv, GameDayNext
  PROVE  [Next]_tables
<1>1. CASE RequestsNext
  <2>1. ASSUME NEW d \in Deciders, ApprovedMove(d) PROVE Next
    <3>1. deciding[d] # NoDecision BY <2>1 DEF ApprovedMove, NoDecision
    <3>2. request[deciding[d].request].game \in Games /\ deciding[d].slot \in Slots
      BY <3>1 DEF DayInv, RequestsInv, Accepted
    <3>3. QED BY <2>1, <3>2 DEF ApprovedMove, Next
  <2>2. ASSUME NEW d \in Deciders, ApprovedPublish(d) PROVE [Next]_tables
    <3>1. deciding[d] # NoDecision BY <2>2 DEF ApprovedPublish, NoDecision
    <3>2. request[deciding[d].request].game \in Games BY <3>1 DEF DayInv, RequestsInv, Accepted
    <3>3. QED BY <2>2, <3>2 DEF ApprovedPublish, Next
  <2>3. QED BY <1>1, <2>1, <2>2 DEF RequestsNext, RequestReschedule, Respond, Decide, DecideStep,
                                   SkipMove, SaveDecision, DecisionFails, DecisionStops
<1>2. CASE OfficialsNext
  BY <1>2 DEF OfficialsNext, Assign, RespondAssignment, Unassign, DeleteOfficial, LookUp, SetAvailability,
              DeleteAvailability
<1>3. CASE ResultsNext BY <1>3 DEF ResultsNext, RecordResult, ApproveResult
<1>4. CASE OperatorCall
  <2>1. ASSUME NEW g \in Games, NEW s \in Slots, OperatorMove(g, s) PROVE Next
    BY <2>1 DEF OperatorMove, Operate, Next
  <2>2. ASSUME NEW g \in Games, Cancel(g) \/ Publish(g) \/ DeleteGame(g) PROVE Next
    BY <2>2 DEF Next, DeleteGame, Drafts
  <2>3. ASSUME NEW P \in SUBSET Drafts, PublishDrafts(P) \/ Remove(P) PROVE Next BY <2>3 DEF Next
  <2>4. ASSUME NEW z \in Seasons, ArchiveRow(z) \/ ReopenRow(z) PROVE Next BY <2>4 DEF Next
  <2>5. QED BY <1>4, <2>1, <2>2, <2>3, <2>4 DEF OperatorCall, Operate
<1>5. QED BY <1>1, <1>2, <1>3, <1>4 DEF GameDayNext

(* What a step does to requests: most leave them alone.                    *)
LEMMA RequestsKept ==
  ASSUME RequestsInv, UNCHANGED <<request, deciding>>
  PROVE  RequestsInv'
BY DEF RequestsInv, OneOpenRequest

LEMMA Asked ==
  ASSUME RequestsInv, NEW r \in Requests, NEW g \in Games, RequestReschedule(r, g)
  PROVE  RequestsInv'
<1>1. /\ request[r].status = "none" /\ ~OpenOn(g) /\ UNCHANGED deciding
      /\ request' = [request EXCEPT ![r] = [game |-> g, status |-> "pending_opponent"]]
  BY DEF RequestReschedule, Pend
<1>2. /\ request' = [q \in Requests |-> request'[q]]
      /\ request'[r].game = g /\ request'[r].status = "pending_opponent"
      /\ \A q \in Requests \ {r} : request'[q] = request[q]
  BY <1>1 DEF RequestsInv
<1>3. OneOpenRequest' BY <1>1, <1>2 DEF RequestsInv, OneOpenRequest, OpenOn
<1>4. QED BY <1>1, <1>2, <1>3 DEF RequestsInv, Accepted, Open

(* A request whose status alone changes.                                   *)
LEMMA Marked ==
  ASSUME RequestsInv, NEW r \in Requests, NEW status \in Open \cup Closed, Mark(r, status),
         request[r].status # "none", status \in Open => request[r].status \in Open,
         request[r].status \in Accepted => status \in Accepted
  PROVE  /\ request' = [q \in Requests |-> request'[q]]
         /\ \A q \in Requests :
              \/ request'[q].status = "none"
              \/ request'[q].game \in Games /\ request'[q].status \in Open \cup Closed
         /\ \A q \in Requests : request[q].status \in Accepted => request'[q].status \in Accepted
         /\ OneOpenRequest'
<1>1. /\ request' = [q \in Requests |-> request'[q]]
      /\ request'[r].game = request[r].game /\ request'[r].status = status
      /\ \A q \in Requests \ {r} : request'[q] = request[q]
  BY DEF Mark, RequestsInv
<1>2. OneOpenRequest' BY <1>1 DEF RequestsInv, OneOpenRequest
<1>3. QED BY <1>1, <1>2 DEF RequestsInv

LEMMA Responded ==
  ASSUME RequestsInv, NEW r \in Requests, NEW accept \in BOOLEAN, Respond(r, accept)
  PROVE  RequestsInv'
<1> DEFINE status == IF accept THEN "pending_league" ELSE "rejected"
<1>1. request[r].status = "pending_opponent" /\ Mark(r, status) /\ UNCHANGED deciding BY DEF Respond
<1>2. status \in Open \cup Closed BY DEF Open, Closed
<1> HIDE DEF status
<1>3. request[r].status \in Open /\ request[r].status \notin Accepted /\ request[r].status # "none"
  BY <1>1 DEF Open, Accepted
<1>4. QED BY <1>1, <1>2, <1>3, Marked DEF RequestsInv

LEMMA DecisionBegun ==
  ASSUME RequestsInv, NEW d \in Deciders, NEW r \in Requests, NEW step \in {"deny", "move"}, NEW s \in Slots,
         Decide(d, r, step, s)
  PROVE  RequestsInv'
<1>1. /\ Awaits(r) /\ UNCHANGED request
      /\ deciding' = [deciding EXCEPT ![d] = [step |-> step, request |-> r, slot |-> s]]
  BY DEF Decide
<1>2. /\ deciding' = [e \in Deciders |-> deciding'[e]]
      /\ deciding'[d].step = step /\ deciding'[d].request = r /\ deciding'[d].slot = s
      /\ \A e \in Deciders \ {d} : deciding'[e] = deciding[e]
  BY <1>1 DEF RequestsInv
<1>3. request[r].status \in Accepted BY <1>1 DEF Awaits, Accepted
<1>4. QED BY <1>1, <1>2, <1>3 DEF RequestsInv, OneOpenRequest

(* A decision goes on to its next statement, or is given up.               *)
LEMMA GoneOn ==
  ASSUME RequestsInv, NEW d \in Deciders, UNCHANGED request,
         \/ deciding' = [deciding EXCEPT ![d] = NoDecision]
         \/ deciding[d] # NoDecision /\ \E step \in {"publish", "save"} : Goto(d, step)
  PROVE  RequestsInv'
<1>1. /\ deciding' = [e \in Deciders |-> deciding'[e]]
      /\ \A e \in Deciders \ {d} : deciding'[e] = deciding[e]
      /\ \/ deciding'[d] = NoDecision
         \/ /\ deciding[d] # NoDecision /\ deciding'[d].step \in {"publish", "save"}
            /\ deciding'[d].request = deciding[d].request /\ deciding'[d].slot = deciding[d].slot
  BY DEF RequestsInv, Goto
<1>2. QED BY <1>1 DEF RequestsInv, OneOpenRequest

LEMMA Saved ==
  ASSUME RequestsInv, NEW d \in Deciders, SaveDecision(d)
  PROVE  /\ RequestsInv'
         /\ \A q \in Requests : request'[q] = request[q] \/ request[q].status \in Accepted
<1> DEFINE r == deciding[d].request
           status == IF deciding[d].step = "deny" THEN "denied" ELSE "republished"
<1>1. /\ deciding[d].step \in {"deny", "save"} /\ Mark(r, status)
      /\ deciding' = [deciding EXCEPT ![d] = NoDecision]
  BY DEF SaveDecision
<1>2. deciding[d] # NoDecision BY <1>1 DEF NoDecision
<1>3. r \in Requests /\ request[r].status \in Accepted BY <1>2 DEF RequestsInv
<1>4. status \in Open \cup Closed /\ status \notin Open /\ status \in Accepted
  BY DEF Open, Closed, Accepted
<1>5. request' = [request EXCEPT ![r] = [game |-> request[r].game, status |-> status]] BY <1>1 DEF Mark
<1> HIDE DEF r, status
<1> SUFFICES ASSUME NEW p, p = r, NEW mark, mark = status
             PROVE  /\ RequestsInv'
                    /\ \A q \in Requests : request'[q] = request[q] \/ request[q].status \in Accepted
  OBVIOUS
<1>6. /\ p \in Requests /\ mark \in Open \cup Closed /\ Mark(p, mark) /\ mark \notin Open /\ mark \in Accepted
      /\ request[p].status # "none"
  BY <1>1, <1>3, <1>4 DEF Accepted, r, status
<1>7. /\ request' = [q \in Requests |-> request'[q]] /\ OneOpenRequest'
      /\ \A q \in Requests :
           \/ request'[q].status = "none"
           \/ request'[q].game \in Games /\ request'[q].status \in Open \cup Closed
      /\ \A q \in Requests : request[q].status \in Accepted => request'[q].status \in Accepted
  BY <1>6, Marked
<1>8. /\ deciding' = [e \in Deciders |-> deciding'[e]] /\ deciding'[d] = NoDecision
      /\ \A e \in Deciders \ {d} : deciding'[e] = deciding[e]
  BY <1>1 DEF RequestsInv
<1>9. RequestsInv' BY <1>7, <1>8 DEF RequestsInv
<1>10. \A q \in Requests : request'[q] = request[q] \/ request[q].status \in Accepted
  BY <1>3, <1>5 DEF RequestsInv
<1>11. QED BY <1>9, <1>10

LEMMA RequestsStep ==
  ASSUME RequestsInv, GameDayNext
  PROVE  /\ RequestsInv'
         /\ \A r \in Requests : request'[r].status \in {"denied", "republished"} /\ request'[r] # request[r]
              => request[r].status \in Accepted
<1>1. CASE RequestsNext
  <2>1. ASSUME NEW r \in Requests, NEW g \in Games, RequestReschedule(r, g)
        PROVE  RequestsInv' /\ \A q \in Requests : q # r => request'[q] = request[q]
    BY <2>1, Asked DEF RequestReschedule, Pend, RequestsInv
  <2>2. ASSUME NEW r \in Requests, NEW g \in Games, RequestReschedule(r, g)
        PROVE  request'[r].status = "pending_opponent"
    BY <2>2 DEF RequestReschedule, Pend, RequestsInv
  <2>3. ASSUME NEW r \in Requests, NEW accept \in BOOLEAN, Respond(r, accept)
        PROVE  /\ RequestsInv' /\ request'[r].status \in {"pending_league", "rejected"}
               /\ \A q \in Requests : q # r => request'[q] = request[q]
    BY <2>3, Responded DEF Respond, Mark, RequestsInv
  <2>4. ASSUME NEW d \in Deciders, NEW r \in Requests,
               Decide(d, r, "deny", Agreed[r]) \/ \E s \in Slots : Decide(d, r, "move", s)
        PROVE  RequestsInv' /\ UNCHANGED request
    BY <2>4, DecisionBegun, GameDayAssumption DEF Decide
  <2>5. ASSUME NEW d \in Deciders, SkipMove(d) \/ ApprovedMove(d) \/ ApprovedPublish(d)
        PROVE  RequestsInv' /\ UNCHANGED request
    <3>1. UNCHANGED request /\ deciding[d] # NoDecision /\ \E step \in {"publish", "save"} : Goto(d, step)
      BY <2>5 DEF SkipMove, ApprovedMove, ApprovedPublish, Undisturbed, NoDecision
    <3>2. QED BY <3>1, GoneOn
  <2>6. ASSUME NEW d \in Deciders, DecisionFails(d) \/ DecisionStops(d)
        PROVE  RequestsInv' /\ UNCHANGED request
    BY <2>6, GoneOn DEF DecisionFails, DecisionStops, Undisturbed
  <2>7. ASSUME NEW d \in Deciders, SaveDecision(d)
        PROVE  RequestsInv' /\ \A q \in Requests : request'[q] = request[q] \/ request[q].status \in Accepted
    BY <2>7, Saved
  <2>8. QED
    BY <1>1, <2>1, <2>2, <2>3, <2>4, <2>5, <2>6, <2>7 DEF RequestsNext, DecideStep
<1>2. CASE UNCHANGED <<request, deciding>> BY <1>2, RequestsKept
<1>3. QED
  BY <1>1, <1>2
  DEF GameDayNext, OfficialsNext, Assign, RespondAssignment, Unassign, DeleteOfficial, LookUp, SetAvailability,
      DeleteAvailability, ResultsNext, RecordResult, ApproveResult, OperatorCall, OperatorMove, Operate, Aside

-----------------------------------------------------------------------------

(* No call brings a game to life, and one that puts a game elsewhere marks *)
(* its assignments.                                                        *)
GamesStay ==
  /\ shifted \subseteq shifted'
  /\ \A g \in Games : game'[g].life = "live" =>
       /\ game[g].life = "live"
       /\ game'[g].slot = game[g].slot
          \/ \A o \in Officials : assignment[<<o, g>>] \in Active => <<o, g>> \in shifted'
OfficialsSame == UNCHANGED <<assignment, listed>>

LEMMA MoveShifts ==
  ASSUME TypeOK, NEW g \in Games, NEW s, Move(g, s), Shift(g)
  PROVE  GamesStay
<1>1. /\ game[g].life = "live" /\ \A h \in Games \ {g} : game'[h] = game[h]
      /\ \A o \in Officials : assignment[<<o, g>>] \in Active => <<o, g>> \in shifted'
  BY DEF Move, MoveRow, TypeOK, Shift, Pairs
<1>2. QED BY <1>1 DEF GamesStay, Shift

LEMMA OthersStayPut ==
  ASSUME TypeOK, UNCHANGED shifted,
         \/ UNCHANGED tables
         \/ \E g \in Games : Cancel(g) \/ Publish(g)
         \/ \E P \in SUBSET Games : PublishDrafts(P) \/ Remove(P)
         \/ \E z \in Seasons : ArchiveRow(z) \/ ReopenRow(z)
  PROVE  GamesStay
<1> SUFFICES ASSUME NEW g \in Games, game'[g].life = "live"
             PROVE  game[g].life = "live" /\ game'[g].slot = game[g].slot
  BY DEF GamesStay
<1>1. ASSUME NEW h \in Games, Cancel(h) PROVE game[g].life = "live" /\ game'[g].slot = game[g].slot
  BY <1>1 DEF Cancel, CancelRow, CalledOff, TypeOK
<1>2. ASSUME NEW h \in Games, Publish(h) PROVE game[g].life = "live" /\ game'[g].slot = game[g].slot
  BY <1>2 DEF Publish, PublishRow, Shown, TypeOK
<1>3. ASSUME NEW P \in SUBSET Games, PublishDrafts(P)
      PROVE  game[g].life = "live" /\ game'[g].slot = game[g].slot
  BY <1>3 DEF PublishDrafts, PublishRows, Released
<1>4. ASSUME NEW P \in SUBSET Games, Remove(P)
      PROVE  game[g].life = "live" /\ game'[g].slot = game[g].slot
  BY <1>4 DEF Remove, RemoveRows, Absent
<1>5. QED BY <1>1, <1>2, <1>3, <1>4 DEF tables, ArchiveRow, ReopenRow

LEMMA OfficialsKept ==
  ASSUME OfficialsInv, GamesStay, OfficialsSame
  PROVE  OfficialsInv'
BY DEF OfficialsInv, OfficialsApart, GamesStay, OfficialsSame

(* Where the calendar or a decision acts, assignments are left alone.      *)
LEMMA DayGames ==
  ASSUME DayInv, RequestsNext \/ OperatorCall \/ ResultsNext
  PROVE  GamesStay /\ OfficialsSame
<1>0. TypeOK BY DEF DayInv, SchedInv
<1>1. CASE ResultsNext
  <2>1. UNCHANGED <<tables, shifted, assignment, listed>>
    BY <1>1 DEF ResultsNext, RecordResult, ApproveResult
  <2>2. QED BY <1>0, <2>1, OthersStayPut DEF OfficialsSame
<1>2. CASE RequestsNext
  <2>1. ASSUME NEW d \in Deciders, ApprovedMove(d) PROVE GamesStay /\ OfficialsSame
    <3>1. deciding[d] # NoDecision BY <2>1 DEF ApprovedMove, NoDecision
    <3>2. request[deciding[d].request].game \in Games BY <3>1 DEF DayInv, RequestsInv, Accepted
    <3>3. OfficialsSame BY <2>1 DEF ApprovedMove, Undisturbed, OfficialsSame
    <3>4. GamesStay BY <1>0, <2>1, <3>2, MoveShifts DEF ApprovedMove
    <3>5. QED BY <3>3, <3>4
  <2>2. ASSUME NEW d \in Deciders, ApprovedPublish(d) PROVE GamesStay /\ OfficialsSame
    <3>1. deciding[d] # NoDecision BY <2>2 DEF ApprovedPublish, NoDecision
    <3>2. request[deciding[d].request].game \in Games BY <3>1 DEF DayInv, RequestsInv, Accepted
    <3>3. OfficialsSame /\ UNCHANGED shifted BY <2>2 DEF ApprovedPublish, Undisturbed, OfficialsSame
    <3>4. UNCHANGED tables \/ \E g \in Games : Publish(g) BY <2>2, <3>2 DEF ApprovedPublish
    <3>5. QED BY <1>0, <3>3, <3>4, OthersStayPut
  <2>3. CASE UNCHANGED <<tables, shifted, assignment, listed>>
    BY <1>0, <2>3, OthersStayPut DEF OfficialsSame
  <2>4. QED
    BY <1>2, <2>1, <2>2, <2>3
    DEF RequestsNext, RequestReschedule, Respond, Decide, DecideStep, SkipMove, SaveDecision, DecisionFails,
        DecisionStops, Undisturbed, officialVars
<1>3. CASE OperatorCall
  <2>1. OfficialsSame BY <1>3 DEF OperatorCall, OperatorMove, Operate, Aside, OfficialsSame
  <2>2. ASSUME NEW g \in Games, NEW s \in Slots, OperatorMove(g, s) PROVE GamesStay
    BY <1>0, <2>2, MoveShifts DEF OperatorMove, Operate
  <2>3. ASSUME UNCHANGED shifted,
               \/ \E g \in Games : Cancel(g) \/ Publish(g) \/ DeleteGame(g)
               \/ \E P \in SUBSET Drafts : PublishDrafts(P) \/ Remove(P)
               \/ \E z \in Seasons : ArchiveRow(z) \/ ReopenRow(z)
        PROVE  GamesStay
    <3>1. \A g \in Games : DeleteGame(g) => \E P \in SUBSET Games : Remove(P) BY DEF DeleteGame
    <3>2. SUBSET Drafts \subseteq SUBSET Games BY DEF Drafts
    <3>3. QED BY <1>0, <2>3, <3>1, <3>2, OthersStayPut
  <2>4. QED BY <1>3, <2>1, <2>2, <2>3 DEF OperatorCall, Operate
<1>4. QED BY <1>1, <1>2, <1>3

LEMMA OfficialsStep ==
  ASSUME OfficialsInv, OfficialsNext
  PROVE  OfficialsInv' /\ UNCHANGED tables
<1> USE DEF OfficialsInv, OfficialsApart
<1>1. ASSUME NEW o \in Officials, NEW g \in Games, NEW b \in BOOLEAN, Assign(o, g, b)
      PROVE  OfficialsInv'
  <2>1. /\ o \in listed /\ ~Busy(o, g) /\ UNCHANGED <<game, listed>>
        /\ assignment' = [assignment EXCEPT ![<<o, g>>] = "proposed"]
        /\ shifted' = shifted \ {<<o, g>>}
    BY <1>1 DEF Assign, tables
  <2>2. /\ assignment'[<<o, g>>] = "proposed"
        /\ \A p \in Pairs \ {<<o, g>>} : assignment'[p] = assignment[p] /\ (p \in shifted => p \in shifted')
        /\ assignment' \in [Pairs -> {"none", "proposed", "accepted", "declined"}]
    BY <2>1 DEF Pairs
  <2>3. \A h \in Games \ {g} : ~(/\ assignment[<<o, h>>] \in Active /\ game[h].life = "live"
                                 /\ When[game[h].slot] = When[game[g].slot])
    BY <2>1 DEF Busy
  <2>4. \A p \in Pairs : assignment'[p] # "none" => p[1] \in listed'
    <3> SUFFICES ASSUME NEW p \in Pairs, assignment'[p] # "none" PROVE p[1] \in listed' OBVIOUS
    <3>1. CASE p = <<o, g>> BY <3>1, <2>1
    <3>2. CASE p # <<o, g>> BY <3>2, <2>1, <2>2
    <3>3. QED BY <3>1, <3>2
  <2>5. ASSUME NEW q \in Officials, NEW h \in Games, NEW k \in Games, h # k,
               game[h].life = "live", game[k].life = "live",
               assignment'[<<q, h>>] \in Active, assignment'[<<q, k>>] \in Active,
               When[game[h].slot] = When[game[k].slot]
        PROVE  <<q, h>> \in shifted' \/ <<q, k>> \in shifted'
    <3>1. CASE q = o /\ h = g
      <4>1. <<q, k>> # <<o, g>> /\ <<q, k>> \in Pairs BY <3>1, <2>5 DEF Pairs
      <4>2. assignment[<<o, k>>] \in Active BY <4>1, <3>1, <2>2, <2>5
      <4>3. QED BY <4>2, <2>3, <2>5, <3>1
    <3>2. CASE q = o /\ k = g
      <4>1. <<q, h>> # <<o, g>> /\ <<q, h>> \in Pairs BY <3>2, <2>5 DEF Pairs
      <4>2. assignment[<<o, h>>] \in Active BY <4>1, <3>2, <2>2, <2>5
      <4>3. QED BY <4>2, <2>3, <2>5, <3>2
    <3>3. CASE <<q, h>> # <<o, g>> /\ <<q, k>> # <<o, g>>
      <4>1. <<q, h>> \in Pairs \ {<<o, g>>} /\ <<q, k>> \in Pairs \ {<<o, g>>} BY <3>3 DEF Pairs
      <4>2. assignment[<<q, h>>] \in Active /\ assignment[<<q, k>>] \in Active BY <4>1, <2>2, <2>5
      <4>3. QED BY <4>1, <4>2, <2>2, <2>5
    <3>4. QED BY <3>1, <3>2, <3>3
  <2>6. QED BY <2>1, <2>2, <2>4, <2>5
<1>2. ASSUME NEW o \in Officials, NEW g \in Games, NEW b \in BOOLEAN, RespondAssignment(o, g, b)
      PROVE  OfficialsInv'
  <2>1. /\ assignment[<<o, g>>] = "proposed" /\ UNCHANGED <<game, listed, shifted>>
        /\ assignment' = [assignment EXCEPT ![<<o, g>>] = IF b THEN "accepted" ELSE "declined"]
    BY <1>2 DEF RespondAssignment, tables
  <2>2. /\ \A p \in Pairs : /\ assignment'[p] \in Active => assignment[p] \in Active
                            /\ assignment'[p] # "none" => assignment[p] # "none"
        /\ assignment' \in [Pairs -> {"none", "proposed", "accepted", "declined"}]
    BY <2>1 DEF Pairs, Active
  <2>3. \A q \in Officials, h \in Games : <<q, h>> \in Pairs BY DEF Pairs
  <2>4. QED BY <2>1, <2>2, <2>3
<1>3. ASSUME NEW o \in Officials, NEW g \in Games, Unassign(o, g)
      PROVE  OfficialsInv'
  <2>1. /\ UNCHANGED <<game, listed>> /\ shifted' = shifted \ {<<o, g>>}
        /\ assignment' = [assignment EXCEPT ![<<o, g>>] = "none"]
    BY <1>3 DEF Unassign, tables
  <2>2. /\ \A p \in Pairs : assignment'[p] # "none" => assignment'[p] = assignment[p] /\ p # <<o, g>>
        /\ \A p \in Pairs : assignment'[p] \in Active => assignment'[p] # "none"
        /\ assignment' \in [Pairs -> {"none", "proposed", "accepted", "declined"}]
    BY <2>1 DEF Pairs, Active
  <2>3. \A q \in Officials, h \in Games : <<q, h>> \in Pairs BY DEF Pairs
  <2>4. \A p \in Pairs : p \in shifted /\ p # <<o, g>> => p \in shifted' BY <2>1
  <2>5. QED BY <2>1, <2>2, <2>3, <2>4
<1>4. ASSUME NEW o \in Officials, DeleteOfficial(o) PROVE OfficialsInv'
  <2>1. /\ UNCHANGED <<game, assignment, shifted>> /\ listed' = listed \ {o}
        /\ \A g \in Games : assignment[<<o, g>>] = "none"
    BY <1>4 DEF DeleteOfficial, Bound, tables
  <2>2. \A p \in Pairs : p[1] = o => assignment[p] = "none" BY <2>1 DEF Pairs
  <2>3. QED BY <2>1, <2>2
<1>5. CASE UNCHANGED <<tables, assignment, shifted, listed>> BY <1>5 DEF tables
<1>6. OfficialsInv'
  BY <1>1, <1>2, <1>3, <1>4, <1>5 DEF OfficialsNext, LookUp, SetAvailability, DeleteAvailability
<1>7. QED
  BY <1>6 DEF OfficialsNext, Assign, RespondAssignment, Unassign, DeleteOfficial, LookUp, SetAvailability,
              DeleteAvailability

LEMMA DayStep ==
  ASSUME DayInv, [GameDayNext]_<<tables, dayVars>>
  PROVE  /\ DayInv' /\ [Next]_tables
         /\ \A r \in Requests : request'[r].status \in {"denied", "republished"} /\ request'[r] # request[r]
              => request[r].status \in Accepted
<1>1. CASE UNCHANGED <<tables, dayVars>>
  <2>1. UNCHANGED <<tables, game, request, deciding, assignment, shifted, listed, result>>
    BY <1>1 DEF tables, dayVars, officialVars
  <2>2. SchedInv' BY <2>1, NextInv DEF DayInv
  <2>3. RequestsInv' BY <2>1, RequestsKept DEF DayInv
  <2>4. OfficialsInv' BY <2>1 DEF DayInv, OfficialsInv, OfficialsApart
  <2>5. QED BY <2>1, <2>2, <2>3, <2>4 DEF DayInv
<1>2. CASE GameDayNext
  <2>1. [Next]_tables BY <1>2, DayTables
  <2>2. SchedInv' BY <2>1, NextInv DEF DayInv
  <2>3. OfficialsInv'
    BY <1>2, OfficialsStep, DayGames, OfficialsKept DEF DayInv, GameDayNext
  <2>4. result' \in [Games -> {"none", "draft", "final"}]
    <3>1. CASE ResultsNext BY <3>1 DEF DayInv, ResultsNext, RecordResult, ApproveResult
    <3>2. CASE UNCHANGED result BY <3>2 DEF DayInv
    <3>3. QED
      BY <1>2, <3>1, <3>2
      DEF GameDayNext, RequestsNext, RequestReschedule, Respond, Decide, DecideStep, SkipMove, ApprovedMove,
          ApprovedPublish, SaveDecision, DecisionFails, DecisionStops, Undisturbed, OfficialsNext, Assign,
          RespondAssignment, Unassign, DeleteOfficial, LookUp, SetAvailability, DeleteAvailability,
          OperatorCall, OperatorMove, Operate, Aside
  <2>5. QED BY <1>2, <2>1, <2>2, <2>3, <2>4, RequestsStep DEF DayInv
<1>3. QED BY <1>1, <1>2

LEMMA RunDayStep ==
  ASSUME DayInv, [GameDayRunNext]_gameDayVars
  PROVE  [GameDayNext]_<<tables, dayVars>>
BY DEF GameDayRunNext, gameDayVars, DayCall, GameDayNext, AskTable

(* Only a request that the opponent accepted is ever decided, whatever two *)
(* operators do with it at once (decide_reschedule is no transaction).     *)
THEOREM RunBothSigned == GameDayRunSpec => BothSigned
<1> DEFINE Signed == \A r \in Requests :
      request'[r].status \in {"denied", "republished"} /\ request'[r] # request[r]
        => request[r].status \in {"pending_league", "denied", "republished"}
<1>1. DayInv /\ [GameDayRunNext]_gameDayVars => DayInv' /\ [Signed]_request
  BY RunDayStep, DayStep DEF Accepted
<1>2. GameDayRunInit => DayInv BY DayStarts DEF GameDayRunInit
<1> HIDE DEF Signed
<1>3. GameDayRunSpec => [][Signed]_request BY <1>1, <1>2, PTL DEF GameDayRunSpec
<1>4. QED BY <1>3 DEF Signed, BothSigned

(* Officials and requests, whatever the calendar does meanwhile.           *)
THEOREM DayKeepsItsBooks == GameDaySpec => [](GameDayTypeOK /\ OneOpenRequest /\ OfficialsApart)
<1>1. DayInv => GameDayTypeOK /\ OneOpenRequest /\ OfficialsApart
  BY DEF DayInv, RequestsInv, OfficialsInv, GameDayTypeOK
<1>2. DayInv /\ [GameDayNext]_<<tables, dayVars>> => DayInv' BY DayStep
<1>3. QED BY <1>1, <1>2, DayStarts, PTL DEF GameDaySpec

(* An approval's move and publication are calls of the calendar like any   *)
(* other, so ice and games go on matching while requests are decided.      *)
THEOREM DayKeepsTheCalendar == GameDaySpec => Spec
<1>1. DayInv /\ [GameDayNext]_<<tables, dayVars>> => DayInv' /\ [Next]_tables BY DayStep
<1>2. GameDayInit => Init BY DEF GameDayInit
<1>3. QED BY <1>1, <1>2, DayStarts, PTL DEF GameDaySpec, Spec

-----------------------------------------------------------------------------
(* Sums.  The library's sum picks one summand after the other, whichever    *)
(* it likes; it is what it should be, and in whatever order.                *)

Sum(f, S) == Standings!SumFunctionOnSet(f, S)
Pick(S) == CHOOSE x \in S : TRUE
Recurs(h, f, D) == h = [s \in D |-> IF s = {} THEN 0 ELSE f[Pick(s)] + h[s \ {Pick(s)}]]

LEMMA SumExists ==
  ASSUME NEW f, NEW S, IsFiniteSet(S)
  PROVE  \E h : Recurs(h, f, SUBSET S)
<1> DEFINE D(k) == {s \in SUBSET S : Cardinality(s) <= k}
           Bad == {k \in Nat : ~ \E h : Recurs(h, f, D(k))}
<1>1. \A s \in SUBSET S : /\ IsFiniteSet(s) /\ Cardinality(s) \in Nat /\ Cardinality(s) <= Cardinality(S)
                          /\ Cardinality(s) = 0 <=> s = {}
                          /\ \A x \in s : Cardinality(s \ {x}) = Cardinality(s) - 1
  BY FS_Subset, FS_CardinalityType, FS_EmptySet, FS_RemoveElement
<1>2. Bad = {}
  <2> SUFFICES ASSUME Bad # {} PROVE FALSE OBVIOUS
  <2>1. PICK k \in Bad : \A m \in Bad : <<m, k>> \notin OpToRel(<, Nat)
    BY NatLessThanWellFounded, WFMin, Zenon
  <2>2. \A m \in Bad : ~(m < k) BY <2>1, Zenon DEF OpToRel
  <2>3. k # 0
    <3> SUFFICES ASSUME k = 0 PROVE FALSE OBVIOUS
    <3>1. \A s \in D(0) : s = {} BY <1>1
    <3>2. Recurs([s \in D(0) |-> 0], f, D(0)) BY <3>1 DEF Recurs
    <3> QED BY <3>2
  <2>9. k - 1 \in Nat /\ k - 1 < k BY <2>3
  <2>4. PICK h : Recurs(h, f, D(k - 1)) BY <2>2, <2>9
  <2> DEFINE E == D(k)
             g == [s \in E |-> IF s = {} THEN 0 ELSE f[Pick(s)] + h[s \ {Pick(s)}]]
  <2>5. ASSUME NEW s \in E, s # {} PROVE g[s \ {Pick(s)}] = h[s \ {Pick(s)}]
    <3>1. Pick(s) \in s BY <2>5 DEF Pick
    <3> DEFINE u == s \ {Pick(s)}
    <3>2. u \in SUBSET S /\ Cardinality(u) = Cardinality(s) - 1 BY <1>1, <3>1
    <3>3. Cardinality(s) \in Nat /\ Cardinality(s) <= k /\ k \in Nat /\ Cardinality(u) \in Nat BY <1>1, <3>2
    <3>4. u \in D(k - 1) /\ u \in E BY <3>2, <3>3
    <3>5. h[u] = IF u = {} THEN 0 ELSE f[Pick(u)] + h[u \ {Pick(u)}] BY <2>4, <3>4 DEF Recurs
    <3> QED BY <3>4, <3>5
  <2>6. Recurs(g, f, E)
    <3>1. g = [s \in E |-> IF s = {} THEN 0 ELSE f[Pick(s)] + g[s \ {Pick(s)}]] BY <2>5
    <3> QED BY <3>1 DEF Recurs
  <2> QED BY <2>6
<1>3. D(Cardinality(S)) = SUBSET S BY <1>1
<1>4. Cardinality(S) \in Nat BY <1>1
<1>5. \E h : Recurs(h, f, D(Cardinality(S))) BY <1>2, <1>4
<1> QED BY <1>3, <1>5

LEMMA SumIs == ASSUME NEW f, NEW S PROVE Sum(f, S) = (CHOOSE h : Recurs(h, f, SUBSET S))[S]
BY DEF Sum, Standings!SumFunctionOnSet, Standings!FoldFunctionOnSet, Standings!MapThenFoldSet, Recurs, Pick

(* What is summed on the way to S is what is summed of a part alone.       *)
LEMMA SumLocal ==
  ASSUME NEW f, NEW S, IsFiniteSet(S), NEW h, Recurs(h, f, SUBSET S), NEW T \in SUBSET S
  PROVE  Sum(f, T) = h[T]
<1> DEFINE k == CHOOSE i : Recurs(i, f, SUBSET T)
<1>1. IsFiniteSet(T) BY FS_Subset
<1>2. Recurs(k, f, SUBSET T) BY <1>1, SumExists
<1> HIDE DEF k
<1>3. \A U \in SUBSET T : k[U] = h[U]
  <2> DEFINE F == {U \in SUBSET T : k[U] # h[U]}
  <2> SUFFICES ASSUME F # {} PROVE FALSE OBVIOUS
  <2>0. F \in SUBSET (SUBSET T) OBVIOUS
  <2> HIDE DEF F
  <2>1. PICK U \in F : \A V \in F : V \subseteq U => V = U BY <1>1, <2>0, SmallestSubset
  <2>2. U # {} => Pick(U) \in U BY DEF Pick
  <2>3. U # {} => k[U \ {Pick(U)}] = h[U \ {Pick(U)}] BY <2>1, <2>2 DEF F
  <2>4. U \in SUBSET T /\ U \in SUBSET S /\ k[U] # h[U] BY DEF F
  <2>5. k[U] = IF U = {} THEN 0 ELSE f[Pick(U)] + k[U \ {Pick(U)}] BY <1>2, <2>4 DEF Recurs
  <2>6. h[U] = IF U = {} THEN 0 ELSE f[Pick(U)] + h[U \ {Pick(U)}] BY <2>4 DEF Recurs
  <2> QED BY <2>3, <2>4, <2>5, <2>6
<1>4. k[T] = h[T] BY <1>3
<1> QED BY <1>4, SumIs DEF k

LEMMA SumPicks ==
  ASSUME NEW f, NEW S, IsFiniteSet(S)
  PROVE  Sum(f, S) = IF S = {} THEN 0 ELSE f[Pick(S)] + Sum(f, S \ {Pick(S)})
<1>1. PICK h : Recurs(h, f, SUBSET S) BY SumExists
<1>2. Sum(f, S) = h[S] BY <1>1, SumLocal
<1>3. Sum(f, S \ {Pick(S)}) = h[S \ {Pick(S)}] BY <1>1, SumLocal
<1> QED BY <1>1, <1>2, <1>3 DEF Recurs

LEMMA SumType ==
  ASSUME NEW S, IsFiniteSet(S), NEW f, \A x \in S : f[x] \in Int
  PROVE  Sum(f, S) \in Int
<1> DEFINE F == {T \in SUBSET S : Sum(f, T) \notin Int}
<1> SUFFICES ASSUME F # {} PROVE FALSE OBVIOUS
<1>0. F \in SUBSET (SUBSET S) OBVIOUS
<1> HIDE DEF F
<1>1. PICK T \in F : \A U \in F : U \subseteq T => U = T BY <1>0, SmallestSubset
<1>2. T \in SUBSET S /\ IsFiniteSet(T) BY FS_Subset DEF F
<1>8. Sum(f, {}) = 0 BY FS_EmptySet, SumPicks
<1>3. T # {} BY <1>8 DEF F
<1>4. Pick(T) \in T BY <1>3 DEF Pick
<1>5. Sum(f, T \ {Pick(T)}) \in Int BY <1>1, <1>2, <1>4 DEF F
<1>6. f[Pick(T)] \in Int BY <1>2, <1>4
<1>7. Sum(f, T) \in Int BY <1>2, <1>3, <1>5, <1>6, SumPicks
<1> QED BY <1>7 DEF F

(* Any summand may be taken out.                                           *)
LEMMA SumTakesOut ==
  ASSUME NEW S, IsFiniteSet(S), NEW f, \A x \in S : f[x] \in Int, NEW x \in S
  PROVE  Sum(f, S) = f[x] + Sum(f, S \ {x})
<1> DEFINE F == {T \in SUBSET S : \E y \in T : Sum(f, T) # f[y] + Sum(f, T \ {y})}
<1> SUFFICES ASSUME F # {} PROVE FALSE OBVIOUS
<1>0. F \in SUBSET (SUBSET S) OBVIOUS
<1> HIDE DEF F
<1>1. PICK T \in F : \A U \in F : U \subseteq T => U = T BY <1>0, SmallestSubset
<1>2. PICK y \in T : Sum(f, T) # f[y] + Sum(f, T \ {y}) BY DEF F
<1>14. T \in SUBSET S BY DEF F
<1>3. \A U \in SUBSET S : IsFiniteSet(U) BY FS_Subset
<1> DEFINE c == Pick(T)
<1>4. c \in T BY <1>2 DEF Pick
<1>5. Sum(f, T) = f[c] + Sum(f, T \ {c}) BY <1>2, <1>3, <1>14, SumPicks
<1>6. c # y BY <1>2, <1>5
<1> HIDE DEF c
<1>7. T \ {c} \notin F /\ T \ {y} \notin F BY <1>1, <1>4
<1>8. Sum(f, T \ {c}) = f[y] + Sum(f, (T \ {c}) \ {y}) BY <1>2, <1>6, <1>7, <1>14 DEF F
<1>10. (T \ {y}) \ {c} = (T \ {c}) \ {y} OBVIOUS
<1>15. Sum(f, T \ {y}) = f[c] + Sum(f, (T \ {y}) \ {c}) BY <1>4, <1>6, <1>7, <1>14 DEF F
<1>9. Sum(f, T \ {y}) = f[c] + Sum(f, (T \ {c}) \ {y}) BY <1>10, <1>15
<1>11. Sum(f, (T \ {c}) \ {y}) \in Int BY <1>3, <1>14, SumType
<1>12. f[c] \in Int /\ f[y] \in Int BY <1>4, <1>14
<1>13. Sum(f, T) = f[y] + Sum(f, T \ {y}) BY <1>5, <1>8, <1>9, <1>11, <1>12
<1> QED BY <1>2, <1>13

LEMMA SumSame ==
  ASSUME NEW S, IsFiniteSet(S), NEW f, NEW g, \A x \in S : f[x] = g[x]
  PROVE  Sum(f, S) = Sum(g, S)
<1> DEFINE F == {T \in SUBSET S : Sum(f, T) # Sum(g, T)}
<1> SUFFICES ASSUME F # {} PROVE FALSE OBVIOUS
<1>0. F \in SUBSET (SUBSET S) OBVIOUS
<1> HIDE DEF F
<1>1. PICK T \in F : \A U \in F : U \subseteq T => U = T BY <1>0, SmallestSubset
<1>2. T \in SUBSET S /\ IsFiniteSet(T) BY FS_Subset DEF F
<1>3. T # {} BY <1>2, SumPicks DEF F
<1>4. Pick(T) \in T BY <1>3 DEF Pick
<1>5. Sum(f, T \ {Pick(T)}) = Sum(g, T \ {Pick(T)}) BY <1>1, <1>2, <1>4 DEF F
<1>6. f[Pick(T)] = g[Pick(T)] BY <1>2, <1>4
<1>7. Sum(f, T) = f[Pick(T)] + Sum(f, T \ {Pick(T)}) BY <1>2, <1>3, SumPicks
<1>8. Sum(g, T) = g[Pick(T)] + Sum(g, T \ {Pick(T)}) BY <1>2, <1>3, SumPicks
<1> QED BY <1>5, <1>6, <1>7, <1>8 DEF F

\* Two summands change.
LEMMA SumShifts ==
  ASSUME NEW S, IsFiniteSet(S), NEW f, NEW g, \A x \in S : f[x] \in Int /\ g[x] \in Int,
         NEW a \in S, NEW b \in S, a # b, \A x \in S \ {a, b} : f[x] = g[x]
  PROVE  Sum(g, S) = Sum(f, S) + (g[a] - f[a]) + (g[b] - f[b])
<1> DEFINE U == S \ {a}
           V == U \ {b}
<1>1. IsFiniteSet(U) /\ IsFiniteSet(V) BY FS_RemoveElement
<1>2. Sum(f, S) = f[a] + Sum(f, U) /\ Sum(g, S) = g[a] + Sum(g, U) BY SumTakesOut
<1>3. b \in U /\ \A x \in U : f[x] \in Int /\ g[x] \in Int OBVIOUS
<1>4. \A x \in V : f[x] \in Int /\ g[x] \in Int /\ f[x] = g[x] OBVIOUS
<1> HIDE DEF U
<1>5. Sum(f, U) = f[b] + Sum(f, V) /\ Sum(g, U) = g[b] + Sum(g, V) BY <1>1, <1>3, SumTakesOut
<1> HIDE DEF V
<1>6. Sum(f, V) = Sum(g, V) /\ Sum(f, V) \in Int BY <1>1, <1>4, SumSame, SumType
<1>7. f[a] \in Int /\ g[a] \in Int /\ f[b] \in Int /\ g[b] \in Int OBVIOUS
<1> QED BY <1>2, <1>5, <1>6, <1>7

-----------------------------------------------------------------------------
(* The tables of a league's season.                                        *)

Mine(t, G) == {g \in G : t \in {g.home, g.away}}
Won(t, G) == {g \in Mine(t, G) : Standings!For(t, g) > Standings!Against(t, g)}
Tied(t, G) == {g \in Mine(t, G) : Standings!For(t, g) = Standings!Against(t, g)}
Scored(t, G) == Sum([g \in Mine(t, G) |-> Standings!For(t, g)], Mine(t, G))
Conceded(t, G) == Sum([g \in Mine(t, G) |-> Standings!Against(t, g)], Mine(t, G))

Played == {g \in Standings!Game : g.home # g.away}

LEMMA RowIs ==
  ASSUME NEW t, NEW G
  PROVE  LET r == Standings!Row(t, G) IN
         /\ r.gp = Cardinality(Mine(t, G)) /\ r.w = Cardinality(Won(t, G))
         /\ r.l = Cardinality(Mine(t, G)) - Cardinality(Won(t, G)) - Cardinality(Tied(t, G))
         /\ r.pts = 2 * Cardinality(Won(t, G)) + Cardinality(Tied(t, G))
         /\ r.gf = Scored(t, G) /\ r.ga = Conceded(t, G)
<1>1. \A S : Standings!Cardinality(S) = Cardinality(S) BY DEF Standings!Cardinality, Cardinality
<1> QED BY <1>1 DEF Standings!Row, Mine, Won, Tied, Scored, Conceded, Sum

LEMMA GoalsTyped ==
  ASSUME NEW t, NEW g \in Played
  PROVE  Standings!For(t, g) \in Int /\ Standings!Against(t, g) \in Int
BY DEF Played, Standings!Game, Standings!For, Standings!Against

LEMMA RowTyped ==
  ASSUME NEW t, NEW G \in SUBSET Played, IsFiniteSet(G)
  PROVE  /\ Cardinality(Mine(t, G)) \in Int /\ Cardinality(Won(t, G)) \in Int
         /\ Cardinality(Tied(t, G)) \in Int /\ Scored(t, G) \in Int /\ Conceded(t, G) \in Int
         /\ IsFiniteSet(Mine(t, G)) /\ IsFiniteSet(Won(t, G)) /\ IsFiniteSet(Tied(t, G))
<1>1. Mine(t, G) \subseteq G /\ Won(t, G) \subseteq G /\ Tied(t, G) \subseteq G BY DEF Mine, Won, Tied
<1>2. IsFiniteSet(Mine(t, G)) /\ IsFiniteSet(Won(t, G)) /\ IsFiniteSet(Tied(t, G)) BY <1>1, FS_Subset
<1>3. \A g \in Mine(t, G) : Standings!For(t, g) \in Int /\ Standings!Against(t, g) \in Int
  BY <1>1, GoalsTyped
<1>4. Scored(t, G) \in Int /\ Conceded(t, G) \in Int BY <1>2, <1>3, SumType DEF Scored, Conceded
<1> QED BY <1>2, <1>4, FS_CardinalityType

\* A game more.
LEMMA OneGameMore ==
  ASSUME NEW t, NEW G \in SUBSET Played, IsFiniteSet(G), NEW g \in Played \ G,
         NEW H, H = G \cup {g}
  PROVE  IF t \in {g.home, g.away}
         THEN /\ Cardinality(Mine(t, H)) = Cardinality(Mine(t, G)) + 1
              /\ Cardinality(Won(t, H)) = Cardinality(Won(t, G))
                   + (IF Standings!For(t, g) > Standings!Against(t, g) THEN 1 ELSE 0)
              /\ Cardinality(Tied(t, H)) = Cardinality(Tied(t, G))
                   + (IF Standings!For(t, g) = Standings!Against(t, g) THEN 1 ELSE 0)
              /\ Scored(t, H) = Scored(t, G) + Standings!For(t, g)
              /\ Conceded(t, H) = Conceded(t, G) + Standings!Against(t, g)
         ELSE Mine(t, H) = Mine(t, G)
<1>1. CASE t \notin {g.home, g.away} BY <1>1 DEF Mine
<1>2. CASE t \in {g.home, g.away}
  <2>1. Mine(t, H) = Mine(t, G) \cup {g} /\ g \notin Mine(t, G) BY <1>2 DEF Mine
  <2>2. Won(t, H) = IF Standings!For(t, g) > Standings!Against(t, g) THEN Won(t, G) \cup {g} ELSE Won(t, G)
    BY <2>1 DEF Won
  <2>3. Tied(t, H) = IF Standings!For(t, g) = Standings!Against(t, g) THEN Tied(t, G) \cup {g} ELSE Tied(t, G)
    BY <2>1 DEF Tied
  <2>4. g \notin Won(t, G) /\ g \notin Tied(t, G) BY <2>1 DEF Won, Tied
  <2>5. /\ Cardinality(Mine(t, G)) \in Int /\ Cardinality(Won(t, G)) \in Int /\ Cardinality(Tied(t, G)) \in Int
        /\ Scored(t, G) \in Int /\ Conceded(t, G) \in Int
        /\ IsFiniteSet(Mine(t, G)) /\ IsFiniteSet(Won(t, G)) /\ IsFiniteSet(Tied(t, G))
    BY RowTyped
  <2>6. \A x \in Mine(t, H) : Standings!For(t, x) \in Int /\ Standings!Against(t, x) \in Int
    BY GoalsTyped DEF Mine
  <2>14. /\ IsFiniteSet(Mine(t, G) \cup {g})
         /\ Cardinality(Mine(t, G) \cup {g}) = Cardinality(Mine(t, G)) + 1
         /\ Cardinality(Won(t, G) \cup {g}) = Cardinality(Won(t, G)) + 1
         /\ Cardinality(Tied(t, G) \cup {g}) = Cardinality(Tied(t, G)) + 1
    BY <2>1, <2>4, <2>5, FS_AddElement
  <2>7. IsFiniteSet(Mine(t, H)) /\ g \in Mine(t, H) /\ Mine(t, H) \ {g} = Mine(t, G)
    BY <2>1, <2>14
  <2>8. Scored(t, H) = Standings!For(t, g) + Scored(t, G)
    <3> DEFINE f == [x \in Mine(t, H) |-> Standings!For(t, x)]
    <3>1. Sum(f, Mine(t, H)) = f[g] + Sum(f, Mine(t, H) \ {g})
      <4>1. \A x \in Mine(t, H) : f[x] \in Int BY <2>6
      <4> HIDE DEF f
      <4> QED BY <4>1, <2>7, SumTakesOut
    <3>2. Sum(f, Mine(t, G)) = Scored(t, G)
      <4> DEFINE h == [x \in Mine(t, G) |-> Standings!For(t, x)]
      <4>1. \A x \in Mine(t, G) : f[x] = h[x] BY <2>1
      <4> HIDE DEF f, h
      <4>2. Sum(f, Mine(t, G)) = Sum(h, Mine(t, G)) BY <4>1, <2>5, SumSame
      <4> QED BY <4>2 DEF h, Scored
    <3>3. f[g] = Standings!For(t, g) BY <2>7
    <3>4. Scored(t, H) = Sum(f, Mine(t, H)) BY DEF Scored
    <3> HIDE DEF f
    <3> QED BY <3>1, <3>2, <3>3, <3>4, <2>7
  <2>9. Conceded(t, H) = Standings!Against(t, g) + Conceded(t, G)
    <3> DEFINE f == [x \in Mine(t, H) |-> Standings!Against(t, x)]
    <3>1. Sum(f, Mine(t, H)) = f[g] + Sum(f, Mine(t, H) \ {g})
      <4>1. \A x \in Mine(t, H) : f[x] \in Int BY <2>6
      <4> HIDE DEF f
      <4> QED BY <4>1, <2>7, SumTakesOut
    <3>2. Sum(f, Mine(t, G)) = Conceded(t, G)
      <4> DEFINE h == [x \in Mine(t, G) |-> Standings!Against(t, x)]
      <4>1. \A x \in Mine(t, G) : f[x] = h[x] BY <2>1
      <4> HIDE DEF f, h
      <4>2. Sum(f, Mine(t, G)) = Sum(h, Mine(t, G)) BY <4>1, <2>5, SumSame
      <4> QED BY <4>2 DEF h, Conceded
    <3>3. f[g] = Standings!Against(t, g) BY <2>7
    <3>4. Conceded(t, H) = Sum(f, Mine(t, H)) BY DEF Conceded
    <3> HIDE DEF f
    <3> QED BY <3>1, <3>2, <3>3, <3>4, <2>7
  <2>10. Standings!For(t, g) \in Int /\ Standings!Against(t, g) \in Int BY GoalsTyped
  <2>11. Cardinality(Mine(t, H)) = Cardinality(Mine(t, G)) + 1 BY <2>1, <2>14
  <2>12. Cardinality(Won(t, H)) = Cardinality(Won(t, G))
           + (IF Standings!For(t, g) > Standings!Against(t, g) THEN 1 ELSE 0)
    BY <2>2, <2>5, <2>14
  <2>13. Cardinality(Tied(t, H)) = Cardinality(Tied(t, G))
           + (IF Standings!For(t, g) = Standings!Against(t, g) THEN 1 ELSE 0)
    BY <2>3, <2>5, <2>14
  <2> QED BY <1>2, <2>5, <2>8, <2>9, <2>10, <2>11, <2>12, <2>13
<1> QED BY <1>1, <1>2

\* What the games of one league-season add up to, over its teams.
Column(T, G, c) == Sum([t \in T |-> Standings!Row(t, G)[c]], T)
Level(T, G) ==
  /\ Column(T, G, "gf") = Column(T, G, "ga") /\ Column(T, G, "w") = Column(T, G, "l")
  /\ Column(T, G, "pts") = Column(T, G, "gp")

LEMMA RowFields ==
  ASSUME NEW t, NEW G \in SUBSET Played, IsFiniteSet(G), NEW c \in {"gf", "ga", "w", "l", "pts", "gp"}
  PROVE  Standings!Row(t, G)[c] \in Int
<1> DEFINE r == Standings!Row(t, G)
<1>1. r.gf \in Int /\ r.ga \in Int /\ r.w \in Int /\ r.l \in Int /\ r.pts \in Int /\ r.gp \in Int
  BY RowIs, RowTyped
<1> HIDE DEF r
<1>2. r[c] \in Int BY <1>1
<1> QED BY <1>2 DEF r

\* A game more changes the two rows of its teams.
LEMMA ColumnShifts ==
  ASSUME NEW T, IsFiniteSet(T), NEW G \in SUBSET Played, IsFiniteSet(G), NEW g \in Played \ G,
         g.home \in T, g.away \in T, NEW c \in {"gf", "ga", "w", "l", "pts", "gp"}
  PROVE  LET H == G \cup {g}
             more(t) == Standings!Row(t, H)[c] - Standings!Row(t, G)[c]
         IN Column(T, H, c) = Column(T, G, c) + more(g.home) + more(g.away)
<1> DEFINE H == G \cup {g}
           e == [t \in T |-> Standings!Row(t, G)[c]]
           f == [t \in T |-> Standings!Row(t, H)[c]]
<1>1. H \in SUBSET Played /\ IsFiniteSet(H) BY FS_AddElement
<1>2. \A t \in T : e[t] \in Int /\ f[t] \in Int BY <1>1, RowFields
<1>3. ASSUME NEW t \in T \ {g.home, g.away} PROVE e[t] = f[t]
  <2>1. Mine(t, H) = Mine(t, G) BY OneGameMore
  <2>2. Won(t, H) = Won(t, G) /\ Tied(t, H) = Tied(t, G) BY <2>1 DEF Won, Tied
  <2>3. Scored(t, H) = Scored(t, G) /\ Conceded(t, H) = Conceded(t, G) BY <2>1 DEF Scored, Conceded
  <2> DEFINE r == Standings!Row(t, G)
             s == Standings!Row(t, H)
  <2>4. r.gf = s.gf /\ r.ga = s.ga /\ r.w = s.w /\ r.l = s.l /\ r.pts = s.pts /\ r.gp = s.gp
    BY <2>1, <2>2, <2>3, RowIs
  <2> HIDE DEF r, s
  <2>5. r[c] = s[c] BY <2>4
  <2> QED BY <2>5 DEF r, s
<1>4. g.home # g.away BY DEF Played
<1>5. /\ e[g.home] = Standings!Row(g.home, G)[c] /\ f[g.home] = Standings!Row(g.home, H)[c]
      /\ e[g.away] = Standings!Row(g.away, G)[c] /\ f[g.away] = Standings!Row(g.away, H)[c]
  OBVIOUS
<1>6. Column(T, G, c) = Sum(e, T) /\ Column(T, H, c) = Sum(f, T) BY DEF Column
<1> HIDE DEF e, f, H
<1>7. Sum(f, T) = Sum(e, T) + (f[g.home] - e[g.home]) + (f[g.away] - e[g.away])
  BY <1>2, <1>3, <1>4, SumShifts
<1>8. Sum(e, T) \in Int BY <1>2, SumType
<1>9. f[g.home] \in Int /\ e[g.home] \in Int /\ f[g.away] \in Int /\ e[g.away] \in Int BY <1>2
<1> QED BY <1>5, <1>6, <1>7, <1>8, <1>9 DEF H

LEMMA LevelTables ==
  ASSUME NEW T, IsFiniteSet(T), NEW C \in SUBSET Played, IsFiniteSet(C),
         \A g \in C : g.home \in T /\ g.away \in T
  PROVE  Level(T, C)
<1> DEFINE F == {G \in SUBSET C : ~Level(T, G)}
<1> SUFFICES ASSUME F # {} PROVE FALSE OBVIOUS
<1>0. F \in SUBSET (SUBSET C) OBVIOUS
<1> HIDE DEF F
<1>1. PICK H \in F : \A U \in F : U \subseteq H => U = H BY <1>0, SmallestSubset
<1>2. H \in SUBSET C /\ ~Level(T, H) BY DEF F
<1>3. H # {}
  <2> SUFFICES Level(T, {}) BY <1>2
  <2>1. ASSUME NEW t PROVE LET r == Standings!Row(t, {}) IN r.gf = r.ga /\ r.w = r.l /\ r.pts = r.gp
    <3>1. Mine(t, {}) = {} /\ Won(t, {}) = {} /\ Tied(t, {}) = {} BY DEF Mine, Won, Tied
    <3>2. Scored(t, {}) = 0 /\ Conceded(t, {}) = 0 BY <3>1, SumPicks, FS_EmptySet DEF Scored, Conceded
    <3> DEFINE r == Standings!Row(t, {})
    <3>3. Cardinality({}) = 0 BY FS_EmptySet
    <3>4. /\ r.gp = Cardinality(Mine(t, {})) /\ r.w = Cardinality(Won(t, {}))
          /\ r.l = Cardinality(Mine(t, {})) - Cardinality(Won(t, {})) - Cardinality(Tied(t, {}))
          /\ r.pts = 2 * Cardinality(Won(t, {})) + Cardinality(Tied(t, {}))
          /\ r.gf = Scored(t, {}) /\ r.ga = Conceded(t, {})
      BY RowIs
    <3> HIDE DEF r
    <3>5. r.gf = r.ga /\ r.w = r.l /\ r.pts = r.gp BY <3>1, <3>2, <3>3, <3>4
    <3> QED BY <3>5 DEF r
  <2> DEFINE e(c) == [t \in T |-> Standings!Row(t, {})[c]]
  <2>2. e("gf") = e("ga") /\ e("w") = e("l") /\ e("pts") = e("gp") BY <2>1
  <2>3. \A c : Column(T, {}, c) = Sum(e(c), T) BY DEF Column
  <2> HIDE DEF e
  <2> QED BY <2>2, <2>3 DEF Level
<1>4. PICK g \in H : TRUE BY <1>3
<1> DEFINE G == H \ {g}
<1>5. G \cup {g} = H /\ g \notin G OBVIOUS
<1>6. /\ G \in SUBSET Played /\ IsFiniteSet(G) /\ IsFiniteSet(H) /\ H \in SUBSET Played
      /\ g \in Played \ G /\ g.home \in T /\ g.away \in T
  BY <1>2, FS_Subset
<1>7. Level(T, G) BY <1>1, <1>2, <1>4 DEF F
<1> HIDE DEF G
<1> DEFINE more(t, c) == Standings!Row(t, H)[c] - Standings!Row(t, G)[c]
<1>8. \A c \in {"gf", "ga", "w", "l", "pts", "gp"} :
        Column(T, H, c) = Column(T, G, c) + more(g.home, c) + more(g.away, c)
  BY <1>5, <1>6, ColumnShifts
<1>9. \A t, c : c \in {"gf", "ga", "w", "l", "pts", "gp"} => more(t, c) \in Int
  BY <1>6, RowFields
<1>10. \A c \in {"gf", "ga", "w", "l", "pts", "gp"} : Column(T, G, c) \in Int
  <2> SUFFICES ASSUME NEW c \in {"gf", "ga", "w", "l", "pts", "gp"} PROVE Column(T, G, c) \in Int OBVIOUS
  <2> DEFINE e == [t \in T |-> Standings!Row(t, G)[c]]
  <2>1. \A t \in T : e[t] \in Int BY <1>6, RowFields
  <2>2. Column(T, G, c) = Sum(e, T) BY DEF Column
  <2> HIDE DEF e
  <2> QED BY <2>1, <2>2, SumType
<1>11. ASSUME NEW t \in {g.home, g.away}
       PROVE  LET w == IF Standings!For(t, g) > Standings!Against(t, g) THEN 1 ELSE 0
                  d == IF Standings!For(t, g) = Standings!Against(t, g) THEN 1 ELSE 0
              IN /\ more(t, "gf") = Standings!For(t, g) /\ more(t, "ga") = Standings!Against(t, g)
                 /\ more(t, "gp") = 1 /\ more(t, "w") = w /\ more(t, "l") = 1 - w - d
                 /\ more(t, "pts") = 2 * w + d
  <2> DEFINE w == IF Standings!For(t, g) > Standings!Against(t, g) THEN 1 ELSE 0
             d == IF Standings!For(t, g) = Standings!Against(t, g) THEN 1 ELSE 0
  <2>1. /\ Cardinality(Mine(t, H)) = Cardinality(Mine(t, G)) + 1
        /\ Cardinality(Won(t, H)) = Cardinality(Won(t, G)) + w
        /\ Cardinality(Tied(t, H)) = Cardinality(Tied(t, G)) + d
        /\ Scored(t, H) = Scored(t, G) + Standings!For(t, g)
        /\ Conceded(t, H) = Conceded(t, G) + Standings!Against(t, g)
    BY <1>5, <1>6, OneGameMore
  <2>2. /\ Cardinality(Mine(t, G)) \in Int /\ Cardinality(Won(t, G)) \in Int /\ Cardinality(Tied(t, G)) \in Int
        /\ Scored(t, G) \in Int /\ Conceded(t, G) \in Int
    BY <1>6, RowTyped
  <2>3. Standings!For(t, g) \in Int /\ Standings!Against(t, g) \in Int BY <1>6, GoalsTyped
  <2>4. w \in Int /\ d \in Int OBVIOUS
  <2> HIDE DEF w, d
  <2> DEFINE r == Standings!Row(t, G)
             s == Standings!Row(t, H)
  <2>5. /\ r.gp = Cardinality(Mine(t, G)) /\ r.w = Cardinality(Won(t, G))
        /\ r.l = Cardinality(Mine(t, G)) - Cardinality(Won(t, G)) - Cardinality(Tied(t, G))
        /\ r.pts = 2 * Cardinality(Won(t, G)) + Cardinality(Tied(t, G))
        /\ r.gf = Scored(t, G) /\ r.ga = Conceded(t, G)
    BY RowIs
  <2>6. /\ s.gp = Cardinality(Mine(t, H)) /\ s.w = Cardinality(Won(t, H))
        /\ s.l = Cardinality(Mine(t, H)) - Cardinality(Won(t, H)) - Cardinality(Tied(t, H))
        /\ s.pts = 2 * Cardinality(Won(t, H)) + Cardinality(Tied(t, H))
        /\ s.gf = Scored(t, H) /\ s.ga = Conceded(t, H)
    BY RowIs
  <2> HIDE DEF r, s
  <2>7. /\ s.gf - r.gf = Standings!For(t, g) /\ s.ga - r.ga = Standings!Against(t, g)
        /\ s.gp - r.gp = 1 /\ s.w - r.w = w /\ s.l - r.l = 1 - w - d
        /\ s.pts - r.pts = 2 * w + d
    BY <2>1, <2>2, <2>3, <2>4, <2>5, <2>6
  <2> QED BY <2>7 DEF r, s, w, d
<1>12. /\ Standings!For(g.home, g) = Standings!Against(g.away, g)
       /\ Standings!For(g.away, g) = Standings!Against(g.home, g)
       /\ Standings!For(g.home, g) \in Int /\ Standings!For(g.away, g) \in Int
  BY <1>6, GoalsTyped DEF Played, Standings!For, Standings!Against
<1>13. /\ more(g.home, "gf") + more(g.away, "gf") = more(g.home, "ga") + more(g.away, "ga")
       /\ more(g.home, "w") + more(g.away, "w") = more(g.home, "l") + more(g.away, "l")
       /\ more(g.home, "pts") + more(g.away, "pts") = more(g.home, "gp") + more(g.away, "gp")
  BY <1>11, <1>12
<1> HIDE DEF more
<1>14. Level(T, H) BY <1>7, <1>8, <1>9, <1>10, <1>13 DEF Level
<1> QED BY <1>2, <1>14

\* What a read looks at decides what it answers.
LEMMA SameRead ==
  ASSUME NEW q, NEW r, NEW d, NEW public,
         Standings!Considered(q, d, public) = Standings!Considered(r, d, public),
         Standings!Roster(q, d) = Standings!Roster(r, d)
  PROVE  Standings!Table(q, d, public) = Standings!Table(r, d, public)
<1>1. Standings!Refused(q, d, public) = Standings!Refused(r, d, public) BY DEF Standings!Refused
<1>2. Standings!Counted(q, d, public) = Standings!Counted(r, d, public) BY DEF Standings!Counted
<1> QED BY <1>1, <1>2 DEF Standings!Table

LEMMA PublicReadsWhatIsShown ==
  ASSUME NEW q, Standings!WellKept(q)
  PROVE  Standings!PublicBlind(q)
<1> DEFINE shown == [q EXCEPT !.games = {g \in q.games : g.published}]
<1>1. /\ shown.rows = q.rows /\ shown.archived = q.archived /\ shown.ended = q.ended
      /\ shown.games = {g \in q.games : g.published}
  BY DEF Standings!WellKept
<1> HIDE DEF shown
<1>2. ASSUME NEW d \in Standings!Reads, NEW public, public = TRUE
      PROVE  Standings!Table(q, d, public) = Standings!Table(shown, d, public)
  <2>1. Standings!Considered(q, d, public) = Standings!Considered(shown, d, public)
    BY <1>1, <1>2 DEF Standings!Considered
  <2>2. Standings!Roster(q, d) = Standings!Roster(shown, d)
    BY <1>1 DEF Standings!Roster, Standings!LeagueRoster, Standings!DivisionRoster, Standings!InLeague,
               Standings!Historical
  <2> QED BY <2>1, <2>2, SameRead
<1> QED BY <1>2 DEF Standings!PublicBlind, shown

LEMMA HistoryStays ==
  ASSUME NEW q, Standings!WellKept(q)
  PROVE  Standings!PastStays(q)
<1> DEFINE unmoved == [q EXCEPT !.rows = {[r EXCEPT !.league = "this"] : r \in q.rows}]
<1>1. /\ unmoved.rows = {[r EXCEPT !.league = "this"] : r \in q.rows} /\ unmoved.games = q.games
      /\ unmoved.archived = q.archived /\ unmoved.ended = q.ended
  BY DEF Standings!WellKept
<1> HIDE DEF unmoved
<1>2. \A r \in q.rows :
        LET s == [r EXCEPT !.league = "this"] IN
        /\ s.team = r.team /\ s.division = r.division /\ s.active = r.active /\ s.here = r.here
        /\ s.league = "this" /\ r.league \in {"this", "other"}
  BY DEF Standings!WellKept, Standings!Registration
<1>3. ASSUME NEW r \in q.rows
      PROVE  \E s \in unmoved.rows : /\ s.team = r.team /\ s.division = r.division
                                    /\ s.active = r.active /\ s.here = r.here
  <2>1. [r EXCEPT !.league = "this"] \in unmoved.rows BY <1>1
  <2> QED BY <1>2, <2>1
<1>4. ASSUME NEW s \in unmoved.rows
      PROVE  /\ s.league = "this"
             /\ \E r \in q.rows : /\ s.team = r.team /\ s.division = r.division
                                   /\ s.active = r.active /\ s.here = r.here
  <2>1. PICK r \in q.rows : s = [r EXCEPT !.league = "this"] BY <1>1
  <2> QED BY <1>2, <2>1
<1>5. ASSUME q.archived \/ q.ended, NEW d \in Standings!Reads, NEW public \in BOOLEAN
      PROVE  Standings!Table(q, d, public) = Standings!Table(unmoved, d, public)
  <2>1. Standings!Historical(q) /\ Standings!Historical(unmoved) BY <1>1, <1>5 DEF Standings!Historical
  <2>2. Standings!LeagueRoster(q) = Standings!LeagueRoster(unmoved)
    <3>1. \A t : t \in Standings!LeagueRoster(q) <=> \E r \in q.rows : r.team = t /\ r.active /\ r.here
      BY <2>1 DEF Standings!LeagueRoster
    <3>2. \A t : t \in Standings!LeagueRoster(unmoved) <=> \E r \in unmoved.rows : r.team = t /\ r.active /\ r.here
      BY <2>1 DEF Standings!LeagueRoster
    <3>3. \A t : t \in Standings!LeagueRoster(q) <=> t \in Standings!LeagueRoster(unmoved)
      BY <1>3, <1>4, <3>1, <3>2
    <3> QED BY <3>3 DEF Standings!LeagueRoster
  <2>3. Standings!DivisionRoster(q, d) = Standings!DivisionRoster(unmoved, d)
    <3>1. \A t : t \in Standings!DivisionRoster(q, d)
                   <=> \E r \in q.rows : r.team = t /\ r.active /\ r.division = d
      BY <1>2, <2>1 DEF Standings!DivisionRoster, Standings!InLeague
    <3>2. \A t : t \in Standings!DivisionRoster(unmoved, d)
                   <=> \E r \in unmoved.rows : r.team = t /\ r.active /\ r.division = d
      BY <1>4, <2>1 DEF Standings!DivisionRoster, Standings!InLeague
    <3>3. \A t : t \in Standings!DivisionRoster(q, d) <=> t \in Standings!DivisionRoster(unmoved, d)
      BY <1>3, <1>4, <3>1, <3>2
    <3> QED BY <3>3 DEF Standings!DivisionRoster
  <2>4. Standings!Considered(q, d, public) = Standings!Considered(unmoved, d, public)
    BY <1>1 DEF Standings!Considered
  <2> QED BY <2>2, <2>3, <2>4, SameRead DEF Standings!Roster
<1> QED BY <1>5 DEF Standings!PastStays, unmoved

LEMMA TablesAgree ==
  ASSUME NEW q, Standings!WellKept(q), NoDivision \notin MCDivisions, NEW public \in BOOLEAN
  PROVE  Standings!OneHistory(q, public)
<1> SUFFICES ASSUME NEW d \in MCDivisions
             PROVE  /\ \A g \in q.games :
                         g.division = d /\ "here" \in {g.leagueSeason, g.pair} =>
                           (Standings!Refused([q EXCEPT !.games = {g}], d, public)
                              <=> Standings!Refused([q EXCEPT !.games = {g}], Standings!All, public))
                    /\ ~Standings!Refused(q, d, public) =>
                         Standings!Counted(q, d, public) \subseteq Standings!Counted(q, Standings!All, public)
  BY DEF Standings!OneHistory
<1>1. d # Standings!All BY DEF Standings!All
<1>2. ASSUME NEW g \in q.games, g.division = d, "here" \in {g.leagueSeason, g.pair}
      PROVE  Standings!Refused([q EXCEPT !.games = {g}], d, public)
               <=> Standings!Refused([q EXCEPT !.games = {g}], Standings!All, public)
  <2> DEFINE alone == [q EXCEPT !.games = {g}]
  <2>1. alone.games = {g} BY DEF Standings!WellKept
  <2> HIDE DEF alone
  <2>2. Standings!Considered(alone, d, public) = Standings!Considered(alone, Standings!All, public)
    BY <1>1, <1>2, <2>1 DEF Standings!Considered, Standings!Concerns, Standings!ByRow, Standings!ByPair
  <2>3. Standings!Considered(alone, d, public) \subseteq {g} BY <2>1 DEF Standings!Considered
  <2>4. Standings!Refuses(g, d) <=> Standings!Refuses(g, Standings!All)
    BY <1>1, <1>2 DEF Standings!Refuses, Standings!ByRow, Standings!ByPair
  <2>5. Standings!Refused(alone, d, public) <=> Standings!Refused(alone, Standings!All, public)
    BY <2>2, <2>3, <2>4 DEF Standings!Refused
  <2> QED BY <2>5 DEF alone
<1>3. ASSUME ~Standings!Refused(q, d, public), NEW g \in Standings!Counted(q, d, public)
      PROVE  g \in Standings!Counted(q, Standings!All, public)
  <2>1. /\ g \in Standings!Considered(q, d, public) /\ g.final
        /\ {g.home, g.away} \subseteq Standings!DivisionRoster(q, d)
    BY <1>1, <1>3 DEF Standings!Counted, Standings!Roster
  <2>2. Standings!ByRow(g) /\ Standings!ByPair(g)
    BY <1>1, <1>3, <2>1 DEF Standings!Refused, Standings!Refuses
  <2>3. g \in q.games /\ g.division = d
    BY <1>1, <2>1 DEF Standings!Considered, Standings!Concerns
  <2>4. g \in Standings!Considered(q, Standings!All, public)
    BY <2>1, <2>2 DEF Standings!Considered, Standings!Concerns
  <2>5. ASSUME NEW t \in {g.home, g.away} PROVE t \in Standings!LeagueRoster(q)
    <3>1. PICK row \in q.rows : row.team = t /\ row.active /\ row.division = d /\ Standings!InLeague(q, row)
      BY <2>1 DEF Standings!DivisionRoster
    <3>2. row.here
      BY <2>2, <2>3, <3>1 DEF Standings!WellKept, Standings!ByRow, Standings!ByPair
    <3> QED BY <3>1, <3>2 DEF Standings!LeagueRoster, Standings!InLeague
  <2> QED BY <2>1, <2>4, <2>5 DEF Standings!Counted, Standings!Roster
<1> QED BY <1>2, <1>3

LEMMA TablesBalance ==
  ASSUME NEW q, Standings!WellKept(q), NEW d, NEW public
  PROVE  Standings!Balanced(q, d, public)
<1> DEFINE T == Standings!Roster(q, d)
           C == Standings!Counted(q, d, public)
<1>0. \A S : Standings!IsFiniteSet(S) <=> IsFiniteSet(S) BY DEF Standings!IsFiniteSet, IsFiniteSet
<1>1. IsFiniteSet(q.rows) /\ IsFiniteSet(q.games) /\ q.games \subseteq Played
  BY <1>0 DEF Standings!WellKept, Played
<1>2. IsFiniteSet(T)
  <2> DEFINE team == [r \in q.rows |-> r.team]
             all == {r.team : r \in q.rows}
  <2>1. team \in Surjection(q.rows, all) BY DEF Surjection
  <2>2. IsFiniteSet(all) BY <1>1, <2>1, FS_Surjection
  <2>3. T \subseteq all BY DEF Standings!Roster, Standings!LeagueRoster, Standings!DivisionRoster
  <2> HIDE DEF all, T
  <2> QED BY <2>2, <2>3, FS_Subset
<1>3. C \subseteq q.games /\ \A g \in C : g.home \in T /\ g.away \in T
  BY DEF Standings!Counted, Standings!Considered
<1>4. IsFiniteSet(C) /\ C \in SUBSET Played BY <1>1, <1>3, FS_Subset
<1>5. Level(T, C)
  <2> HIDE DEF T, C
  <2> QED BY <1>2, <1>3, <1>4, LevelTables
<1> QED BY <1>5 DEF Standings!Balanced, Level, Column, Sum

\* Whatever is asked of what is registered and played.
THEOREM TablesAreSound ==
  ASSUME NEW q \in Questions
  PROVE  Standings!TablesSound(q)
BY QuestionsAssumption, PublicReadsWhatIsShown, HistoryStays, TablesAgree, TablesBalance DEF Standings!TablesSound

\* A game has one open request; an official holds two games at one time only
\* if one was moved since, and no assignment outlives its official; and
\* whatever is asked of the standings, they tell one history.
THEOREM RunDaySound == GameDayRunSpec => []DaySound
<1> DEFINE Inv == DayInv /\ asked \in Questions \cup {NoQuestion}
<1>1. Inv => DaySound
  BY TablesAreSound DEF DaySound, DayInv, RequestsInv, OfficialsInv
<1>2. GameDayRunInit => Inv BY DayStarts DEF GameDayRunInit
<1>3. Inv /\ [GameDayRunNext]_gameDayVars => Inv'
  <2> SUFFICES ASSUME Inv, [GameDayRunNext]_gameDayVars PROVE Inv' OBVIOUS
  <2>1. DayInv' BY RunDayStep, DayStep
  <2>2. asked' \in Questions \cup {NoQuestion} BY DEF GameDayRunNext, gameDayVars, AskTable
  <2> QED BY <2>1, <2>2
<1> QED BY <1>1, <1>2, <1>3, PTL DEF GameDayRunSpec
================================================================================
