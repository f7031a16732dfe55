---------------------------------- MODULE RinkIce ----------------------------------
(***************************************************************************)
(* The ice of the rinks: slots made one by one, from a recurring template  *)
(* that an operator previews and then commits, or from a spreadsheet that  *)
(* also moves rinks between venues; games that take a slot and leave it     *)
(* (services/setup_service.py, ice_availability.py, import_validator.py).   *)
(* Each call holds its rinks' row locks for one transaction, so it is one   *)
(* action; between a preview and its commit anything may happen.            *)
(*                                                                         *)
(* One season, not archived, and one clock, whose offset may change.  Slots  *)
(* whose time has passed, names and policies are left out:   *)
(* see GameSchedule for who may place a game.                               *)
(***************************************************************************)
EXTENDS Naturals, FiniteSets, Functions

CONSTANTS
  Rinks, Venues, Operators,
  Clock,       \* instant -> what the program's wall clock shows then
  Templates,   \* [rinks, days, playable, turnover], a day being [opens, closes] on the wall
  SlotSheets,  \* [venues : rink -> venue, rows : slot -> type]
  HomeVenue,   \* rink -> the venue it was created in
  MaxShown     \* bound: previews an operator has on record

VARIABLES
  ice,      \* [rink, from, to] -> [type, status]
  playing,  \* slots a game that is not cancelled plays on
  venueOf,  \* rink -> venue
  open,     \* venues the season has access to
  shown,    \* operator -> the previews on record for them
  warned    \* pairs of slots an import warned of and made (history)

iceVars == <<ice, playing, venueOf, open, shown, warned>>

Instants == DOMAIN Clock
Slot == {s \in [rink : Rinks, from : Instants, to : Instants] : s.from < s.to}
Overlap(a, b) == a.rink = b.rink /\ a.from < b.to /\ b.from < a.to

\* A slot that is not for games is blocked from the start.
Built(type) == [type |-> type, status |-> IF type = "game" THEN "available" ELSE "blocked"]

IceInit ==
  /\ ice = <<>> /\ playing = {} /\ warned = {}
  /\ venueOf = HomeVenue
  /\ open = Venues
  /\ shown = [o \in Operators |-> {}]

-----------------------------------------------------------------------------
(* Planning a template *)

\* What a template must say, or it is refused.
WellFormed(t) ==
  /\ t.rinks # {} /\ t.days # {} /\ t.playable > 0
  /\ \A d \in t.days : d.opens < d.closes

\* The first instant the wall shows w, or none when the clock skips it.
Resolved(w) == {i \in Instants : Clock[i] = w /\ \A j \in Instants : Clock[j] = w => i <= j}

\* The games of a day, counted in real time between the two resolved ends.
DayWindows(t, d) ==
  UNION {{[from |-> i, to |-> i + t.playable] :
            i \in {i \in first..last : /\ (i - first) % (t.playable + t.turnover) = 0
                                       /\ i + t.playable <= last}} :
         first \in Resolved(d.opens), last \in Resolved(d.closes)}

Accessible(t) == {r \in t.rinks : venueOf[r] \in open}
Planned(t) == {[rink |-> r, from |-> w.from, to |-> w.to] :
                 r \in Accessible(t), w \in UNION {DayWindows(t, d) : d \in t.days}}

Duplicate(s) == s \in DOMAIN ice /\ ice[s] = Built("game") /\ s \notin playing
Clashing(s) == {x \in DOMAIN ice : Overlap(x, s)}
\* An exact slot is the clash before any other that overlaps.
Clash(s) == IF s \in DOMAIN ice THEN s ELSE CHOOSE x \in Clashing(s) : TRUE

\* What the preview shows of a window.
Classified(s) ==
  IF Duplicate(s) THEN [status |-> "duplicate"]
  ELSE IF Clashing(s) = {} THEN [status |-> "new"]
  ELSE [status |-> "conflict", with |-> Clash(s), ice |-> ice[Clash(s)],
        game |-> Clash(s) \in playing]

\* What its fingerprint covers: the template and what stands in its way.
Review_Template(t) == [template |-> t, rinks |-> Accessible(t), windows |-> <<>>]
Review(t) == [template |-> t, rinks |-> Accessible(t),
              windows |-> [s \in Planned(t) |-> Classified(s)]]

PreviewIceAvailability(o, t) ==
  /\ WellFormed(t)
  /\ Cardinality(shown[o]) < MaxShown
  /\ shown' = [shown EXCEPT ![o] = @ \cup {[review |-> Review(t),
                 new |-> {s \in Planned(t) : Classified(s).status = "new"}]}]
  /\ UNCHANGED <<ice, playing, venueOf, open, warned>>

Reviewed(o, t) == \E preview \in shown[o] : preview.review = Review(t)
Opened(t) == {s \in Planned(t) : Clashing(s) = {}}

CommitIceAvailability(o, t) ==
  /\ Reviewed(o, t)
  /\ ice' = [s \in DOMAIN ice \cup Opened(t) |->
               IF s \in DOMAIN ice THEN ice[s] ELSE Built("game")]
  /\ UNCHANGED <<playing, venueOf, open, shown, warned>>

-----------------------------------------------------------------------------
(* Slots and games one by one *)

CreateIceSlot(s, type) ==
  /\ Clashing(s) = {}
  /\ ice' = [x \in DOMAIN ice \cup {s} |-> IF x = s THEN Built(type) ELSE ice[x]]
  /\ UNCHANGED <<playing, venueOf, open, shown, warned>>

DeleteIceSlot(s) ==
  /\ s \in DOMAIN ice /\ s \notin playing /\ ice[s].status = "available"
  /\ ice' = Restrict(ice, DOMAIN ice \ {s})
  /\ UNCHANGED <<playing, venueOf, open, shown, warned>>

\* A game needs free game ice, and nobody else on the rink at that time.
Playable(s) == ice[s] = Built("game") /\ s \notin playing /\ Clashing(s) \cap playing = {}

TakeIce(s) ==
  /\ s \in DOMAIN ice /\ Playable(s)
  /\ ice' = [ice EXCEPT ![s].status = "allocated"]
  /\ playing' = playing \cup {s}
  /\ UNCHANGED <<venueOf, open, shown, warned>>

LeaveIce(s) ==
  /\ s \in playing
  /\ ice' = [ice EXCEPT ![s].status = "available"]
  /\ playing' = playing \ {s}
  /\ UNCHANGED <<venueOf, open, shown, warned>>

GrantVenueAccess(v) ==
  v \notin open /\ open' = open \cup {v} /\ UNCHANGED <<ice, playing, venueOf, shown, warned>>
RevokeVenueAccess(v) ==
  v \in open /\ open' = open \ {v} /\ UNCHANGED <<ice, playing, venueOf, shown, warned>>

-----------------------------------------------------------------------------
(* Rinks and slots by spreadsheet *)

\* Against what is stored: a slot a game plays on keeps its type, and a new slot
\* overlaps nothing.  Between rows of the sheet an overlap is only warned of.
Importable_Retyping(rows) == \A s \in DOMAIN rows : s \in DOMAIN ice \/ Clashing(s) = {}
Importable(rows) == \A s \in DOMAIN rows :
  IF s \in DOMAIN ice THEN ice[s].type = rows[s] \/ s \notin playing ELSE Clashing(s) = {}

\* A stored slot's row sets its type, and its status unless a game plays on it.
Imported(s, type) == IF s \in playing THEN [ice[s] EXCEPT !.type = type] ELSE Built(type)

ImportRinksIceSlots(sheet) ==
  /\ Importable(sheet.rows)
  /\ ice' = [s \in DOMAIN ice \cup DOMAIN sheet.rows |->
               IF s \in DOMAIN sheet.rows THEN Imported(s, sheet.rows[s]) ELSE ice[s]]
  /\ venueOf' = [r \in Rinks |-> IF r \in DOMAIN sheet.venues THEN sheet.venues[r] ELSE venueOf[r]]
  /\ warned' = warned \cup {{a, b} : a, b \in DOMAIN sheet.rows}
  /\ UNCHANGED <<playing, open, shown>>

IceNext ==
  \/ \E o \in Operators, t \in Templates : PreviewIceAvailability(o, t) \/ CommitIceAvailability(o, t)
  \/ \E s \in Slot, type \in {"game", "other"} : CreateIceSlot(s, type)
  \/ \E s \in DOMAIN ice : DeleteIceSlot(s) \/ TakeIce(s) \/ LeaveIce(s)
  \/ \E v \in Venues : GrantVenueAccess(v) \/ RevokeVenueAccess(v)
  \/ \E sheet \in SlotSheets : ImportRinksIceSlots(sheet)

-----------------------------------------------------------------------------
(* Properties *)

\* Two games never share a rink's ice for a moment, although slots may overlap.
GamesApart == \A a, b \in playing : a # b => ~Overlap(a, b)

\* Slots of a rink overlap only where one sheet held both.
OverlapsWarned == \A a, b \in DOMAIN ice : a # b /\ Overlap(a, b) => {a, b} \in warned

\* A slot is allocated exactly while a game plays on it, and then it is game ice.
StatusTells == \A s \in DOMAIN ice :
  /\ ice[s].status = "allocated" <=> s \in playing
  /\ ice[s].status = "blocked" <=> ice[s].type # "game"

IceSound == playing \subseteq DOMAIN ice /\ GamesApart /\ OverlapsWarned /\ StatusTells

\* A commit makes the slots that a preview of the same template showed to the
\* same operator as new, no others, and each lasts a game in real time whatever
\* the clock does that day.
BuiltAsShown(o, t) == CommitIceAvailability(o, t) =>
  LET made == DOMAIN ice' \ DOMAIN ice IN
  /\ \E preview \in shown[o] : preview.review.template = t /\ preview.new = made
  /\ \A s \in made : s.to = s.from + t.playable
================================================================================
