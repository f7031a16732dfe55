------------------------------ MODULE SubtreeDeletion ------------------------------
(***************************************************************************)
(* Removing a record with everything it owns.  An administrator previews   *)
(* the removal and gets a token; executing the token must do what the      *)
(* preview showed and nothing else, whatever other operators did between   *)
(* the two.  The records form a graph: a link is a reference from one      *)
(* record to another, and its rule says what happens to the first when the *)
(* second is deleted.                                                      *)
(*                                                                         *)
(* A preview runs in one serializable transaction, and an execution holds  *)
(* every table from its lock to its commit (a contended lock refuses the   *)
(* call and consumes nothing), so both are one action; the execution's     *)
(* look at its challenge comes before the lock, and is an action too.  The *)
(* administrators' selected program is Selected throughout, and a program  *)
(* has one season and one league.                                          *)
(***************************************************************************)
EXTENDS FiniteSets, Integers

CONSTANTS
  Records,      \* every record that may come to exist
  EntityOf,       \* its entity type
  Links,        \* [from, to, rule]: the references they may hold
  ProgramAbove,    \* the program a record's chain leads to, or Nil
  Selected,     \* the administrators' program
  Admins,
  Tokens,       \* previews, numbered in order
  Nil

\* What becomes of a kind of record when a target of its reference is deleted: it
\* goes too, its reference is cleared, or the reference is kept as history.
Goes(kind, targets) == {<<kind, t, "delete">> : t \in targets}
Clears(kind, targets) == {<<kind, t, "detach">> : t \in targets}
Keeps(kind, targets) == {<<kind, t, "retain">> : t \in targets}

SetupReferences == UNION {
  Goes("membershipEvent", {"membership"}), Goes("membership", {"player", "leagueSeason", "season", "team"}),
  Goes("scenario", {"program", "season", "league", "leagueSeason", "division"}),
  Clears("program", {"organization"}), Goes("season", {"program"}), Goes("league", {"program"}),
  Goes("leagueSeason", {"league", "season"}), Goes("division", {"leagueSeason"}), Goes("ageRule", {"leagueSeason"}),
  Goes("registration", {"leagueSeason", "team"}), Clears("registration", {"division"}),
  Goes("copyCommit", {"season"}), Goes("migration", {"team", "league"}), Goes("access", {"season", "venue"}),
  Goes("team", {"program", "league"}), Clears("team", {"club"}), Keeps("team", {"division"}),
  Goes("player", {"team"}), Goes("venue", {"organization"}), Clears("venue", {"program"}),
  Goes("rink", {"venue"}), Goes("slot", {"rink"}), Goes("policy", {"program", "season", "rink"})}
GameReferences == UNION {
  Goes("game", {"team", "season", "division", "league", "leagueSeason"}), Clears("game", {"slot"}),
  Goes("entry", {"game", "player", "team"}), Goes("availability", {"game", "player"}),
  Goes("enrollment", {"game", "player", "team"}), Keeps("enrollment", {"membership", "team"}),
  Goes("audit", {"game", "player"}), Keeps("audit", {"team"}), Goes("event", {"game", "player"}), Keeps("event", {"team"})}
PeopleReferences == UNION {
  Keeps("setupAudit", {"ageRule", "club", "division", "game", "result", "slot", "league", "leagueSeason", "official",
                       "assignment", "officialTime", "organization", "player", "program", "rink", "policy", "season",
                       "membership", "registration", "access", "team", "account", "venue"}),
  Keeps("accessLog", {"team", "player", "official"}), Clears("official", {"club"}),
  Goes("assignment", {"game", "official"}), Goes("result", {"game"}),
  Goes("notification", {"team", "official", "player", "game", "assignment"}),
  Goes("recipient", {"notification", "account", "team", "official", "player"}),
  Goes("delivery", {"notification", "team", "official", "player"}), Goes("contact", {"team", "official", "player"}),
  Clears("account", {"team", "player", "official"}), Goes("session", {"account"}),
  Goes("context", {"account"}), Clears("context", {"program", "season", "league"}),
  Goes("guardian", {"account", "player"}), Goes("request", {"game", "team"}), Clears("request", {"slot"}),
  Goes("feedToken", {"team", "division", "official", "player"}), Goes("officialTime", {"official"})}

ASSUME LinksAreInventoried ==
  /\ IsFiniteSet(Records)
  /\ \A l \in Links : l = [from |-> l.from, to |-> l.to, rule |-> l.rule] /\ {l.from, l.to} \subseteq Records
  /\ \A l \in Links :
       <<EntityOf[l.from], EntityOf[l.to], l.rule>> \in SetupReferences \cup GameReferences \cup PeopleReferences

\* What is told to a person about a game goes with either of them.
Messages == {"notification", "recipient", "delivery"}

\* Ice, officials and accounts are no program's; any other record is of its
\* owners' program, where a grant ties a program to a venue, an assignment one
\* to an official, and a guardian's link one to an account.
ASSUME OwnersAgree ==
  /\ \A r \in Records :
       EntityOf[r] \in {"organization", "venue", "rink", "slot", "official", "account", "context"} => ProgramAbove[r] = Nil
  /\ \A l \in Links : l.rule = "delete" /\ EntityOf[l.from] \notin Messages =>
       \/ ProgramAbove[l.from] = ProgramAbove[l.to]
       \/ <<EntityOf[l.from], EntityOf[l.to]>> \in
            {<<"access", "venue">>, <<"assignment", "official">>, <<"guardian", "account">>}

VARIABLES
  present,       \* the records that exist
  links,      \* the references they hold
  edits,      \* record -> its other columns' version
  flags,      \* records that are: a published game, an archived season, an active account, allocated ice
  challenge,  \* admin -> the outstanding preview: [token, root, print], or Nil
  call,       \* admin -> the challenge an execution has inspected, or Nil
  shown,      \* token -> what the preview showed (history)
  done        \* [token, changes] of the executions (history)

graph == <<present, links, edits, flags>>
subtreeVars == <<graph, challenge, call, shown, done>>

Of(kind) == {r \in present : EntityOf[r] = kind}
Ruled(rule) == {l \in links : l.rule = rule}

\* Everything owned, at any remove, by the records given; and all their owners.
Reached(start, arrows) ==
  LET Within[n \in 0..Cardinality(present)] ==
        IF n = 0 THEN start
        ELSE LET nearer == Within[n - 1] IN nearer \cup {a[2] : a \in {b \in arrows : b[1] \in nearer}}
  IN Within[Cardinality(present)]
DeletionClosure(roots) == Reached(roots, {<<l.to, l.from>> : l \in Ruled("delete")})
Governing(records) == Reached(records, {<<l.from, l.to>> : l \in Ruled("delete")})

Detached(gone) == {l \in Ruled("detach") : l.to \in gone /\ l.from \notin gone}

\* Ice that only deleted games held.
Released(gone) ==
  {s \in (Of("slot") \ gone) \cap flags :
     /\ \E l \in links : l.from \in gone /\ EntityOf[l.from] = "game" /\ l.to = s
     /\ \A l \in links : EntityOf[l.from] = "game" /\ l.to = s => l.from \in gone}

\* Accounts bound to a deleted person or team lose their sign-in.
Deactivated(gone) == {l.from : l \in Detached(gone)} \cap Of("account") \cap flags

Effects(root) ==
  LET gone == DeletionClosure({root}) IN
  [deleted |-> gone, detached |-> Detached(gone), released |-> Released(gone), deactivated |-> Deactivated(gone)]

\* The part of the graph a preview answers for: the subtree, both ends of every
\* link it touches, and the games on ice it may release.
Relevant(gone) ==
  LET touched == {l \in links : {l.from, l.to} \cap gone # {}}
      ice == {l.to : l \in {k \in touched : k.from \in gone /\ EntityOf[k.to] = "slot"}}
      edges == touched \cup {l \in links : EntityOf[l.from] = "game" /\ l.to \in ice}
  IN [edges |-> edges, records |-> gone \cup {l.from : l \in edges} \cup {l.to : l \in edges}]

\* What the fingerprint covers: it differs as soon as one of these does.
Fingerprint_Names(root) == DeletionClosure({root})
Fingerprint(root) ==
  LET around == Relevant(DeletionClosure({root})) IN
  [edges |-> around.edges, state |-> [r \in around.records |-> <<edits[r], r \in flags>>], changes |-> Effects(root)]

(* ---- what an execution refuses ---- *)
Foreign(r) == ProgramAbove[r] \notin {Selected, Nil}
GamesIn(side) == {l.from : l \in {k \in links : k.to \in side /\ EntityOf[k.from] = "game"}}

\* What ties a shared venue or official to a program: grants and a venue's
\* legacy link, assignments and the teams of an official's home club.
Ties(r) ==
  {l.from : l \in {k \in links : k.to = r /\ EntityOf[k.from] \in {"access", "assignment"}}}
  \cup {l.to : l \in {k \in links : k.from = r /\ EntityOf[k.to] = "program"}}
  \cup {l.from : l \in {k \in links : EntityOf[k.from] = "team" /\ EntityOf[k.to] = "club"
                                     /\ \E j \in links : j.from = r /\ j.to = k.to}}

\* Records kept but changed, and what they share, belong to the selected program.
InProgram_RootOnly(gone) == TRUE
InProgram(gone) ==
  /\ \A l \in Detached(gone) : EntityOf[l.from] \notin {"account", "context"} => ~Foreign(l.from)
  /\ \A v \in Of("venue") :
       v \in gone \/ (\E l \in links : l.to = v /\ l.from \in gone /\ EntityOf[l.from] = "rink")
         => \A r \in Ties(v) : ~Foreign(r)
  /\ \A o \in gone \cap Of("official") : \A r \in Ties(o) : ~Foreign(r)
  /\ \A s \in Released(gone) : \A g \in GamesIn({s}) :
       \A l \in links : l.from = g /\ EntityOf[l.to] \in {"team", "season"} => ~Foreign(l.to)

\* No record that changes descends from an archived season.
Archived(records) == Of("season") \cap flags \cap Governing(records)
Frozen(gone) == Archived(gone \cup {l.from : l \in Detached(gone)})

\* A kept game may only lose its ice while it is a draft nothing hangs on.
PlacedStays(gone) ==
  \A l \in Detached(gone) : EntityOf[l.from] = "game" /\ EntityOf[l.to] = "slot" =>
     l.from \notin flags /\ ~\E k \in Ruled("delete") : k.to = l.from

Projectable(root) ==
  LET gone == DeletionClosure({root}) IN
  /\ root \in present /\ ~Foreign(root)
  /\ InProgram(gone) /\ Frozen(gone) = {} /\ PlacedStays(gone)

RootKinds == {"program", "season", "league", "division", "club", "team", "player",
              "organization", "venue", "rink", "official"}
AdminRecord(a) == a \in present /\ a \in flags

SubtreeInit ==
  /\ challenge = [a \in Admins |-> Nil] /\ call = [a \in Admins |-> Nil]
  /\ shown = <<>> /\ done = {}

Preview(a, root) ==
  LET token == Cardinality(DOMAIN shown) + 1 IN
  /\ AdminRecord(a) /\ token \in Tokens
  /\ EntityOf[root] \in RootKinds /\ Projectable(root)
  /\ challenge' = [challenge EXCEPT ![a] = [token |-> token, root |-> root, print |-> Fingerprint(root)]]
  /\ shown' = [t \in DOMAIN shown \cup {token} |-> IF t = token THEN Effects(root) ELSE shown[t]]
  /\ UNCHANGED <<graph, call, done>>

\* The token and the typed name are checked before any lock.
Inspect(a, token) ==
  /\ AdminRecord(a) /\ call[a] = Nil
  /\ challenge[a] # Nil /\ challenge[a].token = token
  /\ call' = [call EXCEPT ![a] = challenge[a]]
  /\ UNCHANGED <<graph, challenge, shown, done>>

Perform(changes) ==
  /\ present' = present \ changes.deleted
  /\ links' = {l \in links \ changes.detached : l.from \notin changes.deleted}
  /\ edits' = [r \in Records |-> IF \E l \in changes.detached : l.from = r /\ EntityOf[r] = "context"
                                 THEN edits[r] + 1 ELSE edits[r]]
  /\ flags' = flags \ (changes.deleted \cup changes.released \cup changes.deactivated)

\* Inside the lock: the same challenge still stands and is spent, the graph is
\* projected anew, and only an equal fingerprint is carried out.
Spent(a) == [challenge EXCEPT ![a] = Nil]
Execute(a) ==
  LET seen == call[a] IN
  /\ seen # Nil /\ call' = [call EXCEPT ![a] = Nil]
  /\ AdminRecord(a) /\ challenge[a] = seen
  /\ Projectable(seen.root) /\ Fingerprint(seen.root) = seen.print
  /\ Perform(Effects(seen.root)) /\ challenge' = Spent(a)
  /\ done' = done \cup {[token |-> seen.token, changes |-> Effects(seen.root)]}
  /\ UNCHANGED shown

\* Any refusal inside the transaction rolls it back, the token with it.
Refuse(a) ==
  LET seen == call[a] IN
  /\ seen # Nil /\ call' = [call EXCEPT ![a] = Nil]
  /\ UNCHANGED <<graph, challenge, shown, done>>

\* The challenge outlives its five minutes only as an unusable row.
Expire(a) ==
  /\ challenge[a] # Nil /\ challenge' = [challenge EXCEPT ![a] = Nil]
  /\ UNCHANGED <<graph, call, shown, done>>

(* ---- the other operators, each in a transaction of its own ---- *)
Owner(r) == \A l \in Links : l.from = r /\ l.rule = "delete" => l.to \in present
Create(r) ==
  /\ r \notin present /\ Owner(r) /\ present' = present \cup {r}
  /\ \E held \in SUBSET {l \in Links : l.from = r /\ l.rule # "delete" /\ l.to \in present} :
       LET ice == {l.to : l \in {k \in held : EntityOf[k.from] = "game"}} IN
       /\ ice \cap flags = {}
       /\ links' = links \cup {l \in Links : l.from = r /\ l.rule = "delete"} \cup held
       /\ flags' = flags \cup (IF EntityOf[r] = "account" THEN {r} ELSE {}) \cup ice
  /\ UNCHANGED <<edits, challenge, call, shown, done>>

Edit(r) ==
  /\ r \in present /\ edits' = [edits EXCEPT ![r] = @ + 1]
  /\ UNCHANGED <<present, links, flags, challenge, call, shown, done>>

\* Publishing a game, archiving or reopening a season, (de)activating an account.
Flag(r) ==
  /\ r \in present /\ EntityOf[r] \in {"game", "season", "account"}
  /\ EntityOf[r] = "game" => r \notin flags
  /\ flags' = IF r \in flags THEN flags \ {r} ELSE flags \cup {r}
  /\ UNCHANGED <<present, links, edits, challenge, call, shown, done>>

\* A cancelled game gives its ice back.
Cancel(g) ==
  LET ice == {l \in links : l.from = g /\ EntityOf[l.to] = "slot"} IN
  /\ EntityOf[g] = "game" /\ ice # {}
  /\ links' = links \ ice /\ flags' = flags \ {l.to : l \in ice}
  /\ UNCHANGED <<present, edits, challenge, call, shown, done>>

SubtreeCall(a) ==
  \/ \E root \in present : Preview(a, root)
  \/ \E token \in Tokens : Inspect(a, token)
  \/ Execute(a) \/ Refuse(a) \/ Expire(a)
OtherCall == \E r \in Records : Create(r) \/ Edit(r) \/ Flag(r) \/ Cancel(r)

(* ---- what must hold ---- *)

\* What an execution changed is what its preview showed, and a token is carried
\* out at most once: between the two, other operators add records to the
\* subtree, edit, publish, cancel and archive.
ExecutedAsShown ==
  /\ \A d \in done : d.token \in DOMAIN shown /\ d.changes = shown[d.token]
  /\ \A d, e \in done : d.token = e.token => d = e
  /\ \A a \in Admins : challenge[a] # Nil => \A d \in done : d.token # challenge[a].token

\* A present record never refers to one that is gone, except as history.
NoDangling == \A l \in links : l.rule # "retain" => {l.from, l.to} \subseteq present

\* Ice is allocated exactly while a game is placed on it.
IceHeld == \A s \in Of("slot") : s \in flags <=> GamesIn({s}) # {}

\* Both: whatever was removed and in whatever order, no reference of a record that
\* remains leads nowhere, and no ice stays taken by a game that is gone.
GraphSound == NoDangling /\ IceHeld

\* What no execution touches: anything under an archived season, anything of
\* another program (but messages to someone deleted), and the ice of a game it
\* keeps once that game is published.
Spared ==
  done' # done =>
    LET changed == (present \ present') \cup {l.from : l \in links \ links'} \cup (flags \ flags') IN
    /\ Archived(changed) = {}
    /\ \A r \in changed : EntityOf[r] \notin Messages => ~Foreign(r)
    /\ \A g \in present' \cap flags : EntityOf[g] = "game" =>
         \A l \in links : l.from = g /\ EntityOf[l.to] = "slot" => l \in links'
SubtreeSpares == [][Spared]_subtreeVars
================================================================================
