------------------------------- MODULE MCDestruction -------------------------------
(***************************************************************************)
(* What administrators do: they choose a working context and write in it   *)
(* (MCContext), and they remove data for good.  In "team" and "ice" a      *)
(* subtree is removed: of a season, its teams, a player, an official and   *)
(* what hangs on a game between the teams, or of a venue that seasons of   *)
(* two programs may play in.  In "reset" the installation is emptied.      *)
(***************************************************************************)
EXTENDS MCContext, SubtreeDeletion, FactoryReset, TLC

CONSTANTS
  World,      \* part -> the records it starts from
  Flagged,    \* part -> those of them with a flag
  Touched,    \* part -> bound: the records the other operators' calls are about
  MaxWrites,  \* part -> bound: calls of the other operators
  MaxCalls    \* part -> bound: executions begun

VARIABLES writes, calls
removalVars == <<writes, calls, subtreeVars, resetVars>>

LostKind ==
  [A |-> "account", B |-> "account", S |-> "season", Z |-> "season", T |-> "team", U |-> "team", p |-> "player",
   g |-> "game", h |-> "game", e |-> "entry", O |-> "official", a |-> "assignment", b |-> "assignment",
   V |-> "venue", R |-> "rink", i |-> "slot", X |-> "access", Y |-> "access",
   u |-> "account", c |-> "context", k |-> "setupAudit"]
MCRecords == DOMAIN LostKind
LostProgram == [r \in MCRecords |-> IF r \in {"Z", "h", "b", "Y"} THEN "Q"
                                  ELSE IF r \in {"S", "T", "U", "p", "g", "e", "a", "X"} THEN "P" ELSE Nil]
MCRefs(from, targets, rule) == {[from |-> from, to |-> t, rule |-> rule] : t \in targets}
MCLinks == UNION {
  MCRefs("g", {"T", "U", "S"}, "delete"), MCRefs("g", {"i"}, "detach"),
  MCRefs("h", {"Z"}, "delete"), MCRefs("h", {"i"}, "detach"),
  MCRefs("p", {"T"}, "delete"), MCRefs("e", {"g", "p"}, "delete"),
  MCRefs("a", {"g", "O"}, "delete"), MCRefs("b", {"h", "O"}, "delete"),
  MCRefs("R", {"V"}, "delete"), MCRefs("i", {"R"}, "delete"),
  MCRefs("X", {"S", "V"}, "delete"), MCRefs("Y", {"Z", "V"}, "delete"),
  MCRefs("u", {"T", "p"}, "detach"), MCRefs("c", {"S"}, "detach"), MCRefs("c", {"A"}, "delete"),
  MCRefs("k", {"T"}, "retain")}

MCWorld == [team |-> {"A", "B", "S", "T", "U", "p", "g", "O", "i", "R", "V", "u", "c"},
            ice |-> {"A", "B", "S", "Z", "T", "U", "V", "R", "i"}, reset |-> {}, read |-> {}, write |-> {}]
MCFlagged == [team |-> {"A", "B", "u", "i"}, ice |-> {"A", "B"}, reset |-> {}, read |-> {}, write |-> {}]
MCOthers == [team |-> {"e", "k", "g", "S", "u", "B"}, ice |-> {"g", "h", "X", "Y", "e", "Z"}, reset |-> {}]
MCMaxWrites == [team |-> 1, ice |-> 2, reset |-> 1]
MCMaxCalls == [team |-> 2, ice |-> 1, reset |-> 2]
MCSymmetry == Permutations(Processes)

\* An installation at work: ice is allocated exactly while a game is on it, and
\* only to one.
LinksWithin(records) == {l \in Links : {l.from, l.to} \subseteq records}
ASSUME WorldAssumption ==
  \A w \in {"team", "ice"} :
    /\ World[w] \cup Touched[w] \subseteq Records /\ Flagged[w] \subseteq World[w]
    /\ \A s \in World[w] : EntityOf[s] = "slot" =>
         LET games == {l.from : l \in {k \in LinksWithin(World[w]) : k.to = s /\ EntityOf[k.from] = "game"}} IN
         /\ s \in Flagged[w] <=> games # {}
         /\ \A x, y \in games : x = y

DestructionInit ==
  /\ ContextInit
  /\ writes = 0 /\ calls = 0
  /\ present = World[part] /\ links = LinksWithin(World[part])
  /\ edits = [r \in Records |-> 0] /\ flags = Flagged[part]
  /\ SubtreeInit
  /\ IF part = "reset" THEN ResetInit
     ELSE /\ now = 0 /\ rows = {} /\ accounts = <<>> /\ offer = None /\ lock = None
          /\ run = [process \in Processes |-> AtRest] /\ previewed = {} /\ wipes = {}

RemovesSubtree ==
  /\ part \in {"team", "ice"} /\ UNCHANGED <<contextVars, resetVars>>
  /\ \/ \E a \in Admins :
          /\ SubtreeCall(a) /\ UNCHANGED writes
          /\ calls' = (IF call[a] = Nil /\ call'[a] # Nil THEN calls + 1 ELSE calls)
          /\ calls' <= MaxCalls[part]
     \/ /\ writes < MaxWrites[part] /\ writes' = writes + 1 /\ UNCHANGED calls
        /\ \E r \in Touched[part] :
             Create(r) \/ Edit(r) \/ Flag(r) \/ Cancel(r)

ResetsAll ==
  /\ part = "reset" /\ UNCHANGED <<contextVars, subtreeVars>>
  /\ \/ \E process \in Processes :
          /\ ResetStep(process) /\ UNCHANGED writes
          /\ calls' = (IF run[process].at = "idle" THEN calls + 1 ELSE calls)
          /\ calls' <= MaxCalls[part]
     \/ ((\E a \in Admins : ResetPreview(a)) \/ Tick) /\ UNCHANGED <<writes, calls>>
     \/ Work /\ writes < MaxWrites[part] /\ writes' = writes + 1 /\ UNCHANGED calls

DestructionSpec ==
  /\ DestructionInit
  /\ [][\/ ContextNext /\ UNCHANGED removalVars
        \/ RemovesSubtree \/ ResetsAll]_<<contextVars, removalVars>>

\* What is deleted is what was previewed, the graph of records stays whole, and
\* the installation is emptied only by the challenge its owner confirmed.
RemovalSound ==
  IF part = "reset" THEN ResetGuarded ELSE part \in {"team", "ice"} => ExecutedAsShown /\ GraphSound

\* The selection every call starts from is one the account may see, and the
\* page shows what the write gate would let through.
ContextSound ==
  part \in {"read", "write"} => SelectionStands /\ ChosenStaysInReach /\ PageAndGateAgree
================================================================================
