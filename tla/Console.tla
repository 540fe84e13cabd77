------------------------------- MODULE Console -------------------------------
(***************************************************************************)
(* The environments of one file as two long-lived processes see them:      *)
(* the console's local service, whose registry re-reads and verifies the   *)
(* environments file while requests wait, and an MCP session, whose calls  *)
(* do the same on their own.  `vizoalica env` rewrites the file meanwhile. *)
(* A check may find any set of the defined environments usable (Workers,   *)
(* Cloudflare and OneCLI come and go), and what is kept for 30 seconds may *)
(* have been kept that long.  What is awaited is a step.                   *)
(***************************************************************************)
EXTENDS Naturals, Sequences, FiniteSets

CONSTANTS
  None,         \* no environment, no address
  Contents,     \* what the file may hold: sequences of [name, url], by name; url None: an invalid entry
  First,        \* bound: what it holds when the processes start
  Requests,     \* requests the service may be handling at once
  Calls,        \* calls the MCP session may be handling at once
  MaxEdits,     \* bound: rewrites of the file
  MaxAsked      \* bound: requests and calls

KnownEntries == UNION {{f[i] : i \in DOMAIN f} : f \in Contents}
Known == {e.name : e \in KnownEntries}

ASSUME ConsoleContents == /\ Contents \subseteq Seq(KnownEntries) /\ First \subseteq Contents
                          /\ None \notin Known
ASSUME ConsoleBounds == {MaxEdits, MaxAsked} \subseteq Nat

VARIABLES
  past,      \* the contents of the file, first to last; their number is what its mtime and size tell
  prefs,     \* preferences.json: the environment selected last
  registry,  \* the service's Registry
  cached,    \* the service's WorkerClient: [revision, to]
  requests,  \* [Requests -> a request to the service]
  chosen,    \* the MCP session's environment: [name, by]
  overview,  \* its cached check: [stamp, usable]
  calls,     \* [Calls -> a call]
  asked      \* how many requests and calls there were

consoleVars == <<past, prefs, registry, cached, requests, chosen, overview, calls, asked>>
service == <<registry, cached, requests>>
session == <<chosen, overview, calls>>

-----------------------------------------------------------------------------
(* The file.                                                               *)

Stamp == Len(past)
File == past[Stamp]
Defined(f) == {f[i].name : i \in {j \in DOMAIN f : f[j].url # None}}
EntryOf(f, n) == f[CHOOSE i \in DOMAIN f : f[i].name = n]
(* verifyEnvironment may find usable any of those defined.                 *)
Verdicts(f) == SUBSET Defined(f)
NoEntry == [name |-> None, url |-> None]
Nobody == [name |-> None, by |-> None]

(* The one wanted if it works, else the first that does.                   *)
FirstUsable(f, usable) ==
  LET working == {i \in DOMAIN f : f[i].name \in usable}
  IN f[CHOOSE i \in working : \A j \in working : i <= j].name
Preferred(wanted, f, usable) ==
  IF wanted \in usable THEN wanted ELSE IF usable = {} THEN None ELSE FirstUsable(f, usable)

IdleRequest == [pc |-> "idle", kind |-> "list", name |-> None, phase |-> "first",
                asked |-> 0, joined |-> FALSE, used |-> NoEntry]
IdleCall == [pc |-> "idle", kind |-> "list", name |-> None, began |-> 0, over |-> Nobody,
             got |-> NoEntry]

ConsoleInit ==
  /\ past \in {<<f>> : f \in First}
  /\ prefs \in Known \cup {None}
  /\ registry = [running |-> FALSE, check |-> 0, stamp |-> 0, usable |-> {}, selected |-> None,
                 connection |-> NoEntry, revision |-> 0, choice |-> None]
  /\ cached = [revision |-> 0, to |-> NoEntry]
  /\ requests = [q \in Requests |-> IdleRequest]
  /\ chosen = Nobody /\ overview = [stamp |-> 0, usable |-> {}]
  /\ calls = [c \in Calls |-> IdleCall]
  /\ asked = 0

-----------------------------------------------------------------------------
(* `vizoalica env` rewrites the file whole.                                *)

Edit(f) ==
  /\ Stamp <= MaxEdits /\ f # File
  /\ past' = Append(past, f)
  /\ UNCHANGED <<prefs, service, session, asked>>

-----------------------------------------------------------------------------
(* The service.                                                            *)

(* Registry.refresh: joins the check that runs, or starts one when it is   *)
(* forced, the file changed, or the last is 30 seconds old.                *)
MayStay == ~registry.running /\ registry.stamp = Stamp
Checking(r) == IF r.running THEN r ELSE [r EXCEPT !.running = TRUE, !.check = Stamp]
Refresh(q, r) ==
  \/ /\ registry' = Checking(registry)
     /\ requests' = [requests EXCEPT ![q] = [r EXCEPT !.pc = "waiting"]]
  \/ /\ MayStay
     /\ requests' = [requests EXCEPT ![q] = [r EXCEPT !.pc = "ready"]]
     /\ UNCHANGED registry
RefreshForced(q, r) ==
  /\ registry' = Checking(registry)
  /\ requests' = [requests EXCEPT ![q] = [r EXCEPT !.pc = "waiting"]]

(* Every request of the console begins with a refresh.                     *)
Ask(q, kind, n) ==
  /\ requests[q].pc = "idle" /\ asked < MaxAsked
  /\ kind = "select" <=> n # None
  /\ Refresh(q, [IdleRequest EXCEPT !.kind = kind, !.name = n,
                     !.asked = IF kind = "call" THEN Stamp ELSE 0, !.joined = kind = "call" /\ registry.running])
  /\ asked' = asked + 1
  /\ UNCHANGED <<past, prefs, cached, session>>

(* What the check found becomes the snapshot; the choice is read now.      *)
Wanted == IF registry.choice # None THEN registry.choice ELSE prefs
Concluded(usable, stamp) ==
  LET f == past[registry.check]
      selected == Preferred(Wanted, f, usable)
      to == IF selected = None THEN NoEntry ELSE EntryOf(f, selected)
  IN [registry EXCEPT !.running = FALSE, !.stamp = stamp, !.usable = usable,
        !.selected = selected, !.connection = to,
        !.revision = IF to = registry.connection THEN @ ELSE @ + 1]
WakeAll == requests' = [q \in Requests |->
  IF requests[q].pc = "waiting" THEN [requests[q] EXCEPT !.pc = "ready"] ELSE requests[q]]

(* Mutant: the file's time taken when the check ends.                      *)
FinishStampedLate ==
  /\ registry.running
  /\ \E usable \in Verdicts(past[registry.check]) : registry' = Concluded(usable, Stamp)
  /\ WakeAll
  /\ UNCHANGED <<past, prefs, cached, session, asked>>

FinishCheck ==
  /\ registry.running
  /\ \E usable \in Verdicts(past[registry.check]) : registry' = Concluded(usable, registry.check)
  /\ WakeAll
  /\ UNCHANGED <<past, prefs, cached, session, asked>>

(* currentClient, then the body of the request is read.                    *)
Capture(q) ==
  /\ requests[q].pc = "ready" /\ requests[q].kind = "call"
  /\ registry.connection # NoEntry
  /\ LET client == IF cached.to # NoEntry /\ cached.revision = registry.revision THEN cached
                   ELSE [revision |-> registry.revision, to |-> registry.connection]
     IN /\ cached' = client
        /\ requests' = [requests EXCEPT ![q].pc = "sending", ![q].used = client.to]
  /\ UNCHANGED <<past, prefs, registry, session, asked>>

(* The backend answers; or there was none to ask; or it was about the      *)
(* environments themselves.                                                *)
Reply(q) ==
  /\ \/ requests[q].pc = "sending"
     \/ requests[q].pc = "ready" /\ requests[q].kind = "call" /\ registry.connection = NoEntry
     \/ requests[q].pc = "ready" /\ (requests[q].kind = "list" \/ requests[q].phase = "last")
  /\ requests' = [requests EXCEPT ![q] = IdleRequest]
  /\ UNCHANGED <<past, prefs, registry, cached, session, asked>>

Recheck(q) ==
  /\ requests[q].pc = "ready" /\ requests[q].kind = "recheck" /\ requests[q].phase = "first"
  /\ RefreshForced(q, [requests[q] EXCEPT !.phase = "last"])
  /\ UNCHANGED <<past, prefs, cached, session, asked>>

(* Registry.select: refreshes, ...                                         *)
Select(q) ==
  /\ requests[q].pc = "ready" /\ requests[q].kind = "select" /\ requests[q].phase = "first"
  /\ Refresh(q, [requests[q] EXCEPT !.phase = "choosing"])
  /\ UNCHANGED <<past, prefs, cached, session, asked>>

Choosing(q) == requests[q].pc = "ready" /\ requests[q].phase = "choosing"

(* ... refuses what is unknown or unusable, ...                            *)
Refuse(q) ==
  /\ Choosing(q) /\ requests[q].name \notin registry.usable
  /\ requests' = [requests EXCEPT ![q] = IdleRequest]
  /\ UNCHANGED <<past, prefs, registry, cached, session, asked>>

(* Mutant: a check that is fresh is not repeated.                          *)
ChooseUnforced(q) ==
  /\ Choosing(q) /\ requests[q].name \in registry.usable
  /\ registry' = [(IF MayStay THEN registry ELSE Checking(registry)) EXCEPT !.choice = requests[q].name]
  /\ requests' = [requests EXCEPT ![q].phase = "last", ![q].pc = IF MayStay THEN "ready" ELSE "waiting"]
  /\ prefs' \in {prefs, requests[q].name}
  /\ UNCHANGED <<past, cached, session, asked>>

(* ... or remembers the choice, here and (unless that fails) in the        *)
(* preferences, and checks again: it joins a check that runs already.      *)
Choose(q) ==
  /\ Choosing(q) /\ requests[q].name \in registry.usable
  /\ registry' = [Checking(registry) EXCEPT !.choice = requests[q].name]
  /\ requests' = [requests EXCEPT ![q].phase = "last", ![q].pc = "waiting"]
  /\ prefs' \in {prefs, requests[q].name}
  /\ UNCHANGED <<past, cached, session, asked>>

-----------------------------------------------------------------------------
(* The MCP session.  Every call reads the file when it starts.             *)

Call(c, kind, n) ==
  /\ calls[c].pc = "idle" /\ asked < MaxAsked
  /\ kind \in {"use", "named"} <=> n # None
  /\ n # None => n \in Defined(File)
  /\ calls' = [calls EXCEPT ![c] = [IdleCall EXCEPT !.pc = "start", !.kind = kind, !.name = n]]
  /\ asked' = asked + 1
  /\ UNCHANGED <<past, prefs, service, chosen, overview>>

Starting(c, kinds) == calls[c].pc = "start" /\ calls[c].kind \in kinds
Target(n, stamp) == IF n \in Defined(past[stamp]) THEN EntryOf(past[stamp], n) ELSE NoEntry
Gets(c, n, stamp) == calls' = [calls EXCEPT ![c].pc = "got", ![c].began = 0, ![c].name = None,
                                        ![c].over = Nobody, ![c].got = Target(n, stamp)]
HasChosen == chosen.name \in Defined(File)
Checks(c) == calls' = [calls EXCEPT ![c].pc = "checking", ![c].began = Stamp, ![c].over = chosen]
Fails(c) == calls' = [calls EXCEPT ![c] = IdleCall]

TargetNamed(c) ==
  /\ Starting(c, {"named"}) /\ calls[c].name \in Defined(File)
  /\ Gets(c, calls[c].name, Stamp)
  /\ UNCHANGED <<past, prefs, service, chosen, overview, asked>>

TargetChosen(c) ==
  /\ Starting(c, {"default"}) /\ HasChosen
  /\ Gets(c, chosen.name, Stamp)
  /\ UNCHANGED <<past, prefs, service, chosen, overview, asked>>

TargetOnly(c) ==
  /\ Starting(c, {"default"}) /\ ~HasChosen /\ Cardinality(Defined(File)) = 1
  /\ LET n == CHOOSE n \in Defined(File) : TRUE IN
     chosen' = [name |-> n, by |-> "only"] /\ Gets(c, n, Stamp)
  /\ UNCHANGED <<past, prefs, service, overview, asked>>

(* pickDefault, once it knows what is usable: what the console selected    *)
(* last, else the first that works.  The entry is of the file as read when *)
(* the call began.                                                         *)
Pick(c, f, usable, stamp) ==
  LET n == Preferred(prefs, f, usable) IN
  IF usable = {} THEN Fails(c) /\ UNCHANGED chosen
  ELSE /\ chosen' = [name |-> n, by |-> IF n = prefs THEN "console" ELSE "first-usable"]
       /\ Gets(c, n, stamp)

(* use_environment answers with what a call without an argument then gets. *)
Used(c) ==
  /\ chosen' = [name |-> calls[c].name, by |-> "session"]
  /\ calls' = [calls EXCEPT ![c] = [IdleCall EXCEPT !.pc = "start", !.kind = "default"]]

PicksDefault(c) == Starting(c, {"default"}) /\ ~HasChosen /\ Cardinality(Defined(File)) > 1

(* A check may be kept until the file changes, or 30 seconds.              *)
OverviewKept == overview.stamp = Stamp

TargetKept(c) ==
  /\ PicksDefault(c) /\ OverviewKept
  /\ Pick(c, past[overview.stamp], overview.usable, Stamp)
  /\ UNCHANGED <<past, prefs, service, overview, asked>>

TargetChecks(c) ==
  /\ PicksDefault(c)
  /\ Checks(c)
  /\ UNCHANGED <<past, prefs, service, chosen, overview, asked>>

(* use_environment and list_environments always check.                     *)
AlwaysChecks(c) ==
  /\ Starting(c, {"list"}) \/ (Starting(c, {"use"}) /\ calls[c].name \in Defined(File))
  /\ Checks(c)
  /\ UNCHANGED <<past, prefs, service, chosen, overview, asked>>

(* No such environment, or none at all.                                    *)
NoTarget(c) ==
  /\ \/ Starting(c, {"named", "use"}) /\ calls[c].name \notin Defined(File)
     \/ Starting(c, {"default"}) /\ Defined(File) = {}
  /\ Fails(c)
  /\ UNCHANGED <<past, prefs, service, chosen, overview, asked>>

(* The last check to end is the one kept, under the stamp it began with.   *)
CheckEnds(c) ==
  /\ calls[c].pc = "checking"
  /\ \E usable \in Verdicts(past[calls[c].began]) :
       /\ overview' = [stamp |-> calls[c].began, usable |-> usable]
       /\ CASE calls[c].kind = "default" -> Pick(c, past[calls[c].began], usable, calls[c].began)
            [] calls[c].kind = "use" /\ calls[c].name \in usable -> Used(c)
            [] OTHER -> Fails(c) /\ UNCHANGED chosen
  /\ UNCHANGED <<past, prefs, service, asked>>

Return(c) ==
  /\ calls[c].pc = "got"
  /\ Fails(c)
  /\ UNCHANGED <<past, prefs, service, chosen, overview, asked>>

-----------------------------------------------------------------------------
RequestKinds == {"list", "recheck", "select", "call"}
ServiceStep(q) == Capture(q) \/ Reply(q) \/ Recheck(q) \/ Select(q) \/ Refuse(q) \/ Choose(q)
CallStep(c) ==
  \/ TargetNamed(c) \/ TargetChosen(c) \/ TargetOnly(c) \/ TargetKept(c) \/ TargetChecks(c)
  \/ AlwaysChecks(c) \/ NoTarget(c) \/ CheckEnds(c) \/ Return(c)

ConsoleNext ==
  \/ \E f \in Contents : Edit(f)
  \/ \E q \in Requests : ServiceStep(q) \/ \E kind \in RequestKinds, n \in Known \cup {None} : Ask(q, kind, n)
  \/ FinishCheck
  \/ \E c \in Calls :
       \/ CallStep(c)
       \/ \E kind \in {"list", "use", "named", "default"}, n \in Known \cup {None} : Call(c, kind, n)

ConsoleSpec == ConsoleInit /\ [][ConsoleNext]_consoleVars

-----------------------------------------------------------------------------
Revision == [revision : Nat, to : KnownEntries \cup {NoEntry}]
Registry == [running : BOOLEAN, check : Nat, stamp : Nat, usable : SUBSET Known,
             selected : Known \cup {None}, connection : KnownEntries \cup {NoEntry}, revision : Nat,
             choice : Known \cup {None}]
Request == [pc : {"idle", "waiting", "ready", "sending"}, kind : RequestKinds, name : Known \cup {None},
            phase : {"first", "choosing", "last"}, asked : Nat, joined : BOOLEAN,
            used : KnownEntries \cup {NoEntry}]
Choice == [name : Known \cup {None}, by : {None, "argument", "only", "console", "first-usable", "session"}]
SessionCall == [pc : {"idle", "start", "checking", "got"}, kind : {"list", "use", "named", "default"},
                name : Known \cup {None}, began : Nat, over : Choice, got : KnownEntries \cup {NoEntry}]

(* Every variable has its type, a stamp is of a content there was, and the *)
(* environments found usable are of that content.                          *)
ConsoleTypeOK ==
  /\ past \in Seq(Contents) /\ past # <<>> /\ prefs \in Known \cup {None}
  /\ registry \in Registry /\ registry.selected \in registry.usable \cup {None}
  /\ registry.stamp <= Stamp /\ registry.check <= Stamp /\ (registry.running => registry.check > 0)
  /\ cached \in Revision
  /\ requests \in [Requests -> Request]
  /\ chosen \in Choice
  /\ overview \in [stamp : Nat, usable : SUBSET Known] /\ overview.stamp <= Stamp
  /\ overview.stamp > 0 => overview.usable \in Verdicts(past[overview.stamp])
  /\ calls \in [Calls -> SessionCall]
  /\ \A c \in Calls : calls[c].began <= Stamp /\ (calls[c].pc = "checking" => calls[c].began > 0)
  /\ asked \in 0..MaxAsked

(* "An edit of the file is noticed sooner than this" (registry.ts:38): a   *)
(* request goes where the file said when it arrived or later, though a     *)
(* check that was fresh a moment before, or a client made for another,     *)
(* is at hand; only one that arrives during a check may be behind.         *)
EditsNoticed ==
  \A q \in Requests : requests[q].pc = "sending" /\ ~requests[q].joined =>
    \E s \in requests[q].asked .. Stamp : \E i \in DOMAIN past[s] : past[s][i] = requests[q].used

(* Once the requests that chose environments went on, the one chosen last  *)
(* is selected if it works, also when a check had begun before.            *)
ChoiceHonoured ==
  ~registry.running /\ registry.choice \in registry.usable => registry.selected = registry.choice

(* The environment chosen with use_environment is the session's until      *)
(* another is: calls that name one, list them, or follow the console leave *)
(* it.  Only a call that was picking a default since before, or found it   *)
(* gone from the file, replaces it.                                        *)
SessionKept ==
  [][chosen.by = "session" /\ chosen' # chosen =>
       \/ chosen'.by = "session"
       \/ chosen.name \notin Defined(File)
       \/ \E c \in Calls : /\ calls[c].pc = "checking" /\ calls[c].kind = "default"
                           /\ calls[c].over # chosen \/ chosen.name \notin Defined(past[calls[c].began])]_consoleVars
=============================================================================
