--------------------------------- MODULE Page ---------------------------------
(***************************************************************************)
(* One page load of a website that uses the browser SDK: script tags that  *)
(* start it directly, loaders that fetch the website's configuration and   *)
(* insert it (dynamic-config.ts), the opt-out of the browser (ignore.ts),  *)
(* the start of a client (index.ts, embed.ts), and navigation inside the   *)
(* page (navigation.ts).  What becomes of an event once it is queued is    *)
(* BrowserQueue's; clicks are Clicks'.                                     *)
(*                                                                         *)
(* A browser runs one task at a time, and what queueMicrotask queued runs  *)
(* before the next task: a step that needs a task of its own has Quiet as  *)
(* its guard.  Calls of the page's own code do not, since one task may     *)
(* make several.                                                           *)
(***************************************************************************)
EXTENDS Naturals, Sequences, Functions, FiniteSets

CONSTANTS
  Keys,      \* page keys: the address without its query
  Tags,      \* script tags that start the SDK
  Loaders,   \* copies of the dynamic loader
  Options,   \* how a client may be configured
  Library,   \* someone else's wrapper of the history methods
  MaxMoves,  \* bound: navigations
  MaxCalls   \* bound: page() called by the page, and turns of the switch in another tab

ASSUME OptionsAssumption == Options \subseteq {"plain", "manual", "denied"}
ASSUME PageBounds == MaxMoves \in Nat /\ MaxCalls \in Nat
ASSUME ScriptsAssumption == Tags \cap Loaders = {} /\ Library \notin Tags \cup Loaders

Scripts == Tags \cup Loaders  \* a loader's script is the one it inserts
Methods == {"pushState", "replaceState"}

VARIABLES
  address,    \* the page key, and the opt-out switch
  storage,    \* may the page use its storage, and is the opt-out stored there
  history,    \* [accepts assignments?, methods -> the wrappers, outermost first]
  shown,      \* tags that carry data-endpoint
  option,     \* [scripts -> how its client is configured]
  script,     \* [scripts -> where it is in its life]
  loader,     \* [loaders -> likewise]
  started, sdkInserted,  \* the state loaders share
  client,     \* [scripts -> the client it started]
  late,       \* history: tags no loader could see when it inserted its script
  ignored,    \* history: an opt-out some script saw and could store, not reversed since
  moves, calls

loading == <<shown, option, script, loader, started, sdkInserted, late>>
pageVars == <<address, storage, history, client, ignored, moves, calls, loading>>

NoClient == [state |-> "none", last |-> "none", listens |-> FALSE, checks |-> 0, views |-> <<>>]

PageInit ==
  /\ address \in [key : Keys, switch : {"on", "off", "none"}]
  /\ storage \in [works : BOOLEAN, out : BOOLEAN]
  /\ storage.out => storage.works
  /\ history = [accepts |-> TRUE, wrappers |-> [m \in Methods |-> <<>>]]
  /\ shown \in SUBSET Tags
  /\ option \in [Scripts -> Options]
  /\ \A l \in Loaders : option[l] # "manual"  \* an inserted script has no data-auto-page-view
  /\ script = [s \in Scripts |-> "absent"]
  /\ loader = [l \in Loaders |-> "absent"]
  /\ started = FALSE /\ sdkInserted = FALSE
  /\ client = [s \in Scripts |-> NoClient]
  /\ late = {} /\ ignored = storage.out
  /\ moves = 0 /\ calls = 0

Quiet == \A s \in Scripts : client[s].checks = 0
Live == {s \in Scripts : client[s].state = "live"}

-----------------------------------------------------------------------------
(* resolveIgnore: the switch in the address first, then what is stored.    *)
(* Blocked storage is an unset flag, but a switch that says on is obeyed.  *)
Ignored == IF address.switch = "none" THEN storage.out ELSE address.switch = "on"

ResolveIgnore ==
  /\ storage' = IF storage.works /\ address.switch # "none" THEN [storage EXCEPT !.out = Ignored] ELSE storage
  /\ ignored' = IF Ignored /\ storage.works THEN TRUE ELSE IF address.switch = "off" THEN FALSE ELSE ignored

-----------------------------------------------------------------------------
(* What a loader looks for before it starts, and again when the            *)
(* configuration has come: a script of its kind, a client, a tag.          *)
Global == \E s \in Scripts : script[s] = "ran"
TagFound == \E s \in shown \cup Loaders : script[s] # "absent"
SdkRunning == sdkInserted \/ Global
SdkThere == sdkInserted \/ Global \/ TagFound

LoaderRuns(l) ==
  /\ Quiet
  /\ loader[l] = "absent"
  /\ IF started \/ SdkThere
       THEN /\ loader' = [loader EXCEPT ![l] = "done"]
            /\ UNCHANGED <<storage, ignored, started>>
       ELSE /\ started' = TRUE
            /\ ResolveIgnore
            /\ loader' = [loader EXCEPT ![l] = IF Ignored THEN "done" ELSE "fetching"]
  /\ UNCHANGED <<address, history, shown, option, script, sdkInserted, client, late, moves, calls>>

(* The configuration comes, or does not, or is not valid.                  *)
ConfigArrives(l, valid) ==
  /\ loader[l] = "fetching"
  /\ loader' = [loader EXCEPT ![l] = "done"]
  /\ IF ~valid \/ SdkThere
       THEN UNCHANGED <<script, sdkInserted, late>>
       ELSE /\ sdkInserted' = TRUE
            /\ script' = [script EXCEPT ![l] = "loading"]
            /\ late' = {t \in Tags : script[t] = "absent" \/ (t \notin shown /\ script[t] # "ran")}
  /\ UNCHANGED <<address, storage, history, shown, option, started, client, ignored, moves, calls>>

(* A tag is parsed, or inserted by the page.                               *)
TagParsed(t) ==
  /\ Quiet
  /\ script[t] = "absent"
  /\ script' = [script EXCEPT ![t] = "loading"]
  /\ UNCHANGED <<address, storage, history, shown, option, loader, started, sdkInserted, client, late, ignored, moves, calls>>

ScriptFails(s) ==
  /\ Quiet
  /\ script[s] = "loading"
  /\ script' = [script EXCEPT ![s] = "failed"]
  /\ sdkInserted' = IF s \in Loaders THEN FALSE ELSE sdkInserted
  /\ UNCHANGED <<address, storage, history, shown, option, loader, started, client, late, ignored, moves, calls>>

-----------------------------------------------------------------------------
(* A view of the current page.                                             *)
WithView(c, by) == [c EXCEPT !.views = Append(@, [page |-> address.key, by |-> by])]

(* watchNavigation: both methods are wrapped, or neither, and the          *)
(* listeners are added last.                                               *)
Watches(s) == option[s] = "plain" /\ history.accepts

(* autoInit and init: the script runs and starts a client, which says      *)
(* nothing in a browser that opted out.                                    *)
ScriptRuns(s) ==
  /\ Quiet
  /\ script[s] = "loading"
  /\ script' = [script EXCEPT ![s] = "ran"]
  /\ ResolveIgnore
  /\ LET new == [NoClient EXCEPT !.state = "live", !.last = address.key]
         landed == IF option[s] = "manual" THEN new ELSE WithView(new, "landing")
     IN IF Ignored
          THEN /\ client' = [client EXCEPT ![s].state = "silent"]
               /\ UNCHANGED history
          ELSE /\ client' = [client EXCEPT ![s] = [landed EXCEPT !.listens = Watches(s)]]
               /\ history' = IF ~Watches(s) THEN history
                             ELSE [history EXCEPT !.wrappers = [m \in Methods |-> <<s>> \o @[m]]]
  /\ UNCHANGED <<address, shown, option, loader, started, sdkInserted, late, moves, calls>>

-----------------------------------------------------------------------------
(* The address of the page changes, and each of the scripts in S queues a  *)
(* look at it, as often as it was told.                                    *)
MoveTo(k, tidied, told) ==
  /\ moves < MaxMoves
  /\ tidied => address.switch # "none"
  /\ moves' = moves + 1
  /\ address' = [key |-> k, switch |-> IF tidied THEN "none" ELSE address.switch]
  /\ client' = [s \in Scripts |-> [client[s] EXCEPT !.checks = @ + told[s]]]
  /\ UNCHANGED <<storage, history, ignored, calls, loading>>

(* The page calls a history method: every wrapper around it checks.        *)
CallHistory(method, k, tidied) ==
  MoveTo(k, tidied, [s \in Scripts |-> IF s \in Range(history.wrappers[method]) THEN 1 ELSE 0])

(* Back, forward or a fragment: one event or two, each to every listener.  *)
Traverse(k, tidied, events) ==
  /\ Quiet
  /\ MoveTo(k, tidied, [s \in Scripts |-> IF client[s].listens THEN events ELSE 0])

(* The queued check: a view if the key is not the last one.                *)
Counted(c) == IF c.last = address.key THEN c ELSE WithView([c EXCEPT !.last = address.key], "navigation")

Check(s) ==
  /\ client[s].checks > 0
  /\ client' = [client EXCEPT ![s] = Counted([client[s] EXCEPT !.checks = @ - 1])]
  /\ UNCHANGED <<address, storage, history, ignored, moves, calls, loading>>

(* stop(): a wrapper that is no longer the outermost one stays.            *)
UnwrappedAlways(wrappers, s) ==
  IF s \in Range(wrappers)
  THEN SubSeq(wrappers, (CHOOSE i \in DOMAIN wrappers : wrappers[i] = s) + 1, Len(wrappers)) ELSE wrappers
Unwrapped(wrappers, s) == IF wrappers # <<>> /\ Head(wrappers) = s THEN Tail(wrappers) ELSE wrappers

Stop(s) ==
  /\ s \in Live
  /\ client[s].listens
  /\ history' = [history EXCEPT !.wrappers = [m \in Methods |-> Unwrapped(@[m], s)]]
  /\ client' = [client EXCEPT ![s].listens = FALSE]
  /\ UNCHANGED <<address, storage, ignored, moves, calls, loading>>

(* The page sends a view itself.                                           *)
CallPage(s) ==
  /\ s \in Live
  /\ calls < MaxCalls
  /\ calls' = calls + 1
  /\ client' = [client EXCEPT ![s] = WithView(@, "call")]
  /\ UNCHANGED <<address, storage, history, ignored, moves, loading>>

(* Another library wraps one of the methods (the bound), over what is      *)
(* there; or the page freezes its history.                                 *)
OtherWraps(method) ==
  /\ history.accepts
  /\ \A m \in Methods : Library \notin Range(history.wrappers[m])
  /\ history' = [history EXCEPT !.wrappers[method] = <<Library>> \o @]
  /\ UNCHANGED <<address, storage, client, ignored, moves, calls, loading>>

Freeze ==
  /\ history.accepts
  /\ \A m \in Methods : history.wrappers[m] = <<>>
  /\ history' = [history EXCEPT !.accepts = FALSE]
  /\ UNCHANGED <<address, storage, client, ignored, moves, calls, loading>>

(* Another tab of the website is opened with the switch in its address.    *)
OtherTab(out) ==
  /\ Quiet
  /\ storage.works /\ storage.out # out
  /\ calls < MaxCalls
  /\ calls' = calls + 1
  /\ storage' = [storage EXCEPT !.out = out]
  /\ ignored' = out
  /\ UNCHANGED <<address, history, client, moves, loading>>

PageNext ==
  \/ \E l \in Loaders : LoaderRuns(l)
  \/ \E l \in Loaders, valid \in BOOLEAN : ConfigArrives(l, valid)
  \/ \E t \in Tags : TagParsed(t)
  \/ \E s \in Scripts : ScriptFails(s)
  \/ \E s \in Scripts : ScriptRuns(s)
  \/ \E m \in Methods, k \in Keys, tidied \in BOOLEAN : CallHistory(m, k, tidied)
  \/ \E k \in Keys, tidied \in BOOLEAN, events \in 1 .. 2 : Traverse(k, tidied, events)
  \/ \E s \in Scripts : Check(s)
  \/ \E s \in Scripts : Stop(s)
  \/ \E s \in Scripts : CallPage(s)
  \/ \E m \in Methods : OtherWraps(m)
  \/ Freeze
  \/ \E out \in BOOLEAN : OtherTab(out)

PageSpec == PageInit /\ [][PageNext]_pageVars

-----------------------------------------------------------------------------
View == [page : Keys, by : {"landing", "navigation", "call"}]
Client == [state : {"none", "live", "silent"}, last : Keys \cup {"none"}, listens : BOOLEAN, checks : Nat,
           views : Seq(View)]

(* Every variable has its type.                                            *)
PageTypeOK ==
  /\ address \in [key : Keys, switch : {"on", "off", "none"}]
  /\ storage \in [works : BOOLEAN, out : BOOLEAN]
  /\ history \in [accepts : BOOLEAN, wrappers : [Methods -> Seq(Scripts \cup {Library})]]
  /\ shown \subseteq Tags /\ option \in [Scripts -> Options]
  /\ script \in [Scripts -> {"absent", "loading", "failed", "ran"}]
  /\ loader \in [Loaders -> {"absent", "fetching", "done"}]
  /\ started \in BOOLEAN /\ sdkInserted \in BOOLEAN /\ ignored \in BOOLEAN
  /\ client \in [Scripts -> Client]
  /\ late \subseteq Tags
  /\ moves \in 0..MaxMoves /\ calls \in 0..MaxCalls

Automatic(s) == {i \in DOMAIN client[s].views : client[s].views[i].by # "call"}

(* Every page a visitor stays on is counted once by every client that      *)
(* watches: when no check is queued, its last view is of the page that is  *)
(* shown, and no two in a row are of one page -- whatever mix of calls,    *)
(* events, other wrappers and stopped clients brought it there.            *)
NavigationCounted ==
  \A s \in Live : LET views == client[s].views IN
    client[s].listens /\ Quiet =>
      /\ \E last \in Automatic(s) :
           views[last].page = address.key /\ \A i \in Automatic(s) : i <= last
      /\ \A i, j \in Automatic(s) :
           i < j /\ (\A k \in Automatic(s) : k <= i \/ k >= j) => views[i].page # views[j].page

(* The loaders start at most one SDK, and none beside a tag they could     *)
(* see: two clients on a page mean a tag that ran after a loader had       *)
(* inserted its script, or two tags.                                       *)
OneClient ==
  /\ Cardinality({l \in Loaders : script[l] # "absent"}) <= 1
  /\ \A l \in Loaders, t \in Tags :
       script[l] = "ran" /\ script[t] = "ran" => t \in late

(* A browser that opted out stays out: from the moment a script has stored *)
(* the opt-out, and until the switch or another tab reverses it, no client *)
(* starts, whoever starts it and however late -- the loader fetches in     *)
(* between, and a router may have tidied the switch away.                  *)
OptOutHolds == [][ignored /\ ignored' => Live' \subseteq Live]_pageVars

=============================================================================
