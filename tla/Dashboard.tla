------------------------------ MODULE Dashboard ------------------------------
(***************************************************************************)
(* The console's web page in one tab: connecting to the local service, the *)
(* scope that every screen reads (a project, one of its websites, a        *)
(* range), the lists and reports loaded for it, and the changes a person   *)
(* makes.  Every request is answered later, when the person may be         *)
(* elsewhere; other tabs and computers change what the service answers.    *)
(* React runs an effect with the change that causes it.                    *)
(***************************************************************************)
EXTENDS Naturals, FiniteSets

CONSTANTS
  None,          \* no project, website, range
  Environments,  \* the backends to choose from
  Projects,      \* project ids
  Sites,         \* website ids
  Ranges,        \* time ranges
  DefaultRange,  \* the one of a browser that remembers none
  EnvironmentOf, \* [Projects -> Environments]
  ProjectOf,     \* [Sites -> Projects]
  Existing,      \* bound: the projects and websites there are at first
  MaxActs        \* bound: what the person and others do

ASSUME DashboardBounds ==
  /\ EnvironmentOf \in [Projects -> Environments]
  /\ ProjectOf \in [Sites -> Projects]
  /\ DefaultRange \in Ranges
  /\ Existing \subseteq Projects \cup Sites
  /\ MaxActs \in Nat

VARIABLES
  service,   \* the environment the local service has selected
  live,      \* projects and websites that are not deleted
  past,      \* those that are
  app,       \* App: [access, label: the environment shown]
  selects,   \* choices of an environment under way: [to, served]
  connects,  \* runs of connect under way: [stage, seen]
  unheard,   \* history: the service's selection moved and this page cannot know
  scope,     \* ScopeProvider
  saved,     \* localStorage: the scope to return to
  loads,     \* lists of websites asked for by the scope's effect
  works,     \* changes, and what the screen does after them
  outlived,  \* history: a refresh of another project was shown since this one was chosen
  route,     \* the address: [page, site]
  reports,   \* [Slots -> what a screen shows]
  asked,     \* requests for them under way: [slot, key, aborted]
  acts       \* how much of MaxActs is used

vars == <<service, live, past, app, selects, connects, unheard, scope, saved, loads, works, outlived,
          route, reports, asked, acts>>
outside == <<service, live, past, app, selects, connects, unheard>>
screen == <<scope, saved, loads, outlived, route, reports, asked>>

-----------------------------------------------------------------------------
(* What the service answers: with the environment selected when it does.   *)

LiveProjects == {p \in Projects \cap live : EnvironmentOf[p] = service}
SitesOf(p) == {s \in Sites \cap live : ProjectOf[s] = p}

-----------------------------------------------------------------------------
(* Addresses, and the report each screen asks for.  `previous` is the      *)
(* period before, for the overview's changes.                              *)

Analytics == {"overview", "pages", "actions"}
Plain == Analytics \cup {"websites", "new", "projects"}
OfSite == {"site", "edit", "install"}
Routes == [page : Plain, site : {None}] \cup [page : OfSite, site : Sites]
At(pg) == [page |-> pg, site |-> None]

Slots == {"current", "previous"}
Nothing == [source |-> None, project |-> None, website |-> None, range |-> None]

(* The dependencies of a report's effect.  Overview and pages share a      *)
(* provider; a website's page asks for its status once the list has it.    *)
Key(slot, sc, rt) ==
  IF ~sc.mounted \/ sc.project = None THEN Nothing
  ELSE CASE rt.page \in Analytics /\ (slot = "current" \/ rt.page = "overview") ->
              [source |-> IF rt.page = "actions" THEN "actions" ELSE "overview",
               project |-> sc.project, website |-> sc.website, range |-> sc.range]
         [] slot = "current" /\ rt.page = "site" /\ rt.site \in sc.sites ->
              [source |-> "status", project |-> sc.project, website |-> rt.site, range |-> None]
         [] OTHER -> Nothing

-----------------------------------------------------------------------------
(* The scope: what a change of it sets off.                                *)

NoScope == [mounted |-> FALSE, projects |-> {}, project |-> None, website |-> None, sites |-> {},
            error |-> FALSE, pending |-> None, range |-> None]

(* A new project clears the list and asks for its own; the effect of the   *)
(* one before is cancelled, and so is everything of an unmounted screen.   *)
Entered(sc) == [sc EXCEPT !.sites = {}, !.error = FALSE]
Cancelled(ls) == {[l EXCEPT !.cancelled = TRUE] : l \in {x \in ls : ~x.cancelled}}
LoadOf(sc) == IF sc.mounted /\ sc.project # None
              THEN {[project |-> sc.project, items |-> {}, served |-> FALSE, cancelled |-> FALSE]}
              ELSE {}

(* Requests whose key changed are aborted and made anew.  Of those aborted *)
(* and those cancelled, none of which is heeded, the last is kept.         *)
Reask(slots, sc, rt) ==
  /\ asked' = {a \in asked : a.slot \notin slots} \cup
              {[a EXCEPT !.aborted = TRUE] : a \in {b \in asked : b.slot \in slots /\ ~b.aborted}} \cup
              {[slot |-> x, key |-> Key(x, sc, rt), aborted |-> FALSE] :
                 x \in {y \in slots : Key(y, sc, rt) # Nothing}}
  /\ reports' = [x \in Slots |->
                   IF x \notin slots THEN reports[x]
                   ELSE [status |-> IF Key(x, sc, rt) = Nothing THEN "idle" ELSE "loading",
                         of |-> Nothing]]

Changed(sc, rt) == {x \in Slots : Key(x, sc, rt) # Key(x, scope, route)}

(* `rest` is the lists still under way; `foreign`: a refresh of another    *)
(* project is what is shown.                                               *)
Render(sc, rt, fresh, rest, foreign) ==
  LET new == fresh \/ sc.project # scope.project
      now == IF new THEN Entered(sc) ELSE sc
  IN /\ scope' = now
     /\ route' = rt
     /\ loads' = IF new THEN Cancelled(rest) \cup LoadOf(now) ELSE rest
     /\ outlived' = (foreign \/ (outlived /\ ~new))
     /\ saved' = IF now.mounted
                 THEN [project |-> now.project, website |-> now.website, range |-> now.range]
                 ELSE saved
     /\ Reask(IF fresh THEN Slots ELSE Changed(now, rt), now, rt)
Unmount == Render(NoScope, route, TRUE, loads, FALSE)

(* Work goes on when its page is left; `here` is whether it is still shown *)
(* as busy, `alive` whether its scope is the one mounted.                  *)
Left(ws) == {[w EXCEPT !.here = FALSE] : w \in ws}
Unmounted(ws) == {[w EXCEPT !.here = FALSE, !.alive = FALSE] : w \in ws}
Leaving(rt, ws) == IF rt = route THEN ws ELSE Left(ws)

Acts == acts < MaxActs /\ acts' = acts + 1

-----------------------------------------------------------------------------
(* Connecting (App).                                                       *)

Connect(others) ==
  /\ app' = [app EXCEPT !.access = "loading"]
  /\ connects' = others \cup {[stage |-> "list", seen |-> None]}
  /\ works' = Unmounted(works)
  /\ Unmount

Alone == Cardinality(connects) + Cardinality(selects) <= 1

(* The list of environments is answered, and arrives.                      *)
AnswerList(c) ==
  /\ c.stage = "list"
  /\ connects' = (connects \ {c}) \cup {[stage |-> "listed", seen |-> service]}
  /\ UNCHANGED <<service, live, past, app, selects, unheard, screen, works, acts>>
(* Mutant: the list of environments is kept once it is there.              *)
ListArrivesOnce(c) ==
  /\ c.stage = "listed"
  /\ app' = [app EXCEPT !.label = IF @ = None THEN c.seen ELSE @]
  /\ connects' = (connects \ {c}) \cup {[stage |-> "projects", seen |-> None]}
  /\ UNCHANGED <<service, live, past, selects, unheard, screen, works, acts>>
ListArrives(c) ==
  /\ c.stage = "listed"
  /\ app' = [app EXCEPT !.label = c.seen]
  /\ connects' = (connects \ {c}) \cup {[stage |-> "projects", seen |-> None]}
  /\ UNCHANGED <<service, live, past, selects, unheard, screen, works, acts>>

(* readSaved, and the mount of ScopeProvider with the projects.            *)
Mounted(ps) ==
  {[NoScope EXCEPT !.mounted = TRUE, !.projects = ps, !.project = p, !.range = saved.range,
                   !.pending = IF saved.project = p THEN saved.website ELSE None] :
     p \in IF saved.project \in ps THEN {saved.project} ELSE IF ps = {} THEN {None} ELSE ps}

ProjectsArrive(c) ==
  /\ c.stage = "projects"
  /\ app' = [app EXCEPT !.access = "ready"]
  /\ \E sc \in Mounted(LiveProjects) : Render(sc, route, TRUE, loads, FALSE)
  /\ works' = Unmounted(works)
  /\ connects' = connects \ {c}
  /\ UNCHANGED <<service, live, past, selects, unheard, acts>>

(* Anything that fails, or a service without a backend that can be used,   *)
(* shows a page with a way to try again; the scope is unmounted.           *)
ConnectFails(c) ==
  /\ connects' = connects \ {c}
  /\ app' = [app EXCEPT !.access = "offline"]
  /\ works' = Unmounted(works)
  /\ Unmount
  /\ UNCHANGED <<service, live, past, selects, unheard, acts>>
Retry ==
  /\ app.access = "offline"
  /\ Acts
  /\ Connect(connects)
  /\ unheard' = (connects \cup selects # {})
  /\ UNCHANGED <<service, live, past, selects>>

(* The backend menu: the page reloads when the service has answered.       *)
Switch(e) ==
  /\ scope.mounted /\ e # app.label
  /\ Acts
  /\ selects' = selects \cup {[to |-> e, served |-> FALSE]}
  /\ unheard' = (unheard \/ selects # {})
  /\ UNCHANGED <<service, live, past, app, connects, screen, works>>
AnswerSelect(q) ==
  /\ ~q.served
  /\ service' = q.to
  /\ selects' = (selects \ {q}) \cup {[q EXCEPT !.served = TRUE]}
  /\ UNCHANGED <<live, past, app, connects, unheard, screen, works, acts>>
Switched(q) ==
  /\ q.served
  /\ selects' = selects \ {q}
  /\ Connect(connects)
  /\ unheard' = ~Alone
  /\ UNCHANGED <<service, live, past, acts>>
SelectFails(q) ==
  /\ selects' = selects \ {q}
  /\ unheard' = (unheard \/ q.served)
  /\ UNCHANGED <<service, live, past, app, connects, screen, works, acts>>

(* Another tab selects an environment, or the one selected cannot be used  *)
(* any more.                                                               *)
Moved(e) ==
  /\ e # service
  /\ Acts
  /\ service' = e
  /\ unheard' = TRUE
  /\ UNCHANGED <<live, past, app, selects, connects, screen, works>>

-----------------------------------------------------------------------------
(* The list of websites of the scope's effect.                             *)

AnswerLoad(l) ==
  /\ ~l.served /\ l.project \in LiveProjects
  /\ loads' = (loads \ {l}) \cup {[l EXCEPT !.served = TRUE, !.items = SitesOf(l.project)]}
  /\ UNCHANGED <<outside, scope, saved, outlived, route, reports, asked, works, acts>>

(* The remembered website is applied to the first list that arrives.       *)
Listed(sc, l) ==
  [sc EXCEPT !.sites = l.items, !.pending = None,
             !.website = IF sc.pending \in l.items THEN sc.pending ELSE @]
(* Mutant: the cancelled flag of the effect is not looked at.              *)
HeededAlways(l) == scope.mounted
Heeded(l) == ~l.cancelled
LoadArrives(l) ==
  /\ l.served
  /\ Render(IF Heeded(l) THEN Listed(scope, l) ELSE scope, route, FALSE, loads \ {l}, FALSE)
  /\ UNCHANGED <<outside, works, acts>>
LoadFails(l) ==
  /\ scope' = IF Heeded(l) THEN [scope EXCEPT !.error = TRUE] ELSE scope
  /\ loads' = loads \ {l}
  /\ UNCHANGED <<outside, saved, outlived, route, reports, asked, works, acts>>

-----------------------------------------------------------------------------
(* The person looks around.                                                *)

Look(sc, rt) ==
  /\ scope.mounted
  /\ Acts
  /\ Render(sc, rt, FALSE, loads, FALSE)
  /\ works' = Leaving(rt, works)
  /\ UNCHANGED outside

(* Pages of a website are reached from the list.                           *)
Go(rt) == rt # route /\ rt.site \in scope.sites \cup {None} /\ Look(scope, rt)

(* The project menu leaves a website's page; Projects opens the websites.  *)
SelectProject(p) ==
  /\ p \in scope.projects
  /\ p # scope.project \/ route.page = "projects"
  /\ Look([scope EXCEPT !.project = p, !.website = None],
          IF route.page \in OfSite \cup {"projects"} THEN At("websites") ELSE route)
SelectWebsite(s) ==
  /\ s # scope.website /\ s \in scope.sites \cup {None}
  /\ route.page \in Analytics
  /\ Look([scope EXCEPT !.website = s], route)
ViewAnalytics ==
  /\ route.page = "site" /\ route.site \in scope.sites
  /\ Look([scope EXCEPT !.website = route.site], At("overview"))
SetRange(r) ==
  /\ r # scope.range /\ route.page \in Analytics
  /\ Look([scope EXCEPT !.range = r], route)
RetryReport ==
  /\ route.page \in Analytics /\ reports["current"].status = "error"
  /\ Acts
  /\ Reask(Slots, scope, route)
  /\ UNCHANGED <<outside, scope, saved, loads, outlived, route, works>>

(* Mutant: the abort is not looked at when the answer is there.            *)
ShownAnyway(a) == TRUE
(* What a report's request is answered with is for what it asked; an       *)
(* aborted one may have been answered already, and is not shown.           *)
Shown(a) == ~a.aborted
AnswerReport(a) ==
  /\ asked' = asked \ {a}
  /\ \E r \in {[status |-> "ready", of |-> a.key], [status |-> "error", of |-> Nothing]} :
       /\ r.status = "ready" => a.key.project \in LiveProjects
       /\ reports' = IF Shown(a) THEN [reports EXCEPT ![a.slot] = r] ELSE reports
  /\ UNCHANGED <<outside, scope, saved, loads, outlived, route, works, acts>>

-----------------------------------------------------------------------------
(* Changes: a request, then a new list, then perhaps another page.         *)

OfProjects == {"addProject", "deleteProject", "listProjects"}
Free == scope.mounted /\ \A w \in works : ~w.here

Begin(op, p, s, stage) ==
  /\ Free
  /\ Acts
  /\ works' = works \cup {[op |-> op, project |-> p, site |-> s, stage |-> stage, items |-> {},
                           here |-> TRUE, alive |-> TRUE]}
  /\ UNCHANGED <<outside, screen>>

OnSite(op) ==
  /\ \/ op \in {"toggle", "remove"} /\ route.page = "site"
     \/ op = "save" /\ route.page = "edit"
  /\ route.site \in scope.sites
  /\ Begin(op, scope.project, route.site, "sent")
Add(s) ==
  /\ route.page = "new" /\ ProjectOf[s] = scope.project /\ s \notin live \cup past
  /\ Begin("add", scope.project, s, "sent")
Again ==
  /\ route.page \in OfSite /\ route.site \notin scope.sites /\ scope.error
  /\ Begin("again", scope.project, None, "list")
ChangeProjects(op, p) ==
  /\ route.page = "projects"
  /\ \/ op = "addProject" /\ p \notin live \cup past /\ EnvironmentOf[p] = service
     \/ op = "deleteProject" /\ p \in scope.projects
  /\ Begin(op, p, None, "sent")
RefreshProjects ==
  /\ route.page = "projects"
  /\ Begin("listProjects", None, None, "list")

(* What a change makes and deletes, if it can be made.                     *)
Made(w) == CASE w.op = "add" -> {w.site} [] w.op = "addProject" -> {w.project} [] OTHER -> {}
Removed(w) == CASE w.op = "remove" -> {w.site}
                [] w.op = "deleteProject" -> {w.project} \cup SitesOf(w.project)
                [] OTHER -> {}
Changes(made, removed) ==
  /\ live' = (live \cup made) \ removed
  /\ past' = past \cup removed
Possible(w) == IF w.op = "addProject" THEN EnvironmentOf[w.project] = service
               ELSE w.project \in LiveProjects

Step(w, v) == works' = (works \ {w}) \cup {v}

AnswerWork(w) ==
  /\ w.stage = "sent" /\ Possible(w)
  /\ Changes(Made(w), Removed(w))
  /\ Step(w, [w EXCEPT !.stage = "list"])
  /\ UNCHANGED <<service, app, selects, connects, unheard, screen, acts>>
(* refreshWebsites and listProjects, with what the handler closed over.    *)
AnswerRefresh(w) ==
  /\ w.stage = "list"
  /\ w.op \in OfProjects \/ w.project \in LiveProjects
  /\ Step(w, [w EXCEPT !.stage = "listed",
                 !.items = IF w.op \in OfProjects THEN LiveProjects ELSE SitesOf(w.project)])
  /\ UNCHANGED <<outside, screen, acts>>

(* refreshWebsites has no way to be cancelled.                             *)
Refreshed(sc, w) ==
  [sc EXCEPT !.sites = w.items, !.error = FALSE,
             !.website = IF @ \in w.items THEN @ ELSE None]
(* setProjects.                                                            *)
Reprojected(sc, w) ==
  LET with(p) == [sc EXCEPT !.projects = w.items, !.project = p,
                            !.website = IF p = sc.project THEN @ ELSE None]
  IN IF w.op = "addProject" /\ w.project \in w.items THEN {with(w.project)}
     ELSE IF sc.project \in w.items THEN {with(sc.project)}
     ELSE IF w.items = {} THEN {with(None)} ELSE {with(p) : p \in w.items}
Then(w) ==
  CASE w.op = "remove" -> At("websites")
    [] w.op = "save" -> [page |-> "site", site |-> w.site]
    [] w.op = "add" -> [page |-> "install", site |-> w.site]
    [] OTHER -> route

Foreign(w) == w.alive /\ w.op \notin OfProjects /\ w.project # scope.project
Finish(w) ==
  /\ w.stage = "listed"
  /\ \E sc \in IF ~w.alive THEN {scope}
               ELSE IF w.op \in OfProjects THEN Reprojected(scope, w) ELSE {Refreshed(scope, w)} :
       Render(sc, Then(w), FALSE, loads, Foreign(w))
  /\ works' = Leaving(Then(w), works \ {w})
  /\ UNCHANGED <<outside, acts>>

(* A change that failed may have been made; the screen keeps its lists.    *)
WorkFails(w) ==
  /\ works' = works \ {w}
  /\ \/ Changes({}, {})
     \/ w.stage = "sent" /\ Possible(w) /\ Changes(Made(w), Removed(w))
  /\ UNCHANGED <<service, app, selects, connects, unheard, screen, acts>>

(* Another computer deletes a website or a project.                        *)
Elsewhere(x) ==
  /\ x \in live
  /\ Acts
  /\ Changes({}, {x} \cup IF x \in Projects THEN SitesOf(x) ELSE {})
  /\ UNCHANGED <<service, app, selects, connects, unheard, screen, works>>

-----------------------------------------------------------------------------

Init ==
  /\ service \in Environments
  /\ live = Existing
  /\ past = {}
  /\ app = [access |-> "loading", label |-> None]
  /\ selects = {}
  /\ connects = {[stage |-> "list", seen |-> None]}
  /\ unheard = FALSE
  /\ scope = NoScope
  /\ saved = [project |-> None, website |-> None, range |-> DefaultRange]
  /\ loads = {}
  /\ works = {}
  /\ outlived = FALSE
  /\ route = At("overview")
  /\ reports = [x \in Slots |-> [status |-> "idle", of |-> Nothing]]
  /\ asked = {}
  /\ acts = 0

Connecting ==
  \/ \E c \in connects : AnswerList(c) \/ ListArrives(c) \/ ProjectsArrive(c) \/ ConnectFails(c)
  \/ Retry
  \/ \E q \in selects : AnswerSelect(q) \/ Switched(q) \/ SelectFails(q)
  \/ \E e \in Environments : Switch(e) \/ Moved(e)
Looking ==
  \/ \E rt \in Routes : Go(rt)
  \/ \E p \in Projects : SelectProject(p)
  \/ \E s \in Sites \cup {None} : SelectWebsite(s)
  \/ ViewAnalytics
  \/ \E r \in Ranges : SetRange(r)
  \/ RetryReport
Changing ==
  \/ \E op \in {"toggle", "remove", "save"} : OnSite(op)
  \/ \E s \in Sites : Add(s)
  \/ Again
  \/ \E op \in OfProjects, p \in Projects : ChangeProjects(op, p)
  \/ RefreshProjects
  \/ \E x \in Projects \cup Sites : Elsewhere(x)
Answers ==
  \/ \E l \in loads : AnswerLoad(l) \/ LoadArrives(l) \/ LoadFails(l)
  \/ \E a \in asked : AnswerReport(a)
  \/ \E w \in works : AnswerWork(w) \/ AnswerRefresh(w) \/ Finish(w) \/ WorkFails(w)

Next == Connecting \/ Looking \/ Changing \/ Answers
Spec == Init /\ [][Next]_vars

-----------------------------------------------------------------------------
(* Properties.                                                             *)

Scope == [mounted : BOOLEAN, projects : SUBSET Projects, project : Projects \cup {None},
          website : Sites \cup {None}, sites : SUBSET Sites, error : BOOLEAN,
          pending : Sites \cup {None}, range : Ranges \cup {None}]
Keys == [source : Analytics \cup {"status", None}, project : Projects \cup {None},
         website : Sites \cup {None}, range : Ranges \cup {None}]
Load == [project : Projects, items : SUBSET Sites, served : BOOLEAN, cancelled : BOOLEAN]
OfSites == {"toggle", "remove", "save", "add"}
Work == [op : OfProjects \cup OfSites \cup {"again"}, project : Projects \cup {None},
         site : Sites \cup {None}, stage : {"sent", "list", "listed"},
         items : SUBSET (Projects \cup Sites), here : BOOLEAN, alive : BOOLEAN]

(* Every variable has its type: a change of a website knows which one, and *)
(* what a list answers is websites or projects, as it was asked.           *)
TypeOK ==
  /\ service \in Environments
  /\ live \subseteq Projects \cup Sites /\ past \subseteq Projects \cup Sites
  /\ app \in [access : {"loading", "ready", "offline"}, label : Environments \cup {None}]
  /\ selects \subseteq [to : Environments, served : BOOLEAN] /\ IsFiniteSet(selects)
  /\ connects \subseteq [stage : {"list", "listed", "projects"}, seen : Environments \cup {None}]
  /\ IsFiniteSet(connects)
  /\ unheard \in BOOLEAN /\ outlived \in BOOLEAN
  /\ scope \in Scope
  /\ saved \in [project : Projects \cup {None}, website : Sites \cup {None}, range : Ranges \cup {None}]
  /\ loads \subseteq Load
  /\ works \subseteq Work
  /\ \A w \in works : /\ w.op \in OfSites => w.site \in Sites
                      /\ w.op \in {"addProject", "deleteProject"} => w.project \in Projects
                      /\ w.items \subseteq IF w.op \in OfProjects THEN Projects ELSE Sites
  /\ route \in Routes
  /\ reports \in [Slots -> [status : {"idle", "loading", "ready", "error"}, of : Keys]]
  /\ asked \subseteq [slot : Slots, key : Keys, aborted : BOOLEAN]
  /\ acts \in 0..MaxActs

(* A report that is shown is for the project, website, range and page that *)
(* the person has chosen by now, however late older answers arrive         *)
(* (AnalyticsProvider: "Only ever the result for the current scope and     *)
(* range; cleared while a new one loads").                                 *)
ReportsFollowScope ==
  \A x \in Slots : reports[x].status = "ready" => reports[x].of = Key(x, scope, route)

(* The websites listed, and the one chosen, are of the current project     *)
(* ("Websites of the current project that are not deleted"), unless a      *)
(* refresh that outlived its project brought another's (see README).       *)
ListFollowsProject ==
  \/ outlived
  \/ \A s \in scope.sites \cup ({scope.website} \ {None}) : ProjectOf[s] = scope.project

(* Once the page has connected, the environment it shows is the one the    *)
(* service works on, and the projects are that one's: what is changed here *)
(* changes there.  The selection may have moved without the page: another  *)
(* tab's choice, a lost answer, two choices at once.                       *)
RightEnvironment ==
  (app.access = "ready" /\ connects = {} /\ selects = {} /\ ~unheard) =>
     /\ app.label = service
     /\ \A p \in scope.projects : EnvironmentOf[p] = service
=============================================================================
