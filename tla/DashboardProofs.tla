-------------------------- MODULE DashboardProofs --------------------------
(***************************************************************************)
(* Proofs about Dashboard, for any number of backends, projects, websites  *)
(* and ranges, and of things the person and others do.                     *)
(*                                                                         *)
(* AskedInv: a request that is not aborted asks what its screen would ask  *)
(* now.  ListInv: a list of websites still heeded is the current project's *)
(* (and what any list or refresh brings belongs to the project it asked    *)
(* for).  EnvInv: as long as nothing moved the service's selection behind  *)
(* the page's back, at most one choice or one run of connect is under way, *)
(* and each of its stages knows the selection.                             *)
(***************************************************************************)
EXTENDS Dashboard, FiniteSetTheorems, TLAPS

AskedInv ==
  /\ ReportsFollowScope
  /\ \A a \in asked : ~a.aborted => a.key = Key(a.slot, scope, route)

Own(S, p) == \A s \in S : ProjectOf[s] = p
ListInv ==
  /\ ~outlived => Own(scope.sites, scope.project)
                  /\ (scope.website # None => ProjectOf[scope.website] = scope.project)
  /\ \A l \in loads : Own(l.items, l.project) /\ (~l.cancelled => l.project = scope.project)
  /\ \A w \in works : w.op \notin OfProjects => Own(w.items, w.project)

(* The projects of an environment, and what still may become the scope's.  *)
Of(S) == \A p \in S : EnvironmentOf[p] = service
Right ==
  app.access = "ready" =>
    /\ app.label = service /\ Of(scope.projects)
    /\ \A w \in works : w.alive /\ w.op \in OfProjects => Of(w.items)
Knows(c) ==
  /\ c.stage = "listed" => c.seen = service
  /\ c.stage = "projects" => app.label = service
Settled == connects = {} /\ selects = {} /\ Right
Chosen == connects = {} /\ \E q \in selects : selects = {q} /\ (q.served \/ Right)
Asleep == ~scope.mounted /\ app.access = "loading" /\ \A w \in works : ~w.alive
Underway == selects = {} /\ (\E c \in connects : connects = {c} /\ Knows(c)) /\ Asleep
EnvInv == ~unheard => Settled \/ Chosen \/ Underway

(***************************************************************************)
(* What a change of the scope or of the address sets off.                  *)
(***************************************************************************)
LEMMA KeyTyped ==
  ASSUME NEW sc \in Scope, NEW rt \in Routes, NEW x \in Slots
  PROVE  Key(x, sc, rt) \in Keys
<1>1. /\ sc.project \in Projects \cup {None} /\ sc.website \in Sites \cup {None}
      /\ sc.range \in Ranges \cup {None} /\ sc.sites \subseteq Sites
  BY DEF Scope
<1>2. Nothing \in Keys
  BY DEF Nothing, Keys
<1>3. CASE ~sc.mounted \/ sc.project = None
  BY <1>2, <1>3 DEF Key
<1>4. CASE ~(~sc.mounted \/ sc.project = None)
  <2>1. CASE rt.page \in Analytics /\ (x = "current" \/ rt.page = "overview")
    <3> DEFINE k == [source |-> IF rt.page = "actions" THEN "actions" ELSE "overview",
                     project |-> sc.project, website |-> sc.website, range |-> sc.range]
    <3>1. Key(x, sc, rt) = k
      BY <1>4, <2>1 DEF Key, Analytics
    <3>2. k \in Keys
      BY <1>1 DEF Keys, Analytics
    <3> QED
      BY <3>1, <3>2
  <2>2. CASE x = "current" /\ rt.page = "site" /\ rt.site \in sc.sites
    <3> DEFINE k == [source |-> "status", project |-> sc.project, website |-> rt.site, range |-> None]
    <3>1. Key(x, sc, rt) = k
      BY <1>4, <2>2 DEF Key, Analytics
    <3>2. k \in Keys
      BY <1>1, <2>2 DEF Keys
    <3> QED
      BY <3>1, <3>2
  <2>3. CASE /\ ~(rt.page \in Analytics /\ (x = "current" \/ rt.page = "overview"))
             /\ ~(x = "current" /\ rt.page = "site" /\ rt.site \in sc.sites)
    BY <1>2, <1>4, <2>3 DEF Key
  <2> QED
    BY <2>1, <2>2, <2>3
<1> QED
  BY <1>3, <1>4

(* Only what it asks of the scope counts for a report's key.               *)
LEMMA KeyOf ==
  ASSUME NEW sc, NEW d, NEW rt, NEW x,
         d.mounted = sc.mounted, d.project = sc.project, d.website = sc.website,
         d.sites = sc.sites, d.range = sc.range
  PROVE  Key(x, d, rt) = Key(x, sc, rt)
  BY DEF Key

AskedTyped == asked \subseteq [slot : Slots, key : Keys, aborted : BOOLEAN]
ReportsTyped == reports \in [Slots -> [status : {"idle", "loading", "ready", "error"}, of : Keys]]

LEMMA Reasks ==
  ASSUME TypeOK, NEW slots \in SUBSET Slots, NEW sc \in Scope, NEW rt \in Routes, Reask(slots, sc, rt)
  PROVE  /\ AskedTyped' /\ ReportsTyped'
         /\ \A x \in Slots \ slots : reports'[x] = reports[x]
         /\ \A x \in slots : reports'[x].status # "ready"
         /\ \A a \in asked' : ~a.aborted =>
              \/ a \in asked /\ a.slot \notin slots
              \/ a.slot \in slots /\ a.key = Key(a.slot, sc, rt)
<1> DEFINE kept == {a \in asked : a.slot \notin slots}
           gone == {[a EXCEPT !.aborted = TRUE] : a \in {b \in asked : b.slot \in slots /\ ~b.aborted}}
           new == {[slot |-> x, key |-> Key(x, sc, rt), aborted |-> FALSE] :
                     x \in {y \in slots : Key(y, sc, rt) # Nothing}}
<1>1. asked' = kept \cup gone \cup new
  BY DEF Reask
<1>2. \A a \in gone : a \in [slot : Slots, key : Keys, aborted : BOOLEAN] /\ a.aborted = TRUE
  <2> TAKE a \in gone
  <2>1. PICK b \in asked : a = [b EXCEPT !.aborted = TRUE]
    OBVIOUS
  <2>2. b \in [slot : Slots, key : Keys, aborted : BOOLEAN]
    BY DEF TypeOK
  <2> QED
    BY <2>1, <2>2
<1>3. \A a \in new : /\ a \in [slot : Slots, key : Keys, aborted : BOOLEAN]
                     /\ a.slot \in slots /\ a.key = Key(a.slot, sc, rt)
  <2> TAKE a \in new
  <2>1. PICK x \in slots : a = [slot |-> x, key |-> Key(x, sc, rt), aborted |-> FALSE]
    OBVIOUS
  <2>2. Key(x, sc, rt) \in Keys
    BY KeyTyped
  <2> QED
    BY <2>1, <2>2
<1>4. \A a \in kept : a \in [slot : Slots, key : Keys, aborted : BOOLEAN] /\ a \in asked /\ a.slot \notin slots
  BY DEF TypeOK
<1> HIDE DEF kept, gone, new
<1>5. AskedTyped'
  BY <1>1, <1>2, <1>3, <1>4 DEF AskedTyped
<1>6. \A a \in asked' : ~a.aborted =>
        \/ a \in asked /\ a.slot \notin slots
        \/ a.slot \in slots /\ a.key = Key(a.slot, sc, rt)
  BY <1>1, <1>2, <1>3, <1>4
<1> DEFINE r(x) == IF x \notin slots THEN reports[x]
                   ELSE [status |-> IF Key(x, sc, rt) = Nothing THEN "idle" ELSE "loading", of |-> Nothing]
<1>7. reports' = [x \in Slots |-> r(x)]
  BY DEF Reask
<1>8. \A x \in Slots : r(x) \in [status : {"idle", "loading", "ready", "error"}, of : Keys]
  <2>1. Nothing \in Keys
    BY DEF Nothing, Keys
  <2> QED
    BY <2>1 DEF TypeOK
<1>9. /\ \A x \in Slots \ slots : r(x) = reports[x]
      /\ \A x \in slots : r(x).status # "ready"
  OBVIOUS
<1> HIDE DEF r
<1>10. ReportsTyped' /\ \A x \in Slots : reports'[x] = r(x)
  BY <1>7, <1>8 DEF ReportsTyped
<1> QED
  BY <1>5, <1>6, <1>9, <1>10

(* The scope a change leads to.                                            *)
New(sc, fresh) == fresh \/ sc.project # scope.project
Now(sc, fresh) == IF New(sc, fresh) THEN Entered(sc) ELSE sc

LEMMA EnteredTyped ==
  ASSUME NEW sc \in Scope
  PROVE  /\ Entered(sc) \in Scope /\ Entered(sc).sites = {}
         /\ Entered(sc).mounted = sc.mounted /\ Entered(sc).project = sc.project
         /\ Entered(sc).website = sc.website /\ Entered(sc).projects = sc.projects
  BY DEF Entered, Scope

LEMMA CancelledTyped ==
  ASSUME NEW ls \in SUBSET Load
  PROVE  /\ Cancelled(ls) \subseteq Load
         /\ \A l \in Cancelled(ls) : l.cancelled = TRUE /\ \E x \in ls : l.items = x.items /\ l.project = x.project
  BY DEF Cancelled, Load

LEMMA LoadTyped ==
  ASSUME NEW sc \in Scope
  PROVE  LoadOf(sc) \subseteq Load /\ \A l \in LoadOf(sc) : l.items = {} /\ l.project = sc.project
<1> DEFINE l == [project |-> sc.project, items |-> {}, served |-> FALSE, cancelled |-> FALSE]
<1>1. LoadOf(sc) = {} \/ (sc.project # None /\ LoadOf(sc) = {l})
  BY DEF LoadOf
<1>2. sc.project # None => l \in Load
  BY DEF Load, Scope
<1>3. l.items = {} /\ l.project = sc.project
  OBVIOUS
<1> HIDE DEF l
<1> QED
  BY <1>1, <1>2, <1>3

ScreenTyped ==
  /\ scope \in Scope /\ route \in Routes /\ loads \subseteq Load /\ outlived \in BOOLEAN
  /\ saved \in [project : Projects \cup {None}, website : Sites \cup {None}, range : Ranges \cup {None}]
  /\ AskedTyped /\ ReportsTyped

LEMMA Renders ==
  ASSUME TypeOK, NEW sc \in Scope, NEW rt \in Routes, NEW fresh \in BOOLEAN,
         NEW rest \in SUBSET Load, NEW foreign \in BOOLEAN, Render(sc, rt, fresh, rest, foreign)
  PROVE  /\ scope' = Now(sc, fresh) /\ scope' \in Scope /\ route' = rt
         /\ scope'.mounted = sc.mounted /\ scope'.project = sc.project
         /\ scope'.website = sc.website /\ scope'.projects = sc.projects
         /\ scope'.sites = IF New(sc, fresh) THEN {} ELSE sc.sites
         /\ loads' \subseteq Load
         /\ loads' = IF New(sc, fresh) THEN Cancelled(rest) \cup LoadOf(scope') ELSE rest
         /\ outlived' \in BOOLEAN /\ (~outlived' => ~foreign /\ (New(sc, fresh) \/ ~outlived))
         /\ saved' \in [project : Projects \cup {None}, website : Sites \cup {None}, range : Ranges \cup {None}]
         /\ Reask(IF fresh THEN Slots ELSE Changed(Now(sc, fresh), rt), Now(sc, fresh), rt)
         /\ ScreenTyped'
<1> DEFINE new == New(sc, fresh)
           now == Now(sc, fresh)
<1>1. /\ scope' = now /\ route' = rt
      /\ loads' = IF new THEN Cancelled(rest) \cup LoadOf(now) ELSE rest
      /\ outlived' = (foreign \/ (outlived /\ ~new))
      /\ saved' = IF now.mounted THEN [project |-> now.project, website |-> now.website, range |-> now.range]
                  ELSE saved
      /\ Reask(IF fresh THEN Slots ELSE Changed(now, rt), now, rt)
  BY DEF Render, New, Now
<1>2. /\ now \in Scope /\ now.mounted = sc.mounted /\ now.project = sc.project
      /\ now.website = sc.website /\ now.projects = sc.projects
      /\ now.sites = IF new THEN {} ELSE sc.sites
  BY EnteredTyped DEF Now
<1> HIDE DEF new, now
<1>3. loads' \subseteq Load
  BY <1>1, <1>2, CancelledTyped, LoadTyped
<1>4. outlived' \in BOOLEAN /\ (~outlived' => ~foreign /\ (new \/ ~outlived))
  BY <1>1
<1>5. saved' \in [project : Projects \cup {None}, website : Sites \cup {None}, range : Ranges \cup {None}]
  BY <1>1, <1>2 DEF TypeOK, Scope
<1>6. AskedTyped' /\ ReportsTyped'
  <2> DEFINE slots == IF fresh THEN Slots ELSE Changed(now, rt)
  <2>1. slots \in SUBSET Slots /\ Reask(slots, now, rt)
    BY <1>1 DEF Changed
  <2> HIDE DEF slots
  <2> QED
    BY <1>2, <2>1, Reasks
<1>7. ScreenTyped'
  BY <1>1, <1>2, <1>3, <1>4, <1>5, <1>6 DEF ScreenTyped
<1> QED
  BY <1>1, <1>2, <1>3, <1>4, <1>5, <1>7 DEF new, now

(* No report and no request is left that the new scope would not ask for.  *)
LEMMA RenderAsks ==
  ASSUME TypeOK, AskedInv, NEW sc \in Scope, NEW rt \in Routes, NEW fresh \in BOOLEAN,
         NEW rest \in SUBSET Load, NEW foreign \in BOOLEAN, Render(sc, rt, fresh, rest, foreign)
  PROVE  AskedInv' /\ AskedTyped' /\ ReportsTyped'
<1> DEFINE now == Now(sc, fresh)
           slots == IF fresh THEN Slots ELSE Changed(now, rt)
<1>1. scope' = now /\ now \in Scope /\ route' = rt /\ Reask(slots, now, rt)
  BY Renders
<1>2. slots \in SUBSET Slots /\ \A x \in Slots \ slots : Key(x, now, rt) = Key(x, scope, route)
  BY DEF Changed
<1> HIDE DEF now, slots
<1>3. /\ AskedTyped' /\ ReportsTyped'
      /\ \A x \in Slots \ slots : reports'[x] = reports[x]
      /\ \A x \in slots : reports'[x].status # "ready"
      /\ \A a \in asked' : ~a.aborted =>
           \/ a \in asked /\ a.slot \notin slots
           \/ a.slot \in slots /\ a.key = Key(a.slot, now, rt)
  BY <1>1, <1>2, Reasks
<1>4. \A x \in Slots : reports'[x].status = "ready" => reports'[x].of = Key(x, now, rt)
  BY <1>2, <1>3 DEF AskedInv, ReportsFollowScope
<1>5. \A a \in asked' : ~a.aborted => a.key = Key(a.slot, now, rt)
  BY <1>2, <1>3 DEF AskedInv, AskedTyped, TypeOK
<1> QED
  BY <1>1, <1>3, <1>4, <1>5 DEF AskedInv, ReportsFollowScope

(***************************************************************************)
(* Types, in three parts.                                                  *)
(***************************************************************************)
WorkOk(w) ==
  /\ w \in Work
  /\ w.op \in OfSites => w.site \in Sites
  /\ w.op \in {"addProject", "deleteProject"} => w.project \in Projects
  /\ w.items \subseteq IF w.op \in OfProjects THEN Projects ELSE Sites
WorksOk(ws) == \A w \in ws : WorkOk(w)
OutsideTyped ==
  /\ service \in Environments
  /\ live \subseteq Projects \cup Sites /\ past \subseteq Projects \cup Sites
  /\ app \in [access : {"loading", "ready", "offline"}, label : Environments \cup {None}]
  /\ selects \subseteq [to : Environments, served : BOOLEAN] /\ IsFiniteSet(selects)
  /\ connects \subseteq [stage : {"list", "listed", "projects"}, seen : Environments \cup {None}]
  /\ IsFiniteSet(connects)
  /\ unheard \in BOOLEAN

LEMMA TypeParts ==
  TypeOK <=> OutsideTyped /\ ScreenTyped /\ WorksOk(works) /\ acts \in 0..MaxActs
  BY DEF TypeOK, OutsideTyped, ScreenTyped, WorksOk, WorkOk, AskedTyped, ReportsTyped

LEMMA TypePartsNext ==
  TypeOK' <=> OutsideTyped' /\ ScreenTyped' /\ WorksOk(works') /\ acts' \in 0..MaxActs
  BY DEF TypeOK, OutsideTyped, ScreenTyped, WorksOk, WorkOk, AskedTyped, ReportsTyped

LEMMA ScreenKept == ScreenTyped /\ UNCHANGED screen => ScreenTyped'
  BY DEF ScreenTyped, screen, AskedTyped, ReportsTyped

LEMMA OutsideKept == OutsideTyped /\ UNCHANGED outside => OutsideTyped'
  BY DEF OutsideTyped, outside

LEMMA ActsTyped == ASSUME TypeOK, Acts PROVE acts' \in 0..MaxActs
  BY DashboardBounds DEF TypeOK, Acts

(* Work whose page or whose scope is left.                                 *)
Alike(v, w) == v.op = w.op /\ v.project = w.project /\ v.items = w.items

LEMMA LeftOk ==
  ASSUME NEW ws, WorksOk(ws)
  PROVE  /\ WorksOk(Left(ws)) /\ WorksOk(Unmounted(ws))
         /\ \A v \in Left(ws) : \E w \in ws : Alike(v, w) /\ v.alive = w.alive
         /\ \A v \in Unmounted(ws) : ~v.alive /\ \E w \in ws : Alike(v, w)
<1>1. ASSUME NEW w \in ws
      PROVE  LET v == [w EXCEPT !.here = FALSE] IN WorkOk(v) /\ Alike(v, w) /\ v.alive = w.alive
  <2>1. WorkOk(w)
    BY DEF WorksOk
  <2> QED
    BY <2>1 DEF WorkOk, Alike, Work
<1>2. ASSUME NEW w \in ws
      PROVE  LET v == [w EXCEPT !.here = FALSE, !.alive = FALSE] IN WorkOk(v) /\ Alike(v, w) /\ v.alive = FALSE
  <2>1. WorkOk(w)
    BY DEF WorksOk
  <2> QED
    BY <2>1 DEF WorkOk, Alike, Work
<1>3. \A v \in Left(ws) : WorkOk(v) /\ \E w \in ws : Alike(v, w) /\ v.alive = w.alive
  BY <1>1 DEF Left
<1>4. \A v \in Unmounted(ws) : WorkOk(v) /\ v.alive = FALSE /\ \E w \in ws : Alike(v, w)
  BY <1>2 DEF Unmounted
<1> QED
  BY <1>3, <1>4 DEF WorksOk

LEMMA LeavingOk ==
  ASSUME NEW ws, WorksOk(ws), NEW rt
  PROVE  /\ WorksOk(Leaving(rt, ws))
         /\ \A v \in Leaving(rt, ws) : \E w \in ws : Alike(v, w) /\ v.alive = w.alive
  BY LeftOk DEF Leaving, Alike

(* The scope before a page has connected, and the one it connects to.      *)
LEMMA NoScopeTyped ==
  /\ NoScope \in Scope /\ NoScope.mounted = FALSE /\ NoScope.website = None
  /\ NoScope.projects = {} /\ NoScope.sites = {}
  BY DEF NoScope, Scope

LEMMA MountedTyped ==
  ASSUME TypeOK, NEW ps \in SUBSET Projects, NEW sc \in Mounted(ps)
  PROVE  sc \in Scope /\ sc.mounted = TRUE /\ sc.projects = ps /\ sc.website = None /\ sc.sites = {}
<1>1. PICK p \in Projects \cup {None} :
        sc = [NoScope EXCEPT !.mounted = TRUE, !.projects = ps, !.project = p, !.range = saved.range,
                             !.pending = IF saved.project = p THEN saved.website ELSE None]
  BY DEF Mounted
<1> DEFINE pending == IF saved.project = p THEN saved.website ELSE None
           range == saved.range
<1>2. pending \in Sites \cup {None} /\ range \in Ranges \cup {None}
  BY DEF TypeOK
<1>3. sc = [NoScope EXCEPT !.mounted = TRUE, !.projects = ps, !.project = p, !.range = range,
                           !.pending = pending]
  BY <1>1
<1> HIDE DEF pending, range
<1> QED
  BY <1>2, <1>3 DEF NoScope, Scope

(* The page connects anew: nothing of the scope before is left.            *)
LEMMA Unmounts ==
  ASSUME TypeOK, Unmount
  PROVE  /\ ScreenTyped' /\ scope'.mounted = FALSE /\ scope'.projects = {}
         /\ Render(NoScope, route, TRUE, loads, FALSE)
<1>1. /\ NoScope \in Scope /\ NoScope.mounted = FALSE /\ NoScope.projects = {}
      /\ route \in Routes /\ loads \in SUBSET Load
  BY NoScopeTyped DEF TypeOK
<1>2. Render(NoScope, route, TRUE, loads, FALSE)
  BY DEF Unmount
<1> QED
  BY <1>1, <1>2, Renders

(* The person goes somewhere: a scope like the one there is, but of        *)
(* another project, website or range.                                      *)
Near(sc) ==
  /\ sc.mounted = scope.mounted /\ sc.projects = scope.projects /\ sc.sites = scope.sites
  /\ \/ sc.website = None
     \/ sc.project = scope.project /\ sc.website \in scope.sites
     \/ sc.project = scope.project /\ sc.website = scope.website

LEMMA Looks ==
  ASSUME TypeOK, Looking, ~RetryReport
  PROVE  \E sc \in Scope, rt \in Routes : Look(sc, rt) /\ Near(sc)
<1>1. scope \in Scope /\ route \in Routes
  BY DEF TypeOK
<1>2. At("websites") \in Routes /\ At("overview") \in Routes
  BY DEF At, Routes, Plain, Analytics
<1>3. CASE \E rt \in Routes : Go(rt)
  BY <1>1, <1>3 DEF Go, Near
<1>4. CASE \E p \in Projects : SelectProject(p)
  <2>1. PICK p \in Projects : SelectProject(p)
    BY <1>4
  <2> DEFINE sc == [scope EXCEPT !.project = p, !.website = None]
             rt == IF route.page \in OfSite \cup {"projects"} THEN At("websites") ELSE route
  <2>2. Look(sc, rt)
    BY <2>1 DEF SelectProject
  <2>3. sc \in Scope /\ Near(sc)
    BY <1>1 DEF Scope, Near
  <2>4. rt \in Routes
    BY <1>1, <1>2
  <2> QED
    BY <2>2, <2>3, <2>4
<1>5. CASE \E s \in Sites \cup {None} : SelectWebsite(s)
  <2>1. PICK s \in Sites \cup {None} : SelectWebsite(s)
    BY <1>5
  <2> DEFINE sc == [scope EXCEPT !.website = s]
  <2>2. Look(sc, route) /\ s \in scope.sites \cup {None}
    BY <2>1 DEF SelectWebsite
  <2>3. sc \in Scope /\ Near(sc)
    BY <1>1, <2>2 DEF Scope, Near
  <2> QED
    BY <1>1, <2>2, <2>3
<1>6. CASE ViewAnalytics
  <2> DEFINE sc == [scope EXCEPT !.website = route.site]
  <2>1. Look(sc, At("overview")) /\ route.site \in scope.sites
    BY <1>6 DEF ViewAnalytics
  <2>2. sc \in Scope /\ Near(sc)
    BY <1>1, <2>1 DEF Scope, Near
  <2> QED
    BY <1>2, <2>1, <2>2
<1>7. CASE \E r \in Ranges : SetRange(r)
  <2>1. PICK r \in Ranges : SetRange(r)
    BY <1>7
  <2> DEFINE sc == [scope EXCEPT !.range = r]
  <2>2. Look(sc, route)
    BY <2>1 DEF SetRange
  <2>3. sc \in Scope /\ Near(sc)
    BY <1>1 DEF Scope, Near
  <2> QED
    BY <1>1, <2>2, <2>3
<1> QED
  BY <1>3, <1>4, <1>5, <1>6, <1>7 DEF Looking

(* A list of websites arrives, or a change has its new list.               *)
LEMMA Lists ==
  ASSUME TypeOK, NEW l \in loads, LoadArrives(l)
  PROVE  \E sc \in Scope :
           /\ Render(sc, route, FALSE, loads \ {l}, FALSE)
           /\ sc.mounted = scope.mounted /\ sc.projects = scope.projects /\ sc.project = scope.project
           /\ \/ sc.sites = scope.sites /\ sc.website = scope.website
              \/ ~l.cancelled /\ sc.sites = l.items /\ sc.website \in l.items \cup {scope.website}
           /\ UNCHANGED <<outside, works, acts>>
<1>1. scope \in Scope /\ l \in Load
  BY DEF TypeOK
<1>2. /\ Render(IF Heeded(l) THEN Listed(scope, l) ELSE scope, route, FALSE, loads \ {l}, FALSE)
      /\ UNCHANGED <<outside, works, acts>>
  BY DEF LoadArrives
<1>3. CASE Heeded(l)
  <2> DEFINE items == l.items
             site == IF scope.pending \in items THEN scope.pending ELSE scope.website
             sc == [scope EXCEPT !.sites = items, !.pending = None, !.website = site]
  <2>1. Listed(scope, l) = sc
    BY <1>1 DEF Listed, Scope
  <2>2. items \in SUBSET Sites /\ site \in Sites \cup {None} /\ site \in items \cup {scope.website}
    BY <1>1 DEF Load, Scope
  <2> HIDE DEF site, items
  <2>3. /\ sc \in Scope /\ sc.mounted = scope.mounted /\ sc.projects = scope.projects
        /\ sc.project = scope.project /\ sc.sites = items /\ sc.website = site
    BY <1>1, <2>2 DEF Scope
  <2> HIDE DEF sc
  <2>4. Render(sc, route, FALSE, loads \ {l}, FALSE) /\ ~l.cancelled
    BY <1>2, <1>3, <2>1 DEF Heeded
  <2> QED
    BY <1>2, <2>2, <2>3, <2>4 DEF items
<1>4. CASE ~Heeded(l)
  BY <1>1, <1>2, <1>4
<1> QED
  BY <1>3, <1>4

LEMMA Finishes ==
  ASSUME TypeOK, NEW w \in works, Finish(w)
  PROVE  \E sc \in Scope, rt \in Routes, foreign \in BOOLEAN :
           /\ Render(sc, rt, FALSE, loads, foreign)
           /\ works' = Leaving(rt, works \ {w}) /\ UNCHANGED <<outside, acts>>
           /\ sc.mounted = scope.mounted
           /\ \/ sc = scope
              \/ /\ w.alive /\ w.op \in OfProjects /\ sc.projects = w.items /\ sc.sites = scope.sites
                 /\ sc.website = IF sc.project = scope.project THEN scope.website ELSE None
              \/ /\ w.op \notin OfProjects /\ (foreign \/ w.project = scope.project)
                 /\ sc.projects = scope.projects /\ sc.project = scope.project
                 /\ sc.sites = w.items /\ (sc.website = None \/ sc.website \in w.items)
<1>1. scope \in Scope /\ WorkOk(w)
  BY DEF TypeOK, WorkOk
<1> DEFINE rt == Then(w)
           foreign == Foreign(w)
<1>2. rt \in Routes
  <2>1. CASE w.op = "remove"
    BY <2>1 DEF Then, At, Routes, Plain
  <2>2. CASE w.op \in {"save", "add"}
    <3>1. w.site \in Sites
      BY <1>1, <2>2 DEF WorkOk, OfSites
    <3> QED
      BY <2>2, <3>1 DEF Then, Routes, OfSite
  <2>3. CASE w.op \notin {"remove", "save", "add"}
    BY <2>3 DEF Then, TypeOK
  <2> QED
    BY <2>1, <2>2, <2>3
<1>3. foreign \in BOOLEAN /\ (w.alive /\ w.op \notin OfProjects => foreign \/ w.project = scope.project)
  BY DEF Foreign
<1>4. PICK sc \in IF ~w.alive THEN {scope}
                  ELSE IF w.op \in OfProjects THEN Reprojected(scope, w) ELSE {Refreshed(scope, w)} :
        Render(sc, rt, FALSE, loads, foreign)
  BY DEF Finish
<1>5. works' = Leaving(rt, works \ {w}) /\ UNCHANGED <<outside, acts>>
  BY DEF Finish
<1> HIDE DEF rt, foreign
<1>6. CASE ~w.alive
  <2>1. sc = scope
    BY <1>6
  <2> QED
    BY <1>1, <1>2, <1>3, <1>4, <1>5, <2>1
<1>7. CASE w.alive /\ w.op \in OfProjects
  <2>1. sc \in Reprojected(scope, w)
    BY <1>4, <1>7
  <2> DEFINE items == w.items
  <2>2. PICK p \in items \cup {None, scope.project} :
          sc = [scope EXCEPT !.projects = items, !.project = p,
                             !.website = IF p = scope.project THEN @ ELSE None]
    BY <2>1 DEF Reprojected
  <2> DEFINE site == IF p = scope.project THEN scope.website ELSE None
  <2>3. items \in SUBSET Projects /\ p \in Projects \cup {None} /\ site \in Sites \cup {None}
    BY <1>1, <1>7 DEF WorkOk, Scope
  <2>4. sc = [scope EXCEPT !.projects = items, !.project = p, !.website = site]
    BY <1>1, <2>2 DEF Scope
  <2>5. site = IF p = scope.project THEN scope.website ELSE None
    OBVIOUS
  <2> HIDE DEF items, site
  <2>6. /\ sc \in Scope /\ sc.mounted = scope.mounted /\ sc.projects = items /\ sc.project = p
        /\ sc.sites = scope.sites /\ sc.website = site
    BY <1>1, <2>3, <2>4 DEF Scope
  <2> QED
    BY <1>2, <1>3, <1>4, <1>5, <1>7, <2>5, <2>6 DEF items
<1>8. CASE w.alive /\ w.op \notin OfProjects
  <2> DEFINE items == w.items
             site == IF scope.website \in items THEN scope.website ELSE None
  <2>1. sc = [scope EXCEPT !.sites = items, !.error = FALSE, !.website = site]
    BY <1>1, <1>4, <1>8 DEF Refreshed, Scope
  <2>2. items \in SUBSET Sites /\ site \in Sites \cup {None} /\ (site = None \/ site \in items)
    BY <1>1, <1>8 DEF WorkOk, Scope
  <2> HIDE DEF items, site
  <2>3. /\ sc \in Scope /\ sc.mounted = scope.mounted /\ sc.projects = scope.projects
        /\ sc.project = scope.project /\ sc.sites = items /\ sc.website = site
    BY <1>1, <2>1, <2>2 DEF Scope
  <2> QED
    BY <1>2, <1>3, <1>4, <1>5, <1>8, <2>2, <2>3 DEF items
<1> QED
  BY <1>6, <1>7, <1>8

(* Work that begins, or goes a step on.                                    *)
LEMMA Begins ==
  ASSUME TypeOK, NEW op \in OfProjects \cup OfSites \cup {"again"}, NEW p \in Projects \cup {None},
         NEW s \in Sites \cup {None}, op \in OfSites => s \in Sites,
         op \in {"addProject", "deleteProject"} => p \in Projects,
         NEW stage \in {"sent", "list"}, Begin(op, p, s, stage)
  PROVE  /\ scope.mounted /\ UNCHANGED <<outside, screen>> /\ acts' \in 0..MaxActs
         /\ \E v : WorkOk(v) /\ v.items = {} /\ works' = works \cup {v}
<1> DEFINE v == [op |-> op, project |-> p, site |-> s, stage |-> stage, items |-> {},
                 here |-> TRUE, alive |-> TRUE]
<1>1. works' = works \cup {v} /\ scope.mounted /\ UNCHANGED <<outside, screen>> /\ acts' \in 0..MaxActs
  BY ActsTyped DEF Begin, Free
<1>2. WorkOk(v) /\ v.items = {}
  BY DEF WorkOk, Work
<1> HIDE DEF v
<1> QED
  BY <1>1, <1>2

LEMMA ChangesBegin ==
  ASSUME TypeOK, Changing
  PROVE  /\ acts' \in 0..MaxActs /\ UNCHANGED <<service, app, selects, connects, unheard, screen>>
         /\ \/ /\ scope.mounted /\ UNCHANGED outside
               /\ \E v : WorkOk(v) /\ v.items = {} /\ works' = works \cup {v}
            \/ /\ works' = works
               /\ live' \subseteq Projects \cup Sites /\ past' \subseteq Projects \cup Sites
<1>1. /\ route \in Routes /\ scope.project \in Projects \cup {None} /\ scope.sites \subseteq Sites
      /\ scope.projects \subseteq Projects
  BY DEF TypeOK, Scope
<1>2. CASE \E op \in {"toggle", "remove", "save"} : OnSite(op)
  <2>1. PICK op \in {"toggle", "remove", "save"} : OnSite(op)
    BY <1>2
  <2>2. Begin(op, scope.project, route.site, "sent") /\ route.site \in Sites
    BY <1>1, <2>1 DEF OnSite
  <2> QED
    BY <1>1, <2>2, Begins DEF OfSites, outside
<1>3. CASE \E s \in Sites : Add(s)
  BY <1>1, <1>3, Begins DEF Add, OfSites, outside
<1>4. CASE Again \/ RefreshProjects
  BY <1>1, <1>4, Begins DEF Again, RefreshProjects, OfSites, OfProjects, outside
<1>5. CASE \E op \in OfProjects, p \in Projects : ChangeProjects(op, p)
  <2>1. PICK op \in OfProjects, p \in Projects : ChangeProjects(op, p)
    BY <1>5
  <2>2. Begin(op, p, None, "sent") /\ op \notin OfSites
    BY <2>1 DEF ChangeProjects, OfProjects, OfSites
  <2> QED
    BY <2>2, Begins DEF outside
<1>6. CASE \E x \in Projects \cup Sites : Elsewhere(x)
  <2>1. PICK x \in Projects \cup Sites : Elsewhere(x)
    BY <1>6
  <2> DEFINE gone == {x} \cup IF x \in Projects THEN SitesOf(x) ELSE {}
  <2>2. gone \subseteq Projects \cup Sites
    BY DEF SitesOf
  <2>3. Changes({}, gone) /\ UNCHANGED <<service, app, selects, connects, unheard, screen, works>>
    BY <2>1 DEF Elsewhere
  <2>4. acts' \in 0..MaxActs
    BY <2>1, ActsTyped DEF Elsewhere
  <2> HIDE DEF gone
  <2>5. live' \subseteq Projects \cup Sites /\ past' \subseteq Projects \cup Sites
    BY <2>2, <2>3 DEF Changes, TypeOK
  <2> QED
    BY <2>3, <2>4, <2>5
<1> QED
  BY <1>2, <1>3, <1>4, <1>5, <1>6 DEF Changing

LEMMA AnswersWork ==
  ASSUME TypeOK, NEW w \in works, AnswerWork(w) \/ WorkFails(w)
  PROVE  /\ UNCHANGED <<service, app, selects, connects, unheard, screen, acts>>
         /\ live' \subseteq Projects \cup Sites /\ past' \subseteq Projects \cup Sites
         /\ \/ works' = works \ {w}
            \/ \E v : /\ WorkOk(v) /\ Alike(v, w) /\ v.alive = w.alive
                      /\ works' = (works \ {w}) \cup {v}
<1>1. WorkOk(w)
  BY DEF TypeOK, WorkOk
<1> DEFINE made == Made(w)
           removed == Removed(w)
<1>2. /\ UNCHANGED <<service, app, selects, connects, unheard, screen, acts>>
      /\ Changes(made, removed) \/ Changes({}, {})
  BY DEF AnswerWork, WorkFails
<1>3. made \subseteq Projects \cup Sites
  BY <1>1 DEF WorkOk, Made, OfSites
<1>4. removed \subseteq Projects \cup Sites
  <2>1. SitesOf(w.project) \subseteq Sites
    BY DEF SitesOf
  <2> QED
    BY <1>1, <2>1 DEF WorkOk, Removed, OfSites
<1> HIDE DEF made, removed
<1>5. live' \subseteq Projects \cup Sites /\ past' \subseteq Projects \cup Sites
  BY <1>2, <1>3, <1>4 DEF Changes, TypeOK
<1>6. CASE AnswerWork(w)
  <2> DEFINE v == [w EXCEPT !.stage = "list"]
  <2>1. works' = (works \ {w}) \cup {v}
    BY <1>6 DEF AnswerWork, Step
  <2>2. WorkOk(v) /\ Alike(v, w) /\ v.alive = w.alive
    BY <1>1 DEF WorkOk, Work, Alike
  <2> HIDE DEF v
  <2> QED
    BY <1>2, <1>5, <2>1, <2>2
<1>7. CASE WorkFails(w)
  BY <1>2, <1>5, <1>7 DEF WorkFails
<1> QED
  BY <1>6, <1>7

LEMMA AnswersRefresh ==
  ASSUME TypeOK, NEW w \in works, AnswerRefresh(w)
  PROVE  /\ UNCHANGED <<outside, screen, acts>>
         /\ \E v : /\ WorkOk(v) /\ v.op = w.op /\ v.project = w.project /\ v.alive = w.alive
                   /\ v.items = IF w.op \in OfProjects THEN LiveProjects ELSE SitesOf(w.project)
                   /\ works' = (works \ {w}) \cup {v}
<1>1. WorkOk(w)
  BY DEF TypeOK, WorkOk
<1> DEFINE items == IF w.op \in OfProjects THEN LiveProjects ELSE SitesOf(w.project)
           v == [w EXCEPT !.stage = "listed", !.items = items]
<1>2. works' = (works \ {w}) \cup {v} /\ UNCHANGED <<outside, screen, acts>>
  BY DEF AnswerRefresh, Step
<1>3. items \subseteq IF w.op \in OfProjects THEN Projects ELSE Sites
  BY DEF LiveProjects, SitesOf
<1>4. items = IF w.op \in OfProjects THEN LiveProjects ELSE SitesOf(w.project)
  OBVIOUS
<1> HIDE DEF items
<1>5. v \in Work /\ v.op = w.op /\ v.project = w.project /\ v.site = w.site /\ v.alive = w.alive /\ v.items = items
  BY <1>1, <1>3 DEF WorkOk, Work
<1> HIDE DEF v
<1>6. WorkOk(v)
  BY <1>1, <1>3, <1>5 DEF WorkOk
<1> QED
  BY <1>2, <1>4, <1>5, <1>6

(* Choosing an environment, and connecting to it.                          *)
LEMMA OneMore ==
  ASSUME NEW S, IsFiniteSet(S), NEW x, NEW y
  PROVE  IsFiniteSet(S \ {x}) /\ IsFiniteSet((S \ {x}) \cup {y})
  BY FS_AddElement, FS_RemoveElement

LEMMA ConnectsTyped ==
  ASSUME TypeOK, NEW others, others \subseteq connects, IsFiniteSet(others), Connect(others)
  PROVE  /\ Unmount /\ ScreenTyped' /\ scope'.mounted = FALSE /\ WorksOk(works')
         /\ \A w \in works' : ~w.alive
         /\ app' = [app EXCEPT !.access = "loading"]
         /\ app' \in [access : {"loading", "ready", "offline"}, label : Environments \cup {None}]
         /\ app'.access = "loading"
         /\ connects' = others \cup {[stage |-> "list", seen |-> None]}
         /\ connects' \subseteq [stage : {"list", "listed", "projects"}, seen : Environments \cup {None}]
         /\ IsFiniteSet(connects')
<1>1. /\ app' = [app EXCEPT !.access = "loading"] /\ works' = Unmounted(works) /\ Unmount
      /\ connects' = others \cup {[stage |-> "list", seen |-> None]}
  BY DEF Connect
<1>2. ScreenTyped' /\ scope'.mounted = FALSE
  BY <1>1, Unmounts
<1>3. WorksOk(works)
  BY TypeParts
<1>4. WorksOk(works') /\ \A w \in works' : ~w.alive
  BY <1>1, <1>3, LeftOk
<1>5. IsFiniteSet(connects')
  BY <1>1, OneMore
<1> QED
  BY <1>1, <1>2, <1>4, <1>5 DEF TypeOK

LEMMA TypeConnecting == TypeOK /\ Connecting => TypeOK'
<1> SUFFICES ASSUME TypeOK, Connecting PROVE TypeOK'
  OBVIOUS
<1>1. OutsideTyped /\ ScreenTyped /\ WorksOk(works) /\ acts \in 0..MaxActs
  BY TypeParts
<1>2. ASSUME NEW c \in connects, AnswerList(c) PROVE TypeOK'
  <2>1. /\ connects' = (connects \ {c}) \cup {[stage |-> "listed", seen |-> service]}
        /\ UNCHANGED <<service, live, past, app, selects, unheard, screen, works, acts>>
    BY <1>2 DEF AnswerList
  <2>2. IsFiniteSet(connects')
    BY <2>1, OneMore DEF TypeOK
  <2>3. OutsideTyped'
    BY <1>1, <2>1, <2>2 DEF OutsideTyped
  <2> QED
    BY <1>1, <2>1, <2>3, ScreenKept, TypePartsNext
<1>3. ASSUME NEW c \in connects, ListArrives(c) PROVE TypeOK'
  <2>1. /\ app' = [app EXCEPT !.label = c.seen]
        /\ connects' = (connects \ {c}) \cup {[stage |-> "projects", seen |-> None]}
        /\ UNCHANGED <<service, live, past, selects, unheard, screen, works, acts>>
    BY <1>3 DEF ListArrives
  <2>2. IsFiniteSet(connects')
    BY <2>1, OneMore DEF TypeOK
  <2>3. OutsideTyped'
    BY <1>1, <2>1, <2>2 DEF OutsideTyped
  <2> QED
    BY <1>1, <2>1, <2>3, ScreenKept, TypePartsNext
<1>4. ASSUME NEW c \in connects, ProjectsArrive(c) PROVE TypeOK'
  <2>1. PICK sc \in Mounted(LiveProjects) : Render(sc, route, TRUE, loads, FALSE)
    BY <1>4 DEF ProjectsArrive
  <2>2. /\ app' = [app EXCEPT !.access = "ready"] /\ works' = Unmounted(works) /\ connects' = connects \ {c}
        /\ UNCHANGED <<service, live, past, selects, unheard, acts>>
    BY <1>4 DEF ProjectsArrive
  <2>3. sc \in Scope
    <3>1. LiveProjects \in SUBSET Projects
      BY DEF LiveProjects
    <3> QED
      BY <3>1, MountedTyped
  <2>4. ScreenTyped'
    <3>1. route \in Routes /\ loads \in SUBSET Load
      BY DEF TypeOK
    <3> QED
      BY <2>1, <2>3, <3>1, Renders
  <2>5. IsFiniteSet(connects')
    BY <2>2, OneMore DEF TypeOK
  <2>6. OutsideTyped'
    BY <1>1, <2>2, <2>5 DEF OutsideTyped
  <2>7. WorksOk(works')
    BY <1>1, <2>2, LeftOk
  <2> QED
    BY <1>1, <2>2, <2>4, <2>6, <2>7, TypePartsNext
<1>5. ASSUME NEW c \in connects, ConnectFails(c) PROVE TypeOK'
  <2>1. /\ connects' = connects \ {c} /\ app' = [app EXCEPT !.access = "offline"]
        /\ works' = Unmounted(works) /\ Unmount
        /\ UNCHANGED <<service, live, past, selects, unheard, acts>>
    BY <1>5 DEF ConnectFails
  <2>2. IsFiniteSet(connects')
    BY <2>1, OneMore DEF TypeOK
  <2>3. OutsideTyped'
    BY <1>1, <2>1, <2>2 DEF OutsideTyped
  <2>4. ScreenTyped' /\ WorksOk(works')
    BY <1>1, <2>1, LeftOk, Unmounts
  <2> QED
    BY <1>1, <2>1, <2>3, <2>4, TypePartsNext
<1>6. ASSUME Retry PROVE TypeOK'
  <2>1. /\ Acts /\ Connect(connects) /\ unheard' = (connects \cup selects # {})
        /\ UNCHANGED <<service, live, past, selects>>
    BY <1>6 DEF Retry
  <2>2. /\ ScreenTyped' /\ WorksOk(works') /\ IsFiniteSet(connects')
        /\ app' \in [access : {"loading", "ready", "offline"}, label : Environments \cup {None}]
        /\ connects' \subseteq [stage : {"list", "listed", "projects"}, seen : Environments \cup {None}]
    BY <2>1, ConnectsTyped DEF TypeOK
  <2>3. OutsideTyped'
    BY <1>1, <2>1, <2>2 DEF OutsideTyped
  <2> QED
    BY <2>1, <2>2, <2>3, ActsTyped, TypePartsNext
<1>7. ASSUME NEW q \in selects, Switched(q) PROVE TypeOK'
  <2>1. /\ selects' = selects \ {q} /\ Connect(connects) /\ unheard' = ~Alone
        /\ UNCHANGED <<service, live, past, acts>>
    BY <1>7 DEF Switched
  <2>2. /\ ScreenTyped' /\ WorksOk(works') /\ IsFiniteSet(connects')
        /\ app' \in [access : {"loading", "ready", "offline"}, label : Environments \cup {None}]
        /\ connects' \subseteq [stage : {"list", "listed", "projects"}, seen : Environments \cup {None}]
    BY <2>1, ConnectsTyped DEF TypeOK
  <2>3. IsFiniteSet(selects') /\ unheard' \in BOOLEAN
    BY <2>1, OneMore DEF TypeOK
  <2>4. OutsideTyped'
    BY <1>1, <2>1, <2>2, <2>3 DEF OutsideTyped
  <2> QED
    BY <1>1, <2>1, <2>2, <2>4, TypePartsNext
<1>8. ASSUME NEW q \in selects, AnswerSelect(q) \/ SelectFails(q) PROVE TypeOK'
  <2> DEFINE r == [q EXCEPT !.served = TRUE]
             rest == selects \ {q}
  <2>1. /\ service' \in Environments /\ unheard' \in BOOLEAN
        /\ selects' = rest \/ selects' = rest \cup {r}
        /\ UNCHANGED <<live, past, app, connects, screen, works, acts>>
    BY <1>8 DEF AnswerSelect, SelectFails, TypeOK
  <2>2. r \in [to : Environments, served : BOOLEAN]
    BY DEF TypeOK
  <2>3. IsFiniteSet(rest) /\ rest \subseteq [to : Environments, served : BOOLEAN]
    BY FS_RemoveElement DEF TypeOK
  <2> HIDE DEF r, rest
  <2>4. IsFiniteSet(selects') /\ selects' \subseteq [to : Environments, served : BOOLEAN]
    BY <2>1, <2>2, <2>3, FS_AddElement
  <2>5. OutsideTyped'
    BY <1>1, <2>1, <2>4 DEF OutsideTyped
  <2> QED
    BY <1>1, <2>1, <2>5, ScreenKept, TypePartsNext
<1>9. ASSUME NEW e \in Environments, Switch(e) \/ Moved(e) PROVE TypeOK'
  <2> DEFINE q == [to |-> e, served |-> FALSE]
  <2>1. /\ Acts /\ service' \in Environments /\ unheard' \in BOOLEAN
        /\ selects' = selects \/ selects' = selects \cup {q}
        /\ UNCHANGED <<live, past, app, connects, screen, works>>
    BY <1>9 DEF Switch, Moved, TypeOK
  <2>2. q \in [to : Environments, served : BOOLEAN]
    OBVIOUS
  <2> HIDE DEF q
  <2>3. IsFiniteSet(selects') /\ selects' \subseteq [to : Environments, served : BOOLEAN]
    <3>1. IsFiniteSet(selects) /\ selects \subseteq [to : Environments, served : BOOLEAN]
      BY DEF TypeOK
    <3>2. IsFiniteSet(selects \cup {q})
      BY <3>1, FS_AddElement
    <3> QED
      BY <2>1, <2>2, <3>1, <3>2
  <2>4. OutsideTyped'
    BY <1>1, <2>1, <2>3 DEF OutsideTyped
  <2> QED
    BY <1>1, <2>1, <2>4, ActsTyped, ScreenKept, TypePartsNext
<1> QED
  BY <1>2, <1>3, <1>4, <1>5, <1>6, <1>7, <1>8, <1>9 DEF Connecting

(* A report that is asked for again, and what is answered.                 *)
LEMMA RetriesReport ==
  ASSUME TypeOK, RetryReport
  PROVE  /\ TypeOK' /\ UNCHANGED <<outside, scope, saved, loads, outlived, route, works>>
         /\ Reask(Slots, scope, route)
<1>1. /\ Reask(Slots, scope, route) /\ Acts
      /\ UNCHANGED <<outside, scope, saved, loads, outlived, route, works>>
  BY DEF RetryReport
<1>2. scope \in Scope /\ route \in Routes /\ OutsideTyped /\ ScreenTyped /\ WorksOk(works)
  BY TypeParts DEF TypeOK
<1> DEFINE slots == Slots
<1>3. slots \in SUBSET Slots /\ Reask(slots, scope, route)
  BY <1>1
<1> HIDE DEF slots
<1>4. AskedTyped' /\ ReportsTyped'
  BY <1>2, <1>3, Reasks
<1>5. ScreenTyped'
  BY <1>1, <1>2, <1>4 DEF ScreenTyped
<1>6. OutsideTyped'
  BY <1>1, <1>2, OutsideKept
<1> QED
  BY <1>1, <1>2, <1>5, <1>6, ActsTyped, TypePartsNext

LEMMA ReportAnswered ==
  ASSUME TypeOK, NEW a \in asked, AnswerReport(a)
  PROVE  /\ TypeOK' /\ UNCHANGED <<outside, scope, saved, loads, outlived, route, works, acts>>
         /\ asked' = asked \ {a}
         /\ \A x \in Slots : reports'[x].status = "ready" =>
              \/ reports'[x] = reports[x]
              \/ ~a.aborted /\ x = a.slot /\ reports'[x].of = a.key
<1> DEFINE R == {[status |-> "ready", of |-> a.key], [status |-> "error", of |-> Nothing]}
<1>1. /\ asked' = asked \ {a}
      /\ UNCHANGED <<outside, scope, saved, loads, outlived, route, works, acts>>
  BY DEF AnswerReport
<1>2. PICK r \in R : reports' = IF Shown(a) THEN [reports EXCEPT ![a.slot] = r] ELSE reports
  BY DEF AnswerReport
<1>3. a.slot \in Slots /\ a.key \in Keys /\ Nothing \in Keys
  BY DEF TypeOK, Nothing, Keys
<1>4. /\ r \in [status : {"idle", "loading", "ready", "error"}, of : Keys]
      /\ r.status = "ready" => r.of = a.key
  BY <1>3
<1> HIDE DEF R
<1>5. ReportsTyped' /\ AskedTyped'
  BY <1>1, <1>2, <1>3, <1>4 DEF TypeOK, ReportsTyped, AskedTyped
<1>6. \A x \in Slots : reports'[x].status = "ready" =>
        \/ reports'[x] = reports[x]
        \/ ~a.aborted /\ x = a.slot /\ reports'[x].of = a.key
  BY <1>2, <1>3, <1>4 DEF TypeOK, Shown
<1>7. OutsideTyped /\ ScreenTyped /\ WorksOk(works) /\ acts \in 0..MaxActs
  BY TypeParts
<1>8. ScreenTyped' /\ OutsideTyped'
  BY <1>1, <1>5, <1>7, OutsideKept DEF ScreenTyped
<1> QED
  BY <1>1, <1>6, <1>7, <1>8, TypePartsNext

LEMMA LoadAnswered ==
  ASSUME TypeOK, NEW l \in loads, AnswerLoad(l) \/ LoadFails(l)
  PROVE  /\ TypeOK' /\ UNCHANGED <<outside, saved, outlived, route, reports, asked, works, acts>>
         /\ scope'.mounted = scope.mounted /\ scope'.projects = scope.projects
         /\ scope'.project = scope.project /\ scope'.website = scope.website
         /\ scope'.sites = scope.sites /\ scope'.range = scope.range
         /\ \A m \in loads' : \/ m \in loads
                              \/ m.project = l.project /\ m.cancelled = l.cancelled /\ m.items = SitesOf(m.project)
<1>1. scope \in Scope /\ l \in Load
  BY DEF TypeOK
<1>2. OutsideTyped /\ ScreenTyped /\ WorksOk(works) /\ acts \in 0..MaxActs
  BY TypeParts
<1>3. UNCHANGED <<outside, saved, outlived, route, reports, asked, works, acts>>
  BY DEF AnswerLoad, LoadFails
<1>4. /\ scope' \in Scope
      /\ scope'.mounted = scope.mounted /\ scope'.projects = scope.projects
      /\ scope'.project = scope.project /\ scope'.website = scope.website
      /\ scope'.sites = scope.sites /\ scope'.range = scope.range
  <2>1. scope' = scope \/ scope' = [scope EXCEPT !.error = TRUE]
    BY DEF AnswerLoad, LoadFails
  <2> QED
    BY <1>1, <2>1 DEF Scope
<1>5. loads' \subseteq Load /\ \A m \in loads' :
        \/ m \in loads
        \/ m.project = l.project /\ m.cancelled = l.cancelled /\ m.items = SitesOf(m.project)
  <2>1. CASE AnswerLoad(l)
    <3> DEFINE items == SitesOf(l.project)
               m == [l EXCEPT !.served = TRUE, !.items = items]
    <3>1. loads' = (loads \ {l}) \cup {m}
      BY <2>1 DEF AnswerLoad
    <3>2. items \in SUBSET Sites
      BY DEF SitesOf
    <3> HIDE DEF items
    <3>3. m \in Load /\ m.project = l.project /\ m.cancelled = l.cancelled /\ m.items = items
      BY <1>1, <3>2 DEF Load
    <3> HIDE DEF m
    <3> QED
      BY <3>1, <3>3 DEF items, TypeOK
  <2>2. CASE LoadFails(l)
    BY <2>2 DEF LoadFails, TypeOK
  <2> QED
    BY <2>1, <2>2
<1>6. ScreenTyped' /\ OutsideTyped'
  BY <1>2, <1>3, <1>4, <1>5, OutsideKept DEF ScreenTyped, AskedTyped, ReportsTyped
<1> QED
  BY <1>2, <1>3, <1>4, <1>5, <1>6, TypePartsNext

LEMMA TypeLooking == TypeOK /\ Looking => TypeOK'
<1> SUFFICES ASSUME TypeOK, Looking, ~RetryReport PROVE TypeOK'
  BY RetriesReport
<1>1. OutsideTyped /\ ScreenTyped /\ WorksOk(works) /\ loads \in SUBSET Load
  BY TypeParts DEF TypeOK
<1>2. PICK sc \in Scope, rt \in Routes : Look(sc, rt)
  BY Looks
<1>3. /\ Acts /\ Render(sc, rt, FALSE, loads, FALSE) /\ works' = Leaving(rt, works)
      /\ UNCHANGED outside
  BY <1>2 DEF Look
<1>4. ScreenTyped'
  BY <1>1, <1>2, <1>3, Renders
<1>5. WorksOk(works')
  BY <1>1, <1>3, LeavingOk
<1> QED
  BY <1>1, <1>3, <1>4, <1>5, OutsideKept, ActsTyped, TypePartsNext

LEMMA TypeChanging == TypeOK /\ Changing => TypeOK'
<1> SUFFICES ASSUME TypeOK, Changing PROVE TypeOK'
  OBVIOUS
<1>1. OutsideTyped /\ ScreenTyped /\ WorksOk(works)
  BY TypeParts
<1>2. /\ acts' \in 0..MaxActs /\ UNCHANGED <<service, app, selects, connects, unheard, screen>>
      /\ \/ /\ UNCHANGED outside
            /\ \E v : WorkOk(v) /\ v.items = {} /\ works' = works \cup {v}
         \/ /\ works' = works
            /\ live' \subseteq Projects \cup Sites /\ past' \subseteq Projects \cup Sites
  BY ChangesBegin
<1>3. WorksOk(works')
  BY <1>1, <1>2 DEF WorksOk
<1>4. OutsideTyped'
  BY <1>1, <1>2 DEF OutsideTyped, outside
<1>5. ScreenTyped'
  BY <1>1, <1>2, ScreenKept
<1> QED
  BY <1>2, <1>3, <1>4, <1>5, TypePartsNext

LEMMA TypeAnswers == TypeOK /\ Answers => TypeOK'
<1> SUFFICES ASSUME TypeOK, Answers PROVE TypeOK'
  OBVIOUS
<1>1. /\ OutsideTyped /\ ScreenTyped /\ WorksOk(works) /\ acts \in 0..MaxActs
      /\ loads \in SUBSET Load /\ route \in Routes
  BY TypeParts DEF TypeOK
<1>2. ASSUME NEW l \in loads, LoadArrives(l) PROVE TypeOK'
  <2>1. PICK sc \in Scope : Render(sc, route, FALSE, loads \ {l}, FALSE) /\ UNCHANGED <<outside, works, acts>>
    BY <1>2, Lists
  <2>2. loads \ {l} \in SUBSET Load
    BY <1>1
  <2>3. ScreenTyped'
    BY <1>1, <2>1, <2>2, Renders
  <2> QED
    BY <1>1, <2>1, <2>3, OutsideKept, TypePartsNext
<1>3. ASSUME NEW w \in works, Finish(w) PROVE TypeOK'
  <2>1. PICK sc \in Scope, rt \in Routes, foreign \in BOOLEAN :
          /\ Render(sc, rt, FALSE, loads, foreign)
          /\ works' = Leaving(rt, works \ {w}) /\ UNCHANGED <<outside, acts>>
    BY <1>3, Finishes
  <2>2. ScreenTyped'
    BY <1>1, <2>1, Renders
  <2>3. WorksOk(works \ {w})
    BY <1>1 DEF WorksOk
  <2>4. WorksOk(works')
    BY <2>1, <2>3, LeavingOk
  <2> QED
    BY <1>1, <2>1, <2>2, <2>4, OutsideKept, TypePartsNext
<1>4. ASSUME NEW w \in works, AnswerWork(w) \/ WorkFails(w) PROVE TypeOK'
  <2>1. /\ UNCHANGED <<service, app, selects, connects, unheard, screen, acts>>
        /\ live' \subseteq Projects \cup Sites /\ past' \subseteq Projects \cup Sites
        /\ works' = works \ {w} \/ \E v : WorkOk(v) /\ works' = (works \ {w}) \cup {v}
    BY <1>4, AnswersWork
  <2>2. WorksOk(works')
    BY <1>1, <2>1 DEF WorksOk
  <2>3. OutsideTyped'
    BY <1>1, <2>1 DEF OutsideTyped
  <2> QED
    BY <1>1, <2>1, <2>2, <2>3, ScreenKept, TypePartsNext
<1>5. ASSUME NEW w \in works, AnswerRefresh(w) PROVE TypeOK'
  <2>1. /\ UNCHANGED <<outside, screen, acts>>
        /\ \E v : WorkOk(v) /\ works' = (works \ {w}) \cup {v}
    BY <1>5, AnswersRefresh
  <2>2. WorksOk(works')
    BY <1>1, <2>1 DEF WorksOk
  <2> QED
    BY <1>1, <2>1, <2>2, OutsideKept, ScreenKept, TypePartsNext
<1> QED
  BY <1>2, <1>3, <1>4, <1>5, ReportAnswered, LoadAnswered DEF Answers

LEMMA TypeInit == Init => TypeOK
<1> SUFFICES ASSUME Init PROVE TypeOK
  OBVIOUS
<1>1. At("overview") \in Routes
  BY DEF At, Routes, Plain, Analytics
<1>2. Nothing \in Keys
  BY DEF Nothing, Keys
<1>3. [stage |-> "list", seen |-> None] \in [stage : {"list", "listed", "projects"}, seen : Environments \cup {None}]
  OBVIOUS
<1>4. IsFiniteSet(connects) /\ IsFiniteSet(selects)
  BY FS_EmptySet, FS_Singleton DEF Init
<1>5. reports \in [Slots -> [status : {"idle", "loading", "ready", "error"}, of : Keys]]
  BY <1>2 DEF Init
<1>6. saved \in [project : Projects \cup {None}, website : Sites \cup {None}, range : Ranges \cup {None}]
  BY DashboardBounds DEF Init
<1>7. OutsideTyped
  BY <1>3, <1>4, DashboardBounds DEF Init, OutsideTyped
<1>8. ScreenTyped
  BY <1>1, <1>5, <1>6, NoScopeTyped DEF Init, ScreenTyped, AskedTyped, ReportsTyped
<1>9. WorksOk(works) /\ acts \in 0..MaxActs
  BY DashboardBounds DEF Init, WorksOk
<1> QED
  BY <1>7, <1>8, <1>9, TypeParts

LEMMA TypeNext == TypeOK /\ [Next]_vars => TypeOK'
<1>1. TypeOK /\ UNCHANGED vars => TypeOK'
  BY DEF vars, TypeOK
<1> QED
  BY <1>1, TypeConnecting, TypeLooking, TypeChanging, TypeAnswers DEF Next

(***************************************************************************)
(* What is shown follows the scope.                                        *)
(***************************************************************************)
LEMMA AskedInit == Init => AskedInv
  BY DEF Init, AskedInv, ReportsFollowScope

LEMMA AskedKept ==
  ASSUME AskedInv, UNCHANGED <<reports, asked, route>>,
         scope'.mounted = scope.mounted, scope'.project = scope.project, scope'.website = scope.website,
         scope'.sites = scope.sites, scope'.range = scope.range
  PROVE  AskedInv'
<1>1. \A x : Key(x, scope', route) = Key(x, scope, route)
  BY KeyOf
<1> QED
  BY <1>1 DEF AskedInv, ReportsFollowScope

LEMMA AskedNext == TypeOK /\ AskedInv /\ [Next]_vars => AskedInv'
<1> SUFFICES ASSUME TypeOK, AskedInv, [Next]_vars PROVE AskedInv'
  OBVIOUS
<1>1. route \in Routes /\ loads \in SUBSET Load
  BY DEF TypeOK
<1>2. ASSUME UNCHANGED <<scope, reports, asked, route>> PROVE AskedInv'
  BY <1>2, AskedKept
<1>3. ASSUME Unmount PROVE AskedInv'
  BY <1>1, <1>3, Unmounts, NoScopeTyped, RenderAsks
<1>4. CASE Connecting
  <2>1. ASSUME NEW c \in connects, ProjectsArrive(c) PROVE AskedInv'
    <3>1. PICK sc \in Mounted(LiveProjects) : Render(sc, route, TRUE, loads, FALSE)
      BY <2>1 DEF ProjectsArrive
    <3>2. sc \in Scope
      <4>1. LiveProjects \in SUBSET Projects
        BY DEF LiveProjects
      <4> QED
        BY <4>1, MountedTyped
    <3> QED
      BY <1>1, <3>1, <3>2, RenderAsks
  <2>2. ASSUME NEW c \in connects, ConnectFails(c) PROVE AskedInv'
    BY <1>3, <2>2 DEF ConnectFails
  <2>3. ASSUME Retry \/ \E q \in selects : Switched(q) PROVE AskedInv'
    BY <1>3, <2>3 DEF Retry, Switched, Connect
  <2>4. ASSUME \/ \E c \in connects : AnswerList(c) \/ ListArrives(c)
               \/ \E q \in selects : AnswerSelect(q) \/ SelectFails(q)
               \/ \E e \in Environments : Switch(e) \/ Moved(e)
        PROVE  AskedInv'
    BY <1>2, <2>4 DEF AnswerList, ListArrives, AnswerSelect, SelectFails, Switch, Moved, screen
  <2> QED
    BY <1>4, <2>1, <2>2, <2>3, <2>4 DEF Connecting
<1>5. CASE Looking
  <2>1. CASE RetryReport
    <3> DEFINE slots == Slots
    <3>1. /\ UNCHANGED <<scope, route>> /\ Reask(slots, scope, route) /\ slots \in SUBSET Slots
          /\ scope \in Scope
      BY <2>1, RetriesReport DEF TypeOK
    <3>2. slots = Slots
      OBVIOUS
    <3> HIDE DEF slots
    <3>3. /\ \A x \in slots : reports'[x].status # "ready"
          /\ \A a \in asked' : ~a.aborted =>
               \/ a \in asked /\ a.slot \notin slots
               \/ a.slot \in slots /\ a.key = Key(a.slot, scope, route)
      BY <1>1, <3>1, Reasks
    <3> QED
      BY <3>1, <3>2, <3>3 DEF AskedInv, ReportsFollowScope, TypeOK
  <2>2. CASE ~RetryReport
    <3>1. PICK sc \in Scope, rt \in Routes : Look(sc, rt)
      BY <1>5, <2>2, Looks
    <3>2. Render(sc, rt, FALSE, loads, FALSE)
      BY <3>1 DEF Look
    <3> QED
      BY <1>1, <3>2, RenderAsks
  <2> QED
    BY <2>1, <2>2
<1>6. CASE Changing
  BY <1>2, <1>6, ChangesBegin DEF screen
<1>7. CASE Answers
  <2>1. ASSUME NEW l \in loads, AnswerLoad(l) \/ LoadFails(l) PROVE AskedInv'
    BY <2>1, LoadAnswered, AskedKept
  <2>2. ASSUME NEW l \in loads, LoadArrives(l) PROVE AskedInv'
    <3>1. PICK sc \in Scope : Render(sc, route, FALSE, loads \ {l}, FALSE)
      BY <2>2, Lists
    <3>2. loads \ {l} \in SUBSET Load
      BY <1>1
    <3> QED
      BY <1>1, <3>1, <3>2, RenderAsks
  <2>3. ASSUME NEW a \in asked, AnswerReport(a) PROVE AskedInv'
    <3>1. /\ UNCHANGED <<scope, route>> /\ asked' = asked \ {a}
          /\ \A x \in Slots : reports'[x].status = "ready" =>
               \/ reports'[x] = reports[x]
               \/ ~a.aborted /\ x = a.slot /\ reports'[x].of = a.key
      BY <2>3, ReportAnswered
    <3> QED
      BY <3>1 DEF AskedInv, ReportsFollowScope
  <2>4. ASSUME NEW w \in works, Finish(w) PROVE AskedInv'
    <3>1. PICK sc \in Scope, rt \in Routes, foreign \in BOOLEAN : Render(sc, rt, FALSE, loads, foreign)
      BY <2>4, Finishes
    <3> QED
      BY <1>1, <3>1, RenderAsks
  <2>5. ASSUME NEW w \in works, AnswerWork(w) \/ AnswerRefresh(w) \/ WorkFails(w) PROVE AskedInv'
    BY <1>2, <2>5 DEF AnswerWork, AnswerRefresh, WorkFails, screen
  <2> QED
    BY <1>7, <2>1, <2>2, <2>3, <2>4, <2>5 DEF Answers
<1>8. CASE UNCHANGED vars
  BY <1>2, <1>8 DEF vars
<1> QED
  BY <1>4, <1>5, <1>6, <1>7, <1>8 DEF Next

(***************************************************************************)
(* What is listed is of the project.                                       *)
(***************************************************************************)
ScopeOwn(sc) == Own(sc.sites, sc.project) /\ (sc.website # None => ProjectOf[sc.website] = sc.project)
LoadOwn(l, p) == Own(l.items, l.project) /\ (~l.cancelled => l.project = p)
WorkOwn(w) == w.op \notin OfProjects => Own(w.items, w.project)

LEMMA ListParts ==
  ListInv <=> /\ ~outlived => ScopeOwn(scope)
              /\ \A l \in loads : LoadOwn(l, scope.project)
              /\ \A w \in works : WorkOwn(w)
  BY DEF ListInv, ScopeOwn, LoadOwn, WorkOwn

LEMMA ListPartsNext ==
  ListInv' <=> /\ ~outlived' => ScopeOwn(scope')
               /\ \A l \in loads' : LoadOwn(l, scope'.project)
               /\ \A w \in works' : WorkOwn(w)
  BY DEF ListInv, ScopeOwn, LoadOwn, WorkOwn

LEMMA ListInit == Init => ListInv
  BY DEF Init, ListInv, NoScope, Own

LEMMA SitesOfOwn == \A p : Own(SitesOf(p), p)
  BY DEF Own, SitesOf

(* A change of the scope keeps to the project it leads to, unless it comes *)
(* from a refresh of another.                                              *)
LEMMA RenderLists ==
  ASSUME TypeOK, ListInv, NEW sc \in Scope, NEW rt \in Routes, NEW fresh \in BOOLEAN,
         NEW rest \in SUBSET Load, rest \subseteq loads, NEW foreign \in BOOLEAN,
         Render(sc, rt, fresh, rest, foreign),
         New(sc, fresh) => sc.website = None,
         ~New(sc, fresh) /\ ~foreign /\ ~outlived => ScopeOwn(sc)
  PROVE  (~outlived' => ScopeOwn(scope')) /\ \A l \in loads' : LoadOwn(l, scope'.project)
<1> DEFINE new == New(sc, fresh)
<1>1. /\ scope' \in Scope /\ scope'.project = sc.project /\ scope'.website = sc.website
      /\ scope'.sites = IF new THEN {} ELSE sc.sites
      /\ loads' = IF new THEN Cancelled(rest) \cup LoadOf(scope') ELSE rest
      /\ ~outlived' => ~foreign /\ (new \/ ~outlived)
  BY Renders
<1>2. \A l \in rest : LoadOwn(l, scope.project)
  BY ListParts
<1>3. CASE new
  <2>1. ScopeOwn(scope')
    BY <1>1, <1>3 DEF ScopeOwn, Own
  <2>2. /\ \A l \in Cancelled(rest) : l.cancelled = TRUE /\ \E x \in rest : l.items = x.items /\ l.project = x.project
        /\ \A l \in LoadOf(scope') : l.items = {} /\ l.project = scope'.project
    BY <1>1, CancelledTyped, LoadTyped
  <2>3. \A l \in Cancelled(rest) : LoadOwn(l, scope'.project)
    BY <1>2, <2>2 DEF LoadOwn
  <2>4. \A l \in LoadOf(scope') : LoadOwn(l, scope'.project)
    BY <2>2 DEF LoadOwn, Own
  <2> QED
    BY <1>1, <1>3, <2>1, <2>3, <2>4
<1>4. CASE ~new
  <2>1. sc.project = scope.project
    BY <1>4 DEF New
  <2>2. \A l \in loads' : LoadOwn(l, scope'.project)
    BY <1>1, <1>2, <1>4, <2>1
  <2>3. ~outlived' => ScopeOwn(scope')
    BY <1>1, <1>4 DEF ScopeOwn
  <2> QED
    BY <2>2, <2>3
<1> QED
  BY <1>3, <1>4

LEMMA ListKept ==
  ASSUME ListInv, UNCHANGED <<scope, outlived, loads>>, \A w \in works' : WorkOwn(w)
  PROVE  ListInv'
  BY ListParts, ListPartsNext

LEMMA AlikeOwn ==
  ASSUME NEW ws, NEW vs, \A w \in ws : WorkOwn(w), \A v \in vs : \E w \in ws : Alike(v, w)
  PROVE  \A v \in vs : WorkOwn(v)
  BY DEF WorkOwn, Alike

LEMMA ListNext == TypeOK /\ ListInv /\ [Next]_vars => ListInv'
<1> SUFFICES ASSUME TypeOK, ListInv, [Next]_vars PROVE ListInv'
  OBVIOUS
<1>1. route \in Routes /\ loads \in SUBSET Load /\ WorksOk(works) /\ \A w \in works : WorkOwn(w)
  BY TypeParts, ListParts DEF TypeOK
<1>2. ASSUME UNCHANGED <<scope, outlived, loads, works>> PROVE ListInv'
  BY <1>1, <1>2, ListKept
<1>3. ASSUME Unmount, works' = Unmounted(works) PROVE ListInv'
  <2>1. \A w \in works' : WorkOwn(w)
    BY <1>1, <1>3, LeftOk, AlikeOwn
  <2>2. New(NoScope, TRUE)
    BY DEF New
  <2> QED
    BY <1>1, <1>3, <2>1, <2>2, Unmounts, NoScopeTyped, RenderLists, ListPartsNext
<1>4. CASE Connecting
  <2>1. ASSUME NEW c \in connects, ProjectsArrive(c) PROVE ListInv'
    <3>1. PICK sc \in Mounted(LiveProjects) : Render(sc, route, TRUE, loads, FALSE)
      BY <2>1 DEF ProjectsArrive
    <3>2. sc \in Scope /\ sc.website = None
      <4>1. LiveProjects \in SUBSET Projects
        BY DEF LiveProjects
      <4> QED
        BY <4>1, MountedTyped
    <3>3. works' = Unmounted(works)
      BY <2>1 DEF ProjectsArrive
    <3>4. \A w \in works' : WorkOwn(w)
      BY <1>1, <3>3, LeftOk, AlikeOwn
    <3>5. New(sc, TRUE)
      BY DEF New
    <3> QED
      BY <1>1, <3>1, <3>2, <3>4, <3>5, RenderLists, ListPartsNext
  <2>2. ASSUME NEW c \in connects, ConnectFails(c) PROVE ListInv'
    BY <1>3, <2>2 DEF ConnectFails
  <2>3. ASSUME Retry \/ \E q \in selects : Switched(q) PROVE ListInv'
    BY <1>3, <2>3 DEF Retry, Switched, Connect
  <2>4. ASSUME \/ \E c \in connects : AnswerList(c) \/ ListArrives(c)
               \/ \E q \in selects : AnswerSelect(q) \/ SelectFails(q)
               \/ \E e \in Environments : Switch(e) \/ Moved(e)
        PROVE  ListInv'
    BY <1>2, <2>4 DEF AnswerList, ListArrives, AnswerSelect, SelectFails, Switch, Moved, screen
  <2> QED
    BY <1>4, <2>1, <2>2, <2>3, <2>4 DEF Connecting
<1>5. CASE Looking
  <2>1. CASE RetryReport
    BY <1>2, <2>1, RetriesReport
  <2>2. CASE ~RetryReport
    <3>1. PICK sc \in Scope, rt \in Routes : Look(sc, rt) /\ Near(sc)
      BY <1>5, <2>2, Looks
    <3>2. Render(sc, rt, FALSE, loads, FALSE) /\ works' = Leaving(rt, works)
      BY <3>1 DEF Look
    <3>3. \A w \in works' : WorkOwn(w)
      BY <1>1, <3>2, LeavingOk, AlikeOwn
    <3>4. New(sc, FALSE) => sc.website = None
      BY <3>1 DEF New, Near
    <3>5. ~New(sc, FALSE) /\ ~outlived => ScopeOwn(sc)
      BY <3>1, ListParts DEF New, Near, ScopeOwn, Own
    <3> QED
      BY <1>1, <3>2, <3>3, <3>4, <3>5, RenderLists, ListPartsNext
  <2> QED
    BY <2>1, <2>2
<1>6. CASE Changing
  <2>1. UNCHANGED <<scope, outlived, loads>>
    BY <1>6, ChangesBegin DEF screen
  <2>2. \A w \in works' : WorkOwn(w)
    <3>1. works' = works \/ \E v : v.items = {} /\ works' = works \cup {v}
      BY <1>6, ChangesBegin
    <3> QED
      BY <1>1, <3>1 DEF WorkOwn, Own
  <2> QED
    BY <2>1, <2>2, ListKept
<1>7. CASE Answers
  <2>1. ASSUME NEW l \in loads, AnswerLoad(l) \/ LoadFails(l) PROVE ListInv'
    <3>1. /\ UNCHANGED <<outlived, works>>
          /\ scope'.project = scope.project /\ scope'.website = scope.website /\ scope'.sites = scope.sites
          /\ \A m \in loads' : \/ m \in loads
                               \/ m.project = l.project /\ m.cancelled = l.cancelled /\ m.items = SitesOf(m.project)
      BY <2>1, LoadAnswered
    <3>2. \A m \in loads' : LoadOwn(m, scope'.project)
      BY <3>1, ListParts, SitesOfOwn DEF LoadOwn
    <3>3. ~outlived' => ScopeOwn(scope')
      BY <3>1, ListParts DEF ScopeOwn
    <3> QED
      BY <1>1, <3>1, <3>2, <3>3, ListPartsNext
  <2>2. ASSUME NEW l \in loads, LoadArrives(l) PROVE ListInv'
    <3>1. PICK sc \in Scope :
             /\ Render(sc, route, FALSE, loads \ {l}, FALSE)
             /\ sc.project = scope.project
             /\ \/ sc.sites = scope.sites /\ sc.website = scope.website
                \/ ~l.cancelled /\ sc.sites = l.items /\ sc.website \in l.items \cup {scope.website}
             /\ UNCHANGED <<outside, works, acts>>
      BY <2>2, Lists
    <3>2. loads \ {l} \in SUBSET Load /\ loads \ {l} \subseteq loads
      BY <1>1
    <3>3. ~New(sc, FALSE)
      BY <3>1 DEF New
    <3>4. ~outlived => ScopeOwn(sc)
      <4>1. LoadOwn(l, scope.project) /\ (~outlived => ScopeOwn(scope))
        BY ListParts
      <4> QED
        BY <3>1, <4>1 DEF LoadOwn, ScopeOwn, Own
    <3> QED
      BY <1>1, <3>1, <3>2, <3>3, <3>4, RenderLists, ListPartsNext
  <2>3. ASSUME NEW a \in asked, AnswerReport(a) PROVE ListInv'
    BY <1>2, <2>3, ReportAnswered
  <2>4. ASSUME NEW w \in works, Finish(w) PROVE ListInv'
    <3>1. PICK sc \in Scope, rt \in Routes, foreign \in BOOLEAN :
           /\ Render(sc, rt, FALSE, loads, foreign)
           /\ works' = Leaving(rt, works \ {w})
           /\ \/ sc = scope
              \/ /\ sc.sites = scope.sites
                 /\ sc.website = IF sc.project = scope.project THEN scope.website ELSE None
              \/ /\ w.op \notin OfProjects /\ (foreign \/ w.project = scope.project)
                 /\ sc.project = scope.project
                 /\ sc.sites = w.items /\ (sc.website = None \/ sc.website \in w.items)
      BY <2>4, Finishes
    <3>2. \A v \in works' : WorkOwn(v)
      <4>1. WorksOk(works \ {w}) /\ \A v \in works \ {w} : WorkOwn(v)
        BY <1>1 DEF WorksOk
      <4> QED
        BY <3>1, <4>1, LeavingOk, AlikeOwn
    <3>3. New(sc, FALSE) => sc.website = None
      BY <3>1 DEF New
    <3>4. ~New(sc, FALSE) /\ ~foreign /\ ~outlived => ScopeOwn(sc)
      <4>1. WorkOwn(w) /\ (~outlived => ScopeOwn(scope))
        BY <1>1, ListParts
      <4> QED
        BY <3>1, <4>1 DEF New, WorkOwn, ScopeOwn, Own
    <3> QED
      BY <1>1, <3>1, <3>2, <3>3, <3>4, RenderLists, ListPartsNext
  <2>5. ASSUME NEW w \in works, AnswerWork(w) \/ WorkFails(w) PROVE ListInv'
    <3>1. /\ UNCHANGED screen
          /\ works' = works \ {w} \/ \E v : Alike(v, w) /\ works' = (works \ {w}) \cup {v}
      BY <2>5, AnswersWork
    <3>2. \A v \in works' : WorkOwn(v)
      BY <1>1, <3>1 DEF WorkOwn, Alike
    <3> QED
      BY <3>1, <3>2, ListKept DEF screen
  <2>6. ASSUME NEW w \in works, AnswerRefresh(w) PROVE ListInv'
    <3>1. /\ UNCHANGED screen
          /\ \E v : /\ v.op = w.op /\ v.project = w.project
                    /\ v.items = IF w.op \in OfProjects THEN LiveProjects ELSE SitesOf(w.project)
                    /\ works' = (works \ {w}) \cup {v}
      BY <2>6, AnswersRefresh
    <3>2. \A v \in works' : WorkOwn(v)
      BY <1>1, <3>1, SitesOfOwn DEF WorkOwn
    <3> QED
      BY <3>1, <3>2, ListKept DEF screen
  <2> QED
    BY <1>7, <2>1, <2>2, <2>3, <2>4, <2>5, <2>6 DEF Answers
<1>8. CASE UNCHANGED vars
  BY <1>2, <1>8 DEF vars
<1> QED
  BY <1>4, <1>5, <1>6, <1>7, <1>8 DEF Next

(***************************************************************************)
(* The environment shown is the one the service works on.                  *)
(***************************************************************************)
LEMMA EnvInit == Init => EnvInv
  BY DEF Init, EnvInv, Underway, Asleep, Knows, NoScope

(* What does not touch the choosing of an environment.                     *)
LEMMA EnvSame ==
  ASSUME EnvInv, UNCHANGED <<service, app, selects, connects, unheard>>, Right => Right', Asleep => Asleep'
  PROVE  EnvInv'
<1> SUFFICES ASSUME ~unheard PROVE Settled' \/ Chosen' \/ Underway'
  BY DEF EnvInv
<1>1. CASE Settled
  BY <1>1 DEF Settled
<1>2. CASE Chosen
  <2>1. PICK q \in selects : selects = {q} /\ connects = {} /\ (q.served \/ Right)
    BY <1>2 DEF Chosen
  <2>2. Chosen'
    BY <2>1 DEF Chosen
  <2> QED
    BY <2>2
<1>3. CASE Underway
  <2>1. PICK c \in connects : connects = {c} /\ Knows(c) /\ selects = {} /\ Asleep
    BY <1>3 DEF Underway
  <2>2. Underway'
    BY <2>1 DEF Underway, Knows
  <2> QED
    BY <2>2
<1> QED
  BY <1>1, <1>2, <1>3 DEF EnvInv

LEMMA WorksAlike ==
  ASSUME UNCHANGED <<service, app>>, scope'.projects = scope.projects, scope'.mounted = scope.mounted,
         \A v \in works' : \E w \in works : Alike(v, w) /\ v.alive = w.alive
  PROVE  (Right => Right') /\ (Asleep => Asleep')
  BY DEF Right, Asleep, Of, Alike

LEMMA AlikeItself == \A w : Alike(w, w)
  BY DEF Alike

LEMMA EnvConnecting == TypeOK /\ EnvInv /\ Connecting => EnvInv'
<1> SUFFICES ASSUME TypeOK, EnvInv, Connecting PROVE EnvInv'
  OBVIOUS
<1> USE DEF EnvInv
<1>1. ASSUME NEW c \in connects, ~unheard PROVE selects = {} /\ connects = {c} /\ Knows(c) /\ Asleep
  BY <1>1 DEF Settled, Chosen, Underway
<1>2. ASSUME NEW q \in selects, ~unheard PROVE connects = {} /\ selects = {q} /\ (q.served \/ Right)
  BY <1>2 DEF Settled, Chosen, Underway
<1>3. ASSUME NEW c \in connects, AnswerList(c) PROVE EnvInv'
  <2> SUFFICES ASSUME ~unheard' PROVE Underway'
    OBVIOUS
  <2>1. /\ connects' = (connects \ {c}) \cup {[stage |-> "listed", seen |-> service]}
        /\ UNCHANGED <<service, app, selects, unheard, scope, works>>
    BY <1>3 DEF AnswerList, screen
  <2>2. connects' = {[stage |-> "listed", seen |-> service]} /\ selects = {} /\ Asleep
    BY <1>1, <2>1
  <2>3. PICK d : d = [stage |-> "listed", seen |-> service]
    OBVIOUS
  <2>4. connects' = {d} /\ Knows(d)'
    BY <2>1, <2>2, <2>3 DEF Knows
  <2>5. selects' = {} /\ Asleep'
    BY <2>1, <2>2 DEF Asleep
  <2> QED
    BY <2>4, <2>5 DEF Underway
<1>4. ASSUME NEW c \in connects, ListArrives(c) PROVE EnvInv'
  <2> SUFFICES ASSUME ~unheard' PROVE Underway'
    OBVIOUS
  <2>1. /\ c.stage = "listed" /\ app' = [app EXCEPT !.label = c.seen]
        /\ connects' = (connects \ {c}) \cup {[stage |-> "projects", seen |-> None]}
        /\ UNCHANGED <<service, selects, unheard, scope, works>>
    BY <1>4 DEF ListArrives, screen
  <2>2. connects' = {[stage |-> "projects", seen |-> None]} /\ selects = {} /\ Asleep /\ c.seen = service
    BY <1>1, <2>1 DEF Knows
  <2>3. app'.label = service' /\ app'.access = app.access
    BY <2>1, <2>2 DEF TypeOK
  <2> QED
    BY <2>1, <2>2, <2>3 DEF Underway, Asleep, Knows
<1>5. ASSUME NEW c \in connects, ProjectsArrive(c) PROVE EnvInv'
  <2> SUFFICES ASSUME ~unheard' PROVE Settled'
    OBVIOUS
  <2>1. PICK sc \in Mounted(LiveProjects) : Render(sc, route, TRUE, loads, FALSE)
    BY <1>5 DEF ProjectsArrive
  <2>2. /\ c.stage = "projects" /\ app' = [app EXCEPT !.access = "ready"] /\ works' = Unmounted(works)
        /\ connects' = connects \ {c} /\ UNCHANGED <<service, selects, unheard>>
    BY <1>5 DEF ProjectsArrive
  <2>3. connects' = {} /\ selects' = {} /\ app.label = service
    BY <1>1, <2>2 DEF Knows
  <2>4. scope'.projects = LiveProjects
    <3>1. LiveProjects \in SUBSET Projects
      BY DEF LiveProjects
    <3>2. sc \in Scope /\ sc.projects = LiveProjects /\ route \in Routes /\ loads \in SUBSET Load
      BY <3>1, MountedTyped DEF TypeOK
    <3> QED
      BY <2>1, <3>2, Renders
  <2>5. app'.label = service
    BY <2>2, <2>3 DEF TypeOK
  <2>6. \A w \in works' : ~w.alive
    <3>1. WorksOk(works)
      BY TypeParts
    <3> QED
      BY <2>2, <3>1, LeftOk
  <2>7. \A p \in LiveProjects : EnvironmentOf[p] = service
    BY DEF LiveProjects
  <2> QED
    BY <2>2, <2>3, <2>4, <2>5, <2>6, <2>7 DEF Settled, Right, Of
<1>6. ASSUME NEW c \in connects, ConnectFails(c) PROVE EnvInv'
  <2> SUFFICES ASSUME ~unheard' PROVE Settled'
    OBVIOUS
  <2>1. /\ connects' = connects \ {c} /\ app' = [app EXCEPT !.access = "offline"]
        /\ UNCHANGED <<selects, unheard>>
    BY <1>6 DEF ConnectFails
  <2>2. connects' = {} /\ selects' = {}
    BY <1>1, <2>1
  <2>3. app'.access = "offline"
    BY <2>1 DEF TypeOK
  <2> QED
    BY <2>2, <2>3 DEF Settled, Right
<1>7. ASSUME Connect({}), selects' = {} PROVE Underway'
  <2> DEFINE none == {}
  <2>1. Connect(none) /\ none \subseteq connects /\ IsFiniteSet(none) /\ none = {}
    BY <1>7, FS_EmptySet
  <2> HIDE DEF none
  <2>2. /\ scope'.mounted = FALSE /\ \A w \in works' : ~w.alive
        /\ app'.access = "loading" /\ connects' = none \cup {[stage |-> "list", seen |-> None]}
    BY <2>1, ConnectsTyped
  <2> QED
    BY <1>7, <2>1, <2>2 DEF Underway, Asleep, Knows
<1>8. ASSUME Retry PROVE EnvInv'
  <2> SUFFICES ASSUME ~unheard' PROVE Underway'
    OBVIOUS
  <2>1. connects = {} /\ selects' = {} /\ Connect(connects)
    BY <1>8 DEF Retry
  <2> QED
    BY <1>7, <2>1
<1>9. ASSUME NEW q \in selects, Switched(q) PROVE EnvInv'
  <2> SUFFICES ASSUME ~unheard' PROVE Underway'
    OBVIOUS
  <2>1. Alone /\ selects' = selects \ {q} /\ Connect(connects)
    BY <1>9 DEF Switched
  <2>2. connects = {} /\ selects \ {q} = {}
    <3>1. /\ IsFiniteSet(connects) /\ IsFiniteSet(selects) /\ IsFiniteSet(selects \ {q})
          /\ Cardinality(connects) \in Nat /\ Cardinality(selects \ {q}) \in Nat
          /\ Cardinality(selects \ {q}) = Cardinality(selects) - 1 /\ Cardinality(selects) \in Nat
      BY FS_RemoveElement, FS_CardinalityType DEF TypeOK
    <3>2. Cardinality(connects) = 0 /\ Cardinality(selects \ {q}) = 0
      BY <2>1, <3>1 DEF Alone
    <3> QED
      BY <3>1, <3>2, FS_EmptySet
  <2> QED
    BY <1>7, <2>1, <2>2
<1>10. ASSUME NEW q \in selects, AnswerSelect(q) PROVE EnvInv'
  <2> SUFFICES ASSUME ~unheard' PROVE Chosen'
    OBVIOUS
  <2> DEFINE r == [q EXCEPT !.served = TRUE]
  <2>1. selects' = (selects \ {q}) \cup {r} /\ UNCHANGED <<unheard, connects>>
    BY <1>10 DEF AnswerSelect
  <2>2. r.served = TRUE
    BY DEF TypeOK
  <2> HIDE DEF r
  <2>3. connects' = {} /\ selects' = {r}
    BY <1>2, <2>1
  <2> QED
    BY <2>2, <2>3 DEF Chosen
<1>11. ASSUME NEW q \in selects, SelectFails(q) PROVE EnvInv'
  <2> SUFFICES ASSUME ~unheard' PROVE Settled'
    OBVIOUS
  <2>1. /\ ~unheard /\ ~q.served /\ selects' = selects \ {q}
        /\ UNCHANGED <<service, app, connects, scope, works>>
    BY <1>11 DEF SelectFails, screen
  <2>2. connects' = {} /\ selects' = {} /\ Right
    BY <1>2, <2>1
  <2> QED
    BY <2>1, <2>2 DEF Settled, Right, Of
<1>12. ASSUME NEW e \in Environments, Switch(e) PROVE EnvInv'
  <2> SUFFICES ASSUME ~unheard' PROVE Chosen'
    OBVIOUS
  <2> DEFINE q == [to |-> e, served |-> FALSE]
  <2>1. /\ scope.mounted /\ ~unheard /\ selects = {} /\ selects' = selects \cup {q}
        /\ UNCHANGED <<service, app, connects, scope, works>>
    BY <1>12 DEF Switch, screen
  <2>2. connects = {} /\ Right
    BY <2>1 DEF Settled, Chosen, Underway, Asleep
  <2>3. connects' = {} /\ selects' = {q} /\ Right'
    BY <2>1, <2>2 DEF Right, Of
  <2> HIDE DEF q
  <2> QED
    BY <2>3 DEF Chosen
<1>13. ASSUME NEW e \in Environments, Moved(e) PROVE EnvInv'
  BY <1>13 DEF Moved
<1> QED
  BY <1>3, <1>4, <1>5, <1>6, <1>8, <1>9, <1>10, <1>11, <1>12, <1>13 DEF Connecting

LEMMA EnvNext == TypeOK /\ EnvInv /\ [Next]_vars => EnvInv'
<1> SUFFICES ASSUME TypeOK, EnvInv, [Next]_vars PROVE EnvInv'
  OBVIOUS
<1>1. route \in Routes /\ loads \in SUBSET Load /\ WorksOk(works)
  BY TypeParts DEF TypeOK
<1>2. ASSUME UNCHANGED <<service, app, selects, connects, unheard, works>>,
             scope'.projects = scope.projects, scope'.mounted = scope.mounted
      PROVE  EnvInv'
  BY <1>2, EnvSame, WorksAlike, AlikeItself
<1>3. CASE Looking
  <2>1. CASE RetryReport
    BY <1>2, <2>1, RetriesReport DEF outside
  <2>2. CASE ~RetryReport
    <3>1. PICK sc \in Scope, rt \in Routes : Look(sc, rt) /\ Near(sc)
      BY <1>3, <2>2, Looks
    <3>2. /\ Render(sc, rt, FALSE, loads, FALSE) /\ works' = Leaving(rt, works)
          /\ UNCHANGED <<service, app, selects, connects, unheard>>
      BY <3>1 DEF Look, outside
    <3>3. scope'.projects = scope.projects /\ scope'.mounted = scope.mounted
      BY <1>1, <3>1, <3>2, Renders DEF Near
    <3>4. \A v \in works' : \E w \in works : Alike(v, w) /\ v.alive = w.alive
      BY <1>1, <3>2, LeavingOk
    <3> QED
      BY <3>2, <3>3, <3>4, EnvSame, WorksAlike
  <2> QED
    BY <2>1, <2>2
<1>4. CASE Changing
  <2>1. /\ UNCHANGED <<service, app, selects, connects, unheard, scope>>
        /\ \/ works' = works
           \/ scope.mounted /\ \E v : v.items = {} /\ works' = works \cup {v}
    BY <1>4, ChangesBegin DEF screen
  <2>2. CASE works' = works
    BY <1>2, <2>1, <2>2
  <2>3. CASE scope.mounted /\ \E v : v.items = {} /\ works' = works \cup {v}
    <3>1. Right => Right'
      BY <2>1, <2>3 DEF Right, Of
    <3>2. ~Asleep
      BY <2>3 DEF Asleep
    <3> QED
      BY <2>1, <3>1, <3>2, EnvSame
  <2> QED
    BY <2>1, <2>2, <2>3
<1>5. CASE Answers
  <2>1. ASSUME NEW l \in loads, AnswerLoad(l) \/ LoadFails(l) PROVE EnvInv'
    BY <1>2, <2>1, LoadAnswered DEF outside
  <2>2. ASSUME NEW l \in loads, LoadArrives(l) PROVE EnvInv'
    <3>1. PICK sc \in Scope :
             /\ Render(sc, route, FALSE, loads \ {l}, FALSE)
             /\ sc.mounted = scope.mounted /\ sc.projects = scope.projects
             /\ UNCHANGED <<outside, works, acts>>
      BY <2>2, Lists
    <3>2. loads \ {l} \in SUBSET Load
      BY <1>1
    <3>3. scope'.projects = scope.projects /\ scope'.mounted = scope.mounted
      BY <1>1, <3>1, <3>2, Renders
    <3> QED
      BY <1>2, <3>1, <3>3 DEF outside
  <2>3. ASSUME NEW a \in asked, AnswerReport(a) PROVE EnvInv'
    BY <1>2, <2>3, ReportAnswered DEF outside
  <2>4. ASSUME NEW w \in works, Finish(w) PROVE EnvInv'
    <3>1. PICK sc \in Scope, rt \in Routes, foreign \in BOOLEAN :
           /\ Render(sc, rt, FALSE, loads, foreign)
           /\ works' = Leaving(rt, works \ {w}) /\ UNCHANGED <<outside, acts>>
           /\ sc.mounted = scope.mounted
           /\ \/ sc.projects = scope.projects
              \/ w.alive /\ w.op \in OfProjects /\ sc.projects = w.items
      BY <2>4, Finishes
    <3>2. scope'.projects = sc.projects /\ scope'.mounted = scope.mounted
      BY <1>1, <3>1, Renders
    <3>3. \A v \in works' : \E u \in works : Alike(v, u) /\ v.alive = u.alive
      <4>1. WorksOk(works \ {w})
        BY <1>1 DEF WorksOk
      <4> QED
        BY <3>1, <4>1, LeavingOk
    <3>4. UNCHANGED <<service, app, selects, connects, unheard>>
      BY <3>1 DEF outside
    <3>5. CASE sc.projects = scope.projects
      BY <3>2, <3>3, <3>4, <3>5, EnvSame, WorksAlike
    <3>6. CASE w.alive /\ w.op \in OfProjects /\ sc.projects = w.items
      <4>1. ~Asleep
        BY <3>6 DEF Asleep
      <4>2. Right => Right'
        BY <3>2, <3>3, <3>4, <3>6 DEF Right, Of, Alike
      <4> QED
        BY <3>4, <4>1, <4>2, EnvSame
    <3> QED
      BY <3>1, <3>5, <3>6
  <2>5. ASSUME NEW w \in works, AnswerWork(w) \/ WorkFails(w) PROVE EnvInv'
    <3>1. /\ UNCHANGED <<service, app, selects, connects, unheard, scope>>
          /\ \/ works' = works \ {w}
             \/ \E v : Alike(v, w) /\ v.alive = w.alive /\ works' = (works \ {w}) \cup {v}
      BY <2>5, AnswersWork DEF screen
    <3>2. \A v \in works' : \E u \in works : Alike(v, u) /\ v.alive = u.alive
      BY <3>1, AlikeItself
    <3> QED
      BY <3>1, <3>2, EnvSame, WorksAlike
  <2>6. ASSUME NEW w \in works, AnswerRefresh(w) PROVE EnvInv'
    <3>1. /\ UNCHANGED <<service, app, selects, connects, unheard, scope>>
          /\ \E v : /\ v.op = w.op /\ v.alive = w.alive
                    /\ v.items = IF w.op \in OfProjects THEN LiveProjects ELSE SitesOf(w.project)
                    /\ works' = (works \ {w}) \cup {v}
      BY <2>6, AnswersRefresh DEF outside, screen
    <3>2. Asleep => Asleep'
      BY <3>1 DEF Asleep
    <3>3. Of(LiveProjects)
      BY DEF Of, LiveProjects
    <3>4. Right => Right'
      BY <3>1, <3>3 DEF Right, Of
    <3> QED
      BY <3>1, <3>2, <3>4, EnvSame
  <2> QED
    BY <1>5, <2>1, <2>2, <2>3, <2>4, <2>5, <2>6 DEF Answers
<1>6. CASE UNCHANGED vars
  BY <1>2, <1>6 DEF vars
<1> QED
  BY <1>3, <1>4, <1>5, <1>6, EnvConnecting DEF Next

(***************************************************************************)
(* The theorems.                                                           *)
(***************************************************************************)
(* Every variable of the page and of the service it talks to keeps its     *)
(* type.                                                                   *)
THEOREM TypeCorrect == Spec => []TypeOK
  BY TypeInit, TypeNext, PTL DEF Spec

(* A report on the screen is the one for the project, website, range and   *)
(* page chosen by now, in whatever order answers arrive.                   *)
THEOREM ReportsAreOfScope == Spec => []ReportsFollowScope
<1>1. AskedInv => ReportsFollowScope
  BY DEF AskedInv
<1> QED
  BY <1>1, TypeInit, TypeNext, AskedInit, AskedNext, PTL DEF Spec

(* The websites listed and the one chosen are the current project's,       *)
(* unless a refresh that outlived its project was shown.                   *)
THEOREM ListsAreOfProject == Spec => []ListFollowsProject
<1>1. ListInv => ListFollowsProject
  BY DEF ListInv, Own, ListFollowsProject
<1> QED
  BY <1>1, TypeInit, TypeNext, ListInit, ListNext, PTL DEF Spec

(* Once the page has connected it shows the environment the service works  *)
(* on and that one's projects, however many choices, answers and failures  *)
(* came before, unless the selection moved where it cannot know.           *)
THEOREM EnvironmentIsRight == Spec => []RightEnvironment
<1>1. EnvInv => RightEnvironment
  BY DEF EnvInv, Settled, Chosen, Underway, Asleep, Right, Of, RightEnvironment
<1> QED
  BY <1>1, TypeInit, TypeNext, EnvInit, EnvNext, PTL DEF Spec
=============================================================================
