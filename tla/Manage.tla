-------------------------------- MODULE Manage --------------------------------
(***************************************************************************)
(* The pages of the console on which keys, goals and a website's settings  *)
(* are changed, in one tab.  Each keeps what it shows and what the person  *)
(* typed while it is on the screen; its requests are answered later, when  *)
(* another page, or the page of another website, may be there; another     *)
(* console changes the same data.  How the list of websites is loaded, and *)
(* websites added and deleted, is in Dashboard; here the list of a project *)
(* is there when the project is chosen.                                    *)
(***************************************************************************)
EXTENDS Naturals, FiniteSets

CONSTANTS
  Nil,
  Projects,
  Sites,
  ProjectOf,    \* [Sites -> Projects]
  KeyIds,       \* ids of access keys
  GoalIds,
  MaxActs,      \* bound: what the person and the other console do
  MaxFailures   \* bound: requests that fail though they need not

ASSUME ManageAssumption ==
  /\ ProjectOf \in [Sites -> Projects]
  /\ Nil \notin Projects \cup Sites \cup (KeyIds \X Nat)
  /\ MaxActs \in Nat /\ MaxFailures \in Nat

VARIABLES
  stored,    \* [Sites -> the settings in the backend]
  issued,    \* [KeyIds -> access keys in the backend]
  goals,     \* goals in the backend: [site, id]
  listed,    \* [Sites -> the settings in the scope's list]
  listOf,    \* the project the scope's list is of
  project,   \* the project chosen at the top
  page,      \* the page shown: [at, site]
  access,    \* AccessPage: the form of a new key, the list, the key shown
  form,      \* WebsiteForm: what was typed
  panel,     \* GoalsPanel: the list
  sent,      \* requests under way
  told,      \* history: secrets the person was shown
  lost,      \* history: secrets set by a request whose answer nobody saw, or by others
  strayed,   \* history: a page was made another website's with its form or a request
  failures, acts

manageVars == <<stored, issued, goals, listed, listOf, project, page, access, form, panel, sent,
                told, lost, strayed, failures, acts>>
backend == <<stored, issued, goals>>
list == <<listed, listOf>>
shown == <<project, page, access, form, panel, strayed>>

(* A field is sent with every save, or only when it was changed.  It has   *)
(* two values.                                                             *)
Fields == {"always", "changed"}
Unissued == [project |-> Nil, website |-> Nil, secret |-> 0, live |-> FALSE]
Nowhere == [at |-> "away", site |-> Nil]
Pages == {Nowhere, [at |-> "keys", site |-> Nil]} \cup [at : {"keys", "edit", "site"}, site : Sites]
SitesOf(p) == {s \in Sites : ProjectOf[s] = p}

Act == acts < MaxActs /\ acts' = acts + 1

-----------------------------------------------------------------------------
(* Requests.  `alive`: the component that made it is still mounted; `of`:  *)
(* what it is about; `got`: the answer.                                    *)

Post(op, of) == [op |-> op, of |-> of, alive |-> TRUE, stage |-> "sent", got |-> Nil]
Answered(w, got) == [op |-> w.op, of |-> w.of, alive |-> w.alive, stage |-> "answered", got |-> got]
Orphan(w) == [op |-> w.op, of |-> w.of, alive |-> FALSE, stage |-> w.stage, got |-> w.got]

(* What is read for a page is of no use once it is left.                   *)
Reads == {"keys", "sites", "goals"}
KeyOps == {"create", "rotate", "rename", "revoke"}
Dropped(ws) == {Orphan(w) : w \in {x \in ws : x.op \notin Reads}}
SecretsOf(ws) == {w.got.secret : w \in {x \in ws : x.op \in {"create", "rotate"} /\ x.stage = "answered"}}

-----------------------------------------------------------------------------
(* A page is put on the screen, with the state it starts with.  A key is   *)
(* for the website of the page, or the project at the top.                 *)

NewAccess(pg, p) ==
  [list |-> {}, busy |-> FALSE, creating |-> FALSE, shown |-> Nil, project |-> p, website |-> pg.site,
   kind |-> IF pg.site = Nil THEN "project" ELSE "website", sites |-> [q \in Projects |-> "unasked"]]
NewForm(pg, from) ==
  [busy |-> FALSE, draft |-> IF pg.at = "edit" THEN from[pg.site] ELSE [f \in Fields |-> 0],
   touched |-> {}, under |-> FALSE]
NewPanel == [list |-> {}, failed |-> FALSE, busy |-> FALSE, toggling |-> FALSE]

(* The websites of a project are asked for once, when the form or a key in *)
(* the list needs their names.                                             *)
Unnamed(a) ==
  {p \in Projects : /\ a.sites[p] = "unasked"
                    /\ \/ a.kind = "website" /\ p = a.project
                       \/ \E r \in a.list : issued[r.key].website # Nil /\ issued[r.key].project = p}
Needed(a) == [a EXCEPT !.sites = [p \in Projects |-> IF p \in Unnamed(a) THEN "loading" ELSE a.sites[p]]]
AskSites(a) == {Post("sites", [project |-> p]) : p \in Unnamed(a)}

Opened(pg, p) == IF pg.at = "keys" THEN Needed(NewAccess(pg, p)) ELSE NewAccess(pg, p)
Loads(pg, p) ==
  IF pg.at = "keys" THEN {Post("keys", [ends |-> FALSE])} \cup AskSites(NewAccess(pg, p))
  ELSE IF pg.at = "site" THEN {Post("goals", [project |-> p, site |-> pg.site])} ELSE {}

ManageInit ==
  /\ stored = [s \in Sites |-> [f \in Fields |-> 0]]
  /\ issued = [k \in KeyIds |-> Unissued]
  /\ goals = {}
  /\ listed = stored
  /\ project \in Projects
  /\ listOf = project
  /\ page \in {pg \in Pages : pg.site \in SitesOf(project) \cup {Nil}}
  /\ access = Opened(page, project)
  /\ form = NewForm(page, listed)
  /\ panel = NewPanel
  /\ sent = Loads(page, project)
  /\ told = {} /\ lost = {}
  /\ strayed = FALSE
  /\ failures = 0 /\ acts = 0

Show(pg, p, from, rest) ==
  /\ page' = pg /\ project' = p
  /\ access' = Opened(pg, p)
  /\ form' = NewForm(pg, from)
  /\ panel' = NewPanel
  /\ sent' = Dropped(rest) \cup Loads(pg, p)
  /\ strayed' = FALSE

Holds(a, rest) == access' = Needed(a) /\ sent' = rest \cup AskSites(a)

(* The person goes to another kind of page, leaving what was typed, after  *)
(* a question or not (useDirtyGuard).                                      *)
Stays(pg) == pg.at = page.at /\ (pg.site = Nil) = (page.site = Nil)
Go(pg) ==
  /\ ~Stays(pg) /\ pg.site \in SitesOf(listOf) \cup {Nil}
  /\ Act
  /\ Show(pg, project, listed, sent)
  /\ UNCHANGED <<backend, list, told, lost, failures>>

(* The project menu leaves a website's page.  On the page of all keys it   *)
(* starts the form again.                                                  *)
(* Mutant: the website chosen under another project is kept.               *)
ForProjectKept(a, p) == [a EXCEPT !.project = p]
ForProject(a, p) == [a EXCEPT !.project = p, !.website = Nil]
ChooseTop(p) ==
  /\ p # project
  /\ Act
  /\ listed' = stored /\ listOf' = p
  /\ IF page = [at |-> "keys", site |-> Nil]
       THEN /\ project' = p
            /\ Holds(ForProject(access, p), sent)
            /\ UNCHANGED <<page, form, panel, strayed>>
       ELSE Show(Nowhere, p, stored, sent)
  /\ UNCHANGED <<backend, told, lost, failures>>

(* The address of the same page for another website (the history, a        *)
(* bookmark): the components stay, with what they hold, but for the form   *)
(* of the settings, which is keyed by the website, and the goals shown.    *)
(* Mutant: an answer asked for another website is heeded.                  *)
RemainingAll(ws) == ws
Remaining(ws) == {w \in ws : w.op # "goals"}
Become(pg, rest) ==
  /\ page' = pg
  /\ form' = IF pg.at = "edit" THEN NewForm(pg, listed) ELSE form
  /\ panel' = [panel EXCEPT !.list = {}, !.failed = FALSE]
  /\ sent' = IF pg.at = "edit" THEN Dropped(rest)
             ELSE Remaining(rest) \cup IF pg.at = "site" THEN Loads(pg, project) ELSE {}
  /\ strayed' = (strayed \/ pg.at = "keys" \/ \E w \in rest : w.op = "addGoal" /\ w.alive)
  /\ UNCHANGED <<project, access>>
Jump(s) ==
  /\ page.site # Nil /\ s \in SitesOf(listOf) \ {page.site}
  /\ Act
  /\ Become([at |-> page.at, site |-> s], sent)
  /\ UNCHANGED <<backend, list, told, lost, failures>>

-----------------------------------------------------------------------------
(* Access keys.                                                            *)

AtKeys == page.at = "keys"
Touch(a, requests) ==
  /\ AtKeys
  /\ Act
  /\ Holds(a, sent \cup requests)
  /\ UNCHANGED <<backend, list, project, page, form, panel, told, lost, strayed, failures>>

AddKey == ~access.busy /\ ~access.creating /\ Touch([access EXCEPT !.creating = TRUE, !.shown = Nil], {})
CancelKey == ~access.busy /\ access.creating /\ Touch([access EXCEPT !.creating = FALSE], {})

(* On a website's page the key's access is not asked.                      *)
Fill(a) == access.creating /\ page.site = Nil /\ a # access /\ Touch(a, {})
ChooseKind(kind) == Fill([access EXCEPT !.kind = kind])
ChooseProject(p) == access.kind # "everything" /\ Fill(ForProject(access, p))
ChooseWebsite(s) ==
  /\ access.kind = "website" /\ access.sites[access.project] = "loaded" /\ s \in SitesOf(access.project)
  /\ Fill([access EXCEPT !.website = s])

(* What the form says the key will be for, and what it asks for.           *)
Chosen == IF page.site # Nil THEN page.site
          ELSE IF access.sites[access.project] = "loaded" /\ access.website \in SitesOf(access.project)
               THEN access.website ELSE Nil
For(site) ==
  [project |-> IF access.kind = "everything" THEN Nil ELSE access.project,
   website |-> IF access.kind = "website" THEN site ELSE Nil]

Change(op, of) == ~access.busy /\ Touch([access EXCEPT !.busy = TRUE], {Post(op, of)})
CreateKey ==
  /\ access.creating
  /\ access.kind = "website" => access.website # Nil
  /\ Change("create", [scope |-> For(access.website), said |-> For(Chosen), strayed |-> strayed])

(* A website's page has the keys that reach it.                            *)
Reaches(k) ==
  \/ page.site \in {Nil, issued[k].website}
  \/ issued[k].website = Nil /\ issued[k].project \in {Nil, project}
ChangeKey(op, k) == [key |-> k, live |-> TRUE] \in access.list /\ Reaches(k) /\ Change(op, [key |-> k])
Dismiss == access.shown # Nil /\ Touch([access EXCEPT !.shown = Nil], {})

-----------------------------------------------------------------------------
(* The settings of a website.                                              *)

AtForm == page.at = "edit"
Type(f) ==
  /\ AtForm
  /\ Act
  /\ form' = [form EXCEPT !.draft[f] = 1 - form.draft[f], !.touched = form.touched \cup {f}]
  /\ UNCHANGED <<backend, list, project, page, access, panel, sent, told, lost, strayed, failures>>

(* A field that is sent only when changed is compared with what the list   *)
(* holds by now, not with what the form started from.  Without a           *)
(* difference there is nothing to save.                                    *)
Differs(s) == {f \in Fields : form.draft[f] # listed[s][f]}
Body(s) == {"always"} \cup Differs(s)
Save ==
  /\ AtForm /\ ~form.busy /\ Differs(page.site) # {}
  /\ Act
  /\ form' = [form EXCEPT !.busy = TRUE]
  /\ sent' = sent \cup
       {Post("save", [project |-> project, site |-> page.site, fields |-> Body(page.site),
                     draft |-> form.draft, touched |-> form.touched, under |-> form.under])}
  /\ UNCHANGED <<backend, list, project, page, access, panel, told, lost, strayed, failures>>

(* On its page: it is enabled or disabled, which the models of the backend *)
(* treat, and the list asked for again; goals are added, removed, or asked *)
(* for again after a failure.                                              *)
OnHub(p, w) ==
  /\ page.at = "site"
  /\ Act
  /\ panel' = p
  /\ sent' = sent \cup {w}
  /\ UNCHANGED <<backend, list, project, page, access, form, told, lost, strayed, failures>>

Here == [project |-> project, site |-> page.site]
Goal(id) == [project |-> project, site |-> page.site, id |-> id]
Toggle == ~panel.toggling /\ OnHub([panel EXCEPT !.toggling = TRUE], Post("toggle", Here))
AddGoal(id) ==
  ~panel.failed /\ ~panel.busy /\ OnHub([panel EXCEPT !.busy = TRUE], Post("addGoal", Goal(id)))
RemoveGoal(id) ==
  /\ \E g \in panel.list : g.id = id
  /\ ~panel.failed /\ ~panel.busy
  /\ OnHub([panel EXCEPT !.busy = TRUE], Post("removeGoal", Goal(id)))
RetryGoals == panel.failed /\ OnHub([panel EXCEPT !.list = {}, !.failed = FALSE], Post("goals", Here))

-----------------------------------------------------------------------------
(* The backend answers.  A key's website, and a website that is changed,   *)
(* must be of the project that is named; a key must be there.              *)

Possible(w) ==
  /\ w.op = "create" => w.of.scope.website \in SitesOf(w.of.scope.project) \cup {Nil}
  /\ w.op \in {"rotate", "rename"} => issued[w.of.key].live
  /\ w.op = "removeGoal" => [site |-> w.of.site, id |-> w.of.id] \in goals
  /\ w.op \in {"addGoal", "goals", "save", "toggle"} => ProjectOf[w.of.site] = w.of.project

Serve(w, got) == sent' = (sent \ {w}) \cup {Answered(w, got)}

Issue(w) ==
  /\ w.op = "create"
  /\ \E k \in KeyIds :
       /\ issued[k] = Unissued
       /\ issued' = [issued EXCEPT ![k] = [project |-> w.of.scope.project, website |-> w.of.scope.website,
                                           secret |-> 1, live |-> TRUE]]
       /\ Serve(w, [secret |-> <<k, 1>>])
  /\ UNCHANGED <<stored, goals>>
OnKey(w) ==
  /\ w.op \in {"rotate", "rename", "revoke"}
  /\ issued' = [issued EXCEPT ![w.of.key].secret = IF w.op = "rotate" THEN @ + 1 ELSE @,
                              ![w.of.key].live = @ /\ w.op # "revoke"]
  /\ Serve(w, [secret |-> <<w.of.key, issued[w.of.key].secret + 1>>])
  /\ UNCHANGED <<stored, goals>>
OnGoal(w) ==
  /\ w.op \in {"addGoal", "removeGoal"}
  /\ LET g == [site |-> w.of.site, id |-> w.of.id]
     IN goals' = IF w.op = "addGoal" THEN goals \cup {g} ELSE goals \ {g}
  /\ Serve(w, Nil)
  /\ UNCHANGED <<stored, issued>>
(* A save is followed by refreshWebsites, for the project of the save.     *)
OnSettings(w) ==
  /\ w.op = "save"
  /\ stored' = [stored EXCEPT ![w.of.site] =
                  [f \in Fields |-> IF f \in w.of.fields THEN w.of.draft[f] ELSE @[f]]]
  /\ sent' = (sent \ {w}) \cup
       {[op |-> "refresh", of |-> [project |-> w.of.project, site |-> w.of.site],
         alive |-> w.alive, stage |-> "sent", got |-> Nil]}
  /\ UNCHANGED <<issued, goals>>
Read(w) ==
  /\ \/ /\ w.op = "keys"
        /\ LET there == {k \in KeyIds : issued[k] # Unissued}
           IN Serve(w, [keys |-> {[key |-> k, live |-> issued[k].live] : k \in there}])
     \/ w.op = "sites" /\ Serve(w, Nil)
     \/ w.op = "goals" /\ Serve(w, [goals |-> {g \in goals : g.site = w.of.site}])
     \/ w.op \in {"toggle", "refresh"} /\ Serve(w, [settings |-> stored])
  /\ UNCHANGED backend

ReplyTo(w) ==
  /\ w.stage = "sent" /\ Possible(w)
  /\ Issue(w) \/ OnKey(w) \/ OnGoal(w) \/ OnSettings(w) \/ Read(w)
  /\ UNCHANGED <<list, shown, told, lost, failures, acts>>

-----------------------------------------------------------------------------
(* The answers arrive.                                                     *)

(* What was asked from a page that was left is not shown; the list is for  *)
(* every page.                                                             *)
ToList == {"toggle", "refresh"}
ArriveUnseen(w) ==
  /\ ~w.alive /\ w.op \notin ToList
  /\ sent' = sent \ {w}
  /\ lost' = lost \cup SecretsOf({w})
  /\ UNCHANGED <<list, shown, told>>

(* create and rotate: the key is shown.                                    *)
Reveal(w) ==
  IF w.op \in {"create", "rotate"}
  THEN [access EXCEPT !.shown = w.got.secret, !.creating = access.creating /\ w.op # "create"] ELSE access
(* After a change the list is asked for again, and the page is free when   *)
(* that has ended.                                                         *)
ArriveKey(w) ==
  /\ w.alive /\ w.op \in KeyOps
  /\ access' = Reveal(w)
  /\ told' = told \cup ({Reveal(w).shown} \ {Nil})
  /\ sent' = (sent \ {w}) \cup {Post("keys", [ends |-> TRUE])}
  /\ UNCHANGED <<list, project, page, form, panel, strayed, lost>>
ArriveKeys(w) ==
  /\ w.alive /\ w.op = "keys"
  /\ Holds([access EXCEPT !.list = w.got.keys, !.busy = access.busy /\ ~w.of.ends], sent \ {w})
  /\ UNCHANGED <<list, project, page, form, panel, strayed, told, lost>>
ArriveSites(w) ==
  /\ w.alive /\ w.op = "sites"
  /\ access' = [access EXCEPT !.sites[w.of.project] = "loaded"]
  /\ sent' = sent \ {w}
  /\ UNCHANGED <<list, project, page, form, panel, strayed, told, lost>>

ArriveGoals(w) ==
  /\ w.alive
  /\ \/ w.op = "goals" /\ panel' = [panel EXCEPT !.list = w.got.goals]
     \/ /\ w.op = "addGoal"
        /\ panel' = [panel EXCEPT !.list = panel.list \cup {[site |-> w.of.site, id |-> w.of.id]},
                                  !.failed = FALSE, !.busy = FALSE]
     \/ /\ w.op = "removeGoal"
        /\ panel' = [panel EXCEPT !.list = {g \in panel.list : g.id # w.of.id}, !.busy = FALSE]
  /\ sent' = sent \ {w}
  /\ UNCHANGED <<list, project, page, access, form, strayed, told, lost>>

(* refreshWebsites, wherever the person is by now: a page of a website     *)
(* that is not in the list is left.                                        *)
InList(w) == page.site \in SitesOf(w.of.project) \cup {Nil}
Relist(w) ==
  /\ listed' = w.got.settings /\ listOf' = w.of.project
  /\ UNCHANGED <<told, lost>>
ArriveToggled(w) ==
  /\ w.op = "toggle"
  /\ Relist(w)
  /\ IF InList(w)
       THEN /\ form' = [form EXCEPT !.under =
                           form.under \/ (AtForm /\ w.got.settings[page.site] # listed[page.site])]
            /\ panel' = [panel EXCEPT !.toggling = panel.toggling /\ ~w.alive]
            /\ sent' = sent \ {w}
            /\ UNCHANGED <<project, page, access, strayed>>
       ELSE Show(Nowhere, project, w.got.settings, sent \ {w})
(* After a save, the page of the website follows.                          *)
ArriveSaved(w) ==
  LET hub == [at |-> "site", site |-> w.of.site] IN
  /\ w.op = "refresh"
  /\ Relist(w)
  /\ IF page = hub THEN sent' = sent \ {w} /\ UNCHANGED shown
     ELSE IF page.at = "site" /\ InList(w) THEN Become(hub, sent \ {w})
     ELSE Show(hub, project, w.got.settings, sent \ {w})

Settle(w) ==
  /\ w.stage = "answered"
  /\ \/ ArriveUnseen(w) \/ ArriveKey(w) \/ ArriveKeys(w) \/ ArriveSites(w) \/ ArriveGoals(w)
     \/ ArriveToggled(w) \/ ArriveSaved(w)
  /\ UNCHANGED <<backend, failures, acts>>

(* A request fails, before or after the backend carried it out, or because *)
(* it cannot.                                                              *)
FreedKeys(w) ==
  IF w.op = "sites" THEN [access EXCEPT !.sites[w.of.project] = "error"]
  ELSE [access EXCEPT !.busy = /\ access.busy
                               /\ w.op \notin KeyOps
                               /\ ~(w.op = "keys" /\ w.of.ends)]
FreedPanel(w) ==
  IF w.op = "goals" THEN [panel EXCEPT !.list = {}, !.failed = TRUE]
  ELSE [panel EXCEPT !.busy = panel.busy /\ w.op \notin {"addGoal", "removeGoal"},
                     !.toggling = panel.toggling /\ w.op # "toggle"]
FailRequest(w) ==
  /\ IF w.stage = "sent" /\ ~Possible(w) THEN UNCHANGED failures
     ELSE failures < MaxFailures /\ failures' = failures + 1
  /\ sent' = sent \ {w}
  /\ lost' = lost \cup SecretsOf({w})
  /\ access' = IF w.alive THEN FreedKeys(w) ELSE access
  /\ panel' = IF w.alive THEN FreedPanel(w) ELSE panel
  /\ form' = IF w.alive /\ w.op \in {"save", "refresh"} THEN [form EXCEPT !.busy = FALSE] ELSE form
  /\ UNCHANGED <<backend, list, project, page, strayed, told, acts>>

(* Another console saves a field, or rotates or revokes a key.             *)
Others ==
  /\ Act
  /\ \/ \E s \in Sites, f \in Fields :
          stored' = [stored EXCEPT ![s][f] = 1 - @] /\ UNCHANGED <<issued, lost>>
     \/ \E k \in KeyIds, stays \in BOOLEAN :
          /\ issued[k].live
          /\ issued' = [issued EXCEPT ![k].secret = @ + 1, ![k].live = stays]
          /\ lost' = lost \cup {<<k, issued[k].secret + 1>>}
          /\ UNCHANGED stored
  /\ UNCHANGED <<goals, list, shown, sent, told, failures>>

Moving == (\E pg \in Pages : Go(pg)) \/ (\E p \in Projects : ChooseTop(p)) \/ (\E s \in Sites : Jump(s))
AccessPage ==
  \/ AddKey \/ CancelKey \/ CreateKey \/ Dismiss
  \/ \E kind \in {"everything", "project", "website"} : ChooseKind(kind)
  \/ \E p \in Projects : ChooseProject(p)
  \/ \E s \in Sites : ChooseWebsite(s)
  \/ \E op \in {"rotate", "rename", "revoke"}, k \in KeyIds : ChangeKey(op, k)
WebsitePages ==
  \/ \E f \in Fields : Type(f)
  \/ Save \/ Toggle \/ RetryGoals
  \/ \E id \in GoalIds : AddGoal(id) \/ RemoveGoal(id)

ManageNext ==
  \/ Moving \/ AccessPage \/ WebsitePages \/ Others
  \/ \E w \in sent : ReplyTo(w) \/ Settle(w) \/ FailRequest(w)

ManageSpec == ManageInit /\ [][ManageNext]_manageVars

-----------------------------------------------------------------------------
(* Properties.                                                             *)

Kinds == {"everything", "project", "website"}
Settings == [Sites -> [Fields -> 0..1]]
Goals == [site : Sites, id : GoalIds]
Key == [project : Projects \cup {Nil}, website : Sites \cup {Nil}, secret : Nat, live : BOOLEAN]
Access == [list : SUBSET [key : KeyIds, live : BOOLEAN], busy : BOOLEAN, creating : BOOLEAN,
           shown : (KeyIds \X Nat) \cup {Nil}, project : Projects, website : Sites \cup {Nil},
           kind : Kinds, sites : [Projects -> {"unasked", "loading", "loaded", "error"}]]
Form == [busy : BOOLEAN, draft : [Fields -> 0..1], touched : SUBSET Fields, under : BOOLEAN]
Panel == [list : SUBSET Goals, failed : BOOLEAN, busy : BOOLEAN, toggling : BOOLEAN]

(* What a request is about, and its answer.                                *)
About(op, of) ==
  /\ op \in KeyOps \cup {"keys", "sites", "addGoal", "removeGoal", "save", "goals", "toggle", "refresh"}
  /\ op = "keys" => of.ends \in BOOLEAN
  /\ op = "create" => /\ of.strayed \in BOOLEAN /\ of.scope.project \in Projects \cup {Nil}
                      /\ of.scope.website \in Sites \cup {Nil}
  /\ op \in {"rotate", "rename", "revoke"} => of.key \in KeyIds
  /\ op \in {"addGoal", "removeGoal"} => of.id \in GoalIds
  /\ op \in {"sites", "goals", "save", "toggle", "refresh"} => of.project \in Projects
  /\ op \in {"goals", "addGoal", "removeGoal", "save", "toggle", "refresh"} => of.site \in Sites
  /\ op = "save" => /\ of.draft \in [Fields -> 0..1] /\ of.fields \subseteq Fields
                    /\ of.touched \subseteq Fields /\ of.under \in BOOLEAN
Gives(op, got) ==
  /\ op = "keys" => got.keys \subseteq [key : KeyIds, live : BOOLEAN]
  /\ op \in {"create", "rotate"} => got.secret \in KeyIds \X Nat
  /\ op = "goals" => got.goals \subseteq Goals
  /\ op \in {"toggle", "refresh"} => got.settings \in Settings
Typed(w) ==
  /\ w.alive \in BOOLEAN /\ w.stage \in {"sent", "answered"}
  /\ About(w.op, w.of)
  /\ w.stage = "answered" => Gives(w.op, w.got)

(* Every variable has its type; a page of a website is of one that exists. *)
ManageTypeOK ==
  /\ stored \in Settings /\ listed \in Settings
  /\ issued \in [KeyIds -> Key]
  /\ goals \subseteq Goals
  /\ listOf \in Projects /\ project \in Projects
  /\ page \in Pages
  /\ access \in Access /\ form \in Form /\ panel \in Panel
  /\ \A w \in sent : Typed(w)
  /\ told \subseteq KeyIds \X Nat /\ lost \subseteq KeyIds \X Nat
  /\ strayed \in BOOLEAN
  /\ failures \in 0..MaxFailures /\ acts \in 0..MaxActs

(* A key is asked for with the access that the form names beside its       *)
(* button, whatever was chosen before, here or at the top ("A website      *)
(* belongs to one project, so a website chosen under another project is    *)
(* dropped") -- unless the page of another website was entered without     *)
(* leaving (README).                                                       *)
KeyAsDescribed ==
  \A w \in sent : w.op = "create" => w.of.strayed \/ w.of.scope = w.of.said

(* The secret a key works with was on the screen ("This is the only time   *)
(* the key is shown"), or its answer is on the way, or failed, or the page *)
(* was left before it came, or another console has it.                     *)
SecretsAreShown ==
  \A k \in KeyIds : issued[k].live => <<k, issued[k].secret>> \in told \cup lost \cup SecretsOf(sent)

(* A save leaves alone what the person did not touch in the fields that    *)
(* are sent only when changed, unless a refresh changed the list under the *)
(* form; the goals listed are of the website shown, unless one was being   *)
(* added when its page became another website's.                           *)
KeepsToTheirOwn ==
  /\ \A w \in sent : w.op = "save" => w.of.under \/ w.of.fields \ {"always"} \subseteq w.of.touched
  /\ page.at = "site" => strayed \/ \A g \in panel.list : g.site = page.site

(* A page is busy only while an answer is awaited that will free it: no    *)
(* order of answers, failures and pages left leaves its buttons disabled.  *)
Awaits(ops) == \E w \in sent : w.alive /\ w.op \in ops
BusyIsAwaited ==
  /\ access.busy => Awaits(KeyOps) \/ \E w \in sent : w.op = "keys" /\ w.of.ends /\ w.alive
  /\ form.busy => Awaits({"save", "refresh"})
  /\ panel.busy => Awaits({"addGoal", "removeGoal"})
  /\ panel.toggling => Awaits({"toggle"})

=============================================================================
