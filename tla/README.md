# Vizoalica in TLA+

Vizoalica collects page views, custom events and clicks from websites and reports on them. A browser
SDK sends batches of events to a Cloudflare Worker; the Worker checks them, stores the raw batch in R2
and counts it in D1; an administrator manages projects, websites, goals and access keys through the
Worker's admin API, from a console on the local computer; a command line deploys and updates all of it.

This directory holds TLA+ models of the parts of that system in which order, overlap and failure
matter, the TLC configurations that check them on small instances, and theorems about them checked by
TLAPS. `PROJECT.json` is the index: it maps every definition to the source lines it models and lists
runs, mutants, theorems, findings and hazards. Paths below are relative to the repository.

To check something: `tlc -config MCPurge.cfg MCPurge`, `tlapm PurgeProofs.tla`.

## What is where

| Module | Models | Proofs |
| --- | --- | --- |
| `CountOnce` | what the collector promises about its deduplicated counters: the abstract specification | |
| `Ingest`, `MCIngest` | the collector's write path: admission, quotas, raw storage, counters | `IngestProofs` |
| `AccessKeys`, `MCAccessKeys` | create, rotate, rename, revoke, use and purge of access keys | `AccessKeysProofs` |
| `Purge`, `MCPurge`, `MCPurgeBacklog` | deletion, and the purge of what is deleted, beside the requests that write | `PurgeProofs` |
| `WebsiteAdmin`, `MCWebsiteAdmin` | the admin API on a website (edit, disable, delete, goals, audit) beside the deliveries that read it | `WebsiteAdminProofs` |
| `Matching` | pure algorithms of the collector: excluded addresses, grouping patterns, page keys, ranges | |
| `Reports` | the report queries, as functions of what the tables hold | |
| `Housekeeping`, `MCHousekeeping` | the daily job (retention, salts) beside views, pixel hits and reports | `HousekeepingProofs` |
| `BrowserQueue`, `MCBrowserQueue` | the SDK's bounded queue and overlapping flushes, in front of `CountOnce` | `BrowserQueueProofs` |
| `Clicks`, `MCBrowser` | the SDK's click watcher: actions and rage clicks over a clock | `BrowserQueueProofs` |
| `Page`, `MCBrowser` | one page load: tags, loaders, the opt-out, navigation, start and stop of clients | `BrowserQueueProofs` |
| `Operator`, `MCOperator` | `vizoalica deploy`, `rotate` and `env`, in several terminals | `OperatorProofs` |
| `Deployment`, `MCOperator` | the deployment tool with a profile: configure, plan, check, apply, by several actors | `OperatorProofs` |
| `Console`, `MCConsole` | the local service's registry of environments and an MCP session's choice of one | `OperatorProofs` |
| `Dashboard`, `MCDashboard` | the console's web page: connecting, the scope, its lists and reports, changes | `DashboardProofs` |
| `Manage`, `MCConsole` | the console's pages of keys, goals and a website's settings, in one tab | `AccessKeysProofs` |

How they meet: `Ingest` refines `CountOnce`, and `BrowserQueue` uses `CountOnce` as its collector, so the
end-to-end statement (what a browser sends again is not counted again) is made of two halves that meet at
one abstract specification. `Housekeeping` extends `Reports`: what the job deletes is what the reports
read. `WebsiteAdmin` takes the verdict on an address and an origin as operators; the algorithms behind them are in
`Matching`, which the same run checks.
`Page` and `Clicks` share the address bar, which `Clicks` lets move at any time; what they observe is
what `BrowserQueue` is given. `Operator` writes the environments file that `Console` reads;
`Dashboard` is the page in front of the service whose registry `Console` is (there it is one variable, the
environment selected, which other tabs move). `Manage` is the inside of three of its pages, with the rest of the
page reduced to what they see of it: where the person goes, the list of websites, and when it is refreshed.

## Inventory

For each part: its state, its operations, what is hard about it, what makes it correct, and whether it
is modelled here.

### Collector (`apps/ingest-api`, `apps/ingest-worker/src/storage`)

* State: in D1 the quota windows, legacy daily and hourly counters, minute counters, the ledger of seen
  events (`dashboard_seen_events`) with the nonce of the request that inserted a row, excluded hits,
  decisions; in R2 one object per accepted batch.
* Operations: `ingestBatch` (validate, verify the token, authorise the website, drop excluded addresses,
  reserve quota, store, count, decide); the same path is used for the tracking pixel.
* Hard: every `await` lets other requests in; a retry is a second delivery of the same events; a D1 call
  may fail between two others; an isolate may be evicted anywhere; the Worker may run before the
  migrations it needs.
* Correct when: an event is counted once however often it is delivered; a 202 means stored and counted;
  a refusal leaves nothing; limits hold with concurrent requests; every request is answered.
* `Ingest`, refining `CountOnce`. Modelled except: which of the refusals a request gets, counters per
  minute and per dimension (one counter per website and metric stands for them; `Reports` has what each
  minute table keeps), and visitors and the expiry of ledger rows, which are in `Housekeeping`.

### Access keys (`storage/d1-repositories.ts`, `http/admin-adapter.ts`, `auth/principal.ts`)

* State: the `access_keys` table. Operations: create, rotate, rename, revoke, use, and their purge.
* Hard: each is a sequence of D1 statements; `updateAccessKey` reads a row and later writes whole columns
  back; the audit entry comes after the change it records; the limit is a read before an insert.
* Correct when: revocation is final whatever was read before it; a secret handed out is the one stored;
  a key stores only its own secrets and labels; the limit holds up to requests that run together.
* `AccessKeys`. Modelled.

### Deletion and purge (`storage/purge-deleted.ts`, `setProjectStatus`, `setSourceStatus`)

* State: the status of projects and websites, their rows in 27 tables, their objects in R2; per run its
  targets, the prefix and page it is at, the table it is at, and a budget of 40 calls.
* Operations: delete a website, delete a project (two updates), a purge run (from the cron or an admin
  request), and every request that writes rows or objects for a website it checked earlier.
* Hard: runs overlap, stop at the budget, fail or are lost; each `DELETE` evaluates its own `WHERE`;
  website creation and deliveries write after their check; the rows of `sources` and `projects` are the
  only thing that leads to objects in R2.
* Correct when: nothing live loses anything; every object stays findable until it is gone; "complete"
  means gone; what is deleted is purged in the end, which the code's budget does not always allow (see Findings).
* `Purge`. Modelled, except the dry run, which changes nothing.

### Browser SDK (`packages/browser-sdk`)

* Queue and transport: a bounded queue, flushes started by every event and by a timer, three batches per
  flush, an abort timer, requeueing. Hard: flushes overlap; a request that timed out may have been
  counted, or may arrive later; a refused batch takes good events with it; the queue overflows at either
  end. Correct when: no event vanishes or is doubled, counts are honest, a refusal stays within its class,
  nothing blocks the queue. `BrowserQueue`. Modelled; an opted-out browser has no queue.
* Clicks (`actions.ts`): per control the recent clicks, per minute the actions and bursts, and the last
  press. Hard: three windows and two limits over one clock; a router moves the address before the click is
  seen; maps that are pruned. Correct when: bursts and actions are reported exactly when the windows say,
  each for the page it was made on. `Clicks`. Modelled.
* Start and navigation (`dynamic-config.ts`, `embed.ts`, `index.ts`, `ignore.ts`, `navigation.ts`): tags and
  loaders that each may start a client; the history methods, wrapped; the opt-out, in the address and in
  storage. Hard: loaders race through a fetch; others wrap the same methods; the address may be tidied
  before the SDK runs; microtasks. Correct when: no page is missed or counted twice, no second client starts
  that a loader could have seen, an opt-out holds. `Page`. Modelled.

### Settings and goals (`admin-adapter.ts`, `d1-repositories.ts`, `denial-audit.ts`)

* State: the row of a website, the status of its project, its goals, the audit, the gate on denial audits.
* Operations: edit, disable, delete, delete the project, add and remove a goal; `Migrate`. Beside them a
  delivery reads the website, then its project, and decides.
* Hard: `updateSource` reads a row and writes whole columns back; a column may be missing; the audit is
  written after the change; roles and scopes.
* Correct when: a website that was stopped collects nothing more; an edit changes what it names; what was
  changed is in the audit or was answered with an error.
* `WebsiteAdmin`. Modelled. Creating websites and projects is in `Purge`.

### Pixel, salts, retention, reports (`daily-visitor.ts`, `pixel.ts`, `index.ts`, `d1-repositories.ts`, `*-reports.ts`, `*-rollups.ts`)

* State: the minute tables, `pixel_paths`, `daily_visitor_salts` with a copy in every isolate, the job.
* Operations: count a view or a pixel hit (salt, slot, count), the daily job (passes of batches over the
  tables that may hold more, one by one where a table is missing, then the salts), reports.
* Hard: the job overlaps requests and itself fails; salts are cached; a slot is refreshed at most once a
  day and freed by the job; reports over the last 30 days race the deletion after 32.
* Correct when: no report misses a row, a visitor has one identifier a day, the cap on paths holds and known
  paths keep their slots, what has expired goes; the figures of all reports agree with each other.
* `Housekeeping` and `Reports`. Modelled, except how browsers and referrers are classified.

### Operator tools (`apps/cli`, `apps/local-ops-api`)

* Deploy, update, rotate, env: resources and secrets in Cloudflare, the environments file, what the person
  has been shown. Hard: every external call may fail, or be carried out and reported as failed; commands
  overlap and are interrupted; the Worker changes before the file does. Correct when: the admin key is never
  out of reach, a creation uses only what it created, a deployment that says it succeeded is complete.
  `Operator`. Modelled.
* Local console: a registry that verifies the environments file at most every 30 seconds, joins checks that
  run, keeps the choice and one client. MCP server: a session's own choice, and a check it keeps. Hard: the
  file is rewritten, and choices are made, while checks are awaited. Correct when: requests follow the
  file, a choice counts, a session's choice is its own. `Console`. Partly: the routes that proxy to the
  Worker and the tools that translate to admin requests are one kind of request each; sessions, static
  files, reachability and the setup stages are left out.
* Console web page (`apps/admin-web`). State: whether it is connected and which environment it shows; the
  scope (project, website, range, the project's list of websites) and its copy in the browser's storage; what
  each screen shows; requests under way. Operations: connect, choose an environment, navigate, choose a
  project, website or range, load lists and reports, and add, edit, switch or delete websites and projects.
  Hard: every answer may come after the person has moved on, or after answers to later requests; a change
  goes on when its page is left; a refresh after a change cannot be cancelled; other tabs and computers move
  the selection and delete what is shown. Correct when: a report is of the scope chosen by now, a list is the
  current project's, what is shown as the backend is the one changed. `Dashboard`. Partly: the health and install
  pages, collection policies, maps, theme and wording are left out.
* Its pages of keys, goals and settings. State: on the page of keys the form, the list, the websites by project and
  the one key that is shown; on the edit page what was typed; on a website's page its goals; whether each is
  busy. Operations: create, rotate, rename and revoke a key, save the settings, enable or disable, add and remove
  goals. Hard: what a key is for is kept in three places that the page, the menu at the top and the form each set; the
  components stay while the address moves to another website; answers arrive when another page is there, and
  a secret is in one answer only; a refresh changes what a form is compared with. Correct when: a key is for what the
  form says, a save and a list are the website's and the person's own, every secret that works was shown or
  its answer lost, and no page stays busy. `Manage`. Modelled: labels, roles and the confirmation of a change are left
  out.
* Deployment with a profile (`apps/deploy-cli`). State: the profile, digest, plan and receipt files, the Wrangler
  configuration, the account. Operations: configure, plan, check, apply; verify and status. Hard: commands of
  several actors overlap on the same files; a plan and its check grow stale; three calls change the account, any
  of which may be carried out and reported as failed; each call reads the configuration again. Correct when: what
  is changed was checked by who changes it, with that very plan and in time; a Worker that is deployed has its
  database and the secret of the digest file. `Deployment`. Partly: the audit file, verify, status and OneCLI's
  own lookups are left out.

### Pure parts

* Token verification is cryptography: its outcome is an input. Address ranges, path grouping, page keys
  and date ranges are in `Matching`, each beside a reference definition. The field checks of single events
  are left out.

## How the models correspond to the code

Common to all of them:

* A D1 statement, a D1 batch (one transaction) or an R2 call is one step; between two of them anything
  else may happen. A failed call has written nothing. An evicted isolate runs no `finally`.
* A handler is a program counter per request (`pc`), named after what it awaits next; the local variables
  it keeps across an `await` are functions of the request.
* Events, ids, secrets and labels are model values. What is random in the code is named after the request
  that generated it, which makes it unique, as the random value is.
* *History* variables, marked in the declarations, only record; no guard reads them.
* Definitions introduced by a "Mutant" comment are not part of a specification: each is the definition
  that follows it with a plausible bug, and `PROJECT.json` names the property that finds it.

### `Ingest`

A request arrives with any non-empty set of events (`Arrive`); duplicates and retries are other requests
with the same events. `authorize` stands for everything before the quota: it may refuse for any reason,
must refuse a website that is not `active`, may drop an excluded address. `second` and `day` are the two
upserts of `reserveQuota`, whose insert branch compares with no limit (`Fits`). `put` stores the object;
`rollup` and `hourly` are the legacy counters, one event at a time and without deduplication. `main` is
the transaction that writes ledger rows with `INSERT OR IGNORE` under the request's nonce and counts the
events whose row bears it; `campaign` and `rage` are the later transactions under the same nonce;
`release` clears it and `decide` saves the decision. `schema` is the last migration applied: without its
table `main` fails as a whole for a custom event, while campaign and rage counts are skipped. The website
read by `authorizeSource` is the one the handler uses to its end. A batch is a set: two events of one
batch never have the same id, which the SDK guarantees.

`won[r]` (the ledger rows a request inserted) and `late[r]` (the late transactions it finished) are
histories. The refinement maps `credited` to the union of `won` per website and `counter` to `tally`.

### `AccessKeys`

`find`, `write`, `mark`, `insert`, `audit` are D1 statements; `row[c]` is what `updateAccessKey` read.
The write touches an active row only, and the answer does not depend on whether it touched one. `PurgeKey`
is the effect of `Purge` on this table. `before[c]` is the history that tells which requests overlap.

### `Purge`

`status[o]` is the row of a project or website: `none` (not created), `live`, `deleted`, `purged` (no row).
A disabled website or project counts as live: the purge does not tell them apart. Rows of the other
tables are triples of table, owner and writer; the data tables are numbered, the last five by name. A run
lists projects, then websites (two queries), then lists and deletes pages of the prefix it is at, then
goes through the tables. `targets` survive a complete run as a history of what it promised. The rows a
handler reads before its first write are read in one step: deletion is terminal, so a second read that
still finds a website live could have been made at the first. A table the database does not have yet is
one in which no row was written. A statement or a page that is limited takes any portion of that size.
`BudgetOf` is `operationBudget`, 40 unless the caller of `purgeDeleted` gives another.

`stray` (requests that wrote for an owner no longer live) and `missed` (owners deleted after a run under
way had listed) are the two exceptions that the code has, and the properties state exactly them.

### `BrowserQueue`

`taken[f]` is what flush `f` drained and has not settled, sorted into its three classes (`OfClass`), `wire[f]`
the request it awaits. `Turn` is the first class with anything left, and `Batch` what there is of it. A drain and the start of its first request are one step,
as in the code, which does not `await` in between. A request that timed out is `loose`: it may arrive
later or never. A batch is acceptable when no event in it is `Unknown` to the backend or `stale` (older
than a day); byte sizes are left out, so no batch is refused for its size. The collector credits a batch
in one step, and may still answer with an error. Class "plain" stands for page views and custom events,
which the collector counts in different tables.

### `WebsiteAdmin`

A request of a caller with a role and a scope (`Arrive`) goes through the checks of the handler (`FirstStep`,
`MayWrite`), then its D1 statements. `ReadRow` and `WriteRow` are the two halves of `updateSource`: `Edited`
keeps from the row read (`seen`) the columns that are written every time (`WrittenBack`: name, origins,
status), and from the row in the database those that are written only when named. A write that names a
column the database lacks fails as a whole (`Migrate` adds it). `Fail` is a D1 call that fails: it is
answered with an error, before or after the change. `gate` is the one-minute gate on denial audits;
`IntervalPasses` opens it. A delivery reads the website (`FindSource`), then its project, and decides
(`Decide`) on the columns it read. `stop` is a history: the request that stopped collection last, reset by
an edit that starts it again, which includes one that read the row before the stop and writes it back.
`setSourceStatus` and `setProjectStatus` read the row again after their update and answer 404 when it is gone
(`d1-repositories.ts:702,789`). Here rows never go, so that read always finds its row and is left out; see Findings.

### `Matching`, `Reports`

`Matching` holds the functions as operators over short bit strings and segments, each followed by what the
documentation says of it. A table in `Reports` is the set of counted events that still contribute to it;
`Row` is what its primary key groups by, `SUM(event_count)` a cardinality, a visitor table's identifiers the
distinct visitors. Both are constant expressions: their run asks them in any state.

### `Housekeeping`

Time is a number; a day has `Day` of them. `Arrive` starts a view or a pixel hit in an isolate; `InsertSalt`
and `SelectSalt` are the two statements of `dailyVisitorSalt`, skipped when the isolate has today's cached;
`InsertSlot`, `RefreshSlot` and `KnownSlot` are the statements of `admitPixelPath`; `Count` adds the event to
the tables. One request is under way at a time, beside the job: two isolates interleave through what
they cache. `Start` fixes the job's boundary; `Pass` is one transaction over the pending tables, and keeps
those that returned a full batch; `Single` tries them one by one after a pass failed for a missing table;
`DeleteSalts` ends a run; `JobFails` ends it anywhere. An event that was counted where a table was missing
is marked `lost` for that table. `made` and `counted` are histories.

### `Clicks`

`now` is the clock (`Wait`), `location` the page in the address bar, which `Leave` moves between events. `Press` is
`begin`, `Click` the handler for a click on a control, with the page a router may have gone to (`GoTo`) in a
listener that runs before it; `OtherClick` a click the handler returns from early. The lists of instants
(`stamps`, `rageStamps`, a burst's `clicks`) are sets of notes, each the number of a click and its instant: the
code only filters and counts them, and shifting the old ones off the front is a filter because the clock does not
go back. `clicks` is the history the properties are about: what each click was attributed to, and whether it
was reported as an action or a burst; `leftAt` is another, of when each page was last left. `held` is the press a
real click is attributed to; one whose press a key or a script's click came after is not among the `real` ones
(see Findings).

### `Page`

A script tag or a loader's script is a *script* with a life (`absent`, inserted, ran, failed); a client is what
it started. `LoaderRuns` is the part of the loader before its fetch, `ConfigArrives` the part after it. A
microtask (`Check`) runs before the next task: steps that need a task have `Quiet` as their guard. `history`
holds the wrappers of `pushState` and `replaceState`, outermost first; `Library` is someone else's; `Freeze`
makes a page whose methods cannot be replaced. `late` is a history: tags no loader could have seen.

### `Operator`

A command is a record in a terminal with a program counter named after the call it makes next. `Make`, `Store`
and the writes have an outcome: done, failed, or done and reported as failed; `Interrupt` ends a command
anywhere. A secret is the number of the command that generated it. `file` is the environments file; a
command keeps what it read and rewrites the file from that, as the code does, so commands may undo each
other. `held` is what the person was shown or has in a vault. Reading the file and writing it in
`addEnvironment` is one step (no `await` between them). Refused commands change nothing and are left out.

### `Deployment`

An actor has one command at a time, `run`, whose `pc` names what it does next; `after` is where it goes when the
digest file or the inspections are done with, since `configure` and `apply` share the first, `check` and `apply` the
second. `configure` is `Configure`, the steps of `ensureAnalyticsDigest` (`Look`, `CreateFile`, `FillFile`) and
`WriteProfile`; `check` is `Check`, `Inspect` (all inspections as one answer) and `WriteReceipt`; `apply` is `Apply`,
`Inspect`, `Migrate`, `SecretsListed`, the digest file again, `PutSecret` and `DeployWorker`. A call is answered,
fails without effect (migrations may be applied in part), or is carried out and reported as failed or timed out
(`lost`); `CutOff` kills the command. A plan is named by the number of the command that made it, which stands for the
digest of its content and time; digests of the profile and the configuration are these themselves. The database is named
to Wrangler, from the configuration as it was read once; the Worker is the one in the configuration by the time of the
call (`EditConfig` changes it at any time), which `slipped` notes. `checked` is a history too.

### `Console`

`past` is every content the file had; its length is what mtime and size tell of it (a rewrite is assumed to
change one of them). A check is of the content it began with and may find any of the environments defined
there usable. `registry` is the service's `Registry`; `Checking` starts a check unless one runs, and `FinishCheck`
draws the conclusion of `check`, where the choice is read. A request first refreshes (`Ask`), then takes the
client (`Capture`) or selects (`Select`, `Choose`, `Refuse`) or forces a check (`Recheck`). Whether 30 seconds have
passed is open: a fresh check may be repeated. A call of the MCP session reads the file, then takes the
environment it names, the session's, the only one, or a default after a check (`TargetNamed`, `TargetChosen`,
`TargetOnly`, `TargetKept`, `TargetChecks`, `CheckEnds`).

### `Dashboard`

`app` is what `App` holds (the access state and the environment shown), `connects` the runs of `connect` under
way: the list of environments is answered (`AnswerList`), arrives (`ListArrives`), then the projects arrive
(`ProjectsArrive`), which mounts the scope with what the browser remembered. `selects` are choices from the
backend menu: the service changes its selection (`AnswerSelect`), then the page reconnects (`Switched`).
`Moved` is another tab. Everything that sets the scope or the address goes through `Render`, which does what
React does after it: a new project clears the list and asks for its own, saves the scope, and every screen
whose key changed (`Key`: the dependencies of its effect) aborts its request and makes a new one. `works` are
changes: the request (`AnswerWork`), then the refreshed list (`AnswerRefresh`), then what the handler does with
it (`Finish`), with the project it closed over; `here` tells whether its page is still shown, `alive` whether its
scope is still mounted. Of requests aborted or cancelled, whose answers nobody heeds, one of each kind is
kept. `unheard` and `outlived` are histories that the properties exempt: the selection moved where this page
cannot know; a refresh of another project was shown.

### `Manage`

`page` is what is on the screen; `Show` mounts another, with the state its components start with, and orphans or
drops what the one before asked for. `Go`, `ChooseTop` (the project menu) and `Jump` (the same page for another website,
which the router does not remount: `Become`) are how the person moves. `access`, `form` and `panel` are the states of
`AccessKeys`, `WebsiteForm` and `GoalsPanel`. A request (`sent`) is answered by the backend (`ReplyTo`), then
arrives (`Settle`), or fails before or after the backend did what it asked (`FailRequest`); `alive` tells whether who
asked is still mounted. `Needed` is the effect that asks for the websites of the projects the form or the list
names, after every change of them (`Holds`). `refresh` is the second half of a save; a change of availability and the
refresh after it are one request. The settings have two fields, of the kinds that `submit` distinguishes: sent always, and sent
when they differ from the list. Of a key `project`, `website` and the number of its secret are kept; `said` is what
the form named when the key was asked for. A new project's list of websites is there at once (how it loads is
`Dashboard`). `Others` is another console.

`told`, `lost` and `strayed` are histories: secrets that were on the screen, secrets whose answer nobody saw, and that the page
became another website's with its form, or a goal being added, still there. `under`, in the form, notes that a
refresh changed its website in the list.

## Runs

`purge_backlog` is expected to fail: it shows a disagreement between the code and its documentation (see Findings).
In every other run TLC finds no error.

| Run | Instance | Distinct states | Shows |
| --- | --- | --- | --- |
| `ingest` | 2 requests, 2 websites of a project, a labelled page view and a rage click, 2 seconds over 1 day | 350,640 | late counters, quotas and answers under every interleaving and failure; `ImplementsCountOnce` |
| `ingest_upgrade` | 2 requests, 1 website, 3 kinds of event, a database at migration 3 | 302,678 | exact counts while tables appear; every request is answered |
| `access_keys` | 4 requests, limit 1, 2 creates at a time | 1,801,523 | revocation, limit, rotation |
| `purge` | 2 runs, 2 requests, 1 project, a website and one that may be created, an earlier delivery, a failure | 3,507,311 | safety of overlapping runs and late writes, wherever a run stops |
| `purge_backlog` | the code's numbers: 1 run of 40 operations at a time, 27 tables, 13 deleted websites of a live project | 121 | a violation: they are never purged |
| `browser_queue` | 3 events, 2 flushes, a queue of 2, 3 failures | 145,854 | the queue, and that nothing blocks it |
| `website_admin` | 2 requests of 3 callers, 1 delivery of 8 senders, a missing column, a failure | 906,724 | stopping stops, edits keep the rest, changes are audited; the pure algorithms |
| `housekeeping` | 2 isolates, 2 of 3 kinds of event, 3 days, 2 of 16 tables, one of them missing, a failure | 1,087,790 | reports are whole, one salt a day, slots, what expired goes; figures agree |
| `browser` | 2 pages, 2 controls, 4 clicks and presses, 4 instants; or a tag, 2 loaders, 2 navigations, another library | 3,834,024 | bursts, actions and their pages; navigation is counted once, one client |
| `operator` | 2 terminals, 2 environments, 4 commands, a failure or interruption; or 2 actors, 2 configurations, 2 profiles, 6 commands or edits, a failure or kill | 1,899,529 | the admin key; deployments that report success, and what a creation may use; deployments with a profile are checked and complete |
| `console` | 2 requests and 2 calls, 4 contents of the file, an edit; or a tab with 2 projects, 3 websites, a key, a goal, 5 things done, a failure | 1,479,784 | requests follow the file, choices count; keys are what the form says, saves and lists keep to their website |
| `dashboard` | 2 backends, 3 projects and one to come, 2 websites, 2 ranges, 4 things done | 1,581,487 | reports and lists are of the scope, the backend shown is the one that is changed |

Bounds, and why they are enough:

* Requests: two show every race between two handlers, the pairs at which the code races; keys need a
  third to follow a race and get a fourth. In the proofs their number is arbitrary.
* `MaxPerSecond` 1, `MaxPerDay` 3 and batches of up to two let a first batch exceed the second's limit, a
  second one be refused, and a day fill up. `SecondsPerDay` 2 and `LastSecond` 1 give two windows of a day.
* `MaxCreating` bounds concurrent creates, and with it how far the limit of keys may be passed.
* `PageSize` 1 and `RowsPerStatement` 2 make listings truncated and tables need a second statement.
  `DataTables` 1 of 22 tables: they share one `WHERE`; the others are all there. A delivery beside the earlier
  one makes a second page; two requests are a delivery, or a creation, that passed its check before the other one
  deletes. 11 operations of 40 complete a run over two prefixes, and end inside the tables when there is one more
  page; a run of 5, alone, ends inside a prefix of two pages.
* `MCPurgeBacklog` has the code's numbers and nothing else: no request, no failure, no other run. With 12 websites
  instead of 13 the tables are within reach and `DeletedIsPurged` holds; more tables or pages make it fewer.
* `MaxTroubles` 3 in `MCBrowserQueue` lets both flushes fail and one fail again, which is what it takes for
  a requeue to overflow the queue.
* `MCWebsiteAdmin`: one column of each sort that matters (written back, named only, possibly missing), with
  two values; 8 senders take every branch of the token and origin checks. `Matching`: widths of 2 and 4 bits,
  paths of 3 segments.
* `MCHousekeeping`: `Keep` 3 with `Day` 2 and `MaxReport` 2 have the proportion of 32, 1 and 30 days that
  matters: what a report reads and what is kept differ by one. `Horizon` 4 spans three days, so the job runs on
  two of them. `BatchRows` 1 makes a batch full. `Reports`: every set of up to three of the sample events.
* `MCBrowser`: windows of 1, 2 and 3 instants keep the order of 500 ms, 1 s and 5 s; limits of 1 and 2 fill.
  That more than `MaxKeys` controls make the watcher forget a cooldown takes five real clicks and is beyond
  this run; `BurstsAreReal` names it, and its proof covers it. It also holds `Page`, and a behaviour is of one of the
  two: they share nothing but the address. Two navigations leave a page and come back.
* `MCOperator`: four commands are a creation that fails, its resumption, a rotation and an update. Two secrets:
  the admin key, and one that is not in the file. It also holds `Deployment`: the two tools share nothing, so a
  behaviour is of one of them. Six commands or edits (`MaxRuns` 7, counted from 1) are two configurations that race for the
  digest file, or one with two plans and an edit, before a check and an apply; `TTL` 1 and `MaxTime` 1 let a receipt expire.
* `MCConsole`: `MaxAsked` 2 is two requests, or two calls, or one of each; `MaxEdits` 1 with the
  check that overlaps it. It also holds `Manage`, and a behaviour is of one of the two. Two websites in one
  project and one in another are what it takes to choose a website, then another project, and to jump
  between pages; five things done (`MaxActs`) choose a kind, a website and a project before a key is asked for, or leave a
  page while it saves. A failure is needed once; answers are not bounded.
* `MCDashboard`: one backend has a project with a website, one that may get one, and one to come; the other
  backend has a project. Four things done by the person or by others are what it takes to leave a page, change
  the scope and come back while an answer to something begun before is awaited; answers are not bounded.

The properties are those that several steps are needed to violate. Type invariants (`TypeOK`) are proved
wherever there are proofs, and hold in the runs of the other modules when added to the cfg. Eight properties are
stated but listed by no run. Seven are proved: `LegacyNeverBehind` and `NonceHeldOnlyMeanwhile` of `Ingest`, `OptOutHolds` of
`Page`, `RefusalIsOwn` of `BrowserQueue`, `SessionKept` of `Console`, `SecretsAreShown` and `BusyIsAwaited` of `Manage`; each
holds in its run when added to the cfg. `ExistingSecretsKept` of `Operator` does not hold (see Findings).

Symmetry is used where the members of a set are interchangeable (requests, calls, terminals, websites of a project, earlier
deliveries) and only in runs that check no liveness.

Deadlock is checked in `ingest`, `ingest_upgrade`, `purge` and `purge_backlog`; the other runs end when every request, click,
command or event has been used up.

## Fairness

* `Ingest!FairSpec`: weak fairness of each handler. An awaited D1 or R2 call settles, with a result or an
  error, and the runtime resumes the handler unless it evicts the isolate. Nothing is assumed of arrivals,
  crashes, the clock, the console or the operator; `Answered` allows for a lost isolate.
* `Purge!FairSpec`, in `purge_backlog`: weak fairness of each run's steps, `ListProjects`, which starts one,
  included: the cron fires every day, and calls settle. The counterexample is fair: complete runs, one after the other.
* `BrowserQueue!FairSpec`: weak fairness of each request (the abort timer settles it) and of the flush,
  which holds for clients with `flushIntervalMs`. The embed script sets none: there a requeued event waits
  for the next page view or click. Failures are bounded by `MaxTroubles`; with an outage that never ends
  nothing can settle.
* `Housekeeping!FairSpec`: weak fairness of time, of the job's start (the cron) and of its steps and the
  request's, whose calls settle. Failures of the job are bounded; arrivals and migrations are not assumed.

## Findings

**A backlog of deleted websites is never purged** (`purge_backlog`, `DeletedIsPurged`). A run has 40 operations
(`purge-deleted.ts:18`) and starts over each time: two queries, a listing for every deleted website of a live
project (`purge-deleted.ts:66`), a `DELETE` for each of 27 tables (`d1-repositories.ts:1490`), `sources` the 26th. With
13 websites 25 operations are left for the tables, so the rows of `sources` stay and the next run lists the same
prefixes again. `docs/operations/cloudflare.md:312` says "the next daily run removes all its data", `:322` "run is
bounded, so a large purge may take several passes; the command handles that", `d1-repositories.ts:1486`
"rerunning resumes where it stopped".

`vizoalica env update` reads the Worker's secrets with `wrangler secret list` and ignores its exit code
(`apply.ts:259`). When the listing fails, the plan finds no secret and the update replaces all of them, the admin
key included, while `plan.ts:55` and `apply.ts:133` promise that existing secrets stay. Adding
`ExistingSecretsKept` to the PROPERTIES of `MCOperator.cfg` shows it.

Met while modelling, and told by what the properties exempt:

* Collector. A duplicate delivery adds to the hourly page views and visitors again
  (`d1-repositories.ts:379`); `specs/007-dashboard-visual-refresh/quickstart.md:117` says duplicate ids increment
  no metric twice. `LegacyNeverBehind` therefore only says never *behind*; no run
  lists it.
* Access keys. A rename that read the row before a rotation wrote it restores the previous secret
  (`d1-repositories.ts:1649`); `AccessPage.tsx:82` tells the operator the old one stopped. When the audit entry of a rotation fails,
  the answer is an error, which `AccessPage.tsx:301` shows as "Nothing changed"; the stored secret has, and nobody
  was shown the new one (`admin-adapter.ts:380`).
* Purge. Rows are deleted by a fresh look at `status`: a website deleted while a run is under way loses its row,
  its objects stay (`purge-deleted.ts:76`).
* Settings. When a purge run deletes the row between the update of `setSourceStatus` and the read that follows it,
  the answer to an applied deletion is a 404 and its audit entry says denied (`d1-repositories.ts:789`).
* Housekeeping. A slot is refreshed at most once a day, so a path seen 31 days and some hours ago may lose it
  (`docs/operations/pixel.md:58` says 32 days). A path deleted between the insert that ignored it and the look that
  follows is refused, although `d1-repositories.ts:1305` says a counted path is always admitted.
  `dashboard_hourly_page_views`, `hourly_visitors` and the first rollups are in no retention list (`:1412`: "so no
  table grows without bound"). Reports over a range older than the retention say they are complete.
* Matching. `normalizePagePath` is not idempotent where its cut at 1024 falls inside an escape.
* Clicks. A press followed by a click on something that is no control leaves the press set, so a synthetic click
  within five seconds counts for the old page (`actions.ts:172`). Beyond 200 keys a cooldown may be forgotten
  (`actions.ts:45`).
* Page. With another library's wrapper on top, `stop()` leaves navigation reporting (`index.ts:23`). A tag without
  an endpoint cannot be seen by loaders until it ran, and one parsed after an insertion makes a second client. The opt-out
  is read at the start only.
* Operator. A failed health check, a lost report of the secrets' upload, or an interruption loses a generated admin
  key, though `apply.ts:305` and `deploy-command.ts:419` advise to resume; what helps is `env add --no-verify`
  and a rotation. Overlapping commands lose updates of the environments file: the last writer wins.
* Deployment with a profile. Once migrations were applied, even in part, every later check and apply refuses the
  database (`fresh-schema.ts:74`). `docs/operations/cloudflare.md:522` advises after an interrupted apply to make a
  new plan and receipt before retrying, and a failed migration is reported as safe to retry (`provider.ts:115`); such a
  retry can only end in `existing_schema`. Calls about the Worker read the configuration again, after the plan's digest
  of it was compared: one edited during an apply gets another Worker the secret or the code, which is what `slipped`
  exempts. A digest file whose creation was cut off before it was filled is refused from then on.
* Local console. Its snippet takes the address of the environment selected after the check it awaited
  (`server.ts:441`; `specs/018` SC-015). A selected environment that cannot be used falls back to the first usable
  one in silence. An MCP call that picks a default while `use_environment` runs overwrites the choice
  (`docs/operations/ai.md:60`).
* Web page. A refresh of the websites that outlives its project shows the old project's websites under the new
  one, and leaves that one loading when its own list came first (`ScopeProvider.tsx:214`, against the comments at
  `:70`); it is what `outlived` exempts. Choosing A, B and A again before B's list loads shows A as having no
  websites until its list is there (`ScopeProvider.tsx:132`, `WebsiteGate.tsx:7`). Of two refreshes the one served
  first may arrive last, and shows a website that is deleted or drops a new one. A remembered website is applied
  to the first list that arrives, of whichever project. A change that ends after its page was left still
  navigates the person away. Requests name no environment: after another tab's choice the page works on a
  backend it does not show, which is what `unheard` exempts.
* Pages of keys and settings. When the address of a website's page of keys becomes another website's, the form stays
  with the website it was opened for (`AccessPage.tsx:152`) while it names the new one (`:222`): the key is then for the
  first (`:261`). This is what `strayed` exempts; it also exempts a goal whose answer arrives on another website's
  page (`GoalsPanel.tsx:75`), where it is listed. A field counts as changed when it differs from the list by
  now (`WebsiteForm.tsx:142`): a refresh that arrives under the form makes a save write back old values of fields the
  person did not touch, which is what `under` exempts. A save whose page was left takes the person to the website's
  page when it ends (`WebsiteEditPage.tsx:46`). A key created by an answer that fails, or that arrives after its page
  was left, works with a secret nobody has seen.

## What is proved

For every value of the constants that satisfies the assumptions of the module; TLC evaluates those
assumptions in every run.

**`IngestProofs`**: `TypeCorrect`; `CountsAreExact` and `LateCountsAreExact` (each credited event is counted
exactly once, by the main and by the later transactions); `IngestImplementsCountOnce`. `CountedOnce` is not
inductive: a count is right because of what the ledger holds. `NonceInv` adds that no two requests of a
project insert the same event and that, from its main transaction to the release, the rows that bear a
request's nonce are exactly those it inserted (`NonceInvariant`). A main transaction is then a `Credit`
step of `CountOnce`, every other step a stutter. Assumptions: finitely many events, `Absent` and `Released`
different from every nonce.

Its second part proves `AcceptedMeansCounted`, `RefusedMeansNothing`, `NonceIsReleased`, `LimitsHold` and
`LedgerKeeps`. What an answer means is carried step by step by `AnswersInv`: before `PutObject` a request is
nowhere, after it its batch is stored, after the main transaction all its events are in the ledger, and past
the late transactions their counts are made unless a table was missing (migrations are never undone). It
needs `LedgerKeeps` (a row that is there stays) and `NonceInv` (a refused request has credited nothing).
`HeldInv` says that a nonce found in the ledger belongs to a request that may still release it, or failed;
`LimitInv` that a request which reserves has passed the limit on its size, and a batch of that size fits
an empty day (`MaxPerBatch <= MaxPerDay`, assumed, true of the only policy the console creates).

Its last part proves `LegacyStaysAhead`: the older counters, written first and not deduplicated, are never behind
the deduplicated one. `WriteInv` says where a request is in writing them, event by event, and that nothing is left
when its main transaction runs. `HourInv` says that the hourly counter is the number of pairs of a request and a view
it has counted, and that the daily one is ahead of it by the views whose second write is under way at least. A
credited view was inserted by one request, whose pair with it is one of those counted, and no two credited
views share a pair.

**`AccessKeysProofs`**: `TypeCorrect`, `RevocationFinal`, `RevokedNeverWorks`, `RowsAreOwn`, `RotationHolds`,
`KeysAreCapped`. `KeyInv` says that a key exists once its create has inserted it, that a row read for an
update is a row the key had, and that a revoke past its write has left the key inactive. `StickInv` extends
the rotation's promise to the time before its answer and to the rows that renames have read: without it a
later rename could write anything. `CapInv` counts active keys together with the creates that have passed
the check. Assumptions: finitely many requests, a positive limit.

The same module proves, of `Manage`, `ManageTypeCorrect`, `KeysAreAsDescribed`, `PagesKeepToTheirOwn`,
`BusyPagesAreFreed` and `SecretsWereShown`. Types come first, since a request's answer is read where it arrives.
`KeyAsDescribed` compares what the form names, from the list of websites it finds the chosen one in, with what it asks
for: `KeyFormInv` says that on a website's page, unless it strayed, the form holds that website, and on the page of all
keys only a website of the project it holds, whose list has loaded; `SitesInv`, that a project's websites are asked
for once, so that a list which has loaded is not awaited or taken back. For
`KeepsToTheirOwn`, `CleanInv` says that an untouched field is as listed unless a refresh came under the form, `SaveInv`
carries it to the saves under way, and `GoalsInv` says that whoever would put goals into the panel asked for the
website shown. `BusyInv` is `BusyIsAwaited` with the fact that a page which is not on the screen
is not busy. `SecretsAreShown` is inductive with the types: a secret goes from the backend to an answer, and from
there to the screen or to `lost`. Assumption: `Nil` is no project, website or secret.

**`PurgeProofs`**: `TypeCorrect` (a run never overspends its budget), `LiveStays`, `RowsLeadToObjects`,
`CompleteIsComplete`. The inductive invariant `PurgeInv` has six parts: types with what a run's variables hold
at each stage (`StageInv`) and that an id being created belongs to one request (`RequestInv`); a run works
only on what is dead (`DeadInv`); whatever is deleted is a target of every run past its listing, or missed
by it (`CoverInv`); a finished prefix holds only stray objects (`PrefixInv`); finished tables hold only
stray rows (`RowsInv`); a complete run's targets are purged (`CompleteInv`). `RowsLeadToObjects` needs
`CoverInv` and `PrefixInv` together: a row goes only in the last tables, so its prefix was finished or its
owner missed. Assumptions: disjoint projects and websites, positive page and statement sizes, a budget
that pays for the two queries.

**`WebsiteAdminProofs`**: `TypeCorrect`, `StoppedStaysStopped`, `ChangesAlwaysAudited`, `EditsAlwaysKeepOthers`.
`StoppedIsStopped` is about two reads of the collector and an edit's read and write. `JobInv` ties what a request
has written, and the audit, to the step it is at. `StopInv` says that the website is off while a stop stands;
for that to survive an edit's write it must also say that whoever read the row after the stop read one that
is off. `HitInv` carries it through a delivery: one that began after the stop and is past the first read with an
active website will find its project deleted. Assumptions: the edits name columns and their values, and a
column that a migration adds is not one of those always written back.

**`HousekeepingProofs`**: `TypeCorrect`, `OneSalt`, `ReportsStayWhole`, `PathsStayBounded`. `SaltInv`: until its day is
over a day has had at most one salt and still has it, because the job deletes only those of days before its
own boundary, and that boundary never runs ahead of the clock (`KeptInv`). So whoever takes an identifier on
its day takes salt number one, from the table or from a cache. `ReportsStayWhole` follows from `KeptInv` and
from what one transaction of the job may delete (`DeleteKeeps`), whichever tables and rows it picks. `SlotInv` bounds the
slots of a website and says that a path counted has a slot that was seen at most a day before, as long as that
slot is kept. Assumptions: what is kept exceeds what a report reads (32 and 30 days) and is at least a day.

**`BrowserQueueProofs`**: `TypeCorrect`, `EventsInOnePlace`, `CountsStayHonest`, `OwnRefusals`. `PlaceInv` adds to
`OnePlace` that no queue or flush holds an event twice and that a flush's batches are sorted by class: a batch put
back can then not meet itself. It rests on lemmas about sequences without duplicates (front, rest,
concatenation, selection of a class). `AckInv` follows events to the collector: a batch answered with 2xx is
credited before the answer, whatever is still loose was tracked, and each counter is the number of events
credited. `RefuseInv` says that a batch answered with 400 holds an event that asked for it; since a batch is of one
class, nothing is given up for another's sake. Assumptions: finitely many events and flushes, a positive limit.

The same module proves, of `Page`, `PageTypeCorrect`, `NavigationAlwaysCounted`, `OneClientOnly` and
`OptOutAlwaysHolds`. `NavigationCounted` speaks of the moments without a pending look; `WatchInv` says what holds in
between: a watching client is in every chain of wrappers, owes a look whenever the address moved past the page it
looked at last, and its automatic views are one for each page up to that one. `LoaderInv` says that at most one loader fetches
or has inserted, and that one whose script is there ran before any tag it could have seen; `OptInv` that an
opt-out of this page load is still in the storage, or was never stored. Assumption: tags and loaders are different
scripts.

And, of `Clicks`, `ClicksTypeCorrect`, `BurstsStayReal` and `ActionsStayOfTheirPage`, which compare what the watcher
reported with what the whole history of clicks called for, although it keeps only windows of that history. One
relation, `NotesOf`, says that a list holds only notes of certain clicks and all those within its window;
a list filtered to a window then has as many members as there are clicks in it (`NotesCount`, a bijection).
`StampsInv` and `BurstsInv` state it for the two minutes and for every burst, whose clicks are the real ones of
its control that no report has used. The rest is about pruning: `RecentInv`, that a control clicked within the window of
a double click is still remembered, with its last click; `BurstsInv`, that a control with unused clicks is too, and
one that reported within the cooldown unless more than `MaxKeys` controls have been clicked. `PressInv`: the press
a click takes was made on the page that is shown, or that page was left since. Assumptions: the windows are
numbers, that of a burst is no longer than the cooldown (1 s and 5 s: a dormant burst has then nothing to lose), and a burst takes a click.

**`OperatorProofs`**: `TypeCorrect`, `AdminKeyStaysReachable`, `SuccessStaysComplete`. `AdminKeyReachable` is not
inductive: a command in whose hands the key is might not mean to show it. `KeyInv` counts a command only
while it does, and `FlowInv` says that what it stores it means to keep, that only a rotation goes through the
rewriting of the file, and that whoever is about to rewrite the file has read one that it may rewrite.
`BuiltInv` says for each step of a deployment which resources and secrets are there by then; resources and secrets are
never taken away, so other terminals cannot break it. Assumptions: there is an admin key, and what is
deployed at first has a name.

The same module proves, of `Deployment`, `DeploymentTypeCorrect`, `DeploymentsAreComplete` and `AppliesAreChecked`.
`RunInv` follows a command: it applies a plan its actor had checked in time (`ReceiptInv`: a receipt stands for
such a check), past the migrations its database has all of them, who fills the digest file has just created it, who
stores a secret holds the one of the file, and who deploys a Worker knows that it has one. `DigestInv` says that one
command at most is to fill the file, and that no Worker has a secret before it is filled: this is what exclusive
creation is for. Most actions leave the account and the file alone, and one lemma (`NothingDeployed`) serves them; another
(`RunStays`) shows that migrating, storing and deploying by others disturb no command. Assumption: the bounds are
numbers.

The same module proves, of `Console`, `ConsoleTypeCorrect`, `EditsAlwaysNoticed`, `ChoicesHonoured` and
`SessionStaysKept`. `EditsNoticed` is about a request at its end; `SeenInv` follows it from its arrival: unless it
joined a check it waits for one of a content it has seen or of a later one, and is ready when the registry's
stamp has reached the one it saw. The kept client is not behind because a connection that changes raises the
revision. `ChoiceHonoured` is inductive with the types, since whatever sets a choice leaves a check running.
`DefaultInv`, for `SessionKept`, says that a call which checks for a default began with a session whose
environment the file did not define. Assumption: a content is a sequence of entries, and no environment is
called `None`.

**`DashboardProofs`**: `TypeCorrect`, `ReportsAreOfScope`, `ListsAreOfProject`, `EnvironmentIsRight`. `AskedInv`: a
request that is not aborted asks what its screen would ask for now; one lemma about `Render` carries it
through every change of scope and address. `ListInv`: what a list or a refresh brings belongs to the project it asked
for, and a load that is still heeded is the current project's. `EnvInv`: as long as nothing moved the
selection behind the page's back, either all is settled, or one choice of an environment is under way, or one
run of `connect`, whose every stage knows the selection, while nothing that is mounted or works could bring
another environment's projects. Assumptions: every project has an environment and every website a project.

`RevocationFinal`, `RowsAreOwn`, `RefusedMeansNothing`, `LedgerKeeps`, `LegacyStaysAhead`, `OwnRefusals`, `SessionStaysKept`,
`SecretsWereShown`, `BusyPagesAreFreed` and the `TypeCorrect` theorems prove what no run lists: the properties of the runs follow from them or need them.

Only model-checked: liveness (`Answered`, `Settles`, `ExpiredGo`, and `DeletedIsPurged`, which does not hold), which
is out of the prover's reach, as `ENABLED` and induction over data are; and `FiguresAgree` and `AlgorithmsAgree`, which compare
algorithms on bounded inputs (sums, rankings, paths: each would need that induction).

## Not modelled

* Of the deployment with a profile: the audit file, `verify` and `status`, which only write there, and how OneCLI is
  asked about its connection.
* Cryptography: a token or a key is valid or is not. How browsers and referrers are classified, the field
  checks of single events, the shaping of answers, wording, layout, logging.
* The console's proxy routes, sessions, static files, reachability checks and setup stages; the tools of the MCP
  server, which translate to admin requests; the platform's rate limiter.
* The web console's health and install pages, collection policies, maps, theme; names, roles and the questions asked
  before a change.

Assumed throughout: clocks do not go back; mtime or size of the environments file changes with each rewrite;
the browser's storage works; React runs the effects of a change together with it; commands that are
refused before they do anything are left out, and so are the choice and the verification of the Cloudflare
account. Time is modelled only where a property tells instants apart.

## Plan

What could come next: the setup stages and reachability checks of the local service; the audit file and `verify` of
the deployment with a profile; a budget of the purge that goes on where the run before it ended, once the code has one.
