------------------------------- MODULE Operator -------------------------------
(***************************************************************************)
(* The commands of one computer that change backends and the file of       *)
(* environments: `vizoalica deploy` (create, --resume, --update, --all),   *)
(* `rotate`, and `env add`, `update` and `remove`, in several terminals.   *)
(* Every call of Wrangler and every write is a step: it may fail, it may   *)
(* be carried out and reported as failed, and a command may be interrupted *)
(* between any two.  A command that is refused changes nothing and is left *)
(* out.  What a Worker does with its secrets is not modelled.              *)
(*                                                                         *)
(* A generated secret is named by its environment, its kind and the number *)
(* of the command that generated it.                                       *)
(***************************************************************************)
EXTENDS Naturals, FiniteSets

CONSTANTS
  Terminals,
  Names,        \* environments
  Deployed,     \* those with a complete backend at the start
  Kinds,        \* the secrets of a Worker
  MaxCommands,  \* bound: commands started, and edits of the file by hand
  MaxFailures   \* bound: calls that fail, and interruptions

ASSUME KindsAssumption == "admin" \in Kinds
ASSUME DeployedAssumption == Deployed \subseteq Names
ASSUME BoundsAssumption == MaxCommands \in Nat /\ MaxFailures \in Nat

VARIABLES
  file,      \* [environments -> entry of the environments file]
  cloud,     \* [environments -> resources in Cloudflare, secrets of the Worker]
  held,      \* [environments -> secrets the person has seen, or a vault or file of theirs has]
  cmd,       \* [terminals -> command in progress]
  started, failures,
  excused    \* history: admin keys a stopped command took along, or a later write erased

vars == <<file, cloud, held, cmd, started, failures, excused>>

Stores == {"database", "bucket"}
Resources == Stores \cup {"tables", "worker"}
Outcomes == {"ok", "failed", "lost"}   \* lost: carried out, but reported as failed

Absent == [is |-> "none", key |-> 0]
Key(v) == [is |-> "key", key |-> v]
Vault == [is |-> "vault", key |-> 0]

Idle == [do |-> "none", env |-> "none", pc |-> "idle", resume |-> FALSE, toFile |-> FALSE, read |-> <<>>,
         have |-> {}, mine |-> {}, kinds |-> {}, new |-> 0, keep |-> {}, put |-> Absent, todo |-> {}]

Init ==
  /\ cloud = [e \in Names |-> [made |-> IF e \in Deployed THEN Resources ELSE {},
                               secrets |-> [k \in Kinds |-> IF e \in Deployed THEN 1 ELSE 0]]]
  /\ file \in [Names -> {Absent, Key(1), Vault, [is |-> "bad", key |-> 1], [is |-> "guest", key |-> 0]}]
  /\ \A e \in Names \ Deployed : file[e] = Absent
  /\ held = [e \in Names |-> IF e \notin Deployed THEN {}
                             ELSE {<<k, 1>> : k \in IF file[e].key = 1 THEN Kinds \ {"admin"} ELSE Kinds}]
  /\ cmd = [t \in Terminals |-> Idle]
  /\ started = 1 /\ failures = 0
  /\ excused = {}

-----------------------------------------------------------------------------
(* The environments file.  A command that rewrites it from what it read    *)
(* refuses if that would drop another entry, one that does not parse.      *)
RewriteBlocked(f, e) == \E n \in Names \ {e} : f[n].is = "bad"
Definitions(f) == [n \in Names |-> IF f[n].is = "bad" THEN Absent ELSE f[n]]

(* The whole file as a command has it, with its own entry changed.  The    *)
(* admin keys this erases are noted: the one it replaces, and those that   *)
(* came after the command had read the file.                               *)
Rewrite(c, entry) ==
  /\ file' = [Definitions(c.read) EXCEPT ![c.env] = entry]
  /\ LET erased == {n \in Names : file'[n].key # file[n].key}
         noted == {n \in erased : n = c.env \/ file[n] # c.read[n]}
     IN excused' = excused \cup {<<n, file[n].key>> : n \in noted}

Failed(n) == failures + n <= MaxFailures /\ failures' = failures + n

-----------------------------------------------------------------------------
(* Commands.                                                               *)
Begin(t, c) ==
  /\ cmd[t].pc = "idle"
  /\ started < MaxCommands
  /\ started' = started + 1
  /\ cmd' = [cmd EXCEPT ![t] = [c EXCEPT !.new = started']]
  /\ UNCHANGED <<file, cloud, held, failures, excused>>

Create(t, e, resume, toFile) ==
  /\ file[e].is = "none"
  /\ Begin(t, [Idle EXCEPT !.do = "create", !.env = e, !.pc = "list", !.read = file, !.resume = resume, !.toFile = toFile])

Updating(e, f, todo) ==
  [Idle EXCEPT !.do = "update", !.env = e, !.pc = "list", !.read = f, !.todo = todo]

Update(t, e) ==
  /\ file[e].is # "guest"
  /\ Begin(t, Updating(e, file, {}))

(* --update --all: every environment this computer administers, one after  *)
(* the other; each reads the file again.                                   *)
Administered == {e \in Names : file[e].is \in {"key", "vault"}}

UpdateAll(t) ==
  \E e \in Administered : Begin(t, Updating(e, file, Administered \ {e}))

Rotate(t, e, kinds) ==
  /\ file[e].is \in {"key", "vault"}
  /\ "admin" \in kinds /\ file[e].is = "key" => ~RewriteBlocked(file, e)
  /\ Begin(t, [Idle EXCEPT !.do = "rotate", !.env = e, !.pc = "store", !.read = file,
                           !.kinds = kinds, !.keep = kinds])

(* env add, update and remove: the entry is checked against the Worker,    *)
(* but may be saved although it does not work.                             *)
Entries(e) == {Key(s[2]) : s \in {h \in held[e] : h[1] = "admin"}} \cup {Vault}

Save(t, e, entry) ==
  /\ file[e].is = "none" => entry # Absent
  /\ ~RewriteBlocked(file, e)
  /\ Begin(t, [Idle EXCEPT !.do = "env", !.env = e, !.pc = "write", !.read = file, !.put = entry])

-----------------------------------------------------------------------------
(* A command stops, whatever it still had in hand.                         *)
Stored == {"health", "register", "save", "reveal"}   \* where the Worker has the new values
InHand(t) == IF "admin" \in cmd[t].keep THEN {<<cmd[t].env, cmd[t].new>>} ELSE {}

StopWith(t, lost) ==
  /\ cmd' = [cmd EXCEPT ![t] = Idle]
  /\ excused' = excused \cup lost

Interrupt(t) ==
  /\ cmd[t].pc # "idle"
  /\ Failed(1)
  /\ StopWith(t, IF cmd[t].pc \in Stored THEN InHand(t) ELSE {})
  /\ UNCHANGED <<file, cloud, held, started>>

(* Which of its resources exist: an update needs both, and a first         *)
(* creation none.                                                          *)
MayGoOn(c, have) == IF c.do = "update" THEN have = Stores ELSE c.resume \/ have = {}

List(t) ==
  /\ cmd[t].pc = "list"
  /\ LET have == cloud[cmd[t].env].made \cap Stores IN
       IF MayGoOn(cmd[t], have)
         THEN /\ cmd' = [cmd EXCEPT ![t].have = have, ![t].pc = IF cmd[t].do = "update" THEN "tables" ELSE "database"]
              /\ UNCHANGED excused
         ELSE StopWith(t, {})
  /\ UNCHANGED <<file, cloud, held, started, failures>>

After(step) == CASE step = "database" -> "bucket" [] step = "bucket" -> "tables"
                 [] step = "tables" -> "worker"   [] step = "worker" -> "secrets"

(* Creating a store that was not listed fails if it is there by now; the   *)
(* migrations and the Worker are applied again.                            *)
Make(t, step, outcome) ==
  LET c == cmd[t]
      made == cloud[c.env].made
      clash == step \in Stores /\ step \in made
      skip == step \in Stores /\ step \in c.have
  IN
  /\ c.pc = step
  /\ IF skip \/ clash THEN outcome = "ok" ELSE TRUE
  /\ Failed(IF outcome = "ok" THEN 0 ELSE 1)
  /\ cloud' = IF outcome = "failed" \/ skip \/ clash THEN cloud ELSE [cloud EXCEPT ![c.env].made = @ \cup {step}]
  /\ IF outcome # "ok" \/ (clash /\ ~skip)
       THEN StopWith(t, {})
       ELSE /\ cmd' = [cmd EXCEPT ![t].pc = After(step), ![t].mine = IF skip THEN @ ELSE @ \cup {step}]
            /\ UNCHANGED excused
  /\ UNCHANGED <<file, held, started>>

(* The secrets the Worker lacks.  A listing that fails is an empty one.    *)
MissingOfListed(e, answered) == IF answered THEN {k \in Kinds : cloud[e].secrets[k] = 0} ELSE {}
Missing(e, answered) == IF answered THEN {k \in Kinds : cloud[e].secrets[k] = 0} ELSE Kinds

ListSecrets(t, answered) ==
  /\ cmd[t].pc = "secrets"
  /\ Failed(IF answered THEN 0 ELSE 1)
  /\ LET kinds == Missing(cmd[t].env, answered) IN
       cmd' = [cmd EXCEPT ![t].kinds = kinds, ![t].keep = kinds,
                          ![t].pc = IF kinds = {} THEN "health" ELSE "store"]
  /\ UNCHANGED <<file, cloud, held, started, excused>>

(* `secret bulk`.                                                          *)
Store(t, outcome) ==
  LET c == cmd[t] IN
  /\ c.pc = "store"
  /\ Failed(IF outcome = "ok" THEN 0 ELSE 1)
  /\ cloud' = IF outcome = "failed" THEN cloud
              ELSE [cloud EXCEPT ![c.env].secrets = [k \in Kinds |-> IF k \in c.kinds THEN c.new ELSE @[k]]]
  /\ IF outcome # "ok"
       THEN StopWith(t, IF outcome = "lost" THEN InHand(t) ELSE {})
       ELSE /\ cmd' = [cmd EXCEPT ![t].pc = IF c.do # "rotate" THEN "health"
                                            ELSE IF "admin" \in c.kinds /\ c.read[c.env].is = "key" THEN "save" ELSE "reveal"]
            /\ UNCHANGED excused
  /\ UNCHANGED <<file, held, started>>

(* A new admin key adds the environment, unless an update knew it already. *)
Adds(c) == "admin" \in c.kinds /\ (c.do = "create" \/ c.read[c.env].is \in {"none", "bad"})

(* The Worker answers within ten attempts, or does not.                    *)
Health(t, healthy) ==
  /\ cmd[t].pc = "health"
  /\ Failed(IF healthy THEN 0 ELSE 1)
  /\ IF healthy
       THEN /\ cmd' = [cmd EXCEPT ![t].pc = IF Adds(cmd[t]) THEN "register" ELSE "reveal"]
            /\ UNCHANGED excused
       ELSE StopWith(t, InHand(t))
  /\ UNCHANGED <<file, cloud, held, started>>

(* addEnvironment: the file is read again (reading and writing are one     *)
(* step).                                                                  *)
MayAdd(e) == file[e].is = "none" /\ ~RewriteBlocked(file, e)

Register(t, written) ==
  LET c == cmd[t] IN
  /\ c.pc = "register"
  /\ Failed(IF written THEN 0 ELSE 1)
  /\ IF written /\ MayAdd(c.env)
       THEN /\ file' = [file EXCEPT ![c.env] = Key(c.new)]
            /\ cmd' = [cmd EXCEPT ![t].pc = "reveal", ![t].keep = @ \ {"admin"}]
       ELSE /\ cmd' = [cmd EXCEPT ![t].pc = "reveal"]
            /\ UNCHANGED file
  /\ UNCHANGED <<cloud, held, started, excused>>

(* rotate updates its own entry; a key that could not be saved stays       *)
(* among those to be shown.                                                *)
KeepNoAdmin(c, written) == c.keep \ {"admin"}
KeepAfter(c, written) == IF written THEN c.keep \ {"admin"} ELSE c.keep

SaveRotated(t, written) ==
  LET c == cmd[t] IN
  /\ c.pc = "save"
  /\ Failed(IF written THEN 0 ELSE 1)
  /\ IF written THEN Rewrite(c, Key(c.new)) ELSE UNCHANGED <<file, excused>>
  /\ cmd' = [cmd EXCEPT ![t].pc = "reveal", ![t].keep = KeepAfter(c, written)]
  /\ UNCHANGED <<cloud, held, started>>

(* handOver and revealSecrets: into a new file or, when that fails, on the *)
(* screen.  A deployment without a secrets file shows the admin key only.  *)
Shown(c) == IF c.do = "rotate" \/ c.toFile THEN c.keep ELSE c.keep \cap {"admin"}

Reveal(t) ==
  LET c == cmd[t] IN
  /\ c.pc = "reveal"
  /\ held' = [held EXCEPT ![c.env] = @ \cup {<<k, c.new>> : k \in Shown(c)}]
  /\ cmd' = [cmd EXCEPT ![t] = IF c.todo = {} THEN Idle ELSE [Idle EXCEPT !.pc = "next", !.todo = c.todo, !.new = c.new]]
  /\ UNCHANGED <<file, cloud, started, failures, excused>>

NextOfAll(t) ==
  /\ cmd[t].pc = "next"
  /\ \E e \in cmd[t].todo :
       cmd' = [cmd EXCEPT ![t] = IF file[e].is = "guest" THEN Idle 
                                  ELSE [Updating(e, file, cmd[t].todo \ {e}) EXCEPT !.new = cmd[t].new]]
  /\ UNCHANGED <<file, cloud, held, started, failures, excused>>

Write(t, written) ==
  /\ cmd[t].pc = "write"
  /\ Failed(IF written THEN 0 ELSE 1)
  /\ IF written THEN Rewrite(cmd[t], cmd[t].put) ELSE UNCHANGED <<file, excused>>
  /\ cmd' = [cmd EXCEPT ![t] = Idle]
  /\ UNCHANGED <<cloud, held, started>>

(* The person edits the file: an entry no longer parses, or does again.    *)
EditByHand(e) ==
  /\ started < MaxCommands
  /\ started' = started + 1
  /\ file[e].is \in {"key", "bad"}
  /\ file' = [file EXCEPT ![e].is = IF @ = "key" THEN "bad" ELSE "key"]
  /\ UNCHANGED <<cloud, held, cmd, failures, excused>>

Commands(t) ==
  \/ \E e \in Names, resume, toFile \in BOOLEAN : Create(t, e, resume, toFile)
  \/ \E e \in Names : Update(t, e)
  \/ UpdateAll(t)
  \/ \E e \in Names, kinds \in (SUBSET Kinds) \ {{}} : Rotate(t, e, kinds)
  \/ \E e \in Names : \E entry \in Entries(e) \cup {Absent} : Save(t, e, entry)

Steps(t) ==
  \/ List(t)
  \/ \E r \in Resources, o \in Outcomes : Make(t, r, o)
  \/ \E answered \in BOOLEAN : ListSecrets(t, answered)
  \/ \E o \in Outcomes : Store(t, o)
  \/ \E healthy \in BOOLEAN : Health(t, healthy)
  \/ \E written \in BOOLEAN : Register(t, written)
  \/ \E written \in BOOLEAN : SaveRotated(t, written)
  \/ Reveal(t)
  \/ NextOfAll(t)
  \/ \E written \in BOOLEAN : Write(t, written)

Next ==
  \/ \E t \in Terminals : Commands(t)
  \/ \E t \in Terminals : Steps(t)
  \/ \E t \in Terminals : Interrupt(t)
  \/ \E e \in Names : EditByHand(e)

Spec == Init /\ [][Next]_vars

-----------------------------------------------------------------------------
Entry == {Absent, Vault, [is |-> "guest", key |-> 0]} \cup [is : {"key", "bad"}, key : Nat]
Backend == [made : SUBSET Resources, secrets : [Kinds -> Nat]]
Command ==
  [do : {"none", "create", "update", "rotate", "env"}, env : Names \cup {"none"},
   pc : {"idle", "next", "list", "secrets", "store", "write"} \cup Resources \cup Stored,
   resume : BOOLEAN, toFile : BOOLEAN, read : [Names -> Entry] \cup {<<>>},
   have : SUBSET Stores, mine : SUBSET Resources, kinds : SUBSET Kinds, new : Nat,
   keep : SUBSET Kinds, put : Entry, todo : SUBSET Names]

(* Every variable has its type, and a command that runs its environment,   *)
(* its number and what it read of the file.                                *)
TypeOK ==
  /\ file \in [Names -> Entry]
  /\ cloud \in [Names -> Backend]
  /\ held \in [Names -> SUBSET (Kinds \X Nat)]
  /\ cmd \in [Terminals -> Command]
  /\ \A t \in Terminals : cmd[t].pc # "idle" =>
       /\ cmd[t].new # 0
       /\ cmd[t].pc # "next" => cmd[t].env \in Names /\ cmd[t].read \in [Names -> Entry]
  /\ started \in Nat \ {0} /\ failures \in 0..MaxFailures
  /\ excused \subseteq Names \X Nat

(* The admin key a Worker uses is in the file, with the person, or in the  *)
(* hands of a running command -- whichever call or write failed -- unless  *)
(* a command was stopped after the Worker got it, or a later command that  *)
(* had read the file before erased it.                                     *)
AdminKeyReachable ==
  \A e \in Names : LET key == cloud[e].secrets["admin"] IN
    \/ key = 0 \/ file[e].key = key \/ <<"admin", key>> \in held[e] \/ <<e, key>> \in excused
    \/ \E t \in Terminals : cmd[t].env = e /\ cmd[t].new = key /\ cmd[t].pc \in Stored

(* A deployment that gets as far as saying where the Worker is leaves a    *)
(* complete backend, with every secret, whatever earlier attempts left     *)
(* behind and whichever listing failed; and one without --resume deploys   *)
(* only into a database and a bucket it created itself, however many       *)
(* terminals create the same environment.                                  *)
SuccessIsComplete ==
  \A t \in Terminals : LET c == cmd[t] IN
    /\ c.do \in {"create", "update"} /\ c.pc \in {"register", "reveal"} =>
         cloud[c.env].made = Resources /\ \A k \in Kinds : cloud[c.env].secrets[k] # 0
    /\ c.do = "create" /\ ~c.resume /\ c.pc \notin {"list", "database", "bucket"} => Stores \subseteq c.mine

(* deploy/plan.ts, shown before an update: "Data and secrets are kept; a   *)
(* secret the Worker is missing is generated."  The code does not keep     *)
(* this when the listing of the secrets fails (README), so no run lists it.*)
ExistingSecretsKept ==
  [][\A t \in Terminals : cmd[t].do = "update" /\ cmd'[t] # cmd[t] =>
       \A k \in Kinds : LET old == cloud[cmd[t].env].secrets[k] IN
         old # 0 => cloud'[cmd[t].env].secrets[k] = old]_vars

=============================================================================
