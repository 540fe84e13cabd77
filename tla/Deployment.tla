------------------------------ MODULE Deployment ------------------------------
(***************************************************************************)
(* The deployment command with a profile: configure, plan, check and apply *)
(* over one profile, in several terminals, each with an actor of its own.  *)
(* A plan is approved by its id; a check leaves a receipt that expires;    *)
(* apply migrates the database, stores the secret of the visitor digests   *)
(* and deploys the Worker, and stops at the first call that fails.         *)
(*                                                                         *)
(* The configuration of Wrangler is a file the person edits.  A command    *)
(* reads it once, but each call of Wrangler reads it again: a database is  *)
(* named to the call, the Worker is whatever the file says by then.  The   *)
(* audit file is left out, and so are verify and status, which only write  *)
(* there, and commands that are refused.                                   *)
(***************************************************************************)
EXTENDS Naturals

CONSTANTS
  Actors,       \* who runs commands, one in each terminal
  Configs,      \* contents of the Wrangler configuration, each with a database and a Worker
  Profiles,     \* contents of the profile, all for one account
  TTL,          \* lifetime of a receipt: 15 minutes
  MaxTime, MaxRuns, MaxFaults   \* bounds; an edit of the configuration counts as a run

ASSUME DeploymentBounds == {TTL, MaxTime, MaxRuns, MaxFaults} \subseteq Nat

VARIABLES
  config,       \* content of the Wrangler configuration
  profile,      \* the profile file
  digest,       \* the digest file: NoDigest, Empty, or the number of the run that filled it
  plan,         \* the plan file
  receipt,      \* the receipt file
  account,      \* [Configs -> its database and its Worker]
  run,          \* [Actors -> command in progress]
  now, begun, faults,
  checked,      \* history: the checks that succeeded, and when
  slipped       \* history: what was reached, or meant, after an edit during a run

deploymentVars == <<config, profile, digest, plan, receipt, account, run, now, begun, faults, checked, slipped>>
files == <<config, profile, plan, receipt>>
clock == <<now, begun>>

NoFile == [id |-> 0]
NoDigest == 0
Empty == 1
Resting == [pc |-> "resting", after |-> "none", n |-> 0, plan |-> NoFile, new |-> NoFile, replace |-> FALSE, at |-> 0]

DeploymentInit ==
  /\ config \in Configs
  /\ profile = NoFile /\ plan = NoFile /\ receipt = NoFile
  /\ digest = NoDigest
  /\ account = [c \in Configs |-> [schema |-> "none", secret |-> NoDigest, deployed |-> FALSE]]
  /\ run = [a \in Actors |-> Resting]
  /\ now = 0 /\ begun = 1 /\ faults = 0
  /\ checked = {} /\ slipped = {}

Begun == begun < MaxRuns /\ begun' = begun + 1
Count(n) == faults + n <= MaxFaults /\ faults' = faults + n
Step(a, pc) == run' = [run EXCEPT ![a].pc = pc]
End(a) == run' = [run EXCEPT ![a] = Resting]

-----------------------------------------------------------------------------
(* configure: the digest file first, then the profile.                     *)
Configure(a, p, replace) ==
  /\ run[a].pc = "resting"
  /\ Begun
  /\ run' = [run EXCEPT ![a] = [Resting EXCEPT !.pc = "look", !.after = "profile", !.n = begun', !.new = [id |-> p],
                                              !.replace = replace]]
  /\ UNCHANGED <<files, digest, account, now, faults, checked, slipped>>

(* ensureAnalyticsDigest: look for the file, create it exclusively, then   *)
(* write it.  A file without a value is refused.                           *)
Look(a) ==
  /\ run[a].pc = "look"
  /\ CASE digest = NoDigest -> Step(a, "create")
       [] digest = Empty -> End(a)
       [] OTHER -> run' = [run EXCEPT ![a].pc = run[a].after, ![a].n = digest]
  /\ UNCHANGED <<files, digest, account, clock, faults, checked, slipped>>

MayCreateAnyway == TRUE   \* Mutant: opened for writing, not exclusively
MayCreate == digest = NoDigest

CreateFile(a) ==
  /\ run[a].pc = "create"
  /\ IF MayCreate THEN digest' = Empty /\ Step(a, "fill")
                  ELSE UNCHANGED digest /\ End(a)
  /\ UNCHANGED <<files, account, clock, faults, checked, slipped>>

FillFile(a) ==
  /\ run[a].pc = "fill"
  /\ digest' = run[a].n
  /\ Step(a, run[a].after)
  /\ UNCHANGED <<files, account, clock, faults, checked, slipped>>

(* writePrivateJson keeps an existing file unless it may be replaced.  A   *)
(* file that appears after it looked is replaced: as if it were told to.   *)
Saves(file, replace) == file = NoFile \/ replace

WriteProfile(a) ==
  /\ run[a].pc = "profile"
  /\ profile' = IF Saves(profile, run[a].replace) THEN run[a].new ELSE profile
  /\ End(a)
  /\ UNCHANGED <<config, plan, receipt, digest, account, clock, faults, checked, slipped>>

-----------------------------------------------------------------------------
(* plan: what is to be deployed, by the digests of its inputs; its id is   *)
(* the digest of these and of the time it was made.                        *)
Plan(a, replace) ==
  /\ run[a].pc = "resting"
  /\ Begun
  /\ profile # NoFile /\ Saves(plan, replace)
  /\ plan' = [id |-> begun', profile |-> profile, config |-> config]
  /\ UNCHANGED <<config, profile, receipt, digest, account, run, now, faults, checked, slipped>>

(* assertCurrentPlan.                                                      *)
Current(p) == p # NoFile /\ profile # NoFile /\ p.profile = profile /\ p.config = config

(* check: the inspections, which want a database without any table of      *)
(* ours, then the receipt.                                                 *)
Check(a, replace) ==
  /\ run[a].pc = "resting"
  /\ Begun
  /\ Current(plan)
  /\ run' = [run EXCEPT ![a] = [Resting EXCEPT !.pc = "inspect", !.after = "receipt", !.plan = plan, !.replace = replace]]
  /\ UNCHANGED <<files, digest, account, now, faults, checked, slipped>>

Fresh(c) == account[c].schema = "none"

Inspect(a, answered) ==
  /\ run[a].pc = "inspect"
  /\ Count(IF answered THEN 0 ELSE 1)
  /\ IF answered /\ Fresh(run[a].plan.config) THEN Step(a, run[a].after) ELSE End(a)
  /\ UNCHANGED <<files, digest, account, clock, checked, slipped>>

WriteReceipt(a) ==
  /\ run[a].pc = "receipt"
  /\ IF Saves(receipt, run[a].replace)
       THEN /\ receipt' = [of |-> run[a].plan, actor |-> a, expires |-> now + TTL]
            /\ checked' = checked \cup {[by |-> a, of |-> run[a].plan, at |-> now]}
       ELSE UNCHANGED <<receipt, checked>>
  /\ End(a)
  /\ UNCHANGED <<config, profile, plan, digest, account, clock, faults, slipped>>

-----------------------------------------------------------------------------
(* apply: the approved plan must be the one in the file, the receipt of    *)
(* this actor, for this plan, and not expired, and the inputs unchanged.   *)
ValidExpiryOnly(r, a, p) == r # NoFile /\ r.expires > now   \* Mutant: whose receipt, and for what, is not asked
Valid(r, a, p) == r # NoFile /\ r.expires > now /\ r.of = p /\ r.actor = a

Apply(a) ==
  /\ run[a].pc = "resting"
  /\ Begun
  /\ Current(plan) /\ Valid(receipt, a, plan)
  /\ run' = [run EXCEPT ![a] = [Resting EXCEPT !.pc = "inspect", !.after = "migrate", !.n = begun', !.plan = plan, !.at = now]]
  /\ UNCHANGED <<files, digest, account, now, faults, checked, slipped>>

(* lost: carried out, but timed out or cut off.  Migrations that fail may  *)
(* have been applied in part.                                              *)
Endings == {"ok", "failed", "lost"}

Migrate(a, ending) ==
  LET c == run[a].plan.config
      left == IF ending # "failed" THEN {"all"} ELSE IF Fresh(c) THEN {"none", "part"} ELSE {account[c].schema}
  IN /\ run[a].pc = "migrate"
     /\ Count(IF ending = "ok" THEN 0 ELSE 1)
     /\ \E schema \in left : account' = [account EXCEPT ![c].schema = schema]
     /\ IF ending = "ok" THEN Step(a, "secrets") ELSE End(a)
     /\ UNCHANGED <<files, digest, clock, checked, slipped>>

(* Calls about the Worker: the one the configuration names by now.         *)
Reaches(a) ==
  slipped' = IF config = run[a].plan.config THEN slipped ELSE slipped \cup {config, run[a].plan.config}

(* The secret is stored unless the Worker has one.                         *)
SecretsListed(a, answered) ==
  /\ run[a].pc = "secrets"
  /\ Count(IF answered THEN 0 ELSE 1)
  /\ Reaches(a)
  /\ IF ~answered THEN End(a)
     ELSE IF account[config].secret # NoDigest THEN Step(a, "deploy")
     ELSE run' = [run EXCEPT ![a].pc = "look", ![a].after = "put"]
  /\ UNCHANGED <<files, digest, account, clock, checked>>

ChangeWorker(a, ending, done) ==
  /\ Count(IF ending = "ok" THEN 0 ELSE 1)
  /\ Reaches(a)
  /\ account' = IF ending = "failed" THEN account ELSE [account EXCEPT ![config] = done]
  /\ UNCHANGED <<files, digest, clock, checked>>

PutSecret(a, ending) ==
  /\ run[a].pc = "put"
  /\ ChangeWorker(a, ending, [account[config] EXCEPT !.secret = run[a].n])
  /\ IF ending = "ok" THEN Step(a, "deploy") ELSE End(a)

DeployWorker(a, ending) ==
  /\ run[a].pc = "deploy"
  /\ ChangeWorker(a, ending, [account[config] EXCEPT !.deployed = TRUE])
  /\ End(a)

-----------------------------------------------------------------------------
CutOff(a) ==
  /\ run[a].pc # "resting"
  /\ Count(1)
  /\ End(a)
  /\ UNCHANGED <<files, digest, account, clock, checked, slipped>>

EditConfig ==
  /\ Begun
  /\ config' \in Configs \ {config}
  /\ UNCHANGED <<profile, plan, receipt, digest, account, run, now, faults, checked, slipped>>

Tick ==
  /\ now < MaxTime
  /\ now' = now + 1
  /\ UNCHANGED <<files, digest, account, run, begun, faults, checked, slipped>>

DeploymentNext ==
  \/ \E a \in Actors, p \in Profiles, replace \in BOOLEAN : Configure(a, p, replace)
  \/ \E a \in Actors : Look(a) \/ CreateFile(a) \/ FillFile(a) \/ WriteProfile(a)
  \/ \E a \in Actors, replace \in BOOLEAN : Plan(a, replace) \/ Check(a, replace)
  \/ \E a \in Actors, answered \in BOOLEAN : Inspect(a, answered) \/ SecretsListed(a, answered)
  \/ \E a \in Actors : WriteReceipt(a) \/ Apply(a)
  \/ \E a \in Actors, ending \in Endings : Migrate(a, ending) \/ PutSecret(a, ending) \/ DeployWorker(a, ending)
  \/ \E a \in Actors : CutOff(a)
  \/ EditConfig
  \/ Tick

DeploymentSpec == DeploymentInit /\ [][DeploymentNext]_deploymentVars

-----------------------------------------------------------------------------
(* Types.                                                                  *)
ProfileFiles == [id : Profiles] \cup {NoFile}
PlanFiles == [id : Nat, profile : ProfileFiles, config : Configs] \cup {NoFile}
RunStates == {"resting", "look", "create", "fill", "profile", "inspect", "receipt", "migrate", "secrets", "put", "deploy"}
Runs == [pc : RunStates, after : {"none", "profile", "receipt", "migrate", "put"}, n : Nat, plan : PlanFiles,
         new : ProfileFiles, replace : BOOLEAN, at : Nat]

DeploymentTypeOK ==
  /\ config \in Configs
  /\ profile \in ProfileFiles /\ plan \in PlanFiles
  /\ receipt \in [of : PlanFiles, actor : Actors, expires : Nat] \cup {NoFile}
  /\ digest \in Nat
  /\ account \in [Configs -> [schema : {"none", "part", "all"}, secret : Nat, deployed : BOOLEAN]]
  /\ run \in [Actors -> Runs]
  /\ now \in Nat /\ begun \in Nat \ {0} /\ faults \in 0..MaxFaults
  /\ checked \subseteq [by : Actors, of : PlanFiles, at : Nat]
  /\ slipped \subseteq Configs

(* However many commands overlap, fail or are killed: a Worker that is     *)
(* deployed has its database migrated and the secret that the digest file  *)
(* holds, so that a later deployment counts visitors alike -- unless the   *)
(* configuration was edited under a running command.                       *)
DeployedIsComplete ==
  \A c \in Configs :
    /\ account[c].secret \in {NoDigest, digest}
    /\ account[c].deployed /\ c \notin slipped => account[c].schema = "all" /\ account[c].secret # NoDigest

(* A database is migrated, and a Worker changed, only by a command whose   *)
(* own actor had checked that very plan less than a receipt's lifetime     *)
(* before it began, whatever other actors planned, checked or replaced     *)
(* meanwhile.                                                              *)
CheckedBefore ==
  [][account' # account =>
       \E a \in Actors : run[a].pc \in {"migrate", "put", "deploy"} /\ run'[a] # run[a] /\
         \E check \in checked : check.by = a /\ check.of = run[a].plan /\ run[a].at < check.at + TTL]_deploymentVars

=============================================================================
