--------------------------- MODULE OperatorProofs ---------------------------
(***************************************************************************)
(* Proofs about the environments file: the commands that write it          *)
(* (Operator), for any number of terminals, environments, secrets, commands*)
(* and failures, and the processes that read it (Console), for any contents*)
(* and any number of requests, calls and rewrites.                         *)
(*                                                                         *)
(* KeyInv strengthens AdminKeyReachable: a command counts as having the    *)
(* admin key only while it still means to show it; FlowInv says what it    *)
(* means to show, and that a command about to rewrite the file read one    *)
(* it may rewrite.  BuiltInv says, for each step of a deployment, what of  *)
(* the backend is there already.  SeenInv and DefaultInv are the console's *)
(* and the session's invariants, further down; DeploymentInv, at the end,  *)
(* is that of the deployment tool with a profile (Deployment), for any     *)
(* actors, configurations, profiles, times and failures.                   *)
(***************************************************************************)
EXTENDS Operator, Console, Deployment, FiniteSetTheorems, SequenceTheorems, WellFoundedInduction, TLAPS

(* A command that will write the whole file from what it read.             *)
Rewrites(c) ==
  \/ c.pc \in {"save", "write"}
  \/ c.pc = "store" /\ c.do = "rotate" /\ "admin" \in c.kinds /\ c.read[c.env].is = "key"

FlowInv ==
  \A t \in Terminals :
    /\ cmd[t].pc = "store" => cmd[t].keep = cmd[t].kinds
    /\ cmd[t].do = "rotate" => cmd[t].pc \in {"store", "save", "reveal"}
    /\ cmd[t].pc = "save" => cmd[t].do = "rotate"
    /\ Rewrites(cmd[t]) => ~RewriteBlocked(cmd[t].read, cmd[t].env)

Keeps(c, e, key) == c.env = e /\ c.new = key /\ c.pc \in Stored /\ "admin" \in c.keep
KeyKept(e, key) ==
  \/ key = 0 \/ file[e].key = key \/ <<"admin", key>> \in held[e] \/ <<e, key>> \in excused
  \/ \E t \in Terminals : Keeps(cmd[t], e, key)
KeyInv == \A e \in Names : KeyKept(e, cloud[e].secrets["admin"])

(* What is there when a deployment is at a step.                           *)
BuiltBy(step) ==
  CASE step = "bucket" -> {"database"}
    [] step = "tables" -> Stores
    [] step = "worker" -> Stores \cup {"tables"}
    [] step \in {"secrets", "store", "health", "register", "reveal"} -> Resources
    [] OTHER -> {}
Lacking(c) ==
  CASE c.pc = "store" -> c.kinds
    [] c.pc \in {"health", "register", "reveal"} -> {}
    [] OTHER -> Kinds

Founded(c) ==
  c.do \in {"create", "update"} =>
    /\ c.env \in Names
    /\ BuiltBy(c.pc) \subseteq cloud[c.env].made
    /\ c.pc \in Stores => c.have \subseteq cloud[c.env].made
    /\ \A k \in Kinds \ Lacking(c) : cloud[c.env].secrets[k] # 0
Own(c) ==
  c.do = "create" /\ ~c.resume =>
    /\ c.pc \in Stores => c.have = {}
    /\ c.pc = "bucket" => "database" \in c.mine
    /\ c.pc \notin {"list", "database", "bucket"} => Stores \subseteq c.mine
BuiltInv == \A t \in Terminals : Founded(cmd[t]) /\ Own(cmd[t])

(***************************************************************************)
(* Types.                                                                  *)
(***************************************************************************)
LEMMA EntryKinds ==
  /\ Absent \in Entry /\ Vault \in Entry /\ \A n \in Nat : Key(n) \in Entry
  /\ \A x \in Entry : x.key \in Nat /\ (x.is = "none" => x.key = 0)
  BY DEF Entry, Absent, Vault, Key

LEMMA IdleIsCommand == Idle \in Command
  BY EntryKinds DEF Idle, Command

(* A command that begins.                                                  *)
LEMMA Begins ==
  ASSUME TypeOK, NEW t \in Terminals, NEW c \in Command, c.env \in Names,
         c.read \in [Names -> Entry], Begin(t, c)
  PROVE  /\ TypeOK' /\ cmd[t].pc = "idle" /\ cmd'[t] = [c EXCEPT !.new = started']
         /\ \A u \in Terminals : u # t => cmd'[u] = cmd[u]
         /\ UNCHANGED <<file, cloud, held, failures, excused>>
<1>1. /\ cmd[t].pc = "idle" /\ cmd' = [cmd EXCEPT ![t] = [c EXCEPT !.new = started']]
      /\ started' = started + 1
      /\ UNCHANGED <<file, cloud, held, failures, excused>>
  BY DEF Begin
<1>2. started' \in Nat \ {0}
  BY <1>1 DEF TypeOK
<1> DEFINE d == [c EXCEPT !.new = started']
<1>3. d \in Command /\ d.new = started' /\ d.env = c.env /\ d.read = c.read
  BY <1>2 DEF Command
<1> HIDE DEF d
<1>4. cmd'[t] = d /\ \A u \in Terminals : u # t => cmd'[u] = cmd[u]
  BY <1>1 DEF TypeOK, d
<1>5. cmd' \in [Terminals -> Command]
  BY <1>1, <1>3 DEF TypeOK, d
<1>6. TypeOK'
  BY <1>1, <1>2, <1>3, <1>4, <1>5 DEF TypeOK
<1> QED
  BY <1>1, <1>4, <1>6 DEF d

(* A command in progress that goes on as c.                                *)
LEMMA GoesOn ==
  ASSUME TypeOK, NEW t \in Terminals, NEW c, cmd' = [cmd EXCEPT ![t] = c],
         c \in Command,
         c.pc # "idle" => c.new # 0 /\ (c.pc # "next" => c.env \in Names /\ c.read \in [Names -> Entry])
  PROVE  /\ cmd' \in [Terminals -> Command] /\ cmd'[t] = c
         /\ \A u \in Terminals : u # t => cmd'[u] = cmd[u]
         /\ \A u \in Terminals : cmd'[u].pc # "idle" =>
              /\ cmd'[u].new # 0
              /\ cmd'[u].pc # "next" => cmd'[u].env \in Names /\ cmd'[u].read \in [Names -> Entry]
<1>1. cmd' \in [Terminals -> Command] /\ cmd'[t] = c
  BY DEF TypeOK
<1>2. \A u \in Terminals : u # t => cmd'[u] = cmd[u]
  BY DEF TypeOK
<1> QED
  BY <1>1, <1>2 DEF TypeOK

(* A command whose next step is known and whose outputs are.               *)
Same(c, d) ==
  d.do = c.do /\ d.env = c.env /\ d.resume = c.resume /\ d.toFile = c.toFile /\ d.read = c.read
    /\ d.new = c.new /\ d.put = c.put /\ d.todo = c.todo

LEMMA MovesOn ==
  ASSUME TypeOK, NEW t \in Terminals, cmd[t].pc \notin {"idle", "next"},
         NEW d \in Command, Same(cmd[t], d), d.pc # "next", cmd' = [cmd EXCEPT ![t] = d]
  PROVE  /\ cmd' \in [Terminals -> Command] /\ cmd'[t] = d
         /\ \A u \in Terminals : u # t => cmd'[u] = cmd[u]
         /\ \A u \in Terminals : cmd'[u].pc # "idle" =>
              /\ cmd'[u].new # 0
              /\ cmd'[u].pc # "next" => cmd'[u].env \in Names /\ cmd'[u].read \in [Names -> Entry]
  BY GoesOn DEF TypeOK, Same

LEMMA StopsTyped ==
  ASSUME TypeOK, NEW t \in Terminals, NEW lost, StopWith(t, lost)
  PROVE  /\ cmd' \in [Terminals -> Command] /\ cmd'[t] = Idle /\ excused' = excused \cup lost
         /\ \A u \in Terminals : u # t => cmd'[u] = cmd[u]
         /\ \A u \in Terminals : cmd'[u].pc # "idle" =>
              /\ cmd'[u].new # 0
              /\ cmd'[u].pc # "next" => cmd'[u].env \in Names /\ cmd'[u].read \in [Names -> Entry]
<1>1. Idle \in Command /\ Idle.pc = "idle"
  BY IdleIsCommand DEF Idle
<1>2. cmd' = [cmd EXCEPT ![t] = Idle] /\ excused' = excused \cup lost
  BY DEF StopWith
<1> QED
  BY <1>1, <1>2, GoesOn

LEMMA InHandTyped ==
  ASSUME TypeOK, NEW t \in Terminals, cmd[t].pc \notin {"idle", "next"}
  PROVE  InHand(t) \subseteq Names \X Nat
  BY DEF InHand, TypeOK, Command

LEMMA FailedTyped ==
  ASSUME TypeOK, NEW n \in {0, 1}, Failed(n)
  PROVE  failures' \in 0..MaxFailures
  BY BoundsAssumption DEF Failed, TypeOK

LEMMA MakeBuilds ==
  ASSUME TypeOK, NEW e \in Names, NEW step \in Resources,
         cloud' = [cloud EXCEPT ![e].made = @ \cup {step}]
  PROVE  /\ cloud' \in [Names -> Backend]
         /\ cloud'[e].made = cloud[e].made \cup {step}
         /\ \A n \in Names : cloud'[n].secrets = cloud[n].secrets
         /\ \A n \in Names : n # e => cloud'[n].made = cloud[n].made
<1>1. \A n \in Names : cloud[n] \in Backend
  BY DEF TypeOK
<1>2. cloud' = [n \in Names |-> IF n = e THEN [cloud[e] EXCEPT !.made = cloud[e].made \cup {step}] ELSE cloud[n]]
  BY DEF TypeOK
<1> DEFINE m == cloud[e].made \cup {step}
<1>3. m \in SUBSET Resources
  BY <1>1 DEF Backend
<1> HIDE DEF m
<1>4. /\ [cloud[e] EXCEPT !.made = m] \in Backend
      /\ [cloud[e] EXCEPT !.made = m].made = m
      /\ [cloud[e] EXCEPT !.made = m].secrets = cloud[e].secrets
  BY <1>1, <1>3 DEF Backend
<1>5. cloud' = [n \in Names |-> IF n = e THEN [cloud[e] EXCEPT !.made = m] ELSE cloud[n]]
  BY <1>2 DEF m
<1> QED
  BY <1>1, <1>4, <1>5 DEF m

Given(b, e, kinds, n) ==
  [b EXCEPT ![e].secrets = [k \in Kinds |-> IF k \in kinds THEN n ELSE @[k]]]

LEMMA StoreGives ==
  ASSUME TypeOK, NEW e \in Names, NEW n \in Nat, NEW kinds \in SUBSET Kinds,
         cloud' = Given(cloud, e, kinds, n)
  PROVE  /\ cloud' \in [Names -> Backend]
         /\ \A m \in Names : cloud'[m].made = cloud[m].made
         /\ \A m \in Names, k \in Kinds :
              cloud'[m].secrets[k] = IF m = e /\ k \in kinds THEN n ELSE cloud[m].secrets[k]
<1> DEFINE s == [k \in Kinds |-> IF k \in kinds THEN n ELSE cloud[e].secrets[k]]
<1>1. \A m \in Names : cloud[m] \in Backend
  BY DEF TypeOK
<1>2. cloud' = [m \in Names |-> IF m = e THEN [cloud[e] EXCEPT !.secrets = s] ELSE cloud[m]]
  BY DEF TypeOK, Given
<1>3. s \in [Kinds -> Nat]
  BY <1>1 DEF Backend
<1>4. \A k \in Kinds : s[k] = IF k \in kinds THEN n ELSE cloud[e].secrets[k]
  OBVIOUS
<1> HIDE DEF s
<1>5. /\ [cloud[e] EXCEPT !.secrets = s] \in Backend
      /\ [cloud[e] EXCEPT !.secrets = s].made = cloud[e].made
      /\ [cloud[e] EXCEPT !.secrets = s].secrets = s
  BY <1>1, <1>3 DEF Backend
<1> QED
  BY <1>1, <1>2, <1>4, <1>5

(* The file rewritten from what a command read of it.                      *)
LEMMA RewriteTyped ==
  ASSUME TypeOK, NEW c \in Command, c.env \in Names, c.read \in [Names -> Entry],
         NEW entry \in Entry, Rewrite(c, entry)
  PROVE  /\ file' \in [Names -> Entry] /\ excused' \subseteq Names \X Nat
         /\ file'[c.env] = entry
         /\ \A n \in Names : n # c.env => file'[n] = IF c.read[n].is = "bad" THEN Absent ELSE c.read[n]
         /\ \A n \in Names : file'[n].key # file[n].key /\ (n = c.env \/ file[n] # c.read[n])
                               => <<n, file[n].key>> \in excused'
         /\ excused \subseteq excused'
<1>1. file' = [Definitions(c.read) EXCEPT ![c.env] = entry]
  BY DEF Rewrite
<1>2. Definitions(c.read) \in [Names -> Entry]
  BY EntryKinds DEF Definitions
<1>3. file' \in [Names -> Entry] /\ file'[c.env] = entry
  BY <1>1, <1>2
<1>4. \A n \in Names : n # c.env => file'[n] = IF c.read[n].is = "bad" THEN Absent ELSE c.read[n]
  BY <1>1, <1>2 DEF Definitions
<1> DEFINE noted == {n \in {m \in Names : file'[m].key # file[m].key} : n = c.env \/ file[n] # c.read[n]}
<1>5. excused' = excused \cup {<<n, file[n].key>> : n \in noted}
  BY DEF Rewrite
<1>6. \A n \in noted : <<n, file[n].key>> \in Names \X Nat
  BY EntryKinds DEF TypeOK
<1>7. excused' \subseteq Names \X Nat
  BY <1>5, <1>6 DEF TypeOK
<1> QED
  BY <1>3, <1>4, <1>5, <1>7

(***************************************************************************)
(* What each step does.                                                    *)
(***************************************************************************)
Alone(t) == \A u \in Terminals : u # t => cmd'[u] = cmd[u]

LEMMA Stops ==
  ASSUME TypeOK, NEW t \in Terminals, StopWith(t, {})
  PROVE  /\ cmd' \in [Terminals -> Command] /\ cmd'[t] = Idle /\ excused' = excused /\ Alone(t)
         /\ \A u \in Terminals : cmd'[u].pc # "idle" =>
              /\ cmd'[u].new # 0
              /\ cmd'[u].pc # "next" => cmd'[u].env \in Names /\ cmd'[u].read \in [Names -> Entry]
<1> DEFINE lost == {}
<1>1. StopWith(t, lost) /\ lost = {}
  OBVIOUS
<1> HIDE DEF lost
<1>2. /\ cmd' \in [Terminals -> Command] /\ cmd'[t] = Idle /\ excused' = excused \cup lost
      /\ \A u \in Terminals : u # t => cmd'[u] = cmd[u]
      /\ \A u \in Terminals : cmd'[u].pc # "idle" =>
           /\ cmd'[u].new # 0
           /\ cmd'[u].pc # "next" => cmd'[u].env \in Names /\ cmd'[u].read \in [Names -> Entry]
  BY <1>1, StopsTyped
<1> QED
  BY <1>1, <1>2 DEF Alone

LEMMA ListMoves ==
  ASSUME TypeOK, NEW t \in Terminals, List(t)
  PROVE  /\ TypeOK' /\ Alone(t) /\ UNCHANGED <<file, cloud, held, excused>> /\ cmd[t].pc = "list"
         /\ \/ cmd'[t] = Idle
            \/ /\ Same(cmd[t], cmd'[t]) /\ cmd'[t].mine = cmd[t].mine
               /\ cmd'[t].have = cloud[cmd[t].env].made \cap Stores
               /\ \/ cmd[t].do = "update" /\ cmd'[t].have = Stores /\ cmd'[t].pc = "tables"
                  \/ /\ cmd[t].do # "update" /\ cmd'[t].pc = "database"
                     /\ cmd[t].resume \/ cmd'[t].have = {}
<1> DEFINE have == cloud[cmd[t].env].made \cap Stores
           step == IF cmd[t].do = "update" THEN "tables" ELSE "database"
           d == [cmd[t] EXCEPT !.have = have, !.pc = step]
<1>1. /\ cmd[t] \in Command /\ cmd[t].pc = "list"
      /\ UNCHANGED <<file, cloud, held, started, failures>>
  BY DEF List, TypeOK
<1>2. CASE MayGoOn(cmd[t], have)
  <2>1. cmd' = [cmd EXCEPT ![t].have = have, ![t].pc = step] /\ excused' = excused
    BY <1>2 DEF List
  <2>2. cmd' = [cmd EXCEPT ![t] = d]
    BY <2>1 DEF TypeOK
  <2>3. have \in SUBSET Stores
    OBVIOUS
  <2>4. step \in Resources
    BY DEF Resources, Stores
  <2> HIDE DEF have, step
  <2>5. /\ d \in Command /\ Same(cmd[t], d) /\ d.mine = cmd[t].mine /\ d.have = have /\ d.pc = step
    BY <1>1, <2>3, <2>4 DEF Command, Same
  <2>6. d.pc # "next"
    BY <2>4, <2>5 DEF Resources, Stores
  <2> HIDE DEF d
  <2>7. /\ cmd' \in [Terminals -> Command] /\ cmd'[t] = d /\ Alone(t)
        /\ \A u \in Terminals : cmd'[u].pc # "idle" =>
             /\ cmd'[u].new # 0
             /\ cmd'[u].pc # "next" => cmd'[u].env \in Names /\ cmd'[u].read \in [Names -> Entry]
    BY <1>1, <2>2, <2>5, <2>6, MovesOn DEF Alone
  <2>8. TypeOK'
    BY <1>1, <2>1, <2>7 DEF TypeOK
  <2> QED
    BY <1>1, <1>2, <2>1, <2>5, <2>7, <2>8 DEF MayGoOn, have, step
<1>3. CASE ~MayGoOn(cmd[t], have)
  <2>1. StopWith(t, {})
    BY <1>3 DEF List
  <2>2. /\ cmd' \in [Terminals -> Command] /\ cmd'[t] = Idle /\ excused' = excused /\ Alone(t)
        /\ \A u \in Terminals : cmd'[u].pc # "idle" =>
             /\ cmd'[u].new # 0
             /\ cmd'[u].pc # "next" => cmd'[u].env \in Names /\ cmd'[u].read \in [Names -> Entry]
    BY <2>1, Stops
  <2> QED
    BY <1>1, <2>2 DEF TypeOK
<1> QED
  BY <1>2, <1>3

LEMMA MakeMoves ==
  ASSUME TypeOK, NEW t \in Terminals, NEW step \in Resources, NEW o \in Outcomes, Make(t, step, o)
  PROVE  /\ TypeOK' /\ Alone(t) /\ UNCHANGED <<file, held, excused>> /\ cmd[t].pc = step
         /\ \A n \in Names : cloud[n].made \subseteq cloud'[n].made
         /\ \A n \in Names : cloud'[n].secrets = cloud[n].secrets
         /\ \/ cmd'[t] = Idle
            \/ /\ Same(cmd[t], cmd'[t]) /\ cmd'[t].pc = After(step) /\ cmd'[t].have = cmd[t].have
               /\ \/ step \in Stores /\ step \in cmd[t].have /\ cmd'[t].mine = cmd[t].mine
                  \/ cmd'[t].mine = cmd[t].mine \cup {step} /\ step \in cloud'[cmd[t].env].made
<1> DEFINE c == cmd[t]
           made == cloud[c.env].made
           clash == step \in Stores /\ step \in made
           skip == step \in Stores /\ step \in c.have
           mine == IF skip THEN c.mine ELSE c.mine \cup {step}
           d == [c EXCEPT !.pc = After(step), !.mine = mine]
<1>1. /\ c \in Command /\ c.pc = step /\ step \notin {"idle", "next"} /\ c.env \in Names
      /\ UNCHANGED <<file, held, started>>
  BY DEF Make, TypeOK, Resources, Stores
<1>2. failures' \in 0..MaxFailures
  <2>1. (IF o = "ok" THEN 0 ELSE 1) \in {0, 1} /\ Failed(IF o = "ok" THEN 0 ELSE 1)
    BY DEF Make
  <2> QED
    BY <2>1, FailedTyped
<1>3. /\ cloud' \in [Names -> Backend]
      /\ \A n \in Names : cloud[n].made \subseteq cloud'[n].made /\ cloud'[n].secrets = cloud[n].secrets
      /\ o # "failed" /\ ~skip /\ ~clash => step \in cloud'[c.env].made
  <2>1. CASE o = "failed" \/ skip \/ clash
    <3>1. cloud' = cloud
      BY <2>1 DEF Make
    <3> QED
      BY <2>1, <3>1 DEF TypeOK
  <2>2. CASE ~(o = "failed" \/ skip \/ clash)
    <3>1. cloud' = [cloud EXCEPT ![c.env].made = @ \cup {step}]
      BY <2>2 DEF Make
    <3>2. /\ cloud' \in [Names -> Backend]
          /\ cloud'[c.env].made = cloud[c.env].made \cup {step}
          /\ \A n \in Names : cloud'[n].secrets = cloud[n].secrets
          /\ \A n \in Names : n # c.env => cloud'[n].made = cloud[n].made
      BY <1>1, <3>1, MakeBuilds
    <3> QED
      BY <1>1, <3>2
  <2> QED
    BY <2>1, <2>2
<1>4. CASE o # "ok" \/ (clash /\ ~skip)
  <2>1. StopWith(t, {})
    BY <1>4 DEF Make
  <2>2. /\ cmd' \in [Terminals -> Command] /\ cmd'[t] = Idle /\ excused' = excused /\ Alone(t)
        /\ \A u \in Terminals : cmd'[u].pc # "idle" =>
             /\ cmd'[u].new # 0
             /\ cmd'[u].pc # "next" => cmd'[u].env \in Names /\ cmd'[u].read \in [Names -> Entry]
    BY <2>1, Stops
  <2>3. TypeOK'
    BY <1>1, <1>2, <1>3, <2>2 DEF TypeOK
  <2> QED
    BY <1>1, <1>3, <2>2, <2>3
<1>5. CASE ~(o # "ok" \/ (clash /\ ~skip))
  <2>1. cmd' = [cmd EXCEPT ![t].pc = After(step), ![t].mine = IF skip THEN @ ELSE @ \cup {step}]
        /\ excused' = excused
    BY <1>5 DEF Make
  <2>2. cmd' = [cmd EXCEPT ![t] = d]
    BY <2>1 DEF TypeOK
  <2>3. mine \in SUBSET Resources
    BY <1>1 DEF Command
  <2>4. After(step) \in {"bucket", "tables", "worker", "secrets"}
    BY DEF After, Resources, Stores
  <2>5. ~skip => mine = c.mine \cup {step} /\ step \in cloud'[c.env].made
    BY <1>3, <1>5
  <2>6. skip => mine = c.mine
    OBVIOUS
  <2> HIDE DEF mine
  <2>7. d \in Command /\ Same(c, d) /\ d.pc = After(step) /\ d.mine = mine /\ d.have = c.have
    BY <1>1, <2>3, <2>4 DEF Command, Same, Resources, Stores
  <2>8. d.pc # "next"
    BY <2>4, <2>7
  <2> HIDE DEF d
  <2>9. /\ cmd' \in [Terminals -> Command] /\ cmd'[t] = d /\ Alone(t)
        /\ \A u \in Terminals : cmd'[u].pc # "idle" =>
             /\ cmd'[u].new # 0
             /\ cmd'[u].pc # "next" => cmd'[u].env \in Names /\ cmd'[u].read \in [Names -> Entry]
    BY <1>1, <2>2, <2>7, <2>8, MovesOn DEF Alone
  <2>10. TypeOK'
    BY <1>1, <1>2, <1>3, <2>1, <2>9 DEF TypeOK
  <2> QED
    BY <1>1, <1>3, <2>1, <2>5, <2>6, <2>7, <2>9, <2>10
<1> QED
  BY <1>4, <1>5

(* Every command's record is well formed.                                  *)
Running ==
  \A u \in Terminals : cmd[u].pc # "idle" =>
    /\ cmd[u].new # 0
    /\ cmd[u].pc # "next" => cmd[u].env \in Names /\ cmd[u].read \in [Names -> Entry]

LEMMA ListSecretsMoves ==
  ASSUME TypeOK, NEW t \in Terminals, NEW answered \in BOOLEAN, ListSecrets(t, answered)
  PROVE  /\ TypeOK' /\ Alone(t) /\ UNCHANGED <<file, cloud, held, excused>> /\ cmd[t].pc = "secrets"
         /\ Same(cmd[t], cmd'[t]) /\ cmd'[t].mine = cmd[t].mine
         /\ cmd'[t].kinds = cmd'[t].keep
         /\ \A k \in Kinds \ cmd'[t].kinds : cloud[cmd[t].env].secrets[k] # 0
         /\ cmd'[t].pc = IF cmd'[t].kinds = {} THEN "health" ELSE "store"
<1> DEFINE c == cmd[t]
           kinds == Missing(c.env, answered)
           step == IF kinds = {} THEN "health" ELSE "store"
           d == [c EXCEPT !.kinds = kinds, !.keep = kinds, !.pc = step]
<1>1. /\ c \in Command /\ c.pc = "secrets" /\ UNCHANGED <<file, cloud, held, started, excused>>
      /\ cmd' = [cmd EXCEPT ![t].kinds = kinds, ![t].keep = kinds, ![t].pc = step]
  BY DEF ListSecrets, TypeOK
<1>2. cmd' = [cmd EXCEPT ![t] = d]
  BY <1>1 DEF TypeOK
<1>3. kinds \in SUBSET Kinds /\ \A k \in Kinds \ kinds : cloud[c.env].secrets[k] # 0
  <2>1. CASE answered
    BY <2>1 DEF Missing
  <2>2. CASE ~answered
    BY <2>2 DEF Missing
  <2> QED
    BY <2>1, <2>2
<1>4. step \in {"health", "store"} /\ step = IF kinds = {} THEN "health" ELSE "store"
  OBVIOUS
<1>5. failures' \in 0..MaxFailures
  <2>1. (IF answered THEN 0 ELSE 1) \in {0, 1} /\ Failed(IF answered THEN 0 ELSE 1)
    BY DEF ListSecrets
  <2> QED
    BY <2>1, FailedTyped
<1> HIDE DEF kinds, step
<1>6. d \in Command /\ Same(c, d) /\ d.pc = step /\ d.mine = c.mine /\ d.kinds = kinds /\ d.keep = kinds
  BY <1>1, <1>3, <1>4 DEF Command, Same, Stored
<1>7. d.pc # "next"
  BY <1>4, <1>6
<1> HIDE DEF d
<1>8. cmd' \in [Terminals -> Command] /\ cmd'[t] = d /\ Alone(t) /\ Running'
  BY <1>1, <1>2, <1>6, <1>7, MovesOn DEF Alone, Running
<1>9. TypeOK'
  BY <1>1, <1>5, <1>8 DEF TypeOK, Running
<1> QED
  BY <1>1, <1>3, <1>4, <1>6, <1>8, <1>9

LEMMA StoreMoves ==
  ASSUME TypeOK, NEW t \in Terminals, NEW o \in Outcomes, Store(t, o)
  PROVE  /\ TypeOK' /\ Alone(t) /\ UNCHANGED <<file, held>> /\ cmd[t].pc = "store"
         /\ cmd[t].new # 0 /\ cmd[t].env \in Names
         /\ \A n \in Names : cloud'[n].made = cloud[n].made
         /\ \A n \in Names, k \in Kinds : cloud'[n].secrets[k] =
              IF o # "failed" /\ n = cmd[t].env /\ k \in cmd[t].kinds THEN cmd[t].new
              ELSE cloud[n].secrets[k]
         /\ excused \subseteq excused'
         /\ \/ cmd'[t] = Idle /\ o # "ok" /\ (o = "lost" => InHand(t) \subseteq excused')
            \/ /\ o = "ok" /\ Same(cmd[t], cmd'[t]) /\ cmd'[t].mine = cmd[t].mine
               /\ cmd'[t].keep = cmd[t].keep /\ cmd'[t].kinds = cmd[t].kinds
               /\ \/ cmd[t].do # "rotate" /\ cmd'[t].pc = "health"
                  \/ /\ cmd[t].do = "rotate" /\ "admin" \in cmd[t].kinds
                     /\ cmd[t].read[cmd[t].env].is = "key" /\ cmd'[t].pc = "save"
                  \/ cmd[t].do = "rotate" /\ cmd'[t].pc = "reveal"
<1> DEFINE c == cmd[t]
           step == IF c.do # "rotate" THEN "health"
                   ELSE IF "admin" \in c.kinds /\ c.read[c.env].is = "key" THEN "save" ELSE "reveal"
           d == [c EXCEPT !.pc = step]
<1>1. /\ c \in Command /\ c.pc = "store" /\ c.env \in Names /\ c.new # 0
      /\ UNCHANGED <<file, held, started>>
  BY DEF Store, TypeOK
<1>2. failures' \in 0..MaxFailures
  <2>1. (IF o = "ok" THEN 0 ELSE 1) \in {0, 1} /\ Failed(IF o = "ok" THEN 0 ELSE 1)
    BY DEF Store
  <2> QED
    BY <2>1, FailedTyped
<1>3. /\ cloud' \in [Names -> Backend]
      /\ \A n \in Names : cloud'[n].made = cloud[n].made
      /\ \A n \in Names, k \in Kinds : cloud'[n].secrets[k] =
           IF o # "failed" /\ n = c.env /\ k \in c.kinds THEN c.new ELSE cloud[n].secrets[k]
  <2>1. CASE o = "failed"
    BY <2>1 DEF Store, TypeOK
  <2>2. CASE o # "failed"
    <3> DEFINE e == c.env
               n == c.new
               kinds == c.kinds
    <3>1. cloud' = Given(cloud, e, kinds, n)
      BY <2>2 DEF Store, Given
    <3>2. e \in Names /\ n \in Nat /\ kinds \in SUBSET Kinds
      BY <1>1 DEF Command
    <3> HIDE DEF e, n, kinds
    <3>3. /\ cloud' \in [Names -> Backend]
          /\ \A m \in Names : cloud'[m].made = cloud[m].made
          /\ \A m \in Names, k \in Kinds :
               cloud'[m].secrets[k] = IF m = e /\ k \in kinds THEN n ELSE cloud[m].secrets[k]
      BY <3>1, <3>2, StoreGives
    <3> QED
      BY <2>2, <3>3 DEF e, n, kinds
  <2> QED
    BY <2>1, <2>2
<1>4. CASE o # "ok"
  <2> DEFINE lost == IF o = "lost" THEN InHand(t) ELSE {}
  <2>1. StopWith(t, lost)
    BY <1>4 DEF Store
  <2>2. lost \subseteq Names \X Nat
    BY <1>1, InHandTyped
  <2>3. o = "lost" => InHand(t) \subseteq lost
    OBVIOUS
  <2> HIDE DEF lost
  <2>4. /\ cmd' \in [Terminals -> Command] /\ cmd'[t] = Idle /\ excused' = excused \cup lost
        /\ Alone(t) /\ Running'
    BY <2>1, StopsTyped DEF Alone, Running
  <2>5. TypeOK'
    BY <1>1, <1>2, <1>3, <2>2, <2>4 DEF TypeOK, Running
  <2> QED
    BY <1>1, <1>3, <1>4, <2>3, <2>4, <2>5
<1>5. CASE o = "ok"
  <2>1. cmd' = [cmd EXCEPT ![t].pc = step] /\ excused' = excused
    BY <1>5 DEF Store
  <2>2. cmd' = [cmd EXCEPT ![t] = d]
    BY <2>1 DEF TypeOK
  <2>3. /\ step \in {"health", "save", "reveal"}
        /\ \/ c.do # "rotate" /\ step = "health"
           \/ c.do = "rotate" /\ "admin" \in c.kinds /\ c.read[c.env].is = "key" /\ step = "save"
           \/ c.do = "rotate" /\ step = "reveal"
    OBVIOUS
  <2> HIDE DEF step
  <2>4. d \in Command /\ Same(c, d) /\ d.pc = step /\ d.mine = c.mine /\ d.kinds = c.kinds /\ d.keep = c.keep
    BY <1>1, <2>3 DEF Command, Same, Stored
  <2>5. d.pc # "next"
    BY <2>3, <2>4
  <2> HIDE DEF d
  <2>6. cmd' \in [Terminals -> Command] /\ cmd'[t] = d /\ Alone(t) /\ Running'
    BY <1>1, <2>2, <2>4, <2>5, MovesOn DEF Alone, Running
  <2>7. TypeOK'
    BY <1>1, <1>2, <1>3, <2>1, <2>6 DEF TypeOK, Running
  <2> QED
    BY <1>1, <1>3, <1>5, <2>1, <2>3, <2>4, <2>6, <2>7
<1> QED
  BY <1>4, <1>5

LEMMA HealthMoves ==
  ASSUME TypeOK, NEW t \in Terminals, NEW healthy \in BOOLEAN, Health(t, healthy)
  PROVE  /\ TypeOK' /\ Alone(t) /\ UNCHANGED <<file, cloud, held>> /\ cmd[t].pc = "health"
         /\ excused \subseteq excused'
         /\ \/ cmd'[t] = Idle /\ InHand(t) \subseteq excused'
            \/ /\ Same(cmd[t], cmd'[t]) /\ cmd'[t].mine = cmd[t].mine /\ cmd'[t].keep = cmd[t].keep
               /\ cmd'[t].pc \in {"register", "reveal"}
<1> DEFINE c == cmd[t]
           step == IF Adds(c) THEN "register" ELSE "reveal"
           d == [c EXCEPT !.pc = step]
<1>1. c \in Command /\ c.pc = "health" /\ UNCHANGED <<file, cloud, held, started>>
  BY DEF Health, TypeOK
<1>2. failures' \in 0..MaxFailures
  <2>1. (IF healthy THEN 0 ELSE 1) \in {0, 1} /\ Failed(IF healthy THEN 0 ELSE 1)
    BY DEF Health
  <2> QED
    BY <2>1, FailedTyped
<1>3. CASE ~healthy
  <2> DEFINE lost == InHand(t)
  <2>1. StopWith(t, lost)
    BY <1>3 DEF Health
  <2>2. lost \subseteq Names \X Nat
    BY <1>1, InHandTyped
  <2> HIDE DEF lost
  <2>3. /\ cmd' \in [Terminals -> Command] /\ cmd'[t] = Idle /\ excused' = excused \cup lost
        /\ Alone(t) /\ Running'
    BY <2>1, StopsTyped DEF Alone, Running
  <2>4. TypeOK'
    BY <1>1, <1>2, <2>2, <2>3 DEF TypeOK, Running
  <2> QED
    BY <1>1, <2>3, <2>4 DEF lost
<1>4. CASE healthy
  <2>1. cmd' = [cmd EXCEPT ![t].pc = step] /\ excused' = excused
    BY <1>4 DEF Health
  <2>2. cmd' = [cmd EXCEPT ![t] = d]
    BY <2>1 DEF TypeOK
  <2>3. step \in {"register", "reveal"}
    OBVIOUS
  <2> HIDE DEF step
  <2>4. d \in Command /\ Same(c, d) /\ d.pc = step /\ d.mine = c.mine /\ d.keep = c.keep
    BY <1>1, <2>3 DEF Command, Same, Stored
  <2>5. d.pc # "next"
    BY <2>3, <2>4
  <2> HIDE DEF d
  <2>6. cmd' \in [Terminals -> Command] /\ cmd'[t] = d /\ Alone(t) /\ Running'
    BY <1>1, <2>2, <2>4, <2>5, MovesOn DEF Alone, Running
  <2>7. TypeOK'
    BY <1>1, <1>2, <2>1, <2>6 DEF TypeOK, Running
  <2> QED
    BY <1>1, <2>1, <2>3, <2>4, <2>6, <2>7
<1> QED
  BY <1>3, <1>4

(* Writing of the file, and the last steps.                                *)
LEMMA WriteFails ==
  ASSUME TypeOK, NEW written \in BOOLEAN, Failed(IF written THEN 0 ELSE 1)
  PROVE  failures' \in 0..MaxFailures
<1>1. (IF written THEN 0 ELSE 1) \in {0, 1}
  OBVIOUS
<1> QED
  BY <1>1, FailedTyped

LEMMA RegisterMoves ==
  ASSUME TypeOK, NEW t \in Terminals, NEW written \in BOOLEAN, Register(t, written)
  PROVE  /\ TypeOK' /\ Alone(t) /\ UNCHANGED <<cloud, held, excused>> /\ cmd[t].pc = "register"
         /\ cmd[t].env \in Names
         /\ Same(cmd[t], cmd'[t]) /\ cmd'[t].mine = cmd[t].mine /\ cmd'[t].pc = "reveal"
         /\ \/ file' = file /\ cmd'[t].keep = cmd[t].keep
            \/ /\ file[cmd[t].env].is = "none" /\ file'[cmd[t].env].key = cmd[t].new
               /\ \A n \in Names : n # cmd[t].env => file'[n] = file[n]
<1> DEFINE c == cmd[t]
<1>1. /\ c \in Command /\ c.pc = "register" /\ c.env \in Names
      /\ UNCHANGED <<cloud, held, started, excused>>
  BY DEF Register, TypeOK
<1>2. failures' \in 0..MaxFailures
  BY WriteFails DEF Register
<1>3. ASSUME NEW keep \in SUBSET Kinds, file' \in [Names -> Entry],
             cmd' = [cmd EXCEPT ![t] = [c EXCEPT !.pc = "reveal", !.keep = keep]]
      PROVE  TypeOK' /\ Alone(t) /\ Same(c, cmd'[t]) /\ cmd'[t].mine = c.mine
             /\ cmd'[t].pc = "reveal" /\ cmd'[t].keep = keep
  <2> DEFINE d == [c EXCEPT !.pc = "reveal", !.keep = keep]
  <2>1. d \in Command /\ Same(c, d) /\ d.pc = "reveal" /\ d.mine = c.mine /\ d.keep = keep
    BY <1>1 DEF Command, Same, Stored
  <2>2. cmd' = [cmd EXCEPT ![t] = d]
    BY <1>3
  <2> HIDE DEF d
  <2>3. cmd' \in [Terminals -> Command] /\ cmd'[t] = d /\ Alone(t) /\ Running'
    BY <1>1, <2>1, <2>2, MovesOn DEF Alone, Running
  <2>4. TypeOK'
    BY <1>1, <1>2, <1>3, <2>3 DEF TypeOK, Running
  <2> QED
    BY <2>1, <2>3, <2>4
<1>4. CASE written /\ MayAdd(c.env)
  <2>1. /\ file' = [file EXCEPT ![c.env] = Key(c.new)]
        /\ cmd' = [cmd EXCEPT ![t].pc = "reveal", ![t].keep = @ \ {"admin"}]
    BY <1>4 DEF Register
  <2>2. Key(c.new) \in Entry /\ Key(c.new).key = c.new
    <3>1. c.new \in Nat
      BY <1>1 DEF Command
    <3> QED
      BY <3>1, EntryKinds DEF Key
  <2>3. /\ file' \in [Names -> Entry] /\ file'[c.env].key = c.new
        /\ \A n \in Names : n # c.env => file'[n] = file[n]
    BY <1>1, <2>1, <2>2 DEF TypeOK
  <2>4. cmd' = [cmd EXCEPT ![t] = [c EXCEPT !.pc = "reveal", !.keep = c.keep \ {"admin"}]]
    BY <2>1 DEF TypeOK
  <2>5. c.keep \ {"admin"} \in SUBSET Kinds
    BY <1>1 DEF Command
  <2>6. file[c.env].is = "none"
    BY <1>4 DEF MayAdd
  <2> QED
    BY <1>1, <1>3, <2>3, <2>4, <2>5, <2>6
<1>5. CASE ~(written /\ MayAdd(c.env))
  <2>1. file' = file /\ cmd' = [cmd EXCEPT ![t].pc = "reveal"]
    BY <1>5 DEF Register
  <2>2. c.keep \in SUBSET Kinds
    BY <1>1 DEF Command
  <2>3. cmd' = [cmd EXCEPT ![t] = [c EXCEPT !.pc = "reveal", !.keep = c.keep]]
    BY <1>1, <2>1 DEF TypeOK, Command
  <2>4. file' \in [Names -> Entry]
    BY <2>1 DEF TypeOK
  <2> QED
    BY <1>1, <1>3, <2>1, <2>2, <2>3, <2>4
<1> QED
  BY <1>4, <1>5

LEMMA SaveRotatedMoves ==
  ASSUME TypeOK, NEW t \in Terminals, NEW written \in BOOLEAN, SaveRotated(t, written)
  PROVE  /\ TypeOK' /\ Alone(t) /\ UNCHANGED <<cloud, held>> /\ cmd[t].pc = "save"
         /\ Same(cmd[t], cmd'[t]) /\ cmd'[t].pc = "reveal" /\ cmd'[t].mine = cmd[t].mine
         /\ \/ file' = file /\ excused' = excused /\ cmd'[t].keep = cmd[t].keep
            \/ Rewrite(cmd[t], Key(cmd[t].new))
<1> DEFINE c == cmd[t]
           keep == KeepAfter(c, written)
           d == [c EXCEPT !.pc = "reveal", !.keep = keep]
<1>1. /\ c \in Command /\ c.pc = "save" /\ c.env \in Names /\ c.read \in [Names -> Entry]
      /\ UNCHANGED <<cloud, held, started>>
      /\ cmd' = [cmd EXCEPT ![t].pc = "reveal", ![t].keep = keep]
  BY DEF SaveRotated, TypeOK
<1>2. failures' \in 0..MaxFailures
  BY WriteFails DEF SaveRotated
<1>3. cmd' = [cmd EXCEPT ![t] = d]
  BY <1>1 DEF TypeOK
<1>4. keep \in SUBSET Kinds
  BY <1>1 DEF KeepAfter, Command
<1>5. \/ ~written /\ file' = file /\ excused' = excused /\ keep = c.keep
      \/ Rewrite(c, Key(c.new))
  BY DEF SaveRotated, KeepAfter
<1> HIDE DEF keep
<1>6. d \in Command /\ Same(c, d) /\ d.pc = "reveal" /\ d.mine = c.mine /\ d.keep = keep
  BY <1>1, <1>4 DEF Command, Same, Stored
<1> HIDE DEF d
<1>7. cmd' \in [Terminals -> Command] /\ cmd'[t] = d /\ Alone(t) /\ Running'
  BY <1>1, <1>3, <1>6, MovesOn DEF Alone, Running
<1>8. file' \in [Names -> Entry] /\ excused' \subseteq Names \X Nat
  <2>1. Key(c.new) \in Entry
    BY <1>1, EntryKinds DEF Command
  <2>2. CASE file' = file /\ excused' = excused
    BY <2>2 DEF TypeOK
  <2>3. CASE Rewrite(c, Key(c.new))
    BY <1>1, <2>1, <2>3, RewriteTyped
  <2> QED
    BY <1>5, <2>2, <2>3
<1>9. TypeOK'
  BY <1>1, <1>2, <1>7, <1>8 DEF TypeOK, Running
<1> QED
  BY <1>1, <1>5, <1>6, <1>7, <1>9

LEMMA WriteMoves ==
  ASSUME TypeOK, NEW t \in Terminals, NEW written \in BOOLEAN, Write(t, written)
  PROVE  /\ TypeOK' /\ Alone(t) /\ UNCHANGED <<cloud, held>> /\ cmd[t].pc = "write"
         /\ cmd'[t] = Idle
         /\ \/ file' = file /\ excused' = excused
            \/ Rewrite(cmd[t], cmd[t].put)
<1> DEFINE c == cmd[t]
<1>1. /\ c \in Command /\ c.pc = "write" /\ c.env \in Names /\ c.read \in [Names -> Entry]
      /\ UNCHANGED <<cloud, held, started>> /\ cmd' = [cmd EXCEPT ![t] = Idle]
  BY DEF Write, TypeOK
<1>2. failures' \in 0..MaxFailures
  BY WriteFails DEF Write
<1>3. (file' = file /\ excused' = excused) \/ Rewrite(c, c.put)
  BY DEF Write
<1>4. cmd' \in [Terminals -> Command] /\ cmd'[t] = Idle /\ Alone(t) /\ Running'
  <2>1. Idle \in Command /\ Idle.pc = "idle"
    BY IdleIsCommand DEF Idle
  <2> QED
    BY <1>1, <2>1, GoesOn DEF Alone, Running
<1>5. file' \in [Names -> Entry] /\ excused' \subseteq Names \X Nat
  <2>1. c.put \in Entry
    BY <1>1 DEF Command
  <2>2. CASE file' = file /\ excused' = excused
    BY <2>2 DEF TypeOK
  <2>3. CASE Rewrite(c, c.put)
    BY <1>1, <2>1, <2>3, RewriteTyped
  <2> QED
    BY <1>3, <2>2, <2>3
<1>6. TypeOK'
  BY <1>1, <1>2, <1>4, <1>5 DEF TypeOK, Running
<1> QED
  BY <1>1, <1>3, <1>4, <1>6

LEMMA RevealMoves ==
  ASSUME TypeOK, NEW t \in Terminals, Reveal(t)
  PROVE  /\ TypeOK' /\ Alone(t) /\ UNCHANGED <<file, cloud, excused>> /\ cmd[t].pc = "reveal"
         /\ cmd'[t].do = "none" /\ cmd'[t].pc \in {"idle", "next"}
         /\ \A n \in Names : held[n] \subseteq held'[n]
         /\ "admin" \in cmd[t].keep => <<"admin", cmd[t].new>> \in held'[cmd[t].env]
<1> DEFINE c == cmd[t]
           shown == {<<k, c.new>> : k \in Shown(c)}
           d == IF c.todo = {} THEN Idle ELSE [Idle EXCEPT !.pc = "next", !.todo = c.todo, !.new = c.new]
<1>1. /\ c \in Command /\ c.pc = "reveal" /\ c.env \in Names /\ c.new # 0
      /\ UNCHANGED <<file, cloud, started, failures, excused>>
      /\ cmd' = [cmd EXCEPT ![t] = d] /\ held' = [held EXCEPT ![c.env] = @ \cup shown]
  BY DEF Reveal, TypeOK
<1>2. /\ d \in Command /\ d.do = "none" /\ d.pc \in {"idle", "next"}
      /\ d.pc = "next" => d.new # 0
  <2>1. CASE c.todo = {}
    BY <2>1, IdleIsCommand DEF Idle
  <2>2. CASE c.todo # {}
    <3>1. [Idle EXCEPT !.pc = "next", !.todo = c.todo, !.new = c.new] \in Command
      BY <1>1, IdleIsCommand DEF Command
    <3>2. /\ [Idle EXCEPT !.pc = "next", !.todo = c.todo, !.new = c.new].do = "none"
          /\ [Idle EXCEPT !.pc = "next", !.todo = c.todo, !.new = c.new].pc = "next"
          /\ [Idle EXCEPT !.pc = "next", !.todo = c.todo, !.new = c.new].new = c.new
      BY DEF Idle
    <3> QED
      BY <1>1, <2>2, <3>1, <3>2
  <2> QED
    BY <2>1, <2>2
<1> HIDE DEF d
<1>3. cmd' \in [Terminals -> Command] /\ cmd'[t] = d /\ Alone(t) /\ Running'
  BY <1>1, <1>2, GoesOn DEF Alone, Running
<1>4. shown \subseteq Kinds \X Nat
  BY <1>1 DEF Shown, Command
<1>5. "admin" \in c.keep => <<"admin", c.new>> \in shown
  BY DEF Shown
<1> HIDE DEF shown
<1>6. /\ held' \in [Names -> SUBSET (Kinds \X Nat)] /\ held'[c.env] = held[c.env] \cup shown
      /\ \A n \in Names : held[n] \subseteq held'[n]
  BY <1>1, <1>4 DEF TypeOK
<1>7. TypeOK'
  BY <1>1, <1>3, <1>6 DEF TypeOK, Running
<1> QED
  BY <1>1, <1>2, <1>3, <1>5, <1>6, <1>7

LEMMA UpdatingIsCommand ==
  ASSUME NEW e \in Names, NEW f \in [Names -> Entry], NEW todo \in SUBSET Names
  PROVE  LET d == Updating(e, f, todo) IN
         d \in Command /\ d.do = "update" /\ d.env = e /\ d.pc = "list" /\ d.read = f
  BY EntryKinds DEF Updating, Idle, Command

LEMMA NumberedCommand ==
  ASSUME NEW c \in Command, NEW n \in Nat
  PROVE  LET d == [c EXCEPT !.new = n] IN
         /\ d \in Command /\ d.new = n /\ d.do = c.do /\ d.env = c.env /\ d.pc = c.pc /\ d.read = c.read
  BY DEF Command

LEMMA NextOfAllMoves ==
  ASSUME TypeOK, NEW t \in Terminals, NextOfAll(t)
  PROVE  /\ TypeOK' /\ Alone(t) /\ UNCHANGED <<file, cloud, held, excused>> /\ cmd[t].pc = "next"
         /\ \/ cmd'[t] = Idle
            \/ cmd'[t].do = "update" /\ cmd'[t].env \in Names /\ cmd'[t].pc = "list"
<1> DEFINE c == cmd[t]
<1>1. /\ c \in Command /\ c.pc = "next" /\ c.new # 0 /\ c.new \in Nat /\ c.todo \in SUBSET Names
      /\ UNCHANGED <<file, cloud, held, started, failures, excused>>
  BY DEF NextOfAll, TypeOK, Command
<1>2. PICK e \in c.todo :
        cmd' = [cmd EXCEPT ![t] = IF file[e].is = "guest" THEN Idle
                                  ELSE [Updating(e, file, c.todo \ {e}) EXCEPT !.new = c.new]]
  BY DEF NextOfAll
<1> DEFINE d == IF file[e].is = "guest" THEN Idle
                ELSE [Updating(e, file, c.todo \ {e}) EXCEPT !.new = c.new]
<1>3. /\ d \in Command
      /\ d.pc # "idle" => d.new # 0 /\ d.env \in Names /\ d.read \in [Names -> Entry]
      /\ d = Idle \/ (d.do = "update" /\ d.env \in Names /\ d.pc = "list")
  <2>1. CASE file[e].is = "guest"
    BY <2>1, IdleIsCommand DEF Idle
  <2>2. CASE file[e].is # "guest"
    <3>1. e \in Names /\ file \in [Names -> Entry] /\ c.todo \ {e} \in SUBSET Names
      BY <1>1 DEF TypeOK
    <3> DEFINE n == c.new
               todo == c.todo \ {e}
               u == [Updating(e, file, todo) EXCEPT !.new = n]
    <3>2. d = u
      BY <2>2
    <3> DEFINE w == Updating(e, file, todo)
    <3> HIDE DEF d, n
    <3>3. w \in Command /\ w.do = "update" /\ w.env = e /\ w.pc = "list" /\ w.read = file
      BY <3>1, UpdatingIsCommand
    <3> HIDE DEF w
    <3>4. /\ [w EXCEPT !.new = n] \in Command /\ [w EXCEPT !.new = n].do = "update"
          /\ [w EXCEPT !.new = n].env = e /\ [w EXCEPT !.new = n].pc = "list"
          /\ [w EXCEPT !.new = n].read = file /\ [w EXCEPT !.new = n].new = n
      BY <1>1, <3>3, NumberedCommand DEF n
    <3> QED
      BY <1>1, <3>1, <3>2, <3>4 DEF n, w
  <2> QED
    BY <2>1, <2>2
<1>4. cmd' = [cmd EXCEPT ![t] = d]
  BY <1>2
<1> HIDE DEF d
<1>5. cmd' \in [Terminals -> Command] /\ cmd'[t] = d /\ Alone(t) /\ Running'
  BY <1>3, <1>4, GoesOn DEF Alone, Running
<1>6. TypeOK'
  BY <1>1, <1>5 DEF TypeOK, Running
<1> QED
  BY <1>1, <1>3, <1>5, <1>6

LEMMA InterruptMoves ==
  ASSUME TypeOK, NEW t \in Terminals, Interrupt(t)
  PROVE  /\ TypeOK' /\ Alone(t) /\ UNCHANGED <<file, cloud, held>> /\ cmd'[t] = Idle
         /\ excused \subseteq excused' /\ (cmd[t].pc \in Stored => InHand(t) \subseteq excused')
<1> DEFINE lost == IF cmd[t].pc \in Stored THEN InHand(t) ELSE {}
<1>1. /\ StopWith(t, lost) /\ UNCHANGED <<file, cloud, held, started>>
      /\ failures' \in 0..MaxFailures
  BY FailedTyped DEF Interrupt
<1>2. cmd[t].pc \in Stored => InHand(t) \subseteq lost
  OBVIOUS
<1>3. lost \subseteq Names \X Nat
  <2>1. cmd[t].pc \in Stored => cmd[t].pc \notin {"idle", "next"}
    BY DEF Stored
  <2> QED
    BY <2>1, InHandTyped
<1> HIDE DEF lost
<1>4. /\ cmd' \in [Terminals -> Command] /\ cmd'[t] = Idle /\ excused' = excused \cup lost
      /\ Alone(t) /\ Running'
  BY <1>1, StopsTyped DEF Alone, Running
<1>5. TypeOK'
  BY <1>1, <1>3, <1>4 DEF TypeOK, Running
<1> QED
  BY <1>1, <1>2, <1>4, <1>5

LEMMA EditMoves ==
  ASSUME TypeOK, NEW e \in Names, EditByHand(e)
  PROVE  /\ TypeOK' /\ UNCHANGED <<cloud, held, cmd, excused>>
         /\ \A n \in Names : file'[n].key = file[n].key
<1>1. /\ started' = started + 1 /\ UNCHANGED <<cloud, held, cmd, failures, excused>>
      /\ file[e].is \in {"key", "bad"} /\ file[e] \in Entry
      /\ file' = [file EXCEPT ![e].is = IF @ = "key" THEN "bad" ELSE "key"]
  BY DEF EditByHand, TypeOK
<1> DEFINE f == [file[e] EXCEPT !.is = IF file[e].is = "key" THEN "bad" ELSE "key"]
<1>2. f \in Entry /\ f.key = file[e].key
  <2>1. file[e] \in [is : {"key", "bad"}, key : Nat]
    BY <1>1 DEF Entry, Absent, Vault
  <2> QED
    BY <2>1 DEF Entry
<1>3. file' = [file EXCEPT ![e] = f]
  BY <1>1
<1> HIDE DEF f
<1>4. file' \in [Names -> Entry] /\ \A n \in Names : file'[n].key = file[n].key
  BY <1>2, <1>3 DEF TypeOK
<1>5. TypeOK'
  BY <1>1, <1>4 DEF TypeOK
<1> QED
  BY <1>1, <1>4, <1>5

(* A command that is typed in reads the file and has done nothing yet.     *)
LEMMA CommandsMove ==
  ASSUME TypeOK, NEW t \in Terminals, Commands(t)
  PROVE  /\ TypeOK' /\ Alone(t) /\ UNCHANGED <<file, cloud, held, excused>> /\ cmd[t].pc = "idle"
         /\ \/ cmd'[t].do \in {"create", "update"} /\ cmd'[t].env \in Names /\ cmd'[t].pc = "list"
            \/ /\ cmd'[t].do = "rotate" /\ cmd'[t].pc = "store" /\ cmd'[t].keep = cmd'[t].kinds
               /\ "admin" \in cmd'[t].kinds /\ cmd'[t].read[cmd'[t].env].is = "key" =>
                    ~RewriteBlocked(cmd'[t].read, cmd'[t].env)
            \/ cmd'[t].do = "env" /\ cmd'[t].pc = "write" /\ ~RewriteBlocked(cmd'[t].read, cmd'[t].env)
<1> DEFINE new(c) == [c EXCEPT !.new = started']
<1>1. file \in [Names -> Entry] /\ started \in Nat
  BY DEF TypeOK
<1>2. ASSUME NEW e \in Names, NEW resume \in BOOLEAN, NEW toFile \in BOOLEAN, Create(t, e, resume, toFile)
      PROVE  /\ TypeOK' /\ Alone(t) /\ UNCHANGED <<file, cloud, held, excused>> /\ cmd[t].pc = "idle"
             /\ cmd'[t].do = "create" /\ cmd'[t].env = e /\ cmd'[t].pc = "list"
  <2> DEFINE c == [Idle EXCEPT !.do = "create", !.env = e, !.pc = "list", !.read = file,
                               !.resume = resume, !.toFile = toFile]
  <2>1. c \in Command
    BY <1>1, EntryKinds DEF Idle, Command
  <2>2. c.do = "create" /\ c.env = e /\ c.pc = "list" /\ c.read = file
    BY DEF Idle
  <2>3. Begin(t, c)
    BY <1>2 DEF Create
  <2> HIDE DEF c
  <2>4. /\ TypeOK' /\ cmd[t].pc = "idle" /\ cmd'[t] = [c EXCEPT !.new = started'] /\ Alone(t)
        /\ UNCHANGED <<file, cloud, held, excused>>
    BY <1>1, <2>1, <2>2, <2>3, Begins DEF Alone
  <2> QED
    BY <2>1, <2>2, <2>4 DEF Command
<1>3. ASSUME NEW e \in Names, NEW todo \in SUBSET Names, Begin(t, Updating(e, file, todo))
      PROVE  /\ TypeOK' /\ Alone(t) /\ UNCHANGED <<file, cloud, held, excused>> /\ cmd[t].pc = "idle"
             /\ cmd'[t].do = "update" /\ cmd'[t].env = e /\ cmd'[t].pc = "list"
  <2> DEFINE c == Updating(e, file, todo)
  <2>1. c \in Command /\ c.do = "update" /\ c.env = e /\ c.pc = "list" /\ c.read = file
    BY <1>1, UpdatingIsCommand
  <2>2. Begin(t, c)
    BY <1>3
  <2> HIDE DEF c
  <2>4. /\ TypeOK' /\ cmd[t].pc = "idle" /\ cmd'[t] = [c EXCEPT !.new = started'] /\ Alone(t)
        /\ UNCHANGED <<file, cloud, held, excused>>
    BY <1>1, <2>1, <2>2, Begins DEF Alone
  <2> QED
    BY <2>1, <2>4 DEF Command
<1>4. ASSUME NEW e \in Names, NEW kinds \in SUBSET Kinds, Rotate(t, e, kinds)
      PROVE  /\ TypeOK' /\ Alone(t) /\ UNCHANGED <<file, cloud, held, excused>> /\ cmd[t].pc = "idle"
             /\ cmd'[t].do = "rotate" /\ cmd'[t].env = e /\ cmd'[t].pc = "store" /\ cmd'[t].read = file
             /\ cmd'[t].keep = kinds /\ cmd'[t].kinds = kinds
  <2> DEFINE c == [Idle EXCEPT !.do = "rotate", !.env = e, !.pc = "store", !.read = file,
                               !.kinds = kinds, !.keep = kinds]
  <2>1. c \in Command
    BY <1>1, EntryKinds DEF Idle, Command
  <2>2. c.do = "rotate" /\ c.env = e /\ c.pc = "store" /\ c.read = file /\ c.kinds = kinds /\ c.keep = kinds
    BY DEF Idle
  <2>3. Begin(t, c)
    BY <1>4 DEF Rotate
  <2> HIDE DEF c
  <2>4. /\ TypeOK' /\ cmd[t].pc = "idle" /\ cmd'[t] = [c EXCEPT !.new = started'] /\ Alone(t)
        /\ UNCHANGED <<file, cloud, held, excused>>
    BY <1>1, <2>1, <2>2, <2>3, Begins DEF Alone
  <2> QED
    BY <2>1, <2>2, <2>4 DEF Command
<1>5. ASSUME NEW e \in Names, NEW entry \in Entries(e) \cup {Absent}, Save(t, e, entry)
      PROVE  /\ TypeOK' /\ Alone(t) /\ UNCHANGED <<file, cloud, held, excused>> /\ cmd[t].pc = "idle"
             /\ cmd'[t].do = "env" /\ cmd'[t].env = e /\ cmd'[t].pc = "write" /\ cmd'[t].read = file
  <2> DEFINE c == [Idle EXCEPT !.do = "env", !.env = e, !.pc = "write", !.read = file, !.put = entry]
  <2>1. entry \in Entry
    <3>1. \A s \in held[e] : s[2] \in Nat
      BY DEF TypeOK
    <3> QED
      BY <3>1, EntryKinds DEF Entries
  <2>2. c \in Command
    BY <1>1, <2>1 DEF Idle, Command
  <2>3. c.do = "env" /\ c.env = e /\ c.pc = "write" /\ c.read = file
    BY DEF Idle
  <2>4. Begin(t, c)
    BY <1>5 DEF Save
  <2> HIDE DEF c
  <2>5. /\ TypeOK' /\ cmd[t].pc = "idle" /\ cmd'[t] = [c EXCEPT !.new = started'] /\ Alone(t)
        /\ UNCHANGED <<file, cloud, held, excused>>
    BY <1>1, <2>2, <2>3, <2>4, Begins DEF Alone
  <2> QED
    BY <2>2, <2>3, <2>5 DEF Command
<1>6. CASE \E e \in Names, resume, toFile \in BOOLEAN : Create(t, e, resume, toFile)
  BY <1>2, <1>6
<1>7. CASE (\E e \in Names : Update(t, e)) \/ UpdateAll(t)
  <2>1. PICK e \in Names, todo \in SUBSET Names : Begin(t, Updating(e, file, todo))
    BY <1>7 DEF Update, UpdateAll, Administered
  <2> QED
    BY <1>3, <2>1
<1>8. CASE \E e \in Names, kinds \in (SUBSET Kinds) \ {{}} : Rotate(t, e, kinds)
  <2>1. PICK e \in Names, kinds \in SUBSET Kinds : Rotate(t, e, kinds)
    BY <1>8
  <2>2. "admin" \in kinds /\ file[e].is = "key" => ~RewriteBlocked(file, e)
    BY <2>1 DEF Rotate
  <2> QED
    BY <1>4, <2>1, <2>2
<1>9. CASE \E e \in Names : \E entry \in Entries(e) \cup {Absent} : Save(t, e, entry)
  <2>0. PICK e \in Names : \E entry \in Entries(e) \cup {Absent} : Save(t, e, entry)
    BY <1>9
  <2>1. PICK entry \in Entries(e) \cup {Absent} : Save(t, e, entry)
    BY <2>0
  <2>2. ~RewriteBlocked(file, e)
    BY <2>1 DEF Save
  <2> QED
    BY <1>5, <2>1, <2>2
<1> QED
  BY <1>6, <1>7, <1>8, <1>9 DEF Commands

(***************************************************************************)
(* The invariants hold at the start and every step keeps them.             *)
(***************************************************************************)
LEMMA TypeInit == Init => TypeOK
<1> SUFFICES ASSUME Init PROVE TypeOK
  OBVIOUS
<1>1. file \in [Names -> Entry]
  <2>1. {Absent, Key(1), Vault, [is |-> "bad", key |-> 1], [is |-> "guest", key |-> 0]} \subseteq Entry
    BY EntryKinds DEF Entry
  <2> QED
    BY <2>1 DEF Init
<1>2. cloud \in [Names -> Backend]
  BY DEF Init, Backend
<1>3. held \in [Names -> SUBSET (Kinds \X Nat)]
  BY DEF Init
<1>4. cmd \in [Terminals -> Command] /\ \A t \in Terminals : cmd[t].pc = "idle"
  <2>1. Idle.pc = "idle"
    BY DEF Idle
  <2> QED
    BY <2>1, IdleIsCommand DEF Init
<1> QED
  BY <1>1, <1>2, <1>3, <1>4, BoundsAssumption DEF Init, TypeOK

LEMMA TypeNext == TypeOK /\ [Next]_vars => TypeOK'
<1> SUFFICES ASSUME TypeOK, [Next]_vars PROVE TypeOK'
  OBVIOUS
<1>1. ASSUME NEW t \in Terminals, Steps(t) PROVE TypeOK'
  BY <1>1, ListMoves, MakeMoves, ListSecretsMoves, StoreMoves, HealthMoves, RegisterMoves,
     SaveRotatedMoves, RevealMoves, NextOfAllMoves, WriteMoves DEF Steps
<1>2. CASE UNCHANGED vars
  BY <1>2 DEF vars, TypeOK
<1> QED
  BY <1>1, <1>2, CommandsMove, InterruptMoves, EditMoves DEF Next

(* A step of one terminal keeps FlowInv if the command there keeps to it.  *)
FlowOf(c) ==
  /\ c.pc = "store" => c.keep = c.kinds
  /\ c.do = "rotate" => c.pc \in {"store", "save", "reveal"}
  /\ c.pc = "save" => c.do = "rotate"
  /\ Rewrites(c) => ~RewriteBlocked(c.read, c.env)

LEMMA IdleFlows == FlowOf(Idle)
  BY DEF FlowOf, Idle, Rewrites

LEMMA FlowInit == Init => FlowInv
  BY IdleFlows DEF Init, FlowInv, FlowOf

LEMMA FlowNext == TypeOK /\ FlowInv /\ [Next]_vars => FlowInv'
<1> SUFFICES ASSUME TypeOK, FlowInv, [Next]_vars PROVE FlowInv'
  OBVIOUS
<1>1. \A t \in Terminals : FlowOf(cmd[t])
  BY DEF FlowInv, FlowOf
<1>2. ASSUME NEW t \in Terminals, Alone(t), FlowOf(cmd'[t]) PROVE FlowInv'
  <2>1. \A u \in Terminals : FlowOf(cmd'[u])
    BY <1>1, <1>2 DEF Alone
  <2> QED
    BY <2>1 DEF FlowInv, FlowOf, Rewrites, RewriteBlocked
<1>3. ASSUME NEW t \in Terminals, Commands(t) PROVE Alone(t) /\ FlowOf(cmd'[t])
  BY <1>3, CommandsMove DEF FlowOf, Rewrites
<1>4. ASSUME NEW t \in Terminals, List(t) PROVE Alone(t) /\ FlowOf(cmd'[t])
  BY <1>1, <1>4, ListMoves, IdleFlows DEF FlowOf, Rewrites, Same
<1>5. ASSUME NEW t \in Terminals, NEW step \in Resources, NEW o \in Outcomes, Make(t, step, o)
      PROVE  Alone(t) /\ FlowOf(cmd'[t])
  <2>1. After(step) \in {"bucket", "tables", "worker", "secrets"}
    BY DEF After, Resources, Stores
  <2> QED
    BY <1>1, <1>5, <2>1, MakeMoves, IdleFlows DEF FlowOf, Rewrites, Same, Resources, Stores
<1>6. ASSUME NEW t \in Terminals, NEW answered \in BOOLEAN, ListSecrets(t, answered)
      PROVE  Alone(t) /\ FlowOf(cmd'[t])
  BY <1>1, <1>6, ListSecretsMoves DEF FlowOf, Rewrites, Same
<1>7. ASSUME NEW t \in Terminals, NEW o \in Outcomes, Store(t, o) PROVE Alone(t) /\ FlowOf(cmd'[t])
  BY <1>1, <1>7, StoreMoves, IdleFlows DEF FlowOf, Rewrites, Same
<1>8. ASSUME NEW t \in Terminals, NEW healthy \in BOOLEAN, Health(t, healthy)
      PROVE  Alone(t) /\ FlowOf(cmd'[t])
  BY <1>1, <1>8, HealthMoves, IdleFlows DEF FlowOf, Rewrites, Same
<1>9. ASSUME NEW t \in Terminals, NEW written \in BOOLEAN, Register(t, written) \/ SaveRotated(t, written)
      PROVE  Alone(t) /\ FlowOf(cmd'[t])
  BY <1>1, <1>9, RegisterMoves, SaveRotatedMoves DEF FlowOf, Rewrites, Same
<1>10. ASSUME NEW t \in Terminals, Reveal(t) \/ NextOfAll(t) PROVE Alone(t) /\ FlowOf(cmd'[t])
  BY <1>10, RevealMoves, NextOfAllMoves, IdleFlows DEF FlowOf, Rewrites
<1>11. ASSUME NEW t \in Terminals, NEW written \in BOOLEAN, Write(t, written)
       PROVE  Alone(t) /\ FlowOf(cmd'[t])
  BY <1>11, WriteMoves, IdleFlows
<1>12. ASSUME NEW t \in Terminals, Interrupt(t) PROVE Alone(t) /\ FlowOf(cmd'[t])
  BY <1>12, InterruptMoves, IdleFlows
<1>13. ASSUME NEW t \in Terminals, Steps(t) PROVE Alone(t) /\ FlowOf(cmd'[t])
  BY <1>4, <1>5, <1>6, <1>7, <1>8, <1>9, <1>10, <1>11, <1>13 DEF Steps
<1>14. CASE cmd' = cmd
  BY <1>14 DEF FlowInv, Rewrites, RewriteBlocked
<1>15. CASE Next
  <2>1. CASE \E e \in Names : EditByHand(e)
    BY <1>14, <2>1, EditMoves
  <2>2. CASE ~(\E e \in Names : EditByHand(e))
    BY <1>2, <1>3, <1>12, <1>13, <1>15, <2>2 DEF Next
  <2> QED
    BY <2>1, <2>2
<1> QED
  BY <1>14, <1>15 DEF vars

(***************************************************************************)
(* The admin key.                                                          *)
(***************************************************************************)
LEMMA IdleKeepsNothing == \A e, key : ~Keeps(Idle, e, key)
  BY DEF Keeps, Idle, Stored

(* A step that gives no Worker a new admin key: the places it is in may    *)
(* only grow, but for an erased entry that is noted.                       *)
LEMMA KeyStays ==
  ASSUME TypeOK, KeyInv, NEW t \in Terminals, Alone(t),
         \A e \in Names : cloud'[e].secrets["admin"] = cloud[e].secrets["admin"],
         \A e \in Names : held[e] \subseteq held'[e],
         excused \subseteq excused',
         \A e \in Names : file'[e].key = file[e].key \/ file[e].key = 0 \/ <<e, file[e].key>> \in excused',
         \A e \in Names, key \in Nat : Keeps(cmd[t], e, key) =>
           \/ Keeps(cmd'[t], e, key) \/ file'[e].key = key \/ <<"admin", key>> \in held'[e]
           \/ <<e, key>> \in excused'
  PROVE  KeyInv'
<1> SUFFICES ASSUME NEW e \in Names PROVE KeyKept(e, cloud[e].secrets["admin"])'
  BY DEF KeyInv
<1> DEFINE key == cloud[e].secrets["admin"]
<1>1. key \in Nat /\ cloud'[e].secrets["admin"] = key
  BY KindsAssumption DEF TypeOK, Backend
<1>2. KeyKept(e, key)
  BY DEF KeyInv
<1> HIDE DEF key
<1> SUFFICES \/ key = 0 \/ file'[e].key = key \/ <<"admin", key>> \in held'[e] \/ <<e, key>> \in excused'
             \/ \E u \in Terminals : Keeps(cmd'[u], e, key)
  BY <1>1 DEF KeyKept, Keeps
<1>3. CASE \E u \in Terminals : Keeps(cmd[u], e, key)
  <2>1. PICK u \in Terminals : Keeps(cmd[u], e, key)
    BY <1>3
  <2>2. CASE u = t
    BY <1>1, <2>1, <2>2
  <2>3. CASE u # t
    BY <2>1, <2>3 DEF Alone
  <2> QED
    BY <2>2, <2>3
<1>4. CASE key = 0 \/ file[e].key = key \/ <<"admin", key>> \in held[e] \/ <<e, key>> \in excused
  BY <1>4
<1> QED
  BY <1>2, <1>3, <1>4 DEF KeyKept

(* A rewrite of the file leaves every key, or notes that it erased it.     *)
LEMMA RewriteNotes ==
  ASSUME TypeOK, NEW c \in Command, c.env \in Names, c.read \in [Names -> Entry],
         NEW entry \in Entry, Rewrite(c, entry), ~RewriteBlocked(c.read, c.env)
  PROVE  /\ excused \subseteq excused' /\ file'[c.env].key = entry.key
         /\ \A e \in Names : file'[e].key = file[e].key \/ <<e, file[e].key>> \in excused'
<1>1. /\ file'[c.env] = entry /\ excused \subseteq excused'
      /\ \A n \in Names : n # c.env => file'[n] = IF c.read[n].is = "bad" THEN Absent ELSE c.read[n]
      /\ \A n \in Names : file'[n].key # file[n].key /\ (n = c.env \/ file[n] # c.read[n])
                            => <<n, file[n].key>> \in excused'
  BY RewriteTyped
<1>2. \A n \in Names : n # c.env => file'[n] = c.read[n]
  BY <1>1 DEF RewriteBlocked
<1> QED
  BY <1>1, <1>2

LEMMA KeyInit == Init => KeyInv
<1> SUFFICES ASSUME Init, NEW e \in Names PROVE KeyKept(e, cloud[e].secrets["admin"])
  BY DEF KeyInv
<1>1. CASE e \notin Deployed
  <2>1. cloud[e].secrets["admin"] = 0
    BY <1>1, KindsAssumption DEF Init
  <2> QED
    BY <2>1 DEF KeyKept
<1>2. CASE e \in Deployed
  <2>1. cloud[e].secrets["admin"] = 1
    BY <1>2, KindsAssumption DEF Init
  <2>2. CASE file[e].key = 1
    BY <2>1, <2>2 DEF KeyKept
  <2>3. CASE file[e].key # 1
    <3>1. held[e] = {<<k, 1>> : k \in Kinds}
      BY <1>2, <2>3 DEF Init
    <3>2. <<"admin", 1>> \in held[e]
      BY <3>1, KindsAssumption
    <3> QED
      BY <2>1, <3>2 DEF KeyKept
  <2> QED
    BY <2>2, <2>3
<1> QED
  BY <1>1, <1>2

(* `secret bulk` gives the Worker the key, and the command keeps it to     *)
(* show it -- or was stopped because the answer was lost.                  *)
LEMMA KeyStored ==
  ASSUME TypeOK, FlowInv, KeyInv, NEW t \in Terminals, NEW o \in Outcomes, Store(t, o)
  PROVE  KeyInv'
<1> DEFINE c == cmd[t]
<1>1. /\ Alone(t) /\ UNCHANGED <<file, held>> /\ c.pc = "store" /\ c.env \in Names
      /\ \A n \in Names, k \in Kinds : cloud'[n].secrets[k] =
           IF o # "failed" /\ n = c.env /\ k \in c.kinds THEN c.new ELSE cloud[n].secrets[k]
      /\ excused \subseteq excused'
      /\ \/ cmd'[t] = Idle /\ o # "ok" /\ (o = "lost" => InHand(t) \subseteq excused')
         \/ /\ o = "ok" /\ Same(c, cmd'[t]) /\ cmd'[t].keep = c.keep
            /\ cmd'[t].pc \in {"health", "save", "reveal"}
  BY StoreMoves
<1>2. c.keep = c.kinds
  BY <1>1 DEF FlowInv
<1>3. \A e, key : ~Keeps(c, e, key)
  BY <1>1 DEF Keeps, Stored
<1>4. CASE ~(o # "failed" /\ "admin" \in c.kinds)
  <2>1. \A e \in Names : cloud'[e].secrets["admin"] = cloud[e].secrets["admin"]
    BY <1>1, <1>4, KindsAssumption
  <2>2. \A e \in Names : held[e] \subseteq held'[e] /\ file'[e].key = file[e].key
    BY <1>1
  <2> QED
    BY <1>1, <1>3, <2>1, <2>2, KeyStays
<1>5. CASE o # "failed" /\ "admin" \in c.kinds
  <2> SUFFICES ASSUME NEW e \in Names PROVE KeyKept(e, cloud[e].secrets["admin"])'
    BY DEF KeyInv
  <2>1. CASE e = c.env
    <3>1. cloud'[e].secrets["admin"] = c.new
      BY <1>1, <1>5, <2>1, KindsAssumption
    <3>2. CASE o = "lost"
      <4>1. InHand(t) \subseteq excused'
        BY <1>1, <3>2
      <4>2. <<e, c.new>> \in excused'
        BY <1>2, <1>5, <2>1, <4>1 DEF InHand
      <4> QED
        BY <3>1, <4>2 DEF KeyKept
    <3>3. CASE o = "ok"
      <4>1. /\ cmd'[t].env = e /\ cmd'[t].new = c.new /\ "admin" \in cmd'[t].keep
            /\ cmd'[t].pc \in Stored
        BY <1>1, <1>2, <1>5, <2>1, <3>3 DEF Same, Stored
      <4> QED
        BY <3>1, <4>1 DEF KeyKept, Keeps
    <3> QED
      BY <1>5, <3>2, <3>3 DEF Outcomes
  <2>2. CASE e # c.env
    <3> DEFINE key == cloud[e].secrets["admin"]
    <3>1. cloud'[e].secrets["admin"] = key /\ KeyKept(e, key)
      BY <1>1, <2>2, KindsAssumption DEF KeyInv
    <3> HIDE DEF key
    <3>2. \A u \in Terminals : Keeps(cmd[u], e, key) => u # t /\ Keeps(cmd'[u], e, key)
      BY <1>1, <1>3 DEF Alone
    <3>3. /\ KeyKept(e, key) => \/ key = 0 \/ file'[e].key = key \/ <<"admin", key>> \in held'[e]
                                \/ <<e, key>> \in excused'
                                \/ \E u \in Terminals : Keeps(cmd'[u], e, key)
      BY <1>1, <3>2 DEF KeyKept
    <3> QED
      BY <3>1, <3>3 DEF KeyKept, Keeps
  <2> QED
    BY <2>1, <2>2
<1> QED
  BY <1>4, <1>5

LEMMA KeyNext == TypeOK /\ FlowInv /\ KeyInv /\ [Next]_vars => KeyInv'
<1> SUFFICES ASSUME TypeOK, FlowInv, KeyInv, [Next]_vars PROVE KeyInv'
  OBVIOUS
<1>1. ASSUME NEW t \in Terminals, Alone(t), UNCHANGED <<file, cloud, held>>, excused \subseteq excused',
             \A e \in Names, key \in Nat : Keeps(cmd[t], e, key) =>
               Keeps(cmd'[t], e, key) \/ <<e, key>> \in excused'
      PROVE  KeyInv'
  <2>1. \A e \in Names : cloud'[e].secrets["admin"] = cloud[e].secrets["admin"]
                         /\ held[e] \subseteq held'[e] /\ file'[e].key = file[e].key
    BY <1>1
  <2> QED
    BY <1>1, <2>1, KeyStays
<1>2. ASSUME NEW t \in Terminals, Commands(t) PROVE KeyInv'
  <2>1. \A e, key : ~Keeps(cmd[t], e, key)
    BY <1>2, CommandsMove DEF Keeps, Stored
  <2> QED
    BY <1>1, <1>2, <2>1, CommandsMove
<1>3. ASSUME NEW t \in Terminals, List(t) PROVE KeyInv'
  <2>1. \A e, key : ~Keeps(cmd[t], e, key)
    BY <1>3, ListMoves DEF Keeps, Stored
  <2> QED
    BY <1>1, <1>3, <2>1, ListMoves
<1>4. ASSUME NEW t \in Terminals, NEW step \in Resources, NEW o \in Outcomes, Make(t, step, o)
      PROVE  KeyInv'
  <2>1. /\ Alone(t) /\ UNCHANGED <<file, held, excused>> /\ cmd[t].pc = step
        /\ \A n \in Names : cloud'[n].secrets = cloud[n].secrets
    BY <1>4, MakeMoves
  <2>2. \A e, key : ~Keeps(cmd[t], e, key)
    BY <2>1 DEF Keeps, Stored, Resources, Stores
  <2>3. \A e \in Names : cloud'[e].secrets["admin"] = cloud[e].secrets["admin"]
                         /\ held[e] \subseteq held'[e] /\ file'[e].key = file[e].key
    BY <2>1
  <2> QED
    BY <2>1, <2>2, <2>3, KeyStays
<1>5. ASSUME NEW t \in Terminals, NEW answered \in BOOLEAN, ListSecrets(t, answered) PROVE KeyInv'
  <2>1. \A e, key : ~Keeps(cmd[t], e, key)
    BY <1>5, ListSecretsMoves DEF Keeps, Stored
  <2> QED
    BY <1>1, <1>5, <2>1, ListSecretsMoves
<1>6. ASSUME NEW t \in Terminals, NEW healthy \in BOOLEAN, Health(t, healthy) PROVE KeyInv'
  <2>1. /\ Alone(t) /\ UNCHANGED <<file, cloud, held>> /\ excused \subseteq excused'
        /\ \/ cmd'[t] = Idle /\ InHand(t) \subseteq excused'
           \/ /\ Same(cmd[t], cmd'[t]) /\ cmd'[t].keep = cmd[t].keep
              /\ cmd'[t].pc \in {"register", "reveal"}
    BY <1>6, HealthMoves
  <2>2. \A e \in Names, key \in Nat : Keeps(cmd[t], e, key) =>
          Keeps(cmd'[t], e, key) \/ <<e, key>> \in excused'
    BY <2>1 DEF Keeps, InHand, Same, Stored
  <2> QED
    BY <1>1, <2>1, <2>2
<1>7. ASSUME NEW t \in Terminals, NEW written \in BOOLEAN, Register(t, written) PROVE KeyInv'
  <2> DEFINE c == cmd[t]
  <2>1. /\ Alone(t) /\ UNCHANGED <<cloud, held, excused>> /\ c.env \in Names
        /\ Same(c, cmd'[t]) /\ cmd'[t].pc = "reveal"
        /\ \/ file' = file /\ cmd'[t].keep = c.keep
           \/ /\ file[c.env].is = "none" /\ file'[c.env].key = c.new
              /\ \A n \in Names : n # c.env => file'[n] = file[n]
    BY <1>7, RegisterMoves
  <2>2. \A e \in Names : file'[e].key = file[e].key \/ file[e].key = 0
    <3>1. file[c.env].is = "none" => file[c.env].key = 0
      BY <2>1, EntryKinds DEF TypeOK
    <3> QED
      BY <2>1, <3>1
  <2>3. \A e \in Names, key \in Nat : Keeps(c, e, key) => Keeps(cmd'[t], e, key) \/ file'[e].key = key
    BY <2>1 DEF Keeps, Same, Stored
  <2>4. \A e \in Names : cloud'[e].secrets["admin"] = cloud[e].secrets["admin"] /\ held[e] \subseteq held'[e]
    BY <2>1
  <2> QED
    BY <2>1, <2>2, <2>3, <2>4, KeyStays
<1>8. ASSUME NEW t \in Terminals, NEW written \in BOOLEAN, SaveRotated(t, written) PROVE KeyInv'
  <2> DEFINE c == cmd[t]
  <2>1. /\ Alone(t) /\ UNCHANGED <<cloud, held>> /\ c.pc = "save"
        /\ Same(c, cmd'[t]) /\ cmd'[t].pc = "reveal"
        /\ \/ file' = file /\ excused' = excused /\ cmd'[t].keep = c.keep
           \/ Rewrite(c, Key(c.new))
    BY <1>8, SaveRotatedMoves
  <2>2. CASE file' = file /\ excused' = excused /\ cmd'[t].keep = c.keep
    <3>1. \A e \in Names, key \in Nat : Keeps(c, e, key) => Keeps(cmd'[t], e, key)
      BY <2>1, <2>2 DEF Keeps, Same, Stored
    <3> QED
      BY <1>1, <2>1, <2>2, <3>1
  <2>3. CASE Rewrite(c, Key(c.new))
    <3>1. /\ c \in Command /\ c.env \in Names /\ c.read \in [Names -> Entry] /\ c.new \in Nat
          /\ ~RewriteBlocked(c.read, c.env)
      BY <2>1 DEF TypeOK, Command, FlowInv, Rewrites
    <3>2. Key(c.new) \in Entry /\ Key(c.new).key = c.new
      BY <3>1, EntryKinds DEF Key
    <3>3. /\ excused \subseteq excused' /\ file'[c.env].key = c.new
          /\ \A e \in Names : file'[e].key = file[e].key \/ <<e, file[e].key>> \in excused'
      BY <2>3, <3>1, <3>2, RewriteNotes
    <3>4. \A e \in Names, key \in Nat : Keeps(c, e, key) => file'[e].key = key
      BY <3>3 DEF Keeps
    <3>5. \A e \in Names : cloud'[e].secrets["admin"] = cloud[e].secrets["admin"] /\ held[e] \subseteq held'[e]
      BY <2>1
    <3> QED
      BY <2>1, <3>3, <3>4, <3>5, KeyStays
  <2> QED
    BY <2>1, <2>2, <2>3
<1>9. ASSUME NEW t \in Terminals, Reveal(t) PROVE KeyInv'
  <2>1. /\ Alone(t) /\ UNCHANGED <<file, cloud, excused>>
        /\ \A n \in Names : held[n] \subseteq held'[n]
        /\ "admin" \in cmd[t].keep => <<"admin", cmd[t].new>> \in held'[cmd[t].env]
    BY <1>9, RevealMoves
  <2>2. \A e \in Names, key \in Nat : Keeps(cmd[t], e, key) => <<"admin", key>> \in held'[e]
    BY <2>1 DEF Keeps
  <2>3. \A e \in Names : cloud'[e].secrets["admin"] = cloud[e].secrets["admin"] /\ file'[e].key = file[e].key
    BY <2>1
  <2> QED
    BY <2>1, <2>2, <2>3, KeyStays
<1>10. ASSUME NEW t \in Terminals, NextOfAll(t) PROVE KeyInv'
  <2>1. \A e, key : ~Keeps(cmd[t], e, key)
    BY <1>10, NextOfAllMoves DEF Keeps, Stored
  <2> QED
    BY <1>1, <1>10, <2>1, NextOfAllMoves
<1>11. ASSUME NEW t \in Terminals, NEW written \in BOOLEAN, Write(t, written) PROVE KeyInv'
  <2> DEFINE c == cmd[t]
  <2>1. /\ Alone(t) /\ UNCHANGED <<cloud, held>> /\ c.pc = "write"
        /\ (file' = file /\ excused' = excused) \/ Rewrite(c, c.put)
    BY <1>11, WriteMoves
  <2>2. \A e, key : ~Keeps(c, e, key)
    BY <2>1 DEF Keeps, Stored
  <2>3. /\ excused \subseteq excused'
        /\ \A e \in Names : file'[e].key = file[e].key \/ <<e, file[e].key>> \in excused'
    <3>1. /\ c \in Command /\ c.env \in Names /\ c.read \in [Names -> Entry] /\ c.put \in Entry
          /\ ~RewriteBlocked(c.read, c.env)
      BY <2>1 DEF TypeOK, Command, FlowInv, Rewrites
    <3>2. CASE Rewrite(c, c.put)
      BY <3>1, <3>2, RewriteNotes
    <3> QED
      BY <2>1, <3>2
  <2>4. \A e \in Names : cloud'[e].secrets["admin"] = cloud[e].secrets["admin"] /\ held[e] \subseteq held'[e]
    BY <2>1
  <2> QED
    BY <2>1, <2>2, <2>3, <2>4, KeyStays
<1>12. ASSUME NEW t \in Terminals, Interrupt(t) PROVE KeyInv'
  <2>1. /\ Alone(t) /\ UNCHANGED <<file, cloud, held>> /\ excused \subseteq excused'
        /\ cmd[t].pc \in Stored => InHand(t) \subseteq excused'
    BY <1>12, InterruptMoves
  <2>2. \A e \in Names, key \in Nat : Keeps(cmd[t], e, key) => <<e, key>> \in excused'
    BY <2>1 DEF Keeps, InHand
  <2> QED
    BY <1>1, <2>1, <2>2
<1>13. ASSUME NEW e \in Names, EditByHand(e) PROVE KeyInv'
  <2>1. UNCHANGED <<cloud, held, cmd, excused>> /\ \A n \in Names : file'[n].key = file[n].key
    BY <1>13, EditMoves
  <2> QED
    BY <2>1 DEF KeyInv, KeyKept, Keeps
<1>14. CASE UNCHANGED vars
  BY <1>14 DEF vars, KeyInv, KeyKept, Keeps
<1>15. ASSUME NEW t \in Terminals, Steps(t) PROVE KeyInv'
  BY <1>3, <1>4, <1>5, <1>6, <1>7, <1>8, <1>9, <1>10, <1>11, <1>15, KeyStored DEF Steps
<1> QED
  BY <1>2, <1>12, <1>13, <1>14, <1>15 DEF Next

(***************************************************************************)
(* What a deployment has built.                                            *)
(***************************************************************************)
LEMMA IdleIsFounded == Founded(Idle) /\ Own(Idle)
  BY DEF Founded, Own, Idle

(* Backends only grow: nothing is removed, and no secret.                  *)
Grows ==
  \A n \in Names :
    /\ cloud[n].made \subseteq cloud'[n].made
    /\ \A k \in Kinds : cloud[n].secrets[k] # 0 => cloud'[n].secrets[k] # 0

LEMMA BuiltStays ==
  ASSUME TypeOK, BuiltInv, Grows, NEW t \in Terminals, Alone(t), Founded(cmd[t])', Own(cmd[t])'
  PROVE  BuiltInv'
<1> SUFFICES ASSUME NEW u \in Terminals PROVE Founded(cmd[u])' /\ Own(cmd[u])'
  BY DEF BuiltInv
<1>1. CASE u = t
  BY <1>1
<1>2. CASE u # t
  <2> DEFINE c == cmd[u]
  <2>1. cmd'[u] = c /\ Founded(c) /\ Own(c)
    BY <1>2 DEF Alone, BuiltInv
  <2>2. Own(cmd[u])'
    BY <2>1 DEF Own
  <2>3. Founded(cmd[u])'
    <3>1. CASE c.do \notin {"create", "update"}
      BY <2>1, <3>1 DEF Founded
    <3>2. CASE c.do \in {"create", "update"}
      <4>1. /\ c.env \in Names /\ BuiltBy(c.pc) \subseteq cloud[c.env].made
            /\ c.pc \in Stores => c.have \subseteq cloud[c.env].made
            /\ \A k \in Kinds \ Lacking(c) : cloud[c.env].secrets[k] # 0
        BY <2>1, <3>2 DEF Founded
      <4>2. /\ BuiltBy(c.pc) \subseteq cloud'[c.env].made
            /\ c.pc \in Stores => c.have \subseteq cloud'[c.env].made
            /\ \A k \in Kinds \ Lacking(c) : cloud'[c.env].secrets[k] # 0
        BY <4>1 DEF Grows
      <4> QED
        BY <2>1, <4>1, <4>2 DEF Founded
    <3> QED
      BY <3>1, <3>2
  <2> QED
    BY <2>2, <2>3
<1> QED
  BY <1>1, <1>2

LEMMA NothingGrows == (UNCHANGED cloud) => Grows
  BY DEF Grows

LEMMA BuiltStops ==
  ASSUME TypeOK, BuiltInv, Grows, NEW t \in Terminals, Alone(t), cmd'[t].do \notin {"create", "update"}
  PROVE  BuiltInv'
<1>1. Founded(cmd[t])' /\ Own(cmd[t])'
  BY DEF Founded, Own
<1> QED
  BY <1>1, BuiltStays

LEMMA BuiltInit == Init => BuiltInv
  BY IdleIsFounded DEF Init, BuiltInv

LEMMA BuiltList ==
  ASSUME TypeOK, FlowInv, BuiltInv, NEW t \in Terminals, List(t)
  PROVE  BuiltInv'
<1> DEFINE c == cmd[t]
           d == cmd'[t]
<1>1. /\ Alone(t) /\ UNCHANGED cloud /\ c.pc = "list"
      /\ \/ d = Idle
         \/ /\ Same(c, d) /\ d.mine = c.mine /\ d.have = cloud[c.env].made \cap Stores
            /\ \/ c.do = "update" /\ d.have = Stores /\ d.pc = "tables"
               \/ c.do # "update" /\ d.pc = "database" /\ (c.resume \/ d.have = {})
  BY ListMoves
<1>2. Founded(c) /\ Own(c)
  BY DEF BuiltInv
<1>3. CASE d = Idle
  BY <1>1, <1>3, BuiltStops, NothingGrows DEF Idle
<1>4. CASE Same(c, d) /\ d.have = cloud[c.env].made \cap Stores /\ c.do = "update"
           /\ d.have = Stores /\ d.pc = "tables"
  <2>1. BuiltBy("tables") = Stores /\ Lacking(d) = Kinds
    BY <1>4 DEF BuiltBy, Lacking
  <2>2. Founded(cmd[t])' /\ Own(cmd[t])'
    BY <1>1, <1>2, <1>4, <2>1 DEF Founded, Own, Same, Stores
  <2> QED
    BY <1>1, <2>2, BuiltStays, NothingGrows
<1>5. CASE Same(c, d) /\ d.have = cloud[c.env].made \cap Stores /\ c.do # "update"
           /\ d.pc = "database" /\ (c.resume \/ d.have = {})
  <2>1. BuiltBy("database") = {} /\ Lacking(d) = Kinds
    BY <1>5 DEF BuiltBy, Lacking
  <2>2. Founded(cmd[t])' /\ Own(cmd[t])'
    BY <1>1, <1>2, <1>5, <2>1 DEF Founded, Own, Same, Stores
  <2> QED
    BY <1>1, <2>2, BuiltStays, NothingGrows
<1> QED
  BY <1>1, <1>3, <1>4, <1>5

LEMMA BuiltMake ==
  ASSUME TypeOK, FlowInv, BuiltInv, NEW t \in Terminals,
         NEW step \in Resources, NEW o \in Outcomes, Make(t, step, o)
  PROVE  BuiltInv'
<1> DEFINE c == cmd[t]
           d == cmd'[t]
<1>1. /\ Alone(t) /\ c.pc = step
      /\ \A n \in Names : cloud[n].made \subseteq cloud'[n].made
      /\ \A n \in Names : cloud'[n].secrets = cloud[n].secrets
      /\ \/ d = Idle
         \/ /\ Same(c, d) /\ d.pc = After(step) /\ d.have = c.have
            /\ \/ step \in Stores /\ step \in c.have /\ d.mine = c.mine
               \/ d.mine = c.mine \cup {step} /\ step \in cloud'[c.env].made
  BY MakeMoves
<1>2. Grows
  BY <1>1 DEF Grows
<1>3. Founded(c) /\ Own(c)
  BY DEF BuiltInv
<1>4. CASE d = Idle
  BY <1>1, <1>2, <1>4, BuiltStops DEF Idle
<1>5. CASE /\ Same(c, d) /\ d.pc = After(step) /\ d.have = c.have
           /\ \/ step \in Stores /\ step \in c.have /\ d.mine = c.mine
              \/ d.mine = c.mine \cup {step} /\ step \in cloud'[c.env].made
  <2>1. CASE d.do \notin {"create", "update"}
    BY <1>1, <1>2, <2>1, BuiltStops
  <2>2. CASE d.do \in {"create", "update"}
    <3>1. /\ c.env \in Names /\ d.env = c.env /\ d.do = c.do /\ d.resume = c.resume
          /\ BuiltBy(step) \subseteq cloud'[c.env].made
          /\ step \in Stores => c.have \subseteq cloud'[c.env].made
      BY <1>1, <1>3, <1>5, <2>2 DEF Founded, Same
    <3>2. step \in cloud'[c.env].made
      BY <1>5, <3>1
    <3>3. \/ step = "database" /\ After(step) = "bucket"
          \/ step = "bucket" /\ After(step) = "tables"
          \/ step = "tables" /\ After(step) = "worker"
          \/ step = "worker" /\ After(step) = "secrets"
      BY DEF Resources, Stores, After
    <3>4. BuiltBy(After(step)) \subseteq BuiltBy(step) \cup {step}
      BY <3>3 DEF BuiltBy, Resources, Stores
    <3>5. Lacking(d) = Kinds
      BY <1>5, <3>3 DEF Lacking
    <3>6. d.pc \in Stores => step \in Stores
      BY <1>5, <3>3 DEF Stores
    <3>7. Founded(cmd[t])'
      BY <1>5, <3>1, <3>2, <3>4, <3>5, <3>6 DEF Founded
    <3>8. Own(cmd[t])'
      <4> SUFFICES ASSUME d.do = "create", ~d.resume
                   PROVE  /\ d.pc \in Stores => d.have = {}
                          /\ d.pc = "bucket" => "database" \in d.mine
                          /\ d.pc \notin {"list", "database", "bucket"} => Stores \subseteq d.mine
        BY DEF Own
      <4>1. /\ step \in Stores => c.have = {}
            /\ step = "bucket" => "database" \in c.mine
            /\ step \notin {"list", "database", "bucket"} => Stores \subseteq c.mine
        BY <1>1, <1>3, <3>1 DEF Own
      <4>2. d.mine = c.mine \cup {step}
        BY <1>5, <4>1
      <4> QED
        BY <1>5, <3>3, <4>1, <4>2 DEF Stores
    <3> QED
      BY <1>1, <1>2, <3>7, <3>8, BuiltStays
  <2> QED
    BY <2>1, <2>2
<1> QED
  BY <1>1, <1>4, <1>5

LEMMA BuiltSecrets ==
  ASSUME TypeOK, FlowInv, BuiltInv, NEW t \in Terminals, NEW answered \in BOOLEAN, ListSecrets(t, answered)
  PROVE  BuiltInv'
<1> DEFINE c == cmd[t]
           d == cmd'[t]
<1>1. /\ Alone(t) /\ UNCHANGED cloud /\ c.pc = "secrets" /\ Same(c, d) /\ d.mine = c.mine
      /\ \A k \in Kinds \ d.kinds : cloud[c.env].secrets[k] # 0
      /\ d.pc = IF d.kinds = {} THEN "health" ELSE "store"
  BY ListSecretsMoves
<1>2. Founded(c) /\ Own(c)
  BY DEF BuiltInv
<1>3. BuiltBy("secrets") = Resources /\ BuiltBy(d.pc) = Resources
  BY <1>1 DEF BuiltBy
<1>4. Kinds \ Lacking(d) \subseteq Kinds \ d.kinds
  BY <1>1 DEF Lacking
<1>5. d.pc \notin Stores /\ d.pc \notin {"list", "database", "bucket"}
  BY <1>1 DEF Stores
<1>6. Founded(cmd[t])'
  BY <1>1, <1>2, <1>3, <1>4, <1>5 DEF Founded, Same
<1>7. Own(cmd[t])'
  BY <1>1, <1>2, <1>5 DEF Own, Same
<1> QED
  BY <1>1, <1>6, <1>7, BuiltStays, NothingGrows

LEMMA BuiltStore ==
  ASSUME TypeOK, FlowInv, BuiltInv, NEW t \in Terminals, NEW o \in Outcomes, Store(t, o)
  PROVE  BuiltInv'
<1> DEFINE c == cmd[t]
           d == cmd'[t]
<1>1. /\ Alone(t) /\ c.pc = "store" /\ c.new # 0
      /\ \A n \in Names : cloud'[n].made = cloud[n].made
      /\ \A n \in Names, k \in Kinds : cloud'[n].secrets[k] =
           IF o # "failed" /\ n = c.env /\ k \in c.kinds THEN c.new ELSE cloud[n].secrets[k]
      /\ \/ d = Idle
         \/ /\ o = "ok" /\ Same(c, d) /\ d.mine = c.mine
            /\ (c.do # "rotate" /\ d.pc = "health") \/ c.do = "rotate"
  BY StoreMoves
<1>2. Grows
  BY <1>1 DEF Grows
<1>3. Founded(c) /\ Own(c)
  BY DEF BuiltInv
<1>4. CASE d = Idle
  BY <1>1, <1>2, <1>4, BuiltStops DEF Idle
<1>5. CASE Same(c, d) /\ c.do \notin {"create", "update"}
  BY <1>1, <1>2, <1>5, BuiltStops DEF Same
<1>6. CASE o = "ok" /\ Same(c, d) /\ d.mine = c.mine /\ d.pc = "health" /\ c.do \in {"create", "update"}
  <2>1. /\ c.env \in Names /\ BuiltBy("store") \subseteq cloud[c.env].made
        /\ \A k \in Kinds \ Lacking(c) : cloud[c.env].secrets[k] # 0
    BY <1>1, <1>3, <1>6 DEF Founded
  <2>2. Lacking(c) = c.kinds /\ Lacking(d) = {} /\ BuiltBy("store") = BuiltBy("health")
    BY <1>1, <1>6 DEF Lacking, BuiltBy
  <2>3. \A k \in Kinds : cloud'[c.env].secrets[k] # 0
    BY <1>1, <1>6, <2>1, <2>2
  <2>4. Founded(cmd[t])'
    BY <1>1, <1>6, <2>1, <2>2, <2>3 DEF Founded, Same, Stores
  <2>5. Own(cmd[t])'
    BY <1>1, <1>3, <1>6 DEF Own, Same, Stores
  <2> QED
    BY <1>1, <1>2, <2>4, <2>5, BuiltStays
<1> QED
  BY <1>1, <1>4, <1>5, <1>6

LEMMA BuiltLast ==
  ASSUME TypeOK, FlowInv, BuiltInv, NEW t \in Terminals,
         \/ \E healthy \in BOOLEAN : Health(t, healthy)
         \/ \E written \in BOOLEAN : Register(t, written) \/ SaveRotated(t, written)
  PROVE  BuiltInv'
<1> DEFINE c == cmd[t]
           d == cmd'[t]
<1>1. /\ Alone(t) /\ UNCHANGED cloud /\ c.pc \in {"health", "register", "save"}
      /\ \/ d = Idle
         \/ Same(c, d) /\ d.mine = c.mine /\ d.pc \in {"register", "reveal"}
  BY HealthMoves, RegisterMoves, SaveRotatedMoves
<1>2. Founded(c) /\ Own(c) /\ (c.pc = "save" => c.do = "rotate")
  BY DEF BuiltInv, FlowInv
<1>3. CASE d = Idle
  BY <1>1, <1>3, BuiltStops, NothingGrows DEF Idle
<1>4. CASE Same(c, d) /\ c.do \notin {"create", "update"}
  BY <1>1, <1>4, BuiltStops, NothingGrows DEF Same
<1>5. CASE Same(c, d) /\ d.mine = c.mine /\ d.pc \in {"register", "reveal"} /\ c.do \in {"create", "update"}
  <2>1. c.pc \in {"health", "register"}
    BY <1>1, <1>2, <1>5
  <2>2. Lacking(c) = {} /\ Lacking(d) = {} /\ BuiltBy(c.pc) = BuiltBy(d.pc)
    BY <1>5, <2>1 DEF Lacking, BuiltBy
  <2>3. Founded(cmd[t])'
    BY <1>1, <1>2, <1>5, <2>2 DEF Founded, Same, Stores
  <2>4. Own(cmd[t])'
    BY <1>2, <1>5, <2>1 DEF Own, Same, Stores
  <2> QED
    BY <1>1, <2>3, <2>4, BuiltStays, NothingGrows
<1> QED
  BY <1>1, <1>3, <1>4, <1>5

LEMMA BuiltBegins ==
  ASSUME TypeOK, BuiltInv, NEW t \in Terminals, Commands(t) \/ NextOfAll(t)
  PROVE  BuiltInv'
<1> DEFINE d == cmd'[t]
<1>1. /\ Alone(t) /\ UNCHANGED cloud
      /\ \/ d = Idle
         \/ d.do \in {"rotate", "env"}
         \/ d.do \in {"create", "update"} /\ d.env \in Names /\ d.pc = "list"
  BY CommandsMove, NextOfAllMoves
<1>2. CASE d = Idle \/ d.do \in {"rotate", "env"}
  BY <1>1, <1>2, BuiltStops, NothingGrows DEF Idle
<1>3. CASE d.do \in {"create", "update"} /\ d.env \in Names /\ d.pc = "list"
  <2>1. BuiltBy("list") = {} /\ Lacking(d) = Kinds
    BY <1>3 DEF BuiltBy, Lacking
  <2>2. Founded(cmd[t])' /\ Own(cmd[t])'
    BY <1>3, <2>1 DEF Founded, Own, Stores
  <2> QED
    BY <1>1, <2>2, BuiltStays, NothingGrows
<1> QED
  BY <1>1, <1>2, <1>3

LEMMA BuiltNext == TypeOK /\ FlowInv /\ BuiltInv /\ [Next]_vars => BuiltInv'
<1> SUFFICES ASSUME TypeOK, FlowInv, BuiltInv, [Next]_vars PROVE BuiltInv'
  OBVIOUS
<1>1. ASSUME NEW t \in Terminals, \/ Reveal(t) \/ Interrupt(t)
                                  \/ \E written \in BOOLEAN : Write(t, written)
      PROVE  BuiltInv'
  <2>1. Alone(t) /\ UNCHANGED cloud /\ (cmd'[t] = Idle \/ cmd'[t].do = "none")
    BY <1>1, RevealMoves, InterruptMoves, WriteMoves
  <2> QED
    BY <2>1, BuiltStops, NothingGrows DEF Idle
<1>2. ASSUME NEW t \in Terminals, Steps(t) PROVE BuiltInv'
  BY <1>1, <1>2, BuiltList, BuiltMake, BuiltSecrets, BuiltStore, BuiltLast, BuiltBegins DEF Steps
<1>3. ASSUME UNCHANGED <<cloud, cmd>> PROVE BuiltInv'
  BY <1>3 DEF BuiltInv, Founded, Own, Lacking
<1>4. CASE \E e \in Names : EditByHand(e)
  BY <1>3, <1>4, EditMoves
<1>5. CASE UNCHANGED vars
  BY <1>3, <1>5 DEF vars
<1> QED
  BY <1>1, <1>2, <1>4, <1>5, BuiltBegins DEF Next

(***************************************************************************)
(* The theorems.                                                           *)
(***************************************************************************)
(* Every variable of the commands and the backends keeps its type.         *)
THEOREM TypeCorrect == Spec => []TypeOK
  BY TypeInit, TypeNext, PTL DEF Spec

(* The admin key a Worker uses is never lost by a deployment or a rotation *)
(* that goes on to its end: in every state it is in the environments file, *)
(* with the person, or in the hands of a running command -- or was taken   *)
(* along by a command that was stopped, or erased by a later write.        *)
THEOREM AdminKeyStaysReachable == Spec => []AdminKeyReachable
<1>1. TypeOK /\ FlowInv /\ KeyInv => AdminKeyReachable
  BY DEF KeyInv, KeyKept, Keeps, AdminKeyReachable
<1> QED
  BY <1>1, TypeInit, TypeNext, FlowInit, FlowNext, KeyInit, KeyNext, PTL DEF Spec

(* A deployment that reports success has built everything and left every   *)
(* secret in place, and one without --resume only used stores it created.  *)
THEOREM SuccessStaysComplete == Spec => []SuccessIsComplete
<1>1. TypeOK /\ BuiltInv => SuccessIsComplete
  <2> SUFFICES ASSUME TypeOK, BuiltInv, NEW t \in Terminals
               PROVE  LET c == cmd[t] IN
                      /\ c.do \in {"create", "update"} /\ c.pc \in {"register", "reveal"} =>
                           cloud[c.env].made = Resources /\ \A k \in Kinds : cloud[c.env].secrets[k] # 0
                      /\ c.do = "create" /\ ~c.resume /\ c.pc \notin {"list", "database", "bucket"}
                           => Stores \subseteq c.mine
    BY DEF SuccessIsComplete
  <2> DEFINE c == cmd[t]
  <2>1. Founded(c) /\ Own(c)
    BY DEF BuiltInv
  <2>2. ASSUME c.do \in {"create", "update"}, c.pc \in {"register", "reveal"}
        PROVE  cloud[c.env].made = Resources /\ \A k \in Kinds : cloud[c.env].secrets[k] # 0
    <3>1. BuiltBy(c.pc) = Resources /\ Lacking(c) = {}
      BY <2>2 DEF BuiltBy, Lacking
    <3>2. c.env \in Names /\ Resources \subseteq cloud[c.env].made
      BY <2>1, <2>2, <3>1 DEF Founded
    <3>3. cloud[c.env].made \subseteq Resources
      BY <3>2 DEF TypeOK, Backend
    <3> QED
      BY <2>1, <2>2, <3>1, <3>2, <3>3 DEF Founded
  <2> QED
    BY <2>1, <2>2 DEF Own
<1> QED
  BY <1>1, TypeInit, TypeNext, FlowInit, FlowNext, BuiltInit, BuiltNext, PTL DEF Spec

(***************************************************************************)
(* Console: the console's service and an MCP session.                      *)
(***************************************************************************)
(* Entry `e` is in content number `s` of the file.                         *)
Defines(s, e) == s \in 1..Stamp /\ \E i \in DOMAIN past[s] : past[s][i] = e

(* Where the service's connection comes from, and that a request which     *)
(* joined no check waits for one of a content it has seen, or of a later.  *)
SeenInv ==
  /\ registry.connection # NoEntry => Defines(registry.stamp, registry.connection)
  /\ registry.running => registry.stamp <= registry.check
  /\ cached.revision <= registry.revision
  /\ cached.to # NoEntry /\ cached.revision = registry.revision => cached.to = registry.connection
  /\ \A q \in Requests : LET r == requests[q] IN
       /\ r.phase # "first" => r.kind # "call"
       /\ r.pc = "sending" => r.kind = "call"
       /\ r.kind = "call" /\ ~r.joined =>
            /\ r.asked <= Stamp
            /\ r.pc = "waiting" => registry.running /\ r.asked <= registry.check
            /\ r.pc = "ready" => r.asked <= registry.stamp
            /\ r.pc = "sending" => \E s \in r.asked..Stamp : Defines(s, r.used)

(* A call that checks for a default found the session without one.         *)
DefaultInv ==
  \A c \in Calls : calls[c].pc = "checking" /\ calls[c].kind = "default" =>
    calls[c].over.name \notin Defined(past[calls[c].began])

(***************************************************************************)
(* What is in a file, and what is preferred of it.                         *)
(***************************************************************************)
LEMMA KnownOnes ==
  /\ NoEntry \notin KnownEntries /\ None \notin Known
  /\ \A f \in Contents : /\ f \in Seq(KnownEntries) /\ DOMAIN f = 1..Len(f) /\ Len(f) \in Nat
                         /\ \A i \in DOMAIN f : f[i] \in KnownEntries /\ f[i].name \in Known
                         /\ Defined(f) \subseteq Known
<1>1. None \notin Known
  BY ConsoleContents
<1>2. NoEntry.name = None
  BY DEF NoEntry
<1>3. NoEntry \notin KnownEntries
  BY <1>1, <1>2 DEF Known
<1>4. ASSUME NEW f \in Contents
      PROVE  /\ f \in Seq(KnownEntries) /\ DOMAIN f = 1..Len(f) /\ Len(f) \in Nat
             /\ \A i \in DOMAIN f : f[i] \in KnownEntries /\ f[i].name \in Known
             /\ Defined(f) \subseteq Known
  <2>1. f \in Seq(KnownEntries) /\ DOMAIN f = 1..Len(f) /\ Len(f) \in Nat
    BY ConsoleContents
  <2>2. \A i \in DOMAIN f : f[i] \in KnownEntries /\ f[i].name \in Known
    BY <2>1 DEF Known
  <2> QED
    BY <2>1, <2>2 DEF Defined
<1> QED
  BY <1>1, <1>3, <1>4

(* A set of positions has a first one.                                     *)
LEMMA FirstOf ==
  ASSUME NEW S \in SUBSET Nat, S # {}
  PROVE  \E i \in S : \A j \in S : i <= j
<1>1. PICK i \in S : \A j \in S : ~(<<j, i>> \in OpToRel(<, Nat))
  BY WFMin, NatLessThanWellFounded
<1>2. ASSUME NEW j \in S PROVE i <= j
  <2>1. ~(<<j, i>> \in OpToRel(<, Nat))
    BY <1>1
  <2>2. ~(j < i)
    BY <2>1 DEF OpToRel
  <2> QED
    BY <2>2
<1> QED
  BY <1>2

LEMMA FirstUsableWorks ==
  ASSUME NEW f \in Contents, NEW usable \in Verdicts(f), usable # {}
  PROVE  FirstUsable(f, usable) \in usable
<1> DEFINE working == {i \in DOMAIN f : f[i].name \in usable}
<1>1. working \in SUBSET Nat
  BY KnownOnes
<1>2. working # {}
  BY DEF Verdicts, Defined
<1>3. \E i \in working : \A j \in working : i <= j
  BY <1>1, <1>2, FirstOf
<1>4. (CHOOSE i \in working : \A j \in working : i <= j) \in working
  BY <1>3
<1> QED
  BY <1>4 DEF FirstUsable

LEMMA PreferredWorks ==
  ASSUME NEW f \in Contents, NEW usable \in Verdicts(f), NEW wanted
  PROVE  /\ Preferred(wanted, f, usable) \in usable \cup {None}
         /\ wanted \in usable => Preferred(wanted, f, usable) = wanted
         /\ usable # {} => Preferred(wanted, f, usable) \in usable
  BY FirstUsableWorks DEF Preferred

LEMMA EntryIsThere ==
  ASSUME NEW f \in Contents, NEW n \in Defined(f)
  PROVE  /\ EntryOf(f, n) \in KnownEntries
         /\ \E i \in DOMAIN f : f[i] = EntryOf(f, n)
<1>1. PICK i \in DOMAIN f : f[i].name = n
  BY DEF Defined
<1>2. (CHOOSE j \in DOMAIN f : f[j].name = n) \in DOMAIN f
  BY <1>1
<1> QED
  BY <1>2, KnownOnes DEF EntryOf

(* The contents of the file are numbered; a rewrite adds one.              *)
LEMMA PastTyped ==
  ASSUME ConsoleTypeOK
  PROVE  /\ Stamp \in Nat \ {0} /\ File \in Contents
         /\ \A s \in 1..Stamp : past[s] \in Contents
         /\ NoEntry \notin KnownEntries
<1>1. past \in Seq(Contents) /\ past # <<>>
  BY DEF ConsoleTypeOK
<1> QED
  BY <1>1, KnownOnes DEF Stamp, File

LEMMA PastGrows ==
  ASSUME ConsoleTypeOK, NEW f \in Contents, Edit(f)
  PROVE  /\ past' \in Seq(Contents) /\ past' # <<>> /\ Stamp' = Stamp + 1
         /\ \A s \in 1..Stamp : past'[s] = past[s]
         /\ \A s, e : Defines(s, e) => Defines(s, e)'
<1>1. past \in Seq(Contents) /\ past' = Append(past, f)
  BY DEF ConsoleTypeOK, Edit
<1>2. past' \in Seq(Contents) /\ past' # <<>> /\ Stamp' = Stamp + 1 /\ Stamp \in Nat
  BY <1>1 DEF Stamp
<1>3. \A s \in 1..Stamp : past'[s] = past[s]
  BY <1>1 DEF Stamp
<1> QED
  BY <1>2, <1>3 DEF Defines

(***************************************************************************)
(* What the steps of a request have in common.                             *)
(***************************************************************************)
(* A request moves on, and starts a check or joins the one that runs.      *)
Waits(q, r) ==
  /\ registry' = Checking(registry)
  /\ requests' = [requests EXCEPT ![q] = [r EXCEPT !.pc = "waiting"]]
Stays(q, r) ==
  /\ MayStay /\ registry' = registry
  /\ requests' = [requests EXCEPT ![q] = [r EXCEPT !.pc = "ready"]]

LEMMA RefreshEither ==
  ASSUME NEW q, NEW r, Refresh(q, r)
  PROVE  Waits(q, r) \/ Stays(q, r)
  BY DEF Refresh, Waits, Stays

RegistryTyped(r) ==
  /\ r \in Registry /\ r.selected \in r.usable \cup {None}
  /\ r.stamp <= Stamp /\ r.check <= Stamp /\ (r.running => r.check > 0)

LEMMA CheckingTyped ==
  ASSUME ConsoleTypeOK
  PROVE  RegistryTyped(registry) /\ RegistryTyped(Checking(registry))
<1>1. RegistryTyped(registry) /\ Stamp \in Nat \ {0}
  BY PastTyped DEF ConsoleTypeOK, RegistryTyped
<1>2. CASE registry.running
  BY <1>1, <1>2 DEF Checking
<1>3. CASE ~registry.running
  <2> DEFINE r == [registry EXCEPT !.running = TRUE, !.check = Stamp]
  <2>1. r \in Registry /\ r.selected = registry.selected /\ r.usable = registry.usable
        /\ r.stamp = registry.stamp /\ r.check = Stamp
    BY <1>1 DEF RegistryTyped, Registry
  <2>2. Checking(registry) = r
    BY <1>3 DEF Checking
  <2> HIDE DEF r
  <2>3. RegistryTyped(r)
    BY <1>1, <2>1 DEF RegistryTyped
  <2> QED
    BY <1>1, <2>2, <2>3
<1> QED
  BY <1>2, <1>3

LEMMA RequestMoves ==
  ASSUME ConsoleTypeOK, NEW q \in Requests, NEW r \in Request, Waits(q, r) \/ Stays(q, r)
  PROVE  requests' \in [Requests -> Request] /\ RegistryTyped(registry')
<1>1. [r EXCEPT !.pc = "waiting"] \in Request /\ [r EXCEPT !.pc = "ready"] \in Request
  BY DEF Request
<1>2. requests \in [Requests -> Request]
  BY DEF ConsoleTypeOK
<1> QED
  BY <1>1, <1>2, CheckingTyped DEF Waits, Stays

LEMMA IdleTyped == IdleRequest \in Request /\ IdleCall \in SessionCall /\ NoEntry \notin KnownEntries
  BY KnownOnes DEF IdleRequest, IdleCall, Request, SessionCall, RequestKinds, Nobody, Choice

(* A step that leaves the file alone, and keeps what it changes well typed.*)
LEMMA ServiceTyped ==
  ASSUME ConsoleTypeOK, UNCHANGED <<past, session>>, prefs' \in Known \cup {None},
         RegistryTyped(registry'), cached' \in Revision, requests' \in [Requests -> Request],
         asked' \in 0..MaxAsked
  PROVE  ConsoleTypeOK'
<1>1. Stamp' = Stamp
  BY DEF Stamp
<1> QED
  BY <1>1 DEF ConsoleTypeOK, RegistryTyped, session

(***************************************************************************)
(* Types.                                                                  *)
(***************************************************************************)
LEMMA ConsoleTypeInit == ConsoleInit => ConsoleTypeOK
<1> SUFFICES ASSUME ConsoleInit PROVE ConsoleTypeOK
  OBVIOUS
<1>1. PICK f \in First : past = <<f>>
  BY DEF ConsoleInit
<1>2. past \in Seq(Contents) /\ past # <<>> /\ Stamp = 1
  BY <1>1, ConsoleContents DEF Stamp
<1>3. 0 \in 0..MaxAsked
  BY ConsoleBounds
<1> QED
  BY <1>2, <1>3, IdleTyped DEF ConsoleInit, ConsoleTypeOK, Registry, Revision, Choice, Nobody, IdleCall

LEMMA EditTyped ==
  ASSUME ConsoleTypeOK, NEW f \in Contents, Edit(f)
  PROVE  ConsoleTypeOK'
<1>1. past' \in Seq(Contents) /\ past' # <<>> /\ Stamp' = Stamp + 1 /\ Stamp \in Nat
  BY PastGrows, PastTyped
<1>2. UNCHANGED <<prefs, registry, cached, requests, chosen, overview, calls, asked>>
  BY DEF Edit, service, session
<1>3. \A c \in Calls : calls[c].began \in Nat
  BY DEF ConsoleTypeOK, SessionCall
<1>4. registry.stamp \in Nat /\ registry.check \in Nat /\ overview.stamp \in Nat
  BY DEF ConsoleTypeOK, Registry
<1>5. overview.stamp > 0 => past'[overview.stamp] = past[overview.stamp]
  BY <1>1, <1>4, PastGrows DEF ConsoleTypeOK
<1> QED
  BY <1>1, <1>2, <1>3, <1>4, <1>5 DEF ConsoleTypeOK

(* What a check concludes with.                                            *)
LEMMA ConcludedTyped ==
  ASSUME ConsoleTypeOK, registry.running, NEW usable \in Verdicts(past[registry.check])
  PROVE  LET r == Concluded(usable, registry.check) IN
           /\ RegistryTyped(r) /\ ~r.running /\ r.stamp = registry.check /\ r.usable = usable
           /\ r.choice = registry.choice
           /\ r.choice \in r.usable => r.selected = r.choice
           /\ r.connection # NoEntry => Defines(registry.check, r.connection)
           /\ IF r.connection = registry.connection THEN r.revision = registry.revision
              ELSE r.revision = registry.revision + 1
<1> DEFINE f == past[registry.check]
           n == Preferred(Wanted, f, usable)
           to == IF n = None THEN NoEntry ELSE EntryOf(f, n)
           r == Concluded(usable, registry.check)
<1>1. registry \in Registry /\ registry.check \in 1..Stamp /\ registry.stamp <= Stamp
  BY PastTyped DEF ConsoleTypeOK, Registry
<1>2. f \in Contents /\ usable \subseteq Defined(f) /\ usable \subseteq Known /\ None \notin usable
  BY <1>1, PastTyped, KnownOnes DEF Verdicts
<1>3. n \in usable \cup {None} /\ (Wanted \in usable => n = Wanted)
  BY <1>2, PreferredWorks
<1>4. to \in KnownEntries \cup {NoEntry} /\ (to # NoEntry => Defines(registry.check, to))
  BY <1>1, <1>2, <1>3, EntryIsThere DEF Defines
<1>5. /\ r = [registry EXCEPT !.running = FALSE, !.stamp = registry.check, !.usable = usable,
                !.selected = n, !.connection = to,
                !.revision = IF to = registry.connection THEN @ ELSE @ + 1]
  BY DEF Concluded
<1>6. registry.choice \in usable => n = registry.choice
  BY <1>2, <1>3 DEF Wanted
<1> HIDE DEF n, to, f
<1>7. registry.check \in Nat /\ Stamp \in Nat /\ registry.revision \in Nat
  BY <1>1, PastTyped DEF Registry
<1> DEFINE rev == IF to = registry.connection THEN registry.revision ELSE registry.revision + 1
<1>8. /\ r \in Registry /\ ~r.running /\ r.stamp = registry.check /\ r.usable = usable
      /\ r.selected = n /\ r.connection = to /\ r.choice = registry.choice /\ r.check = registry.check
      /\ r.revision = rev
  <2>1. r = [registry EXCEPT !.running = FALSE, !.stamp = registry.check, !.usable = usable,
                !.selected = n, !.connection = to, !.revision = rev]
    BY <1>1, <1>5 DEF Registry
  <2>2. rev \in Nat /\ n \in Known \cup {None} /\ registry.check \in Nat
    BY <1>2, <1>3, <1>7
  <2> HIDE DEF rev, r
  <2> QED
    BY <1>1, <1>2, <1>4, <2>1, <2>2 DEF Registry
<1> HIDE DEF r
<1>9. RegistryTyped(r)
  BY <1>1, <1>3, <1>7, <1>8 DEF RegistryTyped
<1> QED
  BY <1>4, <1>6, <1>8, <1>9 DEF r

LEMMA ServiceStepTyped ==
  ASSUME ConsoleTypeOK, NEW q \in Requests, ServiceStep(q)
  PROVE  ConsoleTypeOK'
<1>1. /\ registry \in Registry /\ RegistryTyped(registry) /\ requests[q] \in Request
      /\ requests \in [Requests -> Request] /\ cached \in Revision /\ asked \in 0..MaxAsked
      /\ prefs \in Known \cup {None}
  BY CheckingTyped DEF ConsoleTypeOK
<1>2. CASE Capture(q)
  <2> DEFINE client == IF cached.to # NoEntry /\ cached.revision = registry.revision THEN cached
                       ELSE [revision |-> registry.revision, to |-> registry.connection]
  <2>1. client \in Revision
    BY <1>1 DEF Registry, Revision
  <2>2. /\ cached' = client /\ requests' = [requests EXCEPT ![q] = [@ EXCEPT !.pc = "sending", !.used = client.to]]
        /\ UNCHANGED <<past, prefs, registry, session, asked>>
    BY <1>2 DEF Capture
  <2> HIDE DEF client
  <2>3. [requests[q] EXCEPT !.pc = "sending", !.used = client.to] \in Request
    BY <1>1, <2>1 DEF Request, Revision
  <2>4. requests' \in [Requests -> Request]
    BY <1>1, <2>2, <2>3
  <2> QED
    BY <1>1, <2>1, <2>2, <2>4, ServiceTyped DEF RegistryTyped
<1>3. CASE Reply(q) \/ Refuse(q)
  <2>1. /\ requests' = [requests EXCEPT ![q] = IdleRequest]
        /\ UNCHANGED <<past, prefs, registry, cached, session, asked>>
    BY <1>3 DEF Reply, Refuse
  <2>2. requests' \in [Requests -> Request]
    BY <1>1, <2>1, IdleTyped
  <2> QED
    BY <1>1, <2>1, <2>2, ServiceTyped DEF RegistryTyped
<1>4. ASSUME NEW r \in Request, Waits(q, r) \/ Stays(q, r), UNCHANGED <<past, prefs, cached, session, asked>>
      PROVE  ConsoleTypeOK'
  BY <1>1, <1>4, RequestMoves, ServiceTyped
<1>5. CASE Recheck(q)
  <2> DEFINE r == [requests[q] EXCEPT !.phase = "last"]
  <2>1. r \in Request /\ Waits(q, r)
    BY <1>1, <1>5 DEF Recheck, RefreshForced, Waits, Request
  <2> HIDE DEF r
  <2> QED
    BY <1>4, <1>5, <2>1 DEF Recheck
<1>6. CASE Select(q)
  <2> DEFINE r == [requests[q] EXCEPT !.phase = "choosing"]
  <2>1. r \in Request /\ Refresh(q, r)
    BY <1>1, <1>6 DEF Select, Request
  <2> HIDE DEF r
  <2> QED
    BY <1>4, <1>6, <2>1, RefreshEither DEF Select
<1>7. CASE Choose(q)
  <2> DEFINE r == [requests[q] EXCEPT !.phase = "last", !.pc = "waiting"]
             reg == [Checking(registry) EXCEPT !.choice = requests[q].name]
  <2>1. /\ registry' = reg /\ requests' = [requests EXCEPT ![q] = r]
        /\ prefs' \in {prefs, requests[q].name} /\ UNCHANGED <<past, cached, session, asked>>
    BY <1>1, <1>7 DEF Choose
  <2>2. r \in Request /\ requests[q].name \in Known \cup {None}
    BY <1>1 DEF Request
  <2>3. RegistryTyped(reg)
    BY <2>2, CheckingTyped DEF RegistryTyped, Registry
  <2> HIDE DEF r, reg
  <2>4. requests' \in [Requests -> Request]
    BY <1>1, <2>1, <2>2
  <2>5. RegistryTyped(registry')
    BY <2>1, <2>3
  <2> QED
    BY <1>1, <2>1, <2>2, <2>4, <2>5, ServiceTyped
<1> QED
  BY <1>2, <1>3, <1>5, <1>6, <1>7 DEF ServiceStep

LEMMA AskTyped ==
  ASSUME ConsoleTypeOK, NEW q \in Requests, NEW kind \in RequestKinds, NEW n \in Known \cup {None}, Ask(q, kind, n)
  PROVE  ConsoleTypeOK'
<1> DEFINE r == [IdleRequest EXCEPT !.kind = kind, !.name = n,
                   !.asked = IF kind = "call" THEN Stamp ELSE 0, !.joined = kind = "call" /\ registry.running]
<1>1. /\ Refresh(q, r) /\ asked' = asked + 1 /\ asked < MaxAsked
      /\ UNCHANGED <<past, prefs, cached, session>>
  BY DEF Ask
<1>2. r \in Request
  BY PastTyped, IdleTyped DEF Request, ConsoleTypeOK, Registry
<1> HIDE DEF r
<1>3. requests' \in [Requests -> Request] /\ RegistryTyped(registry')
  BY <1>1, <1>2, RefreshEither, RequestMoves
<1>4. asked' \in 0..MaxAsked
  BY <1>1, ConsoleBounds DEF ConsoleTypeOK
<1> QED
  BY <1>1, <1>3, <1>4, ServiceTyped DEF ConsoleTypeOK

LEMMA FinishTyped == ConsoleTypeOK /\ FinishCheck => ConsoleTypeOK'
<1> SUFFICES ASSUME ConsoleTypeOK, FinishCheck PROVE ConsoleTypeOK'
  OBVIOUS
<1>1. PICK usable \in Verdicts(past[registry.check]) : registry' = Concluded(usable, registry.check)
  BY DEF FinishCheck
<1>2. registry.running /\ WakeAll /\ UNCHANGED <<past, prefs, cached, session, asked>>
  BY DEF FinishCheck
<1>3. RegistryTyped(registry')
  BY <1>1, <1>2, ConcludedTyped
<1>4. requests' \in [Requests -> Request]
  <2>1. \A q \in Requests : requests[q] \in Request /\ [requests[q] EXCEPT !.pc = "ready"] \in Request
    BY DEF ConsoleTypeOK, Request
  <2> QED
    BY <1>2, <2>1 DEF WakeAll
<1> QED
  BY <1>2, <1>3, <1>4, ServiceTyped DEF ConsoleTypeOK

(* A call of the session gets its environment, and may choose it.          *)
LEMMA SessionTyped ==
  ASSUME ConsoleTypeOK, UNCHANGED <<past, prefs, service>>, chosen' \in Choice,
         overview' \in [stamp : Nat, usable : SUBSET Known], overview'.stamp <= Stamp,
         overview'.stamp > 0 => overview'.usable \in Verdicts(past[overview'.stamp]),
         calls' \in [Calls -> SessionCall], asked' \in 0..MaxAsked,
         \A c \in Calls : calls'[c].began <= Stamp /\ (calls'[c].pc = "checking" => calls'[c].began > 0)
  PROVE  ConsoleTypeOK'
<1>1. Stamp' = Stamp
  BY DEF Stamp
<1> QED
  BY <1>1 DEF ConsoleTypeOK, service

LEMMA CallMoves ==
  ASSUME ConsoleTypeOK, NEW c \in Calls, NEW v \in SessionCall, calls' = [calls EXCEPT ![c] = v],
         v.began <= Stamp, v.pc = "checking" => v.began > 0
  PROVE  /\ calls' \in [Calls -> SessionCall]
         /\ \A d \in Calls : calls'[d].began <= Stamp /\ (calls'[d].pc = "checking" => calls'[d].began > 0)
  BY DEF ConsoleTypeOK

LEMMA TargetTyped ==
  ASSUME ConsoleTypeOK, NEW n, NEW s \in 1..Stamp
  PROVE  Target(n, s) \in KnownEntries \cup {NoEntry}
  BY PastTyped, EntryIsThere DEF Target

LEMMA GetsTyped ==
  ASSUME ConsoleTypeOK, NEW c \in Calls, NEW n, NEW s \in 1..Stamp, Gets(c, n, s)
  PROVE  /\ calls' \in [Calls -> SessionCall] /\ calls'[c].pc = "got"
         /\ \A d \in Calls : calls'[d].began <= Stamp /\ (calls'[d].pc = "checking" => calls'[d].began > 0)
         /\ \A d \in Calls \ {c} : calls'[d] = calls[d]
<1> DEFINE v == [calls[c] EXCEPT !.pc = "got", !.began = 0, !.name = None, !.over = Nobody, !.got = Target(n, s)]
<1>1. calls[c] \in SessionCall /\ calls \in [Calls -> SessionCall] /\ Stamp \in Nat
  BY PastTyped DEF ConsoleTypeOK
<1>2. Nobody \in Choice
  BY DEF Nobody, Choice
<1>3. v \in SessionCall /\ v.began = 0 /\ v.pc = "got"
  BY <1>1, <1>2, TargetTyped DEF SessionCall
<1>4. calls' = [calls EXCEPT ![c] = v]
  BY <1>1 DEF Gets
<1> HIDE DEF v
<1>5. v.began <= Stamp /\ v.pc # "checking"
  BY <1>1, <1>3
<1>6. /\ calls' \in [Calls -> SessionCall]
      /\ \A d \in Calls : calls'[d].began <= Stamp /\ (calls'[d].pc = "checking" => calls'[d].began > 0)
  BY <1>3, <1>4, <1>5, CallMoves
<1> QED
  BY <1>1, <1>3, <1>4, <1>6

LEMMA PickTyped ==
  ASSUME ConsoleTypeOK, NEW c \in Calls, NEW s \in 1..Stamp, NEW f \in Contents, NEW usable \in Verdicts(f),
         Pick(c, f, usable, s)
  PROVE  /\ calls' \in [Calls -> SessionCall] /\ chosen' \in Choice
         /\ \A d \in Calls : calls'[d].began <= Stamp /\ (calls'[d].pc = "checking" => calls'[d].began > 0)
         /\ \A d \in Calls \ {c} : calls'[d] = calls[d]
         /\ calls'[c].pc # "checking"
<1> DEFINE n == Preferred(prefs, f, usable)
<1>1. n \in Known \cup {None}
  BY PreferredWorks, KnownOnes DEF Verdicts
<1>2. CASE usable = {}
  <2>1. calls' = [calls EXCEPT ![c] = IdleCall] /\ chosen' = chosen
    BY <1>2 DEF Pick, Fails
  <2>2. IdleCall.began = 0 /\ IdleCall.pc = "idle" /\ 0 <= Stamp
    BY PastTyped DEF IdleCall
  <2> QED
    BY <2>1, <2>2, IdleTyped, CallMoves DEF ConsoleTypeOK
<1>3. CASE usable # {}
  <2>1. Gets(c, n, s) /\ chosen' = [name |-> n, by |-> IF n = prefs THEN "console" ELSE "first-usable"]
    BY <1>3 DEF Pick
  <2> HIDE DEF n
  <2>2. chosen' \in Choice
    BY <1>1, <2>1 DEF Choice
  <2>3. calls'[c].pc # "checking"
    BY <2>1, GetsTyped
  <2> QED
    BY <2>1, <2>2, <2>3, GetsTyped
<1> QED
  BY <1>2, <1>3

LEMMA CallStepTyped ==
  ASSUME ConsoleTypeOK, NEW c \in Calls, CallStep(c)
  PROVE  ConsoleTypeOK'
<1>1. /\ calls[c] \in SessionCall /\ calls \in [Calls -> SessionCall] /\ chosen \in Choice /\ asked \in 0..MaxAsked
      /\ overview \in [stamp : Nat, usable : SUBSET Known] /\ overview.stamp <= Stamp
      /\ overview.stamp > 0 => overview.usable \in Verdicts(past[overview.stamp])
  BY DEF ConsoleTypeOK
<1>2. Stamp \in 1..Stamp /\ File \in Contents /\ File = past[Stamp] /\ Stamp \in Nat
  BY PastTyped DEF File
<1>3. ASSUME UNCHANGED <<past, prefs, service, overview, asked>>, chosen' \in Choice, NEW n, Gets(c, n, Stamp)
      PROVE  ConsoleTypeOK'
  BY <1>1, <1>2, <1>3, GetsTyped, SessionTyped
<1>4. ASSUME UNCHANGED <<past, prefs, service, chosen, overview, asked>>, NEW v \in SessionCall,
             calls' = [calls EXCEPT ![c] = v], v.began <= Stamp, v.pc = "checking" => v.began > 0
      PROVE  ConsoleTypeOK'
  BY <1>1, <1>4, CallMoves, SessionTyped
<1>5. CASE TargetNamed(c)
  BY <1>1, <1>3, <1>5 DEF TargetNamed
<1>6. CASE TargetChosen(c)
  BY <1>1, <1>3, <1>6 DEF TargetChosen
<1>7. CASE TargetOnly(c)
  <2>1. PICK n \in Defined(File) : chosen' = [name |-> n, by |-> "only"] /\ Gets(c, n, Stamp)
    <3>1. Defined(File) # {}
      BY <1>7, FS_EmptySet DEF TargetOnly
    <3> QED
      BY <1>7, <3>1 DEF TargetOnly
  <2>2. chosen' \in Choice
    BY <1>2, <2>1, KnownOnes DEF Choice
  <2> QED
    BY <1>3, <1>7, <2>1, <2>2 DEF TargetOnly
<1>8. CASE TargetKept(c)
  <2>1. overview.stamp = Stamp /\ Pick(c, past[overview.stamp], overview.usable, Stamp)
        /\ UNCHANGED <<past, prefs, service, overview, asked>>
    BY <1>8 DEF TargetKept, OverviewKept
  <2>2. overview.usable \in Verdicts(past[overview.stamp])
    BY <1>2, <2>1 DEF ConsoleTypeOK
  <2>3. /\ calls' \in [Calls -> SessionCall] /\ chosen' \in Choice
        /\ \A d \in Calls : calls'[d].began <= Stamp /\ (calls'[d].pc = "checking" => calls'[d].began > 0)
    BY <1>2, <2>1, <2>2, PickTyped
  <2> QED
    BY <1>1, <2>1, <2>3, SessionTyped
<1>9. CASE TargetChecks(c) \/ AlwaysChecks(c)
  <2> DEFINE v == [calls[c] EXCEPT !.pc = "checking", !.began = Stamp, !.over = chosen]
  <2>1. v \in SessionCall /\ v.began = Stamp
    BY <1>1, <1>2 DEF SessionCall
  <2>2. calls' = [calls EXCEPT ![c] = v] /\ UNCHANGED <<past, prefs, service, chosen, overview, asked>>
    BY <1>1, <1>9 DEF TargetChecks, AlwaysChecks, Checks
  <2> HIDE DEF v
  <2>3. v.began <= Stamp /\ v.began > 0
    BY <1>2, <2>1
  <2> QED
    BY <1>4, <2>1, <2>2, <2>3
<1>10. CASE NoTarget(c) \/ Return(c)
  <2>1. calls' = [calls EXCEPT ![c] = IdleCall] /\ UNCHANGED <<past, prefs, service, chosen, overview, asked>>
    BY <1>10 DEF NoTarget, Return, Fails
  <2>2. IdleCall.began = 0 /\ IdleCall.pc = "idle"
    BY DEF IdleCall
  <2>3. IdleCall.began <= Stamp /\ IdleCall.pc # "checking"
    BY <1>2, <2>2
  <2> QED
    BY <1>4, <2>1, <2>3, IdleTyped
<1>11. CASE CheckEnds(c)
  <2>1. calls[c].pc = "checking" /\ calls[c].began \in 1..Stamp /\ UNCHANGED <<past, prefs, service, asked>>
    BY <1>1, <1>2, <1>11 DEF CheckEnds, ConsoleTypeOK, SessionCall
  <2> DEFINE s == calls[c].began
  <2>2. PICK usable \in Verdicts(past[s]) :
          /\ overview' = [stamp |-> s, usable |-> usable]
          /\ CASE calls[c].kind = "default" -> Pick(c, past[s], usable, s)
               [] calls[c].kind = "use" /\ calls[c].name \in usable -> Used(c)
               [] OTHER -> Fails(c) /\ UNCHANGED chosen
    BY <1>11 DEF CheckEnds
  <2>3. past[s] \in Contents /\ s \in 1..Stamp
    BY <2>1, PastTyped
  <2> HIDE DEF s
  <2>4. /\ overview' \in [stamp : Nat, usable : SUBSET Known] /\ overview'.stamp <= Stamp
        /\ overview'.usable \in Verdicts(past[overview'.stamp])
    BY <1>2, <2>2, <2>3, KnownOnes DEF Verdicts
  <2>5. IdleCall.began <= Stamp /\ IdleCall.pc # "checking"
    BY <1>2 DEF IdleCall
  <2>6. /\ calls' \in [Calls -> SessionCall] /\ chosen' \in Choice
        /\ \A d \in Calls : calls'[d].began <= Stamp /\ (calls'[d].pc = "checking" => calls'[d].began > 0)
    <3>1. CASE calls[c].kind = "default"
      BY <2>2, <2>3, <3>1, PickTyped
    <3>2. CASE calls[c].kind # "default" /\ calls[c].kind = "use" /\ calls[c].name \in usable
      <4>1. Used(c)
        BY <2>2, <3>2
      <4> DEFINE v == [IdleCall EXCEPT !.pc = "start", !.kind = "default"]
      <4>2. v \in SessionCall /\ v.began = IdleCall.began /\ v.pc = "start"
        BY IdleTyped DEF SessionCall
      <4>3. calls' = [calls EXCEPT ![c] = v] /\ chosen' = [name |-> calls[c].name, by |-> "session"]
        BY <4>1 DEF Used
      <4> HIDE DEF v
      <4>4. chosen' \in Choice
        BY <1>1, <4>3 DEF Choice, SessionCall
      <4>5. v.began <= Stamp /\ v.pc # "checking"
        BY <2>5, <4>2
      <4> QED
        BY <4>2, <4>3, <4>4, <4>5, CallMoves
    <3>3. CASE calls[c].kind # "default" /\ ~(calls[c].kind = "use" /\ calls[c].name \in usable)
      <4>1. calls' = [calls EXCEPT ![c] = IdleCall] /\ chosen' = chosen
        BY <2>2, <3>3 DEF Fails
      <4> QED
        BY <1>1, <2>5, <4>1, IdleTyped, CallMoves
    <3> QED
      BY <3>1, <3>2, <3>3
  <2> QED
    BY <1>1, <2>1, <2>4, <2>6, SessionTyped
<1> QED
  BY <1>5, <1>6, <1>7, <1>8, <1>9, <1>10, <1>11 DEF CallStep

LEMMA CallTyped ==
  ASSUME ConsoleTypeOK, NEW c \in Calls, NEW kind \in {"list", "use", "named", "default"},
         NEW n \in Known \cup {None}, Call(c, kind, n)
  PROVE  ConsoleTypeOK'
<1> DEFINE v == [IdleCall EXCEPT !.pc = "start", !.kind = kind, !.name = n]
<1>1. v \in SessionCall /\ v.began = 0 /\ v.pc = "start"
  BY IdleTyped DEF SessionCall, IdleCall
<1>2. /\ calls' = [calls EXCEPT ![c] = v] /\ asked' = asked + 1 /\ asked < MaxAsked
      /\ UNCHANGED <<past, prefs, service, chosen, overview>>
  BY DEF Call
<1> HIDE DEF v
<1>3. v.began <= Stamp /\ v.pc # "checking"
  BY <1>1, PastTyped
<1>4. asked' \in 0..MaxAsked
  BY <1>2, ConsoleBounds DEF ConsoleTypeOK
<1> QED
  BY <1>1, <1>2, <1>3, <1>4, CallMoves, SessionTyped DEF ConsoleTypeOK

LEMMA ConsoleTypeNext == ConsoleTypeOK /\ [ConsoleNext]_consoleVars => ConsoleTypeOK'
<1> SUFFICES ASSUME ConsoleTypeOK, [ConsoleNext]_consoleVars PROVE ConsoleTypeOK'
  OBVIOUS
<1>1. CASE UNCHANGED consoleVars
  BY <1>1 DEF consoleVars, ConsoleTypeOK, Stamp
<1>2. ASSUME NEW f \in Contents, Edit(f) PROVE ConsoleTypeOK'
  BY <1>2, EditTyped
<1>3. ASSUME NEW q \in Requests, ServiceStep(q) PROVE ConsoleTypeOK'
  BY <1>3, ServiceStepTyped
<1>4. ASSUME NEW q \in Requests, NEW kind \in RequestKinds, NEW n \in Known \cup {None}, Ask(q, kind, n)
      PROVE  ConsoleTypeOK'
  BY <1>4, AskTyped
<1>5. CASE FinishCheck
  BY <1>5, FinishTyped
<1>6. ASSUME NEW c \in Calls, CallStep(c) PROVE ConsoleTypeOK'
  BY <1>6, CallStepTyped
<1>7. ASSUME NEW c \in Calls, NEW kind \in {"list", "use", "named", "default"},
             NEW n \in Known \cup {None}, Call(c, kind, n)
      PROVE  ConsoleTypeOK'
  BY <1>7, CallTyped
<1> QED
  BY <1>1, <1>2, <1>3, <1>4, <1>5, <1>6, <1>7 DEF ConsoleNext

(***************************************************************************)
(* The session's steps leave the service alone.                            *)
(***************************************************************************)
LEMMA SessionSteps ==
  ASSUME NEW c \in Calls,
         \/ CallStep(c)
         \/ \E kind \in {"list", "use", "named", "default"}, n \in Known \cup {None} : Call(c, kind, n)
  PROVE  UNCHANGED <<past, prefs, registry, cached, requests>>
  BY DEF CallStep, TargetNamed, TargetChosen, TargetOnly, TargetKept, TargetChecks, AlwaysChecks,
         NoTarget, CheckEnds, Return, Call, service

(***************************************************************************)
(* The choice is honoured.                                                 *)
(***************************************************************************)
LEMMA ChoiceNext ==
  ASSUME ConsoleTypeOK, ChoiceHonoured, [ConsoleNext]_consoleVars
  PROVE  ChoiceHonoured'
<1>1. ASSUME registry' = registry \/ registry'.running PROVE ChoiceHonoured'
  BY <1>1 DEF ChoiceHonoured
<1>2. registry \in Registry /\ Checking(registry).running /\ Checking(registry) \in Registry
  BY CheckingTyped DEF RegistryTyped, Checking, Registry
<1>3. CASE UNCHANGED consoleVars
  BY <1>1, <1>3 DEF consoleVars
<1>4. ASSUME NEW f \in Contents, Edit(f) PROVE ChoiceHonoured'
  BY <1>1, <1>4 DEF Edit, service
<1>5. ASSUME NEW q, NEW r, Refresh(q, r) PROVE ChoiceHonoured'
  BY <1>1, <1>2, <1>5 DEF Refresh
<1>6. ASSUME NEW q \in Requests, ServiceStep(q) PROVE ChoiceHonoured'
  <2>1. CASE Choose(q)
    BY <1>1, <1>2, <2>1 DEF Choose, Registry
  <2>2. CASE Recheck(q) \/ Select(q)
    BY <1>1, <1>2, <1>5, <2>2 DEF Recheck, RefreshForced, Select
  <2>3. CASE Capture(q) \/ Reply(q) \/ Refuse(q)
    BY <1>1, <2>3 DEF Capture, Reply, Refuse
  <2> QED
    BY <1>6, <2>1, <2>2, <2>3 DEF ServiceStep
<1>7. ASSUME NEW q \in Requests, NEW kind \in RequestKinds, NEW n \in Known \cup {None}, Ask(q, kind, n)
      PROVE  ChoiceHonoured'
  BY <1>5, <1>7 DEF Ask
<1>8. CASE FinishCheck
  <2>1. PICK usable \in Verdicts(past[registry.check]) : registry' = Concluded(usable, registry.check)
    BY <1>8 DEF FinishCheck
  <2>2. registry'.choice \in registry'.usable => registry'.selected = registry'.choice
    BY <1>8, <2>1, ConcludedTyped DEF FinishCheck
  <2> QED
    BY <2>2 DEF ChoiceHonoured
<1>9. ASSUME NEW c \in Calls,
             \/ CallStep(c)
             \/ \E kind \in {"list", "use", "named", "default"}, n \in Known \cup {None} : Call(c, kind, n)
      PROVE  ChoiceHonoured'
  BY <1>1, <1>9, SessionSteps
<1> QED
  BY <1>3, <1>4, <1>6, <1>7, <1>8, <1>9 DEF ConsoleNext

(***************************************************************************)
(* Edits are noticed.                                                      *)
(***************************************************************************)
(* What SeenInv says of the registry and the client, and of one request,   *)
(* when the registry is `reg`.                                             *)
RegistrySeen(reg) ==
  /\ reg.connection # NoEntry => Defines(reg.stamp, reg.connection)
  /\ reg.running => reg.stamp <= reg.check
  /\ cached.revision <= reg.revision
  /\ cached.to # NoEntry /\ cached.revision = reg.revision => cached.to = reg.connection

RequestSeen(r, reg) ==
  /\ r.phase # "first" => r.kind # "call"
  /\ r.pc = "sending" => r.kind = "call"
  /\ r.kind = "call" /\ ~r.joined =>
       /\ r.asked <= Stamp
       /\ r.pc = "waiting" => reg.running /\ r.asked <= reg.check
       /\ r.pc = "ready" => r.asked <= reg.stamp
       /\ r.pc = "sending" => \E s \in r.asked..Stamp : Defines(s, r.used)

LEMMA SeenParts ==
  /\ SeenInv <=> RegistrySeen(registry) /\ \A q \in Requests : RequestSeen(requests[q], registry)
  BY DEF SeenInv, RegistrySeen, RequestSeen

LEMMA SeenInit == ConsoleInit => SeenInv
<1> SUFFICES ASSUME ConsoleInit PROVE SeenInv
  OBVIOUS
<1>1. RegistrySeen(registry)
  BY DEF ConsoleInit, RegistrySeen
<1>2. RequestSeen(IdleRequest, registry)
  BY DEF IdleRequest, RequestSeen
<1> QED
  BY <1>1, <1>2, SeenParts DEF ConsoleInit

(* What is seen of unchanged contents is seen after the step.              *)
LEMMA SeenLater ==
  ASSUME UNCHANGED <<past, cached>>, RegistrySeen(registry'),
         \A q \in Requests : RequestSeen(requests'[q], registry')
  PROVE  SeenInv'
<1>1. Stamp' = Stamp /\ \A s, e : Defines(s, e)' <=> Defines(s, e)
  BY DEF Stamp, Defines
<1> QED
  BY <1>1 DEF SeenInv, RegistrySeen, RequestSeen

(* A check that starts changes nothing a request waits for.                *)
LEMMA CheckingSeen ==
  ASSUME ConsoleTypeOK, SeenInv
  PROVE  /\ RegistrySeen(Checking(registry)) /\ Checking(registry).running
         /\ \A q \in Requests : RequestSeen(requests[q], Checking(registry))
<1>1. registry \in Registry /\ registry.stamp <= Stamp /\ Stamp \in Nat
  BY PastTyped DEF ConsoleTypeOK
<1>2. RegistrySeen(registry) /\ \A q \in Requests : RequestSeen(requests[q], registry)
  BY SeenParts
<1>3. CASE registry.running
  BY <1>2, <1>3 DEF Checking
<1>4. CASE ~registry.running
  <2> DEFINE reg == Checking(registry)
  <2>1. /\ reg.running /\ reg.check = Stamp /\ reg.stamp = registry.stamp
        /\ reg.connection = registry.connection /\ reg.revision = registry.revision
    BY <1>1, <1>4 DEF Checking, Registry
  <2> HIDE DEF reg
  <2>2. RegistrySeen(reg)
    BY <1>1, <1>2, <2>1 DEF RegistrySeen
  <2>3. ASSUME NEW q \in Requests PROVE RequestSeen(requests[q], reg)
    <3>1. RequestSeen(requests[q], registry)
      BY <1>2
    <3> QED
      BY <1>4, <2>1, <3>1 DEF RequestSeen
  <2> QED
    BY <2>1, <2>2, <2>3 DEF reg
<1> QED
  BY <1>3, <1>4

(* A request that starts a check or joins one, or goes on without.         *)
LEMMA MovesSeen ==
  ASSUME ConsoleTypeOK, SeenInv, NEW q \in Requests, NEW r \in Request, UNCHANGED <<past, cached>>,
         Waits(q, r) \/ Stays(q, r), r.phase # "first" => r.kind # "call",
         r.kind = "call" /\ ~r.joined => r.asked = Stamp /\ ~registry.running
  PROVE  SeenInv'
<1>1. registry \in Registry /\ Stamp \in Nat /\ requests \in [Requests -> Request]
  BY PastTyped DEF ConsoleTypeOK
<1>2. CASE Waits(q, r)
  <2> DEFINE w == [r EXCEPT !.pc = "waiting"]
  <2>1. /\ w.pc = "waiting" /\ w.kind = r.kind /\ w.joined = r.joined /\ w.asked = r.asked /\ w.phase = r.phase
        /\ requests' = [requests EXCEPT ![q] = w] /\ registry' = Checking(registry)
    BY <1>2 DEF Waits, Request
  <2> HIDE DEF w
  <2>2. ~registry.running => Checking(registry).check = Stamp
    BY <1>1 DEF Checking, Registry
  <2>3. RequestSeen(w, Checking(registry))
    BY <1>1, <2>1, <2>2, CheckingSeen DEF RequestSeen
  <2> QED
    BY <1>1, <2>1, <2>3, CheckingSeen, SeenLater
<1>3. CASE Stays(q, r)
  <2> DEFINE w == [r EXCEPT !.pc = "ready"]
  <2>1. /\ w.pc = "ready" /\ w.kind = r.kind /\ w.joined = r.joined /\ w.asked = r.asked /\ w.phase = r.phase
        /\ requests' = [requests EXCEPT ![q] = w] /\ registry' = registry /\ registry.stamp = Stamp
    BY <1>3 DEF Stays, MayStay, Request
  <2> HIDE DEF w
  <2>2. RequestSeen(w, registry)
    BY <1>1, <2>1 DEF RequestSeen
  <2> QED
    BY <1>1, <2>1, <2>2, SeenParts, SeenLater
<1> QED
  BY <1>2, <1>3

LEMMA EditSeen ==
  ASSUME ConsoleTypeOK, SeenInv, NEW f \in Contents, Edit(f)
  PROVE  SeenInv'
<1>1. /\ Stamp' = Stamp + 1 /\ Stamp \in Nat /\ \A s, e : Defines(s, e) => Defines(s, e)'
      /\ UNCHANGED <<registry, cached, requests>>
  BY PastGrows, PastTyped DEF Edit, service
<1>2. \A q \in Requests : requests[q] \in Request
  BY DEF ConsoleTypeOK
<1>3. RegistrySeen(registry)'
  BY <1>1, SeenParts DEF RegistrySeen
<1>4. ASSUME NEW q \in Requests PROVE RequestSeen(requests[q], registry)'
  <2>1. RequestSeen(requests[q], registry) /\ requests[q].asked \in Nat
    BY <1>2, SeenParts DEF Request
  <2>2. requests[q].asked..Stamp \subseteq requests[q].asked..(Stamp + 1)
    BY <1>1, <2>1
  <2> QED
    BY <1>1, <2>1, <2>2 DEF RequestSeen
<1> QED
  BY <1>3, <1>4 DEF SeenInv, RegistrySeen, RequestSeen

LEMMA ServiceSeen ==
  ASSUME ConsoleTypeOK, SeenInv, NEW q \in Requests, ServiceStep(q)
  PROVE  SeenInv'
<1>1. /\ registry \in Registry /\ requests[q] \in Request /\ requests \in [Requests -> Request]
      /\ cached \in Revision /\ Stamp \in Nat \ {0} /\ registry.stamp <= Stamp
  BY PastTyped DEF ConsoleTypeOK
<1>2. RegistrySeen(registry) /\ \A p \in Requests : RequestSeen(requests[p], registry)
  BY SeenParts
<1>3. CASE Capture(q)
  <2> DEFINE client == IF cached.to # NoEntry /\ cached.revision = registry.revision THEN cached
                       ELSE [revision |-> registry.revision, to |-> registry.connection]
             w == [requests[q] EXCEPT !.pc = "sending", !.used = client.to]
  <2>1. /\ requests[q].pc = "ready" /\ requests[q].kind = "call" /\ registry.connection # NoEntry
        /\ cached' = client /\ requests' = [requests EXCEPT ![q] = w]
        /\ UNCHANGED <<past, prefs, registry, session, asked>>
    BY <1>3 DEF Capture
  <2>2. client.to = registry.connection /\ client.revision = registry.revision
    BY <1>2, <2>1 DEF RegistrySeen
  <2> HIDE DEF client
  <2>3. /\ w.pc = "sending" /\ w.kind = "call" /\ w.used = registry.connection /\ w.asked = requests[q].asked
        /\ w.joined = requests[q].joined /\ w.phase = requests[q].phase
    BY <1>1, <2>1, <2>2 DEF Request
  <2> HIDE DEF w
  <2>4. RequestSeen(w, registry)
    <3>1. RequestSeen(requests[q], registry) /\ registry.stamp \in Nat /\ requests[q].asked \in Nat
      BY <1>1, <1>2 DEF Registry, Request
    <3>2. Defines(registry.stamp, registry.connection)
      BY <1>2, <2>1 DEF RegistrySeen
    <3>3. requests[q].asked <= registry.stamp => registry.stamp \in requests[q].asked..Stamp
      BY <1>1, <3>1
    <3> QED
      BY <1>1, <2>1, <2>3, <3>1, <3>2, <3>3 DEF RequestSeen
  <2>5. RegistrySeen(registry)'
    <3>1. Defines(registry.stamp, registry.connection)'
      BY <1>2, <2>1 DEF RegistrySeen, Defines, Stamp
    <3>2. registry.revision <= registry.revision
      BY <1>1 DEF Registry
    <3> QED
      BY <1>2, <2>1, <2>2, <3>1, <3>2 DEF RegistrySeen
  <2>6. ASSUME NEW p \in Requests PROVE RequestSeen(requests[p], registry)'
    <3>1. RequestSeen(requests'[p], registry)
      BY <1>1, <1>2, <2>1, <2>4
    <3>2. Stamp' = Stamp /\ \A s, e : Defines(s, e)' <=> Defines(s, e)
      BY <2>1 DEF Stamp, Defines
    <3> QED
      BY <2>1, <3>1, <3>2 DEF RequestSeen
  <2> QED
    BY <2>5, <2>6 DEF SeenInv, RegistrySeen, RequestSeen
<1>4. CASE Reply(q) \/ Refuse(q)
  <2>1. /\ requests' = [requests EXCEPT ![q] = IdleRequest]
        /\ UNCHANGED <<past, prefs, registry, cached, session, asked>>
    BY <1>4 DEF Reply, Refuse
  <2>2. RequestSeen(IdleRequest, registry)
    BY DEF IdleRequest, RequestSeen
  <2> QED
    BY <1>1, <1>2, <2>1, <2>2, SeenLater
<1>5. CASE Recheck(q)
  <2> DEFINE r == [requests[q] EXCEPT !.phase = "last"]
  <2>1. r \in Request /\ Waits(q, r) /\ r.kind = "recheck" /\ UNCHANGED <<past, cached>>
    BY <1>1, <1>5 DEF Recheck, RefreshForced, Waits, Request
  <2> HIDE DEF r
  <2> QED
    BY <2>1, MovesSeen
<1>6. CASE Select(q)
  <2> DEFINE r == [requests[q] EXCEPT !.phase = "choosing"]
  <2>1. r \in Request /\ Refresh(q, r) /\ r.kind = "select" /\ UNCHANGED <<past, cached>>
    BY <1>1, <1>6 DEF Select, Request
  <2> HIDE DEF r
  <2> QED
    BY <2>1, RefreshEither, MovesSeen
<1>7. CASE Choose(q)
  <2> DEFINE w == [requests[q] EXCEPT !.phase = "last", !.pc = "waiting"]
             reg == [Checking(registry) EXCEPT !.choice = requests[q].name]
  <2>1. registry' = reg /\ requests' = [requests EXCEPT ![q] = w] /\ UNCHANGED <<past, cached>>
        /\ requests[q].phase = "choosing"
    BY <1>1, <1>7 DEF Choose, Choosing
  <2>2. w.kind = requests[q].kind /\ w.pc = "waiting" /\ w.kind # "call"
    BY <1>1, <1>2, <2>1 DEF Request, RequestSeen
  <2>3. /\ reg.running = Checking(registry).running /\ reg.check = Checking(registry).check
        /\ reg.stamp = Checking(registry).stamp /\ reg.connection = Checking(registry).connection
        /\ reg.revision = Checking(registry).revision
    BY <1>1, CheckingTyped DEF RegistryTyped, Registry
  <2> HIDE DEF w, reg
  <2>4. RegistrySeen(reg)
    BY <2>3, CheckingSeen DEF RegistrySeen
  <2>5. \A p \in Requests : RequestSeen(requests[p], reg)
    BY <2>3, CheckingSeen DEF RequestSeen
  <2>6. RequestSeen(w, reg)
    BY <2>2 DEF RequestSeen
  <2> QED
    BY <1>1, <2>1, <2>4, <2>5, <2>6, SeenLater
<1> QED
  BY <1>3, <1>4, <1>5, <1>6, <1>7 DEF ServiceStep

LEMMA AskSeen ==
  ASSUME ConsoleTypeOK, SeenInv, NEW q \in Requests, NEW kind \in RequestKinds, NEW n \in Known \cup {None},
         Ask(q, kind, n)
  PROVE  SeenInv'
<1> DEFINE r == [IdleRequest EXCEPT !.kind = kind, !.name = n,
                   !.asked = IF kind = "call" THEN Stamp ELSE 0, !.joined = kind = "call" /\ registry.running]
<1>4. registry.running \in BOOLEAN
  BY DEF ConsoleTypeOK, Registry
<1>1. Refresh(q, r) /\ UNCHANGED <<past, cached>>
  BY DEF Ask
<1>2. r \in Request
  BY PastTyped, IdleTyped DEF Request, ConsoleTypeOK, Registry
<1>3. /\ r.phase = "first" /\ r.kind = kind
      /\ kind = "call" => r.asked = Stamp
      /\ kind = "call" => (r.joined <=> registry.running)
  BY <1>4 DEF IdleRequest
<1> HIDE DEF r
<1> QED
  BY <1>1, <1>2, <1>3, RefreshEither, MovesSeen

LEMMA FinishSeen == ConsoleTypeOK /\ SeenInv /\ FinishCheck => SeenInv'
<1> SUFFICES ASSUME ConsoleTypeOK, SeenInv, FinishCheck PROVE SeenInv'
  OBVIOUS
<1>1. PICK usable \in Verdicts(past[registry.check]) : registry' = Concluded(usable, registry.check)
  BY DEF FinishCheck
<1>2. registry.running /\ WakeAll /\ UNCHANGED <<past, cached>>
  BY DEF FinishCheck
<1>3. registry \in Registry /\ requests \in [Requests -> Request] /\ cached \in Revision
  BY DEF ConsoleTypeOK
<1>4. RegistrySeen(registry) /\ \A q \in Requests : RequestSeen(requests[q], registry)
  BY SeenParts
<1> DEFINE reg == Concluded(usable, registry.check)
<1>5. /\ ~reg.running /\ reg.stamp = registry.check
      /\ reg.connection # NoEntry => Defines(registry.check, reg.connection)
      /\ IF reg.connection = registry.connection THEN reg.revision = registry.revision
         ELSE reg.revision = registry.revision + 1
  BY <1>2, ConcludedTyped
<1> HIDE DEF reg
<1>6. RegistrySeen(reg)
  BY <1>3, <1>4, <1>5 DEF RegistrySeen, Registry, Revision
<1>7. ASSUME NEW q \in Requests PROVE RequestSeen(requests'[q], reg)
  <2>1. RequestSeen(requests[q], registry) /\ requests[q] \in Request /\ registry.stamp <= registry.check
    BY <1>2, <1>3, <1>4 DEF RegistrySeen
  <2>2. CASE requests[q].pc = "waiting"
    <3> DEFINE w == [requests[q] EXCEPT !.pc = "ready"]
    <3>1. /\ w.pc = "ready" /\ w.kind = requests[q].kind /\ w.joined = requests[q].joined
          /\ w.asked = requests[q].asked /\ w.phase = requests[q].phase /\ requests'[q] = w
      BY <1>2, <2>1, <2>2 DEF WakeAll, Request
    <3> HIDE DEF w
    <3> QED
      BY <1>5, <2>1, <2>2, <3>1 DEF RequestSeen
  <2>3. CASE requests[q].pc # "waiting"
    <3>1. requests'[q] = requests[q]
      BY <1>2, <2>3 DEF WakeAll
    <3>2. requests[q].asked <= registry.stamp => requests[q].asked <= registry.check
      BY <1>3, <2>1 DEF Registry, Request
    <3> QED
      BY <1>5, <2>1, <2>3, <3>1, <3>2 DEF RequestSeen
  <2> QED
    BY <2>2, <2>3
<1> QED
  BY <1>1, <1>2, <1>6, <1>7, SeenLater DEF reg

LEMMA SeenNext ==
  ASSUME ConsoleTypeOK, SeenInv, [ConsoleNext]_consoleVars
  PROVE  SeenInv'
<1>1. ASSUME UNCHANGED <<past, registry, cached, requests>> PROVE SeenInv'
  BY <1>1, SeenParts, SeenLater
<1>2. CASE UNCHANGED consoleVars
  BY <1>1, <1>2 DEF consoleVars
<1>3. ASSUME NEW c \in Calls,
             \/ CallStep(c)
             \/ \E kind \in {"list", "use", "named", "default"}, n \in Known \cup {None} : Call(c, kind, n)
      PROVE  SeenInv'
  BY <1>1, <1>3, SessionSteps
<1> QED
  BY <1>2, <1>3, EditSeen, ServiceSeen, AskSeen, FinishSeen DEF ConsoleNext

LEMMA SeenIsNoticed == ConsoleTypeOK /\ SeenInv => EditsNoticed
<1> SUFFICES ASSUME SeenInv, NEW q \in Requests, requests[q].pc = "sending", ~requests[q].joined
             PROVE  \E s \in requests[q].asked..Stamp : \E i \in DOMAIN past[s] : past[s][i] = requests[q].used
  BY DEF EditsNoticed
<1>1. \E s \in requests[q].asked..Stamp : Defines(s, requests[q].used)
  BY DEF SeenInv
<1> QED
  BY <1>1 DEF Defines

(***************************************************************************)
(* The session's environment is kept.                                      *)
(***************************************************************************)
(* What a step of a call changes: itself, and what the session remembers.  *)
LEMMA CallChanges ==
  ASSUME ConsoleTypeOK, NEW c \in Calls, CallStep(c)
  PROVE  /\ \A d \in Calls \ {c} : calls'[d] = calls[d]
         /\ calls'[c].pc = "checking" /\ calls'[c].kind = "default" =>
              calls'[c].began = Stamp /\ calls'[c].over.name \notin Defined(File)
<1>1. calls[c] \in SessionCall /\ calls \in [Calls -> SessionCall]
  BY DEF ConsoleTypeOK
<1>2. Stamp \in 1..Stamp /\ Stamp \in Nat \ {0} /\ File \in Contents /\ File = past[Stamp]
  BY PastTyped DEF File
<1>3. ASSUME NEW n, NEW s \in 1..Stamp, Gets(c, n, s)
      PROVE  calls'[c].pc # "checking" /\ \A d \in Calls \ {c} : calls'[d] = calls[d]
  BY <1>3, GetsTyped
<1>4. ASSUME Fails(c)
      PROVE  calls'[c].pc # "checking" /\ \A d \in Calls \ {c} : calls'[d] = calls[d]
  BY <1>1, <1>4 DEF Fails, IdleCall
<1>5. ASSUME NEW f, NEW usable, NEW s \in 1..Stamp, Pick(c, f, usable, s)
      PROVE  calls'[c].pc # "checking" /\ \A d \in Calls \ {c} : calls'[d] = calls[d]
  BY <1>3, <1>4, <1>5 DEF Pick
<1>6. ASSUME Used(c)
      PROVE  calls'[c].pc # "checking" /\ \A d \in Calls \ {c} : calls'[d] = calls[d]
  <2> DEFINE v == [IdleCall EXCEPT !.pc = "start", !.kind = "default"]
  <2>1. v.pc = "start" /\ calls' = [calls EXCEPT ![c] = v]
    BY <1>6 DEF Used, IdleCall
  <2> HIDE DEF v
  <2> QED
    BY <1>1, <2>1
<1>7. CASE TargetNamed(c) \/ TargetChosen(c) \/ TargetOnly(c)
  BY <1>2, <1>3, <1>7 DEF TargetNamed, TargetChosen, TargetOnly
<1>8. CASE TargetKept(c)
  BY <1>2, <1>5, <1>8 DEF TargetKept
<1>9. CASE TargetChecks(c) \/ AlwaysChecks(c)
  <2> DEFINE v == [calls[c] EXCEPT !.pc = "checking", !.began = Stamp, !.over = chosen]
  <2>1. v.kind = calls[c].kind /\ v.began = Stamp /\ v.over = chosen /\ calls' = [calls EXCEPT ![c] = v]
    BY <1>1, <1>9 DEF TargetChecks, AlwaysChecks, Checks, SessionCall
  <2>2. calls[c].kind = "default" => chosen.name \notin Defined(File)
    BY <1>9 DEF TargetChecks, AlwaysChecks, PicksDefault, HasChosen, Starting
  <2> HIDE DEF v
  <2> QED
    BY <1>1, <2>1, <2>2
<1>10. CASE NoTarget(c) \/ Return(c)
  BY <1>4, <1>10 DEF NoTarget, Return
<1>11. CASE CheckEnds(c)
  <2>1. calls[c].began \in 1..Stamp
    BY <1>1, <1>2, <1>11 DEF CheckEnds, ConsoleTypeOK, SessionCall
  <2>2. PICK usable \in Verdicts(past[calls[c].began]) :
          CASE calls[c].kind = "default" -> Pick(c, past[calls[c].began], usable, calls[c].began)
            [] calls[c].kind = "use" /\ calls[c].name \in usable -> Used(c)
            [] OTHER -> Fails(c) /\ UNCHANGED chosen
    BY <1>11 DEF CheckEnds
  <2>3. CASE calls[c].kind = "default"
    <3>1. Pick(c, past[calls[c].began], usable, calls[c].began)
      BY <2>2, <2>3
    <3> QED
      BY <1>5, <2>1, <3>1
  <2>4. CASE calls[c].kind # "default"
    <3>1. Used(c) \/ Fails(c)
      BY <2>2, <2>4
    <3> QED
      BY <1>4, <1>6, <3>1
  <2> QED
    BY <2>3, <2>4
<1> QED
  BY <1>7, <1>8, <1>9, <1>10, <1>11 DEF CallStep

LEMMA DefaultInit == ConsoleInit => DefaultInv
  BY DEF ConsoleInit, DefaultInv, IdleCall

LEMMA DefaultNext ==
  ASSUME ConsoleTypeOK, DefaultInv, [ConsoleNext]_consoleVars
  PROVE  DefaultInv'
<1>1. ASSUME UNCHANGED <<past, calls>> PROVE DefaultInv'
  BY <1>1 DEF DefaultInv
<1>2. CASE UNCHANGED consoleVars
  BY <1>1, <1>2 DEF consoleVars
<1>3. ASSUME NEW f \in Contents, Edit(f) PROVE DefaultInv'
  <2>1. UNCHANGED calls /\ \A s \in 1..Stamp : past'[s] = past[s]
    BY <1>3, PastGrows DEF Edit, session
  <2>2. \A c \in Calls : calls[c].pc = "checking" => calls[c].began \in 1..Stamp
    BY PastTyped DEF ConsoleTypeOK, SessionCall
  <2> QED
    BY <2>1, <2>2 DEF DefaultInv
<1>4. ASSUME NEW q \in Requests, ServiceStep(q) PROVE DefaultInv'
  BY <1>1, <1>4 DEF ServiceStep, Capture, Reply, Recheck, Select, Refuse, Choose, session
<1>5. ASSUME NEW q \in Requests, NEW kind \in RequestKinds, NEW n \in Known \cup {None}, Ask(q, kind, n)
      PROVE  DefaultInv'
  BY <1>1, <1>5 DEF Ask, session
<1>6. CASE FinishCheck
  BY <1>1, <1>6 DEF FinishCheck, session
<1>7. ASSUME NEW c \in Calls, CallStep(c) PROVE DefaultInv'
  <2>1. past' = past
    BY <1>7, SessionSteps
  <2>2. ASSUME NEW d \in Calls, calls'[d].pc = "checking", calls'[d].kind = "default"
        PROVE  calls'[d].over.name \notin Defined(past[calls'[d].began])
    <3>1. CASE d = c
      BY <1>7, <2>2, <3>1, CallChanges DEF File
    <3>2. CASE d # c
      BY <1>7, <2>2, <3>2, CallChanges DEF DefaultInv
    <3> QED
      BY <3>1, <3>2
  <2> QED
    BY <2>1, <2>2 DEF DefaultInv
<1>8. ASSUME NEW c \in Calls, NEW kind \in {"list", "use", "named", "default"},
             NEW n \in Known \cup {None}, Call(c, kind, n)
      PROVE  DefaultInv'
  <2> DEFINE v == [IdleCall EXCEPT !.pc = "start", !.kind = kind, !.name = n]
  <2>1. v.pc = "start" /\ calls' = [calls EXCEPT ![c] = v] /\ past' = past
    BY <1>8 DEF Call, IdleCall
  <2> HIDE DEF v
  <2>2. \A d \in Calls : calls'[d].pc = "checking" => calls'[d] = calls[d]
    BY <2>1 DEF ConsoleTypeOK
  <2> QED
    BY <2>1, <2>2 DEF DefaultInv
<1> QED
  BY <1>2, <1>3, <1>4, <1>5, <1>6, <1>7, <1>8 DEF ConsoleNext

(* A step that replaces an environment chosen with use_environment.        *)
LEMMA SessionStep ==
  ASSUME ConsoleTypeOK, DefaultInv, [ConsoleNext]_consoleVars, chosen.by = "session", chosen' # chosen
  PROVE  \/ chosen'.by = "session"
         \/ chosen.name \notin Defined(File)
         \/ \E c \in Calls : /\ calls[c].pc = "checking" /\ calls[c].kind = "default"
                             /\ calls[c].over # chosen \/ chosen.name \notin Defined(past[calls[c].began])
<1>1. PICK c \in Calls : TargetOnly(c) \/ TargetKept(c) \/ CheckEnds(c)
  BY DEF ConsoleNext, consoleVars, Edit, ServiceStep, Capture, Reply, Recheck, Select, Refuse, Choose, Ask,
         FinishCheck, CallStep, TargetNamed, TargetChosen, TargetChecks, AlwaysChecks, NoTarget, Return, Call,
         session
<1>2. CASE TargetOnly(c) \/ TargetKept(c)
  BY <1>2 DEF TargetOnly, TargetKept, PicksDefault, HasChosen
<1>3. CASE CheckEnds(c)
  <2>1. calls[c].pc = "checking"
    BY <1>3 DEF CheckEnds
  <2>2. CASE calls[c].kind = "default"
    BY <2>1, <2>2 DEF DefaultInv
  <2>3. CASE calls[c].kind # "default"
    <3>1. Used(c)
      BY <1>3, <2>3 DEF CheckEnds
    <3> QED
      BY <3>1 DEF Used
  <2> QED
    BY <2>2, <2>3
<1> QED
  BY <1>1, <1>2, <1>3

(***************************************************************************)
(* The theorems.                                                           *)
(***************************************************************************)
(* Whatever the file held, and however requests, checks, calls and rewrites*)
(* of it interleave: every variable has its type, what is remembered under *)
(* a stamp is of a content the file had, and the environments found usable *)
(* are defined in that content.                                            *)
THEOREM ConsoleTypeCorrect == ConsoleSpec => []ConsoleTypeOK
<1> QED
  BY ConsoleTypeInit, ConsoleTypeNext, PTL DEF ConsoleSpec

(* A request of the console goes where the file said when it arrived or    *)
(* later, unless it arrived while a check ran; however many requests share *)
(* the registry and the client, and however often the file is rewritten.   *)
THEOREM EditsAlwaysNoticed == ConsoleSpec => []EditsNoticed
<1> QED
  BY ConsoleTypeInit, ConsoleTypeNext, SeenInit, SeenNext, SeenIsNoticed, PTL DEF ConsoleSpec

(* The environment chosen last is the one selected whenever no check runs  *)
(* and it is usable.                                                       *)
THEOREM ChoicesHonoured == ConsoleSpec => []ChoiceHonoured
<1>1. ConsoleInit => ChoiceHonoured
  BY DEF ConsoleInit, ChoiceHonoured
<1> QED
  BY <1>1, ConsoleTypeInit, ConsoleTypeNext, ChoiceNext, PTL DEF ConsoleSpec

(* The environment an MCP session chose with use_environment is replaced   *)
(* only by another such choice, when the file no longer defines it, or by  *)
(* a call that was already picking a default for a session without one, or *)
(* from a content that lacked it.                                          *)
THEOREM SessionStaysKept == ConsoleSpec => SessionKept
<1>1. ConsoleTypeOK /\ DefaultInv /\ [ConsoleNext]_consoleVars =>
        [chosen.by = "session" /\ chosen' # chosen =>
           \/ chosen'.by = "session"
           \/ chosen.name \notin Defined(File)
           \/ \E c \in Calls : /\ calls[c].pc = "checking" /\ calls[c].kind = "default"
                               /\ calls[c].over # chosen \/ chosen.name \notin Defined(past[calls[c].began])]_consoleVars
  BY SessionStep
<1> QED
  BY <1>1, ConsoleTypeInit, ConsoleTypeNext, DefaultInit, DefaultNext, PTL DEF ConsoleSpec, SessionKept

(***************************************************************************)
(* Deployment.                                                             *)
(***************************************************************************)
(* The check that lets a plan be applied by an actor from an instant on.   *)
CheckedIn(cs, a, p, t) == \E check \in cs : check.by = a /\ check.of = p /\ t < check.at + TTL

(* What a command in progress has done: a plan is applied after a check;   *)
(* past the migrations the database has all of them; whoever is to fill    *)
(* the digest file has just created it, and whoever stores the secret has  *)
(* read or filled it; the Worker then has one, unless it is another's.     *)
RunInv(a) ==
  LET r == run[a] IN
  /\ r.pc \in {"look", "create", "fill"} => r.after \in {"profile", "put"} /\ r.n > Empty
  /\ r.pc = "inspect" => r.after \in {"receipt", "migrate"} /\ r.plan # NoFile
  /\ r.pc = "receipt" => r.plan # NoFile
  /\ r.pc \in {"migrate", "secrets", "put", "deploy"} => r.after \in {"migrate", "put"}
  /\ r.after \in {"migrate", "put"} => r.plan # NoFile /\ r.n > Empty /\ CheckedIn(checked, a, r.plan, r.at)
  /\ r.pc \in {"secrets", "put", "deploy"} \/ r.after = "put" => account[r.plan.config].schema = "all"
  /\ r.pc = "fill" => digest = Empty
  /\ r.pc = "put" => r.n = digest
  /\ r.pc = "deploy" /\ r.plan.config \notin slipped => account[r.plan.config].secret # NoDigest

(* One command fills the digest file, and before it has no Worker has the  *)
(* secret.                                                                 *)
DigestInv ==
  /\ \A a, b \in Actors : run[a].pc = "fill" /\ run[b].pc = "fill" => a = b
  /\ digest \in {NoDigest, Empty} => \A c \in Configs : account[c].secret = NoDigest

ReceiptInv ==
  receipt # NoFile =>
    \E check \in checked :
      check.by = receipt.actor /\ check.of = receipt.of /\ receipt.expires = check.at + TTL

DeploymentInv ==
  DeploymentTypeOK /\ (\A a \in Actors : RunInv(a)) /\ DigestInv /\ ReceiptInv /\ DeployedIsComplete

LEMMA DeploymentBoundsAreNat == TTL \in Nat /\ MaxTime \in Nat /\ MaxRuns \in Nat /\ MaxFaults \in Nat
BY DeploymentBounds

LEMMA DeploymentStarts == DeploymentInit => DeploymentInv
<1> SUFFICES ASSUME DeploymentInit PROVE DeploymentInv
  OBVIOUS
<1>1. Resting \in Runs
  BY DEF Resting, Runs, RunStates, PlanFiles, ProfileFiles
<1>2. DeploymentTypeOK
  BY <1>1, DeploymentBounds DEF DeploymentInit, DeploymentTypeOK, ProfileFiles, PlanFiles, NoDigest
<1>3. \A a \in Actors : RunInv(a)
  BY DEF DeploymentInit, RunInv, Resting
<1> QED BY <1>2, <1>3 DEF DeploymentInit, DeploymentInv, DigestInv, ReceiptInv, DeployedIsComplete, Resting

(* A command is not disturbed by what keeps it, its check, its database    *)
(* and the digest it holds.                                                *)
LEMMA RunStays ==
  ASSUME DeploymentTypeOK, NEW a \in Actors, RunInv(a), run'[a] = run[a],
         checked \subseteq checked', slipped \subseteq slipped',
         \A c \in Configs : /\ account[c].schema = "all" => account'[c].schema = "all"
                            /\ account[c].secret # NoDigest => account'[c].secret # NoDigest,
         digest > Empty => digest' = digest,
         run[a].pc = "fill" => digest' = digest
  PROVE  RunInv(a)'
<1>1. run[a] \in Runs
  BY DEF DeploymentTypeOK
<1>2. CheckedIn(checked, a, run[a].plan, run[a].at) => CheckedIn(checked', a, run[a].plan, run[a].at)
  BY DEF CheckedIn
<1>3. run[a].plan # NoFile => run[a].plan.config \in Configs
  BY <1>1 DEF Runs, PlanFiles
<1>4. run[a].pc = "put" => run[a].n > Empty /\ run[a].n = digest
  BY DEF RunInv
<1> QED BY <1>2, <1>3, <1>4 DEF RunInv

(* A step of one command leaves the others as they are.                    *)
LEMMA OthersRest ==
  ASSUME DeploymentTypeOK, NEW a \in Actors, NEW b \in Actors, a # b,
         NEW r, run' = [run EXCEPT ![a] = r]
  PROVE  run'[b] = run[b]
BY DEF DeploymentTypeOK

(* Most steps leave the digest file, databases and Workers alone.          *)
LEMMA NothingDeployed ==
  ASSUME DeploymentInv, UNCHANGED <<digest, account>>, checked \subseteq checked', slipped \subseteq slipped',
         DeploymentTypeOK', ReceiptInv',
         \A b \in Actors : run'[b] = run[b] \/ (RunInv(b)' /\ run'[b].pc # "fill")
  PROVE  DeploymentInv'
<1>1. \A b \in Actors : RunInv(b)'
  BY RunStays DEF DeploymentInv
<1>2. DigestInv'
  BY DEF DeploymentInv, DigestInv
<1>3. DeployedIsComplete'
  BY DEF DeploymentInv, DeployedIsComplete
<1> QED BY <1>1, <1>2, <1>3 DEF DeploymentInv

(* A command that starts, goes on or ends.                                 *)
LEMMA RunTyped ==
  ASSUME DeploymentTypeOK, NEW a \in Actors, NEW r \in Runs, run' = [run EXCEPT ![a] = r]
  PROVE  run' \in [Actors -> Runs] /\ run'[a] = r
BY DEF DeploymentTypeOK

LEMMA EndsWell ==
  ASSUME DeploymentTypeOK, NEW a \in Actors, End(a)
  PROVE  run' \in [Actors -> Runs] /\ RunInv(a)' /\ run'[a].pc = "resting"
<1>1. Resting \in Runs
  BY DEF Resting, Runs, RunStates, PlanFiles, ProfileFiles
<1>2. run' \in [Actors -> Runs] /\ run'[a] = Resting
  BY <1>1 DEF End, DeploymentTypeOK
<1> QED BY <1>2 DEF Resting, RunInv

LEMMA StepsWell ==
  ASSUME DeploymentTypeOK, NEW a \in Actors, NEW pc \in RunStates, Step(a, pc)
  PROVE  /\ run' \in [Actors -> Runs]
         /\ run'[a] = [run[a] EXCEPT !.pc = pc]
         /\ run[a] \in Runs
BY DEF Step, DeploymentTypeOK, Runs

LEMMA CountTyped ==
  ASSUME DeploymentTypeOK, NEW n \in Nat, Count(n) PROVE faults' \in 0..MaxFaults
BY DeploymentBoundsAreNat DEF Count, DeploymentTypeOK

LEMMA BegunTyped == DeploymentTypeOK /\ Begun => begun' \in Nat \ {0} /\ begun' > Empty
BY DEF Begun, DeploymentTypeOK, Empty

LEMMA ConfigureKeeps ==
  ASSUME DeploymentInv, NEW a \in Actors, NEW p \in Profiles, NEW replace \in BOOLEAN, Configure(a, p, replace)
  PROVE  DeploymentInv'
<1> DEFINE r == [Resting EXCEPT !.pc = "look", !.after = "profile", !.n = begun', !.new = [id |-> p], !.replace = replace]
<1>1. begun' \in Nat \ {0} /\ begun' > Empty
  BY BegunTyped DEF Configure, DeploymentInv
<1>2. r \in Runs
  BY <1>1 DEF Resting, Runs, RunStates, PlanFiles, ProfileFiles
<1>3. run' \in [Actors -> Runs] /\ run'[a] = r
  BY <1>2, RunTyped DEF Configure, DeploymentInv
<1>4. RunInv(a)' /\ run'[a].pc # "fill"
  BY <1>1, <1>3 DEF RunInv, Resting
<1>5. DeploymentTypeOK'
  BY <1>1, <1>3 DEF DeploymentInv, DeploymentTypeOK, Configure, files
<1>6. ReceiptInv'
  BY DEF DeploymentInv, ReceiptInv, Configure, files
<1>7. \A b \in Actors : b # a => run'[b] = run[b]
  BY OthersRest DEF DeploymentInv, Configure
<1> QED BY <1>4, <1>5, <1>6, <1>7, NothingDeployed DEF Configure

LEMMA LookKeeps ==
  ASSUME DeploymentInv, NEW a \in Actors, Look(a) PROVE DeploymentInv'
<1>1. run' \in [Actors -> Runs] /\ RunInv(a)' /\ run'[a].pc # "fill"
  <2>1. CASE digest = NoDigest
    <3>1. Step(a, "create") /\ UNCHANGED <<digest, account, checked, slipped>>
      BY <2>1 DEF Look, files, NoDigest, Empty
    <3>2. run' \in [Actors -> Runs] /\ run'[a] = [run[a] EXCEPT !.pc = "create"] /\ run[a] \in Runs
      BY <3>1, StepsWell DEF DeploymentInv, RunStates
    <3> QED BY <3>1, <3>2 DEF RunInv, DeploymentInv, Runs, Look
  <2>2. CASE digest = Empty
    BY <2>2, EndsWell DEF Look, DeploymentInv, NoDigest, Empty
  <2>3. CASE digest \notin {NoDigest, Empty}
    <3>1. /\ run' = [run EXCEPT ![a] = [run[a] EXCEPT !.pc = run[a].after, !.n = digest]]
          /\ UNCHANGED <<digest, account, checked, slipped>>
      BY <2>3 DEF Look, files
    <3>2a. digest > Empty
      <4>1. digest \in Nat /\ digest # 0 /\ digest # 1
        BY <2>3 DEF DeploymentInv, DeploymentTypeOK, NoDigest, Empty
      <4> QED BY <4>1 DEF Empty
    <3>2. run[a] \in Runs /\ run[a].after \in {"profile", "put"} /\ digest \in Nat /\ digest > Empty
      BY <3>2a DEF DeploymentInv, DeploymentTypeOK, RunInv, Look
    <3>3. [run[a] EXCEPT !.pc = run[a].after, !.n = digest] \in Runs
      BY <3>2 DEF Runs, RunStates
    <3>4. run' \in [Actors -> Runs] /\ run'[a] = [run[a] EXCEPT !.pc = run[a].after, !.n = digest]
      BY <3>1, <3>3, RunTyped DEF DeploymentInv
    <3> QED BY <3>1, <3>2, <3>4 DEF RunInv, DeploymentInv, Runs, Look
  <2> QED BY <2>1, <2>2, <2>3
<1>2. DeploymentTypeOK'
  BY <1>1 DEF DeploymentInv, DeploymentTypeOK, Look, files, clock
<1>3. ReceiptInv'
  BY DEF DeploymentInv, ReceiptInv, Look, files
<1>4. \A b \in Actors : b # a => run'[b] = run[b]
  BY OthersRest DEF DeploymentInv, Look, Step, End, DeploymentTypeOK
<1> QED BY <1>1, <1>2, <1>3, <1>4, NothingDeployed DEF Look

LEMMA WriteProfileKeeps ==
  ASSUME DeploymentInv, NEW a \in Actors, WriteProfile(a) PROVE DeploymentInv'
<1>1. run' \in [Actors -> Runs] /\ RunInv(a)' /\ run'[a].pc # "fill"
  BY EndsWell DEF WriteProfile, DeploymentInv
<1>2. profile' \in ProfileFiles
  BY DEF WriteProfile, DeploymentInv, DeploymentTypeOK, Runs
<1>3. DeploymentTypeOK'
  BY <1>1, <1>2 DEF DeploymentInv, DeploymentTypeOK, WriteProfile, clock
<1>4. ReceiptInv'
  BY DEF DeploymentInv, ReceiptInv, WriteProfile
<1>5. \A b \in Actors : b # a => run'[b] = run[b]
  BY OthersRest DEF DeploymentInv, WriteProfile, End
<1> QED BY <1>1, <1>3, <1>4, <1>5, NothingDeployed DEF WriteProfile

LEMMA CheckKeepsDeployment ==
  ASSUME DeploymentInv, NEW a \in Actors, NEW replace \in BOOLEAN, Check(a, replace)
  PROVE  DeploymentInv'
<1> DEFINE r == [Resting EXCEPT !.pc = "inspect", !.after = "receipt", !.plan = plan, !.replace = replace]
<1>1. begun' \in Nat \ {0} /\ plan # NoFile
  BY BegunTyped DEF Check, DeploymentInv, Current
<1>2. r \in Runs
  BY <1>1 DEF DeploymentInv, DeploymentTypeOK, Resting, Runs, RunStates, ProfileFiles
<1>3. run' \in [Actors -> Runs] /\ run'[a] = r
  BY <1>2, RunTyped DEF Check, DeploymentInv
<1>4. RunInv(a)' /\ run'[a].pc # "fill"
  BY <1>1, <1>3 DEF RunInv, Resting
<1>5. DeploymentTypeOK'
  BY <1>1, <1>3 DEF DeploymentInv, DeploymentTypeOK, Check, files
<1>6. ReceiptInv'
  BY DEF DeploymentInv, ReceiptInv, Check, files
<1>7. \A b \in Actors : b # a => run'[b] = run[b]
  BY OthersRest DEF DeploymentInv, Check
<1> QED BY <1>4, <1>5, <1>6, <1>7, NothingDeployed DEF Check

LEMMA ApplyKeeps ==
  ASSUME DeploymentInv, NEW a \in Actors, Apply(a) PROVE DeploymentInv'
<1> DEFINE r == [Resting EXCEPT !.pc = "inspect", !.after = "migrate", !.n = begun', !.plan = plan, !.at = now]
<1>1. begun' \in Nat \ {0} /\ begun' > Empty /\ plan # NoFile
  BY BegunTyped DEF Apply, DeploymentInv, Current
<1>2. r \in Runs
  BY <1>1 DEF DeploymentInv, DeploymentTypeOK, Resting, Runs, RunStates, ProfileFiles
<1>3. run' \in [Actors -> Runs] /\ run'[a] = r
  BY <1>2, RunTyped DEF Apply, DeploymentInv
<1>4. CheckedIn(checked', a, plan, now)
  BY DEF CheckedIn, Apply, Valid, DeploymentInv, ReceiptInv
<1>5. RunInv(a)' /\ run'[a].pc # "fill"
  BY <1>1, <1>3, <1>4 DEF RunInv, Resting
<1>6. DeploymentTypeOK'
  BY <1>1, <1>3 DEF DeploymentInv, DeploymentTypeOK, Apply, files
<1>7. ReceiptInv'
  BY DEF DeploymentInv, ReceiptInv, Apply, files
<1>8. \A b \in Actors : b # a => run'[b] = run[b]
  BY OthersRest DEF DeploymentInv, Apply
<1> QED BY <1>5, <1>6, <1>7, <1>8, NothingDeployed DEF Apply

LEMMA InspectKeeps ==
  ASSUME DeploymentInv, NEW a \in Actors, NEW answered \in BOOLEAN, Inspect(a, answered)
  PROVE  DeploymentInv'
<1>1. run' \in [Actors -> Runs] /\ RunInv(a)' /\ run'[a].pc # "fill"
  <2>1. CASE End(a)
    BY <2>1, EndsWell DEF DeploymentInv
  <2>2. CASE Step(a, run[a].after)
    <3>1. run[a].after \in {"receipt", "migrate"}
      BY DEF Inspect, DeploymentInv, RunInv
    <3>2. run' \in [Actors -> Runs] /\ run'[a] = [run[a] EXCEPT !.pc = run[a].after] /\ run[a] \in Runs
      BY <2>2, <3>1, StepsWell DEF DeploymentInv, RunStates
    <3> QED BY <3>1, <3>2 DEF RunInv, DeploymentInv, Runs, Inspect
  <2> QED BY <2>1, <2>2 DEF Inspect
<1>2. faults' \in 0..MaxFaults
  BY CountTyped DEF Inspect, DeploymentInv
<1>3. DeploymentTypeOK'
  BY <1>1, <1>2 DEF DeploymentInv, DeploymentTypeOK, Inspect, files, clock
<1>4. ReceiptInv'
  BY DEF DeploymentInv, ReceiptInv, Inspect, files
<1>5. \A b \in Actors : b # a => run'[b] = run[b]
  BY OthersRest DEF DeploymentInv, Inspect, Step, End, DeploymentTypeOK
<1> QED BY <1>1, <1>3, <1>4, <1>5, NothingDeployed DEF Inspect

LEMMA WriteReceiptKeeps ==
  ASSUME DeploymentInv, NEW a \in Actors, WriteReceipt(a) PROVE DeploymentInv'
<1>1. run' \in [Actors -> Runs] /\ RunInv(a)' /\ run'[a].pc # "fill"
  BY EndsWell DEF WriteReceipt, DeploymentInv
<1>2. run[a].plan \in PlanFiles /\ now \in Nat /\ now + TTL \in Nat
  BY DeploymentBoundsAreNat DEF DeploymentInv, DeploymentTypeOK, Runs
<1>3. /\ receipt' \in [of : PlanFiles, actor : Actors, expires : Nat] \cup {NoFile}
      /\ checked' \subseteq [by : Actors, of : PlanFiles, at : Nat] /\ checked \subseteq checked'
  BY <1>2 DEF WriteReceipt, DeploymentInv, DeploymentTypeOK
<1>4. DeploymentTypeOK'
  BY <1>1, <1>3 DEF DeploymentInv, DeploymentTypeOK, WriteReceipt, clock
<1>5. ReceiptInv'
  <2> DEFINE check == [by |-> a, of |-> run[a].plan, at |-> now]
  <2>1. CASE Saves(receipt, run[a].replace)
    <3>1. receipt' = [of |-> run[a].plan, actor |-> a, expires |-> now + TTL] /\ check \in checked'
      BY <2>1 DEF WriteReceipt
    <3>2. check.by = receipt'.actor /\ check.of = receipt'.of /\ receipt'.expires = check.at + TTL
      BY <3>1
    <3> QED BY <3>1, <3>2 DEF ReceiptInv
  <2>2. CASE ~Saves(receipt, run[a].replace)
    BY <2>2 DEF DeploymentInv, ReceiptInv, WriteReceipt
  <2> QED BY <2>1, <2>2
<1>6. \A b \in Actors : b # a => run'[b] = run[b]
  BY OthersRest DEF DeploymentInv, WriteReceipt, End
<1> QED BY <1>1, <1>3, <1>4, <1>5, <1>6, NothingDeployed DEF WriteReceipt

LEMMA CutOffKeeps ==
  ASSUME DeploymentInv, NEW a \in Actors, CutOff(a) PROVE DeploymentInv'
<1>1. run' \in [Actors -> Runs] /\ RunInv(a)' /\ run'[a].pc # "fill"
  BY EndsWell DEF CutOff, DeploymentInv
<1>2. faults' \in 0..MaxFaults
  BY CountTyped DEF CutOff, DeploymentInv
<1>3. DeploymentTypeOK'
  BY <1>1, <1>2 DEF DeploymentInv, DeploymentTypeOK, CutOff, files, clock
<1>4. ReceiptInv'
  BY DEF DeploymentInv, ReceiptInv, CutOff, files
<1>5. \A b \in Actors : b # a => run'[b] = run[b]
  BY OthersRest DEF DeploymentInv, CutOff, End
<1> QED BY <1>1, <1>3, <1>4, <1>5, NothingDeployed DEF CutOff

LEMMA SecretsListedKeeps ==
  ASSUME DeploymentInv, NEW a \in Actors, NEW answered \in BOOLEAN, SecretsListed(a, answered)
  PROVE  DeploymentInv'
<1>0. /\ run[a] \in Runs /\ run[a].plan # NoFile /\ run[a].plan.config \in Configs /\ config \in Configs
      /\ account[run[a].plan.config].schema = "all" /\ run[a].after \in {"migrate", "put"} /\ run[a].n > Empty
      /\ CheckedIn(checked, a, run[a].plan, run[a].at)
  BY DEF SecretsListed, DeploymentInv, DeploymentTypeOK, RunInv, Runs, PlanFiles
<1>1. run' \in [Actors -> Runs] /\ RunInv(a)' /\ run'[a].pc # "fill"
  <2>1. CASE ~answered
    BY <2>1, EndsWell DEF SecretsListed, DeploymentInv
  <2>2. CASE answered /\ account[config].secret # NoDigest
    <3>1. run' \in [Actors -> Runs] /\ run'[a] = [run[a] EXCEPT !.pc = "deploy"]
      BY <2>2, StepsWell DEF SecretsListed, DeploymentInv, RunStates
    <3>2. run[a].plan.config \notin slipped' => run[a].plan.config = config
      BY DEF SecretsListed, Reaches
    <3> QED BY <1>0, <2>2, <3>1, <3>2 DEF RunInv, Runs, SecretsListed
  <2>3. CASE answered /\ account[config].secret = NoDigest
    <3>1. run' = [run EXCEPT ![a] = [run[a] EXCEPT !.pc = "look", !.after = "put"]]
      BY <2>3 DEF SecretsListed
    <3>2. [run[a] EXCEPT !.pc = "look", !.after = "put"] \in Runs
      BY <1>0 DEF Runs, RunStates
    <3>3. run' \in [Actors -> Runs] /\ run'[a] = [run[a] EXCEPT !.pc = "look", !.after = "put"]
      BY <3>1, <3>2, RunTyped DEF DeploymentInv
    <3> QED BY <1>0, <3>3 DEF RunInv, Runs, SecretsListed
  <2> QED BY <2>1, <2>2, <2>3
<1>2. faults' \in 0..MaxFaults /\ slipped' \subseteq Configs /\ slipped \subseteq slipped'
  BY <1>0, CountTyped DEF SecretsListed, DeploymentInv, Reaches, DeploymentTypeOK
<1>3. DeploymentTypeOK'
  BY <1>1, <1>2 DEF DeploymentInv, DeploymentTypeOK, SecretsListed, files, clock
<1>4. ReceiptInv'
  BY DEF DeploymentInv, ReceiptInv, SecretsListed, files
<1>5. \A b \in Actors : b # a => run'[b] = run[b]
  BY OthersRest DEF DeploymentInv, SecretsListed, Step, End, DeploymentTypeOK
<1> QED BY <1>1, <1>2, <1>3, <1>4, <1>5, NothingDeployed DEF SecretsListed

(* What people do between commands.                                        *)
LEMMA PlanKeeps ==
  ASSUME DeploymentInv, NEW a \in Actors, NEW replace \in BOOLEAN, Plan(a, replace)
  PROVE  DeploymentInv'
<1>1. begun' \in Nat \ {0}
  BY BegunTyped DEF Plan, DeploymentInv
<1>2. plan' \in PlanFiles
  BY <1>1 DEF Plan, PlanFiles, DeploymentInv, DeploymentTypeOK
<1>3. DeploymentTypeOK'
  BY <1>1, <1>2 DEF DeploymentInv, DeploymentTypeOK, Plan
<1>4. ReceiptInv'
  BY DEF DeploymentInv, ReceiptInv, Plan
<1> QED BY <1>3, <1>4, NothingDeployed DEF Plan

LEMMA EditConfigKeeps == ASSUME DeploymentInv, EditConfig PROVE DeploymentInv'
<1>1. begun' \in Nat \ {0}
  BY BegunTyped DEF EditConfig, DeploymentInv
<1>2. DeploymentTypeOK'
  BY <1>1 DEF DeploymentInv, DeploymentTypeOK, EditConfig
<1>3. ReceiptInv'
  BY DEF DeploymentInv, ReceiptInv, EditConfig
<1> QED BY <1>2, <1>3, NothingDeployed DEF EditConfig

LEMMA DeploymentTickKeeps == ASSUME DeploymentInv, Tick PROVE DeploymentInv'
<1>1. DeploymentTypeOK'
  BY DEF DeploymentInv, DeploymentTypeOK, Tick, files
<1>2. ReceiptInv'
  BY DEF DeploymentInv, ReceiptInv, Tick, files
<1> QED BY <1>1, <1>2, NothingDeployed DEF Tick

(* Exclusive creation lets one command fill the file.                      *)
LEMMA CreateFileKeeps ==
  ASSUME DeploymentInv, NEW a \in Actors, CreateFile(a) PROVE DeploymentInv'
<1>1. CASE ~MayCreate
  <2>1. End(a) /\ UNCHANGED <<files, digest, account, clock, faults, checked, slipped>>
    BY <1>1 DEF CreateFile
  <2>2. run' \in [Actors -> Runs] /\ RunInv(a)' /\ run'[a].pc # "fill"
    BY <2>1, EndsWell DEF DeploymentInv
  <2>3. DeploymentTypeOK' /\ ReceiptInv'
    BY <2>1, <2>2 DEF DeploymentInv, DeploymentTypeOK, ReceiptInv, files, clock
  <2>4. \A b \in Actors : b # a => run'[b] = run[b]
    BY <2>1, OthersRest DEF DeploymentInv, End
  <2> QED BY <2>1, <2>2, <2>3, <2>4, NothingDeployed
<1>2. CASE MayCreate
  <2>1. digest = NoDigest /\ digest' = Empty /\ Step(a, "fill")
        /\ UNCHANGED <<files, account, clock, faults, checked, slipped>>
    BY <1>2 DEF CreateFile, MayCreate
  <2>2. run' \in [Actors -> Runs] /\ run'[a] = [run[a] EXCEPT !.pc = "fill"] /\ run[a] \in Runs
    BY <2>1, StepsWell DEF DeploymentInv, RunStates
  <2>3. \A b \in Actors : b # a => run'[b] = run[b]
    BY <2>1, OthersRest DEF DeploymentInv, Step, DeploymentTypeOK
  <2>4. \A b \in Actors : run[b].pc # "fill"
    BY <2>1 DEF DeploymentInv, RunInv, NoDigest, Empty
  <2>5. RunInv(a)'
    BY <2>1, <2>2 DEF DeploymentInv, RunInv, CreateFile, Runs
  <2>6. \A b \in Actors : RunInv(b)'
    <3> TAKE b \in Actors
    <3>1. CASE b = a
      BY <2>5, <3>1
    <3>2. CASE b # a
      BY <2>1, <2>3, <2>4, <3>2, RunStays DEF DeploymentInv, NoDigest, Empty
    <3> QED BY <3>1, <3>2
  <2>7. DeploymentTypeOK' /\ ReceiptInv'
    BY <2>1, <2>2 DEF DeploymentInv, DeploymentTypeOK, ReceiptInv, files, clock, Empty
  <2>8. \A c \in Configs : account[c].secret = NoDigest
    BY <2>1 DEF DeploymentInv, DigestInv
  <2>9. DigestInv'
    BY <2>1, <2>3, <2>4, <2>8 DEF DigestInv
  <2>10. DeployedIsComplete'
    BY <2>1, <2>8 DEF DeploymentInv, DeployedIsComplete
  <2> QED BY <2>6, <2>7, <2>9, <2>10 DEF DeploymentInv
<1> QED BY <1>1, <1>2

LEMMA FillFileKeeps ==
  ASSUME DeploymentInv, NEW a \in Actors, FillFile(a) PROVE DeploymentInv'
<1>1. /\ run[a] \in Runs /\ run[a].after \in {"profile", "put"} /\ run[a].n > Empty /\ run[a].n \in Nat
      /\ digest = Empty /\ digest' = run[a].n
      /\ UNCHANGED <<files, account, clock, faults, checked, slipped>>
  BY DEF FillFile, DeploymentInv, DeploymentTypeOK, RunInv, Runs
<1>2. run' \in [Actors -> Runs] /\ run'[a] = [run[a] EXCEPT !.pc = run[a].after]
  BY <1>1, StepsWell DEF FillFile, DeploymentInv, RunStates
<1>3. \A b \in Actors : b # a => run'[b] = run[b] /\ run[b].pc # "fill"
  BY OthersRest DEF DeploymentInv, FillFile, Step, DeploymentTypeOK, DigestInv
<1>4. RunInv(a)'
  BY <1>1, <1>2 DEF DeploymentInv, RunInv, FillFile, Runs
<1>5. \A b \in Actors : RunInv(b)'
  <2> TAKE b \in Actors
  <2>1. CASE b = a
    BY <1>4, <2>1
  <2>2. CASE b # a
    BY <1>1, <1>3, <2>2, RunStays DEF DeploymentInv, Empty
  <2> QED BY <2>1, <2>2
<1>6. DeploymentTypeOK' /\ ReceiptInv'
  BY <1>1, <1>2 DEF DeploymentInv, DeploymentTypeOK, ReceiptInv, files, clock
<1>7. \A c \in Configs : account[c].secret = NoDigest
  BY <1>1 DEF DeploymentInv, DigestInv
<1>8. DigestInv'
  BY <1>1, <1>2, <1>3, <1>7 DEF DigestInv
<1>9. DeployedIsComplete'
  BY <1>1, <1>7 DEF DeploymentInv, DeployedIsComplete
<1> QED BY <1>5, <1>6, <1>8, <1>9 DEF DeploymentInv

(* Migrations leave a database with all of them, or one that was not       *)
(* complete with a part.                                                   *)
LEMMA MigrateKeeps ==
  ASSUME DeploymentInv, NEW a \in Actors, NEW ending \in Endings, Migrate(a, ending)
  PROVE  DeploymentInv'
<1> DEFINE c == run[a].plan.config
<1>1. /\ run[a] \in Runs /\ run[a].plan # NoFile /\ c \in Configs /\ run[a].after \in {"migrate", "put"}
      /\ run[a].n > Empty /\ CheckedIn(checked, a, run[a].plan, run[a].at)
  BY DEF Migrate, DeploymentInv, DeploymentTypeOK, RunInv, Runs, PlanFiles
<1>2. PICK schema \in {"none", "part", "all"} :
        /\ account' = [account EXCEPT ![c].schema = schema]
        /\ ending = "ok" => schema = "all"
        /\ account[c].schema = "all" => schema = "all"
  <2>1. account[c].schema \in {"none", "part", "all"}
    BY <1>1 DEF DeploymentInv, DeploymentTypeOK
  <2> QED BY <2>1 DEF Migrate, Fresh
<1>3. /\ account' \in [Configs -> [schema : {"none", "part", "all"}, secret : Nat, deployed : BOOLEAN]]
      /\ account'[c].schema = schema
      /\ \A d \in Configs : /\ account'[d].secret = account[d].secret /\ account'[d].deployed = account[d].deployed
                            /\ account[d].schema = "all" => account'[d].schema = "all"
  BY <1>1, <1>2 DEF DeploymentInv, DeploymentTypeOK
<1>4. run' \in [Actors -> Runs] /\ RunInv(a)' /\ run'[a].pc # "fill"
  <2>1. CASE ending # "ok"
    BY <2>1, EndsWell DEF Migrate, DeploymentInv
  <2>2. CASE ending = "ok"
    <3>1. run' \in [Actors -> Runs] /\ run'[a] = [run[a] EXCEPT !.pc = "secrets"]
      BY <2>2, StepsWell DEF Migrate, DeploymentInv, RunStates
    <3> QED BY <1>1, <1>2, <1>3, <2>2, <3>1 DEF RunInv, Runs, Migrate
  <2> QED BY <2>1, <2>2
<1>5. \A b \in Actors : b # a => run'[b] = run[b]
  BY OthersRest DEF DeploymentInv, Migrate, Step, End, DeploymentTypeOK
<1>6. \A b \in Actors : RunInv(b)'
  <2> TAKE b \in Actors
  <2>1. CASE b = a
    BY <1>4, <2>1
  <2>2. CASE b # a
    BY <1>3, <1>5, <2>2, RunStays DEF DeploymentInv, Migrate
  <2> QED BY <2>1, <2>2
<1>7. faults' \in 0..MaxFaults
  BY CountTyped DEF Migrate, DeploymentInv
<1>8. DeploymentTypeOK' /\ ReceiptInv'
  BY <1>3, <1>4, <1>7 DEF DeploymentInv, DeploymentTypeOK, ReceiptInv, Migrate, files, clock
<1>9. DigestInv'
  BY <1>3, <1>4, <1>5 DEF DeploymentInv, DigestInv, Migrate
<1>10. DeployedIsComplete'
  BY <1>3 DEF DeploymentInv, DeployedIsComplete, Migrate
<1> QED BY <1>6, <1>8, <1>9, <1>10 DEF DeploymentInv

(* A call about the Worker that leaves its database as it is, and its      *)
(* secret or the digest file's.                                            *)
LEMMA WorkerChanges ==
  ASSUME DeploymentInv, NEW a \in Actors, NEW ending \in Endings,
         NEW done \in [schema : {"none", "part", "all"}, secret : Nat, deployed : BOOLEAN],
         ChangeWorker(a, ending, done),
         done.schema = account[config].schema,
         account[config].secret # NoDigest => done.secret # NoDigest,
         done.secret \in {account[config].secret, digest},
         digest \in {NoDigest, Empty} => done.secret = NoDigest,
         done.deployed /\ config \notin slipped' => done.schema = "all" /\ done.secret # NoDigest,
         run[a].plan # NoFile, run' \in [Actors -> Runs], RunInv(a)', run'[a].pc # "fill",
         \A b \in Actors : b # a => run'[b] = run[b]
  PROVE  DeploymentInv'
<1>0. config \in Configs
  BY DEF DeploymentInv, DeploymentTypeOK
<1>1. /\ account' \in [Configs -> [schema : {"none", "part", "all"}, secret : Nat, deployed : BOOLEAN]]
      /\ account'[config] \in {account[config], done}
      /\ \A d \in Configs : d # config => account'[d] = account[d]
  BY <1>0 DEF ChangeWorker, DeploymentInv, DeploymentTypeOK
<1>2. faults' \in 0..MaxFaults
  BY CountTyped DEF ChangeWorker, DeploymentInv
<1>3. /\ slipped \subseteq slipped' /\ slipped' \subseteq Configs
      /\ UNCHANGED <<files, digest, clock, checked>>
  <2>1. run[a].plan.config \in Configs
    BY DEF DeploymentInv, DeploymentTypeOK, Runs, PlanFiles
  <2> QED BY <1>0, <2>1 DEF ChangeWorker, Reaches, DeploymentInv, DeploymentTypeOK
<1>4. \A b \in Actors : RunInv(b)'
  <2> TAKE b \in Actors
  <2>1. CASE b = a
    BY <2>1
  <2>2. CASE b # a
    BY <1>1, <1>3, <2>2, RunStays DEF DeploymentInv
  <2> QED BY <2>1, <2>2
<1>5. DeploymentTypeOK' /\ ReceiptInv'
  BY <1>1, <1>2, <1>3 DEF DeploymentInv, DeploymentTypeOK, ReceiptInv, files, clock
<1>6. DigestInv'
  BY <1>1, <1>3 DEF DeploymentInv, DigestInv
<1>7. DeployedIsComplete'
  BY <1>1, <1>3 DEF DeploymentInv, DeployedIsComplete
<1> QED BY <1>4, <1>5, <1>6, <1>7 DEF DeploymentInv

LEMMA PutSecretKeeps ==
  ASSUME DeploymentInv, NEW a \in Actors, NEW ending \in Endings, PutSecret(a, ending)
  PROVE  DeploymentInv'
<1> DEFINE done == [account[config] EXCEPT !.secret = run[a].n]
<1>1. /\ run[a] \in Runs /\ run[a].plan # NoFile /\ run[a].plan.config \in Configs /\ run[a].after \in {"migrate", "put"}
      /\ run[a].n > Empty /\ run[a].n \in Nat /\ run[a].n = digest /\ CheckedIn(checked, a, run[a].plan, run[a].at)
      /\ account[run[a].plan.config].schema = "all"
  BY DEF PutSecret, DeploymentInv, DeploymentTypeOK, RunInv, Runs, PlanFiles
<1>2. config \in Configs /\ account[config] \in [schema : {"none", "part", "all"}, secret : Nat, deployed : BOOLEAN]
  BY DEF DeploymentInv, DeploymentTypeOK
<1>3. /\ done \in [schema : {"none", "part", "all"}, secret : Nat, deployed : BOOLEAN]
      /\ done.schema = account[config].schema /\ done.secret = digest /\ done.secret \notin {NoDigest, Empty}
  BY <1>1, <1>2 DEF NoDigest, Empty
<1>4. ChangeWorker(a, ending, done) /\ (config \notin slipped' => config = run[a].plan.config)
  BY DEF PutSecret, ChangeWorker, Reaches
<1>5. run' \in [Actors -> Runs] /\ RunInv(a)' /\ run'[a].pc # "fill"
  <2>1. CASE ending # "ok"
    BY <2>1, EndsWell DEF PutSecret, DeploymentInv
  <2>2. CASE ending = "ok"
    <3>1. run' \in [Actors -> Runs] /\ run'[a] = [run[a] EXCEPT !.pc = "deploy"]
      BY <2>2, StepsWell DEF PutSecret, DeploymentInv, RunStates
    <3>2. account' = [account EXCEPT ![config] = done] /\ UNCHANGED <<digest, checked>>
      BY <2>2 DEF PutSecret, ChangeWorker
    <3>3. account'[config] = done /\ account'[run[a].plan.config].schema = "all"
      BY <1>1, <1>2, <1>3, <3>2 DEF DeploymentInv, DeploymentTypeOK
    <3>4. run[a].plan.config \notin slipped' => account'[run[a].plan.config].secret # NoDigest
      <4>1. run[a].plan.config \notin slipped' => config = run[a].plan.config
        BY DEF PutSecret, ChangeWorker, Reaches
      <4> QED BY <1>3, <3>3, <4>1
    <3>5. /\ run'[a].pc = "deploy" /\ run'[a].after \in {"migrate", "put"} /\ run'[a].plan = run[a].plan
          /\ run'[a].n = run[a].n /\ run'[a].at = run[a].at
      BY <1>1, <3>1 DEF Runs
    <3>6. CheckedIn(checked', a, run'[a].plan, run'[a].at)
      BY <1>1, <3>2, <3>5
    <3>7. run'[a].plan # NoFile /\ run'[a].n > Empty /\ account'[run'[a].plan.config].schema = "all"
      BY <1>1, <3>3, <3>5
    <3>8. run'[a].plan.config \notin slipped' => account'[run'[a].plan.config].secret # NoDigest
      BY <3>4, <3>5
    <3> QED BY <3>1, <3>5, <3>6, <3>7, <3>8 DEF RunInv
  <2> QED BY <2>1, <2>2
<1>6. \A b \in Actors : b # a => run'[b] = run[b]
  BY OthersRest DEF DeploymentInv, PutSecret, Step, End, DeploymentTypeOK
<1>7. done.deployed /\ config \notin slipped' => done.schema = "all" /\ done.secret # NoDigest
  BY <1>1, <1>3, <1>4
<1>8. digest \notin {NoDigest, Empty}
  BY <1>1 DEF NoDigest, Empty
<1> HIDE DEF done
<1> QED BY <1>1, <1>3, <1>4, <1>5, <1>6, <1>7, <1>8, WorkerChanges

LEMMA DeployWorkerKeeps ==
  ASSUME DeploymentInv, NEW a \in Actors, NEW ending \in Endings, DeployWorker(a, ending)
  PROVE  DeploymentInv'
<1> DEFINE done == [account[config] EXCEPT !.deployed = TRUE]
<1>1. /\ run[a].plan # NoFile /\ run[a].plan.config \in Configs
      /\ account[run[a].plan.config].schema = "all"
      /\ run[a].plan.config \notin slipped => account[run[a].plan.config].secret # NoDigest
  BY DEF DeployWorker, DeploymentInv, DeploymentTypeOK, RunInv, Runs, PlanFiles
<1>2. /\ config \in Configs /\ account[config] \in [schema : {"none", "part", "all"}, secret : Nat, deployed : BOOLEAN]
      /\ digest \in {NoDigest, Empty} => account[config].secret = NoDigest
  BY DEF DeploymentInv, DeploymentTypeOK, DigestInv
<1>3. /\ done \in [schema : {"none", "part", "all"}, secret : Nat, deployed : BOOLEAN]
      /\ done.schema = account[config].schema /\ done.secret = account[config].secret
  BY <1>2
<1>4. ChangeWorker(a, ending, done) /\ (config \notin slipped' => config = run[a].plan.config /\ config \notin slipped)
  BY DEF DeployWorker, ChangeWorker, Reaches
<1>5. run' \in [Actors -> Runs] /\ RunInv(a)' /\ run'[a].pc # "fill"
  BY EndsWell DEF DeployWorker, DeploymentInv
<1>6. \A b \in Actors : b # a => run'[b] = run[b]
  BY OthersRest DEF DeploymentInv, DeployWorker, End
<1>7. done.deployed /\ config \notin slipped' => done.schema = "all" /\ done.secret # NoDigest
  BY <1>1, <1>3, <1>4
<1> HIDE DEF done
<1> QED BY <1>1, <1>2, <1>3, <1>4, <1>5, <1>6, <1>7, WorkerChanges

LEMMA DeploymentMoves == DeploymentInv /\ [DeploymentNext]_deploymentVars => DeploymentInv'
<1> SUFFICES ASSUME DeploymentInv, [DeploymentNext]_deploymentVars PROVE DeploymentInv'
  OBVIOUS
<1>1. CASE UNCHANGED deploymentVars
  <2>1. DeploymentTypeOK' /\ ReceiptInv'
    BY <1>1 DEF deploymentVars, DeploymentInv, DeploymentTypeOK, ReceiptInv
  <2> QED BY <1>1, <2>1, NothingDeployed DEF deploymentVars
<1>2. ASSUME NEW a \in Actors, NEW p \in Profiles, NEW replace \in BOOLEAN, Configure(a, p, replace)
      PROVE  DeploymentInv'
  BY <1>2, ConfigureKeeps
<1>3. ASSUME NEW a \in Actors, Look(a) \/ CreateFile(a) \/ FillFile(a) \/ WriteProfile(a)
      PROVE  DeploymentInv'
  BY <1>3, LookKeeps, CreateFileKeeps, FillFileKeeps, WriteProfileKeeps
<1>4. ASSUME NEW a \in Actors, NEW replace \in BOOLEAN, Plan(a, replace) \/ Check(a, replace)
      PROVE  DeploymentInv'
  BY <1>4, PlanKeeps, CheckKeepsDeployment
<1>5. ASSUME NEW a \in Actors, NEW answered \in BOOLEAN, Inspect(a, answered) \/ SecretsListed(a, answered)
      PROVE  DeploymentInv'
  BY <1>5, InspectKeeps, SecretsListedKeeps
<1>6. ASSUME NEW a \in Actors, WriteReceipt(a) \/ Apply(a) \/ CutOff(a)
      PROVE  DeploymentInv'
  BY <1>6, WriteReceiptKeeps, ApplyKeeps, CutOffKeeps
<1>7. ASSUME NEW a \in Actors, NEW ending \in Endings,
             Migrate(a, ending) \/ PutSecret(a, ending) \/ DeployWorker(a, ending)
      PROVE  DeploymentInv'
  BY <1>7, MigrateKeeps, PutSecretKeeps, DeployWorkerKeeps
<1>8. CASE EditConfig \/ Tick
  BY <1>8, EditConfigKeeps, DeploymentTickKeeps
<1> QED BY <1>1, <1>2, <1>3, <1>4, <1>5, <1>6, <1>7, <1>8 DEF DeploymentNext

LEMMA DeploymentAlways == DeploymentSpec => []DeploymentInv
BY DeploymentStarts, DeploymentMoves, PTL DEF DeploymentSpec

(* The files, the account and the commands of the deployment tool have     *)
(* their types.                                                            *)
THEOREM DeploymentTypeCorrect == DeploymentSpec => []DeploymentTypeOK
BY DeploymentAlways, PTL DEF DeploymentInv

(* Commands of whom ever overlap, fail or are killed at any call: a Worker *)
(* deployed under a configuration nobody edited meanwhile has a migrated   *)
(* database, and no Worker a secret that the digest file does not hold.    *)
THEOREM DeploymentsAreComplete == DeploymentSpec => []DeployedIsComplete
BY DeploymentAlways, PTL DEF DeploymentInv

(* Nothing is changed in the account but by a command that its own actor   *)
(* had checked in time, with the very plan it applies.                     *)
THEOREM AppliesAreChecked == DeploymentSpec => CheckedBefore
<1> DEFINE A == account' # account =>
       \E a \in Actors : run[a].pc \in {"migrate", "put", "deploy"} /\ run'[a] # run[a] /\
         \E check \in checked : check.by = a /\ check.of = run[a].plan /\ run[a].at < check.at + TTL
<1>1. DeploymentInv /\ [DeploymentNext]_deploymentVars => A
  <2> SUFFICES ASSUME DeploymentInv, DeploymentNext, account' # account PROVE A
    BY DEF deploymentVars
  <2>1. PICK a \in Actors : \E ending \in Endings : Migrate(a, ending) \/ PutSecret(a, ending) \/ DeployWorker(a, ending)
    BY DEF DeploymentNext, Configure, Look, CreateFile, FillFile, WriteProfile, Plan, Check, Inspect, SecretsListed,
           WriteReceipt, Apply, CutOff, EditConfig, Tick
  <2>2. run[a].pc \in {"migrate", "put", "deploy"}
    BY <2>1 DEF Migrate, PutSecret, DeployWorker
  <2>3. run'[a] # run[a]
    <3>1. run \in [Actors -> Runs] /\ run[a] \in Runs
      BY DEF DeploymentInv, DeploymentTypeOK
    <3>2. CASE End(a)
      BY <2>2, <3>1, <3>2 DEF End, Resting
    <3>3. CASE run[a].pc = "migrate" /\ Step(a, "secrets")
      BY <3>1, <3>3, StepsWell DEF DeploymentInv, RunStates, Runs
    <3>4. CASE run[a].pc = "put" /\ Step(a, "deploy")
      BY <3>1, <3>4, StepsWell DEF DeploymentInv, RunStates, Runs
    <3> QED BY <2>1, <3>2, <3>3, <3>4 DEF Migrate, PutSecret, DeployWorker
  <2>4. CheckedIn(checked, a, run[a].plan, run[a].at)
    BY <2>2 DEF DeploymentInv, RunInv
  <2> QED BY <2>2, <2>3, <2>4 DEF CheckedIn
<1> QED BY <1>1, DeploymentAlways, PTL DEF DeploymentSpec, CheckedBefore
=============================================================================
