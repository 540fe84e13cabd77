-------------------------------- MODULE Clicks --------------------------------
(***************************************************************************)
(* The click watcher of the browser SDK (actions.ts): one clock, the page  *)
(* the address bar shows, presses and clicks on controls, and what is      *)
(* observed of them.  Page moves the address and adds navigation; here it  *)
(* moves by GoTo, at any time.                                             *)
(*                                                                         *)
(* The code keeps lists of instants, of which it only asks which are still *)
(* recent and how many.  They are sets here; the number of the click that  *)
(* noted an instant tells two equal ones apart.                            *)
(***************************************************************************)
EXTENDS Naturals, Sequences, FiniteSets

CONSTANTS
  Pages,              \* page keys
  Controls,           \* a control's name, kind and destination
  DuplicateWindow,    \* 500 ms
  InteractionWindow,  \* 5 s
  RageClicks,         \* 3
  RageWindow,         \* 1 s
  RageCooldown,       \* 5 s
  Minute,             \* 60 s
  MaxActions,         \* actions a minute: 100
  MaxRage,            \* bursts a minute: 20
  MaxKeys,            \* keys remembered before quiet ones are forgotten: 200
  Horizon,            \* bound: the last instant
  MaxClicks,          \* bound: clicks on controls
  MaxPresses,         \* bound: presses
  MaxMoved             \* bound: moves, those a click makes included

ASSUME WindowsAssumption ==
  /\ {DuplicateWindow, InteractionWindow, RageWindow, RageCooldown, Minute} \subseteq Nat
  /\ RageWindow <= RageCooldown
ASSUME ClickLimits == RageClicks \in Nat \ {0} /\ {MaxActions, MaxRage, MaxKeys} \subseteq Nat
ASSUME ClicksBounds == {Horizon, MaxClicks, MaxPresses, MaxMoved} \subseteq Nat

VARIABLES
  now,          \* the clock
  location,     \* the page the address shows
  interaction,  \* the page of the last press, and when
  recent,       \* [keys -> last click]
  stamps,       \* when actions were observed
  bursts,       \* [keys -> clicks, and when reported]
  rageStamps,   \* when bursts were reported
  held,         \* history: the press that is yet to become a click
  clicks,       \* history: every click on a control, in order
  leftAt,       \* history: [pages -> when last left]
  presses, moved

clicksVars == <<now, location, interaction, recent, stamps, bursts, rageStamps, held, clicks, leftAt, presses, moved>>
windows == <<recent, stamps, bursts, rageStamps>>

None == [page |-> "none", at |-> 0]
Never == Horizon + Minute + RageCooldown

ClicksInit ==
  /\ now = 0
  /\ location \in Pages
  /\ interaction = None /\ held = None
  /\ recent = <<>> /\ bursts = <<>> /\ stamps = {} /\ rageStamps = {}
  /\ clicks = <<>>
  /\ leftAt = [p \in Pages |-> Never]
  /\ presses = 0 /\ moved = 0

-----------------------------------------------------------------------------
Wait ==
  /\ now < Horizon
  /\ now' = now + 1
  /\ UNCHANGED <<location, interaction, windows, held, clicks, leftAt, presses, moved>>

(* The address changes: a timer, a router, back and forward.               *)
GoTo(p) ==
  /\ location' = p
  /\ IF p = location THEN UNCHANGED <<leftAt, moved>>
     ELSE /\ leftAt' = [leftAt EXCEPT ![location] = now]
          /\ moved < MaxMoved /\ moved' = moved + 1

Leave(p) ==
  /\ p # location
  /\ GoTo(p)
  /\ UNCHANGED <<now, interaction, windows, held, clicks, presses>>

(* begin(): a pointer goes down, or any key does.                          *)
Press(pointer) ==
  /\ presses < MaxPresses
  /\ presses' = presses + 1
  /\ interaction' = [page |-> location, at |-> now]
  /\ held' = IF pointer THEN interaction' ELSE None
  /\ UNCHANGED <<now, location, windows, clicks, leftAt, moved>>

(* A click on a typing field, on nothing, or on an ignored control: the    *)
(* handler returns before it forgets the press.                            *)
OtherClick ==
  /\ held # None
  /\ held' = None
  /\ UNCHANGED <<now, location, interaction, windows, clicks, leftAt, presses, moved>>

-----------------------------------------------------------------------------
(* A click on a control.                                                   *)

Within(at, window) == at <= now /\ now - at < window
InWindow(noted, window) == {n \in noted : Within(n.at, window)}
ThisClick == [by |-> Len(clicks) + 1, at |-> now]

(* Mutant: the press counts however long ago it was.                       *)
PageOfAnyPress(shown) == IF interaction # None THEN interaction.page ELSE shown

PageOf(shown) ==
  IF interaction # None /\ Within(interaction.at, InteractionWindow) THEN interaction.page ELSE shown

(* A map's entries, less those that are stale once there are too many.     *)
Pruned(map, stale) ==
  IF Cardinality(DOMAIN map) > MaxKeys THEN [k \in DOMAIN map \ stale |-> map[k]] ELSE map

(* Bursts without a click within the cooldown.                             *)
Dormant(map) == {k \in DOMAIN map : InWindow(map[k].clicks, RageCooldown) = {}}

With(map, key, value) == [k \in DOMAIN map \cup {key} |-> IF k = key THEN value ELSE map[k]]

BurstOf(key) ==
  IF key \in DOMAIN bursts
  THEN [bursts[key] EXCEPT !.clicks = InWindow(@, RageWindow) \cup {ThisClick}]
  ELSE [clicks |-> {ThisClick}, reportedAt |-> Never]

(* Mutant: a control that has just reported may report again.              *)
RageOfHot(key) ==
  LET burst == BurstOf(key)
      all == With(bursts, key, burst)
      others == Pruned(all, Dormant(all))
      minute == InWindow(rageStamps, Minute)
      full == Cardinality(burst.clicks) >= RageClicks
      report == full /\ Cardinality(minute) < MaxRage
  IN [report |-> report,
      rageStamps |-> IF ~full THEN rageStamps ELSE IF report THEN minute \cup {ThisClick} ELSE minute,
      bursts |-> IF report THEN With(others, key, [clicks |-> {}, reportedAt |-> now]) ELSE others]

(* rageOf: does this click complete a burst, and what is kept after it.    *)
RageOf(key) ==
  LET burst == BurstOf(key)
      all == With(bursts, key, burst)
      others == Pruned(all, Dormant(all))
      minute == InWindow(rageStamps, Minute)
      cooling == Within(burst.reportedAt, RageCooldown)
      full == Cardinality(burst.clicks) >= RageClicks
      report == full /\ ~cooling /\ Cardinality(minute) < MaxRage
  IN [report |-> report,
      rageStamps |-> IF ~full \/ cooling THEN rageStamps ELSE IF report THEN minute \cup {ThisClick} ELSE minute,
      bursts |-> IF report THEN With(others, key, [clicks |-> {}, reportedAt |-> now]) ELSE others]

Recent(key) ==
  LET all == With(recent, key, now)
  IN Pruned(all, {k \in DOMAIN all : now - all[k] > DuplicateWindow})

(* The router may move the address in a listener that runs before this     *)
(* one.  A script's click, and one a key makes, is not `real`; it takes    *)
(* the press all the same.                                                 *)
Click(c, real, to) ==
  LET page == PageOf(to)
      key == <<page, c>>
      rage == RageOf(key)
      isNew == key \notin DOMAIN recent \/ ~Within(recent[key], DuplicateWindow)
      minute == InWindow(stamps, Minute)
      counts == isNew /\ Cardinality(minute) < MaxActions
  IN /\ Len(clicks) < MaxClicks
     /\ real => held # None
     /\ GoTo(to)
     /\ interaction' = None
     /\ held' = None
     /\ IF real THEN bursts' = rage.bursts /\ rageStamps' = rage.rageStamps
                ELSE UNCHANGED <<bursts, rageStamps>>
     /\ recent' = Recent(key)
     /\ stamps' = IF ~isNew THEN stamps ELSE IF counts THEN minute \cup {ThisClick} ELSE minute
     /\ clicks' = Append(clicks, [key |-> key, at |-> now, real |-> real, from |-> IF real THEN held ELSE None,
                                 action |-> counts, rage |-> real /\ rage.report,
                                 shown |-> {p \in Pages : p = to \/ Within(leftAt'[p], InteractionWindow)}])
     /\ UNCHANGED <<now, presses>>

ClicksNext ==
  \/ Wait \/ OtherClick
  \/ \E p \in Pages : Leave(p)
  \/ \E pointer \in BOOLEAN : Press(pointer)
  \/ \E c \in Controls, real \in BOOLEAN, to \in Pages : Click(c, real, to)

ClicksSpec == ClicksInit /\ [][ClicksNext]_clicksVars

-----------------------------------------------------------------------------
Before(i, window) == {j \in 1..(i - 1) : clicks[i].at - clicks[j].at < window}
Same(i) == {j \in 1..(i - 1) : clicks[j].key = clicks[i].key}
Rage == {j \in DOMAIN clicks : clicks[j].rage}
Actions == {j \in DOMAIN clicks : clicks[j].action}

(* The real clicks on a control's behalf that click i could end a burst    *)
(* with: recent, and used by no earlier burst.                             *)
Used(i) == {j \in Same(i) : \E k \in Same(i) \cap Rage : j <= k}
BurstAt(i) == {i} \cup {j \in (Same(i) \cap Before(i, RageWindow)) \ Used(i) : clicks[j].real}
MayReport(i) ==
  /\ clicks[i].real
  /\ Cardinality(BurstAt(i)) >= RageClicks
  /\ Cardinality(Before(i, Minute) \cap Rage) < MaxRage
Cooling(i) == Same(i) \cap Before(i, RageCooldown) \cap Rage # {}
RealUpTo(i) == {j \in 1..i : clicks[j].real}
Forgets(i) == Cardinality({clicks[j].key : j \in RealUpTo(i)}) > MaxKeys

(* Types: what is noted is noted of a click, by its number and instant.    *)
Instants == 0..Horizon
Notes == [by : Nat, at : Instants]
PagePress == [page : Pages, at : Instants] \cup {None}
ClickRecord ==
  [key : Pages \X Controls, at : Instants, real : BOOLEAN, from : PagePress,
   action : BOOLEAN, rage : BOOLEAN, shown : SUBSET Pages]

ClicksTypeOK ==
  /\ now \in Instants
  /\ location \in Pages
  /\ interaction \in PagePress /\ held \in PagePress
  /\ DOMAIN recent \subseteq Pages \X Controls /\ recent \in [DOMAIN recent -> Instants]
  /\ stamps \subseteq Notes /\ rageStamps \subseteq Notes
  /\ DOMAIN bursts \subseteq Pages \X Controls
  /\ bursts \in [DOMAIN bursts -> [clicks : SUBSET Notes, reportedAt : Instants \cup {Never}]]
  /\ clicks \in Seq(ClickRecord)
  /\ leftAt \in [Pages -> Instants \cup {Never}]
  /\ presses \in 0..MaxPresses /\ moved \in 0..MaxMoved

(* A burst is reported for enough real clicks on one control within the    *)
(* window, none of which an earlier burst has used, when the control did   *)
(* not report one during the cooldown and the minute has room for it; and  *)
(* every such burst is.  The one exception the code makes: beyond MaxKeys  *)
(* controls it forgets that a control has reported.                        *)
BurstIsReal(i) ==
  /\ clicks[i].rage => MayReport(i) /\ (Cooling(i) => Forgets(i))
  /\ MayReport(i) /\ ~Cooling(i) => clicks[i].rage
BurstsAreReal == \A i \in DOMAIN clicks : BurstIsReal(i)

(* A click is an action unless the same control was clicked just before    *)
(* (a double click, a key held down) or the minute is full; and no other   *)
(* click is lost, however many controls there are.  It belongs to the page *)
(* its press was made on, if that was not too long ago, wherever a router  *)
(* has moved since; and never to a page that was left longer ago.          *)
ActionOfItsPage(i) ==
  LET c == clicks[i] IN
  /\ c.action <=> /\ Same(i) \cap Before(i, DuplicateWindow) = {}
                  /\ Cardinality(Before(i, Minute) \cap Actions) < MaxActions
  /\ c.key[1] \in c.shown
  /\ c.from # None /\ c.at - c.from.at < InteractionWindow => c.key[1] = c.from.page
ActionsOfTheirPage == \A i \in DOMAIN clicks : ActionOfItsPage(i)
=============================================================================
