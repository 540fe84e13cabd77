-------------------------------- MODULE Reports --------------------------------
(***************************************************************************)
(* The reports of the admin API as functions of what the per-minute tables *)
(* hold.  A table is the set of counted events that still contribute to    *)
(* it: a row is a group of them (Row), SUM(event_count) their number, and  *)
(* the distinct digests of a visitor table their identifiers.              *)
(***************************************************************************)
EXTENDS Naturals, FiniteSets, Functions

CONSTANTS
  Websites,      \* the websites of one project
  LabelRank,     \* [labels, pages and websites -> Nat]: the alphabetical order
  RankingLimit,  \* entries of a ranking: 10, 100, ...
  Day,           \* minutes of a day
  Hour,          \* minutes of an hour
  MaxReport,     \* the longest range: 30 days
  Principals,    \* [role, website]: who asks
  Samples,       \* bound: sets of events to report on
  Ranges,        \* bound: <<start, end>> of reports
  PageFilters    \* bound: "any" or a page

ASSUME ReportsAssumption ==
  /\ Day \in Nat \ {0} /\ Hour \in 1..Day /\ MaxReport \in Nat /\ RankingLimit \in Nat
  /\ IsInjective(LabelRank)

MinuteTables == {"totals", "dimensions", "visitors", "actions", "actionVisitors", "customEvents",
                 "customVisitors", "campaigns", "campaignVisitors", "rageClicks"}

(* Which events a table counts.                                            *)
Counts(t, e) ==
  CASE t \in {"totals", "dimensions", "visitors"} -> e.kind \in {"view", "campaign"}
    [] t \in {"campaigns", "campaignVisitors"} -> e.kind = "campaign"
    [] t \in {"actions", "actionVisitors"} -> e.kind = "action"
    [] t \in {"customEvents", "customVisitors"} -> e.kind = "custom"
    [] t = "rageClicks" -> e.kind = "rage"

(* The primary key of an event's row.  Of a campaign, the label is its     *)
(* utm_source, the page its utm_medium and utm_campaign.                   *)
Row(t, e) ==
  CASE t = "totals" -> <<e.website, e.at>>
    [] t \in {"dimensions", "actions", "customEvents", "campaigns", "rageClicks"} ->
         <<e.website, e.at, e.page, e.label>>
    [] t = "visitors" -> <<e.website, e.at, e.visitor>>
    [] OTHER -> <<e.website, e.at, e.page, e.label, e.visitor>>

-----------------------------------------------------------------------------
(* Who may see what.                                                       *)

(* A key for one website sees its own, whatever was asked for.             *)
ScopeOf(p, asked) ==
  IF p.role # "admin" /\ p.website # "all"
  THEN IF asked \in {"all", p.website} THEN {p.website} ELSE {}
  ELSE {asked}

(* The websites a report of this key covers; a deleted one is not found.   *)
Covered(p, asked, deleted) ==
  IF ScopeOf(p, asked) = {"all"} THEN Websites \ deleted ELSE ScopeOf(p, asked) \ deleted

(* A query: websites, a range, and a filter.  Every statement is scoped.   *)

Selected(rows, t, q) ==
  {e \in rows[t] : /\ e.website \in q.websites /\ q.start <= e.at /\ e.at < q.end
                     /\ q.page \in {"any", e.page}}
Total(rows, t, q) == Cardinality(Selected(rows, t, q))
Visitors(rows, t, q) == Cardinality({<<e.website, e.visitor>> : e \in Selected(rows, t, q)})

SumOf(f) == Cardinality(UNION {{x} \X (1..f[x]) : x \in DOMAIN f})

Precedes(l, m) == \/ LabelRank[l[1]] < LabelRank[m[1]]
                  \/ l[1] = m[1] /\ LabelRank[l[2]] < LabelRank[m[2]]

(* ORDER BY count DESC, label ASC: the first of them and the remainder.    *)
Ranked(labelOf) ==
  LET group == DOMAIN labelOf
      count(l) == Cardinality({e \in group : labelOf[e] = l})
      labels == Range(labelOf)
      before(l) == {m \in labels : \/ count(m) > count(l)
                                   \/ count(m) = count(l) /\ Precedes(m, l)}
      top == {l \in labels : Cardinality(before(l)) < RankingLimit}
  IN [items |-> [l \in top |-> count(l)],
      otherRows |-> Cardinality(labels) - Cardinality(top),
      otherCount |-> Cardinality(group) - SumOf([l \in top |-> count(l)])]

(* Mutant: the first bucket is the first whole one.                        *)
TrendWhole(rows, t, q) ==
  LET step == IF q.end - q.start <= Day THEN Hour ELSE Day
      buckets == {b \in q.start..(q.end - 1) : b % step = 0}
  IN [b \in buckets |-> Cardinality({e \in Selected(rows, t, q) : e.at - (e.at % step) = b})]

(* One bucket per hour of a day, per day of a longer range.  The first may *)
(* begin before the range does.                                            *)
Trend(rows, t, q) ==
  LET step == IF q.end - q.start <= Day THEN Hour ELSE Day
      buckets == {b \in (q.start - (q.start % step))..(q.end - 1) : b % step = 0}
  IN [b \in buckets |-> Cardinality({e \in Selected(rows, t, q) : e.at - (e.at % step) = b})]

(* What a ranking groups by.  A page of another website is another page.   *)
PageOfWebsite(e) == <<e.page, e.website>>
PageAndLabel(e) == <<e.page, e.label>>
Label(e) == <<e.label, "">>

(* getAnalyticsOverview.                                                   *)
Overview(rows, asked) ==
  LET q == [asked EXCEPT !.page = "any"] IN
  [pageViews |-> Total(rows, "totals", q),
   uniqueUsers |-> Visitors(rows, "visitors", q),
   trend |-> Trend(rows, "totals", q),
   pages |-> Ranked([e \in Selected(rows, "dimensions", q) |-> PageOfWebsite(e)]),
   countries |-> Ranked([e \in Selected(rows, "dimensions", q) |-> Label(e)])]

(* actionsReportQueries and rageReportQueries: bursts beside the clicks.   *)
ActionsReport(rows, q) ==
  [actions |-> Total(rows, "actions", q),
   uniqueUsers |-> Visitors(rows, "actionVisitors", q),
   rows |-> Ranked([e \in Selected(rows, "actions", q) |-> PageAndLabel(e)]),
   views |-> Total(rows, "dimensions", q)]

RageReport(rows, q) ==
  [bursts |-> Total(rows, "rageClicks", q), clicks |-> Total(rows, "actions", q),
   trend |-> Trend(rows, "rageClicks", q),
   rows |-> Ranked([e \in Selected(rows, "rageClicks", q) |-> PageAndLabel(e)])]

CustomEventsReport(rows, q) ==
  [events |-> Total(rows, "customEvents", q),
   uniqueUsers |-> Visitors(rows, "customVisitors", q),
   trend |-> Trend(rows, "customEvents", q),
   names |-> Ranked([e \in Selected(rows, "customEvents", q) |-> Label(e)]),
   withoutPage |-> Cardinality({e \in Selected(rows, "customEvents", q) : e.page = ""})]

CampaignsReport(rows, q) ==
  [pageViews |-> Total(rows, "campaigns", q),
   uniqueUsers |-> Visitors(rows, "campaignVisitors", q),
   allPageViews |-> Total(rows, "totals", [q EXCEPT !.page = "any"]),
   trend |-> Trend(rows, "campaigns", q),
   sources |-> Ranked([e \in Selected(rows, "campaigns", q) |-> Label(e)])]

(* A goal's conversions are the sum of its trend, on a table of its kind.  *)
GoalTable(kind) == CASE kind = "page" -> "dimensions" [] kind = "action" -> "actions"
                     [] kind = "event" -> "customEvents"
Conversions(rows, goal, q) ==
  LET table == GoalTable(goal.kind)
      met == [rows EXCEPT ![table] = {e \in @ : goal.target = IF goal.kind = "page" THEN e.page ELSE e.label}]
  IN SumOf(Trend(met, table, q))

-----------------------------------------------------------------------------
(* What the figures of a report owe each other.                            *)

AddsUp(ranking, total) == SumOf(ranking.items) + ranking.otherCount = total

PageViewsAgree(rows, q) ==
  LET o == Overview(rows, q)
      views == Selected(rows, "dimensions", [q EXCEPT !.page = "any"])
      goal(p) == Conversions(rows, [kind |-> "page", target |-> p], [q EXCEPT !.page = "any"])
  IN /\ SumOf(o.trend) = o.pageViews
     /\ AddsUp(o.pages, o.pageViews)
     /\ SumOf([w \in q.websites |-> Overview(rows, [q EXCEPT !.websites = {w}]).pageViews]) = o.pageViews
     /\ SumOf([p \in {e.page : e \in views} |-> goal(p)]) = o.pageViews
     /\ AddsUp(o.countries, o.pageViews)
     /\ o.uniqueUsers <= o.pageViews

OthersAgree(rows, q) ==
  LET a == ActionsReport(rows, q)  r == RageReport(rows, q)
      c == CustomEventsReport(rows, q)  m == CampaignsReport(rows, q)
      goal(l) == Conversions(rows, [kind |-> "action", target |-> l], q)
  IN /\ AddsUp(a.rows, a.actions) /\ a.uniqueUsers <= a.actions
     /\ SumOf([l \in {e.label : e \in Selected(rows, "actions", q)} |-> goal(l)]) = a.actions
     /\ AddsUp(r.rows, r.bursts) /\ SumOf(r.trend) = r.bursts /\ r.clicks = a.actions
     /\ AddsUp(c.names, c.events) /\ SumOf(c.trend) = c.events /\ c.withoutPage <= c.events
     /\ AddsUp(m.sources, m.pageViews) /\ SumOf(m.trend) = m.pageViews
     /\ m.pageViews <= m.allPageViews

(* The figures of every report agree with each other and across reports:   *)
(* trends, rankings with their remainder, websites and goals each add up   *)
(* to the total, for any events counted, any range and any filter; and a   *)
(* key for one website is never shown another.                             *)
ReportsAddUp ==
  /\ \A w \in SUBSET Websites, r \in Ranges, p \in PageFilters, E \in Samples :
       LET rows == [t \in MinuteTables |-> {e \in E : Counts(t, e)}]
           q == [start |-> r[1], end |-> r[2], page |-> p, websites |-> w]
       IN PageViewsAgree(rows, q) /\ OthersAgree(rows, q)
  /\ \A p \in Principals, asked \in Websites \cup {"all"}, d \in SUBSET Websites :
       /\ p.website # "all" => Covered(p, asked, d) \subseteq {p.website}
       /\ Covered(p, asked, d) \cap d = {}
=============================================================================
