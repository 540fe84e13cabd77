------------------------------ MODULE Matching ------------------------------
(***************************************************************************)
(* The collector's pure algorithms, each beside a reference definition:    *)
(* excluded addresses, grouping rules, page keys without identifiers, and  *)
(* the range of a report.                                                  *)
(***************************************************************************)
EXTENDS Integers, Sequences, FiniteSets, SequencesExt

CONSTANTS
  Bits4, Bits6,  \* width of an IPv4 and of an IPv6 address: 32 and 128
  MappedTop,     \* the bits of an IPv6 address that say it holds an IPv4 one
  Names,         \* segments of a path that are plain words
  MaxSegments,   \* bound: length of a path or pattern
  MaxMinutes,    \* the longest report: 30 days
  Now            \* bound: the latest minute

ASSUME WidthAssumption ==
  /\ Bits4 \in Nat /\ Bits6 \in Nat /\ Bits4 < Bits6 /\ MappedTop \in 0..(2^(Bits6 - Bits4) - 1)

SeqsUpTo(S, n) == UNION {[1..k -> S] : k \in 0..n}

-----------------------------------------------------------------------------
(* Addresses.  Text is parsed already: an entry is an address of one       *)
(* version and the prefix written after it, if any.                        *)

Width(version) == IF version = 4 THEN Bits4 ELSE Bits6
NoPrefix == -1

(* Host bits cleared; a prefix that is too long makes no network.          *)
Build(version, address, prefix) ==
  LET host == 2^(Width(version) - prefix) IN
  IF prefix > Width(version) THEN <<>>
  ELSE <<[version |-> version, network |-> (address \div host) * host, prefix |-> prefix]>>

Mapped(address) == address \div 2^Bits4 = MappedTop

(* An entry inside the block of mapped addresses is an IPv4 entry.         *)
ParseNetwork(e) ==
  LET prefix == IF e.prefix = NoPrefix THEN Width(e.version) ELSE e.prefix IN
  IF e.version = 4 THEN Build(4, e.address, prefix)
  ELSE IF ~Mapped(e.address) THEN Build(6, e.address, prefix)
  ELSE IF prefix < Bits6 - Bits4 THEN <<>>
  ELSE Build(4, e.address % 2^Bits4, prefix - (Bits6 - Bits4))

ParseClient(c) ==
  IF c.version = 6 /\ Mapped(c.address) THEN [version |-> 4, address |-> c.address % 2^Bits4] ELSE c

(* Mutant: a mapped client is compared as the IPv6 address it is.          *)
ExcludedUnmapped(client, entry) ==
  LET n == ParseNetwork(entry) IN
  /\ n # <<>> /\ n[1].version = client.version
  /\ LET host == 2^(Width(client.version) - n[1].prefix) IN
     client.address \div host = n[1].network \div host

Excluded(client, entry) ==
  LET c == ParseClient(client)  n == ParseNetwork(entry) IN
  /\ n # <<>> /\ n[1].version = c.version
  /\ LET host == 2^(Width(c.version) - n[1].prefix) IN c.address \div host = n[1].network \div host

Clients == [version : {4}, address : 0..(2^Bits4 - 1)] \cup [version : {6}, address : 0..(2^Bits6 - 1)]
Entries == {[version |-> c.version, address |-> c.address, prefix |-> p] :
              c \in Clients, p \in {NoPrefix} \cup 0..(Bits6 + 1)}

(* Reference: an address as the IPv6 address that stands for it, and a     *)
(* prefix as the addresses that agree with the entry in that many bits.    *)
AsV6(c) == IF c.version = 4 THEN MappedTop * 2^Bits4 + c.address ELSE c.address
V6Prefix(e) == IF e.prefix = NoPrefix THEN Bits6
               ELSE IF e.version = 4 THEN e.prefix + (Bits6 - Bits4) ELSE e.prefix
Bit(n, k) == (n \div 2^(Bits6 - k)) % 2
Denotes(e, c) == \A k \in 1..V6Prefix(e) : Bit(AsV6(c), k) = Bit(AsV6(e), k)
Usable(e) == /\ V6Prefix(e) <= Bits6
             /\ Mapped(AsV6(e)) => V6Prefix(e) >= Bits6 - Bits4

(* An address is excluded exactly when it agrees with a usable entry in    *)
(* the bits of its prefix, however either of them is written; an IPv6      *)
(* range never reaches into the IPv4 addresses.  Two entries are kept as   *)
(* one exactly when they stand for the same addresses.                     *)
ExclusionIsByPrefix ==
  /\ \A e \in Entries, c \in Clients :
       Excluded(c, e) <=> Usable(e) /\ Denotes(e, c) /\ Mapped(AsV6(c)) = Mapped(AsV6(e))
  /\ \A e \in Entries, d \in Entries : Usable(e) /\ Usable(d) =>
       (ParseNetwork(e) = ParseNetwork(d)
          <=> V6Prefix(e) = V6Prefix(d) /\ Denotes(e, d) /\ Mapped(AsV6(e)) = Mapped(AsV6(d)))

-----------------------------------------------------------------------------
(* Grouping rules.  A path is its sequence of segments.                    *)

Patterns == {p \in SeqsUpTo(Names \cup {"*", "**"}, MaxSegments) :
               p # <<>> /\ \A i \in 1..Len(p) : p[i] = "**" => i = Len(p)}
Paths == SeqsUpTo(Names, MaxSegments + 1) \ {<<>>}

Matches(want, have) ==
  LET from[at \in 1..(Len(want) + 1)] ==
        IF at > Len(want) THEN Len(have) = Len(want)
        ELSE IF want[at] = "**" /\ at = Len(want) THEN Len(have) >= at
        ELSE at <= Len(have) /\ want[at] \in {"*", have[at]} /\ from[at + 1]
  IN from[1]

(* Reference: what the documentation says of `*` and a final `**`.         *)
Stands(want, have) ==
  \E fill \in SeqsUpTo(Names, MaxSegments + 1) \ {<<>>} :
    have = IF Last(want) = "**" THEN [i \in 1..(Len(want) - 1) |->
                                        IF want[i] = "*" /\ i <= Len(have) THEN have[i] ELSE want[i]] \o fill
           ELSE [i \in 1..Len(want) |-> IF want[i] = "*" /\ i <= Len(have) THEN have[i] ELSE want[i]]

(* A pattern matches exactly the paths it stands for: `*` for one segment, *)
(* a final `**` for one segment or more.                                   *)
PatternsMatchWhatTheyStandFor == \A w \in Patterns, h \in Paths : Matches(w, h) <=> Stands(w, h)

-----------------------------------------------------------------------------
(* Page keys.  A segment is what the rules tell apart: a number that may   *)
(* be a month is also a day.                                               *)

Kinds == {"year", "month", "day", "number", "token", "word", ":id"}
IsIdentifier(s) == s \in {"year", "month", "day", "number", "token"}
DateAt(s, i) == IF i + 1 > Len(s) \/ s[i] # "year" \/ s[i + 1] # "month" THEN 0
                ELSE IF i + 2 <= Len(s) /\ s[i + 2] \in {"month", "day"} THEN 3 ELSE 2

GroupSegments(s) ==
  LET from[i \in 1..(Len(s) + 3)] ==
        IF i > Len(s) THEN <<>>
        ELSE IF DateAt(s, i) > 0 THEN SubSeq(s, i, i + DateAt(s, i) - 1) \o from[i + DateAt(s, i)]
        ELSE <<IF IsIdentifier(s[i]) THEN ":id" ELSE s[i]>> \o from[i + 1]
  IN from[1]

(* Cleaning a page key keeps its words, leaves an identifier only inside a *)
(* date that begins with its year, and changes nothing the second time, so *)
(* the browser and the collector agree.  (The cut at 1024 characters comes *)
(* after it, and is not covered.)                                          *)
PageKeysHideIdentifiers ==
  \A s \in SeqsUpTo(Kinds, MaxSegments + 1) : LET g == GroupSegments(s) IN
    /\ GroupSegments(g) = g /\ Len(g) = Len(s)
    /\ \A i \in 1..Len(s) :
         /\ ~IsIdentifier(s[i]) => g[i] = s[i]
         /\ IsIdentifier(g[i]) => \E k \in 0..2 : k < i /\ DateAt(s, i - k) > k

-----------------------------------------------------------------------------
(* Ranges, in half minutes: an odd instant is not a whole minute.          *)

CompleteMinute(now) == now - (now % 2)
Accepted(start, end, now) ==
  /\ start % 2 = 0 /\ end % 2 = 0
  /\ start < end /\ end <= CompleteMinute(now) /\ end - start <= 2 * MaxMinutes
Preset(minutes, now) == [start |-> CompleteMinute(now) - 2 * minutes, end |-> CompleteMinute(now)]

(* A range made from a preset is accepted whenever it arrives later.       *)
PresetsAreAccepted ==
  \A n \in 1..MaxMinutes, now \in 0..Now, later \in 0..Now :
    now <= later => Accepted(Preset(n, now).start, Preset(n, now).end, later)
=============================================================================
