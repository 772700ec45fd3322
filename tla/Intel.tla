-------------------------------- MODULE Intel --------------------------------
(***************************************************************************)
(* The intel role (agents/intel.py, agents/tools/intel_tools.py,           *)
(* agents/tools/version_match.py, agents/tools/nvd_tools.py).  Once a day, *)
(* and whenever a person starts it by hand, a run takes the catalogue of   *)
(* exploited vulnerabilities and the fleet's inventory, stages a hunt pack *)
(* and opens a case for each pair of a vulnerability and an agent that has *)
(* the product, scores the cases, and closes those whose installed version *)
(* is outside every range the NVD lists.  Each phase swallows its own      *)
(* failure and the next one goes on; two runs hold no lock.                *)
(*                                                                         *)
(* A version is its upstream numbers and what surrounds them.  A case is   *)
(* what the runs look for in it, and the history of its closing: whether   *)
(* it was wrong, and what there is against it.  A read of a case that      *)
(* fails is answered from receipts, without the source a case is found by, *)
(* and an event appended to that answer is written over the case.  What    *)
(* two writers of one case do to each other is CaseSpine's.                *)
(***************************************************************************)
EXTENDS Integers, Sequences, FiniteSets, FiniteSetsExt

CONSTANTS
  Cves,          \* the vulnerabilities
  ProductOf,     \* the product the catalogue names for each
  NvdOf,         \* what the NVD lists for each
  Agents,        \* the hosts
  Catalogues,    \* what may be in the catalogue at the start
  Fleets,        \* the inventories there may be at the start
  VersionsOf,    \* the versions of each product that may come to be installed
  PageSize,      \* inventory records one query returns
  SearchLimit,   \* cases the search for a vulnerability returns
  ListLimit,     \* cases the search for all of them returns
  Ids,           \* bound: cases that can exist at once
  MaxFaults,     \* bound: crashes, reads and writes that fail
  MaxActs        \* bound: acts of a person, and changes of the world

Passes == {"timer", "hand"}

Products == {ProductOf[c] : c \in Cves}

\* A version as it is written: "really" is the mark of one whose upstream version follows it.
Forms == {"release", "revision", "pre", "really", "stub", "none"}

Raw == [core : Seq(Nat), form : Forms]

NoRaw == [core |-> <<>>, form |-> "none"]

Installed == [agent : Agents, product : Products, raw : Raw]

\* A cpeMatch: its product, an exact version or the bounds, each as the NVD writes it.
CpeMatch == [product : Products, vulnerable : BOOLEAN, exact : Raw,
             start : Raw, startInc : BOOLEAN, end : Raw, endInc : BOOLEAN]

ASSUME IntelAssumption ==
  /\ DOMAIN ProductOf = Cves /\ DOMAIN NvdOf = Cves /\ DOMAIN VersionsOf = Products
  /\ Catalogues \subseteq SUBSET Cves
  /\ \A c \in Cves : \A m \in NvdOf[c] : m \in CpeMatch
  /\ \A fleet \in Fleets : IsFiniteSet(fleet) /\ \A x \in fleet : x \in Installed
  /\ \A p \in Products : \A v \in VersionsOf[p] : v \in Raw
  /\ {PageSize, SearchLimit, ListLimit} \subseteq Nat \ {0} /\ {MaxFaults, MaxActs} \subseteq Nat
  /\ IsFiniteSet(Ids) /\ Ids \subseteq Nat \ {0}

VARIABLES
  catalogue,   \* the vulnerabilities in the catalogue
  inventory,   \* the packages on record, one record for each that is installed
  packs,       \* where each vulnerability's hunt pack is: staged, live
  cases,       \* the intel cases of the working store
  pass,        \* what each run is at
  spent        \* how much of each bound is used

intelVars == <<catalogue, inventory, packs, cases, pass, spent>>

Legs == Cves \X Agents

Bounds == [faults |-> MaxFaults, acts |-> MaxActs]

Spend(b) == spent[b] < Bounds[b] /\ spent' = [spent EXCEPT ![b] = @ + 1]

----------------------------------------------------------------------------
\* Versions.

\* normalize_version: the epoch, the revision and what follows a tilde go, and the upstream
\* version that follows "+really" with them; a string that is not numbers and dots after that,
\* a snap stub, has no version.
Normalize(raw) == IF raw.form \in {"stub", "none"} THEN <<>> ELSE raw.core

Part(v, i) == IF i \in DOMAIN v THEN v[i] ELSE 0

\* _cmp: tuples of one length, the shorter padded with zeros.
Less(a, b) ==
  LET differ == {i \in DOMAIN a \cup DOMAIN b : Part(a, i) # Part(b, i)}
  IN  differ # {} /\ Part(a, Min(differ)) < Part(b, Min(differ))

\* in_range
InRange(v, r) ==
  /\ r.start # <<>> => IF r.startInc THEN ~ Less(v, r.start) ELSE Less(r.start, v)
  /\ r.end # <<>> => IF r.endInc THEN ~ Less(r.end, v) ELSE Less(v, r.end)

RangeOf(m) ==
  IF m.exact # NoRaw
  THEN [start |-> Normalize(m.exact), startInc |-> TRUE, end |-> Normalize(m.exact), endInc |-> TRUE]
  ELSE [start |-> Normalize(m.start), startInc |-> m.startInc,
        end |-> Normalize(m.end), endInc |-> m.endInc]

\* An entry without a version that parses, and without a bound that does, is no range.
Bounded(m) == RangeOf(m).start # <<>> \/ RangeOf(m).end # <<>>

About(c, product) == {m \in NvdOf[c] : m.product = product /\ m.vulnerable}

\* fetch_cpe_ranges
CpeRanges(c, product) == {RangeOf(m) : m \in {e \in About(c, product) : Bounded(e)}}

\* Slip: what falls in no range is patched, and so is what has no range.
Trusting(raw, ranges) ==
  IF \E r \in ranges : InRange(Normalize(raw), r) THEN "vulnerable" ELSE "patched"

\* disposition_version
Disposition(raw, ranges) ==
  CASE ranges = {} \/ Normalize(raw) = <<>> -> "unknown"
    [] \E r \in ranges : InRange(Normalize(raw), r) -> "vulnerable"
    [] OTHER -> "patched"

\* The same said apart from the code: versions in the order of a dictionary, a pre-release
\* just before its release, and what cannot be read as what may be true.
Precedes(a, b) ==
  \E n \in DOMAIN b : Part(a, n) < Part(b, n) /\ \A i \in 1..(n - 1) : Part(a, i) = Part(b, i)

Same(a, b) == \A i \in DOMAIN a \cup DOMAIN b : Part(a, i) = Part(b, i)

Earlier(x, y) ==
  Precedes(x.core, y.core) \/ (Same(x.core, y.core) /\ x.form = "pre" /\ y.form # "pre")

Even(x, y) == Same(x.core, y.core) /\ (x.form = "pre" <=> y.form = "pre")

Affects(m, raw) ==
  \/ Normalize(raw) = <<>> \/ raw.form = "really"
  \/ m.exact # NoRaw /\ (Normalize(m.exact) = <<>> \/ Even(raw, m.exact))
  \/ /\ m.exact = NoRaw
     /\ Normalize(m.start) = <<>> \/ Earlier(m.start, raw) \/ (m.startInc /\ Even(m.start, raw))
     /\ Normalize(m.end) = <<>> \/ Earlier(raw, m.end) \/ (m.endInc /\ Even(raw, m.end))

----------------------------------------------------------------------------
\* The cases.

NoCase == [leg |-> <<>>, sourced |-> FALSE, status |-> "none", scored |-> FALSE, notes |-> {},
           by |-> "none", wrong |-> FALSE, doubt |-> {}]

NewCase(leg) == [leg |-> leg, sourced |-> TRUE, status |-> "open", scored |-> FALSE, notes |-> {},
                 by |-> "none", wrong |-> FALSE, doubt |-> {}]

Open(i) == cases[i].status = "open"

\* Open, and with the source that says whose it is.
Sourced(i) == Open(i) /\ cases[i].sourced

OpenOf(leg) == {i \in Ids : Sourced(i) /\ cases[i].leg = leg}

\* Slip: a closed case too absorbs the match.
EverOf(leg) == {i \in Ids : cases[i].leg = leg}

\* _open_intel_case: open, of the agent, and of the vulnerability.
OpenIntelCase(leg) == OpenOf(leg)

\* The cases with a vulnerability in their title, open or not, with a source or without.
Mentions(c) == {i \in Ids : cases[i].status # "none" /\ cases[i].leg[1] = c}

\* append_event when its read fails: what the receipts tell, which is no source, is written back.
Unsources(i) == Spend("faults") /\ cases' = [cases EXCEPT ![i].sourced = FALSE]

\* An event nobody here looks for.
Appends(i) == UNCHANGED <<cases, spent>> \/ Unsources(i)

----------------------------------------------------------------------------
Rest == [pc |-> "rest"]

At(r, pc) == pass[r].pc = pc

Becomes(r, state) == pass' = [pass EXCEPT ![r] = state]

\* A subset of `all` as one page shows it; nothing says which.
Page(all, size) == {p \in SUBSET all : Cardinality(p) = IF Cardinality(all) < size THEN Cardinality(all) ELSE size}

\* match_kev and the loops of mint_match_cases: every vulnerability whose product an agent has.
Matches(page) ==
  {leg \in Legs : leg[1] \in catalogue /\ \E x \in page : x.product = ProductOf[leg[1]] /\ x.agent = leg[2]}

IntelInit ==
  /\ catalogue \in Catalogues
  /\ inventory \in Fleets
  /\ packs = [c \in Cves |-> {}]
  /\ cases = [i \in Ids |-> NoCase]
  /\ pass = [r \in Passes |-> Rest]
  /\ spent = [b \in DOMAIN Bounds |-> 0]

\* run_intel to stage_packs: a pack for each match that has none, neither staged nor live.
\* A feed, an inventory or a directory that fails ends the run before anything is written.
Ingest(r) ==
  /\ At(r, "rest")
  /\ r = "hand" => Spend("acts")
  /\ r = "timer" => UNCHANGED spent
  /\ \E page \in Page(inventory, PageSize) :
       LET legs == Matches(page) IN
         /\ packs' = [c \in Cves |-> IF packs[c] = {} /\ \E leg \in legs : leg[1] = c
                                      THEN {"staged"} ELSE packs[c]]
         /\ Becomes(r, [pc |-> "mint", todo |-> legs, cves |-> {leg[1] : leg \in legs}])
  /\ UNCHANGED <<catalogue, inventory, cases>>

\* mint_match_cases, one pair, in the catalogue's order: an open case gets one more event.
\* A scan that fails finds none.
MintLook(r) ==
  /\ At(r, "mint") /\ pass[r].todo # {}
  /\ LET leg == CHOOSE x \in pass[r].todo : TRUE
         rest == pass[r].todo \ {leg}
     IN  \/ /\ \E i \in OpenIntelCase(leg) : Appends(i)
            /\ Becomes(r, [pass[r] EXCEPT !.todo = rest])
         \/ \E blind \in BOOLEAN :
              /\ IF blind THEN Spend("faults") ELSE OpenIntelCase(leg) = {} /\ UNCHANGED spent
              /\ Becomes(r, [pc |-> "open", todo |-> rest, cves |-> pass[r].cves, leg |-> leg])
              /\ UNCHANGED cases
  /\ UNCHANGED <<catalogue, inventory, packs>>

\* The identifiers a new case of a vulnerability can have: those of no case, and, so that there
\* is always one, that of a closed case of the same vulnerability no run holds, where a search
\* does not return all the cases without it either.
Free(c) ==
  {i \in Ids : \/ cases[i].status = "none"
              \/ /\ cases[i].status = "closed" /\ cases[i].leg[1] = c
                 /\ Cardinality(Mentions(c)) > SearchLimit
                 /\ \A r \in Passes : /\ pass[r].pc \in {"judge", "evidence"} => i \notin DOMAIN pass[r].read
                                      /\ At(r, "evidence") => pass[r].case # i}

\* What the run does next for these vulnerabilities: with none left, it goes on to the versions.
Enriches(cves) == IF cves = {} THEN [pc |-> "list"] ELSE [pc |-> "enrich", cves |-> cves]

\* open_case.
MintOpen(r) ==
  /\ At(r, "open")
  /\ Free(pass[r].leg[1]) # {}
  /\ cases' = [cases EXCEPT ![Min(Free(pass[r].leg[1]))] =
                 NewCase(pass[r].leg)]
  /\ Becomes(r, [pc |-> "mint", todo |-> pass[r].todo, cves |-> pass[r].cves])
  /\ UNCHANGED <<catalogue, inventory, packs, spent>>

\* The end of the loop, or of its patience: a write that fails ends it for all pairs.
MintEnds(r) ==
  /\ \/ At(r, "mint") /\ pass[r].todo = {} /\ UNCHANGED spent
     \/ At(r, "mint") /\ pass[r].todo # {} /\ Spend("faults")
     \/ At(r, "open") /\ Spend("faults")
  /\ Becomes(r, Enriches(pass[r].cves))
  /\ UNCHANGED <<catalogue, inventory, packs, cases>>

\* _nvd_enrich, one vulnerability, in the catalogue's order: of the cases one search for it
\* returns, the open ones that have their source.  The NVD or the read of a case does not
\* answer, and the next is tried; the search or a write raises, and those left are given up.
Enrich(r) ==
  /\ At(r, "enrich")
  /\ LET c == CHOOSE x \in pass[r].cves : TRUE
         rest == pass[r].cves \ {c}
     IN  \E hits \in Page(Mentions(c), SearchLimit) : \E done \in SUBSET {i \in hits : Sourced(i)} :
           /\ cases' = [i \in Ids |-> [cases[i] EXCEPT !.scored = @ \/ i \in done]]
           /\ \/ done = {i \in hits : Sourced(i)} /\ UNCHANGED spent /\ Becomes(r, Enriches(rest))
              \/ Spend("faults") /\ \E left \in {rest, {}} : Becomes(r, Enriches(left))
  /\ UNCHANGED <<catalogue, inventory, packs>>

\* The version map: the last record of a product on an agent wins, and which is last
\* nothing says.  An inventory that cannot be read is empty.
Seen(page, leg) ==
  LET found == {x.raw : x \in {y \in page : y.product = ProductOf[leg[1]] /\ y.agent = leg[2]}}
  IN  IF found = {} THEN {NoRaw} ELSE found

\* _disposition_open_intel_cases to its loop: the versions, and a copy of every open case
\* among those the search returns.  A search that fails returns none, and a case whose read
\* fails has no source to be listed by.
List(r) ==
  /\ At(r, "list")
  /\ \E page \in Page(inventory, PageSize) \cup {{}},
        found \in Page({i \in Ids : cases[i].status # "none"}, ListLimit) :
      \E listed \in SUBSET {i \in found : Sourced(i)} :
       LET failed == page \notin Page(inventory, PageSize) \/ listed # {i \in found : Sourced(i)}
       IN  /\ IF failed THEN Spend("faults") ELSE UNCHANGED spent
           /\ \E version \in {v \in [Legs -> {x.raw : x \in page} \cup {NoRaw}] : \A leg \in Legs : v[leg] \in Seen(page, leg)} :
                Becomes(r, [pc |-> "judge", read |-> [i \in listed |-> [raw |-> version[cases[i].leg], notes |-> cases[i].notes]]])
  /\ UNCHANGED <<catalogue, inventory, packs, cases>>

\* An entry that begins after a pre-release, and so with its release, which the code, for which
\* the two are one version, leaves out.
AfterPre(m) == m.start.form = "pre" /\ ~ m.startInc

\* History: what the inventory says of the pair when its case is closed, and why a closing
\* by the check may be wrong.
OnRecord(leg) == {x.raw : x \in {y \in inventory : y.product = ProductOf[leg[1]] /\ y.agent = leg[2]}}

Wrong(leg) == \E raw \in OnRecord(leg), m \in About(leg[1], ProductOf[leg[1]]) : Affects(m, raw)

Doubts == {"moved", "twin", "prerelease", "really", "unread", "all"}

\* An entry for every version of the product, which the code, for which it has no bound, drops.
OfAll(m) == m.exact = NoRaw /\ m.start = NoRaw /\ m.end = NoRaw

Doubt(leg, raw) ==
  {d \in Doubts :
     \/ d = "moved" /\ raw \notin OnRecord(leg)
     \/ d = "twin" /\ Cardinality(OnRecord(leg)) > 1
     \/ d = "prerelease" /\ (raw.form = "pre" \/ \E m \in About(leg[1], ProductOf[leg[1]]) : AfterPre(m))
     \/ d = "really" /\ raw.form = "really"
     \/ d = "unread" /\ \E m \in About(leg[1], ProductOf[leg[1]]) : ~ Bounded(m) /\ ~ OfAll(m)
     \/ d = "all" /\ \E m \in About(leg[1], ProductOf[leg[1]]) : OfAll(m)}

\* One listed case: its ranges, which a fetch that fails does not return, and what they say
\* of the version that was read.  A patched case is closed by close_case, which raises when
\* the case has been closed meanwhile and so ends the run; of the other verdicts the case is
\* told once, by the copy that was read.  Either write reads the case again, and loses its
\* source where that read fails.
Judge(r) ==
  /\ At(r, "judge") /\ pass[r].read # <<>>
  /\ LET i == Min(DOMAIN pass[r].read)
         leg == cases[i].leg
         raw == pass[r].read[i].raw
         all == CpeRanges(leg[1], ProductOf[leg[1]])
         others == [j \in DOMAIN pass[r].read \ {i} |-> pass[r].read[j]]
     IN  \E ranges \in {all, {}}, lost \in BOOLEAN :
           LET verdict == Disposition(raw, ranges) IN
             /\ IF ranges # all \/ lost THEN Spend("faults") ELSE UNCHANGED spent
             /\ \/ /\ verdict = "patched" /\ Open(i)
                   /\ cases' = [cases EXCEPT ![i].status = "closed", ![i].by = "intel",
                                  ![i].sourced = @ /\ ~ lost,
                                  ![i].wrong = Wrong(leg), ![i].doubt = Doubt(leg, raw)]
                   /\ Becomes(r, [pc |-> "evidence", case |-> i, read |-> others])
                \/ /\ verdict = "patched" /\ ~ Open(i)
                   /\ Becomes(r, Rest) /\ UNCHANGED cases
                \/ /\ verdict # "patched"
                   /\ cases' = IF verdict \in pass[r].read[i].notes THEN cases
                               ELSE [cases EXCEPT ![i].notes = @ \cup {verdict}, ![i].sourced = @ /\ ~ lost]
                   /\ Becomes(r, [pass[r] EXCEPT !.read = others])
  /\ UNCHANGED <<catalogue, inventory, packs>>

\* Slip: told once, like the other verdicts, and by the wrong list.
EvidenceOnce(r) ==
  /\ At(r, "evidence")
  /\ cases' = IF cases[pass[r].case].notes # {} THEN cases
              ELSE [cases EXCEPT ![pass[r].case].notes = @ \cup {"checked"}]
  /\ Becomes(r, [pc |-> "judge", read |-> pass[r].read])
  /\ UNCHANGED <<catalogue, inventory, packs, spent>>

\* The "version_check" event comes after the closing.
Evidence(r) ==
  /\ At(r, "evidence")
  /\ cases' = [cases EXCEPT ![pass[r].case].notes = @ \cup {"checked"}]
  /\ Becomes(r, [pc |-> "judge", read |-> pass[r].read])
  /\ UNCHANGED <<catalogue, inventory, packs, spent>>

Ends(r) ==
  /\ At(r, "judge") /\ pass[r].read = <<>>
  /\ Becomes(r, Rest)
  /\ UNCHANGED <<catalogue, inventory, packs, cases, spent>>

\* A run dies, or a write of its last phase fails.
Crash(r) ==
  /\ ~ At(r, "rest") /\ Spend("faults")
  /\ cases' = IF At(r, "evidence") THEN [cases EXCEPT ![pass[r].case].notes = @ \cup {"torn"}] ELSE cases
  /\ Becomes(r, Rest)
  /\ UNCHANGED <<catalogue, inventory, packs>>

----------------------------------------------------------------------------
\* People, and the world.

\* The console or another role closes a case.
Close(i) ==
  /\ Open(i) /\ Spend("acts")
  /\ cases' = [cases EXCEPT ![i].status = "closed", ![i].by = "human"]
  /\ UNCHANGED <<catalogue, inventory, packs, pass>>

\* A person promotes a staged pack, or throws it away.
Review(c) ==
  /\ "staged" \in packs[c] /\ Spend("acts")
  /\ packs' \in {[packs EXCEPT ![c] = {"live"}], [packs EXCEPT ![c] = {}]}
  /\ UNCHANGED <<catalogue, inventory, cases, pass>>

\* Another role appends to a case on a read that failed.
Overwrite(i) ==
  /\ Sourced(i) /\ Unsources(i)
  /\ UNCHANGED <<catalogue, inventory, packs, pass>>

\* A package is removed, upgraded, or installed beside another version of it.
Shift ==
  /\ Spend("acts")
  /\ \E x \in inventory : \E v \in VersionsOf[x.product] :
       inventory' \in {inventory \ {x}, (inventory \ {x}) \cup {[x EXCEPT !.raw = v]}, inventory \cup {[x EXCEPT !.raw = v]}}
  /\ UNCHANGED <<catalogue, packs, cases, pass>>

Publish(c) ==
  /\ c \notin catalogue /\ Spend("acts")
  /\ catalogue' = catalogue \cup {c}
  /\ UNCHANGED <<inventory, packs, cases, pass>>

Step(r) ==
  Ingest(r) \/ MintLook(r) \/ MintOpen(r) \/ MintEnds(r) \/ Enrich(r) \/ List(r) \/ Judge(r) \/ Evidence(r) \/ Ends(r)

World == Shift \/ (\E c \in Cves : Review(c) \/ Publish(c)) \/ (\E i \in Ids : Close(i) \/ Overwrite(i)) \/ (\E r \in Passes : Crash(r))

IntelNext == World \/ \E r \in Passes : Step(r)

\* ssop-intel.timer starts a run every day.
IntelSpec == IntelInit /\ [][IntelNext]_intelVars /\ WF_intelVars(Step("timer"))

----------------------------------------------------------------------------
\* A case the version check closes is one whose installed version nothing the NVD lists
\* affects, by an order of versions stated apart from the code.  Where it is not, the package
\* changed since the inventory was read, the agent has the product twice, the version is a
\* pre-release or an entry of the NVD begins after one, the upstream version follows "+really",
\* an entry has no version that can be read, or is for all of them: the code drops these last
\* two, and closes on what is left (disposition_version, in_range, _cmp, fetch_cpe_ranges).
ClosingIsEarned ==
  \A i \in Ids : cases[i].by = "intel" /\ cases[i].wrong => cases[i].doubt # {}

\* A case the version check closes gets the event that says which version it was closed on, and
\* has none for as long as the run is between the two writes, or because it ended there.
ClosingIsExplained ==
  \A i \in Ids : cases[i].by = "intel" =>
    \/ cases[i].notes \cap {"checked", "torn"} # {}
    \/ \E r \in Passes : At(r, "evidence") /\ pass[r].case = i

\* A product an agent keeps, of a vulnerability in the catalogue, is shown again and again by
\* an open case, whoever closes one, whichever phase of a run fails and whichever case loses
\* its source, as long as a query returns the whole inventory; and by a case with its score as
\* long as the search for the vulnerability returns all its cases, the closed ones included.
ExposureIsShown ==
  \A leg \in Legs :
    []<>(leg \in Matches(inventory) /\ Cardinality(inventory) <= PageSize
           => \E i \in OpenOf(leg) : Cardinality(Mentions(leg[1])) <= SearchLimit => cases[i].scored)

\* What is said and does not hold, "Absence of parseable evidence is never treated as safety"
\* (intel_tools.py:332): no case is closed while an entry for its product could not be read.
AbsenceIsNotSafety ==
  \A i \in Ids : cases[i].by = "intel" => cases[i].doubt \cap {"unread", "all"} = {}
=============================================================================
