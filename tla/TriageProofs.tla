---------------------------- MODULE TriageProofs ----------------------------
(***************************************************************************)
(* Theorems of Triage, for any alerts, ledgers and bounds: that what the   *)
(* ledger silences stays quiet on both paths, and that no agent opens a    *)
(* second case of one incident by itself.                                  *)
(***************************************************************************)
EXTENDS Triage, SequenceTheorems, TLAPS

----------------------------------------------------------------------------
\* Types.

Ledgers == [Rules -> UNION {LedgerOf[r] : r \in Rules}]

Pairs == {a.pair : a \in Alerts} \cup {NoPair}

Categories ==
  {a.category : a \in Alerts} \cup {a.map.category : a \in Alerts} \cup {"operational", "security"}

CaseShapes ==
  [opener : Agents, kind : {"security", "infra"}, host : Hosts, rule : Rules,
   category : Categories, pair : Pairs, chained : BOOLEAN, lab : BOOLEAN,
   state : {"open", "decided", "closed"}, by : {"", "router", "human"},
   decision : {"", "approve", "operational", "deny"}, fresh : BOOLEAN, told : BOOLEAN, sourced : BOOLEAN]

Outcomes ==
  [act : {"mint", "attach"}, case : Nat, lab : BOOLEAN, chained : BOOLEAN, pair : Pairs]

Held == [pc : {"new", "analyst", "infra"}, alert : Alerts, covered : BOOLEAN, missed : BOOLEAN]

Judged == [pc : {"record", "ticket"}, alert : Alerts, covered : BOOLEAN, missed : BOOLEAN,
           outcome : Outcomes]

Serving == [pc : {"infra-record", "dispose", "heal"}, alert : Alerts, covered : BOOLEAN,
            missed : BOOLEAN, case : Nat, copy : CaseShapes]

LapseShapes == [scans : Nat, library : Nat, errors : SUBSET Alerts]

States == {Rest} \cup Held \cup Judged \cup Serving

TypeInv ==
  /\ ledger \in Ledgers
  /\ cases \in Seq(CaseShapes)
  /\ agent \in [Agents -> States]
  /\ lapses \in LapseShapes

\* An alert is of a rule the ledger knows.
LEMMA AlertTyped ==
  ASSUME NEW a \in Alerts
  PROVE  /\ a.rule \in Rules /\ a.host \in Hosts /\ a.pair \in Pairs /\ NoPair \in Pairs
         /\ a.category \in Categories /\ a.map.category \in Categories
         /\ "operational" \in Categories /\ "security" \in Categories
         /\ a.map.role \in {"none", "analyst", "infra"}
BY TriageAssumption DEF Rules, Hosts, Pairs, Categories

\* Where an agent is says what it holds.
LEMMA Where ==
  ASSUME TypeInv, NEW g \in Agents
  PROVE  /\ agent[g] \in States
         /\ At(g, "rest") <=> agent[g] = Rest
         /\ agent[g].pc \in {"new", "analyst", "infra"} => agent[g] \in Held
         /\ agent[g].pc \in {"record", "ticket"} => agent[g] \in Judged
         /\ agent[g].pc \in {"infra-record", "dispose", "heal"} => agent[g] \in Serving
         /\ ~ At(g, "rest") => agent[g].alert \in Alerts
BY DEF TypeInv, States, Rest, Held, Judged, Serving, At

\* A step of one agent is a step of that agent.
LEMMA Moved ==
  ASSUME TypeInv, NEW g \in Agents, NEW state, Becomes(g, state)
  PROVE  /\ agent'[g] = state /\ \A h \in Agents \ {g} : agent'[h] = agent[h]
         /\ state \in States => agent' \in [Agents -> States]
BY DEF TypeInv, Becomes

\* Failures only add to what is counted, and a scan that fails is counted.
LEMMA Counted ==
  ASSUME TypeInv, NEW r, NEW seen, NEW scan \in BOOLEAN, Consults(r, seen, scan)
  PROVE  /\ lapses' \in LapseShapes
         /\ lapses'.scans = 0 => lapses.scans = 0 /\ scan
BY DEF TypeInv, LapseShapes, Consults

----------------------------------------------------------------------------
\* What a step may do to the cases.

\* What no step changes of a case, and that what is out of sight stays so.
Persists(c, d) ==
  /\ d.opener = c.opener /\ d.pair = c.pair /\ d.host = c.host /\ d.rule = c.rule
  /\ d.chained = c.chained
  /\ d.state # "closed" => c.state # "closed"
  /\ d.fresh => c.fresh
  /\ d.sourced => c.sourced

Kept ==
  /\ DOMAIN cases' = DOMAIN cases
  /\ \A i \in DOMAIN cases : Persists(cases[i], cases'[i])

LEMMA Replaced ==
  ASSUME TypeInv, NEW i \in DOMAIN cases, NEW c \in CaseShapes, Persists(cases[i], c),
         cases' = [cases EXCEPT ![i] = c]
  PROVE  cases' \in Seq(CaseShapes) /\ Kept
<1>1. i \in 1..Len(cases) /\ DOMAIN cases = 1..Len(cases)
  BY DEF TypeInv
<1>2. cases' \in Seq(CaseShapes) /\ DOMAIN cases' = DOMAIN cases
  BY <1>1, ExceptSeq DEF TypeInv
<1>3. \A j \in DOMAIN cases : cases'[j] = IF j = i THEN c ELSE cases[j]
  OBVIOUS
<1> QED
  BY <1>2, <1>3 DEF Kept, Persists

\* A ticket, a decision.
LEMMA TicketKeeps ==
  ASSUME TypeInv, NEW i, Ticketed(i)
  PROVE  cases' \in Seq(CaseShapes) /\ Kept
<1>1. CASE i \notin DOMAIN cases
  <2>1. cases' = cases
    BY <1>1 DEF Ticketed, TypeInv
  <2> QED
    BY <2>1 DEF Kept, Persists, TypeInv
<1>2. CASE i \in DOMAIN cases
  <2> DEFINE c == [cases[i] EXCEPT !.told = TRUE]
  <2>1. cases[i] \in CaseShapes
    BY <1>2 DEF TypeInv
  <2>2. c \in CaseShapes /\ Persists(cases[i], c)
    BY <2>1 DEF CaseShapes, Persists
  <2>3. cases' = [cases EXCEPT ![i] = c]
    BY <1>2 DEF Ticketed
  <2> HIDE DEF c
  <2> QED
    BY <1>2, <2>2, <2>3, Replaced
<1> QED
  BY <1>1, <1>2

LEMMA SettleKeeps ==
  ASSUME TypeInv, NEW i \in DOMAIN cases, Decidable(i), NEW state \in {"decided", "closed"},
         NEW by \in {"router", "human"}, NEW decision \in {"approve", "operational", "deny"},
         cases' = [cases EXCEPT ![i].state = state, ![i].by = by, ![i].decision = decision]
  PROVE  cases' \in Seq(CaseShapes) /\ Kept
<1> DEFINE c == [cases[i] EXCEPT !.state = state, !.by = by, !.decision = decision]
<1>1. cases[i] \in CaseShapes /\ cases[i].state = "open"
  BY DEF TypeInv, Decidable
<1>2. c \in CaseShapes /\ Persists(cases[i], c)
  BY <1>1 DEF CaseShapes, Persists
<1>3. cases' = [cases EXCEPT ![i] = c]
  OBVIOUS
<1> HIDE DEF c
<1> QED
  BY <1>2, <1>3, Replaced

\* A case that is opened is the last one.
LEMMA OpenedLast ==
  ASSUME TypeInv, NEW c \in CaseShapes, cases' = Append(cases, c)
  PROVE  /\ cases' \in Seq(CaseShapes)
         /\ DOMAIN cases' = DOMAIN cases \cup {Len(cases) + 1}
         /\ Len(cases) + 1 \in Nat /\ Len(cases) + 1 \notin DOMAIN cases
         /\ \A i \in DOMAIN cases : cases'[i] = cases[i]
         /\ cases'[Len(cases) + 1] = c
<1>1. cases \in Seq(CaseShapes) /\ Len(cases) \in Nat /\ DOMAIN cases = 1..Len(cases)
  BY DEF TypeInv
<1>2. /\ cases' \in Seq(CaseShapes) /\ Len(cases') = Len(cases) + 1
      /\ \A i \in 1..Len(cases) : cases'[i] = cases[i]
      /\ cases'[Len(cases) + 1] = c
  BY <1>1, AppendProperties
<1>3. DOMAIN cases' = 1..(Len(cases) + 1)
  BY <1>2
<1> QED
  BY <1>1, <1>2, <1>3

\* What is opened of an alert, with the pair of the verdict.
LEMMA OpenedTyped ==
  ASSUME NEW g \in Agents, NEW kind \in {"security", "infra"}, NEW a \in Alerts,
         NEW category \in Categories, NEW o, o.pair \in Pairs, o.chained \in BOOLEAN, o.lab \in BOOLEAN
  PROVE  LET c == Opened(g, kind, a, category, o) IN
         /\ c \in CaseShapes /\ c.opener = g /\ c.host = a.host /\ c.rule = a.rule
         /\ c.pair = o.pair /\ c.chained = o.chained
BY AlertTyped DEF Opened, CaseShapes

----------------------------------------------------------------------------
\* What a verdict comes to.

LEMMA ActingTyped ==
  ASSUME NEW chain \in SUBSET Nat, NEW outcome \in Outcomes, outcome.act = "mint",
         NEW o \in Acting(chain, outcome)
  PROVE  /\ o \in Outcomes
         /\ o.act = "mint" => chain = {}
         /\ o.chained = outcome.chained /\ o.pair = outcome.pair /\ o.lab = outcome.lab
<1>1. CASE o = outcome /\ chain = {}
  BY <1>1
<1>2. CASE \E i \in chain : o = [outcome EXCEPT !.act = "attach", !.case = i]
  BY <1>2 DEF Outcomes
<1> QED
  BY <1>1, <1>2 DEF Acting

LEMMA MintingTyped ==
  ASSUME NEW lab \in BOOLEAN, NEW chained \in BOOLEAN, NEW pair \in Pairs
  PROVE  LET o == Minting(lab, chained, pair) IN
         /\ o \in Outcomes /\ o.act = "mint" /\ o.lab = lab /\ o.chained = chained /\ o.pair = pair
BY DEF Minting, Outcomes

LEMMA ChainsTyped ==
  ASSUME TypeInv, NEW a
  PROVE  OfPair(a) \in SUBSET Nat /\ OfHost(a) \in SUBSET Nat /\ ChainTo(a) \in SUBSET Nat
BY DEF TypeInv, OfPair, OfHost, ChainTo, Fresh

\* What one incident's cases have in common, of a case and of what an alert would open.
KeyOf(a, pair) == IF pair # NoPair THEN <<pair>> ELSE <<a.host, a.rule>>

\* A case its agent's lookups are to find.
InSight(c) == c.chained /\ c.state # "closed" /\ c.fresh /\ c.sourced

\* Nothing in sight is of that incident.
Alone(a, pair) == \A i \in DOMAIN cases : InSight(cases[i]) => Key(cases[i]) # KeyOf(a, pair)

\* A lookup that finds nothing says so.
LEMMA NothingOnHost ==
  ASSUME NEW a, Fresh(OfHost(a)) = {} PROVE Alone(a, NoPair)
<1> SUFFICES ASSUME NEW i \in DOMAIN cases, InSight(cases[i]), Key(cases[i]) = KeyOf(a, NoPair)
             PROVE  FALSE
  BY DEF Alone
<1>1. cases[i].host = a.host /\ cases[i].rule = a.rule
  BY DEF Key, KeyOf
<1>2. i \in OfHost(a)
  BY <1>1 DEF OfHost, Sourced, Live, InSight
<1> QED
  BY <1>2 DEF Fresh, InSight

LEMMA NothingOfPair ==
  ASSUME NEW a, a.pair # NoPair, OfPair(a) = {} PROVE Alone(a, a.pair)
<1> SUFFICES ASSUME NEW i \in DOMAIN cases, InSight(cases[i]), Key(cases[i]) = KeyOf(a, a.pair)
             PROVE  FALSE
  BY DEF Alone
<1>1. cases[i].pair = a.pair
  BY DEF Key, KeyOf
<1> QED
  BY <1>1 DEF OfPair, Sourced, Live, InSight

\* The verdict of an alert that is silenced, or has no more to it, is nothing; a case that
\* is to be opened and looked for later is opened because the lookup found none.
LEMMA VerdictSays ==
  ASSUME TypeInv, NEW a \in Alerts, NEW e, NEW scan \in BOOLEAN,
         NEW o \in Verdict(a, e, scan), o # Note
  PROVE  /\ o \in Outcomes
         /\ Suppresses(e, a) => a.lab
         /\ scan /\ o.act = "mint" /\ o.chained => Alone(a, o.pair)
<1> DEFINE seen(chain) == IF scan THEN chain ELSE {}
<1>1. CASE a.listed # "none" \/ a.drill
  BY <1>1 DEF Verdict
<1>2. CASE ~ (a.listed # "none" \/ a.drill) /\ a.lab
  <2>1. o \in Acting(seen(OfHost(a)), Minting(TRUE, TRUE, NoPair))
    BY <1>2 DEF Verdict
  <2>2. seen(OfHost(a)) \in SUBSET Nat
    BY ChainsTyped
  <2> DEFINE whole == Minting(TRUE, TRUE, NoPair)
  <2>3. whole \in Outcomes /\ whole.act = "mint" /\ whole.pair = NoPair
    BY MintingTyped, AlertTyped
  <2>4. o \in Outcomes /\ o.pair = NoPair /\ (o.act = "mint" => seen(OfHost(a)) = {})
    <3> HIDE DEF whole, seen
    <3>1. o \in Acting(seen(OfHost(a)), whole)
      BY <2>1 DEF whole, seen
    <3> QED
      BY <2>2, <2>3, <3>1, ActingTyped
  <2>5. scan /\ seen(OfHost(a)) = {} => Fresh(OfHost(a)) = {}
    BY DEF Fresh
  <2> QED
    BY <1>2, <2>4, <2>5, NothingOnHost
<1>3. CASE ~ (a.listed # "none" \/ a.drill) /\ ~ a.lab /\ Authority(e)
  <2>1. o = IF Suppresses(e, a) THEN Note ELSE Minting(FALSE, FALSE, NoPair)
    BY <1>3 DEF Verdict
  <2>2. ~ Suppresses(e, a) /\ o = Minting(FALSE, FALSE, NoPair)
    BY <2>1
  <2> QED
    BY <2>2, MintingTyped, AlertTyped
<1>4. CASE ~ (a.listed # "none" \/ a.drill) /\ ~ a.lab /\ ~ Authority(e)
  <2>1. ~ Suppresses(e, a)
    BY <1>4 DEF Authority, Suppresses
  <2>2. o \in Acting(seen(ChainTo(a)), Minting(FALSE, TRUE, a.pair))
    BY <1>4 DEF Verdict
  <2>3. seen(ChainTo(a)) \in SUBSET Nat
    BY ChainsTyped
  <2> DEFINE whole == Minting(FALSE, TRUE, a.pair)
  <2>4. whole \in Outcomes /\ whole.act = "mint" /\ whole.pair = a.pair
    BY MintingTyped, AlertTyped
  <2>5. o \in Outcomes /\ o.pair = a.pair /\ (o.act = "mint" => seen(ChainTo(a)) = {})
    <3> HIDE DEF whole, seen
    <3>1. o \in Acting(seen(ChainTo(a)), whole)
      BY <2>2 DEF whole, seen
    <3> QED
      BY <2>3, <2>4, <3>1, ActingTyped
  <2>6. ASSUME scan, o.act = "mint" PROVE Alone(a, a.pair)
    <3>1. ChainTo(a) = {}
      BY <2>5, <2>6
    <3>2. CASE a.pair # NoPair
      BY <3>1, <3>2, NothingOfPair DEF ChainTo
    <3>3. CASE a.pair = NoPair
      BY <3>1, <3>3, NothingOnHost DEF ChainTo
    <3> QED
      BY <3>2, <3>3
  <2> QED
    BY <2>1, <2>5, <2>6
<1> QED
  BY <1>1, <1>2, <1>3, <1>4

----------------------------------------------------------------------------
\* What the two agents do alike.

\* An agent holds an alert: the flags that go with it are truth values.
LEMMA HeldFlags ==
  ASSUME TypeInv, NEW g \in Agents, ~ At(g, "rest")
  PROVE  agent[g].alert \in Alerts /\ agent[g].covered \in BOOLEAN /\ agent[g].missed \in BOOLEAN
BY DEF TypeInv, States, Held, Judged, Serving, At, Rest

\* A judged alert is let go, or its outcome is to be put on record.
LEMMA Judging ==
  ASSUME TypeInv, NEW g \in Agents, ~ At(g, "rest"), Judges(g)
  PROVE  /\ agent' \in [Agents -> States] /\ lapses' \in LapseShapes
         /\ lapses'.scans = 0 => lapses.scans = 0
         /\ \A h \in Agents \ {g} : agent'[h] = agent[h]
         /\ \/ agent'[g] = Rest
            \/ /\ agent'[g].pc = "record" /\ agent'[g].alert = agent[g].alert
               /\ agent'[g].covered = agent[g].covered
               /\ agent'[g].missed \/ agent[g].alert.lab
                    \/ ~ Suppresses(ledger[agent[g].alert.rule], agent[g].alert)
               /\ lapses'.scans = 0 /\ agent'[g].outcome.act = "mint" /\ agent'[g].outcome.chained
                    => Alone(agent[g].alert, agent'[g].outcome.pair)
<1> DEFINE a == agent[g].alert
<1>1. PICK seen \in Answers(a.rule), scan \in BOOLEAN :
        /\ Consults(a.rule, seen, scan)
        /\ \E o \in Verdict(a, seen, scan) :
             Becomes(g, IF ~ Acted(g, o) THEN Rest
                        ELSE [pc |-> "record", alert |-> a, covered |-> agent[g].covered,
                              missed |-> agent[g].missed \/ seen # ledger[a.rule], outcome |-> o])
  BY DEF Judges
<1>2. PICK o \in Verdict(a, seen, scan) :
        Becomes(g, IF ~ Acted(g, o) THEN Rest
                   ELSE [pc |-> "record", alert |-> a, covered |-> agent[g].covered,
                         missed |-> agent[g].missed \/ seen # ledger[a.rule], outcome |-> o])
  BY <1>1
<1>3. /\ lapses' \in LapseShapes
      /\ lapses'.scans = 0 => lapses.scans = 0 /\ scan
  BY <1>1, Counted
<1>4. a \in Alerts /\ agent[g].covered \in BOOLEAN /\ agent[g].missed \in BOOLEAN
  BY HeldFlags
<1>5. CASE ~ Acted(g, o)
  <2>1. Becomes(g, Rest) /\ Rest \in States
    BY <1>2, <1>5 DEF States
  <2> QED
    BY <1>3, <2>1, Moved
<1>6. CASE Acted(g, o)
  <2>1. o # Note
    BY <1>6 DEF Acted
  <2>2. /\ o \in Outcomes
        /\ Suppresses(seen, a) => a.lab
        /\ scan /\ o.act = "mint" /\ o.chained => Alone(a, o.pair)
    BY <1>4, <2>1, VerdictSays
  <2> DEFINE missed == agent[g].missed \/ seen # ledger[a.rule]
             new == [pc |-> "record", alert |-> a, covered |-> agent[g].covered,
                     missed |-> missed, outcome |-> o]
  <2>3. missed \in BOOLEAN /\ (seen = ledger[a.rule] \/ missed)
    BY <1>4
  <2>4. Becomes(g, new)
    BY <1>2, <1>6
  <2> HIDE DEF missed, a
  <2>5. new \in Judged /\ new.pc = "record" /\ new.alert = a /\ new.covered = agent[g].covered
        /\ new.missed = missed /\ new.outcome = o
    BY <1>4, <2>2, <2>3 DEF Judged
  <2>6. new \in States
    BY <2>5 DEF States
  <2> HIDE DEF new
  <2>7. agent'[g] = new /\ agent' \in [Agents -> States] /\ \A h \in Agents \ {g} : agent'[h] = agent[h]
    BY <2>4, <2>6, Moved
  <2> QED
    BY <1>3, <2>2, <2>3, <2>5, <2>7 DEF a
<1> QED
  BY <1>5, <1>6

\* What is opened or attached to waits for its ticket.
LEMMA Recording ==
  ASSUME TypeInv, NEW g \in Agents, At(g, "record"), Records(g)
  PROVE  /\ agent' \in [Agents -> States] /\ cases' \in Seq(CaseShapes)
         /\ \A h \in Agents \ {g} : agent'[h] = agent[h]
         /\ agent'[g].pc = "ticket" /\ agent'[g].alert = agent[g].alert
         /\ agent'[g].covered = agent[g].covered /\ agent'[g].missed = agent[g].missed
         /\ \/ cases' = cases
            \/ /\ agent[g].outcome.act = "mint"
               /\ \E c \in CaseShapes :
                    /\ cases' = Append(cases, c) /\ c.opener = g
                    /\ c.chained = agent[g].outcome.chained
                    /\ Key(c) = KeyOf(agent[g].alert, agent[g].outcome.pair)
<1> DEFINE o == agent[g].outcome
           a == agent[g].alert
           on(i) == [agent[g] EXCEPT !.pc = "ticket", !.outcome.case = i]
<1>1. agent[g] \in Judged /\ o \in Outcomes /\ a \in Alerts
  BY Where DEF At, Judged
<1>2. ASSUME NEW i \in Nat, Becomes(g, on(i))
      PROVE  /\ agent' \in [Agents -> States]
             /\ \A h \in Agents \ {g} : agent'[h] = agent[h]
             /\ agent'[g].pc = "ticket" /\ agent'[g].alert = a
             /\ agent'[g].covered = agent[g].covered /\ agent'[g].missed = agent[g].missed
  <2> DEFINE settled == [o EXCEPT !.case = i]
  <2>1. settled \in Outcomes
    BY <1>1 DEF Outcomes
  <2>2. on(i) = [agent[g] EXCEPT !.pc = "ticket", !.outcome = settled]
    BY <1>1 DEF Judged
  <2> HIDE DEF settled
  <2>3. on(i) \in Judged /\ on(i).pc = "ticket" /\ on(i).alert = a
        /\ on(i).covered = agent[g].covered /\ on(i).missed = agent[g].missed
    BY <1>1, <2>1, <2>2 DEF Judged
  <2>4. on(i) \in States
    BY <2>3 DEF States
  <2> HIDE DEF on
  <2> QED
    BY <1>2, <2>3, <2>4, Moved
<1>3. CASE /\ o.act = "mint"
           /\ cases' = Append(cases, Opened(g, "security", a, a.category, o))
           /\ Becomes(g, on(Len(cases) + 1))
  <2> DEFINE c == Opened(g, "security", a, a.category, o)
  <2>1. c \in CaseShapes /\ c.opener = g /\ c.host = a.host /\ c.rule = a.rule
        /\ c.pair = o.pair /\ c.chained = o.chained
    BY <1>1, OpenedTyped, AlertTyped DEF Outcomes
  <2>2. Key(c) = KeyOf(a, o.pair)
    BY <2>1 DEF Key, KeyOf
  <2>3. cases' = Append(cases, c)
    BY <1>3
  <2> HIDE DEF c
  <2>4. cases' \in Seq(CaseShapes) /\ Len(cases) + 1 \in Nat
    BY <2>1, <2>3, OpenedLast
  <2> HIDE DEF on, o, a
  <2>5. Becomes(g, on(Len(cases) + 1)) /\ o.act = "mint"
    BY <1>3
  <2>6. \E d \in CaseShapes : cases' = Append(cases, d) /\ d.opener = g /\ d.chained = o.chained
                              /\ Key(d) = KeyOf(a, o.pair)
    BY <2>1, <2>2, <2>3
  <2> QED
    BY <1>2, <2>4, <2>5, <2>6 DEF o, a
<1>4. CASE o.act = "attach" /\ UNCHANGED cases /\ Becomes(g, on(o.case))
  <2>1. o.case \in Nat /\ cases' = cases
    BY <1>1, <1>4 DEF Outcomes
  <2> QED
    BY <1>2, <1>4, <2>1 DEF TypeInv
<1> QED
  BY <1>3, <1>4 DEF Records

----------------------------------------------------------------------------
\* The inductive invariants.

\* An agent that is past looking has an alert the ledger does not silence, or has not for
\* as long; "covered" says the ledger still does.
Quiet(g) ==
  /\ ~ At(g, "rest") /\ agent[g].covered => Suppresses(ledger[agent[g].alert.rule], agent[g].alert)
  /\ agent[g].pc \in {"record", "ticket", "infra", "infra-record", "dispose"} =>
       ~ agent[g].covered \/ agent[g].missed \/ agent[g].alert.lab

QuietInv == \A g \in Agents : Quiet(g)

\* No case of that incident is in sight of its agent's.
Clear(g, key) ==
  \A i \in DOMAIN cases : InSight(cases[i]) /\ cases[i].opener = g => Key(cases[i]) # key

\* What an agent is about to open is not there yet, as far as it looks.
Looked(g) ==
  /\ agent[g].pc = "record" /\ agent[g].outcome.act = "mint" /\ agent[g].outcome.chained
       => Clear(g, KeyOf(agent[g].alert, agent[g].outcome.pair))
  /\ agent[g].pc = "infra-record" /\ agent[g].case = 0
       => /\ g = "router" /\ agent[g].copy.opener = g
          /\ Key(agent[g].copy) = KeyOf(agent[g].alert, NoPair)
          /\ Clear(g, KeyOf(agent[g].alert, NoPair))

Distinct ==
  \A i, j \in DOMAIN cases :
    i # j /\ InSight(cases[i]) /\ InSight(cases[j]) /\ cases[i].opener = cases[j].opener
      => Key(cases[i]) # Key(cases[j])

TwinInv == lapses.scans = 0 => Distinct /\ \A g \in Agents : Looked(g)

LEMMA RestQuiet ==
  ASSUME NEW g \in Agents, agent[g] = Rest PROVE Quiet(g) /\ Looked(g)
BY DEF Quiet, Looked, At, Rest

LEMMA ClearKept ==
  ASSUME Kept, NEW g, NEW key, Clear(g, key) PROVE Clear(g, key)'
BY DEF Kept, Clear, Persists, InSight, Key

LEMMA DistinctKept == ASSUME Kept, Distinct PROVE Distinct'
BY DEF Kept, Distinct, Persists, InSight, Key

LEMMA SameKept == ASSUME cases' = cases PROVE Kept
BY DEF Kept, Persists

\* An agent that stands still is as quiet, and has looked as well, as it was.
LEMMA StillQuiet ==
  ASSUME NEW h \in Agents, agent'[h] = agent[h], ledger' = ledger, Quiet(h) PROVE Quiet(h)'
BY DEF Quiet, At

LEMMA StillLooked ==
  ASSUME Kept, NEW h \in Agents, agent'[h] = agent[h], Looked(h) PROVE Looked(h)'
BY ClearKept DEF Looked

\* A case one agent opens is not of the other's.
LEMMA OthersOpened ==
  ASSUME TypeInv, NEW c \in CaseShapes, cases' = Append(cases, c),
         NEW h \in Agents, c.opener # h, agent'[h] = agent[h], Looked(h)
  PROVE  Looked(h)'
<1>1. ASSUME NEW key, Clear(h, key) PROVE Clear(h, key)'
  BY <1>1, OpenedLast DEF Clear
<1> QED
  BY <1>1 DEF Looked

LEMMA DistinctOpened ==
  ASSUME TypeInv, NEW c \in CaseShapes, cases' = Append(cases, c),
         Distinct, c.chained => Clear(c.opener, Key(c))
  PROVE  Distinct'
<1>1. /\ DOMAIN cases' = DOMAIN cases \cup {Len(cases) + 1} /\ Len(cases) + 1 \notin DOMAIN cases
      /\ \A i \in DOMAIN cases : cases'[i] = cases[i]
      /\ cases'[Len(cases) + 1] = c
  BY OpenedLast
<1> DEFINE n == Len(cases) + 1
<1> HIDE DEF n
<1>2. /\ DOMAIN cases' = DOMAIN cases \cup {n} /\ n \notin DOMAIN cases
      /\ \A i \in DOMAIN cases : cases'[i] = cases[i]
      /\ cases'[n] = c
  BY <1>1 DEF n
<1>3. \A i \in DOMAIN cases : InSight(cases[i]) /\ InSight(c) /\ cases[i].opener = c.opener
        => Key(cases[i]) # Key(c)
  BY DEF InSight, Clear
<1> SUFFICES ASSUME NEW i \in DOMAIN cases', NEW j \in DOMAIN cases', i # j,
                    InSight(cases'[i]), InSight(cases'[j]), cases'[i].opener = cases'[j].opener
             PROVE  Key(cases'[i]) # Key(cases'[j])
  BY DEF Distinct
<1> QED
  BY <1>2, <1>3 DEF Distinct

\* A step in which one agent moves, and no case is opened.
LEMMA OneMoves ==
  ASSUME QuietInv, TwinInv, Kept, ledger' = ledger, NEW g \in Agents,
         \A h \in Agents \ {g} : agent'[h] = agent[h],
         lapses'.scans = 0 => lapses.scans = 0,
         Quiet(g)', lapses'.scans = 0 => Looked(g)'
  PROVE  QuietInv' /\ TwinInv'
<1>1. QuietInv'
  <2>1. \A h \in Agents : Quiet(h)'
    BY StillQuiet DEF QuietInv
  <2> QED
    BY <2>1 DEF QuietInv
<1>2. ASSUME lapses'.scans = 0 PROVE Distinct' /\ \A h \in Agents : Looked(h)'
  <2>1. Distinct /\ \A h \in Agents : Looked(h)
    BY <1>2 DEF TwinInv
  <2> QED
    BY <1>2, <2>1, DistinctKept, StillLooked
<1> QED
  BY <1>1, <1>2 DEF TwinInv

LEMMA OneRests ==
  ASSUME TypeInv, QuietInv, TwinInv, Kept, ledger' = ledger, NEW g \in Agents, Becomes(g, Rest),
         lapses'.scans = 0 => lapses.scans = 0
  PROVE  agent' \in [Agents -> States] /\ QuietInv' /\ TwinInv'
<1>1. agent'[g] = Rest /\ agent' \in [Agents -> States] /\ \A h \in Agents \ {g} : agent'[h] = agent[h]
  BY Moved DEF States
<1>2. Quiet(g)' /\ Looked(g)'
  BY <1>1 DEF Quiet, Looked, At, Rest
<1> QED
  BY <1>1, <1>2, OneMoves

Inv == TypeInv /\ QuietInv /\ TwinInv

LEMMA Start == Init => Inv
<1> SUFFICES ASSUME Init PROVE Inv
  OBVIOUS
<1>1. ledger \in Ledgers /\ cases = <<>> /\ agent = [g \in Agents |-> Rest]
      /\ lapses = [scans |-> 0, library |-> 0, errors |-> {}]
  BY DEF Init, Ledgers
<1>2. TypeInv
  BY <1>1 DEF TypeInv, LapseShapes, States
<1>3. \A g \in Agents : Quiet(g) /\ Looked(g)
  BY <1>1, RestQuiet
<1>4. Distinct
  BY <1>1 DEF Distinct
<1> QED
  BY <1>2, <1>3, <1>4 DEF Inv, QuietInv, TwinInv

----------------------------------------------------------------------------
\* The steps of both.

LEMMA JudgeStep ==
  ASSUME Inv, NEW g \in Agents, agent[g].pc \in {"new", "analyst"}, Judges(g),
         ledger' = ledger, cases' = cases
  PROVE  Inv'
<1>1. TypeInv /\ QuietInv /\ TwinInv /\ Kept
  BY SameKept DEF Inv
<1>2. ~ At(g, "rest")
  BY DEF At
<1>3. /\ agent' \in [Agents -> States] /\ lapses' \in LapseShapes
      /\ lapses'.scans = 0 => lapses.scans = 0
      /\ \A h \in Agents \ {g} : agent'[h] = agent[h]
  BY <1>1, <1>2, Judging
<1>4. TypeInv'
  BY <1>1, <1>3 DEF TypeInv
<1>5. CASE agent'[g] = Rest
  <2>1. Quiet(g)' /\ Looked(g)'
    BY <1>5 DEF Quiet, Looked, At, Rest
  <2> QED
    BY <1>1, <1>3, <1>4, <2>1, OneMoves DEF Inv
<1>6. CASE agent'[g] # Rest
  <2>1. /\ agent'[g].pc = "record" /\ agent'[g].alert = agent[g].alert
        /\ agent'[g].covered = agent[g].covered
        /\ agent'[g].missed \/ agent[g].alert.lab
             \/ ~ Suppresses(ledger[agent[g].alert.rule], agent[g].alert)
        /\ lapses'.scans = 0 /\ agent'[g].outcome.act = "mint" /\ agent'[g].outcome.chained
             => Alone(agent[g].alert, agent'[g].outcome.pair)
    BY <1>1, <1>2, <1>6, Judging
  <2>2. agent[g].covered => Suppresses(ledger[agent[g].alert.rule], agent[g].alert)
    BY <1>1, <1>2 DEF QuietInv, Quiet
  <2>3. Quiet(g)'
    BY <2>1, <2>2 DEF Quiet
  <2>4. ASSUME lapses'.scans = 0 PROVE Looked(g)'
    <3>1. \A key : (\A i \in DOMAIN cases : InSight(cases[i]) => Key(cases[i]) # key) => Clear(g, key)'
      BY DEF Clear
    <3> QED
      BY <2>1, <2>4, <3>1 DEF Looked, Alone
  <2> QED
    BY <1>1, <1>3, <1>4, <2>3, <2>4, OneMoves DEF Inv
<1> QED
  BY <1>5, <1>6

LEMMA RecordStep ==
  ASSUME Inv, NEW g \in Agents, At(g, "record"), Records(g),
         ledger' = ledger, lapses' = lapses
  PROVE  Inv'
<1>1. TypeInv /\ QuietInv /\ TwinInv
  BY DEF Inv
<1>2. /\ agent' \in [Agents -> States] /\ cases' \in Seq(CaseShapes)
      /\ \A h \in Agents \ {g} : agent'[h] = agent[h]
      /\ agent'[g].pc = "ticket" /\ agent'[g].alert = agent[g].alert
      /\ agent'[g].covered = agent[g].covered /\ agent'[g].missed = agent[g].missed
  BY <1>1, Recording
<1>3. TypeInv'
  BY <1>1, <1>2 DEF TypeInv
<1>4. Quiet(g)'
  BY <1>1, <1>2 DEF QuietInv, Quiet, At
<1>5. Looked(g)'
  BY <1>2 DEF Looked
<1>6. CASE cases' = cases
  BY <1>1, <1>2, <1>3, <1>4, <1>5, <1>6, SameKept, OneMoves DEF Inv
<1>7. CASE cases' # cases
  <2>1. agent[g].outcome.act = "mint"
    BY <1>1, <1>7, Recording
  <2>2. PICK c \in CaseShapes :
          /\ cases' = Append(cases, c) /\ c.opener = g
          /\ c.chained = agent[g].outcome.chained
          /\ Key(c) = KeyOf(agent[g].alert, agent[g].outcome.pair)
    BY <1>1, <1>7, Recording
  <2>3. \A h \in Agents : Quiet(h)'
    BY <1>1, <1>2, <1>4, StillQuiet DEF QuietInv
  <2>4. ASSUME lapses'.scans = 0 PROVE Distinct' /\ \A h \in Agents : Looked(h)'
    <3>1. Distinct /\ \A h \in Agents : Looked(h)
      BY <1>1, <2>4 DEF TwinInv
    <3>2. c.chained => Clear(c.opener, Key(c))
      BY <2>1, <2>2, <3>1 DEF Looked, At
    <3>3. Distinct'
      BY <1>1, <2>2, <3>1, <3>2, DistinctOpened
    <3>4. \A h \in Agents \ {g} : Looked(h)'
      BY <1>1, <1>2, <2>2, <3>1, OthersOpened
    <3> QED
      BY <1>5, <3>3, <3>4
  <2> QED
    BY <1>3, <2>3, <2>4 DEF Inv, QuietInv, TwinInv
<1> QED
  BY <1>6, <1>7

\* A step that lets go of the alert, whatever it does to the cases it finds.
LEMMA RestStep ==
  ASSUME Inv, NEW g \in Agents, Becomes(g, Rest), cases' \in Seq(CaseShapes), Kept,
         ledger' = ledger, lapses' = lapses
  PROVE  Inv'
<1>1. TypeInv /\ QuietInv /\ TwinInv
  BY DEF Inv
<1>2. agent' \in [Agents -> States] /\ QuietInv' /\ TwinInv'
  BY <1>1, OneRests
<1> QED
  BY <1>1, <1>2 DEF Inv, TypeInv

\* A step of the world on the cases.
LEMMA CaseStep ==
  ASSUME Inv, cases' \in Seq(CaseShapes), Kept, ledger' = ledger, agent' = agent, lapses' = lapses
  PROVE  Inv'
<1>1. TypeInv /\ QuietInv /\ TwinInv
  BY DEF Inv
<1>2. \A h \in Agents : Quiet(h)'
  BY <1>1, StillQuiet DEF QuietInv
<1>3. lapses'.scans = 0 => Distinct' /\ \A h \in Agents : Looked(h)'
  BY <1>1, DistinctKept, StillLooked DEF TwinInv
<1> QED
  BY <1>1, <1>2, <1>3 DEF Inv, TypeInv, QuietInv, TwinInv

----------------------------------------------------------------------------
\* The steps of the router and the sweep, and of the world.

\* What an agent takes up.
LEMMA HoldingTyped ==
  ASSUME NEW a \in Alerts
  PROVE  /\ Holding(a) \in Held /\ Holding(a).pc = "new" /\ Holding(a).alert = a
         /\ Holding(a).missed = FALSE /\ Holding(a).covered = Suppresses(ledger[a.rule], a)
<1>1. Suppresses(ledger[a.rule], a) \in BOOLEAN
  BY DEF Suppresses
<1> DEFINE covered == Suppresses(ledger[a.rule], a)
<1>2. Holding(a) = [pc |-> "new", alert |-> a, covered |-> covered, missed |-> FALSE] /\ covered \in BOOLEAN
  BY <1>1 DEF Holding
<1> HIDE DEF covered
<1>3. Holding(a) \in Held /\ Holding(a).covered = covered
  BY <1>2 DEF Held
<1> QED
  BY <1>2, <1>3 DEF covered

LEMMA TakeStep == ASSUME Inv, NEW a \in Alerts, Take(a) PROVE Inv'
<1>1. TypeInv /\ QuietInv /\ TwinInv /\ Kept /\ "router" \in Agents
  BY SameKept DEF Inv, Take, Agents
<1>2. PICK seen \in Answers(a.rule) :
        /\ Consults(a.rule, seen, TRUE)
        /\ LET role == Classify(a, seen).role IN
             IF role = "none"
             THEN Done(a) /\ UNCHANGED agent
             ELSE /\ UNCHANGED gone
                  /\ Becomes("router", [Holding(a) EXCEPT !.pc = role, !.missed = seen # ledger[a.rule]])
  BY DEF Take
<1>3. cases' = cases /\ ledger' = ledger
  BY DEF Take
<1>4. lapses' \in LapseShapes /\ (lapses'.scans = 0 => lapses.scans = 0)
  BY <1>1, <1>2, Counted
<1> DEFINE role == Classify(a, seen).role
           missed == seen # ledger[a.rule]
           new == [Holding(a) EXCEPT !.pc = role, !.missed = missed]
<1>5. CASE role = "none"
  <2>1. agent' = agent
    BY <1>2, <1>5
  <2>2. Quiet("router")' /\ (lapses'.scans = 0 => Looked("router")')
    BY <1>1, <1>3, <1>4, <2>1, StillQuiet, StillLooked DEF QuietInv, TwinInv
  <2> QED
    BY <1>1, <1>3, <1>4, <2>1, <2>2, OneMoves DEF Inv, TypeInv
<1>6. CASE role # "none"
  <2>1. role \in {"analyst", "infra"} /\ ~ (seen # NoEntry /\ Suppresses(seen, a))
    BY <1>6, AlertTyped DEF Classify, NoRoute, Found
  <2>2. ~ Suppresses(seen, a)
    BY <2>1 DEF Suppresses, SuppressionAllowed, Committed, Found
  <2>3. Becomes("router", new)
    BY <1>2, <1>6
  <2>4. missed \in BOOLEAN /\ (missed \/ seen = ledger[a.rule])
    OBVIOUS
  <2> HIDE DEF role, missed
  <2>5. /\ new \in Held /\ new.pc = role /\ new.alert = a /\ new.missed = missed
        /\ new.covered = Suppresses(ledger[a.rule], a)
    <3> DEFINE held == Holding(a)
    <3>1. held \in Held /\ held.alert = a /\ held.covered = Suppresses(ledger[a.rule], a)
      BY HoldingTyped
    <3>2. new = [held EXCEPT !.pc = role, !.missed = missed]
      OBVIOUS
    <3> HIDE DEF held, new
    <3>3. /\ new \in Held /\ new.pc = role /\ new.alert = held.alert /\ new.missed = missed
          /\ new.covered = held.covered
      BY <2>1, <2>4, <3>1, <3>2 DEF Held
    <3> QED
      BY <3>1, <3>3
  <2>6. new \in States
    BY <2>5 DEF States
  <2> HIDE DEF new
  <2>7. agent'["router"] = new /\ agent' \in [Agents -> States]
        /\ \A h \in Agents \ {"router"} : agent'[h] = agent[h]
    BY <1>1, <2>3, <2>6, Moved
  <2>8. Quiet("router")'
    BY <1>3, <2>1, <2>2, <2>4, <2>5, <2>7 DEF Quiet, At
  <2>9. Looked("router")'
    BY <2>1, <2>5, <2>7 DEF Looked
  <2> QED
    BY <1>1, <1>3, <1>4, <2>7, <2>8, <2>9, OneMoves DEF Inv, TypeInv
<1> QED
  BY <1>5, <1>6

LEMMA SweepStep == ASSUME Inv, NEW a \in Alerts, Sweep(a) PROVE Inv'
<1>1. TypeInv /\ QuietInv /\ TwinInv /\ Kept /\ "sweep" \in Agents
  BY SameKept DEF Inv, Sweep, Agents
<1>2. Becomes("sweep", Holding(a)) /\ cases' = cases /\ ledger' = ledger /\ lapses' = lapses
  BY DEF Sweep
<1> DEFINE new == Holding(a)
<1>3. new \in Held /\ new \in States /\ new.pc = "new" /\ new.alert = a
      /\ new.covered = Suppresses(ledger[a.rule], a)
  BY HoldingTyped DEF States
<1> HIDE DEF new
<1>4. agent'["sweep"] = new /\ agent' \in [Agents -> States]
      /\ \A h \in Agents \ {"sweep"} : agent'[h] = agent[h]
  BY <1>1, <1>2, <1>3, Moved DEF new
<1>5. Quiet("sweep")' /\ Looked("sweep")'
  BY <1>2, <1>3, <1>4 DEF Quiet, Looked, At
<1> QED
  BY <1>1, <1>2, <1>4, <1>5, OneMoves DEF Inv, TypeInv

\* dispatch_infra's lookup.
LEMMA LookStep == ASSUME Inv, LookInfra PROVE Inv'
<1> DEFINE r == agent["router"]
           a == r.alert
<1>1. TypeInv /\ QuietInv /\ TwinInv /\ Kept /\ "router" \in Agents
  BY SameKept DEF Inv, LookInfra, Agents
<1>2. PICK seen \in Answers(a.rule), scan \in BOOLEAN :
       /\ Consults(a.rule, seen, scan)
       /\ LET chain == IF scan THEN InfraChain(a) ELSE {}
              case == Opened("router", "infra", a, Classify(a, seen).category,
                             [pair |-> NoPair, chained |-> TRUE, lab |-> FALSE])
              went(i, copy) == Becomes("router", [pc |-> "infra-record", alert |-> a,
                                                  covered |-> r.covered, missed |-> r.missed,
                                                  case |-> i, copy |-> copy])
          IN  \/ chain = {} /\ went(0, case)
              \/ \E i \in chain : went(i, cases[i])
  BY DEF LookInfra
<1>3. cases' = cases /\ ledger' = ledger /\ r.pc = "infra" /\ ~ At("router", "rest")
  BY DEF LookInfra, At
<1>4. /\ lapses' \in LapseShapes
      /\ lapses'.scans = 0 => lapses.scans = 0 /\ scan
  BY <1>1, <1>2, Counted
<1>5. a \in Alerts /\ r.covered \in BOOLEAN /\ r.missed \in BOOLEAN
  BY <1>1, <1>3, HeldFlags
<1> DEFINE new(i, copy) == [pc |-> "infra-record", alert |-> a, covered |-> r.covered,
                            missed |-> r.missed, case |-> i, copy |-> copy]
           case == Opened("router", "infra", a, Classify(a, seen).category,
                          [pair |-> NoPair, chained |-> TRUE, lab |-> FALSE])
           chain == IF scan THEN InfraChain(a) ELSE {}
<1>6. PICK i, copy : /\ Becomes("router", new(i, copy))
                     /\ \/ chain = {} /\ i = 0 /\ copy = case
                        \/ i \in chain /\ copy = cases[i]
  BY <1>2
<1>7. case \in CaseShapes /\ case.opener = "router" /\ Key(case) = KeyOf(a, NoPair)
  <2>1. Classify(a, seen).category \in Categories
    BY <1>5, AlertTyped DEF Classify, NoRoute
  <2> DEFINE o == [pair |-> NoPair, chained |-> TRUE, lab |-> FALSE]
             category == Classify(a, seen).category
  <2>2. o.pair = NoPair /\ o.chained \in BOOLEAN /\ o.lab \in BOOLEAN /\ NoPair \in Pairs
    BY DEF Pairs
  <2>3. case = Opened("router", "infra", a, category, o) /\ category \in Categories
    BY <2>1
  <2> HIDE DEF o, category, case
  <2>4. case \in CaseShapes /\ case.opener = "router" /\ case.host = a.host /\ case.rule = a.rule
        /\ case.pair = NoPair
    BY <1>1, <1>5, <2>2, <2>3, OpenedTyped
  <2> QED
    BY <2>4 DEF Key, KeyOf
<1>8. chain \in SUBSET DOMAIN cases /\ DOMAIN cases \in SUBSET (Nat \ {0})
  BY <1>1 DEF TypeInv, InfraChain, Fresh, OfHost
<1> HIDE DEF case, chain
<1>9. i \in Nat /\ copy \in CaseShapes /\ (i = 0 => copy = case /\ chain = {})
  BY <1>1, <1>6, <1>7, <1>8 DEF TypeInv
<1>10. /\ new(i, copy) \in Serving /\ new(i, copy).pc = "infra-record" /\ new(i, copy).alert = a
       /\ new(i, copy).covered = r.covered /\ new(i, copy).missed = r.missed
       /\ new(i, copy).case = i /\ new(i, copy).copy = copy
  BY <1>5, <1>9 DEF Serving
<1>11. new(i, copy) \in States
  BY <1>10 DEF States
<1> HIDE DEF new
<1>12. agent'["router"] = new(i, copy) /\ agent' \in [Agents -> States]
       /\ \A h \in Agents \ {"router"} : agent'[h] = agent[h]
  BY <1>1, <1>6, <1>11, Moved
<1>13. Quiet("router")'
  BY <1>1, <1>3, <1>10, <1>12 DEF QuietInv, Quiet, At
<1>14. ASSUME lapses'.scans = 0 PROVE Looked("router")'
  <2>1. ASSUME i = 0 PROVE Alone(a, NoPair)
    BY <1>4, <1>9, <1>14, <2>1, NothingOnHost DEF chain, InfraChain
  <2>2. i = 0 => \A k \in DOMAIN cases : InSight(cases[k]) => Key(cases[k]) # KeyOf(a, NoPair)
    BY <2>1 DEF Alone
  <2>3. agent'["router"].pc = "infra-record" /\ agent'["router"].case = i
        /\ agent'["router"].copy = copy /\ agent'["router"].alert = a
    BY <1>10, <1>12
  <2>4. i = 0 => copy.opener = "router" /\ Key(copy) = KeyOf(a, NoPair)
    BY <1>7, <1>9
  <2> HIDE DEF a
  <2> QED
    BY <1>3, <2>2, <2>3, <2>4 DEF Looked, Clear
<1> QED
  BY <1>1, <1>3, <1>4, <1>12, <1>13, <1>14, OneMoves DEF Inv, TypeInv

\* A step within one infra dispatch: the same alert, further on.
LEMMA ServingStep ==
  ASSUME TypeInv, QuietInv, agent["router"].pc \in {"infra-record", "dispose"},
         NEW pc \in {"dispose", "heal"}, NEW case \in Nat, ledger' = ledger,
         Becomes("router", [agent["router"] EXCEPT !.pc = pc, !.case = case])
  PROVE  /\ agent' \in [Agents -> States]
         /\ \A h \in Agents \ {"router"} : agent'[h] = agent[h]
         /\ Quiet("router")' /\ Looked("router")'
<1> DEFINE r == agent["router"]
           new == [r EXCEPT !.pc = pc, !.case = case]
<1>1. r \in Serving /\ "router" \in Agents /\ ~ At("router", "rest")
  BY Where DEF Agents, At
<1>2. /\ new \in Serving /\ new.pc = pc /\ new.alert = r.alert /\ new.covered = r.covered
      /\ new.missed = r.missed
  BY <1>1 DEF Serving
<1>3. new \in States
  BY <1>2 DEF States
<1> HIDE DEF new
<1>4. agent'["router"] = new /\ agent' \in [Agents -> States]
      /\ \A h \in Agents \ {"router"} : agent'[h] = agent[h]
  BY <1>1, <1>3, Moved DEF new
<1>5. Quiet("router")'
  BY <1>1, <1>2, <1>4 DEF QuietInv, Quiet, At
<1>6. Looked("router")'
  BY <1>2, <1>4 DEF Looked
<1> QED
  BY <1>4, <1>5, <1>6

\* What is left out of an EXCEPT is as it was.
LEMMA ServingFields ==
  ASSUME NEW r \in Serving, NEW pc \in {"dispose", "heal"}
  PROVE  /\ r.case \in Nat /\ r.copy \in CaseShapes
         /\ [r EXCEPT !.pc = pc] = [r EXCEPT !.pc = pc, !.case = r.case]
BY DEF Serving

LEMMA RecordInfraStep == ASSUME Inv, RecordInfra PROVE Inv'
<1> DEFINE r == agent["router"]
<1>1. TypeInv /\ QuietInv /\ TwinInv /\ r.pc = "infra-record" /\ "router" \in Agents
      /\ ledger' = ledger /\ lapses' = lapses
  BY DEF Inv, RecordInfra, At, Agents
<1>2. r \in Serving
  BY <1>1, Where
<1>3. CASE /\ r.case # 0 /\ cases' = cases
           /\ Becomes("router", [r EXCEPT !.pc = "dispose", !.case = r.case])
  <2>1. r.case \in Nat
    BY <1>2, ServingFields
  <2>2. agent' \in [Agents -> States] /\ Quiet("router")' /\ Looked("router")'
        /\ \A h \in Agents \ {"router"} : agent'[h] = agent[h]
    BY <1>1, <1>3, <2>1, ServingStep
  <2> QED
    BY <1>1, <1>3, <2>2, SameKept, OneMoves DEF Inv, TypeInv
<1>4. CASE /\ r.case = 0 /\ cases' = Append(cases, r.copy)
           /\ Becomes("router", [r EXCEPT !.pc = "dispose", !.case = Len(cases) + 1])
  <2>1. /\ cases' \in Seq(CaseShapes) /\ Len(cases) + 1 \in Nat
        /\ r.copy \in CaseShapes
    BY <1>1, <1>2, <1>4, OpenedLast, ServingFields
  <2>2. agent' \in [Agents -> States] /\ Quiet("router")' /\ Looked("router")'
        /\ \A h \in Agents \ {"router"} : agent'[h] = agent[h]
    BY <1>1, <1>4, <2>1, ServingStep
  <2>3. \A h \in Agents : Quiet(h)'
    BY <1>1, <2>2, StillQuiet DEF QuietInv
  <2>4. ASSUME lapses'.scans = 0 PROVE Distinct' /\ \A h \in Agents : Looked(h)'
    <3>1. Distinct /\ \A h \in Agents : Looked(h)
      BY <1>1, <2>4 DEF TwinInv
    <3>2. r.copy.opener = "router" /\ Clear(r.copy.opener, Key(r.copy))
      BY <1>1, <1>4, <3>1 DEF Looked
    <3>3. Distinct'
      BY <1>1, <1>4, <2>1, <3>1, <3>2, DistinctOpened
    <3>4. \A h \in Agents \ {"router"} : Looked(h)'
      BY <1>1, <1>4, <2>1, <2>2, <3>1, <3>2, OthersOpened
    <3> QED
      BY <2>2, <3>3, <3>4
  <2> QED
    BY <1>1, <2>1, <2>2, <2>3, <2>4 DEF Inv, TypeInv, QuietInv, TwinInv
<1> QED
  BY <1>2, <1>3, <1>4 DEF RecordInfra, Serving

\* What the router may decide.
LEMMA DispositionTyped ==
  ASSUME NEW copy, Disposition(copy) # "none"
  PROVE  Disposition(copy) \in {"approve", "operational", "deny"}
BY DEF Disposition

LEMMA DisposeStep == ASSUME Inv, DisposeInfra PROVE Inv'
<1> DEFINE r == agent["router"]
           decision == Disposition(r.copy)
<1>1. TypeInv /\ QuietInv /\ TwinInv /\ r.pc = "dispose" /\ "router" \in Agents
      /\ ledger' = ledger /\ Becomes("router", [r EXCEPT !.pc = "heal"])
  BY DEF Inv, DisposeInfra, At, Agents
<1>2. r \in Serving
  BY <1>1, Where
<1>3. agent' \in [Agents -> States] /\ Quiet("router")' /\ Looked("router")'
      /\ \A h \in Agents \ {"router"} : agent'[h] = agent[h]
  <2>1. Becomes("router", [r EXCEPT !.pc = "heal", !.case = r.case]) /\ r.case \in Nat
    BY <1>1, <1>2, ServingFields
  <2> QED
    BY <1>1, <2>1, ServingStep
<1>4. lapses' \in LapseShapes /\ lapses'.scans = lapses.scans
  BY <1>1 DEF TypeInv, LapseShapes, DisposeInfra
<1>5. cases' = cases \/ (/\ decision # "none" /\ Decidable(r.case)
                         /\ Decided(r.case, "router", decision))
  BY DEF DisposeInfra
<1>6. cases' \in Seq(CaseShapes) /\ Kept
  <2>1. CASE cases' = cases \/ r.case \notin DOMAIN cases
    <3>1. cases' = cases
      BY <1>1, <1>5, <2>1 DEF Decided, TypeInv
    <3> QED
      BY <1>1, <3>1, SameKept DEF TypeInv
  <2>2. CASE cases' # cases /\ r.case \in DOMAIN cases
    <3>1. decision \in {"approve", "operational", "deny"} /\ Decidable(r.case)
      BY <1>5, <2>2, DispositionTyped
    <3> DEFINE i == r.case
    <3>2. Decided(i, "router", decision)
      BY <1>5, <2>2
    <3> HIDE DEF decision, i
    <3>3. cases' = [cases EXCEPT ![i].state = "decided", ![i].by = "router", ![i].decision = decision]
      BY <3>2 DEF Decided
    <3> QED
      BY <1>1, <2>2, <3>1, <3>3, SettleKeeps DEF i
  <2> QED
    BY <2>1, <2>2
<1> QED
  BY <1>1, <1>3, <1>4, <1>6, OneMoves DEF Inv, TypeInv

\* A raise adds to the errors alone.
LEMMA ErredTyped ==
  ASSUME TypeInv, NEW a \in Alerts, Erred(a)
  PROVE  lapses' \in LapseShapes /\ lapses'.scans = lapses.scans
BY DEF TypeInv, LapseShapes, Erred

LEMMA RaiseInfraStep == ASSUME Inv, RaiseInfra PROVE Inv'
<1> DEFINE r == agent["router"]
<1>1. /\ TypeInv /\ QuietInv /\ TwinInv /\ "router" \in Agents
      /\ r.pc \in {"infra-record", "dispose"} /\ ledger' = ledger /\ cases' = cases
      /\ Becomes("router", [r EXCEPT !.pc = "heal"]) /\ Erred(r.alert)
  BY DEF Inv, RaiseInfra, Agents
<1>2. r \in Serving /\ r.alert \in Alerts
  BY <1>1, Where DEF Serving
<1>3. Becomes("router", [r EXCEPT !.pc = "heal", !.case = r.case]) /\ r.case \in Nat
  BY <1>1, <1>2, ServingFields
<1>4. agent' \in [Agents -> States] /\ Quiet("router")' /\ Looked("router")'
      /\ \A h \in Agents \ {"router"} : agent'[h] = agent[h]
  BY <1>1, <1>3, ServingStep
<1>5. lapses' \in LapseShapes /\ lapses'.scans = lapses.scans
  BY <1>1, <1>2, ErredTyped
<1> QED
  BY <1>1, <1>4, <1>5, SameKept, OneMoves DEF Inv, TypeInv

LEMMA RaiseStep == ASSUME Inv, Raise PROVE Inv'
<1>1. /\ TypeInv /\ QuietInv /\ TwinInv /\ "router" \in Agents /\ ~ At("router", "rest")
      /\ ledger' = ledger /\ cases' = cases /\ Becomes("router", Rest)
      /\ Erred(agent["router"].alert)
  BY DEF Inv, Raise, Agents, At
<1>2. lapses' \in LapseShapes /\ lapses'.scans = lapses.scans
  BY <1>1, HeldFlags, ErredTyped
<1>3. agent' \in [Agents -> States] /\ QuietInv' /\ TwinInv'
  BY <1>1, <1>2, SameKept, OneRests
<1> QED
  BY <1>1, <1>2, <1>3 DEF Inv, TypeInv

LEMMA DieStep == ASSUME Inv, NEW g \in Agents, Die(g) PROVE Inv'
BY RestStep, SameKept DEF Inv, TypeInv, Die

\* The ledger changes: what an agent has of the rule is not covered any more.
LEMMA RetuneStep == ASSUME Inv, NEW r \in Rules, Retune(r) PROVE Inv'
<1>1. TypeInv /\ QuietInv /\ TwinInv /\ cases' = cases /\ lapses' = lapses
  BY DEF Inv, Retune
<1>2. PICK e \in LedgerOf[r] \ {ledger[r]} : ledger' = [ledger EXCEPT ![r] = e]
  BY DEF Retune
<1>3. ledger' \in Ledgers
  BY <1>1, <1>2 DEF TypeInv, Ledgers
<1>4. ASSUME NEW g \in Agents
      PROVE  /\ agent'[g] \in States /\ Quiet(g)' /\ (Looked(g) => Looked(g)')
  <2>1. CASE At(g, "rest") \/ agent[g].alert.rule # r
    <3>1. agent'[g] = agent[g]
      BY <1>1, <2>1 DEF Retune, TypeInv
    <3>2. ~ At(g, "rest") => agent[g].alert.rule \in Rules /\ agent[g].alert.rule # r
      BY <1>1, <2>1, HeldFlags, AlertTyped
    <3>3. ~ At(g, "rest") => ledger'[agent[g].alert.rule] = ledger[agent[g].alert.rule]
      BY <1>1, <1>2, <3>2 DEF TypeInv, Ledgers
    <3>4. Quiet(g)'
      BY <1>1, <3>1, <3>3 DEF QuietInv, Quiet, At
    <3>5. Looked(g) => Looked(g)'
      BY <1>1, <3>1, SameKept, StillLooked
    <3> QED
      BY <1>1, <3>1, <3>4, <3>5 DEF TypeInv
  <2>2. CASE ~ (At(g, "rest") \/ agent[g].alert.rule # r)
    <3> DEFINE old == agent[g]
               new == [old EXCEPT !.covered = FALSE]
    <3>1. agent'[g] = new
      BY <1>1, <2>2 DEF Retune, TypeInv
    <3>2. CASE old \in Held
      BY <3>1, <3>2 DEF Held, States, Quiet, Looked
    <3>3. CASE old \in Judged
      <4>1. /\ new \in Judged /\ new.pc = old.pc /\ new.alert = old.alert
            /\ new.covered = FALSE /\ new.outcome = old.outcome
        BY <3>3 DEF Judged
      <4>2. \A key : Clear(g, key) => Clear(g, key)'
        BY <1>1 DEF Clear
      <4>3. old.pc \in {"record", "ticket"}
        BY <3>3 DEF Judged
      <4> HIDE DEF new, old
      <4>4. new \in States /\ Quiet(g)'
        BY <3>1, <4>1 DEF States, Quiet
      <4>5. Looked(g) => Looked(g)'
        BY <3>1, <4>1, <4>2, <4>3 DEF Looked, old
      <4> QED
        BY <3>1, <4>4, <4>5
    <3>4. CASE old \in Serving
      <4>1. /\ new \in Serving /\ new.pc = old.pc /\ new.alert = old.alert
            /\ new.covered = FALSE /\ new.case = old.case /\ new.copy = old.copy
        BY <3>4 DEF Serving
      <4>2. \A key : Clear(g, key) => Clear(g, key)'
        BY <1>1 DEF Clear
      <4>3. old.pc \in {"infra-record", "dispose", "heal"}
        BY <3>4 DEF Serving
      <4> HIDE DEF new, old
      <4>4. new \in States /\ Quiet(g)'
        BY <3>1, <4>1 DEF States, Quiet
      <4>5. Looked(g) => Looked(g)'
        BY <3>1, <4>1, <4>2, <4>3 DEF Looked, old
      <4> QED
        BY <3>1, <4>4, <4>5
    <3> QED
      BY <1>1, <2>2, <3>2, <3>3, <3>4, Where DEF States
  <2> QED
    BY <2>1, <2>2
<1>5. agent' \in [Agents -> States]
  <2>1. agent' = [g \in Agents |-> agent'[g]]
    BY DEF Retune
  <2> QED
    BY <1>4, <2>1
<1>6. Kept
  BY <1>1, SameKept
<1>7. lapses'.scans = 0 => Distinct' /\ \A g \in Agents : Looked(g)'
  BY <1>1, <1>4, <1>6, DistinctKept DEF TwinInv
<1> QED
  BY <1>1, <1>3, <1>4, <1>5, <1>7 DEF Inv, TypeInv, QuietInv, TwinInv

LEMMA CloseStep == ASSUME Inv, NEW i \in DOMAIN cases, Close(i) PROVE Inv'
<1> DEFINE c == [cases[i] EXCEPT !.state = "closed"]
<1>1. TypeInv /\ cases[i] \in CaseShapes
  BY DEF Inv, TypeInv
<1>2. c \in CaseShapes /\ Persists(cases[i], c)
  BY <1>1 DEF CaseShapes, Persists
<1>3. cases' = [cases EXCEPT ![i] = c]
  BY DEF Close
<1> HIDE DEF c
<1>4. cases' \in Seq(CaseShapes) /\ Kept
  BY <1>1, <1>2, <1>3, Replaced
<1> QED
  BY <1>4, CaseStep DEF Close

LEMMA AgeStep == ASSUME Inv, NEW i \in DOMAIN cases, Age(i) PROVE Inv'
<1> DEFINE c == [cases[i] EXCEPT !.fresh = FALSE]
<1>1. TypeInv /\ cases[i] \in CaseShapes
  BY DEF Inv, TypeInv
<1>2. c \in CaseShapes /\ Persists(cases[i], c)
  BY <1>1 DEF CaseShapes, Persists
<1>3. cases' = [cases EXCEPT ![i] = c]
  BY DEF Age
<1> HIDE DEF c
<1>4. cases' \in Seq(CaseShapes) /\ Kept
  BY <1>1, <1>2, <1>3, Replaced
<1> QED
  BY <1>4, CaseStep DEF Age

LEMMA OverwriteStep == ASSUME Inv, NEW i \in DOMAIN cases, Overwrite(i) PROVE Inv'
<1> DEFINE c == [cases[i] EXCEPT !.sourced = FALSE, !.state = "open", !.by = "", !.decision = ""]
<1>1. TypeInv /\ cases[i] \in CaseShapes /\ cases[i].state # "closed"
  BY DEF Inv, TypeInv, Overwrite, Sourced, Live
<1>2. c \in CaseShapes /\ Persists(cases[i], c)
  BY <1>1 DEF CaseShapes, Persists
<1>3. cases' = [cases EXCEPT ![i] = c]
  BY DEF Overwrite
<1> HIDE DEF c
<1>4. cases' \in Seq(CaseShapes) /\ Kept
  BY <1>1, <1>2, <1>3, Replaced
<1> QED
  BY <1>4, CaseStep DEF Overwrite

LEMMA DecideStep == ASSUME Inv, NEW i \in DOMAIN cases, Decide(i) PROVE Inv'
<1>1. TypeInv /\ Decidable(i) /\ Decided(i, "human", "deny")
  BY DEF Inv, Decide
<1>2. cases' \in Seq(CaseShapes) /\ Kept
  BY <1>1, SettleKeeps DEF Decided
<1> QED
  BY <1>2, CaseStep DEF Decide

LEMMA BacklogStep == ASSUME Inv, NEW i \in DOMAIN cases, DisposeBacklog(i) PROVE Inv'
<1> DEFINE decision == Disposition(cases[i])
<1>1. TypeInv /\ Decidable(i) /\ decision \in {"approve", "operational", "deny"}
  BY DispositionTyped DEF Inv, DisposeBacklog
<1>2. \E state \in {"decided", "closed"} :
        cases' = [cases EXCEPT ![i].state = state, ![i].by = "router", ![i].decision = decision]
  BY DEF DisposeBacklog
<1> HIDE DEF decision
<1>3. cases' \in Seq(CaseShapes) /\ Kept
  BY <1>1, <1>2, SettleKeeps, ZenonT(40)
<1> QED
  BY <1>3, CaseStep DEF DisposeBacklog

LEMMA Step == ASSUME Inv, [Next]_vars PROVE Inv'
<1>0. {"router", "sweep"} = Agents /\ TypeInv
  BY DEF Agents, Inv
<1>1. ASSUME JudgeSecurity PROVE Inv'
  BY <1>0, <1>1, JudgeStep DEF JudgeSecurity, At
<1>2. ASSUME RecordSecurity PROVE Inv'
  BY <1>0, <1>2, RecordStep DEF RecordSecurity
<1>3. ASSUME TicketSecurity PROVE Inv'
  BY <1>0, <1>3, TicketKeeps, RestStep DEF TicketSecurity
<1>4. ASSUME HealInfra PROVE Inv'
  BY <1>0, <1>4, SameKept, RestStep DEF HealInfra, TypeInv
<1>5. ASSUME JudgeSweep PROVE Inv'
  BY <1>0, <1>5, JudgeStep DEF JudgeSweep, At
<1>6. ASSUME RecordSweep PROVE Inv'
  BY <1>0, <1>6, RecordStep DEF RecordSweep
<1>7. ASSUME TicketSweep PROVE Inv'
  <2>1. CASE cases' = cases
    BY <1>0, <1>7, <2>1, SameKept, RestStep DEF TicketSweep, TypeInv
  <2>2. CASE Ticketed(agent["sweep"].outcome.case)
    BY <1>0, <1>7, <2>2, TicketKeeps, RestStep DEF TicketSweep
  <2> QED
    BY <1>7, <2>1, <2>2 DEF TicketSweep
<1>8. ASSUME Save PROVE Inv'
  BY <1>0, <1>8, SameKept, CaseStep DEF Save, TypeInv
<1>9. CASE UNCHANGED vars
  BY <1>0, <1>9, SameKept, CaseStep DEF vars, TypeInv
<1> QED
  BY <1>1, <1>2, <1>3, <1>4, <1>5, <1>6, <1>7, <1>8, <1>9, TakeStep, SweepStep, LookStep, RecordInfraStep,
     DisposeStep, RaiseInfraStep, RaiseStep, DieStep, RetuneStep, CloseStep, DecideStep, BacklogStep, AgeStep,
     OverwriteStep
  DEF Next, RouterStep

----------------------------------------------------------------------------
\* Neither path opens or tickets an alert that the ledger has silenced for as long as the
\* agent has had it, unless a read of the ledger failed or the alert is the lab's, whatever
\* entries, retunings and failures there are (router.classify, AnalystClient.verdict).
THEOREM SilencedStaysQuiet == Spec => []SuppressedIsQuiet
<1>1. Inv => SuppressedIsQuiet
  BY DEF Inv, QuietInv, Quiet, SuppressedIsQuiet
<1> QED
  BY <1>1, Start, Step, PTL DEF Spec

\* As long as no scan of the cases fails, no agent by itself has two cases of one incident
\* open and in sight of its lookups, however often it crashes and the alert comes again: a
\* second case is the other agent's, an overridden tuning's, or of an incident whose first
\* case lost its source (recent_entity_cases, recent_host_cases, as verdict and
\* dispatch_infra use them).
THEOREM NoTwinsAlone == Spec => []TwinsAreRaces
<1>1. Inv => TwinsAreRaces
  <2> SUFFICES ASSUME Inv, NEW i \in DOMAIN cases, NEW j \in DOMAIN cases,
                      i # j, Sourced(i), Sourced(j), cases[i].fresh, cases[j].fresh,
                      cases[i].chained, cases[j].chained,
                      cases[i].opener = cases[j].opener, Key(cases[i]) = Key(cases[j])
               PROVE  lapses.scans > 0
    BY DEF TwinsAreRaces
  <2>1. ~ Distinct
    BY DEF Distinct, InSight, Sourced, Live
  <2>2. lapses.scans # 0 /\ lapses.scans \in Nat
    BY <2>1 DEF Inv, TwinInv, TypeInv, LapseShapes
  <2> QED
    BY <2>2
<1> QED
  BY <1>1, Start, Step, PTL DEF Spec
=============================================================================
