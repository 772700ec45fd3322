------------------------------- MODULE Triage -------------------------------
(***************************************************************************)
(* Who answers an alert, and how often.  Two processes read the same       *)
(* alerts on timers of their own: the router (agents/router.py), which has *)
(* a cursor, classifies each alert and hands it to a role; and the         *)
(* analyst's sweep (agents/analyst.py), which has none and goes by what is *)
(* already open.  Both ask AnalystClient.verdict, both open cases in the   *)
(* same store, and neither holds a lock between looking and writing.       *)
(*                                                                         *)
(* RouterIntake models the cursor, the page and the bursts; an alert here  *)
(* is one that no burst swallows.  Its dispatch counts its burst, so once  *)
(* it has been through, with an error or without, it is not dispatched     *)
(* again: the retry of an error is a repeat of its own burst, unless a     *)
(* later alert of the run has moved the boundary past it.  Only a run that *)
(* dies before it saves its cursor, bursts and all, brings its alerts back.*)
(*                                                                         *)
(* The ledger is written by Tuning's writers; pattern alerts are           *)
(* dispatched in Hunt, and what the responder does with a case is in       *)
(* Approval.                                                               *)
(***************************************************************************)
EXTENDS TuningGate, Sequences, FiniteSetsExt

CONSTANTS
  LedgerOf,       \* the entries the ledger may hold of each rule
  MediumLevel,    \* level from which a medium category escalates
  MediumEscalate, \* those categories
  NoPair,         \* the entity pair of an alert, or case, that has none
  Down,           \* hosts on which a check fails that no fix is whitelisted for
  TierOf,         \* the tier of the playbook recommended for a rule, "" for none
  MaxArrivals,    \* bound: alerts indexed
  MaxSweeps,      \* bound: alerts the sweep goes over
  MaxFaults,      \* bound: crashes, failed reads, of a case too, and failed writes
  MaxActs         \* bound: closings, decisions, retunings, and cases that grow older than
                  \* the hour of the lookups

\* An alert adds to what the gate reads: its rule, its entity pair, its ontology category,
\* whether its groups say "failed", whether configuration lists its rule ("noise", "fp"),
\* the drill's and the lab's marks, and the category and role its rule or groups map to;
\* what maps to the hunter is dispatched in Hunt.
ASSUME TriageAssumption ==
  /\ \A a \in Alerts :
       /\ {"rule", "pair", "category", "failed", "listed", "drill", "lab", "map"} \subseteq DOMAIN a
       /\ a.map.role \in {"none", "analyst", "infra"}
  /\ DOMAIN LedgerOf = {a.rule : a \in Alerts} /\ DOMAIN TierOf = DOMAIN LedgerOf
  /\ {MediumLevel, MaxArrivals, MaxSweeps, MaxFaults, MaxActs} \subseteq Nat

VARIABLES
  ledger,   \* the entry of each rule
  cases,    \* the cases, in the order they were opened
  due,      \* alerts the saved cursor has not passed, by kind
  gone,     \* those of them that the router's run has been through
  agent,    \* what the router and the sweep are at
  paged,    \* hosts a tier-1 ticket was filed of
  lapses,   \* history: scans of the cases that failed, dispositions put off, and the
            \* alerts whose dispatch by the router ended with an error
  spent     \* how much of each bound is used

vars == <<ledger, cases, due, gone, agent, paged, lapses, spent>>

Rules == DOMAIN LedgerOf

Agents == {"router", "sweep"}

Bounds == [sweeps |-> MaxSweeps, faults |-> MaxFaults, acts |-> MaxActs]

\* "covered" and "missed" are history: the ledger has silenced the alert for as long as
\* the agent has had it; a read of the ledger failed.
Rest == [pc |-> "rest"]

Holding(a) ==
  [pc |-> "new", alert |-> a, covered |-> Suppresses(ledger[a.rule], a), missed |-> FALSE]

\* The index holds so many alerts of each kind from the start: a step that waits sees
\* them come later.
Arrivals ==
  {d \in [Alerts -> 0..MaxArrivals] : FoldSet(LAMBDA a, n : d[a] + n, 0, Alerts) = MaxArrivals}

Init ==
  /\ ledger \in {l \in [Rules -> UNION {LedgerOf[r] : r \in Rules}] :
                   \A r \in Rules : l[r] \in LedgerOf[r]}
  /\ cases = <<>>
  /\ due \in Arrivals
  /\ gone = [a \in Alerts |-> 0]
  /\ agent = [g \in Agents |-> Rest]
  /\ paged = {}
  /\ lapses = [scans |-> 0, library |-> 0, errors |-> {}]
  /\ spent = [b \in DOMAIN Bounds |-> 0]

Spend(b) == spent[b] < Bounds[b] /\ spent' = [spent EXCEPT ![b] = @ + 1]

At(g, pc) == agent[g].pc = pc

Becomes(g, state) == agent' = [agent EXCEPT ![g] = state]

\* A read of the ledger and a scan of the cases as their callers see them: a failure is
\* caught, and reads as an untuned rule, or as no case.
Consults(r, seen, scan) ==
  \/ seen = ledger[r] /\ scan /\ UNCHANGED <<spent, lapses>>
  \/ seen = NoEntry /\ scan /\ Spend("faults") /\ UNCHANGED lapses
  \/ /\ seen = ledger[r] /\ ~ scan /\ Spend("faults")
     /\ lapses' = [lapses EXCEPT !.scans = @ + 1]

Answers(r) == {ledger[r], NoEntry}

----------------------------------------------------------------------------
\* Classification and verdict.

\* Severity, category and the threat words decide (AnalystClient.classify, verdict).
Escalates(a) ==
  \/ a.level >= HighLevel
  \/ /\ a.level >= MediumLevel /\ a.category \in MediumEscalate
     /\ ~ (a.category = "authentication" /\ a.failed)
  \/ a.category = "threat" /\ ThreatWords \in a.marks

NoRoute == [category |-> "operational", role |-> "none"]

\* router.classify: noise, drill, the ledger, the maps.  Any entry that does not suppress
\* sends the alert to the analyst, whatever its rule maps to.
Classify(a, e) ==
  IF a.listed = "noise" \/ a.drill THEN NoRoute
  ELSE IF ~ Found(e) THEN a.map
  ELSE IF Suppresses(e, a) THEN NoRoute
  ELSE [category |-> "security", role |-> "analyst"]

Live(i) == cases[i].state # "closed"

\* recent_entity_cases, recent_host_cases: not closed, its source of the same pair or of the
\* same host and rule, and opened within the hour.  A failed scan finds nothing.
Sourced(i) == Live(i) /\ cases[i].sourced

OfPair(a) == {i \in DOMAIN cases : Sourced(i) /\ cases[i].fresh /\ cases[i].pair = a.pair}

OfHost(a) == {i \in DOMAIN cases : Sourced(i) /\ cases[i].host = a.host /\ cases[i].rule = a.rule}

Fresh(chain) == {i \in chain : cases[i].fresh}

\* The outcomes of a verdict: nothing, or a case to open or to attach to, and what is put
\* on record of it.
Note == [act |-> "note"]

Acting(chain, outcome) ==
  {[outcome EXCEPT !.act = "attach", !.case = i] : i \in chain} \cup {o \in {outcome} : chain = {}}

Minting(lab, chained, pair) ==
  [act |-> "mint", case |-> 0, lab |-> lab, chained |-> chained, pair |-> pair]

\* Slip: the analyst's own list of decisions, without the approvals.
TupleAuthority(e) == SuppressionAllowed(e) /\ e.decision # "escalate"

\* verdict's pre-check: the entry has the authority to be consulted.
Authority(e) == SuppressionAllowed(e)

\* The open case of a repeated entity: of the pair, or else of the host and the rule.
ChainTo(a) == IF a.pair # NoPair THEN OfPair(a) ELSE Fresh(OfHost(a))

\* AnalystClient.verdict.  Listed rules and drills are noted.  Lab traffic opens a case, one
\* of host and rule however old.  A tuned rule is silent, or overridden and opened without
\* a look at what is open.  The rest is attached to its chain or opens one.
Verdict(a, e, scan) ==
  LET quiet == a.listed # "none" \/ a.drill
      seen(chain) == IF scan THEN chain ELSE {}
  IN  IF quiet THEN {Note}
      ELSE IF a.lab THEN Acting(seen(OfHost(a)), Minting(TRUE, TRUE, NoPair))
      ELSE IF Authority(e) THEN {IF Suppresses(e, a) THEN Note ELSE Minting(FALSE, FALSE, NoPair)}
      ELSE IF Escalates(a) THEN Acting(seen(ChainTo(a)), Minting(FALSE, TRUE, a.pair))
      ELSE {Note}

----------------------------------------------------------------------------
\* What the two do alike.

\* Only the sweep opens a case for the lab's traffic; the router knows its notes by nothing
\* but an open chain.
Acted(g, o) == o # Note /\ (o.act = "attach" \/ ~ o.lab \/ g = "sweep")

\* The verdict.  One that is not acted on ends the alert.
Judges(g) ==
  LET a == agent[g].alert IN
    \E seen \in Answers(a.rule), scan \in BOOLEAN :
      /\ Consults(a.rule, seen, scan)
      /\ \E o \in Verdict(a, seen, scan) :
           Becomes(g, IF ~ Acted(g, o) THEN Rest
                      ELSE [pc |-> "record", alert |-> a, covered |-> agent[g].covered,
                            missed |-> agent[g].missed \/ seen # ledger[a.rule], outcome |-> o])

\* open_case by an agent, of an alert: with the pair the verdict put on record.
Opened(g, kind, a, category, outcome) ==
  [opener |-> g, kind |-> kind, host |-> a.host, rule |-> a.rule, category |-> category,
   pair |-> outcome.pair, chained |-> outcome.chained, lab |-> outcome.lab, state |-> "open",
   by |-> "", decision |-> "", fresh |-> TRUE, told |-> FALSE, sourced |-> TRUE]

\* The case is opened and the verdict put on it; or the verdict alone, on the chain's case.
Records(g) ==
  LET o == agent[g].outcome
      a == agent[g].alert
      on(i) == Becomes(g, [agent[g] EXCEPT !.pc = "ticket", !.outcome.case = i])
  IN  \/ /\ o.act = "mint"
         /\ cases' = Append(cases, Opened(g, "security", a, a.category, o))
         /\ on(Len(cases) + 1)
      \/ o.act = "attach" /\ UNCHANGED cases /\ on(o.case)

Ticketed(i) == cases' = [cases EXCEPT ![i].told = TRUE]

----------------------------------------------------------------------------
\* The router.

\* The run has been through an alert: it is marked, or its burst is counted.
Done(a) == gone' = [gone EXCEPT ![a] = @ + 1]

Erred(a) == lapses' = [lapses EXCEPT !.errors = @ \cup {a}]

\* run, dispatch: the next alert is classified; one without a role is done with.
Take(a) ==
  /\ At("router", "rest") /\ due[a] > gone[a]
  /\ \E seen \in Answers(a.rule) :
       /\ Consults(a.rule, seen, TRUE)
       /\ LET role == Classify(a, seen).role IN
            IF role = "none"
            THEN Done(a) /\ UNCHANGED agent
            ELSE /\ UNCHANGED gone
                 /\ Becomes("router", [Holding(a) EXCEPT !.pc = role, !.missed = seen # ledger[a.rule]])
  /\ UNCHANGED <<ledger, cases, due, paged>>

\* dispatch_security: the verdict reads the ledger again.
JudgeSecurity ==
  /\ At("router", "analyst")
  /\ Judges("router")
  /\ IF agent'["router"] = Rest THEN Done(agent["router"].alert) ELSE UNCHANGED gone
  /\ UNCHANGED <<ledger, cases, due, paged>>

RecordSecurity ==
  /\ At("router", "record") /\ Records("router")
  /\ UNCHANGED <<ledger, due, gone, paged, lapses, spent>>

\* The tier-2 ticket is filed for an attachment as for a new case, the lab's too.
TicketSecurity ==
  /\ At("router", "ticket")
  /\ Ticketed(agent["router"].outcome.case)
  /\ Done(agent["router"].alert)
  /\ Becomes("router", Rest)
  /\ UNCHANGED <<ledger, due, paged, lapses, spent>>

\* Slip: the chain is looked up and not used.
UnusedInfraChain(a) == {}

\* The open case an infra event is the same incident as: open_only is passed, and the
\* hour's window stays in force all the same.
InfraChain(a) == Fresh(OfHost(a))

\* dispatch_infra: the category is classified again, and the chain looked up; what the
\* scan returns of the case is what the disposition will read.
LookInfra ==
  /\ At("router", "infra")
  /\ LET a == agent["router"].alert IN
     \E seen \in Answers(a.rule), scan \in BOOLEAN :
       /\ Consults(a.rule, seen, scan)
       /\ LET chain == IF scan THEN InfraChain(a) ELSE {}
              case == Opened("router", "infra", a, Classify(a, seen).category,
                             [pair |-> NoPair, chained |-> TRUE, lab |-> FALSE])
              went(i, copy) == Becomes("router", [pc |-> "infra-record", alert |-> a,
                                                  covered |-> agent["router"].covered,
                                                  missed |-> agent["router"].missed,
                                                  case |-> i, copy |-> copy])
          IN  \/ chain = {} /\ went(0, case)
              \/ \E i \in chain : went(i, cases[i])
  /\ UNCHANGED <<ledger, cases, due, gone, paged>>

\* Slip: only a case that was just opened is disposed of.
ForgetfulRecordInfra ==
  /\ At("router", "infra-record")
  /\ LET r == agent["router"] IN
       /\ IF r.case = 0 THEN cases' = Append(cases, r.copy) ELSE UNCHANGED cases
       /\ Becomes("router", [r EXCEPT !.pc = IF r.case = 0 THEN "dispose" ELSE "heal",
                                      !.case = IF @ = 0 THEN Len(cases) + 1 ELSE @])
  /\ UNCHANGED <<ledger, due, gone, paged, lapses, spent>>

\* The case is opened and the dispatch put on it, or on the chain's case.
RecordInfra ==
  /\ At("router", "infra-record")
  /\ LET r == agent["router"] IN
       /\ IF r.case = 0 THEN cases' = Append(cases, r.copy) ELSE UNCHANGED cases
       /\ Becomes("router", [r EXCEPT !.pc = "dispose",
                                      !.case = IF @ = 0 THEN Len(cases) + 1 ELSE @])
  /\ UNCHANGED <<ledger, due, gone, paged, lapses, spent>>

\* infra_disposition, of a copy of the case: what the router may decide, if anything.
Disposition(copy) ==
  IF copy.state = "open" /\ copy.opener = "router" /\ copy.category = "infra"
  THEN IF TierOf[copy.rule] \in {"tier0", "tier1"} THEN "approve" ELSE "operational"
  ELSE "none"

Decided(i, by, decision) ==
  cases' = [cases EXCEPT ![i].state = "decided", ![i].by = by, ![i].decision = decision]

\* decide's check of the transition, on the case as it is now.
Decidable(i) == cases[i].state = "open"

\* The router decides, unless the machine refuses it; a playbook library that cannot be
\* read, or a decision that cannot be written, puts it off, and is no error of the dispatch.
DisposeInfra ==
  /\ At("router", "dispose")
  /\ LET r == agent["router"]
         decision == Disposition(r.copy)
         may == decision # "none" /\ Decidable(r.case)
     IN  \/ may /\ Decided(r.case, "router", decision) /\ UNCHANGED <<spent, lapses>>
         \/ ~ may /\ UNCHANGED <<cases, spent, lapses>>
         \/ /\ may /\ Spend("faults") /\ UNCHANGED cases
            /\ lapses' = [lapses EXCEPT !.library = @ + 1]
  /\ Becomes("router", [agent["router"] EXCEPT !.pc = "heal"])
  /\ UNCHANGED <<ledger, due, gone, paged>>

\* SelfHeal.sense, decide, heal_one: what the whitelist covers is tried, whatever comes of
\* it; a check that nothing fixes files a tier-1 ticket.
HealInfra ==
  /\ At("router", "heal")
  /\ paged' = paged \cup ({agent["router"].alert.host} \cap Down)
  /\ Done(agent["router"].alert)
  /\ Becomes("router", Rest)
  /\ UNCHANGED <<ledger, cases, due, lapses, spent>>

\* A write about an infra event's case raises: what is written stays, and the dispatch goes
\* on to the host with an error.
RaiseInfra ==
  /\ agent["router"].pc \in {"infra-record", "dispose"}
  /\ Spend("faults") /\ Erred(agent["router"].alert)
  /\ Becomes("router", [agent["router"] EXCEPT !.pc = "heal"])
  /\ UNCHANGED <<ledger, cases, due, gone, paged>>

\* Anything else raises: what is written stays, the dispatch ends with an error, and the run
\* goes on to the next alert.
Raise ==
  /\ agent["router"].pc \in {"analyst", "record", "ticket", "heal"}
  /\ Spend("faults") /\ Erred(agent["router"].alert)
  /\ Done(agent["router"].alert)
  /\ Becomes("router", Rest)
  /\ UNCHANGED <<ledger, cases, due, paged>>

\* The run ends and saves its cursor.
Save ==
  /\ At("router", "rest") /\ \E a \in Alerts : gone[a] > 0
  /\ due' = [a \in Alerts |-> due[a] - gone[a]]
  /\ gone' = [a \in Alerts |-> 0]
  /\ UNCHANGED <<ledger, cases, agent, paged, lapses, spent>>

\* Slip: the cursor is saved alert by alert, before the dispatch.
EagerDie(g) ==
  /\ ~ At(g, "rest")
  /\ Spend("faults")
  /\ IF g = "router"
     THEN /\ due' = [a \in Alerts |-> due[a] - gone[a] - (IF a = agent[g].alert THEN 1 ELSE 0)]
          /\ gone' = [a \in Alerts |-> 0]
     ELSE UNCHANGED <<due, gone>>
  /\ Becomes(g, Rest)
  /\ UNCHANGED <<ledger, cases, paged, lapses>>

\* The process dies, or the cursor cannot be saved: what is written stays, and every alert
\* of the router's run comes again.
Die(g) ==
  /\ \/ ~ At(g, "rest")
     \/ g = "router" /\ \E a \in Alerts : gone[a] > 0
  /\ Spend("faults")
  /\ gone' = IF g = "router" THEN [a \in Alerts |-> 0] ELSE gone
  /\ Becomes(g, Rest)
  /\ UNCHANGED <<ledger, cases, due, paged, lapses>>

----------------------------------------------------------------------------
\* The analyst's sweep: process_alert over the newest alerts, every time, those the
\* router is done with and those it has yet to see.

Sweep(a) ==
  /\ At("sweep", "rest")
  /\ Spend("sweeps")
  /\ Becomes("sweep", Holding(a))
  /\ UNCHANGED <<ledger, cases, due, gone, paged, lapses>>

JudgeSweep ==
  /\ At("sweep", "new") /\ Judges("sweep")
  /\ UNCHANGED <<ledger, cases, due, gone, paged>>

RecordSweep ==
  /\ At("sweep", "record") /\ Records("sweep")
  /\ UNCHANGED <<ledger, due, gone, paged, lapses, spent>>

\* Only a case of its own gets a ticket, and never the lab's.
TicketSweep ==
  /\ At("sweep", "ticket")
  /\ LET o == agent["sweep"].outcome IN
       IF o.act = "mint" /\ ~ o.lab THEN Ticketed(o.case) ELSE UNCHANGED cases
  /\ Becomes("sweep", Rest)
  /\ UNCHANGED <<ledger, due, gone, paged, lapses, spent>>

----------------------------------------------------------------------------
\* The world: people at the console, and time.

Retune(r) ==
  /\ Spend("acts")
  /\ \E e \in LedgerOf[r] \ {ledger[r]} : ledger' = [ledger EXCEPT ![r] = e]
  /\ agent' = [g \in Agents |-> IF At(g, "rest") \/ agent[g].alert.rule # r THEN agent[g]
                                ELSE [agent[g] EXCEPT !.covered = FALSE]]
  /\ UNCHANGED <<cases, due, gone, paged, lapses>>

Close(i) ==
  /\ Live(i) /\ Spend("acts")
  /\ cases' = [cases EXCEPT ![i].state = "closed"]
  /\ UNCHANGED <<ledger, due, gone, agent, paged, lapses>>

Decide(i) ==
  /\ Decidable(i) /\ Spend("acts")
  /\ Decided(i, "human", "deny")
  /\ UNCHANGED <<ledger, due, gone, agent, paged, lapses>>

\* deploy/lab/dispose_infra_cases.py: the router's rule for the cases that were left open,
\* run by hand; --close closes what it decides.
DisposeBacklog(i) ==
  /\ Disposition(cases[i]) # "none" /\ Decidable(i) /\ Spend("acts")
  /\ \E close \in BOOLEAN :
       cases' = [cases EXCEPT ![i].state = IF close THEN "closed" ELSE "decided", ![i].by = "router",
                              ![i].decision = Disposition(cases[i])]
  /\ UNCHANGED <<ledger, due, gone, agent, paged, lapses>>

Age(i) ==
  /\ Live(i) /\ cases[i].fresh /\ Spend("acts")
  /\ cases' = [cases EXCEPT ![i].fresh = FALSE]
  /\ UNCHANGED <<ledger, due, gone, agent, paged, lapses>>

\* append_event, by whoever has something to say of the case, these two agents included: the
\* read of the case fails, and what the receipts answer is written back.  A decision goes,
\* and the source that the lookups go by.
Overwrite(i) ==
  /\ Sourced(i) /\ Spend("faults")
  /\ cases' = [cases EXCEPT ![i].sourced = FALSE, ![i].state = "open", ![i].by = "",
                           ![i].decision = ""]
  /\ UNCHANGED <<ledger, due, gone, agent, paged, lapses>>

----------------------------------------------------------------------------
RouterStep ==
  \/ \E a \in Alerts : Take(a)
  \/ JudgeSecurity \/ RecordSecurity \/ TicketSecurity
  \/ LookInfra \/ RecordInfra \/ DisposeInfra \/ HealInfra
  \/ Save

Next ==
  \/ RouterStep
  \/ JudgeSweep \/ RecordSweep \/ TicketSweep
  \/ \E a \in Alerts : Sweep(a)
  \/ RaiseInfra \/ Raise
  \/ \E g \in Agents : Die(g)
  \/ \E r \in Rules : Retune(r)
  \/ \E i \in DOMAIN cases : Close(i) \/ Decide(i) \/ DisposeBacklog(i) \/ Age(i) \/ Overwrite(i)

\* The router's timer fires again for as long as alerts are due.
Spec == Init /\ [][Next]_vars /\ WF_vars(RouterStep)

----------------------------------------------------------------------------
\* The two paths mean the same by an entry: an alert that the ledger has silenced for as
\* long as an agent has had it is neither opened nor ticketed by it, unless the ledger
\* could not be read; the lab's is opened all the same (router.classify, verdict).
SuppressedIsQuiet ==
  \A g \in Agents :
    agent[g].pc \in {"record", "ticket", "infra", "infra-record", "dispose"} =>
      ~ agent[g].covered \/ agent[g].missed \/ agent[g].alert.lab

\* What one agent takes for the same incident.
Key(c) == IF c.pair # NoPair THEN <<c.pair>> ELSE <<c.host, c.rule>>

\* No agent has two cases of one incident open and in sight, by itself: a second case is the
\* other agent's, a blind scan's, an overridden tuning's, which is never looked up, or opened
\* because the first had lost its source to an append that could not read it
\* (dispatch_infra, "37 duplicate cases in one day"; verdict's recidivism).
TwinsAreRaces ==
  \A i, j \in DOMAIN cases :
    /\ i # j /\ Sourced(i) /\ Sourced(j) /\ cases[i].fresh /\ cases[j].fresh
    /\ cases[i].chained /\ cases[j].chained
    /\ cases[i].opener = cases[j].opener /\ Key(cases[i]) = Key(cases[j])
    => lapses.scans > 0

\* The dispatch of an alert of the case's host and rule ended with an error.
ErredOn(c) == \E a \in lapses.errors : a.host = c.host /\ a.rule = c.rule

\* An escalation of the router's that nobody was told of, in sight of its next lookup.
Untold(i) ==
  /\ cases[i].opener = "router" /\ cases[i].kind = "security" /\ cases[i].chained
  /\ Sourced(i) /\ cases[i].fresh
  /\ \A j \in DOMAIN cases : Key(cases[j]) = Key(cases[i]) => ~ cases[j].told
  /\ ~ Found(ledger[cases[i].rule]) /\ lapses.scans = 0 /\ ~ ErredOn(cases[i])

\* A case the router opened for an escalation is told to a person: a crash before the
\* ticket brings the alert back to the same chain, and the ticket with it; unless
\* the case was closed, grew old, lost its source or was not found meanwhile, its rule was
\* tuned, or a dispatch raised, whose burst was counted (dispatch_security, run's cursor).
OpenedIsTold == []<>(\A i \in DOMAIN cases : ~ Untold(i))

Undecided(i) ==
  /\ cases[i].kind = "infra" /\ cases[i].category = "infra"
  /\ cases[i].state = "open" /\ cases[i].sourced /\ cases[i].fresh
  /\ ~ Found(ledger[cases[i].rule]) /\ lapses.scans = 0 /\ lapses.library = 0
  /\ ~ ErredOn(cases[i])

Unreported(a) ==
  /\ a.listed # "noise" /\ ~ a.drill
  /\ a.host \in Down \ paged /\ ~ Found(ledger[a.rule]) /\ a \notin lapses.errors

\* An alert the router has yet to take.
Waiting(a) ==
  due[a] - gone[a] > (IF ~ At("router", "rest") /\ agent["router"].alert = a THEN 1 ELSE 0)

\* An infra case does not stay undecided and a host that is down does not go unreported,
\* whatever crash comes between opening, deciding and looking at the host; a scan, a
\* library, a write or an append's read that failed may leave a case, and an entry in the
\* ledger, proposals included, divert the alert (dispatch_infra, "what left this class
\* undecided forever").
InfraIsServed ==
  /\ []<>(\A i \in DOMAIN cases : ~ Undecided(i))
  /\ \A a \in {b \in Alerts : b.map.role = "infra"} :
       Waiting(a) /\ Unreported(a) ~> ~ Unreported(a)

\* The lab's traffic is never escalated (ontology.is_lab_traffic, the lab gate of verdict).
LabNeverEscalates == \A i \in DOMAIN cases : cases[i].lab => ~ cases[i].told

\* One open infra case of a host and a rule, however old (recent_host_cases).
OneOpenInfraCase ==
  lapses.scans = 0 =>
    \A i, j \in DOMAIN cases :
      /\ Sourced(i) /\ Sourced(j) /\ cases[i].kind = "infra" /\ cases[j].kind = "infra"
      /\ Key(cases[i]) = Key(cases[j])
      => i = j
=============================================================================
