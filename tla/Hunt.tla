-------------------------------- MODULE Hunt --------------------------------
(***************************************************************************)
(* Proactive hunts (agents/hunt.py, agents/tools/hunt_tools.py,            *)
(* agents/tools/bulk_intel.py) and the pattern alerts that start the same  *)
(* hunts from the router (agents/router.py, dispatch_pattern).  Three      *)
(* processes open cases of a hunt: the sweep a timer starts, the router,   *)
(* and a person's "hunt:run".  Each looks for a case and then writes, and  *)
(* none of them holds a lock.                                              *)
(*                                                                         *)
(* A hunt has a verdict of its own on the documents its query returns, and *)
(* the local corpus may raise it.  A case is what the processes look for   *)
(* in it: its hunt, which is in its source, whether it is open, how old it *)
(* is, the tickets filed for it, and the "escalated" event, by which the   *)
(* sweep knows that it has filed one.  The technique and the other events, *)
(* rechecks among them, are read by nobody here; but each is written with  *)
(* the whole case as get_case returned it, and one that a failed read had  *)
(* rebuilt from the receipts has no source.                                *)
(***************************************************************************)
EXTENDS Integers, Sequences, FiniteSets

CONSTANTS
  Order,         \* the live hunts, as the sweep takes them
  AnalyzerOf,    \* the analyzer of each hunt
  Escalating,    \* hunts of an ESCALATE_CATEGORIES category
  Telemetry,     \* what each hunt's query may return
  LedgerOf,      \* the entries the ledger may hold of each hunt at the start
  Corpora,       \* what the local corpus may be at the start
  Patterns,      \* hunts that pattern alerts start
  MaxAlerts,     \* bound: pattern alerts of each hunt they start
  MaxFaults,     \* bound: crashes, reads and writes that fail
  MaxActs,       \* bound: acts of a person, changes of what there is to see
  MaxAges        \* bound: days and months that pass over a case

Hunts == {Order[n] : n \in DOMAIN Order}

\* The documents of the last day and of the last week, by what the analyzers tell apart:
\* something that recurs, something never seen; and the best match of the corpus.
Evidence == {"recurring", "novel"}

Entries == {"none", "proposed", "committed", "profiled"}

ASSUME HuntAssumption ==
  /\ Order \in Seq(STRING) /\ Order # <<>>
  /\ DOMAIN AnalyzerOf = Hunts /\ DOMAIN Telemetry = Hunts
  /\ \A h \in Hunts : Telemetry[h] \subseteq {t \in [day : SUBSET Evidence, week : SUBSET Evidence,
                                                    known : {"none", "weak", "strong"}] :
                                               t.day \subseteq t.week}
  /\ DOMAIN LedgerOf = Hunts /\ \A h \in Hunts : LedgerOf[h] \subseteq Entries
  /\ Corpora \subseteq {"off", "up", "down"}
  /\ (Escalating \cup Patterns) \subseteq Hunts
  /\ {MaxAlerts, MaxFaults, MaxActs, MaxAges} \subseteq Nat

VARIABLES
  docs,     \* what each hunt's query returns now
  corpus,   \* the local corpus: not configured, answering, unreachable
  ledger,   \* the tuning entry "hunt:<id>" of each hunt
  cases,    \* the cases of hunts, in the order they were opened
  agent,    \* what the three processes are at
  intake,   \* the router's pattern alerts: due, to be tried again, hunts its process ran
  spent     \* how much of each bound is used

vars == <<docs, corpus, ledger, cases, agent, intake, spent>>

Agents == {"sweep", "router"}

Openers == Agents \cup {"hand"}

Bounds == [faults |-> MaxFaults, acts |-> MaxActs, ages |-> MaxAges]

Spend(b) == spent[b] < Bounds[b] /\ spent' = [spent EXCEPT ![b] = @ + 1]

----------------------------------------------------------------------------
\* The verdict on a hunt.

\* _analyze_apparmor: an exec denial, an unknown profile.  Never clean.
AppArmor(found) == IF "novel" \in found THEN "suspicious" ELSE "info"

\* _analyze_rootcheck: a path that recurs is noise, and so is all that comes with it.
Rootcheck(found) ==
  IF "recurring" \in found THEN "info" ELSE IF found # {} THEN "suspicious" ELSE "clean"

\* _analyze_srcip_frequency: one source, many logins.
Frequency(found) == IF "recurring" \in found THEN "suspicious" ELSE "clean"

\* _analyze_bots_attack, and the two of Security Onion: a match is the finding.
AnyMatch(found) == IF found # {} THEN "suspicious" ELSE "clean"

\* The analyzer a hunt names; the generic one, those of the benchmark and of sudo only list.
Analysis(analyzer, found) ==
  CASE analyzer = "apparmor" -> AppArmor(found)
    [] analyzer = "rootcheck" -> Rootcheck(found)
    [] analyzer = "srcip_frequency" -> Frequency(found)
    [] analyzer \in {"so_severity", "so_detection", "bots_attack"} -> AnyMatch(found)
    [] OTHER -> IF found # {} THEN "info" ELSE "clean"

\* match_many: a corpus that fails on any batch leaves the whole of it unknown.
Matched(known) ==
  CASE corpus = "off" -> "unchecked" [] corpus = "down" -> "degraded" [] corpus = "up" -> known

\* BulkIntel.match of the observables of the first documents (collect_observables).
Intel(found, known) == IF found = {} THEN "unchecked" ELSE Matched(known)

\* promote_finding: a strong match makes it suspicious, a weak one only not clean.
Promoted(finding, intel) ==
  CASE intel = "strong" -> "suspicious"
    [] intel = "weak" /\ finding = "clean" -> "info"
    [] OTHER -> finding

Finding(h, found) == Promoted(Analysis(AnalyzerOf[h], found), Intel(found, docs[h].known))

\* Slip: any entry has authority, a proposal too.
FoundSuppresses(entry, own) == entry # "none"

\* suppression_allowed on the hunt's entry, and then the analysis: an entry made of
\* particular profiles does not cover what the hunt's own analysis finds suspicious.
EntrySuppresses(entry, own) ==
  \/ entry = "committed"
  \/ entry = "profiled" /\ own # "suspicious"

----------------------------------------------------------------------------
\* The cases of a hunt.

Open(i) == cases[i].status = "open"

\* Whether a lookup knows the case for the hunt's.
Of(i, h) == cases[i].hunt = h /\ cases[i].sourced

\* Slip: a case is looked for among those of the cooldown's day.
DayOfHunt(h) == {i \in DOMAIN cases : Of(i, h) /\ Open(i) /\ cases[i].age = 0}

\* recent_hunt_cases: not closed, of the hunt, opened in the last thirty days.
OpenOfHunt(h) == {i \in DOMAIN cases : Of(i, h) /\ Open(i) /\ cases[i].age < 2}

\* The same with include_closed, over the cooldown: by when the case was opened.
Cooling(h) == {i \in DOMAIN cases : Of(i, h) /\ cases[i].age = 0}

\* open_case.  "excuse" is history: why a case of the hunt may have been open already.
NewCase(g, h, excuse) ==
  [hunt |-> h, sourced |-> TRUE, status |-> "open", age |-> 0, escalated |-> FALSE,
   tickets |-> [a \in Openers |-> 0], torn |-> 0, by |-> g, excuse |-> excuse]

Opened(g, h, excuse) == cases' = Append(cases, NewCase(g, h, excuse))

\* A write of the case from a read that failed: the rebuild keeps its age, its status and
\* its "escalated" event, whose receipts those are, and has no source.
Unsources(i) == Spend("faults") /\ cases' = [cases EXCEPT ![i].sourced = FALSE]

\* append_event of a recheck.
Rechecks(i) == UNCHANGED <<cases, spent>> \/ Unsources(i)

\* EscalationClient.escalate.
Filed(g, i) == cases' = [cases EXCEPT ![i].tickets[g] = @ + 1]

----------------------------------------------------------------------------
Rest == [pc |-> "rest"]

\* The sweep is at a hunt, or at the first one until a timer starts it again.
Turn(n) == [pc |-> "look", at |-> n]

At(g, pc) == agent[g].pc = pc

Becomes(g, state) == agent' = [agent EXCEPT ![g] = state]

\* What a process carries from its query to its last write.  "seen" and "blind" are
\* history: the cases there were when it scanned them, whether the scan failed.
Job(h, finding) ==
  [pc |-> "scan", at |-> 0, hunt |-> h, escalates |-> finding = "suspicious" /\ h \in Escalating,
   tuned |-> FALSE, case |-> 0, seen |-> 0, blind |-> FALSE]

Excuse(g) ==
  {x \in {"blind", "race"} :
     \/ x = "blind" /\ agent[g].blind
     \/ x = "race" /\ \E i \in OpenOfHunt(agent[g].hunt) : i > agent[g].seen}

Init ==
  /\ docs \in {d \in [Hunts -> UNION {Telemetry[h] : h \in Hunts}] :
                 \A h \in Hunts : d[h] \in Telemetry[h]}
  /\ corpus \in Corpora
  /\ ledger \in {l \in [Hunts -> Entries] : \A h \in Hunts : l[h] \in LedgerOf[h]}
  /\ cases = <<>>
  /\ agent = [sweep |-> Turn(1), router |-> Rest]
  /\ intake = [due |-> [h \in Patterns |-> MaxAlerts], again |-> [h \in Patterns |-> 0], ran |-> {}]
  /\ spent = [b \in DOMAIN Bounds |-> 0]

\* A scan of the cases finds none: there is none, or it failed.
FindsNone(found, blind) ==
  \/ found = {} /\ ~ blind /\ UNCHANGED spent
  \/ blind /\ Spend("faults")

----------------------------------------------------------------------------
\* The sweep: every live hunt in turn.

Following == LET n == agent["sweep"].at IN IF n < Len(Order) THEN Turn(n + 1) ELSE Turn(1)

\* Run the hunt over a day, match its observables, look its entry up; a lookup that fails
\* is an untuned hunt.  A clean finding is only logged.
Look ==
  /\ At("sweep", "look")
  /\ LET n == agent["sweep"].at
         h == Order[n]
         own == Analysis(AnalyzerOf[h], docs[h].day)
         finding == Finding(h, docs[h].day)
     IN  \E entry \in {ledger[h], "none"} :
           /\ entry # ledger[h] => Spend("faults")
           /\ entry = ledger[h] => UNCHANGED spent
           /\ Becomes("sweep", IF finding = "clean" THEN Following
                               ELSE [Job(h, finding) EXCEPT !.at = n, !.tuned = EntrySuppresses(entry, own)])
  /\ UNCHANGED <<docs, corpus, ledger, cases, intake>>

\* A tuned hunt at most rechecks an open case; an untuned one attaches to it.
Scan ==
  /\ At("sweep", "scan")
  /\ LET s == agent["sweep"] IN
       \/ \E i \in OpenOfHunt(s.hunt) :
            \/ s.tuned /\ Rechecks(i) /\ Becomes("sweep", Following)
            \/ /\ ~ s.tuned /\ UNCHANGED <<cases, spent>>
               /\ Becomes("sweep", [s EXCEPT !.pc = "attach", !.case = i])
       \/ \E blind \in BOOLEAN :
            /\ FindsNone(OpenOfHunt(s.hunt), blind) /\ UNCHANGED cases
            /\ Becomes("sweep", IF s.tuned THEN Following
                                ELSE [s EXCEPT !.pc = "cool", !.seen = Len(cases), !.blind = blind])
  /\ UNCHANGED <<docs, corpus, ledger, intake>>

\* Slip: the recheck does not look for the ticket of an earlier sweep.
UncheckedAttach ==
  /\ At("sweep", "attach")
  /\ LET s == agent["sweep"] IN
       /\ Rechecks(s.case)
       /\ Becomes("sweep", IF s.escalates THEN [s EXCEPT !.pc = "ticket"] ELSE Following)
  /\ UNCHANGED <<docs, corpus, ledger, intake>>

\* The recheck and the technique, each of which reads the case and writes it, and then the
\* case's timeline: an escalated case is not escalated again.
Attach ==
  /\ At("sweep", "attach")
  /\ LET s == agent["sweep"] IN
       /\ Rechecks(s.case)
       /\ Becomes("sweep", IF s.escalates /\ ~ cases[s.case].escalated
                           THEN [s EXCEPT !.pc = "ticket"] ELSE Following)
  /\ UNCHANGED <<docs, corpus, ledger, intake>>

\* The cooldown.
Cool ==
  /\ At("sweep", "cool")
  /\ LET s == agent["sweep"] IN
       \/ Cooling(s.hunt) # {} /\ UNCHANGED spent /\ Becomes("sweep", Following)
       \/ /\ \E blind \in BOOLEAN : FindsNone(Cooling(s.hunt), blind)
          /\ Becomes("sweep", [s EXCEPT !.pc = "mint"])
  /\ UNCHANGED <<docs, corpus, ledger, cases, intake>>

Mint ==
  /\ At("sweep", "mint")
  /\ LET s == agent["sweep"] IN
       /\ Opened("sweep", s.hunt, Excuse("sweep"))
       /\ Becomes("sweep", IF s.escalates
                           THEN [s EXCEPT !.pc = "ticket", !.case = Len(cases) + 1] ELSE Following)
  /\ UNCHANGED <<docs, corpus, ledger, intake, spent>>

Ticket ==
  /\ At("sweep", "ticket")
  /\ Filed("sweep", agent["sweep"].case)
  /\ Becomes("sweep", [agent["sweep"] EXCEPT !.pc = "mark"])
  /\ UNCHANGED <<docs, corpus, ledger, intake, spent>>

\* The verdict event and then the "escalated" event.
Mark ==
  /\ At("sweep", "mark")
  /\ cases' = [cases EXCEPT ![agent["sweep"].case].escalated = TRUE]
  /\ Becomes("sweep", Following)
  /\ UNCHANGED <<docs, corpus, ledger, intake, spent>>

----------------------------------------------------------------------------
\* The router: one pattern alert at a time.

Put(h) == [intake EXCEPT !.due[h] = @ - 1, !.ran = @ \cup {h}]

\* A run of the router is a process: what the rate limit remembers goes with it, and the
\* alerts whose dispatch failed come back.
NewRun ==
  /\ At("router", "rest")
  /\ \E h \in Patterns : intake.again[h] > 0 \/ (h \in intake.ran /\ intake.due[h] > 0)
  /\ intake' = [due |-> [h \in Patterns |-> intake.due[h] + intake.again[h]],
                again |-> [h \in Patterns |-> 0], ran |-> {}]
  /\ UNCHANGED <<docs, corpus, ledger, cases, agent, spent>>

\* pattern_due comes before the hunt; without an answer within the rate, the alert is done.
\* The hunt is over a week, and neither the corpus nor the ledger is asked.
Dispatch(h) ==
  /\ At("router", "rest") /\ intake.due[h] > 0
  /\ LET own == Analysis(AnalyzerOf[h], docs[h].week) IN
       /\ Becomes("router", IF h \in intake.ran \/ own # "suspicious" THEN Rest ELSE Job(h, own))
       /\ intake' = Put(h)
  /\ UNCHANGED <<docs, corpus, ledger, cases, spent>>

\* The query fails: the hunt counts as run, and the alert is tried again.
DispatchFails(h) ==
  /\ At("router", "rest") /\ intake.due[h] > 0 /\ h \notin intake.ran
  /\ Spend("faults")
  /\ intake' = [Put(h) EXCEPT !.again[h] = @ + 1]
  /\ UNCHANGED <<docs, corpus, ledger, cases, agent>>

RouterScan ==
  /\ At("router", "scan")
  /\ LET s == agent["router"] IN
       \/ \E i \in OpenOfHunt(s.hunt) : Rechecks(i) /\ Becomes("router", Rest)
       \/ \E blind \in BOOLEAN :
            /\ FindsNone(OpenOfHunt(s.hunt), blind) /\ UNCHANGED cases
            /\ Becomes("router", [s EXCEPT !.pc = "mint", !.seen = Len(cases), !.blind = blind])
  /\ UNCHANGED <<docs, corpus, ledger, intake>>

\* The case does not say that it was escalated.
RouterMint ==
  /\ At("router", "mint")
  /\ LET s == agent["router"] IN
       /\ Opened("router", s.hunt, Excuse("router"))
       /\ Becomes("router", IF s.escalates THEN [s EXCEPT !.pc = "ticket", !.case = Len(cases) + 1]
                            ELSE Rest)
  /\ UNCHANGED <<docs, corpus, ledger, intake, spent>>

RouterTicket ==
  /\ At("router", "ticket")
  /\ Filed("router", agent["router"].case)
  /\ Becomes("router", Rest)
  /\ UNCHANGED <<docs, corpus, ledger, intake, spent>>

----------------------------------------------------------------------------
\* A person's hunt:run: over a week, and with the corpus.  It always opens a case, and
\* files a ticket of a suspicious one unless it dies before; it marks nothing.
\* The decision it takes leaves the case with the open ones (open_only).
Run(h) ==
  /\ Spend("acts")
  /\ \E filed \in BOOLEAN :
       /\ filed => Job(h, Finding(h, docs[h].week)).escalates
       /\ cases' = Append(cases, [NewCase("hand", h, {"hand"}) EXCEPT
                                   !.tickets["hand"] = IF filed THEN 1 ELSE 0])
  /\ UNCHANGED <<docs, corpus, ledger, agent, intake>>

----------------------------------------------------------------------------
\* A process dies, or an exception ends it: the query of one hunt of the sweep, and the
\* hunts after it are not run.  "torn" counts the tickets it had no time to mark.
Crash(g) ==
  /\ agent[g] \notin {Rest, Turn(1)} /\ Spend("faults")
  /\ Becomes(g, IF g = "sweep" THEN Turn(1) ELSE Rest)
  /\ cases' = IF At(g, "mark") THEN [cases EXCEPT ![agent[g].case].torn = @ + 1] ELSE cases
  /\ intake' = IF g = "router" THEN [intake EXCEPT !.again[agent[g].hunt] = @ + 1] ELSE intake
  /\ UNCHANGED <<docs, corpus, ledger>>

\* A denial of a ticket writes the hunt's entry: the console's commits, without profiles,
\* and the hourly adjudicator's proposes, which changes a committed entry in nothing.
Deny(i) ==
  /\ Spend("acts") /\ \E g \in Openers : cases[i].tickets[g] > 0
  /\ \E entry \in {"committed", IF ledger[cases[i].hunt] = "none" THEN "proposed" ELSE ledger[cases[i].hunt]} :
       ledger' = [ledger EXCEPT ![cases[i].hunt] = entry]
  /\ UNCHANGED <<docs, corpus, cases, agent, intake>>

\* A person scopes an entry to profiles, or takes it back.
Retune(h) ==
  /\ Spend("acts") /\ ledger[h] # "none"
  /\ ledger' \in {[ledger EXCEPT ![h] = entry] : entry \in {"none", "profiled"}}
  /\ UNCHANGED <<docs, corpus, cases, agent, intake>>

\* "shut" is a case closed less than a day ago.
Close(i) ==
  /\ Spend("acts") /\ Open(i)
  /\ cases' = [cases EXCEPT ![i].status = "shut"]
  /\ UNCHANGED <<docs, corpus, ledger, agent, intake>>

\* Somebody else appends to the case, or changes it, on a read of it that failed: a role, a
\* person, the process that has just opened it.
Overwrite(i) ==
  /\ Unsources(i)
  /\ UNCHANGED <<docs, corpus, ledger, agent, intake>>

\* What there is to see changes, and what the corpus says of it.
Shift(h) ==
  /\ Spend("acts")
  /\ docs' \in {[docs EXCEPT ![h] = t] : t \in Telemetry[h] \ {docs[h]}}
  /\ UNCHANGED <<corpus, ledger, cases, agent, intake>>

CorpusTurns ==
  /\ corpus # "off" /\ Spend("acts")
  /\ corpus' \in {"up", "down"} \ {corpus}
  /\ UNCHANGED <<docs, ledger, cases, agent, intake>>

\* The cooldown's day since a case was opened, or its thirty; the day since it was closed.
Age(i) ==
  /\ Spend("ages")
  /\ \/ cases[i].age < 2 /\ cases' = [cases EXCEPT ![i].age = @ + 1]
     \/ /\ cases[i].status = "shut" /\ cases[i].age > 0
        /\ cases' = [cases EXCEPT ![i].status = "closed"]
  /\ UNCHANGED <<docs, corpus, ledger, agent, intake>>

SweepStep == Look \/ Scan \/ Attach \/ Cool \/ Mint \/ Ticket \/ Mark

RouterStep ==
  \/ NewRun \/ RouterScan \/ RouterMint \/ RouterTicket
  \/ \E h \in Patterns : Dispatch(h) \/ DispatchFails(h)

World ==
  \/ CorpusTurns
  \/ \E g \in Agents : Crash(g)
  \/ \E h \in Hunts : Run(h) \/ Retune(h) \/ Shift(h)
  \/ \E i \in DOMAIN cases : Deny(i) \/ Close(i) \/ Overwrite(i) \/ Age(i)

Next == SweepStep \/ RouterStep \/ World

\* A timer starts the sweep again and again (ssop-hunt.timer).
Spec == Init /\ [][Next]_vars /\ WF_vars(SweepStep)

----------------------------------------------------------------------------
\* The human's queue gets one ticket of the sweep for a case, however often the finding
\* comes back, and one more for each time the sweep died between the ticket and its mark;
\* and one of the process that opened the case, which leaves no mark (node_run_sweep).
TicketsArePaid ==
  \A i \in DOMAIN cases :
    /\ cases[i].tickets["sweep"] <= 1 + cases[i].torn
    /\ \A g \in {"router", "hand"} : cases[i].tickets[g] <= IF cases[i].by = g THEN 1 ELSE 0

\* A second case of a hunt that has an open one is a person's own run, a scan that failed,
\* or a case another process opened after the scan; or the first was over thirty days old,
\* or had lost its source to a write of what a failed read of it had returned
\* (recent_hunt_cases, used by node_run_sweep and dispatch_pattern; append_event).
TwinsAreExcused ==
  \A i, j \in DOMAIN cases :
    /\ i < j /\ cases[i].hunt = cases[j].hunt
    /\ Open(i) /\ Open(j) /\ cases[i].age < 2 /\ cases[i].sourced
    => cases[j].excuse # {}

\* A hunt in an escalating category that stays suspicious, and that no person has tuned, is
\* not passed over for ever: it comes to have an open case with a ticket, or one closed
\* within the cooldown, whatever died on the way and whatever proposals the ledger holds.
Told(h) ==
  \E i \in DOMAIN cases :
    /\ cases[i].hunt = h
    /\ \/ Open(i) /\ cases[i].age < 2 /\ \E g \in Openers : cases[i].tickets[g] > 0
       \/ ~ Open(i) /\ cases[i].age = 0

Tuned(h) ==
  \/ ledger[h] = "committed"
  \/ ledger[h] = "profiled" /\ Analysis(AnalyzerOf[h], docs[h].day) # "suspicious"

SuspicionIsTold ==
  \A h \in Escalating :
    []<>(Finding(h, docs[h].day) = "suspicious" /\ ~ Tuned(h) => Told(h))

\* "A finding whose case was closed recently (denied) is not instantly re-minted"
\* (node_run_sweep): a look for the cooldown that does not fail never lets the sweep open
\* a case of a hunt one of whose cases has been closed for less than that.
RearmWaits ==
  [][At("sweep", "cool") /\ agent'["sweep"].pc = "mint" /\ spent' = spent
       => ~ \E i \in DOMAIN cases :
              Of(i, agent["sweep"].hunt) /\ cases[i].status = "shut"]_vars
=============================================================================
