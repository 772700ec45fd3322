--------------------------------- MODULE Soar ---------------------------------
(***************************************************************************)
(* From an alert to an act on a host: the evidence of one case             *)
(* (agents/tools/enrichment.py, investigator.py, agents/analyst.py), the   *)
(* decision the supervisory sweep takes on it (agents/supervisory.py,      *)
(* agents/tools/supervisory_tools.py), and the playbooks the responder     *)
(* runs under that decision (agents/responder.py,                          *)
(* agents/tools/responder_steps.py, playbook_loader.py).                   *)
(*                                                                         *)
(* Every lookup and every search may fail and is then left out; a read of  *)
(* the case may fail, and is answered from the receipts; people decide and *)
(* close cases while the sweep is at work; two responders run playbooks on *)
(* one host.  A tier-2 playbook becomes a ticket here, and what is done    *)
(* under the ticket is Approval's subject; the queue of many tickets is    *)
(* Supervision's.  A write of the spine is one step.                       *)
(***************************************************************************)
EXTENDS Integers, Sequences, FiniteSets, FiniteSetsExt, SequencesExt, Functions

CONSTANTS
  Alerts,        \* what the case may be about
  Observables,   \* the observables there may be, in their order
  TypeOf,        \* the type of each; "none" is a placeholder, or an address that is none
  KeySets,       \* the providers a key may be configured for
  VtQuota,       \* VirusTotal lookups one client makes; 4 a minute in the code
  Truths,        \* what the providers may know of the observables
  Volumes,       \* how many events of each source may name the alert's address
  Files,         \* the files of the playbook library, in the order of their names
  Protected,     \* the entities no playbook may touch
  MaxFaults,     \* bound: lookups, reads, writes and commands that fail, and deaths
  MaxActs,       \* bound: acts of a person, and changes of the host
  MaxStarts      \* bound: runs of the responder by hand

Responders == {"router", "hand"}

\* What each provider may say: GreyNoise never "suspicious", OTX, which is context, never
\* "benign".
GreyNoiseSays == {"malicious", "benign", "unknown"}

VtSays == {"malicious", "suspicious", "benign", "unknown"}

OtxSays == {"malicious", "suspicious", "unknown"}

\* The alert index, divided by the shape of the attack; live_net is all of it once more.
LiveSources == <<"live_scan", "live_threat", "live_brute", "live_http", "live_net">>

\* The sources of an investigation, the stored ones first.
Sources == <<"http", "dns", "winsec", "suricata">> \o LiveSources

\* How many events it takes to count.
MinCount(s) == IF s = "dns" THEN 50 ELSE 1

\* log10 is exact on what the counts are taken from.
Counts == {0, 1, 10, 100, 1000}

Log10(n) == CASE n = 1 -> 0 [] n = 10 -> 1 [] n = 100 -> 2 [] n = 1000 -> 3

ASSUME SoarAssumption ==
  /\ IsFiniteSet(Observables) /\ Observables \subseteq Nat /\ \A a \in Alerts : a.fields \cup a.text \subseteq Observables
  /\ DOMAIN TypeOf = Observables /\ KeySets \subseteq SUBSET {"virustotal", "otx"}
  /\ \A t \in Truths : t \in [Observables -> [greynoise : GreyNoiseSays, virustotal : VtSays, otx : OtxSays]]
  /\ \A v \in Volumes : v \in [Range(Sources) -> Counts]
  /\ {VtQuota, MaxFaults, MaxActs, MaxStarts} \subseteq Nat

VARIABLES
  alert,     \* what the case is about
  keys,      \* the providers a key is configured for
  truth,     \* what each provider knows of each observable
  volume,    \* how many events of each source name the address
  case,      \* the case
  ticket,    \* its escalation: none, open, done
  mint,      \* how far the case's opening is
  sweep,     \* what the supervisory run is at
  run,       \* what each responder is at
  fleet,     \* the host the alert comes from, and the firewall
  effects,   \* history: the steps that ran
  spent      \* how much of each bound is used

world == <<alert, keys, truth, volume>>

vars == <<alert, keys, truth, volume, case, ticket, mint, sweep, run, fleet, effects, spent>>

Bounds == [faults |-> MaxFaults, acts |-> MaxActs, starts |-> MaxStarts]

Spend(b) == spent[b] < Bounds[b] /\ spent' = [spent EXCEPT ![b] = @ + 1]

\* A fault is spent where `fails`.
SpendIf(fails) == IF fails THEN Spend("faults") ELSE UNCHANGED spent

----------------------------------------------------------------------------
\* Enrichment.

OfType(type, from) == SetToSeq({o \in from : TypeOf[o] = type})

\* extract_observables: the typed fields, type by type, then what the text names and no field
\* does.  A URL in the text is not taken for one.
Extracted ==
  LET text == alert.text \ alert.fields
  IN  OfType("ip", alert.fields) \o OfType("domain", alert.fields) \o OfType("hash", alert.fields)
      \o OfType("url", alert.fields)
      \o OfType("hash", text) \o OfType("ip", text) \o OfType("domain", text)

Keyed(p) == IF p \in keys THEN <<p>> ELSE <<>>

\* _providers_for
ProvidersFor(o) ==
  CASE TypeOf[o] = "ip" -> <<"greynoise">> \o Keyed("otx")
    [] TypeOf[o] \in {"hash", "domain", "url"} -> Keyed("virustotal") \o Keyed("otx")
    [] OTHER -> <<>>

AsksVt(o) == "virustotal" \in Range(ProvidersFor(o))

\* _vt_throttle: the client is new with every alert, and so is its window; what comes after
\* the first few is left out.
Throttled(o) ==
  /\ AsksVt(o)
  /\ \E k \in DOMAIN Extracted : Extracted[k] = o /\ Cardinality({j \in 1..k : AsksVt(Extracted[j])}) > VtQuota

\* Slip: what cannot be looked up is clean.
Hopeful(o, p, failed) ==
  IF <<o, p>> \in failed \/ (p = "virustotal" /\ Throttled(o)) THEN "benign" ELSE truth[o][p]

\* One lookup: an answer, or the degraded "unknown".
Lookup(o, p, failed) ==
  IF <<o, p>> \in failed \/ (p = "virustotal" /\ Throttled(o)) THEN "unknown" ELSE truth[o][p]

\* enrich_observable: the verdict of the last provider asked.
Enriched(o, failed) ==
  IF ProvidersFor(o) = <<>> THEN "unknown" ELSE Lookup(o, Last(ProvidersFor(o)), failed)

Asked == UNION {{<<o, p>> : p \in Range(ProvidersFor(o))} : o \in Range(Extracted)}

----------------------------------------------------------------------------
\* Investigation.

\* correlate_entity, when every search answers: the sources with enough events.
Correlated == {s \in Range(Sources) : volume[s] >= MinCount(s) /\ volume[s] > 0}

StageOf(s) ==
  CASE s = "winsec" -> "execution" [] s = "live_brute" -> "access"
    [] s \in {"http", "live_http"} -> "exfiltration" [] s = "dns" -> "c2"
    [] s = "live_threat" -> "malware" [] s \in {"suricata", "live_scan"} -> "recon"
    [] s = "live_net" -> "network"

Context == {"suricata"}

Magnitude == [s \in Correlated |-> 100 * Log10(volume[s])]

Points(srcs) == SumFunctionOnSet(Magnitude, srcs)

\* In hundredths: the volume of what is a threat, a nudge from what is context, and breadth.
Severity(seen) ==
  IF seen = {} THEN 0
  ELSE Points(seen \ Context) + Min({Points(seen \cap Context) \div 5, 100}) + 100 * (Cardinality(seen) - 1)

Label(severity) == IF severity >= 400 THEN "high" ELSE IF severity >= 200 THEN "medium" ELSE "low"

\* investigate
Investigation(seen) == [label |-> Label(Severity(seen)), chain |-> {StageOf(s) : s \in seen}]

\* The same said apart from the code: a source is worth one and its order of magnitude,
\* what is context a fifth of that magnitude; all but one of it must make four, or two in
\* two stages.
Worth == [s \in Correlated |-> 100 + (IF s \in Context THEN 20 ELSE 100) * Log10(volume[s])]

Warranted ==
  LET worth == SumFunctionOnSet(Worth, Correlated)
  IN  \/ worth >= 500
      \/ worth >= 300 /\ Cardinality({StageOf(s) : s \in Correlated}) >= 2

----------------------------------------------------------------------------
\* Playbooks.

NoPlaybook == 0

\* load_playbooks: a file that cannot be read or parsed is passed over.
Playbooks == SelectSeq(Files, LAMBDA f : f.readable)

\* STEP_REGISTRY
StepNames == {"service_restart", "service_stop", "host_quarantine", "disk_clean", "config_revert", "verify_service_state",
              "firewall_block_ip", "firewall_unblock_ip", "verify_firewall_rule"}

\* validate_playbook_steps
Binds(pb) == \A k \in DOMAIN pb.steps : pb.steps[k].name \in StepNames

\* matches: the rule ids alone where there are any, else category or groups, and level.
Matches(pb, a) ==
  IF pb.rules # {} THEN a.rule \in pb.rules
  ELSE /\ pb.cats = {} \/ a.category \in pb.cats \/ a.groups \cap pb.cats # {}
       /\ a.level >= pb.min

First(positions) == IF positions = {} THEN NoPlaybook ELSE Min(positions)

\* The recommendation of the sweep and of the analyst.
Recommended(a) ==
  First({i \in DOMAIN Playbooks : Playbooks[i].tier \in {"tier1", "tier2"} /\ Matches(Playbooks[i], a)})

RequiresRecommendation(pb) == pb.tier \in {"tier1", "tier2"} /\ pb.recommended

\* select_candidates and node_select: the first that matches and needs no recommendation
\* but the one there is.
Candidate(a, rec) ==
  First({i \in DOMAIN Playbooks :
           Matches(Playbooks[i], a) /\ (RequiresRecommendation(Playbooks[i]) => rec = i)})

\* What the placeholders of a step stand for, of those among `fields`: build_alert_context.
Values(step, fields) == {alert[field] : field \in step.needs \cap fields}

\* find_unresolved: a placeholder the alert has no value for.
Lacks(step) == "" \in Values(step, DOMAIN alert)

\* _resolve_step_params, for all the steps before the first of them runs.
Unresolved(pb) == \E k \in DOMAIN pb.steps : Lacks(pb.steps[k])

\* guard_check: the host and the address of a step, and the alert's address in any case.
Targets(pb) ==
  {alert.srcip} \cup UNION {pb.steps[k].hosts \cup Values(pb.steps[k], {"agent", "srcip"}) : k \in DOMAIN pb.steps}

Guarded(pb) == Targets(pb) \cap Protected # {}

\* What a step may find or leave, where the host can be reached.  A check of a service that
\* is not the alert's own, the agent's, finds it active.
Outcomes(step) ==
  CASE step.name = "service_restart" ->
         {IF fleet.service = "broken" THEN [ok |-> FALSE, fleet |-> fleet]
          ELSE [ok |-> TRUE, fleet |-> [fleet EXCEPT !.service = "active"]]}
    [] step.name \in {"service_stop", "host_quarantine"} ->
         {[ok |-> TRUE, fleet |-> [fleet EXCEPT !.service = IF @ = "broken" THEN @ ELSE "inactive"]]}
    [] step.name = "disk_clean" -> {[ok |-> TRUE, fleet |-> [fleet EXCEPT !.disk = d]] : d \in {fleet.disk, "free"}}
    [] step.name = "config_revert" ->
         {[ok |-> TRUE, fleet |-> [fleet EXCEPT !.file = "baseline"]], [ok |-> FALSE, fleet |-> fleet]}
    [] step.name = "verify_service_state" -> {[ok |-> step.own => fleet.service = step.expected, fleet |-> fleet]}
    [] step.name = "firewall_block_ip" -> {[ok |-> TRUE, fleet |-> [fleet EXCEPT !.blocked = TRUE]]}
    [] step.name = "firewall_unblock_ip" -> {[ok |-> TRUE, fleet |-> [fleet EXCEPT !.blocked = FALSE]]}
    [] step.name = "verify_firewall_rule" -> {[ok |-> fleet.blocked, fleet |-> fleet]}

\* The connection fails before the command or after it, and nobody can tell; else `out`.
Carried(out, lost) ==
  IF lost THEN {[ok |-> FALSE, fleet |-> f] : f \in {fleet, out.fleet}} ELSE {out}

----------------------------------------------------------------------------
\* The case.

NoCase == [status |-> "none", enriched |-> <<>>, inv |-> {}, verdict |-> {}, block |-> "none",
           techniques |-> FALSE, rec |-> NoPlaybook, events |-> <<>>, runs |-> {},
           human |-> "none", raced |-> FALSE, hidden |-> FALSE]

\* _rebuild_from_receipts, what get_case answers where the read fails: the timeline, the title
\* and whether it is closed; history: the decision is hidden from whoever goes by this.
Rebuilt ==
  [case EXCEPT !.status = IF @ = "closed" THEN "closed" ELSE "open", !.enriched = <<>>, !.techniques = FALSE,
               !.block = "none", !.rec = NoPlaybook, !.hidden = TRUE]

\* get_case
Reads(c) == c \in {case, Rebuilt} /\ SpendIf(c # case)

Event(decision, rec) == [decision |-> decision, rec |-> rec]

Decided(decision) ==
  [case EXCEPT !.status = "decided", !.block = decision, !.events = Append(@, Event(decision, NoPlaybook))]

\* What the gate of the responder reads: the newest supervisory event, else the block.
Decision(c) == IF c.events = <<>> THEN c.block ELSE Last(c.events).decision

RecOnCase(c) == IF c.rec # NoPlaybook \/ c.events = <<>> THEN c.rec ELSE Last(c.events).rec

Rest == [pc |-> "rest"]

Init ==
  /\ alert \in Alerts /\ keys \in KeySets /\ truth \in Truths /\ volume \in Volumes
  /\ case = NoCase
  /\ ticket = "none"
  /\ mint = "open"
  /\ sweep = Rest
  /\ run = [r \in Responders |-> Rest]
  /\ fleet = [service |-> "inactive", file |-> "changed", disk |-> "full", blocked |-> FALSE]
  /\ effects = {}
  /\ spent = [b \in DOMAIN Bounds |-> 0]

----------------------------------------------------------------------------
\* The opening: process_alert, and the router's dispatch of a security alert.

\* Enrichment, for the analyst only, and open_case.  The router decides an infra case itself.
Open ==
  /\ mint = "open"
  /\ \E failed \in SUBSET Asked :
       /\ SpendIf(failed # {})
       /\ case' = [NoCase EXCEPT
                     !.status = IF alert.minter = "infra" THEN "decided" ELSE "open",
                     !.block = IF alert.minter = "infra" THEN "approve" ELSE "none",
                     !.techniques = alert.techniques,
                     !.enriched = IF alert.minter = "analyst"
                                  THEN [o \in Range(Extracted) |-> Enriched(o, failed)] ELSE <<>>]
  /\ mint' = IF alert.minter = "infra" THEN "done" ELSE "investigate"
  /\ UNCHANGED <<world, ticket, sweep, run, fleet, effects>>

\* _persist_investigation: searches that fail, or that the budget leaves out, are missing
\* from the evidence; without any, and without an address, there is no event.
Investigate ==
  /\ mint = "investigate"
  /\ \E seen \in SUBSET Correlated :
       /\ SpendIf(seen # Correlated)
       /\ case' = [case EXCEPT !.inv = IF seen = {} \/ alert.srcip = "" THEN @ ELSE {Investigation(seen)}]
  /\ mint' = "verdict"
  /\ UNCHANGED <<world, ticket, sweep, run, fleet, effects>>

\* The analyst's verdict is an event of its own; the router leaves none.
Classify ==
  /\ mint = "verdict"
  /\ case' = IF alert.minter = "analyst"
             THEN [case EXCEPT !.verdict = {[level |-> alert.level, category |-> alert.class]}] ELSE case
  /\ mint' = "escalate"
  /\ UNCHANGED <<world, ticket, sweep, run, fleet, effects, spent>>

\* The ticket; the router goes on to the responder if the analyst recommends a playbook.
Escalate ==
  /\ mint = "escalate"
  /\ ticket' = "open"
  /\ mint' = IF alert.minter = "router" /\ Recommended(alert) # NoPlaybook THEN "respond" ELSE "done"
  /\ UNCHANGED <<world, case, sweep, run, fleet, effects, spent>>

\* The process dies; nobody takes the case up where it left off.
MintDies ==
  /\ mint \in {"investigate", "verdict", "escalate", "respond"} /\ Spend("faults")
  /\ mint' = "done"
  /\ UNCHANGED <<world, case, ticket, sweep, run, fleet, effects>>

----------------------------------------------------------------------------
\* The sweep: node_adjudicate_queue.

HasStatus(c, status) == \E o \in DOMAIN c.enriched : c.enriched[o] = status

AllBenign(c) == c.enriched # <<>> /\ \A o \in DOMAIN c.enriched : c.enriched[o] = "benign"

\* supervise_case, of the copy it is given.
Supervised(c) ==
  IF \/ HasStatus(c, "malicious")
     \/ ~ AllBenign(c) /\ (alert.title = "disk" \/ (alert.title # "integrity" /\ c.techniques))
  THEN "approve" ELSE "deny"

\* The pseudo alert of a recommendation.
Pseudo(level, category) == [rule |-> "", groups |-> {}, level |-> level, category |-> category]

SupervisedRec(c) ==
  IF Supervised(c) = "deny" THEN NoPlaybook
  ELSE IF HasStatus(c, "malicious") \/ c.techniques THEN Recommended(Pseudo(12, "threat"))
  ELSE Recommended(Pseudo(6, "operational"))

\* A case that has an investigation is decided on it, any other by supervise_case.
Judged(c) ==
  IF c.inv # {} THEN [pc |-> "decide"]
  ELSE [pc |-> "answer", decision |-> Supervised(c), rec |-> SupervisedRec(c)]

\* History: the sweep goes by a copy that does not show it the decision there is.
Judges(c) ==
  /\ sweep' = Judged(c)
  /\ case' = [case EXCEPT !.hidden = @ \/ c # case]

\* Slip: the ticket of a case that was decided or closed is passed over.
PassedOverRead ==
  /\ sweep.pc = "rest" /\ ticket = "open"
  /\ \E c \in {case, Rebuilt} : Reads(c) /\ c.status = "open" /\ Judges(c)
  /\ UNCHANGED <<world, ticket, mint, run, fleet, effects>>

\* A decided case's ticket is closed with no more ado; a case that shows no decision is judged.
SweepRead ==
  /\ sweep.pc = "rest" /\ ticket = "open"
  /\ \E c \in {case, Rebuilt} :
       /\ Reads(c)
       /\ IF c.status \in {"decided", "closed"}
          THEN ticket' = "done" /\ UNCHANGED <<sweep, case>>
          ELSE Judges(c) /\ UNCHANGED ticket
  /\ UNCHANGED <<world, mint, run, fleet, effects>>

Evidenced ==
  IF \E inv \in case.inv : inv.label = "high" \/ (inv.label = "medium" /\ Cardinality(inv.chain) >= 2)
  THEN "approve" ELSE "deny"

\* From the first verdict of the analyst, else an operational alert of level six.
EvidencedRec ==
  IF case.verdict = {} THEN Recommended(Pseudo(6, "operational"))
  ELSE LET v == CHOOSE x \in case.verdict : TRUE IN Recommended(Pseudo(v.level, v.category))

\* adjudicate_with_investigation: decide() raises on a case that was decided or closed
\* meanwhile, which ends the sweep.
SweepDecide ==
  /\ sweep.pc = "decide"
  /\ IF case.status = "open"
     THEN /\ case' = Decided(Evidenced)
          /\ sweep' = IF Evidenced = "approve" /\ EvidencedRec # NoPlaybook
                      THEN [pc |-> "reread", decision |-> "approve", rec |-> EvidencedRec]
                      ELSE [pc |-> "answer", decision |-> Evidenced, rec |-> NoPlaybook]
     ELSE sweep' = Rest /\ UNCHANGED case
  /\ UNCHANGED <<world, ticket, mint, run, fleet, effects, spent>>

\* The recommendation: the case is read once more ...
SweepReread ==
  /\ sweep.pc = "reread"
  /\ \E c \in {case, Rebuilt} :
       /\ Reads(c)
       /\ sweep' = [pc |-> "recommend", decision |-> "approve", rec |-> sweep.rec, copy |-> c]
  /\ UNCHANGED <<world, case, ticket, mint, run, fleet, effects>>

\* ... and written back as it was read, but for the events, which are points of their own; a
\* failure is logged.
SweepRecommend ==
  /\ sweep.pc = "recommend"
  /\ \E fails \in BOOLEAN :
       /\ SpendIf(fails)
       /\ case' = IF fails THEN case
                  ELSE [sweep.copy EXCEPT !.rec = sweep.rec, !.events = case.events, !.runs = case.runs,
                          !.human = case.human, !.raced = case.raced, !.hidden = @ \/ case.hidden]
  /\ sweep' = [pc |-> "answer", decision |-> "approve", rec |-> sweep.rec]
  /\ UNCHANGED <<world, ticket, mint, run, fleet, effects>>

\* adjudicate: the ticket, and the decision on a case that has none, neither block nor event.
\* A sync that fails does not raise.
SweepAnswer ==
  /\ sweep.pc = "answer"
  /\ \E fails \in BOOLEAN :
       /\ SpendIf(fails)
       /\ case' = IF case.status = "open" /\ Decision(case) = "none" /\ ~ fails THEN Decided(sweep.decision) ELSE case
  /\ ticket' = "done"
  /\ sweep' = [pc |-> "record", decision |-> sweep.decision, rec |-> sweep.rec]
  /\ UNCHANGED <<world, mint, run, fleet, effects>>

\* The adjudication event, whatever the case says by now.
SweepRecord ==
  /\ sweep.pc = "record"
  /\ case' = [case EXCEPT !.events = Append(@, Event(sweep.decision, sweep.rec))]
  /\ sweep' = Rest
  /\ UNCHANGED <<world, ticket, mint, run, fleet, effects, spent>>

SweepDies ==
  /\ sweep.pc # "rest" /\ Spend("faults")
  /\ sweep' = Rest
  /\ UNCHANGED <<world, case, ticket, mint, run, fleet, effects>>

SweepStep ==
  SweepRead \/ SweepDecide \/ SweepReread \/ SweepRecommend \/ SweepAnswer \/ SweepRecord

----------------------------------------------------------------------------
\* The responder.

\* The alert as the responder sees it: its own category, else the analyst's.
Seen ==
  [alert EXCEPT !.category = IF @ # "" \/ case.verdict = {} THEN @ ELSE (CHOOSE v \in case.verdict : TRUE).category]

\* Slip: only a denial stops a run.
NotDenied(c) == Decision(c) # "deny"

\* "Execution requires an EXPLICIT approving decision."
Approved(c) == Decision(c) = "approve"

\* The gate, the candidate and the guard: what run() may execute under a recommendation.  A
\* playbook without steps has no results, and its run leaves nothing.
Executable(c, rec) ==
  LET i == Candidate(Seen, rec)
  IN  IF ~ Approved(c) \/ i = NoPlaybook THEN NoPlaybook
      ELSE IF /\ Binds(Playbooks[i]) /\ Playbooks[i].tier \in {"tier0", "tier1", "tier2"}
              /\ ~ Unresolved(Playbooks[i]) /\ ~ Guarded(Playbooks[i])
              /\ Playbooks[i].steps # <<>> \/ Playbooks[i].tier = "tier2" THEN i
      ELSE NoPlaybook

\* A tier-2 playbook becomes a ticket, which is its result.
Begin(r, c, i) ==
  run' = [run EXCEPT ![r] =
            [pc |-> IF Playbooks[i].tier = "tier2" THEN "persist" ELSE "step",
             pb |-> i, id |-> <<r, spent["starts"]>>, results |-> IF Playbooks[i].tier = "tier2" THEN <<TRUE>> ELSE <<>>,
             gate |-> Decision(c), denied |-> case.human = "deny" /\ ~ case.raced /\ ~ case.hidden]]

\* A run by hand goes by the recommendation on the case; where it may not execute, it ends and
\* leaves nothing.
Start ==
  /\ run["hand"].pc = "rest" /\ case.status # "none"
  /\ \E c \in {case, Rebuilt} :
       /\ spent["starts"] < MaxStarts /\ (c # case => spent["faults"] < MaxFaults)
       /\ spent' = [spent EXCEPT !["starts"] = @ + 1, !["faults"] = IF c # case THEN @ + 1 ELSE @]
       /\ Executable(c, RecOnCase(c)) # NoPlaybook
       /\ Begin("hand", c, Executable(c, RecOnCase(c)))
  /\ UNCHANGED <<world, case, ticket, mint, sweep, fleet, effects>>

\* The router's run follows the ticket at once, with the analyst's recommendation.
Respond ==
  /\ mint = "respond"
  /\ \E c \in {case, Rebuilt} :
       /\ Reads(c)
       /\ LET i == Executable(c, Recommended(alert))
          IN  IF i = NoPlaybook THEN UNCHANGED run ELSE Begin("router", c, i)
  /\ mint' = "done"
  /\ UNCHANGED <<world, case, ticket, sweep, fleet, effects>>

\* execute_playbook, one step: a command that fails may have been carried out.  The first
\* failure is the last step.
Step(r) ==
  /\ run[r].pc = "step"
  /\ LET pb == Playbooks[run[r].pb]
         k == Len(run[r].results) + 1
     IN  \E lost \in BOOLEAN : \E out \in UNION {Carried(o, lost) : o \in Outcomes(pb.steps[k])} :
           /\ SpendIf(lost)
           /\ fleet' = out.fleet
           /\ LET results == Append(run[r].results, out.ok)
                  more == Last(results) /\ k < Len(pb.steps)
              IN  run' = [run EXCEPT ![r].results = results, ![r].pc = IF more THEN "step" ELSE "persist"]
           /\ effects' = effects \cup
                {[id |-> run[r].id, step |-> k, gate |-> run[r].gate, denied |-> run[r].denied,
                  after |-> {run[r].results[j] : j \in DOMAIN run[r].results}, touched |-> Targets(pb), lost |-> FALSE]}
  /\ UNCHANGED <<world, case, ticket, mint, sweep>>

\* History: what run `id` did is not going to be told.
Untold(id) == {IF e.id = id THEN [e EXCEPT !.lost = TRUE] ELSE e : e \in effects}

\* Slip: only a run that went well is written down.
PersistSuccess(r) ==
  /\ run[r].pc = "persist"
  /\ case' = IF FALSE \notin Range(run[r].results)
             THEN [case EXCEPT !.runs = @ \cup {[id |-> run[r].id, steps |-> Len(run[r].results)]}] ELSE case
  /\ run' = [run EXCEPT ![r] = Rest]
  /\ UNCHANGED <<world, ticket, mint, sweep, fleet, effects, spent>>

\* The "execution" event; a write that fails is logged.
Persist(r) ==
  /\ run[r].pc = "persist"
  /\ \E fails \in BOOLEAN :
       /\ SpendIf(fails)
       /\ case' = IF fails THEN case
                  ELSE [case EXCEPT !.runs = @ \cup {[id |-> run[r].id, steps |-> Len(run[r].results)]}]
       /\ effects' = IF fails THEN Untold(run[r].id) ELSE effects
  /\ run' = [run EXCEPT ![r] = Rest]
  /\ UNCHANGED <<world, ticket, mint, sweep, fleet>>

ResponderDies(r) ==
  /\ run[r].pc # "rest" /\ Spend("faults")
  /\ effects' = Untold(run[r].id)
  /\ run' = [run EXCEPT ![r] = Rest]
  /\ UNCHANGED <<world, case, ticket, mint, sweep, fleet>>

----------------------------------------------------------------------------
\* People, and the host.

\* The operator decides an open case, and with it the ticket, unless the call dies between.
Decide(v) ==
  /\ case.status = "open" /\ Spend("acts")
  /\ case' = [Decided(v) EXCEPT !.human = v, !.raced = sweep.pc # "rest", !.hidden = FALSE]
  /\ ticket' \in {ticket, IF ticket = "open" THEN "done" ELSE ticket}
  /\ UNCHANGED <<world, mint, sweep, run, fleet, effects>>

Close ==
  /\ case.status \in {"open", "decided"} /\ Spend("acts")
  /\ case' = [case EXCEPT !.status = "closed"]
  /\ UNCHANGED <<world, ticket, mint, sweep, run, fleet, effects>>

\* list_stale, of which only decided cases are closed: days without a touch.
Stale == case.status = "decided"

\* node_reconcile, the aging policy: what was decided and not touched for days is closed.
CloseStale ==
  /\ Stale /\ Spend("acts")
  /\ case' = [case EXCEPT !.status = "closed"]
  /\ UNCHANGED <<world, ticket, mint, sweep, run, fleet, effects>>

\* node_close_case: `close` on the command line is a verdict, by default an approval, of an
\* open case; the ticket is not touched, and the case is not closed.
CloseNode(v) ==
  /\ case.status = "open" /\ Spend("acts")
  /\ case' = [Decided(v) EXCEPT !.human = v, !.raced = sweep.pc # "rest", !.hidden = FALSE]
  /\ UNCHANGED <<world, ticket, mint, sweep, run, fleet, effects>>

\* A whole case put back, by the append_event, assign_case or decide() of whoever is at work on
\* it, the sweep and the responder too: as the receipts tell it, where that writer's read
\* failed, or as it stood before a decision the writer had not read.
Overwrite ==
  /\ case.status # "none" /\ Spend("faults")
  /\ case' \in {Rebuilt, [case EXCEPT !.status = "open", !.block = "none", !.rec = NoPlaybook, !.hidden = TRUE]}
  /\ UNCHANGED <<world, ticket, mint, sweep, run, fleet, effects>>

\* The service fails, so that a restart may do or not.
Fail ==
  /\ Spend("acts")
  /\ \E s \in {"inactive", "broken"} : fleet' = [fleet EXCEPT !.service = s]
  /\ UNCHANGED <<world, case, ticket, mint, sweep, run, effects>>

Next ==
  \/ Open \/ Investigate \/ Classify \/ Escalate \/ MintDies
  \/ SweepStep \/ SweepDies
  \/ Start \/ Respond
  \/ \E r \in Responders : Step(r) \/ Persist(r) \/ ResponderDies(r)
  \/ \E v \in {"approve", "deny"} : Decide(v) \/ CloseNode(v)
  \/ Close \/ CloseStale \/ Overwrite \/ Fail

\* The supervisory timer starts a sweep again and again.
Spec == Init /\ [][Next]_vars /\ WF_vars(SweepStep)

----------------------------------------------------------------------------
\* What a provider that was asked knows to be bad.
KnownBad == \E a \in Asked : truth[a[1]][a[2]] = "malicious"

\* What supervise_case approves without evidence.
Heuristic == alert.title = "disk" \/ (alert.techniques /\ alert.title # "integrity")

\* The sweep that is about to answer or to record an approval has a ground for it, whatever
\* searches, lookups and reads have failed: where an investigation was written, all the
\* evidence there is, weighed apart from the code, warrants it, so that no missing source has
\* made the rest look worse; where none was, a provider that was asked does know something
\* bad, or the title or the techniques speak for it, which is all supervise_case asks.  And a
\* case is denied as benign only if every provider that was asked knows the observables to be
\* so.  What a failure may do is move a case from the first ground to the last one: with no
\* search answered there is no investigation, and with a lookup missing not all is benign
\* (investigate, adjudicate_with_investigation, enrich_observable, supervise_case).
EvidenceIsSound ==
  /\ sweep.pc \notin {"rest", "decide"} /\ sweep.decision = "approve"
       => IF case.inv # {} THEN Warranted ELSE KnownBad \/ Heuristic
  /\ AllBenign(case) => \A a \in Asked : truth[a[1]][a[2]] = "benign"

\* "The human/supervisor decision is the authority": a step ran under a decision that
\* approved; not after an operator's denial, unless the sweep had read the case before it, or
\* since then a failed read or an overwriting write had hidden it; not after a step that
\* failed; and never on a protected entity (run, node_guard, execute_playbook).  The run that
\* an approved ticket holds, which goes on after a failed step, is not among them: it is
\* Approval's, and no ticket that is filed is found by its lookup (ApprovalReticket).
EffectsArePaid ==
  \A e \in effects :
    e.gate = "approve" /\ ~ e.denied /\ FALSE \notin e.after /\ e.touched \cap Protected = {}

\* "Persist responder results on the case spine so execution is auditable": a step that ran,
\* also one that failed, is on the case, or its run is still at work, or died, or could not
\* write (run, the "execution" event).
ExecutionIsOnRecord ==
  \A e \in effects :
    \/ e.lost
    \/ \E x \in case.runs : x.id = e.id /\ x.steps >= e.step
    \/ \E r \in Responders : run[r].pc # "rest" /\ run[r].id = e.id

\* An open ticket is answered, whatever fails in the sweep and whoever decides or closes the
\* case meanwhile (node_adjudicate_queue).
TicketIsAnswered == ticket = "open" ~> ticket = "done"
=============================================================================
