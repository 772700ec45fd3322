----------------------------- MODULE TuningGate -----------------------------
(***************************************************************************)
(* What a tuning entry of one rule says of an alert of that rule           *)
(* (agents/tools/tuning_tools.py, agents/tools/ontology.py).  An entry is  *)
(* the ledger's record of a decision about the rule; it suppresses an      *)
(* alert only when it is committed, its signature covers it as it stands,  *)
(* and the alert is of the shape the decision was made on.                 *)
(*                                                                         *)
(* The shape of an alert is its entity (the pair of addresses it is of or, *)
(* without one, its host), its level, the AppArmor profile it names, and   *)
(* its marks: the threat words of its description, its attack-class        *)
(* category and its attack-class groups, one mark for each.                *)
(***************************************************************************)
EXTENDS Integers, FiniteSets

CONSTANTS
  Alerts,       \* [host, entity, level, marks, profile, ...] : the alerts of the rule
  NoHost,       \* the entity scope of a fingerprint that names none
  NoProfile,    \* the profile of an alert whose profile cannot be read
  ThreatWords,  \* the mark of a threat description
  LiftMarks,    \* the categories whose severity may lift a tuning
  HighLevel     \* level from which it does

ASSUME GateAssumption ==
  /\ Alerts # {}
  /\ \A a \in Alerts : /\ {"host", "entity", "level", "marks", "profile"} \subseteq DOMAIN a
                       /\ a.level \in Nat
                       /\ IsFiniteSet(a.marks)
                       /\ a.host # NoHost /\ a.entity # NoHost
  /\ HighLevel \in Nat

Decisions == {"auto_fp", "operational", "escalate"}

Hosts == {a.host : a \in Alerts}

Entities == Hosts \cup {a.entity : a \in Alerts}

Profiles == {a.profile : a \in Alerts} \ {NoProfile}

Marks == UNION {a.marks : a \in Alerts}

Levels == {a.level : a \in Alerts}

NoPrint == [kind |-> "none", scope |-> NoHost, level |-> 0, marks |-> {}, profiles |-> {}]

\* A fingerprint without the rule's id ("scope") keeps only its profiles: the
\* comparison below does not apply to it.
Prints ==
  [kind : {"none", "scope", "full"}, scope : Entities \cup {NoHost}, level : Levels \cup {0},
   marks : SUBSET Marks, profiles : SUBSET Profiles]

\* fingerprint_from_alert: the decision-relevant shape, scoped to the entity.
PrintOf(a) ==
  [kind |-> "full", scope |-> a.entity, level |-> a.level, marks |-> a.marks, profiles |-> {}]

\* fingerprint_from_verdict: the same of a verdict, which knows the host and no pair.
VerdictPrint(a) ==
  [kind |-> "full", scope |-> a.host, level |-> a.level, marks |-> a.marks, profiles |-> {}]

\* fingerprint_materially_differs: another entity, a new mark, a higher level.
MateriallyDiffers(p, a) ==
  \/ p.scope # NoHost /\ p.scope # a.entity
  \/ ~ (a.marks \subseteq p.marks)
  \/ a.level > p.level

\* strong_tp_evidence: what lifts a tuning that has no fingerprint.
StrongEvidence(a) ==
  \/ ThreatWords \in a.marks
  \/ a.marks \cap LiftMarks # {} /\ a.level >= HighLevel

----------------------------------------------------------------------------
NoProposal == [decision |-> "none"]

Core(e) ==
  [decision |-> e.decision, state |-> e.state, by |-> e.by, print |-> e.print,
   exclude |-> e.exclude]

NoSignature == [decision |-> "none"]

NoEntry == [decision |-> "none", state |-> "none"]

Found(e) == e # NoEntry

\* tuning_state: anything but "committed" reads as a proposal.
Committed(e) == Found(e) /\ e.state = "committed"

\* verify_entry: the signature covers the core of the entry as it stands.
Verifies(e) == e.signature = Core(e)

\* Slip: the state is taken at its word.
UnsignedAllowed(e) == Committed(e)

SuppressionAllowed(e) == Committed(e) /\ Verifies(e)

\* tuned_rule_suppresses: authority, then the excluded hosts, then the profiles the
\* adjudication covered, then the fingerprint or, without one, strong evidence.
Suppresses(e, a) ==
  /\ SuppressionAllowed(e)
  /\ a.host \notin e.exclude
  /\ e.print.profiles = {} \/ a.profile = NoProfile \/ a.profile \in e.print.profiles
  /\ IF e.print.kind = "full" THEN ~ MateriallyDiffers(e.print, a)
                              ELSE ~ StrongEvidence(a)

\* pending_proposals: the automation's judgement that awaits a human, in its two shapes.
Pending(e) ==
  CASE ~ Found(e) -> NoProposal
    [] Found(e) /\ e.pending # NoProposal -> e.pending
    [] Found(e) /\ e.pending = NoProposal /\ ~ Committed(e) ->
         [decision |-> e.decision, by |-> e.by, print |-> e.print]
    [] OTHER -> NoProposal
=============================================================================
