------------------------------- MODULE Tuning -------------------------------
(***************************************************************************)
(* The tuning ledger (agents/tools/tuning_tools.py) of one rule and those  *)
(* who write it: the hourly sweep, which may only propose; the console,    *)
(* which signs and commits (SupervisoryClient.adjudicate); and the         *)
(* maintenance scripts an operator runs (deploy/lab).                      *)
(*                                                                         *)
(* No writer locks.  Each reads the entry, some of them twice, works out a *)
(* payload and upserts it whole.  lookup() answers a failed read with None,*)
(* as it answers an untuned rule.                                          *)
(*                                                                         *)
(* What is decided is a ticket.  The router files the verdict whole; the   *)
(* analyst spreads it over the ticket, where its fingerprint is not looked *)
(* for.  Neither files the alert where adjudicate() looks for it.          *)
(*                                                                         *)
(* The time of a decision, which the signature covers too, is left out: a  *)
(* write either signs the core it stores or keeps a stored entry verbatim. *)
(***************************************************************************)
EXTENDS TuningGate

CONSTANTS
  Sweeps,       \* the unattended adjudicator's processes
  Consoles,     \* the console's handler threads, and their operators' names
  Operators,    \* shells in which the maintenance scripts are run
  Rules,        \* which rule the entry is of ...
  ScriptsOf,    \* ... and the scripts that concern it
  Excluded,     \* hosts the scoped-tuning script keeps under review
  Narrowed,     \* the fingerprint the AppArmor script writes
  Loose,        \* the fingerprint the dpkg script writes
  FirstEntries, \* what the ledger may hold when the story begins
  Rulings,      \* the decisions taken of them
  MaxWrites,    \* bound: adjudications and script runs
  MaxLapses     \* bound: failed lookups and failed writes

Scripts == {"stamp", "sign", "narrow", "dpkg", "backfill"}

\* Who filed a ticket.
Filers == {"router", "analyst"}

Writers == Sweeps \cup Consoles \cup Operators

\* Who an entry may name: a writer, nobody, or whom the scripts and the entries from
\* before name.
Names == Writers \cup {"", "role", "operator", "dpkg"}

Proposals == [decision : Decisions, by : Names, print : Prints]

Cores ==
  [decision : Decisions, state : {"unset", "proposed", "committed"}, by : Names, print : Prints,
   exclude : SUBSET Hosts]

Entries ==
  [decision : Decisions, state : {"unset", "proposed", "committed"}, by : Names, print : Prints,
   exclude : SUBSET Hosts, signature : Cores \cup {NoSignature},
   pending : Proposals \cup {NoProposal}, superseded : Proposals \cup {NoProposal}]

\* The story begins before anything is signed; the scripts that write a fingerprint write
\* one with the rule's id.
ASSUME TuningAssumption ==
  /\ Rules \subseteq DOMAIN ScriptsOf /\ \A r \in Rules : ScriptsOf[r] \subseteq Scripts
  /\ Rulings \subseteq Decisions
  /\ Excluded \subseteq Hosts
  /\ {Narrowed, Loose} \subseteq Prints /\ Narrowed.kind = "full" /\ Loose.kind = "full"
  /\ FirstEntries \subseteq Entries \cup {NoEntry}
  /\ \A e \in FirstEntries : Found(e) => e.signature = NoSignature
  /\ MaxWrites \in Nat /\ MaxLapses \in Nat
  /\ Sweeps \cap Consoles = {} /\ Operators \cap (Sweeps \cup Consoles) = {}
  /\ "" \notin Sweeps \cup Consoles

VARIABLES
  rule,         \* the rule
  entry,        \* the ledger's record of it
  writer,       \* what each writer is at
  clicked,      \* history: the cores a console signed and stored
  vouched,      \* history: the cores the signing script signed and stored
  scoped,       \* history: the scoped-tuning script has excluded its hosts
  astray,       \* history: what went wrong under a write: a read stale or failed, half a script,
                \* the hosts left out by the backfill
  writes,       \* writers started so far
  lapses        \* failures so far

vars == <<rule, entry, writer, clicked, vouched, scoped, astray, writes, lapses>>

Rest == [pc |-> "rest"]

Init ==
  /\ rule \in Rules
  /\ entry \in FirstEntries
  /\ writer = [w \in Writers |-> Rest]
  /\ clicked = {} /\ vouched = {} /\ astray = {}
  /\ scoped = FALSE
  /\ writes = 0 /\ lapses = 0

At(w, pc) == writer[w].pc = pc

Becomes(w, state) == writer' = [writer EXCEPT ![w] = state]

\* lookup: the entry, or nothing when the store does not answer.
Look(seen) ==
  \/ seen = entry /\ UNCHANGED lapses
  \/ lapses < MaxLapses /\ seen = NoEntry /\ lapses' = lapses + 1

Begin == writes < MaxWrites /\ writes' = writes + 1

----------------------------------------------------------------------------
\* SupervisoryClient.adjudicate

\* A ticket of alert a is decided; the tuning decision is read off the verdict's map.
Adjudicate(w, a, filer, d) ==
  /\ At(w, "rest") /\ Begin
  /\ Becomes(w, [pc |-> "prior", alert |-> a, filer |-> filer, decision |-> d])
  /\ UNCHANGED <<rule, entry, clicked, vouched, scoped, astray, lapses>>

\* The fingerprint a ticket yields: of the verdict, where the ticket holds one.
TicketPrint(filer, a) == IF filer = "router" THEN VerdictPrint(a) ELSE NoPrint

DecisionPrint(w) == TicketPrint(writer[w].filer, writer[w].alert)

\* Slip: the hosts a person excluded are not carried over.
UnmergedArguments(w, prior) ==
  [decision |-> writer[w].decision,
   state |-> IF w \in Consoles THEN "committed" ELSE "proposed", by |-> w,
   print |-> DecisionPrint(w), exclude |-> {}, sign |-> w \in Consoles]

\* Slip: the fingerprint of the first decision is kept.
StaleArguments(w, prior) ==
  [decision |-> writer[w].decision,
   state |-> IF w \in Consoles THEN "committed" ELSE "proposed", by |-> w,
   print |-> IF Found(prior) THEN prior.print ELSE DecisionPrint(w),
   exclude |-> IF Found(prior) THEN prior.exclude ELSE {}, sign |-> w \in Consoles]

\* The prior entry's hosts and actor survive; both are taken only from an entry that
\* excludes hosts.
Arguments(w, prior) ==
  LET hosts == IF Found(prior) THEN prior.exclude ELSE {}
      named == IF hosts # {} THEN prior.by ELSE ""
  IN  [decision |-> writer[w].decision,
       state |-> IF w \in Consoles THEN "committed" ELSE "proposed",
       by |-> IF w \in Consoles /\ named # "" THEN named ELSE w,
       print |-> DecisionPrint(w), exclude |-> hosts, sign |-> w \in Consoles]

\* The merge with the prior entry.  An approval of a rule that has an entry ends here:
\* it is not a tuning decision.
ReadPrior(w) ==
  /\ At(w, "prior")
  /\ \E seen \in {entry, NoEntry} :
       /\ Look(seen)
       /\ IF writer[w].decision = "escalate" /\ Found(seen)
          THEN Becomes(w, Rest)
          ELSE Becomes(w, [pc |-> "prev", args |-> Arguments(w, seen), prior |-> seen,
                           alert |-> writer[w].alert, filer |-> writer[w].filer,
                           scoping |-> FALSE])
  /\ UNCHANGED <<rule, entry, clicked, vouched, scoped, astray, writes>>

----------------------------------------------------------------------------
\* TuningLedger.write

\* A proposal on a committed entry rides beside the decision and touches nothing of it.
Riding(prev, args) ==
  [prev EXCEPT !.pending = [decision |-> args.decision, by |-> args.by, print |-> args.print]]

\* What was pending when a human decided, in either of its shapes, one generation back.
Superseded(prev) ==
  IF Found(prev) THEN Pending(prev) ELSE NoProposal

Replacing(prev, args) ==
  LET core == [decision |-> args.decision, state |-> args.state, by |-> args.by,
               print |-> args.print, exclude |-> args.exclude]
  IN  [decision |-> args.decision, state |-> args.state, by |-> args.by, print |-> args.print,
       exclude |-> args.exclude,
       signature |-> IF args.sign THEN core ELSE NoSignature,
       pending |-> NoProposal,
       superseded |-> IF args.state = "committed" THEN Superseded(prev) ELSE NoProposal]

Payload(prev, args) ==
  IF args.state = "proposed" /\ Committed(prev) THEN Riding(prev, args)
                                                ELSE Replacing(prev, args)

\* write()'s own lookup, from which the payload follows.
ReadPrev(w) ==
  /\ At(w, "prev")
  /\ \E seen \in {entry, NoEntry} :
       /\ Look(seen)
       /\ Becomes(w, [pc |-> "put", payload |-> Payload(seen, writer[w].args),
                      args |-> writer[w].args, prior |-> writer[w].prior, prev |-> seen,
                      alert |-> writer[w].alert, filer |-> writer[w].filer,
                      scoping |-> writer[w].scoping])
  /\ UNCHANGED <<rule, entry, clicked, vouched, scoped, astray, writes>>

\* A script's arguments leave out the hosts of the entry it read.
Dropping(state) ==
  /\ ~ state.scoping
  /\ Found(state.prior) /\ state.prior.exclude # {} /\ state.args.exclude = {}

\* The upsert.  A commit is read back and, when it does not verify, reported; nothing
\* more is done about it.  The scoped-tuning script goes on to its second upsert.
Put(w) ==
  /\ At(w, "put")
  /\ LET state == writer[w]
         core == Core(state.payload) IN
       /\ entry' = state.payload
       /\ clicked' = IF w \in Consoles THEN clicked \cup {core} ELSE clicked
       /\ vouched' = IF w \in Operators /\ state.args.sign THEN vouched \cup {core} ELSE vouched
       /\ astray' = astray \cup (IF state.prior # entry THEN {"prior"} ELSE {})
                           \cup (IF state.prev # entry THEN {"prev"} ELSE {})
                           \cup (IF w \in Operators /\ Dropping(state) THEN {"dropped"} ELSE {})
       /\ Becomes(w, IF state.scoping THEN [pc |-> "merge"] ELSE Rest)
  /\ UNCHANGED <<rule, scoped, writes, lapses>>

\* The key cannot be read, or the store refuses: adjudicate() swallows the error and
\* the ticket is decided all the same.
Refused(w) ==
  /\ writer[w].pc \in {"put", "scopeput"}
  /\ lapses < MaxLapses
  /\ lapses' = lapses + 1
  /\ astray' = IF At(w, "scopeput") THEN astray \cup {"half"} ELSE astray
  /\ Becomes(w, Rest)
  /\ UNCHANGED <<rule, entry, clicked, vouched, scoped, writes>>

----------------------------------------------------------------------------
\* The maintenance scripts: what each reads, what it passes to write().

Same(sign) ==
  [decision |-> entry.decision, state |-> IF Committed(entry) THEN "committed" ELSE "proposed",
   by |-> entry.by, print |-> entry.print, exclude |-> entry.exclude, sign |-> sign]

\* stamp_tuning_states: a role agent proposed, anyone else is taken to have committed.
Stamped ==
  LET state == IF entry.by = "role" THEN "proposed" ELSE "committed"
  IN  IF Found(entry) /\ entry.state # state
      THEN {[Same(FALSE) EXCEPT !.state = state]} ELSE {}

\* sign_tuning_commits: every committed entry that does not verify.
Signed == IF Committed(entry) /\ ~ Verifies(entry) THEN {Same(TRUE)} ELSE {}

\* narrow_apparmor_tuning: a fingerprint with the profiles; or, where that is done, the
\* attribution, which rewrites the entry without its signature.
NarrowedTo ==
  IF Found(entry) /\ entry.print.kind = "full" /\ entry.print.profiles # {}
  THEN {Same(FALSE)}
  ELSE {[decision |-> IF Found(entry) THEN entry.decision ELSE "auto_fp", state |-> "committed",
         by |-> "operator", print |-> Narrowed,
         exclude |-> IF Found(entry) THEN entry.exclude ELSE {}, sign |-> FALSE]}

\* apply_dpkg_scoped_tuning: its write names no state, so it proposes.
Scoping ==
  {[decision |-> "auto_fp", state |-> "proposed", by |-> "dpkg", print |-> Loose,
    exclude |-> {}, sign |-> FALSE]}

\* backfill_tuning_fingerprints: an entry without one; neither state nor hosts are passed on.
Backfilled ==
  IF Found(entry) /\ entry.print.kind = "none"
  THEN {[decision |-> entry.decision, state |-> "proposed", by |-> entry.by,
         print |-> PrintOf(a), exclude |-> {}, sign |-> FALSE] : a \in Alerts}
  ELSE {}

Asked(script) ==
  CASE script = "stamp" -> Stamped
    [] script = "sign" -> Signed
    [] script = "narrow" -> NarrowedTo
    [] script = "dpkg" -> Scoping
    [] script = "backfill" -> Backfilled

RunScript(w, script) ==
  /\ At(w, "rest") /\ Begin
  /\ \E args \in Asked(script) :
       Becomes(w, [pc |-> "prev", args |-> args, prior |-> entry,
                   alert |-> CHOOSE a \in Alerts : TRUE, filer |-> "router",
                   scoping |-> script = "dpkg"])
  /\ UNCHANGED <<rule, entry, clicked, vouched, scoped, astray, lapses>>

\* The dpkg script's second upsert: the entry as it reads it, with the hosts added; the
\* signature the entry may carry is kept and no longer covers it.
ReadScope(w) ==
  /\ At(w, "merge")
  /\ IF Found(entry)
     THEN Becomes(w, [pc |-> "scopeput", payload |-> [entry EXCEPT !.exclude = Excluded],
                      prev |-> entry])
     ELSE Becomes(w, Rest)
  /\ UNCHANGED <<rule, entry, clicked, vouched, scoped, astray, writes, lapses>>

PutScope(w) ==
  /\ At(w, "scopeput")
  /\ entry' = writer[w].payload
  /\ scoped' = TRUE
  /\ astray' = IF writer[w].prev # entry THEN astray \cup {"scope"} ELSE astray
  /\ Becomes(w, Rest)
  /\ UNCHANGED <<rule, clicked, vouched, writes, lapses>>

----------------------------------------------------------------------------
WriteStep(w) == ReadPrior(w) \/ ReadPrev(w) \/ Put(w) \/ ReadScope(w) \/ PutScope(w)

Next ==
  \/ \E w \in Sweeps \cup Consoles, a \in Alerts, filer \in Filers, d \in Rulings :
       Adjudicate(w, a, filer, d)
  \/ \E w \in Operators, script \in ScriptsOf[rule] : RunScript(w, script)
  \/ \E w \in Writers : ReadPrior(w) \/ ReadPrev(w) \/ Put(w) \/ Refused(w)
  \/ \E w \in Operators : ReadScope(w) \/ PutScope(w)

\* A handler that was entered and a script that was started run on.
Spec == Init /\ [][Next]_vars /\ \A w \in Writers : WF_vars(WriteStep(w))

----------------------------------------------------------------------------
ArgumentSet ==
  [decision : Decisions, state : {"unset", "proposed", "committed"}, by : Names, print : Prints,
   exclude : SUBSET Hosts, sign : BOOLEAN]

\* What a writer may be at, and what it then has in hand.
States ==
  {Rest, [pc |-> "merge"]}
  \cup [pc : {"prior"}, alert : Alerts, filer : Filers, decision : Decisions]
  \cup [pc : {"prev"}, args : ArgumentSet, prior : Entries \cup {NoEntry}, alert : Alerts,
        filer : Filers, scoping : BOOLEAN]
  \cup [pc : {"put"}, payload : Entries, args : ArgumentSet, prior : Entries \cup {NoEntry},
        prev : Entries \cup {NoEntry}, alert : Alerts, filer : Filers, scoping : BOOLEAN]
  \cup [pc : {"scopeput"}, payload : Entries, prev : Entries]

TypeOK ==
  /\ rule \in Rules
  /\ entry \in Entries \cup {NoEntry}
  /\ writer \in [Writers -> States]
  /\ clicked \subseteq Cores /\ vouched \subseteq Cores
  /\ scoped \in BOOLEAN
  /\ astray \subseteq {"prior", "prev", "scope", "half", "dropped"}
  /\ writes \in 0..MaxWrites /\ lapses \in 0..MaxLapses

\* An entry that may suppress stands as a person's key signed it: the sweep, whatever it
\* writes and however its writes fall between the others', never makes a rule silent
\* (suppression_allowed, verify_entry).
SuppressionIsHuman == SuppressionAllowed(entry) => Core(entry) \in clicked \cup vouched

\* A scope once set by a person holds: an entry in force leaves the excluded hosts under
\* review, unless some writer acted on a read that failed or had gone stale, the backfill,
\* which passes no hosts on, met the scoped entry without its fingerprint, or the script
\* that scopes it, run again, is or was left between its two writes (adjudicate's merge
\* with the prior entry).
ScopeStands ==
  scoped /\ SuppressionAllowed(entry) =>
    \/ Excluded \subseteq entry.exclude
    \/ astray # {}
    \/ \E w \in Operators : writer[w].pc \in {"merge", "scopeput"}

Putting(w) == At(w, "put") /\ entry' = writer[w].payload /\ writer'[w].pc # "put"

\* The fingerprint of the ticket covers its alert: the router's verdict does when the alert
\* is of no pair of addresses; the analyst's ticket yields none, and the commit then rests on
\* the evidence.
Covers(filer, a) ==
  IF filer = "router" THEN a.entity = a.host ELSE ~ StrongEvidence(a)

\* A decision made at the console settles what it was made on wherever its ticket's
\* fingerprint covers the alert, and nowhere else: once stored, the alert that raised the
\* ticket is suppressed or its host is kept under review; and an alert of a pair, or one
\* with strong evidence in an analyst's ticket, comes back whatever the console decided
\* (adjudicate's fingerprint, "or the override loop never settles").
DecisionSettles ==
  [][\A w \in Consoles : Putting(w) /\ lapses' = lapses =>
        IF Covers(writer[w].filer, writer[w].alert)
        THEN \/ Suppresses(entry', writer[w].alert)
             \/ writer[w].alert.host \in entry'.exclude
        ELSE ~ Suppresses(entry', writer[w].alert)]_vars
=============================================================================
