# A verification project for the SSOP agents

TLA+ models of the parts of this repository where several processes share state
without locks, fail, and are started again: the case spine and what vouches for it, the
router's intake and dispatch, the analyst's sweep, hunts, the intel run, the tuning ledger,
the approval of escalations and tier-2 runs, the path from evidence to a command on a
host, and the copies of a case that people read. TLC checks them on small instances;
TLAPS proves their safety properties for every instance.
`PROJECT.json` holds the details: for every definition the source lines it models, for
every property a faulty variant of the code that it catches, and the hazards at their
lines.

    tlc -workers 2 -config SpineConcurrent.cfg MCCaseSpine     # check one run
    tlapm CaseSpineProofs.tla                                  # check one proof module

Paths below are relative to `src/agents/` unless they start with `docs/`, `deploy/`.

## 1. The system

SSOP is a security operations platform made of small Python agents. Each runs as a
process of its own, started by a systemd timer or by hand; none keeps state between
runs except in stores that all of them share:

| store | written by | rule of writing |
|---|---|---|
| case points (Qdrant) | every agent, through `CaseStore` | the whole payload, last write wins |
| event points (Qdrant) | `append_event`, finished mutations | one point an event, never overwritten |
| receipts, the audit chain (JSONL) | `CaseStore._write_receipt` | append, before the point, signed over the predecessor |
| ticket directory (JSON files) | `EscalationClient`, sweep, console | overwritten in place |
| router cursor (JSON file) | the router | overwritten at the end of a run |
| tuning ledger (Qdrant) | sweep, console, maintenance scripts | read, then upsert whole |
| hunt packs (YAML files) | intel, promotion by a person | staged, then moved |
| IRIS, Security Onion | the publishers; people | create, or post under a tag or a place |

An alert travels so: the **router** fetches a page of alerts from the indexer,
classifies each one and dispatches it, which opens or extends a **case** and may file a
**ticket**; the **analyst's sweep** reads the same alerts on a timer of its own. The
**supervisory sweep** and the **operator's console** answer tickets, after an
investigation across sources; the answer is written on the ticket, on the case and in the
**tuning ledger**, which the router, the analyst and the hunts read. The **responder**
asks whether the case is approved, runs a playbook, or for tier 2 files a ticket and
executes the stored run once it is approved. **Hunts** and the **intel run** open cases of
their own. Publishers copy cases to **IRIS** and **Security Onion** and bring back what
people write there.

### Components

**Case spine** (`tools/case_tools.py`). State: point, event points and receipts of a
case. Operations: `open_case`, `append_event`, `assign_case`, `transition`, `decide`,
`reopen`, `close_case`. Hard: each call is a read, a receipt, a point write, a
verification and an event point, with other processes between any two; a failed read is
answered from receipts, and what the caller makes of that answer is written over the case,
in this component and in every other one; every write can fail or be the last thing the
process does.
Correct when: a decision once recorded is never gone, no event a caller was told of is
gone, the receipt precedes what it accounts for, retries end, and one writer by itself
implements the lifecycle table.

**What vouches for a case** (`tools/audit_chain.py`; `reconcile`, `reattest_*`,
`archive_*`, `provenance_*` of the spine). Hard: each process has its own idea of the tail
of the chain; reconcile, re-attestation and archiving act on a scan of the points and a
reading of the receipts made one after the other. Correct when: the chain breaks for a
reason and tells of every edit, a case is called tampered with only for a reason, and a
retired case is not healed.

**Router intake** (`router.py`, `run`, `Cursor`). State: cursor file (`last_ts`,
`search_after`, seen ids, bursts). Hard: equal timestamps, full pages, alerts that
become searchable late, failed dispatches in mid-page, a kill before the save, a torn file, a
trimmed seen list. Correct when: nothing that was searchable in time is skipped unseen,
repeated dispatch and suppression are bounded, every such alert is reached.

**Classification, dispatch and the analyst's sweep** (`router.py` `classify`,
`dispatch_*`; `tools/infra_disposition.py`; `analyst.py`, `tools/analyst_tools.py`).
Hard: two processes judge one alert and look before they write; a crash between a case,
its ticket, its disposition and the look at the host. Correct when: both mean the same by
a tuning entry, neither duplicates its own cases, an escalation reaches a person, an infra
case is decided and its host looked at.

**Escalation queue, sweep, console** (`tools/escalate_tools.py`, `supervisory.py`,
`tools/supervisory_tools.py`, `tools/adjudicate_api.py`). Hard: the case is read minutes
before it is written; a death between ticket and case; the console at work on the same
ticket. Correct when: an answered ticket's case has the decision, every listed ticket is
answered, a human's decision is not overridden, tier 2 waits for a human.

**Tuning ledger** (`tools/tuning_tools.py`, five scripts under `deploy/lab`). Hard: every
writer reads, some twice, and upserts the whole entry; a failed read is an untuned rule.
Correct when: only what a person signed silences a rule, a scope a person set stands, and
a decision settles what it was made on.

**Evidence and response** (`tools/enrichment.py`, `tools/investigator.py`,
`responder.py`, `tools/responder_steps.py`, `tools/playbook_loader.py`). Hard: lookups and
searches fail and are left out; people decide and close meanwhile; two responders at one
case; a death between a command and its record. Correct when: an approval has a ground
that no hole in the evidence makes, commands run under an approval and never on a protected entity, and
what ran is on the case.

**Hunts** (`hunt.py`, `tools/hunt_tools.py`, `tools/bulk_intel.py`) and the **intel run**
(`intel.py`, `tools/intel_tools.py`, `tools/version_match.py`). Hard: ticket before mark,
look before open, a close before its evidence, versions on a bound, searches that return a
fixed number of hits. Correct when: one ticket a case, one open case a finding, suspicions and
exposures come to a person, and a case is closed as patched only if it is and says why.

**Publication** (`tools/report_gen.py`, `tools/advisory_gen.py`, `deploy/lab/publish_*`,
`deploy/lab/sync_iris_to_spine.py`). Hard: each reads the case, takes its time, and
writes; runs repeat, overlap and die. Correct when: copies are not repeated, what people
wrote arrives once, and a page printed as attested was; where a read of the case was answered
from receipts, only what the exceptions of the properties name.

**Self-heal, indexer client, feeds, vector search, configuration, drills, verification
harness, deployment**: remote I/O, pure functions over documents and configuration.
`PROJECT.json` lists each with its status and the reason.

## 2. The modules

    CaseLifecycle ---- CaseMachine            what a case promises
          \                 ^ refinement (Machine == INSTANCE CaseMachine)
           `---------- CaseSpine              how three stores keep it
    SpineIntegrity                            what vouches for it
    RouterIntake                              one page, one cursor file
    TuningGate ------- Tuning                 the ledger's writers
          `----------- Triage                 its readers: router and analyst
    Supervision ------ Approval               queue, sweep, console (+ responders)
    Soar                                      evidence, decision, playbook
    Hunt      Intel      Publish

Each `MC...` module holds the values that a .cfg cannot write. The proofs are in
`CaseSpineProofs`, `RouterIntakeProofs`, `TriageProofs`, `TuningProofs`, `ApprovalProofs`,
`SoarProofs`, `HuntProofs` and `PublishProofs`, each of the module it is named after; those of
`SpineIntegrity` are in `CaseSpineProofs`, those of `Supervision` in `ApprovalProofs` and those
of `Intel` in `RouterIntakeProofs`. Definitions whose comment begins with "Slip:" are faulty
variants of the definition below them, and no action uses them. What one module takes as one
step or leaves open is another's subject, and its header says whose.

One thing every module that touches a case has of its own, because it is what makes the modules
more than the sum of their writes: a read of a case may fail and is then answered from receipts
(`get_case`), and `append_event` and the mutations write what they made of that answer over the
case. `CaseSpine` has it at each read (`Fetched`); in `Supervision`, `Soar`, `Hunt`, `Intel` and
`Publish` it is a fault of the reader, or the action `Overwrite` of another process, and what it
takes from the case is what that module looks for: the decision block, the source a case is
found by, the cursor of the last sync, all entries of a write but the last.

### CaseLifecycle, CaseMachine, CaseSpine

`CaseLifecycle` is the transition table, `_normalize_state` (for which "reopened" is
not a state, so that it reads as "new") and the advance an event causes. `CaseMachine`
is the abstract specification: a position and a verdict that move by the table.

`CaseSpine` is one case and any number of writers. `local[w]` is what a process holds:
its call, the copy of the case it read, the attempt, and a `pc` that names the store
access it does next. A call numbers itself (`op`), which stands for its timestamp and
role; `stamp` is `updated_ts`, one per write.

| actions | code |
|---|---|
| Start, Mutate, Refuse | `_mutate_case`: read, apply `_mut`, `CaseStateError` |
| Project, AppendEvent | `append_event`: read, project, event point first |
| WriteReceipt, WriteMemory, WriteMemoryAndReturn | `_write_both` |
| Confirm, Retry, GiveUp | the verification and `CaseConflictError` |
| Record, LoseRecord | the event point of a finished mutation, swallowed failure |
| Fail | death, or a store write that raises |

`Fetched` is `get_case`: the point with event points folded in or, when the store does
not answer (`FlakyReads`), a case rebuilt from receipts, in which state, block, revision
and assignee are defaults. `close_case` goes through a second, unverified write
(`close_receipt`, `close_memory`). Data left out: titles, observables, hashes, ids.

### SpineIntegrity

One case again, with the file's lines (`log`), its point (`stored`), and the tail each process
keeps; `job` is what a process is at, with what it read and what it is about to write.
A document is known by whose hand it is of and when it was made, which is all its digest
tells. Read, Sign, Put are a mutation; Scan, Index, Rebuild, Heal, Attest, Reread, Compare
and Report are `reconcile`, in the order of its readings; Weigh, Admit, Measure and
SignMeasured are `reattest_payload`; ScanToArchive to Delete are `_archive_one`; ListCases,
Purge and RewriteSpine are `deploy/lab/reset_case_queue.py`. Die may tear the line being
appended; Rewrite and EditRecord come from outside. `wounds` is the history of what
happened to the stores and of the operations that overlapped, by name, against which the
reports are held.

### RouterIntake

`disk` is the cursor file, `run` a run with its page and its copy of the cursor.
Fetch is the query (`timestamp >= last_ts`, `search_after`, sort by timestamp and id);
Arrive puts an alert into the index, in the order of the query or, `MaxLate` times, behind one the
router has read already (`late`); Skip, Take and Save are the loop and its checkpoint discipline; `Counted` and `Repeats`
are `burst_count`; Kill and Tear are deaths in the loop and inside the save. What
`dispatch()` makes of an alert is an outcome: previewed, unrouted, deduped, dispatched
or failed. The histories `fate`, `led`, `dispatched` say what was done to an alert. A cursor file
of the time before `search_after` is an initial state of its own (`Legacy`).

### TuningGate, Tuning, Triage

`TuningGate` has no state: an entry, its signature (which covers its core as it stands),
the fingerprint of an alert, what differs materially, and `Suppresses`.

`Tuning` is the entry of one rule. A writer reads the prior entry (`ReadPrior`, the merge in
`adjudicate`), reads again (`ReadPrev`, in `write`), and upserts (`Put`) what it worked out
(`Payload`: a proposal rides beside a commit and touches nothing of it). The sweep
proposes, the console signs and commits, and an operator's shell runs one of five scripts
(`Asked`); the dpkg script has a second upsert. The fingerprint of a decision is what the console
makes of the ticket, not of the alert: no writer files `detail.alert`, so the router's ticket gives
the scope of its host and the categories and rule of its verdict, the analyst's gives none
(`TicketPrint`, `DecisionPrint`). Either read may see nothing, either write
may be refused. The time of a decision is left out.

`Triage` is the two readers. The router takes an alert that is due, judges it, and per role
opens, attaches, files, decides and looks at the host, one write a step; the sweep judges,
records and files. A case is what the lookups compare: its opener, kind, host, rule, pair,
state and whether it is older than the window. An alert is one that no burst swallows, and its
dispatch counts its burst: a dispatch that raises is not repeated (its retry is a repeat of its own
burst, or lies behind the boundary), and only a run that dies before it saves its cursor (`Die`)
brings alerts back. `DisposeBacklog` is
`deploy/lab/dispose_infra_cases.py`.

### Supervision, Approval, Soar

`Supervision` holds tickets, the decision of each case (`block`, the supervisory block;
`last`, the newest adjudication event), one sweep and one console call, cut wherever
another process can write in between. `SweepStart` lists and groups, at most `Limit`
groups as `node_adjudicate_queue`; `SweepRead` reads the case; `SweepDecide`, whose
verdict is open, is the investigation; `SweepWrite`, `SweepSync`, `SweepRepeat` and
`SweepRecord` are the writes in the code's order. `Ruled` is a console decision that
reaches a case, and keeps the histories `human` (what the operator decided), `raced`
(whether a sweep was between its read and its last write) and `hidden` (whether since then a
failed read or an overwriting write has shown the case without its decision: `Blink`, `Hides`). fp reads as deny, which is
what gate and `case_verdict` make of it. A write to the spine is one step here, because
what happens inside one is the subject of `CaseSpine`.

`Approval` adds responders. Start is the gate of `run()` (the newest adjudication
overrides the block); Lookup, ReadMarks, Execute and Mark are `_consume_approved_run`;
File and Pass are what comes after no run was found; Expire is the passing of
`approval_expiry_min`. `Nested` is the set of tickets whose run lies under `detail`,
where the lookup reads it: the tests build such tickets, `EscalationClient` does not
(see the disagreements), so both shapes are instances.

`Soar` takes one case from its alert to the commands on a host. `truth` is what each provider
knows of each observable and `volume` how many events of a source name the address; `Lookup`,
`Investigation`, `Supervised` and `Evidenced` are `enrich_observable`, `investigate`,
`supervise_case` and `adjudicate_with_investigation` over what answered; `Warranted` is the
judgement of all the evidence, stated apart; `Heuristic` is what `supervise_case` approves on where
no investigation was written. The playbook library is read in the order of its
file names, with a file that does not parse; a step is bound, checked and carried out one at a
time, and `Persist` puts the run on the case.

### Hunt, Intel, Publish

`Hunt` has the sweep (Look, Scan, Attach, Cool, Mint, Ticket, Mark), the router's pattern
dispatch with a rate limit that its process forgets (NewRun), and a person's run; the
ledger, what the queries return and the corpus change under them. A case that a failed read has
stripped of its source (`sourced`) is found by nobody any more.

`Intel` has the timer's run and one by hand, phase by phase (Ingest, MintLook, MintOpen, Enrich,
List, Judge, Evidence). A version is its numbers and its form: a release, one with a package
revision, a pre-release, one whose upstream version follows "+really", or one that cannot be read;
a search returns `SearchLimit` cases of a vulnerability, closed ones included (`Mentions`), and any
of them may be the ones; `Disposition` is `disposition_version` over
them. The reference is the order of a dictionary, a pre-release just before its release
(`Precedes`, `Earlier`, `Affects`), and `ClosingIsEarned` holds the closings against it;
`MCIntel` checks that order in turn against versions read as numbers. The histories of a case are
who closed it, whether that was wrong, and what there is against it (`Doubt`).

`Publish` has one case, the open IRIS cases with their rows, the comments of Security
Onion by place, the page printed last, and two processes that each run one of ten
operations. Which operations and acts meet in a behaviour (`Mixes`) is chosen at the start,
so that programs that share nothing are not interleaved. The publisher's loop over the
events (`Post`) takes the first that has no row (`Unposted`); the fetch of the run that
brings back what people wrote (`Fetch`) marks what it passes over (`Missed`), and the write
appends in the order of dates (`ByDate`). `receipts` is the last entry of each write, which is what
a failed read makes a case of (`Rebuilt`); `loose` and `stray` are the histories of what such a
copy, written back or published, has left behind.

## 3. What is checked

| run | instance | distinct states | question |
|---|---|---|---|
| concurrent | 2 writers, 2 calls, 2 attempts, failing reads, deaths | 223,240 | what survives any race |
| serial | 1 writer, 4 calls, deaths | 1,779,505 | is the spine the case machine |
| intake | 4 alerts, 2 of them late, pages of 2, 1 failure, 1 death, previews | 81,902 | is the intake complete and bounded |
| approval | 3 tickets, 1 case, 2 responders, each fault once | 3,333,422 | executions, denials, answers |
| approval_tier_two | 2 tickets, no operator | - | a claim of the comments, violated |
| tuning | 1 rule of two kinds, sweep, console, shell, 3 writes, 1 failure | 1,678,970 | what may silence a rule |
| triage | 3 kinds of alert, 2 arrivals, 1 alert of the sweep, 1 fault, 1 act | 354,634 | is an alert answered, once |
| integrity | 2 processes, 3 operations, 1 fault, 1 write from outside | 2,647,305 | are the reports true |
| hunt | 2 hunts, 1 pattern alert, 1 fault, 1 act, 1 age | 1,759,476 | is a finding told, once |
| publish | 2 processes, 3 operations, 2 posts, 1 fault, 1 act, in 5 mixes | 885,974 | are the copies faithful |
| intel | 2 vulnerabilities, 1 host, 2 runs, 1 fault, 1 act | 203,323 | is closing earned |
| soar | 1 case of 7 kinds, 10 playbooks, 2 responders, 1 fault, 2 acts | 652,330 | may a command run |

### Properties of the passing runs

**Spine.** `RecordsKept`: an event a caller was told of stays in the timeline.
`DecisionKept`: after a recorded decision every reader finds one. `WriteAhead`: nothing in
the working store lacks a receipt. `BlockHasEvent`: a decision block has its adjudication
entry. `EveryCallReturns`: retries end. `OneStory`: block and timeline name the same
decision. `ImplementsMachine`: refinement. `TypeOK`.

**Integrity.** `ChainTellsTheTruth`: the chain fails only after an edit, a torn line, a
queue reset or two kept tails, and an edit always makes it fail. `ReportIsEarned`: "drifted"
has a cause, and "chained at write" is never said of a repair. `RetiredIsNotHealed`: a heal
after the tombstone was blind, overtaken, or the point had been lost, or two archivings
overlapped and the one deleted what the other was about to retire; it rests on the order of the
two readings in `reconcile`.

**Intake and triage.** `BoundaryHidesNothing`: what the cursor no longer asks for was looked
at, unless it became searchable after something behind it had been read.
`RedispatchIsPaid`: at most one dispatch, and one more for each death.
`SuppressionIsBounded`: each entity of a suppressed alert was shown within the age cap.
`EveryAlertIsTaken`: but for those late ones. `SuppressedIsQuiet`: neither path opens or files what the ledger has
silenced all along. `TwinsAreRaces`: no agent by itself has two cases of one incident in
sight. `OpenedIsTold`: an escalation the router opened is told, whatever crash came before
the ticket, unless its dispatch raised. `InfraIsServed`: an infra case is decided and a host
that is down reported, with the same exception: what a dispatch leaves half done when a write
raises stays so, because its burst is counted.

**Tuning.** `SuppressionIsHuman`: an entry that may suppress stands as a person's key signed
it. `ScopeStands`: excluded hosts stay under review, unless a writer acted on a failed or
stale read, the script stopped halfway, or the backfill dropped them. `DecisionSettles`: a console
decision suppresses the alert it was made on, or its host is under review, exactly where the
ticket's fingerprint covers the alert; the alert of a pair, and one with strong evidence in an
analyst's ticket, comes back.

**Approval and response.** `ExecutionIsPaid`: a step of an approved run is executed at most
once per responder and once more per crash or lost marker. `DenialIsAuthority`: an
operator's denial keeps the gate shut, unless a sweep was at work on that very case, or a
failed read or an overwriting write has hidden the denial since.
`OrphansArePaid`: a case with an answered ticket and no decision is paid for by a death or a
failed write, unless it shares a title with another case. `EvidenceIsSound`: every approval of
the sweep has a ground: where an investigation was written, all the evidence, seen or not,
warrants it; where none was, because nothing was found or no search answered, the title, the
techniques or a provider's word do. So failures never make a weak investigation strong, and can
put the techniques in its place. Nothing is called benign that somebody asked knows to be bad.
`EffectsArePaid`: a command runs under an approving decision, on no protected entity, and, in a
run begun from a recommendation, not after a failed step, nor after a denial that was neither
raced nor hidden. The stored run of an approved ticket, which goes on after a failed step, is
`Approval`'s. `ExecutionIsOnRecord`: what ran is on the case, or its loss is accounted
for. `TicketIsAnswered`: an open ticket is answered.

**Hunt, intel, publication.** `TicketsArePaid`: one ticket of the sweep for a case, and one
more per death before the mark. `TwinsAreExcused`: a second open case of a hunt has a
reason. `SuspicionIsTold`: an untuned suspicion that stays comes to a person.
`ClosingIsEarned`: a case closed as patched is of a version nothing listed affects, or one
of six named reasons holds. `ClosingIsExplained`: it has the event that says so, unless the run
is between the two writes or ended there. `ExposureIsShown`: an exposure that stays is shown
again and again, by a case with its score as long as one search returns all cases of the
vulnerability. `MirrorsAreExcused`: a second IRIS case or row has a reason. `HumanOnce`,
`HumanArrives`: what people wrote comes back once, and the cursor passes nothing, but for what
the exceptions name: what is dated ahead, or was in receipts that became the case, comes again.
`SoShowsTheTimeline`: comments show the timeline, each at its place, but for those a publication
made of receipts. `GateHolds`: a page printed as attested was, unless it was made of receipts.

An exception in a property ("unless ...") is a history variable with a name, so that a
second cause of the same violation would be found.

### Bounds

Every bound is a constant. `Attempts` is 5 in the code and 2 in the runs, where it
multiplies states. Two writers are the least that race, and two calls interleave at every
access; four serial calls reach decide-reopen-decide and a death on the way. Four alerts
put ties across a page of two, overflow a seen list of two, continue a burst, outlive its age
cap and bring it a new entity; two of them may be late. Two responders race for one run while
sweep and console race for its case and tickets. Three writes of the ledger are a human's,
one that read before it and one that follows. Three operations of the integrity and
publication runs are two that overlap and one in between; the alerts, hunts, packages and
playbooks are chosen so that each branch of a decision is taken by one of them. The intel run
never needs the last of its seven case identifiers, so their number cuts nothing off. Each fault
happens once, and once is what each counting property needs to be tight; where a proof
covers the property, it removes the bound.

`integrity` and `publish` take their two processes as symmetric, `approval` its two responders;
none of them checks liveness.

**Deadlock** is switched off: calls, alerts and tickets are finite, and when they are
used up the system rests; agents that nobody starts are idle by design.

**Fairness.** Weak fairness only, on the steps of a process that runs and on starts that a
persistent timer under `deploy/systemd` makes again and again. `CaseSpine!FairSpec`: the
steps of each writer, which waits for nobody. `RouterIntake!FairSpec`: the start of a real
run (every three minutes) and its work. `Tuning`: a handler entered runs on. `Triage`: the
router. `Hunt`: the sweep. `Intel`: the timer's run. `Soar`: the supervisory sweep. Starts
by people, previews, failures, deaths and acts have none, and failures are finite, which is
what "stays" and "again and again" rest on. `SpineIntegrity`, `Publish` and `Approval` are
checked for safety only.

### Disagreements between the code and what is said of it

`approval_tier_two` is a run of `PROJECT.json`: the sweep approves tier-2 tickets, because
their case is approved, where `supervisory.py:8` says "Tier 2 recommendations require human
confirm". The others have a configuration of their own; `tlc -config X.cfg M` shows each.

| X.cfg | M | what is said | what TLC shows |
|---|---|---|---|
| SpineLostUpdate | MCCaseSpine | `tools/case_tools.py:635` "the last writer never silently discards an earlier one" | `_mutate_case` verifies only its own write: two calls that read before either wrote both succeed, and the first one's payload is gone |
| SpineAppendRevert | MCCaseSpine | 687 "can only delay a last_touched refresh or a state advance" | `append_event` writes the payload it read, and removes a decision block made in between |
| SpineFallback | MCCaseSpine | 284 "a decided case can't silently drift back to triage" | a read that falls back to receipts, then a write: the decided case is new |
| ArchiveDump | SpineIntegrity | 1813 "The payload is dumped ... first" | the dump fails and is logged, and the point is deleted |
| RouterFailed | MCRouterIntake | `router.py:900` "a failed dispatch is retried on the next run" | a failure followed by a success in one page lies behind the boundary |
| RouterTuned | MCRouterIntake | `router.py:421` "the override MUST reach a human" | a suppressed alert opens the burst that suppresses the override |
| ApprovalReticket | MCApproval | `responder.py:612` "no new ticket is issued" | the lookup reads `detail`, which the writer has spread |
| ApprovalRepeats | MCApproval | `tools/supervisory_tools.py:250` "records it where the readers look" | a repeat names another case, which never gets its decision |
| TriageLab | MCTriage | `tools/ontology.py:140` what a lab alert "must never do is tune production policy or escalate" | the sweep opens a lab case; the router takes it for a chain, attaches and files |
| InfraDedupe | MCTriage | `tools/case_tools.py:1332` "open_only=True: NO time bound" | the hour's window applies, and an incident that stays open is opened again |
| HuntRearm | MCHunt | `hunt.py:131` "closed recently (denied) is not instantly re-minted" | the cooldown counts from the opening: a case closed just now does not hold |
| PublishGate | MCPublish | `tools/case_tools.py:222` "Called by every publication surface" | the publisher to IRIS never asks |
| PublishNote | MCPublish | `deploy/lab/sync_iris_to_spine.py:9` "become part of the spine's authoritative audit trail" | a note written between reading and writing is behind the cursor |
| PublishUnread | MCPublish | `tools/report_gen.py:347` "must not present content the spine cannot vouch for as verified evidence" | a read that fails is answered from receipts, and the page is printed under the verdict of the point |
| IntelUnread | MCIntel | `tools/intel_tools.py:332` "Absence of parseable evidence is never treated as safety" | an entry that cannot be parsed, or is for all versions, is dropped, and the case closed on the others |

Met on the way and modelled as the code has it, without a configuration: re-runs of the sync
"append nothing" (`deploy/lab/sync_iris_to_spine.py:22`), but for the two exceptions of `HumanOnce`;
a console decision is to carry its alert's fingerprint (`tools/supervisory_tools.py:146`), from a
place where nothing files it, so that an alert of a pair is never settled; the backfill of
fingerprints is "Purely additive" (`deploy/lab/backfill_tuning_fingerprints.py:9`), but drops the
excluded hosts of an entry without a fingerprint and demotes it to a proposal; a failed dispatch is
to be retried, but its burst is counted and its retry swallowed (`router.py:963`); a version after
"+really" is cut off and the one before it taken for the installed one
(`tools/version_match.py:47`); the cases to score are 20 hits of a search that closed ones fill
(`tools/intel_tools.py:245`); a bare proposal sends infra and pattern alerts to the analyst (`router.py:427`); two hosts of one rule
override each other's entry for ever (`tools/supervisory_tools.py:195`); a fix that did not
help counts as healed (`router.py:653`); a hunt whose query always fails starves those
after it (`hunt.py:148`); the last provider asked has the last word, so that OTX can
overwrite VirusTotal (`tools/enrichment.py:230` says it is the authority); `live_net`
counts every live alert a second time (`tools/investigator.py:166`); a console approval
calls no responder; `node_close_case` records a verdict and closes nothing; a legacy
line or a failed upsert leaves a permanent drift alarm; a patched leg is opened and closed
every day; the scan of open intel cases is one page that closed ones fill
(`tools/intel_tools.py:402`); an NVD range that begins after a pre-release leaves out the
release, which is one version with it to the code (`tools/version_match.py:32`).

### Hazards beyond the list

`PROJECT.json` lists forty. These also exist: a dry run saves the
cursor it shares with the timer's runs (`router.py:966`); an alert whose dispatch raises stops
the page for good (999); fifty that fail fill it (985); an unreadable queue makes the responder file a second
ticket (`responder.py:428`); a run with a protected target blocks those behind it (492);
the sweep writes back the ticket it listed over a console verdict
(`tools/supervisory_tools.py:101`); the recommendation is written with the case as read
(469); router and sweep open a case each for one alert (`analyst.py:144`, in the list without a
property); a commit can be replaced by a proposal whose read failed
(`tools/tuning_tools.py:543`), which makes noise and never silence.

## 4. What is proved

The theorems are of the form `Spec => []Inv`, `Spec => [][A]_vars` or `Spec => Machine!Spec`,
for any sets of writers, calls, alerts, tickets, cases, responders and any value of the bounds;
`RangesAreRight` is about the operators of the version check.
They rest on the named assumptions of the modules (`SpineAssumption`, `IntakeAssumption`,
`GateAssumption`, `TriageAssumption`, `TuningAssumption`, `SupervisionAssumption`,
`ApprovalAssumption`, `SoarAssumption`, `HuntAssumption`, `PublishAssumption`,
`IntegrityAssumption`, `IntelAssumption`), which say that constants have their types, that
Limit, Attempts and Steps are positive, that the sets of responders, observables, processes and
case identifiers and the inventories are finite, that nobody has signed at the start what the
ledger holds then, that the names of sweeps, consoles and operators differ, and that what maps
to the hunter is not an alert of `Triage`; TLC evaluates them in every run. A theorem that needs
more says so in its statement. The type invariants of `RouterIntake`, `Approval` and `Tuning`
are proved and therefore in no run; the other proof modules state the shape of their variables
as the first part of their invariants.

| module | theorem | says |
|---|---|---|
| CaseSpineProofs | TypeCorrect, RecordsAreKept | shapes; events of returned calls stay |
| | BlocksHaveEvents, ReceiptsComeFirst, DecisionsAreKept | block, receipt and decision agree |
| | OneWriterIsTheMachine | one writer and an answering store implement CaseMachine |
| | OneWriterTellsOneStory | and the block agrees with the timeline |
| | DiscardsTakeARace | with any writers: a call that nothing overlapped stays in the payload |
| | ChainIsTrue, ReportsAreEarned, RetiredStaysRetired | what vouches for a case tells the truth |
| RouterIntakeProofs | IntakeIsTyped, NothingIsHidden, DispatchesArePaid, NoSignatureStarves | the intake's safety |
| | RangesAreRight, ClosingsAreEarned, ClosingsAreExplained | the version check of the intel run, what it closes, and that it says why |
| TriageProofs | SilencedStaysQuiet, NoTwinsAlone | both paths mean the same by the ledger; no agent doubles its own cases |
| TuningProofs | TuningTyped, OnlyPeopleSilence, ConsoleSettles, ScopesStand | the ledger's safety |
| ApprovalProofs | ApprovalTyped, ExecutionBounded, DenialHolds, SweepAnswersListed, OrphansPaid | the safety of approval |
| SoarProofs | EvidenceSound | an approval has a ground, whatever evidence is missing |
| | EffectsPaid, ExecutionRecorded | commands run under a decision, and are on record |
| HuntProofs | TicketsPaid, TwinsExcused | tickets and cases of hunts are not repeated |
| PublishProofs | Shaped, GateIsKept, SoStaysInStep, HumansComeOnce, HumansCome, CopiesAreExcused | the safety of publication |

**Case spine.** `TypeInv` adds to `TypeOK` that a busy writer has a call and a number already
given out (`Busy`). `RecordsInv` adds what holds at each pc (`Phase`): the entry of an `append`
is in `events` from the receipt on, and a writer verifies or records a mutation only; and, for
calls that returned, `RecordsKept` with `events` alone in place of the merged timeline (`Kept`),
because events only grow and the payload does not. `BackedInv` says that every copy of a
payload, in the point or in a writer's hand, has the adjudication entry of its block; it must
speak of the copies, because each may become the point, and of the receipts, because a failed
read makes a copy of them. `AheadInv` says the same of receipts: whatever a copy shows was
receipted, or is the holder's own call, which writes its receipt before the copy.
`DecisionsAreKept` combines the two: a reader finds a block, which is backed, or the
adjudication entry `Kept` leaves in the events, and its value is a verdict. For the refinement,
`SerialInv` says that the only writer's copy is the point with its call applied until it is
written, and agrees with the point afterwards (`Current`), so the write of the point is the one
step that moves the machine. `OneWriterIsTheMachine` is proved under two hypotheses of its own:
`Writers = {only}` and `~ FlakyReads`. Under the same two, and on top of `SerialInv`, `StoryInv`
says of the point and of the copy that no adjudication entry in their logs or in the event
points is newer than their block, that one of the block's call has the block's value, and that
one of the call at work is the decision that call makes (`Sound`); that the copy has the point's
log and the call's own entry (`Carried`), and the point has it once it is written (`Landed`):
hence `OneStory`. What the docstring claims of many writers, `NoSilentDiscard`, TLC shows to fail
with two (`SpineLostUpdate.cfg`); what is left of it, `DiscardTakesARace`, is proved for any
writers, deaths and failed reads, and is in no run. `overlapped` is the history of the calls that
ran beside another, and `DiscardInv` says that the entry of a call that was not overlapped, once
it has returned, is in the payload, in the receipts and in every copy (`Everywhere`), and while it
runs the other writers are idle (`Alone`).

**What vouches for a case.** `ShapeInv` says what lines, documents and processes may look like,
and whose hand a document in a process's hands is of. `ChainInv`: while nothing has broken the
chain it holds, and every tail a process knows is the tail of the file. `HealInv`: between the
scan and the heal of a reconcile that nobody overtook the point stays away, and an archiver that
is about to write the tombstone has the point, so that no tombstone comes in between. The second
half is not true of the code when two archivings overlap: a mutation signs its record after the
tombstone of the first, which then deletes the point; a reconcile now takes the case, gone and
no longer retired, for missing; and before it heals, the second archiver, which judged what it
had read earlier, writes its own tombstone. TLC shows it with three processes, four operations
and no fault, which is more than the run has; hence the exception "archivers" in the property.
`DriftInv` is about a store that is `Calm` (nothing from outside, nothing half done, unsigned or
torn, no two writers at once): the last line speaks of the document that is stored (`Agrees`),
except between the two writes of one process (`Pending`), whose own line or document it is
(`Holding`), and a reconcile that was alone compares the document with that line (`Scanned`);
`OverlapInv` says that operations that overlap know it. The places of the log stand for
sequences throughout: the last signed line is the largest of a set of places.

**Router.** `BoundaryInv`: the page of a run is still asked for by its cursor (`PageAhead`), what
precedes the rest of the page and is still asked for has failed or was late (`PageTaken`), and
what a cursor, in the file or of the run, does not ask for has been looked at or is missed, what it
would skip has been looked at (`Hides`). The index fills in any order; an alert is `Missed` if it
came late, or is still to come and would be. That the page is a piece of the query's order, and not
that the index fills in it, is what the rest hangs on. `PaidInv`: an alert dispatched more often
than runs died is marked as seen or behind the boundary (`Pays`); whenever the seen list is
longer than a save keeps, all of it lies behind the boundary (`Remembers`), which is why any
choice of ids to forget is safe. `SuppressionInv`: each entity of a burst was brought by an
alert that was no repeat and not before the burst began (`Backed`), and only an alert that
failed or was late can still come into a burst that began after it (`Belated`), whence the
exceptions in the property.

**Triage.** `QuietInv` (`Quiet`): what is marked as covered the ledger does silence, and an
agent past its verdict holds an alert that is not covered, is the lab's, or was judged by a read
that failed; a change of the ledger ends the cover. `TwinInv`: while no scan has failed, cases
in sight of one opener are of different incidents (`Distinct`), and an agent that is about to
open a case has looked, and nothing it opened is in sight of that incident since (`Looked`,
`Clear`): cases only go out of sight, and what the other agent opens is not its. `VerdictSays`
is the lemma about the analyst's verdict that both rest on.

**Tuning.** `SignedInv`: the signature of the entry, and of whatever a writer has in hand, is
none, that of a core a person signed and stored, or the one its holder, a console or an
operator, is just signing; so that what suppresses is a person's. `ClickInv`: what a console
carries is a signed commit with the fingerprint its ticket yields, and what it is about to write is
in force; that this covers the alert in one case and not in the other is then a matter of the gate.
`ScopeInv`: while nobody has gone astray (no failed or stale reading, no hosts dropped) an entry
once scoped keeps its hosts, except between the two writes of a script (`UnderWay`), and every
writer but a script carries the hosts of the entry it read (`Carries`, `ReadInv`).

**Approval.** `TypeInv` adds to `TypeOK` that a process at a pc has the ticket, decision and
step it works on. `PaidInv`: as long as a run is not marked, whoever executed a step of it is
still at work or crashed; from the mark on nobody new takes it up, so the executions are at most
the responders other than those that have the step yet to do, plus the crashes. `DenialInv`: for
a case the operator denied, if no sweep raced and nothing has hidden it since, both the block and
the newest event say deny, and no sweep is between its read and its last write to it (`Stands`;
`Modes` says when a sweep is going to write); and a case with a block has an event (`Backed`),
which survives whatever becomes of the block. `RestInv`: a sweep at rest holds no ticket, and one between two groups no repeats;
with it, each step of `SweepAnswersAll` lets go of one ticket, the one it answers. `OrphanInv`:
the orphans that share no title with another case are finitely many and at most the deaths and
failed writes, and (`HoldInv`) the tickets the sweep repeats its answer on are of its case or of
crossed ones, and its case has its decision if the sweep is not to record one. A `Crossed` case,
whose ticket is grouped with another case's, is left out: its decision may never come
(`ApprovalRepeats.cfg`).

**Intel.** The code compares two versions at the least place where they differ; `LessIsPrecedes`
says that this is the order of a dictionary, for any lengths, and `RangesAreRight` that the ranges
of the code hold a release exactly when the entry affects it, whichever way its bounds are
included. `IntelInv` adds to `ClosingIsEarned` what the fleet, the cases and the runs may be
(`IntelTyped`): a closing is judged on what the run read before, so the step that closes is the
whole argument (`ClosedOnEvidence`). It turned up one more reason why a closing may be wrong: an
entry that begins after a pre-release, and so with its release, is read as beginning after the
release, because the two are one version to the code (`AfterPre`). `ClosingIsExplained` is inductive
with `IntelInv`: the closing leaves its run at the event, the event and the end of the run leave a
note, notes only grow, and a case rebuilt from receipts keeps them (`ExplainedStays`).

**Response.** `EvidenceInv`: every investigation on the case is `Investigation` of some sources
that correlate, and the verdicts on the observables are what the lookups made of the providers'
answers; `GroundInv`: a sweep past its verdict that approves has a ground, which stays one, for a
case without an investigation too. The rest is arithmetic of sums over sources: what the ones that answered weigh, and 100
more, is at most what all of them are worth, since every source has one part of its own and no
part is negative (`SumGrows`, `PartsWeigh`, `SeverityIsWorth`). Sums are folds over finite sets;
what they satisfy is proved by well-founded induction on the subsets (`SumsExist`,
`SumRemoved`). `DenialInv`: after an operator's denial that no sweep raced and
nothing has hidden, the newest decision is deny and no sweep takes the case up. `PaidInv`: a run at work was begun under an approval, on
what is not guarded, and has had no failure. `RecordInv`: a command that ran is lost with a dead
run, on the case, or among the results of the run that took it; `OpeningInv` and `RouterInv` say
that nothing runs before the case is opened, and the router once.

**Hunt.** `SweepPays`: tickets of the sweep for a case are at most its torn marks, and one more
if it is marked or about to be. `OpenerPays`: of the router's and of a person's tickets a case
has at most one, from the process that opened it. `LookInv`: a process about to open a case has
seen every open one of the hunt that was there when it scanned, unless it scanned blind;
`TwinsAreExcused` is inductive with it, and speaks of cases that have their source: one that lost it
is seen by nobody.

**Publication.** `ShapeInv` is the shape of the case, the rows and the runs. `GateInv`: what a
deliverable in the making read was vouched for or made of receipts, or the case has been signed
since, as long as the case is vouched for now (`Vouched`). `ShownInv`: while no write has
overwritten another, every copy of the timeline that was read from the point is a prefix of it
(`Prefix`), so that a place names one entry. `OnceInv`: the timeline, and every copy about to be
written, has each of a person's entries once and none dated after its cursor (`Once`), and what was
fetched is dated after the cursor of the copy it was fetched for (`New`), what is dated ahead and
what a copy made of receipts holds or has left (`Loose`) aside. The cursor travels with the
entries, which is why overwriting does no harm; only receipts have the one without the other. `ArriveInv`: a person's row, dated up to a cursor, is in
the timeline of that cursor or excused (`Arrived`, `Taken`). `MirrorInv`: rows of one tag are
there once but for excused ones (`Excused`), the later of two open cases is excused (`Opened`),
two runs of the publisher at once are both excused (`Alone`), and one that is not knows what is
there (`Knows`).

**Only model-checked.** Liveness, which the prover does not reach: `EveryCallReturns`,
`EveryAlertIsTaken`, `OpenedIsTold`, `InfraIsServed`, `SuspicionIsTold`, `ExposureIsShown`,
`TicketIsAnswered`. And the violations, which are single behaviours.

## 5. What is not modelled, and the plan

Not modelled, because no decision reads what they write, or because they are I/O only:
rendering, the download of feeds, the commands of the self-heal agent, the HTTP clients,
embedding and similarity, configuration, the lab, the drills, the verification harness and
the dashboards; the text of alerts, tickets and playbooks; authorisation of the console.
Of the audit chain, the change of key and records whose key is gone; of the sweep, the
replay of the backlog; of IRIS, a person reopening a case; of the maintenance scripts,
those that purge or repair once (`repair_router_cursor.py` moves the cursor past whatever
is due, by design). The modules do not compose into one: each leaves open what another is
about, and the seams are the stores. `Supervision` takes a spine write as one step where
`CaseSpine` cuts it; `Soar` and `Triage` do the same, with failed reads as faults. `Triage` has no
failed reads of a case: its lookups go by source, state and host, and a case that lost its source
is the lookups' blind scan.

Every safety property that a run checks is stated by a theorem, and one, `DiscardTakesARace`, by a
theorem alone. What is left is liveness, which
holds on the instances TLC checks and for which the prover has no rule; and, of the seams, that a
spine write of `Supervision`, `Soar` and `Triage` is a step of `CaseSpine` under a mapping.
