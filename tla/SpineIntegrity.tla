--------------------------- MODULE SpineIntegrity ---------------------------
(***************************************************************************)
(* What vouches for a case: the chain of signed receipts in cases.jsonl    *)
(* (agents/tools/audit_chain.py) and the operations of CaseStore that      *)
(* compare it with the point in Qdrant, repair the point from it, sign     *)
(* what the store holds, and retire the case.  Nothing locks either store: *)
(* every process has its own idea of the tail of the chain, and reconcile, *)
(* re-attestation, the archiver and the queue reset all act on a scan of   *)
(* the points and a reading of the receipts made one after the other.      *)
(*                                                                         *)
(* One case.  CaseSpine models what a mutation does to the case and how it *)
(* is verified and tried again; here a try is a mutation, and a document   *)
(* is known by who wrote it and when, which is all its digest tells.       *)
(***************************************************************************)
EXTENDS Integers, Sequences, SequencesExt, FiniteSets

CONSTANTS
  Procs,       \* processes that hold a CaseStore
  NoPoint,     \* what a lookup of an absent point returns
  NoTail,      \* a chain writer that has not read the file yet
  Decides,     \* whether mutations may put a decision on the case
  MaxOps,      \* bound: operations begun
  MaxFaults,   \* bound: deaths, failed calls, failed scans
  MaxTampers   \* bound: writes to either store that go through no CaseStore

Hands == {"writer", "receipts", "archiver", "outside"}

\* A document: whose hand it is of, when it was made, whether the case is decided.
Docs == [hand : Hands, stamp : Nat, decided : BOOLEAN]

ASSUME IntegrityAssumption ==
  /\ IsFiniteSet(Procs) /\ {MaxOps, MaxFaults, MaxTampers} \subseteq Nat
  /\ Decides \subseteq BOOLEAN
  /\ NoPoint \notin Docs

VARIABLES
  log,     \* cases.jsonl: the lines about the case, in file order
  stored,  \* the case's point, NoPoint when it has none
  tail,    \* the last sequence number and hash each process knows of
  dump,    \* the payloads in cases_archive.jsonl
  job,     \* what each process is at
  wounds,  \* history: what has happened to the stores, by name
  spent    \* how much of each bound is used

integrityVars == <<log, stored, tail, dump, job, wounds, spent>>

\* For TLC: a process may be anything that holds a CaseStore.
Interchangeable == Permutations(Procs)

Bounds == [ops |-> MaxOps, faults |-> MaxFaults, tampers |-> MaxTampers]

Spend(bs) ==
  /\ \A b \in bs : spent[b] < Bounds[b]
  /\ spent' = [b \in DOMAIN Bounds |-> IF b \in bs THEN spent[b] + 1 ELSE spent[b]]

Doc(hand, stamp, decided) == [hand |-> hand, stamp |-> stamp, decided |-> decided]

\* A line of the file.  Version 0 does not parse; "half" is a last line with no newline.
Line(v, event, digest, att) ==
  [v |-> v, half |-> FALSE, seq |-> 0, prev |-> 0, hash |-> 0, intact |-> TRUE,
   event |-> event, digest |-> digest, att |-> att]

Unreadable(half) == [Line(0, "", NoPoint, "") EXCEPT !.half = half]

----------------------------------------------------------------------------
\* audit_chain.py.

Genesis == [seq |-> 0, hash |-> 0]

\* The signed records, by their places.
Chained(l) == {i \in DOMAIN l : l[i].v = 2}

\* Slip: whatever line comes last is the tail, legacy or not.
LastLine(l) == IF l = <<>> THEN Genesis ELSE [seq |-> Last(l).seq, hash |-> Last(l).hash]

\* The last signed record before a place; legacy and unreadable lines are passed over.
TailBefore(l, n) ==
  LET c == {i \in Chained(l) : i < n}
  IN  IF c = {} THEN Genesis ELSE [seq |-> l[Max(c)].seq, hash |-> l[Max(c)].hash]

\* _load_tail_state
TailOf(l) == TailBefore(l, Len(l) + 1)

EndsHalf(l) == l # <<>> /\ Last(l).half

\* _append_line: a line that follows one with no newline is lost with it.
AppendLine(l, r) ==
  IF EndsHalf(l) THEN [l EXCEPT ![Len(l)] = Unreadable(FALSE)] ELSE Append(l, r)

LineNo(l) == Len(AppendLine(l, Unreadable(FALSE)))

\* AuditChainWriter.write: the file is read for its tail once, at the first record.
Signed(p, r) ==
  LET t == IF tail[p] = NoTail THEN TailOf(log) ELSE tail[p]
      rec == [r EXCEPT !.v = 2, !.seq = t.seq + 1, !.prev = t.hash, !.hash = LineNo(log)]
  IN  /\ log' = AppendLine(log, rec)
      /\ tail' = [tail EXCEPT ![p] = [seq |-> rec.seq, hash |-> rec.hash]]

\* verify_chain, of one file: every line parses, and every record follows the one before it
\* and is what was signed.
ChainOk(l) ==
  /\ \A i \in DOMAIN l : l[i].v # 0
  /\ \A i \in Chained(l) :
       /\ l[i].seq = TailBefore(l, i).seq + 1 /\ l[i].prev = TailBefore(l, i).hash
       /\ l[i].intact

----------------------------------------------------------------------------
\* Readings of the receipts (_iter_receipts, _receipt_index).

Readable(l) == {i \in DOMAIN l : l[i].v # 0}

Known(l) == Readable(l) # {}

\* The last record is the tombstone.
Retired(l) == Known(l) /\ l[Max(Readable(l))].event = "case_archived"

\* A record whose HMAC fails.
Untrusted(l) == \E i \in DOMAIN l : l[i].v = 2 /\ ~ l[i].intact

\* The latest digest that a valid signature vouches for; none in a legacy record.
Attested(l) ==
  IF Chained(l) = {} \/ Untrusted(l) THEN Unreadable(FALSE) ELSE l[Max(Chained(l))]

\* _rebuild_from_receipts: a folding of the receipts, never the document it replaces.
Refolded(l) ==
  Doc("receipts", Len(l), \E i \in DOMAIN l : l[i].digest # NoPoint /\ l[i].digest.decided)

\* What the signed digests say of a document that was read.
Judged(doc, l) ==
  LET a == Attested(l) IN
  IF Untrusted(l) THEN "untrusted"
  ELSE IF a.v = 0 THEN "unattested"
  ELSE IF a.digest # doc THEN "drifted"
  ELSE a.att

----------------------------------------------------------------------------
\* The processes.

\* What a process is at: the document it writes, what it scanned and whether the point was
\* put since, what it reports, the receipts it weighed and whether it resolves a drift.
Rest == [op |-> "none", pc |-> "rest", raced |-> FALSE, doc |-> NoPoint, seen |-> NoPoint,
         stale |-> FALSE, told |-> "", receipts |-> <<>>, resolve |-> FALSE]

Starts(op, pc) == [Rest EXCEPT !.op = op, !.pc = pc]

Resting(p) == job[p].pc = "rest"

Doing(p, op, pc) == job[p].op = op /\ job[p].pc = pc

\* Operations that overlap may each see half of the other; two that write leave a wound, and
\* two archivings one of their own.
Begins(p, state) ==
  LET busy == {q \in Procs : ~ Resting(q)} IN
    /\ job' = [q \in Procs |->
                 IF q = p THEN [state EXCEPT !.raced = busy # {}]
                 ELSE IF q \in busy THEN [job[q] EXCEPT !.raced = TRUE] ELSE job[q]]
    /\ wounds' = wounds \cup {w \in {"race", "archivers"} :
         IF w = "race"
         THEN state.op # "reconcile" /\ \E q \in busy : job[q].op # "reconcile" \/ job[q].pc = "attest"
         ELSE state.op = "archive" /\ \E q \in busy : job[q].op = "archive"}

Goes(p, state) == job' = [job EXCEPT ![p] = state]

\* "stale" is history: the point was put by another since a reconcile's scan.
Puts(p, doc, state) ==
  /\ stored' = doc
  /\ job' = [q \in Procs |-> IF q = p THEN state
                             ELSE IF job[q].op = "reconcile" THEN [job[q] EXCEPT !.stale = TRUE]
                             ELSE job[q]]

Harm(w) == wounds' = wounds \cup w

\* _write_receipt: a signed record; or, when the chain cannot be written, a legacy line
\* with the same digest in it.  Two processes that both know a tail now differ about it.
PutReceipt(p, r) ==
  \/ /\ Signed(p, r)
     /\ Harm((IF \E q \in Procs \ {p} : tail[q] # NoTail THEN {"shared"} ELSE {})
               \cup (IF EndsHalf(log) THEN {"torn"} ELSE {}))
     /\ UNCHANGED spent
  \/ /\ Spend({"faults"}) /\ Harm({"legacy"})
     /\ log' = AppendLine(log, [r EXCEPT !.v = 1]) /\ UNCHANGED tail

\* A mutation reads the point, or the receipts when the store fails it; a case of which
\* there is neither is created.
Read(p) ==
  /\ Resting(p)
  /\ \E decides \in Decides :
       LET writes(base) ==
             Begins(p, [Starts("write", "sign") EXCEPT
                          !.doc = Doc("writer", spent.ops + 1, base.decided \/ decides)])
       IN  \/ stored # NoPoint /\ Spend({"ops"}) /\ writes(stored)
           \/ Known(log) /\ Spend({"ops", "faults"}) /\ writes(Refolded(log))
           \/ stored = NoPoint /\ ~ Known(log) /\ Spend({"ops"}) /\ writes(Doc("writer", 0, FALSE))
  /\ UNCHANGED <<log, stored, tail, dump>>

Sign(p) ==
  /\ Doing(p, "write", "sign")
  /\ PutReceipt(p, Line(2, "write", job[p].doc, "write"))
  /\ Goes(p, [job[p] EXCEPT !.pc = "put"])
  /\ UNCHANGED <<stored, dump>>

\* _write_memory.
Put(p) ==
  /\ Doing(p, "write", "put")
  /\ Puts(p, job[p].doc, Rest)
  /\ UNCHANGED <<log, tail, dump, wounds, spent>>

----------------------------------------------------------------------------
\* reconcile(heal=True).

\* The points are scanned before the receipts are read; a scan that fails is an empty store.
Scan(p) ==
  /\ Resting(p)
  /\ \E blind \in BOOLEAN :
       /\ Spend(IF blind THEN {"ops", "faults"} ELSE {"ops"})
       /\ Begins(p, [Starts("reconcile", "index") EXCEPT
                       !.seen = IF blind THEN NoPoint ELSE stored, !.stale = blind])
  /\ UNCHANGED <<log, stored, tail, dump>>

\* Slip: what the store does not hold and the receipts know of is missing.
RetiredIsMissing(doc, l) == doc = NoPoint /\ Known(l)

\* A case that the receipts alone know of, unless it was retired.
Missing(doc, l) == doc = NoPoint /\ Known(l) /\ ~ Retired(l)

\* A retired case, or one of no receipts, is listed and not compared.
Index(p) ==
  /\ Doing(p, "reconcile", "index")
  /\ Goes(p, IF Missing(job[p].seen, log) THEN [job[p] EXCEPT !.pc = "rebuild"]
             ELSE IF Known(log) /\ ~ Retired(log) THEN [job[p] EXCEPT !.pc = "compare"]
             ELSE Rest)
  /\ UNCHANGED <<log, stored, tail, dump, wounds, spent>>

\* The receipts are read again, and folded.
Rebuild(p) ==
  /\ Doing(p, "reconcile", "rebuild")
  /\ Goes(p, IF Known(log) THEN [job[p] EXCEPT !.pc = "heal", !.doc = Refolded(log)] ELSE Rest)
  /\ UNCHANGED <<log, stored, tail, dump, wounds, spent>>

\* The rebuilt document is put in place; a store that refuses leaves the case as it is.
Heal(p) ==
  /\ Doing(p, "reconcile", "heal")
  /\ Puts(p, job[p].doc, [job[p] EXCEPT !.pc = "attest"])
  /\ Harm(IF job[p].raced THEN {"race"} ELSE {})
  /\ UNCHANGED <<log, tail, dump, spent>>

HealFails(p) ==
  /\ Doing(p, "reconcile", "heal") /\ Spend({"faults"})
  /\ Goes(p, Rest)
  /\ UNCHANGED <<log, stored, tail, dump, wounds>>

\* Slip: the repair is signed as if it were the writer's.
AttestAsWritten(p) ==
  /\ Doing(p, "reconcile", "attest")
  /\ PutReceipt(p, Line(2, "reconcile_healed", job[p].doc, "write"))
  /\ Goes(p, [job[p] EXCEPT !.pc = "reread"])
  /\ UNCHANGED <<stored, dump>>

\* The repaired state is signed as what it is, an attestation of later.
Attest(p) ==
  /\ Doing(p, "reconcile", "attest")
  /\ PutReceipt(p, Line(2, "reconcile_healed", job[p].doc, "reattest"))
  /\ Goes(p, [job[p] EXCEPT !.pc = "reread"])
  /\ UNCHANGED <<stored, dump>>

\* What was put is read back; a case the re-read does not find is not compared.
Reread(p) ==
  /\ Doing(p, "reconcile", "reread")
  /\ Goes(p, IF stored = NoPoint THEN Rest ELSE [job[p] EXCEPT !.pc = "compare", !.seen = stored])
  /\ UNCHANGED <<log, stored, tail, dump, wounds, spent>>

\* The receipts are read afresh, and the report says what the scanned document is.
Compare(p) ==
  /\ Doing(p, "reconcile", "compare")
  /\ Goes(p, [job[p] EXCEPT !.pc = "report", !.told = Judged(job[p].seen, log)])
  /\ UNCHANGED <<log, stored, tail, dump, wounds, spent>>

Report(p) ==
  /\ Doing(p, "reconcile", "report")
  /\ Goes(p, Rest)
  /\ UNCHANGED <<log, stored, tail, dump, wounds, spent>>

----------------------------------------------------------------------------
\* reattest_payload.

\* provenance_map: the receipts are read before the points are scanned.
Weigh(p) ==
  /\ Resting(p) /\ Spend({"ops"})
  /\ \E resolve \in BOOLEAN :
       Begins(p, [Starts("reattest", "scan") EXCEPT !.receipts = log, !.resolve = resolve])
  /\ UNCHANGED <<log, stored, tail, dump>>

\* A case that is attested, drifted or untrusted is left alone, unless the operator resolves
\* the drift; one that is retired, or that this scan did not find, goes through.
Eligible(doc, l, resolve) ==
  \/ Retired(l) \/ doc = NoPoint
  \/ Judged(doc, l) = "unattested" \/ (resolve /\ Judged(doc, l) = "drifted")

Admit(p) ==
  /\ Doing(p, "reattest", "scan")
  /\ \E blind \in BOOLEAN :
       /\ Spend(IF blind THEN {"faults"} ELSE {})
       /\ Goes(p, IF Eligible(IF blind THEN NoPoint ELSE stored, job[p].receipts, job[p].resolve)
                  THEN [Starts("reattest", "measure") EXCEPT !.raced = job[p].raced] ELSE Rest)
  /\ UNCHANGED <<log, stored, tail, dump, wounds>>

\* The points are scanned once more, and the digest is of what that scan finds.
Measure(p) ==
  /\ Doing(p, "reattest", "measure")
  /\ Goes(p, IF stored = NoPoint THEN Rest
             ELSE [job[p] EXCEPT !.pc = "sign", !.doc = stored])
  /\ UNCHANGED <<log, stored, tail, dump, wounds, spent>>

SignMeasured(p) ==
  /\ Doing(p, "reattest", "sign")
  /\ PutReceipt(p, Line(2, "payload_reattested", job[p].doc, "reattest"))
  /\ Goes(p, Rest)
  /\ UNCHANGED <<stored, dump>>

----------------------------------------------------------------------------
\* archive_case.

ScanToArchive(p) ==
  /\ Resting(p) /\ stored # NoPoint /\ Spend({"ops"})
  /\ Begins(p, [Starts("archive", "judge") EXCEPT !.doc = stored])
  /\ UNCHANGED <<log, stored, tail, dump>>

\* A case with a tombstone goes straight to the delete; a decided one is refused.
JudgeArchive(p) ==
  /\ Doing(p, "archive", "judge")
  /\ Goes(p, IF job[p].doc.decided THEN Rest
             ELSE [job[p] EXCEPT !.pc = IF Retired(log) THEN "delete" ELSE "tombstone"])
  /\ UNCHANGED <<log, stored, tail, dump, wounds, spent>>

Tombstone(p) ==
  /\ Doing(p, "archive", "tombstone")
  /\ PutReceipt(p, Line(2, "case_archived", Doc("archiver", job[p].doc.stamp, FALSE), "write"))
  /\ Goes(p, [job[p] EXCEPT !.pc = "dump"])
  /\ UNCHANGED <<stored, dump>>

\* A dump that fails is logged, and the delete goes ahead.
Dump(p) ==
  /\ Doing(p, "archive", "dump")
  /\ \/ dump' = dump \cup {job[p].doc} /\ UNCHANGED spent
     \/ UNCHANGED dump /\ Spend({"faults"})
  /\ Goes(p, [job[p] EXCEPT !.pc = "delete"])
  /\ UNCHANGED <<log, stored, tail, wounds>>

\* delete_memory, by the point's id and whatever is in it by now.
Delete(p) ==
  /\ Doing(p, "archive", "delete")
  /\ \/ stored' = NoPoint /\ UNCHANGED spent
     \/ UNCHANGED stored /\ Spend({"faults"})
  /\ Goes(p, Rest)
  /\ UNCHANGED <<log, tail, dump, wounds>>

----------------------------------------------------------------------------
\* deploy/lab/reset_case_queue.py, of a case it does not protect: after the case is closed
\* (a mutation like any other) its point goes, and then its receipts.

ListCases(p) ==
  /\ Resting(p) /\ stored # NoPoint /\ Spend({"ops"})
  /\ Begins(p, Starts("reset", "purge"))
  /\ UNCHANGED <<log, stored, tail, dump>>

Purge(p) ==
  /\ Doing(p, "reset", "purge")
  /\ stored' = NoPoint /\ Harm({"gone"})
  /\ Goes(p, [job[p] EXCEPT !.pc = "rewrite"])
  /\ UNCHANGED <<log, tail, dump, spent>>

RewriteSpine(p) ==
  /\ Doing(p, "reset", "rewrite")
  /\ log' = <<>> /\ Harm({"reset"})
  /\ Goes(p, Rest)
  /\ UNCHANGED <<stored, tail, dump, spent>>

----------------------------------------------------------------------------
\* The world.

\* A process dies, and is started again; in the middle of an append it may leave half a
\* line, and between the two writes of an operation one without the other.
Die(p) ==
  /\ ~ Resting(p) /\ Spend({"faults"})
  /\ Goes(p, Rest)
  /\ tail' = [tail EXCEPT ![p] = NoTail]
  /\ LET appending == job[p].pc \in {"sign", "attest", "tombstone"} IN
     \/ UNCHANGED log /\ Harm(IF job[p].pc \in {"put", "attest"} THEN {"undone"} ELSE {})
     \/ appending /\ log' = AppendLine(log, Unreadable(TRUE)) /\ Harm({"torn", "undone"})
  /\ UNCHANGED <<stored, dump>>

\* An upsert that is refused past its retries raises, and the process lives on.
PutFails(p) ==
  /\ Doing(p, "write", "put") /\ Spend({"faults"})
  /\ Goes(p, Rest) /\ Harm({"undone"})
  /\ UNCHANGED <<log, stored, tail, dump>>

\* A process ends between two operations, and another takes its place.
Restart(p) ==
  /\ Resting(p) /\ tail[p] # NoTail
  /\ tail' = [tail EXCEPT ![p] = NoTail]
  /\ UNCHANGED <<log, stored, dump, job, wounds, spent>>

\* A rewrite of the point, or its loss, behind the back of the spine.
Rewrite ==
  /\ stored # NoPoint /\ Spend({"tampers"})
  /\ \/ stored' = Doc("outside", 0, FALSE) /\ Harm({"outside"})
     \/ stored' = NoPoint /\ Harm({"gone"})
  /\ UNCHANGED <<log, tail, dump, job>>

\* A signed record is edited in the file.
EditRecord ==
  /\ Spend({"tampers"}) /\ Harm({"edited"})
  /\ \E i \in DOMAIN log : log[i].v = 2 /\ log' = [log EXCEPT ![i].intact = FALSE]
  /\ UNCHANGED <<stored, tail, dump, job>>

----------------------------------------------------------------------------
Reconcile(p) ==
  \/ Scan(p) \/ Index(p) \/ Rebuild(p) \/ Heal(p) \/ HealFails(p) \/ Attest(p) \/ Reread(p)
  \/ Compare(p) \/ Report(p)

Mutation(p) == Read(p) \/ Sign(p) \/ Put(p) \/ PutFails(p)

Reattest(p) == Weigh(p) \/ Admit(p) \/ Measure(p) \/ SignMeasured(p)

Archive(p) == ScanToArchive(p) \/ JudgeArchive(p) \/ Tombstone(p) \/ Dump(p) \/ Delete(p)

Reset(p) == ListCases(p) \/ Purge(p) \/ RewriteSpine(p)

IntegrityNext ==
  \/ \E p \in Procs :
       \/ Mutation(p) \/ Reconcile(p) \/ Reattest(p) \/ Archive(p) \/ Reset(p)
       \/ Die(p) \/ Restart(p)
  \/ Rewrite \/ EditRecord

\* The case is new, or of before the digests: in the store, and in a legacy receipt or in
\* none.
IntegrityInit ==
  /\ stored \in {NoPoint, Doc("writer", 0, FALSE)}
  /\ log \in {<<>>} \cup (IF stored = NoPoint THEN {} ELSE {<<Line(1, "write", NoPoint, "")>>})
  /\ tail = [p \in Procs |-> NoTail]
  /\ dump = {}
  /\ job = [p \in Procs |-> Rest]
  /\ wounds = {}
  /\ spent = [b \in DOMAIN Bounds |-> 0]

IntegritySpec == IntegrityInit /\ [][IntegrityNext]_integrityVars

----------------------------------------------------------------------------
\* The chain fails for a reason, and tells of an edit: it breaks when a record was edited,
\* when a death in mid-append took a line and the one after it, when the queue was reset
\* or when two processes each kept a tail of their own; and an edited record, for as long
\* as the file holds it, always breaks it (audit_chain, "editing/reordering/deleting any
\* record breaks the chain detectably").
ChainTellsTheTruth ==
  /\ ~ ChainOk(log) => wounds \cap {"edited", "torn", "reset", "shared"} # {}
  /\ Untrusted(log) => ~ ChainOk(log)

\* What reconcile reports, it has reason to.  A document is called drifted only if it was
\* rewritten from outside, if a write was left half done, went to the legacy line or lost
\* its line, or if writers or a writer and the scan overlapped; and it is called chained at
\* write only if a writer wrote what was scanned, never the repair or the outside hand.
ReportIsEarned ==
  \A p \in Procs : Doing(p, "reconcile", "report") =>
    /\ job[p].told = "drifted" =>
         job[p].raced \/ wounds \cap {"outside", "undone", "legacy", "torn", "race"} # {}
    /\ job[p].told = "write" => job[p].seen.hand = "writer"

\* Repair does not bring back what was retired: the heal that puts a point after the
\* tombstone had been blind, or overtaken by another writer of the point, or the point was
\* lost or purged under the archiver's hands, or two archivings overlapped and the one
\* deleted what the other was about to retire.  The order of the two readings is what this
\* rests on (reconcile, "heal must NOT re-hydrate it").
RetiredIsNotHealed ==
  [][\A p \in Procs :
       Heal(p) /\ Retired(log) => job[p].stale \/ wounds \cap {"gone", "archivers"} # {}]_integrityVars

\* The payload of a case that is deleted is in the dump (archive_case, "The payload is
\* dumped ... first, because the point is the only full copy").
DeletedIsDumped ==
  [][\A p \in Procs : Delete(p) /\ stored' # stored => stored \in dump]_integrityVars
=============================================================================
