------------------------------ MODULE Publish -------------------------------
(***************************************************************************)
(* A case on the surfaces people read: the DFIR-IRIS case and the Security *)
(* Onion case it is copied to (deploy/lab/publish_case_iris.py,            *)
(* publish_case_so.py), what people write in IRIS and the run that brings  *)
(* it back (sync_iris_to_spine.py, iris_client.py), and the report and the *)
(* advisory, with the gate that asks whether the case's content is vouched *)
(* for (report_gen.py, advisory_gen.py, attach_case_report.py, the console *)
(* API).  Each of these is a process of its own that reads the case, takes *)
(* its time, and writes; none holds a lock.                                *)
(*                                                                         *)
(* One spine case.  What vouches for it is SpineIntegrity's subject: here  *)
(* the verdict is a variable, and an operation that writes the case is one *)
(* that writes back, signed, the copy it read (CaseSpine has its retries,  *)
(* and the event points by which a mutation's own entry outlives a write   *)
(* that overtakes it).  A read of the case that fails is answered with     *)
(* what its receipts tell.                                                 *)
(***************************************************************************)
EXTENDS Integers, Sequences, SequencesExt, FiniteSets

CONSTANTS
  Procs,       \* processes
  Mixes,       \* which operations and acts there are, in one behaviour or another
  Contents,    \* what an event of the case says, all that its IRIS tag is made of
  Writes,      \* the events that one mutation adds
  Shown,       \* those that have an IRIS counterpart
  Verdicts,    \* what may be said of the case's content at the start
  Offsets,     \* how far from now people date what they enter in IRIS
  MaxOps,      \* bound: operations begun
  MaxPosts,    \* bound: notes and events people write in IRIS
  MaxFaults,   \* bound: deaths, reads and calls that fail
  MaxActs      \* bound: closings in IRIS, writes from outside, attestations

AllOps == {"mutate", "sync", "iris", "so", "report", "so_report", "advisory", "so_advisory",
           "attach", "compile"}

AllActs == {"tamper", "reattest", "compose", "misdate", "close"}

AllVerdicts == {"write", "reattested", "unattested", "drifted"}

ASSUME PublishAssumption ==
  /\ Mixes \subseteq SUBSET (AllOps \cup AllActs) /\ Shown \subseteq Contents /\ Verdicts \subseteq AllVerdicts
  /\ Writes \subseteq Seq(Contents) \ {<<>>}
  /\ IsFiniteSet(Procs) /\ Offsets \subseteq Int
  /\ {MaxOps, MaxPosts, MaxFaults, MaxActs} \subseteq Nat

VARIABLES
  spine,   \* the case: timeline, last_iris_sync_ts (0: never), state, whether it has observables
  receipts,\* the detail of each receipt: the entry that was the last when it was written
  vouch,   \* provenance_for the case
  iris,    \* the IRIS cases with this case_soc_id: open or not, the rows on them
  so,      \* so-case: the comment at each deterministic id
  paper,   \* the page printed or published last, and what vouched for what it says
  mix,     \* the operations and acts of this behaviour
  job,     \* what each process is at
  now,     \* the clock
  lost,    \* history: a write has put its timeline in the place of another than it read
  loose,   \* history: people's entries that a copy made of receipts brought back
  stray,   \* history: the places of so last written from a copy made of receipts
  spent    \* how much of each bound is used

history == <<lost, loose, stray>>

vars == <<spine, receipts, vouch, iris, so, paper, mix, job, now, history, spent>>

Bounds == [ops |-> MaxOps, posts |-> MaxPosts, faults |-> MaxFaults, acts |-> MaxActs]

Spend(bs) ==
  /\ \A b \in bs : spent[b] < Bounds[b]
  /\ spent' = [b \in DOMAIN Bounds |-> IF b \in bs THEN spent[b] + 1 ELSE spent[b]]

\* A timeline entry: one of the program's, or something a person wrote in IRIS, by its
\* identity and the date IRIS gives.
Entry(what) == [what |-> what, id |-> 0, ts |-> 0, ahead |-> FALSE]

Human(row) == [what |-> row.kind, id |-> row.id, ts |-> row.ts, ahead |-> row.ahead]

\* A row of an IRIS case.  Rows of the publisher carry a tag (the title, of a note), rows of
\* people an identity.  History: whether it was dated ahead, and whether chance explains what
\* became of it ("excused").
Row(kind, tag, excused) ==
  [kind |-> kind, by |-> "ssop", tag |-> tag, id |-> 0, ts |-> 0, ahead |-> FALSE, excused |-> excused]

Rows(i) == ToSet(iris[i].rows)

Ours(i, kind) == {r.tag : r \in {s \in Rows(i) : s.by = "ssop" /\ s.kind = kind}}

Theirs(i) == {r \in Rows(i) : r.by # "ssop"}

Attested == {"write", "reattested"}

Decided(doc) == \E n \in DOMAIN doc.log : doc.log[n].what = "decision"

Fresh == [log |-> <<>>, cursor |-> 0, state |-> "open", observables |-> TRUE]

Rest == [op |-> "none", pc |-> "rest", doc |-> Fresh, was |-> "none",
         resigned |-> FALSE, at |-> 0, seen |-> {}, new |-> {}, paid |-> FALSE]

Idle(p) == job[p].pc = "rest"

At(p, op, pc) == job[p].op = op /\ job[p].pc = pc

Renders(p) == job[p].op \in {"report", "so_report", "advisory", "so_advisory", "attach", "compile"}

Fetched(p) == At(p, "sync", "write")

\* _rebuild_from_receipts: a new case, without its observables and without the cursor, whose
\* timeline is the last entry of each write.
Rebuilt == [log |-> receipts, cursor |-> 0, state |-> "open", observables |-> FALSE]

\* get_case: the point, or, when the store does not answer, what the receipts make of it.
GetCase(failed) == IF failed THEN Rebuilt ELSE spine

\* History: what vouches for what was read; for a copy made of receipts, nothing does.
VouchedBy(failed) == IF failed THEN "rebuilt" ELSE vouch

\* The sync scrolls the points itself, and Security Onion's report does not read the spine:
\* where that fails the run ends.
ReadsByGetCase(op) == op \notin {"sync", "so_report"}

\* Every operation begins by reading the case.  Two publishers that overlap may repeat
\* each other.
Begin(p, op, failed) ==
  LET others == {q \in Procs : op = "iris" /\ job[q].op = "iris"} IN
  /\ Idle(p) /\ op \in mix
  /\ failed => ReadsByGetCase(op)
  /\ Spend(IF failed THEN {"ops", "faults"} ELSE {"ops"})
  /\ job' = [q \in Procs |->
       IF q = p THEN [Rest EXCEPT !.op = op, !.pc = "read", !.doc = GetCase(failed), !.paid = others # {},
                                  !.was = IF op \in {"mutate", "sync", "so"} /\ ~ failed THEN "none"
                                          ELSE VouchedBy(failed)]
       ELSE IF q \in others THEN [job[q] EXCEPT !.paid = TRUE] ELSE job[q]]
  /\ UNCHANGED <<spine, receipts, vouch, iris, so, paper, now, history, mix>>

PeoplesOf(doc) == {e \in ToSet(doc.log) : e.id # 0}

\* What a write leaves behind: a receipt, and the copy, signed.  It may be older than what it
\* replaces, or never have been the case.
Write(p, doc) ==
  /\ spine' = doc /\ vouch' = "write" /\ receipts' = Append(receipts, Last(doc.log))
  /\ lost' = (lost \/ job[p].doc.log # spine.log)
  /\ loose' = IF job[p].was = "rebuilt" THEN loose \cup PeoplesOf(job[p].doc) ELSE loose
  /\ job' = [q \in Procs |-> IF q = p THEN Rest ELSE [job[q] EXCEPT !.resigned = Renders(q)]]

Printed(p, page, label) ==
  [op |-> job[p].op, page |-> page, was |-> job[p].was, resigned |-> job[p].resigned, label |-> label]

----------------------------------------------------------------------------
\* The program and the world around it.

Entries(list) == [n \in DOMAIN list |-> Entry(list[n])]

Decides(list) == "decision" \in ToSet(list)

\* append_event, and everything else that adds to the timeline; decide() only where the case
\* it read is not decided.
Mutate(p, list) ==
  /\ At(p, "mutate", "read")
  /\ Decides(list) => job[p].doc.state = "open"
  /\ Write(p, [log |-> job[p].doc.log \o Entries(list), cursor |-> job[p].doc.cursor,
               state |-> IF Decides(list) THEN "decided" ELSE job[p].doc.state,
               observables |-> job[p].doc.observables])
  /\ UNCHANGED <<iris, so, paper, now, stray, spent, mix>>

Die(p) ==
  /\ ~ Idle(p) /\ Spend({"faults"})
  /\ job' = [job EXCEPT ![p] = Rest]
  /\ UNCHANGED <<spine, receipts, vouch, iris, so, paper, now, history, mix>>

\* The point is rewritten by something that signs nothing; the timeline stays what it was.
Tamper ==
  /\ "tamper" \in mix /\ vouch # "drifted" /\ Spend({"acts"}) /\ vouch' = "drifted"
  /\ UNCHANGED <<spine, receipts, iris, so, paper, job, now, history, mix>>

\* reattest_payload: what the store holds is signed, a drifted case's only by explicit order.
\* The receipt has the last entry once more.
Reattest ==
  /\ "reattest" \in mix /\ vouch \notin Attested /\ Spend({"acts"}) /\ vouch' = "reattested"
  /\ receipts' = IF spine.log = <<>> THEN receipts ELSE Append(receipts, Last(spine.log))
  /\ job' = [q \in Procs |-> [job[q] EXCEPT !.resigned = Renders(q)]]
  /\ UNCHANGED <<spine, iris, so, paper, now, history, mix>>

----------------------------------------------------------------------------
\* The publisher to IRIS (publish_case_iris.py).

OpenCases == {i \in DOMAIN iris : iris[i].open}

\* find_existing_case: an IRIS case that is not closed.  A lookup that fails finds none.
Find(p, i) ==
  /\ At(p, "iris", "read")
  /\ \/ i \in OpenCases /\ UNCHANGED spent
     \/ i = 0 /\ OpenCases = {} /\ UNCHANGED spent
     \/ i = 0 /\ OpenCases # {} /\ Spend({"faults"})
  /\ job' = [job EXCEPT ![p].pc = IF i = 0 THEN "create" ELSE "note", ![p].at = i,
                        ![p].paid = @ \/ (i = 0 /\ OpenCases # {})]
  /\ UNCHANGED <<spine, receipts, vouch, iris, so, paper, now, history, mix>>

Create(p) ==
  /\ At(p, "iris", "create")
  /\ iris' = Append(iris, [open |-> TRUE, paid |-> job[p].paid, rows |-> <<>>])
  /\ job' = [job EXCEPT ![p].pc = "note", ![p].at = Len(iris) + 1]
  /\ UNCHANGED <<spine, receipts, vouch, so, paper, now, history, spent, mix>>

\* _add_note, _add_iocs: what is to be on the IRIS case, unless it is there.  A listing that
\* fails finds nothing there.
NoteMissing(p, blind, paid) ==
  LET note == Row("note", job[p].doc.state, paid) IN
  IF ~ blind /\ note.tag \in Ours(job[p].at, "note") THEN <<>> ELSE <<note>>

IocsMissing(p, blind, paid) ==
  LET ioc == Row("ioc", "observable", paid) IN
  IF ~ job[p].doc.observables \/ (~ blind /\ ioc.tag \in Ours(job[p].at, "ioc")) THEN <<>> ELSE <<ioc>>

\* The summary, the task log, the note and the IOCs.  The first is overwritten and the
\* second repeated at every run; a note is known by its title, which ends in the state of
\* the case, an IOC by its value.
Furnish(p, blind) ==
  /\ At(p, "iris", "note")
  /\ IF blind THEN Spend({"faults"}) ELSE UNCHANGED spent
  /\ LET paid == job[p].paid \/ blind IN
       /\ iris' = [iris EXCEPT ![job[p].at].rows =
                     @ \o NoteMissing(p, blind, paid) \o IocsMissing(p, blind, paid)]
       /\ job' = [job EXCEPT ![p].pc = "tags", ![p].paid = paid]
  /\ paper' = Printed(p, "chain", "none")
  /\ UNCHANGED <<spine, receipts, vouch, so, now, history, mix>>

\* enrich_case_timeline reads the case again, and the tags that are on the IRIS timeline.
ReadTags(p, blind, failed) ==
  /\ At(p, "iris", "tags")
  /\ IF blind \/ failed THEN Spend({"faults"}) ELSE UNCHANGED spent
  /\ job' = [job EXCEPT ![p].pc = "post", ![p].doc = GetCase(failed), ![p].was = VouchedBy(failed),
                        ![p].resigned = FALSE,
                        ![p].seen = IF blind THEN {} ELSE Ours(job[p].at, "event"),
                        ![p].paid = @ \/ blind]
  /\ UNCHANGED <<spine, receipts, vouch, iris, so, paper, now, history, mix>>

\* _event_payload: rechecks, findings, what came from IRIS and the like have no counterpart.
HasPayload(e) == e.what \in Shown

\* _event_tag: made of what the event says, not of when.
Tag(e) == e.what

\* Slip: every event with a counterpart, seen or not.
AllShown(p) == {n \in DOMAIN job[p].doc.log : HasPayload(job[p].doc.log[n])}

\* The events still to be posted: those with a counterpart whose tag has not been seen.
Unposted(p) ==
  {n \in DOMAIN job[p].doc.log :
     HasPayload(job[p].doc.log[n]) /\ Tag(job[p].doc.log[n]) \notin job[p].seen}

\* The next of them.  A post that is refused, or whose answer is, leaves its tag unseen:
\* the event is passed over.
Post(p, k, outcome) ==
  /\ At(p, "iris", "post")
  /\ k \in Unposted(p) /\ \A n \in Unposted(p) : k <= n
  /\ IF outcome = "posted" THEN UNCHANGED spent ELSE Spend({"faults"})
  /\ LET e == job[p].doc.log[k]
         paid == job[p].paid \/ outcome # "posted"
     IN  /\ iris' = IF outcome = "refused" THEN iris
                    ELSE [iris EXCEPT ![job[p].at].rows = Append(@, Row("event", Tag(e), paid))]
         /\ job' = [job EXCEPT ![p].doc.log = SubSeq(@, k + 1, Len(@)), ![p].paid = paid,
                               ![p].seen = IF outcome = "posted" THEN @ \cup {Tag(e)} ELSE @]
  /\ paper' = Printed(p, "event", "none")
  /\ UNCHANGED <<spine, receipts, vouch, so, now, history, mix>>

Published(p) ==
  /\ At(p, "iris", "post") /\ Unposted(p) = {}
  /\ job' = [job EXCEPT ![p] = Rest]
  /\ UNCHANGED <<spine, receipts, vouch, iris, so, paper, now, history, spent, mix>>

----------------------------------------------------------------------------
\* People in IRIS.

\* A run that has fetched writes the time of its writing as the cursor, and a process that
\* holds a copy may bring an older cursor back: what is dated before any of them is missed.
Passed(ts) ==
  \/ ts <= spine.cursor
  \/ \E p \in Procs : Fetched(p) \/ (job[p].op \in {"mutate", "sync"} /\ ts <= job[p].doc.cursor)

\* A note is dated by the server; the date of an event is what the person enters.
Compose(i, kind, offset) ==
  /\ "compose" \in mix /\ Spend({"posts"})
  /\ offset # 0 => kind = "iris_event" /\ "misdate" \in mix
  /\ now' = now + 1
  /\ iris' = [iris EXCEPT ![i].rows = Append(@,
       [kind |-> kind, by |-> "human", tag |-> "none", id |-> spent'.posts,
        ts |-> now' + offset, ahead |-> offset > 0,
        excused |-> Passed(now' + offset)])]
  /\ UNCHANGED <<spine, receipts, vouch, so, paper, job, history, mix>>

\* A note that is changed is dated anew.
Edit(i, n) ==
  /\ "compose" \in mix /\ Spend({"posts"})
  /\ iris[i].rows[n].by = "human" /\ iris[i].rows[n].kind = "iris_note"
  /\ now' = now + 1
  /\ iris' = [iris EXCEPT ![i].rows[n] = [@ EXCEPT !.ts = now', !.excused = Passed(now')]]
  /\ UNCHANGED <<spine, receipts, vouch, so, paper, job, history, mix>>

CloseInIris(i) ==
  /\ "close" \in mix /\ iris[i].open /\ Spend({"acts"})
  /\ iris' = [iris EXCEPT ![i].open = FALSE]
  /\ UNCHANGED <<spine, receipts, vouch, so, paper, job, now, history, mix>>

----------------------------------------------------------------------------
\* IRIS to the spine (sync_iris_to_spine.py).

\* get_human_activity: what carries no tag of the publisher and is not by a service
\* account, of what could be read.
HumanActivity(i, unread) == {r \in Theirs(i) : r.kind \notin unread}

\* Slip: everything, each time.
Everything(p, acts) == acts

\* Slip: what is newer than the cursor now.
NewerNow(p, acts) == {r \in acts : spine.cursor = 0 \/ r.ts > spine.cursor}

\* What is newer than the cursor of the copy, or everything the first time.
Newer(p, acts) == {r \in acts : job[p].doc.cursor = 0 \/ r.ts > job[p].doc.cursor}

\* History: a person's row that is not on IRIS case i, or could not be read, is passed.
Missed(i, unread, j, r) == r.by = "human" /\ (j # i \/ r.kind \in unread)

Marked(i, unread, j) ==
  [n \in DOMAIN iris[j].rows |->
     [iris[j].rows[n] EXCEPT !.excused = @ \/ Missed(i, unread, j, iris[j].rows[n])]]

\* One IRIS case stands for the spine case, the last of the list; what is on the others, and
\* what could not be read, the cursor passes.
Fetch(p, i, unread) ==
  /\ At(p, "sync", "read")
  /\ IF unread = {} THEN UNCHANGED spent ELSE Spend({"faults"})
  /\ LET new == Newer(p, HumanActivity(i, unread))
     IN  IF new = {}
         THEN job' = [job EXCEPT ![p] = Rest] /\ UNCHANGED iris
         ELSE /\ job' = [job EXCEPT ![p].pc = "write", ![p].new = {Human(r) : r \in new}]
              /\ iris' = [j \in DOMAIN iris |-> [iris[j] EXCEPT !.rows = Marked(i, unread, j)]]
  /\ UNCHANGED <<spine, receipts, vouch, so, paper, now, history, mix>>

\* No IRIS case for the case.
NothingToFetch(p) ==
  /\ At(p, "sync", "read") /\ iris = <<>>
  /\ job' = [job EXCEPT ![p] = Rest]
  /\ UNCHANGED <<spine, receipts, vouch, iris, so, paper, now, history, spent, mix>>

\* What was fetched, in the order of the dates.
ByDate(acts) ==
  {list \in SetToSeqs(acts) : \A m, n \in DOMAIN list : m < n => list[m].ts <= list[n].ts}

SyncWrite(p) ==
  /\ Fetched(p)
  /\ now' = now + 1
  /\ \E list \in ByDate(job[p].new) :
       Write(p, [log |-> job[p].doc.log \o list, cursor |-> now',
                 state |-> job[p].doc.state, observables |-> job[p].doc.observables])
  /\ UNCHANGED <<iris, so, paper, stray, spent, mix>>

----------------------------------------------------------------------------
\* The publisher to Security Onion (publish_case_so.py).

\* Slip: the documents of a run follow those of the run before.
NewOperations(doc) ==
  [n \in Cardinality(DOMAIN so)..Cardinality(DOMAIN so) + Len(doc.log) |->
     IF n = Cardinality(DOMAIN so) THEN Entry("case") ELSE doc.log[n - Cardinality(DOMAIN so)]]

\* _so_operations: the document that makes the case and a comment for each timeline entry.
\* _op_ids: the id of each is its place, so that a repeat replaces it.
Operations(doc) == [n \in 0..Len(doc.log) |-> IF n = 0 THEN Entry("case") ELSE doc.log[n]]

\* The bulk may fail for one document.
SoWrite(p, bad) ==
  /\ At(p, "so", "read")
  /\ IF bad = -1 THEN UNCHANGED spent ELSE Spend({"faults"})
  /\ LET ops == Operations(job[p].doc)
         written == DOMAIN ops \ {bad}
     IN  /\ so' = [n \in DOMAIN so \cup written |-> IF n \in written THEN ops[n] ELSE so[n]]
         /\ stray' = (stray \ written) \cup (IF job[p].was = "rebuilt" THEN written ELSE {})
  /\ paper' = Printed(p, "comments", "none")
  /\ job' = [job EXCEPT ![p] = Rest]
  /\ UNCHANGED <<spine, receipts, vouch, iris, now, lost, loose, mix>>

----------------------------------------------------------------------------
\* The deliverables.

\* require_publishable; the override is the console's allow_unattested.
Passes(label, override) == label \in Attested \/ override

\* Slip: an advisory that follows its report is not asked about again.
GatedOnce(p) == job[p].op # "so_advisory" /\ job[p].at = 0

\* Security Onion's advisory reads the spine and asks nobody.
Gated(p) == job[p].op # "so_advisory"

\* The console's allow_unattested.
MayOverride(p) == job[p].op \in {"report", "advisory"}

\* render_case_report, render_advisory: the verdict of the point, the gate, the page of what
\* was read.
Page(p, override) ==
  /\ job[p].op \in {"report", "advisory", "so_advisory", "attach"} /\ job[p].pc = "read"
  /\ override => MayOverride(p)
  /\ LET label == IF job[p].op = "so_advisory" THEN "none" ELSE vouch
     IN  IF Gated(p) /\ ~ Passes(label, override)
         THEN job' = [job EXCEPT ![p] = Rest] /\ UNCHANGED paper
         ELSE /\ paper' = Printed(p, IF override THEN "override" ELSE "page", label)
              /\ job' = [job EXCEPT ![p] = IF job[p].op # "attach" THEN Rest
                           ELSE [@ EXCEPT !.pc = IF job[p].at = 0 THEN "next" ELSE "header"]]
  /\ UNCHANGED <<spine, receipts, vouch, iris, so, now, history, spent, mix>>

\* render_reports: the decided cases, each with its verdict, whatever it is.
Compile(p) ==
  /\ At(p, "compile", "read")
  /\ paper' = IF Decided(job[p].doc) THEN Printed(p, "compiled", vouch) ELSE paper
  /\ job' = [job EXCEPT ![p] = Rest]
  /\ UNCHANGED <<spine, receipts, vouch, iris, so, now, history, spent, mix>>

\* render_so_case_report: the title is looked for in a document whose so_operation is
\* "create"; those written here have none, and the one that makes the case is taken for a
\* comment.
SoReport(p) ==
  /\ At(p, "so_report", "read")
  /\ paper' = IF so = <<>> THEN paper ELSE Printed(p, "untitled", "none")
  /\ job' = [job EXCEPT ![p] = Rest]
  /\ UNCHANGED <<spine, receipts, vouch, iris, so, now, history, spent, mix>>

\* _render_artifacts: after the report the advisory, of a reading of its own.
Reread(p, failed) ==
  /\ At(p, "attach", "next")
  /\ IF failed THEN Spend({"faults"}) ELSE UNCHANGED spent
  /\ job' = [job EXCEPT ![p].pc = "read", ![p].at = 1, ![p].doc = GetCase(failed),
                        ![p].was = VouchedBy(failed), ![p].resigned = FALSE]
  /\ UNCHANGED <<spine, receipts, vouch, iris, so, paper, now, history, mix>>

\* publish_artifacts_to_so: the outcome comes from a third reading, which no gate follows.
\* The comment replaces the one of the run before.
Attach(p, failed) ==
  /\ At(p, "attach", "header")
  /\ IF failed THEN Spend({"faults"}) ELSE UNCHANGED spent
  /\ paper' = [Printed(p, "header", "none") EXCEPT !.was = VouchedBy(failed)]
  /\ job' = [job EXCEPT ![p] = Rest]
  /\ UNCHANGED <<spine, receipts, vouch, iris, so, now, history, mix>>

----------------------------------------------------------------------------
\* An IRIS case as the publisher leaves it when nothing has happened to the case yet.
Copied == [open |-> TRUE, paid |-> FALSE,
           rows |-> <<Row("note", "open", FALSE), Row("ioc", "observable", FALSE)>>]

Init ==
  /\ spine = Fresh /\ receipts = <<>>
  /\ vouch \in Verdicts
  /\ iris \in {<<>>, <<Copied>>, <<[Copied EXCEPT !.open = FALSE], Copied>>} /\ so = <<>> /\ paper = [op |-> "none"]
  /\ mix \in Mixes
  /\ job = [p \in Procs |-> Rest]
  /\ now = 1 /\ lost = FALSE /\ loose = {} /\ stray = {}
  /\ spent = [b \in DOMAIN Bounds |-> 0]

IrisNext(p) ==
  \/ \E i \in 0..Len(iris) : Find(p, i)
  \/ Create(p)
  \/ \E blind \in BOOLEAN : Furnish(p, blind)
  \/ \E blind, failed \in BOOLEAN : ReadTags(p, blind, failed)
  \/ \E k \in DOMAIN job[p].doc.log, outcome \in {"posted", "refused", "unanswered"} :
       Post(p, k, outcome)
  \/ Published(p)

PeopleNext ==
  \E i \in DOMAIN iris :
    \/ \E kind \in {"iris_note", "iris_event"}, offset \in Offsets : Compose(i, kind, offset)
    \/ \E n \in DOMAIN iris[i].rows : Edit(i, n)
    \/ CloseInIris(i)

SyncNext(p) ==
  \/ \E i \in DOMAIN iris : \E unread \in SUBSET {"iris_note", "iris_event"} : Fetch(p, i, unread)
  \/ NothingToFetch(p)
  \/ SyncWrite(p)

RenderNext(p) ==
  \/ \E override \in BOOLEAN : Page(p, override)
  \/ Compile(p)
  \/ SoReport(p)
  \/ \E failed \in BOOLEAN : Reread(p, failed) \/ Attach(p, failed)

Next ==
  \/ \E p \in Procs :
       \/ \E op \in AllOps, failed \in BOOLEAN : Begin(p, op, failed)
       \/ \E list \in Writes : Mutate(p, list)
       \/ Die(p)
       \/ IrisNext(p)
       \/ SyncNext(p)
       \/ \E bad \in -1..Len(job[p].doc.log) : SoWrite(p, bad)
       \/ RenderNext(p)
  \/ Tamper
  \/ Reattest
  \/ PeopleNext

Spec == Init /\ [][Next]_vars

----------------------------------------------------------------------------
\* Properties.

\* One spine case is one IRIS case, and one event of it is one IRIS event, however often it
\* is published and wherever a run ended: a second open case, or a second row of one tag, is
\* there because two runs overlapped or a call failed (find_existing_case, _event_tag,
\* _add_note, _add_iocs).
MirrorsAreExcused ==
  /\ \A i, j \in OpenCases : i < j => iris[j].paid
  /\ \A i \in DOMAIN iris : \A m, n \in DOMAIN iris[i].rows :
       LET a == iris[i].rows[m] b == iris[i].rows[n] IN
       (m < n /\ a.by = "ssop" /\ b.by = "ssop" /\ a.kind = b.kind /\ a.tag = b.tag)
         => (a.excused \/ b.excused)

\* What a person wrote in IRIS, at one time, comes to the timeline once, whatever runs
\* overlap, die or overwrite each other: the cursor and the entries are one document.  Two
\* kinds of entries come again: an event dated ahead comes at every run until its date is
\* past; and where append_event or a decision has written back what it made of the receipts,
\* the cursor is gone and the entries that were in them are not (_rebuild_from_receipts).
HumanOnce ==
  \A m, n \in DOMAIN spine.log :
    (m # n /\ spine.log[m] = spine.log[n] /\ spine.log[m].id # 0)
      => spine.log[m].ahead \/ spine.log[m] \in loose

\* The cursor passes nothing a person wrote, but what was written while a run was between
\* its reading and its writing, what was dated back behind it, what a run could not read,
\* and what is on another IRIS case of the same case.
HumanArrives ==
  \A i \in DOMAIN iris : \A r \in Theirs(i) :
    r.ts <= spine.cursor => r.excused \/ Human(r) \in ToSet(spine.log)

\* Security Onion shows the timeline, each entry at its place, as long as every write of the
\* case had read the timeline it replaced (_op_ids are places); but for the places last
\* written by a publication whose read failed, which has one entry for each write of the case
\* and not one for each event.
SoShowsTheTimeline ==
  lost \/ \A n \in DOMAIN so \ stray :
            n <= Len(spine.log) /\ so[n] = (IF n = 0 THEN Entry("case") ELSE spine.log[n])

\* A report or an advisory is printed as attested evidence only if it is: the content that
\* was read, or, between the reading and the verdict, something signed the case
\* (render_case_report and render_advisory read first and ask later).  The verdict is about
\* the point: where the reading had failed, what is printed is another document, which
\* nothing vouches for.
GateHolds ==
  paper.op \in {"report", "advisory", "attach"} /\ paper.page = "page" =>
    paper.label \in Attested /\ (paper.was \in Attested \/ paper.resigned \/ paper.was = "rebuilt")

\* "a deliverable must not present content the spine cannot vouch for as verified evidence"
\* (report_gen.py:347-348).
OnlyVouchedIsPresented ==
  paper.op \in {"report", "advisory", "attach"} /\ paper.page = "page" =>
    paper.was \in Attested \/ paper.resigned

\* The gate's docstring (case_tools.py:222-223): "Called by every publication surface
\* (single-case report, CISA-style advisory, IRIS/SO attach)".
EverySurfaceIsGated ==
  paper.op = "iris" => paper.was \in Attested

\* "decisions and comments made BY HUMANS IN IRIS become part of the spine's authoritative
\* audit trail" (sync_iris_to_spine.py:9-10), of what one IRIS case has and all calls answer.
CommentsBecomePart ==
  \A i \in DOMAIN iris : \A r \in Theirs(i) :
    r.ts <= spine.cursor => Human(r) \in ToSet(spine.log)
=============================================================================
