--------------------------- MODULE PublishProofs ---------------------------
(***************************************************************************)
(* Theorems of Publish, for any processes, contents, dates and bounds:     *)
(* that a page printed as attested was, that Security Onion shows the      *)
(* timeline, that what a person wrote in IRIS comes once and is not passed *)
(* over, and that copies in IRIS are not repeated.                         *)
(***************************************************************************)
EXTENDS Publish, FunctionTheorems, FiniteSetTheorems, SequenceTheorems, TLAPS

----------------------------------------------------------------------------
\* Types.

Kinds == {"note", "ioc", "event", "iris_note", "iris_event"}

Tags == Contents \cup {"open", "decided", "observable", "none"}

RowShapes == [kind : Kinds, by : {"ssop", "human"}, tag : Tags, id : Nat, ts : Int,
              ahead : BOOLEAN, excused : BOOLEAN]

CaseShapes == [open : BOOLEAN, paid : BOOLEAN, rows : Seq(RowShapes)]

EntryShapes == [what : Contents \cup Kinds, id : Nat, ts : Int, ahead : BOOLEAN]

Docs == [log : Seq(EntryShapes), cursor : Nat, state : {"open", "decided"}, observables : BOOLEAN]

Batches == {acts \in SUBSET EntryShapes : IsFiniteSet(acts)}

Jobs == [op : AllOps \cup {"none"},
         pc : {"rest", "read", "create", "note", "tags", "post", "write", "next", "header"},
         doc : Docs, was : AllVerdicts \cup {"none", "rebuilt"}, resigned : BOOLEAN, at : Nat,
         seen : SUBSET Tags, new : Batches, paid : BOOLEAN]

\* A run of the publisher past its lookup has an IRIS case, and a run that brings back what
\* people wrote has something to write.
Placed(p) ==
  /\ job[p].op = "iris" /\ job[p].pc \in {"note", "tags", "post"} => job[p].at \in DOMAIN iris
  /\ Fetched(p) => job[p].new # {}

ShapeInv ==
  /\ spine \in Docs /\ receipts \in Seq(EntryShapes) /\ vouch \in AllVerdicts
  /\ iris \in Seq(CaseShapes)
  /\ job \in [Procs -> Jobs]
  /\ now \in Nat \ {0} /\ spent \in [DOMAIN Bounds -> Nat]
  /\ \A p \in Procs : Placed(p)

LEMMA RowShape ==
  ASSUME NEW kind \in Kinds, NEW tag \in Tags, NEW excused \in BOOLEAN
  PROVE  /\ Row(kind, tag, excused) \in RowShapes
         /\ Row(kind, tag, excused).by = "ssop" /\ Row(kind, tag, excused).kind = kind
         /\ Row(kind, tag, excused).tag = tag /\ Row(kind, tag, excused).excused = excused
BY DEF Row, RowShapes

\* An IRIS case that gets other rows.
LEMMA Rewritten ==
  ASSUME iris \in Seq(CaseShapes), NEW i \in DOMAIN iris, NEW rows \in Seq(RowShapes),
         iris' = [iris EXCEPT ![i].rows = rows]
  PROVE  /\ iris' \in Seq(CaseShapes) /\ DOMAIN iris' = DOMAIN iris /\ Len(iris') = Len(iris)
         /\ iris'[i].rows = rows
         /\ \A j \in DOMAIN iris : iris'[j].open = iris[j].open /\ iris'[j].paid = iris[j].paid
         /\ \A j \in DOMAIN iris \ {i} : iris'[j] = iris[j]
<1>1. iris[i] \in CaseShapes
  OBVIOUS
<1>2. iris' = [iris EXCEPT ![i] = [iris[i] EXCEPT !.rows = rows]]
  OBVIOUS
<1>4. /\ [iris[i] EXCEPT !.rows = rows] \in CaseShapes
      /\ [iris[i] EXCEPT !.rows = rows].rows = rows /\ [iris[i] EXCEPT !.rows = rows].open = iris[i].open
      /\ [iris[i] EXCEPT !.rows = rows].paid = iris[i].paid
  BY <1>1 DEF CaseShapes
<1> DEFINE new == [iris[i] EXCEPT !.rows = rows]
<1> HIDE DEF new
<1>5. new \in CaseShapes /\ new.rows = rows /\ new.open = iris[i].open /\ new.paid = iris[i].paid
      /\ iris' = [iris EXCEPT ![i] = new]
  BY <1>2, <1>4 DEF new
<1> QED
  BY <1>5

\* What a failed read is answered with.
LEMMA CopyShape ==
  ASSUME ShapeInv, NEW failed \in BOOLEAN
  PROVE  /\ GetCase(failed) \in Docs /\ Rebuilt.cursor = 0
         /\ VouchedBy(failed) \in AllVerdicts \cup {"none", "rebuilt"}
         /\ ~ failed => GetCase(failed) = spine /\ VouchedBy(failed) = vouch
         /\ failed => GetCase(failed) = Rebuilt /\ VouchedBy(failed) = "rebuilt"
<1>1. Rebuilt \in Docs /\ Rebuilt.cursor = 0
  BY DEF Rebuilt, Docs, ShapeInv
<1> QED
  BY <1>1 DEF GetCase, VouchedBy, ShapeInv

LEMMA RestShape == Rest \in Jobs /\ Rest.op = "none" /\ Rest.pc = "rest"
BY FS_EmptySet DEF Rest, Fresh, Jobs, Docs, Batches

\* A job that is dropped, and one that is written back with other fields.
LEMMA Dropped ==
  ASSUME job \in [Procs -> Jobs], NEW p \in Procs, job' = [job EXCEPT ![p] = Rest]
  PROVE  job' \in [Procs -> Jobs] /\ job'[p].op = "none" /\ job'[p].pc = "rest"
         /\ \A q \in Procs \ {p} : job'[q] = job[q]
BY RestShape

LEMMA Signed ==
  ASSUME ShapeInv, NEW p \in Procs, NEW doc \in Docs, Write(p, doc)
  PROVE  /\ job' \in [Procs -> Jobs] /\ job'[p].op = "none"
         /\ spine' = doc /\ vouch' = "write"
         /\ ~ lost' => ~ lost /\ job[p].doc.log = spine.log
         /\ loose \subseteq loose'
         /\ job[p].was = "rebuilt" => PeoplesOf(job[p].doc) \subseteq loose'
         /\ \A q \in Procs \ {p} :
              /\ job'[q].op = job[q].op /\ job'[q].pc = job[q].pc /\ job'[q].doc = job[q].doc
              /\ job'[q].new = job[q].new /\ job'[q].at = job[q].at /\ job'[q].seen = job[q].seen
              /\ job'[q].paid = job[q].paid /\ job'[q].was = job[q].was
              /\ job'[q].resigned = Renders(q)
<1>1. \A q \in Procs \ {p} : job'[q] = [job[q] EXCEPT !.resigned = Renders(q)]
  BY DEF Write
<1>2. job'[p] = Rest
  BY DEF Write
<1>3. \A q \in Procs : Renders(q) \in BOOLEAN /\ job[q] \in Jobs
  BY DEF Renders, ShapeInv
<1>4. \A q \in Procs \ {p} :
        /\ job'[q] \in Jobs
        /\ job'[q].op = job[q].op /\ job'[q].pc = job[q].pc /\ job'[q].doc = job[q].doc
        /\ job'[q].new = job[q].new /\ job'[q].at = job[q].at /\ job'[q].seen = job[q].seen
        /\ job'[q].paid = job[q].paid /\ job'[q].was = job[q].was
        /\ job'[q].resigned = Renders(q)
  <2> SUFFICES ASSUME NEW q \in Procs \ {p} PROVE
        /\ job'[q] \in Jobs
        /\ job'[q].op = job[q].op /\ job'[q].pc = job[q].pc /\ job'[q].doc = job[q].doc
        /\ job'[q].new = job[q].new /\ job'[q].at = job[q].at /\ job'[q].seen = job[q].seen
        /\ job'[q].paid = job[q].paid /\ job'[q].was = job[q].was
        /\ job'[q].resigned = Renders(q)
    OBVIOUS
  <2>1. job'[q] = [job[q] EXCEPT !.resigned = Renders(q)] /\ Renders(q) \in BOOLEAN /\ job[q] \in Jobs
    BY <1>1, <1>3
  <2> HIDE DEF Renders
  <2> QED
    BY <2>1 DEF Jobs
<1>5. job' \in [Procs -> Jobs]
  <2>1. job' = [q \in Procs |-> job'[q]]
    BY DEF Write
  <2> QED
    BY <1>2, <1>4, <2>1, RestShape
<1> QED
  BY <1>2, <1>4, <1>5, RestShape DEF Write

LEMMA Receipted ==
  ASSUME receipts \in Seq(EntryShapes), NEW doc \in Docs, doc.log # <<>>,
         receipts' = Append(receipts, Last(doc.log))
  PROVE  receipts' \in Seq(EntryShapes)
<1>1. doc.log \in Seq(EntryShapes)
  BY DEF Docs
<1>2. Len(doc.log) \in DOMAIN doc.log
  BY <1>1
<1>3. Last(doc.log) \in EntryShapes
  BY <1>1, <1>2 DEF Last
<1> QED
  BY <1>3

LEMMA Pair == ASSUME NEW S, NEW a \in S, NEW b \in S PROVE <<a, b>> \in Seq(S)
<1>1. DOMAIN <<a, b>> = 1..2 /\ <<a, b>>[1] = a /\ <<a, b>>[2] = b
  OBVIOUS
<1>2. \A i \in 1..2 : i = 1 \/ i = 2
  OBVIOUS
<1>3. <<a, b>> = [i \in 1..2 |-> <<a, b>>[i]]
  OBVIOUS
<1>4. \A i \in 1..2 : <<a, b>>[i] \in S
  BY <1>1, <1>2
<1>5. <<a, b>> \in [1..2 -> S]
  BY <1>3, <1>4
<1> QED
  BY <1>5

LEMMA ShapeInit == Init => ShapeInv
<1> SUFFICES ASSUME Init PROVE ShapeInv
  OBVIOUS
<1>1. Copied \in CaseShapes /\ [Copied EXCEPT !.open = FALSE] \in CaseShapes
  <2>1. Row("note", "open", FALSE) \in RowShapes /\ Row("ioc", "observable", FALSE) \in RowShapes
    BY RowShape DEF Kinds, Tags
  <2>2. <<Row("note", "open", FALSE), Row("ioc", "observable", FALSE)>> \in Seq(RowShapes)
    BY <2>1, Pair
  <2> QED
    BY <2>2 DEF Copied, CaseShapes
<1>2. iris \in Seq(CaseShapes)
  <2> DEFINE shut == [Copied EXCEPT !.open = FALSE]
  <2>1. Copied \in CaseShapes /\ shut \in CaseShapes
        /\ (iris = <<>> \/ iris = <<Copied>> \/ iris = <<shut, Copied>>)
    BY <1>1 DEF Init
  <2> HIDE DEF shut
  <2>2. <<>> \in Seq(CaseShapes) /\ <<Copied>> \in Seq(CaseShapes) /\ <<shut, Copied>> \in Seq(CaseShapes)
    BY <2>1, Pair
  <2> QED
    BY <2>1, <2>2
<1>3. job \in [Procs -> Jobs] /\ \A p \in Procs : Placed(p)
  BY RestShape DEF Init, Placed, Fetched, At
<1>4. spine \in Docs /\ receipts \in Seq(EntryShapes)
  BY DEF Init, Fresh, Docs
<1> QED
  BY <1>2, <1>3, <1>4, PublishAssumption DEF Init, ShapeInv

\* The bounds used up are numbers.
LEMMA Spent ==
  ASSUME spent \in [DOMAIN Bounds -> Nat], NEW bs, Spend(bs) PROVE spent' \in [DOMAIN Bounds -> Nat]
BY DEF Spend

LEMMA SpentOrNot ==
  ASSUME spent \in [DOMAIN Bounds -> Nat], NEW bs, Spend(bs) \/ UNCHANGED spent
  PROVE  spent' \in [DOMAIN Bounds -> Nat]
BY Spent

\* What the publisher finds missing, as rows.
LEMMA MissingShape ==
  ASSUME NEW p, NEW blind, NEW paid \in BOOLEAN, job[p].doc \in Docs
  PROVE  NoteMissing(p, blind, paid) \in Seq(RowShapes) /\ IocsMissing(p, blind, paid) \in Seq(RowShapes)
<1>1. Row("note", job[p].doc.state, paid) \in RowShapes
  <2>1. job[p].doc.state \in Tags
    BY DEF Docs, Tags
  <2> QED
    BY <2>1, RowShape DEF Kinds
<1>2. Row("ioc", "observable", paid) \in RowShapes
  BY RowShape DEF Kinds, Tags
<1> QED
  BY <1>1, <1>2 DEF NoteMissing, IocsMissing

\* An operation begins: its job, and the publishers it overlaps.
LEMMA BeginJob ==
  ASSUME ShapeInv, NEW p \in Procs, NEW op \in AllOps, NEW failed \in BOOLEAN, Begin(p, op, failed)
  PROVE  /\ job' \in [Procs -> Jobs] /\ job[p].pc = "rest"
         /\ job'[p].op = op /\ job'[p].pc = "read" /\ job'[p].doc = GetCase(failed)
         /\ failed => job'[p].was = "rebuilt" /\ op # "sync"
         /\ op \notin {"mutate", "sync", "so"} => job'[p].was = VouchedBy(failed)
         /\ op = "iris" /\ ~ job'[p].paid => \A q \in Procs : job[q].op # "iris"
         /\ \A q \in Procs \ {p} :
              /\ job'[q].op = job[q].op /\ job'[q].pc = job[q].pc /\ job'[q].doc = job[q].doc
              /\ job'[q].was = job[q].was /\ job'[q].resigned = job[q].resigned
              /\ job'[q].at = job[q].at /\ job'[q].seen = job[q].seen /\ job'[q].new = job[q].new
              /\ job[q].paid => job'[q].paid
              /\ op = "iris" /\ job[q].op = "iris" => job'[q].paid
         /\ spent' \in [DOMAIN Bounds -> Nat]
         /\ UNCHANGED <<spine, receipts, vouch, iris, so, paper, now, lost, loose, stray, mix>>
<1> DEFINE others == {q \in Procs : op = "iris" /\ job[q].op = "iris"}
           was == IF op \in {"mutate", "sync", "so"} /\ ~ failed THEN "none" ELSE VouchedBy(failed)
           paid == others # {}
           mine == [Rest EXCEPT !.op = op, !.pc = "read", !.doc = GetCase(failed), !.paid = paid, !.was = was]
<1>1. job' = [q \in Procs |-> IF q = p THEN mine
                              ELSE IF q \in others THEN [job[q] EXCEPT !.paid = TRUE] ELSE job[q]]
  BY DEF Begin
<1>2. was \in AllVerdicts \cup {"none", "rebuilt"} /\ paid \in BOOLEAN /\ GetCase(failed) \in Docs
  BY CopyShape
<1>3. /\ op \notin {"mutate", "sync", "so"} => was = VouchedBy(failed)
      /\ failed => was = "rebuilt" /\ op # "sync"
      /\ op = "iris" /\ ~ paid => \A q \in Procs : job[q].op # "iris"
      /\ \A q \in Procs : op = "iris" /\ job[q].op = "iris" <=> q \in others
  BY CopyShape DEF Begin, ReadsByGetCase
<1> HIDE DEF was, others, paid
<1>4. mine \in Jobs /\ mine.op = op /\ mine.pc = "read" /\ mine.doc = GetCase(failed) /\ mine.was = was
      /\ mine.paid = paid
  <2>1. Rest \in Jobs
    BY RestShape
  <2> QED
    BY <1>2, <2>1 DEF Jobs
<1>5. ASSUME NEW q \in Procs
      PROVE  LET theirs == [job[q] EXCEPT !.paid = TRUE] IN
             /\ theirs \in Jobs /\ theirs.paid
             /\ theirs.op = job[q].op /\ theirs.pc = job[q].pc /\ theirs.doc = job[q].doc
             /\ theirs.was = job[q].was /\ theirs.resigned = job[q].resigned
             /\ theirs.at = job[q].at /\ theirs.seen = job[q].seen /\ theirs.new = job[q].new
  <2>1. job[q] \in Jobs
    BY DEF ShapeInv
  <2> QED
    BY <2>1 DEF Jobs
<1> HIDE DEF mine
<1>6. job' \in [Procs -> Jobs] /\ job'[p] = mine
  BY <1>1, <1>4, <1>5 DEF ShapeInv
<1>7. ASSUME NEW q \in Procs \ {p}
      PROVE  /\ job'[q].op = job[q].op /\ job'[q].pc = job[q].pc /\ job'[q].doc = job[q].doc
             /\ job'[q].was = job[q].was /\ job'[q].resigned = job[q].resigned
             /\ job'[q].at = job[q].at /\ job'[q].seen = job[q].seen /\ job'[q].new = job[q].new
             /\ job[q].paid => job'[q].paid
             /\ op = "iris" /\ job[q].op = "iris" => job'[q].paid
  <2>1. CASE q \in others
    <3>1. job'[q] = [job[q] EXCEPT !.paid = TRUE]
      BY <1>1, <2>1
    <3> QED
      BY <1>5, <3>1
  <2>2. CASE q \notin others
    BY <1>1, <1>3, <2>2
  <2> QED
    BY <2>1, <2>2
<1>8. spent' \in [DOMAIN Bounds -> Nat]
  BY Spent DEF Begin, ShapeInv
<1>9. job[p].pc = "rest" /\ UNCHANGED <<spine, receipts, vouch, iris, so, paper, now, lost, loose, stray, mix>>
  BY DEF Begin, Idle, history
<1> QED
  BY <1>3, <1>4, <1>6, <1>7, <1>8, <1>9

\* What the publisher's steps make of the job of the run that takes them.
LEMMA FindJob ==
  ASSUME ShapeInv, NEW p \in Procs, NEW i \in 0..Len(iris), Find(p, i)
  PROVE  /\ job' \in [Procs -> Jobs] /\ \A q \in Procs \ {p} : job'[q] = job[q]
         /\ job'[p].op = "iris" /\ job'[p].at = i
         /\ job'[p].pc = (IF i = 0 THEN "create" ELSE "note")
         /\ i # 0 => i \in OpenCases
         /\ job[p].paid => job'[p].paid
         /\ ~ job'[p].paid /\ i = 0 => OpenCases = {}
         /\ UNCHANGED <<spine, receipts, vouch, iris, so, paper, now, lost, loose, stray, mix>>
<1> DEFINE pc == IF i = 0 THEN "create" ELSE "note"
           paid == job[p].paid \/ (i = 0 /\ OpenCases # {})
<1>1. job' = [job EXCEPT ![p].pc = pc, ![p].at = i, ![p].paid = paid]
  BY DEF Find
<1>2. /\ pc \in {"create", "note"} /\ paid \in BOOLEAN /\ i \in Nat
      /\ job[p].paid => paid
      /\ ~ paid /\ i = 0 => OpenCases = {}
      /\ job[p] \in Jobs
  BY DEF ShapeInv
<1>3. i # 0 => i \in OpenCases
  BY DEF Find
<1> HIDE DEF pc, paid
<1>4. /\ job' \in [Procs -> Jobs] /\ job'[p].pc = pc /\ job'[p].at = i /\ job'[p].paid = paid
      /\ job'[p].op = job[p].op /\ \A q \in Procs \ {p} : job'[q] = job[q]
  BY <1>1, <1>2 DEF ShapeInv, Jobs
<1> QED
  BY <1>2, <1>3, <1>4 DEF Find, At, pc, history

LEMMA CreateJob ==
  ASSUME ShapeInv, NEW p \in Procs, Create(p)
  PROVE  /\ job' \in [Procs -> Jobs] /\ \A q \in Procs \ {p} : job'[q] = job[q]
         /\ job[p].pc = "create" /\ job[p].op = "iris"
         /\ job'[p].op = "iris" /\ job'[p].pc = "note" /\ job'[p].at = Len(iris) + 1
         /\ job'[p].paid = job[p].paid
         /\ iris' \in Seq(CaseShapes) /\ Len(iris') = Len(iris) + 1
         /\ \A j \in DOMAIN iris : iris'[j] = iris[j]
         /\ iris'[Len(iris) + 1].rows = <<>> /\ iris'[Len(iris) + 1].paid = job[p].paid
         /\ UNCHANGED <<spine, receipts, vouch, so, paper, now, lost, loose, stray, mix>>
<1> DEFINE case == [open |-> TRUE, paid |-> job[p].paid, rows |-> <<>>]
<1>1. iris \in Seq(CaseShapes) /\ Len(iris) + 1 \in Nat /\ job[p] \in Jobs
  BY DEF ShapeInv
<1>2. case \in CaseShapes /\ case.rows = <<>> /\ case.paid = job[p].paid
  BY <1>1 DEF CaseShapes, Jobs
<1>3. job' = [job EXCEPT ![p].pc = "note", ![p].at = Len(iris) + 1]
  BY DEF Create
<1>4. /\ job' \in [Procs -> Jobs] /\ \A q \in Procs \ {p} : job'[q] = job[q]
      /\ job'[p].pc = "note" /\ job'[p].at = Len(iris) + 1 /\ job'[p].op = job[p].op
      /\ job'[p].paid = job[p].paid
  BY <1>1, <1>3 DEF ShapeInv, Jobs
<1>5. iris' = Append(iris, case)
  BY DEF Create
<1> HIDE DEF case
<1>6. /\ iris' \in Seq(CaseShapes) /\ Len(iris') = Len(iris) + 1
      /\ \A j \in DOMAIN iris : iris'[j] = iris[j]
      /\ iris'[Len(iris) + 1] = case
  BY <1>1, <1>2, <1>5
<1> QED
  BY <1>2, <1>4, <1>6 DEF Create, At, history

LEMMA FurnishJob ==
  ASSUME ShapeInv, NEW p \in Procs, NEW blind \in BOOLEAN, Furnish(p, blind)
  PROVE  /\ job' \in [Procs -> Jobs] /\ \A q \in Procs \ {p} : job'[q] = job[q]
         /\ job[p].op = "iris" /\ job'[p].op = "iris" /\ job'[p].pc = "tags"
         /\ job'[p].at = job[p].at /\ job[p].at \in DOMAIN iris
         /\ job'[p].paid = (job[p].paid \/ blind)
         /\ iris' \in Seq(CaseShapes) /\ DOMAIN iris' = DOMAIN iris
         /\ \A j \in DOMAIN iris : iris'[j].open = iris[j].open /\ iris'[j].paid = iris[j].paid
         /\ \A j \in DOMAIN iris \ {job[p].at} : iris'[j] = iris[j]
         /\ iris'[job[p].at].rows = iris[job[p].at].rows
              \o NoteMissing(p, blind, job[p].paid \/ blind) \o IocsMissing(p, blind, job[p].paid \/ blind)
         /\ UNCHANGED <<spine, receipts, vouch, so, now, lost, loose, stray, mix>>
<1> DEFINE paid == job[p].paid \/ blind
           i == job[p].at
           rows == iris[i].rows \o NoteMissing(p, blind, paid) \o IocsMissing(p, blind, paid)
<1>1. /\ i \in DOMAIN iris /\ job[p].op = "iris" /\ paid \in BOOLEAN /\ job[p] \in Jobs
      /\ iris \in Seq(CaseShapes)
  BY DEF Furnish, At, ShapeInv, Placed
<1>2. iris' = [iris EXCEPT ![i].rows = rows] /\ job' = [job EXCEPT ![p].pc = "tags", ![p].paid = paid]
  BY DEF Furnish
<1>3. iris[i].rows \in Seq(RowShapes)
  <2>1. iris[i] \in CaseShapes
    BY <1>1
  <2> QED
    BY <2>1 DEF CaseShapes
<1> HIDE DEF paid
<1>4. rows \in Seq(RowShapes)
  <2>1. NoteMissing(p, blind, paid) \in Seq(RowShapes) /\ IocsMissing(p, blind, paid) \in Seq(RowShapes)
    <3>1. job[p].doc \in Docs
      BY <1>1 DEF Jobs
    <3> QED
      BY <1>1, <3>1, MissingShape
  <2> QED
    BY <1>3, <2>1
<1> HIDE DEF rows
<1>5. /\ job' \in [Procs -> Jobs] /\ \A q \in Procs \ {p} : job'[q] = job[q]
      /\ job'[p].pc = "tags" /\ job'[p].at = i /\ job'[p].op = job[p].op /\ job'[p].paid = paid
  BY <1>1, <1>2 DEF ShapeInv, Jobs
<1> HIDE DEF i
<1>6. /\ iris' \in Seq(CaseShapes) /\ DOMAIN iris' = DOMAIN iris /\ iris'[i].rows = rows
      /\ \A j \in DOMAIN iris : iris'[j].open = iris[j].open /\ iris'[j].paid = iris[j].paid
      /\ \A j \in DOMAIN iris \ {i} : iris'[j] = iris[j]
  BY <1>1, <1>2, <1>4, Rewritten
<1> QED
  BY <1>1, <1>5, <1>6 DEF Furnish, paid, rows, i, history

LEMMA ReadTagsJob ==
  ASSUME ShapeInv, NEW p \in Procs, NEW blind \in BOOLEAN, NEW failed \in BOOLEAN, ReadTags(p, blind, failed)
  PROVE  /\ job' \in [Procs -> Jobs] /\ \A q \in Procs \ {p} : job'[q] = job[q]
         /\ job[p].op = "iris" /\ job'[p].op = "iris" /\ job'[p].pc = "post"
         /\ job'[p].at = job[p].at /\ job[p].at \in DOMAIN iris
         /\ job[p].paid => job'[p].paid
         /\ ~ job'[p].paid => job'[p].seen = Ours(job[p].at, "event")
         /\ UNCHANGED <<spine, receipts, vouch, iris, so, paper, now, lost, loose, stray, mix>>
<1> DEFINE seen == IF blind THEN {} ELSE Ours(job[p].at, "event")
           paid == job[p].paid \/ blind
<1>1. /\ job[p].at \in DOMAIN iris /\ job[p].op = "iris" /\ paid \in BOOLEAN /\ job[p] \in Jobs
      /\ (job[p].paid => paid) /\ (~ paid => seen = Ours(job[p].at, "event"))
      /\ iris \in Seq(CaseShapes) /\ GetCase(failed) \in Docs
      /\ VouchedBy(failed) \in AllVerdicts \cup {"none", "rebuilt"}
  BY CopyShape DEF ReadTags, At, ShapeInv, Placed
<1>2. seen \in SUBSET Tags
  <2>1. iris[job[p].at] \in CaseShapes
    BY <1>1
  <2>2. \A n \in DOMAIN iris[job[p].at].rows : iris[job[p].at].rows[n] \in RowShapes
    BY <2>1 DEF CaseShapes
  <2>3. \A r \in Rows(job[p].at) : r.tag \in Tags
    BY <2>2 DEF Rows, ToSet, RowShapes
  <2> QED
    BY <2>3 DEF Ours
<1>3. job' = [job EXCEPT ![p].pc = "post", ![p].doc = GetCase(failed), ![p].was = VouchedBy(failed),
                         ![p].resigned = FALSE, ![p].seen = seen, ![p].paid = paid]
  BY DEF ReadTags
<1> HIDE DEF seen, paid
<1>4. /\ job' \in [Procs -> Jobs] /\ \A q \in Procs \ {p} : job'[q] = job[q]
      /\ job'[p].pc = "post" /\ job'[p].at = job[p].at /\ job'[p].op = job[p].op
      /\ job'[p].paid = paid /\ job'[p].seen = seen
  BY <1>1, <1>2, <1>3 DEF ShapeInv, Jobs
<1> QED
  BY <1>1, <1>4 DEF ReadTags, history

LEMMA SuffixShape ==
  ASSUME NEW log \in Seq(EntryShapes), NEW k \in DOMAIN log
  PROVE  SubSeq(log, k + 1, Len(log)) \in Seq(EntryShapes)
<1>1. \A i \in (k + 1)..Len(log) : log[i] \in EntryShapes
  OBVIOUS
<1>2. k + 1 \in Int /\ Len(log) \in Int
  OBVIOUS
<1> QED
  BY <1>1, <1>2, SubSeqProperties

Posted(p, e, paid) ==
  /\ DOMAIN iris' = DOMAIN iris
  /\ \A j \in DOMAIN iris : iris'[j].open = iris[j].open /\ iris'[j].paid = iris[j].paid
  /\ \A j \in DOMAIN iris \ {job[p].at} : iris'[j] = iris[j]
  /\ iris'[job[p].at].rows = Append(iris[job[p].at].rows, Row("event", Tag(e), paid))

LEMMA PostJob ==
  ASSUME ShapeInv, NEW p \in Procs, NEW k \in DOMAIN job[p].doc.log,
         NEW outcome \in {"posted", "refused", "unanswered"}, Post(p, k, outcome)
  PROVE  /\ job' \in [Procs -> Jobs] /\ \A q \in Procs \ {p} : job'[q] = job[q]
         /\ job[p].op = "iris" /\ job[p].pc = "post" /\ job'[p].op = "iris" /\ job'[p].pc = "post"
         /\ job'[p].at = job[p].at /\ job[p].at \in DOMAIN iris
         /\ job'[p].paid = (job[p].paid \/ outcome # "posted")
         /\ outcome = "posted" => job'[p].seen = job[p].seen \cup {Tag(job[p].doc.log[k])}
         /\ Tag(job[p].doc.log[k]) \notin job[p].seen
         /\ Tag(job[p].doc.log[k]) \in Tags
         /\ iris' \in Seq(CaseShapes)
         /\ \/ UNCHANGED iris
            \/ Posted(p, job[p].doc.log[k], job[p].paid \/ outcome # "posted")
         /\ outcome = "posted" => Posted(p, job[p].doc.log[k], job[p].paid \/ outcome # "posted")
         /\ UNCHANGED <<spine, receipts, vouch, so, now, lost, loose, stray, mix>>
<1> DEFINE e == job[p].doc.log[k]
           i == job[p].at
           paid == job[p].paid \/ outcome # "posted"
           log == SubSeq(job[p].doc.log, k + 1, Len(job[p].doc.log))
           seen == IF outcome = "posted" THEN job[p].seen \cup {Tag(e)} ELSE job[p].seen
           row == Row("event", Tag(e), paid)
           rows == Append(iris[i].rows, row)
<1>1. /\ i \in DOMAIN iris /\ job[p].op = "iris" /\ job[p].pc = "post" /\ job[p] \in Jobs
      /\ iris \in Seq(CaseShapes) /\ paid \in BOOLEAN
  BY DEF Post, At, ShapeInv, Placed
<1>2. job[p].doc.log \in Seq(EntryShapes) /\ job[p].doc \in Docs /\ job[p].seen \in SUBSET Tags
  BY <1>1 DEF Jobs, Docs
<1>3. Tag(e) \in Tags /\ Tag(e) \notin job[p].seen
  <2>1. e.what \in Shown /\ Tag(e) \notin job[p].seen
    BY DEF Post, Unposted, HasPayload
  <2> QED
    BY <2>1, PublishAssumption DEF Tag, Tags
<1>4. log \in Seq(EntryShapes)
  BY <1>2, SuffixShape
<1>5. seen \in SUBSET Tags
  BY <1>2, <1>3
<1>6. job' = [job EXCEPT ![p].doc.log = log, ![p].paid = paid, ![p].seen = seen]
  BY DEF Post
<1>7. IF outcome = "refused" THEN iris' = iris ELSE iris' = [iris EXCEPT ![i].rows = rows]
  BY DEF Post
<1>8. outcome = "posted" => seen = job[p].seen \cup {Tag(e)}
  OBVIOUS
<1> HIDE DEF paid, log, seen
<1>9. rows \in Seq(RowShapes)
  <2>1. iris[i] \in CaseShapes
    BY <1>1
  <2>2. row \in RowShapes
    BY <1>1, <1>3, RowShape DEF Kinds
  <2> HIDE DEF row, e
  <2> QED
    BY <2>1, <2>2 DEF CaseShapes
<1>10. [job[p].doc EXCEPT !.log = log] \in Docs
  BY <1>2, <1>4 DEF Docs
<1>11. [job[p] EXCEPT !.doc.log = log, !.paid = paid, !.seen = seen]
         = [job[p] EXCEPT !.doc = [job[p].doc EXCEPT !.log = log], !.paid = paid, !.seen = seen]
  BY <1>1 DEF Jobs
<1>12. /\ job' \in [Procs -> Jobs] /\ \A q \in Procs \ {p} : job'[q] = job[q]
       /\ job'[p].at = i /\ job'[p].op = job[p].op /\ job'[p].pc = job[p].pc
       /\ job'[p].paid = paid /\ job'[p].seen = seen
  <2> DEFINE doc == [job[p].doc EXCEPT !.log = log]
             mine == [job[p] EXCEPT !.doc = doc, !.paid = paid, !.seen = seen]
  <2>1. doc \in Docs
    BY <1>10
  <2>2. job' = [job EXCEPT ![p] = mine]
    BY <1>6, <1>11
  <2> HIDE DEF doc
  <2>3. mine \in Jobs /\ mine.at = i /\ mine.op = job[p].op /\ mine.pc = job[p].pc
        /\ mine.paid = paid /\ mine.seen = seen
    BY <1>1, <1>5, <2>1 DEF Jobs
  <2> HIDE DEF mine, i
  <2> QED
    BY <2>2, <2>3 DEF ShapeInv
<1> HIDE DEF i, rows
<1>13. CASE outcome = "refused"
  BY <1>1, <1>3, <1>7, <1>8, <1>12, <1>13 DEF Post, paid, i, history
<1>14. CASE outcome # "refused"
  <2>1. iris' = [iris EXCEPT ![i].rows = rows]
    BY <1>7, <1>14
  <2>2. /\ iris' \in Seq(CaseShapes) /\ DOMAIN iris' = DOMAIN iris /\ iris'[i].rows = rows
        /\ \A j \in DOMAIN iris : iris'[j].open = iris[j].open /\ iris'[j].paid = iris[j].paid
        /\ \A j \in DOMAIN iris \ {i} : iris'[j] = iris[j]
    BY <1>1, <1>9, <2>1, Rewritten
  <2>3. Posted(p, e, paid)
    BY <2>2 DEF Posted, i, rows
  <2>4. Posted(p, e, job[p].paid \/ outcome # "posted")
    BY <2>3 DEF paid
  <2> QED
    BY <1>1, <1>3, <1>8, <1>12, <2>2, <2>4 DEF Post, paid, i, history
<1> QED
  BY <1>13, <1>14

\* The rows of an IRIS case, some of them marked as passed over.
LEMMA MarkedShape ==
  ASSUME NEW i, NEW unread, NEW j, iris[j].rows \in Seq(RowShapes)
  PROVE  /\ Marked(i, unread, j) \in Seq(RowShapes)
         /\ DOMAIN Marked(i, unread, j) = DOMAIN iris[j].rows
         /\ \A n \in DOMAIN iris[j].rows :
              LET r == iris[j].rows[n] s == Marked(i, unread, j)[n] IN
              /\ s.kind = r.kind /\ s.by = r.by /\ s.tag = r.tag /\ s.id = r.id /\ s.ts = r.ts
              /\ s.ahead = r.ahead /\ s.excused = (r.excused \/ Missed(i, unread, j, r))
<1> DEFINE rows == iris[j].rows
           mark(r) == [r EXCEPT !.excused = @ \/ Missed(i, unread, j, r)]
<1>1. ASSUME NEW r \in RowShapes
      PROVE  /\ mark(r) \in RowShapes /\ mark(r).kind = r.kind /\ mark(r).by = r.by
             /\ mark(r).tag = r.tag /\ mark(r).id = r.id /\ mark(r).ts = r.ts
             /\ mark(r).ahead = r.ahead /\ mark(r).excused = (r.excused \/ Missed(i, unread, j, r))
  <2>1. Missed(i, unread, j, r) \in BOOLEAN
    BY DEF Missed
  <2> DEFINE excused == r.excused \/ Missed(i, unread, j, r)
  <2>2. mark(r) = [r EXCEPT !.excused = excused] /\ excused \in BOOLEAN
    OBVIOUS
  <2> HIDE DEF mark, excused
  <2>3. /\ mark(r) \in RowShapes /\ mark(r).kind = r.kind /\ mark(r).by = r.by
        /\ mark(r).tag = r.tag /\ mark(r).id = r.id /\ mark(r).ts = r.ts
        /\ mark(r).ahead = r.ahead /\ mark(r).excused = excused
    BY <2>2 DEF RowShapes
  <2> QED
    BY <2>3 DEF excused
<1>2. Marked(i, unread, j) = [n \in DOMAIN rows |-> mark(rows[n])] /\ rows \in Seq(RowShapes)
  BY DEF Marked
<1> HIDE DEF rows, mark
<1>3. DOMAIN rows = 1..Len(rows) /\ Len(rows) \in Nat /\ \A n \in DOMAIN rows : rows[n] \in RowShapes
  BY <1>2
<1>4. \A n \in DOMAIN rows : Marked(i, unread, j)[n] = mark(rows[n]) /\ mark(rows[n]) \in RowShapes
  BY <1>1, <1>2, <1>3
<1>5. Marked(i, unread, j) \in [1..Len(rows) -> RowShapes]
  BY <1>2, <1>3, <1>4
<1>6. Marked(i, unread, j) \in Seq(RowShapes) /\ DOMAIN Marked(i, unread, j) = DOMAIN rows
  BY <1>2, <1>3, <1>5
<1>7. ASSUME NEW n \in DOMAIN rows
      PROVE  LET r == rows[n] s == Marked(i, unread, j)[n] IN
             /\ s.kind = r.kind /\ s.by = r.by /\ s.tag = r.tag /\ s.id = r.id /\ s.ts = r.ts
             /\ s.ahead = r.ahead /\ s.excused = (r.excused \/ Missed(i, unread, j, r))
  BY <1>1, <1>3, <1>4
<1> QED
  BY <1>6, <1>7 DEF rows

\* Something fetched, or nothing.
LEMMA FetchJob ==
  ASSUME ShapeInv, NEW p \in Procs, NEW i \in DOMAIN iris,
         NEW unread \in SUBSET {"iris_note", "iris_event"}, Fetch(p, i, unread)
  PROVE  LET new == Newer(p, HumanActivity(i, unread))
         IN  /\ job' \in [Procs -> Jobs] /\ \A q \in Procs \ {p} : job'[q] = job[q]
             /\ job[p].op = "sync"
             /\ \/ UNCHANGED iris /\ job'[p].op = "none" /\ job'[p].pc = "rest"
                \/ /\ job'[p].op = "sync" /\ job'[p].pc = "write" /\ job'[p].doc = job[p].doc
                   /\ job'[p].was = job[p].was
                   /\ job'[p].new = {Human(r) : r \in new} /\ new # {}
                   /\ DOMAIN iris' = DOMAIN iris
                   /\ \A j \in DOMAIN iris :
                        /\ iris'[j].open = iris[j].open /\ iris'[j].paid = iris[j].paid
                        /\ iris'[j].rows = Marked(i, unread, j)
             /\ iris' \in Seq(CaseShapes)
             /\ UNCHANGED <<spine, receipts, vouch, so, paper, now, lost, loose, stray, mix>>
<1> DEFINE new == Newer(p, HumanActivity(i, unread))
<1>1. job[p] \in Jobs /\ iris \in Seq(CaseShapes) /\ job[p].op = "sync" /\ job \in [Procs -> Jobs]
  BY DEF Fetch, At, ShapeInv
<1>2. CASE new = {}
  BY <1>1, <1>2, Dropped DEF Fetch, history
<1>3. CASE new # {}
  <2>1. /\ job' = [job EXCEPT ![p].pc = "write", ![p].new = {Human(r) : r \in new}]
        /\ iris' = [j \in DOMAIN iris |-> [iris[j] EXCEPT !.rows = Marked(i, unread, j)]]
    BY <1>3 DEF Fetch
  <2>2. \A j \in DOMAIN iris : iris[j] \in CaseShapes /\ iris[j].rows \in Seq(RowShapes)
    <3>1. \A j \in DOMAIN iris : iris[j] \in CaseShapes
      BY <1>1
    <3> QED
      BY <3>1 DEF CaseShapes
  <2>3. {Human(r) : r \in new} \in Batches
    <3>1. \A r \in new : r \in RowShapes
      BY <2>2 DEF Newer, HumanActivity, Theirs, Rows, ToSet
    <3>2. \A r \in RowShapes : Human(r) \in EntryShapes
      BY DEF Human, EntryShapes, RowShapes
    <3>3. IsFiniteSet(new)
      <4> DEFINE rows == iris[i].rows
      <4>1. rows \in Seq(RowShapes)
        BY <2>2
      <4>2. Rows(i) = Range(rows)
        BY DEF Rows, ToSet, Range
      <4>3. rows \in [1..Len(rows) -> RowShapes] /\ Len(rows) \in Nat
        BY <4>1
      <4>4. IsFiniteSet(Range(rows))
        <5> DEFINE places == 1..Len(rows)
        <5>1. rows \in [places -> RowShapes] /\ IsFiniteSet(places)
          BY <4>3, FS_Interval, SMTT(40)
        <5> HIDE DEF rows, places
        <5>2. rows \in Surjection(places, Range(rows))
          BY <5>1, Fun_RangeProperties
        <5> QED
          BY <5>1, <5>2, FS_Surjection
      <4>5. new \in SUBSET Rows(i)
        BY DEF Newer, HumanActivity, Theirs
      <4> QED
        BY <4>2, <4>4, <4>5, FS_Subset
    <3>4. IsFiniteSet({Human(r) : r \in new})
      <4> DEFINE f == [r \in new |-> Human(r)]
                 T == {Human(r) : r \in new}
      <4>1. f \in [new -> T] /\ \A t \in T : \E r \in new : f[r] = t
        OBVIOUS
      <4>2. f \in Surjection(new, T)
        BY <4>1, Fun_IsSurj
      <4> HIDE DEF f, T
      <4>3. IsFiniteSet(T)
        BY <3>3, <4>2, FS_Surjection
      <4> QED
        BY <4>3 DEF T
    <3> QED
      BY <3>1, <3>2, <3>4 DEF Batches
  <2>4. \A j \in DOMAIN iris : Marked(i, unread, j) \in Seq(RowShapes)
    BY <2>2, MarkedShape
  <2> DEFINE fetched == {Human(r) : r \in new}
  <2>5. job' = [job EXCEPT ![p].pc = "write", ![p].new = fetched] /\ fetched \in Batches
    BY <2>1, <2>3
  <2> HIDE DEF fetched
  <2>6. /\ job' \in [Procs -> Jobs] /\ \A q \in Procs \ {p} : job'[q] = job[q]
        /\ job'[p].pc = "write" /\ job'[p].op = job[p].op /\ job'[p].doc = job[p].doc
        /\ job'[p].new = fetched /\ job'[p].was = job[p].was
    BY <1>1, <2>5 DEF Jobs
  <2>7. ASSUME NEW j \in DOMAIN iris
        PROVE  /\ iris'[j] \in CaseShapes /\ iris'[j].rows = Marked(i, unread, j)
               /\ iris'[j].open = iris[j].open /\ iris'[j].paid = iris[j].paid
    <3>1. iris'[j] = [iris[j] EXCEPT !.rows = Marked(i, unread, j)] /\ iris[j] \in CaseShapes
          /\ Marked(i, unread, j) \in Seq(RowShapes)
      BY <2>1, <2>2, <2>4
    <3> QED
      BY <3>1 DEF CaseShapes
  <2>8. DOMAIN iris' = DOMAIN iris /\ iris' \in Seq(CaseShapes)
    <3>1. iris' = [j \in 1..Len(iris) |-> iris'[j]] /\ Len(iris) \in Nat /\ DOMAIN iris = 1..Len(iris)
      BY <1>1, <2>1
    <3>2. \A j \in 1..Len(iris) : iris'[j] \in CaseShapes
      BY <2>7, <3>1
    <3> HIDE DEF CaseShapes
    <3>3. iris' \in [1..Len(iris) -> CaseShapes]
      BY <3>1, <3>2, Zenon
    <3> QED
      BY <3>1, <3>3
  <2>9. UNCHANGED <<spine, receipts, vouch, so, paper, now, lost, loose, stray, mix>>
    BY DEF Fetch, history
  <2> QED
    BY <1>1, <1>3, <2>6, <2>7, <2>8, <2>9 DEF fetched
<1> QED
  BY <1>2, <1>3

\* What was fetched, arranged by date, is all of it and nothing twice.
LEMMA Arranged ==
  ASSUME NEW acts \in Batches, NEW list \in ByDate(acts)
  PROVE  /\ list \in Seq(EntryShapes) /\ ToSet(list) = acts
         /\ \A m, n \in DOMAIN list : m # n => list[m] # list[n]
<1> DEFINE size == Cardinality(acts)
<1>1. IsFiniteSet(acts) /\ acts \subseteq EntryShapes /\ size \in Nat
  BY FS_CardinalityType DEF Batches
<1>2. list \in [1..size -> acts] /\ \A m, n \in 1..size : m # n => list[m] # list[n]
  BY DEF ByDate, SetToSeqs
<1>3. list \in Injection(1..size, acts)
  BY <1>2, Fun_IsInj
<1>4. IsFiniteSet(1..size) /\ Cardinality(1..size) = size
  BY <1>1, FS_Interval
<1>5. list \in Surjection(1..size, acts)
  BY <1>1, <1>3, <1>4, FS_Injection
<1>6. \A a \in acts : \E n \in 1..size : list[n] = a
  BY <1>5 DEF Surjection
<1> HIDE DEF size
<1>7. list \in Seq(EntryShapes) /\ DOMAIN list = 1..size
  BY <1>1, <1>2
<1>8. ToSet(list) = acts
  BY <1>2, <1>6, <1>7 DEF ToSet
<1> QED
  BY <1>2, <1>7, <1>8

LEMMA EntryShape == ASSUME NEW c \in Contents \cup Kinds PROVE Entry(c) \in EntryShapes /\ Entry(c).id = 0
BY DEF Entry, EntryShapes

\* The two operations that write the case: what they write.
Mutated(p, list) ==
  [log |-> job[p].doc.log \o Entries(list), cursor |-> job[p].doc.cursor,
   state |-> IF Decides(list) THEN "decided" ELSE job[p].doc.state,
   observables |-> job[p].doc.observables]

Synced(p, list) ==
  [log |-> job[p].doc.log \o list, cursor |-> now',
   state |-> job[p].doc.state, observables |-> job[p].doc.observables]

LEMMA MutateJob ==
  ASSUME ShapeInv, NEW p \in Procs, NEW list \in Writes, Mutate(p, list)
  PROVE  /\ Mutated(p, list) \in Docs /\ Write(p, Mutated(p, list))
         /\ Mutated(p, list).log = job[p].doc.log \o Entries(list) /\ Mutated(p, list).log # <<>>
         /\ Mutated(p, list).cursor = job[p].doc.cursor
         /\ Entries(list) \in Seq(EntryShapes)
         /\ \A n \in DOMAIN Entries(list) : Entries(list)[n].id = 0
         /\ job[p].doc \in Docs /\ job[p].op = "mutate"
         /\ UNCHANGED <<iris, so, paper, now, stray, spent, mix>>
<1>1. job[p] \in Jobs
  BY DEF ShapeInv
<1>2. job[p].doc \in Docs
  BY <1>1 DEF Jobs
<1>3. list \in Seq(Contents) /\ list # <<>>
  BY PublishAssumption
<1>4. \A n \in DOMAIN list : Entry(list[n]) \in EntryShapes /\ Entry(list[n]).id = 0
  BY <1>3, EntryShape
<1>5. Entries(list) \in Seq(EntryShapes) /\ Len(Entries(list)) = Len(list)
  <2>1. Entries(list) = [n \in 1..Len(list) |-> Entry(list[n])] /\ Len(list) \in Nat /\ DOMAIN list = 1..Len(list)
    BY <1>3 DEF Entries
  <2>2. Entries(list) \in [1..Len(list) -> EntryShapes]
    BY <1>4, <2>1
  <2> QED
    BY <2>1, <2>2
<1>6. \A n \in DOMAIN Entries(list) : Entries(list)[n].id = 0
  BY <1>4 DEF Entries
<1> DEFINE log == job[p].doc.log \o Entries(list)
           state == IF Decides(list) THEN "decided" ELSE job[p].doc.state
<1>7. log \in Seq(EntryShapes) /\ log # <<>>
  <2>1. job[p].doc.log \in Seq(EntryShapes)
    BY <1>2 DEF Docs
  <2>2. /\ log \in Seq(EntryShapes)
        /\ Len(log) = Len(job[p].doc.log) + Len(Entries(list))
    BY <1>5, <2>1, ConcatProperties
  <2>3. Len(list) \in Nat /\ Len(list) # 0 /\ Len(job[p].doc.log) \in Nat
    BY <1>3, <2>1, LenProperties, EmptySeq
  <2> HIDE DEF log
  <2>4. Len(log) # 0
    BY <1>5, <2>2, <2>3
  <2> QED
    BY <2>2, <2>4, EmptySeq
<1>8. state \in {"open", "decided"}
  BY <1>2 DEF Docs
<1>9. Mutated(p, list) = [log |-> log, cursor |-> job[p].doc.cursor, state |-> state,
                          observables |-> job[p].doc.observables]
  BY DEF Mutated
<1> HIDE DEF log, state
<1>10. /\ Mutated(p, list) \in Docs /\ Mutated(p, list).log = log
       /\ Mutated(p, list).cursor = job[p].doc.cursor
  BY <1>2, <1>7, <1>8, <1>9 DEF Docs
<1>11. Write(p, Mutated(p, list)) /\ job[p].op = "mutate" /\ UNCHANGED <<iris, so, paper, now, stray, spent, mix>>
  BY DEF Mutate, At, Mutated
<1> QED
  BY <1>2, <1>5, <1>6, <1>7, <1>10, <1>11 DEF log

LEMMA SyncWriteJob ==
  ASSUME ShapeInv, NEW p \in Procs, SyncWrite(p)
  PROVE  /\ Fetched(p) /\ now' = now + 1
         /\ job[p] \in Jobs /\ job[p].doc \in Docs /\ job[p].new \in Batches
         /\ \E list \in ByDate(job[p].new) :
              /\ Synced(p, list) \in Docs /\ Write(p, Synced(p, list))
              /\ Synced(p, list).log = job[p].doc.log \o list /\ Synced(p, list).log # <<>>
              /\ Synced(p, list).cursor = now'
         /\ UNCHANGED <<iris, so, paper, stray, spent, mix>>
<1>1. job[p] \in Jobs /\ now \in Nat /\ now' = now + 1 /\ job[p].new # {}
  BY DEF ShapeInv, SyncWrite, Placed
<1>2. job[p].doc \in Docs /\ job[p].new \in Batches
  BY <1>1 DEF Jobs
<1>3. \E list \in ByDate(job[p].new) : Write(p, Synced(p, list))
  BY DEF SyncWrite, Synced
<1>4. PICK list \in ByDate(job[p].new) : Write(p, Synced(p, list))
  BY <1>3
<1>5. list \in Seq(EntryShapes) /\ ToSet(list) = job[p].new
  BY <1>2, Arranged
<1> DEFINE log == job[p].doc.log \o list
<1>6. log \in Seq(EntryShapes) /\ log # <<>>
  <2>1. job[p].doc.log \in Seq(EntryShapes)
    BY <1>2 DEF Docs
  <2>2. Len(list) # 0
    <3>1. DOMAIN list # {}
      BY <1>1, <1>5 DEF ToSet
    <3> QED
      BY <1>5, <3>1
  <2>3. Len(log) = Len(job[p].doc.log) + Len(list)
    BY <1>5, <2>1
  <2> QED
    BY <1>5, <2>1, <2>2, <2>3
<1>7. Synced(p, list) = [log |-> log, cursor |-> now', state |-> job[p].doc.state,
                         observables |-> job[p].doc.observables]
  BY DEF Synced
<1> HIDE DEF log
<1>8. Synced(p, list) \in Docs /\ Synced(p, list).log = log /\ Synced(p, list).cursor = now'
  BY <1>1, <1>2, <1>6, <1>7 DEF Docs
<1>9. Fetched(p) /\ UNCHANGED <<iris, so, paper, stray, spent, mix>>
  BY DEF SyncWrite
<1> QED
  BY <1>1, <1>2, <1>4, <1>6, <1>8, <1>9 DEF log

\* Whatever signs the case marks the pages being made.
LEMMA ReattestJob ==
  ASSUME ShapeInv, Reattest
  PROVE  /\ job' \in [Procs -> Jobs] /\ vouch' = "reattested" /\ receipts' \in Seq(EntryShapes)
         /\ \A q \in Procs :
              /\ job'[q].op = job[q].op /\ job'[q].pc = job[q].pc /\ job'[q].doc = job[q].doc
              /\ job'[q].new = job[q].new /\ job'[q].at = job[q].at /\ job'[q].seen = job[q].seen
              /\ job'[q].paid = job[q].paid /\ job'[q].was = job[q].was
              /\ job'[q].resigned = Renders(q)
         /\ UNCHANGED <<spine, iris, so, paper, now, lost, loose, stray, mix>>
<1>1. job' = [q \in Procs |-> [job[q] EXCEPT !.resigned = Renders(q)]]
  BY DEF Reattest
<1>2. \A q \in Procs : Renders(q) \in BOOLEAN /\ job[q] \in Jobs
  BY DEF Renders, ShapeInv
<1>3. \A q \in Procs :
        /\ job'[q] \in Jobs
        /\ job'[q].op = job[q].op /\ job'[q].pc = job[q].pc /\ job'[q].doc = job[q].doc
        /\ job'[q].new = job[q].new /\ job'[q].at = job[q].at /\ job'[q].seen = job[q].seen
        /\ job'[q].paid = job[q].paid /\ job'[q].was = job[q].was
        /\ job'[q].resigned = Renders(q)
  <2> SUFFICES ASSUME NEW q \in Procs PROVE
        /\ job'[q] \in Jobs
        /\ job'[q].op = job[q].op /\ job'[q].pc = job[q].pc /\ job'[q].doc = job[q].doc
        /\ job'[q].new = job[q].new /\ job'[q].at = job[q].at /\ job'[q].seen = job[q].seen
        /\ job'[q].paid = job[q].paid /\ job'[q].was = job[q].was
        /\ job'[q].resigned = Renders(q)
    OBVIOUS
  <2>1. job'[q] = [job[q] EXCEPT !.resigned = Renders(q)] /\ Renders(q) \in BOOLEAN /\ job[q] \in Jobs
    BY <1>1, <1>2
  <2> HIDE DEF Renders
  <2> QED
    BY <2>1 DEF Jobs
<1>4. receipts' \in Seq(EntryShapes)
  BY Receipted DEF Reattest, ShapeInv
<1> QED
  BY <1>1, <1>3, <1>4 DEF Reattest, history

\* The steps of a deliverable that goes on: after its report, after its advisory, and when it
\* reads again.
LEMMA PageJob ==
  ASSUME ShapeInv, NEW p \in Procs, NEW override \in BOOLEAN, Page(p, override)
  PROVE  /\ job' \in [Procs -> Jobs] /\ \A q \in Procs \ {p} : job'[q] = job[q]
         /\ job[p].op \in {"report", "advisory", "so_advisory", "attach"}
         /\ \/ job'[p].op = "none" /\ job'[p].pc = "rest"
            \/ /\ job'[p].op = job[p].op /\ job'[p].pc \in {"next", "header"}
               /\ job'[p].doc = job[p].doc /\ job'[p].was = job[p].was
               /\ job'[p].resigned = job[p].resigned
         /\ UNCHANGED <<spine, receipts, vouch, iris, so, now, lost, loose, stray, spent, mix>>
<1> DEFINE pc == IF job[p].at = 0 THEN "next" ELSE "header"
<1>1. /\ job[p] \in Jobs /\ job \in [Procs -> Jobs] /\ pc \in {"next", "header"}
      /\ job[p].op \in {"report", "advisory", "so_advisory", "attach"}
  BY DEF ShapeInv, Page
<1>2. job' = [job EXCEPT ![p] = Rest] \/ job' = [job EXCEPT ![p] = [job[p] EXCEPT !.pc = pc]]
  BY <1>1, Zenon DEF Page
<1> HIDE DEF pc
<1>3. CASE job' = [job EXCEPT ![p] = Rest]
  BY <1>1, <1>3, Dropped DEF Page, history
<1>4. CASE job' = [job EXCEPT ![p] = [job[p] EXCEPT !.pc = pc]]
  BY <1>1, <1>4 DEF Page, Jobs, history
<1> QED
  BY <1>2, <1>3, <1>4

LEMMA RereadJob ==
  ASSUME ShapeInv, NEW p \in Procs, NEW failed \in BOOLEAN, Reread(p, failed)
  PROVE  /\ job' \in [Procs -> Jobs] /\ \A q \in Procs \ {p} : job'[q] = job[q]
         /\ job[p].op = "attach" /\ job'[p].op = "attach" /\ job'[p].pc = "read"
         /\ job'[p].was = VouchedBy(failed)
         /\ spent' \in [DOMAIN Bounds -> Nat]
         /\ UNCHANGED <<spine, receipts, vouch, iris, so, paper, now, lost, loose, stray, mix>>
<1>1. /\ job[p] \in Jobs /\ job \in [Procs -> Jobs] /\ job[p].op = "attach"
      /\ GetCase(failed) \in Docs /\ VouchedBy(failed) \in AllVerdicts \cup {"none", "rebuilt"}
  BY CopyShape DEF ShapeInv, Reread, At
<1>2. job' = [job EXCEPT ![p].pc = "read", ![p].at = 1, ![p].doc = GetCase(failed),
                         ![p].was = VouchedBy(failed), ![p].resigned = FALSE]
  BY DEF Reread
<1>3. /\ job' \in [Procs -> Jobs] /\ \A q \in Procs \ {p} : job'[q] = job[q]
      /\ job'[p].pc = "read" /\ job'[p].op = job[p].op
      /\ job'[p].was = VouchedBy(failed)
  BY <1>1, <1>2 DEF Jobs
<1>4. spent' \in [DOMAIN Bounds -> Nat]
  BY SpentOrNot DEF Reread, ShapeInv
<1> QED
  BY <1>1, <1>3, <1>4 DEF Reread, history

\* What people do to the rows of an IRIS case.
LEMMA ComposeRows ==
  ASSUME ShapeInv, NEW i \in DOMAIN iris, NEW kind \in {"iris_note", "iris_event"},
         NEW offset \in Offsets, Compose(i, kind, offset)
  PROVE  /\ now' = now + 1 /\ spent' \in [DOMAIN Bounds -> Nat]
         /\ iris' \in Seq(CaseShapes) /\ DOMAIN iris' = DOMAIN iris
         /\ \A j \in DOMAIN iris : iris'[j].open = iris[j].open /\ iris'[j].paid = iris[j].paid
         /\ \A j \in DOMAIN iris \ {i} : iris'[j] = iris[j]
         /\ iris[i].rows \in Seq(RowShapes)
         /\ \E row \in RowShapes :
              /\ row.by = "human" /\ row.id # 0
              /\ row.ts = now' + offset /\ (~ row.ahead => offset <= 0)
              /\ row.excused = Passed(row.ts)
              /\ iris'[i].rows = Append(iris[i].rows, row)
         /\ UNCHANGED <<spine, receipts, vouch, so, paper, job, lost, loose, stray, mix>>
<1> DEFINE excused == Passed(now' + offset)
           ahead == offset > 0
           id == spent'.posts
           ts == now' + offset
           row == [kind |-> kind, by |-> "human", tag |-> "none", id |-> id, ts |-> ts,
                   ahead |-> ahead, excused |-> excused]
<1>1. /\ now' = now + 1 /\ now \in Nat /\ offset \in Int /\ Spend({"posts"})
      /\ spent \in [DOMAIN Bounds -> Nat] /\ iris \in Seq(CaseShapes)
  BY PublishAssumption DEF Compose, ShapeInv
<1>2. spent' \in [DOMAIN Bounds -> Nat] /\ id = spent.posts + 1
  BY <1>1, Spent DEF Spend, Bounds
<1>3. id \in Nat \ {0}
  BY <1>1, <1>2 DEF Bounds
<1>4. ts \in Int /\ ahead \in BOOLEAN /\ (~ ahead => offset <= 0)
  BY <1>1
<1>5. excused \in BOOLEAN
  BY DEF Passed
<1>6. excused = Passed(ts) /\ ts = now' + offset
  OBVIOUS
<1>7. iris' = [iris EXCEPT ![i].rows = Append(@, row)]
  BY DEF Compose
<1>8. iris[i].rows \in Seq(RowShapes)
  <2>1. iris[i] \in CaseShapes
    BY <1>1
  <2> QED
    BY <2>1 DEF CaseShapes
<1> HIDE DEF excused, ahead, id, ts
<1>9. /\ row \in RowShapes /\ row.by = "human" /\ row.id = id /\ row.ts = ts /\ row.ahead = ahead
      /\ row.excused = excused
  BY <1>3, <1>4, <1>5 DEF RowShapes, Kinds, Tags
<1> HIDE DEF row
<1> DEFINE rows == Append(iris[i].rows, row)
<1>10. rows \in Seq(RowShapes) /\ iris' = [iris EXCEPT ![i].rows = rows]
  BY <1>7, <1>8, <1>9
<1> HIDE DEF rows
<1>11. /\ iris' \in Seq(CaseShapes) /\ DOMAIN iris' = DOMAIN iris /\ iris'[i].rows = rows
       /\ \A j \in DOMAIN iris : iris'[j].open = iris[j].open /\ iris'[j].paid = iris[j].paid
       /\ \A j \in DOMAIN iris \ {i} : iris'[j] = iris[j]
  BY <1>1, <1>10, Rewritten
<1>12. row \in RowShapes /\ row.by = "human" /\ row.id # 0
       /\ row.ts = now' + offset /\ (~ row.ahead => offset <= 0)
       /\ row.excused = Passed(row.ts) /\ iris'[i].rows = Append(iris[i].rows, row)
  BY <1>3, <1>4, <1>6, <1>9, <1>11 DEF rows
<1> QED
  BY <1>1, <1>2, <1>8, <1>11, <1>12 DEF Compose, history

LEMMA EditRows ==
  ASSUME ShapeInv, NEW i \in DOMAIN iris, NEW n \in DOMAIN iris[i].rows, Edit(i, n)
  PROVE  /\ now' = now + 1 /\ spent' \in [DOMAIN Bounds -> Nat]
         /\ iris' \in Seq(CaseShapes) /\ DOMAIN iris' = DOMAIN iris
         /\ \A j \in DOMAIN iris : iris'[j].open = iris[j].open /\ iris'[j].paid = iris[j].paid
         /\ \A j \in DOMAIN iris \ {i} : iris'[j] = iris[j]
         /\ iris[i].rows \in Seq(RowShapes) /\ iris[i].rows[n].by = "human"
         /\ \E row \in RowShapes :
              /\ row.by = "human" /\ row.id = iris[i].rows[n].id
              /\ row.ts = now' /\ row.excused = Passed(row.ts)
              /\ iris'[i].rows = [iris[i].rows EXCEPT ![n] = row]
         /\ UNCHANGED <<spine, receipts, vouch, so, paper, job, lost, loose, stray, mix>>
<1> DEFINE excused == Passed(now')
           old == iris[i].rows[n]
           ts == now'
           row == [old EXCEPT !.ts = ts, !.excused = excused]
           rows == [iris[i].rows EXCEPT ![n] = row]
<1>1. /\ now' = now + 1 /\ now \in Nat /\ Spend({"posts"}) /\ old.by = "human"
      /\ spent \in [DOMAIN Bounds -> Nat] /\ iris \in Seq(CaseShapes)
  BY DEF Edit, ShapeInv
<1>2. spent' \in [DOMAIN Bounds -> Nat]
  BY <1>1, Spent
<1>3. iris' = [iris EXCEPT ![i].rows[n] = row]
  BY DEF Edit
<1>4. excused \in BOOLEAN /\ excused = Passed(now') /\ ts = now' /\ ts \in Int
  BY <1>1 DEF Passed
<1>5. iris[i] \in CaseShapes /\ iris[i].rows \in Seq(RowShapes)
  <2>1. iris[i] \in CaseShapes
    BY <1>1
  <2> QED
    BY <2>1 DEF CaseShapes
<1>6. old \in RowShapes
  BY <1>5
<1>7. iris' = [iris EXCEPT ![i].rows = rows]
  BY <1>3
<1> HIDE DEF old, ts, excused
<1>8. row \in RowShapes /\ row.by = "human" /\ row.id = old.id /\ row.ts = ts /\ row.excused = excused
  BY <1>1, <1>4, <1>6 DEF RowShapes
<1> HIDE DEF row
<1>9. rows \in Seq(RowShapes)
  BY <1>5, <1>8
<1> HIDE DEF rows
<1>10. /\ iris' \in Seq(CaseShapes) /\ DOMAIN iris' = DOMAIN iris /\ iris'[i].rows = rows
       /\ \A j \in DOMAIN iris : iris'[j].open = iris[j].open /\ iris'[j].paid = iris[j].paid
       /\ \A j \in DOMAIN iris \ {i} : iris'[j] = iris[j]
  BY <1>1, <1>7, <1>9, Rewritten
<1>11. row \in RowShapes /\ row.by = "human" /\ row.id = iris[i].rows[n].id /\ row.ts = now'
       /\ row.excused = Passed(row.ts) /\ iris'[i].rows = [iris[i].rows EXCEPT ![n] = row]
  BY <1>4, <1>8, <1>10 DEF rows, old
<1> QED
  BY <1>1, <1>2, <1>5, <1>10, <1>11 DEF Edit, old, history

LEMMA ClosedRows ==
  ASSUME ShapeInv, NEW i \in DOMAIN iris, CloseInIris(i)
  PROVE  /\ iris' \in Seq(CaseShapes) /\ DOMAIN iris' = DOMAIN iris /\ spent' \in [DOMAIN Bounds -> Nat]
         /\ \A j \in DOMAIN iris : iris'[j].rows = iris[j].rows /\ iris'[j].paid = iris[j].paid
         /\ \A j \in DOMAIN iris \ {i} : iris'[j] = iris[j]
         /\ ~ iris'[i].open
         /\ UNCHANGED <<spine, receipts, vouch, so, paper, job, now, lost, loose, stray, mix>>
<1> DEFINE case == [iris[i] EXCEPT !.open = FALSE]
<1>1. iris \in Seq(CaseShapes) /\ iris[i] \in CaseShapes /\ spent' \in [DOMAIN Bounds -> Nat]
  BY Spent DEF ShapeInv, CloseInIris
<1>2. case \in CaseShapes /\ case.rows = iris[i].rows /\ case.paid = iris[i].paid /\ ~ case.open
  BY <1>1 DEF CaseShapes
<1>3. iris' = [iris EXCEPT ![i] = case]
  BY DEF CloseInIris
<1> HIDE DEF case
<1>4. /\ iris' \in Seq(CaseShapes) /\ DOMAIN iris' = DOMAIN iris /\ iris'[i] = case
      /\ \A j \in DOMAIN iris \ {i} : iris'[j] = iris[j]
  BY <1>1, <1>2, <1>3
<1>5. UNCHANGED <<spine, receipts, vouch, so, paper, job, now, lost, loose, stray, mix>>
  BY DEF CloseInIris, history
<1> QED
  BY <1>1, <1>2, <1>4, <1>5

\* The steps that end an operation and write neither the case nor IRIS.
Ends(p) ==
  \/ Die(p)
  \/ Published(p)
  \/ NothingToFetch(p)
  \/ \E bad \in -1..Len(job[p].doc.log) : SoWrite(p, bad)
  \/ Compile(p)
  \/ SoReport(p)
  \/ \E failed \in BOOLEAN : Attach(p, failed)

LEMMA EndsJob ==
  ASSUME ShapeInv, NEW p \in Procs, Ends(p)
  PROVE  /\ job' \in [Procs -> Jobs] /\ job'[p].op = "none" /\ job'[p].pc = "rest"
         /\ \A q \in Procs \ {p} : job'[q] = job[q]
         /\ spent' \in [DOMAIN Bounds -> Nat]
         /\ UNCHANGED <<spine, receipts, vouch, iris, now, lost, loose, mix>>
<1>1. spent \in [DOMAIN Bounds -> Nat] /\ job \in [Procs -> Jobs]
  BY DEF ShapeInv
<1>2. job' = [job EXCEPT ![p] = Rest] /\ UNCHANGED <<spine, receipts, vouch, iris, now, lost, loose, mix>>
  BY DEF Ends, Die, Published, NothingToFetch, SoWrite, Compile, SoReport, Attach, history
<1>3. Spend({"faults"}) \/ UNCHANGED spent
  BY DEF Ends, Die, Published, NothingToFetch, SoWrite, Compile, SoReport, Attach
<1>4. spent' \in [DOMAIN Bounds -> Nat]
  BY <1>1, <1>3, SpentOrNot
<1> QED
  BY <1>1, <1>2, <1>4, Dropped

\* The actions, grouped by what they touch.
LEMMA Steps ==
  ASSUME Next
  PROVE  \/ \E p \in Procs :
              \/ \E op \in AllOps, failed \in BOOLEAN : Begin(p, op, failed)
              \/ \E list \in Writes : Mutate(p, list)
              \/ Ends(p)
              \/ \E i \in 0..Len(iris) : Find(p, i)
              \/ Create(p)
              \/ \E blind \in BOOLEAN : Furnish(p, blind)
              \/ \E blind, failed \in BOOLEAN : ReadTags(p, blind, failed)
              \/ \E k \in DOMAIN job[p].doc.log, outcome \in {"posted", "refused", "unanswered"} :
                   Post(p, k, outcome)
              \/ \E i \in DOMAIN iris : \E unread \in SUBSET {"iris_note", "iris_event"} :
                   Fetch(p, i, unread)
              \/ SyncWrite(p)
              \/ \E override \in BOOLEAN : Page(p, override)
              \/ \E failed \in BOOLEAN : Reread(p, failed)
         \/ Tamper
         \/ Reattest
         \/ \E i \in DOMAIN iris, kind \in {"iris_note", "iris_event"}, offset \in Offsets :
              Compose(i, kind, offset)
         \/ \E i \in DOMAIN iris : \E n \in DOMAIN iris[i].rows : Edit(i, n)
         \/ \E i \in DOMAIN iris : CloseInIris(i)
BY Zenon DEF Next, IrisNext, SyncNext, RenderNext, PeopleNext, Ends

\* A run of the publisher keeps its IRIS case, and one that brings back what it fetched.
LEMMA PlacedStays ==
  ASSUME ShapeInv, NEW p, DOMAIN iris \subseteq DOMAIN iris',
         \A q \in Procs \ {p} :
           job'[q].op = job[q].op /\ job'[q].pc = job[q].pc /\ job'[q].at = job[q].at
             /\ job'[q].new = job[q].new,
         p \in Procs /\ job'[p].op = "sync" /\ job'[p].pc = "write" => job'[p].new # {},
         p \in Procs /\ job'[p].op = "iris" /\ job'[p].pc \in {"note", "tags", "post"}
           => job'[p].at \in DOMAIN iris'
  PROVE  \A q \in Procs : Placed(q)'
BY DEF Placed, ShapeInv, Fetched, At

LEMMA ShapeStep == ShapeInv /\ [Next]_vars => ShapeInv'
<1> SUFFICES ASSUME ShapeInv, [Next]_vars PROVE ShapeInv'
  OBVIOUS
<1> USE DEF ShapeInv
<1>0. iris \in Seq(CaseShapes) /\ spent \in [DOMAIN Bounds -> Nat] /\ now \in Nat \ {0}
  OBVIOUS
<1>1. ASSUME NEW p \in Procs, NEW op \in AllOps, NEW failed \in BOOLEAN, Begin(p, op, failed) PROVE ShapeInv'
  <2>1. /\ \A q \in Procs \ {p} :
             job'[q].op = job[q].op /\ job'[q].pc = job[q].pc /\ job'[q].at = job[q].at
               /\ job'[q].new = job[q].new
        /\ job'[p].pc = "read" /\ iris' = iris
    BY <1>1, BeginJob
  <2>2. \A q \in Procs : Placed(q)'
    BY <2>1, PlacedStays
  <2> QED
    BY <1>1, <2>2, BeginJob
<1>2. ASSUME NEW p \in Procs, NEW doc \in Docs, Write(p, doc), doc.log # <<>>,
             now' \in Nat \ {0}, UNCHANGED <<iris, spent>>
      PROVE  ShapeInv'
  <2>1. /\ job' \in [Procs -> Jobs] /\ job'[p].op = "none" /\ spine' \in Docs /\ vouch' = "write"
        /\ \A q \in Procs \ {p} :
             job'[q].op = job[q].op /\ job'[q].pc = job[q].pc /\ job'[q].at = job[q].at
               /\ job'[q].new = job[q].new
    BY <1>2, Signed
  <2>2. \A q \in Procs : Placed(q)'
    BY <1>2, <2>1, PlacedStays
  <2>3. receipts' \in Seq(EntryShapes)
    BY <1>2, Receipted DEF Write
  <2> QED
    BY <1>2, <2>1, <2>2, <2>3 DEF AllVerdicts
<1>3. ASSUME NEW p \in Procs, NEW list \in Writes, Mutate(p, list) PROVE ShapeInv'
  BY <1>2, <1>3, MutateJob
<1>4. ASSUME NEW p \in Procs, SyncWrite(p) PROVE ShapeInv'
  <2>1. PICK list \in ByDate(job[p].new) :
          /\ Synced(p, list) \in Docs
          /\ Write(p, Synced(p, list)) /\ Synced(p, list).log # <<>>
    BY <1>4, SyncWriteJob
  <2>2. now' \in Nat \ {0} /\ UNCHANGED <<iris, spent>>
    BY <1>0, <1>4, SyncWriteJob
  <2> QED
    BY <1>2, <2>1, <2>2
<1>5. ASSUME NEW p \in Procs, job' \in [Procs -> Jobs], \A q \in Procs \ {p} : job'[q] = job[q],
             job'[p].op # "iris", iris' \in Seq(CaseShapes), DOMAIN iris' = DOMAIN iris,
             job'[p].op = "sync" /\ job'[p].pc = "write" => job'[p].new # {},
             spent' \in [DOMAIN Bounds -> Nat], UNCHANGED <<spine, receipts, vouch, now>>
      PROVE  ShapeInv'
  BY <1>5, PlacedStays
<1>6. ASSUME NEW p \in Procs, Ends(p) PROVE ShapeInv'
  BY <1>5, <1>6, EndsJob
<1>7. ASSUME NEW p \in Procs, NEW i \in 0..Len(iris), Find(p, i) PROVE ShapeInv'
  <2>1. spent' \in [DOMAIN Bounds -> Nat]
    BY <1>7, SpentOrNot DEF Find
  <2>2. \A q \in Procs : Placed(q)'
    BY <1>0, <1>7, FindJob, PlacedStays DEF OpenCases
  <2> QED
    BY <1>7, <2>1, <2>2, FindJob
<1>8. ASSUME NEW p \in Procs, Create(p) PROVE ShapeInv'
  <2>1. spent' = spent
    BY <1>8 DEF Create
  <2>2. DOMAIN iris \subseteq DOMAIN iris' /\ Len(iris) + 1 \in DOMAIN iris'
    BY <1>0, <1>8, CreateJob
  <2>3. \A q \in Procs : Placed(q)'
    <3>1. /\ \A q \in Procs \ {p} : job'[q] = job[q]
          /\ job'[p].pc = "note" /\ job'[p].at = Len(iris) + 1
      BY <1>8, CreateJob
    <3> QED
      BY <2>2, <3>1, PlacedStays
  <2> QED
    BY <1>8, <2>1, <2>3, CreateJob
<1>9. ASSUME NEW p \in Procs, NEW blind \in BOOLEAN, Furnish(p, blind) PROVE ShapeInv'
  <2>1. spent' \in [DOMAIN Bounds -> Nat]
    BY <1>9, SpentOrNot DEF Furnish
  <2>2. \A q \in Procs : Placed(q)'
    BY <1>9, FurnishJob, PlacedStays, ZenonT(40)
  <2> QED
    BY <1>9, <2>1, <2>2, FurnishJob
<1>10. ASSUME NEW p \in Procs, NEW blind \in BOOLEAN, NEW failed \in BOOLEAN, ReadTags(p, blind, failed) PROVE ShapeInv'
  <2>1. spent' \in [DOMAIN Bounds -> Nat]
    BY <1>10, SpentOrNot DEF ReadTags
  <2>2. \A q \in Procs : Placed(q)'
    BY <1>10, ReadTagsJob, PlacedStays
  <2> QED
    BY <1>10, <2>1, <2>2, ReadTagsJob
<1>11. ASSUME NEW p \in Procs, NEW k \in DOMAIN job[p].doc.log,
              NEW outcome \in {"posted", "refused", "unanswered"}, Post(p, k, outcome)
       PROVE  ShapeInv'
  <2>1. spent' \in [DOMAIN Bounds -> Nat]
    BY <1>11, SpentOrNot DEF Post
  <2>2. DOMAIN iris' = DOMAIN iris
    BY <1>11, PostJob DEF Posted
  <2>3. \A q \in Procs : Placed(q)'
    <3>1. /\ \A q \in Procs \ {p} : job'[q] = job[q]
          /\ job'[p].at = job[p].at /\ job[p].at \in DOMAIN iris /\ job'[p].pc = "post"
      BY <1>11, PostJob
    <3> QED
      BY <2>2, <3>1, PlacedStays
  <2> QED
    BY <1>11, <2>1, <2>3, PostJob
<1>12. ASSUME NEW p \in Procs, NEW i \in DOMAIN iris,
              NEW unread \in SUBSET {"iris_note", "iris_event"}, Fetch(p, i, unread)
       PROVE  ShapeInv'
  <2>1. spent' \in [DOMAIN Bounds -> Nat]
    BY <1>12, SpentOrNot DEF Fetch
  <2> DEFINE new == Newer(p, HumanActivity(i, unread))
  <2>3. /\ job' \in [Procs -> Jobs] /\ \A q \in Procs \ {p} : job'[q] = job[q]
        /\ job'[p].op = "none" \/ (job'[p].op = "sync" /\ job'[p].new = {Human(r) : r \in new} /\ new # {})
        /\ iris' \in Seq(CaseShapes) /\ DOMAIN iris' = DOMAIN iris
        /\ UNCHANGED <<spine, receipts, vouch, now>>
    BY <1>12, FetchJob, Zenon
  <2>4. new # {} => {Human(r) : r \in new} # {}
    OBVIOUS
  <2>2. /\ job' \in [Procs -> Jobs] /\ \A q \in Procs \ {p} : job'[q] = job[q]
        /\ job'[p].op \in {"none", "sync"}
        /\ job'[p].op = "sync" => job'[p].new # {}
        /\ iris' \in Seq(CaseShapes) /\ DOMAIN iris' = DOMAIN iris
        /\ UNCHANGED <<spine, receipts, vouch, now>>
    BY <2>3, <2>4
  <2> QED
    BY <1>5, <2>1, <2>2
<1>13. ASSUME NEW p \in Procs, NEW override \in BOOLEAN, Page(p, override) PROVE ShapeInv'
  BY <1>0, <1>5, <1>13, PageJob
<1>14. ASSUME NEW p \in Procs, NEW failed \in BOOLEAN, Reread(p, failed) PROVE ShapeInv'
  BY <1>0, <1>5, <1>14, RereadJob
<1>15. CASE Tamper
  BY <1>15, Spent DEF Tamper, AllVerdicts, Placed, Fetched, At
<1>16. CASE Reattest
  <2>1. spent' \in [DOMAIN Bounds -> Nat]
    BY <1>16, Spent DEF Reattest
  <2> QED
    BY <1>16, <2>1, ReattestJob DEF AllVerdicts, Placed, Fetched, At
<1>17. ASSUME NEW i \in DOMAIN iris, NEW kind \in {"iris_note", "iris_event"}, NEW offset \in Offsets,
              Compose(i, kind, offset)
       PROVE  ShapeInv'
  <2>1. /\ iris' \in Seq(CaseShapes) /\ DOMAIN iris' = DOMAIN iris /\ now' = now + 1
        /\ spent' \in [DOMAIN Bounds -> Nat] /\ UNCHANGED <<spine, receipts, vouch, job>>
    BY <1>17, ComposeRows
  <2>2. \A q \in Procs : Placed(q)'
    BY <2>1 DEF Placed, Fetched, At
  <2> QED
    BY <1>0, <2>1, <2>2
<1>18. ASSUME NEW i \in DOMAIN iris, NEW n \in DOMAIN iris[i].rows, Edit(i, n) PROVE ShapeInv'
  <2>1. /\ iris' \in Seq(CaseShapes) /\ DOMAIN iris' = DOMAIN iris /\ now' = now + 1
        /\ spent' \in [DOMAIN Bounds -> Nat] /\ UNCHANGED <<spine, receipts, vouch, job>>
    BY <1>18, EditRows
  <2>2. \A q \in Procs : Placed(q)'
    BY <2>1 DEF Placed, Fetched, At
  <2> QED
    BY <1>0, <2>1, <2>2
<1>19. ASSUME NEW i \in DOMAIN iris, CloseInIris(i) PROVE ShapeInv'
  BY <1>19, ClosedRows DEF Placed, Fetched, At
<1>20. CASE UNCHANGED vars
  BY <1>20 DEF vars, Placed, Fetched, At
<1> HIDE DEF ShapeInv
<1> QED
  BY <1>1, <1>3, <1>4, <1>6, <1>7, <1>8, <1>9, <1>10, <1>11, <1>12, <1>13, <1>14, <1>15, <1>16,
     <1>17, <1>18, <1>19, <1>20, Steps

\* The case, the IRIS cases and the runs of the publishers keep their shape, and a
\* publisher past its lookup has an IRIS case to write to.
THEOREM Shaped == Spec => []ShapeInv
<1>1. ShapeInv /\ [Next]_vars => ShapeInv'
  BY ShapeStep
<1> QED
  BY <1>1, ShapeInit, PTL DEF Spec

----------------------------------------------------------------------------
\* The gate.

\* While the case is vouched for, a deliverable being made read it so, or it has been signed
\* since, or its reading had failed.
Vouched(p) ==
  job[p].op \in {"report", "advisory", "attach"} /\ vouch \in Attested =>
    job[p].was \in Attested \/ job[p].resigned \/ job[p].was = "rebuilt"

GateInv == GateHolds /\ \A p \in Procs : Vouched(p)

\* A step that prints nothing of the kind, and takes no deliverable's reading away.
LEMMA GateStays ==
  ASSUME GateInv, vouch' = vouch, NEW p,
         \A q \in Procs \ {p} :
           job'[q].op = job[q].op /\ job'[q].was = job[q].was /\ job'[q].resigned = job[q].resigned,
         p \in Procs => Vouched(p)',
         paper' = paper \/ paper'.page # "page"
  PROVE  GateInv'
BY DEF GateInv, Vouched, GateHolds

LEMMA GateStep == ShapeInv /\ GateInv /\ [Next]_vars => GateInv'
<1> SUFFICES ASSUME ShapeInv, GateInv, [Next]_vars PROVE GateInv'
  OBVIOUS
<1>1. ASSUME NEW p \in Procs, NEW op \in AllOps, NEW failed \in BOOLEAN, Begin(p, op, failed) PROVE GateInv'
  <2>1. Vouched(p)'
    BY <1>1, BeginJob, CopyShape DEF Vouched
  <2> QED
    BY <1>1, <2>1, BeginJob, GateStays
<1>2. ASSUME NEW p \in Procs, NEW doc \in Docs, Write(p, doc), UNCHANGED paper PROVE GateInv'
  <2>1. ASSUME NEW q \in Procs PROVE Vouched(q)'
    <3> SUFFICES ASSUME job'[q].op \in {"report", "advisory", "attach"} PROVE job'[q].resigned
      BY DEF Vouched
    <3>1. job'[q].op = job[q].op /\ job'[q].resigned = Renders(q)
      BY <1>2, Signed
    <3>2. Renders(q)
      BY <3>1 DEF Renders
    <3> QED
      BY <3>1, <3>2
  <2> QED
    BY <1>2, <2>1 DEF GateInv, GateHolds
<1>3. ASSUME NEW p \in Procs, NEW list \in Writes, Mutate(p, list) PROVE GateInv'
  BY <1>2, <1>3, MutateJob
<1>4. ASSUME NEW p \in Procs, SyncWrite(p) PROVE GateInv'
  <2>1. PICK list \in ByDate(job[p].new) :
          /\ Synced(p, list) \in Docs
          /\ Write(p, Synced(p, list))
    BY <1>4, SyncWriteJob
  <2>2. UNCHANGED paper
    BY <1>4, SyncWriteJob
  <2> QED
    BY <1>2, <2>1, <2>2
<1>5. ASSUME NEW p \in Procs, \A q \in Procs \ {p} : job'[q] = job[q],
             job'[p].op \notin {"report", "advisory", "attach"},
             vouch' = vouch, paper' = paper \/ paper'.page # "page"
      PROVE  GateInv'
  <2>1. Vouched(p)'
    BY <1>5 DEF Vouched
  <2> QED
    BY <1>5, <2>1, GateStays
<1>6. ASSUME NEW p \in Procs, Ends(p) PROVE GateInv'
  <2>1. paper' = paper \/ paper'.page # "page"
    <3>1. CASE Die(p) \/ Published(p) \/ NothingToFetch(p)
      BY <3>1 DEF Die, Published, NothingToFetch
    <3>2. ASSUME NEW bad \in -1..Len(job[p].doc.log), SoWrite(p, bad) PROVE paper'.page # "page"
      BY <3>2 DEF SoWrite, Printed
    <3>3. CASE Compile(p)
      BY <3>3 DEF Compile, Printed
    <3>4. CASE SoReport(p)
      BY <3>4 DEF SoReport, Printed
    <3>5. ASSUME NEW failed \in BOOLEAN, Attach(p, failed) PROVE paper'.page # "page"
      BY <3>5 DEF Attach, Printed
    <3> QED
      BY <1>6, <3>1, <3>2, <3>3, <3>4, <3>5 DEF Ends
  <2> QED
    BY <1>5, <1>6, <2>1, EndsJob
<1>7. ASSUME NEW p \in Procs, NEW i \in 0..Len(iris), Find(p, i) PROVE GateInv'
  BY <1>5, <1>7, FindJob
<1>8. ASSUME NEW p \in Procs, Create(p) PROVE GateInv'
  BY <1>5, <1>8, CreateJob
<1>9. ASSUME NEW p \in Procs, NEW blind \in BOOLEAN, Furnish(p, blind) PROVE GateInv'
  <2>1. paper'.page # "page"
    BY <1>9 DEF Furnish, Printed
  <2> QED
    BY <1>5, <1>9, <2>1, FurnishJob
<1>10. ASSUME NEW p \in Procs, NEW blind \in BOOLEAN, NEW failed \in BOOLEAN, ReadTags(p, blind, failed) PROVE GateInv'
  BY <1>5, <1>10, ReadTagsJob
<1>11. ASSUME NEW p \in Procs, NEW k \in DOMAIN job[p].doc.log,
              NEW outcome \in {"posted", "refused", "unanswered"}, Post(p, k, outcome)
       PROVE  GateInv'
  <2>1. paper'.page # "page"
    BY <1>11 DEF Post, Printed
  <2>2. job'[p].op = "iris" /\ vouch' = vouch /\ \A q \in Procs \ {p} : job'[q] = job[q]
    BY <1>11, PostJob
  <2> QED
    BY <1>5, <2>1, <2>2
<1>12. ASSUME NEW p \in Procs, NEW i \in DOMAIN iris,
              NEW unread \in SUBSET {"iris_note", "iris_event"}, Fetch(p, i, unread)
       PROVE  GateInv'
  <2>1. /\ job'[p].op \in {"none", "sync"} /\ vouch' = vouch /\ paper' = paper
        /\ \A q \in Procs \ {p} : job'[q] = job[q]
    BY <1>12, FetchJob
  <2> QED
    BY <1>5, <2>1
<1>13. ASSUME NEW p \in Procs, NEW override \in BOOLEAN, Page(p, override) PROVE GateInv'
  <2>1. Vouched(p)' /\ \A q \in Procs : Vouched(q)
    BY <1>13, PageJob DEF Vouched, GateInv
  <2>2. \A q \in Procs : Vouched(q)'
    BY <1>13, <2>1, PageJob DEF Vouched
  <2>3. GateHolds'
    <3>1. CASE UNCHANGED paper
      BY <3>1 DEF GateInv, GateHolds
    <3>2. CASE job[p].op = "so_advisory" /\ paper'.op = job[p].op
      BY <3>2 DEF GateHolds
    <3>3. CASE paper'.page = "override"
      BY <3>3 DEF GateHolds
    <3>4. CASE /\ vouch \in Attested /\ job[p].op \in {"report", "advisory", "attach"}
               /\ paper' = Printed(p, "page", vouch)
      <4>1. paper'.was = job[p].was /\ paper'.resigned = job[p].resigned /\ paper'.label = vouch
        BY <3>4 DEF Printed
      <4> QED
        BY <2>1, <3>4, <4>1 DEF GateHolds, Vouched
    <3> QED
      BY <1>13, <3>1, <3>2, <3>3, <3>4 DEF Page, Gated, Passes, Printed
  <2> QED
    BY <2>2, <2>3 DEF GateInv
<1>14. ASSUME NEW p \in Procs, NEW failed \in BOOLEAN, Reread(p, failed) PROVE GateInv'
  <2>1. Vouched(p)'
    BY <1>14, RereadJob, CopyShape DEF Vouched
  <2> QED
    BY <1>14, <2>1, RereadJob, GateStays
<1>15. CASE Tamper
  BY <1>15 DEF Tamper, GateInv, GateHolds, Vouched, Attested
<1>16. CASE Reattest
  <2>1. ASSUME NEW q \in Procs PROVE Vouched(q)'
    <3> SUFFICES ASSUME job'[q].op \in {"report", "advisory", "attach"} PROVE job'[q].resigned
      BY DEF Vouched
    <3>1. job'[q].op = job[q].op /\ job'[q].resigned = Renders(q)
      BY <1>16, ReattestJob
    <3>2. Renders(q)
      BY <3>1 DEF Renders
    <3> QED
      BY <3>1, <3>2
  <2> QED
    BY <1>16, <2>1, ReattestJob DEF GateInv, GateHolds
<1>17. ASSUME UNCHANGED <<vouch, paper, job>> PROVE GateInv'
  BY <1>17 DEF GateInv, GateHolds, Vouched
<1>18. ASSUME NEW i \in DOMAIN iris, NEW kind \in {"iris_note", "iris_event"}, NEW offset \in Offsets,
              Compose(i, kind, offset)
       PROVE  GateInv'
  BY <1>17, <1>18 DEF Compose
<1>19. ASSUME NEW i \in DOMAIN iris, NEW n \in DOMAIN iris[i].rows, Edit(i, n) PROVE GateInv'
  BY <1>17, <1>19 DEF Edit
<1>20. ASSUME NEW i \in DOMAIN iris, CloseInIris(i) PROVE GateInv'
  BY <1>17, <1>20 DEF CloseInIris
<1>21. CASE UNCHANGED vars
  BY <1>17, <1>21 DEF vars
<1> QED
  BY <1>1, <1>3, <1>4, <1>6, <1>7, <1>8, <1>9, <1>10, <1>11, <1>12, <1>13, <1>14, <1>15, <1>16,
     <1>18, <1>19, <1>20, <1>21, Steps

\* A page printed as attested was vouched for when its content was read, or the case was
\* signed between the reading and the verdict, or the reading had failed and what is printed
\* is what the receipts tell: render_case_report and render_advisory read first, by get_case,
\* and ask later, of the point.
THEOREM GateIsKept == Spec => []GateHolds
<1>1. Init => GateInv
  BY RestShape DEF Init, GateInv, GateHolds, Vouched
<1>2. ShapeInv /\ GateInv /\ [Next]_vars => GateInv'
  BY GateStep
<1>3. GateInv => GateHolds
  BY DEF GateInv
<1> QED
  BY <1>1, <1>2, <1>3, Shaped, PTL DEF Spec

----------------------------------------------------------------------------
\* Security Onion.

\* Operations that write out what they read, in the case or in Security Onion, where what
\* they read was the case.
Holds(p) == job[p].op \in {"mutate", "sync", "so"} /\ job[p].was # "rebuilt"

Prefix(log) == Len(log) <= Len(spine.log) /\ \A n \in 1..Len(log) : log[n] = spine.log[n]

ShownInv ==
  /\ DOMAIN so \subseteq Nat
  /\ SoShowsTheTimeline
  /\ lost \/ \A p \in Procs : Holds(p) => Prefix(job[p].doc.log)

\* A step that leaves the case and Security Onion alone, and gives nobody another copy.
LEMMA ShownStays ==
  ASSUME ShownInv, UNCHANGED <<spine, so, lost, stray>>,
         \A q \in Procs : Holds(q)' => Prefix(job[q].doc.log)' \/ (Holds(q) /\ job'[q].doc = job[q].doc)
  PROVE  ShownInv'
<1>1. DOMAIN so' \subseteq Nat /\ SoShowsTheTimeline'
  BY DEF ShownInv, SoShowsTheTimeline
<1>2. ASSUME ~ lost', NEW q \in Procs, Holds(q)' PROVE Prefix(job[q].doc.log)'
  <2>1. Holds(q) => Prefix(job[q].doc.log)
    BY <1>2 DEF ShownInv
  <2>2. Holds(q) /\ job'[q].doc = job[q].doc => Prefix(job[q].doc.log)'
    BY <2>1 DEF Prefix
  <2> QED
    BY <1>2, <2>2
<1> QED
  BY <1>1, <1>2 DEF ShownInv

\* A write whose log carries on the copy it was made from.
LEMMA ShownWrite ==
  ASSUME ShapeInv, ShownInv, NEW p \in Procs, NEW doc \in Docs, Write(p, doc), UNCHANGED <<so, stray>>,
         job[p].doc \in Docs, Len(job[p].doc.log) <= Len(doc.log),
         \A n \in 1..Len(job[p].doc.log) : doc.log[n] = job[p].doc.log[n]
  PROVE  ShownInv'
<1> SUFFICES ASSUME ~ lost' PROVE ShownInv'
  BY DEF ShownInv, SoShowsTheTimeline
<1>1. ~ lost /\ job[p].doc.log = spine.log /\ spine' = doc /\ spine \in Docs
  BY Signed DEF ShapeInv
<1>2. Len(spine.log) <= Len(spine'.log) /\ \A n \in 1..Len(spine.log) : spine'.log[n] = spine.log[n]
  BY <1>1
<1>3. Len(spine.log) \in Nat /\ Len(spine'.log) \in Nat
  BY <1>1 DEF Docs
<1>4. SoShowsTheTimeline'
  <2> SUFFICES ASSUME NEW n \in DOMAIN so \ stray
               PROVE  n <= Len(spine'.log) /\ so[n] = (IF n = 0 THEN Entry("case") ELSE spine'.log[n])
    BY DEF SoShowsTheTimeline
  <2>1. n \in Nat /\ n <= Len(spine.log) /\ so[n] = (IF n = 0 THEN Entry("case") ELSE spine.log[n])
    BY <1>1 DEF ShownInv, SoShowsTheTimeline
  <2> QED
    BY <1>2, <1>3, <2>1
<1>5. ASSUME NEW q \in Procs, Holds(q)' PROVE Prefix(job[q].doc.log)'
  <2>1. q # p /\ job'[q].op = job[q].op /\ job'[q].doc = job[q].doc /\ job'[q].was = job[q].was
    <3>1. job'[p].op = "none"
      BY Signed
    <3>2. q # p
      BY <1>5, <3>1 DEF Holds
    <3> QED
      BY <3>2, Signed
  <2>2. Prefix(job[q].doc.log)
    BY <1>1, <1>5, <2>1 DEF Holds, ShownInv
  <2>3. job[q].doc.log \in Seq(EntryShapes)
    <3>1. job[q] \in Jobs
      BY DEF ShapeInv
    <3> QED
      BY <3>1 DEF Jobs, Docs
  <2>4. Len(job[q].doc.log) \in Nat
    BY <2>3
  <2> QED
    BY <1>2, <1>3, <2>1, <2>2, <2>4 DEF Prefix
<1> QED
  BY <1>4, <1>5 DEF ShownInv

LEMMA ShownCarriesOn ==
  ASSUME ShapeInv, ShownInv, NEW p \in Procs, NEW doc \in Docs, Write(p, doc), UNCHANGED <<so, stray>>,
         job[p].doc \in Docs, NEW list \in Seq(EntryShapes), doc.log = job[p].doc.log \o list
  PROVE  ShownInv'
<1>1. job[p].doc.log \in Seq(EntryShapes)
  BY DEF Docs
<1>2. /\ Len(job[p].doc.log) <= Len(doc.log)
      /\ \A n \in 1..Len(job[p].doc.log) : doc.log[n] = job[p].doc.log[n]
  BY <1>1
<1> QED
  BY <1>2, ShownWrite

LEMMA ShownBulk ==
  ASSUME ShapeInv, ShownInv, NEW p \in Procs, NEW bad \in -1..Len(job[p].doc.log), SoWrite(p, bad)
  PROVE  ShownInv'
<1> DEFINE ops == Operations(job[p].doc)
           written == DOMAIN ops \ {bad}
<1>0. stray' = (stray \ written) \cup (IF job[p].was = "rebuilt" THEN written ELSE {}) /\ job[p].op = "so"
  BY DEF SoWrite, At
<1>1. so' = [n \in DOMAIN so \cup written |-> IF n \in written THEN ops[n] ELSE so[n]]
  BY DEF SoWrite
<1>2. /\ job' \in [Procs -> Jobs] /\ job'[p].op = "none" /\ \A q \in Procs \ {p} : job'[q] = job[q]
      /\ UNCHANGED <<spine, lost>>
  BY EndsJob DEF Ends
<1>3. job[p].doc.log \in Seq(EntryShapes) /\ Len(job[p].doc.log) \in Nat /\ spine.log \in Seq(EntryShapes)
  <2>1. job[p] \in Jobs /\ spine \in Docs
    BY DEF ShapeInv
  <2> QED
    BY <2>1 DEF Jobs, Docs
<1>4. DOMAIN ops = 0..Len(job[p].doc.log)
      /\ \A n \in DOMAIN ops : ops[n] = (IF n = 0 THEN Entry("case") ELSE job[p].doc.log[n])
  BY DEF Operations
<1>5. written \subseteq 0..Len(job[p].doc.log)
  BY <1>4
<1> HIDE DEF ops, written
<1>6. DOMAIN so' = DOMAIN so \cup written /\ DOMAIN so' \subseteq Nat
  BY <1>1, <1>3, <1>5 DEF ShownInv
<1>7. ASSUME ~ lost, NEW n \in DOMAIN so' \ stray'
      PROVE  n <= Len(spine.log) /\ so'[n] = (IF n = 0 THEN Entry("case") ELSE spine.log[n])
  <2>1. CASE n \in written
    <3>1. Prefix(job[p].doc.log)
      BY <1>0, <1>7, <2>1 DEF ShownInv, Holds
    <3>2. so'[n] = (IF n = 0 THEN Entry("case") ELSE job[p].doc.log[n]) /\ n \in 0..Len(job[p].doc.log)
      BY <1>1, <1>4, <1>5, <1>6, <2>1 DEF written
    <3>3. n = 0 \/ n \in 1..Len(job[p].doc.log)
      BY <1>3, <3>2
    <3> QED
      BY <1>3, <3>1, <3>2, <3>3 DEF Prefix
  <2>2. CASE n \notin written
    <3>1. n \in DOMAIN so \ stray /\ so'[n] = so[n]
      BY <1>0, <1>1, <1>6, <1>7, <2>2
    <3> QED
      BY <1>7, <3>1 DEF ShownInv, SoShowsTheTimeline
  <2> QED
    BY <2>1, <2>2
<1>8. SoShowsTheTimeline'
  BY <1>2, <1>7 DEF SoShowsTheTimeline
<1>9. ASSUME ~ lost', NEW q \in Procs, Holds(q)' PROVE Prefix(job[q].doc.log)'
  <2>1. q # p /\ job'[q] = job[q]
    BY <1>2, <1>9 DEF Holds
  <2> QED
    BY <1>2, <1>9, <2>1 DEF Holds, Prefix, ShownInv
<1> QED
  BY <1>6, <1>8, <1>9 DEF ShownInv

LEMMA ShownStep == ShapeInv /\ ShownInv /\ [Next]_vars => ShownInv'
<1> SUFFICES ASSUME ShapeInv, ShownInv, [Next]_vars PROVE ShownInv'
  OBVIOUS
<1>0. spine \in Docs /\ spine.log \in Seq(EntryShapes) /\ \A p \in Procs : job[p] \in Jobs
  BY DEF ShapeInv, Docs
<1>1. ASSUME NEW p \in Procs, NEW op \in AllOps, NEW failed \in BOOLEAN, Begin(p, op, failed) PROVE ShownInv'
  <2>2. \A q \in Procs \ {p} :
          job'[q].op = job[q].op /\ job'[q].doc = job[q].doc /\ job'[q].was = job[q].was
    BY <1>1, BeginJob
  <2>3. UNCHANGED <<spine, so, lost, stray>>
    BY <1>1, BeginJob
  <2>4. ASSUME NEW q \in Procs, Holds(q)'
        PROVE  Prefix(job[q].doc.log)' \/ (Holds(q) /\ job'[q].doc = job[q].doc)
    <3>1. CASE q = p
      <4>0. ~ failed
        BY <1>1, <2>4, <3>1, BeginJob DEF Holds
      <4>1. job'[q].doc.log = spine'.log /\ Len(spine'.log) \in Nat
        BY <1>0, <1>1, <3>1, <4>0, BeginJob, CopyShape
      <4>2. Prefix(job[q].doc.log)'
        BY <4>1 DEF Prefix
      <4> QED
        BY <4>2
    <3>2. CASE q # p
      BY <2>2, <2>4, <3>2 DEF Holds
    <3> QED
      BY <3>1, <3>2
  <2> QED
    BY <2>3, <2>4, ShownStays
<1>2. ASSUME NEW p \in Procs, NEW list \in Writes, Mutate(p, list) PROVE ShownInv'
  <2>1. /\ Mutated(p, list) \in Docs /\ Write(p, Mutated(p, list)) /\ job[p].doc \in Docs
        /\ Mutated(p, list).log = job[p].doc.log \o Entries(list) /\ Entries(list) \in Seq(EntryShapes)
        /\ UNCHANGED <<so, stray>>
    BY <1>2, MutateJob
  <2> QED
    BY <2>1, ShownCarriesOn
<1>3. ASSUME NEW p \in Procs, SyncWrite(p) PROVE ShownInv'
  <2>1. PICK list \in ByDate(job[p].new) :
          /\ Synced(p, list) \in Docs /\ Write(p, Synced(p, list))
          /\ Synced(p, list).log = job[p].doc.log \o list
    BY <1>3, SyncWriteJob
  <2>2. job[p].doc \in Docs /\ job[p].new \in Batches /\ UNCHANGED <<so, stray>>
    BY <1>3, SyncWriteJob
  <2>3. list \in Seq(EntryShapes)
    BY <2>2, Arranged
  <2> QED
    BY <2>1, <2>2, <2>3, ShownCarriesOn
<1>4. ASSUME NEW p \in Procs, \A q \in Procs \ {p} : job'[q] = job[q],
             \/ job'[p].op \notin {"mutate", "sync", "so"}
             \/ (job'[p].op = job[p].op /\ job'[p].doc = job[p].doc /\ job'[p].was = job[p].was),
             UNCHANGED <<spine, so, lost, stray>>
      PROVE  ShownInv'
  BY <1>4, ShownStays DEF Holds
<1>5. ASSUME NEW p \in Procs, Ends(p) PROVE ShownInv'
  <2>1. ASSUME NEW bad \in -1..Len(job[p].doc.log), SoWrite(p, bad) PROVE ShownInv'
    BY <2>1, ShownBulk
  <2>2. CASE Die(p) \/ Published(p) \/ NothingToFetch(p) \/ Compile(p) \/ SoReport(p)
          \/ \E failed \in BOOLEAN : Attach(p, failed)
    <3>1. UNCHANGED <<so, stray>>
      BY <2>2 DEF Die, Published, NothingToFetch, Compile, SoReport, Attach, history
    <3> QED
      BY <1>4, <1>5, <3>1, EndsJob
  <2> QED
    BY <1>5, <2>1, <2>2 DEF Ends
<1>6. ASSUME NEW p \in Procs, NEW i \in 0..Len(iris), Find(p, i) PROVE ShownInv'
  BY <1>4, <1>6, FindJob
<1>7. ASSUME NEW p \in Procs, Create(p) PROVE ShownInv'
  BY <1>4, <1>7, CreateJob
<1>8. ASSUME NEW p \in Procs, NEW blind \in BOOLEAN, Furnish(p, blind) PROVE ShownInv'
  BY <1>4, <1>8, FurnishJob, ZenonT(40)
<1>9. ASSUME NEW p \in Procs, NEW blind \in BOOLEAN, NEW failed \in BOOLEAN, ReadTags(p, blind, failed) PROVE ShownInv'
  BY <1>4, <1>9, ReadTagsJob
<1>10. ASSUME NEW p \in Procs, NEW k \in DOMAIN job[p].doc.log,
              NEW outcome \in {"posted", "refused", "unanswered"}, Post(p, k, outcome)
       PROVE  ShownInv'
  <2>1. /\ job'[p].op = "iris" /\ UNCHANGED <<spine, so, lost, stray>>
        /\ \A q \in Procs \ {p} : job'[q] = job[q]
    BY <1>10, PostJob
  <2> QED
    BY <1>4, <2>1
<1>11. ASSUME NEW p \in Procs, NEW i \in DOMAIN iris,
              NEW unread \in SUBSET {"iris_note", "iris_event"}, Fetch(p, i, unread)
       PROVE  ShownInv'
  <2>1. /\ \/ job'[p].op = "none"
           \/ job'[p].op = job[p].op /\ job'[p].doc = job[p].doc /\ job'[p].was = job[p].was
        /\ UNCHANGED <<spine, so, lost, stray>> /\ \A q \in Procs \ {p} : job'[q] = job[q]
    BY <1>11, FetchJob
  <2> QED
    BY <1>4, <2>1
<1>12. ASSUME NEW p \in Procs, NEW override \in BOOLEAN, Page(p, override) PROVE ShownInv'
  BY <1>4, <1>12, PageJob
<1>13. ASSUME NEW p \in Procs, NEW failed \in BOOLEAN, Reread(p, failed) PROVE ShownInv'
  BY <1>4, <1>13, RereadJob
<1>14. ASSUME UNCHANGED <<spine, so, lost, stray, job>> PROVE ShownInv'
  BY <1>14, ShownStays DEF Holds
<1>15. CASE Tamper
  BY <1>14, <1>15 DEF Tamper, history
<1>16. CASE Reattest
  <2>1. /\ UNCHANGED <<spine, so, lost, stray>>
        /\ \A q \in Procs : job'[q].op = job[q].op /\ job'[q].doc = job[q].doc
                            /\ job'[q].was = job[q].was
    BY <1>16, ReattestJob
  <2> QED
    BY <2>1, ShownStays DEF Holds
<1>17. ASSUME NEW i \in DOMAIN iris, NEW kind \in {"iris_note", "iris_event"}, NEW offset \in Offsets,
              Compose(i, kind, offset)
       PROVE  ShownInv'
  BY <1>14, <1>17 DEF Compose, history
<1>18. ASSUME NEW i \in DOMAIN iris, NEW n \in DOMAIN iris[i].rows, Edit(i, n) PROVE ShownInv'
  BY <1>14, <1>18 DEF Edit, history
<1>19. ASSUME NEW i \in DOMAIN iris, CloseInIris(i) PROVE ShownInv'
  BY <1>14, <1>19 DEF CloseInIris, history
<1>20. CASE UNCHANGED vars
  BY <1>14, <1>20 DEF vars, history
<1> QED
  BY <1>1, <1>2, <1>3, <1>5, <1>6, <1>7, <1>8, <1>9, <1>10, <1>11, <1>12, <1>13, <1>15, <1>16,
     <1>17, <1>18, <1>19, <1>20, Steps

\* Security Onion shows the timeline, each entry at its place, whatever runs overlap, repeat
\* or fail on one document, as long as no write of the case has overwritten another, and but
\* for the places last written by a run whose read had failed: an id is a place in the
\* timeline (_op_ids), and a timeline that only grows keeps its places.
THEOREM SoStaysInStep == Spec => []SoShowsTheTimeline
<1>1. Init => ShownInv
  <2> SUFFICES ASSUME Init PROVE ShownInv
    OBVIOUS
  <2>1. so = <<>> /\ DOMAIN so = {}
    BY DEF Init
  <2>2. \A p \in Procs : ~ Holds(p)
    BY RestShape DEF Init, Holds
  <2> QED
    BY <2>1, <2>2 DEF ShownInv, SoShowsTheTimeline
<1>2. ShapeInv /\ ShownInv /\ [Next]_vars => ShownInv'
  BY ShownStep
<1>3. ShownInv => SoShowsTheTimeline
  BY DEF ShownInv
<1> QED
  BY <1>1, <1>2, <1>3, Shaped, PTL DEF Spec

----------------------------------------------------------------------------
\* What people write.

HumanRows ==
  {r \in RowShapes : \E j \in DOMAIN iris : \E n \in DOMAIN iris[j].rows :
     r = iris[j].rows[n] /\ r.by # "ssop"}

LEMMA TheirsAreHuman ==
  ASSUME ShapeInv PROVE \A j \in DOMAIN iris : Theirs(j) \subseteq HumanRows
<1>1. \A j \in DOMAIN iris : iris[j] \in CaseShapes
  BY DEF ShapeInv
<1>2. \A j \in DOMAIN iris : \A n \in DOMAIN iris[j].rows : iris[j].rows[n] \in RowShapes
  BY <1>1 DEF CaseShapes
<1> QED
  BY <1>2 DEF Theirs, Rows, ToSet, HumanRows

\* A step that adds nothing of theirs.
LEMMA NoneTheirs ==
  ASSUME \A j \in DOMAIN iris' : \A n \in DOMAIN iris'[j].rows :
           iris'[j].rows[n].by # "ssop" =>
             j \in DOMAIN iris /\ \E m \in DOMAIN iris[j].rows : iris[j].rows[m] = iris'[j].rows[n]
  PROVE  HumanRows' \subseteq HumanRows
BY DEF HumanRows

LEMMA CreateHumans ==
  ASSUME ShapeInv, NEW p \in Procs, Create(p) PROVE HumanRows' \subseteq HumanRows
<1>1. /\ iris' \in Seq(CaseShapes) /\ Len(iris') = Len(iris) + 1 /\ iris \in Seq(CaseShapes)
      /\ \A j \in DOMAIN iris : iris'[j] = iris[j]
      /\ iris'[Len(iris) + 1].rows = <<>>
  BY CreateJob DEF ShapeInv
<1>2. \A j \in DOMAIN iris' : j \in DOMAIN iris \/ j = Len(iris) + 1
  BY <1>1
<1> QED
  BY <1>1, <1>2, NoneTheirs

LEMMA MissingOurs ==
  ASSUME NEW p, NEW blind, NEW paid \in BOOLEAN
  PROVE  /\ \A n \in DOMAIN NoteMissing(p, blind, paid) : NoteMissing(p, blind, paid)[n].by = "ssop"
         /\ \A n \in DOMAIN IocsMissing(p, blind, paid) : IocsMissing(p, blind, paid)[n].by = "ssop"
<1>1. Row("note", job[p].doc.state, paid).by = "ssop"
      /\ Row("ioc", "observable", paid).by = "ssop"
  BY DEF Row
<1> QED
  BY <1>1 DEF NoteMissing, IocsMissing

LEMMA FurnishHumans ==
  ASSUME ShapeInv, NEW p \in Procs, NEW blind \in BOOLEAN, Furnish(p, blind)
  PROVE  HumanRows' \subseteq HumanRows
<1> DEFINE i == job[p].at
           paid == job[p].paid \/ blind
           note == NoteMissing(p, blind, paid)
           iocs == IocsMissing(p, blind, paid)
           rows == iris[i].rows
<1>1. /\ DOMAIN iris' = DOMAIN iris /\ i \in DOMAIN iris /\ iris[i] \in CaseShapes /\ paid \in BOOLEAN
      /\ job[p].doc \in Docs
      /\ \A j \in DOMAIN iris \ {i} : iris'[j] = iris[j]
      /\ iris'[i].rows = rows \o note \o iocs
  <2>1. job[p] \in Jobs /\ iris \in Seq(CaseShapes) /\ i \in DOMAIN iris
    BY FurnishJob DEF ShapeInv
  <2>2. paid \in BOOLEAN /\ iris[i] \in CaseShapes /\ job[p].doc \in Docs
    BY <2>1 DEF Jobs
  <2>3. /\ DOMAIN iris' = DOMAIN iris /\ \A j \in DOMAIN iris \ {i} : iris'[j] = iris[j]
        /\ iris'[i].rows = rows \o note \o iocs
    BY FurnishJob, Zenon
  <2> QED
    BY <2>1, <2>2, <2>3
<1>2. note \in Seq(RowShapes) /\ iocs \in Seq(RowShapes) /\ rows \in Seq(RowShapes)
  BY <1>1, MissingShape DEF CaseShapes
<1>3. /\ \A n \in DOMAIN note : note[n].by = "ssop"
      /\ \A n \in DOMAIN iocs : iocs[n].by = "ssop"
  BY <1>1, MissingOurs
<1> HIDE DEF note, iocs, rows, paid
<1>4. ASSUME NEW n \in DOMAIN (rows \o note \o iocs), (rows \o note \o iocs)[n].by # "ssop"
      PROVE  n \in DOMAIN rows /\ (rows \o note \o iocs)[n] = rows[n]
  <2>1. CASE n <= Len(rows)
    BY <1>2, <2>1
  <2>2. CASE n > Len(rows) /\ n <= Len(rows) + Len(note)
    <3>1. (rows \o note \o iocs)[n] = note[n - Len(rows)] /\ n - Len(rows) \in DOMAIN note
      BY <1>2, <2>2
    <3> QED
      BY <1>3, <1>4, <3>1
  <2>3. CASE n > Len(rows) + Len(note)
    <3>1. /\ (rows \o note \o iocs)[n] = iocs[n - (Len(rows) + Len(note))]
          /\ n - (Len(rows) + Len(note)) \in DOMAIN iocs
      BY <1>2, <2>3
    <3> QED
      BY <1>3, <1>4, <3>1
  <2> QED
    BY <1>2, <2>1, <2>2, <2>3
<1>5. \A n \in DOMAIN iris'[i].rows : iris'[i].rows[n].by # "ssop" =>
        \E m \in DOMAIN iris[i].rows : iris[i].rows[m] = iris'[i].rows[n]
  BY <1>1, <1>4 DEF rows
<1> HIDE DEF i
<1> QED
  BY <1>1, <1>5, NoneTheirs

LEMMA PostHumans ==
  ASSUME ShapeInv, NEW p \in Procs, NEW k \in DOMAIN job[p].doc.log,
         NEW outcome \in {"posted", "refused", "unanswered"}, Post(p, k, outcome)
  PROVE  HumanRows' \subseteq HumanRows
<1>1. CASE UNCHANGED iris
  BY <1>1 DEF HumanRows
<1>2. CASE Posted(p, job[p].doc.log[k], job[p].paid \/ outcome # "posted")
  <2> DEFINE i == job[p].at
             row == Row("event", Tag(job[p].doc.log[k]), job[p].paid \/ outcome # "posted")
             rows == iris[i].rows
  <2>1. /\ DOMAIN iris' = DOMAIN iris /\ i \in DOMAIN iris /\ iris[i] \in CaseShapes
        /\ \A j \in DOMAIN iris \ {i} : iris'[j] = iris[j]
        /\ iris'[i].rows = Append(rows, row)
    <3>1. i \in DOMAIN iris /\ iris[i] \in CaseShapes
      BY PostJob DEF ShapeInv
    <3> QED
      BY <1>2, <3>1 DEF Posted
  <2>2. row.by = "ssop" /\ rows \in Seq(RowShapes)
    BY <2>1 DEF Row, CaseShapes
  <2> HIDE DEF row, rows
  <2>3. \A n \in DOMAIN Append(rows, row) :
          Append(rows, row)[n].by # "ssop" => n \in DOMAIN rows /\ Append(rows, row)[n] = rows[n]
    BY <2>2
  <2>4. \A n \in DOMAIN iris'[i].rows : iris'[i].rows[n].by # "ssop" =>
          \E m \in DOMAIN iris[i].rows : iris[i].rows[m] = iris'[i].rows[n]
    BY <2>1, <2>3 DEF rows
  <2> HIDE DEF i
  <2> QED
    BY <2>1, <2>4, NoneTheirs
<1> QED
  BY <1>1, <1>2, PostJob

LEMMA ClosedHumans ==
  ASSUME ShapeInv, NEW i \in DOMAIN iris, CloseInIris(i) PROVE HumanRows' \subseteq HumanRows
<1>1. DOMAIN iris' = DOMAIN iris /\ \A j \in DOMAIN iris : iris'[j].rows = iris[j].rows
  BY ClosedRows
<1> QED
  BY <1>1, NoneTheirs

\* What a person adds or dates anew is the one thing there was not.
LEMMA OneTheirs ==
  ASSUME NEW i \in DOMAIN iris, NEW row, DOMAIN iris' = DOMAIN iris,
         \A j \in DOMAIN iris \ {i} : iris'[j] = iris[j],
         \A n \in DOMAIN iris'[i].rows :
           iris'[i].rows[n] = row \/ \E m \in DOMAIN iris[i].rows : iris[i].rows[m] = iris'[i].rows[n]
  PROVE  HumanRows' \subseteq HumanRows \cup {row}
BY DEF HumanRows

LEMMA ComposeHumans ==
  ASSUME ShapeInv, NEW i \in DOMAIN iris, NEW kind \in {"iris_note", "iris_event"},
         NEW offset \in Offsets, Compose(i, kind, offset)
  PROVE  \E row \in RowShapes :
           /\ row.id # 0 /\ row.ts = now' + offset /\ (~ row.ahead => offset <= 0)
           /\ row.excused = Passed(row.ts)
           /\ HumanRows' \subseteq HumanRows \cup {row}
<1>1. PICK row \in RowShapes :
        /\ row.by = "human" /\ row.id # 0
        /\ row.ts = now' + offset /\ (~ row.ahead => offset <= 0)
        /\ row.excused = Passed(row.ts)
        /\ iris'[i].rows = Append(iris[i].rows, row)
  BY ComposeRows
<1>2. /\ DOMAIN iris' = DOMAIN iris /\ \A j \in DOMAIN iris \ {i} : iris'[j] = iris[j]
      /\ iris[i].rows \in Seq(RowShapes)
  BY ComposeRows
<1> DEFINE rows == iris[i].rows
<1>3. rows \in Seq(RowShapes) /\ iris'[i].rows = Append(rows, row)
  BY <1>1, <1>2
<1> HIDE DEF rows
<1>4. \A n \in DOMAIN Append(rows, row) :
        Append(rows, row)[n] = row \/ \E m \in DOMAIN rows : rows[m] = Append(rows, row)[n]
  BY <1>3
<1>5. \A n \in DOMAIN iris'[i].rows :
        iris'[i].rows[n] = row \/ \E m \in DOMAIN iris[i].rows : iris[i].rows[m] = iris'[i].rows[n]
  BY <1>3, <1>4 DEF rows
<1>6. HumanRows' \subseteq HumanRows \cup {row}
  BY <1>2, <1>5, OneTheirs
<1> QED
  BY <1>1, <1>6

LEMMA EditHumans ==
  ASSUME ShapeInv, NEW i \in DOMAIN iris, NEW n \in DOMAIN iris[i].rows, Edit(i, n)
  PROVE  \E row \in RowShapes :
           /\ (\E r \in HumanRows : row.id = r.id) /\ row.ts = now' /\ row.excused = Passed(row.ts)
           /\ HumanRows' \subseteq HumanRows \cup {row}
<1>1. PICK row \in RowShapes :
        /\ row.by = "human" /\ row.id = iris[i].rows[n].id
        /\ row.ts = now' /\ row.excused = Passed(row.ts)
        /\ iris'[i].rows = [iris[i].rows EXCEPT ![n] = row]
  BY EditRows
<1>2. /\ DOMAIN iris' = DOMAIN iris /\ \A j \in DOMAIN iris \ {i} : iris'[j] = iris[j]
      /\ iris[i].rows \in Seq(RowShapes) /\ iris[i].rows[n].by = "human"
  BY EditRows
<1>3. iris[i].rows[n] \in HumanRows
  BY <1>2 DEF HumanRows
<1> DEFINE rows == iris[i].rows
<1>4. rows \in Seq(RowShapes) /\ iris'[i].rows = [rows EXCEPT ![n] = row]
  BY <1>1, <1>2
<1> HIDE DEF rows
<1>5. \A m \in DOMAIN [rows EXCEPT ![n] = row] :
        [rows EXCEPT ![n] = row][m] = row \/ (m \in DOMAIN rows /\ rows[m] = [rows EXCEPT ![n] = row][m])
  BY <1>4
<1>6. HumanRows' \subseteq HumanRows \cup {row}
  BY <1>2, <1>4, <1>5, OneTheirs DEF rows
<1> QED
  BY <1>1, <1>3, <1>6

LEMMA NoHumansAtFirst == Init => HumanRows = {}
<1> SUFFICES ASSUME Init PROVE HumanRows = {}
  OBVIOUS
<1> DEFINE shut == [Copied EXCEPT !.open = FALSE]
           rows == <<Row("note", "open", FALSE), Row("ioc", "observable", FALSE)>>
<1>1. Copied.rows = rows /\ shut.rows = rows
  BY DEF Copied
<1>2. rows[1].by = "ssop" /\ rows[2].by = "ssop" /\ DOMAIN rows = 1..2
  BY DEF Row
<1>3. iris = <<>> \/ iris = <<Copied>> \/ iris = <<shut, Copied>>
  BY DEF Init
<1> HIDE DEF rows, shut
<1>4. \A j \in DOMAIN iris : iris[j].rows = rows
  BY <1>1, <1>3
<1>5. \A n \in DOMAIN rows : rows[n].by = "ssop"
  BY <1>2
<1> QED
  BY <1>4, <1>5 DEF HumanRows

LEMMA HumanFields ==
  ASSUME NEW r PROVE Human(r).id = r.id /\ Human(r).ts = r.ts /\ Human(r).ahead = r.ahead
BY DEF Human

\* What a run that brings back finds: a row of a person's is fetched, or behind the cursor of
\* its copy, or it is marked as passed over.
LEMMA FetchHumans ==
  ASSUME ShapeInv, NEW p \in Procs, NEW i \in DOMAIN iris,
         NEW unread \in SUBSET {"iris_note", "iris_event"}, Fetch(p, i, unread)
  PROVE  \A r \in HumanRows' : \E s \in HumanRows :
           /\ r.id = s.id /\ r.ts = s.ts /\ r.ahead = s.ahead /\ Human(r) = Human(s)
           /\ s.excused => r.excused
           /\ \/ job'[p].op # "sync"
              \/ r.excused
              \/ s \in Newer(p, HumanActivity(i, unread))
              \/ r.ts <= job[p].doc.cursor
<1>1. CASE UNCHANGED iris /\ job'[p].op = "none"
  <2>1. HumanRows' = HumanRows
    BY <1>1 DEF HumanRows
  <2> QED
    BY <1>1, <2>1
<1>2. CASE /\ DOMAIN iris' = DOMAIN iris
           /\ \A j \in DOMAIN iris : iris'[j].rows = Marked(i, unread, j)
  <2> SUFFICES ASSUME NEW r \in HumanRows'
               PROVE  \E s \in HumanRows :
                        /\ r.id = s.id /\ r.ts = s.ts /\ r.ahead = s.ahead /\ Human(r) = Human(s)
                        /\ s.excused => r.excused
                        /\ \/ job'[p].op # "sync"
                           \/ r.excused
                           \/ s \in Newer(p, HumanActivity(i, unread))
                           \/ r.ts <= job[p].doc.cursor
    OBVIOUS
  <2>1a. PICK j \in DOMAIN iris : \E n \in DOMAIN iris'[j].rows : r = iris'[j].rows[n] /\ r.by # "ssop"
    BY <1>2 DEF HumanRows
  <2>1. PICK n \in DOMAIN iris'[j].rows : r = iris'[j].rows[n] /\ r.by # "ssop"
    BY <2>1a
  <2>2. iris[j].rows \in Seq(RowShapes)
    <3>1. iris[j] \in CaseShapes
      BY DEF ShapeInv
    <3> QED
      BY <3>1 DEF CaseShapes
  <2> DEFINE s == iris[j].rows[n]
  <2>3. /\ n \in DOMAIN iris[j].rows /\ s \in RowShapes
        /\ r.kind = s.kind /\ r.by = s.by /\ r.tag = s.tag /\ r.id = s.id /\ r.ts = s.ts
        /\ r.ahead = s.ahead /\ r.excused = (s.excused \/ Missed(i, unread, j, s))
    <3>1. iris'[j].rows = Marked(i, unread, j)
      BY <1>2
    <3>2. DOMAIN Marked(i, unread, j) = DOMAIN iris[j].rows
      BY <2>2, MarkedShape
    <3>3. n \in DOMAIN iris[j].rows /\ r = Marked(i, unread, j)[n]
      BY <2>1, <3>1, <3>2
    <3>4. s \in RowShapes
      BY <2>2, <3>3
    <3> QED
      BY <2>2, <3>3, <3>4, MarkedShape
  <2>4. s \in HumanRows
    BY <2>1, <2>3 DEF HumanRows
  <2>5. Human(r) = Human(s)
    BY <2>3 DEF Human
  <2>6. \/ r.excused
        \/ s \in Newer(p, HumanActivity(i, unread))
        \/ r.ts <= job[p].doc.cursor
    <3> SUFFICES ASSUME ~ r.excused, s \notin Newer(p, HumanActivity(i, unread))
                 PROVE  r.ts <= job[p].doc.cursor
      OBVIOUS
    <3>1. s.by = "human"
      BY <2>1, <2>3 DEF RowShapes
    <3>2. j = i /\ s.kind \notin unread
      BY <2>3, <3>1 DEF Missed
    <3>3. s \in HumanActivity(i, unread)
      BY <2>3, <3>1, <3>2 DEF HumanActivity, Theirs, Rows, ToSet
    <3>4. ~ (s.ts > job[p].doc.cursor)
      BY <3>3 DEF Newer
    <3>5. s.ts \in Int /\ job[p].doc.cursor \in Int
      <4>1. job[p] \in Jobs
        BY DEF ShapeInv
      <4>2. job[p].doc \in Docs
        BY <4>1 DEF Jobs
      <4> QED
        BY <2>3, <4>2 DEF RowShapes, Docs
    <3> QED
      BY <2>3, <3>4, <3>5
  <2> HIDE DEF s
  <2>7. r.id = s.id /\ r.ts = s.ts /\ r.ahead = s.ahead /\ (s.excused => r.excused)
    BY <2>3
  <2> QED
    BY <2>4, <2>5, <2>6, <2>7
<1> QED
  BY <1>1, <1>2, FetchJob

----------------------------------------------------------------------------
\* Once.

\* A process that will write the case.
Writer(p) == job[p].op \in {"mutate", "sync"}

\* A person's entry has an identity, and unless it is dated ahead a date that has been.
RowsDated == \A r \in HumanRows : r.id # 0 /\ (~ r.ahead => r.ts <= now)

\* An entry of a person's, not dated ahead and not brought back by a copy made of receipts,
\* is once in the timeline and behind the cursor.
Once(doc, clock, past) ==
  /\ doc.cursor <= clock
  /\ \A m, n \in DOMAIN doc.log :
       m # n /\ doc.log[m] = doc.log[n] /\ doc.log[m].id # 0 => doc.log[m].ahead \/ doc.log[m] \in past
  /\ \A n \in DOMAIN doc.log :
       doc.log[n].id # 0 /\ ~ doc.log[n].ahead /\ doc.log[n] \notin past =>
         doc.log[n].ts <= doc.cursor /\ doc.cursor # 0

\* What a process brings back, or would by writing.
Loose(p) == IF job[p].was = "rebuilt" THEN loose \cup PeoplesOf(job[p].doc) ELSE loose

New(p) ==
  \A e \in job[p].new :
    /\ e.id # 0
    /\ ~ e.ahead => e.ts <= now
    /\ job[p].doc.cursor = 0 \/ e.ts > job[p].doc.cursor

OnceInv ==
  /\ RowsDated
  /\ Once(spine, now, loose)
  /\ \A p \in Procs : Writer(p) => Once(job[p].doc, now, Loose(p))
  /\ \A p \in Procs : Fetched(p) => New(p)

LEMMA DatedStays ==
  ASSUME ShapeInv, RowsDated, now' \in Nat, now <= now', HumanRows' \subseteq HumanRows
  PROVE  RowsDated'
<1> SUFFICES ASSUME NEW r \in HumanRows' PROVE r.id # 0 /\ (~ r.ahead => r.ts <= now')
  BY DEF RowsDated
<1>1. r \in RowShapes /\ r.id # 0 /\ (~ r.ahead => r.ts <= now)
  BY DEF RowsDated, HumanRows
<1>2. r.ts \in Int /\ now \in Nat
  BY <1>1 DEF RowShapes, ShapeInv
<1> QED
  BY <1>1, <1>2

\* A copy stays good as time passes and more is excused, and so does what was fetched.
LEMMA OnceStays ==
  ASSUME NEW doc \in Docs, NEW early \in Nat, NEW late \in Nat, early <= late,
         NEW few, NEW many, few \subseteq many, Once(doc, early, few)
  PROVE  Once(doc, late, many)
<1>1. doc.cursor \in Nat
  BY DEF Docs
<1>2. doc.cursor <= late
  BY <1>1 DEF Once
<1> QED
  BY <1>2 DEF Once

LEMMA NewStays ==
  ASSUME ShapeInv, NEW p \in Procs, now' \in Nat, now <= now', New(p),
         job'[p].new = job[p].new, job'[p].doc = job[p].doc
  PROVE  New(p)'
<1> SUFFICES ASSUME NEW e \in job[p].new
             PROVE  e.id # 0 /\ (~ e.ahead => e.ts <= now')
                    /\ (job[p].doc.cursor = 0 \/ e.ts > job[p].doc.cursor)
  BY DEF New
<1>1. job[p] \in Jobs /\ now \in Nat
  BY DEF ShapeInv
<1>2. e.ts \in Int
  BY <1>1 DEF Jobs, Batches, EntryShapes
<1> QED
  BY <1>1, <1>2 DEF New

\* A step keeps the invariant if what it changes is as it should be.
LEMMA OnceKept ==
  ASSUME ShapeInv, OnceInv, now' \in Nat, now <= now', RowsDated', loose \subseteq loose',
         spine' = spine \/ Once(spine', now', loose'),
         \A q \in Procs : Writer(q)' =>
           \/ Once(job'[q].doc, now', Loose(q)')
           \/ Writer(q) /\ job'[q].doc = job[q].doc /\ job'[q].was = job[q].was,
         \A q \in Procs : Fetched(q)' =>
           New(q)' \/ (Fetched(q) /\ job'[q].doc = job[q].doc /\ job'[q].new = job[q].new)
  PROVE  OnceInv'
<1>0. now \in Nat
  BY DEF ShapeInv
<1>1. Once(spine', now', loose')
  <2>1. CASE spine' = spine
    <3>1. spine \in Docs /\ Once(spine, now, loose)
      BY DEF ShapeInv, OnceInv
    <3>2. Once(spine, now', loose')
      BY <1>0, <3>1, OnceStays
    <3> QED
      BY <2>1, <3>2
  <2> QED
    BY <2>1
<1>2. ASSUME NEW q \in Procs, Writer(q)' PROVE Once(job'[q].doc, now', Loose(q)')
  <2>1. CASE Writer(q) /\ job'[q].doc = job[q].doc /\ job'[q].was = job[q].was
    <3>1. job[q] \in Jobs /\ Once(job[q].doc, now, Loose(q))
      BY <2>1 DEF ShapeInv, OnceInv
    <3>2. job[q].doc \in Docs
      BY <3>1 DEF Jobs
    <3>3. Loose(q) \subseteq Loose(q)'
      BY <2>1 DEF Loose, PeoplesOf
    <3>4. Once(job[q].doc, now', Loose(q)')
      BY <1>0, <3>1, <3>2, <3>3, OnceStays
    <3> QED
      BY <2>1, <3>4
  <2> QED
    BY <1>2, <2>1
<1>3. ASSUME NEW q \in Procs, Fetched(q)' PROVE New(q)'
  BY <1>3, NewStays DEF OnceInv
<1> QED
  BY <1>1, <1>2, <1>3 DEF OnceInv

\* A write excuses what its copy would have brought back.
LEMMA Loosened ==
  ASSUME ShapeInv, NEW p \in Procs, NEW doc \in Docs, Write(p, doc)
  PROVE  Loose(p) \subseteq loose'
BY Signed DEF Loose

\* A mutation adds nothing of a person's.
LEMMA OnceMutate ==
  ASSUME ShapeInv, OnceInv, NEW p \in Procs, NEW list \in Writes, Mutate(p, list)
  PROVE  Once(spine', now', loose')
<1> DEFINE old == job[p].doc.log
           cursor == job[p].doc.cursor
           added == Entries(list)
           log == old \o added
<1>1. /\ Write(p, Mutated(p, list)) /\ Mutated(p, list) \in Docs
      /\ Mutated(p, list).log = log /\ Mutated(p, list).cursor = cursor
      /\ added \in Seq(EntryShapes) /\ \A n \in DOMAIN added : added[n].id = 0
      /\ job[p].doc \in Docs /\ job[p].op = "mutate" /\ now' = now
  BY MutateJob
<1>2. spine'.log = log /\ spine'.cursor = cursor
  BY <1>1, Signed
<1>3. Loose(p) \subseteq loose'
  BY <1>1, Loosened
<1>4. old \in Seq(EntryShapes)
  BY <1>1 DEF Docs
<1>5. Once(job[p].doc, now, Loose(p))
  BY <1>1 DEF OnceInv, Writer
<1> HIDE DEF added
<1>6. \A n \in DOMAIN log : log[n].id # 0 => n \in DOMAIN old /\ log[n] = old[n]
  <2> SUFFICES ASSUME NEW n \in DOMAIN log, log[n].id # 0 PROVE n \in DOMAIN old /\ log[n] = old[n]
    OBVIOUS
  <2>1. CASE n <= Len(old)
    BY <1>1, <1>4, <2>1
  <2>2. CASE n > Len(old)
    <3>1. n - Len(old) \in DOMAIN added /\ log[n] = added[n - Len(old)]
      BY <1>1, <1>4, <2>2
    <3> QED
      BY <1>1, <3>1
  <2> QED
    BY <1>1, <1>4, <2>1, <2>2
<1>7. /\ cursor <= now
      /\ \A m, n \in DOMAIN old :
           m # n /\ old[m] = old[n] /\ old[m].id # 0 => old[m].ahead \/ old[m] \in Loose(p)
      /\ \A n \in DOMAIN old :
           old[n].id # 0 /\ ~ old[n].ahead /\ old[n] \notin Loose(p) => old[n].ts <= cursor /\ cursor # 0
  BY <1>5 DEF Once
<1> HIDE DEF log, old, cursor
<1> QED
  BY <1>1, <1>2, <1>3, <1>6, <1>7 DEF Once

\* What is brought back was not in the copy: it is newer than the copy's cursor.
LEMMA OnceSync ==
  ASSUME ShapeInv, OnceInv, NEW p \in Procs, SyncWrite(p)
  PROVE  Once(spine', now', loose')
<1>1. PICK list \in ByDate(job[p].new) :
        /\ Synced(p, list) \in Docs
        /\ Write(p, Synced(p, list))
        /\ Synced(p, list).log = job[p].doc.log \o list /\ Synced(p, list).cursor = now'
  BY SyncWriteJob
<1> DEFINE old == job[p].doc.log
           cursor == job[p].doc.cursor
           log == old \o list
<1>2. /\ now' = now + 1 /\ now \in Nat /\ job[p].doc \in Docs /\ job[p].new \in Batches
      /\ Fetched(p)
  BY SyncWriteJob DEF ShapeInv
<1>3. spine'.log = log /\ spine'.cursor = now' /\ Loose(p) \subseteq loose'
  BY <1>1, Signed, Loosened
<1>4. /\ old \in Seq(EntryShapes) /\ cursor \in Nat /\ list \in Seq(EntryShapes)
      /\ ToSet(list) = job[p].new
      /\ \A m, n \in DOMAIN list : m # n => list[m] # list[n]
  BY <1>2, Arranged DEF Docs
<1>5. Once(job[p].doc, now, Loose(p)) /\ New(p)
  BY <1>2 DEF OnceInv, Writer, Fetched, At
<1>6. /\ cursor <= now
      /\ \A m, n \in DOMAIN old :
           m # n /\ old[m] = old[n] /\ old[m].id # 0 => old[m].ahead \/ old[m] \in loose'
      /\ \A n \in DOMAIN old :
           old[n].id # 0 /\ ~ old[n].ahead /\ old[n] \notin loose' => old[n].ts <= cursor /\ cursor # 0
  BY <1>3, <1>5 DEF Once
<1>7. \A n \in DOMAIN list :
        /\ list[n].id # 0 /\ (~ list[n].ahead => list[n].ts <= now)
        /\ cursor = 0 \/ list[n].ts > cursor
  BY <1>4, <1>5 DEF New, ToSet
<1>8. /\ \A n \in DOMAIN old : old[n] \in EntryShapes
      /\ \A n \in DOMAIN list : list[n] \in EntryShapes
  BY <1>4
<1>9. \A e \in EntryShapes : e.ts \in Int
  BY DEF EntryShapes
<1> HIDE DEF old, cursor
<1>10. \A m \in DOMAIN old, n \in DOMAIN list :
         old[m] = list[n] => old[m].ahead \/ old[m] \in loose'
  BY <1>4, <1>6, <1>7, <1>8, <1>9
<1>11. \A n \in DOMAIN log :
         \/ n \in DOMAIN old /\ log[n] = old[n]
         \/ n - Len(old) \in DOMAIN list /\ log[n] = list[n - Len(old)] /\ n \notin DOMAIN old
  BY <1>4
<1>12. DOMAIN log \subseteq Int /\ Len(old) \in Int
  BY <1>4
<1> HIDE DEF log
<1>13. ASSUME NEW m \in DOMAIN log, NEW n \in DOMAIN log, m # n, log[m] = log[n], log[m].id # 0
       PROVE  log[m].ahead \/ log[m] \in loose'
  <2>1. CASE m \in DOMAIN old /\ n \in DOMAIN old
    BY <1>6, <1>11, <1>13, <2>1
  <2>2. CASE m \in DOMAIN old /\ n \notin DOMAIN old
    BY <1>10, <1>11, <1>13, <2>2
  <2>3. CASE m \notin DOMAIN old /\ n \in DOMAIN old
    BY <1>10, <1>11, <1>13, <2>3
  <2>4. CASE m \notin DOMAIN old /\ n \notin DOMAIN old
    <3>1. /\ m - Len(old) \in DOMAIN list /\ n - Len(old) \in DOMAIN list
          /\ list[m - Len(old)] = list[n - Len(old)]
      BY <1>11, <1>13, <2>4
    <3>2. m - Len(old) # n - Len(old)
      BY <1>12, <1>13
    <3> QED
      BY <1>4, <3>1, <3>2
  <2> QED
    BY <2>1, <2>2, <2>3, <2>4
<1>14. ASSUME NEW n \in DOMAIN log, log[n].id # 0, ~ log[n].ahead, log[n] \notin loose'
       PROVE  log[n].ts <= now' /\ now' # 0
  <2>1. CASE n \in DOMAIN old /\ log[n] = old[n]
    BY <1>2, <1>4, <1>6, <1>8, <1>9, <1>14, <2>1
  <2>2. CASE n - Len(old) \in DOMAIN list /\ log[n] = list[n - Len(old)]
    BY <1>2, <1>7, <1>8, <1>9, <1>14, <2>2
  <2> QED
    BY <1>11, <2>1, <2>2
<1>15. now' <= now'
  BY <1>2
<1> QED
  BY <1>3, <1>13, <1>14, <1>15 DEF Once

LEMMA OnceFetch ==
  ASSUME ShapeInv, OnceInv, NEW p \in Procs, NEW i \in DOMAIN iris,
         NEW unread \in SUBSET {"iris_note", "iris_event"}, Fetch(p, i, unread)
  PROVE  OnceInv'
<1> DEFINE new == Newer(p, HumanActivity(i, unread))
<1>1. /\ \A q \in Procs \ {p} : job'[q] = job[q]
      /\ job[p].op = "sync"
      /\ \/ job'[p].op = "none"
         \/ /\ job'[p].op = "sync" /\ job'[p].doc = job[p].doc /\ job'[p].new = {Human(r) : r \in new}
            /\ job'[p].was = job[p].was
      /\ UNCHANGED <<spine, now, loose>> /\ now \in Nat
  BY FetchJob DEF ShapeInv
<1>2. RowsDated'
  <2> SUFFICES ASSUME NEW r \in HumanRows' PROVE r.id # 0 /\ (~ r.ahead => r.ts <= now')
    BY DEF RowsDated
  <2>1. PICK s \in HumanRows : r.id = s.id /\ r.ts = s.ts /\ r.ahead = s.ahead
    BY FetchHumans
  <2> QED
    BY <1>1, <2>1 DEF OnceInv, RowsDated
<1>3. \A q \in Procs : Writer(q)' =>
        Writer(q) /\ job'[q].doc = job[q].doc /\ job'[q].was = job[q].was
  BY <1>1 DEF Writer
<1>4. ASSUME job'[p].op = "sync" PROVE New(p)'
  <2> SUFFICES ASSUME NEW e \in job'[p].new
               PROVE  e.id # 0 /\ (~ e.ahead => e.ts <= now')
                      /\ (job'[p].doc.cursor = 0 \/ e.ts > job'[p].doc.cursor)
    BY DEF New
  <2>1. job'[p].doc = job[p].doc /\ job'[p].new = {Human(r) : r \in new}
    BY <1>1, <1>4
  <2>2. PICK r \in new : e = Human(r)
    BY <2>1
  <2>3. r \in HumanRows
    BY TheirsAreHuman DEF Newer, HumanActivity
  <2>4. r.id # 0 /\ (~ r.ahead => r.ts <= now)
    BY <2>3 DEF OnceInv, RowsDated
  <2>5. job[p].doc.cursor = 0 \/ r.ts > job[p].doc.cursor
    BY DEF Newer
  <2>6. e.id = r.id /\ e.ts = r.ts /\ e.ahead = r.ahead
    BY <2>2, HumanFields
  <2> QED
    BY <1>1, <2>1, <2>4, <2>5, <2>6
<1>5. \A q \in Procs : Fetched(q)' =>
        New(q)' \/ (Fetched(q) /\ job'[q].doc = job[q].doc /\ job'[q].new = job[q].new)
  <2> SUFFICES ASSUME NEW q \in Procs, Fetched(q)'
               PROVE  New(q)' \/ (Fetched(q) /\ job'[q].doc = job[q].doc /\ job'[q].new = job[q].new)
    OBVIOUS
  <2>1. CASE q = p
    <3>1. job'[p].op = "sync"
      BY <2>1 DEF Fetched, At
    <3> QED
      BY <1>4, <2>1, <3>1
  <2>2. CASE q # p
    BY <1>1, <2>2 DEF Fetched, At
  <2> QED
    BY <2>1, <2>2
<1> QED
  BY <1>1, <1>2, <1>3, <1>5, OnceKept

LEMMA OnceStep == ShapeInv /\ OnceInv /\ [Next]_vars => OnceInv'
<1> SUFFICES ASSUME ShapeInv, OnceInv, [Next]_vars PROVE OnceInv'
  OBVIOUS
<1>0. now \in Nat /\ spine \in Docs /\ RowsDated
  BY DEF ShapeInv, OnceInv
<1>1. ASSUME NEW p \in Procs, NEW op \in AllOps, NEW failed \in BOOLEAN, Begin(p, op, failed)
      PROVE  OnceInv'
  <2>1. /\ job'[p].doc = GetCase(failed) /\ job'[p].pc = "read"
        /\ failed => job'[p].was = "rebuilt"
        /\ UNCHANGED <<spine, iris, now, loose>>
        /\ \A q \in Procs \ {p} : job'[q].op = job[q].op /\ job'[q].pc = job[q].pc
                                  /\ job'[q].doc = job[q].doc /\ job'[q].new = job[q].new
                                  /\ job'[q].was = job[q].was
    BY <1>1, BeginJob
  <2>2. RowsDated'
    BY <2>1, <1>0 DEF RowsDated, HumanRows
  <2>3. Once(job'[p].doc, now', Loose(p)')
    <3>1. CASE failed
      <4>1. /\ job'[p].doc = Rebuilt /\ Rebuilt \in Docs /\ Rebuilt.cursor = 0
            /\ Loose(p)' = loose' \cup PeoplesOf(Rebuilt)
        BY <2>1, <3>1, CopyShape DEF Loose, PeoplesOf
      <4>2. \A n \in DOMAIN Rebuilt.log : Rebuilt.log[n].id # 0 => Rebuilt.log[n] \in PeoplesOf(Rebuilt)
        BY DEF PeoplesOf, ToSet
      <4> QED
        BY <1>0, <2>1, <4>1, <4>2 DEF Once
    <3>2. CASE ~ failed
      <4>1. job'[p].doc = spine /\ loose \subseteq Loose(p)'
        BY <2>1, <3>2, CopyShape DEF Loose
      <4>2. Once(spine, now', Loose(p)')
        BY <1>0, <2>1, <4>1, OnceStays DEF OnceInv
      <4> QED
        BY <4>1, <4>2
    <3> QED
      BY <3>1, <3>2
  <2>4. ASSUME NEW q \in Procs, Writer(q)'
        PROVE  \/ Once(job'[q].doc, now', Loose(q)')
               \/ Writer(q) /\ job'[q].doc = job[q].doc /\ job'[q].was = job[q].was
    <3>1. CASE q = p
      BY <2>3, <3>1
    <3>2. CASE q # p
      BY <2>1, <2>4, <3>2 DEF Writer
    <3> QED
      BY <3>1, <3>2
  <2>5. \A q \in Procs : Fetched(q)' =>
          Fetched(q) /\ job'[q].doc = job[q].doc /\ job'[q].new = job[q].new
    BY <2>1 DEF Fetched, At
  <2> QED
    BY <1>0, <2>1, <2>2, <2>4, <2>5, OnceKept
<1>2. ASSUME NEW p \in Procs, NEW doc \in Docs, Write(p, doc), Once(spine', now', loose'), UNCHANGED iris,
             now' \in Nat, now <= now'
      PROVE  OnceInv'
  <2>1. /\ job'[p].op = "none" /\ loose \subseteq loose'
        /\ \A q \in Procs \ {p} : job'[q].op = job[q].op /\ job'[q].pc = job[q].pc
                                  /\ job'[q].doc = job[q].doc /\ job'[q].new = job[q].new
                                  /\ job'[q].was = job[q].was
    BY <1>2, Signed
  <2>2. HumanRows' \subseteq HumanRows
    BY <1>2 DEF HumanRows
  <2>3. RowsDated'
    BY <1>0, <1>2, <2>2, DatedStays
  <2> QED
    BY <1>2, <2>1, <2>3, OnceKept DEF Writer, Fetched, At
<1>3. ASSUME NEW p \in Procs, NEW list \in Writes, Mutate(p, list) PROVE OnceInv'
  <2>1. Mutated(p, list) \in Docs /\ Write(p, Mutated(p, list)) /\ UNCHANGED <<iris, now>>
    BY <1>3, MutateJob
  <2>2. Once(spine', now', loose') /\ now' \in Nat /\ now <= now'
    BY <1>0, <1>3, <2>1, OnceMutate
  <2> QED
    BY <1>2, <2>1, <2>2
<1>4. ASSUME NEW p \in Procs, SyncWrite(p) PROVE OnceInv'
  <2>1. PICK list \in ByDate(job[p].new) :
          /\ Synced(p, list) \in Docs
          /\ Write(p, Synced(p, list))
    BY <1>4, SyncWriteJob
  <2>2. UNCHANGED iris /\ now' \in Nat /\ now <= now'
    BY <1>0, <1>4, SyncWriteJob
  <2>3. Once(spine', now', loose')
    BY <1>4, OnceSync
  <2> QED
    BY <1>2, <2>1, <2>2, <2>3
<1>5. ASSUME NEW p \in Procs, \A q \in Procs \ {p} : job'[q] = job[q],
             job'[p].op \notin {"mutate", "sync"}, HumanRows' \subseteq HumanRows,
             UNCHANGED <<spine, now, loose>>
      PROVE  OnceInv'
  <2>1. now' \in Nat /\ now <= now'
    BY <1>0, <1>5
  <2>2. RowsDated'
    BY <1>0, <1>5, <2>1, DatedStays
  <2> QED
    BY <1>5, <2>1, <2>2, OnceKept DEF Writer, Fetched, At
<1>6. ASSUME UNCHANGED iris PROVE HumanRows' \subseteq HumanRows
  BY <1>6 DEF HumanRows
<1>7. ASSUME NEW p \in Procs, Ends(p) PROVE OnceInv'
  BY <1>5, <1>6, <1>7, EndsJob
<1>8. ASSUME NEW p \in Procs, NEW i \in 0..Len(iris), Find(p, i) PROVE OnceInv'
  BY <1>5, <1>6, <1>8, FindJob
<1>9. ASSUME NEW p \in Procs, Create(p) PROVE OnceInv'
  BY <1>5, <1>9, CreateHumans, CreateJob
<1>10. ASSUME NEW p \in Procs, NEW blind \in BOOLEAN, Furnish(p, blind) PROVE OnceInv'
  BY <1>5, <1>10, FurnishHumans, FurnishJob
<1>11. ASSUME NEW p \in Procs, NEW blind \in BOOLEAN, NEW failed \in BOOLEAN, ReadTags(p, blind, failed) PROVE OnceInv'
  BY <1>5, <1>6, <1>11, ReadTagsJob
<1>12. ASSUME NEW p \in Procs, NEW k \in DOMAIN job[p].doc.log,
              NEW outcome \in {"posted", "refused", "unanswered"}, Post(p, k, outcome)
       PROVE  OnceInv'
  <2>1. /\ job'[p].op = "iris" /\ UNCHANGED <<spine, now, loose>>
        /\ \A q \in Procs \ {p} : job'[q] = job[q]
    BY <1>12, PostJob
  <2> QED
    BY <1>5, <1>12, <2>1, PostHumans
<1>13. ASSUME NEW p \in Procs, NEW i \in DOMAIN iris,
              NEW unread \in SUBSET {"iris_note", "iris_event"}, Fetch(p, i, unread)
       PROVE  OnceInv'
  BY <1>13, OnceFetch
<1>14. ASSUME NEW p \in Procs, NEW override \in BOOLEAN, Page(p, override) PROVE OnceInv'
  BY <1>5, <1>6, <1>14, PageJob
<1>15. ASSUME NEW p \in Procs, NEW failed \in BOOLEAN, Reread(p, failed) PROVE OnceInv'
  BY <1>5, <1>6, <1>15, RereadJob
<1>16. ASSUME UNCHANGED <<spine, job, loose>>, RowsDated', now' \in Nat, now <= now' PROVE OnceInv'
  BY <1>16, OnceKept DEF Writer, Fetched, At
<1>17. CASE Tamper
  <2>1. RowsDated' /\ UNCHANGED <<spine, job, now, loose>>
    BY <1>0, <1>17 DEF Tamper, RowsDated, HumanRows, history
  <2> QED
    BY <1>0, <1>16, <2>1
<1>18. CASE Reattest
  <2>1. /\ UNCHANGED <<spine, iris, now, loose>>
        /\ \A q \in Procs : job'[q].op = job[q].op /\ job'[q].pc = job[q].pc
                            /\ job'[q].doc = job[q].doc /\ job'[q].new = job[q].new
                            /\ job'[q].was = job[q].was
    BY <1>18, ReattestJob
  <2>2. RowsDated' /\ now' \in Nat /\ now <= now'
    BY <1>0, <2>1 DEF RowsDated, HumanRows
  <2> QED
    BY <2>1, <2>2, OnceKept DEF Writer, Fetched, At
<1>19. ASSUME NEW i \in DOMAIN iris, NEW kind \in {"iris_note", "iris_event"}, NEW offset \in Offsets,
              Compose(i, kind, offset)
       PROVE  OnceInv'
  <2>1. PICK row \in RowShapes :
          /\ row.id # 0 /\ row.ts = now' + offset /\ (~ row.ahead => offset <= 0)
          /\ HumanRows' \subseteq HumanRows \cup {row}
    BY <1>19, ComposeHumans
  <2>2. now' = now + 1 /\ UNCHANGED <<spine, job, loose>> /\ offset \in Int
    BY <1>19, PublishAssumption, ComposeRows
  <2>3. \A r \in HumanRows : r.ts \in Int
    BY DEF HumanRows, RowShapes
  <2>4. RowsDated'
    BY <1>0, <2>1, <2>2, <2>3 DEF RowsDated
  <2> QED
    BY <1>0, <1>16, <2>2, <2>4
<1>20. ASSUME NEW i \in DOMAIN iris, NEW n \in DOMAIN iris[i].rows, Edit(i, n) PROVE OnceInv'
  <2>1. PICK row \in RowShapes :
          /\ (\E r \in HumanRows : row.id = r.id) /\ row.ts = now'
          /\ HumanRows' \subseteq HumanRows \cup {row}
    BY <1>20, EditHumans
  <2>2. now' = now + 1 /\ UNCHANGED <<spine, job, loose>>
    BY <1>20, EditRows
  <2>3. \A r \in HumanRows : r.ts \in Int
    BY DEF HumanRows, RowShapes
  <2>4. RowsDated'
    BY <1>0, <2>1, <2>2, <2>3 DEF RowsDated
  <2> QED
    BY <1>0, <1>16, <2>2, <2>4
<1>21. ASSUME NEW i \in DOMAIN iris, CloseInIris(i) PROVE OnceInv'
  <2>1. UNCHANGED <<spine, job, now, loose>>
    BY <1>21, ClosedRows
  <2>2. RowsDated'
    BY <1>0, <1>21, <2>1, ClosedHumans, DatedStays
  <2> QED
    BY <1>0, <1>16, <2>1, <2>2
<1>22. CASE UNCHANGED vars
  <2>1. RowsDated' /\ UNCHANGED <<spine, job, now, loose>>
    BY <1>0, <1>22 DEF vars, RowsDated, HumanRows, history
  <2> QED
    BY <1>0, <1>16, <2>1
<1> QED
  BY <1>1, <1>3, <1>4, <1>7, <1>8, <1>9, <1>10, <1>11, <1>12, <1>13, <1>14, <1>15, <1>17, <1>18,
     <1>19, <1>20, <1>21, <1>22, Steps

\* What a person wrote in IRIS, at one time and not dated ahead, is once in the timeline,
\* whatever runs overlap, die, or overwrite each other (sync_iris_to_spine.py's main): the
\* cursor travels with the entries, in the copy that is read and written back, unless the
\* copy was made of receipts, which keep entries and no cursor, and was written back.
THEOREM HumansComeOnce == Spec => []HumanOnce
<1>1. Init => OnceInv
  <2> SUFFICES ASSUME Init PROVE OnceInv
    OBVIOUS
  <2>1. \A p \in Procs : ~ Writer(p) /\ ~ Fetched(p)
    BY RestShape DEF Init, Writer, Fetched, At
  <2>2. Once(spine, now, loose)
    BY DEF Init, Fresh, Once
  <2>3. HumanRows = {}
    BY NoHumansAtFirst
  <2> QED
    BY <2>1, <2>2, <2>3 DEF OnceInv, RowsDated
<1>2. ShapeInv /\ OnceInv /\ [Next]_vars => OnceInv'
  BY OnceStep
<1>3. OnceInv => HumanOnce
  BY DEF OnceInv, Once, HumanOnce
<1> QED
  BY <1>1, <1>2, <1>3, Shaped, PTL DEF Spec

----------------------------------------------------------------------------
\* At all.

\* What the cursor of a copy has passed is in the copy, or excused.
Arrived(doc) ==
  \A r \in HumanRows : r.ts <= doc.cursor => r.excused \/ Human(r) \in ToSet(doc.log)

Taken(p) == \A r \in HumanRows : r.excused \/ Human(r) \in ToSet(job[p].doc.log) \cup job[p].new

\* What is dated before any cursor is excused.
Early == \A r \in HumanRows : r.ts <= 0 => r.excused

ArriveInv ==
  /\ Early
  /\ Arrived(spine)
  /\ \A p \in Procs : Writer(p) => Arrived(job[p].doc)
  /\ \A p \in Procs : Fetched(p) => Taken(p)

\* Each row of a person's after the step is one from before it, excused at least as much.
Followed ==
  \A r \in HumanRows' : \E s \in HumanRows :
    Human(r) = Human(s) /\ r.ts = s.ts /\ (s.excused => r.excused)

LEMMA ArriveKept ==
  ASSUME ArriveInv, Followed, spine' = spine \/ Arrived(spine)',
         \A q \in Procs : Writer(q)' =>
           Arrived(job[q].doc)' \/ (Writer(q) /\ job'[q].doc = job[q].doc),
         \A q \in Procs : Fetched(q)' =>
           Taken(q)' \/ (Fetched(q) /\ job'[q].doc = job[q].doc /\ job'[q].new = job[q].new)
  PROVE  ArriveInv'
<1>1. Arrived(spine)'
  BY DEF ArriveInv, Arrived, Followed
<1>2. ASSUME NEW q \in Procs, Writer(q)' PROVE Arrived(job[q].doc)'
  BY <1>2 DEF ArriveInv, Arrived, Followed
<1>3. ASSUME NEW q \in Procs, Fetched(q)' PROVE Taken(q)'
  BY <1>3 DEF ArriveInv, Taken, Followed
<1>4. Early'
  BY DEF ArriveInv, Early, Followed
<1> QED
  BY <1>1, <1>2, <1>3, <1>4 DEF ArriveInv

\* What is added or dated anew is excused if any cursor, or any run, is ahead of it.
LEMMA ArrivePeople ==
  ASSUME ShapeInv, ArriveInv, NEW row \in RowShapes, row.excused = Passed(row.ts), HumanRows' \subseteq HumanRows \cup {row},
         UNCHANGED <<spine, job>>
  PROVE  ArriveInv'
<1>1. Arrived(spine)'
  BY DEF ArriveInv, Arrived, Passed
<1>2. ASSUME NEW q \in Procs, Writer(q)' PROVE Arrived(job[q].doc)'
  <2>1. Arrived(job[q].doc) /\ (row.ts <= job[q].doc.cursor => Passed(row.ts))
    BY <1>2 DEF ArriveInv, Writer, Passed
  <2> QED
    BY <2>1 DEF Arrived
<1>3. ASSUME NEW q \in Procs, Fetched(q)' PROVE Taken(q)'
  <2>1. Taken(q) /\ Passed(row.ts)
    BY <1>3 DEF ArriveInv, Fetched, At, Passed
  <2> QED
    BY <2>1 DEF Taken
<1>4. Early'
  <2>1. row.ts \in Int /\ spine.cursor \in Nat
    BY DEF RowShapes, ShapeInv, Docs
  <2>2. row.ts <= 0 => Passed(row.ts)
    BY <2>1 DEF Passed
  <2> QED
    BY <2>2 DEF ArriveInv, Early
<1> QED
  BY <1>1, <1>2, <1>3, <1>4 DEF ArriveInv

LEMMA ArriveMutate ==
  ASSUME ShapeInv, ArriveInv, NEW p \in Procs, NEW list \in Writes, Mutate(p, list)
  PROVE  Arrived(spine)'
<1> DEFINE old == job[p].doc.log
           added == Entries(list)
           log == old \o added
<1>1. /\ Write(p, Mutated(p, list)) /\ Mutated(p, list) \in Docs
      /\ Mutated(p, list).log = log /\ Mutated(p, list).cursor = job[p].doc.cursor
      /\ added \in Seq(EntryShapes)
      /\ job[p].doc \in Docs /\ job[p].op = "mutate" /\ iris' = iris
  BY MutateJob
<1>2. spine'.log = log /\ spine'.cursor = job[p].doc.cursor
  BY <1>1, Signed
<1>3. old \in Seq(EntryShapes)
  BY <1>1 DEF Docs
<1> HIDE DEF added
<1>4. \A n \in DOMAIN old : n \in DOMAIN log /\ log[n] = old[n]
  BY <1>1, <1>3
<1>5. Arrived(job[p].doc)
  BY <1>1 DEF ArriveInv, Writer
<1> HIDE DEF log
<1>6. ToSet(old) \subseteq ToSet(log)
  BY <1>4 DEF ToSet
<1>7. HumanRows' = HumanRows
  BY <1>1 DEF HumanRows
<1> QED
  BY <1>2, <1>5, <1>6, <1>7 DEF Arrived

LEMMA ArriveSync ==
  ASSUME ShapeInv, ArriveInv, NEW p \in Procs, SyncWrite(p)
  PROVE  Arrived(spine)'
<1>1. PICK list \in ByDate(job[p].new) :
        /\ Synced(p, list) \in Docs
        /\ Write(p, Synced(p, list))
        /\ Synced(p, list).log = job[p].doc.log \o list
  BY SyncWriteJob
<1> DEFINE old == job[p].doc.log
           log == old \o list
<1>2. /\ job[p].doc \in Docs /\ job[p].new \in Batches /\ Fetched(p) /\ iris' = iris
  BY SyncWriteJob
<1>3. spine'.log = log
  BY <1>1, Signed
<1>4. old \in Seq(EntryShapes) /\ list \in Seq(EntryShapes) /\ ToSet(list) = job[p].new
  BY <1>2, Arranged DEF Docs
<1> HIDE DEF old
<1>5. /\ \A n \in DOMAIN old : n \in DOMAIN log /\ log[n] = old[n]
      /\ \A n \in DOMAIN list : n + Len(old) \in DOMAIN log /\ log[n + Len(old)] = list[n]
  BY <1>4
<1> HIDE DEF log
<1>6. ToSet(old) \cup ToSet(list) \subseteq ToSet(log)
  BY <1>5 DEF ToSet
<1>7. HumanRows' = HumanRows
  BY <1>2 DEF HumanRows
<1>8. \A r \in HumanRows : r.excused \/ Human(r) \in ToSet(old) \cup ToSet(list)
  BY <1>2, <1>4 DEF ArriveInv, Taken, old
<1> QED
  BY <1>3, <1>6, <1>7, <1>8 DEF Arrived

LEMMA ArriveFetch ==
  ASSUME ShapeInv, ArriveInv, NEW p \in Procs, NEW i \in DOMAIN iris,
         NEW unread \in SUBSET {"iris_note", "iris_event"}, Fetch(p, i, unread)
  PROVE  ArriveInv'
<1> DEFINE new == Newer(p, HumanActivity(i, unread))
<1>1. /\ \A q \in Procs \ {p} : job'[q] = job[q]
      /\ job[p].op = "sync"
      /\ \/ job'[p].op = "none"
         \/ job'[p].op = "sync" /\ job'[p].doc = job[p].doc /\ job'[p].new = {Human(r) : r \in new}
      /\ UNCHANGED spine
  BY FetchJob
<1>2. Followed
  BY FetchHumans DEF Followed
<1>3. \A q \in Procs : Writer(q)' => Arrived(job[q].doc)' \/ (Writer(q) /\ job'[q].doc = job[q].doc)
  BY <1>1 DEF Writer
<1>4. ASSUME job'[p].op = "sync" PROVE Taken(p)'
  <2> SUFFICES ASSUME NEW r \in HumanRows'
               PROVE  r.excused \/ Human(r) \in ToSet(job'[p].doc.log) \cup job'[p].new
    BY DEF Taken
  <2>1. job'[p].doc = job[p].doc /\ job'[p].new = {Human(s) : s \in new}
    BY <1>1, <1>4
  <2>2. PICK s \in HumanRows :
          /\ Human(r) = Human(s) /\ r.ts = s.ts /\ (s.excused => r.excused)
          /\ r.excused \/ s \in new \/ r.ts <= job[p].doc.cursor
    BY <1>4, FetchHumans
  <2>3. Arrived(job[p].doc)
    BY <1>1 DEF ArriveInv, Writer
  <2>4. r.ts <= job[p].doc.cursor => r.excused \/ Human(r) \in ToSet(job[p].doc.log)
    BY <2>2, <2>3 DEF Arrived
  <2> QED
    BY <2>1, <2>2, <2>4
<1>5. \A q \in Procs : Fetched(q)' =>
        Taken(q)' \/ (Fetched(q) /\ job'[q].doc = job[q].doc /\ job'[q].new = job[q].new)
  <2> SUFFICES ASSUME NEW q \in Procs, Fetched(q)'
               PROVE  Taken(q)' \/ (Fetched(q) /\ job'[q].doc = job[q].doc /\ job'[q].new = job[q].new)
    OBVIOUS
  <2>1. CASE q = p
    <3>1. job'[p].op = "sync"
      BY <2>1 DEF Fetched, At
    <3> QED
      BY <1>4, <2>1, <3>1
  <2>2. CASE q # p
    BY <1>1, <2>2 DEF Fetched, At
  <2> QED
    BY <2>1, <2>2
<1> QED
  BY <1>1, <1>2, <1>3, <1>5, ArriveKept

LEMMA ArriveStep == ShapeInv /\ ArriveInv /\ [Next]_vars => ArriveInv'
<1> SUFFICES ASSUME ShapeInv, ArriveInv, [Next]_vars PROVE ArriveInv'
  OBVIOUS
<1>0. ASSUME HumanRows' \subseteq HumanRows PROVE Followed
  BY <1>0 DEF Followed
<1>6. ASSUME UNCHANGED iris PROVE HumanRows' \subseteq HumanRows
  BY <1>6 DEF HumanRows
<1>1. ASSUME NEW p \in Procs, NEW op \in AllOps, NEW failed \in BOOLEAN, Begin(p, op, failed) PROVE ArriveInv'
  <2>1. /\ job'[p].doc = GetCase(failed) /\ job'[p].pc = "read" /\ UNCHANGED <<spine, iris>>
        /\ \A q \in Procs \ {p} : job'[q].op = job[q].op /\ job'[q].pc = job[q].pc
                                  /\ job'[q].doc = job[q].doc /\ job'[q].new = job[q].new
    BY <1>1, BeginJob
  <2>2. Followed /\ HumanRows' = HumanRows
    BY <1>0, <1>6, <2>1 DEF HumanRows
  <2>3. Arrived(job[p].doc)'
    <3>1. CASE failed
      <4>1. job'[p].doc.cursor = 0
        BY <2>1, <3>1, CopyShape
      <4> QED
        BY <2>2, <4>1 DEF ArriveInv, Arrived, Early
    <3>2. CASE ~ failed
      <4>1. job'[p].doc = spine
        BY <2>1, <3>2, CopyShape
      <4> QED
        BY <2>2, <4>1 DEF ArriveInv, Arrived
    <3> QED
      BY <3>1, <3>2
  <2>4. ASSUME NEW q \in Procs, Writer(q)'
        PROVE  Arrived(job[q].doc)' \/ (Writer(q) /\ job'[q].doc = job[q].doc)
    <3>1. CASE q = p
      BY <2>3, <3>1
    <3>2. CASE q # p
      BY <2>1, <2>4, <3>2 DEF Writer
    <3> QED
      BY <3>1, <3>2
  <2>5. \A q \in Procs : Fetched(q)' =>
          Fetched(q) /\ job'[q].doc = job[q].doc /\ job'[q].new = job[q].new
    BY <2>1 DEF Fetched, At
  <2> QED
    BY <2>1, <2>2, <2>4, <2>5, ArriveKept
<1>2. ASSUME NEW p \in Procs, NEW doc \in Docs, Write(p, doc), Arrived(spine)', UNCHANGED iris
      PROVE  ArriveInv'
  <2>1. /\ job'[p].op = "none"
        /\ \A q \in Procs \ {p} : job'[q].op = job[q].op /\ job'[q].pc = job[q].pc
                                  /\ job'[q].doc = job[q].doc /\ job'[q].new = job[q].new
    BY <1>2, Signed
  <2>2. Followed
    BY <1>0, <1>6, <1>2
  <2> QED
    BY <1>2, <2>1, <2>2, ArriveKept DEF Writer, Fetched, At
<1>3. ASSUME NEW p \in Procs, NEW list \in Writes, Mutate(p, list) PROVE ArriveInv'
  <2>1. Mutated(p, list) \in Docs /\ Write(p, Mutated(p, list)) /\ UNCHANGED iris
    BY <1>3, MutateJob
  <2>2. Arrived(spine)'
    BY <1>3, ArriveMutate
  <2> QED
    BY <1>2, <2>1, <2>2
<1>4. ASSUME NEW p \in Procs, SyncWrite(p) PROVE ArriveInv'
  <2>1. PICK list \in ByDate(job[p].new) :
          /\ Synced(p, list) \in Docs
          /\ Write(p, Synced(p, list))
    BY <1>4, SyncWriteJob
  <2>2. UNCHANGED iris
    BY <1>4, SyncWriteJob
  <2>3. Arrived(spine)'
    BY <1>4, ArriveSync
  <2> QED
    BY <1>2, <2>1, <2>2, <2>3
<1>5. ASSUME NEW p \in Procs, \A q \in Procs \ {p} : job'[q] = job[q],
             job'[p].op \notin {"mutate", "sync"}, HumanRows' \subseteq HumanRows, UNCHANGED spine
      PROVE  ArriveInv'
  BY <1>0, <1>5, ArriveKept DEF Writer, Fetched, At
<1>7. ASSUME NEW p \in Procs, Ends(p) PROVE ArriveInv'
  BY <1>5, <1>6, <1>7, EndsJob
<1>8. ASSUME NEW p \in Procs, NEW i \in 0..Len(iris), Find(p, i) PROVE ArriveInv'
  BY <1>5, <1>6, <1>8, FindJob
<1>9. ASSUME NEW p \in Procs, Create(p) PROVE ArriveInv'
  BY <1>5, <1>9, CreateHumans, CreateJob
<1>10. ASSUME NEW p \in Procs, NEW blind \in BOOLEAN, Furnish(p, blind) PROVE ArriveInv'
  BY <1>5, <1>10, FurnishHumans, FurnishJob
<1>11. ASSUME NEW p \in Procs, NEW blind \in BOOLEAN, NEW failed \in BOOLEAN, ReadTags(p, blind, failed) PROVE ArriveInv'
  BY <1>5, <1>6, <1>11, ReadTagsJob
<1>12. ASSUME NEW p \in Procs, NEW k \in DOMAIN job[p].doc.log,
              NEW outcome \in {"posted", "refused", "unanswered"}, Post(p, k, outcome)
       PROVE  ArriveInv'
  <2>1. /\ job'[p].op = "iris" /\ UNCHANGED spine
        /\ \A q \in Procs \ {p} : job'[q] = job[q]
    BY <1>12, PostJob
  <2> QED
    BY <1>5, <1>12, <2>1, PostHumans
<1>13. ASSUME NEW p \in Procs, NEW i \in DOMAIN iris,
              NEW unread \in SUBSET {"iris_note", "iris_event"}, Fetch(p, i, unread)
       PROVE  ArriveInv'
  BY <1>13, ArriveFetch
<1>14. ASSUME NEW p \in Procs, NEW override \in BOOLEAN, Page(p, override) PROVE ArriveInv'
  BY <1>5, <1>6, <1>14, PageJob
<1>15. ASSUME NEW p \in Procs, NEW failed \in BOOLEAN, Reread(p, failed) PROVE ArriveInv'
  BY <1>5, <1>6, <1>15, RereadJob
<1>16. ASSUME UNCHANGED <<spine, job>>, HumanRows' \subseteq HumanRows PROVE ArriveInv'
  BY <1>0, <1>16, ArriveKept DEF Writer, Fetched, At
<1>17. CASE Tamper
  BY <1>6, <1>16, <1>17 DEF Tamper
<1>18. CASE Reattest
  <2>1. /\ UNCHANGED <<spine, iris>>
        /\ \A q \in Procs : job'[q].op = job[q].op /\ job'[q].pc = job[q].pc
                            /\ job'[q].doc = job[q].doc /\ job'[q].new = job[q].new
    BY <1>18, ReattestJob
  <2>2. Followed
    BY <1>0, <1>6, <2>1
  <2> QED
    BY <2>1, <2>2, ArriveKept DEF Writer, Fetched, At
<1>19. ASSUME NEW i \in DOMAIN iris, NEW kind \in {"iris_note", "iris_event"}, NEW offset \in Offsets,
              Compose(i, kind, offset)
       PROVE  ArriveInv'
  <2>1. PICK row \in RowShapes :
          row.excused = Passed(row.ts) /\ HumanRows' \subseteq HumanRows \cup {row}
    BY <1>19, ComposeHumans
  <2>2. UNCHANGED <<spine, job>>
    BY <1>19, ComposeRows
  <2> QED
    BY <2>1, <2>2, ArrivePeople
<1>20. ASSUME NEW i \in DOMAIN iris, NEW n \in DOMAIN iris[i].rows, Edit(i, n) PROVE ArriveInv'
  <2>1. PICK row \in RowShapes :
          row.excused = Passed(row.ts) /\ HumanRows' \subseteq HumanRows \cup {row}
    BY <1>20, EditHumans
  <2>2. UNCHANGED <<spine, job>>
    BY <1>20, EditRows
  <2> QED
    BY <2>1, <2>2, ArrivePeople
<1>21. ASSUME NEW i \in DOMAIN iris, CloseInIris(i) PROVE ArriveInv'
  BY <1>16, <1>21, ClosedHumans, ClosedRows
<1>22. CASE UNCHANGED vars
  BY <1>6, <1>16, <1>22 DEF vars
<1> QED
  BY <1>1, <1>3, <1>4, <1>7, <1>8, <1>9, <1>10, <1>11, <1>12, <1>13, <1>14, <1>15, <1>17, <1>18,
     <1>19, <1>20, <1>21, <1>22, Steps

\* The cursor passes nothing a person wrote without bringing it to the timeline, but what was
\* written while a run was between its reading and its writing, what was dated back behind
\* it, what a run could not read, and what is on another IRIS case of the same case
\* (sync_iris_to_spine.py's main, IrisClient.get_human_activity).
THEOREM HumansCome == Spec => []HumanArrives
<1>1. Init => ArriveInv
  <2> SUFFICES ASSUME Init PROVE ArriveInv
    OBVIOUS
  <2>1. \A p \in Procs : ~ Writer(p) /\ ~ Fetched(p)
    BY RestShape DEF Init, Writer, Fetched, At
  <2>2. HumanRows = {}
    BY NoHumansAtFirst
  <2> QED
    BY <2>1, <2>2 DEF ArriveInv, Arrived, Early
<1>2. ShapeInv /\ ArriveInv /\ [Next]_vars => ArriveInv'
  BY ArriveStep
<1>3. ShapeInv /\ ArriveInv => HumanArrives
  BY TheirsAreHuman DEF ArriveInv, Arrived, HumanArrives
<1> QED
  BY <1>1, <1>2, <1>3, Shaped, PTL DEF Spec

----------------------------------------------------------------------------
\* Copies in IRIS.

\* MirrorsAreExcused, of one IRIS case: two rows of the publisher's alike, one is excused.
Excused(rows) ==
  \A m, n \in DOMAIN rows :
    m < n /\ rows[m].by = "ssop" /\ rows[n].by = "ssop" /\ rows[m].kind = rows[n].kind
      /\ rows[m].tag = rows[n].tag
      => rows[m].excused \/ rows[n].excused

\* And of the IRIS cases: the later of two that are open is.
Opened == \A i, j \in DOMAIN iris : iris[i].open /\ iris[j].open /\ i < j => iris[j].paid

\* Two runs of the publisher at once are both excused.
Alone == \A p, q \in Procs : p # q /\ job[p].op = "iris" /\ job[q].op = "iris" => job[p].paid

Seen(rows, seen) ==
  \A n \in DOMAIN rows : rows[n].by = "ssop" /\ rows[n].kind = "event" => rows[n].tag \in seen

\* A run that is not excused knows: when it is about to make an IRIS case, none is open, and
\* when it posts, it has seen every event there is.
Knows(p) ==
  job[p].op = "iris" /\ ~ job[p].paid =>
    /\ job[p].pc = "create" => \A j \in DOMAIN iris : ~ iris[j].open
    /\ job[p].pc = "post" => Seen(iris[job[p].at].rows, job[p].seen)

MirrorInv ==
  /\ Opened
  /\ \A i \in DOMAIN iris : Excused(iris[i].rows)
  /\ Alone
  /\ \A p \in Procs : Knows(p)

LEMMA MirrorSays == ShapeInv /\ MirrorInv => MirrorsAreExcused
<1> SUFFICES ASSUME ShapeInv, MirrorInv PROVE MirrorsAreExcused
  OBVIOUS
<1>1. \A i, j \in OpenCases : i < j => iris[j].paid
  BY DEF MirrorInv, Opened, OpenCases
<1>2. ASSUME NEW i \in DOMAIN iris, NEW m \in DOMAIN iris[i].rows, NEW n \in DOMAIN iris[i].rows,
             m < n, iris[i].rows[m].by = "ssop", iris[i].rows[n].by = "ssop",
             iris[i].rows[m].kind = iris[i].rows[n].kind, iris[i].rows[m].tag = iris[i].rows[n].tag
      PROVE  iris[i].rows[m].excused \/ iris[i].rows[n].excused
  BY <1>2 DEF MirrorInv, Excused
<1> QED
  BY <1>1, <1>2 DEF MirrorsAreExcused

\* One more row, of a person's, or excused, or unlike those there are.
LEMMA OneMore ==
  ASSUME NEW rows \in Seq(RowShapes), NEW row \in RowShapes, Excused(rows),
         \/ row.by = "human"
         \/ row.excused
         \/ \A n \in DOMAIN rows :
              rows[n].by = "ssop" /\ rows[n].kind = row.kind => rows[n].tag # row.tag
  PROVE  Append(rows, row) \in Seq(RowShapes) /\ Excused(Append(rows, row))
<1> DEFINE all == Append(rows, row)
<1>1. /\ all \in Seq(RowShapes) /\ DOMAIN all = 1..(Len(rows) + 1) /\ Len(rows) \in Nat
      /\ DOMAIN rows = 1..Len(rows)
      /\ \A n \in DOMAIN rows : all[n] = rows[n]
      /\ all[Len(rows) + 1] = row
  OBVIOUS
<1> HIDE DEF all
<1>2. ASSUME NEW m \in DOMAIN all, NEW n \in DOMAIN all, m < n,
             all[m].by = "ssop", all[n].by = "ssop", all[m].kind = all[n].kind, all[m].tag = all[n].tag
      PROVE  all[m].excused \/ all[n].excused
  <2>1. m \in DOMAIN rows /\ all[m] = rows[m]
    BY <1>1, <1>2
  <2>2. CASE n \in DOMAIN rows
    BY <1>1, <1>2, <2>1, <2>2 DEF Excused
  <2>3. CASE n = Len(rows) + 1
    BY <1>1, <1>2, <2>1, <2>3
  <2> QED
    BY <1>1, <2>2, <2>3
<1>3. Excused(all)
  BY <1>2 DEF Excused
<1> QED
  BY <1>1, <1>3 DEF all

\* What is found missing, where the list could be read, is unlike what is there.
LEMMA Furnished ==
  ASSUME NEW p, NEW blind \in BOOLEAN, NEW paid \in BOOLEAN, blind => paid, job[p].doc \in Docs,
         NEW rows \in Seq(RowShapes), rows = iris[job[p].at].rows, Excused(rows)
  PROVE  Excused(rows \o NoteMissing(p, blind, paid) \o IocsMissing(p, blind, paid))
<1> DEFINE note == Row("note", job[p].doc.state, paid)
           ioc == Row("ioc", "observable", paid)
<1>1. /\ note \in RowShapes /\ note.kind = "note" /\ note.excused = paid /\ note.by = "ssop"
      /\ ioc \in RowShapes /\ ioc.kind = "ioc" /\ ioc.excused = paid /\ ioc.by = "ssop"
  <2>1. job[p].doc.state \in Tags /\ "observable" \in Tags
    BY DEF Tags, Docs
  <2> QED
    BY <2>1, RowShape DEF Kinds
<1>2. NoteMissing(p, blind, paid) = (IF ~ blind /\ note.tag \in Ours(job[p].at, "note") THEN <<>> ELSE <<note>>)
  BY DEF NoteMissing
<1>3. \/ IocsMissing(p, blind, paid) = <<>>
      \/ /\ IocsMissing(p, blind, paid) = <<ioc>>
         /\ blind \/ ioc.tag \notin Ours(job[p].at, "ioc")
  BY DEF IocsMissing
<1> HIDE DEF note, ioc
<1>4. /\ \A n \in DOMAIN rows : rows[n].by = "ssop" /\ rows[n].kind = "note" =>
           rows[n].tag \in Ours(job[p].at, "note")
      /\ \A n \in DOMAIN rows : rows[n].by = "ssop" /\ rows[n].kind = "ioc" =>
           rows[n].tag \in Ours(job[p].at, "ioc")
  BY DEF Ours, Rows, ToSet
<1> DEFINE first == rows \o NoteMissing(p, blind, paid)
<1>5. /\ first \in Seq(RowShapes) /\ Excused(first)
      /\ \A n \in DOMAIN first : n \notin DOMAIN rows \/ first[n] # rows[n] => first[n].kind = "note"
  <2>1. CASE NoteMissing(p, blind, paid) = <<>>
    <3>1. first = rows
      BY <2>1
    <3> QED
      BY <3>1
  <2>2. CASE /\ NoteMissing(p, blind, paid) = <<note>>
             /\ blind \/ note.tag \notin Ours(job[p].at, "note")
    <3>1. first = Append(rows, note)
      <4>1. rows \o <<note>> = Append(rows, note)
        BY <1>1, AppendIsConcat
      <4> QED
        BY <2>2, <4>1
    <3>2. Append(rows, note) \in Seq(RowShapes) /\ Excused(Append(rows, note))
      BY <1>1, <1>4, <2>2, OneMore
    <3>3. \A n \in DOMAIN Append(rows, note) :
            (n \in DOMAIN rows /\ Append(rows, note)[n] = rows[n]) \/ Append(rows, note)[n] = note
      OBVIOUS
    <3> HIDE DEF first
    <3> QED
      BY <1>1, <3>1, <3>2, <3>3
  <2> QED
    BY <1>2, <2>1, <2>2
<1> HIDE DEF first
<1>6. Excused(first \o IocsMissing(p, blind, paid))
  <2>1. CASE IocsMissing(p, blind, paid) = <<>>
    BY <1>5, <2>1
  <2>2. CASE /\ IocsMissing(p, blind, paid) = <<ioc>>
             /\ blind \/ ioc.tag \notin Ours(job[p].at, "ioc")
    <3>1. first \o IocsMissing(p, blind, paid) = Append(first, ioc)
      BY <1>5, <2>2
    <3>2. \A n \in DOMAIN first : first[n].by = "ssop" /\ first[n].kind = "ioc" =>
            first[n].tag \in Ours(job[p].at, "ioc")
      BY <1>4, <1>5
    <3>3. Excused(Append(first, ioc))
      BY <1>1, <1>5, <2>2, <3>2, OneMore
    <3> QED
      BY <3>1, <3>3
  <2> QED
    BY <1>3, <2>1, <2>2
<1> QED
  BY <1>6 DEF first

\* A step that neither repeats a row nor opens an IRIS case, and whose runs know what they
\* knew.
LEMMA MirrorKept ==
  ASSUME ShapeInv, MirrorInv, DOMAIN iris' = DOMAIN iris,
         \A j \in DOMAIN iris : (iris'[j].open => iris[j].open) /\ iris'[j].paid = iris[j].paid,
         \A j \in DOMAIN iris : Excused(iris'[j].rows),
         \A j \in DOMAIN iris : \A n \in DOMAIN iris'[j].rows :
           iris'[j].rows[n].by = "ssop" /\ iris'[j].rows[n].kind = "event" =>
             \E m \in DOMAIN iris[j].rows :
               iris[j].rows[m].by = "ssop" /\ iris[j].rows[m].kind = "event"
                 /\ iris[j].rows[m].tag = iris'[j].rows[n].tag,
         \A q \in Procs : job'[q].op = "iris" =>
           /\ job[q].op = "iris" /\ job'[q].pc = job[q].pc /\ job'[q].at = job[q].at
           /\ job'[q].seen = job[q].seen /\ (job[q].paid => job'[q].paid)
  PROVE  MirrorInv'
<1>1. Opened'
  BY DEF MirrorInv, Opened
<1>2. Alone'
  BY DEF MirrorInv, Alone
<1>3. ASSUME NEW q \in Procs PROVE Knows(q)'
  <2> SUFFICES ASSUME job'[q].op = "iris", ~ job'[q].paid
               PROVE  /\ job'[q].pc = "create" => \A j \in DOMAIN iris' : ~ iris'[j].open
                      /\ job'[q].pc = "post" => Seen(iris'[job'[q].at].rows, job'[q].seen)
    BY DEF Knows
  <2>1. Knows(q) /\ Placed(q)
    BY DEF MirrorInv, ShapeInv
  <2> QED
    BY <2>1 DEF Knows, Placed, Seen
<1> QED
  BY <1>1, <1>2, <1>3 DEF MirrorInv

\* A step of one run of the publisher: the others have it as company.
LEMMA MirrorRun ==
  ASSUME ShapeInv, MirrorInv, NEW p \in Procs, job[p].op = "iris",
         \A q \in Procs \ {p} : job'[q] = job[q], job'[p].op = "iris",
         job[p].paid => job'[p].paid,
         Opened', \A i \in DOMAIN iris' : Excused(iris'[i].rows),
         ~ job'[p].paid =>
           /\ job'[p].pc = "create" => \A j \in DOMAIN iris' : ~ iris'[j].open
           /\ job'[p].pc = "post" => Seen(iris'[job'[p].at].rows, job'[p].seen)
  PROVE  MirrorInv'
<1>1. Alone'
  BY DEF MirrorInv, Alone
<1>2. ASSUME NEW q \in Procs PROVE Knows(q)'
  BY DEF MirrorInv, Alone, Knows
<1> QED
  BY <1>1, <1>2 DEF MirrorInv

LEMMA MirrorCreate ==
  ASSUME ShapeInv, MirrorInv, NEW p \in Procs, Create(p) PROVE MirrorInv'
<1>1. /\ \A q \in Procs \ {p} : job'[q] = job[q]
      /\ job[p].pc = "create" /\ job[p].op = "iris"
      /\ job'[p].op = "iris" /\ job'[p].pc = "note"
      /\ job'[p].paid = job[p].paid
      /\ iris' \in Seq(CaseShapes) /\ Len(iris') = Len(iris) + 1 /\ iris \in Seq(CaseShapes)
      /\ \A j \in DOMAIN iris : iris'[j] = iris[j]
      /\ iris'[Len(iris) + 1].rows = <<>> /\ iris'[Len(iris) + 1].paid = job[p].paid
  BY CreateJob DEF ShapeInv
<1>2. /\ \A j \in DOMAIN iris' : j \in DOMAIN iris \/ j = Len(iris) + 1
      /\ DOMAIN iris = 1..Len(iris) /\ DOMAIN iris' = 1..(Len(iris) + 1) /\ Len(iris) \in Nat
  BY <1>1
<1>3. Opened'
  <2> SUFFICES ASSUME NEW i \in DOMAIN iris', NEW j \in DOMAIN iris', iris'[i].open, iris'[j].open, i < j
               PROVE  iris'[j].paid
    BY DEF Opened
  <2>1. i \in DOMAIN iris /\ iris'[i] = iris[i]
    BY <1>1, <1>2
  <2>2. CASE j \in DOMAIN iris
    BY <1>1, <2>1, <2>2 DEF MirrorInv, Opened
  <2>3. CASE j = Len(iris) + 1
    BY <1>1, <2>1, <2>3 DEF MirrorInv, Knows
  <2> QED
    BY <1>2, <2>2, <2>3
<1>4. \A i \in DOMAIN iris' : Excused(iris'[i].rows)
  BY <1>1, <1>2 DEF MirrorInv, Excused
<1> QED
  BY <1>1, <1>3, <1>4, MirrorRun

LEMMA MirrorFurnish ==
  ASSUME ShapeInv, MirrorInv, NEW p \in Procs, NEW blind \in BOOLEAN, Furnish(p, blind)
  PROVE  MirrorInv'
<1> DEFINE i == job[p].at
           paid == job[p].paid \/ blind
           rows == iris[i].rows
<1>1. job[p] \in Jobs /\ iris \in Seq(CaseShapes) /\ i \in DOMAIN iris
  BY FurnishJob DEF ShapeInv
<1>2. paid \in BOOLEAN /\ iris[i] \in CaseShapes /\ (blind => paid) /\ job[p].doc \in Docs
  BY <1>1 DEF Jobs
<1>3. /\ DOMAIN iris' = DOMAIN iris /\ \A j \in DOMAIN iris \ {i} : iris'[j] = iris[j]
      /\ \A j \in DOMAIN iris : iris'[j].open = iris[j].open /\ iris'[j].paid = iris[j].paid
      /\ iris'[i].rows = rows \o NoteMissing(p, blind, paid) \o IocsMissing(p, blind, paid)
  BY FurnishJob, Zenon
<1>4. /\ \A q \in Procs \ {p} : job'[q] = job[q]
      /\ job[p].op = "iris" /\ job'[p].op = "iris" /\ job'[p].pc = "tags"
      /\ job[p].paid => job'[p].paid
  BY FurnishJob
<1>5. rows \in Seq(RowShapes) /\ Excused(rows)
  BY <1>1, <1>2 DEF CaseShapes, MirrorInv
<1> HIDE DEF paid
<1>6. Excused(iris'[i].rows)
  BY <1>2, <1>3, <1>5, Furnished
<1>7. \A j \in DOMAIN iris' : Excused(iris'[j].rows)
  BY <1>3, <1>6 DEF MirrorInv
<1>8. Opened'
  BY <1>3 DEF MirrorInv, Opened
<1> QED
  BY <1>4, <1>7, <1>8, MirrorRun

LEMMA MirrorPost ==
  ASSUME ShapeInv, MirrorInv, NEW p \in Procs, NEW k \in DOMAIN job[p].doc.log,
         NEW outcome \in {"posted", "refused", "unanswered"}, Post(p, k, outcome)
  PROVE  MirrorInv'
<1> DEFINE i == job[p].at
           tag == Tag(job[p].doc.log[k])
           paid == job[p].paid \/ outcome # "posted"
           row == Row("event", tag, paid)
           rows == iris[i].rows
<1>1. /\ job[p] \in Jobs /\ iris \in Seq(CaseShapes) /\ i \in DOMAIN iris
      /\ \A q \in Procs \ {p} : job'[q] = job[q]
      /\ job[p].op = "iris" /\ job[p].pc = "post" /\ job'[p].op = "iris" /\ job'[p].pc = "post"
      /\ job'[p].at = i /\ job'[p].paid = paid
      /\ tag \notin job[p].seen /\ tag \in Tags
      /\ outcome = "posted" => job'[p].seen = job[p].seen \cup {tag}
  BY PostJob DEF ShapeInv
<1>2. rows \in Seq(RowShapes) /\ Excused(rows) /\ paid \in BOOLEAN
  <2>1. iris[i] \in CaseShapes
    BY <1>1
  <2> QED
    BY <1>1, <2>1 DEF CaseShapes, MirrorInv
<1>3. (job[p].paid => paid) /\ (outcome # "posted" => paid)
  OBVIOUS
<1>4. ~ paid => Seen(rows, job[p].seen)
  BY <1>1 DEF MirrorInv, Knows
<1>5. CASE UNCHANGED iris /\ outcome # "posted"
  <2>1. Opened' /\ \A j \in DOMAIN iris' : Excused(iris'[j].rows)
    BY <1>5 DEF MirrorInv, Opened
  <2>2. job'[p].paid
    BY <1>1, <1>3, <1>5
  <2> HIDE DEF i, tag, paid, row, rows
  <2> QED
    BY <1>1, <2>1, <2>2, MirrorRun
<1>6. CASE Posted(p, job[p].doc.log[k], job[p].paid \/ outcome # "posted")
  <2>1. /\ DOMAIN iris' = DOMAIN iris /\ \A j \in DOMAIN iris \ {i} : iris'[j] = iris[j]
        /\ \A j \in DOMAIN iris : iris'[j].open = iris[j].open /\ iris'[j].paid = iris[j].paid
        /\ iris'[i].rows = Append(rows, row)
    BY <1>6 DEF Posted
  <2> HIDE DEF paid, tag
  <2>2. /\ row \in RowShapes /\ row.by = "ssop" /\ row.kind = "event" /\ row.tag = tag
        /\ row.excused = paid
    BY <1>1, <1>2, RowShape DEF Kinds
  <2> HIDE DEF row, rows
  <2>3. paid \/ \A n \in DOMAIN rows :
                  rows[n].by = "ssop" /\ rows[n].kind = row.kind => rows[n].tag # row.tag
    BY <1>1, <1>4, <2>2 DEF Seen
  <2>4. Excused(Append(rows, row))
    BY <1>2, <2>2, <2>3, OneMore
  <2>5. \A j \in DOMAIN iris' : Excused(iris'[j].rows)
    BY <2>1, <2>4 DEF MirrorInv
  <2>6. Opened'
    BY <2>1 DEF MirrorInv, Opened
  <2>7. ~ paid => Seen(Append(rows, row), job'[p].seen)
    <3> SUFFICES ASSUME ~ paid, NEW n \in DOMAIN Append(rows, row), Append(rows, row)[n].by = "ssop",
                        Append(rows, row)[n].kind = "event"
                 PROVE  Append(rows, row)[n].tag \in job[p].seen \cup {tag}
      BY <1>1, <1>3 DEF Seen
    <3>1. (n \in DOMAIN rows /\ Append(rows, row)[n] = rows[n]) \/ Append(rows, row)[n] = row
      BY <1>2
    <3> QED
      BY <1>4, <2>2, <3>1 DEF Seen
  <2>8. ~ job'[p].paid => Seen(iris'[job'[p].at].rows, job'[p].seen)
    BY <1>1, <2>1, <2>7
  <2>9. job[p].paid => job'[p].paid
    BY <1>1, <1>3
  <2> HIDE DEF i
  <2> QED
    BY <1>1, <2>5, <2>6, <2>8, <2>9, MirrorRun
<1> QED
  BY <1>5, <1>6, PostJob

LEMMA MirrorFetch ==
  ASSUME ShapeInv, MirrorInv, NEW p \in Procs, NEW i \in DOMAIN iris,
         NEW unread \in SUBSET {"iris_note", "iris_event"}, Fetch(p, i, unread)
  PROVE  MirrorInv'
<1>1. /\ \A q \in Procs \ {p} : job'[q] = job[q]
      /\ job'[p].op \in {"none", "sync"}
  BY FetchJob
<1>2. CASE UNCHANGED iris
  BY <1>1, <1>2, MirrorKept DEF MirrorInv
<1>3. CASE /\ DOMAIN iris' = DOMAIN iris
           /\ \A j \in DOMAIN iris :
                /\ iris'[j].open = iris[j].open /\ iris'[j].paid = iris[j].paid
                /\ iris'[j].rows = Marked(i, unread, j)
  <2>1. ASSUME NEW j \in DOMAIN iris
        PROVE  /\ DOMAIN iris'[j].rows = DOMAIN iris[j].rows
               /\ \A n \in DOMAIN iris[j].rows :
                    LET r == iris[j].rows[n] s == iris'[j].rows[n] IN
                    s.kind = r.kind /\ s.by = r.by /\ s.tag = r.tag /\ (r.excused => s.excused)
    <3>1. iris[j].rows \in Seq(RowShapes)
      <4>1. iris[j] \in CaseShapes
        BY DEF ShapeInv
      <4> QED
        BY <4>1 DEF CaseShapes
    <3>2. iris'[j].rows = Marked(i, unread, j)
      BY <1>3
    <3>3. DOMAIN Marked(i, unread, j) = DOMAIN iris[j].rows
      BY <3>1, MarkedShape
    <3>4. ASSUME NEW n \in DOMAIN iris[j].rows, NEW s, s = Marked(i, unread, j)[n]
          PROVE  /\ s.kind = iris[j].rows[n].kind /\ s.by = iris[j].rows[n].by
                 /\ s.tag = iris[j].rows[n].tag
                 /\ s.excused = (iris[j].rows[n].excused \/ Missed(i, unread, j, iris[j].rows[n]))
      BY <3>1, <3>4, MarkedShape
    <3> QED
      BY <3>2, <3>3, <3>4
  <2>2. ASSUME NEW j \in DOMAIN iris PROVE Excused(iris'[j].rows)
    <3>1. Excused(iris[j].rows)
      BY DEF MirrorInv
    <3> QED
      BY <2>1, <3>1 DEF Excused
  <2>3. ASSUME NEW j \in DOMAIN iris, NEW n \in DOMAIN iris'[j].rows,
               iris'[j].rows[n].by = "ssop", iris'[j].rows[n].kind = "event"
        PROVE  \E m \in DOMAIN iris[j].rows :
                 iris[j].rows[m].by = "ssop" /\ iris[j].rows[m].kind = "event"
                   /\ iris[j].rows[m].tag = iris'[j].rows[n].tag
    BY <2>1, <2>3
  <2> QED
    BY <1>1, <1>3, <2>2, <2>3, MirrorKept
<1> QED
  BY <1>2, <1>3, FetchJob

\* A person's row added, or one put in the place of another.
LEMMA MirrorCompose ==
  ASSUME ShapeInv, MirrorInv, NEW i \in DOMAIN iris, NEW kind \in {"iris_note", "iris_event"},
         NEW offset \in Offsets, Compose(i, kind, offset)
  PROVE  MirrorInv'
<1>1. PICK row \in RowShapes : row.by = "human" /\ iris'[i].rows = Append(iris[i].rows, row)
  BY ComposeRows
<1>2. /\ DOMAIN iris' = DOMAIN iris /\ \A j \in DOMAIN iris \ {i} : iris'[j] = iris[j]
      /\ \A j \in DOMAIN iris : iris'[j].open = iris[j].open /\ iris'[j].paid = iris[j].paid
      /\ iris[i].rows \in Seq(RowShapes) /\ UNCHANGED job
  BY ComposeRows
<1> DEFINE rows == iris[i].rows
<1>3. rows \in Seq(RowShapes) /\ Excused(rows) /\ iris'[i].rows = Append(rows, row)
  BY <1>1, <1>2 DEF MirrorInv
<1> HIDE DEF rows
<1>4. Excused(Append(rows, row))
  BY <1>1, <1>3, OneMore
<1>5. \A n \in DOMAIN Append(rows, row) :
        Append(rows, row)[n].by = "ssop" => n \in DOMAIN rows /\ rows[n] = Append(rows, row)[n]
  BY <1>1, <1>3
<1>6. \A j \in DOMAIN iris : Excused(iris'[j].rows)
  BY <1>2, <1>3, <1>4 DEF MirrorInv
<1>7. ASSUME NEW j \in DOMAIN iris, NEW n \in DOMAIN iris'[j].rows,
             iris'[j].rows[n].by = "ssop", iris'[j].rows[n].kind = "event"
      PROVE  \E m \in DOMAIN iris[j].rows :
               iris[j].rows[m].by = "ssop" /\ iris[j].rows[m].kind = "event"
                 /\ iris[j].rows[m].tag = iris'[j].rows[n].tag
  <2>1. CASE j = i
    BY <1>3, <1>5, <1>7, <2>1 DEF rows
  <2>2. CASE j # i
    BY <1>2, <1>7, <2>2
  <2> QED
    BY <2>1, <2>2
<1> QED
  BY <1>2, <1>6, <1>7, MirrorKept

LEMMA MirrorEdit ==
  ASSUME ShapeInv, MirrorInv, NEW i \in DOMAIN iris, NEW n \in DOMAIN iris[i].rows, Edit(i, n)
  PROVE  MirrorInv'
<1>1. PICK row \in RowShapes : row.by = "human" /\ iris'[i].rows = [iris[i].rows EXCEPT ![n] = row]
  BY EditRows, ZenonT(40)
<1>2. /\ DOMAIN iris' = DOMAIN iris /\ \A j \in DOMAIN iris \ {i} : iris'[j] = iris[j]
      /\ \A j \in DOMAIN iris : iris'[j].open = iris[j].open /\ iris'[j].paid = iris[j].paid
      /\ iris[i].rows \in Seq(RowShapes) /\ UNCHANGED job
  BY EditRows
<1> DEFINE rows == iris[i].rows
           all == [rows EXCEPT ![n] = row]
<1>3. rows \in Seq(RowShapes) /\ Excused(rows) /\ iris'[i].rows = all
  BY <1>1, <1>2 DEF MirrorInv
<1> HIDE DEF rows
<1>4. DOMAIN all = DOMAIN rows /\ \A m \in DOMAIN all : all[m].by = "ssop" => all[m] = rows[m]
  BY <1>1, <1>3
<1> HIDE DEF all
<1>5. Excused(all)
  BY <1>3, <1>4 DEF Excused
<1>6. \A j \in DOMAIN iris : Excused(iris'[j].rows)
  BY <1>2, <1>3, <1>5 DEF MirrorInv
<1>7. ASSUME NEW j \in DOMAIN iris, NEW m \in DOMAIN iris'[j].rows,
             iris'[j].rows[m].by = "ssop", iris'[j].rows[m].kind = "event"
      PROVE  \E l \in DOMAIN iris[j].rows :
               iris[j].rows[l].by = "ssop" /\ iris[j].rows[l].kind = "event"
                 /\ iris[j].rows[l].tag = iris'[j].rows[m].tag
  <2>1. CASE j = i
    BY <1>3, <1>4, <1>7, <2>1 DEF rows
  <2>2. CASE j # i
    BY <1>2, <1>7, <2>2
  <2> QED
    BY <2>1, <2>2
<1> QED
  BY <1>2, <1>6, <1>7, MirrorKept

LEMMA MirrorStep == ShapeInv /\ MirrorInv /\ [Next]_vars => MirrorInv'
<1> SUFFICES ASSUME ShapeInv, MirrorInv, [Next]_vars PROVE MirrorInv'
  OBVIOUS
<1>1. ASSUME NEW p \in Procs, NEW op \in AllOps, NEW failed \in BOOLEAN, Begin(p, op, failed) PROVE MirrorInv'
  <2>1. /\ job'[p].op = op /\ job'[p].pc = "read" /\ UNCHANGED iris
        /\ op = "iris" /\ ~ job'[p].paid => \A q \in Procs : job[q].op # "iris"
        /\ \A q \in Procs \ {p} :
              /\ job'[q].op = job[q].op /\ job'[q].pc = job[q].pc
              /\ job'[q].at = job[q].at /\ job'[q].seen = job[q].seen
              /\ job[q].paid => job'[q].paid
              /\ op = "iris" /\ job[q].op = "iris" => job'[q].paid
    BY <1>1, BeginJob
  <2>2. Opened' /\ \A i \in DOMAIN iris' : Excused(iris'[i].rows)
    BY <2>1 DEF MirrorInv, Opened
  <2>3. Alone'
    BY <2>1 DEF MirrorInv, Alone
  <2>4. ASSUME NEW q \in Procs PROVE Knows(q)'
    <3>1. CASE q = p
      BY <2>1, <3>1 DEF Knows
    <3>2. CASE q # p
      BY <2>1, <3>2 DEF Knows, MirrorInv
    <3> QED
      BY <3>1, <3>2
  <2> QED
    BY <2>2, <2>3, <2>4 DEF MirrorInv
<1>2. ASSUME UNCHANGED iris,
             \A q \in Procs : job'[q].op = "iris" =>
               /\ job[q].op = "iris" /\ job'[q].pc = job[q].pc /\ job'[q].at = job[q].at
               /\ job'[q].seen = job[q].seen /\ (job[q].paid => job'[q].paid)
      PROVE  MirrorInv'
  BY <1>2, MirrorKept DEF MirrorInv
<1>3. ASSUME NEW p \in Procs, NEW doc \in Docs, Write(p, doc), UNCHANGED iris PROVE MirrorInv'
  <2>1. /\ job'[p].op = "none"
        /\ \A q \in Procs \ {p} : /\ job'[q].op = job[q].op /\ job'[q].pc = job[q].pc
                                  /\ job'[q].at = job[q].at /\ job'[q].seen = job[q].seen
                                  /\ job'[q].paid = job[q].paid
    BY <1>3, Signed
  <2> QED
    BY <1>2, <1>3, <2>1
<1>4. ASSUME NEW p \in Procs, NEW list \in Writes, Mutate(p, list) PROVE MirrorInv'
  <2>1. Mutated(p, list) \in Docs /\ Write(p, Mutated(p, list)) /\ UNCHANGED iris
    BY <1>4, MutateJob
  <2> QED
    BY <1>3, <2>1
<1>5. ASSUME NEW p \in Procs, SyncWrite(p) PROVE MirrorInv'
  <2>1. PICK list \in ByDate(job[p].new) :
          /\ Synced(p, list) \in Docs
          /\ Write(p, Synced(p, list))
    BY <1>5, SyncWriteJob
  <2>2. UNCHANGED iris
    BY <1>5, SyncWriteJob
  <2> QED
    BY <1>3, <2>1, <2>2
<1>6. ASSUME NEW p \in Procs, \A q \in Procs \ {p} : job'[q] = job[q], job'[p].op # "iris", UNCHANGED iris
      PROVE  MirrorInv'
  BY <1>2, <1>6
<1>7. ASSUME NEW p \in Procs, Ends(p) PROVE MirrorInv'
  BY <1>6, <1>7, EndsJob
<1>8. ASSUME NEW p \in Procs, NEW i \in 0..Len(iris), Find(p, i) PROVE MirrorInv'
  <2>1. /\ \A q \in Procs \ {p} : job'[q] = job[q]
        /\ job'[p].op = "iris" /\ job'[p].pc \in {"create", "note"}
        /\ job[p].paid => job'[p].paid
        /\ ~ job'[p].paid /\ job'[p].pc = "create" => OpenCases = {}
        /\ UNCHANGED iris
    BY <1>8, FindJob
  <2>2. job[p].op = "iris"
    BY <1>8 DEF Find, At
  <2>3. Opened' /\ \A i_1 \in DOMAIN iris' : Excused(iris'[i_1].rows)
    BY <2>1 DEF MirrorInv, Opened
  <2>4. ~ job'[p].paid /\ job'[p].pc = "create" => \A j \in DOMAIN iris' : ~ iris'[j].open
    BY <2>1 DEF OpenCases
  <2> QED
    BY <2>1, <2>2, <2>3, <2>4, MirrorRun
<1>9. ASSUME NEW p \in Procs, Create(p) PROVE MirrorInv'
  BY <1>9, MirrorCreate
<1>10. ASSUME NEW p \in Procs, NEW blind \in BOOLEAN, Furnish(p, blind) PROVE MirrorInv'
  BY <1>10, MirrorFurnish
<1>11. ASSUME NEW p \in Procs, NEW blind \in BOOLEAN, NEW failed \in BOOLEAN, ReadTags(p, blind, failed) PROVE MirrorInv'
  <2>1. /\ \A q \in Procs \ {p} : job'[q] = job[q]
        /\ job[p].op = "iris" /\ job'[p].op = "iris" /\ job'[p].pc = "post"
        /\ job'[p].at = job[p].at
        /\ job[p].paid => job'[p].paid
        /\ ~ job'[p].paid => job'[p].seen = Ours(job[p].at, "event")
        /\ UNCHANGED iris
    BY <1>11, ReadTagsJob
  <2>2. Opened' /\ \A i \in DOMAIN iris' : Excused(iris'[i].rows)
    BY <2>1 DEF MirrorInv, Opened
  <2>3. Seen(iris[job[p].at].rows, Ours(job[p].at, "event"))
    BY DEF Seen, Ours, Rows, ToSet
  <2>4. ~ job'[p].paid => Seen(iris'[job'[p].at].rows, job'[p].seen)
    BY <2>1, <2>3
  <2> QED
    BY <2>1, <2>2, <2>4, MirrorRun
<1>12. ASSUME NEW p \in Procs, NEW k \in DOMAIN job[p].doc.log,
              NEW outcome \in {"posted", "refused", "unanswered"}, Post(p, k, outcome)
       PROVE  MirrorInv'
  BY <1>12, MirrorPost
<1>13. ASSUME NEW p \in Procs, NEW i \in DOMAIN iris,
              NEW unread \in SUBSET {"iris_note", "iris_event"}, Fetch(p, i, unread)
       PROVE  MirrorInv'
  BY <1>13, MirrorFetch
<1>14. ASSUME NEW p \in Procs, NEW override \in BOOLEAN, Page(p, override) PROVE MirrorInv'
  BY <1>6, <1>14, PageJob
<1>15. ASSUME NEW p \in Procs, NEW failed \in BOOLEAN, Reread(p, failed) PROVE MirrorInv'
  BY <1>6, <1>15, RereadJob
<1>16. CASE Tamper
  BY <1>2, <1>16 DEF Tamper
<1>17. CASE Reattest
  BY <1>2, <1>17, ReattestJob
<1>18. ASSUME NEW i \in DOMAIN iris, NEW kind \in {"iris_note", "iris_event"}, NEW offset \in Offsets,
              Compose(i, kind, offset)
       PROVE  MirrorInv'
  BY <1>18, MirrorCompose
<1>19. ASSUME NEW i \in DOMAIN iris, NEW n \in DOMAIN iris[i].rows, Edit(i, n) PROVE MirrorInv'
  BY <1>19, MirrorEdit
<1>20. ASSUME NEW i \in DOMAIN iris, CloseInIris(i) PROVE MirrorInv'
  <2>1. /\ DOMAIN iris' = DOMAIN iris
        /\ \A j \in DOMAIN iris : iris'[j].rows = iris[j].rows /\ iris'[j].paid = iris[j].paid
        /\ \A j \in DOMAIN iris \ {i} : iris'[j] = iris[j]
        /\ ~ iris'[i].open /\ UNCHANGED job
    BY <1>20, ClosedRows
  <2>2. \A j \in DOMAIN iris : iris'[j].open => iris[j].open
    BY <2>1
  <2>3. \A j \in DOMAIN iris : Excused(iris'[j].rows)
    BY <2>1 DEF MirrorInv
  <2> QED
    BY <2>1, <2>2, <2>3, MirrorKept
<1>21. CASE UNCHANGED vars
  BY <1>2, <1>21 DEF vars
<1> QED
  BY <1>1, <1>4, <1>5, <1>7, <1>8, <1>9, <1>10, <1>11, <1>12, <1>13, <1>14, <1>15, <1>16, <1>17,
     <1>18, <1>19, <1>20, <1>21, Steps

\* However often a case is published, and wherever a run ended, a second open IRIS case or a
\* second row of one tag is there because two runs overlapped or a call failed
\* (publish_case_iris.py's find_existing_case, _existing_event_tags, _add_note, _add_iocs).
THEOREM CopiesAreExcused == Spec => []MirrorsAreExcused
<1>1. Init => MirrorInv
  <2> SUFFICES ASSUME Init PROVE MirrorInv
    OBVIOUS
  <2> DEFINE shut == [Copied EXCEPT !.open = FALSE]
             rows == <<Row("note", "open", FALSE), Row("ioc", "observable", FALSE)>>
  <2>1. Copied.rows = rows /\ shut.rows = rows /\ ~ shut.open
    BY DEF Copied
  <2>3. Excused(rows)
    <3>1. DOMAIN rows = 1..2 /\ rows[1].kind = "note" /\ rows[2].kind = "ioc"
      BY DEF Row
    <3>2. \A m, n \in 1..2 : m < n => m = 1 /\ n = 2
      OBVIOUS
    <3> HIDE DEF rows
    <3> QED
      BY <3>1, <3>2 DEF Excused
  <2>4. iris = <<>> \/ iris = <<Copied>> \/ iris = <<shut, Copied>>
    BY DEF Init
  <2> HIDE DEF rows, shut
  <2>5. \A i \in DOMAIN iris : Excused(iris[i].rows)
    BY <2>1, <2>3, <2>4
  <2>6. Opened
    BY <2>1, <2>4 DEF Opened
  <2>7. \A p \in Procs : job[p].op # "iris"
    BY RestShape DEF Init
  <2> QED
    BY <2>5, <2>6, <2>7 DEF MirrorInv, Alone, Knows
<1>2. ShapeInv /\ MirrorInv /\ [Next]_vars => MirrorInv'
  BY MirrorStep
<1> QED
  BY <1>1, <1>2, MirrorSays, Shaped, PTL DEF Spec
=============================================================================
