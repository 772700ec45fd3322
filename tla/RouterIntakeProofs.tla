------------------------- MODULE RouterIntakeProofs -------------------------
(***************************************************************************)
(* Theorems of RouterIntake: its type, that the saved boundary hides no    *)
(* alert, that a repeated dispatch is paid for by a death, and that        *)
(* suppression is bounded.  For any alerts, page size, windows and bounds. *)
(* And of Intel, the other feed of the case spine: that the closings of    *)
(* its version check are earned.  For any fleet, catalogue, entries of the *)
(* NVD, versions and bounds.                                               *)
(***************************************************************************)
EXTENDS RouterIntake, Intel, FiniteSetTheorems, SequenceTheorems, WellFoundedInduction, TLAPS

----------------------------------------------------------------------------
\* The sort order.

LEMMA TimesAreNumbers == \A a \in Alerts : Ts[a] \in Nat /\ a \in Nat /\ a # NoAlert
BY IntakeAssumption DEF NoAlert

\* The order of the query is a strict total order.
LEMMA OrderIsTotal ==
  /\ \A a \in Alerts : ~ Before(a, a)
  /\ \A a, b \in Alerts : a = b \/ Before(a, b) \/ Before(b, a)
  /\ \A a, b, c \in Alerts : Before(a, b) /\ Before(b, c) => Before(a, c)
BY TimesAreNumbers DEF Before

LEMMA OrderIsAsymmetric == \A a, b \in Alerts : Before(a, b) => ~ Before(b, a)
BY TimesAreNumbers DEF Before

\* What lies after an alert the cursor asks for is asked for too.
LEMMA AheadIsUpward ==
  ASSUME NEW c \in Cursors, NEW a \in Alerts, NEW b \in Alerts,
         Ahead(c, a), Before(a, b)
  PROVE  Ahead(c, b)
<1>1. c.last \in Int /\ (c.boundary # NoAlert => c.boundary \in Alerts)
  BY DEF Cursors, Times, NoTime
<1>2. Ts[b] >= c.last
  BY <1>1, TimesAreNumbers DEF Ahead, Before
<1>3. c.boundary # NoAlert => Before(c.boundary, b)
  BY <1>1, OrderIsTotal DEF Ahead
<1> QED
  BY <1>2, <1>3 DEF Ahead

\* A cursor that has passed an alert asks for what lies after it.
LEMMA AheadOfPassed ==
  ASSUME NEW c, NEW a \in Alerts, NEW b \in Alerts, c.last = Ts[a], c.boundary = a
  PROVE  Ahead(c, b) <=> Before(a, b)
BY TimesAreNumbers DEF Ahead, Before

LEMMA KeysAreKeys == \A a \in Alerts : Key[a] \in Keys
BY DEF Keys

LEMMA FreshIsACursor ==
  /\ Fresh \in Cursors
  /\ \A a \in Alerts : Ahead(Fresh, a)
<1>1. NoBurst \in BurstRecords
  BY DEF NoBurst, BurstRecords, Times
<1>2. Fresh \in Cursors
  BY <1>1 DEF Fresh, Cursors, Times
<1>3. \A a \in Alerts : Ahead(Fresh, a)
  BY TimesAreNumbers DEF Fresh, Ahead, NoTime
<1> QED
  BY <1>2, <1>3

\* A counted burst is a burst.
LEMMA CountedIsABurst ==
  ASSUME NEW burst \in BurstRecords, NEW a \in Alerts
  PROVE  Counted(burst, a) \in BurstRecords
<1>1. Entities[a] \subseteq Nat /\ Ts[a] \in Times
  BY IntakeAssumption, TimesAreNumbers DEF Times
<1>2. [first |-> Ts[a], last |-> Ts[a], entities |-> Entities[a]] \in BurstRecords
  BY <1>1 DEF BurstRecords
<1>3. [burst EXCEPT !.last = Ts[a], !.entities = @ \cup Entities[a]] \in BurstRecords
  BY <1>1 DEF BurstRecords
<1> QED
  BY <1>2, <1>3 DEF Counted

\* The fields of a cursor that has counted an alert, and of one that passed it.
LEMMA CountFields ==
  ASSUME NEW c \in Cursors, NEW a \in Alerts
  PROVE  /\ Count(c, a) \in Cursors
         /\ Count(c, a).last = c.last
         /\ Count(c, a).boundary = c.boundary
         /\ Count(c, a).seen = c.seen
         /\ \A k \in Keys : Count(c, a).bursts[k] =
              IF k = Key[a] THEN Counted(c.bursts[k], a) ELSE c.bursts[k]
<1>1. Key[a] \in Keys
  BY KeysAreKeys
<1>2. c.bursts \in [Keys -> BurstRecords]
  BY DEF Cursors
<1>3. Counted(c.bursts[Key[a]], a) \in BurstRecords
  BY <1>1, <1>2, CountedIsABurst
<1> DEFINE bursts == [c.bursts EXCEPT ![Key[a]] = Counted(c.bursts[Key[a]], a)]
<1>4. Count(c, a) = [c EXCEPT !.bursts = bursts]
  BY DEF Count
<1>5. bursts \in [Keys -> BurstRecords]
  BY <1>1, <1>2, <1>3
<1>6. \A k \in Keys : bursts[k] = IF k = Key[a] THEN Counted(c.bursts[k], a) ELSE c.bursts[k]
  BY <1>1, <1>2
<1> HIDE DEF bursts
<1>7. Count(c, a) \in Cursors
  BY <1>4, <1>5 DEF Cursors
<1> QED
  BY <1>4, <1>6, <1>7 DEF Cursors

LEMMA PassedFields ==
  ASSUME NEW c \in Cursors, NEW a \in Alerts
  PROVE  /\ Passed(c, a) \in Cursors
         /\ Passed(c, a).last = Ts[a]
         /\ Passed(c, a).boundary = a
         /\ Passed(c, a).seen = c.seen
         /\ Passed(c, a).bursts = c.bursts
BY TimesAreNumbers DEF Passed, Cursors, Times

\* What Take leaves in the run's cursor.
LEMMA SettledFields ==
  ASSUME NEW a \in Alerts, NEW outcome, run.cursor \in Cursors
  PROVE  /\ Settled(a, outcome) \in Cursors
         /\ Settled(a, outcome).bursts = Count(run.cursor, a).bursts
         /\ outcome = "failed" =>
              /\ Settled(a, outcome).last = run.cursor.last
              /\ Settled(a, outcome).boundary = run.cursor.boundary
              /\ Settled(a, outcome).seen = run.cursor.seen
         /\ outcome # "failed" =>
              /\ Settled(a, outcome).last = Ts[a]
              /\ Settled(a, outcome).boundary = a
              /\ Settled(a, outcome).seen = run.cursor.seen \cup {a}
<1> DEFINE counted == Count(run.cursor, a)
           passed == Passed(counted, a)
<1>1. counted \in Cursors /\ counted.last = run.cursor.last
        /\ counted.boundary = run.cursor.boundary /\ counted.seen = run.cursor.seen
  BY CountFields
<1> HIDE DEF counted
<1>2. passed \in Cursors /\ passed.last = Ts[a] /\ passed.boundary = a
        /\ passed.seen = counted.seen /\ passed.bursts = counted.bursts
  BY <1>1, PassedFields
<1> HIDE DEF passed
<1> DEFINE marked == [passed EXCEPT !.seen = @ \cup {a}]
<1>3. marked \in Cursors /\ marked.last = Ts[a] /\ marked.boundary = a
        /\ marked.seen = run.cursor.seen \cup {a} /\ marked.bursts = counted.bursts
  BY <1>1, <1>2 DEF Cursors
<1>4. Settled(a, outcome) = IF outcome = "failed" THEN counted ELSE marked
  BY DEF Settled, counted, passed
<1> HIDE DEF marked
<1> QED
  BY <1>1, <1>3, <1>4 DEF counted

----------------------------------------------------------------------------
\* Types.

LEMMA KeptIsASubset ==
  ASSUME NEW seen, NEW kept \in Kept(seen)
  PROVE  /\ kept \subseteq seen
         /\ Cardinality(seen) <= MaxSeen => kept = seen
         /\ kept # seen => Cardinality(kept) = MaxSeen
<1>1. CASE Cardinality(seen) <= MaxSeen
  BY <1>1 DEF Kept
<1>2. CASE ~ (Cardinality(seen) <= MaxSeen)
  BY <1>2 DEF Kept
<1> QED
  BY <1>1, <1>2

\* What a save leaves in the file.
LEMMA SavedFields ==
  ASSUME run.cursor \in Cursors, NEW kept \in Kept(run.cursor.seen),
         disk' = [run.cursor EXCEPT !.seen = kept]
  PROVE  /\ disk' \in Cursors
         /\ disk'.last = run.cursor.last
         /\ disk'.boundary = run.cursor.boundary
         /\ disk'.bursts = run.cursor.bursts
         /\ disk'.seen = kept
<1>1. kept \subseteq run.cursor.seen
  BY KeptIsASubset
<1> QED
  BY <1>1 DEF Cursors

Runs == [on : BOOLEAN, dry : BOOLEAN, page : SUBSET Alerts, cursor : Cursors]

LEMMA TypeInit == Init => TypeOK
<1> SUFFICES ASSUME Init
             PROVE  TypeOK
  OBVIOUS
<1> USE FreshIsACursor
<1>1. indexed \subseteq Alerts /\ late \subseteq indexed
  BY DEF Init, UpTo
<1>2. disk \in Cursors
  <2>1. CASE disk = Fresh
    BY <2>1
  <2>2. ASSUME NEW newest \in Alerts,
               disk = [Fresh EXCEPT !.seen = UpTo(newest), !.last = Ts[newest]]
        PROVE  disk \in Cursors
    <3>1. Ts[newest] \in Times /\ UpTo(newest) \subseteq Alerts
      BY TimesAreNumbers DEF Times, UpTo
    <3> QED
      BY <2>2, <3>1 DEF Cursors
  <2> QED
    BY <2>1, <2>2 DEF Init
<1>3. run \in Runs
  BY DEF Init, Idle, Runs
<1>4. fate \in [Alerts -> SUBSET AllOutcomes]
  BY DEF Init, AllOutcomes
<1>5. dispatched \in [Alerts -> Nat]
  BY DEF Init
<1>6. led \subseteq Alerts /\ failures \in 0..MaxFailures /\ kills \in 0..MaxKills
  <2>1. led = {} /\ failures = 0 /\ kills = 0
    BY Zenon DEF Init
  <2> QED
    BY <2>1, IntakeAssumption
<1> QED
  BY <1>1, <1>2, <1>3, <1>4, <1>5, <1>6 DEF TypeOK, Runs

\* What an alert's outcome may be.
LEMMA OutcomesAreOutcomes ==
  ASSUME NEW a \in Alerts, NEW outcome \in Outcomes(a)
  PROVE  /\ outcome \in AllOutcomes
         /\ outcome = "failed" => failures < MaxFailures
         /\ outcome = "deduped" => Repeats(BurstOf(run.cursor, a), a)
BY DEF Outcomes, AllOutcomes

LEMMA TypeTake ==
  ASSUME TypeOK, NEW a \in Alerts, NEW outcome \in Outcomes(a), Take(a, outcome)
  PROVE  TypeOK'
<1>1. run.cursor \in Cursors /\ run \in Runs
  BY DEF TypeOK, Runs
<1>2. Settled(a, outcome) \in Cursors
  BY <1>1, SettledFields
<1>3. run' \in Runs
  BY <1>1, <1>2 DEF Take, Runs
<1>4. fate' \in [Alerts -> SUBSET AllOutcomes]
  BY OutcomesAreOutcomes DEF Take, TypeOK
<1>5. led' \subseteq Alerts
  BY DEF Take, TypeOK
<1>6. dispatched' \in [Alerts -> Nat]
  BY DEF Take, TypeOK
<1>7. failures' \in 0..MaxFailures
  BY OutcomesAreOutcomes, IntakeAssumption DEF Take, TypeOK
<1> QED
  BY <1>3, <1>4, <1>5, <1>6, <1>7 DEF Take, TypeOK, Runs

LEMMA TypeNext ==
  ASSUME TypeOK, [Next]_vars
  PROVE  TypeOK'
<1> USE FreshIsACursor
<1>0. run \in Runs /\ run.cursor \in Cursors /\ Idle \in Runs
  BY DEF TypeOK, Runs, Idle
<1>1. CASE Arrive
  BY <1>1 DEF Arrive, TypeOK
<1>2. ASSUME NEW dry \in BOOLEAN, Fetch(dry)
      PROVE  TypeOK'
  <2>1. run' \in Runs
    BY <1>2 DEF Fetch, Hits, TypeOK, Runs
  <2> QED
    BY <1>2, <2>1 DEF Fetch, TypeOK, Runs
<1>3. ASSUME NEW a \in Alerts, Skip(a)
      PROVE  TypeOK'
  <2>1. Passed(run.cursor, a) \in Cursors
    BY <1>0, PassedFields
  <2>2. run' \in Runs
    BY <1>0, <1>3, <2>1 DEF Skip, Runs
  <2> QED
    BY <1>3, <2>2 DEF Skip, TypeOK, Runs
<1>4. ASSUME NEW a \in Alerts, NEW outcome \in Outcomes(a), Take(a, outcome)
      PROVE  TypeOK'
  BY <1>4, TypeTake
<1>5. CASE Save
  <2>1. disk' \in Cursors
    BY <1>0, <1>5, SavedFields DEF Save
  <2> QED
    BY <1>0, <1>5, <2>1 DEF Save, TypeOK, Runs
<1>6. CASE Kill
  BY <1>0, <1>6, IntakeAssumption DEF Kill, TypeOK, Runs
<1>7. CASE Tear
  BY <1>0, <1>7, IntakeAssumption DEF Tear, TypeOK, Runs
<1>8. CASE UNCHANGED vars
  BY <1>8 DEF vars, TypeOK
<1> QED
  BY <1>1, <1>2, <1>3, <1>4, <1>5, <1>6, <1>7, <1>8 DEF Next, Work

\* The cursor file, a run and the history keep their shape.
THEOREM IntakeIsTyped == Spec => []TypeOK
<1>1. Init => TypeOK
  BY TypeInit
<1>2. TypeOK /\ [Next]_vars => TypeOK'
  BY TypeNext
<1> QED
  BY <1>1, <1>2, PTL DEF Spec

----------------------------------------------------------------------------
\* The boundary.

\* An alert that sorts behind a was looked at.
Looked(a) == \E b \in Alerts : Before(a, b) /\ fate[b] # {}

\* An alert that nobody looked at, and that a cursor may leave out: it was late,
\* or will be.
Missed(a) == a \in late \/ (a \notin indexed /\ Looked(a))

\* The page of a run is indexed, and asked for by the run's cursor.
PageAhead == \A a \in run.page : a \in indexed /\ Ahead(run.cursor, a)

\* What precedes the rest of the page and is still asked for has failed, or was
\* late.
PageTaken ==
  \A a \in run.page : \A b \in indexed \ run.page :
    Before(b, a) /\ Ahead(run.cursor, b) => "failed" \in fate[b] \/ b \in late

\* What a cursor leaves out was looked at or missed, what it skips was looked at.
Hides(cursor) ==
  \A a \in Alerts : /\ ~ Ahead(cursor, a) => fate[a] # {} \/ Missed(a)
                    /\ a \in cursor.seen => fate[a] # {}

BoundaryInv == /\ TypeOK
               /\ PageAhead
               /\ PageTaken
               /\ Hides(disk)
               /\ Hides(run.cursor)

\* What is missed stays missed, or is looked at.
LEMMA MissedIsKept ==
  ASSUME TypeOK, NEW a \in Alerts, Missed(a),
         late \subseteq late', \A b \in Alerts : fate[b] \subseteq fate'[b],
         a \notin indexed /\ a \in indexed' => a \in late'
  PROVE  Missed(a)'
<1>1. CASE a \in late
  BY <1>1 DEF Missed
<1>2. CASE a \notin indexed /\ Looked(a)
  <2>1. PICK b \in Alerts : Before(a, b) /\ fate[b] # {}
    BY <1>2 DEF Looked
  <2>2. fate'[b] # {}
    BY <2>1
  <2> QED
    BY <1>2, <2>1, <2>2 DEF Missed, Looked, Before
<1> QED
  BY <1>1, <1>2 DEF Missed

\* An alert that was overtaken before it became searchable arrives late.
LEMMA ArriveKeepsMissed ==
  ASSUME TypeOK, Arrive
  PROVE  \A b \in Alerts : Missed(b) => Missed(b)'
<1>1. PICK a \in Alerts \ indexed :
        /\ indexed' = indexed \cup {a}
        /\ late' = IF Overtaken(a) THEN late \cup {a} ELSE late
  BY DEF Arrive
<1>2. Looked(a) => a \in late'
  BY <1>1 DEF Looked, Overtaken
<1>3. late \subseteq late' /\ fate' = fate
  BY <1>1 DEF Arrive
<1> SUFFICES ASSUME NEW b \in Alerts, Missed(b)
             PROVE  Missed(b)'
  OBVIOUS
<1>4. CASE b = a
  <2>1. a \in late \/ Looked(a)
    BY <1>4 DEF Missed
  <2> QED
    BY <1>2, <1>3, <1>4, <2>1 DEF Missed
<1>5. CASE b # a
  BY <1>1, <1>3, <1>5, MissedIsKept
<1> QED
  BY <1>4, <1>5

LEMMA IdleHides == run.cursor = Fresh => Hides(run.cursor)
<1>1. Fresh.seen = {}
  BY DEF Fresh
<1> QED
  BY <1>1, FreshIsACursor DEF Hides

\* Between runs nothing is claimed of the run.
LEMMA IdleIsHarmless ==
  ASSUME indexed' = indexed, fate' = fate, run' = Idle
  PROVE  PageAhead' /\ PageTaken' /\ Hides(run.cursor)'
<1>1. run'.page = {} /\ run'.cursor = Fresh
  BY DEF Idle
<1>2. \A a \in Alerts : Ahead(run'.cursor, a) /\ a \notin run'.cursor.seen
  BY <1>1, FreshIsACursor DEF Fresh
<1>3. Hides(run.cursor)'
  BY <1>2 DEF Hides, Ahead, Before
<1> QED
  BY <1>1, <1>3 DEF PageAhead, PageTaken, Before

LEMMA BoundaryInit == Init => BoundaryInv
<1> SUFFICES ASSUME Init
             PROVE  BoundaryInv
  OBVIOUS
<1>1. TypeOK
  BY TypeInit
<1>3. run.page = {} /\ run.cursor = Fresh
  BY DEF Init, Idle
<1>4. \A a \in indexed : fate[a] # {}
  BY <1>1 DEF Init, TypeOK
<1>5. Hides(disk)
  <2>1. CASE disk = Fresh
    <3>1. Fresh.seen = {}
      BY DEF Fresh
    <3> QED
      BY <2>1, <3>1, FreshIsACursor DEF Hides
  <2>2. ASSUME NEW newest \in Alerts, indexed = UpTo(newest),
               disk = [Fresh EXCEPT !.seen = UpTo(newest), !.last = Ts[newest]]
        PROVE  Hides(disk)
    <3>1. disk.last = Ts[newest] /\ disk.boundary = NoAlert /\ disk.seen = indexed
      BY <2>2 DEF Fresh
    <3>2. \A a \in Alerts \ indexed : Ahead(disk, a)
      BY <2>2, <3>1, TimesAreNumbers, OrderIsTotal DEF UpTo, Ahead, Before
    <3> QED
      BY <1>4, <3>1, <3>2 DEF Hides
  <2> QED
    BY <2>1, <2>2 DEF Init
<1> QED
  BY <1>1, <1>3, <1>5, IdleHides DEF BoundaryInv, PageAhead, PageTaken

\* The cursor of the run moves past the first alert of its page.
LEMMA BoundaryAdvance ==
  ASSUME BoundaryInv, NEW a \in Alerts, First(a, run.page),
         run'.page = run.page \ {a}, run'.cursor \in Cursors,
         run'.cursor.last = Ts[a], run'.cursor.boundary = a,
         run'.cursor.seen \subseteq run.cursor.seen \cup {a},
         fate' \in [Alerts -> SUBSET AllOutcomes],
         \A b \in Alerts : fate[b] \subseteq fate'[b], fate'[a] # {},
         indexed' = indexed, late' = late, disk' = disk
  PROVE  PageAhead' /\ PageTaken' /\ Hides(disk)' /\ Hides(run.cursor)'
<1>1. indexed \subseteq Alerts /\ run.page \subseteq indexed /\ run.cursor \in Cursors
  BY DEF BoundaryInv, TypeOK, PageAhead
<1>2. a \in run.page /\ \A b \in run.page \ {a} : Before(a, b)
  BY DEF First
<1>3. \A b \in Alerts : Ahead(run'.cursor, b) <=> Before(a, b)
  BY AheadOfPassed
<1>4. Ahead(run.cursor, a)
  BY <1>2 DEF BoundaryInv, PageAhead
<1>5. PageAhead'
  BY <1>1, <1>2, <1>3 DEF PageAhead
<1>6. PageTaken'
  <2> SUFFICES ASSUME NEW c \in run'.page, NEW b \in indexed' \ run'.page,
                      Before(b, c), Ahead(run'.cursor, b)
               PROVE  "failed" \in fate'[b] \/ b \in late'
    BY DEF PageTaken, Before, Ahead
  <2>1. b # a
    BY <1>1, <1>2, <1>3, OrderIsTotal
  <2>2. b \in indexed \ run.page /\ c \in run.page
    BY <2>1
  <2>3. Ahead(run.cursor, b)
    BY <1>1, <1>2, <1>3, <1>4, <2>2, AheadIsUpward
  <2> QED
    BY <1>1, <2>2, <2>3 DEF BoundaryInv, PageTaken
<1>6a. \A b \in Alerts : Missed(b) => Missed(b)'
  BY MissedIsKept DEF BoundaryInv
<1>7. Hides(disk)'
  BY <1>6a DEF BoundaryInv, Hides, Ahead, Before
<1>8. Hides(run.cursor)'
  <2> SUFFICES ASSUME NEW b \in Alerts,
                      ~ Ahead(run'.cursor, b)
               PROVE  fate'[b] # {} \/ Missed(b)'
    BY DEF BoundaryInv, Hides, Ahead, Before
  <2>1. CASE b = a
    BY <2>1
  <2>2. CASE ~ Ahead(run.cursor, b)
    BY <1>1, <1>6a, <2>2 DEF BoundaryInv, Hides
  <2>3. CASE b # a /\ Ahead(run.cursor, b)
    <3>1. Before(b, a) /\ b \notin run.page
      BY <1>1, <1>2, <1>3, <2>3, OrderIsTotal, OrderIsAsymmetric
    <3>2. CASE b \in indexed
      <4>1. "failed" \in fate[b] \/ b \in late
        BY <1>1, <1>2, <2>3, <3>1, <3>2 DEF BoundaryInv, PageTaken
      <4> QED
        BY <1>1, <4>1 DEF Missed
    <3>3. CASE b \notin indexed
      <4>1. a \in Alerts /\ fate'[a] # {} /\ Before(b, a)
        BY <3>1
      <4>2. Looked(b)'
        BY <4>1 DEF Looked, Before
      <4> QED
        BY <3>3, <4>2 DEF Missed
    <3> QED
      BY <3>2, <3>3
  <2> QED
    BY <2>1, <2>2, <2>3
<1> QED
  BY <1>5, <1>6, <1>7, <1>8

LEMMA BoundaryTake ==
  ASSUME BoundaryInv, NEW a \in Alerts, NEW outcome \in Outcomes(a), Take(a, outcome)
  PROVE  BoundaryInv'
<1>1. TypeOK /\ TypeOK'
  BY TypeTake DEF BoundaryInv
<1>2. run.cursor \in Cursors /\ run'.cursor = Settled(a, outcome) /\ run'.page = run.page \ {a}
  BY <1>1 DEF TypeOK, Take
<1>3. /\ run'.cursor \in Cursors /\ First(a, run.page)
      /\ indexed' = indexed /\ late' = late /\ disk' = disk
  BY <1>1 DEF TypeOK, Take
<1>4. /\ fate' \in [Alerts -> SUBSET AllOutcomes]
      /\ outcome \in fate'[a]
      /\ \A b \in Alerts : fate[b] \subseteq fate'[b]
  BY <1>1 DEF TypeOK, Take
<1>5. \A b \in Alerts : Missed(b) => Missed(b)'
  BY <1>1, <1>3, <1>4, MissedIsKept
<1>6. CASE outcome # "failed"
  <2>1. /\ run'.cursor.last = Ts[a]
        /\ run'.cursor.boundary = a
        /\ run'.cursor.seen = run.cursor.seen \cup {a}
    BY <1>2, <1>6, SettledFields
  <2>2. fate'[a] # {}
    BY <1>4
  <2>3. PageAhead' /\ PageTaken' /\ Hides(disk)' /\ Hides(run.cursor)'
    BY <1>2, <1>3, <1>4, <2>1, <2>2, BoundaryAdvance
  <2> QED
    BY <1>1, <2>3 DEF BoundaryInv
<1>7. CASE outcome = "failed"
  <2>1. /\ run'.cursor.last = run.cursor.last
        /\ run'.cursor.boundary = run.cursor.boundary
        /\ run'.cursor.seen = run.cursor.seen
    BY <1>2, <1>7, SettledFields
  <2>2. \A b \in Alerts : Ahead(run'.cursor, b) <=> Ahead(run.cursor, b)
    BY <2>1 DEF Ahead
  <2>3. indexed \subseteq Alerts /\ run.page \subseteq indexed
    BY <1>1 DEF BoundaryInv, TypeOK, PageAhead
  <2>4. PageAhead'
    BY <1>2, <1>3, <2>2, <2>3 DEF BoundaryInv, PageAhead
  <2>5. PageTaken'
    <3> SUFFICES ASSUME NEW c \in run'.page, NEW b \in indexed' \ run'.page,
                        Before(b, c), Ahead(run'.cursor, b)
                 PROVE  "failed" \in fate'[b] \/ b \in late'
      BY DEF PageTaken, Before, Ahead
    <3>1. CASE b = a
      BY <1>4, <1>7, <3>1
    <3>2. CASE b # a
      <4>1. b \in indexed \ run.page /\ c \in run.page /\ Ahead(run.cursor, b)
        BY <1>2, <1>3, <2>2, <2>3, <3>2
      <4>2. "failed" \in fate[b] \/ b \in late
        BY <4>1 DEF BoundaryInv, PageTaken
      <4> QED
        BY <1>3, <1>4, <2>3, <4>1, <4>2
    <3> QED
      BY <3>1, <3>2
  <2>6. Hides(disk)'
    BY <1>3, <1>4, <1>5, <2>3 DEF BoundaryInv, Hides, Ahead, Before
  <2>7. Hides(run.cursor)'
    <3> SUFFICES ASSUME NEW b \in Alerts,
                        ~ Ahead(run'.cursor, b)
                 PROVE  fate'[b] # {} \/ Missed(b)'
      BY <1>3, <1>4, <2>1 DEF BoundaryInv, Hides, Ahead, Before
    <3>1. fate[b] # {} \/ Missed(b)
      BY <2>1, <2>2, <2>3 DEF BoundaryInv, Hides
    <3> QED
      BY <1>4, <1>5, <2>3, <3>1
  <2> QED
    BY <1>1, <2>4, <2>5, <2>6, <2>7 DEF BoundaryInv
<1> QED
  BY <1>6, <1>7

LEMMA BoundaryNext ==
  ASSUME BoundaryInv, [Next]_vars
  PROVE  BoundaryInv'
<1>0. TypeOK /\ TypeOK' /\ indexed \subseteq Alerts /\ run.cursor \in Cursors
  BY TypeNext DEF BoundaryInv, TypeOK
<1>1. CASE Arrive
  <2>1. PICK a \in Alerts \ indexed :
          /\ indexed' = indexed \cup {a}
          /\ late' = IF Overtaken(a) THEN late \cup {a} ELSE late
    BY <1>1 DEF Arrive
  <2>2. run' = run /\ disk' = disk /\ fate' = fate
    BY <1>1 DEF Arrive
  <2>3. \A b \in Alerts : Missed(b) => Missed(b)'
    BY <1>0, <1>1, ArriveKeepsMissed
  <2>4. PageAhead'
    BY <2>1, <2>2 DEF BoundaryInv, PageAhead, Ahead, Before
  <2>5. PageTaken'
    <3> SUFFICES ASSUME NEW c \in run.page, NEW b \in indexed' \ run.page,
                        Before(b, c), Ahead(run.cursor, b)
                 PROVE  "failed" \in fate[b] \/ b \in late'
      BY <2>2 DEF PageTaken, Before, Ahead
    <3>1. c \in Alerts
      BY <1>0 DEF BoundaryInv, PageAhead
    <3>2. CASE b = a
      <4>1. Overtaken(a)
        BY <3>1, <3>2 DEF Overtaken
      <4> QED
        BY <2>1, <3>2, <4>1
    <3>3. CASE b # a
      BY <2>1, <3>3 DEF BoundaryInv, PageTaken
    <3> QED
      BY <3>2, <3>3
  <2>6. Hides(disk)' /\ Hides(run.cursor)'
    BY <2>2, <2>3 DEF BoundaryInv, Hides, Ahead, Before
  <2> QED
    BY <1>0, <2>4, <2>5, <2>6 DEF BoundaryInv
<1>2. ASSUME NEW dry \in BOOLEAN, Fetch(dry)
      PROVE  BoundaryInv'
  <2>1. PICK page \in SUBSET Hits :
          IsPage(page) /\ run' = [on |-> TRUE, dry |-> dry, page |-> page, cursor |-> disk]
    BY <1>2 DEF Fetch
  <2>2. run'.page = page /\ run'.cursor = disk
    BY <2>1
  <2>3. indexed' = indexed /\ late' = late /\ disk' = disk /\ fate' = fate
    BY <1>2 DEF Fetch
  <2>4. PageAhead'
    BY <2>2, <2>3 DEF Hits, PageAhead, Ahead, Before
  <2>5. PageTaken'
    <3> SUFFICES ASSUME NEW a \in page, NEW b \in indexed \ page,
                        Before(b, a), Ahead(disk, b)
                 PROVE  FALSE
      BY <2>2, <2>3 DEF PageTaken, Ahead, Before
    <3>1. b \in Hits \ page
      BY DEF Hits
    <3>2. Before(a, b)
      BY <2>1, <3>1 DEF IsPage
    <3> QED
      BY <1>0, <2>1, <3>2, OrderIsAsymmetric DEF Hits
  <2>6. Hides(disk)' /\ Hides(run.cursor)'
    BY <2>2, <2>3 DEF BoundaryInv, Hides, Missed, Looked, Ahead, Before
  <2> QED
    BY <1>0, <2>4, <2>5, <2>6 DEF BoundaryInv
<1>3. ASSUME NEW a \in Alerts, Skip(a)
      PROVE  BoundaryInv'
  <2>1. First(a, run.page) /\ run'.page = run.page \ {a} /\ run'.cursor = Passed(run.cursor, a)
    BY <1>0, <1>3 DEF Skip, TypeOK
  <2>2. /\ run'.cursor \in Cursors
        /\ run'.cursor.last = Ts[a]
        /\ run'.cursor.boundary = a
        /\ run'.cursor.seen = run.cursor.seen
    BY <1>0, <2>1, PassedFields
  <2>3. indexed' = indexed /\ late' = late /\ disk' = disk /\ fate' = fate
    BY <1>3 DEF Skip
  <2>4. fate[a] # {}
    BY <1>3 DEF Skip, BoundaryInv, Hides
  <2>5. PageAhead' /\ PageTaken' /\ Hides(disk)' /\ Hides(run.cursor)'
    BY <1>0, <2>1, <2>2, <2>3, <2>4, BoundaryAdvance DEF TypeOK
  <2> QED
    BY <1>0, <2>5 DEF BoundaryInv
<1>4. ASSUME NEW a \in Alerts, NEW outcome \in Outcomes(a), Take(a, outcome)
      PROVE  BoundaryInv'
  BY <1>4, BoundaryTake
<1>5. CASE Save
  <2>1. PICK kept \in Kept(run.cursor.seen) : disk' = [run.cursor EXCEPT !.seen = kept]
    BY <1>5 DEF Save
  <2>2. disk'.last = run.cursor.last /\ disk'.boundary = run.cursor.boundary /\ disk'.seen = kept
    BY <1>0, <2>1, SavedFields
  <2>3. kept \subseteq run.cursor.seen
    BY <2>1, KeptIsASubset
  <2>4. indexed' = indexed /\ late' = late /\ fate' = fate /\ run' = Idle
    BY <1>5 DEF Save
  <2>5. Hides(disk)'
    BY <2>2, <2>3, <2>4 DEF BoundaryInv, Hides, Missed, Looked, Ahead, Before
  <2>6. PageAhead' /\ PageTaken' /\ Hides(run.cursor)'
    BY <2>4, IdleIsHarmless DEF BoundaryInv
  <2> QED
    BY <1>0, <2>5, <2>6 DEF BoundaryInv
<1>6. CASE Kill
  <2>1. indexed' = indexed /\ late' = late /\ fate' = fate /\ run' = Idle /\ disk' = disk
    BY <1>6 DEF Kill
  <2>2. PageAhead' /\ PageTaken' /\ Hides(run.cursor)'
    BY <2>1, IdleIsHarmless DEF BoundaryInv
  <2> QED
    BY <1>0, <2>1, <2>2 DEF BoundaryInv, Hides, Missed, Looked, Ahead, Before
<1>7. CASE Tear
  <2>1. indexed' = indexed /\ late' = late /\ fate' = fate /\ run' = Idle /\ disk' = Fresh
    BY <1>7 DEF Tear
  <2>2. PageAhead' /\ PageTaken' /\ Hides(run.cursor)'
    BY <2>1, IdleIsHarmless DEF BoundaryInv
  <2>3. Hides(disk)'
    BY <2>1, <2>2 DEF Hides, Missed, Looked, Idle, Ahead, Before
  <2> QED
    BY <1>0, <2>2, <2>3 DEF BoundaryInv
<1>8. CASE UNCHANGED vars
  BY <1>0, <1>8 DEF vars, BoundaryInv, PageAhead, PageTaken, Hides, Missed, Looked, Ahead, Before
<1> QED
  BY <1>1, <1>2, <1>3, <1>4, <1>5, <1>6, <1>7, <1>8 DEF Next, Work

THEOREM BoundaryInvariance == Spec => []BoundaryInv
<1>1. Init => BoundaryInv
  BY BoundaryInit
<1>2. BoundaryInv /\ [Next]_vars => BoundaryInv'
  BY BoundaryNext
<1> QED
  BY <1>1, <1>2, PTL DEF Spec

\* Whatever the order in which alerts become searchable, the page size and the
\* ties, and wherever runs die, the saved cursor has passed no alert that was not
\* looked at but the late ones.
THEOREM NothingIsHidden == Spec => []BoundaryHidesNothing
<1>1. BoundaryInv => BoundaryHidesNothing
  BY DEF BoundaryInv, TypeOK, Hides, Missed, BoundaryHidesNothing
<1> QED
  BY <1>1, BoundaryInvariance, PTL

----------------------------------------------------------------------------
\* Repeated dispatches.

\* What is marked lies before what is not and still asked for, and what a save
\* may forget is no longer asked for.
Remembers(cursor) ==
  /\ \A b \in cursor.seen, a \in Alerts \ cursor.seen : Ahead(cursor, a) => Before(b, a)
  /\ Cardinality(cursor.seen) <= MaxSeen \/ \A b \in cursor.seen : ~ Ahead(cursor, b)

\* A dispatch without a death is remembered by the cursor.
Pays(cursor) ==
  \A a \in Alerts : dispatched[a] <= kills \/ a \in cursor.seen \/ ~ Ahead(cursor, a)

PaidInv == /\ BoundaryInv
           /\ Remembers(disk)
           /\ Remembers(run.cursor)
           /\ run.on => Pays(run.cursor)
           /\ ~ run.on => Pays(disk)
           /\ RedispatchIsPaid

\* A cursor that moves to an alert it asked for asks for less.
LEMMA AheadShrinks ==
  ASSUME NEW c \in Cursors, NEW d, NEW a \in Alerts, Ahead(c, a),
         d.last = Ts[a], d.boundary = a
  PROVE  \A x \in Alerts : Ahead(d, x) => Ahead(c, x) /\ Before(a, x)
BY AheadOfPassed, AheadIsUpward

LEMMA FreshRemembers == Remembers(Fresh)
<1>1. Fresh.seen = {}
  BY DEF Fresh
<1> QED
  BY <1>1 DEF Remembers

LEMMA SkipRemembers ==
  ASSUME NEW c \in Cursors, NEW d, NEW a \in Alerts, Ahead(c, a), Remembers(c),
         d.last = Ts[a], d.boundary = a, d.seen = c.seen
  PROVE  Remembers(d)
<1>1. \A x \in Alerts : Ahead(d, x) => Ahead(c, x)
  BY AheadShrinks
<1>2. c.seen \subseteq Alerts
  BY DEF Cursors
<1> QED
  BY <1>1, <1>2 DEF Remembers

LEMMA MarkRemembers ==
  ASSUME NEW c \in Cursors, NEW d, NEW a \in Alerts, Ahead(c, a), Remembers(c),
         a \notin c.seen, d.last = Ts[a], d.boundary = a, d.seen = c.seen \cup {a}
  PROVE  Remembers(d)
<1>1. \A x \in Alerts : Ahead(d, x) => Ahead(c, x) /\ Before(a, x)
  BY AheadShrinks
<1>2. c.seen \subseteq Alerts
  BY DEF Cursors
<1>3. \A b \in c.seen : Before(b, a)
  BY DEF Remembers
<1>4. \A b \in d.seen : ~ Ahead(d, b)
  BY <1>1, <1>2, <1>3, OrderIsTotal, OrderIsAsymmetric
<1>5. ASSUME NEW b \in d.seen, NEW x \in Alerts \ d.seen, Ahead(d, x)
      PROVE  Before(b, x)
  BY <1>1, <1>5 DEF Remembers
<1> QED
  BY <1>4, <1>5 DEF Remembers

\* A save forgets only what its cursor no longer asks for.
LEMMA SaveRemembers ==
  ASSUME NEW c \in Cursors, NEW d, Remembers(c), NEW kept \in Kept(c.seen),
         d.last = c.last, d.boundary = c.boundary, d.seen = kept
  PROVE  /\ Remembers(d)
         /\ \A x \in Alerts : Ahead(d, x) <=> Ahead(c, x)
         /\ \A x \in c.seen : x \in d.seen \/ ~ Ahead(d, x)
<1>1. \A x \in Alerts : Ahead(d, x) <=> Ahead(c, x)
  BY DEF Ahead
<1>2. kept \subseteq c.seen /\ c.seen \subseteq Alerts
  BY KeptIsASubset DEF Cursors
<1>3. CASE Cardinality(c.seen) <= MaxSeen
  <2>1. kept = c.seen
    BY <1>3, KeptIsASubset
  <2>2. Remembers(d)
    BY <1>1, <1>2, <1>3, <2>1 DEF Remembers
  <2> QED
    BY <1>1, <2>1, <2>2
<1>4. CASE ~ (Cardinality(c.seen) <= MaxSeen)
  <2>1. \A b \in c.seen : ~ Ahead(d, b)
    BY <1>1, <1>2, <1>4 DEF Remembers
  <2>2. ASSUME NEW b \in d.seen, NEW x \in Alerts \ d.seen, Ahead(d, x)
        PROVE  Before(b, x)
    BY <1>1, <1>2, <2>1, <2>2 DEF Remembers
  <2>3. Remembers(d)
    BY <1>2, <2>1, <2>2 DEF Remembers
  <2> QED
    BY <1>1, <2>1, <2>3
<1> QED
  BY <1>3, <1>4

LEMMA PaidInit == Init => PaidInv
<1> SUFFICES ASSUME Init
             PROVE  PaidInv
  OBVIOUS
<1>1. BoundaryInv /\ TypeOK
  BY BoundaryInit, TypeInit
<1>2. run = Idle /\ kills = 0
  BY Zenon DEF Init
<1>3. ~ run.on /\ run.cursor = Fresh
  BY <1>2 DEF Idle
<1>4. \A a \in Alerts : dispatched[a] = IF a \in indexed THEN 1 ELSE 0
  BY DEF Init
<1>5. Remembers(disk) /\ \A a \in indexed : a \in disk.seen
  <2>1. CASE indexed = {} /\ disk = Fresh
    BY <2>1, FreshRemembers
  <2>2. ASSUME NEW newest \in Alerts, Cardinality(UpTo(newest)) <= MaxSeen,
               indexed = UpTo(newest),
               disk = [Fresh EXCEPT !.seen = UpTo(newest), !.last = Ts[newest]]
        PROVE  Remembers(disk) /\ \A a \in indexed : a \in disk.seen
    <3>1. disk.seen = UpTo(newest)
      BY <2>2 DEF Fresh
    <3>2. \A b \in UpTo(newest), a \in Alerts \ UpTo(newest) : Before(b, a)
      BY OrderIsTotal DEF UpTo
    <3> QED
      BY <2>2, <3>1, <3>2 DEF Remembers
  <2> QED
    BY <2>1, <2>2 DEF Init
<1>6. Pays(disk) /\ RedispatchIsPaid
  BY <1>2, <1>4, <1>5 DEF Pays, RedispatchIsPaid
<1> QED
  BY <1>1, <1>3, <1>5, <1>6, FreshRemembers DEF PaidInv

LEMMA PaidTake ==
  ASSUME PaidInv, NEW a \in Alerts, NEW outcome \in Outcomes(a), Take(a, outcome)
  PROVE  PaidInv'
<1>1. BoundaryInv' /\ TypeOK /\ TypeOK'
  BY BoundaryTake, TypeTake DEF PaidInv, BoundaryInv
<1>2. run.cursor \in Cursors /\ run' = [run EXCEPT !.page = @ \ {a}, !.cursor = Settled(a, outcome)]
  BY <1>1 DEF Take, TypeOK
<1>3. run.on /\ run'.on /\ run'.cursor = Settled(a, outcome) /\ a \notin run.cursor.seen
        /\ disk' = disk /\ kills' = kills
  BY <1>1 DEF Take, TypeOK
<1>4. Ahead(run.cursor, a)
  BY DEF Take, First, PaidInv, BoundaryInv, PageAhead
<1>5. dispatched \in [Alerts -> Nat] /\ kills \in Nat
  BY <1>1, IntakeAssumption DEF TypeOK
<1>6. dispatched[a] <= kills
  BY <1>3, <1>4 DEF PaidInv, Pays
<1>7. dispatched' = [dispatched EXCEPT ![a] = IF outcome = "dispatched" THEN @ + 1 ELSE @]
  BY DEF Take
<1>8. \A b \in Alerts : dispatched'[b] = dispatched[b] \/ (b = a /\ dispatched'[b] = dispatched[b] + 1)
  BY <1>5, <1>7
<1>9. RedispatchIsPaid'
  BY <1>3, <1>5, <1>6, <1>8 DEF PaidInv, RedispatchIsPaid
<1>10. Remembers(disk)'
  BY <1>3 DEF PaidInv, Remembers, Ahead, Before
<1> DEFINE new == run'.cursor
<1>11. CASE outcome = "failed"
  <2>1. new.last = run.cursor.last /\ new.boundary = run.cursor.boundary /\ new.seen = run.cursor.seen
    BY <1>2, <1>3, <1>11, SettledFields
  <2>2. Remembers(run.cursor)'
    BY <2>1 DEF PaidInv, Remembers, Ahead, Before
  <2>3. dispatched' = dispatched
    BY <1>5, <1>7, <1>11
  <2>4. Pays(run.cursor)'
    BY <1>3, <2>1, <2>3 DEF PaidInv, Pays, Ahead, Before
  <2> QED
    BY <1>1, <1>3, <1>9, <1>10, <2>2, <2>4 DEF PaidInv
<1>12. CASE outcome # "failed"
  <2>1. new.last = Ts[a] /\ new.boundary = a /\ new.seen = run.cursor.seen \cup {a}
    BY <1>2, <1>3, <1>12, SettledFields
  <2>2. Remembers(new)
    BY <1>2, <1>3, <1>4, <2>1, MarkRemembers DEF PaidInv
  <2>3. \A x \in Alerts : Ahead(new, x) => Ahead(run.cursor, x)
    BY <1>2, <1>4, <2>1, AheadShrinks
  <2>4. \A b \in Alerts : dispatched'[b] <= kills \/ b \in new.seen \/ ~ Ahead(new, b)
    BY <1>3, <1>8, <2>1, <2>3 DEF PaidInv, Pays
  <2>5. Remembers(run.cursor)' /\ Pays(run.cursor)'
    BY <1>3, <2>2, <2>4 DEF Remembers, Pays, Ahead, Before
  <2> QED
    BY <1>1, <1>3, <1>9, <1>10, <2>5 DEF PaidInv
<1> QED
  BY <1>11, <1>12

LEMMA PaidNext ==
  ASSUME PaidInv, [Next]_vars
  PROVE  PaidInv'
<1>0. BoundaryInv' /\ TypeOK /\ run.cursor \in Cursors /\ kills \in Nat /\ dispatched \in [Alerts -> Nat]
  BY BoundaryNext, IntakeAssumption DEF PaidInv, BoundaryInv, TypeOK
<1>1. CASE Arrive
  <2>1. run' = run /\ disk' = disk /\ dispatched' = dispatched /\ kills' = kills
    BY <1>1 DEF Arrive
  <2> QED
    BY <1>0, <2>1 DEF PaidInv, Remembers, Pays, RedispatchIsPaid, Ahead, Before
<1>2. ASSUME NEW dry \in BOOLEAN, Fetch(dry)
      PROVE  PaidInv'
  <2>1. run'.on /\ run'.cursor = disk /\ ~ run.on
    BY <1>2 DEF Fetch
  <2>2. disk' = disk /\ dispatched' = dispatched /\ kills' = kills
    BY <1>2 DEF Fetch
  <2> QED
    BY <1>0, <2>1, <2>2 DEF PaidInv, Remembers, Pays, RedispatchIsPaid, Ahead, Before
<1>3. ASSUME NEW a \in Alerts, Skip(a)
      PROVE  PaidInv'
  <2>1. run'.on /\ run.on /\ run'.cursor = Passed(run.cursor, a) /\ Ahead(run.cursor, a)
    BY <1>0, <1>3 DEF Skip, First, TypeOK, PaidInv, BoundaryInv, PageAhead
  <2>2. run'.cursor.last = Ts[a] /\ run'.cursor.boundary = a /\ run'.cursor.seen = run.cursor.seen
    BY <1>0, <2>1, PassedFields
  <2>3. disk' = disk /\ dispatched' = dispatched /\ kills' = kills
    BY <1>3 DEF Skip
  <2>4. Remembers(run'.cursor)
    BY <1>0, <2>1, <2>2, SkipRemembers DEF PaidInv
  <2>5. \A x \in Alerts : Ahead(run'.cursor, x) => Ahead(run.cursor, x)
    BY <1>0, <2>1, <2>2, AheadShrinks
  <2>6. Pays(run.cursor)'
    BY <2>1, <2>2, <2>3, <2>5 DEF PaidInv, Pays, Ahead, Before
  <2>7. Remembers(disk)' /\ Remembers(run.cursor)' /\ RedispatchIsPaid'
    BY <2>3, <2>4 DEF PaidInv, Remembers, RedispatchIsPaid, Ahead, Before
  <2> QED
    BY <1>0, <2>1, <2>6, <2>7 DEF PaidInv
<1>4. ASSUME NEW a \in Alerts, NEW outcome \in Outcomes(a), Take(a, outcome)
      PROVE  PaidInv'
  BY <1>4, PaidTake
<1>5. CASE Save
  <2>1. PICK kept \in Kept(run.cursor.seen) : disk' = [run.cursor EXCEPT !.seen = kept]
    BY <1>5 DEF Save
  <2>2. disk'.last = run.cursor.last /\ disk'.boundary = run.cursor.boundary /\ disk'.seen = kept
    BY <1>0, <2>1, SavedFields
  <2>3. run.on /\ run' = Idle /\ dispatched' = dispatched /\ kills' = kills
    BY <1>5 DEF Save
  <2>4. ~ run'.on /\ run'.cursor = Fresh
    BY <2>3 DEF Idle
  <2>5. /\ Remembers(disk')
        /\ \A x \in Alerts : Ahead(disk', x) <=> Ahead(run.cursor, x)
        /\ \A x \in run.cursor.seen : x \in disk'.seen \/ ~ Ahead(disk', x)
    BY <1>0, <2>1, <2>2, SaveRemembers, ZenonT(40) DEF PaidInv
  <2>6. Pays(disk)'
    BY <2>3, <2>5 DEF PaidInv, Pays, Ahead, Before
  <2>7. Remembers(disk)' /\ Remembers(run.cursor)' /\ RedispatchIsPaid'
    BY <2>3, <2>4, <2>5, FreshRemembers DEF PaidInv, Remembers, RedispatchIsPaid, Ahead, Before
  <2> QED
    BY <1>0, <2>4, <2>6, <2>7 DEF PaidInv
<1>6. CASE Kill
  <2>1. run' = Idle /\ dispatched' = dispatched /\ kills' = kills + 1 /\ disk' = disk
    BY <1>6 DEF Kill
  <2>2. ~ run'.on /\ run'.cursor = Fresh
    BY <2>1 DEF Idle
  <2>3. \A a \in Alerts : dispatched'[a] <= kills'
    BY <1>0, <2>1 DEF PaidInv, RedispatchIsPaid
  <2>4. Pays(disk)' /\ RedispatchIsPaid'
    BY <1>0, <2>1, <2>3 DEF Pays, RedispatchIsPaid
  <2>5. Remembers(disk)' /\ Remembers(run.cursor)'
    BY <2>1, <2>2, FreshRemembers DEF PaidInv, Remembers, Ahead, Before
  <2> QED
    BY <1>0, <2>2, <2>4, <2>5 DEF PaidInv
<1>7. CASE Tear
  <2>1. run' = Idle /\ dispatched' = dispatched /\ kills' = kills + 1 /\ disk' = Fresh
    BY <1>7 DEF Tear
  <2>2. ~ run'.on /\ run'.cursor = Fresh
    BY <2>1 DEF Idle
  <2>3. \A a \in Alerts : dispatched'[a] <= kills'
    BY <1>0, <2>1 DEF PaidInv, RedispatchIsPaid
  <2>4. Pays(disk)' /\ RedispatchIsPaid'
    BY <1>0, <2>1, <2>3 DEF Pays, RedispatchIsPaid
  <2>5. Remembers(disk)' /\ Remembers(run.cursor)'
    BY <2>1, <2>2, FreshRemembers DEF Remembers, Ahead, Before
  <2> QED
    BY <1>0, <2>2, <2>4, <2>5 DEF PaidInv
<1>8. CASE UNCHANGED vars
  BY <1>0, <1>8 DEF vars, PaidInv, Remembers, Pays, RedispatchIsPaid, Ahead, Before
<1> QED
  BY <1>1, <1>2, <1>3, <1>4, <1>5, <1>6, <1>7, <1>8 DEF Next, Work

THEOREM PaidInvariance == Spec => []PaidInv
<1>1. Init => PaidInv
  BY PaidInit
<1>2. PaidInv /\ [Next]_vars => PaidInv'
  BY PaidNext
<1> QED
  BY <1>1, <1>2, PTL DEF Spec

\* An alert is dispatched at most once more than runs died, however many ids
\* the seen list forgets.
THEOREM DispatchesArePaid == Spec => []RedispatchIsPaid
<1>1. PaidInv => RedispatchIsPaid
  BY DEF PaidInv
<1> QED
  BY <1>1, PaidInvariance, PTL

----------------------------------------------------------------------------
\* Suppression.

\* Each entity of a burst was brought by an alert that was no repeat, not
\* before the burst began (or after a failure, or late).
Backed(cursor) ==
  \A k \in Keys : cursor.bursts[k].first # NoTime =>
    \A e \in cursor.bursts[k].entities : \E b \in led :
      /\ Key[b] = k
      /\ e \in Entities[b]
      /\ Ts[b] >= cursor.bursts[k].first \/ "failed" \in fate[b] \/ b \in late

\* Only what has failed, or was missed, can still come into a burst that began
\* after it.
Belated(cursor) ==
  \A a \in Alerts :
    Ahead(cursor, a) /\ a \notin cursor.seen /\ Ts[a] < cursor.bursts[Key[a]].first
      => "failed" \in fate[a] \/ Missed(a)

SuppressionInv == /\ PaidInv
                  /\ Backed(disk)
                  /\ Backed(run.cursor)
                  /\ Belated(disk)
                  /\ Belated(run.cursor)
                  /\ SuppressionIsBounded

\* A cursor without bursts.
LEMMA NoBurstsAreBacked ==
  ASSUME NEW c, c.bursts = [k \in Keys |-> NoBurst]
  PROVE  Backed(c) /\ Belated(c)
<1>1. \A k \in Keys : c.bursts[k].first = NoTime
  BY DEF NoBurst
<1>2. \A a \in Alerts : ~ (Ts[a] < NoTime)
  BY TimesAreNumbers DEF NoTime
<1> QED
  BY <1>1, <1>2, KeysAreKeys DEF Backed, Belated

\* A cursor with the same bursts that asks for no more unmarked alerts, when
\* the history has only grown.
LEMMA BackedIsKept ==
  ASSUME NEW c, NEW d, Backed(c), Belated(c), d.bursts = c.bursts,
         \A x \in Alerts : Ahead(d, x) /\ x \notin d.seen => Ahead(c, x) /\ x \notin c.seen,
         led \subseteq Alerts, led \subseteq led', late \subseteq late',
         \A x \in Alerts : fate[x] \subseteq fate'[x], \A x \in Alerts : Missed(x) => Missed(x)'
  PROVE  /\ \A k \in Keys : d.bursts[k].first # NoTime =>
              \A e \in d.bursts[k].entities : \E b \in led' :
                /\ Key[b] = k
                /\ e \in Entities[b]
                /\ Ts[b] >= d.bursts[k].first \/ "failed" \in fate'[b] \/ b \in late'
         /\ \A a \in Alerts :
              Ahead(d, a) /\ a \notin d.seen /\ Ts[a] < d.bursts[Key[a]].first
                => "failed" \in fate'[a] \/ Missed(a)'
<1>1. ASSUME NEW k \in Keys, d.bursts[k].first # NoTime, NEW e \in d.bursts[k].entities
      PROVE  \E b \in led' : /\ Key[b] = k
                             /\ e \in Entities[b]
                             /\ Ts[b] >= d.bursts[k].first \/ "failed" \in fate'[b] \/ b \in late'
  <2>1. PICK b \in led : /\ Key[b] = k
                         /\ e \in Entities[b]
                         /\ Ts[b] >= c.bursts[k].first \/ "failed" \in fate[b] \/ b \in late
    BY <1>1 DEF Backed
  <2> QED
    BY <2>1
<1>2. ASSUME NEW a \in Alerts, Ahead(d, a), a \notin d.seen, Ts[a] < d.bursts[Key[a]].first
      PROVE  "failed" \in fate'[a] \/ Missed(a)'
  BY <1>2 DEF Belated
<1> QED
  BY <1>1, <1>2

LEMMA SuppressionInit == Init => SuppressionInv
<1> SUFFICES ASSUME Init
             PROVE  SuppressionInv
  OBVIOUS
<1>1. PaidInv
  BY PaidInit
<1>2. disk.bursts = [k \in Keys |-> NoBurst]
  <2>1. CASE disk = Fresh
    BY <2>1 DEF Fresh
  <2>2. ASSUME NEW newest \in Alerts,
               disk = [Fresh EXCEPT !.seen = UpTo(newest), !.last = Ts[newest]]
        PROVE  disk.bursts = [k \in Keys |-> NoBurst]
    BY <2>2 DEF Fresh
  <2> QED
    BY <2>1, <2>2 DEF Init
<1>3. run.cursor.bursts = [k \in Keys |-> NoBurst]
  BY DEF Init, Idle, Fresh
<1>4. \A a \in Alerts : "deduped" \notin fate[a]
  BY DEF Init
<1>5. SuppressionIsBounded
  BY <1>4 DEF SuppressionIsBounded
<1> QED
  BY <1>1, <1>2, <1>3, <1>5, NoBurstsAreBacked DEF SuppressionInv

\* What the history has vouched for stays vouched for.
LEMMA BoundedIsKept ==
  ASSUME SuppressionIsBounded, led \subseteq Alerts, led \subseteq led', late \subseteq late', NEW a \in Alerts,
         \A x \in Alerts : fate[x] \subseteq fate'[x], "deduped" \in fate[a]
  PROVE  \A e \in Entities[a] : \E b \in led' :
            /\ Key[b] = Key[a]
            /\ e \in Entities[b]
            /\ Ts[a] - Ts[b] <= MaxAge \/ "failed" \in fate'[b] \/ b \in late'
<1> SUFFICES ASSUME NEW e \in Entities[a]
             PROVE  \E b \in led' : /\ Key[b] = Key[a]
                                    /\ e \in Entities[b]
                                    /\ Ts[a] - Ts[b] <= MaxAge \/ "failed" \in fate'[b] \/ b \in late'
  OBVIOUS
<1>1. PICK b \in led : /\ Key[b] = Key[a]
                       /\ e \in Entities[b]
                       /\ Ts[a] - Ts[b] <= MaxAge \/ "failed" \in fate[b] \/ b \in late
  BY DEF SuppressionIsBounded
<1> QED
  BY <1>1

LEMMA SuppressionTake ==
  ASSUME SuppressionInv, NEW a \in Alerts, NEW outcome \in Outcomes(a), Take(a, outcome)
  PROVE  SuppressionInv'
<1>1. PaidInv' /\ BoundaryInv /\ TypeOK /\ TypeOK'
  BY PaidTake, TypeTake DEF SuppressionInv, PaidInv, BoundaryInv
<1> DEFINE c == run.cursor
           d == run'.cursor
           old == c.bursts[Key[a]]
           repeats == Repeats(old, a)
<1>2. /\ c \in Cursors
      /\ d = Settled(a, outcome)
      /\ d \in Cursors
      /\ a \notin c.seen
      /\ First(a, run.page)
      /\ disk' = disk
      /\ late' = late
  BY <1>1 DEF Take, TypeOK
<1>3. indexed \subseteq Alerts /\ a \in run.page /\ a \in indexed /\ Ahead(c, a)
  BY <1>1 DEF Take, First, TypeOK, BoundaryInv, PageAhead
<1>4. /\ led \subseteq Alerts
      /\ led \subseteq led'
      /\ ~ repeats => a \in led'
  BY <1>1 DEF Take, BurstOf, TypeOK
<1>5. /\ \A x \in Alerts : fate[x] \subseteq fate'[x]
      /\ fate'[a] = fate[a] \cup {outcome}
      /\ \A x \in Alerts \ {a} : fate'[x] = fate[x]
  BY <1>1 DEF Take, TypeOK
<1>5a. \A x \in Alerts : Missed(x) => Missed(x)'
  BY <1>1, <1>5, MissedIsKept DEF Take
<1>6. /\ d.bursts = Count(c, a).bursts
      /\ \A k \in Keys : d.bursts[k] = IF k = Key[a] THEN Counted(c.bursts[k], a) ELSE c.bursts[k]
  BY <1>2, SettledFields, CountFields
<1>7. Key[a] \in Keys /\ old \in BurstRecords /\ Ts[a] \in Nat /\ Ts[a] # NoTime
  BY <1>2, KeysAreKeys, TimesAreNumbers DEF Cursors, NoTime
<1>8. /\ Continues(old, a) => /\ Counted(old, a).first = old.first
                              /\ Counted(old, a).entities = old.entities \cup Entities[a]
      /\ ~ Continues(old, a) => /\ Counted(old, a).first = Ts[a]
                                /\ Counted(old, a).entities = Entities[a]
  BY <1>7 DEF Counted, BurstRecords
<1>9. Backed(c) /\ Belated(c) /\ Backed(disk) /\ Belated(disk)
  BY DEF SuppressionInv
<1>10. /\ \A x \in Alerts : Ahead(d, x) => Ahead(c, x)
       /\ c.seen \subseteq d.seen
       /\ outcome # "failed" => \A x \in Alerts : Ahead(d, x) => Before(a, x)
  <2>1. CASE outcome = "failed"
    <3>1. d.last = c.last /\ d.boundary = c.boundary /\ d.seen = c.seen
      BY <1>2, <2>1, SettledFields
    <3> QED
      BY <2>1, <3>1 DEF Ahead
  <2>2. CASE outcome # "failed"
    <3>1. d.last = Ts[a] /\ d.boundary = a /\ d.seen = c.seen \cup {a}
      BY <1>2, <2>2, SettledFields
    <3> QED
      BY <1>2, <1>3, <3>1, AheadShrinks
  <2> QED
    BY <2>1, <2>2
<1> HIDE DEF c, d, old, repeats
<1>11. ASSUME NEW k \in Keys, d.bursts[k].first # NoTime, NEW e \in d.bursts[k].entities
       PROVE  \E b \in led' : /\ Key[b] = k
                              /\ e \in Entities[b]
                              /\ Ts[b] >= d.bursts[k].first \/ "failed" \in fate'[b] \/ b \in late'
  <2>1. CASE k # Key[a] \/ (Continues(old, a) /\ e \in old.entities)
    <3>1. d.bursts[k].first = c.bursts[k].first /\ e \in c.bursts[k].entities
      BY <1>6, <1>8, <1>11, <2>1 DEF old
    <3>2. PICK b \in led : /\ Key[b] = k
                           /\ e \in Entities[b]
                           /\ Ts[b] >= c.bursts[k].first \/ "failed" \in fate[b] \/ b \in late
      BY <1>9, <1>11, <3>1 DEF Backed
    <3> QED
      BY <1>2, <1>4, <1>5, <3>1, <3>2
  <2>2. CASE k = Key[a] /\ ~ Continues(old, a)
    <3>1. d.bursts[k].first = Ts[a] /\ e \in Entities[a]
      BY <1>6, <1>8, <1>11, <2>2 DEF old
    <3>2. a \in led'
      BY <1>4, <2>2 DEF repeats, Repeats
    <3> QED
      BY <1>7, <2>2, <3>1, <3>2
  <2>3. CASE k = Key[a] /\ Continues(old, a) /\ e \notin old.entities
    <3>1. d.bursts[k].first = old.first /\ e \in Entities[a]
      BY <1>6, <1>8, <1>11, <2>3 DEF old
    <3>2. a \in led'
      BY <1>4, <2>3, <3>1 DEF repeats, Repeats
    <3>3. old.first \in Int
      BY <1>7 DEF BurstRecords, Times, NoTime
    <3>4. Ts[a] >= old.first \/ "failed" \in fate[a] \/ a \in late
      <4>1. CASE Ts[a] < old.first
        BY <1>2, <1>3, <1>9, <4>1 DEF Belated, Missed, c, old
      <4> QED
        BY <1>7, <3>3, <4>1
    <3> QED
      BY <1>2, <1>5, <2>3, <3>1, <3>2, <3>4
  <2> QED
    BY <2>1, <2>2, <2>3
<1>12. ASSUME NEW x \in Alerts, Ahead(d, x), x \notin d.seen, Ts[x] < d.bursts[Key[x]].first
       PROVE  "failed" \in fate'[x] \/ Missed(x)'
  <2>0. Key[x] \in Keys /\ Ahead(c, x) /\ x \notin c.seen /\ Ts[x] \in Nat
    BY <1>10, <1>12, KeysAreKeys, TimesAreNumbers
  <2>1. CASE Key[x] # Key[a] \/ Continues(old, a)
    <3>1. d.bursts[Key[x]].first = c.bursts[Key[x]].first
      BY <1>6, <1>8, <2>0, <2>1 DEF old
    <3>2. "failed" \in fate[x] \/ Missed(x)
      BY <1>9, <1>12, <2>0, <3>1 DEF Belated
    <3> QED
      BY <1>5, <1>5a, <3>2
  <2>2. CASE Key[x] = Key[a] /\ ~ Continues(old, a)
    <3>1. Ts[x] < Ts[a]
      BY <1>6, <1>8, <1>12, <2>0, <2>2 DEF old
    <3>2. Before(x, a) /\ x # a
      BY <1>7, <3>1 DEF Before
    <3>3. outcome = "failed"
      BY <1>10, <1>12, <3>2, OrderIsAsymmetric
    <3>4. CASE x \in indexed
      <4>1. x \notin run.page
        BY <1>2, <3>2, OrderIsAsymmetric DEF First
      <4>2. "failed" \in fate[x] \/ x \in late
        BY <1>1, <1>3, <2>0, <3>2, <3>4, <4>1 DEF BoundaryInv, PageTaken, c
      <4> QED
        BY <1>5, <1>5a, <4>2 DEF Missed
    <3>5. CASE x \notin indexed
      <4>1. fate'[a] # {} /\ indexed' = indexed
        BY <1>5 DEF Take
      <4>2. Looked(x)'
        BY <3>2, <4>1 DEF Looked, Before
      <4> QED
        BY <3>5, <4>1, <4>2 DEF Missed
    <3> QED
      BY <3>4, <3>5
  <2> QED
    BY <2>1, <2>2
<1>13. Backed(run.cursor)' /\ Belated(run.cursor)'
  BY <1>11, <1>12 DEF Backed, Belated, Ahead, Before, d
<1>14. Backed(disk)' /\ Belated(disk)'
  BY <1>2, <1>4, <1>5, <1>5a, <1>9, BackedIsKept DEF Backed, Belated, Ahead, Before
<1>15. SuppressionIsBounded'
  <2> SUFFICES ASSUME NEW x \in Alerts, "deduped" \in fate'[x]
               PROVE  \A e \in Entities[x] : \E b \in led' :
                        /\ Key[b] = Key[x]
                        /\ e \in Entities[b]
                        /\ Ts[x] - Ts[b] <= MaxAge \/ "failed" \in fate'[b] \/ b \in late'
    BY DEF SuppressionIsBounded
  <2>1. CASE "deduped" \in fate[x]
    BY <1>2, <1>4, <1>5, <2>1, BoundedIsKept DEF SuppressionInv
  <2>2. CASE "deduped" \notin fate[x]
    <3>1. x = a /\ outcome = "deduped"
      BY <1>5, <2>2
    <3>2. Repeats(old, a)
      BY <3>1, OutcomesAreOutcomes DEF BurstOf, old, c
    <3> SUFFICES ASSUME NEW e \in Entities[x]
                 PROVE  \E b \in led' : /\ Key[b] = Key[x]
                                        /\ e \in Entities[b]
                                        /\ Ts[x] - Ts[b] <= MaxAge \/ "failed" \in fate'[b] \/ b \in late'
      OBVIOUS
    <3>3. old.first # NoTime /\ Ts[a] - old.first <= MaxAge /\ e \in old.entities
      BY <3>1, <3>2 DEF Repeats, Continues
    <3>4. PICK b \in led : /\ Key[b] = Key[a]
                           /\ e \in Entities[b]
                           /\ Ts[b] >= old.first \/ "failed" \in fate[b] \/ b \in late
      BY <1>7, <1>9, <3>3 DEF Backed, old
    <3>5. Ts[b] \in Nat /\ old.first \in Int /\ MaxAge \in Nat
      BY <1>4, <1>7, TimesAreNumbers, IntakeAssumption DEF BurstRecords, Times, NoTime
    <3>6. Ts[b] >= old.first => Ts[a] - Ts[b] <= MaxAge
      BY <1>7, <3>3, <3>5
    <3> QED
      BY <1>2, <1>4, <1>5, <3>1, <3>4, <3>6
  <2> QED
    BY <2>1, <2>2
<1> QED
  BY <1>1, <1>13, <1>14, <1>15 DEF SuppressionInv

LEMMA SuppressionNext ==
  ASSUME SuppressionInv, [Next]_vars
  PROVE  SuppressionInv'
<1>0. /\ PaidInv' /\ PaidInv /\ BoundaryInv
      /\ run.cursor \in Cursors
      /\ led \subseteq Alerts
      /\ Backed(disk) /\ Backed(run.cursor) /\ Belated(disk) /\ Belated(run.cursor)
  BY PaidNext DEF SuppressionInv, PaidInv, BoundaryInv, TypeOK
<1>1. ASSUME run' = Idle, fate' = fate, led' = led, late' = late, indexed' = indexed
      PROVE  Backed(run.cursor)' /\ Belated(run.cursor)' /\ SuppressionIsBounded'
  <2>1. run'.cursor.bursts = [k \in Keys |-> NoBurst]
    BY <1>1 DEF Idle, Fresh
  <2>2. Backed(run'.cursor) /\ Belated(run'.cursor)
    BY <2>1, NoBurstsAreBacked
  <2> QED
    BY <1>1, <2>2 DEF SuppressionInv, Backed, Belated, Missed, Looked, SuppressionIsBounded, Ahead, Before
<1>2. CASE Arrive
  <2>1. run' = run /\ disk' = disk /\ fate' = fate /\ led' = led /\ late \subseteq late'
    BY <1>2 DEF Arrive
  <2>2. \A x \in Alerts : Missed(x) => Missed(x)'
    BY <1>0, <1>2, ArriveKeepsMissed DEF BoundaryInv
  <2>3. Backed(disk)' /\ Belated(disk)'
    BY <1>0, <2>1, <2>2, BackedIsKept DEF Backed, Belated, Ahead, Before
  <2>4. Backed(run.cursor)' /\ Belated(run.cursor)'
    BY <1>0, <2>1, <2>2, BackedIsKept DEF Backed, Belated, Ahead, Before
  <2>5. SuppressionIsBounded'
    BY <1>0, <2>1, BoundedIsKept DEF SuppressionInv, SuppressionIsBounded
  <2> QED
    BY <1>0, <2>3, <2>4, <2>5 DEF SuppressionInv
<1>3. ASSUME NEW dry \in BOOLEAN, Fetch(dry)
      PROVE  SuppressionInv'
  <2>1. run'.cursor = disk /\ disk' = disk /\ fate' = fate /\ led' = led /\ late' = late /\ indexed' = indexed
    BY <1>3 DEF Fetch
  <2> QED
    BY <1>0, <2>1 DEF SuppressionInv, Backed, Belated, Missed, Looked, SuppressionIsBounded, Ahead, Before
<1>4. ASSUME NEW a \in Alerts, Skip(a)
      PROVE  SuppressionInv'
  <2>1. run'.cursor = Passed(run.cursor, a) /\ Ahead(run.cursor, a)
    BY <1>0, <1>4 DEF Skip, First, BoundaryInv, PageAhead, TypeOK
  <2>2. /\ run'.cursor.last = Ts[a] /\ run'.cursor.boundary = a
        /\ run'.cursor.seen = run.cursor.seen /\ run'.cursor.bursts = run.cursor.bursts
    BY <1>0, <2>1, PassedFields
  <2>3. disk' = disk /\ fate' = fate /\ led' = led /\ late' = late /\ indexed' = indexed
    BY <1>4 DEF Skip
  <2>4. \A x \in Alerts : Ahead(run'.cursor, x) => Ahead(run.cursor, x)
    BY <1>0, <2>1, <2>2, AheadShrinks
  <2>5. Backed(run.cursor)'
    BY <1>0, <2>2, <2>3 DEF Backed
  <2>6. Belated(run.cursor)'
    BY <1>0, <2>2, <2>3, <2>4 DEF Belated, Missed, Looked, Ahead, Before
  <2> QED
    BY <1>0, <2>3, <2>5, <2>6 DEF SuppressionInv, Backed, Belated, Missed, Looked, SuppressionIsBounded, Ahead, Before
<1>5. ASSUME NEW a \in Alerts, NEW outcome \in Outcomes(a), Take(a, outcome)
      PROVE  SuppressionInv'
  BY <1>5, SuppressionTake
<1>6. CASE Save
  <2>1. PICK kept \in Kept(run.cursor.seen) : disk' = [run.cursor EXCEPT !.seen = kept]
    BY <1>6 DEF Save
  <2>2. /\ disk'.last = run.cursor.last /\ disk'.boundary = run.cursor.boundary
        /\ disk'.seen = kept /\ disk'.bursts = run.cursor.bursts
    BY <1>0, <2>1, SavedFields
  <2>3. run' = Idle /\ fate' = fate /\ led' = led /\ late' = late /\ indexed' = indexed
    BY <1>6 DEF Save
  <2>4. /\ \A x \in Alerts : Ahead(disk', x) <=> Ahead(run.cursor, x)
        /\ \A x \in run.cursor.seen : x \in disk'.seen \/ ~ Ahead(disk', x)
    BY <1>0, <2>1, <2>2, SaveRemembers DEF PaidInv
  <2>5. Backed(disk)'
    BY <1>0, <2>2, <2>3 DEF Backed
  <2>6. Belated(disk)'
    BY <1>0, <2>2, <2>3, <2>4 DEF Belated, Missed, Looked, Ahead, Before
  <2> QED
    BY <1>0, <1>1, <2>3, <2>5, <2>6 DEF SuppressionInv
<1>7. CASE Kill
  <2>1. run' = Idle /\ fate' = fate /\ led' = led /\ late' = late /\ indexed' = indexed /\ disk' = disk
    BY <1>7 DEF Kill
  <2>2. Backed(disk)' /\ Belated(disk)'
    BY <1>0, <2>1 DEF Backed, Belated, Missed, Looked, Ahead, Before
  <2> QED
    BY <1>0, <1>1, <2>1, <2>2 DEF SuppressionInv
<1>8. CASE Tear
  <2>1. run' = Idle /\ fate' = fate /\ led' = led /\ late' = late /\ indexed' = indexed /\ disk' = Fresh
    BY <1>8 DEF Tear
  <2>2. disk'.bursts = [k \in Keys |-> NoBurst]
    BY <2>1 DEF Fresh
  <2>3. Backed(disk') /\ Belated(disk')
    BY <2>2, NoBurstsAreBacked
  <2>4. Backed(disk)' /\ Belated(disk)'
    BY <2>1, <2>3 DEF Backed, Belated, Missed, Looked, Ahead, Before
  <2> QED
    BY <1>0, <1>1, <2>1, <2>4 DEF SuppressionInv
<1>9. CASE UNCHANGED vars
  BY <1>0, <1>9 DEF vars, SuppressionInv, Backed, Belated, Missed, Looked, SuppressionIsBounded, Ahead, Before
<1> QED
  BY <1>2, <1>3, <1>4, <1>5, <1>6, <1>7, <1>8, <1>9 DEF Next, Work

THEOREM SuppressionInvariance == Spec => []SuppressionInv
<1>1. Init => SuppressionInv
  BY SuppressionInit
<1>2. SuppressionInv /\ [Next]_vars => SuppressionInv'
  BY SuppressionNext
<1> QED
  BY <1>1, <1>2, PTL DEF Spec

\* A signature is never starved: whatever a burst absorbs was shown, within the
\* age cap, by an alert of the same signature that was not suppressed.
THEOREM NoSignatureStarves == Spec => []SuppressionIsBounded
<1>1. SuppressionInv => SuppressionIsBounded
  BY DEF SuppressionInv
<1> QED
  BY <1>1, SuppressionInvariance, PTL

----------------------------------------------------------------------------
\* Intel: the order of versions.

LEMMA PartsAreNumbers ==
  ASSUME NEW a \in Seq(Nat), NEW i \in Nat
  PROVE  Part(a, i) \in Nat
<1>1. \A j \in DOMAIN a : a[j] \in Nat
  BY ElementOfSeq, LenProperties
<1> QED
  BY <1>1 DEF Part

LEMMA PlacesAreNumbers ==
  ASSUME NEW a \in Seq(Nat)
  PROVE  DOMAIN a \subseteq Nat \ {0}
BY LenProperties

\* The least of a set of numbers is in it, and is the least.
LEMMA MinIsThere ==
  ASSUME NEW T \in SUBSET Nat, T # {}
  PROVE  Min(T) \in T /\ \A u \in T : Min(T) =< u
<1>1. PICK t \in T : \A u \in T : ~ (<<u, t>> \in OpToRel(<, Nat))
  BY WFMin, NatLessThanWellFounded
<1>2. \A u \in T : ~ (u < t)
  BY <1>1 DEF OpToRel
<1>3. \A u \in T : t =< u
  BY <1>2
<1> QED
  BY <1>3 DEF Min

\* What comes first in a dictionary is the smaller to the comparison of the code, which
\* looks at the least place where the two differ.
LEMMA FirstIsLess ==
  ASSUME NEW a \in Seq(Nat), NEW b \in Seq(Nat), Precedes(a, b)
  PROVE  Less(a, b) /\ ~ Less(b, a)
<1> DEFINE Differ == {i \in DOMAIN a \cup DOMAIN b : Part(a, i) # Part(b, i)}
<1>1. PICK n \in DOMAIN b : Part(a, n) < Part(b, n) /\ \A i \in 1..(n - 1) : Part(a, i) = Part(b, i)
  BY DEF Precedes
<1>2. n \in Nat \ {0} /\ Part(a, n) \in Nat /\ Part(b, n) \in Nat
  BY PlacesAreNumbers, PartsAreNumbers
<1>3. n \in Differ
  BY <1>1, <1>2
<1>4. \A i \in Differ : i \in Nat /\ n =< i
  BY <1>1, <1>2, PlacesAreNumbers
<1>5. Min(Differ) = n
  <2> HIDE DEF Differ
  <2>1. \A x \in Differ : (\A y \in Differ : x =< y) => x = n
    BY <1>2, <1>3, <1>4
  <2> QED
    BY <1>3, <1>4, <2>1 DEF Min
<1>6. Differ = {i \in DOMAIN b \cup DOMAIN a : Part(b, i) # Part(a, i)}
  OBVIOUS
<1> HIDE DEF Differ
<1>7. ~ (Part(b, n) < Part(a, n))
  BY <1>1, <1>2
<1>8. Less(a, b)
  <2>1. Less(a, b) <=> Differ # {} /\ Part(a, Min(Differ)) < Part(b, Min(Differ))
    BY DEF Less, Differ
  <2> QED
    BY <1>1, <1>3, <1>5, <2>1
<1>9. ~ Less(b, a)
  <2>1. Less(b, a) <=> Differ # {} /\ Part(b, Min(Differ)) < Part(a, Min(Differ))
    BY <1>6 DEF Less
  <2> QED
    BY <1>5, <1>7, <2>1
<1> QED
  BY <1>8, <1>9

\* Of two versions with the same numbers, none is the smaller.
LEMMA SameIsNotLess ==
  ASSUME NEW a \in Seq(Nat), NEW b \in Seq(Nat), Same(a, b)
  PROVE  ~ Less(a, b) /\ ~ Less(b, a)
BY DEF Same, Less

\* Of two versions the first is the smaller, the second is, or they have the same numbers.
LEMMA OneOfThree ==
  ASSUME NEW a \in Seq(Nat), NEW b \in Seq(Nat)
  PROVE  Precedes(a, b) \/ Precedes(b, a) \/ Same(a, b)
<1> DEFINE Differ == {i \in DOMAIN a \cup DOMAIN b : Part(a, i) # Part(b, i)}
           n == Min(Differ)
<1>1. CASE Differ = {}
  BY <1>1 DEF Same
<1>2. CASE Differ # {}
  <2>1. Differ \subseteq Nat \ {0}
    BY PlacesAreNumbers
  <2>2. n \in Differ /\ \A y \in Differ : n =< y
    <3> HIDE DEF Differ
    <3> QED
      BY <1>2, <2>1, MinIsThere
  <2>3. n \in Nat \ {0} /\ Part(a, n) # Part(b, n)
    BY <2>1, <2>2
  <2>4. \A i \in 1..(n - 1) : Part(a, i) = Part(b, i)
    <3> TAKE i \in 1..(n - 1)
    <3>1. i \notin Differ
      <4> HIDE DEF Differ, n
      <4> QED
        BY <2>2, <2>3
    <3>2. i \notin DOMAIN a \cup DOMAIN b => Part(a, i) = Part(b, i)
      BY DEF Part
    <3> QED
      BY <3>1, <3>2
  <2> HIDE DEF n
  <2>5. Part(a, n) \in Nat /\ Part(b, n) \in Nat
    BY <2>3, PartsAreNumbers
  <2>6. CASE Part(a, n) < Part(b, n)
    <3>1. n \in DOMAIN b
      BY <2>5, <2>6 DEF Part
    <3> QED
      BY <2>4, <2>6, <3>1 DEF Precedes
  <2>7. CASE Part(b, n) < Part(a, n)
    <3>1. n \in DOMAIN a
      BY <2>5, <2>7 DEF Part
    <3> QED
      BY <2>4, <2>7, <3>1 DEF Precedes
  <2> QED
    BY <2>3, <2>5, <2>6, <2>7
<1> QED
  BY <1>1, <1>2

\* The comparison of the code is the order of a dictionary.
LEMMA LessIsPrecedes ==
  ASSUME NEW a \in Seq(Nat), NEW b \in Seq(Nat)
  PROVE  /\ Less(a, b) <=> Precedes(a, b)
         /\ ~ Less(a, b) <=> Precedes(b, a) \/ Same(a, b)
BY OneOfThree, FirstIsLess, SameIsNotLess

----------------------------------------------------------------------------
\* The ranges.

\* What has a version has the numbers of its core.
LEMMA NormalizedIsCore ==
  ASSUME NEW raw \in Raw, Normalize(raw) # <<>>
  PROVE  Normalize(raw) = raw.core /\ raw.core \in Seq(Nat)
BY DEF Normalize, Raw

\* A release after the bound is a version the code takes for one at or after it.
LEMMA StartIsKept ==
  ASSUME NEW raw \in Raw, Normalize(raw) # <<>>, raw.form # "pre",
         NEW start \in Raw, Normalize(start) # <<>>, NEW inc \in BOOLEAN,
         ~ (start.form = "pre" /\ ~ inc),
         Earlier(start, raw) \/ (inc /\ Even(start, raw))
  PROVE  IF inc THEN ~ Less(Normalize(raw), Normalize(start)) ELSE Less(Normalize(start), Normalize(raw))
<1>1. /\ Normalize(raw) = raw.core /\ raw.core \in Seq(Nat)
      /\ Normalize(start) = start.core /\ start.core \in Seq(Nat)
  BY NormalizedIsCore
<1>2. CASE Precedes(start.core, raw.core)
  BY <1>1, <1>2, FirstIsLess
<1>3. CASE Same(start.core, raw.core) /\ inc
  BY <1>1, <1>3, SameIsNotLess
<1> QED
  BY <1>2, <1>3 DEF Earlier, Even

LEMMA EndIsKept ==
  ASSUME NEW raw \in Raw, Normalize(raw) # <<>>, raw.form # "pre",
         NEW end \in Raw, Normalize(end) # <<>>, NEW inc \in BOOLEAN,
         Earlier(raw, end) \/ (inc /\ Even(raw, end))
  PROVE  IF inc THEN ~ Less(Normalize(end), Normalize(raw)) ELSE Less(Normalize(raw), Normalize(end))
<1>1. /\ Normalize(raw) = raw.core /\ raw.core \in Seq(Nat)
      /\ Normalize(end) = end.core /\ end.core \in Seq(Nat)
  BY NormalizedIsCore
<1>2. CASE Precedes(raw.core, end.core)
  BY <1>1, <1>2, FirstIsLess
<1>3. CASE Same(raw.core, end.core) /\ inc
  BY <1>1, <1>3, SameIsNotLess
<1> QED
  BY <1>2, <1>3 DEF Earlier, Even

\* A release that an entry affects is in the entry's range.
LEMMA AffectedIsInRange ==
  ASSUME NEW m \in CpeMatch, NEW raw \in Raw,
         Normalize(raw) # <<>>, raw.form \notin {"pre", "really"}, Bounded(m), ~ AfterPre(m), Affects(m, raw)
  PROVE  InRange(Normalize(raw), RangeOf(m))
<1>0. /\ m.exact \in Raw /\ m.start \in Raw /\ m.end \in Raw
      /\ m.startInc \in BOOLEAN /\ m.endInc \in BOOLEAN
  BY DEF CpeMatch
<1>1. CASE m.exact # NoRaw
  <2>1. RangeOf(m) = [start |-> Normalize(m.exact), startInc |-> TRUE,
                      end |-> Normalize(m.exact), endInc |-> TRUE]
    BY <1>1 DEF RangeOf
  <2>2. Normalize(m.exact) # <<>>
    BY <2>1 DEF Bounded
  <2>3. Same(raw.core, m.exact.core)
    BY <1>1, <2>2 DEF Affects, Even
  <2>4. ~ Less(Normalize(raw), Normalize(m.exact)) /\ ~ Less(Normalize(m.exact), Normalize(raw))
    BY <1>0, <2>2, <2>3, NormalizedIsCore, SameIsNotLess
  <2> QED
    BY <2>1, <2>4 DEF InRange
<1>2. CASE m.exact = NoRaw
  <2>1. RangeOf(m) = [start |-> Normalize(m.start), startInc |-> m.startInc,
                      end |-> Normalize(m.end), endInc |-> m.endInc]
    BY <1>2 DEF RangeOf
  <2>2. /\ Normalize(m.start) = <<>> \/ Earlier(m.start, raw) \/ (m.startInc /\ Even(m.start, raw))
        /\ Normalize(m.end) = <<>> \/ Earlier(raw, m.end) \/ (m.endInc /\ Even(raw, m.end))
    BY <1>2 DEF Affects
  <2>3. ASSUME Normalize(m.start) # <<>>
        PROVE  IF m.startInc THEN ~ Less(Normalize(raw), Normalize(m.start))
               ELSE Less(Normalize(m.start), Normalize(raw))
    <3>1. ~ (m.start.form = "pre" /\ ~ m.startInc)
      BY DEF AfterPre
    <3> QED
      BY <1>0, <2>2, <2>3, <3>1, StartIsKept
  <2>4. ASSUME Normalize(m.end) # <<>>
        PROVE  IF m.endInc THEN ~ Less(Normalize(m.end), Normalize(raw))
               ELSE Less(Normalize(raw), Normalize(m.end))
    BY <1>0, <2>2, <2>4, EndIsKept
  <2> QED
    BY <2>1, <2>3, <2>4 DEF InRange
<1> QED
  BY <1>1, <1>2
\* For any versions of any length, and every way to include a bound: a release is in the range
\* of an entry of releases exactly when the entry affects it (in_range, _cmp, fetch_cpe_ranges).
THEOREM RangesAreRight ==
  ASSUME NEW m \in CpeMatch, NEW raw \in Raw, Bounded(m), Normalize(raw) # <<>>,
         \A v \in {raw, m.exact, m.start, m.end} : v.form \notin {"pre", "really"}
  PROVE  InRange(Normalize(raw), RangeOf(m)) <=> Affects(m, raw)
<1>0. /\ m.exact \in Raw /\ m.start \in Raw /\ m.end \in Raw
      /\ m.startInc \in BOOLEAN /\ m.endInc \in BOOLEAN
  BY DEF CpeMatch
<1>1. \A v \in Raw : Normalize(v) # <<>> => Normalize(v) = v.core /\ v.core \in Seq(Nat)
  BY NormalizedIsCore
<1>2. \A v \in Raw : Normalize(v) # <<>> =>
        /\ Less(Normalize(v), Normalize(raw)) <=> Precedes(v.core, raw.core)
        /\ Less(Normalize(raw), Normalize(v)) <=> Precedes(raw.core, v.core)
        /\ ~ Less(Normalize(raw), Normalize(v)) <=> Precedes(v.core, raw.core) \/ Same(raw.core, v.core)
        /\ ~ Less(Normalize(v), Normalize(raw)) <=> Precedes(raw.core, v.core) \/ Same(v.core, raw.core)
  BY <1>1, LessIsPrecedes
<1>3. \A v, w : Same(v, w) <=> Same(w, v)
  BY DEF Same
<1>4. CASE m.exact # NoRaw
  <2>1. RangeOf(m) = [start |-> Normalize(m.exact), startInc |-> TRUE,
                      end |-> Normalize(m.exact), endInc |-> TRUE]
    BY <1>4 DEF RangeOf
  <2>2. Normalize(m.exact) # <<>>
    BY <2>1 DEF Bounded
  <2>3. InRange(Normalize(raw), RangeOf(m)) <=>
          ~ Less(Normalize(raw), Normalize(m.exact)) /\ ~ Less(Normalize(m.exact), Normalize(raw))
    BY <2>1, <2>2 DEF InRange
  <2>4. ~ Less(Normalize(raw), Normalize(m.exact)) /\ ~ Less(Normalize(m.exact), Normalize(raw))
          <=> Same(raw.core, m.exact.core)
    <3>1. m.exact.core \in Seq(Nat) /\ raw.core \in Seq(Nat)
      BY <1>0, <1>1, <2>2
    <3>2. Precedes(raw.core, m.exact.core) => ~ Precedes(m.exact.core, raw.core)
      BY <3>1, FirstIsLess, LessIsPrecedes
    <3>3. Same(raw.core, m.exact.core) => ~ Less(raw.core, m.exact.core) /\ ~ Less(m.exact.core, raw.core)
      BY <3>1, SameIsNotLess
    <3> QED
      BY <1>0, <1>1, <1>2, <1>3, <2>2, <3>2, <3>3
  <2>5. Affects(m, raw) <=> Same(raw.core, m.exact.core)
    BY <1>4, <2>2 DEF Affects, Even
  <2> QED
    BY <2>3, <2>4, <2>5
<1>5. CASE m.exact = NoRaw
  <2>1. RangeOf(m) = [start |-> Normalize(m.start), startInc |-> m.startInc,
                      end |-> Normalize(m.end), endInc |-> m.endInc]
    BY <1>5 DEF RangeOf
  <2>2. InRange(Normalize(raw), RangeOf(m)) <=>
          /\ Normalize(m.start) # <<>> => IF m.startInc THEN ~ Less(Normalize(raw), Normalize(m.start))
                                          ELSE Less(Normalize(m.start), Normalize(raw))
          /\ Normalize(m.end) # <<>> => IF m.endInc THEN ~ Less(Normalize(m.end), Normalize(raw))
                                        ELSE Less(Normalize(raw), Normalize(m.end))
    BY <2>1 DEF InRange
  <2>3. Affects(m, raw) <=>
          /\ Normalize(m.start) = <<>> \/ Precedes(m.start.core, raw.core)
               \/ (m.startInc /\ Same(m.start.core, raw.core))
          /\ Normalize(m.end) = <<>> \/ Precedes(raw.core, m.end.core)
               \/ (m.endInc /\ Same(raw.core, m.end.core))
    BY <1>5 DEF Affects, Earlier, Even
  <2>4. Normalize(m.start) # <<>> =>
          ((IF m.startInc THEN ~ Less(Normalize(raw), Normalize(m.start))
            ELSE Less(Normalize(m.start), Normalize(raw)))
           <=> Precedes(m.start.core, raw.core) \/ (m.startInc /\ Same(m.start.core, raw.core)))
    BY <1>0, <1>2, <1>3
  <2>5. Normalize(m.end) # <<>> =>
          ((IF m.endInc THEN ~ Less(Normalize(m.end), Normalize(raw))
            ELSE Less(Normalize(raw), Normalize(m.end)))
           <=> Precedes(raw.core, m.end.core) \/ (m.endInc /\ Same(raw.core, m.end.core)))
    BY <1>0, <1>2, <1>3
  <2> QED
    BY <2>2, <2>3, <2>4, <2>5
<1> QED
  BY <1>4, <1>5

----------------------------------------------------------------------------
\* What the check closes a case on.

\* A patched version has a version, an entry of the NVD with a range, and is in none of them.
LEMMA PatchedIsOutside ==
  ASSUME NEW c, NEW product, NEW raw, NEW ranges \in {CpeRanges(c, product), {}},
         Disposition(raw, ranges) = "patched"
  PROVE  /\ Normalize(raw) # <<>>
         /\ \A m \in About(c, product) : Bounded(m) => ~ InRange(Normalize(raw), RangeOf(m))
<1>1. ranges # {} /\ Normalize(raw) # <<>> /\ ~ \E r \in ranges : InRange(Normalize(raw), r)
  BY DEF Disposition
<1>2. ranges = CpeRanges(c, product)
  BY <1>1
<1>3. \A m \in About(c, product) : Bounded(m) => RangeOf(m) \in ranges
  BY <1>2 DEF CpeRanges
<1> QED
  BY <1>1, <1>3

LEMMA EntriesAreMatches ==
  ASSUME NEW leg \in Legs
  PROVE  About(leg[1], ProductOf[leg[1]]) \subseteq CpeMatch
<1>1. leg[1] \in Cves
  BY DEF Legs
<1> QED
  BY <1>1, IntelAssumption DEF About

\* What an inventory may be: finitely many packages.
Stocked == IsFiniteSet(inventory) /\ inventory \subseteq Installed

\* The versions on record of a product on an agent are finitely many.
LEMMA RecordsAreFinite ==
  ASSUME Stocked, NEW leg
  PROVE  IsFiniteSet(OnRecord(leg)) /\ OnRecord(leg) \subseteq Raw
<1> DEFINE Found == {y \in inventory : y.product = ProductOf[leg[1]] /\ y.agent = leg[2]}
           Drawn == [x \in Found |-> x.raw]
<1>1. IsFiniteSet(Found)
  BY FS_Subset DEF Stocked
<1>2. OnRecord(leg) = {x.raw : x \in Found}
  BY DEF OnRecord
<1>3. Drawn \in Surjection(Found, OnRecord(leg))
  BY <1>2 DEF Surjection
<1>4. IsFiniteSet(OnRecord(leg))
  BY <1>1, <1>3, FS_Surjection
<1>5. OnRecord(leg) \subseteq Raw
  BY <1>2 DEF Stocked, Installed
<1> QED
  BY <1>4, <1>5

\* Two versions on record are more than one.
LEMMA TwoAreMany ==
  ASSUME NEW S, IsFiniteSet(S), NEW x \in S, NEW y \in S, x # y
  PROVE  Cardinality(S) > 1
<1>1. Cardinality(S) \in Nat
  BY FS_CardinalityType
<1>2. Cardinality(S) # 0
  BY FS_EmptySet
<1>3. Cardinality(S) # 1
  BY FS_Singleton
<1> QED
  BY <1>1, <1>2, <1>3

\* A case closed on a version read from the inventory is not of an affected package, or the
\* history has a reason.
LEMMA ClosedOnEvidence ==
  ASSUME Stocked, NEW leg \in Legs, NEW raw,
         NEW ranges \in {CpeRanges(leg[1], ProductOf[leg[1]]), {}},
         Disposition(raw, ranges) = "patched", Wrong(leg)
  PROVE  Doubt(leg, raw) # {}
<1> DEFINE Entries == About(leg[1], ProductOf[leg[1]])
<1>1. PICK kept \in OnRecord(leg), m \in Entries : Affects(m, kept)
  BY DEF Wrong
<1>2. CASE raw \notin OnRecord(leg)
  <2>1. "moved" \in Doubt(leg, raw)
    BY <1>2 DEF Doubt, Doubts
  <2> QED
    BY <2>1
<1>3. CASE raw \in OnRecord(leg) /\ kept # raw
  <2>1. Cardinality(OnRecord(leg)) > 1
    BY <1>3, RecordsAreFinite, TwoAreMany
  <2>2. "twin" \in Doubt(leg, raw)
    BY <2>1 DEF Doubt, Doubts
  <2> QED
    BY <2>2
<1>4. CASE raw.form = "pre" \/ AfterPre(m)
  <2>1. "prerelease" \in Doubt(leg, raw)
    BY <1>4 DEF Doubt, Doubts
  <2> QED
    BY <2>1
<1>5. CASE ~ Bounded(m)
  <2>1. IF OfAll(m) THEN "all" \in Doubt(leg, raw) ELSE "unread" \in Doubt(leg, raw)
    BY <1>5 DEF Doubt, Doubts
  <2> QED
    BY <2>1
<1>7. CASE raw.form = "really"
  <2>1. "really" \in Doubt(leg, raw)
    BY <1>7 DEF Doubt, Doubts
  <2> QED
    BY <2>1
<1>6. CASE raw = kept /\ raw.form \notin {"pre", "really"} /\ ~ AfterPre(m) /\ Bounded(m)
  <2>1. raw \in Raw /\ m \in CpeMatch
    BY <1>6, RecordsAreFinite, EntriesAreMatches
  <2>2. Normalize(raw) # <<>> /\ ~ InRange(Normalize(raw), RangeOf(m))
    BY <1>6, PatchedIsOutside
  <2>3. Affects(m, raw)
    BY <1>1, <1>6
  <2> QED
    BY <1>6, <2>1, <2>2, <2>3, AffectedIsInRange
<1> QED
  BY <1>2, <1>3, <1>4, <1>5, <1>6, <1>7

----------------------------------------------------------------------------
\* What the runs and the cases may be.

Told == {"unknown", "vulnerable", "checked", "torn"}

CaseRecords == [leg : Legs \cup {<<>>}, sourced : BOOLEAN, status : {"none", "open", "closed"},
                scored : BOOLEAN, notes : SUBSET Told, by : {"none", "intel", "human"},
                wrong : BOOLEAN, doubt : SUBSET Doubts]

Readings == UNION {[held -> [raw : Raw, notes : SUBSET Told]] : held \in SUBSET Ids}

\* Where a run stands, and what it has in hand there.
Standings ==
  [pc : {"rest", "list"}]
  \cup [pc : {"mint"}, todo : SUBSET Legs, cves : SUBSET Cves]
  \cup [pc : {"open"}, todo : SUBSET Legs, cves : SUBSET Cves, leg : Legs]
  \cup [pc : {"enrich"}, cves : SUBSET Cves]
  \cup [pc : {"judge"}, read : Readings]
  \cup [pc : {"evidence"}, case : Ids, read : Readings]

IntelTyped ==
  /\ catalogue \subseteq Cves
  /\ Stocked
  /\ packs \in [Cves -> SUBSET {"staged", "live"}]
  /\ cases \in [Ids -> CaseRecords]
  /\ \A i \in Ids : cases[i].status # "none" => cases[i].leg \in Legs
  /\ pass \in [Passes -> Standings]
  /\ spent \in [{"faults", "acts"} -> Nat]

IntelInv == IntelTyped /\ ClosingIsEarned

LEMMA LimitsAreNumbers == DOMAIN Bounds = {"faults", "acts"}
BY DEF Bounds

LEMMA SpendingIsTyped ==
  ASSUME spent \in [{"faults", "acts"} -> Nat], NEW b \in {"faults", "acts"}, Spend(b)
  PROVE  spent' \in [{"faults", "acts"} -> Nat]
BY DEF Spend

LEMMA NoRawIsRaw == NoRaw \in Raw
<1>1. <<>> \in Seq(Nat)
  BY EmptySeq
<1> QED
  BY <1>1 DEF NoRaw, Raw, Forms

LEMMA NoCaseIsACase == NoCase \in CaseRecords
BY DEF NoCase, CaseRecords

LEMMA RestStands == Rest \in Standings
BY DEF Rest, Standings

\* What a run has in hand, by where it is.
LEMMA InHand ==
  ASSUME NEW p \in Standings
  PROVE  /\ p.pc = "mint" => p.todo \subseteq Legs /\ p.cves \subseteq Cves
                             /\ \A rest \in SUBSET Legs : [p EXCEPT !.todo = rest] \in Standings
         /\ p.pc = "open" => p.todo \subseteq Legs /\ p.cves \subseteq Cves /\ p.leg \in Legs
         /\ p.pc = "enrich" => p.cves \subseteq Cves
         /\ p.pc = "judge" => p.read \in Readings
                             /\ \A others \in Readings : [p EXCEPT !.read = others] \in Standings
         /\ p.pc = "evidence" => p.read \in Readings /\ p.case \in Ids
BY DEF Standings

LEMMA MatchesAreLegs == \A page : Matches(page) \subseteq Legs /\ {leg[1] : leg \in Matches(page)} \subseteq Cves
BY DEF Matches, Legs

LEMMA IntelStarts == IntelInit => IntelInv
<1> SUFFICES ASSUME IntelInit PROVE IntelInv
  OBVIOUS
<1>1. catalogue \subseteq Cves /\ Stocked
  BY IntelAssumption DEF IntelInit, Stocked
<1>2. cases \in [Ids -> CaseRecords] /\ \A i \in Ids : cases[i] = NoCase
  BY NoCaseIsACase DEF IntelInit
<1>3. pass \in [Passes -> Standings]
  BY RestStands DEF IntelInit
<1>4. packs \in [Cves -> SUBSET {"staged", "live"}] /\ spent \in [{"faults", "acts"} -> Nat]
  BY LimitsAreNumbers DEF IntelInit
<1> QED
  BY <1>1, <1>2, <1>3, <1>4 DEF IntelInv, IntelTyped, ClosingIsEarned, NoCase

\* The steps that neither close a case nor open one keep what each case says of its closing.
LEMMA SameClosings ==
  ASSUME ClosingIsEarned, \A i \in Ids : cases'[i].by = cases[i].by /\ cases'[i].wrong = cases[i].wrong
                                         /\ cases'[i].doubt = cases[i].doubt
  PROVE  ClosingIsEarned'
BY DEF ClosingIsEarned

\* What the steps that keep a case's closing leave of it: its source, its score and its notes
\* are all that changes.
Unclosed(old, new) ==
  /\ new \in CaseRecords
  /\ new.status = old.status /\ new.leg = old.leg
  /\ new.by = old.by /\ new.wrong = old.wrong /\ new.doubt = old.doubt

LEMMA KeptIsKept ==
  ASSUME IntelInv, DOMAIN cases' = Ids, cases' = [i \in Ids |-> cases'[i]],
         \A i \in Ids : Unclosed(cases[i], cases'[i])
  PROVE  /\ cases' \in [Ids -> CaseRecords]
         /\ \A i \in Ids : cases'[i].status # "none" => cases'[i].leg \in Legs
         /\ ClosingIsEarned'
<1>1. cases' \in [Ids -> CaseRecords]
  BY DEF Unclosed
<1>2. \A i \in Ids : cases'[i].status # "none" => cases'[i].leg \in Legs
  BY DEF Unclosed, IntelInv, IntelTyped
<1>3. ClosingIsEarned'
  BY SameClosings DEF Unclosed, IntelInv
<1> QED
  BY <1>1, <1>2, <1>3

\* A record with other values of the three fields.
LEMMA ChangedIsKept ==
  ASSUME NEW old \in CaseRecords, NEW sourced \in BOOLEAN, NEW scored \in BOOLEAN, NEW notes \in SUBSET Told
  PROVE  /\ Unclosed(old, old)
         /\ Unclosed(old, [old EXCEPT !.sourced = sourced])
         /\ Unclosed(old, [old EXCEPT !.scored = scored])
         /\ Unclosed(old, [old EXCEPT !.notes = notes])
         /\ Unclosed(old, [old EXCEPT !.notes = notes, !.sourced = sourced])
BY DEF Unclosed, CaseRecords

\* A case that loses its source keeps the rest.
LEMMA UnsourcedIsKept ==
  ASSUME IntelInv, NEW i \in Ids, Appends(i)
  PROVE  /\ cases' \in [Ids -> CaseRecords]
         /\ \A j \in Ids : cases'[j].status # "none" => cases'[j].leg \in Legs
         /\ ClosingIsEarned'
         /\ spent' \in [{"faults", "acts"} -> Nat]
<1>1. cases \in [Ids -> CaseRecords]
  BY DEF IntelInv, IntelTyped
<1>2. CASE UNCHANGED <<cases, spent>>
  BY <1>2 DEF IntelInv, IntelTyped, ClosingIsEarned
<1>3. CASE Unsources(i)
  <2>1. cases' = [cases EXCEPT ![i].sourced = FALSE]
    BY <1>3 DEF Unsources
  <2>2. \A b \in BOOLEAN : [cases EXCEPT ![i].sourced = b] = [cases EXCEPT ![i] = [cases[i] EXCEPT !.sourced = b]]
    BY <1>1
  <2>3. cases' = [cases EXCEPT ![i] = [cases[i] EXCEPT !.sourced = FALSE]]
    BY <2>1, <2>2
  <2>4. \A j \in Ids : Unclosed(cases[j], cases'[j])
    BY <1>1, <2>3, ChangedIsKept
  <2>5. DOMAIN cases' = Ids /\ cases' = [j \in Ids |-> cases'[j]]
    BY <1>1, <2>3
  <2>6. spent' \in [{"faults", "acts"} -> Nat]
    BY <1>3, SpendingIsTyped DEF Unsources, IntelInv, IntelTyped
  <2> QED
    BY <2>4, <2>5, <2>6, KeptIsKept
<1> QED
  BY <1>2, <1>3 DEF Appends

LEMMA IntelIngest ==
  ASSUME IntelInv, NEW r \in Passes, Ingest(r)
  PROVE  IntelInv'
<1>1. PICK page : /\ packs' = [c \in Cves |-> IF packs[c] = {} /\ \E leg \in Matches(page) : leg[1] = c
                                               THEN {"staged"} ELSE packs[c]]
                  /\ Becomes(r, [pc |-> "mint", todo |-> Matches(page), cves |-> {leg[1] : leg \in Matches(page)}])
  BY DEF Ingest
<1>2. [pc |-> "mint", todo |-> Matches(page), cves |-> {leg[1] : leg \in Matches(page)}] \in Standings
  BY MatchesAreLegs DEF Standings
<1>3. pass' \in [Passes -> Standings]
  BY <1>1, <1>2 DEF Becomes, IntelInv, IntelTyped
<1>4. packs' \in [Cves -> SUBSET {"staged", "live"}]
  BY <1>1 DEF IntelInv, IntelTyped
<1>5. spent' \in [{"faults", "acts"} -> Nat]
  <2>1. CASE r = "hand"
    BY <2>1, SpendingIsTyped DEF Ingest, IntelInv, IntelTyped
  <2>2. CASE r = "timer"
    BY <2>2 DEF Ingest, IntelInv, IntelTyped
  <2> QED
    BY <2>1, <2>2 DEF Passes
<1> QED
  BY <1>3, <1>4, <1>5 DEF Ingest, IntelInv, IntelTyped, Stocked, ClosingIsEarned

LEMMA IntelMintLook ==
  ASSUME IntelInv, NEW r \in Passes, MintLook(r)
  PROVE  IntelInv'
<1> DEFINE leg == CHOOSE x \in pass[r].todo : TRUE
           left == pass[r].todo \ {leg}
<1>1. pass[r] \in Standings /\ pass[r].pc = "mint" /\ pass[r].todo # {}
  BY DEF MintLook, At, IntelInv, IntelTyped
<1>2. leg \in Legs /\ left \subseteq Legs /\ pass[r].cves \subseteq Cves
  BY <1>1, InHand
<1>3. [pass[r] EXCEPT !.todo = left] \in Standings
  BY <1>1, <1>2, InHand
<1>4. [pc |-> "open", todo |-> left, cves |-> pass[r].cves, leg |-> leg] \in Standings
  BY <1>2 DEF Standings
<1>5. \/ Becomes(r, [pass[r] EXCEPT !.todo = left])
      \/ Becomes(r, [pc |-> "open", todo |-> left, cves |-> pass[r].cves, leg |-> leg])
  BY DEF MintLook
<1>7. \/ \E i \in Ids : Appends(i)
      \/ UNCHANGED cases /\ (Spend("faults") \/ UNCHANGED spent)
  BY DEF MintLook, OpenIntelCase, OpenOf
<1> HIDE DEF leg, left
<1>6. pass' \in [Passes -> Standings]
  BY <1>3, <1>4, <1>5 DEF Becomes, IntelInv, IntelTyped
<1>8. CASE \E i \in Ids : Appends(i)
  BY <1>6, <1>8, UnsourcedIsKept DEF MintLook, IntelInv, IntelTyped, Stocked
<1>9. CASE UNCHANGED cases /\ (Spend("faults") \/ UNCHANGED spent)
  <2>1. spent' \in [{"faults", "acts"} -> Nat]
    BY <1>9, SpendingIsTyped DEF IntelInv, IntelTyped
  <2> QED
    BY <1>6, <1>9, <2>1 DEF MintLook, IntelInv, IntelTyped, Stocked, ClosingIsEarned
<1> QED
  BY <1>7, <1>8, <1>9

\* A new case has no closing to explain.
LEMMA IntelMintOpen ==
  ASSUME IntelInv, NEW r \in Passes, MintOpen(r)
  PROVE  IntelInv'
<1> DEFINE new == NewCase(pass[r].leg)
           free == Min(Free(pass[r].leg[1]))
<1>1. pass[r] \in Standings /\ pass[r].pc = "open"
  BY DEF MintOpen, At, IntelInv, IntelTyped
<1>2. pass[r].todo \subseteq Legs /\ pass[r].cves \subseteq Cves /\ pass[r].leg \in Legs
  BY <1>1, InHand
<1>3. [pc |-> "mint", todo |-> pass[r].todo, cves |-> pass[r].cves] \in Standings
  BY <1>2 DEF Standings
<1>4. pass' \in [Passes -> Standings]
  BY <1>3 DEF MintOpen, Becomes, IntelInv, IntelTyped
<1>5. new \in CaseRecords /\ new.leg \in Legs /\ new.by = "none"
  BY <1>2 DEF CaseRecords, NewCase
<1>6. cases' = [cases EXCEPT ![free] = new]
  BY DEF MintOpen
<1> HIDE DEF new, free
<1>7. /\ cases' \in [Ids -> CaseRecords]
      /\ \A i \in Ids : cases'[i] = new \/ cases'[i] = cases[i]
  BY <1>5, <1>6 DEF IntelInv, IntelTyped
<1>8. \A i \in Ids : cases'[i].status # "none" => cases'[i].leg \in Legs
  BY <1>5, <1>7 DEF IntelInv, IntelTyped
<1>9. ClosingIsEarned'
  BY <1>5, <1>7 DEF IntelInv, ClosingIsEarned
<1> QED
  BY <1>4, <1>7, <1>8, <1>9 DEF MintOpen, IntelInv, IntelTyped, Stocked

\* What the run does next for any vulnerabilities is where a run may stand.
LEMMA EnrichesStands ==
  ASSUME NEW cves \in SUBSET Cves
  PROVE  Enriches(cves) \in Standings
BY DEF Enriches, Standings

LEMMA IntelMintEnds ==
  ASSUME IntelInv, NEW r \in Passes, MintEnds(r)
  PROVE  IntelInv'
<1>1. pass[r] \in Standings /\ pass[r].pc \in {"mint", "open"}
  BY DEF MintEnds, At, IntelInv, IntelTyped
<1>2. Enriches(pass[r].cves) \in Standings
  <2>1. pass[r].cves \subseteq Cves
    BY <1>1, InHand
  <2> QED
    BY <2>1, EnrichesStands
<1>3. pass' \in [Passes -> Standings]
  BY <1>2 DEF MintEnds, Becomes, IntelInv, IntelTyped
<1>4. Spend("faults") \/ UNCHANGED spent
  BY DEF MintEnds
<1>5. spent' \in [{"faults", "acts"} -> Nat]
  BY <1>4, SpendingIsTyped DEF IntelInv, IntelTyped
<1> QED
  BY <1>3, <1>5 DEF MintEnds, IntelInv, IntelTyped, Stocked, ClosingIsEarned

LEMMA IntelEnrich ==
  ASSUME IntelInv, NEW r \in Passes, Enrich(r)
  PROVE  IntelInv'
<1> DEFINE left == pass[r].cves \ {CHOOSE x \in pass[r].cves : TRUE}
<1>0. cases \in [Ids -> CaseRecords]
  BY DEF IntelInv, IntelTyped
<1>1. PICK done : /\ cases' = [i \in Ids |-> [cases[i] EXCEPT !.scored = @ \/ i \in done]]
                  /\ \/ UNCHANGED spent /\ Becomes(r, Enriches(left))
                     \/ Spend("faults") /\ \E some \in {left, {}} : Becomes(r, Enriches(some))
  BY DEF Enrich
<1>2. Enriches(left) \in Standings /\ Enriches({}) \in Standings
  <2>1. pass[r] \in Standings /\ pass[r].pc = "enrich"
    BY DEF Enrich, At, IntelInv, IntelTyped
  <2>2. left \subseteq Cves
    BY <2>1, InHand
  <2> QED
    BY <2>2, EnrichesStands
<1>3. pass' \in [Passes -> Standings]
  <2> HIDE DEF left
  <2> QED
    BY <1>1, <1>2 DEF Becomes, IntelInv, IntelTyped
<1>4. spent' \in [{"faults", "acts"} -> Nat]
  BY <1>1, SpendingIsTyped DEF IntelInv, IntelTyped
<1>5. \A i \in Ids : Unclosed(cases[i], cases'[i])
  <2> DEFINE said(i) == cases[i].scored \/ i \in done
  <2>1. \A i \in Ids : said(i) \in BOOLEAN
    BY <1>0 DEF CaseRecords
  <2>2. \A i \in Ids : cases'[i] = [cases[i] EXCEPT !.scored = said(i)]
    BY <1>1
  <2> HIDE DEF said
  <2>3. ASSUME NEW i \in Ids
        PROVE  Unclosed(cases[i], cases'[i])
    <3>1. said(i) \in BOOLEAN /\ cases'[i] = [cases[i] EXCEPT !.scored = said(i)] /\ cases[i] \in CaseRecords
      BY <1>0, <2>1, <2>2
    <3> QED
      BY <3>1, ChangedIsKept
  <2> QED
    BY <2>3
<1>6. DOMAIN cases' = Ids /\ cases' = [i \in Ids |-> cases'[i]]
  BY <1>1
<1> QED
  BY <1>3, <1>4, <1>5, <1>6, KeptIsKept DEF Enrich, IntelInv, IntelTyped, Stocked

LEMMA IntelList ==
  ASSUME IntelInv, NEW r \in Passes, List(r)
  PROVE  IntelInv'
<1>0. inventory \subseteq Installed /\ cases \in [Ids -> CaseRecords]
  BY DEF IntelInv, IntelTyped, Stocked
<1>1. PICK page \in Page(inventory, PageSize) \cup {{}},
           found \in Page({i \in Ids : cases[i].status # "none"}, ListLimit) :
        \E listed \in SUBSET {i \in found : Sourced(i)} : \E version \in [Legs -> {x.raw : x \in page} \cup {NoRaw}] :
          Becomes(r, [pc |-> "judge", read |-> [i \in listed |->
                       [raw |-> version[cases[i].leg], notes |-> cases[i].notes]]])
  BY DEF List
<1>16. PICK listed \in SUBSET {i \in found : Sourced(i)} :
        \E version \in [Legs -> {x.raw : x \in page} \cup {NoRaw}] :
          Becomes(r, [pc |-> "judge", read |-> [i \in listed |->
                       [raw |-> version[cases[i].leg], notes |-> cases[i].notes]]])
  BY <1>1
<1>2. PICK version \in [Legs -> {x.raw : x \in page} \cup {NoRaw}] :
        Becomes(r, [pc |-> "judge", read |-> [i \in listed |->
                     [raw |-> version[cases[i].leg], notes |-> cases[i].notes]]])
  BY <1>16
<1>3. page \subseteq Installed /\ found \subseteq {i \in Ids : cases[i].status # "none"}
  BY <1>0, <1>1 DEF Page
<1> DEFINE copy == [i \in listed |-> [raw |-> version[cases[i].leg], notes |-> cases[i].notes]]
<1>4. listed \subseteq Ids /\ \A i \in listed : cases[i].leg \in Legs
  BY <1>3 DEF Sourced, Open, IntelInv, IntelTyped
<1>5. \A leg \in Legs : version[leg] \in Raw
  BY <1>2, <1>3, NoRawIsRaw DEF Installed
<1>6. copy \in [listed -> [raw : Raw, notes : SUBSET Told]]
  BY <1>0, <1>4, <1>5 DEF CaseRecords
<1>7. copy \in Readings
  BY <1>4, <1>6 DEF Readings
<1>8. Becomes(r, [pc |-> "judge", read |-> copy])
  BY <1>2
<1> HIDE DEF copy
<1>9. [pc |-> "judge", read |-> copy] \in Standings
  BY <1>7 DEF Standings
<1>10. pass' \in [Passes -> Standings]
  BY <1>8, <1>9 DEF Becomes, IntelInv, IntelTyped
<1>11. Spend("faults") \/ UNCHANGED spent
  BY DEF List
<1>12. spent' \in [{"faults", "acts"} -> Nat]
  BY <1>11, SpendingIsTyped DEF IntelInv, IntelTyped
<1> QED
  BY <1>10, <1>12 DEF List, IntelInv, IntelTyped, Stocked, ClosingIsEarned

\* A function of nothing is the empty sequence.
LEMMA EmptyIsEmpty ==
  ASSUME NEW T, NEW f \in [{} -> T]
  PROVE  f = <<>>
<1>1. f \in [1..0 -> T]
  OBVIOUS
<1>2. f \in Seq(T)
  BY <1>1, SeqDef
<1>3. Len(f) = 0
  BY <1>1, <1>2, LenProperties
<1> QED
  BY <1>2, <1>3, EmptySeq

\* A case the check closes is closed on evidence; of the others only the notes change.
LEMMA IntelJudge ==
  ASSUME IntelInv, NEW r \in Passes, Judge(r)
  PROVE  IntelInv'
<1> DEFINE held == DOMAIN pass[r].read
           i == Min(held)
           leg == cases[i].leg
           raw == pass[r].read[i].raw
           all == CpeRanges(leg[1], ProductOf[leg[1]])
           others == [j \in held \ {i} |-> pass[r].read[j]]
<1>1. pass[r] \in Standings /\ pass[r].pc = "judge" /\ pass[r].read # <<>>
  BY DEF Judge, At, IntelInv, IntelTyped
<1>2. pass[r].read \in Readings
  BY <1>1, InHand
<1>3. PICK some \in SUBSET Ids : pass[r].read \in [some -> [raw : Raw, notes : SUBSET Told]]
  BY <1>2 DEF Readings
<1>4. held = some /\ held # {}
  BY <1>1, <1>3, EmptyIsEmpty
<1>5. i \in held /\ i \in Ids
  <2>1. held \subseteq Nat
    BY <1>4, IntelAssumption
  <2> QED
    BY <1>4, <2>1, MinIsThere
<1>6. others \in Readings
  <2>1. others \in [held \ {i} -> [raw : Raw, notes : SUBSET Told]] /\ held \ {i} \subseteq Ids
    BY <1>3, <1>4
  <2> QED
    BY <2>1 DEF Readings
<1>7. PICK ranges \in {all, {}}, lost \in BOOLEAN :
        LET verdict == Disposition(raw, ranges) IN
          /\ IF ranges # all \/ lost THEN Spend("faults") ELSE UNCHANGED spent
          /\ \/ /\ verdict = "patched" /\ Open(i)
                /\ cases' = [cases EXCEPT ![i].status = "closed", ![i].by = "intel",
                               ![i].sourced = @ /\ ~ lost,
                               ![i].wrong = Wrong(leg), ![i].doubt = Doubt(leg, raw)]
                /\ Becomes(r, [pc |-> "evidence", case |-> i, read |-> others])
             \/ /\ verdict = "patched" /\ ~ Open(i)
                /\ Becomes(r, Rest) /\ UNCHANGED cases
             \/ /\ verdict # "patched"
                /\ cases' = IF verdict \in pass[r].read[i].notes THEN cases
                            ELSE [cases EXCEPT ![i].notes = @ \cup {verdict}, ![i].sourced = @ /\ ~ lost]
                /\ Becomes(r, [pass[r] EXCEPT !.read = others])
  BY DEF Judge
<1> HIDE DEF held, i, leg, all, others, raw
<1>8. spent' \in [{"faults", "acts"} -> Nat]
  BY <1>7, SpendingIsTyped DEF IntelInv, IntelTyped
<1>9. cases \in [Ids -> CaseRecords] /\ cases[i] \in CaseRecords
  BY <1>5 DEF IntelInv, IntelTyped
<1>10. /\ [pc |-> "evidence", case |-> i, read |-> others] \in Standings
       /\ [pass[r] EXCEPT !.read = others] \in Standings
       /\ Rest \in Standings
  BY <1>1, <1>5, <1>6, InHand, RestStands DEF Standings
<1>11. pass' \in [Passes -> Standings]
  BY <1>7, <1>10 DEF Becomes, IntelInv, IntelTyped
<1>12. UNCHANGED <<catalogue, inventory, packs>>
  BY DEF Judge
<1>13. CASE /\ Disposition(raw, ranges) = "patched" /\ Open(i)
            /\ cases' = [cases EXCEPT ![i].status = "closed", ![i].by = "intel",
                           ![i].sourced = @ /\ ~ lost,
                           ![i].wrong = Wrong(leg), ![i].doubt = Doubt(leg, raw)]
  <2>1. leg \in Legs
    BY <1>5, <1>13 DEF Open, leg, IntelInv, IntelTyped
  <2>2. Wrong(leg) => Doubt(leg, raw) # {}
    BY <1>7, <1>13, <2>1, ClosedOnEvidence DEF all, IntelInv, IntelTyped
  <2>3. /\ Wrong(leg) \in BOOLEAN /\ Doubt(leg, raw) \subseteq Doubts
        /\ (cases[i].sourced /\ ~ lost) \in BOOLEAN
    BY DEF Wrong, Doubt
  <2>4. PICK wrong \in BOOLEAN, doubt \in SUBSET Doubts, sourced \in BOOLEAN :
          /\ wrong = Wrong(leg) /\ doubt = Doubt(leg, raw)
          /\ cases' = [cases EXCEPT ![i].status = "closed", ![i].by = "intel", ![i].sourced = sourced,
                         ![i].wrong = wrong, ![i].doubt = doubt]
    BY <1>13, <2>3
  <2>5. /\ cases' \in [Ids -> CaseRecords]
        /\ \A j \in Ids : j # i => cases'[j] = cases[j]
        /\ cases'[i].leg = cases[i].leg /\ cases'[i].wrong = wrong /\ cases'[i].doubt = doubt
    BY <1>5, <1>9, <2>4 DEF CaseRecords
  <2>6. \A j \in Ids : cases'[j].status # "none" => cases'[j].leg \in Legs
    BY <2>1, <2>5 DEF leg, IntelInv, IntelTyped
  <2>7. ClosingIsEarned'
    BY <2>2, <2>4, <2>5 DEF IntelInv, ClosingIsEarned
  <2> QED
    BY <1>8, <1>11, <1>12, <2>5, <2>6, <2>7 DEF IntelInv, IntelTyped, Stocked
<1>14. CASE UNCHANGED cases
  BY <1>8, <1>11, <1>12, <1>14 DEF IntelInv, IntelTyped, Stocked, ClosingIsEarned
<1>15. CASE /\ Disposition(raw, ranges) # "patched"
            /\ cases' = [cases EXCEPT ![i].notes = @ \cup {Disposition(raw, ranges)}, ![i].sourced = @ /\ ~ lost]
  <2> DEFINE notes == cases[i].notes \cup {Disposition(raw, ranges)}
             sourced == cases[i].sourced /\ ~ lost
  <2>1. notes \in SUBSET Told /\ sourced \in BOOLEAN
    BY <1>9, <1>15 DEF Disposition, Told, CaseRecords
  <2>2. cases' = [cases EXCEPT ![i] = [cases[i] EXCEPT !.notes = notes, !.sourced = sourced]]
    BY <1>5, <1>9, <1>15
  <2> HIDE DEF notes, sourced
  <2>3. \A j \in Ids : Unclosed(cases[j], cases'[j])
    BY <1>5, <1>9, <2>1, <2>2, ChangedIsKept
  <2>4. DOMAIN cases' = Ids /\ cases' = [j \in Ids |-> cases'[j]]
    BY <1>9, <2>2
  <2> QED
    BY <1>8, <1>11, <1>12, <2>3, <2>4, KeptIsKept DEF IntelInv, IntelTyped, Stocked
<1> QED
  BY <1>7, <1>13, <1>14, <1>15

\* What follows a closing, and what a death leaves, are notes.
LEMMA NotesAreNotes ==
  ASSUME IntelInv, NEW i \in Ids, NEW note \in Told, cases' = [cases EXCEPT ![i].notes = @ \cup {note}]
  PROVE  /\ cases' \in [Ids -> CaseRecords]
         /\ \A j \in Ids : cases'[j].status # "none" => cases'[j].leg \in Legs
         /\ ClosingIsEarned'
<1>1. cases \in [Ids -> CaseRecords] /\ cases[i] \in CaseRecords
  BY DEF IntelInv, IntelTyped
<1>2. /\ cases' \in [Ids -> CaseRecords]
      /\ \A j \in Ids : /\ cases'[j].status = cases[j].status /\ cases'[j].leg = cases[j].leg
                        /\ cases'[j].by = cases[j].by /\ cases'[j].wrong = cases[j].wrong
                        /\ cases'[j].doubt = cases[j].doubt
  BY <1>1 DEF CaseRecords
<1>3. \A j \in Ids : cases'[j].status # "none" => cases'[j].leg \in Legs
  BY <1>2 DEF IntelInv, IntelTyped
<1>4. ClosingIsEarned'
  BY <1>2, SameClosings DEF IntelInv
<1> QED
  BY <1>2, <1>3, <1>4

LEMMA IntelEvidence ==
  ASSUME IntelInv, NEW r \in Passes, Evidence(r)
  PROVE  IntelInv'
<1>1. pass[r] \in Standings /\ pass[r].pc = "evidence"
  BY DEF Evidence, At, IntelInv, IntelTyped
<1>2. pass[r].read \in Readings /\ pass[r].case \in Ids
  BY <1>1, InHand
<1>3. [pc |-> "judge", read |-> pass[r].read] \in Standings
  BY <1>2 DEF Standings
<1>4. pass' \in [Passes -> Standings]
  BY <1>3 DEF Evidence, Becomes, IntelInv, IntelTyped
<1>5. cases' = [cases EXCEPT ![pass[r].case].notes = @ \cup {"checked"}] /\ "checked" \in Told
  BY DEF Evidence, Told
<1>6. /\ cases' \in [Ids -> CaseRecords] /\ ClosingIsEarned'
      /\ \A j \in Ids : cases'[j].status # "none" => cases'[j].leg \in Legs
  BY <1>2, <1>5, NotesAreNotes
<1> QED
  BY <1>4, <1>6 DEF Evidence, IntelInv, IntelTyped, Stocked

LEMMA IntelCrash ==
  ASSUME IntelInv, NEW r \in Passes, Crash(r)
  PROVE  IntelInv'
<1>1. pass' \in [Passes -> Standings]
  BY RestStands DEF Crash, Becomes, IntelInv, IntelTyped
<1>2. spent' \in [{"faults", "acts"} -> Nat]
  BY SpendingIsTyped DEF Crash, IntelInv, IntelTyped
<1>3. /\ cases' \in [Ids -> CaseRecords] /\ ClosingIsEarned'
      /\ \A j \in Ids : cases'[j].status # "none" => cases'[j].leg \in Legs
  <2>1. CASE At(r, "evidence")
    <3>1. pass[r].case \in Ids
      BY <2>1, InHand DEF At, IntelInv, IntelTyped
    <3>2. cases' = [cases EXCEPT ![pass[r].case].notes = @ \cup {"torn"}] /\ "torn" \in Told
      BY <2>1 DEF Crash, Told
    <3> QED
      BY <3>1, <3>2, NotesAreNotes
  <2>2. CASE ~ At(r, "evidence")
    BY <2>2 DEF Crash, IntelInv, IntelTyped, ClosingIsEarned
  <2> QED
    BY <2>1, <2>2
<1> QED
  BY <1>1, <1>2, <1>3 DEF Crash, IntelInv, IntelTyped, Stocked

LEMMA IntelEnds ==
  ASSUME IntelInv, NEW r \in Passes, Ends(r)
  PROVE  IntelInv'
<1>1. pass' \in [Passes -> Standings]
  BY RestStands DEF Ends, Becomes, IntelInv, IntelTyped
<1> QED
  BY <1>1 DEF Ends, IntelInv, IntelTyped, Stocked, ClosingIsEarned

\* A person closes in a person's name.
LEMMA IntelClose ==
  ASSUME IntelInv, NEW i \in Ids, Close(i)
  PROVE  IntelInv'
<1>1. cases \in [Ids -> CaseRecords] /\ cases[i] \in CaseRecords
  BY DEF IntelInv, IntelTyped
<1>2. cases' = [cases EXCEPT ![i].status = "closed", ![i].by = "human"]
  BY DEF Close
<1>3. /\ cases' \in [Ids -> CaseRecords]
      /\ \A j \in Ids : j # i => cases'[j] = cases[j]
      /\ cases'[i].leg = cases[i].leg /\ cases'[i].by = "human"
  BY <1>1, <1>2 DEF CaseRecords
<1>4. \A j \in Ids : cases'[j].status # "none" => cases'[j].leg \in Legs
  BY <1>3 DEF Close, Open, IntelInv, IntelTyped
<1>5. ClosingIsEarned'
  BY <1>3 DEF IntelInv, ClosingIsEarned
<1>6. spent' \in [{"faults", "acts"} -> Nat]
  BY SpendingIsTyped DEF Close, IntelInv, IntelTyped
<1> QED
  BY <1>3, <1>4, <1>5, <1>6 DEF Close, IntelInv, IntelTyped, Stocked

LEMMA IntelReview ==
  ASSUME IntelInv, NEW c \in Cves, Review(c)
  PROVE  IntelInv'
<1>1. packs' \in [Cves -> SUBSET {"staged", "live"}]
  BY DEF Review, IntelInv, IntelTyped
<1>2. spent' \in [{"faults", "acts"} -> Nat]
  BY SpendingIsTyped DEF Review, IntelInv, IntelTyped
<1> QED
  BY <1>1, <1>2 DEF Review, IntelInv, IntelTyped, Stocked, ClosingIsEarned

LEMMA IntelPublish ==
  ASSUME IntelInv, NEW c \in Cves, Publish(c)
  PROVE  IntelInv'
<1>1. spent' \in [{"faults", "acts"} -> Nat]
  BY SpendingIsTyped DEF Publish, IntelInv, IntelTyped
<1> QED
  BY <1>1 DEF Publish, IntelInv, IntelTyped, Stocked, ClosingIsEarned

\* An inventory that changes is still finitely many packages.
LEMMA IntelShift ==
  ASSUME IntelInv, Shift
  PROVE  IntelInv'
<1>1. PICK x \in inventory : \E v \in VersionsOf[x.product] :
        inventory' \in {inventory \ {x}, (inventory \ {x}) \cup {[x EXCEPT !.raw = v]},
                       inventory \cup {[x EXCEPT !.raw = v]}}
  BY DEF Shift
<1>2. /\ IsFiniteSet(inventory) /\ inventory \subseteq Installed
      /\ IsFiniteSet(inventory \ {x}) /\ x \in Installed /\ inventory \ {x} \subseteq Installed
  BY FS_RemoveElement DEF IntelInv, IntelTyped, Stocked
<1>3. Stocked'
  <2>1. CASE inventory' = inventory \ {x}
    BY <1>2, <2>1 DEF Stocked
  <2>2. ASSUME NEW v \in VersionsOf[x.product],
               NEW kept \in {inventory \ {x}, inventory},
               inventory' = kept \cup {[x EXCEPT !.raw = v]}
        PROVE  Stocked'
    <3>1. v \in Raw
      BY <1>2, IntelAssumption DEF Installed
    <3>2. [x EXCEPT !.raw = v] \in Installed
      BY <1>2, <3>1 DEF Installed
    <3>3. IsFiniteSet(kept \cup {[x EXCEPT !.raw = v]}) /\ kept \subseteq Installed
      BY <1>2, FS_AddElement
    <3> QED
      BY <1>2, <2>2, <3>2, <3>3 DEF Stocked
  <2> QED
    BY <1>1, <2>1, <2>2
<1>4. spent' \in [{"faults", "acts"} -> Nat]
  BY SpendingIsTyped DEF Shift, IntelInv, IntelTyped
<1> QED
  BY <1>3, <1>4 DEF Shift, IntelInv, IntelTyped, ClosingIsEarned

\* Another role's event on a failed read.
LEMMA IntelOverwrite ==
  ASSUME IntelInv, NEW i \in Ids, Overwrite(i)
  PROVE  IntelInv'
<1>1. Appends(i)
  BY DEF Overwrite, Appends
<1> QED
  BY <1>1, UnsourcedIsKept DEF Overwrite, IntelInv, IntelTyped, Stocked

LEMMA IntelNextInv ==
  ASSUME IntelInv, [IntelNext]_intelVars
  PROVE  IntelInv'
<1>1. CASE UNCHANGED intelVars
  BY <1>1 DEF intelVars, IntelInv, IntelTyped, Stocked, ClosingIsEarned
<1>2. CASE World
  BY <1>2, IntelShift, IntelReview, IntelPublish, IntelClose, IntelOverwrite, IntelCrash DEF World
<1>3. ASSUME NEW r \in Passes, Step(r)
      PROVE  IntelInv'
  BY <1>3, IntelIngest, IntelMintLook, IntelMintOpen, IntelMintEnds, IntelEnrich, IntelList,
     IntelJudge, IntelEvidence, IntelEnds DEF Step
<1> QED
  BY <1>1, <1>2, <1>3 DEF IntelNext

\* Whatever the fleet, the catalogue and the entries of the NVD: a case the version check
\* closes is one whose version nothing the NVD lists affects, or the package moved, is there
\* twice, a pre-release is about, the upstream version follows "+really", or an entry could not
\* be read or is for all versions.
THEOREM ClosingsAreEarned == IntelSpec => []ClosingIsEarned
<1>1. IntelInv /\ [IntelNext]_intelVars => IntelInv'
  BY IntelNextInv
<1>2. IntelInv => ClosingIsEarned
  BY DEF IntelInv
<1> QED
  BY <1>1, <1>2, IntelStarts, PTL DEF IntelSpec

----------------------------------------------------------------------------
\* The event of a closing.

\* A step of a run that is not between the two writes, or of nobody, after which the cases the
\* check has closed are some of those before and have not lost a note.
LEMMA ExplainedStays ==
  ASSUME IntelInv, ClosingIsExplained, NEW r \in Passes,
         \A i \in Ids : cases'[i].by = "intel" => cases[i].by = "intel" /\ cases[i].notes \subseteq cases'[i].notes,
         UNCHANGED pass \/ (~ At(r, "evidence") /\ \E x : Becomes(r, x))
  PROVE  ClosingIsExplained'
<1> SUFFICES ASSUME NEW i \in Ids, cases'[i].by = "intel"
             PROVE  \/ cases'[i].notes \cap {"checked", "torn"} # {}
                    \/ \E q \in Passes : pass'[q].pc = "evidence" /\ pass'[q].case = i
  BY DEF ClosingIsExplained, At
<1>1. CASE cases[i].notes \cap {"checked", "torn"} # {}
  BY <1>1
<1>2. ASSUME NEW q \in Passes, pass[q].pc = "evidence", pass[q].case = i
      PROVE  pass'[q].pc = "evidence" /\ pass'[q].case = i
  BY <1>2 DEF At, Becomes, IntelInv, IntelTyped
<1> QED
  BY <1>1, <1>2 DEF ClosingIsExplained, At

\* The run that stands between them leaves a note, whether it goes on or dies.
LEMMA ExplainedByANote ==
  ASSUME IntelInv, ClosingIsExplained, NEW r \in Passes, At(r, "evidence"), NEW note \in {"checked", "torn"},
         cases' = [cases EXCEPT ![pass[r].case].notes = @ \cup {note}], NEW x, Becomes(r, x)
  PROVE  ClosingIsExplained'
<1> DEFINE told == pass[r].case
<1>1. cases \in [Ids -> CaseRecords] /\ told \in Ids
  BY InHand DEF At, IntelInv, IntelTyped
<1>2. \A i \in Ids : cases'[i].by = cases[i].by /\ cases[i].notes \subseteq cases'[i].notes
  BY <1>1 DEF CaseRecords
<1>3. note \in cases'[told].notes
  BY <1>1 DEF CaseRecords
<1> HIDE DEF told
<1> SUFFICES ASSUME NEW i \in Ids, cases'[i].by = "intel"
             PROVE  \/ cases'[i].notes \cap {"checked", "torn"} # {}
                    \/ \E q \in Passes : pass'[q].pc = "evidence" /\ pass'[q].case = i
  BY DEF ClosingIsExplained, At
<1>4. CASE i = told
  BY <1>3, <1>4
<1>5. CASE cases[i].notes \cap {"checked", "torn"} # {}
  BY <1>2, <1>5
<1>6. ASSUME NEW q \in Passes, pass[q].pc = "evidence", pass[q].case = i, i # told
      PROVE  pass'[q].pc = "evidence" /\ pass'[q].case = i
  <2>1. q # r
    BY <1>6 DEF told
  <2> QED
    BY <1>6, <2>1 DEF Becomes, IntelInv, IntelTyped
<1> QED
  BY <1>2, <1>4, <1>5, <1>6 DEF ClosingIsExplained, At

\* A case with another source, or none, is closed as it was and noted as it was.
LEMMA AppendingExplains ==
  ASSUME IntelInv, NEW j \in Ids, Appends(j)
  PROVE  \A i \in Ids : cases'[i].by = cases[i].by /\ cases'[i].notes = cases[i].notes
<1>1. cases \in [Ids -> CaseRecords]
  BY DEF IntelInv, IntelTyped
<1> QED
  BY <1>1 DEF Appends, Unsources, CaseRecords

LEMMA MintingIsExplained ==
  ASSUME IntelInv, ClosingIsExplained, NEW r \in Passes, MintLook(r) \/ MintOpen(r)
  PROVE  ClosingIsExplained'
<1>1. ~ At(r, "evidence") /\ \E x : Becomes(r, x)
  BY DEF MintLook, MintOpen, At
<1>2. \A i \in Ids : cases'[i].by = "intel" => cases[i].by = "intel" /\ cases[i].notes \subseteq cases'[i].notes
  <2>1. CASE \E j \in Ids : Appends(j)
    BY <2>1, AppendingExplains
  <2>2. CASE UNCHANGED cases
    BY <2>2
  <2>3. CASE MintOpen(r)
    <3>1. cases' = [cases EXCEPT ![Min(Free(pass[r].leg[1]))] = NewCase(pass[r].leg)]
      BY <2>3 DEF MintOpen
    <3>2. NewCase(pass[r].leg).by = "none"
      BY DEF NewCase
    <3>3. cases \in [Ids -> CaseRecords]
      BY DEF IntelInv, IntelTyped
    <3>4. \A i \in Ids : cases'[i] = cases[i] \/ cases'[i] = NewCase(pass[r].leg)
      BY <3>1, <3>3
    <3> QED
      BY <3>2, <3>4
  <2>4. MintLook(r) => (\E j \in Ids : Appends(j)) \/ UNCHANGED cases
    BY DEF MintLook, OpenIntelCase, OpenOf
  <2> QED
    BY <2>1, <2>2, <2>3, <2>4
<1> QED
  BY <1>1, <1>2, ExplainedStays

LEMMA EnrichingIsExplained ==
  ASSUME IntelInv, ClosingIsExplained, NEW r \in Passes, Enrich(r)
  PROVE  ClosingIsExplained'
<1>1. PICK done : cases' = [i \in Ids |-> [cases[i] EXCEPT !.scored = @ \/ i \in done]]
  BY DEF Enrich
<1>2. \A i \in Ids : cases'[i].by = cases[i].by /\ cases'[i].notes = cases[i].notes
  BY <1>1 DEF IntelInv, IntelTyped, CaseRecords
<1>3. ~ At(r, "evidence") /\ \E x : Becomes(r, x)
  BY DEF Enrich, At
<1> QED
  BY <1>2, <1>3, ExplainedStays

\* The run that closes a case stands between the two writes.
LEMMA JudgingIsExplained ==
  ASSUME IntelInv, ClosingIsExplained, NEW r \in Passes, Judge(r)
  PROVE  ClosingIsExplained'
<1> DEFINE i == Min(DOMAIN pass[r].read)
<1>1. /\ cases \in [Ids -> CaseRecords] /\ pass \in [Passes -> Standings]
      /\ pass[r].pc = "judge"
  BY DEF Judge, At, IntelInv, IntelTyped
<1> DEFINE leg == cases[i].leg
           raw == pass[r].read[i].raw
           all == CpeRanges(leg[1], ProductOf[leg[1]])
           others == [j \in DOMAIN pass[r].read \ {i} |-> pass[r].read[j]]
           Closes(lost) ==
             /\ cases' = [cases EXCEPT ![i].status = "closed", ![i].by = "intel", ![i].sourced = @ /\ ~ lost,
                            ![i].wrong = Wrong(leg), ![i].doubt = Doubt(leg, raw)]
             /\ Becomes(r, [pc |-> "evidence", case |-> i, read |-> others])
           Tells(verdict, lost) ==
             /\ cases' = IF verdict \in pass[r].read[i].notes THEN cases
                         ELSE [cases EXCEPT ![i].notes = @ \cup {verdict}, ![i].sourced = @ /\ ~ lost]
             /\ Becomes(r, [pass[r] EXCEPT !.read = others])
<1>2. PICK ranges \in {all, {}}, lost \in BOOLEAN :
        LET verdict == Disposition(raw, ranges) IN
          \/ Closes(lost)
          \/ Becomes(r, Rest) /\ UNCHANGED cases
          \/ Tells(verdict, lost)
  BY DEF Judge
<1> DEFINE verdict == Disposition(raw, ranges)
<1> HIDE DEF i, leg, raw, all, others, verdict
<1>3. ~ At(r, "evidence")
  BY <1>1 DEF At
<1>4. CASE Closes(lost)
  <2>1. pass'[r].pc = "evidence" /\ pass'[r].case = i
    BY <1>1, <1>4 DEF Becomes
  <2>2. \A j \in Ids : j # i => cases'[j] = cases[j]
    BY <1>1, <1>4
  <2>3. ASSUME NEW j \in Ids, j # i, cases'[j].by = "intel"
        PROVE  \/ cases'[j].notes \cap {"checked", "torn"} # {}
               \/ \E q \in Passes : pass'[q].pc = "evidence" /\ pass'[q].case = j
    <3>1. cases[j].by = "intel" /\ cases'[j].notes = cases[j].notes
      BY <2>2, <2>3
    <3>2. ASSUME NEW q \in Passes, pass[q].pc = "evidence"
          PROVE  pass'[q] = pass[q]
      BY <1>1, <1>4, <3>2 DEF Becomes
    <3> QED
      BY <3>1, <3>2 DEF ClosingIsExplained, At
  <2> QED
    BY <2>1, <2>3 DEF ClosingIsExplained, At
<1>5. CASE Becomes(r, Rest) /\ UNCHANGED cases
  BY <1>3, <1>5, ExplainedStays
<1>6. CASE Tells(verdict, lost)
  <2>1. \A j \in Ids : cases'[j].by = cases[j].by /\ cases[j].notes \subseteq cases'[j].notes
    BY <1>1, <1>6 DEF CaseRecords
  <2> QED
    BY <1>3, <1>6, <2>1, ExplainedStays
<1> QED
  BY <1>2, <1>4, <1>5, <1>6 DEF verdict

LEMMA ClosingByHandIsExplained ==
  ASSUME IntelInv, ClosingIsExplained, NEW j \in Ids, Close(j)
  PROVE  ClosingIsExplained'
<1>1. cases \in [Ids -> CaseRecords] /\ UNCHANGED pass
  BY DEF Close, IntelInv, IntelTyped
<1>2. cases' = [cases EXCEPT ![j].status = "closed", ![j].by = "human"]
  BY DEF Close
<1>3. \A i \in Ids : cases'[i].by = "intel" => cases[i].by = "intel" /\ cases'[i] = cases[i]
  BY <1>1, <1>2 DEF CaseRecords
<1> QED
  BY <1>1, <1>3, ExplainedStays DEF Passes

LEMMA ExplainedStep ==
  ASSUME IntelInv, ClosingIsExplained, [IntelNext]_intelVars
  PROVE  ClosingIsExplained'
<1>1. CASE UNCHANGED <<cases, pass>>
  BY <1>1, ExplainedStays DEF Passes
<1>2. ASSUME NEW r \in Passes, Step(r)
      PROVE  ClosingIsExplained'
  <2>1. CASE Ingest(r) \/ MintEnds(r) \/ List(r) \/ Ends(r)
    <3>1. UNCHANGED cases
      BY <2>1 DEF Ingest, MintEnds, List, Ends
    <3>2. ~ At(r, "evidence")
      BY <2>1 DEF Ingest, MintEnds, List, Ends, At
    <3>3. \E x : Becomes(r, x)
      BY <2>1 DEF Ingest, MintEnds, List, Ends
    <3> QED
      BY <3>1, <3>2, <3>3, ExplainedStays
  <2>2. CASE Evidence(r)
    BY <2>2, ExplainedByANote DEF Evidence
  <2> QED
    BY <1>2, <2>1, <2>2, MintingIsExplained, EnrichingIsExplained, JudgingIsExplained DEF Step
<1>3. ASSUME NEW r \in Passes, Crash(r)
      PROVE  ClosingIsExplained'
  <2>1. CASE At(r, "evidence")
    BY <1>3, <2>1, ExplainedByANote DEF Crash
  <2>2. CASE ~ At(r, "evidence")
    BY <1>3, <2>2, ExplainedStays DEF Crash
  <2> QED
    BY <2>1, <2>2
<1>4. ASSUME NEW i \in Ids, Overwrite(i)
      PROVE  ClosingIsExplained'
  <2>1. Appends(i) /\ UNCHANGED pass
    BY <1>4 DEF Overwrite, Appends
  <2> QED
    BY <2>1, AppendingExplains, ExplainedStays DEF Passes
<1>5. ASSUME World
      PROVE  \/ UNCHANGED <<cases, pass>>
             \/ \E i \in Ids : Close(i) \/ Overwrite(i)
             \/ \E r \in Passes : Crash(r)
  BY <1>5 DEF World, Shift, Review, Publish
<1> QED
  BY <1>1, <1>2, <1>3, <1>4, <1>5, ClosingByHandIsExplained DEF IntelNext, intelVars

\* However many runs there are to a case, and wherever they end: a case the version check has
\* closed has its event, or the run that closed it is still to write it or ended before.
THEOREM ClosingsAreExplained == IntelSpec => []ClosingIsExplained
<1>1. IntelInit => ClosingIsExplained
  BY DEF IntelInit, ClosingIsExplained, NoCase
<1>2. IntelInv /\ ClosingIsExplained /\ [IntelNext]_intelVars => IntelInv' /\ ClosingIsExplained'
  BY IntelNextInv, ExplainedStep
<1> QED
  BY <1>1, <1>2, IntelStarts, PTL DEF IntelSpec
=============================================================================
