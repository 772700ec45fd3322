---------------------------- MODULE RouterIntake ----------------------------
(***************************************************************************)
(* The alert intake of agents/router.py: run() fetches one page of alerts  *)
(* from the index, counts each one into its burst, dispatches it, and      *)
(* saves the cursor file (Cursor) once, at the end.  A timer starts it     *)
(* every three minutes and systemd kills a run that hangs.                 *)
(*                                                                         *)
(* An alert is the rank of its document id.  Not modelled: the "now-30m"   *)
(* horizon of a fresh cursor (every alert lies within it), the trim of     *)
(* bursts at 2000, alerts without a timestamp.                             *)
(***************************************************************************)
EXTENDS Integers, FiniteSets

CONSTANTS
  Alerts,       \* the documents the index ever holds
  Ts,           \* timestamp of an alert, in minutes
  Key,          \* its signature, rule|agent
  Entities,     \* its non-empty entity fields: srcip, dstip, agent
  Routed,       \* the alerts classify() gives a role
  Limit,        \* page size of a run
  Window,       \* burst_window_min
  MaxAge,       \* burst_max_min
  MaxSeen,      \* seen_ids kept by a save, 5000 in the code
  Legacy,       \* the cursor file may be of the time before search_after
  Previews,     \* an operator may run router.py --dry-run
  MaxLate,      \* bound: alerts that become searchable late
  MaxFailures,  \* bound: dispatches that fail
  MaxKills      \* bound: runs that die

NoAlert == 0

NoTime == -1

ASSUME IntakeAssumption ==
  /\ Alerts \subseteq Nat \ {NoAlert}
  /\ Ts \in [Alerts -> Nat]
  /\ Key \in [Alerts -> Nat]
  /\ \A a \in Alerts : Entities[a] \subseteq Nat
  /\ Routed \subseteq Alerts
  /\ Limit \in Nat \ {0}
  /\ Window \in Nat
  /\ MaxAge \in Nat
  /\ MaxSeen \in Nat
  /\ Legacy \in BOOLEAN
  /\ Previews \in BOOLEAN
  /\ MaxLate \in Nat
  /\ MaxFailures \in Nat
  /\ MaxKills \in Nat

VARIABLES
  indexed,      \* the alerts that are searchable
  late,         \* history: those that became searchable after the router had
                \* read an alert that sorts behind them
  disk,         \* the cursor file
  run,          \* the run at work: its page and its copy of the cursor
  fate,         \* history: what has been done to each alert
  led,          \* history: the alerts that were no repeat when counted
  dispatched,   \* history: how often each alert was dispatched
  failures,     \* dispatches that failed so far
  kills         \* runs that died so far

vars == <<indexed, late, disk, run, fate, led, dispatched, failures, kills>>

----------------------------------------------------------------------------
\* The sort order of the query: timestamp, then document id.
Before(a, b) == Ts[a] < Ts[b] \/ (Ts[a] = Ts[b] /\ a < b)

First(a, alerts) == a \in alerts /\ \A b \in alerts \ {a} : Before(a, b)

Keys == {Key[a] : a \in Alerts}

NoBurst == [first |-> NoTime, last |-> NoTime, entities |-> {}]

\* A cursor without a file, or with one that does not parse.
Fresh == [last |-> NoTime, boundary |-> NoAlert, seen |-> {},
          bursts |-> [k \in Keys |-> NoBurst]]

\* Slip: the page is cut at the timestamp alone, as it was before search_after.
TimeAhead(cursor, a) == Ts[a] >= cursor.last

\* The query: timestamp >= last_ts, and after search_after when there is one.
Ahead(cursor, a) ==
  /\ Ts[a] >= cursor.last
  /\ cursor.boundary # NoAlert => Before(cursor.boundary, a)

Hits == {a \in indexed : Ahead(disk, a)}

\* Slip: hits of one timestamp come in any order.
IsTimePage(page) ==
  /\ page \subseteq Hits
  /\ \A a \in page, b \in Hits \ page : Ts[a] <= Ts[b]
  /\ Cardinality(page) <= Limit
  /\ page # Hits => Cardinality(page) = Limit

\* The first Limit hits.
IsPage(page) ==
  /\ page \subseteq Hits
  /\ \A a \in page, b \in Hits \ page : Before(a, b)
  /\ Cardinality(page) <= Limit
  /\ page # Hits => Cardinality(page) = Limit

----------------------------------------------------------------------------
\* Bursts.

\* Slip: a burst has no maximal age.
UncappedContinues(burst, a) ==
  burst.first # NoTime /\ Ts[a] - burst.last <= Window

\* An alert falls into its key's burst: the burst is not past its age cap and
\* was fed within the window.
Continues(burst, a) ==
  /\ burst.first # NoTime
  /\ Ts[a] - burst.first <= MaxAge
  /\ Ts[a] - burst.last <= Window

\* Counted above one: no entity of it is new to the burst.
Repeats(burst, a) == Continues(burst, a) /\ Entities[a] \subseteq burst.entities

Counted(burst, a) ==
  IF Continues(burst, a)
  THEN [burst EXCEPT !.last = Ts[a], !.entities = @ \cup Entities[a]]
  ELSE [first |-> Ts[a], last |-> Ts[a], entities |-> Entities[a]]

BurstOf(cursor, a) == cursor.bursts[Key[a]]

Count(cursor, a) == [cursor EXCEPT !.bursts[Key[a]] = Counted(@, a)]

----------------------------------------------------------------------------
Idle == [on |-> FALSE, dry |-> FALSE, page |-> {}, cursor |-> Fresh]

UpTo(a) == {b \in Alerts : b = a \/ Before(b, a)}

\* A fresh start, or one from a cursor file without search_after whose alerts
\* were all handled.
Init ==
  /\ \/ /\ indexed = {}
        /\ disk = Fresh
     \/ /\ Legacy
        /\ \E newest \in Alerts :
             /\ Cardinality(UpTo(newest)) <= MaxSeen
             /\ indexed = UpTo(newest)
             /\ disk = [Fresh EXCEPT !.seen = UpTo(newest), !.last = Ts[newest]]
  /\ late = {}
  /\ run = Idle
  /\ fate = [a \in Alerts |-> IF a \in indexed THEN {"dispatched"} ELSE {}]
  /\ led = {}
  /\ dispatched = [a \in Alerts |-> IF a \in indexed THEN 1 ELSE 0]
  /\ failures = 0
  /\ kills = 0

\* An alert that sorts behind a is on the page of the run, or was looked at.
Overtaken(a) == \E b \in Alerts : Before(a, b) /\ (b \in run.page \/ fate[b] # {})

\* An alert becomes searchable.  Nothing ties the order to the one of the query:
\* agents report late, the index refreshes in its own time, and among alerts of
\* one timestamp the ids are random.
Arrive ==
  /\ \E a \in Alerts \ indexed :
       /\ Overtaken(a) => Cardinality(late) < MaxLate
       /\ indexed' = indexed \cup {a}
       /\ late' = IF Overtaken(a) THEN late \cup {a} ELSE late
  /\ UNCHANGED <<disk, run, fate, led, dispatched, failures, kills>>

\* run() up to the loop.  An empty page changes nothing.
Fetch(dry) ==
  /\ ~ run.on
  /\ dry => Previews
  /\ \E page \in SUBSET Hits :
       /\ IsPage(page)
       /\ page # {}
       /\ run' = [on |-> TRUE, dry |-> dry, page |-> page, cursor |-> disk]
  /\ UNCHANGED <<indexed, late, disk, fate, led, dispatched, failures, kills>>

\* pending_cursor_ts and pending_search_after, which the save takes over.
Passed(cursor, a) == [cursor EXCEPT !.last = Ts[a], !.boundary = a]

\* is_known: an alert handled on an earlier run.
Skip(a) ==
  /\ run.on
  /\ First(a, run.page)
  /\ a \in run.cursor.seen
  /\ run' = [run EXCEPT !.page = @ \ {a}, !.cursor = Passed(@, a)]
  /\ UNCHANGED <<indexed, late, disk, fate, led, dispatched, failures, kills>>

\* What dispatch() can make of an alert: no role, a repeat of its burst, or a
\* role's handler, which succeeds or reports an error.
Outcomes(a) ==
  IF run.dry THEN {"previewed"}
  ELSE IF a \notin Routed THEN {"unrouted"}
  ELSE IF Repeats(BurstOf(run.cursor, a), a) THEN {"deduped"}
  ELSE {"dispatched"} \cup (IF failures < MaxFailures THEN {"failed"} ELSE {})

\* The checkpoint discipline: an error leaves the alert unmarked and unpassed,
\* its burst counted all the same.
Settled(a, outcome) ==
  IF outcome = "failed"
  THEN Count(run.cursor, a)
  ELSE [Passed(Count(run.cursor, a), a) EXCEPT !.seen = @ \cup {a}]

Take(a, outcome) ==
  /\ run.on
  /\ First(a, run.page)
  /\ a \notin run.cursor.seen
  /\ outcome \in Outcomes(a)
  /\ run' = [run EXCEPT !.page = @ \ {a}, !.cursor = Settled(a, outcome)]
  /\ fate' = [fate EXCEPT ![a] = @ \cup {outcome}]
  /\ led' = IF Repeats(BurstOf(run.cursor, a), a) THEN led ELSE led \cup {a}
  /\ dispatched' = [dispatched EXCEPT ![a] = IF outcome = "dispatched" THEN @ + 1 ELSE @]
  /\ failures' = IF outcome = "failed" THEN failures + 1 ELSE failures
  /\ UNCHANGED <<indexed, late, disk, kills>>

\* What list(seen_ids)[-5000:] keeps of a set: any MaxSeen of its members.
Kept(seen) ==
  IF Cardinality(seen) <= MaxSeen THEN {seen}
  ELSE {kept \in SUBSET seen : Cardinality(kept) = MaxSeen}

\* Slip: the file keeps the timestamp alone.
TimeSave ==
  /\ run.on
  /\ run.page = {}
  /\ disk' = [Fresh EXCEPT !.last = run.cursor.last]
  /\ run' = Idle
  /\ UNCHANGED <<indexed, late, fate, led, dispatched, failures, kills>>

Save ==
  /\ run.on
  /\ run.page = {}
  /\ \E kept \in Kept(run.cursor.seen) : disk' = [run.cursor EXCEPT !.seen = kept]
  /\ run' = Idle
  /\ UNCHANGED <<indexed, late, fate, led, dispatched, failures, kills>>

\* The time cap, a crash, an exception out of the loop, or a save that cannot
\* open the file: what the run did stands, the file is what it was.
Kill ==
  /\ run.on
  /\ kills < MaxKills
  /\ run' = Idle
  /\ kills' = kills + 1
  /\ UNCHANGED <<indexed, late, disk, fate, led, dispatched, failures>>

\* A death, or a full disk, inside write_text: the file no longer parses.
Tear ==
  /\ run.on
  /\ run.page = {}
  /\ kills < MaxKills
  /\ disk' = Fresh
  /\ run' = Idle
  /\ kills' = kills + 1
  /\ UNCHANGED <<indexed, late, fate, led, dispatched, failures>>

Work == \/ \E a \in Alerts : \/ Skip(a)
                             \/ \E outcome \in Outcomes(a) : Take(a, outcome)
        \/ Save

Next == \/ Arrive
        \/ \E dry \in BOOLEAN : Fetch(dry)
        \/ Work
        \/ Kill
        \/ Tear

Spec == Init /\ [][Next]_vars

\* The timer keeps starting runs, and a run that is not killed goes on.
FairSpec == Spec /\ WF_vars(Fetch(FALSE)) /\ WF_vars(Work)

----------------------------------------------------------------------------
\* Properties.

AllOutcomes == {"previewed", "unrouted", "deduped", "dispatched", "failed"}

Times == Nat \cup {NoTime}

BurstRecords == [first : Times, last : Times, entities : SUBSET Nat]

Cursors == [last : Times, boundary : Alerts \cup {NoAlert}, seen : SUBSET Alerts,
            bursts : [Keys -> BurstRecords]]

\* The shape of the cursor file, of a run and of the history; a failed
\* dispatch and a death are bounded.
TypeOK ==
  /\ late \subseteq indexed
  /\ indexed \subseteq Alerts
  /\ disk \in Cursors
  /\ run \in [on : BOOLEAN, dry : BOOLEAN, page : SUBSET Alerts, cursor : Cursors]
  /\ fate \in [Alerts -> SUBSET AllOutcomes]
  /\ led \subseteq Alerts
  /\ dispatched \in [Alerts -> Nat]
  /\ failures \in 0..MaxFailures
  /\ kills \in 0..MaxKills

\* run(): "a full page sharing one timestamp can never strand the next alerts
\* at that timestamp".  An alert the saved cursor no longer asks for has been
\* looked at, whatever the page size, the ties and the runs that died, unless it
\* became searchable only after one that sorts behind it had been read: that
\* one the cursor does pass unseen.
BoundaryHidesNothing ==
  \A a \in indexed \ late : ~ Ahead(disk, a) => fate[a] # {}

\* The router's docstring: "so no alert is dispatched twice".  Every dispatch
\* of an alert beyond the first one is paid for by a run that died unsaved.
RedispatchIsPaid == \A a \in Alerts : dispatched[a] <= 1 + kills

\* burst_count: suppression cannot starve a signature.  Each entity of a
\* deduped alert was shown, under the same signature and within the age cap,
\* by an alert that was not itself suppressed.  (An alert that is counted after
\* one that sorts behind it, because its dispatch failed or it was searchable
\* late, may vouch for longer.)
SuppressionIsBounded ==
  \A a \in Alerts : "deduped" \in fate[a] =>
    \A e \in Entities[a] : \E b \in led :
      /\ Key[b] = Key[a]
      /\ e \in Entities[b]
      /\ Ts[a] - Ts[b] <= MaxAge \/ "failed" \in fate[b] \/ b \in late

\* Every alert the index shows is eventually looked at, but for those it showed
\* after one that sorts behind them had been read.
EveryAlertIsTaken == \A a \in Alerts : a \in indexed \ late ~> fate[a] # {}

\* run(): a failed dispatch "is retried next run; it is NOT marked seen, so
\* nothing is silently lost".  What only failed so far will be fetched again.
NothingIsLost ==
  \A a \in indexed : fate[a] = {"failed"} /\ ~ run.on => Ahead(disk, a)

\* classify: "the override MUST reach a human".  An alert with a role is only
\* suppressed when an alert of its signature was dispatched.
SuppressedIsRepresented ==
  \A a \in Routed : "deduped" \in fate[a] =>
    \E b \in Alerts : Key[b] = Key[a] /\ "dispatched" \in fate[b]
=============================================================================
