----------------------------- MODULE SoarProofs -----------------------------
(***************************************************************************)
(* Theorems of Soar: that what is done on a host is paid for by a decision *)
(* that stands, and that it is on record.  For any alerts, playbooks,      *)
(* providers, evidence and bounds.                                         *)
(***************************************************************************)
EXTENDS Soar, SequenceTheorems, FiniteSetTheorems, WellFoundedInduction, TLAPS

----------------------------------------------------------------------------
\* The inductive invariant.

IsSequence(q) == q \in Seq(Range(q))

\* A run that is not at rest has a playbook, a result for every step it took, and the
\* decision it was begun under.
IsRun(s) ==
  /\ DOMAIN s = {"pc", "pb", "id", "results", "gate", "denied"}
  /\ s.pc \in {"step", "persist"}
  /\ IsSequence(s.results)

IsEffect(e) ==
  /\ DOMAIN e = {"id", "step", "gate", "denied", "after", "touched", "lost"}
  /\ e.step \in Nat

ShapeInv ==
  /\ DOMAIN case = DOMAIN NoCase
  /\ sweep.pc = "recommend" => DOMAIN sweep.copy = DOMAIN NoCase
  /\ IsSequence(case.events)
  /\ DOMAIN run = Responders
  /\ \A r \in Responders : run[r] = Rest \/ IsRun(run[r])
  /\ \A e \in effects : IsEffect(e)

\* Nothing happens before the case is opened.
OpeningInv ==
  mint = "open" =>
    /\ case = NoCase /\ ticket = "none" /\ sweep = Rest /\ effects = {}
    /\ \A r \in Responders : run[r] = Rest

\* The router's run is its dispatch of this alert, once.
RouterInv == mint # "done" => run["router"] = Rest

\* An operator's denial that no sweep could have overlooked, and that nothing has hidden, stays
\* the newest decision, and no sweep takes the case up again.
Denied == case.human = "deny" /\ ~ case.raced /\ ~ case.hidden

Overruled == case.events # <<>> /\ Last(case.events).decision = "deny"

DenialInv ==
  Denied => case.status \in {"decided", "closed"} /\ sweep.pc = "rest" /\ Overruled

\* A run at work was begun under an approval, on what it may touch, and has not failed.
Paid(s) ==
  /\ s.gate = "approve" /\ ~ s.denied /\ ~ Guarded(Playbooks[s.pb])
  /\ s.pc = "step" => FALSE \notin Range(s.results)

PaidInv ==
  /\ \A r \in Responders : run[r] = Rest \/ Paid(run[r])
  /\ EffectsArePaid

\* A step that ran has its result with the run that took it, until the run is written down.
RecordInv ==
  \A e \in effects :
    \/ e.lost
    \/ \E x \in case.runs : x.id = e.id /\ x.steps >= e.step
    \/ \E r \in Responders : run[r] # Rest /\ run[r].id = e.id /\ e.step <= Len(run[r].results)

----------------------------------------------------------------------------
\* What lengthens a sequence keeps its elements, and ends in the new one.
LEMMA Appended ==
  ASSUME NEW q, IsSequence(q), NEW x
  PROVE  /\ IsSequence(Append(q, x)) /\ Append(q, x) # <<>>
         /\ Len(Append(q, x)) = Len(q) + 1 /\ Len(q) \in Nat
         /\ Last(Append(q, x)) = x
         /\ Range(Append(q, x)) = Range(q) \cup {x}
<1> DEFINE R == Range(q) \cup {x}
           t == Append(q, x)
<1>1. q \in Seq(R) /\ x \in R
  BY SeqMonotonic DEF IsSequence
<1>2. /\ t \in Seq(R) /\ t # <<>> /\ Len(t) = Len(q) + 1 /\ t[Len(q) + 1] = x
      /\ \A i \in 1..Len(q) : t[i] = q[i]
  BY <1>1, AppendProperties
<1>3. Len(q) \in Nat /\ DOMAIN q = 1..Len(q) /\ DOMAIN t = 1..Len(t)
  BY <1>1, <1>2, LenProperties
<1>4. Range(t) = R
  <2>1. Range(t) \subseteq R
    BY <1>2, <1>3 DEF Range
  <2>2. ASSUME NEW y \in Range(q) PROVE y \in Range(t)
    <3>1. PICK i \in DOMAIN q : y = q[i]
      BY DEF Range
    <3>2. i \in DOMAIN t /\ t[i] = y
      BY <1>2, <1>3, <3>1
    <3> QED
      BY <3>2 DEF Range
  <2>3. x \in Range(t)
    <3>1. Len(q) + 1 \in DOMAIN t
      BY <1>2, <1>3
    <3> QED
      BY <1>2, <3>1 DEF Range
  <2> QED
    BY <2>1, <2>2, <2>3
<1> QED
  BY <1>2, <1>3, <1>4 DEF IsSequence, Last

LEMMA EmptySequence == IsSequence(<<>>)
BY DEF IsSequence

\* A decision is the newest of its case.
LEMMA Newest ==
  ASSUME ShapeInv, NEW decision
  PROVE  /\ DOMAIN Decided(decision) = DOMAIN case
         /\ Decided(decision).status = "decided" /\ Decided(decision).human = case.human
         /\ Decided(decision).raced = case.raced /\ Decided(decision).hidden = case.hidden
         /\ Decided(decision).runs = case.runs
         /\ IsSequence(Decided(decision).events) /\ Decided(decision).events # <<>>
         /\ Last(Decided(decision).events).decision = decision
<1>1. Decided(decision).events = Append(case.events, Event(decision, NoPlaybook))
  BY DEF Decided, ShapeInv, NoCase
<1>2. /\ IsSequence(Append(case.events, Event(decision, NoPlaybook)))
      /\ Append(case.events, Event(decision, NoPlaybook)) # <<>>
      /\ Last(Append(case.events, Event(decision, NoPlaybook))) = Event(decision, NoPlaybook)
  BY Appended DEF ShapeInv
<1>3. Event(decision, NoPlaybook).decision = decision
  BY DEF Event
<1>4. /\ DOMAIN Decided(decision) = DOMAIN case
      /\ Decided(decision).status = "decided" /\ Decided(decision).human = case.human
      /\ Decided(decision).raced = case.raced /\ Decided(decision).hidden = case.hidden
      /\ Decided(decision).runs = case.runs
  BY DEF Decided, ShapeInv, NoCase
<1> QED
  BY <1>1, <1>2, <1>3, <1>4

----------------------------------------------------------------------------
\* Shapes, and the opening.

CaseShape == DOMAIN case = DOMAIN NoCase /\ IsSequence(case.events)

\* Whatever a step writes, the case stays a case, and its executions stay on it.
LEMMA CaseStep == ShapeInv /\ OpeningInv /\ [Next]_vars => CaseShape' /\ case.runs \subseteq case'.runs
<1> SUFFICES ASSUME ShapeInv, OpeningInv, [Next]_vars
             PROVE  CaseShape' /\ case.runs \subseteq case'.runs
  OBVIOUS
<1>a. CaseShape
  BY DEF ShapeInv, CaseShape
<1>b. DOMAIN case = {"status", "enriched", "inv", "verdict", "block", "techniques", "rec", "events", "runs",
                    "human", "raced", "hidden"}
  BY DEF ShapeInv, NoCase
<1>c. CASE UNCHANGED case
  BY <1>a, <1>c DEF CaseShape
<1>1. CASE Open
  <2>1. case = NoCase
    BY <1>1 DEF Open, OpeningInv
  <2>2. PICK failed : case' = [NoCase EXCEPT
                     !.status = IF alert.minter = "infra" THEN "decided" ELSE "open",
                     !.block = IF alert.minter = "infra" THEN "approve" ELSE "none",
                     !.techniques = alert.techniques,
                     !.enriched = IF alert.minter = "analyst"
                                  THEN [o \in Range(Extracted) |-> Enriched(o, failed)] ELSE <<>>]
    BY <1>1 DEF Open
  <2>3. DOMAIN case' = DOMAIN NoCase /\ case'.events = <<>> /\ case'.runs = NoCase.runs
    BY <2>2 DEF NoCase
  <2> QED
    BY <2>1, <2>3, EmptySequence DEF CaseShape
<1>2. CASE Investigate \/ Classify \/ SweepRead \/ SweepRecommend \/ Close \/ CloseStale \/ Overwrite
  <2>1. /\ DOMAIN case' = DOMAIN case
        /\ case'.events = case.events /\ case'.runs = case.runs
    <3>1. CASE Investigate
      BY <1>b, <3>1 DEF Investigate
    <3>2. CASE Classify
      BY <1>b, <3>2 DEF Classify
    <3>3. CASE SweepRecommend
      <4>1. DOMAIN sweep.copy = DOMAIN NoCase
        BY <3>3 DEF SweepRecommend, ShapeInv
      <4>2. \/ case' = case
            \/ case' = [sweep.copy EXCEPT !.rec = sweep.rec, !.events = case.events, !.runs = case.runs,
                         !.human = case.human, !.raced = case.raced, !.hidden = @ \/ case.hidden]
        BY <3>3 DEF SweepRecommend
      <4>3. /\ DOMAIN case' = DOMAIN NoCase
            /\ case'.events = case.events /\ case'.runs = case.runs
        BY <1>a, <4>1, <4>2 DEF NoCase, CaseShape
      <4> QED
        BY <1>a, <4>3 DEF CaseShape
    <3>4. CASE Close \/ CloseStale
      BY <1>b, <3>4 DEF Close, CloseStale
    <3>5. CASE SweepRead
      <4>1. case' = case \/ \E h : case' = [case EXCEPT !.hidden = h]
        BY <3>5 DEF SweepRead, Judges
      <4> QED
        BY <1>b, <4>1
    <3>6. CASE Overwrite
      BY <1>b, <3>6 DEF Overwrite, Rebuilt
    <3> QED
      BY <1>2, <3>1, <3>2, <3>3, <3>4, <3>5, <3>6
  <2> QED
    BY <1>a, <2>1 DEF CaseShape
<1>3. ASSUME NEW decision, case' = Decided(decision)
      PROVE  CaseShape' /\ case.runs \subseteq case'.runs
  BY <1>a, <1>3, Newest DEF CaseShape
<1>4. ASSUME NEW v, Decide(v) \/ CloseNode(v) PROVE CaseShape' /\ case.runs \subseteq case'.runs
  <2>1. case' = [Decided(v) EXCEPT !.human = v, !.raced = sweep.pc # "rest", !.hidden = FALSE]
    BY <1>4 DEF Decide, CloseNode
  <2>2. /\ DOMAIN case' = DOMAIN Decided(v)
        /\ case'.events = Decided(v).events /\ case'.runs = Decided(v).runs
    BY <1>b, <2>1, Newest
  <2> QED
    BY <1>a, <2>2, Newest DEF CaseShape
<1>5. CASE SweepRecord
  <2>1. case' = [case EXCEPT !.events = Append(@, Event(sweep.decision, sweep.rec))]
    BY <1>5 DEF SweepRecord
  <2>2. /\ DOMAIN case' = DOMAIN case /\ case'.runs = case.runs
        /\ case'.events = Append(case.events, Event(sweep.decision, sweep.rec))
    BY <1>b, <2>1
  <2> QED
    BY <1>a, <2>2, Appended DEF CaseShape
<1>6. ASSUME NEW r \in Responders, Persist(r) PROVE CaseShape' /\ case.runs \subseteq case'.runs
  <2>1. \/ UNCHANGED case
        \/ case' = [case EXCEPT !.runs = @ \cup {[id |-> run[r].id, steps |-> Len(run[r].results)]}]
    BY <1>6 DEF Persist
  <2> QED
    BY <1>a, <1>b, <2>1 DEF CaseShape
<1>7. CASE SweepDecide \/ SweepAnswer
  BY <1>3, <1>7, <1>c DEF SweepDecide, SweepAnswer
<1>8. CASE \/ Escalate \/ MintDies \/ SweepReread \/ SweepDies \/ Start \/ Respond \/ Fail
           \/ \E r \in Responders : Step(r) \/ ResponderDies(r)
  BY <1>8, <1>c DEF Escalate, MintDies, SweepReread, SweepDies, Start, Respond, Fail,
     Step, ResponderDies
<1>9. CASE UNCHANGED vars
  BY <1>9, <1>c DEF vars
<1> QED
  BY <1>1, <1>2, <1>4, <1>5, <1>6, <1>7, <1>8, <1>9 DEF Next, SweepStep

\* Only the responders' own steps change a run or add an effect.
LEMMA RunsApart ==
  [Next]_vars =>
    \/ UNCHANGED <<run, effects>>
    \/ Start \/ Respond \/ \E r \in Responders : Step(r) \/ Persist(r) \/ ResponderDies(r)
<1> SUFFICES ASSUME Next \/ UNCHANGED vars
             PROVE  \/ UNCHANGED <<run, effects>>
                    \/ Start \/ Respond \/ \E r \in Responders : Step(r) \/ Persist(r) \/ ResponderDies(r)
  OBVIOUS
<1>1. CASE Open \/ Investigate \/ Classify \/ Escalate \/ MintDies
  BY <1>1 DEF Open, Investigate, Classify, Escalate, MintDies
<1>2. CASE SweepStep \/ SweepDies
  BY <1>2 DEF SweepStep, SweepDies, SweepRead, Judges, SweepDecide, SweepReread, SweepRecommend, SweepAnswer, SweepRecord
<1>3. CASE \/ \E v \in {"approve", "deny"} : Decide(v) \/ CloseNode(v)
           \/ Close \/ CloseStale \/ Overwrite \/ Fail
  BY <1>3 DEF Decide, CloseNode, Close, CloseStale, Overwrite, Fail
<1>4. CASE UNCHANGED vars
  BY <1>4 DEF vars
<1> QED
  BY <1>1, <1>2, <1>3, <1>4 DEF Next

LEMMA Starting ==
  ASSUME ShapeInv, NEW r \in Responders, NEW c, NEW i, Begin(r, c, i)
  PROVE  /\ DOMAIN run' = Responders
         /\ \A q \in Responders : q # r => run'[q] = run[q]
         /\ IsRun(run'[r]) /\ run'[r].pb = i /\ run'[r].gate = Decision(c)
         /\ run'[r].denied = Denied
         /\ Playbooks[i].tier # "tier2" => run'[r].results = <<>>
         /\ Playbooks[i].tier = "tier2" => run'[r].pc = "persist"
<1> DEFINE results == IF Playbooks[i].tier = "tier2" THEN <<TRUE>> ELSE <<>>
           pc == IF Playbooks[i].tier = "tier2" THEN "persist" ELSE "step"
<1>1. run' = [run EXCEPT ![r] = [pc |-> pc, pb |-> i, id |-> <<r, spent["starts"]>>, results |-> results,
                                 gate |-> Decision(c), denied |-> Denied]]
  BY DEF Begin, Denied
<1>2. IsSequence(results)
  <2>1. <<TRUE>> \in Seq(Range(<<TRUE>>))
    <3>1. <<TRUE>> \in Seq(BOOLEAN)
      OBVIOUS
    <3> QED
      BY <3>1, SeqOfRange
  <2> QED
    BY <2>1, EmptySequence DEF IsSequence
<1>3. pc \in {"step", "persist"}
  OBVIOUS
<1> HIDE DEF results, pc
<1>4. /\ DOMAIN run' = Responders
      /\ \A q \in Responders : q # r => run'[q] = run[q]
      /\ run'[r] = [pc |-> pc, pb |-> i, id |-> <<r, spent["starts"]>>, results |-> results,
                    gate |-> Decision(c), denied |-> Denied]
  BY <1>1 DEF ShapeInv
<1>5. IsRun(run'[r])
  BY <1>2, <1>3, <1>4 DEF IsRun
<1>6. /\ run'[r].pb = i /\ run'[r].gate = Decision(c) /\ run'[r].pc = pc /\ run'[r].results = results
      /\ run'[r].denied = Denied
  BY <1>4
<1> QED
  BY <1>4, <1>5, <1>6 DEF pc, results

LEMMA Stepping ==
  ASSUME ShapeInv, NEW r \in Responders, Step(r)
  PROVE  \E ok :
           /\ run[r] # Rest /\ run[r].pc = "step" /\ IsRun(run[r]) /\ DOMAIN run' = Responders
           /\ \A q \in Responders : q # r => run'[q] = run[q]
           /\ IsRun(run'[r]) /\ run'[r].results = Append(run[r].results, ok)
           /\ run'[r].id = run[r].id /\ run'[r].pb = run[r].pb
           /\ run'[r].gate = run[r].gate /\ run'[r].denied = run[r].denied
           /\ run'[r].pc = "step" => ok # FALSE
           /\ effects' = effects \cup
                {[id |-> run[r].id, step |-> Len(run[r].results) + 1, gate |-> run[r].gate,
                  denied |-> run[r].denied,
                  after |-> {run[r].results[j] : j \in DOMAIN run[r].results},
                  touched |-> Targets(Playbooks[run[r].pb]), lost |-> FALSE]}
<1>1. run[r] # Rest /\ run[r].pc = "step"
  BY DEF Step, Rest
<1>2. IsRun(run[r]) /\ DOMAIN run = Responders
  BY <1>1 DEF ShapeInv
<1> DEFINE pb == Playbooks[run[r].pb]
           k == Len(run[r].results) + 1
<1>3. PICK lost \in BOOLEAN : \E out \in UNION {Carried(o, lost) : o \in Outcomes(pb.steps[k])} :
           /\ LET results == Append(run[r].results, out.ok)
                  more == Last(results) /\ k < Len(pb.steps)
              IN  run' = [run EXCEPT ![r].results = results, ![r].pc = IF more THEN "step" ELSE "persist"]
           /\ effects' = effects \cup
                {[id |-> run[r].id, step |-> k, gate |-> run[r].gate, denied |-> run[r].denied,
                  after |-> {run[r].results[j] : j \in DOMAIN run[r].results}, touched |-> Targets(pb), lost |-> FALSE]}
  BY DEF Step
<1>4. PICK out :
           /\ run' = [run EXCEPT ![r].results = Append(run[r].results, out.ok),
                                 ![r].pc = IF Last(Append(run[r].results, out.ok)) /\ k < Len(pb.steps)
                                           THEN "step" ELSE "persist"]
           /\ effects' = effects \cup
                {[id |-> run[r].id, step |-> k, gate |-> run[r].gate, denied |-> run[r].denied,
                  after |-> {run[r].results[j] : j \in DOMAIN run[r].results}, touched |-> Targets(pb), lost |-> FALSE]}
  BY <1>3
<1> DEFINE results == Append(run[r].results, out.ok)
           pc == IF Last(results) /\ k < Len(pb.steps) THEN "step" ELSE "persist"
<1>5. IsSequence(results) /\ Last(results) = out.ok
  BY <1>2, Appended DEF IsRun
<1>6. pc \in {"step", "persist"} /\ (pc = "step" => out.ok # FALSE)
  BY <1>5
<1>7. run' = [run EXCEPT ![r].results = results, ![r].pc = pc]
  BY <1>4
<1> HIDE DEF results, pc
<1>8. /\ DOMAIN run' = Responders
      /\ \A q \in Responders : q # r => run'[q] = run[q]
      /\ run'[r] = [run[r] EXCEPT !.results = results, !.pc = pc]
  BY <1>2, <1>7
<1>9. /\ DOMAIN run'[r] = DOMAIN run[r]
      /\ run'[r].results = results /\ run'[r].pc = pc
      /\ run'[r].id = run[r].id /\ run'[r].pb = run[r].pb
      /\ run'[r].gate = run[r].gate /\ run'[r].denied = run[r].denied
  BY <1>2, <1>8 DEF IsRun
<1>10. IsRun(run'[r])
  BY <1>2, <1>5, <1>6, <1>9 DEF IsRun
<1> QED
  BY <1>1, <1>2, <1>4, <1>6, <1>8, <1>9, <1>10 DEF results

\* A run that ends leaves its record, or its effects are never told of.
LEMMA Ending ==
  ASSUME ShapeInv, NEW r \in Responders, Persist(r) \/ ResponderDies(r)
  PROVE  /\ run[r] # Rest /\ IsRun(run[r]) /\ DOMAIN run' = Responders /\ run'[r] = Rest
         /\ \A q \in Responders : q # r => run'[q] = run[q]
         /\ \/ effects' = Untold(run[r].id)
            \/ /\ effects' = effects
               /\ [id |-> run[r].id, steps |-> Len(run[r].results)] \in case'.runs
<1>1. run[r] # Rest
  BY DEF Persist, ResponderDies, Rest
<1>2. IsRun(run[r]) /\ DOMAIN run = Responders
  BY <1>1 DEF ShapeInv
<1>3. run' = [run EXCEPT ![r] = Rest]
  BY DEF Persist, ResponderDies
<1>4. \/ effects' = Untold(run[r].id)
      \/ /\ effects' = effects
         /\ case' = [case EXCEPT !.runs = @ \cup {[id |-> run[r].id, steps |-> Len(run[r].results)]}]
  BY DEF Persist, ResponderDies
<1>5. "runs" \in DOMAIN case
  BY DEF ShapeInv, NoCase
<1>6. CASE case' = [case EXCEPT !.runs = @ \cup {[id |-> run[r].id, steps |-> Len(run[r].results)]}]
  <2>1. [id |-> run[r].id, steps |-> Len(run[r].results)] \in case'.runs
    BY <1>5, <1>6
  <2> QED
    BY <1>1, <1>2, <1>3, <1>4, <2>1
<1> QED
  BY <1>1, <1>2, <1>3, <1>4, <1>6

\* What is untold keeps all but that.
LEMMA UntoldShape ==
  ASSUME ShapeInv, NEW id, NEW e \in Untold(id)
  PROVE  /\ IsEffect(e)
         /\ \E d \in effects :
              /\ e.id = d.id /\ e.step = d.step /\ e.gate = d.gate /\ e.denied = d.denied
              /\ e.after = d.after /\ e.touched = d.touched
              /\ IF d.id = id THEN e.lost ELSE e = d
<1>1. PICK d \in effects : e = IF d.id = id THEN [d EXCEPT !.lost = TRUE] ELSE d
  BY DEF Untold
<1>2. IsEffect(d)
  BY DEF ShapeInv
<1>3. CASE d.id = id
  <2>1. e = [d EXCEPT !.lost = TRUE]
    BY <1>1, <1>3
  <2>2. /\ DOMAIN e = DOMAIN d /\ e.id = d.id /\ e.step = d.step /\ e.gate = d.gate
        /\ e.denied = d.denied /\ e.after = d.after /\ e.touched = d.touched /\ e.lost
    BY <1>2, <2>1 DEF IsEffect
  <2> QED
    BY <1>2, <1>3, <2>2 DEF IsEffect
<1> QED
  BY <1>1, <1>2, <1>3

LEMMA ShapeInit == Init => ShapeInv /\ OpeningInv
<1> SUFFICES ASSUME Init PROVE ShapeInv /\ OpeningInv
  OBVIOUS
<1>1. IsSequence(case.events)
  BY EmptySequence DEF Init, NoCase
<1> QED
  BY <1>1 DEF Init, ShapeInv, OpeningInv, Rest

\* What is going to be written back is a copy that was read.
LEMMA Copies ==
  [Next]_vars => (sweep'.pc = "recommend" => sweep' = sweep \/ \E c \in {case, Rebuilt} : sweep'.copy = c)
<1> SUFFICES ASSUME Next \/ UNCHANGED vars, sweep'.pc = "recommend"
             PROVE  sweep' = sweep \/ \E c \in {case, Rebuilt} : sweep'.copy = c
  OBVIOUS
<1>1. CASE \/ Open \/ Investigate \/ Classify \/ Escalate \/ MintDies \/ Start \/ Respond
           \/ \E r \in Responders : Step(r) \/ Persist(r) \/ ResponderDies(r)
  BY <1>1 DEF Open, Investigate, Classify, Escalate, MintDies, Start, Respond, Step, Persist, ResponderDies
<1>2. CASE \/ \E v \in {"approve", "deny"} : Decide(v) \/ CloseNode(v)
           \/ Close \/ CloseStale \/ Overwrite \/ Fail \/ UNCHANGED vars
  BY <1>2 DEF Decide, CloseNode, Close, CloseStale, Overwrite, Fail, vars
<1>3. CASE SweepReread
  BY <1>3 DEF SweepReread
<1>4. CASE SweepRead
  BY <1>4 DEF SweepRead, Judges, Judged
<1>5. CASE SweepDecide \/ SweepRecommend \/ SweepAnswer \/ SweepRecord \/ SweepDies
  BY <1>5 DEF SweepDecide, SweepRecommend, SweepAnswer, SweepRecord, SweepDies, Rest
<1> QED
  BY <1>1, <1>2, <1>3, <1>4, <1>5 DEF Next, SweepStep

LEMMA ShapeStep == ShapeInv /\ OpeningInv /\ [Next]_vars => ShapeInv'
<1> SUFFICES ASSUME ShapeInv, OpeningInv, [Next]_vars PROVE ShapeInv'
  OBVIOUS
<1>a. /\ DOMAIN case' = DOMAIN NoCase /\ IsSequence(case.events)'
      /\ sweep'.pc = "recommend" => DOMAIN sweep'.copy = DOMAIN NoCase
  <2>1. sweep'.pc = "recommend" => sweep' = sweep \/ \E c \in {case, Rebuilt} : sweep'.copy = c
    BY Copies
  <2>2. DOMAIN case = DOMAIN NoCase /\ DOMAIN Rebuilt = DOMAIN NoCase
    BY DEF ShapeInv, Rebuilt
  <2> QED
    BY <2>1, <2>2, CaseStep DEF CaseShape, ShapeInv
<1>1. CASE UNCHANGED <<run, effects>>
  BY <1>a, <1>1 DEF ShapeInv, IsRun, IsEffect, IsSequence
<1>2. ASSUME UNCHANGED effects, NEW r \in Responders, NEW c, NEW i, Begin(r, c, i) PROVE ShapeInv'
  <2>2. DOMAIN run' = Responders /\ \A q \in Responders : run'[q] = Rest \/ IsRun(run'[q])
    BY <1>2, Starting DEF ShapeInv
  <2> QED
    BY <1>a, <1>2, <2>2 DEF ShapeInv, IsRun, IsEffect, IsSequence
<1>3. ASSUME NEW r \in Responders, Step(r) PROVE ShapeInv'
  <2>1. PICK ok :
           /\ run[r] # Rest /\ IsRun(run[r]) /\ DOMAIN run' = Responders
           /\ \A q \in Responders : q # r => run'[q] = run[q]
           /\ IsRun(run'[r])
           /\ effects' = effects \cup
                {[id |-> run[r].id, step |-> Len(run[r].results) + 1, gate |-> run[r].gate,
                  denied |-> run[r].denied,
                  after |-> {run[r].results[j] : j \in DOMAIN run[r].results},
                  touched |-> Targets(Playbooks[run[r].pb]), lost |-> FALSE]}
    BY <1>3, Stepping
  <2>2. Len(run[r].results) + 1 \in Nat
    BY <2>1, Appended DEF IsRun
  <2>3. \A e \in effects' : IsEffect(e)
    BY <2>1, <2>2 DEF ShapeInv, IsEffect
  <2>4. \A q \in Responders : run'[q] = Rest \/ IsRun(run'[q])
    BY <2>1 DEF ShapeInv
  <2> QED
    BY <1>a, <2>1, <2>3, <2>4 DEF ShapeInv, IsRun, IsEffect, IsSequence
<1>4. ASSUME NEW r \in Responders, Persist(r) \/ ResponderDies(r) PROVE ShapeInv'
  <2>1. \A e \in effects' : IsEffect(e)
    <3>1. CASE effects' = effects
      BY <3>1 DEF ShapeInv, IsEffect
    <3>2. ASSUME NEW id, effects' = Untold(id), NEW e \in effects' PROVE IsEffect(e)
      BY <3>2, UntoldShape
    <3> QED
      BY <1>4, <3>1, <3>2, Ending
  <2>2. DOMAIN run' = Responders /\ \A q \in Responders : run'[q] = Rest \/ IsRun(run'[q])
    BY <1>4, Ending DEF ShapeInv
  <2> QED
    BY <1>a, <2>1, <2>2 DEF ShapeInv, IsRun, IsEffect, IsSequence
<1>5. CASE Start
  <2>1. /\ \E c \in {case, Rebuilt} : Begin("hand", c, Executable(c, RecOnCase(c)))
        /\ UNCHANGED effects /\ "hand" \in Responders
    BY <1>5 DEF Start, Responders
  <2> QED
    BY <1>2, <2>1
<1>6. CASE Respond
  <2>1. /\ UNCHANGED effects
        /\ UNCHANGED run \/ \E c \in {case, Rebuilt} : Begin("router", c, Executable(c, Recommended(alert)))
    BY <1>6 DEF Respond
  <2>2. "router" \in Responders
    BY DEF Responders
  <2> QED
    BY <1>1, <1>2, <2>1, <2>2
<1> QED
  BY <1>1, <1>3, <1>4, <1>5, <1>6, RunsApart

LEMMA OpeningStep == ShapeInv /\ OpeningInv /\ [Next]_vars => OpeningInv'
<1> SUFFICES ASSUME ShapeInv, OpeningInv, [Next]_vars, mint' = "open"
             PROVE  UNCHANGED <<case, ticket, sweep, effects, run>> /\ mint = "open"
  BY DEF OpeningInv
<1>1. CASE Open \/ Investigate \/ Classify \/ Escalate \/ MintDies \/ Respond
  BY <1>1 DEF Open, Investigate, Classify, Escalate, MintDies, Respond
<1>a. ASSUME mint = "open"
      PROVE  /\ case.status = "none" /\ ticket = "none" /\ sweep.pc = "rest"
             /\ \A r \in Responders : run[r].pc = "rest"
  BY <1>a DEF OpeningInv, NoCase, Rest
<1>2. CASE SweepStep \/ SweepDies
  BY <1>2, <1>a DEF SweepStep, SweepDies, SweepRead, SweepDecide, SweepReread, SweepRecommend,
     SweepAnswer, SweepRecord
<1>3. CASE Start
  BY <1>3, <1>a DEF Start
<1>4. CASE \E r \in Responders : Step(r) \/ Persist(r) \/ ResponderDies(r)
  BY <1>4, <1>a DEF Step, Persist, ResponderDies
<1>5. CASE \/ \E v \in {"approve", "deny"} : Decide(v) \/ CloseNode(v)
           \/ Close \/ CloseStale \/ Overwrite
  BY <1>5, <1>a DEF Decide, CloseNode, Close, CloseStale, Overwrite, Stale
<1>6. CASE Fail \/ UNCHANGED vars
  BY <1>6 DEF Fail, vars
<1> QED
  BY <1>1, <1>2, <1>3, <1>4, <1>5, <1>6 DEF Next

----------------------------------------------------------------------------
\* Denials.

LEMMA DenialInit == Init => DenialInv
BY DEF Init, DenialInv, Denied, NoCase

LEMMA DenialStep == ShapeInv /\ OpeningInv /\ DenialInv /\ [Next]_vars => DenialInv'
<1> SUFFICES ASSUME ShapeInv, OpeningInv, DenialInv, [Next]_vars, Denied'
             PROVE  case'.status \in {"decided", "closed"} /\ sweep'.pc = "rest" /\ Overruled'
  BY DEF DenialInv
<1>b. DOMAIN case = {"status", "enriched", "inv", "verdict", "block", "techniques", "rec", "events", "runs",
                    "human", "raced", "hidden"}
  BY DEF ShapeInv, NoCase
<1>a. ASSUME case'.human = case.human, case'.raced = case.raced, ~ case'.hidden => ~ case.hidden
      PROVE  case.status \in {"decided", "closed"} /\ sweep.pc = "rest" /\ Overruled
  BY <1>a DEF DenialInv, Denied
<1>1. ASSUME case'.human = case.human, case'.raced = case.raced, ~ case'.hidden => ~ case.hidden,
             case'.events = case.events, case'.status \in {case.status, "closed"}, sweep'.pc = "rest"
      PROVE  case'.status \in {"decided", "closed"} /\ sweep'.pc = "rest" /\ Overruled'
  BY <1>1, <1>a DEF Overruled
<1>2. CASE Open
  <2>1. case' = [NoCase EXCEPT !.status = case'.status, !.block = case'.block, !.techniques = alert.techniques,
                               !.enriched = case'.enriched]
    BY <1>2 DEF Open, NoCase
  <2>2. case'.human = "none"
    BY <2>1 DEF NoCase
  <2> QED
    BY <2>2 DEF Denied
<1>3. CASE Investigate \/ Classify
  <2>1. /\ case'.human = case.human /\ case'.raced = case.raced /\ (~ case'.hidden => ~ case.hidden) /\ case'.events = case.events
        /\ case'.status = case.status /\ sweep' = sweep
    BY <1>b, <1>3 DEF Investigate, Classify
  <2> QED
    BY <1>1, <1>a, <2>1
<1>4. CASE SweepRead
  <2>1. PICK c \in {case, Rebuilt} :
          IF c.status \in {"decided", "closed"} THEN UNCHANGED <<sweep, case>> ELSE Judges(c)
    BY <1>4 DEF SweepRead
  <2>2. CASE c.status \in {"decided", "closed"}
    BY <1>1, <1>a, <2>1, <2>2
  <2>3. CASE c.status \notin {"decided", "closed"}
    <3>1. case' = [case EXCEPT !.hidden = @ \/ c # case]
      BY <2>1, <2>3 DEF Judges
    <3>2. case'.human = case.human /\ case'.raced = case.raced /\ case'.hidden = (case.hidden \/ c # case)
      BY <1>b, <3>1
    <3>3. c = case /\ ~ case.hidden
      BY <3>2 DEF Denied
    <3> QED
      BY <1>a, <2>3, <3>2, <3>3
  <2> QED
    BY <2>2, <2>3
<1>5. CASE SweepDecide
  <2>1. case'.human = case.human /\ case'.raced = case.raced /\ case'.hidden = case.hidden
    BY <1>5, Newest DEF SweepDecide
  <2> QED
    BY <1>5, <1>a, <2>1 DEF SweepDecide
<1>6. CASE SweepReread \/ SweepRecommend \/ SweepAnswer \/ SweepRecord
  <2>1. case'.human = case.human /\ case'.raced = case.raced /\ (~ case'.hidden => ~ case.hidden)
    <3>1. CASE SweepReread
      BY <3>1 DEF SweepReread
    <3>2. CASE SweepRecommend
      <4>1. DOMAIN sweep.copy = DOMAIN NoCase
        BY <3>2 DEF SweepRecommend, ShapeInv
      <4>2. \/ case' = case
            \/ case' = [sweep.copy EXCEPT !.rec = sweep.rec, !.events = case.events, !.runs = case.runs,
                         !.human = case.human, !.raced = case.raced, !.hidden = @ \/ case.hidden]
        BY <3>2 DEF SweepRecommend
      <4> QED
        BY <4>1, <4>2 DEF NoCase
    <3>3. CASE SweepAnswer
      BY <3>3, Newest DEF SweepAnswer
    <3>4. CASE SweepRecord
      BY <1>b, <3>4 DEF SweepRecord
    <3> QED
      BY <1>6, <3>1, <3>2, <3>3, <3>4
  <2> QED
    BY <1>6, <1>a, <2>1 DEF SweepReread, SweepRecommend, SweepAnswer, SweepRecord
<1>7. ASSUME NEW v \in {"approve", "deny"}, Decide(v) \/ CloseNode(v)
      PROVE  case'.status \in {"decided", "closed"} /\ sweep'.pc = "rest" /\ Overruled'
  <2>1. case' = [Decided(v) EXCEPT !.human = v, !.raced = sweep.pc # "rest", !.hidden = FALSE] /\ sweep' = sweep
    BY <1>7 DEF Decide, CloseNode
  <2>2. /\ case'.status = "decided" /\ case'.human = v /\ case'.raced = (sweep.pc # "rest")
        /\ case'.events = Decided(v).events
    BY <1>b, <2>1, Newest
  <2>3. v = "deny" /\ sweep.pc = "rest"
    BY <2>2 DEF Denied
  <2>4. Overruled'
    BY <2>2, <2>3, Newest DEF Overruled
  <2> QED
    BY <2>1, <2>2, <2>3, <2>4
<1>8. ASSUME NEW r \in Responders, Persist(r)
      PROVE  case'.status \in {"decided", "closed"} /\ sweep'.pc = "rest" /\ Overruled'
  <2>1. \/ UNCHANGED case
        \/ case' = [case EXCEPT !.runs = @ \cup {[id |-> run[r].id, steps |-> Len(run[r].results)]}]
    BY <1>8 DEF Persist
  <2>2. /\ case'.human = case.human /\ case'.raced = case.raced /\ (~ case'.hidden => ~ case.hidden) /\ case'.events = case.events
        /\ case'.status = case.status /\ sweep' = sweep
    BY <1>b, <1>8, <2>1 DEF Persist
  <2> QED
    BY <1>1, <1>a, <2>2
<1>9. CASE Close \/ CloseStale
  <2>1. /\ case'.human = case.human /\ case'.raced = case.raced /\ (~ case'.hidden => ~ case.hidden) /\ case'.events = case.events
        /\ case'.status = "closed" /\ sweep' = sweep
    BY <1>b, <1>9 DEF Close, CloseStale
  <2> QED
    BY <1>1, <1>a, <2>1
<1>10. CASE \/ Escalate \/ MintDies \/ SweepDies \/ Start \/ Respond \/ Fail \/ UNCHANGED vars
            \/ \E r \in Responders : Step(r) \/ ResponderDies(r)
  <2>1. case' = case /\ sweep' \in {sweep, Rest}
    BY <1>10 DEF Escalate, MintDies, SweepDies, Start, Respond, Fail, vars, Step, ResponderDies
  <2> QED
    BY <1>1, <1>a, <2>1 DEF Rest
<1>11. CASE Overwrite
  <2>1. case'.hidden
    BY <1>b, <1>11 DEF Overwrite, Rebuilt
  <2> QED
    BY <2>1 DEF Denied
<1> QED
  BY <1>2, <1>3, <1>4, <1>5, <1>6, <1>7, <1>8, <1>9, <1>10, <1>11 DEF Next, SweepStep

----------------------------------------------------------------------------
\* What is done is paid for.

\* What a case is about, and what is known of it, does not change.
LEMMA WorldStays == [Next]_vars => UNCHANGED world
<1> SUFFICES ASSUME Next \/ UNCHANGED vars PROVE UNCHANGED world
  OBVIOUS
<1>1. CASE Open \/ Investigate \/ Classify \/ Escalate \/ MintDies
  BY <1>1 DEF Open, Investigate, Classify, Escalate, MintDies, world
<1>2. CASE SweepStep \/ SweepDies
  BY <1>2 DEF SweepStep, SweepDies, SweepRead, Judges, SweepDecide, SweepReread, SweepRecommend, SweepAnswer,
     SweepRecord, world
<1>3. CASE Start \/ Respond \/ \E r \in Responders : Step(r) \/ Persist(r) \/ ResponderDies(r)
  BY <1>3 DEF Start, Respond, Step, Persist, ResponderDies, world
<1>4. CASE \/ \E v \in {"approve", "deny"} : Decide(v) \/ CloseNode(v)
           \/ Close \/ CloseStale \/ Overwrite \/ Fail
  BY <1>4 DEF Decide, CloseNode, Close, CloseStale, Overwrite, Fail, world
<1>5. CASE UNCHANGED vars
  BY <1>5 DEF vars, world
<1> QED
  BY <1>1, <1>2, <1>3, <1>4, <1>5 DEF Next

LEMMA AlertStays == [Next]_vars => alert' = alert
BY WorldStays DEF world

\* What may be executed is approved and touches nothing protected.
LEMMA Allowed ==
  ASSUME NEW c, NEW rec, Executable(c, rec) # NoPlaybook
  PROVE  Decision(c) = "approve" /\ ~ Guarded(Playbooks[Executable(c, rec)])
<1> DEFINE i == Candidate(Seen, rec)
<1>1. /\ Approved(c) /\ i # NoPlaybook /\ ~ Guarded(Playbooks[i])
      /\ Executable(c, rec) = i
  BY DEF Executable
<1> QED
  BY <1>1 DEF Approved

\* The alert does not change, and with it what a playbook may touch.
LEMMA GuardStays == alert' = alert => \A pb : Guarded(pb)' <=> Guarded(pb)
<1> SUFFICES ASSUME alert' = alert, NEW pb PROVE Guarded(pb)' <=> Guarded(pb)
  OBVIOUS
<1> QED
  BY DEF Guarded, Targets, Values

LEMMA PaidInit == Init => PaidInv
BY DEF Init, PaidInv, EffectsArePaid

\* A run begins paid for.
LEMMA PaidStart ==
  ASSUME ShapeInv, DenialInv, PaidInv, alert' = alert, UNCHANGED effects,
         NEW r \in Responders, NEW c \in {case, Rebuilt}, NEW i, Begin(r, c, i), Decision(c) = "approve",
         ~ Guarded(Playbooks[i])
  PROVE  PaidInv'
<1>1. /\ \A q \in Responders : q # r => run'[q] = run[q]
      /\ IsRun(run'[r]) /\ run'[r].pb = i /\ run'[r].gate = "approve"
      /\ run'[r].denied = Denied
      /\ Playbooks[i].tier # "tier2" => run'[r].results = <<>>
      /\ Playbooks[i].tier = "tier2" => run'[r].pc = "persist"
  BY Starting
<1>2. ~ run'[r].denied
  <2>1. c.events = case.events
    BY DEF Rebuilt, ShapeInv, NoCase
  <2> QED
    BY <1>1, <2>1 DEF DenialInv, Overruled, Decision
<1>3. run'[r].pc = "step" => FALSE \notin Range(run'[r].results)
  <2>1. Range(<<>>) = {}
    BY DEF Range
  <2> QED
    BY <1>1, <2>1
<1>4. ASSUME NEW q \in Responders PROVE run'[q] = Rest \/ Paid(run[q])'
  <2>1. CASE q = r
    BY <1>1, <1>2, <1>3, <2>1, GuardStays DEF Paid
  <2>2. CASE q # r
    BY <1>1, <2>2, GuardStays DEF PaidInv, Paid
  <2> QED
    BY <2>1, <2>2
<1> QED
  BY <1>4 DEF PaidInv, EffectsArePaid, Rest

LEMMA PaidStep == ShapeInv /\ OpeningInv /\ DenialInv /\ PaidInv /\ [Next]_vars => PaidInv'
<1> SUFFICES ASSUME ShapeInv, OpeningInv, DenialInv, PaidInv, [Next]_vars PROVE PaidInv'
  OBVIOUS
<1>a. alert' = alert
  BY AlertStays
<1>b. ASSUME NEW q \in Responders, run'[q] = run[q] PROVE run'[q] = Rest \/ Paid(run[q])'
  BY <1>a, <1>b, GuardStays DEF PaidInv, Paid
<1>1. CASE UNCHANGED <<run, effects>>
  BY <1>b, <1>1 DEF PaidInv, EffectsArePaid, Rest
<1>2. CASE Start
  <2>1. UNCHANGED effects /\ "hand" \in Responders
    BY <1>2 DEF Start, Responders
  <2>2. PICK c \in {case, Rebuilt} : /\ Executable(c, RecOnCase(c)) # NoPlaybook
                                     /\ Begin("hand", c, Executable(c, RecOnCase(c)))
    BY <1>2 DEF Start
  <2>3. Decision(c) = "approve" /\ ~ Guarded(Playbooks[Executable(c, RecOnCase(c))])
    BY <2>2, Allowed
  <2> QED
    BY <1>a, <2>1, <2>2, <2>3, PaidStart
<1>3. CASE Respond
  <2>1. UNCHANGED effects /\ "router" \in Responders
    BY <1>3 DEF Respond, Responders
  <2>2. PICK c \in {case, Rebuilt} :
          LET i == Executable(c, Recommended(alert))
          IN  IF i = NoPlaybook THEN UNCHANGED run ELSE Begin("router", c, i)
    BY <1>3 DEF Respond
  <2>3. CASE Executable(c, Recommended(alert)) = NoPlaybook
    BY <1>1, <2>1, <2>2, <2>3
  <2>4. CASE Executable(c, Recommended(alert)) # NoPlaybook
    <3>1. Begin("router", c, Executable(c, Recommended(alert)))
      BY <2>2, <2>4
    <3>2. Decision(c) = "approve" /\ ~ Guarded(Playbooks[Executable(c, Recommended(alert))])
      BY <2>4, Allowed
    <3> QED
      BY <1>a, <2>1, <3>1, <3>2, PaidStart
  <2> QED
    BY <2>3, <2>4
<1>4. ASSUME NEW r \in Responders, Step(r) PROVE PaidInv'
  <2>1. PICK ok :
           /\ run[r] # Rest /\ run[r].pc = "step" /\ IsRun(run[r])
           /\ \A q \in Responders : q # r => run'[q] = run[q]
           /\ run'[r].results = Append(run[r].results, ok)
           /\ run'[r].pb = run[r].pb
           /\ run'[r].gate = run[r].gate /\ run'[r].denied = run[r].denied
           /\ run'[r].pc = "step" => ok # FALSE
           /\ effects' = effects \cup
                {[id |-> run[r].id, step |-> Len(run[r].results) + 1, gate |-> run[r].gate,
                  denied |-> run[r].denied,
                  after |-> {run[r].results[j] : j \in DOMAIN run[r].results},
                  touched |-> Targets(Playbooks[run[r].pb]), lost |-> FALSE]}
    BY <1>4, Stepping
  <2>2. Paid(run[r])
    BY <2>1 DEF PaidInv
  <2>3. /\ run[r].gate = "approve" /\ ~ run[r].denied /\ ~ Guarded(Playbooks[run[r].pb])
        /\ FALSE \notin Range(run[r].results)
    BY <2>1, <2>2 DEF Paid
  <2>4. EffectsArePaid'
    <3>1. Range(run[r].results) = {run[r].results[j] : j \in DOMAIN run[r].results}
      BY DEF Range
    <3>2. Targets(Playbooks[run[r].pb]) \cap Protected = {}
      BY <2>3 DEF Guarded
    <3> HIDE DEF Targets
    <3>3. ASSUME NEW e \in effects'
          PROVE  e.gate = "approve" /\ ~ e.denied /\ FALSE \notin e.after /\ e.touched \cap Protected = {}
      <4>1. CASE e \in effects
        BY <4>1 DEF PaidInv, EffectsArePaid
      <4>2. CASE e \notin effects
        <5>1. /\ e.gate = run[r].gate /\ e.denied = run[r].denied
              /\ e.after = Range(run[r].results)
              /\ e.touched = Targets(Playbooks[run[r].pb])
          BY <2>1, <3>1, <3>3, <4>2
        <5> QED
          BY <2>3, <3>1, <3>2, <5>1
      <4> QED
        BY <4>1, <4>2
    <3> QED
      BY <3>3 DEF EffectsArePaid
  <2>5. run'[r].pc = "step" => FALSE \notin Range(run'[r].results)
    <3> SUFFICES ASSUME run'[r].pc = "step" PROVE FALSE \notin Range(run'[r].results)
      OBVIOUS
    <3>1. ok # FALSE
      BY <2>1
    <3>2. Range(run'[r].results) = Range(run[r].results) \cup {ok}
      BY <2>1, Appended DEF IsRun
    <3> QED
      BY <2>3, <3>1, <3>2
  <2>6. Paid(run[r])'
    BY <1>a, <2>1, <2>3, <2>5, GuardStays DEF Paid
  <2> QED
    BY <1>b, <2>1, <2>4, <2>6 DEF PaidInv, Rest
<1>5. ASSUME NEW r \in Responders, Persist(r) \/ ResponderDies(r) PROVE PaidInv'
  <2>1. EffectsArePaid'
    <3>1. CASE effects' = effects
      BY <3>1 DEF PaidInv, EffectsArePaid
    <3>2. ASSUME NEW id, effects' = Untold(id) PROVE EffectsArePaid'
      <4>1. ASSUME NEW e \in effects'
            PROVE  e.gate = "approve" /\ ~ e.denied /\ FALSE \notin e.after /\ e.touched \cap Protected = {}
        <5>1. PICK d \in effects :
                e.gate = d.gate /\ e.denied = d.denied /\ e.after = d.after /\ e.touched = d.touched
          BY <3>2, <4>1, UntoldShape
        <5>2. d.gate = "approve" /\ ~ d.denied /\ FALSE \notin d.after /\ d.touched \cap Protected = {}
          BY DEF PaidInv, EffectsArePaid
        <5> QED
          BY <5>1, <5>2
      <4> QED
        BY <4>1 DEF EffectsArePaid
    <3> QED
      BY <1>5, <3>1, <3>2, Ending
  <2>2. run'[r] = Rest /\ \A q \in Responders : q # r => run'[q] = run[q]
    BY <1>5, Ending
  <2> QED
    BY <1>b, <2>1, <2>2 DEF PaidInv, Rest
<1> QED
  BY <1>1, <1>2, <1>3, <1>4, <1>5, RunsApart

\* A step ran under a decision that approved; not after an operator's denial, unless the sweep
\* had read the case before it, or a failed read or an overwriting write had hidden it since;
\* not after a step that failed; and never on a protected entity.
THEOREM EffectsPaid == Spec => []EffectsArePaid
<1> DEFINE Inv == ShapeInv /\ OpeningInv /\ DenialInv /\ PaidInv
<1>1. Init => Inv
  BY ShapeInit, DenialInit, PaidInit
<1>2. Inv /\ [Next]_vars => Inv'
  BY ShapeStep, OpeningStep, DenialStep, PaidStep
<1>3. Inv => EffectsArePaid
  BY DEF PaidInv
<1> QED
  BY <1>1, <1>2, <1>3, PTL DEF Spec

----------------------------------------------------------------------------
\* What is done is on record.

LEMMA RouterInit == Init => RouterInv
BY DEF Init, RouterInv, Responders

LEMMA RouterStep == ShapeInv /\ RouterInv /\ [Next]_vars => RouterInv'
<1> SUFFICES ASSUME ShapeInv, RouterInv, [Next]_vars, mint' # "done" PROVE run'["router"] = Rest
  BY DEF RouterInv, Rest
<1>a. "router" \in Responders /\ "hand" \in Responders /\ "router" # "hand"
  BY DEF Responders
<1>1. mint # "done"
  <2>1. CASE Open \/ Investigate \/ Classify \/ Escalate \/ MintDies \/ Respond
    BY <2>1 DEF Open, Investigate, Classify, Escalate, MintDies, Respond
  <2>2. CASE SweepStep \/ SweepDies
    BY <2>2 DEF SweepStep, SweepDies, SweepRead, Judges, SweepDecide, SweepReread, SweepRecommend, SweepAnswer,
       SweepRecord
  <2>3. CASE Start \/ \E r \in Responders : Step(r) \/ Persist(r) \/ ResponderDies(r)
    BY <2>3 DEF Start, Step, Persist, ResponderDies
  <2>4. CASE \/ \E v \in {"approve", "deny"} : Decide(v) \/ CloseNode(v)
             \/ Close \/ CloseStale \/ Overwrite \/ Fail
    BY <2>4 DEF Decide, CloseNode, Close, CloseStale, Overwrite, Fail
  <2>5. CASE UNCHANGED vars
    BY <2>5 DEF vars
  <2> QED
    BY <2>1, <2>2, <2>3, <2>4, <2>5 DEF Next
<1>2. run["router"] = Rest
  BY <1>1 DEF RouterInv
<1>3. CASE Start
  BY <1>2, <1>3, <1>a, Starting DEF Start
<1>4. CASE Respond
  BY <1>4 DEF Respond
<1>5. ASSUME NEW r \in Responders, Step(r) \/ Persist(r) \/ ResponderDies(r) PROVE run'["router"] = Rest
  <2>1. run[r].pc # "rest"
    BY <1>5 DEF Step, Persist, ResponderDies
  <2>2. r # "router"
    BY <1>2, <2>1 DEF Rest
  <2>3. \A q \in Responders : q # r => run'[q] = run[q]
    BY <1>5, Stepping, Ending
  <2> QED
    BY <1>2, <1>a, <2>2, <2>3
<1> QED
  BY <1>2, <1>3, <1>4, <1>5, RunsApart

LEMMA RecordInit == Init => RecordInv
BY DEF Init, RecordInv

\* A run takes the place of none.
LEMMA RecordStart ==
  ASSUME ShapeInv, RecordInv, case.runs \subseteq case'.runs, UNCHANGED effects,
         NEW r \in Responders, run[r] = Rest, NEW c, NEW i, Begin(r, c, i)
  PROVE  RecordInv'
<1>1. \A q \in Responders : q # r => run'[q] = run[q]
  BY Starting
<1>2. ASSUME NEW e \in effects, NEW q \in Responders, run[q] # Rest, run[q].id = e.id,
             e.step <= Len(run[q].results)
      PROVE  run'[q] # Rest /\ run'[q].id = e.id /\ e.step <= Len(run'[q].results)
  BY <1>1, <1>2
<1> QED
  BY <1>2 DEF RecordInv, Rest

LEMMA RecordStep == ShapeInv /\ OpeningInv /\ RouterInv /\ RecordInv /\ [Next]_vars => RecordInv'
<1> SUFFICES ASSUME ShapeInv, OpeningInv, RouterInv, RecordInv, [Next]_vars PROVE RecordInv'
  OBVIOUS
<1>a. case.runs \subseteq case'.runs
  BY CaseStep
<1>1. CASE UNCHANGED <<run, effects>>
  BY <1>a, <1>1 DEF RecordInv, Rest
<1>2. CASE Start
  <2>1. /\ run["hand"].pc = "rest" /\ \E c \in {case, Rebuilt} : Begin("hand", c, Executable(c, RecOnCase(c)))
        /\ UNCHANGED effects /\ "hand" \in Responders
    BY <1>2 DEF Start, Responders
  <2>2. run["hand"] = Rest
    BY <2>1 DEF ShapeInv, IsRun
  <2> QED
    BY <1>a, <2>1, <2>2, RecordStart
<1>3. CASE Respond
  <2>1. mint = "respond" /\ UNCHANGED effects /\ "router" \in Responders
    BY <1>3 DEF Respond, Responders
  <2>2. run["router"] = Rest
    BY <2>1 DEF RouterInv
  <2>3. UNCHANGED run \/ \E c \in {case, Rebuilt} : Begin("router", c, Executable(c, Recommended(alert)))
    BY <1>3 DEF Respond
  <2> QED
    BY <1>1, <1>a, <2>1, <2>2, <2>3, RecordStart
<1>4. ASSUME NEW r \in Responders, Step(r) PROVE RecordInv'
  <2>1. PICK ok :
           /\ run[r] # Rest /\ IsRun(run[r])
           /\ \A q \in Responders : q # r => run'[q] = run[q]
           /\ IsRun(run'[r]) /\ run'[r].results = Append(run[r].results, ok)
           /\ run'[r].id = run[r].id
           /\ effects' = effects \cup
                {[id |-> run[r].id, step |-> Len(run[r].results) + 1, gate |-> run[r].gate,
                  denied |-> run[r].denied,
                  after |-> {run[r].results[j] : j \in DOMAIN run[r].results},
                  touched |-> Targets(Playbooks[run[r].pb]), lost |-> FALSE]}
    BY <1>4, Stepping
  <2>2. Len(run'[r].results) = Len(run[r].results) + 1 /\ Len(run[r].results) \in Nat
    BY <2>1, Appended DEF IsRun
  <2>3. run'[r] # Rest
    BY <2>1 DEF IsRun, Rest
  <2>4. ASSUME NEW e \in effects, NEW q \in Responders, run[q] # Rest, run[q].id = e.id,
               e.step <= Len(run[q].results)
        PROVE  run'[q] # Rest /\ run'[q].id = e.id /\ e.step <= Len(run'[q].results)
    <3>1. CASE q # r
      BY <2>1, <2>4, <3>1
    <3>2. CASE q = r
      <4>1. e.step \in Nat
        BY DEF ShapeInv, IsEffect
      <4> QED
        BY <2>1, <2>2, <2>3, <2>4, <3>2, <4>1
    <3> QED
      BY <3>1, <3>2
  <2>5. ASSUME NEW e \in effects', e \notin effects
        PROVE  run'[r] # Rest /\ run'[r].id = e.id /\ e.step <= Len(run'[r].results)
    <3>1. e.id = run[r].id /\ e.step = Len(run[r].results) + 1
      BY <2>1, <2>5
    <3> QED
      BY <2>1, <2>2, <2>3, <3>1
  <2> QED
    BY <1>a, <2>4, <2>5 DEF RecordInv, Rest
<1>5. ASSUME NEW r \in Responders, Persist(r) \/ ResponderDies(r) PROVE RecordInv'
  <2>1. /\ run[r] # Rest /\ run'[r] = Rest
        /\ \A q \in Responders : q # r => run'[q] = run[q]
        /\ \/ effects' = Untold(run[r].id)
           \/ /\ effects' = effects
              /\ [id |-> run[r].id, steps |-> Len(run[r].results)] \in case'.runs
    BY <1>5, Ending
  <2>2. CASE effects' = effects /\ [id |-> run[r].id, steps |-> Len(run[r].results)] \in case'.runs
    <3>1. IsRun(run[r]) /\ Len(run[r].results) \in Nat
      BY <2>1, Appended DEF ShapeInv, IsRun
    <3>2. ASSUME NEW e \in effects, NEW q \in Responders, run[q] # Rest, run[q].id = e.id,
                 e.step <= Len(run[q].results)
          PROVE  \/ \E x \in case'.runs : x.id = e.id /\ x.steps >= e.step
                 \/ run'[q] # Rest /\ run'[q].id = e.id /\ e.step <= Len(run'[q].results)
      <4>1. CASE q # r
        BY <2>1, <3>2, <4>1
      <4>2. CASE q = r
        <5> DEFINE x == [id |-> run[r].id, steps |-> Len(run[r].results)]
        <5>1. e.step \in Nat
          BY DEF ShapeInv, IsEffect
        <5>2. x \in case'.runs /\ x.id = e.id /\ x.steps >= e.step
          BY <2>2, <3>1, <3>2, <4>2, <5>1
        <5> QED
          BY <5>2
      <4> QED
        BY <4>1, <4>2
    <3> QED
      BY <1>a, <2>2, <3>2 DEF RecordInv, Rest
  <2>3. CASE effects' = Untold(run[r].id)
    <3>1. ASSUME NEW e \in effects'
          PROVE  \/ e.lost
                 \/ \E x \in case'.runs : x.id = e.id /\ x.steps >= e.step
                 \/ \E q \in Responders : run'[q] # Rest /\ run'[q].id = e.id /\ e.step <= Len(run'[q].results)
      <4>1. PICK d \in effects : e.id = d.id /\ IF d.id = run[r].id THEN e.lost ELSE e = d
        BY <2>3, <3>1, UntoldShape
      <4>2. CASE d.id = run[r].id
        BY <4>1, <4>2
      <4>3. CASE d.id # run[r].id
        <5>1. e = d
          BY <4>1, <4>3
        <5>2. ASSUME NEW q \in Responders, run[q] # Rest, run[q].id = d.id PROVE q # r /\ run'[q] = run[q]
          BY <2>1, <4>3, <5>2
        <5> QED
          BY <1>a, <5>1, <5>2 DEF RecordInv
      <4> QED
        BY <4>2, <4>3
    <3> QED
      BY <3>1 DEF RecordInv, Rest
  <2> QED
    BY <2>1, <2>2, <2>3
<1> QED
  BY <1>1, <1>2, <1>3, <1>4, <1>5, RunsApart

\* A step that ran, also one that failed, is on the case, or its run is still at work, or died,
\* or could not write.
THEOREM ExecutionRecorded == Spec => []ExecutionIsOnRecord
<1> DEFINE Inv == ShapeInv /\ OpeningInv /\ RouterInv /\ RecordInv
<1>1. Init => Inv
  BY ShapeInit, RouterInit, RecordInit
<1>2. Inv /\ [Next]_vars => Inv'
  BY ShapeStep, OpeningStep, RouterStep, RecordStep
<1>3. Inv => ExecutionIsOnRecord
  BY DEF ShapeInv, RecordInv, IsRun, Rest, ExecutionIsOnRecord
<1> QED
  BY <1>1, <1>2, <1>3, PTL DEF Spec

----------------------------------------------------------------------------
\* Sums over a finite set.

\* Induction over a finite set, said of a set of subsets in place of a predicate: one that
\* holds the empty set and, with each subset, whatever one more element makes of it, holds all.
LEMMA SubsetInduction ==
  ASSUME NEW S, IsFiniteSet(S), NEW F,
         \A s \in SUBSET S : (\A t \in SUBSET s : t # s => t \in F) => s \in F
  PROVE  \A s \in SUBSET S : s \in F
<1> DEFINE Bad == {s \in SUBSET S : s \notin F}
<1>1. SUFFICES ASSUME Bad # {} PROVE FALSE
  OBVIOUS
<1>2. FiniteSubsetsOf(S) = SUBSET S
  BY FS_FiniteSubsetsOfFinite
<1>3. IsWellFoundedOn(StrictSubsetOrdering(S), FiniteSubsetsOf(S)) /\ Bad \subseteq FiniteSubsetsOf(S)
  BY <1>2, FS_StrictSubsetOrderingWellFounded
<1> HIDE DEF Bad
<1>4. PICK s \in Bad : \A t \in Bad : ~ (<<t, s>> \in StrictSubsetOrdering(S))
  BY <1>1, <1>3, WFMin
<1> USE DEF Bad
<1>5. ASSUME NEW t \in SUBSET s, t # s PROVE t \in F
  BY <1>4, <1>5 DEF StrictSubsetOrdering
<1> QED
  BY <1>4, <1>5

Pick(s) == CHOOSE x \in s : TRUE

\* g is the running sum of f over the subsets of S that are among `upto`.
Adds(g, f, upto) ==
  \A s \in upto : g[s] = IF s = {} THEN 0 ELSE f[Pick(s)] + g[s \ {Pick(s)}]

\* The function of the library's definition.
IsFold(g, f, S) == g = [s \in SUBSET S |-> IF s = {} THEN 0 ELSE f[Pick(s)] + g[s \ {Pick(s)}]]

LEMMA Picked == ASSUME NEW s, s # {} PROVE Pick(s) \in s
BY DEF Pick

\* A set of numbers has a least one.
LEMMA Least ==
  ASSUME NEW T \in SUBSET Nat, T # {}
  PROVE  \E t \in T : \A u \in T : t <= u
<1>1. PICK t \in T : \A u \in T : ~ (<<u, t>> \in OpToRel(<, Nat))
  BY WFMin, NatLessThanWellFounded
<1>2. \A u \in T : ~ (u < t)
  BY <1>1 DEF OpToRel
<1>3. \A u \in T : t <= u
  BY <1>2
<1> QED
  BY <1>3

\* There is a running sum.
LEMMA SumsExist ==
  ASSUME NEW f, NEW S, IsFiniteSet(S)
  PROVE  \E g : IsFold(g, f, S)
<1> DEFINE Upto(n) == {s \in SUBSET S : Cardinality(s) <= n}
           Good == {n \in Nat : \E g : DOMAIN g = SUBSET S /\ g = [s \in SUBSET S |-> g[s]] /\ Adds(g, f, Upto(n))}
           Bad == Nat \ Good
<1>a. \A s \in SUBSET S : IsFiniteSet(s) /\ Cardinality(s) \in Nat /\ Cardinality(s) <= Cardinality(S)
  BY FS_Subset, FS_CardinalityType
<1>b. \A s \in SUBSET S : s # {} => /\ s \ {Pick(s)} \in SUBSET S
                                    /\ Cardinality(s \ {Pick(s)}) = Cardinality(s) - 1
  <2> TAKE s \in SUBSET S
  <2> HAVE s # {}
  <2> QED
    BY <1>a, Picked, FS_RemoveElement
<1>1. 0 \in Good
  <2> DEFINE g == [s \in SUBSET S |-> 0]
  <2>1. \A s \in Upto(0) : s = {}
    BY <1>a, FS_EmptySet
  <2>2. Adds(g, f, Upto(0))
    BY <2>1 DEF Adds
  <2>3. DOMAIN g = SUBSET S /\ g = [s \in SUBSET S |-> g[s]]
    OBVIOUS
  <2> QED
    BY <2>2, <2>3
<1>2. ASSUME NEW n \in Good PROVE n + 1 \in Good
  <2>1. PICK g : DOMAIN g = SUBSET S /\ Adds(g, f, Upto(n))
    OBVIOUS
  <2> DEFINE h == [s \in SUBSET S |-> IF s = {} THEN 0 ELSE f[Pick(s)] + g[s \ {Pick(s)}]]
  <2>2. \A s \in Upto(n) : h[s] = g[s]
    BY <2>1 DEF Adds
  <2>3. Adds(h, f, Upto(n + 1))
    <3> SUFFICES ASSUME NEW s \in Upto(n + 1), s # {}
                 PROVE  h[s] = f[Pick(s)] + h[s \ {Pick(s)}]
      BY DEF Adds
    <3>1. s \ {Pick(s)} \in Upto(n)
      BY <1>a, <1>b
    <3> QED
      BY <2>2, <3>1
  <2>4. DOMAIN h = SUBSET S /\ h = [s \in SUBSET S |-> h[s]]
    OBVIOUS
  <2> HIDE DEF h, Upto
  <2>5. n + 1 \in Nat
    OBVIOUS
  <2> QED
    BY <2>3, <2>4, <2>5
<1>3. Cardinality(S) \in Good
  <2> SUFFICES ASSUME Bad # {} PROVE FALSE
    BY <1>a
  <2> HIDE DEF Good
  <2>1. PICK n \in Bad : \A k \in Bad : n <= k
    <3> HIDE DEF Bad
    <3>1. Bad \in SUBSET Nat
      BY DEF Bad
    <3> QED
      BY <3>1, Least
  <2>2. n # 0 /\ n \in Nat /\ n - 1 \in Nat
    BY <1>1
  <2>3. n - 1 \in Good
    BY <2>1, <2>2
  <2> QED
    BY <1>2, <2>2, <2>3
<1>4. PICK g : /\ DOMAIN g = SUBSET S /\ g = [s \in SUBSET S |-> g[s]]
               /\ Adds(g, f, Upto(Cardinality(S)))
  BY <1>3
<1>5. g = [s \in SUBSET S |-> IF s = {} THEN 0 ELSE f[Pick(s)] + g[s \ {Pick(s)}]]
  BY <1>4, <1>a DEF Adds
<1> QED
  BY <1>5 DEF IsFold

Running(f, S) == CHOOSE g : IsFold(g, f, S)

\* The sum of the library is the end of the running sum, which adds what is picked.
LEMMA SumIsRunning ==
  ASSUME NEW f, NEW S, IsFiniteSet(S)
  PROVE  /\ SumFunctionOnSet(f, S) = Running(f, S)[S]
         /\ Adds(Running(f, S), f, SUBSET S)
<1>1. SumFunctionOnSet(f, S) = Running(f, S)[S]
  BY DEF SumFunctionOnSet, FoldFunctionOnSet, MapThenFoldSet, Running, IsFold, Pick
<1>2. IsFold(Running(f, S), f, S)
  BY SumsExist DEF Running
<1>3. ASSUME NEW g, IsFold(g, f, S) PROVE Adds(g, f, SUBSET S)
  BY <1>3 DEF IsFold, Adds
<1> QED
  BY <1>1, <1>2, <1>3

\* Nothing adds up to nothing, and the sum of a set is what is picked and the sum of the rest.
LEMMA SumPicked ==
  ASSUME NEW f, NEW S, IsFiniteSet(S)
  PROVE  SumFunctionOnSet(f, S) =
           IF S = {} THEN 0 ELSE f[Pick(S)] + SumFunctionOnSet(f, S \ {Pick(S)})
<1>1. CASE S = {}
  BY <1>1, SumIsRunning DEF Adds
<1>2. CASE S # {}
  <2> DEFINE T == S \ {Pick(S)}
             F == {s \in SUBSET T : Running(f, T)[s] = Running(f, S)[s]}
  <2>1. IsFiniteSet(T) /\ T \subseteq S
    BY FS_Subset
  <2>2. \A s \in SUBSET T : Running(f, T)[s] = IF s = {} THEN 0 ELSE f[Pick(s)] + Running(f, T)[s \ {Pick(s)}]
    BY <2>1, SumIsRunning DEF Adds
  <2>3. \A s \in SUBSET T : Running(f, S)[s] = IF s = {} THEN 0 ELSE f[Pick(s)] + Running(f, S)[s \ {Pick(s)}]
    <3>1. Adds(Running(f, S), f, SUBSET S)
      BY SumIsRunning
    <3> QED
      BY <2>1, <3>1 DEF Adds
  <2> HIDE DEF T
  <2>4. ASSUME NEW s \in SUBSET T, \A t \in SUBSET s : t # s => t \in F PROVE s \in F
    <3>1. CASE s = {}
      BY <2>2, <2>3, <3>1
    <3>2. CASE s # {}
      <4>1. s \ {Pick(s)} \in SUBSET s /\ s \ {Pick(s)} # s
        BY <3>2, Picked
      <4>2. Running(f, T)[s \ {Pick(s)}] = Running(f, S)[s \ {Pick(s)}]
        BY <2>4, <4>1
      <4> QED
        BY <2>2, <2>3, <3>2, <4>2
    <3> QED
      BY <3>1, <3>2
  <2>5. T \in F
    <3> HIDE DEF F
    <3> QED
      BY <2>1, <2>4, SubsetInduction
  <2>6. SumFunctionOnSet(f, T) = Running(f, S)[T]
    BY <2>1, <2>5, SumIsRunning
  <2> QED
    BY <1>2, <2>6, SumIsRunning DEF T, Adds
<1> QED
  BY <1>1, <1>2

\* A sum of numbers is a number, and any element may be the one that is added last.
LEMMA SumRemoved ==
  ASSUME NEW S, IsFiniteSet(S), NEW f, \A x \in S : f[x] \in Nat
  PROVE  /\ SumFunctionOnSet(f, S) \in Nat
         /\ \A x \in S : SumFunctionOnSet(f, S) = f[x] + SumFunctionOnSet(f, S \ {x})
<1> DEFINE Sum(s) == SumFunctionOnSet(f, s)
           F == {s \in SUBSET S : Sum(s) \in Nat /\ \A x \in s : Sum(s) = f[x] + Sum(s \ {x})}
<1>1. ASSUME NEW s \in SUBSET S, \A t \in SUBSET s : t # s => t \in F PROVE s \in F
  <2>1. IsFiniteSet(s)
    BY FS_Subset
  <2>2. CASE s = {}
    <3>1. Sum({}) = 0
      BY <2>1, <2>2, SumPicked
    <3> HIDE DEF Sum
    <3> QED
      BY <2>2, <3>1
  <2>3. CASE s # {}
    <3> DEFINE y == Pick(s)
               t == s \ {y}
    <3>1. y \in s /\ t \in SUBSET s /\ t # s
      BY <2>3, Picked
    <3>2. Sum(s) = f[y] + Sum(t)
      BY <2>1, <2>3, SumPicked
    <3> HIDE DEF y, t, Sum
    <3>3. Sum(t) \in Nat /\ (\A x \in t : Sum(t) = f[x] + Sum(t \ {x}))
      BY <1>1, <3>1
    <3>4. Sum(s) \in Nat
      BY <3>1, <3>2, <3>3
    <3>5. ASSUME NEW x \in s PROVE Sum(s) = f[x] + Sum(s \ {x})
      <4>1. CASE x = y
        BY <3>2, <4>1 DEF t
      <4>2. CASE x # y
        <5> DEFINE u == s \ {x}
        <5>1. u \in SUBSET s /\ u # s /\ y \in u /\ u \ {y} = t \ {x} /\ x \in t
          BY <3>1, <4>2 DEF t
        <5>2. Sum(u) = f[y] + Sum(u \ {y}) /\ u \ {y} \in SUBSET s /\ u \ {y} # s
          BY <1>1, <5>1
        <5>3. Sum(t) = f[x] + Sum(t \ {x}) /\ Sum(u \ {y}) \in Nat /\ f[x] \in Nat /\ f[y] \in Nat
          BY <1>1, <3>1, <3>3, <5>1, <5>2
        <5> HIDE DEF u
        <5> QED
          BY <3>2, <5>1, <5>2, <5>3 DEF u
      <4> QED
        BY <4>1, <4>2
    <3> QED
      BY <3>4, <3>5 DEF Sum
  <2> QED
    BY <2>2, <2>3
<1>2. S \in F
  <2> HIDE DEF F
  <2> QED
    BY <1>1, SubsetInduction
<1> QED
  BY <1>2

\* The more is added, the more it is.
LEMMA SumGrows ==
  ASSUME NEW S, IsFiniteSet(S), NEW f, \A x \in S : f[x] \in Nat
  PROVE  \A t \in SUBSET S : SumFunctionOnSet(f, t) <= SumFunctionOnSet(f, S)
<1> DEFINE Sum(s) == SumFunctionOnSet(f, s)
           F == {s \in SUBSET S : \A t \in SUBSET s : Sum(t) <= Sum(s)}
<1>1. ASSUME NEW s \in SUBSET S, \A t \in SUBSET s : t # s => t \in F PROVE s \in F
  <2>1. IsFiniteSet(s) /\ \A t \in SUBSET s : IsFiniteSet(t) /\ \A x \in t : f[x] \in Nat
    BY FS_Subset
  <2>2. \A t \in SUBSET s : Sum(t) \in Nat
    BY <2>1, SumRemoved
  <2>3. ASSUME NEW t \in SUBSET s, t # s PROVE Sum(t) <= Sum(s)
    <3>1. PICK x \in s : x \notin t
      BY <2>3
    <3>2. Sum(s) = f[x] + Sum(s \ {x})
      BY <2>1, SumRemoved
    <3> HIDE DEF Sum
    <3>3. t \in SUBSET (s \ {x}) /\ s \ {x} # s /\ s \ {x} \in SUBSET s
      BY <3>1
    <3>4. Sum(t) <= Sum(s \ {x})
      BY <1>1, <3>3
    <3> QED
      BY <2>2, <3>2, <3>3, <3>4
  <2> QED
    BY <2>2, <2>3
<1>2. S \in F
  <2> HIDE DEF F
  <2> QED
    BY <1>1, SubsetInduction
<1> QED
  BY <1>2

----------------------------------------------------------------------------
\* What the evidence weighs.

LEMMA SourcesAreFinite == IsFiniteSet(Range(Sources))
<1> DEFINE All == {"http", "dns", "winsec", "suricata", "live_scan", "live_threat", "live_brute", "live_http", "live_net"}
           D == 1..Len(Sources)
<1>1. Sources \in Seq(All)
  <2>1. LiveSources \in Seq(All)
    BY DEF LiveSources
  <2>2. <<"http", "dns", "winsec", "suricata">> \in Seq(All)
    OBVIOUS
  <2> HIDE DEF All
  <2> QED
    BY <2>1, <2>2, ConcatProperties DEF Sources
<1>2. IsFiniteSet(D) /\ Sources \in [D -> All]
  BY <1>1, FS_Interval, LenProperties
<1> HIDE DEF D
<1>3. Sources \in Surjection(D, Range(Sources))
  BY <1>2 DEF Surjection, Range
<1> QED
  BY <1>2, <1>3, FS_Surjection DEF ExistsSurjection

\* What a source counts for is a number, and what it is worth is one more and its magnitude,
\* of context a fifth.
LEMMA Magnitudes ==
  ASSUME volume \in Volumes, NEW s \in Correlated
  PROVE  /\ Magnitude[s] \in Nat /\ Worth[s] \in Nat
         /\ s \in Context => 5 * Worth[s] = 500 + Magnitude[s]
         /\ s \notin Context => Worth[s] = 100 + Magnitude[s]
<1> DEFINE n == Log10(volume[s])
<1>1. s \in Range(Sources) /\ volume[s] > 0
  BY DEF Correlated
<1>2. volume[s] \in {1, 10, 100, 1000}
  BY <1>1, SoarAssumption DEF Counts
<1>3. n \in Nat
  BY <1>2 DEF Log10
<1>4. Magnitude[s] = 100 * n /\ Worth[s] = 100 + (IF s \in Context THEN 20 ELSE 100) * n
  BY DEF Magnitude, Worth
<1> HIDE DEF n
<1>5. CASE s \in Context
  BY <1>3, <1>4, <1>5
<1>6. CASE s \notin Context
  BY <1>3, <1>4, <1>6
<1> QED
  BY <1>5, <1>6

\* The volume of a part of the evidence, its context by a fifth, and one for each source are
\* what the part is worth.
LEMMA PartsWeigh ==
  ASSUME volume \in Volumes, NEW seen \in SUBSET Correlated
  PROVE  /\ IsFiniteSet(seen)
         /\ Points(seen \ Context) \in Nat /\ Points(seen \cap Context) \in Nat
         /\ SumFunctionOnSet(Worth, seen) \in Nat
         /\ 5 * Points(seen \ Context) + Points(seen \cap Context) + 500 * Cardinality(seen)
              = 5 * SumFunctionOnSet(Worth, seen)
<1> DEFINE W(t) == SumFunctionOnSet(Worth, t)
           Adds5(t) == 5 * Points(t \ Context) + Points(t \cap Context) + 500 * Cardinality(t)
           F == {t \in SUBSET Correlated : Adds5(t) = 5 * W(t)}
<1>a. IsFiniteSet(Correlated)
  BY SourcesAreFinite, FS_Subset DEF Correlated
<1>b. ASSUME NEW t \in SUBSET Correlated
      PROVE  /\ IsFiniteSet(t) /\ Cardinality(t) \in Nat /\ W(t) \in Nat /\ Points(t) \in Nat
             /\ \A s \in t : W(t) = Worth[s] + W(t \ {s}) /\ Points(t) = Magnitude[s] + Points(t \ {s})
  <2>1. IsFiniteSet(t) /\ Cardinality(t) \in Nat
    BY <1>a, FS_Subset, FS_CardinalityType
  <2>2. \A s \in t : Magnitude[s] \in Nat /\ Worth[s] \in Nat
    BY Magnitudes
  <2> QED
    BY <2>1, <2>2, SumRemoved DEF Points
<1>1. ASSUME NEW t \in SUBSET Correlated, \A u \in SUBSET t : u # t => u \in F PROVE t \in F
  <2>1. CASE t = {}
    <3>1. Cardinality({}) = 0 /\ W({}) = 0 /\ Points({}) = 0
      BY FS_EmptySet, SumPicked DEF Points
    <3>2. {} \ Context = {} /\ {} \cap Context = {}
      OBVIOUS
    <3> HIDE DEF W
    <3> QED
      BY <2>1, <3>1, <3>2
  <2>2. CASE t # {}
    <3>1. PICK s \in t : TRUE
      BY <2>2
    <3> DEFINE u == t \ {s}
    <3>2. u \in SUBSET t /\ u # t /\ u \in SUBSET Correlated
      BY <3>1
    <3>3. Adds5(u) = 5 * W(u)
      BY <1>1, <3>2
    <3>4. W(t) = Worth[s] + W(u) /\ W(u) \in Nat
      BY <1>b, <3>2
    <3>5. Cardinality(t) = Cardinality(u) + 1 /\ Cardinality(u) \in Nat
      BY <1>b, FS_RemoveElement
    <3>6. Points(u \ Context) \in Nat /\ Points(u \cap Context) \in Nat
      BY <1>b, <3>2
    <3>7. /\ Magnitude[s] \in Nat /\ Worth[s] \in Nat
          /\ s \in Context => 5 * Worth[s] = 500 + Magnitude[s]
          /\ s \notin Context => Worth[s] = 100 + Magnitude[s]
      BY Magnitudes
    <3>8. CASE s \in Context
      <4>1. t \ Context = u \ Context /\ (t \cap Context) \ {s} = u \cap Context /\ s \in t \cap Context
        BY <3>8
      <4>2. Points(t \cap Context) = Magnitude[s] + Points(u \cap Context)
        <5>1. t \cap Context \in SUBSET Correlated
          OBVIOUS
        <5> QED
          BY <1>b, <4>1, <5>1
      <4>3. Points(t \ Context) = Points(u \ Context)
        BY <4>1
      <4> HIDE DEF u, W
      <4>4. 5 * Points(t \ Context) + Points(t \cap Context) + 500 * Cardinality(t) = 5 * W(t)
        BY <3>3, <3>4, <3>5, <3>6, <3>7, <3>8, <4>2, <4>3
      <4> QED
        BY <4>4
    <3>9. CASE s \notin Context
      <4>1. t \cap Context = u \cap Context /\ (t \ Context) \ {s} = u \ Context /\ s \in t \ Context
        BY <3>9
      <4>2. Points(t \ Context) = Magnitude[s] + Points(u \ Context)
        <5>1. t \ Context \in SUBSET Correlated
          OBVIOUS
        <5> QED
          BY <1>b, <4>1, <5>1
      <4>3. Points(t \cap Context) = Points(u \cap Context)
        BY <4>1
      <4> HIDE DEF u, W
      <4>4. 5 * Points(t \ Context) + Points(t \cap Context) + 500 * Cardinality(t) = 5 * W(t)
        BY <3>3, <3>4, <3>5, <3>6, <3>7, <3>9, <4>2, <4>3
      <4> QED
        BY <4>4
    <3> QED
      BY <3>8, <3>9
  <2> QED
    BY <2>1, <2>2
<1>2. \A t \in SUBSET Correlated : t \in F
  <2> HIDE DEF F
  <2> QED
    BY <1>a, <1>1, SubsetInduction
<1>3. seen \ Context \in SUBSET Correlated /\ seen \cap Context \in SUBSET Correlated
  OBVIOUS
<1> QED
  BY <1>b, <1>2, <1>3

LEMMA Lesser == ASSUME NEW a \in Nat PROVE Min({a, 100}) \in Nat /\ Min({a, 100}) <= a
BY DEF Min

\* All the evidence is worth one more than what a part of it counts for.
LEMMA SeverityIsWorth ==
  ASSUME volume \in Volumes, NEW seen \in SUBSET Correlated, seen # {}
  PROVE  /\ Severity(seen) \in Int /\ SumFunctionOnSet(Worth, Correlated) \in Nat
         /\ Severity(seen) + 100 <= SumFunctionOnSet(Worth, Correlated)
<1> DEFINE worth == SumFunctionOnSet(Worth, Correlated)
           part == SumFunctionOnSet(Worth, seen)
           p == Points(seen \ Context)
           c == Points(seen \cap Context)
           nudge == Min({c \div 5, 100})
<1>1. /\ p \in Nat /\ c \in Nat /\ part \in Nat /\ Cardinality(seen) \in Nat
      /\ 5 * p + c + 500 * Cardinality(seen) = 5 * part
  BY PartsWeigh, FS_CardinalityType
<1>2. worth \in Nat /\ part <= worth
  <2>1. IsFiniteSet(Correlated) /\ worth \in Nat
    BY PartsWeigh
  <2>2. \A s \in Correlated : Worth[s] \in Nat
    BY Magnitudes
  <2> QED
    BY <2>1, <2>2, SumGrows
<1>3. Severity(seen) = p + nudge + 100 * (Cardinality(seen) - 1)
  BY DEF Severity
<1> HIDE DEF p, c, part, worth
<1>4. c \div 5 \in Nat /\ 5 * (c \div 5) <= c
  BY <1>1
<1>5. nudge \in Nat /\ nudge <= c \div 5
  BY <1>4, Lesser
<1> HIDE DEF nudge
<1>6. p + nudge + 100 * (Cardinality(seen) - 1) + 100 <= part
  BY <1>1, <1>4, <1>5
<1>7. Severity(seen) \in Int /\ Severity(seen) + 100 <= part
  BY <1>1, <1>3, <1>5, <1>6
<1> QED
  BY <1>1, <1>2, <1>7 DEF worth

----------------------------------------------------------------------------
\* What the providers say.

LEMMA Ordered ==
  ASSUME NEW S, IsFiniteSet(S)
  PROVE  SetToSeq(S) \in Seq(S)
<1> DEFINE n == Cardinality(S)
           Orders(f) == f \in [1..n -> S] /\ IsInjective(f)
<1>1. n \in Nat /\ ExistsBijection(1..n, S)
  BY FS_CardinalityType
<1>2. \E f : Orders(f)
  BY <1>1 DEF ExistsBijection, Bijection, Injection
<1>3. SetToSeq(S) = CHOOSE f \in [1..n -> S] : IsInjective(f)
  BY DEF SetToSeq
<1>4. SetToSeq(S) \in [1..n -> S]
  BY <1>2, <1>3
<1> QED
  BY <1>1, <1>4, SeqDef

\* What is extracted from an alert is observables.
LEMMA ExtractedAreObservables ==
  ASSUME alert \in Alerts
  PROVE  Range(Extracted) \subseteq Observables
<1> DEFINE fields == alert.fields
           text == alert.text \ alert.fields
<1>1. fields \subseteq Observables /\ text \subseteq Observables
  BY SoarAssumption
<1> HIDE DEF fields, text
<1>2. ASSUME NEW from \in SUBSET Observables, NEW type PROVE OfType(type, from) \in Seq(Observables)
  <2> DEFINE S == {o \in from : TypeOf[o] = type}
  <2>1. IsFiniteSet(S) /\ S \subseteq Observables
    BY SoarAssumption, FS_Subset
  <2> HIDE DEF S
  <2>2. SetToSeq(S) \in Seq(Observables)
    BY <2>1, Ordered, SeqMonotonic
  <2> QED
    BY <2>2 DEF OfType, S
<1>3. \A type : OfType(type, fields) \in Seq(Observables) /\ OfType(type, text) \in Seq(Observables)
  BY <1>1, <1>2
<1>4. \A q, t \in Seq(Observables) : q \o t \in Seq(Observables)
  BY ConcatProperties
<1>5. Extracted \in Seq(Observables)
  <2>1. Extracted =
          OfType("ip", fields) \o OfType("domain", fields) \o OfType("hash", fields) \o OfType("url", fields)
          \o OfType("hash", text) \o OfType("ip", text) \o OfType("domain", text)
    BY DEF Extracted, fields, text
  <2> QED
    BY <1>3, <1>4, <2>1
<1>6. \A i \in DOMAIN Extracted : Extracted[i] \in Observables
  BY <1>5, LenProperties, ElementOfSeq
<1> QED
  BY <1>6 DEF Range

LEMMA Joined == ASSUME NEW a, NEW b PROVE <<a>> \o <<b>> = <<a, b>>
<1> DEFINE S == {a, b}
<1>1. <<a>> \in Seq(S) /\ <<b>> \in Seq(S) /\ <<a, b>> \in Seq(S)
  OBVIOUS
<1>2. <<a>> \o <<b>> \in Seq(S) /\ Len(<<a>> \o <<b>>) = 2
      /\ \A i \in 1..2 : (<<a>> \o <<b>>)[i] = IF i <= 1 THEN <<a>>[i] ELSE <<b>>[i - 1]
  <2> HIDE DEF S
  <2> QED
    BY <1>1, ConcatProperties
<1>3. \A i \in 1..2 : (<<a>> \o <<b>>)[i] = <<a, b>>[i]
  BY <1>2
<1> HIDE DEF S
<1> QED
  BY <1>1, <1>2, <1>3, SeqEqual

\* Whoever is asked of an observable is asked alone, or with OTX after it.
LEMMA LastProvider ==
  ASSUME NEW o, ProvidersFor(o) # <<>>
  PROVE  /\ Last(ProvidersFor(o)) \in Range(ProvidersFor(o))
         /\ Last(ProvidersFor(o)) = "otx" \/ Range(ProvidersFor(o)) = {Last(ProvidersFor(o))}
<1> DEFINE q == ProvidersFor(o)
<1>a. /\ Keyed("otx") = <<"otx">> \/ Keyed("otx") = <<>>
      /\ Keyed("virustotal") = <<"virustotal">> \/ Keyed("virustotal") = <<>>
  BY DEF Keyed
<1>b. \/ q = <<"greynoise">> \o Keyed("otx")
      \/ q = Keyed("virustotal") \o Keyed("otx")
  BY DEF ProvidersFor
<1>c. q # <<>>
  OBVIOUS
<1>d. /\ <<"greynoise">> \o <<"otx">> = <<"greynoise", "otx">> /\ <<"greynoise">> \o <<>> = <<"greynoise">>
      /\ <<"virustotal">> \o <<"otx">> = <<"virustotal", "otx">> /\ <<"virustotal">> \o <<>> = <<"virustotal">>
      /\ <<>> \o <<"otx">> = <<"otx">> /\ <<>> \o <<>> = <<>>
  BY Joined
<1> HIDE DEF q
<1>1. \/ q = <<"greynoise">> \/ q = <<"virustotal">> \/ q = <<"otx">>
      \/ q = <<"greynoise", "otx">> \/ q = <<"virustotal", "otx">>
  BY <1>a, <1>b, <1>c, <1>d
<1> HIDE DEF q
<1>2. ASSUME NEW p, q = <<p>> PROVE Last(q) = p /\ Range(q) = {p}
  BY <1>2 DEF Last, Range
<1>3. ASSUME NEW p, q = <<p, "otx">> PROVE Last(q) = "otx" /\ Range(q) = {p, "otx"}
  BY <1>3 DEF Last, Range
<1> QED
  BY <1>1, <1>2, <1>3 DEF q

\* OTX never says "benign", and what could not be looked up is "unknown": a benign verdict is
\* that of everybody who was asked.
LEMMA BenignIsSaid ==
  ASSUME truth \in Truths, NEW o \in Observables, NEW failed, Enriched(o, failed) = "benign"
  PROVE  \A p \in Range(ProvidersFor(o)) : truth[o][p] = "benign"
<1> DEFINE last == Last(ProvidersFor(o))
<1>1. ProvidersFor(o) # <<>> /\ Lookup(o, last, failed) = "benign"
  BY DEF Enriched
<1>2. truth[o][last] = "benign"
  BY <1>1 DEF Lookup
<1>3. truth[o].otx # "benign"
  BY SoarAssumption DEF OtxSays
<1> HIDE DEF last
<1>4. last # "otx"
  BY <1>2, <1>3
<1> QED
  BY <1>1, <1>2, <1>4, LastProvider DEF last

----------------------------------------------------------------------------
\* The evidence on the case.

WorldInv == alert \in Alerts /\ truth \in Truths /\ volume \in Volumes

\* What was found is part of what there was to find.
Found(inv) == \E seen \in SUBSET Correlated : seen # {} /\ inv = Investigation(seen)

\* What a copy of the case says of the observables is what the lookups made of the providers'
\* answers, if it says anything; and its techniques are the alert's.
Said(c) ==
  /\ c.enriched = <<>> \/ \E failed : c.enriched = [o \in Range(Extracted) |-> Enriched(o, failed)]
  /\ c.techniques => alert.techniques

\* The copy that is going to be written back has the evidence of the case.
EvidenceInv ==
  /\ \A inv \in case.inv : Found(inv)
  /\ Said(case)
  /\ sweep.pc = "recommend" => sweep.copy.inv = case.inv /\ Said(sweep.copy)

\* Before there is a ticket no sweep looks at the case.
UnseenInv == mint \in {"open", "investigate", "verdict", "escalate"} => ticket = "none" /\ sweep.pc = "rest"

Ground == IF case.inv # {} THEN Warranted ELSE KnownBad \/ Heuristic

\* An approval that is about to be answered or recorded has a ground.
GroundInv ==
  /\ sweep.pc \notin {"rest", "decide"} /\ sweep.decision = "approve" => Ground
  /\ sweep.pc \in {"reread", "recommend"} => sweep.decision = "approve"

LEMMA EvidenceInit == Init => WorldInv /\ EvidenceInv /\ UnseenInv /\ GroundInv
BY DEF Init, WorldInv, EvidenceInv, UnseenInv, GroundInv, Said, NoCase, Rest

LEMMA UnseenStep == ShapeInv /\ OpeningInv /\ UnseenInv /\ [Next]_vars => UnseenInv'
<1> SUFFICES ASSUME ShapeInv, OpeningInv, UnseenInv, Next \/ UNCHANGED vars,
                    mint' \in {"open", "investigate", "verdict", "escalate"}
             PROVE  ticket' = "none" /\ sweep'.pc = "rest"
  BY DEF UnseenInv
<1>1. CASE Open \/ Investigate \/ Classify \/ Escalate \/ MintDies \/ Respond
  BY <1>1 DEF Open, Investigate, Classify, Escalate, MintDies, Respond, UnseenInv
<1>a. ASSUME mint' = mint PROVE ticket = "none" /\ sweep.pc = "rest"
  BY <1>a DEF UnseenInv
<1>2. CASE SweepStep \/ SweepDies
  BY <1>2, <1>a DEF SweepStep, SweepDies, SweepRead, Judges, SweepDecide, SweepReread, SweepRecommend,
     SweepAnswer, SweepRecord
<1>3. CASE Start \/ \E r \in Responders : Step(r) \/ Persist(r) \/ ResponderDies(r)
  BY <1>3, <1>a DEF Start, Step, Persist, ResponderDies
<1>4. CASE \/ \E v \in {"approve", "deny"} : Decide(v) \/ CloseNode(v)
           \/ Close \/ CloseStale \/ Overwrite \/ Fail
  BY <1>4, <1>a DEF Decide, CloseNode, Close, CloseStale, Overwrite, Fail
<1>5. CASE UNCHANGED vars
  BY <1>5, <1>a DEF vars
<1> QED
  BY <1>1, <1>2, <1>3, <1>4, <1>5 DEF Next

\* A copy that is read has the evidence of the case, or no enrichment and no techniques.
LEMMA CopySays ==
  ASSUME ShapeInv, EvidenceInv, NEW c \in {case, Rebuilt}
  PROVE  c.inv = case.inv /\ Said(c)
<1>1. CASE c = case
  BY <1>1 DEF EvidenceInv
<1>2. CASE c = Rebuilt
  <2>1. c.inv = case.inv /\ c.enriched = <<>> /\ c.techniques = FALSE
    BY <1>2 DEF Rebuilt, ShapeInv, NoCase
  <2> QED
    BY <2>1 DEF Said
<1> QED
  BY <1>1, <1>2

\* After the opening and the investigation the investigation stands, and the case says no more
\* than was said.
LEMMA EvidenceStays ==
  ASSUME ShapeInv, EvidenceInv, [Next]_vars, ~ Open, ~ Investigate
  PROVE  case'.inv = case.inv /\ \E c \in {case, Rebuilt, sweep.copy} :
            /\ Said(c)
            /\ case'.enriched = c.enriched /\ case'.techniques = c.techniques
<1> DEFINE Same == UNCHANGED <<case.inv, case.enriched, case.techniques>>
<1>a. DOMAIN case = {"status", "enriched", "inv", "verdict", "block", "techniques", "rec", "events", "runs",
                    "human", "raced", "hidden"}
  BY DEF ShapeInv, NoCase
<1>b. \A d : /\ Decided(d).inv = case.inv /\ Decided(d).enriched = case.enriched
             /\ Decided(d).techniques = case.techniques /\ DOMAIN Decided(d) = DOMAIN case
  BY <1>a DEF Decided
<1>f. ASSUME Same PROVE case'.inv = case.inv /\ \E c \in {case, Rebuilt, sweep.copy} :
            Said(c) /\ case'.enriched = c.enriched /\ case'.techniques = c.techniques
  BY <1>f DEF EvidenceInv
<1>0. CASE SweepRecommend
  <2>1. DOMAIN sweep.copy = DOMAIN NoCase /\ sweep.copy.inv = case.inv /\ Said(sweep.copy)
    BY <1>0 DEF SweepRecommend, ShapeInv, EvidenceInv
  <2>2. \/ case' = case
        \/ case' = [sweep.copy EXCEPT !.rec = sweep.rec, !.events = case.events, !.runs = case.runs,
                     !.human = case.human, !.raced = case.raced, !.hidden = @ \/ case.hidden]
    BY <1>0 DEF SweepRecommend
  <2>3. CASE case' = case
    BY <1>f, <2>3
  <2>4. CASE case' = [sweep.copy EXCEPT !.rec = sweep.rec, !.events = case.events, !.runs = case.runs,
                       !.human = case.human, !.raced = case.raced, !.hidden = @ \/ case.hidden]
    <3>1. /\ case'.inv = sweep.copy.inv /\ case'.enriched = sweep.copy.enriched
          /\ case'.techniques = sweep.copy.techniques
      BY <2>1, <2>4 DEF NoCase
    <3> QED
      BY <2>1, <3>1
  <2> QED
    BY <2>2, <2>3, <2>4
<1>9. CASE Overwrite
  <2>1. \/ case' = Rebuilt
        \/ case' = [case EXCEPT !.status = "open", !.block = "none", !.rec = NoPlaybook, !.hidden = TRUE]
    BY <1>9 DEF Overwrite
  <2>2. CASE case' = Rebuilt
    BY <2>2, CopySays
  <2>3. CASE case' = [case EXCEPT !.status = "open", !.block = "none", !.rec = NoPlaybook, !.hidden = TRUE]
    BY <1>a, <1>f, <2>3
  <2> QED
    BY <2>1, <2>2, <2>3
<1>1. CASE Classify \/ SweepRead \/ SweepRecord \/ Close \/ CloseStale
  <2>1. ASSUME Classify PROVE Same
    BY <1>a, <2>1 DEF Classify
  <2>2. ASSUME SweepRead PROVE Same
    <3>1. case' = case \/ \E h : case' = [case EXCEPT !.hidden = h]
      BY <2>2 DEF SweepRead, Judges
    <3> QED
      BY <1>a, <3>1
  <2>3. ASSUME SweepRecord PROVE Same
    BY <1>a, <2>3 DEF SweepRecord
  <2>4. ASSUME Close \/ CloseStale PROVE Same
    BY <1>a, <2>4 DEF Close, CloseStale
  <2>5. Same
    BY <1>1, <2>1, <2>2, <2>3, <2>4
  <2> QED
    BY <1>f, <2>5
<1>2. CASE SweepDecide \/ SweepAnswer
  <2>1. Same
    BY <1>b, <1>2 DEF SweepDecide, SweepAnswer
  <2> QED
    BY <1>f, <2>1
<1>3. ASSUME NEW v, Decide(v) \/ CloseNode(v) PROVE Same
  <2>1. case' = [Decided(v) EXCEPT !.human = v, !.raced = sweep.pc # "rest", !.hidden = FALSE]
    BY <1>3 DEF Decide, CloseNode
  <2> QED
    BY <1>a, <1>b, <2>1
<1>4. ASSUME NEW r \in Responders, Persist(r) PROVE Same
  <2>1. \/ UNCHANGED case
        \/ case' = [case EXCEPT !.runs = @ \cup {[id |-> run[r].id, steps |-> Len(run[r].results)]}]
    BY <1>4 DEF Persist
  <2> QED
    BY <1>a, <2>1
<1>5. CASE \/ Escalate \/ MintDies \/ SweepReread \/ SweepDies \/ Start \/ Respond \/ Fail
           \/ \E r \in Responders : Step(r) \/ ResponderDies(r)
  BY <1>5, <1>f DEF Escalate, MintDies, SweepReread, SweepDies, Start, Respond, Fail, Step, ResponderDies
<1>6. CASE UNCHANGED vars
  BY <1>6, <1>f DEF vars
<1> HIDE DEF Same
<1> QED
  BY <1>0, <1>1, <1>2, <1>3, <1>4, <1>5, <1>6, <1>9, <1>f DEF Next, SweepStep

\* What there is to find and to be said, and what it warrants, does not change.
LEMMA WorldWarrants ==
  ASSUME UNCHANGED world
  PROVE  /\ \A inv : Found(inv)' <=> Found(inv)
         /\ \A o, failed : Enriched(o, failed)' = Enriched(o, failed)
         /\ Range(Extracted)' = Range(Extracted) /\ alert' = alert
         /\ Warranted' <=> Warranted
         /\ KnownBad' <=> KnownBad
         /\ Heuristic' <=> Heuristic
<1>1. Correlated' = Correlated /\ Extracted' = Extracted
  BY DEF world, Correlated, Extracted
<1>2. \A o : ProvidersFor(o)' = ProvidersFor(o)
  BY DEF world, ProvidersFor, Keyed
<1>3. \A o : Throttled(o)' = Throttled(o)
  BY <1>1, <1>2 DEF Throttled, AsksVt
<1>4. \A seen : Investigation(seen)' = Investigation(seen)
  BY DEF world, Investigation, Severity, Points, Magnitude, Correlated
<1>5. \A inv : Found(inv)' <=> Found(inv)
  BY <1>1, <1>4 DEF Found
<1>6. \A o, failed : Enriched(o, failed)' = Enriched(o, failed)
  BY <1>2, <1>3 DEF world, Enriched, Lookup
<1>7. Asked' = Asked
  BY <1>1, <1>2 DEF Asked
<1>8. KnownBad' <=> KnownBad
  BY <1>7 DEF world, KnownBad
<1>9. Worth' = Worth
  BY DEF world, Worth, Correlated
<1>10. Warranted' <=> Warranted
  BY <1>1, <1>9 DEF Warranted
<1>11. Heuristic' <=> Heuristic
  BY DEF world, Heuristic
<1> QED
  BY <1>1, <1>5, <1>6, <1>8, <1>10, <1>11 DEF world

LEMMA EvidenceStep ==
  ShapeInv /\ OpeningInv /\ UnseenInv /\ WorldInv /\ EvidenceInv /\ [Next]_vars => WorldInv' /\ EvidenceInv'
<1> SUFFICES ASSUME ShapeInv, OpeningInv, UnseenInv, WorldInv, EvidenceInv, [Next]_vars
             PROVE  WorldInv' /\ EvidenceInv'
  OBVIOUS
<1>1. UNCHANGED world
  BY WorldStays
<1>2. WorldInv'
  BY <1>1 DEF world, WorldInv
<1>3. \A inv : Found(inv)' <=> Found(inv)
  BY <1>1, WorldWarrants
<1>4. ASSUME NEW c, NEW e, NEW t, e = c.enriched, t = c.techniques, Said(c)
      PROVE  /\ e = <<>> \/ \E failed : e = [o \in Range(Extracted)' |-> Enriched(o, failed)']
             /\ t => alert'.techniques
  <2>1. CASE e # <<>>
    <3>1. PICK failed : e = [o \in Range(Extracted) |-> Enriched(o, failed)]
      BY <1>4, <2>1 DEF Said
    <3>2. (\A o : Enriched(o, failed)' = Enriched(o, failed)) /\ Range(Extracted)' = Range(Extracted)
      BY <1>1, WorldWarrants
    <3>3. e = [o \in Range(Extracted)' |-> Enriched(o, failed)']
      BY <3>1, <3>2
    <3> QED
      BY <1>1, <1>4, <3>3 DEF Said, world
  <2>2. CASE e = <<>>
    BY <1>1, <1>4, <2>2 DEF Said, world
  <2> QED
    BY <2>1, <2>2
<1>5. ASSUME NEW c, Said(c), case'.enriched = c.enriched, case'.techniques = c.techniques PROVE Said(case)'
  <2>1. /\ case'.enriched = <<>> \/ \E failed : case'.enriched = [o \in Range(Extracted)' |-> Enriched(o, failed)']
        /\ case'.techniques => alert'.techniques
    BY <1>4, <1>5
  <2> QED
    BY <2>1 DEF Said
<1>6. ASSUME NEW c, Said(c), sweep'.copy = c PROVE Said(sweep.copy)'
  <2>1. /\ \/ sweep'.copy.enriched = <<>>
           \/ \E failed : sweep'.copy.enriched = [o \in Range(Extracted)' |-> Enriched(o, failed)']
        /\ sweep'.copy.techniques => alert'.techniques
    BY <1>4, <1>6
  <2> QED
    BY <2>1 DEF Said
<1>7. CASE Open
  <2>1. PICK failed : case' = [NoCase EXCEPT
                     !.status = IF alert.minter = "infra" THEN "decided" ELSE "open",
                     !.block = IF alert.minter = "infra" THEN "approve" ELSE "none",
                     !.techniques = alert.techniques,
                     !.enriched = IF alert.minter = "analyst"
                                  THEN [o \in Range(Extracted) |-> Enriched(o, failed)] ELSE <<>>]
    BY <1>7 DEF Open
  <2>2. /\ case'.inv = {} /\ case'.techniques = alert.techniques
        /\ case'.enriched = <<>> \/ case'.enriched = [o \in Range(Extracted) |-> Enriched(o, failed)]
    BY <2>1 DEF NoCase
  <2>3. Said(case')
    BY <2>2 DEF Said
  <2>4. Said(case)'
    BY <1>5, <2>3
  <2>5. sweep'.pc # "recommend"
    BY <1>7 DEF Open, UnseenInv
  <2> QED
    BY <1>2, <2>2, <2>4, <2>5 DEF EvidenceInv
<1>8. CASE Investigate
  <2>1. PICK seen \in SUBSET Correlated :
          case' = [case EXCEPT !.inv = IF seen = {} \/ alert.srcip = "" THEN @ ELSE {Investigation(seen)}]
    BY <1>8 DEF Investigate
  <2>2. /\ case'.enriched = case.enriched /\ case'.techniques = case.techniques
        /\ case'.inv = case.inv \/ (seen # {} /\ case'.inv = {Investigation(seen)})
    BY <2>1 DEF ShapeInv, NoCase
  <2>3. \A inv \in case'.inv : Found(inv)
    BY <2>1, <2>2 DEF Found, EvidenceInv
  <2>4. \A inv \in case'.inv : Found(inv)'
    BY <1>3, <2>3
  <2>5. Said(case)'
    BY <1>5, <2>2 DEF EvidenceInv
  <2>6. sweep'.pc # "recommend"
    BY <1>8 DEF Investigate, UnseenInv
  <2> QED
    BY <1>2, <2>4, <2>5, <2>6 DEF EvidenceInv
<1>9. CASE ~ Open /\ ~ Investigate
  <2>1. case'.inv = case.inv /\ \E c \in {case, Rebuilt, sweep.copy} :
            Said(c) /\ case'.enriched = c.enriched /\ case'.techniques = c.techniques
    BY <1>9, EvidenceStays
  <2>2. Said(case)'
    BY <1>5, <2>1
  <2>3. \A inv \in case'.inv : Found(inv)'
    BY <1>3, <2>1 DEF EvidenceInv
  <2>4. ASSUME sweep'.pc = "recommend" PROVE sweep'.copy.inv = case'.inv /\ Said(sweep.copy)'
    <3>1. CASE sweep' = sweep
      BY <1>6, <2>1, <2>4, <3>1 DEF EvidenceInv
    <3>2. ASSUME NEW c \in {case, Rebuilt}, sweep'.copy = c
          PROVE  sweep'.copy.inv = case'.inv /\ Said(sweep.copy)'
      BY <1>6, <2>1, <3>2, CopySays
    <3> QED
      BY <2>4, <3>1, <3>2, Copies
  <2> QED
    BY <1>2, <2>2, <2>3, <2>4 DEF EvidenceInv
<1> QED
  BY <1>7, <1>8, <1>9

LEMMA ApprovedIsWarranted ==
  ASSUME WorldInv, EvidenceInv, case.inv # {}, Evidenced = "approve"
  PROVE  Warranted
<1>1. PICK inv \in case.inv : inv.label = "high" \/ (inv.label = "medium" /\ Cardinality(inv.chain) >= 2)
  BY DEF Evidenced
<1>2. PICK seen \in SUBSET Correlated : seen # {} /\ inv = Investigation(seen)
  BY DEF EvidenceInv, Found
<1> DEFINE worth == SumFunctionOnSet(Worth, Correlated)
           stages == {StageOf(s) : s \in seen}
           all == {StageOf(s) : s \in Correlated}
<1>3. inv.label = Label(Severity(seen)) /\ inv.chain = stages
  BY <1>2 DEF Investigation
<1>4. Severity(seen) \in Int /\ worth \in Nat /\ Severity(seen) + 100 <= worth
  BY <1>2, SeverityIsWorth DEF WorldInv
<1> HIDE DEF worth
<1>5. CASE inv.label = "high"
  <2>1. Severity(seen) >= 400
    BY <1>3, <1>4, <1>5 DEF Label
  <2>2. worth >= 500
    BY <1>4, <2>1
  <2> QED
    BY <2>2 DEF Warranted, worth
<1>6. CASE inv.label = "medium" /\ Cardinality(inv.chain) >= 2
  <2>1. Severity(seen) >= 200
    BY <1>3, <1>4, <1>6 DEF Label
  <2>2. worth >= 300
    BY <1>4, <2>1
  <2>3. Cardinality(all) >= 2
    <3>1. IsFiniteSet(all)
      <4>1. IsFiniteSet(Correlated)
        BY SourcesAreFinite, FS_Subset DEF Correlated
      <4> DEFINE f == [s \in Correlated |-> StageOf(s)]
      <4>2. f \in Surjection(Correlated, all)
        BY DEF Surjection
      <4> HIDE DEF f, all
      <4> QED
        BY <4>1, <4>2, FS_Surjection DEF ExistsSurjection
    <3>2. stages \in SUBSET all
      OBVIOUS
    <3> HIDE DEF all, stages
    <3>3. Cardinality(stages) <= Cardinality(all) /\ Cardinality(stages) \in Nat /\ Cardinality(all) \in Nat
      BY <3>1, <3>2, FS_Subset, FS_CardinalityType
    <3> QED
      BY <1>3, <1>6, <3>3
  <2> QED
    BY <2>2, <2>3 DEF Warranted, worth
<1> QED
  BY <1>1, <1>5, <1>6

LEMMA BenignIsKnown ==
  ASSUME WorldInv, EvidenceInv, AllBenign(case), NEW a \in Asked
  PROVE  truth[a[1]][a[2]] = "benign"
<1>1. PICK failed : case.enriched = [o \in Range(Extracted) |-> Enriched(o, failed)]
  BY DEF EvidenceInv, Said, AllBenign
<1>2. PICK o \in Range(Extracted) : \E p \in Range(ProvidersFor(o)) : a = <<o, p>>
  BY DEF Asked
<1>3. o \in Observables /\ Enriched(o, failed) = "benign"
  BY <1>1, <1>2, ExtractedAreObservables DEF WorldInv, AllBenign
<1>4. \A p \in Range(ProvidersFor(o)) : truth[o][p] = "benign"
  BY <1>3, BenignIsSaid DEF WorldInv
<1> QED
  BY <1>2, <1>4

\* A malicious verdict is that of a provider who was asked.
LEMMA BadIsKnown ==
  ASSUME NEW c, Said(c), HasStatus(c, "malicious")
  PROVE  KnownBad
<1>1. PICK o \in DOMAIN c.enriched : c.enriched[o] = "malicious"
  BY DEF HasStatus
<1>2. c.enriched # <<>>
  BY <1>1
<1>3. PICK failed : c.enriched = [x \in Range(Extracted) |-> Enriched(x, failed)]
  BY <1>2 DEF Said
<1>4. o \in Range(Extracted) /\ Enriched(o, failed) = "malicious"
  BY <1>1, <1>3
<1> DEFINE last == Last(ProvidersFor(o))
<1>5. ProvidersFor(o) # <<>> /\ Lookup(o, last, failed) = "malicious"
  BY <1>4 DEF Enriched
<1>6. truth[o][last] = "malicious"
  BY <1>5 DEF Lookup
<1>7. last \in Range(ProvidersFor(o))
  BY <1>5, LastProvider
<1> HIDE DEF last
<1>8. <<o, last>> \in Asked
  BY <1>4, <1>7 DEF Asked
<1> QED
  BY <1>6, <1>8 DEF KnownBad

\* What supervise_case approves has a ground.
LEMMA JudgedHasGround ==
  ASSUME ShapeInv, EvidenceInv, NEW c \in {case, Rebuilt}, case.inv = {}, Supervised(c) = "approve"
  PROVE  Ground
<1>1. Said(c)
  BY CopySays
<1>2. \/ HasStatus(c, "malicious")
      \/ alert.title = "disk" \/ (alert.title # "integrity" /\ c.techniques)
  BY DEF Supervised
<1>3. KnownBad \/ Heuristic
  BY <1>1, <1>2, BadIsKnown DEF Heuristic, Said
<1> QED
  BY <1>3 DEF Ground

LEMMA GroundStep ==
  ShapeInv /\ UnseenInv /\ WorldInv /\ EvidenceInv /\ GroundInv /\ [Next]_vars => GroundInv'
<1>0. ASSUME GroundInv, [Next]_vars, sweep'.pc \in {"reread", "recommend"} PROVE sweep'.decision = "approve"
  <2>1. CASE \/ Open \/ Investigate \/ Classify \/ Escalate \/ MintDies \/ Start \/ Respond
             \/ \E r \in Responders : Step(r) \/ Persist(r) \/ ResponderDies(r)
    BY <1>0, <2>1 DEF Open, Investigate, Classify, Escalate, MintDies, Start, Respond, Step, Persist,
       ResponderDies, GroundInv
  <2>2. CASE \/ \E v \in {"approve", "deny"} : Decide(v) \/ CloseNode(v)
             \/ Close \/ CloseStale \/ Overwrite \/ Fail \/ UNCHANGED vars
    BY <1>0, <2>2 DEF Decide, CloseNode, Close, CloseStale, Overwrite, Fail, vars, GroundInv
  <2>3. CASE SweepStep \/ SweepDies
    BY <1>0, <2>3 DEF SweepStep, SweepDies, SweepRead, Judges, Judged, SweepDecide, SweepReread, SweepRecommend,
       SweepAnswer, SweepRecord, Rest, GroundInv
  <2> QED
    BY <1>0, <2>1, <2>2, <2>3 DEF Next
<1> SUFFICES ASSUME ShapeInv, UnseenInv, WorldInv, EvidenceInv, GroundInv, [Next]_vars,
                    sweep'.pc \notin {"rest", "decide"}, sweep'.decision = "approve"
             PROVE  Ground'
  BY <1>0 DEF GroundInv
<1>1. ~ Open /\ ~ Investigate
  BY DEF Open, Investigate, UnseenInv
<1>2. case'.inv = case.inv
  BY <1>1, EvidenceStays
<1>3. Ground' <=> Ground
  BY <1>2, WorldStays, WorldWarrants DEF Ground
<1>4. CASE SweepRead
  <2>1. PICK c \in {case, Rebuilt} :
          IF c.status \in {"decided", "closed"} THEN UNCHANGED sweep ELSE Judges(c)
    BY <1>4 DEF SweepRead
  <2>2. CASE c.status \in {"decided", "closed"}
    BY <1>3, <2>1, <2>2 DEF GroundInv
  <2>3. CASE c.status \notin {"decided", "closed"}
    <3>1. c.inv = {} /\ Supervised(c) = "approve"
      BY <2>1, <2>3 DEF Judges, Judged
    <3>2. case.inv = {}
      BY <3>1, CopySays
    <3> QED
      BY <1>3, <3>1, <3>2, JudgedHasGround
  <2> QED
    BY <2>2, <2>3
<1>5. CASE SweepDecide
  <2>1. Evidenced = "approve"
    BY <1>5 DEF SweepDecide, Rest
  <2>2. case.inv # {}
    BY <2>1 DEF Evidenced
  <2> QED
    BY <1>3, <2>1, <2>2, ApprovedIsWarranted DEF Ground
<1>6. CASE SweepReread \/ SweepRecommend
  <2>1. sweep.pc \in {"reread", "recommend"}
    BY <1>6 DEF SweepReread, SweepRecommend
  <2>2. sweep.decision = "approve"
    BY <2>1 DEF GroundInv
  <2> QED
    BY <1>3, <2>1, <2>2 DEF GroundInv
<1>7. CASE SweepAnswer
  BY <1>3, <1>7 DEF SweepAnswer, GroundInv
<1>8. CASE SweepRecord \/ SweepDies
  BY <1>8 DEF SweepRecord, SweepDies, Rest
<1>9. CASE \/ Classify \/ Escalate \/ MintDies \/ Start \/ Respond
           \/ \E r \in Responders : Step(r) \/ Persist(r) \/ ResponderDies(r)
  <2>1. sweep' = sweep
    BY <1>9 DEF Classify, Escalate, MintDies, Start, Respond, Step, Persist, ResponderDies
  <2> QED
    BY <1>3, <2>1 DEF GroundInv
<1>10. CASE \/ \E v \in {"approve", "deny"} : Decide(v) \/ CloseNode(v)
            \/ Close \/ CloseStale \/ Overwrite \/ Fail \/ UNCHANGED vars
  <2>1. sweep' = sweep
    BY <1>10 DEF Decide, CloseNode, Close, CloseStale, Overwrite, Fail, vars
  <2> QED
    BY <1>3, <2>1 DEF GroundInv
<1> QED
  BY <1>1, <1>4, <1>5, <1>6, <1>7, <1>8, <1>9, <1>10 DEF Next, SweepStep

\* An approval of the sweep has a ground, whatever searches, lookups and reads have failed: all
\* the evidence warrants it where an investigation was written; else something known to be
\* bad, the title or the techniques; and a case is denied as benign only if everybody who was
\* asked says so.
THEOREM EvidenceSound == Spec => []EvidenceIsSound
<1> DEFINE Inv == ShapeInv /\ OpeningInv /\ UnseenInv /\ WorldInv /\ EvidenceInv /\ GroundInv
<1>1. Init => Inv
  BY ShapeInit, EvidenceInit
<1>2. Inv /\ [Next]_vars => Inv'
  BY ShapeStep, OpeningStep, UnseenStep, EvidenceStep, GroundStep
<1>3. Inv => EvidenceIsSound
  BY BenignIsKnown DEF EvidenceIsSound, GroundInv, Ground
<1> QED
  BY <1>1, <1>2, <1>3, PTL DEF Spec
=============================================================================
