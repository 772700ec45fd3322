--------------------------- MODULE ApprovalProofs ---------------------------
(***************************************************************************)
(* Theorems of Approval and Supervision: their types, that an execution    *)
(* is paid for, that a denial stands, and that a sweep answers what it     *)
(* lists.  For any tickets, cases, titles, responders, steps and bounds.   *)
(***************************************************************************)
EXTENDS Approval, FiniteSetTheorems, WellFoundedInduction, TLAPS

----------------------------------------------------------------------------
\* Types.

LEMMA Assumptions ==
  /\ Tickets \subseteq Nat
  /\ Approvals \subseteq Tickets
  /\ CaseOf \in [Tickets -> Cases]
  /\ MaxRulings \in Nat /\ MaxFaults \in Nat /\ MaxCrashes \in Nat
  /\ Cases # {}
  /\ IsFiniteSet(Responders)
  /\ Steps \in Nat /\ Steps >= 1
BY SupervisionAssumption, ApprovalAssumption

\* A nonempty group of tickets has a first one.
LEMMA EarliestExists ==
  ASSUME NEW group \in SUBSET Tickets, group # {}
  PROVE  Earliest(group) \in group
<1>1. group \subseteq Nat
  BY Assumptions
<1>2. PICK t \in group : \A u \in group : ~ (<<u, t>> \in OpToRel(<, Nat))
  BY <1>1, WFMin, NatLessThanWellFounded
<1>3. \A u \in group : ~ (u < t)
  BY <1>1, <1>2 DEF OpToRel
<1>4. \A u \in group : t <= u
  BY <1>1, <1>3
<1> QED
  BY <1>4 DEF Earliest

\* A process that is past its first step holds what it works on.
SweepReady ==
  sweep.pc \in {"decide", "write", "sync", "repeats"} =>
    sweep.ticket \in Tickets /\ sweep.decision \in Verdicts

ConsoleReady ==
  console.pc \in {"sync", "close"} =>
    console.ticket \in Tickets /\ console.decision \in Verdicts

RespondersReady ==
  \A r \in Responders :
    /\ At(r, "execute") => responder[r].run \in Approvals /\ responder[r].step \in 1..Steps
    /\ At(r, "mark") => responder[r].run \in Approvals /\ responder[r].step = Steps + 1

TypeInv == TypeOK /\ SweepReady /\ ConsoleReady /\ RespondersReady

SupervisionTyped ==
  /\ tickets \in [Tickets -> {Absent, Open} \cup {Adjudicated(v) : v \in Verdicts}]
  /\ cases \in [Cases -> [block : Verdicts \cup {NoVerdict}, last : Verdicts \cup {NoVerdict}]]
  /\ SweepTyped
  /\ console \in [pc : {"idle", "sync", "close"}, ticket : Tickets \cup {0},
                  decision : Verdicts \cup {NoVerdict}]
  /\ human \in [Cases -> Verdicts \cup {NoVerdict}]
  /\ raced \subseteq Cases
  /\ hidden \subseteq Cases
  /\ rulings \in 0..MaxRulings
  /\ lapses \in 0..MaxFaults
  /\ blinks \in 0..MaxFaults
  /\ SweepReady
  /\ ConsoleReady

ResponderTyped ==
  /\ RespondersTyped
  /\ executed \in [Approvals -> [1..Steps -> Nat]]
  /\ marked \subseteq Approvals
  /\ expired \subseteq Approvals
  /\ crashes \in 0..MaxCrashes
  /\ RespondersReady

LEMMA TypeParts == TypeInv <=> SupervisionTyped /\ ResponderTyped
BY DEF TypeInv, TypeOK, SupervisionTyped, ResponderTyped

LEMMA TypeInit == Init => TypeInv
<1> SUFFICES ASSUME Init PROVE SupervisionTyped /\ ResponderTyped
  BY TypeParts
<1>1. SupervisionTyped
  BY Assumptions DEF Init, SupervisionInit, SupervisionTyped, SweepTyped, SweepReady, ConsoleReady,
     Undecided, SweepIdle, ConsoleIdle
<1>2. (CHOOSE c \in Cases : TRUE) \in Cases
  BY Assumptions
<1>3. ResponderTyped
  BY <1>2, Assumptions DEF Init, ResponderTyped, RespondersTyped, RespondersReady, Idle, At
<1> QED
  BY <1>1, <1>3

\* What reading the case of ticket t makes of the sweep.
Reads(s, t, pc, v) ==
  \/ s = [Picked(t) EXCEPT !.pc = pc, !.decision = v, !.records = TRUE]
  \/ s = [Picked(t) EXCEPT !.pc = pc, !.decision = v]

\* One more fault within the budget.
LEMMA FaultRange ==
  ASSUME SupervisionTyped, lapses + blinks < MaxFaults
  PROVE  lapses + 1 \in 0..MaxFaults /\ blinks + 1 \in 0..MaxFaults
BY Assumptions DEF SupervisionTyped

\* A missed decision, or none.
LEMMA HidesTyped ==
  ASSUME SupervisionTyped, NEW c \in Cases, Hides(c) \/ UNCHANGED <<hidden, blinks>>
  PROVE  hidden' \subseteq Cases /\ blinks' \in 0..MaxFaults
<1>1. CASE Hides(c)
  BY <1>1, FaultRange DEF Hides, Blink, SupervisionTyped
<1>2. CASE UNCHANGED <<hidden, blinks>>
  BY <1>2 DEF SupervisionTyped
<1> QED
  BY <1>1, <1>2

\* The two ways to read a case.
LEMMA SweepReads ==
  ASSUME SweepRead, NEW t, t = Earliest(sweep.batch)
  PROVE  /\ Hides(CaseOf[t]) \/ UNCHANGED <<hidden, blinks>>
         /\ \/ /\ cases[CaseOf[t]].block # NoVerdict
               /\ sweep' = [Picked(t) EXCEPT !.pc = "write", !.decision = Gate(cases[CaseOf[t]])]
               /\ UNCHANGED <<hidden, blinks>>
            \/ /\ cases[CaseOf[t]].block = NoVerdict \/ Hides(CaseOf[t])
               /\ \E pc \in {"decide", "write"}, v \in Verdicts :
                    sweep' = [Picked(t) EXCEPT !.pc = pc, !.decision = v, !.records = TRUE]
BY Zenon DEF SweepRead

LEMMA SupervisionStepType == SupervisionTyped /\ SupervisionNext => SupervisionTyped'
<1> SUFFICES ASSUME SupervisionTyped, SupervisionNext PROVE SupervisionTyped'
  OBVIOUS
<1> USE DEF SupervisionTyped, SweepTyped, SweepReady, ConsoleReady
<1>1. ASSUME NEW t \in Tickets, Escalate(t) PROVE SupervisionTyped'
  BY <1>1 DEF Escalate, Filed
<1>2. CASE SweepStart
  BY <1>2 DEF SweepStart, Listed, OpenTickets, SweepIdle
<1>3. CASE SweepRead
  <2> DEFINE t == Earliest(sweep.batch)
             case == cases[CaseOf[t]]
  <2>1. t \in sweep.batch /\ t \in Tickets
    BY <1>3, EarliestExists DEF SweepRead
  <2>2. case \in [block : Verdicts \cup {NoVerdict}, last : Verdicts \cup {NoVerdict}]
    BY <2>1, Assumptions
  <2>3. case.block # NoVerdict => Gate(case) \in Verdicts
    BY <2>2 DEF Gate
  <2>4. PICK pc \in {"decide", "write"}, v \in Verdicts :
          Reads(sweep', t, pc, v)
    <3>1. CASE /\ case.block # NoVerdict
               /\ sweep' = [Picked(t) EXCEPT !.pc = "write", !.decision = Gate(case)]
      BY <3>1, <2>3 DEF Reads
    <3>2. CASE \E pc \in {"decide", "write"}, v \in Verdicts :
                 sweep' = [Picked(t) EXCEPT !.pc = pc, !.decision = v, !.records = TRUE]
      BY <3>2 DEF Reads
    <3> QED
      BY ONLY <1>3, <3>1, <3>2, SweepReads, Zenon
  <2>5. sweep' \in [pc : {"decide", "write"}, batch : SUBSET Tickets, ticket : Tickets,
                    repeats : SUBSET Tickets, decision : Verdicts, records : BOOLEAN]
    <3>1. sweep \in [pc : {"idle", "pick", "decide", "write", "sync", "repeats"},
                     batch : SUBSET Tickets, ticket : Tickets \cup {0},
                     repeats : SUBSET Tickets, decision : Verdicts \cup {NoVerdict},
                     records : BOOLEAN]
      OBVIOUS
    <3>2. Group(t) \in SUBSET Tickets
      BY <3>1 DEF Group
    <3> HIDE DEF t, SupervisionTyped, SweepTyped, SweepReady, ConsoleReady
    <3>3. CASE sweep' = [Picked(t) EXCEPT !.pc = pc, !.decision = v, !.records = TRUE]
      BY <2>1, <3>1, <3>2, <3>3 DEF Picked
    <3>4. CASE sweep' = [Picked(t) EXCEPT !.pc = pc, !.decision = v]
      BY <2>1, <3>1, <3>2, <3>4 DEF Picked
    <3> QED
      BY ONLY <2>4, <3>3, <3>4 DEF Reads
  <2>6. hidden' \subseteq Cases /\ blinks' \in 0..MaxFaults
    <3>1. CaseOf[t] \in Cases
      BY <2>1, Assumptions
    <3>2. Hides(CaseOf[t]) \/ UNCHANGED <<hidden, blinks>>
      BY ONLY <1>3, SweepReads
    <3> QED
      BY <3>1, <3>2, HidesTyped
  <2>7. UNCHANGED <<tickets, cases, console, human, raced, rulings, lapses>>
    BY <1>3 DEF SweepRead
  <2> HIDE DEF t
  <2> QED
    BY <2>5, <2>6, <2>7
<1>4. CASE SweepDecide
  <2>1. SweepCase \in Cases /\ sweep.ticket \in Tickets /\ sweep.decision \in Verdicts
    BY <1>4, Assumptions DEF SweepDecide, SweepCase
  <2>2. UNCHANGED <<tickets, console, human, raced, rulings, lapses>>
    BY <1>4 DEF SweepDecide
  <2>3. hidden' \subseteq Cases /\ blinks' \in 0..MaxFaults
    <3>1. Hides(SweepCase) \/ UNCHANGED <<hidden, blinks>>
      BY <1>4 DEF SweepDecide
    <3> QED
      BY <2>1, <3>1, HidesTyped
  <2>4. CASE /\ cases' = [cases EXCEPT ![SweepCase] = Decided(sweep.decision)]
             /\ sweep' = [sweep EXCEPT !.pc = "write"]
    <3>1. cases' \in [Cases -> [block : Verdicts \cup {NoVerdict}, last : Verdicts \cup {NoVerdict}]]
      BY <2>1, <2>4 DEF Decided
    <3>2. SweepTyped' /\ SweepReady'
      BY <2>1, <2>4
    <3> QED
      BY <2>2, <2>3, <3>1, <3>2
  <2>5. CASE sweep' = SweepIdle /\ UNCHANGED cases
    BY <2>2, <2>3, <2>5 DEF SweepIdle
  <2> QED
    BY <1>4, <2>4, <2>5 DEF SweepDecide
<1>5. CASE SweepWrite
  BY <1>5 DEF SweepWrite
<1>6. CASE SweepSync
  <2>1. SweepCase \in Cases
    BY <1>6, Assumptions DEF SweepSync, SweepCase
  <2>2. Synced(cases[SweepCase], sweep.decision)
          \in [block : Verdicts \cup {NoVerdict}, last : Verdicts \cup {NoVerdict}]
    BY <1>6, <2>1 DEF SweepSync, Synced, Decided
  <2> QED
    BY <1>6, <2>1, <2>2 DEF SweepSync
<1>7. CASE SweepRepeat
  <2>1. Earliest(sweep.repeats) \in Tickets
    BY <1>7, EarliestExists DEF SweepRepeat
  <2> QED
    BY <1>7, <2>1 DEF SweepRepeat
<1>8. CASE SweepRecord
  <2>1. SweepCase \in Cases
    BY <1>8, Assumptions DEF SweepRecord, SweepCase
  <2> QED
    BY <1>8, <2>1 DEF SweepRecord, SweepIdle
<1>9. CASE SweepEnd
  BY <1>9 DEF SweepEnd, SweepIdle
<1>10. ASSUME NEW t \in Tickets, NEW v \in Verdicts, ConsoleAdjudicate(t, v)
       PROVE  SupervisionTyped'
  BY <1>10, Assumptions DEF ConsoleAdjudicate
<1>11. CASE ConsoleSync
  <2>1. CaseOf[console.ticket] \in Cases
    BY <1>11, Assumptions DEF ConsoleSync
  <2> QED
    BY <1>11, <2>1, SMTT(40) DEF ConsoleSync, Ruled, Decided, ConsoleIdle
<1>12. ASSUME NEW c \in Cases, NEW v \in Verdicts, ConsoleDecide(c, v)
       PROVE  SupervisionTyped'
  <2>1. OpenOf(c) # {} => Earliest(OpenOf(c)) \in Tickets
    <3>1. OpenOf(c) \in SUBSET Tickets
      BY DEF OpenOf, OpenTickets
    <3> QED
      BY <3>1, EarliestExists
  <2>2. rulings' \in 0..MaxRulings
    BY <1>12, Assumptions DEF ConsoleDecide
  <2>3. cases' = [cases EXCEPT ![c] = Decided(v)] /\ human' = [human EXCEPT ![c] = v]
        /\ raced' \subseteq Cases /\ hidden' \subseteq Cases
    BY <1>12 DEF ConsoleDecide, Ruled
  <2>4. /\ console' \in [pc : {"idle", "sync", "close"}, ticket : Tickets \cup {0},
                         decision : Verdicts \cup {NoVerdict}]
        /\ ConsoleReady'
    BY <1>12, <2>1 DEF ConsoleDecide
  <2>5. blinks' \in 0..MaxFaults
    BY <1>12, FaultRange DEF ConsoleDecide, Blink
  <2> QED
    BY <1>12, <2>2, <2>3, <2>4, <2>5 DEF ConsoleDecide, Decided
<1>13. CASE ConsoleClose
  BY <1>13 DEF ConsoleClose, ConsoleIdle
<1>14. CASE Die
  <2>1. lapses' \in 0..MaxFaults
    BY <1>14, FaultRange DEF Die
  <2>2. CASE sweep' = SweepIdle /\ UNCHANGED console
    BY <1>14, <2>1, <2>2 DEF Die, SweepIdle
  <2>3. CASE console' = ConsoleIdle /\ UNCHANGED sweep
    BY <1>14, <2>1, <2>3 DEF Die, ConsoleIdle
  <2> QED
    BY <1>14, <2>2, <2>3 DEF Die
<1>15. CASE LoseSync
  <2>1. lapses' \in 0..MaxFaults
    BY <1>15, FaultRange DEF LoseSync
  <2> QED
    BY <1>15, <2>1, SMTT(40) DEF LoseSync, ConsoleIdle
<1>16. ASSUME NEW c \in Cases, Overwrite(c) PROVE SupervisionTyped'
  <2>1. hidden' \subseteq Cases /\ blinks' \in 0..MaxFaults
    BY <1>16, HidesTyped DEF Overwrite
  <2> QED
    BY <1>16, <2>1 DEF Overwrite
<1> QED
  BY <1>1, <1>2, <1>3, <1>4, <1>5, <1>6, <1>7, <1>8, <1>9, <1>10, <1>11, <1>12, <1>13, <1>14,
     <1>15, <1>16 DEF SupervisionNext, SweepStep

\* A responder's record, whole and at work.
RespondersAt == [pc : {"idle", "lookup", "marks", "execute", "mark", "select"}, case : Cases,
                 runs : SUBSET Approvals, run : Approvals \cup {0}, step : 0..(Steps + 1)]

AtWorkOn(state) ==
  /\ state.pc = "execute" => state.run \in Approvals /\ state.step \in 1..Steps
  /\ state.pc = "mark" => state.run \in Approvals /\ state.step = Steps + 1

\* A responder that becomes a well-formed one leaves all of them well-formed.
LEMMA BecomesTyped ==
  ASSUME RespondersTyped, RespondersReady, NEW r \in Responders, NEW state \in RespondersAt,
         AtWorkOn(state), Becomes(r, state)
  PROVE  RespondersTyped' /\ RespondersReady'
<1>1. RespondersTyped'
  BY DEF RespondersTyped, RespondersAt, Becomes
<1>2. ASSUME NEW q \in Responders PROVE AtWorkOn(responder'[q])
  <2>1. CASE q = r
    BY <2>1 DEF Becomes, RespondersTyped
  <2>2. CASE q # r
    BY <2>2 DEF Becomes, RespondersTyped, RespondersReady, At, AtWorkOn
  <2> QED
    BY <2>1, <2>2
<1>3. RespondersReady'
  BY <1>2 DEF RespondersReady, At, AtWorkOn
<1> QED
  BY <1>1, <1>3

LEMMA IdleTyped == Idle \in RespondersAt /\ AtWorkOn(Idle)
<1>1. (CHOOSE c \in Cases : TRUE) \in Cases
  BY Assumptions
<1> QED
  BY <1>1, Assumptions DEF Idle, RespondersAt, AtWorkOn

LEMMA StepRange ==
  /\ 1 \in 1..Steps /\ 1 \in 0..(Steps + 1)
  /\ \A s \in 1..Steps :
       /\ s + 1 \in 0..(Steps + 1)
       /\ s < Steps => s + 1 \in 1..Steps
       /\ ~ (s < Steps) => s + 1 = Steps + 1
BY Assumptions

LEMMA RespondStepType ==
  ASSUME ResponderTyped, NEW r \in Responders, RespondStep(r)
  PROVE  ResponderTyped'
<1>1. /\ RespondersTyped /\ RespondersReady /\ responder[r] \in RespondersAt
      /\ executed \in [Approvals -> [1..Steps -> Nat]] /\ marked \subseteq Approvals
      /\ expired \subseteq Approvals /\ crashes \in 0..MaxCrashes
  BY DEF ResponderTyped, RespondersTyped, RespondersAt
<1>2. ASSUME NEW c \in Cases, Start(r, c) PROVE ResponderTyped'
  <2> DEFINE state == [Idle EXCEPT !.pc = "lookup", !.case = c]
  <2>1. state \in RespondersAt /\ AtWorkOn(state)
    BY IdleTyped DEF RespondersAt, AtWorkOn, Idle
  <2>2. Becomes(r, state) /\ UNCHANGED <<executed, marked, expired, crashes>>
    BY <1>2 DEF Start
  <2> HIDE DEF state
  <2> QED
    BY <1>1, <2>1, <2>2, BecomesTyped DEF ResponderTyped
<1>3. CASE Lookup(r)
  <2> PICK state : /\ state \in RespondersAt /\ AtWorkOn(state)
                   /\ Becomes(r, state) /\ UNCHANGED <<executed, marked, expired, crashes>>
    BY <1>1, <1>3 DEF Lookup, RespondersAt, AtWorkOn
  <2> QED
    BY <1>1, BecomesTyped DEF ResponderTyped
<1>4. CASE LookupFails(r)
  <2> PICK state : /\ state \in RespondersAt /\ AtWorkOn(state)
                   /\ Becomes(r, state) /\ UNCHANGED <<executed, marked, expired, crashes>>
    BY <1>1, <1>4 DEF LookupFails, RespondersAt, AtWorkOn
  <2> QED
    BY <1>1, BecomesTyped DEF ResponderTyped
<1>5. CASE ReadMarks(r)
  <2> DEFINE run == Earliest(Consumable(r))
  <2>1. UNCHANGED <<executed, marked, expired, crashes>>
    BY <1>5 DEF ReadMarks
  <2>2. CASE Consumable(r) = {}
    <3> DEFINE state == [responder[r] EXCEPT !.pc = "select", !.runs = {}]
    <3>1. state \in RespondersAt /\ AtWorkOn(state)
      BY <1>1 DEF RespondersAt, AtWorkOn
    <3>2. Becomes(r, state)
      BY <1>5, <2>2 DEF ReadMarks
    <3> HIDE DEF state
    <3> QED
      BY <1>1, <2>1, <3>1, <3>2, BecomesTyped DEF ResponderTyped
  <2>3. CASE Consumable(r) # {} /\ run \in Protected
    BY <1>1, <1>5, <2>1, <2>3, IdleTyped, BecomesTyped DEF ReadMarks, ResponderTyped
  <2>4. CASE Consumable(r) # {} /\ run \notin Protected
    <3> DEFINE state == [responder[r] EXCEPT !.pc = "execute", !.runs = {}, !.run = run, !.step = 1]
    <3>1. run \in Approvals
      <4>1. Consumable(r) \in SUBSET Approvals /\ Consumable(r) \in SUBSET Tickets
        BY <1>1, Assumptions DEF Consumable, RespondersAt
      <4> QED
        BY <2>4, <4>1, EarliestExists
    <3>2. state \in RespondersAt /\ AtWorkOn(state)
      <4> HIDE DEF run
      <4> QED
        BY <1>1, <3>1, StepRange DEF RespondersAt, AtWorkOn
    <3>3. Becomes(r, state)
      BY <1>5, <2>4 DEF ReadMarks
    <3> HIDE DEF state
    <3> QED
      BY <1>1, <2>1, <3>2, <3>3, BecomesTyped DEF ResponderTyped
  <2> QED
    BY <2>2, <2>3, <2>4
<1>6. CASE MarksUnreadable(r)
  BY <1>1, <1>6, IdleTyped, BecomesTyped DEF MarksUnreadable, ResponderTyped
<1>7. CASE Execute(r)
  <2>1. responder[r].run \in Approvals /\ responder[r].step \in 1..Steps
    BY <1>1, <1>7 DEF Execute, RespondersReady, At
  <2>2. executed' \in [Approvals -> [1..Steps -> Nat]]
    <3> DEFINE t == responder[r].run
               s == responder[r].step
    <3>1. executed[t] \in [1..Steps -> Nat] /\ executed[t][s] + 1 \in Nat
      <4>1. t \in Approvals /\ s \in 1..Steps
        BY <2>1
      <4> HIDE DEF t, s
      <4>2. executed[t] \in [1..Steps -> Nat]
        BY <1>1, <4>1
      <4>3. executed[t][s] \in Nat
        BY <4>1, <4>2
      <4> QED
        BY <4>2, <4>3
    <3>2. executed' = [executed EXCEPT ![t] = [executed[t] EXCEPT ![s] = executed[t][s] + 1]]
      BY <1>7 DEF Execute
    <3> DEFINE counts == [executed[t] EXCEPT ![s] = executed[t][s] + 1]
    <3>3. counts \in [1..Steps -> Nat]
      BY <3>1
    <3>4. t \in Approvals /\ executed' = [executed EXCEPT ![t] = counts]
      BY <2>1, <3>2
    <3> HIDE DEF t, s, counts
    <3> QED
      BY <1>1, <3>3, <3>4
  <2>3. PICK state : state \in RespondersAt /\ AtWorkOn(state) /\ Becomes(r, state)
    <3> DEFINE next == [responder[r] EXCEPT !.step = responder[r].step + 1]
               last == [responder[r] EXCEPT !.pc = "mark", !.step = responder[r].step + 1]
    <3>1. CASE responder[r].step < Steps
      <4>1. next \in RespondersAt /\ AtWorkOn(next)
        BY <1>1, <1>7, <2>1, <3>1, StepRange DEF Execute, RespondersAt, AtWorkOn, At
      <4>2. Becomes(r, next)
        BY <1>7, <3>1 DEF Execute
      <4> QED
        BY <4>1, <4>2
    <3>2. CASE ~ (responder[r].step < Steps)
      <4>1. last \in RespondersAt /\ AtWorkOn(last)
        BY <1>1, <1>7, <2>1, <3>2, StepRange DEF Execute, RespondersAt, AtWorkOn, At
      <4>2. Becomes(r, last)
        BY <1>7, <3>2 DEF Execute
      <4> QED
        BY <4>1, <4>2
    <3> QED
      BY <3>1, <3>2
  <2>4. UNCHANGED <<marked, expired, crashes>>
    BY <1>7 DEF Execute
  <2> QED
    BY <1>1, <2>2, <2>3, <2>4, BecomesTyped DEF ResponderTyped
<1>8. CASE Mark(r)
  <2>1. responder[r].run \in Approvals
    BY <1>1, <1>8 DEF Mark, RespondersReady, At
  <2> QED
    BY <1>1, <1>8, <2>1, IdleTyped, BecomesTyped DEF Mark, ResponderTyped
<1>9. CASE Crash(r)
  <2>1. crashes' \in 0..MaxCrashes
    BY <1>1, <1>9, Assumptions DEF Crash
  <2> QED
    BY <1>1, <1>9, <2>1, IdleTyped, BecomesTyped DEF Crash, ResponderTyped
<1>10. CASE Pass(r)
  BY <1>1, <1>10, IdleTyped, BecomesTyped DEF Pass, ResponderTyped
<1> QED
  BY <1>2, <1>3, <1>4, <1>5, <1>6, <1>7, <1>8, <1>9, <1>10 DEF RespondStep

LEMMA TypeStep == TypeInv /\ [Next]_vars => TypeInv'
<1> SUFFICES ASSUME SupervisionTyped, ResponderTyped, [Next]_vars
             PROVE  SupervisionTyped' /\ ResponderTyped'
  BY DEF TypeInv, TypeOK, SupervisionTyped, ResponderTyped
<1>1. ASSUME UNCHANGED supervisionVars PROVE SupervisionTyped'
  BY <1>1 DEF supervisionVars, SupervisionTyped, SweepTyped, SweepReady, ConsoleReady, Absent, Open,
     Adjudicated
<1>2. ASSUME UNCHANGED responderVars PROVE ResponderTyped'
  BY <1>2 DEF responderVars, ResponderTyped, RespondersTyped, RespondersReady, At
<1>3. CASE SupervisionNext /\ UNCHANGED responderVars
  BY <1>2, <1>3, SupervisionStepType
<1>4. CASE (\E r \in Responders : RespondStep(r)) /\ UNCHANGED supervisionVars
  BY <1>1, <1>4, RespondStepType
<1>5. ASSUME NEW r \in Responders, NEW t \in Tickets, File(r, t)
      PROVE  SupervisionTyped' /\ ResponderTyped'
  <2>1. SupervisionTyped'
    BY <1>5 DEF File, Filed, SupervisionTyped, SweepTyped, SweepReady, ConsoleReady
  <2>2. ResponderTyped'
    BY <1>5, IdleTyped, BecomesTyped DEF File, ResponderTyped
  <2> QED
    BY <2>1, <2>2
<1>6. ASSUME NEW t \in Approvals, Expire(t), UNCHANGED supervisionVars
      PROVE  SupervisionTyped' /\ ResponderTyped'
  BY <1>1, <1>6 DEF Expire, ResponderTyped, RespondersTyped, RespondersReady, At
<1>7. CASE UNCHANGED vars
  BY <1>1, <1>2, <1>7 DEF vars, supervisionVars, responderVars
<1> QED
  BY <1>3, <1>4, <1>5, <1>6, <1>7 DEF Next

THEOREM TypesHold == Spec => []TypeInv
<1> QED
  BY TypeInit, TypeStep, PTL DEF Spec

\* The queue, the cases and the processes keep their shape.
THEOREM ApprovalTyped == Spec => []TypeOK
<1>1. TypeInv => TypeOK
  BY DEF TypeInv
<1> QED
  BY <1>1, TypesHold, PTL

----------------------------------------------------------------------------
\* An execution is paid for.

WorkingOn(q, t) == responder[q].pc \in {"execute", "mark"} /\ responder[q].run = t

\* The responders that have yet to execute step s of run t, and those that did.
Due(t, s) == {q \in Responders : WorkingOn(q, t) /\ responder[q].step <= s}

Done(t, s) == {q \in Responders : WorkingOn(q, t) /\ s < responder[q].step}

\* While run t is unmarked, whoever executed step s of it is still at work or
\* died.  From the mark on nobody new takes it up, so those not yet due are
\* the most that did.
Paid(t, s) ==
  executed[t][s] <= crashes + (IF t \in marked THEN Cardinality(Responders) - Cardinality(Due(t, s))
                               ELSE Cardinality(Done(t, s)))

PaidInv == \A t \in Approvals, s \in 1..Steps : Paid(t, s)

LEMMA Counts ==
  ASSUME RespondersTyped, NEW t, NEW s \in 1..Steps
  PROVE  /\ IsFiniteSet(Due(t, s)) /\ IsFiniteSet(Done(t, s))
         /\ Cardinality(Due(t, s)) \in Nat /\ Cardinality(Done(t, s)) \in Nat
         /\ Cardinality(Responders) \in Nat
         /\ Cardinality(Due(t, s)) + Cardinality(Done(t, s)) <= Cardinality(Responders)
<1>1. Due(t, s) \subseteq Responders /\ Done(t, s) \subseteq Responders
  BY DEF Due, Done
<1>2. IsFiniteSet(Due(t, s)) /\ IsFiniteSet(Done(t, s))
  BY <1>1, Assumptions, FS_Subset
<1>3. /\ Cardinality(Due(t, s)) \in Nat /\ Cardinality(Done(t, s)) \in Nat
      /\ Cardinality(Responders) \in Nat
  BY <1>2, Assumptions, FS_CardinalityType
<1>4. Due(t, s) \cap Done(t, s) = {}
  BY Assumptions DEF Due, Done, RespondersTyped
<1>5. Cardinality(Due(t, s) \cup Done(t, s))
        = Cardinality(Due(t, s)) + Cardinality(Done(t, s)) - Cardinality(Due(t, s) \cap Done(t, s))
  BY <1>2, FS_Union
<1>6. Cardinality(Due(t, s) \cup Done(t, s)) = Cardinality(Due(t, s)) + Cardinality(Done(t, s))
  BY <1>3, <1>4, <1>5, FS_EmptySet
<1>7. Cardinality(Due(t, s) \cup Done(t, s)) <= Cardinality(Responders)
  <2>1. Due(t, s) \cup Done(t, s) \in SUBSET Responders
    BY <1>1
  <2> QED
    BY <2>1, Assumptions, FS_Subset
<1> QED
  BY <1>2, <1>3, <1>6, <1>7

\* Where a responder that becomes `state` stands, and that the others stay.
LEMMA Moves ==
  ASSUME RespondersTyped, NEW r \in Responders, NEW state, Becomes(r, state), NEW t, NEW s
  PROVE  /\ r \in Due(t, s)' <=> state.pc \in {"execute", "mark"} /\ state.run = t /\ state.step <= s
         /\ r \in Done(t, s)' <=> state.pc \in {"execute", "mark"} /\ state.run = t /\ s < state.step
         /\ Due(t, s)' \ {r} = Due(t, s) \ {r}
         /\ Done(t, s)' \ {r} = Done(t, s) \ {r}
<1>1. responder'[r] = state
  BY DEF Becomes, RespondersTyped
<1>2. \A q \in Responders \ {r} : responder'[q] = responder[q]
  BY DEF Becomes, RespondersTyped
<1>3. \A q \in Responders \ {r} : WorkingOn(q, t)' <=> WorkingOn(q, t)
  BY <1>2 DEF WorkingOn
<1>4. WorkingOn(r, t)' <=> state.pc \in {"execute", "mark"} /\ state.run = t
  BY <1>1 DEF WorkingOn
<1> QED
  BY <1>1, <1>2, <1>3, <1>4 DEF Due, Done

\* A responder that is at no run before and after changes nothing.
LEMMA Idles ==
  ASSUME RespondersTyped, NEW r \in Responders, NEW state, Becomes(r, state),
         responder[r].pc \notin {"execute", "mark"}, state.pc \notin {"execute", "mark"},
         NEW t, NEW s
  PROVE  Due(t, s)' = Due(t, s) /\ Done(t, s)' = Done(t, s)
<1>1. r \notin Due(t, s) /\ r \notin Done(t, s)
  BY DEF Due, Done, WorkingOn
<1> QED
  BY <1>1, Moves

LEMMA PaidStays ==
  ASSUME ResponderTyped, NEW t \in Approvals, NEW s \in 1..Steps, Paid(t, s),
         UNCHANGED <<executed, marked, crashes>>,
         t \in marked => Due(t, s)' = Due(t, s), Done(t, s)' = Done(t, s)
  PROVE  Paid(t, s)'
BY DEF Paid

LEMMA PaidRespond ==
  ASSUME ResponderTyped, PaidInv, NEW r \in Responders, RespondStep(r),
         NEW t \in Approvals, NEW s \in 1..Steps
  PROVE  Paid(t, s)'
<1> DEFINE run == responder[r].run
           step == responder[r].step
<1>1. /\ RespondersTyped /\ RespondersReady /\ responder[r] \in RespondersAt /\ Paid(t, s)
      /\ executed \in [Approvals -> [1..Steps -> Nat]]
      /\ crashes \in Nat
  BY DEF ResponderTyped, RespondersTyped, RespondersAt, PaidInv
<1>2. ASSUME NEW state, Becomes(r, state), UNCHANGED <<executed, marked, crashes>>,
             responder[r].pc \notin {"execute", "mark"}, state.pc \notin {"execute", "mark"}
      PROVE  Paid(t, s)'
  BY <1>1, <1>2, Idles, PaidStays
<1>3. Idle.pc = "idle"
  BY DEF Idle
<1>4. ASSUME NEW c \in Cases, Start(r, c) PROVE Paid(t, s)'
  <2>1. [Idle EXCEPT !.pc = "lookup", !.case = c].pc = "lookup"
    BY DEF Idle
  <2> QED
    BY <1>2, <1>4, <2>1 DEF Start, At
<1>5. CASE Lookup(r)
  <2> DEFINE found == {u \in Approvals \cap Nested :
                         CaseOf[u] = responder[r].case /\ tickets[u] = Adjudicated("approve")}
             state == [responder[r] EXCEPT !.pc = "marks", !.runs = found]
  <2>1. Becomes(r, state)
    BY <1>5 DEF Lookup
  <2>2. state.pc = "marks"
    BY <1>1 DEF RespondersAt
  <2> HIDE DEF state
  <2> QED
    BY <1>2, <1>5, <2>1, <2>2 DEF Lookup, At
<1>6. CASE LookupFails(r)
  <2> PICK state : Becomes(r, state) /\ state.pc = "select"
    BY <1>1, <1>6 DEF LookupFails, RespondersAt
  <2> QED
    BY <1>2, <1>6 DEF LookupFails, At
<1>7. CASE MarksUnreadable(r)
  BY <1>2, <1>3, <1>7 DEF MarksUnreadable, At
<1>8. CASE Pass(r)
  BY <1>2, <1>3, <1>8 DEF Pass, At
<1>9. CASE ReadMarks(r)
  <2> DEFINE next == Earliest(Consumable(r))
             taken == [responder[r] EXCEPT !.pc = "execute", !.runs = {}, !.run = next, !.step = 1]
  <2>1. At(r, "marks") /\ UNCHANGED <<executed, marked, crashes>>
    BY <1>9 DEF ReadMarks
  <2>2. CASE Consumable(r) = {}
    <3> DEFINE state == [responder[r] EXCEPT !.pc = "select", !.runs = {}]
    <3>1. Becomes(r, state)
      BY <1>9, <2>2 DEF ReadMarks
    <3>2. state.pc = "select"
      BY <1>1 DEF RespondersAt
    <3> HIDE DEF state
    <3> QED
      BY <1>2, <2>1, <3>1, <3>2 DEF At
  <2>3. CASE Consumable(r) # {} /\ next \in Protected
    BY <1>2, <1>3, <1>9, <2>1, <2>3 DEF ReadMarks, At
  <2>4. CASE Consumable(r) # {} /\ next \notin Protected
    <3>1. Becomes(r, taken)
      BY <1>9, <2>4 DEF ReadMarks
    <3>2. next \notin marked
      <4>1. Consumable(r) \in SUBSET Tickets
        BY <1>1, Assumptions DEF Consumable, RespondersAt
      <4> QED
        BY <2>4, <4>1, EarliestExists DEF Consumable
    <3> HIDE DEF next
    <3>3. taken.pc = "execute" /\ taken.run = next /\ taken.step = 1
      BY <1>1 DEF RespondersAt
    <3>4. r \notin Due(t, s) /\ r \notin Done(t, s)
      BY <2>1 DEF Due, Done, WorkingOn, At
    <3> HIDE DEF taken
    <3>5. Done(t, s)' = Done(t, s)
      <4>1. r \notin Done(t, s)'
        BY <1>1, <3>1, <3>3, Moves
      <4>2. Done(t, s)' \ {r} = Done(t, s) \ {r}
        BY <1>1, <3>1, Moves
      <4> QED
        BY <3>4, <4>1, <4>2
    <3>6. ASSUME t \in marked PROVE Due(t, s)' = Due(t, s)
      <4>1. r \notin Due(t, s)'
        BY <1>1, <3>1, <3>2, <3>3, <3>6, Moves
      <4>2. Due(t, s)' \ {r} = Due(t, s) \ {r}
        BY <1>1, <3>1, Moves
      <4> QED
        BY <3>4, <4>1, <4>2
    <3> QED
      BY <1>1, <2>1, <3>5, <3>6, PaidStays
  <2> QED
    BY <2>2, <2>3, <2>4
<1>10. CASE Execute(r)
  <2>1. run \in Approvals /\ step \in 1..Steps /\ At(r, "execute")
    BY <1>1, <1>10 DEF Execute, RespondersReady, At
  <2>2. PICK state : /\ Becomes(r, state) /\ state.pc \in {"execute", "mark"} /\ state.run = run
                     /\ state.step = step + 1
    <3> DEFINE next == [responder[r] EXCEPT !.step = responder[r].step + 1]
               last == [responder[r] EXCEPT !.pc = "mark", !.step = responder[r].step + 1]
    <3>1. next.pc = "execute" /\ next.run = run /\ next.step = step + 1
      BY <1>1, <2>1 DEF RespondersAt, At
    <3>2. last.pc = "mark" /\ last.run = run /\ last.step = step + 1
      BY <1>1 DEF RespondersAt
    <3>3. Becomes(r, next) \/ Becomes(r, last)
      BY <1>10 DEF Execute
    <3> HIDE DEF next, last
    <3> QED
      BY <3>1, <3>2, <3>3
  <2>3. /\ executed' = [executed EXCEPT ![run][step] = executed[run][step] + 1]
        /\ UNCHANGED <<marked, crashes>>
    BY <1>10 DEF Execute
  <2>4. /\ r \in Due(t, s) <=> run = t /\ step <= s
        /\ r \in Done(t, s) <=> run = t /\ s < step
    BY <2>1 DEF Due, Done, WorkingOn, At
  <2>5. /\ r \in Due(t, s)' <=> run = t /\ step + 1 <= s
        /\ r \in Done(t, s)' <=> run = t /\ s < step + 1
        /\ Due(t, s)' \ {r} = Due(t, s) \ {r}
        /\ Done(t, s)' \ {r} = Done(t, s) \ {r}
    BY <1>1, <2>2, Moves
  <2> HIDE DEF run, step
  <2>6. CASE run = t /\ step = s
    <3>1. Due(t, s)' = Due(t, s) \ {r} /\ Done(t, s)' = Done(t, s) \cup {r}
          /\ r \in Due(t, s) /\ r \notin Done(t, s)
      BY <2>1, <2>4, <2>5, <2>6
    <3>2. /\ Cardinality(Due(t, s)') = Cardinality(Due(t, s)) - 1
          /\ Cardinality(Done(t, s)') = Cardinality(Done(t, s)) + 1
      <4>1. IsFiniteSet(Due(t, s)) /\ IsFiniteSet(Done(t, s))
        BY <1>1, Counts
      <4>2. Cardinality(Due(t, s) \ {r}) = Cardinality(Due(t, s)) - 1
        BY <3>1, <4>1, FS_RemoveElement
      <4>3. Cardinality(Done(t, s) \cup {r}) = Cardinality(Done(t, s)) + 1
        BY <3>1, <4>1, FS_AddElement
      <4> QED
        BY <3>1, <4>2, <4>3
    <3>3. executed'[t][s] = executed[t][s] + 1 /\ executed[t][s] \in Nat
      <4>1. executed[t] \in [1..Steps -> Nat]
        BY <1>1
      <4> QED
        BY <1>1, <2>3, <2>6, <4>1
    <3> QED
      BY <1>1, <2>3, <3>2, <3>3, Counts, SMTT(40) DEF Paid
  <2>7. CASE ~ (run = t /\ step = s)
    <3>1. Due(t, s)' = Due(t, s) /\ Done(t, s)' = Done(t, s)
      BY <2>1, <2>4, <2>5, <2>7
    <3>2. executed'[t][s] = executed[t][s]
      BY <1>1, <2>1, <2>3, <2>7
    <3> QED
      BY <1>1, <2>3, <3>1, <3>2 DEF Paid
  <2> QED
    BY <2>6, <2>7
<1>11. CASE Mark(r)
  <2>1. At(r, "mark") /\ Becomes(r, Idle) /\ marked' = marked \cup {run}
        /\ UNCHANGED <<executed, crashes>>
    BY <1>11 DEF Mark
  <2>2. step = Steps + 1
    BY <1>1, <2>1 DEF RespondersReady
  <2>3. r \notin Due(t, s) /\ (r \in Done(t, s) => run = t)
    BY <2>2, Assumptions DEF Due, Done, WorkingOn
  <2>4. /\ r \notin Due(t, s)' /\ r \notin Done(t, s)'
        /\ Due(t, s)' \ {r} = Due(t, s) \ {r}
        /\ Done(t, s)' \ {r} = Done(t, s) \ {r}
    BY <1>1, <1>3, <2>1, Moves
  <2> HIDE DEF run, step
  <2>5. Due(t, s)' = Due(t, s)
    BY <2>3, <2>4
  <2>6. executed[t][s] \in Nat
    <3>1. executed[t] \in [1..Steps -> Nat]
      BY <1>1
    <3> QED
      BY <3>1
  <2>7. CASE run = t
    BY <1>1, <2>1, <2>5, <2>6, <2>7, Counts DEF Paid
  <2>8. CASE run # t
    <3>1. Done(t, s)' = Done(t, s)
      BY <2>3, <2>4, <2>8
    <3> QED
      BY <1>1, <2>1, <2>5, <2>8, <3>1 DEF Paid
  <2> QED
    BY <2>7, <2>8
<1>12. CASE Crash(r)
  <2>1. Becomes(r, Idle) /\ crashes' = crashes + 1 /\ UNCHANGED <<executed, marked>>
    BY <1>12 DEF Crash
  <2>2. Due(t, s)' = Due(t, s) \ {r} /\ Done(t, s)' = Done(t, s) \ {r}
    BY <1>1, <1>3, <2>1, Moves
  <2>3. /\ Cardinality(Due(t, s)') \in Nat /\ Cardinality(Due(t, s)') <= Cardinality(Due(t, s))
        /\ Cardinality(Done(t, s)') \in Nat
        /\ Cardinality(Done(t, s)) <= Cardinality(Done(t, s)') + 1
    <3>1. /\ IsFiniteSet(Due(t, s)) /\ IsFiniteSet(Done(t, s))
          /\ Cardinality(Due(t, s)) \in Nat /\ Cardinality(Done(t, s)) \in Nat
      BY <1>1, Counts
    <3>2. /\ IsFiniteSet(Due(t, s) \ {r}) /\ IsFiniteSet(Done(t, s) \ {r})
          /\ Cardinality(Due(t, s) \ {r}) \in {Cardinality(Due(t, s)), Cardinality(Due(t, s)) - 1}
          /\ Cardinality(Done(t, s) \ {r}) \in {Cardinality(Done(t, s)), Cardinality(Done(t, s)) - 1}
      BY <3>1, FS_RemoveElement
    <3>3. Cardinality(Due(t, s) \ {r}) \in Nat /\ Cardinality(Done(t, s) \ {r}) \in Nat
      BY <3>2, FS_CardinalityType
    <3> QED
      BY <2>2, <3>1, <3>2, <3>3
  <2>4. executed[t][s] \in Nat
    <3>1. executed[t] \in [1..Steps -> Nat]
      BY <1>1
    <3> QED
      BY <3>1
  <2> QED
    BY <1>1, <2>1, <2>3, <2>4, Counts, SMTT(40) DEF Paid
<1> QED
  BY <1>4, <1>5, <1>6, <1>7, <1>8, <1>9, <1>10, <1>11, <1>12 DEF RespondStep

LEMMA PaidInit == Init => PaidInv
<1> SUFFICES ASSUME Init, NEW t \in Approvals, NEW s \in 1..Steps PROVE Paid(t, s)
  BY DEF PaidInv
<1>1. ResponderTyped /\ executed[t][s] = 0 /\ marked = {} /\ crashes = 0
  BY TypeInit, TypeParts DEF Init
<1>2. Cardinality(Done(t, s)) \in Nat
  BY <1>1, Counts DEF ResponderTyped
<1> QED
  BY <1>1, <1>2 DEF Paid

LEMMA PaidStep == TypeInv /\ PaidInv /\ [Next]_vars => PaidInv'
<1> SUFFICES ASSUME ResponderTyped, PaidInv, [Next]_vars, NEW t \in Approvals, NEW s \in 1..Steps
             PROVE  Paid(t, s)'
  BY TypeParts DEF PaidInv
<1>1. ASSUME UNCHANGED <<responder, executed, marked, crashes>> PROVE Paid(t, s)'
  BY <1>1 DEF PaidInv, Paid, Due, Done, WorkingOn
<1>2. CASE SupervisionNext /\ UNCHANGED responderVars
  BY <1>1, <1>2 DEF responderVars
<1>3. CASE (\E r \in Responders : RespondStep(r)) /\ UNCHANGED supervisionVars
  BY <1>3, PaidRespond
<1>4. ASSUME NEW r \in Responders, NEW u \in Tickets, File(r, u) PROVE Paid(t, s)'
  <2>1. Becomes(r, Idle) /\ At(r, "select") /\ UNCHANGED <<executed, marked, crashes>>
    BY <1>4 DEF File
  <2>2. Due(t, s)' = Due(t, s) /\ Done(t, s)' = Done(t, s)
    BY <2>1, Idles DEF At, Idle, ResponderTyped
  <2> QED
    BY <2>1, <2>2, PaidStays DEF PaidInv
<1>5. ASSUME NEW u \in Approvals, Expire(u) PROVE Paid(t, s)'
  BY <1>1, <1>5 DEF Expire
<1>6. CASE UNCHANGED vars
  BY <1>1, <1>6 DEF vars, responderVars
<1> QED
  BY <1>2, <1>3, <1>4, <1>5, <1>6 DEF Next

\* A step of a run is executed at most once per responder and once per crash,
\* whatever the sweep, the console and the clock do.
THEOREM ExecutionBounded == Spec => []ExecutionIsPaid
<1>1. TypeInv /\ PaidInv => ExecutionIsPaid
  <2> SUFFICES ASSUME TypeInv, PaidInv, NEW t \in Approvals, NEW s \in 1..Steps
               PROVE  executed[t][s] <= Cardinality(Responders) + crashes
    BY DEF ExecutionIsPaid
  <2>1. executed[t][s] \in Nat /\ crashes \in Nat /\ Paid(t, s)
    <3>1. executed[t] \in [1..Steps -> Nat]
      BY DEF TypeInv, TypeOK
    <3> QED
      BY <3>1 DEF TypeInv, TypeOK, PaidInv
  <2>2. /\ Cardinality(Due(t, s)) \in Nat /\ Cardinality(Done(t, s)) \in Nat
        /\ Cardinality(Responders) \in Nat
        /\ Cardinality(Due(t, s)) + Cardinality(Done(t, s)) <= Cardinality(Responders)
    BY Counts DEF TypeInv, TypeOK
  <2> QED
    BY <2>1, <2>2 DEF Paid
<1> QED
  BY <1>1, TypeInit, TypeStep, PaidInit, PaidStep, PTL DEF Spec

----------------------------------------------------------------------------
\* A denial stands.

Modes ==
  /\ sweep.pc \in {"decide", "sync"} => sweep.records
  /\ sweep.pc \in {"idle", "pick"} => ~ sweep.records

\* A decided case has an adjudication event, whatever becomes of its block.
Backed == \A c \in Cases : cases[c].block # NoVerdict => cases[c].last # NoVerdict

\* A case the operator denied says so, and no sweep that reads otherwise is at it.
Stands(c) == cases[c] = Decided("deny") /\ ~ InSweep(c)

DenialInv ==
  /\ Modes
  /\ Backed
  /\ \A c \in Cases \ (raced \cup hidden) : human[c] = "deny" => Stands(c)

LEMMA BackedStep == ASSUME SupervisionTyped, Backed, SupervisionNext PROVE Backed'
<1>1. /\ cases \in [Cases -> [block : Verdicts \cup {NoVerdict}, last : Verdicts \cup {NoVerdict}]]
      /\ sweep.pc \in {"decide", "write", "sync", "repeats"} =>
           sweep.decision \in Verdicts /\ sweep.ticket \in Tickets
      /\ console.pc = "sync" => console.decision \in Verdicts
  BY DEF SupervisionTyped, SweepReady, ConsoleReady
<1>2. ASSUME UNCHANGED cases PROVE Backed'
  BY <1>2 DEF Backed
<1>3. ASSUME NEW d, NEW x, cases' = [cases EXCEPT ![d] = x],
             x.block # NoVerdict => x.last # NoVerdict
      PROVE  Backed'
  BY <1>1, <1>3 DEF Backed
<1>4. \A v \in Verdicts : Decided(v).last # NoVerdict /\ v # NoVerdict
  BY DEF Decided, Verdicts, NoVerdict
<1>5. CASE SweepDecide
  BY <1>1, <1>2, <1>3, <1>4, <1>5 DEF SweepDecide
<1>6. CASE SweepSync
  <2>1. SweepCase \in Cases
    BY <1>1, <1>6, Assumptions DEF SweepSync, SweepCase
  <2>2. Synced(cases[SweepCase], sweep.decision).block # NoVerdict =>
          Synced(cases[SweepCase], sweep.decision).last # NoVerdict
    BY <1>1, <1>4, <1>6, <2>1 DEF SweepSync, Synced, Backed
  <2> QED
    BY <1>3, <1>6, <2>2 DEF SweepSync
<1>7. CASE SweepRecord
  <2>1. CASE sweep.records
    <3> DEFINE x == [cases[SweepCase] EXCEPT !.last = sweep.decision]
    <3>1. SweepCase \in Cases /\ sweep.decision \in Verdicts
      BY <1>1, <1>7, Assumptions DEF SweepRecord, SweepCase
    <3>2. x.last = sweep.decision
      BY <1>1, <3>1
    <3>3. cases' = [cases EXCEPT ![SweepCase] = x]
      BY <1>7, <2>1 DEF SweepRecord
    <3> HIDE DEF x
    <3> QED
      BY <1>3, <1>4, <3>1, <3>2, <3>3
  <2>2. CASE ~ sweep.records
    BY <1>2, <1>7, <2>2 DEF SweepRecord
  <2> QED
    BY <2>1, <2>2
<1>8. CASE ConsoleSync
  BY <1>1, <1>2, <1>3, <1>4, <1>8 DEF ConsoleSync, Ruled
<1>9. ASSUME NEW c \in Cases, NEW v \in Verdicts, ConsoleDecide(c, v) PROVE Backed'
  BY <1>3, <1>4, <1>9 DEF ConsoleDecide, Ruled
<1>10. ASSUME NEW c \in Cases, Overwrite(c) PROVE Backed'
  <2>1. cases' = [cases EXCEPT ![c] = [cases[c] EXCEPT !.block = NoVerdict]]
    BY <1>10 DEF Overwrite
  <2>2. [cases[c] EXCEPT !.block = NoVerdict].block = NoVerdict
    BY <1>1
  <2> QED
    BY <1>3, <2>1, <2>2
<1> QED
  BY <1>2, <1>5, <1>6, <1>7, <1>8, <1>9, <1>10
     DEF SupervisionNext, SweepStep, Escalate, SweepStart, SweepRead, SweepWrite, SweepRepeat,
         SweepEnd, ConsoleAdjudicate, ConsoleClose, Die, LoseSync

\* What the sweep may do to a case: write to the one it has read as undecided.
LEMMA SweepKeeps ==
  ASSUME SupervisionTyped, Modes, SweepStep
  PROVE  /\ Modes' /\ UNCHANGED <<human, raced>> /\ hidden \subseteq hidden'
         /\ \A c \in Cases : cases'[c] = cases[c] \/ InSweep(c)
         /\ \A c \in Cases :
              InSweep(c)' => InSweep(c) \/ cases[c].block = NoVerdict \/ c \in hidden'
<1>1. /\ sweep \in [pc : {"idle", "pick", "decide", "write", "sync", "repeats"},
                    batch : SUBSET Tickets, ticket : Tickets \cup {0},
                    repeats : SUBSET Tickets, decision : Verdicts \cup {NoVerdict},
                    records : BOOLEAN]
      /\ cases \in [Cases -> [block : Verdicts \cup {NoVerdict}, last : Verdicts \cup {NoVerdict}]]
  BY DEF SupervisionTyped, SweepTyped
<1> USE DEF Modes, InSweep, SweepCase
<1>2. CASE SweepStart
  BY <1>1, <1>2 DEF SweepStart, SweepIdle
<1>3. CASE SweepRead
  <2> DEFINE t == Earliest(sweep.batch)
             case == cases[CaseOf[t]]
  <2>1. UNCHANGED <<cases, human, raced>> /\ ~ sweep.records
    BY <1>3 DEF SweepRead
  <2>2. hidden \subseteq hidden'
    <3>1. Hides(CaseOf[t]) \/ UNCHANGED <<hidden, blinks>>
      BY ONLY <1>3, SweepReads
    <3> QED
      BY <3>1 DEF Hides
  <2>3. CASE sweep' = [Picked(t) EXCEPT !.pc = "write", !.decision = Gate(case)]
    <3>1. sweep'.pc = "write" /\ sweep'.records = sweep.records
      BY <1>1, <2>3 DEF Picked
    <3> QED
      BY <2>1, <2>2, <3>1
  <2>4. CASE /\ case.block = NoVerdict \/ Hides(CaseOf[t])
             /\ \E pc \in {"decide", "write"}, v \in Verdicts :
                  sweep' = [Picked(t) EXCEPT !.pc = pc, !.decision = v, !.records = TRUE]
    <3>1. PICK pc \in {"decide", "write"}, v \in Verdicts :
            sweep' = [Picked(t) EXCEPT !.pc = pc, !.decision = v, !.records = TRUE]
      BY <2>4
    <3>2. sweep'.pc = pc /\ sweep'.records /\ sweep'.ticket = t
      BY <1>1, <3>1 DEF Picked
    <3>3. case.block = NoVerdict \/ CaseOf[t] \in hidden'
      BY <2>4 DEF Hides
    <3> QED
      BY <2>1, <2>2, <3>2, <3>3
  <2> QED
    BY ONLY <1>3, <2>3, <2>4, SweepReads, Zenon
<1>4. CASE SweepDecide
  <2>1. /\ UNCHANGED <<human, raced>> /\ sweep.records
        /\ cases' = cases \/ cases' = [cases EXCEPT ![SweepCase] = Decided(sweep.decision)]
        /\ sweep' = [sweep EXCEPT !.pc = "write"] \/ sweep' = SweepIdle
    BY <1>4 DEF SweepDecide
  <2>2. hidden \subseteq hidden'
    BY <1>4 DEF SweepDecide, Hides
  <2>3. CASE sweep' = [sweep EXCEPT !.pc = "write"]
    BY <1>1, <2>1, <2>2, <2>3
  <2>4. CASE sweep' = SweepIdle
    BY <1>1, <2>1, <2>2, <2>4 DEF SweepIdle
  <2> QED
    BY <2>1, <2>3, <2>4
<1>5. CASE SweepWrite
  BY <1>1, <1>5 DEF SweepWrite
<1>6. CASE SweepSync
  BY <1>1, <1>6 DEF SweepSync
<1>7. CASE SweepRepeat
  BY <1>1, <1>7 DEF SweepRepeat
<1>8. CASE SweepRecord
  BY <1>1, <1>8 DEF SweepRecord, SweepIdle
<1>9. CASE SweepEnd
  BY <1>1, <1>9 DEF SweepEnd, SweepIdle
<1> QED
  BY <1>2, <1>3, <1>4, <1>5, <1>6, <1>7, <1>8, <1>9 DEF SweepStep

\* What the console may do to a case: decide it.
LEMMA RuledKeeps ==
  ASSUME SupervisionTyped, DenialInv, NEW c \in Cases, NEW v \in Verdicts,
         Ruled(c, v), UNCHANGED sweep, Backed'
  PROVE  DenialInv'
<1>1. cases \in [Cases -> [block : Verdicts \cup {NoVerdict}, last : Verdicts \cup {NoVerdict}]]
      /\ human \in [Cases -> Verdicts \cup {NoVerdict}]
  BY DEF SupervisionTyped
<1>2. ASSUME NEW d \in Cases \ (raced' \cup hidden'), human'[d] = "deny" PROVE Stands(d)'
  <2>1. CASE d = c
    BY <1>1, <1>2, <2>1 DEF Ruled, Stands, InSweep, SweepCase, Decided
  <2>2. CASE d # c
    <3>1. human[d] = "deny" /\ d \notin raced \cup hidden /\ cases'[d] = cases[d]
      BY <1>1, <1>2, <2>2 DEF Ruled
    <3> QED
      BY <3>1 DEF DenialInv, Stands, InSweep, SweepCase
  <2> QED
    BY <2>1, <2>2
<1> QED
  BY <1>2 DEF DenialInv, Modes

\* Steps that write to no case and move the sweep at most to idle or on from a
\* failed sync.
LEMMA DenialStays ==
  ASSUME DenialInv, UNCHANGED <<cases, human, raced, hidden>>, Modes',
         sweep'.records => sweep.records /\ sweep'.ticket = sweep.ticket
  PROVE  DenialInv'
BY DEF DenialInv, Backed, Stands, InSweep, SweepCase

LEMMA DenialSupervision ==
  ASSUME SupervisionTyped, DenialInv, SupervisionNext
  PROVE  DenialInv'
<1>0. Backed'
  BY BackedStep DEF DenialInv
<1>1. sweep \in [pc : {"idle", "pick", "decide", "write", "sync", "repeats"},
                 batch : SUBSET Tickets, ticket : Tickets \cup {0},
                 repeats : SUBSET Tickets, decision : Verdicts \cup {NoVerdict},
                 records : BOOLEAN]
  BY DEF SupervisionTyped, SweepTyped
<1>2. ASSUME UNCHANGED <<cases, human, raced, hidden, sweep>> PROVE DenialInv'
  BY <1>2, DenialStays DEF DenialInv, Modes
<1>3. ASSUME NEW t \in Tickets, Escalate(t) PROVE DenialInv'
  BY <1>2, <1>3 DEF Escalate
<1>4. CASE SweepStep
  <2>1. Modes
    BY DEF DenialInv
  <2>2. ASSUME NEW c \in Cases \ (raced' \cup hidden'), human'[c] = "deny" PROVE Stands(c)'
    <3>1. Stands(c)
      BY <1>4, <2>1, <2>2, SweepKeeps DEF DenialInv
    <3>2. cases'[c] = cases[c]
      BY <1>4, <2>1, <3>1, SweepKeeps DEF Stands
    <3>3. cases[c].block # NoVerdict
      BY <3>1 DEF Stands, Decided, NoVerdict
    <3>4. ~ InSweep(c)'
      BY <1>4, <2>1, <2>2, <3>1, <3>3, SweepKeeps DEF Stands
    <3> QED
      BY <3>1, <3>2, <3>4 DEF Stands
  <2> QED
    BY <1>0, <1>4, <2>1, <2>2, SweepKeeps DEF DenialInv
<1>5. ASSUME NEW t \in Tickets, NEW v \in Verdicts, ConsoleAdjudicate(t, v) PROVE DenialInv'
  BY <1>2, <1>5 DEF ConsoleAdjudicate
<1>6. CASE ConsoleSync
  <2> DEFINE c == CaseOf[console.ticket]
  <2>1. console.ticket \in Tickets /\ console.decision \in Verdicts /\ UNCHANGED sweep
    BY <1>6 DEF ConsoleSync, SupervisionTyped, ConsoleReady
  <2>2. c \in Cases
    BY <2>1, Assumptions
  <2>3. CASE Recorded(cases[c]) = NoVerdict
    <3>1. Ruled(c, console.decision)
      BY <1>6, <2>3 DEF ConsoleSync
    <3> QED
      BY <1>0, <2>1, <2>2, <3>1, RuledKeeps
  <2>4. CASE Recorded(cases[c]) # NoVerdict
    BY <1>2, <1>6, <2>4 DEF ConsoleSync
  <2> QED
    BY <2>3, <2>4
<1>7. ASSUME NEW c \in Cases, NEW v \in Verdicts, ConsoleDecide(c, v) PROVE DenialInv'
  BY <1>0, <1>7, RuledKeeps DEF ConsoleDecide
<1>8. CASE ConsoleClose
  BY <1>2, <1>8 DEF ConsoleClose
<1>9. CASE Die
  BY <1>2, <1>9, DenialStays DEF Die, SweepIdle, Modes
<1>10. CASE LoseSync
  <2>1. CASE sweep' = [sweep EXCEPT !.pc = "repeats"]
    BY <1>1, <1>10, <2>1, DenialStays DEF LoseSync, Modes
  <2>2. CASE UNCHANGED sweep
    BY <1>2, <1>10, <2>2 DEF LoseSync
  <2> QED
    BY <1>10, <2>1, <2>2 DEF LoseSync
<1>11. ASSUME NEW c \in Cases, Overwrite(c) PROVE DenialInv'
  <2>1. /\ UNCHANGED <<sweep, human, raced>> /\ hidden' = hidden \cup {c}
        /\ \A d \in Cases \ {c} : cases'[d] = cases[d]
    BY <1>11 DEF Overwrite, Hides, SupervisionTyped
  <2>2. ASSUME NEW d \in Cases \ (raced' \cup hidden'), human'[d] = "deny" PROVE Stands(d)'
    BY <2>1, <2>2 DEF DenialInv, Stands, InSweep, SweepCase
  <2> QED
    BY <1>0, <2>1, <2>2 DEF DenialInv, Modes
<1> QED
  BY <1>3, <1>4, <1>5, <1>6, <1>7, <1>8, <1>9, <1>10, <1>11 DEF SupervisionNext

LEMMA DenialInit == Init => DenialInv
BY DEF Init, SupervisionInit, DenialInv, Modes, Backed, Undecided, SweepIdle, NoVerdict

LEMMA DenialStep == TypeInv /\ DenialInv /\ [Next]_vars => DenialInv'
<1> SUFFICES ASSUME TypeInv, DenialInv, [Next]_vars PROVE DenialInv'
  OBVIOUS
<1>1. SupervisionTyped
  BY TypeParts
<1>2. ASSUME UNCHANGED <<cases, human, raced, hidden, sweep>> PROVE DenialInv'
  BY <1>2, DenialStays DEF DenialInv, Modes
<1>3. CASE SupervisionNext /\ UNCHANGED responderVars
  BY <1>1, <1>3, DenialSupervision
<1>4. CASE UNCHANGED supervisionVars
  BY <1>2, <1>4 DEF supervisionVars
<1>5. ASSUME NEW r \in Responders, NEW t \in Tickets, File(r, t) PROVE DenialInv'
  BY <1>2, <1>5 DEF File
<1> QED
  BY <1>3, <1>4, <1>5 DEF Next, vars

\* Once the operator denied a case no sweep had read before, its gate stays
\* shut, whatever sweeps, console calls and deaths follow, until a read of the
\* case is answered from receipts or an event is written with a copy of it that
\* has no decision.
THEOREM DenialHolds == Spec => []DenialIsAuthority
<1>1. DenialInv => DenialIsAuthority
  BY DEF DenialInv, DenialIsAuthority, Stands, Decided, Gate, NoVerdict
<1> QED
  BY <1>1, TypesHold, DenialInit, DenialStep, PTL DEF Spec

----------------------------------------------------------------------------
\* A sweep answers what it lists.

\* Between two groups a sweep holds no repeats, and at rest nothing.
RestInv ==
  /\ sweep.pc = "idle" => sweep.batch = {}
  /\ sweep.pc \in {"idle", "pick"} => sweep.repeats = {}

AnswersStep == \A t \in Held \ Held' : tickets'[t].status = "adjudicated" \/ sweep'.pc = "idle"

LEMMA SweepAnswers ==
  ASSUME SupervisionTyped, RestInv, SupervisionNext
  PROVE  RestInv' /\ AnswersStep
<1>1. /\ sweep \in [pc : {"idle", "pick", "decide", "write", "sync", "repeats"},
                    batch : SUBSET Tickets, ticket : Tickets \cup {0},
                    repeats : SUBSET Tickets, decision : Verdicts \cup {NoVerdict},
                    records : BOOLEAN]
      /\ tickets \in [Tickets -> {Absent, Open} \cup {Adjudicated(v) : v \in Verdicts}]
  BY DEF SupervisionTyped, SweepTyped
<1>2. ASSUME UNCHANGED sweep PROVE RestInv' /\ AnswersStep
  BY <1>2 DEF RestInv, AnswersStep, Held
<1>3. ASSUME sweep' = SweepIdle PROVE RestInv' /\ AnswersStep
  BY <1>3 DEF RestInv, AnswersStep, SweepIdle
<1>4. CASE SweepStart
  BY <1>1, <1>4 DEF SweepStart, SweepIdle, RestInv, AnswersStep, Held
<1>5. CASE SweepRead
  <2> DEFINE t == Earliest(sweep.batch)
  <2>1. PICK pc \in {"decide", "write"} :
          /\ sweep'.pc = pc /\ sweep'.ticket = t
          /\ sweep'.batch = sweep.batch \ Group(t) /\ sweep'.repeats = Group(t) \ {t}
    <3>1. CASE sweep' = [Picked(t) EXCEPT !.pc = "write", !.decision = Gate(cases[CaseOf[t]])]
      BY <1>1, <3>1 DEF Picked
    <3>2. CASE \E pc \in {"decide", "write"}, v \in Verdicts :
                 sweep' = [Picked(t) EXCEPT !.pc = pc, !.decision = v, !.records = TRUE]
      BY <1>1, <3>2 DEF Picked
    <3> QED
      BY ONLY <1>5, <3>1, <3>2, SweepReads, Zenon
  <2>2. sweep.pc = "pick"
    BY <1>5 DEF SweepRead
  <2> HIDE DEF t
  <2> QED
    BY <2>1, <2>2 DEF RestInv, AnswersStep, Held
<1>6. CASE SweepDecide
  <2>1. CASE sweep' = [sweep EXCEPT !.pc = "write"]
    BY <1>1, <1>6, <2>1 DEF SweepDecide, RestInv, AnswersStep, Held
  <2> QED
    BY <1>3, <1>6, <2>1 DEF SweepDecide
<1>7. CASE SweepWrite
  <2>1. /\ sweep.ticket \in Tickets
        /\ tickets' = [tickets EXCEPT ![sweep.ticket] = Adjudicated(sweep.decision)]
    BY <1>7 DEF SweepWrite, SupervisionTyped, SweepReady
  <2>2. tickets'[sweep.ticket].status = "adjudicated"
    BY <1>1, <2>1 DEF Adjudicated
  <2> QED
    BY <1>1, <1>7, <2>2 DEF SweepWrite, RestInv, AnswersStep, Held
<1>8. CASE SweepSync
  BY <1>1, <1>8 DEF SweepSync, RestInv, AnswersStep, Held
<1>9. CASE SweepRepeat
  <2> DEFINE t == Earliest(sweep.repeats)
  <2>1. t \in Tickets
    BY <1>1, <1>9, EarliestExists DEF SweepRepeat
  <2>2. tickets' = [tickets EXCEPT ![t] = Adjudicated(sweep.decision)]
        /\ sweep' = [sweep EXCEPT !.repeats = sweep.repeats \ {t}] /\ sweep.pc = "repeats"
    BY <1>9 DEF SweepRepeat
  <2>3. tickets'[t].status = "adjudicated"
    BY <1>1, <2>1, <2>2 DEF Adjudicated
  <2> HIDE DEF t
  <2> QED
    BY <1>1, <2>2, <2>3 DEF RestInv, AnswersStep, Held
<1>10. CASE SweepRecord
  BY <1>1, <1>10 DEF SweepRecord, SweepIdle, RestInv, AnswersStep, Held
<1>11. CASE SweepEnd
  BY <1>3, <1>11 DEF SweepEnd
<1>12. CASE Die
  BY <1>2, <1>3, <1>12 DEF Die
<1>13. CASE LoseSync
  <2>1. CASE sweep.pc = "sync" /\ sweep' = [sweep EXCEPT !.pc = "repeats"]
    BY <1>1, <2>1 DEF RestInv, AnswersStep, Held
  <2> QED
    BY <1>2, <1>13, <2>1 DEF LoseSync
<1>14. ASSUME NEW t \in Tickets, Escalate(t) PROVE UNCHANGED sweep
  BY <1>14 DEF Escalate
<1>15. ASSUME NEW t \in Tickets, NEW v \in Verdicts, ConsoleAdjudicate(t, v) PROVE UNCHANGED sweep
  BY <1>15 DEF ConsoleAdjudicate
<1>16. ASSUME NEW c \in Cases, NEW v \in Verdicts, ConsoleDecide(c, v) PROVE UNCHANGED sweep
  BY <1>16 DEF ConsoleDecide
<1>17. CASE ConsoleSync \/ ConsoleClose
  BY <1>2, <1>17 DEF ConsoleSync, ConsoleClose
<1>18. ASSUME NEW c \in Cases, Overwrite(c) PROVE UNCHANGED sweep
  BY <1>18 DEF Overwrite
<1> QED
  BY <1>2, <1>4, <1>5, <1>6, <1>7, <1>8, <1>9, <1>10, <1>11, <1>12, <1>13, <1>14, <1>15, <1>16, <1>17,
     <1>18 DEF SupervisionNext, SweepStep

LEMMA AnswersNext == TypeInv /\ RestInv /\ [Next]_vars => RestInv' /\ [AnswersStep]_supervisionVars
<1> SUFFICES ASSUME SupervisionTyped, RestInv, [Next]_vars
             PROVE  RestInv' /\ [AnswersStep]_supervisionVars
  BY TypeParts
<1>1. ASSUME UNCHANGED sweep PROVE RestInv' /\ AnswersStep
  BY <1>1 DEF RestInv, AnswersStep, Held
<1>2. CASE SupervisionNext
  BY <1>2, SweepAnswers
<1>3. CASE UNCHANGED supervisionVars
  BY <1>1, <1>3 DEF supervisionVars
<1>4. ASSUME NEW r \in Responders, NEW t \in Tickets, File(r, t) PROVE UNCHANGED sweep
  BY <1>4 DEF File
<1> QED
  BY <1>1, <1>2, <1>3, <1>4 DEF Next, vars

\* A sweep that is not cut short answers every ticket it lists.
THEOREM SweepAnswersListed == Spec => SweepAnswersAll
<1>1. Init => RestInv
  BY DEF Init, SupervisionInit, RestInv, SweepIdle
<1>2. TypeInv /\ RestInv /\ [Next]_vars => [AnswersStep]_supervisionVars
  BY AnswersNext
<1>3. Spec => [][AnswersStep]_supervisionVars
  BY <1>1, <1>2, TypesHold, AnswersNext, PTL DEF Spec
<1> QED
  BY <1>3 DEF SweepAnswersAll, AnswersStep

----------------------------------------------------------------------------
\* An answered ticket's case comes to a decision, or a death or a failed sync pays for it.

Has(c) == Recorded(cases[c]) # NoVerdict

\* The sweep holds tickets of one case or of crossed ones; a case it does not
\* record on has its decision.
HoldInv ==
  /\ sweep.pc \in {"decide", "write", "sync", "repeats"} =>
       \A u \in sweep.repeats : CaseOf[u] = SweepCase \/ CaseOf[u] \in Crossed
  /\ sweep.pc \in {"write", "repeats"} /\ ~ sweep.records => Has(SweepCase)
  /\ console.pc = "close" => Has(CaseOf[console.ticket])

Owing == Orphans \ Crossed

OrphanInv == HoldInv /\ IsFiniteSet(Owing) /\ Cardinality(Owing) <= lapses

\* A decision recorded on a case is never lost.
Comes(c) == Recorded(cases'[c]) # NoVerdict

Keeps == \A c \in Cases : Has(c) => Comes(c)

SweepFields ==
  /\ sweep \in [pc : {"idle", "pick", "decide", "write", "sync", "repeats"},
                batch : SUBSET Tickets, ticket : Tickets \cup {0},
                repeats : SUBSET Tickets, decision : Verdicts \cup {NoVerdict},
                records : BOOLEAN]
  /\ cases \in [Cases -> [block : Verdicts \cup {NoVerdict}, last : Verdicts \cup {NoVerdict}]]
  /\ tickets \in [Tickets -> {Absent, Open} \cup {Adjudicated(v) : v \in Verdicts}]
  /\ sweep.pc \in {"decide", "write", "sync", "repeats"} =>
       sweep.ticket \in Tickets /\ sweep.decision \in Verdicts /\ SweepCase \in Cases
  /\ console.pc \in {"sync", "close"} =>
       console.ticket \in Tickets /\ console.decision \in Verdicts /\ CaseOf[console.ticket] \in Cases

LEMMA Fields == ASSUME SupervisionTyped PROVE SweepFields
BY Assumptions DEF SupervisionTyped, SweepTyped, SweepReady, ConsoleReady, SweepFields, SweepCase

\* What a step decides stays decided.
LEMMA DecidedHas ==
  ASSUME NEW v \in Verdicts, NEW case
  PROVE  /\ Recorded(Decided(v)) # NoVerdict /\ Recorded(Synced(case, v)) # NoVerdict
BY DEF Recorded, Decided, Synced, Verdicts, NoVerdict

LEMMA KeepsStep == ASSUME SupervisionTyped, Backed, SupervisionNext PROVE Keeps
<1>0. SweepFields
  BY Fields
<1>1. ASSUME UNCHANGED cases PROVE Keeps
  BY <1>1 DEF Keeps, Has, Comes
<1>2. ASSUME NEW d \in Cases, NEW x, cases' = [cases EXCEPT ![d] = x], Recorded(x) # NoVerdict
      PROVE  Keeps
  BY <1>0, <1>2 DEF Keeps, Has, Comes, SweepFields
<1>3. CASE SweepDecide
  BY <1>0, <1>1, <1>2, <1>3, DecidedHas DEF SweepDecide, SweepFields
<1>4. CASE SweepSync
  <2>1. cases' = [cases EXCEPT ![SweepCase] = Synced(cases[SweepCase], sweep.decision)]
    BY <1>4 DEF SweepSync
  <2>2. SweepCase \in Cases /\ sweep.decision \in Verdicts
    BY <1>0, <1>4 DEF SweepSync, SweepFields
  <2>3. Recorded(Synced(cases[SweepCase], sweep.decision)) # NoVerdict
    BY <2>2, DecidedHas
  <2> QED
    BY <1>2, <2>1, <2>2, <2>3
<1>5. CASE SweepRecord
  <2>1. CASE sweep.records
    <3> DEFINE x == [cases[SweepCase] EXCEPT !.last = sweep.decision]
    <3>1. SweepCase \in Cases /\ sweep.decision \in Verdicts
      BY <1>0, <1>5 DEF SweepRecord, SweepFields
    <3>2. x.last \in Verdicts
      BY <1>0, <3>1 DEF SweepFields
    <3>3. Recorded(x) # NoVerdict
      BY <3>2 DEF Recorded, Verdicts, NoVerdict
    <3>4. cases' = [cases EXCEPT ![SweepCase] = x]
      BY <1>5, <2>1 DEF SweepRecord
    <3> QED
      BY <1>2, <3>1, <3>3, <3>4
  <2> QED
    BY <1>1, <1>5, <2>1 DEF SweepRecord
<1>6. CASE ConsoleSync
  BY <1>0, <1>1, <1>2, <1>6, DecidedHas DEF ConsoleSync, Ruled, SweepFields
<1>7. ASSUME NEW c \in Cases, NEW v \in Verdicts, ConsoleDecide(c, v) PROVE Keeps
  BY <1>2, <1>7, DecidedHas DEF ConsoleDecide, Ruled
<1>8. ASSUME NEW c \in Cases, Overwrite(c) PROVE Keeps
  <2> DEFINE x == [cases[c] EXCEPT !.block = NoVerdict]
  <2>1. cases' = [cases EXCEPT ![c] = x] /\ cases[c].block # NoVerdict
    BY <1>8 DEF Overwrite
  <2>2. x.block = NoVerdict /\ x.last = cases[c].last
    BY <1>0 DEF SweepFields
  <2>3. Recorded(x) # NoVerdict
    BY <2>1, <2>2 DEF Recorded, Backed
  <2> HIDE DEF x
  <2> QED
    BY <1>2, <2>1, <2>3
<1> QED
  BY <1>1, <1>3, <1>4, <1>5, <1>6, <1>7, <1>8
     DEF SupervisionNext, SweepStep, Escalate, SweepStart, SweepRead, SweepWrite, SweepRepeat, SweepEnd,
         ConsoleAdjudicate, ConsoleClose, Die, LoseSync

\* The cases in flight, now and after a step.
SweepFlies(c) == sweep.pc \in {"sync", "repeats"} /\ c = SweepCase

ConsoleFlies(c) == console.pc = "sync" /\ c = CaseOf[console.ticket]

SweepLands(c) == sweep'.pc \in {"sync", "repeats"} /\ c = CaseOf[sweep'.ticket]

ConsoleLands(c) == console'.pc = "sync" /\ c = CaseOf[console'.ticket]

LEMMA InFlightIs ==
  ASSUME NEW c
  PROVE  /\ c \in InFlight => SweepFlies(c) \/ ConsoleFlies(c)
         /\ SweepLands(c) \/ ConsoleLands(c) => c \in InFlight'
<1>1. ASSUME c \in InFlight PROVE SweepFlies(c) \/ ConsoleFlies(c)
  <2>1. CASE c \in (IF sweep.pc \in {"sync", "repeats"} THEN {SweepCase} ELSE {})
    BY <2>1 DEF SweepFlies
  <2>2. CASE c \in (IF console.pc = "sync" THEN {CaseOf[console.ticket]} ELSE {})
    BY <2>2 DEF ConsoleFlies
  <2> QED
    BY <1>1, <2>1, <2>2 DEF InFlight
<1>2. ASSUME SweepLands(c) PROVE c \in InFlight'
  BY <1>2 DEF SweepLands, InFlight, SweepCase
<1>3. ASSUME ConsoleLands(c) PROVE c \in InFlight'
  BY <1>3 DEF ConsoleLands, InFlight
<1> QED
  BY <1>1, <1>2, <1>3

LEMMA HoldStep ==
  ASSUME SupervisionTyped, Modes, Backed, HoldInv, SupervisionNext PROVE HoldInv'
<1>0. SweepFields /\ Keeps
  BY Fields, KeepsStep
<1>1. ASSUME UNCHANGED sweep,
             console'.pc = "close" => console'.ticket \in Tickets /\ Comes(CaseOf[console'.ticket])
      PROVE  HoldInv'
  <2>1. sweep.pc \in {"write", "repeats"} /\ ~ sweep.records => Comes(SweepCase)
    BY <1>0 DEF HoldInv, Keeps, SweepFields
  <2> QED
    BY <1>1, <2>1 DEF HoldInv, SweepCase, Has, Comes
<1>2. console.pc = "close" => console.ticket \in Tickets /\ Comes(CaseOf[console.ticket])
  BY <1>0 DEF HoldInv, Keeps, SweepFields
<1>3. ASSUME sweep'.pc \in {"idle", "pick"}, UNCHANGED console PROVE HoldInv'
  BY <1>2, <1>3 DEF HoldInv, Has, Comes
<1>4. ASSUME sweep'.ticket = sweep.ticket, sweep'.repeats \subseteq sweep.repeats,
             sweep.pc \in {"decide", "write", "sync", "repeats"}, UNCHANGED console,
             sweep'.pc \in {"write", "repeats"} /\ ~ sweep'.records => Comes(SweepCase)
      PROVE  HoldInv'
  BY <1>2, <1>4 DEF HoldInv, Has, Comes, SweepCase
<1>5. sweep.pc \in {"write", "repeats"} /\ ~ sweep.records => Comes(SweepCase)
  BY <1>0 DEF HoldInv, Keeps, SweepFields
<1>6. ASSUME NEW t \in Tickets, Escalate(t) PROVE HoldInv'
  BY <1>1, <1>2, <1>6 DEF Escalate
<1>7. CASE SweepStart \/ SweepEnd \/ SweepRecord
  <2>1. sweep'.pc \in {"idle", "pick"}
    <3>1. [SweepIdle EXCEPT !.pc = "pick", !.batch = Listed].pc = "pick"
      BY DEF SweepIdle
    <3>2. [SweepIdle EXCEPT !.pc = "pick", !.batch = sweep.batch].pc = "pick" /\ SweepIdle.pc = "idle"
      BY DEF SweepIdle
    <3> QED
      BY <1>7, <3>1, <3>2 DEF SweepStart, SweepEnd, SweepRecord
  <2>2. UNCHANGED console
    BY <1>7 DEF SweepStart, SweepEnd, SweepRecord
  <2> QED
    BY <1>3, <2>1, <2>2
<1>8. CASE SweepRead
  <2> DEFINE t == Earliest(sweep.batch)
             case == cases[CaseOf[t]]
  <2>1. t \in sweep.batch /\ t \in Tickets /\ UNCHANGED <<cases, console>> /\ CaseOf[t] \in Cases
    BY <1>0, <1>8, EarliestExists, Assumptions DEF SweepRead, SweepFields
  <2>2. \A u \in Group(t) : CaseOf[u] = CaseOf[t] \/ CaseOf[u] \in Crossed
    BY <1>0, <2>1, Assumptions DEF Group, Crossed, SweepFields
  <2>3. ASSUME NEW pc, NEW v, sweep' = [Picked(t) EXCEPT !.pc = pc, !.decision = v, !.records = TRUE]
        PROVE  HoldInv'
    <3>1. sweep'.ticket = t /\ sweep'.records /\ sweep'.repeats = Group(t) \ {t}
      BY <1>0, <2>3 DEF Picked, SweepFields
    <3> QED
      BY <1>2, <2>1, <2>2, <3>1 DEF HoldInv, Has, Comes, SweepCase
  <2>4. ASSUME case.block # NoVerdict, sweep' = [Picked(t) EXCEPT !.pc = "write", !.decision = Gate(case)]
        PROVE  HoldInv'
    <3>1. sweep'.ticket = t /\ sweep'.repeats = Group(t) \ {t}
      BY <1>0, <2>4 DEF Picked, SweepFields
    <3>2. Comes(CaseOf[t])
      BY <2>1, <2>4 DEF Comes, Recorded
    <3> QED
      BY <1>2, <2>1, <2>2, <3>1, <3>2 DEF HoldInv, Has, Comes, SweepCase
  <2>5. \/ /\ case.block # NoVerdict
           /\ sweep' = [Picked(t) EXCEPT !.pc = "write", !.decision = Gate(case)]
        \/ \E pc \in {"decide", "write"}, v \in Verdicts :
             sweep' = [Picked(t) EXCEPT !.pc = pc, !.decision = v, !.records = TRUE]
    BY ONLY <1>8, SweepReads, Zenon
  <2> HIDE DEF t, case
  <2> QED
    BY ONLY <2>3, <2>4, <2>5
<1>9. CASE SweepDecide
  <2>1. CASE sweep' = SweepIdle
    BY <1>3, <1>9, <2>1 DEF SweepDecide, SweepIdle
  <2>2. CASE sweep' = [sweep EXCEPT !.pc = "write"]
    <3>1. sweep.records /\ sweep'.records = sweep.records
      BY <1>0, <1>9, <2>2 DEF SweepDecide, Modes, SweepFields
    <3>2. sweep'.ticket = sweep.ticket /\ sweep'.repeats = sweep.repeats
      BY <1>0, <2>2 DEF SweepFields
    <3> QED
      BY <1>4, <1>9, <3>1, <3>2 DEF SweepDecide
  <2> QED
    BY <1>9, <2>1, <2>2 DEF SweepDecide
<1>10. CASE SweepWrite
  <2>1. /\ sweep'.ticket = sweep.ticket /\ sweep'.repeats = sweep.repeats
        /\ sweep'.records = sweep.records
    BY <1>0, <1>10 DEF SweepWrite, SweepFields
  <2> QED
    BY <1>4, <1>5, <1>10, <2>1 DEF SweepWrite
<1>11. CASE SweepSync
  <2>1. /\ sweep'.ticket = sweep.ticket /\ sweep'.repeats = sweep.repeats
        /\ sweep'.records = sweep.records
    BY <1>0, <1>11 DEF SweepSync, SweepFields
  <2> QED
    BY <1>4, <1>11, <2>1 DEF SweepSync, Modes
<1>12. CASE SweepRepeat
  <2>1. /\ sweep'.ticket = sweep.ticket /\ sweep'.repeats \subseteq sweep.repeats
        /\ sweep'.records = sweep.records
    BY <1>0, <1>12 DEF SweepRepeat, SweepFields
  <2> QED
    BY <1>4, <1>5, <1>12, <2>1 DEF SweepRepeat
<1>13. ASSUME NEW t \in Tickets, NEW v \in Verdicts, ConsoleAdjudicate(t, v) PROVE HoldInv'
  BY <1>1, <1>13 DEF ConsoleAdjudicate
<1>14. CASE ConsoleSync \/ ConsoleClose
  BY <1>1, <1>14 DEF ConsoleSync, ConsoleClose, ConsoleIdle
<1>15. ASSUME NEW c \in Cases, NEW v \in Verdicts, ConsoleDecide(c, v) PROVE HoldInv'
  <2>1. Comes(c)
    BY <1>0, <1>15, DecidedHas DEF ConsoleDecide, Ruled, Comes, SweepFields
  <2>2. CASE OpenOf(c) = {}
    BY <1>1, <1>2, <1>15, <2>2 DEF ConsoleDecide
  <2>3. CASE OpenOf(c) # {}
    <3>1. Earliest(OpenOf(c)) \in OpenOf(c)
      BY <2>3, EarliestExists DEF OpenOf, OpenTickets
    <3> QED
      BY <1>1, <1>15, <2>1, <2>3, <3>1 DEF ConsoleDecide, OpenOf, OpenTickets
  <2> QED
    BY <2>2, <2>3
<1>16. CASE Die
  BY <1>1, <1>3, <1>16 DEF Die, SweepIdle, ConsoleIdle
<1>17. CASE LoseSync
  <2>1. CASE sweep.pc = "sync" /\ sweep' = [sweep EXCEPT !.pc = "repeats"] /\ UNCHANGED console
    <3>1. /\ sweep'.ticket = sweep.ticket /\ sweep'.repeats = sweep.repeats
          /\ sweep'.records = sweep.records
      BY <1>0, <2>1 DEF SweepFields
    <3> QED
      BY <1>4, <2>1, <3>1 DEF Modes
  <2> QED
    BY <1>1, <1>17, <2>1 DEF LoseSync, ConsoleIdle
<1>18. ASSUME NEW c \in Cases, Overwrite(c) PROVE HoldInv'
  BY <1>1, <1>2, <1>18 DEF Overwrite
<1> QED
  BY <1>6, <1>7, <1>8, <1>9, <1>10, <1>11, <1>12, <1>13, <1>14, <1>15, <1>16, <1>17, <1>18
     DEF SupervisionNext, SweepStep

\* A step leaves a case answered, out of flight and undecided only if it is in X.
Settles(X) ==
  \A c \in Cases \ Crossed :
    c \in AnsweredCases' \ AnsweredCases \/ SweepFlies(c) \/ ConsoleFlies(c) =>
      Comes(c) \/ SweepLands(c) \/ ConsoleLands(c) \/ c \in X

\* What a step settles does not become an orphan.
LEMMA SettledOrphans ==
  ASSUME SupervisionTyped, Keeps, NEW X, Settles(X)
  PROVE  Owing' \subseteq Owing \cup X
<1>0. Crossed' = Crossed
  BY DEF Crossed
<1> SUFFICES ASSUME NEW c \in Orphans', c \notin X, c \notin Crossed PROVE c \in Orphans
  BY <1>0 DEF Owing
<1>1. c \in AnsweredCases' /\ c \notin InFlight' /\ ~ Comes(c)
  BY DEF Orphans, Comes
<1>2. c \in Cases
  BY <1>1, Assumptions DEF AnsweredCases
<1>3. ~ SweepLands(c) /\ ~ ConsoleLands(c)
  BY <1>1, InFlightIs
<1>4. c \in AnsweredCases /\ ~ SweepFlies(c) /\ ~ ConsoleFlies(c)
  BY <1>1, <1>2, <1>3 DEF Settles
<1>5. c \notin InFlight
  BY <1>4, InFlightIs
<1>6. Recorded(cases[c]) = NoVerdict
  BY <1>1, <1>2 DEF Keeps, Has
<1> QED
  BY <1>4, <1>5, <1>6 DEF Orphans

\* A write to one ticket answers at most its own case.
LEMMA AnswersGrow ==
  ASSUME SupervisionTyped, NEW t \in Tickets, NEW y, tickets' = [tickets EXCEPT ![t] = y],
         NEW c \in AnsweredCases' \ AnsweredCases
  PROVE  c = CaseOf[t] /\ y.status = "adjudicated"
<1>1. PICK u \in Tickets : tickets'[u].status = "adjudicated" /\ c = CaseOf[u]
  BY DEF AnsweredCases
<1>2. tickets[u].status # "adjudicated"
  BY <1>1 DEF AnsweredCases
<1> QED
  BY <1>1, <1>2, Fields DEF SweepFields

LEMMA FilingAnswersNone ==
  ASSUME SupervisionTyped, NEW t \in Tickets, tickets' = Filed(t)
  PROVE  AnsweredCases' \ AnsweredCases = {}
<1> SUFFICES ASSUME NEW c \in AnsweredCases' \ AnsweredCases PROVE FALSE
  OBVIOUS
<1>1. Open.status = "adjudicated"
  BY AnswersGrow DEF Filed
<1> QED
  BY <1>1 DEF Open

\* A fault leaves one case unsettled, any other step none.
LEMMA StepSettles ==
  ASSUME SupervisionTyped, Modes, Backed, HoldInv, SupervisionNext
  PROVE  \/ lapses' = lapses /\ Settles({})
         \/ lapses' = lapses + 1 /\ \E x \in Cases : Settles({x})
<1>0. SweepFields /\ Keeps
  BY Fields, KeepsStep
<1>a. ASSUME UNCHANGED tickets PROVE AnsweredCases' \ AnsweredCases = {}
  BY <1>a DEF AnsweredCases
\* A step of the sweep that starts and ends out of flight, and one of anyone else.
<1>b. ASSUME UNCHANGED sweep, NEW c, SweepFlies(c) PROVE SweepLands(c)
  BY <1>b DEF SweepFlies, SweepLands, SweepCase
<1>c. ASSUME UNCHANGED console, NEW c, ConsoleFlies(c) PROVE ConsoleLands(c)
  BY <1>c DEF ConsoleFlies, ConsoleLands
<1>1. ASSUME NEW t \in Tickets, Escalate(t) PROVE lapses' = lapses /\ Settles({})
  BY <1>1, <1>b, <1>c, FilingAnswersNone DEF Escalate, Settles
<1>2. CASE SweepStart \/ SweepRead \/ SweepDecide \/ SweepEnd
  <2>1. UNCHANGED <<tickets, console, lapses>>
    BY <1>2 DEF SweepStart, SweepRead, SweepDecide, SweepEnd
  <2>2. \A c : ~ SweepFlies(c)
    BY <1>2 DEF SweepStart, SweepRead, SweepDecide, SweepEnd, SweepFlies
  <2> QED
    BY <1>a, <1>c, <2>1, <2>2 DEF Settles
<1>3. CASE SweepWrite
  <2>1. /\ sweep.ticket \in Tickets /\ sweep'.ticket = sweep.ticket
        /\ sweep'.pc = IF sweep.records THEN "sync" ELSE "repeats"
    BY <1>0, <1>3 DEF SweepWrite, SweepFields
  <2>2. \A c \in AnsweredCases' \ AnsweredCases : SweepLands(c)
    BY <1>3, <2>1, AnswersGrow DEF SweepWrite, SweepLands
  <2>3. \A c : ~ SweepFlies(c)
    BY <1>3 DEF SweepWrite, SweepFlies
  <2> QED
    BY <1>3, <1>c, <2>2, <2>3 DEF SweepWrite, Settles
<1>4. CASE SweepSync
  <2>1. sweep'.ticket = sweep.ticket /\ sweep'.pc = "repeats"
    BY <1>0, <1>4 DEF SweepSync, SweepFields
  <2>2. \A c : SweepFlies(c) => SweepLands(c)
    BY <2>1 DEF SweepFlies, SweepLands, SweepCase
  <2> QED
    BY <1>4, <1>a, <1>c, <2>2 DEF SweepSync, Settles
<1>5. CASE SweepRepeat
  <2> DEFINE t == Earliest(sweep.repeats)
  <2>1. /\ t \in sweep.repeats /\ t \in Tickets
        /\ CaseOf[t] = SweepCase \/ CaseOf[t] \in Crossed
        /\ tickets' = [tickets EXCEPT ![t] = Adjudicated(sweep.decision)]
        /\ UNCHANGED <<console, lapses>>
    BY <1>0, <1>5, EarliestExists, Assumptions DEF SweepRepeat, SweepFields, HoldInv
  <2>2. sweep'.ticket = sweep.ticket /\ sweep'.pc = "repeats"
    BY <1>0, <1>5 DEF SweepRepeat, SweepFields
  <2>3. \A c \in AnsweredCases' \ AnsweredCases : c = SweepCase \/ c \in Crossed
    BY <2>1, AnswersGrow
  <2>4. \A c : c = SweepCase => SweepLands(c)
    BY <2>2 DEF SweepLands, SweepCase
  <2>5. \A c : SweepFlies(c) => c = SweepCase
    BY DEF SweepFlies
  <2> QED
    BY <1>c, <2>1, <2>3, <2>4, <2>5 DEF Settles
<1>6. CASE SweepRecord
  <2>1. Comes(SweepCase)
    <3>1. CASE sweep.records
      <4>1. SweepCase \in Cases /\ sweep.decision \in Verdicts
        BY <1>0, <1>6 DEF SweepRecord, SweepFields
      <4>2. cases'[SweepCase] = [cases[SweepCase] EXCEPT !.last = sweep.decision]
        BY <1>0, <1>6, <3>1, <4>1 DEF SweepRecord, SweepFields
      <4>3. cases'[SweepCase].last = sweep.decision
        BY <1>0, <4>1, <4>2 DEF SweepFields
      <4> QED
        BY <4>1, <4>3 DEF Comes, Recorded, Verdicts, NoVerdict
    <3>2. CASE ~ sweep.records
      BY <1>0, <1>6, <3>2 DEF SweepRecord, SweepFields, HoldInv, Keeps
    <3> QED
      BY <3>1, <3>2
  <2>2. \A c : SweepFlies(c) => Comes(c)
    BY <2>1 DEF SweepFlies
  <2> QED
    BY <1>6, <1>a, <1>c, <2>2 DEF SweepRecord, Settles
<1>7. ASSUME NEW t \in Tickets, NEW v \in Verdicts, ConsoleAdjudicate(t, v)
      PROVE  lapses' = lapses /\ Settles({})
  <2>1. \A c \in AnsweredCases' \ AnsweredCases : c = CaseOf[t]
    BY <1>7, AnswersGrow DEF ConsoleAdjudicate
  <2>2. ConsoleLands(CaseOf[t])
    BY <1>7 DEF ConsoleAdjudicate, ConsoleLands
  <2>3. \A c : ~ ConsoleFlies(c)
    BY <1>7 DEF ConsoleAdjudicate, ConsoleFlies
  <2> QED
    BY <1>7, <1>b, <2>1, <2>2, <2>3 DEF ConsoleAdjudicate, Settles
<1>8. CASE ConsoleSync
  <2> DEFINE c == CaseOf[console.ticket]
  <2>1. c \in Cases /\ console.decision \in Verdicts
    BY <1>0, <1>8 DEF ConsoleSync, SweepFields
  <2>2. Comes(c)
    <3>1. CASE Recorded(cases[c]) = NoVerdict
      BY <1>0, <1>8, <2>1, <3>1, DecidedHas DEF ConsoleSync, Ruled, Comes, SweepFields
    <3>2. CASE Recorded(cases[c]) # NoVerdict
      BY <1>0, <2>1, <3>2 DEF Keeps, Has
    <3> QED
      BY <3>1, <3>2
  <2>3. \A d : ConsoleFlies(d) => Comes(d)
    BY <2>2 DEF ConsoleFlies
  <2> QED
    BY <1>8, <1>a, <1>b, <2>3 DEF ConsoleSync, Settles
<1>9. ASSUME NEW c \in Cases, NEW v \in Verdicts, ConsoleDecide(c, v)
      PROVE  lapses' = lapses /\ Settles({})
  <2>1. \A d : ~ ConsoleFlies(d)
    BY <1>9 DEF ConsoleDecide, ConsoleFlies
  <2> QED
    BY <1>9, <1>a, <1>b, <2>1 DEF ConsoleDecide, Settles
<1>10. CASE ConsoleClose
  <2>1. console.ticket \in Tickets /\ Comes(CaseOf[console.ticket])
    BY <1>0, <1>10 DEF ConsoleClose, HoldInv, SweepFields, Keeps
  <2>2. \A c \in AnsweredCases' \ AnsweredCases : c = CaseOf[console.ticket]
    BY <1>10, <2>1, AnswersGrow DEF ConsoleClose
  <2>3. \A d : ~ ConsoleFlies(d)
    BY <1>10 DEF ConsoleClose, ConsoleFlies
  <2> QED
    BY <1>10, <1>b, <2>1, <2>2, <2>3 DEF ConsoleClose, Settles
<1>11. CASE Die \/ LoseSync
  <2>1. lapses' = lapses + 1 /\ UNCHANGED tickets
    BY <1>11 DEF Die, LoseSync
  <2>2. CASE UNCHANGED console
    <3>1. PICK x \in Cases : \A c : SweepFlies(c) => c = x
      <4>1. CASE sweep.pc \in {"sync", "repeats"}
        <5>1. SweepCase \in Cases
          BY <1>0, <4>1 DEF SweepFields
        <5> QED
          BY <5>1 DEF SweepFlies
      <4>2. CASE sweep.pc \notin {"sync", "repeats"}
        <5>1. \A c : ~ SweepFlies(c)
          BY <4>2 DEF SweepFlies
        <5>2. sweep.pc # "idle" \/ sweep.pc = "sync"
          BY <1>11, <2>2 DEF Die, LoseSync, ConsoleIdle
        <5> QED
          BY <5>1, <5>2, Assumptions
      <4> QED
        BY <4>1, <4>2
    <3> QED
      BY <1>a, <1>c, <2>1, <2>2, <3>1 DEF Settles
  <2>3. CASE UNCHANGED sweep
    <3>1. PICK x \in Cases : \A c : ConsoleFlies(c) => c = x
      <4>1. CASE console.pc = "sync"
        BY <1>0, <4>1 DEF SweepFields, ConsoleFlies
      <4>2. CASE console.pc # "sync"
        BY <4>2, Assumptions DEF ConsoleFlies
      <4> QED
        BY <4>1, <4>2
    <3> QED
      BY <1>a, <1>b, <2>1, <2>3, <3>1 DEF Settles
  <2> QED
    BY <1>11, <2>2, <2>3 DEF Die, LoseSync
<1>12. ASSUME NEW c \in Cases, Overwrite(c) PROVE lapses' = lapses /\ Settles({})
  BY <1>a, <1>b, <1>c, <1>12 DEF Overwrite, Settles
<1> QED
  BY <1>1, <1>2, <1>3, <1>4, <1>5, <1>6, <1>7, <1>8, <1>9, <1>10, <1>11, <1>12
     DEF SupervisionNext, SweepStep

LEMMA OrphanInit == Init => OrphanInv
<1> SUFFICES ASSUME Init PROVE OrphanInv
  OBVIOUS
<1>1. HoldInv
  BY DEF Init, SupervisionInit, HoldInv, SweepIdle, ConsoleIdle
<1>2. Owing = {}
  BY DEF Init, SupervisionInit, Owing, Orphans, AnsweredCases, Absent
<1>3. IsFiniteSet(Owing) /\ Cardinality(Owing) = 0 /\ lapses = 0
  BY <1>2, FS_EmptySet DEF Init, SupervisionInit
<1> QED
  BY <1>1, <1>3 DEF OrphanInv

LEMMA OrphanStep ==
  ASSUME TypeInv, DenialInv, OrphanInv, [Next]_vars
  PROVE  OrphanInv'
<1>0. SupervisionTyped /\ Modes /\ Backed /\ lapses \in Nat
  BY TypeParts, Assumptions DEF DenialInv, SupervisionTyped
<1>1. CASE SupervisionNext
  <2>1. HoldInv'
    BY <1>0, <1>1, HoldStep DEF OrphanInv
  <2>2. Keeps
    BY <1>0, <1>1, KeepsStep
  <2>3. CASE lapses' = lapses /\ Settles({})
    <3>1. Owing' \subseteq Owing
      BY <1>0, <2>2, <2>3, SettledOrphans
    <3>2. IsFiniteSet(Owing') /\ Cardinality(Owing') <= Cardinality(Owing)
      BY <3>1, FS_Subset DEF OrphanInv
    <3>3. Cardinality(Owing) \in Nat /\ Cardinality(Owing') \in Nat
      BY <3>2, FS_CardinalityType DEF OrphanInv
    <3> QED
      BY <1>0, <2>1, <2>3, <3>2, <3>3 DEF OrphanInv
  <2>4. ASSUME lapses' = lapses + 1, NEW x \in Cases, Settles({x}) PROVE OrphanInv'
    <3>1. Owing' \subseteq Owing \cup {x}
      BY <1>0, <2>2, <2>4, SettledOrphans
    <3>2. /\ IsFiniteSet(Owing \cup {x}) /\ Cardinality(Owing) \in Nat
          /\ Cardinality(Owing \cup {x}) <= Cardinality(Owing) + 1
      <4>1. IsFiniteSet(Owing) /\ Cardinality(Owing) \in Nat
        BY FS_CardinalityType DEF OrphanInv
      <4>2. /\ IsFiniteSet(Owing \cup {x})
            /\ Cardinality(Owing \cup {x}) = IF x \in Owing THEN Cardinality(Owing)
                                               ELSE Cardinality(Owing) + 1
        BY <4>1, FS_AddElement
      <4> QED
        BY <4>1, <4>2
    <3>3. IsFiniteSet(Owing') /\ Cardinality(Owing') <= Cardinality(Owing \cup {x})
      BY <3>1, <3>2, FS_Subset
    <3>4. Cardinality(Owing \cup {x}) \in Nat /\ Cardinality(Owing') \in Nat
      BY <3>2, <3>3, FS_CardinalityType
    <3> QED
      BY <1>0, <2>1, <2>4, <3>2, <3>3, <3>4 DEF OrphanInv
  <2> QED
    BY <1>0, <1>1, <2>3, <2>4, StepSettles DEF OrphanInv
<1>2. ASSUME UNCHANGED supervisionVars PROVE OrphanInv'
  BY <1>2 DEF supervisionVars, OrphanInv, HoldInv, Has, SweepCase, Crossed, Owing, Orphans, AnsweredCases,
              InFlight
<1>3. ASSUME NEW r \in Responders, NEW t \in Tickets, File(r, t) PROVE OrphanInv'
  <2>1. UNCHANGED <<cases, sweep, console, lapses>> /\ tickets' = Filed(t)
    BY <1>3 DEF File
  <2>2. HoldInv'
    BY <2>1 DEF OrphanInv, HoldInv, Has, SweepCase, Crossed
  <2>3. Settles({}) /\ Keeps
    BY <1>0, <2>1, FilingAnswersNone
       DEF Settles, SweepFlies, SweepLands, ConsoleFlies, ConsoleLands, SweepCase, Keeps, Has, Comes
  <2>4. Owing' \subseteq Owing
    BY <1>0, <2>3, SettledOrphans
  <2>5. IsFiniteSet(Owing') /\ Cardinality(Owing') <= Cardinality(Owing)
    BY <2>4, FS_Subset DEF OrphanInv
  <2>6. Cardinality(Owing) \in Nat /\ Cardinality(Owing') \in Nat
    BY <2>5, FS_CardinalityType DEF OrphanInv
  <2> QED
    BY <1>0, <2>1, <2>2, <2>5, <2>6 DEF OrphanInv
<1> QED
  BY <1>1, <1>2, <1>3 DEF Next, vars

\* A case with an answered ticket and no decision is paid for by a process that
\* died or a sync that failed, whatever reads and writes miss its decision, unless
\* it shares the title of a ticket with another case.
THEOREM OrphansPaid == Spec => []OrphansArePaid
<1>1. OrphanInv => OrphansArePaid
  BY DEF OrphanInv, OrphansArePaid, Owing
<1>2. TypeInv /\ DenialInv /\ OrphanInv /\ [Next]_vars => OrphanInv'
  BY OrphanStep
<1> QED
  BY <1>1, <1>2, TypesHold, DenialInit, DenialStep, OrphanInit, PTL DEF Spec
=============================================================================
