----------------------------- MODULE HuntProofs -----------------------------
(***************************************************************************)
(* Theorems of Hunt: that a ticket of the sweep is paid for by a case, or  *)
(* by a death of the sweep, and that a second case of a hunt is excused.   *)
(* For any hunts, analyzers, telemetry, ledgers and bounds.                *)
(***************************************************************************)
EXTENDS Hunt, TLAPS

----------------------------------------------------------------------------
\* The inductive invariant.

CaseOf ==
  [hunt : Hunts, status : {"open", "shut", "closed"}, age : 0..2, sourced : BOOLEAN,
   escalated : BOOLEAN, tickets : [Openers -> Nat], torn : Nat, by : Openers,
   excuse : SUBSET {"blind", "race", "hand"}]

Jobs ==
  [pc : {"scan", "attach", "cool", "mint", "ticket", "mark"}, at : Nat, hunt : Hunts,
   escalates : BOOLEAN, tuned : BOOLEAN, case : Nat, seen : Nat, blind : BOOLEAN]

\* The sweep is at a hunt of its list, the router at none or at one.
SweepShape ==
  LET s == agent["sweep"] IN
  \/ \E n \in DOMAIN Order : s = Turn(n)
  \/ /\ s \in Jobs /\ s.at \in DOMAIN Order
     /\ s.pc \in {"attach", "ticket", "mark"} => s.case \in DOMAIN cases

RouterShape ==
  LET s == agent["router"] IN
  \/ s = Rest
  \/ /\ s \in Jobs /\ s.pc \in {"scan", "mint", "ticket"}
     /\ s.pc = "ticket" => s.case \in DOMAIN cases

ShapeInv ==
  /\ cases \in Seq(CaseOf)
  /\ DOMAIN agent = Agents
  /\ SweepShape /\ RouterShape

\* What the sweep filed for a case and has not marked on it was torn from it, or is about
\* to be marked; it files for no case that is marked.
Marked(i) == cases[i].escalated \/ (At("sweep", "mark") /\ agent["sweep"].case = i)

SweepPays ==
  \A i \in DOMAIN cases :
    /\ cases[i].tickets["sweep"] <= cases[i].torn + (IF Marked(i) THEN 1 ELSE 0)
    /\ At("sweep", "ticket") /\ agent["sweep"].case = i => ~ cases[i].escalated

\* The router files for the case it has just opened, and has not filed for it yet.
OpenerPays ==
  \A i \in DOMAIN cases :
    /\ \A g \in {"router", "hand"} : cases[i].tickets[g] <= IF cases[i].by = g THEN 1 ELSE 0
    /\ At("router", "ticket") /\ agent["router"].case = i
         => cases[i].by = "router" /\ cases[i].tickets["router"] = 0

\* A process about to open a case has seen every open one, unless its scan failed.
HasLooked(g) ==
  agent[g].pc \in {"cool", "mint"} =>
    /\ agent[g].seen <= Len(cases)
    /\ agent[g].blind \/ \A i \in OpenOfHunt(agent[g].hunt) : i > agent[g].seen

LookInv == \A g \in Agents : HasLooked(g)

----------------------------------------------------------------------------
\* The hunts and the processes.

LEMMA HuntsListed ==
  /\ 1 \in DOMAIN Order /\ DOMAIN Order = 1..Len(Order) /\ Len(Order) \in Nat
  /\ \A n \in DOMAIN Order : Order[n] \in Hunts
<1>1. Order \in Seq(STRING) /\ Order # <<>>
  BY HuntAssumption
<1>2. DOMAIN Order = 1..Len(Order) /\ Len(Order) \in Nat /\ Len(Order) # 0
  BY <1>1
<1> QED
  BY <1>2 DEF Hunts

\* The sweep's next turn is at a hunt of its list.
LEMMA FollowingTurn ==
  ASSUME ShapeInv PROVE \E n \in DOMAIN Order : Following = Turn(n)
<1>1. agent["sweep"].at \in DOMAIN Order
  <2>1. CASE \E n \in DOMAIN Order : agent["sweep"] = Turn(n)
    BY <2>1 DEF Turn
  <2>2. CASE agent["sweep"].at \in DOMAIN Order
    BY <2>2
  <2> QED
    BY <2>1, <2>2 DEF ShapeInv, SweepShape
<1> QED
  BY <1>1, HuntsListed DEF Following

\* A sequence of cases whose case i is rewritten is one of cases, of the same length.
LEMMA Rewritten ==
  ASSUME cases \in Seq(CaseOf), NEW i \in DOMAIN cases, NEW c \in CaseOf,
         cases' = [cases EXCEPT ![i] = c]
  PROVE  /\ cases' \in Seq(CaseOf) /\ Len(cases') = Len(cases) /\ DOMAIN cases' = DOMAIN cases
         /\ cases'[i] = c /\ \A j \in DOMAIN cases : j # i => cases'[j] = cases[j]
OBVIOUS

\* A case opened is the last one.
LEMMA Another ==
  ASSUME cases \in Seq(CaseOf), NEW c \in CaseOf, cases' = Append(cases, c)
  PROVE  /\ cases' \in Seq(CaseOf) /\ Len(cases') = Len(cases) + 1 /\ Len(cases) \in Nat
         /\ DOMAIN cases' = DOMAIN cases \cup {Len(cases) + 1}
         /\ DOMAIN cases = 1..Len(cases)
         /\ cases'[Len(cases) + 1] = c /\ \A j \in DOMAIN cases : cases'[j] = cases[j]
OBVIOUS

LEMMA ShapeInit == Init => ShapeInv
<1> SUFFICES ASSUME Init PROVE ShapeInv
  OBVIOUS
<1>1. cases \in Seq(CaseOf)
  BY DEF Init
<1>2. DOMAIN agent = Agents /\ agent["sweep"] = Turn(1) /\ agent["router"] = Rest
  BY DEF Init, Agents
<1> QED
  BY <1>1, <1>2, HuntsListed DEF ShapeInv, SweepShape, RouterShape

\* What a step may leave a process at.
GoodTurn(s) ==
  \/ \E n \in DOMAIN Order : s = Turn(n)
  \/ /\ s \in Jobs /\ s.at \in DOMAIN Order
     /\ s.pc \in {"attach", "ticket", "mark"} => s.case \in DOMAIN cases'

GoodRest(s) ==
  \/ s = Rest
  \/ /\ s \in Jobs /\ s.pc \in {"scan", "mint", "ticket"}
     /\ s.pc = "ticket" => s.case \in DOMAIN cases'

\* A job begun at a hunt, and the sweep's, which has its place and what the ledger says.
LEMMA JobBegins ==
  ASSUME NEW h \in Hunts, NEW finding
  PROVE  Job(h, finding) \in Jobs /\ Job(h, finding).pc = "scan"
BY DEF Job, Jobs

LEMMA SweepJob ==
  ASSUME NEW j \in Jobs, j.pc = "scan", NEW n \in DOMAIN Order, NEW b \in BOOLEAN
  PROVE  GoodTurn([j EXCEPT !.at = n, !.tuned = b])
<1>1. n \in Nat
  BY HuntsListed
<1>2. /\ [j EXCEPT !.at = n, !.tuned = b] \in Jobs
      /\ [j EXCEPT !.at = n, !.tuned = b].pc = "scan"
      /\ [j EXCEPT !.at = n, !.tuned = b].at = n
  BY <1>1 DEF Jobs
<1> QED
  BY <1>2 DEF GoodTurn

\* A job goes on.
LEMMA JobGoes ==
  ASSUME NEW j \in Jobs, NEW pc \in {"scan", "attach", "cool", "mint", "ticket", "mark"}
  PROVE  /\ [j EXCEPT !.pc = pc] \in Jobs /\ [j EXCEPT !.pc = pc].pc = pc
         /\ [j EXCEPT !.pc = pc].at = j.at /\ [j EXCEPT !.pc = pc].case = j.case
         /\ [j EXCEPT !.pc = pc].hunt = j.hunt /\ [j EXCEPT !.pc = pc].seen = j.seen
         /\ [j EXCEPT !.pc = pc].blind = j.blind
BY DEF Jobs

\* A process takes a case, or has looked at the cases there are.
LEMMA JobTakes ==
  ASSUME NEW j \in Jobs, NEW i \in Nat, i \in DOMAIN cases'
  PROVE  /\ j.at \in DOMAIN Order => GoodTurn([j EXCEPT !.pc = "attach", !.case = i])
         /\ j.at \in DOMAIN Order => GoodTurn([j EXCEPT !.pc = "ticket", !.case = i])
         /\ GoodRest([j EXCEPT !.pc = "ticket", !.case = i])
<1>1. ASSUME NEW pc \in {"attach", "ticket"}
      PROVE  /\ [j EXCEPT !.pc = pc, !.case = i] \in Jobs
             /\ [j EXCEPT !.pc = pc, !.case = i].at = j.at
             /\ [j EXCEPT !.pc = pc, !.case = i].pc = pc
             /\ [j EXCEPT !.pc = pc, !.case = i].case = i
  BY DEF Jobs
<1> QED
  BY <1>1 DEF GoodTurn, GoodRest

LEMMA JobLooks ==
  ASSUME NEW j \in Jobs, NEW n \in Nat, NEW b \in BOOLEAN
  PROVE  /\ j.at \in DOMAIN Order => GoodTurn([j EXCEPT !.pc = "cool", !.seen = n, !.blind = b])
         /\ GoodRest([j EXCEPT !.pc = "mint", !.seen = n, !.blind = b])
<1>1. ASSUME NEW pc \in {"cool", "mint"}
      PROVE  /\ [j EXCEPT !.pc = pc, !.seen = n, !.blind = b] \in Jobs
             /\ [j EXCEPT !.pc = pc, !.seen = n, !.blind = b].at = j.at
             /\ [j EXCEPT !.pc = pc, !.seen = n, !.blind = b].pc = pc
  BY DEF Jobs
<1> QED
  BY <1>1 DEF GoodTurn, GoodRest

\* A case as it is opened.
LEMMA CaseOpens ==
  ASSUME NEW g \in Openers, NEW h \in Hunts, NEW excuse \in SUBSET {"blind", "race", "hand"}
  PROVE  NewCase(g, h, excuse) \in CaseOf
BY DEF NewCase, CaseOf

\* Who opens what.
LEMMA ExcuseIsOne == ASSUME NEW g PROVE Excuse(g) \in SUBSET {"blind", "race", "hand"}
BY DEF Excuse

\* What a step of the sweep or of the router says of that process.
LEMMA AgentMoves ==
  ASSUME ShapeInv, NEW g \in Agents, NEW s, Becomes(g, s)
  PROVE  DOMAIN agent' = Agents /\ agent'[g] = s /\ \A a \in Agents : a # g => agent'[a] = agent[a]
BY DEF ShapeInv, Becomes

----------------------------------------------------------------------------
\* What is written to a case.

\* d is c later on: a case keeps its hunt, its opener and its excuse, never opens again,
\* never grows younger and never gets back a source it lost.
Later(c, d) ==
  /\ d.hunt = c.hunt /\ d.by = c.by /\ d.excuse = c.excuse
  /\ d.status = "open" => c.status = "open"
  /\ d.age >= c.age
  /\ d.sourced => c.sourced

SamePay(c, d) == d.tickets = c.tickets /\ d.torn = c.torn /\ d.escalated = c.escalated

Writes(i, d) ==
  /\ i \in DOMAIN cases /\ d \in CaseOf /\ Later(cases[i], d)
  /\ cases' = [cases EXCEPT ![i] = d]

\* A process that is not waiting is at a hunt.
LEMMA SweepAt ==
  ASSUME ShapeInv, agent["sweep"].pc # "look"
  PROVE  /\ agent["sweep"] \in Jobs /\ agent["sweep"].at \in DOMAIN Order
         /\ agent["sweep"].pc \in {"attach", "ticket", "mark"} => agent["sweep"].case \in DOMAIN cases
<1>1. ASSUME NEW n PROVE agent["sweep"] # Turn(n)
  BY DEF Turn
<1> QED
  BY <1>1 DEF ShapeInv, SweepShape

LEMMA RouterAt ==
  ASSUME ShapeInv, agent["router"].pc # "rest"
  PROVE  /\ agent["router"] \in Jobs /\ agent["router"].pc \in {"scan", "mint", "ticket"}
         /\ agent["router"].pc = "ticket" => agent["router"].case \in DOMAIN cases
BY DEF ShapeInv, RouterShape, Rest

LEMMA UnsourcesWrites ==
  ASSUME ShapeInv, NEW i \in DOMAIN cases, Unsources(i)
  PROVE  \E d : Writes(i, d) /\ SamePay(cases[i], d)
<1> DEFINE d == [cases[i] EXCEPT !.sourced = FALSE]
<1>1. cases[i] \in CaseOf
  BY DEF ShapeInv
<1>2. d \in CaseOf /\ Later(cases[i], d) /\ SamePay(cases[i], d)
  <2>1. ASSUME NEW b \in BOOLEAN, b => cases[i].sourced
        PROVE  LET e == [cases[i] EXCEPT !.sourced = b] IN
               e \in CaseOf /\ Later(cases[i], e) /\ SamePay(cases[i], e)
    BY <1>1, <2>1 DEF CaseOf, Later, SamePay
  <2> QED
    BY <2>1
<1>3. cases' = [cases EXCEPT ![i] = d]
  BY DEF Unsources
<1> QED
  BY <1>2, <1>3 DEF Writes

\* The steps that append to a case and do nothing else to it.
Appending == Scan \/ Attach \/ RouterScan \/ \E i \in DOMAIN cases : Overwrite(i)

LEMMA AppendingWrites ==
  ASSUME ShapeInv, Appending
  PROVE  UNCHANGED cases \/ \E i, d : Writes(i, d) /\ SamePay(cases[i], d)
<1>1. \A h : OpenOfHunt(h) \subseteq DOMAIN cases
  BY DEF OpenOfHunt
<1>2. Attach => agent["sweep"].case \in DOMAIN cases
  BY SweepAt DEF Attach, At
<1>3. UNCHANGED cases \/ \E i \in DOMAIN cases : Unsources(i)
  BY <1>1, <1>2 DEF Appending, Scan, Attach, RouterScan, Overwrite, Rechecks
<1> QED
  BY <1>3, UnsourcesWrites

LEMMA FiledWrites ==
  ASSUME ShapeInv, NEW g \in Openers, NEW i \in DOMAIN cases, Filed(g, i)
  PROVE  \E d : /\ Writes(i, d) /\ d.torn = cases[i].torn /\ d.escalated = cases[i].escalated
              /\ d.tickets[g] = cases[i].tickets[g] + 1
              /\ \A a \in Openers : a # g => d.tickets[a] = cases[i].tickets[a]
<1> DEFINE d == [cases[i] EXCEPT !.tickets[g] = @ + 1]
<1>1. cases[i] \in CaseOf
  BY DEF ShapeInv
<1>2. d \in CaseOf /\ Later(cases[i], d)
  BY <1>1 DEF CaseOf, Later
<1>3. /\ d.torn = cases[i].torn /\ d.escalated = cases[i].escalated
      /\ d.tickets[g] = cases[i].tickets[g] + 1
      /\ \A a \in Openers : a # g => d.tickets[a] = cases[i].tickets[a]
  BY <1>1 DEF CaseOf
<1>4. cases' = [cases EXCEPT ![i] = d]
  BY DEF Filed
<1> QED
  BY <1>2, <1>3, <1>4 DEF Writes

LEMMA MarkWrites ==
  ASSUME ShapeInv, Mark
  PROVE  LET i == agent["sweep"].case IN
         \E d : Writes(i, d) /\ d.escalated = TRUE /\ d.tickets = cases[i].tickets /\ d.torn = cases[i].torn
<1> DEFINE i == agent["sweep"].case
           d == [cases[i] EXCEPT !.escalated = TRUE]
<1>1. i \in DOMAIN cases
  BY SweepAt DEF Mark, At
<1>2. cases[i] \in CaseOf
  BY <1>1 DEF ShapeInv
<1>3. /\ d \in CaseOf /\ Later(cases[i], d) /\ d.escalated = TRUE
      /\ d.tickets = cases[i].tickets /\ d.torn = cases[i].torn
  <2>1. ASSUME NEW b \in BOOLEAN
        PROVE  LET e == [cases[i] EXCEPT !.escalated = b] IN
               /\ e \in CaseOf /\ Later(cases[i], e) /\ e.escalated = b
               /\ e.tickets = cases[i].tickets /\ e.torn = cases[i].torn
    BY <1>2 DEF CaseOf, Later
  <2> QED
    BY <2>1
<1>4. cases' = [cases EXCEPT ![i] = d]
  BY DEF Mark
<1> QED
  BY <1>1, <1>3, <1>4 DEF Writes

LEMMA CrashWrites ==
  ASSUME ShapeInv, NEW g \in Agents, Crash(g)
  PROVE  LET i == agent[g].case IN
         \/ ~ At(g, "mark") /\ UNCHANGED cases
         \/ /\ At(g, "mark") /\ g = "sweep"
            /\ \E d : /\ Writes(i, d) /\ d.escalated = cases[i].escalated
                     /\ d.tickets = cases[i].tickets /\ d.torn = cases[i].torn + 1
<1> DEFINE i == agent[g].case
           d == [cases[i] EXCEPT !.torn = @ + 1]
<1>1. CASE At(g, "mark")
  <2>1. g = "sweep"
    BY <1>1, RouterAt DEF At, Agents
  <2>2. i \in DOMAIN cases
    BY <1>1, <2>1, SweepAt DEF At
  <2>3. cases[i] \in CaseOf
    BY <2>2 DEF ShapeInv
  <2>4. /\ d \in CaseOf /\ Later(cases[i], d) /\ d.escalated = cases[i].escalated
        /\ d.tickets = cases[i].tickets /\ d.torn = cases[i].torn + 1
    BY <2>3 DEF CaseOf, Later
  <2>5. cases' = [cases EXCEPT ![i] = d]
    BY <1>1 DEF Crash
  <2> QED
    BY <1>1, <2>1, <2>2, <2>4, <2>5 DEF Writes
<1>2. CASE ~ At(g, "mark")
  BY <1>2 DEF Crash
<1> QED
  BY <1>1, <1>2

LEMMA CloseWrites ==
  ASSUME ShapeInv, NEW i \in DOMAIN cases, Close(i)
  PROVE  \E d : Writes(i, d) /\ SamePay(cases[i], d)
<1> DEFINE d == [cases[i] EXCEPT !.status = "shut"]
<1>1. cases[i] \in CaseOf
  BY DEF ShapeInv
<1>2. d \in CaseOf /\ Later(cases[i], d) /\ SamePay(cases[i], d)
  BY <1>1 DEF CaseOf, Later, SamePay
<1>3. cases' = [cases EXCEPT ![i] = d]
  BY DEF Close
<1> QED
  BY <1>2, <1>3 DEF Writes

LEMMA AgeWrites ==
  ASSUME ShapeInv, NEW i \in DOMAIN cases, Age(i)
  PROVE  \E d : Writes(i, d) /\ SamePay(cases[i], d)
<1>1. cases[i] \in CaseOf
  BY DEF ShapeInv
<1>2. CASE cases[i].age < 2 /\ cases' = [cases EXCEPT ![i].age = @ + 1]
  <2> DEFINE d == [cases[i] EXCEPT !.age = @ + 1]
  <2>1. d \in CaseOf /\ Later(cases[i], d) /\ SamePay(cases[i], d)
    BY <1>1, <1>2 DEF CaseOf, Later, SamePay
  <2>2. cases' = [cases EXCEPT ![i] = d]
    BY <1>2
  <2> QED
    BY <2>1, <2>2 DEF Writes
<1>3. CASE cases' = [cases EXCEPT ![i].status = "closed"]
  <2> DEFINE d == [cases[i] EXCEPT !.status = "closed"]
  <2>1. d \in CaseOf /\ Later(cases[i], d) /\ SamePay(cases[i], d)
    BY <1>1 DEF CaseOf, Later, SamePay
  <2>2. cases' = [cases EXCEPT ![i] = d]
    BY <1>3
  <2> QED
    BY <2>1, <2>2 DEF Writes
<1> QED
  BY <1>2, <1>3 DEF Age

Adds(d) == d \in CaseOf /\ cases' = Append(cases, d)

Unpaid(d) == d.tickets = [a \in Openers |-> 0] /\ d.torn = 0 /\ d.escalated = FALSE

LEMMA OpenedAdds ==
  ASSUME ShapeInv, NEW g \in Openers, NEW h \in Hunts,
         NEW excuse \in SUBSET {"blind", "race", "hand"}, Opened(g, h, excuse)
  PROVE  \E d : Adds(d) /\ Unpaid(d) /\ d.by = g /\ d.hunt = h /\ d.excuse = excuse
<1> DEFINE d == NewCase(g, h, excuse)
<1>1. d \in CaseOf /\ d.by = g /\ d.hunt = h /\ d.excuse = excuse /\ Unpaid(d)
  BY CaseOpens DEF NewCase, Unpaid
<1>2. cases' = Append(cases, d)
  BY DEF Opened
<1> QED
  BY <1>1, <1>2 DEF Adds

LEMMA MintAdds ==
  ASSUME ShapeInv, Mint
  PROVE  \E d : /\ Adds(d) /\ Unpaid(d) /\ d.by = "sweep" /\ d.hunt = agent["sweep"].hunt
              /\ d.excuse = Excuse("sweep")
<1>1. agent["sweep"].hunt \in Hunts
  BY SweepAt DEF Mint, At, Jobs
<1>2. Opened("sweep", agent["sweep"].hunt, Excuse("sweep"))
  BY DEF Mint
<1>3. "sweep" \in Openers /\ Excuse("sweep") \in SUBSET {"blind", "race", "hand"}
  BY ExcuseIsOne DEF Openers, Agents
<1> QED
  BY <1>1, <1>2, <1>3, OpenedAdds

LEMMA RouterMintAdds ==
  ASSUME ShapeInv, RouterMint
  PROVE  \E d : /\ Adds(d) /\ Unpaid(d) /\ d.by = "router" /\ d.hunt = agent["router"].hunt
              /\ d.excuse = Excuse("router")
<1>1. agent["router"].hunt \in Hunts
  BY RouterAt DEF RouterMint, At, Jobs
<1>2. Opened("router", agent["router"].hunt, Excuse("router"))
  BY DEF RouterMint
<1>3. "router" \in Openers /\ Excuse("router") \in SUBSET {"blind", "race", "hand"}
  BY ExcuseIsOne DEF Openers, Agents
<1> QED
  BY <1>1, <1>2, <1>3, OpenedAdds

LEMMA RunAdds ==
  ASSUME ShapeInv, NEW h \in Hunts, Run(h)
  PROVE  \E d : /\ Adds(d) /\ d.by = "hand" /\ d.excuse # {} /\ d.torn = 0 /\ d.escalated = FALSE
              /\ d.tickets["hand"] <= 1 /\ d.tickets["sweep"] = 0 /\ d.tickets["router"] = 0
<1> DEFINE new == NewCase("hand", h, {"hand"})
<1>1. PICK filed \in BOOLEAN :
        cases' = Append(cases, [new EXCEPT !.tickets["hand"] = IF filed THEN 1 ELSE 0])
  BY DEF Run
<1> DEFINE n == IF filed THEN 1 ELSE 0
           d == [new EXCEPT !.tickets["hand"] = n]
<1>2. new \in CaseOf /\ new.tickets = [a \in Openers |-> 0]
  <2>1. new \in CaseOf
    BY CaseOpens DEF Openers
  <2>2. new.tickets = [a \in Openers |-> 0]
    BY DEF NewCase
  <2> QED
    BY <2>1, <2>2
<1>3. new.by = "hand" /\ new.excuse # {} /\ new.torn = 0 /\ new.escalated = FALSE
  BY DEF NewCase
<1>4. n \in {0, 1}
  OBVIOUS
<1> HIDE DEF n, new
<1>5. d \in CaseOf /\ d.by = "hand" /\ d.excuse # {} /\ d.torn = 0
  BY <1>2, <1>3, <1>4 DEF CaseOf
<1>6. d.escalated = FALSE
  BY <1>2, <1>3, <1>4 DEF CaseOf
<1>7. d.tickets["hand"] <= 1 /\ d.tickets["sweep"] = 0 /\ d.tickets["router"] = 0
  BY <1>2, <1>4 DEF CaseOf, Openers, Agents
<1>8. Adds(d)
  BY <1>1, <1>5 DEF Adds, n, new
<1> QED
  BY <1>5, <1>6, <1>7, <1>8

----------------------------------------------------------------------------
\* What a step does to the cases.

\* At most one case is opened, and the others are the same cases, later on.
CasesMove ==
  /\ cases' \in Seq(CaseOf)
  /\ Len(cases) \in Nat /\ DOMAIN cases = 1..Len(cases)
  /\ Len(cases') \in {Len(cases), Len(cases) + 1} /\ DOMAIN cases' = 1..Len(cases')
  /\ \A i \in DOMAIN cases : Later(cases[i], cases'[i])

LEMMA WritesMove ==
  ASSUME ShapeInv, UNCHANGED cases \/ (\E i, d : Writes(i, d)) \/ \E d : Adds(d)
  PROVE  CasesMove
<1>1. cases \in Seq(CaseOf)
  BY DEF ShapeInv
<1>2. \A i \in DOMAIN cases : cases[i] \in CaseOf /\ Later(cases[i], cases[i])
  <2>1. ASSUME NEW c \in CaseOf PROVE Later(c, c)
    BY DEF Later, CaseOf
  <2> QED
    BY <1>1, <2>1
<1>3. Len(cases) \in Nat /\ DOMAIN cases = 1..Len(cases)
  BY <1>1
<1>4. CASE UNCHANGED cases
  BY <1>1, <1>2, <1>3, <1>4 DEF CasesMove
<1>5. ASSUME NEW i, NEW d, Writes(i, d) PROVE CasesMove
  <2>1. i \in DOMAIN cases /\ d \in CaseOf /\ Later(cases[i], d) /\ cases' = [cases EXCEPT ![i] = d]
    BY <1>5 DEF Writes
  <2> QED
    BY <1>1, <1>2, <1>3, <2>1, Rewritten DEF CasesMove
<1>6. ASSUME NEW d, Adds(d) PROVE CasesMove
  <2>1. d \in CaseOf /\ cases' = Append(cases, d)
    BY <1>6 DEF Adds
  <2>2. /\ cases' \in Seq(CaseOf) /\ Len(cases') = Len(cases) + 1
        /\ \A i \in DOMAIN cases : cases'[i] = cases[i]
    BY <1>1, <2>1, Another
  <2> QED
    BY <1>2, <1>3, <2>2 DEF CasesMove
<1> QED
  BY <1>4, <1>5, <1>6

LEMMA CasesStep == ShapeInv /\ [Next]_vars => CasesMove
<1> SUFFICES ASSUME ShapeInv, [Next]_vars PROVE CasesMove
  OBVIOUS
<1>1. CASE UNCHANGED cases
  BY <1>1, WritesMove
<1>2. CASE SweepStep
  <2>1. CASE Look \/ Cool
    BY <1>1, <2>1 DEF Look, Cool
  <2>2. CASE Scan \/ Attach
    BY <2>2, AppendingWrites, WritesMove DEF Appending
  <2>3. CASE Mint
    BY <2>3, MintAdds, WritesMove
  <2>4. CASE Ticket
    BY <2>4, SweepAt, FiledWrites, WritesMove DEF Ticket, At, Openers, Agents
  <2>5. CASE Mark
    BY <2>5, MarkWrites, WritesMove
  <2> QED
    BY <1>2, <2>1, <2>2, <2>3, <2>4, <2>5 DEF SweepStep
<1>3. CASE RouterStep
  <2>1. CASE NewRun \/ \E h \in Patterns : Dispatch(h) \/ DispatchFails(h)
    BY <1>1, <2>1 DEF NewRun, Dispatch, DispatchFails
  <2>0. CASE RouterScan
    BY <2>0, AppendingWrites, WritesMove DEF Appending
  <2>2. CASE RouterMint
    BY <2>2, RouterMintAdds, WritesMove
  <2>3. CASE RouterTicket
    BY <2>3, RouterAt, FiledWrites, WritesMove DEF RouterTicket, At, Openers, Agents
  <2> QED
    BY <1>3, <2>0, <2>1, <2>2, <2>3 DEF RouterStep
<1>4. CASE World
  <2>1. CASE CorpusTurns
    BY <1>1, <2>1 DEF CorpusTurns
  <2>2. ASSUME NEW g \in Agents, Crash(g) PROVE CasesMove
    BY <1>1, <2>2, CrashWrites, WritesMove
  <2>3. ASSUME NEW h \in Hunts, Run(h) PROVE CasesMove
    BY <2>3, RunAdds, WritesMove
  <2>4. ASSUME NEW h \in Hunts, Retune(h) \/ Shift(h) PROVE CasesMove
    BY <1>1, <2>4 DEF Retune, Shift
  <2>5. ASSUME NEW i \in DOMAIN cases, Deny(i) \/ Close(i) \/ Overwrite(i) \/ Age(i) PROVE CasesMove
    <3>1. CASE Deny(i)
      BY <1>1, <3>1 DEF Deny
    <3>2. CASE Close(i)
      BY <3>2, CloseWrites, WritesMove
    <3>3. CASE Age(i)
      BY <3>3, AgeWrites, WritesMove
    <3>4. CASE Overwrite(i)
      BY <3>4, AppendingWrites, WritesMove DEF Appending
    <3> QED
      BY <2>5, <3>1, <3>2, <3>3, <3>4
  <2> QED
    BY <1>4, <2>1, <2>2, <2>3, <2>4, <2>5 DEF World
<1> QED
  BY <1>1, <1>2, <1>3, <1>4 DEF Next, vars

----------------------------------------------------------------------------
\* What a step does to the processes.

LEMMA CasesGrow ==
  ASSUME CasesMove
  PROVE  /\ DOMAIN cases \subseteq DOMAIN cases' /\ Len(cases) \in Nat /\ DOMAIN cases \subseteq Nat
         /\ DOMAIN cases' \subseteq Nat /\ DOMAIN cases' \subseteq DOMAIN cases \cup {Len(cases) + 1}
         /\ Len(cases) + 1 \notin DOMAIN cases
<1>1. /\ Len(cases) \in Nat /\ DOMAIN cases = 1..Len(cases)
      /\ Len(cases') \in {Len(cases), Len(cases) + 1} /\ DOMAIN cases' = 1..Len(cases')
  BY DEF CasesMove
<1>2. ASSUME NEW m \in Nat, NEW n \in {m, m + 1}
      PROVE  /\ 1..m \subseteq 1..n /\ 1..m \subseteq Nat /\ 1..n \subseteq Nat
             /\ 1..n \subseteq (1..m) \cup {m + 1} /\ m + 1 \notin 1..m
  OBVIOUS
<1> QED
  BY <1>1, <1>2

LEMMA AgentsKeep ==
  ASSUME ShapeInv, CasesMove PROVE GoodTurn(agent["sweep"]) /\ GoodRest(agent["router"])
<1>1. DOMAIN cases \subseteq DOMAIN cases'
  BY CasesGrow
<1> QED
  BY <1>1 DEF ShapeInv, SweepShape, RouterShape, GoodTurn, GoodRest

LEMMA SweepTurns ==
  ASSUME ShapeInv, CasesMove, NEW s, GoodTurn(s), Becomes("sweep", s)
  PROVE  ShapeInv'
<1>1. DOMAIN agent' = Agents /\ agent'["sweep"] = s /\ agent'["router"] = agent["router"]
  BY AgentMoves DEF Agents
<1>2. GoodRest(agent["router"])
  BY AgentsKeep
<1> QED
  BY <1>1, <1>2 DEF ShapeInv, SweepShape, RouterShape, GoodTurn, GoodRest, CasesMove

LEMMA RouterTurns ==
  ASSUME ShapeInv, CasesMove, NEW s, GoodRest(s), Becomes("router", s)
  PROVE  ShapeInv'
<1>1. DOMAIN agent' = Agents /\ agent'["sweep"] = agent["sweep"] /\ agent'["router"] = s
  BY AgentMoves DEF Agents
<1>2. GoodTurn(agent["sweep"])
  BY AgentsKeep
<1> QED
  BY <1>1, <1>2 DEF ShapeInv, SweepShape, RouterShape, GoodTurn, GoodRest, CasesMove

LEMMA NobodyTurns == ASSUME ShapeInv, CasesMove, UNCHANGED agent PROVE ShapeInv'
<1>1. GoodTurn(agent["sweep"]) /\ GoodRest(agent["router"])
  BY AgentsKeep
<1> QED
  BY <1>1 DEF ShapeInv, SweepShape, RouterShape, GoodTurn, GoodRest, CasesMove

LEMMA ShapeStep == ShapeInv /\ [Next]_vars => ShapeInv'
<1> SUFFICES ASSUME ShapeInv, [Next]_vars PROVE ShapeInv'
  OBVIOUS
<1>a. CasesMove
  BY CasesStep
<1>b. GoodTurn(Following)
  BY FollowingTurn DEF GoodTurn
<1>c. GoodTurn(Turn(1)) /\ GoodRest(Rest)
  BY HuntsListed DEF GoodTurn, GoodRest
<1> DEFINE s == agent["sweep"]
           r == agent["router"]
<1>1. CASE UNCHANGED agent
  BY <1>1, <1>a, NobodyTurns
<1>2. CASE Look
  <2> DEFINE n == s.at
             h == Order[n]
             own == Analysis(AnalyzerOf[h], docs[h].day)
             finding == Finding(h, docs[h].day)
  <2>1. n \in DOMAIN Order /\ h \in Hunts
    <3>1. ASSUME s \in Jobs PROVE FALSE
      BY <1>2, <3>1 DEF Look, At, Jobs
    <3>2. PICK m \in DOMAIN Order : s = Turn(m)
      BY <3>1 DEF ShapeInv, SweepShape
    <3> QED
      BY <3>2, HuntsListed DEF Turn
  <2>2. PICK entry : Becomes("sweep", IF finding = "clean" THEN Following
                               ELSE [Job(h, finding) EXCEPT !.at = n, !.tuned = EntrySuppresses(entry, own)])
    BY <1>2 DEF Look
  <2>3. CASE finding = "clean"
    BY <2>2, <2>3, <1>a, <1>b, SweepTurns
  <2>4. CASE finding # "clean"
    <3> DEFINE tuned == EntrySuppresses(entry, own)
               begun == Job(h, finding)
    <3>1. tuned \in BOOLEAN
      BY DEF EntrySuppresses
    <3>2. begun \in Jobs /\ begun.pc = "scan"
      BY <2>1, JobBegins
    <3>3. Becomes("sweep", [begun EXCEPT !.at = n, !.tuned = tuned])
      BY <2>2, <2>4
    <3>4. GoodTurn([begun EXCEPT !.at = n, !.tuned = tuned])
      <4> HIDE DEF begun, tuned, n
      <4> QED
        BY <2>1, <3>1, <3>2, SweepJob
    <3> QED
      BY <3>3, <3>4, <1>a, SweepTurns
  <2> QED
    BY <2>3, <2>4
<1>d. Len(cases) \in Nat /\ DOMAIN cases \subseteq Nat /\ DOMAIN cases \subseteq DOMAIN cases'
  BY <1>a, CasesGrow
<1>3. CASE Scan
  <2>1. s \in Jobs /\ s.at \in DOMAIN Order
    BY <1>3, SweepAt DEF Scan, At
  <2>2. \/ Becomes("sweep", Following)
        \/ \E i \in OpenOfHunt(s.hunt) : Becomes("sweep", [s EXCEPT !.pc = "attach", !.case = i])
        \/ \E blind \in BOOLEAN :
             Becomes("sweep", [s EXCEPT !.pc = "cool", !.seen = Len(cases), !.blind = blind])
    BY <1>3 DEF Scan
  <2>3. CASE Becomes("sweep", Following)
    BY <2>3, <1>a, <1>b, SweepTurns
  <2>4. ASSUME NEW i \in OpenOfHunt(s.hunt), Becomes("sweep", [s EXCEPT !.pc = "attach", !.case = i])
        PROVE  ShapeInv'
    <3>1. i \in DOMAIN cases
      BY DEF OpenOfHunt
    <3>2. GoodTurn([s EXCEPT !.pc = "attach", !.case = i])
      <4> HIDE DEF s, r
      <4> QED
        BY <2>1, <3>1, <1>d, JobTakes
    <3> QED
      BY <2>4, <3>2, <1>a, SweepTurns
  <2>5. ASSUME NEW blind \in BOOLEAN,
               Becomes("sweep", [s EXCEPT !.pc = "cool", !.seen = Len(cases), !.blind = blind])
        PROVE  ShapeInv'
    <3>1. GoodTurn([s EXCEPT !.pc = "cool", !.seen = Len(cases), !.blind = blind])
      <4> HIDE DEF s, r
      <4> QED
        BY <2>1, <1>d, JobLooks
    <3> QED
      BY <2>5, <3>1, <1>a, SweepTurns
  <2> QED
    BY <2>2, <2>3, <2>4, <2>5
<1>4. CASE Attach
  <2>1. s \in Jobs /\ s.at \in DOMAIN Order /\ s.case \in DOMAIN cases
    BY <1>4, SweepAt DEF Attach, At
  <2>2. Becomes("sweep", [s EXCEPT !.pc = "ticket"]) \/ Becomes("sweep", Following)
    BY <1>4 DEF Attach
  <2>3. GoodTurn([s EXCEPT !.pc = "ticket"])
    BY <2>1, <1>d, JobGoes DEF GoodTurn
  <2> QED
    BY <2>2, <2>3, <1>a, <1>b, SweepTurns
<1>5. CASE Cool
  <2>1. s \in Jobs /\ s.at \in DOMAIN Order
    BY <1>5, SweepAt DEF Cool, At
  <2>2. Becomes("sweep", [s EXCEPT !.pc = "mint"]) \/ Becomes("sweep", Following)
    BY <1>5 DEF Cool
  <2>3. GoodTurn([s EXCEPT !.pc = "mint"])
    BY <2>1, JobGoes DEF GoodTurn
  <2> QED
    BY <2>2, <2>3, <1>a, <1>b, SweepTurns
<1>6. CASE Mint
  <2>1. s \in Jobs /\ s.at \in DOMAIN Order
    BY <1>6, SweepAt DEF Mint, At
  <2>2. \/ Becomes("sweep", [s EXCEPT !.pc = "ticket", !.case = Len(cases) + 1])
        \/ Becomes("sweep", Following)
    BY <1>6 DEF Mint
  <2>3. Len(cases) + 1 \in DOMAIN cases'
    BY <1>6, MintAdds, Another DEF Adds, ShapeInv
  <2>4. GoodTurn([s EXCEPT !.pc = "ticket", !.case = Len(cases) + 1])
    <3> DEFINE new == Len(cases) + 1
    <3>1. new \in Nat /\ new \in DOMAIN cases'
      BY <2>3, <1>d
    <3> HIDE DEF s, r, new
    <3>2. GoodTurn([s EXCEPT !.pc = "ticket", !.case = new])
      BY <2>1, <3>1, JobTakes
    <3> QED
      BY <3>2 DEF new
  <2> QED
    BY <2>2, <2>4, <1>a, <1>b, SweepTurns
<1>7. CASE Ticket
  <2>1. s \in Jobs /\ s.at \in DOMAIN Order /\ s.case \in DOMAIN cases
    BY <1>7, SweepAt DEF Ticket, At
  <2>2. GoodTurn([s EXCEPT !.pc = "mark"])
    BY <2>1, <1>d, JobGoes DEF GoodTurn
  <2> QED
    BY <1>7, <2>2, <1>a, SweepTurns DEF Ticket
<1>8. CASE Mark
  BY <1>8, <1>a, <1>b, SweepTurns DEF Mark
<1>9. CASE NewRun \/ \E h \in Patterns : DispatchFails(h)
  BY <1>1, <1>9 DEF NewRun, DispatchFails
<1>10. ASSUME NEW h \in Patterns, Dispatch(h) PROVE ShapeInv'
  <2>1. h \in Hunts
    BY HuntAssumption
  <2>2. \/ Becomes("router", Rest)
        \/ Becomes("router", Job(h, Analysis(AnalyzerOf[h], docs[h].week)))
    BY <1>10 DEF Dispatch
  <2>3. GoodRest(Job(h, Analysis(AnalyzerOf[h], docs[h].week)))
    BY <2>1, JobBegins DEF GoodRest
  <2> QED
    BY <2>2, <2>3, <1>a, <1>c, RouterTurns
<1>11. CASE RouterScan
  <2>1. r \in Jobs
    BY <1>11, RouterAt DEF RouterScan, At
  <2>2. PICK blind \in BOOLEAN :
          \/ Becomes("router", Rest)
          \/ Becomes("router", [r EXCEPT !.pc = "mint", !.seen = Len(cases), !.blind = blind])
    BY <1>11 DEF RouterScan
  <2>3. GoodRest([r EXCEPT !.pc = "mint", !.seen = Len(cases), !.blind = blind])
    <3> HIDE DEF s, r
    <3> QED
      BY <2>1, <1>d, JobLooks
  <2> QED
    BY <2>2, <2>3, <1>a, <1>c, RouterTurns
<1>12. CASE RouterMint
  <2>1. r \in Jobs
    BY <1>12, RouterAt DEF RouterMint, At
  <2>2. \/ Becomes("router", [r EXCEPT !.pc = "ticket", !.case = Len(cases) + 1])
        \/ Becomes("router", Rest)
    BY <1>12 DEF RouterMint
  <2>3. Len(cases) + 1 \in DOMAIN cases'
    BY <1>12, RouterMintAdds, Another DEF Adds, ShapeInv
  <2>4. GoodRest([r EXCEPT !.pc = "ticket", !.case = Len(cases) + 1])
    <3> DEFINE new == Len(cases) + 1
    <3>1. new \in Nat /\ new \in DOMAIN cases'
      BY <2>3, <1>d
    <3> HIDE DEF s, r, new
    <3>2. GoodRest([r EXCEPT !.pc = "ticket", !.case = new])
      BY <2>1, <3>1, JobTakes
    <3> QED
      BY <3>2 DEF new
  <2> QED
    BY <2>2, <2>4, <1>a, <1>c, RouterTurns
<1>13. CASE RouterTicket
  BY <1>13, <1>a, <1>c, RouterTurns DEF RouterTicket
<1>14. ASSUME NEW g \in Agents, Crash(g) PROVE ShapeInv'
  BY <1>14, <1>a, <1>c, SweepTurns, RouterTurns DEF Crash, Agents
<1>15. ASSUME NEW h \in Hunts, Run(h) \/ Retune(h) \/ Shift(h) PROVE ShapeInv'
  BY <1>1, <1>15 DEF Run, Retune, Shift
<1>16. ASSUME NEW i \in DOMAIN cases, Deny(i) \/ Close(i) \/ Overwrite(i) \/ Age(i) PROVE ShapeInv'
  BY <1>1, <1>16 DEF Deny, Close, Overwrite, Age
<1>17. CASE CorpusTurns
  BY <1>1, <1>17 DEF CorpusTurns
<1> QED
  BY <1>1, <1>2, <1>3, <1>4, <1>5, <1>6, <1>7, <1>8, <1>9, <1>10, <1>11, <1>12, <1>13, <1>14,
     <1>15, <1>16, <1>17 DEF Next, SweepStep, RouterStep, World, vars

----------------------------------------------------------------------------
\* What a step does to the tickets.

SweepSame ==
  \A i \in DOMAIN cases :
    /\ cases'[i].tickets["sweep"] = cases[i].tickets["sweep"]
    /\ cases'[i].torn = cases[i].torn /\ cases'[i].escalated = cases[i].escalated

OpenerSame ==
  \A i \in DOMAIN cases : \A g \in {"router", "hand"} : cases'[i].tickets[g] = cases[i].tickets[g]

\* A new case has a ticket of the person who opened it or none.
NewPays ==
  \A i \in DOMAIN cases' \ DOMAIN cases :
    /\ cases'[i].tickets["sweep"] = 0 /\ cases'[i].torn = 0 /\ cases'[i].escalated = FALSE
    /\ cases'[i].tickets["router"] = 0
    /\ cases'[i].tickets["hand"] <= IF cases'[i].by = "hand" THEN 1 ELSE 0

AllSame == SweepSame /\ OpenerSame /\ NewPays

LEMMA CaseTyped ==
  ASSUME ShapeInv, NEW i \in DOMAIN cases
  PROVE  /\ cases[i].tickets["sweep"] \in Nat /\ cases[i].tickets["router"] \in Nat
         /\ cases[i].tickets["hand"] \in Nat /\ cases[i].torn \in Nat
<1>1. cases[i] \in CaseOf
  BY DEF ShapeInv
<1> QED
  BY <1>1 DEF CaseOf, Openers, Agents

LEMMA UnwrittenPays == ASSUME UNCHANGED cases PROVE AllSame
BY DEF AllSame, SweepSame, OpenerSame, NewPays

LEMMA WrittenNew == ASSUME ShapeInv, NEW i, NEW d, Writes(i, d) PROVE NewPays
BY Rewritten DEF NewPays, Writes, ShapeInv

LEMMA WrittenSame == ASSUME ShapeInv, NEW i, NEW d, Writes(i, d), SamePay(cases[i], d) PROVE AllSame
<1>1. NewPays
  BY WrittenNew
<1>2. cases'[i] = d /\ \A j \in DOMAIN cases : j # i => cases'[j] = cases[j]
  BY Rewritten DEF Writes, ShapeInv
<1> QED
  BY <1>1, <1>2 DEF AllSame, SweepSame, OpenerSame, SamePay

LEMMA AddedSame ==
  ASSUME ShapeInv, NEW d, Adds(d), d.tickets["sweep"] = 0, d.torn = 0, d.escalated = FALSE,
         d.tickets["router"] = 0, d.tickets["hand"] <= IF d.by = "hand" THEN 1 ELSE 0
  PROVE  AllSame
<1>1. /\ DOMAIN cases' = DOMAIN cases \cup {Len(cases) + 1} /\ cases'[Len(cases) + 1] = d
      /\ \A j \in DOMAIN cases : cases'[j] = cases[j]
  BY Another DEF Adds, ShapeInv
<1>2. NewPays
  BY <1>1 DEF NewPays
<1> QED
  BY <1>1, <1>2 DEF AllSame, SweepSame, OpenerSame

LEMMA UnpaidSame == ASSUME ShapeInv, NEW d, Adds(d), Unpaid(d) PROVE AllSame
<1>1. /\ d.tickets["sweep"] = 0 /\ d.tickets["router"] = 0 /\ d.tickets["hand"] = 0
      /\ d.torn = 0 /\ d.escalated = FALSE
  BY DEF Unpaid, Openers, Agents
<1>2. d.tickets["hand"] <= IF d.by = "hand" THEN 1 ELSE 0
  <2>1. CASE d.by = "hand"
    BY <1>1, <2>1
  <2>2. CASE d.by # "hand"
    BY <1>1, <2>2
  <2> QED
    BY <2>1, <2>2
<1> QED
  BY <1>1, <1>2, AddedSame

\* The steps that are about tickets; every other leaves them alone.
Paying == Ticket \/ Mark \/ RouterTicket \/ (Crash("sweep") /\ At("sweep", "mark"))

LEMMA PayStep == ASSUME ShapeInv, [Next]_vars PROVE Paying \/ AllSame
<1>1. CASE UNCHANGED cases
  BY <1>1, UnwrittenPays
<1>2. CASE SweepStep
  <2>1. CASE Look \/ Cool
    BY <1>1, <2>1 DEF Look, Cool
  <2>2. CASE Scan \/ Attach
    BY <2>2, AppendingWrites, WrittenSame, UnwrittenPays DEF Appending
  <2>3. CASE Mint
    BY <2>3, MintAdds, UnpaidSame
  <2> QED
    BY <1>2, <2>1, <2>2, <2>3 DEF SweepStep, Paying
<1>3. CASE RouterStep
  <2>1. CASE NewRun \/ \E h \in Patterns : Dispatch(h) \/ DispatchFails(h)
    BY <1>1, <2>1 DEF NewRun, Dispatch, DispatchFails
  <2>0. CASE RouterScan
    BY <2>0, AppendingWrites, WrittenSame, UnwrittenPays DEF Appending
  <2>2. CASE RouterMint
    BY <2>2, RouterMintAdds, UnpaidSame
  <2> QED
    BY <1>3, <2>0, <2>1, <2>2 DEF RouterStep, Paying
<1>4. CASE World
  <2>1. CASE CorpusTurns
    BY <1>1, <2>1 DEF CorpusTurns
  <2>2. ASSUME NEW g \in Agents, Crash(g) PROVE Paying \/ AllSame
    BY <1>1, <2>2, CrashWrites DEF Paying
  <2>3. ASSUME NEW h \in Hunts, Run(h) PROVE AllSame
    BY <2>3, RunAdds, AddedSame
  <2>4. ASSUME NEW h \in Hunts, Retune(h) \/ Shift(h) PROVE AllSame
    BY <2>4, UnwrittenPays DEF Retune, Shift
  <2>5. ASSUME NEW i \in DOMAIN cases, Deny(i) \/ Close(i) \/ Overwrite(i) \/ Age(i) PROVE AllSame
    <3>1. CASE Deny(i)
      BY <3>1, UnwrittenPays DEF Deny
    <3>2. CASE Close(i)
      BY <3>2, CloseWrites, WrittenSame
    <3>3. CASE Age(i)
      BY <3>3, AgeWrites, WrittenSame
    <3>4. CASE Overwrite(i)
      BY <3>4, AppendingWrites, WrittenSame, UnwrittenPays DEF Appending
    <3> QED
      BY <2>5, <3>1, <3>2, <3>3, <3>4
  <2> QED
    BY <1>4, <2>1, <2>2, <2>3, <2>4, <2>5 DEF World
<1> QED
  BY <1>1, <1>2, <1>3, <1>4 DEF Next, vars

----------------------------------------------------------------------------
\* Who pays.

LEMMA PayInit == Init => SweepPays /\ OpenerPays /\ LookInv
<1> SUFFICES ASSUME Init PROVE SweepPays /\ OpenerPays /\ LookInv
  OBVIOUS
<1>1. DOMAIN cases = {}
  BY DEF Init
<1>2. agent["sweep"].pc = "look" /\ agent["router"].pc = "rest"
  BY DEF Init, Turn, Rest
<1> QED
  BY <1>1, <1>2 DEF SweepPays, OpenerPays, LookInv, HasLooked, Agents

\* Without a ticket filed, marked or torn: the sweep is where it was, or where it may file
\* one for a case without a mark.
LEMMA SweepKeeps ==
  ASSUME ShapeInv, CasesMove, SweepSame, NewPays, SweepPays,
         \/ agent'["sweep"] = agent["sweep"]
         \/ /\ agent'["sweep"].pc # "mark" /\ ~ At("sweep", "mark")
            /\ agent'["sweep"].pc = "ticket" /\ agent'["sweep"].case \in DOMAIN cases
                 => ~ cases[agent'["sweep"].case].escalated
  PROVE  SweepPays'
<1> SUFFICES ASSUME NEW i \in DOMAIN cases'
             PROVE  /\ cases'[i].tickets["sweep"] <= cases'[i].torn + (IF Marked(i)' THEN 1 ELSE 0)
                    /\ At("sweep", "ticket")' /\ agent'["sweep"].case = i => ~ cases'[i].escalated
  BY DEF SweepPays, Marked, At
<1>1. CASE i \in DOMAIN cases
  <2>1. /\ cases'[i].tickets["sweep"] = cases[i].tickets["sweep"]
        /\ cases'[i].torn = cases[i].torn /\ cases'[i].escalated = cases[i].escalated
    BY <1>1 DEF SweepSame
  <2>2. Marked(i) => Marked(i)'
    BY <2>1 DEF Marked, At
  <2>3. cases[i].tickets["sweep"] \in Nat /\ cases[i].torn \in Nat
    BY <1>1, CaseTyped
  <2>4. cases[i].tickets["sweep"] <= cases[i].torn + (IF Marked(i) THEN 1 ELSE 0)
    BY <1>1 DEF SweepPays
  <2>5. cases'[i].tickets["sweep"] <= cases'[i].torn + (IF Marked(i)' THEN 1 ELSE 0)
    BY <2>1, <2>2, <2>3, <2>4
  <2>6. At("sweep", "ticket")' /\ agent'["sweep"].case = i => ~ cases'[i].escalated
    BY <1>1, <2>1 DEF SweepPays, At
  <2> QED
    BY <2>5, <2>6
<1>2. CASE i \notin DOMAIN cases
  <2>1. cases'[i].tickets["sweep"] = 0 /\ cases'[i].torn = 0 /\ cases'[i].escalated = FALSE
    BY <1>2 DEF NewPays
  <2> QED
    BY <2>1
<1> QED
  BY <1>1, <1>2

LEMMA SweepPaysStep ==
  ASSUME ShapeInv, ShapeInv', SweepPays, [Next]_vars PROVE SweepPays'
<1>0. PICK c : c = agent["sweep"].case
  OBVIOUS
<1>a. CasesMove
  BY CasesStep
<1>b. \A i \in DOMAIN cases : cases[i].tickets["sweep"] \in Nat /\ cases[i].torn \in Nat
  BY CaseTyped
<1>c. Following.pc = "look" /\ Turn(1).pc = "look"
  BY FollowingTurn DEF Turn
<1>1. CASE Ticket
  <2>1. c \in DOMAIN cases /\ At("sweep", "ticket")
    BY <1>0, <1>1, SweepAt DEF Ticket, At
  <2>2. PICK d : /\ Writes(c, d) /\ d.torn = cases[c].torn /\ d.escalated = cases[c].escalated
                 /\ d.tickets["sweep"] = cases[c].tickets["sweep"] + 1
    BY <1>0, <1>1, <2>1, FiledWrites DEF Ticket, Openers, Agents
  <2>3. /\ DOMAIN cases' = DOMAIN cases /\ cases'[c] = d
        /\ \A j \in DOMAIN cases : j # c => cases'[j] = cases[j]
    BY <2>2, Rewritten DEF Writes, ShapeInv
  <2>4. agent'["sweep"] = [agent["sweep"] EXCEPT !.pc = "mark"]
    BY <1>1, AgentMoves DEF Ticket, Agents
  <2>5. agent'["sweep"].pc = "mark" /\ agent'["sweep"].case = c
    BY <1>0, <1>1, <2>4, SweepAt, JobGoes DEF Ticket, At
  <2>6. cases[c].tickets["sweep"] <= cases[c].torn
    BY <1>0, <1>b, <2>1 DEF SweepPays, Marked, At
  <2>7. cases'[c].tickets["sweep"] <= cases'[c].torn + 1
    BY <1>b, <2>1, <2>2, <2>3, <2>6
  <2>8. ASSUME NEW i \in DOMAIN cases, i # c PROVE Marked(i) => Marked(i)'
    BY <1>0, <2>1, <2>3, <2>8 DEF Marked, At
  <2>9. Marked(c)'
    BY <2>5 DEF Marked, At
  <2> QED
    BY <2>1, <2>3, <2>5, <2>7, <2>8, <2>9 DEF SweepPays, At, Marked
<1>2. CASE Mark
  <2>1. c \in DOMAIN cases /\ At("sweep", "mark")
    BY <1>0, <1>2, SweepAt DEF Mark, At
  <2>2. PICK d : /\ Writes(c, d) /\ d.escalated = TRUE /\ d.tickets = cases[c].tickets
                 /\ d.torn = cases[c].torn
    BY <1>0, <1>2, MarkWrites
  <2>3. /\ DOMAIN cases' = DOMAIN cases /\ cases'[c] = d
        /\ \A j \in DOMAIN cases : j # c => cases'[j] = cases[j]
    BY <2>2, Rewritten DEF Writes, ShapeInv
  <2>4. agent'["sweep"].pc = "look"
    BY <1>2, <1>c, AgentMoves DEF Mark, Agents
  <2>5. cases[c].tickets["sweep"] <= cases[c].torn + 1
    BY <1>b, <2>1 DEF SweepPays
  <2>6. ASSUME NEW i \in DOMAIN cases, i # c PROVE Marked(i) => Marked(i)'
    BY <1>0, <2>1, <2>3, <2>6 DEF Marked, At
  <2>7. Marked(c)'
    <3>1. cases'[c].escalated = TRUE
      BY <2>2, <2>3
    <3> QED
      BY <3>1 DEF Marked
  <2> QED
    BY <2>2, <2>3, <2>4, <2>5, <2>6, <2>7 DEF SweepPays, At, Marked
<1>3. CASE Crash("sweep") /\ At("sweep", "mark")
  <2>1. c \in DOMAIN cases
    BY <1>0, <1>3, SweepAt DEF At
  <2>2. PICK d : /\ Writes(c, d) /\ d.escalated = cases[c].escalated /\ d.tickets = cases[c].tickets
                 /\ d.torn = cases[c].torn + 1
    BY <1>0, <1>3, CrashWrites DEF Agents
  <2>3. /\ DOMAIN cases' = DOMAIN cases /\ cases'[c] = d
        /\ \A j \in DOMAIN cases : j # c => cases'[j] = cases[j]
    BY <2>2, Rewritten DEF Writes, ShapeInv
  <2>4. agent'["sweep"].pc = "look"
    BY <1>3, <1>c, AgentMoves DEF Crash, Agents
  <2>5. cases[c].tickets["sweep"] <= cases[c].torn + 1
    BY <1>b, <2>1 DEF SweepPays
  <2>6. cases'[c].tickets["sweep"] <= cases'[c].torn + (IF Marked(c)' THEN 1 ELSE 0)
    BY <1>b, <2>1, <2>2, <2>3, <2>5
  <2>7. ASSUME NEW i \in DOMAIN cases, i # c PROVE Marked(i) => Marked(i)'
    BY <1>0, <1>3, <2>3, <2>7 DEF Marked, At
  <2> QED
    BY <1>b, <2>3, <2>4, <2>6, <2>7 DEF SweepPays, At, Marked
<1>4. CASE RouterTicket
  <2> DEFINE r == agent["router"].case
  <2>1. r \in DOMAIN cases
    BY <1>4, RouterAt DEF RouterTicket, At
  <2>2. PICK d : /\ Writes(r, d) /\ d.torn = cases[r].torn /\ d.escalated = cases[r].escalated
                 /\ d.tickets["sweep"] = cases[r].tickets["sweep"]
    BY <1>4, <2>1, FiledWrites DEF RouterTicket, Openers, Agents
  <2>3. cases'[r] = d /\ \A j \in DOMAIN cases : j # r => cases'[j] = cases[j]
    BY <2>2, Rewritten DEF Writes, ShapeInv
  <2>4. SweepSame /\ NewPays
    BY <2>2, <2>3, WrittenNew DEF SweepSame
  <2>5. agent'["sweep"] = agent["sweep"]
    BY <1>4, AgentMoves DEF RouterTicket, Agents
  <2> QED
    BY <1>a, <2>4, <2>5, SweepKeeps
<1>5. ASSUME ~ Paying PROVE SweepPays'
  <2>1. SweepSame /\ NewPays
    BY <1>5, PayStep DEF AllSame
  <2> DEFINE s == agent["sweep"]
             t == agent'["sweep"]
  <2> SUFFICES \/ t = s
               \/ /\ t.pc # "mark" /\ ~ At("sweep", "mark")
                  /\ t.pc = "ticket" /\ t.case \in DOMAIN cases => ~ cases[t.case].escalated
    BY <1>a, <2>1, SweepKeeps
  <2>2. CASE UNCHANGED agent
    BY <2>2
  <2>3. CASE Look
    <3>1. PICK f, h, n, entry, own :
            Becomes("sweep", IF f = "clean" THEN Following
                             ELSE [Job(h, f) EXCEPT !.at = n, !.tuned = EntrySuppresses(entry, own)])
      BY <2>3 DEF Look
    <3>2. [Job(h, f) EXCEPT !.at = n, !.tuned = EntrySuppresses(entry, own)].pc = "scan"
      BY DEF Job
    <3>3. t.pc \in {"look", "scan"}
      BY <3>1, <3>2, <1>c, AgentMoves DEF Agents
    <3> QED
      BY <2>3, <3>3 DEF Look, At
  <2>4. CASE Scan \/ Cool
    <3>1. s \in Jobs
      BY <2>4, SweepAt DEF Scan, Cool, At
    <3>2. \/ Becomes("sweep", Following)
          \/ \E i : Becomes("sweep", [s EXCEPT !.pc = "attach", !.case = i])
          \/ \E n, b : Becomes("sweep", [s EXCEPT !.pc = "cool", !.seen = n, !.blind = b])
          \/ Becomes("sweep", [s EXCEPT !.pc = "mint"])
      BY <2>4 DEF Scan, Cool
    <3>3. \A x : Becomes("sweep", x) => t = x
      BY AgentMoves DEF Agents
    <3>4. t.pc \in {"look", "attach", "cool", "mint"}
      <4>1. ASSUME NEW i, Becomes("sweep", [s EXCEPT !.pc = "attach", !.case = i]) PROVE t.pc = "attach"
        <5>1. t = [s EXCEPT !.pc = "attach", !.case = i]
          BY <3>3, <4>1
        <5> QED
          BY <3>1, <5>1 DEF Jobs
      <4>2. ASSUME NEW n, NEW b, Becomes("sweep", [s EXCEPT !.pc = "cool", !.seen = n, !.blind = b])
            PROVE  t.pc = "cool"
        <5>1. t = [s EXCEPT !.pc = "cool", !.seen = n, !.blind = b]
          BY <3>3, <4>2
        <5> QED
          BY <3>1, <5>1 DEF Jobs
      <4>3. ASSUME Becomes("sweep", [s EXCEPT !.pc = "mint"]) PROVE t.pc = "mint"
        BY <3>1, <3>3, <4>3 DEF Jobs
      <4>4. ASSUME Becomes("sweep", Following) PROVE t.pc = "look"
        BY <3>3, <4>4, <1>c
      <4> QED
        BY <3>2, <4>1, <4>2, <4>3, <4>4
    <3> QED
      BY <2>4, <3>4 DEF Scan, Cool, At
  <2>5. CASE Attach
    <3>a. s \in Jobs
      BY <2>5, SweepAt DEF Attach, At
    <3>b. \/ Becomes("sweep", Following)
          \/ Becomes("sweep", [s EXCEPT !.pc = "ticket"]) /\ ~ cases[s.case].escalated
      BY <2>5 DEF Attach
    <3>c. [s EXCEPT !.pc = "ticket"].pc = "ticket" /\ [s EXCEPT !.pc = "ticket"].case = s.case
      BY <3>a, JobGoes
    <3>1. \/ t.pc = "look"
          \/ t.pc = "ticket" /\ t.case = s.case /\ ~ cases[s.case].escalated
      BY <3>b, <3>c, <1>c, AgentMoves DEF Agents
    <3> QED
      BY <2>5, <3>1 DEF Attach, At
  <2>6. CASE Mint
    <3>1. t.pc = "look" \/ (t.pc = "ticket" /\ t.case = Len(cases) + 1)
      <4>1. s \in Jobs
        BY <2>6, SweepAt DEF Mint, At
      <4>2. \/ Becomes("sweep", Following)
            \/ Becomes("sweep", [s EXCEPT !.pc = "ticket", !.case = Len(cases) + 1])
        BY <2>6 DEF Mint
      <4>3. /\ [s EXCEPT !.pc = "ticket", !.case = Len(cases) + 1].pc = "ticket"
            /\ [s EXCEPT !.pc = "ticket", !.case = Len(cases) + 1].case = Len(cases) + 1
        BY <4>1 DEF Jobs
      <4> QED
        BY <4>2, <4>3, <1>c, AgentMoves DEF Agents
    <3>2. Len(cases) + 1 \notin DOMAIN cases
      BY <1>a, CasesGrow
    <3> QED
      BY <2>6, <3>1, <3>2 DEF Mint, At
  <2>7. CASE RouterStep
    <3>1. UNCHANGED agent \/ \E x : Becomes("router", x)
      BY <2>7 DEF RouterStep, NewRun, RouterScan, RouterMint, RouterTicket, Dispatch, DispatchFails
    <3> QED
      BY <3>1, AgentMoves DEF Agents
  <2>8. ASSUME NEW g \in Agents, Crash(g) PROVE t = s \/ (t.pc = "look" /\ ~ At("sweep", "mark"))
    <3>1. CASE g = "sweep"
      BY <1>5, <1>c, <2>8, <3>1, AgentMoves DEF Crash, Paying
    <3>2. CASE g = "router"
      BY <2>8, <3>2, AgentMoves DEF Crash, Agents
    <3> QED
      BY <3>1, <3>2 DEF Agents
  <2>9. ASSUME World, ~ \E g \in Agents : Crash(g) PROVE UNCHANGED agent
    BY <2>9 DEF World, CorpusTurns, Run, Retune, Shift, Deny, Close, Overwrite, Age
  <2> QED
    BY <1>5, <2>2, <2>3, <2>4, <2>5, <2>6, <2>7, <2>8, <2>9 DEF Next, SweepStep, Paying, vars
<1> QED
  BY <1>1, <1>2, <1>3, <1>4, <1>5 DEF Paying

\* The router is where it was, or where it files for a case it has just opened, if any.
LEMMA OpenerKeeps ==
  ASSUME ShapeInv, OpenerSame, NewPays, OpenerPays, CasesMove,
         \/ agent'["router"] = agent["router"]
         \/ agent'["router"].pc = "ticket" =>
              /\ agent'["router"].case \notin DOMAIN cases
              /\ agent'["router"].case \in DOMAIN cases' => cases'[agent'["router"].case].by = "router"
  PROVE  OpenerPays'
<1> SUFFICES ASSUME NEW i \in DOMAIN cases'
             PROVE  /\ cases'[i].tickets["router"] <= IF cases'[i].by = "router" THEN 1 ELSE 0
                    /\ cases'[i].tickets["hand"] <= IF cases'[i].by = "hand" THEN 1 ELSE 0
                    /\ At("router", "ticket")' /\ agent'["router"].case = i
                         => cases'[i].by = "router" /\ cases'[i].tickets["router"] = 0
  BY DEF OpenerPays, At
<1>1. CASE i \in DOMAIN cases
  <2>1. cases'[i].tickets["router"] = cases[i].tickets["router"]
    BY <1>1 DEF OpenerSame
  <2>2. cases'[i].tickets["hand"] = cases[i].tickets["hand"]
    BY <1>1 DEF OpenerSame
  <2>3. cases'[i].by = cases[i].by
    BY <1>1 DEF CasesMove, Later
  <2>4. /\ cases[i].tickets["router"] <= IF cases[i].by = "router" THEN 1 ELSE 0
        /\ cases[i].tickets["hand"] <= IF cases[i].by = "hand" THEN 1 ELSE 0
        /\ At("router", "ticket") /\ agent["router"].case = i
             => cases[i].by = "router" /\ cases[i].tickets["router"] = 0
    BY <1>1 DEF OpenerPays
  <2> QED
    BY <1>1, <2>1, <2>2, <2>3, <2>4 DEF At
<1>2. CASE i \notin DOMAIN cases
  <2>1. /\ cases'[i].tickets["router"] = 0
        /\ cases'[i].tickets["hand"] <= IF cases'[i].by = "hand" THEN 1 ELSE 0
    BY <1>2 DEF NewPays
  <2>2. 0 <= IF cases'[i].by = "router" THEN 1 ELSE 0
    OBVIOUS
  <2>3. ASSUME At("router", "ticket")', agent'["router"].case = i PROVE cases'[i].by = "router"
    <3>1. CASE agent'["router"] = agent["router"]
      BY <1>2, <2>3, <3>1, RouterAt DEF At
    <3> QED
      BY <2>3, <3>1 DEF At
  <2> QED
    BY <2>1, <2>2, <2>3
<1> QED
  BY <1>1, <1>2

LEMMA OpenerPaysStep == ASSUME ShapeInv, OpenerPays, [Next]_vars PROVE OpenerPays'
<1>0. PICK c : c = agent["router"].case
  OBVIOUS
<1>a. CasesMove
  BY CasesStep
<1>1. CASE RouterTicket
  <2>1. c \in DOMAIN cases /\ At("router", "ticket")
    BY <1>0, <1>1, RouterAt DEF RouterTicket, At
  <2>2. PICK d : /\ Writes(c, d) /\ d.tickets["router"] = cases[c].tickets["router"] + 1
                 /\ d.tickets["hand"] = cases[c].tickets["hand"]
    BY <1>0, <1>1, <2>1, FiledWrites DEF RouterTicket, Openers, Agents
  <2>3. /\ DOMAIN cases' = DOMAIN cases /\ cases'[c] = d
        /\ \A j \in DOMAIN cases : j # c => cases'[j] = cases[j]
    BY <2>2, Rewritten DEF Writes, ShapeInv
  <2>4. agent'["router"].pc = "rest"
    BY <1>1, AgentMoves DEF RouterTicket, Agents, Rest
  <2>5. cases[c].by = "router" /\ cases[c].tickets["router"] = 0
    BY <1>0, <2>1 DEF OpenerPays
  <2>6. cases'[c].by = "router" /\ cases'[c].tickets["router"] = 1
        /\ cases'[c].tickets["hand"] = cases[c].tickets["hand"]
    BY <2>2, <2>3, <2>5 DEF Writes, Later
  <2> QED
    BY <2>1, <2>3, <2>4, <2>5, <2>6 DEF OpenerPays, At
<1>2. ASSUME ~ RouterTicket PROVE OpenerPays'
  <2>1. OpenerSame /\ NewPays
    <3>1. CASE Ticket
      <4>0. PICK i : i = agent["sweep"].case
        OBVIOUS
      <4>1. i \in DOMAIN cases
        BY <4>0, <3>1, SweepAt DEF Ticket, At
      <4>2. PICK d : /\ Writes(i, d) /\ d.tickets["router"] = cases[i].tickets["router"]
                     /\ d.tickets["hand"] = cases[i].tickets["hand"]
        BY <3>1, <4>0, <4>1, FiledWrites DEF Ticket, Openers, Agents
      <4>3. cases'[i] = d /\ \A j \in DOMAIN cases : j # i => cases'[j] = cases[j]
        BY <4>2, Rewritten DEF Writes, ShapeInv
      <4> QED
        BY <4>2, <4>3, WrittenNew DEF OpenerSame
    <3>2. ASSUME NEW i, NEW d, Writes(i, d), d.tickets = cases[i].tickets PROVE OpenerSame /\ NewPays
      <4>1. cases'[i] = d /\ \A j \in DOMAIN cases : j # i => cases'[j] = cases[j]
        BY <3>2, Rewritten DEF Writes, ShapeInv
      <4> QED
        BY <3>2, <4>1, WrittenNew DEF OpenerSame
    <3>3. CASE Mark
      BY <3>2, <3>3, MarkWrites
    <3>4. CASE Crash("sweep") /\ At("sweep", "mark")
      BY <3>2, <3>4, CrashWrites DEF Agents
    <3> QED
      BY <1>2, <3>1, <3>3, <3>4, PayStep DEF Paying, AllSame
  <2> DEFINE s == agent["router"]
             t == agent'["router"]
  <2> SUFFICES \/ t = s
               \/ t.pc = "ticket" =>
                    /\ t.case \notin DOMAIN cases
                    /\ t.case \in DOMAIN cases' => cases'[t.case].by = "router"
    BY <1>a, <2>1, OpenerKeeps
  <2>2. CASE UNCHANGED agent
    BY <2>2
  <2>3. CASE SweepStep
    <3>1. \E x : Becomes("sweep", x)
      BY <2>3 DEF SweepStep, Look, Scan, Attach, Cool, Mint, Ticket, Mark
    <3> QED
      BY <3>1, AgentMoves DEF Agents
  <2>4. CASE RouterMint
    <3>1. s \in Jobs
      BY <2>4, RouterAt DEF RouterMint, At
    <3>2. \/ Becomes("router", Rest)
          \/ Becomes("router", [s EXCEPT !.pc = "ticket", !.case = Len(cases) + 1])
      BY <2>4 DEF RouterMint
    <3>3. /\ [s EXCEPT !.pc = "ticket", !.case = Len(cases) + 1].pc = "ticket"
          /\ [s EXCEPT !.pc = "ticket", !.case = Len(cases) + 1].case = Len(cases) + 1
      BY <3>1 DEF Jobs
    <3>4. t.pc = "ticket" => t.case = Len(cases) + 1
      <4>1. \A x : Becomes("router", x) => t = x
        BY AgentMoves DEF Agents
      <4>2. Becomes("router", Rest) => t.pc = "rest"
        BY <4>1 DEF Rest
      <4>3. Becomes("router", [s EXCEPT !.pc = "ticket", !.case = Len(cases) + 1])
              => t = [s EXCEPT !.pc = "ticket", !.case = Len(cases) + 1]
        BY <4>1
      <4> QED
        BY <3>2, <3>3, <4>2, <4>3
    <3>5. Len(cases) + 1 \notin DOMAIN cases
      BY <1>a, CasesGrow
    <3>6. cases'[Len(cases) + 1].by = "router"
      BY <2>4, RouterMintAdds, Another DEF Adds, ShapeInv
    <3> QED
      BY <3>4, <3>5, <3>6
  <2>5. CASE RouterScan \/ \E h \in Patterns : Dispatch(h)
    <3>1. \/ Becomes("router", Rest)
          \/ \E h, f : Becomes("router", Job(h, f))
          \/ At("router", "scan") /\ \E n, b : Becomes("router", [s EXCEPT !.pc = "mint", !.seen = n, !.blind = b])
      BY <2>5 DEF RouterScan, Dispatch
    <3>2. \A x : Becomes("router", x) => t = x
      BY AgentMoves DEF Agents
    <3>3. ASSUME NEW n, NEW b, At("router", "scan"),
                 Becomes("router", [s EXCEPT !.pc = "mint", !.seen = n, !.blind = b])
          PROVE  t.pc = "mint"
      <4>1. s \in Jobs
        BY <3>3, RouterAt DEF At
      <4>2. t = [s EXCEPT !.pc = "mint", !.seen = n, !.blind = b]
        BY <3>2, <3>3
      <4> QED
        BY <4>1, <4>2 DEF Jobs
    <3>4. ASSUME NEW h, NEW f, Becomes("router", Job(h, f)) PROVE t.pc = "scan"
      BY <3>2, <3>4 DEF Job
    <3>5. Becomes("router", Rest) => t.pc = "rest"
      BY <3>2 DEF Rest
    <3>6. t.pc \in {"rest", "scan", "mint"}
      BY <3>1, <3>3, <3>4, <3>5
    <3> QED
      BY <3>6
  <2>6. CASE NewRun \/ \E h \in Patterns : DispatchFails(h)
    BY <2>6 DEF NewRun, DispatchFails
  <2>7. ASSUME NEW g \in Agents, Crash(g) PROVE t = s \/ t.pc = "rest"
    <3>1. CASE g = "router"
      BY <2>7, <3>1, AgentMoves DEF Crash, Rest
    <3>2. CASE g = "sweep"
      BY <2>7, <3>2, AgentMoves DEF Crash, Agents
    <3> QED
      BY <3>1, <3>2 DEF Agents
  <2>8. ASSUME World, ~ \E g \in Agents : Crash(g) PROVE UNCHANGED agent
    BY <2>8 DEF World, CorpusTurns, Run, Retune, Shift, Deny, Close, Overwrite, Age
  <2> QED
    BY <1>2, <2>2, <2>3, <2>4, <2>5, <2>6, <2>7, <2>8 DEF Next, RouterStep, vars
<1> QED
  BY <1>1, <1>2

----------------------------------------------------------------------------
\* Who has looked.

\* No step makes an open case of a hunt, but a new one.
LEMMA OpenCases ==
  ASSUME ShapeInv, CasesMove, NEW h, NEW i \in DOMAIN cases', cases'[i].hunt = h,
         cases'[i].status = "open", cases'[i].age < 2, cases'[i].sourced
  PROVE  i \in OpenOfHunt(h) \/ i > Len(cases)
<1>1. CASE i \in DOMAIN cases
  <2>1. Later(cases[i], cases'[i])
    BY <1>1 DEF CasesMove
  <2>2. cases[i].age \in 0..2 /\ cases'[i].age \in 0..2
    <3>1. cases[i] \in CaseOf /\ cases'[i] \in CaseOf
      <4>1. ASSUME NEW q \in Seq(CaseOf), NEW k \in DOMAIN q PROVE q[k] \in CaseOf
        OBVIOUS
      <4>2. cases \in Seq(CaseOf) /\ cases' \in Seq(CaseOf)
        BY DEF ShapeInv, CasesMove
      <4> QED
        BY <1>1, <4>1, <4>2
    <3> QED
      BY <3>1 DEF CaseOf
  <2>3. cases[i].hunt = h /\ cases[i].status = "open" /\ cases[i].age < 2 /\ cases[i].sourced
    BY <2>1, <2>2 DEF Later
  <2> QED
    BY <1>1, <2>3 DEF OpenOfHunt, Of, Open
<1>2. CASE i \notin DOMAIN cases
  <2>1. i = Len(cases) + 1 /\ Len(cases) \in Nat
    BY <1>2, CasesGrow
  <2> QED
    BY <2>1
<1> QED
  BY <1>1, <1>2

\* A process that has looked and keeps what it has seen has looked; and one that looks now.
LEMMA LookKeeps ==
  ASSUME ShapeInv, CasesMove, NEW g \in Agents, HasLooked(g),
         agent'[g].pc \in {"cool", "mint"} =>
           /\ agent[g].pc \in {"cool", "mint"} /\ agent'[g].hunt = agent[g].hunt
           /\ agent'[g].seen = agent[g].seen /\ agent'[g].blind = agent[g].blind
  PROVE  HasLooked(g)'
<1> SUFFICES ASSUME agent'[g].pc \in {"cool", "mint"}
             PROVE  /\ agent'[g].seen <= Len(cases')
                    /\ agent'[g].blind \/ \A i \in OpenOfHunt(agent[g].hunt)' : i > agent'[g].seen
  BY DEF HasLooked
<1>1. /\ agent[g].seen <= Len(cases)
      /\ agent[g].blind \/ \A i \in OpenOfHunt(agent[g].hunt) : i > agent[g].seen
  BY DEF HasLooked
<1>2. agent[g] \in Jobs
  BY SweepAt, RouterAt DEF Agents
<1>3. Len(cases) \in Nat /\ Len(cases') \in {Len(cases), Len(cases) + 1} /\ agent[g].seen \in Nat
  BY <1>2 DEF CasesMove, Jobs
<1>4. agent'[g].seen <= Len(cases')
  BY <1>1, <1>3
<1>5. ASSUME NEW i \in OpenOfHunt(agent[g].hunt)', ~ agent'[g].blind PROVE i > agent'[g].seen
  <2>1. /\ i \in DOMAIN cases' /\ cases'[i].hunt = agent[g].hunt /\ cases'[i].status = "open"
        /\ cases'[i].age < 2 /\ cases'[i].sourced
    BY <1>5 DEF OpenOfHunt, Of, Open
  <2>2. i \in Nat
    BY <2>1, CasesGrow
  <2>3. i \in OpenOfHunt(agent[g].hunt) \/ i > Len(cases)
    BY <2>1, OpenCases
  <2> QED
    BY <1>1, <1>3, <1>5, <2>2, <2>3
<1> QED
  BY <1>4, <1>5

LEMMA LookStep == ASSUME ShapeInv, LookInv, [Next]_vars PROVE LookInv'
<1>a. CasesMove
  BY CasesStep
<1>b. ASSUME NEW g \in Agents, agent'[g] = agent[g] PROVE HasLooked(g)'
  BY <1>a, <1>b, LookKeeps DEF LookInv
<1>c. ASSUME NEW g \in Agents, agent'[g].pc \notin {"cool", "mint"} PROVE HasLooked(g)'
  BY <1>c DEF HasLooked
<1>d. Following.pc = "look" /\ Turn(1).pc = "look" /\ Rest.pc = "rest"
  BY FollowingTurn DEF Turn, Rest
<1>e. ASSUME NEW g \in Agents, NEW n, NEW b, agent[g] \in Jobs, UNCHANGED cases,
             NEW pc, Becomes(g, [agent[g] EXCEPT !.pc = pc, !.seen = Len(cases), !.blind = b]),
             b \in BOOLEAN, b \/ OpenOfHunt(agent[g].hunt) = {}
      PROVE  HasLooked(g)'
  <2>1. agent'[g] = [agent[g] EXCEPT !.pc = pc, !.seen = Len(cases), !.blind = b]
    BY <1>e, AgentMoves
  <2>2. agent'[g].seen = Len(cases) /\ agent'[g].blind = b /\ agent'[g].hunt = agent[g].hunt
    BY <1>e, <2>1 DEF Jobs
  <2>3. OpenOfHunt(agent[g].hunt)' = OpenOfHunt(agent'[g].hunt)
    BY <1>e, <2>2 DEF OpenOfHunt, Of, Open
  <2>4. Len(cases) \in Nat
    BY <1>a, CasesGrow
  <2> QED
    BY <1>e, <2>2, <2>3, <2>4 DEF HasLooked
<1> DEFINE s == agent["sweep"]
           r == agent["router"]
\* The router is left alone by a step of the sweep, and the sweep by one of the router.
<1>f. ASSUME NEW x, Becomes("sweep", x)
      PROVE  agent'["sweep"] = x /\ HasLooked("router")'
  BY <1>b, <1>f, AgentMoves DEF Agents
<1>g. ASSUME NEW x, Becomes("router", x)
      PROVE  agent'["router"] = x /\ HasLooked("sweep")'
  BY <1>b, <1>g, AgentMoves DEF Agents
<1>h. ASSUME HasLooked("sweep")', HasLooked("router")' PROVE LookInv'
  BY <1>h DEF LookInv, Agents
<1>i. ASSUME NEW x, Becomes("sweep", x), x.pc \notin {"cool", "mint"} PROVE LookInv'
  BY <1>c, <1>f, <1>h, <1>i DEF Agents
<1>j. ASSUME NEW x, Becomes("router", x), x.pc \notin {"cool", "mint"} PROVE LookInv'
  BY <1>c, <1>g, <1>h, <1>j DEF Agents
<1>1. CASE UNCHANGED agent
  BY <1>1, <1>b DEF LookInv
<1>2. CASE Look
  <2>1. PICK f, h, n, entry, own :
          Becomes("sweep", IF f = "clean" THEN Following
                           ELSE [Job(h, f) EXCEPT !.at = n, !.tuned = EntrySuppresses(entry, own)])
    BY <1>2 DEF Look
  <2>2. [Job(h, f) EXCEPT !.at = n, !.tuned = EntrySuppresses(entry, own)].pc = "scan"
    BY DEF Job
  <2> QED
    BY <2>1, <2>2, <1>d, <1>i
<1>3. CASE Scan
  <2>1. s \in Jobs
    BY <1>3, SweepAt DEF Scan, At
  <2>2. \/ Becomes("sweep", Following)
        \/ \E i : Becomes("sweep", [s EXCEPT !.pc = "attach", !.case = i])
        \/ \E blind \in BOOLEAN :
             /\ FindsNone(OpenOfHunt(s.hunt), blind) /\ UNCHANGED cases
             /\ Becomes("sweep", [s EXCEPT !.pc = "cool", !.seen = Len(cases), !.blind = blind])
    BY <1>3 DEF Scan
  <2>3. CASE Becomes("sweep", Following)
    BY <2>3, <1>d, <1>i
  <2>4. ASSUME NEW i, Becomes("sweep", [s EXCEPT !.pc = "attach", !.case = i]) PROVE LookInv'
    <3>1. [s EXCEPT !.pc = "attach", !.case = i].pc = "attach"
      BY <2>1 DEF Jobs
    <3> QED
      BY <2>4, <3>1, <1>i
  <2>5. ASSUME NEW blind \in BOOLEAN, FindsNone(OpenOfHunt(s.hunt), blind), UNCHANGED cases,
               Becomes("sweep", [s EXCEPT !.pc = "cool", !.seen = Len(cases), !.blind = blind])
        PROVE  LookInv'
    <3>1. blind \/ OpenOfHunt(s.hunt) = {}
      BY <2>5 DEF FindsNone
    <3>2. HasLooked("sweep")'
      BY <2>1, <2>5, <3>1, <1>e DEF Agents
    <3> QED
      BY <2>5, <3>2, <1>f, <1>h
  <2> QED
    BY <2>2, <2>3, <2>4, <2>5
<1>4. CASE Cool
  <2>1. s \in Jobs /\ s.pc = "cool"
    BY <1>4, SweepAt DEF Cool, At
  <2>2. Becomes("sweep", Following) \/ Becomes("sweep", [s EXCEPT !.pc = "mint"])
    BY <1>4 DEF Cool
  <2>3. ASSUME Becomes("sweep", [s EXCEPT !.pc = "mint"]) PROVE LookInv'
    <3>1. agent'["sweep"] = [s EXCEPT !.pc = "mint"]
      BY <2>3, <1>f
    <3>2. /\ agent'["sweep"].hunt = s.hunt /\ agent'["sweep"].seen = s.seen
          /\ agent'["sweep"].blind = s.blind
      BY <2>1, <3>1, JobGoes
    <3>3. HasLooked("sweep")'
      BY <2>1, <3>2, <1>a, LookKeeps DEF LookInv, Agents
    <3> QED
      BY <2>3, <3>3, <1>f, <1>h
  <2> QED
    BY <2>2, <2>3, <1>d, <1>i
<1>5. CASE Attach \/ Ticket
  <2>1. s \in Jobs
    BY <1>5, SweepAt DEF Attach, Ticket, At
  <2>2. /\ [s EXCEPT !.pc = "ticket"].pc = "ticket" /\ [s EXCEPT !.pc = "mark"].pc = "mark"
    BY <2>1, JobGoes
  <2>3. \/ Becomes("sweep", Following) \/ Becomes("sweep", [s EXCEPT !.pc = "ticket"])
        \/ Becomes("sweep", [s EXCEPT !.pc = "mark"])
    BY <1>5 DEF Attach, Ticket
  <2> QED
    BY <2>2, <2>3, <1>d, <1>i
<1>6. CASE Mint
  <2>1. s \in Jobs
    BY <1>6, SweepAt DEF Mint, At
  <2>2. [s EXCEPT !.pc = "ticket", !.case = Len(cases) + 1].pc = "ticket"
    BY <2>1 DEF Jobs
  <2>3. \/ Becomes("sweep", Following)
        \/ Becomes("sweep", [s EXCEPT !.pc = "ticket", !.case = Len(cases) + 1])
    BY <1>6 DEF Mint
  <2> QED
    BY <2>2, <2>3, <1>d, <1>i
<1>7. CASE Mark
  BY <1>7, <1>d, <1>i DEF Mark
<1>8. CASE NewRun \/ \E h \in Patterns : DispatchFails(h)
  BY <1>1, <1>8 DEF NewRun, DispatchFails
<1>9. ASSUME NEW h \in Patterns, Dispatch(h) PROVE LookInv'
  <2>1. \/ Becomes("router", Rest)
        \/ Becomes("router", Job(h, Analysis(AnalyzerOf[h], docs[h].week)))
    BY <1>9 DEF Dispatch
  <2>2. Job(h, Analysis(AnalyzerOf[h], docs[h].week)).pc = "scan"
    BY DEF Job
  <2> QED
    BY <2>1, <2>2, <1>d, <1>j
<1>10. CASE RouterScan
  <2>1. r \in Jobs
    BY <1>10, RouterAt DEF RouterScan, At
  <2>2. \/ Becomes("router", Rest)
        \/ \E blind \in BOOLEAN :
             /\ FindsNone(OpenOfHunt(r.hunt), blind) /\ UNCHANGED cases
             /\ Becomes("router", [r EXCEPT !.pc = "mint", !.seen = Len(cases), !.blind = blind])
    BY <1>10 DEF RouterScan
  <2>3. ASSUME NEW blind \in BOOLEAN, FindsNone(OpenOfHunt(r.hunt), blind), UNCHANGED cases,
               Becomes("router", [r EXCEPT !.pc = "mint", !.seen = Len(cases), !.blind = blind])
        PROVE  LookInv'
    <3>1. blind \/ OpenOfHunt(r.hunt) = {}
      BY <2>3 DEF FindsNone
    <3>2. HasLooked("router")'
      BY <2>1, <2>3, <3>1, <1>e DEF Agents
    <3> QED
      BY <2>3, <3>2, <1>g, <1>h
  <2> QED
    BY <2>2, <2>3, <1>d, <1>j
<1>11. CASE RouterMint
  <2>1. r \in Jobs
    BY <1>11, RouterAt DEF RouterMint, At
  <2>2. [r EXCEPT !.pc = "ticket", !.case = Len(cases) + 1].pc = "ticket"
    BY <2>1 DEF Jobs
  <2>3. \/ Becomes("router", Rest)
        \/ Becomes("router", [r EXCEPT !.pc = "ticket", !.case = Len(cases) + 1])
    BY <1>11 DEF RouterMint
  <2> QED
    BY <2>2, <2>3, <1>d, <1>j
<1>12. CASE RouterTicket
  BY <1>12, <1>d, <1>j DEF RouterTicket
<1>13. ASSUME NEW g \in Agents, Crash(g) PROVE LookInv'
  BY <1>13, <1>d, <1>i, <1>j DEF Crash, Agents
<1>14. ASSUME World, ~ \E g \in Agents : Crash(g) PROVE UNCHANGED agent
  BY <1>14 DEF World, CorpusTurns, Run, Retune, Shift, Deny, Close, Overwrite, Age
<1> QED
  BY <1>1, <1>2, <1>3, <1>4, <1>5, <1>6, <1>7, <1>8, <1>9, <1>10, <1>11, <1>12, <1>13, <1>14
     DEF Next, SweepStep, RouterStep, vars

\* A new case has an excuse, or no case of its hunt was open.
LEMMA NewExcused ==
  ASSUME ShapeInv, LookInv, [Next]_vars, NEW j \in DOMAIN cases', j \notin DOMAIN cases
  PROVE  cases'[j].excuse # {} \/ OpenOfHunt(cases'[j].hunt) = {}
<1>a. j = Len(cases) + 1
  BY CasesStep, CasesGrow
<1>1. ASSUME NEW g \in Agents, agent[g].pc = "mint", NEW d, Adds(d),
             d.hunt = agent[g].hunt, d.excuse = Excuse(g)
      PROVE  cases'[j].excuse # {} \/ OpenOfHunt(cases'[j].hunt) = {}
  <2>1. cases'[j] = d
    BY <1>1, <1>a, Another DEF Adds, ShapeInv
  <2>2. agent[g].blind \/ \A i \in OpenOfHunt(agent[g].hunt) : i > agent[g].seen
    BY <1>1 DEF LookInv, HasLooked
  <2>3. agent[g].blind => "blind" \in Excuse(g)
    BY DEF Excuse
  <2>4. ASSUME NEW i \in OpenOfHunt(agent[g].hunt), i > agent[g].seen PROVE "race" \in Excuse(g)
    BY <2>4 DEF Excuse
  <2> QED
    BY <1>1, <2>1, <2>2, <2>3, <2>4
<1>2. CASE Mint
  BY <1>1, <1>2, MintAdds DEF Mint, At, Agents
<1>3. CASE RouterMint
  BY <1>1, <1>3, RouterMintAdds DEF RouterMint, At, Agents
<1>4. ASSUME NEW h \in Hunts, Run(h) PROVE cases'[j].excuse # {}
  BY <1>4, <1>a, RunAdds, Another DEF Adds, ShapeInv
<1>5. ASSUME NEW i, NEW d, Writes(i, d) PROVE FALSE
  BY <1>5, Rewritten DEF Writes, ShapeInv
<1>6. CASE UNCHANGED cases
  BY <1>6
<1>7. CASE SweepStep
  <2>1. CASE Ticket
    BY <1>5, <2>1, SweepAt, FiledWrites DEF Ticket, At, Openers, Agents
  <2> QED
    BY <1>2, <1>5, <1>6, <1>7, <2>1, AppendingWrites, MarkWrites DEF SweepStep, Look, Cool, Appending
<1>8. CASE RouterStep
  <2>1. CASE RouterTicket
    BY <1>5, <2>1, RouterAt, FiledWrites DEF RouterTicket, At, Openers, Agents
  <2> QED
    BY <1>3, <1>5, <1>6, <1>8, <2>1, AppendingWrites
    DEF RouterStep, NewRun, Dispatch, DispatchFails, Appending
<1>9. CASE World
  <2>1. ASSUME NEW g \in Agents, Crash(g) PROVE cases'[j].excuse # {}
    BY <1>5, <1>6, <2>1, CrashWrites
  <2>2. ASSUME NEW i \in DOMAIN cases, Close(i) \/ Age(i) PROVE FALSE
    BY <1>5, <2>2, CloseWrites, AgeWrites
  <2>3. ASSUME NEW i \in DOMAIN cases, Overwrite(i) PROVE FALSE
    BY <1>5, <1>6, <2>3, UnsourcesWrites DEF Overwrite
  <2> QED
    BY <1>4, <1>6, <1>9, <2>1, <2>2, <2>3 DEF World, CorpusTurns, Retune, Shift, Deny
<1> QED
  BY <1>6, <1>7, <1>8, <1>9 DEF Next, vars

LEMMA TwinsStep == ASSUME ShapeInv, LookInv, TwinsAreExcused, [Next]_vars PROVE TwinsAreExcused'
<1> SUFFICES ASSUME NEW i \in DOMAIN cases', NEW j \in DOMAIN cases', i < j,
                    cases'[i].hunt = cases'[j].hunt, cases'[i].status = "open",
                    cases'[j].status = "open", cases'[i].age < 2, cases'[i].sourced
             PROVE  cases'[j].excuse # {}
  BY DEF TwinsAreExcused, Open
<1>a. CasesMove
  BY CasesStep
<1>1. i \in OpenOfHunt(cases'[j].hunt)
  <2>1. i \in OpenOfHunt(cases'[j].hunt) \/ i > Len(cases)
    BY <1>a, OpenCases
  <2>2. /\ Len(cases) \in Nat /\ i \in Nat /\ j \in Nat
        /\ i \in DOMAIN cases \cup {Len(cases) + 1} /\ j \in DOMAIN cases \cup {Len(cases) + 1}
        /\ DOMAIN cases = 1..Len(cases)
    BY <1>a, CasesGrow DEF CasesMove
  <2> QED
    BY <2>1, <2>2
<1>2. CASE j \in DOMAIN cases
  <2>1. Later(cases[j], cases'[j])
    BY <1>2, <1>a DEF CasesMove
  <2>2. cases[j].hunt = cases'[j].hunt /\ cases[j].status = "open" /\ cases'[j].excuse = cases[j].excuse
    BY <2>1 DEF Later
  <2>3. /\ i \in DOMAIN cases /\ cases[i].hunt = cases[j].hunt /\ Open(i) /\ cases[i].age < 2
        /\ cases[i].sourced
    BY <1>1, <2>2 DEF OpenOfHunt, Of
  <2> QED
    BY <1>2, <2>2, <2>3 DEF TwinsAreExcused, Open
<1>3. CASE j \notin DOMAIN cases
  BY <1>1, <1>3, NewExcused
<1> QED
  BY <1>2, <1>3

----------------------------------------------------------------------------
\* The theorems.

Inv == ShapeInv /\ SweepPays /\ OpenerPays /\ LookInv /\ TwinsAreExcused

LEMMA Invariant == Spec => []Inv
<1>1. Init => Inv
  <2>1. Init => TwinsAreExcused
    BY DEF Init, TwinsAreExcused
  <2> QED
    BY <2>1, ShapeInit, PayInit DEF Inv
<1>2. Inv /\ [Next]_vars => Inv'
  BY ShapeStep, SweepPaysStep, OpenerPaysStep, LookStep, TwinsStep DEF Inv
<1> QED
  BY <1>1, <1>2, PTL DEF Spec

\* The human's queue gets at most one ticket of the sweep for a case, and one more for each
\* death of the sweep between the ticket and its mark; and one of the process that opened
\* the case (EscalationClient.escalate, node_run_sweep, dispatch_pattern, hunt:run).
THEOREM TicketsPaid == Spec => []TicketsArePaid
<1>1. Inv => TicketsArePaid
  <2> SUFFICES ASSUME Inv, NEW i \in DOMAIN cases
               PROVE  /\ cases[i].tickets["sweep"] <= 1 + cases[i].torn
                      /\ \A g \in {"router", "hand"} :
                           cases[i].tickets[g] <= IF cases[i].by = g THEN 1 ELSE 0
    BY DEF TicketsArePaid
  <2>1. cases[i].tickets["sweep"] \in Nat /\ cases[i].torn \in Nat
    BY CaseTyped DEF Inv
  <2>2. cases[i].tickets["sweep"] <= cases[i].torn + (IF Marked(i) THEN 1 ELSE 0)
    BY DEF Inv, SweepPays
  <2>3. cases[i].tickets["sweep"] <= 1 + cases[i].torn
    BY <2>1, <2>2
  <2> QED
    BY <2>3 DEF Inv, OpenerPays
<1> QED
  BY <1>1, Invariant, PTL

\* A second open case of a hunt, while the first is not over thirty days old and has its
\* source, which a write from a failed read loses, is a person's own run, a scan that
\* failed, or a case another process opened after the scan (recent_hunt_cases, used by
\* node_run_sweep and dispatch_pattern; append_event).
THEOREM TwinsExcused == Spec => []TwinsAreExcused
<1>1. Inv => TwinsAreExcused
  BY DEF Inv
<1> QED
  BY <1>1, Invariant, PTL
=============================================================================
