---------------------------- MODULE TuningProofs ----------------------------
(***************************************************************************)
(* Theorems of Tuning: its types, that only what a person signed           *)
(* suppresses, that a scope once set stands, and that a decision of the    *)
(* console settles its alert.  For any writers, rules, alerts, entries     *)
(* and bounds.                                                             *)
(***************************************************************************)
EXTENDS Tuning, TLAPS

----------------------------------------------------------------------------
\* Types.

\* The fingerprint of an alert is one, and so is what a ticket yields.
LEMMA PrintFits ==
  /\ \A a \in Alerts : PrintOf(a) \in Prints /\ PrintOf(a).kind = "full"
  /\ \A a \in Alerts : VerdictPrint(a) \in Prints /\ NoPrint \in Prints
  /\ \A a \in Alerts, filer \in Filers : TicketPrint(filer, a) \in Prints
<1>1. \A a \in Alerts : PrintOf(a) \in Prints /\ PrintOf(a).kind = "full"
  BY DEF PrintOf, Prints, Entities, Levels, Marks
<1>2. \A a \in Alerts : VerdictPrint(a) \in Prints
  BY DEF VerdictPrint, Prints, Entities, Hosts, Levels, Marks
<1>3. NoPrint \in Prints
  BY DEF NoPrint, Prints
<1> QED
  BY <1>1, <1>2, <1>3 DEF TicketPrint

\* An entry is told from no entry by its decision.
LEMMA EntryFound == \A e \in Entries : Found(e) /\ e.decision \in Decisions
<1> TAKE e \in Entries
<1>1. e.decision \in Decisions /\ NoEntry.decision = "none"
  BY DEF Entries, NoEntry
<1> QED
  BY <1>1 DEF Found, Decisions

\* What a person's decision becomes is a set of arguments of write().
LEMMA ArgumentsTyped ==
  ASSUME TypeOK, NEW w \in Writers, At(w, "prior"), NEW prior \in Entries \cup {NoEntry}
  PROVE  Arguments(w, prior) \in ArgumentSet
<1>1. writer[w].alert \in Alerts /\ writer[w].filer \in Filers /\ writer[w].decision \in Decisions
  BY DEF TypeOK, States, At, Rest
<1>2. DecisionPrint(w) \in Prints
  BY <1>1, PrintFits DEF DecisionPrint
<1>3. Found(prior) => prior.exclude \in SUBSET Hosts /\ prior.by \in Names
  BY DEF Found, Entries
<1> DEFINE hosts == IF Found(prior) THEN prior.exclude ELSE {}
           named == IF hosts # {} THEN prior.by ELSE ""
           state == IF w \in Consoles THEN "committed" ELSE "proposed"
           by == IF w \in Consoles /\ named # "" THEN named ELSE w
           sign == w \in Consoles
<1>4. hosts \in SUBSET Hosts
  BY <1>3
<1>5. w \in Names /\ "" \in Names
  BY DEF Names
<1>6. named \in Names
  BY <1>3, <1>5
<1>7. by \in Names
  BY <1>5, <1>6
<1>8. state \in {"unset", "proposed", "committed"} /\ sign \in BOOLEAN
  OBVIOUS
<1>9. Arguments(w, prior) = [decision |-> writer[w].decision, state |-> state, by |-> by,
                             print |-> DecisionPrint(w), exclude |-> hosts, sign |-> sign]
  BY DEF Arguments
<1> HIDE DEF hosts, named, state, by, sign
<1> QED
  BY <1>1, <1>2, <1>4, <1>7, <1>8, <1>9 DEF ArgumentSet

\* What is pending in an entry is a proposal.
LEMMA PendingTyped ==
  ASSUME NEW e \in Entries \cup {NoEntry}
  PROVE  Superseded(e) \in Proposals \cup {NoProposal}
<1>1. CASE e = NoEntry
  BY <1>1 DEF Superseded, Found
<1>2. CASE e \in Entries
  BY <1>2, EntryFound DEF Superseded, Pending, Entries, Proposals
<1> QED
  BY <1>1, <1>2

\* write() stores an entry, whatever it read.
LEMMA PayloadTyped ==
  ASSUME NEW prev \in Entries \cup {NoEntry}, NEW args \in ArgumentSet
  PROVE  Payload(prev, args) \in Entries
<1>1. ASSUME Committed(prev) PROVE Riding(prev, args) \in Entries
  <2>1. prev \in Entries
    BY <1>1 DEF Committed, Found
  <2> QED
    BY <2>1 DEF Riding, Entries, ArgumentSet, Proposals
<1>2. Replacing(prev, args) \in Entries
  BY PendingTyped DEF Replacing, Entries, ArgumentSet, Cores
<1> QED
  BY <1>1, <1>2 DEF Payload

\* So are the arguments of the scripts.
LEMMA AskedTyped ==
  ASSUME TypeOK, NEW script \in Scripts, NEW args \in Asked(script)
  PROVE  args \in ArgumentSet
<1>1. ASSUME Found(entry), NEW sign \in BOOLEAN PROVE Same(sign) \in ArgumentSet
  BY <1>1 DEF TypeOK, Found, Same, Entries, ArgumentSet
<1>2. {"role", "operator", "dpkg", ""} \subseteq Names
  BY DEF Names
<1>3. CASE script = "stamp"
  <2>1. Asked(script) = Stamped
    BY <1>3 DEF Asked
  <2>2. PICK state \in {"proposed", "committed"} :
          Found(entry) /\ args = [Same(FALSE) EXCEPT !.state = state]
    BY <2>1 DEF Stamped
  <2> QED
    BY <1>1, <2>2 DEF ArgumentSet
<1>4. CASE script = "sign"
  BY <1>1, <1>4 DEF Asked, Signed, Committed
<1>5. CASE script = "narrow"
  <2>1. Asked(script) = NarrowedTo
    BY <1>5 DEF Asked
  <2>2. CASE Found(entry) /\ args = Same(FALSE)
    BY <1>1, <2>2
  <2>3. CASE args = [decision |-> IF Found(entry) THEN entry.decision ELSE "auto_fp",
                     state |-> "committed", by |-> "operator", print |-> Narrowed,
                     exclude |-> IF Found(entry) THEN entry.exclude ELSE {}, sign |-> FALSE]
    <3>1. Found(entry) => entry.decision \in Decisions /\ entry.exclude \in SUBSET Hosts
      BY DEF TypeOK, Found, Entries
    <3>2. Narrowed \in Prints /\ "auto_fp" \in Decisions
      BY TuningAssumption DEF Decisions
    <3> QED
      BY <1>2, <2>3, <3>1, <3>2 DEF ArgumentSet
  <2> QED
    BY <2>1, <2>2, <2>3 DEF NarrowedTo
<1>6. CASE script = "dpkg"
  <2>1. Asked(script) = Scoping
    BY <1>6 DEF Asked
  <2>2. Loose \in Prints /\ "auto_fp" \in Decisions
    BY TuningAssumption DEF Decisions
  <2>3. args = [decision |-> "auto_fp", state |-> "proposed", by |-> "dpkg", print |-> Loose,
                exclude |-> {}, sign |-> FALSE]
    BY <2>1 DEF Scoping
  <2> QED
    BY <1>2, <2>2, <2>3 DEF ArgumentSet
<1>7. CASE script = "backfill"
  <2>1. Asked(script) = Backfilled
    BY <1>7 DEF Asked
  <2>2. Found(entry) => entry.decision \in Decisions /\ entry.by \in Names
    BY DEF TypeOK, Found, Entries
  <2>3. PICK a \in Alerts :
          /\ Found(entry)
          /\ args = [decision |-> entry.decision, state |-> "proposed", by |-> entry.by,
                     print |-> PrintOf(a), exclude |-> {}, sign |-> FALSE]
    BY <2>1 DEF Backfilled
  <2> QED
    BY <2>2, <2>3, PrintFits DEF ArgumentSet
<1> QED
  BY <1>3, <1>4, <1>5, <1>6, <1>7 DEF Scripts

\* What a writer has in hand is read off where it stands.
LEMMA Held ==
  ASSUME TypeOK, NEW w \in Writers
  PROVE  /\ At(w, "prior") => /\ writer[w].alert \in Alerts /\ writer[w].decision \in Decisions
                              /\ writer[w].filer \in Filers
         /\ writer[w].pc \in {"prev", "put"} =>
              /\ writer[w].args \in ArgumentSet /\ writer[w].prior \in Entries \cup {NoEntry}
              /\ writer[w].alert \in Alerts /\ writer[w].filer \in Filers
              /\ writer[w].scoping \in BOOLEAN
         /\ At(w, "put") => writer[w].payload \in Entries /\ writer[w].prev \in Entries \cup {NoEntry}
         /\ At(w, "scopeput") => writer[w].payload \in Entries /\ writer[w].prev \in Entries
<1>1. writer[w] \in States
  BY DEF TypeOK
<1>2. CASE writer[w] \in {Rest, [pc |-> "merge"]}
  BY <1>2 DEF At, Rest
<1>3. CASE writer[w] \in [pc : {"prior"}, alert : Alerts, filer : Filers, decision : Decisions]
  BY <1>3 DEF At
<1>4. CASE writer[w] \in [pc : {"prev"}, args : ArgumentSet, prior : Entries \cup {NoEntry}, alert : Alerts,
                          filer : Filers, scoping : BOOLEAN]
  BY <1>4 DEF At
<1>5. CASE writer[w] \in [pc : {"put"}, payload : Entries, args : ArgumentSet, prior : Entries \cup {NoEntry},
                          prev : Entries \cup {NoEntry}, alert : Alerts, filer : Filers, scoping : BOOLEAN]
  BY <1>5 DEF At
<1>6. CASE writer[w] \in [pc : {"scopeput"}, payload : Entries, prev : Entries]
  BY <1>6 DEF At
<1> QED
  BY <1>1, <1>2, <1>3, <1>4, <1>5, <1>6 DEF States

\* One writer moves, and the others stay.
LEMMA Moved ==
  ASSUME TypeOK, NEW w \in Writers, NEW s, Becomes(w, s)
  PROVE  /\ writer'[w] = s /\ \A v \in Writers : v # w => writer'[v] = writer[v]
         /\ s \in States => writer' \in [Writers -> States]
BY DEF TypeOK, Becomes

LEMMA TypeInit == Init => TypeOK
<1> SUFFICES ASSUME Init PROVE TypeOK
  OBVIOUS
<1>1. writer \in [Writers -> States]
  BY DEF Init, States
<1>2. entry \in Entries \cup {NoEntry}
  BY TuningAssumption DEF Init
<1>3. scoped \in BOOLEAN
  BY Zenon DEF Init
<1>4. writes \in 0..MaxWrites /\ lapses \in 0..MaxLapses
  <2>1. MaxWrites \in Nat /\ MaxLapses \in Nat
    BY TuningAssumption
  <2> QED
    BY <2>1 DEF Init
<1>5. rule \in Rules /\ clicked = {} /\ vouched = {} /\ astray = {}
  BY Zenon DEF Init
<1> QED
  BY <1>1, <1>2, <1>3, <1>4, <1>5 DEF TypeOK

LEMMA TypeStep == TypeOK /\ [Next]_vars => TypeOK'
<1> SUFFICES ASSUME TypeOK, [Next]_vars PROVE TypeOK'
  OBVIOUS
<1>a. MaxWrites \in Nat /\ MaxLapses \in Nat
  BY TuningAssumption
<1>1. ASSUME NEW w \in Sweeps \cup Consoles, NEW a \in Alerts, NEW filer \in Filers, NEW d \in Rulings,
             Adjudicate(w, a, filer, d)
      PROVE  TypeOK'
  <2>1. [pc |-> "prior", alert |-> a, filer |-> filer, decision |-> d] \in States
    BY TuningAssumption DEF States
  <2> QED
    BY <1>1, <1>a, <2>1, Moved DEF Adjudicate, Begin, TypeOK, Writers
<1>2. ASSUME NEW w \in Operators, NEW script \in ScriptsOf[rule], RunScript(w, script) PROVE TypeOK'
  <2>1. script \in Scripts
    BY TuningAssumption DEF TypeOK
  <2>2. PICK args \in Asked(script) :
          Becomes(w, [pc |-> "prev", args |-> args, prior |-> entry,
                      alert |-> CHOOSE a \in Alerts : TRUE, filer |-> "router", scoping |-> script = "dpkg"])
    BY <1>2 DEF RunScript
  <2>3. args \in ArgumentSet
    BY <2>1, AskedTyped
  <2>4. (CHOOSE a \in Alerts : TRUE) \in Alerts
    BY GateAssumption
  <2>5. [pc |-> "prev", args |-> args, prior |-> entry, alert |-> CHOOSE a \in Alerts : TRUE, filer |-> "router",
         scoping |-> script = "dpkg"] \in States
    BY <2>3, <2>4 DEF States, TypeOK, Filers
  <2> QED
    BY <1>2, <1>a, <2>2, <2>5, Moved DEF RunScript, Begin, TypeOK, Writers
<1>3. ASSUME NEW w \in Writers, ReadPrior(w) PROVE TypeOK'
  <2>1. PICK seen \in {entry, NoEntry} :
          /\ Look(seen)
          /\ IF writer[w].decision = "escalate" /\ Found(seen)
             THEN Becomes(w, Rest)
             ELSE Becomes(w, [pc |-> "prev", args |-> Arguments(w, seen), prior |-> seen,
                              alert |-> writer[w].alert, filer |-> writer[w].filer, scoping |-> FALSE])
    BY <1>3 DEF ReadPrior
  <2>2. seen \in Entries \cup {NoEntry} /\ writer[w].alert \in Alerts /\ writer[w].filer \in Filers
    BY <1>3, <2>1, Held DEF TypeOK, ReadPrior
  <2>3. Arguments(w, seen) \in ArgumentSet
    BY <1>3, <2>2, ArgumentsTyped DEF ReadPrior
  <2>4. [pc |-> "prev", args |-> Arguments(w, seen), prior |-> seen, alert |-> writer[w].alert, filer |-> writer[w].filer,
         scoping |-> FALSE] \in States /\ Rest \in States
    BY <2>2, <2>3 DEF States
  <2>5. writer' \in [Writers -> States]
    BY <2>1, <2>4, Moved
  <2>6. lapses' \in 0..MaxLapses
    BY <1>a, <2>1 DEF Look, TypeOK
  <2> QED
    BY <1>3, <2>5, <2>6 DEF ReadPrior, TypeOK
<1>4. ASSUME NEW w \in Writers, ReadPrev(w) PROVE TypeOK'
  <2>1. PICK seen \in {entry, NoEntry} :
          /\ Look(seen)
          /\ Becomes(w, [pc |-> "put", payload |-> Payload(seen, writer[w].args),
                         args |-> writer[w].args, prior |-> writer[w].prior, prev |-> seen,
                         alert |-> writer[w].alert, filer |-> writer[w].filer, scoping |-> writer[w].scoping])
    BY <1>4 DEF ReadPrev
  <2>2. seen \in Entries \cup {NoEntry}
    BY <2>1 DEF TypeOK
  <2>3. /\ writer[w].args \in ArgumentSet /\ writer[w].prior \in Entries \cup {NoEntry}
        /\ writer[w].alert \in Alerts /\ writer[w].filer \in Filers /\ writer[w].scoping \in BOOLEAN
    BY <1>4, Held DEF ReadPrev, At
  <2>4. Payload(seen, writer[w].args) \in Entries
    BY <2>2, <2>3, PayloadTyped
  <2>5. [pc |-> "put", payload |-> Payload(seen, writer[w].args), args |-> writer[w].args,
         prior |-> writer[w].prior, prev |-> seen, alert |-> writer[w].alert, filer |-> writer[w].filer,
         scoping |-> writer[w].scoping] \in States
    BY <2>2, <2>3, <2>4 DEF States
  <2>6. lapses' \in 0..MaxLapses
    BY <1>a, <2>1 DEF Look, TypeOK
  <2> QED
    BY <1>4, <2>1, <2>5, <2>6, Moved DEF ReadPrev, TypeOK
<1>5. ASSUME NEW w \in Writers, Put(w) PROVE TypeOK'
  <2>1. writer[w].payload \in Entries
    BY <1>5, Held DEF Put
  <2>2. Core(writer[w].payload) \in Cores
    BY <2>1 DEF Core, Cores, Entries
  <2>3. writer' \in [Writers -> States]
    BY <1>5, Moved DEF Put, States
  <2> QED
    BY <1>5, <2>1, <2>2, <2>3 DEF Put, TypeOK
<1>6. ASSUME NEW w \in Writers, Refused(w) PROVE TypeOK'
  <2>1. writer' \in [Writers -> States]
    BY <1>6, Moved DEF Refused, States
  <2> QED
    BY <1>6, <1>a, <2>1 DEF Refused, TypeOK
<1>7. ASSUME NEW w \in Operators, ReadScope(w) PROVE TypeOK'
  <2>1. ASSUME Found(entry)
        PROVE  [pc |-> "scopeput", payload |-> [entry EXCEPT !.exclude = Excluded], prev |-> entry] \in States
    <3>1. entry \in Entries
      BY <2>1 DEF Found, TypeOK
    <3>2. [entry EXCEPT !.exclude = Excluded] \in Entries
      BY <3>1, TuningAssumption DEF Entries
    <3> QED
      BY <3>1, <3>2 DEF States
  <2>2. writer' \in [Writers -> States]
    BY <1>7, <2>1, Moved DEF ReadScope, States, Writers
  <2> QED
    BY <1>7, <2>2 DEF ReadScope, TypeOK
<1>8. ASSUME NEW w \in Operators, PutScope(w) PROVE TypeOK'
  <2>1. writer[w].payload \in Entries
    BY <1>8, Held DEF PutScope, Writers
  <2>2. writer' \in [Writers -> States]
    BY <1>8, Moved DEF PutScope, States, Writers
  <2> QED
    BY <1>8, <2>1, <2>2 DEF PutScope, TypeOK
<1>9. CASE UNCHANGED vars
  BY <1>9 DEF vars, TypeOK
<1> QED
  BY <1>1, <1>2, <1>3, <1>4, <1>5, <1>6, <1>7, <1>8, <1>9 DEF Next

\* Every entry and whatever a writer has in hand has its shape; writes and failures stay
\* within their bounds.
THEOREM TuningTyped == Spec => []TypeOK
<1>1. Init => TypeOK
  BY TypeInit
<1>2. TypeOK /\ [Next]_vars => TypeOK'
  BY TypeStep
<1> QED
  BY <1>1, <1>2, PTL DEF Spec

----------------------------------------------------------------------------
\* The inductive invariants.

Human == clicked \cup vouched \cup {NoSignature}

\* Whatever signature is in the ledger or in a writer's hand covers a core that a person
\* signed and stored, or the one the holder is signing.
SignedHand(w) ==
  /\ writer[w].pc \in {"prev", "put"} /\ writer[w].args.sign => w \in Consoles \cup Operators
  /\ At(w, "put") => \/ writer[w].payload.signature \in Human
                     \/ writer[w].args.sign /\ Verifies(writer[w].payload)
  /\ At(w, "scopeput") => writer[w].payload.signature \in Human

SignedInv ==
  /\ Found(entry) => entry.signature \in Human
  /\ \A w \in Writers : SignedHand(w)

\* What a console has in hand is in force, and of the shape its ticket yields.
ClickHand(w) ==
  /\ writer[w].pc \notin {"merge", "scopeput"}
  /\ writer[w].pc \in {"prev", "put"} => ~ writer[w].scoping
  /\ At(w, "prev") => /\ writer[w].args.state = "committed" /\ writer[w].args.sign
                      /\ writer[w].args.print = DecisionPrint(w)
  /\ At(w, "put") => /\ SuppressionAllowed(writer[w].payload)
                     /\ writer[w].payload.print = DecisionPrint(w)

ClickInv == \A w \in Consoles : ClickHand(w)

\* A scoping script is between its two writes.
UnderWay == \E w \in Operators : writer[w].pc \in {"merge", "scopeput"}

\* The arguments carry the hosts of what they were made from; only a script drops them.
Carries(w, args, prior) ==
  Found(prior) => \/ args.exclude = prior.exclude
                  \/ w \in Operators /\ args.exclude = {}

\* What a writer's arguments and payload have to do with what it read.
ReadInv(w) ==
  /\ writer[w].pc \in {"prev", "put"} =>
       IF writer[w].scoping
       THEN w \in Operators
       ELSE Carries(w, writer[w].args, writer[w].prior)
  /\ At(w, "put") => writer[w].payload = Payload(writer[w].prev, writer[w].args)
  /\ At(w, "scopeput") => writer[w].payload = [writer[w].prev EXCEPT !.exclude = Excluded]

ScopeInv ==
  /\ astray = {} /\ (scoped \/ UnderWay) => Found(entry)
  /\ astray = {} /\ scoped /\ ~ UnderWay => Excluded \subseteq entry.exclude
  /\ \A w \in Writers : ReadInv(w)

----------------------------------------------------------------------------
\* Signatures.

LEMMA SignedInit == Init => SignedInv
<1> SUFFICES ASSUME Init PROVE SignedInv
  OBVIOUS
<1>1. Found(entry) => entry.signature = NoSignature
  BY TuningAssumption DEF Init
<1>2. \A w \in Writers : writer[w].pc = "rest"
  BY DEF Init, Rest
<1> QED
  BY <1>1, <1>2 DEF SignedInv, SignedHand, Human, At

\* Signatures are only ever added, so a writer that does not move keeps its own.
LEMMA SignedRest ==
  ASSUME SignedInv, NEW w \in Writers, clicked \subseteq clicked', vouched \subseteq vouched',
         \A v \in Writers : v # w => writer'[v] = writer[v],
         SignedHand(w)', Found(entry') => entry'.signature \in Human'
  PROVE  SignedInv'
<1>1. Human \subseteq Human'
  BY DEF Human
<1>2. ASSUME NEW v \in Writers, v # w PROVE SignedHand(v)'
  <2>1. SignedHand(v) /\ writer'[v] = writer[v]
    BY <1>2 DEF SignedInv
  <2> QED
    BY <1>1, <2>1 DEF SignedHand, At
<1> QED
  BY <1>2 DEF SignedInv

\* What write() makes of an entry keeps its signature, or has none, or signs itself.
LEMMA PayloadSigned ==
  ASSUME NEW prev \in Entries \cup {NoEntry}, NEW args \in ArgumentSet
  PROVE  \/ Committed(prev) /\ Payload(prev, args).signature = prev.signature
         \/ Payload(prev, args).signature = NoSignature
         \/ args.sign /\ Verifies(Payload(prev, args))
<1>1. CASE args.state = "proposed" /\ Committed(prev)
  <2>1. prev \in Entries
    BY <1>1 DEF Committed, Found
  <2>2. Riding(prev, args).signature = prev.signature
    BY <2>1 DEF Riding, Entries
  <2> QED
    BY <1>1, <2>2 DEF Payload
<1>2. CASE ~ (args.state = "proposed" /\ Committed(prev))
  <2>1. Payload(prev, args) = Replacing(prev, args)
    BY <1>2 DEF Payload
  <2>2. CASE args.sign
    BY <2>1, <2>2 DEF Replacing, Verifies, Core
  <2>3. CASE ~ args.sign
    BY <2>1, <2>3 DEF Replacing
  <2> QED
    BY <2>2, <2>3
<1> QED
  BY <1>1, <1>2

\* Of the scripts only the one that signs signs, and it runs in a shell.
LEMMA SignedStep == TypeOK /\ SignedInv /\ [Next]_vars => SignedInv'
<1> SUFFICES ASSUME TypeOK, SignedInv, [Next]_vars PROVE SignedInv'
  OBVIOUS
<1>1. ASSUME NEW w \in Sweeps \cup Consoles, NEW a \in Alerts, NEW filer \in Filers, NEW d \in Rulings,
             Adjudicate(w, a, filer, d)
      PROVE  SignedInv'
  <2>1. w \in Writers /\ Becomes(w, [pc |-> "prior", alert |-> a, filer |-> filer, decision |-> d])
    BY <1>1 DEF Adjudicate, Writers
  <2>2. SignedHand(w)'
    BY <2>1, Moved DEF SignedHand, At
  <2> QED
    BY <1>1, <2>1, <2>2, Moved, SignedRest DEF Adjudicate, SignedInv, Human
<1>2. ASSUME NEW w \in Operators, NEW script \in ScriptsOf[rule], RunScript(w, script) PROVE SignedInv'
  <2>1. PICK args \in Asked(script) :
          Becomes(w, [pc |-> "prev", args |-> args, prior |-> entry,
                      alert |-> CHOOSE a \in Alerts : TRUE, filer |-> "router", scoping |-> script = "dpkg"])
    BY <1>2 DEF RunScript
  <2>2. SignedHand(w)'
    BY <2>1, Moved DEF SignedHand, At, Writers
  <2> QED
    BY <1>2, <2>1, <2>2, Moved, SignedRest DEF RunScript, SignedInv, Human, Writers
<1>3. ASSUME NEW w \in Writers, ReadPrior(w) PROVE SignedInv'
  <2>1. PICK s : /\ Becomes(w, s)
                 /\ \/ s = Rest
                    \/ \E seen \in {entry, NoEntry} :
                         s = [pc |-> "prev", args |-> Arguments(w, seen), prior |-> seen,
                              alert |-> writer[w].alert, filer |-> writer[w].filer, scoping |-> FALSE]
    BY <1>3 DEF ReadPrior
  <2>2. writer'[w] = s /\ \A v \in Writers : v # w => writer'[v] = writer[v]
    BY <2>1, Moved
  <2>3. SignedHand(w)'
    <3>1. CASE s = Rest
      BY <2>2, <3>1 DEF SignedHand, At, Rest
    <3>2. ASSUME NEW seen \in {entry, NoEntry},
                 s = [pc |-> "prev", args |-> Arguments(w, seen), prior |-> seen,
                      alert |-> writer[w].alert, filer |-> writer[w].filer, scoping |-> FALSE]
          PROVE  SignedHand(w)'
      <4>1. Arguments(w, seen).sign => w \in Consoles
        BY DEF Arguments
      <4>2. writer'[w].pc = "prev" /\ writer'[w].args = Arguments(w, seen)
        BY <2>2, <3>2
      <4> QED
        BY <4>1, <4>2 DEF SignedHand, At
    <3> QED
      BY <2>1, <3>1, <3>2
  <2> QED
    BY <1>3, <2>2, <2>3, SignedRest DEF ReadPrior, SignedInv, Human
<1>4. ASSUME NEW w \in Writers, ReadPrev(w) PROVE SignedInv'
  <2>1. PICK seen \in {entry, NoEntry} :
          Becomes(w, [pc |-> "put", payload |-> Payload(seen, writer[w].args),
                      args |-> writer[w].args, prior |-> writer[w].prior, prev |-> seen,
                      alert |-> writer[w].alert, filer |-> writer[w].filer, scoping |-> writer[w].scoping])
    BY <1>4 DEF ReadPrev
  <2>2. /\ writer'[w] = [pc |-> "put", payload |-> Payload(seen, writer[w].args),
                         args |-> writer[w].args, prior |-> writer[w].prior, prev |-> seen,
                         alert |-> writer[w].alert, filer |-> writer[w].filer, scoping |-> writer[w].scoping]
        /\ \A v \in Writers : v # w => writer'[v] = writer[v]
    BY <2>1, Moved
  <2>3. writer[w].args \in ArgumentSet /\ seen \in Entries \cup {NoEntry}
    BY <1>4, <2>1, Held DEF ReadPrev, At, TypeOK
  <2>4. Committed(seen) => seen.signature \in Human
    BY <2>1 DEF Committed, Found, SignedInv
  <2>5. \/ Payload(seen, writer[w].args).signature \in Human
        \/ writer[w].args.sign /\ Verifies(Payload(seen, writer[w].args))
    BY <2>3, <2>4, PayloadSigned DEF Human
  <2>6. SignedHand(w) /\ At(w, "prev") /\ Human' = Human
    BY <1>4 DEF SignedInv, ReadPrev, Human
  <2>7. SignedHand(w)'
    BY <2>2, <2>5, <2>6 DEF SignedHand, At
  <2> QED
    BY <1>4, <2>2, <2>7, SignedRest DEF ReadPrev, SignedInv, Human
<1>5. ASSUME NEW w \in Writers, Put(w) PROVE SignedInv'
  <2>1. /\ At(w, "put") /\ entry' = writer[w].payload
        /\ clicked' = IF w \in Consoles THEN clicked \cup {Core(writer[w].payload)} ELSE clicked
        /\ vouched' = IF w \in Operators /\ writer[w].args.sign
                      THEN vouched \cup {Core(writer[w].payload)} ELSE vouched
        /\ Becomes(w, IF writer[w].scoping THEN [pc |-> "merge"] ELSE Rest)
    BY <1>5 DEF Put
  <2>2. clicked \subseteq clicked' /\ vouched \subseteq vouched'
    BY <2>1
  <2>3. SignedHand(w)
    BY DEF SignedInv
  <2>4. entry'.signature \in Human'
    <3>1. CASE writer[w].payload.signature \in Human
      BY <2>1, <2>2, <3>1 DEF Human
    <3>2. CASE writer[w].args.sign /\ Verifies(writer[w].payload)
      BY <2>1, <2>3, <3>2 DEF Human, SignedHand, Verifies, At
    <3> QED
      BY <2>1, <2>3, <3>1, <3>2 DEF SignedHand
  <2>5. SignedHand(w)'
    BY <2>1, Moved DEF SignedHand, At, Rest
  <2> QED
    BY <2>1, <2>2, <2>4, <2>5, Moved, SignedRest
<1>6. ASSUME NEW w \in Writers, Refused(w) PROVE SignedInv'
  <2>1. SignedHand(w)'
    BY <1>6, Moved DEF Refused, SignedHand, At, Rest
  <2> QED
    BY <1>6, <2>1, Moved, SignedRest DEF Refused, SignedInv, Human
<1>7. ASSUME NEW w \in Operators, ReadScope(w) PROVE SignedInv'
  <2>1. w \in Writers /\ Human' = Human
    BY <1>7 DEF ReadScope, Human, Writers
  <2>2. CASE Found(entry)
    <3>1. entry \in Entries
      BY <2>2 DEF TypeOK, Found
    <3>2. [entry EXCEPT !.exclude = Excluded].signature = entry.signature
      BY <3>1 DEF Entries
    <3>3. writer'[w] = [pc |-> "scopeput", payload |-> [entry EXCEPT !.exclude = Excluded], prev |-> entry]
      BY <1>7, <2>1, <2>2, Moved DEF ReadScope
    <3>4. SignedHand(w)'
      <4>1. writer'[w].pc = "scopeput" /\ writer'[w].payload = [entry EXCEPT !.exclude = Excluded]
        BY <3>3
      <4>2. writer'[w].payload.signature = entry.signature
        BY <3>2, <4>1, Zenon
      <4>3. entry.signature \in Human
        BY <2>2 DEF SignedInv
      <4> QED
        BY <2>1, <4>1, <4>2, <4>3 DEF SignedHand, At
    <3> QED
      BY <1>7, <2>1, <2>2, <3>4, Moved, SignedRest DEF ReadScope, SignedInv
  <2>3. CASE ~ Found(entry)
    <3>1. SignedHand(w)'
      BY <1>7, <2>1, <2>3, Moved DEF ReadScope, SignedHand, At, Rest
    <3> QED
      BY <1>7, <2>1, <2>3, <3>1, Moved, SignedRest DEF ReadScope, SignedInv
  <2> QED
    BY <2>2, <2>3
<1>8. ASSUME NEW w \in Operators, PutScope(w) PROVE SignedInv'
  <2>1. w \in Writers /\ Human' = Human
    BY <1>8 DEF PutScope, Human, Writers
  <2>2. entry'.signature \in Human'
    BY <1>8, <2>1 DEF PutScope, SignedInv, SignedHand
  <2>3. SignedHand(w)'
    BY <1>8, <2>1, Moved DEF PutScope, SignedHand, At, Rest
  <2> QED
    BY <1>8, <2>1, <2>2, <2>3, Moved, SignedRest DEF PutScope
<1>9. CASE UNCHANGED vars
  BY <1>9 DEF vars, SignedInv, SignedHand, Human, At
<1> QED
  BY <1>1, <1>2, <1>3, <1>4, <1>5, <1>6, <1>7, <1>8, <1>9 DEF Next

\* An entry that may suppress stands as a person's key signed it: whatever the sweep and
\* the scripts write, and however their writes fall between those of the console.
THEOREM OnlyPeopleSilence == Spec => []SuppressionIsHuman
<1>1. Init => TypeOK /\ SignedInv
  BY TypeInit, SignedInit
<1>2. TypeOK /\ SignedInv /\ [Next]_vars => TypeOK' /\ SignedInv'
  BY TypeStep, SignedStep
<1>3. TypeOK /\ SignedInv => SuppressionIsHuman
  <2> SUFFICES ASSUME TypeOK, SignedInv, SuppressionAllowed(entry)
               PROVE  Core(entry) \in clicked \cup vouched
    BY DEF SuppressionIsHuman
  <2>1. Found(entry) /\ entry.signature = Core(entry)
    BY DEF SuppressionAllowed, Committed, Verifies
  <2>2. entry.decision \in Decisions
    BY <2>1, EntryFound DEF TypeOK, Found
  <2>3. Core(entry) # NoSignature
    <3>1. Core(entry).decision \in Decisions /\ NoSignature.decision = "none"
      BY <2>2 DEF Core, NoSignature
    <3> QED
      BY <3>1 DEF Decisions
  <2> QED
    BY <2>1, <2>3 DEF SignedInv, Human
<1> QED
  BY <1>1, <1>2, <1>3, PTL DEF Spec

----------------------------------------------------------------------------
\* The decisions of the console.

LEMMA ClickInit == Init => ClickInv
BY DEF Init, ClickInv, ClickHand, At, Rest, Writers

\* A commit that is signed is in force.
LEMMA CommitInForce ==
  ASSUME NEW prev \in Entries \cup {NoEntry}, NEW args \in ArgumentSet, args.state = "committed", args.sign
  PROVE  SuppressionAllowed(Payload(prev, args)) /\ Payload(prev, args).print = args.print
<1>1. Payload(prev, args) = Replacing(prev, args)
  BY DEF Payload
<1>2. Payload(prev, args) \in Entries
  BY PayloadTyped
<1>3. Found(Payload(prev, args))
  BY <1>2, EntryFound
<1>4. /\ Replacing(prev, args).state = "committed" /\ Replacing(prev, args).print = args.print
      /\ Verifies(Replacing(prev, args))
  BY DEF Replacing, Verifies, Core
<1> QED
  BY <1>1, <1>3, <1>4 DEF SuppressionAllowed, Committed

LEMMA ClickRest ==
  ASSUME ClickInv, NEW w \in Writers, \A v \in Writers : v # w => writer'[v] = writer[v],
         w \in Consoles => ClickHand(w)'
  PROVE  ClickInv'
<1>1. ASSUME NEW v \in Consoles, v # w PROVE ClickHand(v)'
  <2>1. ClickHand(v) /\ writer'[v] = writer[v]
    BY <1>1 DEF ClickInv, Writers
  <2> QED
    BY <2>1 DEF ClickHand, At, DecisionPrint
<1> QED
  BY <1>1 DEF ClickInv

LEMMA ClickStep == TypeOK /\ ClickInv /\ [Next]_vars => ClickInv'
<1> SUFFICES ASSUME TypeOK, ClickInv, [Next]_vars PROVE ClickInv'
  OBVIOUS
<1>1. ASSUME NEW w \in Sweeps \cup Consoles, NEW a \in Alerts, NEW filer \in Filers, NEW d \in Rulings,
             Adjudicate(w, a, filer, d)
      PROVE  ClickInv'
  <2>1. w \in Writers /\ Becomes(w, [pc |-> "prior", alert |-> a, filer |-> filer, decision |-> d])
    BY <1>1 DEF Adjudicate, Writers
  <2>2. ClickHand(w)'
    BY <2>1, Moved DEF ClickHand, At
  <2> QED
    BY <2>1, <2>2, Moved, ClickRest
<1>2. ASSUME NEW w \in Operators, NEW script \in ScriptsOf[rule], RunScript(w, script) PROVE ClickInv'
  <2>1. w \in Writers /\ w \notin Consoles
    BY TuningAssumption DEF Writers
  <2>2. \A v \in Writers : v # w => writer'[v] = writer[v]
    BY <1>2, <2>1, Moved DEF RunScript
  <2> QED
    BY <2>1, <2>2, ClickRest
<1>3. ASSUME NEW w \in Writers, ReadPrior(w) PROVE ClickInv'
  <2>1. PICK s : /\ Becomes(w, s)
                 /\ \/ s = Rest
                    \/ \E seen \in {entry, NoEntry} :
                         s = [pc |-> "prev", args |-> Arguments(w, seen), prior |-> seen,
                              alert |-> writer[w].alert, filer |-> writer[w].filer, scoping |-> FALSE]
    BY <1>3 DEF ReadPrior
  <2>2. writer'[w] = s /\ \A v \in Writers : v # w => writer'[v] = writer[v]
    BY <2>1, Moved
  <2>3. ASSUME w \in Consoles PROVE ClickHand(w)'
    <3>1. CASE s = Rest
      BY <2>2, <3>1 DEF ClickHand, At, Rest
    <3>2. ASSUME NEW seen \in {entry, NoEntry},
                 s = [pc |-> "prev", args |-> Arguments(w, seen), prior |-> seen,
                      alert |-> writer[w].alert, filer |-> writer[w].filer, scoping |-> FALSE]
          PROVE  ClickHand(w)'
      <4>1. /\ Arguments(w, seen).state = "committed" /\ Arguments(w, seen).sign
            /\ Arguments(w, seen).print = DecisionPrint(w)
        BY <2>3 DEF Arguments
      <4>2. /\ writer'[w].pc = "prev" /\ writer'[w].args = Arguments(w, seen)
            /\ writer'[w].alert = writer[w].alert /\ writer'[w].filer = writer[w].filer
            /\ ~ writer'[w].scoping
        BY <2>2, <3>2
      <4> QED
        BY <4>1, <4>2 DEF ClickHand, At, DecisionPrint
    <3> QED
      BY <2>1, <3>1, <3>2
  <2> QED
    BY <2>2, <2>3, ClickRest
<1>4. ASSUME NEW w \in Writers, ReadPrev(w) PROVE ClickInv'
  <2>1. PICK seen \in {entry, NoEntry} :
          Becomes(w, [pc |-> "put", payload |-> Payload(seen, writer[w].args),
                      args |-> writer[w].args, prior |-> writer[w].prior, prev |-> seen,
                      alert |-> writer[w].alert, filer |-> writer[w].filer, scoping |-> writer[w].scoping])
    BY <1>4 DEF ReadPrev
  <2>2. /\ writer'[w] = [pc |-> "put", payload |-> Payload(seen, writer[w].args),
                         args |-> writer[w].args, prior |-> writer[w].prior, prev |-> seen,
                         alert |-> writer[w].alert, filer |-> writer[w].filer, scoping |-> writer[w].scoping]
        /\ \A v \in Writers : v # w => writer'[v] = writer[v]
    BY <2>1, Moved
  <2>3. ASSUME w \in Consoles PROVE ClickHand(w)'
    <3>1. ClickHand(w) /\ At(w, "prev")
      BY <1>4, <2>3 DEF ClickInv, ReadPrev
    <3>2. writer[w].args \in ArgumentSet /\ seen \in Entries \cup {NoEntry}
      BY <2>1, <3>1, Held DEF At, TypeOK
    <3>3. /\ SuppressionAllowed(Payload(seen, writer[w].args))
          /\ Payload(seen, writer[w].args).print = DecisionPrint(w)
      BY <3>1, <3>2, CommitInForce DEF ClickHand
    <3>4. /\ writer'[w].pc = "put" /\ writer'[w].payload = Payload(seen, writer[w].args)
          /\ writer'[w].alert = writer[w].alert /\ writer'[w].filer = writer[w].filer
          /\ writer'[w].scoping = writer[w].scoping
      BY <2>2
    <3> QED
      BY <3>1, <3>3, <3>4 DEF ClickHand, At, DecisionPrint
  <2> QED
    BY <2>2, <2>3, ClickRest
<1>5. ASSUME NEW w \in Writers, Put(w) PROVE ClickInv'
  <2>1. ASSUME w \in Consoles PROVE ClickHand(w)'
    <3>1. ~ writer[w].scoping
      BY <1>5, <2>1 DEF ClickInv, ClickHand, Put, At
    <3>2. writer'[w] = Rest
      BY <1>5, <3>1, Moved DEF Put
    <3> QED
      BY <3>2 DEF ClickHand, At, Rest
  <2>2. \A v \in Writers : v # w => writer'[v] = writer[v]
    BY <1>5, Moved DEF Put
  <2> QED
    BY <2>1, <2>2, ClickRest
<1>6. ASSUME NEW w \in Writers, Refused(w) PROVE ClickInv'
  <2>1. ClickHand(w)'
    BY <1>6, Moved DEF Refused, ClickHand, At, Rest
  <2> QED
    BY <1>6, <2>1, Moved, ClickRest DEF Refused
<1>7. ASSUME NEW w \in Operators, ReadScope(w) \/ PutScope(w) PROVE ClickInv'
  <2>1. w \in Writers /\ w \notin Consoles
    BY TuningAssumption DEF Writers
  <2>2. \A v \in Writers : v # w => writer'[v] = writer[v]
    BY <1>7, <2>1, Moved DEF ReadScope, PutScope
  <2> QED
    BY <2>1, <2>2, ClickRest
<1>8. CASE UNCHANGED vars
  BY <1>8 DEF vars, ClickInv, ClickHand, At, DecisionPrint
<1> QED
  BY <1>1, <1>2, <1>3, <1>4, <1>5, <1>6, <1>7, <1>8 DEF Next

\* What a ticket yields suppresses its alert exactly where it covers it, or the host is kept
\* under review.
LEMMA OwnPrint ==
  ASSUME NEW e, NEW a \in Alerts, NEW filer \in Filers, SuppressionAllowed(e),
         e.print = TicketPrint(filer, a)
  PROVE  IF Covers(filer, a) THEN Suppresses(e, a) \/ a.host \in e.exclude ELSE ~ Suppresses(e, a)
<1>1. CASE filer = "router"
  <2>1. e.print = VerdictPrint(a)
    BY <1>1 DEF TicketPrint
  <2>2. e.print.kind = "full" /\ e.print.profiles = {} /\ e.print.scope = a.host /\ a.host # NoHost
    BY <2>1, GateAssumption DEF VerdictPrint
  <2>3. MateriallyDiffers(e.print, a) <=> a.host # a.entity
    BY <2>1, GateAssumption DEF MateriallyDiffers, VerdictPrint
  <2> QED
    BY <1>1, <2>2, <2>3 DEF Suppresses, Covers
<1>2. CASE filer = "analyst"
  <2>1. e.print.kind = "none" /\ e.print.profiles = {}
    BY <1>2 DEF TicketPrint, NoPrint
  <2> QED
    BY <1>2, <2>1 DEF Suppresses, Covers
<1> QED
  BY <1>1, <1>2 DEF Filers

\* A decision made at the console settles what it was made on wherever the fingerprint its
\* ticket yields covers the alert, and nowhere else.
THEOREM ConsoleSettles == Spec => DecisionSettles
<1>1. Init => TypeOK /\ ClickInv
  BY TypeInit, ClickInit
<1>2. TypeOK /\ ClickInv /\ [Next]_vars => TypeOK' /\ ClickInv'
  BY TypeStep, ClickStep
<1>3. TypeOK /\ ClickInv /\ [Next]_vars =>
        [\A w \in Consoles : Putting(w) /\ lapses' = lapses =>
           IF Covers(writer[w].filer, writer[w].alert)
           THEN \/ Suppresses(entry', writer[w].alert)
                \/ writer[w].alert.host \in entry'.exclude
           ELSE ~ Suppresses(entry', writer[w].alert)]_vars
  <2> SUFFICES ASSUME TypeOK, ClickInv, NEW w \in Consoles, Putting(w)
               PROVE  IF Covers(writer[w].filer, writer[w].alert)
                      THEN \/ Suppresses(entry', writer[w].alert)
                           \/ writer[w].alert.host \in entry'.exclude
                      ELSE ~ Suppresses(entry', writer[w].alert)
    OBVIOUS
  <2>1. SuppressionAllowed(entry') /\ entry'.print = TicketPrint(writer[w].filer, writer[w].alert)
    BY DEF Putting, ClickInv, ClickHand, DecisionPrint
  <2>2. writer[w].alert \in Alerts /\ writer[w].filer \in Filers
    BY Held DEF Putting, Writers, At
  <2> QED
    BY <2>1, <2>2, OwnPrint
<1> QED
  BY <1>1, <1>2, <1>3, PTL DEF Spec, DecisionSettles

----------------------------------------------------------------------------
\* The scope.

LEMMA ScopeInit == Init => ScopeInv
<1> SUFFICES ASSUME Init PROVE ScopeInv
  OBVIOUS
<1>1. \A w \in Writers : writer[w].pc = "rest"
  BY DEF Init, Rest
<1>2. ~ UnderWay
  BY <1>1 DEF UnderWay, Writers
<1> QED
  BY <1>1, <1>2 DEF Init, ScopeInv, ReadInv, At

\* A write that passes on the hosts of what is stored leaves them as they are.
LEMMA HostsStay ==
  ASSUME NEW e \in Entries, NEW args \in ArgumentSet, args.exclude = e.exclude
  PROVE  Payload(e, args).exclude = e.exclude
<1>1. Riding(e, args).exclude = e.exclude
  BY DEF Riding, Entries
<1>2. Replacing(e, args).exclude = e.exclude
  BY DEF Replacing
<1> QED
  BY <1>1, <1>2 DEF Payload

\* A script passes on the hosts it read, or none.
LEMMA AskedCarries ==
  ASSUME NEW w \in Operators, NEW script \in Scripts, NEW args \in Asked(script)
  PROVE  Carries(w, args, entry)
<1>1. CASE script \in {"stamp", "sign"}
  <2>1. args \in Stamped \/ args \in Signed
    BY <1>1 DEF Asked
  <2>2. args.exclude = entry.exclude
    BY <2>1 DEF Stamped, Signed, Same
  <2> QED
    BY <2>2 DEF Carries
<1>2. CASE script = "narrow"
  <2>1. args \in NarrowedTo
    BY <1>2 DEF Asked
  <2>2. Found(entry) => args.exclude = entry.exclude
    BY <2>1 DEF NarrowedTo, Same
  <2> QED
    BY <2>2 DEF Carries
<1>3. CASE script \in {"dpkg", "backfill"}
  <2>1. args \in Scoping \/ args \in Backfilled
    BY <1>3 DEF Asked
  <2>2. args.exclude = {}
    BY <2>1 DEF Scoping, Backfilled
  <2> QED
    BY <2>2 DEF Carries
<1> QED
  BY <1>1, <1>2, <1>3 DEF Scripts

\* A decision passes on the hosts it read.
LEMMA ArgumentsCarry ==
  ASSUME NEW w \in Writers, NEW prior
  PROVE  Carries(w, Arguments(w, prior), prior)
BY DEF Arguments, Carries

\* A step that leaves the entry alone, and nobody between the two writes of a script who was
\* not there before, leaves the scope alone.
LEMMA ScopeRest ==
  ASSUME TypeOK, ScopeInv, NEW w \in Writers, NEW s, Becomes(w, s),
         entry' = entry, scoped' = scoped, astray' = astray,
         s.pc \in {"merge", "scopeput"} <=> writer[w].pc \in {"merge", "scopeput"},
         ReadInv(w)'
  PROVE  ScopeInv'
<1>1. writer'[w] = s /\ \A v \in Writers : v # w => writer'[v] = writer[v]
  BY Moved
<1>2. UnderWay' <=> UnderWay
  BY <1>1 DEF UnderWay, Writers
<1>3. ASSUME NEW v \in Writers, v # w PROVE ReadInv(v)'
  <2>1. ReadInv(v) /\ writer'[v] = writer[v]
    BY <1>1, <1>3 DEF ScopeInv
  <2> QED
    BY <2>1 DEF ReadInv, At
<1>4. Found(entry)' <=> Found(entry)
  BY DEF Found
<1> QED
  BY <1>2, <1>3, <1>4 DEF ScopeInv

LEMMA ScopeStep == TypeOK /\ ScopeInv /\ [Next]_vars => ScopeInv'
<1> SUFFICES ASSUME TypeOK, ScopeInv, [Next]_vars PROVE ScopeInv'
  OBVIOUS
<1>1. ASSUME NEW w \in Sweeps \cup Consoles, NEW a \in Alerts, NEW filer \in Filers, NEW d \in Rulings,
             Adjudicate(w, a, filer, d)
      PROVE  ScopeInv'
  <2> DEFINE s == [pc |-> "prior", alert |-> a, filer |-> filer, decision |-> d]
  <2>1. /\ w \in Writers /\ Becomes(w, s) /\ writer[w].pc = "rest"
        /\ entry' = entry /\ scoped' = scoped /\ astray' = astray
    BY <1>1 DEF Adjudicate, Writers, At
  <2>2. writer'[w].pc = "prior"
    BY <2>1, Moved
  <2>3. ReadInv(w)'
    BY <2>2 DEF ReadInv, At
  <2> QED
    BY <2>1, <2>3, ScopeRest
<1>2. ASSUME NEW w \in Operators, NEW script \in ScriptsOf[rule], RunScript(w, script) PROVE ScopeInv'
  <2>1. PICK args \in Asked(script) :
          Becomes(w, [pc |-> "prev", args |-> args, prior |-> entry,
                      alert |-> CHOOSE a \in Alerts : TRUE, filer |-> "router", scoping |-> script = "dpkg"])
    BY <1>2 DEF RunScript
  <2>2. /\ w \in Writers /\ writer[w].pc = "rest"
        /\ entry' = entry /\ scoped' = scoped /\ astray' = astray
    BY <1>2 DEF RunScript, Writers, At
  <2>3. /\ writer'[w].pc = "prev" /\ writer'[w].args = args /\ writer'[w].prior = entry
        /\ writer'[w].scoping = (script = "dpkg")
    BY <2>1, <2>2, Moved
  <2>4. script \in Scripts
    BY TuningAssumption DEF TypeOK
  <2>5. ReadInv(w)'
    BY <2>3, <2>4, AskedCarries DEF ReadInv, At
  <2> QED
    BY <2>1, <2>2, <2>5, ScopeRest
<1>3. ASSUME NEW w \in Writers, ReadPrior(w) PROVE ScopeInv'
  <2>1. PICK s : /\ Becomes(w, s)
                 /\ \/ s = Rest
                    \/ \E seen \in {entry, NoEntry} :
                         s = [pc |-> "prev", args |-> Arguments(w, seen), prior |-> seen,
                              alert |-> writer[w].alert, filer |-> writer[w].filer, scoping |-> FALSE]
    BY <1>3 DEF ReadPrior
  <2>2. /\ writer[w].pc = "prior" /\ writer[w].alert \in Alerts /\ writer'[w] = s
        /\ entry' = entry /\ scoped' = scoped /\ astray' = astray
    BY <1>3, <2>1, Held, Moved DEF ReadPrior, At
  <2>3. CASE s = Rest
    <3>1. ReadInv(w)'
      BY <2>2, <2>3 DEF ReadInv, At, Rest
    <3> QED
      BY <2>1, <2>2, <2>3, <3>1, ScopeRest DEF Rest
  <2>4. ASSUME NEW seen \in {entry, NoEntry},
               s = [pc |-> "prev", args |-> Arguments(w, seen), prior |-> seen,
                    alert |-> writer[w].alert, filer |-> writer[w].filer, scoping |-> FALSE]
        PROVE  ScopeInv'
    <3>1. Carries(w, Arguments(w, seen), seen)
      BY ArgumentsCarry
    <3>2. /\ writer'[w].pc = "prev" /\ writer'[w].args = Arguments(w, seen)
          /\ writer'[w].prior = seen /\ ~ writer'[w].scoping
      BY <2>2, <2>4
    <3>3. ReadInv(w)'
      BY <3>1, <3>2 DEF ReadInv, At
    <3>4. s.pc = "prev"
      BY <2>4
    <3> QED
      BY <2>1, <2>2, <3>3, <3>4, ScopeRest
  <2> QED
    BY <2>1, <2>3, <2>4
<1>4. ASSUME NEW w \in Writers, ReadPrev(w) PROVE ScopeInv'
  <2>1. PICK seen \in {entry, NoEntry} :
          Becomes(w, [pc |-> "put", payload |-> Payload(seen, writer[w].args),
                      args |-> writer[w].args, prior |-> writer[w].prior, prev |-> seen,
                      alert |-> writer[w].alert, filer |-> writer[w].filer, scoping |-> writer[w].scoping])
    BY <1>4 DEF ReadPrev
  <2>2. /\ writer[w].pc = "prev" /\ entry' = entry /\ scoped' = scoped /\ astray' = astray
        /\ ReadInv(w)
    BY <1>4 DEF ReadPrev, At, ScopeInv
  <2>3. /\ writer'[w].pc = "put" /\ writer'[w].args = writer[w].args
        /\ writer'[w].prior = writer[w].prior /\ writer'[w].scoping = writer[w].scoping
        /\ writer'[w].prev = seen /\ writer'[w].payload = Payload(seen, writer[w].args)
    BY <2>1, Moved
  <2>4. ReadInv(w)'
    BY <2>2, <2>3 DEF ReadInv, At
  <2> QED
    BY <2>1, <2>2, <2>4, ScopeRest
<1>5. ASSUME NEW w \in Writers, Put(w) PROVE ScopeInv'
  <2> DEFINE st == writer[w]
  <2>1. /\ st.pc = "put" /\ entry' = st.payload /\ scoped' = scoped
        /\ astray' = astray \cup (IF st.prior # entry THEN {"prior"} ELSE {})
                           \cup (IF st.prev # entry THEN {"prev"} ELSE {})
                           \cup (IF w \in Operators /\ Dropping(st) THEN {"dropped"} ELSE {})
        /\ Becomes(w, IF st.scoping THEN [pc |-> "merge"] ELSE Rest)
    BY <1>5 DEF Put, At
  <2>2. /\ writer'[w] = IF st.scoping THEN [pc |-> "merge"] ELSE Rest
        /\ \A v \in Writers : v # w => writer'[v] = writer[v]
    BY <2>1, Moved
  <2>3. \A v \in Writers : ReadInv(v)'
    <3>1. ReadInv(w)'
      BY <2>2 DEF ReadInv, At, Rest
    <3>2. ASSUME NEW v \in Writers, v # w PROVE ReadInv(v)'
      BY <2>2, <3>2 DEF ReadInv, At, ScopeInv
    <3> QED
      BY <3>1, <3>2
  <2>4. /\ st.args \in ArgumentSet /\ st.prev \in Entries \cup {NoEntry} /\ ReadInv(w)
        /\ st.payload = Payload(st.prev, st.args) /\ st.scoping \in BOOLEAN
    BY <2>1, Held DEF ScopeInv, ReadInv, At
  <2>5. Found(entry)' /\ (Found(entry)' <=> Found(entry'))
    BY <2>1, <2>4, PayloadTyped, EntryFound DEF Found
  <2>6. CASE st.scoping
    <3>1. UnderWay'
      BY <2>1, <2>2, <2>4, <2>6 DEF UnderWay, ReadInv
    <3> QED
      BY <2>3, <2>5, <3>1 DEF ScopeInv
  <2>7. CASE ~ st.scoping
    <3>1. UnderWay' <=> UnderWay
      BY <2>1, <2>2, <2>7 DEF UnderWay, Writers, Rest
    <3>2. Carries(w, st.args, st.prior)
      BY <2>1, <2>4, <2>7 DEF ReadInv
    <3>3. ASSUME astray' = {}, scoped \/ UnderWay
          PROVE  entry'.exclude = entry.exclude
      <4>1. astray = {} /\ st.prior = entry /\ st.prev = entry /\ ~ (w \in Operators /\ Dropping(st))
        BY <2>1, <3>3
      <4>2. Found(entry) /\ entry \in Entries
        BY <3>3, <4>1 DEF ScopeInv, Found, TypeOK
      <4>3. st.args.exclude = entry.exclude
        BY <2>7, <3>2, <4>1, <4>2 DEF Carries, Dropping
      <4> QED
        BY <2>1, <2>4, <4>1, <4>2, <4>3, HostsStay
    <3>4. astray' = {} => astray = {}
      BY <2>1
    <3> QED
      BY <2>1, <2>3, <2>5, <3>1, <3>3, <3>4 DEF ScopeInv
  <2> QED
    BY <2>4, <2>6, <2>7
<1>6. ASSUME NEW w \in Writers, Refused(w) PROVE ScopeInv'
  <2>1. /\ Becomes(w, Rest) /\ entry' = entry /\ scoped' = scoped
        /\ astray' = IF At(w, "scopeput") THEN astray \cup {"half"} ELSE astray
        /\ writer[w].pc \in {"put", "scopeput"}
    BY <1>6 DEF Refused
  <2>2. writer'[w] = Rest /\ \A v \in Writers : v # w => writer'[v] = writer[v]
    BY <2>1, Moved
  <2>3. ReadInv(w)'
    BY <2>2 DEF ReadInv, At, Rest
  <2>4. CASE At(w, "scopeput")
    <3>1. astray' # {}
      BY <2>1, <2>4
    <3>2. ASSUME NEW v \in Writers, v # w PROVE ReadInv(v)'
      BY <2>2, <3>2 DEF ReadInv, At, ScopeInv
    <3> QED
      BY <2>3, <3>1, <3>2 DEF ScopeInv
  <2>5. CASE ~ At(w, "scopeput")
    BY <2>1, <2>3, <2>5, ScopeRest DEF Rest, At
  <2> QED
    BY <2>4, <2>5
<1>7. ASSUME NEW w \in Operators, ReadScope(w) PROVE ScopeInv'
  <2>1. /\ w \in Writers /\ writer[w].pc = "merge" /\ entry' = entry /\ scoped' = scoped
        /\ astray' = astray
    BY <1>7 DEF ReadScope, At, Writers
  <2>2. CASE Found(entry)
    <3> DEFINE s == [pc |-> "scopeput", payload |-> [entry EXCEPT !.exclude = Excluded], prev |-> entry]
    <3>1. Becomes(w, s)
      BY <1>7, <2>2 DEF ReadScope
    <3>2. /\ writer'[w].pc = "scopeput" /\ writer'[w].prev = entry
          /\ writer'[w].payload = [entry EXCEPT !.exclude = Excluded]
      BY <2>1, <3>1, Moved
    <3>3. ReadInv(w)'
      BY <3>2 DEF ReadInv, At
    <3> QED
      BY <2>1, <3>1, <3>3, ScopeRest
  <2>3. CASE ~ Found(entry)
    <3>1. Becomes(w, Rest)
      BY <1>7, <2>3 DEF ReadScope
    <3>2. writer'[w] = Rest /\ \A v \in Writers : v # w => writer'[v] = writer[v]
      BY <2>1, <3>1, Moved
    <3>3. astray # {}
      BY <2>1, <2>3 DEF ScopeInv, UnderWay
    <3>4. ReadInv(w)'
      BY <3>2 DEF ReadInv, At, Rest
    <3>5. ASSUME NEW v \in Writers, v # w PROVE ReadInv(v)'
      BY <3>2, <3>5 DEF ReadInv, At, ScopeInv
    <3> QED
      BY <2>1, <3>3, <3>4, <3>5 DEF ScopeInv
  <2> QED
    BY <2>2, <2>3
<1>8. ASSUME NEW w \in Operators, PutScope(w) PROVE ScopeInv'
  <2>1. /\ w \in Writers /\ writer[w].pc = "scopeput" /\ entry' = writer[w].payload /\ scoped' = TRUE
        /\ astray' = IF writer[w].prev # entry THEN astray \cup {"scope"} ELSE astray
        /\ Becomes(w, Rest)
    BY <1>8 DEF PutScope, At, Writers
  <2>2. writer'[w] = Rest /\ \A v \in Writers : v # w => writer'[v] = writer[v]
    BY <2>1, Moved
  <2>3. \A v \in Writers : ReadInv(v)'
    <3>1. ReadInv(w)'
      BY <2>2 DEF ReadInv, At, Rest
    <3>2. ASSUME NEW v \in Writers, v # w PROVE ReadInv(v)'
      BY <2>2, <3>2 DEF ReadInv, At, ScopeInv
    <3> QED
      BY <3>1, <3>2
  <2>4. Found(entry') /\ (Found(entry)' <=> Found(entry'))
    BY <2>1, Held, EntryFound DEF At, Found
  <2>5. ASSUME astray' = {} PROVE Excluded \subseteq entry'.exclude
    <3>1. astray = {} /\ writer[w].prev = entry
      BY <2>1, <2>5
    <3>2. entry \in Entries
      BY <2>1, <3>1 DEF ScopeInv, UnderWay, Found, TypeOK
    <3>3. entry' = [entry EXCEPT !.exclude = Excluded]
      BY <2>1, <3>1 DEF ScopeInv, ReadInv, At
    <3> QED
      BY <3>2, <3>3 DEF Entries
  <2> QED
    BY <2>3, <2>4, <2>5 DEF ScopeInv
<1>9. CASE UNCHANGED vars
  <2>1. entry' = entry /\ writer' = writer /\ scoped' = scoped /\ astray' = astray
    BY <1>9 DEF vars
  <2> QED
    BY <2>1 DEF ScopeInv, ReadInv, At, UnderWay, Carries, Found
<1> QED
  BY <1>1, <1>2, <1>3, <1>4, <1>5, <1>6, <1>7, <1>8, <1>9 DEF Next

\* A scope once set by a person holds: an entry in force leaves the excluded hosts under
\* review, unless a writer acted on a read that failed or had gone stale, the backfill met
\* the scoped entry without its fingerprint, or the script that scopes it is or was left
\* between its two writes.
THEOREM ScopesStand == Spec => []ScopeStands
<1>1. Init => TypeOK /\ ScopeInv
  BY TypeInit, ScopeInit
<1>2. TypeOK /\ ScopeInv /\ [Next]_vars => TypeOK' /\ ScopeInv'
  BY TypeStep, ScopeStep
<1>3. ScopeInv => ScopeStands
  BY DEF ScopeInv, ScopeStands, UnderWay
<1> QED
  BY <1>1, <1>2, <1>3, PTL DEF Spec
=============================================================================
