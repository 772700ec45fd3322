-------------------------- MODULE CaseSpineProofs --------------------------
(***************************************************************************)
(* Theorems of the case spine, for every set of processes and calls and    *)
(* every bound on them.                                                    *)
(*                                                                         *)
(* Of CaseSpine, with reads that fail over to receipts and calls that die: *)
(* its types, that the record of a returned call is kept, what the stores  *)
(* say together (the receipt before the payload, the block with its event, *)
(* the decision never lost), and that with one writer and a store that     *)
(* answers it implements CaseMachine.                                      *)
(*                                                                         *)
(* Of SpineIntegrity, the second half: that the chain breaks only for a    *)
(* reason and tells of an edit, that reconcile has reason for what it      *)
(* reports, and that it does not heal what was retired.                    *)
(***************************************************************************)
EXTENDS CaseSpine, SpineIntegrity, SequenceTheorems, WellFoundedInduction, TLAPS

----------------------------------------------------------------------------
\* Lemmas on the operators the actions are built from.

\* The advance of an appended event stays within the states a store can hold.
LEMMA AdvanceType ==
  ASSUME NEW s \in StoredStates, NEW type
  PROVE  Advance(s, type) \in StoredStates
<1>1. Moves(s) \subseteq StoredStates
  BY DEF Moves, Normalize, Transitions, StoredStates, CaseStates
<1> QED
  BY <1>1 DEF Advance

\* A call of the model has the shape TypeOK gives a writer's call.
LEMMA CallType == ASSUME NEW call \in Calls PROVE call \in AllCalls /\ call \in CallTypes
<1>1. call \in AllCalls
  BY SpineAssumption
<1> QED
  BY <1>1 DEF AllCalls, CallTypes, Values, StoredStates, CaseStates

LEMMA InitialShapes == Minted \in Payloads /\ NoEntry \in Entries /\ Idle \in Locals
<1>1. MaxCalls \in Nat /\ Attempts \in Nat
  BY SpineAssumption
<1>2. Minted \in Payloads
  BY <1>1 DEF Minted, Payloads, NoBlock, Block, NoVerdict, StoredStates, CaseStates
<1>3. NoEntry \in Entries
  BY <1>1 DEF NoEntry, Entry, Entries, OwnTypes, Values, NoVerdict
<1>4. Idle \in Locals
  BY <1>1, <1>2, <1>3 DEF Idle, Locals, CallTypes, Values, NoVerdict
<1> QED
  BY <1>2, <1>3, <1>4

\* The receipts are never empty, and each is a receipt.
LEMMA ReceiptsType ==
  ASSUME TypeOK
  PROVE  /\ DOMAIN receipts = 1..Len(receipts)
         /\ Len(receipts) \in DOMAIN receipts
         /\ \A i \in DOMAIN receipts : receipts[i] \in Receipts
         /\ receipts[Len(receipts)] \in Receipts
<1>1. receipts \in Seq(Receipts) /\ receipts # <<>>
  BY DEF TypeOK
<1>2. Len(receipts) \in Nat \ {0} /\ DOMAIN receipts = 1..Len(receipts)
  BY <1>1, EmptySeq, LenProperties
<1>3. \A i \in 1..Len(receipts) : receipts[i] \in Receipts
  BY <1>1, ElementOfSeq
<1>4. Len(receipts) \in 1..Len(receipts)
  BY <1>2
<1> QED
  BY <1>2, <1>3, <1>4

\* What get_case serves, from the store or from the receipts, is a payload.
LEMMA FetchedType == ASSUME TypeOK, NEW case \in Fetched PROVE case \in Payloads
<1>1. Merged \in Payloads
  BY DEF TypeOK, Merged, Payloads
<1>2. Rebuilt \in Payloads
  <2> DEFINE last == receipts[Len(receipts)]
  <2>1. MaxCalls \in Nat
    BY SpineAssumption
  <2>2. last \in Receipts /\ \A i \in DOMAIN receipts : receipts[i] \in Receipts
    BY ReceiptsType
  <2>3. \A i \in DOMAIN receipts : receipts[i].detail \in Entries
    BY <2>2 DEF Receipts
  <2>4. {receipts[i].detail : i \in DOMAIN receipts} \ {NoEntry} \in SUBSET Entries
    BY <2>3
  <2>5. last.op \in 0..MaxCalls
    BY <2>2 DEF Receipts
  <2> HIDE DEF last
  <2> QED
    BY <2>1, <2>4, <2>5
    DEF Rebuilt, Payloads, NoBlock, Block, NoVerdict, StoredStates, CaseStates, last
<1> QED
  BY <1>1, <1>2 DEF Fetched

LEMMA NormalizeType == ASSUME NEW s PROVE Normalize(s) \in CaseStates
BY DEF Normalize, CaseStates

\* What a call writes in the timeline.
LEMMA EntryType ==
  ASSUME NEW op \in 0..MaxCalls, NEW call \in AllCalls, NEW case
  PROVE  /\ LastEntry(op, call, case) \in Entries
         /\ EventPoint(op, call) \in Entries
         /\ Reason(op) \in Entries
<1>1. ASSUME NEW c PROVE LastEntry(op, call, c) \in Entries
  BY NormalizeType
  DEF LastEntry, Entry, Entries, AllCalls, Values, OwnTypes, NoVerdict, StoredStates, CaseStates
<1>2. Reason(op) \in Entries
  BY DEF Reason, Entry, Entries, Values, OwnTypes, NoVerdict
<1>3. CASE call.kind \in {"close", "reopen"}
  BY <1>1, <1>2, <1>3
  DEF EventPoint, Entry, Entries, AllCalls, Values, OwnTypes, StoredStates, CaseStates
<1>4. CASE call.kind \notin {"close", "reopen"}
  BY <1>1, <1>2, <1>4 DEF EventPoint
<1> QED
  BY <1>3, <1>4

\* A mutation keeps the shape of the payload.
LEMMA MutatedType ==
  ASSUME NEW op \in 0..MaxCalls, NEW call \in AllCalls, NEW case \in Payloads,
         NEW attempt \in Nat, call.kind # "append"
  PROVE  Mutated(op, call, case, attempt) \in Payloads
<1> DEFINE common == [case EXCEPT !.rev = @ + 1,
                                  !.stamp = <<op, attempt>>,
                                  !.touched = op,
                                  !.log = @ \cup {LastEntry(op, call, case)}]
<1>1. LastEntry(op, call, case) \in Entries
  BY EntryType
<1>2. common \in Payloads
  <2>1. MaxCalls \in Nat
    BY SpineAssumption
  <2>2. case.rev + 1 \in Nat /\ <<op, attempt>> \in Nat \X Nat
    BY <2>1 DEF Payloads
  <2>3. case.log \cup {LastEntry(op, call, case)} \in SUBSET Entries
    BY <1>1 DEF Payloads
  <2> QED
    BY <2>2, <2>3 DEF Payloads
<1> HIDE DEF common
<1>3. CASE call.kind = "decide"
  <2>1. Entry(op, "transition", Normalize(case.state), "decided") \in Entries
    BY NormalizeType DEF Entry, Entries, Values, OwnTypes, StoredStates, CaseStates
  <2>2. call.arg \in Verdicts
    BY <1>3 DEF AllCalls
  <2>3. [common EXCEPT
           !.state = "decided",
           !.block = Block(op, call.arg),
           !.log = @ \cup {Entry(op, "transition", Normalize(case.state), "decided")}]
           \in Payloads
    BY <1>2, <2>1, <2>2 DEF Payloads, Block, StoredStates, CaseStates
  <2> QED
    BY <1>3, <2>3 DEF Mutated, common
<1>4. CASE call.kind = "assign"
  <2>1. [common EXCEPT !.assignee = call.arg] \in Payloads
    BY <1>2, <1>4 DEF Payloads, AllCalls
  <2> QED
    BY <1>4, <2>1 DEF Mutated, common
<1>5. CASE call.kind \in {"close", "reopen"}
  <2>1. call.arg \in StoredStates
    BY <1>5 DEF AllCalls, StoredStates, CaseStates
  <2>2. [common EXCEPT !.state = call.arg] \in Payloads
    BY <1>2, <2>1 DEF Payloads
  <2> QED
    BY <1>5, <2>2 DEF Mutated, common
<1> QED
  BY <1>3, <1>4, <1>5 DEF AllCalls

LEMMA ProjectedType ==
  ASSUME NEW op \in 0..MaxCalls, NEW call \in AllCalls, NEW case \in Payloads,
         call.kind = "append"
  PROVE  Projected(op, call, case) \in Payloads
<1>1. LastEntry(op, call, case) \in Entries
  BY EntryType
<1>2. Advance(case.state, call.arg) \in StoredStates
  BY AdvanceType DEF Payloads
<1>3. case.log \cup {LastEntry(op, call, case)} \in SUBSET Entries
  BY <1>1 DEF Payloads
<1> QED
  BY <1>2, <1>3 DEF Projected, Payloads

----------------------------------------------------------------------------
\* Type correctness.  A writer that is not idle runs one of the calls, under
\* one of the numbers given out so far: that is what makes TypeOK inductive.

Busy == \A w \in Writers :
          ~ At(w, "idle") => /\ local[w].call \in Calls
                             /\ local[w].op \in 1..calls

TypeInv == TypeOK /\ Busy

LEMMA BusyType ==
  ASSUME TypeInv, NEW w \in Writers, ~ At(w, "idle")
  PROVE  /\ local[w] \in Locals
         /\ local[w].call \in AllCalls
         /\ local[w].op \in Ops
         /\ local[w].case \in Payloads
         /\ local[w].entry \in Entries
<1>1. local[w] \in Locals /\ calls \in 0..MaxCalls
  BY DEF TypeInv, TypeOK
<1>2. local[w].call \in Calls /\ local[w].op \in 1..calls
  BY DEF TypeInv, Busy
<1> QED
  BY <1>1, <1>2, CallType, SpineAssumption DEF Locals, Ops

LEMMA GotoType ==
  ASSUME TypeInv, NEW w \in Writers, ~ At(w, "idle"),
         NEW pc \in {"read", "event", "receipt", "memory", "verify", "record",
                     "close_receipt", "close_memory"},
         Goto(w, pc), UNCHANGED calls
  PROVE  local' \in [Writers -> Locals] /\ Busy'
<1>1. local \in [Writers -> Locals]
  BY DEF TypeInv, TypeOK
<1>2. local' \in [Writers -> Locals]
  BY <1>1 DEF Goto, Locals
<1>3. Busy'
  BY <1>1 DEF TypeInv, Busy, Goto, At
<1> QED
  BY <1>2, <1>3

LEMMA ReturnType ==
  ASSUME TypeInv, NEW w \in Writers, ~ At(w, "idle"),
         NEW outcome \in Outcomes, Return(w, outcome), UNCHANGED calls
  PROVE  /\ local' \in [Writers -> Locals]
         /\ Busy'
         /\ returned' \subseteq [op : Ops, call : CallTypes, outcome : Outcomes]
<1>1. local \in [Writers -> Locals]
  BY DEF TypeInv, TypeOK
<1>2. local' \in [Writers -> Locals]
  BY <1>1, InitialShapes DEF Return
<1>3. Busy'
  BY <1>1 DEF TypeInv, Busy, Return, At, Idle
<1>4. returned' \subseteq [op : Ops, call : CallTypes, outcome : Outcomes]
  BY BusyType DEF TypeInv, TypeOK, Return, Locals
<1> QED
  BY <1>2, <1>3, <1>4

\* A writer that moves on with a new entry and a new copy keeps its shape.
LEMMA HeldType ==
  ASSUME TypeOK, NEW w \in Writers, NEW entry \in Entries, NEW case \in Payloads,
         NEW pc \in {"receipt", "event"},
         local' = [local EXCEPT ![w].pc = pc, ![w].entry = entry, ![w].case = case]
  PROVE  local' \in [Writers -> Locals]
<1>1. [local[w] EXCEPT !.pc = pc, !.entry = entry, !.case = case] \in Locals
  BY DEF TypeOK, Locals
<1> QED
  BY <1>1 DEF TypeOK

LEMMA TypeInit == Init => TypeInv
<1> SUFFICES ASSUME Init PROVE TypeInv
  OBVIOUS
<1>1. MaxCalls \in Nat /\ Attempts \in Nat
  BY SpineAssumption
<1>2. Receipt(0, "open", NoEntry) \in Receipts
  BY <1>1, InitialShapes DEF Receipt, Receipts
<1>3. receipts \in Seq(Receipts) /\ receipts # <<>>
  BY <1>2 DEF Init
<1>4. TypeOK
  BY <1>1, <1>3, InitialShapes DEF Init, TypeOK
<1>5. Busy
  BY DEF Init, Busy, At, Idle
<1> QED
  BY <1>4, <1>5 DEF TypeInv

LEMMA TypeStep == TypeInv /\ [Next]_vars => TypeInv'
<1> SUFFICES ASSUME TypeInv, [Next]_vars PROVE TypeInv'
  OBVIOUS
<1> USE DEF TypeInv
<1>1. ASSUME NEW w \in Writers, NEW call \in Calls, Start(w, call)
      PROVE  TypeInv'
  <2> DEFINE started == [pc |-> "read", op |-> calls + 1, call |-> call, case |-> Minted,
                         entry |-> NoEntry, attempt |-> 1]
  <2>1. calls + 1 \in 1..MaxCalls /\ calls' = calls + 1
    BY <1>1, SpineAssumption DEF Start, TypeOK
  <2>2. started \in Locals
    BY <2>1, InitialShapes, CallType, SpineAssumption DEF Locals
  <2>3. local' = [local EXCEPT ![w] = started]
    BY <1>1 DEF Start
  <2> HIDE DEF started
  <2>3a. overlapped' \subseteq 1..calls'
    <3>1. Running(w) \subseteq 1..calls
      BY DEF Running, Busy
    <3>2. overlapped \subseteq 1..calls /\ calls \in Nat
      BY SpineAssumption DEF TypeOK
    <3>3. overlapped' \subseteq 1..calls \cup {calls + 1}
      BY <1>1, <3>1, <3>2 DEF Start
    <3>4. 1..calls \cup {calls + 1} \subseteq 1..(calls + 1)
      BY <3>2
    <3> QED
      BY <2>1, <3>3, <3>4
  <2>4. TypeOK'
    BY <1>1, <2>1, <2>2, <2>3, <2>3a DEF TypeOK, Start
  <2>5. Busy'
    BY <2>1, <2>3 DEF TypeOK, Busy, At, started
  <2> QED
    BY <2>4, <2>5
<1>2. ASSUME NEW w \in Writers, Mutate(w) PROVE TypeInv'
  <2>1. PICK case \in Fetched :
          local' = [local EXCEPT ![w].pc = "receipt",
                      ![w].entry = LastEntry(local[w].op, local[w].call, case),
                      ![w].case = Mutated(local[w].op, local[w].call, case,
                                          local[w].attempt)]
    BY <1>2 DEF Mutate
  <2>2. ~ At(w, "idle") /\ local[w].call.kind # "append"
    BY <1>2 DEF Mutate, At
  <2>3. local[w].op \in 0..MaxCalls /\ local[w].attempt \in Nat
    BY <2>2, BusyType, SpineAssumption DEF Ops, Locals
  <2>4. LastEntry(local[w].op, local[w].call, case) \in Entries
    BY <2>2, <2>3, BusyType, EntryType
  <2>5. Mutated(local[w].op, local[w].call, case, local[w].attempt) \in Payloads
    BY <2>2, <2>3, BusyType, MutatedType, FetchedType
  <2>6. local' \in [Writers -> Locals]
    BY <2>1, <2>4, <2>5, HeldType
  <2>7. Busy'
    BY <1>2, <2>1, <2>2 DEF TypeOK, Busy, At, Mutate
  <2> QED
    BY <1>2, <2>6, <2>7 DEF TypeOK, Mutate
<1>3. ASSUME NEW w \in Writers, Refuse(w) PROVE TypeInv'
  <2>1. ~ At(w, "idle")
    BY <1>3 DEF Refuse, At
  <2> QED
    BY <1>3, <2>1, ReturnType DEF TypeOK, Refuse, Outcomes
<1>4. ASSUME NEW w \in Writers, Project(w) PROVE TypeInv'
  <2>1. PICK case \in Fetched :
          local' = [local EXCEPT ![w].pc = "event",
                      ![w].entry = LastEntry(local[w].op, local[w].call, case),
                      ![w].case = Projected(local[w].op, local[w].call, case)]
    BY <1>4 DEF Project
  <2>2. ~ At(w, "idle") /\ local[w].call.kind = "append"
    BY <1>4 DEF Project, At
  <2>3. local[w].op \in 0..MaxCalls
    BY <2>2, BusyType, SpineAssumption DEF Ops
  <2>4. LastEntry(local[w].op, local[w].call, case) \in Entries
    BY <2>2, <2>3, BusyType, EntryType
  <2>5. Projected(local[w].op, local[w].call, case) \in Payloads
    BY <2>2, <2>3, BusyType, ProjectedType, FetchedType
  <2>6. local' \in [Writers -> Locals]
    BY <2>1, <2>4, <2>5, HeldType
  <2>7. Busy'
    BY <1>4, <2>1, <2>2 DEF TypeOK, Busy, At, Project
  <2> QED
    BY <1>4, <2>6, <2>7 DEF TypeOK, Project
<1>5. ASSUME NEW w \in Writers, AppendEvent(w) PROVE TypeInv'
  <2>1. ~ At(w, "idle")
    BY <1>5 DEF AppendEvent, At
  <2>2. events' \subseteq Entries
    BY <1>5, <2>1, BusyType DEF AppendEvent, TypeOK
  <2> QED
    BY <1>5, <2>1, <2>2, GotoType DEF TypeOK, AppendEvent
<1>6. ASSUME NEW w \in Writers, WriteReceipt(w) PROVE TypeInv'
  <2> DEFINE receipt == Receipt(local[w].op, Status(local[w].case.state), local[w].entry)
  <2>1. ~ At(w, "idle")
    BY <1>6 DEF WriteReceipt, At
  <2>2. receipt \in Receipts
    BY <2>1, BusyType, SpineAssumption DEF Receipt, Receipts, Status, Ops
  <2>3. receipts' = Append(receipts, receipt)
    BY <1>6 DEF WriteReceipt
  <2> HIDE DEF receipt
  <2>4. receipts' \in Seq(Receipts) /\ receipts' # <<>>
    BY <2>2, <2>3 DEF TypeOK
  <2>5. local' \in [Writers -> Locals] /\ Busy'
    BY <1>6, <2>1, GotoType DEF WriteReceipt
  <2> QED
    BY <1>6, <2>4, <2>5 DEF TypeOK, WriteReceipt
<1>7. ASSUME NEW w \in Writers, WriteMemory(w) PROVE TypeInv'
  <2>1. ~ At(w, "idle")
    BY <1>7 DEF WriteMemory, At
  <2> QED
    BY <1>7, <2>1, GotoType, BusyType DEF TypeOK, WriteMemory
<1>8. ASSUME NEW w \in Writers, WriteMemoryAndReturn(w) PROVE TypeInv'
  <2>1. ~ At(w, "idle")
    BY <1>8 DEF WriteMemoryAndReturn, At
  <2> QED
    BY <1>8, <2>1, ReturnType, BusyType DEF TypeOK, WriteMemoryAndReturn, Outcomes
<1>9. ASSUME NEW w \in Writers, Confirm(w) PROVE TypeInv'
  <2>1. ~ At(w, "idle")
    BY <1>9 DEF Confirm, At
  <2> QED
    BY <1>9, <2>1, GotoType DEF TypeOK, Confirm
<1>10. ASSUME NEW w \in Writers, Retry(w) PROVE TypeInv'
  <2>1. ~ At(w, "idle")
    BY <1>10 DEF Retry, At
  <2>2. local[w].attempt + 1 \in 0..Attempts
    BY <1>10, <2>1, BusyType, SpineAssumption DEF Retry, Locals
  <2>3. local' \in [Writers -> Locals]
    BY <1>10, <2>2 DEF TypeOK, Retry, Locals
  <2>4. Busy'
    BY <1>10, <2>1 DEF TypeOK, Busy, At, Retry
  <2> QED
    BY <1>10, <2>3, <2>4 DEF TypeOK, Retry
<1>11. ASSUME NEW w \in Writers, GiveUp(w) PROVE TypeInv'
  <2>1. ~ At(w, "idle")
    BY <1>11 DEF GiveUp, At
  <2> QED
    BY <1>11, <2>1, ReturnType DEF TypeOK, GiveUp, Outcomes
<1>12. ASSUME NEW w \in Writers, NEW outcome \in Outcomes, At(w, "record"),
              Finish(w, outcome), UNCHANGED calls
       PROVE  /\ local' \in [Writers -> Locals]
              /\ Busy'
              /\ returned' \subseteq [op : Ops, call : CallTypes, outcome : Outcomes]
  <2>1. ~ At(w, "idle")
    BY <1>12 DEF At
  <2>2. CASE local[w].call.kind = "close"
    <3>1. Reason(local[w].op) \in Entries
      BY <2>1, BusyType, EntryType, SpineAssumption DEF Ops
    <3>2. local[w].case.log \cup {Reason(local[w].op)} \in SUBSET Entries
      BY <2>1, <3>1, BusyType DEF Payloads
    <3>3. <<local[w].op, Attempts + 1>> \in Nat \X Nat
      BY <2>1, BusyType, SpineAssumption DEF Ops
    <3>4. Reasoned(local[w].op, local[w].case) \in Payloads
      BY <2>1, <3>2, <3>3, BusyType DEF Reasoned, Payloads
    <3>5. local' = [local EXCEPT ![w].pc = "close_receipt",
                                 ![w].entry = Reason(local[w].op),
                                 ![w].case = Reasoned(local[w].op, local[w].case)]
      BY <1>12, <2>2 DEF Finish
    <3>6. local' \in [Writers -> Locals]
      BY <2>1, <3>1, <3>4, <3>5, BusyType, ZenonT(40) DEF TypeOK, Locals
    <3>7. Busy'
      BY <1>12, <2>1, <3>5 DEF TypeOK, Busy, At
    <3> QED
      BY <1>12, <2>2, <3>6, <3>7 DEF TypeOK, Finish
  <2>3. CASE local[w].call.kind # "close"
    BY <1>12, <2>1, <2>3, ReturnType DEF Finish
  <2> QED
    BY <2>2, <2>3
<1>13. ASSUME NEW w \in Writers, Record(w) PROVE TypeInv'
  <2>1. ~ At(w, "idle")
    BY <1>13 DEF Record, At
  <2>2. EventPoint(local[w].op, local[w].call) \in Entries
    BY <2>1, BusyType, EntryType, SpineAssumption DEF Ops
  <2> QED
    BY <1>12, <1>13, <2>2 DEF TypeOK, Record, Outcomes
<1>14. ASSUME NEW w \in Writers, LoseRecord(w) PROVE TypeInv'
  BY <1>12, <1>14 DEF TypeOK, LoseRecord, Outcomes
<1>15. ASSUME NEW w \in Writers, Fail(w) PROVE TypeInv'
  BY <1>15, ReturnType DEF TypeOK, Fail, Outcomes
<1>16. CASE UNCHANGED vars
  BY <1>16 DEF vars, TypeOK, Busy, At
<1> QED
  BY <1>1, <1>2, <1>3, <1>4, <1>5, <1>6, <1>7, <1>8, <1>9, <1>10, <1>11, <1>13, <1>14,
     <1>15, <1>16 DEF Next, Step

\* Whatever writers, calls, races, failing reads and deaths: the stores keep
\* their shape, and a call makes at most _WRITE_ATTEMPTS attempts.
THEOREM TypeCorrect == Spec => []TypeOK
<1>1. TypeInv => TypeOK
  BY DEF TypeInv
<1> QED
  BY <1>1, TypeInit, TypeStep, PTL DEF Spec

THEOREM TypeInvariance == Spec => []TypeInv
BY TypeInit, TypeStep, PTL DEF Spec

----------------------------------------------------------------------------
\* No record of a returned call is lost.  The invariant follows a writer
\* through its call: what it is about to write, and what is already stored.

Phase(w) ==
  /\ local[w].pc = "event" => local[w].call.kind = "append"
  /\ local[w].pc \in {"verify", "record"} => local[w].call.kind # "append"
  /\ local[w].pc \in {"close_receipt", "close_memory"} => local[w].call.kind = "close"
  /\ local[w].pc \notin {"idle", "read"} => local[w].entry.op = local[w].op
  /\ local[w].pc \in {"event", "receipt", "memory"} /\ local[w].call.kind = "append" =>
       local[w].entry = EventPoint(local[w].op, local[w].call)
  /\ local[w].pc \in {"receipt", "memory"} /\ local[w].call.kind = "append" =>
       local[w].entry \in events

Kept == \A r \in returned :
          r.outcome = "ok" /\ r.call.kind # "close" => EventPoint(r.op, r.call) \in events

RecordsInv == (\A w \in Writers : Phase(w)) /\ Kept

LEMMA EntryOp ==
  ASSUME NEW op \in Ops, NEW call \in AllCalls, NEW case
  PROVE  /\ LastEntry(op, call, case).op = op
         /\ EventPoint(op, call).op = op
         /\ call.kind = "append" =>
              /\ LastEntry(op, call, case) = EventPoint(op, call)
              /\ EventPoint(op, call).type \in EventTypes
BY DEF LastEntry, EventPoint, Entry, AllCalls

LEMMA RecordsStep == TypeInv /\ RecordsInv /\ [Next]_vars => RecordsInv'
<1> SUFFICES ASSUME TypeInv, RecordsInv, [Next]_vars PROVE RecordsInv'
  OBVIOUS
<1> USE DEF RecordsInv
<1>0. local \in [Writers -> Locals]
  BY DEF TypeInv, TypeOK
<1>1. ASSUME NEW w \in Writers, NEW call \in Calls, Start(w, call)
      PROVE  RecordsInv'
  BY <1>0, <1>1 DEF Start, Phase, Kept
<1>2. ASSUME NEW w \in Writers, Mutate(w) PROVE RecordsInv'
  <2>1. PICK case \in Fetched :
          local' = [local EXCEPT ![w].pc = "receipt",
                      ![w].entry = LastEntry(local[w].op, local[w].call, case),
                      ![w].case = Mutated(local[w].op, local[w].call, case,
                                          local[w].attempt)]
    BY <1>2 DEF Mutate
  <2>2. ~ At(w, "idle") /\ local[w].call.kind # "append"
    BY <1>2 DEF Mutate, At
  <2>3. LastEntry(local[w].op, local[w].call, case).op = local[w].op
    BY <2>2, BusyType, EntryOp
  <2>4. local'[w].pc = "receipt" /\ local'[w].call = local[w].call
        /\ local'[w].op = local[w].op
        /\ local'[w].entry = LastEntry(local[w].op, local[w].call, case)
    BY <1>0, <2>1 DEF Locals
  <2>5. Phase(w)'
    BY <2>2, <2>3, <2>4 DEF Phase
  <2>6. \A v \in Writers \ {w} : Phase(v)'
    BY <1>0, <1>2, <2>1 DEF Phase, Mutate
  <2> QED
    BY <1>2, <2>5, <2>6 DEF Mutate, Kept
<1>3. ASSUME NEW w \in Writers, NEW outcome, Return(w, outcome), outcome # "ok",
             UNCHANGED events
      PROVE  RecordsInv'
  <2>1. \A v \in Writers : Phase(v)'
    BY <1>0, <1>3 DEF Phase, Return, Idle
  <2>2. Kept'
    BY <1>3 DEF Kept, Return
  <2> QED
    BY <2>1, <2>2
<1>4. ASSUME NEW w \in Writers, Project(w) PROVE RecordsInv'
  <2>1. PICK case \in Fetched :
          local' = [local EXCEPT ![w].pc = "event",
                      ![w].entry = LastEntry(local[w].op, local[w].call, case),
                      ![w].case = Projected(local[w].op, local[w].call, case)]
    BY <1>4 DEF Project
  <2>2. ~ At(w, "idle") /\ local[w].call.kind = "append"
    BY <1>4 DEF Project, At
  <2>3. /\ LastEntry(local[w].op, local[w].call, case).op = local[w].op
        /\ LastEntry(local[w].op, local[w].call, case) = EventPoint(local[w].op, local[w].call)
    BY <2>2, BusyType, EntryOp
  <2>4. local'[w].pc = "event" /\ local'[w].call = local[w].call
        /\ local'[w].op = local[w].op
        /\ local'[w].entry = LastEntry(local[w].op, local[w].call, case)
    BY <1>0, <2>1 DEF Locals
  <2>5. Phase(w)'
    BY <2>2, <2>3, <2>4 DEF Phase
  <2>6. \A v \in Writers \ {w} : Phase(v)'
    BY <1>0, <1>4, <2>1 DEF Phase, Project
  <2> QED
    BY <1>4, <2>5, <2>6 DEF Project, Kept
<1>5. ASSUME NEW w \in Writers, AppendEvent(w) PROVE RecordsInv'
  <2>1. \A v \in Writers : Phase(v)'
    BY <1>0, <1>5 DEF Phase, AppendEvent, Goto, At
  <2> QED
    BY <1>5, <2>1 DEF AppendEvent, Kept
<1>6. ASSUME NEW w \in Writers, NEW pc, Goto(w, pc), UNCHANGED <<events, returned>>,
             \/ At(w, "receipt") /\ pc = "memory"
             \/ At(w, "close_receipt") /\ pc = "close_memory"
             \/ At(w, "memory") /\ pc = "verify" /\ local[w].call.kind # "append"
             \/ At(w, "verify") /\ pc = "record"
      PROVE  RecordsInv'
  <2>1. \A v \in Writers : Phase(v)'
    BY <1>0, <1>6 DEF Phase, Goto, At
  <2> QED
    BY <1>6, <2>1 DEF Kept
<1>7. ASSUME NEW w \in Writers, WriteReceipt(w) PROVE RecordsInv'
  BY <1>6, <1>7 DEF WriteReceipt
<1>8. ASSUME NEW w \in Writers, WriteMemory(w) PROVE RecordsInv'
  BY <1>6, <1>8 DEF WriteMemory
<1>9. ASSUME NEW w \in Writers, Confirm(w) PROVE RecordsInv'
  BY <1>6, <1>9 DEF Confirm
<1>10. ASSUME NEW w \in Writers, WriteMemoryAndReturn(w) PROVE RecordsInv'
  <2>1. \A v \in Writers : Phase(v)'
    BY <1>0, <1>10 DEF Phase, WriteMemoryAndReturn, Return, Idle
  <2>2. local[w].call.kind # "close" => EventPoint(local[w].op, local[w].call) \in events
    BY <1>10 DEF Phase, WriteMemoryAndReturn, At
  <2>3. Kept'
    BY <1>10, <2>2 DEF Kept, WriteMemoryAndReturn, Return
  <2> QED
    BY <2>1, <2>3
<1>11. ASSUME NEW w \in Writers, Retry(w) PROVE RecordsInv'
  <2>1. \A v \in Writers : Phase(v)'
    BY <1>0, <1>11 DEF Phase, Retry, At
  <2> QED
    BY <1>11, <2>1 DEF Retry, Kept
<1>12. ASSUME NEW w \in Writers, At(w, "record"), NEW outcome, Finish(w, outcome),
              events \subseteq events',
              outcome = "ok" => EventPoint(local[w].op, local[w].call) \in events'
       PROVE  RecordsInv'
  <2>1. CASE local[w].call.kind = "close"
    <3>1. Reason(local[w].op).op = local[w].op
      BY DEF Reason, Entry
    <3>2. local'[w].pc = "close_receipt" /\ local'[w].call = local[w].call
          /\ local'[w].op = local[w].op /\ local'[w].entry = Reason(local[w].op)
      BY <1>0, <1>12, <2>1 DEF Locals, Finish
    <3>3. Phase(w)'
      BY <2>1, <3>1, <3>2 DEF Phase
    <3>4. \A v \in Writers \ {w} : Phase(v)'
      BY <1>0, <1>12, <2>1 DEF Phase, Finish
    <3> QED
      BY <1>12, <2>1, <3>3, <3>4 DEF Finish, Kept
  <2>2. CASE local[w].call.kind # "close"
    <3>1. \A v \in Writers : Phase(v)'
      BY <1>0, <1>12, <2>2 DEF Phase, Finish, Return, Idle
    <3>2. Kept'
      BY <1>12, <2>2 DEF Kept, Finish, Return
    <3> QED
      BY <3>1, <3>2
  <2> QED
    BY <2>1, <2>2
<1>13. CASE UNCHANGED vars
  BY <1>13 DEF vars, Phase, Kept
<1>14. ASSUME NEW w \in Writers, Record(w) PROVE RecordsInv'
  BY <1>12, <1>14 DEF Record
<1>15. ASSUME NEW w \in Writers, LoseRecord(w) PROVE RecordsInv'
  BY <1>12, <1>15 DEF LoseRecord
<1>16. ASSUME NEW w \in Writers, Refuse(w) \/ GiveUp(w) \/ Fail(w) PROVE RecordsInv'
  BY <1>3, <1>16 DEF Refuse, GiveUp, Fail
<1> QED
  BY <1>1, <1>2, <1>4, <1>5, <1>7, <1>8, <1>9, <1>10, <1>11, <1>13, <1>14, <1>15, <1>16
  DEF Next, Step

\* The event-points design: whatever other writers did to the case point, and
\* whatever died, the event of every call that returned normally is in the
\* timeline get_case serves (close_case's own entry excepted).
THEOREM RecordsAreKept == Spec => []RecordsKept
<1>1. Init => RecordsInv
  BY DEF Init, RecordsInv, Phase, Kept, Idle
<1>2. RecordsInv => RecordsKept
  BY DEF RecordsInv, Kept, RecordsKept, Merged, TypeInv, TypeOK, Payloads
<1> QED
  BY <1>1, <1>2, RecordsStep, TypeInvariance, PTL DEF Spec

----------------------------------------------------------------------------
\* The calls whose entries the receipts carry.
Detailed == {receipts[i].detail.op : i \in DOMAIN receipts}

\* A receipt lengthens the log by one and leaves the others alone.
LEMMA ReceiptAppended ==
  ASSUME TypeInv, NEW w \in Writers, WriteReceipt(w)
  PROVE  LET receipt == Receipt(local[w].op, Status(local[w].case.state), local[w].entry)
         IN  /\ \A i \in DOMAIN receipts' :
                  \/ i \in DOMAIN receipts /\ receipts'[i] = receipts[i]
                  \/ receipts'[i] = receipt
             /\ Receipted' = Receipted \cup {local[w].op}
             /\ Detailed' = Detailed \cup {local[w].entry.op}
<1> DEFINE receipt == Receipt(local[w].op, Status(local[w].case.state), local[w].entry)
<1>1. receipts \in Seq(Receipts) /\ receipts' \in Seq(Receipts)
  <2>1. TypeInv'
    BY TypeStep DEF Next, Step
  <2> QED
    BY <2>1 DEF TypeInv, TypeOK
<1>2. receipts' = Append(receipts, receipt)
  BY DEF WriteReceipt
<1>3. receipt.op = local[w].op /\ receipt.detail = local[w].entry
  BY DEF Receipt
<1> HIDE DEF receipt
<1>4. Len(receipts) \in Nat /\ Len(receipts') = Len(receipts) + 1
  BY <1>1, <1>2
<1>5. DOMAIN receipts = 1..Len(receipts) /\ DOMAIN receipts' = 1..Len(receipts')
  BY <1>1, LenProperties
<1>6. \A i \in 1..Len(receipts) : receipts'[i] = receipts[i]
  BY <1>1, <1>2
<1>7. receipts'[Len(receipts) + 1] = receipt
  BY <1>1, <1>2
<1>8. \A i \in DOMAIN receipts' : i \in DOMAIN receipts \/ i = Len(receipts) + 1
  BY <1>4, <1>5
<1>9. DOMAIN receipts \subseteq DOMAIN receipts' /\ Len(receipts) + 1 \in DOMAIN receipts'
  BY <1>4, <1>5
<1>10. Receipted' = Receipted \cup {local[w].op}
  BY <1>3, <1>5, <1>6, <1>7, <1>8, <1>9 DEF Receipted
<1>11. Detailed' = Detailed \cup {local[w].entry.op}
  BY <1>3, <1>5, <1>6, <1>7, <1>8, <1>9 DEF Detailed
<1> QED
  BY <1>5, <1>6, <1>7, <1>8, <1>10, <1>11 DEF receipt

----------------------------------------------------------------------------
\* The block and the timeline.  Every copy of the payload, in the store or in
\* a writer's hands, carries the adjudication of its block; every
\* adjudication, wherever it is kept, carries a verdict.

Genuine(e) == e.type = "adjudication" => e.value \in Verdicts

Backed(case) ==
  /\ case.block # NoBlock =>
       /\ case.block.decision \in Verdicts
       /\ \E e \in case.log : /\ e.type = "adjudication"
                              /\ e.op = case.block.op
                              /\ e.value = case.block.decision
  /\ \A e \in case.log : Genuine(e)

StoreBacked == /\ Backed(point)
               /\ \A e \in events : Genuine(e)
               /\ \A i \in DOMAIN receipts : Genuine(receipts[i].detail)

CopyBacked(w) == Backed(local[w].case) /\ Genuine(local[w].entry)

BackedInv == StoreBacked /\ \A w \in Writers : CopyBacked(w)

LEMMA EntryGenuine ==
  ASSUME NEW op \in Ops, NEW call \in AllCalls, NEW case
  PROVE  /\ Genuine(LastEntry(op, call, case))
         /\ Genuine(EventPoint(op, call))
         /\ Genuine(Reason(op))
<1>1. ASSUME NEW c PROVE Genuine(LastEntry(op, call, c))
  BY SpineAssumption DEF Genuine, LastEntry, Entry, AllCalls, OwnTypes
<1>2. Genuine(EventPoint(op, call))
  BY <1>1 DEF Genuine, EventPoint, Entry
<1>3. Genuine(Reason(op))
  BY DEF Genuine, Reason, Entry
<1> QED
  BY <1>1, <1>2, <1>3

LEMMA InitialBacked == Backed(Minted) /\ Genuine(NoEntry)
BY DEF Backed, Minted, Genuine, NoEntry, Entry

LEMMA FetchedBacked ==
  ASSUME TypeInv, StoreBacked, NEW case \in Fetched PROVE Backed(case)
<1>1. Backed(Merged)
  <2>1. Merged.block = point.block /\ Merged.log = point.log \cup events
    BY DEF Merged, TypeInv, TypeOK, Payloads
  <2> QED
    BY <2>1 DEF Backed, StoreBacked
<1>2. Backed(Rebuilt)
  BY DEF Backed, Rebuilt, StoreBacked
<1> QED
  BY <1>1, <1>2 DEF Fetched

LEMMA MutatedBacked ==
  ASSUME NEW op \in Ops, NEW call \in AllCalls, NEW case \in Payloads, NEW attempt \in Nat,
         call.kind # "append", Backed(case)
  PROVE  Backed(Mutated(op, call, case, attempt))
<1> DEFINE last == LastEntry(op, call, case)
           common == [case EXCEPT !.rev = @ + 1, !.stamp = <<op, attempt>>,
                                  !.touched = op, !.log = @ \cup {last}]
<1>1. Genuine(last)
  BY EntryGenuine
<1>2. CASE call.kind = "decide"
  <2> DEFINE move == Entry(op, "transition", Normalize(case.state), "decided")
             new == [common EXCEPT !.state = "decided", !.block = Block(op, call.arg),
                                   !.log = @ \cup {move}]
  <2>1. Mutated(op, call, case, attempt) = new
    BY <1>2 DEF Mutated
  <2>2. new.block = Block(op, call.arg) /\ new.log = case.log \cup {last, move}
    BY DEF Payloads
  <2>3. Genuine(move)
    BY DEF Genuine, Entry
  <2>4. call.arg \in Verdicts
    BY <1>2 DEF AllCalls
  <2>5. last.type = "adjudication" /\ last.op = op /\ last.value = call.arg
    BY <1>2 DEF LastEntry, Entry
  <2>6. Block(op, call.arg).op = op /\ Block(op, call.arg).decision = call.arg
    BY DEF Block
  <2> HIDE DEF last, move, new
  <2>7. \E e \in new.log : /\ e.type = "adjudication"
                           /\ e.op = new.block.op
                           /\ e.value = new.block.decision
    BY <2>2, <2>5, <2>6
  <2>8. \A e \in new.log : Genuine(e)
    BY <1>1, <2>2, <2>3 DEF Backed
  <2> QED
    BY <2>1, <2>2, <2>4, <2>6, <2>7, <2>8 DEF Backed
<1>3. CASE call.kind \in {"close", "reopen", "assign"}
  <2> DEFINE new == Mutated(op, call, case, attempt)
  <2>1. new.block = case.block /\ new.log = case.log \cup {last}
    BY <1>3 DEF Mutated, Payloads
  <2> HIDE DEF last, new
  <2>2. Backed(new)
    BY <1>1, <2>1 DEF Backed
  <2> QED
    BY <2>2 DEF new
<1> QED
  BY <1>2, <1>3 DEF AllCalls

LEMMA ProjectedBacked ==
  ASSUME NEW op \in Ops, NEW call \in AllCalls, NEW case \in Payloads, Backed(case)
  PROVE  Backed(Projected(op, call, case))
<1> DEFINE new == Projected(op, call, case)
<1>1. new.block = case.block /\ new.log = case.log \cup {LastEntry(op, call, case)}
  BY DEF Projected, Payloads
<1> HIDE DEF new
<1>2. Backed(new)
  BY <1>1, EntryGenuine DEF Backed
<1> QED
  BY <1>2 DEF new

LEMMA ReasonedBacked ==
  ASSUME NEW op \in Ops, NEW case \in Payloads, Backed(case)
  PROVE  Backed(Reasoned(op, case))
<1> DEFINE new == Reasoned(op, case)
<1>1. new.block = case.block /\ new.log = case.log \cup {Reason(op)}
  BY DEF Reasoned, Payloads
<1>2. Genuine(Reason(op))
  BY DEF Genuine, Reason, Entry
<1> HIDE DEF new
<1>3. Backed(new)
  BY <1>1, <1>2 DEF Backed
<1> QED
  BY <1>3 DEF new

LEMMA BackedStep == TypeInv /\ BackedInv /\ [Next]_vars => BackedInv'
<1> SUFFICES ASSUME TypeInv, BackedInv, [Next]_vars PROVE BackedInv'
  OBVIOUS
<1> USE DEF BackedInv
<1>0. local \in [Writers -> Locals]
  BY DEF TypeInv, TypeOK
<1>1. ASSUME NEW w \in Writers, NEW call \in Calls, Start(w, call)
      PROVE  BackedInv'
  <2>1. StoreBacked'
    BY <1>1 DEF Start, StoreBacked
  <2>2. \A v \in Writers : CopyBacked(v)'
    BY <1>0, <1>1, InitialBacked DEF Start, CopyBacked
  <2> QED
    BY <2>1, <2>2
<1>2. ASSUME NEW w \in Writers, Mutate(w) PROVE BackedInv'
  <2>1. PICK case \in Fetched :
          local' = [local EXCEPT ![w].pc = "receipt",
                      ![w].entry = LastEntry(local[w].op, local[w].call, case),
                      ![w].case = Mutated(local[w].op, local[w].call, case,
                                          local[w].attempt)]
    BY <1>2 DEF Mutate
  <2>2. ~ At(w, "idle") /\ local[w].call.kind # "append"
    BY <1>2 DEF Mutate, At
  <2>3. local[w].attempt \in Nat
    BY <1>0, SpineAssumption DEF Locals
  <2>4. case \in Payloads /\ Backed(case)
    BY FetchedType, FetchedBacked DEF TypeInv
  <2>5. Genuine(LastEntry(local[w].op, local[w].call, case))
    BY <2>2, BusyType, EntryGenuine
  <2>6. Backed(Mutated(local[w].op, local[w].call, case, local[w].attempt))
    BY <2>2, <2>3, <2>4, BusyType, MutatedBacked
  <2>7. \A v \in Writers : CopyBacked(v)'
    BY <1>0, <2>1, <2>5, <2>6 DEF CopyBacked
  <2> QED
    BY <1>2, <2>7 DEF Mutate, StoreBacked
<1>3. ASSUME NEW w \in Writers, NEW outcome, Return(w, outcome)
      PROVE  \A v \in Writers : CopyBacked(v)'
  BY <1>0, <1>3, InitialBacked DEF Return, CopyBacked, Idle
<1>4. ASSUME NEW w \in Writers, Project(w) PROVE BackedInv'
  <2>1. PICK case \in Fetched :
          local' = [local EXCEPT ![w].pc = "event",
                      ![w].entry = LastEntry(local[w].op, local[w].call, case),
                      ![w].case = Projected(local[w].op, local[w].call, case)]
    BY <1>4 DEF Project
  <2>2. ~ At(w, "idle")
    BY <1>4 DEF Project, At
  <2>4. case \in Payloads /\ Backed(case)
    BY FetchedType, FetchedBacked DEF TypeInv
  <2>5. Genuine(LastEntry(local[w].op, local[w].call, case))
    BY <2>2, BusyType, EntryGenuine
  <2>6. Backed(Projected(local[w].op, local[w].call, case))
    BY <2>2, <2>4, BusyType, ProjectedBacked
  <2>7. \A v \in Writers : CopyBacked(v)'
    BY <1>0, <2>1, <2>5, <2>6 DEF CopyBacked
  <2> QED
    BY <1>4, <2>7 DEF Project, StoreBacked
<1>5. ASSUME NEW w \in Writers, NEW pc, Goto(w, pc)
      PROVE  \A v \in Writers : CopyBacked(v)'
  BY <1>0, <1>5 DEF Goto, CopyBacked
<1>6. ASSUME NEW w \in Writers, AppendEvent(w) PROVE BackedInv'
  <2>1. StoreBacked'
    BY <1>6 DEF AppendEvent, StoreBacked, CopyBacked
  <2> QED
    BY <1>5, <1>6, <2>1 DEF AppendEvent
<1>7. ASSUME NEW w \in Writers, WriteReceipt(w) PROVE BackedInv'
  <2>1. \A v \in Writers : CopyBacked(v)'
    BY <1>5, <1>7 DEF WriteReceipt
  <2>2. \A i \in DOMAIN receipts' : Genuine(receipts'[i].detail)
    BY <1>7, ReceiptAppended DEF StoreBacked, CopyBacked, Receipt
  <2> QED
    BY <1>7, <2>1, <2>2 DEF WriteReceipt, StoreBacked
<1>8. ASSUME NEW w \in Writers, WriteMemory(w) PROVE BackedInv'
  <2>1. StoreBacked'
    BY <1>8 DEF WriteMemory, StoreBacked, CopyBacked
  <2> QED
    BY <1>5, <1>8, <2>1 DEF WriteMemory
<1>9. ASSUME NEW w \in Writers, WriteMemoryAndReturn(w) PROVE BackedInv'
  <2>1. StoreBacked'
    BY <1>9 DEF WriteMemoryAndReturn, StoreBacked, CopyBacked
  <2> QED
    BY <1>3, <1>9, <2>1 DEF WriteMemoryAndReturn
<1>10. ASSUME NEW w \in Writers, Confirm(w) PROVE BackedInv'
  BY <1>5, <1>10 DEF Confirm, StoreBacked
<1>11. ASSUME NEW w \in Writers, Retry(w) PROVE BackedInv'
  <2>1. \A v \in Writers : CopyBacked(v)'
    BY <1>0, <1>11 DEF Retry, CopyBacked
  <2> QED
    BY <1>11, <2>1 DEF Retry, StoreBacked
<1>12. ASSUME NEW w \in Writers, At(w, "record"), NEW outcome, Finish(w, outcome)
       PROVE  \A v \in Writers : CopyBacked(v)'
  <2>1. ~ At(w, "idle")
    BY <1>12 DEF At
  <2>2. Genuine(Reason(local[w].op))
    BY DEF Genuine, Reason, Entry
  <2>3. Backed(Reasoned(local[w].op, local[w].case))
    BY <2>1, BusyType, ReasonedBacked DEF CopyBacked
  <2>4. CASE local[w].call.kind = "close"
    <3>1. /\ local'[w].case = Reasoned(local[w].op, local[w].case)
          /\ local'[w].entry = Reason(local[w].op)
      BY <1>0, <1>12, <2>4 DEF Finish, Locals
    <3>2. \A v \in Writers \ {w} : local'[v] = local[v]
      BY <1>0, <1>12, <2>4 DEF Finish
    <3> QED
      BY <2>2, <2>3, <3>1, <3>2 DEF CopyBacked
  <2>5. CASE local[w].call.kind # "close"
    BY <1>3, <1>12, <2>5 DEF Finish
  <2> QED
    BY <2>4, <2>5
<1>13. ASSUME NEW w \in Writers, Record(w) PROVE BackedInv'
  <2>1. ~ At(w, "idle")
    BY <1>13 DEF Record, At
  <2>2. Genuine(EventPoint(local[w].op, local[w].call))
    BY <2>1, BusyType, EntryGenuine
  <2>3. StoreBacked'
    BY <1>13, <2>2 DEF Record, StoreBacked
  <2> QED
    BY <1>12, <1>13, <2>3 DEF Record
<1>14. ASSUME NEW w \in Writers, LoseRecord(w) PROVE BackedInv'
  BY <1>12, <1>14 DEF LoseRecord, StoreBacked
<1>15. ASSUME NEW w \in Writers, Refuse(w) \/ GiveUp(w) \/ Fail(w) PROVE BackedInv'
  <2>1. \A v \in Writers : CopyBacked(v)'
    BY <1>3, <1>15 DEF Refuse, GiveUp, Fail
  <2> QED
    BY <1>15, <2>1 DEF Refuse, GiveUp, Fail, StoreBacked
<1>16. CASE UNCHANGED vars
  BY <1>16 DEF vars, StoreBacked, CopyBacked
<1> QED
  BY <1>1, <1>2, <1>4, <1>6, <1>7, <1>8, <1>9, <1>10, <1>11, <1>13, <1>14, <1>15, <1>16
  DEF Next, Step

THEOREM BackedInvariance == Spec => []BackedInv
<1>1. Init => BackedInv
  <2> SUFFICES ASSUME Init PROVE BackedInv
    OBVIOUS
  <2>1. DOMAIN receipts = {1} /\ receipts[1].detail = NoEntry
    BY DEF Init, Receipt
  <2> QED
    BY <2>1, InitialBacked DEF Init, BackedInv, StoreBacked, CopyBacked, Idle
<1> QED
  BY <1>1, BackedStep, TypeInvariance, PTL DEF Spec

\* decide(): no reader ever meets a decision block without the adjudication
\* event of the same call beside it, whichever writer's copy of the payload
\* won, receipts served in its place included.
THEOREM BlocksHaveEvents == Spec => []BlockHasEvent
<1>1. BackedInv => BlockHasEvent
  BY DEF BackedInv, StoreBacked, Backed, BlockHasEvent
<1> QED
  BY <1>1, BackedInvariance, PTL

----------------------------------------------------------------------------
\* The receipt first.  A writer past its receipt has it on file; before that,
\* what its copy holds beyond the receipts is its own.

Own(e) == e.type \in {"adjudication", "transition", "assigned", "case_closed"}

StoreAhead ==
  /\ point.touched \in Receipted
  /\ \A e \in point.log \cup events : Own(e) => e.op \in Receipted
  /\ \A i \in DOMAIN receipts : Own(receipts[i].detail) => receipts[i].detail.op \in Receipted

CopyAhead(w) ==
  /\ local[w].pc \in {"memory", "verify", "record", "close_receipt", "close_memory"} =>
       local[w].op \in Receipted
  /\ local[w].pc \notin {"idle", "read"} =>
       /\ local[w].case.touched = local[w].op
       /\ \A e \in local[w].case.log : Own(e) => e.op \in Receipted \cup {local[w].op}

AheadInv == StoreAhead /\ \A w \in Writers : CopyAhead(w)

\* What the mutations add to a copy: entries of the call, and its number.
LEMMA MutatedAhead ==
  ASSUME NEW op \in Ops, NEW call \in AllCalls, NEW case \in Payloads, NEW attempt \in Nat
  PROVE  /\ call.kind # "append" =>
              /\ Mutated(op, call, case, attempt).touched = op
              /\ \A e \in Mutated(op, call, case, attempt).log : e \in case.log \/ e.op = op
         /\ Projected(op, call, case).touched = op
         /\ \A e \in Projected(op, call, case).log : e \in case.log \/ e.op = op
<1> DEFINE last == LastEntry(op, call, case)
           move == Entry(op, "transition", Normalize(case.state), "decided")
<1>1. last.op = op /\ move.op = op
  BY EntryOp DEF Entry
<1>2. /\ Projected(op, call, case).touched = op
      /\ Projected(op, call, case).log = case.log \cup {last}
  BY DEF Projected, Payloads
<1>3. ASSUME call.kind # "append"
      PROVE  /\ Mutated(op, call, case, attempt).touched = op
             /\ Mutated(op, call, case, attempt).log \subseteq case.log \cup {last, move}
  <2>1. CASE call.kind = "decide"
    BY <2>1 DEF Mutated, Payloads
  <2>2. CASE call.kind \in {"close", "reopen", "assign"}
    BY <2>2 DEF Mutated, Payloads
  <2> QED
    BY <1>3, <2>1, <2>2 DEF AllCalls
<1> HIDE DEF last, move
<1> QED
  BY <1>1, <1>2, <1>3

LEMMA FetchedAhead ==
  ASSUME TypeInv, StoreAhead, NEW case \in Fetched
  PROVE  \A e \in case.log : Own(e) => e.op \in Receipted
<1>1. Merged.log = point.log \cup events
  BY DEF Merged, TypeInv, TypeOK, Payloads
<1>2. Rebuilt.log \subseteq {receipts[i].detail : i \in DOMAIN receipts}
  BY DEF Rebuilt
<1> QED
  BY <1>1, <1>2 DEF Fetched, StoreAhead

LEMMA AheadStep == TypeInv /\ RecordsInv /\ AheadInv /\ [Next]_vars => AheadInv'
<1> SUFFICES ASSUME TypeInv, RecordsInv, AheadInv, [Next]_vars PROVE AheadInv'
  OBVIOUS
<1> USE DEF AheadInv
<1>0. local \in [Writers -> Locals]
  BY DEF TypeInv, TypeOK
<1>1. ASSUME NEW w \in Writers, NEW call \in Calls, Start(w, call)
      PROVE  AheadInv'
  <2>1. StoreAhead'
    BY <1>1 DEF Start, StoreAhead, Receipted
  <2>2. \A v \in Writers : CopyAhead(v)'
    BY <1>0, <1>1 DEF Start, CopyAhead, Receipted
  <2> QED
    BY <2>1, <2>2
<1>2. ASSUME NEW w \in Writers, NEW case \in Fetched, NEW pc \in {"receipt", "event"},
             ~ At(w, "idle"), NEW entry, NEW new,
             local' = [local EXCEPT ![w].pc = pc, ![w].entry = entry, ![w].case = new],
             UNCHANGED <<point, events, receipts>>,
             new.touched = local[w].op,
             \A e \in new.log : e \in case.log \/ e.op = local[w].op
      PROVE  AheadInv'
  <2>1. \A e \in new.log : Own(e) => e.op \in Receipted \cup {local[w].op}
    BY <1>2, FetchedAhead
  <2>2. Receipted' = Receipted /\ StoreAhead'
    BY <1>2 DEF StoreAhead, Receipted
  <2>3. /\ local'[w].pc = pc
        /\ local'[w].op = local[w].op
        /\ local'[w].case = new
    BY <1>0, <1>2 DEF Locals
  <2>4. CopyAhead(w)'
    BY <1>2, <2>1, <2>2, <2>3 DEF CopyAhead
  <2>5. \A v \in Writers \ {w} : CopyAhead(v)'
    BY <1>0, <1>2, <2>2 DEF CopyAhead
  <2> QED
    BY <2>2, <2>4, <2>5
<1>3. ASSUME NEW w \in Writers, Mutate(w) PROVE AheadInv'
  <2>1. PICK case \in Fetched :
          local' = [local EXCEPT ![w].pc = "receipt",
                      ![w].entry = LastEntry(local[w].op, local[w].call, case),
                      ![w].case = Mutated(local[w].op, local[w].call, case,
                                          local[w].attempt)]
    BY <1>3 DEF Mutate
  <2>2. ~ At(w, "idle") /\ local[w].call.kind # "append"
    BY <1>3 DEF Mutate, At
  <2>3. local[w].attempt \in Nat /\ case \in Payloads
    BY <1>0, FetchedType, SpineAssumption DEF Locals, TypeInv
  <2>4. LET new == Mutated(local[w].op, local[w].call, case, local[w].attempt)
        IN  /\ new.touched = local[w].op
            /\ \A e \in new.log : e \in case.log \/ e.op = local[w].op
    BY <2>2, <2>3, BusyType, MutatedAhead
  <2> QED
    BY <1>2, <1>3, <2>1, <2>2, <2>4 DEF Mutate
<1>4. ASSUME NEW w \in Writers, Project(w) PROVE AheadInv'
  <2>1. PICK case \in Fetched :
          local' = [local EXCEPT ![w].pc = "event",
                      ![w].entry = LastEntry(local[w].op, local[w].call, case),
                      ![w].case = Projected(local[w].op, local[w].call, case)]
    BY <1>4 DEF Project
  <2>2. ~ At(w, "idle")
    BY <1>4 DEF Project, At
  <2>3. local[w].attempt \in Nat /\ case \in Payloads
    BY <1>0, FetchedType, SpineAssumption DEF Locals, TypeInv
  <2>4. LET new == Projected(local[w].op, local[w].call, case)
        IN  /\ new.touched = local[w].op
            /\ \A e \in new.log : e \in case.log \/ e.op = local[w].op
    BY <2>2, <2>3, BusyType, MutatedAhead
  <2> QED
    BY <1>2, <1>4, <2>1, <2>2, <2>4 DEF Project
<1>5. ASSUME NEW w \in Writers, NEW outcome, Return(w, outcome), UNCHANGED receipts
      PROVE  \A v \in Writers : CopyAhead(v)'
  BY <1>0, <1>5 DEF Return, CopyAhead, Idle, Receipted
<1>6. ASSUME NEW w \in Writers, AppendEvent(w) PROVE AheadInv'
  <2>1. ~ At(w, "idle") /\ local[w].call.kind = "append"
    BY <1>6 DEF AppendEvent, At, RecordsInv, Phase
  <2>2. local[w].entry.type \in EventTypes
    BY <1>6, <2>1, BusyType, EntryOp DEF AppendEvent, At, RecordsInv, Phase
  <2>3. ~ Own(local[w].entry)
    BY <2>2, SpineAssumption DEF Own, OwnTypes
  <2>4. Receipted' = Receipted /\ StoreAhead'
    BY <1>6, <2>3 DEF AppendEvent, StoreAhead, Receipted
  <2>5. \A v \in Writers : CopyAhead(v)'
    BY <1>0, <1>6, <2>4 DEF AppendEvent, Goto, At, CopyAhead
  <2> QED
    BY <2>4, <2>5
<1>7. ASSUME NEW w \in Writers, WriteReceipt(w) PROVE AheadInv'
  <2>1. Receipted' = Receipted \cup {local[w].op}
    BY <1>7, ReceiptAppended
  <2>2. local[w].entry.op = local[w].op
    BY <1>7 DEF WriteReceipt, At, RecordsInv, Phase
  <2>3. \A i \in DOMAIN receipts' :
          Own(receipts'[i].detail) => receipts'[i].detail.op \in Receipted'
    BY <1>7, <2>1, <2>2, ReceiptAppended DEF StoreAhead, Receipt
  <2>4. StoreAhead'
    BY <1>7, <2>1, <2>3 DEF WriteReceipt, StoreAhead
  <2>5. /\ local'[w].op = local[w].op
        /\ local'[w].case = local[w].case
        /\ local[w].pc \notin {"idle", "read"}
    BY <1>0, <1>7 DEF WriteReceipt, Goto, At, Locals
  <2>6. CopyAhead(w)'
    BY <2>1, <2>5 DEF CopyAhead
  <2>7. \A v \in Writers \ {w} : CopyAhead(v)'
    BY <1>0, <1>7, <2>1 DEF WriteReceipt, Goto, CopyAhead
  <2> QED
    BY <2>4, <2>6, <2>7
<1>8. ASSUME NEW w \in Writers, At(w, "memory") \/ At(w, "close_memory"),
             point' = local[w].case, UNCHANGED <<events, receipts>>
      PROVE  StoreAhead'
  BY <1>8 DEF At, StoreAhead, CopyAhead, Receipted
<1>9. ASSUME NEW w \in Writers, WriteMemory(w) PROVE AheadInv'
  <2>1. StoreAhead'
    BY <1>8, <1>9 DEF WriteMemory
  <2>2. \A v \in Writers : CopyAhead(v)'
    BY <1>0, <1>9 DEF WriteMemory, Goto, At, CopyAhead, Receipted
  <2> QED
    BY <2>1, <2>2
<1>10. ASSUME NEW w \in Writers, WriteMemoryAndReturn(w) PROVE AheadInv'
  BY <1>5, <1>8, <1>10 DEF WriteMemoryAndReturn
<1>11. ASSUME NEW w \in Writers, Confirm(w) PROVE AheadInv'
  <2>1. \A v \in Writers : CopyAhead(v)'
    BY <1>0, <1>11 DEF Confirm, Goto, At, CopyAhead, Receipted
  <2> QED
    BY <1>11, <2>1 DEF Confirm, StoreAhead, Receipted
<1>12. ASSUME NEW w \in Writers, Retry(w) PROVE AheadInv'
  <2>1. \A v \in Writers : CopyAhead(v)'
    BY <1>0, <1>12 DEF Retry, CopyAhead, Receipted
  <2> QED
    BY <1>12, <2>1 DEF Retry, StoreAhead, Receipted
<1>13. ASSUME NEW w \in Writers, At(w, "record"), NEW outcome, Finish(w, outcome),
              UNCHANGED receipts
       PROVE  \A v \in Writers : CopyAhead(v)'
  <2>1. ~ At(w, "idle") /\ Receipted' = Receipted
    BY <1>13 DEF At, Receipted
  <2>2. CASE local[w].call.kind = "close"
    <3>1. /\ local'[w].pc = "close_receipt"
          /\ local'[w].op = local[w].op
          /\ local'[w].case = Reasoned(local[w].op, local[w].case)
      BY <1>0, <1>13, <2>2 DEF Finish, Locals
    <3>2. \A v \in Writers \ {w} : local'[v] = local[v]
      BY <1>0, <1>13, <2>2 DEF Finish
    <3>3. /\ Reasoned(local[w].op, local[w].case).touched = local[w].case.touched
          /\ Reasoned(local[w].op, local[w].case).log =
               local[w].case.log \cup {Reason(local[w].op)}
      BY <2>1, BusyType DEF Reasoned, Payloads
    <3>4. Reason(local[w].op).op = local[w].op
      BY DEF Reason, Entry
    <3>5. CopyAhead(w)'
      BY <1>13, <2>1, <3>1, <3>3, <3>4 DEF At, CopyAhead
    <3> QED
      BY <2>1, <3>2, <3>5 DEF CopyAhead
  <2>3. CASE local[w].call.kind # "close"
    BY <1>5, <1>13, <2>3 DEF Finish
  <2> QED
    BY <2>2, <2>3
<1>14. ASSUME NEW w \in Writers, Record(w) PROVE AheadInv'
  <2>1. ~ At(w, "idle") /\ local[w].op \in Receipted
    BY <1>14 DEF Record, At, CopyAhead
  <2>2. EventPoint(local[w].op, local[w].call).op = local[w].op
    BY <2>1, BusyType, EntryOp
  <2>3. StoreAhead'
    BY <1>14, <2>1, <2>2 DEF Record, StoreAhead, Receipted
  <2> QED
    BY <1>13, <1>14, <2>3 DEF Record
<1>15. ASSUME NEW w \in Writers, LoseRecord(w) PROVE AheadInv'
  BY <1>13, <1>15 DEF LoseRecord, StoreAhead, Receipted
<1>16. ASSUME NEW w \in Writers, Refuse(w) \/ GiveUp(w) \/ Fail(w) PROVE AheadInv'
  <2>1. \A v \in Writers : CopyAhead(v)'
    BY <1>5, <1>16 DEF Refuse, GiveUp, Fail
  <2> QED
    BY <1>16, <2>1 DEF Refuse, GiveUp, Fail, StoreAhead, Receipted
<1>17. CASE UNCHANGED vars
  BY <1>17 DEF vars, StoreAhead, CopyAhead, Receipted
<1> QED
  BY <1>1, <1>3, <1>4, <1>6, <1>7, <1>9, <1>10, <1>11, <1>12, <1>14, <1>15, <1>16, <1>17
  DEF Next, Step

\* _write_both: no payload, decision, transition or assignment reaches the
\* working store before the audit file has a receipt of its call, whatever
\* call died where.
THEOREM ReceiptsComeFirst == Spec => []WriteAhead
<1>1. Init => AheadInv
  <2> SUFFICES ASSUME Init PROVE AheadInv
    OBVIOUS
  <2>1. DOMAIN receipts = {1} /\ receipts[1].detail = NoEntry /\ receipts[1].op = 0
    BY DEF Init, Receipt
  <2>2. 0 \in Receipted /\ ~ Own(NoEntry)
    BY <2>1 DEF Receipted, Own, NoEntry, Entry
  <2>3. StoreAhead
    BY <2>1, <2>2 DEF Init, StoreAhead, Minted
  <2>4. \A w \in Writers : CopyAhead(w)
    BY DEF Init, CopyAhead, Idle
  <2> QED
    BY <2>3, <2>4 DEF AheadInv
<1>2. TypeInv /\ AheadInv => WriteAhead
  BY DEF AheadInv, StoreAhead, Own, WriteAhead, Merged, TypeInv, TypeOK, Payloads
<1>3. Init => RecordsInv
  BY DEF Init, RecordsInv, Phase, Kept, Idle
<1> QED
  BY <1>1, <1>2, <1>3, AheadStep, RecordsStep, TypeInvariance, PTL DEF Spec

----------------------------------------------------------------------------
\* The decision survives.

\* Of a bounded set of naturals some member is the largest.
LEMMA LargestExists ==
  ASSUME NEW S \in SUBSET Nat, S # {}, NEW bound \in Nat, \A n \in S : n <= bound
  PROVE  \E m \in S : \A n \in S : n <= m
<1> DEFINE T == {bound - n : n \in S}
<1>1. T \subseteq Nat /\ T # {}
  <2>1. \A n \in S : n \in Nat /\ n <= bound
    OBVIOUS
  <2>2. \A n \in S : bound - n \in Nat
    BY <2>1
  <2>3. PICK n \in S : TRUE
    OBVIOUS
  <2>4. bound - n \in T
    OBVIOUS
  <2> QED
    BY <2>2, <2>4
<1>2. PICK t \in T : \A u \in T : ~ (<<u, t>> \in OpToRel(<, Nat))
  BY <1>1, WFMin, NatLessThanWellFounded
<1>3. \A u \in T : ~ (u < t)
  BY <1>1, <1>2 DEF OpToRel
<1>4. PICK m \in S : t = bound - m
  OBVIOUS
<1>5. ASSUME NEW n \in S PROVE n <= m
  <2>1. ~ (bound - n < bound - m)
    BY <1>3, <1>4
  <2> QED
    BY <2>1
<1> QED
  BY <1>5

LEMMA NewestExists ==
  ASSUME NEW entries \in SUBSET Entries, entries # {}
  PROVE  /\ Newest(entries) \in entries
         /\ \A f \in entries : f.op <= Newest(entries).op
<1> DEFINE S == {e.op : e \in entries}
<1>1. S \in SUBSET Nat /\ S # {} /\ MaxCalls \in Nat /\ \A n \in S : n <= MaxCalls
  BY SpineAssumption DEF Entries
<1>2. PICK m \in S : \A n \in S : n <= m
  BY <1>1, LargestExists
<1>3. PICK e \in entries : e.op = m
  OBVIOUS
<1>4. \A f \in entries : f.op <= e.op
  BY <1>2, <1>3
<1> QED
  BY <1>4 DEF Newest

\* decide(): "a lost race can delay the decision fields but never lose the
\* human decision record".  Once a decision was recorded, case_adjudication
\* finds a decision in what get_case serves, whoever wrote the point since.
THEOREM DecisionsAreKept == Spec => []DecisionKept
<1>1. TypeInv /\ BackedInv /\ RecordsKept => DecisionKept
  <2> SUFFICES ASSUME TypeInv, BackedInv, RecordsKept,
                      NEW r \in returned, r.outcome = "ok", r.call.kind = "decide"
               PROVE  Adjudication(Merged) \in Verdicts
    BY DEF DecisionKept
  <2> DEFINE found == Adjudications(Merged.log)
  <2>1. Merged \in Payloads
    BY FetchedType DEF TypeInv, Fetched
  <2>2. Backed(Merged)
    BY FetchedBacked DEF BackedInv, Fetched
  <2>3. EventPoint(r.op, r.call) \in found
    BY DEF RecordsKept, Adjudications, EventPoint, LastEntry, Entry
  <2>4. found \in SUBSET Entries /\ \A e \in found : e.value \in Verdicts
    BY <2>1, <2>2 DEF Adjudications, Payloads, Backed, Genuine
  <2> HIDE DEF found
  <2>5. Newest(found) \in found
    BY <2>3, <2>4, NewestExists
  <2>6. CASE Merged.block # NoBlock
    BY <2>2, <2>6 DEF Adjudication, Backed
  <2>7. CASE Merged.block = NoBlock
    BY <2>3, <2>4, <2>5, <2>7 DEF Adjudication, found
  <2> QED
    BY <2>6, <2>7
<1> QED
  BY <1>1, TypeInvariance, BackedInvariance, RecordsAreKept, PTL

----------------------------------------------------------------------------
\* CaseMachine's copy of the lifecycle is the lifecycle.
LEMMA SameLifecycle ==
  /\ \A s : Machine!Moves(s) = Moves(s)
  /\ \A s : Machine!CanDecide(s) <=> "decided" \in Moves(s)
  /\ \A s, type : Machine!Advance(s, type) = Advance(s, type)
<1>1. Machine!Transitions = Transitions
  BY DEF Machine!Transitions, Transitions, Machine!StoredStates, StoredStates,
         Machine!CaseStates, CaseStates
<1>2. \A s : Machine!Normalize(s) = Normalize(s)
  BY DEF Machine!Normalize, Normalize, Machine!CaseStates, CaseStates
<1>3. \A s : Machine!Moves(s) = Moves(s)
  BY <1>1, <1>2 DEF Machine!Moves, Moves
<1>4. \A s, type : Machine!Wanted(s, type) = Wanted(s, type)
  BY <1>2 DEF Machine!Wanted, Wanted
<1>5. \A s, type : Machine!Advance(s, type) = Advance(s, type)
  BY <1>3, <1>4 DEF Machine!Advance, Advance
<1> QED
  BY <1>3, <1>5 DEF Machine!CanDecide

\* An event of any other type leaves the state where it is.
LEMMA AdvanceStays ==
  ASSUME NEW s, NEW type, type \notin {"investigation", "escalate", "verdict"}
  PROVE  Advance(s, type) = s
<1>1. Wanted(s, type) = "none"
  BY DEF Wanted
<1>2. "none" \notin Moves(s)
  BY DEF Moves, Normalize, Transitions, StoredStates, CaseStates
<1> QED
  BY <1>1, <1>2 DEF Advance

----------------------------------------------------------------------------
\* What one writer's copy is, compared with the point it read: the mutation
\* of it until the payload is written, the point itself from then on.

Applied(call, case) ==
  /\ call.kind = "decide" => /\ "decided" \in Moves(point.state)
                             /\ case.state = "decided"
                             /\ case.block.decision = call.arg
  /\ call.kind \in {"close", "reopen"} => /\ call.arg \in Moves(point.state)
                                          /\ case.state = call.arg
  /\ call.kind = "assign" => case.state = point.state
  /\ call.kind = "append" => case.state = Advance(point.state, call.arg)
  /\ call.kind # "decide" => case.block = point.block

Current(w) ==
  /\ local[w].pc \in {"event", "receipt", "memory"} =>
       Applied(local[w].call, local[w].case)
  /\ local[w].pc \in {"verify", "record", "close_receipt", "close_memory"} =>
       /\ local[w].case.state = point.state
       /\ local[w].case.block = point.block

LEMMA MutatedApplied ==
  ASSUME NEW op, NEW call \in AllCalls, NEW attempt, point \in Payloads,
         call.kind # "append", Allowed(call, Merged)
  PROVE  Applied(call, Mutated(op, call, Merged, attempt))
<1>1. Merged \in [state : StoredStates, rev : Nat, stamp : Nat \X Nat,
                  block : {point.block}, log : {point.log \cup events},
                  assignee : Roles \cup {NoVerdict}, touched : 0..MaxCalls]
  BY DEF Merged, Payloads
<1>2. Merged.state = point.state /\ Merged.block = point.block
  BY DEF Merged, Payloads
<1>3. CASE call.kind = "decide"
  BY <1>1, <1>2, <1>3 DEF Mutated, Applied, Allowed, Target, Block
<1>4. CASE call.kind \in {"close", "reopen"}
  BY <1>1, <1>2, <1>4 DEF Mutated, Applied, Allowed, Target
<1>5. CASE call.kind = "assign"
  BY <1>1, <1>2, <1>5 DEF Mutated, Applied
<1> QED
  BY <1>3, <1>4, <1>5 DEF AllCalls

LEMMA ProjectedApplied ==
  ASSUME NEW op, NEW call \in AllCalls, point \in Payloads, call.kind = "append"
  PROVE  Applied(call, Projected(op, call, Merged))
<1>1. Merged \in [state : {point.state}, rev : Nat, stamp : Nat \X Nat,
                  block : {point.block}, log : {point.log \cup events},
                  assignee : Roles \cup {NoVerdict}, touched : 0..MaxCalls]
  BY DEF Merged, Payloads
<1> QED
  BY <1>1 DEF Projected, Applied

----------------------------------------------------------------------------
\* Each step of the writer keeps Current, and is a step of the machine or
\* leaves the machine alone.

SerialInv == TypeInv /\ RecordsInv /\ \A w \in Writers : Current(w)

LEMMA SerialStep ==
  ASSUME NEW only, Writers = {only}, ~ FlakyReads,
         SerialInv, [Next]_vars
  PROVE  /\ SerialInv'
         /\ [Machine!Next]_<<point.state, point.block.decision>>
<1> USE DEF SerialInv
<1>0. local \in [Writers -> Locals] /\ point \in Payloads /\ only \in Writers
      /\ Fetched = {Merged}
  BY DEF TypeInv, TypeOK, Fetched
<1>1. TypeInv' /\ RecordsInv'
  BY TypeStep, RecordsStep
<1>2. ASSUME UNCHANGED point, Current(only)'
      PROVE  /\ SerialInv'
             /\ [Machine!Next]_<<point.state, point.block.decision>>
  BY <1>1, <1>2
<1>3. ASSUME NEW call \in Calls, Start(only, call) PROVE Current(only)'
  BY <1>0, <1>3 DEF Start, Current
<1>4. ASSUME Mutate(only) PROVE Current(only)'
  <2>1. /\ Allowed(local[only].call, Merged)
        /\ local' = [local EXCEPT ![only].pc = "receipt",
                      ![only].entry = LastEntry(local[only].op, local[only].call, Merged),
                      ![only].case = Mutated(local[only].op, local[only].call, Merged,
                                             local[only].attempt)]
    BY <1>0, <1>4 DEF Mutate
  <2>2. ~ At(only, "idle") /\ local[only].call.kind # "append"
    BY <1>4 DEF Mutate, At
  <2> DEFINE new == Mutated(local[only].op, local[only].call, Merged, local[only].attempt)
  <2>3. Applied(local[only].call, new)
    BY <1>0, <2>1, <2>2, BusyType, MutatedApplied
  <2> HIDE DEF new
  <2>4. local'[only].pc = "receipt" /\ local'[only].case = new
        /\ local'[only].call = local[only].call
    BY <1>0, <2>1 DEF Locals, new
  <2>5. UNCHANGED point
    BY <1>4 DEF Mutate
  <2> QED
    BY <2>3, <2>4, <2>5 DEF Current, Applied
<1>5. ASSUME Project(only) PROVE Current(only)'
  <2>1. local' = [local EXCEPT ![only].pc = "event",
                    ![only].entry = LastEntry(local[only].op, local[only].call, Merged),
                    ![only].case = Projected(local[only].op, local[only].call, Merged)]
    BY <1>0, <1>5 DEF Project
  <2>2. ~ At(only, "idle") /\ local[only].call.kind = "append"
    BY <1>5 DEF Project, At
  <2> DEFINE new == Projected(local[only].op, local[only].call, Merged)
  <2>3. Applied(local[only].call, new)
    BY <1>0, <2>2, BusyType, ProjectedApplied
  <2> HIDE DEF new
  <2>4. local'[only].pc = "event" /\ local'[only].case = new
        /\ local'[only].call = local[only].call
    BY <1>0, <2>1 DEF Locals, new
  <2>5. UNCHANGED point
    BY <1>5 DEF Project
  <2> QED
    BY <2>3, <2>4, <2>5 DEF Current, Applied
<1>6. ASSUME NEW outcome, Return(only, outcome) PROVE Current(only)'
  BY <1>0, <1>6 DEF Return, Current, Idle
<1>7. ASSUME AppendEvent(only) \/ WriteReceipt(only) \/ Confirm(only)
      PROVE  Current(only)'
  <2>1. PICK pc : /\ Goto(only, pc)
                  /\ UNCHANGED point
                  /\ \/ local[only].pc \in {"event", "receipt"} /\ pc \in {"receipt", "memory"}
                     \/ local[only].pc \in {"verify", "close_receipt"}
                         /\ pc \in {"record", "close_memory"}
    BY <1>7 DEF AppendEvent, WriteReceipt, Confirm, At
  <2>2. /\ local'[only].pc = pc
        /\ local'[only].case = local[only].case
        /\ local'[only].call = local[only].call
    BY <1>0, <2>1 DEF Goto, Locals
  <2> QED
    BY <1>0, <2>1, <2>2 DEF Current, Applied
<1>8. ASSUME Retry(only) PROVE Current(only)'
  BY <1>0, <1>8 DEF Retry, Current
<1>9. ASSUME At(only, "record"), NEW outcome, Finish(only, outcome), UNCHANGED point
      PROVE  Current(only)'
  <2>1. CASE local[only].call.kind = "close"
    <3>1. /\ local'[only].pc = "close_receipt"
          /\ local'[only].case = Reasoned(local[only].op, local[only].case)
      BY <1>0, <1>9, <2>1 DEF Finish, Locals
    <3>2. /\ Reasoned(local[only].op, local[only].case).state = local[only].case.state
          /\ Reasoned(local[only].op, local[only].case).block = local[only].case.block
      BY <1>0 DEF Reasoned, Locals, Payloads
    <3> QED
      BY <1>0, <1>9, <3>1, <3>2 DEF Current, At
  <2>2. CASE local[only].call.kind # "close"
    BY <1>6, <1>9, <2>2 DEF Finish
  <2> QED
    BY <2>1, <2>2
<1>10. ASSUME WriteMemory(only)
       PROVE  /\ SerialInv'
              /\ [Machine!Next]_<<point.state, point.block.decision>>
  <2>1. /\ point' = local[only].case
        /\ local[only].call.kind # "append"
        /\ Applied(local[only].call, local[only].case)
        /\ local[only].call \in AllCalls
    BY <1>0, <1>10, BusyType DEF WriteMemory, At, Current
  <2>2. Current(only)'
    BY <1>0, <1>10, <2>1 DEF WriteMemory, Goto, Current, Locals
  <2> SUFFICES [Machine!Next]_<<point.state, point.block.decision>>
    BY <1>0, <1>1, <2>2
  <2>3. CASE local[only].call.kind = "decide"
    <3>1. Machine!Decide(local[only].call.arg)
      BY <2>1, <2>3, SameLifecycle DEF Applied, Machine!Decide
    <3>2. local[only].call.arg \in Verdicts
      BY <2>1, <2>3 DEF AllCalls
    <3> QED
      BY <3>1, <3>2 DEF Machine!Next
  <2>4. CASE local[only].call.kind \in {"close", "reopen"}
    <3>1. local[only].call.arg \in {"closed", "reopened"}
      BY <2>1, <2>4 DEF AllCalls
    <3>2. Machine!Move(local[only].call.arg)
      BY <2>1, <2>4, <3>1, SameLifecycle DEF Applied, Machine!Move
    <3> QED
      BY <3>1, <3>2 DEF Machine!Next, Machine!StoredStates, Machine!CaseStates
  <2>5. CASE local[only].call.kind = "assign"
    BY <2>1, <2>5 DEF Applied
  <2> QED
    BY <2>1, <2>3, <2>4, <2>5 DEF AllCalls
<1>11. ASSUME WriteMemoryAndReturn(only)
       PROVE  /\ SerialInv'
              /\ [Machine!Next]_<<point.state, point.block.decision>>
  <2>1. point' = local[only].case /\ Current(only)'
    BY <1>6, <1>11 DEF WriteMemoryAndReturn
  <2>2. CASE At(only, "memory") /\ local[only].call.kind = "append"
    <3> DEFINE type == local[only].call.arg
    <3>1. /\ point'.state = Advance(point.state, type)
          /\ point'.block = point.block
      BY <2>1, <2>2, <1>0 DEF Current, Applied, At
    <3>2. CASE type \in {"investigation", "escalate", "verdict"}
      <4>1. Machine!Event(type)
        BY <3>1, SameLifecycle DEF Machine!Event
      <4> QED
        BY <1>0, <1>1, <2>1, <3>2, <4>1 DEF Machine!Next
    <3>3. CASE type \notin {"investigation", "escalate", "verdict"}
      BY <1>0, <1>1, <2>1, <3>1, <3>3, AdvanceStays
    <3> QED
      BY <3>2, <3>3
  <2>3. CASE At(only, "close_memory")
    BY <1>0, <1>1, <2>1, <2>3 DEF Current, At
  <2> QED
    BY <1>11, <2>2, <2>3 DEF WriteMemoryAndReturn
<1>12. CASE UNCHANGED vars
  BY <1>0, <1>2, <1>12 DEF vars, Current, Applied
<1>13. ASSUME Record(only) \/ LoseRecord(only) PROVE Current(only)' /\ UNCHANGED point
  BY <1>9, <1>13 DEF Record, LoseRecord
<1>14. ASSUME Refuse(only) \/ GiveUp(only) \/ Fail(only) PROVE Current(only)' /\ UNCHANGED point
  BY <1>6, <1>14 DEF Refuse, GiveUp, Fail
<1>15. CASE \E call \in Calls : Start(only, call)
  BY <1>2, <1>3, <1>15 DEF Start
<1>16. CASE Mutate(only)
  BY <1>2, <1>4, <1>16 DEF Mutate
<1>17. CASE Project(only)
  BY <1>2, <1>5, <1>17 DEF Project
<1>18. CASE AppendEvent(only) \/ WriteReceipt(only) \/ Confirm(only)
  BY <1>2, <1>7, <1>18 DEF AppendEvent, WriteReceipt, Confirm
<1>19. CASE Retry(only)
  BY <1>2, <1>8, <1>19 DEF Retry
<1>20. CASE Record(only) \/ LoseRecord(only) \/ Refuse(only) \/ GiveUp(only) \/ Fail(only)
  BY <1>2, <1>13, <1>14, <1>20
<1> QED
  BY <1>10, <1>11, <1>12, <1>15, <1>16, <1>17, <1>18, <1>19, <1>20 DEF Next, Step

\* While one process writes the case and the store answers, its state and its
\* decision move as CaseMachine says: along the transition table, a decision
\* and its state together, an event never touching the decision.
THEOREM OneWriterIsTheMachine ==
  ASSUME NEW only, Writers = {only}, ~ FlakyReads
  PROVE  Spec => ImplementsMachine
<1>1. Init => SerialInv /\ Machine!Init
  <2> SUFFICES ASSUME Init PROVE SerialInv /\ Machine!Init
    OBVIOUS
  <2>1. RecordsInv
    BY DEF Init, RecordsInv, Phase, Kept, Idle
  <2>2. \A w \in Writers : Current(w)
    BY DEF Init, Current, Idle
  <2>3. Machine!Init
    BY DEF Init, Machine!Init, Minted, NoBlock, Block, NoVerdict, Machine!NoVerdict
  <2> QED
    BY <2>1, <2>2, <2>3, TypeInit DEF SerialInv
<1>2. SerialInv /\ [Next]_vars => SerialInv' /\ [Machine!Next]_Machine!vars
  BY SerialStep DEF Machine!vars
<1> QED
  BY <1>1, <1>2, PTL DEF Spec, ImplementsMachine, Machine!Spec

----------------------------------------------------------------------------
\* While one process writes the case and the store answers, nothing it recorded
\* goes missing, and the newest adjudication is the block's.

\* A decision in `entries` is no later than the block, and is the block's if it is
\* of the same call; one of the call at work is the decision that call makes.
Sound(block, entries, w) ==
  \A e \in entries : e.type = "adjudication" =>
    /\ e.op <= block.op
    /\ e.op <= calls
    /\ e.op = block.op => e.value = block.decision
    /\ local[w].pc # "idle" /\ e.op = local[w].op =>
         local[w].call.kind = "decide" /\ e.value = local[w].call.arg

Stored(w) ==
  /\ local[w].pc # "idle" => local[w].op = calls
  /\ Sound(point.block, point.log \cup events, w)

Carried(w) ==
  local[w].pc \notin {"idle", "read"} =>
    /\ Sound(local[w].case.block, local[w].case.log \cup events, w)
    /\ local[w].call.kind = "decide" =>
         local[w].case.block = Block(local[w].op, local[w].call.arg)
    /\ point.log \subseteq local[w].case.log
    /\ local[w].call.kind # "append" => \E e \in local[w].case.log : e.op = local[w].op

Landed(w) ==
  local[w].pc \in {"verify", "record", "close_receipt", "close_memory"} =>
    \E e \in point.log : e.op = local[w].op

StoryInv(w) == Stored(w) /\ Carried(w) /\ Landed(w) /\ NoSilentDiscard

LEMMA SoundGrows ==
  ASSUME NEW w, NEW block, NEW entries, NEW more, Sound(block, entries, w),
         \A e \in more : e.type # "adjudication"
  PROVE  Sound(block, entries \cup more, w)
BY DEF Sound

\* What a mutation makes of a sound case is sound.
LEMMA MutatedSound ==
  ASSUME TypeOK, NEW w, NEW op \in Ops, NEW call \in AllCalls, NEW attempt,
         call.kind # "append", op = calls,
         local[w].op = op, local[w].call = call,
         local[w].pc # "idle", Sound(point.block, point.log \cup events, w),
         NEW case, case = Mutated(op, call, Merged, attempt)
  PROVE  /\ Sound(case.block, case.log \cup events, w)
         /\ call.kind = "decide" => case.block = Block(op, call.arg)
         /\ point.log \subseteq case.log
         /\ \E e \in case.log : e.op = op
<1>1. /\ Merged \in [state : StoredStates, rev : Nat, stamp : Nat \X Nat,
                     block : {point.block}, log : {point.log \cup events},
                     assignee : Roles \cup {NoVerdict}, touched : 0..MaxCalls]
  BY DEF Merged, Payloads, TypeOK
<1> DEFINE last == LastEntry(op, call, Merged)
           entries == point.log \cup events
<1>2. last.op = op
  BY EntryOp
<1>3. CASE call.kind = "decide"
  <2> DEFINE move == Entry(op, "transition", Normalize(Merged.state), "decided")
  <2>1. case.block = Block(op, call.arg) /\ case.log = (entries \cup {last}) \cup {move}
    BY <1>1, <1>3 DEF Mutated
  <2>2. last = Entry(op, "adjudication", "none", call.arg)
    BY <1>3 DEF LastEntry
  <2>3. last.op = op /\ last.type = "adjudication" /\ last.value = call.arg
        /\ move.type = "transition"
    BY <2>2 DEF Entry
  <2>4. case.block.op = op /\ case.block.decision = call.arg /\ op \in Nat
    BY <2>1 DEF Block, Ops
  <2> HIDE DEF last, move
  <2>5. Sound(case.block, entries, w)
    BY <1>3, <2>4 DEF Sound
  <2>6. Sound(case.block, {last}, w)
    BY <1>3, <2>3, <2>4 DEF Sound
  <2>7. Sound(case.block, {move}, w)
    BY <2>3 DEF Sound
  <2>8. Sound(case.block, case.log \cup events, w)
    BY <2>1, <2>5, <2>6, <2>7 DEF Sound
  <2> QED
    BY <1>2, <2>1, <2>8
<1>4. CASE call.kind # "decide"
  <2>1. case.block = point.block /\ case.log = entries \cup {last}
    BY <1>1, <1>4 DEF Mutated
  <2>2. last.type # "adjudication"
    BY <1>4 DEF LastEntry, Entry, AllCalls
  <2> HIDE DEF last
  <2>3. Sound(case.block, entries \cup {last}, w)
    BY <2>1, <2>2, SoundGrows
  <2>4. case.log \cup events = entries \cup {last}
    BY <2>1
  <2> QED
    BY <1>2, <1>4, <2>1, <2>3, <2>4
<1> QED
  BY <1>3, <1>4

\* The same of the next state.
SoundNext(block, entries, w) ==
  \A e \in entries : e.type = "adjudication" =>
    /\ e.op <= block.op
    /\ e.op <= calls'
    /\ e.op = block.op => e.value = block.decision
    /\ local'[w].pc # "idle" /\ e.op = local'[w].op =>
         local'[w].call.kind = "decide" /\ e.value = local'[w].call.arg

LEMMA SoundStays ==
  ASSUME NEW w, NEW block, NEW entries, Sound(block, entries, w), UNCHANGED calls,
         local'[w].pc # "idle" => /\ local[w].pc # "idle"
                                  /\ local'[w].op = local[w].op
                                  /\ local'[w].call = local[w].call
  PROVE  SoundNext(block, entries, w)
BY DEF Sound, SoundNext

LEMMA StoryNext ==
  ASSUME NEW w,
         local'[w].pc # "idle" => local'[w].op = calls',
         SoundNext(point'.block, point'.log \cup events', w)
  PROVE  Stored(w)'
BY DEF Stored, Sound, SoundNext

LEMMA CarriedNext ==
  ASSUME NEW w, local'[w].pc # "idle",
         SoundNext(local'[w].case.block, local'[w].case.log \cup events', w),
         local'[w].call.kind = "decide" =>
           local'[w].case.block = Block(local'[w].op, local'[w].call.arg),
         point'.log \subseteq local'[w].case.log,
         local'[w].call.kind # "append" => \E e \in local'[w].case.log : e.op = local'[w].op
  PROVE  Carried(w)'
BY DEF Carried, Sound, SoundNext

LEMMA StoryStep ==
  ASSUME NEW only, Writers = {only}, ~ FlakyReads,
         SerialInv, StoryInv(only), [Next]_vars
  PROVE  StoryInv(only)'
<1> USE DEF SerialInv
<1>0. /\ local \in [Writers -> Locals] /\ point \in Payloads /\ only \in Writers
      /\ Fetched = {Merged} /\ TypeOK /\ calls \in Nat
  BY SpineAssumption DEF TypeInv, TypeOK, Fetched
\* A step that changes neither the point, nor the events, nor what is returned.
<1>1. ASSUME UNCHANGED <<point, events, returned, calls>>,
             local'[only].pc # "idle" => /\ local[only].pc # "idle"
                                         /\ local'[only].op = local[only].op
                                         /\ local'[only].call = local[only].call
      PROVE  Stored(only)' /\ NoSilentDiscard'
  <2>1. SoundNext(point.block, point.log \cup events, only)
    BY <1>1, SoundStays DEF StoryInv, Stored
  <2>2. Stored(only)'
    BY <1>0, <1>1, <2>1, StoryNext DEF StoryInv, Stored
  <2> QED
    BY <1>1, <2>2 DEF StoryInv, NoSilentDiscard
\* The call ends.
<1>2. ASSUME NEW outcome, Return(only, outcome), UNCHANGED calls,
             SoundNext(point'.block, point'.log \cup events', only),
             outcome \in {"ok", "unrecorded"} /\ local[only].call.kind # "append" =>
               \E e \in point'.log : e.op = local[only].op,
             point.log \subseteq point'.log
      PROVE  StoryInv(only)'
  <2>1. local'[only].pc = "idle"
    BY <1>0, <1>2 DEF Return, Idle
  <2>2. Stored(only)'
    BY <1>2, <2>1, StoryNext
  <2>3. NoSilentDiscard'
    BY <1>2 DEF StoryInv, NoSilentDiscard, Return
  <2> QED
    BY <2>1, <2>2, <2>3 DEF StoryInv, Carried, Landed
<1>3. ASSUME NEW call \in Calls, Start(only, call) PROVE StoryInv(only)'
  <2>1. /\ local'[only].pc = "read" /\ local'[only].op = calls + 1 /\ calls' = calls + 1
        /\ UNCHANGED <<point, events, returned>>
    BY <1>0, <1>3 DEF Start
  <2>2. SoundNext(point.block, point.log \cup events, only)
    <3>1. \A e \in point.log \cup events : e.op \in Nat
      BY <1>0, SpineAssumption DEF TypeOK, Payloads, Entries
    <3>2. SUFFICES ASSUME NEW e \in point.log \cup events, e.type = "adjudication"
                   PROVE  /\ e.op <= point.block.op
                          /\ e.op = point.block.op => e.value = point.block.decision
                          /\ e.op <= calls
      BY <1>0, <2>1, <3>1 DEF SoundNext
    <3> QED
      BY <3>2 DEF StoryInv, Stored, Sound
  <2>3. Stored(only)'
    BY <2>1, <2>2, StoryNext
  <2> QED
    BY <2>1, <2>3 DEF StoryInv, Carried, Landed, NoSilentDiscard
<1>4. ASSUME Mutate(only) PROVE StoryInv(only)'
  <2> DEFINE new == Mutated(local[only].op, local[only].call, Merged, local[only].attempt)
             last == LastEntry(local[only].op, local[only].call, Merged)
  <2>1. local' = [local EXCEPT ![only].pc = "receipt", ![only].entry = last, ![only].case = new]
    BY <1>0, <1>4 DEF Mutate
  <2>2. /\ local[only].pc = "read" /\ local[only].call.kind # "append"
        /\ UNCHANGED <<point, events, returned, calls>>
    BY <1>4 DEF Mutate, At
  <2>3. local[only].op \in Ops /\ local[only].call \in AllCalls
    BY <1>0, <2>2, BusyType DEF At
  <2>4. /\ Sound(new.block, new.log \cup events, only)
        /\ local[only].call.kind = "decide" => new.block = Block(local[only].op, local[only].call.arg)
        /\ point.log \subseteq new.log
        /\ \E e \in new.log : e.op = local[only].op
    BY <1>0, <2>2, <2>3, MutatedSound DEF StoryInv, Stored
  <2> HIDE DEF new, last
  <2>5. /\ local'[only].pc = "receipt" /\ local'[only].case = new
        /\ local'[only].call = local[only].call /\ local'[only].op = local[only].op
    BY <1>0, <2>1 DEF Locals
  <2>6. SoundNext(new.block, new.log \cup events, only)
    BY <2>2, <2>4, <2>5, SoundStays
  <2>7. Carried(only)'
    BY <2>2, <2>4, <2>5, <2>6, CarriedNext
  <2>8. Stored(only)' /\ NoSilentDiscard'
    BY <1>1, <2>2, <2>5
  <2> QED
    BY <2>5, <2>7, <2>8 DEF StoryInv, Landed
<1>5. ASSUME Project(only) PROVE StoryInv(only)'
  <2> DEFINE new == Projected(local[only].op, local[only].call, Merged)
             last == LastEntry(local[only].op, local[only].call, Merged)
  <2>1. local' = [local EXCEPT ![only].pc = "event", ![only].entry = last, ![only].case = new]
    BY <1>0, <1>5 DEF Project
  <2>2. /\ local[only].pc = "read" /\ local[only].call.kind = "append"
        /\ UNCHANGED <<point, events, returned, calls>>
    BY <1>5 DEF Project, At
  <2>3. local[only].op \in Ops /\ local[only].call \in AllCalls
    BY <1>0, <2>2, BusyType DEF At
  <2>4. last.type # "adjudication"
    BY <2>2, <2>3, SpineAssumption DEF LastEntry, Entry, AllCalls, OwnTypes
  <2>5. new.block = point.block /\ new.log = (point.log \cup events) \cup {last}
    <3>1. Merged \in [state : {point.state}, rev : Nat, stamp : Nat \X Nat,
                      block : {point.block}, log : {point.log \cup events},
                      assignee : Roles \cup {NoVerdict}, touched : 0..MaxCalls]
      BY <1>0 DEF Merged, Payloads
    <3> QED
      BY <3>1 DEF Projected
  <2> HIDE DEF new, last
  <2>6. Sound(new.block, (point.log \cup events) \cup {last}, only)
    BY <2>4, <2>5, SoundGrows DEF StoryInv, Stored
  <2>7. new.log \cup events = (point.log \cup events) \cup {last} /\ point.log \subseteq new.log
    BY <2>5
  <2>8. /\ local'[only].pc = "event" /\ local'[only].case = new
        /\ local'[only].call = local[only].call /\ local'[only].op = local[only].op
    BY <1>0, <2>1 DEF Locals
  <2>9. SoundNext(new.block, new.log \cup events, only)
    BY <2>2, <2>6, <2>7, <2>8, SoundStays
  <2>10. Carried(only)'
    BY <2>2, <2>7, <2>8, <2>9, CarriedNext
  <2>11. Stored(only)' /\ NoSilentDiscard'
    BY <1>1, <2>2, <2>8
  <2> QED
    BY <2>8, <2>10, <2>11 DEF StoryInv, Landed
<1>6. ASSUME AppendEvent(only) PROVE StoryInv(only)'
  <2>1. /\ local[only].pc = "event" /\ events' = events \cup {local[only].entry}
        /\ Goto(only, "receipt") /\ UNCHANGED <<point, receipts, calls, returned>>
    BY <1>6 DEF AppendEvent, At
  <2>2. local[only].call \in AllCalls /\ local[only].op \in Ops /\ local[only].call.kind = "append"
    BY <1>0, <2>1, BusyType DEF At, RecordsInv, Phase
  <2>3. local[only].entry.type # "adjudication"
    BY <1>0, <2>1, <2>2, EntryOp, SpineAssumption DEF RecordsInv, Phase, OwnTypes
  <2>4. /\ local'[only].pc = "receipt" /\ local'[only].case = local[only].case
        /\ local'[only].call = local[only].call /\ local'[only].op = local[only].op
    BY <1>0, <2>1 DEF Goto, Locals
  <2>5. /\ Sound(point.block, (point.log \cup events) \cup {local[only].entry}, only)
        /\ Sound(local[only].case.block,
                 (local[only].case.log \cup events) \cup {local[only].entry}, only)
    BY <2>1, <2>3, SoundGrows DEF StoryInv, Stored, Carried
  <2>6. /\ point'.log \cup events' = (point.log \cup events) \cup {local[only].entry}
        /\ local'[only].case.log \cup events' =
             (local[only].case.log \cup events) \cup {local[only].entry}
    BY <2>1, <2>4
  <2>7. /\ SoundNext(point'.block, point'.log \cup events', only)
        /\ SoundNext(local'[only].case.block, local'[only].case.log \cup events', only)
    BY <2>1, <2>4, <2>5, <2>6, SoundStays
  <2>8. Stored(only)'
    BY <2>1, <2>4, <2>7, StoryNext DEF StoryInv, Stored
  <2>9. Carried(only)'
    BY <2>1, <2>2, <2>4, <2>7, CarriedNext DEF StoryInv, Carried
  <2> QED
    BY <2>1, <2>4, <2>8, <2>9 DEF StoryInv, Landed, NoSilentDiscard
\* A store access that leaves the point and the events alone, and the call going on.
<1>7. ASSUME NEW pc, pc # "idle", UNCHANGED <<point, events, returned, calls>>,
             local[only].pc \notin {"idle", "read"},
             local'[only].pc = pc, local'[only].case = local[only].case,
             local'[only].call = local[only].call, local'[only].op = local[only].op,
             pc \in {"verify", "record", "close_receipt", "close_memory"} =>
               local[only].pc \in {"verify", "record", "close_receipt", "close_memory"}
      PROVE  StoryInv(only)'
  <2>1. SoundNext(local[only].case.block, local[only].case.log \cup events, only)
    BY <1>7, SoundStays DEF StoryInv, Carried
  <2>2. Carried(only)'
    BY <1>7, <2>1, CarriedNext DEF StoryInv, Carried
  <2>3. Stored(only)' /\ NoSilentDiscard'
    BY <1>1, <1>7
  <2>4. Landed(only)'
    BY <1>7 DEF StoryInv, Landed
  <2> QED
    BY <2>2, <2>3, <2>4 DEF StoryInv
<1>8. ASSUME WriteReceipt(only) \/ Confirm(only) PROVE StoryInv(only)'
  <2>1. PICK pc : /\ Goto(only, pc) /\ UNCHANGED <<point, events, returned, calls>>
                  /\ \/ local[only].pc = "receipt" /\ pc = "memory"
                     \/ local[only].pc = "close_receipt" /\ pc = "close_memory"
                     \/ local[only].pc = "verify" /\ pc = "record"
    BY <1>8 DEF WriteReceipt, Confirm, At
  <2>2. /\ local'[only].pc = pc /\ local'[only].case = local[only].case
        /\ local'[only].call = local[only].call /\ local'[only].op = local[only].op
    BY <1>0, <2>1 DEF Goto, Locals
  <2> QED
    BY <1>7, <2>1, <2>2
<1>9. ASSUME Retry(only) PROVE StoryInv(only)'
  <2>1. /\ local[only].pc = "verify" /\ UNCHANGED <<point, events, returned, calls>>
        /\ local'[only].pc = "read" /\ local'[only].call = local[only].call
        /\ local'[only].op = local[only].op
    BY <1>0, <1>9 DEF Retry, At, Locals
  <2>2. Stored(only)' /\ NoSilentDiscard'
    BY <1>1, <2>1
  <2> QED
    BY <2>1, <2>2 DEF StoryInv, Carried, Landed
\* The payload replaces the point: the copy held what the point did.
<1>10. ASSUME local[only].pc \in {"memory", "close_memory"}, point' = local[only].case,
              UNCHANGED <<events, calls>>,
              local'[only].pc # "idle" => /\ local'[only].op = local[only].op
                                          /\ local'[only].call = local[only].call
       PROVE  SoundNext(point'.block, point'.log \cup events', only) /\ point.log \subseteq point'.log
  BY <1>10, SoundStays DEF StoryInv, Carried
<1>11. ASSUME WriteMemory(only) PROVE StoryInv(only)'
  <2>1. /\ local[only].pc = "memory" /\ local[only].call.kind # "append"
        /\ point' = local[only].case /\ UNCHANGED <<events, returned, calls>>
        /\ Goto(only, "verify")
    BY <1>11 DEF WriteMemory, At
  <2>2. /\ local'[only].pc = "verify" /\ local'[only].case = local[only].case
        /\ local'[only].call = local[only].call /\ local'[only].op = local[only].op
    BY <1>0, <2>1 DEF Goto, Locals
  <2>3. /\ SoundNext(point'.block, point'.log \cup events', only)
        /\ point.log \subseteq point'.log
    BY <1>10, <2>1, <2>2
  <2>4. Stored(only)'
    BY <2>1, <2>2, <2>3, StoryNext DEF StoryInv, Stored
  <2>5. Carried(only)'
    BY <2>1, <2>2, <2>3, CarriedNext DEF StoryInv, Carried
  <2>6. Landed(only)'
    BY <2>1, <2>2 DEF StoryInv, Carried, Landed
  <2>7. NoSilentDiscard'
    BY <2>1, <2>3 DEF StoryInv, NoSilentDiscard
  <2> QED
    BY <2>4, <2>5, <2>6, <2>7 DEF StoryInv
<1>12. ASSUME WriteMemoryAndReturn(only) PROVE StoryInv(only)'
  <2>1. /\ \/ local[only].pc = "memory" /\ local[only].call.kind = "append"
           \/ local[only].pc = "close_memory"
        /\ point' = local[only].case /\ UNCHANGED <<events, calls>> /\ Return(only, "ok")
    BY <1>12 DEF WriteMemoryAndReturn, At
  <2>2. local'[only].pc = "idle"
    BY <1>0, <2>1 DEF Return, Idle
  <2>3. /\ SoundNext(point'.block, point'.log \cup events', only)
        /\ point.log \subseteq point'.log
    BY <1>10, <2>1, <2>2
  <2>4. local[only].call.kind # "append" => \E e \in point'.log : e.op = local[only].op
    BY <2>1 DEF StoryInv, Carried
  <2> QED
    BY <1>2, <2>1, <2>3, <2>4
<1>13. ASSUME NEW outcome, outcome \notin {"ok", "unrecorded"}, Return(only, outcome),
              UNCHANGED <<point, events, calls>>
       PROVE  StoryInv(only)'
  <2>1. local'[only].pc = "idle"
    BY <1>0, <1>13 DEF Return, Idle
  <2>2. SoundNext(point'.block, point'.log \cup events', only)
    BY <1>13, <2>1, SoundStays DEF StoryInv, Stored
  <2> QED
    BY <1>2, <1>13, <2>2
\* What a confirmed mutation may add to the events is its own decision or none.
<1>14. ASSUME At(only, "record"), NEW more, events' = events \cup more,
              more \subseteq {EventPoint(local[only].op, local[only].call)},
              NEW outcome, Finish(only, outcome), UNCHANGED <<point, calls>>
       PROVE  StoryInv(only)'
  <2> DEFINE w == local[only]
  <2>1. /\ w.pc = "record" /\ w.call \in AllCalls /\ w.op \in Ops /\ w.call.kind # "append"
        /\ w.case.block = point.block /\ w.op \in Nat /\ w.op = calls
    BY <1>0, <1>14, BusyType DEF At, RecordsInv, Phase, Current, Ops, StoryInv, Stored
  <2>2. \A e \in more : e.type = "adjudication" =>
          /\ w.call.kind = "decide" /\ e.op = w.op /\ e.value = w.call.arg
          /\ point.block = Block(w.op, w.call.arg)
    BY <1>14, <2>1 DEF EventPoint, LastEntry, Entry, AllCalls, StoryInv, Carried
  <2>3. Sound(point.block, more, only)
    BY <2>1, <2>2 DEF Sound, Block
  <2>4. /\ Sound(point.block, (point.log \cup events) \cup more, only)
        /\ Sound(w.case.block, (w.case.log \cup events) \cup more, only)
    BY <2>1, <2>3 DEF Sound, StoryInv, Stored, Carried
  <2>5. CASE w.call.kind = "close"
    <3> DEFINE new == Reasoned(w.op, w.case)
    <3>1. /\ local'[only].pc = "close_receipt" /\ local'[only].case = new
          /\ local'[only].call = w.call /\ local'[only].op = w.op /\ UNCHANGED returned
      BY <1>0, <1>14, <2>5 DEF Finish, Locals
    <3>2. /\ new.block = w.case.block /\ new.log = w.case.log \cup {Reason(w.op)}
      BY <1>0 DEF Reasoned, Locals, Payloads
    <3>3. Reason(w.op).type # "adjudication"
      BY DEF Reason, Entry
    <3> HIDE DEF new
    <3>4. Sound(new.block, ((w.case.log \cup events) \cup more) \cup {Reason(w.op)}, only)
      BY <2>4, <3>2, <3>3, SoundGrows
    <3>5. /\ new.log \cup events' = ((w.case.log \cup events) \cup more) \cup {Reason(w.op)}
          /\ point'.log \cup events' = (point.log \cup events) \cup more
      BY <1>14, <3>2
    <3>6. /\ SoundNext(new.block, new.log \cup events', only)
          /\ SoundNext(point'.block, point'.log \cup events', only)
      BY <1>14, <2>1, <2>4, <3>1, <3>4, <3>5, SoundStays
    <3>7. Stored(only)'
      BY <1>14, <2>1, <3>1, <3>6, StoryNext
    <3>8. Carried(only)'
      BY <1>14, <2>1, <2>5, <3>1, <3>2, <3>6, CarriedNext DEF StoryInv, Carried
    <3>9. Landed(only)' /\ NoSilentDiscard'
      BY <1>14, <2>1, <3>1 DEF StoryInv, Landed, NoSilentDiscard
    <3> QED
      BY <3>7, <3>8, <3>9 DEF StoryInv
  <2>6. CASE w.call.kind # "close"
    <3>1. Return(only, outcome)
      BY <1>14, <2>6 DEF Finish
    <3>2. local'[only].pc = "idle"
      BY <1>0, <3>1 DEF Return, Idle
    <3>3. point'.log \cup events' = (point.log \cup events) \cup more
      BY <1>14
    <3>4. SoundNext(point'.block, point'.log \cup events', only)
      BY <1>14, <2>4, <3>2, <3>3, SoundStays
    <3>5. \E e \in point'.log : e.op = w.op
      BY <1>14, <2>1 DEF StoryInv, Landed
    <3> QED
      BY <1>2, <1>14, <3>1, <3>4, <3>5
  <2> QED
    BY <2>5, <2>6
<1>15. ASSUME Record(only) PROVE StoryInv(only)'
  BY <1>14, <1>15 DEF Record
<1>16. ASSUME LoseRecord(only) PROVE StoryInv(only)'
  <2>1. events' = events \cup {}
    BY <1>16 DEF LoseRecord
  <2> QED
    BY <1>14, <1>16, <2>1 DEF LoseRecord
<1>17. ASSUME Refuse(only) \/ GiveUp(only) \/ Fail(only) PROVE StoryInv(only)'
  BY <1>13, <1>17 DEF Refuse, GiveUp, Fail
<1>18. CASE UNCHANGED vars
  BY <1>0, <1>18 DEF vars, StoryInv, Stored, Carried, Landed, Sound, NoSilentDiscard
<1> QED
  BY <1>3, <1>4, <1>5, <1>6, <1>8, <1>9, <1>11, <1>12, <1>15, <1>16, <1>17, <1>18 DEF Next, Step

LEMMA StoryHolds ==
  ASSUME NEW only, Writers = {only}, ~ FlakyReads
  PROVE  Spec => [](SerialInv /\ StoryInv(only))
<1>1. Init => SerialInv /\ StoryInv(only)
  <2> SUFFICES ASSUME Init PROVE SerialInv /\ StoryInv(only)
    OBVIOUS
  <2>1. RecordsInv /\ \A w \in Writers : Current(w)
    BY DEF Init, RecordsInv, Phase, Kept, Current, Idle
  <2>2. point.log = {} /\ events = {} /\ returned = {} /\ local[only].pc = "idle"
    BY DEF Init, Minted, Idle
  <2>3. StoryInv(only)
    BY <2>2 DEF StoryInv, Stored, Carried, Landed, Sound, NoSilentDiscard
  <2> QED
    BY <2>1, <2>3, TypeInit DEF SerialInv
<1>2. SerialInv /\ StoryInv(only) /\ [Next]_vars => SerialInv' /\ StoryInv(only)'
  BY SerialStep, StoryStep
<1> QED
  BY <1>1, <1>2, PTL DEF Spec

\* While one process writes the case and the store answers, the newest
\* adjudication event, which the console reads, is the decision of the block,
\* which the deliverables read, whatever call died where.
THEOREM OneWriterTellsOneStory ==
  ASSUME NEW only, Writers = {only}, ~ FlakyReads
  PROVE  Spec => []OneStory
<1>1. SerialInv /\ StoryInv(only) /\ BackedInv => OneStory
  <2> SUFFICES ASSUME SerialInv, StoryInv(only), BackedInv, Adjudications(Merged.log) # {}
               PROVE  Adjudication(Merged) = Newest(Adjudications(Merged.log)).value
    BY DEF OneStory
  <2> DEFINE found == Adjudications(Merged.log)
             newest == Newest(found)
  <2>1. /\ point \in Payloads /\ Merged \in Payloads
        /\ Merged.block = point.block /\ Merged.log = point.log \cup events
    BY FetchedType DEF SerialInv, TypeInv, TypeOK, Fetched, Merged, Payloads
  <2>2. found \in SUBSET Entries /\ found # {}
    BY <2>1 DEF Adjudications, Payloads
  <2>3. newest \in found /\ \A f \in found : f.op <= newest.op
    BY <2>2, NewestExists
  <2>4. CASE point.block = NoBlock
    BY <2>1, <2>4 DEF Adjudication
  <2>5. CASE point.block # NoBlock
    <3>1. PICK d \in point.log : /\ d.type = "adjudication" /\ d.op = point.block.op
                                  /\ d.value = point.block.decision
      BY <2>5 DEF BackedInv, StoreBacked, Backed
    <3>2. d \in found
      BY <2>1, <3>1 DEF Adjudications
    <3>3. /\ newest.op <= point.block.op
          /\ newest.op = point.block.op => newest.value = point.block.decision
      BY <2>1, <2>3 DEF Adjudications, StoryInv, Stored, Sound
    <3>4. newest.op \in Nat /\ point.block.op \in Nat
      <4>1. newest \in Entries /\ MaxCalls \in Nat
        BY <2>2, <2>3, SpineAssumption
      <4>2. point.block.op \in 0..MaxCalls
        BY <2>1 DEF Payloads
      <4> HIDE DEF newest
      <4> QED
        BY <4>1, <4>2 DEF Entries
    <3>5. newest.value = point.block.decision
      BY <2>3, <3>1, <3>2, <3>3, <3>4
    <3> QED
      BY <2>1, <2>5, <3>5 DEF Adjudication
  <2> QED
    BY <2>4, <2>5
<1> QED
  BY <1>1, StoryHolds, BackedInvariance, PTL

----------------------------------------------------------------------------
\* Discards.  Once a call that nothing overlapped has returned, its entry is in
\* the payload, in the receipts, and in every copy another writer then makes.

Held(op, entries) == \E e \in entries : e.op = op

Copies(w) == local[w].pc \notin {"idle", "read"}

Everywhere(op) == /\ Held(op, point.log)
                  /\ op \in Detailed
                  /\ \A w \in Writers : Copies(w) => Held(op, local[w].case.log)

\* A call running alone, up to the access it does next.
Alone(w) ==
  /\ \A v \in Writers \ {w} : local[v].pc = "idle"
  /\ Copies(w) => Held(local[w].op, local[w].case.log) /\ local[w].entry.op = local[w].op
  /\ local[w].pc \in {"memory", "verify", "record", "close_receipt", "close_memory"} =>
       local[w].op \in Detailed
  /\ local[w].pc \in {"verify", "record", "close_receipt", "close_memory"} =>
       Held(local[w].op, point.log)

DiscardInv ==
  /\ \A r \in returned :
       r.outcome \in {"ok", "unrecorded"} /\ r.op \notin overlapped => Everywhere(r.op)
  /\ \A w \in Writers :
       local[w].pc # "idle" /\ local[w].op \notin overlapped => Alone(w)

\* A read finds what is in the payload and in the receipts.
LEMMA FetchedHolds ==
  ASSUME TypeInv, NEW op \in Ops, Held(op, point.log), op \in Detailed, NEW case \in Fetched
  PROVE  Held(op, case.log)
<1>1. Held(op, Merged.log)
  <2>1. Merged.log = point.log \cup events
    BY DEF Merged, TypeInv, TypeOK, Payloads
  <2> QED
    BY <2>1 DEF Held
<1>2. Held(op, Rebuilt.log)
  <2>1. PICK i \in DOMAIN receipts : receipts[i].detail.op = op
    BY DEF Detailed
  <2>2. receipts[i].detail # NoEntry
    BY <2>1 DEF NoEntry, Entry, Ops
  <2>3. receipts[i].detail \in Rebuilt.log
    BY <2>1, <2>2 DEF Rebuilt
  <2> QED
    BY <2>1, <2>3 DEF Held
<1> QED
  BY <1>1, <1>2 DEF Fetched

\* A mutation or a projection loses no entry, and adds one of its own.
LEMMA MutatedHolds ==
  ASSUME NEW op \in Ops, NEW call \in AllCalls, NEW case \in Payloads, NEW attempt
  PROVE  /\ call.kind # "append" =>
              /\ case.log \subseteq Mutated(op, call, case, attempt).log
              /\ Held(op, Mutated(op, call, case, attempt).log)
         /\ case.log \subseteq Projected(op, call, case).log
         /\ Held(op, Projected(op, call, case).log)
<1> DEFINE last == LastEntry(op, call, case)
<1>1. last.op = op
  BY EntryOp
<1> HIDE DEF last
<1>2. case.log \cup {last} \subseteq Projected(op, call, case).log
  BY DEF Projected, Payloads, last
<1>3. case.log \cup {last} \subseteq Mutated(op, call, case, attempt).log
  BY DEF Mutated, Payloads, last
<1> QED
  BY <1>1, <1>2, <1>3 DEF Held

\* A step that gives up no entry of the point, the receipts or a copy keeps what
\* was claimed of the calls that have returned.
LEMMA EverywhereStays ==
  ASSUME NEW op, Everywhere(op),
         Held(op, point.log) => Held(op, point'.log),
         Detailed \subseteq Detailed',
         \A v \in Writers : local'[v].pc \notin {"idle", "read"} =>
           Held(op, local'[v].case.log)
  PROVE  Everywhere(op)'
BY DEF Everywhere, Held, Copies

LEMMA DiscardStep == TypeInv /\ DiscardInv /\ [Next]_vars => DiscardInv'
<1> SUFFICES ASSUME TypeInv, DiscardInv, [Next]_vars PROVE DiscardInv'
  OBVIOUS
<1>0. /\ local \in [Writers -> Locals] /\ TypeInv'
      /\ \A r \in returned : r.op \in Ops
  BY TypeStep DEF TypeInv, TypeOK
\* What every step but a start leaves: the claims of the others, and of the past.
<1>1. ASSUME NEW w \in Writers, local[w].pc # "idle",
             overlapped' = overlapped,
             \A v \in Writers \ {w} : local'[v] = local[v],
             local'[w].pc # "idle" => local'[w].op = local[w].op,
             Detailed \subseteq Detailed',
             \A op \in Ops : Everywhere(op) => Everywhere(op)',
             \A r \in returned' : r \in returned \/ r.op = local[w].op,
             (\E r \in returned' \ returned : r.outcome \in {"ok", "unrecorded"})
                 /\ Alone(w) => \A op \in Ops : op = local[w].op => Everywhere(op)',
             local'[w].pc # "idle" /\ Alone(w) =>
               /\ local'[w].pc # "read" =>
                    /\ Held(local[w].op, local'[w].case.log)
                    /\ local'[w].entry.op = local[w].op
               /\ local'[w].pc \in {"memory", "verify", "record", "close_receipt",
                                    "close_memory"} => local[w].op \in Detailed'
               /\ local'[w].pc \in {"verify", "record", "close_receipt", "close_memory"} =>
                    Held(local[w].op, point'.log)
      PROVE  DiscardInv'
  <2>1. ASSUME NEW r \in returned', r.outcome \in {"ok", "unrecorded"}, r.op \notin overlapped'
        PROVE  Everywhere(r.op)'
    <3>1. CASE r \in returned
      BY <1>0, <1>1, <2>1, <3>1 DEF DiscardInv
    <3>2. CASE r \notin returned
      <4>1. r.op = local[w].op
        BY <1>1, <3>2
      <4>2. Alone(w)
        BY <1>1, <2>1, <4>1 DEF DiscardInv
      <4>3. \E s \in returned' \ returned : s.outcome \in {"ok", "unrecorded"}
        BY <2>1, <3>2
      <4>4. r.op \in Ops
        BY <1>0, <2>1 DEF TypeInv, TypeOK
      <4> QED
        BY <1>1, <4>1, <4>2, <4>3, <4>4
    <3> QED
      BY <3>1, <3>2
  <2>2. ASSUME NEW v \in Writers, local'[v].pc # "idle", local'[v].op \notin overlapped'
        PROVE  Alone(v)'
    <3>1. CASE v = w
      <4>1. Alone(w)
        BY <1>1, <2>2, <3>1 DEF DiscardInv
      <4>2. \A u \in Writers \ {w} : local'[u].pc = "idle"
        BY <1>1, <4>1 DEF Alone
      <4> QED
        BY <1>1, <2>2, <3>1, <4>1, <4>2 DEF Alone, Copies, Held
    <3>2. CASE v # w
      <4>1. Alone(v)
        BY <1>1, <2>2, <3>2 DEF DiscardInv
      <4> QED
        BY <1>1, <3>2, <4>1 DEF Alone
    <3> QED
      BY <3>1, <3>2
  <2> QED
    BY <2>1, <2>2 DEF DiscardInv
<1>2. ASSUME NEW w \in Writers, NEW call \in Calls, Start(w, call)
      PROVE  DiscardInv'
  <2>1. /\ local'[w].pc = "read" /\ local'[w].op = calls + 1
        /\ \A v \in Writers \ {w} : local'[v] = local[v]
        /\ point' = point /\ receipts' = receipts /\ returned' = returned
        /\ overlapped \subseteq overlapped'
    BY <1>0, <1>2 DEF Start
  <2>2. \A r \in returned : r.op \notin overlapped' => r.op \notin overlapped
    BY <2>1
  <2>3. \A op \in Ops : Everywhere(op) => Everywhere(op)'
    BY <2>1 DEF Everywhere, Held, Copies, Detailed
  <2>4. ASSUME NEW v \in Writers, local'[v].pc # "idle", local'[v].op \notin overlapped'
        PROVE  Alone(v)'
    <3>1. CASE v = w
      <4>1. calls + 1 \notin overlapped'
        BY <2>1, <2>4, <3>1
      <4>2. Running(w) = {}
        BY <1>2, <4>1 DEF Start
      <4>3. \A u \in Writers \ {w} : local[u].pc = "idle"
        BY <4>2 DEF Running, At
      <4> QED
        BY <2>1, <3>1, <4>3 DEF Alone, Copies
    <3>2. CASE v # w
      <4>1. local[v].op \in Running(w)
        BY <2>1, <2>4, <3>2 DEF Running, At
      <4>2. local[v].op \in overlapped'
        BY <1>2, <4>1 DEF Start
      <4> QED
        BY <2>1, <2>4, <3>2, <4>2
    <3> QED
      BY <3>1, <3>2
  <2> QED
    BY <1>0, <2>1, <2>2, <2>3, <2>4 DEF DiscardInv
\* A read, and what the call makes of it.
<1>3. ASSUME NEW w \in Writers, local[w].pc = "read", NEW case \in Fetched,
             NEW copy \in Payloads, NEW entry, NEW pc \in {"receipt", "event"},
             local' = [local EXCEPT ![w].pc = pc, ![w].entry = entry, ![w].case = copy],
             UNCHANGED <<point, receipts, returned, overlapped>>,
             entry.op = local[w].op, case.log \subseteq copy.log, Held(local[w].op, copy.log)
      PROVE  DiscardInv'
  <2>1. /\ local'[w].pc = pc /\ local'[w].op = local[w].op
        /\ local'[w].case = copy /\ local'[w].entry = entry
        /\ \A v \in Writers \ {w} : local'[v] = local[v]
    BY <1>0, <1>3 DEF Locals
  <2>2. Detailed' = Detailed /\ point' = point
    BY <1>3 DEF Detailed
  <2>3. ASSUME NEW op \in Ops, Everywhere(op)
        PROVE  Everywhere(op)'
    <3>1. Held(op, case.log)
      BY <2>3, FetchedHolds DEF Everywhere
    <3>2. Held(op, copy.log)
      BY <1>3, <3>1 DEF Held
    <3> QED
      BY <2>1, <2>2, <2>3, <3>2, EverywhereStays DEF Everywhere, Copies
  <2> QED
    BY <1>1, <1>3, <2>1, <2>2, <2>3
<1>4. ASSUME NEW w \in Writers, Mutate(w) PROVE DiscardInv'
  <2>1. PICK case \in Fetched :
          local' = [local EXCEPT ![w].pc = "receipt",
                      ![w].entry = LastEntry(local[w].op, local[w].call, case),
                      ![w].case = Mutated(local[w].op, local[w].call, case,
                                          local[w].attempt)]
    BY <1>4 DEF Mutate
  <2>2. local[w].pc = "read" /\ ~ At(w, "idle") /\ local[w].call.kind # "append"
        /\ UNCHANGED <<point, receipts, returned, overlapped>>
    BY <1>4 DEF Mutate, At
  <2>3. local[w].op \in Ops /\ local[w].attempt \in Nat /\ local[w].call \in AllCalls
    BY <1>0, <2>2, BusyType, SpineAssumption DEF Locals
  <2>4. case \in Payloads
    BY FetchedType DEF TypeInv
  <2>5. Mutated(local[w].op, local[w].call, case, local[w].attempt) \in Payloads
    BY <2>2, <2>3, <2>4, MutatedType DEF Ops
  <2>6. LastEntry(local[w].op, local[w].call, case).op = local[w].op
    BY <2>3, EntryOp
  <2> DEFINE copy == Mutated(local[w].op, local[w].call, case, local[w].attempt)
  <2>7. case.log \subseteq copy.log /\ Held(local[w].op, copy.log)
    BY <2>2, <2>3, <2>4, MutatedHolds
  <2>8. copy \in Payloads
    BY <2>5
  <2>9. local' = [local EXCEPT ![w].pc = "receipt",
                    ![w].entry = LastEntry(local[w].op, local[w].call, case),
                    ![w].case = copy]
    BY <2>1
  <2> HIDE DEF copy
  <2> QED
    BY <1>3, <2>2, <2>6, <2>7, <2>8, <2>9
<1>5. ASSUME NEW w \in Writers, Project(w) PROVE DiscardInv'
  <2>1. PICK case \in Fetched :
          local' = [local EXCEPT ![w].pc = "event",
                      ![w].entry = LastEntry(local[w].op, local[w].call, case),
                      ![w].case = Projected(local[w].op, local[w].call, case)]
    BY <1>5 DEF Project
  <2>2. local[w].pc = "read" /\ ~ At(w, "idle") /\ local[w].call.kind = "append"
        /\ UNCHANGED <<point, receipts, returned, overlapped>>
    BY <1>5 DEF Project, At
  <2>3. local[w].op \in Ops /\ local[w].call \in AllCalls
    BY <2>2, BusyType
  <2>4. case \in Payloads
    BY FetchedType DEF TypeInv
  <2>5. Projected(local[w].op, local[w].call, case) \in Payloads
    BY <2>2, <2>3, <2>4, ProjectedType DEF Ops
  <2>6. LastEntry(local[w].op, local[w].call, case).op = local[w].op
    BY <2>3, EntryOp
  <2> DEFINE copy == Projected(local[w].op, local[w].call, case)
  <2>7. case.log \subseteq copy.log /\ Held(local[w].op, copy.log)
    BY <2>2, <2>3, <2>4, MutatedHolds
  <2>8. copy \in Payloads
    BY <2>5
  <2>9. local' = [local EXCEPT ![w].pc = "event",
                    ![w].entry = LastEntry(local[w].op, local[w].call, case),
                    ![w].case = copy]
    BY <2>1
  <2> HIDE DEF copy
  <2> QED
    BY <1>3, <2>2, <2>6, <2>7, <2>8, <2>9
\* A step that only moves the writer on.
<1>6. ASSUME NEW w \in Writers, local[w].pc # "idle", NEW pc, Goto(w, pc)
      PROVE  /\ local'[w].pc = pc /\ local'[w].op = local[w].op
             /\ local'[w].case = local[w].case /\ local'[w].entry = local[w].entry
             /\ \A v \in Writers \ {w} : local'[v] = local[v]
  BY <1>0, <1>6 DEF Goto, Locals
<1>7. ASSUME NEW w \in Writers, AppendEvent(w) PROVE DiscardInv'
  <2>1. /\ local[w].pc = "event" /\ Goto(w, "receipt")
        /\ UNCHANGED <<point, receipts, returned, overlapped>>
    BY <1>7 DEF AppendEvent, At
  <2>2. Detailed' = Detailed
    BY <2>1 DEF Detailed
  <2>3. \A op \in Ops : Everywhere(op) => Everywhere(op)'
    BY <1>6, <2>1, <2>2 DEF Everywhere, Copies, Held
  <2> QED
    BY <1>1, <1>6, <2>1, <2>2, <2>3 DEF Alone, Copies
<1>8. ASSUME NEW w \in Writers, WriteReceipt(w) PROVE DiscardInv'
  <2>1. /\ \/ local[w].pc = "receipt" /\ Goto(w, "memory")
           \/ local[w].pc = "close_receipt" /\ Goto(w, "close_memory")
        /\ UNCHANGED <<point, returned, overlapped>>
    BY <1>8 DEF WriteReceipt, At
  <2>2. Detailed' = Detailed \cup {local[w].entry.op}
    BY <1>8, ReceiptAppended
  <2>3. /\ local[w].pc # "idle" /\ Copies(w)
        /\ local'[w].pc \in {"memory", "close_memory"} /\ local'[w].op = local[w].op
        /\ local'[w].case = local[w].case /\ local'[w].entry = local[w].entry
        /\ \A v \in Writers \ {w} : local'[v] = local[v]
        /\ local'[w].pc = "close_memory" => local[w].pc = "close_receipt"
    BY <1>6, <2>1 DEF Copies
  <2>4. \A op \in Ops : Everywhere(op) => Everywhere(op)'
    BY <2>1, <2>2, <2>3 DEF Everywhere, Copies, Held
  <2> QED
    BY <1>1, <2>1, <2>2, <2>3, <2>4 DEF Alone
<1>9. ASSUME NEW w \in Writers, WriteMemory(w) PROVE DiscardInv'
  <2>1. /\ local[w].pc = "memory" /\ Goto(w, "verify") /\ point' = local[w].case
        /\ UNCHANGED <<receipts, returned, overlapped>>
    BY <1>9 DEF WriteMemory, At
  <2>2. Detailed' = Detailed /\ Copies(w)
    BY <2>1 DEF Detailed, Copies
  <2>3. \A op \in Ops : Everywhere(op) => Everywhere(op)'
    BY <1>6, <2>1, <2>2 DEF Everywhere, Copies, Held
  <2> QED
    BY <1>1, <1>6, <2>1, <2>2, <2>3 DEF Alone
\* A call ends.
<1>10. ASSUME NEW w \in Writers, local[w].pc # "idle", NEW outcome, Return(w, outcome)
       PROVE  /\ local'[w].pc = "idle"
              /\ \A v \in Writers \ {w} : local'[v] = local[v]
              /\ \A r \in returned' : r \in returned \/ (r.op = local[w].op /\ r.outcome = outcome)
  BY <1>0, <1>10 DEF Return, Idle
<1>11. ASSUME NEW w \in Writers, WriteMemoryAndReturn(w) PROVE DiscardInv'
  <2>1. /\ local[w].pc \in {"memory", "close_memory"} /\ Return(w, "ok")
        /\ point' = local[w].case
        /\ UNCHANGED <<receipts, overlapped>>
    BY <1>11 DEF WriteMemoryAndReturn, At
  <2>2. Detailed' = Detailed /\ Copies(w)
    BY <2>1 DEF Detailed, Copies
  <2>3. /\ local'[w].pc = "idle"
        /\ \A v \in Writers \ {w} : local'[v] = local[v]
        /\ \A r \in returned' : r \in returned \/ r.op = local[w].op
    BY <1>10, <2>1
  <2>4. \A op \in Ops : Everywhere(op) => Everywhere(op)'
    BY <2>1, <2>2, <2>3 DEF Everywhere, Copies, Held
  <2>5. ASSUME Alone(w), NEW op \in Ops, op = local[w].op
        PROVE  Everywhere(op)'
    <3>1. Held(op, point'.log) /\ op \in Detailed'
      BY <2>1, <2>2, <2>5 DEF Alone, Copies
    <3>2. \A v \in Writers : local'[v].pc = "idle"
      BY <2>3, <2>5 DEF Alone
    <3> QED
      BY <3>1, <3>2 DEF Everywhere, Copies, Held
  <2> QED
    BY <1>1, <2>1, <2>2, <2>3, <2>4, <2>5
<1>12. ASSUME NEW w \in Writers, Confirm(w) PROVE DiscardInv'
  <2>1. /\ local[w].pc = "verify" /\ Goto(w, "record")
        /\ UNCHANGED <<point, receipts, returned, overlapped>>
    BY <1>12 DEF Confirm, At
  <2>2. Detailed' = Detailed
    BY <2>1 DEF Detailed
  <2>3. \A op \in Ops : Everywhere(op) => Everywhere(op)'
    BY <1>6, <2>1, <2>2 DEF Everywhere, Copies, Held
  <2> QED
    BY <1>1, <1>6, <2>1, <2>2, <2>3 DEF Alone, Copies
<1>13. ASSUME NEW w \in Writers, Retry(w) PROVE DiscardInv'
  <2>1. /\ local[w].pc = "verify"
        /\ local'[w].pc = "read" /\ local'[w].op = local[w].op
        /\ \A v \in Writers \ {w} : local'[v] = local[v]
        /\ UNCHANGED <<point, receipts, returned, overlapped>>
    BY <1>0, <1>13 DEF Retry, At, Locals
  <2>2. Detailed' = Detailed
    BY <2>1 DEF Detailed
  <2>3. \A op \in Ops : Everywhere(op) => Everywhere(op)'
    BY <2>1, <2>2 DEF Everywhere, Copies, Held
  <2> QED
    BY <1>1, <2>1, <2>2, <2>3
\* The end of a confirmed mutation, the receipts and the point untouched.
<1>14. ASSUME NEW w \in Writers, local[w].pc = "record", NEW outcome, Finish(w, outcome),
              UNCHANGED <<point, receipts, overlapped>>
       PROVE  DiscardInv'
  <2>1. Detailed' = Detailed
    BY <1>14 DEF Detailed
  <2>2. CASE local[w].call.kind = "close"
    <3> DEFINE copy == Reasoned(local[w].op, local[w].case)
    <3>1. /\ local'[w].pc = "close_receipt" /\ local'[w].op = local[w].op
          /\ local'[w].case = copy /\ local'[w].entry = Reason(local[w].op)
          /\ \A v \in Writers \ {w} : local'[v] = local[v]
          /\ returned' = returned
      BY <1>0, <1>14, <2>2 DEF Finish, Locals
    <3>2. local[w].case.log \subseteq copy.log /\ Reason(local[w].op).op = local[w].op
      BY <1>0 DEF Reasoned, Reason, Entry, Locals, Payloads
    <3> HIDE DEF copy
    <3>3. ASSUME NEW op \in Ops, Everywhere(op)
          PROVE  Everywhere(op)'
      <4>1. Held(op, copy.log)
        BY <1>14, <3>2, <3>3 DEF Everywhere, Copies, Held
      <4> QED
        BY <1>14, <2>1, <3>1, <3>3, <4>1, EverywhereStays DEF Everywhere, Copies
    <3>4. Alone(w) => Held(local[w].op, copy.log) /\ local[w].op \in Detailed'
                      /\ Held(local[w].op, point'.log)
      BY <1>14, <2>1, <3>2 DEF Alone, Copies, Held
    <3> QED
      BY <1>1, <1>14, <2>1, <3>1, <3>2, <3>3, <3>4
  <2>3. CASE local[w].call.kind # "close"
    <3>1. Return(w, outcome)
      BY <1>14, <2>3 DEF Finish
    <3>2. /\ local'[w].pc = "idle"
          /\ \A v \in Writers \ {w} : local'[v] = local[v]
          /\ \A r \in returned' : r \in returned \/ r.op = local[w].op
      BY <1>10, <1>14, <3>1
    <3>3. \A op \in Ops : Everywhere(op) => Everywhere(op)'
      BY <1>14, <2>1, <3>2 DEF Everywhere, Copies, Held
    <3>4. ASSUME Alone(w), NEW op \in Ops, op = local[w].op
          PROVE  Everywhere(op)'
      <4>1. Held(op, point'.log) /\ op \in Detailed'
        BY <1>14, <2>1, <3>4 DEF Alone, Copies
      <4>2. \A v \in Writers : local'[v].pc = "idle"
        BY <3>2, <3>4 DEF Alone
      <4> QED
        BY <4>1, <4>2 DEF Everywhere, Copies, Held
    <3> QED
      BY <1>1, <1>14, <2>1, <3>2, <3>3, <3>4
  <2> QED
    BY <2>2, <2>3
<1>15. ASSUME NEW w \in Writers, Record(w) \/ LoseRecord(w) PROVE DiscardInv'
  BY <1>14, <1>15 DEF Record, LoseRecord, At
<1>16. ASSUME NEW w \in Writers, Refuse(w) \/ GiveUp(w) \/ Fail(w) PROVE DiscardInv'
  <2>1. PICK outcome \in {"refused", "conflict", "failed"} : Return(w, outcome)
    BY <1>16 DEF Refuse, GiveUp, Fail
  <2>2. local[w].pc # "idle" /\ UNCHANGED <<point, receipts, overlapped>>
    BY <1>16 DEF Refuse, GiveUp, Fail, At
  <2>3. /\ local'[w].pc = "idle"
        /\ \A v \in Writers \ {w} : local'[v] = local[v]
        /\ \A r \in returned' : r \in returned \/ (r.op = local[w].op /\ r.outcome = outcome)
    BY <1>10, <2>1, <2>2
  <2>4. Detailed' = Detailed
    BY <2>2 DEF Detailed
  <2>5. \A op \in Ops : Everywhere(op) => Everywhere(op)'
    BY <2>2, <2>3, <2>4 DEF Everywhere, Copies, Held
  <2> QED
    BY <1>1, <2>1, <2>2, <2>3, <2>4, <2>5
<1>17. CASE UNCHANGED vars
  BY <1>17 DEF vars, DiscardInv, Everywhere, Alone, Copies, Held, Detailed
<1> QED
  BY <1>2, <1>4, <1>5, <1>7, <1>8, <1>9, <1>11, <1>12, <1>13, <1>15, <1>16, <1>17
  DEF Next, Step

\* Whatever races, retries, fallbacks to receipts and deaths come after it, a
\* call that ran beside no other stays in the payload: a discard takes a race.
THEOREM DiscardsTakeARace == Spec => []DiscardTakesARace
<1>1. Init => DiscardInv
  BY DEF Init, DiscardInv, Idle
<1>2. TypeInv /\ DiscardInv /\ [Next]_vars => DiscardInv'
  BY DiscardStep
<1>3. DiscardInv => DiscardTakesARace
  BY DEF DiscardInv, DiscardTakesARace, Everywhere, Held
<1> QED
  BY <1>1, <1>2, <1>3, TypeInvariance, PTL DEF Spec

----------------------------------------------------------------------------
\* SpineIntegrity: the types, and the inductive invariant.

Places == Docs \cup {NoPoint}

Events == {"", "write", "reconcile_healed", "payload_reattested", "case_archived"}

Lines == [v : 0..2, half : BOOLEAN, seq : Nat, prev : Nat, hash : Nat, intact : BOOLEAN,
          event : Events, digest : Places, att : {"", "write", "reattest"}]

Tails == [seq : Nat, hash : Nat]

JobOps == {"none", "write", "reconcile", "reattest", "archive", "reset"}

JobPcs == {"rest", "sign", "put", "index", "rebuild", "heal", "attest", "reread", "compare",
           "report", "scan", "measure", "judge", "tombstone", "dump", "delete", "purge",
           "rewrite"}

Tellings == {"", "untrusted", "unattested", "drifted", "write", "reattest"}

Jobs == [op : JobOps, pc : JobPcs, raced : BOOLEAN, doc : Places, seen : Places,
         stale : BOOLEAN, told : Tellings, receipts : Seq(Lines), resolve : BOOLEAN]

IntegrityTyped ==
  /\ log \in Seq(Lines)
  /\ stored \in Places
  /\ tail \in [Procs -> Tails \cup {NoTail}]
  /\ dump \subseteq Docs
  /\ job \in [Procs -> Jobs]
  /\ spent \in [DOMAIN Bounds -> Nat]

\* Only what does not parse lacks a newline, what is signed has a digest, and what is
\* signed as written is a writer's document or the archiver's.
Honest(r) ==
  r.v # 0 => /\ ~ r.half
             /\ r.v = 2 => r.digest \in Docs
             /\ r.att = "write" => r.digest \in Docs /\ r.digest.hand \in {"writer", "archiver"}

\* The documents a process holds are of the hands that make them.
Shaped(p) ==
  /\ Resting(p) <=> job[p].op = "none"
  /\ job[p].op = "write" => job[p].doc \in Docs /\ job[p].doc.hand = "writer"
  /\ job[p].op = "archive" => job[p].doc \in Docs
  /\ Doing(p, "reattest", "sign") => job[p].doc \in Docs
  /\ job[p].pc = "attest" => job[p].op = "reconcile"
  /\ job[p].op = "reconcile" /\ job[p].pc \in {"heal", "attest"} =>
       job[p].doc \in Docs /\ job[p].doc.hand = "receipts"
  /\ job[p].op = "reconcile" /\ job[p].pc \in {"rebuild", "heal"} => job[p].seen = NoPoint
  /\ job[p].op = "reconcile" /\ job[p].pc \in {"compare", "report"} => job[p].seen \in Docs
  /\ job[p].seen \in Docs => job[p].seen.hand # "archiver"
  /\ Doing(p, "reconcile", "report") /\ job[p].told = "write" => job[p].seen.hand = "writer"

ShapeInv ==
  /\ IntegrityTyped
  /\ \A i \in DOMAIN log : Honest(log[i])
  /\ stored \in Docs => stored.hand # "archiver"
  /\ \A p \in Procs : Shaped(p)

----------------------------------------------------------------------------
\* The chain.

Broken == {"edited", "torn", "reset", "shared"}

\* While nothing has broken the chain it holds, and a process that knows a tail knows the
\* tail.
ChainInv ==
  wounds \cap Broken = {} =>
    /\ ChainOk(log)
    /\ \A p \in Procs : tail[p] = NoTail \/ tail[p] = TailOf(log)

----------------------------------------------------------------------------
\* What is retired.

\* Between the scan and the heal of a reconcile that nobody overtook, the point stays away;
\* an archiver that is about to write the tombstone has the point; so no tombstone comes
\* between the reading of the receipts and the heal.
HealInv ==
  /\ "archivers" \notin wounds =>
       \A p, q \in Procs : job[p].op = "archive" /\ job[q].op = "archive" => p = q
  /\ wounds \cap {"gone", "archivers"} = {} =>
       \A p \in Procs : Doing(p, "archive", "judge") \/ Doing(p, "archive", "tombstone") => stored # NoPoint
  /\ \A p \in Procs :
       job[p].op = "reconcile" /\ job[p].pc \in {"index", "rebuild", "heal"} /\ ~ job[p].stale
         /\ job[p].seen = NoPoint => stored = NoPoint
  /\ wounds \cap {"gone", "archivers"} = {} =>
       \A p \in Procs :
         job[p].op = "reconcile" /\ job[p].pc \in {"rebuild", "heal"} /\ ~ job[p].stale =>
           ~ Retired(log)

----------------------------------------------------------------------------
\* What reconcile reports.

Writing(p) == job[p].op \notin {"none", "reconcile"} \/ job[p].pc = "attest"

\* Operations that overlap know it, and two that write leave a wound.
OverlapInv ==
  /\ \A p, q \in Procs : p # q /\ ~ Resting(p) /\ ~ Resting(q) => job[p].raced
  /\ "race" \notin wounds => \A p, q \in Procs : Writing(p) /\ Writing(q) => p = q

Calm == wounds \cap {"outside", "undone", "legacy", "torn", "race"} = {}

\* The last line signs the document, or is the tombstone; or nothing was ever signed.
Agrees(doc) ==
  \/ Chained(log) = {} \/ doc = NoPoint
  \/ log[Len(log)].digest = doc \/ log[Len(log)].event = "case_archived"

\* Every line parses, and the last is signed once any is.
WholeFile == /\ \A i \in DOMAIN log : log[i].v # 0
             /\ Chained(log) = {} \/ log[Len(log)].v = 2

\* A document and its receipt are on their way, one after the other.
Pending(p) == Doing(p, "write", "put") \/ Doing(p, "reconcile", "attest")

\* What a process is about to put was signed; what it is about to sign is stored.
Holding(p) ==
  /\ Doing(p, "write", "put") => log # <<>> /\ log[Len(log)].digest = job[p].doc
  /\ Doing(p, "reconcile", "attest") \/ Doing(p, "reattest", "sign") =>
       stored \in {NoPoint, job[p].doc}

\* A reconcile that was alone compares what the last line speaks of.
Scanned(p) ==
  job[p].op = "reconcile" /\ ~ job[p].raced =>
    /\ job[p].pc \in {"index", "compare"} => Agrees(job[p].seen)
    /\ job[p].pc \in {"reread", "compare"} => ~ Retired(log)

Earned(p) ==
  Doing(p, "reconcile", "report") /\ job[p].told = "drifted" => job[p].raced \/ ~ Calm

DriftInv ==
  /\ Calm => /\ WholeFile
             /\ \A p \in Procs : Holding(p) /\ Scanned(p)
             /\ (\A p \in Procs : ~ Pending(p)) => Agrees(stored)
  /\ \A p \in Procs : Earned(p)

----------------------------------------------------------------------------
\* The file.

\* The largest of some places of a file.
LEMMA MaxOf ==
  ASSUME NEW n \in Nat, NEW S, S \subseteq 1..n, S # {}
  PROVE  Max(S) \in S /\ \A i \in S : i <= Max(S)
<1>1. S \in SUBSET Nat /\ \A i \in S : i <= n
  OBVIOUS
<1>2. \E m \in S : \A i \in S : m >= i
  BY <1>1, LargestExists
<1> QED
  BY <1>1, <1>2 DEF Max

LEMMA MaxIsLast ==
  ASSUME NEW n \in Nat, NEW S, S \subseteq 1..n, n \in S
  PROVE  Max(S) = n
<1>1. Max(S) \in S /\ \A i \in S : i <= Max(S)
  BY MaxOf
<1>2. Max(S) \in 1..n
  BY <1>1
<1>3. n <= Max(S)
  BY <1>1
<1> HIDE DEF Max
<1> QED
  BY <1>2, <1>3

LEMMA UnreadableLine ==
  ASSUME NEW half \in BOOLEAN
  PROVE  Unreadable(half) \in Lines /\ Unreadable(half).v = 0 /\ Unreadable(half).half = half
<1>1. Line(0, "", NoPoint, "") \in Lines /\ Line(0, "", NoPoint, "").v = 0
  BY DEF Line, Lines, Events, Places
<1> QED
  BY <1>1 DEF Unreadable, Lines

\* A file that is another with one more line.
Grown(l, m, r) ==
  /\ m \in Seq(Lines) /\ Len(m) = Len(l) + 1 /\ m[Len(m)] = r
  /\ \A i \in 1..Len(l) : m[i] = l[i]

\* A file whose lines, one by one, say what those of another say, sound or not.
Alike(l, m) ==
  /\ m \in Seq(Lines) /\ Len(m) = Len(l)
  /\ \A i \in 1..Len(l) :
       /\ m[i].v = l[i].v
       /\ l[i].v # 0 => m[i].event = l[i].event /\ m[i].digest = l[i].digest /\ m[i].att = l[i].att

LEMMA Appending ==
  ASSUME NEW l \in Seq(Lines), NEW r \in Lines, \A i \in DOMAIN l : Honest(l[i])
  PROVE  /\ ~ EndsHalf(l) => Grown(l, AppendLine(l, r), r)
         /\ EndsHalf(l) => /\ Alike(l, AppendLine(l, r))
                           /\ \A i \in 1..Len(l) :
                                AppendLine(l, r)[i] \in {l[i], Unreadable(FALSE)}
<1>1. Len(l) \in Nat /\ DOMAIN l = 1..Len(l)
  BY LenProperties
<1>2. CASE ~ EndsHalf(l)
  <2>1. AppendLine(l, r) = Append(l, r)
    BY <1>2 DEF AppendLine
  <2> QED
    BY <1>2, <2>1, <1>1, AppendProperties DEF Grown
<1>3. CASE EndsHalf(l)
  <2> DEFINE m == AppendLine(l, r)
  <2>1. Unreadable(FALSE) \in Lines /\ Unreadable(FALSE).v = 0
    BY UnreadableLine
  <2>2. m = [l EXCEPT ![Len(l)] = Unreadable(FALSE)]
    BY <1>3 DEF AppendLine
  <2>3. l # <<>> /\ l[Len(l)].half
    BY <1>3 DEF EndsHalf, Last
  <2>4. Len(l) \in 1..Len(l)
    BY <2>3, EmptySeq, <1>1
  <2>5. m \in Seq(Lines) /\ Len(m) = Len(l)
        /\ \A i \in 1..Len(l) : m[i] = IF i = Len(l) THEN Unreadable(FALSE) ELSE l[i]
    <3> DEFINE e == Unreadable(FALSE)
               n == Len(l)
    <3>1. e \in Lines /\ n \in 1..Len(l)
      BY <2>1, <2>4
    <3> HIDE DEF e, n
    <3>2. /\ [l EXCEPT ![n] = e] \in Seq(Lines)
          /\ Len([l EXCEPT ![n] = e]) = Len(l)
          /\ \A j \in 1..Len(l) : [l EXCEPT ![n] = e][j] = IF j = n THEN e ELSE l[j]
      BY <3>1, ExceptSeq
    <3> QED
      BY <2>2, <3>2 DEF e, n
  <2>6. l[Len(l)].v = 0 /\ l[Len(l)] \in Lines
    BY <1>1, <2>3, <2>4, ElementOfSeq DEF Honest
  <2> HIDE DEF m
  <2>7. \A i \in 1..Len(l) : m[i].v = l[i].v /\ (l[i].v # 0 => m[i] = l[i])
    BY <2>1, <2>5, <2>6
  <2>8. Alike(l, m)
    BY <2>5, <2>7 DEF Alike
  <2>9. \A i \in 1..Len(l) : m[i] \in {l[i], Unreadable(FALSE)}
    BY <2>5
  <2> QED
    BY <1>3, <2>8, <2>9 DEF m
<1> QED
  BY <1>2, <1>3

\* The tail before a place is what the lines before it make it.
LEMMA TailBeforeSame ==
  ASSUME NEW l \in Seq(Lines), NEW m \in Seq(Lines), NEW n \in Nat,
         n <= Len(l) + 1, n <= Len(m) + 1, \A i \in 1..(n - 1) : m[i] = l[i]
  PROVE  TailBefore(m, n) = TailBefore(l, n)
<1>1. /\ Len(l) \in Nat /\ DOMAIN l = 1..Len(l)
      /\ Len(m) \in Nat /\ DOMAIN m = 1..Len(m)
  BY LenProperties
<1> DEFINE c == {i \in Chained(l) : i < n}
           d == {i \in Chained(m) : i < n}
<1>2. c = d /\ c \subseteq 1..Len(l) /\ \A i \in c : i \in 1..(n - 1)
  BY <1>1 DEF Chained
<1>3. c # {} => l[Max(c)] = m[Max(c)]
  BY <1>1, <1>2, MaxOf
<1> QED
  BY <1>2, <1>3 DEF TailBefore

\* A signed line becomes the tail, any other leaves it.
LEMMA TailGrown ==
  ASSUME NEW l \in Seq(Lines), NEW m, NEW r \in Lines, Grown(l, m, r)
  PROVE  /\ r.v = 2 => TailOf(m) = [seq |-> r.seq, hash |-> r.hash]
         /\ r.v # 2 => TailOf(m) = TailOf(l)
         /\ \A i \in 1..Len(m) : TailBefore(m, i) = TailBefore(l, i)
<1>1. /\ Len(l) \in Nat /\ DOMAIN l = 1..Len(l) /\ m \in Seq(Lines)
      /\ Len(m) = Len(l) + 1 /\ DOMAIN m = 1..(Len(l) + 1)
  BY LenProperties DEF Grown
<1>2. \A i \in 1..Len(m) : TailBefore(m, i) = TailBefore(l, i)
  BY <1>1, TailBeforeSame DEF Grown
<1> DEFINE c == {i \in Chained(l) : i < Len(l) + 1}
           d == {i \in Chained(m) : i < Len(m) + 1}
<1>3. CASE r.v = 2
  <2>1. Len(m) \in d /\ d \subseteq 1..Len(m)
    BY <1>1, <1>3 DEF Chained, Grown
  <2>2. Max(d) = Len(m)
    BY <1>1, <2>1, MaxIsLast
  <2>3. m[Max(d)] = r
    BY <2>2 DEF Grown
  <2> QED
    BY <1>2, <1>3, <2>1, <2>3 DEF TailOf, TailBefore
<1>4. CASE r.v # 2
  <2>1. c = d /\ c \subseteq 1..Len(l)
    BY <1>1, <1>4 DEF Chained, Grown
  <2>2. c # {} => l[Max(c)] = m[Max(c)]
    BY <1>1, <2>1, MaxOf DEF Grown
  <2> HIDE DEF c, d
  <2>3. TailBefore(m, Len(m) + 1) = IF d = {} THEN Genesis ELSE [seq |-> m[Max(d)].seq, hash |-> m[Max(d)].hash]
    BY DEF TailBefore, d
  <2>4. TailBefore(l, Len(l) + 1) = IF c = {} THEN Genesis ELSE [seq |-> l[Max(c)].seq, hash |-> l[Max(c)].hash]
    BY DEF TailBefore, c
  <2> QED
    BY <1>2, <1>4, <2>1, <2>2, <2>3, <2>4 DEF TailOf
<1> QED
  BY <1>3, <1>4

\* The last readable line decides whether the case is retired.
LEMMA RetiredGrown ==
  ASSUME NEW l \in Seq(Lines), NEW m, NEW r \in Lines, Grown(l, m, r)
  PROVE  Retired(m) <=> IF r.v = 0 THEN Retired(l) ELSE r.event = "case_archived"
<1>1. /\ Len(l) \in Nat /\ DOMAIN l = 1..Len(l) /\ m \in Seq(Lines)
      /\ Len(m) = Len(l) + 1 /\ DOMAIN m = 1..(Len(l) + 1)
  BY LenProperties DEF Grown
<1>2. CASE r.v # 0
  <2>1. Len(m) \in Readable(m) /\ Readable(m) \subseteq 1..Len(m)
    BY <1>1, <1>2 DEF Readable, Grown
  <2>2. Max(Readable(m)) = Len(m)
    BY <1>1, <2>1, MaxIsLast
  <2> QED
    BY <1>2, <2>1, <2>2 DEF Retired, Known, Grown
<1>3. CASE r.v = 0
  <2>1. Readable(m) = Readable(l) /\ Readable(l) \subseteq 1..Len(l)
    BY <1>1, <1>3 DEF Readable, Grown
  <2>2. Readable(l) # {} => l[Max(Readable(l))] = m[Max(Readable(l))]
    BY <1>1, <2>1, MaxOf DEF Grown
  <2> QED
    BY <1>3, <2>1, <2>2 DEF Retired, Known
<1> QED
  BY <1>2, <1>3

LEMMA RetiredAlike ==
  ASSUME NEW l \in Seq(Lines), NEW m, Alike(l, m)
  PROVE  Retired(m) <=> Retired(l)
<1>1. /\ Len(l) \in Nat /\ DOMAIN l = 1..Len(l) /\ m \in Seq(Lines)
      /\ Len(m) = Len(l) /\ DOMAIN m = 1..Len(l)
  BY LenProperties DEF Alike
<1>2. Readable(m) = Readable(l) /\ Readable(l) \subseteq 1..Len(l)
  BY <1>1 DEF Readable, Alike
<1>3. Readable(l) # {} => l[Max(Readable(l))].event = m[Max(Readable(l))].event
  BY <1>1, <1>2, MaxOf DEF Alike, Readable
<1> QED
  BY <1>2, <1>3 DEF Retired, Known

\* In a file that parses, the last line is the one that counts.
LEMMA LastCounts ==
  ASSUME NEW l \in Seq(Lines), \A i \in DOMAIN l : l[i].v # 0
  PROVE  /\ l # <<>> => (Retired(l) <=> l[Len(l)].event = "case_archived")
         /\ l = <<>> => ~ Known(l)
         /\ Chained(l) # {} => l # <<>> /\ Len(l) \in 1..Len(l)
         /\ Chained(l) # {} /\ l[Len(l)].v = 2 /\ ~ Untrusted(l) => Attested(l) = l[Len(l)]
<1>1. /\ Len(l) \in Nat /\ DOMAIN l = 1..Len(l) /\ (l # <<>> => Len(l) # 0)
  BY LenProperties, EmptySeq
<1>2. l = <<>> => Len(l) = 0
  BY EmptySeq
<1>3. Readable(l) = 1..Len(l) /\ Chained(l) \subseteq 1..Len(l)
  BY <1>1 DEF Readable, Chained
<1>4. ASSUME l # <<>> PROVE Retired(l) <=> l[Len(l)].event = "case_archived"
  <2>1. Len(l) \in 1..Len(l)
    BY <1>1, <1>4
  <2>2. Max(1..Len(l)) = Len(l)
    BY <1>1, <2>1, MaxIsLast
  <2> QED
    BY <1>3, <2>1, <2>2 DEF Retired, Known
<1>5. ASSUME Chained(l) # {} PROVE l # <<>> /\ Len(l) \in 1..Len(l)
  BY <1>1, <1>2, <1>3, <1>5
<1>6. ASSUME Chained(l) # {}, l[Len(l)].v = 2, ~ Untrusted(l) PROVE Attested(l) = l[Len(l)]
  <2>1. Len(l) \in Chained(l)
    BY <1>1, <1>5, <1>6 DEF Chained
  <2>2. Max(Chained(l)) = Len(l)
    BY <1>1, <1>3, <2>1, MaxOf
  <2> QED
    BY <1>6, <2>2 DEF Attested
<1> QED
  BY <1>1, <1>2, <1>3, <1>4, <1>5, <1>6 DEF Known

\* A line is written to a file of honest lines.
LEMMA FileKept ==
  ASSUME ShapeInv, NEW m \in Lines, Honest(m), log' = AppendLine(log, m)
  PROVE  log' \in Seq(Lines) /\ \A i \in DOMAIN log' : Honest(log'[i])
<1>1. log \in Seq(Lines) /\ \A i \in DOMAIN log : Honest(log[i])
  BY DEF ShapeInv, IntegrityTyped
<1>2. Len(log) \in Nat /\ DOMAIN log = 1..Len(log)
  BY <1>1, LenProperties
<1>3. CASE ~ EndsHalf(log)
  <2>1. Grown(log, log', m)
    BY <1>1, <1>3, Appending
  <2>2. DOMAIN log' = 1..(Len(log) + 1)
    BY <2>1, LenProperties DEF Grown
  <2>3. ASSUME NEW i \in DOMAIN log' PROVE Honest(log'[i])
    <3>1. i \in 1..Len(log) \/ i = Len(log')
      BY <1>2, <2>1, <2>2 DEF Grown
    <3>2. log'[i] = m \/ (i \in DOMAIN log /\ log'[i] = log[i])
      BY <1>2, <2>1, <3>1 DEF Grown
    <3> QED
      BY <1>1, <3>2
  <2> QED
    BY <2>1, <2>3 DEF Grown
<1>4. CASE EndsHalf(log)
  <2>1. Alike(log, log') /\ \A i \in 1..Len(log) : log'[i] \in {log[i], Unreadable(FALSE)}
    BY <1>1, <1>4, Appending
  <2>2. DOMAIN log' = 1..Len(log)
    BY <2>1, LenProperties DEF Alike
  <2>3. Honest(Unreadable(FALSE))
    BY UnreadableLine DEF Honest
  <2> QED
    BY <1>1, <1>2, <2>1, <2>2, <2>3 DEF Alike
<1> QED
  BY <1>3, <1>4

\* A line that says what another says, signed or not.
Says(m, r) ==
  /\ m \in Lines /\ ~ m.half /\ m.v \in {1, 2}
  /\ m.event = r.event /\ m.digest = r.digest /\ m.att = r.att /\ m.intact = r.intact

\* A receipt reaches the file as a signed record, or as a legacy line.
Written(p, m) ==
  /\ log' = AppendLine(log, m) /\ wounds \subseteq wounds'
  /\ m.v = 1 => "legacy" \in wounds' /\ tail' = tail
  /\ m.v = 2 =>
       LET t == IF tail[p] = NoTail THEN TailOf(log) ELSE tail[p] IN
         /\ EndsHalf(log) => "torn" \in wounds'
         /\ (\E q \in Procs \ {p} : tail[q] # NoTail) => "shared" \in wounds'
         /\ m.seq = t.seq + 1 /\ m.prev = t.hash
         /\ tail' = [tail EXCEPT ![p] = [seq |-> m.seq, hash |-> m.hash]]

SpentTyped == spent' \in [DOMAIN Bounds -> Nat]

LEMMA SpendTyped ==
  ASSUME ShapeInv, NEW bs, Spend(bs)
  PROVE  SpentTyped
<1>1. \A b \in DOMAIN Bounds : spent[b] \in Nat
  BY DEF ShapeInv, IntegrityTyped
<1> QED
  BY <1>1 DEF Spend, SpentTyped

LEMMA TailTyped ==
  ASSUME ShapeInv
  PROVE  /\ TailOf(log) \in Tails
         /\ LineNo(log) \in Nat
         /\ \A p \in Procs : tail[p] # NoTail => tail[p] \in Tails
<1>1. log \in Seq(Lines) /\ \A i \in DOMAIN log : Honest(log[i])
  BY DEF ShapeInv, IntegrityTyped
<1>2. Len(log) \in Nat /\ DOMAIN log = 1..Len(log) /\ \A i \in 1..Len(log) : log[i] \in Lines
  BY <1>1, LenProperties, ElementOfSeq
<1> DEFINE c == {i \in Chained(log) : i < Len(log) + 1}
<1>3. c \subseteq 1..Len(log)
  BY <1>2 DEF Chained
<1>4. c # {} => log[Max(c)] \in Lines
  BY <1>2, <1>3, MaxOf
<1>5. c # {} => [seq |-> log[Max(c)].seq, hash |-> log[Max(c)].hash] \in Tails
  BY <1>4 DEF Lines, Tails
<1>6. Genesis \in Tails
  BY DEF Genesis, Tails
<1>7. TailOf(log) \in Tails
  BY <1>5, <1>6 DEF TailOf, TailBefore
<1>8. LineNo(log) \in Nat
  <2>1. Unreadable(FALSE) \in Lines
    BY UnreadableLine
  <2>2. Len(AppendLine(log, Unreadable(FALSE))) \in {Len(log), Len(log) + 1}
    BY <1>1, <2>1, Appending DEF Grown, Alike
  <2>3. LineNo(log) = Len(AppendLine(log, Unreadable(FALSE)))
    BY DEF LineNo
  <2>4. LineNo(log) \in {Len(log), Len(log) + 1}
    BY <2>2, <2>3
  <2> QED
    BY <1>2, <2>4
<1> QED
  BY <1>7, <1>8 DEF ShapeInv, IntegrityTyped

LEMMA LegacyLine ==
  ASSUME NEW r \in Lines
  PROVE  LET old == [r EXCEPT !.v = 1] IN
         /\ old \in Lines /\ old.v = 1 /\ old.half = r.half /\ old.event = r.event
         /\ old.digest = r.digest /\ old.att = r.att /\ old.intact = r.intact
<1> DEFINE one == 1
<1>1. one \in 0..2
  OBVIOUS
<1> HIDE DEF one
<1>2. [r EXCEPT !.v = one] \in Lines
  BY <1>1 DEF Lines
<1>3. [r EXCEPT !.v = 1] \in Lines
  BY <1>2 DEF one
<1> QED
  BY <1>3 DEF Lines

LEMMA ReceiptWritten ==
  ASSUME ShapeInv, NEW p \in Procs, NEW r \in Lines, r.v = 2, ~ r.half, Honest(r),
         PutReceipt(p, r)
  PROVE  /\ \E m \in Lines : Says(m, r) /\ Written(p, m)
         /\ log' \in Seq(Lines) /\ \A i \in DOMAIN log' : Honest(log'[i])
         /\ tail' \in [Procs -> Tails \cup {NoTail}]
         /\ SpentTyped
<1> DEFINE t == IF tail[p] = NoTail THEN TailOf(log) ELSE tail[p]
           rec == [r EXCEPT !.v = 2, !.seq = t.seq + 1, !.prev = t.hash, !.hash = LineNo(log)]
           old == [r EXCEPT !.v = 1]
<1>1. t \in Tails /\ t.seq \in Nat /\ t.hash \in Nat /\ LineNo(log) \in Nat
  <2>1. t \in Tails
    BY TailTyped
  <2> QED
    BY <2>1, TailTyped DEF Tails
<1>2. tail \in [Procs -> Tails \cup {NoTail}] /\ spent \in [DOMAIN Bounds -> Nat]
  BY DEF ShapeInv, IntegrityTyped
<1>3. ASSUME Signed(p, r),
             Harm((IF \E q \in Procs \ {p} : tail[q] # NoTail THEN {"shared"} ELSE {})
                     \cup (IF EndsHalf(log) THEN {"torn"} ELSE {})),
             UNCHANGED spent
      PROVE  /\ \E m \in Lines : Says(m, r) /\ Honest(m) /\ Written(p, m)
             /\ tail' \in [Procs -> Tails \cup {NoTail}] /\ SpentTyped
  <2> HIDE DEF t
  <2>1. /\ rec \in Lines /\ rec.v = 2 /\ ~ rec.half /\ rec.event = r.event
        /\ rec.digest = r.digest /\ rec.att = r.att /\ rec.intact = r.intact
        /\ rec.seq = t.seq + 1 /\ rec.prev = t.hash
    <3> DEFINE hash == LineNo(log)
               seq == t.seq + 1
               prev == t.hash
    <3>1. hash \in Nat /\ seq \in Nat /\ prev \in Nat
      BY <1>1
    <3> HIDE DEF hash, seq, prev
    <3>2. rec = [r EXCEPT !.v = 2, !.seq = seq, !.prev = prev, !.hash = hash]
      BY DEF hash, seq, prev
    <3>3. [r EXCEPT !.v = 2, !.seq = seq, !.prev = prev, !.hash = hash] \in Lines
      BY <3>1 DEF Lines
    <3>4. /\ rec.v = 2 /\ rec.half = r.half /\ rec.event = r.event
          /\ rec.digest = r.digest /\ rec.att = r.att /\ rec.intact = r.intact
          /\ rec.seq = seq /\ rec.prev = prev
      BY <3>2 DEF Lines
    <3> QED
      BY <3>2, <3>3, <3>4 DEF seq, prev
  <2>2. log' = AppendLine(log, rec) /\ tail' = [tail EXCEPT ![p] = [seq |-> rec.seq, hash |-> rec.hash]]
    BY <1>3 DEF Signed, t
  <2>3. [seq |-> rec.seq, hash |-> rec.hash] \in Tails
    BY <2>1 DEF Lines, Tails
  <2> HIDE DEF rec
  <2>4. Says(rec, r) /\ Honest(rec)
    BY <2>1 DEF Says, Honest
  <2>5. Written(p, rec)
    BY <1>3, <2>1, <2>2 DEF Written, Harm, t
  <2>6. tail' \in [Procs -> Tails \cup {NoTail}]
    BY <1>2, <2>2, <2>3
  <2> QED
    BY <1>2, <1>3, <2>1, <2>4, <2>5, <2>6 DEF SpentTyped
<1>4. ASSUME Spend({"faults"}), Harm({"legacy"}), log' = AppendLine(log, old), UNCHANGED tail
      PROVE  /\ \E m \in Lines : Says(m, r) /\ Honest(m) /\ Written(p, m)
             /\ tail' \in [Procs -> Tails \cup {NoTail}] /\ SpentTyped
  <2>1. /\ old \in Lines /\ old.v = 1 /\ ~ old.half /\ old.event = r.event
        /\ old.digest = r.digest /\ old.att = r.att /\ old.intact = r.intact
    BY LegacyLine
  <2> HIDE DEF old
  <2>2. Says(old, r) /\ Honest(old)
    BY <2>1 DEF Says, Honest
  <2>3. Written(p, old)
    BY <1>4, <2>1 DEF Written, Harm
  <2> QED
    BY <1>2, <1>4, <2>1, <2>2, <2>3, SpendTyped
<1>5. /\ \E m \in Lines : Says(m, r) /\ Honest(m) /\ Written(p, m)
      /\ tail' \in [Procs -> Tails \cup {NoTail}] /\ SpentTyped
  BY <1>3, <1>4 DEF PutReceipt
<1>6. log' \in Seq(Lines) /\ \A i \in DOMAIN log' : Honest(log'[i])
  BY <1>5, FileKept DEF Written
<1> QED
  BY <1>5, <1>6

----------------------------------------------------------------------------
\* The processes, as an action leaves them.

Others(p) == \A q \in Procs \ {p} : job'[q] = job[q]

\* A process goes on with what it holds.
Turned(p, pc) ==
  /\ job' \in [Procs -> Jobs] /\ Others(p)
  /\ job'[p].op = job[p].op /\ job'[p].pc = pc /\ job'[p].raced = job[p].raced
  /\ job'[p].doc = job[p].doc /\ job'[p].seen = job[p].seen /\ job'[p].stale = job[p].stale
  /\ job'[p].told = job[p].told

Rested(p) == job' \in [Procs -> Jobs] /\ Others(p) /\ job'[p] = Rest

\* An operation begins.
Begun(p, op, pc) ==
  /\ job' \in [Procs -> Jobs]
  /\ job'[p].op = op /\ job'[p].pc = pc
  /\ job'[p].raced <=> \E q \in Procs : ~ Resting(q)
  /\ \A q \in Procs \ {p} :
       /\ job'[q].op = job[q].op /\ job'[q].pc = job[q].pc /\ job'[q].doc = job[q].doc
       /\ job'[q].seen = job[q].seen /\ job'[q].stale = job[q].stale /\ job'[q].told = job[q].told
       /\ job[q].raced => job'[q].raced
       /\ ~ Resting(q) => job'[q].raced
  /\ wounds \subseteq wounds'
  /\ op # "reconcile" /\ (\E q \in Procs : job[q].op \notin {"none", "reconcile"} \/ job[q].pc = "attest") =>
       "race" \in wounds'
  /\ op = "archive" /\ (\E q \in Procs : job[q].op = "archive") => "archivers" \in wounds'

\* The point is put, and the reconciles of the others are overtaken.
Overtaken(p) ==
  /\ job' \in [Procs -> Jobs]
  /\ \A q \in Procs \ {p} :
       /\ job'[q].op = job[q].op /\ job'[q].pc = job[q].pc /\ job'[q].doc = job[q].doc
       /\ job'[q].seen = job[q].seen /\ job'[q].told = job[q].told /\ job'[q].raced = job[q].raced
       /\ job[q].op = "reconcile" => job'[q].stale

LEMMA RestTyped == Rest \in Jobs
<1>1. <<>> \in Seq(Lines)
  BY EmptySeq
<1> QED
  BY <1>1 DEF Rest, Jobs, JobOps, JobPcs, Tellings, Places

LEMMA RestFacts ==
  /\ Rest.op = "none" /\ Rest.pc = "rest" /\ Rest.raced = FALSE /\ Rest.doc = NoPoint
  /\ Rest.seen = NoPoint /\ Rest.stale = FALSE /\ Rest.told = ""
BY DEF Rest

LEMMA JobTyped == ASSUME ShapeInv PROVE job \in [Procs -> Jobs] /\ \A p \in Procs : job[p] \in Jobs
BY DEF ShapeInv, IntegrityTyped

LEMMA Goings ==
  ASSUME ShapeInv, NEW p \in Procs, NEW state \in Jobs, Goes(p, state)
  PROVE  job' \in [Procs -> Jobs] /\ Others(p) /\ job'[p] = state
BY JobTyped DEF Goes, Others

LEMMA Turning ==
  ASSUME ShapeInv, NEW p \in Procs, NEW pc \in JobPcs, Goes(p, [job[p] EXCEPT !.pc = pc])
  PROVE  Turned(p, pc)
<1> DEFINE j == job[p]
<1>1. j \in Jobs
  BY JobTyped
<1>2. [j EXCEPT !.pc = pc] \in Jobs
  BY <1>1 DEF Jobs
<1>3. LET k == [j EXCEPT !.pc = pc] IN
        /\ k.op = j.op /\ k.pc = pc /\ k.raced = j.raced /\ k.doc = j.doc /\ k.seen = j.seen
        /\ k.stale = j.stale /\ k.told = j.told
  BY <1>1 DEF Jobs
<1>4. job' \in [Procs -> Jobs] /\ Others(p) /\ job'[p] = [j EXCEPT !.pc = pc]
  BY <1>2, Goings
<1> QED
  BY <1>3, <1>4 DEF Turned

LEMMA Rests ==
  ASSUME ShapeInv, NEW p \in Procs, Goes(p, Rest)
  PROVE  Rested(p)
BY RestTyped, Goings DEF Rested

\* A fresh operation, which holds a document or not.
LEMMA Fresh ==
  ASSUME NEW op \in JobOps, NEW pc \in JobPcs
  PROVE  /\ Starts(op, pc) \in Jobs /\ Starts(op, pc).op = op /\ Starts(op, pc).pc = pc
         /\ Starts(op, pc).raced = FALSE /\ Starts(op, pc).doc = NoPoint
         /\ Starts(op, pc).seen = NoPoint /\ Starts(op, pc).stale = FALSE
         /\ Starts(op, pc).told = ""
<1>1. Starts(op, pc) \in Jobs
  BY RestTyped DEF Starts, Jobs
<1> QED
  BY <1>1, RestTyped, RestFacts DEF Starts, Jobs

LEMMA Raced ==
  ASSUME NEW j \in Jobs, NEW raced \in BOOLEAN
  PROVE  LET k == [j EXCEPT !.raced = raced] IN
           /\ k \in Jobs /\ k.op = j.op /\ k.pc = j.pc /\ k.raced = raced /\ k.doc = j.doc
           /\ k.seen = j.seen /\ k.stale = j.stale /\ k.told = j.told
<1>1. [j EXCEPT !.raced = raced] \in Jobs
  BY DEF Jobs
<1> QED
  BY <1>1 DEF Jobs

LEMMA Beginning ==
  ASSUME ShapeInv, NEW p \in Procs, NEW state \in Jobs, Resting(p), Begins(p, state)
  PROVE  /\ Begun(p, state.op, state.pc)
         /\ job'[p].doc = state.doc /\ job'[p].seen = state.seen /\ job'[p].stale = state.stale
         /\ job'[p].told = state.told
<1> DEFINE busy == {q \in Procs : ~ Resting(q)}
           mine == [state EXCEPT !.raced = busy # {}]
<1>1. (busy # {}) \in BOOLEAN
  OBVIOUS
<1>2. /\ mine \in Jobs /\ mine.op = state.op /\ mine.pc = state.pc /\ (mine.raced <=> busy # {})
      /\ mine.doc = state.doc /\ mine.seen = state.seen /\ mine.stale = state.stale
      /\ mine.told = state.told
  BY <1>1, Raced
<1>3. \A q \in Procs : job[q] \in Jobs
  BY JobTyped
<1>4. job' = [q \in Procs |-> IF q = p THEN mine
                              ELSE IF q \in busy THEN [job[q] EXCEPT !.raced = TRUE] ELSE job[q]]
  BY DEF Begins
<1>5. \A q \in Procs : LET k == [job[q] EXCEPT !.raced = TRUE] IN
           /\ k \in Jobs /\ k.op = job[q].op /\ k.pc = job[q].pc /\ k.raced = TRUE
           /\ k.doc = job[q].doc /\ k.seen = job[q].seen /\ k.stale = job[q].stale
           /\ k.told = job[q].told
  BY <1>3, Raced
<1> HIDE DEF mine
<1>6. \A q \in Procs \ {p} :
       /\ job'[q] \in Jobs
       /\ job'[q].op = job[q].op /\ job'[q].pc = job[q].pc /\ job'[q].doc = job[q].doc
       /\ job'[q].seen = job[q].seen /\ job'[q].stale = job[q].stale /\ job'[q].told = job[q].told
       /\ job[q].raced => job'[q].raced
       /\ ~ Resting(q) => job'[q].raced
  <2> TAKE q \in Procs \ {p}
  <2>1. CASE q \in busy
    <3>1. job'[q] = [job[q] EXCEPT !.raced = TRUE]
      BY <1>4, <2>1
    <3> QED
      BY <1>5, <3>1
  <2>2. CASE q \notin busy
    <3>1. job'[q] = job[q]
      BY <1>4, <2>2
    <3> QED
      BY <1>3, <2>2, <3>1
  <2> QED
    BY <2>1, <2>2
<1>7. job'[p] = mine
  BY <1>4
<1>8. job' \in [Procs -> Jobs]
  <2>1. job' = [q \in Procs |-> job'[q]]
    BY <1>4
  <2> QED
    BY <1>2, <1>6, <1>7, <2>1
<1>9. wounds' = wounds \cup {w \in {"race", "archivers"} :
         IF w = "race"
         THEN state.op # "reconcile" /\ \E q \in busy : job[q].op # "reconcile" \/ job[q].pc = "attest"
         ELSE state.op = "archive" /\ \E q \in busy : job[q].op = "archive"}
  BY DEF Begins
<1>10. \A q \in Procs : job[q].op \notin {"none", "reconcile"} \/ job[q].pc = "attest" \/ job[q].op = "archive" =>
          q \in busy
  BY DEF ShapeInv, Shaped, Resting
<1>11. wounds \subseteq wounds'
  BY <1>9
<1>12. ASSUME state.op # "reconcile",
              \E q \in Procs : job[q].op \notin {"none", "reconcile"} \/ job[q].pc = "attest"
       PROVE  "race" \in wounds'
  BY <1>9, <1>10, <1>12
<1>13. ASSUME state.op = "archive", \E q \in Procs : job[q].op = "archive"
       PROVE  "archivers" \in wounds'
  BY <1>9, <1>10, <1>13
<1> HIDE DEF busy
<1>14. busy # {} <=> \E q \in Procs : ~ Resting(q)
  BY DEF busy
<1> QED
  BY <1>2, <1>6, <1>7, <1>8, <1>11, <1>12, <1>13, <1>14 DEF Begun

LEMMA Puttings ==
  ASSUME ShapeInv, NEW p \in Procs, NEW doc, NEW state \in Jobs, Puts(p, doc, state)
  PROVE  Overtaken(p) /\ job'[p] = state /\ stored' = doc
<1>1. \A q \in Procs : job[q] \in Jobs
  BY JobTyped
<1>2. \A q \in Procs : LET k == [job[q] EXCEPT !.stale = TRUE] IN
           /\ k \in Jobs /\ k.op = job[q].op /\ k.pc = job[q].pc /\ k.stale = TRUE
           /\ k.doc = job[q].doc /\ k.seen = job[q].seen /\ k.raced = job[q].raced
           /\ k.told = job[q].told
  <2> SUFFICES ASSUME NEW j \in Jobs
               PROVE  LET k == [j EXCEPT !.stale = TRUE] IN
                      /\ k \in Jobs /\ k.op = j.op /\ k.pc = j.pc /\ k.stale = TRUE
                      /\ k.doc = j.doc /\ k.seen = j.seen /\ k.raced = j.raced
                      /\ k.told = j.told
    BY <1>1
  <2>1. [j EXCEPT !.stale = TRUE] \in Jobs
    BY DEF Jobs
  <2> QED
    BY <2>1 DEF Jobs
<1>3. job' = [q \in Procs |-> IF q = p THEN state
                              ELSE IF job[q].op = "reconcile" THEN [job[q] EXCEPT !.stale = TRUE]
                              ELSE job[q]]
  BY DEF Puts
<1>4. \A q \in Procs \ {p} :
       /\ job'[q] \in Jobs
       /\ job'[q].op = job[q].op /\ job'[q].pc = job[q].pc /\ job'[q].doc = job[q].doc
       /\ job'[q].seen = job[q].seen /\ job'[q].told = job[q].told /\ job'[q].raced = job[q].raced
       /\ job[q].op = "reconcile" => job'[q].stale
  <2> TAKE q \in Procs \ {p}
  <2>1. CASE job[q].op = "reconcile"
    <3>1. job'[q] = [job[q] EXCEPT !.stale = TRUE]
      BY <1>3, <2>1
    <3> QED
      BY <1>2, <3>1
  <2>2. CASE job[q].op # "reconcile"
    <3>1. job'[q] = job[q]
      BY <1>3, <2>2
    <3> QED
      BY <1>1, <2>2, <3>1
  <2> QED
    BY <2>1, <2>2
<1>5. job'[p] = state
  BY <1>3
<1>6. job' \in [Procs -> Jobs]
  <2>1. job' = [q \in Procs |-> job'[q]]
    BY <1>3
  <2> QED
    BY <1>4, <1>5, <2>1
<1> QED
  BY <1>4, <1>5, <1>6 DEF Overtaken, Puts

\* A process goes on with something new in hand.
Filled(p, pc, doc, seen, told) ==
  /\ job' \in [Procs -> Jobs] /\ Others(p)
  /\ job'[p].op = job[p].op /\ job'[p].pc = pc /\ job'[p].raced = job[p].raced
  /\ job'[p].doc = doc /\ job'[p].seen = seen /\ job'[p].stale = job[p].stale
  /\ job'[p].told = told

LEMMA FilledDoc ==
  ASSUME ShapeInv, NEW p \in Procs, NEW pc \in JobPcs, NEW doc \in Places,
         Goes(p, [job[p] EXCEPT !.pc = pc, !.doc = doc])
  PROVE  Filled(p, pc, doc, job[p].seen, job[p].told)
<1> DEFINE j == job[p]
<1>1. j \in Jobs
  BY JobTyped
<1>2. [j EXCEPT !.pc = pc, !.doc = doc] \in Jobs
  BY <1>1 DEF Jobs
<1>3. LET k == [j EXCEPT !.pc = pc, !.doc = doc] IN
        /\ k.op = j.op /\ k.pc = pc /\ k.raced = j.raced /\ k.doc = doc /\ k.seen = j.seen
        /\ k.stale = j.stale /\ k.told = j.told
  BY <1>1 DEF Jobs
<1> QED
  BY <1>2, <1>3, Goings DEF Filled

LEMMA FilledSeen ==
  ASSUME ShapeInv, NEW p \in Procs, NEW pc \in JobPcs, NEW seen \in Places,
         Goes(p, [job[p] EXCEPT !.pc = pc, !.seen = seen])
  PROVE  Filled(p, pc, job[p].doc, seen, job[p].told)
<1> DEFINE j == job[p]
<1>1. j \in Jobs
  BY JobTyped
<1>2. [j EXCEPT !.pc = pc, !.seen = seen] \in Jobs
  BY <1>1 DEF Jobs
<1>3. LET k == [j EXCEPT !.pc = pc, !.seen = seen] IN
        /\ k.op = j.op /\ k.pc = pc /\ k.raced = j.raced /\ k.doc = j.doc /\ k.seen = seen
        /\ k.stale = j.stale /\ k.told = j.told
  BY <1>1 DEF Jobs
<1> QED
  BY <1>2, <1>3, Goings DEF Filled

LEMMA FilledTold ==
  ASSUME ShapeInv, NEW p \in Procs, NEW pc \in JobPcs, NEW told \in Tellings,
         Goes(p, [job[p] EXCEPT !.pc = pc, !.told = told])
  PROVE  Filled(p, pc, job[p].doc, job[p].seen, told)
<1> DEFINE j == job[p]
<1>1. j \in Jobs
  BY JobTyped
<1>2. [j EXCEPT !.pc = pc, !.told = told] \in Jobs
  BY <1>1 DEF Jobs
<1>3. LET k == [j EXCEPT !.pc = pc, !.told = told] IN
        /\ k.op = j.op /\ k.pc = pc /\ k.raced = j.raced /\ k.doc = j.doc /\ k.seen = j.seen
        /\ k.stale = j.stale /\ k.told = told
  BY <1>1 DEF Jobs
<1> QED
  BY <1>2, <1>3, Goings DEF Filled

LEMMA Documents ==
  ASSUME ShapeInv
  PROVE  /\ NoPoint \notin Docs
         /\ stored # NoPoint => stored \in Docs /\ stored.hand # "archiver"
         /\ Refolded(log) \in Docs /\ Refolded(log).hand = "receipts"
         /\ \A hand \in Hands, stamp \in Nat, decided \in BOOLEAN :
              Doc(hand, stamp, decided) \in Docs /\ Doc(hand, stamp, decided).hand = hand
<1>1. NoPoint \notin Docs
  BY IntegrityAssumption
<1>2. \A hand \in Hands, stamp \in Nat, decided \in BOOLEAN :
         Doc(hand, stamp, decided) \in Docs /\ Doc(hand, stamp, decided).hand = hand
  BY DEF Doc, Docs
<1>3. Len(log) \in Nat
  BY LenProperties DEF ShapeInv, IntegrityTyped
<1>4. Refolded(log) \in Docs /\ Refolded(log).hand = "receipts"
  <2> DEFINE decided == \E i \in DOMAIN log : log[i].digest # NoPoint /\ log[i].digest.decided
  <2>1. decided \in BOOLEAN
    OBVIOUS
  <2> HIDE DEF decided
  <2>2. Refolded(log) = Doc("receipts", Len(log), decided)
    BY DEF Refolded, decided
  <2> QED
    BY <1>2, <1>3, <2>1, <2>2 DEF Hands
<1> QED
  BY <1>1, <1>2, <1>4 DEF ShapeInv, IntegrityTyped, Places

LEMMA DecidedTyped == ASSUME NEW d \in Docs PROVE d.decided \in BOOLEAN /\ d.stamp \in Nat
BY DEF Docs

Unmoved == UNCHANGED <<log, stored, tail, dump>>

LEMMA ReadFacts ==
  ASSUME ShapeInv, NEW p \in Procs, Read(p)
  PROVE  /\ Resting(p) /\ Begun(p, "write", "sign") /\ Unmoved /\ SpentTyped
         /\ job'[p].doc \in Docs /\ job'[p].doc.hand = "writer" /\ job'[p].seen = NoPoint
<1>1. PICK decides \in Decides :
        LET writes(base) ==
              Begins(p, [Starts("write", "sign") EXCEPT
                           !.doc = Doc("writer", spent.ops + 1, base.decided \/ decides)])
        IN  \/ stored # NoPoint /\ Spend({"ops"}) /\ writes(stored)
            \/ Known(log) /\ Spend({"ops", "faults"}) /\ writes(Refolded(log))
            \/ stored = NoPoint /\ ~ Known(log) /\ Spend({"ops"}) /\ writes(Doc("writer", 0, FALSE))
  BY DEF Read
<1>2. PICK base \in Docs :
        Begins(p, [Starts("write", "sign") EXCEPT
                     !.doc = Doc("writer", spent.ops + 1, base.decided \/ decides)])
  <2>1. Doc("writer", 0, FALSE) \in Docs
    BY Documents DEF Hands
  <2> QED
    BY <1>1, <2>1, Documents
<1> DEFINE doc == Doc("writer", spent.ops + 1, base.decided \/ decides)
           state == [Starts("write", "sign") EXCEPT !.doc = doc]
<1>3. doc \in Docs /\ doc.hand = "writer"
  <2>1. spent.ops + 1 \in Nat
    BY DEF ShapeInv, IntegrityTyped, Bounds
  <2>2. (base.decided \/ decides) \in BOOLEAN
    BY DecidedTyped, IntegrityAssumption
  <2> QED
    BY <2>1, <2>2, Documents DEF Hands
<1> HIDE DEF doc
<1>4. Starts("write", "sign") \in Jobs /\ Starts("write", "sign").op = "write"
      /\ Starts("write", "sign").pc = "sign" /\ Starts("write", "sign").seen = NoPoint
  <2>1. "write" \in JobOps /\ "sign" \in JobPcs
    BY DEF JobOps, JobPcs
  <2> QED
    BY <2>1, Fresh
<1>5. /\ state \in Jobs /\ state.op = "write" /\ state.pc = "sign" /\ state.doc = doc
      /\ state.seen = NoPoint
  <2>1. doc \in Places
    BY <1>3 DEF Places
  <2> QED
    BY <1>4, <2>1 DEF Jobs
<1>6. Begins(p, state)
  BY <1>2 DEF doc
<1> HIDE DEF state
<1>7. Resting(p)
  BY DEF Read
<1>8. SpentTyped
  BY <1>1, SpendTyped
<1> QED
  BY <1>3, <1>5, <1>6, <1>7, <1>8, Beginning DEF Read, Unmoved

LEMMA LineTyped ==
  ASSUME NEW event \in Events, NEW digest \in Docs, NEW att \in {"write", "reattest"}
  PROVE  LET r == Line(2, event, digest, att) IN
         /\ r \in Lines /\ r.v = 2 /\ ~ r.half /\ r.event = event /\ r.digest = digest
         /\ r.att = att /\ r.intact
<1> DEFINE r == Line(2, event, digest, att)
<1>1. digest \in Places
  BY DEF Places
<1>2. /\ r.v = 2 /\ ~ r.half /\ r.event = event /\ r.digest = digest
      /\ r.att = att /\ r.intact
  BY DEF Line
<1>3. att \in {"", "write", "reattest"}
  OBVIOUS
<1>4. 2 \in 0..2
  OBVIOUS
<1>5. r \in Lines
  BY <1>1, <1>3, <1>4 DEF Line, Lines
<1> QED
  BY <1>2, <1>5

\* A receipt, of whichever operation.
Signing(p, event, digest, att) ==
  /\ \E m \in Lines : Says(m, Line(2, event, digest, att)) /\ Written(p, m)
  /\ log' \in Seq(Lines) /\ \A i \in DOMAIN log' : Honest(log'[i])
  /\ tail' \in [Procs -> Tails \cup {NoTail}]
  /\ SpentTyped

LEMMA Signings ==
  ASSUME ShapeInv, NEW p \in Procs, NEW event \in Events, NEW digest \in Docs,
         NEW att \in {"write", "reattest"},
         att = "write" => digest.hand \in {"writer", "archiver"},
         PutReceipt(p, Line(2, event, digest, att))
  PROVE  Signing(p, event, digest, att)
<1> DEFINE r == Line(2, event, digest, att)
<1>1. /\ r \in Lines /\ r.v = 2 /\ ~ r.half /\ r.event = event /\ r.digest = digest
      /\ r.att = att /\ r.intact
  BY LineTyped
<1> HIDE DEF r
<1>2. Honest(r)
  BY <1>1 DEF Honest
<1>3. PutReceipt(p, r)
  BY DEF r
<1>4. /\ \E m \in Lines : Says(m, r) /\ Written(p, m)
      /\ log' \in Seq(Lines) /\ \A i \in DOMAIN log' : Honest(log'[i])
      /\ tail' \in [Procs -> Tails \cup {NoTail}]
      /\ SpentTyped
  BY <1>1, <1>2, <1>3, ReceiptWritten
<1> QED
  BY <1>4 DEF Signing, r

LEMMA SignFacts ==
  ASSUME ShapeInv, NEW p \in Procs, Sign(p)
  PROVE  /\ Doing(p, "write", "sign") /\ Turned(p, "put") /\ UNCHANGED <<stored, dump>>
         /\ Signing(p, "write", job[p].doc, "write")
<1>1. Doing(p, "write", "sign") /\ job[p].doc \in Docs /\ job[p].doc.hand = "writer"
  BY DEF Sign, Doing, ShapeInv, Shaped
<1>2. "put" \in JobPcs /\ "write" \in Events
  BY DEF JobPcs, Events
<1>3. Turned(p, "put")
  BY <1>2, Turning DEF Sign
<1>4. Signing(p, "write", job[p].doc, "write")
  BY <1>1, <1>2, Signings DEF Sign
<1> QED
  BY <1>1, <1>3, <1>4 DEF Sign

LEMMA PutFacts ==
  ASSUME ShapeInv, NEW p \in Procs, Put(p)
  PROVE  /\ Doing(p, "write", "put") /\ Overtaken(p) /\ job'[p] = Rest
         /\ stored' = job[p].doc /\ UNCHANGED <<log, tail, dump, wounds, spent>>
BY RestTyped, Puttings DEF Put

LEMMA PutFailsFacts ==
  ASSUME ShapeInv, NEW p \in Procs, PutFails(p)
  PROVE  /\ Doing(p, "write", "put") /\ Rested(p) /\ wounds' = wounds \cup {"undone"}
         /\ Unmoved /\ SpentTyped
BY Rests, SpendTyped DEF PutFails, Unmoved, Harm

LEMMA ScanFacts ==
  ASSUME ShapeInv, NEW p \in Procs, Scan(p)
  PROVE  /\ Resting(p) /\ Begun(p, "reconcile", "index") /\ Unmoved /\ SpentTyped
         /\ job'[p].stale => job'[p].seen = NoPoint
         /\ ~ job'[p].stale => job'[p].seen = stored
         /\ job'[p].told = ""
<1>1. PICK blind \in BOOLEAN :
       /\ Spend(IF blind THEN {"ops", "faults"} ELSE {"ops"})
       /\ Begins(p, [Starts("reconcile", "index") EXCEPT
                       !.seen = IF blind THEN NoPoint ELSE stored, !.stale = blind])
  BY DEF Scan
<1> DEFINE seen == IF blind THEN NoPoint ELSE stored
           state == [Starts("reconcile", "index") EXCEPT !.seen = seen, !.stale = blind]
<1>2. seen \in Places
  BY DEF ShapeInv, IntegrityTyped, Places
<1>3. Starts("reconcile", "index") \in Jobs /\ Starts("reconcile", "index").op = "reconcile"
      /\ Starts("reconcile", "index").pc = "index" /\ Starts("reconcile", "index").told = ""
  <2>1. "reconcile" \in JobOps /\ "index" \in JobPcs
    BY DEF JobOps, JobPcs
  <2> QED
    BY <2>1, Fresh
<1> HIDE DEF seen
<1>4. /\ state \in Jobs /\ state.op = "reconcile" /\ state.pc = "index" /\ state.seen = seen
      /\ state.stale = blind /\ state.told = ""
  BY <1>2, <1>3 DEF Jobs
<1>5. Begins(p, state)
  BY <1>1 DEF seen
<1> HIDE DEF state
<1>6. Resting(p)
  BY DEF Scan
<1>7. /\ Begun(p, state.op, state.pc) /\ job'[p].seen = state.seen
      /\ job'[p].stale = state.stale /\ job'[p].told = state.told
  BY <1>4, <1>5, <1>6, Beginning
<1>8. SpentTyped
  BY <1>1, SpendTyped
<1>9. /\ Begun(p, "reconcile", "index") /\ job'[p].seen = seen /\ job'[p].stale = blind
      /\ job'[p].told = ""
  BY <1>4, <1>7
<1> QED
  BY <1>6, <1>8, <1>9 DEF Scan, Unmoved, seen

Steady == Unmoved /\ UNCHANGED <<wounds, spent>>

LEMMA IndexFacts ==
  ASSUME ShapeInv, NEW p \in Procs, Index(p)
  PROVE  /\ Doing(p, "reconcile", "index") /\ Steady
         /\ \/ Rested(p)
            \/ job[p].seen = NoPoint /\ ~ Retired(log) /\ Turned(p, "rebuild")
            \/ job[p].seen # NoPoint /\ ~ Retired(log) /\ Turned(p, "compare")
<1>1. "rebuild" \in JobPcs /\ "compare" \in JobPcs
  BY DEF JobPcs
<1>2. CASE Missing(job[p].seen, log)
  <2>1. Goes(p, [job[p] EXCEPT !.pc = "rebuild"])
    BY <1>2 DEF Index
  <2> QED
    BY <1>1, <1>2, <2>1, Turning DEF Index, Steady, Unmoved, Missing
<1>3. CASE ~ Missing(job[p].seen, log) /\ Known(log) /\ ~ Retired(log)
  <2>1. Goes(p, [job[p] EXCEPT !.pc = "compare"])
    BY <1>3 DEF Index
  <2> QED
    BY <1>1, <1>3, <2>1, Turning DEF Index, Steady, Unmoved, Missing
<1>4. CASE ~ Missing(job[p].seen, log) /\ ~ (Known(log) /\ ~ Retired(log))
  BY <1>4, Rests DEF Index, Steady, Unmoved
<1> QED
  BY <1>2, <1>3, <1>4

LEMMA RebuildFacts ==
  ASSUME ShapeInv, NEW p \in Procs, Rebuild(p)
  PROVE  /\ Doing(p, "reconcile", "rebuild") /\ Steady
         /\ Rested(p) \/ Filled(p, "heal", Refolded(log), job[p].seen, job[p].told)
<1>1. "heal" \in JobPcs /\ Refolded(log) \in Places
  BY Documents DEF JobPcs, Places
<1>2. CASE Known(log)
  <2>1. Goes(p, [job[p] EXCEPT !.pc = "heal", !.doc = Refolded(log)])
    BY <1>2 DEF Rebuild
  <2> QED
    BY <1>1, <2>1, FilledDoc DEF Rebuild, Steady, Unmoved
<1>3. CASE ~ Known(log)
  BY <1>3, Rests DEF Rebuild, Steady, Unmoved
<1> QED
  BY <1>2, <1>3

LEMMA HealFacts ==
  ASSUME ShapeInv, NEW p \in Procs, Heal(p)
  PROVE  /\ Doing(p, "reconcile", "heal") /\ Overtaken(p) /\ stored' = job[p].doc
         /\ job'[p].op = "reconcile" /\ job'[p].pc = "attest" /\ job'[p].doc = job[p].doc
         /\ job'[p].raced = job[p].raced /\ job'[p].seen = job[p].seen
         /\ job'[p].stale = job[p].stale
         /\ wounds' = wounds \cup (IF job[p].raced THEN {"race"} ELSE {})
         /\ UNCHANGED <<log, tail, dump, spent>>
<1> DEFINE j == job[p]
           k == [j EXCEPT !.pc = "attest"]
<1>1. j \in Jobs /\ "attest" \in JobPcs
  BY JobTyped DEF JobPcs
<1>2. k \in Jobs
  BY <1>1 DEF Jobs
<1>3. k.op = j.op /\ k.pc = "attest" /\ k.doc = j.doc /\ k.raced = j.raced /\ k.seen = j.seen
      /\ k.stale = j.stale
  BY <1>1 DEF Jobs
<1>4. Puts(p, job[p].doc, k)
  BY DEF Heal
<1> HIDE DEF k
<1>5. Overtaken(p) /\ job'[p] = k /\ stored' = job[p].doc
  BY <1>2, <1>4, Puttings
<1> QED
  BY <1>3, <1>5 DEF Heal, Doing, Harm

LEMMA HealFailsFacts ==
  ASSUME ShapeInv, NEW p \in Procs, HealFails(p)
  PROVE  /\ Doing(p, "reconcile", "heal") /\ Rested(p) /\ Unmoved /\ UNCHANGED wounds
         /\ SpentTyped
BY Rests, SpendTyped DEF HealFails, Unmoved

LEMMA AttestFacts ==
  ASSUME ShapeInv, NEW p \in Procs, Attest(p)
  PROVE  /\ Doing(p, "reconcile", "attest") /\ Turned(p, "reread") /\ UNCHANGED <<stored, dump>>
         /\ Signing(p, "reconcile_healed", job[p].doc, "reattest")
<1>1. Doing(p, "reconcile", "attest") /\ job[p].doc \in Docs
  BY DEF Attest, Doing, ShapeInv, Shaped
<1>2. "reread" \in JobPcs /\ "reconcile_healed" \in Events
  BY DEF JobPcs, Events
<1>3. Turned(p, "reread")
  BY <1>2, Turning DEF Attest
<1>4. Signing(p, "reconcile_healed", job[p].doc, "reattest")
  BY <1>1, <1>2, Signings DEF Attest
<1> QED
  BY <1>1, <1>3, <1>4 DEF Attest

LEMMA RereadFacts ==
  ASSUME ShapeInv, NEW p \in Procs, Reread(p)
  PROVE  /\ Doing(p, "reconcile", "reread") /\ Steady
         /\ \/ Rested(p)
            \/ stored \in Docs /\ Filled(p, "compare", job[p].doc, stored, job[p].told)
<1>1. "compare" \in JobPcs /\ stored \in Places
  BY DEF JobPcs, ShapeInv, IntegrityTyped
<1>2. CASE stored # NoPoint
  <2>1. Goes(p, [job[p] EXCEPT !.pc = "compare", !.seen = stored])
    BY <1>2 DEF Reread
  <2> QED
    BY <1>1, <1>2, <2>1, FilledSeen, Documents DEF Reread, Steady, Unmoved
<1>3. CASE stored = NoPoint
  BY <1>3, Rests DEF Reread, Steady, Unmoved
<1> QED
  BY <1>2, <1>3

LEMMA ReportFacts ==
  ASSUME ShapeInv, NEW p \in Procs, Report(p)
  PROVE  Doing(p, "reconcile", "report") /\ Rested(p) /\ Steady
BY Rests DEF Report, Steady, Unmoved

LEMMA CompareFacts ==
  ASSUME ShapeInv, NEW p \in Procs, Compare(p)
  PROVE  /\ Doing(p, "reconcile", "compare") /\ Steady
         /\ Filled(p, "report", job[p].doc, job[p].seen, Judged(job[p].seen, log))
<1>1. Judged(job[p].seen, log) \in Tellings
  <2>1. log \in Seq(Lines)
    BY DEF ShapeInv, IntegrityTyped
  <2>2. Chained(log) # {} => log[Max(Chained(log))] \in Lines
    <3>1. Len(log) \in Nat /\ Chained(log) \subseteq 1..Len(log)
      BY <2>1, LenProperties DEF Chained
    <3> QED
      BY <2>1, <3>1, MaxOf, ElementOfSeq
  <2>3. Attested(log) \in Lines
    BY <2>2, UnreadableLine DEF Attested
  <2>4. Attested(log).att \in {"", "write", "reattest"}
    BY <2>3 DEF Lines
  <2> QED
    BY <2>4 DEF Judged, Tellings
<1>2. "report" \in JobPcs
  BY DEF JobPcs
<1>3. Goes(p, [job[p] EXCEPT !.pc = "report", !.told = Judged(job[p].seen, log)])
  BY DEF Compare
<1> QED
  BY <1>1, <1>2, <1>3, FilledTold DEF Compare, Steady, Unmoved

LEMMA WeighFacts ==
  ASSUME ShapeInv, NEW p \in Procs, Weigh(p)
  PROVE  /\ Resting(p) /\ Begun(p, "reattest", "scan") /\ Unmoved /\ SpentTyped
         /\ job'[p].seen = NoPoint
<1>1. PICK resolve \in BOOLEAN :
        Begins(p, [Starts("reattest", "scan") EXCEPT !.receipts = log, !.resolve = resolve])
  BY DEF Weigh
<1> DEFINE state == [Starts("reattest", "scan") EXCEPT !.receipts = log, !.resolve = resolve]
<1>2. Starts("reattest", "scan") \in Jobs /\ Starts("reattest", "scan").op = "reattest"
      /\ Starts("reattest", "scan").pc = "scan" /\ Starts("reattest", "scan").seen = NoPoint
  <2>1. "reattest" \in JobOps /\ "scan" \in JobPcs
    BY DEF JobOps, JobPcs
  <2> QED
    BY <2>1, Fresh
<1>3. log \in Seq(Lines)
  BY DEF ShapeInv, IntegrityTyped
<1>4. state \in Jobs /\ state.op = "reattest" /\ state.pc = "scan" /\ state.seen = NoPoint
  BY <1>2, <1>3 DEF Jobs
<1>5. Begins(p, state) /\ Resting(p)
  BY <1>1 DEF Weigh
<1> HIDE DEF state
<1>6. Begun(p, "reattest", "scan") /\ job'[p].seen = NoPoint
  BY <1>4, <1>5, Beginning
<1>7. SpentTyped
  BY SpendTyped DEF Weigh
<1> QED
  BY <1>5, <1>6, <1>7 DEF Weigh, Unmoved

\* A process goes on in a re-attestation.
Admitted(p) ==
  /\ job' \in [Procs -> Jobs] /\ Others(p)
  /\ job'[p].op = "reattest" /\ job'[p].pc = "measure" /\ job'[p].raced = job[p].raced
  /\ job'[p].seen = NoPoint

LEMMA AdmitFacts ==
  ASSUME ShapeInv, NEW p \in Procs, Admit(p)
  PROVE  /\ Doing(p, "reattest", "scan") /\ Unmoved /\ UNCHANGED wounds /\ SpentTyped
         /\ Rested(p) \/ Admitted(p)
<1> DEFINE state == [Starts("reattest", "measure") EXCEPT !.raced = job[p].raced]
<1>1. PICK blind \in BOOLEAN :
       /\ Spend(IF blind THEN {"faults"} ELSE {})
       /\ Goes(p, IF Eligible(IF blind THEN NoPoint ELSE stored, job[p].receipts, job[p].resolve)
                  THEN state ELSE Rest)
  BY DEF Admit
<1>2. Starts("reattest", "measure") \in Jobs /\ Starts("reattest", "measure").op = "reattest"
      /\ Starts("reattest", "measure").pc = "measure" /\ Starts("reattest", "measure").seen = NoPoint
  <2>1. "reattest" \in JobOps /\ "measure" \in JobPcs
    BY DEF JobOps, JobPcs
  <2> QED
    BY <2>1, Fresh
<1>3. job[p] \in Jobs /\ job[p].raced \in BOOLEAN
  BY JobTyped DEF Jobs
<1>4. /\ state \in Jobs /\ state.op = "reattest" /\ state.pc = "measure"
      /\ state.raced = job[p].raced /\ state.seen = NoPoint
  BY <1>2, <1>3, Raced
<1> HIDE DEF state
<1>5. Goes(p, state) \/ Goes(p, Rest)
  BY <1>1
<1>6. Rested(p) \/ Admitted(p)
  BY <1>4, <1>5, Goings, Rests DEF Admitted
<1>7. SpentTyped
  BY <1>1, SpendTyped
<1> QED
  BY <1>6, <1>7 DEF Admit, Unmoved

LEMMA MeasureFacts ==
  ASSUME ShapeInv, NEW p \in Procs, Measure(p)
  PROVE  /\ Doing(p, "reattest", "measure") /\ Steady
         /\ \/ Rested(p)
            \/ stored \in Docs /\ Filled(p, "sign", stored, job[p].seen, job[p].told)
<1>1. "sign" \in JobPcs /\ stored \in Places
  BY DEF JobPcs, ShapeInv, IntegrityTyped
<1>2. CASE stored # NoPoint
  <2>1. Goes(p, [job[p] EXCEPT !.pc = "sign", !.doc = stored])
    BY <1>2 DEF Measure
  <2> QED
    BY <1>1, <1>2, <2>1, FilledDoc, Documents DEF Measure, Steady, Unmoved
<1>3. CASE stored = NoPoint
  BY <1>3, Rests DEF Measure, Steady, Unmoved
<1> QED
  BY <1>2, <1>3

LEMMA SignMeasuredFacts ==
  ASSUME ShapeInv, NEW p \in Procs, SignMeasured(p)
  PROVE  /\ Doing(p, "reattest", "sign") /\ Rested(p) /\ UNCHANGED <<stored, dump>>
         /\ Signing(p, "payload_reattested", job[p].doc, "reattest")
<1>1. Doing(p, "reattest", "sign") /\ job[p].doc \in Docs
  BY DEF SignMeasured, Doing, ShapeInv, Shaped
<1>2. "payload_reattested" \in Events
  BY DEF Events
<1>3. Rested(p)
  BY Rests DEF SignMeasured
<1>4. Signing(p, "payload_reattested", job[p].doc, "reattest")
  BY <1>1, <1>2, Signings DEF SignMeasured
<1> QED
  BY <1>1, <1>3, <1>4 DEF SignMeasured

LEMMA ScanToArchiveFacts ==
  ASSUME ShapeInv, NEW p \in Procs, ScanToArchive(p)
  PROVE  /\ Resting(p) /\ Begun(p, "archive", "judge") /\ Unmoved /\ SpentTyped
         /\ stored \in Docs /\ job'[p].doc = stored /\ job'[p].seen = NoPoint
<1> DEFINE state == [Starts("archive", "judge") EXCEPT !.doc = stored]
<1>1. Resting(p) /\ stored # NoPoint /\ Begins(p, state) /\ stored \in Docs /\ stored \in Places
  BY Documents DEF ScanToArchive, Places
<1>2. Starts("archive", "judge") \in Jobs /\ Starts("archive", "judge").op = "archive"
      /\ Starts("archive", "judge").pc = "judge" /\ Starts("archive", "judge").seen = NoPoint
  <2>1. "archive" \in JobOps /\ "judge" \in JobPcs
    BY DEF JobOps, JobPcs
  <2> QED
    BY <2>1, Fresh
<1>3. /\ state \in Jobs /\ state.op = "archive" /\ state.pc = "judge" /\ state.doc = stored
      /\ state.seen = NoPoint
  BY <1>1, <1>2 DEF Jobs
<1> HIDE DEF state
<1>4. Begun(p, "archive", "judge") /\ job'[p].doc = stored /\ job'[p].seen = NoPoint
  BY <1>1, <1>3, Beginning
<1>5. SpentTyped
  BY SpendTyped DEF ScanToArchive
<1> QED
  BY <1>1, <1>4, <1>5 DEF ScanToArchive, Unmoved

LEMMA JudgeArchiveFacts ==
  ASSUME ShapeInv, NEW p \in Procs, JudgeArchive(p)
  PROVE  /\ Doing(p, "archive", "judge") /\ Steady
         /\ Rested(p) \/ Turned(p, "delete") \/ Turned(p, "tombstone")
<1>1. "delete" \in JobPcs /\ "tombstone" \in JobPcs
  BY DEF JobPcs
<1>2. \/ Goes(p, Rest) \/ Goes(p, [job[p] EXCEPT !.pc = "delete"])
      \/ Goes(p, [job[p] EXCEPT !.pc = "tombstone"])
  BY DEF JudgeArchive
<1>3. Rested(p) \/ Turned(p, "delete") \/ Turned(p, "tombstone")
  BY <1>1, <1>2, Rests, Turning
<1> QED
  BY <1>3 DEF JudgeArchive, Steady, Unmoved

LEMMA TombstoneFacts ==
  ASSUME ShapeInv, NEW p \in Procs, Tombstone(p)
  PROVE  /\ Doing(p, "archive", "tombstone") /\ Turned(p, "dump") /\ UNCHANGED <<stored, dump>>
         /\ \E digest \in Docs : Signing(p, "case_archived", digest, "write")
<1> DEFINE digest == Doc("archiver", job[p].doc.stamp, FALSE)
<1>1. Doing(p, "archive", "tombstone") /\ job[p].doc \in Docs
  BY DEF Tombstone, Doing, ShapeInv, Shaped
<1>2. digest \in Docs /\ digest.hand = "archiver"
  BY <1>1, DecidedTyped, Documents DEF Hands
<1>3. "dump" \in JobPcs /\ "case_archived" \in Events
  BY DEF JobPcs, Events
<1>4. Turned(p, "dump")
  BY <1>3, Turning DEF Tombstone
<1>5. PutReceipt(p, Line(2, "case_archived", digest, "write"))
  BY DEF Tombstone
<1> HIDE DEF digest
<1>6. Signing(p, "case_archived", digest, "write")
  BY <1>2, <1>3, <1>5, Signings
<1> QED
  BY <1>1, <1>2, <1>4, <1>6 DEF Tombstone

LEMMA DumpFacts ==
  ASSUME ShapeInv, NEW p \in Procs, Dump(p)
  PROVE  /\ Doing(p, "archive", "dump") /\ Turned(p, "delete")
         /\ UNCHANGED <<log, stored, tail, wounds>> /\ SpentTyped /\ dump' \subseteq Docs
<1>1. Doing(p, "archive", "dump") /\ job[p].doc \in Docs /\ dump \subseteq Docs
  BY DEF Dump, Doing, ShapeInv, Shaped, IntegrityTyped
<1>2. Turned(p, "delete")
  <2>1. "delete" \in JobPcs
    BY DEF JobPcs
  <2> QED
    BY <2>1, Turning DEF Dump
<1>3. SpentTyped
  BY SpendTyped DEF Dump, SpentTyped, ShapeInv, IntegrityTyped
<1>4. dump' \subseteq Docs
  BY <1>1 DEF Dump
<1> QED
  BY <1>1, <1>2, <1>3, <1>4 DEF Dump

LEMMA DeleteFacts ==
  ASSUME ShapeInv, NEW p \in Procs, Delete(p)
  PROVE  /\ Doing(p, "archive", "delete") /\ Rested(p) /\ stored' \in {stored, NoPoint}
         /\ UNCHANGED <<log, tail, dump, wounds>> /\ SpentTyped
<1>1. SpentTyped
  BY SpendTyped DEF Delete, SpentTyped, ShapeInv, IntegrityTyped
<1> QED
  BY <1>1, Rests DEF Delete

LEMMA ListCasesFacts ==
  ASSUME ShapeInv, NEW p \in Procs, ListCases(p)
  PROVE  /\ Resting(p) /\ Begun(p, "reset", "purge") /\ Unmoved /\ SpentTyped
         /\ job'[p].seen = NoPoint
<1>1. Starts("reset", "purge") \in Jobs /\ Starts("reset", "purge").op = "reset"
      /\ Starts("reset", "purge").pc = "purge" /\ Starts("reset", "purge").seen = NoPoint
  <2>1. "reset" \in JobOps /\ "purge" \in JobPcs
    BY DEF JobOps, JobPcs
  <2> QED
    BY <2>1, Fresh
<1>2. Begun(p, "reset", "purge") /\ job'[p].seen = NoPoint
  BY <1>1, Beginning DEF ListCases
<1> QED
  BY <1>2, SpendTyped DEF ListCases, Unmoved

LEMMA PurgeFacts ==
  ASSUME ShapeInv, NEW p \in Procs, Purge(p)
  PROVE  /\ Doing(p, "reset", "purge") /\ Turned(p, "rewrite") /\ stored' = NoPoint
         /\ wounds' = wounds \cup {"gone"} /\ UNCHANGED <<log, tail, dump, spent>>
<1>1. "rewrite" \in JobPcs
  BY DEF JobPcs
<1> QED
  BY <1>1, Turning DEF Purge, Harm

LEMMA RewriteSpineFacts ==
  ASSUME ShapeInv, NEW p \in Procs, RewriteSpine(p)
  PROVE  /\ Doing(p, "reset", "rewrite") /\ Rested(p) /\ log' = <<>>
         /\ wounds' = wounds \cup {"reset"} /\ UNCHANGED <<stored, tail, dump, spent>>
BY Rests DEF RewriteSpine, Harm

\* A death leaves the file as it is, or half a line at its end.
LEMMA DieFacts ==
  ASSUME ShapeInv, NEW p \in Procs, Die(p)
  PROVE  /\ ~ Resting(p) /\ Rested(p) /\ UNCHANGED <<stored, dump>> /\ SpentTyped
         /\ tail' = [tail EXCEPT ![p] = NoTail] /\ wounds \subseteq wounds'
         /\ \/ log' = log /\ (job[p].pc \in {"put", "attest"} => "undone" \in wounds')
            \/ /\ log' = AppendLine(log, Unreadable(TRUE)) /\ {"torn", "undone"} \subseteq wounds'
               /\ log' \in Seq(Lines) /\ \A i \in DOMAIN log' : Honest(log'[i])
<1>1. Rested(p) /\ SpentTyped
  BY Rests, SpendTyped DEF Die
<1>2. Unreadable(TRUE) \in Lines /\ Honest(Unreadable(TRUE))
  BY UnreadableLine DEF Honest
<1>3. CASE log' = AppendLine(log, Unreadable(TRUE)) /\ Harm({"torn", "undone"})
  BY <1>1, <1>2, <1>3, FileKept DEF Die, Harm
<1>4. CASE UNCHANGED log /\ Harm(IF job[p].pc \in {"put", "attest"} THEN {"undone"} ELSE {})
  BY <1>1, <1>4 DEF Die, Harm
<1> QED
  BY <1>3, <1>4 DEF Die

LEMMA RewriteFacts ==
  ASSUME ShapeInv, Rewrite
  PROVE  /\ stored # NoPoint /\ UNCHANGED <<log, tail, dump, job>> /\ SpentTyped
         /\ \/ stored' \in Docs /\ stored'.hand = "outside" /\ wounds' = wounds \cup {"outside"}
            \/ stored' = NoPoint /\ wounds' = wounds \cup {"gone"}
<1>1. Doc("outside", 0, FALSE) \in Docs /\ Doc("outside", 0, FALSE).hand = "outside"
  BY Documents DEF Hands
<1> QED
  BY <1>1, SpendTyped DEF Rewrite, Harm

LEMMA EditRecordFacts ==
  ASSUME ShapeInv, EditRecord
  PROVE  /\ Alike(log, log') /\ \A i \in DOMAIN log' : Honest(log'[i])
         /\ wounds' = wounds \cup {"edited"} /\ UNCHANGED <<stored, tail, dump, job>> /\ SpentTyped
<1>1. PICK i \in DOMAIN log : log[i].v = 2 /\ log' = [log EXCEPT ![i].intact = FALSE]
  BY DEF EditRecord
<1>2. log \in Seq(Lines) /\ DOMAIN log = 1..Len(log) /\ \A n \in 1..Len(log) : log[n] \in Lines /\ Honest(log[n])
  <2>1. log \in Seq(Lines) /\ \A n \in DOMAIN log : Honest(log[n])
    BY DEF ShapeInv, IntegrityTyped
  <2> QED
    BY <2>1, LenProperties, ElementOfSeq
<1> DEFINE old == log[i]
           e == [old EXCEPT !.intact = FALSE]
<1>3. old \in Lines /\ Honest(old)
  BY <1>1, <1>2
<1>4. e \in Lines
  BY <1>3 DEF Lines
<1>5. e.v = old.v /\ e.half = old.half /\ e.event = old.event /\ e.digest = old.digest /\ e.att = old.att
  BY <1>3 DEF Lines
<1> HIDE DEF e
<1>6. Honest(e)
  BY <1>3, <1>5 DEF Honest
<1>7. log' = [log EXCEPT ![i] = e]
  BY <1>1 DEF e
<1>8. log' \in Seq(Lines) /\ Len(log') = Len(log)
      /\ \A j \in 1..Len(log) : log'[j] = IF j = i THEN e ELSE log[j]
  <2>1. i \in 1..Len(log)
    BY <1>1, <1>2
  <2>2. /\ [log EXCEPT ![i] = e] \in Seq(Lines) /\ Len([log EXCEPT ![i] = e]) = Len(log)
        /\ \A j \in 1..Len(log) : [log EXCEPT ![i] = e][j] = IF j = i THEN e ELSE log[j]
    BY <1>2, <1>4, <2>1, ExceptSeq
  <2> QED
    BY <1>7, <2>2
<1>9. DOMAIN log' = 1..Len(log)
  BY <1>8, LenProperties
<1>10. Alike(log, log')
  BY <1>2, <1>5, <1>8 DEF Alike
<1>11. \A j \in DOMAIN log' : Honest(log'[j])
  BY <1>2, <1>6, <1>8, <1>9
<1> QED
  BY <1>10, <1>11, SpendTyped DEF EditRecord, Harm

LEMMA RestartFacts ==
  ASSUME ShapeInv, NEW p \in Procs, Restart(p)
  PROVE  /\ tail' = [tail EXCEPT ![p] = NoTail]
         /\ UNCHANGED <<log, stored, dump, job, wounds, spent>>
BY DEF Restart

----------------------------------------------------------------------------
\* Shape.

LEMMA IntegritySteps ==
  ASSUME [IntegrityNext]_integrityVars
  PROVE  \/ \E p \in Procs :
              \/ Read(p) \/ Sign(p) \/ Put(p) \/ PutFails(p)
              \/ Scan(p) \/ Index(p) \/ Rebuild(p) \/ Heal(p) \/ HealFails(p) \/ Attest(p)
              \/ Reread(p) \/ Compare(p) \/ Report(p)
              \/ Weigh(p) \/ Admit(p) \/ Measure(p) \/ SignMeasured(p)
              \/ ScanToArchive(p) \/ JudgeArchive(p) \/ Tombstone(p) \/ Dump(p) \/ Delete(p)
              \/ ListCases(p) \/ Purge(p) \/ RewriteSpine(p) \/ Die(p) \/ Restart(p)
         \/ Rewrite \/ EditRecord \/ UNCHANGED integrityVars
BY DEF IntegrityNext, Mutation, Reconcile, Reattest, Archive, Reset

LEMMA ShapedAlike ==
  ASSUME ShapeInv, NEW q \in Procs,
         job'[q].op = job[q].op, job'[q].pc = job[q].pc, job'[q].doc = job[q].doc,
         job'[q].seen = job[q].seen, job'[q].told = job[q].told
  PROVE  Shaped(q)'
BY DEF ShapeInv, Shaped, Resting, Doing

LEMMA ShapedOthers ==
  ASSUME ShapeInv, NEW p \in Procs,
         Others(p) \/ Overtaken(p) \/ \E op \in JobOps, pc \in JobPcs : Begun(p, op, pc)
  PROVE  \A q \in Procs \ {p} : Shaped(q)'
BY ShapedAlike DEF Others, Overtaken, Begun

LEMMA ShapedRested ==
  ASSUME ShapeInv, NEW p \in Procs, job'[p] = Rest
  PROVE  Shaped(p)'
<1>1. Rest.seen \notin Docs
  BY RestFacts, Documents
<1> QED
  BY <1>1, RestFacts DEF Shaped, Resting, Doing

\* What a state needs to be shaped, part by part.
LEMMA ShapeParts ==
  ASSUME ShapeInv, NEW p \in Procs,
         job' \in [Procs -> Jobs], Shaped(p)',
         Others(p) \/ Overtaken(p) \/ (\E op \in JobOps, pc \in JobPcs : Begun(p, op, pc)),
         UNCHANGED log \/ (log' \in Seq(Lines) /\ \A i \in DOMAIN log' : Honest(log'[i])),
         stored' \in {stored, NoPoint} \/ (stored' \in Docs /\ stored'.hand # "archiver"),
         UNCHANGED tail \/ tail' \in [Procs -> Tails \cup {NoTail}],
         UNCHANGED dump \/ dump' \subseteq Docs,
         UNCHANGED spent \/ SpentTyped
  PROVE  ShapeInv'
<1>1. \A q \in Procs : Shaped(q)'
  BY ShapedOthers
<1>2. /\ log' \in Seq(Lines) /\ \A i \in DOMAIN log' : Honest(log'[i])
      /\ tail' \in [Procs -> Tails \cup {NoTail}] /\ dump' \subseteq Docs
      /\ spent' \in [DOMAIN Bounds -> Nat]
  BY DEF ShapeInv, IntegrityTyped, SpentTyped
<1>3. stored' \in Places /\ (stored' \in Docs => stored'.hand # "archiver")
  BY Documents DEF ShapeInv, IntegrityTyped, Places
<1> QED
  BY <1>1, <1>2, <1>3 DEF ShapeInv, IntegrityTyped, Bounds

LEMMA ShapeInitial == ASSUME IntegrityInit PROVE ShapeInv
<1>1. Doc("writer", 0, FALSE) \in Docs /\ Doc("writer", 0, FALSE).hand = "writer"
  BY DEF Doc, Docs, Hands
<1>2. /\ Line(1, "write", NoPoint, "") \in Lines /\ Honest(Line(1, "write", NoPoint, ""))
  BY DEF Line, Lines, Events, Places, Honest
<1>3. log = <<>> \/ log = <<Line(1, "write", NoPoint, "")>>
  BY DEF IntegrityInit
<1> DEFINE line == Line(1, "write", NoPoint, "")
<1> HIDE DEF line
<1>4. log \in Seq(Lines) /\ \A i \in DOMAIN log : Honest(log[i])
  <2>1. line \in Lines /\ Honest(line) /\ (log = <<>> \/ log = <<line>>)
    BY <1>2, <1>3 DEF line
  <2>2. CASE log = <<>>
    <3>1. log \in Seq(Lines) /\ Len(log) = 0
      BY <2>2, EmptySeq
    <3>2. DOMAIN log = 1..0
      BY <3>1, LenProperties
    <3> QED
      BY <3>1, <3>2
  <2>3. CASE log = <<line>>
    <3>1. log \in Seq(Lines) /\ DOMAIN log = {1} /\ log[1] = line
      BY <2>1, <2>3
    <3> QED
      BY <2>1, <3>1
  <2> QED
    BY <2>1, <2>2, <2>3
<1>5. \A p \in Procs : job[p] = Rest
  BY DEF IntegrityInit
<1>6. \A p \in Procs : Shaped(p)
  <2>1. Rest.seen \notin Docs
    BY RestFacts, IntegrityAssumption
  <2> QED
    BY <1>5, <2>1, RestFacts DEF Shaped, Resting, Doing
<1>7. job \in [Procs -> Jobs]
  BY RestTyped DEF IntegrityInit
<1>8. stored \in Places /\ (stored \in Docs => stored.hand # "archiver")
  <2>1. stored = NoPoint \/ stored = Doc("writer", 0, FALSE)
    BY DEF IntegrityInit
  <2>2. CASE stored = NoPoint
    BY <2>2, IntegrityAssumption DEF Places
  <2>3. CASE stored = Doc("writer", 0, FALSE)
    BY <1>1, <2>3 DEF Places
  <2> QED
    BY <2>1, <2>2, <2>3
<1>9. /\ tail \in [Procs -> Tails \cup {NoTail}] /\ dump \subseteq Docs
      /\ spent \in [DOMAIN Bounds -> Nat]
  BY DEF IntegrityInit
<1> QED
  BY <1>4, <1>6, <1>7, <1>8, <1>9 DEF ShapeInv, IntegrityTyped

\* What is found to be signed as written is of a writer.
LEMMA JudgedWritten ==
  ASSUME ShapeInv, NEW p \in Procs, Doing(p, "reconcile", "compare"),
         Judged(job[p].seen, log) = "write"
  PROVE  job[p].seen.hand = "writer"
<1>1. job[p].seen \in Docs /\ job[p].seen.hand # "archiver"
  BY DEF ShapeInv, Shaped, Doing
<1>2. /\ ~ Untrusted(log) /\ Attested(log).v # 0 /\ Attested(log).digest = job[p].seen
      /\ Attested(log).att = "write"
  BY DEF Judged
<1>3. Chained(log) # {} /\ Attested(log) = log[Max(Chained(log))]
  BY <1>2, UnreadableLine DEF Attested
<1>4. log \in Seq(Lines) /\ \A i \in DOMAIN log : Honest(log[i])
  BY DEF ShapeInv, IntegrityTyped
<1>5. Max(Chained(log)) \in DOMAIN log
  <2>1. Len(log) \in Nat /\ DOMAIN log = 1..Len(log) /\ Chained(log) \subseteq 1..Len(log)
    BY <1>4, LenProperties DEF Chained
  <2> QED
    BY <1>3, <2>1, MaxOf
<1>6. Honest(Attested(log))
  BY <1>3, <1>4, <1>5
<1> QED
  BY <1>1, <1>2, <1>6 DEF Honest

LEMMA ShapeKept == ASSUME ShapeInv, [IntegrityNext]_integrityVars PROVE ShapeInv'
<1>0. \A op \in {"write", "reconcile", "reattest", "archive", "reset"} : op \in JobOps
  BY DEF JobOps
<1>00. \A pc \in {"sign", "index", "scan", "judge", "purge"} : pc \in JobPcs
  BY DEF JobPcs
<1>1. ASSUME NEW p \in Procs, Read(p) PROVE ShapeInv'
  <2>1. Shaped(p)'
    BY <1>1, ReadFacts, Documents DEF Begun, Shaped, Resting, Doing
  <2> QED
    BY <1>1, <1>0, <1>00, <2>1, ReadFacts, ShapeParts DEF Begun, Unmoved
<1>2. ASSUME NEW p \in Procs, Sign(p) PROVE ShapeInv'
  <2>1. Shaped(p)'
    BY <1>2, SignFacts DEF Turned, ShapeInv, Shaped, Resting, Doing
  <2> QED
    BY <1>2, <2>1, SignFacts, ShapeParts DEF Turned, Signing
<1>3. ASSUME NEW p \in Procs, Put(p) PROVE ShapeInv'
  <2>1. stored' \in Docs /\ stored'.hand # "archiver"
    BY <1>3, PutFacts DEF ShapeInv, Shaped, Doing
  <2> QED
    BY <1>3, <2>1, PutFacts, ShapedRested, ShapeParts DEF Overtaken
<1>4. ASSUME NEW p \in Procs, PutFails(p) PROVE ShapeInv'
  BY <1>4, PutFailsFacts, ShapedRested, ShapeParts DEF Rested, Unmoved
<1>5. ASSUME NEW p \in Procs, Scan(p) PROVE ShapeInv'
  <2>1. job'[p].seen \in Docs => job'[p].seen.hand # "archiver"
    BY <1>5, ScanFacts, Documents
  <2>2. job'[p].op = "reconcile" /\ job'[p].pc = "index"
    BY <1>5, ScanFacts DEF Begun
  <2>3. Shaped(p)'
    BY <2>1, <2>2 DEF Shaped, Resting, Doing
  <2> QED
    BY <1>5, <1>0, <1>00, <2>3, ScanFacts, ShapeParts DEF Begun, Unmoved
<1>6. ASSUME NEW p \in Procs, Index(p) PROVE ShapeInv'
  <2>1. CASE Rested(p)
    BY <1>6, <2>1, IndexFacts, ShapedRested, ShapeParts DEF Rested, Steady, Unmoved
  <2>2. CASE ~ Rested(p)
    <3>1. Shaped(p)'
      <4>1. job[p].seen \in Places
        BY JobTyped DEF Jobs
      <4> QED
        BY <1>6, <2>2, <4>1, IndexFacts DEF Turned, ShapeInv, Shaped, Resting, Doing, Places
    <3> QED
      BY <1>6, <2>2, <3>1, IndexFacts, ShapeParts DEF Turned, Steady, Unmoved
  <2> QED
    BY <2>1, <2>2
<1>7. ASSUME NEW p \in Procs, Rebuild(p) PROVE ShapeInv'
  <2>1. CASE Rested(p)
    BY <1>7, <2>1, RebuildFacts, ShapedRested, ShapeParts DEF Rested, Steady, Unmoved
  <2>2. CASE ~ Rested(p)
    <3>1. Shaped(p)'
      BY <1>7, <2>2, RebuildFacts, Documents DEF Filled, ShapeInv, Shaped, Resting, Doing
    <3> QED
      BY <1>7, <2>2, <3>1, RebuildFacts, ShapeParts DEF Filled, Steady, Unmoved
  <2> QED
    BY <2>1, <2>2
<1>8. ASSUME NEW p \in Procs, Heal(p) PROVE ShapeInv'
  <2>1. Shaped(p)' /\ stored' \in Docs /\ stored'.hand # "archiver"
    BY <1>8, HealFacts DEF ShapeInv, Shaped, Resting, Doing
  <2> QED
    BY <1>8, <2>1, HealFacts, ShapeParts DEF Overtaken
<1>9. ASSUME NEW p \in Procs, HealFails(p) PROVE ShapeInv'
  BY <1>9, HealFailsFacts, ShapedRested, ShapeParts DEF Rested, Unmoved
<1>10. ASSUME NEW p \in Procs, Attest(p) PROVE ShapeInv'
  <2>1. Shaped(p)'
    BY <1>10, AttestFacts DEF Turned, ShapeInv, Shaped, Resting, Doing
  <2> QED
    BY <1>10, <2>1, AttestFacts, ShapeParts DEF Turned, Signing
<1>11. ASSUME NEW p \in Procs, Reread(p) PROVE ShapeInv'
  <2>1. CASE Rested(p)
    BY <1>11, <2>1, RereadFacts, ShapedRested, ShapeParts DEF Rested, Steady, Unmoved
  <2>2. CASE ~ Rested(p)
    <3>1. Shaped(p)'
      BY <1>11, <2>2, RereadFacts, Documents DEF Filled, ShapeInv, Shaped, Resting, Doing
    <3> QED
      BY <1>11, <2>2, <3>1, RereadFacts, ShapeParts DEF Filled, Steady, Unmoved
  <2> QED
    BY <2>1, <2>2
<1>12. ASSUME NEW p \in Procs, Compare(p) PROVE ShapeInv'
  <2>1. Shaped(p)'
    <3>1. Judged(job[p].seen, log) = "write" => job[p].seen.hand = "writer"
      BY <1>12, CompareFacts, JudgedWritten
    <3> QED
      BY <1>12, <3>1, CompareFacts DEF Filled, ShapeInv, Shaped, Resting, Doing
  <2> QED
    BY <1>12, <2>1, CompareFacts, ShapeParts DEF Filled, Steady, Unmoved
<1>13. ASSUME NEW p \in Procs, Report(p) PROVE ShapeInv'
  BY <1>13, ReportFacts, ShapedRested, ShapeParts DEF Rested, Steady, Unmoved
<1>14. ASSUME NEW p \in Procs, Weigh(p) PROVE ShapeInv'
  <2>1. Shaped(p)'
    BY <1>14, WeighFacts, Documents DEF Begun, Shaped, Resting, Doing
  <2> QED
    BY <1>14, <1>0, <1>00, <2>1, WeighFacts, ShapeParts DEF Begun, Unmoved
<1>15. ASSUME NEW p \in Procs, Admit(p) PROVE ShapeInv'
  <2>1. CASE Rested(p)
    BY <1>15, <2>1, AdmitFacts, ShapedRested, ShapeParts DEF Rested, Unmoved
  <2>2. CASE ~ Rested(p)
    <3>1. Shaped(p)'
      BY <1>15, <2>2, AdmitFacts, Documents DEF Admitted, Shaped, Resting, Doing
    <3> QED
      BY <1>15, <2>2, <3>1, AdmitFacts, ShapeParts DEF Admitted, Unmoved
  <2> QED
    BY <2>1, <2>2
<1>16. ASSUME NEW p \in Procs, Measure(p) PROVE ShapeInv'
  <2>1. CASE Rested(p)
    BY <1>16, <2>1, MeasureFacts, ShapedRested, ShapeParts DEF Rested, Steady, Unmoved
  <2>2. CASE ~ Rested(p)
    <3>1. Shaped(p)'
      BY <1>16, <2>2, MeasureFacts DEF Filled, ShapeInv, Shaped, Resting, Doing
    <3> QED
      BY <1>16, <2>2, <3>1, MeasureFacts, ShapeParts DEF Filled, Steady, Unmoved
  <2> QED
    BY <2>1, <2>2
<1>17. ASSUME NEW p \in Procs, SignMeasured(p) PROVE ShapeInv'
  BY <1>17, SignMeasuredFacts, ShapedRested, ShapeParts DEF Rested, Signing
<1>18. ASSUME NEW p \in Procs, ScanToArchive(p) PROVE ShapeInv'
  <2>1. Shaped(p)'
    BY <1>18, ScanToArchiveFacts, Documents DEF Begun, Shaped, Resting, Doing
  <2> QED
    BY <1>18, <1>0, <1>00, <2>1, ScanToArchiveFacts, ShapeParts DEF Begun, Unmoved
<1>19. ASSUME NEW p \in Procs, JudgeArchive(p) PROVE ShapeInv'
  <2>1. CASE Rested(p)
    BY <1>19, <2>1, JudgeArchiveFacts, ShapedRested, ShapeParts DEF Rested, Steady, Unmoved
  <2>2. CASE ~ Rested(p)
    <3>1. Shaped(p)'
      BY <1>19, <2>2, JudgeArchiveFacts DEF Turned, ShapeInv, Shaped, Resting, Doing
    <3> QED
      BY <1>19, <2>2, <3>1, JudgeArchiveFacts, ShapeParts DEF Turned, Steady, Unmoved
  <2> QED
    BY <2>1, <2>2
<1>20. ASSUME NEW p \in Procs, Tombstone(p) PROVE ShapeInv'
  <2>1. Shaped(p)'
    BY <1>20, TombstoneFacts DEF Turned, ShapeInv, Shaped, Resting, Doing
  <2> QED
    BY <1>20, <2>1, TombstoneFacts, ShapeParts DEF Turned, Signing
<1>21. ASSUME NEW p \in Procs, Dump(p) PROVE ShapeInv'
  <2>1. Shaped(p)'
    BY <1>21, DumpFacts DEF Turned, ShapeInv, Shaped, Resting, Doing
  <2> QED
    BY <1>21, <2>1, DumpFacts, ShapeParts DEF Turned
<1>22. ASSUME NEW p \in Procs, Delete(p) PROVE ShapeInv'
  BY <1>22, DeleteFacts, ShapedRested, ShapeParts DEF Rested
<1>23. ASSUME NEW p \in Procs, ListCases(p) PROVE ShapeInv'
  <2>1. Shaped(p)'
    BY <1>23, ListCasesFacts, Documents DEF Begun, Shaped, Resting, Doing
  <2> QED
    BY <1>23, <1>0, <1>00, <2>1, ListCasesFacts, ShapeParts DEF Begun, Unmoved
<1>24. ASSUME NEW p \in Procs, Purge(p) PROVE ShapeInv'
  <2>1. Shaped(p)'
    BY <1>24, PurgeFacts DEF Turned, ShapeInv, Shaped, Resting, Doing
  <2> QED
    BY <1>24, <2>1, PurgeFacts, ShapeParts DEF Turned
<1>25. ASSUME NEW p \in Procs, RewriteSpine(p) PROVE ShapeInv'
  <2>1. log' \in Seq(Lines) /\ \A i \in DOMAIN log' : Honest(log'[i])
    <3>1. log' = <<>>
      BY <1>25, RewriteSpineFacts
    <3>2. log' \in Seq(Lines) /\ Len(log') = 0
      BY <3>1, EmptySeq
    <3>3. DOMAIN log' = 1..0
      BY <3>2, LenProperties
    <3> QED
      BY <3>2, <3>3
  <2> QED
    BY <1>25, <2>1, RewriteSpineFacts, ShapedRested, ShapeParts DEF Rested
<1>26. ASSUME NEW p \in Procs, Die(p) PROVE ShapeInv'
  <2>1. tail' \in [Procs -> Tails \cup {NoTail}]
    BY <1>26, DieFacts DEF ShapeInv, IntegrityTyped
  <2> QED
    BY <1>26, <2>1, DieFacts, ShapedRested, ShapeParts DEF Rested
<1>27. ASSUME NEW p \in Procs, Restart(p) PROVE ShapeInv'
  BY <1>27, RestartFacts DEF ShapeInv, IntegrityTyped, Shaped, Resting, Doing
<1>28. CASE Rewrite
  <2>1. stored' \in Places /\ (stored' \in Docs => stored'.hand # "archiver")
    BY <1>28, RewriteFacts, Documents DEF Places
  <2> QED
    BY <1>28, <2>1, RewriteFacts DEF ShapeInv, IntegrityTyped, SpentTyped, Shaped, Resting, Doing
<1>29. CASE EditRecord
  BY <1>29, EditRecordFacts DEF Alike, ShapeInv, IntegrityTyped, SpentTyped, Shaped, Resting, Doing
<1>30. CASE UNCHANGED integrityVars
  BY <1>30 DEF integrityVars, ShapeInv, IntegrityTyped, Shaped, Resting, Doing
<1> HIDE DEF ShapeInv
<1> QED
  BY <1>1, <1>2, <1>3, <1>4, <1>5, <1>6, <1>7, <1>8, <1>9, <1>10, <1>11, <1>12, <1>13, <1>14,
     <1>15, <1>16, <1>17, <1>18, <1>19, <1>20, <1>21, <1>22, <1>23, <1>24, <1>25, <1>26, <1>27,
     <1>28, <1>29, <1>30, IntegritySteps

----------------------------------------------------------------------------
\* The chain tells the truth.

\* What a receipt writes, field by field.
LEMMA Recorded ==
  ASSUME NEW p \in Procs, NEW event, NEW digest, NEW att, Signing(p, event, digest, att)
  PROVE  \E m \in Lines :
           /\ ~ m.half /\ m.v \in {1, 2} /\ m.event = event /\ m.digest = digest
           /\ m.att = att /\ m.intact /\ Written(p, m)
<1>1. PICK m \in Lines : Says(m, Line(2, event, digest, att)) /\ Written(p, m)
  BY DEF Signing
<1>2. /\ Line(2, event, digest, att).event = event /\ Line(2, event, digest, att).digest = digest
      /\ Line(2, event, digest, att).att = att /\ Line(2, event, digest, att).intact
  BY DEF Line
<1> QED
  BY <1>1, <1>2 DEF Says

\* A file that parses takes one more line; what a half line at its end would have lost, it
\* does not have.
LEMMA Whole ==
  ASSUME ShapeInv, NEW m \in Lines, log' = AppendLine(log, m), \A i \in DOMAIN log : log[i].v # 0
  PROVE  Grown(log, log', m)
<1>1. log \in Seq(Lines) /\ \A i \in DOMAIN log : Honest(log[i])
  BY DEF ShapeInv, IntegrityTyped
<1>2. ~ EndsHalf(log)
  <2> SUFFICES ASSUME EndsHalf(log) PROVE FALSE
    OBVIOUS
  <2>1. log # <<>> /\ log[Len(log)].half
    BY DEF EndsHalf, Last
  <2>2. Len(log) \in DOMAIN log
    BY <1>1, <2>1, EmptySeq, LenProperties
  <2> QED
    BY <1>1, <2>1, <2>2 DEF Honest
<1> QED
  BY <1>1, <1>2, Appending

LEMMA ChainGrown ==
  ASSUME NEW l \in Seq(Lines), NEW m, NEW r \in Lines, Grown(l, m, r), ChainOk(l), r.v # 0,
         r.v = 2 => r.seq = TailOf(l).seq + 1 /\ r.prev = TailOf(l).hash /\ r.intact
  PROVE  ChainOk(m)
<1>1. /\ Len(l) \in Nat /\ DOMAIN l = 1..Len(l) /\ DOMAIN m = 1..(Len(l) + 1)
      /\ Len(m) = Len(l) + 1
  BY LenProperties DEF Grown
<1>2. \A i \in 1..Len(m) : TailBefore(m, i) = TailBefore(l, i)
  BY TailGrown
<1>3. \A i \in DOMAIN m : m[i].v # 0
  <2> TAKE i \in DOMAIN m
  <2>1. i \in 1..Len(l) \/ i = Len(m)
    BY <1>1
  <2> QED
    BY <1>1, <2>1 DEF Grown, ChainOk
<1>4. ASSUME NEW i \in Chained(m)
      PROVE  /\ m[i].seq = TailBefore(m, i).seq + 1 /\ m[i].prev = TailBefore(m, i).hash
             /\ m[i].intact
  <2>1. i \in 1..Len(m) /\ m[i].v = 2
    BY <1>1, <1>4 DEF Chained
  <2>2. CASE i \in 1..Len(l)
    <3>1. m[i] = l[i]
      BY <2>2 DEF Grown
    <3>2. i \in Chained(l)
      BY <1>1, <2>1, <2>2, <3>1 DEF Chained
    <3> QED
      BY <1>2, <2>1, <3>1, <3>2 DEF ChainOk
  <2>3. CASE i = Len(l) + 1
    <3>1. m[i] = r
      BY <1>1, <2>3 DEF Grown
    <3>2. TailBefore(m, i) = TailOf(l)
      BY <1>2, <2>1, <2>3 DEF TailOf
    <3> QED
      BY <2>1, <3>1, <3>2
  <2> QED
    BY <1>1, <2>1, <2>2, <2>3
<1> QED
  BY <1>3, <1>4 DEF ChainOk

\* A process that forgets the tail, and no process that learns one.
LEMMA ChainStill ==
  ASSUME ChainInv, UNCHANGED log, wounds \subseteq wounds',
         \A q \in Procs : tail'[q] \in {tail[q], NoTail}
  PROVE  ChainInv'
BY DEF ChainInv

LEMMA ChainBroken == ASSUME wounds' \cap Broken # {} PROVE ChainInv'
BY DEF ChainInv

LEMMA ChainWritten ==
  ASSUME ShapeInv, ChainInv, NEW p \in Procs, NEW m \in Lines, m.v \in {1, 2}, m.intact,
         Written(p, m)
  PROVE  ChainInv'
<1> SUFFICES ASSUME wounds' \cap Broken = {}
             PROVE  /\ ChainOk(log')
                    /\ \A q \in Procs : tail'[q] = NoTail \/ tail'[q] = TailOf(log')
  BY DEF ChainInv
<1>1. /\ ChainOk(log) /\ \A q \in Procs : tail[q] = NoTail \/ tail[q] = TailOf(log)
      /\ log' = AppendLine(log, m)
  BY DEF ChainInv, Written
<1>2. log \in Seq(Lines) /\ tail \in [Procs -> Tails \cup {NoTail}]
  BY DEF ShapeInv, IntegrityTyped
<1>3. Grown(log, log', m)
  BY <1>1, Whole DEF ChainOk
<1>4. CASE m.v = 1
  <2>1. tail' = tail /\ ChainOk(log') /\ TailOf(log') = TailOf(log)
    BY <1>1, <1>2, <1>3, <1>4, ChainGrown, TailGrown DEF Written
  <2> QED
    BY <1>1, <2>1
<1>5. CASE m.v = 2
  <2> DEFINE t == IF tail[p] = NoTail THEN TailOf(log) ELSE tail[p]
  <2>1. /\ m.seq = t.seq + 1 /\ m.prev = t.hash
        /\ tail' = [tail EXCEPT ![p] = [seq |-> m.seq, hash |-> m.hash]]
        /\ \A q \in Procs \ {p} : tail[q] = NoTail
    BY <1>5 DEF Written, Broken
  <2>2. t = TailOf(log)
    BY <1>1
  <2>3. ChainOk(log') /\ TailOf(log') = [seq |-> m.seq, hash |-> m.hash]
    BY <1>1, <1>2, <1>3, <1>5, <2>1, <2>2, ChainGrown, TailGrown
  <2>4. \A q \in Procs : tail'[q] = NoTail \/ tail'[q] = TailOf(log')
    BY <1>2, <2>1, <2>3
  <2> QED
    BY <2>3, <2>4
<1> QED
  BY <1>4, <1>5

\* At first there is a legacy line, or none.
LEMMA InitialFile == ASSUME IntegrityInit PROVE \A i \in DOMAIN log : log[i].v = 1
<1>1. CASE log = <<>>
  <2>1. Len(log) = 0 /\ log \in Seq(Lines)
    BY <1>1, EmptySeq
  <2>2. DOMAIN log = 1..0
    BY <2>1, LenProperties
  <2> QED
    BY <2>2
<1>2. CASE log = <<Line(1, "write", NoPoint, "")>>
  <2> DEFINE line == Line(1, "write", NoPoint, "")
  <2>1. log = <<line>> /\ line.v = 1
    BY <1>2 DEF Line
  <2> HIDE DEF line
  <2>2. DOMAIN log = {1} /\ log[1] = line
    BY <2>1
  <2> QED
    BY <2>1, <2>2
<1> QED
  BY <1>1, <1>2 DEF IntegrityInit

LEMMA ChainInitial == ASSUME IntegrityInit PROVE ChainInv
<1>1. \A i \in DOMAIN log : log[i].v = 1
  BY InitialFile
<1>2. ChainOk(log)
  BY <1>1 DEF ChainOk, Chained
<1> QED
  BY <1>2 DEF ChainInv, IntegrityInit

LEMMA ChainKept == ASSUME ShapeInv, ChainInv, [IntegrityNext]_integrityVars PROVE ChainInv'
<1>1. ASSUME NEW p \in Procs, NEW event, NEW digest, NEW att, Signing(p, event, digest, att)
      PROVE  ChainInv'
  BY <1>1, Recorded, ChainWritten
<1>2. ASSUME UNCHANGED <<log, tail>>, wounds \subseteq wounds' PROVE ChainInv'
  BY <1>2, ChainStill
<1>3. ASSUME NEW p \in Procs, Read(p) \/ Scan(p) \/ Weigh(p) \/ ScanToArchive(p) \/ ListCases(p)
      PROVE  ChainInv'
  BY <1>2, <1>3, ReadFacts, ScanFacts, WeighFacts, ScanToArchiveFacts, ListCasesFacts
     DEF Begun, Unmoved
<1>4. ASSUME NEW p \in Procs, Sign(p) \/ Attest(p) \/ SignMeasured(p) \/ Tombstone(p)
      PROVE  ChainInv'
  BY <1>1, <1>4, SignFacts, AttestFacts, SignMeasuredFacts, TombstoneFacts
<1>5. ASSUME NEW p \in Procs,
             \/ Put(p) \/ PutFails(p) \/ Index(p) \/ Rebuild(p) \/ Heal(p) \/ HealFails(p)
             \/ Reread(p) \/ Compare(p) \/ Report(p)
      PROVE  ChainInv'
  BY <1>2, <1>5, PutFacts, PutFailsFacts, IndexFacts, RebuildFacts, HealFacts, HealFailsFacts,
     RereadFacts, CompareFacts, ReportFacts DEF Steady, Unmoved
<1>6. ASSUME NEW p \in Procs,
             \/ Admit(p) \/ Measure(p) \/ JudgeArchive(p) \/ Dump(p) \/ Delete(p) \/ Purge(p)
      PROVE  ChainInv'
  BY <1>2, <1>6, AdmitFacts, MeasureFacts, JudgeArchiveFacts, DumpFacts, DeleteFacts, PurgeFacts
     DEF Steady, Unmoved
<1>7. ASSUME NEW p \in Procs, RewriteSpine(p) PROVE ChainInv'
  BY <1>7, RewriteSpineFacts, ChainBroken DEF Broken
<1>8. ASSUME NEW p \in Procs, Die(p) PROVE ChainInv'
  <2>1. \A q \in Procs : tail'[q] \in {tail[q], NoTail}
    BY <1>8, DieFacts DEF ShapeInv, IntegrityTyped
  <2>2. UNCHANGED log \/ "torn" \in wounds'
    BY <1>8, DieFacts
  <2> QED
    BY <1>8, <2>1, <2>2, DieFacts, ChainStill, ChainBroken DEF Broken
<1>9. ASSUME NEW p \in Procs, Restart(p) PROVE ChainInv'
  <2>1. \A q \in Procs : tail'[q] \in {tail[q], NoTail}
    BY <1>9, RestartFacts DEF ShapeInv, IntegrityTyped
  <2> QED
    BY <1>9, <2>1, RestartFacts, ChainStill
<1>10. CASE Rewrite
  BY <1>2, <1>10, RewriteFacts
<1>11. CASE EditRecord
  BY <1>11, EditRecordFacts, ChainBroken DEF Broken
<1>12. CASE UNCHANGED integrityVars
  BY <1>2, <1>12 DEF integrityVars
<1> HIDE DEF ShapeInv, ChainInv
<1> QED
  BY <1>3, <1>4, <1>5, <1>6, <1>7, <1>8, <1>9, <1>10, <1>11, <1>12, IntegritySteps

\* The chain of receipts breaks only for a reason the model names, and a record edited in the
\* file always breaks it, whatever the processes do and however many there are.
THEOREM ChainIsTrue == IntegritySpec => []ChainTellsTheTruth
<1>1. IntegrityInit => ShapeInv /\ ChainInv
  BY ShapeInitial, ChainInitial
<1>2. ShapeInv /\ ChainInv /\ [IntegrityNext]_integrityVars => (ShapeInv /\ ChainInv)'
  BY ShapeKept, ChainKept
<1>3. ChainInv => ChainTellsTheTruth
  BY DEF ChainInv, ChainTellsTheTruth, Broken, Untrusted, ChainOk, Chained
<1> QED
  BY <1>1, <1>2, <1>3, PTL DEF IntegritySpec

----------------------------------------------------------------------------
\* What is retired stays retired.

Stepped(p) == Others(p) \/ Overtaken(p) \/ \E op \in JobOps, pc \in JobPcs : Begun(p, op, pc)

\* The other processes keep their places; what they know of the point only gets older.
LEMMA Bystanders ==
  ASSUME ShapeInv, NEW p \in Procs, Stepped(p)
  PROVE  \A q \in Procs \ {p} :
           /\ job'[q].op = job[q].op /\ job'[q].pc = job[q].pc /\ job'[q].seen = job[q].seen
           /\ job[q].op = "reconcile" /\ ~ job'[q].stale => ~ job[q].stale
BY DEF Stepped, Others, Overtaken, Begun

\* A file after a line that is no tombstone: what retires the case was there before.
LEMMA RetiredKept ==
  ASSUME ShapeInv, NEW m \in Lines, log' = AppendLine(log, m), m.v = 0 \/ m.event # "case_archived"
  PROVE  Retired(log') => Retired(log)
<1>1. log \in Seq(Lines) /\ \A i \in DOMAIN log : Honest(log[i])
  BY DEF ShapeInv, IntegrityTyped
<1>2. Grown(log, log', m) \/ Alike(log, log')
  BY <1>1, Appending
<1> QED
  BY <1>1, <1>2, RetiredGrown, RetiredAlike

LEMMA RetiredSigned ==
  ASSUME ShapeInv, NEW p \in Procs, NEW event, NEW digest, NEW att, event # "case_archived",
         Signing(p, event, digest, att)
  PROVE  Retired(log') => Retired(log)
BY Recorded, RetiredKept DEF Written

Excused(ws) == ws \cap {"gone", "archivers"} # {}

\* What a step of one process owes to the invariant.
LEMMA HealParts ==
  ASSUME ShapeInv, HealInv, NEW p \in Procs, Stepped(p), wounds \subseteq wounds',
         \/ job'[p].op # "archive" \/ job[p].op = "archive" \/ "archivers" \in wounds'
         \/ \A q \in Procs : job[q].op # "archive",
         ~ Excused(wounds') /\ (Doing(p, "archive", "judge") \/ Doing(p, "archive", "tombstone"))'
           => stored' # NoPoint,
         stored # NoPoint /\ stored' = NoPoint => Excused(wounds') \/ job[p].op = "archive",
         stored = NoPoint => stored' = NoPoint \/ Overtaken(p),
         job'[p].op = "reconcile" /\ job'[p].pc \in {"index", "rebuild", "heal"} /\ ~ job'[p].stale
           /\ job'[p].seen = NoPoint => stored' = NoPoint,
         Retired(log') => Retired(log) \/ Doing(p, "archive", "tombstone"),
         job'[p].op = "reconcile" /\ job'[p].pc \in {"rebuild", "heal"} /\ ~ job'[p].stale =>
           \/ ~ Retired(log')
           \/ /\ job[p].op = "reconcile" /\ job[p].pc \in {"rebuild", "heal"}
              /\ ~ job[p].stale /\ UNCHANGED log
  PROVE  HealInv'
<1>0. \A q \in Procs \ {p} :
           /\ job'[q].op = job[q].op /\ job'[q].pc = job[q].pc /\ job'[q].seen = job[q].seen
           /\ job[q].op = "reconcile" /\ ~ job'[q].stale => ~ job[q].stale
  BY Bystanders
<1>1. ASSUME "archivers" \notin wounds', NEW q \in Procs, NEW r \in Procs,
             job'[q].op = "archive", job'[r].op = "archive"
      PROVE  q = r
  BY <1>0, <1>1 DEF HealInv
<1>2. ASSUME ~ Excused(wounds'), NEW q \in Procs,
             (Doing(q, "archive", "judge") \/ Doing(q, "archive", "tombstone"))'
      PROVE  stored' # NoPoint
  <2>1. CASE q = p
    BY <1>2, <2>1
  <2>2. CASE q # p
    <3>1. Doing(q, "archive", "judge") \/ Doing(q, "archive", "tombstone")
      BY <1>0, <1>2, <2>2 DEF Doing
    <3>2. ~ Excused(wounds) /\ "archivers" \notin wounds
      BY <1>2 DEF Excused
    <3>3. stored # NoPoint
      BY <3>1, <3>2 DEF HealInv, Excused
    <3>4. job[p].op # "archive"
      BY <2>2, <3>1, <3>2 DEF HealInv, Doing
    <3> QED
      BY <1>2, <3>3, <3>4
  <2> QED
    BY <2>1, <2>2
<1>3. ASSUME NEW q \in Procs, job'[q].op = "reconcile", job'[q].pc \in {"index", "rebuild", "heal"},
             ~ job'[q].stale, job'[q].seen = NoPoint
      PROVE  stored' = NoPoint
  <2>1. CASE q = p
    BY <1>3, <2>1
  <2>2. CASE q # p
    <3>1. stored = NoPoint
      BY <1>0, <1>3, <2>2 DEF HealInv
    <3>2. ~ Overtaken(p)
      BY <1>0, <1>3, <2>2 DEF Overtaken
    <3> QED
      BY <3>1, <3>2
  <2> QED
    BY <2>1, <2>2
<1>4. ASSUME ~ Excused(wounds'), NEW q \in Procs, job'[q].op = "reconcile",
             job'[q].pc \in {"rebuild", "heal"}, ~ job'[q].stale, Retired(log')
      PROVE  FALSE
  <2>1. ~ Excused(wounds)
    BY <1>4 DEF Excused
  <2>2. PICK r \in Procs : /\ job[r].op = "reconcile" /\ job[r].pc \in {"rebuild", "heal"} /\ ~ job[r].stale
                           /\ q # p \/ UNCHANGED log
    BY <1>0, <1>4
  <2>3. ~ Retired(log) /\ stored = NoPoint
    BY <2>1, <2>2 DEF HealInv, Excused, ShapeInv, Shaped
  <2>4. ~ Doing(p, "archive", "tombstone")
    BY <2>1, <2>3 DEF HealInv, Excused
  <2> QED
    BY <1>4, <2>3, <2>4
<1> QED
  BY <1>1, <1>2, <1>3, <1>4 DEF HealInv, Excused

LEMMA HealInitial == ASSUME IntegrityInit PROVE HealInv
<1>1. \A p \in Procs : job[p].op = "none"
  BY RestFacts DEF IntegrityInit
<1> QED
  BY <1>1 DEF HealInv, Doing

LEMMA HealKept == ASSUME ShapeInv, HealInv, [IntegrityNext]_integrityVars PROVE HealInv'
<1>0. \A op \in {"write", "reconcile", "reattest", "archive", "reset"} : op \in JobOps
  BY DEF JobOps
<1>00. \A pc \in {"sign", "index", "scan", "judge", "purge"} : pc \in JobPcs
  BY DEF JobPcs
<1>1. ASSUME NEW p \in Procs, Read(p) PROVE HealInv'
  BY <1>1, <1>0, <1>00, ReadFacts, HealParts DEF Stepped, Begun, Unmoved, Doing
<1>2. ASSUME NEW p \in Procs, Sign(p) PROVE HealInv'
  <2>1. Retired(log') => Retired(log)
    BY <1>2, SignFacts, RetiredSigned
  <2>2. wounds \subseteq wounds'
    BY <1>2, SignFacts DEF Signing, Written
  <2> QED
    BY <1>2, <2>1, <2>2, SignFacts, HealParts DEF Stepped, Turned, Doing
<1>3. ASSUME NEW p \in Procs, Put(p) PROVE HealInv'
  <2>1. stored' # NoPoint
    BY <1>3, PutFacts, Documents DEF ShapeInv, Shaped, Doing
  <2> QED
    BY <1>3, <2>1, PutFacts, HealParts, RestFacts DEF Stepped, Doing
<1>4. ASSUME NEW p \in Procs, PutFails(p) \/ HealFails(p) \/ Report(p) PROVE HealInv'
  <2>1. Rested(p) /\ Unmoved /\ wounds \subseteq wounds'
    BY <1>4, PutFailsFacts, HealFailsFacts, ReportFacts DEF Steady
  <2> QED
    BY <2>1, HealParts, RestFacts DEF Stepped, Rested, Unmoved, Doing
<1>5. ASSUME NEW p \in Procs, Scan(p) PROVE HealInv'
  <2>1. /\ job'[p].op = "reconcile" /\ job'[p].pc = "index" /\ Stepped(p) /\ wounds \subseteq wounds'
        /\ log' = log /\ stored' = stored
    BY <1>5, <1>0, <1>00, ScanFacts DEF Stepped, Begun, Unmoved
  <2>2. ~ job'[p].stale /\ job'[p].seen = NoPoint => stored' = NoPoint
    BY <1>5, <2>1, ScanFacts
  <2> QED
    BY <2>1, <2>2, HealParts DEF Doing
<1>6. ASSUME NEW p \in Procs, Index(p) PROVE HealInv'
  <2>1. CASE Rested(p)
    BY <1>6, <2>1, IndexFacts, HealParts, RestFacts DEF Stepped, Rested, Steady, Unmoved, Doing
  <2>2. CASE ~ Rested(p)
    BY <1>6, <2>2, IndexFacts, HealParts DEF Stepped, Turned, Steady, Unmoved, Doing, HealInv
  <2> QED
    BY <2>1, <2>2
<1>7. ASSUME NEW p \in Procs, Rebuild(p) PROVE HealInv'
  <2>1. CASE Rested(p)
    BY <1>7, <2>1, RebuildFacts, HealParts, RestFacts DEF Stepped, Rested, Steady, Unmoved, Doing
  <2>2. CASE ~ Rested(p)
    BY <1>7, <2>2, RebuildFacts, HealParts DEF Stepped, Filled, Steady, Unmoved, Doing, HealInv
  <2> QED
    BY <2>1, <2>2
<1>8. ASSUME NEW p \in Procs, Heal(p) PROVE HealInv'
  <2>1. stored' # NoPoint
    BY <1>8, HealFacts, Documents DEF ShapeInv, Shaped, Doing
  <2> QED
    BY <1>8, <2>1, HealFacts, HealParts DEF Stepped, Doing
<1>9. ASSUME NEW p \in Procs, Attest(p) PROVE HealInv'
  <2>1. Retired(log') => Retired(log)
    BY <1>9, AttestFacts, RetiredSigned
  <2>2. wounds \subseteq wounds'
    BY <1>9, AttestFacts DEF Signing, Written
  <2> QED
    BY <1>9, <2>1, <2>2, AttestFacts, HealParts DEF Stepped, Turned, Doing
<1>10. ASSUME NEW p \in Procs, Reread(p) PROVE HealInv'
  <2>1. CASE Rested(p)
    BY <1>10, <2>1, RereadFacts, HealParts, RestFacts DEF Stepped, Rested, Steady, Unmoved, Doing
  <2>2. CASE ~ Rested(p)
    BY <1>10, <2>2, RereadFacts, HealParts DEF Stepped, Filled, Steady, Unmoved, Doing
  <2> QED
    BY <2>1, <2>2
<1>11. ASSUME NEW p \in Procs, Compare(p) PROVE HealInv'
  BY <1>11, CompareFacts, HealParts DEF Stepped, Filled, Steady, Unmoved, Doing
<1>12. ASSUME NEW p \in Procs, Weigh(p) PROVE HealInv'
  BY <1>12, <1>0, <1>00, WeighFacts, HealParts DEF Stepped, Begun, Unmoved, Doing
<1>13. ASSUME NEW p \in Procs, Admit(p) PROVE HealInv'
  <2>1. CASE Rested(p)
    BY <1>13, <2>1, AdmitFacts, HealParts, RestFacts DEF Stepped, Rested, Unmoved, Doing
  <2>2. CASE ~ Rested(p)
    BY <1>13, <2>2, AdmitFacts, HealParts DEF Stepped, Admitted, Unmoved, Doing
  <2> QED
    BY <2>1, <2>2
<1>14. ASSUME NEW p \in Procs, Measure(p) PROVE HealInv'
  <2>1. CASE Rested(p)
    BY <1>14, <2>1, MeasureFacts, HealParts, RestFacts DEF Stepped, Rested, Steady, Unmoved, Doing
  <2>2. CASE ~ Rested(p)
    BY <1>14, <2>2, MeasureFacts, HealParts DEF Stepped, Filled, Steady, Unmoved, Doing
  <2> QED
    BY <2>1, <2>2
<1>15. ASSUME NEW p \in Procs, SignMeasured(p) PROVE HealInv'
  <2>1. Retired(log') => Retired(log)
    BY <1>15, SignMeasuredFacts, RetiredSigned
  <2>2. wounds \subseteq wounds'
    BY <1>15, SignMeasuredFacts DEF Signing, Written
  <2> QED
    BY <1>15, <2>1, <2>2, SignMeasuredFacts, HealParts, RestFacts DEF Stepped, Rested, Doing
<1>16. ASSUME NEW p \in Procs, ScanToArchive(p) PROVE HealInv'
  <2>1. stored' # NoPoint
    BY <1>16, ScanToArchiveFacts, Documents DEF Unmoved
  <2> QED
    BY <1>16, <1>0, <1>00, <2>1, ScanToArchiveFacts, HealParts DEF Stepped, Begun, Unmoved, Doing
<1>17. ASSUME NEW p \in Procs, JudgeArchive(p) PROVE HealInv'
  <2>1. CASE Rested(p)
    BY <1>17, <2>1, JudgeArchiveFacts, HealParts, RestFacts DEF Stepped, Rested, Steady, Unmoved, Doing
  <2>2. CASE ~ Rested(p)
    BY <1>17, <2>2, JudgeArchiveFacts, HealParts
       DEF Stepped, Turned, Steady, Unmoved, Doing, HealInv, Excused
  <2> QED
    BY <2>1, <2>2
<1>18. ASSUME NEW p \in Procs, Tombstone(p) PROVE HealInv'
  <2>1. wounds \subseteq wounds'
    BY <1>18, TombstoneFacts DEF Signing, Written
  <2> QED
    BY <1>18, <2>1, TombstoneFacts, HealParts DEF Stepped, Turned, Doing
<1>19. ASSUME NEW p \in Procs, Dump(p) PROVE HealInv'
  BY <1>19, DumpFacts, HealParts DEF Stepped, Turned, Doing
<1>20. ASSUME NEW p \in Procs, Delete(p) PROVE HealInv'
  BY <1>20, DeleteFacts, HealParts, RestFacts DEF Stepped, Rested, Doing
<1>21. ASSUME NEW p \in Procs, ListCases(p) PROVE HealInv'
  BY <1>21, <1>0, <1>00, ListCasesFacts, HealParts DEF Stepped, Begun, Unmoved, Doing
<1>22. ASSUME NEW p \in Procs, Purge(p) PROVE HealInv'
  BY <1>22, PurgeFacts, HealParts DEF Stepped, Turned, Doing, Excused
<1>23. ASSUME NEW p \in Procs, RewriteSpine(p) PROVE HealInv'
  <2>1. ~ Retired(log')
    <3>1. log' = <<>>
      BY <1>23, RewriteSpineFacts
    <3>2. log' \in Seq(Lines) /\ Len(log') = 0
      BY <3>1, EmptySeq
    <3>3. DOMAIN log' = 1..0
      BY <3>2, LenProperties
    <3> QED
      BY <3>3 DEF Retired, Known, Readable
  <2> QED
    BY <1>23, <2>1, RewriteSpineFacts, HealParts, RestFacts DEF Stepped, Rested, Doing
<1>24. ASSUME NEW p \in Procs, Die(p) PROVE HealInv'
  <2>1. Retired(log') => Retired(log)
    BY <1>24, DieFacts, RetiredKept, UnreadableLine
  <2> QED
    BY <1>24, <2>1, DieFacts, HealParts, RestFacts DEF Stepped, Rested, Doing
<1>25. ASSUME NEW p \in Procs, Restart(p) PROVE HealInv'
  BY <1>25, RestartFacts DEF HealInv, Doing
<1>26. CASE Rewrite
  BY <1>26, RewriteFacts, Documents DEF HealInv, Doing
<1>27. CASE EditRecord
  <2>1. Retired(log') <=> Retired(log)
    <3>1. log \in Seq(Lines)
      BY DEF ShapeInv, IntegrityTyped
    <3> QED
      BY <1>27, <3>1, EditRecordFacts, RetiredAlike
  <2> QED
    BY <1>27, <2>1, EditRecordFacts DEF HealInv, Doing
<1>28. CASE UNCHANGED integrityVars
  BY <1>28 DEF integrityVars, HealInv, Doing
<1> HIDE DEF ShapeInv, HealInv
<1> QED
  BY <1>1, <1>2, <1>3, <1>4, <1>5, <1>6, <1>7, <1>8, <1>9, <1>10, <1>11, <1>12, <1>13, <1>14,
     <1>15, <1>16, <1>17, <1>18, <1>19, <1>20, <1>21, <1>22, <1>23, <1>24, <1>25, <1>26, <1>27,
     <1>28, IntegritySteps

\* A heal that puts the point of a retired case had been blind or overtaken, or the point was
\* taken from under an archiver, whatever the processes do and however many there are.
THEOREM RetiredStaysRetired == IntegritySpec => RetiredIsNotHealed
<1>1. IntegrityInit => ShapeInv /\ HealInv
  BY ShapeInitial, HealInitial
<1>2. ShapeInv /\ HealInv /\ [IntegrityNext]_integrityVars => (ShapeInv /\ HealInv)'
  BY ShapeKept, HealKept
<1>3. ASSUME ShapeInv, HealInv, NEW p \in Procs, Heal(p), Retired(log)
      PROVE  job[p].stale \/ wounds \cap {"gone", "archivers"} # {}
  BY <1>3 DEF Heal, Doing, HealInv
<1>4. ShapeInv /\ HealInv =>
        [\A p \in Procs :
           Heal(p) /\ Retired(log) => job[p].stale \/ wounds \cap {"gone", "archivers"} # {}]_integrityVars
  BY <1>3
<1> QED
  BY <1>1, <1>2, <1>4, PTL DEF IntegritySpec, RetiredIsNotHealed

----------------------------------------------------------------------------
\* What reconcile reports, it has reason to.

\* The other processes, while one does a step: whoever is at work knows of the overlap.
Beside(p) ==
  \A q \in Procs \ {p} :
    /\ job'[q].op = job[q].op /\ job'[q].pc = job[q].pc /\ job'[q].doc = job[q].doc
    /\ job'[q].seen = job[q].seen /\ job'[q].told = job[q].told
    /\ ~ Resting(q) => job'[q].raced

LEMMA WorkingBeside ==
  ASSUME OverlapInv, NEW p \in Procs, ~ Resting(p), Others(p) \/ Overtaken(p)
  PROVE  Beside(p)
BY DEF OverlapInv, Others, Overtaken, Beside

LEMMA BegunBeside ==
  ASSUME NEW p \in Procs, NEW op, NEW pc, Begun(p, op, pc)
  PROVE  Beside(p)
BY DEF Begun, Beside

\* What a step of one process owes to the invariant of overlaps.
LEMMA OverlapParts ==
  ASSUME ShapeInv, OverlapInv, NEW p \in Procs, Beside(p), wounds \subseteq wounds',
         Resting(p)' \/ job'[p].raced \/ \A q \in Procs \ {p} : Resting(q),
         Writing(p)' => \/ Writing(p) \/ "race" \in wounds'
                        \/ \A q \in Procs \ {p} : ~ Writing(q)
  PROVE  OverlapInv'
<1>1. \A q \in Procs \ {p} : /\ Resting(q)' <=> Resting(q)
                             /\ Writing(q)' <=> Writing(q)
                             /\ ~ Resting(q) => job'[q].raced
  BY DEF Beside, Resting, Writing
<1>2. ASSUME NEW q \in Procs, NEW r \in Procs, q # r, ~ Resting(q)', ~ Resting(r)'
      PROVE  job'[q].raced
  <2>1. CASE q = p
    BY <1>1, <1>2, <2>1
  <2>2. CASE q # p
    BY <1>1, <1>2, <2>2
  <2> QED
    BY <2>1, <2>2
<1>3. ASSUME "race" \notin wounds', NEW q \in Procs, NEW r \in Procs, Writing(q)', Writing(r)'
      PROVE  q = r
  <2> HIDE DEF Writing
  <2> QED
    BY <1>1, <1>3 DEF OverlapInv
<1> QED
  BY <1>2, <1>3 DEF OverlapInv

LEMMA OverlapInitial == ASSUME IntegrityInit PROVE OverlapInv
<1>1. \A p \in Procs : job[p].pc = "rest" /\ job[p].op = "none"
  BY RestFacts DEF IntegrityInit
<1> QED
  BY <1>1 DEF OverlapInv, Resting, Writing

\* A process that goes on in its operation, or ends it.
LEMMA OverlapGoing ==
  ASSUME ShapeInv, OverlapInv, NEW p \in Procs, ~ Resting(p), Others(p) \/ Overtaken(p),
         wounds \subseteq wounds',
         \/ job'[p] = Rest
         \/ /\ job'[p].op = job[p].op /\ (job'[p].raced <=> job[p].raced)
            /\ job'[p].pc = "attest" => job[p].pc = "attest"
  PROVE  OverlapInv'
<1>1. Beside(p)
  BY WorkingBeside
<1>2. CASE job'[p] = Rest
  BY <1>1, <1>2, OverlapParts, RestFacts DEF Resting, Writing
<1>3. CASE /\ job'[p].op = job[p].op /\ (job'[p].raced <=> job[p].raced)
           /\ job'[p].pc = "attest" => job[p].pc = "attest"
  <2>1. job'[p].raced \/ \A q \in Procs \ {p} : Resting(q)
    BY <1>3 DEF OverlapInv
  <2>2. Writing(p)' => Writing(p)
    BY <1>3 DEF Writing
  <2> QED
    BY <1>1, <2>1, <2>2, OverlapParts
<1> QED
  BY <1>2, <1>3

LEMMA OverlapBegun ==
  ASSUME ShapeInv, OverlapInv, NEW p \in Procs, NEW op, NEW pc, Resting(p), Begun(p, op, pc),
         pc # "attest"
  PROVE  OverlapInv'
<1>1. Beside(p)
  BY BegunBeside
<1>2. job'[p].raced \/ \A q \in Procs \ {p} : Resting(q)
  BY DEF Begun
<1>3. Writing(p)' => "race" \in wounds' \/ \A q \in Procs \ {p} : ~ Writing(q)
  BY DEF Begun, Writing
<1> QED
  BY <1>1, <1>2, <1>3, OverlapParts DEF Begun

LEMMA OverlapKept == ASSUME ShapeInv, OverlapInv, [IntegrityNext]_integrityVars PROVE OverlapInv'
<1>1. ASSUME NEW p \in Procs, Read(p) \/ Scan(p) \/ Weigh(p) \/ ScanToArchive(p) \/ ListCases(p)
      PROVE  OverlapInv'
  BY <1>1, ReadFacts, ScanFacts, WeighFacts, ScanToArchiveFacts, ListCasesFacts, OverlapBegun
<1>2. ASSUME NEW p \in Procs, Sign(p) \/ Attest(p) \/ SignMeasured(p) \/ Tombstone(p)
      PROVE  OverlapInv'
  <2>1. wounds \subseteq wounds'
    BY <1>2, SignFacts, AttestFacts, SignMeasuredFacts, TombstoneFacts DEF Signing, Written
  <2> QED
    BY <1>2, <2>1, SignFacts, AttestFacts, SignMeasuredFacts, TombstoneFacts, OverlapGoing
       DEF Turned, Rested, Resting, Doing
<1>3. ASSUME NEW p \in Procs,
             \/ Put(p) \/ PutFails(p) \/ HealFails(p) \/ Report(p) \/ Delete(p) \/ RewriteSpine(p)
             \/ Die(p)
      PROVE  OverlapInv'
  <2>1. ~ Resting(p) /\ job'[p] = Rest /\ (Others(p) \/ Overtaken(p)) /\ wounds \subseteq wounds'
    BY <1>3, PutFacts, PutFailsFacts, HealFailsFacts, ReportFacts, DeleteFacts,
       RewriteSpineFacts, DieFacts DEF Rested, Steady, Resting, Doing
  <2> QED
    BY <2>1, OverlapGoing
<1>4. ASSUME NEW p \in Procs, Index(p) \/ Rebuild(p) \/ Reread(p) \/ Compare(p)
      PROVE  OverlapInv'
  <2>1. /\ ~ Resting(p) /\ Others(p) /\ UNCHANGED wounds
        /\ \/ job'[p] = Rest
           \/ /\ job'[p].op = job[p].op /\ job'[p].raced = job[p].raced
              /\ job'[p].pc # "attest"
    BY <1>4, IndexFacts, RebuildFacts, RereadFacts, CompareFacts
       DEF Turned, Filled, Rested, Steady, Resting, Doing
  <2> QED
    BY <2>1, OverlapGoing
<1>5. ASSUME NEW p \in Procs, Admit(p) \/ Measure(p) \/ JudgeArchive(p) \/ Dump(p) \/ Purge(p)
      PROVE  OverlapInv'
  <2>1. /\ ~ Resting(p) /\ Others(p) /\ wounds \subseteq wounds'
        /\ \/ job'[p] = Rest
           \/ /\ job'[p].op = job[p].op /\ job'[p].raced = job[p].raced
              /\ job'[p].pc # "attest"
    BY <1>5, AdmitFacts, MeasureFacts, JudgeArchiveFacts, DumpFacts, PurgeFacts
       DEF Turned, Filled, Admitted, Rested, Steady, Resting, Doing
  <2> QED
    BY <2>1, OverlapGoing
<1>6. ASSUME NEW p \in Procs, Heal(p) PROVE OverlapInv'
  <2>1. ~ Resting(p)
    BY <1>6, HealFacts DEF Resting, Doing
  <2>2. Beside(p) /\ wounds \subseteq wounds'
    BY <1>6, <2>1, HealFacts, WorkingBeside
  <2>3. CASE job[p].raced
    BY <1>6, <2>2, <2>3, HealFacts, OverlapParts
  <2>4. CASE ~ job[p].raced
    <3>1. \A q \in Procs \ {p} : Resting(q)
      BY <2>1, <2>4 DEF OverlapInv
    <3>2. \A q \in Procs \ {p} : ~ Writing(q)
      BY <3>1 DEF Writing, Resting, ShapeInv, Shaped
    <3> QED
      BY <2>2, <3>1, <3>2, OverlapParts
  <2> QED
    BY <2>3, <2>4
<1>7. ASSUME NEW p \in Procs, Restart(p) PROVE OverlapInv'
  BY <1>7, RestartFacts DEF OverlapInv, Resting, Writing
<1>8. CASE Rewrite
  BY <1>8, RewriteFacts DEF OverlapInv, Resting, Writing
<1>9. CASE EditRecord
  BY <1>9, EditRecordFacts DEF OverlapInv, Resting, Writing
<1>10. CASE UNCHANGED integrityVars
  BY <1>10 DEF integrityVars, OverlapInv, Resting, Writing
<1> HIDE DEF ShapeInv, OverlapInv
<1> QED
  BY <1>1, <1>2, <1>3, <1>4, <1>5, <1>6, <1>7, <1>8, <1>9, <1>10, IntegritySteps

----------------------------------------------------------------------------
\* What is called drifted.

\* What a step of one process owes to the invariant.
LEMMA DriftParts ==
  ASSUME ShapeInv, OverlapInv, OverlapInv', DriftInv, NEW p \in Procs, Beside(p),
         wounds \subseteq wounds', Earned(p)',
         Calm' => /\ WholeFile' /\ Holding(p)' /\ Scanned(p)'
                  /\ UNCHANGED log \/ Writing(p)
                  /\ stored' \in {stored, NoPoint} \/ Writing(p) \/ Writing(p)'
                  /\ ~ Pending(p)' =>
                       Agrees(stored)' \/ (UNCHANGED <<log, stored>> /\ ~ Pending(p))
  PROVE  DriftInv'
<1>1. \A q \in Procs \ {p} : ~ Resting(q) => job'[q].raced
  BY DEF Beside
<1>2. ASSUME NEW q \in Procs \ {p} PROVE Earned(q)'
  <2>1. Doing(q, "reconcile", "report")' => ~ Resting(q)
    BY DEF Beside, Doing, Resting
  <2> QED
    BY <1>1, <2>1 DEF Earned
<1>3. Calm' => Calm
  BY DEF Calm
<1>4. ASSUME Calm', NEW q \in Procs \ {p} PROVE Holding(q)' /\ Scanned(q)'
  <2>1. Holding(q) /\ "race" \notin wounds /\ "race" \notin wounds'
    BY <1>3, <1>4 DEF DriftInv, Calm
  <2>2. ASSUME Doing(q, "write", "put")'
        PROVE  log' # <<>> /\ log'[Len(log')].digest = job'[q].doc
    <3>1. Doing(q, "write", "put") /\ job'[q].doc = job[q].doc
      BY <2>2 DEF Beside, Doing
    <3>2. ~ Writing(p)
      BY <2>1, <3>1 DEF OverlapInv, Writing, Doing
    <3> QED
      BY <1>4, <2>1, <3>1, <3>2 DEF Holding
  <2>3. ASSUME (Doing(q, "reconcile", "attest") \/ Doing(q, "reattest", "sign"))'
        PROVE  stored' \in {NoPoint, job'[q].doc}
    <3>1. Doing(q, "reconcile", "attest") \/ Doing(q, "reattest", "sign")
      BY <2>3 DEF Beside, Doing
    <3>2. job'[q].doc = job[q].doc /\ Writing(q) /\ Writing(q)'
      BY <2>3, <3>1 DEF Beside, Doing, Writing
    <3>3. ~ Writing(p) /\ ~ Writing(p)'
      <4> HIDE DEF Writing
      <4> QED
        BY <2>1, <3>2 DEF OverlapInv
    <3> QED
      BY <1>4, <2>1, <3>1, <3>2, <3>3 DEF Holding
  <2>4. Scanned(q)'
    <3>1. job'[q].op = "reconcile" => ~ Resting(q)
      BY DEF Beside, ShapeInv, Shaped
    <3> QED
      BY <1>1, <3>1 DEF Scanned
  <2> QED
    BY <2>2, <2>3, <2>4 DEF Holding
<1>5. ASSUME Calm', \A q \in Procs : ~ Pending(q)' PROVE Agrees(stored)'
  <2>1. \A q \in Procs \ {p} : ~ Pending(q)
    BY <1>5 DEF Beside, Pending, Doing
  <2>2. CASE UNCHANGED <<log, stored>> /\ ~ Pending(p)
    BY <1>3, <1>5, <2>1, <2>2 DEF DriftInv, Agrees, Chained
  <2> QED
    BY <1>5, <2>2
<1> HIDE DEF Calm, WholeFile, Holding, Scanned, Pending, Agrees, Earned
<1> QED
  BY <1>2, <1>4, <1>5 DEF DriftInv

\* After a receipt of a calm spine, the file ends with what was signed.
LEMMA DriftSigned ==
  ASSUME ShapeInv, DriftInv, NEW p \in Procs, NEW event, NEW digest, NEW att,
         Signing(p, event, digest, att), Calm'
  PROVE  /\ WholeFile' /\ log' # <<>>
         /\ log'[Len(log')].digest = digest /\ log'[Len(log')].event = event
         /\ event # "case_archived" => ~ Retired(log')
<1>1. PICK m \in Lines :
        /\ m.v \in {1, 2} /\ m.event = event /\ m.digest = digest /\ Written(p, m)
  BY Recorded
<1>2. wounds \subseteq wounds' /\ m.v = 2 /\ log' = AppendLine(log, m)
  BY <1>1 DEF Written, Calm
<1>3. \A i \in DOMAIN log : log[i].v # 0
  BY <1>2 DEF DriftInv, Calm, WholeFile
<1>4. Grown(log, log', m)
  BY <1>2, <1>3, Whole
<1>5. log \in Seq(Lines)
  BY DEF ShapeInv, IntegrityTyped
<1>6. /\ Len(log) \in Nat /\ DOMAIN log = 1..Len(log) /\ DOMAIN log' = 1..(Len(log) + 1)
      /\ Len(log') = Len(log) + 1 /\ log' \in Seq(Lines)
  BY <1>4, <1>5, LenProperties DEF Grown
<1>7. log'[Len(log')] = m /\ log' # <<>>
  BY <1>4, <1>6, EmptySeq DEF Grown
<1>8. \A i \in DOMAIN log' : log'[i].v # 0
  <2> TAKE i \in DOMAIN log'
  <2>1. i \in 1..Len(log) \/ i = Len(log')
    BY <1>6
  <2> QED
    BY <1>2, <1>3, <1>4, <1>6, <1>7, <2>1 DEF Grown
<1>9. event # "case_archived" => ~ Retired(log')
  BY <1>1, <1>2, <1>4, <1>5, RetiredGrown
<1> QED
  BY <1>1, <1>2, <1>7, <1>8, <1>9 DEF WholeFile

LEMMA DriftStill ==
  ASSUME DriftInv, UNCHANGED log, wounds \subseteq wounds'
  PROVE  Calm' => WholeFile' /\ Calm
BY DEF DriftInv, Calm, WholeFile, Chained

\* An operation begins, and touches nothing yet.
LEMMA DriftBegun ==
  ASSUME ShapeInv, OverlapInv, OverlapInv', DriftInv, NEW p \in Procs, NEW op, NEW pc,
         Resting(p), Begun(p, op, pc), Unmoved, pc \notin {"put", "attest", "report"},
         ~ (op = "reattest" /\ pc = "sign"), Calm' => Scanned(p)'
  PROVE  DriftInv'
<1>1. Beside(p) /\ wounds \subseteq wounds'
  BY BegunBeside DEF Begun
<1>2. Earned(p)' /\ Holding(p)' /\ ~ Pending(p)' /\ ~ Pending(p)
  BY DEF Earned, Holding, Pending, Begun, Doing, Resting
<1>3. UNCHANGED <<log, stored>>
  BY DEF Unmoved
<1> HIDE DEF Earned, Holding, Pending, Scanned, Calm, WholeFile, Agrees
<1> QED
  BY <1>1, <1>2, <1>3, DriftStill, DriftParts

\* An operation ends, and touches nothing more.
LEMMA DriftRested ==
  ASSUME ShapeInv, OverlapInv, OverlapInv', DriftInv, NEW p \in Procs,
         ~ Resting(p), Rested(p), UNCHANGED log, wounds \subseteq wounds',
         Calm' => ~ Pending(p) /\ stored' \in {stored, NoPoint}
  PROVE  DriftInv'
<1>1. Beside(p)
  BY WorkingBeside DEF Rested
<1>2. Earned(p)' /\ Holding(p)' /\ Scanned(p)'
  BY RestFacts DEF Earned, Holding, Scanned, Rested, Doing
<1>3. stored' = NoPoint => Agrees(stored)'
  BY DEF Agrees
<1> HIDE DEF Earned, Holding, Pending, Scanned, Calm, WholeFile, Agrees
<1> QED
  BY <1>1, <1>2, <1>3, DriftStill, DriftParts

\* An operation goes on, and touches nothing but the point, which it may take away.
LEMMA DriftTurned ==
  ASSUME ShapeInv, OverlapInv, OverlapInv', DriftInv, NEW p \in Procs,
         ~ Resting(p), Others(p), UNCHANGED log, wounds \subseteq wounds',
         stored' \in {stored, NoPoint}, ~ Pending(p), Earned(p)',
         Calm' => Holding(p)' /\ Scanned(p)'
  PROVE  DriftInv'
<1>1. Beside(p)
  BY WorkingBeside
<1>2. stored' = NoPoint => Agrees(stored)'
  BY DEF Agrees
<1> HIDE DEF Earned, Holding, Pending, Scanned, Calm, WholeFile, Agrees
<1> QED
  BY <1>1, <1>2, DriftStill, DriftParts

LEMMA DriftInitial == ASSUME IntegrityInit PROVE DriftInv
<1>1. \A p \in Procs : job[p].op = "none"
  BY RestFacts DEF IntegrityInit
<1>2. \A i \in DOMAIN log : log[i].v = 1
  BY InitialFile
<1>3. WholeFile /\ Agrees(stored)
  BY <1>2 DEF WholeFile, Agrees, Chained
<1>4. \A p \in Procs : Holding(p) /\ Scanned(p) /\ Earned(p)
  BY <1>1 DEF Holding, Scanned, Earned, Doing
<1> HIDE DEF Earned, Holding, Pending, Scanned, Calm, WholeFile, Agrees
<1> QED
  BY <1>3, <1>4 DEF DriftInv

\* A reconcile that was alone, over a calm spine, finds no drift.
LEMMA DriftCompared ==
  ASSUME ShapeInv, DriftInv, NEW p \in Procs, Doing(p, "reconcile", "compare"), ~ job[p].raced, Calm
  PROVE  Judged(job[p].seen, log) # "drifted"
<1> SUFFICES ASSUME Judged(job[p].seen, log) = "drifted" PROVE FALSE
  OBVIOUS
<1>1. WholeFile /\ Agrees(job[p].seen) /\ ~ Retired(log)
  BY DEF DriftInv, Scanned, Doing
<1>2. log \in Seq(Lines) /\ job[p].seen \in Docs /\ NoPoint \notin Docs
  BY Documents DEF ShapeInv, IntegrityTyped, Shaped, Doing
<1>3. ~ Untrusted(log) /\ Attested(log).v # 0 /\ Attested(log).digest # job[p].seen
  <2>1. \A i \in DOMAIN log : log[i].att # "drifted"
    <3> TAKE i \in DOMAIN log
    <3>1. log[i] \in Lines
      BY <1>2
    <3>2. log[i].att \in {"", "write", "reattest"}
      BY <3>1 DEF Lines
    <3> QED
      BY <3>2
  <2>2. ~ Untrusted(log) /\ Attested(log).v # 0
    BY DEF Judged
  <2>3. Chained(log) # {} /\ Attested(log) = log[Max(Chained(log))]
    BY <2>2, UnreadableLine DEF Attested
  <2>4. Max(Chained(log)) \in DOMAIN log
    <3>1. Len(log) \in Nat /\ DOMAIN log = 1..Len(log) /\ Chained(log) \subseteq 1..Len(log)
      BY <1>2, LenProperties DEF Chained
    <3> QED
      BY <2>3, <3>1, MaxOf
  <2>5. Attested(log).att # "drifted"
    BY <2>1, <2>3, <2>4
  <2> QED
    BY <2>2, <2>5 DEF Judged
<1>4. Chained(log) # {}
  BY <1>3, UnreadableLine DEF Attested
<1>5. Attested(log) = log[Len(log)] /\ log # <<>>
  BY <1>1, <1>2, <1>3, <1>4, LastCounts DEF WholeFile
<1>6. log[Len(log)].event # "case_archived"
  BY <1>1, <1>2, <1>5, LastCounts DEF WholeFile
<1> QED
  BY <1>1, <1>2, <1>3, <1>4, <1>5, <1>6 DEF Agrees

LEMMA DriftKept ==
  ASSUME ShapeInv, OverlapInv, OverlapInv', DriftInv, [IntegrityNext]_integrityVars
  PROVE  DriftInv'
<1>1. ASSUME NEW p \in Procs, Read(p) PROVE DriftInv'
  <2>1. Resting(p) /\ Begun(p, "write", "sign") /\ Unmoved
    BY <1>1, ReadFacts
  <2>2. Scanned(p)'
    BY <2>1 DEF Begun, Scanned
  <2> QED
    BY <2>1, <2>2, DriftBegun
<1>2. ASSUME NEW p \in Procs, Weigh(p) PROVE DriftInv'
  <2>1. Resting(p) /\ Begun(p, "reattest", "scan") /\ Unmoved
    BY <1>2, WeighFacts
  <2>2. Scanned(p)'
    BY <2>1 DEF Begun, Scanned
  <2> QED
    BY <2>1, <2>2, DriftBegun
<1>3. ASSUME NEW p \in Procs, ScanToArchive(p) PROVE DriftInv'
  <2>1. Resting(p) /\ Begun(p, "archive", "judge") /\ Unmoved
    BY <1>3, ScanToArchiveFacts
  <2>2. Scanned(p)'
    BY <2>1 DEF Begun, Scanned
  <2> QED
    BY <2>1, <2>2, DriftBegun
<1>4. ASSUME NEW p \in Procs, ListCases(p) PROVE DriftInv'
  <2>1. Resting(p) /\ Begun(p, "reset", "purge") /\ Unmoved
    BY <1>4, ListCasesFacts
  <2>2. Scanned(p)'
    BY <2>1 DEF Begun, Scanned
  <2> QED
    BY <2>1, <2>2, DriftBegun
<1>5. ASSUME NEW p \in Procs, Scan(p) PROVE DriftInv'
  <2>1. /\ Resting(p) /\ Begun(p, "reconcile", "index") /\ Unmoved
        /\ job'[p].seen \in {NoPoint, stored}
    BY <1>5, ScanFacts
  <2>2. ASSUME Calm', ~ job'[p].raced PROVE Agrees(job[p].seen)'
    <3>1. \A q \in Procs : ~ Pending(q)
      BY <2>1, <2>2 DEF Begun, Pending, Doing, Resting
    <3>2. Calm
      BY <2>1, <2>2 DEF Begun, Calm
    <3>3. Agrees(stored)
      BY <3>1, <3>2 DEF DriftInv
    <3> QED
      BY <2>1, <3>3 DEF Unmoved, Agrees, Chained
  <2>3. Calm' => Scanned(p)'
    BY <2>1, <2>2 DEF Begun, Scanned
  <2> QED
    BY <2>1, <2>3, DriftBegun
<1>6. ASSUME NEW p \in Procs, Sign(p) PROVE DriftInv'
  <2>1. /\ Doing(p, "write", "sign") /\ Turned(p, "put") /\ UNCHANGED stored
        /\ Signing(p, "write", job[p].doc, "write") /\ ~ Resting(p)
    BY <1>6, SignFacts DEF Doing, Resting
  <2>2. Beside(p) /\ wounds \subseteq wounds'
    BY <2>1, WorkingBeside, Recorded DEF Turned, Written
  <2>3. Earned(p)' /\ Scanned(p)' /\ Pending(p)' /\ Writing(p)
    BY <2>1 DEF Turned, Doing, Earned, Scanned, Pending, Writing
  <2>4. Calm' => WholeFile' /\ log' # <<>> /\ log'[Len(log')].digest = job[p].doc
    BY <2>1, DriftSigned
  <2>5. Calm' => Holding(p)'
    BY <2>1, <2>4 DEF Turned, Doing, Holding
  <2> HIDE DEF Earned, Holding, Pending, Scanned, Calm, WholeFile, Agrees
  <2> QED
    BY <2>1, <2>2, <2>3, <2>4, <2>5, DriftParts
<1>7. ASSUME NEW p \in Procs, Put(p) PROVE DriftInv'
  <2>1. /\ Doing(p, "write", "put") /\ Overtaken(p) /\ job'[p] = Rest /\ ~ Resting(p)
        /\ stored' = job[p].doc /\ UNCHANGED <<log, wounds>>
    BY <1>7, PutFacts DEF Doing, Resting
  <2>2. Beside(p)
    BY <2>1, WorkingBeside
  <2>3. Earned(p)' /\ Scanned(p)' /\ Holding(p)' /\ Writing(p)
    BY <2>1, RestFacts DEF Doing, Earned, Scanned, Holding, Writing
  <2>4. Calm' => Agrees(stored)'
    BY <2>1 DEF DriftInv, Calm, Holding, Agrees
  <2> HIDE DEF Earned, Holding, Pending, Scanned, Calm, WholeFile, Agrees
  <2> QED
    BY <2>1, <2>2, <2>3, <2>4, DriftStill, DriftParts
<1>8. ASSUME NEW p \in Procs, PutFails(p) PROVE DriftInv'
  BY <1>8, PutFailsFacts, DriftRested DEF Unmoved, Calm, Doing, Resting
<1>9. ASSUME NEW p \in Procs, HealFails(p) \/ Report(p) PROVE DriftInv'
  <2>1. ~ Resting(p) /\ Rested(p) /\ UNCHANGED <<log, stored, wounds>> /\ ~ Pending(p)
    BY <1>9, HealFailsFacts, ReportFacts DEF Steady, Unmoved, Doing, Resting, Pending
  <2> QED
    BY <2>1, DriftRested
<1>10. ASSUME NEW p \in Procs, Rested(p), Index(p) \/ Rebuild(p) \/ Reread(p) PROVE DriftInv'
  <2>1. ~ Resting(p) /\ Rested(p) /\ UNCHANGED <<log, stored, wounds>> /\ ~ Pending(p)
    BY <1>10, IndexFacts, RebuildFacts, RereadFacts DEF Steady, Unmoved, Doing, Resting, Pending
  <2> QED
    BY <2>1, DriftRested
<1>11. ASSUME NEW p \in Procs, Rested(p), Admit(p) \/ Measure(p) \/ JudgeArchive(p) \/ Delete(p)
       PROVE  DriftInv'
  <2>1. /\ ~ Resting(p) /\ Rested(p) /\ UNCHANGED <<log, wounds>> /\ ~ Pending(p)
        /\ stored' \in {stored, NoPoint}
    BY <1>11, AdmitFacts, MeasureFacts, JudgeArchiveFacts, DeleteFacts
       DEF Steady, Unmoved, Doing, Resting, Pending
  <2> QED
    BY <2>1, DriftRested
<1>12. ASSUME NEW p \in Procs, Index(p), ~ Rested(p) PROVE DriftInv'
  <2>1. /\ Doing(p, "reconcile", "index") /\ UNCHANGED <<log, stored, wounds>>
        /\ Turned(p, "rebuild") \/ (Turned(p, "compare") /\ ~ Retired(log))
    BY <1>12, IndexFacts DEF Steady, Unmoved
  <2>2. ~ Resting(p) /\ Others(p) /\ ~ Pending(p) /\ Earned(p)' /\ Holding(p)'
    BY <2>1 DEF Turned, Doing, Resting, Pending, Earned, Holding
  <2>3. ASSUME Calm' PROVE Scanned(p)'
    <3>1. Calm
      BY <2>1, <2>3 DEF Calm
    <3>2. Scanned(p)
      BY <3>1 DEF DriftInv
    <3> QED
      BY <2>1, <3>2 DEF Turned, Doing, Scanned, Agrees, Chained
  <2> QED
    BY <2>1, <2>2, <2>3, DriftTurned
<1>13. ASSUME NEW p \in Procs, Rebuild(p), ~ Rested(p) PROVE DriftInv'
  <2>1. /\ Doing(p, "reconcile", "rebuild") /\ UNCHANGED <<log, stored, wounds>>
        /\ \E doc, seen, told : Filled(p, "heal", doc, seen, told)
    BY <1>13, RebuildFacts DEF Steady, Unmoved
  <2>2. /\ ~ Resting(p) /\ Others(p) /\ ~ Pending(p) /\ Earned(p)' /\ Holding(p)'
        /\ Scanned(p)'
    BY <2>1 DEF Filled, Doing, Resting, Pending, Earned, Holding, Scanned
  <2> QED
    BY <2>1, <2>2, DriftTurned
<1>14. ASSUME NEW p \in Procs, Heal(p) PROVE DriftInv'
  <2>1. /\ Doing(p, "reconcile", "heal") /\ Overtaken(p) /\ ~ Resting(p)
        /\ stored' = job[p].doc /\ job'[p].op = "reconcile" /\ job'[p].pc = "attest"
        /\ job'[p].doc = job[p].doc /\ UNCHANGED log /\ wounds \subseteq wounds'
    BY <1>14, HealFacts DEF Doing, Resting
  <2>2. Beside(p)
    BY <2>1, WorkingBeside
  <2>3. Earned(p)' /\ Scanned(p)' /\ Holding(p)' /\ Writing(p)' /\ Pending(p)'
    BY <2>1 DEF Doing, Earned, Scanned, Holding, Writing, Pending
  <2> HIDE DEF Earned, Holding, Pending, Scanned, Calm, WholeFile, Agrees
  <2> QED
    BY <2>1, <2>2, <2>3, DriftStill, DriftParts
<1>15. ASSUME NEW p \in Procs, Attest(p) PROVE DriftInv'
  <2>1. /\ Doing(p, "reconcile", "attest") /\ Turned(p, "reread") /\ UNCHANGED stored
        /\ Signing(p, "reconcile_healed", job[p].doc, "reattest") /\ ~ Resting(p)
    BY <1>15, AttestFacts DEF Doing, Resting
  <2>2. Beside(p) /\ wounds \subseteq wounds'
    BY <2>1, WorkingBeside, Recorded DEF Turned, Written
  <2>3. Earned(p)' /\ Holding(p)' /\ Writing(p)
    BY <2>1 DEF Turned, Doing, Earned, Holding, Writing
  <2>4. Calm' => /\ WholeFile' /\ log'[Len(log')].digest = job[p].doc /\ ~ Retired(log')
    BY <2>1, DriftSigned
  <2>5. Calm' => Scanned(p)'
    BY <2>1, <2>4 DEF Turned, Doing, Scanned
  <2>6. ASSUME Calm' PROVE Agrees(stored)'
    <3>1. Calm
      BY <2>2, <2>6 DEF Calm
    <3>2. stored \in {NoPoint, job[p].doc}
      BY <2>1, <3>1 DEF DriftInv, Holding
    <3> QED
      BY <2>1, <2>4, <2>6, <3>2 DEF Agrees
  <2> HIDE DEF Earned, Holding, Pending, Scanned, Calm, WholeFile, Agrees
  <2> QED
    BY <2>1, <2>2, <2>3, <2>4, <2>5, <2>6, DriftParts
<1>16. ASSUME NEW p \in Procs, Reread(p), ~ Rested(p) PROVE DriftInv'
  <2>1. /\ Doing(p, "reconcile", "reread") /\ UNCHANGED <<log, stored, wounds>>
        /\ Filled(p, "compare", job[p].doc, stored, job[p].told)
    BY <1>16, RereadFacts DEF Steady, Unmoved
  <2>2. ~ Resting(p) /\ Others(p) /\ ~ Pending(p) /\ Earned(p)' /\ Holding(p)'
    BY <2>1 DEF Filled, Doing, Resting, Pending, Earned, Holding
  <2>3. ASSUME Calm', ~ job'[p].raced PROVE Agrees(job[p].seen)' /\ ~ Retired(log')
    <3>1. Calm /\ ~ job[p].raced
      BY <2>1, <2>3 DEF Calm, Filled
    <3>2. \A q \in Procs \ {p} : Resting(q)
      BY <2>2, <3>1 DEF OverlapInv
    <3>3. \A q \in Procs : ~ Pending(q)
      BY <2>2, <3>2 DEF Pending, Doing, Resting
    <3>4. Agrees(stored) /\ Scanned(p)
      BY <3>1, <3>3 DEF DriftInv
    <3> QED
      BY <2>1, <3>1, <3>4 DEF Agrees, Chained, Scanned, Doing, Filled
  <2>4. Calm' => Scanned(p)'
    BY <2>3 DEF Scanned
  <2> QED
    BY <2>1, <2>2, <2>4, DriftTurned
<1>17. ASSUME NEW p \in Procs, Compare(p) PROVE DriftInv'
  <2>1. /\ Doing(p, "reconcile", "compare") /\ UNCHANGED <<log, stored, wounds>>
        /\ Filled(p, "report", job[p].doc, job[p].seen, Judged(job[p].seen, log))
    BY <1>17, CompareFacts DEF Steady, Unmoved
  <2>2. ~ Resting(p) /\ Others(p) /\ ~ Pending(p) /\ Holding(p)' /\ Scanned(p)'
    BY <2>1 DEF Filled, Doing, Resting, Pending, Scanned, Holding
  <2>3. Earned(p)'
    BY <2>1, DriftCompared DEF Filled, Earned, Calm
  <2> QED
    BY <2>1, <2>2, <2>3, DriftTurned
<1>18. ASSUME NEW p \in Procs, Admit(p), ~ Rested(p) PROVE DriftInv'
  <2>1. Doing(p, "reattest", "scan") /\ UNCHANGED <<log, stored, wounds>> /\ Admitted(p)
    BY <1>18, AdmitFacts DEF Unmoved
  <2>2. /\ ~ Resting(p) /\ Others(p) /\ ~ Pending(p) /\ Earned(p)' /\ Holding(p)'
        /\ Scanned(p)'
    BY <2>1 DEF Admitted, Doing, Resting, Pending, Earned, Holding, Scanned
  <2> QED
    BY <2>1, <2>2, DriftTurned
<1>19. ASSUME NEW p \in Procs, Measure(p), ~ Rested(p) PROVE DriftInv'
  <2>1. /\ Doing(p, "reattest", "measure") /\ UNCHANGED <<log, stored, wounds>>
        /\ Filled(p, "sign", stored, job[p].seen, job[p].told)
    BY <1>19, MeasureFacts DEF Steady, Unmoved
  <2>2. /\ ~ Resting(p) /\ Others(p) /\ ~ Pending(p) /\ Earned(p)' /\ Holding(p)'
        /\ Scanned(p)'
    BY <2>1 DEF Filled, Doing, Resting, Pending, Earned, Holding, Scanned
  <2> QED
    BY <2>1, <2>2, DriftTurned
<1>20. ASSUME NEW p \in Procs, SignMeasured(p) PROVE DriftInv'
  <2>1. /\ Doing(p, "reattest", "sign") /\ Rested(p) /\ UNCHANGED stored
        /\ Signing(p, "payload_reattested", job[p].doc, "reattest") /\ ~ Resting(p)
    BY <1>20, SignMeasuredFacts DEF Doing, Resting
  <2>2. Beside(p) /\ wounds \subseteq wounds'
    BY <2>1, WorkingBeside, Recorded DEF Rested, Written
  <2>3. Earned(p)' /\ Holding(p)' /\ Scanned(p)' /\ Writing(p)
    BY <2>1, RestFacts DEF Rested, Doing, Earned, Holding, Scanned, Writing
  <2>4. Calm' => WholeFile' /\ log'[Len(log')].digest = job[p].doc
    BY <2>1, DriftSigned
  <2>5. ASSUME Calm' PROVE Agrees(stored)'
    <3>1. Calm
      BY <2>2, <2>5 DEF Calm
    <3>2. stored \in {NoPoint, job[p].doc}
      BY <2>1, <3>1 DEF DriftInv, Holding
    <3> QED
      BY <2>1, <2>4, <2>5, <3>2 DEF Agrees
  <2> HIDE DEF Earned, Holding, Pending, Scanned, Calm, WholeFile, Agrees
  <2> QED
    BY <2>1, <2>2, <2>3, <2>4, <2>5, DriftParts
<1>21. ASSUME NEW p \in Procs, JudgeArchive(p), ~ Rested(p) PROVE DriftInv'
  <2>1. /\ Doing(p, "archive", "judge") /\ UNCHANGED <<log, stored, wounds>>
        /\ Turned(p, "delete") \/ Turned(p, "tombstone")
    BY <1>21, JudgeArchiveFacts DEF Steady, Unmoved
  <2>2. /\ ~ Resting(p) /\ Others(p) /\ ~ Pending(p) /\ Earned(p)' /\ Holding(p)'
        /\ Scanned(p)'
    BY <2>1 DEF Turned, Doing, Resting, Pending, Earned, Holding, Scanned
  <2> QED
    BY <2>1, <2>2, DriftTurned
<1>22. ASSUME NEW p \in Procs, Tombstone(p) PROVE DriftInv'
  <2>1. PICK digest \in Docs : Signing(p, "case_archived", digest, "write")
    BY <1>22, TombstoneFacts
  <2>2. Doing(p, "archive", "tombstone") /\ Turned(p, "dump") /\ UNCHANGED stored /\ ~ Resting(p)
    BY <1>22, TombstoneFacts DEF Doing, Resting
  <2>3. Beside(p) /\ wounds \subseteq wounds'
    BY <2>1, <2>2, WorkingBeside, Recorded DEF Turned, Written
  <2>4. Earned(p)' /\ Holding(p)' /\ Scanned(p)' /\ Writing(p)
    BY <2>2 DEF Turned, Doing, Earned, Holding, Scanned, Writing
  <2>5. Calm' => WholeFile' /\ Agrees(stored)'
    BY <2>1, DriftSigned DEF Agrees
  <2> HIDE DEF Earned, Holding, Pending, Scanned, Calm, WholeFile, Agrees
  <2> QED
    BY <2>2, <2>3, <2>4, <2>5, DriftParts
<1>23. ASSUME NEW p \in Procs, Dump(p) \/ Purge(p) PROVE DriftInv'
  <2>1. /\ job[p].op \in {"archive", "reset"} /\ job[p].pc # "rest" /\ UNCHANGED log
        /\ stored' \in {stored, NoPoint} /\ wounds \subseteq wounds'
        /\ Turned(p, "delete") \/ Turned(p, "rewrite")
    BY <1>23, DumpFacts, PurgeFacts DEF Doing
  <2>2. /\ ~ Resting(p) /\ Others(p) /\ ~ Pending(p) /\ Earned(p)' /\ Holding(p)'
        /\ Scanned(p)'
    BY <2>1 DEF Turned, Doing, Resting, Pending, Earned, Holding, Scanned
  <2> QED
    BY <2>1, <2>2, DriftTurned
<1>24. ASSUME NEW p \in Procs, RewriteSpine(p) PROVE DriftInv'
  <2>1. /\ Doing(p, "reset", "rewrite") /\ Rested(p) /\ log' = <<>> /\ ~ Resting(p)
        /\ wounds \subseteq wounds' /\ UNCHANGED stored
    BY <1>24, RewriteSpineFacts DEF Doing, Resting
  <2>2. DOMAIN log' = 1..0
    <3>1. log' \in Seq(Lines) /\ Len(log') = 0
      BY <2>1, EmptySeq
    <3> QED
      BY <3>1, LenProperties
  <2>3. WholeFile' /\ Agrees(stored)'
    BY <2>2 DEF WholeFile, Agrees, Chained
  <2>4. Earned(p)' /\ Holding(p)' /\ Scanned(p)' /\ Writing(p)
    BY <2>1, RestFacts DEF Rested, Doing, Earned, Holding, Scanned, Writing
  <2>5. Beside(p)
    BY <2>1, WorkingBeside DEF Rested
  <2> HIDE DEF Earned, Holding, Pending, Scanned, Calm, WholeFile, Agrees
  <2> QED
    BY <2>1, <2>3, <2>4, <2>5, DriftParts
<1>25. ASSUME NEW p \in Procs, Die(p) PROVE DriftInv'
  <2>1. /\ ~ Resting(p) /\ Rested(p) /\ UNCHANGED stored /\ wounds \subseteq wounds'
        /\ ~ Calm' \/ (UNCHANGED log /\ ~ Pending(p))
    BY <1>25, DieFacts DEF Calm, Pending, Doing
  <2>2. CASE UNCHANGED log
    BY <2>1, <2>2, DriftRested
  <2>3. CASE ~ Calm'
    <3>1. Beside(p)
      BY <2>1, WorkingBeside DEF Rested
    <3>2. Earned(p)'
      BY <2>1, RestFacts DEF Rested, Doing, Earned
    <3> QED
      BY <2>1, <2>3, <3>1, <3>2, DriftParts
  <2> QED
    BY <2>1, <2>2, <2>3
<1>26. ASSUME NEW p \in Procs, Restart(p) PROVE DriftInv'
  BY <1>26, RestartFacts
     DEF DriftInv, Calm, WholeFile, Holding, Scanned, Pending, Earned, Agrees, Chained, Doing
<1>27. CASE Rewrite
  <2>1. ~ Calm' \/ (stored' = NoPoint /\ (Calm' => Calm))
    BY <1>27, RewriteFacts DEF Calm
  <2>2. UNCHANGED <<log, job>> /\ (Calm' => Calm)
    BY <1>27, RewriteFacts DEF Calm
  <2>3. \A p \in Procs : Earned(p)'
    BY <2>2 DEF DriftInv, Earned, Doing
  <2> HIDE DEF Calm
  <2>4. ASSUME Calm'
        PROVE  WholeFile' /\ Agrees(stored)' /\ \A p \in Procs : Holding(p)' /\ Scanned(p)'
    BY <2>1, <2>2, <2>4 DEF DriftInv, WholeFile, Holding, Scanned, Agrees, Chained, Doing
  <2> HIDE DEF Earned, Holding, Pending, Scanned, WholeFile, Agrees
  <2> QED
    BY <2>3, <2>4 DEF DriftInv
<1>28. CASE EditRecord
  <2>1. /\ Alike(log, log') /\ UNCHANGED <<stored, job>> /\ (Calm' <=> Calm)
    BY <1>28, EditRecordFacts DEF Calm
  <2>2. log \in Seq(Lines)
    BY DEF ShapeInv, IntegrityTyped
  <2>3. /\ Len(log) \in Nat /\ DOMAIN log = 1..Len(log) /\ DOMAIN log' = DOMAIN log
        /\ Len(log') = Len(log) /\ log' \in Seq(Lines)
    BY <2>1, <2>2, LenProperties DEF Alike
  <2>4. Chained(log') = Chained(log) /\ (Retired(log') <=> Retired(log))
    <3>1. Chained(log') = Chained(log)
      BY <2>1, <2>3 DEF Alike, Chained
    <3> QED
      BY <2>1, <2>2, <3>1, RetiredAlike
  <2>5. log # <<>> => Len(log) \in DOMAIN log
    BY <2>2, <2>3, EmptySeq
  <2>6. log' # <<>> <=> log # <<>>
    BY <2>2, <2>3, EmptySeq
  <2>7. ASSUME Calm, log # <<>>
        PROVE  /\ log'[Len(log')].v = log[Len(log)].v
               /\ log'[Len(log')].digest = log[Len(log)].digest
               /\ log'[Len(log')].event = log[Len(log)].event
    BY <2>1, <2>3, <2>5, <2>7 DEF Alike, DriftInv, WholeFile
  <2>8. Chained(log) # {} => log # <<>>
    BY <2>2, <2>3, EmptySeq DEF Chained
  <2>9. ASSUME Calm PROVE WholeFile'
    <3>1. \A i \in DOMAIN log' : log'[i].v # 0
      BY <2>1, <2>3, <2>9 DEF Alike, DriftInv, WholeFile
    <3> QED
      BY <2>4, <2>7, <2>8, <2>9, <3>1 DEF DriftInv, WholeFile
  <2>10. ASSUME Calm, NEW doc PROVE Agrees(doc) => Agrees(doc)'
    BY <2>4, <2>7, <2>8, <2>10 DEF Agrees
  <2>11. \A p \in Procs : Earned(p)'
    BY <2>1 DEF DriftInv, Earned, Doing
  <2>12. ASSUME Calm, NEW p \in Procs PROVE Holding(p)' /\ Scanned(p)'
    <3>1. Holding(p) /\ Scanned(p)
      BY <2>12 DEF DriftInv
    <3>2. Holding(p)'
      BY <2>1, <2>6, <2>7, <2>12, <3>1 DEF Holding, Doing
    <3>3. Agrees(job[p].seen) => Agrees(job[p].seen)'
      BY <2>1, <2>4, <2>7, <2>8, <2>12 DEF Agrees
    <3>4. Scanned(p)'
      BY <2>1, <2>4, <3>1, <3>3 DEF Scanned
    <3> QED
      BY <3>2, <3>4
  <2>13. ASSUME Calm, \A p \in Procs : ~ Pending(p)' PROVE Agrees(stored)'
    <3>1. Agrees(stored)
      BY <2>1, <2>13 DEF DriftInv, Pending, Doing
    <3> QED
      BY <2>1, <2>4, <2>7, <2>8, <2>13, <3>1 DEF Agrees
  <2> HIDE DEF Earned, Holding, Pending, Scanned, Calm, WholeFile, Agrees
  <2> QED
    BY <2>1, <2>9, <2>11, <2>12, <2>13 DEF DriftInv
<1>29. CASE UNCHANGED integrityVars
  BY <1>29 DEF integrityVars, DriftInv, Calm, WholeFile, Holding, Scanned, Pending, Earned,
               Agrees, Chained, Doing
<1> HIDE DEF ShapeInv, OverlapInv, DriftInv
<1> QED
  BY <1>1, <1>2, <1>3, <1>4, <1>5, <1>6, <1>7, <1>8, <1>9, <1>10, <1>11, <1>12, <1>13, <1>14,
     <1>15, <1>16, <1>17, <1>18, <1>19, <1>20, <1>21, <1>22, <1>23, <1>24, <1>25, <1>26, <1>27,
     <1>28, <1>29, DeleteFacts, IntegritySteps

\* What reconcile calls drifted was broken into, left half done or overlapped by another
\* operation, and what it calls chained at write a writer wrote, whatever the processes do
\* and however many there are.
THEOREM ReportsAreEarned == IntegritySpec => []ReportIsEarned
<1>1. IntegrityInit => ShapeInv /\ OverlapInv /\ DriftInv
  BY ShapeInitial, OverlapInitial, DriftInitial
<1>2. ShapeInv /\ OverlapInv /\ DriftInv /\ [IntegrityNext]_integrityVars =>
        (ShapeInv /\ OverlapInv /\ DriftInv)'
  BY ShapeKept, OverlapKept, DriftKept
<1>3. ShapeInv /\ DriftInv => ReportIsEarned
  <2> SUFFICES ASSUME ShapeInv, DriftInv, NEW p \in Procs, Doing(p, "reconcile", "report")
               PROVE  /\ job[p].told = "drifted" =>
                           job[p].raced \/ wounds \cap {"outside", "undone", "legacy", "torn", "race"} # {}
                      /\ job[p].told = "write" => job[p].seen.hand = "writer"
    BY DEF ReportIsEarned
  <2>1. Shaped(p) /\ Earned(p)
    BY DEF ShapeInv, DriftInv
  <2> QED
    BY <2>1 DEF Shaped, Earned, Calm
<1> QED
  BY <1>1, <1>2, <1>3, PTL DEF IntegritySpec
=============================================================================
