----------------------------- MODULE CaseSpine -----------------------------
(***************************************************************************)
(* One case of the spine (CaseStore, agents/tools/case_tools.py) and the   *)
(* processes that write it.  Router, analyst, hunt, responder, supervisory *)
(* and the console API run apart and share three stores, none of which     *)
(* locks or compares before it writes:                                     *)
(*                                                                         *)
(*   point     the case point in Qdrant: the whole payload, last write     *)
(*             wins                                                        *)
(*   events    the event points in Qdrant, one per timeline entry          *)
(*   receipts  the append-only JSONL file                                  *)
(*                                                                         *)
(* A call (decide, transition/reopen, close_case, assign_case,             *)
(* append_event) is a sequence of store accesses, and other writers run    *)
(* between any two of them.  A writer's pc names the access it does next.  *)
(***************************************************************************)
EXTENDS CaseLifecycle, Naturals, Sequences, FiniteSets

CONSTANTS
  Writers,      \* the processes
  Verdicts,     \* decisions decide() can record
  Roles,        \* roles a case can be assigned to
  EventTypes,   \* types append_event() can append
  Calls,        \* the calls writers make, a subset of AllCalls
  MaxCalls,     \* bound: calls made altogether
  Attempts,     \* _WRITE_ATTEMPTS, 5 in the code
  FlakyReads,   \* a Qdrant read may fail, and get_case serve receipts instead
  Faults        \* a process may die, a store write may raise

NoVerdict == "none"

\* The entry types the other calls write.  Agents also append events of these
\* types; that is left to the modules of the agents.
OwnTypes == {"adjudication", "transition", "assigned", "case_closed", "none"}

AllCalls == [kind : {"decide"}, arg : Verdicts]
            \* transition() is called by close_case and reopen only.
            \cup [kind : {"close"}, arg : {"closed"}]
            \cup [kind : {"reopen"}, arg : {"reopened"}]
            \cup [kind : {"assign"}, arg : Roles]
            \cup [kind : {"append"}, arg : EventTypes]

ASSUME SpineAssumption ==
  /\ Calls \subseteq AllCalls
  /\ MaxCalls \in Nat
  /\ Attempts \in Nat \ {0}
  /\ FlakyReads \in BOOLEAN
  /\ Faults \in BOOLEAN
  /\ NoVerdict \notin Verdicts
  /\ EventTypes \cap OwnTypes = {}

VARIABLES
  point,        \* the case point's payload
  events,       \* the set of event points
  receipts,     \* the receipts, oldest first
  local,        \* what each writer holds: pc, call, its copy of the case
  calls,        \* calls started so far: a call's number is also its `ts`
  returned,     \* the calls that have ended, with how they ended
  overlapped    \* history: the calls that ran while another one was running

vars == <<point, events, receipts, local, calls, returned, overlapped>>

----------------------------------------------------------------------------
\* Payloads.

\* A timeline entry.  `op` is the call that made it (its ts and role), `prior`
\* and `value` what its detail says.
Entry(op, type, prior, value) ==
  [op |-> op, type |-> type, prior |-> prior, value |-> value]

NoEntry == Entry(0, "none", "none", "none")

\* The supervisory block: decision, and the call whose ts it carries.
Block(op, decision) == [op |-> op, decision |-> decision]

NoBlock == Block(0, NoVerdict)

\* `stamp` is updated_ts (one per write), `touched` last_touched_ts (one per
\* call); `log` is the timeline embedded in the payload.  status is Status(state).
Minted == [state |-> "new", rev |-> 0, stamp |-> <<0, 0>>, block |-> NoBlock,
           log |-> {}, assignee |-> NoVerdict, touched |-> 0]

Receipt(op, status, detail) == [op |-> op, status |-> status, detail |-> detail]

\* get_case, the store answering: the point, event points folded in.
Merged == [point EXCEPT !.log = @ \cup events]

\* get_case, the store failing: _rebuild_from_receipts.  State, block,
\* revision and assignee are not in a receipt and come back as defaults.
Rebuilt ==
  LET last == receipts[Len(receipts)]
  IN  [state    |-> IF last.status = "closed" THEN "closed" ELSE "new",
       rev      |-> 0,
       stamp    |-> <<0, 0>>,
       block    |-> NoBlock,
       log      |-> {receipts[i].detail : i \in DOMAIN receipts} \ {NoEntry},
       assignee |-> NoVerdict,
       touched  |-> last.op]

Fetched == {Merged} \cup (IF FlakyReads THEN {Rebuilt} ELSE {})

\* case_adjudication: the block, else the newest adjudication in the timeline.
Adjudications(log) == {e \in log : e.type = "adjudication"}

Newest(entries) == CHOOSE e \in entries : \A f \in entries : f.op <= e.op

Adjudication(case) ==
  IF case.block # NoBlock THEN case.block.decision
  ELSE IF Adjudications(case.log) = {} THEN NoVerdict
  ELSE Newest(Adjudications(case.log)).value

----------------------------------------------------------------------------
\* The mutations, as the _mut closures make them on the case just read.

Target(call) == IF call.kind = "decide" THEN "decided" ELSE call.arg

\* Slip: no move is checked against the table.
UncheckedAllowed(call, case) == TRUE

\* A decision, a close and a reopen are checked against the table.
Allowed(call, case) ==
  call.kind \in {"decide", "close", "reopen"} => Target(call) \in Moves(case.state)

\* The entry a call appends last: its receipt carries it, and so does the
\* event point of append_event.
LastEntry(op, call, case) ==
  CASE call.kind = "decide" -> Entry(op, "adjudication", "none", call.arg)
    [] call.kind \in {"close", "reopen"} ->
         Entry(op, "transition", Normalize(case.state), call.arg)
    [] call.kind = "assign" -> Entry(op, "assigned", "none", call.arg)
    [] OTHER -> Entry(op, call.arg, "none", "none")

\* Slip: the decision is kept in the block alone.
BlockOnlyMutated(op, call, case, attempt) ==
  IF call.kind = "decide"
  THEN [case EXCEPT !.rev = @ + 1, !.stamp = <<op, attempt>>, !.touched = op,
                    !.state = "decided", !.block = Block(op, call.arg)]
  ELSE [case EXCEPT !.rev = @ + 1, !.stamp = <<op, attempt>>, !.touched = op,
                    !.state = IF call.kind = "assign" THEN @ ELSE call.arg,
                    !.log = @ \cup {LastEntry(op, call, case)}]

\* Slip: a decision after a reopen leaves the first block in force.
FirstBlockMutated(op, call, case, attempt) ==
  [case EXCEPT !.rev = @ + 1, !.stamp = <<op, attempt>>, !.touched = op,
               !.state = IF call.kind = "assign" THEN @ ELSE Target(call),
               !.block = IF call.kind = "decide" /\ @ = NoBlock THEN Block(op, call.arg)
                         ELSE @,
               !.log = @ \cup {LastEntry(op, call, case)}]

Mutated(op, call, case, attempt) ==
  LET common == [case EXCEPT !.rev = @ + 1,
                             !.stamp = <<op, attempt>>,
                             !.touched = op,
                             !.log = @ \cup {LastEntry(op, call, case)}]
  IN  CASE call.kind = "decide" ->
             [common EXCEPT
                !.state = "decided",
                !.block = Block(op, call.arg),
                !.log = @ \cup {Entry(op, "transition", Normalize(case.state), "decided")}]
        [] call.kind = "assign" -> [common EXCEPT !.assignee = call.arg]
        [] OTHER -> [common EXCEPT !.state = call.arg]

\* append_event's copy of the case: no revision, no updated_ts.
Projected(op, call, case) ==
  [case EXCEPT !.state = Advance(@, call.arg),
               !.touched = op,
               !.log = @ \cup {LastEntry(op, call, case)}]

\* The event point a finished mutation leaves.  transition() builds its copy
\* after the state was set, so `from` repeats the new state.
EventPoint(op, call) ==
  IF call.kind \in {"close", "reopen"}
  THEN Entry(op, "transition", call.arg, call.arg)
  ELSE LastEntry(op, call, Minted)

Reason(op) == Entry(op, "case_closed", "none", "none")

\* close_case's second write: the copy of the first one, the reason appended.
Reasoned(op, case) == [case EXCEPT !.stamp = <<op, Attempts + 1>>,
                                   !.log = @ \cup {Reason(op)}]

----------------------------------------------------------------------------
Idle == [pc |-> "idle", op |-> 0, call |-> [kind |-> "none", arg |-> "none"],
         case |-> Minted, entry |-> NoEntry, attempt |-> 0]

Init == /\ point = Minted
        /\ events = {}
        /\ receipts = <<Receipt(0, "open", NoEntry)>>
        /\ local = [w \in Writers |-> Idle]
        /\ calls = 0
        /\ returned = {}
        /\ overlapped = {}

At(w, pc) == local[w].pc = pc

Goto(w, pc) == local' = [local EXCEPT ![w].pc = pc]

\* The call ends; its outcome is what the caller sees, except that
\* "unrecorded" returns like "ok".
Return(w, outcome) ==
  /\ returned' = returned \cup
       {[op |-> local[w].op, call |-> local[w].call, outcome |-> outcome]}
  /\ local' = [local EXCEPT ![w] = Idle]

\* The calls running beside w's.
Running(w) == {local[v].op : v \in {v \in Writers \ {w} : ~ At(v, "idle")}}

Start(w, call) ==
  /\ At(w, "idle")
  /\ calls < MaxCalls
  /\ calls' = calls + 1
  /\ local' = [local EXCEPT ![w] = [pc |-> "read", op |-> calls + 1, call |-> call,
                                    case |-> Minted, entry |-> NoEntry,
                                    attempt |-> 1]]
  /\ overlapped' = IF Running(w) = {} THEN overlapped
                   ELSE overlapped \cup Running(w) \cup {calls + 1}
  /\ UNCHANGED <<point, events, receipts, returned>>

\* _mutate_case: read, and mutate the copy.
Mutate(w) ==
  /\ At(w, "read")
  /\ local[w].call.kind # "append"
  /\ \E case \in Fetched :
       /\ Allowed(local[w].call, case)
       /\ local' = [local EXCEPT ![w].pc = "receipt",
                                 ![w].entry = LastEntry(local[w].op, local[w].call, case),
                                 ![w].case = Mutated(local[w].op, local[w].call, case,
                                                     local[w].attempt)]
  /\ UNCHANGED <<point, events, receipts, calls, returned, overlapped>>

\* CaseStateError out of the mutation, on a first read or on a retry.
Refuse(w) ==
  /\ At(w, "read")
  /\ local[w].call.kind # "append"
  /\ \E case \in Fetched : ~ Allowed(local[w].call, case)
  /\ Return(w, "refused")
  /\ UNCHANGED <<point, events, receipts, calls, overlapped>>

\* append_event: read, and project the event on the copy.
Project(w) ==
  /\ At(w, "read")
  /\ local[w].call.kind = "append"
  /\ \E case \in Fetched :
       local' = [local EXCEPT ![w].pc = "event",
                              ![w].entry = LastEntry(local[w].op, local[w].call, case),
                              ![w].case = Projected(local[w].op, local[w].call, case)]
  /\ UNCHANGED <<point, events, receipts, calls, returned, overlapped>>

\* Slip: the event rides the payload alone, as it did before event points.
EmbeddedAppendEvent(w) ==
  /\ At(w, "event")
  /\ Goto(w, "receipt")
  /\ UNCHANGED <<point, events, receipts, calls, returned, overlapped>>

\* append_event writes the event's own point first.
AppendEvent(w) ==
  /\ At(w, "event")
  /\ events' = events \cup {local[w].entry}
  /\ Goto(w, "receipt")
  /\ UNCHANGED <<point, receipts, calls, returned, overlapped>>

\* Slip: a receipt that could not be written is given up, not written as v1.
DroppedWriteReceipt(w) ==
  /\ \/ At(w, "receipt") /\ Goto(w, "memory")
     \/ At(w, "close_receipt") /\ Goto(w, "close_memory")
  /\ UNCHANGED <<point, events, receipts, calls, returned, overlapped>>

\* _write_both, first half.
WriteReceipt(w) ==
  /\ \/ At(w, "receipt") /\ Goto(w, "memory")
     \/ At(w, "close_receipt") /\ Goto(w, "close_memory")
  /\ receipts' = Append(receipts, Receipt(local[w].op, Status(local[w].case.state),
                                          local[w].entry))
  /\ UNCHANGED <<point, events, calls, returned, overlapped>>

\* _write_both, second half: the payload replaces the point, whatever is there.
WriteMemory(w) ==
  /\ At(w, "memory")
  /\ local[w].call.kind # "append"
  /\ point' = local[w].case
  /\ Goto(w, "verify")
  /\ UNCHANGED <<events, receipts, calls, returned, overlapped>>

WriteMemoryAndReturn(w) ==
  /\ \/ At(w, "memory") /\ local[w].call.kind = "append"
     \/ At(w, "close_memory")
  /\ point' = local[w].case
  /\ Return(w, "ok")
  /\ UNCHANGED <<events, receipts, calls, overlapped>>

\* The re-read of _mutate_case shows the writer's own revision and stamp.
Ours(w, case) == case.rev = local[w].case.rev /\ case.stamp = local[w].case.stamp

Confirm(w) ==
  /\ At(w, "verify")
  /\ \E case \in Fetched : Ours(w, case)
  /\ Goto(w, "record")
  /\ UNCHANGED <<point, events, receipts, calls, returned, overlapped>>

\* Slip: one attempt more than the budget.
OneMoreRetry(w) ==
  /\ At(w, "verify")
  /\ \E case \in Fetched : ~ Ours(w, case)
  /\ local[w].attempt <= Attempts
  /\ local' = [local EXCEPT ![w].pc = "read", ![w].attempt = @ + 1]
  /\ UNCHANGED <<point, events, receipts, calls, returned, overlapped>>

Retry(w) ==
  /\ At(w, "verify")
  /\ \E case \in Fetched : ~ Ours(w, case)
  /\ local[w].attempt < Attempts
  /\ local' = [local EXCEPT ![w].pc = "read", ![w].attempt = @ + 1]
  /\ UNCHANGED <<point, events, receipts, calls, returned, overlapped>>

\* Slip: off by one at the end of the budget, no attempt is the last.
LateGiveUp(w) ==
  /\ At(w, "verify")
  /\ \E case \in Fetched : ~ Ours(w, case)
  /\ local[w].attempt > Attempts
  /\ Return(w, "conflict")
  /\ UNCHANGED <<point, events, receipts, calls, overlapped>>

\* CaseConflictError.
GiveUp(w) ==
  /\ At(w, "verify")
  /\ \E case \in Fetched : ~ Ours(w, case)
  /\ local[w].attempt = Attempts
  /\ Return(w, "conflict")
  /\ UNCHANGED <<point, events, receipts, calls, overlapped>>

\* How a confirmed mutation ends; close_case goes on to a second write.
Finish(w, outcome) ==
  IF local[w].call.kind = "close"
  THEN /\ local' = [local EXCEPT ![w].pc = "close_receipt",
                                 ![w].entry = Reason(local[w].op),
                                 ![w].case = Reasoned(local[w].op, @)]
       /\ UNCHANGED returned
  ELSE Return(w, outcome)

\* Slip: the confirmed mutation leaves no event point.
PointlessRecord(w) ==
  /\ At(w, "record")
  /\ Finish(w, "ok")
  /\ UNCHANGED <<point, events, receipts, calls, overlapped>>

Record(w) ==
  /\ At(w, "record")
  /\ events' = events \cup {EventPoint(local[w].op, local[w].call)}
  /\ Finish(w, "ok")
  /\ UNCHANGED <<point, receipts, calls, overlapped>>

\* The event-point write raises, and the call swallows it.
LoseRecord(w) ==
  /\ Faults
  /\ At(w, "record")
  /\ Finish(w, "unrecorded")
  /\ UNCHANGED <<point, events, receipts, calls, overlapped>>

\* The process dies, or a store write raises out of the call.
Fail(w) ==
  /\ Faults
  /\ ~ At(w, "idle")
  /\ Return(w, "failed")
  /\ UNCHANGED <<point, events, receipts, calls, overlapped>>

Step(w) == \/ Mutate(w) \/ Refuse(w) \/ Project(w) \/ AppendEvent(w)
           \/ WriteReceipt(w) \/ WriteMemory(w) \/ WriteMemoryAndReturn(w)
           \/ Confirm(w) \/ Retry(w) \/ GiveUp(w) \/ Record(w)

Next == \E w \in Writers : \/ \E call \in Calls : Start(w, call)
                           \/ Step(w)
                           \/ LoseRecord(w)
                           \/ Fail(w)

Spec == Init /\ [][Next]_vars

\* A call that was made keeps running: nothing in it waits for another process.
FairSpec == Spec /\ \A w \in Writers : WF_vars(Step(w))

----------------------------------------------------------------------------
\* Properties.

Ops == 1..MaxCalls

Values == StoredStates \cup Verdicts \cup Roles \cup {NoVerdict}

CallTypes == [kind : {"decide", "close", "reopen", "assign", "append", "none"},
              arg : Values \cup EventTypes]

Entries == [op : 0..MaxCalls, type : OwnTypes \cup EventTypes,
            prior : Values, value : Values]

Payloads == [state : StoredStates, rev : Nat, stamp : Nat \X Nat,
             block : [op : 0..MaxCalls, decision : Verdicts \cup {NoVerdict}],
             log : SUBSET Entries, assignee : Roles \cup {NoVerdict},
             touched : 0..MaxCalls]

Receipts == [op : 0..MaxCalls, status : {"open", "closed"}, detail : Entries]

Locals == [pc : {"idle", "read", "event", "receipt", "memory", "verify", "record",
                 "close_receipt", "close_memory"},
           op : 0..MaxCalls, call : CallTypes, case : Payloads, entry : Entries,
           attempt : 0..Attempts]

Outcomes == {"ok", "unrecorded", "refused", "conflict", "failed"}

\* The shape of the three stores and of what a writer holds; a call never
\* makes more than _WRITE_ATTEMPTS attempts.
TypeOK ==
  /\ point \in Payloads
  /\ events \subseteq Entries
  /\ receipts \in Seq(Receipts)
  /\ receipts # <<>>
  /\ local \in [Writers -> Locals]
  /\ calls \in 0..MaxCalls
  /\ returned \subseteq [op : Ops, call : CallTypes, outcome : Outcomes]
  /\ overlapped \subseteq 1..calls

\* The event-points design (CaseStore docstring, append_event): whatever other
\* writers did to the payload, the event of every call that returned normally
\* is in the timeline get_case serves.  close_case's own entry is left out: it
\* has no event point (hazard case_tools.py:941).
RecordsKept ==
  \A r \in returned :
    r.outcome = "ok" /\ r.call.kind # "close" =>
      EventPoint(r.op, r.call) \in Merged.log

\* decide: "a lost race can delay the decision fields but never lose the human
\* decision record".  Once a decision is recorded, every reader resolving it
\* with case_adjudication finds a decision, and one some writer really made.
DecisionKept ==
  (\E r \in returned : r.outcome = "ok" /\ r.call.kind = "decide") =>
    Adjudication(Merged) \in Verdicts

Receipted == {receipts[i].op : i \in DOMAIN receipts}

\* The receipt is written first: no payload, and no decision, transition or
\* assignment in it or in an event point, is in the working store before the
\* audit file has a receipt of the call that made it, whatever call died where.
WriteAhead ==
  /\ point.touched \in Receipted
  /\ \A e \in Merged.log :
       e.type \in {"adjudication", "transition", "assigned", "case_closed"} =>
         e.op \in Receipted

\* The block and the timeline: a payload that carries a decision block carries
\* the adjudication event of the same call, so the console (which reads the
\* timeline) and the deliverables (which read the block) both have it.
BlockHasEvent ==
  point.block # NoBlock =>
    \E e \in point.log : /\ e.type = "adjudication"
                          /\ e.op = point.block.op
                          /\ e.value = point.block.decision

\* Retries are bounded: every call returns to its caller, races and failing
\* reads included.
EveryCallReturns == \A w \in Writers : ~ At(w, "idle") ~> At(w, "idle")

\* _mutate_case: "so the last writer never silently discards an earlier one".
\* A mutation that returned normally is in the payload.  Not so of two writers
\* (SpineLostUpdate.cfg): the second of two overlapping calls replaces the payload
\* of the first after that one has verified it.
NoSilentDiscard ==
  \A r \in returned :
    r.outcome \in {"ok", "unrecorded"} /\ r.call.kind # "append" =>
      \E e \in point.log : e.op = r.op

\* What is left of it with many writers: only a call that ran beside a discarded
\* one can have discarded it.  A call that nothing overlapped stays in the payload
\* for good, whatever races, retries and fallbacks to receipts come after it.
DiscardTakesARace ==
  \A r \in returned :
    r.outcome \in {"ok", "unrecorded"} /\ r.op \notin overlapped =>
      \E e \in point.log : e.op = r.op

\* append_event: "A lost race on THIS write can only delay a last_touched
\* refresh or a state advance".  Its write of the case point leaves the
\* decision alone.
AppendKeepsDecision ==
  [][\A w \in Writers :
       WriteMemoryAndReturn(w) /\ local[w].call.kind = "append" =>
         point'.block = point.block]_vars

\* The comment over the transition table: "a decided case can't silently drift
\* back to triage".
DecidedStays ==
  [][point.state = "decided" => point'.state \in {"decided", "closed", "reopened"}]_vars

\* The console's reading (newest adjudication event) and the deliverables'
\* reading (the block) are the same decision.
OneStory ==
  Adjudications(Merged.log) # {} =>
    Adjudication(Merged) = Newest(Adjudications(Merged.log)).value

\* With one writer and a store that answers, the spine is the case machine.
Machine == INSTANCE CaseMachine WITH state <- point.state,
                                     verdict <- point.block.decision

ImplementsMachine == Machine!Spec
=============================================================================
