---------------------------- MODULE MCCaseSpine ----------------------------
(***************************************************************************)
(* CaseSpine for TLC: which calls the writers make.                        *)
(***************************************************************************)
EXTENDS CaseSpine

\* Two opposite decisions, the two moves around them, a mutation that moves
\* nothing, and the two kinds of event that advance the state.
AnyCall == {[kind |-> "decide", arg |-> "approve"],
            [kind |-> "decide", arg |-> "deny"],
            [kind |-> "close", arg |-> "closed"],
            [kind |-> "reopen", arg |-> "reopened"],
            [kind |-> "assign", arg |-> "responder"],
            [kind |-> "append", arg |-> "investigation"],
            [kind |-> "append", arg |-> "verdict"]}
=============================================================================
