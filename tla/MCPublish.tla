----------------------------- MODULE MCPublish ------------------------------
(***************************************************************************)
(* Publish for TLC: two processes, which may be any of the programs that   *)
(* copy the case somewhere or bring something back.                        *)
(***************************************************************************)
EXTENDS Publish, TLC

Interchangeable == Permutations(Procs)

\* decide() adds two events, append_event one.
DecisionAndRecheck == {<<"transition", "decision">>, <<"recheck">>}

\* Dated back, as it is written, or ahead.
Dates == {-1, 0, 2}
=============================================================================
