------------------------------- MODULE MCHunt -------------------------------
(***************************************************************************)
(* Hunt for TLC: the AppArmor hunt, which escalates and which pattern      *)
(* alerts start too, and the sudo hunt, which only a strong match of the   *)
(* corpus makes suspicious.                                                *)
(***************************************************************************)
EXTENDS Hunt, TLC

MCOrder == <<"apparmor-denials", "sudo-usage">>

MCAnalyzerOf == "apparmor-denials" :> "apparmor" @@ "sudo-usage" :> "sudo"

Seen(day, week, known) == [day |-> day, week |-> week, known |-> known]

MCTelemetry ==
  "apparmor-denials" :> {Seen({"novel"}, {"novel"}, "none"), Seen({}, {}, "none")}
  @@ "sudo-usage" :> {Seen({"recurring"}, {"recurring"}, "strong")}

MCLedgerOf ==
  "apparmor-denials" :> {"proposed", "profiled"} @@ "sudo-usage" :> {"none"}
=============================================================================
