------------------------------ MODULE MCTriage ------------------------------
(***************************************************************************)
(* Triage for TLC: an intrusion whose rule may be tuned, a full disk, and  *)
(* the lab's own attack.                                                   *)
(***************************************************************************)
EXTENDS Triage

Alert(rule, host, level, category, pair, lab, map) ==
  [rule |-> rule, host |-> host, level |-> level, marks |-> {category}, profile |-> NoProfile,
   category |-> category, pair |-> pair, entity |-> IF pair # NoPair THEN pair ELSE host, failed |-> FALSE, listed |-> "none", drill |-> FALSE,
   lab |-> lab, map |-> map]

Analyst == [category |-> "security", role |-> "analyst"]

Infra == [category |-> "infra", role |-> "infra"]

Login == Alert("login", "web", 12, "authentication", "a-b", FALSE, Analyst)

Admin == Alert("admin", "lab", 12, "threat", NoPair, TRUE, Analyst)

Disk == Alert("disk", "web", 7, "operational", NoPair, FALSE, Infra)

MCAlerts == {Login, Admin, Disk}

Entry(decision, state, signed) ==
  LET e == [decision |-> decision, state |-> state, by |-> "console", print |-> PrintOf(Login),
            exclude |-> {}, signature |-> NoSignature, pending |-> NoProposal,
            superseded |-> NoProposal]
  IN  IF signed THEN [e EXCEPT !.signature = Core(e)] ELSE e

\* Untuned; approved, signed; and proposed.
MCLedgerOf == [login |-> {NoEntry, Entry("escalate", "committed", TRUE),
                          Entry("auto_fp", "proposed", FALSE)},
               admin |-> {NoEntry}, disk |-> {NoEntry}]

MCTierOf == [login |-> "tier2", admin |-> "", disk |-> "tier1"]
=============================================================================
