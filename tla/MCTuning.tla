------------------------------ MODULE MCTuning ------------------------------
(***************************************************************************)
(* Tuning for TLC: a routine alert, the same of a pair of addresses from a *)
(* host kept under review, and a louder one.                               *)
(***************************************************************************)
EXTENDS Tuning

Shape(host, entity, level, marks, profile) ==
  [host |-> host, entity |-> entity, level |-> level, marks |-> marks, profile |-> profile]

MCAlerts ==
  {Shape("web", "web", 3, {}, "snap"), Shape("vault", "pair", 3, {}, "snap"),
   Shape("web", "web", 7, {"threat"}, "nginx")}

MCScriptsOf == [dpkg |-> {"stamp", "sign", "dpkg", "backfill"},
                apparmor |-> {"stamp", "sign", "narrow", "backfill"}]

Adjudicated(kind, profiles) ==
  [kind |-> kind, scope |-> NoHost, level |-> IF kind = "full" THEN 3 ELSE 0, marks |-> {},
   profiles |-> profiles]

MCNarrowed == Adjudicated("full", {"snap"})

MCLoose == Adjudicated("full", {})

\* An entry from before states: written by a person, or by a role agent.
Legacy(by, print) ==
  [decision |-> "auto_fp", state |-> "unset", by |-> by, print |-> print, exclude |-> {},
   signature |-> NoSignature, pending |-> NoProposal, superseded |-> NoProposal]

MCFirstEntries ==
  {NoEntry, Legacy("", NoPrint), Legacy("role", Adjudicated("scope", {"snap"}))}
=============================================================================
