--------------------------- MODULE MCRouterIntake ---------------------------
(***************************************************************************)
(* RouterIntake for TLC: a handful of alerts.  Entity 0 is the agent's     *)
(* name, which every alert of a signature shares; 1 and 2 are sources.     *)
(***************************************************************************)
EXTENDS RouterIntake

Four == 1..4

\* Two alerts share a timestamp across the end of a page.  The second brings a
\* new source into the burst of the first, the third repeats the first, the last
\* one is within the window of that burst and beyond its age cap.
FourTs == <<0, 1, 1, 3>>

FourKeys == <<1, 1, 1, 1>>

FourEntities == <<{0, 1}, {0, 2}, {0, 1}, {0, 1}>>

FourRouted == {1, 3, 4}

\* One signature, one source, a minute apart.
Two == 1..2

TwoTs == <<0, 1>>

TwoKeys == <<1, 1>>

TwoEntities == <<{0, 1}, {0, 1}>>

\* The first one matches a tuned fingerprint, the second one differs from it.
TwoRouted == {2}

\* Two signatures, both routed.
TwoOthers == <<1, 2>>
=============================================================================
