--------------------------- MODULE MCDashboardPager ---------------------------
(* A small instance of DashboardPager. *)
EXTENDS DashboardPager

CONSTANTS active, all, none, needle

TwoViews   == {"files", "coordinators"}
TwoLimits  == {1, 2}
TwoFilters == {all, active}
TwoTexts   == {none, needle}

(* The behaviours explored are those of two scenarios.                     *)

\* A cursor view and an offset view, with the controls left alone.
PageScenario ==
  /\ controls = [limit |-> 1, filter |-> all, q |-> none]
  /\ \A f \in flights : f.limit = 1 /\ f.filter = all /\ f.q = none
  /\ ~searchTimer /\ ~footer.reset
  /\ strayed # {} => requestSeq < MaxLoads

\* Changes of the controls, in the view that has two tables.
ControlScenario ==
  /\ view = "coordinators" /\ pages["files"] = 0 /\ rendered["files"] = {}
  /\ length["objects"] = 0
  /\ \A f \in flights : f.view = "coordinators"
  /\ requestSeq < MaxLoads

TwoScenarios == PageScenario \/ ControlScenario
=============================================================================
