-------------------------- MODULE MCDashboardsHold --------------------------
(* DashboardsHold with one sampler and one save. *)
CONSTANTS Watch, Samplers, Saves, RestartBudget, MaxPolls, MaxTrouble
VARIABLES exists, held, replicas, finalizer, rendered, pod, restarts, index, ripe, poll, polls,
          rem, log, save, trouble

H == INSTANCE DashboardsHold

ASSUME HoldAssumption == H!HoldAssumption

holdVars == <<exists, held, replicas, finalizer, rendered, pod, restarts, index, ripe, poll, polls,
              rem, log, save, trouble>>
HoldBegins == H!Init
HoldMoves == H!Next
HoldSpec == HoldBegins /\ [][HoldMoves]_holdVars
FairHoldSpec == HoldSpec /\ H!Fairness

\* A Dashboards at zero always carries the annotation that gets it released.
NoOrphanZero == H!NoOrphanZero

\* Once the nodes have settled for good Dashboards ends up serving.
DashboardsComesUp == H!DashboardsComesUp
=============================================================================
