SPECIFICATION Spec
CONSTANTS
  Scenarios <- Growth
INVARIANT PlanSucceeds
INVARIANT WithinLimit
INVARIANT LayoutIsDistribution
PROPERTY PlanTerminates
\* The bounds on revisions and packs stop the growth of the repository.
CHECK_DEADLOCK FALSE
