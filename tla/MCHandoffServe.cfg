CONSTANTS
  TopologyQueue = 1
  ControlQueue = 2
  agent = agent
  window = window
  Client = {agent, window}
  Automation = {agent}
  Budgets <- MCBudgets
SPECIFICATION Spec
CHECK_DEADLOCK FALSE
INVARIANTS FenceExcludesHandlers WorkKeepsItsHold OldPolicyIsLeaving NothingIsStuck ReloadFollowsSignal TerminationIsKept 
PROPERTIES PhasesInOrder
