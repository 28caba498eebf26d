SPECIFICATION FairSpec
CONSTANTS
  planner = planner
  coder = coder
  c1 = c1
  c2 = c2
  Roles = {planner, coder}
  RoleOrder <- MCRoleOrder
  TaskRoles = {coder}
  EnvFaults = {"tmux", "panes"}
  MaxOrphans = 2
  Commands = {c1, c2}
  Uses <- MCUses
  Litter <- MCLitter
  MaxTrouble = 2
INVARIANTS TypeOK StartDelivers StopDelivers RepairDelivers HealthyIsUp
PROPERTIES NothingDisturbed StartRecovers
CHECK_DEADLOCK FALSE
