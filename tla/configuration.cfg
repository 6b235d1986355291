SPECIFICATION MCSpec
CONSTANTS
  p1 = p1  p2 = p2  p3 = p3
  Phase = {p1, p2, p3}
  Task = {t1}
  Run = {r1}
  NoPhase = NoPhase
  First <- InitialOrder
  Accepted = {p1}
  MaxPhases = 3
  MaxWrites = 4
  Client = {c1, c2}
  Kinds = {"task", "agent", "team", "prompt", "contract"}
  MaxSaves = 2
  MaxClock = 2
  Agents = {1, 2, 3}
  OfProject = {3}
  MaxLevel = 1
  MaxCost = 2
  EnvCost = 2
  MaxEdits = 2
  MaxExecutions = 2
  Admin = {d1, d2}
  MaxKeys = 1
  TTL = 1
  ReadTime = 1
  MaxTime = 3
SYMMETRY Symmetry
CHECK_DEADLOCK FALSE
INVARIANTS PlansStaySound EditsAreSeen FrozenInputsBind AccountsStayUsable
