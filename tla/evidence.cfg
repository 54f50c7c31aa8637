SPECIFICATION MCSpec
CONSTANTS
  Commits = {c1, c2}
  Files = {f}
  Preparers = {p1}
  Runs = {r1, r2}
  None = None
  GateWorkers <- MCGateWorkers
  TrialWorkers <- MCTrialWorkers
  MaxEdits = 1
  MaxFaults = 1
  s1 = s1
  s2 = s2
  SiteRuns = {s1, s2}
  Nothing = Nothing
  k1 = k1
  k2 = k2
  SiteCmds = {k1, k2}
  w1 = w1
  w2 = w2
  w3 = w3
  Wrappers = {w1, w2, w3}
  Printing = {w1, w2}
  Configurations <- MCConfigurations
  Wanted = {"benchmark", "precision", "profile"}
  Scripts = {"bench/benchmark.py", "precision/diagnose.py", "bench/profile_one.py"}
  MaxSiteFaults = 1
SYMMETRY Symmetry
CONSTRAINTS OneRunAtATime FewAtTheSite
INVARIANTS CompleteEvidenceIsOfItsSources TimingIsGated ReadyPlanIsPrepared
  AsksItsOwnJob CompleteFetchIsTheWholeJob
CHECK_DEADLOCK FALSE
