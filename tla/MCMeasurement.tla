--------------------------- MODULE MCMeasurement ---------------------------
(***************************************************************************)
(* Both ways to evidence, for TLC: the harness on this machine, read back  *)
(* where it wrote, and a site's jobs, fetched.  A behaviour is of the one  *)
(* or of the other kind; a local run and a site's share no file.           *)
(***************************************************************************)
EXTENDS Measurement, TLC, SiteRun

CONSTANTS w1, w2, w3, s1, s2, k1, k2

VARIABLE kind
allVars == <<vars, siteVars, kind>>

\* Local runs and prepare commands are interchangeable.
Symmetry == Permutations(Runs) \cup Permutations(Preparers)

\* The gate of benchmark.py.  Bound: one trial, of the two trees in turn.
MCGateWorkers == <<[root |-> "baseline", mode |-> "correctness"],
                   [root |-> "candidate", mode |-> "correctness"],
                   [root |-> "baseline", mode |-> "export"],
                   [root |-> "candidate", mode |-> "compare"]>>
MCTrialWorkers == <<[root |-> "baseline", mode |-> "benchmark"],
                    [root |-> "candidate", mode |-> "benchmark"]>>

\* Three sites, one of which may be configured, or the local adapter.  The third
\* prints no job id.
MCConfigurations ==
  {[adapter |-> "site-wrapper", wrapper |-> w, commands |-> {"profile"}] : w \in Wrappers}
  \cup {[adapter |-> "local-command", wrapper |-> Nothing, commands |-> {}]}

\* Bound: one run is planned or measured here at a time; a later one meets what
\* the earlier ones left behind.
OneRunAtATime ==
  Cardinality({r \in Runs : run[r].pc \notin {"none", "refused", "ended"}}) <= 1

\* Bound: two commands about one job of a site, or one with two jobs, which then
\* write nothing.  Runs and commands are interchangeable: s1 is planned first,
\* and k1 asks first.
FewAtTheSite ==
  /\ Cardinality({r \in SiteRuns : submit[r].pc # "none"})
       + Cardinality({c \in SiteCmds : request[c].pc # "idle"}) <= 3
  /\ submit[s2].pc # "none" =>
       submit[s1].pc # "none" /\ \A r \in SiteRuns : job[r] # Nothing => job[r].wrote = 0
  /\ request[k2].pc # "idle" => request[k1].pc # "idle"

\* The configuration is that of the kind.  The sites w1 and w2 are
\* interchangeable, and no command through a site reads the local trees.
MCInit == /\ Init /\ SiteInit
          /\ \/ kind = "local" /\ settings.adapter = "local-command"
             \/ kind = "site" /\ settings.wrapper = w1 /\ base = CHOOSE c \in Commits : TRUE

MCNext ==
  \/ kind = "local" /\ Next /\ UNCHANGED <<siteVars, kind>>
  \/ kind = "site" /\ SiteNext /\ UNCHANGED <<vars, kind>>

MCSpec == MCInit /\ [][MCNext]_allVars
=============================================================================
