----------------------------- MODULE MCTaskLife -----------------------------
(***************************************************************************)
(* TaskLife for TLC.  A behaviour is of one kind: creates, agent commands  *)
(* or exports run beside each other while operator and machine change what *)
(* they read.                                                              *)
(* The kinds share no state but the package, the configuration and the     *)
(* machine, which the moves by hand change in more ways than a command of  *)
(* another kind does.                                                      *)
(***************************************************************************)
EXTENDS TaskLife, TLC

CONSTANTS c1, c2, d1, p1, p2, a1, x1

VARIABLE kind

MCReady == [status |-> "ready", workload |-> "resolved", optimization |-> "unresolved",
            base |-> c1, declares |-> {}, patch |-> None]
MCStatuses == {MCReady,
               [status |-> "paused", workload |-> "placeholder", optimization |-> "unresolved",
                base |-> c1, declares |-> {}, patch |-> None]}
MCPins == [d \in {SOURCE} \cup Dependencies |-> c1]
MCMovable == {"skill", "stop_hook", "codex", "bash"}
MCOldBash == {p2}
MCSymmetry == Permutations(Tasks) \cup Permutations(Creators)
              \cup Permutations(Launchers) \cup Permutations(Exporters)

\* Bound: which base a new task is given makes no difference to anybody.
OneBase == \A k \in Creators : create[k].base \in {None, c1}

MCInit == /\ Init
          /\ kind \in {"create", "launch", "export"}
          /\ \A t \in Tasks : package[t] # None =>
               /\ [package[t].task EXCEPT !.patch = None, !.declares = {}] = MCReady
               /\ \/ package[t].task.declares = {} /\ package[t].patch = None
                  \/ /\ package[t].task.declares = {"patch", "evidence"}
                     /\ package[t].patch = a1 /\ kind = "export"
          /\ config.example => kind = "create"
          /\ config.isolated => kind = "launch"
          /\ machine.path["codex"] = p1 /\ \A f \in WorkFiles : repo.files[f] = x1

MCNext == /\ \/ kind = "create" /\ (Creating \/ EditingPackage \/ EditingConfig)
             \/ kind = "launch" /\ (Launching \/ EditingPackage \/ EditingConfig \/ Changing)
             \/ kind = "export" /\ (Exporting \/ EditingPackage \/ Changing)
          /\ UNCHANGED kind

MCSpec == MCInit /\ [][MCNext]_<<vars, kind>>
=============================================================================
