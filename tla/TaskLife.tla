------------------------------ MODULE TaskLife ------------------------------
(***************************************************************************)
(* The task packages, the machine, the launch gate and the export          *)
(* together: creates, agent commands and exports run beside each other     *)
(* while an operator changes packages and configuration, the machine       *)
(* changes, and somebody works in the repository.                          *)
(***************************************************************************)
EXTENDS LaunchGate, Export

vars == <<packageVars, machine, launchVars, exportVars>>

Init == PackageInit /\ MachineInit /\ LaunchInit /\ ExportInit

\* The observers look at every step.
Watch == Observe /\ ExportObserve

Creating ==
  /\ \E k \in Creators : CreateStep(k)
  /\ UNCHANGED <<machine, launch, lock, session, writer, repo, bundle, export>>
  /\ Watch

EditingPackage ==
  /\ PackageEdit
  /\ UNCHANGED <<machine, launch, lock, session, writer, repo, bundle, export>>
  /\ Watch

EditingConfig ==
  /\ ConfigEdit
  /\ UNCHANGED <<machine, launch, lock, session, writer, repo, bundle, export>>
  /\ Watch

Changing ==
  /\ MachineMove
  /\ UNCHANGED <<launch, lock, session, writer, repo, bundle, export>>
  /\ Watch

Launching ==
  /\ \/ \E l \in Launchers : LaunchStep(l)
     \/ \E t \in Tasks : WriterEnds(t) /\ UNCHANGED moves
  /\ UNCHANGED <<config, package, create, machine, repo, bundle, export>>
  /\ Watch

Exporting ==
  /\ RepoMove \/ \E e \in Exporters : ExportStep(e)
  /\ UNCHANGED <<config, package, create, machine, launch, lock, session, writer>>
  /\ Watch

Next == Creating \/ EditingPackage \/ EditingConfig \/ Changing \/ Launching \/ Exporting

Spec == Init /\ [][Next]_vars

TypeOK == PackageTypeOK /\ machine \in Machine /\ LaunchTypeOK /\ ExportTypeOK
=============================================================================
