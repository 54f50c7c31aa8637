------------------------------ MODULE Overlay ------------------------------
(***************************************************************************)
(* tools/k3/overlay.py: the store of overlay builds.                       *)
(*                                                                         *)
(* `overlay build` hashes the pinned plugin, names a directory after that  *)
(* digest and its own edit set, copies the plugin into a staging           *)
(* directory, applies the edits, renames the staging directory into place  *)
(* and moves a pointer.  It takes no lock: builds run beside each other,   *)
(* beside whoever moves the pinned plugin or upgrades the adapter, and may *)
(* be killed anywhere.  A session resolves the pointer's build, after      *)
(* verifying it, or the pinned plugin itself when the overlay is off.      *)
(*                                                                         *)
(* A plugin is the content of its files; its digest is that content.       *)
(***************************************************************************)
EXTENDS Naturals, FiniteSets

CONSTANTS Upstreams,   \* contents the pinned plugin can be at
          Adapters,    \* edit sets the adapter can carry
          Anchored,    \* which edit sets find their anchors in which upstream
          Files,       \* files of the plugin
          Builders,    \* build commands that may be alive together
          None,        \* no build, no pointer, no content
          Damaged,     \* the content of a file somebody wrote by hand
          Pinned,      \* the directory of the pinned plugin
          MaxMoves,    \* bound: moves of the plugin, the adapter, the setting
          MaxFaults    \* bound: kills, damages, removals

ASSUME NamesAssumption == /\ None \notin Upstreams \cup (Upstreams \X Adapters)
                          /\ Damaged \notin Upstreams
                          /\ Pinned \notin (Upstreams \X Adapters) \cup {None}
                          /\ Upstreams # {} /\ Adapters # {} /\ Files # {}
ASSUME AnchoredAssumption == Anchored \in SUBSET (Upstreams \X Adapters)

VARIABLES upstream,   \* external/humanize: the content of the pinned plugin
          adapter,    \* the edit set in overlay.py
          enabled,    \* no_commit_overlay.enabled
          builds,     \* the build directories, by fingerprint
          pointer,    \* current.json
          builder,    \* the build commands
          moves,      \* how often plugin, adapter or setting were changed
          faults      \* how many kills, damages and removals there were

storeVars == <<upstream, adapter, enabled, builds, pointer, builder, moves, faults>>

Fingerprints == Upstreams \X Adapters
Plugin == [Files -> Upstreams \cup {Damaged, None}]
TreeOf(u) == [f \in Files |-> u]

\* A build: the plugin on disk, the edits in it, and its overlay.json.
\* `steady` is no state of the program: the pinned plugin stood still from the
\* hash to the copy.
Build == [plugin: Plugin, edits: Adapters, upstream: Upstreams, recorded: Plugin,
          steady: BOOLEAN]

Builder == [pc: {"idle", "hashed", "copy", "apply", "publish", "pointer"},
            up: Upstreams, ed: Adapters, todo: SUBSET Files, copy: Plugin,
            steady: BOOLEAN]

IdleBuilder == [pc |-> "idle", up |-> CHOOSE u \in Upstreams : TRUE,
                ed |-> CHOOSE e \in Adapters : TRUE, todo |-> {}, copy |-> TreeOf(None),
                steady |-> TRUE]

fingerprint(b) == <<builder[b].up, builder[b].ed>>

StoreInit ==
  /\ upstream \in Upstreams
  /\ adapter \in Adapters
  /\ enabled = TRUE
  /\ builds = [fp \in Fingerprints |-> None]
  /\ pointer = None
  /\ builder = [b \in Builders |-> IdleBuilder]
  /\ moves = 0
  /\ faults = 0

-----------------------------------------------------------------------------
(* verify and resolve_plugin_dir *)

\* Mutant: a build that is whole and of this edit set is good for any upstream.
MutantVerify(fp, ed) ==
  /\ builds[fp] # None
  /\ builds[fp].plugin = builds[fp].recorded
  /\ builds[fp].edits = ed

\* The build is whole, was derived from the plugin as it is now, and by the
\* edit set of the process that asks.
verify(fp, ed) ==
  /\ builds[fp] # None
  /\ builds[fp].plugin = builds[fp].recorded
  /\ builds[fp].upstream = upstream
  /\ builds[fp].edits = ed

\* The directories a session started now may be given.
Resolved == IF ~enabled THEN {Pinned}
            ELSE {fp \in Fingerprints : fp = pointer /\ verify(fp, adapter)}

-----------------------------------------------------------------------------
(* overlay build *)

Goto(b, pc) == builder' = [builder EXCEPT ![b].pc = pc]
Quit(b) == builder' = [builder EXCEPT ![b] = IdleBuilder]

BuildHash(b) ==
  /\ builder[b].pc = "idle"
  /\ builder' = [builder EXCEPT ![b] =
                   [IdleBuilder EXCEPT !.pc = "hashed", !.up = upstream, !.ed = adapter]]
  /\ UNCHANGED <<upstream, adapter, enabled, builds, pointer, moves, faults>>

\* A build of that name is used if it verifies and is never replaced if not.
BuildReuse(b) ==
  /\ builder[b].pc = "hashed"
  /\ builds[fingerprint(b)] # None
  /\ IF verify(fingerprint(b), builder[b].ed) THEN Goto(b, "pointer") ELSE Quit(b)
  /\ UNCHANGED <<upstream, adapter, enabled, builds, pointer, moves, faults>>

BuildStage(b) ==
  /\ builder[b].pc = "hashed"
  /\ builds[fingerprint(b)] = None
  /\ builder' = [builder EXCEPT ![b].pc = "copy", ![b].todo = Files]
  /\ UNCHANGED <<upstream, adapter, enabled, builds, pointer, moves, faults>>

\* One file is copied, as the pinned plugin holds it now.
BuildCopy(b) ==
  /\ builder[b].pc = "copy"
  /\ LET f == CHOOSE g \in builder[b].todo : TRUE
         left == builder[b].todo \ {f}
     IN  builder' = [builder EXCEPT ![b].copy[f] = upstream, ![b].todo = left,
                                    ![b].pc = IF left = {} THEN "apply" ELSE "copy"]
  /\ UNCHANGED <<upstream, adapter, enabled, builds, pointer, moves, faults>>

\* Every anchor must match exactly once in the copied text.  The edited tree is
\* hashed and recorded, still in the staging directory.
BuildApply(b) ==
  /\ builder[b].pc = "apply"
  /\ IF \A f \in Files : <<builder[b].copy[f], builder[b].ed>> \in Anchored
     THEN Goto(b, "publish") ELSE Quit(b)
  /\ UNCHANGED <<upstream, adapter, enabled, builds, pointer, moves, faults>>

\* Mutant: the rename replaces a directory that is there.
MutantPublish(b) ==
  /\ builder[b].pc = "publish"
  /\ builds' = [builds EXCEPT ![fingerprint(b)] =
                  [plugin |-> builder[b].copy, edits |-> builder[b].ed,
                   upstream |-> builder[b].up, recorded |-> builder[b].copy,
                   steady |-> builder[b].steady]]
  /\ Goto(b, "pointer")
  /\ UNCHANGED <<upstream, adapter, enabled, pointer, moves, faults>>

\* os.replace of one directory by another: it fails if somebody was faster.
BuildPublish(b) ==
  /\ builder[b].pc = "publish"
  /\ IF builds[fingerprint(b)] = None
     THEN /\ builds' = [builds EXCEPT ![fingerprint(b)] =
                          [plugin |-> builder[b].copy, edits |-> builder[b].ed,
                           upstream |-> builder[b].up, recorded |-> builder[b].copy,
                           steady |-> builder[b].steady]]
          /\ Goto(b, "pointer")
     ELSE Quit(b) /\ UNCHANGED builds
  /\ UNCHANGED <<upstream, adapter, enabled, pointer, moves, faults>>

\* Of two builds, the one that ends last has the pointer.
BuildPointer(b) ==
  /\ builder[b].pc = "pointer"
  /\ pointer' = fingerprint(b)
  /\ Quit(b)
  /\ UNCHANGED <<upstream, adapter, enabled, builds, moves, faults>>

\* Killed, it leaves at most a staging directory of its own.
BuildDies(b) ==
  /\ builder[b].pc # "idle"
  /\ faults < MaxFaults
  /\ faults' = faults + 1
  /\ Quit(b)
  /\ UNCHANGED <<upstream, adapter, enabled, builds, pointer, moves>>

BuildStep(b) ==
  \/ BuildHash(b) \/ BuildReuse(b) \/ BuildStage(b) \/ BuildCopy(b)
  \/ BuildApply(b) \/ BuildPublish(b) \/ BuildPointer(b) \/ BuildDies(b)

-----------------------------------------------------------------------------
(* The operator *)

\* The submodule is moved to another commit, or back.
MoveUpstream ==
  /\ moves < MaxMoves
  /\ moves' = moves + 1
  /\ \E u \in Upstreams \ {upstream} : upstream' = u
  /\ builder' = [b \in Builders |-> [builder[b] EXCEPT !.steady =
                   @ /\ builder[b].pc \notin {"hashed", "copy"}]]
  /\ UNCHANGED <<adapter, enabled, builds, pointer, faults>>

\* Another version of this repository; commands that run keep the one they read.
UpgradeAdapter ==
  /\ moves < MaxMoves
  /\ moves' = moves + 1
  /\ \E e \in Adapters \ {adapter} : adapter' = e
  /\ UNCHANGED <<upstream, enabled, builds, pointer, builder, faults>>

ToggleOverlay ==
  /\ moves < MaxMoves
  /\ moves' = moves + 1
  /\ enabled' = ~enabled
  /\ UNCHANGED <<upstream, adapter, builds, pointer, builder, faults>>

\* Somebody writes into a build.
Damage(fp, f) ==
  /\ faults < MaxFaults
  /\ builds[fp] # None
  /\ faults' = faults + 1
  /\ builds' = [builds EXCEPT ![fp].plugin[f] = Damaged]
  /\ UNCHANGED <<upstream, adapter, enabled, pointer, builder, moves>>

\* "Remove that directory deliberately, then rebuild."
RemoveBuild(fp) ==
  /\ faults < MaxFaults
  /\ builds[fp] # None
  /\ builds[fp].plugin # builds[fp].recorded
  /\ faults' = faults + 1
  /\ builds' = [builds EXCEPT ![fp] = None]
  /\ UNCHANGED <<upstream, adapter, enabled, pointer, builder, moves>>

StoreNext ==
  \/ \E b \in Builders : BuildStep(b)
  \/ MoveUpstream \/ UpgradeAdapter \/ ToggleOverlay
  \/ \E fp \in Fingerprints, f \in Files : Damage(fp, f)
  \/ \E fp \in Fingerprints : RemoveBuild(fp)

StoreSpec == StoreInit /\ [][StoreNext]_storeVars

-----------------------------------------------------------------------------
StoreTypeOK ==
  /\ upstream \in Upstreams
  /\ adapter \in Adapters
  /\ enabled \in BOOLEAN
  /\ builds \in [Fingerprints -> Build \cup {None}]
  /\ pointer \in Fingerprints \cup {None}
  /\ builder \in [Builders -> Builder]
  /\ moves \in Nat
  /\ faults \in Nat

\* A build that a session may have loaded is never touched by a command: two
\* builds of one name, a rebuild after an upgrade and a build that fails or is
\* killed leave it as it is ("leaving earlier builds untouched", "Nothing is
\* ever deleted").  Only a hand in the directory changes it.
BuildsStayAsLoaded ==
  [][faults' = faults => \A fp \in Fingerprints :
       builds[fp] # None => builds'[fp] = builds[fp]]_storeVars

\* Whatever the pointer resolves to is the pinned plugin of now with the edits
\* of now, the pointer left by a slower build, a copy torn by a submodule update
\* and an edit by hand included; the exception is a plugin that was moved away
\* while it was copied and is back where it was hashed.
ResolvesToCurrent ==
  \A fp \in Resolved \ {Pinned} :
    builds[fp].steady => /\ builds[fp].plugin = TreeOf(upstream)
                         /\ builds[fp].edits = adapter
=============================================================================
