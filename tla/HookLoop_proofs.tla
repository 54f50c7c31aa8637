-------------------------- MODULE HookLoop_proofs --------------------------
(***************************************************************************)
(* Proofs about Overlay and HookLoop: for every set of upstream contents,  *)
(* edit sets, anchors, files, build commands and plans.                    *)
(***************************************************************************)
EXTENDS HookLoop, TLAPS

-----------------------------------------------------------------------------
(* Types *)

LEMMA TreeType == ASSUME NEW u \in Upstreams \cup {None} PROVE TreeOf(u) \in Plugin
  BY DEF TreeOf, Plugin

LEMMA IdleType == IdleBuilder \in Builder
<1>1. (CHOOSE u \in Upstreams : TRUE) \in Upstreams /\ (CHOOSE e \in Adapters : TRUE) \in Adapters
  BY NamesAssumption
<1>2. TreeOf(None) \in Plugin
  BY TreeType
<1> QED BY <1>1, <1>2 DEF IdleBuilder, Builder

LEMMA QuitType ==
  ASSUME builder \in [Builders -> Builder], NEW b \in Builders, Quit(b)
  PROVE  builder' \in [Builders -> Builder]
  BY IdleType DEF Quit

LEMMA GotoType ==
  ASSUME builder \in [Builders -> Builder], NEW b \in Builders,
         NEW pc \in {"pointer", "publish"}, Goto(b, pc)
  PROVE  builder' \in [Builders -> Builder]
  BY DEF Goto, Builder

\* What a rename puts into place.
Published(b) == [plugin |-> builder[b].copy, edits |-> builder[b].ed,
                 upstream |-> builder[b].up, recorded |-> builder[b].copy,
                 steady |-> builder[b].steady]

LEMMA PublishedType ==
  ASSUME builder \in [Builders -> Builder], NEW b \in Builders
  PROVE  Published(b) \in Build /\ fingerprint(b) \in Fingerprints
<1>1. builder[b] \in Builder
  OBVIOUS
<1> QED BY <1>1 DEF Published, Builder, Build, fingerprint, Fingerprints

LEMMA DamagedType ==
  ASSUME NEW x \in Build, NEW f \in Files
  PROVE  [x EXCEPT !.plugin[f] = Damaged] \in Build
<1>1. [x.plugin EXCEPT ![f] = Damaged] \in Plugin
  BY DEF Build, Plugin
<1> QED BY <1>1 DEF Build

LEMMA CopyType ==
  ASSUME NEW x \in Builder, NEW f, NEW u \in Upstreams, NEW pc \in {"apply", "copy"}
  PROVE  [x EXCEPT !.copy[f] = u, !.todo = x.todo \ {f}, !.pc = pc] \in Builder
<1>1. [x.copy EXCEPT ![f] = u] \in Plugin
  BY DEF Builder, Plugin
<1>2. x.todo \ {f} \in SUBSET Files
  BY DEF Builder
<1> QED BY <1>1, <1>2 DEF Builder

\* A step of a build keeps the store's type.
LEMMA BuildStepType ==
  ASSUME StoreTypeOK, NEW b \in Builders, BuildStep(b)
  PROVE  StoreTypeOK'
<1> USE DEF StoreTypeOK
<1>0. builder[b] \in Builder
  OBVIOUS
<1>1. CASE BuildHash(b)
  <2>1. [IdleBuilder EXCEPT !.pc = "hashed", !.up = upstream, !.ed = adapter] \in Builder
    BY IdleType DEF Builder
  <2> QED BY <1>1, <2>1 DEF BuildHash
<1>2. CASE BuildReuse(b)
  BY <1>2, QuitType, GotoType DEF BuildReuse
<1>3. CASE BuildStage(b)
  <2>1. [builder[b] EXCEPT !.pc = "copy", !.todo = Files] \in Builder
    BY <1>0 DEF Builder
  <2> QED BY <1>3, <2>1 DEF BuildStage
<1>4. CASE BuildCopy(b)
  <2> DEFINE f == CHOOSE g \in builder[b].todo : TRUE
             pc == IF builder[b].todo \ {f} = {} THEN "apply" ELSE "copy"
             x == [builder[b] EXCEPT !.copy[f] = upstream,
                     !.todo = builder[b].todo \ {f}, !.pc = pc]
  <2>1. builder' = [builder EXCEPT ![b] = x]
    BY <1>4 DEF BuildCopy
  <2>2. x \in Builder
    BY <1>0, CopyType
  <2>3. builder' \in [Builders -> Builder]
    BY <2>1, <2>2
  <2> QED BY <1>4, <2>3 DEF BuildCopy
<1>5. CASE BuildApply(b)
  BY <1>5, QuitType, GotoType DEF BuildApply
<1>6. CASE BuildPublish(b)
  <2>1. builder' \in [Builders -> Builder]
    BY <1>6, QuitType, GotoType DEF BuildPublish
  <2>2. builds' = builds \/ builds' = [builds EXCEPT ![fingerprint(b)] = Published(b)]
    BY <1>6 DEF BuildPublish, Published
  <2>3. builds' \in [Fingerprints -> Build \cup {None}]
    BY <2>2, PublishedType
  <2> QED BY <1>6, <2>1, <2>3 DEF BuildPublish
<1>7. CASE BuildPointer(b)
  BY <1>7, QuitType, PublishedType DEF BuildPointer
<1>8. CASE BuildDies(b)
  BY <1>8, QuitType DEF BuildDies
<1> QED BY <1>1, <1>2, <1>3, <1>4, <1>5, <1>6, <1>7, <1>8 DEF BuildStep

LEMMA MoveType ==
  ASSUME StoreTypeOK, MoveUpstream
  PROVE  StoreTypeOK'
<1>1. \A b \in Builders : [builder[b] EXCEPT !.steady =
        builder[b].steady /\ builder[b].pc \notin {"hashed", "copy"}] \in Builder
  BY DEF StoreTypeOK, Builder
<1>2. builder' \in [Builders -> Builder]
  BY <1>1 DEF MoveUpstream
<1> QED BY <1>2 DEF MoveUpstream, StoreTypeOK

LEMMA DamageType ==
  ASSUME StoreTypeOK, NEW fp \in Fingerprints, NEW f \in Files, Damage(fp, f)
  PROVE  StoreTypeOK'
<1>1. builds[fp] \in Build
  BY DEF Damage, StoreTypeOK
<1>2. builds' = [builds EXCEPT ![fp] = [builds[fp] EXCEPT !.plugin[f] = Damaged]]
  BY DEF Damage
<1>3. builds' \in [Fingerprints -> Build \cup {None}]
  BY <1>1, <1>2, DamagedType DEF StoreTypeOK
<1> QED BY <1>3 DEF Damage, StoreTypeOK

\* So does every step of the store.
LEMMA StoreNextType ==
  ASSUME StoreTypeOK, StoreNext
  PROVE  StoreTypeOK'
<1>1. ASSUME NEW fp \in Fingerprints, RemoveBuild(fp) PROVE StoreTypeOK'
  BY <1>1 DEF RemoveBuild, StoreTypeOK
<1>2. CASE UpgradeAdapter
  BY <1>2 DEF UpgradeAdapter, StoreTypeOK
<1>3. CASE ToggleOverlay
  <2>1. enabled' \in BOOLEAN
    BY <1>3, Zenon DEF ToggleOverlay, StoreTypeOK
  <2> QED BY <1>3, <2>1 DEF ToggleOverlay, StoreTypeOK
<1> QED BY <1>1, <1>2, <1>3, BuildStepType, MoveType, DamageType DEF StoreNext

-----------------------------------------------------------------------------
(* The store *)

\* A build command whose upstream stood still has copied that upstream.
CopiedWhatItHashed ==
  \A b \in Builders : builder[b].steady =>
    /\ builder[b].pc \in {"hashed", "copy"} => builder[b].up = upstream
    /\ builder[b].pc = "copy" =>
         \A f \in Files \ builder[b].todo : builder[b].copy[f] = builder[b].up
    /\ builder[b].pc \in {"apply", "publish"} =>
         \A f \in Files : builder[b].copy[f] = builder[b].up

\* And so its record says.
RecordsWhatItIs ==
  \A fp \in Fingerprints : builds[fp] # None /\ builds[fp].steady =>
    builds[fp].recorded = TreeOf(builds[fp].upstream)

\* What one command does to its own record says nothing of another's.
LEMMA OthersCopied ==
  ASSUME StoreTypeOK, CopiedWhatItHashed, NEW b \in Builders, NEW x,
         builder' = [builder EXCEPT ![b] = x], upstream' = upstream,
         x.steady =>
           /\ x.pc \in {"hashed", "copy"} => x.up = upstream
           /\ x.pc = "copy" => \A f \in Files \ x.todo : x.copy[f] = x.up
           /\ x.pc \in {"apply", "publish"} => \A f \in Files : x.copy[f] = x.up
  PROVE  CopiedWhatItHashed'
<1> SUFFICES ASSUME NEW c \in Builders, builder'[c].steady
             PROVE  /\ builder'[c].pc \in {"hashed", "copy"} => builder'[c].up = upstream
                    /\ builder'[c].pc = "copy" =>
                         \A f \in Files \ builder'[c].todo :
                           builder'[c].copy[f] = builder'[c].up
                    /\ builder'[c].pc \in {"apply", "publish"} =>
                         \A f \in Files : builder'[c].copy[f] = builder'[c].up
  BY DEF CopiedWhatItHashed
<1>1. CASE c = b
  <2>1. builder'[c] = x
    BY <1>1 DEF StoreTypeOK
  <2> QED BY <2>1
<1>2. CASE c # b
  <2>1. builder'[c] = builder[c]
    BY <1>2 DEF StoreTypeOK
  <2> QED BY <2>1 DEF CopiedWhatItHashed
<1> QED BY <1>1, <1>2

LEMMA QuitCopied ==
  ASSUME StoreTypeOK, CopiedWhatItHashed, NEW b \in Builders, Quit(b), upstream' = upstream
  PROVE  CopiedWhatItHashed'
  BY OthersCopied DEF Quit, IdleBuilder

\* A step of a build keeps what is copied from one upstream.
LEMMA BuildStepCopied ==
  ASSUME StoreTypeOK, CopiedWhatItHashed, NEW b \in Builders, BuildStep(b)
  PROVE  CopiedWhatItHashed'
<1>0. builder[b] \in Builder
  BY DEF StoreTypeOK
<1>c. /\ builder[b].steady /\ builder[b].pc \in {"hashed", "copy"} => builder[b].up = upstream
      /\ builder[b].steady /\ builder[b].pc = "copy" =>
           \A f \in Files \ builder[b].todo : builder[b].copy[f] = builder[b].up
      /\ builder[b].steady /\ builder[b].pc \in {"apply", "publish"} =>
           \A f \in Files : builder[b].copy[f] = builder[b].up
  BY DEF CopiedWhatItHashed
<1>g. ASSUME NEW pc, Goto(b, pc), upstream' = upstream,
             pc \notin {"hashed", "copy"},
             pc \in {"apply", "publish"} => builder[b].pc \in {"apply", "publish"}
      PROVE  CopiedWhatItHashed'
  <2> DEFINE x == [builder[b] EXCEPT !.pc = pc]
  <2>1. builder' = [builder EXCEPT ![b] = x]
    BY <1>g DEF Goto
  <2>2. x.pc = pc /\ x.steady = builder[b].steady /\ x.copy = builder[b].copy
          /\ x.up = builder[b].up
    BY <1>0 DEF Builder
  <2> HIDE DEF x
  <2> QED BY <2>1, <2>2, <1>c, <1>g, OthersCopied
<1>1. CASE BuildHash(b)
  <2> DEFINE x == [IdleBuilder EXCEPT !.pc = "hashed", !.up = upstream, !.ed = adapter]
  <2>1. builder' = [builder EXCEPT ![b] = x] /\ upstream' = upstream
    BY <1>1 DEF BuildHash
  <2>2. x.pc = "hashed" /\ x.up = upstream
    BY DEF IdleBuilder
  <2> HIDE DEF x
  <2> QED BY <2>1, <2>2, OthersCopied
<1>2. CASE BuildReuse(b)
  BY <1>2, <1>g, QuitCopied DEF BuildReuse
<1>3. CASE BuildStage(b)
  <2> DEFINE x == [builder[b] EXCEPT !.pc = "copy", !.todo = Files]
  <2>1. builder' = [builder EXCEPT ![b] = x] /\ upstream' = upstream /\ builder[b].pc = "hashed"
    BY <1>3 DEF BuildStage
  <2>2. x.pc = "copy" /\ x.up = builder[b].up /\ x.todo = Files /\ x.steady = builder[b].steady
    BY <1>0 DEF Builder
  <2> HIDE DEF x
  <2> QED BY <2>1, <2>2, <1>c, OthersCopied
<1>4. CASE BuildCopy(b)
  <2> DEFINE f == CHOOSE g \in builder[b].todo : TRUE
             pc == IF builder[b].todo \ {f} = {} THEN "apply" ELSE "copy"
             x == [builder[b] EXCEPT !.copy[f] = upstream,
                     !.todo = builder[b].todo \ {f}, !.pc = pc]
  <2>1. builder' = [builder EXCEPT ![b] = x] /\ upstream' = upstream /\ builder[b].pc = "copy"
    BY <1>4 DEF BuildCopy
  <2>2. /\ x.up = builder[b].up /\ x.todo = builder[b].todo \ {f}
        /\ x.steady = builder[b].steady /\ x.pc = pc
        /\ x.copy = [builder[b].copy EXCEPT ![f] = upstream]
    BY <1>0 DEF Builder
  <2>3. ASSUME x.steady, NEW g \in Files \ x.todo PROVE x.copy[g] = x.up
    <3>1. builder[b].up = upstream
      BY <2>1, <2>2, <2>3, <1>c
    <3>2. CASE g = f
      <4>1. g \in DOMAIN builder[b].copy
        BY <1>0 DEF Builder, Plugin
      <4> QED BY <3>1, <3>2, <2>2, <4>1
    <3>3. CASE g # f
      <4>1. g \in Files \ builder[b].todo
        BY <3>3, <2>2, <2>3
      <4>2. x.copy[g] = builder[b].copy[g]
        BY <3>3, <2>2, <1>0, <4>1 DEF Builder, Plugin
      <4> QED BY <4>1, <4>2, <2>1, <2>2, <2>3, <1>c
    <3> QED BY <3>2, <3>3
  <2>4. x.pc = "apply" => x.todo = {}
    BY <2>2
  <2>5. x.pc = "apply" \/ x.pc = "copy"
    BY <2>2
  <2>6. x.steady => x.up = upstream
    BY <2>1, <2>2, <1>c
  <2> HIDE DEF x
  <2> QED BY <2>1, <2>3, <2>4, <2>5, <2>6, OthersCopied
<1>5. CASE BuildApply(b)
  BY <1>5, <1>g, QuitCopied DEF BuildApply
<1>6. CASE BuildPublish(b)
  BY <1>6, <1>g, QuitCopied DEF BuildPublish
<1>7. CASE BuildPointer(b)
  BY <1>7, QuitCopied DEF BuildPointer
<1>8. CASE BuildDies(b)
  BY <1>8, QuitCopied DEF BuildDies
<1> QED BY <1>1, <1>2, <1>3, <1>4, <1>5, <1>6, <1>7, <1>8 DEF BuildStep

\* A move of the pinned plugin ends the steadiness of whoever has not copied yet.
LEMMA MoveCopied ==
  ASSUME StoreTypeOK, CopiedWhatItHashed, MoveUpstream
  PROVE  CopiedWhatItHashed'
<1> SUFFICES ASSUME NEW c \in Builders, builder'[c].steady
             PROVE  /\ builder'[c].pc \notin {"hashed", "copy"}
                    /\ builder'[c].pc \in {"apply", "publish"} =>
                         \A f \in Files : builder'[c].copy[f] = builder'[c].up
  BY DEF CopiedWhatItHashed
<1> DEFINE x == [builder[c] EXCEPT !.steady =
                   builder[c].steady /\ builder[c].pc \notin {"hashed", "copy"}]
<1>1. builder'[c] = x
  BY DEF MoveUpstream
<1>2. /\ x.pc = builder[c].pc /\ x.copy = builder[c].copy /\ x.up = builder[c].up
      /\ x.steady = (builder[c].steady /\ builder[c].pc \notin {"hashed", "copy"})
  BY DEF StoreTypeOK, Builder
<1>3. builder[c].steady /\ builder[c].pc \notin {"hashed", "copy"}
  BY <1>1, <1>2
<1> QED BY <1>1, <1>2, <1>3 DEF CopiedWhatItHashed

\* So does every step of the store.
LEMMA StoreNextCopied ==
  ASSUME StoreTypeOK, CopiedWhatItHashed, StoreNext
  PROVE  CopiedWhatItHashed'
<1>1. CASE UNCHANGED <<upstream, builder>>
  BY <1>1 DEF CopiedWhatItHashed
<1> QED BY <1>1, BuildStepCopied, MoveCopied
     DEF StoreNext, UpgradeAdapter, ToggleOverlay, Damage, RemoveBuild

\* And the records it published.
LEMMA StoreNextRecords ==
  ASSUME StoreTypeOK, CopiedWhatItHashed, RecordsWhatItIs, StoreNext
  PROVE  RecordsWhatItIs'
<1>1. CASE UNCHANGED builds
  BY <1>1 DEF RecordsWhatItIs
<1>2. ASSUME NEW b \in Builders, BuildPublish(b), builds' # builds
      PROVE  RecordsWhatItIs'
  <2>1. builds' = [builds EXCEPT ![fingerprint(b)] = Published(b)] /\ builder[b].pc = "publish"
    BY <1>2 DEF BuildPublish, Published
  <2>2. builder[b].steady => builder[b].copy = TreeOf(builder[b].up)
    <3>1. builder[b].copy \in [Files -> Upstreams \cup {Damaged, None}]
      BY DEF StoreTypeOK, Builder, Plugin
    <3> QED BY <2>1, <3>1 DEF CopiedWhatItHashed, TreeOf
  <2>3. Published(b).steady => Published(b).recorded = TreeOf(Published(b).upstream)
    BY <2>2 DEF Published
  <2>4. ASSUME NEW fp \in Fingerprints
        PROVE  builds'[fp] = builds[fp] \/ builds'[fp] = Published(b)
    BY <2>1 DEF StoreTypeOK
  <2> QED BY <2>3, <2>4 DEF RecordsWhatItIs
<1>3. ASSUME NEW d \in Fingerprints, NEW f \in Files, Damage(d, f)
      PROVE  RecordsWhatItIs'
  <2>1. ASSUME NEW fp \in Fingerprints, builds'[fp] # None
        PROVE  /\ builds[fp] # None
               /\ builds'[fp].steady = builds[fp].steady
               /\ builds'[fp].recorded = builds[fp].recorded
               /\ builds'[fp].upstream = builds[fp].upstream
    <3>1. builds[d] \in Build
      BY <1>3 DEF Damage, StoreTypeOK
    <3>2. builds' = [builds EXCEPT ![d] = [builds[d] EXCEPT !.plugin[f] = Damaged]]
      BY <1>3 DEF Damage
    <3>3. CASE fp = d
      <4>1. builds'[fp] = [builds[d] EXCEPT !.plugin[f] = Damaged] /\ builds[d] # None
        BY <3>2, <3>3, <1>3 DEF StoreTypeOK, Damage
      <4> QED BY <3>1, <3>3, <4>1 DEF Build
    <3>4. CASE fp # d
      BY <3>2, <3>4, <2>1 DEF StoreTypeOK
    <3> QED BY <3>3, <3>4
  <2> QED BY <2>1 DEF RecordsWhatItIs
<1>4. ASSUME NEW d \in Fingerprints, RemoveBuild(d)
      PROVE  RecordsWhatItIs'
  <2>1. ASSUME NEW fp \in Fingerprints, builds'[fp] # None PROVE builds'[fp] = builds[fp]
    BY <1>4, <2>1 DEF RemoveBuild, StoreTypeOK
  <2> QED BY <2>1 DEF RecordsWhatItIs
<1> QED BY <1>1, <1>2, <1>3, <1>4
     DEF StoreNext, BuildStep, BuildHash, BuildReuse, BuildStage, BuildCopy, BuildApply,
         BuildPointer, BuildDies, MoveUpstream, UpgradeAdapter, ToggleOverlay

\* What verifies is what it is recorded to be.
LEMMA VerifiedIsCurrent ==
  ASSUME RecordsWhatItIs
  PROVE  ResolvesToCurrent
<1> SUFFICES ASSUME NEW fp \in Resolved \ {Pinned}, builds[fp].steady
             PROVE  builds[fp].plugin = TreeOf(upstream) /\ builds[fp].edits = adapter
  BY DEF ResolvesToCurrent
<1>1. fp \in Fingerprints /\ verify(fp, adapter)
  BY DEF Resolved
<1> QED BY <1>1 DEF verify, RecordsWhatItIs

\* A step that no hand in the directory took leaves every build there is.
LEMMA StoreNextStays ==
  ASSUME StoreTypeOK, StoreNext, faults' = faults,
         NEW fp \in Fingerprints, builds[fp] # None
  PROVE  builds'[fp] = builds[fp]
<1>1. ASSUME NEW b \in Builders, BuildPublish(b) PROVE builds'[fp] = builds[fp]
  <2>1. CASE builds' = builds
    BY <2>1
  <2>2. CASE builds[fingerprint(b)] = None
    <3>1. builds' = [builds EXCEPT ![fingerprint(b)] = Published(b)]
      BY <1>1, <2>2 DEF BuildPublish, Published
    <3> QED BY <2>2, <3>1 DEF StoreTypeOK
  <2> QED BY <1>1, <2>1, <2>2 DEF BuildPublish
<1>2. faults \in Nat /\ faults' # faults + 1
  BY DEF StoreTypeOK
<1> QED BY <1>1, <1>2
     DEF StoreNext, BuildStep, BuildHash, BuildReuse, BuildStage, BuildCopy, BuildApply,
         BuildPointer, BuildDies, MoveUpstream, UpgradeAdapter, ToggleOverlay, Damage,
         RemoveBuild

-----------------------------------------------------------------------------
(* The session *)

\* A session under the policy was given a build and froze the plan it began with.
EnvIsFrozen ==
  session # None /\ session.noCommit =>
    session.dir # Pinned /\ session.env.live = session.began

\* Past the guard, the hook has read the frozen plan twice.
GuardSawFrozen ==
  session # None /\ session.noCommit /\ session.sound /\ session.hook # "none" =>
    session.saw = [live |-> session.began, snapshot |-> session.began]

ReviewsInReview == session # None /\ session.hook = "reviewing" => session.phase = "review"

LoopInv == EnvIsFrozen /\ GuardSawFrozen /\ ReviewsInReview /\ PassedReviewIsAnchored

IInv == TypeOK /\ CopiedWhatItHashed /\ RecordsWhatItIs /\ LoopInv

\* Where neither the session nor its review moves.
LEMMA LoopFrame ==
  ASSUME LoopInv, UNCHANGED <<session, review>>
  PROVE  LoopInv'
  BY DEF LoopInv, EnvIsFrozen, GuardSawFrozen, ReviewsInReview, PassedReviewIsAnchored

\* What no step of a hook changes.
Same(x, y) == /\ x.running = y.running /\ x.dir = y.dir /\ x.noCommit = y.noCommit
              /\ x.env = y.env /\ x.began = y.began

\* The loop's steps keep the invariant: a start.
LEMMA AgentStartKeeps ==
  ASSUME TypeOK, LoopInv, AgentStart
  PROVE  TypeOK' /\ LoopInv'
<1>1. PICK dir \in Resolved :
        session' = [running |-> TRUE, dir |-> dir, noCommit |-> dir # Pinned, env |-> plan,
                    phase |-> "round", hook |-> "none", began |-> plan.live,
                    sound |-> TRUE, saw |-> plan]
  BY DEF AgentStart
<1>2. dir \in Fingerprints \cup {Pinned}
  BY DEF Resolved
<1>3. (dir # Pinned) \in BOOLEAN
  OBVIOUS
<1>4. plan \in Copies /\ plan.live \in Plans \cup {None}
  BY DEF TypeOK, Copies
<1>5. session' \in Session
  BY <1>1, <1>2, <1>3, <1>4 DEF Session
<1>6. TypeOK'
  BY <1>5 DEF AgentStart, TypeOK, StoreTypeOK, storeVars
<1>7. LoopInv'
  BY <1>1, <1>5 DEF LoopInv, EnvIsFrozen, GuardSawFrozen, ReviewsInReview,
                    PassedReviewIsAnchored
<1> QED BY <1>6, <1>7

\* The writer's end and its resumption.
LEMMA RunningKeeps ==
  ASSUME TypeOK, LoopInv, AgentEnds \/ AgentResume
  PROVE  TypeOK' /\ LoopInv'
<1>1. session \in Session /\ session # None
  BY DEF AgentEnds, AgentResume, Resumable, TypeOK
<1>2. \/ session' = [session EXCEPT !.running = FALSE, !.hook = "none"]
      \/ session' = [session EXCEPT !.running = TRUE]
  BY DEF AgentEnds, AgentResume
<1>3. session' \in Session
  BY <1>1, <1>2 DEF Session
<1>4. TypeOK'
  BY <1>3 DEF AgentEnds, AgentResume, TypeOK, StoreTypeOK, storeVars
<1>5. /\ session'.dir = session.dir /\ session'.noCommit = session.noCommit
      /\ session'.env = session.env /\ session'.began = session.began
      /\ session'.phase = session.phase /\ session'.sound = session.sound
      /\ session'.saw = session.saw
      /\ session'.hook = "none" \/ session'.hook = session.hook
  BY <1>1, <1>2 DEF Session, Same
<1>6. review' = review
  BY DEF AgentEnds, AgentResume
<1>7. LoopInv'
  BY <1>1, <1>5, <1>6 DEF LoopInv, EnvIsFrozen, GuardSawFrozen, ReviewsInReview,
                          PassedReviewIsAnchored
<1> QED BY <1>4, <1>7

\* The hook's guard.
LEMMA HookGuardKeeps ==
  ASSUME TypeOK, LoopInv, HookGuard
  PROVE  TypeOK' /\ LoopInv'
<1> DEFINE sound == session.sound /\ (Overlaid \/ session.dir = Pinned)
<1>1. session \in Session /\ session # None
  BY DEF HookGuard, AtWork, TypeOK
<1>2. session' = [session EXCEPT !.hook = "guarded", !.saw = plan, !.sound = sound]
  BY DEF HookGuard
<1>3. sound \in BOOLEAN /\ plan \in Copies
  BY <1>1 DEF Session, TypeOK
<1>4. session' \in Session
  BY <1>1, <1>2, <1>3 DEF Session
<1>5. TypeOK'
  BY <1>4 DEF HookGuard, TypeOK, StoreTypeOK, storeVars
<1>6. /\ Same(session', session) /\ session'.phase = session.phase
      /\ session'.sound = sound /\ session'.saw = plan /\ session'.hook = "guarded"
  BY <1>1, <1>2 DEF Session, Same
<1>7. ASSUME session.noCommit, sound
      PROVE  plan = [live |-> session.began, snapshot |-> session.began]
  <2>1. session.env.live = session.began /\ session.dir # Pinned
    BY <1>1, <1>7 DEF LoopInv, EnvIsFrozen
  <2>2. ~k3_plan_freeze_violation
    BY <1>7, <2>1 DEF HookGuard
  <2>3. /\ plan.live = session.env.live /\ plan.snapshot = session.env.snapshot
        /\ session.env.live = session.env.snapshot
    BY <1>7, <2>2 DEF k3_plan_freeze_violation, k3_no_commit_config_violation
  <2> QED BY <2>1, <2>3, <1>3 DEF Copies
<1>8. review' = review
  BY DEF HookGuard
<1> HIDE DEF sound
<1>9. sound => session.sound
  BY DEF sound
<1>10. LoopInv'
  BY <1>1, <1>6, <1>7, <1>8, <1>9
     DEF LoopInv, EnvIsFrozen, GuardSawFrozen, ReviewsInReview, PassedReviewIsAnchored, Same
<1> QED BY <1>5, <1>10

\* The hook's commit gate.
LEMMA HookGateKeeps ==
  ASSUME TypeOK, LoopInv, HookCommitGate
  PROVE  TypeOK' /\ LoopInv'
<1>1. session \in Session /\ session # None /\ session.hook = "guarded"
  BY DEF HookCommitGate, InHook, TypeOK
<1>2. PICK hook \in {"none", "gated"} : session' = [session EXCEPT !.hook = hook]
  BY DEF HookCommitGate
<1>3. session' \in Session
  BY <1>1, <1>2 DEF Session
<1>4. TypeOK'
  BY <1>3 DEF HookCommitGate, TypeOK, StoreTypeOK, storeVars
<1>5. Same(session', session) /\ session'.phase = session.phase /\ session'.hook = hook
        /\ session'.sound = session.sound /\ session'.saw = session.saw
  BY <1>1, <1>2 DEF Session, Same
<1>6. review' = review
  BY DEF HookCommitGate
<1>7. LoopInv'
  BY <1>1, <1>5, <1>6
     DEF LoopInv, EnvIsFrozen, GuardSawFrozen, ReviewsInReview, PassedReviewIsAnchored, Same
<1> QED BY <1>4, <1>7

\* The steps that change the phase before or after the review.
LEMMA HookPhaseKeeps ==
  ASSUME TypeOK, LoopInv, HookSummary \/ HookReviewAgain \/ HookComplete
  PROVE  TypeOK' /\ LoopInv'
<1>1. session \in Session /\ session # None /\ session.hook = "gated"
  BY DEF HookSummary, HookReviewAgain, HookComplete, InHook, TypeOK
<1>2. \/ session' = [session EXCEPT !.hook = "none"]
      \/ session' = [session EXCEPT !.hook = "reviewing", !.phase = "review"]
      \/ session' = [session EXCEPT !.hook = "reviewing"] /\ session.phase = "review"
      \/ /\ session' = [session EXCEPT !.hook = "none", !.phase = "complete"]
         /\ session.phase = "finalize"
  BY DEF HookSummary, HookReviewAgain, HookComplete
<1>3. session' \in Session
  BY <1>1, <1>2 DEF Session
<1>4. TypeOK'
  BY <1>3 DEF HookSummary, HookReviewAgain, HookComplete, TypeOK, StoreTypeOK, storeVars
<1>5. /\ Same(session', session)
      /\ session'.sound = session.sound /\ session'.saw = session.saw
      /\ \/ session'.hook = "none" /\ session'.phase = session.phase
         \/ session'.hook = "reviewing" /\ session'.phase = "review"
         \/ session'.hook = "none" /\ session.phase = "finalize"
  BY <1>1, <1>2 DEF Session, Same
<1>6. review' = review
  BY DEF HookSummary, HookReviewAgain, HookComplete
<1>7. LoopInv'
  BY <1>1, <1>5, <1>6
     DEF LoopInv, EnvIsFrozen, GuardSawFrozen, ReviewsInReview, PassedReviewIsAnchored, Same
<1> QED BY <1>4, <1>7

\* Its review.
LEMMA HookReviewKeeps ==
  ASSUME TypeOK, LoopInv, HookReview
  PROVE  TypeOK' /\ LoopInv'
<1> DEFINE sound == session.sound /\ (Overlaid \/ session.dir = Pinned)
<1>1. session \in Session /\ session # None /\ session.hook = "reviewing"
        /\ session.phase = "review"
  BY DEF HookReview, InHook, TypeOK, LoopInv, ReviewsInReview
<1>2. PICK verdict \in Verdicts :
        /\ review' = [verdict |-> verdict, target |-> ReviewTarget, read |-> session.saw]
        /\ session' = [session EXCEPT !.hook = "none",
             !.phase = IF Passes(verdict) THEN "finalize" ELSE "review", !.sound = sound]
  BY DEF HookReview
<1> DEFINE phase == IF Passes(verdict) THEN "finalize" ELSE "review"
<1>3. phase \in {"round", "review", "finalize", "complete"} /\ sound \in BOOLEAN
  BY <1>1 DEF Session
<1>4. session' \in Session
  BY <1>1, <1>2, <1>3 DEF Session
<1>5. ReviewTarget \in {"uncommitted", "base"} /\ session.saw \in Copies
  BY <1>1 DEF ReviewTarget, Session
<1>r. review' \in Review
  BY <1>2, <1>5 DEF Review
<1>6. TypeOK'
  BY <1>4, <1>r DEF HookReview, TypeOK, StoreTypeOK, storeVars
<1>7. Same(session', session) /\ session'.phase = phase /\ session'.sound = sound
        /\ session'.saw = session.saw /\ session'.hook = "none"
  BY <1>1, <1>2 DEF Session, Same
<1>8. EnvIsFrozen' /\ GuardSawFrozen' /\ ReviewsInReview'
  BY <1>1, <1>7 DEF LoopInv, EnvIsFrozen, GuardSawFrozen, ReviewsInReview, Same
<1>9. ASSUME session.noCommit, sound, Passes(verdict)
      PROVE  /\ verdict = "clean" /\ ReviewTarget = "uncommitted"
             /\ session.saw = [live |-> session.began, snapshot |-> session.began]
  <2>1. Overlaid
    BY <1>9, <1>1 DEF LoopInv, EnvIsFrozen
  <2>2. verdict = "clean"
    BY <1>9, <2>1, <1>2 DEF Passes, Verdicts
  <2>3. ReviewTarget = "uncommitted"
    BY <1>9, <2>1 DEF ReviewTarget
  <2> QED BY <1>1, <1>9, <2>2, <2>3 DEF LoopInv, GuardSawFrozen
<1>10. phase # "review" => Passes(verdict)
  OBVIOUS
<1>11. phase \in {"finalize", "review"}
  OBVIOUS
<1>f. /\ review'.verdict = verdict /\ review'.target = ReviewTarget
      /\ review'.read = session.saw
  BY <1>2
<1>n. review' # None
  BY <1>r, NoRecordAssumption
<1> HIDE DEF sound, phase
<1>12. PassedReviewIsAnchored'
  BY <1>7, <1>9, <1>10, <1>11, <1>f, <1>n DEF PassedReviewIsAnchored, Same
<1> QED BY <1>6, <1>8, <1>12 DEF LoopInv

\* All of the hook.
LEMMA HookStepKeeps ==
  ASSUME TypeOK, LoopInv, HookStep
  PROVE  TypeOK' /\ LoopInv'
  BY HookGuardKeeps, HookGateKeeps, HookPhaseKeeps, HookReviewKeeps DEF HookStep

\* And the writers of the files it reads.
LEMMA WritersKeep ==
  ASSUME TypeOK, LoopInv, Work \/ \E file \in {"live", "snapshot"} : EditPlan(file)
  PROVE  TypeOK' /\ LoopInv'
<1>1. CASE Work
  <2>1. dirty' \in BOOLEAN
    BY <1>1, Zenon DEF Work, TypeOK
  <2>2. TypeOK'
    BY <1>1, <2>1 DEF Work, TypeOK, StoreTypeOK, storeVars
  <2> QED BY <1>1, <2>2, LoopFrame DEF Work
<1>2. ASSUME NEW file \in {"live", "snapshot"}, EditPlan(file)
      PROVE  TypeOK' /\ LoopInv'
  <2>1. plan' \in Copies
    BY <1>2 DEF EditPlan, TypeOK, Copies
  <2>2. TypeOK'
    BY <1>2, <2>1 DEF EditPlan, TypeOK, StoreTypeOK, storeVars
  <2> QED BY <1>2, <2>2, LoopFrame DEF EditPlan
<1> QED BY <1>1, <1>2

\* Every step of the loop leaves the store alone.
LEMMA LoopLeavesStore ==
  ASSUME Next, ~(StoreNext /\ UNCHANGED loopVars)
  PROVE  UNCHANGED storeVars
<1>1. CASE AgentStart \/ AgentEnds \/ AgentResume \/ Work
  BY <1>1 DEF AgentStart, AgentEnds, AgentResume, Work
<1>2. CASE HookStep
  BY <1>2 DEF HookStep, HookGuard, HookCommitGate, HookSummary, HookReviewAgain, HookReview,
              HookComplete
<1>3. CASE \E file \in {"live", "snapshot"} : EditPlan(file)
  BY <1>3 DEF EditPlan
<1> QED BY <1>1, <1>2, <1>3 DEF Next

\* The invariant at the start.
LEMMA InitEstablishes == Init => IInv
<1> SUFFICES ASSUME Init PROVE IInv
  OBVIOUS
<1>1. StoreTypeOK
  <2>1. builder \in [Builders -> Builder]
    BY IdleType DEF Init, StoreInit
  <2> QED BY <2>1 DEF Init, StoreInit, StoreTypeOK
<1>2. TypeOK
  <2>1. plan \in Copies
    BY DEF Init, Copies
  <2> QED BY <1>1, <2>1 DEF Init, TypeOK
<1>3. CopiedWhatItHashed
  BY DEF Init, StoreInit, IdleBuilder, CopiedWhatItHashed
<1>4. RecordsWhatItIs
  BY DEF Init, StoreInit, RecordsWhatItIs
<1>5. LoopInv
  BY DEF Init, LoopInv, EnvIsFrozen, GuardSawFrozen, ReviewsInReview, PassedReviewIsAnchored
<1> QED BY <1>2, <1>3, <1>4, <1>5 DEF IInv

\* And in every step.
LEMMA NextPreserves == IInv /\ [Next]_vars => IInv'
<1> SUFFICES ASSUME IInv, [Next]_vars PROVE IInv'
  OBVIOUS
<1> USE DEF IInv
<1>t. StoreTypeOK
  BY DEF TypeOK
<1>1. CASE StoreNext /\ UNCHANGED loopVars
  <2>1. StoreTypeOK' /\ CopiedWhatItHashed' /\ RecordsWhatItIs'
    BY <1>1, <1>t, StoreNextType, StoreNextCopied, StoreNextRecords
  <2>2. TypeOK'
    BY <1>1, <2>1 DEF TypeOK, loopVars
  <2>3. LoopInv'
    BY <1>1, LoopFrame DEF loopVars
  <2> QED BY <2>1, <2>2, <2>3
<1>2. CASE Next /\ ~(StoreNext /\ UNCHANGED loopVars)
  <2>1. UNCHANGED storeVars
    BY <1>2, LoopLeavesStore
  <2>2. CopiedWhatItHashed' /\ RecordsWhatItIs'
    BY <2>1 DEF storeVars, CopiedWhatItHashed, RecordsWhatItIs
  <2>3. TypeOK' /\ LoopInv'
    BY <1>2, AgentStartKeeps, RunningKeeps, HookStepKeeps, WritersKeep DEF Next
  <2> QED BY <2>2, <2>3
<1>3. CASE UNCHANGED vars
  <2>1. TypeOK'
    BY <1>3 DEF vars, TypeOK, StoreTypeOK
  <2>2. CopiedWhatItHashed' /\ RecordsWhatItIs'
    BY <1>3 DEF vars, CopiedWhatItHashed, RecordsWhatItIs
  <2>3. LoopInv'
    BY <1>3, LoopFrame DEF vars
  <2> QED BY <2>1, <2>2, <2>3
<1> QED BY <1>1, <1>2, <1>3

\* The invariant the theorems below follow from.
THEOREM Inductive == Spec => []IInv
  BY InitEstablishes, NextPreserves, PTL DEF Spec

\* Every variable of store and loop keeps its type (all steps of Overlay and
\* HookLoop).
THEOREM TypeCorrect == Spec => []TypeOK
<1>1. IInv => TypeOK
  BY DEF IInv
<1> QED BY <1>1, Inductive, PTL

\* A session that is started gets the overlay of the pinned plugin of that
\* moment, made by the edit set of that moment (build, verify,
\* resolve_plugin_dir), however many builds raced, died or were overtaken.
THEOREM ResolvesCurrent == Spec => []ResolvesToCurrent
<1>1. IInv => ResolvesToCurrent
  BY VerifiedIsCurrent DEF IInv
<1> QED BY <1>1, Inductive, PTL

\* No command ever changes a build that is there (build's refusal to replace).
THEOREM BuildsStay == Spec => BuildsStayAsLoaded
<1>1. IInv /\ [Next]_vars =>
        [faults' = faults => \A fp \in Fingerprints :
           builds[fp] # None => builds'[fp] = builds[fp]]_storeVars
  <2> SUFFICES ASSUME IInv, [Next]_vars, storeVars' # storeVars, faults' = faults,
                      NEW fp \in Fingerprints, builds[fp] # None
               PROVE  builds'[fp] = builds[fp]
    OBVIOUS
  <2>1. StoreNext
    BY LoopLeavesStore DEF vars, storeVars
  <2> QED BY <2>1, StoreNextStays DEF IInv, TypeOK
<1> QED BY <1>1, Inductive, PTL DEF Spec, BuildsStayAsLoaded

\* A loop under the no-commit policy is past its review only by a review that
\* ended clean, of the uncommitted work, under the plan it was started with
\* (k3_plan_freeze_violation, k3_review_inconclusive_reason, the environment
\* frozen by start and kept by resume).
THEOREM PassedReviewAnchored == Spec => []PassedReviewIsAnchored
<1>1. IInv => PassedReviewIsAnchored
  BY DEF IInv, LoopInv
<1> QED BY <1>1, Inductive, PTL
=============================================================================
