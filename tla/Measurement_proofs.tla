------------------------ MODULE Measurement_proofs -------------------------
(***************************************************************************)
(* Proofs about Workspace and Measurement: for every set of commits,       *)
(* files, prepare commands, runs and workers, and every bound.  In the end *)
(* proofs about SiteRun: for every set of runs, commands, sites and        *)
(* configurations, and every number of faults.                             *)
(***************************************************************************)
EXTENDS Measurement, SiteRun, TLAPS, FiniteSetTheorems

-----------------------------------------------------------------------------
(* Types of the workspace *)

LEMMA TreeOfType == ASSUME NEW c \in Commits \cup {None} PROVE TreeOf(c) \in Source
  BY DEF TreeOf, Source, Content

LEMMA AbsentType == Absent \in Tree
  BY TreeOfType DEF Absent, Tree

LEMMA IdlePrepType == IdlePrep \in Prep
<1>1. (CHOOSE c \in Commits : TRUE) \in Commits
  BY CommitsAssumption
<1>2. TreeOf(None) \in Source
  BY TreeOfType
<1> QED BY <1>1, <1>2 DEF IdlePrep, Prep, Phases, Modes

\* The updates the steps make of a prepare command and of a tree.
LEMMA AbortType ==
  ASSUME prep \in [Preparers -> Prep], NEW p \in Preparers, Abort(p)
  PROVE  prep' \in [Preparers -> Prep]
  BY IdlePrepType DEF Abort

LEMMA PrepPc ==
  ASSUME NEW x \in Prep, NEW pc \in Phases, NEW todo \in SUBSET Files, NEW d \in Source
  PROVE  /\ [x EXCEPT !.pc = pc] \in Prep
         /\ [x EXCEPT !.pc = pc, !.todo = todo] \in Prep
         /\ [x EXCEPT !.todo = todo, !.pc = pc] \in Prep
         /\ [x EXCEPT !.pc = pc, !.todo = todo, !.digest = d] \in Prep
  BY DEF Prep

LEMMA FileType ==
  ASSUME trees \in [Roots -> Tree], NEW root \in Roots, NEW f, NEW v \in Content
  PROVE  [trees EXCEPT ![root].files[f] = v] \in [Roots -> Tree]
<1>1. trees[root] \in Tree
  OBVIOUS
<1>2. [trees[root].files EXCEPT ![f] = v] \in Source
  BY <1>1 DEF Tree, Source
<1>3. [trees[root] EXCEPT !.files = [trees[root].files EXCEPT ![f] = v]] \in Tree
  BY <1>1, <1>2 DEF Tree
<1>4. [trees EXCEPT ![root].files[f] = v]
        = [trees EXCEPT ![root] = [trees[root] EXCEPT !.files = [trees[root].files EXCEPT ![f] = v]]]
  OBVIOUS
<1> QED BY <1>3, <1>4

LEMMA FilesType ==
  ASSUME trees \in [Roots -> Tree], NEW root \in Roots, NEW s \in Source
  PROVE  [trees EXCEPT ![root].files = s] \in [Roots -> Tree]
<1>1. [trees[root] EXCEPT !.files = s] \in Tree
  BY DEF Tree
<1> QED BY <1>1

LEMMA HeadType ==
  ASSUME trees \in [Roots -> Tree], NEW root \in Roots, NEW c \in Commits
  PROVE  /\ [trees EXCEPT ![root].head = c] \in [Roots -> Tree]
         /\ [trees EXCEPT ![root].control = TRUE] \in [Roots -> Tree]
<1>1. [trees[root] EXCEPT !.head = c] \in Tree /\ [trees[root] EXCEPT !.control = TRUE] \in Tree
  BY DEF Tree
<1> QED BY <1>1

LEMMA DigestType == ASSUME WsTypeOK, NEW root \in Roots PROVE Digest(root) \in Source
  BY DEF WsTypeOK, Digest, Tree

\* Each step of a prepare keeps the workspace's type: the check.
LEMMA CheckType ==
  ASSUME WsTypeOK, NEW p \in Preparers, PrepareCheck(p)
  PROVE  WsTypeOK'
<1>1. PICK mode \in Modes :
       prep' = [q \in Preparers |->
                  IF q = p
                  THEN [IdlePrep EXCEPT !.pc = "checked", !.mode = mode, !.base = base,
                                        !.alone = \A o \in Preparers : ~Running(o)]
                  ELSE [prep[q] EXCEPT !.alone = ~Running(q)]]
  BY DEF PrepareCheck
<1>2. \A a \in BOOLEAN : [IdlePrep EXCEPT !.pc = "checked", !.mode = mode, !.base = base,
                                          !.alone = a] \in Prep
  BY IdlePrepType DEF Prep, Phases, WsTypeOK
<1>3. (\A o \in Preparers : ~Running(o)) \in BOOLEAN /\ \A q \in Preparers : (~Running(q)) \in BOOLEAN
  BY DEF Running
<1>4. \A q \in Preparers : \A a \in BOOLEAN : [prep[q] EXCEPT !.alone = a] \in Prep
  BY DEF WsTypeOK, Prep
<1>5. prep' \in [Preparers -> Prep]
  BY <1>1, <1>2, <1>3, <1>4
<1> QED BY <1>5 DEF PrepareCheck, WsTypeOK

\* An extraction.
LEMMA ExtractType ==
  ASSUME WsTypeOK, NEW p \in Preparers, NEW root \in Roots, NEW next \in Phases,
         root \in Phases, Extract(p, root, next)
  PROVE  WsTypeOK'
<1> DEFINE f == CHOOSE g \in prep[p].todo : TRUE
           left == prep[p].todo \ {f}
           pc == IF left = {} THEN next ELSE root
<1>1. prep[p] \in Prep /\ prep[p].base \in Content /\ left \in SUBSET Files /\ pc \in Phases
  BY DEF WsTypeOK, Prep, Content
<1>2. /\ trees' = [trees EXCEPT ![root].files[f] = prep[p].base]
      /\ prep' = [prep EXCEPT ![p] = [prep[p] EXCEPT !.todo = left, !.pc = pc]]
  BY DEF Extract
<1>3. [prep[p] EXCEPT !.todo = left, !.pc = pc] \in Prep
  BY <1>1 DEF Prep
<1>4. trees' \in [Roots -> Tree]
  BY <1>1, <1>2, FileType DEF WsTypeOK
<1> HIDE DEF f, left, pc
<1>5. prep' \in [Preparers -> Prep]
  BY <1>2, <1>3 DEF WsTypeOK
<1> QED BY <1>4, <1>5 DEF Extract, WsTypeOK

\* A checkout.
LEMMA CheckoutType ==
  ASSUME WsTypeOK, NEW p \in Preparers, PrepareCheckout(p)
  PROVE  WsTypeOK'
<1>1. prep[p] \in Prep
  BY DEF WsTypeOK
<1>2. prep' \in [Preparers -> Prep]
  <2>1. [prep[p] EXCEPT !.pc = "snapshot"] \in Prep
    BY <1>1 DEF Prep, Phases
  <2> QED BY <2>1, AbortType DEF PrepareCheckout, WsTypeOK
<1>3. trees' \in [Roots -> Tree]
  <2>1. TreeOf(prep[p].base) \in Source
    BY <1>1, TreeOfType DEF Prep
  <2>2. \A some \in (SUBSET Files) \ {Files} :
          [f \in Files |-> IF f \in some THEN prep[p].base ELSE None] \in Source
    BY <1>1 DEF Prep, Source, Content
  <2>3. \/ trees' = trees
        \/ trees' = [trees EXCEPT !["candidate"].files = TreeOf(prep[p].base)]
        \/ \E some \in (SUBSET Files) \ {Files} :
             trees' = [trees EXCEPT !["candidate"].files =
                         [f \in Files |-> IF f \in some THEN prep[p].base ELSE None]]
    BY DEF PrepareCheckout
  <2>4. \A s \in Source : [trees EXCEPT !["candidate"].files = s] \in [Roots -> Tree]
    BY FilesType DEF WsTypeOK, Roots
  <2>5. CASE trees' = [trees EXCEPT !["candidate"].files = TreeOf(prep[p].base)]
    BY <2>1, <2>4, <2>5
  <2>6. ASSUME NEW some \in (SUBSET Files) \ {Files},
               trees' = [trees EXCEPT !["candidate"].files =
                           [f \in Files |-> IF f \in some THEN prep[p].base ELSE None]]
        PROVE  trees' \in [Roots -> Tree]
    BY <2>2, <2>4, <2>6
  <2> QED BY <2>3, <2>5, <2>6 DEF WsTypeOK
<1>4. faults' \in Nat
  BY DEF PrepareCheckout, WsTypeOK
<1> QED BY <1>2, <1>3, <1>4 DEF PrepareCheckout, WsTypeOK

\* All of them.
LEMMA PrepareType ==
  ASSUME WsTypeOK, NEW p \in Preparers, PrepareStep(p)
  PROVE  WsTypeOK'
<1>0. prep[p] \in Prep
  BY DEF WsTypeOK
<1>p. ASSUME NEW pc \in Phases PROVE [prep[p] EXCEPT !.pc = pc] \in Prep
  BY <1>0 DEF Prep
<1>1. CASE PrepareClone(p)
  <2>1. [prep[p] EXCEPT !.pc = "cloned"] \in Prep
    BY <1>p DEF Phases
  <2>2. prep' \in [Preparers -> Prep]
    BY <1>1, <2>1, AbortType DEF PrepareClone, WsTypeOK
  <2>3. trees' \in [Roots -> Tree]
    BY <1>0, <1>1, HeadType DEF PrepareClone, WsTypeOK, Roots, Prep
  <2> QED BY <1>1, <2>2, <2>3 DEF PrepareClone, WsTypeOK
<1>2. CASE PrepareArchive(p)
  <2>1. [prep[p] EXCEPT !.pc = "candidate", !.todo = Files] \in Prep
    BY <1>0 DEF Prep, Phases
  <2> QED BY <1>2, <2>1 DEF PrepareArchive, WsTypeOK
<1>3. CASE PrepareSnapshot(p)
  <2>1. [prep[p] EXCEPT !.pc = "hash"] \in Prep
    BY <1>p DEF Phases
  <2>2. trees' \in [Roots -> Tree]
    BY <1>3, HeadType, CommitsAssumption DEF PrepareSnapshot, WsTypeOK, Roots
  <2> QED BY <1>3, <2>1, <2>2 DEF PrepareSnapshot, WsTypeOK
<1>4. CASE PrepareHash(p)
  <2>1. Digest("candidate") \in Source
    BY DigestType DEF Roots
  <2>2. [prep[p] EXCEPT !.pc = "baseline", !.todo = Files, !.digest = Digest("candidate")] \in Prep
    BY <1>0, <2>1 DEF Prep, Phases
  <2> QED BY <1>4, <2>2 DEF PrepareHash, WsTypeOK
<1>5. CASE PrepareVerify(p)
  <2>1. [prep[p] EXCEPT !.pc = "record"] \in Prep
    BY <1>p DEF Phases
  <2> QED BY <1>5, <2>1, AbortType DEF PrepareVerify, WsTypeOK
<1>6. CASE PrepareRecord(p)
  <2>1. record' \in [base: Commits, digest: Source, alone: BOOLEAN]
    BY <1>0, <1>6 DEF PrepareRecord, Prep
  <2> QED BY <1>6, <2>1, AbortType DEF PrepareRecord, WsTypeOK
<1>7. CASE PrepareDies(p)
  BY <1>7, AbortType DEF PrepareDies, WsTypeOK
<1>8. CASE PrepareExtractCandidate(p) \/ PrepareExtractBaseline(p)
  BY <1>8, ExtractType DEF PrepareExtractCandidate, PrepareExtractBaseline, Roots, Phases
<1> QED BY <1>1, <1>2, <1>3, <1>4, <1>5, <1>6, <1>7, <1>8, CheckType, CheckoutType
     DEF PrepareStep

\* So does every step.
LEMMA WsNextType ==
  ASSUME WsTypeOK, WsNext
  PROVE  WsTypeOK'
<1>1. ASSUME NEW root \in Roots, NEW f \in Files, Edit(root, f) PROVE WsTypeOK'
  <2>1. edits + 1 \in Content
    BY DEF Content, WsTypeOK
  <2>2. trees' \in [Roots -> Tree]
    BY <1>1, <2>1, FileType DEF Edit, WsTypeOK
  <2> QED BY <1>1, <2>2 DEF Edit, WsTypeOK
<1>2. ASSUME NEW roots \in SUBSET Roots, Remove(roots) PROVE WsTypeOK'
  <2>1. trees' \in [Roots -> Tree]
    BY <1>2, AbsentType DEF Remove, WsTypeOK
  <2> QED BY <1>2, <2>1 DEF Remove, WsTypeOK
<1>3. CASE Rebase
  BY <1>3 DEF Rebase, WsTypeOK
<1> QED BY <1>1, <1>2, <1>3, PrepareType DEF WsNext

-----------------------------------------------------------------------------
(* A prepare that runs alone *)

\* Alone is alone.
AloneIsAlone ==
  \A p \in Preparers : Running(p) /\ prep[p].alone =>
    \A o \in Preparers \ {p} : ~Running(o)

\* No number on disk or in a hash is of an edit still to come.
EditsAreFresh ==
  /\ \A root \in Roots, f \in Files : trees[root].files[f] \in Nat => trees[root].files[f] <= edits
  /\ \A p \in Preparers, f \in Files : prep[p].digest[f] \in Nat => prep[p].digest[f] <= edits

\* Only the candidate can be a clone.
BaselineIsNoClone == trees["baseline"].head = None

\* The phases in which a prepare has not reached the baseline.
Early == {"checked", "cloned", "candidate", "snapshot", "hash"}

\* What the trees hold while p prepares them alone.
Prepares(p) ==
  /\ \A f \in Files : trees["baseline"].files[f] \in Nat =>
       trees["candidate"].files[f] # trees["baseline"].files[f]
  /\ \A f \in Files : trees["baseline"].files[f] \in Nat =>
       prep[p].digest[f] # trees["baseline"].files[f]
  /\ \A f \in Files : trees["baseline"].files[f] \in Nat \cup {None, prep[p].base}
  /\ prep[p].pc \in Early => \A f \in Files : trees["baseline"].files[f] = None
  /\ prep[p].pc = "baseline" =>
       \A f \in Files : (trees["baseline"].files[f] = None) <=> (f \in prep[p].todo)
  /\ prep[p].pc = "verify" => \A f \in Files : trees["baseline"].files[f] # None
  /\ prep[p].mode = "archive" => trees["candidate"].head = None
  /\ prep[p].pc = "candidate" => prep[p].mode = "archive"
  /\ prep[p].pc = "checked" => \A f \in Files : trees["candidate"].files[f] = None
  /\ prep[p].pc = "candidate" => \A f \in prep[p].todo : trees["candidate"].files[f] = None
  /\ prep[p].pc \in {"candidate", "baseline"} => prep[p].todo # {}
  /\ prep[p].pc = "record" => prep[p].digest = TreeOf(prep[p].base)

LonePrepares == \A p \in Preparers : Running(p) /\ prep[p].alone => Prepares(p)

WsInv == /\ WsTypeOK /\ AloneIsAlone /\ EditsAreFresh /\ BaselineIsNoClone
         /\ LonePrepares /\ LoneRecordIsItsCommit

\* A step of one running command that ends it or keeps what it has prepared.
LEMMA OwnStep ==
  ASSUME WsTypeOK, AloneIsAlone, LonePrepares, NEW p \in Preparers, NEW x, Running(p),
         prep' = [prep EXCEPT ![p] = x],
         x.pc # "idle" => x.alone = prep[p].alone,
         x.pc # "idle" /\ prep[p].alone => Prepares(p)'
  PROVE  AloneIsAlone' /\ LonePrepares'
<1>1. prep'[p] = x /\ \A q \in Preparers \ {p} : prep'[q] = prep[q]
  BY DEF WsTypeOK
<1>2. AloneIsAlone'
  BY <1>1 DEF AloneIsAlone, Running
<1>3. \A q \in Preparers \ {p} : ~(Running(q) /\ prep[q].alone)
  BY DEF AloneIsAlone
<1>4. LonePrepares'
  BY <1>1, <1>3 DEF LonePrepares, Running
<1> QED BY <1>2, <1>4

\* A prepare that gives up leaves the lone ones what they have.
LEMMA AbortStep ==
  ASSUME WsTypeOK, AloneIsAlone, LonePrepares, NEW p \in Preparers, Running(p), Abort(p)
  PROVE  AloneIsAlone' /\ LonePrepares'
<1>1. IdlePrep.pc = "idle"
  BY DEF IdlePrep
<1> QED BY <1>1, OwnStep DEF Abort

\* Contents written are commits, nothing, or the newest edit; digests are taken.
LEMMA Fresh ==
  ASSUME WsTypeOK, EditsAreFresh, edits' \in Nat, edits <= edits',
         \A root \in Roots, f \in Files :
           \/ trees'[root].files[f] = trees[root].files[f]
           \/ trees'[root].files[f] \notin Nat
           \/ trees'[root].files[f] = edits',
         \A p \in Preparers, f \in Files :
           \/ prep'[p].digest[f] = prep[p].digest[f]
           \/ prep'[p].digest[f] \notin Nat
           \/ \E root \in Roots : prep'[p].digest[f] = trees[root].files[f]
  PROVE  EditsAreFresh'
<1>1. edits \in Nat
  BY DEF WsTypeOK
<1>2. ASSUME NEW root \in Roots, NEW f \in Files, trees'[root].files[f] \in Nat
      PROVE  trees'[root].files[f] <= edits'
  BY <1>1, <1>2 DEF EditsAreFresh
<1>3. ASSUME NEW p \in Preparers, NEW f \in Files, prep'[p].digest[f] \in Nat
      PROVE  prep'[p].digest[f] <= edits'
  BY <1>1, <1>3 DEF EditsAreFresh
<1> QED BY <1>2, <1>3 DEF EditsAreFresh

\* The contents there are.
LEMMA Contents ==
  /\ None \notin Nat /\ \A c \in Commits : c \notin Nat /\ c # None
  /\ \A v : \A f \in Files : TreeOf(v)[f] = v
  BY NoneAssumption, CommitsAssumption DEF TreeOf

\* What the own steps of a command share: which fields of its record they touch.
LEMMA IdleDigest == \A f \in Files : IdlePrep.digest[f] = None
  BY DEF IdlePrep, TreeOf

Kept == AloneIsAlone' /\ EditsAreFresh' /\ BaselineIsNoClone' /\ LonePrepares'

\* A command that goes on in its own way, keeping what it has prepared.
LEMMA OwnMove ==
  ASSUME WsInv, NEW p \in Preparers, NEW x, Running(p), prep' = [prep EXCEPT ![p] = x],
         x.alone = prep[p].alone, edits' = edits,
         trees'["baseline"].head = trees["baseline"].head,
         \A root \in Roots, f \in Files :
           trees'[root].files[f] = trees[root].files[f] \/ trees'[root].files[f] \notin Nat,
         \A f \in Files : x.digest[f] = prep[p].digest[f]
                            \/ x.digest[f] = trees["candidate"].files[f],
         prep[p].alone => Prepares(p)'
  PROVE  Kept
<1> USE DEF WsInv
<1>1. prep'[p] = x /\ \A q \in Preparers \ {p} : prep'[q] = prep[q]
  BY DEF WsTypeOK
<1>2. AloneIsAlone' /\ LonePrepares'
  BY OwnStep
<1>3. ASSUME NEW q \in Preparers, NEW f \in Files
      PROVE  \/ prep'[q].digest[f] = prep[q].digest[f]
             \/ \E root \in Roots : prep'[q].digest[f] = trees[root].files[f]
  BY <1>1 DEF Roots
<1>4. EditsAreFresh'
  BY <1>3, Fresh DEF WsTypeOK
<1> QED BY <1>2, <1>4 DEF Kept, BaselineIsNoClone

\* A command that ends, whatever it leaves on disk.
LEMMA OwnEnd ==
  ASSUME WsInv, NEW p \in Preparers, Running(p), Abort(p), edits' = edits,
         trees'["baseline"].head = trees["baseline"].head,
         \A root \in Roots, f \in Files :
           trees'[root].files[f] = trees[root].files[f] \/ trees'[root].files[f] \notin Nat
  PROVE  Kept
<1> USE DEF WsInv
<1>1. AloneIsAlone' /\ LonePrepares'
  BY AbortStep
<1>2. ASSUME NEW q \in Preparers, NEW f \in Files
      PROVE  prep'[q].digest[f] = prep[q].digest[f] \/ prep'[q].digest[f] \notin Nat
  BY IdleDigest, Contents DEF Abort, WsTypeOK
<1>3. EditsAreFresh'
  BY <1>2, Fresh DEF WsTypeOK
<1> QED BY <1>1, <1>3 DEF Kept, BaselineIsNoClone

\* Each step of a prepare keeps the workspace's invariant: the clone.
LEMMA CloneKeeps ==
  ASSUME WsInv, NEW p \in Preparers, PrepareClone(p)
  PROVE  Kept
<1> USE DEF WsInv
<1>r. Running(p) /\ prep[p] \in Prep /\ edits' = edits
  BY DEF PrepareClone, Running, WsTypeOK
<1>1. CASE Abort(p) /\ UNCHANGED trees
  BY <1>1, <1>r, OwnEnd
<1>2. CASE /\ trees["candidate"] = Absent
           /\ trees' = [trees EXCEPT !["candidate"].head = prep[p].base]
           /\ prep' = [prep EXCEPT ![p].pc = "cloned"]
  <2> DEFINE x == [prep[p] EXCEPT !.pc = "cloned"]
  <2>1. prep' = [prep EXCEPT ![p] = x]
    BY <1>2
  <2>2. /\ x.pc = "cloned" /\ x.mode = prep[p].mode /\ x.base = prep[p].base
        /\ x.todo = prep[p].todo /\ x.digest = prep[p].digest /\ x.alone = prep[p].alone
    BY <1>r DEF Prep
  <2>3. /\ trees'["baseline"] = trees["baseline"]
        /\ trees'["candidate"].files = trees["candidate"].files
    BY <1>2 DEF WsTypeOK, Roots, Tree
  <2>4. prep[p].mode = "clone" /\ prep[p].pc = "checked"
    BY DEF PrepareClone
  <2> HIDE DEF x
  <2>5. prep'[p] = x
    BY <2>1 DEF WsTypeOK
  <2>6. prep[p].alone => Prepares(p)'
    BY <1>r, <2>2, <2>3, <2>4, <2>5 DEF LonePrepares, Prepares, Early
  <2> QED BY <1>r, <2>1, <2>2, <2>3, <2>6, OwnMove DEF Roots
<1> QED BY <1>1, <1>2 DEF PrepareClone

\* The checkout.
LEMMA CheckoutKeeps ==
  ASSUME WsInv, NEW p \in Preparers, PrepareCheckout(p)
  PROVE  Kept
<1> USE DEF WsInv
<1>r. Running(p) /\ prep[p] \in Prep /\ edits' = edits /\ prep[p].base \notin Nat /\ None \notin Nat
  BY Contents DEF PrepareCheckout, Running, WsTypeOK, Prep
<1>1. CASE Abort(p) /\ UNCHANGED trees
  BY <1>1, <1>r, OwnEnd
<1>2. CASE /\ trees' = [trees EXCEPT !["candidate"].files = TreeOf(prep[p].base)]
           /\ prep' = [prep EXCEPT ![p].pc = "snapshot"]
  <2> DEFINE x == [prep[p] EXCEPT !.pc = "snapshot"]
  <2>1. prep' = [prep EXCEPT ![p] = x]
    BY <1>2
  <2>2. /\ x.pc = "snapshot" /\ x.mode = prep[p].mode /\ x.base = prep[p].base
        /\ x.todo = prep[p].todo /\ x.digest = prep[p].digest /\ x.alone = prep[p].alone
    BY <1>r DEF Prep
  <2>3. /\ trees'["baseline"] = trees["baseline"]
        /\ trees'["candidate"].files = TreeOf(prep[p].base)
        /\ trees'["candidate"].head = trees["candidate"].head
    BY <1>2 DEF WsTypeOK, Roots, Tree
  <2>4. prep[p].pc = "cloned"
    BY DEF PrepareCheckout
  <2> HIDE DEF x
  <2>5. prep'[p] = x
    BY <2>1 DEF WsTypeOK
  <2>6. prep[p].alone => Prepares(p)'
    BY <1>r, <2>2, <2>3, <2>4, <2>5, Contents DEF LonePrepares, Prepares, Early
  <2>7. \A root \in Roots, f \in Files :
          trees'[root].files[f] = trees[root].files[f] \/ trees'[root].files[f] \notin Nat
    BY <1>r, <2>3, Contents DEF Roots
  <2> QED BY <1>r, <2>1, <2>2, <2>3, <2>6, <2>7, OwnMove
<1>3. ASSUME NEW some \in (SUBSET Files) \ {Files}, Abort(p),
             trees' = [trees EXCEPT !["candidate"].files =
                         [f \in Files |-> IF f \in some THEN prep[p].base ELSE None]]
      PROVE  Kept
  <2>1. /\ trees'["baseline"] = trees["baseline"]
        /\ \A f \in Files : trees'["candidate"].files[f] \notin Nat
    BY <1>3, <1>r DEF WsTypeOK, Roots, Tree
  <2>2. \A root \in Roots, f \in Files :
          trees'[root].files[f] = trees[root].files[f] \/ trees'[root].files[f] \notin Nat
    BY <2>1 DEF Roots
  <2> QED BY <1>3, <1>r, <2>1, <2>2, OwnEnd
<1> QED BY <1>1, <1>2, <1>3 DEF PrepareCheckout

\* The archive.
LEMMA ArchiveKeeps ==
  ASSUME WsInv, NEW p \in Preparers, PrepareArchive(p)
  PROVE  Kept
<1> USE DEF WsInv
<1>r. Running(p) /\ prep[p] \in Prep /\ edits' = edits /\ trees' = trees
        /\ prep[p].pc = "checked" /\ prep[p].mode = "archive"
  BY DEF PrepareArchive, Running, WsTypeOK
<1> DEFINE x == [prep[p] EXCEPT !.pc = "candidate", !.todo = Files]
<1>1. prep' = [prep EXCEPT ![p] = x]
  BY DEF PrepareArchive
<1>2. /\ x.pc = "candidate" /\ x.mode = prep[p].mode /\ x.base = prep[p].base
      /\ x.todo = Files /\ x.digest = prep[p].digest /\ x.alone = prep[p].alone
  BY <1>r DEF Prep
<1> HIDE DEF x
<1>3. prep'[p] = x
  BY <1>1 DEF WsTypeOK
<1>4. prep[p].alone => Prepares(p)'
  BY <1>r, <1>2, <1>3, FilesAssumption DEF LonePrepares, Prepares, Early
<1> QED BY <1>r, <1>1, <1>2, <1>4, OwnMove

\* The candidate's extraction.
LEMMA ExtractCandidateKeeps ==
  ASSUME WsInv, NEW p \in Preparers, PrepareExtractCandidate(p)
  PROVE  Kept
<1> USE DEF WsInv
<1> DEFINE f == CHOOSE g \in prep[p].todo : TRUE
           left == prep[p].todo \ {f}
           x == [prep[p] EXCEPT !.todo = left,
                                !.pc = IF left = {} THEN "snapshot" ELSE "candidate"]
<1>r. /\ Running(p) /\ prep[p] \in Prep /\ edits' = edits /\ prep[p].pc = "candidate"
      /\ prep[p].base \notin Nat
  BY Contents DEF PrepareExtractCandidate, Extract, Running, WsTypeOK, Prep
<1>1. /\ prep' = [prep EXCEPT ![p] = x]
      /\ trees' = [trees EXCEPT !["candidate"].files[f] = prep[p].base]
  BY DEF PrepareExtractCandidate, Extract
<1>2. /\ x.pc = (IF left = {} THEN "snapshot" ELSE "candidate")
      /\ x.mode = prep[p].mode /\ x.base = prep[p].base
      /\ x.todo = left /\ x.digest = prep[p].digest /\ x.alone = prep[p].alone
  BY <1>r DEF Prep
<1>3. /\ trees'["baseline"] = trees["baseline"]
      /\ trees'["candidate"].head = trees["candidate"].head
      /\ \A g \in Files : trees'["candidate"].files[g] =
                            IF g = f THEN prep[p].base ELSE trees["candidate"].files[g]
  BY <1>1 DEF WsTypeOK, Roots, Tree, Source
<1> HIDE DEF x, f
<1>4. prep'[p] = x
  BY <1>1 DEF WsTypeOK
<1>5. left \in SUBSET Files
  BY <1>r DEF Prep
<1> HIDE DEF left
<1>6. left = prep[p].todo \ {f}
  BY DEF left
<1>7. prep[p].alone => Prepares(p)'
  BY <1>r, <1>2, <1>3, <1>4, <1>5, <1>6 DEF LonePrepares, Prepares, Early
<1>8. \A root \in Roots, g \in Files :
        trees'[root].files[g] = trees[root].files[g] \/ trees'[root].files[g] \notin Nat
  BY <1>r, <1>3 DEF Roots
<1> QED BY <1>r, <1>1, <1>2, <1>3, <1>7, <1>8, OwnMove

\* The baseline's.
LEMMA ExtractBaselineKeeps ==
  ASSUME WsInv, NEW p \in Preparers, PrepareExtractBaseline(p)
  PROVE  Kept
<1> USE DEF WsInv
<1> DEFINE f == CHOOSE g \in prep[p].todo : TRUE
           left == prep[p].todo \ {f}
           x == [prep[p] EXCEPT !.todo = left,
                                !.pc = IF left = {} THEN "verify" ELSE "baseline"]
<1>r. /\ Running(p) /\ prep[p] \in Prep /\ edits' = edits /\ prep[p].pc = "baseline"
      /\ prep[p].base \notin Nat /\ prep[p].base # None
  BY Contents DEF PrepareExtractBaseline, Extract, Running, WsTypeOK, Prep
<1>1. /\ prep' = [prep EXCEPT ![p] = x]
      /\ trees' = [trees EXCEPT !["baseline"].files[f] = prep[p].base]
  BY DEF PrepareExtractBaseline, Extract
<1>2. /\ x.pc = (IF left = {} THEN "verify" ELSE "baseline")
      /\ x.mode = prep[p].mode /\ x.base = prep[p].base
      /\ x.todo = left /\ x.digest = prep[p].digest /\ x.alone = prep[p].alone
  BY <1>r DEF Prep
<1>3. /\ trees'["candidate"] = trees["candidate"]
      /\ trees'["baseline"].head = trees["baseline"].head
      /\ \A g \in Files : trees'["baseline"].files[g] =
                            IF g = f THEN prep[p].base ELSE trees["baseline"].files[g]
  BY <1>1 DEF WsTypeOK, Roots, Tree, Source
<1> HIDE DEF x, f
<1>4. prep'[p] = x
  BY <1>1 DEF WsTypeOK
<1>5. left \in SUBSET Files
  BY <1>r DEF Prep
<1> HIDE DEF left
<1>6. left = prep[p].todo \ {f}
  BY DEF left
<1>7. prep[p].alone => Prepares(p)'
  BY <1>r, <1>2, <1>3, <1>4, <1>5, <1>6 DEF LonePrepares, Prepares, Early
<1>8. \A root \in Roots, g \in Files :
        trees'[root].files[g] = trees[root].files[g] \/ trees'[root].files[g] \notin Nat
  BY <1>r, <1>3 DEF Roots
<1> QED BY <1>r, <1>1, <1>2, <1>3, <1>7, <1>8, OwnMove

\* The snapshot.
LEMMA SnapshotKeeps ==
  ASSUME WsInv, NEW p \in Preparers, PrepareSnapshot(p)
  PROVE  Kept
<1> USE DEF WsInv
<1> DEFINE x == [prep[p] EXCEPT !.pc = "hash"]
<1>r. Running(p) /\ prep[p] \in Prep /\ edits' = edits /\ prep[p].pc = "snapshot"
  BY DEF PrepareSnapshot, Running, WsTypeOK
<1>1. /\ prep' = [prep EXCEPT ![p] = x]
      /\ trees' = [trees EXCEPT !["candidate"].control = TRUE]
  BY DEF PrepareSnapshot
<1>2. /\ x.pc = "hash" /\ x.mode = prep[p].mode /\ x.base = prep[p].base
      /\ x.todo = prep[p].todo /\ x.digest = prep[p].digest /\ x.alone = prep[p].alone
  BY <1>r DEF Prep
<1>3. /\ trees'["baseline"] = trees["baseline"]
      /\ trees'["candidate"].files = trees["candidate"].files
      /\ trees'["candidate"].head = trees["candidate"].head
  BY <1>1 DEF WsTypeOK, Roots, Tree
<1> HIDE DEF x
<1>4. prep'[p] = x
  BY <1>1 DEF WsTypeOK
<1>5. prep[p].alone => Prepares(p)'
  BY <1>r, <1>2, <1>3, <1>4 DEF LonePrepares, Prepares, Early
<1> QED BY <1>r, <1>1, <1>2, <1>3, <1>5, OwnMove DEF Roots

\* The hashes.
LEMMA HashKeeps ==
  ASSUME WsInv, NEW p \in Preparers, PrepareHash(p)
  PROVE  Kept
<1> USE DEF WsInv
<1> DEFINE x == [prep[p] EXCEPT !.pc = "baseline", !.todo = Files,
                                !.digest = trees["candidate"].files]
<1>r. Running(p) /\ prep[p] \in Prep /\ edits' = edits /\ prep[p].pc = "hash" /\ trees' = trees
  BY DEF PrepareHash, Running, WsTypeOK
<1>1. prep' = [prep EXCEPT ![p] = x]
  BY DEF PrepareHash, Digest
<1>2. /\ x.pc = "baseline" /\ x.mode = prep[p].mode /\ x.base = prep[p].base
      /\ x.todo = Files /\ x.digest = trees["candidate"].files /\ x.alone = prep[p].alone
  BY <1>r DEF Prep
<1> HIDE DEF x
<1>4. prep'[p] = x
  BY <1>1 DEF WsTypeOK
<1>5. prep[p].alone => Prepares(p)'
  BY <1>r, <1>2, <1>4, FilesAssumption DEF LonePrepares, Prepares, Early
<1> QED BY <1>r, <1>1, <1>2, <1>5, OwnMove

\* What both hashes agree on is the commit: an edit is in one tree only.
LEMMA VerifyKeeps ==
  ASSUME WsInv, NEW p \in Preparers, PrepareVerify(p)
  PROVE  Kept
<1> USE DEF WsInv
<1>r. Running(p) /\ prep[p] \in Prep /\ edits' = edits /\ prep[p].pc = "verify" /\ trees' = trees
  BY DEF PrepareVerify, Running, WsTypeOK
<1>1. CASE Abort(p)
  BY <1>r, <1>1, OwnEnd
<1>2. CASE /\ trees["baseline"].files = prep[p].digest
           /\ prep' = [prep EXCEPT ![p].pc = "record"]
  <2> DEFINE x == [prep[p] EXCEPT !.pc = "record"]
  <2>1. prep' = [prep EXCEPT ![p] = x]
    BY <1>2
  <2>2. /\ x.pc = "record" /\ x.mode = prep[p].mode /\ x.base = prep[p].base
        /\ x.todo = prep[p].todo /\ x.digest = prep[p].digest /\ x.alone = prep[p].alone
    BY <1>r DEF Prep
  <2> HIDE DEF x
  <2>3. prep'[p] = x
    BY <2>1 DEF WsTypeOK
  <2>4. ASSUME prep[p].alone PROVE prep[p].digest = TreeOf(prep[p].base)
    <3>1. Prepares(p)
      BY <1>r, <2>4 DEF LonePrepares
    <3>2. \A f \in Files : prep[p].digest[f] = prep[p].base
      BY <3>1, <1>2, <1>r DEF Prepares
    <3>3. prep[p].digest \in [Files -> Content \cup {None}]
      BY <1>r DEF Prep, Source
    <3> QED BY <3>2, <3>3 DEF TreeOf
  <2>5. prep[p].alone => Prepares(p)'
    BY <1>r, <2>2, <2>3, <2>4 DEF LonePrepares, Prepares, Early
  <2> QED BY <1>r, <2>1, <2>2, <2>5, OwnMove
<1> QED BY <1>1, <1>2 DEF PrepareVerify, Digest

\* The end.
LEMMA EndKeeps ==
  ASSUME WsInv, NEW p \in Preparers, PrepareRecord(p) \/ PrepareDies(p)
  PROVE  Kept
<1>1. Running(p) /\ Abort(p) /\ edits' = edits /\ trees' = trees
  BY DEF PrepareRecord, PrepareDies, Running
<1> QED BY <1>1, OwnEnd

\* A prepare starts on trees that are not there.
LEMMA CheckKeeps ==
  ASSUME WsInv, NEW p \in Preparers, PrepareCheck(p)
  PROVE  Kept
<1> USE DEF WsInv
<1>1. PICK mode \in Modes :
       prep' = [q \in Preparers |->
                  IF q = p
                  THEN [IdlePrep EXCEPT !.pc = "checked", !.mode = mode, !.base = base,
                                        !.alone = \A o \in Preparers : ~Running(o)]
                  ELSE [prep[q] EXCEPT !.alone = ~Running(q)]]
  BY DEF PrepareCheck
<1> DEFINE x == [IdlePrep EXCEPT !.pc = "checked", !.mode = mode, !.base = base,
                                 !.alone = \A o \in Preparers : ~Running(o)]
<1>2. prep'[p] = x /\ \A q \in Preparers \ {p} : prep'[q] = [prep[q] EXCEPT !.alone = ~Running(q)]
  BY <1>1
<1>3. /\ x.pc = "checked" /\ x.alone = (\A o \in Preparers : ~Running(o))
      /\ x.digest = TreeOf(None)
  BY DEF IdlePrep
<1> HIDE DEF x
<1>4. \A q \in Preparers \ {p} : /\ prep'[q].pc = prep[q].pc
                                  /\ prep'[q].alone = (~Running(q))
                                  /\ prep'[q].digest = prep[q].digest
  BY <1>2 DEF WsTypeOK, Prep
<1>5. AloneIsAlone'
  BY <1>2, <1>3, <1>4 DEF AloneIsAlone, Running
<1>6. trees' = trees /\ edits' = edits /\ \A root \in Roots : trees[root] = Absent
  BY DEF PrepareCheck, Unprepared
<1>7. \A root \in Roots : /\ trees[root].head = None
                          /\ \A f \in Files : trees[root].files[f] = None
  BY <1>6 DEF Absent, TreeOf
<1>8. Prepares(p)'
  BY <1>2, <1>3, <1>6, <1>7, Contents DEF Prepares, Early, Roots
<1>9. LonePrepares'
  BY <1>2, <1>4, <1>8 DEF LonePrepares, Running
<1>10. EditsAreFresh'
  BY <1>2, <1>3, <1>4, <1>6, Contents DEF EditsAreFresh
<1> QED BY <1>5, <1>6, <1>9, <1>10 DEF Kept, BaselineIsNoClone

\* Edits keep it.
LEMMA EditKeeps ==
  ASSUME WsInv, NEW root \in Roots, NEW f \in Files, Edit(root, f)
  PROVE  Kept
<1> USE DEF WsInv
<1>1. /\ prep' = prep /\ edits' = edits + 1 /\ edits \in Nat /\ trees[root].files[f] # None
      /\ trees' = [trees EXCEPT ![root].files[f] = edits + 1]
  BY DEF Edit, WsTypeOK
<1>2. \A r \in Roots : trees'[r].head = trees[r].head
  BY <1>1 DEF WsTypeOK, Tree
<1>3. \A r \in Roots, g \in Files :
        trees'[r].files[g] = IF r = root /\ g = f THEN edits + 1 ELSE trees[r].files[g]
  BY <1>1 DEF WsTypeOK, Tree, Source
<1>4. EditsAreFresh'
  BY <1>1, <1>3, Fresh DEF WsTypeOK
<1>5. AloneIsAlone'
  BY <1>1 DEF AloneIsAlone, Running
<1>6. \A r \in Roots, g \in Files : (trees'[r].files[g] = None) <=> (trees[r].files[g] = None)
  BY <1>1, <1>3, Contents
<1>7. ASSUME NEW p \in Preparers, Prepares(p) PROVE Prepares(p)'
  <2>1. prep'[p] = prep[p] /\ {"candidate", "baseline"} = Roots /\ prep[p].todo \subseteq Files
    BY <1>1 DEF Roots, WsTypeOK, Prep
  <2>2. ASSUME NEW g \in Files, trees'["baseline"].files[g] \in Nat
        PROVE  /\ trees'["candidate"].files[g] # trees'["baseline"].files[g]
               /\ prep[p].digest[g] # trees'["baseline"].files[g]
    <3>1. /\ trees["baseline"].files[g] \in Nat => trees["baseline"].files[g] <= edits
          /\ trees["candidate"].files[g] \in Nat => trees["candidate"].files[g] <= edits
          /\ prep[p].digest[g] \in Nat => prep[p].digest[g] <= edits
      BY <2>1 DEF EditsAreFresh
    <3> QED BY <1>1, <1>3, <1>7, <2>1, <2>2, <3>1 DEF Prepares
  <2>3. \A g \in Files : trees'["baseline"].files[g] \in Nat \cup {None, prep[p].base}
    BY <1>1, <1>3, <1>7, <2>1 DEF Prepares
  <2>4. /\ "candidate" \in Roots /\ "baseline" \in Roots
        /\ \A g \in Files : /\ (trees'["candidate"].files[g] = None) <=> (trees["candidate"].files[g] = None)
                            /\ (trees'["baseline"].files[g] = None) <=> (trees["baseline"].files[g] = None)
    BY <1>6 DEF Roots
  <2>5. trees'["candidate"].head = trees["candidate"].head
    BY <1>2, <2>4
  <2>6. /\ prep[p].pc \in Early => \A g \in Files : trees'["baseline"].files[g] = None
        /\ prep[p].pc = "baseline" =>
             \A g \in Files : (trees'["baseline"].files[g] = None) <=> (g \in prep[p].todo)
        /\ prep[p].pc = "verify" => \A g \in Files : trees'["baseline"].files[g] # None
    <3>1. /\ prep[p].pc \in Early => \A g \in Files : trees["baseline"].files[g] = None
          /\ prep[p].pc = "baseline" =>
               \A g \in Files : (trees["baseline"].files[g] = None) <=> (g \in prep[p].todo)
          /\ prep[p].pc = "verify" => \A g \in Files : trees["baseline"].files[g] # None
      BY ONLY <1>7 DEF Prepares
    <3> QED BY ONLY <3>1, <2>4
  <2>7. /\ prep[p].pc = "checked" => \A g \in Files : trees'["candidate"].files[g] = None
        /\ prep[p].pc = "candidate" => \A g \in prep[p].todo : trees'["candidate"].files[g] = None
    <3>1. /\ prep[p].pc = "checked" => \A g \in Files : trees["candidate"].files[g] = None
          /\ prep[p].pc = "candidate" => \A g \in prep[p].todo : trees["candidate"].files[g] = None
      BY ONLY <1>7 DEF Prepares
    <3> QED BY ONLY <3>1, <2>1, <2>4
  <2>8. /\ prep[p].mode = "archive" => trees'["candidate"].head = None
        /\ prep[p].pc = "candidate" => prep[p].mode = "archive"
        /\ prep[p].pc \in {"candidate", "baseline"} => prep[p].todo # {}
        /\ prep[p].pc = "record" => prep[p].digest = TreeOf(prep[p].base)
    BY <1>7, <2>5 DEF Prepares
  <2> QED BY ONLY <2>1, <2>2, <2>3, <2>6, <2>7, <2>8 DEF Prepares, TreeOf, Early
<1>8. LonePrepares'
  BY <1>1, <1>7 DEF LonePrepares, Running
<1> QED BY <1>2, <1>4, <1>5, <1>8 DEF Kept, BaselineIsNoClone, Roots

\* Removals.
LEMMA RemoveKeeps ==
  ASSUME WsInv, NEW roots \in SUBSET Roots, Remove(roots)
  PROVE  Kept
<1> USE DEF WsInv
<1>1. /\ prep' = prep /\ edits' = edits /\ \A p \in Preparers : ~Running(p)
      /\ trees' = [root \in Roots |-> IF root \in roots THEN Absent ELSE trees[root]]
  BY DEF Remove
<1>2. \A root \in Roots, f \in Files : trees'[root].files[f] = trees[root].files[f]
                                     \/ trees'[root].files[f] = None
  BY <1>1 DEF Absent, TreeOf
<1>3. EditsAreFresh'
  BY <1>1, <1>2, Fresh, Contents DEF WsTypeOK
<1>4. BaselineIsNoClone'
  BY <1>1 DEF BaselineIsNoClone, Absent, Roots
<1> QED BY <1>1, <1>3, <1>4 DEF Kept, AloneIsAlone, LonePrepares, Running

\* And another base.
LEMMA RebaseKeeps ==
  ASSUME WsInv, UNCHANGED <<trees, prep, edits>>
  PROVE  Kept
  BY DEF WsInv, Kept, AloneIsAlone, EditsAreFresh, BaselineIsNoClone, LonePrepares, Prepares,
         Running, Early

\* Only a clone can be restored, to the commit a prepare checked out.
LEMMA RestoreKeeps ==
  ASSUME WsInv, NEW root \in Roots, Restore(root)
  PROVE  Kept /\ WsTypeOK' /\ LoneRecordIsItsCommit'
<1> USE DEF WsInv
<1>1. /\ prep' = prep /\ edits' = edits /\ trees[root].head # None
      /\ trees' = [trees EXCEPT ![root].files = TreeOf(trees[root].head)]
      /\ TreeOf(trees[root].head) # trees[root].files /\ TreeOf(None) # trees[root].files
  BY DEF Restore, Digest
<1>2. root = "candidate" /\ trees[root].head \in Commits
  BY <1>1 DEF BaselineIsNoClone, Roots, WsTypeOK, Tree
<1>3. /\ trees'["baseline"] = trees["baseline"]
      /\ trees'["candidate"].head = trees["candidate"].head
      /\ \A f \in Files : trees'["candidate"].files[f] = trees["candidate"].head
  BY <1>1, <1>2, Contents DEF WsTypeOK, Tree, Roots
<1>4. \A r \in Roots, f \in Files :
        trees'[r].files[f] = trees[r].files[f] \/ trees'[r].files[f] \notin Nat
  BY <1>2, <1>3, Contents DEF Roots
<1>5. EditsAreFresh'
  BY <1>1, <1>4, Fresh DEF WsTypeOK
<1>6. ASSUME NEW p \in Preparers, Running(p), prep[p].alone PROVE Prepares(p)'
  <2>1. Prepares(p) /\ prep'[p] = prep[p]
    BY <1>1, <1>6 DEF LonePrepares
  <2>2. prep[p].pc # "checked"
    <3>1. trees["candidate"].files \in [Files -> Content \cup {None}]
      BY DEF WsTypeOK, Tree, Roots, Source
    <3> QED BY <1>1, <1>2, <2>1, <3>1 DEF Prepares, TreeOf
  <2> QED BY <1>2, <1>3, <2>1, <2>2, Contents, <1>1 DEF Prepares
<1>7. Kept
  BY <1>1, <1>3, <1>5, <1>6
     DEF Kept, AloneIsAlone, BaselineIsNoClone, LonePrepares, Running
<1>8. trees' \in [Roots -> Tree]
  BY <1>1, <1>2, TreeOfType, FilesType DEF WsTypeOK
<1>9. WsTypeOK'
  BY <1>8 DEF Restore, WsTypeOK
<1>10. LoneRecordIsItsCommit'
  BY DEF Restore, LoneRecordIsItsCommit
<1> QED BY <1>7, <1>9, <1>10

\* A prepare as a whole.
LEMMA PrepareKeeps ==
  ASSUME WsInv, NEW p \in Preparers, PrepareStep(p)
  PROVE  Kept
  BY CheckKeeps, CloneKeeps, CheckoutKeeps, ArchiveKeeps, ExtractCandidateKeeps, SnapshotKeeps,
     HashKeeps, ExtractBaselineKeeps, VerifyKeeps, EndKeeps DEF PrepareStep

\* A lone prepare records the commit that lies there.
LEMMA PrepareRecordsIt ==
  ASSUME WsInv, NEW p \in Preparers, PrepareStep(p)
  PROVE  LoneRecordIsItsCommit'
<1>1. CASE PrepareRecord(p)
  <2>1. prep[p].alone => prep[p].digest = TreeOf(prep[p].base)
    BY <1>1 DEF WsInv, LonePrepares, Prepares, PrepareRecord, Running
  <2>2. /\ record'.base = prep[p].base /\ record'.digest = prep[p].digest
        /\ record'.alone = prep[p].alone
    BY <1>1 DEF PrepareRecord
  <2>3. TreeOf(record'.base) = TreeOf(prep[p].base)
    BY <2>2
  <2> QED BY <2>1, <2>2, <2>3 DEF LoneRecordIsItsCommit, TreeOf
<1>2. CASE record' = record
  BY <1>2 DEF WsInv, LoneRecordIsItsCommit, TreeOf
<1> QED BY <1>1, <1>2
     DEF PrepareStep, PrepareCheck, PrepareClone, PrepareCheckout, PrepareArchive,
         PrepareExtractCandidate, PrepareExtractBaseline, Extract, PrepareSnapshot, PrepareHash,
         PrepareVerify, PrepareDies

\* The invariant at the start.
LEMMA WsInitInv == WsInit => WsInv
<1> SUFFICES ASSUME WsInit PROVE WsInv
  OBVIOUS
<1>1. WsTypeOK
  BY IdlePrepType, AbsentType DEF WsInit, WsTypeOK
<1>2. \A p \in Preparers : ~Running(p) /\ prep[p].digest = TreeOf(None)
  BY DEF WsInit, IdlePrep, Running
<1>3. \A root \in Roots : trees[root].files = TreeOf(None) /\ trees[root].head = None
  BY DEF WsInit, Absent
<1>4. EditsAreFresh
  BY <1>2, <1>3, Contents DEF EditsAreFresh
<1> QED BY <1>1, <1>2, <1>3, <1>4
     DEF WsInit, WsInv, AloneIsAlone, BaselineIsNoClone, LonePrepares, LoneRecordIsItsCommit, Roots

\* In every step.
LEMMA WsNextInv ==
  ASSUME WsInv, WsNext
  PROVE  WsInv'
<1>1. WsTypeOK'
  BY WsNextType DEF WsInv
<1>2. CASE \E p \in Preparers : PrepareStep(p)
  BY <1>1, <1>2, PrepareKeeps, PrepareRecordsIt DEF WsInv, Kept
<1>3. CASE record' = record /\ Kept
  <2>1. LoneRecordIsItsCommit'
    BY <1>3 DEF WsInv, LoneRecordIsItsCommit, TreeOf
  <2> QED BY <1>1, <1>3, <2>1 DEF WsInv, Kept
<1>4. ASSUME NEW root \in Roots, NEW f \in Files, Edit(root, f) PROVE WsInv'
  BY <1>3, <1>4, EditKeeps DEF Edit
<1>5. ASSUME NEW roots \in SUBSET Roots, Remove(roots) PROVE WsInv'
  BY <1>3, <1>5, RemoveKeeps DEF Remove
<1>6. CASE Rebase
  BY <1>3, <1>6, RebaseKeeps DEF Rebase
<1> QED BY <1>2, <1>4, <1>5, <1>6 DEF WsNext

\* And in none.
LEMMA WsStutterInv ==
  ASSUME WsInv, UNCHANGED wsVars
  PROVE  WsInv'
<1>1. Kept
  BY RebaseKeeps DEF wsVars
<1>2. WsTypeOK'
  BY DEF WsInv, WsTypeOK, wsVars
<1>3. LoneRecordIsItsCommit'
  BY DEF WsInv, LoneRecordIsItsCommit, wsVars, TreeOf
<1> QED BY <1>1, <1>2, <1>3 DEF WsInv, Kept

\* Hence always.
LEMMA WsInductive == WsSpec => []WsInv
<1>1. WsInv /\ [WsNext]_wsVars => WsInv'
  BY WsNextInv, WsStutterInv
<1> QED BY <1>1, WsInitInv, PTL DEF WsSpec

\* The record of a prepare nobody overlapped names the commit of the trees it
\* hashed (prepare's comparison of the two independently materialised trees).
THEOREM LoneRecord == WsSpec => []LoneRecordIsItsCommit
<1>1. WsInv => LoneRecordIsItsCommit
  BY DEF WsInv
<1> QED BY <1>1, WsInductive, PTL

\* Only the command's own step changes what it remembers, but for a newcomer's check.
LEMMA OwnTouch ==
  ASSUME WsTypeOK, NEW p \in Preparers, NEW q \in Preparers, p # q, PrepareStep(q)
  PROVE  prep'[p] = prep[p] \/ UNCHANGED trees
<1>1. CASE \E x : prep' = [prep EXCEPT ![q] = x]
  BY <1>1 DEF WsTypeOK
<1>2. CASE UNCHANGED trees
  BY <1>2
<1> QED BY <1>1, <1>2
     DEF PrepareStep, PrepareCheck, PrepareClone, PrepareCheckout, PrepareArchive,
         PrepareExtractCandidate, PrepareExtractBaseline, Extract, PrepareSnapshot, PrepareHash,
         PrepareVerify, PrepareRecord, PrepareDies, Abort

Spares == \A root \in Roots, f \in Files :
            trees[root].files[f] # None => trees'[root].files[f] = trees[root].files[f]

\* Extraction writes a file it has yet to extract, and nobody else put there.
LEMMA ExtractSpares ==
  ASSUME WsInv, NEW p \in Preparers, prep[p].alone, Running(p),
         PrepareExtractCandidate(p) \/ PrepareExtractBaseline(p)
  PROVE  Spares
<1> DEFINE g == CHOOSE h \in prep[p].todo : TRUE
<1>1. PICK root \in {"candidate", "baseline"} :
        /\ prep[p].pc = root
        /\ trees' = [trees EXCEPT ![root].files[g] = prep[p].base]
  BY DEF PrepareExtractCandidate, PrepareExtractBaseline, Extract
<1>2. Prepares(p) /\ prep[p].todo \subseteq Files /\ trees \in [Roots -> Tree]
  BY DEF WsInv, LonePrepares, WsTypeOK, Prep
<1>3. prep[p].todo # {}
  BY <1>1, <1>2 DEF Prepares
<1>4. g \in prep[p].todo /\ g \in Files
  BY <1>2, <1>3
<1> HIDE DEF g
<1>5. trees[root].files[g] = None
  BY <1>1, <1>2, <1>4 DEF Prepares
<1>6. \A r \in Roots, f \in Files :
        r # root \/ f # g => trees'[r].files[f] = trees[r].files[f]
  BY <1>1, <1>2, <1>4 DEF Tree, Source, Roots
<1> QED BY <1>5, <1>6 DEF Spares

\* What a prepare leaves alone: a checkout.
LEMMA CheckoutSpares ==
  ASSUME WsInv, NEW p \in Preparers, PrepareCheckout(p)
  PROVE  Spares
<1>1. CASE UNCHANGED trees
  BY <1>1 DEF Spares
<1>2. CASE Digest("candidate") = TreeOf(None) /\ trees'["baseline"] = trees["baseline"]
  <2>1. \A f \in Files : trees["candidate"].files[f] = None
    BY <1>2 DEF Digest, TreeOf
  <2> QED BY <1>2, <2>1 DEF Spares, Roots
<1>3. "baseline" \in Roots /\ "baseline" # "candidate" /\ trees \in [Roots -> Tree]
  BY DEF Roots, WsInv, WsTypeOK
<1> QED BY <1>1, <1>2, <1>3 DEF PrepareCheckout

\* A clone.
LEMMA CloneSpares ==
  ASSUME WsInv, NEW p \in Preparers, PrepareClone(p) \/ PrepareSnapshot(p)
  PROVE  Spares
<1>1. \A r \in Roots : trees'[r].files = trees[r].files
  BY DEF PrepareClone, PrepareSnapshot, WsInv, WsTypeOK, Tree
<1> QED BY <1>1 DEF Spares

\* The rest.
LEMMA PrepareSpares ==
  ASSUME WsInv, NEW p \in Preparers, prep[p].alone, Running(p), PrepareStep(p)
  PROVE  Spares
<1>1. CASE UNCHANGED trees
  BY <1>1 DEF Spares
<1> QED BY <1>1, ExtractSpares, CheckoutSpares, CloneSpares
     DEF PrepareStep, PrepareCheck, PrepareArchive, PrepareHash, PrepareVerify, PrepareRecord,
         PrepareDies

\* A prepare nobody overlapped never replaces a file that was on disk
\* (_refuse_unsafe_destination, and the refusals of git clone and checkout).
THEOREM LoneSparesWork == WsSpec => LonePrepareSparesWork
<1> DEFINE A == \A p \in Preparers :
                  prep[p] # prep'[p] /\ prep[p].alone /\ Running(p) => Spares
<1>1. WsInv /\ [WsNext]_wsVars => [A]_wsVars
  <2> SUFFICES ASSUME WsInv, WsNext, NEW p \in Preparers,
                      prep[p] # prep'[p], prep[p].alone, Running(p)
               PROVE  Spares
    OBVIOUS
  <2>1. ASSUME NEW q \in Preparers, PrepareStep(q) PROVE Spares
    <3>1. CASE q = p
      BY <2>1, <3>1, PrepareSpares
    <3>2. CASE q # p
      BY <2>1, <3>2, OwnTouch DEF Spares, WsInv
    <3> QED BY <3>1, <3>2
  <2>2. ASSUME NEW root \in Roots, NEW f \in Files, Edit(root, f) PROVE FALSE
    BY <2>2 DEF Edit
  <2>3. ASSUME NEW roots \in SUBSET Roots, Remove(roots) PROVE FALSE
    BY <2>3 DEF Remove
  <2>4. CASE Rebase
    BY <2>4 DEF Rebase
  <2> QED BY <2>1, <2>2, <2>3, <2>4 DEF WsNext
<1>2. [][A]_wsVars => LonePrepareSparesWork
  BY PTL DEF LonePrepareSparesWork, Spares
<1> QED BY <1>1, <1>2, WsInductive, PTL DEF WsSpec

-----------------------------------------------------------------------------
(* The inductive invariant of a run *)

Summary == [passed: BOOLEAN, sources: Sources]
Unstarted == {"none", "loaded", "hashed", "refused", "ready", "freezing"}
Measuring == {"next", "opened", "imported"}

RunType(r) ==
  /\ run[r] \in Run
  /\ report[r] \in [AllWorkers -> Report \cup {None}]
  /\ gate[r] \in PassedGate \cup {FailedGate, None}
  /\ summary[r] \in Summary \cup {None}

\* There is a worker whose turn it is while one is open.
TurnInv(r) ==
  /\ run[r].pc \in Unstarted => run[r].done = 0
  /\ run[r].pc = "next" => run[r].done <= Len(Plan(run[r].op))
  /\ run[r].pc \in {"opened", "imported"} => run[r].done < Len(Plan(run[r].op))

PlanInv(r) ==
  /\ run[r].pc \in {"none", "loaded", "hashed", "refused"} => ~run[r].lone
  /\ run[r].lone => run[r].planned = TreeOf(run[r].base)

\* The report directory is empty before the sources are frozen, and its summary
\* names what was frozen.
FileInv(r) ==
  /\ run[r].pc \in Unstarted => gate[r] = None /\ report[r] = NoReports /\ summary[r] = None
  /\ run[r].pc \in Measuring => summary[r] \in Summary /\ summary[r].sources = run[r].frozen
  /\ summary[r] # None => summary[r].sources = run[r].frozen

\* A passed gate is of the sources of the run, and trials wait for one.
GateInv(r) ==
  /\ gate[r] # None /\ gate[r].passed =>
       gate[r].sources = run[r].frozen /\ gate[r].harness = run[r].harness
  /\ run[r].pc \in Measuring /\ gate[r] # None => gate[r].passed
  /\ run[r].pc \in {"opened", "imported"} /\ Gated(r) => gate[r] # None
  /\ \A w \in TrialReports : report[r][w] # None => gate[r] # None /\ gate[r].passed

\* A worker that passes was on the code it opened, if its tree did not return.
\* Before the gate is written the reports of the workers that passed stand.
ReportInv(r) ==
  /\ run[r].pc = "imported" /\ ~run[r].returned /\ SourceHeld(r) => run[r].code = run[r].opened
  /\ run[r].pc \in Measuring /\ gate[r] = None =>
       \A i \in 1 .. Len(GateWorkers) : i <= run[r].done =>
         /\ report[r][GateWorkers[i]] \in Report
         /\ ~run[r].returned =>
              report[r][GateWorkers[i]].measured = run[r].frozen[GateWorkers[i].root]
  /\ gate[r] # None /\ gate[r].passed /\ ~run[r].returned =>
       \A w \in GateReports : gate[r].hashes[w].measured = gate[r].sources[w.root]

RunInv(r) == RunType(r) /\ TurnInv(r) /\ PlanInv(r) /\ FileInv(r) /\ GateInv(r) /\ ReportInv(r)

MeasureInv == WsInv /\ TypeOK /\ \A r \in Runs : RunInv(r)

-----------------------------------------------------------------------------
(* Facts about the workers of a run *)

\* What a worker holds.
LEMMA WorkerTypes ==
  /\ GateWorkers \in Seq(Worker) /\ TrialWorkers \in Seq(Worker)
  /\ Len(GateWorkers) \in Nat /\ Len(TrialWorkers) \in Nat
  /\ \A i \in 1 .. Len(GateWorkers) : GateWorkers[i] \in GateReports /\ GateWorkers[i].root \in Roots
  /\ \A i \in 1 .. Len(TrialWorkers) : TrialWorkers[i] \in AllWorkers /\ TrialWorkers[i].root \in Roots
  /\ \A w \in GateReports : \E i \in 1 .. Len(GateWorkers) : w = GateWorkers[i]
  /\ GateReports \subseteq AllWorkers
<1>1. /\ GateWorkers \in Seq(Worker) /\ TrialWorkers \in Seq(Worker)
      /\ Len(GateWorkers) \in Nat /\ Len(TrialWorkers) \in Nat
      /\ DOMAIN GateWorkers = 1 .. Len(GateWorkers) /\ DOMAIN TrialWorkers = 1 .. Len(TrialWorkers)
  BY WorkersAssumption
<1>2. \A w \in Worker : w.root \in Roots
  BY DEF Worker
<1>3. /\ \A i \in 1 .. Len(GateWorkers) : GateWorkers[i] \in Worker
      /\ \A i \in 1 .. Len(TrialWorkers) : TrialWorkers[i] \in Worker
  BY <1>1
<1> QED BY <1>1, <1>2, <1>3 DEF GateReports, AllWorkers

\* What a run's plan says.
LEMMA PlanFacts ==
  ASSUME NEW op
  PROVE  /\ Plan(op) \in Seq(Worker) /\ Len(Plan(op)) \in Nat
         /\ Len(GateWorkers) <= Len(Plan(op))
         /\ \A i \in 1 .. Len(Plan(op)) :
              /\ Plan(op)[i] \in AllWorkers /\ Plan(op)[i].root \in Roots
              /\ i <= Len(GateWorkers) => Plan(op)[i] = GateWorkers[i]
<1>1. CASE op = "benchmark"
  <2>1. Plan(op) = GateWorkers \o TrialWorkers
    BY <1>1 DEF Plan
  <2> QED BY <2>1, WorkerTypes
<1>2. CASE op # "benchmark"
  <2>1. Plan(op) = GateWorkers
    BY <1>2 DEF Plan
  <2> QED BY <2>1, WorkerTypes
<1> QED BY <1>1, <1>2

\* Whose turn it is.
LEMMA TurnFacts ==
  ASSUME NEW r \in Runs, run[r] \in Run, run[r].done < Len(Plan(run[r].op))
  PROVE  /\ Current(r) \in AllWorkers /\ Root(r) \in Roots
         /\ ~Gated(r) => Current(r) = GateWorkers[run[r].done + 1]
         /\ ~Gated(r) => run[r].done + 1 \in 1 .. Len(GateWorkers)
         /\ Current(r) \in TrialReports => Gated(r)
<1>1. run[r].done \in Nat /\ run[r].done + 1 \in 1 .. Len(Plan(run[r].op))
  BY PlanFacts DEF Run
<1>2. ~Gated(r) => run[r].done + 1 \in 1 .. Len(GateWorkers)
  BY <1>1, WorkerTypes DEF Gated
<1>3. ~Gated(r) => Current(r) = GateWorkers[run[r].done + 1]
  BY <1>1, <1>2, PlanFacts DEF Current
<1>4. Current(r) \in TrialReports => Gated(r)
  BY <1>2, <1>3, WorkerTypes DEF TrialReports
<1> QED BY <1>1, <1>2, <1>3, <1>4, PlanFacts DEF Current, Root

\* A run's own step leaves the other runs alone.
Touches(r) ==
  /\ run' = [run EXCEPT ![r] = run'[r]] /\ report' = [report EXCEPT ![r] = report'[r]]
  /\ gate' = [gate EXCEPT ![r] = gate'[r]] /\ summary' = [summary EXCEPT ![r] = summary'[r]]

\* What a step of a run touches.
LEMMA StepTouches ==
  ASSUME TypeOK, NEW r \in Runs, RunStep(r)
  PROVE  Touches(r)
<1>1. /\ run \in [Runs -> Run] /\ DOMAIN report = Runs /\ DOMAIN gate = Runs /\ DOMAIN summary = Runs
      /\ report = [q \in Runs |-> report[q]] /\ gate = [q \in Runs |-> gate[q]]
      /\ summary = [q \in Runs |-> summary[q]] /\ run = [q \in Runs |-> run[q]]
  BY DEF TypeOK
<1>2. run' = run \/ \E x : run' = [run EXCEPT ![r] = x]
  <2>1. CASE End(r)
    <3>1. \E x : run' = [run EXCEPT ![r] = x]
      BY <2>1 DEF End
    <3> QED BY <3>1
  <2>2. CASE PlanLoad(r) \/ PlanHash(r) \/ PlanVerify(r)
    BY <2>2 DEF PlanLoad, PlanHash, PlanVerify
  <2>3. CASE FreezeBaseline(r) \/ FreezeCandidate(r)
    BY <2>1, <2>3 DEF FreezeBaseline, FreezeCandidate
  <2>4. CASE WorkerOpen(r) \/ WorkerMeasure(r) \/ GateWritten(r) \/ Finish(r) \/ HarnessDies(r)
    BY <2>1, <2>4 DEF WorkerOpen, WorkerMeasure, GateWritten, Finish, HarnessDies
  <2>5. CASE WorkerClose(r)
    BY <2>1, <2>5 DEF WorkerClose, Fail
  <2>6. ASSUME NEW q \in Runs, GateReused(r, q) PROVE run' = run \/ \E x : run' = [run EXCEPT ![r] = x]
    BY <2>1, <2>6 DEF GateReused, Fail
  <2>7. ASSUME NEW w \in AllWorkers, Damage(r, w) PROVE run' = run
    BY <2>7 DEF Damage
  <2> QED BY <2>2, <2>3, <2>4, <2>5, <2>6, <2>7 DEF RunStep, PlanStep, HarnessStep
<1>3. report' = report \/ \E x : report' = [report EXCEPT ![r] = x]
  BY DEF RunStep, PlanStep, HarnessStep, PlanLoad, PlanHash, PlanVerify, FreezeBaseline,
         FreezeCandidate, WorkerOpen, WorkerMeasure, WorkerClose, GateWritten, GateReused, Finish,
         HarnessDies, Damage, Fail, End, RunFiles
<1>4. gate' = gate \/ \E x : gate' = [gate EXCEPT ![r] = x]
  BY DEF RunStep, PlanStep, HarnessStep, PlanLoad, PlanHash, PlanVerify, FreezeBaseline,
         FreezeCandidate, WorkerOpen, WorkerMeasure, WorkerClose, GateWritten, GateReused, Finish,
         HarnessDies, Damage, Fail, End, RunFiles
<1>5. summary' = summary \/ \E x : summary' = [summary EXCEPT ![r] = x]
  BY DEF RunStep, PlanStep, HarnessStep, PlanLoad, PlanHash, PlanVerify, FreezeBaseline,
         FreezeCandidate, WorkerOpen, WorkerMeasure, WorkerClose, GateWritten, GateReused, Finish,
         HarnessDies, Damage, Fail, End, RunFiles
<1>6. ASSUME NEW g, g = [q \in Runs |-> g[q]] PROVE [g EXCEPT ![r] = g[r]] = g
  BY <1>6
<1>7. run' = [run EXCEPT ![r] = run'[r]]
  BY <1>1, <1>2, <1>6
<1>8. report' = [report EXCEPT ![r] = report'[r]]
  BY <1>1, <1>3, <1>6
<1>9. gate' = [gate EXCEPT ![r] = gate'[r]]
  BY <1>1, <1>4, <1>6
<1>10. summary' = [summary EXCEPT ![r] = summary'[r]]
  BY <1>1, <1>5, <1>6
<1> QED BY <1>7, <1>8, <1>9, <1>10 DEF Touches

-----------------------------------------------------------------------------
(* What each step keeps of the run that takes it *)

\* What the invariant says of a run, in parts.
LEMMA KnownRun ==
  ASSUME MeasureInv, NEW r \in Runs
  PROVE  /\ run[r] \in Run /\ RunInv(r)
         /\ run \in [Runs -> Run] /\ DOMAIN report = Runs /\ DOMAIN gate = Runs
         /\ DOMAIN summary = Runs
         /\ \A root \in Roots : Digest(root) \in Source
         /\ harness \in Nat /\ base \in Commits
  BY DigestType DEF MeasureInv, TypeOK, RunInv, RunType, WsInv, WsTypeOK

\* A run that has not frozen its sources has no file.
LEMMA Unstarts ==
  ASSUME MeasureInv, NEW r \in Runs, run[r].pc \in Unstarted, UNCHANGED RunFiles,
         run'[r] \in Run, run'[r].pc \in Unstarted \cup {"ended"}, PlanInv(r)',
         run'[r].done = 0
  PROVE  RunInv(r)'
<1>1. gate[r] = None /\ report[r] = NoReports /\ summary[r] = None /\ RunType(r)
  BY KnownRun DEF RunInv, FileInv
<1>2. gate'[r] = None /\ report'[r] = NoReports /\ summary'[r] = None /\ RunType(r)'
  BY <1>1 DEF RunFiles, RunType
<1>3. \A w \in TrialReports : NoReports[w] = None
  BY DEF NoReports, TrialReports
<1>4. run'[r].pc \notin {"next", "opened", "imported"}
  BY DEF Unstarted
<1> QED BY <1>2, <1>3, <1>4
     DEF RunInv, TurnInv, FileInv, GateInv, ReportInv, Measuring, NoReports

\* Each step of a run keeps the invariant: the plan.
LEMMA PlanLoadKeeps ==
  ASSUME MeasureInv, NEW r \in Runs, PlanLoad(r)
  PROVE  RunInv(r)'
<1> USE KnownRun
<1>1. run[r].pc = "none" /\ ~run[r].lone /\ run[r].done = 0 /\ UNCHANGED RunFiles
  BY DEF PlanLoad, RunInv, PlanInv, TurnInv, Unstarted
<1>2. \/ run'[r] = [run[r] EXCEPT !.pc = "refused"]
      \/ \E op \in Operations :
           run'[r] = [run[r] EXCEPT !.pc = "loaded", !.op = op, !.base = base]
  BY DEF PlanLoad
<1>3. /\ run'[r] \in Run /\ run'[r].pc \in {"loaded", "refused"}
      /\ run'[r].lone = run[r].lone /\ run'[r].done = run[r].done
  BY <1>2 DEF Run, RunPhases
<1> QED BY <1>1, <1>3, Unstarts DEF Unstarted, PlanInv

\* Its hashes.
LEMMA PlanHashKeeps ==
  ASSUME MeasureInv, NEW r \in Runs, PlanHash(r)
  PROVE  RunInv(r)'
<1> USE KnownRun
<1>1. run[r].pc = "loaded" /\ ~run[r].lone /\ run[r].done = 0 /\ UNCHANGED RunFiles
  BY DEF PlanHash, RunInv, PlanInv, TurnInv, Unstarted
<1>2. run'[r] = [run[r] EXCEPT !.pc = "hashed", !.planned = Digest("baseline")]
  BY DEF PlanHash
<1>3. /\ run'[r] \in Run /\ run'[r].pc = "hashed" /\ run'[r].lone = run[r].lone
      /\ run'[r].done = run[r].done
  BY <1>2 DEF Run, RunPhases, Roots
<1> QED BY <1>1, <1>3, Unstarts DEF Unstarted, PlanInv

LEMMA IdleRunType == IdleRun \in Run /\ IdleRun.lone = FALSE /\ IdleRun.done = 0
<1>1. (CHOOSE c \in Commits : TRUE) \in Commits
  BY CommitsAssumption
<1>2. NoSources \in Sources /\ TreeOf(None) \in Source
  BY TreeOfType DEF NoSources, Sources
<1> QED BY <1>1, <1>2 DEF IdleRun, Run, RunPhases, Operations

\* The record vouches for the baseline the plan hashed.
LEMMA PlanVerifyKeeps ==
  ASSUME MeasureInv, NEW r \in Runs, PlanVerify(r)
  PROVE  RunInv(r)'
<1> USE KnownRun
<1>1. run[r].pc = "hashed" /\ run[r].done = 0 /\ UNCHANGED RunFiles
  BY DEF PlanVerify, RunInv, TurnInv, Unstarted
<1>2. CASE Prepared(r) /\ run'[r] = [run[r] EXCEPT !.pc = "ready", !.lone = record.alone]
  <2>1. /\ record # None /\ record.base = run[r].base /\ record.digest = run[r].planned
        /\ record.alone \in BOOLEAN
    BY <1>2 DEF Prepared, MeasureInv, WsInv, WsTypeOK
  <2>2. record.alone => run[r].planned = TreeOf(run[r].base)
    BY <2>1 DEF MeasureInv, WsInv, LoneRecordIsItsCommit, TreeOf
  <2>3. /\ run'[r].pc = "ready" /\ run'[r].lone = record.alone
        /\ run'[r].planned = run[r].planned /\ run'[r].base = run[r].base
        /\ run'[r].done = run[r].done
    BY <1>2 DEF Run
  <2>4. run'[r] \in Run
    BY <1>2, <2>1 DEF Run, RunPhases
  <2>5. PlanInv(r)'
    BY <2>2, <2>3 DEF PlanInv, TreeOf
  <2> QED BY <1>1, <2>3, <2>4, <2>5, Unstarts DEF Unstarted
<1>3. CASE run'[r] = [IdleRun EXCEPT !.pc = "refused"]
  <2>1. run'[r] \in Run /\ run'[r].pc = "refused" /\ run'[r].lone = FALSE /\ run'[r].done = 0
    BY <1>3, IdleRunType DEF Run, RunPhases
  <2> QED BY <1>1, <2>1, Unstarts DEF Unstarted, PlanInv
<1> QED BY <1>2, <1>3 DEF PlanVerify

\* What a run that ended is remembered by.
LEMMA EndFacts ==
  ASSUME MeasureInv, NEW r \in Runs, End(r)
  PROVE  /\ run'[r] \in Run /\ run'[r].pc = "ended"
         /\ run'[r].lone = run[r].lone /\ run'[r].returned = run[r].returned
         /\ run'[r].planned = run[r].planned /\ run'[r].base = run[r].base
         /\ run'[r].frozen = run[r].frozen /\ run'[r].harness = run[r].harness
<1>1. run'[r] = [run[r] EXCEPT !.pc = "ended", !.done = 0, !.opened = TreeOf(None),
                               !.code = TreeOf(None), !.openedHarness = 0]
  BY KnownRun DEF End
<1>2. run[r] \in Run /\ TreeOf(None) \in Source
  BY KnownRun, TreeOfType
<1>3. \A e \in Source :
        LET x == [run[r] EXCEPT !.pc = "ended", !.done = 0, !.opened = e, !.code = e,
                                !.openedHarness = 0]
        IN  /\ x \in Run /\ x.pc = "ended"
            /\ x.lone = run[r].lone /\ x.returned = run[r].returned
            /\ x.planned = run[r].planned /\ x.base = run[r].base
            /\ x.frozen = run[r].frozen /\ x.harness = run[r].harness
  BY <1>2 DEF Run, RunPhases
<1> QED BY <1>1, <1>2, <1>3

LEMMA EndPlan ==
  ASSUME MeasureInv, NEW r \in Runs, End(r)
  PROVE  PlanInv(r)'
<1>1. TreeOf(run[r].base) = TreeOf(run'[r].base)
  BY EndFacts
<1> QED BY <1>1, EndFacts, KnownRun DEF RunInv, PlanInv, TreeOf

LEMMA EndKeepsRun ==
  ASSUME MeasureInv, NEW r \in Runs, End(r), UNCHANGED RunFiles
  PROVE  RunInv(r)'
<1>1. RunType(r)'
  BY EndFacts, KnownRun DEF RunInv, RunType, RunFiles
<1> QED BY <1>1, EndFacts, EndPlan, KnownRun
     DEF RunInv, TurnInv, FileInv, GateInv, ReportInv, RunFiles, Unstarted, Measuring

\* A failure.
LEMMA FailKeeps ==
  ASSUME MeasureInv, NEW r \in Runs, Fail(r), UNCHANGED summary,
         report'[r] \in [AllWorkers -> Report \cup {None}],
         \A w \in TrialReports : report'[r][w] # None => gate[r] # None /\ gate[r].passed
  PROVE  RunInv(r)'
<1>1. End(r) /\ gate'[r] = IF gate[r] # None THEN gate[r] ELSE FailedGate
  BY KnownRun DEF Fail
<1>2. FailedGate.passed = FALSE
  BY DEF FailedGate
<1>3. RunType(r)'
  BY <1>1, EndFacts, KnownRun DEF RunInv, RunType
<1> QED BY <1>1, <1>2, <1>3, EndFacts, EndPlan, KnownRun
     DEF RunInv, TurnInv, FileInv, GateInv, ReportInv, Unstarted, Measuring

\* The freezing of the baseline.
LEMMA FreezeBaselineKeeps ==
  ASSUME MeasureInv, NEW r \in Runs, FreezeBaseline(r)
  PROVE  RunInv(r)'
<1>1. CASE End(r)
  BY <1>1, EndKeepsRun DEF FreezeBaseline
<1>2. CASE run' = [run EXCEPT ![r].pc = "freezing", ![r].frozen.baseline = Digest("baseline")]
  <2> DEFINE s == [run[r].frozen EXCEPT !.baseline = Digest("baseline")]
  <2>1. run[r] \in Run /\ Digest("baseline") \in Source /\ run[r].pc = "ready"
    BY KnownRun DEF Roots, FreezeBaseline
  <2>2. s \in Sources
    BY <2>1 DEF Run, Sources
  <2>3. run'[r] = [run[r] EXCEPT !.pc = "freezing", !.frozen = s]
    BY <1>2, KnownRun
  <2> HIDE DEF s
  <2>4. /\ run'[r] \in Run /\ run'[r].pc = "freezing" /\ run'[r].lone = run[r].lone
        /\ run'[r].done = run[r].done
        /\ run'[r].planned = run[r].planned /\ run'[r].base = run[r].base
    BY <2>1, <2>2, <2>3 DEF Run, RunPhases
  <2>5. PlanInv(r)'
    BY <2>1, <2>4, KnownRun DEF RunInv, PlanInv, TreeOf
  <2>6. run[r].done = 0
    BY <2>1, KnownRun DEF RunInv, TurnInv, Unstarted
  <2> QED BY <2>1, <2>4, <2>5, <2>6, Unstarts DEF FreezeBaseline, Unstarted
<1> QED BY <1>1, <1>2 DEF FreezeBaseline

\* The run opens its directory on the sources it froze.
LEMMA FreezeCandidateKeeps ==
  ASSUME MeasureInv, NEW r \in Runs, FreezeCandidate(r)
  PROVE  RunInv(r)'
<1>1. CASE End(r) /\ UNCHANGED summary
  BY <1>1, EndKeepsRun DEF FreezeCandidate, RunFiles
<1> DEFINE s == [run[r].frozen EXCEPT !.candidate = Digest("candidate")]
<1>2. CASE /\ run' = [run EXCEPT ![r].pc = "next", ![r].frozen = s, ![r].harness = harness]
           /\ summary' = [summary EXCEPT ![r] = [passed |-> FALSE, sources |-> s]]
  <2>1. run[r] \in Run /\ Digest("candidate") \in Source /\ run[r].pc = "freezing" /\ harness \in Nat
    BY KnownRun DEF Roots, FreezeCandidate
  <2>2. s \in Sources
    BY <2>1 DEF Run, Sources
  <2> HIDE DEF s
  <2>3. /\ run'[r] = [run[r] EXCEPT !.pc = "next", !.frozen = s, !.harness = harness]
        /\ summary'[r] = [passed |-> FALSE, sources |-> s]
    BY <1>2, KnownRun
  <2>4. /\ run'[r] \in Run /\ run'[r].pc = "next" /\ run'[r].lone = run[r].lone
        /\ run'[r].planned = run[r].planned /\ run'[r].base = run[r].base
        /\ run'[r].frozen = s /\ run'[r].done = run[r].done /\ run'[r].op = run[r].op
    BY <2>1, <2>2, <2>3 DEF Run, RunPhases
  <2>5. gate[r] = None /\ report[r] = NoReports /\ RunType(r) /\ PlanInv(r)
    BY <2>1, KnownRun DEF RunInv, FileInv, Unstarted
  <2>6. gate' = gate /\ report' = report
    BY DEF FreezeCandidate
  <2>7. summary'[r] \in Summary /\ summary'[r].sources = s
    BY <2>2, <2>3 DEF Summary
  <2>8. RunType(r)'
    BY <2>4, <2>5, <2>6, <2>7 DEF RunType
  <2>9. PlanInv(r)'
    BY <2>1, <2>4, <2>5 DEF PlanInv, TreeOf
  <2>10. \A w \in TrialReports : report'[r][w] = None
    BY <2>5, <2>6 DEF NoReports, TrialReports
  <2>11. run[r].done = 0
    BY <2>1, KnownRun DEF RunInv, TurnInv, Unstarted
  <2>12. TurnInv(r)'
    BY <2>4, <2>11, PlanFacts, WorkerTypes DEF TurnInv, Unstarted
  <2> QED BY <2>4, <2>5, <2>6, <2>7, <2>8, <2>9, <2>10, <2>11, <2>12, WorkerTypes
          DEF RunInv, FileInv, GateInv, ReportInv, Unstarted, Measuring
<1> QED BY <1>1, <1>2 DEF FreezeCandidate

\* A step of a worker that leaves the files alone.
LEMMA WorkerKeeps ==
  ASSUME MeasureInv, NEW r \in Runs, NEW x \in Run, run' = [run EXCEPT ![r] = x],
         UNCHANGED RunFiles, run[r].pc \in Measuring, x.pc \in {"opened", "imported"},
         x.op = run[r].op, x.done = run[r].done, x.frozen = run[r].frozen,
         x.harness = run[r].harness, x.lone = run[r].lone, x.returned = run[r].returned,
         x.planned = run[r].planned, x.base = run[r].base,
         x.done < Len(Plan(x.op)), Gated(r) => gate[r] # None,
         x.pc = "imported" => (SourceHeld(r)' => x.code = x.opened)
  PROVE  RunInv(r)'
<1>1. run'[r] = x
  BY KnownRun
<1>2. RunInv(r) /\ run[r] \in Run
  BY KnownRun
<1>3. RunType(r)'
  BY <1>1, <1>2 DEF RunInv, RunType, RunFiles
<1>4. PlanInv(r)'
  BY <1>1, <1>2 DEF RunInv, PlanInv, TreeOf, Measuring
<1>5. TurnInv(r)'
  BY <1>1 DEF TurnInv, Unstarted
<1>6. FileInv(r)'
  BY <1>1, <1>2 DEF RunInv, FileInv, RunFiles, Measuring, Unstarted
<1>7. GateInv(r)'
  BY <1>1, <1>2 DEF RunInv, GateInv, RunFiles, Measuring, Gated
<1>8. ReportInv(r)'
  BY <1>1, <1>2 DEF RunInv, ReportInv, RunFiles, Measuring
<1> QED BY <1>3, <1>4, <1>5, <1>6, <1>7, <1>8 DEF RunInv

\* A worker's opening.
LEMMA WorkerOpenKeeps ==
  ASSUME MeasureInv, NEW r \in Runs, WorkerOpen(r)
  PROVE  RunInv(r)'
<1>1. /\ run[r] \in Run /\ run[r].pc = "next" /\ run[r].done < Len(Plan(run[r].op))
      /\ Gated(r) => gate[r] # None
  BY KnownRun, PlanFacts DEF WorkerOpen, Due, AllDone, RunInv, TurnInv, Run
<1>2. Digest(Root(r)) \in Source /\ harness \in Nat
  BY <1>1, TurnFacts, KnownRun
<1> DEFINE x == [run[r] EXCEPT !.pc = "opened", !.opened = Digest(Root(r)), !.openedHarness = harness]
<1>3. run' = [run EXCEPT ![r] = x] /\ UNCHANGED RunFiles
  BY DEF WorkerOpen
<1>4. /\ x \in Run /\ x.pc = "opened"
      /\ x.op = run[r].op /\ x.done = run[r].done /\ x.frozen = run[r].frozen
      /\ x.harness = run[r].harness /\ x.lone = run[r].lone /\ x.returned = run[r].returned
      /\ x.planned = run[r].planned /\ x.base = run[r].base
  BY <1>1, <1>2 DEF Run, RunPhases
<1> HIDE DEF x
<1> QED BY <1>1, <1>3, <1>4, WorkerKeeps DEF Measuring

\* Its measurement.
LEMMA WorkerMeasureKeeps ==
  ASSUME MeasureInv, NEW r \in Runs, WorkerMeasure(r)
  PROVE  RunInv(r)'
<1>1. /\ run[r] \in Run /\ run[r].pc = "opened" /\ run[r].done < Len(Plan(run[r].op))
      /\ Gated(r) => gate[r] # None
  BY KnownRun DEF WorkerMeasure, RunInv, TurnInv, GateInv
<1>2. Digest(Root(r)) \in Source
  BY <1>1, TurnFacts, KnownRun
<1> DEFINE x == [run[r] EXCEPT !.pc = "imported", !.code = Digest(Root(r))]
<1>3. run' = [run EXCEPT ![r] = x] /\ UNCHANGED RunFiles /\ trees' = trees
  BY DEF WorkerMeasure, Loaded, Outside, wsVars
<1>4. /\ x \in Run /\ x.pc = "imported"
      /\ x.op = run[r].op /\ x.done = run[r].done /\ x.frozen = run[r].frozen
      /\ x.harness = run[r].harness /\ x.lone = run[r].lone /\ x.returned = run[r].returned
      /\ x.planned = run[r].planned /\ x.base = run[r].base
      /\ x.opened = run[r].opened /\ x.code = Digest(Root(r))
  BY <1>1, <1>2 DEF Run, RunPhases
<1> HIDE DEF x
<1>5. run'[r] = x
  BY <1>3, KnownRun
<1>6. Digest(Root(r))' = Digest(Root(r))
  BY <1>3, <1>4, <1>5 DEF Digest, Root, Current
<1>7. SourceHeld(r)' => x.code = x.opened
  BY <1>4, <1>5, <1>6 DEF SourceHeld
<1> QED BY <1>1, <1>3, <1>4, <1>7, WorkerKeeps DEF Measuring


\* A worker that passes was on the code it opened; its report stands for it.
LEMMA ClosePasses ==
  ASSUME MeasureInv, NEW r \in Runs, WorkerClose(r), SourceHeld(r), Validates(r), UNCHANGED gate,
         run' = [run EXCEPT ![r].pc = "next", ![r].done = @ + 1, ![r].opened = TreeOf(None),
                            ![r].code = TreeOf(None), ![r].openedHarness = 0]
  PROVE  RunInv(r)'
<1> DEFINE x == [run[r] EXCEPT !.pc = "next", !.done = @ + 1, !.opened = TreeOf(None),
                               !.code = TreeOf(None), !.openedHarness = 0]
           new == [source |-> run[r].opened, measured |-> run[r].code,
                   harness |-> run[r].openedHarness]
<1>1. /\ run[r] \in Run /\ run[r].pc = "imported" /\ RunInv(r) /\ run[r].done \in Nat
      /\ run[r].done < Len(Plan(run[r].op))
  BY KnownRun DEF WorkerClose, RunInv, TurnInv, Run
<1>2. run'[r] = x
  BY KnownRun
<1>3. ASSUME NEW e \in Source, NEW d \in Nat
      PROVE  LET y == [run[r] EXCEPT !.pc = "next", !.done = d, !.opened = e,
                                     !.code = e, !.openedHarness = 0]
             IN  /\ y \in Run /\ y.pc = "next" /\ y.done = d
                 /\ y.op = run[r].op /\ y.frozen = run[r].frozen /\ y.harness = run[r].harness
                 /\ y.lone = run[r].lone /\ y.returned = run[r].returned
                 /\ y.planned = run[r].planned /\ y.base = run[r].base
  <2> HIDE DEF x, new
  <2> DEFINE y == [run[r] EXCEPT !.pc = "next", !.done = d, !.opened = e,
                                 !.code = e, !.openedHarness = 0]
  <2>1. run[r] \in Run
    BY <1>1
  <2>2. y \in Run
    BY ONLY <2>1, e \in Source, d \in Nat DEF Run, RunPhases
  <2>3. /\ y.pc = "next" /\ y.done = d
        /\ y.op = run[r].op /\ y.frozen = run[r].frozen /\ y.harness = run[r].harness
        /\ y.lone = run[r].lone /\ y.returned = run[r].returned
        /\ y.planned = run[r].planned /\ y.base = run[r].base
    BY ONLY <2>1 DEF Run
  <2> QED BY <2>2, <2>3
<1>4. /\ x \in Run /\ x.pc = "next" /\ x.done = run[r].done + 1
      /\ x.op = run[r].op /\ x.frozen = run[r].frozen /\ x.harness = run[r].harness
      /\ x.lone = run[r].lone /\ x.returned = run[r].returned
      /\ x.planned = run[r].planned /\ x.base = run[r].base
  <2>1. TreeOf(None) \in Source /\ run[r].done + 1 \in Nat
    BY <1>1, TreeOfType
  <2> QED BY <1>3, <2>1
<1>5. new \in Report /\ new.measured = run[r].code
  BY <1>1 DEF Report, Run
<1>6. /\ report'[r] = [report[r] EXCEPT ![Current(r)] = new]
      /\ gate' = gate /\ summary' = summary
  BY KnownRun DEF WorkerClose
<1> HIDE DEF x, new
<1>7. Current(r) \in AllWorkers /\ report[r] \in [AllWorkers -> Report \cup {None}]
  BY <1>1, TurnFacts DEF RunInv, RunType
<1>8. /\ report'[r] \in [AllWorkers -> Report \cup {None}]
      /\ report'[r][Current(r)] = new
      /\ \A w \in AllWorkers : w # Current(r) => report'[r][w] = report[r][w]
  BY <1>5, <1>6, <1>7
<1>9. RunType(r)'
  BY <1>1, <1>2, <1>4, <1>6, <1>8 DEF RunInv, RunType
<1>10. TurnInv(r)'
  BY <1>1, <1>2, <1>4, PlanFacts DEF TurnInv, Unstarted
<1>11. PlanInv(r)'
  BY <1>1, <1>2, <1>4 DEF RunInv, PlanInv, TreeOf
<1>12. FileInv(r)'
  BY <1>1, <1>2, <1>4, <1>6 DEF RunInv, FileInv, Unstarted, Measuring
<1>13. Gated(r) => gate[r] # None
  BY <1>1 DEF RunInv, GateInv
<1>14. GateInv(r)'
  <2>1. ASSUME NEW w \in TrialReports, report'[r][w] # None
        PROVE  gate[r] # None /\ gate[r].passed
    <3>1. CASE w = Current(r)
      BY <1>1, <1>13, <2>1, <3>1, TurnFacts DEF RunInv, GateInv, Measuring
    <3>2. CASE w # Current(r)
      BY <1>1, <1>8, <2>1, <3>2 DEF RunInv, GateInv, TrialReports
    <3> QED BY <3>1, <3>2
  <2> QED BY <1>1, <1>2, <1>4, <1>6, <2>1 DEF RunInv, GateInv, Measuring
<1>15. ~run[r].returned => new.measured = run[r].frozen[Root(r)]
  BY <1>1, <1>5 DEF RunInv, ReportInv, Validates
<1>16. ReportInv(r)'
  <2>1. ASSUME gate[r] = None, NEW i \in 1 .. Len(GateWorkers), i <= run[r].done + 1
        PROVE  /\ report'[r][GateWorkers[i]] \in Report
               /\ ~run[r].returned =>
                    report'[r][GateWorkers[i]].measured = run[r].frozen[GateWorkers[i].root]
    <3>1. ~Gated(r)
      BY <1>13, <2>1
    <3>2. CASE GateWorkers[i] = Current(r)
      BY <1>5, <1>8, <1>15, <3>2 DEF Root
    <3>3. CASE GateWorkers[i] # Current(r)
      <4>1. i <= run[r].done
        BY <1>1, <2>1, <3>1, <3>3, TurnFacts
      <4>2. GateWorkers[i] \in AllWorkers
        BY WorkerTypes
      <4> QED BY <1>1, <1>8, <2>1, <3>3, <4>1, <4>2 DEF RunInv, ReportInv, Measuring
    <3> QED BY <3>2, <3>3
  <2> QED BY <1>1, <1>2, <1>4, <1>6, <2>1 DEF RunInv, ReportInv, Measuring
<1> QED BY <1>9, <1>10, <1>11, <1>12, <1>14, <1>16 DEF RunInv

\* Its end.
LEMMA WorkerCloseKeeps ==
  ASSUME MeasureInv, NEW r \in Runs, WorkerClose(r)
  PROVE  RunInv(r)'
<1>1. CASE /\ SourceHeld(r) /\ Validates(r) /\ UNCHANGED gate
           /\ run' = [run EXCEPT ![r].pc = "next", ![r].done = @ + 1, ![r].opened = TreeOf(None),
                                 ![r].code = TreeOf(None), ![r].openedHarness = 0]
  BY <1>1, ClosePasses
<1>2. CASE Fail(r)
  <2> DEFINE new == [source |-> run[r].opened, measured |-> run[r].code,
                     harness |-> run[r].openedHarness]
  <2>1. /\ run[r] \in Run /\ run[r].pc = "imported" /\ RunInv(r)
        /\ run[r].done < Len(Plan(run[r].op))
    BY KnownRun DEF WorkerClose, RunInv, TurnInv
  <2>2. new \in Report
    BY <2>1 DEF Report, Run
  <2>3. report'[r] = [report[r] EXCEPT ![Current(r)] = new] /\ summary' = summary
    BY KnownRun DEF WorkerClose
  <2> HIDE DEF new
  <2>4. Current(r) \in AllWorkers /\ report[r] \in [AllWorkers -> Report \cup {None}]
    BY <2>1, TurnFacts DEF RunInv, RunType
  <2>5. /\ report'[r] \in [AllWorkers -> Report \cup {None}]
        /\ \A w \in AllWorkers : w # Current(r) => report'[r][w] = report[r][w]
    BY <2>2, <2>3, <2>4
  <2>6. ASSUME NEW w \in TrialReports, report'[r][w] # None
        PROVE  gate[r] # None /\ gate[r].passed
    <3>1. CASE w = Current(r)
      BY <2>1, <3>1, <2>6, TurnFacts DEF RunInv, GateInv, Measuring
    <3>2. CASE w # Current(r)
      BY <2>1, <2>5, <2>6, <3>2 DEF RunInv, GateInv, TrialReports
    <3> QED BY <3>1, <3>2
  <2> QED BY <1>2, <2>3, <2>5, <2>6, FailKeeps
<1> QED BY <1>1, <1>2 DEF WorkerClose

\* The gate is written over the reports of the workers that passed.
LEMMA GateWrittenKeeps ==
  ASSUME MeasureInv, NEW r \in Runs, GateWritten(r)
  PROVE  RunInv(r)'
<1> DEFINE h == [w \in GateReports |-> report[r][w]]
           g == [passed |-> TRUE, sources |-> run[r].frozen, harness |-> run[r].harness, hashes |-> h]
<1>1. /\ run[r] \in Run /\ run[r].pc = "next" /\ run[r].done = Len(GateWorkers) /\ gate[r] = None
      /\ RunInv(r) /\ run' = run /\ report' = report /\ summary' = summary
  BY KnownRun DEF GateWritten
<1>2. gate'[r] = g
  BY KnownRun DEF GateWritten
<1>3. \A w \in GateReports :
        /\ report[r][w] \in Report
        /\ ~run[r].returned => report[r][w].measured = run[r].frozen[w.root]
  BY <1>1, WorkerTypes DEF RunInv, ReportInv, Measuring
<1>4. h \in [GateReports -> Report]
  BY <1>3
<1>5. \A w \in GateReports : h[w] = report[r][w]
  OBVIOUS
<1> HIDE DEF h
<1>6. /\ g \in PassedGate /\ g.passed = TRUE /\ g.sources = run[r].frozen
      /\ g.harness = run[r].harness /\ g.hashes = h
  BY <1>1, <1>4 DEF PassedGate, Run
<1> HIDE DEF g
<1>7. RunType(r)' /\ TurnInv(r)' /\ FileInv(r)'
  BY <1>1, <1>2, <1>6 DEF RunInv, RunType, TurnInv, FileInv, Unstarted
<1>8. PlanInv(r)'
  BY <1>1 DEF RunInv, PlanInv, TreeOf
<1>9. GateInv(r)'
  BY <1>1, <1>2, <1>6 DEF RunInv, GateInv, Measuring
<1>10. ReportInv(r)'
  BY <1>1, <1>2, <1>3, <1>5, <1>6 DEF RunInv, ReportInv, Measuring
<1> QED BY <1>7, <1>8, <1>9, <1>10 DEF RunInv

\* A reused gate is of the sources the run froze, and of intact reports.
LEMMA GateReusedKeeps ==
  ASSUME MeasureInv, NEW r \in Runs, NEW q \in Runs, GateReused(r, q)
  PROVE  RunInv(r)'
<1>1. /\ run[r] \in Run /\ run[r].pc = "next" /\ RunInv(r) /\ RunInv(q) /\ run[q] \in Run
      /\ gate[q] # None /\ summary' = summary
  BY KnownRun DEF GateReused
<1>2. CASE Fail(r) /\ UNCHANGED report
  <2>1. report'[r] \in [AllWorkers -> Report \cup {None}]
    BY <1>1, <1>2 DEF RunInv, RunType
  <2>2. \A w \in TrialReports : report'[r][w] # None => gate[r] # None /\ gate[r].passed
    BY <1>1, <1>2 DEF RunInv, GateInv
  <2> QED BY <1>1, <1>2, <2>1, <2>2, FailKeeps
<1> DEFINE copy == [w \in AllWorkers |-> IF w \in GateReports THEN report[q][w] ELSE None]
           x == [run[r] EXCEPT !.done = Len(GateWorkers), !.returned = run[q].returned]
<1>3. CASE /\ Reusable(q, r) /\ report' = [report EXCEPT ![r] = copy]
           /\ gate' = [gate EXCEPT ![r] = gate[q]]
           /\ run' = [run EXCEPT ![r].done = Len(GateWorkers), ![r].returned = run[q].returned]
  <2>1. run'[r] = x /\ report'[r] = copy /\ gate'[r] = gate[q]
    BY <1>3, KnownRun
  <2>2. /\ x \in Run /\ x.pc = "next" /\ x.done = Len(GateWorkers)
        /\ x.op = run[r].op /\ x.frozen = run[r].frozen /\ x.harness = run[r].harness
        /\ x.lone = run[r].lone
        /\ x.planned = run[r].planned /\ x.base = run[r].base
    BY <1>1, WorkerTypes DEF Run
  <2>3. x.returned = run[q].returned
    BY <1>1 DEF Run
  <2>4. copy \in [AllWorkers -> Report \cup {None}]
    BY <1>1 DEF RunInv, RunType
  <2>5. \A w \in TrialReports : copy[w] = None
    BY DEF TrialReports
  <2> HIDE DEF x, copy
  <2>6. gate[q].passed /\ gate[q].sources = run[r].frozen /\ gate[q].harness = run[r].harness
    BY <1>3 DEF Reusable
  <2>7. RunType(r)' /\ FileInv(r)'
    BY <1>1, <2>1, <2>2, <2>4 DEF RunInv, RunType, FileInv, Unstarted, Measuring
  <2>8. TurnInv(r)'
    BY <2>1, <2>2, PlanFacts DEF TurnInv, Unstarted
  <2>9. PlanInv(r)'
    BY <1>1, <2>1, <2>2 DEF RunInv, PlanInv, TreeOf
  <2>10. GateInv(r)'
    BY <1>1, <2>1, <2>2, <2>5, <2>6 DEF GateInv
  <2>11. ~run[q].returned =>
           \A w \in GateReports : gate[q].hashes[w].measured = gate[q].sources[w.root]
    BY <1>1, <2>6 DEF RunInv, ReportInv
  <2>12. ReportInv(r)'
    BY <1>1, <2>1, <2>2, <2>3, <2>11 DEF ReportInv
  <2> QED BY <2>7, <2>8, <2>9, <2>10, <2>12 DEF RunInv
<1> QED BY <1>2, <1>3 DEF GateReused

\* The end of the run.
LEMMA FinishKeeps ==
  ASSUME MeasureInv, NEW r \in Runs, Finish(r)
  PROVE  RunInv(r)'
<1>1. /\ End(r) /\ run[r] \in Run /\ run[r].pc = "next" /\ RunInv(r)
      /\ report' = report /\ gate' = gate
      /\ summary'[r] = [summary[r] EXCEPT !.passed = TRUE]
  BY KnownRun DEF Finish
<1>3. summary[r] \in Summary /\ summary[r].sources = run[r].frozen
  BY <1>1 DEF RunInv, FileInv, Measuring
<1>4. summary'[r] \in Summary /\ summary'[r].sources = summary[r].sources
  BY <1>1, <1>3 DEF Summary
<1>5. summary'[r].sources = run[r].frozen
  BY <1>3, <1>4
<1>6. RunType(r)'
  BY <1>1, <1>4, EndFacts DEF RunInv, RunType
<1> QED BY <1>1, <1>5, <1>6, EndFacts, EndPlan
        DEF RunInv, TurnInv, FileInv, GateInv, ReportInv, Unstarted, Measuring

\* A report can be damaged, the hash the gate keeps of it cannot.
LEMMA DamageKeeps ==
  ASSUME MeasureInv, NEW r \in Runs, NEW w \in AllWorkers, Damage(r, w)
  PROVE  RunInv(r)'
<1>1. /\ RunInv(r) /\ gate[r] # None /\ gate[r].passed /\ report[r][w] # None
      /\ run' = run /\ gate' = gate /\ summary' = summary /\ UNCHANGED trees
  BY KnownRun DEF Damage, runVars
<1> DEFINE new == [report[r][w] EXCEPT !.measured = None]
<1>2. report'[r] = [report[r] EXCEPT ![w] = new]
  BY KnownRun DEF Damage
<1>3. report[r] \in [AllWorkers -> Report \cup {None}] /\ report[r][w] \in Report
  BY <1>1 DEF RunInv, RunType
<1>4. new \in Report
  BY <1>3 DEF Report
<1> HIDE DEF new
<1>5. report'[r] \in [AllWorkers -> Report \cup {None}]
  BY <1>2, <1>3, <1>4
<1>6. RunType(r)' /\ TurnInv(r)' /\ FileInv(r)' /\ GateInv(r)'
  BY <1>1, <1>5 DEF RunInv, RunType, TurnInv, FileInv, GateInv, Gated
<1>7. PlanInv(r)'
  BY <1>1 DEF RunInv, PlanInv, TreeOf
<1>8. ReportInv(r)'
  BY <1>1 DEF RunInv, ReportInv, SourceHeld, Digest, Root, Current
<1> QED BY <1>6, <1>7, <1>8 DEF RunInv

\* A tree that moves while a worker measures it either is seen when the worker
\* closes, or went away and back.
LEMMA TreesKeep ==
  ASSUME MeasureInv, TreesMove, NEW r \in Runs
  PROVE  RunInv(r)' /\ run' \in [Runs -> Run]
<1>1. /\ RunInv(r) /\ run[r] \in Run /\ report' = report /\ gate' = gate /\ summary' = summary
  BY KnownRun DEF TreesMove
<1>2. \A q \in Runs : Returns(q) \in BOOLEAN
  BY DEF Returns
<1>3. \A q \in Runs : \A b \in BOOLEAN :
        LET x == [run[q] EXCEPT !.returned = b]
        IN  /\ x \in Run /\ x.returned = b /\ x.pc = run[q].pc /\ x.op = run[q].op
            /\ x.done = run[q].done /\ x.frozen = run[q].frozen /\ x.harness = run[q].harness
            /\ x.lone = run[q].lone /\ x.planned = run[q].planned /\ x.base = run[q].base
            /\ x.opened = run[q].opened /\ x.code = run[q].code
  BY KnownRun DEF Run
<1>4. \A q \in Runs : run'[q] = [run[q] EXCEPT !.returned = run[q].returned \/ Returns(q)]
  BY DEF TreesMove
<1>5. \A q \in Runs : (run[q].returned \/ Returns(q)) \in BOOLEAN
  OBVIOUS
<1>6. run' \in [Runs -> Run]
  <2>1. \A q \in Runs : run'[q] \in Run
    BY <1>3, <1>4, <1>5
  <2> QED BY <2>1 DEF TreesMove
<1>7. /\ run'[r] \in Run /\ run'[r].returned = (run[r].returned \/ Returns(r))
      /\ run'[r].pc = run[r].pc /\ run'[r].op = run[r].op
      /\ run'[r].done = run[r].done /\ run'[r].frozen = run[r].frozen
      /\ run'[r].harness = run[r].harness /\ run'[r].lone = run[r].lone
      /\ run'[r].planned = run[r].planned /\ run'[r].base = run[r].base
      /\ run'[r].opened = run[r].opened /\ run'[r].code = run[r].code
  <2> DEFINE b == run[r].returned \/ Returns(r)
  <2>1. b \in BOOLEAN
    BY <1>5
  <2>2. run'[r] = [run[r] EXCEPT !.returned = b]
    BY <1>4
  <2> HIDE DEF b
  <2>3. /\ run'[r] \in Run /\ run'[r].returned = b
        /\ run'[r].pc = run[r].pc /\ run'[r].op = run[r].op
        /\ run'[r].done = run[r].done /\ run'[r].frozen = run[r].frozen
        /\ run'[r].harness = run[r].harness /\ run'[r].lone = run[r].lone
        /\ run'[r].planned = run[r].planned /\ run'[r].base = run[r].base
        /\ run'[r].opened = run[r].opened /\ run'[r].code = run[r].code
    BY <1>3, <2>1, <2>2
  <2> QED BY <2>3 DEF b
<1>8. RunType(r)' /\ TurnInv(r)' /\ FileInv(r)' /\ GateInv(r)'
  BY <1>1, <1>7 DEF RunInv, RunType, TurnInv, FileInv, GateInv, Gated
<1>9. PlanInv(r)'
  BY <1>1, <1>7 DEF RunInv, PlanInv, TreeOf
<1>10. Root(r)' = Root(r)
  BY <1>7 DEF Root, Current
<1>11. run[r].pc = "imported" /\ ~run'[r].returned /\ SourceHeld(r)' => run[r].code = run[r].opened
  <2>1. CASE SourceHeld(r)
    BY <1>1, <1>7, <2>1 DEF RunInv, ReportInv
  <2>2. CASE ~SourceHeld(r)
    BY <1>7, <1>10, <2>2 DEF SourceHeld, Digest, Returns
  <2> QED BY <2>1, <2>2
<1>12. ReportInv(r)'
  BY <1>1, <1>7, <1>11 DEF RunInv, ReportInv
<1> QED BY <1>6, <1>8, <1>9, <1>12 DEF RunInv

-----------------------------------------------------------------------------
(* The invariant of the whole *)

\* All of them.
LEMMA StepKeeps ==
  ASSUME MeasureInv, NEW r \in Runs, RunStep(r)
  PROVE  RunInv(r)'
<1>1. CASE HarnessDies(r)
  BY <1>1, EndKeepsRun DEF HarnessDies
<1> QED BY <1>1, PlanLoadKeeps, PlanHashKeeps, PlanVerifyKeeps, FreezeBaselineKeeps,
           FreezeCandidateKeeps, WorkerOpenKeeps, WorkerMeasureKeeps, WorkerCloseKeeps,
           GateWrittenKeeps, GateReusedKeeps, FinishKeeps, DamageKeeps
        DEF RunStep, PlanStep, HarnessStep

\* A step of a run touches neither the trees nor the prepare commands.
LEMMA StepSparesWorkspace ==
  ASSUME WsInv, harness \in Nat, NEW r \in Runs, RunStep(r)
  PROVE  WsInv' /\ trees' = trees /\ harness' = harness
<1>1. UNCHANGED <<base, trees, record, prep, edits, harness>> /\ (faults' = faults \/ faults' = faults + 1)
  BY DEF RunStep, PlanStep, HarnessStep, PlanLoad, PlanHash, PlanVerify, FreezeBaseline,
         FreezeCandidate, WorkerOpen, WorkerMeasure, WorkerClose, GateWritten, GateReused, Finish,
         HarnessDies, Damage, Outside, wsVars
<1>2. Kept
  BY <1>1, RebaseKeeps
<1>3. WsTypeOK'
  BY <1>1 DEF WsInv, WsTypeOK
<1>4. LoneRecordIsItsCommit'
  BY <1>1 DEF WsInv, LoneRecordIsItsCommit, TreeOf
<1> QED BY <1>1, <1>2, <1>3, <1>4 DEF WsInv, Kept

\* For the other runs.
LEMMA OthersKeep ==
  ASSUME MeasureInv, NEW r \in Runs, Touches(r), trees' = trees, NEW q \in Runs, q # r
  PROVE  RunInv(q)'
<1>1. /\ RunInv(q) /\ run'[q] = run[q] /\ report'[q] = report[q] /\ gate'[q] = gate[q]
      /\ summary'[q] = summary[q]
  BY KnownRun DEF Touches
<1>2. RunType(q)' /\ TurnInv(q)' /\ FileInv(q)' /\ GateInv(q)'
  BY <1>1 DEF RunInv, RunType, TurnInv, FileInv, GateInv, Gated
<1>3. PlanInv(q)'
  BY <1>1 DEF RunInv, PlanInv, TreeOf
<1>4. Root(q)' = Root(q) /\ SourceHeld(q)' = SourceHeld(q)
  BY <1>1 DEF SourceHeld, Digest, Root, Current
<1>5. ReportInv(q)'
  BY <1>1, <1>4 DEF RunInv, ReportInv
<1> QED BY <1>2, <1>3, <1>5 DEF RunInv

\* For all.
LEMMA RunStepKeeps ==
  ASSUME MeasureInv, NEW r \in Runs, RunStep(r)
  PROVE  MeasureInv'
<1>1. WsInv' /\ trees' = trees /\ harness' \in Nat
  BY StepSparesWorkspace, KnownRun DEF MeasureInv
<1>2. Touches(r)
  BY StepTouches DEF MeasureInv
<1>3. \A q \in Runs : RunInv(q)'
  BY <1>1, <1>2, StepKeeps, OthersKeep
<1>4. RunType(r)'
  BY <1>3 DEF RunInv
<1>5. TypeOK'
  BY <1>1, <1>2, <1>4 DEF MeasureInv, TypeOK, WsInv, RunType, Touches, Summary
<1> QED BY <1>1, <1>3, <1>5 DEF MeasureInv

\* Edits of the harness keep it.
LEMMA EditHarnessKeeps ==
  ASSUME MeasureInv, EditHarness
  PROVE  MeasureInv'
<1>1. /\ UNCHANGED <<base, trees, record, prep, faults, runVars>> /\ edits \in Nat
      /\ edits' = edits + 1 /\ harness' = edits + 1
  BY DEF EditHarness, MeasureInv, WsInv, WsTypeOK
<1>2. EditsAreFresh'
  BY <1>1, Fresh DEF MeasureInv, WsInv
<1>3. WsTypeOK' /\ AloneIsAlone' /\ BaselineIsNoClone'
  BY <1>1 DEF MeasureInv, WsInv, WsTypeOK, AloneIsAlone, BaselineIsNoClone, Running
<1>4. LonePrepares' /\ LoneRecordIsItsCommit'
  BY <1>1 DEF MeasureInv, WsInv, LonePrepares, Prepares, LoneRecordIsItsCommit, TreeOf, Running, Early
<1>5. TypeOK'
  BY <1>1, <1>3 DEF MeasureInv, TypeOK, runVars
<1>6. ASSUME NEW q \in Runs PROVE RunInv(q)'
  <2>1. RunType(q)' /\ TurnInv(q)' /\ FileInv(q)' /\ GateInv(q)'
    BY <1>1, KnownRun DEF RunInv, RunType, TurnInv, FileInv, GateInv, Gated, runVars
  <2>2. PlanInv(q)' /\ ReportInv(q)'
    BY <1>1, KnownRun DEF RunInv, PlanInv, TreeOf, ReportInv, SourceHeld, Digest, Root, Current, runVars
  <2> QED BY <2>1, <2>2 DEF RunInv
<1> QED BY <1>2, <1>3, <1>4, <1>5, <1>6 DEF MeasureInv, WsInv

\* And what happens to the trees.
LEMMA TreesMoveKeeps ==
  ASSUME MeasureInv, TreesMove, WsInv'
  PROVE  MeasureInv'
<1>1. \A q \in Runs : RunInv(q)'
  BY TreesKeep
<1>2. run' \in [Runs -> Run]
  <2>1. CASE Runs = {}
    BY <2>1 DEF TreesMove
  <2>2. CASE Runs # {}
    BY <2>2, TreesKeep
  <2> QED BY <2>1, <2>2
<1>3. TypeOK'
  BY <1>2 DEF MeasureInv, TypeOK, WsInv, TreesMove
<1> QED BY <1>1, <1>3 DEF MeasureInv

\* And nothing at all.
LEMMA StutterKeeps ==
  ASSUME MeasureInv, UNCHANGED vars
  PROVE  MeasureInv'
<1>1. UNCHANGED wsVars /\ UNCHANGED <<harness, run, report, gate, summary, trees>>
  BY DEF vars, runVars, wsVars
<1>2. WsInv'
  BY <1>1, WsStutterInv DEF MeasureInv
<1>3. TypeOK'
  BY <1>1, <1>2 DEF MeasureInv, TypeOK, WsInv
<1>4. ASSUME NEW q \in Runs PROVE RunInv(q)'
  <2>1. RunType(q)' /\ TurnInv(q)' /\ FileInv(q)' /\ GateInv(q)'
    BY <1>1, KnownRun DEF RunInv, RunType, TurnInv, FileInv, GateInv, Gated
  <2>2. PlanInv(q)' /\ ReportInv(q)'
    BY <1>1, KnownRun DEF RunInv, PlanInv, TreeOf, ReportInv, SourceHeld, Digest, Root, Current
  <2> QED BY <2>1, <2>2 DEF RunInv
<1> QED BY <1>2, <1>3, <1>4 DEF MeasureInv

\* The invariant at the start.
LEMMA InitInv == Init => MeasureInv
<1> SUFFICES ASSUME Init PROVE MeasureInv
  OBVIOUS
<1>1. WsInv
  BY WsInitInv DEF Init
<1>2. \A r \in Runs : /\ run[r] = IdleRun /\ report[r] = NoReports /\ gate[r] = None
                      /\ summary[r] = None
  BY DEF Init
<1>3. NoReports \in [AllWorkers -> Report \cup {None}]
  BY DEF NoReports
<1>4. TypeOK
  BY <1>1, <1>3, IdleRunType DEF Init, TypeOK, WsInv
<1>5. IdleRun.pc = "none"
  BY DEF IdleRun
<1>6. \A w \in TrialReports : NoReports[w] = None
  BY DEF NoReports, TrialReports
<1>7. ASSUME NEW r \in Runs PROVE RunInv(r)
  <2>1. RunType(r) /\ TurnInv(r) /\ PlanInv(r) /\ FileInv(r)
    BY <1>2, <1>3, <1>5, IdleRunType DEF RunType, TurnInv, PlanInv, FileInv, Unstarted, Measuring
  <2>2. GateInv(r) /\ ReportInv(r)
    BY <1>2, <1>5, <1>6 DEF GateInv, ReportInv, Measuring
  <2> QED BY <2>1, <2>2 DEF RunInv
<1> QED BY <1>1, <1>4, <1>7 DEF MeasureInv

\* And in every step.
LEMMA NextInv ==
  ASSUME MeasureInv, [Next]_vars
  PROVE  MeasureInv'
<1>1. CASE WsNext /\ TreesMove
  BY <1>1, WsNextInv, TreesMoveKeeps DEF MeasureInv
<1>2. ASSUME NEW root \in Roots, Restore(root), TreesMove PROVE MeasureInv'
  <2>1. WsInv'
    BY <1>2, RestoreKeeps DEF MeasureInv, WsInv, Kept
  <2> QED BY <1>2, <2>1, TreesMoveKeeps
<1> QED BY <1>1, <1>2, RunStepKeeps, EditHarnessKeeps, StutterKeeps DEF Next

\* The invariant the four results below follow from.
THEOREM Inductive == Spec => []MeasureInv
  BY InitInv, NextInv, PTL DEF Spec

\* The state of trees, plans, runs and their report directories is well formed.
THEOREM TypeCorrect == Spec => []TypeOK
<1>1. MeasureInv => TypeOK
  BY DEF MeasureInv
<1> QED BY <1>1, Inductive, PTL

\* A plan that was ready names the commit its baseline was the tree of
\* (verify_baseline_integrity), if no two prepares overlapped.
THEOREM ReadyPlan == Spec => []ReadyPlanIsPrepared
<1>1. MeasureInv => ReadyPlanIsPrepared
  BY DEF MeasureInv, RunInv, PlanInv, ReadyPlanIsPrepared
<1> QED BY <1>1, Inductive, PTL

\* No trial without a passed gate of the same sources and harness.
THEOREM TimingGated == Spec => []TimingIsGated
<1>1. MeasureInv => TimingIsGated
  BY DEF MeasureInv, RunInv, GateInv, TimingIsGated
<1> QED BY <1>1, Inductive, PTL

\* What `run status` calls complete was measured on the sources it names.
THEOREM CompleteEvidence == Spec => []CompleteEvidenceIsOfItsSources
<1>1. ASSUME MeasureInv, NEW r \in Runs, Complete(r), ~run[r].returned, NEW w \in GateReports
      PROVE  report[r][w].measured = summary[r].sources[w.root]
  <2>1. /\ gate[r] # None /\ gate[r].passed /\ summary[r] # None
        /\ report[r][w] = gate[r].hashes[w]
    BY <1>1 DEF Complete
  <2>2. gate[r].sources = run[r].frozen /\ summary[r].sources = run[r].frozen
    BY <1>1, <2>1 DEF MeasureInv, RunInv, GateInv, FileInv
  <2>3. gate[r].hashes[w].measured = gate[r].sources[w.root]
    BY <1>1, <2>1 DEF MeasureInv, RunInv, ReportInv
  <2> QED BY <2>1, <2>2, <2>3
<1>2. MeasureInv => CompleteEvidenceIsOfItsSources
  BY <1>1 DEF CompleteEvidenceIsOfItsSources
<1> QED BY <1>2, Inductive, PTL

-----------------------------------------------------------------------------
(* Commands through a site.  Type correctness. *)

LEMMA WritesType == ASSUME NEW op \in SiteOperations PROVE Writes(op) \in Seq(FileNames)
<1>1. CASE op = "benchmark"
  BY <1>1 DEF Writes, FileNames
<1>2. CASE op = "correctness-only"
  BY <1>2 DEF Writes, FileNames
<1>3. CASE op = "precision"
  BY <1>3 DEF Writes, FileNames
<1>4. CASE op \in {"preflight", "correctness"}
  BY <1>4 DEF Writes, FileNames
<1>5. CASE op \in {"preflight-static", "profile"}
  BY <1>5 DEF Writes, FileNames
<1>6. QED
  BY <1>1, <1>2, <1>3, <1>4, <1>5 DEF SiteOperations, ReportDirs, ReportFiles

LEMMA EmptyTypes == NoSubmit \in Submission /\ NoRequest \in Request /\ EmptyDir \in Fetched
  BY DEF NoSubmit, Submission, NoRequest, Request, EmptyDir, Fetched

\* The submission of a run moves on.
LEMMA GoesType ==
  ASSUME SiteTypeOK, NEW r \in SiteRuns, NEW pc, Goes(r, pc),
         pc \in {"refused", "planned", "listed", "accepted", "recorded", "failed"}
  PROVE  /\ submit' \in [SiteRuns -> Submission]
         /\ submit'[r] = [submit[r] EXCEPT !.pc = pc]
         /\ \A s \in SiteRuns : s # r => submit'[s] = submit[s]
<1>1. submit \in [SiteRuns -> Submission] /\ submit[r] \in Submission
  BY DEF SiteTypeOK
<1>2. [submit[r] EXCEPT !.pc = pc] \in Submission
  BY <1>1 DEF Submission
<1>3. QED
  BY <1>1, <1>2 DEF Goes

\* Planning a run.
LEMMA SitePlanType ==
  ASSUME SiteTypeOK, NEW r \in SiteRuns, NEW op \in Wanted, SitePlan(r, op)
  PROVE  /\ submit' \in [SiteRuns -> Submission]
         /\ \A s \in SiteRuns : s # r => submit'[s] = submit[s]
         /\ submit'[r].lone = submit[r].lone
         /\ \/ submit'[r].pc = "refused"
            \/ submit'[r].pc = "planned" /\ submit'[r].wrapper \in Wrappers /\ submit'[r].op = op
<1>1. submit \in [SiteRuns -> Submission] /\ submit[r] \in Submission /\ settings \in Settings
  BY DEF SiteTypeOK
<1> DEFINE origin == CommandOf(op, settings)
<1>2. origin \in {"configured", "builtin", Nothing}
  BY DEF CommandOf
<1>3. CASE origin = Nothing \/ settings.wrapper = Nothing \/ Unresolved(op, origin)
  <2>1. submit' = [submit EXCEPT ![r] = [submit[r] EXCEPT !.pc = "refused"]]
    BY <1>1, <1>3 DEF SitePlan
  <2>2. [submit[r] EXCEPT !.pc = "refused"] \in Submission
    BY <1>1 DEF Submission
  <2>3. submit'[r].pc = "refused" /\ submit'[r].lone = submit[r].lone
    BY <1>1, <2>1 DEF Submission
  <2>4. QED
    BY <1>1, <2>1, <2>2, <2>3
<1>4. CASE ~(origin = Nothing \/ settings.wrapper = Nothing \/ Unresolved(op, origin))
  <2> DEFINE new == [submit[r] EXCEPT !.pc = "planned", !.op = op, !.origin = origin,
                                      !.wrapper = settings.wrapper]
  <2>1. submit' = [submit EXCEPT ![r] = new]
    BY <1>1, <1>4 DEF SitePlan
  <2>2. settings.wrapper \in Wrappers
    BY <1>1, <1>4 DEF Settings
  <2>3. new \in Submission /\ new.pc = "planned" /\ new.wrapper = settings.wrapper
        /\ new.op = op /\ new.lone = submit[r].lone
    BY <1>1, <1>2, <2>2 DEF Submission
  <2> HIDE DEF new
  <2>4. submit'[r] = new
    BY <1>1, <2>1
  <2>5. QED
    BY <1>1, <2>1, <2>2, <2>3, <2>4
<1>5. QED
  BY <1>3, <1>4

\* A job is accepted.
LEMMA AcceptsType ==
  ASSUME SiteTypeOK, NEW r \in SiteRuns, SiteAccepts(r),
         submit[r].wrapper \in Wrappers, submit[r].op \in Wanted,
         NextId(r, submit[r].wrapper) \in JobIds
  PROVE  /\ job' \in [SiteRuns -> Job \cup {Nothing}]
         /\ \A s \in SiteRuns : s # r => job'[s] = job[s]
         /\ job'[r] # Nothing
         /\ job'[r].wrapper = submit[r].wrapper
         /\ job'[r].id = NextId(r, submit[r].wrapper)
         /\ job'[r].writes \in {Writes(submit[r].op), << >>}
         /\ job'[r].wrote = 0
<1>1. job \in [SiteRuns -> Job \cup {Nothing}]
  BY DEF SiteTypeOK
<1>2. PICK writes \in {Writes(submit[r].op), << >>} :
        job' = [job EXCEPT ![r] = [wrapper |-> submit[r].wrapper, id |-> NextId(r, submit[r].wrapper),
                                   phase |-> "running", writes |-> writes, wrote |-> 0]]
  BY DEF SiteAccepts
<1> DEFINE new == [wrapper |-> submit[r].wrapper, id |-> NextId(r, submit[r].wrapper),
                   phase |-> "running", writes |-> writes, wrote |-> 0]
<1>3. writes \in Seq(FileNames)
  <2>1. submit[r].op \in SiteOperations
    BY SiteAssumption
  <2>2. Writes(submit[r].op) \in Seq(FileNames)
    BY <2>1, WritesType
  <2>3. << >> \in Seq(FileNames)
    OBVIOUS
  <2>4. QED
    BY <2>2, <2>3
<1>4. /\ new \in Job /\ new.wrapper = submit[r].wrapper /\ new.id = NextId(r, submit[r].wrapper)
      /\ new.writes = writes /\ new.wrote = 0
  BY <1>3 DEF Job
<1>5. new # Nothing
  BY <1>4, NoFileAssumption
<1>6. job' = [job EXCEPT ![r] = new]
  BY <1>2
<1> HIDE DEF new
<1>7. job'[r] = new
  BY <1>1, <1>6
<1>8. QED
  BY <1>1, <1>4, <1>5, <1>6, <1>7

\* A manifest of a run.
LEMMA ManifestType ==
  ASSUME SiteTypeOK, NEW r \in SiteRuns, NEW m \in SiteManifest,
         manifest' = [manifest EXCEPT ![r] = m]
  PROVE  /\ manifest' \in [SiteRuns -> SiteManifest \cup {Nothing}]
         /\ manifest'[r] = m /\ m # Nothing
         /\ \A s \in SiteRuns : s # r => manifest'[s] = manifest[s]
  BY NoFileAssumption DEF SiteTypeOK

\* What a request becomes.
LEMMA EndsType ==
  ASSUME SiteTypeOK, NEW c \in SiteCmds, RequestEnds(c)
  PROVE  /\ request' \in [SiteCmds -> Request]
         /\ request'[c].pc = "ended"
         /\ \A d \in SiteCmds : d # c => request'[d] = request[d]
<1> DEFINE new == [NoRequest EXCEPT !.pc = "ended"]
<1>1. new \in Request /\ new.pc = "ended"
  BY DEF NoRequest, Request
<1>2. request' = [request EXCEPT ![c] = new]
  BY DEF RequestEnds
<1> HIDE DEF new
<1>3. QED
  BY <1>1, <1>2 DEF SiteTypeOK

\* A file changes in the directory of a run.
LEMMA FetchedType ==
  ASSUME SiteTypeOK, NEW r \in SiteRuns, NEW op \in Wanted, NEW f \in FileNames,
         NEW x \in FetchedFile \cup {Nothing},
         fetched' = [fetched EXCEPT ![r][<<op, f>>] = x]
  PROVE  /\ fetched' \in [SiteRuns -> Fetched]
         /\ fetched'[r][<<op, f>>] = x
         /\ \A s \in SiteRuns, o \in Wanted, g \in FileNames :
              ~(s = r /\ o = op /\ g = f) => fetched'[s][<<o, g>>] = fetched[s][<<o, g>>]
<1>1. fetched \in [SiteRuns -> Fetched] /\ fetched[r] \in Fetched
  BY DEF SiteTypeOK
<1>2. <<op, f>> \in Wanted \X FileNames
  OBVIOUS
<1> DEFINE dir == [fetched[r] EXCEPT ![<<op, f>>] = x]
<1>3. dir \in Fetched /\ dir[<<op, f>>] = x
      /\ \A o \in Wanted, g \in FileNames : ~(o = op /\ g = f) => dir[<<o, g>>] = fetched[r][<<o, g>>]
  BY <1>1, <1>2 DEF Fetched
<1>4. fetched' = [fetched EXCEPT ![r] = dir]
  BY <1>1
<1> HIDE DEF dir
<1>5. fetched'[r] = dir /\ \A s \in SiteRuns : s # r => fetched'[s] = fetched[s]
  BY <1>1, <1>4
<1>6. fetched' \in [SiteRuns -> Fetched]
  BY <1>1, <1>3, <1>4
<1>7. ASSUME NEW s \in SiteRuns, NEW o \in Wanted, NEW g \in FileNames,
             ~(s = r /\ o = op /\ g = f)
      PROVE  fetched'[s][<<o, g>>] = fetched[s][<<o, g>>]
  <2>1. CASE s = r
    BY <1>3, <1>5, <1>7, <2>1
  <2>2. CASE s # r
    BY <1>5, <2>2
  <2>3. QED
    BY <2>1, <2>2
<1>8. QED
  BY <1>3, <1>5, <1>6, <1>7

-----------------------------------------------------------------------------
(* Whose job a command reaches. *)

\* A manifest of a run names the wrapper it was started with and, if it names a
\* job, the one that wrapper started for it.
Names(r, m) ==
  /\ m.wrapper = submit[r].wrapper
  /\ m.id # Nothing => job[r] # Nothing /\ m.id = job[r].id

JobFacts(r) ==
  /\ submit[r].pc \in {"none", "refused", "planned", "listed"} => job[r] = Nothing
  /\ submit[r].pc \in {"accepted", "recorded"} => job[r] # Nothing
  /\ submit[r].pc = "accepted" => submit[r].got = job[r].id
  /\ submit[r].pc \notin {"none", "refused"} =>
       submit[r].wrapper \in Wrappers /\ submit[r].op \in Wanted
  /\ job[r] # Nothing =>
       /\ job[r].wrapper = submit[r].wrapper
       /\ job[r].wrapper \notin Printing => job[r].id = r
       /\ job[r].writes \in {Writes(submit[r].op), << >>}
       /\ job[r].wrote <= Len(job[r].writes)

\* Only a cancel that was loaded before the start returned takes the job's name away.
ManifestFacts(r) ==
  /\ submit[r].pc \in {"none", "refused", "planned"} => manifest[r] = Nothing
  /\ submit[r].pc \in {"listed", "accepted", "recorded"} => manifest[r] # Nothing
  /\ manifest[r] # Nothing => Names(r, manifest[r])
  /\ Started(r) /\ submit[r].lone => manifest[r].id # Nothing

\* A site that numbers its jobs gives no number twice.
Numbered ==
  /\ \A w \in Wrappers : IsFiniteSet(JobsAt(w))
  /\ \A w \in Printing : \A r \in JobsAt(w) : job[r].id \in 1 .. Cardinality(JobsAt(w))
  /\ \A r, s \in SiteRuns :
       /\ job[r] # Nothing /\ job[s] # Nothing
       /\ job[r].wrapper = job[s].wrapper /\ job[r].id = job[s].id
       => r = s

Pending(c) == request[c].pc \in {"asked", "sent"}

RequestFacts(c) ==
  Pending(c) =>
    LET r == request[c].run
        held == request[c].held
    IN  /\ r \in SiteRuns /\ manifest[r] # Nothing /\ held # Nothing
        /\ Names(r, held)
        /\ request[c].wrapper = submit[r].wrapper
        /\ request[c].id = IF held.id # Nothing THEN held.id ELSE r
        /\ request[c].sure => held.id # Nothing
        /\ request[c].kind = "cancel" /\ submit[r].lone => Started(r) /\ held.id # Nothing
        /\ request[c].pc = "sent" => request[c].kind = "cancel"

SiteInv ==
  /\ SiteTypeOK
  /\ \A r \in SiteRuns : JobFacts(r) /\ ManifestFacts(r)
  /\ Numbered
  /\ \A c \in SiteCmds : RequestFacts(c)

\* The number a site gives is a job id.
LEMMA NextIdType ==
  ASSUME Numbered, NEW r \in SiteRuns, NEW w \in Wrappers
  PROVE  NextId(r, w) \in JobIds
<1>1. Cardinality(JobsAt(w)) \in Nat
  BY FS_CardinalityType DEF Numbered
<1>2. QED
  BY <1>1 DEF NextId, JobIds

\* Nobody's job gets another name.
SameJobs ==
  \A s \in SiteRuns :
    /\ (job'[s] = Nothing) = (job[s] = Nothing)
    /\ job[s] # Nothing =>
         /\ job'[s].wrapper = job[s].wrapper /\ job'[s].id = job[s].id
         /\ job'[s].writes = job[s].writes
         /\ job'[s].wrote = job[s].wrote
              \/ (job'[s].wrote = job[s].wrote + 1 /\ job[s].wrote < Len(job[s].writes))

\* A job's number stays its own.
LEMMA NumberedStays ==
  ASSUME Numbered, SameJobs
  PROVE  Numbered'
<1>1. ASSUME NEW w PROVE JobsAt(w)' = JobsAt(w)
  BY DEF JobsAt, SameJobs
<1>2. ASSUME NEW w \in Wrappers PROVE IsFiniteSet(JobsAt(w))'
  BY <1>1 DEF Numbered
<1>3. ASSUME NEW w \in Printing, NEW r \in JobsAt(w)'
      PROVE  job'[r].id \in 1 .. Cardinality(JobsAt(w)')
  <2>1. r \in JobsAt(w) /\ r \in SiteRuns /\ job[r] # Nothing
    BY <1>1, <1>3 DEF JobsAt
  <2>2. job'[r].id = job[r].id
    BY <2>1 DEF SameJobs
  <2>3. QED
    BY <1>1, <2>1, <2>2 DEF Numbered
<1>4. QED
  BY <1>2, <1>3 DEF Numbered, SameJobs

\* The next job of a site gets the next number.
LEMMA AcceptedNumbered ==
  ASSUME SiteInv, NEW r \in SiteRuns, submit[r].pc = "listed", SiteAccepts(r)
  PROVE  Numbered'
<1>0. /\ SiteTypeOK /\ Numbered /\ JobFacts(r) /\ job[r] = Nothing
      /\ submit[r].wrapper \in Wrappers /\ submit[r].op \in Wanted
  BY DEF SiteInv, JobFacts
<1>1. PICK w \in Wrappers : w = submit[r].wrapper
  BY <1>0
<1>2. NextId(r, w) \in JobIds
  BY <1>0, NextIdType
<1>3. /\ \A s \in SiteRuns : s # r => job'[s] = job[s]
      /\ job'[r] # Nothing /\ job'[r].wrapper = w /\ job'[r].id = NextId(r, w)
  BY <1>0, <1>1, <1>2, AcceptsType
<1>4. JobsAt(w)' = JobsAt(w) \cup {r} /\ r \notin JobsAt(w)
  BY <1>0, <1>3 DEF JobsAt
<1>5. ASSUME NEW v \in Wrappers, v # w PROVE JobsAt(v)' = JobsAt(v)
  BY <1>0, <1>3, <1>5 DEF JobsAt
<1>6. IsFiniteSet(JobsAt(w))
  BY <1>0 DEF Numbered
<1>7. /\ IsFiniteSet(JobsAt(w)') /\ Cardinality(JobsAt(w)') = Cardinality(JobsAt(w)) + 1
      /\ Cardinality(JobsAt(w)) \in Nat
  BY <1>4, <1>6, FS_AddElement, FS_CardinalityType
<1>8. ASSUME NEW v \in Wrappers PROVE IsFiniteSet(JobsAt(v)')
  BY <1>0, <1>5, <1>7, <1>8 DEF Numbered
<1>9. ASSUME NEW v \in Printing, NEW s \in JobsAt(v)'
      PROVE  job'[s].id \in 1 .. Cardinality(JobsAt(v)')
  <2>0. v \in Wrappers
    BY SiteAssumption
  <2>1. CASE v # w
    <3>1. s \in JobsAt(v) /\ s \in SiteRuns /\ s # r
      BY <1>0, <1>5, <1>9, <2>0, <2>1 DEF JobsAt
    <3>2. job[s].id \in 1 .. Cardinality(JobsAt(v))
      BY <1>0, <3>1 DEF Numbered
    <3>3. QED
      BY <1>3, <1>5, <2>0, <2>1, <3>1, <3>2
  <2>2. CASE v = w /\ s = r
    <3>1. job'[s].id = Cardinality(JobsAt(w)) + 1
      BY <1>3, <2>2 DEF NextId
    <3>2. QED
      BY <1>7, <2>2, <3>1
  <2>3. CASE v = w /\ s # r
    <3>1. s \in JobsAt(w) /\ s \in SiteRuns
      BY <1>4, <1>9, <2>3 DEF JobsAt
    <3>2. job[s].id \in 1 .. Cardinality(JobsAt(w))
      BY <1>0, <2>3, <3>1 DEF Numbered
    <3>3. QED
      BY <1>3, <1>7, <2>3, <3>1, <3>2
  <2>4. QED
    BY <2>1, <2>2, <2>3
<1>10. ASSUME NEW s \in SiteRuns, s # r, job[s] # Nothing, job[s].wrapper = w
       PROVE  job[s].id # job'[r].id
  <2>1. s \in JobsAt(w)
    BY <1>10 DEF JobsAt
  <2>2. CASE w \in Printing
    <3>1. job[s].id \in 1 .. Cardinality(JobsAt(w))
      BY <1>0, <2>1, <2>2 DEF Numbered
    <3>2. job'[r].id = Cardinality(JobsAt(w)) + 1
      BY <1>3, <2>2 DEF NextId
    <3>3. QED
      BY <1>7, <3>1, <3>2
  <2>3. CASE w \notin Printing
    <3>1. job[s].id = s
      BY <1>10, <2>3 DEF SiteInv, JobFacts
    <3>2. job'[r].id = r
      BY <1>3, <2>3 DEF NextId
    <3>3. QED
      BY <1>10, <3>1, <3>2
  <2>4. QED
    BY <2>2, <2>3
<1>11. ASSUME NEW s \in SiteRuns, NEW t \in SiteRuns, job'[s] # Nothing, job'[t] # Nothing,
              job'[s].wrapper = job'[t].wrapper, job'[s].id = job'[t].id
       PROVE  s = t
  BY <1>0, <1>3, <1>10, <1>11 DEF Numbered
<1>12. QED
  BY <1>8, <1>9, <1>11 DEF Numbered

\* What a request knows stays true of its run.
LEMMA RequestStays ==
  ASSUME NEW c \in SiteCmds, RequestFacts(c), UNCHANGED request[c],
         Pending(c) =>
           LET r == request[c].run IN
             /\ manifest'[r] # Nothing
             /\ submit'[r].wrapper = submit[r].wrapper
             /\ submit'[r].lone => submit[r].lone
             /\ Started(r) => Started(r)'
             /\ job[r] # Nothing => job'[r] # Nothing /\ job'[r].id = job[r].id
  PROVE  RequestFacts(c)'
<1> SUFFICES ASSUME Pending(c)' PROVE RequestFacts(c)'
  BY DEF RequestFacts
<1>1. Pending(c)
  BY DEF Pending
<1> DEFINE r == request[c].run  held == request[c].held
<1>2. Names(r, held) => Names(r, held)'
  BY <1>1 DEF Names
<1>3. QED
  BY <1>1, <1>2 DEF RequestFacts, Pending

\* The site's own steps.
LEMMA SiteSameJobs ==
  ASSUME SiteTypeOK, NEW r \in SiteRuns, JobWrites(r) \/ JobEnds(r)
  PROVE  SameJobs /\ job' \in [SiteRuns -> Job \cup {Nothing}]
<1>1. job \in [SiteRuns -> Job \cup {Nothing}] /\ job[r] # Nothing /\ job[r] \in Job
  BY DEF SiteTypeOK, JobWrites, JobEnds, JobRuns
<1>2. CASE JobWrites(r)
  <2> DEFINE new == [job[r] EXCEPT !.wrote = @ + 1]
  <2>1. /\ new \in Job /\ new.wrapper = job[r].wrapper /\ new.id = job[r].id
        /\ new.writes = job[r].writes /\ new.wrote = job[r].wrote + 1
    BY <1>1 DEF Job
  <2>2. job' = [job EXCEPT ![r] = new] /\ job[r].wrote < Len(job[r].writes)
    BY <1>1, <1>2 DEF JobWrites
  <2>3. new # Nothing
    BY <2>1, NoFileAssumption
  <2> HIDE DEF new
  <2>4. QED
    BY <1>1, <2>1, <2>2, <2>3 DEF SameJobs
<1>3. CASE JobEnds(r)
  <2> DEFINE new == [job[r] EXCEPT !.phase = "exited"]
  <2>1. /\ new \in Job /\ new.wrapper = job[r].wrapper /\ new.id = job[r].id
        /\ new.writes = job[r].writes /\ new.wrote = job[r].wrote
    BY <1>1 DEF Job
  <2>2. job' = [job EXCEPT ![r] = new]
    BY <1>1, <1>3 DEF JobEnds
  <2>3. new # Nothing
    BY <2>1, NoFileAssumption
  <2> HIDE DEF new
  <2>4. QED
    BY <1>1, <2>1, <2>2, <2>3 DEF SameJobs
<1>4. QED
  BY <1>2, <1>3

\* A cancel stops jobs and renames none.
LEMMA StoppedSameJobs ==
  ASSUME SiteTypeOK, NEW c \in SiteCmds, job' = Stopped(c)
  PROVE  SameJobs /\ job' \in [SiteRuns -> Job \cup {Nothing}]
<1>1. job \in [SiteRuns -> Job \cup {Nothing}]
  BY DEF SiteTypeOK
<1>2. ASSUME NEW s \in SiteRuns
      PROVE  /\ job'[s] \in Job \cup {Nothing}
             /\ (job'[s] = Nothing) = (job[s] = Nothing)
             /\ job[s] # Nothing =>
                  /\ job'[s].wrapper = job[s].wrapper /\ job'[s].id = job[s].id
                  /\ job'[s].writes = job[s].writes /\ job'[s].wrote = job[s].wrote
  <2>1. CASE s \in Target(c) /\ JobRuns(s)
    <3> DEFINE new == [job[s] EXCEPT !.phase = "cancelled"]
    <3>1. job[s] \in Job /\ job[s] # Nothing
      BY <1>1, <2>1 DEF JobRuns
    <3>2. /\ new \in Job /\ new.wrapper = job[s].wrapper /\ new.id = job[s].id
          /\ new.writes = job[s].writes /\ new.wrote = job[s].wrote
      BY <3>1 DEF Job
    <3>3. job'[s] = new
      BY <2>1 DEF Stopped
    <3>4. new # Nothing
      BY <3>2, NoFileAssumption
    <3> HIDE DEF new
    <3>5. QED
      BY <3>1, <3>2, <3>3, <3>4
  <2>2. CASE ~(s \in Target(c) /\ JobRuns(s))
    BY <1>1, <2>2 DEF Stopped
  <2>3. QED
    BY <2>1, <2>2
<1>3. SameJobs
  BY <1>2 DEF SameJobs
<1>4. job' \in [SiteRuns -> Job \cup {Nothing}]
  BY <1>2 DEF Stopped
<1>5. QED
  BY <1>3, <1>4

\* A run of which nothing but the progress of its job changes keeps its facts.
LEMMA RunStays ==
  ASSUME SiteTypeOK, NEW r \in SiteRuns, JobFacts(r), ManifestFacts(r),
         SameJobs, UNCHANGED << manifest[r] >>,
         \/ UNCHANGED submit[r]
         \/ /\ submit'[r].pc = submit[r].pc /\ submit'[r].wrapper = submit[r].wrapper
            /\ submit'[r].op = submit[r].op /\ submit'[r].got = submit[r].got
            /\ submit'[r].lone => submit[r].lone
  PROVE  JobFacts(r)' /\ ManifestFacts(r)'
<1>1. /\ submit'[r].pc = submit[r].pc /\ submit'[r].wrapper = submit[r].wrapper
      /\ submit'[r].op = submit[r].op /\ submit'[r].got = submit[r].got
      /\ submit'[r].lone => submit[r].lone
  OBVIOUS
<1>2. /\ (job'[r] = Nothing) = (job[r] = Nothing)
      /\ job[r] # Nothing =>
           /\ job'[r].wrapper = job[r].wrapper /\ job'[r].id = job[r].id
           /\ job'[r].writes = job[r].writes
           /\ job[r].wrote <= Len(job[r].writes) => job'[r].wrote <= Len(job'[r].writes)
  <2>1. job[r] # Nothing => job[r].wrote \in Nat /\ Len(job[r].writes) \in Nat
    BY DEF SiteTypeOK, Job
  <2>2. QED
    BY <2>1 DEF SameJobs
<1>3. JobFacts(r)'
  BY <1>1, <1>2 DEF JobFacts
<1>4. ManifestFacts(r)'
  BY <1>1, <1>2 DEF ManifestFacts, Names, Started, At
<1>5. QED
  BY <1>3, <1>4

\* The start of a run tells no request of it anything new.
LEMMA StartKeepsRequests ==
  ASSUME SiteInv, NEW r \in SiteRuns, UNCHANGED request,
         \A s \in SiteRuns : s # r => /\ submit'[s] = submit[s] /\ manifest'[s] = manifest[s]
                                      /\ job'[s] = job[s],
         manifest[r] # Nothing => manifest'[r] # Nothing /\ submit'[r].wrapper = submit[r].wrapper,
         submit'[r].lone = submit[r].lone,
         Started(r) => Started(r)',
         job[r] # Nothing => job'[r] # Nothing /\ job'[r].id = job[r].id,
         NEW c \in SiteCmds
  PROVE  RequestFacts(c)'
<1>1. ASSUME Pending(c), NEW q \in SiteRuns, q = request[c].run
      PROVE  /\ manifest'[q] # Nothing
             /\ submit'[q].wrapper = submit[q].wrapper
             /\ submit'[q].lone => submit[q].lone
             /\ Started(q) => Started(q)'
             /\ job[q] # Nothing => job'[q] # Nothing /\ job'[q].id = job[q].id
  <2>1. manifest[q] # Nothing
    BY <1>1 DEF SiteInv, RequestFacts
  <2>2. CASE q = r
    BY <2>1, <2>2
  <2>3. CASE q # r
    BY <2>1, <2>3 DEF Started, At
  <2>4. QED
    BY <2>2, <2>3
<1>2. Pending(c) => request[c].run \in SiteRuns
  BY DEF SiteInv, RequestFacts
<1>3. RequestFacts(c)
  BY DEF SiteInv
<1>4. QED
  BY <1>1, <1>2, <1>3, RequestStays

\* What a step of a submission has to leave.
LEMMA SubmitFrame ==
  ASSUME SiteInv, NEW r \in SiteRuns,
         UNCHANGED << settings, request, fetched, inventory >>,
         submit' \in [SiteRuns -> Submission],
         manifest' \in [SiteRuns -> SiteManifest \cup {Nothing}],
         job' \in [SiteRuns -> Job \cup {Nothing}],
         \A s \in SiteRuns : s # r => /\ submit'[s] = submit[s] /\ manifest'[s] = manifest[s]
                                      /\ job'[s] = job[s],
         Numbered', JobFacts(r)', ManifestFacts(r)',
         manifest[r] # Nothing => manifest'[r] # Nothing /\ submit'[r].wrapper = submit[r].wrapper,
         submit'[r].lone = submit[r].lone,
         Started(r) => Started(r)',
         job[r] # Nothing => job'[r] # Nothing /\ job'[r].id = job[r].id
  PROVE  SiteInv'
<1>1. SiteTypeOK'
  BY DEF SiteInv, SiteTypeOK
<1>2. ASSUME NEW s \in SiteRuns PROVE JobFacts(s)' /\ ManifestFacts(s)'
  <2>1. CASE s # r
    <3>1. JobFacts(s) /\ ManifestFacts(s)
      BY DEF SiteInv
    <3>2. submit'[s] = submit[s] /\ manifest'[s] = manifest[s] /\ job'[s] = job[s]
      BY <2>1
    <3>3. JobFacts(s)'
      BY <3>1, <3>2 DEF JobFacts
    <3>4. ManifestFacts(s)'
      BY <3>1, <3>2 DEF ManifestFacts, Names, Started, At
    <3>5. QED
      BY <3>3, <3>4
  <2>2. QED
    BY <2>1
<1>3. \A c \in SiteCmds : RequestFacts(c)'
  BY StartKeepsRequests
<1>4. QED
  BY <1>1, <1>2, <1>3 DEF SiteInv

\* Planning.
LEMMA PlanKeepsSite ==
  ASSUME SiteInv, NEW r \in SiteRuns, NEW op \in Wanted, SitePlan(r, op)
  PROVE  SiteInv'
<1>0. SiteTypeOK /\ JobFacts(r) /\ ManifestFacts(r) /\ Numbered
  BY DEF SiteInv
<1>1. /\ submit' \in [SiteRuns -> Submission]
      /\ UNCHANGED << settings, manifest, job, request, fetched, inventory >>
      /\ \A s \in SiteRuns : s # r => submit'[s] = submit[s]
      /\ submit'[r].lone = submit[r].lone
      /\ \/ submit'[r].pc = "refused"
         \/ submit'[r].pc = "planned" /\ submit'[r].wrapper \in Wrappers /\ submit'[r].op = op
      /\ submit[r].pc = "none"
  BY <1>0, SitePlanType DEF SitePlan, SubmitOnly, At
<1>2. manifest[r] = Nothing /\ job[r] = Nothing /\ ~Started(r)
  BY <1>0, <1>1 DEF JobFacts, ManifestFacts, Started, At
<1>3. JobFacts(r)' /\ ManifestFacts(r)'
  BY <1>1, <1>2 DEF JobFacts, ManifestFacts, Names, Started, At
<1>4. Numbered'
  BY <1>0, <1>1 DEF Numbered, JobsAt
<1>5. QED
  BY <1>0, <1>1, <1>2, <1>3, <1>4, SubmitFrame DEF SiteTypeOK

\* The first manifest.
LEMMA ListKeepsSite ==
  ASSUME SiteInv, NEW r \in SiteRuns, SiteList(r)
  PROVE  SiteInv'
<1>0. SiteTypeOK /\ JobFacts(r) /\ ManifestFacts(r) /\ Numbered /\ submit[r] \in Submission
  BY DEF SiteInv, SiteTypeOK
<1>1. /\ submit' \in [SiteRuns -> Submission]
      /\ UNCHANGED << settings, job, request, fetched, inventory >>
      /\ submit'[r] = [submit[r] EXCEPT !.pc = "listed"]
      /\ \A s \in SiteRuns : s # r => submit'[s] = submit[s]
      /\ submit[r].pc = "planned"
  BY <1>0, GoesType DEF SiteList, At
<1>2. submit[r].wrapper \in Wrappers /\ submit[r].op \in Wanted /\ job[r] = Nothing
  BY <1>0, <1>1 DEF JobFacts
<1> DEFINE m == [wrapper |-> submit[r].wrapper, id |-> Nothing, cancelled |-> FALSE]
<1>3. m \in SiteManifest /\ m.wrapper = submit[r].wrapper /\ m.id = Nothing
  BY <1>2 DEF SiteManifest
<1>4. manifest' = [manifest EXCEPT ![r] = m]
  BY DEF SiteList
<1> HIDE DEF m
<1>5. /\ manifest' \in [SiteRuns -> SiteManifest \cup {Nothing}]
      /\ manifest'[r] = m /\ m # Nothing
      /\ \A s \in SiteRuns : s # r => manifest'[s] = manifest[s]
  BY <1>0, <1>3, <1>4, ManifestType
<1>6. /\ submit'[r].pc = "listed" /\ submit'[r].wrapper = submit[r].wrapper
      /\ submit'[r].lone = submit[r].lone /\ submit'[r].op = submit[r].op
  BY <1>0, <1>1 DEF Submission
<1>7. JobFacts(r)'
  BY <1>1, <1>2, <1>6 DEF JobFacts
<1>8. ManifestFacts(r)'
  BY <1>3, <1>5, <1>6 DEF ManifestFacts, Names, Started, At
<1>9. Numbered'
  BY <1>0, <1>1 DEF Numbered, JobsAt
<1>10. ~Started(r)
  BY <1>1 DEF Started, At
<1>11. QED
  BY <1>0, <1>1, <1>2, <1>5, <1>6, <1>7, <1>8, <1>9, <1>10, SubmitFrame DEF SiteTypeOK

\* A job that is accepted, whether the wrapper then says so or not.
LEMMA AcceptKeepsSite ==
  ASSUME SiteInv, NEW r \in SiteRuns, submit[r].pc = "listed", SiteAccepts(r),
         UNCHANGED << settings, manifest, request, fetched, inventory >>,
         submit' \in [SiteRuns -> Submission],
         \A s \in SiteRuns : s # r => submit'[s] = submit[s],
         submit'[r].wrapper = submit[r].wrapper, submit'[r].lone = submit[r].lone,
         submit'[r].op = submit[r].op,
         \/ submit'[r].pc = "accepted" /\ submit'[r].got = NextId(r, submit[r].wrapper)
         \/ submit'[r].pc = "failed"
  PROVE  SiteInv'
<1>0. SiteTypeOK /\ JobFacts(r) /\ ManifestFacts(r) /\ Numbered
  BY DEF SiteInv
<1>1. submit[r].wrapper \in Wrappers /\ submit[r].op \in Wanted /\ job[r] = Nothing
  BY <1>0 DEF JobFacts
<1>2. NextId(r, submit[r].wrapper) \in JobIds
  BY <1>0, <1>1, NextIdType
<1>3. /\ job' \in [SiteRuns -> Job \cup {Nothing}]
      /\ \A s \in SiteRuns : s # r => job'[s] = job[s]
      /\ job'[r] # Nothing
      /\ job'[r].wrapper = submit[r].wrapper
      /\ job'[r].id = NextId(r, submit[r].wrapper)
      /\ job'[r].writes \in {Writes(submit[r].op), << >>}
      /\ job'[r].wrote = 0
  BY <1>0, <1>1, <1>2, AcceptsType
<1>4. Numbered'
  BY AcceptedNumbered
<1>5. job'[r].wrapper \notin Printing => job'[r].id = r
  BY <1>3 DEF NextId
<1>6. Len(job'[r].writes) \in Nat
  BY <1>3 DEF Job
<1>7. JobFacts(r)'
  <2>1. submit'[r].pc \in {"accepted", "failed"}
    OBVIOUS
  <2>2. job'[r].wrote <= Len(job'[r].writes)
    BY <1>3, <1>6
  <2>3. QED
    BY <1>1, <1>3, <1>5, <2>1, <2>2 DEF JobFacts
<1>8. manifest[r] # Nothing /\ manifest[r].id = Nothing /\ manifest[r].wrapper = submit[r].wrapper
  BY <1>0, <1>1 DEF ManifestFacts, Names
<1>9. ManifestFacts(r)'
  BY <1>8 DEF ManifestFacts, Names, Started, At
<1>10. ~Started(r)
  BY DEF Started, At
<1>11. manifest' \in [SiteRuns -> SiteManifest \cup {Nothing}]
  BY <1>0 DEF SiteTypeOK
<1>12. QED
  BY <1>1, <1>3, <1>4, <1>7, <1>8, <1>9, <1>10, <1>11, SubmitFrame

\* A submission keeps the site's invariant.
LEMMA SubmitKeepsSite ==
  ASSUME SiteInv, NEW r \in SiteRuns, SiteSubmit(r)
  PROVE  SiteInv'
<1>0. SiteTypeOK /\ JobFacts(r) /\ Numbered
      /\ submit[r] \in Submission /\ submit \in [SiteRuns -> Submission]
  BY DEF SiteInv, SiteTypeOK
<1> DEFINE new == [submit[r] EXCEPT !.pc = "accepted", !.got = NextId(r, submit[r].wrapper)]
<1>1. submit[r].pc = "listed"
  BY DEF SiteSubmit, At
<1>2. submit[r].wrapper \in Wrappers
  BY <1>0, <1>1 DEF JobFacts
<1>3. NextId(r, submit[r].wrapper) \in JobIds
  BY <1>0, <1>2, NextIdType
<1>4. /\ new \in Submission /\ new.pc = "accepted" /\ new.got = NextId(r, submit[r].wrapper)
      /\ new.wrapper = submit[r].wrapper /\ new.lone = submit[r].lone /\ new.op = submit[r].op
  BY <1>0, <1>3 DEF Submission
<1>5. submit' = [submit EXCEPT ![r] = new]
  BY <1>0 DEF SiteSubmit
<1> HIDE DEF new
<1>6. submit' \in [SiteRuns -> Submission] /\ submit'[r] = new
      /\ \A s \in SiteRuns : s # r => submit'[s] = submit[s]
  BY <1>0, <1>4, <1>5
<1>7. SiteAccepts(r) /\ UNCHANGED << settings, manifest, request, fetched, inventory >>
  BY DEF SiteSubmit
<1>8. QED
  BY <1>1, <1>4, <1>6, <1>7, AcceptKeepsSite

\* A start that fails or is killed, leaving what the site made of it.
LEMMA FailKeepsSite ==
  ASSUME SiteInv, NEW r \in SiteRuns, SubmitFails(r) \/ SubmitDies(r)
  PROVE  SiteInv'
<1>0. /\ SiteTypeOK /\ JobFacts(r) /\ ManifestFacts(r) /\ Numbered
      /\ submit[r] \in Submission /\ submit \in [SiteRuns -> Submission]
  BY DEF SiteInv, SiteTypeOK
<1>1. /\ submit' \in [SiteRuns -> Submission]
      /\ submit'[r] = [submit[r] EXCEPT !.pc = "failed"]
      /\ \A s \in SiteRuns : s # r => submit'[s] = submit[s]
      /\ submit[r].pc \in {"planned", "listed", "accepted"}
      /\ UNCHANGED << settings, manifest, request, fetched, inventory >>
  BY <1>0, GoesType DEF SubmitFails, SubmitDies, At, SubmitOnly
<1>2. /\ submit'[r].pc = "failed" /\ submit'[r].wrapper = submit[r].wrapper
      /\ submit'[r].lone = submit[r].lone /\ submit'[r].op = submit[r].op
  BY <1>0, <1>1 DEF Submission
<1>3. CASE SubmitFails(r) /\ SiteAccepts(r)
  <2>1. submit[r].pc = "listed"
    BY <1>3 DEF SubmitFails, At
  <2>2. QED
    BY <1>1, <1>2, <1>3, <2>1, AcceptKeepsSite
<1>4. CASE UNCHANGED job
  <2>1. JobFacts(r)'
    BY <1>0, <1>1, <1>2, <1>4 DEF JobFacts
  <2>2. ManifestFacts(r)'
    BY <1>0, <1>1, <1>2, <1>4 DEF ManifestFacts, Names, Started, At
  <2>3. Numbered'
    BY <1>0, <1>4 DEF Numbered, JobsAt
  <2>4. ~Started(r)
    BY <1>1 DEF Started, At
  <2>5. QED
    BY <1>0, <1>1, <1>2, <1>4, <2>1, <2>2, <2>3, <2>4, SubmitFrame DEF SiteTypeOK
<1>5. QED
  BY <1>3, <1>4 DEF SubmitFails, SubmitDies, SubmitOnly

\* The second manifest names the job that was accepted.
LEMMA RecordKeepsSite ==
  ASSUME SiteInv, NEW r \in SiteRuns, SiteRecord(r)
  PROVE  SiteInv'
<1>0. SiteTypeOK /\ JobFacts(r) /\ ManifestFacts(r) /\ Numbered /\ submit[r] \in Submission
  BY DEF SiteInv, SiteTypeOK
<1>1. /\ submit' \in [SiteRuns -> Submission]
      /\ UNCHANGED << settings, job, request, fetched, inventory >>
      /\ submit'[r] = [submit[r] EXCEPT !.pc = "recorded"]
      /\ \A s \in SiteRuns : s # r => submit'[s] = submit[s]
      /\ submit[r].pc = "accepted"
  BY <1>0, GoesType DEF SiteRecord, At
<1>2. /\ submit[r].wrapper \in Wrappers /\ submit[r].op \in Wanted
      /\ job[r] # Nothing /\ submit[r].got = job[r].id
  BY <1>0, <1>1 DEF JobFacts
<1>3. submit[r].got \in JobIds
  BY <1>0, <1>2 DEF SiteTypeOK, Job
<1> DEFINE m == [wrapper |-> submit[r].wrapper, id |-> submit[r].got, cancelled |-> FALSE]
<1>4. m \in SiteManifest /\ m.wrapper = submit[r].wrapper /\ m.id = job[r].id
  BY <1>2, <1>3 DEF SiteManifest
<1>5. manifest' = [manifest EXCEPT ![r] = m]
  BY DEF SiteRecord
<1> HIDE DEF m
<1>6. /\ manifest' \in [SiteRuns -> SiteManifest \cup {Nothing}]
      /\ manifest'[r] = m /\ m # Nothing
      /\ \A s \in SiteRuns : s # r => manifest'[s] = manifest[s]
  BY <1>0, <1>4, <1>5, ManifestType
<1>7. /\ submit'[r].pc = "recorded" /\ submit'[r].wrapper = submit[r].wrapper
      /\ submit'[r].lone = submit[r].lone /\ submit'[r].op = submit[r].op
  BY <1>0, <1>1 DEF Submission
<1>8. JobFacts(r)'
  BY <1>0, <1>1, <1>2, <1>7 DEF JobFacts
<1>9. job[r].id # Nothing
  BY <1>2, <1>3, NoNumberAssumption, SiteAssumption DEF JobIds
<1>10. ManifestFacts(r)'
  BY <1>1, <1>2, <1>4, <1>6, <1>7, <1>9 DEF ManifestFacts, Names
<1>11. Numbered'
  BY <1>0, <1>1 DEF Numbered, JobsAt
<1>12. ~Started(r)
  BY <1>1 DEF Started, At
<1>13. QED
  BY <1>0, <1>1, <1>2, <1>6, <1>7, <1>8, <1>10, <1>11, <1>12, SubmitFrame DEF SiteTypeOK

\* What a request may become: it ends, or goes on knowing what it knew.
GoesOn(c) ==
  \/ request'[c] = request[c]
  \/ request'[c].pc = "ended"
  \/ /\ Pending(c)
     /\ request'[c].pc \in {"asked", "sent"}
     /\ request'[c].run = request[c].run /\ request'[c].held = request[c].held
     /\ request'[c].wrapper = request[c].wrapper /\ request'[c].id = request[c].id
     /\ request'[c].sure = request[c].sure /\ request'[c].kind = request[c].kind
     /\ request'[c].pc = "sent" => request[c].kind = "cancel"

\* So does a step that only goes on.
LEMMA GoesOnKeeps ==
  ASSUME NEW c \in SiteCmds, RequestFacts(c), SameJobs, GoesOn(c), UNCHANGED submit,
         \A r \in SiteRuns : manifest[r] # Nothing => manifest'[r] # Nothing
  PROVE  RequestFacts(c)'
<1> SUFFICES ASSUME Pending(c)' PROVE RequestFacts(c)'
  BY DEF RequestFacts
<1>1. /\ Pending(c)
      /\ request'[c].run = request[c].run /\ request'[c].held = request[c].held
      /\ request'[c].wrapper = request[c].wrapper /\ request'[c].id = request[c].id
      /\ request'[c].sure = request[c].sure /\ request'[c].kind = request[c].kind
      /\ request'[c].pc = "sent" => request[c].kind = "cancel"
  BY DEF GoesOn, Pending, RequestFacts
<1> DEFINE r == request[c].run  held == request[c].held
<1>2. /\ r \in SiteRuns /\ manifest[r] # Nothing /\ held # Nothing
      /\ Names(r, held)
      /\ request[c].wrapper = submit[r].wrapper
      /\ request[c].id = IF held.id # Nothing THEN held.id ELSE r
      /\ request[c].sure => held.id # Nothing
      /\ request[c].kind = "cancel" /\ submit[r].lone => Started(r) /\ held.id # Nothing
  BY <1>1 DEF RequestFacts
<1>3. Names(r, held)'
  BY <1>1, <1>2 DEF Names, SameJobs
<1>4. manifest'[r] # Nothing
  BY <1>2
<1>5. \A q \in SiteRuns : Started(q) => Started(q)'
  BY DEF Started, At
<1> HIDE DEF held, r
<1>6. RequestFacts(c)'
  BY <1>1, <1>2, <1>3, <1>4, <1>5 DEF RequestFacts, Pending, r, held
<1>7. QED
  BY <1>6

\* What a step after the start has to leave, when it writes no manifest.
LEMMA LaterFrame ==
  ASSUME SiteInv, UNCHANGED << submit, manifest >>,
         SameJobs, job' \in [SiteRuns -> Job \cup {Nothing}],
         settings' \in Settings, request' \in [SiteCmds -> Request],
         fetched' \in [SiteRuns -> Fetched],
         inventory' \in [SiteRuns -> Inventory \cup {Nothing}],
         \A c \in SiteCmds : GoesOn(c)
  PROVE  SiteInv'
<1>0. SiteTypeOK
  BY DEF SiteInv
<1>1. SiteTypeOK'
  BY <1>0 DEF SiteTypeOK
<1>2. ASSUME NEW r \in SiteRuns PROVE JobFacts(r)' /\ ManifestFacts(r)'
  BY <1>0, RunStays DEF SiteInv
<1>3. Numbered'
  BY NumberedStays DEF SiteInv
<1>4. ASSUME NEW c \in SiteCmds PROVE RequestFacts(c)'
  BY GoesOnKeeps DEF SiteInv
<1>5. QED
  BY <1>1, <1>2, <1>3, <1>4 DEF SiteInv

LEMMA IdleJobs == ASSUME UNCHANGED job PROVE SameJobs
  BY DEF SameJobs

\* So do the jobs.
LEMMA JobKeepsSite ==
  ASSUME SiteInv, NEW r \in SiteRuns, JobWrites(r) \/ JobEnds(r)
  PROVE  SiteInv'
<1>1. SiteTypeOK
  BY DEF SiteInv
<1>2. SameJobs /\ job' \in [SiteRuns -> Job \cup {Nothing}]
  BY <1>1, SiteSameJobs
<1>3. UNCHANGED << settings, submit, manifest, request, fetched, inventory >>
  BY DEF JobWrites, JobEnds
<1>4. QED
  BY <1>1, <1>2, <1>3, LaterFrame DEF SiteTypeOK, GoesOn

\* And what touches none of it.
LEMMA IdleKeepsSite ==
  ASSUME SiteInv, Reconfigure \/ UNCHANGED siteVars
  PROVE  SiteInv'
<1>1. SiteTypeOK
  BY DEF SiteInv
<1>2. /\ UNCHANGED << submit, manifest, job, request, fetched, inventory >>
      /\ settings' \in Settings
  BY <1>1, SiteAssumption DEF Reconfigure, siteVars, SiteTypeOK
<1>3. QED
  BY <1>1, <1>2, IdleJobs, LaterFrame DEF SiteTypeOK, GoesOn

\* Status, and the site's half of a cancel.
LEMMA AnswerKeepsSite ==
  ASSUME SiteInv, NEW c \in SiteCmds, StatusAnswered(c) \/ CancelForwarded(c)
  PROVE  SiteInv'
<1>1. SiteTypeOK /\ request[c] \in Request /\ request \in [SiteCmds -> Request]
  BY DEF SiteInv, SiteTypeOK
<1>2. SameJobs /\ job' \in [SiteRuns -> Job \cup {Nothing}]
  BY <1>1, IdleJobs, StoppedSameJobs DEF StatusAnswered, CancelForwarded, SiteTypeOK
<1>3. UNCHANGED << settings, submit, manifest, fetched, inventory >>
  BY DEF StatusAnswered, CancelForwarded
<1>4. request' \in [SiteCmds -> Request] /\ \A d \in SiteCmds : GoesOn(d)
  <2>1. CASE RequestEnds(c)
    BY <1>1, <2>1, EndsType DEF GoesOn
  <2>2. CASE CancelForwarded(c) /\ request' = [request EXCEPT ![c].pc = "sent"]
    <3> DEFINE new == [request[c] EXCEPT !.pc = "sent"]
    <3>1. /\ new \in Request /\ new.pc = "sent"
          /\ new.run = request[c].run /\ new.held = request[c].held
          /\ new.wrapper = request[c].wrapper /\ new.id = request[c].id
          /\ new.sure = request[c].sure /\ new.kind = request[c].kind
      BY <1>1 DEF Request
    <3>2. request' = [request EXCEPT ![c] = new]
      BY <1>1, <2>2
    <3> HIDE DEF new
    <3>3. request' \in [SiteCmds -> Request] /\ request'[c] = new
          /\ \A d \in SiteCmds : d # c => request'[d] = request[d]
      BY <1>1, <3>1, <3>2
    <3>4. Pending(c) /\ request[c].kind = "cancel"
      BY <2>2 DEF CancelForwarded, Asked, Pending
    <3>5. GoesOn(c)
      BY <3>1, <3>3, <3>4 DEF GoesOn
    <3>6. QED
      BY <3>3, <3>5 DEF GoesOn
  <2>3. QED
    BY <2>1, <2>2 DEF StatusAnswered, CancelForwarded
<1>5. QED
  BY <1>1, <1>2, <1>3, <1>4, LaterFrame DEF SiteTypeOK

\* The manifest is loaded.
LEMMA AskKeepsSite ==
  ASSUME SiteInv, NEW c \in SiteCmds, NEW kind \in {"status", "cancel", "fetch"},
         NEW r \in SiteRuns, Ask(c, kind, r)
  PROVE  SiteInv'
<1>0. /\ SiteTypeOK /\ JobFacts(r) /\ ManifestFacts(r)
      /\ submit \in [SiteRuns -> Submission] /\ submit[r] \in Submission
      /\ request \in [SiteCmds -> Request]
      /\ manifest[r] # Nothing /\ manifest[r] \in SiteManifest
      /\ UNCHANGED << settings, manifest, job, fetched, inventory >>
  BY DEF SiteInv, SiteTypeOK, Ask
<1> DEFINE others == {d \in SiteCmds \ {c} : kind = "fetch" /\ Copying(d, r)}
           asked == [NoRequest EXCEPT !.pc = "asked", !.kind = kind, !.run = r,
                       !.held = manifest[r], !.wrapper = ManagedBy(r), !.id = SiteId(r),
                       !.alone = others = {}, !.sure = Started(r) /\ submit[r].lone]
<1>1. /\ asked \in Request /\ asked.pc = "asked" /\ asked.kind = kind /\ asked.run = r
      /\ asked.held = manifest[r] /\ asked.wrapper = manifest[r].wrapper
      /\ asked.id = SiteId(r) /\ asked.sure = (Started(r) /\ submit[r].lone)
  <2>1. SiteId(r) \in JobIds
    BY <1>0 DEF SiteId, SiteManifest, JobIds
  <2>2. ManagedBy(r) \in Wrappers /\ ManagedBy(r) = manifest[r].wrapper
    BY <1>0 DEF ManagedBy, SiteManifest
  <2>3. (Started(r) /\ submit[r].lone) \in BOOLEAN /\ (others = {}) \in BOOLEAN
    BY DEF Started, At
  <2> HIDE DEF others
  <2>4. NoRequest \in Request
    BY EmptyTypes
  <2>5. QED
    BY <1>0, <2>1, <2>2, <2>3, <2>4 DEF NoRequest, Request
<1>2. request' = [d \in SiteCmds |->
         IF d = c THEN asked
         ELSE IF d \in others THEN [request[d] EXCEPT !.alone = FALSE] ELSE request[d]]
  BY DEF Ask
<1>3. submit' = [submit EXCEPT ![r].lone = @ /\ (kind = "cancel" => Started(r))]
  BY DEF Ask
<1>4. PICK a \in Request : a = asked
  BY <1>1
<1>5. PICK ds \in SUBSET SiteCmds : ds = others
  OBVIOUS
<1>6. /\ a.pc = "asked" /\ a.kind = kind /\ a.run = r
      /\ a.held = manifest[r] /\ a.wrapper = manifest[r].wrapper
      /\ a.id = SiteId(r) /\ a.sure = (Started(r) /\ submit[r].lone)
      /\ request' = [d \in SiteCmds |->
           IF d = c THEN a
           ELSE IF d \in ds THEN [request[d] EXCEPT !.alone = FALSE] ELSE request[d]]
  BY <1>1, <1>2, <1>4, <1>5
<1> HIDE DEF asked, others
<1>7. PICK b \in BOOLEAN : b = (submit[r].lone /\ (kind = "cancel" => Started(r)))
  BY <1>0 DEF Submission, Started, At
<1>8. /\ submit' \in [SiteRuns -> Submission]
      /\ \A s \in SiteRuns : s # r => submit'[s] = submit[s]
      /\ submit'[r].pc = submit[r].pc /\ submit'[r].wrapper = submit[r].wrapper
      /\ submit'[r].op = submit[r].op /\ submit'[r].got = submit[r].got
      /\ submit'[r].lone = b
  <2> DEFINE new == [submit[r] EXCEPT !.lone = b]
  <2>1. /\ new \in Submission /\ new.pc = submit[r].pc /\ new.wrapper = submit[r].wrapper
        /\ new.op = submit[r].op /\ new.got = submit[r].got /\ new.lone = b
    BY <1>0, <1>7 DEF Submission
  <2>2. submit' = [submit EXCEPT ![r] = new]
    BY <1>0, <1>3, <1>7
  <2> HIDE DEF new
  <2>3. QED
    BY <1>0, <2>1, <2>2
<1>9. SameJobs
  BY <1>0, IdleJobs
<1>10. ASSUME NEW s \in SiteRuns
       PROVE  /\ JobFacts(s)' /\ ManifestFacts(s)'
              /\ submit'[s].wrapper = submit[s].wrapper /\ submit'[s].pc = submit[s].pc
              /\ submit'[s].lone => submit[s].lone
  <2>1. /\ submit'[s].pc = submit[s].pc /\ submit'[s].wrapper = submit[s].wrapper
        /\ submit'[s].op = submit[s].op /\ submit'[s].got = submit[s].got
        /\ submit'[s].lone => submit[s].lone
    BY <1>7, <1>8
  <2>2. JobFacts(s) /\ ManifestFacts(s)
    BY DEF SiteInv
  <2>3. QED
    BY <1>0, <1>9, <2>1, <2>2, RunStays
<1>11. ASSUME NEW d \in SiteCmds, d # c
       PROVE  /\ request'[d] \in Request
              /\ request'[d].pc = request[d].pc /\ request'[d].run = request[d].run
              /\ request'[d].held = request[d].held /\ request'[d].wrapper = request[d].wrapper
              /\ request'[d].id = request[d].id /\ request'[d].sure = request[d].sure
              /\ request'[d].kind = request[d].kind
  BY <1>0, <1>6, <1>11 DEF Request
<1>12. request' \in [SiteCmds -> Request] /\ request'[c] = a
  BY <1>0, <1>6, <1>11
<1>13. RequestFacts(c)'
  <2>1. Names(r, manifest[r])'
    BY <1>0, <1>10 DEF ManifestFacts
  <2>2. a.id = IF manifest[r].id # Nothing THEN manifest[r].id ELSE r
    BY <1>6 DEF SiteId
  <2>3. manifest[r].wrapper = submit[r].wrapper
    BY <1>0 DEF ManifestFacts, Names
  <2>4. a.sure => manifest[r].id # Nothing
    BY <1>0, <1>6 DEF ManifestFacts
  <2>5. kind = "cancel" /\ submit'[r].lone => Started(r) /\ manifest[r].id # Nothing
    BY <1>0, <1>7, <1>8 DEF ManifestFacts
  <2>6. Started(r) => Started(r)'
    BY <1>10 DEF Started, At
  <2>7. Names(r, a.held)'
    BY <1>0, <1>6, <2>1
  <2>8. QED
    BY <1>0, <1>6, <1>8, <1>12, <2>2, <2>3, <2>4, <2>5, <2>6, <2>7 DEF RequestFacts, Pending
<1>14. ASSUME NEW d \in SiteCmds, d # c PROVE RequestFacts(d)'
  <2> SUFFICES ASSUME Pending(d)' PROVE RequestFacts(d)'
    BY DEF RequestFacts
  <2>1. Pending(d) /\ RequestFacts(d)
    BY <1>11, <1>14 DEF Pending, SiteInv
  <2>2. PICK q \in SiteRuns : q = request[d].run
    BY <2>1 DEF RequestFacts
  <2>3. PICK m \in SiteManifest : m = request[d].held
    BY <1>0, <2>1 DEF RequestFacts, Request
  <2>4. /\ manifest[q] # Nothing /\ m # Nothing /\ Names(q, m)
        /\ request[d].wrapper = submit[q].wrapper
        /\ request[d].id = IF m.id # Nothing THEN m.id ELSE q
        /\ request[d].sure => m.id # Nothing
        /\ request[d].kind = "cancel" /\ submit[q].lone => Started(q) /\ m.id # Nothing
        /\ request[d].pc = "sent" => request[d].kind = "cancel"
    BY <2>1, <2>2, <2>3 DEF RequestFacts
  <2>5. submit'[q].wrapper = submit[q].wrapper /\ (submit'[q].lone => submit[q].lone)
        /\ (Started(q) => Started(q)')
    BY <1>10 DEF Started, At
  <2>6. Names(q, m)'
    BY <1>0, <2>4, <2>5 DEF Names
  <2>7. request'[d].run = q /\ request'[d].held = m /\ request'[d].wrapper = request[d].wrapper
        /\ request'[d].id = request[d].id /\ request'[d].sure = request[d].sure
        /\ request'[d].kind = request[d].kind /\ request'[d].pc = request[d].pc
    BY <1>11, <1>14, <2>2, <2>3
  <2>8. QED
    BY <1>0, <2>4, <2>5, <2>6, <2>7 DEF RequestFacts
<1>15. SiteTypeOK'
  BY <1>0, <1>8, <1>12 DEF SiteTypeOK
<1>16. Numbered'
  BY <1>9, NumberedStays DEF SiteInv
<1>17. QED
  BY <1>10, <1>13, <1>14, <1>15, <1>16 DEF SiteInv

\* The manifest goes back as it was loaded: it still names the run's own job.
LEMMA CancelRecordedKeepsSite ==
  ASSUME SiteInv, NEW c \in SiteCmds, CancelRecorded(c)
  PROVE  SiteInv'
<1>0. SiteTypeOK /\ RequestFacts(c) /\ Pending(c)
      /\ UNCHANGED << settings, submit, job, fetched, inventory >>
  BY DEF SiteInv, CancelRecorded, Pending
<1>1. PICK r \in SiteRuns : r = request[c].run
  BY <1>0 DEF RequestFacts
<1>2. request[c].held \in SiteManifest /\ Names(r, request[c].held)
      /\ (submit[r].lone => request[c].held.id # Nothing)
      /\ manifest[r] # Nothing
  BY <1>0, <1>1 DEF RequestFacts, SiteTypeOK, Request, CancelRecorded
<1>3. PICK m \in SiteManifest : m = [request[c].held EXCEPT !.cancelled = TRUE]
  BY <1>2 DEF SiteManifest
<1>4. m.wrapper = request[c].held.wrapper /\ m.id = request[c].held.id
  BY <1>2, <1>3 DEF SiteManifest
<1>5. manifest' = [manifest EXCEPT ![r] = m]
  BY <1>1, <1>3 DEF CancelRecorded
<1>6. /\ manifest' \in [SiteRuns -> SiteManifest \cup {Nothing}]
      /\ manifest'[r] = m /\ m # Nothing
      /\ \A s \in SiteRuns : s # r => manifest'[s] = manifest[s]
  BY <1>0, <1>3, <1>5, ManifestType
<1>7. SameJobs
  BY <1>0, IdleJobs
<1>8. ASSUME NEW s \in SiteRuns PROVE JobFacts(s)' /\ ManifestFacts(s)'
  <2>1. JobFacts(s) /\ ManifestFacts(s)
    BY DEF SiteInv
  <2>2. CASE s # r
    <3>1. manifest'[s] = manifest[s]
      BY <1>6, <2>2
    <3>2. QED
      BY <1>0, <1>7, <2>1, <3>1, RunStays
  <2>3. CASE s = r
    <3>1. JobFacts(s)'
      BY <1>0, <2>1 DEF JobFacts
    <3>2. manifest'[s] = m /\ m # Nothing /\ Names(s, m)
      BY <1>2, <1>4, <1>6, <2>3 DEF Names
    <3>3. Names(s, m)'
      BY <1>0, <3>2 DEF Names
    <3>4. submit[s].lone => m.id # Nothing
      BY <1>2, <1>4, <2>3
    <3>5. submit[s].pc \notin {"none", "refused", "planned"}
      BY <1>2, <2>1, <2>3 DEF ManifestFacts
    <3>6. Names(s, manifest[s])'
      BY <3>2, <3>3
    <3>7. ManifestFacts(s)'
      BY <1>0, <3>2, <3>4, <3>5, <3>6 DEF ManifestFacts, Started, At
    <3>8. QED
      BY <3>1, <3>7
  <2>4. QED
    BY <2>2, <2>3
<1>9. /\ request' \in [SiteCmds -> Request]
      /\ request'[c].pc = "ended"
      /\ \A d \in SiteCmds : d # c => request'[d] = request[d]
  BY <1>0, EndsType DEF CancelRecorded
<1>10. ASSUME NEW d \in SiteCmds PROVE RequestFacts(d)'
  <2>1. GoesOn(d)
    BY <1>9 DEF GoesOn
  <2>2. \A s \in SiteRuns : manifest[s] # Nothing => manifest'[s] # Nothing
    BY <1>6
  <2>3. QED
    BY <1>0, <1>7, <2>1, <2>2, GoesOnKeeps DEF SiteInv
<1>11. SiteTypeOK'
  BY <1>0, <1>6, <1>9 DEF SiteTypeOK
<1>12. Numbered'
  BY <1>7, NumberedStays DEF SiteInv
<1>13. QED
  BY <1>8, <1>10, <1>11, <1>12 DEF SiteInv

\* A command reaches no other run's job, and with the job's name its own.
LEMMA TargetIsOwn ==
  ASSUME SiteInv, NEW c \in SiteCmds, Pending(c), NEW r \in SiteRuns, r = request[c].run
  PROVE  /\ Target(c) \subseteq {r}
         /\ request[c].held.id # Nothing => Target(c) = {r}
<1>1. /\ SiteTypeOK /\ Numbered /\ JobFacts(r)
      /\ manifest[r] # Nothing /\ Names(r, request[c].held)
      /\ request[c].wrapper = submit[r].wrapper
      /\ request[c].id = IF request[c].held.id # Nothing THEN request[c].held.id ELSE r
  BY DEF SiteInv, RequestFacts
<1>2. ASSUME NEW s \in Target(c)
      PROVE  s \in SiteRuns /\ job[s] # Nothing /\ job[s].wrapper = submit[r].wrapper
             /\ job[s].id = request[c].id
  BY <1>1 DEF Target, Known, JobsAt
<1>3. CASE request[c].held.id # Nothing
  <2>1. /\ job[r] # Nothing /\ request[c].id = job[r].id
        /\ job[r].wrapper = submit[r].wrapper
    BY <1>1, <1>3 DEF Names, JobFacts
  <2>2. r \in Target(c)
    BY <1>1, <2>1 DEF Target, Known, JobsAt
  <2>3. \A s \in Target(c) : s = r
    BY <1>1, <1>2, <2>1 DEF Numbered
  <2>4. QED
    BY <2>2, <2>3
<1>4. CASE request[c].held.id = Nothing
  <2>1. request[c].id = r
    BY <1>1, <1>4
  <2>2. ASSUME NEW s \in Target(c) PROVE s = r
    <3>1. /\ s \in SiteRuns /\ job[s] # Nothing /\ job[s].id = r /\ JobFacts(s)
          /\ s \in JobsAt(job[s].wrapper)
      BY <1>2, <2>1, <2>2 DEF SiteInv, JobsAt
    <3>2. job[s].wrapper \in Printing => job[s].id \in Nat
      <4>1. ASSUME NEW w \in Printing, w = job[s].wrapper PROVE job[s].id \in Nat
        <5>1. job[s].id \in 1 .. Cardinality(JobsAt(w))
          BY <1>1, <3>1, <4>1 DEF Numbered
        <5>2. w \in Wrappers
          BY SiteAssumption
        <5>3. Cardinality(JobsAt(w)) \in Nat
          BY <1>1, <5>2, FS_CardinalityType DEF Numbered
        <5>4. QED
          BY <5>1, <5>3
      <4>2. QED
        BY <4>1
    <3>3. r \notin Nat
      BY NoNumberAssumption
    <3>4. QED
      BY <3>1, <3>2, <3>3 DEF JobFacts
  <2>3. QED
    BY <1>4, <2>2
<1>5. QED
  BY <1>3, <1>4

\* What a fetch copies is a file of the run's own job.
LEMMA RemoteType ==
  ASSUME SiteInv, NEW c \in SiteCmds, Pending(c), NEW r \in Target(c), NEW f \in JobFiles(r)
  PROVE  /\ r \in SiteRuns /\ r = request[c].run
         /\ job[r] # Nothing /\ submit[r].op \in Wanted
         /\ f \in FileNames /\ RemoteFile(r, f) \in FetchedFile \cup {Nothing}
<1>1. request[c].run \in SiteRuns
  BY DEF SiteInv, RequestFacts
<1>2. r = request[c].run
  BY <1>1, TargetIsOwn
<1>3. r \in SiteRuns /\ job[r] # Nothing
  BY DEF Target, Known, JobsAt
<1>4. job[r].writes \in Seq(FileNames)
  BY <1>3 DEF SiteInv, SiteTypeOK, Job
<1>5. f \in FileNames
  BY <1>4 DEF JobFiles
<1>6. submit[r].op \in Wanted
  BY <1>3 DEF SiteInv, JobFacts
<1>7. Finished(r, f) \in BOOLEAN
  BY DEF Finished
<1>8. RemoteFile(r, f) \in FetchedFile \cup {Nothing}
  BY <1>3, <1>7 DEF RemoteFile, FetchedFile
<1>9. QED
  BY <1>2, <1>3, <1>5, <1>6, <1>8

\* A file is copied.
LEMMA CopiesKeepsSite ==
  ASSUME SiteInv, NEW c \in SiteCmds, FetchCopies(c)
  PROVE  SiteInv'
<1>0. /\ SiteTypeOK /\ Pending(c) /\ request[c] \in Request /\ request \in [SiteCmds -> Request]
      /\ request[c].pc = "asked"
      /\ UNCHANGED << settings, submit, manifest, job, inventory >>
  BY DEF SiteInv, SiteTypeOK, FetchCopies, Asked, Pending
<1>a. PICK r \in Target(c) : \E f \in JobFiles(r) \ request[c].copied :
        /\ request' = [request EXCEPT ![c].copied = @ \cup {f}]
        /\ fetched' = [fetched EXCEPT ![request[c].run][<<submit[r].op, f>>] =
             IF RemoteFile(r, f) # Nothing THEN RemoteFile(r, f) ELSE @]
  BY DEF FetchCopies
<1>1. PICK f \in JobFiles(r) \ request[c].copied :
        /\ request' = [request EXCEPT ![c].copied = @ \cup {f}]
        /\ fetched' = [fetched EXCEPT ![request[c].run][<<submit[r].op, f>>] =
             IF RemoteFile(r, f) # Nothing THEN RemoteFile(r, f) ELSE @]
  BY <1>a
<1>2. /\ r \in SiteRuns /\ r = request[c].run
      /\ submit[r].op \in Wanted
      /\ f \in FileNames /\ RemoteFile(r, f) \in FetchedFile \cup {Nothing}
  BY <1>0, <1>1, RemoteType
<1>3. fetched[r][<<submit[r].op, f>>] \in FetchedFile \cup {Nothing}
  BY <1>0, <1>2 DEF SiteTypeOK, Fetched
<1>4. PICK x \in FetchedFile \cup {Nothing} :
        x = IF RemoteFile(r, f) # Nothing THEN RemoteFile(r, f) ELSE fetched[r][<<submit[r].op, f>>]
  BY <1>2, <1>3
<1>5. PICK op \in Wanted : op = submit[r].op
  BY <1>2
<1>6. fetched' = [fetched EXCEPT ![r][<<op, f>>] = x]
  BY <1>1, <1>2, <1>4, <1>5
<1>7. fetched' \in [SiteRuns -> Fetched]
  BY <1>0, <1>2, <1>6, FetchedType
<1> DEFINE new == [request[c] EXCEPT !.copied = @ \cup {f}]
<1>8. /\ new \in Request /\ new.pc = "asked"
      /\ new.run = request[c].run /\ new.held = request[c].held
      /\ new.wrapper = request[c].wrapper /\ new.id = request[c].id
      /\ new.sure = request[c].sure /\ new.kind = request[c].kind
  BY <1>0, <1>2 DEF Request
<1>9. request' = [request EXCEPT ![c] = new]
  BY <1>0, <1>1
<1> HIDE DEF new
<1>10. request' \in [SiteCmds -> Request] /\ request'[c] = new
       /\ \A d \in SiteCmds : d # c => request'[d] = request[d]
  BY <1>0, <1>8, <1>9
<1>11. \A d \in SiteCmds : GoesOn(d)
  BY <1>0, <1>8, <1>10 DEF GoesOn
<1>12. QED
  BY <1>0, <1>7, <1>10, <1>11, IdleJobs, LaterFrame DEF SiteTypeOK

\* The inventory is written, or would be if the command lived.
LEMMA InventoriesKeepsSite ==
  ASSUME SiteInv, NEW c \in SiteCmds, FetchInventories(c)
  PROVE  SiteInv'
<1>0. /\ SiteTypeOK /\ RequestFacts(c) /\ Pending(c) /\ request[c] \in Request
      /\ RequestEnds(c)
      /\ UNCHANGED << settings, submit, manifest, job, fetched >>
  BY DEF SiteInv, SiteTypeOK, FetchInventories, Asked, Pending
<1>1. PICK r \in SiteRuns : r = request[c].run
  BY <1>0 DEF RequestFacts
<1> DEFINE dir == fetched[r]
           new == [complete |-> ArtifactsComplete(submit[r].op, dir), files |-> dir,
                   alone |-> request[c].alone, reached |-> Target(c) # {}]
<1>2. inventory' = inventory \/ inventory' = [inventory EXCEPT ![r] = new]
  BY <1>1 DEF FetchInventories
<1>3. new \in Inventory
  <2>1. ArtifactsComplete(submit[r].op, dir) \in BOOLEAN
    BY DEF ArtifactsComplete, DirComplete, Passing
  <2>2. dir \in Fetched /\ request[c].alone \in BOOLEAN
    BY <1>0 DEF SiteTypeOK, Request
  <2> HIDE DEF dir
  <2>3. QED
    BY <2>1, <2>2 DEF Inventory
<1> HIDE DEF new
<1>4. inventory' \in [SiteRuns -> Inventory \cup {Nothing}]
  BY <1>0, <1>2, <1>3 DEF SiteTypeOK
<1>5. request' \in [SiteCmds -> Request] /\ \A d \in SiteCmds : GoesOn(d)
  BY <1>0, EndsType DEF GoesOn
<1>6. QED
  BY <1>0, <1>4, <1>5, IdleJobs, LaterFrame DEF SiteTypeOK

\* The wrapper fails, having done part of what it was asked.
LEMMA WrapperFailsKeepsSite ==
  ASSUME SiteInv, NEW c \in SiteCmds, WrapperFails(c)
  PROVE  SiteInv'
<1>0. /\ SiteTypeOK /\ Pending(c) /\ RequestEnds(c)
      /\ UNCHANGED << settings, submit, manifest, inventory >>
  BY DEF SiteInv, WrapperFails, Pending
<1>1. SameJobs /\ job' \in [SiteRuns -> Job \cup {Nothing}]
  BY <1>0, IdleJobs, StoppedSameJobs DEF WrapperFails, SiteTypeOK
<1>2. fetched' \in [SiteRuns -> Fetched]
  <2>1. CASE UNCHANGED fetched
    BY <1>0, <2>1 DEF SiteTypeOK
  <2>2. CASE ~UNCHANGED fetched
    <3>a. PICK r \in Target(c) : \E f \in JobFiles(r) \ request[c].copied :
            /\ RemoteFile(r, f) # Nothing
            /\ fetched' = [fetched EXCEPT ![request[c].run][<<submit[r].op, f>>] =
                 [RemoteFile(r, f) EXCEPT !.whole = FALSE]]
      BY <2>2 DEF WrapperFails
    <3>1. PICK f \in JobFiles(r) \ request[c].copied :
            /\ RemoteFile(r, f) # Nothing
            /\ fetched' = [fetched EXCEPT ![request[c].run][<<submit[r].op, f>>] =
                 [RemoteFile(r, f) EXCEPT !.whole = FALSE]]
      BY <3>a
    <3>2. /\ r \in SiteRuns /\ r = request[c].run
          /\ f \in FileNames /\ RemoteFile(r, f) \in FetchedFile
      BY <1>0, <3>1, RemoteType
    <3>3. PICK op \in Wanted : op = submit[r].op
      BY <1>0, <3>1, RemoteType
    <3>4. PICK x \in FetchedFile : x = [RemoteFile(r, f) EXCEPT !.whole = FALSE]
      BY <3>2 DEF FetchedFile
    <3>5. fetched' = [fetched EXCEPT ![r][<<op, f>>] = x]
      BY <3>1, <3>2, <3>3, <3>4
    <3>6. QED
      BY <1>0, <3>2, <3>5, FetchedType
  <2>3. QED
    BY <2>1, <2>2
<1>3. request' \in [SiteCmds -> Request] /\ \A d \in SiteCmds : GoesOn(d)
  BY <1>0, EndsType DEF GoesOn
<1>4. QED
  BY <1>0, <1>1, <1>2, <1>3, LaterFrame DEF SiteTypeOK

\* And the death of a command.
LEMMA DiesKeepsSite ==
  ASSUME SiteInv, NEW c \in SiteCmds, RequestDies(c)
  PROVE  SiteInv'
<1>0. /\ SiteTypeOK /\ request[c] \in Request /\ request \in [SiteCmds -> Request]
      /\ UNCHANGED << settings, submit, manifest, job, fetched, inventory >>
  BY DEF SiteInv, SiteTypeOK, RequestDies
<1>1. request' \in [SiteCmds -> Request] /\ \A d \in SiteCmds : GoesOn(d)
  <2>1. CASE RequestEnds(c)
    BY <1>0, <2>1, EndsType DEF GoesOn
  <2>2. CASE request[c].pc # "sent" /\ request' = [request EXCEPT ![c].alive = FALSE]
    <3>0. request[c].pc = "asked" /\ Pending(c)
      BY <2>2 DEF RequestDies, Pending
    <3> DEFINE new == [request[c] EXCEPT !.alive = FALSE]
    <3>1. /\ new \in Request /\ new.pc = "asked"
          /\ new.run = request[c].run /\ new.held = request[c].held
          /\ new.wrapper = request[c].wrapper /\ new.id = request[c].id
          /\ new.sure = request[c].sure /\ new.kind = request[c].kind
      BY <1>0, <3>0 DEF Request
    <3>2. request' = [request EXCEPT ![c] = new]
      BY <1>0, <2>2
    <3> HIDE DEF new
    <3>3. request' \in [SiteCmds -> Request] /\ request'[c] = new
          /\ \A d \in SiteCmds : d # c => request'[d] = request[d]
      BY <1>0, <3>1, <3>2
    <3>4. QED
      BY <3>0, <3>1, <3>3 DEF GoesOn
  <2>3. QED
    BY <2>1, <2>2 DEF RequestDies
<1>2. QED
  BY <1>0, <1>1, IdleJobs, LaterFrame DEF SiteTypeOK

\* Every step keeps the invariant.
LEMMA SiteStep == ASSUME SiteInv, [SiteNext]_siteVars PROVE SiteInv'
<1>1. ASSUME NEW r \in SiteRuns, SubmitStep(r) PROVE SiteInv'
  BY <1>1, PlanKeepsSite, ListKeepsSite, SubmitKeepsSite, FailKeepsSite, RecordKeepsSite
     DEF SubmitStep
<1>2. ASSUME NEW c \in SiteCmds, RequestStep(c) PROVE SiteInv'
  BY <1>2, AskKeepsSite, AnswerKeepsSite, CancelRecordedKeepsSite, CopiesKeepsSite,
     InventoriesKeepsSite, WrapperFailsKeepsSite, DiesKeepsSite DEF RequestStep
<1>3. QED
  BY <1>1, <1>2, JobKeepsSite, IdleKeepsSite DEF SiteNext

\* And it holds at the start.
LEMMA SiteStart == ASSUME SiteInit PROVE SiteInv
<1>1. SiteTypeOK
  BY EmptyTypes, SiteAssumption DEF SiteInit, SiteTypeOK
<1>2. \A r \in SiteRuns : JobFacts(r) /\ ManifestFacts(r)
  BY DEF SiteInit, JobFacts, ManifestFacts, NoSubmit, Started, At
<1>3. ASSUME NEW w PROVE JobsAt(w) = {}
  BY DEF SiteInit, JobsAt
<1>4. IsFiniteSet({})
  BY FS_EmptySet
<1>5. Numbered
  BY <1>3, <1>4 DEF Numbered, SiteInit
<1>6. \A c \in SiteCmds : RequestFacts(c)
  BY DEF SiteInit, RequestFacts, Pending, NoRequest
<1>7. QED
  BY <1>1, <1>2, <1>5, <1>6 DEF SiteInv

\* The site adapter's state has its type (SiteWrapperAdapter): submissions, requests,
\* jobs and fetched directories of the right form.
THEOREM SiteTypeCorrect == SiteSpec => []SiteTypeOK
<1>1. SiteInv => SiteTypeOK
  BY DEF SiteInv
<1>2. QED
  BY <1>1, SiteStart, SiteStep, PTL DEF SiteSpec

\* Every request about a run reaches the job the site started for that run and no
\* other, however its cancels, its kills and the configuration interleave.
THEOREM OwnJobOnly == SiteSpec => []AsksItsOwnJob
<1>1. ASSUME SiteInv PROVE AsksItsOwnJob
  <2> SUFFICES ASSUME NEW c \in SiteCmds, request[c].pc = "asked"
               PROVE  /\ Target(c) \subseteq {request[c].run}
                      /\ request[c].sure => Target(c) = {request[c].run}
    BY DEF AsksItsOwnJob
  <2>1. Pending(c) /\ request[c].run \in SiteRuns
        /\ (request[c].sure => request[c].held.id # Nothing)
    BY <1>1 DEF Pending, SiteInv, RequestFacts
  <2>2. QED
    BY <1>1, <2>1, TargetIsOwn
<1>2. QED
  BY <1>1, SiteStart, SiteStep, PTL DEF SiteSpec

-----------------------------------------------------------------------------
(* What a fetch brings back. *)

\* A file in the directory of a run was copied from its job; it says "passed" only when
\* the job had finished it, and what is not there from the start is there finished.
FileFacts(r) ==
  \A op \in Wanted, f \in FileNames :
    LET x == fetched[r][<<op, f>>]
    IN  x # Nothing =>
          /\ op = submit[r].op /\ job[r] # Nothing
          /\ x.run = r /\ f \in JobFiles(r)
          /\ x.passed => Finished(r, f)
          /\ f \notin Growing \cup {"summary"} => x.passed

\* What a lone fetch has copied nobody tears.
LoneFacts(c) ==
  Asked(c, "fetch") /\ request[c].alone =>
    /\ \A d \in SiteCmds \ {c} : ~Copying(d, request[c].run)
    /\ \A op \in Wanted, f \in request[c].copied \ Growing :
         LET x == fetched[request[c].run][<<op, f>>] IN x # Nothing => x.whole

WholeJob(r, files, op) ==
  /\ job[r].wrote = Len(job[r].writes)
  /\ \A f \in JobFiles(r) \ Growing :
       Passing(files[<<op, f>>]) /\ files[<<op, f>>].run = r

TrustFacts(r) == Trusted(r) => job[r] # Nothing /\ WholeJob(r, inventory[r].files, submit[r].op)

FetchInv ==
  /\ SiteInv
  /\ \A r \in SiteRuns : FileFacts(r) /\ TrustFacts(r)
  /\ \A c \in SiteCmds : LoneFacts(c)

\* A job that there is stays, and goes on writing what it writes.
Onward ==
  \A s \in SiteRuns : job[s] # Nothing =>
    /\ job'[s] # Nothing
    /\ submit'[s].op = submit[s].op
    /\ job'[s].writes = job[s].writes
    /\ job'[s].wrote = job[s].wrote
         \/ (job'[s].wrote = job[s].wrote + 1 /\ job[s].wrote < Len(job[s].writes))

\* The start writes its submission, and a job where there was none.
LEMMA SubmitOnward ==
  ASSUME SiteInv, NEW r \in SiteRuns, SubmitStep(r)
  PROVE  Onward /\ UNCHANGED << request, fetched, inventory >>
<1>0. /\ SiteTypeOK /\ JobFacts(r)
      /\ submit[r] \in Submission /\ submit \in [SiteRuns -> Submission]
  BY DEF SiteInv, SiteTypeOK
<1>1. ASSUME NEW op \in Wanted, SitePlan(r, op)
      PROVE  Onward /\ UNCHANGED << request, fetched, inventory >>
  <2>1. job[r] = Nothing /\ UNCHANGED << job, request, fetched, inventory >>
    BY <1>0, <1>1 DEF SitePlan, At, JobFacts, SubmitOnly
  <2>2. \A s \in SiteRuns : s # r => submit'[s] = submit[s]
    BY <1>0, <1>1, SitePlanType
  <2>3. QED
    BY <2>1, <2>2 DEF Onward
<1>2. ASSUME NEW pc \in {"listed", "recorded", "failed"}, Goes(r, pc), UNCHANGED job
      PROVE  Onward
  <2>1. submit'[r] = [submit[r] EXCEPT !.pc = pc] /\ \A s \in SiteRuns : s # r => submit'[s] = submit[s]
    BY <1>0, <1>2, GoesType
  <2>2. \A s \in SiteRuns : submit'[s].op = submit[s].op
    BY <1>0, <2>1 DEF Submission
  <2>3. QED
    BY <1>2, <2>2 DEF Onward
<1>3. CASE SiteList(r) \/ SiteRecord(r) \/ SubmitDies(r)
  BY <1>2, <1>3 DEF SiteList, SiteRecord, SubmitDies, SubmitOnly
<1>4. CASE SiteSubmit(r) \/ SubmitFails(r)
  <2>1. /\ UNCHANGED << request, fetched, inventory >>
        /\ job[r] = Nothing /\ \A s \in SiteRuns : s # r => submit'[s] = submit[s]
    BY <1>0, <1>4 DEF SiteSubmit, SubmitFails, At, JobFacts, Goes
  <2>2. \A s \in SiteRuns : s # r => job'[s] = job[s]
    <3>1. job \in [SiteRuns -> Job \cup {Nothing}]
      BY <1>0 DEF SiteTypeOK
    <3>2. QED
      BY <1>4, <3>1 DEF SiteSubmit, SubmitFails, SiteAccepts
  <2>3. QED
    BY <2>1, <2>2 DEF Onward
<1>5. QED
  BY <1>1, <1>3, <1>4 DEF SubmitStep

\* A job only moves on.
LEMMA LaterOnward ==
  ASSUME SameJobs, \A s \in SiteRuns : submit'[s].op = submit[s].op PROVE Onward
  BY DEF SameJobs, Onward

\* What is finished stays so.
LEMMA FinishedStays ==
  ASSUME SiteInv, Onward, NEW r \in SiteRuns, job[r] # Nothing
  PROVE  /\ JobFiles(r)' = JobFiles(r)
         /\ \A f \in FileNames : Finished(r, f) => Finished(r, f)'
<1>1. job[r].wrote \in Nat /\ job[r].writes \in Seq(FileNames)
  BY DEF SiteInv, SiteTypeOK, Job
<1>2. job'[r].writes = job[r].writes
      /\ (job'[r].wrote = job[r].wrote \/ job'[r].wrote = job[r].wrote + 1)
  BY DEF Onward
<1>3. 1 .. job[r].wrote \subseteq 1 .. job'[r].wrote
  BY <1>1, <1>2
<1>4. JobFiles(r)' = JobFiles(r)
  BY <1>2 DEF JobFiles
<1>5. QED
  BY <1>2, <1>3, <1>4 DEF Finished

\* A file of a finished job stays what it is.
LEMMA FileStays ==
  ASSUME SiteInv, Onward, NEW r \in SiteRuns, FileFacts(r), UNCHANGED fetched[r]
  PROVE  FileFacts(r)'
<1> SUFFICES ASSUME NEW op \in Wanted, NEW f \in FileNames, NEW x, x = fetched[r][<<op, f>>],
                    x # Nothing
             PROVE  /\ op = submit'[r].op /\ job'[r] # Nothing
                    /\ x.run = r /\ f \in JobFiles(r)'
                    /\ x.passed => Finished(r, f)'
                    /\ f \notin Growing \cup {"summary"} => x.passed
  BY DEF FileFacts
<1>1. /\ op = submit[r].op /\ job[r] # Nothing
      /\ x.run = r /\ f \in JobFiles(r)
      /\ x.passed => Finished(r, f)
      /\ f \notin Growing \cup {"summary"} => x.passed
  BY DEF FileFacts
<1>2. JobFiles(r)' = JobFiles(r) /\ (Finished(r, f) => Finished(r, f)')
  BY <1>1, FinishedStays
<1>3. job'[r] # Nothing /\ submit'[r].op = submit[r].op
  BY <1>1 DEF Onward
<1>4. QED
  BY <1>1, <1>2, <1>3

\* What a fetch trusts stays to be trusted.
LEMMA TrustStays ==
  ASSUME SiteInv, Onward, NEW r \in SiteRuns, TrustFacts(r), UNCHANGED inventory[r]
  PROVE  TrustFacts(r)'
<1> SUFFICES ASSUME Trusted(r)'
             PROVE  job'[r] # Nothing /\ WholeJob(r, inventory[r].files, submit[r].op)'
  BY DEF TrustFacts
<1>1. Trusted(r)
  BY DEF Trusted
<1>2. job[r] # Nothing /\ WholeJob(r, inventory[r].files, submit[r].op)
  BY <1>1 DEF TrustFacts
<1>3. job[r].wrote \in Nat /\ Len(job[r].writes) \in Nat
  BY <1>2 DEF SiteInv, SiteTypeOK, Job
<1>4. /\ job'[r] # Nothing /\ submit'[r].op = submit[r].op
      /\ job'[r].writes = job[r].writes /\ job'[r].wrote = Len(job'[r].writes)
  BY <1>2, <1>3 DEF Onward, WholeJob
<1>5. JobFiles(r)' = JobFiles(r)
  BY <1>2, FinishedStays
<1>6. QED
  BY <1>2, <1>4, <1>5 DEF WholeJob

\* A lone fetch of which nothing changes, and beside which nobody begins to copy.
LEMMA LoneStays ==
  ASSUME NEW c \in SiteCmds, LoneFacts(c),
         Asked(c, "fetch")' /\ request'[c].alone =>
           /\ Asked(c, "fetch") /\ request[c].alone
           /\ request'[c].run = request[c].run /\ request'[c].copied = request[c].copied
           /\ \A d \in SiteCmds \ {c} :
                Copying(d, request[c].run)' => Copying(d, request[c].run)
           /\ fetched'[request[c].run] = fetched[request[c].run]
  PROVE  LoneFacts(c)'
<1> SUFFICES ASSUME Asked(c, "fetch")', request'[c].alone PROVE LoneFacts(c)'
  BY DEF LoneFacts
<1>1. PICK r : r = request[c].run
  OBVIOUS
<1>2. /\ Asked(c, "fetch") /\ request[c].alone /\ request'[c].run = r
      /\ request'[c].copied = request[c].copied
      /\ \A d \in SiteCmds \ {c} : Copying(d, r)' => Copying(d, r)
      /\ fetched'[r] = fetched[r]
  BY <1>1 DEF Copying
<1>3. /\ \A d \in SiteCmds \ {c} : ~Copying(d, r)
      /\ \A op \in Wanted, f \in request[c].copied \ Growing :
           fetched[r][<<op, f>>] # Nothing => fetched[r][<<op, f>>].whole
  BY <1>1, <1>2 DEF LoneFacts
<1>4. /\ \A d \in SiteCmds \ {c} : ~Copying(d, request[c].run)'
      /\ \A op \in Wanted, f \in request'[c].copied \ Growing :
           fetched'[request'[c].run][<<op, f>>] # Nothing => fetched'[request'[c].run][<<op, f>>].whole
  BY <1>2, <1>3 DEF Copying
<1>5. QED
  BY <1>4 DEF LoneFacts, Copying

\* A fetch that is not one that begins or copies.
Still(c) ==
  Asked(c, "fetch")' =>
    /\ Asked(c, "fetch") /\ request'[c].run = request[c].run
    /\ request'[c].copied = request[c].copied /\ request'[c].alone = request[c].alone

\* A fetch stays alone in a step that copies nothing beside it.
LEMMA StillLone ==
  ASSUME FetchInv, \A c \in SiteCmds : Still(c), NEW c \in SiteCmds,
         Asked(c, "fetch") => fetched'[request[c].run] = fetched[request[c].run]
  PROVE  LoneFacts(c)'
<1>1. LoneFacts(c) /\ Still(c)
  BY DEF FetchInv
<1>2. ASSUME Asked(c, "fetch")', request'[c].alone, NEW d \in SiteCmds \ {c},
             Copying(d, request[c].run)'
      PROVE  Copying(d, request[c].run)
  <2>1. Still(d) /\ Asked(d, "fetch")'
    BY <1>2 DEF Copying, Asked
  <2>2. QED
    BY <1>1, <1>2, <2>1 DEF Still, Copying, Asked
<1>3. QED
  BY <1>1, <1>2, LoneStays DEF Still

\* A step beside a fetch keeps what it has.
LEMMA StillKeeps ==
  ASSUME FetchInv, SiteInv', Onward, UNCHANGED << fetched, inventory >>,
         \A c \in SiteCmds : Still(c)
  PROVE  FetchInv'
<1>1. ASSUME NEW r \in SiteRuns PROVE FileFacts(r)' /\ TrustFacts(r)'
  BY FileStays, TrustStays DEF FetchInv
<1>2. ASSUME NEW c \in SiteCmds PROVE LoneFacts(c)'
  BY StillLone
<1>3. QED
  BY <1>1, <1>2 DEF FetchInv

\* What the site has to give of a file.
LEMMA RemoteFacts ==
  ASSUME NEW r \in SiteRuns, NEW f, NEW x, x = RemoteFile(r, f)
  PROVE  /\ x # Nothing =>
              /\ x.run = r /\ x.passed = Finished(r, f) /\ x.whole \in BOOLEAN
              /\ x \in FetchedFile
              /\ f \notin Growing \cup {"summary"} => x.passed
              /\ f \notin Growing => x.whole
         /\ x = Nothing => ~Finished(r, f) /\ f \notin Growing \cup {"summary"}
<1>1. Finished(r, f) \in BOOLEAN
  BY DEF Finished
<1>2. CASE Finished(r, f) \/ f = "summary" \/ f \in Growing
  <2> DEFINE new == [run |-> r, whole |-> Finished(r, f) \/ f = "summary", passed |-> Finished(r, f)]
  <2>1. x = new
    BY <1>2 DEF RemoteFile
  <2>2. new \in FetchedFile
    BY <1>1 DEF FetchedFile
  <2>3. x # Nothing
    BY <2>1, <2>2, NoFileAssumption
  <2>4. /\ new.run = r /\ new.passed = Finished(r, f)
        /\ new.whole = (Finished(r, f) \/ f = "summary")
    OBVIOUS
  <2> HIDE DEF new
  <2>5. QED
    BY <1>1, <1>2, <2>1, <2>2, <2>3, <2>4
<1>3. CASE ~(Finished(r, f) \/ f = "summary" \/ f \in Growing)
  BY <1>3 DEF RemoteFile
<1>4. QED
  BY <1>2, <1>3

\* A file of a run is replaced by what its job had to give, whole or torn.
LEMMA FileReplaced ==
  ASSUME FetchInv, UNCHANGED << submit, job >>,
         NEW r \in SiteRuns, job[r] # Nothing, NEW op \in Wanted, op = submit[r].op,
         NEW f \in FileNames, f \in JobFiles(r),
         NEW x \in FetchedFile \cup {Nothing},
         x # Nothing =>
           /\ x.run = r
           /\ x.passed => Finished(r, f)
           /\ f \notin Growing \cup {"summary"} => x.passed,
         fetched' = [fetched EXCEPT ![r][<<op, f>>] = x],
         NEW s \in SiteRuns
  PROVE  FileFacts(s)' /\ (s # r => fetched'[s] = fetched[s])
<1>a. SiteTypeOK
  BY DEF FetchInv, SiteInv
<1>0. FileFacts(s)
  BY DEF FetchInv
<1>b. fetched'[r][<<op, f>>] = x
  BY <1>a DEF SiteTypeOK, Fetched
<1>c. ASSUME NEW q \in SiteRuns, NEW o \in Wanted, NEW g \in FileNames,
             ~(q = r /\ o = op /\ g = f)
      PROVE  fetched'[q][<<o, g>>] = fetched[q][<<o, g>>]
  BY <1>a, <1>c, FetchedType
<1>1. /\ fetched'[r][<<op, f>>] = x
      /\ \A q \in SiteRuns, o \in Wanted, g \in FileNames :
           ~(q = r /\ o = op /\ g = f) => fetched'[q][<<o, g>>] = fetched[q][<<o, g>>]
  BY <1>b, <1>c
<1>2. s # r => fetched'[s] = fetched[s]
  BY <1>a DEF SiteTypeOK
<1>3. ASSUME NEW o \in Wanted, NEW g \in FileNames, NEW y, y = fetched'[s][<<o, g>>],
             y # Nothing
      PROVE  /\ o = submit[s].op /\ job[s] # Nothing
             /\ y.run = s /\ g \in JobFiles(s)
             /\ y.passed => Finished(s, g)
             /\ g \notin Growing \cup {"summary"} => y.passed
  <2>1. CASE s = r /\ o = op /\ g = f
    BY <1>1, <1>3, <2>1
  <2>2. CASE ~(s = r /\ o = op /\ g = f)
    <3>1. y = fetched[s][<<o, g>>]
      BY <1>1, <1>3, <2>2
    <3>2. QED
      BY <1>0, <1>3, <3>1 DEF FileFacts
  <2>3. QED
    BY <2>1, <2>2
<1>4. JobFiles(s)' = JobFiles(s)
  BY DEF JobFiles
<1>5. FileFacts(s)'
  <2> SUFFICES ASSUME NEW o \in Wanted, NEW g \in FileNames, NEW y, y = fetched'[s][<<o, g>>],
                      y # Nothing
               PROVE  /\ o = submit'[s].op /\ job'[s] # Nothing
                      /\ y.run = s /\ g \in JobFiles(s)'
                      /\ y.passed => Finished(s, g)'
                      /\ g \notin Growing \cup {"summary"} => y.passed
    BY DEF FileFacts
  <2>1. Finished(s, g)' <=> Finished(s, g)
    BY DEF Finished
  <2>2. QED
    BY <1>3, <1>4, <2>1
<1>6. QED
  BY <1>2, <1>5

\* What a harness writes last.
LEMMA LastIsLast ==
  ASSUME NEW op \in SiteOperations, NEW ws \in {Writes(op), << >>}, NEW n \in Nat, n <= Len(ws),
         NEW i \in 1 .. n,
         \/ op \in ReportDirs /\ ws[i] = "summary"
         \/ op \in ReportFiles /\ ws[i] = "report"
  PROVE  n = Len(ws)
<1>1. CASE ws = << >>
  BY <1>1
<1>2. CASE ws = Writes(op) /\ op = "benchmark"
  BY <1>2 DEF Writes, ReportFiles
<1>3. CASE ws = Writes(op) /\ op = "correctness-only"
  BY <1>3 DEF Writes, ReportFiles
<1>4. CASE ws = Writes(op) /\ op = "precision"
  BY <1>4 DEF Writes, ReportFiles
<1>5. CASE ws = Writes(op) /\ op \in {"preflight", "correctness"}
  BY <1>5 DEF Writes, ReportDirs
<1>6. CASE ws = Writes(op) /\ op \in {"preflight-static", "profile"}
  BY <1>6 DEF Writes
<1>7. QED
  BY <1>1, <1>2, <1>3, <1>4, <1>5, <1>6 DEF SiteOperations, ReportDirs, ReportFiles

\* What a harness writes, and what must be there for its evidence to be complete.
LEMMA WrittenNames ==
  ASSUME NEW op \in SiteOperations, NEW i \in DOMAIN Writes(op)
  PROVE  /\ op = "benchmark" => Writes(op)[i] \in {"report", "gate", "trial", "summary"}
         /\ op = "correctness-only" => Writes(op)[i] \in {"report", "gate", "summary"}
         /\ op = "precision" => Writes(op)[i] \in {"fields", "trial", "summary"}
         /\ op \in ReportFiles => Writes(op)[i] = "report"
<1>2. CASE op = "benchmark"
  BY <1>2 DEF Writes, ReportFiles
<1>3. CASE op = "correctness-only"
  BY <1>3 DEF Writes, ReportFiles
<1>4. CASE op = "precision"
  BY <1>4 DEF Writes, ReportFiles
<1>5. CASE op \in {"preflight", "correctness"}
  BY <1>5 DEF Writes, ReportFiles
<1>6. CASE op \in {"preflight-static", "profile"}
  BY <1>6 DEF Writes
<1>7. QED
  BY <1>2, <1>3, <1>4, <1>5, <1>6 DEF SiteOperations, ReportDirs, ReportFiles

\* Where a lone fetch has copied all that there is, complete evidence is the whole job.
LEMMA CompleteIsWhole ==
  ASSUME FetchInv, NEW c \in SiteCmds, Asked(c, "fetch"), request[c].alone,
         NEW r \in SiteRuns, r = request[c].run, Target(c) # {},
         \A s \in Target(c) : JobFiles(s) \subseteq request[c].copied,
         ArtifactsComplete(submit[r].op, fetched[r])
  PROVE  job[r] # Nothing /\ WholeJob(r, fetched[r], submit[r].op)
<1>1. Target(c) = {r}
  <2>1. SiteInv /\ Pending(c)
    BY DEF FetchInv, Asked, Pending
  <2>2. Target(c) \subseteq {r}
    BY <2>1, TargetIsOwn
  <2>3. QED
    BY <2>2
<1>2. job[r] # Nothing /\ JobFiles(r) \subseteq request[c].copied
  BY <1>1 DEF Target, Known, JobsAt
<1>3. PICK op \in Wanted : op = submit[r].op
  BY <1>2 DEF FetchInv, SiteInv, JobFacts
<1>4. op \in SiteOperations
  BY SiteAssumption
<1>5. PICK ws \in Seq(FileNames), n \in Nat : ws = job[r].writes /\ n = job[r].wrote
  BY <1>2 DEF FetchInv, SiteInv, SiteTypeOK, Job
<1>6. ws \in {Writes(op), << >>} /\ n <= Len(ws)
  BY <1>2, <1>3, <1>5 DEF FetchInv, SiteInv, JobFacts
<1> DEFINE files == fetched[r]
<1>7. ASSUME NEW f \in FileNames, files[<<op, f>>] # Nothing
      PROVE  /\ files[<<op, f>>].run = r
             /\ files[<<op, f>>].passed => \E i \in 1 .. n : ws[i] = f
             /\ f \notin Growing \cup {"summary"} => files[<<op, f>>].passed
             /\ f \in request[c].copied \ Growing => files[<<op, f>>].whole
  <2>1. FileFacts(r) /\ LoneFacts(c)
    BY DEF FetchInv
  <2>2. /\ files[<<op, f>>].run = r
        /\ files[<<op, f>>].passed => Finished(r, f)
        /\ f \notin Growing \cup {"summary"} => files[<<op, f>>].passed
    BY <1>7, <2>1 DEF FileFacts
  <2>3. f \in request[c].copied \ Growing => files[<<op, f>>].whole
    BY <1>7, <2>1 DEF LoneFacts
  <2>4. QED
    BY <1>5, <2>2, <2>3 DEF Finished
<1>8. ArtifactsComplete(op, files) /\ Expected(op) # {}
  BY <1>3 DEF ArtifactsComplete
<1>9. PICK last \in {"summary", "report"} :
        /\ Passing(files[<<op, last>>])
        /\ \/ op \in ReportDirs /\ last = "summary"
           \/ op \in ReportFiles /\ last = "report"
  <2>1. CASE op \in ReportDirs
    <3>1. Passing(files[<<op, "summary">>])
      BY <1>8, <2>1 DEF ArtifactsComplete, DirComplete
    <3>2. QED
      BY <2>1, <3>1
  <2>2. CASE op \notin ReportDirs
    <3>1. op \in ReportFiles /\ Passing(files[<<op, "report">>])
      BY <1>8, <2>2 DEF ArtifactsComplete, Expected
    <3>2. QED
      BY <3>1
  <2>3. QED
    BY <2>1, <2>2
<1>10. \E i \in 1 .. n : ws[i] = last
  BY <1>7, <1>9 DEF Passing, FileNames
<1>11. n = Len(ws)
  BY <1>4, <1>6, <1>9, <1>10, LastIsLast
<1>12. ws = Writes(op)
  BY <1>6, <1>10, <1>11
<1>13. ASSUME NEW f \in JobFiles(r) \ Growing PROVE files[<<op, f>>] # Nothing
  <2>1. PICK i \in DOMAIN Writes(op) : f = Writes(op)[i]
    BY <1>5, <1>12 DEF JobFiles
  <2>2. CASE op = "benchmark"
    <3>1. f \in {"report", "gate", "trial", "summary"}
      BY <1>4, <2>1, <2>2, WrittenNames
    <3>2. /\ Passing(files[<<op, "summary">>])
          /\ files[<<op, "gate">>] # Nothing /\ files[<<op, "trial">>] # Nothing
          /\ Passing(files[<<op, "gate">>])
          /\ "report" \in SidecarsOf(op, files) => files[<<op, "report">>] # Nothing
      BY <1>8, <2>2 DEF ArtifactsComplete, DirComplete, ReportDirs, SchemaRequires, HasGate
    <3>3. "report" \in SidecarsOf(op, files)
      BY <2>2, <3>2 DEF SidecarsOf
    <3>4. QED
      BY <3>1, <3>2, <3>3 DEF Passing
  <2>3. CASE op = "correctness-only"
    <3>1. f \in {"report", "gate", "summary"}
      BY <1>4, <2>1, <2>3, WrittenNames
    <3>2. /\ Passing(files[<<op, "summary">>])
          /\ files[<<op, "gate">>] # Nothing
          /\ Passing(files[<<op, "gate">>])
          /\ "report" \in SidecarsOf(op, files) => files[<<op, "report">>] # Nothing
      BY <1>8, <2>3 DEF ArtifactsComplete, DirComplete, ReportDirs, SchemaRequires, HasGate
    <3>3. "report" \in SidecarsOf(op, files)
      BY <2>3, <3>2 DEF SidecarsOf
    <3>4. QED
      BY <3>1, <3>2, <3>3 DEF Passing
  <2>4. CASE op = "precision"
    <3>1. f \in {"trial", "summary"}
      BY <1>4, <1>13, <2>1, <2>4, WrittenNames DEF Growing
    <3>2. /\ Passing(files[<<op, "summary">>])
          /\ "trial" \in SidecarsOf(op, files) => files[<<op, "trial">>] # Nothing
      BY <1>8, <2>4 DEF ArtifactsComplete, DirComplete, ReportDirs
    <3>3. "trial" \in SidecarsOf(op, files)
      BY <2>4 DEF SidecarsOf
    <3>4. QED
      BY <3>1, <3>2, <3>3 DEF Passing
  <2>5. CASE op \in ReportFiles
    <3>1. f = "report" /\ last = "report"
      BY <1>4, <1>9, <2>1, <2>5, WrittenNames DEF ReportDirs, ReportFiles
    <3>2. QED
      BY <1>9, <3>1 DEF Passing
  <2>6. QED
    BY <1>8, <2>2, <2>3, <2>4, <2>5 DEF Expected, ReportDirs
<1>14. ASSUME NEW f \in JobFiles(r) \ Growing
       PROVE  Passing(files[<<op, f>>]) /\ files[<<op, f>>].run = r
  <2>1. f \in FileNames /\ f \in request[c].copied \ Growing
    BY <1>2, <1>5 DEF JobFiles
  <2>2. files[<<op, f>>] # Nothing
    BY <1>13
  <2>3. files[<<op, f>>].whole /\ files[<<op, f>>].run = r
    BY <1>7, <2>1, <2>2
  <2>4. files[<<op, f>>].passed
    <3>1. CASE f = "summary"
      <4>1. last = "summary"
        <5>1. CASE op \in ReportFiles
          <6>1. PICK i \in DOMAIN Writes(op) : f = Writes(op)[i]
            BY <1>5, <1>12 DEF JobFiles
          <6>2. f = "report"
            BY <1>4, <5>1, <6>1, WrittenNames
          <6>3. QED
            BY <3>1, <6>2
        <5>2. QED
          BY <1>9, <5>1
      <4>2. QED
        BY <1>9, <3>1, <4>1 DEF Passing
    <3>2. CASE f # "summary"
      BY <1>7, <2>1, <2>2, <3>2
    <3>3. QED
      BY <3>1, <3>2
  <2>5. QED
    BY <2>2, <2>3, <2>4 DEF Passing
<1>15. QED
  BY <1>2, <1>3, <1>5, <1>11, <1>14 DEF WholeJob

\* A command begins.
LEMMA AskKeepsFetch ==
  ASSUME FetchInv, SiteInv', NEW c \in SiteCmds, NEW kind \in {"status", "cancel", "fetch"},
         NEW r \in SiteRuns, Ask(c, kind, r)
  PROVE  FetchInv'
<1>0. /\ submit \in [SiteRuns -> Submission] /\ request \in [SiteCmds -> Request]
      /\ UNCHANGED << job, fetched, inventory >>
  BY DEF FetchInv, SiteInv, SiteTypeOK, Ask
<1>1. Onward
  <2>1. \A s \in SiteRuns : submit'[s].op = submit[s].op
    <3>1. PICK b : submit' = [submit EXCEPT ![r] = [submit[r] EXCEPT !.lone = b]]
      BY <1>0 DEF Ask
    <3>2. [submit[r] EXCEPT !.lone = b].op = submit[r].op
      BY <1>0 DEF Submission
    <3>3. QED
      BY <1>0, <3>1, <3>2
  <2>2. QED
    BY <1>0, <2>1, IdleJobs, LaterOnward
<1>2. ASSUME NEW s \in SiteRuns PROVE FileFacts(s)' /\ TrustFacts(s)'
  BY <1>0, <1>1, FileStays, TrustStays DEF FetchInv
<1>3. PICK others \in SUBSET SiteCmds :
        others = {d \in SiteCmds \ {c} : kind = "fetch" /\ Copying(d, r)}
  OBVIOUS
<1>4. PICK asked : asked = [NoRequest EXCEPT !.pc = "asked", !.kind = kind, !.run = r,
                              !.held = manifest[r], !.wrapper = ManagedBy(r), !.id = SiteId(r),
                              !.alone = others = {}, !.sure = Started(r) /\ submit[r].lone]
  OBVIOUS
<1>5. request' = [d \in SiteCmds |->
         IF d = c THEN asked
         ELSE IF d \in others THEN [request[d] EXCEPT !.alone = FALSE] ELSE request[d]]
  BY <1>3, <1>4 DEF Ask
<1>6. /\ asked.pc = "asked" /\ asked.kind = kind /\ asked.run = r
      /\ asked.copied = {} /\ asked.alone = (others = {})
  BY <1>4 DEF NoRequest
<1>7. request'[c] = asked
  BY <1>5
<1>8. ASSUME NEW d \in SiteCmds \ {c}
      PROVE  /\ d \notin others => request'[d] = request[d]
             /\ d \in others => ~request'[d].alone
             /\ request'[d].pc = request[d].pc /\ request'[d].kind = request[d].kind
             /\ request'[d].run = request[d].run
  BY <1>0, <1>5 DEF Request
<1>9. LoneFacts(c)'
  <2>1. ASSUME Asked(c, "fetch")', request'[c].alone, NEW d \in SiteCmds \ {c}
        PROVE  ~Copying(d, r)'
    <3>1. kind = "fetch" /\ others = {}
      BY <1>6, <1>7, <2>1 DEF Asked
    <3>2. ~Copying(d, r)
      BY <1>3, <3>1
    <3>3. QED
      BY <1>8, <3>2 DEF Copying
  <2>2. request'[c].run = r /\ request'[c].copied = {}
    BY <1>6, <1>7
  <2>3. ASSUME Asked(c, "fetch")', request'[c].alone, NEW d \in SiteCmds \ {c}
        PROVE  ~Copying(d, request[c].run)'
    BY <2>1, <2>2, <2>3 DEF Copying
  <2>4. QED
    BY <2>2, <2>3 DEF LoneFacts
<1>10. ASSUME NEW d \in SiteCmds \ {c} PROVE LoneFacts(d)'
  <2>1. LoneFacts(d)
    BY DEF FetchInv
  <2>2. ASSUME Asked(d, "fetch")', request'[d].alone
        PROVE  /\ Asked(d, "fetch") /\ request[d].alone
               /\ request'[d].run = request[d].run /\ request'[d].copied = request[d].copied
               /\ \A e \in SiteCmds \ {d} :
                    Copying(e, request[d].run)' => Copying(e, request[d].run)
    <3>1. d \notin others /\ request'[d] = request[d] /\ Asked(d, "fetch")
      BY <1>8, <2>2 DEF Asked
    <3>2. ~(kind = "fetch" /\ request[d].run = r)
      BY <1>3, <3>1 DEF Copying, Asked
    <3>3. ASSUME NEW e \in SiteCmds \ {d}, Copying(e, request[d].run)'
          PROVE  Copying(e, request[d].run)
      <4>1. /\ request'[e].pc = "asked" /\ request'[e].kind = "fetch"
            /\ request'[e].run = request[d].run
        BY <3>1, <3>3 DEF Copying
      <4>2. e # c
        BY <1>6, <1>7, <3>2, <4>1
      <4>3. QED
        BY <1>8, <4>1, <4>2 DEF Copying
    <3>4. QED
      BY <2>2, <3>1, <3>3
  <2>3. QED
    BY <1>0, <2>1, <2>2, LoneStays
<1>11. QED
  BY <1>2, <1>9, <1>10 DEF FetchInv

\* A file is copied.
LEMMA CopiesKeepsFetch ==
  ASSUME FetchInv, SiteInv', NEW c \in SiteCmds, FetchCopies(c)
  PROVE  FetchInv'
<1>0. /\ SiteInv /\ SiteTypeOK /\ Pending(c) /\ request[c] \in Request
      /\ request \in [SiteCmds -> Request] /\ Asked(c, "fetch")
      /\ fetched \in [SiteRuns -> Fetched]
      /\ UNCHANGED << submit, manifest, job, inventory >>
  BY DEF FetchInv, SiteInv, SiteTypeOK, FetchCopies, Asked, Pending
<1>a. PICK r \in Target(c) : \E f \in JobFiles(r) \ request[c].copied :
        /\ request' = [request EXCEPT ![c].copied = @ \cup {f}]
        /\ fetched' = [fetched EXCEPT ![request[c].run][<<submit[r].op, f>>] =
             IF RemoteFile(r, f) # Nothing THEN RemoteFile(r, f) ELSE @]
  BY DEF FetchCopies
<1>1. PICK f \in JobFiles(r) \ request[c].copied :
        /\ request' = [request EXCEPT ![c].copied = @ \cup {f}]
        /\ fetched' = [fetched EXCEPT ![request[c].run][<<submit[r].op, f>>] =
             IF RemoteFile(r, f) # Nothing THEN RemoteFile(r, f) ELSE @]
  BY <1>a
<1>2. /\ r \in SiteRuns /\ r = request[c].run /\ job[r] # Nothing
      /\ submit[r].op \in Wanted
      /\ f \in FileNames /\ RemoteFile(r, f) \in FetchedFile \cup {Nothing}
  BY <1>0, <1>1, RemoteType
<1>3. PICK op \in Wanted : op = submit[r].op
  BY <1>2
<1>4. FileFacts(r)
  BY <1>2 DEF FetchInv
<1>5. PICK x \in FetchedFile \cup {Nothing} :
        x = IF RemoteFile(r, f) # Nothing THEN RemoteFile(r, f) ELSE fetched[r][<<op, f>>]
  BY <1>0, <1>2 DEF Fetched
<1>6. fetched' = [fetched EXCEPT ![r][<<op, f>>] = x]
  BY <1>1, <1>2, <1>3, <1>5
<1>7. x # Nothing =>
        /\ x.run = r
        /\ x.passed => Finished(r, f)
        /\ f \notin Growing \cup {"summary"} => x.passed
        /\ f \notin Growing => x.whole
  <2>1. CASE RemoteFile(r, f) # Nothing
    <3>1. x = RemoteFile(r, f)
      BY <1>5, <2>1
    <3>2. QED
      BY <1>2, <3>1, RemoteFacts
  <2>2. CASE RemoteFile(r, f) = Nothing
    <3>1. ~Finished(r, f) /\ f \notin Growing \cup {"summary"}
      BY <1>2, <2>2, RemoteFacts
    <3>2. x = fetched[r][<<op, f>>]
      BY <1>5, <2>2
    <3>3. x = Nothing
      BY <1>2, <1>4, <3>1, <3>2 DEF FileFacts
    <3>4. QED
      BY <3>3
  <2>3. QED
    BY <2>1, <2>2
<1>8. ASSUME NEW s \in SiteRuns PROVE FileFacts(s)' /\ (s # r => fetched'[s] = fetched[s])
  <2>1. UNCHANGED << submit, job >> /\ job[r] # Nothing /\ op = submit[r].op
        /\ f \in FileNames /\ f \in JobFiles(r) /\ r \in SiteRuns
    BY <1>0, <1>1, <1>2, <1>3
  <2>2. x # Nothing =>
          /\ x.run = r
          /\ x.passed => Finished(r, f)
          /\ f \notin Growing \cup {"summary"} => x.passed
    BY <1>7
  <2>3. QED
    BY <1>6, <2>1, <2>2, FileReplaced
<1>9. Onward
  BY <1>0, IdleJobs, LaterOnward
<1>10. ASSUME NEW s \in SiteRuns PROVE TrustFacts(s)'
  BY <1>0, <1>9, TrustStays DEF FetchInv
<1>11. /\ request'[c].pc = "asked" /\ request'[c].kind = "fetch" /\ request'[c].run = r
       /\ request'[c].copied = request[c].copied \cup {f}
       /\ request'[c].alone = request[c].alone
       /\ \A d \in SiteCmds \ {c} : request'[d] = request[d]
  BY <1>0, <1>1, <1>2 DEF Request, Asked
<1>12. LoneFacts(c)'
  <2> SUFFICES ASSUME request[c].alone PROVE LoneFacts(c)'
    BY <1>11 DEF LoneFacts
  <2>1. LoneFacts(c)
    BY DEF FetchInv
  <2>2. ASSUME NEW d \in SiteCmds \ {c} PROVE ~Copying(d, request[c].run)'
    BY <1>0, <1>2, <1>11, <2>1 DEF LoneFacts, Copying
  <2>3. ASSUME NEW o \in Wanted, NEW g \in request'[c].copied \ Growing,
               fetched'[r][<<o, g>>] # Nothing
        PROVE  fetched'[r][<<o, g>>].whole
    <3>0. /\ fetched'[r][<<op, f>>] = x
          /\ ~(o = op /\ g = f) => fetched'[r][<<o, g>>] = fetched[r][<<o, g>>]
      <4>1. <<op, f>> \in Wanted \X FileNames
        BY <1>2
      <4>2. PICK dir : dir = [fetched[r] EXCEPT ![<<op, f>>] = x]
        OBVIOUS
      <4>3. fetched' = [fetched EXCEPT ![r] = dir]
        BY <1>6, <4>2
      <4>4. fetched'[r] = dir /\ fetched[r] \in Fetched
        BY <1>0, <1>2, <4>3
      <4>5. dir[<<op, f>>] = x
        BY <4>1, <4>2, <4>4 DEF Fetched
      <4>6. g \in FileNames
        BY <1>0, <1>2, <1>11 DEF Request
      <4>7. <<o, g>> \in Wanted \X FileNames
        BY <4>6
      <4>8. ~(o = op /\ g = f) => dir[<<o, g>>] = fetched[r][<<o, g>>]
        BY <4>1, <4>2, <4>4, <4>7 DEF Fetched
      <4>9. QED
        BY <4>4, <4>5, <4>8
    <3>1. CASE o = op /\ g = f
      BY <1>7, <2>3, <3>0, <3>1
    <3>2. CASE g \in request[c].copied /\ ~(o = op /\ g = f)
      BY <1>0, <1>2, <2>1, <2>3, <3>0, <3>2 DEF LoneFacts
    <3>3. CASE g = f /\ o # op
      \* Of another operation there is nothing in the directory.
      <4>1. fetched[r][<<o, g>>] = Nothing
        BY <1>2, <1>3, <1>4, <3>3 DEF FileFacts
      <4>2. QED
        BY <2>3, <3>0, <3>3, <4>1
    <3>4. QED
      BY <1>11, <3>1, <3>2, <3>3
  <2>4. request'[c].run = r
    BY <1>11
  <2>5. QED
    BY <2>2, <2>3, <2>4 DEF LoneFacts
<1>13. ASSUME NEW d \in SiteCmds \ {c} PROVE LoneFacts(d)'
  <2>1. LoneFacts(d) /\ request'[d] = request[d]
    BY <1>11 DEF FetchInv
  <2>2. ASSUME Asked(d, "fetch"), request[d].alone
        PROVE  fetched'[request[d].run] = fetched[request[d].run]
    <3>1. request[d].run # r
      BY <1>0, <1>2, <2>1, <2>2 DEF LoneFacts, Copying, Asked
    <3>2. request[d].run \in SiteRuns
      BY <1>0, <2>2 DEF SiteInv, RequestFacts, Pending, Asked
    <3>3. QED
      BY <1>8, <3>1, <3>2
  <2>3. ASSUME NEW e \in SiteCmds, Copying(e, request[d].run)'
        PROVE  Copying(e, request[d].run)
    BY <1>0, <1>2, <1>11, <2>1, <2>3 DEF Copying, Asked
  <2>4. Asked(d, "fetch")' => Asked(d, "fetch")
    BY <2>1 DEF Asked
  <2>5. QED
    BY <2>1, <2>2, <2>3, <2>4, LoneStays
<1>14. QED
  BY <1>8, <1>10, <1>12, <1>13 DEF FetchInv

\* A command that ends begins no fetch.
LEMMA EndedIsStill ==
  ASSUME SiteInv, NEW c \in SiteCmds, RequestEnds(c), NEW d \in SiteCmds
  PROVE  Still(d)
<1>1. request'[c].pc = "ended" /\ \A e \in SiteCmds : e # c => request'[e] = request[e]
  BY EndsType DEF SiteInv
<1>2. CASE d = c
  BY <1>1, <1>2 DEF Still, Asked
<1>3. CASE d # c
  BY <1>1, <1>3 DEF Still, Asked
<1>4. QED
  BY <1>2, <1>3

\* A wrapper fails: what it tears is no file of another lone fetch.
LEMMA WrapperFailsKeepsFetch ==
  ASSUME FetchInv, SiteInv', NEW c \in SiteCmds, WrapperFails(c)
  PROVE  FetchInv'
<1>0. /\ SiteInv /\ SiteTypeOK /\ Pending(c) /\ RequestEnds(c)
      /\ UNCHANGED << submit, manifest, inventory >>
  BY DEF FetchInv, SiteInv, WrapperFails, Pending
<1>1. \A d \in SiteCmds : Still(d)
  BY <1>0, EndedIsStill
<1>2. SameJobs
  BY <1>0, IdleJobs, StoppedSameJobs DEF WrapperFails
<1>3. Onward
  BY <1>0, <1>2, LaterOnward
<1>4. CASE UNCHANGED fetched
  BY <1>0, <1>1, <1>3, <1>4, StillKeeps
<1>5. CASE ~UNCHANGED fetched
  <2>a. /\ Asked(c, "fetch") /\ UNCHANGED job
        /\ \E r \in Target(c) : \E f \in JobFiles(r) \ request[c].copied :
             /\ RemoteFile(r, f) # Nothing
             /\ fetched' = [fetched EXCEPT ![request[c].run][<<submit[r].op, f>>] =
                  [RemoteFile(r, f) EXCEPT !.whole = FALSE]]
    BY <1>5 DEF WrapperFails
  <2>b. PICK r \in Target(c) : \E f \in JobFiles(r) \ request[c].copied :
          /\ RemoteFile(r, f) # Nothing
          /\ fetched' = [fetched EXCEPT ![request[c].run][<<submit[r].op, f>>] =
               [RemoteFile(r, f) EXCEPT !.whole = FALSE]]
    BY <2>a
  <2>1. PICK f \in JobFiles(r) \ request[c].copied :
          /\ RemoteFile(r, f) # Nothing
          /\ fetched' = [fetched EXCEPT ![request[c].run][<<submit[r].op, f>>] =
               [RemoteFile(r, f) EXCEPT !.whole = FALSE]]
    BY <2>b
  <2>2. /\ r \in SiteRuns /\ r = request[c].run /\ job[r] # Nothing
        /\ submit[r].op \in Wanted
        /\ f \in FileNames /\ RemoteFile(r, f) \in FetchedFile
    BY <1>0, <2>1, RemoteType
  <2>3. PICK op \in Wanted : op = submit[r].op
    BY <2>2
  <2>4. PICK x \in FetchedFile : x = [RemoteFile(r, f) EXCEPT !.whole = FALSE]
    BY <2>2 DEF FetchedFile
  <2>5. /\ x.run = r
        /\ x.passed => Finished(r, f)
        /\ f \notin Growing \cup {"summary"} => x.passed
    <3>1. x.run = RemoteFile(r, f).run /\ x.passed = RemoteFile(r, f).passed
      BY <2>2, <2>4 DEF FetchedFile
    <3>2. /\ RemoteFile(r, f).run = r /\ RemoteFile(r, f).passed = Finished(r, f)
          /\ f \notin Growing \cup {"summary"} => RemoteFile(r, f).passed
      BY <2>1, <2>2, RemoteFacts
    <3>3. QED
      BY <3>1, <3>2
  <2>6. fetched' = [fetched EXCEPT ![r][<<op, f>>] = x]
    BY <2>1, <2>2, <2>3, <2>4
  <2>7. ASSUME NEW s \in SiteRuns PROVE FileFacts(s)' /\ (s # r => fetched'[s] = fetched[s])
    <3>1. UNCHANGED << submit, job >> /\ job[r] # Nothing /\ op = submit[r].op
          /\ f \in FileNames /\ f \in JobFiles(r) /\ r \in SiteRuns
      BY <1>0, <2>a, <2>1, <2>2, <2>3
    <3>2. x # Nothing =>
            /\ x.run = r
            /\ x.passed => Finished(r, f)
            /\ f \notin Growing \cup {"summary"} => x.passed
      BY <2>5
    <3>3. x \in FetchedFile \cup {Nothing}
      OBVIOUS
    <3>4. QED
      BY <2>6, <3>1, <3>2, <3>3, FileReplaced
  <2>8. ASSUME NEW s \in SiteRuns PROVE TrustFacts(s)'
    BY <1>0, <1>3, TrustStays DEF FetchInv
  <2>9. ASSUME NEW d \in SiteCmds PROVE LoneFacts(d)'
    <3>1. CASE d = c
      <4>1. ~Asked(c, "fetch")'
        BY <1>0, EndsType DEF Asked
      <4>2. QED
        BY <3>1, <4>1 DEF LoneFacts
    <3>2. CASE d # c /\ Asked(d, "fetch") /\ request[d].alone
      <4>1. request[d].run # r
        BY <2>a, <2>2, <3>2 DEF FetchInv, LoneFacts, Copying, Asked
      <4>2. request[d].run \in SiteRuns
        BY <1>0, <3>2 DEF SiteInv, RequestFacts, Pending, Asked
      <4>3. fetched'[request[d].run] = fetched[request[d].run]
        BY <2>7, <4>1, <4>2
      <4>4. QED
        BY <1>1, <4>3, StillLone
    <3>3. CASE d # c /\ ~(Asked(d, "fetch") /\ request[d].alone)
      <4>1. ~(Asked(d, "fetch")' /\ request'[d].alone)
        BY <1>1, <3>3 DEF Still
      <4>2. QED
        BY <4>1 DEF LoneFacts
    <3>4. QED
      BY <3>1, <3>2, <3>3
  <2>10. QED
    BY <2>7, <2>8, <2>9 DEF FetchInv
<1>6. QED
  BY <1>4, <1>5

\* The inventory of a lone fetch that found its job says "complete" of the whole job.
LEMMA InventoriesKeepsFetch ==
  ASSUME FetchInv, SiteInv', NEW c \in SiteCmds, FetchInventories(c)
  PROVE  FetchInv'
<1>0. /\ SiteInv /\ SiteTypeOK /\ Asked(c, "fetch") /\ RequestEnds(c)
      /\ UNCHANGED << submit, manifest, job, fetched >>
  BY DEF FetchInv, SiteInv, FetchInventories
<1>1. \A d \in SiteCmds : Still(d)
  BY <1>0, EndedIsStill
<1>2. Onward
  BY <1>0, IdleJobs, LaterOnward
<1>3. ASSUME NEW s \in SiteRuns PROVE FileFacts(s)'
  BY <1>0, <1>2, FileStays DEF FetchInv
<1>4. ASSUME NEW d \in SiteCmds PROVE LoneFacts(d)'
  BY <1>0, <1>1, StillLone
<1>5. PICK r \in SiteRuns : r = request[c].run
  BY <1>0 DEF SiteInv, RequestFacts, Pending, Asked
<1>a. PICK ac \in BOOLEAN : ac = ArtifactsComplete(submit[r].op, fetched[r])
  BY DEF ArtifactsComplete, DirComplete, Passing
<1>b. PICK al \in BOOLEAN : al = request[c].alone
  BY <1>0 DEF SiteTypeOK, Request
<1>c. PICK re \in BOOLEAN : re = (Target(c) # {})
  OBVIOUS
<1>6. PICK new : new = [complete |-> ac, files |-> fetched[r], alone |-> al, reached |-> re]
  OBVIOUS
<1>7. inventory' = inventory \/ inventory' = [inventory EXCEPT ![r] = new]
  BY <1>5, <1>6, <1>a, <1>b, <1>c DEF FetchInventories
<1>8. ASSUME NEW s \in SiteRuns PROVE TrustFacts(s)'
  <2>1. CASE inventory'[s] = inventory[s]
    BY <1>0, <1>2, <2>1, TrustStays DEF FetchInv
  <2>2. CASE inventory'[s] # inventory[s]
    <3>1. s = r /\ inventory'[r] = new
      BY <1>0, <1>7, <2>2 DEF SiteTypeOK
    <3>2. SUFFICES ASSUME Trusted(r)'
                   PROVE  job[r] # Nothing /\ WholeJob(r, inventory[r].files, submit[r].op)'
      BY <1>0, <3>1 DEF TrustFacts
    <3>3. /\ ArtifactsComplete(submit[r].op, fetched[r]) /\ request[c].alone /\ Target(c) # {}
          /\ inventory'[r].files = fetched[r]
      <4>1. ac /\ al /\ re /\ inventory'[r].files = fetched[r]
        BY <1>6, <3>1, <3>2 DEF Trusted
      <4>2. QED
        BY <4>1, <1>a, <1>b, <1>c
    <3>4. \A q \in Target(c) : JobFiles(q) \subseteq request[c].copied
      BY DEF FetchInventories
    <3>5. job[r] # Nothing /\ WholeJob(r, fetched[r], submit[r].op)
      BY <1>0, <1>5, <3>3, <3>4, CompleteIsWhole
    <3>6. JobFiles(r)' = JobFiles(r)
      BY <1>0 DEF JobFiles
    <3>7. QED
      BY <1>0, <3>3, <3>5, <3>6 DEF WholeJob
  <2>3. QED
    BY <2>1, <2>2
<1>9. QED
  BY <1>3, <1>4, <1>8 DEF FetchInv

\* The steps that touch no evidence.
LEMMA OtherKeepsFetch ==
  ASSUME FetchInv, SiteInv', NEW c \in SiteCmds,
         StatusAnswered(c) \/ CancelForwarded(c) \/ CancelRecorded(c) \/ RequestDies(c)
  PROVE  FetchInv'
<1>0. /\ SiteInv /\ SiteTypeOK /\ request \in [SiteCmds -> Request] /\ request[c] \in Request
      /\ UNCHANGED << submit, fetched, inventory >>
  BY DEF FetchInv, SiteInv, SiteTypeOK, StatusAnswered, CancelForwarded, CancelRecorded, RequestDies
<1>1. SameJobs
  BY <1>0, IdleJobs, StoppedSameJobs DEF StatusAnswered, CancelForwarded, CancelRecorded, RequestDies
<1>2. Onward
  BY <1>0, <1>1, LaterOnward
<1>3. ASSUME NEW d \in SiteCmds PROVE Still(d)
  <2>1. CASE RequestEnds(c)
    BY <1>0, <2>1, EndedIsStill
  <2>2. CASE CancelForwarded(c) /\ request' = [request EXCEPT ![c].pc = "sent"]
    <3>1. request'[c].pc = "sent"
      BY <1>0, <2>2 DEF Request
    <3>2. d # c => request'[d] = request[d]
      BY <1>0, <2>2
    <3>3. QED
      BY <3>1, <3>2 DEF Still, Asked
  <2>3. CASE RequestDies(c) /\ request' = [request EXCEPT ![c].alive = FALSE]
    <3>1. /\ request'[c].pc = request[c].pc /\ request'[c].kind = request[c].kind
          /\ request'[c].run = request[c].run /\ request'[c].copied = request[c].copied
          /\ request'[c].alone = request[c].alone
      BY <1>0, <2>3 DEF Request
    <3>2. d # c => request'[d] = request[d]
      BY <1>0, <2>3
    <3>3. QED
      BY <3>1, <3>2 DEF Still, Asked
  <2>4. QED
    BY <2>1, <2>2, <2>3 DEF StatusAnswered, CancelForwarded, CancelRecorded, RequestDies
<1>4. QED
  BY <1>0, <1>2, <1>3, StillKeeps

\* The invariant of fetches in every step.
LEMMA FetchStep == ASSUME FetchInv, [SiteNext]_siteVars PROVE FetchInv'
<1>1. SiteInv /\ SiteInv'
  BY SiteStep DEF FetchInv
<1>2. ASSUME UNCHANGED request PROVE \A c \in SiteCmds : Still(c)
  BY <1>2 DEF Still, Asked
<1>3. ASSUME NEW r \in SiteRuns, SubmitStep(r) PROVE FetchInv'
  BY <1>1, <1>2, <1>3, SubmitOnward, StillKeeps
<1>4. ASSUME NEW r \in SiteRuns, JobWrites(r) \/ JobEnds(r) PROVE FetchInv'
  <2>1. SameJobs
    BY <1>1, <1>4, SiteSameJobs DEF SiteInv
  <2>2. UNCHANGED << submit, request, fetched, inventory >>
    BY <1>4 DEF JobWrites, JobEnds
  <2>3. Onward
    BY <2>1, <2>2, LaterOnward
  <2>4. QED
    BY <1>1, <1>2, <2>2, <2>3, StillKeeps
<1>5. ASSUME NEW c \in SiteCmds, RequestStep(c) PROVE FetchInv'
  BY <1>1, <1>5, AskKeepsFetch, CopiesKeepsFetch, WrapperFailsKeepsFetch,
     InventoriesKeepsFetch, OtherKeepsFetch DEF RequestStep
<1>6. CASE Reconfigure \/ UNCHANGED siteVars
  <2>1. UNCHANGED << submit, job, request, fetched, inventory >>
    BY <1>6 DEF Reconfigure, siteVars
  <2>2. Onward
    BY <2>1, IdleJobs, LaterOnward
  <2>3. QED
    BY <1>1, <1>2, <2>1, <2>2, StillKeeps
<1>7. QED
  BY <1>3, <1>4, <1>5, <1>6 DEF SiteNext

\* And at the start.
LEMMA FetchStart == ASSUME SiteInit PROVE FetchInv
<1>1. \A r \in SiteRuns : FileFacts(r) /\ TrustFacts(r)
  BY DEF SiteInit, FileFacts, TrustFacts, Trusted, EmptyDir
<1>2. \A c \in SiteCmds : LoneFacts(c)
  BY DEF SiteInit, LoneFacts, Asked, NoRequest
<1>3. QED
  BY <1>1, <1>2, SiteStart DEF FetchInv

\* Evidence that a lone fetch calls complete is the whole of what the run's own job
\* wrote, however that fetch interleaves with the job, cancels, kills, torn copies of
\* earlier fetches and changes of the configuration.
THEOREM CompleteIsTheWholeJob == SiteSpec => []CompleteFetchIsTheWholeJob
<1>1. ASSUME FetchInv PROVE CompleteFetchIsTheWholeJob
  BY <1>1 DEF FetchInv, TrustFacts, WholeJob, CompleteFetchIsTheWholeJob
<1>2. QED
  BY <1>1, FetchStart, FetchStep, PTL DEF SiteSpec
=============================================================================
