---------------------- MODULE DocumentDeletion_proofs ----------------------
(***************************************************************************)
(* What holds of DocumentDeletion for every value of its constants.        *)
(***************************************************************************)
EXTENDS DocumentDeletion, TLAPS

USE DeletionAssumption

(***************************************************************************)
(* The values that stand for nothing (no directory, no plan, an empty      *)
(* area) are of their types.                                               *)
(***************************************************************************)
LEMMA Defaults == AnyOp \in Ops /\ NoPlan \in Manifests /\ Empty \in [Paths -> Cell]
  BY DEF AnyOp, NoPlan, Manifests, Empty, Cell

(***************************************************************************)
(* The first state, an empty library with every session idle, is well      *)
(* typed.                                                                  *)
(***************************************************************************)
LEMMA TypeInit == Init => TypeOK
  BY Defaults DEF Init, TypeOK, Phases

(***************************************************************************)
(* The type invariant is inductive on its own.                             *)
(***************************************************************************)
LEMMA TypeStep == TypeOK /\ [Next]_vars => TypeOK'
<1> SUFFICES ASSUME TypeOK, [Next]_vars PROVE TypeOK'
  OBVIOUS
<1> USE Defaults
        DEF TypeOK, store, area, work, Phases, DeletePhases, ReconcilePhases, Fault,
            NoFault
<1>1. ASSUME NEW s \in Sessions, UserStep(s) PROVE TypeOK'
  <2>1. ASSUME NEW d \in Docs, Import(s, d) PROVE TypeOK'
    BY <2>1 DEF Import, Cell
  <2>2. ASSUME NEW d \in Docs, NEW p \in Paths, NEW c \in Contents, SaveMarkdown(s, d, p, c)
        PROVE TypeOK'
    BY <2>2 DEF SaveMarkdown, SetOriginal, Contend, Cell
  <2>3. ASSUME NEW d \in Docs, NEW o \in Ops, BeginDelete(s, d, o) PROVE TypeOK'
    BY <2>3 DEF BeginDelete, Goto, Present, Contend, Manifests
  <2> QED
    BY <1>1, <2>1, <2>2, <2>3 DEF UserStep
<1>2. ASSUME NEW s \in Sessions, DeleteStep(s) PROVE TypeOK'
  <2>1. CASE HashFails(s)
    BY <2>1 DEF HashFails, Leave, Goto
  <2>2. CASE WriteManifest(s)
    BY <2>2 DEF WriteManifest, Manifests, Cell
  <2>3. CASE ManifestFails(s)
    BY <2>3 DEF ManifestFails, Leave, Goto
  <2>4. ASSUME NEW p \in Paths, MoveFile(s, p) PROVE TypeOK'
    BY <2>4 DEF MoveFile, SetHeld, SetOriginal, Treated, Cell
  <2>5. ASSUME NEW p \in Paths, MoveFails(s, p) PROVE TypeOK'
    BY <2>5 DEF MoveFails, Goto, Moved, Planned
  <2>6. ASSUME NEW p \in Paths, RestoreFile(s, p) PROVE TypeOK'
    BY <2>6 DEF RestoreFile, SetHeld, SetOriginal, Treated, Cell
  <2>7. ASSUME NEW p \in Paths, RestoreFails(s, p) PROVE TypeOK'
    BY <2>7 DEF RestoreFails, Treated
  <2>8. CASE Quarantined(s)
    BY <2>8 DEF Quarantined
  <2>9. CASE CommitRecords(s)
    BY <2>9 DEF CommitRecords, Cell
  <2>10. CASE CommitFails(s)
    BY <2>10 DEF CommitFails, Goto, Planned
  <2>11. CASE Restored(s)
    <3>1. CASE Leave(s, "idle")
      BY <2>11, <3>1 DEF Restored, Leave, Goto
    <3>2. CASE Goto(s, "purging", {}) /\ UNCHANGED <<op, plan, bad>>
      BY <2>11, <3>2 DEF Restored, Goto
    <3> QED
      BY <2>11, <3>1, <3>2 DEF Restored
  <2> QED
    BY <1>2, <2>1, <2>2, <2>3, <2>4, <2>5, <2>6, <2>7, <2>8, <2>9, <2>10, <2>11
      DEF DeleteStep
<1>3. ASSUME NEW s \in Sessions, RemovalStep(s) PROVE TypeOK'
  <2>1. CASE RemoveManifest(s)
    BY <2>1 DEF RemoveManifest
  <2>2. CASE RemoveDir(s)
    BY <2>2 DEF RemoveDir, Leave, Goto, AfterRemoval
  <2>3. CASE RemovalFails(s)
    BY <2>3 DEF RemovalFails, Leave, Goto, AfterRemoval
  <2>4. ASSUME NEW p \in Paths, RemoveFile(s, p) PROVE TypeOK'
    BY <2>4 DEF RemoveFile, SetHeld, Cell
  <2> QED
    BY <1>3, <2>1, <2>2, <2>3, <2>4 DEF RemovalStep
<1>4. ASSUME NEW s \in Sessions, ReconcileStep(s) PROVE TypeOK'
  <2>1. ASSUME NEW o \in Ops, Undecidable(s, o) PROVE TypeOK'
    BY <2>1 DEF Undecidable, Take
  <2>2. ASSUME NEW o \in Ops, Decide(s, o) PROVE TypeOK'
    BY <2>2 DEF Decide, Take, Goto, Contend, Planned, Manifests
  <2>3. ASSUME NEW p \in Paths, RecoverFile(s, p) PROVE TypeOK'
    BY <2>3 DEF RecoverFile, SetHeld, SetOriginal, Treated, Held, Cell
  <2>4. ASSUME NEW p \in Paths, DropCopy(s, p) PROVE TypeOK'
    BY <2>4 DEF DropCopy, SetHeld, Treated, Cell
  <2>5. ASSUME NEW p \in Paths, AlreadyBack(s, p) PROVE TypeOK'
    BY <2>5 DEF AlreadyBack, Treated
  <2>6. ASSUME NEW p \in Paths, NoteProblem(s, p) PROVE TypeOK'
    BY <2>6 DEF NoteProblem, Treated
  <2>7. CASE Recovered(s)
    <3>1. CASE Leave(s, "scan")
      BY <2>7, <3>1 DEF Recovered, Leave, Goto
    <3>2. CASE Goto(s, "clearing", {}) /\ UNCHANGED <<op, plan, bad>>
      BY <2>7, <3>2 DEF Recovered, Goto
    <3> QED
      BY <2>7, <3>1, <3>2 DEF Recovered
  <2>8. CASE Verified(s)
    <3>1. CASE Leave(s, "scan")
      BY <2>8, <3>1 DEF Verified, Leave, Goto
    <3>2. CASE Goto(s, "clearing", {}) /\ UNCHANGED <<op, plan, bad>>
      BY <2>8, <3>2 DEF Verified, Goto
    <3> QED
      BY <2>8, <3>1, <3>2 DEF Verified
  <2>9. CASE EndReconcile(s)
    BY <2>9 DEF EndReconcile
  <2> QED
    BY <1>4, <2>1, <2>2, <2>3, <2>4, <2>5, <2>6, <2>7, <2>8, <2>9 DEF ReconcileStep
<1>5. ASSUME NEW s \in Sessions, BeginReconcile(s) PROVE TypeOK'
  BY <1>5 DEF BeginReconcile
<1>6. CASE Crash
  BY <1>6 DEF Crash
<1>7. CASE UNCHANGED vars
  BY <1>7 DEF vars
<1> QED
  BY <1>1, <1>2, <1>3, <1>4, <1>5, <1>6, <1>7 DEF Next, Work

(***************************************************************************)
(* Types, for every number of sessions and every overlap.                  *)
(***************************************************************************)
THEOREM TypeCorrect == Spec => []TypeOK
  BY TypeInit, TypeStep, PTL DEF Spec

-----------------------------------------------------------------------------
(***************************************************************************)
(* What a step of session s's work leaves alone: the other sessions, every *)
(* directory but its own, and the paths of every document but its own.     *)
(***************************************************************************)
Same(t) ==
    /\ pc'[t] = pc[t] /\ op'[t] = op[t] /\ plan'[t] = plan[t]
    /\ todo'[t] = todo[t] /\ bad'[t] = bad[t]

OwnOnly(s) ==
    /\ Engaged(s)
    /\ documents' \in {documents, documents \ {plan[s].doc}}
    /\ \A o \in Ops \ {op[s]} : manifest'[o] = manifest[o] /\ quarantine'[o] = quarantine[o]
    /\ manifest'[op[s]] \in {manifest[op[s]], NoManifest, plan[s]} \/ pc[s] = "prepared"
    /\ \A p \in Paths :
          \/ original'[p] = original[p]
          \/ p \in Claim(s) /\ pc[s] \in {"moving", "restoring", "recovering"}

OthersStay(s) ==
    /\ \A t \in Sessions \ {s} : Same(t)
    /\ contended \subseteq contended' /\ usedIds' = usedIds
    /\ OwnOnly(s) \/ UNCHANGED <<documents, original, manifest, quarantine>>

(***************************************************************************)
(* A session stays in its directory and with its document.                 *)
(***************************************************************************)
KeepsPlan(s) ==
    Engaged(s)' =>
        /\ Engaged(s) /\ op'[s] = op[s] /\ pc'[s] # "prepared"
        /\ plan'[s].doc = plan[s].doc
        /\ plan'[s] = plan[s] \/ pc[s] = "prepared"

StepOf(s) == OthersStay(s) /\ KeepsPlan(s)

(***************************************************************************)
(* What a step of session s has to establish of the disk, of the database  *)
(* and of itself.                                                          *)
(***************************************************************************)
Established(s) ==
    /\ Disjoint' /\ ManifestsKnown' /\ Removed' /\ Unused'
    /\ SessionInv(s)' /\ LivingFilesKept' /\ NoOrphans'

(***************************************************************************)
(* Two sessions that are both before the outcome of their operations never *)
(* plan for the same file, unless it is contended: both rows are there,    *)
(* and two documents with a row share no file.                             *)
(***************************************************************************)
LEMMA Apart ==
  ASSUME IndInv, NEW s \in Sessions, NEW t \in Sessions, s # t,
         pc[s] \in {"moving", "restoring", "recovering"},
         pc[t] \in {"prepared", "moving", "deleting", "restoring", "recovering"}
  PROVE  Claim(s) \cap Claim(t) \subseteq contended
<1> USE DEF IndInv, TypeOK, Manifests
<1>1. Engaged(s) /\ Engaged(t)
  BY DEF Engaged
<1>2. plan[s].doc = plan[t].doc => Claim(s) \subseteq contended
  BY <1>1 DEF Exclusive
<1>3. plan[s].doc \in documents \/ Claim(s) \subseteq contended
  BY DEF SessionInv, Undecided
<1>4. plan[t].doc \in documents \/ Claim(t) \subseteq contended
  BY DEF SessionInv, Undecided
<1> QED
  BY <1>2, <1>3, <1>4 DEF Disjoint, Claim

(***************************************************************************)
(* So a step of one session leaves what another session knows as it is:    *)
(* where the two meet, the files are contended.                            *)
(***************************************************************************)
LEMMA OthersKeep ==
  ASSUME IndInv, TypeOK', NEW s \in Sessions, NEW t \in Sessions, t # s, OthersStay(s)
  PROVE  SessionInv(t)'
<1> USE DEF IndInv, TypeOK, Manifests
<1>1. Same(t) /\ contended \subseteq contended' /\ usedIds' = usedIds
  BY DEF OthersStay
<1>2. CASE ~Engaged(t)
  BY <1>1, <1>2
    DEF Same, SessionInv, Claimed, Undecided, Preparing, Registered, NothingElse,
        Moving, PuttingBack, PutBack, Emptied, Disposable, Engaged
<1>3. CASE Engaged(t) /\ UNCHANGED <<documents, original, manifest, quarantine>>
  BY <1>1, <1>3
    DEF Same, SessionInv, Claimed, Known, Undecided, Preparing, Registered,
        NothingElse, Moving, PuttingBack, PutBack, Emptied, Disposable, Engaged,
        HeldOf, Claim
<1>4. CASE Engaged(t) /\ OwnOnly(s)
  <2>1. /\ Engaged(s)
        /\ op[s] = op[t] => plan[s] = plan[t] /\ pc[s] # "prepared" /\ pc[t] # "prepared"
        /\ plan[s].doc = plan[t].doc => Claim(t) \subseteq contended
    BY <1>4 DEF OwnOnly, Exclusive, Claim
  <2>2. /\ manifest[op[t]] \in {plan[t], NoManifest}
        /\ Known(plan[t]) /\ todo[t] \subseteq Claim(t)
        /\ pc[t] # "prepared" => todo[t] \subseteq Planned(plan[t])
    BY <1>4 DEF SessionInv, Claimed
  <2>3. manifest'[op[t]] \in {plan[t], NoManifest}
    BY <1>4, <2>1, <2>2 DEF OwnOnly
  <2>4. pc[t] = "prepared" =>
          /\ manifest'[op[t]] = manifest[op[t]]
          /\ quarantine'[op[t]] = quarantine[op[t]]
    BY <1>4, <2>1 DEF OwnOnly
  <2>5. ~(Claim(t) \subseteq contended) =>
          /\ manifest'[op[t]] = manifest[op[t]]
          /\ quarantine'[op[t]] = quarantine[op[t]]
          /\ plan[t].doc \in documents <=> plan[t].doc \in documents'
    BY <1>4, <2>1 DEF OwnOnly
  <2>6. pc[t] \in {"prepared", "moving", "deleting", "restoring", "recovering"} =>
          \A p \in Claim(t) \ contended : original'[p] = original[p]
    BY <1>4, Apart DEF OwnOnly, Claim
  <2>7. Planned(plan[t]) \subseteq Claim(t)
    BY <2>2 DEF Known, Claim
  <2>8. Claimed(t)'
    BY <1>1, <2>2, <2>3 DEF Same, Claimed, Known, Claim
  <2>9. Undecided(t)' /\ Registered(t)' /\ Emptied(t)'
    BY <1>1, <2>5 DEF Same, SessionInv, Undecided, Registered, Emptied, Claim
  <2>10. Preparing(t)' /\ NothingElse(t)'
    BY <1>1, <2>4, <2>6 DEF Same, SessionInv, Preparing, NothingElse, HeldOf, Claim
  <2>11. Moving(t)' /\ PuttingBack(t)'
    BY <1>1, <2>2, <2>5, <2>6, <2>7 DEF Same, SessionInv, Moving, PuttingBack, HeldOf, Claim
  <2>12. PutBack(t)' /\ Disposable(t)'
    BY <1>1, <2>5, <2>7 DEF Same, SessionInv, PutBack, Disposable, HeldOf, Claim
  <2> QED
    BY <2>8, <2>9, <2>10, <2>11, <2>12 DEF SessionInv
<1> QED
  BY <1>2, <1>3, <1>4 DEF OthersStay

(***************************************************************************)
(* A session that stays with its directory and its document meets nobody   *)
(* it did not meet before.                                                 *)
(***************************************************************************)
LEMMA ExclusiveKept ==
  ASSUME IndInv, NEW s \in Sessions, StepOf(s)
  PROVE  \A t, u \in Sessions : Exclusive(t, u)'
<1> SUFFICES ASSUME NEW t \in Sessions, NEW u \in Sessions PROVE Exclusive(t, u)'
  OBVIOUS
<1>1. Exclusive(t, u) /\ Exclusive(u, t) /\ contended \subseteq contended'
  BY DEF IndInv, StepOf, OthersStay
<1>2. CASE t # s /\ u # s
  BY <1>1, <1>2 DEF StepOf, OthersStay, Same, Exclusive, Engaged, Claim
<1>3. CASE t = s /\ u # s
  BY <1>1, <1>3 DEF StepOf, OthersStay, KeepsPlan, Same, Exclusive, Engaged, Claim
<1>4. CASE t # s /\ u = s
  BY <1>1, <1>4 DEF StepOf, OthersStay, KeepsPlan, Same, Exclusive, Engaged, Claim
<1>5. CASE t = u
  BY <1>5 DEF Exclusive
<1> QED
  BY <1>2, <1>3, <1>4, <1>5

(***************************************************************************)
(* When a session keeps its own facts, the invariant of the whole system   *)
(* is kept.                                                                *)
(***************************************************************************)
LEMMA BusyStep ==
  ASSUME IndInv, TypeOK', NEW s \in Sessions, StepOf(s), Established(s)
  PROVE  IndInv'
<1>1. \A t \in Sessions : SessionInv(t)'
  BY OthersKeep DEF StepOf, Established
<1> QED
  BY <1>1, ExclusiveKept DEF IndInv, Established

(***************************************************************************)
(* What a session at work knows of its own plan and of its directory.      *)
(***************************************************************************)
LEMMA Own ==
  ASSUME IndInv, NEW s \in Sessions, Engaged(s)
  PROVE  /\ op[s] \in Ops /\ plan[s] \in Manifests /\ plan[s] # NoManifest
         /\ Known(plan[s]) /\ Planned(plan[s]) \subseteq Claim(s)
         /\ todo[s] \subseteq Claim(s) /\ Claim(s) \subseteq Paths
         /\ pc[s] # "prepared" => todo[s] \subseteq Planned(plan[s])
         /\ manifest[op[s]] \in {plan[s], NoManifest}
         /\ op[s] \notin dirs => manifest[op[s]] = NoManifest /\ quarantine[op[s]] = Empty
<1>1. /\ op[s] \in Ops /\ plan[s] \in Manifests /\ plan[s] # NoManifest
      /\ Claim(s) \subseteq Paths
  BY DEF IndInv, TypeOK, Claim, Manifests
<1>2. Claimed(s) /\ Removed
  BY DEF IndInv, SessionInv
<1> QED
  BY <1>1, <1>2 DEF Claimed, Known, Claim, Removed

(***************************************************************************)
(* plan_deletion meets a file it cannot hash: the work ends, nothing was   *)
(* moved.                                                                  *)
(***************************************************************************)
LEMMA HashFailsStep ==
  ASSUME IndInv, TypeOK', NEW s \in Sessions, HashFails(s)
  PROVE  StepOf(s) /\ Established(s)
<1> USE DEF IndInv, TypeOK, HashFails, Leave, Goto, Fault, NoFault, store, area,
            Cell, Manifests
<1>1. StepOf(s)
  BY Own DEF StepOf, OthersStay, OwnOnly, KeepsPlan, Same, Engaged
<1>2. Disjoint'
  BY DEF Disjoint
<1>3. ManifestsKnown'
  BY DEF ManifestsKnown, Known
<1>4. SessionInv(s)'
  BY DEF SessionInv, Claimed, Known, Undecided, Preparing, Registered, NothingElse,
         Moving, PuttingBack, PutBack, Emptied, Disposable, Engaged, Claim
<1>5. LivingFilesKept'
  BY DEF LivingFilesKept, Holds
<1>6. NoOrphans'
  BY DEF NoOrphans
<1>7. Removed'
  BY DEF Removed
<1>8. Unused'
  BY DEF Unused
<1> QED
  BY <1>1, <1>2, <1>3, <1>4, <1>5, <1>6, <1>7, <1>8 DEF Established

(***************************************************************************)
(* The manifest names the hashes of the files as they lie there now, so    *)
(* from here on a quarantined copy can stand for its original.             *)
(***************************************************************************)
LEMMA WriteManifestStep ==
  ASSUME IndInv, TypeOK', NEW s \in Sessions, WriteManifest(s)
  PROVE  StepOf(s) /\ Established(s)
<1> USE DEF IndInv, TypeOK, WriteManifest, Present, store, area, Cell, Manifests
<1>0. Engaged(s)
  BY DEF Engaged
<1>1. StepOf(s)
  BY <1>0, Own DEF StepOf, OthersStay, OwnOnly, KeepsPlan, Same, Engaged
<1>2. Disjoint'
  BY DEF Disjoint
<1>3. ManifestsKnown'
  BY <1>0, Own DEF ManifestsKnown, Known, Planned, Claim
<1>4. SessionInv(s)'
  <2>1. Claimed(s)'
    BY <1>0, Own DEF Claimed, Known, Planned, Claim, Engaged
  <2>2. Undecided(s)' /\ Preparing(s)' /\ Registered(s)' /\ Emptied(s)'
    BY DEF SessionInv, Undecided, Preparing, Registered, Emptied, Claim
  <2>3. NothingElse(s)' /\ Moving(s)'
    BY <1>0, Own DEF SessionInv, Preparing, NothingElse, Moving, HeldOf, Claim, Planned, Empty
  <2>4. PuttingBack(s)'
    BY <1>0, Own DEF SessionInv, Moving, PuttingBack, Emptied, HeldOf, Claim
  <2>5. PutBack(s)' /\ Disposable(s)'
    BY <1>0, Own DEF SessionInv, Moving, PutBack, Disposable, HeldOf, Claim
  <2> QED
    BY <2>1, <2>2, <2>3, <2>4, <2>5 DEF SessionInv
<1>5. LivingFilesKept'
  <2> SUFFICES ASSUME NEW d \in documents', NEW q \in FilesOf[d] \ contended',
                      saved'[q] # Missing
               PROVE  original'[q] = saved'[q] \/ \E r \in Ops : Holds(r, d, q, saved[q])'
    BY DEF LivingFilesKept
  <2> q \in Paths /\ d \in Docs
    OBVIOUS
  <2>1. manifest[op[s]] = NoManifest
    BY DEF SessionInv, Preparing
  <2>2. CASE original[q] = saved[q]
    BY <2>1, <2>2 DEF Holds
  <2>3. ASSUME NEW r \in Ops, Holds(r, d, q, saved[q])
        PROVE  original'[q] = saved'[q] \/ Holds(r, d, q, saved[q])'
    BY <2>1, <2>3 DEF Holds
  <2> QED
    BY <2>2, <2>3 DEF LivingFilesKept
<1>6. NoOrphans'
  BY DEF NoOrphans
<1>7. Removed'
  BY DEF Removed
<1>8. Unused'
  BY DEF Unused
<1> QED
  BY <1>1, <1>2, <1>3, <1>4, <1>5, <1>6, <1>7, <1>8 DEF Established

(***************************************************************************)
(* The manifest cannot be written: an empty directory may stay behind.     *)
(***************************************************************************)
LEMMA ManifestFailsStep ==
  ASSUME IndInv, TypeOK', NEW s \in Sessions, ManifestFails(s)
  PROVE  StepOf(s) /\ Established(s)
<1> USE DEF IndInv, TypeOK, ManifestFails, Leave, Goto, Fault, store, area, Cell,
            Manifests
<1>1. StepOf(s)
  BY Own DEF StepOf, OthersStay, OwnOnly, KeepsPlan, Same, Engaged
<1>2. Disjoint'
  BY DEF Disjoint
<1>3. ManifestsKnown'
  BY DEF ManifestsKnown, Known
<1>4. SessionInv(s)'
  BY DEF SessionInv, Claimed, Known, Undecided, Preparing, Registered, NothingElse,
         Moving, PuttingBack, PutBack, Emptied, Disposable, Engaged, Claim
<1>5. LivingFilesKept'
  BY DEF LivingFilesKept, Holds, SessionInv, Preparing
<1>6. NoOrphans'
  BY DEF NoOrphans
<1>7. Removed'
  BY DEF Removed, SessionInv, Preparing, HeldOf
<1>8. Unused'
  BY DEF Unused
<1> QED
  BY <1>1, <1>2, <1>3, <1>4, <1>5, <1>6, <1>7, <1>8 DEF Established

(***************************************************************************)
(* A file goes from its path into the area: its content is the planned     *)
(* one, so it is still held for its document, which no other document      *)
(* shares a file with.                                                     *)
(***************************************************************************)
LEMMA MoveFileStep ==
  ASSUME IndInv, TypeOK', NEW s \in Sessions, NEW p \in Paths, MoveFile(s, p)
  PROVE  StepOf(s) /\ Established(s)
<1> USE DEF IndInv, TypeOK, MoveFile, SetHeld, SetOriginal, Treated, store, area,
            Cell, Manifests
<1>0. Engaged(s)
  BY DEF Engaged
<1>1. StepOf(s)
  <2>1. p \in Claim(s)
    BY <1>0, Own
  <2> QED
    BY <1>0, <2>1 DEF StepOf, OthersStay, OwnOnly, KeepsPlan, Same, Engaged
<1>2. Disjoint'
  BY DEF Disjoint
<1>3. ManifestsKnown'
  BY DEF ManifestsKnown, Known
<1>4. SessionInv(s)'
  <2>1. Claimed(s)'
    <3>1. UNCHANGED <<usedIds, manifest, pc, op, plan>> /\ todo'[s] \subseteq todo[s]
      OBVIOUS
    <3> HIDE DEF IndInv, TypeOK, MoveFile
    <3> QED
      BY <1>0, <3>1, Own DEF Claimed, Known, Claim, Engaged
  <2>2. Undecided(s)' /\ Preparing(s)' /\ Registered(s)' /\ Emptied(s)'
    BY DEF SessionInv, Undecided, Preparing, Registered, Emptied, Claim
  <2>3. NothingElse(s)' /\ Moving(s)'
    BY <1>0, Own DEF SessionInv, Preparing, NothingElse, Moving, HeldOf, Claim
  <2>4. PuttingBack(s)'
    BY <1>0, Own DEF SessionInv, Moving, PuttingBack, Emptied, HeldOf, Claim
  <2>5. PutBack(s)' /\ Disposable(s)'
    BY <1>0, Own DEF SessionInv, Moving, PutBack, Disposable, HeldOf, Claim
  <2> QED
    BY <2>1, <2>2, <2>3, <2>4, <2>5 DEF SessionInv
<1>5. LivingFilesKept'
  <2> SUFFICES ASSUME NEW d \in documents', NEW q \in FilesOf[d] \ contended',
                      saved'[q] # Missing
               PROVE  original'[q] = saved'[q] \/ \E r \in Ops : Holds(r, d, q, saved[q])'
    BY DEF LivingFilesKept
  <2> q \in Paths /\ d \in Docs
    OBVIOUS
  <2>1. /\ op[s] \in Ops /\ manifest[op[s]] \in {plan[s], NoManifest}
        /\ plan[s] # NoManifest /\ op[s] \in dirs
        /\ p \in Planned(plan[s]) /\ p \in Claim(s)
    BY <1>0, Own
  <2>2. p \notin contended =>
          /\ manifest[op[s]] = plan[s] /\ plan[s].doc \in documents
          /\ plan[s].hash[p] = original[p]
    BY <2>1 DEF SessionInv, Undecided, Registered, Moving
  <2>3. q = p => d = plan[s].doc
    BY <2>1, <2>2 DEF Disjoint, Claim
  <2>4. CASE original[q] = saved[q]
    BY <2>1, <2>2, <2>3, <2>4 DEF Holds
  <2>5. ASSUME NEW r \in Ops, Holds(r, d, q, saved[q])
        PROVE  original'[q] = saved'[q] \/ Holds(r, d, q, saved[q])'
    BY <2>1, <2>2, <2>3, <2>5 DEF Holds
  <2> QED
    BY <2>4, <2>5 DEF LivingFilesKept
<1>6. NoOrphans'
  BY DEF NoOrphans
<1>7. Removed'
  BY DEF Removed
<1>8. Unused'
  BY DEF Unused
<1> QED
  BY <1>1, <1>2, <1>3, <1>4, <1>5, <1>6, <1>7, <1>8 DEF Established

(***************************************************************************)
(* A move fails: the files moved so far are to be put back.                *)
(***************************************************************************)
LEMMA MoveFailsStep ==
  ASSUME IndInv, TypeOK', NEW s \in Sessions, NEW p \in Paths, MoveFails(s, p)
  PROVE  StepOf(s) /\ Established(s)
<1> USE DEF IndInv, TypeOK, MoveFails, Goto, Moved, Fault, NoFault, store, area,
            Cell, Manifests
<1>0. Engaged(s)
  BY DEF Engaged
<1>1. StepOf(s)
  BY <1>0, Own DEF StepOf, OthersStay, OwnOnly, KeepsPlan, Same, Engaged
<1>2. Disjoint'
  BY DEF Disjoint
<1>3. ManifestsKnown'
  BY DEF ManifestsKnown, Known
<1>4. SessionInv(s)'
  <2>1. Claimed(s)'
    BY <1>0, Own DEF Claimed, Known, Planned, Claim, Engaged
  <2>2. Undecided(s)' /\ Preparing(s)' /\ Registered(s)' /\ Emptied(s)'
    BY DEF SessionInv, Undecided, Preparing, Registered, Emptied, Claim
  <2>3. NothingElse(s)' /\ Moving(s)'
    BY <1>0, Own DEF SessionInv, Preparing, NothingElse, Moving, HeldOf, Claim
  <2>4. PuttingBack(s)'
    BY <1>0, Own DEF SessionInv, Moving, PuttingBack, Emptied, HeldOf, Claim
  <2>5. PutBack(s)' /\ Disposable(s)'
    BY <1>0, Own DEF SessionInv, Moving, PutBack, Disposable, HeldOf, Claim
  <2> QED
    BY <2>1, <2>2, <2>3, <2>4, <2>5 DEF SessionInv
<1>5. LivingFilesKept'
  BY DEF LivingFilesKept, Holds
<1>6. NoOrphans'
  BY DEF NoOrphans
<1>7. Removed'
  BY DEF Removed
<1>8. Unused'
  BY DEF Unused
<1> QED
  BY <1>1, <1>2, <1>3, <1>4, <1>5, <1>6, <1>7, <1>8 DEF Established

(***************************************************************************)
(* An abort renames a file back: its path is free, and the file is where   *)
(* the database says it is.                                                *)
(***************************************************************************)
LEMMA RestoreFileStep ==
  ASSUME IndInv, TypeOK', NEW s \in Sessions, NEW p \in Paths, RestoreFile(s, p)
  PROVE  StepOf(s) /\ Established(s)
<1> USE DEF IndInv, TypeOK, RestoreFile, SetHeld, SetOriginal, Treated, store, area,
            Cell, Manifests
<1>0. Engaged(s)
  BY DEF Engaged
<1>1. StepOf(s)
  <2>1. p \in Claim(s)
    BY <1>0, Own
  <2> QED
    BY <1>0, <2>1 DEF StepOf, OthersStay, OwnOnly, KeepsPlan, Same, Engaged
<1>2. Disjoint'
  BY DEF Disjoint
<1>3. ManifestsKnown'
  BY DEF ManifestsKnown, Known
<1>4. SessionInv(s)'
  <2>1. Claimed(s)'
    <3>1. UNCHANGED <<usedIds, manifest, pc, op, plan>> /\ todo'[s] \subseteq todo[s]
      OBVIOUS
    <3> HIDE DEF IndInv, TypeOK, RestoreFile
    <3> QED
      BY <1>0, <3>1, Own DEF Claimed, Known, Claim, Engaged
  <2>2. Undecided(s)' /\ Preparing(s)' /\ Registered(s)' /\ Emptied(s)'
    BY DEF SessionInv, Undecided, Preparing, Registered, Emptied, Claim
  <2>3. NothingElse(s)' /\ Moving(s)'
    BY <1>0, Own DEF SessionInv, Preparing, NothingElse, Moving, HeldOf, Claim
  <2>4. PuttingBack(s)'
    BY <1>0, Own DEF SessionInv, Moving, PuttingBack, Emptied, HeldOf, Claim
  <2>5. PutBack(s)' /\ Disposable(s)'
    BY <1>0, Own DEF SessionInv, Moving, PutBack, Disposable, HeldOf, Claim
  <2> QED
    BY <2>1, <2>2, <2>3, <2>4, <2>5 DEF SessionInv
<1>5. LivingFilesKept'
  <2> SUFFICES ASSUME NEW d \in documents', NEW q \in FilesOf[d] \ contended',
                      saved'[q] # Missing
               PROVE  original'[q] = saved'[q] \/ \E r \in Ops : Holds(r, d, q, saved[q])'
    BY DEF LivingFilesKept
  <2> q \in Paths /\ d \in Docs
    OBVIOUS
  <2>1. p \notin contended => original[p] = Missing
    BY DEF SessionInv, PuttingBack
  <2>2. CASE original[q] = saved[q]
    BY <2>1, <2>2 DEF Holds
  <2>3. ASSUME NEW r \in Ops, Holds(r, d, q, saved[q])
        PROVE  original'[q] = saved'[q] \/ Holds(r, d, q, saved[q])'
    BY <2>1, <2>3 DEF Holds
  <2> QED
    BY <2>2, <2>3 DEF LivingFilesKept
<1>6. NoOrphans'
  <2>1. p \in Claim(s)
    BY <1>0, Own
  <2>2. p \notin contended => plan[s].doc \in documents
    BY <2>1 DEF SessionInv, Undecided
  <2> QED
    BY <2>1, <2>2 DEF NoOrphans, Claim
<1>7. Removed'
  <2>1. p \in Planned(plan[s])
    BY <1>0, Own
  <2>2. quarantine[op[s]][p] # Missing
    BY <2>1 DEF Planned
  <2>3. op[s] \in dirs
    BY <1>0, <2>2, Own DEF Empty
  <2> QED
    BY <2>3 DEF Removed
<1>8. Unused'
  BY DEF Unused
<1> QED
  BY <1>1, <1>2, <1>3, <1>4, <1>5, <1>6, <1>7, <1>8 DEF Established

(***************************************************************************)
(* A file cannot be put back: it stays in the area, under its manifest.    *)
(***************************************************************************)
LEMMA RestoreFailsStep ==
  ASSUME IndInv, TypeOK', NEW s \in Sessions, NEW p \in Paths, RestoreFails(s, p)
  PROVE  StepOf(s) /\ Established(s)
<1> USE DEF IndInv, TypeOK, RestoreFails, Treated, Fault, NoFault, store, area,
            Cell, Manifests
<1>0. Engaged(s)
  BY DEF Engaged
<1>1. StepOf(s)
  BY <1>0, Own DEF StepOf, OthersStay, OwnOnly, KeepsPlan, Same, Engaged
<1>2. Disjoint'
  BY DEF Disjoint
<1>3. ManifestsKnown'
  BY DEF ManifestsKnown, Known
<1>4. SessionInv(s)'
  <2>1. Claimed(s)'
    BY <1>0, Own DEF Claimed, Known, Claim, Engaged
  <2>2. Undecided(s)' /\ Preparing(s)' /\ Registered(s)' /\ Emptied(s)'
    BY DEF SessionInv, Undecided, Preparing, Registered, Emptied, Claim
  <2>3. NothingElse(s)' /\ Moving(s)'
    BY <1>0, Own DEF SessionInv, Preparing, NothingElse, Moving, HeldOf, Claim
  <2>4. PuttingBack(s)'
    BY <1>0, Own DEF SessionInv, Moving, PuttingBack, Emptied, HeldOf, Claim
  <2>5. PutBack(s)' /\ Disposable(s)'
    BY <1>0, Own DEF SessionInv, Moving, PutBack, Disposable, HeldOf, Claim
  <2> QED
    BY <2>1, <2>2, <2>3, <2>4, <2>5 DEF SessionInv
<1>5. LivingFilesKept'
  BY DEF LivingFilesKept, Holds
<1>6. NoOrphans'
  BY DEF NoOrphans
<1>7. Removed'
  BY DEF Removed
<1>8. Unused'
  BY DEF Unused
<1> QED
  BY <1>1, <1>2, <1>3, <1>4, <1>5, <1>6, <1>7, <1>8 DEF Established

(***************************************************************************)
(* Every planned file is in the area: none is left at its path.            *)
(***************************************************************************)
LEMMA QuarantinedStep ==
  ASSUME IndInv, TypeOK', NEW s \in Sessions, Quarantined(s)
  PROVE  StepOf(s) /\ Established(s)
<1> USE DEF IndInv, TypeOK, Quarantined, store, area, Cell, Manifests
<1>0. Engaged(s)
  BY DEF Engaged
<1>1. StepOf(s)
  BY <1>0, Own DEF StepOf, OthersStay, OwnOnly, KeepsPlan, Same, Engaged
<1>2. Disjoint'
  BY DEF Disjoint
<1>3. ManifestsKnown'
  BY <1>0, Own DEF ManifestsKnown, Known, Planned, Claim
<1>4. SessionInv(s)'
  <2>1. Claimed(s)'
    BY <1>0, Own DEF Claimed, Known, Planned, Claim, Engaged
  <2>2. Undecided(s)' /\ Preparing(s)' /\ Registered(s)' /\ Emptied(s)'
    BY DEF SessionInv, Undecided, Preparing, Registered, Emptied, Claim
  <2>3. NothingElse(s)' /\ Moving(s)'
    BY <1>0, Own DEF SessionInv, Preparing, NothingElse, Moving, HeldOf, Claim
  <2>4. PuttingBack(s)'
    BY <1>0, Own DEF SessionInv, Moving, PuttingBack, Emptied, HeldOf, Claim
  <2>5. PutBack(s)' /\ Disposable(s)'
    BY <1>0, Own DEF SessionInv, Moving, PutBack, Disposable, HeldOf, Claim
  <2> QED
    BY <2>1, <2>2, <2>3, <2>4, <2>5 DEF SessionInv
<1>5. LivingFilesKept'
  <2>1. manifest[op[s]] \in {plan[s], NoManifest}
    BY <1>0, Own
  <2>2. ASSUME NEW r \in Ops, NEW d \in Docs, NEW q \in Paths, Holds(r, d, q, saved[q])
        PROVE  Holds(r, d, q, saved[q])'
    BY <2>1, <2>2 DEF Holds
  <2> QED
    BY <2>2 DEF LivingFilesKept
<1>6. NoOrphans'
  BY DEF NoOrphans
<1>7. Removed'
  BY DEF Removed
<1>8. Unused'
  BY DEF Unused
<1> QED
  BY <1>1, <1>2, <1>3, <1>4, <1>5, <1>6, <1>7, <1>8 DEF Established

(***************************************************************************)
(* The transaction deletes the row once every file of the document is out  *)
(* of the way, so no orphan appears.                                       *)
(***************************************************************************)
LEMMA CommitRecordsStep ==
  ASSUME IndInv, TypeOK', NEW s \in Sessions, CommitRecords(s)
  PROVE  StepOf(s) /\ Established(s)
<1> USE DEF IndInv, TypeOK, CommitRecords, store, area, Cell, Manifests
<1>0. Engaged(s)
  BY DEF Engaged
<1>1. StepOf(s)
  BY <1>0, Own DEF StepOf, OthersStay, OwnOnly, KeepsPlan, Same, Engaged
<1>2. Disjoint'
  BY DEF Disjoint
<1>3. ManifestsKnown'
  BY <1>0, Own DEF ManifestsKnown, Known, Planned, Claim
<1>4. SessionInv(s)'
  <2>1. Claimed(s)'
    BY <1>0, Own DEF Claimed, Known, Planned, Claim, Engaged
  <2>2. Undecided(s)' /\ Preparing(s)' /\ Registered(s)' /\ Emptied(s)'
    BY DEF SessionInv, Undecided, Preparing, Registered, Emptied, Claim
  <2>3. NothingElse(s)' /\ Moving(s)'
    BY <1>0, Own DEF SessionInv, Preparing, NothingElse, Moving, HeldOf, Claim
  <2>4. PuttingBack(s)'
    BY <1>0, Own DEF SessionInv, Moving, PuttingBack, Emptied, HeldOf, Claim
  <2>5. PutBack(s)' /\ Disposable(s)'
    BY <1>0, Own DEF SessionInv, Moving, PutBack, Disposable, HeldOf, Claim
  <2> QED
    BY <2>1, <2>2, <2>3, <2>4, <2>5 DEF SessionInv
<1>5. LivingFilesKept'
  <2> SUFFICES ASSUME NEW d \in documents', NEW q \in FilesOf[d] \ contended',
                      saved'[q] # Missing
               PROVE  original'[q] = saved'[q] \/ \E r \in Ops : Holds(r, d, q, saved[q])'
    BY DEF LivingFilesKept
  <2> q \in Paths /\ d \in Docs
    OBVIOUS
  <2>1. manifest[op[s]] \in {plan[s], NoManifest}
    BY <1>0, Own
  <2>2. q \notin FilesOf[plan[s].doc] /\ saved'[q] = saved[q]
    OBVIOUS
  <2>3. CASE original[q] = saved[q]
    BY <2>1, <2>2, <2>3 DEF Holds
  <2>4. ASSUME NEW r \in Ops, Holds(r, d, q, saved[q])
        PROVE  original'[q] = saved'[q] \/ Holds(r, d, q, saved[q])'
    BY <2>1, <2>2, <2>4 DEF Holds
  <2> QED
    BY <2>3, <2>4 DEF LivingFilesKept
<1>6. NoOrphans'
  BY DEF NoOrphans, SessionInv, NothingElse, Emptied, Claim
<1>7. Removed'
  BY DEF Removed
<1>8. Unused'
  BY DEF Unused
<1> QED
  BY <1>1, <1>2, <1>3, <1>4, <1>5, <1>6, <1>7, <1>8 DEF Established

(***************************************************************************)
(* The transaction fails: the row stays, and the files are to be put back. *)
(***************************************************************************)
LEMMA CommitFailsStep ==
  ASSUME IndInv, TypeOK', NEW s \in Sessions, CommitFails(s)
  PROVE  StepOf(s) /\ Established(s)
<1> USE DEF IndInv, TypeOK, CommitFails, Goto, Fault, NoFault, store, area, Cell,
            Manifests
<1>0. Engaged(s)
  BY DEF Engaged
<1>1. StepOf(s)
  BY <1>0, Own DEF StepOf, OthersStay, OwnOnly, KeepsPlan, Same, Engaged
<1>2. Disjoint'
  BY DEF Disjoint
<1>3. ManifestsKnown'
  BY DEF ManifestsKnown, Known
<1>4. SessionInv(s)'
  <2>1. Claimed(s)'
    BY <1>0, Own DEF Claimed, Known, Planned, Claim, Engaged
  <2>2. Undecided(s)' /\ Preparing(s)' /\ Registered(s)' /\ Emptied(s)'
    BY DEF SessionInv, Undecided, Preparing, Registered, Emptied, Claim
  <2>3. NothingElse(s)' /\ Moving(s)'
    BY <1>0, Own DEF SessionInv, Preparing, NothingElse, Moving, HeldOf, Claim
  <2>4. PuttingBack(s)'
    BY <1>0, Own DEF SessionInv, Moving, PuttingBack, Emptied, HeldOf, Claim
  <2>5. PutBack(s)' /\ Disposable(s)'
    BY <1>0, Own DEF SessionInv, Moving, PutBack, Disposable, HeldOf, Claim
  <2> QED
    BY <2>1, <2>2, <2>3, <2>4, <2>5 DEF SessionInv
<1>5. LivingFilesKept'
  BY DEF LivingFilesKept, Holds
<1>6. NoOrphans'
  BY DEF NoOrphans
<1>7. Removed'
  BY DEF Removed
<1>8. Unused'
  BY DEF Unused
<1> QED
  BY <1>1, <1>2, <1>3, <1>4, <1>5, <1>6, <1>7, <1>8 DEF Established

(***************************************************************************)
(* The end of an abort: the directory is cleared only when every file is   *)
(* back.                                                                   *)
(***************************************************************************)
LEMMA RestoredStep ==
  ASSUME IndInv, TypeOK', NEW s \in Sessions, Restored(s)
  PROVE  StepOf(s) /\ Established(s)
<1> USE DEF IndInv, TypeOK, Restored, Leave, Goto, store, area, Cell, Manifests
<1>0. Engaged(s)
  BY DEF Engaged
<1>1. StepOf(s)
  BY <1>0, Own DEF StepOf, OthersStay, OwnOnly, KeepsPlan, Same, Engaged
<1>2. Disjoint'
  BY DEF Disjoint
<1>3. ManifestsKnown'
  BY DEF ManifestsKnown, Known
<1>4. SessionInv(s)'
  <2>1. Claimed(s)'
    BY <1>0, Own DEF Claimed, Known, Planned, Claim, Engaged
  <2>2. Undecided(s)' /\ Preparing(s)' /\ Registered(s)' /\ Emptied(s)'
    BY DEF SessionInv, Undecided, Preparing, Registered, Emptied, Claim
  <2>3. NothingElse(s)' /\ Moving(s)'
    BY <1>0, Own DEF SessionInv, Preparing, NothingElse, Moving, HeldOf, Claim
  <2>4. PuttingBack(s)'
    BY <1>0, Own DEF SessionInv, Moving, PuttingBack, Emptied, HeldOf, Claim
  <2>5. PutBack(s)' /\ Disposable(s)'
    BY <1>0, Own DEF SessionInv, Moving, PutBack, Disposable, HeldOf, Claim
  <2> QED
    BY <2>1, <2>2, <2>3, <2>4, <2>5 DEF SessionInv
<1>5. LivingFilesKept'
  BY DEF LivingFilesKept, Holds
<1>6. NoOrphans'
  BY DEF NoOrphans
<1>7. Removed'
  BY DEF Removed
<1>8. Unused'
  BY DEF Unused
<1> QED
  BY <1>1, <1>2, <1>3, <1>4, <1>5, <1>6, <1>7, <1>8 DEF Established

(***************************************************************************)
(* The manifest goes before the files: what lies in the area is by then    *)
(* not needed by any document.                                             *)
(***************************************************************************)
LEMMA RemoveManifestStep ==
  ASSUME IndInv, TypeOK', NEW s \in Sessions, RemoveManifest(s)
  PROVE  StepOf(s) /\ Established(s)
<1> USE DEF IndInv, TypeOK, RemoveManifest, Removing, work, store, area, Cell,
            Manifests
<1>0. Engaged(s)
  BY DEF Engaged
<1>1. StepOf(s)
  BY <1>0, Own DEF StepOf, OthersStay, OwnOnly, KeepsPlan, Same, Engaged
<1>2. Disjoint'
  BY DEF Disjoint
<1>3. ManifestsKnown'
  BY DEF ManifestsKnown, Known
<1>4. SessionInv(s)'
  BY DEF SessionInv, Claimed, Known, Undecided, Preparing, Registered, NothingElse,
         Moving, PuttingBack, PutBack, Emptied, Disposable, Engaged, Claim, HeldOf
<1>5. LivingFilesKept'
  <2> SUFFICES ASSUME NEW d \in documents', NEW q \in FilesOf[d] \ contended',
                      saved'[q] # Missing
               PROVE  original'[q] = saved'[q] \/ \E r \in Ops : Holds(r, d, q, saved[q])'
    BY DEF LivingFilesKept
  <2> q \in Paths /\ d \in Docs
    OBVIOUS
  <2>1. manifest[op[s]] \in {plan[s], NoManifest}
    BY <1>0, Own
  <2>2. plan[s].doc = d /\ q \in Planned(plan[s]) => quarantine[op[s]][q] = Missing
    BY DEF SessionInv, Disposable, HeldOf
  <2>3. CASE original[q] = saved[q]
    BY <2>1, <2>2, <2>3 DEF Holds
  <2>4. ASSUME NEW r \in Ops, Holds(r, d, q, saved[q])
        PROVE  original'[q] = saved'[q] \/ Holds(r, d, q, saved[q])'
    BY <2>1, <2>2, <2>4 DEF Holds, Planned
  <2> QED
    BY <2>3, <2>4 DEF LivingFilesKept
<1>6. NoOrphans'
  BY DEF NoOrphans
<1>7. Removed'
  BY DEF Removed
<1>8. Unused'
  BY DEF Unused
<1> QED
  BY <1>1, <1>2, <1>3, <1>4, <1>5, <1>6, <1>7, <1>8 DEF Established

(***************************************************************************)
(* The empty directory goes.                                               *)
(***************************************************************************)
LEMMA RemoveDirStep ==
  ASSUME IndInv, TypeOK', NEW s \in Sessions, RemoveDir(s)
  PROVE  StepOf(s) /\ Established(s)
<1> USE DEF IndInv, TypeOK, RemoveDir, Removing, AfterRemoval, Leave, Goto, store,
            area, Cell, Manifests
<1>1. StepOf(s)
  BY Own DEF StepOf, OthersStay, OwnOnly, KeepsPlan, Same, Engaged
<1>2. Disjoint'
  BY DEF Disjoint
<1>3. ManifestsKnown'
  BY DEF ManifestsKnown, Known
<1>4. SessionInv(s)'
  BY DEF SessionInv, Claimed, Known, Undecided, Preparing, Registered, NothingElse,
         Moving, PuttingBack, PutBack, Emptied, Disposable, Engaged, Claim
<1>5. LivingFilesKept'
  BY DEF LivingFilesKept, Holds
<1>6. NoOrphans'
  BY DEF NoOrphans
<1>7. Removed'
  BY DEF Removed
<1>8. Unused'
  BY DEF Unused
<1> QED
  BY <1>1, <1>2, <1>3, <1>4, <1>5, <1>6, <1>7, <1>8 DEF Established

(***************************************************************************)
(* The removal stops half way: what it leaves is needed by nobody.         *)
(***************************************************************************)
LEMMA RemovalFailsStep ==
  ASSUME IndInv, TypeOK', NEW s \in Sessions, RemovalFails(s)
  PROVE  StepOf(s) /\ Established(s)
<1> USE DEF IndInv, TypeOK, RemovalFails, Removing, AfterRemoval, Leave, Goto,
            Fault, NoFault, store, area, Cell, Manifests
<1>1. StepOf(s)
  BY Own DEF StepOf, OthersStay, OwnOnly, KeepsPlan, Same, Engaged
<1>2. Disjoint'
  BY DEF Disjoint
<1>3. ManifestsKnown'
  BY DEF ManifestsKnown, Known
<1>4. SessionInv(s)'
  BY DEF SessionInv, Claimed, Known, Undecided, Preparing, Registered, NothingElse,
         Moving, PuttingBack, PutBack, Emptied, Disposable, Engaged, Claim
<1>5. LivingFilesKept'
  BY DEF LivingFilesKept, Holds
<1>6. NoOrphans'
  BY DEF NoOrphans
<1>7. Removed'
  BY DEF Removed
<1>8. Unused'
  BY DEF Unused
<1> QED
  BY <1>1, <1>2, <1>3, <1>4, <1>5, <1>6, <1>7, <1>8 DEF Established

(***************************************************************************)
(* A quarantined copy is removed: its document is deleted, or has its file *)
(* back.                                                                   *)
(***************************************************************************)
LEMMA RemoveFileStep ==
  ASSUME IndInv, TypeOK', NEW s \in Sessions, NEW p \in Paths, RemoveFile(s, p)
  PROVE  StepOf(s) /\ Established(s)
<1> USE DEF IndInv, TypeOK, RemoveFile, Removing, SetHeld, work, store, area, Cell,
            Manifests
<1>0. Engaged(s)
  BY DEF Engaged
<1>1. StepOf(s)
  BY <1>0, Own DEF StepOf, OthersStay, OwnOnly, KeepsPlan, Same, Engaged
<1>2. Disjoint'
  BY DEF Disjoint
<1>3. ManifestsKnown'
  BY DEF ManifestsKnown, Known
<1>4. SessionInv(s)'
  BY DEF SessionInv, Claimed, Known, Undecided, Preparing, Registered, NothingElse,
         Moving, PuttingBack, PutBack, Emptied, Disposable, Engaged, Claim, HeldOf
<1>5. LivingFilesKept'
  <2> SUFFICES ASSUME NEW d \in documents', NEW q \in FilesOf[d] \ contended',
                      saved'[q] # Missing
               PROVE  original'[q] = saved'[q] \/ \E r \in Ops : Holds(r, d, q, saved[q])'
    BY DEF LivingFilesKept
  <2> q \in Paths /\ d \in Docs
    OBVIOUS
  <2>1. manifest[op[s]] \in {plan[s], NoManifest}
    BY <1>0, Own
  <2>2. plan[s].doc = d /\ q \in Planned(plan[s]) => quarantine[op[s]][q] = Missing
    BY DEF SessionInv, Disposable, HeldOf
  <2>3. CASE original[q] = saved[q]
    BY <2>1, <2>2, <2>3 DEF Holds
  <2>4. ASSUME NEW r \in Ops, Holds(r, d, q, saved[q])
        PROVE  original'[q] = saved'[q] \/ Holds(r, d, q, saved[q])'
    BY <2>1, <2>2, <2>4 DEF Holds, Planned
  <2> QED
    BY <2>3, <2>4 DEF LivingFilesKept
<1>6. NoOrphans'
  BY DEF NoOrphans
<1>7. Removed'
  BY DEF Removed
<1>8. Unused'
  BY DEF Unused
<1> QED
  BY <1>1, <1>2, <1>3, <1>4, <1>5, <1>6, <1>7, <1>8 DEF Established

(***************************************************************************)
(* Recovery leaves alone a directory it cannot decide on: no manifest, or  *)
(* no answer from the database.                                            *)
(***************************************************************************)
LEMMA UndecidableStep ==
  ASSUME IndInv, TypeOK', NEW s \in Sessions, NEW o \in Ops, Undecidable(s, o)
  PROVE  StepOf(s) /\ Established(s)
<1> USE DEF IndInv, TypeOK, Undecidable, Take, Fault, NoFault, store, area, Cell,
            Manifests
<1>1. StepOf(s)
  BY Own DEF StepOf, OthersStay, OwnOnly, KeepsPlan, Same, Engaged
<1>2. Disjoint'
  BY DEF Disjoint
<1>3. ManifestsKnown'
  BY DEF ManifestsKnown, Known
<1>4. SessionInv(s)'
  BY DEF SessionInv, Claimed, Known, Undecided, Preparing, Registered, NothingElse,
         Moving, PuttingBack, PutBack, Emptied, Disposable, Engaged, Claim
<1>5. LivingFilesKept'
  BY DEF LivingFilesKept, Holds
<1>6. NoOrphans'
  BY DEF NoOrphans
<1>7. Removed'
  BY DEF Removed
<1>8. Unused'
  BY DEF Unused
<1> QED
  BY <1>1, <1>2, <1>3, <1>4, <1>5, <1>6, <1>7, <1>8 DEF Established

(***************************************************************************)
(* Recovery takes up a directory: the row decides whether it restores or   *)
(* purges.                                                                 *)
(***************************************************************************)
LEMMA DecideStep ==
  ASSUME IndInv, TypeOK', NEW s \in Sessions, NEW o \in Ops, Decide(s, o)
  PROVE  /\ OthersStay(s) /\ Established(s)
         /\ \A t, u \in Sessions : Exclusive(t, u)'
<1> USE DEF IndInv, TypeOK, Decide, Take, Goto, store, area, Cell, Manifests
<1>0. contended \subseteq contended' /\ ~Engaged(s)
  BY DEF Contend, Engaged
<1>1. OthersStay(s)
  BY <1>0 DEF OthersStay, Same
<1>2. Disjoint'
  BY DEF Disjoint
<1>3. ManifestsKnown'
  BY DEF ManifestsKnown, Known
<1>4. SessionInv(s)'
  BY DEF SessionInv, Claimed, Known, Undecided, Preparing, Registered, NothingElse,
         Moving, PuttingBack, PutBack, Emptied, Disposable, Engaged, Claim,
         ManifestsKnown
<1>5. LivingFilesKept'
  BY <1>0 DEF LivingFilesKept, Holds
<1>6. NoOrphans'
  BY <1>0 DEF NoOrphans
<1>7. Removed'
  BY DEF Removed
<1>8. Unused'
  BY DEF Unused
<1>9. ASSUME NEW t \in Sessions, t # s, Engaged(t)
      PROVE  /\ op[t] = o => plan[t] = manifest[o] /\ pc[t] # "prepared"
             /\ plan[t].doc = manifest[o].doc => FilesOf[manifest[o].doc] \subseteq contended'
  <2>1. op[t] = o => plan[t] = manifest[o] /\ pc[t] # "prepared"
    BY <1>9, Own DEF SessionInv, Preparing
  <2>2. plan[t].doc = manifest[o].doc => FilesOf[manifest[o].doc] \subseteq contended'
    BY <1>9 DEF Contend
  <2> QED
    BY <2>1, <2>2
<1>10. ASSUME NEW t \in Sessions, NEW u \in Sessions PROVE Exclusive(t, u)'
  <2>1. pc'[s] # "prepared" /\ op'[s] = o /\ plan'[s] = manifest[o]
    OBVIOUS
  <2>2. \A v \in Sessions \ {s} : Same(v)
    BY <1>1 DEF OthersStay
  <2>3. CASE t # s /\ u # s
    <3>1. Exclusive(t, u)
      OBVIOUS
    <3> HIDE DEF IndInv, TypeOK, Decide
    <3> QED
      BY <1>0, <2>2, <2>3, <3>1 DEF Same, Exclusive, Engaged, Claim
  <2>4. CASE t = s \/ u = s
    <3> HIDE DEF IndInv, TypeOK, Decide
    <3> QED
      BY <1>9, <2>1, <2>2, <2>4 DEF Same, Exclusive, Engaged, Claim
  <2> QED
    BY <2>3, <2>4
<1> QED
  BY <1>1, <1>2, <1>3, <1>4, <1>5, <1>6, <1>7, <1>8, <1>10 DEF Established

(***************************************************************************)
(* Recovery moves a file back to a free path of a document that has its    *)
(* row.                                                                    *)
(***************************************************************************)
LEMMA RecoverFileStep ==
  ASSUME IndInv, TypeOK', NEW s \in Sessions, NEW p \in Paths, RecoverFile(s, p)
  PROVE  StepOf(s) /\ Established(s)
<1> USE DEF IndInv, TypeOK, RecoverFile, Here, Held, Recorded, SetHeld, SetOriginal,
            Treated, store, area, Cell, Manifests
<1>0. Engaged(s)
  BY DEF Engaged
<1>1. StepOf(s)
  <2>1. p \in Claim(s)
    BY <1>0, Own
  <2> QED
    BY <1>0, <2>1 DEF StepOf, OthersStay, OwnOnly, KeepsPlan, Same, Engaged
<1>2. Disjoint'
  BY DEF Disjoint
<1>3. ManifestsKnown'
  BY DEF ManifestsKnown, Known
<1>4. SessionInv(s)'
  <2>1. Claimed(s)'
    <3>1. UNCHANGED <<usedIds, manifest, pc, op, plan>> /\ todo'[s] \subseteq todo[s]
      OBVIOUS
    <3> HIDE DEF IndInv, TypeOK, RecoverFile
    <3> QED
      BY <1>0, <3>1, Own DEF Claimed, Known, Claim, Engaged
  <2>2. Undecided(s)' /\ Preparing(s)' /\ Registered(s)' /\ Emptied(s)'
    BY DEF SessionInv, Undecided, Preparing, Registered, Emptied, Claim
  <2>3. NothingElse(s)' /\ Moving(s)'
    BY <1>0, Own DEF SessionInv, Preparing, NothingElse, Moving, HeldOf, Claim
  <2>4. PuttingBack(s)'
    BY <1>0, Own DEF SessionInv, Moving, PuttingBack, Emptied, HeldOf, Claim
  <2>5. PutBack(s)' /\ Disposable(s)'
    BY <1>0, Own DEF SessionInv, Moving, PutBack, Disposable, HeldOf, Claim
  <2> QED
    BY <2>1, <2>2, <2>3, <2>4, <2>5 DEF SessionInv
<1>5. LivingFilesKept'
  <2> SUFFICES ASSUME NEW d \in documents', NEW q \in FilesOf[d] \ contended',
                      saved'[q] # Missing
               PROVE  original'[q] = saved'[q] \/ \E r \in Ops : Holds(r, d, q, saved[q])'
    BY DEF LivingFilesKept
  <2> q \in Paths /\ d \in Docs
    OBVIOUS
  <2>1. original[p] = Missing
    OBVIOUS
  <2>2. CASE original[q] = saved[q]
    BY <2>1, <2>2 DEF Holds
  <2>3. ASSUME NEW r \in Ops, Holds(r, d, q, saved[q])
        PROVE  original'[q] = saved'[q] \/ Holds(r, d, q, saved[q])'
    BY <2>1, <2>3 DEF Holds
  <2> QED
    BY <2>2, <2>3 DEF LivingFilesKept
<1>6. NoOrphans'
  <2>1. p \in Claim(s)
    BY <1>0, Own
  <2>2. p \notin contended => plan[s].doc \in documents
    BY <2>1 DEF SessionInv, Undecided
  <2> QED
    BY <2>1, <2>2 DEF NoOrphans, Claim
<1>7. Removed'
  <2>1. p \in Planned(plan[s])
    BY <1>0, Own
  <2>2. quarantine[op[s]][p] # Missing
    BY <2>1 DEF Planned
  <2>3. op[s] \in dirs
    BY <1>0, <2>2, Own DEF Empty
  <2> QED
    BY <2>3 DEF Removed
<1>8. Unused'
  BY DEF Unused
<1> QED
  BY <1>1, <1>2, <1>3, <1>4, <1>5, <1>6, <1>7, <1>8 DEF Established

(***************************************************************************)
(* Recovery drops a copy whose original is there with the same content.    *)
(***************************************************************************)
LEMMA DropCopyStep ==
  ASSUME IndInv, TypeOK', NEW s \in Sessions, NEW p \in Paths, DropCopy(s, p)
  PROVE  StepOf(s) /\ Established(s)
<1> USE DEF IndInv, TypeOK, DropCopy, Here, Held, Recorded, SetHeld, Treated, store,
            area, Cell, Manifests
<1>0. Engaged(s)
  BY DEF Engaged
<1>1. StepOf(s)
  BY <1>0, Own DEF StepOf, OthersStay, OwnOnly, KeepsPlan, Same, Engaged
<1>2. Disjoint'
  BY DEF Disjoint
<1>3. ManifestsKnown'
  BY DEF ManifestsKnown, Known
<1>4. SessionInv(s)'
  <2>1. Claimed(s)'
    <3>1. UNCHANGED <<usedIds, manifest, pc, op, plan>> /\ todo'[s] \subseteq todo[s]
      OBVIOUS
    <3> HIDE DEF IndInv, TypeOK, DropCopy
    <3> QED
      BY <1>0, <3>1, Own DEF Claimed, Known, Claim, Engaged
  <2>2. Undecided(s)' /\ Preparing(s)' /\ Registered(s)' /\ Emptied(s)'
    BY DEF SessionInv, Undecided, Preparing, Registered, Emptied, Claim
  <2>3. NothingElse(s)' /\ Moving(s)'
    BY <1>0, Own DEF SessionInv, Preparing, NothingElse, Moving, HeldOf, Claim
  <2>4. PuttingBack(s)'
    BY <1>0, Own DEF SessionInv, Moving, PuttingBack, Emptied, HeldOf, Claim
  <2>5. PutBack(s)' /\ Disposable(s)'
    BY <1>0, Own DEF SessionInv, Moving, PutBack, Disposable, HeldOf, Claim
  <2> QED
    BY <2>1, <2>2, <2>3, <2>4, <2>5 DEF SessionInv
<1>5. LivingFilesKept'
  <2> SUFFICES ASSUME NEW d \in documents', NEW q \in FilesOf[d] \ contended',
                      saved'[q] # Missing
               PROVE  original'[q] = saved'[q] \/ \E r \in Ops : Holds(r, d, q, saved[q])'
    BY DEF LivingFilesKept
  <2> q \in Paths /\ d \in Docs
    OBVIOUS
  <2>1. manifest[op[s]] \in {plan[s], NoManifest}
    BY <1>0, Own
  <2>2. CASE original[q] = saved[q]
    BY <2>1, <2>2 DEF Holds
  <2>3. ASSUME NEW r \in Ops, Holds(r, d, q, saved[q])
        PROVE  original'[q] = saved'[q] \/ Holds(r, d, q, saved[q])'
    BY <2>1, <2>3 DEF Holds
  <2> QED
    BY <2>2, <2>3 DEF LivingFilesKept
<1>6. NoOrphans'
  BY DEF NoOrphans
<1>7. Removed'
  <2>1. p \in Planned(plan[s])
    BY <1>0, Own
  <2>2. quarantine[op[s]][p] # Missing
    BY <2>1 DEF Planned
  <2>3. op[s] \in dirs
    BY <1>0, <2>2, Own DEF Empty
  <2> QED
    BY <2>3 DEF Removed
<1>8. Unused'
  BY DEF Unused
<1> QED
  BY <1>1, <1>2, <1>3, <1>4, <1>5, <1>6, <1>7, <1>8 DEF Established

(***************************************************************************)
(* Recovery finds the file at its path and no copy in the area.            *)
(***************************************************************************)
LEMMA AlreadyBackStep ==
  ASSUME IndInv, TypeOK', NEW s \in Sessions, NEW p \in Paths, AlreadyBack(s, p)
  PROVE  StepOf(s) /\ Established(s)
<1> USE DEF IndInv, TypeOK, AlreadyBack, Here, Held, Recorded, Treated, store, area,
            Cell, Manifests
<1>0. Engaged(s)
  BY DEF Engaged
<1>1. StepOf(s)
  BY <1>0, Own DEF StepOf, OthersStay, OwnOnly, KeepsPlan, Same, Engaged
<1>2. Disjoint'
  BY DEF Disjoint
<1>3. ManifestsKnown'
  BY DEF ManifestsKnown, Known
<1>4. SessionInv(s)'
  <2>1. Claimed(s)'
    BY <1>0, Own DEF Claimed, Known, Planned, Claim, Engaged
  <2>2. Undecided(s)' /\ Preparing(s)' /\ Registered(s)' /\ Emptied(s)'
    BY DEF SessionInv, Undecided, Preparing, Registered, Emptied, Claim
  <2>3. NothingElse(s)' /\ Moving(s)'
    BY <1>0, Own DEF SessionInv, Preparing, NothingElse, Moving, HeldOf, Claim
  <2>4. PuttingBack(s)'
    BY <1>0, Own DEF SessionInv, Moving, PuttingBack, Emptied, HeldOf, Claim
  <2>5. PutBack(s)' /\ Disposable(s)'
    BY <1>0, Own DEF SessionInv, Moving, PutBack, Disposable, HeldOf, Claim
  <2> QED
    BY <2>1, <2>2, <2>3, <2>4, <2>5 DEF SessionInv
<1>5. LivingFilesKept'
  BY DEF LivingFilesKept, Holds
<1>6. NoOrphans'
  BY DEF NoOrphans
<1>7. Removed'
  BY DEF Removed
<1>8. Unused'
  BY DEF Unused
<1> QED
  BY <1>1, <1>2, <1>3, <1>4, <1>5, <1>6, <1>7, <1>8 DEF Established

(***************************************************************************)
(* Recovery meets a file it must not touch and keeps the directory.        *)
(***************************************************************************)
LEMMA NoteProblemStep ==
  ASSUME IndInv, TypeOK', NEW s \in Sessions, NEW p \in Paths, NoteProblem(s, p)
  PROVE  StepOf(s) /\ Established(s)
<1> USE DEF IndInv, TypeOK, NoteProblem, Here, Held, Recorded, Conflict, Treated,
            Fault, NoFault, store, area, Cell, Manifests
<1>0. Engaged(s)
  BY DEF Engaged
<1>1. StepOf(s)
  BY <1>0, Own DEF StepOf, OthersStay, OwnOnly, KeepsPlan, Same, Engaged
<1>2. Disjoint'
  BY DEF Disjoint
<1>3. ManifestsKnown'
  BY DEF ManifestsKnown, Known
<1>4. SessionInv(s)'
  <2>1. Claimed(s)'
    BY <1>0, Own DEF Claimed, Known, Claim, Engaged
  <2>2. Undecided(s)' /\ Preparing(s)' /\ Registered(s)' /\ Emptied(s)'
    BY DEF SessionInv, Undecided, Preparing, Registered, Emptied, Claim
  <2>3. NothingElse(s)' /\ Moving(s)'
    BY <1>0, Own DEF SessionInv, Preparing, NothingElse, Moving, HeldOf, Claim
  <2>4. PuttingBack(s)'
    BY <1>0, Own DEF SessionInv, Moving, PuttingBack, Emptied, HeldOf, Claim
  <2>5. PutBack(s)' /\ Disposable(s)'
    BY <1>0, Own DEF SessionInv, Moving, PutBack, Disposable, HeldOf, Claim
  <2> QED
    BY <2>1, <2>2, <2>3, <2>4, <2>5 DEF SessionInv
<1>5. LivingFilesKept'
  BY DEF LivingFilesKept, Holds
<1>6. NoOrphans'
  BY DEF NoOrphans
<1>7. Removed'
  BY DEF Removed
<1>8. Unused'
  BY DEF Unused
<1> QED
  BY <1>1, <1>2, <1>3, <1>4, <1>5, <1>6, <1>7, <1>8 DEF Established

(***************************************************************************)
(* All files of a directory are treated: it is cleared unless there was a  *)
(* problem.                                                                *)
(***************************************************************************)
LEMMA RecoveredStep ==
  ASSUME IndInv, TypeOK', NEW s \in Sessions, Recovered(s)
  PROVE  StepOf(s) /\ Established(s)
<1> USE DEF IndInv, TypeOK, Recovered, Leave, Goto, store, area, Cell, Manifests
<1>0. Engaged(s)
  BY DEF Engaged
<1>1. StepOf(s)
  BY <1>0, Own DEF StepOf, OthersStay, OwnOnly, KeepsPlan, Same, Engaged
<1>2. Disjoint'
  BY DEF Disjoint
<1>3. ManifestsKnown'
  BY DEF ManifestsKnown, Known
<1>4. SessionInv(s)'
  <2>1. Claimed(s)'
    BY <1>0, Own DEF Claimed, Known, Planned, Claim, Engaged
  <2>2. Undecided(s)' /\ Preparing(s)' /\ Registered(s)' /\ Emptied(s)'
    BY DEF SessionInv, Undecided, Preparing, Registered, Emptied, Claim
  <2>3. NothingElse(s)' /\ Moving(s)'
    BY <1>0, Own DEF SessionInv, Preparing, NothingElse, Moving, HeldOf, Claim
  <2>4. PuttingBack(s)'
    BY <1>0, Own DEF SessionInv, Moving, PuttingBack, Emptied, HeldOf, Claim
  <2>5. PutBack(s)' /\ Disposable(s)'
    BY <1>0, Own DEF SessionInv, Moving, PutBack, Disposable, HeldOf, Claim
  <2> QED
    BY <2>1, <2>2, <2>3, <2>4, <2>5 DEF SessionInv
<1>5. LivingFilesKept'
  BY DEF LivingFilesKept, Holds
<1>6. NoOrphans'
  BY DEF NoOrphans
<1>7. Removed'
  BY DEF Removed
<1>8. Unused'
  BY DEF Unused
<1> QED
  BY <1>1, <1>2, <1>3, <1>4, <1>5, <1>6, <1>7, <1>8 DEF Established

(***************************************************************************)
(* The checks before a purge are done: it is cleared unless a copy is not  *)
(* what the manifest says.                                                 *)
(***************************************************************************)
LEMMA VerifiedStep ==
  ASSUME IndInv, TypeOK', NEW s \in Sessions, Verified(s)
  PROVE  StepOf(s) /\ Established(s)
<1> USE DEF IndInv, TypeOK, Verified, Leave, Goto, Held, Recorded, store, area,
            Cell, Manifests
<1>0. Engaged(s)
  BY DEF Engaged
<1>1. StepOf(s)
  BY <1>0, Own DEF StepOf, OthersStay, OwnOnly, KeepsPlan, Same, Engaged
<1>2. Disjoint'
  BY DEF Disjoint
<1>3. ManifestsKnown'
  BY DEF ManifestsKnown, Known
<1>4. SessionInv(s)'
  <2>1. Claimed(s)'
    BY <1>0, Own DEF Claimed, Known, Planned, Claim, Engaged
  <2>2. Undecided(s)' /\ Preparing(s)' /\ Registered(s)' /\ Emptied(s)'
    BY DEF SessionInv, Undecided, Preparing, Registered, Emptied, Claim
  <2>3. NothingElse(s)' /\ Moving(s)'
    BY <1>0, Own DEF SessionInv, Preparing, NothingElse, Moving, HeldOf, Claim
  <2>4. PuttingBack(s)'
    BY <1>0, Own DEF SessionInv, Moving, PuttingBack, Emptied, HeldOf, Claim
  <2>5. PutBack(s)' /\ Disposable(s)'
    BY <1>0, Own DEF SessionInv, Moving, PutBack, Disposable, HeldOf, Claim
  <2> QED
    BY <2>1, <2>2, <2>3, <2>4, <2>5 DEF SessionInv
<1>5. LivingFilesKept'
  BY DEF LivingFilesKept, Holds
<1>6. NoOrphans'
  BY DEF NoOrphans
<1>7. Removed'
  BY DEF Removed
<1>8. Unused'
  BY DEF Unused
<1> QED
  BY <1>1, <1>2, <1>3, <1>4, <1>5, <1>6, <1>7, <1>8 DEF Established

(***************************************************************************)
(* Recovery has gone through every directory it listed.                    *)
(***************************************************************************)
LEMMA EndReconcileStep ==
  ASSUME IndInv, TypeOK', NEW s \in Sessions, EndReconcile(s)
  PROVE  StepOf(s) /\ Established(s)
<1> USE DEF IndInv, TypeOK, EndReconcile, store, area, Cell, Manifests
<1>1. StepOf(s)
  BY Own DEF StepOf, OthersStay, OwnOnly, KeepsPlan, Same, Engaged
<1>2. Disjoint'
  BY DEF Disjoint
<1>3. ManifestsKnown'
  BY DEF ManifestsKnown, Known
<1>4. SessionInv(s)'
  BY DEF SessionInv, Claimed, Known, Undecided, Preparing, Registered, NothingElse,
         Moving, PuttingBack, PutBack, Emptied, Disposable, Engaged, Claim
<1>5. LivingFilesKept'
  BY DEF LivingFilesKept, Holds
<1>6. NoOrphans'
  BY DEF NoOrphans
<1>7. Removed'
  BY DEF Removed
<1>8. Unused'
  BY DEF Unused
<1> QED
  BY <1>1, <1>2, <1>3, <1>4, <1>5, <1>6, <1>7, <1>8 DEF Established

-----------------------------------------------------------------------------
(***************************************************************************)
(* Users start work, and the process dies.  An import stores files of a    *)
(* document without a row, and a session at work on another document       *)
(* shares no file with it.                                                 *)
(***************************************************************************)
LEMMA ImportStep ==
  ASSUME IndInv, TypeOK', NEW s \in Sessions, NEW e \in Docs, Import(s, e)
  PROVE  IndInv'
<1> USE DEF IndInv, TypeOK, Import, store, area, Cell, Manifests
<1>1. \A t, u \in Sessions : Exclusive(t, u)'
  BY DEF Exclusive, Engaged, Claim
<1>2. Disjoint'
  BY DEF Disjoint
<1>3. ManifestsKnown'
  BY DEF ManifestsKnown, Known
<1>4. ASSUME NEW t \in Sessions PROVE SessionInv(t)'
  <2>1. Claimed(t)' /\ Undecided(t)' /\ Registered(t)' /\ PutBack(t)' /\ Emptied(t)'
    BY DEF SessionInv, Claimed, Known, Engaged, Claim, Undecided, Registered, PutBack,
           Emptied, HeldOf
  <2>2. plan[t].doc \in documents => \A q \in Claim(t) : original'[q] = original[q]
    BY DEF Claim
  <2>3. pc[t] \in {"prepared", "moving", "deleting", "restoring"} =>
          \A q \in Claim(t) \ contended : original'[q] = original[q]
    BY <2>2 DEF SessionInv, Undecided
  <2>4. Preparing(t)' /\ NothingElse(t)'
    BY <2>3 DEF SessionInv, Preparing, NothingElse, HeldOf, Claim
  <2>5. UNCHANGED <<pc, op, plan, todo, bad, quarantine, contended>>
    OBVIOUS
  <2>6. Moving(t)' /\ PuttingBack(t)'
    <3>1. Engaged(t) => Planned(plan[t]) \subseteq Claim(t) /\ todo[t] \subseteq Claim(t)
      BY Own
    <3>2. Moving(t) /\ PuttingBack(t)
      BY DEF SessionInv
    <3> HIDE DEF IndInv, TypeOK, Import
    <3>3. Moving(t)'
      BY <2>3, <2>5, <3>1, <3>2 DEF Engaged, Moving, HeldOf
    <3>4. PuttingBack(t)'
      BY <2>3, <2>5, <3>1, <3>2 DEF Engaged, PuttingBack, HeldOf
    <3> QED
      BY <3>3, <3>4
  <2>7. Disposable(t)'
    <3>1. Engaged(t) => plan[t].doc # e
      BY Own DEF Known
    <3>2. Disposable(t) /\ documents' = documents \cup {e}
      BY DEF SessionInv
    <3> HIDE DEF IndInv, TypeOK, Import
    <3> QED
      BY <2>5, <3>1, <3>2 DEF Engaged, Disposable, HeldOf
  <2> QED
    BY <2>1, <2>4, <2>6, <2>7 DEF SessionInv
<1>5. LivingFilesKept'
  <2> SUFFICES ASSUME NEW d \in documents', NEW q \in FilesOf[d] \ contended',
                      saved'[q] # Missing
               PROVE  original'[q] = saved'[q] \/ \E r \in Ops : Holds(r, d, q, saved[q])'
    BY DEF LivingFilesKept
  <2> q \in Paths /\ d \in Docs
    OBVIOUS
  <2>1. CASE q \in FilesOf[e] \ Editable
    BY <2>1
  <2>2. CASE q \notin FilesOf[e] \ Editable /\ d # e
    BY <2>2 DEF LivingFilesKept, Holds
  <2>3. CASE q \notin FilesOf[e] \ Editable /\ d = e
    BY <2>3 DEF Unused
  <2> QED
    BY <2>1, <2>2, <2>3
<1>6. NoOrphans'
  BY DEF NoOrphans
<1>7. Removed' /\ Unused'
  BY DEF Removed, Unused
<1> QED
  BY <1>1, <1>2, <1>3, <1>4, <1>5, <1>6, <1>7

(***************************************************************************)
(* Saving Markdown replaces a stored file of one document.  A session at   *)
(* work on that document contends for it from here on; no other document   *)
(* records the file.                                                       *)
(***************************************************************************)
LEMMA SaveMarkdownStep ==
  ASSUME IndInv, TypeOK', NEW s \in Sessions, NEW e \in Docs, NEW p \in Paths,
         NEW c \in Contents, SaveMarkdown(s, e, p, c)
  PROVE  IndInv'
<1> USE DEF IndInv, TypeOK, SaveMarkdown, SetOriginal, area, Cell, Manifests
<1>0. contended \subseteq contended'
  BY DEF Contend
<1>1. \A t, u \in Sessions : Exclusive(t, u)'
  BY <1>0 DEF Exclusive, Engaged, Claim
<1>2. Disjoint' /\ NoOrphans'
  BY <1>0 DEF Disjoint, NoOrphans
<1>3. ManifestsKnown'
  BY DEF ManifestsKnown, Known
<1>4. ASSUME NEW t \in Sessions PROVE SessionInv(t)'
  <2>1. Engaged(t) => t # s
    BY DEF Engaged, MayStart
  <2>2. Engaged(t) => \A q \in Claim(t) \ contended' : original'[q] = original[q]
    BY <2>1 DEF Contend, Claim
  <2>3. Claimed(t)' /\ Undecided(t)' /\ Registered(t)' /\ PutBack(t)' /\ Emptied(t)'
        /\ Disposable(t)'
    BY <1>0
      DEF SessionInv, Claimed, Known, Engaged, Claim, Undecided, Registered, PutBack,
          Emptied, Disposable, HeldOf
  <2>4. Preparing(t)' /\ NothingElse(t)'
    BY <1>0, <2>2 DEF SessionInv, Engaged, Preparing, NothingElse, HeldOf, Claim
  <2>5. Moving(t)' /\ PuttingBack(t)'
    <3>1. Engaged(t) => Planned(plan[t]) \subseteq Claim(t) /\ todo[t] \subseteq Claim(t)
      BY Own
    <3> QED
      BY <1>0, <2>2, <3>1 DEF SessionInv, Engaged, Moving, PuttingBack, HeldOf, Claim
  <2> QED
    BY <2>3, <2>4, <2>5 DEF SessionInv
<1>5. LivingFilesKept'
  <2> SUFFICES ASSUME NEW d \in documents', NEW q \in FilesOf[d] \ contended',
                      saved'[q] # Missing
               PROVE  original'[q] = saved'[q] \/ \E r \in Ops : Holds(r, d, q, saved[q])'
    BY DEF LivingFilesKept
  <2> q \in Paths /\ d \in Docs
    OBVIOUS
  <2>1. CASE q = p
    BY <2>1
  <2>2. CASE q # p
    BY <1>0, <2>2 DEF LivingFilesKept, Holds
  <2> QED
    BY <2>1, <2>2
<1>6. Removed' /\ Unused'
  BY DEF Removed, Unused, Empty
<1> QED
  BY <1>1, <1>2, <1>3, <1>4, <1>5, <1>6

(***************************************************************************)
(* A deletion begins in a directory that does not exist yet, so nothing    *)
(* lies in it and nobody is at work there.                                 *)
(***************************************************************************)
LEMMA BeginDeleteStep ==
  ASSUME IndInv, TypeOK', NEW s \in Sessions, NEW e \in Docs, NEW o \in Ops,
         BeginDelete(s, e, o)
  PROVE  IndInv'
<1> USE DEF IndInv, TypeOK, BeginDelete, Goto, store, Cell, Manifests
<1>0. contended \subseteq contended' /\ ~Engaged(s)
  BY DEF Contend, Engaged, MayStart
<1>1. OthersStay(s)
  BY <1>0 DEF OthersStay, Same
<1>2. Disjoint' /\ NoOrphans'
  BY <1>0 DEF Disjoint, NoOrphans
<1>3. ManifestsKnown'
  BY DEF ManifestsKnown, Known
<1>4. ASSUME NEW t \in Sessions PROVE SessionInv(t)'
  <2>1. CASE t # s
    BY <1>1, <2>1, OthersKeep
  <2>2. CASE t = s
    BY <1>0, <2>2
      DEF Fresh, Removed, SessionInv, Claimed, Known, Planned, Engaged, Claim,
          Undecided, Preparing, Registered, NothingElse, Moving, PuttingBack, PutBack,
          Emptied, Disposable, HeldOf, Present, Empty
  <2> QED
    BY <2>1, <2>2
<1>5. LivingFilesKept'
  BY <1>0 DEF LivingFilesKept, Holds
<1>6. Removed' /\ Unused'
  BY DEF Removed, Unused
<1>7. ASSUME NEW t \in Sessions, t # s, Engaged(t)
      PROVE  op[t] # o /\ (plan[t].doc = e => FilesOf[e] \subseteq contended')
  BY <1>7 DEF Fresh, Contend
<1>8. ASSUME NEW t \in Sessions, NEW u \in Sessions PROVE Exclusive(t, u)'
  <2>1. op'[s] = o /\ plan'[s].doc = e
    OBVIOUS
  <2>2. \A v \in Sessions \ {s} : Same(v)
    BY <1>1 DEF OthersStay
  <2>3. Exclusive(t, u)
    OBVIOUS
  <2> HIDE DEF IndInv, TypeOK, BeginDelete
  <2>4. CASE t # s /\ u # s
    BY <1>0, <2>2, <2>3, <2>4 DEF Same, Exclusive, Engaged, Claim
  <2>5. CASE t = s \/ u = s
    BY <1>7, <2>1, <2>2, <2>5 DEF Same, Exclusive, Engaged, Claim
  <2> QED
    BY <2>4, <2>5
<1> QED
  BY <1>2, <1>3, <1>4, <1>5, <1>6, <1>8

(***************************************************************************)
(* A reconciliation begins with the directories it lists.                  *)
(***************************************************************************)
LEMMA BeginReconcileStep ==
  ASSUME IndInv, TypeOK', NEW s \in Sessions, BeginReconcile(s)
  PROVE  IndInv'
<1> USE DEF IndInv, TypeOK, BeginReconcile, store, area
<1>1. StepOf(s)
  BY DEF StepOf, OthersStay, KeepsPlan, Same, Engaged
<1>2. Disjoint' /\ NoOrphans'
  BY DEF Disjoint, NoOrphans
<1>3. ManifestsKnown'
  BY DEF ManifestsKnown, Known
<1>4. SessionInv(s)'
  BY DEF SessionInv, Claimed, Undecided, Preparing, Registered, NothingElse, Moving,
         PuttingBack, PutBack, Emptied, Disposable, Engaged
<1>5. LivingFilesKept'
  BY DEF LivingFilesKept, Holds
<1>6. Removed' /\ Unused'
  BY DEF Removed, Unused
<1> QED
  BY <1>1, <1>2, <1>3, <1>4, <1>5, <1>6, BusyStep DEF Established

(***************************************************************************)
(* A crash leaves the disk and the database, and no session is at work.    *)
(***************************************************************************)
LEMMA CrashStep ==
  ASSUME IndInv, TypeOK', Crash
  PROVE  IndInv'
<1> USE DEF IndInv, TypeOK, Crash, store, area
<1>1. Disjoint' /\ NoOrphans' /\ \A t, u \in Sessions : Exclusive(t, u)'
  BY DEF Disjoint, NoOrphans, Exclusive, Engaged
<1>2. ManifestsKnown'
  BY DEF ManifestsKnown, Known
<1>3. \A t \in Sessions : SessionInv(t)'
  BY DEF SessionInv, Claimed, Undecided, Preparing, Registered, NothingElse, Moving,
         PuttingBack, PutBack, Emptied, Disposable, Engaged
<1>4. LivingFilesKept'
  BY DEF LivingFilesKept, Holds
<1>5. Removed' /\ Unused'
  BY DEF Removed, Unused
<1> QED
  BY <1>1, <1>2, <1>3, <1>4, <1>5

-----------------------------------------------------------------------------
(***************************************************************************)
(* The invariant holds of the empty library.                               *)
(***************************************************************************)
LEMMA IndInit == Init => IndInv
<1> SUFFICES ASSUME Init PROVE IndInv
  OBVIOUS
<1> USE DEF Init
<1>1. TypeOK
  BY TypeInit
<1>2. Disjoint /\ ManifestsKnown /\ Removed /\ Unused
  BY DEF Disjoint, ManifestsKnown, Removed, Unused, Empty
<1>3. \A s \in Sessions : SessionInv(s)
  BY DEF SessionInv, Claimed, Undecided, Preparing, Registered, NothingElse, Moving,
         PuttingBack, PutBack, Emptied, Disposable, Engaged
<1>4. LivingFilesKept /\ NoOrphans /\ \A s, t \in Sessions : Exclusive(s, t)
  BY DEF LivingFilesKept, NoOrphans, Empty, Exclusive, Engaged
<1> QED
  BY <1>1, <1>2, <1>3, <1>4 DEF IndInv

(***************************************************************************)
(* Every step keeps the invariant, whatever work overlaps.                 *)
(***************************************************************************)
LEMMA IndStep == IndInv /\ [Next]_vars => IndInv'
<1> SUFFICES ASSUME IndInv, [Next]_vars PROVE IndInv'
  OBVIOUS
<1>1. TypeOK'
  BY TypeStep DEF IndInv
<1>2. ASSUME NEW s \in Sessions, UserStep(s) PROVE IndInv'
  BY <1>1, <1>2, ImportStep, SaveMarkdownStep, BeginDeleteStep DEF UserStep
<1>3. ASSUME NEW s \in Sessions, BeginReconcile(s) PROVE IndInv'
  BY <1>1, <1>3, BeginReconcileStep
<1>4. ASSUME NEW s \in Sessions, DeleteStep(s) PROVE IndInv'
  <2>1. StepOf(s) /\ Established(s)
    BY <1>1, <1>4, HashFailsStep, WriteManifestStep, ManifestFailsStep,
       MoveFileStep, MoveFailsStep, RestoreFileStep, RestoreFailsStep,
       QuarantinedStep, CommitRecordsStep, CommitFailsStep, RestoredStep
      DEF DeleteStep
  <2> QED
    BY <1>1, <2>1, BusyStep
<1>5. ASSUME NEW s \in Sessions, RemovalStep(s) PROVE IndInv'
  <2>1. StepOf(s) /\ Established(s)
    BY <1>1, <1>5, RemoveManifestStep, RemoveDirStep, RemovalFailsStep, RemoveFileStep
      DEF RemovalStep
  <2> QED
    BY <1>1, <2>1, BusyStep
<1>6. ASSUME NEW s \in Sessions, ReconcileStep(s) PROVE IndInv'
  <2>1. CASE \E o \in Ops : Decide(s, o)
    <3>1. /\ OthersStay(s) /\ Established(s)
          /\ \A t, u \in Sessions : Exclusive(t, u)'
      BY <1>1, <2>1, DecideStep
    <3>2. \A t \in Sessions : SessionInv(t)'
      BY <1>1, <3>1, OthersKeep DEF Established
    <3> QED
      BY <1>1, <3>1, <3>2 DEF IndInv, Established
  <2>2. CASE ~ \E o \in Ops : Decide(s, o)
    <3>1. StepOf(s) /\ Established(s)
      BY <1>1, <1>6, <2>2, UndecidableStep, RecoverFileStep, DropCopyStep,
         AlreadyBackStep, NoteProblemStep, RecoveredStep, VerifiedStep,
         EndReconcileStep
        DEF ReconcileStep
    <3> QED
      BY <1>1, <3>1, BusyStep
  <2> QED
    BY <2>1, <2>2
<1>7. CASE Crash
  BY <1>1, <1>7, CrashStep
<1>8. CASE UNCHANGED vars
  BY <1>8, <1>1
    DEF vars, IndInv, Disjoint, ManifestsKnown, Known, Removed, Unused,
        LivingFilesKept, Holds, NoOrphans, Exclusive, Engaged, SessionInv, Claimed,
        Undecided, Preparing, Registered, NothingElse, Moving, PuttingBack, PutBack,
        Emptied, Disposable, HeldOf, Claim
<1> QED
  BY <1>2, <1>3, <1>4, <1>5, <1>6, <1>7, <1>8 DEF Next, Work

(***************************************************************************)
(* The strengthening of LivingFilesKept and NoOrphans that is inductive:   *)
(* which files lie where in each phase of a deletion and of a recovery.    *)
(***************************************************************************)
THEOREM Inductive == Spec => []IndInv
  BY IndInit, IndStep, PTL DEF Spec

(***************************************************************************)
(* Whatever sessions do at the same time: no failure, no crash and no      *)
(* other session loses what was last stored for a document that has its    *)
(* row, unless two sessions were at work at once on the document, or on    *)
(* one that records the same file.                                         *)
(***************************************************************************)
THEOREM NothingLost == Spec => []LivingFilesKept
<1>1. IndInv => LivingFilesKept
  BY DEF IndInv
<1> QED
  BY <1>1, Inductive, PTL

(***************************************************************************)
(* And no file is left at, or comes back to, the path of a document that   *)
(* is deleted, with the same exception.                                    *)
(***************************************************************************)
THEOREM NothingLeft == Spec => []NoOrphans
<1>1. IndInv => NoOrphans
  BY DEF IndInv
<1> QED
  BY <1>1, Inductive, PTL

(***************************************************************************)
(* No step puts other content over a file that is there, except the one    *)
(* that stores it: an abort renames without looking, and finds nothing.    *)
(***************************************************************************)
Overwrite ==
    \E p \in Paths \ contended : /\ original[p] \notin {Missing, original'[p]}
                               /\ original'[p] \notin {Missing, saved'[p]}

(***************************************************************************)
(* The only rename that does not look first is the one of an abort, and    *)
(* its target is free.                                                     *)
(***************************************************************************)
LEMMA NoOverwriteStep == IndInv /\ [Next]_vars => ~Overwrite
<1> SUFFICES ASSUME IndInv, [Next]_vars PROVE ~Overwrite
  OBVIOUS
<1> USE DEF IndInv, TypeOK, Overwrite
<1>1. CASE UNCHANGED original
  BY <1>1
<1>2. ASSUME NEW s \in Sessions, NEW d \in Docs, Import(s, d) PROVE ~Overwrite
  BY <1>2 DEF Import
<1>3. ASSUME NEW s \in Sessions, NEW d \in Docs, NEW p \in Paths, NEW c \in Contents,
             SaveMarkdown(s, d, p, c)
      PROVE ~Overwrite
  BY <1>3 DEF SaveMarkdown, SetOriginal
<1>4. ASSUME NEW s \in Sessions, NEW p \in Paths, MoveFile(s, p) PROVE ~Overwrite
  BY <1>4 DEF MoveFile, SetOriginal
<1>5. ASSUME NEW s \in Sessions, NEW p \in Paths, RestoreFile(s, p) PROVE ~Overwrite
  <2>1. p \notin contended => original[p] = Missing
    BY <1>5 DEF RestoreFile, SessionInv, PuttingBack
  <2> QED
    BY <1>5, <2>1 DEF RestoreFile, SetOriginal
<1>6. ASSUME NEW s \in Sessions, NEW p \in Paths, RecoverFile(s, p) PROVE ~Overwrite
  BY <1>6 DEF RecoverFile, SetOriginal, Here
<1>7. CASE UNCHANGED vars
  BY <1>7 DEF vars
<1>8. ASSUME NEW s \in Sessions, UserStep(s) PROVE ~Overwrite
  <2>1. ASSUME NEW d \in Docs, NEW o \in Ops, BeginDelete(s, d, o) PROVE UNCHANGED original
    BY <2>1 DEF BeginDelete, store
  <2> QED
    BY <1>1, <1>2, <1>3, <1>8, <2>1 DEF UserStep
<1>9. ASSUME NEW s \in Sessions, DeleteStep(s) PROVE ~Overwrite
  <2>1. \/ UNCHANGED original
        \/ \E p \in Paths : MoveFile(s, p) \/ RestoreFile(s, p)
    BY <1>9
      DEF DeleteStep, HashFails, WriteManifest, ManifestFails, MoveFails,
          RestoreFails, Quarantined, CommitRecords, CommitFails, Restored, store
  <2> QED
    BY <1>1, <1>4, <1>5, <2>1
<1>10. ASSUME NEW s \in Sessions, RemovalStep(s) PROVE UNCHANGED original
  BY <1>10
    DEF RemovalStep, RemoveManifest, RemoveDir, RemovalFails, RemoveFile, store
<1>11. ASSUME NEW s \in Sessions, ReconcileStep(s) PROVE ~Overwrite
  <2>1. \/ UNCHANGED original
        \/ \E p \in Paths : RecoverFile(s, p)
    BY <1>11
      DEF ReconcileStep, Undecidable, Decide, DropCopy, AlreadyBack, NoteProblem,
          Recovered, Verified, EndReconcile, store
  <2> QED
    BY <1>1, <1>6, <2>1
<1>12. (\E s \in Sessions : BeginReconcile(s)) \/ Crash => UNCHANGED original
  BY DEF BeginReconcile, Crash, store
<1> QED
  BY <1>1, <1>7, <1>8, <1>9, <1>10, <1>11, <1>12 DEF Next, Work

(***************************************************************************)
(* So no move, no abort and no recovery replaces a stored file with an old *)
(* one, unless two sessions were at work at once on a document that        *)
(* records it.                                                             *)
(***************************************************************************)
THEOREM NeverOverwritten == Spec => NothingOverwritten
<1>1. ~Overwrite =>
        \A p \in Paths \ contended :
            original[p] \notin {Missing, original'[p]} => original'[p] \in {Missing, saved'[p]}
  BY DEF Overwrite
<1>2. IndInv /\ [Next]_vars
        => [\A p \in Paths \ contended :
               original[p] \notin {Missing, original'[p]} => original'[p] \in {Missing, saved'[p]}]_vars
  BY <1>1, NoOverwriteStep
<1> QED
  BY <1>2, Inductive, PTL DEF Spec, NothingOverwritten

=============================================================================
