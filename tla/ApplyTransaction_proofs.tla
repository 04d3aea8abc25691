----------------------- MODULE ApplyTransaction_proofs -----------------------
(* Theorems about ApplyTransaction, for all changes and any number of edits. *)
EXTENDS ApplyTransaction, TLAPS

Early(f) == <<f, "early">> \in edits
Raced(f) == <<f, "race">> \in edits

\* The outcome is decided and no unlink has taken its place.
Settled == phase = "clean" \/ (phase = "done" /\ CleanedUp)

\* What is known of the loops.
LoopFacts ==
    /\ phase \in {"preflight", "prepare", "check", "replace"} =>
           rollback_errors = {} /\ preserved_temps = {} /\ report = "none"
    /\ phase \in {"preflight", "prepare"} => applied = 0
    /\ phase \in {"check", "replace"} => applied = at - 1
    /\ phase \in {"rollback", "restore"} => at <= applied /\ report = "none"
    /\ \A f \in rollback_errors :
           /\ f <= applied
           /\ phase \in {"rollback", "restore"} => at < f
           /\ backup[f] # Missing => f \in preserved_temps
    /\ Settled /\ report # "partial" => rollback_errors = {}

\* The backup of a file is the baseline unless somebody edited the file before
\* it was taken, or in the window in which a deletion moves the file there.
BackedUp(f) ==
    IF Expected(f) = Missing THEN backup[f] = Missing
    ELSE backup[f] \in Contents /\ (~Early(f) /\ ~Raced(f) => backup[f] = Expected(f))

Kept(f) ==
    Expected(f) # Missing /\ ~Early(f) /\ ~Raced(f) => Expected(f) \in {backup[f], recovery[f]}

\* What each loop has done to the files behind it and not to those before it.
FilePrepared(f) ==
    IF phase = "prepare" /\ f < at
    THEN BackedUp(f) /\ (f \in Untouched => target[f] = Expected(f))
    ELSE backup[f] = Missing /\ (~Early(f) => target[f] = Expected(f))

FileCommitted(f) ==
    /\ BackedUp(f)
    /\ f \in Untouched => target[f] = IF f < at THEN Written(f) ELSE Expected(f)

FileRolledBack(f) ==
    IF f <= at
    THEN BackedUp(f) /\ (f \in Untouched => target[f] = Written(f))
    ELSE f \in Untouched => target[f] = Expected(f) \/ f \in rollback_errors

FileFinal(f) ==
    f \in Untouched => IF report = "applied" THEN target[f] = Written(f)
                       ELSE target[f] = Expected(f) \/ f \in rollback_errors

FileFacts(f) ==
    /\ phase \in {"preflight", "prepare"} => FilePrepared(f)
    /\ phase \in {"check", "replace"} => FileCommitted(f)
    /\ phase \in {"rollback", "restore"} => FileRolledBack(f)
    /\ Settled => FileFinal(f)
    /\ f \in rollback_errors => Kept(f)

\* What the last check found still holds, unless somebody used the window.
WindowFacts ==
    /\ phase = "replace" => Raced(at) \/ target[at] = Expected(at)
    /\ phase = "restore" => Raced(at) \/ target[at] = Written(at)

IInv ==
    /\ change \in Changes
    /\ ApplyTypeOK
    /\ LoopFacts
    /\ \A f \in Files : FileFacts(f)
    /\ WindowFacts
-----------------------------------------------------------------------------
\* A change is a non-empty sequence of files with contents that differ.
LEMMA ChangeFacts ==
    ASSUME change \in Changes
    PROVE  /\ Len(change) \in Nat \ {0} /\ Files = 1 .. Len(change)
           /\ \A f \in Files : /\ Expected(f) \in Image /\ Written(f) \in Image
                               /\ Expected(f) # Written(f)
                               /\ change[f].inNewDir \in BOOLEAN
           /\ Missing \notin Contents /\ Directory \notin Image
<1>1. change \in Seq(ChangedFile) /\ change # <<>>
  BY ChangesAssumption
<1>2. Len(change) \in Nat /\ Files = 1 .. Len(change) /\ change \in [1 .. Len(change) -> ChangedFile]
  BY <1>1 DEF Files
<1>3. Len(change) # 0
  BY <1>1, <1>2
<1>4. \A f \in Files : change[f] \in ChangedFile
  BY <1>2
<1>5. QED BY <1>2, <1>3, <1>4, ChangesAssumption DEF ChangedFile, Expected, Written

LEMMA ApplyInitInvariant == ApplyInit => IInv
<1> SUFFICES ASSUME ApplyInit PROVE IInv
  OBVIOUS
<1> USE DEF ApplyInit
<1>1. change \in Changes
  OBVIOUS
<1>2. ApplyTypeOK
  BY <1>1, ChangeFacts DEF ApplyTypeOK, Image
<1>3. LoopFacts
  BY <1>1, ChangeFacts DEF LoopFacts, Settled
<1>4. \A f \in Files : FileFacts(f)
  BY <1>1, ChangeFacts DEF FileFacts, FilePrepared, Settled
<1>5. WindowFacts
  BY DEF WindowFacts
<1>6. QED BY <1>1, <1>2, <1>3, <1>4, <1>5 DEF IInv

LEMMA PreflightStep == ASSUME IInv, Preflight PROVE IInv'
<1> USE DEF IInv, Preflight, diskVars, tallyVars
<1>1. change' = change /\ change' \in Changes /\ Files' = Files /\ Untouched' = Untouched
  BY DEF Files, Untouched
<1>2. ApplyTypeOK'
  BY <1>1, ChangeFacts DEF ApplyTypeOK, Advance, Refuse
<1>3. LoopFacts'
  BY <1>1, ChangeFacts DEF LoopFacts, Settled, Advance, Refuse
<1>4. ASSUME NEW f \in Files PROVE FileFacts(f)'
  BY <1>1, ChangeFacts DEF FileFacts, FilePrepared, FileFinal, Untouched, Early, Settled,
     LoopFacts, Advance, Refuse, Expected, Written
<1>5. WindowFacts'
  BY DEF WindowFacts, Advance, Refuse
<1>6. QED BY <1>1, <1>2, <1>3, <1>4, <1>5

\* A loop over the files stands at one of them.
LEMMA AtFile ==
    ASSUME IInv, phase \in {"preflight", "prepare", "check", "replace", "restore"}
    PROVE  at \in Files
  BY ChangeFacts DEF IInv, ApplyTypeOK

LEMMA PrepareStep == ASSUME IInv, Prepare PROVE IInv'
<1> USE DEF IInv, Prepare, tallyVars
<1>1. change' = change /\ change' \in Changes /\ Files' = Files /\ Untouched' = Untouched
  BY DEF Files, Untouched
<1>2. at \in Files
  BY AtFile
<1>3. ApplyTypeOK'
  <2>1. backup' \in [Files -> Image]
    BY <1>2, ChangeFacts DEF ApplyTypeOK, Image
  <2>2. prepared' \subseteq Files /\ dir' \in {"absent", "created", "foreign"}
    BY <1>2 DEF ApplyTypeOK, Prepared, MakeDirectory
  <2>3. QED BY <1>1, <2>1, <2>2, ChangeFacts DEF ApplyTypeOK, Advance
<1>4. LoopFacts'
  BY <1>1, ChangeFacts DEF LoopFacts, Settled, Advance
<1>5. ASSUME NEW f \in Files PROVE FileFacts(f)'
  <2>1. backup'[f] = IF f = at /\ Expected(f) # Missing THEN target[f] ELSE backup[f]
    BY <1>2 DEF ApplyTypeOK
  <2>2. f \in Untouched => ~Early(f)
    BY DEF Untouched, Early
  <2>3. FilePrepared(f) /\ rollback_errors' = {} /\ at \in Nat /\ f \in Nat
    <3>1. at \in Nat /\ f \in Nat
      BY <1>2, ChangeFacts
    <3>2. FilePrepared(f)
      BY DEF FileFacts
    <3>3. QED BY <3>1, <3>2 DEF LoopFacts
  <2>4. f <= at => BackedUp(f)' /\ (f \in Untouched => target[f] = Expected(f))
    BY <1>1, <2>1, <2>2, <2>3 DEF FilePrepared, BackedUp, Early, Raced, Expected
  <2>5. f > at => backup'[f] = Missing /\ (~Early(f) => target[f] = Expected(f))
    BY <1>1, <2>1, <2>3 DEF FilePrepared
  <2>6. CASE at < Len(change)
    BY <1>1, <2>3, <2>4, <2>5, <2>6 DEF FileFacts, FilePrepared, Early, Settled, Advance,
       Expected
  <2>7. CASE ~ (at < Len(change))
    <3>1. f <= at /\ phase' = "check" /\ at' = 1
      BY <1>2, <2>7, ChangeFacts DEF Advance
    <3>2. FileCommitted(f)'
      BY <1>1, <2>3, <2>4, <3>1, ChangeFacts DEF FileCommitted, Expected
    <3>3. QED BY <2>3, <3>1, <3>2 DEF FileFacts, Settled
  <2>8. QED BY <2>6, <2>7
<1>6. WindowFacts'
  BY DEF WindowFacts, Advance
<1>7. QED BY <1>1, <1>3, <1>4, <1>5, <1>6

LEMMA PrepareFailsStep == ASSUME IInv, PrepareFails PROVE IInv'
<1> USE DEF IInv, PrepareFails, Fail
<1>1. change' = change /\ change' \in Changes /\ Files' = Files /\ Untouched' = Untouched
  BY DEF Files, Untouched
<1>2. at \in Files /\ applied = 0
  BY AtFile DEF LoopFacts
<1>3. ApplyTypeOK'
  BY <1>1, <1>2, ChangeFacts DEF ApplyTypeOK, Prepared, MakeDirectory
<1>4. LoopFacts'
  BY <1>1, <1>2, ChangeFacts DEF LoopFacts, Settled
<1>5. ASSUME NEW f \in Files PROVE FileFacts(f)'
  <2>1. f \in Untouched => target[f] = Expected(f)
    BY DEF Untouched, Early, FileFacts, FilePrepared
  <2>2. ~ (f <= 0) /\ rollback_errors' = {}
    BY ChangeFacts DEF LoopFacts
  <2>3. QED BY <1>1, <1>2, <2>1, <2>2 DEF FileFacts, FileRolledBack, Settled, Expected
<1>6. WindowFacts'
  BY DEF WindowFacts
<1>7. QED BY <1>1, <1>3, <1>4, <1>5, <1>6

LEMMA CheckStep == ASSUME IInv, Check PROVE IInv'
<1> USE DEF IInv, Check, Fail, diskVars, tallyVars
<1>1. change' = change /\ change' \in Changes /\ Files' = Files /\ Untouched' = Untouched
  BY DEF Files, Untouched
<1>2. at \in Files /\ applied = at - 1 /\ rollback_errors' = {} /\ rollback_errors = {}
  BY AtFile DEF LoopFacts
<1>3. ApplyTypeOK'
  BY <1>1, <1>2, ChangeFacts DEF ApplyTypeOK
<1>4. LoopFacts'
  BY <1>1, <1>2, ChangeFacts DEF LoopFacts, Settled
<1>5. ASSUME NEW f \in Files PROVE FileFacts(f)'
  BY <1>1, <1>2, ChangeFacts DEF FileFacts, FileCommitted, FileRolledBack, BackedUp,
     Early, Raced, Settled, Expected, Written
<1>6. WindowFacts'
  BY <1>1 DEF WindowFacts, Expected
<1>7. QED BY <1>1, <1>3, <1>4, <1>5, <1>6

LEMMA ReplaceFailsStep == ASSUME IInv, ReplaceFails PROVE IInv'
<1> USE DEF IInv, ReplaceFails, Fail, diskVars
<1>1. change' = change /\ change' \in Changes /\ Files' = Files /\ Untouched' = Untouched
  BY DEF Files, Untouched
<1>2. at \in Files /\ applied = at - 1 /\ rollback_errors' = {} /\ rollback_errors = {}
  BY AtFile DEF LoopFacts
<1>3. ApplyTypeOK'
  BY <1>1, <1>2, ChangeFacts DEF ApplyTypeOK
<1>4. LoopFacts'
  BY <1>1, <1>2, ChangeFacts DEF LoopFacts, Settled
<1>5. ASSUME NEW f \in Files PROVE FileFacts(f)'
  BY <1>1, <1>2, ChangeFacts DEF FileFacts, FileCommitted, FileRolledBack, BackedUp,
     Early, Raced, Settled, Expected, Written
<1>6. WindowFacts'
  BY DEF WindowFacts
<1>7. QED BY <1>1, <1>3, <1>4, <1>5, <1>6

LEMMA ReplaceStep == ASSUME IInv, Replace PROVE IInv'
<1> USE DEF IInv, Replace, tallyVars
<1>1. change' = change /\ change' \in Changes /\ Files' = Files /\ Untouched' = Untouched
  BY DEF Files, Untouched
<1>2. at \in Files /\ applied = at - 1 /\ rollback_errors' = {} /\ rollback_errors = {}
  BY AtFile DEF LoopFacts
<1>3. /\ target' = [target EXCEPT ![at] = Written(at)]
      /\ prepared' \subseteq prepared
      /\ IF Written(at) # Missing THEN backup' = backup
         ELSE target[at] \in Contents /\ backup' = [backup EXCEPT ![at] = target[at]]
  BY DEF Install
<1>4. ApplyTypeOK'
  <2>1. target' \in [Files -> Image \cup {Directory}] /\ backup' \in [Files -> Image]
    BY <1>2, <1>3, ChangeFacts DEF ApplyTypeOK, Image
  <2>2. QED BY <1>1, <1>2, <1>3, <2>1, ChangeFacts DEF ApplyTypeOK, Advance
<1>5. LoopFacts'
  BY <1>1, <1>2, ChangeFacts DEF LoopFacts, Settled, Advance
<1>6. ASSUME NEW f \in Files PROVE FileFacts(f)'
  <2>1. FileCommitted(f) /\ f \in Nat /\ at \in Nat
    BY <1>2, ChangeFacts DEF FileFacts
  <2>2. target'[f] = IF f = at THEN Written(f) ELSE target[f]
    BY <1>2, <1>3 DEF ApplyTypeOK
  <2>3. BackedUp(f)'
    <3>1. Expected(at) = Missing => Written(at) # Missing
      BY <1>2, ChangeFacts
    <3>2. Raced(at) \/ target[at] = Expected(at)
      BY DEF WindowFacts
    <3>3. backup'[f] = IF f = at /\ Written(f) = Missing THEN target[f] ELSE backup[f]
      BY <1>2, <1>3 DEF ApplyTypeOK
    <3>4. QED BY <1>1, <1>3, <2>1, <3>1, <3>2, <3>3 DEF FileCommitted, BackedUp, Expected,
                 Early, Raced
  <2>4. f \in Untouched => target'[f] = IF f <= at THEN Written(f) ELSE Expected(f)
    BY <2>1, <2>2 DEF FileCommitted
  <2>5. CASE at < Len(change)
    BY <1>1, <1>2, <2>1, <2>3, <2>4, <2>5, ChangeFacts DEF FileFacts, FileCommitted,
       Settled, Advance, Expected, Written
  <2>6. CASE ~ (at < Len(change))
    BY <1>1, <1>2, <2>1, <2>4, <2>6, ChangeFacts DEF FileFacts, FileFinal, Settled,
       Advance, Expected, Written, ApplyTypeOK
  <2>7. QED BY <2>5, <2>6
<1>7. WindowFacts'
  BY DEF WindowFacts, Advance
<1>8. QED BY <1>1, <1>4, <1>5, <1>6, <1>7
-----------------------------------------------------------------------------
\* What every way of giving up on a file has in common: it becomes an error and
\* its backup is preserved or renamed.
BackupPreserved ==
    /\ UNCHANGED <<backup, recovery>>
    /\ preserved_temps' = IF backup[at] = Missing THEN preserved_temps
                                                  ELSE preserved_temps \cup {at}

BackupRenamed ==
    /\ recovery' = [recovery EXCEPT ![at] = backup[at]]
    /\ backup' = [backup EXCEPT ![at] = Missing]
    /\ UNCHANGED preserved_temps

LEMMA FileGivenUp ==
    ASSUME IInv, phase \in {"rollback", "restore"}, at > 0,
           UNCHANGED <<change, target, prepared, dir, applied, report, edits>>,
           phase' = "rollback", at' = at - 1,
           conflicts' \in {conflicts, conflicts \cup {at}},
           rollback_errors' = rollback_errors \cup {at},
           BackupPreserved \/ BackupRenamed
    PROVE  IInv'
<1> USE DEF IInv
<1>1. change' \in Changes /\ Files' = Files /\ Untouched' = Untouched
  BY DEF Files, Untouched
<1>2. at \in Files /\ at \in Nat /\ applied \in Nat
  BY ChangeFacts DEF ApplyTypeOK
<1>3. backup' \in [Files -> Image] /\ recovery' \in [Files -> Image]
  BY <1>2 DEF BackupPreserved, BackupRenamed, ApplyTypeOK, Image
<1>4. preserved_temps \subseteq preserved_temps' /\ preserved_temps' \subseteq preserved_temps \cup {at}
  BY DEF BackupPreserved, BackupRenamed
<1>5. ApplyTypeOK'
  BY <1>1, <1>2, <1>3, <1>4, ChangeFacts DEF ApplyTypeOK
<1>6. /\ \A f \in Files : f # at => backup'[f] = backup[f] /\ recovery'[f] = recovery[f]
      /\ backup[at] \in {backup'[at], recovery'[at]}
      /\ backup'[at] # Missing => at \in preserved_temps'
  BY <1>2 DEF BackupPreserved, BackupRenamed, ApplyTypeOK
<1>7. LoopFacts'
  <2>1. ASSUME NEW f \in rollback_errors'
        PROVE  f <= applied /\ at - 1 < f /\ (backup'[f] # Missing => f \in preserved_temps')
    <3>1. CASE f = at
      BY <1>2, <1>6, <3>1 DEF LoopFacts
    <3>2. CASE f # at
      <4>1. f \in rollback_errors /\ f \in Files
        BY <3>2 DEF ApplyTypeOK
      <4>2. f \in Nat /\ f <= applied /\ at < f /\ (backup[f] # Missing => f \in preserved_temps)
        BY <4>1, ChangeFacts DEF LoopFacts
      <4>3. QED BY <1>2, <1>4, <1>6, <3>2, <4>1, <4>2
    <3>3. QED BY <3>1, <3>2
  <2>2. QED BY <1>2, <2>1 DEF LoopFacts, Settled
<1>8. ASSUME NEW f \in Files PROVE FileFacts(f)'
  <2>1. FileRolledBack(f) /\ f \in Nat /\ (f \in rollback_errors => Kept(f))
    BY ChangeFacts DEF FileFacts
  <2>2. FileRolledBack(f)'
    <3>1. CASE f < at
      BY <1>1, <1>2, <1>6, <2>1, <3>1 DEF FileRolledBack, BackedUp, Early, Raced, Expected, Written
    <3>2. CASE ~ (f < at)
      BY <1>1, <1>2, <2>1, <3>2 DEF FileRolledBack, Expected
    <3>3. QED BY <3>1, <3>2
  <2>3. f \in rollback_errors' => Kept(f)'
    <3>1. CASE f = at
      BY <1>2, <1>6, <2>1, <3>1 DEF FileRolledBack, BackedUp, Kept, Early, Raced, Expected
    <3>2. CASE f # at
      BY <1>6, <2>1, <3>2 DEF Kept, Early, Raced, Expected
    <3>3. QED BY <3>1, <3>2
  <2>4. QED BY <2>2, <2>3 DEF FileFacts, Settled
<1>9. WindowFacts'
  BY DEF WindowFacts
<1>10. QED BY <1>1, <1>5, <1>7, <1>8, <1>9

LEMMA RollbackCheckStep == ASSUME IInv, RollbackCheck PROVE IInv'
<1> USE DEF RollbackCheck
<1>1. CASE target[at] = Written(at) /\ phase' = "restore"
           /\ UNCHANGED <<at, tallyVars, backup, recovery>>
  <2> USE <1>1 DEF IInv, tallyVars
  <2>1. change' = change /\ change' \in Changes /\ Files' = Files /\ Untouched' = Untouched
    BY DEF Files, Untouched
  <2>2. ApplyTypeOK'
    BY <2>1, ChangeFacts DEF ApplyTypeOK
  <2>3. LoopFacts'
    BY <2>1, ChangeFacts DEF LoopFacts, Settled
  <2>4. ASSUME NEW f \in Files PROVE FileFacts(f)'
    BY <2>1 DEF FileFacts, FileRolledBack, BackedUp, Kept, Early, Raced, Settled, Expected,
       Written
  <2>5. WindowFacts'
    BY <2>1 DEF WindowFacts, Written
  <2>6. QED BY <2>1, <2>2, <2>3, <2>4, <2>5
<1>2. CASE LeaveToOthers
  BY <1>2, FileGivenUp DEF LeaveToOthers, BackupRenamed
<1>3. CASE LeaveWithoutRename
  BY <1>3, FileGivenUp DEF LeaveWithoutRename, BackupPreserved
<1>4. CASE RollbackFailure
  BY <1>4, FileGivenUp DEF RollbackFailure, BackupPreserved
<1>5. QED BY <1>1, <1>2, <1>3, <1>4

LEMMA RestoreFailsStep == ASSUME IInv, RestoreFails PROVE IInv'
<1>1. at > 0
  BY AtFile, ChangeFacts DEF RestoreFails, IInv
<1>2. QED BY <1>1, FileGivenUp DEF RestoreFails, RollbackFailure, BackupPreserved

LEMMA RestoreStep == ASSUME IInv, Restore PROVE IInv'
<1> USE DEF IInv, Restore, tallyVars
<1>1. change' = change /\ change' \in Changes /\ Files' = Files /\ Untouched' = Untouched
  BY DEF Files, Untouched
<1>2. at \in Files /\ at \in Nat
  BY AtFile, ChangeFacts
<1>3. ApplyTypeOK'
  <2>1. target' \in [Files -> Image \cup {Directory}] /\ backup' \in [Files -> Image]
    BY <1>2 DEF ApplyTypeOK, Image
  <2>2. QED BY <1>1, <1>2, <2>1, ChangeFacts DEF ApplyTypeOK
<1>4. \A f \in Files : /\ target'[f] = IF f = at THEN backup[f] ELSE target[f]
                       /\ backup'[f] = IF f = at THEN Missing ELSE backup[f]
  BY <1>2 DEF ApplyTypeOK
<1>5. ASSUME NEW f \in rollback_errors
      PROVE  /\ f \in Files /\ f \in Nat /\ f <= applied /\ at < f
             /\ backup[f] # Missing => f \in preserved_temps
  <2>1. f \in Files
    BY DEF ApplyTypeOK
  <2>2. f \in Nat
    BY <2>1, ChangeFacts
  <2>3. QED BY <2>1, <2>2 DEF LoopFacts
<1>6. LoopFacts'
  <2>1. at <= applied /\ applied \in Nat
    BY DEF LoopFacts, ApplyTypeOK
  <2>2. \A f \in rollback_errors :
          f <= applied /\ at - 1 < f /\ (backup'[f] # Missing => f \in preserved_temps)
    BY <1>2, <1>4, <1>5
  <2>3. QED BY <1>2, <2>1, <2>2 DEF LoopFacts, Settled
<1>7. ASSUME NEW f \in Files PROVE FileFacts(f)'
  <2>1. FileRolledBack(f) /\ f \in Nat /\ (f \in rollback_errors => Kept(f))
    BY ChangeFacts DEF FileFacts
  <2>2. f \in Untouched => ~Early(f) /\ ~Raced(f)
    BY DEF Untouched, Early, Raced
  <2>3. FileRolledBack(f)'
    <3>1. CASE f < at
      BY <1>1, <1>2, <1>4, <2>1, <3>1 DEF FileRolledBack, BackedUp, Early, Raced, Expected, Written
    <3>2. CASE f = at
      BY <1>1, <1>2, <1>4, <2>1, <2>2, <3>2 DEF FileRolledBack, BackedUp, Expected
    <3>3. CASE f > at
      BY <1>1, <1>2, <1>4, <2>1, <3>3 DEF FileRolledBack, Expected
    <3>4. QED BY <1>2, <2>1, <3>1, <3>2, <3>3
  <2>4. f \in rollback_errors' => Kept(f)'
    BY <1>2, <1>4, <1>5, <2>1 DEF Kept, Early, Raced, Expected
  <2>5. QED BY <2>3, <2>4 DEF FileFacts, Settled
<1>8. WindowFacts'
  BY DEF WindowFacts
<1>9. QED BY <1>1, <1>3, <1>6, <1>7, <1>8
LEMMA RemoveDirectoriesStep == ASSUME IInv, RemoveDirectories PROVE IInv'
<1> USE DEF IInv, RemoveDirectories, tallyVars
<1>1. change' = change /\ change' \in Changes /\ Files' = Files /\ Untouched' = Untouched
  BY DEF Files, Untouched
<1>2. ApplyTypeOK'
  BY <1>1, ChangeFacts DEF ApplyTypeOK
<1>3. LoopFacts'
  BY DEF LoopFacts, Settled
<1>4. ASSUME NEW f \in Files PROVE FileFacts(f)'
  <2>1. ~ (f <= at)
    BY ChangeFacts
  <2>2. QED BY <1>1, <2>1 DEF FileFacts, FileRolledBack, FileFinal, Kept, Early, Raced,
               Settled, Expected
<1>5. WindowFacts'
  BY DEF WindowFacts
<1>6. QED BY <1>1, <1>2, <1>3, <1>4, <1>5

LEMMA CleanStep == ASSUME IInv, Clean PROVE IInv'
<1> USE DEF IInv, Clean, tallyVars
<1>1. change' = change /\ change' \in Changes /\ Files' = Files /\ Untouched' = Untouched
  BY DEF Files, Untouched
<1>2. ApplyTypeOK'
  BY <1>1, ChangeFacts DEF ApplyTypeOK, Image
<1>3. Settled /\ \A f \in rollback_errors : backup[f] # Missing => f \in preserved_temps
  BY DEF LoopFacts, Settled
<1>4. \A f \in rollback_errors : f \in Files
  BY DEF ApplyTypeOK
<1>5. LoopFacts'
  BY <1>3, <1>4 DEF LoopFacts, Settled
<1>6. ASSUME NEW f \in Files PROVE FileFacts(f)'
  BY <1>1, <1>3 DEF FileFacts, FileFinal, Kept, Early, Raced, Settled, Expected, Written
<1>7. WindowFacts'
  BY DEF WindowFacts
<1>8. QED BY <1>1, <1>2, <1>5, <1>6, <1>7

LEMMA CleanFailsStep == ASSUME IInv, CleanFails PROVE IInv'
<1> USE DEF IInv, CleanFails
<1>1. change' = change /\ change' \in Changes /\ Files' = Files /\ Untouched' = Untouched
  BY DEF Files, Untouched
<1>2. /\ prepared' \subseteq prepared
      /\ backup' \in [Files -> Image]
      /\ \A f \in Files : backup'[f] = backup[f] \/ (f \in Loose /\ backup'[f] = Missing)
      /\ ~CleanedUp'
  <2>1. CASE \E f \in prepared : prepared' = {g \in prepared : g >= f} /\ UNCHANGED backup
    <3>1. PICK f \in prepared : prepared' = {g \in prepared : g >= f} /\ UNCHANGED backup
      BY <2>1
    <3>2. f \in Nat
      BY ChangeFacts DEF ApplyTypeOK
    <3>3. QED BY <3>1, <3>2 DEF ApplyTypeOK, CleanedUp
  <2>2. CASE \E f \in Loose :
                /\ prepared' = {}
                /\ backup' = [g \in Files |-> IF g \in Loose /\ g < f THEN Missing ELSE backup[g]]
    <3>1. PICK f \in Loose :
                /\ prepared' = {}
                /\ backup' = [g \in Files |-> IF g \in Loose /\ g < f THEN Missing ELSE backup[g]]
      BY <2>2
    <3>2. f \in Files /\ f \notin preserved_temps /\ backup[f] # Missing /\ ~ (f < f)
      BY <3>1, ChangeFacts DEF Loose
    <3>3. f \in Loose'
      BY <1>1, <3>1, <3>2 DEF Loose
    <3>4. QED BY <3>1, <3>3 DEF ApplyTypeOK, CleanedUp, Image
  <2>3. QED BY <2>1, <2>2
<1>3. ApplyTypeOK'
  BY <1>1, <1>2, ChangeFacts DEF ApplyTypeOK
<1>4. \A f \in rollback_errors : f \in Files /\ (backup[f] # Missing => f \in preserved_temps)
  BY DEF ApplyTypeOK, LoopFacts
<1>5. LoopFacts'
  BY <1>2, <1>4 DEF LoopFacts, Settled
<1>6. ASSUME NEW f \in Files PROVE FileFacts(f)'
  BY <1>1, <1>2, <1>4 DEF FileFacts, Kept, Early, Raced, Settled, Expected, Loose
<1>7. WindowFacts'
  BY DEF WindowFacts
<1>8. QED BY <1>1, <1>3, <1>5, <1>6, <1>7

LEMMA EditStep ==
    ASSUME IInv, NEW g \in Files, NEW content \in Image \cup {Directory}, Edit(g, content)
    PROVE  IInv'
<1> USE DEF IInv, Edit, tallyVars
<1>1. change' = change /\ change' \in Changes /\ Files' = Files
  BY DEF Files
<1>2. /\ When(g) \in {"early", "race", "open"}
      /\ edits \subseteq edits' /\ <<g, When(g)>> \in edits'
      /\ \A f \in Files : f # g => (Early(f)' <=> Early(f)) /\ (Raced(f)' <=> Raced(f))
      /\ phase \in {"preflight", "prepare"} /\ backup[g] # Missing => (Early(g)' <=> Early(g))
  BY DEF When, Early, Raced
<1>3. /\ \A f \in Files : f \in Untouched' => f # g /\ f \in Untouched
      /\ \A f \in Files : (Early(f) => Early(f)') /\ (Raced(f) => Raced(f)')
  BY <1>1, <1>2 DEF Untouched, Early, Raced
<1>4. \A f \in Files : target'[f] = IF f = g THEN content ELSE target[f]
  BY DEF ApplyTypeOK
<1>5. ApplyTypeOK'
  BY <1>1, <1>2, ChangeFacts DEF ApplyTypeOK
<1>6. LoopFacts'
  BY <1>1 DEF LoopFacts, Settled
<1>7. ASSUME NEW f \in Files PROVE FileFacts(f)'
  <2>1. BackedUp(f) => BackedUp(f)'
    BY <1>1, <1>3 DEF BackedUp, Expected
  <2>2. phase \in {"preflight", "prepare"} => FilePrepared(f)'
    <3>1. CASE phase = "prepare" /\ f < at
      BY <1>1, <1>3, <1>4, <2>1, <3>1 DEF FilePrepared, FileFacts, Expected
    <3>2. CASE phase \in {"preflight", "prepare"} /\ ~ (phase = "prepare" /\ f < at) /\ f = g
      BY <1>2, <3>2 DEF FilePrepared, FileFacts, When, Early
    <3>3. CASE phase \in {"preflight", "prepare"} /\ ~ (phase = "prepare" /\ f < at) /\ f # g
      BY <1>1, <1>3, <1>4, <3>3 DEF FilePrepared, FileFacts, Expected
    <3>4. QED BY <3>1, <3>2, <3>3
  <2>3. phase \in {"check", "replace"} => FileCommitted(f)'
    BY <1>1, <1>3, <1>4, <2>1 DEF FileCommitted, FileFacts, Expected, Written
  <2>4. phase \in {"rollback", "restore"} => FileRolledBack(f)'
    BY <1>1, <1>3, <1>4, <2>1 DEF FileRolledBack, FileFacts, Expected, Written
  <2>5. Settled => FileFinal(f)'
    BY <1>1, <1>3, <1>4 DEF FileFinal, FileFacts, Expected, Written
  <2>6. f \in rollback_errors => Kept(f)'
    BY <1>1, <1>3 DEF Kept, FileFacts, Expected
  <2>7. QED BY <2>2, <2>3, <2>4, <2>5, <2>6 DEF FileFacts, Settled
<1>8. WindowFacts'
  <2>1. phase \in {"replace", "restore"} => at \in Files
    BY AtFile
  <2>2. phase \in {"replace", "restore"} /\ at = g => Raced(at)'
    BY <1>2 DEF When, Raced
  <2>3. QED BY <1>1, <1>3, <1>4, <2>1, <2>2 DEF WindowFacts, Expected, Written
<1>9. QED BY <1>1, <1>5, <1>6, <1>7, <1>8
-----------------------------------------------------------------------------
LEMMA ApplyNextInvariant == IInv /\ [ApplyNext]_avars => IInv'
<1> SUFFICES ASSUME IInv, [ApplyNext]_avars PROVE IInv'
  OBVIOUS
<1>1. CASE Step
  BY <1>1, PreflightStep, PrepareStep, PrepareFailsStep, CheckStep, ReplaceStep,
     ReplaceFailsStep, RollbackCheckStep, RestoreStep, RestoreFailsStep,
     RemoveDirectoriesStep, CleanStep, CleanFailsStep DEF Step
<1>2. CASE \E f \in Files, content \in Image \cup {Directory} : Edit(f, content)
  BY <1>2, EditStep
<1>3. CASE Over \/ UNCHANGED avars
  <2> USE <1>3 DEF Over, avars, diskVars, tallyVars
  <2>1. change' = change /\ Files' = Files /\ Untouched' = Untouched /\ Loose' = Loose
    BY DEF Files, Untouched, Loose
  <2>2. ApplyTypeOK'
    BY <2>1 DEF IInv, ApplyTypeOK
  <2>3. Settled' = Settled
    BY <2>1 DEF Settled, CleanedUp
  <2>4. LoopFacts'
    BY <2>3 DEF IInv, LoopFacts
  <2>5. ASSUME NEW f \in Files PROVE FileFacts(f)'
    BY <2>1, <2>3 DEF IInv, FileFacts, FilePrepared, FileCommitted, FileRolledBack, FileFinal,
       BackedUp, Kept, Early, Raced, Expected, Written
  <2>6. QED BY <2>1, <2>2, <2>4, <2>5 DEF IInv, WindowFacts, Raced, Expected, Written
<1>4. QED BY <1>1, <1>2, <1>3 DEF ApplyNext

\* The invariant from which the theorems below follow.
THEOREM ApplyInvariance == ApplySpec => []IInv
  BY ApplyInitInvariant, ApplyNextInvariant, PTL DEF ApplySpec

\* For every change: files, temporary files and loops keep their types.
THEOREM ApplyTypeCorrect == ApplySpec => []ApplyTypeOK
<1>1. IInv => ApplyTypeOK
  BY DEF IInv
<1>2. QED BY <1>1, ApplyInvariance, PTL

\* For every change, whatever fails and whatever an editor does: the report
\* describes the files nobody else touched.
THEOREM ReportDescribesFiles == ApplySpec => []OutcomeTold
<1>1. IInv => OutcomeTold
  BY DEF IInv, OutcomeTold, LoopFacts, FileFacts, FileFinal, Settled, Untouched
<1>2. QED BY <1>1, ApplyInvariance, PTL

\* For every change: the original of a file that stands replaced is on disk.
THEOREM OriginalsOnDisk == ApplySpec => []OriginalKept
<1>1. IInv => OriginalKept
  <2> SUFFICES ASSUME IInv, NEW f \in Files, Replaced(f), Expected(f) # Missing,
                      ~Early(f), ~Raced(f)
               PROVE  Expected(f) \in {backup[f], recovery[f]}
    BY DEF OriginalKept, Early, Raced
  <2>1. CASE f \in rollback_errors
    BY <2>1 DEF IInv, FileFacts, Kept
  <2>2. CASE f \notin rollback_errors
    BY <2>2 DEF Replaced, IInv, FileFacts, FileCommitted, FileRolledBack, BackedUp
  <2>3. QED BY <2>1, <2>2
<1>2. QED BY <1>1, ApplyInvariance, PTL

\* For every change: outside the window after a check the transaction destroys
\* only the baseline and its own content.
THEOREM EditsSurvive == ApplySpec => EditsRespected
<1> DEFINE Respects ==
      \A f \in Files : target'[f] # target[f] /\ <<phase, at>>' # <<phase, at>> =>
          \/ <<f, "race">> \in edits
          \/ target[f] = IF phase = "replace" THEN Expected(f) ELSE Written(f)
<1>1. IInv /\ [ApplyNext]_avars => [Respects]_avars
  <2> SUFFICES ASSUME IInv, ApplyNext, NEW f \in Files, target'[f] # target[f],
                      <<phase, at>>' # <<phase, at>>
               PROVE  \/ <<f, "race">> \in edits
                      \/ target[f] = IF phase = "replace" THEN Expected(f) ELSE Written(f)
    OBVIOUS
  <2>1. Replace \/ Restore
    BY DEF ApplyNext, Step, Over, avars, Edit, Preflight, Prepare, PrepareFails, Check,
       ReplaceFails, RollbackCheck, RestoreFails, RemoveDirectories, Clean, CleanFails,
       diskVars
  <2>2. f = at
    BY <2>1 DEF Replace, Install, Restore, IInv, ApplyTypeOK
  <2>3. QED BY <2>1, <2>2 DEF IInv, WindowFacts, Raced, Replace, Restore
<1>2. QED BY <1>1, ApplyInvariance, PTL DEF ApplySpec, EditsRespected
=============================================================================
