--------------------------- MODULE ApplyTransaction ---------------------------
(***************************************************************************)
(* The application of an approved change to the user's source tree, file   *)
(* by file (_atomic_apply_workspace_locked in agent/workspace.py), beside  *)
(* an editor that takes no part in the process-wide lock.                  *)
(*                                                                         *)
(* A change is the sorted list of changed files, each with its content in  *)
(* the baseline and in the working copy.  A content stands for its digest. *)
(* A temporary file is named by its target and its role: the prepared one  *)
(* holds the new content, backup and recovery hold what they were given.   *)
(* At most one directory has to be made; change[f].inNewDir says which new *)
(* files lie in it.                                                        *)
(***************************************************************************)
EXTENDS Naturals, Sequences, FiniteSets

CONSTANTS Contents,    \* contents of files
          Missing,     \* no file there
          Directory,   \* something there that is not a regular file
          Changes,     \* the changes a run may have to apply
          MaxEdits     \* bound of the model: kinds of edits in one behaviour

Image == Contents \cup {Missing}

ChangedFile ==
    {c \in [base : Image, final : Image, inNewDir : BOOLEAN] :
        c.base # c.final /\ (c.inNewDir => c.base = Missing)}

ASSUME ChangesAssumption ==
    /\ Changes \subseteq Seq(ChangedFile) \ {<<>>}
    /\ Missing \notin Contents /\ Directory \notin Image /\ Missing # Directory
    /\ MaxEdits \in Nat

VARIABLES change,      \* the files to apply, in order
          target,      \* what is at the path of each file
          prepared,    \* the files whose prepared temporary file exists
          backup,      \* content of each backup file, or Missing
          recovery,    \* content of each recovery file, or Missing
          dir,         \* the directory to make: absent, created, foreign
          phase, at,   \* the loop the code is in, and its file
          applied,     \* files replaced so far: 1 .. applied
          conflicts, rollback_errors, preserved_temps,
          report,      \* rollback_status of the detail, or "applied"
          edits        \* history: edits by others, as <<file, when>>

avars == <<change, target, prepared, backup, recovery, dir, phase, at, applied,
           conflicts, rollback_errors, preserved_temps, report, edits>>
diskVars == <<target, prepared, backup, recovery, dir>>
tallyVars == <<conflicts, rollback_errors, preserved_temps>>

Files == DOMAIN change
Expected(f) == change[f].base
Written(f) == change[f].final

ApplyInit ==
    /\ change \in Changes
    /\ target = [f \in Files |-> Expected(f)]
    /\ prepared = {}
    /\ backup = [f \in Files |-> Missing]
    /\ recovery = [f \in Files |-> Missing]
    /\ dir = "absent"
    /\ phase = "preflight" /\ at = 1 /\ applied = 0
    /\ conflicts = {} /\ rollback_errors = {} /\ preserved_temps = {}
    /\ report = "none" /\ edits = {}

\* Mutant of Advance: one file too many.
AdvanceFar(p, q) ==
    IF at <= Len(change) THEN phase' = p /\ at' = at + 1
                         ELSE phase' = q /\ at' = 1

\* The loop of phase p goes on to its next file, or to phase q after the last.
Advance(p, q) ==
    IF at < Len(change) THEN phase' = p /\ at' = at + 1
                        ELSE phase' = q /\ at' = 1

\* Mutant of Fail: the file replaced last is not rolled back.
FailSkippingLast(found) ==
    /\ conflicts' = found
    /\ phase' = "rollback" /\ at' = IF applied = 0 THEN 0 ELSE applied - 1
    /\ UNCHANGED <<rollback_errors, preserved_temps, report>>

\* An exception inside the try statement.
Fail(found) ==
    /\ conflicts' = found
    /\ phase' = "rollback" /\ at' = applied
    /\ UNCHANGED <<rollback_errors, preserved_temps, report>>

\* A difference or an unreadable file before anything is written.
Refuse ==
    /\ phase' = "done" /\ report' = "not_required"
    /\ conflicts' \in {{at}, {}}
    /\ UNCHANGED <<at, rollback_errors, preserved_temps>>

Preflight ==
    /\ phase = "preflight"
    /\ \/ /\ target[at] = Expected(at)
          /\ Advance("preflight", "prepare")
          /\ UNCHANGED <<tallyVars, report>>
       \/ Refuse
    /\ UNCHANGED <<change, diskVars, applied, edits>>
-----------------------------------------------------------------------------
\* _ensure_parent_directory, which may also fail.
MakeDirectory(made) ==
    LET needed == change[at].inNewDir /\ dir = "absent" IN
    /\ made => needed
    /\ dir' = IF made THEN "created" ELSE dir

Prepared == IF Written(at) = Missing THEN prepared ELSE prepared \cup {at}

\* The prepared file is written and the file as it is now is backed up; it is
\* read anew, not compared with the baseline.
Prepare ==
    /\ phase = "prepare"
    /\ MakeDirectory(change[at].inNewDir /\ dir = "absent")
    /\ prepared' = Prepared
    /\ Expected(at) # Missing => target[at] \in Contents
    /\ backup' = [backup EXCEPT ![at] = IF Expected(at) = Missing THEN @ ELSE target[at]]
    /\ Advance("prepare", "check")
    /\ UNCHANGED <<change, target, recovery, applied, tallyVars, report, edits>>

\* A directory, a temporary file or the reading of the target fails.
PrepareFails ==
    /\ phase = "prepare"
    /\ \E made \in BOOLEAN : MakeDirectory(made)
    /\ prepared' \in
         {prepared, IF change[at].inNewDir /\ dir' = "absent" THEN prepared ELSE Prepared}
    /\ Fail({})
    /\ UNCHANGED <<change, target, backup, recovery, applied, edits>>
-----------------------------------------------------------------------------
\* Immediately before its replacement a target is compared with the baseline.
\* A difference or a read error names the file, a reparse point does not.
Check ==
    /\ phase = "check"
    /\ \/ /\ target[at] = Expected(at)
          /\ phase' = "replace" /\ UNCHANGED <<at, tallyVars, report>>
       \/ Fail({at})
       \/ Fail({})
    /\ UNCHANGED <<change, diskVars, applied, edits>>

\* os.replace from the prepared file, or of the target into its backup when
\* the change deletes the file; either needs the right kind of thing there.
Install ==
    IF Written(at) # Missing
    THEN /\ target[at] # Directory
         /\ target' = [target EXCEPT ![at] = Written(at)]
         /\ prepared' = prepared \ {at}
         /\ UNCHANGED backup
    ELSE /\ target[at] \in Contents
         /\ backup' = [backup EXCEPT ![at] = target[at]]
         /\ target' = [target EXCEPT ![at] = Missing]
         /\ UNCHANGED prepared

Replace ==
    /\ phase = "replace"
    /\ Install
    /\ applied' = at
    /\ Advance("check", "clean")
    /\ report' = IF at = Len(change) THEN "applied" ELSE report
    /\ UNCHANGED <<change, recovery, dir, tallyVars, edits>>

ReplaceFails ==
    /\ phase = "replace"
    /\ Fail({})
    /\ UNCHANGED <<change, diskVars, applied, edits>>
-----------------------------------------------------------------------------
\* Mutant of RollbackFailure: the backup is not preserved.
RollbackFailureForgetting ==
    /\ rollback_errors' = rollback_errors \cup {at}
    /\ phase' = "rollback" /\ at' = at - 1
    /\ UNCHANGED <<conflicts, preserved_temps, backup, recovery>>

\* An exception while a file is rolled back: its backup is kept where it is.
RollbackFailure ==
    /\ rollback_errors' = rollback_errors \cup {at}
    /\ preserved_temps' = IF backup[at] = Missing THEN preserved_temps
                                                  ELSE preserved_temps \cup {at}
    /\ phase' = "rollback" /\ at' = at - 1
    /\ UNCHANGED <<conflicts, backup, recovery>>

\* Somebody changed the file since it was replaced: it is left alone, and its
\* backup becomes a recovery file.
LeaveToOthers ==
    /\ target[at] # Written(at)
    /\ conflicts' = conflicts \cup {at}
    /\ rollback_errors' = rollback_errors \cup {at}
    /\ recovery' = [recovery EXCEPT ![at] = backup[at]]
    /\ backup' = [backup EXCEPT ![at] = Missing]
    /\ phase' = "rollback" /\ at' = at - 1
    /\ UNCHANGED preserved_temps

\* The same, but the renaming of the backup fails.
LeaveWithoutRename ==
    /\ target[at] # Written(at) /\ backup[at] # Missing
    /\ conflicts' = conflicts \cup {at}
    /\ rollback_errors' = rollback_errors \cup {at}
    /\ preserved_temps' = preserved_temps \cup {at}
    /\ phase' = "rollback" /\ at' = at - 1
    /\ UNCHANGED <<backup, recovery>>

\* Mutant of RollbackCheck: the file is restored whatever it holds.
RollbackUnchecked ==
    /\ phase = "rollback" /\ at > 0
    /\ phase' = "restore"
    /\ UNCHANGED <<change, diskVars, at, applied, tallyVars, report, edits>>

RollbackCheck ==
    /\ phase = "rollback" /\ at > 0
    /\ \/ /\ target[at] = Written(at)
          /\ phase' = "restore" /\ UNCHANGED <<at, tallyVars, backup, recovery>>
       \/ LeaveToOthers
       \/ LeaveWithoutRename
       \/ RollbackFailure
    /\ UNCHANGED <<change, target, prepared, dir, applied, report, edits>>

\* The backup goes back in place; a file that has none is removed.
Restore ==
    /\ phase = "restore"
    /\ IF backup[at] # Missing THEN target[at] # Directory
                               ELSE target[at] \in Contents
    /\ target' = [target EXCEPT ![at] = backup[at]]
    /\ backup' = [backup EXCEPT ![at] = Missing]
    /\ phase' = "rollback" /\ at' = at - 1
    /\ UNCHANGED <<change, prepared, recovery, dir, applied, tallyVars, report, edits>>

RestoreFails ==
    /\ phase = "restore"
    /\ RollbackFailure
    /\ UNCHANGED <<change, target, prepared, dir, applied, report, edits>>
-----------------------------------------------------------------------------
\* What lies in the directory that was made.
InNewDir(f) == change[f].inNewDir /\ (target[f] # Missing \/ f \in prepared)

\* rmdir removes an empty directory and its errors are ignored.  Then the
\* error is raised, with what the rollback left behind.
RemoveDirectories ==
    /\ phase = "rollback" /\ at = 0
    /\ dir' \in IF dir = "created" /\ ~ \E f \in Files : InNewDir(f)
                THEN {"absent", "created"} ELSE {dir}
    /\ report' = IF rollback_errors # {} THEN "partial"
                 ELSE IF applied > 0 THEN "complete" ELSE "not_required"
    /\ phase' = "clean"
    /\ UNCHANGED <<change, target, prepared, backup, recovery, at, applied, tallyVars, edits>>

\* The finally clause unlinks prepared files, then backups not preserved.
Clean ==
    /\ phase = "clean" /\ phase' = "done"
    /\ prepared' = {}
    /\ backup' = [f \in Files |-> IF f \in preserved_temps THEN backup[f] ELSE Missing]
    /\ UNCHANGED <<change, target, recovery, dir, at, applied, tallyVars, report, edits>>

Loose == {f \in Files \ preserved_temps : backup[f] # Missing}

\* An unlink raises.  Its exception takes the place of the outcome, and the
\* node reports it as the failure of a validation.
CleanFails ==
    /\ phase = "clean" /\ phase' = "done"
    /\ \/ \E f \in prepared : prepared' = {g \in prepared : g >= f} /\ UNCHANGED backup
       \/ \E f \in Loose :
            /\ prepared' = {}
            /\ backup' = [g \in Files |-> IF g \in Loose /\ g < f THEN Missing ELSE backup[g]]
    /\ report' = "not_required" /\ conflicts' = {}
    /\ UNCHANGED <<change, target, recovery, dir, at, applied, rollback_errors,
                   preserved_temps, edits>>
-----------------------------------------------------------------------------
\* Another program changes a target at any time.  The history tells an edit
\* before the backup was taken, one between the last check of the file and
\* the step that relies on it, and any other.
When(f) == IF phase \in {"preflight", "prepare"} /\ backup[f] = Missing THEN "early"
           ELSE IF phase \in {"replace", "restore"} /\ at = f THEN "race" ELSE "open"

Edit(f, content) ==
    /\ phase # "done"
    /\ content # target[f]
    /\ edits' = edits \cup {<<f, When(f)>>} /\ Cardinality(edits') <= MaxEdits
    /\ target' = [target EXCEPT ![f] = content]
    /\ dir' = IF change[f].inNewDir /\ dir = "absent" THEN "foreign" ELSE dir
    /\ UNCHANGED <<change, prepared, backup, recovery, phase, at, applied, tallyVars, report>>

Step ==
    \/ Preflight \/ Prepare \/ PrepareFails \/ Check \/ Replace \/ ReplaceFails
    \/ RollbackCheck \/ Restore \/ RestoreFails \/ RemoveDirectories
    \/ Clean \/ CleanFails

Over == phase = "done" /\ UNCHANGED avars

ApplyNext ==
    \/ Step \/ Over
    \/ \E f \in Files, content \in Image \cup {Directory} : Edit(f, content)

ApplySpec == ApplyInit /\ [][ApplyNext]_avars
-----------------------------------------------------------------------------
ApplyTypeOK ==
    /\ target \in [Files -> Image \cup {Directory}]
    /\ prepared \subseteq Files
    /\ backup \in [Files -> Image] /\ recovery \in [Files -> Image]
    /\ dir \in {"absent", "created", "foreign"}
    /\ phase \in {"preflight", "prepare", "check", "replace", "rollback", "restore",
                  "clean", "done"}
    /\ at \in 0 .. Len(change) /\ applied \in 0 .. Len(change)
    /\ at = 0 => phase \notin {"preflight", "prepare", "check", "replace", "restore"}
    /\ conflicts \subseteq Files /\ rollback_errors \subseteq Files
    /\ preserved_temps \subseteq Files
    /\ report \in {"none", "applied", "not_required", "complete", "partial"}
    /\ edits \subseteq Files \X {"early", "race", "open"}

Untouched == {f \in Files : \A e \in edits : e[1] # f}
CleanedUp == prepared = {} /\ Loose = {}

\* When the transaction is over and its temporary files could be removed, the
\* report describes the files nobody else touched: all have the new content,
\* all have the old one, or those that have not are rollback errors.
OutcomeTold ==
    phase = "done" /\ CleanedUp =>
        \A f \in Untouched :
            CASE report = "applied" -> target[f] = Written(f)
              [] report = "partial" -> target[f] = Expected(f) \/ f \in rollback_errors
              [] OTHER              -> target[f] = Expected(f)

\* What the transaction overwrites or removes is the baseline when it commits
\* and its own content when it rolls back, so nobody's edit is lost, but for
\* one made between the last check of a file and the step that follows it.
EditsRespected ==
    [][\A f \in Files : target'[f] # target[f] /\ <<phase, at>>' # <<phase, at>> =>
          \/ <<f, "race">> \in edits
          \/ target[f] = IF phase = "replace" THEN Expected(f) ELSE Written(f)]_avars

\* Replaced and neither put back nor reported as applied.
Replaced(f) ==
    /\ f <= applied
    /\ \/ phase \in {"check", "replace"}
       \/ phase \in {"rollback", "restore"} /\ f <= at
       \/ f \in rollback_errors

\* While a file stands replaced, and for good if it cannot be rolled back, its
\* original content is on disk beside it; a process killed in the middle and
\* a failing clean-up leave it there.
OriginalKept ==
    \A f \in Files :
        /\ Replaced(f) /\ Expected(f) # Missing
        /\ <<f, "early">> \notin edits /\ <<f, "race">> \notin edits
        => Expected(f) \in {backup[f], recovery[f]}

\* The guidance for a run whose rollback was not started tells the user that
\* the application stopped before it wrote (agent/workspace.py:146).
StoppedBeforeWriting ==
    phase = "done" /\ report = "not_required" =>
        \A f \in Untouched : target[f] = Expected(f)
=============================================================================
