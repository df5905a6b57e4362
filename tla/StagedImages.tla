------------------------------ MODULE StagedImages ------------------------------
(***************************************************************************)
(* The drop of the invalid images of one recording                         *)
(* (extraction/staging.py, remove_owned_staged_images): a transaction of   *)
(* hard links and unlinks in the recording's working directory, with its   *)
(* rollback, the cleanup of the tombstones after the commit, and the retry *)
(* of that cleanup (retry_owned_tombstone_cleanup).                        *)
(*                                                                         *)
(* Somebody else may work in the directory at the same time, but only adds *)
(* names: a hard link to an image, or a file under a name that is free.    *)
(***************************************************************************)
EXTENDS Integers

CONSTANTS
    N,             \* images to drop, in the order of the invalid samples
    Visited,       \* the images somebody else may touch
    FaultPoints    \* the points at which a call of the system may fail

ASSUME NAssumption == N \in Nat
ASSUME VisitedAssumption == Visited \subseteq 1..N

VARIABLES
    pc,            \* where the drop is
    at,            \* the image it is working on
    original,      \* what the original name of an image is bound to
    tombstone,     \* whether the tombstone of an image is listed
    linked,        \* whether an image has a link from outside
    moved,         \* how far "moved" says each image has come
    broken,        \* TRUE once a step of the rollback failed
    owed           \* the records a StagedImageCleanupError carries

vars == <<pc, at, original, tombstone, linked, moved, broken, owed>>

Images == 1..N

Preparing == {"looking", "linking", "linked", "unlinking", "unlinked", "committing"}
Undoing   == {"undoing", "relinking", "sourcing", "burying", "restored", "resting"}
Cleaning  == {"cleaning", "removing", "settling"}
Retrying  == {"retrying", "dropping"}
Done      == {"refused", "rolledBack", "rollbackFailed", "dropped", "debt"}
Points    == {"start"} \cup Preparing \cup Undoing \cup Cleaning \cup Retrying \cup Done

ASSUME FaultAssumption == FaultPoints \subseteq Points \ Done

Init ==
    /\ pc = "start" /\ at = 1
    /\ original = [i \in Images |-> "own"]
    /\ tombstone = [i \in Images |-> FALSE]
    /\ linked \in [Images -> BOOLEAN]
    /\ \A i \in Images : linked[i] => i \in Visited
    /\ moved = [i \in Images |-> "no"]
    /\ broken = FALSE
    /\ owed = {}

-----------------------------------------------------------------------------
(* Building blocks.                                                        *)

Goto(from, to) == pc = from /\ pc' = to

One(condition) == IF condition THEN 1 ELSE 0

(* st_nlink of an image.                                                   *)
Links(i) == One(original[i] = "own") + One(tombstone[i]) + One(linked[i])

names == <<original, tombstone, linked>>

(* The except branch of the transaction: reversed(moved).                  *)
BeginUndo ==
    /\ pc' = "undoing" /\ at' = IF at > N THEN N ELSE at
    /\ UNCHANGED <<original, tombstone, linked, moved, broken, owed>>

(* The rollback of one image failed; it goes on with the one before.       *)
UndoBreaks ==
    /\ pc' = "undoing" /\ at' = at - 1 /\ broken' = TRUE
    /\ UNCHANGED <<original, tombstone, linked, moved, owed>>

(* The step of the transaction that looks at the current image.            *)
Check(from, ok, to) ==
    /\ pc = from
    /\ IF ok THEN pc' = to /\ UNCHANGED <<at, names, moved, broken, owed>>
             ELSE BeginUndo

-----------------------------------------------------------------------------
(* The transaction.                                                        *)

(* _open_verified_owned_images looks at every image before any is touched. *)
Preflight ==
    /\ Goto("start", IF \A i \in Images : original[i] = "own" /\ Links(i) = 1
                     THEN IF N = 0 THEN "committing" ELSE "looking"
                     ELSE "refused")
    /\ UNCHANGED <<at, names, moved, broken, owed>>

Look == Check("looking", original[at] = "own" /\ Links(at) = 1, "linking")

(* os.link() to a fresh uuid name, recorded as (record, False).            *)
Link ==
    /\ Goto("linking", "linked")
    /\ tombstone' = [tombstone EXCEPT ![at] = TRUE]
    /\ moved' = [moved EXCEPT ![at] = "linked"]
    /\ UNCHANGED <<at, original, linked, broken, owed>>

(* Both names are looked at: they are the same file, with two links.       *)
CheckLinked == Check("linked", Links(at) = 2, "unlinking")

(* Mutant: the record is not updated after the unlink.                     *)
UnlinkUnrecorded ==
    /\ Goto("unlinking", "unlinked")
    /\ original' = [original EXCEPT ![at] = "free"]
    /\ UNCHANGED <<at, tombstone, linked, moved, broken, owed>>

(* os.unlink() of the original name, recorded as (record, True).           *)
Unlink ==
    /\ Goto("unlinking", "unlinked")
    /\ original' = [original EXCEPT ![at] = "free"]
    /\ moved' = [moved EXCEPT ![at] = "unlinked"]
    /\ UNCHANGED <<at, tombstone, linked, broken, owed>>

(* The tombstone is the only link left: on to the next image.              *)
CheckUnlinked ==
    /\ pc = "unlinked"
    /\ IF Links(at) = 1
       THEN /\ pc' = IF at = N THEN "committing" ELSE "looking"
            /\ at' = at + 1
            /\ UNCHANGED <<names, moved, broken, owed>>
       ELSE BeginUndo

(* os.fsync() of the directory is the commit.                              *)
Commit ==
    /\ Goto("committing", IF N = 0 THEN "settling" ELSE "cleaning")
    /\ at' = 1 /\ owed' = {i \in Images : moved[i] = "unlinked"}
    /\ UNCHANGED <<names, moved, broken>>

TransactionFails ==
    /\ pc \in Preparing \cap FaultPoints
    /\ BeginUndo

-----------------------------------------------------------------------------
(* The rollback: one image after the other, the last one first.  The image *)
(* the transaction failed on may not have been recorded yet.               *)

SkipUnmoved ==
    /\ Goto("undoing", "undoing") /\ at \in Images /\ moved[at] = "no"
    /\ at' = at - 1
    /\ UNCHANGED <<names, moved, broken, owed>>

(* The tombstone must be the image, with the links this record expects.    *)
CheckTombstone ==
    /\ pc = "undoing" /\ at \in Images /\ moved[at] # "no"
    /\ IF tombstone[at] /\ Links(at) = IF moved[at] = "unlinked" THEN 1 ELSE 2
       THEN /\ pc' = IF moved[at] = "unlinked" THEN "relinking" ELSE "sourcing"
            /\ UNCHANGED <<at, names, moved, broken, owed>>
       ELSE UndoBreaks

(* Mutant: the name is taken back by a rename.                             *)
RelinkOver ==
    /\ Goto("relinking", "restored")
    /\ original' = [original EXCEPT ![at] = "own"]
    /\ tombstone' = [tombstone EXCEPT ![at] = FALSE]
    /\ UNCHANGED <<at, linked, moved, broken, owed>>

(* The original name must be free; os.link() refuses one that is not.      *)
Relink ==
    /\ pc = "relinking"
    /\ IF original[at] = "free"
       THEN /\ pc' = "burying"
            /\ original' = [original EXCEPT ![at] = "own"]
            /\ UNCHANGED <<at, tombstone, linked, moved, broken, owed>>
       ELSE UndoBreaks

(* An image that was not unlinked must still have its original name.       *)
CheckSource ==
    /\ pc = "sourcing"
    /\ IF original[at] = "own" /\ Links(at) = 2
       THEN pc' = "burying" /\ UNCHANGED <<at, names, moved, broken, owed>>
       ELSE UndoBreaks

BuryTombstone ==
    /\ Goto("burying", "restored")
    /\ tombstone' = [tombstone EXCEPT ![at] = FALSE]
    /\ UNCHANGED <<at, original, linked, moved, broken, owed>>

CheckRestored ==
    /\ pc = "restored"
    /\ IF original[at] = "own" /\ Links(at) = 1
       THEN /\ pc' = "undoing" /\ at' = at - 1
            /\ UNCHANGED <<names, moved, broken, owed>>
       ELSE UndoBreaks

UndoStepFails ==
    /\ pc \in {"undoing", "relinking", "sourcing", "burying", "restored"} \cap FaultPoints
    /\ at \in Images /\ moved[at] # "no"
    /\ UndoBreaks

FinishUndo ==
    /\ Goto("undoing", "resting") /\ at = 0
    /\ UNCHANGED <<at, names, moved, broken, owed>>

(* Mutant: the rollback is reported as complete whatever happened.         *)
ReportRolledBack ==
    /\ pc = "resting" /\ pc' = "rolledBack"
    /\ UNCHANGED <<at, names, moved, broken, owed>>

(* The directory is fsynced; any error so far makes it a failed rollback.  *)
ReportUndo ==
    /\ pc = "resting"
    /\ \/ pc' = IF broken THEN "rollbackFailed" ELSE "rolledBack"
       \/ "resting" \in FaultPoints /\ pc' = "rollbackFailed"
    /\ UNCHANGED <<at, names, moved, broken, owed>>

-----------------------------------------------------------------------------
(* After the commit the tombstones are removed in order; the first error   *)
(* ends it with the records that remain.                                   *)

CheckCommitted ==
    /\ pc = "cleaning"
    /\ pc' = IF tombstone[at] /\ Links(at) = 1 THEN "removing" ELSE "debt"
    /\ UNCHANGED <<at, names, moved, broken, owed>>

(* Mutant: the record is forgotten before its tombstone is gone.           *)
ForgetTombstone ==
    /\ Goto("removing", IF at = N THEN "settling" ELSE "cleaning")
    /\ owed' = owed \ {at} /\ at' = at + 1
    /\ UNCHANGED <<names, moved, broken>>

RemoveTombstone ==
    /\ Goto("removing", IF at = N THEN "settling" ELSE "cleaning")
    /\ tombstone' = [tombstone EXCEPT ![at] = FALSE]
    /\ owed' = owed \ {at} /\ at' = at + 1
    /\ UNCHANGED <<original, linked, moved, broken>>

Settle ==
    /\ Goto("settling", "dropped")
    /\ UNCHANGED <<at, names, moved, broken, owed>>

CleaningFails ==
    /\ pc \in Cleaning \cap FaultPoints
    /\ pc' = "debt"
    /\ UNCHANGED <<at, names, moved, broken, owed>>

-----------------------------------------------------------------------------
(* retry_owned_tombstone_cleanup on the remaining records; a record that   *)
(* does not match, or cannot be removed, is passed over and remains.       *)

BeginRetry ==
    /\ Goto("debt", "retrying") /\ owed # {}
    /\ at' = 1
    /\ UNCHANGED <<names, moved, broken, owed>>

MatchTombstone ==
    /\ pc = "retrying" /\ at \in Images
    /\ IF at \in owed /\ tombstone[at] /\ Links(at) = 1
       THEN pc' = "dropping" /\ UNCHANGED at
       ELSE at' = at + 1 /\ UNCHANGED pc
    /\ UNCHANGED <<names, moved, broken, owed>>

DropTombstone ==
    /\ Goto("dropping", "retrying")
    /\ tombstone' = [tombstone EXCEPT ![at] = FALSE]
    /\ owed' = owed \ {at} /\ at' = at + 1
    /\ UNCHANGED <<original, linked, moved, broken>>

RetryStepFails ==
    /\ pc \in Retrying \cap FaultPoints /\ at \in Images
    /\ pc' = "retrying" /\ at' = at + 1
    /\ UNCHANGED <<names, moved, broken, owed>>

EndRetry ==
    /\ Goto("retrying", "debt") /\ at = N + 1
    /\ UNCHANGED <<at, names, moved, broken, owed>>

-----------------------------------------------------------------------------
(* Somebody else adds a name.                                              *)

OutsideLink(i) ==
    /\ i \in Visited /\ ~linked[i] /\ (original[i] = "own" \/ tombstone[i])
    /\ linked' = [linked EXCEPT ![i] = TRUE]
    /\ UNCHANGED <<pc, at, original, tombstone, moved, broken, owed>>

OutsideUnlink(i) ==
    /\ i \in Visited /\ linked[i]
    /\ linked' = [linked EXCEPT ![i] = FALSE]
    /\ UNCHANGED <<pc, at, original, tombstone, moved, broken, owed>>

OutsideFile(i) ==
    /\ i \in Visited /\ original[i] = "free"
    /\ original' = [original EXCEPT ![i] = "foreign"]
    /\ UNCHANGED <<pc, at, tombstone, linked, moved, broken, owed>>

Transaction ==
    \/ Preflight \/ Look \/ Link \/ CheckLinked \/ Unlink \/ CheckUnlinked
    \/ Commit    \/ TransactionFails

Rollback ==
    \/ SkipUnmoved   \/ CheckTombstone \/ Relink     \/ CheckSource \/ BuryTombstone
    \/ CheckRestored \/ UndoStepFails  \/ FinishUndo \/ ReportUndo

Cleanup ==
    \/ CheckCommitted \/ RemoveTombstone \/ Settle   \/ CleaningFails
    \/ BeginRetry     \/ MatchTombstone  \/ DropTombstone
    \/ RetryStepFails \/ EndRetry

Outside == \E i \in Images : OutsideLink(i) \/ OutsideUnlink(i) \/ OutsideFile(i)

(* The drop has returned or raised, and nothing is left to retry.          *)
Terminated == pc \in Done /\ UNCHANGED vars

Next == Transaction \/ Rollback \/ Cleanup \/ Outside \/ Terminated

Spec == Init /\ [][Next]_vars

-----------------------------------------------------------------------------
(* Properties.                                                             *)

(* Every variable holds a value of the kind the code gives it.             *)
TypeOK ==
    /\ pc \in Points
    /\ at \in 0..(N + 1)
    /\ original \in [Images -> {"own", "free", "foreign"}]
    /\ tombstone \in [Images -> BOOLEAN]
    /\ linked \in [Images -> BOOLEAN]
    /\ moved \in [Images -> {"no", "linked", "unlinked"}]
    /\ broken \in BOOLEAN
    /\ owed \subseteq Images

Present(i) == original[i] = "own" /\ ~tombstone[i]
Dropped(i) == original[i] # "own" /\ ~tombstone[i]

(* "Original sample names are not partially deleted" (docs/validity.md):   *)
(* the drop returns only when every image is gone, and an error that says  *)
(* it was refused or rolled back is raised only when every image is back   *)
(* under its name and no tombstone is left.                                *)
AllOrNothing ==
    /\ pc \in {"refused", "rolledBack"} => \A i \in Images : Present(i)
    /\ pc = "dropped" => \A i \in Images : Dropped(i)

(* Before the commit, and through a rollback that fails halfway, every     *)
(* image keeps a name in the directory: it can still be restored.          *)
NeverNameless ==
    pc \notin Cleaning \cup Retrying \cup {"dropped", "debt"} =>
        \A i \in Images : original[i] = "own" \/ tombstone[i]

(* A StagedImageCleanupError, and every retry, carries exactly the         *)
(* tombstones that are left, of a drop that is otherwise complete.         *)
DebtIsExact ==
    pc \in Retrying \cup {"debt"} =>
        /\ \A i \in Images : original[i] # "own"
        /\ owed = {i \in Images : tombstone[i]}

(* A file somebody else put under a freed original name is never removed   *)
(* or replaced, although the rollback wants the name back.                 *)
ForeignFilesStay ==
    [][\A i \in Images : original[i] = "foreign" => original'[i] = "foreign"]_vars

-----------------------------------------------------------------------------
(* What makes the safety properties inductive.                             *)

(* What "moved" says of an image is what the directory lists.              *)
AsMoved(i) ==
    CASE moved[i] = "no"       -> Present(i)
      [] moved[i] = "linked"   -> original[i] = "own" /\ tombstone[i]
      [] moved[i] = "unlinked" -> original[i] # "own" /\ tombstone[i]

Prepared ==
    pc \in Preparing =>
        /\ at \in 1..(N + 1)
        /\ pc # "committing" => at <= N
        /\ pc = "committing" => at = N + 1
        /\ \A i \in Images : AsMoved(i)
        /\ \A i \in Images : i < at => moved[i] = "unlinked"
        /\ \A i \in Images : i > at => moved[i] = "no"
        /\ pc \in {"looking", "linking"} => moved[at] = "no"
        /\ pc \in {"linked", "unlinking"} => moved[at] = "linked"
        /\ pc = "unlinked" => moved[at] = "unlinked"

Undone ==
    pc \in Undoing =>
        /\ at \in 0..N
        /\ pc = "resting" => at = 0
        /\ pc \notin {"undoing", "resting"} => at >= 1
        /\ \A i \in Images : i < at \/ (i = at /\ pc = "undoing") => AsMoved(i)
        /\ \A i \in Images : i > at => IF broken THEN original[i] = "own" \/ tombstone[i]
                                              ELSE Present(i)
        /\ pc = "relinking" => tombstone[at]
        /\ pc \in {"sourcing", "burying"} => original[at] = "own" /\ tombstone[at]
        /\ pc = "restored" => Present(at)

Cleaned ==
    pc \in Cleaning \cup Retrying \cup {"dropped", "debt"} =>
        /\ at \in 1..(N + 1)
        /\ \A i \in Images : original[i] # "own"
        /\ owed = {i \in Images : tombstone[i]}
        /\ pc \in {"cleaning", "removing"} => at <= N /\ owed = at..N
        /\ pc \in {"settling", "dropped"} => owed = {}
        /\ pc = "dropping" => at \in owed

(* The inductive invariant, as one formula.                                *)
IInv ==
    /\ TypeOK /\ Prepared /\ Undone /\ Cleaned
    /\ pc = "start" => at = 1
    /\ pc = "rollbackFailed" => \A i \in Images : original[i] = "own" \/ tombstone[i]
    /\ pc \in {"start", "refused", "rolledBack"} => \A i \in Images : Present(i)
    /\ pc = "start" => \A i \in Images : moved[i] = "no"

=============================================================================
