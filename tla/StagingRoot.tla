------------------------------ MODULE StagingRoot ------------------------------
(***************************************************************************)
(* The working directory paths.work_dir, in which the extraction threads   *)
(* of one build make and remove their invocation directories               *)
(* (extraction/staging.py, extraction/service.py, the copies of            *)
(* extraction/cache.py and the registry of services.py).                   *)
(*                                                                         *)
(* A recording makes one directory for a copy of a cached extraction and,  *)
(* when there is none or the copy fails, one for a fresh extraction.       *)
(* Names end in a fresh uuid, so a directory is identified by its          *)
(* recording and its kind.  Creation takes the flock on the root and       *)
(* compares the whole listing; the removals take no lock.                  *)
(***************************************************************************)
EXTENDS Integers, FiniteSets

CONSTANTS
    Recordings,    \* the recordings handed to RecordingCoordinator.process
    NoOne,         \* the value of a lock nobody holds
    MaxWorkers,    \* threads of its pool
    FaultPoints    \* the points at which a call of the thread may fail

ASSUME NoOneAssumption == NoOne \notin Recordings
ASSUME WorkersAssumption == MaxWorkers \in Nat \ {0}

VARIABLES
    pc,            \* where each recording is
    kind,          \* which of its directories it is working on
    entries,       \* what the root lists
    lock,          \* who holds the flock on the root
    baseline,      \* the listing a creator took before its mkdir
    registry,      \* the directories _WorkingExtractionRegistry owns
    claimed,       \* the directories an OwnedDirectoryCleanupError names
    fault          \* TRUE once a call of the recording's own work failed

vars == <<pc, kind, entries, lock, baseline, registry, claimed, fault>>

Kinds == {"copy", "fresh"}
Directories == Recordings \X Kinds

Creating == {"locked", "listed", "made", "identified", "undoing"}
Owning   == {"made", "identified", "undoing", "filling", "rollback", "handing",
             "storing", "cleanup"}
Done     == {"kept", "failed"}
Points   == {"idle", "waiting"} \cup Creating \cup Owning \cup Done

(* A call can fail wherever a thread works.                                *)
ASSUME FaultAssumption == FaultPoints \subseteq Points \ (Done \cup {"idle"})

Dir(r) == <<r, kind[r]>>

Init ==
    /\ pc = [r \in Recordings |-> "idle"]
    /\ kind = [r \in Recordings |-> "fresh"]
    /\ entries = {}
    /\ lock = NoOne
    /\ baseline = [r \in Recordings |-> {}]
    /\ registry = {}
    /\ claimed = {}
    /\ fault = [r \in Recordings |-> FALSE]

-----------------------------------------------------------------------------
(* Building blocks.                                                        *)

Goto(r, from, to) == pc[r] = from /\ pc' = [pc EXCEPT ![r] = to]

(* Mutant: a failed extraction is tried again and again.                   *)
RetryForever(r, from) == Goto(r, from, "waiting") /\ kind' = [kind EXCEPT ![r] = "fresh"]

(* What an error means that left nothing behind: a failed copy is a miss   *)
(* and the recording is extracted afresh; a failed extraction is the end.  *)
GiveUp(r, from) ==
    /\ Goto(r, from, IF kind[r] = "copy" THEN "waiting" ELSE "failed")
    /\ kind' = [kind EXCEPT ![r] = "fresh"]

(* OwnedDirectoryCleanupError: the recording fails with cleanup debt.      *)
Owe(r, from) ==
    /\ Goto(r, from, "failed")
    /\ claimed' = claimed \cup {Dir(r)}
    /\ UNCHANGED kind

Unlock(r) == lock' = IF lock = r THEN NoOne ELSE lock

-----------------------------------------------------------------------------
(* A thread takes up a recording; the cache has a generation or not.       *)

Begin(r) ==
    /\ Goto(r, "idle", "waiting")
    /\ Cardinality({q \in Recordings : pc[q] \notin Done \cup {"idle"}}) < MaxWorkers
    /\ \E k \in Kinds : kind' = [kind EXCEPT ![r] = k]
    /\ UNCHANGED <<entries, lock, baseline, registry, claimed, fault>>

(* create_staging_invocation: flock(LOCK_EX), the listing, mkdir ...       *)
Lock(r) ==
    /\ Goto(r, "waiting", "locked")
    /\ lock = NoOne /\ lock' = r
    /\ UNCHANGED <<kind, entries, baseline, registry, claimed, fault>>

ListRoot(r) ==
    /\ Goto(r, "locked", "listed")
    /\ baseline' = [baseline EXCEPT ![r] = entries]
    /\ UNCHANGED <<kind, entries, lock, registry, claimed, fault>>

MakeDirectory(r) ==
    /\ Goto(r, "listed", "made")
    /\ entries' = entries \cup {Dir(r)}
    /\ UNCHANGED <<kind, lock, baseline, registry, claimed, fault>>

(* _assert_staging_namespace.  A name that left the listing never comes    *)
(* back, so of its six calls two stand for all: one before and one after   *)
(* the identity of the new directory is known.                             *)
Undisturbed(r) == entries = baseline[r] \cup {Dir(r)}

(* ... the directory is looked at; a changed listing is not cleaned up.    *)
Observe(r, from, to) ==
    /\ \/ Undisturbed(r) /\ Goto(r, from, to) /\ UNCHANGED <<kind, claimed>>
       \/ ~Undisturbed(r) /\ Owe(r, from)
    /\ UNCHANGED <<entries, baseline, registry, fault>>

Identify(r) ==
    /\ Observe(r, "made", "identified")
    /\ lock' = IF pc'[r] = "failed" THEN NoOne ELSE lock

(* The root is fsynced, observed once more, and the lock is left.          *)
Confirm(r) == Observe(r, "identified", "filling") /\ Unlock(r)

(* Mutant: the lock is not left after a failed setup.                      *)
UndoLocked(r) ==
    /\ GiveUp(r, "undoing")
    /\ entries' = entries \ {Dir(r)}
    /\ UNCHANGED <<lock, baseline, registry, claimed, fault>>

(* cleanup_pinned_directory after a failed setup, still under the lock.    *)
UndoCreation(r) ==
    /\ GiveUp(r, "undoing")
    /\ entries' = entries \ {Dir(r)}
    /\ Unlock(r)
    /\ UNCHANGED <<baseline, registry, claimed, fault>>

(* The images are copied or extracted.                                     *)
Fill(r) ==
    /\ Goto(r, "filling", "handing")
    /\ UNCHANGED <<kind, entries, lock, baseline, registry, claimed, fault>>

(* The cached generation was replaced meanwhile: a miss, not a failure.    *)
StaleCopy(r) ==
    /\ kind[r] = "copy" /\ Goto(r, "filling", "rollback")
    /\ UNCHANGED <<kind, entries, lock, baseline, registry, claimed, fault>>

(* Mutant: the images are unlinked, the directory is not.                  *)
UnlinkOnly(r) ==
    GiveUp(r, "rollback") /\ UNCHANGED <<entries, lock, baseline, registry, claimed, fault>>

(* rollback_staging_invocation removes the directory, without the lock.    *)
RollBack(r) ==
    /\ GiveUp(r, "rollback")
    /\ entries' = entries \ {Dir(r)}
    /\ UNCHANGED <<lock, baseline, registry, claimed, fault>>

(* working.register(); a fresh extraction is stored in the cache next.     *)
HandOff(r) ==
    /\ Goto(r, "handing", IF kind[r] = "fresh" THEN "storing" ELSE "kept")
    /\ registry' = registry \cup {Dir(r)}
    /\ UNCHANGED <<kind, entries, lock, baseline, claimed, fault>>

Store(r) ==
    /\ Goto(r, "storing", "kept")
    /\ UNCHANGED <<kind, entries, lock, baseline, registry, claimed, fault>>

(* OwnedDirectoryAuthority.cleanup() after a refused handoff or a failed   *)
(* store removes the directory, without the lock.                          *)
CleanUp(r) ==
    /\ Goto(r, "cleanup", "failed")
    /\ entries' = entries \ {Dir(r)}
    /\ registry' = registry \ {Dir(r)}
    /\ UNCHANGED <<kind, lock, baseline, claimed, fault>>

(* A call of the thread's own work fails: before the mkdir there is        *)
(* nothing to undo; before the identity is known, or when the root cannot  *)
(* be listed, nothing may be undone; a removal that fails may have removed *)
(* the directory already.                                                  *)
StepFails(r) ==
    /\ pc[r] \in FaultPoints
    /\ fault' = [fault EXCEPT ![r] = TRUE]
    /\ \/ /\ GiveUp(r, "waiting") \/ GiveUp(r, "locked") \/ GiveUp(r, "listed")
          /\ Unlock(r) /\ UNCHANGED <<entries, claimed>>
       \/ /\ Owe(r, "made") \/ Owe(r, "identified")
          /\ Unlock(r) /\ UNCHANGED entries
       \/ /\ \/ Goto(r, "identified", "undoing")
             \/ Goto(r, "filling", "rollback")
             \/ Goto(r, "handing", "cleanup")
             \/ Goto(r, "storing", "cleanup")
          /\ UNCHANGED <<kind, entries, lock, claimed>>
       \/ /\ Owe(r, "undoing") \/ Owe(r, "rollback") \/ Owe(r, "cleanup")
          /\ entries' \in {entries, entries \ {Dir(r)}}
          /\ Unlock(r)
    /\ UNCHANGED <<baseline, registry>>

(* Every recording has been processed: a stop that is no deadlock.         *)
Terminated == (\A r \in Recordings : pc[r] \in Done) /\ UNCHANGED vars

Progress(r) ==
    \/ Begin(r)     \/ Lock(r)      \/ ListRoot(r)     \/ MakeDirectory(r)
    \/ Identify(r)  \/ Confirm(r)   \/ UndoCreation(r) \/ Fill(r)
    \/ StaleCopy(r) \/ RollBack(r)  \/ HandOff(r)      \/ Store(r)
    \/ CleanUp(r)

Next ==
    \/ \E r \in Recordings : Progress(r) \/ StepFails(r)
    \/ Terminated

Spec == Init /\ [][Next]_vars

(* The threads of the pool keep running; flock is granted in some order    *)
(* that starves nobody, as recordings and their attempts are finite.       *)
FairSpec == Spec /\ \A r \in Recordings : WF_vars(Progress(r))

-----------------------------------------------------------------------------
(* Properties.                                                             *)

(* Every variable holds a value of the kind the code gives it.             *)
TypeOK ==
    /\ pc \in [Recordings -> Points]
    /\ kind \in [Recordings -> Kinds]
    /\ entries \subseteq Directories
    /\ lock \in Recordings \cup {NoOne}
    /\ baseline \in [Recordings -> SUBSET Directories]
    /\ registry \subseteq Directories /\ claimed \subseteq Directories
    /\ fault \in [Recordings -> BOOLEAN]

(* "Cooperative creators are serialized with an advisory lock": while one  *)
(* is between its listing and its last look, no other creator's directory  *)
(* appears, so only a removal can make its comparison fail.                *)
CreatorsAreSerialised ==
    \A r \in Recordings :
        /\ pc[r] = "listed" => entries \subseteq baseline[r]
        /\ pc[r] \in {"made", "identified"} =>
             entries \subseteq baseline[r] \cup {Dir(r)} /\ Dir(r) \in entries

(* No directory of the root is lost: each is being worked on, owned by the *)
(* registry, or named by the cleanup error its recording failed with; a    *)
(* recording that goes on to a second directory has removed the first.     *)
NothingIsLost ==
    \A d \in entries :
        \/ d = Dir(d[1]) /\ pc[d[1]] \in Owning
        \/ d \in registry \/ d \in claimed

(* What the registry owns is there, so cleanup_all, which fails on a tree  *)
(* it cannot find, fails only on trees a cleanup error already named.      *)
RegistryIsLive == registry \subseteq entries \cup claimed

(* Every recording is processed to its end: the lock on the root is left   *)
(* on every path out of a creation.                                        *)
EveryRecordingEnds == \A r \in Recordings : <>(pc[r] \in Done)

(* "It processes every accepted recording independently"                   *)
(* (docs/validity.md): a recording fails only if its own work failed.      *)
RecordingsAreIndependent == \A r \in Recordings : pc[r] = "failed" => fault[r]

-----------------------------------------------------------------------------
(* What makes the safety properties inductive.                             *)

(* The lock is held by the one recording that is creating a directory.     *)
LockIsHeld == \A r \in Recordings : lock = r <=> pc[r] \in Creating

(* How far a recording is fixes which of its directories are listed.       *)
Standing(r) ==
    /\ pc[r] \in Owning => Dir(r) \in entries
    /\ pc[r] \in {"storing", "kept"} => Dir(r) \in registry
    /\ pc[r] \notin {"storing", "cleanup", "kept", "failed"} =>
         \A k \in Kinds : <<r, k>> \notin registry
    /\ \A k \in Kinds : <<r, k>> \in registry => k = kind[r]

(* The inductive invariant, as one formula.                                *)
IInv ==
    /\ TypeOK /\ LockIsHeld /\ CreatorsAreSerialised
    /\ NothingIsLost /\ RegistryIsLive
    /\ \A r \in Recordings : Standing(r)

=============================================================================
