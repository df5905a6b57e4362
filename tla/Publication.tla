------------------------------ MODULE Publication ------------------------------
(***************************************************************************)
(* Publication of a finished dataset (publication.py, the tail of          *)
(* services.build_dataset, the guarded parts of export.py and              *)
(* validation.py).                                                         *)
(*                                                                         *)
(* Several builds share one output directory.  Each owns one staging       *)
(* directory, identified by its builder: tree b is the directory inode     *)
(* that builder b leased, whatever name it has at the moment.  The output  *)
(* directory has the names                                                 *)
(*     v1.0-trainval                      variable final                   *)
(*     .v1.0-trainval.staging-<uuid>      variable staging                 *)
(*     .v1.0-trainval.rejected-<uuid>     variable rejected                *)
(* The bytes of a tree are a version number: 0 is a tree that holds no     *)
(* dataset, every change of the bytes takes a fresh version.               *)
(***************************************************************************)
EXTENDS Integers, FiniteSets

CONSTANTS
    Builders,      \* the builds that run against one output directory
    Visited,       \* the builds whose tree a cooperative writer opens
    NoTree,        \* the value of a name that does not exist
    MaxVersion,    \* bound: a tree's bytes are changed MaxVersion - 1 times
    MaxRetired,    \* bound: how many finals an operator may move away
    FaultPoints    \* the points of a build where a system call may fail

ASSUME NoTreeAssumption == NoTree \notin Builders
ASSUME BoundAssumption == MaxVersion \in Nat /\ MaxRetired \in Nat

VARIABLES
    pc,            \* where each builder is in build_dataset
    final,         \* the tree the final name is bound to
    staging,       \* the builders whose staging name still names their tree
    rejected,      \* the tree bound to the builder's .rejected- name
    durable,       \* the bindings of the final name a power loss may leave
    bytes,         \* the version of the bytes of each tree
    flushed,       \* the version fsync has made durable
    sealed,        \* TRUE once the tree is 0400/0500
    manifest,      \* the version content_manifest.json describes
    expected,      \* the content hash finalize_dataset returned
    guard,         \* who holds the flock on the tree
    writer,        \* a cooperative writer of the tree
    stray,         \* TRUE once the bytes changed outside the guard
    rollbackLost,  \* TRUE once a rollback raised instead of withdrawing the tree
    retired        \* the trees an operator moved away from the final name

names == <<final, staging, rejected, durable, retired>>
tree  == <<bytes, flushed, sealed, manifest, expected, stray>>
locks == <<guard, writer>>
vars  == <<pc, names, tree, locks, rollbackLost>>

Before  == {"idle", "evidence", "leased"}
Export  == {"exporting", "exported"}
Finalize == {"finalizing", "manifested", "finalized"}
Checks  == {"publishing", "unsealed", "sealed", "verified", "synced", "ready"}
Exposed == {"renamed", "confirmed"}
Undo    == {"undoing", "withdrawing", "withdrawn"}
Clean   == {"cleaning", "emptying", "removing"}
Done    == {"published", "refused", "failed", "uncleaned", "crashed"}
Points  == Before \cup Export \cup Finalize \cup Checks \cup Exposed \cup Undo
             \cup Clean \cup Done

(* A system call can fail wherever a build still runs. *)
ASSUME FaultAssumption == FaultPoints \subseteq Points \ Done

(* The points at which the builder is inside lease.mutation_guard().       *)
Holding == {"exporting", "finalizing", "manifested", "emptying", "removing"}
             \cup Checks \cup Exposed \cup Undo

Init ==
    /\ pc = [b \in Builders |-> "idle"]
    /\ final = NoTree
    /\ staging = {}
    /\ rejected = [b \in Builders |-> NoTree]
    /\ durable = {NoTree}
    /\ bytes = [b \in Builders |-> 0]
    /\ flushed = [b \in Builders |-> 0]
    /\ sealed = [b \in Builders |-> FALSE]
    /\ manifest = [b \in Builders |-> 0]
    /\ expected = [b \in Builders |-> 0]
    /\ guard = [b \in Builders |-> "free"]
    /\ writer = [b \in Builders |-> "away"]
    /\ stray = [b \in Builders |-> FALSE]
    /\ rollbackLost = [b \in Builders |-> FALSE]
    /\ retired = {}

-----------------------------------------------------------------------------
(* Steps of a builder.                                                     *)

Goto(b, from, to) == pc[b] = from /\ pc' = [pc EXCEPT ![b] = to]

(* with lease.mutation_guard(): flock(LOCK_EX) blocks until it is granted. *)
Acquire(b) == guard[b] = "free" /\ guard' = [guard EXCEPT ![b] = "builder"]
Release(b) == guard' = [guard EXCEPT ![b] = "free"]

(* Mutant: the exception handler keeps the flock.                          *)
AbortHolding(b, from) == Goto(b, from, "cleaning") /\ UNCHANGED guard

(* An exception leaves the guard and reaches build_dataset's handler,      *)
(* whose next effect on the tree is lease.cleanup().                       *)
Abort(b, from) == Goto(b, from, "cleaning") /\ Release(b)

(* The rollback itself raises: the tree may still have the final name.     *)
GiveUp(b, from) ==
    Abort(b, from) /\ rollbackLost' = [rollbackLost EXCEPT ![b] = TRUE]

(* final.exists() or final.is_symlink(), before any evidence is built.     *)
CheckFinal(b) ==
    /\ Goto(b, "idle", IF final = NoTree THEN "evidence" ELSE "refused")
    /\ UNCHANGED <<names, tree, locks, rollbackLost>>

(* StagingLease.create: a fresh staging name bound to a fresh directory.   *)
CreateLease(b) ==
    /\ Goto(b, "evidence", "leased")
    /\ staging' = staging \cup {b}
    /\ UNCHANGED <<final, rejected, durable, retired, tree, locks, rollbackLost>>

(* The fresh directory cannot be opened: it stays, nobody owns it.         *)
LeaseLost(b) ==
    /\ "evidence" \in FaultPoints
    /\ Goto(b, "evidence", "uncleaned")
    /\ staging' = staging \cup {b}
    /\ UNCHANGED <<final, rejected, durable, retired, tree, locks, rollbackLost>>

(* _SafeDatarootWriter holds the guard for as long as it is open.          *)
ExportBegin(b) ==
    /\ Goto(b, "leased", "exporting")
    /\ Acquire(b)
    /\ UNCHANGED <<names, tree, writer, rollbackLost>>

ExportWrite(b) ==
    /\ Goto(b, "exporting", "exported")
    /\ bytes' = [bytes EXCEPT ![b] = 1]
    /\ Release(b)
    /\ UNCHANGED <<names, flushed, sealed, manifest, expected, stray, writer,
                   rollbackLost>>

FinalizeBegin(b) ==
    /\ Goto(b, "exported", "finalizing")
    /\ Acquire(b)
    /\ UNCHANGED <<names, tree, writer, rollbackLost>>

(* Preliminary validation passed; validation.json is rewritten and the     *)
(* manifest is built last, over the bytes as they are now.                 *)
WriteManifest(b) ==
    /\ Goto(b, "finalizing", "manifested")
    /\ manifest' = [manifest EXCEPT ![b] = bytes[b]]
    /\ UNCHANGED <<names, bytes, flushed, sealed, expected, stray, locks,
                   rollbackLost>>

(* The final validation re-reads the tree; its hash authorises publication.*)
ValidateFinal(b) ==
    \/ /\ bytes[b] = manifest[b]
       /\ Goto(b, "manifested", "finalized")
       /\ expected' = [expected EXCEPT ![b] = bytes[b]]
       /\ Release(b)
       /\ UNCHANGED <<names, bytes, flushed, sealed, manifest, stray, writer,
                      rollbackLost>>
    \/ /\ bytes[b] # manifest[b]
       /\ Abort(b, "manifested")
       /\ UNCHANGED <<names, tree, writer, rollbackLost>>

PublishBegin(b) ==
    /\ Goto(b, "finalized", "publishing")
    /\ Acquire(b)
    /\ UNCHANGED <<names, tree, writer, rollbackLost>>

(* Both looks at the destination before the tree is sealed.                *)
CheckDestination(b) ==
    /\ IF final = NoTree
       THEN Goto(b, "publishing", "unsealed") /\ UNCHANGED guard
       ELSE Abort(b, "publishing")
    /\ UNCHANGED <<names, tree, writer, rollbackLost>>

Seal(b) ==
    /\ Goto(b, "unsealed", "sealed")
    /\ sealed' = [sealed EXCEPT ![b] = TRUE]
    /\ UNCHANGED <<names, bytes, flushed, manifest, expected, stray, locks,
                   rollbackLost>>

(* verify_publication_manifest_fd: the bytes, the manifest in the tree and *)
(* the authorised hash agree.                                              *)
Authorised(b) == bytes[b] = manifest[b] /\ bytes[b] = expected[b]

Verify(b, from, to) ==
    /\ IF Authorised(b)
       THEN Goto(b, from, to) /\ UNCHANGED guard
       ELSE Abort(b, from)
    /\ UNCHANGED <<names, tree, writer, rollbackLost>>

VerifySealed(b) == Verify(b, "sealed", "verified")

(* Mutants: the bytes are not flushed, or not looked at again.            *)
FlushNothing(b) == Goto(b, "verified", "synced") /\ UNCHANGED <<names, tree, locks, rollbackLost>>
VerifySkipped(b) == Goto(b, "synced", "ready") /\ UNCHANGED <<names, tree, locks, rollbackLost>>

Flush(b) ==
    /\ Goto(b, "verified", "synced")
    /\ flushed' = [flushed EXCEPT ![b] = bytes[b]]
    /\ UNCHANGED <<names, bytes, sealed, manifest, expected, stray, locks,
                   rollbackLost>>

VerifyFlushed(b) == Verify(b, "synced", "ready")

(* Mutant: rename() where RENAME_NOREPLACE is needed.                      *)
RenameOver(b) ==
    /\ Goto(b, "ready", "renamed")
    /\ final' = b
    /\ staging' = staging \ {b}
    /\ durable' = durable \cup {b}
    /\ UNCHANGED <<rejected, retired, tree, locks, rollbackLost>>

(* renameat2(RENAME_NOREPLACE) from the staging name to the final name.    *)
Rename(b) ==
    /\ IF final = NoTree
       THEN /\ Goto(b, "ready", "renamed")
            /\ final' = b
            /\ staging' = staging \ {b}
            /\ durable' = durable \cup {b}
            /\ UNCHANGED guard
       ELSE /\ Abort(b, "ready")
            /\ UNCHANGED <<final, staging, durable>>
    /\ UNCHANGED <<rejected, retired, tree, writer, rollbackLost>>

(* Mutant: the tree is not read again once it is renamed.                  *)
RenamedIsFine(b) ==
    Goto(b, "renamed", "confirmed") /\ UNCHANGED <<names, tree, locks, rollbackLost>>

(* The last check reads the tree through the leased descriptor.            *)
VerifyRenamed(b) ==
    /\ Goto(b, "renamed", IF Authorised(b) THEN "confirmed" ELSE "undoing")
    /\ UNCHANGED <<names, tree, locks, rollbackLost>>

(* fsync of the parent, then the guard is left and the path is returned.   *)
SyncParent(b) ==
    /\ Goto(b, "confirmed", "published")
    /\ durable' = {final}
    /\ Release(b)
    /\ UNCHANGED <<final, staging, rejected, retired, tree, writer, rollbackLost>>

(* _quarantine_published_identity, first half: only a final name that      *)
(* still names this build's tree is rolled back.                           *)
RollbackLook(b) ==
    /\ IF final = b
       THEN Goto(b, "undoing", "withdrawing") /\ UNCHANGED <<guard, rollbackLost>>
       ELSE GiveUp(b, "undoing")
    /\ UNCHANGED <<names, tree, writer>>

(* The rename acts on the name: it moves whatever tree is there by now.    *)
Withdraw(b) ==
    /\ IF final # NoTree
       THEN /\ Goto(b, "withdrawing", "withdrawn")
            /\ rejected' = [rejected EXCEPT ![b] = final]
            /\ final' = NoTree
            /\ durable' = durable \cup {NoTree}
            /\ UNCHANGED <<guard, rollbackLost>>
       ELSE /\ GiveUp(b, "withdrawing")
            /\ UNCHANGED <<final, rejected, durable>>
    /\ UNCHANGED <<staging, retired, tree, writer>>

(* Second half: the moved tree is looked at again.  This build's own tree  *)
(* makes the withdrawal durable; another build's tree is put back under    *)
(* the final name, if that name is still free, and the rollback raises.    *)
ConfirmOwn(b) ==
    /\ rejected[b] = b
    /\ Abort(b, "withdrawn")
    /\ durable' = {final}
    /\ UNCHANGED <<final, staging, rejected, retired, tree, writer, rollbackLost>>

(* Mutant: another build's tree stays where the rollback moved it.         *)
PutNothingBack(b) ==
    /\ rejected[b] # b
    /\ GiveUp(b, "withdrawn")
    /\ UNCHANGED <<names, tree, writer>>

PutBack(b) ==
    /\ rejected[b] # b
    /\ GiveUp(b, "withdrawn")
    /\ IF final = NoTree
       THEN /\ final' = rejected[b]
            /\ rejected' = [rejected EXCEPT ![b] = NoTree]
            /\ durable' = durable \cup {final'}
       ELSE UNCHANGED <<final, rejected, durable>>
    /\ UNCHANGED <<staging, retired, tree, writer>>

(* lease.cleanup(): the guard again, without requiring the name.           *)
CleanupBegin(b) ==
    /\ Goto(b, "cleaning", "emptying")
    /\ Acquire(b)
    /\ UNCHANGED <<names, tree, writer, rollbackLost>>

(* _cleanup_contents_fd empties the pinned inode, whatever names it.       *)
EmptyTree(b) ==
    /\ Goto(b, "emptying", "removing")
    /\ bytes' = [bytes EXCEPT ![b] = 0]
    /\ flushed' = [flushed EXCEPT ![b] = 0]
    /\ sealed' = [sealed EXCEPT ![b] = FALSE]
    /\ UNCHANGED <<names, manifest, expected, stray, locks, rollbackLost>>

(* The staging name is removed if it is still bound to the tree.           *)
RemoveName(b) ==
    /\ Goto(b, "removing", "failed")
    /\ staging' = staging \ {b}
    /\ Release(b)
    /\ UNCHANGED <<final, rejected, durable, retired, tree, writer, rollbackLost>>

(* Mutant: an exception before the export begins cleans nothing up.        *)
HandlerForgets(p) ==
    CASE p \in Before  -> "failed"
      [] p \in Exposed -> "undoing"
      [] p \in Clean   -> "uncleaned"
      [] OTHER         -> "cleaning"

(* Where an exception leads.  Before the rename the build is cleaned up;   *)
(* after it the publication is undone first; a failure while undoing gives *)
(* the rollback up, one while cleaning leaves the tree.                    *)
Handler(p) ==
    CASE p \in {"idle", "evidence"} -> "failed"
      [] p \in Exposed              -> "undoing"
      [] p \in Clean                -> "uncleaned"
      [] OTHER                      -> "cleaning"

(* Mutant: an exception after the rename cleans up and undoes nothing.     *)
StepFailsForward(b) ==
    /\ pc[b] \in FaultPoints
    /\ pc' = [pc EXCEPT ![b] = IF @ \in Exposed THEN "cleaning" ELSE Handler(@)]
    /\ guard' = [guard EXCEPT ![b] = IF pc[b] \in Holding THEN "free" ELSE @]
    /\ rollbackLost' = [rollbackLost EXCEPT ![b] = @ \/ pc[b] \in Undo]
    /\ UNCHANGED <<names, tree, writer>>

(* A system call or a validation fails.                                    *)
StepFails(b) ==
    /\ pc[b] \in FaultPoints
    /\ pc' = [pc EXCEPT ![b] = Handler(@)]
    /\ guard' = [guard EXCEPT ![b] =
                   IF pc[b] \in Holding /\ pc[b] \notin Exposed THEN "free" ELSE @]
    /\ rollbackLost' = [rollbackLost EXCEPT ![b] = @ \/ pc[b] \in Undo]
    /\ UNCHANGED <<names, tree, writer>>

Progress(b) ==
    \/ CheckFinal(b)       \/ CreateLease(b)     \/ ExportBegin(b)
    \/ ExportWrite(b)      \/ FinalizeBegin(b)   \/ WriteManifest(b)
    \/ ValidateFinal(b)    \/ PublishBegin(b)    \/ CheckDestination(b)
    \/ Seal(b)             \/ VerifySealed(b)    \/ Flush(b)
    \/ VerifyFlushed(b)    \/ Rename(b)          \/ VerifyRenamed(b)
    \/ SyncParent(b)       \/ RollbackLook(b)    \/ Withdraw(b)
    \/ ConfirmOwn(b)       \/ PutBack(b)         \/ CleanupBegin(b)
    \/ EmptyTree(b)        \/ RemoveName(b)

-----------------------------------------------------------------------------
(* The other actors.                                                       *)

(* A cooperative writer opens the staging directory by name, takes the     *)
(* same flock, and opens a file for writing: refused once it is sealed.    *)
WriterOpen(b) ==
    /\ writer[b] = "away" /\ b \in staging \cap Visited
    /\ writer' = [writer EXCEPT ![b] = "waiting"]
    /\ UNCHANGED <<pc, names, tree, guard, rollbackLost>>

WriterEnter(b) ==
    /\ writer[b] = "waiting" /\ guard[b] = "free"
    /\ writer' = [writer EXCEPT ![b] = "inside"]
    /\ guard' = [guard EXCEPT ![b] = "writer"]
    /\ UNCHANGED <<pc, names, tree, rollbackLost>>

WriterEdit(b) ==
    /\ writer[b] = "inside" /\ ~sealed[b]
    /\ bytes[b] \in 1 .. MaxVersion - 1
    /\ bytes' = [bytes EXCEPT ![b] = @ + 1]
    /\ UNCHANGED <<pc, names, flushed, sealed, manifest, expected, stray, locks,
                   rollbackLost>>

WriterLeave(b) ==
    /\ writer[b] = "inside"
    /\ writer' = [writer EXCEPT ![b] = "gone"]
    /\ guard' = [guard EXCEPT ![b] = "free"]
    /\ UNCHANGED <<pc, names, tree, rollbackLost>>

(* An accidental change through a descriptor opened before the seal, at    *)
(* any moment up to the last look at the bytes.                            *)
StrayEdit(b) ==
    /\ pc[b] \in Finalize \cup Checks \cup {"renamed"}
    /\ bytes[b] \in 1 .. MaxVersion - 1
    /\ bytes' = [bytes EXCEPT ![b] = @ + 1]
    /\ stray' = [stray EXCEPT ![b] = TRUE]
    /\ UNCHANGED <<pc, names, flushed, sealed, manifest, expected, locks,
                   rollbackLost>>

(* An operator moves a dataset away, to make room for a new build.         *)
Retire ==
    /\ final # NoTree /\ Cardinality(retired) < MaxRetired
    /\ retired' = retired \cup {final}
    /\ final' = NoTree
    /\ durable' = {NoTree}
    /\ UNCHANGED <<pc, staging, rejected, tree, locks, rollbackLost>>

(* The process of a build dies; the kernel drops its flock.                *)
Crash(b) ==
    /\ pc[b] \notin Done \cup {"idle"}
    /\ pc' = [pc EXCEPT ![b] = "crashed"]
    /\ guard' = [guard EXCEPT ![b] = IF @ = "builder" THEN "free" ELSE @]
    /\ UNCHANGED <<names, tree, writer, rollbackLost>>

(* The machine stops: every process dies, unflushed bytes may be gone, and *)
(* the final name is one of the bindings since the directory was synced.   *)
PowerLoss ==
    /\ \E b \in Builders : pc[b] \notin Done \cup {"idle"}
    /\ pc' = [b \in Builders |->
                IF pc[b] \in Done \cup {"idle"} THEN pc[b] ELSE "crashed"]
    /\ \E kept \in SUBSET Builders :
         bytes' = [b \in Builders |-> IF b \in kept THEN bytes[b] ELSE flushed[b]]
    /\ \E f \in durable :
         /\ final' = f
         /\ durable' = {f}
         /\ staging' = (staging \cup ({final} \ {NoTree})) \ {f}
         /\ rejected' = [b \in Builders |->
                           IF rejected[b] = f THEN NoTree ELSE rejected[b]]
    /\ guard' = [b \in Builders |-> "free"]
    /\ writer' = [b \in Builders |-> IF writer[b] = "away" THEN "away" ELSE "gone"]
    /\ UNCHANGED <<flushed, sealed, manifest, expected, stray, rollbackLost, retired>>

(* Every build has returned: a stop that is no deadlock.                   *)
Terminated == (\A b \in Builders : pc[b] \in Done) /\ UNCHANGED vars

Next ==
    \/ \E b \in Builders :
         \/ Progress(b)   \/ StepFails(b)   \/ LeaseLost(b)  \/ Crash(b)
         \/ WriterOpen(b) \/ WriterEnter(b) \/ WriterEdit(b) \/ WriterLeave(b)
         \/ StrayEdit(b)
    \/ Retire
    \/ PowerLoss
    \/ Terminated

Spec == Init /\ [][Next]_vars

(* A running build keeps taking steps, and a cooperative writer leaves the *)
(* guard it entered; nothing else is promised.                             *)
Fairness == \A b \in Builders : WF_vars(Progress(b)) /\ WF_vars(WriterLeave(b))

FairSpec == Spec /\ Fairness

-----------------------------------------------------------------------------
(* Properties.                                                             *)

MaybeTree == Builders \cup {NoTree}

(* Every variable holds a value of the kind the code gives it.             *)
TypeOK ==
    /\ pc \in [Builders -> Points]
    /\ final \in MaybeTree
    /\ staging \subseteq Builders /\ retired \subseteq Builders
    /\ rejected \in [Builders -> MaybeTree]
    /\ durable \subseteq MaybeTree
    /\ bytes \in [Builders -> Nat] /\ flushed \in [Builders -> Nat]
    /\ manifest \in [Builders -> Nat] /\ expected \in [Builders -> Nat]
    /\ sealed \in [Builders -> BOOLEAN] /\ stray \in [Builders -> BOOLEAN]
    /\ rollbackLost \in [Builders -> BOOLEAN]
    /\ guard \in [Builders -> {"free", "builder", "writer"}]
    /\ writer \in [Builders -> {"away", "waiting", "inside", "gone"}]

(* The guard is held exactly over the guarded stretches of the build and   *)
(* the writer, on every error path too: an exception that kept the flock   *)
(* would block lease.cleanup(), one that dropped it early would let a      *)
(* writer in between two checks of the publication.                        *)
GuardDiscipline ==
    \A b \in Builders :
        /\ guard[b] = "builder" <=> pc[b] \in Holding
        /\ guard[b] = "writer"  <=> writer[b] = "inside"

(* "An existing final path is never overwritten": no step of any build     *)
(* binds the final name to a tree while it names another one, although     *)
(* every build looked at the name long before it renames.                  *)
NeverOverwritten ==
    [][PowerLoss \/ (final # NoTree => final' \in {final, NoTree})]_vars

(* A build that reported success published, sealed, exactly the bytes the  *)
(* final validation authorised, and nobody who respects the seal or the    *)
(* guard changes them afterwards, a writer that was already waiting for    *)
(* the guard included.                                                     *)
PublishedIsAuthorised ==
    \A b \in Builders : pc[b] = "published" =>
        bytes[b] > 0 /\ bytes[b] = expected[b] /\ sealed[b]

(* Whatever the final name shows at any moment, after a crash or a power   *)
(* loss too, is a complete authorised dataset, unless its bytes were       *)
(* changed behind the guard or its rollback could not be carried out.      *)
VisibleIsAuthorised ==
    \A b \in Builders : final = b /\ ~stray[b] /\ ~rollbackLost[b] =>
        bytes[b] > 0 /\ bytes[b] = expected[b]

(* A build that failed, and whose rollback and cleanup the system allowed, *)
(* owns neither the final name nor a staging name.                         *)
FailureLeavesNothing ==
    \A b \in Builders : pc[b] = "failed" /\ ~rollbackLost[b] =>
        final # b /\ b \notin staging

(* A rollback that moved the tree of another build away from the final     *)
(* name gives it back; it can only keep it if a third build took the name  *)
(* in between.  (While the system does not refuse the rename back.)        *)
StolenTreeIsReturned ==
    \A a, b \in Builders :
        rejected[a] = b /\ a # b /\ pc[a] \in Clean \cup {"failed"} =>
            \E c \in Builders \ {a, b} :
                \/ pc[c] \in Exposed \cup Undo \cup {"published", "crashed"}
                \/ rejected[c] = c \/ rollbackLost[c]

(* The protocol implements the one-step publication of AtomicPublication:  *)
(* the slot is the final name, and a build reports what its process ends   *)
(* with.  (Without an operator, and while rollbacks are not refused by the *)
(* system: those may leave a failed build's tree under the final name.)    *)
Outcome(b) ==
    CASE pc[b] = "published"                        -> "published"
      [] pc[b] \in {"refused", "failed", "uncleaned"} -> "failed"
      [] pc[b] = "crashed"                          -> "crashed"
      [] OTHER                                      -> "running"

Atomic == INSTANCE AtomicPublication WITH
            slot <- final, outcome <- [b \in Builders |-> Outcome(b)]

ImplementsAtomic == Atomic!Spec

(* Every build that starts comes to an end: no error path leaves the guard *)
(* in a state that blocks the build's own cleanup.                         *)
EveryBuildEnds == \A b \in Builders : <>(pc[b] \in Done)

-----------------------------------------------------------------------------
(* What makes the safety properties inductive.                             *)

(* The points from the authorisation of the bytes, from the seal, from the *)
(* flush and from the second verification to the end of a publication.     *)
FromRename == Exposed \cup Undo \cup {"published"}
FromReady  == FromRename \cup {"ready"}
FromSynced == FromReady \cup {"synced"}
FromSealed == FromSynced \cup {"sealed", "verified"}
FromAuthor == FromSealed \cup {"finalized", "publishing", "unsealed"}

(* How far a build is fixes how its versions are ordered: the authorised   *)
(* one, the flushed one, the current one.                                  *)
Versions(b) ==
    /\ pc[b] \in FromAuthor \cup {"exported", "finalizing", "manifested"} => bytes[b] > 0
    /\ pc[b] \in FromAuthor => 0 < expected[b] /\ expected[b] <= bytes[b]
    /\ pc[b] \in FromSealed => sealed[b]
    /\ pc[b] = "synced" => expected[b] <= flushed[b] /\ flushed[b] <= bytes[b]
    /\ pc[b] \in FromReady => flushed[b] = expected[b]
    /\ pc[b] \in FromReady /\ ~stray[b] => bytes[b] = expected[b]
    /\ pc[b] \in {"confirmed", "published"} => bytes[b] = expected[b]

(* A tree that is, may become after a power loss, or may be put back under *)
(* the final name.                                                         *)
Named(b) == final = b \/ b \in durable \/ \E a \in Builders \ {b} : rejected[a] = b

(* Such a tree was renamed by its build and holds what was authorised; no  *)
(* tree has two names.                                                     *)
Naming(b) ==
    /\ Named(b) => rollbackLost[b] \/ pc[b] \in FromRename \cup {"crashed"}
    /\ Named(b) /\ ~stray[b] /\ ~rollbackLost[b] =>
         /\ 0 < expected[b] /\ sealed[b]
         /\ bytes[b] = expected[b] /\ flushed[b] = expected[b]
    /\ rollbackLost[b] => pc[b] \in Clean \cup {"failed", "uncleaned", "crashed"}
    /\ rejected[b] = b => pc[b] \in {"withdrawn"} \cup Clean \cup Done
    /\ pc[b] \in {"idle", "evidence", "refused"} => b \notin staging
    /\ pc[b] = "failed" /\ ~rollbackLost[b] => b \notin staging
    /\ rejected[b] # NoTree => rejected[b] # final
    /\ \A a \in Builders \ {b} : rejected[a] = rejected[b] => rejected[b] = NoTree

(* The inductive invariant of the build, as one formula.                   *)
IInv == TypeOK /\ GuardDiscipline /\ \A b \in Builders : Versions(b) /\ Naming(b)

(* Two rollbacks cannot hold each other's tree, and the tree of a rollback *)
(* that holds another build's tree is not back under the final name, but   *)
(* for a third build that gave its own rollback up.                        *)
Theft(a) ==
    /\ pc[a] = "withdrawn" => rejected[a] # NoTree
    /\ rejected[a] # NoTree => pc[a] \in {"withdrawn"} \cup Clean \cup Done
    /\ pc[a] = "withdrawn" /\ rejected[a] # a /\ final = a =>
         \E c \in Builders \ {a, rejected[a]} : rollbackLost[c]
    /\ \A b \in Builders \ {a} :
         /\ pc[a] = "withdrawn" /\ pc[b] = "withdrawn"
         /\ rejected[a] = b /\ rejected[b] = a
         => \E c \in Builders \ {a, b} : rollbackLost[c]

(* Without an operator and without failing rollbacks the final name stays  *)
(* with the build that took it, and a reported dataset is durable.         *)
Undisturbed(b) ==
    /\ pc[b] \in Exposed \cup {"undoing", "withdrawing", "published"} => final = b
    /\ pc[b] = "withdrawn" => rejected[b] = b
    /\ pc[b] = "published" => durable = {b}
    /\ ~rollbackLost[b] /\ retired = {}

=============================================================================
