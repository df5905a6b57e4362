---------------------------- MODULE ExtractionCache ----------------------------
(***************************************************************************)
(* One key of the extraction result cache (extraction/cache.py): the       *)
(* directory extraction-results/<source>/, in which the name <config_hash> *)
(* is bound to a generation, .<config_hash>.lock serialises writers and    *)
(* .<config_hash>.staging-<uuid> names what a writer prepares or discards. *)
(*                                                                         *)
(* A generation is a directory inode.  The code remembers a generation by  *)
(* its (device, inode) pair only, and an inode that nothing names or holds *)
(* open is reused, so Inodes is a small set that is allocated again and    *)
(* again.  A generation holds file 0, which stands for result.json and     *)
(* manifest.json, and the images 1 .. ImageCount; version tells which      *)
(* store wrote it, hence which digests its manifest lists.                 *)
(***************************************************************************)
EXTENDS Integers, FiniteSets

CONSTANTS
    Writers,      \* calls of store()
    Readers,      \* calls of _materialize_owned()
    NoOne,        \* the value of a lock nobody holds
    Inodes,       \* the inode numbers of the file system
    NoInode,      \* the binding of a name that does not exist
    ImageCount,   \* how many images a generation has
    FaultPoints   \* the points at which a system call may fail

ASSUME NoOneAssumption == NoOne \notin Writers
ASSUME NoInodeAssumption == NoInode \notin Inodes
ASSUME ImageAssumption == ImageCount \in Nat

VARIABLES
    final,        \* the inode <config_hash> is bound to
    durable,      \* the bindings of <config_hash> a power loss may leave
    files,        \* the files each directory holds
    version,      \* which store filled the directory
    flushed,      \* TRUE once the directory's files are fsynced
    debris,       \* inodes left under a staging name nobody will use again
    lock,         \* who holds the flock on .<config_hash>.lock
    clock,        \* number of stores that began to fill a directory
    wpc,          \* where each writer is
    temp,         \* the inode the writer's staging name is bound to
    old,          \* the generation the writer found (existing_identity)
    new,          \* the directory the writer made (temporary_identity)
    rpc,          \* where each reader is
    pin,          \* the inode a reader holds open
    seen,         \* inode and version the reader's inspection returned
    copied        \* the version each image was copied from

store   == <<final, durable, files, version, flushed, debris, lock, clock>>
writing == <<wpc, temp, old, new>>
reading == <<rpc, pin, seen, copied>>
vars    == <<store, writing, reading>>

Files  == 0 .. ImageCount
Images == 1 .. ImageCount
MaybeInode == Inodes \cup {NoInode}

Prepare == {"locked", "making", "filling", "describing", "flushing", "publishing"}
Refresh == {"opened"}
Replaced == {"exchanged", "interrupted"}
Retiring == {"retiring", "retiringFailed"}
WriterDone == {"stored", "kept", "failed", "crashed"}
WriterPoints == {"idle", "revalidating", "discarding"} \cup Prepare \cup Refresh
                  \cup Replaced \cup Retiring \cup WriterDone
InLock == WriterPoints \ ({"idle"} \cup WriterDone)

Reading == {"opened", "read", "inspected", "copying"}
ReaderDone == {"hit", "miss", "debt", "crashed"}
ReaderPoints == {"idle", "rollback"} \cup Reading \cup ReaderDone

ASSUME FaultAssumption ==
    FaultPoints \subseteq (WriterPoints \ WriterDone) \cup (ReaderPoints \ ReaderDone)

Init ==
    /\ final = NoInode
    /\ durable = {NoInode}
    /\ files = [i \in Inodes |-> {}]
    /\ version = [i \in Inodes |-> 0]
    /\ flushed = [i \in Inodes |-> FALSE]
    /\ debris = {}
    /\ lock = NoOne
    /\ clock = 0
    /\ wpc = [w \in Writers |-> "idle"]
    /\ temp = [w \in Writers |-> NoInode]
    /\ old = [w \in Writers |-> NoInode]
    /\ new = [w \in Writers |-> NoInode]
    /\ rpc = [r \in Readers |-> "idle"]
    /\ pin = [r \in Readers |-> NoInode]
    /\ seen = [r \in Readers |-> [inode |-> NoInode, version |-> 0]]
    /\ copied = [r \in Readers |-> [k \in Images |-> 0]]

(* What _inspect_pinned accepts: exactly the files the manifest lists.     *)
Complete(i) == i # NoInode /\ files[i] = Files

(* An inode is in use while a name or an open descriptor refers to it.     *)
Used == {final} \cup durable \cup debris
          \cup {temp[w] : w \in Writers}
          \cup {new[w] : w \in {u \in Writers : wpc[u] \in InLock}}
          \cup {old[w] : w \in {u \in Writers : wpc[u] \in Refresh \cup Replaced \cup Retiring}}
          \cup {pin[r] : r \in Readers}

-----------------------------------------------------------------------------
(* store()                                                                 *)

WGoto(w, from, to) == wpc[w] = from /\ wpc' = [wpc EXCEPT ![w] = to]

(* _cache_lock: flock(LOCK_EX) on the key's lock file.                     *)
Lock(w) ==
    /\ WGoto(w, "idle", "locked")
    /\ lock = NoOne
    /\ lock' = w
    /\ UNCHANGED <<final, durable, files, version, flushed, debris, clock,
                   temp, old, new, reading>>

(* A verified generation satisfies a store that does not force a refresh.  *)
KeepExisting(w) ==
    /\ WGoto(w, "locked", "kept")
    /\ Complete(final)
    /\ lock' = NoOne
    /\ UNCHANGED <<final, durable, files, version, flushed, debris, clock,
                   temp, old, new, reading>>

(* Otherwise the present binding, readable or not, is what will be         *)
(* replaced.                                                               *)
FindExisting(w) ==
    /\ WGoto(w, "locked", "making")
    /\ old' = [old EXCEPT ![w] = final]
    /\ UNCHANGED <<store, temp, new, reading>>

MakeTemporary(w) ==
    /\ WGoto(w, "making", "filling")
    /\ \E i \in Inodes \ Used :
         /\ temp' = [temp EXCEPT ![w] = i]
         /\ new' = [new EXCEPT ![w] = i]
         /\ files' = [files EXCEPT ![i] = {}]
         /\ version' = [version EXCEPT ![i] = clock + 1]
         /\ flushed' = [flushed EXCEPT ![i] = FALSE]
    /\ clock' = clock + 1
    /\ UNCHANGED <<final, durable, debris, lock, old, reading>>

(* The fresh directory cannot be opened: the finally block that would      *)
(* discard it is not entered yet, so it stays.                             *)
TemporaryLost(w) ==
    /\ "making" \in FaultPoints
    /\ WGoto(w, "making", "failed")
    /\ \E i \in Inodes \ Used :
         /\ debris' = debris \cup {i}
         /\ files' = [files EXCEPT ![i] = {}]
         /\ flushed' = [flushed EXCEPT ![i] = FALSE]
    /\ lock' = NoOne
    /\ UNCHANGED <<final, durable, version, clock, temp, old, new, reading>>

WriteImages(w) ==
    /\ WGoto(w, "filling", "describing")
    /\ files' = [files EXCEPT ![new[w]] = Images]
    /\ UNCHANGED <<final, durable, version, flushed, debris, lock, clock,
                   temp, old, new, reading>>

WriteResult(w) ==
    /\ WGoto(w, "describing", "flushing")
    /\ files' = [files EXCEPT ![new[w]] = @ \cup {0}]
    /\ UNCHANGED <<final, durable, version, flushed, debris, lock, clock,
                   temp, old, new, reading>>

(* Mutant: nothing is fsynced before the generation is published.          *)
SealUnflushed(w) ==
    WGoto(w, "flushing", "publishing") /\ UNCHANGED <<store, temp, old, new, reading>>

(* _fsync_tree_fd, then _seal_generation_files.                            *)
FlushAndSeal(w) ==
    /\ WGoto(w, "flushing", "publishing")
    /\ flushed' = [flushed EXCEPT ![new[w]] = TRUE]
    /\ UNCHANGED <<final, durable, files, version, debris, lock, clock,
                   temp, old, new, reading>>

(* First generation of the key: RENAME_NOREPLACE.  An interruption right   *)
(* after the call leaves published = False: the finally block then sees    *)
(* the new generation under the final name and lets it be.                 *)
PublishFirst(w) ==
    /\ old[w] = NoInode /\ final = NoInode
    /\ \/ WGoto(w, "publishing", "revalidating") /\ UNCHANGED lock
       \/ /\ "publishing" \in FaultPoints
          /\ WGoto(w, "publishing", "failed")
          /\ lock' = NoOne
    /\ final' = temp[w]
    /\ durable' = durable \cup {temp[w]}
    /\ temp' = [temp EXCEPT ![w] = NoInode]
    /\ UNCHANGED <<files, version, flushed, debris, clock, old, new, reading>>

(* _publish_refresh: both bindings are checked, the predecessor is pinned. *)
OpenPredecessor(w) ==
    /\ old[w] # NoInode /\ final = old[w]
    /\ WGoto(w, "publishing", "opened")
    /\ UNCHANGED <<store, temp, old, new, reading>>

(* Mutant: the old generation is moved away before the new one is moved in.*)
MoveAway(w) ==
    /\ WGoto(w, "opened", "exchanged")
    /\ final' = NoInode
    /\ UNCHANGED <<durable, files, version, flushed, debris, lock, clock, temp,
                   old, new, reading>>

(* RENAME_EXCHANGE of the staging name and the final name; an exception    *)
(* may also arrive after the effect and before it is noted.                *)
Exchange(w) ==
    /\ \/ WGoto(w, "opened", "exchanged")
       \/ "opened" \in FaultPoints /\ WGoto(w, "opened", "interrupted")
    /\ final' = temp[w]
    /\ temp' = [temp EXCEPT ![w] = final]
    /\ durable' = durable \cup {temp[w]}
    /\ UNCHANGED <<files, version, flushed, debris, lock, clock, old, new, reading>>

(* fsync of the source directory before the predecessor is touched.        *)
SyncExchange(w) ==
    /\ WGoto(w, "exchanged", "retiring")
    /\ durable' = {final}
    /\ UNCHANGED <<final, files, version, flushed, debris, lock, clock,
                   temp, old, new, reading>>

(* The finally block of _publish_refresh looks at both names to learn      *)
(* whether the exchange happened, and retires the predecessor if it did.   *)
Reconsider(w) ==
    /\ WGoto(w, "interrupted",
             IF final = new[w] /\ temp[w] = old[w] THEN "retiringFailed" ELSE "discarding")
    /\ UNCHANGED <<store, temp, old, new, reading>>

(* Mutant: the loop over the entries does not unlink them.                 *)
RemoveNothing(w) ==
    /\ wpc[w] \in Retiring \cup {"discarding"}
    /\ files[temp[w]] # {}
    /\ UNCHANGED vars

(* cleanup_pinned_directory removes the entries one at a time ...          *)
RemoveEntry(w) ==
    /\ wpc[w] \in Retiring \cup {"discarding"}
    /\ \E k \in files[temp[w]] : files' = [files EXCEPT ![temp[w]] = @ \ {k}]
    /\ UNCHANGED <<final, durable, version, flushed, debris, lock, clock,
                   writing, reading>>

(* Mutant: the emptied directory keeps its name.                           *)
EmptyOnly(w) ==
    /\ temp[w] # NoInode /\ files[temp[w]] = {}
    /\ \/ WGoto(w, "retiring", "revalidating") /\ UNCHANGED lock
       \/ /\ WGoto(w, "retiringFailed", "failed") \/ WGoto(w, "discarding", "failed")
          /\ lock' = NoOne
    /\ UNCHANGED <<final, durable, files, version, flushed, debris, clock, temp, old,
                   new, reading>>

(* ... and then the name, which it also makes durable.                     *)
RemoveTemporary(w) ==
    /\ temp[w] # NoInode /\ files[temp[w]] = {}
    /\ \/ WGoto(w, "retiring", "revalidating") /\ UNCHANGED lock
       \/ /\ WGoto(w, "retiringFailed", "failed") \/ WGoto(w, "discarding", "failed")
          /\ lock' = NoOne
    /\ temp' = [temp EXCEPT ![w] = NoInode]
    /\ durable' = {final}
    /\ UNCHANGED <<final, files, version, flushed, debris, clock, old, new, reading>>

(* The published generation is read back before the lock is left.          *)
Revalidate(w) ==
    /\ WGoto(w, "revalidating", IF Complete(final) THEN "stored" ELSE "failed")
    /\ lock' = NoOne
    /\ UNCHANGED <<final, durable, files, version, flushed, debris, clock,
                   temp, old, new, reading>>

(* A call fails.  Before the publication the staging directory is          *)
(* discarded; after an exchange the predecessor is retired all the same;   *)
(* a cleanup that fails is suppressed and leaves the directory behind.     *)
WriterFails(w) ==
    /\ wpc[w] \in FaultPoints
    /\ \/ /\ wpc[w] \in {"idle", "locked", "making", "revalidating"}
          /\ wpc' = [wpc EXCEPT ![w] = "failed"]
          /\ UNCHANGED <<temp, debris>>
       \/ /\ wpc[w] \in {"filling", "describing", "flushing", "publishing", "opened"}
          /\ wpc' = [wpc EXCEPT ![w] = IF @ = "opened" THEN "interrupted" ELSE "discarding"]
          /\ UNCHANGED <<temp, debris>>
       \/ /\ wpc[w] = "exchanged"
          /\ wpc' = [wpc EXCEPT ![w] = "retiringFailed"]
          /\ UNCHANGED <<temp, debris>>
       \/ /\ wpc[w] \in Retiring \cup {"discarding"}
          /\ wpc' = [wpc EXCEPT ![w] = IF @ = "retiring" THEN "revalidating" ELSE "failed"]
          /\ debris' = debris \cup {temp[w]}
          /\ temp' = [temp EXCEPT ![w] = NoInode]
    /\ lock' = IF wpc'[w] = "failed" /\ lock = w THEN NoOne ELSE lock
    /\ UNCHANGED <<final, durable, files, version, flushed, clock, old, new, reading>>

WriterProgress(w) ==
    \/ Lock(w)            \/ KeepExisting(w)  \/ FindExisting(w)
    \/ MakeTemporary(w)   \/ WriteImages(w)   \/ WriteResult(w)
    \/ FlushAndSeal(w)    \/ PublishFirst(w)  \/ OpenPredecessor(w)
    \/ Exchange(w)        \/ SyncExchange(w)  \/ Reconsider(w)
    \/ RemoveEntry(w)     \/ RemoveTemporary(w) \/ Revalidate(w)

-----------------------------------------------------------------------------
(* _materialize_owned(), which takes no lock.                              *)

RGoto(r, from, to) == rpc[r] = from /\ rpc' = [rpc EXCEPT ![r] = to]

(* _inspect_pinned opens the generation the name is bound to ...           *)
OpenGeneration(r) ==
    /\ RGoto(r, "idle", IF final = NoInode THEN "miss" ELSE "opened")
    /\ pin' = [pin EXCEPT ![r] = final]
    /\ UNCHANGED <<store, writing, seen, copied>>

(* ... lists it and reads the manifest and the result ...                  *)
ReadMetadata(r) ==
    /\ IF Complete(pin[r])
       THEN /\ RGoto(r, "opened", "read")
            /\ seen' = [seen EXCEPT ![r] =
                          [inode |-> pin[r], version |-> version[pin[r]]]]
            /\ UNCHANGED pin
       ELSE /\ RGoto(r, "opened", "miss")
            /\ pin' = [pin EXCEPT ![r] = NoInode]
            /\ UNCHANGED seen
    /\ UNCHANGED <<store, writing, copied>>

(* ... and looks at the binding again before it closes the directory.      *)
CheckBinding(r) ==
    /\ RGoto(r, "read", IF final = pin[r] THEN "inspected" ELSE "miss")
    /\ pin' = [pin EXCEPT ![r] = NoInode]
    /\ UNCHANGED <<store, writing, seen, copied>>

(* The generation is opened a second time: by now the name may be bound    *)
(* to another directory, which may even have the same inode number.        *)
Reopen(r) ==
    /\ IF final # NoInode /\ final = seen[r].inode
       THEN /\ RGoto(r, "inspected", "copying")
            /\ pin' = [pin EXCEPT ![r] = final]
       ELSE RGoto(r, "inspected", "miss") /\ UNCHANGED pin
    /\ UNCHANGED <<store, writing, seen, copied>>

Todo(r) == {k \in Images : copied[r][k] = 0}

(* Mutant: an image is copied without looking at its digest.               *)
CopyUnverified(r) ==
    /\ rpc[r] = "copying" /\ Todo(r) # {}
    /\ \E k \in Todo(r) \cap files[pin[r]] :
         copied' = [copied EXCEPT ![r][k] = version[pin[r]]]
    /\ UNCHANGED <<store, writing, rpc, pin, seen>>

(* _copy_verified_image_at: the bytes must have the digest the inspected   *)
(* manifest lists; a missing file or another digest ends the attempt.      *)
CopyImage(r) ==
    /\ rpc[r] = "copying" /\ Todo(r) # {}
    /\ LET k == CHOOSE n \in Todo(r) : \A m \in Todo(r) : n <= m IN
       IF k \in files[pin[r]] /\ version[pin[r]] = seen[r].version
       THEN /\ copied' = [copied EXCEPT ![r][k] = version[pin[r]]]
            /\ UNCHANGED <<rpc, pin>>
       ELSE /\ RGoto(r, "copying", "rollback")
            /\ pin' = [pin EXCEPT ![r] = NoInode]
            /\ UNCHANGED copied
    /\ UNCHANGED <<store, writing, seen>>

(* Mutant: the binding is not looked at again after the copy.              *)
TrustBinding(r) ==
    /\ Todo(r) = {}
    /\ RGoto(r, "copying", "hit")
    /\ pin' = [pin EXCEPT ![r] = NoInode]
    /\ UNCHANGED <<store, writing, seen, copied>>

(* All images are there: the binding is looked at a last time.             *)
ConfirmBinding(r) ==
    /\ Todo(r) = {}
    /\ RGoto(r, "copying", IF final = pin[r] THEN "hit" ELSE "rollback")
    /\ pin' = [pin EXCEPT ![r] = NoInode]
    /\ UNCHANGED <<store, writing, seen, copied>>

(* Mutant: the result of a rolled back copy is not turned into a miss.     *)
RollBackSilently(r) ==
    /\ RGoto(r, "rollback", "rolledBack")
    /\ copied' = [copied EXCEPT ![r] = [k \in Images |-> 0]]
    /\ UNCHANGED <<store, writing, pin, seen>>

(* rollback_staging_invocation removes the reader's private copy.          *)
RollBack(r) ==
    /\ RGoto(r, "rollback", "miss")
    /\ copied' = [copied EXCEPT ![r] = [k \in Images |-> 0]]
    /\ UNCHANGED <<store, writing, pin, seen>>

(* A failing call is a miss, once the private copy is removed; if it       *)
(* cannot be removed the caller is told (OwnedDirectoryCleanupError).      *)
ReaderFails(r) ==
    /\ rpc[r] \in FaultPoints
    /\ rpc' = [rpc EXCEPT ![r] = CASE @ = "copying"  -> "rollback"
                                   [] @ = "rollback" -> "debt"
                                   [] OTHER          -> "miss"]
    /\ pin' = [pin EXCEPT ![r] = NoInode]
    /\ UNCHANGED <<store, writing, seen, copied>>

ReaderProgress(r) ==
    \/ OpenGeneration(r) \/ ReadMetadata(r) \/ CheckBinding(r) \/ Reopen(r)
    \/ CopyImage(r)      \/ ConfirmBinding(r) \/ RollBack(r)

-----------------------------------------------------------------------------
(* Crashes.                                                                *)

(* A writer's process dies: its flock goes, its staging directory stays.   *)
WriterCrash(w) ==
    /\ wpc[w] \in InLock
    /\ wpc' = [wpc EXCEPT ![w] = "crashed"]
    /\ lock' = NoOne
    /\ debris' = debris \cup ({temp[w]} \ {NoInode})
    /\ temp' = [temp EXCEPT ![w] = NoInode]
    /\ UNCHANGED <<final, durable, files, version, flushed, clock, old, new, reading>>

(* The machine stops.  Unflushed files may be gone, the final name has one *)
(* of the bindings since its directory was last synced.                    *)
PowerLoss ==
    /\ \E w \in Writers : wpc[w] \in InLock
    /\ \E f \in durable :
         /\ final' = f
         /\ durable' = {f}
         /\ debris' = (debris \cup {temp[w] : w \in Writers} \cup {final}) \ {f, NoInode}
    /\ files' = [i \in Inodes |-> IF flushed[i] THEN files[i] ELSE {}]
    /\ lock' = NoOne
    /\ wpc' = [w \in Writers |-> IF wpc[w] \in InLock THEN "crashed" ELSE wpc[w]]
    /\ temp' = [w \in Writers |-> NoInode]
    /\ rpc' = [r \in Readers |->
                 IF rpc[r] \in ReaderDone \cup {"idle"} THEN rpc[r] ELSE "crashed"]
    /\ pin' = [r \in Readers |-> NoInode]
    /\ UNCHANGED <<version, flushed, clock, old, new, seen, copied>>

(* Every call has returned: a stop that is no deadlock.                    *)
Terminated ==
    /\ \A w \in Writers : wpc[w] \in WriterDone
    /\ \A r \in Readers : rpc[r] \in ReaderDone
    /\ UNCHANGED vars

Next ==
    \/ \E w \in Writers :
         WriterProgress(w) \/ WriterFails(w) \/ TemporaryLost(w) \/ WriterCrash(w)
    \/ \E r \in Readers : ReaderProgress(r) \/ ReaderFails(r)
    \/ PowerLoss
    \/ Terminated

Spec == Init /\ [][Next]_vars

(* Every call of store or materialize that started keeps running.          *)
Fairness ==
    /\ \A w \in Writers : WF_vars(WriterProgress(w))
    /\ \A r \in Readers : WF_vars(ReaderProgress(r))

FairSpec == Spec /\ Fairness

-----------------------------------------------------------------------------
(* Properties.                                                             *)

(* Every variable holds a value of the kind the code gives it.             *)
TypeOK ==
    /\ final \in MaybeInode /\ durable \subseteq MaybeInode
    /\ files \in [Inodes -> SUBSET Files]
    /\ version \in [Inodes -> Nat] /\ clock \in Nat
    /\ flushed \in [Inodes -> BOOLEAN]
    /\ debris \subseteq Inodes
    /\ lock \in Writers \cup {NoOne}
    /\ wpc \in [Writers -> WriterPoints]
    /\ temp \in [Writers -> MaybeInode]
    /\ old \in [Writers -> MaybeInode] /\ new \in [Writers -> MaybeInode]
    /\ rpc \in [Readers -> ReaderPoints]
    /\ pin \in [Readers -> MaybeInode]
    /\ seen \in [Readers -> [inode : MaybeInode, version : Nat]]
    /\ copied \in [Readers -> [Images -> Nat]]

(* What a reader hands out is one whole generation: every image comes from *)
(* the store whose result it returns, although it takes no lock, looks the *)
(* generation up twice by an inode number that may have been reused, and   *)
(* a writer may be emptying the directory it copies from.                  *)
HitIsOneGeneration ==
    \A r \in Readers : rpc[r] = "hit" =>
        seen[r].version > 0 /\ \A k \in Images : copied[r][k] = seen[r].version

(* The name of a generation is bound to a complete directory or to none,   *)
(* at every moment, whoever writes, fails or crashes.  One thing breaks    *)
(* it: a machine that stops while the predecessor of a refresh is emptied  *)
(* although the exchange raised, or its fsync failed, and so may not be    *)
(* durable (the finally block of _publish_refresh).  Even then what is torn *)
(* is a predecessor, never the generation that was made last.              *)
FinalIsComplete ==
    final # NoInode /\ ~Complete(final) =>
        /\ FaultPoints \cap {"opened", "exchanged"} # {}
        /\ \E w \in Writers : wpc[w] = "crashed"
        /\ version[final] < clock

(* A refresh replaces a generation "without a missing-generation gap"      *)
(* (_exchange_directories), and generations advance: a later store is      *)
(* never displaced by an earlier one.                                      *)
NoGapNoReturn ==
    [][\/ PowerLoss
       \/ final # NoInode => final' # NoInode /\ version'[final'] >= version[final]]_vars

(* Why a directory may have been left behind: a process died, a store has  *)
(* reported a failure after a failed cleanup or for a directory it could   *)
(* not open, or a store went on although its predecessor, older than what  *)
(* it has published, could not be removed.                                 *)
Accounted(i) ==
    \/ \E w \in Writers : wpc[w] = "crashed"
    \/ /\ FaultPoints \cap {"making", "retiringFailed", "discarding"} # {}
       /\ \E w \in Writers : wpc[w] = "failed"
    \/ "retiring" \in FaultPoints /\ final # NoInode /\ version[i] < version[final]

(* A store that has returned or raised leaves nothing under its staging    *)
(* name, and no directory is left behind without a reason, or is the one   *)
(* the final name is bound to.                                             *)
NothingLeftBehind ==
    /\ \A w \in Writers : wpc[w] \in WriterDone => temp[w] = NoInode
    /\ final \notin debris
    /\ \A i \in debris : Accounted(i)

(* The lock is held exactly by the store that is inside the guarded block, *)
(* so it is released on every path out of it.                              *)
LockDiscipline ==
    \A w \in Writers : lock = w <=> wpc[w] \in InLock

(* The key behaves as one register: a store that publishes puts a newer    *)
(* version in one step, a reader that succeeds returns the version that is *)
(* there when it confirms the binding.                                     *)
Register == INSTANCE CacheRegister WITH
    current <- IF final = NoInode THEN 0 ELSE version[final],
    answer  <- [r \in Readers |->
                  CASE rpc[r] = "hit" -> seen[r].version
                    [] rpc[r] \in ReaderDone \ {"hit"} -> 0
                    [] OTHER -> -1]

ImplementsRegister == Register!Spec

(* Every store and every materialization comes to an end: the lock is      *)
(* handed on after failures and crashes too.                               *)
EveryCallEnds ==
    /\ \A w \in Writers : <>(wpc[w] \in WriterDone)
    /\ \A r \in Readers : <>(rpc[r] \in ReaderDone)

-----------------------------------------------------------------------------
(* What makes the safety properties inductive.                             *)

(* The points at which a writer's staging name exists, and those at which  *)
(* the directory under it is the one it made and nobody else has seen.     *)
Unpublished == {"filling", "describing", "flushing", "publishing", "opened"}
Staged == Unpublished \cup Replaced \cup Retiring \cup {"discarding"}

(* A directory that survives a power loss as it is.                        *)
Sound(i) == Complete(i) /\ flushed[i]

(* An exchange may be interrupted, or be followed by a failing fsync.      *)
TornExchange == FaultPoints \cap {"opened", "exchanged"} # {}

(* What a writer has under its staging name.  The directory it fills is    *)
(* the newest of all, and no power loss can put it under the final name.   *)
Staging(w) ==
    /\ wpc[w] \notin Staged => temp[w] = NoInode
    /\ wpc[w] \in Staged => temp[w] \in Inodes \ (debris \cup {final})
    /\ wpc[w] \in Unpublished =>
         /\ temp[w] = new[w] /\ new[w] \notin durable
         /\ clock > 0 /\ version[new[w]] = clock
         /\ \A i \in Inodes \ {new[w]} : version[i] < clock
    /\ wpc[w] = "describing" => files[new[w]] = Images
    /\ wpc[w] \in {"flushing", "publishing", "opened"} => files[new[w]] = Files
    /\ wpc[w] \in {"publishing", "opened"} => flushed[new[w]]
    /\ wpc[w] = "opened" => final = old[w] /\ old[w] # NoInode
    /\ wpc[w] \in Replaced => final # NoInode
    /\ wpc[w] \in {"exchanged", "retiring"} =>
         final # NoInode /\ version[temp[w]] < version[final]
    /\ wpc[w] = "interrupted" =>
         (final = new[w] /\ temp[w] = old[w]) \/ temp[w] \notin durable
    /\ wpc[w] \in {"retiring", "discarding"} => temp[w] \notin durable
    /\ wpc[w] \in {"interrupted", "retiringFailed"} => TornExchange

(* A reader copies from one generation: once one image is verified, the    *)
(* directory it holds open is the generation it has inspected.             *)
Copying(r) ==
    /\ rpc[r] \in {"opened", "read", "copying"} => pin[r] \in Inodes
    /\ rpc[r] \in {"read", "inspected", "copying", "hit"} => seen[r].version > 0
    /\ rpc[r] \in {"idle"} \cup (Reading \ {"copying"}) => Todo(r) = Images
    /\ rpc[r] \in {"copying", "hit"} =>
         \A k \in Images \ Todo(r) : copied[r][k] = seen[r].version
    /\ rpc[r] = "copying" /\ Todo(r) # Images => version[pin[r]] = seen[r].version
    /\ rpc[r] = "hit" => Todo(r) = {}

(* Versions grow with the clock; what a power loss may bring back instead  *)
(* of what is there is older.                                              *)
Ordered ==
    /\ \A i \in Inodes : version[i] <= clock /\ (files[i] # {} => version[i] > 0)
    /\ \A f \in durable \ {NoInode} :
         final # NoInode /\ (f = final \/ version[f] < version[final])

(* Whatever the final name shows, or may show after a power loss, is sound.*)
Lasting ==
    /\ ~TornExchange => \A f \in durable \ {NoInode} : Sound(f)
    /\ final # NoInode /\ ~Sound(final) =>
         /\ TornExchange /\ \E w \in Writers : wpc[w] = "crashed"
         /\ version[final] < clock

(* The inductive invariant of the key, as one formula.                     *)
IInv ==
    /\ TypeOK /\ LockDiscipline /\ NothingLeftBehind /\ Ordered /\ Lasting
    /\ \A w \in Writers : Staging(w)
    /\ \A r \in Readers : Copying(r)

=============================================================================
