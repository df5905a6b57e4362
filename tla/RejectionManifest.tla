--------------------------- MODULE RejectionManifest ---------------------------
(***************************************************************************)
(* The rejection manifest of the quarantine directory (quarantine.py,      *)
(* write_rejection_manifest).  Every build with failures merges its rows   *)
(* into one file: it locks the directory, reads, writes a temporary file,  *)
(* looks whether manifest and directory are still the ones it began with,  *)
(* and replaces the manifest.  Calls may fail, builds die, the machine may *)
(* stop.  Somebody who takes no lock may replace the manifest by a file of *)
(* his own and move the directory away or back, at any moment but one:     *)
(* nothing in the code could close the gap between the last look at the    *)
(* manifest and the rename that follows it, and he stays out of it.        *)
(*                                                                         *)
(* A file is known by who made it, for every writer makes one: that stands *)
(* for its inode.  A writer's rows are one row, the writer itself.         *)
(***************************************************************************)
EXTENDS Integers, FiniteSets

CONSTANTS
    Writers, Dirs,
    Nobody, Outsider,   \* no file and no holder; the author of foreign files
    Junk,               \* a row that does not parse as an object
    FaultPoints,        \* the points at which a call of the system may fail
    MaxMoves, MaxLosses \* bounds: moves of the directory, power losses

ASSUME AuthorsDiffer ==
    /\ Nobody # Outsider /\ Junk \notin Writers
    /\ {Nobody, Outsider} \cap (Writers \cup Dirs) = {}

VARIABLES
    here,          \* the directory the configured path leads to
    made,          \* the directories made so far
    lock,          \* who holds the flock of a directory
    manifest,      \* the manifest of a directory
    candidates,    \* the manifests a power loss may leave there
    pc, dir,       \* where a writer is, and the directory it has open
    read,          \* the manifest a writer looked at
    temporary,     \* whether a writer's temporary file is listed
    outside,       \* TRUE once somebody has replaced a manifest
    moves, losses

disk == <<here, made, manifest, candidates, outside, moves, losses>>
vars == <<disk, lock, pc, dir, read, temporary>>

Early    == {"start", "opened", "locking"}
Merging  == {"reading", "staging", "created", "writing", "checking"}
Decided  == {"confirming", "replacing"}
Ending   == {"replaced", "syncing", "returning", "closing", "tidying", "releasing"}
Guarded  == {"locked", "looking"} \cup Merging \cup Decided \cup Ending
Ended    == {"recorded", "failed", "crashed"}
Points   == Early \cup Guarded \cup Ended

ASSUME FaultAssumption == FaultPoints \subseteq Points \ (Ended \cup {"closing", "releasing"})

Rows == Writers \cup {Junk}
Files == [author : Writers \cup {Nobody, Outsider}, rows : SUBSET Rows]
NoFile == [author |-> Nobody, rows |-> {}]

Init ==
    /\ here = Nobody /\ made = {} /\ outside = FALSE
    /\ moves = 0 /\ losses = 0
    /\ lock = [d \in Dirs |-> Nobody]
    /\ manifest = [d \in Dirs |-> NoFile]
    /\ candidates = [d \in Dirs |-> {NoFile}]
    /\ pc = [w \in Writers |-> "start"]
    /\ dir = [w \in Writers |-> Nobody]
    /\ read = [w \in Writers |-> NoFile]
    /\ temporary = [w \in Writers |-> FALSE]

-----------------------------------------------------------------------------
(* Building blocks.                                                        *)

Step(w, from, to) == pc[w] = from /\ pc' = [pc EXCEPT ![w] = to]

(* Where an exception leads: the finally block removes the temporary file  *)
(* if its identity is known, and unlocks if the lock was taken.            *)
Raised(point) ==
    CASE point \in Early -> "failed"
      [] point \in {"writing", "checking", "replaced"} \cup Decided -> "tidying"
      [] OTHER -> "releasing"

(* A step that only looks, and raises if it does not like what it sees.    *)
Check(w, from, ok, to) ==
    /\ Step(w, from, IF ok THEN to ELSE Raised(from))
    /\ UNCHANGED <<disk, lock, dir, read, temporary>>

(* A new file takes the name of the manifest.                              *)
Put(d, file) ==
    /\ manifest' = [manifest EXCEPT ![d] = file]
    /\ candidates' = [candidates EXCEPT ![d] = @ \cup {file}]

-----------------------------------------------------------------------------
(* write_rejection_manifest.                                               *)

(* _open_directory makes what is missing.                                  *)
Open(w) ==
    /\ Step(w, "start", "opened")
    /\ \/ here # Nobody /\ UNCHANGED <<here, made>>
       \/ here = Nobody /\ here' \in Dirs \ made /\ made' = made \cup {here'}
    /\ dir' = [dir EXCEPT ![w] = here']
    /\ UNCHANGED <<manifest, candidates, outside, moves, losses, lock, read, temporary>>

(* Mutant: the path is not looked at after the replacement.                *)
SeePathBefore(w) ==
    \/ \E edge \in {<<"opened", "locking">>, <<"locked", "looking">>,
                    <<"confirming", "replacing">>} :
         Check(w, edge[1], here = dir[w], edge[2])
    \/ Check(w, "returning", TRUE, "closing")

(* _revalidate_directory_identity before and after the lock, before and    *)
(* after the replacement.                                                  *)
SeePath(w) ==
    \E edge \in {<<"opened", "locking">>, <<"locked", "looking">>,
                 <<"confirming", "replacing">>, <<"returning", "closing">>} :
      Check(w, edge[1], here = dir[w], edge[2])

(* Mutant: the writer locks nothing the others lock.                       *)
LockAlone(w) ==
    /\ Step(w, "locking", "locked")
    /\ lock' = [lock EXCEPT ![dir[w]] = w]
    /\ UNCHANGED <<disk, dir, read, temporary>>

Lock(w) ==
    /\ Step(w, "locking", "locked")
    /\ lock[dir[w]] = Nobody
    /\ lock' = [lock EXCEPT ![dir[w]] = w]
    /\ UNCHANGED <<disk, dir, read, temporary>>

Look(w) ==
    /\ Step(w, "looking", IF manifest[dir[w]] = NoFile THEN "staging" ELSE "reading")
    /\ read' = [read EXCEPT ![w] = manifest[dir[w]]]
    /\ UNCHANGED <<disk, lock, dir, temporary>>

(* The manifest is the file that was looked at.                            *)
Same(w) == manifest[dir[w]].author = read[w].author

Read(w) == Check(w, "reading", Same(w) /\ Junk \notin read[w].rows, "staging")

CreateTemporary(w) ==
    /\ Step(w, "staging", "created")
    /\ temporary' = [temporary EXCEPT ![w] = TRUE]
    /\ UNCHANGED <<disk, lock, dir, read>>

Identify(w) == Check(w, "created", TRUE, "writing")

Write(w) == Check(w, "writing", TRUE, "checking")

Confirm(w) == Check(w, "checking", Same(w), "confirming")

Replace(w) ==
    /\ Step(w, "replacing", "replaced")
    /\ Put(dir[w], [author |-> w, rows |-> read[w].rows \cup {w}])
    /\ temporary' = [temporary EXCEPT ![w] = FALSE]
    /\ UNCHANGED <<here, made, outside, moves, losses, lock, dir, read>>

SeeFinal(w) == Check(w, "replaced", manifest[dir[w]].author = w, "syncing")

(* Mutant: the directory is not flushed.                                   *)
SkipSync(w) == Check(w, "syncing", TRUE, "returning")

Sync(w) ==
    /\ Step(w, "syncing", "returning")
    /\ candidates' = [candidates EXCEPT ![dir[w]] = {manifest[dir[w]]}]
    /\ UNCHANGED <<here, made, manifest, outside, moves, losses, lock, dir, read, temporary>>

(* _unlink_if_identity                                                     *)
Tidy(w) ==
    /\ Step(w, "tidying", "releasing")
    /\ temporary' = [temporary EXCEPT ![w] = FALSE]
    /\ UNCHANGED <<disk, lock, dir, read>>

(* Mutant: an error returns without unlocking.                             *)
UnlockOnSuccess(w) ==
    /\ \/ Step(w, "closing", "recorded") /\ lock' = [lock EXCEPT ![dir[w]] = Nobody]
       \/ Step(w, "releasing", "releasing") /\ UNCHANGED lock
    /\ UNCHANGED <<disk, dir, read, temporary>>

Unlock(w) ==
    /\ Step(w, "closing", "recorded") \/ Step(w, "releasing", "failed")
    /\ lock' = [lock EXCEPT ![dir[w]] = Nobody]
    /\ UNCHANGED <<disk, dir, read, temporary>>

(* A call fails.  While tidying, a failing unlink is suppressed, but a     *)
(* failing stat leaves the finally block with the directory still locked.  *)
Fail(w) ==
    /\ pc[w] \in FaultPoints
    /\ \E to \in {Raised(pc[w])} \cup (IF pc[w] = "tidying" THEN {"failed"} ELSE {}) :
         pc' = [pc EXCEPT ![w] = to]
    /\ UNCHANGED <<disk, lock, dir, read, temporary>>

(* The process of an ended build ends, and with it what it still locks.    *)
Exit(w) ==
    /\ pc[w] = "failed" /\ \E d \in Dirs : lock[d] = w
    /\ lock' = [d \in Dirs |-> IF lock[d] = w THEN Nobody ELSE lock[d]]
    /\ UNCHANGED <<disk, pc, dir, read, temporary>>

Progress(w) ==
    \/ Open(w) \/ SeePath(w) \/ Lock(w) \/ Look(w) \/ Read(w)
    \/ CreateTemporary(w) \/ Identify(w) \/ Write(w) \/ Confirm(w)
    \/ Replace(w) \/ SeeFinal(w) \/ Sync(w) \/ Tidy(w) \/ Unlock(w)
    \/ Fail(w) \/ Exit(w)

-----------------------------------------------------------------------------
(* What happens around the builds.                                         *)

Meddle(d) ==
    /\ ~outside /\ outside' = TRUE
    /\ d \in made
    /\ \A w \in Writers : dir[w] = d => pc[w] \notin Decided
    /\ \E rows \in {{}, manifest[d].rows \cup {Junk}} :
         Put(d, [author |-> Outsider, rows |-> rows])
    /\ UNCHANGED <<here, made, moves, losses, lock, pc, dir, read, temporary>>

(* Bounded by MaxMoves, and by the directories there are left to make.     *)
MoveAway ==
    /\ moves < MaxMoves /\ moves' = moves + 1
    /\ here # Nobody /\ made # Dirs /\ here' = Nobody
    /\ UNCHANGED <<made, manifest, candidates, outside, losses, lock, pc, dir, read, temporary>>

MoveBack ==
    /\ here = Nobody /\ here' \in made
    /\ UNCHANGED <<made, manifest, candidates, outside, moves, losses,
                   lock, pc, dir, read, temporary>>

Crash(w) ==
    /\ pc[w] \notin Ended
    /\ pc' = [pc EXCEPT ![w] = "crashed"]
    /\ lock' = [d \in Dirs |-> IF lock[d] = w THEN Nobody ELSE lock[d]]
    /\ UNCHANGED <<disk, dir, read, temporary>>

PowerLoss ==
    /\ losses < MaxLosses /\ losses' = losses + 1
    /\ manifest' \in [Dirs -> UNION {candidates[d] : d \in Dirs}]
    /\ \A d \in Dirs : manifest'[d] \in candidates[d]
    /\ candidates' = [d \in Dirs |-> {manifest'[d]}]
    /\ pc' = [w \in Writers |-> IF pc[w] \in Ended THEN pc[w] ELSE "crashed"]
    /\ lock' = [d \in Dirs |-> Nobody]
    /\ UNCHANGED <<here, made, outside, moves, dir, read, temporary>>

Terminated ==
    /\ \A w \in Writers : pc[w] \in Ended
    /\ \A d \in Dirs : lock[d] = Nobody
    /\ UNCHANGED vars

Next ==
    \/ \E w \in Writers : Progress(w) \/ Crash(w)
    \/ \E d \in Dirs : Meddle(d)
    \/ MoveAway \/ MoveBack \/ PowerLoss \/ Terminated

Spec == Init /\ [][Next]_vars

FairSpec == Spec /\ \A w \in Writers : WF_vars(Progress(w))

-----------------------------------------------------------------------------
(* Properties.                                                             *)

(* Types: files have authors and rows, a name leads to at most one file.   *)
TypeOK ==
    /\ here \in Dirs \cup {Nobody} /\ made \subseteq Dirs
    /\ lock \in [Dirs -> Writers \cup {Nobody}]
    /\ manifest \in [Dirs -> Files]
    /\ candidates \in [Dirs -> SUBSET Files]
    /\ pc \in [Writers -> Points]
    /\ dir \in [Writers -> Dirs \cup {Nobody}]
    /\ read \in [Writers -> Files]
    /\ temporary \in [Writers -> BOOLEAN]
    /\ outside \in BOOLEAN /\ moves \in Nat /\ losses \in Nat

(* A build that was told its rows are recorded keeps them, whatever other  *)
(* builds merge, however they fail, and whatever a power loss takes back.  *)
(* An outsider who replaces the manifest may remove them.                  *)
RecordedStays ==
    \A w \in Writers : pc[w] = "recorded" /\ ~outside =>
      \A file \in candidates[dir[w]] \cup {manifest[dir[w]]} : w \in file.rows

(* At the last look of a call that succeeds the configured path leads to   *)
(* a manifest with the build's rows, even if the directory was moved away, *)
(* made anew or moved back while the call ran.                             *)
RecordedWhereLooked ==
    [][\A w \in Writers : pc[w] # "closing" /\ pc'[w] = "closing" /\ ~outside =>
         here # Nobody /\ w \in manifest[here].rows]_vars

(* Every call returns or raises: no error path keeps the directory locked  *)
(* for ever.                                                               *)
EveryWriterEnds == \A w \in Writers : <>(pc[w] \in Ended)

Inventory == INSTANCE RejectionInventory WITH
    stored <- [d \in Dirs |-> manifest[d].rows],
    told <- [d \in Dirs |-> IF outside THEN {}
                            ELSE {w \in Writers : pc[w] = "recorded" /\ dir[w] = d}],
    meddled <- outside

(* The manifest is a set of rows that only grows: no build's replacement   *)
(* loses a row another build, or an outsider, has put there.               *)
ImplementsInventory == Inventory!Spec

-----------------------------------------------------------------------------
(* The inductive invariant behind the proofs.                              *)

(* What holds of a writer at a point: it has the directory open and holds  *)
(* its lock; until it has decided, what it read is still there or an       *)
(* outsider has come since; afterwards the manifest, and after the flush   *)
(* every candidate, has its rows.                                          *)
Standing(w, point) ==
    /\ point \in {"opened", "locking", "recorded"} \cup Guarded => dir[w] \in Dirs
    /\ point \in Guarded => lock[dir[w]] = w
    /\ point \in Merging =>
         \/ manifest[dir[w]] = read[w]
         \/ outside /\ manifest[dir[w]].author = Outsider /\ read[w].author # Outsider
    /\ point \in Decided => manifest[dir[w]] = read[w]
    /\ point \in {"replaced", "syncing"} /\ ~outside => w \in manifest[dir[w]].rows
    /\ point \in {"returning", "closing", "recorded"} /\ ~outside =>
         \A file \in candidates[dir[w]] : w \in file.rows

(* What is there is a candidate, and foreign files are an outsider's.      *)
FilesAreKnown ==
    \A d \in Dirs :
      /\ manifest[d] \in candidates[d]
      /\ \A file \in candidates[d] : file.author = Outsider => outside

IInv == TypeOK /\ FilesAreKnown /\ \A w \in Writers : Standing(w, pc[w])

=============================================================================
