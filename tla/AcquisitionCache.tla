---------------------------- MODULE AcquisitionCache ----------------------------
(***************************************************************************)
(* One file of the download cache (huggingface_acquisition.py and the      *)
(* acquirers of decoded and Indus sources that build on it), and the calls *)
(* that want it, in several threads and processes.  kind says which code   *)
(* they run:                                                               *)
(*   "recording"  HuggingFaceAcquirer.acquire, whose manifest must match   *)
(*   "file"       VerifiedHfFileCache.acquire                              *)
(*   "artifact"   IndusAdHfAcquirer._acquire_one, with a receipt           *)
(*   "member"     materialize_selected_dense_assets: no lock, a temporary  *)
(*                file of one's own that is flushed before it is renamed   *)
(*   "listing"    HuggingFaceAcquirer.load_entries, always downloaded anew *)
(*   "snapshot"   DecodedHfAcquirer._acquire_control_files, a directory of *)
(*                its own for every call, parsed after the lock is gone    *)
(* A file is absent, as advertised ("good") or anything else ("bad").      *)
(***************************************************************************)
EXTENDS Naturals

CONSTANTS
    Callers,      \* calls that want the file
    MaxLosses     \* bound: how many times the machine may stop

ASSUME LossesAssumption == MaxLosses \in Nat

VARIABLES
    kind,         \* which of the six operations the callers run
    pc,           \* where each call is
    holders,      \* who holds the flock on .acquisition.lock
    final,        \* the file under its final name
    after,        \* what a power loss may leave under that name
    receipt,      \* TRUE when the manifest (or receipt) is there
    scratch,      \* the file in each download directory
    by,           \* which call downloaded it
    read,         \* whose download a call parsed
    losses        \* power losses so far

vars == <<kind, pc, holders, final, after, receipt, scratch, by, read, losses>>

Verified == {"recording", "file", "artifact", "member"}
Kinds    == Verified \cup {"listing", "snapshot"}
InLock   == {"locked", "downloading", "fetched", "verified", "promoted", "recording"}
Over     == {"returned", "failed", "crashed"}
Points   == {"idle", "parsing"} \cup InLock \cup Over

Shared == "shared"
(* The directory of the download, or the temporary file of an extraction.  *)
Place(c) == IF kind \in {"snapshot", "member"} THEN c ELSE Shared

Init ==
    /\ kind \in Kinds
    /\ pc = [c \in Callers |-> "idle"]
    /\ holders = {}
    /\ final = "none" /\ after = {"none"}
    /\ receipt = FALSE
    /\ scratch = [p \in Callers \cup {Shared} |-> "none"]
    /\ by = scratch
    /\ read = [c \in Callers |-> "none"]
    /\ losses = 0

-----------------------------------------------------------------------------
Goto(c, from, to) == pc[c] \in from /\ pc' = [pc EXCEPT ![c] = to]
Return(c, from) == Goto(c, from, "returned") /\ holders' = holders \ {c}
Store == <<final, after, receipt>>
Downloads == <<scratch, by>>
Fixed == <<kind, losses>>

(* Mutant: the lock is taken without waiting for it.                       *)
LockAnyway(c) ==
    /\ Goto(c, {"idle"}, "locked")
    /\ kind # "member"
    /\ holders' = holders \cup {c}
    /\ UNCHANGED <<Store, Downloads, read, Fixed>>

(* _recording_lock: a flock of a descriptor of one's own.                  *)
Lock(c) ==
    /\ Goto(c, {"idle"}, "locked")
    /\ kind # "member" /\ holders = {}
    /\ holders' = {c}
    /\ UNCHANGED <<Store, Downloads, read, Fixed>>

EnterUnlocked(c) ==
    /\ kind = "member"
    /\ Goto(c, {"idle"}, "locked")
    /\ UNCHANGED <<holders, Store, Downloads, read, Fixed>>

(* Mutant: the file that is there is not read again.                       *)
ReusableUnread ==
    /\ kind \in Verified /\ final # "none"
    /\ kind = "recording" => receipt

(* What makes the call use the file that is there: its digest is computed  *)
(* again every time.                                                       *)
Reusable ==
    /\ kind \in Verified /\ final = "good"
    /\ kind = "recording" => receipt

(* A hit rewrites the manifest of a recording, and a receipt that is       *)
(* missing.                                                                *)
UseExisting(c) ==
    /\ Reusable
    /\ IF kind = "recording" \/ (kind = "artifact" /\ ~receipt)
         THEN Goto(c, {"locked"}, "recording") /\ UNCHANGED holders
         ELSE Return(c, {"locked"})
    /\ UNCHANGED <<Store, Downloads, read, Fixed>>

(* A file that does not verify is downloaded again for a recording; the    *)
(* other operations raise (see Fail) and leave it there.                   *)
Missing == ~Reusable /\ (kind \in Verified \ {"recording"} => final = "none")

BeginDownload(c) ==
    /\ Missing
    /\ Goto(c, {"locked"}, "downloading")
    /\ UNCHANGED <<holders, Store, Downloads, read, Fixed>>

(* hf_hub_download with force_download, or the extraction of a member from *)
(* its archive; it may leave anything behind.                              *)
Download(c) ==
    /\ Goto(c, {"downloading"}, "fetched")
    /\ \E content \in {"good", "bad"} : scratch' = [scratch EXCEPT ![Place(c)] = content]
    /\ by' = [by EXCEPT ![Place(c)] = c]
    /\ UNCHANGED <<holders, Store, read, Fixed>>

Verify(c) ==
    /\ kind \in Verified
    /\ scratch[Place(c)] = "good"
    /\ Goto(c, {"fetched"}, "verified")
    /\ UNCHANGED <<holders, Store, Downloads, read, Fixed>>

(* os.replace, with neither the directory nor (but for a member) the bytes *)
(* flushed.  A member is not read again.                                   *)
Promote(c) ==
    /\ Goto(c, {"verified"}, IF kind = "member" THEN "returned" ELSE "promoted")
    /\ scratch[Place(c)] # "none"
    /\ final' = scratch[Place(c)]
    /\ after' = after \cup {final'} \cup (IF kind = "member" THEN {} ELSE {"bad"})
    /\ scratch' = [scratch EXCEPT ![Place(c)] = "none"]
    /\ UNCHANGED <<holders, receipt, by, read, Fixed>>

(* The promoted file is read again.                                        *)
Recheck(c) ==
    /\ final = "good"
    /\ IF kind = "file" THEN Return(c, {"promoted"})
                        ELSE Goto(c, {"promoted"}, "recording") /\ UNCHANGED holders
    /\ UNCHANGED <<Store, Downloads, read, Fixed>>

(* _atomic_write: a flushed file replaces the manifest, and the fsync of   *)
(* the directory makes the name of the artifact last as well.              *)
Record(c) ==
    /\ Return(c, {"recording"})
    /\ receipt' = TRUE
    /\ after' = (after \ {"none"}) \cup {final}
    /\ UNCHANGED <<final, Downloads, read, Fixed>>

(* A listing is parsed before the lock is released, a snapshot after.      *)
ParseListing(c) ==
    /\ kind = "listing"
    /\ Return(c, {"fetched"})
    /\ read' = [read EXCEPT ![c] = by[Place(c)]]
    /\ UNCHANGED <<Store, Downloads, Fixed>>

LeaveSnapshot(c) ==
    /\ kind = "snapshot"
    /\ Goto(c, {"fetched"}, "parsing")
    /\ holders' = holders \ {c}
    /\ UNCHANGED <<Store, Downloads, read, Fixed>>

ParseSnapshot(c) ==
    /\ kind = "snapshot"
    /\ Return(c, {"parsing"})
    /\ read' = [read EXCEPT ![c] = by[Place(c)]]
    /\ UNCHANGED <<Store, Downloads, Fixed>>

(* Mutant: an exception leaves the lock held.                              *)
FailHolding(c) ==
    /\ Goto(c, InLock \cup {"parsing"}, "failed")
    /\ UNCHANGED <<holders, Store, Downloads, read, Fixed>>

(* Any call may fail, a check may refuse: the exception releases the lock. *)
Fail(c) ==
    /\ Goto(c, InLock \cup {"parsing"}, "failed")
    /\ holders' = holders \ {c}
    /\ UNCHANGED <<Store, Downloads, read, Fixed>>

-----------------------------------------------------------------------------
(* The environment.                                                        *)

(* The death of a process drops its locks.                                 *)
Crash(c) ==
    /\ Goto(c, InLock \cup {"parsing"}, "crashed")
    /\ holders' = holders \ {c}
    /\ UNCHANGED <<Store, Downloads, read, Fixed>>

(* The kernel writes back what was not flushed.                            *)
WriteBack ==
    /\ after # {final}
    /\ after' = {final}
    /\ UNCHANGED <<kind, pc, holders, final, receipt, Downloads, read, losses>>

(* The machine stops; calls that have not begun begin after the restart.   *)
PowerLoss ==
    /\ losses < MaxLosses
    /\ losses' = losses + 1
    /\ pc' = [c \in Callers |-> IF pc[c] = "idle" THEN "idle" ELSE "crashed"]
    /\ holders' = {}
    /\ final' \in after /\ after' = {final'}
    /\ receipt' \in {receipt, receipt \/ \E c \in Callers : pc[c] = "recording"}
    /\ \E p \in Callers \cup {Shared} :
         scratch' \in {scratch, [scratch EXCEPT ![p] = IF @ = "good" THEN "bad" ELSE @]}
    /\ UNCHANGED <<kind, by, read>>

Progress(c) ==
    \/ Lock(c) \/ EnterUnlocked(c) \/ UseExisting(c) \/ BeginDownload(c) \/ Download(c)
    \/ Verify(c) \/ Promote(c) \/ Recheck(c) \/ Record(c)
    \/ ParseListing(c) \/ LeaveSnapshot(c) \/ ParseSnapshot(c) \/ Fail(c)

Terminated == (\A c \in Callers : pc[c] \in Over) /\ UNCHANGED vars

Next ==
    \/ \E c \in Callers : Progress(c) \/ Crash(c)
    \/ WriteBack
    \/ PowerLoss
    \/ Terminated

(* Every call runs in a thread that keeps running; nothing is assumed of   *)
(* crashes, power losses and the kernel.                                   *)
Spec == Init /\ [][Next]_vars
FairSpec == Spec /\ \A c \in Callers : WF_vars(Progress(c))

-----------------------------------------------------------------------------
(* Every variable holds a value of the kind the code gives it.             *)
TypeOK ==
    /\ kind \in Kinds
    /\ pc \in [Callers -> Points]
    /\ holders \subseteq Callers
    /\ final \in {"none", "good", "bad"}
    /\ after \subseteq {"none", "good", "bad"}
    /\ receipt \in BOOLEAN
    /\ scratch \in [Callers \cup {Shared} -> {"none", "good", "bad"}]
    /\ by \in [Callers \cup {Shared} -> Callers \cup {"none"}]
    /\ read \in [Callers -> Callers \cup {"none"}]
    /\ losses \in 0 .. MaxLosses

(* As long as a call that returned a path lives, the file there is the one *)
(* the repository advertises, although other calls may replace it, die, or *)
(* have left a torn one before a power loss; and a parsed listing is the   *)
(* one the same call downloaded.                                           *)
ReturnedIsExpected ==
    \A c \in Callers : pc[c] = "returned" =>
        IF kind \in Verified THEN final = "good" ELSE read[c] = c

(* The same payload is not downloaded twice: a download of a verified file *)
(* is done only while no good file (with its manifest) is there, and while *)
(* no other call is between its look and its end.                          *)
NoNeedlessDownload ==
    [][\A c \in Callers :
         (pc[c] = "downloading" /\ pc'[c] = "fetched" /\ kind \in Verified \ {"member"})
           => ~Reusable /\ \A d \in Callers \ {c} : pc[d] \notin InLock]_vars

(* Every call that is not killed ends, whoever fails or dies in the lock.  *)
EveryAcquisitionEnds == \A c \in Callers : <>(pc[c] \in Over)

-----------------------------------------------------------------------------
(* What makes the safety properties inductive.                             *)

(* The flock belongs to the one call that is inside; an extraction of a    *)
(* member takes none.  Only a snapshot is parsed outside.                  *)
LockDiscipline ==
    /\ kind = "member" => holders = {}
    /\ kind # "member" => holders = {c \in Callers : pc[c] \in InLock}
    /\ \A c, d \in holders : c = d

(* What a call knows of its download and of the file, at each point.       *)
Knowing(c) ==
    /\ pc[c] = "downloading" /\ kind # "member" => ~Reusable
    /\ pc[c] \in {"fetched", "parsing"} => by[Place(c)] = c
    /\ pc[c] = "parsing" => kind = "snapshot"
    /\ pc[c] \in {"verified", "promoted", "recording"} => kind \in Verified
    /\ pc[c] \in {"promoted", "recording"} => kind # "member"
    /\ pc[c] = "verified" => scratch[Place(c)] = "good"
    /\ pc[c] = "recording" => final = "good"

(* The inductive invariant of the file, as one formula.                    *)
IInv ==
    /\ TypeOK /\ LockDiscipline /\ ReturnedIsExpected
    /\ \A c \in Callers : Knowing(c)

=============================================================================
