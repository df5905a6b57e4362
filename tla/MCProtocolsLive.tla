--------------------------- MODULE MCProtocolsLive ---------------------------
(***************************************************************************)
(* Publication and the extraction result cache, whose calls wait for a     *)
(* flock.  They share no state; a behaviour is about one of them, and the  *)
(* other stays where it begins.                                            *)
(***************************************************************************)
EXTENDS Publication

CONSTANTS Writers, Readers, NoOne, Inodes, NoInode, ImageCount, StoreFaults

VARIABLES
    subject,
    (* the extraction result cache *)
    bound, lasting, files, version, settled, debris, lock, clock,
    wpc, temp, old, new, rpc, pin, seen, copied

cacheVars == <<bound, lasting, files, version, settled, debris, lock, clock,
               wpc, temp, old, new, rpc, pin, seen, copied>>
allVars == <<subject, vars, cacheVars>>

Cache == INSTANCE ExtractionCache
    WITH final <- bound, durable <- lasting, flushed <- settled, FaultPoints <- StoreFaults

(* One failing point in each phase of a build.                             *)
PhaseFaults == {"exporting", "manifested", "ready", "confirmed", "emptying"}
(* Failures around making a temporary and refreshing a generation, and a   *)
(* failing copy.                                                           *)
RefreshFaults == {"making", "opened", "exchanged", "retiring", "copying"}

MCInit ==
    /\ Init /\ Cache!Init
    /\ subject \in {"publication", "cache"}

OnPublication(action) ==
    subject = "publication" /\ action /\ UNCHANGED <<subject, cacheVars>>
OnCache(action) ==
    subject = "cache" /\ action /\ UNCHANGED <<subject, vars>>

MCNext ==
    \/ subject = "publication" /\ Next /\ UNCHANGED <<subject, cacheVars>>
    \/ subject = "cache" /\ Cache!Next /\ UNCHANGED <<subject, vars>>

(* The fairness of the two modules: every call is a thread that runs on.   *)
MCFairness ==
    /\ \A b \in Builders : /\ WF_allVars(OnPublication(Progress(b)))
                           /\ WF_allVars(OnPublication(WriterLeave(b)))
    /\ \A w \in Writers : WF_allVars(OnCache(Cache!WriterProgress(w)))
    /\ \A r \in Readers : WF_allVars(OnCache(Cache!ReaderProgress(r)))

MCSpec == MCInit /\ [][MCNext]_allVars /\ MCFairness

(* No build hangs on any error path (Publication, EveryBuildEnds).         *)
BuildsEnd == subject = "publication" => EveryBuildEnds

(* Every store and materialization ends (ExtractionCache, EveryCallEnds).  *)
CacheCallsEnd == subject = "cache" => Cache!EveryCallEnds

==============================================================================
