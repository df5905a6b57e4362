-------------------------- MODULE QuarantineDirectory --------------------------
(***************************************************************************)
(* The two halves of the quarantine directory, reports and manifest.  They *)
(* share no file; a behaviour is about one of them.                        *)
(***************************************************************************)
EXTENDS RejectionManifest

CONSTANT Tokens

VARIABLES subject, at, token, content, flushed, temp, final, foreign, kept

reportVars == <<at, token, content, flushed, temp, final, foreign, kept>>

Reports == INSTANCE QuarantineReports WITH Reporters <- Writers, pc <- at

DirectoryInit ==
    /\ Init /\ Reports!Init
    /\ \/ subject = "reports"
       \/ /\ subject = "manifest" /\ foreign = {}
          /\ token = [w \in Writers |-> CHOOSE t \in Tokens : TRUE]

OnManifest(action) == subject = "manifest" /\ action /\ UNCHANGED <<subject, reportVars>>

DirectoryNext ==
    \/ OnManifest(Next)
    \/ subject = "reports" /\ Reports!Next /\ UNCHANGED <<subject, vars>>

DirectorySpec ==
    /\ DirectoryInit /\ [][DirectoryNext]_<<subject, vars, reportVars>>
    /\ \A w \in Writers : WF_<<subject, vars, reportVars>>(OnManifest(Progress(w)))

(* No call on the manifest hangs: no error path keeps the directory locked *)
(* for ever (RejectionManifest, EveryWriterEnds).                          *)
EveryManifestCallEnds == subject = "manifest" => EveryWriterEnds

(* A final name never shows a part of a report, and a report whose path    *)
(* was returned stays there (QuarantineReports), whatever fails or stops.  *)
ReportsStayWhole == Reports!FinalIsWhole /\ Reports!PersistedStays

(* No report or foreign file is replaced (QuarantineReports).              *)
NothingIsReplaced == Reports!NothingIsReplaced

================================================================================
