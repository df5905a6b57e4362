--------------------------- MODULE QuarantineReports ---------------------------
(***************************************************************************)
(* Quarantine reports (quarantine.py, write_quarantine_report).  Threads   *)
(* and builds write reports into one directory.  Each writes and flushes a *)
(* private file under a temporary name, gives it its final name with a     *)
(* hard link that replaces nothing, unlinks the temporary name and flushes *)
(* the directory.  The names end in a random token; tokens are a small set *)
(* so that they collide, and strangers' files may have some of the names.  *)
(* Every call may fail, writers die, the machine may stop.                 *)
(***************************************************************************)
EXTENDS Integers

CONSTANTS Reporters, Tokens

VARIABLES
    pc, token,     \* where a reporter is, and the token it tries
    content,       \* the content of its file: "none", "torn" or "whole"
    flushed,       \* whether that content survives a power loss
    temp, final,   \* whose file a temporary and a final name lead to: {} or {w}
    foreign,       \* the final names that somebody else's files have
    kept           \* what a final name may lead to after a power loss

vars == <<pc, token, content, flushed, temp, final, foreign, kept>>

Private  == {"writing", "flushing", "rereading", "checking", "linking"}
Exposed  == {"linked", "syncing", "rechecking"}
Collided == {"clearing", "settling"}
Undoing  == {"withdrawing", "removing"}
Ended    == {"persisted", "failed", "crashed"}
Points   == {"start", "opened"} \cup Private \cup Exposed \cup Collided \cup Undoing \cup Ended

Flushed  == {"rereading", "checking", "linking", "withdrawing", "persisted"} \cup Exposed

Leads == {{}} \cup {{w} : w \in Reporters}

Init ==
    /\ pc = [w \in Reporters |-> "start"]
    /\ \E t \in Tokens : token = [w \in Reporters |-> t]
    /\ content = [w \in Reporters |-> "none"]
    /\ flushed = [w \in Reporters |-> FALSE]
    /\ temp = [t \in Tokens |-> {}] /\ final = [t \in Tokens |-> {}]
    /\ foreign \in SUBSET Tokens
    /\ kept = [t \in Tokens |-> {{}}]

-----------------------------------------------------------------------------
(* write_quarantine_report.                                                *)

Step(w, from, to) == pc[w] = from /\ pc' = [pc EXCEPT ![w] = to]

Look(w, from, to) ==
    /\ Step(w, from, to)
    /\ UNCHANGED <<token, content, flushed, temp, final, kept, foreign>>

(* A final name is made or taken away.                                     *)
Bind(t, file) ==
    /\ final' = [final EXCEPT ![t] = file]
    /\ kept' = [kept EXCEPT ![t] = @ \cup {file}]

(* O_CREAT | O_EXCL under a fresh token; an existing name is tried again.  *)
CreateTemporary(w) ==
    \E t \in Tokens :
      \/ /\ temp[t] = {} /\ Step(w, "start", "opened")
         /\ token' = [token EXCEPT ![w] = t]
         /\ temp' = [temp EXCEPT ![t] = {w}]
         /\ content' = [content EXCEPT ![w] = "none"]
         /\ flushed' = [flushed EXCEPT ![w] = FALSE]
         /\ UNCHANGED <<final, kept, foreign>>
      \/ /\ temp[t] # {} /\ pc[w] = "start"
         /\ UNCHANGED vars

Identify(w) == Look(w, "opened", "writing")

Write(w) ==
    /\ Step(w, "writing", "flushing")
    /\ content' = [content EXCEPT ![w] = "whole"]
    /\ UNCHANGED <<token, flushed, temp, final, kept, foreign>>

(* Mutant: the file is not flushed before it gets its name.                *)
SkipFlush(w) == Look(w, "flushing", "rereading")

Flush(w) ==
    /\ Step(w, "flushing", "rereading")
    /\ flushed' = [flushed EXCEPT ![w] = TRUE]
    /\ UNCHANGED <<token, content, temp, final, kept, foreign>>

Reread(w) ==
    Look(w, "rereading", IF content[w] = "whole" THEN "checking" ELSE "removing")

CheckTemporary(w) ==
    Look(w, "checking", IF temp[token[w]] = {w} THEN "linking" ELSE "removing")

Free(t) == final[t] = {} /\ t \notin foreign

(* Mutant: the final name is taken whoever has it.                         *)
LinkReplacing(w) ==
    /\ Step(w, "linking", "linked") /\ Bind(token[w], {w})
    /\ UNCHANGED <<token, content, flushed, temp, foreign>>

Link(w) ==
    \/ /\ Free(token[w])
       /\ Step(w, "linking", "linked") /\ Bind(token[w], {w})
       /\ UNCHANGED <<token, content, flushed, temp, foreign>>
    \/ ~Free(token[w]) /\ Look(w, "linking", "clearing")

UnlinkTemporary(w) ==
    /\ Step(w, "linked", "syncing") \/ Step(w, "clearing", "settling")
    /\ temp' = [temp EXCEPT ![token[w]] = {}]
    /\ UNCHANGED <<token, content, flushed, final, kept, foreign>>

(* Mutant: the directory is flushed after a collision only.                *)
SyncRetries(w) == Look(w, "syncing", "rechecking") \/ Look(w, "settling", "start")

(* The flush of the directory; after a collision the next token is tried.  *)
Sync(w) ==
    /\ Step(w, "syncing", "rechecking") \/ Step(w, "settling", "start")
    /\ kept' = [t \in Tokens |-> {final[t]}]
    /\ UNCHANGED <<token, content, flushed, temp, final, foreign>>

Recheck(w) ==
    Look(w, "rechecking", IF final[token[w]] = {w} THEN "persisted" ELSE "withdrawing")

(* The except branch: _unlink_if_identity of the final, then of the        *)
(* temporary name.                                                         *)
Withdraw(w) ==
    /\ Step(w, "withdrawing", "removing")
    /\ IF final[token[w]] = {w} THEN Bind(token[w], {}) ELSE UNCHANGED <<final, kept>>
    /\ UNCHANGED <<token, content, flushed, temp, foreign>>

RemoveTemporary(w) ==
    /\ Step(w, "removing", "failed")
    /\ temp' = IF temp[token[w]] = {w} THEN [temp EXCEPT ![token[w]] = {}] ELSE temp
    /\ UNCHANGED <<token, content, flushed, final, kept, foreign>>

(* Where a failing call leads.  Without an identity, and after a           *)
(* collision, nothing is undone; in the except branch a failing unlink is  *)
(* suppressed and a failing stat ends the branch.                          *)
FailsTo(point) ==
    CASE point \in {"start", "opened"} \cup Collided -> {"failed"}
      [] point \in Private     -> {"removing"}
      [] point \in Exposed     -> {"withdrawing"}
      [] point = "withdrawing" -> {"removing", "failed"}
      [] point = "removing"    -> {"failed"}

Fail(w) ==
    /\ pc[w] \notin Ended
    /\ \E to \in FailsTo(pc[w]) : pc' = [pc EXCEPT ![w] = to]
    /\ content' = IF pc[w] = "writing" THEN [content EXCEPT ![w] = "torn"] ELSE content
    /\ UNCHANGED <<token, flushed, temp, final, kept, foreign>>

Progress(w) ==
    \/ CreateTemporary(w) \/ Identify(w) \/ Write(w) \/ Flush(w) \/ Reread(w)
    \/ CheckTemporary(w) \/ Link(w) \/ UnlinkTemporary(w) \/ Sync(w) \/ Recheck(w)
    \/ Withdraw(w) \/ RemoveTemporary(w) \/ Fail(w)

-----------------------------------------------------------------------------
(* What happens around the reporters.                                      *)

(* A writer that dies while it writes leaves some of the bytes.            *)
Crash(w) ==
    /\ pc[w] \notin Ended
    /\ pc' = [pc EXCEPT ![w] = "crashed"]
    /\ content' = IF pc[w] = "writing" THEN [content EXCEPT ![w] = "torn"] ELSE content
    /\ UNCHANGED <<token, flushed, temp, final, kept, foreign>>

(* Names since the last flush of the directory may or may not be there,    *)
(* content that was not flushed is torn.                                   *)
PowerLoss ==
    /\ final' \in [Tokens -> Leads]
    /\ \A t \in Tokens : final'[t] \in kept[t]
    /\ kept' = [t \in Tokens |-> {final'[t]}]
    /\ content' = [w \in Reporters |-> IF flushed[w] THEN content[w] ELSE "torn"]
    /\ pc' = [w \in Reporters |-> IF pc[w] \in Ended THEN pc[w] ELSE "crashed"]
    /\ UNCHANGED <<token, flushed, temp, foreign>>

Terminated == (\A w \in Reporters : pc[w] \in Ended) /\ UNCHANGED vars

Next == (\E w \in Reporters : Progress(w) \/ Crash(w)) \/ PowerLoss \/ Terminated

Spec == Init /\ [][Next]_vars

-----------------------------------------------------------------------------
(* Properties.                                                             *)

(* Types: a name leads to at most one file, a reporter has one token.      *)
TypeOK ==
    /\ pc \in [Reporters -> Points] /\ token \in [Reporters -> Tokens]
    /\ content \in [Reporters -> {"none", "torn", "whole"}]
    /\ flushed \in [Reporters -> BOOLEAN]
    /\ temp \in [Tokens -> Leads] /\ foreign \subseteq Tokens
    /\ final \in [Tokens -> Leads] /\ kept \in [Tokens -> SUBSET Leads]

(* A final name never shows a part of a report, not even after a power     *)
(* loss.                                                                   *)
FinalIsWhole ==
    \A t \in Tokens, w \in Reporters : final[t] = {w} => content[w] = "whole"

(* A reporter that returned a path has its report there, for good, and     *)
(* reporters with equal recordings and colliding tokens have different     *)
(* paths.                                                                  *)
PersistedStays ==
    \A w \in Reporters : pc[w] = "persisted" =>
      final[token[w]] = {w} /\ kept[token[w]] = {{w}}

(* Nobody but its owner, undoing a failed call, takes a final name away,   *)
(* and no step gives it to another file, a foreign one included; when the  *)
(* machine stops, a name that was not flushed may go back to what it was.  *)
NothingIsReplaced ==
    [][\A t \in Tokens : final'[t] # final[t] =>
         /\ t \notin foreign
         /\ \/ final[t] = {}
            \/ final'[t] \in kept[t] /\ \A w \in Reporters : pc'[w] \in Ended
            \/ \E w \in Reporters : final[t] = {w} /\ final'[t] = {} /\ pc[w] = "withdrawing"
      ]_vars

-----------------------------------------------------------------------------
(* The inductive invariant behind the proofs.                              *)

(* What a reporter has written and flushed at a point, and the name it     *)
(* has; whatever name may ever lead to its file is its own, and the file   *)
(* is whole and flushed.                                                   *)
Standing(w) ==
    /\ pc[w] \in {"flushing"} \cup Flushed => content[w] = "whole"
    /\ pc[w] \in Flushed => flushed[w]
    /\ pc[w] \in Exposed \cup {"withdrawing", "persisted"} => final[token[w]] = {w}
    /\ pc[w] \in {"rechecking", "persisted"} => kept[token[w]] = {{w}}
    /\ \A t \in Tokens : {w} \in kept[t] =>
         /\ t = token[w] /\ t \notin foreign
         /\ flushed[w] /\ content[w] = "whole"
         /\ pc[w] \in Exposed \cup Undoing \cup Ended

IInv ==
    /\ TypeOK
    /\ \A t \in Tokens : final[t] \in kept[t]
    /\ \A w \in Reporters : Standing(w)

=============================================================================
