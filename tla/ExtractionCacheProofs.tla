------------------------- MODULE ExtractionCacheProofs -------------------------
(* Proofs about ExtractionCache, for every number of writers, readers and    *)
(* inodes, and whatever fails.                                               *)
EXTENDS ExtractionCache, TLAPS

USE NoOneAssumption, NoInodeAssumption, ImageAssumption, FaultAssumption
   DEF store, writing, reading, Files, Images, MaybeInode, Prepare, Refresh, Replaced,
       Retiring, WriterDone, WriterPoints, InLock, Reading, ReaderDone, ReaderPoints,
       WGoto, RGoto, Unpublished, Staged

(* Where the actions with more than one outcome take a call.                 *)
LEMMA PublishFirstMoves ==
    ASSUME NEW w \in Writers, PublishFirst(w)
    PROVE  \E p \in {"revalidating", "failed"} :
             /\ wpc[w] = "publishing" /\ wpc' = [wpc EXCEPT ![w] = p]
             /\ lock' = IF p = "failed" THEN NoOne ELSE lock
  BY DEF PublishFirst

LEMMA ExchangeMoves ==
    ASSUME NEW w \in Writers, Exchange(w)
    PROVE  \E p \in {"exchanged", "interrupted"} :
             /\ wpc[w] = "opened" /\ wpc' = [wpc EXCEPT ![w] = p]
             /\ p = "interrupted" => "opened" \in FaultPoints
  BY DEF Exchange

LEMMA RemoveTemporaryMoves ==
    ASSUME NEW w \in Writers, RemoveTemporary(w)
    PROVE  \E p \in {"revalidating", "failed"} :
             /\ wpc[w] \in Retiring \cup {"discarding"}
             /\ (wpc[w] = "retiring") <=> (p = "revalidating")
             /\ wpc' = [wpc EXCEPT ![w] = p]
             /\ lock' = IF p = "failed" THEN NoOne ELSE lock
  BY DEF RemoveTemporary

LEMMA WriterFailsMoves ==
    ASSUME NEW w \in Writers, WriterFails(w), wpc \in [Writers -> WriterPoints]
    PROVE  \E p \in WriterPoints \ {"crashed", "stored", "kept"} :
             /\ wpc' = [wpc EXCEPT ![w] = p]
             /\ lock' = IF p = "failed" /\ lock = w THEN NoOne ELSE lock
             /\ \/ /\ wpc[w] \in {"idle", "locked", "making", "revalidating"} /\ p = "failed"
                   /\ UNCHANGED <<temp, debris>>
                \/ /\ wpc[w] \in {"filling", "describing", "flushing", "publishing"}
                   /\ p = "discarding" /\ UNCHANGED <<temp, debris>>
                \/ /\ wpc[w] = "opened" /\ p = "interrupted"
                   /\ "opened" \in FaultPoints /\ UNCHANGED <<temp, debris>>
                \/ /\ wpc[w] = "exchanged" /\ p = "retiringFailed"
                   /\ "exchanged" \in FaultPoints /\ UNCHANGED <<temp, debris>>
                \/ /\ wpc[w] \in Retiring \cup {"discarding"}
                   /\ wpc[w] \in FaultPoints
                   /\ p = IF wpc[w] = "retiring" THEN "revalidating" ELSE "failed"
                   /\ debris' = debris \cup {temp[w]}
                   /\ temp' = [temp EXCEPT ![w] = NoInode]
<1>1. CASE wpc[w] \in {"idle", "locked", "making", "revalidating"}
  BY <1>1 DEF WriterFails
<1>2. CASE wpc[w] \in {"filling", "describing", "flushing", "publishing"}
  BY <1>2 DEF WriterFails
<1>3. CASE wpc[w] = "opened"
  BY <1>3 DEF WriterFails
<1>4. CASE wpc[w] = "exchanged"
  BY <1>4 DEF WriterFails
<1>5. CASE wpc[w] \in Retiring \cup {"discarding"}
  BY <1>5 DEF WriterFails
<1> QED
  BY <1>1, <1>2, <1>3, <1>4, <1>5 DEF WriterFails

(* While a store is inside the block no other one has a staging name.        *)
LEMMA Alone ==
    ASSUME IInv, NEW w \in Writers, wpc[w] \in InLock, NEW v \in Writers \ {w}
    PROVE  wpc[v] \notin InLock /\ temp[v] = NoInode
  BY DEF IInv, LockDiscipline, Staging

(* Every step keeps the type invariant. *)
LEMMA Typing == IInv /\ [Next]_vars => TypeOK'
<1> SUFFICES ASSUME IInv, [Next]_vars PROVE TypeOK'
  OBVIOUS
<1> USE DEF IInv, TypeOK, Staging
<1>1. ASSUME NEW w \in Writers, Lock(w) PROVE TypeOK'
  BY <1>1 DEF Lock
<1>2. ASSUME NEW w \in Writers, KeepExisting(w) PROVE TypeOK'
  BY <1>2 DEF KeepExisting
<1>3. ASSUME NEW w \in Writers, FindExisting(w) PROVE TypeOK'
  BY <1>3 DEF FindExisting
<1>4. ASSUME NEW w \in Writers, MakeTemporary(w) PROVE TypeOK'
  BY <1>4 DEF MakeTemporary
<1>5. ASSUME NEW w \in Writers, WriteImages(w) PROVE TypeOK'
  BY <1>5 DEF WriteImages
<1>6. ASSUME NEW w \in Writers, WriteResult(w) PROVE TypeOK'
  BY <1>6 DEF WriteResult
<1>7. ASSUME NEW w \in Writers, FlushAndSeal(w) PROVE TypeOK'
  BY <1>7 DEF FlushAndSeal
<1>8. ASSUME NEW w \in Writers, PublishFirst(w) PROVE TypeOK'
  <2>1. PICK p \in {"revalidating", "failed"} :
          wpc' = [wpc EXCEPT ![w] = p] /\ lock' = IF p = "failed" THEN NoOne ELSE lock
    BY <1>8, PublishFirstMoves
  <2> QED
    BY <1>8, <2>1 DEF PublishFirst
<1>9. ASSUME NEW w \in Writers, OpenPredecessor(w) PROVE TypeOK'
  BY <1>9 DEF OpenPredecessor
<1>10. ASSUME NEW w \in Writers, Exchange(w) PROVE TypeOK'
  <2>1. PICK p \in {"exchanged", "interrupted"} : wpc' = [wpc EXCEPT ![w] = p]
    BY <1>10, ExchangeMoves
  <2> QED
    BY <1>10, <2>1 DEF Exchange
<1>11. ASSUME NEW w \in Writers, SyncExchange(w) PROVE TypeOK'
  BY <1>11 DEF SyncExchange
<1>12. ASSUME NEW w \in Writers, Reconsider(w) PROVE TypeOK'
  BY <1>12 DEF Reconsider
<1>13. ASSUME NEW w \in Writers, RemoveEntry(w) PROVE TypeOK'
  BY <1>13 DEF RemoveEntry
<1>14. ASSUME NEW w \in Writers, RemoveTemporary(w) PROVE TypeOK'
  <2>1. PICK p \in {"revalidating", "failed"} :
          wpc' = [wpc EXCEPT ![w] = p] /\ lock' = IF p = "failed" THEN NoOne ELSE lock
    BY <1>14, RemoveTemporaryMoves
  <2> QED
    BY <1>14, <2>1 DEF RemoveTemporary
<1>15. ASSUME NEW w \in Writers, Revalidate(w) PROVE TypeOK'
  BY <1>15 DEF Revalidate
<1>16. ASSUME NEW w \in Writers, WriterFails(w) PROVE TypeOK'
  <2>1. PICK p \in WriterPoints :
          /\ wpc' = [wpc EXCEPT ![w] = p]
          /\ lock' = IF p = "failed" /\ lock = w THEN NoOne ELSE lock
          /\ \/ UNCHANGED <<temp, debris>>
             \/ /\ wpc[w] \in Retiring \cup {"discarding"}
                /\ debris' = debris \cup {temp[w]}
                /\ temp' = [temp EXCEPT ![w] = NoInode]
    BY <1>16, WriterFailsMoves
  <2>2. UNCHANGED <<final, durable, files, version, flushed, clock, old, new, reading>>
    BY <1>16 DEF WriterFails
  <2>3. wpc[w] \in Retiring \cup {"discarding"} => temp[w] \in Inodes
    OBVIOUS
  <2> HIDE DEF Staging
  <2> QED
    BY <2>1, <2>2, <2>3
<1>17. ASSUME NEW w \in Writers, TemporaryLost(w) PROVE TypeOK'
  BY <1>17 DEF TemporaryLost
<1>18. ASSUME NEW w \in Writers, WriterCrash(w) PROVE TypeOK'
  BY <1>18 DEF WriterCrash
<1>19. ASSUME NEW r \in Readers, OpenGeneration(r) PROVE TypeOK'
  BY <1>19 DEF OpenGeneration
<1>20. ASSUME NEW r \in Readers, ReadMetadata(r) PROVE TypeOK'
  <2>1. CASE Complete(pin[r])
    <3>1. pin[r] \in Inodes
      BY <2>1 DEF Complete
    <3>2. /\ rpc' = [rpc EXCEPT ![r] = "read"] /\ UNCHANGED pin
          /\ seen' = [seen EXCEPT ![r] = [inode |-> pin[r], version |-> version[pin[r]]]]
          /\ UNCHANGED <<store, writing, copied>>
      BY <1>20, <2>1 DEF ReadMetadata
    <3> QED
      BY <3>1, <3>2
  <2>2. CASE ~Complete(pin[r])
    <3>1. /\ rpc' = [rpc EXCEPT ![r] = "miss"]
          /\ pin' = [pin EXCEPT ![r] = NoInode]
          /\ UNCHANGED <<store, writing, seen, copied>>
      BY <1>20, <2>2 DEF ReadMetadata
    <3> QED
      BY <3>1
  <2> QED
    BY <2>1, <2>2
<1>21. ASSUME NEW r \in Readers, CheckBinding(r) PROVE TypeOK'
  BY <1>21 DEF CheckBinding
<1>22. ASSUME NEW r \in Readers, Reopen(r) PROVE TypeOK'
  <2>1. CASE final # NoInode /\ final = seen[r].inode
    <3>1. /\ rpc' = [rpc EXCEPT ![r] = "copying"] /\ pin' = [pin EXCEPT ![r] = final]
          /\ UNCHANGED <<store, writing, seen, copied>>
      BY <1>22, <2>1 DEF Reopen
    <3> QED
      BY <3>1
  <2>2. CASE ~(final # NoInode /\ final = seen[r].inode)
    <3>1. rpc' = [rpc EXCEPT ![r] = "miss"] /\ UNCHANGED <<store, writing, pin, seen, copied>>
      BY <1>22, <2>2 DEF Reopen
    <3> QED
      BY <3>1
  <2> QED
    BY <2>1, <2>2
<1>23. ASSUME NEW r \in Readers, CopyImage(r) PROVE TypeOK'
  <2> DEFINE k == CHOOSE n \in Todo(r) : \A m \in Todo(r) : n <= m
             verified == k \in files[pin[r]] /\ version[pin[r]] = seen[r].version
  <2>1. CASE verified
    <3>1. copied' = [copied EXCEPT ![r][k] = seen[r].version] /\ UNCHANGED <<rpc, pin>>
      BY <1>23, <2>1 DEF CopyImage
    <3> HIDE DEF k
    <3> QED
      BY <1>23, <3>1 DEF CopyImage
  <2>2. CASE ~verified
    <3>1. RGoto(r, "copying", "rollback") /\ pin' = [pin EXCEPT ![r] = NoInode] /\ UNCHANGED copied
      BY <1>23, <2>2 DEF CopyImage
    <3> QED
      BY <1>23, <3>1 DEF CopyImage
  <2> QED
    BY <2>1, <2>2
<1>24. ASSUME NEW r \in Readers, ConfirmBinding(r) PROVE TypeOK'
  BY <1>24 DEF ConfirmBinding
<1>25. ASSUME NEW r \in Readers, RollBack(r) PROVE TypeOK'
  BY <1>25 DEF RollBack
<1>26. ASSUME NEW r \in Readers, ReaderFails(r) PROVE TypeOK'
  BY <1>26 DEF ReaderFails
<1>27. ASSUME PowerLoss PROVE TypeOK'
  BY <1>27 DEF PowerLoss
<1>28. CASE UNCHANGED vars
  BY <1>28 DEF vars
<1> QED
  BY <1>1, <1>2, <1>3, <1>4, <1>5, <1>6, <1>7, <1>8, <1>9, <1>10, <1>11, <1>12, <1>13, <1>14, <1>15, <1>16, <1>17, <1>18, <1>19, <1>20, <1>21, <1>22, <1>23, <1>24, <1>25, <1>26, <1>27, <1>28
     DEF Next, WriterProgress, ReaderProgress, Terminated

(* A step leaves the lock with the store that is inside the block. *)
LEMMA LockStep == IInv /\ [Next]_vars => LockDiscipline'
<1> SUFFICES ASSUME IInv, [Next]_vars PROVE LockDiscipline'
  OBVIOUS
<1> USE DEF IInv, TypeOK, LockDiscipline
<1>1. ASSUME NEW w \in Writers, Lock(w) PROVE LockDiscipline'
  BY <1>1 DEF Lock
<1>2. ASSUME NEW w \in Writers, KeepExisting(w) PROVE LockDiscipline'
  BY <1>2 DEF KeepExisting
<1>3. ASSUME NEW w \in Writers, FindExisting(w) PROVE LockDiscipline'
  BY <1>3 DEF FindExisting
<1>4. ASSUME NEW w \in Writers, MakeTemporary(w) PROVE LockDiscipline'
  BY <1>4 DEF MakeTemporary
<1>5. ASSUME NEW w \in Writers, WriteImages(w) PROVE LockDiscipline'
  BY <1>5 DEF WriteImages
<1>6. ASSUME NEW w \in Writers, WriteResult(w) PROVE LockDiscipline'
  BY <1>6 DEF WriteResult
<1>7. ASSUME NEW w \in Writers, FlushAndSeal(w) PROVE LockDiscipline'
  BY <1>7 DEF FlushAndSeal
<1>8. ASSUME NEW w \in Writers, PublishFirst(w) PROVE LockDiscipline'
  <2>1. PICK p \in {"revalidating", "failed"} :
          wpc' = [wpc EXCEPT ![w] = p] /\ lock' = IF p = "failed" THEN NoOne ELSE lock
    BY <1>8, PublishFirstMoves
  <2> QED
    BY <1>8, <2>1 DEF PublishFirst
<1>9. ASSUME NEW w \in Writers, OpenPredecessor(w) PROVE LockDiscipline'
  BY <1>9 DEF OpenPredecessor
<1>10. ASSUME NEW w \in Writers, Exchange(w) PROVE LockDiscipline'
  <2>1. PICK p \in {"exchanged", "interrupted"} : wpc' = [wpc EXCEPT ![w] = p]
    BY <1>10, ExchangeMoves
  <2> QED
    BY <1>10, <2>1 DEF Exchange
<1>11. ASSUME NEW w \in Writers, SyncExchange(w) PROVE LockDiscipline'
  BY <1>11 DEF SyncExchange
<1>12. ASSUME NEW w \in Writers, Reconsider(w) PROVE LockDiscipline'
  BY <1>12 DEF Reconsider
<1>13. ASSUME NEW w \in Writers, RemoveEntry(w) PROVE LockDiscipline'
  BY <1>13 DEF RemoveEntry
<1>14. ASSUME NEW w \in Writers, RemoveTemporary(w) PROVE LockDiscipline'
  <2>1. PICK p \in {"revalidating", "failed"} :
          /\ wpc[w] \in InLock /\ wpc' = [wpc EXCEPT ![w] = p]
          /\ lock' = IF p = "failed" THEN NoOne ELSE lock
    BY <1>14, RemoveTemporaryMoves
  <2> QED
    BY <2>1
<1>15. ASSUME NEW w \in Writers, Revalidate(w) PROVE LockDiscipline'
  BY <1>15 DEF Revalidate
<1>16. ASSUME NEW w \in Writers, WriterFails(w) PROVE LockDiscipline'
  <2>1. PICK p \in WriterPoints :
          /\ wpc' = [wpc EXCEPT ![w] = p]
          /\ lock' = IF p = "failed" /\ lock = w THEN NoOne ELSE lock
          /\ wpc[w] = "idle" \/ wpc[w] \in InLock
          /\ p \in InLock \cup {"failed"}
          /\ wpc[w] = "idle" => p = "failed"
    BY <1>16, WriterFailsMoves
  <2> QED
    BY <2>1
<1>17. ASSUME NEW w \in Writers, TemporaryLost(w) PROVE LockDiscipline'
  <2>1. wpc[w] = "making" /\ wpc' = [wpc EXCEPT ![w] = "failed"] /\ lock' = NoOne
    BY <1>17 DEF TemporaryLost
  <2> QED
    BY <2>1
<1>18. ASSUME NEW w \in Writers, WriterCrash(w) PROVE LockDiscipline'
  BY <1>18 DEF WriterCrash
<1>19. ASSUME NEW r \in Readers, ReaderProgress(r) \/ ReaderFails(r) PROVE LockDiscipline'
  BY <1>19 DEF ReaderProgress, ReaderFails, OpenGeneration, ReadMetadata, CheckBinding, Reopen, CopyImage, ConfirmBinding, RollBack
<1>20. ASSUME PowerLoss PROVE LockDiscipline'
  BY <1>20 DEF PowerLoss
<1>21. CASE UNCHANGED vars
  BY <1>21 DEF vars
<1> QED
  BY <1>1, <1>2, <1>3, <1>4, <1>5, <1>6, <1>7, <1>8, <1>9, <1>10, <1>11, <1>12, <1>13, <1>14, <1>15, <1>16, <1>17, <1>18, <1>19, <1>20, <1>21
     DEF Next, WriterProgress, ReaderProgress, Terminated

(* How the final name moves: it stays, or a store binds it to the directory  *)
(* it made, which is newer than anything else.                               *)
LEMMA FinalMoves ==
    ASSUME IInv, [Next]_vars, ~PowerLoss
    PROVE  \/ final' = final /\ (final # NoInode => version'[final] = version[final])
           \/ /\ final' \in Inodes /\ version'[final'] = clock /\ clock > 0
              /\ final # NoInode => version[final] < clock
              /\ UNCHANGED reading
<1> USE DEF IInv, TypeOK
<1> DEFINE Stays == final' = final /\ (final # NoInode => version'[final] = version[final])
           Moves == /\ final' \in Inodes /\ version'[final'] = clock /\ clock > 0
                    /\ final # NoInode => version[final] < clock
                    /\ UNCHANGED reading
<1>1. ASSUME NEW w \in Writers, MakeTemporary(w) PROVE Stays
  <2>1. PICK i \in Inodes \ Used :
          version' = [version EXCEPT ![i] = clock + 1] /\ UNCHANGED final
    BY <1>1 DEF MakeTemporary
  <2>2. i # final
    BY DEF Used
  <2> QED
    BY <2>1, <2>2
<1>2. ASSUME NEW w \in Writers, PublishFirst(w) \/ Exchange(w) PROVE Moves
  <2>1. /\ wpc[w] \in {"publishing", "opened"} /\ final' = temp[w]
        /\ UNCHANGED <<version, reading>>
    BY <1>2 DEF PublishFirst, Exchange
  <2>2. /\ temp[w] \in Inodes \ {final} /\ temp[w] = new[w]
        /\ clock > 0 /\ version[new[w]] = clock
        /\ \A i \in Inodes \ {new[w]} : version[i] < clock
    BY <2>1 DEF Staging
  <2> QED
    BY <2>1, <2>2
<1>3. ASSUME NEW w \in Writers,
             Lock(w) \/ KeepExisting(w) \/ FindExisting(w) \/ WriteImages(w)
               \/ WriteResult(w) \/ FlushAndSeal(w) \/ OpenPredecessor(w)
               \/ SyncExchange(w) \/ Reconsider(w) \/ RemoveEntry(w)
               \/ RemoveTemporary(w) \/ Revalidate(w) \/ WriterFails(w)
               \/ TemporaryLost(w) \/ WriterCrash(w)
      PROVE  UNCHANGED <<final, version>>
  BY <1>3 DEF Lock, KeepExisting, FindExisting, WriteImages, WriteResult, FlushAndSeal,
     OpenPredecessor, SyncExchange, Reconsider, RemoveEntry, RemoveTemporary,
     Revalidate, WriterFails, TemporaryLost, WriterCrash
<1>4. ASSUME NEW r \in Readers, ReaderProgress(r) \/ ReaderFails(r)
      PROVE  UNCHANGED <<final, version>>
  BY <1>4 DEF ReaderProgress, ReaderFails, OpenGeneration, ReadMetadata, CheckBinding,
     Reopen, CopyImage, ConfirmBinding, RollBack
<1>5. CASE UNCHANGED vars
  BY <1>5 DEF vars
<1> HIDE DEF IInv, TypeOK, Stays, Moves
<1>6. Stays \/ Moves
  <2>1. UNCHANGED <<final, version>> => Stays
    BY DEF Stays
  <2> QED
    BY <2>1, <1>1, <1>2, <1>3, <1>4, <1>5 DEF Next, WriterProgress, Terminated, vars
<1> QED
  BY <1>6 DEF Stays, Moves

(* Only a free inode gets a new version.                                     *)
LEMMA VersionsStay ==
    ASSUME IInv, [Next]_vars, NEW i \in Inodes \cap Used
    PROVE  version'[i] = version[i]
<1>1. ASSUME NEW w \in Writers, MakeTemporary(w) PROVE version'[i] = version[i]
  <2>1. PICK j \in Inodes \ Used : version' = [version EXCEPT ![j] = clock + 1]
    BY <1>1 DEF MakeTemporary
  <2> QED
    BY <2>1 DEF IInv, TypeOK
<1>2. ASSUME NEW w \in Writers,
             Lock(w) \/ KeepExisting(w) \/ FindExisting(w) \/ WriteImages(w)
               \/ WriteResult(w) \/ FlushAndSeal(w) \/ PublishFirst(w)
               \/ OpenPredecessor(w) \/ Exchange(w) \/ SyncExchange(w) \/ Reconsider(w)
               \/ RemoveEntry(w) \/ RemoveTemporary(w) \/ Revalidate(w)
               \/ WriterFails(w) \/ TemporaryLost(w) \/ WriterCrash(w)
      PROVE  UNCHANGED version
  BY <1>2 DEF Lock, KeepExisting, FindExisting, WriteImages, WriteResult, FlushAndSeal,
     PublishFirst, OpenPredecessor, Exchange, SyncExchange, Reconsider, RemoveEntry,
     RemoveTemporary, Revalidate, WriterFails, TemporaryLost, WriterCrash
<1>3. ASSUME NEW r \in Readers, ReaderProgress(r) \/ ReaderFails(r) PROVE UNCHANGED version
  BY <1>3 DEF ReaderProgress, ReaderFails, OpenGeneration, ReadMetadata, CheckBinding,
     Reopen, CopyImage, ConfirmBinding, RollBack
<1>4. CASE PowerLoss
  BY <1>4 DEF PowerLoss
<1>5. CASE UNCHANGED vars
  BY <1>5 DEF vars
<1> QED
  BY <1>1, <1>2, <1>3, <1>4, <1>5 DEF Next, WriterProgress, Terminated

(* A store that died or reported a failure stays what it is.                 *)
LEMMA OverIsOver ==
    ASSUME IInv, [Next]_vars, NEW v \in Writers, wpc[v] \in {"crashed", "failed"}
    PROVE  wpc'[v] = wpc[v]
<1> USE DEF IInv, TypeOK
<1>1. ASSUME NEW w \in Writers,
             Lock(w) \/ KeepExisting(w) \/ FindExisting(w) \/ MakeTemporary(w)
               \/ WriteImages(w) \/ WriteResult(w) \/ FlushAndSeal(w)
               \/ OpenPredecessor(w) \/ SyncExchange(w) \/ Reconsider(w)
               \/ RemoveEntry(w) \/ Revalidate(w) \/ TemporaryLost(w) \/ WriterCrash(w)
      PROVE  wpc'[v] = wpc[v]
  BY <1>1 DEF Lock, KeepExisting, FindExisting, MakeTemporary, WriteImages, WriteResult,
     FlushAndSeal, OpenPredecessor, SyncExchange, Reconsider, RemoveEntry, Revalidate,
     TemporaryLost, WriterCrash
<1>2. ASSUME NEW w \in Writers, PublishFirst(w) \/ Exchange(w) \/ RemoveTemporary(w)
      PROVE  wpc'[v] = wpc[v]
  BY <1>2, PublishFirstMoves, ExchangeMoves, RemoveTemporaryMoves
<1>3. ASSUME NEW w \in Writers, WriterFails(w) PROVE wpc'[v] = wpc[v]
  BY <1>3 DEF WriterFails
<1>4. ASSUME NEW r \in Readers, ReaderProgress(r) \/ ReaderFails(r) PROVE wpc'[v] = wpc[v]
  BY <1>4 DEF ReaderProgress, ReaderFails, OpenGeneration, ReadMetadata, CheckBinding,
     Reopen, CopyImage, ConfirmBinding, RollBack
<1>5. CASE PowerLoss
  BY <1>5 DEF PowerLoss
<1>6. CASE UNCHANGED vars
  BY <1>6 DEF vars
<1> HIDE DEF IInv, TypeOK
<1> QED
  BY <1>1, <1>2, <1>3, <1>4, <1>5, <1>6 DEF Next, WriterProgress, Terminated

(* Whatever explains that a directory was left behind explains it for good.  *)
LEMMA StillAccounted ==
    ASSUME IInv, [Next]_vars, NEW i \in debris
    PROVE  Accounted(i)'
<1>1. Accounted(i) /\ i \in Inodes
  BY DEF IInv, TypeOK, NothingLeftBehind
<1>2. CASE \E w \in Writers : wpc[w] = "crashed"
  BY <1>2, OverIsOver DEF Accounted
<1>3. CASE /\ FaultPoints \cap {"making", "retiringFailed", "discarding"} # {}
           /\ \E w \in Writers : wpc[w] = "failed"
  BY <1>3, OverIsOver DEF Accounted
<1>4. CASE "retiring" \in FaultPoints /\ final # NoInode /\ version[i] < version[final]
  <2>1. CASE PowerLoss
    <3>1. \E w \in Writers : wpc'[w] = "crashed"
      BY <2>1 DEF PowerLoss
    <3> QED
      BY <3>1 DEF Accounted
  <2>2. CASE ~PowerLoss
    <3>1. /\ final \in Inodes /\ version[final] \in Nat /\ version[i] \in Nat
          /\ clock \in Nat
      BY <1>1, <1>4 DEF IInv, TypeOK
    <3>2. final' # NoInode /\ version[i] < version'[final']
      BY <1>4, <2>2, <3>1, FinalMoves
    <3>3. version'[i] = version[i]
      BY <1>1, VersionsStay DEF Used
    <3> QED
      BY <1>4, <3>2, <3>3 DEF Accounted
  <2> QED
    BY <2>1, <2>2
<1> QED
  BY <1>1, <1>2, <1>3, <1>4 DEF Accounted

(* What is left under a staging name is accounted for. *)
LEMMA TidyStep == IInv /\ [Next]_vars => NothingLeftBehind'
<1> SUFFICES ASSUME IInv, [Next]_vars PROVE NothingLeftBehind'
  OBVIOUS
<1> USE DEF IInv, TypeOK, NothingLeftBehind, Staging
<1> DEFINE Tidy == /\ \A v \in Writers : wpc'[v] \in WriterDone => temp'[v] = NoInode
                   /\ final' \notin debris'
                   /\ \A i \in debris' \ debris : Accounted(i)'
<1>1. ASSUME NEW w \in Writers, Lock(w) PROVE Tidy
  BY <1>1 DEF Lock
<1>2. ASSUME NEW w \in Writers, KeepExisting(w) PROVE Tidy
  <2>1. /\ wpc[w] = "locked" /\ wpc' = [wpc EXCEPT ![w] = "kept"]
        /\ UNCHANGED <<temp, debris, final>>
    BY <1>2 DEF KeepExisting
  <2>2. temp[w] = NoInode
    BY <2>1
  <2> HIDE DEF Staging
  <2>3. \A v \in Writers : wpc'[v] \in WriterDone => temp'[v] = NoInode
    BY <2>1, <2>2
  <2> QED
    BY <2>1, <2>3
<1>3. ASSUME NEW w \in Writers, FindExisting(w) PROVE Tidy
  BY <1>3 DEF FindExisting
<1>4. ASSUME NEW w \in Writers, MakeTemporary(w) PROVE Tidy
  BY <1>4 DEF MakeTemporary
<1>5. ASSUME NEW w \in Writers, WriteImages(w) PROVE Tidy
  BY <1>5 DEF WriteImages
<1>6. ASSUME NEW w \in Writers, WriteResult(w) PROVE Tidy
  BY <1>6 DEF WriteResult
<1>7. ASSUME NEW w \in Writers, FlushAndSeal(w) PROVE Tidy
  BY <1>7 DEF FlushAndSeal
<1>8. ASSUME NEW w \in Writers, PublishFirst(w) PROVE Tidy
  BY <1>8 DEF PublishFirst
<1>9. ASSUME NEW w \in Writers, OpenPredecessor(w) PROVE Tidy
  BY <1>9 DEF OpenPredecessor
<1>10. ASSUME NEW w \in Writers, Exchange(w) PROVE Tidy
  BY <1>10 DEF Exchange
<1>11. ASSUME NEW w \in Writers, SyncExchange(w) PROVE Tidy
  BY <1>11 DEF SyncExchange
<1>12. ASSUME NEW w \in Writers, Reconsider(w) PROVE Tidy
  BY <1>12 DEF Reconsider
<1>13. ASSUME NEW w \in Writers, RemoveEntry(w) PROVE Tidy
  BY <1>13 DEF RemoveEntry
<1>14. ASSUME NEW w \in Writers, RemoveTemporary(w) PROVE Tidy
  BY <1>14 DEF RemoveTemporary
<1>15. ASSUME NEW w \in Writers, Revalidate(w) PROVE Tidy
  <2>1. PICK p \in {"stored", "failed"} :
          /\ wpc[w] = "revalidating" /\ wpc' = [wpc EXCEPT ![w] = p]
          /\ UNCHANGED <<temp, debris, final>>
    BY <1>15 DEF Revalidate
  <2>2. \A v \in Writers : wpc'[v] \in WriterDone => temp'[v] = NoInode
    <3>1. temp[w] = NoInode
      BY <2>1
    <3> QED
      BY <2>1, <3>1
  <2> QED
    BY <2>1, <2>2
<1>16. ASSUME NEW w \in Writers, WriterFails(w) PROVE Tidy
  <2>1. PICK p \in WriterPoints \ {"crashed", "stored", "kept"} :
          /\ wpc' = [wpc EXCEPT ![w] = p]
          /\ \/ /\ wpc[w] \in {"idle", "locked", "making", "revalidating"} /\ p = "failed"
                /\ UNCHANGED <<temp, debris>>
             \/ p \in InLock /\ UNCHANGED <<temp, debris>>
             \/ /\ wpc[w] \in Retiring \cup {"discarding"} /\ wpc[w] \in FaultPoints
                /\ p = IF wpc[w] = "retiring" THEN "revalidating" ELSE "failed"
                /\ debris' = debris \cup {temp[w]}
                /\ temp' = [temp EXCEPT ![w] = NoInode]
    <3>1. wpc \in [Writers -> WriterPoints]
      OBVIOUS
    <3> HIDE DEF IInv, TypeOK, NothingLeftBehind, Staging
    <3> QED
      BY <1>16, <3>1, WriterFailsMoves
  <2>2. UNCHANGED <<final, version>>
    BY <1>16 DEF WriterFails
  <2>3. \A v \in Writers : wpc'[v] \in WriterDone => temp'[v] = NoInode
    BY <2>1
  <2>4. final' \notin debris'
    BY <2>1, <2>2
  <2>5. ASSUME NEW i \in debris' \ debris PROVE Accounted(i)'
    <3>1. i = temp[w] /\ wpc[w] \in FaultPoints
      BY <2>1, <2>5
    <3>2. CASE wpc[w] = "retiring"
      BY <2>2, <3>1, <3>2 DEF Accounted
    <3>3. CASE wpc[w] \in {"retiringFailed", "discarding"}
      <4>1. wpc'[w] = "failed"
        BY <2>1, <2>5, <3>3
      <4> QED
        BY <3>1, <3>3, <4>1 DEF Accounted
    <3> QED
      BY <2>1, <2>5, <3>2, <3>3
  <2> QED
    BY <2>3, <2>4, <2>5
<1>17. ASSUME NEW w \in Writers, TemporaryLost(w) PROVE Tidy
  <2>1. PICK i \in Inodes \ Used : debris' = debris \cup {i}
    BY <1>17 DEF TemporaryLost
  <2>2. /\ "making" \in FaultPoints /\ wpc[w] = "making"
        /\ wpc' = [wpc EXCEPT ![w] = "failed"] /\ UNCHANGED <<temp, final>>
    BY <1>17 DEF TemporaryLost
  <2>3. i # final
    BY DEF Used
  <2>4. temp[w] = NoInode /\ wpc'[w] = "failed"
    BY <2>2
  <2>5. Accounted(i)'
    BY <2>2, <2>4 DEF Accounted
  <2> QED
    BY <2>1, <2>2, <2>3, <2>4, <2>5
<1>18. ASSUME NEW w \in Writers, WriterCrash(w) PROVE Tidy
  <2>1. wpc'[w] = "crashed"
    BY <1>18 DEF WriterCrash
  <2>2. \A i \in Inodes : Accounted(i)'
    BY <2>1 DEF Accounted
  <2> QED
    BY <1>18, <2>2 DEF WriterCrash
<1>19. ASSUME NEW r \in Readers, ReaderProgress(r) \/ ReaderFails(r) PROVE Tidy
  BY <1>19 DEF ReaderProgress, ReaderFails, OpenGeneration, ReadMetadata, CheckBinding, Reopen, CopyImage, ConfirmBinding, RollBack
<1>20. ASSUME PowerLoss PROVE Tidy
  <2>1. \E w \in Writers : wpc'[w] = "crashed"
    BY <1>20 DEF PowerLoss
  <2>2. \A i \in Inodes : Accounted(i)'
    BY <2>1 DEF Accounted
  <2> QED
    BY <1>20, <2>2 DEF PowerLoss
<1>21. ASSUME UNCHANGED vars PROVE Tidy
  BY <1>21 DEF vars
<1> HIDE DEF Tidy, IInv, TypeOK, Staging
<1>22. Tidy
  BY <1>1, <1>2, <1>3, <1>4, <1>5, <1>6, <1>7, <1>8, <1>9, <1>10, <1>11, <1>12, <1>13, <1>14, <1>15, <1>16, <1>17, <1>18, <1>19, <1>20, <1>21
     DEF Next, WriterProgress, ReaderProgress, Terminated
<1> QED
  BY <1>22, StillAccounted DEF Tidy, NothingLeftBehind

(* A step keeps the order of versions. *)
LEMMA OrderStep == IInv /\ [Next]_vars => Ordered'
<1> SUFFICES ASSUME IInv, [Next]_vars PROVE Ordered'
  OBVIOUS
<1> USE DEF IInv, TypeOK, Ordered, Staging
<1>1. ASSUME NEW w \in Writers, Lock(w) PROVE Ordered'
  BY <1>1 DEF Lock
<1>2. ASSUME NEW w \in Writers, KeepExisting(w) PROVE Ordered'
  BY <1>2 DEF KeepExisting
<1>3. ASSUME NEW w \in Writers, FindExisting(w) PROVE Ordered'
  BY <1>3 DEF FindExisting
<1>4. ASSUME NEW w \in Writers, MakeTemporary(w) PROVE Ordered'
  BY <1>4 DEF MakeTemporary, Used
<1>5. ASSUME NEW w \in Writers, WriteImages(w) PROVE Ordered'
  BY <1>5 DEF WriteImages
<1>6. ASSUME NEW w \in Writers, WriteResult(w) PROVE Ordered'
  BY <1>6 DEF WriteResult
<1>7. ASSUME NEW w \in Writers, FlushAndSeal(w) PROVE Ordered'
  BY <1>7 DEF FlushAndSeal
<1>8. ASSUME NEW w \in Writers, PublishFirst(w) PROVE Ordered'
  BY <1>8 DEF PublishFirst
<1>9. ASSUME NEW w \in Writers, OpenPredecessor(w) PROVE Ordered'
  BY <1>9 DEF OpenPredecessor
<1>10. ASSUME NEW w \in Writers, Exchange(w) PROVE Ordered'
  BY <1>10 DEF Exchange
<1>11. ASSUME NEW w \in Writers, SyncExchange(w) PROVE Ordered'
  BY <1>11 DEF SyncExchange
<1>12. ASSUME NEW w \in Writers, Reconsider(w) PROVE Ordered'
  BY <1>12 DEF Reconsider
<1>13. ASSUME NEW w \in Writers, RemoveEntry(w) PROVE Ordered'
  BY <1>13 DEF RemoveEntry
<1>14. ASSUME NEW w \in Writers, RemoveTemporary(w) PROVE Ordered'
  BY <1>14 DEF RemoveTemporary
<1>15. ASSUME NEW w \in Writers, Revalidate(w) PROVE Ordered'
  BY <1>15 DEF Revalidate
<1>16. ASSUME NEW w \in Writers, WriterFails(w) PROVE Ordered'
  BY <1>16 DEF WriterFails
<1>17. ASSUME NEW w \in Writers, TemporaryLost(w) PROVE Ordered'
  BY <1>17 DEF TemporaryLost, Used
<1>18. ASSUME NEW w \in Writers, WriterCrash(w) PROVE Ordered'
  BY <1>18 DEF WriterCrash
<1>19. ASSUME NEW r \in Readers, ReaderProgress(r) \/ ReaderFails(r) PROVE Ordered'
  BY <1>19 DEF ReaderProgress, ReaderFails, OpenGeneration, ReadMetadata, CheckBinding, Reopen, CopyImage, ConfirmBinding, RollBack
<1>20. ASSUME PowerLoss PROVE Ordered'
  BY <1>20 DEF PowerLoss
<1>21. CASE UNCHANGED vars
  BY <1>21 DEF vars
<1> QED
  BY <1>1, <1>2, <1>3, <1>4, <1>5, <1>6, <1>7, <1>8, <1>9, <1>10, <1>11, <1>12, <1>13, <1>14, <1>15, <1>16, <1>17, <1>18, <1>19, <1>20, <1>21
     DEF Next, WriterProgress, ReaderProgress, Terminated

(* A step keeps sound whatever is or may come under the final name. *)
LEMMA LastingStep == IInv /\ [Next]_vars => Lasting'
<1> SUFFICES ASSUME IInv, [Next]_vars PROVE Lasting'
  OBVIOUS
<1> USE DEF IInv, TypeOK, Lasting, Staging, Sound, Complete, TornExchange
<1>1. ASSUME NEW w \in Writers, Lock(w) PROVE Lasting'
  BY <1>1 DEF Lock
<1>2. ASSUME NEW w \in Writers, KeepExisting(w) PROVE Lasting'
  BY <1>2 DEF KeepExisting
<1>3. ASSUME NEW w \in Writers, FindExisting(w) PROVE Lasting'
  BY <1>3 DEF FindExisting
<1>4. ASSUME NEW w \in Writers, MakeTemporary(w) PROVE Lasting'
  BY <1>4 DEF MakeTemporary, Used
<1>5. ASSUME NEW w \in Writers, WriteImages(w) PROVE Lasting'
  BY <1>5 DEF WriteImages
<1>6. ASSUME NEW w \in Writers, WriteResult(w) PROVE Lasting'
  BY <1>6 DEF WriteResult
<1>7. ASSUME NEW w \in Writers, FlushAndSeal(w) PROVE Lasting'
  BY <1>7 DEF FlushAndSeal
<1>8. ASSUME NEW w \in Writers, PublishFirst(w) PROVE Lasting'
  BY <1>8 DEF PublishFirst
<1>9. ASSUME NEW w \in Writers, OpenPredecessor(w) PROVE Lasting'
  BY <1>9 DEF OpenPredecessor
<1>10. ASSUME NEW w \in Writers, Exchange(w) PROVE Lasting'
  BY <1>10 DEF Exchange
<1>11. ASSUME NEW w \in Writers, SyncExchange(w) PROVE Lasting'
  BY <1>11 DEF SyncExchange
<1>12. ASSUME NEW w \in Writers, Reconsider(w) PROVE Lasting'
  BY <1>12 DEF Reconsider
<1>13. ASSUME NEW w \in Writers, RemoveEntry(w) PROVE Lasting'
  BY <1>13 DEF RemoveEntry
<1>14. ASSUME NEW w \in Writers, RemoveTemporary(w) PROVE Lasting'
  BY <1>14 DEF RemoveTemporary
<1>15. ASSUME NEW w \in Writers, Revalidate(w) PROVE Lasting'
  BY <1>15 DEF Revalidate
<1>16. ASSUME NEW w \in Writers, WriterFails(w) PROVE Lasting'
  BY <1>16 DEF WriterFails
<1>17. ASSUME NEW w \in Writers, TemporaryLost(w) PROVE Lasting'
  BY <1>17 DEF TemporaryLost, Used
<1>18. ASSUME NEW w \in Writers, WriterCrash(w) PROVE Lasting'
  BY <1>18 DEF WriterCrash
<1>19. ASSUME NEW r \in Readers, ReaderProgress(r) \/ ReaderFails(r) PROVE Lasting'
  BY <1>19 DEF ReaderProgress, ReaderFails, OpenGeneration, ReadMetadata, CheckBinding, Reopen, CopyImage, ConfirmBinding, RollBack
<1>20. ASSUME PowerLoss PROVE Lasting'
  <2>1. \E w \in Writers : wpc'[w] = "crashed"
    BY <1>20 DEF PowerLoss
  <2>2. PICK f \in durable : final' = f /\ durable' = {f}
    BY <1>20 DEF PowerLoss
  <2>3. /\ files' = [i \in Inodes |-> IF flushed[i] THEN files[i] ELSE {}]
        /\ UNCHANGED <<flushed, version, clock>>
    BY <1>20 DEF PowerLoss
  <2>4. f # NoInode => f \in Inodes /\ (Sound(f) => Sound(f)')
    BY <2>3
  <2>5. f # NoInode /\ ~Sound(f) => TornExchange /\ version[f] < clock
    <3>1. f # NoInode /\ f # final => version[f] < version[final] /\ version[final] <= clock
      BY DEF Ordered
    <3>2. f # NoInode =>
            /\ version[f] \in Nat /\ version[final] \in Nat /\ clock \in Nat
      BY <2>4 DEF Ordered
    <3>3. f # NoInode /\ f # final => version[f] < clock
      BY <3>1, <3>2
    <3> QED
      BY <3>3
  <2> HIDE DEF Sound, Staging
  <2> QED
    BY <2>1, <2>2, <2>3, <2>4, <2>5
<1>21. CASE UNCHANGED vars
  BY <1>21 DEF vars
<1> QED
  BY <1>1, <1>2, <1>3, <1>4, <1>5, <1>6, <1>7, <1>8, <1>9, <1>10, <1>11, <1>12, <1>13, <1>14, <1>15, <1>16, <1>17, <1>18, <1>19, <1>20, <1>21
     DEF Next, WriterProgress, ReaderProgress, Terminated

(* A step keeps what a reader knows of its generation. *)
LEMMA CopyingStep == IInv /\ [Next]_vars => \A q \in Readers : Copying(q)'
<1> SUFFICES ASSUME IInv, [Next]_vars PROVE \A q \in Readers : Copying(q)'
  OBVIOUS
<1> USE DEF IInv, TypeOK, Copying, Todo, Ordered
<1>1. ASSUME NEW w \in Writers, Lock(w) PROVE \A q \in Readers : Copying(q)'
  BY <1>1 DEF Lock
<1>2. ASSUME NEW w \in Writers, KeepExisting(w) PROVE \A q \in Readers : Copying(q)'
  BY <1>2 DEF KeepExisting
<1>3. ASSUME NEW w \in Writers, FindExisting(w) PROVE \A q \in Readers : Copying(q)'
  BY <1>3 DEF FindExisting
<1>4. ASSUME NEW w \in Writers, MakeTemporary(w) PROVE \A q \in Readers : Copying(q)'
  <2>1. PICK i \in Inodes \ Used : version' = [version EXCEPT ![i] = clock + 1]
    BY <1>4 DEF MakeTemporary
  <2>2. UNCHANGED <<rpc, pin, seen, copied>>
    BY <1>4 DEF MakeTemporary
  <2>3. \A q \in Readers : pin[q] # i
    BY DEF Used
  <2> QED
    BY <2>1, <2>2, <2>3
<1>5. ASSUME NEW w \in Writers, WriteImages(w) PROVE \A q \in Readers : Copying(q)'
  BY <1>5 DEF WriteImages
<1>6. ASSUME NEW w \in Writers, WriteResult(w) PROVE \A q \in Readers : Copying(q)'
  BY <1>6 DEF WriteResult
<1>7. ASSUME NEW w \in Writers, FlushAndSeal(w) PROVE \A q \in Readers : Copying(q)'
  BY <1>7 DEF FlushAndSeal
<1>8. ASSUME NEW w \in Writers, PublishFirst(w) PROVE \A q \in Readers : Copying(q)'
  BY <1>8 DEF PublishFirst
<1>9. ASSUME NEW w \in Writers, OpenPredecessor(w) PROVE \A q \in Readers : Copying(q)'
  BY <1>9 DEF OpenPredecessor
<1>10. ASSUME NEW w \in Writers, Exchange(w) PROVE \A q \in Readers : Copying(q)'
  BY <1>10 DEF Exchange
<1>11. ASSUME NEW w \in Writers, SyncExchange(w) PROVE \A q \in Readers : Copying(q)'
  BY <1>11 DEF SyncExchange
<1>12. ASSUME NEW w \in Writers, Reconsider(w) PROVE \A q \in Readers : Copying(q)'
  BY <1>12 DEF Reconsider
<1>13. ASSUME NEW w \in Writers, RemoveEntry(w) PROVE \A q \in Readers : Copying(q)'
  BY <1>13 DEF RemoveEntry
<1>14. ASSUME NEW w \in Writers, RemoveTemporary(w) PROVE \A q \in Readers : Copying(q)'
  BY <1>14 DEF RemoveTemporary
<1>15. ASSUME NEW w \in Writers, Revalidate(w) PROVE \A q \in Readers : Copying(q)'
  BY <1>15 DEF Revalidate
<1>16. ASSUME NEW w \in Writers, WriterFails(w) PROVE \A q \in Readers : Copying(q)'
  BY <1>16 DEF WriterFails
<1>17. ASSUME NEW w \in Writers, TemporaryLost(w) PROVE \A q \in Readers : Copying(q)'
  BY <1>17 DEF TemporaryLost, Used
<1>18. ASSUME NEW w \in Writers, WriterCrash(w) PROVE \A q \in Readers : Copying(q)'
  BY <1>18 DEF WriterCrash
<1>19. ASSUME NEW r \in Readers, OpenGeneration(r) PROVE \A q \in Readers : Copying(q)'
  <2> TAKE q \in Readers
  <2>1. CASE q # r
    <3>1. /\ rpc'[q] = rpc[q] /\ pin'[q] = pin[q] /\ seen'[q] = seen[q]
          /\ copied'[q] = copied[q] /\ UNCHANGED version
      BY <1>19, <2>1 DEF OpenGeneration
    <3> QED
      BY <3>1
  <2>2. CASE q = r
    <3>1. /\ rpc[r] = "idle" /\ rpc' = [rpc EXCEPT ![r] = IF final = NoInode THEN "miss" ELSE "opened"]
          /\ pin' = [pin EXCEPT ![r] = final] /\ UNCHANGED <<version, seen, copied>>
      BY <1>19 DEF OpenGeneration
    <3> QED
      BY <2>2, <3>1
  <2> QED
    BY <2>1, <2>2
<1>20. ASSUME NEW r \in Readers, ReadMetadata(r) PROVE \A q \in Readers : Copying(q)'
  <2> TAKE q \in Readers
  <2>1. CASE q # r
    <3>1. /\ rpc'[q] = rpc[q] /\ pin'[q] = pin[q] /\ seen'[q] = seen[q]
          /\ copied'[q] = copied[q] /\ UNCHANGED version
      <4>1. CASE Complete(pin[r])
        BY <1>20, <2>1, <4>1 DEF ReadMetadata
      <4>2. CASE ~Complete(pin[r])
        BY <1>20, <2>1, <4>2 DEF ReadMetadata
      <4> QED
        BY <4>1, <4>2
    <3> QED
      BY <3>1
  <2>2. CASE q = r
    <3>1. CASE Complete(pin[r])
      <4>1. pin[r] \in Inodes /\ version[pin[r]] > 0
        <5>1. 0 \in files[pin[r]] /\ pin[r] \in Inodes
          BY <3>1 DEF Complete
        <5> QED
          BY <5>1
      <4>2. /\ rpc[r] = "opened" /\ rpc' = [rpc EXCEPT ![r] = "read"]
            /\ seen' = [seen EXCEPT ![r] = [inode |-> pin[r], version |-> version[pin[r]]]]
            /\ UNCHANGED <<pin, version, copied>>
        BY <1>20, <3>1 DEF ReadMetadata
      <4> QED
        BY <2>2, <4>1, <4>2
    <3>2. CASE ~Complete(pin[r])
      <4>1. rpc' = [rpc EXCEPT ![r] = "miss"]
        BY <1>20, <3>2 DEF ReadMetadata
      <4> QED
        BY <2>2, <4>1
    <3> QED
      BY <3>1, <3>2
  <2> QED
    BY <2>1, <2>2
<1>21. ASSUME NEW r \in Readers, CheckBinding(r) PROVE \A q \in Readers : Copying(q)'
  <2> TAKE q \in Readers
  <2>1. CASE q # r
    <3>1. /\ rpc'[q] = rpc[q] /\ pin'[q] = pin[q] /\ seen'[q] = seen[q]
          /\ copied'[q] = copied[q] /\ UNCHANGED version
      BY <1>21, <2>1 DEF CheckBinding
    <3> QED
      BY <3>1
  <2>2. CASE q = r
    <3>1. /\ rpc[r] = "read" /\ UNCHANGED <<version, seen, copied>>
          /\ rpc' = [rpc EXCEPT ![r] = IF final = pin[r] THEN "inspected" ELSE "miss"]
      BY <1>21 DEF CheckBinding
    <3> QED
      BY <2>2, <3>1
  <2> QED
    BY <2>1, <2>2
<1>22. ASSUME NEW r \in Readers, Reopen(r) PROVE \A q \in Readers : Copying(q)'
  <2> TAKE q \in Readers
  <2>1. CASE q # r
    <3>1. /\ rpc'[q] = rpc[q] /\ pin'[q] = pin[q] /\ seen'[q] = seen[q]
          /\ copied'[q] = copied[q] /\ UNCHANGED version
      <4>1. CASE final # NoInode /\ final = seen[r].inode
        BY <1>22, <2>1, <4>1 DEF Reopen
      <4>2. CASE ~(final # NoInode /\ final = seen[r].inode)
        BY <1>22, <2>1, <4>2 DEF Reopen
      <4> QED
        BY <4>1, <4>2
    <3> QED
      BY <3>1
  <2>2. CASE q = r
    <3>1. CASE final # NoInode /\ final = seen[r].inode
      <4>1. /\ rpc[r] = "inspected" /\ rpc' = [rpc EXCEPT ![r] = "copying"]
            /\ pin' = [pin EXCEPT ![r] = final] /\ UNCHANGED <<version, seen, copied>>
        BY <1>22, <3>1 DEF Reopen
      <4> QED
        BY <2>2, <3>1, <4>1
    <3>2. CASE ~(final # NoInode /\ final = seen[r].inode)
      <4>1. rpc' = [rpc EXCEPT ![r] = "miss"]
        BY <1>22, <3>2 DEF Reopen
      <4> QED
        BY <2>2, <4>1
    <3> QED
      BY <3>1, <3>2
  <2> QED
    BY <2>1, <2>2
<1>23. ASSUME NEW r \in Readers, CopyImage(r) PROVE \A q \in Readers : Copying(q)'
  <2> TAKE q \in Readers
  <2>1. CASE q # r
    <3>1. /\ rpc'[q] = rpc[q] /\ pin'[q] = pin[q] /\ seen'[q] = seen[q]
          /\ copied'[q] = copied[q] /\ UNCHANGED version
      <4> DEFINE k == CHOOSE n \in Todo(r) : \A m \in Todo(r) : n <= m
                 verified == k \in files[pin[r]] /\ version[pin[r]] = seen[r].version
      <4>1. CASE verified
        BY <1>23, <2>1, <4>1 DEF CopyImage
      <4>2. CASE ~verified
        BY <1>23, <2>1, <4>2 DEF CopyImage
      <4> QED
        BY <4>1, <4>2
    <3> QED
      BY <3>1
  <2>2. CASE q = r
    <3> DEFINE k == CHOOSE n \in Todo(r) : \A m \in Todo(r) : n <= m
               verified == k \in files[pin[r]] /\ version[pin[r]] = seen[r].version
    <3>1. CASE verified
      <4>1. /\ rpc[r] = "copying" /\ version[pin[r]] = seen[r].version
            /\ copied' = [copied EXCEPT ![r][k] = seen[r].version]
            /\ UNCHANGED <<rpc, pin, version, seen>>
        BY <1>23, <3>1 DEF CopyImage
      <4> HIDE DEF k
      <4>2. \A m \in Images : copied'[r][m] \in {copied[r][m], seen[r].version}
        BY <4>1
      <4> QED
        BY <2>2, <4>1, <4>2
    <3>2. CASE ~verified
      <4>1. rpc' = [rpc EXCEPT ![r] = "rollback"]
        BY <1>23, <3>2 DEF CopyImage
      <4> QED
        BY <2>2, <4>1
    <3> QED
      BY <3>1, <3>2
  <2> QED
    BY <2>1, <2>2
<1>24. ASSUME NEW r \in Readers, ConfirmBinding(r) PROVE \A q \in Readers : Copying(q)'
  <2> TAKE q \in Readers
  <2>1. CASE q # r
    <3>1. /\ rpc'[q] = rpc[q] /\ pin'[q] = pin[q] /\ seen'[q] = seen[q]
          /\ copied'[q] = copied[q] /\ UNCHANGED version
      BY <1>24, <2>1 DEF ConfirmBinding
    <3> QED
      BY <3>1
  <2>2. CASE q = r
    <3>1. /\ rpc[r] = "copying" /\ Todo(r) = {} /\ UNCHANGED <<version, seen, copied>>
          /\ rpc' = [rpc EXCEPT ![r] = IF final = pin[r] THEN "hit" ELSE "rollback"]
      BY <1>24 DEF ConfirmBinding
    <3> QED
      BY <2>2, <3>1
  <2> QED
    BY <2>1, <2>2
<1>25. ASSUME NEW r \in Readers, RollBack(r) PROVE \A q \in Readers : Copying(q)'
  BY <1>25 DEF RollBack
<1>26. ASSUME NEW r \in Readers, ReaderFails(r) PROVE \A q \in Readers : Copying(q)'
  BY <1>26 DEF ReaderFails
<1>27. ASSUME PowerLoss PROVE \A q \in Readers : Copying(q)'
  BY <1>27 DEF PowerLoss
<1>28. CASE UNCHANGED vars
  BY <1>28 DEF vars
<1> QED
  BY <1>1, <1>2, <1>3, <1>4, <1>5, <1>6, <1>7, <1>8, <1>9, <1>10, <1>11, <1>12, <1>13, <1>14, <1>15, <1>16, <1>17, <1>18, <1>19, <1>20, <1>21, <1>22, <1>23, <1>24, <1>25, <1>26, <1>27, <1>28
     DEF Next, WriterProgress, ReaderProgress, Terminated

(* A step keeps what a writer has under its staging name. *)
LEMMA StagingStep == IInv /\ [Next]_vars => \A v \in Writers : Staging(v)'
<1> SUFFICES ASSUME IInv, [Next]_vars PROVE \A v \in Writers : Staging(v)'
  OBVIOUS
<1> USE DEF IInv, TypeOK, Staging, Ordered, LockDiscipline, NothingLeftBehind
<1>1. ASSUME NEW w \in Writers, Lock(w) PROVE \A v \in Writers : Staging(v)'
  BY <1>1 DEF Lock
<1>2. ASSUME NEW w \in Writers, KeepExisting(w) PROVE \A v \in Writers : Staging(v)'
  BY <1>2 DEF KeepExisting
<1>3. ASSUME NEW w \in Writers, FindExisting(w) PROVE \A v \in Writers : Staging(v)'
  BY <1>3 DEF FindExisting
<1>4. ASSUME NEW w \in Writers, MakeTemporary(w) PROVE \A v \in Writers : Staging(v)'
  <2>1. PICK i \in Inodes \ Used :
          /\ temp' = [temp EXCEPT ![w] = i] /\ new' = [new EXCEPT ![w] = i]
          /\ files' = [files EXCEPT ![i] = {}]
          /\ version' = [version EXCEPT ![i] = clock + 1]
          /\ wpc[w] = "making" /\ wpc' = [wpc EXCEPT ![w] = "filling"]
          /\ clock' = clock + 1 /\ UNCHANGED <<final, durable, debris, old>>
    BY <1>4 DEF MakeTemporary
  <2>5. i \in Inodes /\ i \notin durable \cup debris \cup {final}
    BY DEF Used
  <2>2. wpc[w] \in InLock
    BY <2>1
  <2> TAKE v \in Writers
  <2>3. CASE v # w
    <3>1. wpc[v] \notin InLock /\ temp[v] = NoInode
      BY <2>2, <2>3, Alone
    <3> QED
      BY <2>1, <2>3, <3>1
  <2>4. CASE v = w
    BY <2>1, <2>4, <2>5
  <2> QED
    BY <2>3, <2>4
<1>5. ASSUME NEW w \in Writers, WriteImages(w) PROVE \A v \in Writers : Staging(v)'
  <2>1. /\ wpc[w] = "filling" /\ wpc' = [wpc EXCEPT ![w] = "describing"]
        /\ files' = [files EXCEPT ![new[w]] = Images]
        /\ UNCHANGED <<final, durable, version, debris, clock, temp, old, new>>
    BY <1>5 DEF WriteImages
  <2>2. wpc[w] \in InLock
    BY <2>1
  <2> TAKE v \in Writers
  <2>3. CASE v # w
    <3>1. wpc[v] \notin InLock /\ temp[v] = NoInode
      BY <2>2, <2>3, Alone
    <3> QED
      BY <2>1, <2>3, <3>1
  <2>4. CASE v = w
    BY <2>1, <2>4
  <2> QED
    BY <2>3, <2>4
<1>6. ASSUME NEW w \in Writers, WriteResult(w) PROVE \A v \in Writers : Staging(v)'
  <2>1. /\ wpc[w] = "describing" /\ wpc' = [wpc EXCEPT ![w] = "flushing"]
        /\ files' = [files EXCEPT ![new[w]] = files[new[w]] \cup {0}]
        /\ UNCHANGED <<final, durable, version, debris, clock, temp, old, new>>
    BY <1>6 DEF WriteResult
  <2>2. wpc[w] \in InLock
    BY <2>1
  <2> TAKE v \in Writers
  <2>3. CASE v # w
    <3>1. wpc[v] \notin InLock /\ temp[v] = NoInode
      BY <2>2, <2>3, Alone
    <3> QED
      BY <2>1, <2>3, <3>1
  <2>4. CASE v = w
    <3>1. files[new[w]] = Images /\ new[w] \in Inodes
      BY <2>1
    <3>2. Images \cup {0} = Files
      OBVIOUS
    <3>3. files'[new[w]] = Files
      BY <2>1, <3>1, <3>2
    <3> QED
      BY <2>1, <2>4, <3>3
  <2> QED
    BY <2>3, <2>4
<1>7. ASSUME NEW w \in Writers, FlushAndSeal(w) PROVE \A v \in Writers : Staging(v)'
  BY <1>7 DEF FlushAndSeal
<1>8. ASSUME NEW w \in Writers, PublishFirst(w) PROVE \A v \in Writers : Staging(v)'
  <2>1. PICK p \in {"revalidating", "failed"} :
          /\ wpc[w] = "publishing" /\ wpc' = [wpc EXCEPT ![w] = p]
          /\ final' = temp[w] /\ temp' = [temp EXCEPT ![w] = NoInode]
          /\ durable' = durable \cup {temp[w]}
          /\ UNCHANGED <<files, version, flushed, debris, clock, old, new>>
    <3>1. PICK p \in {"revalidating", "failed"} :
            wpc[w] = "publishing" /\ wpc' = [wpc EXCEPT ![w] = p]
      BY <1>8, PublishFirstMoves
    <3>2. /\ final' = temp[w] /\ temp' = [temp EXCEPT ![w] = NoInode]
          /\ durable' = durable \cup {temp[w]}
          /\ UNCHANGED <<files, version, flushed, debris, clock, old, new>>
      BY <1>8 DEF PublishFirst
    <3> QED
      BY <3>1, <3>2
  <2>2. wpc[w] \in InLock
    BY <2>1
  <2> TAKE v \in Writers
  <2>3. CASE v # w
    <3>1. wpc[v] \notin InLock /\ temp[v] = NoInode
      BY <2>2, <2>3, Alone
    <3> QED
      BY <2>1, <2>3, <3>1
  <2>4. CASE v = w
    BY <2>1, <2>4
  <2> QED
    BY <2>3, <2>4
<1>9. ASSUME NEW w \in Writers, OpenPredecessor(w) PROVE \A v \in Writers : Staging(v)'
  BY <1>9 DEF OpenPredecessor
<1>10. ASSUME NEW w \in Writers, Exchange(w) PROVE \A v \in Writers : Staging(v)'
  <2>1. PICK p \in {"exchanged", "interrupted"} :
          /\ wpc[w] = "opened" /\ wpc' = [wpc EXCEPT ![w] = p]
          /\ p = "interrupted" => TornExchange
          /\ final' = temp[w] /\ temp' = [temp EXCEPT ![w] = final]
          /\ durable' = durable \cup {temp[w]}
          /\ UNCHANGED <<files, version, flushed, debris, clock, old, new>>
    <3>1. PICK p \in {"exchanged", "interrupted"} :
            /\ wpc[w] = "opened" /\ wpc' = [wpc EXCEPT ![w] = p]
            /\ p = "interrupted" => TornExchange
      BY <1>10, ExchangeMoves DEF TornExchange
    <3>2. /\ final' = temp[w] /\ temp' = [temp EXCEPT ![w] = final]
          /\ durable' = durable \cup {temp[w]}
          /\ UNCHANGED <<files, version, flushed, debris, clock, old, new>>
      BY <1>10 DEF Exchange
    <3> QED
      BY <3>1, <3>2
  <2>2. wpc[w] \in InLock
    BY <2>1
  <2> TAKE v \in Writers
  <2>3. CASE v # w
    <3>1. wpc[v] \notin InLock /\ temp[v] = NoInode
      BY <2>2, <2>3, Alone
    <3> QED
      BY <2>1, <2>3, <3>1
  <2>4. CASE v = w
    BY <2>1, <2>4
  <2> QED
    BY <2>3, <2>4
<1>11. ASSUME NEW w \in Writers, SyncExchange(w) PROVE \A v \in Writers : Staging(v)'
  BY <1>11 DEF SyncExchange
<1>12. ASSUME NEW w \in Writers, Reconsider(w) PROVE \A v \in Writers : Staging(v)'
  BY <1>12 DEF Reconsider
<1>13. ASSUME NEW w \in Writers, RemoveEntry(w) PROVE \A v \in Writers : Staging(v)'
  BY <1>13 DEF RemoveEntry
<1>14. ASSUME NEW w \in Writers, RemoveTemporary(w) PROVE \A v \in Writers : Staging(v)'
  BY <1>14 DEF RemoveTemporary
<1>15. ASSUME NEW w \in Writers, Revalidate(w) PROVE \A v \in Writers : Staging(v)'
  BY <1>15 DEF Revalidate
<1>16. ASSUME NEW w \in Writers, WriterFails(w) PROVE \A v \in Writers : Staging(v)'
  BY <1>16 DEF WriterFails, TornExchange
<1>17. ASSUME NEW w \in Writers, TemporaryLost(w) PROVE \A v \in Writers : Staging(v)'
  BY <1>17 DEF TemporaryLost, Used
<1>18. ASSUME NEW w \in Writers, WriterCrash(w) PROVE \A v \in Writers : Staging(v)'
  BY <1>18 DEF WriterCrash
<1>19. ASSUME NEW r \in Readers, ReaderProgress(r) \/ ReaderFails(r) PROVE \A v \in Writers : Staging(v)'
  BY <1>19 DEF ReaderProgress, ReaderFails, OpenGeneration, ReadMetadata, CheckBinding, Reopen, CopyImage, ConfirmBinding, RollBack
<1>20. ASSUME PowerLoss PROVE \A v \in Writers : Staging(v)'
  BY <1>20 DEF PowerLoss
<1>21. CASE UNCHANGED vars
  BY <1>21 DEF vars
<1> QED
  BY <1>1, <1>2, <1>3, <1>4, <1>5, <1>6, <1>7, <1>8, <1>9, <1>10, <1>11, <1>12, <1>13, <1>14, <1>15, <1>16, <1>17, <1>18, <1>19, <1>20, <1>21
     DEF Next, WriterProgress, ReaderProgress, Terminated


-----------------------------------------------------------------------------
LEMMA Initial == Init => IInv
<1> SUFFICES ASSUME Init PROVE IInv
  OBVIOUS
<1>1. TypeOK
  BY DEF Init, TypeOK
<1>2. LockDiscipline /\ NothingLeftBehind
  BY DEF Init, LockDiscipline, NothingLeftBehind
<1>3. Ordered /\ Lasting
  BY DEF Init, Ordered, Lasting
<1>4. \A w \in Writers : Staging(w)
  BY DEF Init, Staging
<1>5. \A r \in Readers : Copying(r)
  BY DEF Init, Copying, Todo
<1> QED
  BY <1>1, <1>2, <1>3, <1>4, <1>5 DEF IInv

(* The invariant the properties below rest on: one writer inside the lock,   *)
(* what it has under its staging name, what a reader knows of the directory  *)
(* it holds open, and what a power loss may bring back.                      *)
THEOREM Invariance == Spec => []IInv
<1>1. IInv /\ [Next]_vars => IInv'
  <2> SUFFICES ASSUME IInv, [Next]_vars PROVE IInv'
    OBVIOUS
  <2>1. TypeOK' /\ LockDiscipline' /\ NothingLeftBehind' /\ Ordered' /\ Lasting'
    BY Typing, LockStep, TidyStep, OrderStep, LastingStep
  <2>2. (\A w \in Writers : Staging(w)') /\ (\A r \in Readers : Copying(r)')
    BY StagingStep, CopyingStep
  <2> QED
    BY <2>1, <2>2 DEF IInv
<1> QED
  BY <1>1, Initial, PTL DEF Spec

(* Every variable holds a value of the kind the code gives it.               *)
THEOREM TypeCorrect == Spec => []TypeOK
<1>1. IInv => TypeOK
  BY DEF IInv
<1> QED
  BY <1>1, Invariance, PTL

(* The flock is held by the store inside the block and by nobody else,       *)
(* whichever way the block is left.                                          *)
THEOREM LockIsReleased == Spec => []LockDiscipline
<1>1. IInv => LockDiscipline
  BY DEF IInv
<1> QED
  BY <1>1, Invariance, PTL

(* A materialization that succeeds hands out the result and the images of    *)
(* one store, whatever is replaced or emptied while it reads.                *)
THEOREM HitsStayWhole == Spec => []HitIsOneGeneration
<1>1. IInv => HitIsOneGeneration
  BY DEF IInv, Copying, HitIsOneGeneration
<1> QED
  BY <1>1, Invariance, PTL

(* The name of a generation never shows a partial directory, but for a       *)
(* machine that stops while an exchange is not known to be durable.          *)
THEOREM FinalStaysComplete == Spec => []FinalIsComplete
<1>1. IInv => FinalIsComplete
  BY DEF IInv, Lasting, TornExchange, Sound, FinalIsComplete
<1> QED
  BY <1>1, Invariance, PTL

(* A store that returned or raised has no staging name any more.             *)
THEOREM StoresLeaveNothing == Spec => []NothingLeftBehind
<1>1. IInv => NothingLeftBehind
  BY DEF IInv
<1> QED
  BY <1>1, Invariance, PTL

-----------------------------------------------------------------------------
(* A refresh leaves no moment without a generation, and no store is ever     *)
(* displaced by an earlier one.                                              *)
THEOREM GenerationsAdvance == Spec => NoGapNoReturn
<1>1. IInv /\ [Next]_vars =>
        [\/ PowerLoss
         \/ final # NoInode => final' # NoInode /\ version'[final'] >= version[final]]_vars
  <2> SUFFICES ASSUME IInv, [Next]_vars, ~PowerLoss, final # NoInode
               PROVE  final' # NoInode /\ version'[final'] >= version[final]
    OBVIOUS
  <2>1. final \in Inodes /\ version[final] \in Nat /\ clock \in Nat
    BY DEF IInv, TypeOK
  <2> QED
    BY <2>1, FinalMoves
<1> QED
  BY <1>1, Invariance, PTL DEF Spec, NoGapNoReturn

-----------------------------------------------------------------------------
(* The register: what the final name shows, and what each reader got.        *)
Current == IF final = NoInode THEN 0 ELSE version[final]
Answer(r) == CASE rpc[r] = "hit" -> seen[r].version
               [] rpc[r] \in ReaderDone \ {"hit"} -> 0
               [] OTHER -> -1

(* A reader is answered once: with a miss, or with what the final name shows *)
(* at the moment it confirms the binding.                                    *)
LEMMA ReaderAnswers ==
    ASSUME IInv, ImageCount > 0, NEW r \in Readers, ReaderProgress(r) \/ ReaderFails(r)
    PROVE  /\ UNCHANGED <<final, version>>
           /\ \A q \in Readers \ {r} : Answer(q)' = Answer(q)
           /\ \/ Answer(r)' = Answer(r)
              \/ Answer(r) = -1 /\ Answer(r)' = 0
              \/ Answer(r) = -1 /\ Answer(r)' = Current /\ Current # 0
<1> USE DEF IInv, TypeOK, Answer
<1>1. UNCHANGED <<final, version>>
  BY DEF ReaderProgress, ReaderFails, OpenGeneration, ReadMetadata, CheckBinding,
     Reopen, CopyImage, ConfirmBinding, RollBack
<1>2. \A q \in Readers \ {r} : rpc'[q] = rpc[q] /\ seen'[q] = seen[q]
  <2>1. CASE ReadMetadata(r)
    <3>1. CASE Complete(pin[r])
      BY <2>1, <3>1 DEF ReadMetadata
    <3>2. CASE ~Complete(pin[r])
      BY <2>1, <3>2 DEF ReadMetadata
    <3> QED
      BY <3>1, <3>2
  <2>2. CASE ReaderFails(r)
    BY <2>2 DEF ReaderFails
  <2>3. CASE Reopen(r)
    <3>1. CASE final # NoInode /\ final = seen[r].inode
      BY <2>3, <3>1 DEF Reopen
    <3>2. CASE ~(final # NoInode /\ final = seen[r].inode)
      BY <2>3, <3>2 DEF Reopen
    <3> QED
      BY <3>1, <3>2
  <2>4. CASE CopyImage(r)
    <3> DEFINE k == CHOOSE n \in Todo(r) : \A m \in Todo(r) : n <= m
               verified == k \in files[pin[r]] /\ version[pin[r]] = seen[r].version
    <3>1. CASE verified
      BY <2>4, <3>1 DEF CopyImage
    <3>2. CASE ~verified
      BY <2>4, <3>2 DEF CopyImage
    <3> QED
      BY <3>1, <3>2
  <2> QED
    BY <2>1, <2>2, <2>3, <2>4
       DEF ReaderProgress, OpenGeneration, CheckBinding, ConfirmBinding, RollBack
<1>3. CASE ConfirmBinding(r)
  <2>1. /\ rpc[r] = "copying" /\ Todo(r) = {} /\ UNCHANGED seen
        /\ rpc' = [rpc EXCEPT ![r] = IF final = pin[r] THEN "hit" ELSE "rollback"]
    BY <1>3 DEF ConfirmBinding
  <2>2. Todo(r) # Images
    <3>1. 1 \in Images
      OBVIOUS
    <3> QED
      BY <2>1, <3>1
  <2>3. /\ pin[r] \in Inodes /\ version[pin[r]] = seen[r].version
        /\ seen[r].version > 0
    BY <2>1, <2>2 DEF Copying
  <2>4. CASE final = pin[r]
    <3>1. Answer(r) = -1 /\ Answer(r)' = seen[r].version
      BY <2>1, <2>4
    <3>2. Current = seen[r].version
      BY <2>3, <2>4 DEF Current
    <3> QED
      BY <1>1, <1>2, <2>3, <3>1, <3>2
  <2>5. CASE final # pin[r]
    <3>1. Answer(r)' = Answer(r)
      BY <2>1, <2>5
    <3> QED
      BY <1>1, <1>2, <3>1
  <2> QED
    BY <2>4, <2>5
<1>4. ASSUME ~ConfirmBinding(r) PROVE rpc[r] \notin ReaderDone /\ rpc'[r] # "hit"
  <2>1. CASE OpenGeneration(r)
    BY <2>1 DEF OpenGeneration
  <2>2. CASE ReadMetadata(r)
    <3>1. rpc[r] = "opened" /\ \E p \in {"read", "miss"} : rpc' = [rpc EXCEPT ![r] = p]
      BY <2>2 DEF ReadMetadata
    <3> QED
      BY <3>1
  <2>3. CASE CheckBinding(r)
    BY <2>3 DEF CheckBinding
  <2>4. CASE Reopen(r)
    <3>1. rpc[r] = "inspected" /\ \E p \in {"copying", "miss"} : rpc' = [rpc EXCEPT ![r] = p]
      BY <2>4 DEF Reopen
    <3> QED
      BY <3>1
  <2>5. CASE CopyImage(r)
    <3>1. /\ rpc[r] = "copying"
          /\ UNCHANGED rpc \/ rpc' = [rpc EXCEPT ![r] = "rollback"]
      BY <2>5 DEF CopyImage
    <3> QED
      BY <3>1
  <2>6. CASE RollBack(r)
    BY <2>6 DEF RollBack
  <2>7. CASE ReaderFails(r)
    BY <2>7 DEF ReaderFails
  <2> QED
    BY <1>4, <2>1, <2>2, <2>3, <2>4, <2>5, <2>6, <2>7 DEF ReaderProgress
<1>5. CASE ~ConfirmBinding(r)
  <2>1. rpc'[r] \in ReaderPoints /\ Answer(r) = -1 /\ Answer(r)' \in {0, -1}
    <3>1. rpc'[r] \in ReaderPoints
      BY Typing DEF Next
    <3> QED
      BY <1>4, <1>5, <3>1
  <2> QED
    BY <1>1, <1>2, <2>1
<1> QED
  BY <1>3, <1>5

(* Every step is a step of the register or none.                             *)
LEMMA RegisterStep ==
    ASSUME IInv, ImageCount > 0, [Next]_vars
    PROVE  [Register!Next]_(Register!vars)
<1> DEFINE answers == [r \in Readers |-> Answer(r)]
<1>1. IInv'
  BY Typing, LockStep, TidyStep, OrderStep, LastingStep, StagingStep, CopyingStep DEF IInv
<1>2. Current \in Nat /\ Current' \in Nat
  BY <1>1 DEF IInv, TypeOK, Current
<1>3. CASE PowerLoss
  <2>1. PICK f \in durable : final' = f
    BY <1>3 DEF PowerLoss
  <2>2. UNCHANGED <<version, seen>>
    BY <1>3 DEF PowerLoss
  <2>3. Current' \in 0 .. Current
    BY <1>2, <2>1, <2>2 DEF IInv, TypeOK, Ordered, Current
  <2> DEFINE lost == {r \in Readers : rpc[r] \notin ReaderDone \cup {"idle"}}
  <2>4. \A r \in Readers : /\ r \in lost => Answer(r) = -1
                           /\ Answer(r)' = IF r \in lost THEN 0 ELSE Answer(r)
    BY <1>3, <2>2 DEF PowerLoss, IInv, TypeOK, Answer
  <2>5. answers' = [r \in Readers |-> IF r \in lost THEN 0 ELSE answers[r]]
    BY <2>4
  <2>6. lost \in SUBSET {r \in Readers : answers[r] = -1}
    BY <2>4
  <2>7. Register!PowerLoss
    BY <2>3, <2>5, <2>6 DEF Register!PowerLoss, Register!Pending, Register!Miss, Answer, Current
  <2> QED
    BY <2>7 DEF Register!Next
<1>4. ASSUME NEW r \in Readers, ReaderProgress(r) \/ ReaderFails(r)
      PROVE  [Register!Next]_(Register!vars)
  <2>1. Current' = Current
    BY <1>4, ReaderAnswers DEF Current
  <2>2. CASE Answer(r)' = Answer(r)
    <3>1. answers' = answers
      BY <1>4, <2>2, ReaderAnswers
    <3> QED
      BY <2>1, <3>1 DEF Register!vars, Answer, Current
  <2>3. ASSUME Answer(r) = -1, NEW v, Answer(r)' = v
        PROVE  answers[r] = -1 /\ answers' = [answers EXCEPT ![r] = v]
    BY <1>4, <2>3, ReaderAnswers
  <2>4. CASE Answer(r) = -1 /\ Answer(r)' = 0
    <3>1. Register!Fail(r)
      BY <2>1, <2>3, <2>4
         DEF Register!Fail, Register!Pending, Register!Miss, Answer, Current
    <3> QED
      BY <3>1 DEF Register!Next
  <2>5. CASE Answer(r) = -1 /\ Answer(r)' = Current /\ Current # 0
    <3>1. Register!Hit(r)
      BY <2>1, <2>3, <2>5 DEF Register!Hit, Register!Pending, Answer, Current
    <3> QED
      BY <3>1 DEF Register!Next
  <2> QED
    BY <1>4, <2>2, <2>4, <2>5, ReaderAnswers
<1>5. ASSUME UNCHANGED reading, ~PowerLoss
      PROVE  [Register!Next]_(Register!vars)
  <2>1. answers' = answers
    BY <1>5 DEF Answer
  <2>2. Current' = Current \/ Current' > Current
    BY <1>2, <1>5, FinalMoves DEF IInv, TypeOK, Current
  <2>3. CASE Current' = Current
    BY <2>1, <2>3 DEF Register!vars, Answer, Current
  <2>4. CASE Current' > Current
    <3>1. Register!Put
      BY <1>2, <2>1, <2>4 DEF Register!Put, Answer, Current
    <3> QED
      BY <3>1 DEF Register!Next
  <2> QED
    BY <2>2, <2>3, <2>4
<1>6. ASSUME NEW w \in Writers,
             WriterProgress(w) \/ WriterFails(w) \/ TemporaryLost(w) \/ WriterCrash(w)
      PROVE  UNCHANGED reading
  BY <1>6 DEF WriterProgress, Lock, KeepExisting, FindExisting, MakeTemporary, WriteImages,
     WriteResult, FlushAndSeal, PublishFirst, OpenPredecessor, Exchange, SyncExchange,
     Reconsider, RemoveEntry, RemoveTemporary, Revalidate, WriterFails, TemporaryLost,
     WriterCrash
<1>7. CASE UNCHANGED vars
  <2>1. UNCHANGED reading
    BY <1>7 DEF vars
  <2> QED
    BY <1>3, <1>5, <2>1
<1> QED
  BY <1>3, <1>4, <1>5, <1>6, <1>7 DEF Next, Terminated

(* The key of the cache is one register that moves forward in single steps:  *)
(* a store that publishes puts a newer version, a materialization answers    *)
(* with the version that is there when it confirms the binding.  A           *)
(* generation without images is left out: nothing but the inode number ties  *)
(* its result to the directory that is looked at last, so the answer is the  *)
(* version of an earlier moment of the lookup.                               *)
THEOREM Refinement == ASSUME ImageCount > 0 PROVE Spec => ImplementsRegister
<1>1. Init => Register!Init
  BY DEF Init, Register!Init, Register!Pending
<1>2. IInv /\ [Next]_vars => [Register!Next]_(Register!vars)
  BY RegisterStep
<1> QED
  BY <1>1, <1>2, Invariance, PTL DEF Spec, ImplementsRegister, Register!Spec

================================================================================
