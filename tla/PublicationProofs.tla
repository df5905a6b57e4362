-------------------------- MODULE PublicationProofs --------------------------
(* Proofs about Publication, for every set of builders and every bound.      *)
EXTENDS Publication, FiniteSetTheorems, TLAPS

USE NoTreeAssumption, BoundAssumption, FaultAssumption
   DEF names, tree, locks, Points, Before, Export, Finalize, Checks, Exposed,
       Undo, Clean, Done, Holding, Handler, Goto, Acquire, Release, Abort, GiveUp, Verify,
       MaybeTree

(* Every step keeps the type invariant. *)
LEMMA Typing == TypeOK /\ [Next]_vars => TypeOK'
<1> SUFFICES ASSUME TypeOK, [Next]_vars PROVE TypeOK'
  OBVIOUS
<1> USE DEF TypeOK
<1>1. ASSUME NEW b \in Builders, CheckFinal(b) PROVE TypeOK'
  BY <1>1 DEF CheckFinal
<1>2. ASSUME NEW b \in Builders, CreateLease(b) PROVE TypeOK'
  BY <1>2 DEF CreateLease
<1>3. ASSUME NEW b \in Builders, ExportBegin(b) PROVE TypeOK'
  BY <1>3 DEF ExportBegin
<1>4. ASSUME NEW b \in Builders, ExportWrite(b) PROVE TypeOK'
  BY <1>4 DEF ExportWrite
<1>5. ASSUME NEW b \in Builders, FinalizeBegin(b) PROVE TypeOK'
  BY <1>5 DEF FinalizeBegin
<1>6. ASSUME NEW b \in Builders, WriteManifest(b) PROVE TypeOK'
  BY <1>6 DEF WriteManifest
<1>7. ASSUME NEW b \in Builders, ValidateFinal(b) PROVE TypeOK'
  BY <1>7 DEF ValidateFinal
<1>8. ASSUME NEW b \in Builders, PublishBegin(b) PROVE TypeOK'
  BY <1>8 DEF PublishBegin
<1>9. ASSUME NEW b \in Builders, CheckDestination(b) PROVE TypeOK'
  BY <1>9 DEF CheckDestination
<1>10. ASSUME NEW b \in Builders, Seal(b) PROVE TypeOK'
  BY <1>10 DEF Seal
<1>11. ASSUME NEW b \in Builders, VerifySealed(b) PROVE TypeOK'
  BY <1>11 DEF VerifySealed, Authorised
<1>12. ASSUME NEW b \in Builders, Flush(b) PROVE TypeOK'
  BY <1>12 DEF Flush
<1>13. ASSUME NEW b \in Builders, VerifyFlushed(b) PROVE TypeOK'
  BY <1>13 DEF VerifyFlushed, Authorised
<1>14. ASSUME NEW b \in Builders, Rename(b) PROVE TypeOK'
  BY <1>14 DEF Rename
<1>15. ASSUME NEW b \in Builders, VerifyRenamed(b) PROVE TypeOK'
  BY <1>15 DEF VerifyRenamed, Authorised
<1>16. ASSUME NEW b \in Builders, SyncParent(b) PROVE TypeOK'
  BY <1>16 DEF SyncParent
<1>17. ASSUME NEW b \in Builders, RollbackLook(b) PROVE TypeOK'
  BY <1>17 DEF RollbackLook
<1>18. ASSUME NEW b \in Builders, Withdraw(b) PROVE TypeOK'
  <2>1. CASE final # NoTree
    <3>1. rejected' \in [Builders -> MaybeTree]
      BY <1>18, <2>1 DEF Withdraw
    <3> QED
      BY <1>18, <2>1, <3>1 DEF Withdraw
  <2>2. CASE final = NoTree
    BY <1>18, <2>2 DEF Withdraw
  <2> QED
    BY <2>1, <2>2
<1>19. ASSUME NEW b \in Builders, ConfirmOwn(b) PROVE TypeOK'
  BY <1>19 DEF ConfirmOwn
<1>20. ASSUME NEW b \in Builders, PutBack(b) PROVE TypeOK'
  BY <1>20 DEF PutBack
<1>21. ASSUME NEW b \in Builders, CleanupBegin(b) PROVE TypeOK'
  BY <1>21 DEF CleanupBegin
<1>22. ASSUME NEW b \in Builders, EmptyTree(b) PROVE TypeOK'
  BY <1>22 DEF EmptyTree
<1>23. ASSUME NEW b \in Builders, RemoveName(b) PROVE TypeOK'
  BY <1>23 DEF RemoveName
<1>24. ASSUME NEW b \in Builders, StepFails(b) PROVE TypeOK'
  BY <1>24 DEF StepFails
<1>25. ASSUME NEW b \in Builders, Crash(b) PROVE TypeOK'
  BY <1>25 DEF Crash
<1>26. ASSUME NEW b \in Builders, WriterOpen(b) PROVE TypeOK'
  BY <1>26 DEF WriterOpen
<1>27. ASSUME NEW b \in Builders, WriterEnter(b) PROVE TypeOK'
  BY <1>27 DEF WriterEnter
<1>28. ASSUME NEW b \in Builders, WriterEdit(b) PROVE TypeOK'
  BY <1>28 DEF WriterEdit
<1>29. ASSUME NEW b \in Builders, WriterLeave(b) PROVE TypeOK'
  BY <1>29 DEF WriterLeave
<1>30. ASSUME NEW b \in Builders, StrayEdit(b) PROVE TypeOK'
  BY <1>30 DEF StrayEdit
<1>31. ASSUME Retire PROVE TypeOK'
  BY <1>31 DEF Retire
<1>32. ASSUME PowerLoss PROVE TypeOK'
  BY <1>32 DEF PowerLoss
<1>34. ASSUME NEW b \in Builders, LeaseLost(b) PROVE TypeOK'
  BY <1>34 DEF LeaseLost
<1>33. CASE UNCHANGED vars
  BY <1>33 DEF vars
<1> QED
  BY <1>1, <1>2, <1>3, <1>4, <1>5, <1>6, <1>7, <1>8, <1>9, <1>10, <1>11,
     <1>12, <1>13, <1>14, <1>15, <1>16, <1>17, <1>18, <1>19, <1>20, <1>21,
     <1>22, <1>23, <1>24, <1>25, <1>26, <1>27, <1>28, <1>29, <1>30, <1>31,
     <1>32, <1>33, <1>34
     DEF Next, Progress, Terminated

(* A step leaves the guard with exactly those who are inside it. *)
LEMMA GuardStep == IInv /\ [Next]_vars => GuardDiscipline'
<1> SUFFICES ASSUME IInv, [Next]_vars PROVE GuardDiscipline'
  OBVIOUS
<1> USE DEF IInv, TypeOK, GuardDiscipline
<1>1. ASSUME NEW b \in Builders, CheckFinal(b) PROVE GuardDiscipline'
  BY <1>1 DEF CheckFinal
<1>2. ASSUME NEW b \in Builders, CreateLease(b) PROVE GuardDiscipline'
  BY <1>2 DEF CreateLease
<1>3. ASSUME NEW b \in Builders, ExportBegin(b) PROVE GuardDiscipline'
  BY <1>3 DEF ExportBegin
<1>4. ASSUME NEW b \in Builders, ExportWrite(b) PROVE GuardDiscipline'
  BY <1>4 DEF ExportWrite
<1>5. ASSUME NEW b \in Builders, FinalizeBegin(b) PROVE GuardDiscipline'
  BY <1>5 DEF FinalizeBegin
<1>6. ASSUME NEW b \in Builders, WriteManifest(b) PROVE GuardDiscipline'
  BY <1>6 DEF WriteManifest
<1>7. ASSUME NEW b \in Builders, ValidateFinal(b) PROVE GuardDiscipline'
  BY <1>7 DEF ValidateFinal
<1>8. ASSUME NEW b \in Builders, PublishBegin(b) PROVE GuardDiscipline'
  BY <1>8 DEF PublishBegin
<1>9. ASSUME NEW b \in Builders, CheckDestination(b) PROVE GuardDiscipline'
  BY <1>9 DEF CheckDestination
<1>10. ASSUME NEW b \in Builders, Seal(b) PROVE GuardDiscipline'
  BY <1>10 DEF Seal
<1>11. ASSUME NEW b \in Builders, VerifySealed(b) PROVE GuardDiscipline'
  BY <1>11 DEF VerifySealed, Authorised
<1>12. ASSUME NEW b \in Builders, Flush(b) PROVE GuardDiscipline'
  BY <1>12 DEF Flush
<1>13. ASSUME NEW b \in Builders, VerifyFlushed(b) PROVE GuardDiscipline'
  BY <1>13 DEF VerifyFlushed, Authorised
<1>14. ASSUME NEW b \in Builders, Rename(b) PROVE GuardDiscipline'
  BY <1>14 DEF Rename
<1>15. ASSUME NEW b \in Builders, VerifyRenamed(b) PROVE GuardDiscipline'
  BY <1>15 DEF VerifyRenamed, Authorised
<1>16. ASSUME NEW b \in Builders, SyncParent(b) PROVE GuardDiscipline'
  BY <1>16 DEF SyncParent
<1>17. ASSUME NEW b \in Builders, RollbackLook(b) PROVE GuardDiscipline'
  BY <1>17 DEF RollbackLook
<1>18. ASSUME NEW b \in Builders, Withdraw(b) PROVE GuardDiscipline'
  BY <1>18 DEF Withdraw
<1>19. ASSUME NEW b \in Builders, ConfirmOwn(b) PROVE GuardDiscipline'
  BY <1>19 DEF ConfirmOwn
<1>20. ASSUME NEW b \in Builders, PutBack(b) PROVE GuardDiscipline'
  BY <1>20 DEF PutBack
<1>21. ASSUME NEW b \in Builders, CleanupBegin(b) PROVE GuardDiscipline'
  BY <1>21 DEF CleanupBegin
<1>22. ASSUME NEW b \in Builders, EmptyTree(b) PROVE GuardDiscipline'
  BY <1>22 DEF EmptyTree
<1>23. ASSUME NEW b \in Builders, RemoveName(b) PROVE GuardDiscipline'
  BY <1>23 DEF RemoveName
<1>24. ASSUME NEW b \in Builders, StepFails(b) PROVE GuardDiscipline'
  BY <1>24 DEF StepFails
<1>25. ASSUME NEW b \in Builders, Crash(b) PROVE GuardDiscipline'
  BY <1>25 DEF Crash
<1>26. ASSUME NEW b \in Builders, WriterOpen(b) PROVE GuardDiscipline'
  BY <1>26 DEF WriterOpen
<1>27. ASSUME NEW b \in Builders, WriterEnter(b) PROVE GuardDiscipline'
  BY <1>27 DEF WriterEnter
<1>28. ASSUME NEW b \in Builders, WriterEdit(b) PROVE GuardDiscipline'
  BY <1>28 DEF WriterEdit
<1>29. ASSUME NEW b \in Builders, WriterLeave(b) PROVE GuardDiscipline'
  BY <1>29 DEF WriterLeave
<1>30. ASSUME NEW b \in Builders, StrayEdit(b) PROVE GuardDiscipline'
  BY <1>30 DEF StrayEdit
<1>31. ASSUME Retire PROVE GuardDiscipline'
  BY <1>31 DEF Retire
<1>32. ASSUME PowerLoss PROVE GuardDiscipline'
  BY <1>32 DEF PowerLoss
<1>34. ASSUME NEW b \in Builders, LeaseLost(b) PROVE GuardDiscipline'
  BY <1>34 DEF LeaseLost
<1>33. CASE UNCHANGED vars
  BY <1>33 DEF vars
<1> QED
  BY <1>1, <1>2, <1>3, <1>4, <1>5, <1>6, <1>7, <1>8, <1>9, <1>10, <1>11,
     <1>12, <1>13, <1>14, <1>15, <1>16, <1>17, <1>18, <1>19, <1>20, <1>21,
     <1>22, <1>23, <1>24, <1>25, <1>26, <1>27, <1>28, <1>29, <1>30, <1>31,
     <1>32, <1>33, <1>34
     DEF Next, Progress, Terminated

USE DEF FromRename, FromReady, FromSynced, FromSealed, FromAuthor

(* A step keeps the order of the authorised, flushed and current versions. *)
LEMMA VersionsStep == IInv /\ [Next]_vars => \A c \in Builders : Versions(c)'
<1> SUFFICES ASSUME IInv, [Next]_vars PROVE \A c \in Builders : Versions(c)'
  OBVIOUS
<1> USE DEF IInv, TypeOK, GuardDiscipline, Versions
<1>1. ASSUME NEW b \in Builders, CheckFinal(b) PROVE \A c \in Builders : Versions(c)'
  BY <1>1 DEF CheckFinal
<1>2. ASSUME NEW b \in Builders, CreateLease(b) PROVE \A c \in Builders : Versions(c)'
  BY <1>2 DEF CreateLease
<1>3. ASSUME NEW b \in Builders, ExportBegin(b) PROVE \A c \in Builders : Versions(c)'
  BY <1>3 DEF ExportBegin
<1>4. ASSUME NEW b \in Builders, ExportWrite(b) PROVE \A c \in Builders : Versions(c)'
  BY <1>4 DEF ExportWrite
<1>5. ASSUME NEW b \in Builders, FinalizeBegin(b) PROVE \A c \in Builders : Versions(c)'
  BY <1>5 DEF FinalizeBegin
<1>6. ASSUME NEW b \in Builders, WriteManifest(b) PROVE \A c \in Builders : Versions(c)'
  BY <1>6 DEF WriteManifest
<1>7. ASSUME NEW b \in Builders, ValidateFinal(b) PROVE \A c \in Builders : Versions(c)'
  BY <1>7 DEF ValidateFinal
<1>8. ASSUME NEW b \in Builders, PublishBegin(b) PROVE \A c \in Builders : Versions(c)'
  BY <1>8 DEF PublishBegin
<1>9. ASSUME NEW b \in Builders, CheckDestination(b) PROVE \A c \in Builders : Versions(c)'
  BY <1>9 DEF CheckDestination
<1>10. ASSUME NEW b \in Builders, Seal(b) PROVE \A c \in Builders : Versions(c)'
  BY <1>10 DEF Seal
<1>11. ASSUME NEW b \in Builders, VerifySealed(b) PROVE \A c \in Builders : Versions(c)'
  BY <1>11 DEF VerifySealed, Authorised
<1>12. ASSUME NEW b \in Builders, Flush(b) PROVE \A c \in Builders : Versions(c)'
  BY <1>12 DEF Flush
<1>13. ASSUME NEW b \in Builders, VerifyFlushed(b) PROVE \A c \in Builders : Versions(c)'
  BY <1>13 DEF VerifyFlushed, Authorised
<1>14. ASSUME NEW b \in Builders, Rename(b) PROVE \A c \in Builders : Versions(c)'
  BY <1>14 DEF Rename
<1>15. ASSUME NEW b \in Builders, VerifyRenamed(b) PROVE \A c \in Builders : Versions(c)'
  BY <1>15 DEF VerifyRenamed, Authorised
<1>16. ASSUME NEW b \in Builders, SyncParent(b) PROVE \A c \in Builders : Versions(c)'
  BY <1>16 DEF SyncParent
<1>17. ASSUME NEW b \in Builders, RollbackLook(b) PROVE \A c \in Builders : Versions(c)'
  BY <1>17 DEF RollbackLook
<1>18. ASSUME NEW b \in Builders, Withdraw(b) PROVE \A c \in Builders : Versions(c)'
  BY <1>18 DEF Withdraw
<1>19. ASSUME NEW b \in Builders, ConfirmOwn(b) PROVE \A c \in Builders : Versions(c)'
  BY <1>19 DEF ConfirmOwn
<1>20. ASSUME NEW b \in Builders, PutBack(b) PROVE \A c \in Builders : Versions(c)'
  BY <1>20 DEF PutBack
<1>21. ASSUME NEW b \in Builders, CleanupBegin(b) PROVE \A c \in Builders : Versions(c)'
  BY <1>21 DEF CleanupBegin
<1>22. ASSUME NEW b \in Builders, EmptyTree(b) PROVE \A c \in Builders : Versions(c)'
  BY <1>22 DEF EmptyTree
<1>23. ASSUME NEW b \in Builders, RemoveName(b) PROVE \A c \in Builders : Versions(c)'
  BY <1>23 DEF RemoveName
<1>24. ASSUME NEW b \in Builders, StepFails(b) PROVE \A c \in Builders : Versions(c)'
  BY <1>24 DEF StepFails
<1>25. ASSUME NEW b \in Builders, Crash(b) PROVE \A c \in Builders : Versions(c)'
  BY <1>25 DEF Crash
<1>26. ASSUME NEW b \in Builders, WriterOpen(b) PROVE \A c \in Builders : Versions(c)'
  BY <1>26 DEF WriterOpen
<1>27. ASSUME NEW b \in Builders, WriterEnter(b) PROVE \A c \in Builders : Versions(c)'
  BY <1>27 DEF WriterEnter
<1>28. ASSUME NEW b \in Builders, WriterEdit(b) PROVE \A c \in Builders : Versions(c)'
  BY <1>28 DEF WriterEdit
<1>29. ASSUME NEW b \in Builders, WriterLeave(b) PROVE \A c \in Builders : Versions(c)'
  BY <1>29 DEF WriterLeave
<1>30. ASSUME NEW b \in Builders, StrayEdit(b) PROVE \A c \in Builders : Versions(c)'
  BY <1>30 DEF StrayEdit
<1>31. ASSUME Retire PROVE \A c \in Builders : Versions(c)'
  BY <1>31 DEF Retire
<1>32. ASSUME PowerLoss PROVE \A c \in Builders : Versions(c)'
  BY <1>32 DEF PowerLoss
<1>34. ASSUME NEW b \in Builders, LeaseLost(b) PROVE \A c \in Builders : Versions(c)'
  BY <1>34 DEF LeaseLost
<1>33. CASE UNCHANGED vars
  BY <1>33 DEF vars
<1> QED
  BY <1>1, <1>2, <1>3, <1>4, <1>5, <1>6, <1>7, <1>8, <1>9, <1>10, <1>11,
     <1>12, <1>13, <1>14, <1>15, <1>16, <1>17, <1>18, <1>19, <1>20, <1>21,
     <1>22, <1>23, <1>24, <1>25, <1>26, <1>27, <1>28, <1>29, <1>30, <1>31,
     <1>32, <1>33, <1>34
     DEF Next, Progress, Terminated

(* A step binds the final name only to a tree that holds what was authorised. *)
LEMMA NamingStep == IInv /\ [Next]_vars => \A c \in Builders : Naming(c)'
<1> SUFFICES ASSUME IInv, [Next]_vars PROVE \A c \in Builders : Naming(c)'
  OBVIOUS
<1> USE DEF IInv, TypeOK, Versions, Naming, Named
<1>1. ASSUME NEW b \in Builders, CheckFinal(b) PROVE \A c \in Builders : Naming(c)'
  BY <1>1 DEF CheckFinal
<1>2. ASSUME NEW b \in Builders, CreateLease(b) PROVE \A c \in Builders : Naming(c)'
  BY <1>2 DEF CreateLease
<1>3. ASSUME NEW b \in Builders, ExportBegin(b) PROVE \A c \in Builders : Naming(c)'
  BY <1>3 DEF ExportBegin
<1>4. ASSUME NEW b \in Builders, ExportWrite(b) PROVE \A c \in Builders : Naming(c)'
  BY <1>4 DEF ExportWrite
<1>5. ASSUME NEW b \in Builders, FinalizeBegin(b) PROVE \A c \in Builders : Naming(c)'
  BY <1>5 DEF FinalizeBegin
<1>6. ASSUME NEW b \in Builders, WriteManifest(b) PROVE \A c \in Builders : Naming(c)'
  BY <1>6 DEF WriteManifest
<1>7. ASSUME NEW b \in Builders, ValidateFinal(b) PROVE \A c \in Builders : Naming(c)'
  BY <1>7 DEF ValidateFinal
<1>8. ASSUME NEW b \in Builders, PublishBegin(b) PROVE \A c \in Builders : Naming(c)'
  BY <1>8 DEF PublishBegin
<1>9. ASSUME NEW b \in Builders, CheckDestination(b) PROVE \A c \in Builders : Naming(c)'
  BY <1>9 DEF CheckDestination
<1>10. ASSUME NEW b \in Builders, Seal(b) PROVE \A c \in Builders : Naming(c)'
  BY <1>10 DEF Seal
<1>11. ASSUME NEW b \in Builders, VerifySealed(b) PROVE \A c \in Builders : Naming(c)'
  BY <1>11 DEF VerifySealed, Authorised
<1>12. ASSUME NEW b \in Builders, Flush(b) PROVE \A c \in Builders : Naming(c)'
  BY <1>12 DEF Flush
<1>13. ASSUME NEW b \in Builders, VerifyFlushed(b) PROVE \A c \in Builders : Naming(c)'
  BY <1>13 DEF VerifyFlushed, Authorised
<1>14. ASSUME NEW b \in Builders, Rename(b) PROVE \A c \in Builders : Naming(c)'
  BY <1>14 DEF Rename
<1>15. ASSUME NEW b \in Builders, VerifyRenamed(b) PROVE \A c \in Builders : Naming(c)'
  BY <1>15 DEF VerifyRenamed, Authorised
<1>16. ASSUME NEW b \in Builders, SyncParent(b) PROVE \A c \in Builders : Naming(c)'
  BY <1>16 DEF SyncParent
<1>17. ASSUME NEW b \in Builders, RollbackLook(b) PROVE \A c \in Builders : Naming(c)'
  BY <1>17 DEF RollbackLook
<1>18. ASSUME NEW b \in Builders, Withdraw(b) PROVE \A c \in Builders : Naming(c)'
  BY <1>18 DEF Withdraw
<1>19. ASSUME NEW b \in Builders, ConfirmOwn(b) PROVE \A c \in Builders : Naming(c)'
  BY <1>19 DEF ConfirmOwn
<1>20. ASSUME NEW b \in Builders, PutBack(b) PROVE \A c \in Builders : Naming(c)'
  BY <1>20 DEF PutBack
<1>21. ASSUME NEW b \in Builders, CleanupBegin(b) PROVE \A c \in Builders : Naming(c)'
  BY <1>21 DEF CleanupBegin
<1>22. ASSUME NEW b \in Builders, EmptyTree(b) PROVE \A c \in Builders : Naming(c)'
  BY <1>22 DEF EmptyTree
<1>23. ASSUME NEW b \in Builders, RemoveName(b) PROVE \A c \in Builders : Naming(c)'
  BY <1>23 DEF RemoveName
<1>24. ASSUME NEW b \in Builders, StepFails(b) PROVE \A c \in Builders : Naming(c)'
  BY <1>24 DEF StepFails
<1>25. ASSUME NEW b \in Builders, Crash(b) PROVE \A c \in Builders : Naming(c)'
  BY <1>25 DEF Crash
<1>26. ASSUME NEW b \in Builders, WriterOpen(b) PROVE \A c \in Builders : Naming(c)'
  BY <1>26 DEF WriterOpen
<1>27. ASSUME NEW b \in Builders, WriterEnter(b) PROVE \A c \in Builders : Naming(c)'
  BY <1>27 DEF WriterEnter
<1>28. ASSUME NEW b \in Builders, WriterEdit(b) PROVE \A c \in Builders : Naming(c)'
  BY <1>28 DEF WriterEdit
<1>29. ASSUME NEW b \in Builders, WriterLeave(b) PROVE \A c \in Builders : Naming(c)'
  BY <1>29 DEF WriterLeave
<1>30. ASSUME NEW b \in Builders, StrayEdit(b) PROVE \A c \in Builders : Naming(c)'
  BY <1>30 DEF StrayEdit
<1>31. ASSUME Retire PROVE \A c \in Builders : Naming(c)'
  BY <1>31 DEF Retire
<1>32. ASSUME PowerLoss PROVE \A c \in Builders : Naming(c)'
  <2>1. PICK f \in durable :
           /\ final' = f /\ durable' = {f}
           /\ staging' = (staging \cup ({final} \ {NoTree})) \ {f}
           /\ rejected' = [b \in Builders |->
                             IF rejected[b] = f THEN NoTree ELSE rejected[b]]
    BY <1>32 DEF PowerLoss
  <2>2. /\ pc' = [b \in Builders |->
                   IF pc[b] \in Done \cup {"idle"} THEN pc[b] ELSE "crashed"]
        /\ UNCHANGED <<flushed, sealed, manifest, expected, stray, rollbackLost>>
        /\ \A b \in Builders : bytes'[b] \in {bytes[b], flushed[b]}
    BY <1>32 DEF PowerLoss
  <2> TAKE c \in Builders
  <2>3. Named(c)' => Named(c)
    BY <2>1
  <2>4. Named(c)' => rollbackLost[c]' \/ pc[c]' \in FromRename \cup {"crashed"}
    BY <2>2, <2>3
  <2>5. Named(c)' /\ ~stray[c]' /\ ~rollbackLost[c]' =>
          /\ 0 < expected[c]' /\ sealed[c]'
          /\ bytes[c]' = expected[c]' /\ flushed[c]' = expected[c]'
    BY <2>2, <2>3
  <2>6. rollbackLost[c]' => pc[c]' \in Clean \cup {"failed", "uncleaned", "crashed"}
    BY <2>2
  <2>7. rejected[c]' = c => pc[c]' \in {"withdrawn"} \cup Clean \cup Done
    BY <2>1, <2>2
  <2>8. final = c => Named(c)
    OBVIOUS
  <2>9. /\ pc[c]' \in {"idle", "evidence", "refused"} => c \notin staging'
        /\ pc[c]' = "failed" /\ ~rollbackLost[c]' => c \notin staging'
    <3>1. c \in staging' => c \in staging \/ Named(c)
      BY <2>1, <2>8
    <3>2. pc[c]' \in {"idle", "evidence", "refused", "failed"} => pc[c]' = pc[c]
      BY <2>2
    <3>3. Named(c) => rollbackLost[c] \/ pc[c] \in FromRename \cup {"crashed"}
      OBVIOUS
    <3>4. /\ pc[c] \in {"idle", "evidence", "refused"} => ~rollbackLost[c] /\ c \notin staging
          /\ pc[c] = "failed" /\ ~rollbackLost[c] => c \notin staging
      OBVIOUS
    <3>5. rollbackLost[c]' = rollbackLost[c]
      BY <2>2
    <3> HIDE DEF Named, IInv, Naming
    <3> QED
      BY <3>1, <3>2, <3>3, <3>4, <3>5
  <2>10. rejected[c]' # NoTree => rejected[c]' # final'
    <3>1. rejected'[c] = IF rejected[c] = f THEN NoTree ELSE rejected[c]
      BY <2>1
    <3>2. final' = f
      BY <2>1
    <3> QED
      BY <3>1, <3>2
  <2>11. \A a \in Builders \ {c} : rejected[a]' = rejected[c]' => rejected[c]' = NoTree
    BY <2>1
  <2> QED
    BY <2>4, <2>5, <2>6, <2>7, <2>9, <2>10, <2>11
<1>34. ASSUME NEW b \in Builders, LeaseLost(b) PROVE \A c \in Builders : Naming(c)'
  BY <1>34 DEF LeaseLost
<1>33. CASE UNCHANGED vars
  BY <1>33 DEF vars
<1> QED
  BY <1>1, <1>2, <1>3, <1>4, <1>5, <1>6, <1>7, <1>8, <1>9, <1>10, <1>11,
     <1>12, <1>13, <1>14, <1>15, <1>16, <1>17, <1>18, <1>19, <1>20, <1>21,
     <1>22, <1>23, <1>24, <1>25, <1>26, <1>27, <1>28, <1>29, <1>30, <1>31,
     <1>32, <1>33, <1>34
     DEF Next, Progress, Terminated


(* The invariant holds in every reachable state. *)
THEOREM Invariance == Spec => []IInv
<1>1. Init => IInv
  BY DEF Init, IInv, TypeOK, GuardDiscipline, Versions, Naming, Named
<1>2. IInv /\ [Next]_vars => IInv'
  BY Typing, GuardStep, VersionsStep, NamingStep DEF IInv
<1> QED
  BY <1>1, <1>2, PTL DEF Spec

(* Every variable keeps its type. *)
THEOREM TypeCorrect == Spec => []TypeOK
<1>1. IInv => TypeOK
  BY DEF IInv
<1> QED
  BY <1>1, Invariance, PTL

(* The guard is held over exactly the guarded stretches of the build. *)
THEOREM GuardHeld == Spec => []GuardDiscipline
<1>1. IInv => GuardDiscipline
  BY DEF IInv
<1> QED
  BY <1>1, Invariance, PTL

(* A build that reported success published the authorised bytes, sealed,   *)
(* and they stay so: publish_staging.                                      *)
THEOREM PublishedStaysAuthorised == Spec => []PublishedIsAuthorised
<1>1. IInv => PublishedIsAuthorised
  BY DEF IInv, Versions, PublishedIsAuthorised
<1> QED
  BY <1>1, Invariance, PTL

(* Whatever the final name shows is a complete authorised dataset.         *)
THEOREM VisibleStaysAuthorised == Spec => []VisibleIsAuthorised
<1>1. IInv => VisibleIsAuthorised
  BY DEF IInv, TypeOK, Naming, Named, VisibleIsAuthorised
<1> QED
  BY <1>1, Invariance, PTL

(* A failed build owns neither the final name nor a staging name.          *)
THEOREM FailureIsClean == Spec => []FailureLeavesNothing
<1>1. IInv => FailureLeavesNothing
  BY DEF IInv, Naming, Named, FailureLeavesNothing
<1> QED
  BY <1>1, Invariance, PTL

(* No step of any build rebinds a final name that exists.                  *)
THEOREM FinalIsNeverOverwritten == Spec => NeverOverwritten
<1>1. IInv /\ [Next]_vars =>
        [PowerLoss \/ (final # NoTree => final' \in {final, NoTree})]_vars
  <2> SUFFICES ASSUME IInv, Next, ~PowerLoss, final # NoTree
               PROVE  final' \in {final, NoTree}
    OBVIOUS
  <2>1. ASSUME NEW b \in Builders, Progress(b) PROVE final' \in {final, NoTree}
    BY <2>1 DEF Progress, CheckFinal, CreateLease, ExportBegin, ExportWrite,
         FinalizeBegin, WriteManifest, ValidateFinal, PublishBegin,
         CheckDestination, Seal, VerifySealed, Flush, VerifyFlushed, Rename,
         VerifyRenamed, SyncParent, RollbackLook, Withdraw, ConfirmOwn, PutBack,
         CleanupBegin, EmptyTree, RemoveName
  <2>2. ASSUME NEW b \in Builders,
               StepFails(b) \/ LeaseLost(b) \/ Crash(b) \/ WriterOpen(b) \/ WriterEnter(b)
                 \/ WriterEdit(b) \/ WriterLeave(b) \/ StrayEdit(b)
        PROVE  final' \in {final, NoTree}
    BY <2>2 DEF StepFails, LeaseLost, Crash, WriterOpen, WriterEnter, WriterEdit, WriterLeave,
         StrayEdit
  <2>3. ASSUME Retire PROVE final' \in {final, NoTree}
    BY <2>3 DEF Retire
  <2>4. ASSUME Terminated PROVE final' \in {final, NoTree}
    BY <2>4 DEF Terminated, vars
  <2> QED
    BY <2>1, <2>2, <2>3, <2>4 DEF Next
<1> QED
  BY <1>1, Invariance, PTL DEF Spec, NeverOverwritten

-----------------------------------------------------------------------------
(* Rollbacks that meet other builds' trees.                                  *)

(* A step keeps apart what two rollbacks hold. *)
LEMMA TheftStep ==
    ASSUME IInv, \A a \in Builders : Theft(a), [Next]_vars
    PROVE  \A a \in Builders : Theft(a)'
<1> USE DEF IInv, TypeOK, Naming, Named, Theft
<1>1. ASSUME NEW b \in Builders, CheckFinal(b) PROVE \A a \in Builders : Theft(a)'
  BY <1>1 DEF CheckFinal
<1>2. ASSUME NEW b \in Builders, CreateLease(b) PROVE \A a \in Builders : Theft(a)'
  BY <1>2 DEF CreateLease
<1>3. ASSUME NEW b \in Builders, ExportBegin(b) PROVE \A a \in Builders : Theft(a)'
  BY <1>3 DEF ExportBegin
<1>4. ASSUME NEW b \in Builders, ExportWrite(b) PROVE \A a \in Builders : Theft(a)'
  BY <1>4 DEF ExportWrite
<1>5. ASSUME NEW b \in Builders, FinalizeBegin(b) PROVE \A a \in Builders : Theft(a)'
  BY <1>5 DEF FinalizeBegin
<1>6. ASSUME NEW b \in Builders, WriteManifest(b) PROVE \A a \in Builders : Theft(a)'
  BY <1>6 DEF WriteManifest
<1>7. ASSUME NEW b \in Builders, ValidateFinal(b) PROVE \A a \in Builders : Theft(a)'
  BY <1>7 DEF ValidateFinal
<1>8. ASSUME NEW b \in Builders, PublishBegin(b) PROVE \A a \in Builders : Theft(a)'
  BY <1>8 DEF PublishBegin
<1>9. ASSUME NEW b \in Builders, CheckDestination(b) PROVE \A a \in Builders : Theft(a)'
  BY <1>9 DEF CheckDestination
<1>10. ASSUME NEW b \in Builders, Seal(b) PROVE \A a \in Builders : Theft(a)'
  BY <1>10 DEF Seal
<1>11. ASSUME NEW b \in Builders, VerifySealed(b) PROVE \A a \in Builders : Theft(a)'
  BY <1>11 DEF VerifySealed, Authorised
<1>12. ASSUME NEW b \in Builders, Flush(b) PROVE \A a \in Builders : Theft(a)'
  BY <1>12 DEF Flush
<1>13. ASSUME NEW b \in Builders, VerifyFlushed(b) PROVE \A a \in Builders : Theft(a)'
  BY <1>13 DEF VerifyFlushed, Authorised
<1>14. ASSUME NEW b \in Builders, Rename(b) PROVE \A a \in Builders : Theft(a)'
  BY <1>14 DEF Rename
<1>15. ASSUME NEW b \in Builders, VerifyRenamed(b) PROVE \A a \in Builders : Theft(a)'
  BY <1>15 DEF VerifyRenamed, Authorised
<1>16. ASSUME NEW b \in Builders, SyncParent(b) PROVE \A a \in Builders : Theft(a)'
  BY <1>16 DEF SyncParent
<1>17. ASSUME NEW b \in Builders, RollbackLook(b) PROVE \A a \in Builders : Theft(a)'
  BY <1>17 DEF RollbackLook
<1>18. ASSUME NEW b \in Builders, Withdraw(b) PROVE \A a \in Builders : Theft(a)'
  BY <1>18 DEF Withdraw
<1>19. ASSUME NEW b \in Builders, ConfirmOwn(b) PROVE \A a \in Builders : Theft(a)'
  BY <1>19 DEF ConfirmOwn
<1>20. ASSUME NEW b \in Builders, PutBack(b) PROVE \A a \in Builders : Theft(a)'
  BY <1>20 DEF PutBack
<1>21. ASSUME NEW b \in Builders, CleanupBegin(b) PROVE \A a \in Builders : Theft(a)'
  BY <1>21 DEF CleanupBegin
<1>22. ASSUME NEW b \in Builders, EmptyTree(b) PROVE \A a \in Builders : Theft(a)'
  BY <1>22 DEF EmptyTree
<1>23. ASSUME NEW b \in Builders, RemoveName(b) PROVE \A a \in Builders : Theft(a)'
  BY <1>23 DEF RemoveName
<1>24. ASSUME NEW b \in Builders, StepFails(b) PROVE \A a \in Builders : Theft(a)'
  BY <1>24 DEF StepFails
<1>25. ASSUME NEW b \in Builders, LeaseLost(b) PROVE \A a \in Builders : Theft(a)'
  BY <1>25 DEF LeaseLost
<1>26. ASSUME NEW b \in Builders, Crash(b) PROVE \A a \in Builders : Theft(a)'
  BY <1>26 DEF Crash
<1>27. ASSUME NEW b \in Builders, WriterOpen(b) PROVE \A a \in Builders : Theft(a)'
  BY <1>27 DEF WriterOpen
<1>28. ASSUME NEW b \in Builders, WriterEnter(b) PROVE \A a \in Builders : Theft(a)'
  BY <1>28 DEF WriterEnter
<1>29. ASSUME NEW b \in Builders, WriterEdit(b) PROVE \A a \in Builders : Theft(a)'
  BY <1>29 DEF WriterEdit
<1>30. ASSUME NEW b \in Builders, WriterLeave(b) PROVE \A a \in Builders : Theft(a)'
  BY <1>30 DEF WriterLeave
<1>31. ASSUME NEW b \in Builders, StrayEdit(b) PROVE \A a \in Builders : Theft(a)'
  BY <1>31 DEF StrayEdit
<1>32. CASE Retire
  BY <1>32 DEF Retire
<1>33. CASE PowerLoss
  BY <1>33 DEF PowerLoss
<1>34. CASE UNCHANGED vars
  BY <1>34 DEF vars
<1> QED
  BY <1>1, <1>2, <1>3, <1>4, <1>5, <1>6, <1>7, <1>8, <1>9, <1>10, <1>11,
     <1>12, <1>13, <1>14, <1>15, <1>16, <1>17, <1>18, <1>19, <1>20, <1>21,
     <1>22, <1>23, <1>24, <1>25, <1>26, <1>27, <1>28, <1>29, <1>30, <1>31,
     <1>32, <1>33, <1>34
     DEF Next, Progress, Terminated

(* A rollback that is over and still holds another build's tree, and what    *)
(* excuses it: a third build that had the final name.                        *)
Keeps(a, b) == rejected[a] = b /\ a # b /\ pc[a] \in Clean \cup {"failed"}
Excuse(c) == \/ pc[c] \in Exposed \cup Undo \cup {"published", "crashed"}
             \/ rejected[c] = c \/ rollbackLost[c]

(* An excuse lasts. *)
LEMMA ExcuseStep ==
    ASSUME IInv, [Next]_vars
    PROVE  \A c \in Builders : Excuse(c) => Excuse(c)'
<1> USE DEF IInv, TypeOK, Naming, Named, Excuse
<1>1. ASSUME NEW b \in Builders, CheckFinal(b) PROVE \A c \in Builders : Excuse(c) => Excuse(c)'
  BY <1>1 DEF CheckFinal
<1>2. ASSUME NEW b \in Builders, CreateLease(b) PROVE \A c \in Builders : Excuse(c) => Excuse(c)'
  BY <1>2 DEF CreateLease
<1>3. ASSUME NEW b \in Builders, ExportBegin(b) PROVE \A c \in Builders : Excuse(c) => Excuse(c)'
  BY <1>3 DEF ExportBegin
<1>4. ASSUME NEW b \in Builders, ExportWrite(b) PROVE \A c \in Builders : Excuse(c) => Excuse(c)'
  BY <1>4 DEF ExportWrite
<1>5. ASSUME NEW b \in Builders, FinalizeBegin(b) PROVE \A c \in Builders : Excuse(c) => Excuse(c)'
  BY <1>5 DEF FinalizeBegin
<1>6. ASSUME NEW b \in Builders, WriteManifest(b) PROVE \A c \in Builders : Excuse(c) => Excuse(c)'
  BY <1>6 DEF WriteManifest
<1>7. ASSUME NEW b \in Builders, ValidateFinal(b) PROVE \A c \in Builders : Excuse(c) => Excuse(c)'
  BY <1>7 DEF ValidateFinal
<1>8. ASSUME NEW b \in Builders, PublishBegin(b) PROVE \A c \in Builders : Excuse(c) => Excuse(c)'
  BY <1>8 DEF PublishBegin
<1>9. ASSUME NEW b \in Builders, CheckDestination(b) PROVE \A c \in Builders : Excuse(c) => Excuse(c)'
  BY <1>9 DEF CheckDestination
<1>10. ASSUME NEW b \in Builders, Seal(b) PROVE \A c \in Builders : Excuse(c) => Excuse(c)'
  BY <1>10 DEF Seal
<1>11. ASSUME NEW b \in Builders, VerifySealed(b) PROVE \A c \in Builders : Excuse(c) => Excuse(c)'
  BY <1>11 DEF VerifySealed, Authorised
<1>12. ASSUME NEW b \in Builders, Flush(b) PROVE \A c \in Builders : Excuse(c) => Excuse(c)'
  BY <1>12 DEF Flush
<1>13. ASSUME NEW b \in Builders, VerifyFlushed(b) PROVE \A c \in Builders : Excuse(c) => Excuse(c)'
  BY <1>13 DEF VerifyFlushed, Authorised
<1>14. ASSUME NEW b \in Builders, Rename(b) PROVE \A c \in Builders : Excuse(c) => Excuse(c)'
  BY <1>14 DEF Rename
<1>15. ASSUME NEW b \in Builders, VerifyRenamed(b) PROVE \A c \in Builders : Excuse(c) => Excuse(c)'
  BY <1>15 DEF VerifyRenamed, Authorised
<1>16. ASSUME NEW b \in Builders, SyncParent(b) PROVE \A c \in Builders : Excuse(c) => Excuse(c)'
  BY <1>16 DEF SyncParent
<1>17. ASSUME NEW b \in Builders, RollbackLook(b) PROVE \A c \in Builders : Excuse(c) => Excuse(c)'
  BY <1>17 DEF RollbackLook
<1>18. ASSUME NEW b \in Builders, Withdraw(b) PROVE \A c \in Builders : Excuse(c) => Excuse(c)'
  BY <1>18 DEF Withdraw
<1>19. ASSUME NEW b \in Builders, ConfirmOwn(b) PROVE \A c \in Builders : Excuse(c) => Excuse(c)'
  BY <1>19 DEF ConfirmOwn
<1>20. ASSUME NEW b \in Builders, PutBack(b) PROVE \A c \in Builders : Excuse(c) => Excuse(c)'
  BY <1>20 DEF PutBack
<1>21. ASSUME NEW b \in Builders, CleanupBegin(b) PROVE \A c \in Builders : Excuse(c) => Excuse(c)'
  BY <1>21 DEF CleanupBegin
<1>22. ASSUME NEW b \in Builders, EmptyTree(b) PROVE \A c \in Builders : Excuse(c) => Excuse(c)'
  BY <1>22 DEF EmptyTree
<1>23. ASSUME NEW b \in Builders, RemoveName(b) PROVE \A c \in Builders : Excuse(c) => Excuse(c)'
  BY <1>23 DEF RemoveName
<1>24. ASSUME NEW b \in Builders, StepFails(b) PROVE \A c \in Builders : Excuse(c) => Excuse(c)'
  <2>1. /\ pc' = [pc EXCEPT ![b] = Handler(pc[b])] /\ UNCHANGED rejected
        /\ rollbackLost' = [rollbackLost EXCEPT ![b] = rollbackLost[b] \/ pc[b] \in Undo]
    BY <1>24 DEF StepFails
  <2> TAKE c \in Builders
  <2>2. CASE c # b
    BY <2>1, <2>2
  <2>3. CASE c = b
    <3>1. CASE pc[b] \in Exposed
      BY <2>1, <2>3, <3>1
    <3>2. CASE pc[b] \in Undo
      <4>1. rollbackLost' = [rollbackLost EXCEPT ![b] = TRUE]
        BY <2>1, <3>2
      <4> QED
        BY <2>3, <4>1
    <3>3. CASE pc[b] \in {"published", "crashed"}
      BY <1>24, <3>3 DEF StepFails
    <3>4. CASE rejected[b] = b \/ rollbackLost[b]
      BY <2>1, <2>3, <3>4
    <3> QED
      BY <2>3, <3>1, <3>2, <3>3, <3>4
  <2> QED
    BY <2>2, <2>3
<1>25. ASSUME NEW b \in Builders, LeaseLost(b) PROVE \A c \in Builders : Excuse(c) => Excuse(c)'
  BY <1>25 DEF LeaseLost
<1>26. ASSUME NEW b \in Builders, Crash(b) PROVE \A c \in Builders : Excuse(c) => Excuse(c)'
  BY <1>26 DEF Crash
<1>27. ASSUME NEW b \in Builders, WriterOpen(b) PROVE \A c \in Builders : Excuse(c) => Excuse(c)'
  BY <1>27 DEF WriterOpen
<1>28. ASSUME NEW b \in Builders, WriterEnter(b) PROVE \A c \in Builders : Excuse(c) => Excuse(c)'
  BY <1>28 DEF WriterEnter
<1>29. ASSUME NEW b \in Builders, WriterEdit(b) PROVE \A c \in Builders : Excuse(c) => Excuse(c)'
  BY <1>29 DEF WriterEdit
<1>30. ASSUME NEW b \in Builders, WriterLeave(b) PROVE \A c \in Builders : Excuse(c) => Excuse(c)'
  BY <1>30 DEF WriterLeave
<1>31. ASSUME NEW b \in Builders, StrayEdit(b) PROVE \A c \in Builders : Excuse(c) => Excuse(c)'
  BY <1>31 DEF StrayEdit
<1>32. CASE Retire
  BY <1>32 DEF Retire
<1>33. CASE PowerLoss
  BY <1>33 DEF PowerLoss
<1>34. CASE UNCHANGED vars
  BY <1>34 DEF vars
<1> QED
  BY <1>1, <1>2, <1>3, <1>4, <1>5, <1>6, <1>7, <1>8, <1>9, <1>10, <1>11,
     <1>12, <1>13, <1>14, <1>15, <1>16, <1>17, <1>18, <1>19, <1>20, <1>21,
     <1>22, <1>23, <1>24, <1>25, <1>26, <1>27, <1>28, <1>29, <1>30, <1>31,
     <1>32, <1>33, <1>34
     DEF Next, Progress, Terminated

(* A rollback that ends with another build's tree has an excuse. *)
LEMMA KeepStep ==
    ASSUME "withdrawn" \notin FaultPoints, IInv, \A a \in Builders : Theft(a), [Next]_vars
    PROVE  \A a, c \in Builders :
             Keeps(a, c)' => Keeps(a, c) \/ \E d \in Builders \ {a, c} : Excuse(d)'
<1> USE DEF IInv, TypeOK, Naming, Named, Theft, Keeps
<1>1. ASSUME NEW b \in Builders, CheckFinal(b) PROVE \A a, c \in Builders :
             Keeps(a, c)' => Keeps(a, c) \/ \E d \in Builders \ {a, c} : Excuse(d)'
  BY <1>1 DEF CheckFinal
<1>2. ASSUME NEW b \in Builders, CreateLease(b) PROVE \A a, c \in Builders :
             Keeps(a, c)' => Keeps(a, c) \/ \E d \in Builders \ {a, c} : Excuse(d)'
  BY <1>2 DEF CreateLease
<1>3. ASSUME NEW b \in Builders, ExportBegin(b) PROVE \A a, c \in Builders :
             Keeps(a, c)' => Keeps(a, c) \/ \E d \in Builders \ {a, c} : Excuse(d)'
  BY <1>3 DEF ExportBegin
<1>4. ASSUME NEW b \in Builders, ExportWrite(b) PROVE \A a, c \in Builders :
             Keeps(a, c)' => Keeps(a, c) \/ \E d \in Builders \ {a, c} : Excuse(d)'
  BY <1>4 DEF ExportWrite
<1>5. ASSUME NEW b \in Builders, FinalizeBegin(b) PROVE \A a, c \in Builders :
             Keeps(a, c)' => Keeps(a, c) \/ \E d \in Builders \ {a, c} : Excuse(d)'
  BY <1>5 DEF FinalizeBegin
<1>6. ASSUME NEW b \in Builders, WriteManifest(b) PROVE \A a, c \in Builders :
             Keeps(a, c)' => Keeps(a, c) \/ \E d \in Builders \ {a, c} : Excuse(d)'
  BY <1>6 DEF WriteManifest
<1>7. ASSUME NEW b \in Builders, ValidateFinal(b) PROVE \A a, c \in Builders :
             Keeps(a, c)' => Keeps(a, c) \/ \E d \in Builders \ {a, c} : Excuse(d)'
  BY <1>7 DEF ValidateFinal
<1>8. ASSUME NEW b \in Builders, PublishBegin(b) PROVE \A a, c \in Builders :
             Keeps(a, c)' => Keeps(a, c) \/ \E d \in Builders \ {a, c} : Excuse(d)'
  BY <1>8 DEF PublishBegin
<1>9. ASSUME NEW b \in Builders, CheckDestination(b) PROVE \A a, c \in Builders :
             Keeps(a, c)' => Keeps(a, c) \/ \E d \in Builders \ {a, c} : Excuse(d)'
  BY <1>9 DEF CheckDestination
<1>10. ASSUME NEW b \in Builders, Seal(b) PROVE \A a, c \in Builders :
             Keeps(a, c)' => Keeps(a, c) \/ \E d \in Builders \ {a, c} : Excuse(d)'
  BY <1>10 DEF Seal
<1>11. ASSUME NEW b \in Builders, VerifySealed(b) PROVE \A a, c \in Builders :
             Keeps(a, c)' => Keeps(a, c) \/ \E d \in Builders \ {a, c} : Excuse(d)'
  BY <1>11 DEF VerifySealed, Authorised
<1>12. ASSUME NEW b \in Builders, Flush(b) PROVE \A a, c \in Builders :
             Keeps(a, c)' => Keeps(a, c) \/ \E d \in Builders \ {a, c} : Excuse(d)'
  BY <1>12 DEF Flush
<1>13. ASSUME NEW b \in Builders, VerifyFlushed(b) PROVE \A a, c \in Builders :
             Keeps(a, c)' => Keeps(a, c) \/ \E d \in Builders \ {a, c} : Excuse(d)'
  BY <1>13 DEF VerifyFlushed, Authorised
<1>14. ASSUME NEW b \in Builders, Rename(b) PROVE \A a, c \in Builders :
             Keeps(a, c)' => Keeps(a, c) \/ \E d \in Builders \ {a, c} : Excuse(d)'
  BY <1>14 DEF Rename
<1>15. ASSUME NEW b \in Builders, VerifyRenamed(b) PROVE \A a, c \in Builders :
             Keeps(a, c)' => Keeps(a, c) \/ \E d \in Builders \ {a, c} : Excuse(d)'
  BY <1>15 DEF VerifyRenamed, Authorised
<1>16. ASSUME NEW b \in Builders, SyncParent(b) PROVE \A a, c \in Builders :
             Keeps(a, c)' => Keeps(a, c) \/ \E d \in Builders \ {a, c} : Excuse(d)'
  BY <1>16 DEF SyncParent
<1>17. ASSUME NEW b \in Builders, RollbackLook(b) PROVE \A a, c \in Builders :
             Keeps(a, c)' => Keeps(a, c) \/ \E d \in Builders \ {a, c} : Excuse(d)'
  BY <1>17 DEF RollbackLook
<1>18. ASSUME NEW b \in Builders, Withdraw(b) PROVE \A a, c \in Builders :
             Keeps(a, c)' => Keeps(a, c) \/ \E d \in Builders \ {a, c} : Excuse(d)'
  BY <1>18 DEF Withdraw
<1>19. ASSUME NEW b \in Builders, ConfirmOwn(b) PROVE \A a, c \in Builders :
             Keeps(a, c)' => Keeps(a, c) \/ \E d \in Builders \ {a, c} : Excuse(d)'
  BY <1>19 DEF ConfirmOwn
<1>20. ASSUME NEW b \in Builders, PutBack(b) PROVE \A a, c \in Builders :
             Keeps(a, c)' => Keeps(a, c) \/ \E d \in Builders \ {a, c} : Excuse(d)'
  <2> TAKE a, c \in Builders
  <2>1. /\ pc[b] = "withdrawn" /\ pc' = [pc EXCEPT ![b] = "cleaning"] /\ rejected[b] # b
        /\ rollbackLost' = [rollbackLost EXCEPT ![b] = TRUE]
    BY <1>20 DEF PutBack
  <2>2. CASE final = NoTree
    <3>1. rejected' = [rejected EXCEPT ![b] = NoTree]
      BY <1>20, <2>2 DEF PutBack
    <3> QED
      BY <2>1, <3>1
  <2>3. CASE final # NoTree
    <3>1. UNCHANGED rejected
      BY <1>20, <2>3 DEF PutBack
    <3>2. CASE a # b
      BY <2>1, <3>1, <3>2
    <3>3. CASE a = b /\ rejected[b] = c
      <4>1. CASE final = b
        <5>1. PICK d \in Builders \ {b, c} : rollbackLost[d]
          BY <2>1, <3>3, <4>1
        <5>2. Excuse(d)'
          BY <2>1, <5>1 DEF Excuse
        <5> QED
          BY <3>3, <5>2
      <4>2. CASE final # b
        <5>1. PICK d \in Builders \ {b, c} : d = final
          BY <2>3, <3>3, <4>2
        <5>2. Named(d)
          BY <5>1
        <5>3. Excuse(d)
          BY <5>1, <5>2 DEF Excuse
        <5>4. Excuse(d)'
          BY <2>1, <3>1, <5>1, <5>3 DEF Excuse
        <5> QED
          BY <3>3, <5>1, <5>4
      <4> QED
        BY <4>1, <4>2
    <3> QED
      BY <3>1, <3>2, <3>3 DEF Keeps
  <2> QED
    BY <2>2, <2>3
<1>21. ASSUME NEW b \in Builders, CleanupBegin(b) PROVE \A a, c \in Builders :
             Keeps(a, c)' => Keeps(a, c) \/ \E d \in Builders \ {a, c} : Excuse(d)'
  BY <1>21 DEF CleanupBegin
<1>22. ASSUME NEW b \in Builders, EmptyTree(b) PROVE \A a, c \in Builders :
             Keeps(a, c)' => Keeps(a, c) \/ \E d \in Builders \ {a, c} : Excuse(d)'
  BY <1>22 DEF EmptyTree
<1>23. ASSUME NEW b \in Builders, RemoveName(b) PROVE \A a, c \in Builders :
             Keeps(a, c)' => Keeps(a, c) \/ \E d \in Builders \ {a, c} : Excuse(d)'
  BY <1>23 DEF RemoveName
<1>24. ASSUME NEW b \in Builders, StepFails(b) PROVE \A a, c \in Builders :
             Keeps(a, c)' => Keeps(a, c) \/ \E d \in Builders \ {a, c} : Excuse(d)'
  BY <1>24 DEF StepFails
<1>25. ASSUME NEW b \in Builders, LeaseLost(b) PROVE \A a, c \in Builders :
             Keeps(a, c)' => Keeps(a, c) \/ \E d \in Builders \ {a, c} : Excuse(d)'
  BY <1>25 DEF LeaseLost
<1>26. ASSUME NEW b \in Builders, Crash(b) PROVE \A a, c \in Builders :
             Keeps(a, c)' => Keeps(a, c) \/ \E d \in Builders \ {a, c} : Excuse(d)'
  BY <1>26 DEF Crash
<1>27. ASSUME NEW b \in Builders, WriterOpen(b) PROVE \A a, c \in Builders :
             Keeps(a, c)' => Keeps(a, c) \/ \E d \in Builders \ {a, c} : Excuse(d)'
  BY <1>27 DEF WriterOpen
<1>28. ASSUME NEW b \in Builders, WriterEnter(b) PROVE \A a, c \in Builders :
             Keeps(a, c)' => Keeps(a, c) \/ \E d \in Builders \ {a, c} : Excuse(d)'
  BY <1>28 DEF WriterEnter
<1>29. ASSUME NEW b \in Builders, WriterEdit(b) PROVE \A a, c \in Builders :
             Keeps(a, c)' => Keeps(a, c) \/ \E d \in Builders \ {a, c} : Excuse(d)'
  BY <1>29 DEF WriterEdit
<1>30. ASSUME NEW b \in Builders, WriterLeave(b) PROVE \A a, c \in Builders :
             Keeps(a, c)' => Keeps(a, c) \/ \E d \in Builders \ {a, c} : Excuse(d)'
  BY <1>30 DEF WriterLeave
<1>31. ASSUME NEW b \in Builders, StrayEdit(b) PROVE \A a, c \in Builders :
             Keeps(a, c)' => Keeps(a, c) \/ \E d \in Builders \ {a, c} : Excuse(d)'
  BY <1>31 DEF StrayEdit
<1>32. CASE Retire
  BY <1>32 DEF Retire
<1>33. CASE PowerLoss
  BY <1>33 DEF PowerLoss
<1>34. CASE UNCHANGED vars
  BY <1>34 DEF vars
<1> QED
  BY <1>1, <1>2, <1>3, <1>4, <1>5, <1>6, <1>7, <1>8, <1>9, <1>10, <1>11,
     <1>12, <1>13, <1>14, <1>15, <1>16, <1>17, <1>18, <1>19, <1>20, <1>21,
     <1>22, <1>23, <1>24, <1>25, <1>26, <1>27, <1>28, <1>29, <1>30, <1>31,
     <1>32, <1>33, <1>34
     DEF Next, Progress, Terminated

(* A tree that a rollback took from another build is given back, unless a    *)
(* third build had the final name in between.  (While the rename back is not *)
(* refused.)                                                                 *)
THEOREM StolenTreesReturn ==
    ASSUME "withdrawn" \notin FaultPoints
    PROVE  Spec => []StolenTreeIsReturned
<1> DEFINE Apart == \A a \in Builders : Theft(a)
<1>1. Init => Apart /\ StolenTreeIsReturned
  BY DEF Init, Theft, StolenTreeIsReturned
<1>2. IInv /\ Apart /\ [Next]_vars => Apart'
  BY TheftStep
<1>3. IInv /\ Apart /\ StolenTreeIsReturned /\ [Next]_vars => StolenTreeIsReturned'
  <2> SUFFICES ASSUME IInv, Apart, StolenTreeIsReturned, [Next]_vars,
                      NEW a \in Builders, NEW b \in Builders, Keeps(a, b)'
               PROVE  \E c \in Builders \ {a, b} : Excuse(c)'
    BY DEF StolenTreeIsReturned, Keeps, Excuse
  <2>1. Keeps(a, b) \/ \E c \in Builders \ {a, b} : Excuse(c)'
    BY KeepStep
  <2>2. Keeps(a, b) => \E c \in Builders \ {a, b} : Excuse(c)
    BY DEF StolenTreeIsReturned, Keeps, Excuse
  <2> QED
    BY <2>1, <2>2, ExcuseStep
<1> QED
  BY <1>1, <1>2, <1>3, Invariance, PTL DEF Spec

-----------------------------------------------------------------------------
(* The protocol as one slot.                                                 *)

(* A step keeps the final name with the build that took it. *)
LEMMA UndisturbedStep ==
    ASSUME MaxRetired = 0, FaultPoints \cap Undo = {}, IInv, \A b \in Builders : Undisturbed(b), [Next]_vars
    PROVE  \A c \in Builders : Undisturbed(c)'
<1> USE DEF IInv, TypeOK, Naming, Named, Undisturbed
<1>1. ASSUME NEW b \in Builders, CheckFinal(b) PROVE \A c \in Builders : Undisturbed(c)'
  BY <1>1 DEF CheckFinal
<1>2. ASSUME NEW b \in Builders, CreateLease(b) PROVE \A c \in Builders : Undisturbed(c)'
  BY <1>2 DEF CreateLease
<1>3. ASSUME NEW b \in Builders, ExportBegin(b) PROVE \A c \in Builders : Undisturbed(c)'
  BY <1>3 DEF ExportBegin
<1>4. ASSUME NEW b \in Builders, ExportWrite(b) PROVE \A c \in Builders : Undisturbed(c)'
  BY <1>4 DEF ExportWrite
<1>5. ASSUME NEW b \in Builders, FinalizeBegin(b) PROVE \A c \in Builders : Undisturbed(c)'
  BY <1>5 DEF FinalizeBegin
<1>6. ASSUME NEW b \in Builders, WriteManifest(b) PROVE \A c \in Builders : Undisturbed(c)'
  BY <1>6 DEF WriteManifest
<1>7. ASSUME NEW b \in Builders, ValidateFinal(b) PROVE \A c \in Builders : Undisturbed(c)'
  BY <1>7 DEF ValidateFinal
<1>8. ASSUME NEW b \in Builders, PublishBegin(b) PROVE \A c \in Builders : Undisturbed(c)'
  BY <1>8 DEF PublishBegin
<1>9. ASSUME NEW b \in Builders, CheckDestination(b) PROVE \A c \in Builders : Undisturbed(c)'
  BY <1>9 DEF CheckDestination
<1>10. ASSUME NEW b \in Builders, Seal(b) PROVE \A c \in Builders : Undisturbed(c)'
  BY <1>10 DEF Seal
<1>11. ASSUME NEW b \in Builders, VerifySealed(b) PROVE \A c \in Builders : Undisturbed(c)'
  BY <1>11 DEF VerifySealed, Authorised
<1>12. ASSUME NEW b \in Builders, Flush(b) PROVE \A c \in Builders : Undisturbed(c)'
  BY <1>12 DEF Flush
<1>13. ASSUME NEW b \in Builders, VerifyFlushed(b) PROVE \A c \in Builders : Undisturbed(c)'
  BY <1>13 DEF VerifyFlushed, Authorised
<1>14. ASSUME NEW b \in Builders, Rename(b) PROVE \A c \in Builders : Undisturbed(c)'
  BY <1>14 DEF Rename
<1>15. ASSUME NEW b \in Builders, VerifyRenamed(b) PROVE \A c \in Builders : Undisturbed(c)'
  BY <1>15 DEF VerifyRenamed, Authorised
<1>16. ASSUME NEW b \in Builders, SyncParent(b) PROVE \A c \in Builders : Undisturbed(c)'
  BY <1>16 DEF SyncParent
<1>17. ASSUME NEW b \in Builders, RollbackLook(b) PROVE \A c \in Builders : Undisturbed(c)'
  BY <1>17 DEF RollbackLook
<1>18. ASSUME NEW b \in Builders, Withdraw(b) PROVE \A c \in Builders : Undisturbed(c)'
  BY <1>18 DEF Withdraw
<1>19. ASSUME NEW b \in Builders, ConfirmOwn(b) PROVE \A c \in Builders : Undisturbed(c)'
  BY <1>19 DEF ConfirmOwn
<1>20. ASSUME NEW b \in Builders, PutBack(b) PROVE \A c \in Builders : Undisturbed(c)'
  BY <1>20 DEF PutBack
<1>21. ASSUME NEW b \in Builders, CleanupBegin(b) PROVE \A c \in Builders : Undisturbed(c)'
  BY <1>21 DEF CleanupBegin
<1>22. ASSUME NEW b \in Builders, EmptyTree(b) PROVE \A c \in Builders : Undisturbed(c)'
  BY <1>22 DEF EmptyTree
<1>23. ASSUME NEW b \in Builders, RemoveName(b) PROVE \A c \in Builders : Undisturbed(c)'
  BY <1>23 DEF RemoveName
<1>24. ASSUME NEW b \in Builders, StepFails(b) PROVE \A c \in Builders : Undisturbed(c)'
  BY <1>24 DEF StepFails
<1>25. ASSUME NEW b \in Builders, LeaseLost(b) PROVE \A c \in Builders : Undisturbed(c)'
  BY <1>25 DEF LeaseLost
<1>26. ASSUME NEW b \in Builders, Crash(b) PROVE \A c \in Builders : Undisturbed(c)'
  BY <1>26 DEF Crash
<1>27. ASSUME NEW b \in Builders, WriterOpen(b) PROVE \A c \in Builders : Undisturbed(c)'
  BY <1>27 DEF WriterOpen
<1>28. ASSUME NEW b \in Builders, WriterEnter(b) PROVE \A c \in Builders : Undisturbed(c)'
  BY <1>28 DEF WriterEnter
<1>29. ASSUME NEW b \in Builders, WriterEdit(b) PROVE \A c \in Builders : Undisturbed(c)'
  BY <1>29 DEF WriterEdit
<1>30. ASSUME NEW b \in Builders, WriterLeave(b) PROVE \A c \in Builders : Undisturbed(c)'
  BY <1>30 DEF WriterLeave
<1>31. ASSUME NEW b \in Builders, StrayEdit(b) PROVE \A c \in Builders : Undisturbed(c)'
  BY <1>31 DEF StrayEdit
<1>32. CASE Retire
  <2>1. final \in Builders
    BY <1>32 DEF Retire
  <2>2. retired = {}
    BY <2>1
  <2>3. Cardinality(retired) = 0
    BY <2>2, FS_EmptySet
  <2> QED
    BY <1>32, <2>3 DEF Retire
<1>33. CASE PowerLoss
  BY <1>33 DEF PowerLoss
<1>34. CASE UNCHANGED vars
  BY <1>34 DEF vars
<1> QED
  BY <1>1, <1>2, <1>3, <1>4, <1>5, <1>6, <1>7, <1>8, <1>9, <1>10, <1>11,
     <1>12, <1>13, <1>14, <1>15, <1>16, <1>17, <1>18, <1>19, <1>20, <1>21,
     <1>22, <1>23, <1>24, <1>25, <1>26, <1>27, <1>28, <1>29, <1>30, <1>31,
     <1>32, <1>33, <1>34
     DEF Next, Progress, Terminated

(* Every step is a step of the slot or none.                                 *)
LEMMA AtomicStep ==
    ASSUME MaxRetired = 0, FaultPoints \cap Undo = {}, IInv,
           \A b \in Builders : Undisturbed(b), [Next]_vars
    PROVE  [Atomic!Next]_(Atomic!vars)
<1> DEFINE reports == [b \in Builders |-> Outcome(b)]
<1>1. ASSUME UNCHANGED <<final, pc>> PROVE [Atomic!Next]_(Atomic!vars)
  <2>1. reports' = reports
    BY <1>1 DEF Outcome
  <2> QED
    BY <1>1, <2>1 DEF Atomic!vars
<1>2. ASSUME NEW b \in Builders, NEW p \in Points, pc' = [pc EXCEPT ![b] = p],
             UNCHANGED final,
             \/ pc[b] \notin Done /\ p \notin Done
             \/ pc[b] \notin Done /\ p \in {"refused", "failed", "uncleaned"} /\ final # b
             \/ pc[b] \notin Done /\ p = "published" /\ final = b
             \/ pc[b] \notin Done /\ p = "crashed"
      PROVE  [Atomic!Next]_(Atomic!vars)
  <2> USE DEF Outcome, IInv, TypeOK
  <2>1. CASE p \notin Done
    <3>1. reports' = reports
      BY <1>2, <2>1
    <3> QED
      BY <1>2, <3>1 DEF Atomic!vars
  <2>2. ASSUME NEW v, pc[b] \notin Done,
               v = CASE p = "published" -> "published"
                     [] p \in {"refused", "failed", "uncleaned"} -> "failed"
                     [] p = "crashed" -> "crashed"
                     [] OTHER -> "running"
        PROVE  reports[b] = "running" /\ reports' = [reports EXCEPT ![b] = v]
    BY <1>2, <2>2
  <2>3. CASE p \in {"refused", "failed", "uncleaned"}
    <3>1. reports[b] = "running" /\ reports' = [reports EXCEPT ![b] = "failed"]
      BY <1>2, <2>2, <2>3
    <3>2. Atomic!Fail(b)
      BY <1>2, <2>3, <3>1 DEF Atomic!Fail
    <3> QED
      BY <3>2 DEF Atomic!Next
  <2>4. CASE p = "published"
    <3>1. reports[b] = "running" /\ reports' = [reports EXCEPT ![b] = "published"]
      BY <1>2, <2>2, <2>4
    <3>2. Atomic!Succeed(b)
      BY <1>2, <2>4, <3>1 DEF Atomic!Succeed
    <3> QED
      BY <3>2 DEF Atomic!Next
  <2>5. CASE p = "crashed"
    <3>1. reports[b] = "running" /\ reports' = [reports EXCEPT ![b] = "crashed"]
      BY <1>2, <2>2, <2>5
    <3>2. Atomic!Crash(b)
      BY <1>2, <3>1 DEF Atomic!Crash
    <3> QED
      BY <3>2 DEF Atomic!Next
  <2> QED
    BY <1>2, <2>1, <2>3, <2>4, <2>5
<1>3. ASSUME NEW b \in Builders, Rename(b) PROVE [Atomic!Next]_(Atomic!vars)
  <2>1. CASE final = NoTree
    <3>1. /\ pc[b] = "ready" /\ pc' = [pc EXCEPT ![b] = "renamed"] /\ final' = b
      BY <1>3, <2>1 DEF Rename
    <3>2. reports' = reports /\ reports[b] = "running"
      BY <3>1 DEF Outcome, IInv, TypeOK
    <3>3. Atomic!Claim(b)
      BY <2>1, <3>1, <3>2 DEF Atomic!Claim
    <3> QED
      BY <3>3 DEF Atomic!Next
  <2>2. CASE final # NoTree
    <3>1. pc[b] = "ready" /\ pc' = [pc EXCEPT ![b] = "cleaning"] /\ UNCHANGED final
      BY <1>3, <2>2 DEF Rename
    <3> QED
      BY <1>2, <3>1
  <2> QED
    BY <2>1, <2>2
<1>4. ASSUME NEW b \in Builders, Withdraw(b) PROVE [Atomic!Next]_(Atomic!vars)
  <2>1. pc[b] = "withdrawing" /\ final = b
    BY <1>4 DEF Withdraw, Undisturbed
  <2>2. pc' = [pc EXCEPT ![b] = "withdrawn"] /\ final' = NoTree
    BY <1>4, <2>1 DEF Withdraw
  <2>3. reports' = reports /\ reports[b] = "running"
    BY <2>1, <2>2 DEF Outcome, IInv, TypeOK
  <2>4. Atomic!Withdraw(b)
    BY <2>1, <2>2, <2>3 DEF Atomic!Withdraw
  <2> QED
    BY <2>4 DEF Atomic!Next
<1>5. ASSUME NEW b \in Builders, SyncParent(b) PROVE [Atomic!Next]_(Atomic!vars)
  <2>1. /\ pc[b] = "confirmed" /\ pc' = [pc EXCEPT ![b] = "published"] /\ UNCHANGED final
        /\ final = b
    BY <1>5 DEF SyncParent, Undisturbed
  <2> QED
    BY <1>2, <2>1
<1>6. \A b \in Builders : pc[b] \in {"idle", "evidence"} \cup Clean => final # b
  BY DEF IInv, Naming, Named, Undisturbed
<1>7. ASSUME NEW b \in Builders, CheckFinal(b) PROVE [Atomic!Next]_(Atomic!vars)
  <2>1. PICK p \in {"evidence", "refused"} :
          pc[b] = "idle" /\ pc' = [pc EXCEPT ![b] = p] /\ UNCHANGED final
    BY <1>7 DEF CheckFinal
  <2> QED
    BY <1>2, <1>6, <2>1
<1>8. ASSUME NEW b \in Builders, LeaseLost(b) \/ RemoveName(b)
      PROVE  [Atomic!Next]_(Atomic!vars)
  <2>1. PICK p \in {"uncleaned", "failed"} :
          /\ pc[b] \in {"evidence", "removing"} /\ pc' = [pc EXCEPT ![b] = p]
          /\ UNCHANGED final
    BY <1>8 DEF LeaseLost, RemoveName
  <2> QED
    BY <1>2, <1>6, <2>1
<1>9. ASSUME NEW b \in Builders, StepFails(b) PROVE [Atomic!Next]_(Atomic!vars)
  <2>1. pc[b] \in Points \ Done /\ pc' = [pc EXCEPT ![b] = Handler(pc[b])] /\ UNCHANGED final
    BY <1>9 DEF StepFails, IInv, TypeOK
  <2>2. CASE pc[b] \in {"idle", "evidence"} \cup Clean
    <3>1. PICK p \in {"failed", "uncleaned"} : pc' = [pc EXCEPT ![b] = p]
      BY <2>1, <2>2
    <3> QED
      BY <1>2, <1>6, <2>1, <2>2, <3>1
  <2>3. CASE pc[b] \notin {"idle", "evidence"} \cup Clean
    <3>1. PICK p \in {"undoing", "cleaning"} : pc' = [pc EXCEPT ![b] = p]
      BY <2>1, <2>3
    <3> QED
      BY <1>2, <2>1, <3>1
  <2> QED
    BY <2>2, <2>3
<1>10. ASSUME NEW b \in Builders, Crash(b) PROVE [Atomic!Next]_(Atomic!vars)
  <2>1. pc[b] \notin Done /\ pc' = [pc EXCEPT ![b] = "crashed"] /\ UNCHANGED final
    BY <1>10 DEF Crash
  <2> QED
    BY <1>2, <2>1
<1>11. ASSUME NEW b \in Builders,
              \/ CreateLease(b) \/ ExportBegin(b) \/ ExportWrite(b) \/ FinalizeBegin(b)
              \/ WriteManifest(b) \/ ValidateFinal(b) \/ PublishBegin(b)
              \/ CheckDestination(b) \/ Seal(b) \/ VerifySealed(b) \/ Flush(b)
              \/ VerifyFlushed(b) \/ VerifyRenamed(b) \/ RollbackLook(b)
              \/ ConfirmOwn(b) \/ CleanupBegin(b) \/ EmptyTree(b)
       PROVE  [Atomic!Next]_(Atomic!vars)
  <2>1. PICK p \in Points \ Done :
          pc[b] \notin Done /\ pc' = [pc EXCEPT ![b] = p] /\ UNCHANGED final
    BY <1>11 DEF CreateLease, ExportBegin, ExportWrite, FinalizeBegin, WriteManifest,
       ValidateFinal, PublishBegin, CheckDestination, Seal, VerifySealed, Flush,
       VerifyFlushed, VerifyRenamed, RollbackLook, ConfirmOwn, CleanupBegin, EmptyTree
  <2> QED
    BY <1>2, <2>1
<1>12. ASSUME NEW b \in Builders, PutBack(b) PROVE FALSE
  BY <1>12 DEF PutBack, Undisturbed
<1>13. ASSUME NEW b \in Builders,
              WriterOpen(b) \/ WriterEnter(b) \/ WriterEdit(b) \/ WriterLeave(b) \/ StrayEdit(b)
       PROVE  UNCHANGED <<final, pc>>
  BY <1>13 DEF WriterOpen, WriterEnter, WriterEdit, WriterLeave, StrayEdit
<1>14. ~Retire
  <2> SUFFICES ASSUME Retire PROVE FALSE
    OBVIOUS
  <2>1. final \in Builders
    BY DEF Retire, IInv, TypeOK
  <2>2. retired = {}
    BY <2>1 DEF Undisturbed
  <2>3. Cardinality(retired) = 0
    BY <2>2, FS_EmptySet
  <2> QED
    BY <2>3 DEF Retire
<1>15. CASE PowerLoss
  <2>1. PICK f \in durable : final' = f
    BY <1>15 DEF PowerLoss
  <2> DEFINE dead == {b \in Builders : pc[b] \notin Done \cup {"idle"}}
  <2>2. \A b \in Builders : /\ b \in dead => Outcome(b) = "running" /\ pc'[b] = "crashed"
                            /\ Outcome(b)' = IF b \in dead THEN "crashed" ELSE Outcome(b)
    BY <1>15 DEF PowerLoss, Outcome, IInv, TypeOK
  <2>3. reports' = [b \in Builders |-> IF b \in dead THEN "crashed" ELSE reports[b]]
    BY <2>2
  <2>4. dead \in SUBSET {b \in Builders : reports[b] = "running"}
    BY <2>2
  <2>5. f # NoTree => /\ f \in Builders
                      /\ pc[f] = "published" \/ reports'[f] = "crashed"
    <3> SUFFICES ASSUME f # NoTree
                 PROVE  f \in Builders /\ (pc[f] = "published" \/ reports'[f] = "crashed")
      OBVIOUS
    <3>1. f \in Builders /\ Named(f)
      BY DEF IInv, TypeOK, Named
    <3>2. pc[f] \in FromRename \cup {"crashed"}
      BY <3>1 DEF IInv, Naming, Undisturbed
    <3>3. pc[f] = "crashed" => Outcome(f)' = "crashed"
      BY <2>2, <3>1 DEF Outcome
    <3> QED
      BY <2>2, <3>1, <3>2, <3>3
  <2>6. \A b \in Builders : reports[b] = "published" => final = b /\ durable = {b}
    BY DEF Outcome, Undisturbed
  <2>7. IF final # NoTree /\ reports[final] = "published"
        THEN UNCHANGED final
        ELSE final' \in {NoTree} \cup {b \in Builders : reports'[b] = "crashed"}
    <3>1. CASE final # NoTree /\ reports[final] = "published"
      BY <2>1, <2>6, <3>1 DEF IInv, TypeOK
    <3>2. CASE ~(final # NoTree /\ reports[final] = "published")
      <4>1. f \in Builders => pc[f] # "published"
        BY <2>6, <3>2 DEF Outcome
      <4> QED
        BY <2>1, <2>5, <3>2, <4>1
    <3> QED
      BY <3>1, <3>2
  <2>8. Atomic!PowerLoss
    BY <2>3, <2>4, <2>7 DEF Atomic!PowerLoss
  <2> QED
    BY <2>8 DEF Atomic!Next
<1>16. CASE UNCHANGED vars
  BY <1>1, <1>16 DEF vars
<1> QED
  BY <1>1, <1>3, <1>4, <1>5, <1>7, <1>8, <1>9, <1>10, <1>11, <1>12, <1>13, <1>14,
     <1>15, <1>16 DEF Next, Progress, Terminated, vars

(* Publication is a slot that is claimed in one step while it is empty, that *)
(* only its owner empties, and that keeps what was reported.  (Without an    *)
(* operator, and while no call of a rollback is refused.)                    *)
THEOREM Refinement ==
    ASSUME MaxRetired = 0, FaultPoints \cap Undo = {}
    PROVE  Spec => ImplementsAtomic
<1> DEFINE Kept == \A b \in Builders : Undisturbed(b)
<1>1. Init => Kept /\ Atomic!Init
  BY DEF Init, Undisturbed, Outcome, Atomic!Init
<1>2. IInv /\ Kept /\ [Next]_vars => Kept'
  BY UndisturbedStep
<1>3. IInv /\ Kept /\ [Next]_vars => [Atomic!Next]_(Atomic!vars)
  BY AtomicStep
<1> QED
  BY <1>1, <1>2, <1>3, Invariance, PTL DEF Spec, ImplementsAtomic, Atomic!Spec

==============================================================================
