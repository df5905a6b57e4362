-------------------------- MODULE BuildPipelineProofs --------------------------
(* Proofs about BuildPipeline, for every set of recordings and every number  *)
(* of workers, whatever fails.                                               *)
EXTENDS BuildPipeline, TLAPS

USE FailAssumption
   DEF Stages, Loops, Ended, Phases, InThread, Success, Handling, At, Move, Failures

(* Every step keeps the type invariant. *)
LEMMA Typing ==
    ASSUME IInv, [Next]_vars
    PROVE  TypeOK'
<1> USE DEF IInv, TypeOK
<1>1. ASSUME NEW r \in Recordings, Prepare(r) PROVE TypeOK'
  BY <1>1 DEF Prepare
<1>2. ASSUME NEW r \in Recordings, PreparationFails(r) PROVE TypeOK'
  BY <1>2 DEF PreparationFails, Quarantine
<1>3. ASSUME NEW r \in Recordings, BeginRecording(r) PROVE TypeOK'
  BY <1>3 DEF BeginRecording
<1>4. ASSUME NEW r \in Recordings, ObtainTree(r) PROVE TypeOK'
  BY <1>4 DEF ObtainTree
<1>5. ASSUME NEW r \in Recordings, ExtractionFails(r) PROVE TypeOK'
  BY <1>5 DEF ExtractionFails, Quarantine
<1>6. ASSUME NEW r \in Recordings, Register(r) PROVE TypeOK'
  BY <1>6 DEF Register
<1>7. ASSUME NEW r \in Recordings, HandoffFails(r) PROVE TypeOK'
  BY <1>7 DEF HandoffFails, Quarantine
<1>8. ASSUME NEW r \in Recordings, StoreInCache(r) PROVE TypeOK'
  BY <1>8 DEF StoreInCache
<1>9. ASSUME NEW r \in Recordings, StoreFails(r) PROVE TypeOK'
  BY <1>9 DEF StoreFails, Quarantine
<1>10. ASSUME NEW r \in Recordings, ChecksPass(r) PROVE TypeOK'
  BY <1>10 DEF ChecksPass
<1>11. ASSUME NEW r \in Recordings, ChecksFail(r) PROVE TypeOK'
  BY <1>11 DEF ChecksFail, Quarantine
<1>12. ASSUME NEW r \in Recordings, LoopStep(r) PROVE TypeOK'
  BY <1>12 DEF LoopStep, LoopInput, LoopOutput
<1>13. ASSUME NEW r \in Recordings, LoopFails(r) PROVE TypeOK'
  BY <1>13 DEF LoopFails, Quarantine, LoopInput
<1>14. CASE SourceFails
  BY <1>14 DEF SourceFails
<1>15. CASE StartThreads
  BY <1>15 DEF StartThreads
<1>16. CASE CoordinatorGate
  BY <1>16 DEF CoordinatorGate
<1>17. CASE LoopEnds
  BY <1>17 DEF LoopEnds, LoopInput, LoopNext
<1>18. CASE PreserveTrees
  BY <1>18 DEF PreserveTrees
<1>19. CASE WriteRejections
  BY <1>19 DEF WriteRejections
<1>20. CASE PublicationGate
  BY <1>20 DEF PublicationGate
<1>21. CASE Select
  BY <1>21 DEF Select
<1>22. CASE Export
  BY <1>22 DEF Export, CleanupAll
<1>23. CASE ExportFails
  BY <1>23 DEF ExportFails
<1>24. CASE Publish
  BY <1>24 DEF Publish
<1>25. CASE Abort
  BY <1>25 DEF Abort, CleanupAll
<1>26. CASE UNCHANGED vars
  BY <1>26 DEF vars
<1> QED
  BY <1>1, <1>2, <1>3, <1>4, <1>5, <1>6, <1>7, <1>8, <1>9, <1>10, <1>11,
     <1>12, <1>13, <1>14, <1>15, <1>16, <1>17, <1>18, <1>19, <1>20, <1>21,
     <1>22, <1>23, <1>24, <1>25, <1>26
     DEF Next, Main, Recording, Processing, Terminated

(* A step keeps every recording within what its phase allows. *)
LEMMA ReachStep ==
    ASSUME IInv, [Next]_vars
    PROVE  \A q \in Recordings : stage'[q] \in Reached(phase')
<1> USE DEF IInv, TypeOK, Reached
<1>1. ASSUME NEW r \in Recordings, Prepare(r) PROVE \A q \in Recordings : stage'[q] \in Reached(phase')
  BY <1>1 DEF Prepare
<1>2. ASSUME NEW r \in Recordings, PreparationFails(r) PROVE \A q \in Recordings : stage'[q] \in Reached(phase')
  BY <1>2 DEF PreparationFails, Quarantine
<1>3. ASSUME NEW r \in Recordings, BeginRecording(r) PROVE \A q \in Recordings : stage'[q] \in Reached(phase')
  BY <1>3 DEF BeginRecording
<1>4. ASSUME NEW r \in Recordings, ObtainTree(r) PROVE \A q \in Recordings : stage'[q] \in Reached(phase')
  BY <1>4 DEF ObtainTree
<1>5. ASSUME NEW r \in Recordings, ExtractionFails(r) PROVE \A q \in Recordings : stage'[q] \in Reached(phase')
  BY <1>5 DEF ExtractionFails, Quarantine
<1>6. ASSUME NEW r \in Recordings, Register(r) PROVE \A q \in Recordings : stage'[q] \in Reached(phase')
  BY <1>6 DEF Register
<1>7. ASSUME NEW r \in Recordings, HandoffFails(r) PROVE \A q \in Recordings : stage'[q] \in Reached(phase')
  BY <1>7 DEF HandoffFails, Quarantine
<1>8. ASSUME NEW r \in Recordings, StoreInCache(r) PROVE \A q \in Recordings : stage'[q] \in Reached(phase')
  BY <1>8 DEF StoreInCache
<1>9. ASSUME NEW r \in Recordings, StoreFails(r) PROVE \A q \in Recordings : stage'[q] \in Reached(phase')
  BY <1>9 DEF StoreFails, Quarantine
<1>10. ASSUME NEW r \in Recordings, ChecksPass(r) PROVE \A q \in Recordings : stage'[q] \in Reached(phase')
  BY <1>10 DEF ChecksPass
<1>11. ASSUME NEW r \in Recordings, ChecksFail(r) PROVE \A q \in Recordings : stage'[q] \in Reached(phase')
  BY <1>11 DEF ChecksFail, Quarantine
<1>12. ASSUME NEW r \in Recordings, LoopStep(r) PROVE \A q \in Recordings : stage'[q] \in Reached(phase')
  BY <1>12 DEF LoopStep, LoopInput, LoopOutput
<1>13. ASSUME NEW r \in Recordings, LoopFails(r) PROVE \A q \in Recordings : stage'[q] \in Reached(phase')
  BY <1>13 DEF LoopFails, Quarantine, LoopInput
<1>14. CASE SourceFails
  BY <1>14 DEF SourceFails
<1>15. CASE StartThreads
  BY <1>15 DEF StartThreads
<1>16. CASE CoordinatorGate
  BY <1>16 DEF CoordinatorGate
<1>17. CASE LoopEnds
  BY <1>17 DEF LoopEnds, LoopInput, LoopNext
<1>18. CASE PreserveTrees
  BY <1>18 DEF PreserveTrees
<1>19. CASE WriteRejections
  BY <1>19 DEF WriteRejections
<1>20. CASE PublicationGate
  BY <1>20 DEF PublicationGate
<1>21. CASE Select
  BY <1>21 DEF Select
<1>22. CASE Export
  BY <1>22 DEF Export, CleanupAll
<1>23. CASE ExportFails
  BY <1>23 DEF ExportFails
<1>24. CASE Publish
  BY <1>24 DEF Publish
<1>25. CASE Abort
  BY <1>25 DEF Abort, CleanupAll
<1>26. CASE UNCHANGED vars
  BY <1>26 DEF vars
<1> QED
  BY <1>1, <1>2, <1>3, <1>4, <1>5, <1>6, <1>7, <1>8, <1>9, <1>10, <1>11,
     <1>12, <1>13, <1>14, <1>15, <1>16, <1>17, <1>18, <1>19, <1>20, <1>21,
     <1>22, <1>23, <1>24, <1>25, <1>26
     DEF Next, Main, Recording, Processing, Terminated

(* A step leaves somebody who answers for each tree. *)
LEMMA OwnStep ==
    ASSUME IInv, [Next]_vars
    PROVE  \A q \in Recordings : Owning(q)'
<1> USE DEF IInv, TypeOK, Reached, Owning, Reporting
<1>1. ASSUME NEW r \in Recordings, Prepare(r) PROVE \A q \in Recordings : Owning(q)'
  BY <1>1 DEF Prepare
<1>2. ASSUME NEW r \in Recordings, PreparationFails(r) PROVE \A q \in Recordings : Owning(q)'
  BY <1>2 DEF PreparationFails, Quarantine
<1>3. ASSUME NEW r \in Recordings, BeginRecording(r) PROVE \A q \in Recordings : Owning(q)'
  BY <1>3 DEF BeginRecording
<1>4. ASSUME NEW r \in Recordings, ObtainTree(r) PROVE \A q \in Recordings : Owning(q)'
  BY <1>4 DEF ObtainTree
<1>5. ASSUME NEW r \in Recordings, ExtractionFails(r) PROVE \A q \in Recordings : Owning(q)'
  BY <1>5 DEF ExtractionFails, Quarantine
<1>6. ASSUME NEW r \in Recordings, Register(r) PROVE \A q \in Recordings : Owning(q)'
  BY <1>6 DEF Register
<1>7. ASSUME NEW r \in Recordings, HandoffFails(r) PROVE \A q \in Recordings : Owning(q)'
  BY <1>7 DEF HandoffFails, Quarantine
<1>8. ASSUME NEW r \in Recordings, StoreInCache(r) PROVE \A q \in Recordings : Owning(q)'
  BY <1>8 DEF StoreInCache
<1>9. ASSUME NEW r \in Recordings, StoreFails(r) PROVE \A q \in Recordings : Owning(q)'
  BY <1>9 DEF StoreFails, Quarantine
<1>10. ASSUME NEW r \in Recordings, ChecksPass(r) PROVE \A q \in Recordings : Owning(q)'
  BY <1>10 DEF ChecksPass
<1>11. ASSUME NEW r \in Recordings, ChecksFail(r) PROVE \A q \in Recordings : Owning(q)'
  BY <1>11 DEF ChecksFail, Quarantine
<1>12. ASSUME NEW r \in Recordings, LoopStep(r) PROVE \A q \in Recordings : Owning(q)'
  BY <1>12 DEF LoopStep, LoopInput, LoopOutput
<1>13. ASSUME NEW r \in Recordings, LoopFails(r) PROVE \A q \in Recordings : Owning(q)'
  BY <1>13 DEF LoopFails, Quarantine, LoopInput
<1>14. CASE SourceFails
  BY <1>14 DEF SourceFails
<1>15. CASE StartThreads
  BY <1>15 DEF StartThreads
<1>16. CASE CoordinatorGate
  BY <1>16 DEF CoordinatorGate
<1>17. CASE LoopEnds
  BY <1>17 DEF LoopEnds, LoopInput, LoopNext
<1>18. CASE PreserveTrees
  BY <1>18 DEF PreserveTrees
<1>19. CASE WriteRejections
  BY <1>19 DEF WriteRejections
<1>20. CASE PublicationGate
  BY <1>20 DEF PublicationGate
<1>21. CASE Select
  BY <1>21 DEF Select
<1>22. CASE Export
  BY <1>22 DEF Export, CleanupAll
<1>23. CASE ExportFails
  BY <1>23 DEF ExportFails
<1>24. CASE Publish
  BY <1>24 DEF Publish
<1>25. CASE Abort
  BY <1>25 DEF Abort, CleanupAll
<1>26. CASE UNCHANGED vars
  BY <1>26 DEF vars
<1> QED
  BY <1>1, <1>2, <1>3, <1>4, <1>5, <1>6, <1>7, <1>8, <1>9, <1>10, <1>11,
     <1>12, <1>13, <1>14, <1>15, <1>16, <1>17, <1>18, <1>19, <1>20, <1>21,
     <1>22, <1>23, <1>24, <1>25, <1>26
     DEF Next, Main, Recording, Processing, Terminated

(* A step keeps what the reports say of the trees. *)
LEMMA ReportStep ==
    ASSUME IInv, [Next]_vars
    PROVE  \A q \in Recordings : Reporting(q)'
<1> USE DEF IInv, TypeOK, Reached, Owning, Reporting
<1>1. ASSUME NEW r \in Recordings, Prepare(r) PROVE \A q \in Recordings : Reporting(q)'
  BY <1>1 DEF Prepare
<1>2. ASSUME NEW r \in Recordings, PreparationFails(r) PROVE \A q \in Recordings : Reporting(q)'
  BY <1>2 DEF PreparationFails, Quarantine
<1>3. ASSUME NEW r \in Recordings, BeginRecording(r) PROVE \A q \in Recordings : Reporting(q)'
  BY <1>3 DEF BeginRecording
<1>4. ASSUME NEW r \in Recordings, ObtainTree(r) PROVE \A q \in Recordings : Reporting(q)'
  BY <1>4 DEF ObtainTree
<1>5. ASSUME NEW r \in Recordings, ExtractionFails(r) PROVE \A q \in Recordings : Reporting(q)'
  BY <1>5 DEF ExtractionFails, Quarantine
<1>6. ASSUME NEW r \in Recordings, Register(r) PROVE \A q \in Recordings : Reporting(q)'
  BY <1>6 DEF Register
<1>7. ASSUME NEW r \in Recordings, HandoffFails(r) PROVE \A q \in Recordings : Reporting(q)'
  BY <1>7 DEF HandoffFails, Quarantine
<1>8. ASSUME NEW r \in Recordings, StoreInCache(r) PROVE \A q \in Recordings : Reporting(q)'
  BY <1>8 DEF StoreInCache
<1>9. ASSUME NEW r \in Recordings, StoreFails(r) PROVE \A q \in Recordings : Reporting(q)'
  BY <1>9 DEF StoreFails, Quarantine
<1>10. ASSUME NEW r \in Recordings, ChecksPass(r) PROVE \A q \in Recordings : Reporting(q)'
  BY <1>10 DEF ChecksPass
<1>11. ASSUME NEW r \in Recordings, ChecksFail(r) PROVE \A q \in Recordings : Reporting(q)'
  BY <1>11 DEF ChecksFail, Quarantine
<1>12. ASSUME NEW r \in Recordings, LoopStep(r) PROVE \A q \in Recordings : Reporting(q)'
  BY <1>12 DEF LoopStep, LoopInput, LoopOutput
<1>13. ASSUME NEW r \in Recordings, LoopFails(r) PROVE \A q \in Recordings : Reporting(q)'
  BY <1>13 DEF LoopFails, Quarantine, LoopInput
<1>14. CASE SourceFails
  BY <1>14 DEF SourceFails
<1>15. CASE StartThreads
  BY <1>15 DEF StartThreads
<1>16. CASE CoordinatorGate
  BY <1>16 DEF CoordinatorGate
<1>17. CASE LoopEnds
  BY <1>17 DEF LoopEnds, LoopInput, LoopNext
<1>18. CASE PreserveTrees
  BY <1>18 DEF PreserveTrees
<1>19. CASE WriteRejections
  BY <1>19 DEF WriteRejections
<1>20. CASE PublicationGate
  BY <1>20 DEF PublicationGate
<1>21. CASE Select
  BY <1>21 DEF Select
<1>22. CASE Export
  BY <1>22 DEF Export, CleanupAll
<1>23. CASE ExportFails
  BY <1>23 DEF ExportFails
<1>24. CASE Publish
  BY <1>24 DEF Publish
<1>25. CASE Abort
  BY <1>25 DEF Abort, CleanupAll
<1>26. CASE UNCHANGED vars
  BY <1>26 DEF vars
<1> QED
  BY <1>1, <1>2, <1>3, <1>4, <1>5, <1>6, <1>7, <1>8, <1>9, <1>10, <1>11,
     <1>12, <1>13, <1>14, <1>15, <1>16, <1>17, <1>18, <1>19, <1>20, <1>21,
     <1>22, <1>23, <1>24, <1>25, <1>26
     DEF Next, Main, Recording, Processing, Terminated

(* A step passes the gate only with an authorised publication. *)
LEMMA GateStep ==
    ASSUME IInv, [Next]_vars
    PROVE  /\ PublicationIsAuthorised'
           /\ (phase = "gate" /\ Failures # {} /\ QuarantineComplete => manifest = "written")'
<1> USE DEF IInv, TypeOK, Reached, Reporting, PublicationIsAuthorised, QuarantineComplete
<1>1. ASSUME NEW r \in Recordings, Prepare(r) PROVE /\ PublicationIsAuthorised'
           /\ (phase = "gate" /\ Failures # {} /\ QuarantineComplete => manifest = "written")'
  BY <1>1 DEF Prepare
<1>2. ASSUME NEW r \in Recordings, PreparationFails(r) PROVE /\ PublicationIsAuthorised'
           /\ (phase = "gate" /\ Failures # {} /\ QuarantineComplete => manifest = "written")'
  BY <1>2 DEF PreparationFails, Quarantine
<1>3. ASSUME NEW r \in Recordings, BeginRecording(r) PROVE /\ PublicationIsAuthorised'
           /\ (phase = "gate" /\ Failures # {} /\ QuarantineComplete => manifest = "written")'
  BY <1>3 DEF BeginRecording
<1>4. ASSUME NEW r \in Recordings, ObtainTree(r) PROVE /\ PublicationIsAuthorised'
           /\ (phase = "gate" /\ Failures # {} /\ QuarantineComplete => manifest = "written")'
  BY <1>4 DEF ObtainTree
<1>5. ASSUME NEW r \in Recordings, ExtractionFails(r) PROVE /\ PublicationIsAuthorised'
           /\ (phase = "gate" /\ Failures # {} /\ QuarantineComplete => manifest = "written")'
  BY <1>5 DEF ExtractionFails, Quarantine
<1>6. ASSUME NEW r \in Recordings, Register(r) PROVE /\ PublicationIsAuthorised'
           /\ (phase = "gate" /\ Failures # {} /\ QuarantineComplete => manifest = "written")'
  BY <1>6 DEF Register
<1>7. ASSUME NEW r \in Recordings, HandoffFails(r) PROVE /\ PublicationIsAuthorised'
           /\ (phase = "gate" /\ Failures # {} /\ QuarantineComplete => manifest = "written")'
  BY <1>7 DEF HandoffFails, Quarantine
<1>8. ASSUME NEW r \in Recordings, StoreInCache(r) PROVE /\ PublicationIsAuthorised'
           /\ (phase = "gate" /\ Failures # {} /\ QuarantineComplete => manifest = "written")'
  BY <1>8 DEF StoreInCache
<1>9. ASSUME NEW r \in Recordings, StoreFails(r) PROVE /\ PublicationIsAuthorised'
           /\ (phase = "gate" /\ Failures # {} /\ QuarantineComplete => manifest = "written")'
  BY <1>9 DEF StoreFails, Quarantine
<1>10. ASSUME NEW r \in Recordings, ChecksPass(r) PROVE /\ PublicationIsAuthorised'
           /\ (phase = "gate" /\ Failures # {} /\ QuarantineComplete => manifest = "written")'
  BY <1>10 DEF ChecksPass
<1>11. ASSUME NEW r \in Recordings, ChecksFail(r) PROVE /\ PublicationIsAuthorised'
           /\ (phase = "gate" /\ Failures # {} /\ QuarantineComplete => manifest = "written")'
  BY <1>11 DEF ChecksFail, Quarantine
<1>12. ASSUME NEW r \in Recordings, LoopStep(r) PROVE /\ PublicationIsAuthorised'
           /\ (phase = "gate" /\ Failures # {} /\ QuarantineComplete => manifest = "written")'
  BY <1>12 DEF LoopStep, LoopInput, LoopOutput
<1>13. ASSUME NEW r \in Recordings, LoopFails(r) PROVE /\ PublicationIsAuthorised'
           /\ (phase = "gate" /\ Failures # {} /\ QuarantineComplete => manifest = "written")'
  BY <1>13 DEF LoopFails, Quarantine, LoopInput
<1>14. CASE SourceFails
  BY <1>14 DEF SourceFails
<1>15. CASE StartThreads
  BY <1>15 DEF StartThreads
<1>16. CASE CoordinatorGate
  BY <1>16 DEF CoordinatorGate
<1>17. CASE LoopEnds
  BY <1>17 DEF LoopEnds, LoopInput, LoopNext
<1>18. CASE PreserveTrees
  BY <1>18 DEF PreserveTrees
<1>19. CASE WriteRejections
  BY <1>19 DEF WriteRejections
<1>20. CASE PublicationGate
  BY <1>20 DEF PublicationGate
<1>21. CASE Select
  BY <1>21 DEF Select
<1>22. CASE Export
  BY <1>22 DEF Export, CleanupAll
<1>23. CASE ExportFails
  BY <1>23 DEF ExportFails
<1>24. CASE Publish
  BY <1>24 DEF Publish
<1>25. CASE Abort
  BY <1>25 DEF Abort, CleanupAll
<1>26. CASE UNCHANGED vars
  BY <1>26 DEF vars
<1> QED
  BY <1>1, <1>2, <1>3, <1>4, <1>5, <1>6, <1>7, <1>8, <1>9, <1>10, <1>11,
     <1>12, <1>13, <1>14, <1>15, <1>16, <1>17, <1>18, <1>19, <1>20, <1>21,
     <1>22, <1>23, <1>24, <1>25, <1>26
     DEF Next, Main, Recording, Processing, Terminated

(* The invariant the properties below rest on: how far the recordings are in *)
(* each phase, who answers for each tree, and what each report says of it.   *)
THEOREM Invariance == Spec => []IInv
<1>1. Init => IInv
  BY DEF Init, IInv, TypeOK, PublicationIsAuthorised, Reached, Owning, Reporting
<1>2. IInv /\ [Next]_vars => IInv'
  <2> SUFFICES ASSUME IInv, [Next]_vars PROVE IInv'
    OBVIOUS
  <2>1. TypeOK' /\ PublicationIsAuthorised'
    BY Typing, GateStep
  <2>2. \A q \in Recordings : stage'[q] \in Reached(phase') /\ Owning(q)' /\ Reporting(q)'
    BY ReachStep, OwnStep, ReportStep
  <2>3. (phase = "gate" /\ Failures # {} /\ QuarantineComplete => manifest = "written")'
    BY GateStep
  <2> QED
    BY <2>1, <2>2, <2>3 DEF IInv
<1> QED
  BY <1>1, <1>2, PTL DEF Spec

(* Every variable holds a value of the kind the code gives it.               *)
THEOREM TypeCorrect == Spec => []TypeOK
<1>1. IInv => TypeOK
  BY DEF IInv
<1> QED
  BY <1>1, Invariance, PTL

(* Nothing is selected, exported or published while a failure of any stage   *)
(* is not on record, owes a cleanup or was not allowed by the configuration. *)
THEOREM PublicationStaysAuthorised == Spec => []PublicationIsAuthorised
<1>1. IInv => PublicationIsAuthorised
  BY DEF IInv
<1> QED
  BY <1>1, Invariance, PTL

(* Every recording the export reads still has its working tree.              *)
THEOREM ExportFindsItsTrees == Spec => []ExportReadsLiveTrees
<1>1. IInv => ExportReadsLiveTrees
  BY DEF IInv, Owning, ExportReadsLiveTrees
<1> QED
  BY <1>1, Invariance, PTL

(* No working tree is left that neither a report nor an error names.         *)
THEOREM TreesStayAccounted == Spec => []NoUnaccountedTree
<1>1. IInv => NoUnaccountedTree
  BY DEF IInv, Owning, Reached, NoUnaccountedTree
<1> QED
  BY <1>1, Invariance, PTL

(* A published build removed what it exported and kept what its reports call *)
(* preserved.                                                                *)
THEOREM PublicationKeepsQuarantine == Spec => []PublishedKeepsQuarantine
<1>1. IInv => PublishedKeepsQuarantine
  BY DEF IInv, Owning, Reporting, PublishedKeepsQuarantine
<1> QED
  BY <1>1, Invariance, PTL

================================================================================
