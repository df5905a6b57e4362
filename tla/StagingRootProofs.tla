-------------------------- MODULE StagingRootProofs --------------------------
(* Proofs about StagingRoot, for every set of recordings and every pool.     *)
EXTENDS StagingRoot, TLAPS

USE NoOneAssumption, WorkersAssumption, FaultAssumption
   DEF Kinds, Directories, Creating, Owning, Done, Points, Dir, Goto, GiveUp,
       Owe, Unlock, Undisturbed, Observe

(* Every step keeps the type invariant. *)
LEMMA Typing == TypeOK /\ [Next]_vars => TypeOK'
<1> SUFFICES ASSUME TypeOK, [Next]_vars PROVE TypeOK'
  OBVIOUS
<1> USE DEF TypeOK
<1>1. ASSUME NEW r \in Recordings, Begin(r) PROVE TypeOK'
  BY <1>1 DEF Begin
<1>2. ASSUME NEW r \in Recordings, Lock(r) PROVE TypeOK'
  BY <1>2 DEF Lock
<1>3. ASSUME NEW r \in Recordings, ListRoot(r) PROVE TypeOK'
  BY <1>3 DEF ListRoot
<1>4. ASSUME NEW r \in Recordings, MakeDirectory(r) PROVE TypeOK'
  BY <1>4 DEF MakeDirectory
<1>5. ASSUME NEW r \in Recordings, Identify(r) PROVE TypeOK'
  BY <1>5 DEF Identify
<1>6. ASSUME NEW r \in Recordings, Confirm(r) PROVE TypeOK'
  BY <1>6 DEF Confirm
<1>7. ASSUME NEW r \in Recordings, UndoCreation(r) PROVE TypeOK'
  BY <1>7 DEF UndoCreation
<1>8. ASSUME NEW r \in Recordings, Fill(r) PROVE TypeOK'
  BY <1>8 DEF Fill
<1>9. ASSUME NEW r \in Recordings, StaleCopy(r) PROVE TypeOK'
  BY <1>9 DEF StaleCopy
<1>10. ASSUME NEW r \in Recordings, RollBack(r) PROVE TypeOK'
  BY <1>10 DEF RollBack
<1>11. ASSUME NEW r \in Recordings, HandOff(r) PROVE TypeOK'
  BY <1>11 DEF HandOff
<1>12. ASSUME NEW r \in Recordings, Store(r) PROVE TypeOK'
  BY <1>12 DEF Store
<1>13. ASSUME NEW r \in Recordings, CleanUp(r) PROVE TypeOK'
  BY <1>13 DEF CleanUp
<1>14. ASSUME NEW r \in Recordings, StepFails(r) PROVE TypeOK'
  BY <1>14 DEF StepFails
<1>15. CASE UNCHANGED vars
  BY <1>15 DEF vars
<1> QED
  BY <1>1, <1>2, <1>3, <1>4, <1>5, <1>6, <1>7, <1>8, <1>9, <1>10, <1>11,
     <1>12, <1>13, <1>14, <1>15
     DEF Next, Progress, Terminated

(* A step leaves the lock with exactly the recording that creates a directory. *)
LEMMA LockStep == IInv /\ [Next]_vars => LockIsHeld'
<1> SUFFICES ASSUME IInv, [Next]_vars PROVE LockIsHeld'
  OBVIOUS
<1> USE DEF IInv, TypeOK, LockIsHeld
<1>1. ASSUME NEW r \in Recordings, Begin(r) PROVE LockIsHeld'
  BY <1>1 DEF Begin
<1>2. ASSUME NEW r \in Recordings, Lock(r) PROVE LockIsHeld'
  BY <1>2 DEF Lock
<1>3. ASSUME NEW r \in Recordings, ListRoot(r) PROVE LockIsHeld'
  BY <1>3 DEF ListRoot
<1>4. ASSUME NEW r \in Recordings, MakeDirectory(r) PROVE LockIsHeld'
  BY <1>4 DEF MakeDirectory
<1>5. ASSUME NEW r \in Recordings, Identify(r) PROVE LockIsHeld'
  BY <1>5 DEF Identify
<1>6. ASSUME NEW r \in Recordings, Confirm(r) PROVE LockIsHeld'
  BY <1>6 DEF Confirm
<1>7. ASSUME NEW r \in Recordings, UndoCreation(r) PROVE LockIsHeld'
  BY <1>7 DEF UndoCreation
<1>8. ASSUME NEW r \in Recordings, Fill(r) PROVE LockIsHeld'
  BY <1>8 DEF Fill
<1>9. ASSUME NEW r \in Recordings, StaleCopy(r) PROVE LockIsHeld'
  BY <1>9 DEF StaleCopy
<1>10. ASSUME NEW r \in Recordings, RollBack(r) PROVE LockIsHeld'
  BY <1>10 DEF RollBack
<1>11. ASSUME NEW r \in Recordings, HandOff(r) PROVE LockIsHeld'
  BY <1>11 DEF HandOff
<1>12. ASSUME NEW r \in Recordings, Store(r) PROVE LockIsHeld'
  BY <1>12 DEF Store
<1>13. ASSUME NEW r \in Recordings, CleanUp(r) PROVE LockIsHeld'
  BY <1>13 DEF CleanUp
<1>14. ASSUME NEW r \in Recordings, StepFails(r) PROVE LockIsHeld'
  BY <1>14 DEF StepFails
<1>15. CASE UNCHANGED vars
  BY <1>15 DEF vars
<1> QED
  BY <1>1, <1>2, <1>3, <1>4, <1>5, <1>6, <1>7, <1>8, <1>9, <1>10, <1>11,
     <1>12, <1>13, <1>14, <1>15
     DEF Next, Progress, Terminated

(* No step of another recording adds to the listing a creator compares with. *)
LEMMA CreatorStep == IInv /\ [Next]_vars => CreatorsAreSerialised'
<1> SUFFICES ASSUME IInv, [Next]_vars PROVE CreatorsAreSerialised'
  OBVIOUS
<1> USE DEF IInv, TypeOK, LockIsHeld, CreatorsAreSerialised, Standing
<1>1. ASSUME NEW r \in Recordings, Begin(r) PROVE CreatorsAreSerialised'
  BY <1>1 DEF Begin
<1>2. ASSUME NEW r \in Recordings, Lock(r) PROVE CreatorsAreSerialised'
  BY <1>2 DEF Lock
<1>3. ASSUME NEW r \in Recordings, ListRoot(r) PROVE CreatorsAreSerialised'
  BY <1>3 DEF ListRoot
<1>4. ASSUME NEW r \in Recordings, MakeDirectory(r) PROVE CreatorsAreSerialised'
  BY <1>4 DEF MakeDirectory
<1>5. ASSUME NEW r \in Recordings, Identify(r) PROVE CreatorsAreSerialised'
  BY <1>5 DEF Identify
<1>6. ASSUME NEW r \in Recordings, Confirm(r) PROVE CreatorsAreSerialised'
  BY <1>6 DEF Confirm
<1>7. ASSUME NEW r \in Recordings, UndoCreation(r) PROVE CreatorsAreSerialised'
  BY <1>7 DEF UndoCreation
<1>8. ASSUME NEW r \in Recordings, Fill(r) PROVE CreatorsAreSerialised'
  BY <1>8 DEF Fill
<1>9. ASSUME NEW r \in Recordings, StaleCopy(r) PROVE CreatorsAreSerialised'
  BY <1>9 DEF StaleCopy
<1>10. ASSUME NEW r \in Recordings, RollBack(r) PROVE CreatorsAreSerialised'
  BY <1>10 DEF RollBack
<1>11. ASSUME NEW r \in Recordings, HandOff(r) PROVE CreatorsAreSerialised'
  BY <1>11 DEF HandOff
<1>12. ASSUME NEW r \in Recordings, Store(r) PROVE CreatorsAreSerialised'
  BY <1>12 DEF Store
<1>13. ASSUME NEW r \in Recordings, CleanUp(r) PROVE CreatorsAreSerialised'
  BY <1>13 DEF CleanUp
<1>14. ASSUME NEW r \in Recordings, StepFails(r) PROVE CreatorsAreSerialised'
  BY <1>14 DEF StepFails
<1>15. CASE UNCHANGED vars
  BY <1>15 DEF vars
<1> QED
  BY <1>1, <1>2, <1>3, <1>4, <1>5, <1>6, <1>7, <1>8, <1>9, <1>10, <1>11,
     <1>12, <1>13, <1>14, <1>15
     DEF Next, Progress, Terminated

(* No step loses a directory. *)
LEMMA LossStep == IInv /\ [Next]_vars => NothingIsLost'
<1> SUFFICES ASSUME IInv, [Next]_vars PROVE NothingIsLost'
  OBVIOUS
<1> USE DEF IInv, TypeOK, NothingIsLost, Standing
<1>1. ASSUME NEW r \in Recordings, Begin(r) PROVE NothingIsLost'
  BY <1>1 DEF Begin
<1>2. ASSUME NEW r \in Recordings, Lock(r) PROVE NothingIsLost'
  BY <1>2 DEF Lock
<1>3. ASSUME NEW r \in Recordings, ListRoot(r) PROVE NothingIsLost'
  BY <1>3 DEF ListRoot
<1>4. ASSUME NEW r \in Recordings, MakeDirectory(r) PROVE NothingIsLost'
  BY <1>4 DEF MakeDirectory
<1>5. ASSUME NEW r \in Recordings, Identify(r) PROVE NothingIsLost'
  BY <1>5 DEF Identify
<1>6. ASSUME NEW r \in Recordings, Confirm(r) PROVE NothingIsLost'
  BY <1>6 DEF Confirm
<1>7. ASSUME NEW r \in Recordings, UndoCreation(r) PROVE NothingIsLost'
  BY <1>7 DEF UndoCreation
<1>8. ASSUME NEW r \in Recordings, Fill(r) PROVE NothingIsLost'
  BY <1>8 DEF Fill
<1>9. ASSUME NEW r \in Recordings, StaleCopy(r) PROVE NothingIsLost'
  BY <1>9 DEF StaleCopy
<1>10. ASSUME NEW r \in Recordings, RollBack(r) PROVE NothingIsLost'
  BY <1>10 DEF RollBack
<1>11. ASSUME NEW r \in Recordings, HandOff(r) PROVE NothingIsLost'
  BY <1>11 DEF HandOff
<1>12. ASSUME NEW r \in Recordings, Store(r) PROVE NothingIsLost'
  <2> SUFFICES ASSUME NEW d \in entries, d \notin registry, d \notin claimed
               PROVE  d = Dir(d[1])' /\ pc'[d[1]] \in Owning
    BY <1>12 DEF Store
  <2>1. d = Dir(d[1]) /\ pc[d[1]] \in Owning /\ d[1] \in Recordings
    OBVIOUS
  <2>2. Dir(r) \in registry
    BY <1>12 DEF Store
  <2>3. d[1] # r
    BY <2>1, <2>2
  <2> QED
    BY <1>12, <2>1, <2>3 DEF Store
<1>13. ASSUME NEW r \in Recordings, CleanUp(r) PROVE NothingIsLost'
  <2> SUFFICES ASSUME NEW d \in entries'
               PROVE  \/ d = Dir(d[1])' /\ pc[d[1]]' \in Owning
                      \/ d \in registry' \/ d \in claimed'
    OBVIOUS
  <2>1. d \in entries /\ d # Dir(r) /\ d[1] \in Recordings
    BY <1>13 DEF CleanUp
  <2>2. d = Dir(d[1]) => d[1] # r
    BY <2>1
  <2> QED
    BY <1>13, <2>1, <2>2 DEF CleanUp
<1>14. ASSUME NEW r \in Recordings, StepFails(r) PROVE NothingIsLost'
  BY <1>14 DEF StepFails
<1>15. CASE UNCHANGED vars
  BY <1>15 DEF vars
<1> QED
  BY <1>1, <1>2, <1>3, <1>4, <1>5, <1>6, <1>7, <1>8, <1>9, <1>10, <1>11,
     <1>12, <1>13, <1>14, <1>15
     DEF Next, Progress, Terminated

(* No step removes a registered directory. *)
LEMMA RegistryStep == IInv /\ [Next]_vars => RegistryIsLive'
<1> SUFFICES ASSUME IInv, [Next]_vars PROVE RegistryIsLive'
  OBVIOUS
<1> USE DEF IInv, TypeOK, RegistryIsLive, Standing
<1>1. ASSUME NEW r \in Recordings, Begin(r) PROVE RegistryIsLive'
  BY <1>1 DEF Begin
<1>2. ASSUME NEW r \in Recordings, Lock(r) PROVE RegistryIsLive'
  BY <1>2 DEF Lock
<1>3. ASSUME NEW r \in Recordings, ListRoot(r) PROVE RegistryIsLive'
  BY <1>3 DEF ListRoot
<1>4. ASSUME NEW r \in Recordings, MakeDirectory(r) PROVE RegistryIsLive'
  BY <1>4 DEF MakeDirectory
<1>5. ASSUME NEW r \in Recordings, Identify(r) PROVE RegistryIsLive'
  BY <1>5 DEF Identify
<1>6. ASSUME NEW r \in Recordings, Confirm(r) PROVE RegistryIsLive'
  BY <1>6 DEF Confirm
<1>7. ASSUME NEW r \in Recordings, UndoCreation(r) PROVE RegistryIsLive'
  <2>1. Dir(r) \notin registry
    BY <1>7 DEF UndoCreation
  <2> QED
    BY <1>7, <2>1 DEF UndoCreation
<1>8. ASSUME NEW r \in Recordings, Fill(r) PROVE RegistryIsLive'
  BY <1>8 DEF Fill
<1>9. ASSUME NEW r \in Recordings, StaleCopy(r) PROVE RegistryIsLive'
  BY <1>9 DEF StaleCopy
<1>10. ASSUME NEW r \in Recordings, RollBack(r) PROVE RegistryIsLive'
  <2>1. Dir(r) \notin registry
    BY <1>10 DEF RollBack
  <2> QED
    BY <1>10, <2>1 DEF RollBack
<1>11. ASSUME NEW r \in Recordings, HandOff(r) PROVE RegistryIsLive'
  BY <1>11 DEF HandOff
<1>12. ASSUME NEW r \in Recordings, Store(r) PROVE RegistryIsLive'
  BY <1>12 DEF Store
<1>13. ASSUME NEW r \in Recordings, CleanUp(r) PROVE RegistryIsLive'
  BY <1>13 DEF CleanUp
<1>14. ASSUME NEW r \in Recordings, StepFails(r) PROVE RegistryIsLive'
  BY <1>14 DEF StepFails
<1>15. CASE UNCHANGED vars
  BY <1>15 DEF vars
<1> QED
  BY <1>1, <1>2, <1>3, <1>4, <1>5, <1>6, <1>7, <1>8, <1>9, <1>10, <1>11,
     <1>12, <1>13, <1>14, <1>15
     DEF Next, Progress, Terminated

(* A step moves a recording and its directories together. *)
LEMMA StandingStep == IInv /\ [Next]_vars => \A q \in Recordings : Standing(q)'
<1> SUFFICES ASSUME IInv, [Next]_vars PROVE \A q \in Recordings : Standing(q)'
  OBVIOUS
<1> USE DEF IInv, TypeOK, Standing
<1>1. ASSUME NEW r \in Recordings, Begin(r) PROVE \A q \in Recordings : Standing(q)'
  BY <1>1 DEF Begin
<1>2. ASSUME NEW r \in Recordings, Lock(r) PROVE \A q \in Recordings : Standing(q)'
  BY <1>2 DEF Lock
<1>3. ASSUME NEW r \in Recordings, ListRoot(r) PROVE \A q \in Recordings : Standing(q)'
  BY <1>3 DEF ListRoot
<1>4. ASSUME NEW r \in Recordings, MakeDirectory(r) PROVE \A q \in Recordings : Standing(q)'
  BY <1>4 DEF MakeDirectory
<1>5. ASSUME NEW r \in Recordings, Identify(r) PROVE \A q \in Recordings : Standing(q)'
  BY <1>5 DEF Identify
<1>6. ASSUME NEW r \in Recordings, Confirm(r) PROVE \A q \in Recordings : Standing(q)'
  BY <1>6 DEF Confirm
<1>7. ASSUME NEW r \in Recordings, UndoCreation(r) PROVE \A q \in Recordings : Standing(q)'
  BY <1>7 DEF UndoCreation
<1>8. ASSUME NEW r \in Recordings, Fill(r) PROVE \A q \in Recordings : Standing(q)'
  BY <1>8 DEF Fill
<1>9. ASSUME NEW r \in Recordings, StaleCopy(r) PROVE \A q \in Recordings : Standing(q)'
  BY <1>9 DEF StaleCopy
<1>10. ASSUME NEW r \in Recordings, RollBack(r) PROVE \A q \in Recordings : Standing(q)'
  BY <1>10 DEF RollBack
<1>11. ASSUME NEW r \in Recordings, HandOff(r) PROVE \A q \in Recordings : Standing(q)'
  BY <1>11 DEF HandOff
<1>12. ASSUME NEW r \in Recordings, Store(r) PROVE \A q \in Recordings : Standing(q)'
  BY <1>12 DEF Store
<1>13. ASSUME NEW r \in Recordings, CleanUp(r) PROVE \A q \in Recordings : Standing(q)'
  BY <1>13 DEF CleanUp
<1>14. ASSUME NEW r \in Recordings, StepFails(r) PROVE \A q \in Recordings : Standing(q)'
  <2> TAKE q \in Recordings
  <2>1. CASE q = r
    <3>1. pc'[r] \in {"waiting", "failed", "undoing", "rollback", "cleanup"}
      BY <1>14 DEF StepFails
    <3>2. registry' = registry
      BY <1>14 DEF StepFails
    <3>3. pc'[r] \in Owning => Dir(r)' \in entries'
      BY <1>14 DEF StepFails
    <3>4. pc'[r] \notin {"storing", "cleanup", "kept", "failed"} =>
            \A k \in Kinds : <<r, k>> \notin registry'
      BY <1>14, <3>2 DEF StepFails
    <3>5. \A k \in Kinds : <<r, k>> \in registry' => k = kind'[r]
      BY <1>14, <3>2 DEF StepFails
    <3> QED
      BY <2>1, <3>1, <3>3, <3>4, <3>5
  <2>2. CASE q # r
    <3>1. kind'[q] = kind[q] /\ pc'[q] = pc[q] /\ registry' = registry
      BY <1>14, <2>2 DEF StepFails
    <3>2. entries \ {Dir(r)} \subseteq entries'
      BY <1>14 DEF StepFails
    <3>3. Dir(q) # Dir(r)
      BY <2>2
    <3> QED
      BY <3>1, <3>2, <3>3
  <2> QED
    BY <2>1, <2>2
<1>15. CASE UNCHANGED vars
  BY <1>15 DEF vars
<1> QED
  BY <1>1, <1>2, <1>3, <1>4, <1>5, <1>6, <1>7, <1>8, <1>9, <1>10, <1>11,
     <1>12, <1>13, <1>14, <1>15
     DEF Next, Progress, Terminated

(* The invariant holds in every reachable state. *)
THEOREM Invariance == Spec => []IInv
<1>1. Init => IInv
  BY DEF Init, IInv, TypeOK, LockIsHeld, CreatorsAreSerialised, NothingIsLost,
       RegistryIsLive, Standing
<1>2. IInv /\ [Next]_vars => IInv'
  BY Typing, LockStep, CreatorStep, LossStep, RegistryStep, StandingStep DEF IInv
<1> QED
  BY <1>1, <1>2, PTL DEF Spec

(* Every variable keeps its type. *)
THEOREM TypeCorrect == Spec => []TypeOK
<1>1. IInv => TypeOK
  BY DEF IInv
<1> QED
  BY <1>1, Invariance, PTL

(* Between a creator's listing and its last look no directory appears: *)
(* create_staging_invocation's flock on the root. *)
THEOREM CreatorsStaySerialised == Spec => []CreatorsAreSerialised
<1>1. IInv => CreatorsAreSerialised
  BY DEF IInv
<1> QED
  BY <1>1, Invariance, PTL

(* Every directory of the root has an owner: a thread, the registry, or the *)
(* cleanup error that names it. *)
THEOREM NothingGetsLost == Spec => []NothingIsLost
<1>1. IInv => NothingIsLost
  BY DEF IInv
<1> QED
  BY <1>1, Invariance, PTL

(* What the registry owns is on disk unless an error named it. *)
THEOREM RegistryStaysLive == Spec => []RegistryIsLive
<1>1. IInv => RegistryIsLive
  BY DEF IInv
<1> QED
  BY <1>1, Invariance, PTL

==============================================================================
