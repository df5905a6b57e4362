------------------------- MODULE AcquisitionCacheProofs -------------------------
(* Proofs about AcquisitionCache, for every number of callers and of power   *)
(* losses.                                                                   *)
EXTENDS AcquisitionCache, TLAPS

USE LossesAssumption
   DEF Verified, Kinds, InLock, Over, Points, Goto, Return, Store, Downloads, Fixed

(* Every step keeps the type invariant. *)
LEMMA Typing ==
    ASSUME IInv, [Next]_vars
    PROVE  TypeOK'
<1> USE DEF IInv, TypeOK, Knowing
<1>1. ASSUME NEW c \in Callers, Lock(c) PROVE TypeOK'
  BY <1>1 DEF Lock
<1>2. ASSUME NEW c \in Callers, EnterUnlocked(c) PROVE TypeOK'
  BY <1>2 DEF EnterUnlocked
<1>3. ASSUME NEW c \in Callers, UseExisting(c) PROVE TypeOK'
  BY <1>3 DEF UseExisting
<1>4. ASSUME NEW c \in Callers, BeginDownload(c) PROVE TypeOK'
  BY <1>4 DEF BeginDownload
<1>5. ASSUME NEW c \in Callers, Download(c) PROVE TypeOK'
  BY <1>5 DEF Download, Place
<1>6. ASSUME NEW c \in Callers, Verify(c) PROVE TypeOK'
  BY <1>6 DEF Verify
<1>7. ASSUME NEW c \in Callers, Promote(c) PROVE TypeOK'
  BY <1>7 DEF Promote, Place
<1>8. ASSUME NEW c \in Callers, Recheck(c) PROVE TypeOK'
  BY <1>8 DEF Recheck
<1>9. ASSUME NEW c \in Callers, Record(c) PROVE TypeOK'
  BY <1>9 DEF Record
<1>10. ASSUME NEW c \in Callers, ParseListing(c) PROVE TypeOK'
  BY <1>10 DEF ParseListing
<1>11. ASSUME NEW c \in Callers, LeaveSnapshot(c) PROVE TypeOK'
  BY <1>11 DEF LeaveSnapshot
<1>12. ASSUME NEW c \in Callers, ParseSnapshot(c) PROVE TypeOK'
  BY <1>12 DEF ParseSnapshot
<1>13. ASSUME NEW c \in Callers, Fail(c) PROVE TypeOK'
  BY <1>13 DEF Fail
<1>14. ASSUME NEW c \in Callers, Crash(c) PROVE TypeOK'
  BY <1>14 DEF Crash
<1>15. CASE WriteBack
  BY <1>15 DEF WriteBack
<1>16. CASE PowerLoss
  <2>1. receipt' \in BOOLEAN
    BY <1>16 DEF PowerLoss
  <2>2. scratch' \in [Callers \cup {Shared} -> {"none", "good", "bad"}]
    <3>1. PICK p \in Callers \cup {Shared} :
            scratch' \in {scratch, [scratch EXCEPT ![p] = IF scratch[p] = "good" THEN "bad" ELSE scratch[p]]}
      BY <1>16 DEF PowerLoss
    <3> QED
      BY <3>1
  <2>3. losses' \in 0 .. MaxLosses
    BY <1>16 DEF PowerLoss
  <2>4. /\ pc' \in [Callers -> Points] /\ holders' \subseteq Callers
        /\ final' \in {"none", "good", "bad"} /\ after' \subseteq {"none", "good", "bad"}
        /\ UNCHANGED <<kind, by, read>>
    BY <1>16 DEF PowerLoss
  <2> QED
    BY <2>1, <2>2, <2>3, <2>4
<1>17. CASE UNCHANGED vars
  BY <1>17 DEF vars
<1> QED
  BY <1>1, <1>2, <1>3, <1>4, <1>5, <1>6, <1>7, <1>8, <1>9, <1>10, <1>11,
     <1>12, <1>13, <1>14, <1>15, <1>16, <1>17
     DEF Next, Progress, Terminated

(* A step leaves the lock with the one call that is inside. *)
LEMMA LockStep ==
    ASSUME IInv, [Next]_vars
    PROVE  LockDiscipline'
<1> USE DEF IInv, TypeOK, LockDiscipline, Knowing
<1>1. ASSUME NEW c \in Callers, Lock(c) PROVE LockDiscipline'
  BY <1>1 DEF Lock
<1>2. ASSUME NEW c \in Callers, EnterUnlocked(c) PROVE LockDiscipline'
  BY <1>2 DEF EnterUnlocked
<1>3. ASSUME NEW c \in Callers, UseExisting(c) PROVE LockDiscipline'
  BY <1>3 DEF UseExisting
<1>4. ASSUME NEW c \in Callers, BeginDownload(c) PROVE LockDiscipline'
  BY <1>4 DEF BeginDownload
<1>5. ASSUME NEW c \in Callers, Download(c) PROVE LockDiscipline'
  BY <1>5 DEF Download
<1>6. ASSUME NEW c \in Callers, Verify(c) PROVE LockDiscipline'
  BY <1>6 DEF Verify
<1>7. ASSUME NEW c \in Callers, Promote(c) PROVE LockDiscipline'
  BY <1>7 DEF Promote
<1>8. ASSUME NEW c \in Callers, Recheck(c) PROVE LockDiscipline'
  BY <1>8 DEF Recheck
<1>9. ASSUME NEW c \in Callers, Record(c) PROVE LockDiscipline'
  BY <1>9 DEF Record
<1>10. ASSUME NEW c \in Callers, ParseListing(c) PROVE LockDiscipline'
  BY <1>10 DEF ParseListing
<1>11. ASSUME NEW c \in Callers, LeaveSnapshot(c) PROVE LockDiscipline'
  BY <1>11 DEF LeaveSnapshot
<1>12. ASSUME NEW c \in Callers, ParseSnapshot(c) PROVE LockDiscipline'
  BY <1>12 DEF ParseSnapshot
<1>13. ASSUME NEW c \in Callers, Fail(c) PROVE LockDiscipline'
  BY <1>13 DEF Fail
<1>14. ASSUME NEW c \in Callers, Crash(c) PROVE LockDiscipline'
  BY <1>14 DEF Crash
<1>15. CASE WriteBack
  BY <1>15 DEF WriteBack
<1>16. CASE PowerLoss
  BY <1>16 DEF PowerLoss
<1>17. CASE UNCHANGED vars
  BY <1>17 DEF vars
<1> QED
  BY <1>1, <1>2, <1>3, <1>4, <1>5, <1>6, <1>7, <1>8, <1>9, <1>10, <1>11,
     <1>12, <1>13, <1>14, <1>15, <1>16, <1>17
     DEF Next, Progress, Terminated

(* A step keeps what each call knows. *)
LEMMA KnowStep ==
    ASSUME IInv, [Next]_vars
    PROVE  \A d \in Callers : Knowing(d)'
<1> USE DEF IInv, TypeOK, LockDiscipline, Knowing, Reusable, Place
<1>1. ASSUME NEW c \in Callers, Lock(c) PROVE \A d \in Callers : Knowing(d)'
  BY <1>1 DEF Lock
<1>2. ASSUME NEW c \in Callers, EnterUnlocked(c) PROVE \A d \in Callers : Knowing(d)'
  BY <1>2 DEF EnterUnlocked
<1>3. ASSUME NEW c \in Callers, UseExisting(c) PROVE \A d \in Callers : Knowing(d)'
  BY <1>3 DEF UseExisting
<1>4. ASSUME NEW c \in Callers, BeginDownload(c) PROVE \A d \in Callers : Knowing(d)'
  BY <1>4 DEF BeginDownload, Missing
<1>5. ASSUME NEW c \in Callers, Download(c) PROVE \A d \in Callers : Knowing(d)'
  BY <1>5 DEF Download
<1>6. ASSUME NEW c \in Callers, Verify(c) PROVE \A d \in Callers : Knowing(d)'
  BY <1>6 DEF Verify
<1>7. ASSUME NEW c \in Callers, Promote(c) PROVE \A d \in Callers : Knowing(d)'
  BY <1>7 DEF Promote
<1>8. ASSUME NEW c \in Callers, Recheck(c) PROVE \A d \in Callers : Knowing(d)'
  BY <1>8 DEF Recheck
<1>9. ASSUME NEW c \in Callers, Record(c) PROVE \A d \in Callers : Knowing(d)'
  BY <1>9 DEF Record
<1>10. ASSUME NEW c \in Callers, ParseListing(c) PROVE \A d \in Callers : Knowing(d)'
  BY <1>10 DEF ParseListing
<1>11. ASSUME NEW c \in Callers, LeaveSnapshot(c) PROVE \A d \in Callers : Knowing(d)'
  BY <1>11 DEF LeaveSnapshot
<1>12. ASSUME NEW c \in Callers, ParseSnapshot(c) PROVE \A d \in Callers : Knowing(d)'
  BY <1>12 DEF ParseSnapshot
<1>13. ASSUME NEW c \in Callers, Fail(c) PROVE \A d \in Callers : Knowing(d)'
  BY <1>13 DEF Fail
<1>14. ASSUME NEW c \in Callers, Crash(c) PROVE \A d \in Callers : Knowing(d)'
  BY <1>14 DEF Crash
<1>15. CASE WriteBack
  BY <1>15 DEF WriteBack
<1>16. CASE PowerLoss
  BY <1>16 DEF PowerLoss
<1>17. CASE UNCHANGED vars
  BY <1>17 DEF vars
<1> QED
  BY <1>1, <1>2, <1>3, <1>4, <1>5, <1>6, <1>7, <1>8, <1>9, <1>10, <1>11,
     <1>12, <1>13, <1>14, <1>15, <1>16, <1>17
     DEF Next, Progress, Terminated

(* A step keeps what a returned call relies on. *)
LEMMA ReturnStep ==
    ASSUME IInv, [Next]_vars
    PROVE  ReturnedIsExpected'
<1> USE DEF IInv, TypeOK, Knowing, ReturnedIsExpected, Place, Reusable
<1>1. ASSUME NEW c \in Callers, Lock(c) PROVE ReturnedIsExpected'
  BY <1>1 DEF Lock
<1>2. ASSUME NEW c \in Callers, EnterUnlocked(c) PROVE ReturnedIsExpected'
  BY <1>2 DEF EnterUnlocked
<1>3. ASSUME NEW c \in Callers, UseExisting(c) PROVE ReturnedIsExpected'
  BY <1>3 DEF UseExisting
<1>4. ASSUME NEW c \in Callers, BeginDownload(c) PROVE ReturnedIsExpected'
  BY <1>4 DEF BeginDownload
<1>5. ASSUME NEW c \in Callers, Download(c) PROVE ReturnedIsExpected'
  BY <1>5 DEF Download
<1>6. ASSUME NEW c \in Callers, Verify(c) PROVE ReturnedIsExpected'
  BY <1>6 DEF Verify
<1>7. ASSUME NEW c \in Callers, Promote(c) PROVE ReturnedIsExpected'
  BY <1>7 DEF Promote
<1>8. ASSUME NEW c \in Callers, Recheck(c) PROVE ReturnedIsExpected'
  BY <1>8 DEF Recheck
<1>9. ASSUME NEW c \in Callers, Record(c) PROVE ReturnedIsExpected'
  BY <1>9 DEF Record
<1>10. ASSUME NEW c \in Callers, ParseListing(c) PROVE ReturnedIsExpected'
  BY <1>10 DEF ParseListing
<1>11. ASSUME NEW c \in Callers, LeaveSnapshot(c) PROVE ReturnedIsExpected'
  BY <1>11 DEF LeaveSnapshot
<1>12. ASSUME NEW c \in Callers, ParseSnapshot(c) PROVE ReturnedIsExpected'
  BY <1>12 DEF ParseSnapshot
<1>13. ASSUME NEW c \in Callers, Fail(c) PROVE ReturnedIsExpected'
  BY <1>13 DEF Fail
<1>14. ASSUME NEW c \in Callers, Crash(c) PROVE ReturnedIsExpected'
  BY <1>14 DEF Crash
<1>15. CASE WriteBack
  BY <1>15 DEF WriteBack
<1>16. CASE PowerLoss
  BY <1>16 DEF PowerLoss
<1>17. CASE UNCHANGED vars
  BY <1>17 DEF vars
<1> QED
  BY <1>1, <1>2, <1>3, <1>4, <1>5, <1>6, <1>7, <1>8, <1>9, <1>10, <1>11,
     <1>12, <1>13, <1>14, <1>15, <1>16, <1>17
     DEF Next, Progress, Terminated

(* The invariant the properties below rest on: one call inside the lock, and *)
(* what each call knows of its download and of the file at each point.       *)
THEOREM Invariance == Spec => []IInv
<1>1. Init => IInv
  <2> SUFFICES ASSUME Init PROVE IInv
    OBVIOUS
  <2>1. TypeOK
    <3>1. by = [p \in Callers \cup {Shared} |-> "none"]
      BY DEF Init
    <3>2. by \in [Callers \cup {Shared} -> Callers \cup {"none"}]
      BY <3>1
    <3>3. losses \in 0 .. MaxLosses
      BY DEF Init
    <3>4. /\ kind \in Kinds /\ pc \in [Callers -> Points] /\ holders \subseteq Callers
          /\ final \in {"none", "good", "bad"} /\ after \subseteq {"none", "good", "bad"}
          /\ receipt \in BOOLEAN
      BY DEF Init
    <3>5. /\ scratch \in [Callers \cup {Shared} -> {"none", "good", "bad"}]
          /\ read \in [Callers -> Callers \cup {"none"}]
      BY DEF Init
    <3> QED
      BY <3>2, <3>3, <3>4, <3>5 DEF TypeOK
  <2>2. LockDiscipline /\ ReturnedIsExpected /\ \A c \in Callers : Knowing(c)
    BY DEF Init, LockDiscipline, ReturnedIsExpected, Knowing
  <2> QED
    BY <2>1, <2>2 DEF IInv
<1>2. IInv /\ [Next]_vars => IInv'
  BY Typing, LockStep, KnowStep, ReturnStep DEF IInv
<1> QED
  BY <1>1, <1>2, PTL DEF Spec

(* Every variable holds a value of the kind the code gives it.               *)
THEOREM TypeCorrect == Spec => []TypeOK
<1>1. IInv => TypeOK
  BY DEF IInv
<1> QED
  BY <1>1, Invariance, PTL

(* The path a call returned shows the advertised file for as long as the     *)
(* call lives; a listing or snapshot is parsed from the call's own download. *)
THEOREM ReturnedStaysExpected == Spec => []ReturnedIsExpected
<1>1. IInv => ReturnedIsExpected
  BY DEF IInv
<1> QED
  BY <1>1, Invariance, PTL

(* Nothing that is there and verifies is downloaded again.                   *)
THEOREM DownloadsAreNeeded == Spec => NoNeedlessDownload
<1>1. ASSUME IInv, NEW c \in Callers, pc[c] = "downloading", kind \in Verified \ {"member"}
      PROVE  ~Reusable /\ \A d \in Callers \ {c} : pc[d] \notin InLock
  BY <1>1 DEF IInv, LockDiscipline, Knowing
<1>2. IInv /\ [Next]_vars =>
        [\A c \in Callers :
           (pc[c] = "downloading" /\ pc'[c] = "fetched" /\ kind \in Verified \ {"member"})
             => ~Reusable /\ \A d \in Callers \ {c} : pc[d] \notin InLock]_vars
  BY <1>1
<1> QED
  BY <1>2, Invariance, PTL DEF Spec, NoNeedlessDownload

=================================================================================
