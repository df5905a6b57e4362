--------------------------- MODULE StagedImagesProofs ---------------------------
(***************************************************************************)
(* The drop of staged images, for every number of images, whatever calls   *)
(* fail and whichever images somebody else links or replaces.              *)
(*                                                                         *)
(* The transaction keeps the directory equal to what its records say       *)
(* (AsMoved) and the records to how far it is; a rollback keeps that below *)
(* the image it works on and restores what lies above; the cleanup keeps   *)
(* the records it still owes equal to the tombstones that are listed.      *)
(***************************************************************************)
EXTENDS StagedImages, TLAPS

(* At first every image is under its name and nothing is recorded.         *)
LEMMA InitialInv == Init => IInv
  <1> SUFFICES ASSUME Init PROVE IInv
    OBVIOUS
  <1>1. TypeOK
    <2>1. at \in 0..(N + 1)
      BY NAssumption DEF Init
    <2>2. pc \in Points
      BY DEF Init, Points
    <2> QED
      BY <2>1, <2>2 DEF Init, TypeOK
  <1>2. Prepared /\ Undone /\ Cleaned
    BY DEF Init, Prepared, Undone, Cleaned, Preparing, Undoing, Cleaning, Retrying
  <1>3. \A i \in Images : Present(i)
    BY DEF Init, Present
  <1> QED
    BY <1>1, <1>2, <1>3 DEF Init, IInv

(* Entering the rollback from any point of the transaction.                *)
LEMMA UndoBegins ==
    ASSUME IInv, pc \in Preparing, BeginUndo
    PROVE  IInv'
  <1> USE NAssumption DEF Images
  <1>1. /\ TypeOK /\ Prepared /\ at \in 1..(N + 1)
        /\ \A i \in Images : AsMoved(i)
        /\ \A i \in Images : i > at => moved[i] = "no"
    BY DEF IInv, Prepared
  <1>2. /\ pc' = "undoing" /\ at' = IF at > N THEN N ELSE at
        /\ UNCHANGED <<original, tombstone, linked, moved, broken, owed>>
    BY DEF BeginUndo
  <1>3. TypeOK'
    BY <1>1, <1>2 DEF TypeOK, Points, Undoing
  <1>4. \A i \in Images : i > at' => Present(i)
    <2> SUFFICES ASSUME NEW i \in Images, i > at' PROVE Present(i)
      OBVIOUS
    <2>1. moved[i] = "no" /\ AsMoved(i)
      BY <1>1, <1>2
    <2> QED
      BY <2>1 DEF AsMoved
  <1>5. \A i \in Images : AsMoved(i)' /\ (Present(i) => Present(i)')
    BY <1>1, <1>2 DEF AsMoved, Present
  <1>6. \A i \in Images : i > at' => IF broken' THEN original'[i] = "own" \/ tombstone'[i]
                                                ELSE Present(i)'
    BY <1>4, <1>5, <1>2 DEF Present
  <1>7. Undone'
    BY <1>1, <1>2, <1>5, <1>6 DEF Undone, Undoing
  <1> QED
    BY <1>2, <1>3, <1>7 DEF IInv, Prepared, Cleaned, Preparing, Cleaning, Retrying

(* Giving up on one image of the rollback, as long as it has a name left.  *)
LEMMA UndoGoesOn ==
    ASSUME IInv, pc \in Undoing, at \in Images, UndoBreaks,
           original[at] = "own" \/ tombstone[at]
    PROVE  IInv'
  <1> USE NAssumption DEF Images
  <1>1. /\ TypeOK
        /\ \A i \in Images : i < at => AsMoved(i)
        /\ \A i \in Images : i > at => original[i] = "own" \/ tombstone[i]
    BY DEF IInv, Undone, Present
  <1>2. /\ pc' = "undoing" /\ at' = at - 1 /\ broken' = TRUE
        /\ UNCHANGED <<original, tombstone, linked, moved, owed>>
    BY DEF UndoBreaks
  <1>3. TypeOK'
    BY <1>1, <1>2 DEF TypeOK, Points, Undoing
  <1>4. \A i \in Images : i < at => AsMoved(i)'
    BY <1>1, <1>2 DEF AsMoved, Present
  <1>5. Undone'
    BY <1>1, <1>2, <1>4 DEF Undone, Undoing
  <1> QED
    BY <1>2, <1>3, <1>5 DEF IInv, Prepared, Cleaned, Preparing, Cleaning, Retrying

(* In the rollback the image in hand has a name.                           *)
LEMMA HandNamed ==
    ASSUME IInv, pc \in Undoing, at \in Images
    PROVE  original[at] = "own" \/ tombstone[at]
  <1>1. CASE pc = "undoing"
    <2>1. AsMoved(at) /\ moved[at] \in {"no", "linked", "unlinked"}
      BY <1>1, NAssumption DEF IInv, TypeOK, Undone, Undoing, Images
    <2> QED
      BY <2>1 DEF AsMoved, Present
  <1>2. CASE pc # "undoing"
    BY <1>2, NAssumption DEF IInv, Undone, Undoing, Present, Images
  <1> QED
    BY <1>1, <1>2

(* A step that keeps the directory and its records.                        *)
LEMMA ShapesKept ==
    ASSUME UNCHANGED <<names, moved>>
    PROVE  \A i \in Images : /\ AsMoved(i)' = AsMoved(i)
                             /\ Present(i)' = Present(i)
  BY DEF AsMoved, Present, names

-----------------------------------------------------------------------------

(* Every step of the transaction keeps the directory as its records say.   *)
LEMMA TransactionInv ==
    ASSUME IInv, Transaction
    PROVE  IInv'
  <1> USE NAssumption DEF Images
  <1>1. TypeOK /\ Prepared
    BY DEF IInv
  <1>2. CASE Preflight
    <2>1. at = 1 /\ \A i \in Images : Present(i) /\ moved[i] = "no"
      BY <1>2 DEF IInv, Preflight, Goto
    <2>2. /\ pc' \in {"committing", "looking", "refused"}
          /\ pc' = "committing" => N = 0
          /\ pc' = "looking" => N # 0
          /\ UNCHANGED <<at, names, moved, broken, owed>>
      BY <1>2 DEF Preflight, Goto
    <2>3. \A i \in Images : Present(i)' /\ AsMoved(i)'
      BY <2>1, <2>2 DEF Present, AsMoved, names
    <2>4. TypeOK'
      BY <1>1, <2>2 DEF TypeOK, Points, Preparing, Done, names
    <2> QED
      BY <2>1, <2>2, <2>3, <2>4 DEF IInv, Prepared, Undone, Cleaned, Preparing,
         Undoing, Cleaning, Retrying
  <1>3. ASSUME NEW from \in {"looking", "linked"}, NEW to \in {"linking", "unlinking"},
               pc = from, pc' = to, from = "looking" <=> to = "linking",
               UNCHANGED <<at, names, moved, broken, owed>>
        PROVE  IInv'
    <2>1. \A i \in Images : AsMoved(i)' = AsMoved(i)
      BY <1>3, ShapesKept
    <2>2. TypeOK'
      BY <1>1, <1>3 DEF TypeOK, Points, Preparing, names
    <2>3. Prepared'
      BY <1>1, <1>3, <2>1 DEF Prepared, Preparing
    <2> QED
      BY <1>3, <2>2, <2>3 DEF IInv, Undone, Cleaned, Undoing, Cleaning, Retrying
  <1>4. CASE Look
    BY <1>4, <1>3, UndoBegins DEF Look, Check, Preparing
  <1>5. CASE Link
    <2>1. /\ pc = "linking" /\ pc' = "linked" /\ at \in Images /\ AsMoved(at)
          /\ moved[at] = "no"
          /\ tombstone' = [tombstone EXCEPT ![at] = TRUE]
          /\ moved' = [moved EXCEPT ![at] = "linked"]
          /\ UNCHANGED <<at, original, linked, broken, owed>>
      BY <1>1, <1>5 DEF Link, Goto, Prepared, Preparing
    <2>2. TypeOK'
      BY <1>1, <2>1 DEF TypeOK, Points, Preparing
    <2>3. ASSUME NEW i \in Images PROVE AsMoved(i)'
      <3>1. AsMoved(i)
        BY <1>1, <2>1 DEF Prepared, Preparing
      <3>2. CASE i = at
        BY <1>1, <2>1, <3>2 DEF AsMoved, Present, TypeOK
      <3>3. CASE i # at
        <4>1. tombstone'[i] = tombstone[i] /\ moved'[i] = moved[i]
          BY <1>1, <2>1, <3>3 DEF TypeOK
        <4> QED
          BY <2>1, <3>1, <4>1 DEF AsMoved, Present
      <3> QED
        BY <3>2, <3>3
    <2>4. Prepared'
      BY <1>1, <2>1, <2>3 DEF Prepared, Preparing, TypeOK
    <2> QED
      BY <2>1, <2>2, <2>4 DEF IInv, Undone, Cleaned, Undoing, Cleaning, Retrying
  <1>6. CASE CheckLinked
    BY <1>6, <1>3, UndoBegins DEF CheckLinked, Check, Preparing
  <1>7. CASE Unlink
    <2>1. /\ pc = "unlinking" /\ pc' = "unlinked" /\ at \in Images /\ AsMoved(at)
          /\ moved[at] = "linked"
          /\ original' = [original EXCEPT ![at] = "free"]
          /\ moved' = [moved EXCEPT ![at] = "unlinked"]
          /\ UNCHANGED <<at, tombstone, linked, broken, owed>>
      BY <1>1, <1>7 DEF Unlink, Goto, Prepared, Preparing
    <2>2. TypeOK'
      BY <1>1, <2>1 DEF TypeOK, Points, Preparing
    <2>3. ASSUME NEW i \in Images PROVE AsMoved(i)'
      <3>1. AsMoved(i)
        BY <1>1, <2>1 DEF Prepared, Preparing
      <3>2. CASE i = at
        BY <1>1, <2>1, <3>2 DEF AsMoved, Present, TypeOK
      <3>3. CASE i # at
        <4>1. original'[i] = original[i] /\ moved'[i] = moved[i]
          BY <1>1, <2>1, <3>3 DEF TypeOK
        <4> QED
          BY <2>1, <3>1, <4>1 DEF AsMoved, Present
      <3> QED
        BY <3>2, <3>3
    <2>4. Prepared'
      BY <1>1, <2>1, <2>3 DEF Prepared, Preparing, TypeOK
    <2> QED
      BY <2>1, <2>2, <2>4 DEF IInv, Undone, Cleaned, Undoing, Cleaning, Retrying
  <1>8. CASE CheckUnlinked
    <2>1. CASE Links(at) = 1
      <3>1. /\ pc = "unlinked" /\ pc' = (IF at = N THEN "committing" ELSE "looking")
            /\ at \in Images /\ at' = at + 1 /\ moved[at] = "unlinked"
            /\ UNCHANGED <<names, moved, broken, owed>>
        BY <1>1, <1>8, <2>1 DEF CheckUnlinked, Prepared, Preparing
      <3>2. \A i \in Images : AsMoved(i)' = AsMoved(i)
        BY <3>1, ShapesKept
      <3>3. TypeOK'
        BY <1>1, <3>1 DEF TypeOK, Points, Preparing, names
      <3>4. Prepared'
        BY <1>1, <3>1, <3>2 DEF Prepared, Preparing
      <3> QED
        BY <3>1, <3>3, <3>4 DEF IInv, Undone, Cleaned, Undoing, Cleaning, Retrying
    <2>2. CASE Links(at) # 1
      BY <1>8, <2>2, UndoBegins DEF CheckUnlinked, Preparing
    <2> QED
      BY <2>1, <2>2
  <1>9. CASE Commit
    <2>1. /\ pc = "committing" /\ pc' = (IF N = 0 THEN "settling" ELSE "cleaning")
          /\ at' = 1 /\ owed' = {i \in Images : moved[i] = "unlinked"}
          /\ UNCHANGED <<names, moved, broken>>
      BY <1>9 DEF Commit, Goto
    <2>2. \A i \in Images : moved[i] = "unlinked" /\ original[i] # "own" /\ tombstone[i]
      <3> SUFFICES ASSUME NEW i \in Images
                   PROVE  moved[i] = "unlinked" /\ original[i] # "own" /\ tombstone[i]
        OBVIOUS
      <3>1. moved[i] = "unlinked" /\ AsMoved(i)
        BY <1>1, <2>1 DEF Prepared, Preparing
      <3> QED
        BY <3>1 DEF AsMoved
    <2>3. owed' = Images
      BY <2>1, <2>2
    <2>4. TypeOK'
      BY <1>1, <2>1, <2>3 DEF TypeOK, Points, Cleaning, names
    <2>5. Cleaned'
      BY <2>1, <2>2, <2>3 DEF Cleaned, Cleaning, Retrying, names
    <2> QED
      BY <2>1, <2>4, <2>5 DEF IInv, Prepared, Undone, Preparing, Undoing
  <1>10. CASE TransactionFails
    BY <1>10, UndoBegins DEF TransactionFails
  <1> QED
    BY <1>2, <1>4, <1>5, <1>6, <1>7, <1>8, <1>9, <1>10 DEF Transaction

-----------------------------------------------------------------------------

(* Every step of the rollback leaves the images it is done with restored,  *)
(* or records that one could not be.                                       *)
LEMMA RollbackInv ==
    ASSUME IInv, Rollback
    PROVE  IInv'
  <1> USE NAssumption DEF Images
  <1>1. TypeOK /\ Undone
    BY DEF IInv
  <1>2. ASSUME pc \in Undoing, at \in Images, UndoBreaks
        PROVE  IInv'
    BY <1>2, UndoGoesOn, HandNamed
  <1>3. ASSUME pc \in Undoing, pc' \in Undoing, TypeOK', Undone'
        PROVE  IInv'
    BY <1>3 DEF IInv, Prepared, Cleaned, Preparing, Undoing, Cleaning, Retrying
  <1>4. CASE SkipUnmoved
    <2>1. /\ pc = "undoing" /\ pc' = "undoing" /\ at \in Images /\ at' = at - 1
          /\ moved[at] = "no" /\ AsMoved(at)
          /\ UNCHANGED <<names, moved, broken, owed>>
      BY <1>1, <1>4 DEF SkipUnmoved, Goto, Undone, Undoing
    <2>2. \A i \in Images : AsMoved(i)' = AsMoved(i) /\ Present(i)' = Present(i)
      BY <2>1, ShapesKept
    <2>3. Present(at)
      BY <2>1 DEF AsMoved
    <2>4. TypeOK'
      BY <1>1, <2>1 DEF TypeOK, names
    <2>5. Undone'
      BY <1>1, <2>1, <2>2, <2>3 DEF Undone, Undoing, names, Present
    <2> QED
      BY <1>3, <2>1, <2>4, <2>5 DEF Undoing
  <1>5. CASE CheckTombstone
    <2>1. pc = "undoing" /\ at \in Images /\ moved[at] \in {"linked", "unlinked"} /\ AsMoved(at)
      BY <1>1, <1>5 DEF CheckTombstone, Undone, Undoing, TypeOK
    <2>2. CASE /\ pc' = IF moved[at] = "unlinked" THEN "relinking" ELSE "sourcing"
               /\ UNCHANGED <<at, names, moved, broken, owed>>
      <3>1. \A i \in Images : AsMoved(i)' = AsMoved(i) /\ Present(i)' = Present(i)
        BY <2>2, ShapesKept
      <3>2. tombstone[at] /\ (moved[at] = "linked" => original[at] = "own")
        BY <2>1 DEF AsMoved
      <3>3. TypeOK'
        BY <1>1, <2>1, <2>2 DEF TypeOK, Points, Undoing, names
      <3>4. Undone'
        BY <1>1, <2>1, <2>2, <3>1, <3>2 DEF Undone, Undoing, names
      <3> QED
        BY <1>3, <2>1, <2>2, <3>3, <3>4 DEF Undoing
    <2> QED
      BY <1>2, <1>5, <2>1, <2>2 DEF CheckTombstone, Undoing
  <1>6. CASE Relink
    <2>1. pc = "relinking" /\ at \in Images /\ tombstone[at]
      BY <1>1, <1>6 DEF Relink, Undone, Undoing
    <2>2. CASE /\ pc' = "burying" /\ original' = [original EXCEPT ![at] = "own"]
               /\ UNCHANGED <<at, tombstone, linked, moved, broken, owed>>
      <3>1. original'[at] = "own" /\ \A i \in Images : i # at => original'[i] = original[i]
        BY <1>1, <2>1, <2>2 DEF TypeOK
      <3>2. \A i \in Images : i # at => AsMoved(i)' = AsMoved(i) /\ Present(i)' = Present(i)
        BY <2>2, <3>1 DEF AsMoved, Present
      <3>3. TypeOK'
        BY <1>1, <2>1, <2>2 DEF TypeOK, Points, Undoing
      <3>4. Undone'
        BY <1>1, <2>1, <2>2, <3>1, <3>2 DEF Undone, Undoing
      <3> QED
        BY <1>3, <2>1, <2>2, <3>3, <3>4 DEF Undoing
    <2> QED
      BY <1>2, <1>6, <2>1, <2>2 DEF Relink, Undoing
  <1>7. CASE CheckSource
    <2>1. pc = "sourcing" /\ at \in Images /\ original[at] = "own" /\ tombstone[at]
      BY <1>1, <1>7 DEF CheckSource, Undone, Undoing
    <2>2. CASE pc' = "burying" /\ UNCHANGED <<at, names, moved, broken, owed>>
      <3>1. \A i \in Images : AsMoved(i)' = AsMoved(i) /\ Present(i)' = Present(i)
        BY <2>2, ShapesKept
      <3>2. TypeOK'
        BY <1>1, <2>2 DEF TypeOK, Points, Undoing, names
      <3>3. Undone'
        BY <1>1, <2>1, <2>2, <3>1 DEF Undone, Undoing, names
      <3> QED
        BY <1>3, <2>1, <2>2, <3>2, <3>3 DEF Undoing
    <2> QED
      BY <1>2, <1>7, <2>1, <2>2 DEF CheckSource, Undoing
  <1>8. CASE BuryTombstone
    <2>1. /\ pc = "burying" /\ pc' = "restored" /\ at \in Images /\ original[at] = "own"
          /\ tombstone' = [tombstone EXCEPT ![at] = FALSE]
          /\ UNCHANGED <<at, original, linked, moved, broken, owed>>
      BY <1>1, <1>8 DEF BuryTombstone, Goto, Undone, Undoing
    <2>2. /\ tombstone'[at] = FALSE
          /\ \A i \in Images : i # at => tombstone'[i] = tombstone[i]
      BY <1>1, <2>1 DEF TypeOK
    <2>3. \A i \in Images : i # at => AsMoved(i)' = AsMoved(i) /\ Present(i)' = Present(i)
      BY <2>1, <2>2 DEF AsMoved, Present
    <2>4. TypeOK'
      BY <1>1, <2>1 DEF TypeOK, Points, Undoing
    <2>5. Present(at)'
      BY <2>1, <2>2 DEF Present
    <2>6. Undone'
      BY <1>1, <2>1, <2>2, <2>3, <2>5 DEF Undone, Undoing
    <2> QED
      BY <1>3, <2>1, <2>4, <2>6 DEF Undoing
  <1>9. CASE CheckRestored
    <2>1. pc = "restored" /\ at \in Images /\ Present(at)
      BY <1>1, <1>9 DEF CheckRestored, Undone, Undoing
    <2>2. CASE pc' = "undoing" /\ at' = at - 1 /\ UNCHANGED <<names, moved, broken, owed>>
      <3>1. \A i \in Images : AsMoved(i)' = AsMoved(i) /\ Present(i)' = Present(i)
        BY <2>2, ShapesKept
      <3>2. TypeOK'
        BY <1>1, <2>1, <2>2 DEF TypeOK, Points, Undoing, names
      <3>3. Undone'
        BY <1>1, <2>1, <2>2, <3>1 DEF Undone, Undoing, names, Present
      <3> QED
        BY <1>3, <2>1, <2>2, <3>2, <3>3 DEF Undoing
    <2> QED
      BY <1>2, <1>9, <2>1, <2>2 DEF CheckRestored, Undoing
  <1>10. CASE UndoStepFails
    BY <1>2, <1>10 DEF UndoStepFails, Undoing
  <1>11. CASE FinishUndo
    <2>1. pc = "undoing" /\ pc' = "resting" /\ at = 0 /\ UNCHANGED <<at, names, moved, broken, owed>>
      BY <1>11 DEF FinishUndo, Goto
    <2>2. \A i \in Images : AsMoved(i)' = AsMoved(i) /\ Present(i)' = Present(i)
      BY <2>1, ShapesKept
    <2>3. TypeOK'
      BY <1>1, <2>1 DEF TypeOK, Points, Undoing, names
    <2>4. Undone'
      BY <1>1, <2>1, <2>2 DEF Undone, Undoing, names
    <2> QED
      BY <1>3, <2>1, <2>3, <2>4 DEF Undoing
  <1>12. CASE ReportUndo
    <2>1. /\ pc = "resting" /\ at = 0
          /\ pc' \in {"rollbackFailed", "rolledBack"} /\ (pc' = "rolledBack" => ~broken)
          /\ UNCHANGED <<at, names, moved, broken, owed>>
      BY <1>1, <1>12 DEF ReportUndo, Undone, Undoing
    <2>2. \A i \in Images : IF broken THEN original[i] = "own" \/ tombstone[i] ELSE Present(i)
      BY <1>1, <2>1 DEF Undone, Undoing
    <2>3. \A i \in Images : original'[i] = "own" \/ tombstone'[i]
      BY <2>1, <2>2 DEF Present, names
    <2>4. pc' = "rolledBack" => \A i \in Images : Present(i)'
      BY <2>1, <2>2, ShapesKept
    <2>5. TypeOK'
      BY <1>1, <2>1 DEF TypeOK, Points, Done, names
    <2> QED
      BY <2>1, <2>3, <2>4, <2>5 DEF IInv, Prepared, Undone, Cleaned, Preparing, Undoing,
         Cleaning, Retrying
  <1> QED
    BY <1>4, <1>5, <1>6, <1>7, <1>8, <1>9, <1>10, <1>11, <1>12 DEF Rollback

-----------------------------------------------------------------------------

(* Every step after the commit, and of a retry, owes what is still listed. *)
LEMMA CleanupInv ==
    ASSUME IInv, Cleanup
    PROVE  IInv'
  <1> USE NAssumption DEF Images
  <1>1. TypeOK /\ Cleaned
    BY DEF IInv
  <1>2. ASSUME pc' \in Cleaning \cup Retrying \cup {"dropped", "debt"}, TypeOK', Cleaned'
        PROVE  IInv'
    BY <1>2 DEF IInv, Prepared, Undone, Preparing, Undoing, Cleaning, Retrying
  <1>3. ASSUME pc \in Cleaning \cup Retrying \cup {"debt"}, pc' \in Points,
               at' \in 1..(N + 1), UNCHANGED <<names, moved, broken, owed>>
        PROVE  /\ TypeOK'
               /\ \A i \in Images : original'[i] # "own"
               /\ owed' = {i \in Images : tombstone'[i]}
    BY <1>1, <1>3 DEF TypeOK, Cleaned, names
  <1>4. ASSUME pc \in {"removing", "dropping"}, at \in owed,
               tombstone' = [tombstone EXCEPT ![at] = FALSE], owed' = owed \ {at},
               pc' \in Points, at' = at + 1, at' \in 1..(N + 1),
               UNCHANGED <<original, linked, moved, broken>>
        PROVE  /\ TypeOK'
               /\ \A i \in Images : original'[i] # "own"
               /\ owed' = {i \in Images : tombstone'[i]}
    <2>1. /\ \A i \in Images : original[i] # "own"
          /\ owed = {i \in Images : tombstone[i]}
      BY <1>1, <1>4 DEF Cleaned, Cleaning, Retrying
    <2>2. /\ tombstone'[at] = FALSE
          /\ \A i \in Images : i # at => tombstone'[i] = tombstone[i]
      BY <1>1, <1>4, <2>1 DEF TypeOK
    <2>3. TypeOK'
      BY <1>1, <1>4 DEF TypeOK
    <2> QED
      BY <1>4, <2>1, <2>2, <2>3
  <1>5. CASE CheckCommitted
    <2>1. pc = "cleaning" /\ pc' \in {"removing", "debt"} /\ UNCHANGED <<at, names, moved, broken, owed>>
      BY <1>5 DEF CheckCommitted
    <2>2. at \in Images /\ owed = at..N
      BY <1>1, <2>1 DEF Cleaned, Cleaning
    <2>3. pc' \in Points /\ at' \in 1..(N + 1)
      BY <2>1, <2>2 DEF Points, Cleaning, Done
    <2>4. Cleaned'
      BY <1>3, <2>1, <2>2, <2>3 DEF Cleaned, Cleaning, Retrying
    <2> QED
      BY <1>2, <1>3, <2>1, <2>3, <2>4 DEF Cleaning
  <1>6. CASE RemoveTombstone
    <2>1. /\ pc = "removing" /\ pc' = (IF at = N THEN "settling" ELSE "cleaning")
          /\ tombstone' = [tombstone EXCEPT ![at] = FALSE]
          /\ owed' = owed \ {at} /\ at' = at + 1
          /\ UNCHANGED <<original, linked, moved, broken>>
      BY <1>6 DEF RemoveTombstone, Goto
    <2>2. at \in Images /\ owed = at..N
      BY <1>1, <2>1 DEF Cleaned, Cleaning
    <2>3. pc' \in Points /\ at' \in 1..(N + 1) /\ at \in owed
      BY <2>1, <2>2 DEF Points, Cleaning
    <2>4. owed' = (at + 1)..N
      BY <2>1, <2>2
    <2>5. Cleaned'
      BY <1>4, <2>1, <2>2, <2>3, <2>4 DEF Cleaned, Cleaning, Retrying
    <2> QED
      BY <1>2, <1>4, <2>1, <2>3, <2>5 DEF Cleaning
  <1>7. CASE Settle
    <2>1. pc = "settling" /\ pc' = "dropped" /\ UNCHANGED <<at, names, moved, broken, owed>>
      BY <1>7 DEF Settle, Goto
    <2>2. at \in 1..(N + 1) /\ owed = {}
      BY <1>1, <2>1 DEF Cleaned, Cleaning
    <2>3. pc' \in Points /\ at' \in 1..(N + 1)
      BY <2>1, <2>2 DEF Points, Done
    <2>4. Cleaned'
      BY <1>3, <2>1, <2>2, <2>3 DEF Cleaned, Cleaning, Retrying
    <2> QED
      BY <1>2, <1>3, <2>1, <2>3, <2>4 DEF Cleaning
  <1>8. CASE CleaningFails \/ BeginRetry \/ EndRetry
    <2>1. /\ pc \in Cleaning \cup {"debt", "retrying"} /\ pc' \in {"debt", "retrying"}
          /\ at' \in {at, 1} /\ UNCHANGED <<names, moved, broken, owed>>
      BY <1>8 DEF CleaningFails, BeginRetry, EndRetry, Goto
    <2>2. at \in 1..(N + 1)
      BY <1>1, <2>1 DEF Cleaned, Retrying
    <2>3. pc' \in Points /\ at' \in 1..(N + 1)
      BY <2>1, <2>2 DEF Points, Done, Retrying
    <2>4. Cleaned'
      BY <1>3, <2>1, <2>3 DEF Cleaned, Cleaning, Retrying
    <2> QED
      BY <1>2, <1>3, <2>1, <2>3, <2>4 DEF Cleaning, Retrying
  <1>9. CASE MatchTombstone
    <2>1. /\ pc = "retrying" /\ at \in Images /\ UNCHANGED <<names, moved, broken, owed>>
          /\ \/ pc' = "dropping" /\ at' = at /\ at \in owed
             \/ pc' = "retrying" /\ at' = at + 1
      BY <1>9 DEF MatchTombstone
    <2>2. pc' \in Points /\ at' \in 1..(N + 1)
      BY <2>1 DEF Points, Retrying
    <2>3. Cleaned'
      BY <1>3, <2>1, <2>2 DEF Cleaned, Cleaning, Retrying
    <2> QED
      BY <1>2, <1>3, <2>1, <2>2, <2>3 DEF Retrying
  <1>10. CASE DropTombstone
    <2>1. /\ pc = "dropping" /\ pc' = "retrying" /\ at \in owed /\ at \in 1..(N + 1)
          /\ tombstone' = [tombstone EXCEPT ![at] = FALSE]
          /\ owed' = owed \ {at} /\ at' = at + 1
          /\ UNCHANGED <<original, linked, moved, broken>>
      BY <1>1, <1>10 DEF DropTombstone, Goto, Cleaned, Retrying
    <2>2. pc' \in Points /\ at' \in 1..(N + 1)
      BY <1>1, <2>1 DEF Points, Retrying, TypeOK
    <2>3. Cleaned'
      BY <1>4, <2>1, <2>2 DEF Cleaned, Cleaning, Retrying
    <2> QED
      BY <1>2, <1>4, <2>1, <2>2, <2>3 DEF Retrying
  <1>11. CASE RetryStepFails
    <2>1. /\ pc \in Retrying /\ at \in Images /\ pc' = "retrying" /\ at' = at + 1
          /\ UNCHANGED <<names, moved, broken, owed>>
      BY <1>11 DEF RetryStepFails
    <2>2. pc' \in Points /\ at' \in 1..(N + 1)
      BY <2>1 DEF Points, Retrying
    <2>3. Cleaned'
      BY <1>3, <2>1, <2>2 DEF Cleaned, Cleaning, Retrying
    <2> QED
      BY <1>2, <1>3, <2>1, <2>2, <2>3 DEF Retrying
  <1> QED
    BY <1>5, <1>6, <1>7, <1>8, <1>9, <1>10, <1>11 DEF Cleanup

(* Somebody else's new name does not change which images have theirs.      *)
LEMMA OutsideInv ==
    ASSUME IInv, Outside
    PROVE  IInv'
  <1> USE NAssumption DEF Images
  <1>1. TypeOK
    BY DEF IInv
  <1>2. /\ UNCHANGED <<pc, at, tombstone, moved, broken, owed>>
        /\ \A i \in Images : original'[i] = "own" <=> original[i] = "own"
    BY <1>1 DEF Outside, OutsideLink, OutsideUnlink, OutsideFile, TypeOK
  <1>3. TypeOK'
    BY <1>1, <1>2 DEF Outside, OutsideLink, OutsideUnlink, OutsideFile, TypeOK
  <1>4. \A i \in Images : AsMoved(i)' = AsMoved(i) /\ Present(i)' = Present(i)
    BY <1>2 DEF AsMoved, Present
  <1>5. Prepared'
    BY <1>2, <1>4 DEF IInv, Prepared
  <1>6. Undone'
    BY <1>2, <1>4 DEF IInv, Undone
  <1>7. Cleaned'
    BY <1>2 DEF IInv, Cleaned
  <1> QED
    BY <1>2, <1>3, <1>4, <1>5, <1>6, <1>7 DEF IInv

-----------------------------------------------------------------------------

(* The inductive invariant holds always, for every number of images.       *)
THEOREM Invariance == Spec => []IInv
  <1>1. IInv /\ [Next]_vars => IInv'
    <2> SUFFICES ASSUME IInv, [Next]_vars PROVE IInv'
      OBVIOUS
    <2>1. CASE UNCHANGED vars
      <3>1. \A i \in Images : AsMoved(i)' = AsMoved(i) /\ Present(i)' = Present(i)
        BY <2>1, ShapesKept DEF vars, names
      <3>2. TypeOK' /\ Cleaned'
        BY <2>1 DEF vars, IInv, TypeOK, Cleaned
      <3>3. Prepared'
        BY <2>1, <3>1 DEF vars, IInv, Prepared
      <3>4. Undone'
        <4>1. /\ pc' = pc /\ at' = at /\ broken' = broken
              /\ original' = original /\ tombstone' = tombstone
          BY <2>1 DEF vars
        <4>2. Undone
          BY DEF IInv
        <4> SUFFICES ASSUME pc \in Undoing PROVE Undone'
          BY <4>1 DEF Undone
        <4>3. \A i \in Images : i < at' \/ (i = at' /\ pc' = "undoing") => AsMoved(i)'
          BY <3>1, <4>1, <4>2 DEF Undone
        <4>4. \A i \in Images : i > at' => IF broken' THEN original'[i] = "own" \/ tombstone'[i]
                                                      ELSE Present(i)'
          BY <3>1, <4>1, <4>2 DEF Undone
        <4>5. Present(at)' = Present(at)
          BY <4>1 DEF Present
        <4> QED
          BY <4>1, <4>2, <4>3, <4>4, <4>5 DEF Undone
      <3> QED
        BY <2>1, <3>1, <3>2, <3>3, <3>4 DEF vars, IInv
    <2>2. CASE Terminated
      BY <2>1, <2>2 DEF Terminated
    <2> QED
      BY <2>1, <2>2, TransactionInv, RollbackInv, CleanupInv, OutsideInv DEF Next
  <1> QED
    BY <1>1, InitialInv, PTL DEF Spec

(* The drop keeps the types of its variables.                              *)
THEOREM TypeCorrect == Spec => []TypeOK
  <1>1. IInv => TypeOK
    BY DEF IInv
  <1> QED
    BY <1>1, Invariance, PTL

(* The drop happens to every image or, unless it says otherwise, to none.  *)
THEOREM DropIsAtomic == Spec => []AllOrNothing
  <1>1. IInv => AllOrNothing
    BY DEF IInv, AllOrNothing, Cleaned, Dropped
  <1> QED
    BY <1>1, Invariance, PTL

(* Until the commit every image can be restored.                           *)
THEOREM NothingGetsNameless == Spec => []NeverNameless
  <1>1. IInv => NeverNameless
    <2> SUFFICES ASSUME IInv, pc \notin Cleaning \cup Retrying \cup {"dropped", "debt"},
                        NEW i \in Images
                 PROVE  original[i] = "own" \/ tombstone[i]
      BY DEF NeverNameless
    <2>1. CASE pc \in Preparing
      <3>1. AsMoved(i) /\ moved[i] \in {"no", "linked", "unlinked"}
        BY <2>1 DEF IInv, Prepared, TypeOK
      <3> QED
        BY <3>1 DEF AsMoved, Present
    <2>2. CASE pc \in Undoing
      <3>1. CASE i = at
        BY <2>2, <3>1, HandNamed
      <3>2. CASE i # at
        <4>1. i < at \/ i > at
          BY <2>2, <3>2, NAssumption DEF IInv, Undone, Images
        <4>2. CASE i < at
          <5>1. AsMoved(i) /\ moved[i] \in {"no", "linked", "unlinked"}
            BY <2>2, <4>2 DEF IInv, Undone, TypeOK
          <5> QED
            BY <5>1 DEF AsMoved, Present
        <4>3. CASE i > at
          BY <2>2, <4>3 DEF IInv, Undone, Present
        <4> QED
          BY <4>1, <4>2, <4>3
      <3> QED
        BY <3>1, <3>2
    <2>3. CASE pc \in {"start", "refused", "rolledBack", "rollbackFailed"}
      BY <2>3 DEF IInv, Present
    <2> QED
      BY <2>1, <2>2, <2>3 DEF IInv, TypeOK, Points, Done
  <1> QED
    BY <1>1, Invariance, PTL

(* A cleanup error, and every retry, names exactly the tombstones left.    *)
THEOREM DebtStaysExact == Spec => []DebtIsExact
  <1>1. IInv => DebtIsExact
    BY DEF IInv, DebtIsExact, Cleaned
  <1> QED
    BY <1>1, Invariance, PTL

(* No step removes or replaces a file somebody else has put there.         *)
THEOREM ForeignFilesAreKept == Spec => ForeignFilesStay
  <1>1. IInv /\ [Next]_vars =>
          [\A i \in Images : original[i] = "foreign" => original'[i] = "foreign"]_vars
    <2> SUFFICES ASSUME IInv, Next, NEW i \in Images, original[i] = "foreign"
                 PROVE  original'[i] = "foreign"
      BY DEF vars
    <2>1. TypeOK /\ Prepared
      BY DEF IInv
    <2>2. CASE Unlink
      <3>1. at \in Images /\ AsMoved(at) /\ moved[at] = "linked"
        BY <2>1, <2>2, NAssumption DEF Unlink, Goto, Prepared, Preparing, Images
      <3>2. original[at] = "own"
        BY <3>1 DEF AsMoved
      <3> QED
        BY <2>1, <2>2, <3>1, <3>2 DEF Unlink, TypeOK
    <2>3. CASE Relink
      BY <2>1, <2>3 DEF Relink, UndoBreaks, TypeOK
    <2>4. CASE Outside
      BY <2>1, <2>4 DEF Outside, OutsideLink, OutsideUnlink, OutsideFile, TypeOK
    <2>5. CASE Transaction /\ ~Unlink
      BY <2>5 DEF Transaction, Preflight, Look, Link, CheckLinked, CheckUnlinked, Commit,
         TransactionFails, Check, BeginUndo, names
    <2>6. CASE Rollback /\ ~Relink
      BY <2>6 DEF Rollback, SkipUnmoved, CheckTombstone, CheckSource, BuryTombstone,
         CheckRestored, UndoStepFails, FinishUndo, ReportUndo, UndoBreaks, names
    <2>7. CASE Cleanup
      BY <2>7 DEF Cleanup, CheckCommitted, RemoveTombstone, Settle, CleaningFails,
         BeginRetry, MatchTombstone, DropTombstone, RetryStepFails, EndRetry, names
    <2>8. CASE Terminated
      BY <2>8 DEF Terminated, vars
    <2> QED
      BY <2>2, <2>3, <2>4, <2>5, <2>6, <2>7, <2>8 DEF Next
  <1> QED
    BY <1>1, Invariance, PTL DEF Spec, ForeignFilesStay

=============================================================================
