----------------------- MODULE QuarantineDirectoryProofs -----------------------
(***************************************************************************)
(* The rejection manifest, for every set of builds and of directories and  *)
(* whatever fails: it implements a set of rows that only grows.            *)
(*                                                                         *)
(* Two writers that hold the lock have different directories open, so a    *)
(* manifest changes under a writer only by its own hand or an outsider's;  *)
(* the last look tells an outsider's file from the one that was read.      *)
(* The second half is about the reports, and the last section about the    *)
(* whole directory.                                                        *)
(***************************************************************************)
EXTENDS QuarantineDirectory, TLAPS

LEMMA InitialInv == Init => IInv
  <1> SUFFICES ASSUME Init PROVE IInv
    OBVIOUS
  <1>1. TypeOK
    <2>1. NoFile \in Files
      BY DEF NoFile, Files
    <2>2. pc \in [Writers -> Points]
      BY DEF Init, Points, Early
    <2> QED
      BY <2>1, <2>2 DEF Init, TypeOK
  <1>2. FilesAreKnown
    BY AuthorsDiffer DEF Init, FilesAreKnown, NoFile
  <1>3. \A w \in Writers : Standing(w, pc[w])
    BY DEF Init, Standing, Guarded, Merging, Decided, Ending
  <1> QED
    BY <1>1, <1>2, <1>3 DEF IInv

(* Holders of locks have different directories open.                       *)
LEMMA Apart ==
    ASSUME IInv, NEW v \in Writers, NEW w \in Writers, v # w,
           pc[v] \in Guarded, pc[w] \in Guarded
    PROVE  dir[v] # dir[w]
  BY DEF IInv, Standing

(* A step that changes nothing but where one writer is, and its temporary. *)
LEMMA Moved ==
    ASSUME IInv, NEW w \in Writers, NEW to \in Points, Standing(w, to),
           pc' = [pc EXCEPT ![w] = to], UNCHANGED <<disk, lock, dir, read>>,
           temporary' \in [Writers -> BOOLEAN]
    PROVE  IInv'
  <1>1. TypeOK'
    BY DEF IInv, TypeOK, disk
  <1>2. FilesAreKnown'
    BY DEF IInv, FilesAreKnown, disk
  <1>3. \A v \in Writers : pc'[v] = IF v = w THEN to ELSE pc[v]
    BY DEF IInv, TypeOK
  <1>4. ASSUME NEW v \in Writers PROVE Standing(v, pc[v])' 
    <2>1. Standing(v, pc'[v])
      BY <1>3 DEF IInv
    <2> QED
      BY <2>1 DEF Standing, disk
  <1> QED
    BY <1>1, <1>2, <1>4 DEF IInv

(* An exception finds the finally block entitled to what it does.          *)
LEMMA RaisedStands ==
    ASSUME IInv, NEW w \in Writers, pc[w] \in Points \ Ended
    PROVE  Raised(pc[w]) \in Points /\ Standing(w, Raised(pc[w]))
  <1>1. Standing(w, pc[w])
    BY DEF IInv
  <1>2. Raised(pc[w]) \in {"failed", "tidying", "releasing"}
    BY DEF Raised
  <1>3. CASE pc[w] \in Early
    BY <1>3
       DEF Raised, Standing, Points, Early, Guarded, Merging, Decided, Ending,
           Ended
  <1>4. CASE pc[w] \in Guarded
    BY <1>1, <1>2, <1>4 DEF Standing, Points, Guarded, Merging, Decided, Ending, Ended
  <1> QED
    BY <1>3, <1>4 DEF Points

(* A step that looks and goes on or raises.                                *)
LEMMA Checked ==
    ASSUME IInv, NEW w \in Writers, NEW from \in Points \ Ended, NEW to \in Points,
           NEW ok \in BOOLEAN, Check(w, from, ok, to), ok => Standing(w, to)
    PROVE  IInv'
  <1>1. pc[w] = from /\ pc' = [pc EXCEPT ![w] = IF ok THEN to ELSE Raised(from)]
    BY DEF Check, Step
  <1>2. UNCHANGED <<disk, lock, dir, read, temporary>>
    BY DEF Check
  <1>3. temporary' \in [Writers -> BOOLEAN]
    BY <1>2 DEF IInv, TypeOK
  <1>4. CASE ok
    BY <1>1, <1>2, <1>3, <1>4, Moved
  <1>5. CASE ~ok
    BY <1>1, <1>2, <1>3, <1>5, Moved, RaisedStands
  <1> QED
    BY <1>4, <1>5

-----------------------------------------------------------------------------
(* The steps of a writer.                                                  *)

LEMMA Looks ==
    ASSUME IInv, NEW w \in Writers,
           SeePath(w) \/ Read(w) \/ Identify(w) \/ Write(w) \/ Confirm(w) \/ SeeFinal(w)
    PROVE  IInv'
  <1> USE DEF Points, Early, Guarded, Merging, Decided, Ending, Ended
  <1>1. Standing(w, pc[w]) /\ TypeOK /\ FilesAreKnown
    BY DEF IInv
  <1>2. CASE SeePath(w)
    <2>1. PICK edge \in {<<"opened", "locking">>, <<"locked", "looking">>,
                         <<"confirming", "replacing">>, <<"returning", "closing">>} :
            Check(w, edge[1], here = dir[w], edge[2])
      BY <1>2 DEF SeePath
    <2>2. pc[w] = edge[1]
      BY <2>1 DEF Check, Step
    <2>3. edge[1] \in Points \ Ended /\ edge[2] \in Points
      BY <2>1
    <2>4. Standing(w, edge[2])
      BY <1>1, <2>2 DEF Standing
    <2> QED
      BY <2>1, <2>3, <2>4, Checked
  <1>3. CASE Read(w)
    <2>1. Standing(w, "staging")
      BY <1>1, <1>3 DEF Read, Check, Step, Standing
    <2>2. (Same(w) /\ Junk \notin read[w].rows) \in BOOLEAN
      BY DEF Same
    <2> QED
      BY <1>3, <2>1, <2>2, Checked DEF Read
  <1>4. CASE Identify(w)
    <2>1. Standing(w, "writing")
      BY <1>1, <1>4 DEF Identify, Check, Step, Standing
    <2> QED
      BY <1>4, <2>1, Checked DEF Identify
  <1>5. CASE Write(w)
    <2>1. Standing(w, "checking")
      BY <1>1, <1>5 DEF Write, Check, Step, Standing
    <2> QED
      BY <1>5, <2>1, Checked DEF Write
  <1>6. CASE Confirm(w)
    <2>1. ASSUME Same(w) PROVE Standing(w, "confirming")
      BY <1>1, <1>6, <2>1 DEF Confirm, Check, Step, Standing, Same
    <2>2. Same(w) \in BOOLEAN
      BY DEF Same
    <2> QED
      BY <1>6, <2>1, <2>2, Checked DEF Confirm
  <1>7. CASE SeeFinal(w)
    <2>1. Standing(w, "syncing")
      BY <1>1, <1>7 DEF SeeFinal, Check, Step, Standing
    <2> QED
      BY <1>7, <2>1, Checked DEF SeeFinal
  <1> QED
    BY <1>2, <1>3, <1>4, <1>5, <1>6, <1>7

LEMMA Opens ==
    ASSUME IInv, NEW w \in Writers, Open(w)
    PROVE  IInv'
  <1>1. TypeOK /\ FilesAreKnown /\ \A v \in Writers : Standing(v, pc[v])
    BY DEF IInv
  <1>2. /\ pc[w] = "start" /\ pc' = [pc EXCEPT ![w] = "opened"]
        /\ dir' = [dir EXCEPT ![w] = here'] /\ here' \in Dirs /\ made' \subseteq Dirs
        /\ UNCHANGED <<manifest, candidates, outside, moves, losses, lock, read, temporary>>
    BY <1>1 DEF Open, Step, TypeOK
  <1>3. TypeOK'
    BY <1>1, <1>2 DEF TypeOK, Points, Early
  <1>4. FilesAreKnown'
    BY <1>1, <1>2 DEF FilesAreKnown
  <1>5. Standing(w, pc[w])'
    BY <1>1, <1>2 DEF Standing, TypeOK, Guarded, Merging, Decided, Ending
  <1>6. \A v \in Writers : v # w => Standing(v, pc[v])'
    BY <1>1, <1>2 DEF Standing, TypeOK
  <1> QED
    BY <1>3, <1>4, <1>5, <1>6 DEF IInv

LEMMA Locks ==
    ASSUME IInv, NEW w \in Writers, Lock(w)
    PROVE  IInv'
  <1>1. TypeOK /\ FilesAreKnown /\ \A v \in Writers : Standing(v, pc[v])
    BY DEF IInv
  <1>2. /\ pc[w] = "locking" /\ pc' = [pc EXCEPT ![w] = "locked"]
        /\ lock[dir[w]] = Nobody /\ lock' = [lock EXCEPT ![dir[w]] = w]
        /\ UNCHANGED <<disk, dir, read, temporary>>
    BY DEF Lock, Step
  <1>3. dir[w] \in Dirs
    BY <1>1, <1>2 DEF Standing
  <1>4. TypeOK'
    BY <1>1, <1>2, <1>3 DEF TypeOK, disk, Points, Guarded
  <1>5. FilesAreKnown'
    BY <1>1, <1>2 DEF FilesAreKnown, disk
  <1>6. Standing(w, pc[w])'
    BY <1>1, <1>2, <1>3 DEF Standing, TypeOK, disk, Guarded, Merging, Decided, Ending
  <1>7. ASSUME NEW v \in Writers, v # w PROVE Standing(v, pc[v])'
    <2>1. pc'[v] = pc[v] /\ Standing(v, pc[v])
      BY <1>1, <1>2, <1>7 DEF TypeOK
    <2>2. pc[v] \in Guarded => dir[v] # dir[w]
      BY <1>1, <1>2, <2>1, AuthorsDiffer DEF Standing
    <2>3. pc[v] \in Guarded => lock'[dir[v]] = v
      BY <1>1, <1>2, <2>1, <2>2 DEF Standing, TypeOK
    <2> QED
      BY <1>2, <2>1, <2>3 DEF Standing, disk
  <1> QED
    BY <1>4, <1>5, <1>6, <1>7 DEF IInv

LEMMA LooksFirst ==
    ASSUME IInv, NEW w \in Writers, Look(w)
    PROVE  IInv'
  <1>1. TypeOK /\ FilesAreKnown /\ \A v \in Writers : Standing(v, pc[v])
    BY DEF IInv
  <1>2. /\ pc[w] = "looking" /\ \E to \in {"staging", "reading"} : pc' = [pc EXCEPT ![w] = to]
        /\ read' = [read EXCEPT ![w] = manifest[dir[w]]]
        /\ UNCHANGED <<disk, lock, dir, temporary>>
    BY DEF Look, Step
  <1>3. dir[w] \in Dirs
    BY <1>1, <1>2 DEF Standing, Guarded
  <1>4. TypeOK'
    BY <1>1, <1>2, <1>3 DEF TypeOK, disk, Points, Guarded, Merging
  <1>5. FilesAreKnown'
    BY <1>1, <1>2 DEF FilesAreKnown, disk
  <1>6. Standing(w, pc[w])'
    BY <1>1, <1>2, <1>3 DEF Standing, TypeOK, disk, Guarded, Merging, Decided, Ending
  <1>7. \A v \in Writers : v # w => Standing(v, pc[v])'
    BY <1>1, <1>2 DEF Standing, TypeOK, disk
  <1> QED
    BY <1>4, <1>5, <1>6, <1>7 DEF IInv

LEMMA Creates ==
    ASSUME IInv, NEW w \in Writers, CreateTemporary(w) \/ Tidy(w) \/ Fail(w)
    PROVE  IInv'
  <1>1. TypeOK /\ Standing(w, pc[w])
    BY DEF IInv
  <1>2. CASE CreateTemporary(w)
    <2>1. Standing(w, "created") /\ "created" \in Points
      BY <1>1, <1>2
         DEF CreateTemporary, Step, Standing, Points, Guarded, Merging, Decided,
             Ending
    <2>2. temporary' \in [Writers -> BOOLEAN]
      BY <1>1, <1>2 DEF CreateTemporary, TypeOK
    <2> QED
      BY <1>2, <2>1, <2>2, Moved DEF CreateTemporary, Step
  <1>3. CASE Tidy(w)
    <2>1. Standing(w, "releasing") /\ "releasing" \in Points
      BY <1>1, <1>3 DEF Tidy, Step, Standing, Points, Guarded, Merging, Decided, Ending
    <2>2. temporary' \in [Writers -> BOOLEAN]
      BY <1>1, <1>3 DEF Tidy, TypeOK
    <2> QED
      BY <1>3, <2>1, <2>2, Moved DEF Tidy, Step
  <1>4. CASE Fail(w)
    <2>1. PICK to \in {Raised(pc[w])} \cup {"failed"} : pc' = [pc EXCEPT ![w] = to]
      BY <1>4 DEF Fail
    <2>2. pc[w] \in Points \ Ended
      BY <1>4, FaultAssumption DEF Fail
    <2>3. Standing(w, "failed") /\ "failed" \in Points
      BY DEF Standing, Points, Guarded, Merging, Decided, Ending, Ended
    <2>4. to \in Points /\ Standing(w, to)
      BY <2>1, <2>2, <2>3, RaisedStands
    <2>5. temporary' \in [Writers -> BOOLEAN]
      BY <1>1, <1>4 DEF Fail, TypeOK
    <2> QED
      BY <1>4, <2>1, <2>4, <2>5, Moved DEF Fail
  <1> QED
    BY <1>2, <1>3, <1>4

LEMMA Replaces ==
    ASSUME IInv, NEW w \in Writers, Replace(w)
    PROVE  IInv' /\ \A d \in Dirs : manifest[d].rows \subseteq manifest'[d].rows
  <1>1. TypeOK /\ FilesAreKnown /\ \A v \in Writers : Standing(v, pc[v])
    BY DEF IInv
  <1> DEFINE file == [author |-> w, rows |-> read[w].rows \cup {w}]
  <1>2. /\ pc[w] = "replacing" /\ pc' = [pc EXCEPT ![w] = "replaced"]
        /\ manifest' = [manifest EXCEPT ![dir[w]] = file]
        /\ candidates' = [candidates EXCEPT ![dir[w]] = @ \cup {file}]
        /\ temporary' = [temporary EXCEPT ![w] = FALSE]
        /\ UNCHANGED <<here, made, outside, moves, losses, lock, dir, read>>
    BY DEF Replace, Put, Step
  <1>3. dir[w] \in Dirs /\ manifest[dir[w]] = read[w] /\ pc[w] \in Guarded
    BY <1>1, <1>2 DEF Standing, Guarded, Decided
  <1>4. file \in Files
    BY <1>1 DEF TypeOK, Files, Rows
  <1>5. TypeOK'
    BY <1>1, <1>2, <1>3, <1>4 DEF TypeOK, Points, Guarded, Ending
  <1>6. manifest[dir[w]].rows \subseteq file.rows /\ w \in file.rows
    BY <1>3
  <1>7. \A d \in Dirs : manifest[d].rows \subseteq manifest'[d].rows
    BY <1>1, <1>2, <1>6 DEF TypeOK
  <1>8. FilesAreKnown'
    <2>1. file.author # Outsider
      BY AuthorsDiffer
    <2> QED
      BY <1>1, <1>2, <2>1 DEF FilesAreKnown, TypeOK
  <1>9. Standing(w, pc[w])'
    BY <1>1, <1>2, <1>3, <1>6 DEF Standing, TypeOK, Guarded, Merging, Decided, Ending
  <1>10. ASSUME NEW v \in Writers, v # w PROVE Standing(v, pc[v])'
    <2>1. pc'[v] = pc[v] /\ Standing(v, pc[v])
      BY <1>1, <1>2, <1>10 DEF TypeOK
    <2>2. CASE pc[v] \in Guarded
      <3>1. dir[v] \in Dirs /\ dir[v] # dir[w]
        BY <1>3, <1>10, <2>1, <2>2, Apart DEF Standing
      <3>2. manifest'[dir[v]] = manifest[dir[v]] /\ candidates'[dir[v]] = candidates[dir[v]]
        BY <1>1, <1>2, <3>1 DEF TypeOK
      <3> QED
        BY <1>2, <2>1, <3>2 DEF Standing
    <2>3. CASE pc[v] \notin Guarded
      <3>1. ASSUME pc[v] = "recorded", ~outside, NEW f \in candidates'[dir[v]]
            PROVE  v \in f.rows
        <4>1. dir[v] \in Dirs /\ \A e \in candidates[dir[v]] : v \in e.rows
          BY <2>1, <3>1 DEF Standing
        <4>2. CASE dir[v] = dir[w] /\ f = file
          BY <1>1, <1>6, <4>1, <4>2 DEF FilesAreKnown
        <4>3. CASE f \in candidates[dir[v]]
          BY <4>1, <4>3
        <4> QED
          BY <1>1, <1>2, <1>3, <3>1, <4>1, <4>2, <4>3 DEF TypeOK
      <3> QED
        BY <1>2, <2>1, <2>3, <3>1 DEF Standing, Guarded, Merging, Decided, Ending
    <2> QED
      BY <2>2, <2>3
  <1> QED
    BY <1>5, <1>7, <1>8, <1>9, <1>10 DEF IInv

LEMMA Syncs ==
    ASSUME IInv, NEW w \in Writers, Sync(w)
    PROVE  IInv'
  <1>1. TypeOK /\ FilesAreKnown /\ \A v \in Writers : Standing(v, pc[v])
    BY DEF IInv
  <1>2. /\ pc[w] = "syncing" /\ pc' = [pc EXCEPT ![w] = "returning"]
        /\ candidates' = [candidates EXCEPT ![dir[w]] = {manifest[dir[w]]}]
        /\ UNCHANGED <<here, made, manifest, outside, moves, losses, lock, dir, read, temporary>>
    BY DEF Sync, Step
  <1>3. dir[w] \in Dirs
    BY <1>1, <1>2 DEF Standing, Guarded, Ending
  <1>4. TypeOK'
    BY <1>1, <1>2, <1>3 DEF TypeOK, Points, Guarded, Ending
  <1>5. \A d \in Dirs : candidates'[d] \subseteq candidates[d] /\ manifest[d] \in candidates'[d]
    BY <1>1, <1>2 DEF FilesAreKnown, TypeOK
  <1>6. FilesAreKnown'
    BY <1>1, <1>2, <1>5 DEF FilesAreKnown
  <1>7. Standing(w, pc[w])'
    BY <1>1, <1>2, <1>3 DEF Standing, TypeOK, Guarded, Merging, Decided, Ending
  <1>8. \A v \in Writers : v # w => Standing(v, pc[v])'
    BY <1>1, <1>2, <1>5 DEF Standing, TypeOK, Guarded, Ending
  <1> QED
    BY <1>4, <1>6, <1>7, <1>8 DEF IInv

(* Whoever lets go of locks has left the guarded stretch.                  *)
LEMMA LetsGo ==
    ASSUME IInv, NEW w \in Writers, NEW to \in Ended, pc' = [pc EXCEPT ![w] = to],
           to = "recorded" => pc[w] = "closing",
           lock' \in [Dirs -> Writers \cup {Nobody}],
           \A d \in Dirs : lock'[d] = lock[d] \/ lock[d] = w,
           UNCHANGED <<disk, dir, read, temporary>>
    PROVE  IInv'
  <1>1. TypeOK /\ FilesAreKnown /\ \A v \in Writers : Standing(v, pc[v])
    BY DEF IInv
  <1>2. TypeOK'
    BY <1>1 DEF TypeOK, disk, Points
  <1>3. FilesAreKnown'
    BY <1>1 DEF FilesAreKnown, disk
  <1>4. Standing(w, pc[w])'
    BY <1>1 DEF Standing, TypeOK, disk, Ended, Guarded, Merging, Decided, Ending
  <1>5. ASSUME NEW v \in Writers, v # w PROVE Standing(v, pc[v])'
    <2>1. pc'[v] = pc[v] /\ Standing(v, pc[v])
      BY <1>1, <1>5 DEF TypeOK
    <2>2. pc[v] \in Guarded => lock'[dir[v]] = v
      BY <1>5, <2>1 DEF Standing
    <2> QED
      BY <2>1, <2>2 DEF Standing, disk
  <1> QED
    BY <1>2, <1>3, <1>4, <1>5 DEF IInv

LEMMA Releases ==
    ASSUME IInv, NEW w \in Writers, Unlock(w) \/ Exit(w) \/ Crash(w)
    PROVE  IInv'
  <1>1. TypeOK /\ Standing(w, pc[w])
    BY DEF IInv
  <1>2. CASE Unlock(w)
    <2>1. pc[w] \in Guarded
      BY <1>2 DEF Unlock, Step, Guarded, Ending
    <2>2. dir[w] \in Dirs /\ lock[dir[w]] = w
      BY <1>1, <2>1 DEF Standing
    <2>3. /\ lock' \in [Dirs -> Writers \cup {Nobody}]
          /\ \A d \in Dirs : lock'[d] = lock[d] \/ lock[d] = w
      BY <1>1, <1>2, <2>2 DEF Unlock, TypeOK
    <2>4. CASE Step(w, "closing", "recorded")
      BY <1>2, <2>3, <2>4, LetsGo DEF Unlock, Step, Ended
    <2>5. CASE Step(w, "releasing", "failed")
      BY <1>2, <2>3, <2>5, LetsGo DEF Unlock, Step, Ended
    <2> QED
      BY <1>2, <2>4, <2>5 DEF Unlock
  <1>3. CASE Exit(w)
    <2>1. /\ lock' \in [Dirs -> Writers \cup {Nobody}]
          /\ \A d \in Dirs : lock'[d] = lock[d] \/ lock[d] = w
      BY <1>1, <1>3 DEF Exit, TypeOK
    <2>2. pc' = [pc EXCEPT ![w] = "failed"]
      BY <1>1, <1>3 DEF Exit, TypeOK
    <2> QED
      BY <1>3, <2>1, <2>2, LetsGo DEF Exit, Ended
  <1>4. CASE Crash(w)
    <2>1. /\ lock' \in [Dirs -> Writers \cup {Nobody}]
          /\ \A d \in Dirs : lock'[d] = lock[d] \/ lock[d] = w
      BY <1>1, <1>4 DEF Crash, TypeOK
    <2> QED
      BY <1>4, <2>1, LetsGo DEF Crash, Ended
  <1> QED
    BY <1>2, <1>3, <1>4

-----------------------------------------------------------------------------
(* What happens around the writers.                                        *)

LEMMA Meddles ==
    ASSUME IInv, NEW d \in Dirs, Meddle(d)
    PROVE  IInv'
  <1>1. TypeOK /\ FilesAreKnown /\ \A v \in Writers : Standing(v, pc[v])
    BY DEF IInv
  <1>2. PICK rows \in {{}, manifest[d].rows \cup {Junk}} :
          Put(d, [author |-> Outsider, rows |-> rows])
    BY DEF Meddle
  <1> DEFINE file == [author |-> Outsider, rows |-> rows]
  <1>3. /\ ~outside /\ outside' = TRUE
        /\ \A w \in Writers : dir[w] = d => pc[w] \notin Decided
        /\ manifest' = [manifest EXCEPT ![d] = file]
        /\ candidates' = [candidates EXCEPT ![d] = @ \cup {file}]
        /\ UNCHANGED <<here, made, moves, losses, lock, pc, dir, read, temporary>>
    BY <1>2 DEF Meddle, Put
  <1>4. file \in Files
    BY <1>1, <1>2 DEF TypeOK, Files, Rows
  <1>5. TypeOK'
    BY <1>1, <1>3, <1>4 DEF TypeOK
  <1>6. FilesAreKnown'
    BY <1>1, <1>3 DEF FilesAreKnown, TypeOK
  <1>7. ASSUME NEW v \in Writers PROVE Standing(v, pc[v])'
    <2>1. Standing(v, pc[v])
      BY <1>1
    <2>2. ASSUME pc[v] \in Merging
          PROVE  \/ manifest'[dir[v]] = read[v]
                 \/ manifest'[dir[v]].author = Outsider /\ read[v].author # Outsider
      <3>1. dir[v] \in Dirs /\ manifest[dir[v]] = read[v]
        BY <1>3, <2>1, <2>2 DEF Standing, Guarded
      <3>2. read[v].author # Outsider
        BY <1>1, <1>3, <3>1 DEF FilesAreKnown
      <3> QED
        BY <1>1, <1>3, <3>1, <3>2 DEF TypeOK
    <2>3. ASSUME pc[v] \in Decided PROVE manifest'[dir[v]] = read[v]
      BY <1>1, <1>3, <2>1, <2>3 DEF Standing, TypeOK, Guarded
    <2> QED
      BY <1>3, <2>1, <2>2, <2>3 DEF Standing
  <1> QED
    BY <1>5, <1>6, <1>7 DEF IInv

LEMMA LosesPower ==
    ASSUME IInv, PowerLoss
    PROVE  IInv'
  <1>1. TypeOK /\ FilesAreKnown /\ \A v \in Writers : Standing(v, pc[v])
    BY DEF IInv
  <1>2. TypeOK'
    <2>1. manifest' \in [Dirs -> Files]
      BY <1>1 DEF PowerLoss, TypeOK
    <2>2. pc' \in [Writers -> Points]
      BY <1>1 DEF PowerLoss, TypeOK, Points, Ended
    <2> QED
      BY <1>1, <2>1, <2>2 DEF PowerLoss, TypeOK
  <1>3. FilesAreKnown'
    BY <1>1 DEF PowerLoss, FilesAreKnown
  <1>4. ASSUME NEW v \in Writers PROVE Standing(v, pc[v])'
    <2>1. Standing(v, pc[v]) /\ pc'[v] = IF pc[v] \in Ended THEN pc[v] ELSE "crashed"
      BY <1>1 DEF PowerLoss
    <2>2. pc'[v] \in Ended
      BY <2>1 DEF Ended
    <2>3. \A d \in Dirs : candidates'[d] \subseteq candidates[d]
      BY DEF PowerLoss
    <2> QED
      BY <2>1, <2>2, <2>3
      DEF PowerLoss, Standing, Ended, Guarded, Merging, Decided, Ending
  <1> QED
    BY <1>2, <1>3, <1>4 DEF IInv

LEMMA MovesAround ==
    ASSUME IInv, MoveAway \/ MoveBack \/ UNCHANGED vars
    PROVE  IInv'
  <1>1. TypeOK /\ FilesAreKnown /\ \A v \in Writers : Standing(v, pc[v])
    BY DEF IInv
  <1>2. UNCHANGED <<made, manifest, candidates, outside, losses, lock, pc, dir, read, temporary>>
    BY DEF MoveAway, MoveBack, vars, disk
  <1>3. here' \in Dirs \cup {Nobody} /\ moves' \in Nat
    BY <1>1 DEF TypeOK, MoveAway, MoveBack, vars, disk
  <1> QED
    BY <1>1, <1>2, <1>3 DEF IInv, TypeOK, FilesAreKnown, Standing

LEMMA StepInv == IInv /\ [Next]_vars => IInv'
  <1> SUFFICES ASSUME IInv, [Next]_vars PROVE IInv'
    OBVIOUS
  <1>1. ASSUME NEW w \in Writers, Progress(w) \/ Crash(w) PROVE IInv'
    BY <1>1, Looks, Opens, Locks, LooksFirst, Creates, Replaces, Syncs, Releases
       DEF Progress
  <1>2. ASSUME NEW d \in Dirs, Meddle(d) PROVE IInv'
    BY <1>2, Meddles
  <1>3. CASE PowerLoss
    BY <1>3, LosesPower
  <1>4. CASE MoveAway \/ MoveBack \/ Terminated \/ UNCHANGED vars
    BY <1>4, MovesAround DEF Terminated
  <1> QED
    BY <1>1, <1>2, <1>3, <1>4 DEF Next

(* The inductive invariant, for every set of builds and directories.       *)
THEOREM Invariance == Spec => []IInv
  BY InitialInv, StepInv, PTL DEF Spec

(* The manifest protocol keeps the types of its variables.                 *)
THEOREM TypeCorrect == Spec => []TypeOK
  <1>1. IInv => TypeOK
    BY DEF IInv
  <1> QED
    BY <1>1, Invariance, PTL

(* Rows a build was told of are never lost to other builds, failures or a  *)
(* power loss.                                                             *)
THEOREM RecordedRowsStay == Spec => []RecordedStays
  <1>1. IInv => RecordedStays
    <2> SUFFICES ASSUME IInv, NEW w \in Writers, pc[w] = "recorded", ~outside,
                        NEW file \in candidates[dir[w]] \cup {manifest[dir[w]]}
                 PROVE  w \in file.rows
      BY DEF RecordedStays
    <2>1. dir[w] \in Dirs /\ \A f \in candidates[dir[w]] : w \in f.rows
      BY DEF IInv, Standing
    <2> QED
      BY <2>1 DEF IInv, FilesAreKnown
  <1> QED
    BY <1>1, Invariance, PTL

(* A call that succeeds has seen its rows under the configured path.       *)
THEOREM RecordedUnderPath == Spec => RecordedWhereLooked
  <1>1. IInv /\ [Next]_vars =>
          [\A w \in Writers : pc[w] # "closing" /\ pc'[w] = "closing" /\ ~outside =>
             here # Nobody /\ w \in manifest[here].rows]_vars
    <2> SUFFICES ASSUME IInv, Next, NEW w \in Writers,
                        pc[w] # "closing", pc'[w] = "closing", ~outside
                 PROVE  here # Nobody /\ w \in manifest[here].rows
      OBVIOUS
    <2>1. pc \in [Writers -> Points] /\ Standing(w, pc[w]) /\ FilesAreKnown
      BY DEF IInv, TypeOK
    <2>2. PICK v \in Writers : Progress(v) \/ Crash(v)
      <3>1. pc' # pc
        OBVIOUS
      <3>2. ~PowerLoss
        BY DEF PowerLoss, Ended
      <3> QED
        BY <3>1, <3>2 DEF Next, Meddle, MoveAway, MoveBack, Terminated, vars
    <2>3. ASSUME NEW to, pc' = [pc EXCEPT ![v] = to] PROVE v = w /\ to = "closing"
      BY <2>1, <2>3
    <2>4. pc[w] = "returning" /\ here = dir[w]
      BY <2>1, <2>2, <2>3
      DEF Progress, Open, SeePath, Lock, Look, Read, CreateTemporary, Identify, Write,
          Confirm, Replace, SeeFinal, Sync, Tidy, Unlock, Fail, Exit, Crash,
          Check, Step, Raised
    <2>5. dir[w] \in Dirs /\ \A file \in candidates[dir[w]] : w \in file.rows
      BY <2>1, <2>4 DEF Standing, Guarded, Ending
    <2> QED
      BY <2>1, <2>4, <2>5, AuthorsDiffer DEF FilesAreKnown
  <1> QED
    BY <1>1, Invariance, PTL DEF Spec, RecordedWhereLooked

-----------------------------------------------------------------------------
(* The refinement.                                                         *)

Recorded(d) == {w \in Writers : pc[w] = "recorded" /\ dir[w] = d}
Told(d) == IF outside THEN {} ELSE Recorded(d)

(* A step that puts no file and tells nobody is a stutter.                 *)
LEMMA Stutters ==
    ASSUME UNCHANGED <<manifest, outside, losses>>,
           \A d \in Dirs : Recorded(d)' = Recorded(d)
    PROVE  UNCHANGED Inventory!vars
  <1>1. \A d \in Dirs : Told(d)' = Told(d)
    BY DEF Told
  <1>2. [d \in Dirs |-> Told(d)]' = [d \in Dirs |-> Told(d)]
    BY <1>1
  <1> QED
    BY <1>2 DEF Inventory!vars, Told, Recorded

LEMMA WriterRefines ==
    ASSUME IInv, NEW w \in Writers, Progress(w) \/ Crash(w)
    PROVE  [Inventory!Next]_(Inventory!vars)
  <1>1. TypeOK /\ FilesAreKnown /\ Standing(w, pc[w])
    BY DEF IInv
  <1>2. CASE Replace(w)
    <2>1. dir[w] \in Dirs /\ manifest[dir[w]] = read[w] /\ pc[w] = "replacing"
      BY <1>1, <1>2 DEF Replace, Step, Standing, Guarded, Decided
    <2>2. \A d \in Dirs : Recorded(d)' = Recorded(d)
      BY <1>1, <1>2, <2>1 DEF Replace, Step, Recorded, TypeOK
    <2>3. \A d \in Dirs : Told(d)' = Told(d)
      BY <1>2, <2>2 DEF Replace, Told
    <2>4. \A d \in Dirs : manifest'[d].rows =
            IF d = dir[w] THEN manifest[d].rows \cup {w} ELSE manifest[d].rows
      BY <1>1, <1>2, <2>1 DEF Replace, Put, TypeOK
    <2> DEFINE stored == [d \in Dirs |-> manifest[d].rows]
    <2>5. [d \in Dirs |-> manifest'[d].rows] = [stored EXCEPT ![dir[w]] = @ \cup {w}]
      BY <2>1, <2>4
    <2>6. {w} \in SUBSET Rows
      BY DEF Rows
    <2>7. [d \in Dirs |-> Told(d)]' = [d \in Dirs |-> Told(d)]
      BY <2>3
    <2>8. PICK d \in Dirs : d = dir[w]
      BY <2>1
    <2>9. Inventory!Add(d)
      BY <1>2, <2>5, <2>6, <2>7, <2>8 DEF Inventory!Add, Replace, Told, Recorded
    <2> QED
      BY <2>9 DEF Inventory!Next
  <1>3. CASE Step(w, "closing", "recorded") /\ Unlock(w) /\ ~outside
    <2>1. dir[w] \in Dirs /\ w \in manifest[dir[w]].rows
      BY <1>1, <1>3 DEF Step, Standing, Guarded, Ending, FilesAreKnown
    <2>2. UNCHANGED <<disk, dir>> /\ pc' = [pc EXCEPT ![w] = "recorded"]
      BY <1>3 DEF Unlock, Step
    <2>3. \A d \in Dirs : Recorded(d)' = IF d = dir[w] THEN Recorded(d) \cup {w} ELSE Recorded(d)
      BY <1>1, <2>2 DEF Recorded, TypeOK
    <2>4. \A d \in Dirs : Told(d)' = IF d = dir[w] THEN Told(d) \cup {w} ELSE Told(d)
      BY <1>3, <2>2, <2>3 DEF Told, disk
    <2> DEFINE told == [d \in Dirs |-> Told(d)]
    <2>5. [d \in Dirs |-> Told(d)]' = [told EXCEPT ![dir[w]] = @ \cup {w}]
      BY <2>1, <2>4
    <2>6. PICK d \in Dirs : d = dir[w]
      BY <2>1
    <2>7. Inventory!Tell(d, w)
      BY <1>3, <2>1, <2>2, <2>5, <2>6 DEF Inventory!Tell, Told, Recorded, disk
    <2> QED
      BY <2>7 DEF Inventory!Next, Rows
  <1>4. CASE ~Replace(w) /\ ~(Unlock(w) /\ Step(w, "closing", "recorded") /\ ~outside)
    <2>1. UNCHANGED <<manifest, outside, losses>>
      BY <1>4
         DEF Progress, Open, SeePath, Lock, Look, Read, CreateTemporary,
             Identify, Write, Confirm, SeeFinal, Sync, Tidy, Unlock, Fail, Exit,
             Crash, Check, disk
    <2>2. CASE outside
      BY <2>1, <2>2 DEF Inventory!vars
    <2>3. CASE ~outside
      <3>1. \A v \in Writers : pc'[v] = "recorded" <=> pc[v] = "recorded"
        BY <1>1, <1>4, <2>3, FaultAssumption
           DEF TypeOK, Progress, Open, SeePath, Lock, Look, Read,
               CreateTemporary, Identify, Write, Confirm, SeeFinal, Sync, Tidy,
               Unlock, Fail, Exit, Crash, Check, Step, Raised, Ended
      <3>2. \A v \in Writers : pc[v] = "recorded" => dir'[v] = dir[v]
        BY <1>1, <1>4
           DEF TypeOK, Progress, Open, SeePath, Lock, Look, Read,
               CreateTemporary, Identify, Write, Confirm, SeeFinal, Sync, Tidy,
               Unlock, Fail, Exit, Crash, Check, Step
      <3>3. \A d \in Dirs : Recorded(d)' = Recorded(d)
        BY <3>1, <3>2 DEF Recorded
      <3> QED
        BY <2>1, <3>3, Stutters
    <2> QED
      BY <2>2, <2>3
  <1> QED
    BY <1>2, <1>3, <1>4

LEMMA SurroundingsRefine ==
    ASSUME IInv, (\E d \in Dirs : Meddle(d)) \/ PowerLoss \/ MoveAway \/ MoveBack
                 \/ UNCHANGED vars
    PROVE  [Inventory!Next]_(Inventory!vars)
  <1>1. TypeOK /\ \A v \in Writers : Standing(v, pc[v])
    BY DEF IInv
  <1>2. ASSUME NEW d \in Dirs, Meddle(d) PROVE Inventory!Next
    <2>1. PICK rows \in SUBSET Rows : manifest' = [manifest EXCEPT ![d] =
            [author |-> Outsider, rows |-> rows]]
      BY <1>1, <1>2 DEF Meddle, Put, TypeOK, Files, Rows
    <2>2. \A e \in Dirs : manifest'[e].rows = IF e = d THEN rows ELSE manifest[e].rows
      BY <1>1, <2>1 DEF TypeOK
    <2> DEFINE stored == [e \in Dirs |-> manifest[e].rows]
    <2>3. [e \in Dirs |-> manifest'[e].rows] = [stored EXCEPT ![d] = rows]
      BY <2>2
    <2>4. Inventory!Meddle(d)
      BY <1>2, <2>3 DEF Meddle, Inventory!Meddle
    <2> QED
      BY <2>4 DEF Inventory!Next
  <1>3. CASE PowerLoss
    <2>1. UNCHANGED <<outside, dir>> /\ losses' = losses + 1
      BY <1>3 DEF PowerLoss
    <2>2. \A d \in Dirs : Recorded(d)' = Recorded(d)
      BY <1>3 DEF PowerLoss, Recorded, Ended
    <2>3. [d \in Dirs |-> Told(d)]' = [d \in Dirs |-> Told(d)]
      BY <2>1, <2>2 DEF Told
    <2>4. \A d \in Dirs : manifest'[d] \in candidates[d] /\ manifest'[d].rows \in SUBSET Rows
      BY <1>1, <1>3 DEF PowerLoss, TypeOK, Files
    <2>5. \A d \in Dirs : Told(d) \subseteq manifest'[d].rows
      BY <1>1, <2>4 DEF Told, Recorded, Standing
    <2>6. Inventory!Lose
      BY <2>1, <2>3, <2>4, <2>5 DEF Inventory!Lose, Told, Recorded
    <2> QED
      BY <2>6 DEF Inventory!Next
  <1>4. CASE MoveAway \/ MoveBack \/ UNCHANGED vars
    <2>1. UNCHANGED <<manifest, outside, losses, pc, dir>>
      BY <1>4 DEF MoveAway, MoveBack, vars, disk
    <2> QED
      BY <2>1, Stutters DEF Recorded
  <1> QED
    BY <1>2, <1>3, <1>4

(* The manifest implements a set of rows that only grows: no interleaving  *)
(* of any number of builds loses a row.                                    *)
THEOREM Refinement == Spec => ImplementsInventory
  <1>1. Init => Inventory!Init
    BY DEF Init, Inventory!Init, NoFile
  <1>2. IInv /\ [Next]_vars => [Inventory!Next]_(Inventory!vars)
    BY WriterRefines, SurroundingsRefine DEF Next, Terminated
  <1> QED
    BY <1>1, <1>2, Invariance, PTL DEF Spec, ImplementsInventory, Inventory!Spec

-----------------------------------------------------------------------------
(* The reports beside the manifest, for every set of reporters and tokens,   *)
(* with every call failing: whatever name leads to a report, or may lead to  *)
(* it after a power loss, the report is whole and flushed (Standing).  A     *)
(* step of one reporter leaves what the others' names lead to alone.         *)

LEMMA ReportsInit == Reports!Init => Reports!IInv
  <1> SUFFICES ASSUME Reports!Init PROVE Reports!IInv
    OBVIOUS
  <1>1. {} \in Reports!Leads
    BY DEF Reports!Leads
  <1>2. Reports!TypeOK
    BY <1>1 DEF Reports!Init, Reports!TypeOK, Reports!Points
  <1>3. \A w \in Writers : Reports!Standing(w)
    BY DEF Reports!Init, Reports!Standing, Reports!Flushed, Reports!Exposed
  <1> QED
    BY <1>2, <1>3 DEF Reports!Init, Reports!IInv

(* A reporter that takes no step stands as before if its names stay, and   *)
(* no other name comes to lead to its file.                                *)
LEMMA OtherReports ==
    ASSUME Reports!IInv, NEW v \in Writers, foreign' = foreign,
           at'[v] = at[v], token'[v] = token[v],
           content'[v] = content[v], flushed'[v] = flushed[v],
           \A t \in Tokens : {v} \in kept'[t] => {v} \in kept[t],
           final[token[v]] = {v} => final'[token[v]] = {v},
           kept[token[v]] = {{v}} => kept'[token[v]] = {{v}}
    PROVE  Reports!Standing(v)'
  BY DEF Reports!IInv, Reports!Standing

(* A step of one reporter that neither makes nor takes away a final name.  *)
LEMMA QuietReports ==
    ASSUME Reports!IInv, NEW w \in Writers, NEW to \in Reports!Points,
           at' = [at EXCEPT ![w] = to], UNCHANGED <<token, final, kept, foreign>>,
           temp' \in [Tokens -> Reports!Leads],
           \/ UNCHANGED content
           \/ \E c \in {"none", "torn", "whole"} : content' = [content EXCEPT ![w] = c],
           UNCHANGED flushed \/ \E f \in BOOLEAN : flushed' = [flushed EXCEPT ![w] = f],
           Reports!Standing(w)'
    PROVE  Reports!IInv'
  <1>1. Reports!TypeOK'
    BY DEF Reports!IInv, Reports!TypeOK
  <1>2. \A v \in Writers : v # w =>
          at'[v] = at[v] /\ content'[v] = content[v] /\ flushed'[v] = flushed[v]
    BY DEF Reports!IInv, Reports!TypeOK
  <1>3. \A v \in Writers : v # w => Reports!Standing(v)'
    BY <1>2, OtherReports
  <1> QED
    BY <1>1, <1>3 DEF Reports!IInv

(* Steps of a reporter that change no final name, and its error paths.      *)
LEMMA WritesReport ==
    ASSUME Reports!IInv, NEW w \in Writers,
           \/ Reports!Identify(w) \/ Reports!Write(w) \/ Reports!Flush(w)
           \/ Reports!Reread(w) \/ Reports!CheckTemporary(w)
           \/ Reports!UnlinkTemporary(w) \/ Reports!Recheck(w)
           \/ Reports!RemoveTemporary(w)
    PROVE  Reports!IInv'
  <1> USE DEF Reports!Points, Reports!Private, Reports!Exposed,
              Reports!Collided, Reports!Undoing, Reports!Ended, Reports!Flushed
  <1>1. Reports!TypeOK /\ Reports!Standing(w) /\ {} \in Reports!Leads
    BY DEF Reports!IInv, Reports!Leads
  <1>2. PICK to \in Reports!Points : at' = [at EXCEPT ![w] = to]
    BY DEF Reports!Identify, Reports!Write, Reports!Flush, Reports!Reread,
           Reports!CheckTemporary, Reports!UnlinkTemporary, Reports!Recheck,
           Reports!RemoveTemporary, Reports!Look, Reports!Step
  <1>3. UNCHANGED <<token, final, kept, foreign>>
    BY DEF Reports!Identify, Reports!Write, Reports!Flush, Reports!Reread,
           Reports!CheckTemporary, Reports!UnlinkTemporary, Reports!Recheck,
           Reports!RemoveTemporary, Reports!Look
  <1>4. temp' \in [Tokens -> Reports!Leads]
    BY <1>1
       DEF Reports!TypeOK, Reports!Identify, Reports!Write, Reports!Flush,
           Reports!Reread, Reports!CheckTemporary, Reports!UnlinkTemporary,
           Reports!Recheck, Reports!RemoveTemporary, Reports!Look
  <1>5. UNCHANGED content \/ content' = [content EXCEPT ![w] = "whole"]
    BY DEF Reports!Identify, Reports!Write, Reports!Flush, Reports!Reread,
           Reports!CheckTemporary, Reports!UnlinkTemporary, Reports!Recheck,
           Reports!RemoveTemporary, Reports!Look
  <1>6. UNCHANGED flushed \/ flushed' = [flushed EXCEPT ![w] = TRUE]
    BY DEF Reports!Identify, Reports!Write, Reports!Flush, Reports!Reread,
           Reports!CheckTemporary, Reports!UnlinkTemporary, Reports!Recheck,
           Reports!RemoveTemporary, Reports!Look
  <1>7. Reports!Standing(w)'
    <2>1. CASE Reports!Identify(w) \/ Reports!Write(w) \/ Reports!Flush(w)
      BY <1>1, <1>3, <2>1
         DEF Reports!Identify, Reports!Write, Reports!Flush, Reports!Look,
             Reports!Step, Reports!Standing, Reports!TypeOK
    <2>2. CASE Reports!Reread(w) \/ Reports!CheckTemporary(w)
      BY <1>1, <1>3, <2>2
         DEF Reports!Reread, Reports!CheckTemporary, Reports!Look, Reports!Step,
             Reports!Standing, Reports!TypeOK
    <2>3. CASE Reports!UnlinkTemporary(w) \/ Reports!RemoveTemporary(w)
      BY <1>1, <1>3, <2>3
         DEF Reports!UnlinkTemporary, Reports!RemoveTemporary, Reports!Step,
             Reports!Standing, Reports!TypeOK
    <2>4. CASE Reports!Recheck(w)
      BY <1>1, <1>3, <2>4
         DEF Reports!Recheck, Reports!Look, Reports!Step, Reports!Standing,
             Reports!TypeOK
    <2> QED
      BY <2>1, <2>2, <2>3, <2>4
  <1> QED
    BY <1>2, <1>3, <1>4, <1>5, <1>6, <1>7, QuietReports

LEMMA FailsReport ==
    ASSUME Reports!IInv, NEW w \in Writers, Reports!Fail(w) \/ Reports!Crash(w)
    PROVE  Reports!IInv'
  <1> USE DEF Reports!Points, Reports!Private, Reports!Exposed,
              Reports!Collided, Reports!Undoing, Reports!Ended, Reports!Flushed
  <1>1. Reports!TypeOK /\ Reports!Standing(w)
    BY DEF Reports!IInv
  <1>2. PICK to \in {"failed", "removing", "withdrawing", "crashed"} :
          /\ at' = [at EXCEPT ![w] = to]
          /\ to = "withdrawing" => at[w] \in Reports!Exposed
    BY <1>1 DEF Reports!Fail, Reports!Crash, Reports!FailsTo, Reports!TypeOK
  <1>3. /\ UNCHANGED <<token, flushed, temp, final, kept, foreign>>
        /\ content' = IF at[w] = "writing" THEN [content EXCEPT ![w] = "torn"] ELSE content
        /\ at[w] \notin Reports!Ended
    BY DEF Reports!Fail, Reports!Crash
  <1>4. Reports!Standing(w)'
    BY <1>1, <1>2, <1>3 DEF Reports!Standing, Reports!TypeOK
  <1>5. temp' \in [Tokens -> Reports!Leads]
    BY <1>1, <1>3 DEF Reports!TypeOK
  <1> QED
    BY <1>2, <1>3, <1>4, <1>5, QuietReports

LEMMA CreatesReport ==
    ASSUME Reports!IInv, NEW w \in Writers, Reports!CreateTemporary(w)
    PROVE  Reports!IInv'
  <1> USE DEF Reports!Points, Reports!Private, Reports!Exposed,
              Reports!Collided, Reports!Undoing, Reports!Ended, Reports!Flushed
  <1>1. Reports!TypeOK /\ Reports!Standing(w)
    BY DEF Reports!IInv
  <1>2. CASE UNCHANGED Reports!vars
    BY <1>2 DEF Reports!vars, Reports!IInv, Reports!TypeOK, Reports!Standing
  <1>3. CASE ~UNCHANGED Reports!vars
    <2>1. PICK t \in Tokens :
            /\ at[w] = "start" /\ at' = [at EXCEPT ![w] = "opened"]
            /\ token' = [token EXCEPT ![w] = t]
            /\ temp' = [temp EXCEPT ![t] = {w}]
            /\ content' = [content EXCEPT ![w] = "none"]
            /\ flushed' = [flushed EXCEPT ![w] = FALSE]
            /\ UNCHANGED <<final, kept, foreign>>
      BY <1>3 DEF Reports!CreateTemporary, Reports!Step
    <2>2. Reports!TypeOK'
      BY <1>1, <2>1 DEF Reports!TypeOK, Reports!Leads
    <2>3. Reports!Standing(w)'
      BY <1>1, <2>1 DEF Reports!Standing, Reports!TypeOK
    <2>4. \A v \in Writers : v # w => Reports!Standing(v)'
      BY <1>1, <2>1, OtherReports DEF Reports!TypeOK
    <2> QED
      BY <2>1, <2>2, <2>3, <2>4 DEF Reports!IInv
  <1> QED
    BY <1>2, <1>3

LEMMA LinksReport ==
    ASSUME Reports!IInv, NEW w \in Writers, Reports!Link(w)
    PROVE  Reports!IInv'
  <1> USE DEF Reports!Points, Reports!Private, Reports!Exposed,
              Reports!Collided, Reports!Undoing, Reports!Ended, Reports!Flushed
  <1>1. Reports!TypeOK /\ Reports!Standing(w) /\ \A t \in Tokens : final[t] \in kept[t]
    BY DEF Reports!IInv
  <1>2. CASE ~Reports!Free(token[w])
    <2>1. /\ at[w] = "linking" /\ at' = [at EXCEPT ![w] = "clearing"]
          /\ UNCHANGED <<token, content, flushed, temp, final, kept, foreign>>
      BY <1>2 DEF Reports!Link, Reports!Look, Reports!Step
    <2>2. Reports!Standing(w)' /\ temp' \in [Tokens -> Reports!Leads]
      BY <1>1, <2>1 DEF Reports!Standing, Reports!TypeOK
    <2> QED
      BY <2>1, <2>2, QuietReports
  <1>3. CASE Reports!Free(token[w])
    <2>1. /\ at[w] = "linking" /\ at' = [at EXCEPT ![w] = "linked"]
          /\ final[token[w]] = {} /\ token[w] \notin foreign /\ token[w] \in Tokens
          /\ final' = [final EXCEPT ![token[w]] = {w}]
          /\ kept' = [kept EXCEPT ![token[w]] = @ \cup {{w}}]
          /\ UNCHANGED <<token, content, flushed, temp, foreign>>
      BY <1>1, <1>3
         DEF Reports!Link, Reports!Bind, Reports!Step, Reports!Free,
             Reports!TypeOK
    <2>2. Reports!TypeOK'
      BY <1>1, <2>1 DEF Reports!TypeOK, Reports!Leads
    <2>3. Reports!Standing(w)'
      BY <1>1, <2>1 DEF Reports!Standing, Reports!TypeOK
    <2>4. \A t \in Tokens : final'[t] \in kept'[t]
      BY <1>1, <2>1 DEF Reports!TypeOK
    <2>5. ASSUME NEW v \in Writers, v # w PROVE Reports!Standing(v)'
      <3>1. \A t \in Tokens : {v} \in kept'[t] => {v} \in kept[t]
        BY <1>1, <2>1, <2>5 DEF Reports!TypeOK
      <3>2. final[token[v]] = {v} => token[v] # token[w]
        BY <2>1
      <3>3. kept[token[v]] = {{v}} => token[v] # token[w]
        BY <1>1, <2>1
      <3>4. token[v] \in Tokens
        BY <1>1 DEF Reports!TypeOK
      <3> QED
        BY <1>1, <2>1, <2>5, <3>1, <3>2, <3>3, <3>4, OtherReports DEF Reports!TypeOK
    <2> QED
      BY <2>2, <2>3, <2>4, <2>5 DEF Reports!IInv
  <1> QED
    BY <1>2, <1>3

LEMMA SyncsReports ==
    ASSUME Reports!IInv, NEW w \in Writers, Reports!Sync(w)
    PROVE  Reports!IInv'
  <1> USE DEF Reports!Points, Reports!Private, Reports!Exposed,
              Reports!Collided, Reports!Undoing, Reports!Ended, Reports!Flushed
  <1>1. Reports!TypeOK /\ Reports!Standing(w) /\ \A t \in Tokens : final[t] \in kept[t]
    BY DEF Reports!IInv
  <1>2. /\ kept' = [t \in Tokens |-> {final[t]}]
        /\ UNCHANGED <<token, content, flushed, temp, final, foreign>>
        /\ \/ at[w] = "syncing" /\ at' = [at EXCEPT ![w] = "rechecking"]
           \/ at[w] = "settling" /\ at' = [at EXCEPT ![w] = "start"]
    BY DEF Reports!Sync, Reports!Step
  <1>3. Reports!TypeOK'
    BY <1>1, <1>2 DEF Reports!TypeOK
  <1>4. \A t \in Tokens : kept'[t] \subseteq kept[t] /\ final'[t] \in kept'[t]
    BY <1>1, <1>2
  <1>5. token[w] \in Tokens
    BY <1>1 DEF Reports!TypeOK
  <1>6. Reports!Standing(w)'
    <2>1. CASE at[w] = "syncing"
      <3>1. at'[w] = "rechecking" /\ kept'[token[w]] = {{w}}
        BY <1>1, <1>2, <1>5, <2>1 DEF Reports!Standing, Reports!TypeOK
      <3> QED
        BY <1>1, <1>2, <1>4, <2>1, <3>1 DEF Reports!Standing
    <2>2. CASE at[w] = "settling"
      <3>1. at'[w] = "start"
        BY <1>1, <1>2, <2>2 DEF Reports!TypeOK
      <3> QED
        BY <1>1, <1>2, <1>4, <2>2, <3>1 DEF Reports!Standing
    <2> QED
      BY <1>2, <2>1, <2>2
  <1>7. ASSUME NEW v \in Writers, v # w PROVE Reports!Standing(v)'
    <2>1. token[v] \in Tokens /\ at'[v] = at[v]
      BY <1>1, <1>2, <1>7 DEF Reports!TypeOK
    <2>2. kept[token[v]] = {{v}} => kept'[token[v]] = {{v}}
      BY <1>1, <1>2, <2>1
    <2> QED
      BY <1>2, <1>4, <2>1, <2>2, OtherReports
  <1> QED
    BY <1>3, <1>4, <1>6, <1>7 DEF Reports!IInv

LEMMA WithdrawsReport ==
    ASSUME Reports!IInv, NEW w \in Writers, Reports!Withdraw(w)
    PROVE  Reports!IInv'
  <1> USE DEF Reports!Points, Reports!Private, Reports!Exposed,
              Reports!Collided, Reports!Undoing, Reports!Ended, Reports!Flushed
  <1>1. Reports!TypeOK /\ Reports!Standing(w) /\ \A t \in Tokens : final[t] \in kept[t]
    BY DEF Reports!IInv
  <1>2. /\ at[w] = "withdrawing" /\ at' = [at EXCEPT ![w] = "removing"]
        /\ token[w] \in Tokens /\ final[token[w]] = {w}
        /\ final' = [final EXCEPT ![token[w]] = {}]
        /\ kept' = [kept EXCEPT ![token[w]] = @ \cup {{}}]
        /\ UNCHANGED <<token, content, flushed, temp, foreign>>
    BY <1>1
       DEF Reports!Withdraw, Reports!Bind, Reports!Step, Reports!Standing,
           Reports!TypeOK
  <1>3. Reports!TypeOK'
    BY <1>1, <1>2 DEF Reports!TypeOK, Reports!Leads
  <1>4. \A t \in Tokens : final'[t] \in kept'[t]
    BY <1>1, <1>2 DEF Reports!TypeOK
  <1>5. Reports!Standing(w)'
    BY <1>1, <1>2 DEF Reports!Standing, Reports!TypeOK
  <1>6. ASSUME NEW v \in Writers, v # w PROVE Reports!Standing(v)'
    <2>1. \A t \in Tokens : {v} \in kept'[t] => {v} \in kept[t]
      BY <1>1, <1>2 DEF Reports!TypeOK
    <2>2. final[token[v]] = {v} => token[v] # token[w]
      BY <1>2, <1>6
    <2>3. kept[token[v]] = {{v}} => token[v] # token[w]
      BY <1>1, <1>2, <1>6
    <2>4. token[v] \in Tokens
      BY <1>1 DEF Reports!TypeOK
    <2> QED
      BY <1>1, <1>2, <1>6, <2>1, <2>2, <2>3, <2>4, OtherReports DEF Reports!TypeOK
  <1> QED
    BY <1>3, <1>4, <1>5, <1>6 DEF Reports!IInv

LEMMA ReportsLosePower ==
    ASSUME Reports!IInv, Reports!PowerLoss
    PROVE  Reports!IInv'
  <1> USE DEF Reports!Points, Reports!Private, Reports!Exposed,
              Reports!Collided, Reports!Undoing, Reports!Ended, Reports!Flushed
  <1>1. Reports!TypeOK /\ \A w \in Writers : Reports!Standing(w)
    BY DEF Reports!IInv
  <1>2. Reports!TypeOK'
    BY <1>1 DEF Reports!PowerLoss, Reports!TypeOK
  <1>3. \A t \in Tokens : final'[t] \in kept[t] /\ kept'[t] = {final'[t]}
    BY DEF Reports!PowerLoss
  <1>4. ASSUME NEW w \in Writers PROVE Reports!Standing(w)'
    <2>1. /\ at'[w] \in Reports!Ended /\ (at'[w] = "persisted" => at[w] = "persisted")
          /\ token[w] \in Tokens /\ token'[w] = token[w]
          /\ flushed'[w] = flushed[w] /\ (flushed[w] => content'[w] = content[w])
          /\ foreign' = foreign
      BY <1>1 DEF Reports!PowerLoss, Reports!TypeOK
    <2>2. CASE at[w] = "persisted"
      <3>1. final'[token[w]] = {w}
        BY <1>1, <1>3, <2>1, <2>2 DEF Reports!Standing
      <3>2. kept'[token'[w]] = {{w}} /\ at'[w] = "persisted"
        BY <1>3, <2>1, <2>2, <3>1 DEF Reports!PowerLoss
      <3>3. \A t \in Tokens : {w} \in kept'[t] => {w} \in kept[t]
        BY <1>3
      <3> QED
        BY <1>1, <2>1, <2>2, <3>1, <3>2, <3>3 DEF Reports!Standing
    <2>3. CASE at[w] # "persisted"
      BY <1>1, <1>3, <2>1, <2>3 DEF Reports!Standing
    <2> QED
      BY <2>2, <2>3
  <1> QED
    BY <1>2, <1>3, <1>4 DEF Reports!IInv

LEMMA ReportsStep == Reports!IInv /\ [Reports!Next]_(Reports!vars) => Reports!IInv'
  <1> SUFFICES ASSUME Reports!IInv, [Reports!Next]_(Reports!vars) PROVE Reports!IInv'
    OBVIOUS
  <1>1. ASSUME NEW w \in Writers, Reports!Progress(w) \/ Reports!Crash(w)
        PROVE  Reports!IInv'
    BY <1>1, WritesReport, FailsReport, CreatesReport, LinksReport,
       SyncsReports, WithdrawsReport DEF Reports!Progress
  <1>2. CASE Reports!PowerLoss
    BY <1>2, ReportsLosePower
  <1>3. CASE Reports!Terminated \/ UNCHANGED Reports!vars
    <2>1. UNCHANGED Reports!vars
      BY <1>3 DEF Reports!Terminated
    <2>2. Reports!TypeOK' /\ \A t \in Tokens : final'[t] \in kept'[t]
      BY <2>1 DEF Reports!vars, Reports!IInv, Reports!TypeOK
    <2>3. \A w \in Writers : Reports!Standing(w)'
      BY <2>1, OtherReports DEF Reports!vars
    <2> QED
      BY <2>2, <2>3 DEF Reports!IInv
  <1> QED
    BY <1>1, <1>2, <1>3 DEF Reports!Next

(* The inductive invariant, for every set of reporters and tokens.         *)
THEOREM ReportsInvariance == Reports!Spec => []Reports!IInv
  BY ReportsInit, ReportsStep, PTL DEF Reports!Spec

LEMMA NamedIsWhole == Reports!IInv => Reports!FinalIsWhole
  BY DEF Reports!IInv, Reports!FinalIsWhole, Reports!Standing

(* A final name never shows a part of a report, not even after a power     *)
(* loss.                                                                   *)
THEOREM FinalStaysWhole == Reports!Spec => []Reports!FinalIsWhole
  BY NamedIsWhole, ReportsInvariance, PTL

LEMMA PersistedIsKept == Reports!IInv => Reports!PersistedStays
  BY DEF Reports!IInv, Reports!PersistedStays, Reports!Standing

(* A report whose path was returned is there for good.                     *)
THEOREM PersistedIsForGood == Reports!Spec => []Reports!PersistedStays
  BY PersistedIsKept, ReportsInvariance, PTL

(* No step gives a final name to another file; only its owner's undoing    *)
(* or a power loss takes it away.                                          *)
THEOREM NeverReplaced == Reports!Spec => Reports!NothingIsReplaced
  <1> USE DEF Reports!Points, Reports!Private, Reports!Exposed,
              Reports!Collided, Reports!Undoing, Reports!Ended, Reports!Flushed
  <1>1. Reports!IInv /\ [Reports!Next]_(Reports!vars) =>
          [\A t \in Tokens : final'[t] # final[t] =>
             /\ t \notin foreign
             /\ \/ final[t] = {}
                \/ final'[t] \in kept[t] /\ \A w \in Writers : at'[w] \in Reports!Ended
                \/ \E w \in Writers :
                     final[t] = {w} /\ final'[t] = {} /\ at[w] = "withdrawing"]_(Reports!vars)
    <2> SUFFICES ASSUME Reports!IInv, Reports!Next, NEW t \in Tokens, final'[t] # final[t]
                 PROVE  /\ t \notin foreign
                        /\ \/ final[t] = {}
                           \/ final'[t] \in kept[t] /\ \A w \in Writers : at'[w] \in Reports!Ended
                           \/ \E w \in Writers :
                                final[t] = {w} /\ final'[t] = {} /\ at[w] = "withdrawing"
      OBVIOUS
    <2>1. Reports!TypeOK /\ \A w \in Writers : Reports!Standing(w)
      BY DEF Reports!IInv
    <2>2. ASSUME NEW w \in Writers, {w} \in kept[t] PROVE t \notin foreign
      BY <2>1, <2>2 DEF Reports!Standing
    <2>3. CASE Reports!PowerLoss
      <3>1. /\ final[t] \in Reports!Leads /\ final'[t] \in Reports!Leads
            /\ final[t] \in kept[t] /\ final'[t] \in kept[t]
        BY <2>1, <2>3 DEF Reports!PowerLoss, Reports!TypeOK, Reports!IInv
      <3>2. PICK w \in Writers : final[t] = {w} \/ final'[t] = {w}
        BY <3>1 DEF Reports!Leads
      <3>3. t \notin foreign
        BY <2>2, <3>1, <3>2
      <3>4. \A v \in Writers : at'[v] \in Reports!Ended
        BY <2>3 DEF Reports!PowerLoss
      <3> QED
        BY <3>1, <3>3, <3>4
    <2>4. ASSUME NEW w \in Writers, Reports!Link(w) PROVE t \notin foreign /\ final[t] = {}
      BY <2>1, <2>4
         DEF Reports!Link, Reports!Look, Reports!Bind, Reports!Free,
             Reports!TypeOK
    <2>5. ASSUME NEW w \in Writers, Reports!Withdraw(w)
          PROVE  t \notin foreign /\ final[t] = {w} /\ final'[t] = {} /\ at[w] = "withdrawing"
      <3>1. final[t] = {w} /\ final'[t] = {} /\ at[w] = "withdrawing"
        BY <2>1, <2>5 DEF Reports!Withdraw, Reports!Bind, Reports!Step, Reports!TypeOK
      <3> QED
        BY <2>2, <3>1 DEF Reports!IInv
    <2>6. ASSUME NEW w \in Writers, Reports!Progress(w) \/ Reports!Crash(w)
          PROVE  Reports!Link(w) \/ Reports!Withdraw(w)
      BY <2>6
         DEF Reports!Progress, Reports!CreateTemporary, Reports!Identify,
             Reports!Write, Reports!Flush, Reports!Reread,
             Reports!CheckTemporary, Reports!UnlinkTemporary, Reports!Sync,
             Reports!Recheck, Reports!RemoveTemporary, Reports!Fail,
             Reports!Crash, Reports!Look, Reports!vars
    <2> QED
      BY <2>3, <2>4, <2>5, <2>6 DEF Reports!Next, Reports!Terminated, Reports!vars
  <1> QED
    BY <1>1, ReportsInvariance, PTL DEF Reports!Spec, Reports!NothingIsReplaced

-----------------------------------------------------------------------------
(* The directory: a behaviour of it moves the reports only as the reports   *)
(* move, so what is proved of them above holds in the directory.            *)

LEMMA ReportsAlone == DirectorySpec => Reports!Spec
  <1>1. DirectoryInit => Reports!Init
    BY DEF DirectoryInit
  <1>2. [DirectoryNext]_<<subject, vars, reportVars>> => [Reports!Next]_(Reports!vars)
    BY DEF DirectoryNext, OnManifest, reportVars, Reports!vars
  <1> QED
    BY <1>1, <1>2, PTL DEF DirectorySpec, Reports!Spec

(* No name in the directory ever shows a part of a report, and a report that *)
(* was reported as written is there for good.                                *)
THEOREM DirectoryKeepsReports == DirectorySpec => []ReportsStayWhole
  BY ReportsAlone, FinalStaysWhole, PersistedIsForGood, PTL DEF ReportsStayWhole

(* No step in the directory gives the name of a report or of a foreign file  *)
(* to another file.                                                          *)
THEOREM DirectoryReplacesNothing == DirectorySpec => NothingIsReplaced
  BY ReportsAlone, NeverReplaced, PTL DEF NothingIsReplaced

=============================================================================
