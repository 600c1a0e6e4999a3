-------------------------- MODULE PhotoSync_proofs --------------------------
(***************************************************************************)
(* Proofs about PhotoSync, for every set of files: the state file names    *)
(* only photos the frame has, forgets none of them, and no photo is sent   *)
(* twice as long as no mark is lost.                                       *)
(***************************************************************************)
EXTENDS PhotoSync, TLAPS

-----------------------------------------------------------------------------
(* Types.                                                                  *)

LEMMA TypeInit == Init => TypeOK
<1> SUFFICES ASSUME Init PROVE TypeOK
  OBVIOUS
<1>1. sent \in [Files -> 0..MaxSent]
  BY SentAssumption DEF Init
<1>2. folder \in [Files -> Contents] /\ phase \in Phases /\ data \in Contents
  BY DEF Init, Contents, Phases
<1>3. QED
  BY <1>1, <1>2 DEF Init, TypeOK

\* The two ways an upload ends, once the frame has taken the photo or not.
LEMMA AcceptType ==
    ASSUME TypeOK, file \in Files, Accept
    PROVE  sent' \in [Files -> 0..MaxSent] /\ whole' \in SUBSET Files
BY SentAssumption DEF TypeOK, Accept

LEMMA TypeNext == TypeOK /\ [Next]_vars => TypeOK'
<1> SUFFICES ASSUME TypeOK, [Next]_vars PROVE TypeOK'
  OBVIOUS
<1> USE FilesAssumption DEF TypeOK, Contents, Phases, scanVars, storeVars, historyVars
<1>1. CASE ReadDir
  BY <1>1 DEF ReadDir
<1>2. ASSUME NEW f \in entries, Skip(f) PROVE TypeOK'
  BY <1>2 DEF Skip
<1>3. ASSUME NEW f \in entries, ReadFile(f) PROVE TypeOK'
  BY <1>3 DEF ReadFile
<1>4. ASSUME EndUpload PROVE file \in Files
  BY <1>4 DEF EndUpload
<1>5. CASE Uploaded(file)
  BY <1>4, <1>5, AcceptType DEF Uploaded, EndUpload
<1>6. CASE UploadFailed
  BY <1>4, <1>6, AcceptType DEF UploadFailed, EndUpload
<1>7. CASE FinishScan
  BY <1>7 DEF FinishScan
<1>8. CASE Save
  BY <1>8 DEF Save
<1>9. CASE Exit
  BY <1>9 DEF Exit
<1>10. CASE Start
  BY <1>10 DEF Start
<1>11. CASE Cancel
  BY <1>11 DEF Cancel
<1>12. CASE ProcessEnds
  BY <1>12 DEF ProcessEnds
<1>13. CASE PollerSave
  BY <1>13 DEF PollerSave
<1>14. ASSUME NEW f \in Files, Write(f) PROVE TypeOK'
  BY <1>14 DEF Write
<1>15. CASE UNCHANGED vars
  BY <1>15 DEF vars
<1>16. QED
  BY <1>1, <1>2, <1>3, <1>5, <1>6, <1>7, <1>8, <1>9, <1>10, <1>11, <1>12, <1>13,
     <1>14, <1>15 DEF Next, SyncStep, Environment

\* The types, over all runs of the syncer (NewSyncer, sync).
THEOREM PhotoTypeCorrect == Spec => []TypeOK
BY TypeInit, TypeNext, PTL DEF Spec

-----------------------------------------------------------------------------
(* The inductive invariant.                                                *)

\* Every mark, in the syncer, in Store or in the file, is of a sent photo.
MarkedInv == syncedFiles \union mem \union disk \subseteq Accepted

\* The syncer knows all that Store holds, and Store all that the file holds
\* if the process could read it.
OrderInv ==
    /\ mem \subseteq syncedFiles
    /\ restored /\ phase # "down" => disk \subseteq mem

\* Marks Store does not have are those of the scan under way.
HandInv == mem = syncedFiles \/ (phase \in {"scanning", "uploading"} /\ uploaded > 0)

\* Only photos without a mark are on their way.
UploadInv == phase = "uploading" => file \notin syncedFiles

\* Without a loss each sent photo went once, and is marked: by the syncer, or
\* in the file while there is none.
LosslessInv ==
    lossless =>
        /\ \A f \in Files : sent[f] <= 1
        /\ Accepted \subseteq (IF phase = "down" THEN disk ELSE syncedFiles)

PhotoInv == MarkedInv /\ OrderInv /\ HandInv /\ UploadInv /\ LosslessInv

LEMMA PhotoInit == Init => PhotoInv
BY DEF Init, PhotoInv, MarkedInv, OrderInv, HandInv, UploadInv, LosslessInv, Accepted

\* What the frame has grows by the photo it takes.
LEMMA AcceptGrows ==
    ASSUME TypeOK, file \in Files, Accept
    PROVE  /\ Accepted' = Accepted \union {file}
           /\ \A f \in Files \ {file} : sent'[f] = sent[f]
           /\ sent[file] = 0 => sent'[file] = 1
<1>1. sent' = [sent EXCEPT ![file] = IF @ < MaxSent THEN @ + 1 ELSE @]
  BY DEF Accept
<1>2. sent \in [Files -> 0..MaxSent] /\ MaxSent \in Nat /\ MaxSent >= 2
  BY SentAssumption DEF TypeOK
<1>3. \A f \in Files \ {file} : sent'[f] = sent[f]
  BY <1>1, <1>2
<1>4. sent'[file] = IF sent[file] < MaxSent THEN sent[file] + 1 ELSE sent[file]
  BY <1>1, <1>2
<1>5. sent'[file] > 0 /\ (sent[file] = 0 => sent'[file] = 1)
  BY <1>2, <1>4
<1>6. QED
  BY <1>3, <1>5 DEF Accepted

LEMMA PhotoUploaded ==
    ASSUME TypeOK, PhotoInv, Uploaded(file)
    PROVE  PhotoInv'
<1>1. /\ file \in Files /\ phase = "uploading" /\ phase' = "scanning"
      /\ uploaded' = uploaded + 1 /\ uploaded \in Nat
      /\ syncedFiles' = syncedFiles \union {file}
      /\ UNCHANGED <<mem, disk, restored, lossless>>
  BY DEF Uploaded, EndUpload, TypeOK, storeVars
<1>2. /\ Accepted' = Accepted \union {file}
      /\ \A f \in Files \ {file} : sent'[f] = sent[f]
      /\ sent[file] = 0 => sent'[file] = 1
  BY <1>1, AcceptGrows DEF Uploaded
<1>3. MarkedInv' /\ OrderInv' /\ HandInv' /\ UploadInv'
  BY <1>1, <1>2 DEF PhotoInv, MarkedInv, OrderInv, HandInv, UploadInv
<1>4. lossless => sent[file] = 0
  BY <1>1 DEF PhotoInv, LosslessInv, UploadInv, Accepted, TypeOK
<1>5. LosslessInv'
  BY <1>1, <1>2, <1>4 DEF PhotoInv, LosslessInv
<1>6. QED
  BY <1>3, <1>5 DEF PhotoInv

LEMMA PhotoUploadFailed ==
    ASSUME TypeOK, PhotoInv, UploadFailed
    PROVE  PhotoInv'
<1>1. /\ file \in Files /\ phase = "uploading" /\ phase' = "scanning"
      /\ UNCHANGED <<mem, disk, restored, syncedFiles, uploaded>>
  BY DEF UploadFailed, EndUpload, TypeOK, storeVars
<1>2. Accepted \subseteq Accepted'
  BY <1>1, AcceptGrows DEF UploadFailed, Accepted
<1>3. MarkedInv' /\ OrderInv' /\ HandInv' /\ UploadInv'
  BY <1>1, <1>2 DEF PhotoInv, MarkedInv, OrderInv, HandInv, UploadInv
<1>4. LosslessInv'
  BY <1>1 DEF PhotoInv, LosslessInv, UploadFailed, Accepted
<1>5. QED
  BY <1>3, <1>4 DEF PhotoInv

LEMMA PhotoNext == TypeOK /\ PhotoInv /\ [Next]_vars => PhotoInv'
<1> SUFFICES ASSUME TypeOK, PhotoInv, [Next]_vars PROVE PhotoInv'
  OBVIOUS
<1> USE DEF PhotoInv, MarkedInv, OrderInv, HandInv, UploadInv, LosslessInv,
            Accepted, scanVars, storeVars, historyVars
<1>1. CASE ReadDir
  BY <1>1 DEF ReadDir
<1>2. ASSUME NEW f \in entries, Skip(f) PROVE PhotoInv'
  BY <1>2 DEF Skip
<1>3. ASSUME NEW f \in entries, ReadFile(f) PROVE PhotoInv'
  BY <1>3 DEF ReadFile
<1>4. CASE FinishScan
  BY <1>4 DEF FinishScan, TypeOK
<1>5. CASE Save
  BY <1>5 DEF Save
<1>6. CASE Start
  BY <1>6 DEF Start
<1>7. CASE ProcessEnds
  BY <1>7 DEF ProcessEnds
<1>8. CASE PollerSave
  BY <1>8 DEF PollerSave
<1>9. CASE Exit \/ Cancel \/ (\E f \in Files : Write(f)) \/ UNCHANGED vars
  BY <1>9 DEF Exit, Cancel, Write, vars
<1>10. QED
  BY <1>1, <1>2, <1>3, <1>4, <1>5, <1>6, <1>7, <1>8, <1>9,
     PhotoUploaded, PhotoUploadFailed DEF Next, SyncStep, Environment

\* The marks of the syncer, of Store and of the file keep in step with what
\* the frame has.
THEOREM PhotoInvariant == Spec => [](TypeOK /\ PhotoInv)
BY PhotoTypeCorrect, PhotoInit, PhotoNext, PTL DEF Spec

-----------------------------------------------------------------------------
(* What it means for the photos.                                           *)

\* The file never claims a photo the frame did not take (sync marks a name
\* only after UploadPhoto has succeeded).
THEOREM ClaimsAreTrue == Spec => []SavedWereSent
<1>1. PhotoInv => SavedWereSent
  BY DEF PhotoInv, MarkedInv, SavedWereSent
<1>2. QED
  BY <1>1, PhotoInvariant, PTL

\* Nothing is sent twice while no mark and no answer is lost.
THEOREM NoDuplicate == Spec => []SentOnce
<1>1. PhotoInv => SentOnce
  BY DEF PhotoInv, LosslessInv, SentOnce
<1>2. QED
  BY <1>1, PhotoInvariant, PTL

\* Between scans the store has every mark, so that the next save of the poller
\* makes up for a failed one of the syncer (onBatchDone, UpdateState).
THEOREM StoreHasMarks == Spec => []MarksHandedOver
<1>1. PhotoInv => MarksHandedOver
  BY DEF PhotoInv, HandInv, MarksHandedOver
<1>2. QED
  BY <1>1, PhotoInvariant, PTL

\* No save of either writer removes a name from the file (UpdateState saves
\* the whole state), as long as the file can be read at each start.
THEOREM FileOnlyGrows == Spec => NeverForgets
<1>1. PhotoInv /\ [Next]_vars => [restored => disk \subseteq disk']_vars
  <2> SUFFICES ASSUME PhotoInv, [Next]_vars, restored PROVE disk \subseteq disk'
    OBVIOUS
  <2>1. CASE Save \/ PollerSave
    BY <2>1 DEF Save, PollerSave, PhotoInv, OrderInv
  <2>2. CASE ~(Save \/ PollerSave)
    BY <2>2 DEF Next, SyncStep, Environment, ReadDir, Skip, ReadFile, Uploaded,
       UploadFailed, EndUpload, FinishScan, Exit, Start, Cancel, ProcessEnds,
       Write, vars, storeVars
  <2>3. QED
    BY <2>1, <2>2
<1>2. QED
  BY <1>1, PhotoInvariant, PTL DEF Spec, NeverForgets

=============================================================================
