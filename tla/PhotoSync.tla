----------------------------- MODULE PhotoSync -----------------------------
(***************************************************************************)
(* The photo syncer of integrations/photosync/sync.go: it scans a folder,  *)
(* uploads the names it has not marked, marks them, and after a scan that  *)
(* uploaded something hands all its marks to state/state.go, whose file    *)
(* the poller saves too.  main never waits for the syncer, so the process  *)
(* may end between any two steps.  A name with an unsupported extension is *)
(* not in Files.  sent, whole, restored, lossless and orderly are    *)
(* history variables: no action reads them.                                *)
(***************************************************************************)
EXTENDS Integers, FiniteSets

CONSTANTS
    Files,    \* names of image files the folder may hold
    NoFile,   \* no upload is under way
    MaxSent   \* bound: how often one upload is counted, saturating

ASSUME SentAssumption == MaxSent \in Nat /\ MaxSent >= 2

ASSUME FilesAssumption == IsFiniteSet(Files) /\ NoFile \notin Files

VARIABLES
    folder,        \* name -> what the watch folder holds under it
    phase,         \* where the syncer goroutine is; "down": no process
    ctxDone,       \* the signal context is cancelled
    entries,       \* names of this scan still to look at
    file, data,    \* the name being uploaded and what ReadFile returned
    uploaded,      \* number of photos this scan uploaded
    syncedFiles,   \* the syncer's marks
    mem,           \* Store.state.SyncedPhotoFiles
    disk,          \* synced_photo_files of the state file
    sent,          \* name -> uploads under it the frame accepted
    whole,         \* names whose complete photo the frame accepted
    restored,      \* the state file was read when this process started
    lossless,      \* no mark was ever lost, nor the answer of an upload
    orderly        \* every stop was by a signal, every file access succeeded
                   \* and every answer of an upload was right

scanVars == <<entries, file, data, uploaded>>
storeVars == <<mem, disk>>
historyVars == <<sent, whole, restored, lossless, orderly>>
vars == <<folder, phase, ctxDone, scanVars, syncedFiles, storeVars, historyVars>>

\* A program that is still writing a photo leaves a partial file.
Contents == {"absent", "partial", "complete"}

Phases == {"down", "starting", "select", "scanning", "uploading", "saving", "exited"}

TypeOK ==
    /\ folder \in [Files -> Contents]
    /\ phase \in Phases
    /\ ctxDone \in BOOLEAN
    /\ entries \in SUBSET Files
    /\ file \in Files \union {NoFile}
    /\ data \in Contents
    /\ (phase = "uploading") <=> (file # NoFile /\ data # "absent")
    /\ uploaded \in Nat
    /\ syncedFiles \in SUBSET Files
    /\ mem \in SUBSET Files
    /\ disk \in SUBSET Files
    /\ sent \in [Files -> 0..MaxSent]
    /\ whole \in SUBSET Files
    /\ restored \in BOOLEAN
    /\ lossless \in BOOLEAN
    /\ orderly \in BOOLEAN

Init ==
    /\ folder = [f \in Files |-> "absent"]
    /\ phase = "down"
    /\ ctxDone = FALSE
    /\ entries = {}
    /\ file = NoFile
    /\ data = "absent"
    /\ uploaded = 0
    /\ syncedFiles = {}
    /\ mem = {}
    /\ disk = {}
    /\ sent = [f \in Files |-> 0]
    /\ whole = {}
    /\ restored = TRUE
    /\ lossless = TRUE
    /\ orderly = TRUE

-----------------------------------------------------------------------------
(* The syncer.                                                             *)

\* sync: at once after Start and then whenever select picks the ticker.
ReadDir ==
    /\ phase \in {"starting", "select"}
    /\ \/ /\ phase' = "scanning"
          /\ entries' = {f \in Files : folder[f] # "absent"}
       \/ /\ phase' = "select"   \* the folder cannot be listed
          /\ UNCHANGED entries
    /\ UNCHANGED <<folder, ctxDone, file, data, uploaded, syncedFiles,
                   storeVars, historyVars>>

\* A marked name is passed over, and so is one that ReadFile fails on.
Skip(f) ==
    /\ phase = "scanning"
    /\ f \in entries
    /\ entries' = entries \ {f}
    /\ UNCHANGED <<folder, phase, ctxDone, file, data, uploaded, syncedFiles,
                   storeVars, historyVars>>

\* Mutant: the upload goes on after ReadFile has failed.
ReadFileUnchecked(f) ==
    /\ phase = "scanning"
    /\ f \in entries
    /\ f \notin syncedFiles
    /\ phase' = "uploading"
    /\ entries' = entries \ {f}
    /\ file' = f
    /\ data' = folder[f]
    /\ UNCHANGED <<folder, ctxDone, uploaded, syncedFiles, storeVars, historyVars>>

ReadFile(f) ==
    /\ phase = "scanning"
    /\ f \in entries
    /\ f \notin syncedFiles
    /\ folder[f] # "absent"
    /\ phase' = "uploading"
    /\ entries' = entries \ {f}
    /\ file' = f
    /\ data' = folder[f]
    /\ UNCHANGED <<folder, ctxDone, uploaded, syncedFiles, storeVars, historyVars>>

\* The frame takes the photo.
Accept ==
    /\ sent' = [sent EXCEPT ![file] = IF @ < MaxSent THEN @ + 1 ELSE @]
    /\ whole' = IF data = "complete" THEN whole \union {file} ELSE whole

EndUpload ==
    /\ phase = "uploading"
    /\ phase' = "scanning"
    /\ file' = NoFile
    /\ data' = "absent"
    /\ UNCHANGED <<folder, ctxDone, entries, storeVars, restored>>

\* UploadPhoto succeeded: mark the name.
Uploaded(f) ==
    /\ file = f
    /\ EndUpload
    /\ Accept
    /\ syncedFiles' = syncedFiles \union {f}
    /\ uploaded' = uploaded + 1
    /\ UNCHANGED <<lossless, orderly>>

\* Mutant: the name is marked although the upload failed.
UploadFailedMarks ==
    /\ EndUpload
    /\ syncedFiles' = syncedFiles \union {file}
    /\ uploaded' = uploaded + 1
    /\ UNCHANGED <<sent, whole, lossless, orderly>>

\* UploadPhoto returned an error, though the frame may have the photo.
UploadFailed ==
    /\ EndUpload
    /\ \/ Accept /\ lossless' = FALSE /\ orderly' = FALSE
       \/ UNCHANGED <<sent, whole, lossless, orderly>>
    /\ UNCHANGED <<syncedFiles, uploaded>>

\* Mutant: a batch of one photo is not handed over.
FinishLargeScan ==
    /\ phase = "scanning"
    /\ entries = {}
    /\ IF uploaded > 1
       THEN phase' = "saving" /\ mem' = syncedFiles
       ELSE phase' = "select" /\ UNCHANGED mem
    /\ uploaded' = 0
    /\ UNCHANGED <<folder, ctxDone, entries, file, data, syncedFiles, disk,
                   historyVars>>

\* Mutant: only the names of this batch are handed over.
FinishScanBatchOnly ==
    /\ phase = "scanning"
    /\ entries = {}
    /\ IF uploaded > 0
       THEN phase' = "saving" /\ mem' = syncedFiles \ mem
       ELSE phase' = "select" /\ UNCHANGED mem
    /\ uploaded' = 0
    /\ UNCHANGED <<folder, ctxDone, entries, file, data, syncedFiles, disk,
                   historyVars>>

\* Mutant: the loop ends after a scan without uploads.
FinishScanReturns ==
    /\ phase = "scanning"
    /\ entries = {}
    /\ IF uploaded > 0
       THEN phase' = "saving" /\ mem' = syncedFiles
       ELSE phase' = "exited" /\ UNCHANGED mem
    /\ uploaded' = 0
    /\ UNCHANGED <<folder, ctxDone, entries, file, data, syncedFiles, disk,
                   historyVars>>

\* The scan is over: onBatchDone, that is UpdateState's mutation of the store
\* under its lock, when something was uploaded.
FinishScan ==
    /\ phase = "scanning"
    /\ entries = {}
    /\ IF uploaded > 0
       THEN phase' = "saving" /\ mem' = syncedFiles
       ELSE phase' = "select" /\ UNCHANGED mem
    /\ uploaded' = 0
    /\ UNCHANGED <<folder, ctxDone, entries, file, data, syncedFiles, disk,
                   historyVars>>

\* UpdateState, second half: Save, whose error is logged and forgotten.
Save ==
    /\ phase = "saving"
    /\ phase' = "select"
    /\ \/ disk' = mem /\ UNCHANGED orderly
       \/ UNCHANGED disk /\ orderly' = FALSE
    /\ UNCHANGED <<folder, ctxDone, scanVars, syncedFiles, mem, sent, whole,
                   restored, lossless>>

\* select picks ctx.Done, which the scan itself does not look at.
Exit ==
    /\ phase = "select"
    /\ ctxDone
    /\ phase' = "exited"
    /\ UNCHANGED <<folder, ctxDone, scanVars, syncedFiles, storeVars, historyVars>>

-----------------------------------------------------------------------------
(* The process and its environment.                                        *)

\* Mutant: NewSyncer is not given the names of the store.
StartForgetful ==
    /\ phase = "down"
    /\ phase' = "starting"
    /\ restored' \in BOOLEAN
    /\ mem' = IF restored' THEN disk ELSE {}
    /\ syncedFiles' = {}
    /\ lossless' = (lossless /\ restored')
    /\ orderly' = (orderly /\ restored')
    /\ UNCHANGED <<folder, ctxDone, scanVars, disk, sent, whole>>

\* main: load the file, or start fresh when it cannot be read; the syncer
\* gets a copy of the store's names.
Start ==
    /\ phase = "down"
    /\ phase' = "starting"
    /\ restored' \in BOOLEAN
    /\ mem' = IF restored' THEN disk ELSE {}
    /\ syncedFiles' = mem'
    /\ lossless' = (lossless /\ restored')
    /\ orderly' = (orderly /\ restored')
    /\ UNCHANGED <<folder, ctxDone, scanVars, disk, sent, whole>>

\* SIGINT or SIGTERM.
Cancel ==
    /\ phase # "down"
    /\ ~ctxDone
    /\ ctxDone' = TRUE
    /\ UNCHANGED <<folder, phase, scanVars, syncedFiles, storeVars, historyVars>>

\* main returns, whatever the syncer is doing, or the process dies.
ProcessEnds ==
    /\ phase # "down"
    /\ phase' = "down"
    /\ ctxDone' = FALSE
    /\ entries' = {}
    /\ file' = NoFile
    /\ data' = "absent"
    /\ uploaded' = 0
    /\ syncedFiles' = {}
    /\ mem' = {}
    /\ lossless' = (lossless /\ syncedFiles = disk)
    /\ orderly' = (orderly /\ ctxDone)
    /\ UNCHANGED <<folder, disk, sent, whole, restored>>

\* The poller's UpdateState saves the whole Store.state, our part too.
PollerSave ==
    /\ phase # "down"
    /\ disk' = mem
    /\ UNCHANGED <<folder, phase, ctxDone, scanVars, syncedFiles, mem, historyVars>>

\* Somebody writes a photo into the folder, at once or bit by bit, or removes it.
Write(f) ==
    /\ \/ folder[f] = "absent" /\ \E c \in {"partial", "complete"} :
              folder' = [folder EXCEPT ![f] = c]
       \/ folder[f] = "partial" /\ folder' = [folder EXCEPT ![f] = "complete"]
       \/ folder[f] # "absent" /\ folder' = [folder EXCEPT ![f] = "absent"]
    /\ UNCHANGED <<phase, ctxDone, scanVars, syncedFiles, storeVars, historyVars>>

SyncStep ==
    \/ ReadDir
    \/ \E f \in entries : Skip(f) \/ ReadFile(f)
    \/ Uploaded(file)
    \/ UploadFailed
    \/ FinishScan
    \/ Save

Environment ==
    \/ Start
    \/ Cancel
    \/ ProcessEnds
    \/ PollerSave
    \/ \E f \in Files : Write(f)

Next == SyncStep \/ Exit \/ Environment

Spec == Init /\ [][Next]_vars

\* The syncer keeps going, and a file cannot be unreadable for ever nor its
\* upload fail for ever.
Fairness ==
    /\ WF_vars(SyncStep)
    /\ \A f \in Files : SF_vars(ReadFile(f)) /\ SF_vars(Uploaded(f))

FairSpec == Spec /\ Fairness

-----------------------------------------------------------------------------
(* Properties.                                                             *)

Accepted == {f \in Files : sent[f] > 0}

\* Whatever upload failed and wherever the process died, the state file never
\* claims a photo the frame did not take: none is lost by being skipped.
SavedWereSent == disk \subseteq Accepted

\* As long as no process ended with a mark that is not in the file, no upload
\* was taken but answered with an error and every process could read the
\* file, no photo is sent twice, over all restarts and any number of scans.
SentOnce == lossless => \A f \in Files : sent[f] <= 1

\* Between scans Store holds every mark, also when the syncer's own save has
\* failed: the next save of either writer completes the file.
MarksHandedOver == phase \in {"starting", "select", "exited"} => mem = syncedFiles

\* The two writers of the file never undo each other: a name that is in the
\* file stays there as long as each process can read it.
NeverForgets == [][restored => disk \subseteq disk']_vars

\* A photo in the folder is sent sooner or later, even when some calls fail,
\* unless it is removed or the process is told to stop or dies.
EventuallySent ==
    \A f \in Files :
        (phase # "down" /\ folder[f] # "absent")
            ~> (sent[f] > 0 \/ folder[f] = "absent" \/ ctxDone \/ phase = "down")

\* config.example.yaml: "restarting the bridge will never re-upload photos
\* that were already sent to Skylight", at least when every restart is after a
\* signal and no call or save ever fails.
NeverReuploads == orderly => \A f \in Files : sent[f] <= 1

\* config.example.yaml: "Drop any image into the folder and it will appear on
\* your frame automatically on the next sync cycle": sooner or later the frame
\* has the complete photo that is in the folder.
PhotoAppears ==
    \A f \in Files :
        (phase # "down" /\ folder[f] = "complete")
            ~> (f \in whole \/ folder[f] # "complete" \/ ctxDone \/ phase = "down")

=============================================================================
