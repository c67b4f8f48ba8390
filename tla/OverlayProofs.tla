----------------------------- MODULE OverlayProofs -----------------------------
(***************************************************************************)
(* Proofs about Overlay, for any processes, packages, distributions and    *)
(* command lines: what the shared files name, what a guest holds, and when *)
(* a session lacks a package.                                              *)
(***************************************************************************)
EXTENDS Overlay, SubsequenceProofs

(* Everything a command has in its hands is of its own distribution ...    *)
OwnBlobs ==
  \A p \in Process :
    \A b \in installed[p] \cup held[p] \cup todo[p] \cup stored[p] :
      b.made = job[p].fp

(* ... because the next command of a process starts with empty hands.      *)
Fresh ==
  \A p \in Process :
    /\ pc[p] = "idle" =>
         /\ installed[p] = {} /\ held[p] = {} /\ todo[p] = {} /\ stored[p] = {}
         /\ overlaid[p] = FALSE
    /\ pc[p] = "storing" => todo[p] # {}
    /\ pc[p] # "idle" => job[p].fp \in Fingerprint /\ job[p].request \in Requests

FilesAreMarked ==
  /\ \A b \in index.entries : b.made = index.fp
  /\ \A b \in sidecar.named : b.made = sidecar.fp

IndexSteps == {"indexRead", "indexCut", "indexWrite"}

(* update_overlay_index returns to one of three places.                    *)
Returns ==
  \A p \in Process :
    pc[p] \in IndexSteps => after[p] \in {"hydrateLoad", "packages", "sidecarCut"}

(* Past the explicit load, in the export's call of it as well, a guest has *)
(* what was asked for or an overlay in its place.                          *)
PastLoad(p) ==
  \/ pc[p] \in {"collect", "imageWrite", "metaCut", "metaWrite", "export", "store",
                "storing", "enforce", "sidecarCut", "sidecarWrite", "run"}
  \/ pc[p] \in IndexSteps /\ after[p] = "sidecarCut"

Complete(p) ==
  \/ overlaid[p]
  \/ \A q \in Needed(Wanted(p)) \ Packages(installed[p]) : q \notin Installable

AllLoaded == \A p \in Process : PastLoad(p) => Complete(p)

(* What the write-back of the index is to hold.                            *)
KeptBy(p) == KeptEntries(Merge(OwnEntries(p), stored[p]))

IInv == TypeOK /\ OwnBlobs /\ Fresh /\ FilesAreMarked /\ Returns /\ AllLoaded

-----------------------------------------------------------------------------
USE OverlayAssumption DEF IInv, TypeOK, IndexType, SidecarType, JobType,
    HandsType, files, guest, scratch, history

(* Steps on the image and its metadata, and others that leave everything   *)
(* the invariant is about where it is.                                     *)
Watched == <<index, sidecar, job, installed, imported, overlaid, held, todo, stored,
             after>>

Moves(p) ==
  \/ Validate(p) \/ ReadImage(p) \/ NothingToHydrate(p) \/ ImageCut(p)
  \/ CollectFails(p) \/ ImageWrite(p) \/ MetaCut(p) \/ MetaWrite(p) \/ MetaFails(p)
  \/ BlobsStored(p)

LEMMA MoveStep ==
  ASSUME IInv, NEW p \in Process, Moves(p)
  PROVE  IInv'
<1>1. UNCHANGED Watched
  BY DEF Watched, Moves, Validate, ReadImage, NothingToHydrate, ImageCut, CollectFails,
         ImageWrite, MetaCut, MetaWrite, MetaFails, BlobsStored
<1>2. PICK where \in {"readImage", "prepare", "packages", "imageWrite", "export",
                      "metaCut", "metaWrite", "enforce"} :
        /\ pc[p] # "idle" /\ pc' = [pc EXCEPT ![p] = where]
        /\ where \notin {"readImage", "prepare", "packages"} => PastLoad(p)
  BY DEF Moves, Goto, PastLoad, Validate, ReadImage, NothingToHydrate, ImageCut,
         CollectFails, ImageWrite, MetaCut, MetaWrite, MetaFails, BlobsStored
<1>3. pc' \in [Process -> Steps]
  BY <1>2 DEF Steps
<1>4. TypeOK'
  BY <1>1, <1>3 DEF Watched
<1>5. OwnBlobs' /\ FilesAreMarked'
  BY <1>1 DEF Watched, OwnBlobs, FilesAreMarked
<1>6. Fresh'
  BY <1>1, <1>2 DEF Watched, Fresh
<1>7. Returns'
  BY <1>1, <1>2 DEF Watched, Returns, IndexSteps
<1>8. \A q \in Process : (PastLoad(q)' => PastLoad(q)) /\ (Complete(q)' <=> Complete(q))
  BY <1>1, <1>2 DEF Watched, PastLoad, IndexSteps, Complete, Wanted
<1>9. QED
  BY <1>4, <1>5, <1>6, <1>7, <1>8 DEF AllLoaded

(* Every way out drops what the process held.                              *)
Exits(p) == RefuseSnapshot(p) \/ CommandFails(p) \/ Run(p) \/ Kill(p)

LEMMA ExitStep ==
  ASSUME IInv, NEW p \in Process, Exits(p)
  PROVE  IInv'
<1>1. Exit(p) /\ UNCHANGED <<index, sidecar>>
  BY DEF Exits, RefuseSnapshot, CommandFails, Run, Kill
<1> USE <1>1 DEF Exit, Goto, NoJob
<1>2. pc' \in [Process -> Steps] /\ after' \in [Process -> Steps]
  BY DEF Steps
<1>3. JobType' /\ overlaid' \in [Process -> BOOLEAN]
  BY DEF AnyFingerprint
<1>4. TypeOK'
  BY <1>2, <1>3
<1>5. OwnBlobs' /\ FilesAreMarked'
  BY DEF OwnBlobs, FilesAreMarked
<1>6. Fresh'
  BY DEF Fresh
<1>7. Returns'
  BY DEF Returns, IndexSteps
<1>8. AllLoaded'
  BY DEF AllLoaded, PastLoad, Complete, IndexSteps, Wanted
<1>9. QED
  BY <1>4, <1>5, <1>6, <1>7, <1>8

(* The steps of loading, hydrating, writing the index and exporting.       *)

LEMMA StartStep ==
  ASSUME IInv, NEW p \in Process, Start(p)
  PROVE  IInv'
<1> USE DEF Start, Goto
<1>1. TypeOK'
  <2>1. pc' \in [Process -> Steps] /\ after' \in [Process -> Steps]
    BY DEF Steps
  <2>2. (IndexType /\ SidecarType)'
    BY DEF IndexType, SidecarType, State, Fresh, Blob, AnyFingerprint
  <2>3. JobType' /\ overlaid' \in [Process -> BOOLEAN]
    BY DEF JobType, AnyFingerprint
  <2>4. installed' \in [Process -> SUBSET Blob]
    BY DEF Blob, Requirements, Packages, Wanted, JobType, Fresh
  <2>5. HandsType'
    BY DEF HandsType, IndexType, SidecarType
  <2>6. QED
    BY <2>1, <2>2, <2>3, <2>4, <2>5
<1>2. OwnBlobs'
  BY DEF OwnBlobs, Fresh, FilesAreMarked
<1>3. Fresh'
  BY DEF Fresh
<1>4. FilesAreMarked'
  BY DEF FilesAreMarked, OwnBlobs
<1>5. Returns'
  BY DEF Returns, IndexSteps
<1>6. AllLoaded'
  BY DEF AllLoaded, PastLoad, Complete, IndexSteps, Returns, Wanted
<1>7. QED
  BY <1>1, <1>2, <1>3, <1>4, <1>5, <1>6

LEMMA WithPackagesType ==
  ASSUME IInv, NEW p \in Process, pc[p] # "idle", NEW names \in SUBSET Package
  PROVE  WithPackages(p, names) \in SUBSET Blob
<1>1. Requirements(names) \subseteq Package
  BY LockfileAssumption DEF Requirements, Needed
<1>2. installed[p] \in SUBSET Blob /\ job[p].fp \in Fingerprint
  BY DEF HandsType, Fresh
<1>3. QED
  BY <1>1, <1>2 DEF WithPackages, Blob

LEMMA WantedType ==
  ASSUME IInv, NEW p \in Process, pc[p] # "idle"
  PROVE  job[p].request.manifest \in SUBSET Package /\ Wanted(p) \in SUBSET Package
<1>1. job[p].request \in Requests
  BY DEF Fresh
<1>2. QED
  BY <1>1 DEF Wanted

LEMMA WithPackagesOwn ==
  ASSUME IInv, NEW p \in Process, NEW names, NEW b \in WithPackages(p, names)
  PROVE  b.made = job[p].fp
  BY DEF WithPackages, OwnBlobs

LEMMA PrepareStep ==
  ASSUME IInv, NEW p \in Process, Prepare(p)
  PROVE  IInv'
<1> USE DEF Prepare, Goto
<1>1. TypeOK'
  <2>1. pc' \in [Process -> Steps] /\ after' \in [Process -> Steps]
    BY DEF Steps
  <2>2. (IndexType /\ SidecarType)'
    BY DEF IndexType, SidecarType
  <2>3. JobType' /\ overlaid' \in [Process -> BOOLEAN]
    BY DEF JobType
  <2>4. WithPackages(p, job[p].request.manifest) \in SUBSET Blob
    BY WithPackagesType, WantedType
  <2>5. HandsType'
    BY <2>4 DEF HandsType
  <2>6. QED
    BY <2>1, <2>2, <2>3, <2>5
<1>2. OwnBlobs'
  BY WithPackagesOwn DEF OwnBlobs, HandsType
<1>3. Fresh'
  BY DEF Fresh
<1>4. FilesAreMarked'
  BY DEF FilesAreMarked, OwnBlobs
<1>5. Returns'
  BY DEF Returns, IndexSteps
<1>6. AllLoaded'
  BY DEF AllLoaded, PastLoad, Complete, IndexSteps, Returns, Wanted
<1>7. QED
  BY <1>1, <1>2, <1>3, <1>4, <1>5, <1>6

LEMMA RestoreSidecarStep ==
  ASSUME IInv, NEW p \in Process, RestoreSidecar(p)
  PROVE  IInv'
<1> USE DEF RestoreSidecar, Goto
<1>1. TypeOK'
  <2>1. pc' \in [Process -> Steps] /\ after' \in [Process -> Steps]
    <3>1. \E where \in {"restoreBlobs", "hydrate"} : pc' = [pc EXCEPT ![p] = where]
      OBVIOUS
    <3>2. {"restoreBlobs", "hydrate"} \subseteq Steps
      BY DEF Steps
    <3>3. QED
      BY <3>1, <3>2
  <2>2. (IndexType /\ SidecarType)'
    BY DEF IndexType, SidecarType, State, Fresh, Blob, AnyFingerprint
  <2>3. JobType' /\ overlaid' \in [Process -> BOOLEAN]
    BY DEF JobType, AnyFingerprint
  <2>4. installed' \in [Process -> SUBSET Blob]
    BY DEF Blob, Requirements, Packages, Wanted, JobType, Fresh
  <2>5. HandsType'
    BY DEF HandsType, IndexType, SidecarType
  <2>6. QED
    BY <2>1, <2>2, <2>3, <2>4, <2>5
<1>2. OwnBlobs'
  <2>1. CASE SidecarUsable(p)
    <3>1. \A b \in sidecar.named : b.made = job[p].fp
      BY <2>1 DEF SidecarUsable, FilesAreMarked
    <3>2. QED
      BY <2>1, <3>1 DEF OwnBlobs, HandsType
  <2>2. CASE ~SidecarUsable(p)
    BY <2>2 DEF OwnBlobs
  <2>3. QED
    BY <2>1, <2>2
<1>3. Fresh'
  BY DEF Fresh
<1>4. FilesAreMarked'
  BY DEF FilesAreMarked, OwnBlobs
<1>5. Returns'
  BY DEF Returns, IndexSteps
<1>6. AllLoaded'
  <2>1. ~PastLoad(p)'
    BY DEF PastLoad, IndexSteps
  <2>2. ASSUME NEW q \in Process, q # p
        PROVE  (PastLoad(q)' <=> PastLoad(q)) /\ (Complete(q)' <=> Complete(q))
    BY <2>2 DEF PastLoad, IndexSteps, Complete, Wanted
  <2>3. QED
    BY <2>1, <2>2 DEF AllLoaded
<1>7. QED
  BY <1>1, <1>2, <1>3, <1>4, <1>5, <1>6

LEMMA RestoreBlobsStep ==
  ASSUME IInv, NEW p \in Process, RestoreBlobs(p)
  PROVE  IInv'
<1> USE DEF RestoreBlobs, Import, Goto
<1>1. TypeOK'
  <2>1. pc' \in [Process -> Steps] /\ after' \in [Process -> Steps]
    <3>1. \E where \in {"packages", "hydrate"} : pc' = [pc EXCEPT ![p] = where]
      OBVIOUS
    <3>2. {"packages", "hydrate"} \subseteq Steps
      BY DEF Steps
    <3>3. QED
      BY <3>1, <3>2
  <2>2. (IndexType /\ SidecarType)'
    BY DEF IndexType, SidecarType
  <2>3. JobType'
    BY DEF JobType
  <2>4. overlaid' \in [Process -> BOOLEAN]
    OBVIOUS
  <2>5. held[p] \in SUBSET Blob /\ held[p] \cap Present \in SUBSET Blob
    BY DEF HandsType
  <2>6. installed' \in [Process -> SUBSET Blob]
    BY SMTT(20), <2>5 DEF HandsType
  <2>7. imported' \in [Process -> SUBSET Blob]
    BY <2>5 DEF HandsType
  <2>8. held' \in [Process -> SUBSET Blob]
    BY DEF HandsType
  <2>9. QED
    BY <2>1, <2>2, <2>3, <2>4, <2>6, <2>7, <2>8 DEF HandsType
<1>2. OwnBlobs'
  BY DEF OwnBlobs, Fresh, FilesAreMarked
<1>3. Fresh'
  BY DEF Fresh
<1>4. FilesAreMarked'
  BY DEF FilesAreMarked, OwnBlobs
<1>5. Returns'
  BY DEF Returns, IndexSteps
<1>6. AllLoaded'
  <2>1. ~PastLoad(p)'
    BY DEF PastLoad, IndexSteps
  <2>2. ASSUME NEW q \in Process, q # p
        PROVE  (PastLoad(q)' <=> PastLoad(q)) /\ (Complete(q)' <=> Complete(q))
    <3>1. pc'[q] = pc[q] /\ after' = after
      BY <2>2
    <3>2. installed'[q] = installed[q] /\ overlaid'[q] = overlaid[q] /\ job' = job
      BY <2>2
    <3>3. QED
      BY <3>1, <3>2 DEF PastLoad, IndexSteps, Complete, Wanted
  <2>3. QED
    BY <2>1, <2>2 DEF AllLoaded
<1>7. QED
  BY <1>1, <1>2, <1>3, <1>4, <1>5, <1>6

LEMMA HydrateStep ==
  ASSUME IInv, NEW p \in Process, Hydrate(p)
  PROVE  IInv'
<1> USE DEF Hydrate, Goto
<1>1. TypeOK'
  <2>1. pc' \in [Process -> Steps] /\ after' \in [Process -> Steps]
    BY DEF Steps
  <2>2. (IndexType /\ SidecarType)'
    BY DEF IndexType, SidecarType, State, Fresh, Blob, AnyFingerprint
  <2>3. JobType' /\ overlaid' \in [Process -> BOOLEAN]
    BY DEF JobType, AnyFingerprint
  <2>4. installed' \in [Process -> SUBSET Blob]
    BY DEF Blob, Requirements, Packages, Wanted, JobType, Fresh
  <2>5. HandsType'
    BY DEF HandsType, IndexType, SidecarType
  <2>6. QED
    BY <2>1, <2>2, <2>3, <2>4, <2>5
<1>2. OwnBlobs'
  BY DEF OwnBlobs, Fresh, FilesAreMarked
<1>3. Fresh'
  BY DEF Fresh
<1>4. FilesAreMarked'
  BY DEF FilesAreMarked, OwnBlobs
<1>5. Returns'
  BY DEF Returns, IndexSteps
<1>6. AllLoaded'
  BY DEF AllLoaded, PastLoad, Complete, IndexSteps, Returns, Wanted
<1>7. QED
  BY <1>1, <1>2, <1>3, <1>4, <1>5, <1>6

LEMMA HydrateLoadStep ==
  ASSUME IInv, NEW p \in Process, HydrateLoad(p)
  PROVE  IInv'
<1> USE DEF HydrateLoad, Goto, LoadedIndex, Listed, NoIndex
<1>1. TypeOK'
  <2>1. pc' \in [Process -> Steps] /\ after' \in [Process -> Steps]
    BY DEF Steps
  <2>2. (IndexType /\ SidecarType)'
    BY DEF IndexType, SidecarType, State, Fresh, Blob, AnyFingerprint
  <2>3. JobType' /\ overlaid' \in [Process -> BOOLEAN]
    BY DEF JobType, AnyFingerprint
  <2>4. installed' \in [Process -> SUBSET Blob]
    BY DEF Blob, Requirements, Packages, Wanted, JobType, Fresh
  <2>5. HandsType'
    BY DEF HandsType, IndexType, SidecarType
  <2>6. QED
    BY <2>1, <2>2, <2>3, <2>4, <2>5
<1>2. OwnBlobs'
  BY SMTT(20) DEF OwnBlobs, Fresh, FilesAreMarked
<1>3. Fresh'
  BY DEF Fresh
<1>4. FilesAreMarked'
  BY DEF FilesAreMarked, OwnBlobs
<1>5. Returns'
  BY DEF Returns, IndexSteps
<1>6. AllLoaded'
  <2>1. ~PastLoad(p)'
    BY DEF PastLoad, IndexSteps
  <2>2. ASSUME NEW q \in Process, q # p
        PROVE  (PastLoad(q)' <=> PastLoad(q)) /\ (Complete(q)' <=> Complete(q))
    BY <2>2 DEF PastLoad, IndexSteps, Complete, Wanted
  <2>3. QED
    BY <2>1, <2>2 DEF AllLoaded
<1>7. QED
  BY <1>1, <1>2, <1>3, <1>4, <1>5, <1>6

LEMMA HydrateBlobsStep ==
  ASSUME IInv, NEW p \in Process, HydrateBlobs(p)
  PROVE  IInv'
<1> USE DEF HydrateBlobs, Import, Goto
<1>1. TypeOK'
  <2>1. pc' \in [Process -> Steps] /\ after' \in [Process -> Steps]
    BY DEF Steps
  <2>2. (IndexType /\ SidecarType)'
    BY DEF IndexType, SidecarType
  <2>3. JobType'
    BY DEF JobType
  <2>4. overlaid' \in [Process -> BOOLEAN]
    OBVIOUS
  <2>5. held[p] \in SUBSET Blob /\ held[p] \cap Present \in SUBSET Blob
    BY DEF HandsType
  <2>6. installed' \in [Process -> SUBSET Blob]
    <3>1. \E blobs \in {installed[p], held[p] \cap Present, {}} :
            installed' = [installed EXCEPT ![p] = blobs]
      BY DEF HandsType
    <3>2. installed \in [Process -> SUBSET Blob]
      BY DEF HandsType
    <3>3. QED
      BY <2>5, <3>1, <3>2
  <2>7. imported' \in [Process -> SUBSET Blob]
    BY <2>5 DEF HandsType
  <2>8. held' \in [Process -> SUBSET Blob]
    BY DEF HandsType
  <2>9. QED
    BY <2>1, <2>2, <2>3, <2>4, <2>6, <2>7, <2>8 DEF HandsType
<1>2. OwnBlobs'
  BY DEF OwnBlobs, Fresh, FilesAreMarked
<1>3. Fresh'
  BY DEF Fresh
<1>4. FilesAreMarked'
  BY DEF FilesAreMarked, OwnBlobs
<1>5. Returns'
  BY DEF Returns, IndexSteps
<1>6. AllLoaded'
  <2>1. ~PastLoad(p)'
    BY DEF PastLoad, IndexSteps
  <2>2. ASSUME NEW q \in Process, q # p
        PROVE  (PastLoad(q)' <=> PastLoad(q)) /\ (Complete(q)' <=> Complete(q))
    BY <2>2 DEF PastLoad, IndexSteps, Complete, Wanted
  <2>3. QED
    BY <2>1, <2>2 DEF AllLoaded
<1>7. QED
  BY <1>1, <1>2, <1>3, <1>4, <1>5, <1>6

(* What the loader can install is in the lockfile, so that what it is asked*)
(* for is either required of it or nothing it could install.               *)
LEMMA InstallableAreThere ==
  ASSUME NEW p \in Process, NEW names, NEW q \in Needed(names) \cap Installable
  PROVE  q \in Packages(WithPackages(p, names))
<1>0. q \in Requirements(names) \cap Installable
  BY LockfileAssumption DEF Requirements
<1> SUFFICES \E b \in WithPackages(p, names) : b.package = q
  BY DEF Packages
<1>1. CASE q \in Packages(installed[p])
  BY <1>1 DEF Packages, WithPackages
<1>2. CASE q \notin Packages(installed[p])
  <2>1. [package |-> q, made |-> job[p].fp] \in WithPackages(p, names)
    BY <1>0, <1>2 DEF WithPackages
  <2>2. QED
    BY <2>1
<1>3. QED
  BY <1>1, <1>2

LEMMA LoadPackagesStep ==
  ASSUME IInv, NEW p \in Process, LoadPackages(p)
  PROVE  IInv'
<1> USE DEF LoadPackages, Goto
<1>1. TypeOK'
  <2>1. pc' \in [Process -> Steps] /\ after' \in [Process -> Steps]
    BY DEF Steps
  <2>2. (IndexType /\ SidecarType)'
    BY DEF IndexType, SidecarType
  <2>3. JobType' /\ overlaid' \in [Process -> BOOLEAN]
    BY DEF JobType
  <2>4. WithPackages(p, Wanted(p)) \in SUBSET Blob
    BY WithPackagesType, WantedType
  <2>5. HandsType'
    BY <2>4 DEF HandsType
  <2>6. QED
    BY <2>1, <2>2, <2>3, <2>5
<1>2. OwnBlobs'
  BY WithPackagesOwn DEF OwnBlobs, HandsType
<1>3. Fresh'
  BY DEF Fresh
<1>4. FilesAreMarked'
  BY DEF FilesAreMarked, OwnBlobs
<1>5. Returns'
  BY DEF Returns, IndexSteps
<1>6. AllLoaded'
  <2>1. Complete(p)'
    <3>1. CASE overlaid[p]
      BY <3>1 DEF Complete
    <3>2. CASE ~overlaid[p]
      <4>1. installed'[p] = WithPackages(p, Wanted(p))
        BY <3>2 DEF HandsType
      <4>2. Complete(p)' <=> overlaid[p] \/
              \A q \in Needed(Wanted(p)) \ Packages(installed'[p]) : q \notin Installable
        BY DEF Complete, Wanted, Needed, Packages
      <4>3. QED
        BY <4>1, <4>2, InstallableAreThere
    <3>3. QED
      BY <3>1, <3>2
  <2>2. ASSUME NEW q \in Process, q # p
        PROVE  (PastLoad(q)' <=> PastLoad(q)) /\ (Complete(q)' <=> Complete(q))
    BY <2>2 DEF PastLoad, IndexSteps, Complete, Wanted
  <2>3. QED
    BY <2>1, <2>2 DEF AllLoaded
<1>7. QED
  BY <1>1, <1>2, <1>3, <1>4, <1>5, <1>6

LEMMA KeptOwn ==
  ASSUME IInv, NEW p \in Process
  PROVE  KeptBy(p) \in SUBSET Blob /\ \A b \in KeptBy(p) : b.made = job[p].fp
<1>1. KeptBy(p) \subseteq stored[p] \cup OwnEntries(p)
  BY DEF KeptBy, KeptEntries, Merge
<1>2. OwnEntries(p) \in SUBSET Blob
  BY DEF OwnEntries, LoadedIndex, NoIndex, IndexType, SidecarType
<1>3. \A b \in OwnEntries(p) : b.made = job[p].fp
  BY DEF OwnEntries, LoadedIndex, NoIndex, FilesAreMarked
<1>4. QED
  BY <1>1, <1>2, <1>3 DEF HandsType, OwnBlobs

LEMMA IndexReadStep ==
  ASSUME IInv, NEW p \in Process, IndexRead(p)
  PROVE  IInv'
<1>0. /\ pc[p] = "indexRead"
      /\ \/ held' = [held EXCEPT ![p] = KeptBy(p)] /\ Goto(p, "indexCut")
         \/ UNCHANGED held /\ Goto(p, after[p])
      /\ UNCHANGED <<files, job, guest, todo, stored, after>>
  BY DEF IndexRead, KeptBy
<1> USE <1>0 DEF Goto
<1>1. TypeOK'
  <2>1. pc' \in [Process -> Steps] /\ after' \in [Process -> Steps]
    BY DEF Steps
  <2>2. (IndexType /\ SidecarType)'
    BY DEF IndexType, SidecarType
  <2>3. JobType' /\ overlaid' \in [Process -> BOOLEAN]
    BY DEF JobType
  <2>4. HandsType'
    BY SMTT(20), KeptOwn DEF HandsType
  <2>5. QED
    BY <2>1, <2>2, <2>3, <2>4
<1>2. OwnBlobs'
  BY KeptOwn DEF OwnBlobs, HandsType
<1>3. Fresh'
  BY SMTT(20) DEF Fresh, Returns, IndexSteps
<1>4. FilesAreMarked'
  BY DEF FilesAreMarked, OwnBlobs
<1>5. Returns'
  BY DEF Returns, IndexSteps
<1>6. AllLoaded'
  <2>1. PastLoad(p)' => PastLoad(p)
    BY DEF PastLoad, IndexSteps, Returns
  <2>2. ASSUME NEW q \in Process
        PROVE  /\ q # p => (PastLoad(q)' <=> PastLoad(q))
               /\ Complete(q)' <=> Complete(q)
    BY DEF PastLoad, IndexSteps, Complete, Wanted
  <2>3. QED
    BY <2>1, <2>2 DEF AllLoaded
<1>7. QED
  BY <1>1, <1>2, <1>3, <1>4, <1>5, <1>6

LEMMA IndexCutStep ==
  ASSUME IInv, NEW p \in Process, IndexCut(p)
  PROVE  IInv'
<1> USE DEF IndexCut, NoIndex, Goto
<1>1. TypeOK'
  <2>1. pc' \in [Process -> Steps] /\ after' \in [Process -> Steps]
    BY DEF Steps
  <2>2. (IndexType /\ SidecarType)'
    BY DEF IndexType, SidecarType, State, Fresh, Blob, AnyFingerprint
  <2>3. JobType' /\ overlaid' \in [Process -> BOOLEAN]
    BY DEF JobType, AnyFingerprint
  <2>4. installed' \in [Process -> SUBSET Blob]
    BY DEF Blob, Requirements, Packages, Wanted, JobType, Fresh
  <2>5. HandsType'
    BY DEF HandsType, IndexType, SidecarType
  <2>6. QED
    BY <2>1, <2>2, <2>3, <2>4, <2>5
<1>2. OwnBlobs'
  BY DEF OwnBlobs, Fresh, FilesAreMarked
<1>3. Fresh'
  BY DEF Fresh
<1>4. FilesAreMarked'
  BY DEF FilesAreMarked, OwnBlobs
<1>5. Returns'
  BY DEF Returns, IndexSteps
<1>6. AllLoaded'
  BY DEF AllLoaded, PastLoad, Complete, IndexSteps, Returns, Wanted
<1>7. QED
  BY <1>1, <1>2, <1>3, <1>4, <1>5, <1>6

LEMMA IndexWriteStep ==
  ASSUME IInv, NEW p \in Process, IndexWrite(p)
  PROVE  IInv'
<1> USE DEF IndexWrite, NoIndex, Goto
<1>1. TypeOK'
  <2>1. pc' \in [Process -> Steps] /\ after' \in [Process -> Steps]
    BY DEF Steps
  <2>2. (IndexType /\ SidecarType)'
    <3>1. held[p] \in SUBSET Blob /\ job[p].fp \in Fingerprint
      BY DEF HandsType, Fresh
    <3>2. [state |-> "whole", fp |-> job[p].fp, entries |-> held[p]]
             \in [state : State, fp : AnyFingerprint, entries : SUBSET Blob]
      BY <3>1 DEF State, AnyFingerprint
    <3>3. [NoIndex EXCEPT !.state = "torn"]
             \in [state : State, fp : AnyFingerprint, entries : SUBSET Blob]
      BY DEF State, AnyFingerprint
    <3>4. IndexType'
      BY <3>2, <3>3 DEF IndexType
    <3>5. SidecarType'
      BY DEF SidecarType
    <3>6. QED
      BY <3>4, <3>5
  <2>3. JobType' /\ overlaid' \in [Process -> BOOLEAN]
    BY DEF JobType, AnyFingerprint
  <2>4. installed' \in [Process -> SUBSET Blob]
    BY DEF Blob, Requirements, Packages, Wanted, JobType, Fresh
  <2>5. HandsType'
    BY DEF HandsType, IndexType, SidecarType
  <2>6. QED
    BY <2>1, <2>2, <2>3, <2>4, <2>5
<1>2. OwnBlobs'
  BY DEF OwnBlobs, Fresh, FilesAreMarked
<1>3. Fresh'
  BY DEF Fresh, Returns, IndexSteps
<1>4. FilesAreMarked'
  BY DEF FilesAreMarked, OwnBlobs
<1>5. Returns'
  BY DEF Returns, IndexSteps
<1>6. AllLoaded'
  <2>1. ASSUME NEW q \in Process
        PROVE  (PastLoad(q)' => PastLoad(q)) /\ (Complete(q)' <=> Complete(q))
    <3>1. Complete(q)' <=> Complete(q)
      BY DEF Complete, Wanted
    <3>2. PastLoad(q)' => PastLoad(q)
      BY DEF PastLoad, IndexSteps, Returns
    <3>3. QED
      BY <3>1, <3>2
  <2>2. QED
    BY <2>1 DEF AllLoaded
<1>7. QED
  BY <1>1, <1>2, <1>3, <1>4, <1>5, <1>6

LEMMA ExportNothingStep ==
  ASSUME IInv, NEW p \in Process, ExportNothing(p)
  PROVE  IInv'
<1> USE DEF ExportNothing, GuestOverlay, NoSidecar, Goto
<1>1. TypeOK'
  <2>1. pc' \in [Process -> Steps] /\ after' \in [Process -> Steps]
    BY DEF Steps
  <2>2. (IndexType /\ SidecarType)'
    BY DEF IndexType, SidecarType, State, Fresh, Blob, AnyFingerprint
  <2>3. JobType' /\ overlaid' \in [Process -> BOOLEAN]
    BY DEF JobType, AnyFingerprint
  <2>4. installed' \in [Process -> SUBSET Blob]
    BY DEF Blob, Requirements, Packages, Wanted, JobType, Fresh
  <2>5. HandsType'
    BY DEF HandsType, IndexType, SidecarType
  <2>6. QED
    BY <2>1, <2>2, <2>3, <2>4, <2>5
<1>2. OwnBlobs'
  BY DEF OwnBlobs, Fresh, FilesAreMarked
<1>3. Fresh'
  BY DEF Fresh
<1>4. FilesAreMarked'
  BY DEF FilesAreMarked, OwnBlobs
<1>5. Returns'
  BY DEF Returns, IndexSteps
<1>6. AllLoaded'
  BY DEF AllLoaded, PastLoad, Complete, IndexSteps, Returns, Wanted
<1>7. QED
  BY <1>1, <1>2, <1>3, <1>4, <1>5, <1>6

LEMMA ExportStep ==
  ASSUME IInv, NEW p \in Process, Export(p)
  PROVE  IInv'
<1> USE DEF Export, GuestOverlay, Goto
<1>1. TypeOK'
  <2>1. pc' \in [Process -> Steps] /\ after' \in [Process -> Steps]
    BY DEF Steps
  <2>2. (IndexType /\ SidecarType)'
    BY DEF IndexType, SidecarType, State, Fresh, Blob, AnyFingerprint
  <2>3. JobType' /\ overlaid' \in [Process -> BOOLEAN]
    BY DEF JobType, AnyFingerprint
  <2>4. installed' \in [Process -> SUBSET Blob]
    BY DEF Blob, Requirements, Packages, Wanted, JobType, Fresh
  <2>5. HandsType'
    BY DEF HandsType, IndexType, SidecarType
  <2>6. QED
    BY <2>1, <2>2, <2>3, <2>4, <2>5
<1>2. OwnBlobs'
  BY DEF OwnBlobs, Fresh, FilesAreMarked
<1>3. Fresh'
  BY DEF Fresh
<1>4. FilesAreMarked'
  BY DEF FilesAreMarked, OwnBlobs
<1>5. Returns'
  BY DEF Returns, IndexSteps
<1>6. AllLoaded'
  BY DEF AllLoaded, PastLoad, Complete, IndexSteps, Returns, Wanted
<1>7. QED
  BY <1>1, <1>2, <1>3, <1>4, <1>5, <1>6

LEMMA CurrentIsDue ==
  ASSUME NEW p \in Process, todo[p] # {}
  PROVE  Current(p) \in todo[p]
  BY DEF Current

LEMMA StoreBlobStep ==
  ASSUME IInv, NEW p \in Process, StoreBlob(p)
  PROVE  IInv'
<1> USE DEF StoreBlob, Goto
<1>1. TypeOK'
  <2>1. pc' \in [Process -> Steps] /\ after' \in [Process -> Steps]
    BY DEF Steps
  <2>2. (IndexType /\ SidecarType)'
    BY DEF IndexType, SidecarType
  <2>3. JobType' /\ overlaid' \in [Process -> BOOLEAN]
    BY DEF JobType
  <2>4. todo[p] \in SUBSET Blob /\ Current(p) \in Blob
    BY CurrentIsDue DEF HandsType
  <2>5. todo' \in [Process -> SUBSET Blob]
    BY <2>4 DEF HandsType
  <2>6. stored' \in [Process -> SUBSET Blob]
    BY <2>4 DEF HandsType
  <2>7. QED
    BY <2>1, <2>2, <2>3, <2>5, <2>6 DEF HandsType
<1>2. OwnBlobs'
  <2>1. Current(p) \in todo[p]
    BY CurrentIsDue
  <2>2. QED
    BY SMTT(20), <2>1 DEF OwnBlobs, HandsType
<1>3. Fresh'
  BY SMTT(20) DEF Fresh
<1>4. FilesAreMarked'
  BY DEF FilesAreMarked, OwnBlobs
<1>5. Returns'
  BY DEF Returns, IndexSteps
<1>6. AllLoaded'
  BY DEF AllLoaded, PastLoad, Complete, IndexSteps, Returns, Wanted
<1>7. QED
  BY <1>1, <1>2, <1>3, <1>4, <1>5, <1>6

LEMMA BlobWrittenStep ==
  ASSUME IInv, NEW p \in Process, BlobWritten(p)
  PROVE  IInv'
<1> USE DEF BlobWritten, Goto
<1>1. TypeOK'
  <2>1. pc' \in [Process -> Steps] /\ after' \in [Process -> Steps]
    BY DEF Steps
  <2>2. (IndexType /\ SidecarType)'
    BY DEF IndexType, SidecarType
  <2>3. JobType' /\ overlaid' \in [Process -> BOOLEAN]
    BY DEF JobType
  <2>4. todo[p] \in SUBSET Blob /\ Current(p) \in Blob
    BY CurrentIsDue DEF HandsType, Fresh
  <2>5. todo' \in [Process -> SUBSET Blob]
    BY <2>4 DEF HandsType
  <2>6. stored' \in [Process -> SUBSET Blob]
    BY <2>4 DEF HandsType
  <2>7. QED
    BY <2>1, <2>2, <2>3, <2>5, <2>6 DEF HandsType
<1>2. OwnBlobs'
  <2>1. Current(p) \in todo[p]
    BY CurrentIsDue DEF Fresh
  <2>2. QED
    BY <2>1 DEF OwnBlobs, HandsType
<1>3. Fresh'
  BY DEF Fresh
<1>4. FilesAreMarked'
  BY DEF FilesAreMarked, OwnBlobs
<1>5. Returns'
  BY DEF Returns, IndexSteps
<1>6. AllLoaded'
  BY DEF AllLoaded, PastLoad, Complete, IndexSteps, Returns, Wanted
<1>7. QED
  BY <1>1, <1>2, <1>3, <1>4, <1>5, <1>6

LEMMA BlobFailsStep ==
  ASSUME IInv, NEW p \in Process, BlobFails(p)
  PROVE  IInv'
<1> USE DEF BlobFails, Goto
<1>1. TypeOK'
  <2>1. pc' \in [Process -> Steps] /\ after' \in [Process -> Steps]
    BY DEF Steps
  <2>2. (IndexType /\ SidecarType)'
    BY DEF IndexType, SidecarType, State, Fresh, Blob, AnyFingerprint
  <2>3. JobType' /\ overlaid' \in [Process -> BOOLEAN]
    BY DEF JobType, AnyFingerprint
  <2>4. installed' \in [Process -> SUBSET Blob]
    BY DEF Blob, Requirements, Packages, Wanted, JobType, Fresh
  <2>5. HandsType'
    BY DEF HandsType, IndexType, SidecarType
  <2>6. QED
    BY <2>1, <2>2, <2>3, <2>4, <2>5
<1>2. OwnBlobs'
  BY DEF OwnBlobs, Fresh, FilesAreMarked
<1>3. Fresh'
  BY DEF Fresh
<1>4. FilesAreMarked'
  BY DEF FilesAreMarked, OwnBlobs
<1>5. Returns'
  BY DEF Returns, IndexSteps
<1>6. AllLoaded'
  BY DEF AllLoaded, PastLoad, Complete, IndexSteps, Returns, Wanted
<1>7. QED
  BY <1>1, <1>2, <1>3, <1>4, <1>5, <1>6

LEMMA EnforceExportStep ==
  ASSUME IInv, NEW p \in Process, EnforceExport(p)
  PROVE  IInv'
<1> USE DEF EnforceExport, Goto
<1>1. TypeOK'
  <2>1. pc' \in [Process -> Steps] /\ after' \in [Process -> Steps]
    BY DEF Steps
  <2>2. (IndexType /\ SidecarType)'
    BY DEF IndexType, SidecarType, State, Fresh, Blob, AnyFingerprint
  <2>3. JobType' /\ overlaid' \in [Process -> BOOLEAN]
    BY DEF JobType, AnyFingerprint
  <2>4. installed' \in [Process -> SUBSET Blob]
    BY DEF Blob, Requirements, Packages, Wanted, JobType, Fresh
  <2>5. HandsType'
    BY DEF HandsType, IndexType, SidecarType
  <2>6. QED
    BY <2>1, <2>2, <2>3, <2>4, <2>5
<1>2. OwnBlobs'
  BY DEF OwnBlobs, Fresh, FilesAreMarked
<1>3. Fresh'
  BY DEF Fresh
<1>4. FilesAreMarked'
  BY DEF FilesAreMarked, OwnBlobs
<1>5. Returns'
  BY DEF Returns, IndexSteps
<1>6. AllLoaded'
  BY DEF AllLoaded, PastLoad, Complete, IndexSteps, Returns, Wanted
<1>7. QED
  BY <1>1, <1>2, <1>3, <1>4, <1>5, <1>6

LEMMA SidecarCutStep ==
  ASSUME IInv, NEW p \in Process, SidecarCut(p)
  PROVE  IInv'
<1> USE DEF SidecarCut, NoSidecar, Goto
<1>1. TypeOK'
  <2>1. pc' \in [Process -> Steps] /\ after' \in [Process -> Steps]
    BY DEF Steps
  <2>2. (IndexType /\ SidecarType)'
    BY DEF IndexType, SidecarType, State, Fresh, Blob, AnyFingerprint
  <2>3. JobType' /\ overlaid' \in [Process -> BOOLEAN]
    BY DEF JobType, AnyFingerprint
  <2>4. installed' \in [Process -> SUBSET Blob]
    BY DEF Blob, Requirements, Packages, Wanted, JobType, Fresh
  <2>5. HandsType'
    BY DEF HandsType, IndexType, SidecarType
  <2>6. QED
    BY <2>1, <2>2, <2>3, <2>4, <2>5
<1>2. OwnBlobs'
  BY DEF OwnBlobs, Fresh, FilesAreMarked
<1>3. Fresh'
  BY DEF Fresh
<1>4. FilesAreMarked'
  BY DEF FilesAreMarked, OwnBlobs
<1>5. Returns'
  BY DEF Returns, IndexSteps
<1>6. AllLoaded'
  BY DEF AllLoaded, PastLoad, Complete, IndexSteps, Returns, Wanted
<1>7. QED
  BY <1>1, <1>2, <1>3, <1>4, <1>5, <1>6

LEMMA SidecarWriteStep ==
  ASSUME IInv, NEW p \in Process, SidecarWrite(p)
  PROVE  IInv'
<1> USE DEF SidecarWrite, SidecarOf, NoSidecar, Goto, Named, GuestOverlay
<1>1. TypeOK'
  <2>1. pc' \in [Process -> Steps] /\ after' \in [Process -> Steps]
    BY DEF Steps
  <2>2. (IndexType /\ SidecarType)'
    <3>1. IndexType'
      BY DEF IndexType
    <3>2. stored[p] \in SUBSET Blob /\ installed[p] \in SUBSET Blob /\ job[p].fp \in AnyFingerprint
      BY DEF HandsType, JobType
    <3>3. Packages(installed[p] \ Named(p)) \in SUBSET Package
      BY <3>2 DEF Packages, Blob
    <3>4. SidecarOf(p) \in [state : State, fp : AnyFingerprint, named : SUBSET Blob,
                             unnamed : SUBSET Package]
      BY <3>2, <3>3 DEF State
    <3>5. SidecarType'
      BY <3>4 DEF SidecarType, State, AnyFingerprint
    <3>6. QED
      BY <3>1, <3>5
  <2>3. JobType' /\ overlaid' \in [Process -> BOOLEAN]
    BY DEF JobType, AnyFingerprint
  <2>4. installed' \in [Process -> SUBSET Blob]
    BY DEF Blob, Requirements, Packages, Wanted, JobType, Fresh
  <2>5. HandsType'
    BY DEF HandsType, IndexType, SidecarType
  <2>6. QED
    BY <2>1, <2>2, <2>3, <2>4, <2>5
<1>2. OwnBlobs'
  BY DEF OwnBlobs, Fresh, FilesAreMarked
<1>3. Fresh'
  BY DEF Fresh
<1>4. FilesAreMarked'
  BY SMTT(20) DEF FilesAreMarked, OwnBlobs
<1>5. Returns'
  BY DEF Returns, IndexSteps
<1>6. AllLoaded'
  BY DEF AllLoaded, PastLoad, Complete, IndexSteps, Returns, Wanted
<1>7. QED
  BY <1>1, <1>2, <1>3, <1>4, <1>5, <1>6

-----------------------------------------------------------------------------
LEMMA Initially == Init => IInv
  BY DEF Init, NoIndex, NoSidecar, NoJob, NoFile, OwnBlobs, Fresh, FilesAreMarked,
         Returns, AllLoaded, PastLoad, IndexSteps, IndexType, SidecarType, JobType,
         HandsType, State, Steps, AnyFingerprint

LEMMA Stutters == IInv /\ UNCHANGED vars => IInv'
  BY DEF vars, OwnBlobs, Fresh, FilesAreMarked, Returns, AllLoaded, PastLoad,
         Complete, Wanted, IndexType, SidecarType, JobType, HandsType

LEMMA DeleteByHandStep == IInv /\ DeleteByHand => IInv'
<1> SUFFICES ASSUME IInv, DeleteByHand
             PROVE  IInv'
  OBVIOUS
<1>1. UNCHANGED <<root, sidecar, snapshot, metadata, pc, job, guest, scratch>>
  BY DEF DeleteByHand
<1>2. index' = index \/ index' = NoIndex
  BY DEF DeleteByHand
<1>3. (IndexType /\ FilesAreMarked)'
  BY <1>1, <1>2
     DEF IndexType, FilesAreMarked, NoIndex, State, AnyFingerprint
<1>4. TypeOK'
  BY <1>1, <1>3 DEF SidecarType, JobType, HandsType
<1>5. (OwnBlobs /\ Fresh /\ Returns)'
  BY <1>1 DEF OwnBlobs, Fresh, Returns
<1>6. AllLoaded'
  BY <1>1 DEF AllLoaded, PastLoad, Complete, Wanted
<1>7. QED
  BY <1>3, <1>4, <1>5, <1>6

HIDE DEF IInv, TypeOK, files, guest, scratch, history

LEMMA NextKeepsIInv == IInv /\ [Next]_vars => IInv'
<1>1. ASSUME IInv, NEW p \in Process, Step(p)
      PROVE  IInv'
  BY <1>1, MoveStep, ExitStep, StartStep, PrepareStep, RestoreSidecarStep,
     RestoreBlobsStep, HydrateStep, HydrateLoadStep, HydrateBlobsStep,
     LoadPackagesStep, IndexReadStep, IndexCutStep, IndexWriteStep,
     ExportNothingStep, ExportStep, StoreBlobStep, BlobWrittenStep,
     BlobFailsStep, EnforceExportStep, SidecarCutStep, SidecarWriteStep
     DEF Step, Moves, Exits
<1>2. QED
  BY <1>1, DeleteByHandStep, Stutters DEF Next

THEOREM Invariance == Spec => []IInv
<1>1. Init => IInv
  BY Initially
<1>2. IInv /\ [Next]_vars => IInv'
  BY NextKeepsIInv
<1>3. QED
  BY <1>1, <1>2, PTL DEF Spec

-----------------------------------------------------------------------------
(* Index, sidecar and what a process holds have their types.               *)
THEOREM TypeCorrect == Spec => []TypeOK
<1>1. IInv => TypeOK
  BY DEF IInv
<1>2. QED
  BY <1>1, Invariance, PTL

(* An index or a sidecar names only blobs of the distribution it is marked *)
(* with, and a guest holds only packages of the active one.                *)
THEOREM Compatible == Spec => []CompatibleOnly
<1>1. IInv => CompatibleOnly
  BY DEF IInv, FilesAreMarked, OwnBlobs, CompatibleOnly
<1>2. QED
  BY <1>1, Invariance, PTL

(* A session that did not import an overlay has every package it asked     *)
(* for.                                                                    *)
THEOREM NothingMissing == Spec => []MissingOnlyAfterImport
<1>1. IInv => MissingOnlyAfterImport
  BY DEF IInv, AllLoaded, PastLoad, Complete, MissingOnlyAfterImport
<1>2. QED
  BY <1>1, Invariance, PTL

-----------------------------------------------------------------------------
(* The memory image and its metadata                                       *)

NobodySaves == \A q \in Process : ~Saving(q)
ImageOf(fp) == [state |-> "whole", fp |-> fp]

(* Unless a save was cut, failed or overlapped, metadata that can be read  *)
(* is that of the image beside it.                                         *)
ImageAndMetadata ==
  /\ \A p, q \in Process : Saving(p) /\ Saving(q) => p = q
  /\ NobodySaves /\ metadata.state = "whole" => snapshot = ImageOf(metadata.fp)
  /\ \A p \in Process :
       /\ pc[p] = "readImage" => NobodySaves /\ MetadataMatches(p)
       /\ pc[p] \in {"metaCut", "metaWrite"} => snapshot = ImageOf(job[p].fp)
       /\ image[p].state # "absent" => image[p] = ImageOf(job[p].fp)

ImageInv ==
  /\ IInv
  /\ image = [p \in Process |-> image[p]]
  /\ \A p \in Process : pc[p] = "idle" => image[p] = NoFile
  /\ ~mixed => ImageAndMetadata

Saves == {"imageWrite", "metaCut", "metaWrite"}

(* A step outside of loading and saving an image.                          *)
LEMMA ElsewhereKeeps ==
  ASSUME ImageInv, IInv', NEW p \in Process, ~mixed' => ~mixed,
         UNCHANGED <<snapshot, metadata>>,
         NEW where, pc' = [pc EXCEPT ![p] = where],
         where \notin Saves \cup {"readImage"}, ~mixed' => pc[p] \notin Saves,
         \/ where # "idle" /\ UNCHANGED <<image, job>>
         \/ pc[p] = "idle" /\ where # "idle" /\ UNCHANGED image
              /\ \A q \in Process \ {p} : job'[q] = job[q]
         \/ image' = [image EXCEPT ![p] = NoFile]
              /\ \A q \in Process \ {p} : job'[q] = job[q]
  PROVE  ImageInv'
<1>1. pc'[p] = where /\ \A q \in Process \ {p} : pc'[q] = pc[q]
  BY DEF ImageInv, IInv, TypeOK
<1>2. image' = [q \in Process |-> image'[q]] /\ \A q \in Process \ {p} : image'[q] = image[q]
  BY DEF ImageInv
<1>3. /\ image'[p] = NoFile \/ (image'[p] = image[p] /\ job'[p] = job[p])
      /\ pc'[p] = "idle" => image'[p] = NoFile
  BY <1>1 DEF ImageInv
<1>4. \A q \in Process \ {p} : job'[q] = job[q]
  OBVIOUS
<1>5. \A q \in Process : pc'[q] = "idle" => image'[q] = NoFile
  BY <1>1, <1>2, <1>3 DEF ImageInv
<1>6. ASSUME ~mixed'
      PROVE  ImageAndMetadata'
  <2>1. ImageAndMetadata
    BY <1>6 DEF ImageInv
  <2>2. \A q \in Process : Saving(q)' <=> Saving(q)
    BY <1>1, <1>6 DEF Saving, Saves
  <2>3. NobodySaves' <=> NobodySaves
    BY <2>2 DEF NobodySaves
  <2>4. \A q \in Process : pc'[q] \in Saves \cup {"readImage"} => q # p
    BY <1>1
  <2>5. \A q \in Process : image'[q].state # "absent" => image'[q] = ImageOf(job'[q].fp)
    BY <1>2, <1>3, <1>4, <2>1 DEF ImageAndMetadata, NoFile
  <2>6. ASSUME NEW q \in Process, pc'[q] \in {"metaCut", "metaWrite"}
        PROVE  snapshot' = ImageOf(job'[q].fp)
    BY <1>1, <1>4, <2>1, <2>4, <2>6 DEF ImageAndMetadata, Saves
  <2>7. ASSUME NEW q \in Process, pc'[q] = "readImage"
        PROVE  NobodySaves' /\ MetadataMatches(q)'
    BY <1>1, <1>4, <2>1, <2>3, <2>4, <2>7 DEF ImageAndMetadata, MetadataMatches
  <2>8. QED
    BY <2>1, <2>2, <2>3, <2>5, <2>6, <2>7 DEF ImageAndMetadata
<1>7. QED
  BY <1>2, <1>5, <1>6 DEF ImageInv


LEMMA ElsewhereStep ==
  ASSUME ImageInv, IInv', NEW p \in Process,
         \/ Start(p) \/ RefuseSnapshot(p) \/ CommandFails(p) \/ Run(p) \/ Kill(p)
         \/ Prepare(p) \/ RestoreSidecar(p) \/ RestoreBlobs(p) \/ Hydrate(p)
         \/ NothingToHydrate(p) \/ HydrateLoad(p) \/ HydrateBlobs(p) \/ LoadPackages(p)
         \/ IndexRead(p) \/ IndexCut(p) \/ IndexWrite(p) \/ CollectFails(p)
         \/ ExportNothing(p) \/ Export(p) \/ StoreBlob(p) \/ BlobWritten(p) \/ BlobFails(p)
         \/ BlobsStored(p) \/ EnforceExport(p) \/ SidecarCut(p) \/ SidecarWrite(p)
  PROVE  ImageInv'
<1> USE DEF files, guest
<1>1. CASE Start(p)
  <2>1. PICK where \in {"validate", "prepare"} : pc' = [pc EXCEPT ![p] = where]
    BY <1>1 DEF Start, Goto
  <2>2. /\ pc[p] = "idle" /\ UNCHANGED <<snapshot, metadata, mixed, image>>
        /\ \A q \in Process \ {p} : job'[q] = job[q]
    BY <1>1 DEF Start, ImageInv, IInv, TypeOK, JobType
  <2>3. where \notin Saves \cup {"readImage"} /\ where # "idle" /\ pc[p] \notin Saves
    BY <2>1, <2>2 DEF Saves
  <2>4. ~mixed' => ~mixed
    BY <2>2
  <2>5. QED
    BY <2>1, <2>2, <2>3, <2>4, ElsewhereKeeps
<1>2. CASE RefuseSnapshot(p) \/ CommandFails(p) \/ Run(p) \/ Kill(p)
  <2>1. Exit(p) /\ UNCHANGED <<snapshot, metadata>>
    BY <1>2 DEF RefuseSnapshot, CommandFails, Run, Kill
  <2>4. ~mixed' => ~mixed
    <3>1. mixed' = mixed \/ mixed' = (mixed \/ Saving(p))
      BY <1>2 DEF RefuseSnapshot, CommandFails, Run, Kill, history
    <3>2. QED
      BY <3>1, Zenon
  <2>5. ~mixed' => pc[p] \notin Saves
    <3>1. CASE Kill(p)
      <4>1. mixed' = (mixed \/ Saving(p))
        BY <3>1 DEF Kill
      <4>2. ~mixed' => ~Saving(p)
        BY <4>1, Zenon
      <4>3. QED
        BY <4>2 DEF Saving, Saves
    <3>2. CASE RefuseSnapshot(p) \/ CommandFails(p) \/ Run(p)
      BY <3>2 DEF RefuseSnapshot, CommandFails, Run, Saves
    <3>3. QED
      BY <1>2, <3>1, <3>2
  <2>2. /\ pc' = [pc EXCEPT ![p] = "idle"] /\ image' = [image EXCEPT ![p] = NoFile]
        /\ \A q \in Process \ {p} : job'[q] = job[q]
    BY <2>1 DEF Exit, Goto, ImageInv, IInv, TypeOK, JobType
  <2>3. "idle" \notin Saves \cup {"readImage"}
    BY DEF Saves
  <2>6. QED
    BY <2>1, <2>2, <2>3, <2>4, <2>5, ElsewhereKeeps
<1>3. CASE \/ Prepare(p) \/ RestoreSidecar(p) \/ RestoreBlobs(p) \/ Hydrate(p)
           \/ NothingToHydrate(p) \/ HydrateLoad(p) \/ HydrateBlobs(p) \/ LoadPackages(p)
           \/ IndexRead(p) \/ IndexCut(p) \/ IndexWrite(p) \/ CollectFails(p)
           \/ ExportNothing(p) \/ Export(p) \/ StoreBlob(p) \/ BlobWritten(p)
           \/ BlobFails(p) \/ BlobsStored(p) \/ EnforceExport(p) \/ SidecarCut(p)
           \/ SidecarWrite(p)
  <2>1. UNCHANGED <<snapshot, metadata, mixed, image, job>> /\ pc[p] \notin Saves
    BY <1>3 DEF history, Saves, Prepare, RestoreSidecar, RestoreBlobs, Hydrate,
         NothingToHydrate, HydrateLoad, HydrateBlobs, LoadPackages, IndexRead, IndexCut,
         IndexWrite, CollectFails, ExportNothing, Export, StoreBlob, BlobWritten, BlobFails,
         BlobsStored, EnforceExport, SidecarCut, SidecarWrite, EnterCatalog
  <2>2. PICK where \in {"restore", "restoreBlobs", "hydrate", "hydrateLoad", "hydrateBlobs",
                        "packages", "collect", "run", "indexRead", "indexCut", "indexWrite",
                        "export", "store", "storing", "enforce", "sidecarCut",
                        "sidecarWrite"} : pc' = [pc EXCEPT ![p] = where]
    <3>1. CASE IndexRead(p) \/ IndexWrite(p)
      <4>1. after[p] \in {"hydrateLoad", "packages", "sidecarCut"}
        BY <3>1 DEF IndexRead, IndexWrite, ImageInv, IInv, Returns, IndexSteps
      <4>2. QED
        BY <3>1, <4>1 DEF IndexRead, IndexWrite, Goto
    <3>2. CASE StoreBlob(p)
      <4>1. pc[p] = "store" /\ pc = [pc EXCEPT ![p] = pc[p]]
        BY <3>2 DEF StoreBlob, ImageInv, IInv, TypeOK
      <4>2. pc' = pc \/ pc' = [pc EXCEPT ![p] = "storing"]
        BY <3>2 DEF StoreBlob, Goto
      <4>3. QED
        BY <4>1, <4>2
    <3>3. CASE ~IndexRead(p) /\ ~IndexWrite(p) /\ ~StoreBlob(p)
      BY <1>3, <3>3 DEF Goto, Prepare, RestoreSidecar, RestoreBlobs, Hydrate,
           NothingToHydrate, HydrateLoad, HydrateBlobs, LoadPackages, IndexCut, CollectFails,
           ExportNothing, Export, BlobWritten, BlobFails, BlobsStored, EnforceExport,
           SidecarCut, SidecarWrite
    <3>4. QED
      BY <3>1, <3>2, <3>3
  <2>3. where \notin Saves \cup {"readImage"} /\ where # "idle"
    BY <2>2 DEF Saves
  <2>4. ~mixed' => ~mixed
    BY <2>1
  <2>5. QED
    BY <2>1, <2>2, <2>3, <2>4, ElsewhereKeeps
<1>4. QED
  BY <1>1, <1>2, <1>3

(* Loading an image, and the steps of saving one.                          *)
LEMMA ImageStep ==
  ASSUME ImageInv, IInv', NEW p \in Process,
         \/ Validate(p) \/ ReadImage(p) \/ ImageCut(p) \/ ImageWrite(p) \/ MetaCut(p)
         \/ MetaWrite(p) \/ MetaFails(p)
  PROVE  ImageInv'
<1> USE DEF files, guest, history, Goto
<1>1. UNCHANGED job /\ pc[p] # "idle"
  BY DEF Validate, ReadImage, ImageCut, ImageWrite, MetaCut, MetaWrite, MetaFails
<1>2. PICK where \in {"readImage", "prepare", "imageWrite", "metaCut", "metaWrite", "export"} :
        pc' = [pc EXCEPT ![p] = where]
  BY DEF Validate, ReadImage, ImageCut, ImageWrite, MetaCut, MetaWrite, MetaFails
<1>3. pc'[p] = where /\ \A q \in Process \ {p} : pc'[q] = pc[q]
  BY <1>2 DEF ImageInv, IInv, TypeOK
<1>4. image' = image \/ image' = [image EXCEPT ![p] = snapshot]
  BY DEF Validate, ReadImage, ImageCut, ImageWrite, MetaCut, MetaWrite, MetaFails
<1>5. image' = [q \in Process |-> image'[q]] /\ \A q \in Process \ {p} : image'[q] = image[q]
  BY <1>4 DEF ImageInv
<1>6. \A q \in Process : pc'[q] = "idle" => image'[q] = NoFile
  BY <1>3, <1>5 DEF ImageInv
<1>7. ASSUME ImageAndMetadata, ~mixed, ~mixed'
      PROVE  ImageAndMetadata'
  <2> USE <1>7
  <2>1. CASE Validate(p)
    <3>5. /\ pc[p] = "validate" /\ UNCHANGED <<snapshot, metadata, image>>
          /\ MetadataMatches(p) /\ pc' = [pc EXCEPT ![p] = "readImage"]
      BY <2>1 DEF Validate
    <3>6. where = "readImage"
      BY <1>3, <3>5 DEF ImageInv, IInv, TypeOK
    <3>7. ~\E q \in Others(p) : Saving(q)
      <4>1. mixed' = (mixed \/ \E q \in Others(p) : Saving(q))
        BY <2>1 DEF Validate
      <4>2. QED
        BY <1>7, <4>1, Zenon
    <3>8. \A q \in Process : ~Saving(q)
      BY <3>5, <3>7 DEF Others, Saving
    <3>1. /\ where = "readImage" /\ UNCHANGED <<snapshot, metadata, image>>
          /\ MetadataMatches(p) /\ \A q \in Process : ~Saving(q)
      BY <3>5, <3>6, <3>8
    <3>2. \A q \in Process : ~Saving(q)'
      BY <1>3, <3>1 DEF Saving
    <3>3. MetadataMatches(p)'
      BY <1>1, <3>1 DEF MetadataMatches
    <3>4. QED
      BY <1>1, <1>3, <3>1, <3>2, <3>3 DEF ImageAndMetadata, NobodySaves, MetadataMatches, Saving
  <2>2. CASE ReadImage(p)
    <3>1. /\ where = "prepare" /\ pc[p] = "readImage" /\ UNCHANGED <<snapshot, metadata>>
          /\ image' = [image EXCEPT ![p] = snapshot]
      <4>1. /\ pc[p] = "readImage" /\ UNCHANGED <<snapshot, metadata>>
            /\ image' = [image EXCEPT ![p] = snapshot] /\ pc' = [pc EXCEPT ![p] = "prepare"]
        BY <2>2 DEF ReadImage
      <4>2. where = "prepare"
        BY <1>3, <4>1 DEF ImageInv, IInv, TypeOK
      <4>3. QED
        BY <4>1, <4>2
    <3>2. NobodySaves /\ MetadataMatches(p)
      BY <3>1 DEF ImageAndMetadata
    <3>3. snapshot = ImageOf(job[p].fp)
      BY <3>2 DEF ImageAndMetadata, MetadataMatches
    <3>4. image'[p] = ImageOf(job[p].fp)
      BY <3>1, <3>3 DEF ImageInv
    <3>5. NobodySaves'
      BY <1>3, <3>1, <3>2 DEF NobodySaves, Saving
    <3>6. QED
      BY <1>1, <1>3, <1>5, <3>1, <3>2, <3>4, <3>5
         DEF ImageAndMetadata, NobodySaves, MetadataMatches, Saving
  <2>3. CASE ImageCut(p)
    <3>1. /\ where = "imageWrite" /\ UNCHANGED <<metadata, image>>
          /\ \A q \in Process \ {p} : ~Saving(q) /\ pc[q] # "readImage"
      <4>1. /\ UNCHANGED <<metadata, image>> /\ pc' = [pc EXCEPT ![p] = "imageWrite"]
            /\ mixed' = (mixed \/ \E q \in Others(p) : Saving(q) \/ pc[q] = "readImage")
        BY <2>3 DEF ImageCut
      <4>2. where = "imageWrite"
        BY <1>3, <4>1 DEF ImageInv, IInv, TypeOK
      <4>3. ~\E q \in Others(p) : Saving(q) \/ pc[q] = "readImage"
        BY <1>7, <4>1, Zenon
      <4>4. QED
        BY <4>1, <4>2, <4>3 DEF Others
    <3>2. QED
      BY <1>1, <1>3, <3>1 DEF ImageAndMetadata, NobodySaves, Saving
  <2>4. CASE ImageWrite(p) \/ MetaCut(p) \/ MetaWrite(p)
    <3>1. Saving(p) /\ UNCHANGED image
      BY <2>4 DEF ImageWrite, MetaCut, MetaWrite, Saving
    <3>2. \A q \in Process \ {p} : ~Saving(q) /\ pc[q] # "readImage"
      BY <3>1 DEF ImageAndMetadata, NobodySaves
    <3>3. \A q \in Process \ {p} : ~Saving(q)' /\ pc'[q] # "readImage"
      BY <1>3, <3>2 DEF Saving
    <3>4. \/ where = "metaCut" /\ snapshot' = ImageOf(job[p].fp)
          \/ pc[p] = "metaCut" /\ where = "metaWrite" /\ UNCHANGED snapshot
          \/ /\ pc[p] = "metaWrite" /\ where = "export" /\ UNCHANGED snapshot
             /\ metadata' = ImageOf(job[p].fp)
      <4>1. \/ pc' = [pc EXCEPT ![p] = "metaCut"] /\ snapshot' = ImageOf(job[p].fp)
            \/ /\ pc[p] = "metaCut" /\ pc' = [pc EXCEPT ![p] = "metaWrite"]
               /\ UNCHANGED snapshot
            \/ /\ pc[p] = "metaWrite" /\ pc' = [pc EXCEPT ![p] = "export"]
               /\ UNCHANGED snapshot /\ metadata' = ImageOf(job[p].fp)
        BY <2>4 DEF ImageWrite, MetaCut, MetaWrite, ImageOf
      <4>2. QED
        BY <1>3, <4>1 DEF ImageInv, IInv, TypeOK
    <3>5. snapshot' = ImageOf(job[p].fp)
      BY <3>4 DEF ImageAndMetadata
    <3>6. NobodySaves' => metadata' = ImageOf(job[p].fp)
      BY <1>3, <3>4 DEF NobodySaves, Saving
    <3>7. ImageOf(job[p].fp).fp = job[p].fp
      BY DEF ImageOf
    <3>8. \A q \in Process : pc'[q] # "readImage"
      BY <1>3, <3>3, <3>4
    <3>9. \A q \in Process : pc'[q] \in {"metaCut", "metaWrite"} => q = p
      BY <3>3 DEF Saving
    <3>10. QED
      BY <1>1, <3>1, <3>3, <3>5, <3>6, <3>7, <3>8, <3>9 DEF ImageAndMetadata
  <2>5. CASE MetaFails(p)
    BY <2>5 DEF MetaFails
  <2>6. QED
    BY <2>1, <2>2, <2>3, <2>4, <2>5
<1>8. ~mixed' => ~mixed
  <2>1. CASE Validate(p)
    <3>1. mixed' = (mixed \/ \E q \in Others(p) : Saving(q))
      BY <2>1 DEF Validate
    <3>2. QED
      BY <3>1, Zenon
  <2>2. CASE ImageCut(p)
    <3>1. mixed' = (mixed \/ \E q \in Others(p) : Saving(q) \/ pc[q] = "readImage")
      BY <2>2 DEF ImageCut
    <3>2. QED
      BY <3>1, Zenon
  <2>3. CASE MetaFails(p)
    BY <2>3 DEF MetaFails
  <2>4. CASE ReadImage(p) \/ ImageWrite(p) \/ MetaCut(p) \/ MetaWrite(p)
    BY <2>4 DEF ReadImage, ImageWrite, MetaCut, MetaWrite
  <2>5. QED
    BY <2>1, <2>2, <2>3, <2>4
<1>9. QED
  BY <1>5, <1>6, <1>7, <1>8 DEF ImageInv

LEMMA ImageInvKept == ImageInv /\ [Next]_vars => ImageInv'
<1> SUFFICES ASSUME ImageInv, [Next]_vars
             PROVE  ImageInv'
  OBVIOUS
<1>1. IInv'
  BY NextKeepsIInv DEF ImageInv
<1>2. ASSUME NEW p \in Process, Step(p)
      PROVE  ImageInv'
  BY <1>1, <1>2, ElsewhereStep, ImageStep DEF Step
<1>3. CASE DeleteByHand \/ UNCHANGED vars
  <2>1. UNCHANGED <<snapshot, metadata, pc, job, image, mixed>>
    BY <1>3 DEF DeleteByHand, vars, files, guest, history
  <2>2. ImageAndMetadata' <=> ImageAndMetadata
    BY <2>1 DEF ImageAndMetadata, NobodySaves, Saving, MetadataMatches
  <2>3. mixed' <=> mixed
    BY <2>1
  <2>4. image' = image /\ pc' = pc
    BY <2>1
  <2>5. QED
    BY <1>1, <2>2, <2>3, <2>4 DEF ImageInv
<1>4. QED
  BY <1>2, <1>3 DEF Next

(* A guest boots from a whole image of its own distribution unless a save  *)
(* was cut short, failed at the metadata or overlapped.                    *)
THEOREM ImagesMatch == Spec => []ImagesMatchUnlessMixed
<1>1. Init => ImageInv
  <2>1. ASSUME Init
        PROVE  IInv
    BY <2>1, Initially
  <2>2. ASSUME Init
        PROVE  /\ image = [p \in Process |-> image[p]]
               /\ \A p \in Process : image[p] = NoFile /\ pc[p] = "idle"
               /\ metadata = NoFile
    BY <2>2 DEF Init
  <2>3. ASSUME Init
        PROVE  ImageAndMetadata
    BY <2>2, <2>3 DEF ImageAndMetadata, NobodySaves, Saving, NoFile
  <2>4. QED
    BY <2>1, <2>2, <2>3 DEF ImageInv
<1>2. ImageInv => ImagesMatchUnlessMixed
  BY DEF ImageInv, ImageAndMetadata, ImageOf, ImagesMatchUnlessMixed
<1>3. QED
  BY <1>1, <1>2, ImageInvKept, PTL DEF Spec

-----------------------------------------------------------------------------
(* The catalog: the blob cache and its index                               *)

File == [blob : Blob, state : {"whole", "cut"} \cup Process]
CacheType == cache \in Seq(File)

Indexing(p) == pc[p] \in IndexSteps
Storing(p) == pc[p] \in {"store", "storing", "enforce"}

Alone == \A p, q \in Process : InCatalog(p) /\ InCatalog(q) => p = q

(* Unless something was cut short or overlapped, the only file that is not *)
(* whole is being written, the index is torn exactly while it is being     *)
(* rewritten, what is to be written back is on disk, and what is written   *)
(* is so until the next write-back is due.                                 *)
FilesSound ==
  \A f \in Elements(cache) :
    f.state = "whole" \/ \E p \in Process : f.state = p /\ pc[p] = "storing"
IndexParses == index.state = "torn" <=> \E p \in Process : pc[p] = "indexWrite"
WillBeSound ==
  \A p \in Process : pc[p] \in {"indexCut", "indexWrite"} => held[p] \subseteq Sound
IndexSound == (\A p \in Process : ~Indexing(p)) => index.entries \subseteq Sound
WithinLimit == (\A p \in Process : ~Storing(p)) => Len(cache) <= Limit

Tidy == Alone /\ FilesSound /\ IndexParses /\ WillBeSound /\ IndexSound /\ WithinLimit

CatalogInv == IInv /\ CacheType /\ (~disturbed => Tidy)

(* The same, said of the only process that may be in the catalog.          *)
Only(p) == \A q \in Process : q # p => ~InCatalog(q)
TidyFor(p) ==
  /\ \A f \in Elements(cache) : f.state = "whole" \/ (f.state = p /\ pc[p] = "storing")
  /\ index.state = "torn" <=> pc[p] = "indexWrite"
  /\ pc[p] \in {"indexCut", "indexWrite"} => held[p] \subseteq Sound
  /\ ~Indexing(p) => index.entries \subseteq Sound
  /\ ~Storing(p) => Len(cache) <= Limit

LEMMA TidyHere ==
  ASSUME Tidy, NEW p \in Process, Only(p)
  PROVE  TidyFor(p)
<1>1. \A q \in Process : q # p => pc[q] # "storing" /\ pc[q] # "indexWrite"
                                  /\ ~Indexing(q) /\ ~Storing(q)
  BY DEF Only, InCatalog, Indexing, IndexSteps, Storing
<1>2. \A f \in Elements(cache) : f.state = "whole" \/ (f.state = p /\ pc[p] = "storing")
  BY <1>1 DEF Tidy, FilesSound
<1>3. index.state = "torn" <=> pc[p] = "indexWrite"
  BY <1>1 DEF Tidy, IndexParses
<1>4. pc[p] \in {"indexCut", "indexWrite"} => held[p] \subseteq Sound
  BY DEF Tidy, WillBeSound
<1>5. ~Indexing(p) => index.entries \subseteq Sound
  BY <1>1 DEF Tidy, IndexSound
<1>6. ~Storing(p) => Len(cache) <= Limit
  BY <1>1 DEF Tidy, WithinLimit
<1>7. QED
  BY <1>2, <1>3, <1>4, <1>5, <1>6 DEF TidyFor

LEMMA TidyEverywhere ==
  ASSUME NEW p \in Process, Only(p)', TidyFor(p)'
  PROVE  Tidy'
<1>1. \A q \in Process : q # p => pc'[q] # "storing" /\ pc'[q] # "indexWrite"
                                  /\ pc'[q] # "indexCut" /\ ~InCatalog(q)'
  BY DEF Only, InCatalog
<1>2. Alone'
  BY <1>1 DEF Alone
<1>3. FilesSound'
  BY DEF TidyFor, FilesSound
<1>4. IndexParses'
  BY <1>1 DEF TidyFor, IndexParses
<1>5. WillBeSound'
  BY <1>1 DEF TidyFor, WillBeSound
<1>6. IndexSound' /\ WithinLimit'
  BY DEF TidyFor, IndexSound, WithinLimit
<1>7. QED
  BY <1>2, <1>3, <1>4, <1>5, <1>6 DEF Tidy

(* What the operations on the cache leave.                                 *)
LEMMA EnforceLeaves ==
  ASSUME CacheType, Enforce
  PROVE  CacheType' /\ Elements(cache') \subseteq Elements(cache) /\ Len(cache') <= Limit
<1>1. PICK n \in 0..Len(cache) :
        /\ Len(cache) - n <= Limit
        /\ cache' = SubSeq(cache, n + 1, Len(cache))
  BY DEF Enforce
<1>2. /\ cache' \in Seq(File) /\ Len(cache') = Len(cache) - n
      /\ Elements(cache') \subseteq Elements(cache)
  BY <1>1, DropFacts DEF CacheType
<1>3. QED
  BY <1>1, <1>2 DEF CacheType

LEMMA OtherFilesLeaves ==
  ASSUME CacheType, NEW b
  PROVE  /\ OtherFiles(b) \in Seq(File)
         /\ Elements(OtherFiles(b)) = {f \in Elements(cache) : f.blob # b}
<1> DEFINE T == {f \in Elements(cache) : f.blob # b}
<1>1. OtherFiles(b) = Retained(cache, T)
  BY DEF OtherFiles
<1>2. Retained(cache, T) \in Seq(File) /\ Elements(Retained(cache, T)) = Elements(cache) \cap T
  BY RetainedFacts DEF CacheType
<1>3. QED
  BY <1>1, <1>2

LEMMA WrittenLeaves ==
  ASSUME CacheType, NEW p \in Process, NEW state \in {"whole", "cut"}, Written(p, state)
  PROVE  /\ CacheType' /\ Len(cache') = Len(cache)
         /\ \A i \in 1..Len(cache) :
              cache'[i] = IF cache[i].state = p THEN [cache[i] EXCEPT !.state = state]
                                                ELSE cache[i]
<1>1. Len(cache) \in Nat /\ DOMAIN cache = 1..Len(cache)
      /\ \A i \in 1..Len(cache) : cache[i] \in File
  BY DEF CacheType
<1>2. \A f \in File : [f EXCEPT !.state = state] \in File
  BY DEF File
<1>3. cache' = [i \in 1..Len(cache) |->
                  IF cache[i].state = p THEN [cache[i] EXCEPT !.state = state]
                                        ELSE cache[i]]
  BY <1>1 DEF Written
<1>4. \A i \in 1..Len(cache) : cache'[i] \in File
  BY <1>1, <1>2, <1>3
<1>5. QED
  BY <1>1, <1>3, <1>4 DEF CacheType

LEMMA Undisturbed ==
  ASSUME NEW p \in Process, EnterCatalog(p), ~disturbed'
  PROVE  ~disturbed /\ Only(p)
<1>1. disturbed' = (disturbed \/ \E q \in Others(p) : InCatalog(q))
  BY DEF EnterCatalog
<1>2. ~disturbed /\ ~\E q \in Others(p) : InCatalog(q)
  BY <1>1, Zenon
<1>3. QED
  BY <1>2 DEF Only, Others

LEMMA StaysAlone ==
  ASSUME IInv, NEW p \in Process, NEW where, Goto(p, where)
  PROVE  /\ pc'[p] = where
         /\ \A q \in Process : q # p => pc'[q] = pc[q] /\ (InCatalog(q)' <=> InCatalog(q))
         /\ Only(p)' <=> Only(p)
<1>1. pc'[p] = where /\ \A q \in Process : q # p => pc'[q] = pc[q]
  BY DEF Goto, IInv, TypeOK
<1>2. QED
  BY <1>1 DEF InCatalog, Only

(* A process that stays out of the catalog.                                *)
LEMMA OutsideKeeps ==
  ASSUME IInv, IInv', CatalogInv, NEW p \in Process, NEW where, Goto(p, where),
         ~disturbed' => ~disturbed /\ ~InCatalog(p),
         ~InCatalog(p)', UNCHANGED <<cache, index>>,
         \A q \in Process : q # p => held'[q] = held[q]
  PROVE  CatalogInv'
<1>1. CacheType'
  BY DEF CatalogInv, CacheType
<1>2. ASSUME ~disturbed'
      PROVE  Tidy'
  <2>1. Tidy /\ ~InCatalog(p)
    BY <1>2 DEF CatalogInv
  <2>2. pc'[p] = where /\ \A q \in Process : q # p => pc'[q] = pc[q]
    BY StaysAlone
  <2>3. \A q \in Process : InCatalog(q)' <=> InCatalog(q)
    BY <2>1, <2>2 DEF InCatalog
  <2>4. /\ \A q \in Process : pc'[q] = "storing" <=> pc[q] = "storing"
        /\ \A q \in Process : pc'[q] = "indexWrite" <=> pc[q] = "indexWrite"
        /\ \A q \in Process : Indexing(q)' <=> Indexing(q)
        /\ \A q \in Process : Storing(q)' <=> Storing(q)
    BY <2>1, <2>2 DEF InCatalog, Indexing, IndexSteps, Storing
  <2>5. Sound' = Sound
    BY DEF Sound
  <2>6. Alone'
    BY <2>1, <2>3 DEF Tidy, Alone
  <2>7. FilesSound' /\ IndexParses'
    BY <2>1, <2>4 DEF Tidy, FilesSound, IndexParses
  <2>8. WillBeSound'
    <3>1. pc'[p] \notin {"indexCut", "indexWrite"}
      BY DEF InCatalog
    <3>2. QED
      BY <2>1, <2>2, <2>5, <3>1 DEF Tidy, WillBeSound
  <2>9. IndexSound' /\ WithinLimit'
    BY <2>1, <2>4, <2>5 DEF Tidy, IndexSound, WithinLimit
  <2>10. QED
    BY <2>6, <2>7, <2>8, <2>9 DEF Tidy
<1>3. QED
  BY <1>1, <1>2 DEF CatalogInv

(* A process that is, or will be, the only one in the catalog.             *)
LEMMA InsideKeeps ==
  ASSUME IInv, IInv', CatalogInv, CacheType', NEW p \in Process, NEW where,
         Goto(p, where), ~disturbed' => ~disturbed /\ Only(p),
         ~disturbed' /\ TidyFor(p) => TidyFor(p)'
  PROVE  CatalogInv'
<1>1. ASSUME ~disturbed'
      PROVE  Tidy'
  <2>1. Tidy /\ Only(p)
    BY <1>1 DEF CatalogInv
  <2>2. TidyFor(p)'
    BY <1>1, <2>1, TidyHere
  <2>3. Only(p)'
    BY <2>1, StaysAlone
  <2>4. QED
    BY <2>2, <2>3, TidyEverywhere
<1>2. QED
  BY <1>1 DEF CatalogInv

LEMMA AloneInside ==
  ASSUME CatalogInv, NEW p \in Process, InCatalog(p), ~disturbed
  PROVE  Only(p)
<1>1. Alone
  BY DEF CatalogInv, Tidy
<1>2. QED
  BY <1>1 DEF Alone, Only

Catalog ==
  {"store", "storing", "enforce", "indexRead", "indexCut", "indexWrite",
   "hydrateLoad", "hydrateBlobs", "sidecarCut", "sidecarWrite"}

LEMMA OutsideStep ==
  ASSUME CatalogInv, IInv', NEW p \in Process,
         \/ Start(p) \/ Validate(p) \/ RefuseSnapshot(p) \/ ReadImage(p) \/ Prepare(p)
         \/ CommandFails(p) \/ RestoreSidecar(p) \/ RestoreBlobs(p) \/ NothingToHydrate(p)
         \/ LoadPackages(p) \/ ImageCut(p) \/ CollectFails(p) \/ ImageWrite(p)
         \/ MetaCut(p) \/ MetaWrite(p) \/ MetaFails(p) \/ ExportNothing(p) \/ Run(p)
  PROVE  CatalogInv'
<1> USE DEF Start, Validate, RefuseSnapshot, ReadImage, Prepare, CommandFails,
            RestoreSidecar, RestoreBlobs, NothingToHydrate, LoadPackages, ImageCut,
            CollectFails, ImageWrite, MetaCut, MetaWrite, MetaFails, ExportNothing, Run, Exit
<1>1. IInv
  BY DEF CatalogInv
<1>2. UNCHANGED <<cache, index, disturbed>> /\ pc[p] \notin Catalog
  BY DEF files, history, Catalog
<1>3. PICK where : Goto(p, where) /\ where \notin Catalog
  BY DEF Catalog
<1>4. \A q \in Process : q # p => held'[q] = held[q]
  BY <1>1 DEF scratch, IInv, TypeOK, HandsType
<1>5. pc'[p] = where
  BY <1>1, <1>3, StaysAlone
<1>6. ~InCatalog(p) /\ ~InCatalog(p)'
  BY <1>2, <1>3, <1>5 DEF InCatalog, Catalog
<1>7. QED
  BY <1>1, <1>2, <1>3, <1>4, <1>6, OutsideKeeps

LEMMA KillStep ==
  ASSUME CatalogInv, IInv', NEW p \in Process, Kill(p)
  PROVE  CatalogInv'
<1>1. IInv /\ CacheType /\ Goto(p, "idle")
  BY DEF CatalogInv, Kill, Exit
<1>2. /\ CacheType' /\ Len(cache') = Len(cache)
      /\ \A i \in 1..Len(cache) :
           cache'[i] = IF cache[i].state = p THEN [cache[i] EXCEPT !.state = "cut"]
                                             ELSE cache[i]
  <2>1. Written(p, "cut")
    BY DEF Kill
  <2>2. QED
    BY <1>1, <2>1, WrittenLeaves
<1>3. CASE disturbed'
  BY <1>2, <1>3 DEF CatalogInv
<1>4. CASE ~disturbed'
  <2>1. ~disturbed /\ ~InCatalog(p)
    <3>1. disturbed' = (disturbed \/ InCatalog(p))
      BY DEF Kill
    <3>2. QED
      BY <1>4, <3>1, Zenon
  <2>2. FilesSound
    BY <2>1 DEF CatalogInv, Tidy
  <2>3. \A i \in 1..Len(cache) : cache[i].state # p
    <3>1. \A i \in 1..Len(cache) : cache[i] \in Elements(cache)
      BY DEF Elements
    <3>2. pc[p] # "storing" /\ p # "whole"
      BY <2>1, OverlayAssumption DEF InCatalog
    <3>3. QED
      BY <2>2, <3>1, <3>2 DEF FilesSound
  <2>4. cache' = cache
    <3>1. Len(cache) \in Nat /\ cache \in Seq(File) /\ cache' \in Seq(File)
      BY <1>1, <1>2 DEF CacheType
    <3>2. \A i \in 1..Len(cache) : cache'[i] = cache[i]
      BY <1>2, <2>3
    <3>3. QED
      BY <1>2, <3>1, <3>2
  <2>5. ~InCatalog(p)' /\ \A q \in Process : q # p => held'[q] = held[q]
    BY <1>1, StaysAlone DEF InCatalog, Kill, Exit, IInv, TypeOK, HandsType
  <2>6. index' = index
    BY DEF Kill
  <2>7. QED
    BY <1>1, <2>1, <2>4, <2>5, <2>6, OutsideKeeps
<1>5. QED
  BY <1>3, <1>4

LEMMA CutStep ==
  ASSUME CatalogInv, IInv', (\E p \in Process : BlobFails(p)) \/ DeleteByHand
  PROVE  CatalogInv'
<1>1. disturbed' /\ CacheType
  BY DEF BlobFails, DeleteByHand, CatalogInv
<1>2. CASE \E p \in Process : BlobFails(p)
  <2>1. PICK p \in Process : Written(p, "cut")
    BY <1>2 DEF BlobFails
  <2>2. CacheType'
    BY <1>1, <2>1, WrittenLeaves
  <2>3. QED
    BY <1>1, <2>2 DEF CatalogInv
<1>3. CASE DeleteByHand
  <2>1. cache' = cache \/ \E b \in Present : cache' = OtherFiles(b)
    BY <1>3 DEF DeleteByHand
  <2>2. CacheType'
    BY <1>1, <2>1, OtherFilesLeaves DEF CacheType
  <2>3. QED
    BY <1>1, <2>2 DEF CatalogInv
<1>4. QED
  BY <1>2, <1>3

-----------------------------------------------------------------------------
(* The steps of hydrating from the catalog and of exporting to it          *)

(* Steps of the only process inside that leave cache and index alone.      *)
LEMMA PassingStep ==
  ASSUME CatalogInv, IInv', NEW p \in Process,
         \/ HydrateLoad(p) \/ HydrateBlobs(p) \/ Export(p) \/ BlobsStored(p)
         \/ SidecarCut(p) \/ SidecarWrite(p)
  PROVE  CatalogInv'
<1> USE DEF HydrateLoad, HydrateBlobs, Export, BlobsStored, SidecarCut, SidecarWrite
<1>1. IInv
  BY DEF CatalogInv
<1>2. UNCHANGED <<cache, index>>
  BY DEF files
<1>3. PICK where \in {"packages", "indexRead", "hydrateBlobs", "store", "enforce",
                      "sidecarWrite", "run"} : Goto(p, where) /\ (Storing(p) => where = "enforce")
  BY DEF Storing
<1>4. pc'[p] = where
  BY <1>1, <1>3, StaysAlone
<1>5. ASSUME ~disturbed'
      PROVE  ~disturbed /\ Only(p)
  <2>1. CASE Export(p)
    BY <1>5, <2>1, Undisturbed
  <2>2. CASE ~Export(p)
    <3>1. disturbed' = disturbed /\ InCatalog(p)
      BY <2>2 DEF history, InCatalog
    <3>2. QED
      BY <1>5, <3>1, AloneInside
  <2>3. QED
    BY <2>1, <2>2
<1>6. TidyFor(p) => TidyFor(p)'
  <2>1. Sound' = Sound /\ CacheType'
    BY <1>2 DEF Sound, CatalogInv, CacheType
  <2>2. pc[p] \notin {"storing", "indexRead", "indexCut", "indexWrite"}
    OBVIOUS
  <2>3. pc'[p] \notin {"storing", "indexCut", "indexWrite"}
    BY <1>4
  <2>4. ~Storing(p)' => ~Storing(p)
    BY <1>3, <1>4 DEF Storing
  <2>5. QED
    BY <1>2, <2>1, <2>2, <2>3, <2>4 DEF TidyFor, Indexing, IndexSteps
<1>7. CacheType'
  BY <1>2 DEF CatalogInv, CacheType
<1>8. QED
  BY <1>1, <1>3, <1>5, <1>6, <1>7, InsideKeeps

(* The cache policy removes files the index names: its write-back is due.  *)
LEMMA PolicyStep ==
  ASSUME CatalogInv, IInv', NEW p \in Process, Hydrate(p) \/ EnforceExport(p)
  PROVE  CatalogInv'
<1>1. IInv /\ CacheType
  BY DEF CatalogInv
<1>2. /\ Enforce /\ Goto(p, "indexRead") /\ index' = index
      /\ pc[p] \in {"hydrate", "enforce"}
  BY DEF Hydrate, EnforceExport
<1>3. CacheType' /\ Elements(cache') \subseteq Elements(cache) /\ Len(cache') <= Limit
  BY <1>1, <1>2, EnforceLeaves
<1>4. pc'[p] = "indexRead"
  BY <1>1, <1>2, StaysAlone
<1>5. ASSUME ~disturbed'
      PROVE  ~disturbed /\ Only(p)
  <2>1. CASE Hydrate(p)
    <3>1. EnterCatalog(p)
      BY <2>1 DEF Hydrate
    <3>2. QED
      BY <1>5, <3>1, Undisturbed
  <2>2. CASE EnforceExport(p)
    <3>1. disturbed' = disturbed /\ InCatalog(p)
      BY <2>2 DEF EnforceExport, history, InCatalog
    <3>2. QED
      BY <1>5, <3>1, AloneInside
  <2>3. QED
    BY <2>1, <2>2
<1>6. TidyFor(p) => TidyFor(p)'
  BY <1>2, <1>3, <1>4 DEF TidyFor, Indexing, IndexSteps
<1>7. QED
  BY <1>1, <1>2, <1>3, <1>5, <1>6, InsideKeeps

(* An unsound file is replaced: no sound one goes.                         *)
LEMMA StoreStep ==
  ASSUME CatalogInv, IInv', NEW p \in Process, StoreBlob(p)
  PROVE  CatalogInv'
<1> DEFINE b == Current(p)
           file == [blob |-> b, state |-> p]
<1>1. IInv /\ CacheType /\ pc[p] = "store" /\ todo[p] # {} /\ index' = index
      /\ disturbed' = disturbed
  BY DEF CatalogInv, StoreBlob, history
<1>2. b \in Blob
  BY <1>1, CurrentIsDue DEF IInv, TypeOK, HandsType
<1>3. CASE b \in Sound
  <2>1. cache' = cache /\ pc' = pc /\ held' = held
    BY <1>3 DEF StoreBlob
  <2>2. CacheType'
    BY <1>1, <2>1 DEF CacheType
  <2>3. Tidy => Tidy'
    BY <1>1, <2>1 DEF Tidy, Alone, FilesSound, IndexParses, WillBeSound, IndexSound,
       WithinLimit, InCatalog, Indexing, IndexSteps, Storing, Sound
  <2>4. QED
    BY <1>1, <2>2, <2>3 DEF CatalogInv
<1>4. CASE b \notin Sound
  <2>1. cache' = Append(OtherFiles(b), file) /\ Goto(p, "storing")
    BY <1>4 DEF StoreBlob
  <2>2. OtherFiles(b) \in Seq(File)
        /\ Elements(OtherFiles(b)) = {f \in Elements(cache) : f.blob # b}
    BY <1>1, OtherFilesLeaves
  <2>3. file \in File
    BY <1>2 DEF File
  <2>4. cache' \in Seq(File) /\ Elements(cache') = Elements(OtherFiles(b)) \cup {file}
    <3> HIDE DEF file
    <3>1. QED
      BY <2>1, <2>2, <2>3, AppendFacts
  <2>5. pc'[p] = "storing"
    BY <1>1, <2>1, StaysAlone
  <2>6. ~disturbed => Only(p)
    BY <1>1, AloneInside DEF InCatalog
  <2>7. ASSUME TidyFor(p)
        PROVE  TidyFor(p)'
    <3>1. \A f \in Elements(cache) : f.state = "whole"
      BY <1>1, <2>7 DEF TidyFor
    <3>2. \A f \in Elements(cache) : f.blob # b
      BY <1>4, <3>1 DEF Sound
    <3>3. Elements(cache') = Elements(cache) \cup {file}
      BY <2>2, <2>4, <3>2
    <3>4. Sound \subseteq Sound'
      BY <3>3 DEF Sound
    <3>5. \A f \in Elements(cache') : f.state = "whole" \/ f.state = p
      BY <3>1, <3>3
    <3>6. index.state # "torn" /\ index.entries \subseteq Sound
      BY <1>1, <2>7 DEF TidyFor, Indexing, IndexSteps
    <3>7. QED
      BY <1>1, <2>5, <3>4, <3>5, <3>6 DEF TidyFor, Storing
  <2>8. CacheType'
    BY <2>4 DEF CacheType
  <2>9. QED
    BY <1>1, <2>1, <2>6, <2>7, <2>8, InsideKeeps
<1>5. QED
  BY <1>3, <1>4

LEMMA WriteEndsStep ==
  ASSUME CatalogInv, IInv', NEW p \in Process, BlobWritten(p)
  PROVE  CatalogInv'
<1>1. /\ IInv /\ CacheType /\ pc[p] = "storing" /\ index' = index
      /\ disturbed' = disturbed /\ Goto(p, "store") /\ Written(p, "whole")
  BY DEF CatalogInv, BlobWritten, history
<1>2. /\ CacheType' /\ Len(cache') = Len(cache)
      /\ \A i \in 1..Len(cache) :
           cache'[i] = IF cache[i].state = p THEN [cache[i] EXCEPT !.state = "whole"]
                                             ELSE cache[i]
  BY <1>1, WrittenLeaves
<1>3. \A i \in 1..Len(cache) : cache[i] \in File /\ cache[i] \in Elements(cache)
  BY <1>1 DEF CacheType, Elements
<1>4. \A i \in 1..Len(cache) : cache'[i] \in Elements(cache')
  BY <1>2 DEF Elements
<1>5. \A i \in 1..Len(cache) :
        /\ cache'[i].blob = cache[i].blob
        /\ cache[i].state \in {p, "whole"} => cache'[i].state = "whole"
  BY <1>2, <1>3 DEF File
<1>6. ASSUME TidyFor(p)
      PROVE  TidyFor(p)'
  <2>1. \A f \in Elements(cache') : f.state = "whole"
    <3>1. \A i \in 1..Len(cache) : cache[i].state \in {p, "whole"}
      BY <1>3, <1>6 DEF TidyFor
    <3>2. \A i \in 1..Len(cache) : cache'[i].state = "whole"
      BY <1>5, <3>1
    <3>3. QED
      BY <1>2, <3>2 DEF Elements
  <2>2. Sound \subseteq Sound'
    <3> SUFFICES ASSUME NEW f \in Elements(cache), f.state = "whole"
                 PROVE  f.blob \in Sound'
      BY DEF Sound
    <3>1. PICK i \in 1..Len(cache) : f = cache[i]
      BY DEF Elements
    <3>2. cache'[i] \in Elements(cache') /\ cache'[i].state = "whole"
          /\ cache'[i].blob = f.blob
      BY <1>4, <1>5, <3>1
    <3>3. QED
      BY <3>2 DEF Sound
  <2>3. index.state # "torn" /\ index.entries \subseteq Sound
    BY <1>1, <1>6 DEF TidyFor, Indexing, IndexSteps
  <2>4. pc'[p] = "store"
    BY <1>1, StaysAlone
  <2>5. QED
    BY <1>1, <2>1, <2>2, <2>3, <2>4 DEF TidyFor, Storing
<1>7. ~disturbed => Only(p)
  BY <1>1, AloneInside DEF InCatalog
<1>8. QED
  BY <1>1, <1>2, <1>6, <1>7, InsideKeeps

(* What the write-back will hold is on disk; and if none is needed, the    *)
(* index already names just that.                                          *)
LEMMA ReadBackStep ==
  ASSUME CatalogInv, IInv', NEW p \in Process, IndexRead(p)
  PROVE  CatalogInv'
<1> DEFINE base == OwnEntries(p)
           merged == Merge(base, stored[p])
           kept == KeptEntries(merged)
           changed == LoadedIndex.fp # job[p].fp \/ ~(stored[p] \subseteq base) \/ kept # merged
<1>1. /\ IInv /\ CacheType /\ pc[p] = "indexRead" /\ UNCHANGED <<cache, index, disturbed>>
      /\ IF index.state # "torn" /\ (changed \/ index.state = "absent")
         THEN held' = [held EXCEPT ![p] = kept] /\ Goto(p, "indexCut")
         ELSE UNCHANGED held /\ Goto(p, after[p])
  BY DEF CatalogInv, IndexRead, files, history
<1>2. after[p] \in {"hydrateLoad", "packages", "sidecarCut"}
  BY <1>1 DEF IInv, Returns, IndexSteps
<1>3. PICK where \in {"indexCut", "hydrateLoad", "packages", "sidecarCut"} : Goto(p, where)
  BY <1>1, <1>2
<1>4. pc'[p] = where
  BY <1>1, <1>3, StaysAlone
<1>5. ASSUME TidyFor(p)
      PROVE  TidyFor(p)'
  <2>1. /\ \A f \in Elements(cache) : f.state = "whole"
        /\ index.state # "torn" /\ Len(cache) <= Limit
    BY <1>1, <1>5 DEF TidyFor, Storing
  <2>2. Present = Sound /\ Sound' = Sound
    BY <1>1, <2>1 DEF Present, Sound
  <2>3. kept \subseteq Sound
    BY <2>2 DEF KeptEntries
  <2>4. where = "indexCut" => held'[p] \subseteq Sound
    <3>1. CASE changed \/ index.state = "absent"
      <4>1. held' = [held EXCEPT ![p] = kept]
        BY <1>1, <2>1, <3>1
      <4>2. held'[p] = kept
        BY <1>1, <4>1 DEF IInv, TypeOK, HandsType
      <4>3. QED
        BY <2>3, <4>2
    <3>2. CASE ~(changed \/ index.state = "absent")
      <4>1. Goto(p, after[p])
        BY <1>1, <3>2
      <4>2. pc'[p] = after[p]
        BY <1>1, <4>1, StaysAlone
      <4>3. QED
        BY <1>2, <1>4, <4>2
    <3>3. QED
      BY <3>1, <3>2
  <2>5. where # "indexCut" => index.entries \subseteq Sound
    <3> SUFFICES ASSUME where # "indexCut"
                 PROVE  index.entries \subseteq Sound
      OBVIOUS
    <3>1. ~changed /\ index.state # "absent"
      <4>1. ASSUME changed \/ index.state = "absent"
            PROVE  FALSE
        <5>1. Goto(p, "indexCut")
          BY <1>1, <2>1, <4>1
        <5>2. QED
          BY <1>1, <1>4, <5>1, StaysAlone
      <4>2. QED
        BY <4>1
    <3>2. base = index.entries
      BY <3>1 DEF LoadedIndex, OwnEntries
    <3>3. stored[p] \subseteq index.entries /\ merged \subseteq Sound
      BY <2>3, <3>1, <3>2
    <3>4. ASSUME NEW e \in index.entries
          PROVE  e \in merged
      <4>1. CASE e.package \notin Packages(stored[p])
        BY <3>2, <4>1 DEF Merge
      <4>2. CASE e.package \in Packages(stored[p])
        <5>1. PICK s \in stored[p] : s.package = e.package
          BY <4>2 DEF Packages
        <5>2. e.made = index.fp /\ s.made = index.fp
          BY <1>1, <3>3 DEF IInv, FilesAreMarked
        <5>3. e \in Blob /\ s \in Blob
          BY <1>1, <3>3 DEF IInv, TypeOK, IndexType
        <5>4. e = s
          BY <5>1, <5>2, <5>3 DEF Blob
        <5>5. QED
          BY <5>4 DEF Merge
      <4>3. QED
        BY <4>1, <4>2
    <3>5. QED
      BY <3>3, <3>4
  <2>6. QED
    <3> HIDE DEF kept, changed
    <3>1. pc'[p] \notin {"storing", "indexRead", "indexWrite"}
      BY <1>4
    <3>2. Indexing(p)' <=> where = "indexCut"
      BY <1>4 DEF Indexing, IndexSteps
    <3>3. cache' = cache /\ index' = index
      BY <1>1
    <3>4. pc'[p] \in {"indexCut", "indexWrite"} => held'[p] \subseteq Sound'
      BY <1>4, <2>2, <2>4
    <3>5. ~Indexing(p)' => index'.entries \subseteq Sound'
      BY <2>2, <2>5, <3>2, <3>3
    <3>6. QED
      BY <2>1, <3>1, <3>3, <3>4, <3>5 DEF TidyFor
<1>6. CacheType' /\ (~disturbed => Only(p))
  BY <1>1, AloneInside DEF CacheType, InCatalog
<1>7. QED
  BY <1>1, <1>3, <1>5, <1>6, InsideKeeps

LEMMA WriteBackStep ==
  ASSUME CatalogInv, IInv', NEW p \in Process, IndexCut(p) \/ IndexWrite(p)
  PROVE  CatalogInv'
<1>1. IInv /\ cache' = cache /\ disturbed' = disturbed /\ InCatalog(p)
  BY DEF CatalogInv, IndexCut, IndexWrite, history, InCatalog
<1>2. CacheType' /\ Sound' = Sound
  BY <1>1 DEF CatalogInv, CacheType, Sound
<1>3. ~disturbed => Only(p)
  BY <1>1, AloneInside
<1>4. CASE IndexCut(p)
  <2>1. /\ pc[p] = "indexCut" /\ index' = [NoIndex EXCEPT !.state = "torn"]
        /\ Goto(p, "indexWrite") /\ held' = held
    BY <1>4 DEF IndexCut, scratch
  <2>2. pc'[p] = "indexWrite"
    BY <1>1, <2>1, StaysAlone
  <2>3. index'.state = "torn"
    BY <2>1 DEF NoIndex
  <2>4. TidyFor(p) => TidyFor(p)'
    BY <1>1, <1>2, <2>1, <2>2, <2>3 DEF TidyFor, Indexing, IndexSteps, Storing
  <2>5. QED
    BY <1>1, <1>2, <1>3, <2>1, <2>4, InsideKeeps
<1>5. CASE IndexWrite(p)
  <2>1. /\ pc[p] = "indexWrite" /\ Goto(p, after[p])
        /\ \/ index' = [state |-> "whole", fp |-> job[p].fp, entries |-> held[p]]
           \/ index.state = "whole"
    BY <1>5 DEF IndexWrite
  <2>2. after[p] \in {"hydrateLoad", "packages", "sidecarCut"}
    BY <1>1, <2>1 DEF IInv, Returns, IndexSteps
  <2>3. pc'[p] \in {"hydrateLoad", "packages", "sidecarCut"}
    BY <1>1, <2>1, <2>2, StaysAlone
  <2>4. ASSUME TidyFor(p)
        PROVE  TidyFor(p)'
    <3>1. index.state = "torn" /\ held[p] \subseteq Sound /\ Len(cache) <= Limit
      BY <2>1, <2>4 DEF TidyFor, Storing
    <3>2. index'.state = "whole" /\ index'.entries = held[p]
      BY <2>1, <3>1
    <3>3. \A f \in Elements(cache) : f.state = "whole"
      BY <2>1, <2>4 DEF TidyFor
    <3>4. QED
      BY <1>1, <1>2, <2>3, <3>1, <3>2, <3>3 DEF TidyFor
  <2>5. QED
    BY <1>1, <1>2, <1>3, <2>1, <2>4, InsideKeeps
<1>6. QED
  BY <1>4, <1>5

-----------------------------------------------------------------------------
LEMMA CatalogInvKept == CatalogInv /\ [Next]_vars => CatalogInv'
<1> SUFFICES ASSUME CatalogInv, [Next]_vars
             PROVE  CatalogInv'
  OBVIOUS
<1>1. IInv'
  BY NextKeepsIInv DEF CatalogInv
<1>2. ASSUME NEW p \in Process, Step(p)
      PROVE  CatalogInv'
  BY <1>1, <1>2, OutsideStep, KillStep, CutStep, PassingStep, PolicyStep, StoreStep,
     WriteEndsStep, ReadBackStep, WriteBackStep DEF Step
<1>3. CASE UNCHANGED vars
  <2>1. UNCHANGED <<cache, index, pc, held, disturbed>>
    BY <1>3 DEF vars, files, scratch, history
  <2>2. CacheType' /\ (Tidy => Tidy')
    BY <2>1 DEF CatalogInv, CacheType, Tidy, Alone, FilesSound, IndexParses, WillBeSound,
       IndexSound, WithinLimit, InCatalog, Indexing, IndexSteps, Storing, Sound
  <2>3. QED
    BY <1>1, <2>1, <2>2 DEF CatalogInv
<1>4. CASE DeleteByHand
  BY <1>1, <1>4, CutStep
<1>5. QED
  BY <1>2, <1>3, <1>4 DEF Next

(* Exports and hydrations that do not overlap and are not cut short leave  *)
(* an index that parses and names no missing or unsound blob, and a cache  *)
(* within its limit.                                                       *)
THEOREM CatalogStaysSound == Spec => []CatalogSound
<1>1. Init => CatalogInv
  <2> SUFFICES ASSUME Init
               PROVE  CatalogInv
    OBVIOUS
  <2>1. IInv
    BY Initially
  <2>2. cache = <<>> /\ index = NoIndex /\ \A p \in Process : pc[p] = "idle"
    BY DEF Init
  <2>3. CacheType /\ Elements(cache) = {} /\ Len(cache) <= Limit
    BY <2>2, OverlayAssumption DEF CacheType, Elements
  <2>4. index.state # "torn" /\ index.entries = {}
    BY <2>2 DEF NoIndex
  <2>5. Tidy
    BY <2>2, <2>3, <2>4 DEF Tidy, Alone, FilesSound, IndexParses, WillBeSound, IndexSound,
       WithinLimit, InCatalog
  <2>6. QED
    BY <2>1, <2>3, <2>5 DEF CatalogInv
<1>2. CatalogInv => CatalogSound
  <2> SUFFICES ASSUME CatalogInv, Quiet
               PROVE  /\ index.state # "torn" /\ index.entries \subseteq Sound
                      /\ Len(cache) <= Limit
    BY DEF CatalogSound
  <2>1. Tidy /\ \A p \in Process : ~InCatalog(p)
    BY DEF CatalogInv, Quiet
  <2>2. \A p \in Process : ~Indexing(p) /\ ~Storing(p) /\ pc[p] # "indexWrite"
    BY <2>1 DEF InCatalog, Indexing, IndexSteps, Storing
  <2>3. QED
    BY <2>1, <2>2 DEF Tidy, IndexParses, IndexSound, WithinLimit
<1>3. QED
  BY <1>1, <1>2, CatalogInvKept, PTL DEF Spec
=============================================================================
