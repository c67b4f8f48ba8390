------------------------------- MODULE Overlay -------------------------------
(***************************************************************************)
(* The files that runs of the CLI share: the memory snapshot with its      *)
(* metadata, the overlay sidecar beside it, the catalog index and the blob *)
(* cache (crates/aardvark-cli/src/main.rs, overlay.rs and overlay/).       *)
(*                                                                         *)
(* A process is one `aardvark` command after the other.  Nothing is        *)
(* locked, fs::write truncates and then writes, and a process may be       *)
(* killed between any two steps.  Contents are abstract: a blob is the     *)
(* package it holds and the distribution it was installed from, and its    *)
(* file name, a digest, identifies both.                                   *)
(***************************************************************************)
EXTENDS Naturals, Subsequences

CONSTANTS
  Process, Package, Fingerprint,
  NoFingerprint,   \* an index that names no distribution
  Locked,          \* the packages the lockfile names
  Depends,         \* the lockfile: every package a package needs, transitively
  Installable,     \* those of a type the guest's loader knows, with a file name
  Hydratable,      \* those of type "package" or "shared_library"
  Requests,        \* the command lines: [packages, manifest, load, save]
  Limit,           \* AARDVARK_OVERLAY_CACHE_MAX_BYTES, in blobs
  Expires,         \* is AARDVARK_OVERLAY_CACHE_MAX_AGE set?
  MaxStarts,       \* bound: commands started
  MaxFaults        \* bound: kills, failing operations and deletions by hand

ASSUME LockfileAssumption ==
  /\ Locked \subseteq Package
  /\ Depends \in [Package -> SUBSET Package]
  /\ \A q \in Package : \A d \in Depends[q] : Depends[d] \subseteq Depends[q]
  /\ \A q \in Package \ Locked : Depends[q] = {}
  /\ Installable \subseteq Locked /\ Hydratable \subseteq Locked

ASSUME OverlayAssumption ==
  /\ {"whole", "cut"} \cap Process = {}
  /\ NoFingerprint \notin Fingerprint
  /\ Requests \subseteq [packages : SUBSET Package, manifest : SUBSET Package,
                         load : BOOLEAN, save : BOOLEAN]
  /\ Limit \in Nat /\ Expires \in BOOLEAN
  /\ MaxStarts \in Nat /\ MaxFaults \in Nat

Blob == [package : Package, made : Fingerprint]
State == {"absent", "torn", "whole"}

VARIABLES
  root,        \* does the cache directory exist?
  cache,       \* its blob files, oldest first: [blob, state], state "whole",
               \* "cut" or the process that is writing it
  index,       \* index.json: [state, fp, entries]
  sidecar,     \* <snapshot>.overlay.json: [state, fp, named, unnamed]
  snapshot,    \* the memory image: [state, fp]
  metadata,    \* <snapshot>.aardvark.json: [state, fp]
  pc,
  job,         \* the command line and the active fingerprint
  installed,   \* the guest's package overlay
  imported,    \* the blobs of the last overlay import
  overlaid,    \* overlay_restored or overlay_hydrated
  image,       \* the snapshot bytes the engine was started from
  held,        \* what the process has read and not yet used
  todo,        \* blobs the export has not looked at
  stored,      \* digest_entries whose file exists
  after,       \* where update_overlay_index returns to
  starts, faults,
  mixed,       \* history: a snapshot save was cut, failed, or overlapped
  disturbed    \* history: the same for the catalog

files == <<root, cache, index, sidecar, snapshot, metadata>>
guest == <<installed, imported, overlaid, image>>
scratch == <<held, todo, stored, after>>
history == <<starts, faults, mixed, disturbed>>
vars == <<files, pc, job, guest, scratch, history>>

NoJob == [packages |-> {}, manifest |-> {}, load |-> FALSE, save |-> FALSE]
NoIndex == [state |-> "absent", fp |-> NoFingerprint, entries |-> {}]
NoSidecar == [state |-> "absent", fp |-> NoFingerprint, named |-> {}, unnamed |-> {}]
NoFile == [state |-> "absent", fp |-> NoFingerprint]

Init ==
  /\ root = FALSE /\ cache = <<>>
  /\ index = NoIndex /\ sidecar = NoSidecar
  /\ snapshot = NoFile /\ metadata = NoFile
  /\ pc = [p \in Process |-> "idle"]
  /\ job = [p \in Process |-> [request |-> NoJob, fp |-> NoFingerprint]]
  /\ installed = [p \in Process |-> {}]
  /\ imported = [p \in Process |-> {}]
  /\ overlaid = [p \in Process |-> FALSE]
  /\ image = [p \in Process |-> NoFile]
  /\ held = [p \in Process |-> {}]
  /\ todo = [p \in Process |-> {}]
  /\ stored = [p \in Process |-> {}]
  /\ after = [p \in Process |-> "idle"]
  /\ starts = 0 /\ faults = 0
  /\ mixed = FALSE /\ disturbed = FALSE

Packages(blobs) == {b.package : b \in blobs}
Present == {f.blob : f \in Elements(cache)}
Sound == {f.blob : f \in {g \in Elements(cache) : g.state = "whole"}}

Needed(names) == names \cup UNION {Depends[q] : q \in names}

(* resolve_lockfile_requirements and the guest's resolveRequirements: a    *)
(* name the lockfile does not have is warned about and left out.           *)
Requirements(names) == Needed(names) \cap Locked

(* --package, or the packages of the manifest when there is none.          *)
Wanted(p) ==
  LET r == job[p].request
  IN IF r.packages = {} THEN r.manifest ELSE r.packages

Goto(p, where) == pc' = [pc EXCEPT ![p] = where]

(* A failure that the run chooses; the bound is shared with kills.         *)
Fault == faults < MaxFaults /\ faults' = faults + 1

Saving(p) == pc[p] \in {"imageWrite", "metaCut", "metaWrite"}
InCatalog(p) ==
  pc[p] \in {"store", "storing", "enforce", "indexRead", "indexCut", "indexWrite",
             "hydrateLoad", "hydrateBlobs", "sidecarCut", "sidecarWrite"}
Others(p) == Process \ {p}

-----------------------------------------------------------------------------
(* Starting, with and without a snapshot                                   *)

Start(p) ==
  /\ pc[p] = "idle" /\ starts < MaxStarts
  /\ starts' = starts + 1
  /\ \E r \in Requests, fp \in Fingerprint :
       /\ job' = [job EXCEPT ![p] = [request |-> r, fp |-> fp]]
       /\ Goto(p, IF r.load THEN "validate" ELSE "prepare")
  /\ UNCHANGED <<files, guest, scratch, faults, mixed, disturbed>>

(* Every way out of main: what the process held is gone.                   *)
Exit(p) ==
  /\ Goto(p, "idle")
  /\ job' = [job EXCEPT ![p] = [request |-> NoJob, fp |-> NoFingerprint]]
  /\ installed' = [installed EXCEPT ![p] = {}]
  /\ imported' = [imported EXCEPT ![p] = {}]
  /\ overlaid' = [overlaid EXCEPT ![p] = FALSE]
  /\ image' = [image EXCEPT ![p] = NoFile]
  /\ held' = [held EXCEPT ![p] = {}]
  /\ todo' = [todo EXCEPT ![p] = {}]
  /\ stored' = [stored EXCEPT ![p] = {}]
  /\ after' = [after EXCEPT ![p] = "idle"]

(* validate_snapshot_metadata comes first, read_snapshot_bytes second.     *)
MetadataExists(p) == metadata.state = "whole"   \* Mutant: no comparison

MetadataMatches(p) == metadata = [state |-> "whole", fp |-> job[p].fp]

Validate(p) ==
  /\ pc[p] = "validate" /\ MetadataMatches(p)
  /\ Goto(p, "readImage")
  /\ mixed' = (mixed \/ \E q \in Others(p) : Saving(q))
  /\ UNCHANGED <<files, job, guest, scratch, starts, faults, disturbed>>

RefuseSnapshot(p) ==
  /\ \/ pc[p] = "validate" /\ ~MetadataMatches(p)
     \/ pc[p] = "readImage" /\ snapshot.state = "absent"
  /\ Exit(p)
  /\ UNCHANGED <<files, history>>

ReadImage(p) ==
  /\ pc[p] = "readImage" /\ snapshot.state # "absent"
  /\ image' = [image EXCEPT ![p] = snapshot]
  /\ Goto(p, "prepare")
  /\ UNCHANGED <<files, job, installed, imported, overlaid, scratch, history>>

(* What load_packages leaves: the wheels of the active distribution for    *)
(* everything required that the guest does not have yet.  A package whose  *)
(* type the loader does not know, or that has no file name, is skipped     *)
(* with a warning and counts as loaded.                                    *)
WithoutDependencies(p, names) ==   \* Mutant: only the packages named
  installed[p] \cup [package : (names \cap Installable) \ Packages(installed[p]),
                     made : {job[p].fp}]

WithPackages(p, names) ==
  installed[p] \cup
    [package : (Requirements(names) \cap Installable) \ Packages(installed[p]),
     made : {job[p].fp}]

(* prepare_session: Pyodide starts and installs the manifest's packages.   *)
Prepare(p) ==
  /\ pc[p] = "prepare"
  /\ installed' = [installed EXCEPT ![p] = WithPackages(p, job[p].request.manifest)]
  /\ Goto(p, IF job[p].request.load THEN "restore" ELSE "hydrate")
  /\ UNCHANGED <<files, job, imported, overlaid, image, scratch, history>>

(* Pyodide, or a package that is not staged, fails the command.  A cut     *)
(* image may be refused as well as accepted.                               *)
CommandFails(p) ==
  /\ pc[p] \in {"prepare", "packages"}
  /\ Fault
  /\ Exit(p)
  /\ UNCHANGED <<files, starts, mixed, disturbed>>

-----------------------------------------------------------------------------
(* Importing an overlay: the sidecar's, or one made from the catalog       *)

(* import_overlay replaces the guest's whole overlay.  The result of the   *)
(* guest's function is not looked at: one that throws has cleared the      *)
(* overlay and counts as done.                                             *)
Import(p, blobs) ==
  /\ imported' = [imported EXCEPT ![p] = blobs]
  /\ overlaid' = [overlaid EXCEPT ![p] = TRUE]
  /\ \/ installed' = [installed EXCEPT ![p] = blobs] /\ UNCHANGED faults
     \/ installed' = [installed EXCEPT ![p] = {}] /\ Fault

(* restore_snapshot_overlay: read, parse, compare the fingerprint.  A      *)
(* package without a digest makes the whole sidecar useless.               *)
SidecarUsable(p) ==
  sidecar.state = "whole" /\ sidecar.fp = job[p].fp /\ sidecar.unnamed = {}

RestoreSidecar(p) ==
  /\ pc[p] = "restore"
  /\ IF SidecarUsable(p)
     THEN /\ held' = [held EXCEPT ![p] = sidecar.named]
          /\ Goto(p, "restoreBlobs")
     ELSE UNCHANGED held /\ Goto(p, "hydrate")
  /\ UNCHANGED <<files, job, guest, todo, stored, after, history>>

(* Every blob must be there and match its digest.                          *)
CollectOverlayBlobs(named) == named \subseteq Sound

RestoreBlobs(p) ==
  /\ pc[p] = "restoreBlobs"
  /\ held' = [held EXCEPT ![p] = {}]
  /\ IF CollectOverlayBlobs(held[p])
     THEN Import(p, held[p]) /\ Goto(p, "packages")
     ELSE UNCHANGED <<imported, overlaid, installed, faults>> /\ Goto(p, "hydrate")
  /\ UNCHANGED <<files, job, image, todo, stored, after, starts, mixed, disturbed>>

(* enforce_overlay_cache_policy: expired files go, then the oldest until   *)
(* the rest fits.                                                          *)
Enforce ==
  \E n \in 0..Len(cache) :
    /\ Len(cache) - n <= Limit
    /\ ~Expires => n = 0 \/ Len(cache) - n = Limit
    /\ cache' = SubSeq(cache, n + 1, Len(cache))

EnterCatalog(p) == disturbed' = (disturbed \/ \E q \in Others(p) : InCatalog(q))

(* hydrate_overlay_from_catalog, up to the index prune.                    *)
Hydrate(p) ==
  /\ pc[p] = "hydrate" /\ Wanted(p) # {} /\ root
  /\ Enforce
  /\ EnterCatalog(p)
  /\ after' = [after EXCEPT ![p] = "hydrateLoad"]
  /\ Goto(p, "indexRead")
  /\ UNCHANGED <<root, index, sidecar, snapshot, metadata, job, guest, held, todo,
                 stored, starts, faults, mixed>>

NothingToHydrate(p) ==
  /\ pc[p] = "hydrate" /\ (Wanted(p) = {} \/ ~root)
  /\ Goto(p, "packages")
  /\ UNCHANGED <<files, job, guest, scratch, history>>

(* load_overlay_index: without index.json the sidecars stand in for it     *)
(* (overlay_index_from_metadata).                                          *)
LoadedIndex ==
  IF index.state # "absent" THEN index
  ELSE IF sidecar.state = "whole" /\ sidecar.named # {}
       THEN [state |-> "whole", fp |-> sidecar.fp, entries |-> sidecar.named]
       ELSE [NoIndex EXCEPT !.state = "whole"]

(* What the catalog has of the packages wanted.                            *)
Listed(p) ==
  {b \in LoadedIndex.entries : b.package \in Requirements(Wanted(p)) \cap Hydratable}

(* An index that does not parse is an error: no hydration.  One of another *)
(* distribution is cleared first.                                          *)
HydrateLoad(p) ==
  /\ pc[p] = "hydrateLoad"
  /\ \/ /\ index.state = "torn"
        /\ Goto(p, "packages")
        /\ UNCHANGED <<held, after>>
     \/ /\ index.state # "torn" /\ LoadedIndex.fp # job[p].fp
        /\ after' = [after EXCEPT ![p] = "packages"]
        /\ Goto(p, "indexRead")
        /\ UNCHANGED held
     \/ /\ index.state # "torn" /\ LoadedIndex.fp = job[p].fp
        /\ held' = [held EXCEPT ![p] = Listed(p)]
        /\ Goto(p, "hydrateBlobs")
        /\ UNCHANGED after
  /\ UNCHANGED <<files, job, guest, todo, stored, history>>

(* A listed blob without a file is skipped, one that does not match its    *)
(* digest ends the hydration; any other number of blobs is a hit.          *)
HydrateBlobs(p) ==
  LET found == held[p] \cap Present
  IN /\ pc[p] = "hydrateBlobs"
     /\ IF found # {} /\ found \subseteq Sound
        THEN Import(p, found)
        ELSE UNCHANGED <<imported, overlaid, installed, faults>>
     /\ held' = [held EXCEPT ![p] = {}]
     /\ Goto(p, "packages")
     /\ UNCHANGED <<files, job, image, todo, stored, after, starts, mixed, disturbed>>

(* The explicit load, skipped after any import.                            *)
LoadPackages(p) ==
  /\ pc[p] = "packages"
  /\ installed' =
       [installed EXCEPT ![p] = IF overlaid[p] THEN @ ELSE WithPackages(p, Wanted(p))]
  /\ Goto(p, IF job[p].request.save THEN "collect" ELSE "run")
  /\ UNCHANGED <<files, job, imported, overlaid, image, scratch, history>>

-----------------------------------------------------------------------------
(* update_overlay_index                                                    *)

Merge(entries, updates) ==
  updates \cup {b \in entries : b.package \notin Packages(updates)}

AnyEntries(p) == LoadedIndex.entries   \* Mutant: another distribution's stay

(* The entries of another distribution are dropped, however they came.     *)
OwnEntries(p) == IF LoadedIndex.fp = job[p].fp THEN LoadedIndex.entries ELSE {}

AllEntries(blobs) == blobs             \* Mutant: entries without a file stay
KeptEntries(blobs) == blobs \cap Present

IndexRead(p) ==
  LET base == OwnEntries(p)
      merged == Merge(base, stored[p])
      kept == KeptEntries(merged)
      changed == LoadedIndex.fp # job[p].fp \/ ~(stored[p] \subseteq base) \/ kept # merged
  IN /\ pc[p] = "indexRead"
     /\ IF index.state # "torn" /\ (changed \/ index.state = "absent")
        THEN held' = [held EXCEPT ![p] = kept] /\ Goto(p, "indexCut")
        ELSE UNCHANGED held /\ Goto(p, after[p])
     /\ UNCHANGED <<files, job, guest, todo, stored, after, history>>

(* save_overlay_index truncates ...                                        *)
IndexCut(p) ==
  /\ pc[p] = "indexCut"
  /\ index' = [NoIndex EXCEPT !.state = "torn"]
  /\ Goto(p, "indexWrite")
  /\ UNCHANGED <<root, cache, sidecar, snapshot, metadata, job, guest, scratch, history>>

(* ... and writes; the tail of a longer file written meanwhile stays.      *)
IndexWrite(p) ==
  /\ pc[p] = "indexWrite"
  /\ \/ index' = [state |-> "whole", fp |-> job[p].fp, entries |-> held[p]]
     \/ index.state = "whole" /\ index' = [NoIndex EXCEPT !.state = "torn"]
  /\ held' = [held EXCEPT ![p] = {}]
  /\ Goto(p, after[p])
  /\ UNCHANGED <<root, cache, sidecar, snapshot, metadata, job, guest, todo, stored,
                 after, history>>

-----------------------------------------------------------------------------
(* --write-snapshot                                                        *)

(* collect_snapshot, then fs::write of the image truncates the file.       *)
ImageCut(p) ==
  /\ pc[p] = "collect"
  /\ snapshot' = [NoFile EXCEPT !.state = "torn"]
  /\ mixed' = (mixed \/ \E q \in Others(p) : Saving(q) \/ pc[q] = "readImage")
  /\ Goto(p, "imageWrite")
  /\ UNCHANGED <<root, cache, index, sidecar, metadata, job, guest, scratch, starts,
                 faults, disturbed>>

CollectFails(p) ==
  /\ pc[p] = "collect"
  /\ Fault
  /\ Goto(p, "export")
  /\ UNCHANGED <<files, job, guest, scratch, starts, mixed, disturbed>>

ImageWrite(p) ==
  /\ pc[p] = "imageWrite"
  /\ snapshot' = [state |-> "whole", fp |-> job[p].fp]
  /\ Goto(p, "metaCut")
  /\ UNCHANGED <<root, cache, index, sidecar, metadata, job, guest, scratch, history>>

(* write_snapshot_metadata.                                                *)
MetaCut(p) ==
  /\ pc[p] = "metaCut"
  /\ metadata' = [NoFile EXCEPT !.state = "torn"]
  /\ Goto(p, "metaWrite")
  /\ UNCHANGED <<root, cache, index, sidecar, snapshot, job, guest, scratch, history>>

MetaWrite(p) ==
  /\ pc[p] = "metaWrite"
  /\ metadata' = [state |-> "whole", fp |-> job[p].fp]
  /\ Goto(p, "export")
  /\ UNCHANGED <<root, cache, index, sidecar, snapshot, job, guest, scratch, history>>

(* Its failure is only a warning.                                          *)
MetaFails(p) ==
  /\ pc[p] = "metaCut"
  /\ Fault
  /\ mixed' = TRUE
  /\ Goto(p, "export")
  /\ UNCHANGED <<files, job, guest, scratch, starts, disturbed>>

(* export_overlay: the packages the guest has mounted.                     *)
GuestOverlay(p) == installed[p]

(* export_snapshot_overlay: nothing installed removes the old sidecar.     *)
ExportNothing(p) ==
  /\ pc[p] = "export" /\ GuestOverlay(p) = {}
  /\ sidecar' = NoSidecar
  /\ Goto(p, "run")
  /\ UNCHANGED <<root, cache, index, snapshot, metadata, job, guest, scratch, history>>

Export(p) ==
  /\ pc[p] = "export" /\ GuestOverlay(p) # {}
  /\ root' = TRUE
  /\ todo' = [todo EXCEPT ![p] = GuestOverlay(p)]
  /\ EnterCatalog(p)
  /\ Goto(p, "store")
  /\ UNCHANGED <<cache, index, sidecar, snapshot, metadata, job, guest, held, stored,
                 after, starts, faults, mixed>>

OtherFiles(b) == Retained(cache, {f \in Elements(cache) : f.blob # b})
Current(p) == CHOOSE b \in todo[p] : TRUE

(* A sound file is kept as it is; one that fails its digest is removed,    *)
(* and written again under a new inode.                                    *)
StoreBlob(p) ==
  LET b == Current(p)
  IN /\ pc[p] = "store" /\ todo[p] # {}
     /\ IF b \in Sound
        THEN /\ stored' = [stored EXCEPT ![p] = @ \cup {b}]
             /\ todo' = [todo EXCEPT ![p] = @ \ {b}]
             /\ UNCHANGED <<cache, pc>>
        ELSE /\ cache' = Append(OtherFiles(b), [blob |-> b, state |-> p])
             /\ Goto(p, "storing")
             /\ UNCHANGED <<stored, todo>>
     /\ UNCHANGED <<root, index, sidecar, snapshot, metadata, job, guest, held, after,
                    history>>

(* The write ends: the file is sound, unless another process has removed   *)
(* or replaced it meanwhile.                                               *)
Written(p, state) ==
  cache' = [i \in DOMAIN cache |->
              IF cache[i].state = p THEN [cache[i] EXCEPT !.state = state] ELSE cache[i]]

BlobWritten(p) ==
  /\ pc[p] = "storing"
  /\ Written(p, "whole")
  /\ stored' = [stored EXCEPT ![p] = @ \cup {Current(p)}]
  /\ todo' = [todo EXCEPT ![p] = @ \ {Current(p)}]
  /\ Goto(p, "store")
  /\ UNCHANGED <<root, index, sidecar, snapshot, metadata, job, guest, held, after, history>>

(* fs::write fails: the cut file stays and the export goes on without it.  *)
BlobFails(p) ==
  /\ pc[p] = "storing"
  /\ Fault
  /\ disturbed' = TRUE
  /\ Written(p, "cut")
  /\ todo' = [todo EXCEPT ![p] = @ \ {Current(p)}]
  /\ Goto(p, "store")
  /\ UNCHANGED <<root, index, sidecar, snapshot, metadata, job, guest, held, stored, after,
                 starts, mixed>>

BlobsStored(p) ==
  /\ pc[p] = "store" /\ todo[p] = {}
  /\ Goto(p, "enforce")
  /\ UNCHANGED <<files, job, guest, scratch, history>>

(* The cache policy, then what is left on disk goes into sidecar and index.*)
EnforceExport(p) ==
  /\ pc[p] = "enforce"
  /\ Enforce
  /\ stored' = [stored EXCEPT ![p] = @ \cap Present']
  /\ after' = [after EXCEPT ![p] = "sidecarCut"]
  /\ Goto(p, "indexRead")
  /\ UNCHANGED <<root, index, sidecar, snapshot, metadata, job, guest, held, todo, history>>

SidecarCut(p) ==
  /\ pc[p] = "sidecarCut"
  /\ sidecar' = [NoSidecar EXCEPT !.state = "torn"]
  /\ Goto(p, "sidecarWrite")
  /\ UNCHANGED <<root, cache, index, snapshot, metadata, job, guest, scratch, history>>

(* A package has a digest if its blob was stored or if it was imported     *)
(* with one.                                                               *)
Named(p) == stored[p] \cup (GuestOverlay(p) \cap imported[p])

SidecarOf(p) ==
  [state |-> "whole", fp |-> job[p].fp, named |-> Named(p),
   unnamed |-> Packages(GuestOverlay(p) \ Named(p))]

SidecarWrite(p) ==
  /\ pc[p] = "sidecarWrite"
  /\ \/ sidecar' = SidecarOf(p)
     \/ sidecar.state = "whole" /\ sidecar' = [NoSidecar EXCEPT !.state = "torn"]
  /\ Goto(p, "run")
  /\ UNCHANGED <<root, cache, index, snapshot, metadata, job, guest, scratch, history>>

-----------------------------------------------------------------------------

(* The session runs and the command ends.                                  *)
Run(p) ==
  /\ pc[p] = "run"
  /\ Exit(p)
  /\ UNCHANGED <<files, history>>

Kill(p) ==
  /\ pc[p] # "idle"
  /\ Fault
  /\ mixed' = (mixed \/ Saving(p))
  /\ disturbed' = (disturbed \/ InCatalog(p))
  /\ Written(p, "cut")
  /\ Exit(p)
  /\ UNCHANGED <<root, index, sidecar, snapshot, metadata, starts>>

(* Hosts delete blobs, or an index, by hand.                               *)
DeleteByHand ==
  /\ Fault
  /\ disturbed' = TRUE
  /\ \/ index.state # "absent" /\ index' = NoIndex /\ UNCHANGED cache
     \/ \E b \in Present : cache' = OtherFiles(b) /\ UNCHANGED index
  /\ UNCHANGED <<root, sidecar, snapshot, metadata, pc, job, guest, scratch, starts, mixed>>

Step(p) ==
  \/ Start(p) \/ Validate(p) \/ RefuseSnapshot(p) \/ ReadImage(p) \/ Prepare(p)
  \/ CommandFails(p) \/ RestoreSidecar(p) \/ RestoreBlobs(p) \/ Hydrate(p)
  \/ NothingToHydrate(p) \/ HydrateLoad(p) \/ HydrateBlobs(p) \/ LoadPackages(p)
  \/ IndexRead(p) \/ IndexCut(p) \/ IndexWrite(p) \/ ImageCut(p) \/ CollectFails(p)
  \/ ImageWrite(p) \/ MetaCut(p) \/ MetaWrite(p) \/ MetaFails(p) \/ ExportNothing(p)
  \/ Export(p) \/ StoreBlob(p) \/ BlobWritten(p) \/ BlobFails(p) \/ BlobsStored(p)
  \/ EnforceExport(p) \/ SidecarCut(p) \/ SidecarWrite(p) \/ Run(p) \/ Kill(p)

Next == (\E p \in Process : Step(p)) \/ DeleteByHand

Spec == Init /\ [][Next]_vars

-----------------------------------------------------------------------------
(* Properties                                                              *)

Steps ==
  {"idle", "validate", "readImage", "prepare", "restore", "restoreBlobs", "hydrate",
   "hydrateLoad", "hydrateBlobs", "packages", "indexRead", "indexCut", "indexWrite",
   "collect", "imageWrite", "metaCut", "metaWrite", "export", "store", "storing",
   "enforce", "sidecarCut", "sidecarWrite", "run"}

AnyFingerprint == Fingerprint \cup {NoFingerprint}
IndexType == index \in [state : State, fp : AnyFingerprint, entries : SUBSET Blob]
SidecarType ==
  sidecar \in [state : State, fp : AnyFingerprint, named : SUBSET Blob,
               unnamed : SUBSET Package]
JobType == job \in [Process -> [request : Requests \cup {NoJob}, fp : AnyFingerprint]]

(* What a process holds of the files and of the guest.                     *)
HandsType ==
  /\ installed \in [Process -> SUBSET Blob] /\ imported \in [Process -> SUBSET Blob]
  /\ held \in [Process -> SUBSET Blob] /\ todo \in [Process -> SUBSET Blob]
  /\ stored \in [Process -> SUBSET Blob]

TypeOK ==
  /\ IndexType /\ SidecarType /\ JobType /\ HandsType
  /\ pc \in [Process -> Steps] /\ after \in [Process -> Steps]
  /\ overlaid \in [Process -> BOOLEAN]

(* Whatever processes of different distributions do to the shared files,   *)
(* an index or a sidecar names only blobs of the distribution it is marked *)
(* with, and a guest holds only packages of the active one.                *)
CompatibleOnly ==
  /\ \A b \in index.entries : b.made = index.fp
  /\ \A b \in sidecar.named : b.made = sidecar.fp
  /\ \A p \in Process : \A b \in installed[p] : b.made = job[p].fp

(* A guest boots from an image of another distribution, or from a cut one, *)
(* only if some save was cut short, failed at the metadata, or overlapped  *)
(* with another save or a load.                                            *)
ImagesMatchUnlessMixed ==
  ~mixed => \A p \in Process :
              image[p].state # "absent" => image[p] = [state |-> "whole", fp |-> job[p].fp]

Quiet == ~disturbed /\ \A p \in Process : ~InCatalog(p)

(* Exports and hydrations that do not overlap and are not cut short leave  *)
(* an index that parses and names no missing or unsound blob, and a cache  *)
(* within its limit.                                                       *)
CatalogSound ==
  Quiet =>
    /\ index.state # "torn"
    /\ index.entries \subseteq Sound
    /\ Len(cache) <= Limit

(* A session starts without a package it asked for, or one that such a     *)
(* package needs, in two cases only: after an overlay import main skips    *)
(* the explicit load, and the guest's loader warns about and passes over   *)
(* what the lockfile does not have or names without a file it can install. *)
MissingOnlyAfterImport ==
  \A p \in Process :
    pc[p] = "run" /\ ~overlaid[p] =>
      \A q \in Needed(Wanted(p)) \ Packages(installed[p]) : q \notin Installable
=============================================================================
