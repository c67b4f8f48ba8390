----------------------------- MODULE Distribution -----------------------------
(***************************************************************************)
(* A staged Pyodide distribution: one directory that `assets stage` writes *)
(* (pyodide_distribution/staging.rs) and that the engines of a host verify *)
(* and read (pyodide_distribution.rs, package_metadata.rs, the Python      *)
(* engine's register_core_assets).                                         *)
(*                                                                         *)
(* Staging commands and the host are separate processes without a common   *)
(* lock.  Files are written in place: truncated first, whole later.  A     *)
(* file's content is the variant it comes from, Cut while or after a write *)
(* is cut short, Nothing when there is no file; a digest identifies a      *)
(* content.                                                                *)
(***************************************************************************)
EXTENDS Naturals, Sequences, SequencesExt

CONSTANTS
  Stager, Engine,
  Variant, WithWheels,  \* of the variants, those with package files
  Nothing, Cut,
  UnderDefaultRoot,     \* is the directory below .aardvark/pyodide-distributions?
  MaxStages,            \* bound: staging commands
  MaxBoots,             \* bound: engines created
  MaxFaults             \* bound: commands killed or failing, and host restarts

ASSUME DistributionAssumption ==
  /\ WithWheels \subseteq Variant
  /\ {Nothing, Cut} \cap Variant = {} /\ Nothing # Cut
  /\ UnderDefaultRoot \in BOOLEAN
  /\ MaxStages \in Nat /\ MaxBoots \in Nat /\ MaxFaults \in Nat

(* pyodide-lock.json; pyodide.asm.mjs, for all files that are copied or    *)
(* embedded in the binary; one package file; pyodide.asm.patched.js, for   *)
(* all assets of the JavaScript runtime but the lockfile.                  *)
Copied == {"lock", "asm", "wheel"}
Part == Copied \cup {"patched"}
Content == Variant \cup {Nothing, Cut}
FileOrder == <<"lock", "asm", "patched", "wheel">>
AssetOrder == <<"patched", "lock">>

(* What a whole staging of a variant leaves.                               *)
Image(v) ==
  [part \in Part |-> IF part = "wheel" /\ v \notin WithWheels THEN Nothing ELSE v]

VARIABLES
  dir,       \* the directory's files: [Part -> Content]
  manifest,  \* aardvark-pyodide-dist.json: NoManifest, TornManifest or a Manifest
  stage,     \* per staging command: [pc, variant, force, todo, part,
             \* source, held]
  engine,    \* per engine: [pc, held, todo, got, assets]
  verified,  \* VERIFIED_EXTERNAL_DISTRIBUTIONS
  assetCache,    \* EXTERNAL_TEXT_ASSET_CACHE and EXTERNAL_BINARY_ASSET_CACHE
  metadataCache, \* LOCKFILE_METADATA_CACHE
  stages, boots, faults,
  overlapped,  \* history: two commands wrote the directory at a time
  raced        \* history: a command wrote it while an engine of this host
               \* process was between the manifest and the last asset

host == <<engine, verified, assetCache, metadataCache, boots>>
vars == <<dir, manifest, stage, host, stages, faults, overlapped, raced>>

Absent == [state |-> "absent", variant |-> Nothing, lock |-> Nothing,
           files |-> [part \in Part |-> Nothing], features |-> Nothing]
Torn == [Absent EXCEPT !.state = "torn"]

IdleStage ==
  [pc |-> "idle", variant |-> Nothing, force |-> FALSE, todo |-> {}, part |-> "lock",
   source |-> Nothing, held |-> Absent]
NoAssets == [part \in Part |-> Nothing]
IdleEngine ==
  [pc |-> "idle", held |-> Absent, todo |-> <<>>, got |-> Nothing, assets |-> NoAssets]

Init ==
  /\ dir = [part \in Part |-> Nothing] /\ manifest = Absent
  /\ stage = [s \in Stager |-> IdleStage]
  /\ engine = [e \in Engine |-> IdleEngine]
  /\ verified = {} /\ assetCache = <<>> /\ metadataCache = <<>>
  /\ stages = 0 /\ boots = 0 /\ faults = 0
  /\ overlapped = FALSE /\ raced = FALSE

-----------------------------------------------------------------------------
(* assets stage                                                            *)

Unmarked == manifest = Absent   \* Mutant: only the manifest counts

(* path_has_entries finds none.                                            *)
Empty == manifest = Absent /\ dir = [part \in Part |-> Nothing]

Booted(e) == engine[e].pc = "read" /\ engine[e].todo = <<>>

Working(s) == stage[s].pc \in {"removing", "write", "writing", "manifestCut", "manifestWrite"}
Reading(e) == engine[e].pc # "idle" /\ ~Booted(e)

(* A step that changes the directory.                                      *)
Touch ==
  /\ raced' = (raced \/ \E e \in Engine : Reading(e))
  /\ UNCHANGED <<host, stages, overlapped>>

Enter(s) ==
  /\ overlapped' = (overlapped \/ \E r \in Stager \ {s} : Working(r))
  /\ UNCHANGED <<dir, manifest, host, stages, faults, raced>>

StageGoto(s, where) == stage' = [stage EXCEPT ![s].pc = where]
Leave(s) == stage' = [stage EXCEPT ![s] = IdleStage]

(* The archive is downloaded or given, verified, and unpacked elsewhere.   *)
Stage(s) ==
  /\ stage[s].pc = "idle" /\ stages < MaxStages
  /\ stages' = stages + 1
  /\ \E v \in Variant, force \in BOOLEAN :
       stage' = [stage EXCEPT ![s] = [IdleStage EXCEPT !.pc = "prepare", !.variant = v,
                                                       !.force = force]]
  /\ UNCHANGED <<dir, manifest, host, faults, overlapped, raced>>

(* validate_force_removal_target: a manifest, whole or not, marks what may *)
(* be removed.                                                             *)
MayRemove(s) == stage[s].force /\ (manifest # Absent \/ UnderDefaultRoot)

Refuse(s) ==
  /\ stage[s].pc = "prepare" /\ ~Empty /\ ~MayRemove(s)
  /\ Leave(s)
  /\ UNCHANGED <<dir, manifest, host, stages, faults, overlapped, raced>>

StartRemoving(s) ==
  /\ stage[s].pc = "prepare" /\ ~Empty /\ MayRemove(s)
  /\ StageGoto(s, "removing")
  /\ Enter(s)

(* remove_dir_all: one entry at a time, in the order of the file system.   *)
RemoveEntry(s) ==
  /\ stage[s].pc = "removing"
  /\ \/ manifest # Absent /\ manifest' = Absent /\ UNCHANGED dir
     \/ \E part \in Part : /\ dir[part] # Nothing
                           /\ dir' = [dir EXCEPT ![part] = Nothing]
                           /\ UNCHANGED manifest
  /\ Touch
  /\ UNCHANGED <<stage, faults>>

ToWrite(v) == {part \in Part : Image(v)[part] # Nothing}

(* The directory is empty, or emptied: create it and copy.                 *)
StartWriting(s) ==
  /\ stage[s].pc \in {"prepare", "removing"} /\ Empty
  /\ stage' = [stage EXCEPT ![s].pc = "write", ![s].todo = ToWrite(stage[s].variant)]
  /\ Enter(s)

(* copy_dir_recursive, copy_adapter_assets, generate_patched_pyodide.      *)
NextParts(s) ==
  LET todo == stage[s].todo
  IN IF todo \cap Copied # {} THEN todo \cap Copied ELSE todo

(* The patterns to patch must be in the file that is there now.            *)
Writable(part) == part = "patched" => dir["asm"] \in Variant

StartFile(s) ==
  /\ stage[s].pc = "write"
  /\ \E part \in NextParts(s) :
       /\ Writable(part)
       /\ dir' = [dir EXCEPT ![part] = Cut]
       /\ stage' = [stage EXCEPT ![s].pc = "writing", ![s].part = part,
                      ![s].source = IF part = "patched" THEN dir["asm"]
                                    ELSE Image(stage[s].variant)[part]]
  /\ Touch
  /\ UNCHANGED <<manifest, faults>>

PatchFails(s) ==
  /\ stage[s].pc = "write" /\ stage[s].todo = {"patched"} /\ ~Writable("patched")
  /\ Leave(s)
  /\ UNCHANGED <<dir, manifest, host, stages, faults, overlapped, raced>>

(* The file is whole, unless another command unlinked it or is writing it. *)
FinishFile(s) ==
  LET part == stage[s].part
  IN /\ stage[s].pc = "writing"
     /\ \/ dir[part] # Nothing /\ dir' = [dir EXCEPT ![part] = stage[s].source]
        \/ dir[part] = Nothing /\ UNCHANGED dir
        \/ dir[part] \notin {Nothing, Cut} /\ dir' = [dir EXCEPT ![part] = Cut]
     /\ stage' = [stage EXCEPT ![s].pc = "write", ![s].todo = @ \ {part}, ![s].source = Nothing]
     /\ Touch
     /\ UNCHANGED <<manifest, faults>>

(* write_distribution_manifest: hashes and features are those of whatever  *)
(* is in the directory; the lockfile must parse and a package file open.   *)
(* Features tell the package files apart by what is in them.               *)
Features == dir["wheel"]

DescribeCopied(s) ==   \* Mutant: the generated file is not hashed
  [state |-> "whole", variant |-> stage[s].variant, lock |-> dir["lock"],
   files |-> [dir EXCEPT !["patched"] = Nothing], features |-> Features]

Describe(s) ==
  [state |-> "whole", variant |-> stage[s].variant, lock |-> dir["lock"], files |-> dir,
   features |-> Features]

CollectHashes(s) ==
  /\ stage[s].pc = "write" /\ stage[s].todo = {}
  /\ IF dir["lock"] \in Variant /\ dir["wheel"] # Cut
     THEN stage' = [stage EXCEPT ![s].pc = "manifestCut", ![s].held = Describe(s)]
     ELSE Leave(s)
  /\ UNCHANGED <<dir, manifest, host, stages, faults, overlapped, raced>>

ManifestCut(s) ==
  /\ stage[s].pc = "manifestCut"
  /\ manifest' = Torn
  /\ StageGoto(s, "manifestWrite")
  /\ Touch
  /\ UNCHANGED <<dir, faults>>

(* The last write.  The verification that follows changes nothing.         *)
ManifestWrite(s) ==
  /\ stage[s].pc = "manifestWrite"
  /\ \/ manifest # Absent /\ manifest' = stage[s].held
     \/ manifest = Absent /\ UNCHANGED manifest
     \/ manifest.state = "whole" /\ manifest' = Torn
  /\ Leave(s)
  /\ Touch
  /\ UNCHANGED <<dir, faults>>

(* The command is killed, or an operation on the file system fails.        *)
Abort(s) ==
  /\ stage[s].pc # "idle" /\ faults < MaxFaults
  /\ faults' = faults + 1
  /\ Leave(s)
  /\ UNCHANGED <<dir, manifest, host, stages, overlapped, raced>>

-----------------------------------------------------------------------------
(* An engine is created from the directory                                 *)

Shared == <<verified, assetCache, metadataCache, boots>>
Directory == <<dir, manifest, stage, stages, faults, overlapped, raced>>
Fail(e) == engine' = [engine EXCEPT ![e] = IdleEngine]

(* external_verification_cache_key: the root, the fingerprint and every    *)
(* file with its hash.  The fingerprint covers variant and lockfile.       *)
Key(k) == [fingerprint |-> <<k.variant, k.lock>>, files |-> k.files]

Listed(k) == SelectSeq(FileOrder, LAMBDA part : k.files[part] # Nothing)

(* external reads and parses the manifest; one that this process has       *)
(* verified before is not verified again.                                  *)
Open(e) ==
  /\ engine[e].pc = "idle" /\ boots < MaxBoots
  /\ manifest.state = "whole"
  /\ boots' = boots + 1
  /\ LET known == Key(manifest) \in verified
     IN engine' = [engine EXCEPT ![e].pc = IF known THEN "read" ELSE "verify",
                     ![e].held = manifest,
                     ![e].todo = IF known THEN AssetOrder ELSE Listed(manifest)]
  /\ UNCHANGED <<Directory, verified, assetCache, metadataCache>>

FileMatches(e) ==
  LET part == Head(engine[e].todo) IN dir[part] = engine[e].held.files[part]

VerifyFile(e) ==
  /\ engine[e].pc = "verify" /\ engine[e].todo # <<>>
  /\ IF FileMatches(e) THEN engine' = [engine EXCEPT ![e].todo = Tail(@)] ELSE Fail(e)
  /\ UNCHANGED <<Directory, Shared>>

Verified(e) ==
  /\ engine[e].pc = "verify" /\ engine[e].todo = <<>>
  /\ verified' = verified \cup {Key(engine[e].held)}
  /\ engine' = [engine EXCEPT ![e].pc = "read", ![e].todo = AssetOrder]
  /\ UNCHANGED <<Directory, assetCache, metadataCache, boots>>

-----------------------------------------------------------------------------
(* register_core_assets                                                    *)

(* external_asset_cache_key.                                               *)
AssetKey(e) == <<Key(engine[e].held), Head(engine[e].todo)>>

(* What the JavaScript runtime is given.                                   *)
Install(e, content) ==
  engine' = [engine EXCEPT ![e].assets[Head(engine[e].todo)] = content, ![e].got = Nothing,
               ![e].pc = IF Head(engine[e].todo) = "lock" THEN "metadata" ELSE "read",
               ![e].todo = IF Head(engine[e].todo) = "lock" THEN @ ELSE Tail(@)]

ReadCached(e) ==
  /\ engine[e].pc = "read" /\ engine[e].todo # <<>>
  /\ AssetKey(e) \in DOMAIN assetCache
  /\ Install(e, assetCache[AssetKey(e)])
  /\ UNCHANGED <<Directory, Shared>>

(* A miss is read without the lock of the cache ...                        *)
ReadFile(e) ==
  /\ engine[e].pc = "read" /\ engine[e].todo # <<>>
  /\ AssetKey(e) \notin DOMAIN assetCache
  /\ IF dir[Head(engine[e].todo)] = Nothing THEN Fail(e)
     ELSE engine' = [engine EXCEPT ![e].pc = "insert", ![e].got = dir[Head(engine[e].todo)]]
  /\ UNCHANGED <<Directory, Shared>>

OwnRead(e) == engine[e].got   \* Mutant: what this engine read itself

(* ... and or_insert_with keeps the first that comes back.                 *)
FirstRead(e) ==
  IF AssetKey(e) \in DOMAIN assetCache THEN assetCache[AssetKey(e)] ELSE engine[e].got

Insert(e) ==
  /\ engine[e].pc = "insert"
  /\ assetCache' = [k \in DOMAIN assetCache \cup {AssetKey(e)} |->
                      IF k \in DOMAIN assetCache THEN assetCache[k] ELSE engine[e].got]
  /\ Install(e, FirstRead(e))
  /\ UNCHANGED <<Directory, verified, metadataCache, boots>>

(* package_metadata_from_lockfile_keyed: keyed by the lockfile hash of the *)
(* manifest, whatever bytes were read; only a miss parses them.            *)
ParseLockfile(e) ==
  LET key == engine[e].held.lock
      text == engine[e].assets["lock"]
      built == IF key \in DOMAIN metadataCache THEN metadataCache[key] ELSE text
  IN /\ engine[e].pc = "metadata"
     /\ IF built = Cut
        THEN Fail(e) /\ UNCHANGED metadataCache
        ELSE /\ metadataCache' = [k \in DOMAIN metadataCache \cup {key} |->
                                    IF k = key THEN built ELSE metadataCache[k]]
             /\ engine' = [engine EXCEPT ![e].pc = "read", ![e].todo = Tail(@),
                                         ![e].assets["lock"] = built]
     /\ UNCHANGED <<Directory, verified, assetCache, boots>>

(* PythonEngine::reset_in_place registers the assets again.                *)
ResetInPlace(e) ==
  /\ Booted(e)
  /\ engine' = [engine EXCEPT ![e].todo = AssetOrder, ![e].assets = NoAssets]
  /\ UNCHANGED <<Directory, Shared>>

(* The caches end with the host's process.                                 *)
RestartHost ==
  /\ faults < MaxFaults /\ faults' = faults + 1
  /\ engine' = [e \in Engine |-> IdleEngine]
  /\ verified' = {} /\ assetCache' = <<>> /\ metadataCache' = <<>>
  /\ raced' = FALSE
  /\ UNCHANGED <<dir, manifest, stage, boots, stages, overlapped>>

StageStep(s) ==
  \/ Stage(s) \/ Refuse(s) \/ StartRemoving(s) \/ RemoveEntry(s) \/ StartWriting(s)
  \/ StartFile(s) \/ PatchFails(s) \/ FinishFile(s) \/ CollectHashes(s)
  \/ ManifestCut(s) \/ ManifestWrite(s) \/ Abort(s)

EngineStep(e) ==
  \/ Open(e) \/ VerifyFile(e) \/ Verified(e)
  \/ ReadCached(e) \/ ReadFile(e) \/ Insert(e) \/ ParseLockfile(e) \/ ResetInPlace(e)

Next == (\E s \in Stager : StageStep(s)) \/ (\E e \in Engine : EngineStep(e)) \/ RestartHost

Spec == Init /\ [][Next]_vars

-----------------------------------------------------------------------------
(* Properties                                                              *)

Manifest ==
  [state : {"absent", "torn", "whole"}, variant : Variant \cup {Nothing}, lock : Content,
   files : [Part -> Content], features : Content]
StagePcs ==
  {"idle", "prepare", "removing", "write", "writing", "manifestCut", "manifestWrite"}

StageState ==
  [pc : StagePcs, variant : Variant \cup {Nothing}, force : BOOLEAN, todo : SUBSET Part,
   part : Part, source : Content, held : Manifest]

TypeOK ==
  /\ dir \in [Part -> Content] /\ manifest \in Manifest
  /\ stage \in [Stager -> StageState]
  /\ overlapped \in BOOLEAN /\ raced \in BOOLEAN

(* Wherever a staging or a removal was cut short, an engine accepts only   *)
(* the whole image of one variant, and features that describe it, unless   *)
(* two commands wrote the directory at a time.                             *)
VerifiedIsWhole ==
  ~overlapped =>
    \A e \in Engine :
      engine[e].pc \in {"read", "insert", "metadata"} =>
        LET k == engine[e].held
        IN /\ k.files = Image(k.variant) /\ k.lock = k.variant
           /\ k.features = k.files["wheel"]

(* An engine runs the files that its manifest lists, unless a command      *)
(* wrote the directory while an engine of the same process was reading it, *)
(* or two commands at a time left a manifest that does not list all of it. *)
RunsWhatWasVerified ==
  ~raced /\ ~overlapped => \A e \in Engine : Booted(e) =>
              \A part \in {AssetOrder[i] : i \in DOMAIN AssetOrder} :
                engine[e].assets[part] = engine[e].held.files[part]

(* Whatever happens to the directory, engines of one process that hold the *)
(* same manifest run the same bytes.                                       *)
SameBytesPerKey ==
  \A d, e \in Engine :
    Booted(d) /\ Booted(e) /\ Key(engine[d].held) = Key(engine[e].held) =>
      engine[d].assets = engine[e].assets

=============================================================================
