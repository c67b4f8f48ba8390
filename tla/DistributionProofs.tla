--------------------------- MODULE DistributionProofs ---------------------------
(***************************************************************************)
(* Proofs about Distribution, for any stagers, engines and variants: what  *)
(* a manifest describes, what an engine reads, and that the caches of a    *)
(* host give all engines the same bytes.                                   *)
(***************************************************************************)
EXTENDS Distribution, TLAPS

-----------------------------------------------------------------------------
(* Staging, as long as commands do not overlap                             *)

DescribesImage(k) ==
  k.files = Image(k.variant) /\ k.lock = k.variant /\ k.features = k.files["wheel"]

Begun ==
  \A s \in Stager : stage[s].pc # "idle" => stage[s].variant \in Variant

OneWorks == \A r, s \in Stager : Working(r) /\ Working(s) => r = s

(* What a command has written so far; nothing is described before the end. *)
Written(s) ==
  LET v == stage[s].variant
  IN stage[s].pc \in {"write", "writing"} =>
       /\ manifest = Absent
       /\ stage[s].todo \subseteq ToWrite(v)
       /\ \A part \in Part \ stage[s].todo : dir[part] = Image(v)[part]

BeingWritten(s) ==
  LET part == stage[s].part
  IN stage[s].pc = "writing" =>
       /\ part \in stage[s].todo
       /\ dir[part] = Cut /\ stage[s].source = Image(stage[s].variant)[part]

Described(s) ==
  stage[s].pc \in {"manifestCut", "manifestWrite"} =>
    /\ stage[s].held.state = "whole" /\ DescribesImage(stage[s].held)
    /\ dir = stage[s].held.files

(* Under a whole manifest files may be missing, none is another.           *)
ManifestDescribes ==
  manifest.state = "whole" =>
    /\ DescribesImage(manifest)
    /\ \A part \in Part : dir[part] \in {manifest.files[part], Nothing}

Staging ==
  ~overlapped =>
    /\ OneWorks /\ ManifestDescribes
    /\ \A s \in Stager : Written(s) /\ BeingWritten(s) /\ Described(s)

-----------------------------------------------------------------------------
(* Engines and caches                                                      *)

FieldNames == {"pc", "held", "todo", "got", "assets"}

Shape ==
  /\ engine = [e \in Engine |-> engine[e]]
  /\ \A e \in Engine : DOMAIN engine[e] = FieldNames

Holds(e) ==
  engine[e].pc # "idle" =>
    /\ engine[e].held.state = "whole"
    /\ ~overlapped => DescribesImage(engine[e].held)

CacheKey(e, part) == <<Key(engine[e].held), part>>
Cached(e, part) == CacheKey(e, part) \in DOMAIN assetCache

(* What an engine has been given is what the caches hold.                  *)
Assets(e, lock) ==
  [part \in Part |-> IF part = "patched" THEN assetCache[CacheKey(e, "patched")]
                     ELSE IF part = "lock" THEN lock ELSE Nothing]

Given(e) ==
  LET r == engine[e]
  IN /\ r.pc \in {"idle", "verify"} => r.assets = NoAssets
     /\ r.pc \in {"read", "insert", "metadata"} =>
       \/ r.todo = AssetOrder /\ r.pc # "metadata" /\ r.assets = NoAssets
       \/ /\ r.todo = <<"lock">>
          /\ Cached(e, "patched") /\ (r.pc = "metadata" => Cached(e, "lock"))
          /\ r.assets = Assets(e, IF r.pc = "metadata" THEN r.assets["lock"] ELSE Nothing)
       \/ /\ r.todo = <<>> /\ r.pc = "read"
          /\ Cached(e, "patched") /\ Cached(e, "lock")
          /\ r.held.lock \in DOMAIN metadataCache
          /\ r.assets = Assets(e, metadataCache[r.held.lock])

(* Without a race, files and caches agree with the manifests in use.       *)
Agrees(e) ==
  LET r == engine[e]
  IN /\ Reading(e) =>
          \/ \A part \in Part : dir[part] \in {r.held.files[part], Nothing}
          \/ Cached(e, "patched") /\ Cached(e, "lock")
     /\ r.pc = "insert" => r.got = r.held.files[Head(r.todo)]
     /\ r.pc = "metadata" => r.assets["lock"] = r.held.files["lock"]

CachesAgree ==
  /\ \A x \in DOMAIN assetCache : assetCache[x] = x[1].files[x[2]]
  /\ \A lock \in DOMAIN metadataCache : metadataCache[lock] = lock

Unraced == ~raced /\ ~overlapped => CachesAgree /\ \A e \in Engine : Agrees(e)

IInv ==
  /\ TypeOK /\ Begun /\ Staging
  /\ Shape /\ \A e \in Engine : Holds(e) /\ Given(e)
  /\ Unraced

-----------------------------------------------------------------------------
(* Staging commands                                                        *)

LEMMA Distinct == "lock" \in Part /\ "asm" \in Part /\ "wheel" \in Part /\ "patched" \in Part
                    /\ Variant \subseteq Content /\ Nothing \in Content /\ Cut \in Content
  BY DEF Part, Copied, Content

LEMMA ImageType == ASSUME NEW v \in Variant PROVE Image(v) \in [Part -> Content]
  BY Distinct DEF Image

(* A command that works alone has nobody else to answer for.               *)
LEMMA StagingFrom ==
  ASSUME IInv, NEW s \in Stager,
         \A r \in Stager \ {s} : stage'[r] = stage[r],
         ~overlapped' =>
           /\ ~overlapped
           /\ Working(s)' \/ Working(s) => \A r \in Stager \ {s} : ~Working(r)
           /\ Working(s) \/ Working(s)' \/ UNCHANGED <<dir, manifest>>
           /\ ManifestDescribes' /\ Written(s)' /\ BeingWritten(s)' /\ Described(s)'
  PROVE  Staging'
<1> SUFFICES ASSUME ~overlapped'
             PROVE  OneWorks' /\ \A r \in Stager \ {s} :
                                   (Written(r) /\ BeingWritten(r) /\ Described(r))'
  BY DEF Staging
<1>1. \A r \in Stager \ {s} : Working(r)' <=> Working(r)
  BY DEF Working
<1>2. OneWorks'
  BY <1>1 DEF OneWorks, IInv, Staging
<1>3. ASSUME NEW r \in Stager \ {s}
      PROVE  (Written(r) /\ BeingWritten(r) /\ Described(r))'
  <2>1. CASE Working(r)
    <3>1. UNCHANGED <<dir, manifest>>
      BY <2>1
    <3>2. Written(r) /\ BeingWritten(r) /\ Described(r)
      BY DEF IInv, Staging
    <3>3. QED
      BY <3>1, <3>2 DEF Written, BeingWritten, Described, DescribesImage
  <2>2. CASE ~Working(r)
    BY <2>2, <1>1 DEF Working, Written, BeingWritten, Described
  <2>3. QED
    BY <2>1, <2>2
<1>4. QED
  BY <1>2, <1>3

LEMMA AloneAtWork ==
  ASSUME IInv, ~overlapped, NEW s \in Stager, Working(s)
  PROVE  \A r \in Stager \ {s} : ~Working(r)
  BY DEF IInv, Staging, OneWorks

(* Whatever a command does, the engines have nothing to fear that is not   *)
(* marked as a race.                                                       *)
LEMMA EnginesAreLeft ==
  ASSUME IInv, UNCHANGED host, ~overlapped' => ~overlapped,
         ~raced' => ~raced /\ (dir' = dir \/ \A e \in Engine : ~Reading(e))
  PROVE  Shape' /\ (\A e \in Engine : Holds(e) /\ Given(e))' /\ Unraced'
<1> USE DEF host
<1>1. Shape'
  BY DEF IInv, Shape
<1>2. (\A e \in Engine : Holds(e))'
  BY DEF IInv, Holds, DescribesImage
<1>3. (\A e \in Engine : Given(e))'
  BY DEF IInv, Given, Cached, CacheKey, Assets
<1>4. ASSUME ~raced', ~overlapped'
      PROVE  CachesAgree' /\ \A e \in Engine : Agrees(e)'
  <2>1. CachesAgree /\ \A e \in Engine : Agrees(e)
    BY <1>4 DEF IInv, Unraced
  <2>2. CachesAgree'
    BY <2>1 DEF CachesAgree
  <2>3. ASSUME NEW e \in Engine, dir' = dir
        PROVE  Agrees(e)'
    <3>1. Reading(e)' <=> Reading(e)
      BY DEF Reading, Booted
    <3>2. \A part : Cached(e, part)' <=> Cached(e, part)
      BY DEF Cached, CacheKey
    <3>3. QED
      BY <2>1, <2>3, <3>1, <3>2 DEF Agrees
  <2>4. ASSUME NEW e \in Engine, ~Reading(e)
        PROVE  Agrees(e)'
    <3>1. ~Reading(e)' /\ engine'[e].pc \notin {"insert", "metadata"}
      BY <2>4 DEF Reading, Booted
    <3>2. QED
      BY <3>1 DEF Agrees
  <2>5. QED
    BY <1>4, <2>2, <2>3, <2>4
<1>5. Unraced'
  BY <1>4 DEF Unraced
<1>6. QED
  BY <1>1, <1>2, <1>3, <1>5

LEMMA StageStarts ==
  ASSUME IInv, NEW s \in Stager, Stage(s)
  PROVE  TypeOK' /\ Begun' /\ Staging'
<1>1. PICK v \in Variant, force \in BOOLEAN :
        stage' = [stage EXCEPT ![s] = [IdleStage EXCEPT !.pc = "prepare", !.variant = v,
                                                        !.force = force]]
  BY DEF Stage
<1>2. IdleStage.held \in Manifest /\ IdleStage.todo \in SUBSET Part
  BY Distinct DEF IdleStage, Absent, Manifest
<1>3. TypeOK'
  BY <1>1, <1>2, Distinct DEF Stage, IInv, TypeOK, IdleStage, StagePcs, StageState
<1>4. stage'[s].pc = "prepare" /\ ~Working(s) /\ ~Working(s)'
  BY <1>1 DEF Stage, IInv, TypeOK, IdleStage, Working
<1>5. \A r \in Stager \ {s} : stage'[r] = stage[r]
  BY <1>1 DEF IInv, TypeOK
<1>6. ManifestDescribes' <=> ManifestDescribes
  BY DEF Stage, ManifestDescribes, DescribesImage
<1>7. Staging'
  BY <1>4, <1>5, <1>6, StagingFrom DEF Stage, IInv, Staging, Written, BeingWritten, Described
<1>8. Begun'
  BY <1>1 DEF Stage, IInv, TypeOK, Begun, IdleStage
<1>9. QED
  BY <1>3, <1>7, <1>8

LEMMA StageLeaves ==
  ASSUME IInv, NEW s \in Stager, Leave(s), UNCHANGED <<dir, manifest, raced, overlapped>>
  PROVE  TypeOK' /\ Begun' /\ Staging'
<1>1. IdleStage \in StageState
  BY Distinct DEF IdleStage, Absent, Manifest, StagePcs, StageState
<1>2. TypeOK'
  BY <1>1 DEF Leave, IInv, TypeOK
<1>3. stage'[s].pc = "idle"
  BY DEF Leave, IInv, TypeOK, IdleStage
<1>4. \A r \in Stager \ {s} : stage'[r] = stage[r]
  BY DEF Leave, IInv, TypeOK
<1>5. ManifestDescribes' <=> ManifestDescribes
  BY DEF ManifestDescribes, DescribesImage
<1>6. ~Working(s)'
  BY <1>3 DEF Working
<1>7. Staging'
  BY <1>3, <1>4, <1>5, <1>6, StagingFrom, AloneAtWork
     DEF IInv, Staging, Written, BeingWritten, Described
<1>8. Begun'
  BY DEF Leave, IInv, TypeOK, Begun, IdleStage
<1>9. QED
  BY <1>2, <1>7, <1>8

LEMMA StageStartsRemoving ==
  ASSUME IInv, NEW s \in Stager, StartRemoving(s)
  PROVE  TypeOK' /\ Begun' /\ Staging'
<1> USE DEF StartRemoving, StageGoto, Enter
<1>1. TypeOK'
  BY DEF IInv, TypeOK, StagePcs, StageState
<1>2. \A r \in Stager \ {s} : stage'[r] = stage[r]
  BY DEF IInv, TypeOK
<1>3. stage'[s].pc = "removing" /\ Working(s)' /\ ~Working(s)
  BY DEF IInv, TypeOK, Working
<1>4. ManifestDescribes' <=> ManifestDescribes
  BY DEF ManifestDescribes, DescribesImage
<1>5. ~overlapped' => ~overlapped /\ \A r \in Stager \ {s} : ~Working(r)
  OBVIOUS
<1>6. Staging'
  BY <1>2, <1>3, <1>4, <1>5, StagingFrom
     DEF IInv, Staging, Written, BeingWritten, Described
<1>7. Begun'
  BY DEF IInv, TypeOK, Begun
<1>8. QED
  BY <1>1, <1>6, <1>7

LEMMA StageRemoves ==
  ASSUME IInv, NEW s \in Stager, RemoveEntry(s)
  PROVE  TypeOK' /\ Begun' /\ Staging'
<1> USE DEF RemoveEntry, Touch
<1>1. dir' = dir \/ \E part \in Part : dir' = [dir EXCEPT ![part] = Nothing]
  OBVIOUS
<1>2. manifest' = manifest \/ manifest' = Absent
  OBVIOUS
<1>3. Absent \in Manifest /\ Absent.state = "absent"
  BY Distinct DEF Absent, Manifest
<1>4. dir' \in [Part -> Content] /\ \A part \in Part : dir'[part] \in {dir[part], Nothing}
  BY <1>1, Distinct DEF IInv, TypeOK
<1>5. raced' \in BOOLEAN
  OBVIOUS
<1>6. TypeOK'
  BY <1>2, <1>3, <1>4, <1>5 DEF IInv, TypeOK
<1>7. Working(s) /\ stage[s].pc = "removing"
  BY DEF Working
<1>8. ASSUME ManifestDescribes
      PROVE  ManifestDescribes'
  BY <1>2, <1>3, <1>4, <1>8 DEF ManifestDescribes, DescribesImage
<1>9. Staging'
  BY <1>7, <1>8, AloneAtWork, StagingFrom
     DEF IInv, Staging, Written, BeingWritten, Described
<1>10. Begun'
  BY DEF IInv, Begun
<1>11. QED
  BY <1>6, <1>9, <1>10

LEMMA StageStartsWriting ==
  ASSUME IInv, NEW s \in Stager, StartWriting(s)
  PROVE  TypeOK' /\ Begun' /\ Staging'
<1> USE DEF StartWriting, Enter
<1>1. ToWrite(stage[s].variant) \in SUBSET Part
  BY DEF ToWrite
<1>2. TypeOK'
  <2>1. [stage[s] EXCEPT !.pc = "write", !.todo = ToWrite(stage[s].variant)] \in StageState
    BY <1>1 DEF IInv, TypeOK, StagePcs, StageState
  <2>2. stage' \in [Stager -> StageState]
    BY <2>1 DEF IInv, TypeOK
  <2>3. overlapped' \in BOOLEAN
    OBVIOUS
  <2>4. QED
    BY <2>2, <2>3 DEF IInv, TypeOK
<1>3. \A r \in Stager \ {s} : stage'[r] = stage[r]
  BY DEF IInv, TypeOK
<1>4. /\ stage'[s].pc = "write" /\ stage'[s].variant = stage[s].variant
      /\ stage'[s].todo = ToWrite(stage[s].variant)
  BY DEF IInv, TypeOK
<1>5. ~overlapped' => ~overlapped /\ \A r \in Stager \ {s} : ~Working(r)
  OBVIOUS
<1>6. manifest = Absent /\ \A part \in Part : dir[part] = Nothing
  BY DEF Empty
<1>7. stage[s].variant \in Variant
  BY DEF IInv, Begun
<1>8. Written(s)'
  BY <1>4, <1>6, <1>7 DEF Written, ToWrite
<1>9. BeingWritten(s)' /\ Described(s)' /\ Working(s)'
  BY <1>4 DEF BeingWritten, Described, Working
<1>10. ManifestDescribes' <=> ManifestDescribes
  BY DEF ManifestDescribes, DescribesImage
<1>11. Staging'
  BY <1>3, <1>5, <1>8, <1>9, <1>10, StagingFrom DEF IInv, Staging
<1>12. Begun'
  BY <1>3, <1>4, <1>7 DEF IInv, Begun
<1>13. QED
  BY <1>2, <1>11, <1>12

LEMMA StageStartsFile ==
  ASSUME IInv, NEW s \in Stager, StartFile(s)
  PROVE  TypeOK' /\ Begun' /\ Staging'
<1> DEFINE v == stage[s].variant
<1>1. PICK part \in NextParts(s) :
        /\ Writable(part)
        /\ dir' = [dir EXCEPT ![part] = Cut]
        /\ stage' = [stage EXCEPT ![s].pc = "writing", ![s].part = part,
                      ![s].source = IF part = "patched" THEN dir["asm"] ELSE Image(v)[part]]
  BY DEF StartFile
<1>2. /\ stage[s].pc = "write"
      /\ UNCHANGED <<manifest, overlapped>> /\ raced' \in BOOLEAN
  BY DEF StartFile, Touch
<1>3. part \in stage[s].todo /\ part \in Part
  <2>1. part \in stage[s].todo
    BY DEF NextParts
  <2>2. stage[s].todo \subseteq Part
    BY DEF IInv, TypeOK, StageState
  <2>3. QED
    BY <2>1, <2>2
<1>4. v \in Variant
  BY <1>2 DEF IInv, Begun
<1>5. dir["asm"] \in Content /\ Image(v)[part] \in Content
  BY <1>3, <1>4, ImageType, Distinct DEF IInv, TypeOK
<1>6. dir' \in [Part -> Content]
  BY <1>1, <1>3, Distinct DEF IInv, TypeOK
<1>7. TypeOK'
  <2> DEFINE source == IF part = "patched" THEN dir["asm"] ELSE Image(v)[part]
  <2>1. source \in Content
    BY <1>5
  <2>2. [stage[s] EXCEPT !.pc = "writing", !.part = part, !.source = source] \in StageState
    BY <1>3, <2>1 DEF IInv, TypeOK, StagePcs, StageState
  <2>3. stage' \in [Stager -> StageState]
    BY <1>1, <2>2 DEF IInv, TypeOK
  <2>4. QED
    BY <1>2, <1>6, <2>3 DEF IInv, TypeOK
<1>8. \A r \in Stager \ {s} : stage'[r] = stage[r]
  BY <1>1 DEF IInv, TypeOK
<1>9. /\ stage'[s].pc = "writing" /\ stage'[s].part = part
      /\ stage'[s].variant = v /\ stage'[s].todo = stage[s].todo
      /\ stage'[s].source = IF part = "patched" THEN dir["asm"] ELSE Image(v)[part]
  BY <1>1 DEF IInv, TypeOK
<1>10. Working(s) /\ Working(s)'
  BY <1>2, <1>9 DEF Working
<1>11. ASSUME ~overlapped
       PROVE  ManifestDescribes' /\ Written(s)' /\ BeingWritten(s)' /\ Described(s)'
  <2>1. Written(s)
    BY <1>11 DEF IInv, Staging
  <2>2. manifest = Absent /\ stage[s].todo \subseteq ToWrite(v)
        /\ \A q \in Part \ stage[s].todo : dir[q] = Image(v)[q]
    BY <1>2, <2>1 DEF Written
  <2>3. manifest'.state = "absent"
    BY <1>2, <2>2 DEF Absent
  <2>4. Written(s)'
    BY <1>1, <1>2, <1>3, <1>4, <1>9, <2>2 DEF Written, IInv, TypeOK
  <2>5. dir'[part] = Cut
    BY <1>1, <1>3 DEF IInv, TypeOK
  <2>6. CASE part = "patched"
    <3>1. "asm" \notin stage[s].todo
      BY <2>6 DEF NextParts, Copied
    <3>2. dir["asm"] = Image(v)["asm"]
      BY <2>2, <3>1, Distinct
    <3>3. dir["asm"] = v /\ Image(v)["patched"] = v
      BY <3>2, Distinct DEF Image
    <3>4. QED
      BY <1>3, <1>9, <2>3, <2>4, <2>5, <2>6, <3>3
         DEF BeingWritten, ManifestDescribes, Described
  <2>7. CASE part # "patched"
    BY <1>3, <1>9, <2>3, <2>4, <2>5, <2>7 DEF BeingWritten, ManifestDescribes, Described
  <2>8. QED
    BY <2>6, <2>7
<1>12. Staging'
  BY <1>2, <1>8, <1>10, <1>11, AloneAtWork, StagingFrom
<1>13. Begun'
  BY <1>4, <1>8, <1>9 DEF IInv, Begun
<1>14. QED
  BY <1>7, <1>12, <1>13

LEMMA StageFinishesFile ==
  ASSUME IInv, NEW s \in Stager, FinishFile(s)
  PROVE  TypeOK' /\ Begun' /\ Staging'
<1> DEFINE part == stage[s].part
           v == stage[s].variant
<1>1. /\ stage[s].pc = "writing" /\ UNCHANGED <<manifest, overlapped>> /\ raced' \in BOOLEAN
      /\ stage' = [stage EXCEPT ![s].pc = "write", ![s].todo = @ \ {part},
                     ![s].source = Nothing]
      /\ \/ dir[part] # Nothing /\ dir' = [dir EXCEPT ![part] = stage[s].source]
         \/ dir[part] = Nothing /\ UNCHANGED dir
         \/ dir[part] \notin {Nothing, Cut} /\ dir' = [dir EXCEPT ![part] = Cut]
  BY DEF FinishFile, Touch
<1>2. part \in Part /\ stage[s].source \in Content /\ v \in Variant
  BY <1>1 DEF IInv, TypeOK, StageState, Begun
<1>3. TypeOK'
  <2>1. dir' \in [Part -> Content]
    BY <1>1, <1>2, Distinct DEF IInv, TypeOK
  <2>2. [stage[s] EXCEPT !.pc = "write", !.todo = @ \ {part}, !.source = Nothing] \in StageState
    BY Distinct DEF IInv, TypeOK, StagePcs, StageState
  <2>3. stage' \in [Stager -> StageState]
    BY <1>1, <2>2 DEF IInv, TypeOK
  <2>4. QED
    BY <1>1, <2>1, <2>3 DEF IInv, TypeOK
<1>4. \A r \in Stager \ {s} : stage'[r] = stage[r]
  BY <1>1 DEF IInv, TypeOK
<1>5. /\ stage'[s].pc = "write" /\ stage'[s].variant = v
      /\ stage'[s].todo = stage[s].todo \ {part}
  BY <1>1 DEF IInv, TypeOK, StageState
<1>6. Begun'
  BY <1>2, <1>4, <1>5 DEF IInv, Begun
<1>7. Working(s) /\ Working(s)'
  BY <1>1, <1>5 DEF Working
<1>8. ASSUME ~overlapped
      PROVE  ManifestDescribes' /\ Written(s)' /\ BeingWritten(s)' /\ Described(s)'
  <2>1. Written(s) /\ BeingWritten(s)
    BY <1>8 DEF IInv, Staging
  <2>2. manifest = Absent /\ stage[s].todo \subseteq ToWrite(v)
        /\ \A q \in Part \ stage[s].todo : dir[q] = Image(v)[q]
    BY <1>1, <2>1 DEF Written
  <2>3. dir[part] = Cut /\ stage[s].source = Image(v)[part]
    BY <1>1, <2>1 DEF BeingWritten
  <2>4. Cut # Nothing
    BY DistributionAssumption
  <2>5. dir' = [dir EXCEPT ![part] = Image(v)[part]]
    BY <1>1, <2>3, <2>4
  <2>6. Written(s)'
    BY <1>1, <1>2, <1>5, <2>2, <2>5 DEF Written, IInv, TypeOK
  <2>7. ManifestDescribes'
    BY <1>1, <2>2 DEF ManifestDescribes, Absent
  <2>8. QED
    BY <1>5, <2>6, <2>7 DEF BeingWritten, Described
<1>9. Staging'
  BY <1>1, <1>4, <1>7, <1>8, AloneAtWork, StagingFrom
<1>10. QED
  BY <1>3, <1>6, <1>9

LEMMA StageCollects ==
  ASSUME IInv, NEW s \in Stager, CollectHashes(s)
  PROVE  TypeOK' /\ Begun' /\ Staging'
<1>1. CASE Leave(s)
  BY <1>1, StageLeaves DEF CollectHashes
<1>2. CASE /\ dir["lock"] \in Variant /\ dir["wheel"] # Cut
           /\ stage' = [stage EXCEPT ![s].pc = "manifestCut", ![s].held = Describe(s)]
  <2> DEFINE v == stage[s].variant
  <2>1. /\ stage[s].pc = "write" /\ stage[s].todo = {}
        /\ UNCHANGED <<dir, manifest, overlapped, raced>>
    BY DEF CollectHashes
  <2>2. v \in Variant
    BY <2>1 DEF IInv, Begun
  <2>3. Describe(s) \in Manifest
    BY <2>2, Distinct DEF Describe, Features, Manifest, IInv, TypeOK
  <2>4. [stage[s] EXCEPT !.pc = "manifestCut", !.held = Describe(s)] \in StageState
    BY <2>3 DEF IInv, TypeOK, StagePcs, StageState
  <2>5. TypeOK'
    BY <1>2, <2>1, <2>4 DEF IInv, TypeOK
  <2>6. \A r \in Stager \ {s} : stage'[r] = stage[r]
    BY <1>2 DEF IInv, TypeOK
  <2>7. stage'[s].pc = "manifestCut" /\ stage'[s].variant = v /\ stage'[s].held = Describe(s)
    BY <1>2 DEF IInv, TypeOK, StageState
  <2>8. Begun'
    BY <2>2, <2>6, <2>7 DEF IInv, Begun
  <2>9. Working(s) /\ Working(s)'
    BY <2>1, <2>7 DEF Working
  <2>10. ASSUME ~overlapped
         PROVE  Described(s)'
    <3>1. \A part \in Part : dir[part] = Image(v)[part]
      BY <2>1, <2>10 DEF IInv, Staging, Written
    <3>2. dir = Image(v)
      BY <2>2, <3>1, ImageType DEF IInv, TypeOK
    <3>3. Image(v)["lock"] = v
      BY Distinct DEF Image
    <3>4. Describe(s).state = "whole" /\ DescribesImage(Describe(s)) /\ Describe(s).files = dir
      BY <3>2, <3>3 DEF Describe, Features, DescribesImage
    <3>5. QED
      BY <2>1, <2>7, <3>4 DEF Described
  <2>11. ManifestDescribes' <=> ManifestDescribes
    BY <2>1 DEF ManifestDescribes, DescribesImage
  <2>12. Written(s)' /\ BeingWritten(s)'
    BY <2>7 DEF Written, BeingWritten
  <2>13. Staging'
    BY <2>1, <2>6, <2>9, <2>10, <2>11, <2>12, AloneAtWork, StagingFrom DEF IInv, Staging
  <2>14. QED
    BY <2>5, <2>8, <2>13
<1>3. QED
  BY <1>1, <1>2 DEF CollectHashes

LEMMA StageCutsManifest ==
  ASSUME IInv, NEW s \in Stager, ManifestCut(s)
  PROVE  TypeOK' /\ Begun' /\ Staging'
<1>1. /\ stage[s].pc = "manifestCut" /\ stage' = [stage EXCEPT ![s].pc = "manifestWrite"]
      /\ manifest' = Torn /\ UNCHANGED <<dir, overlapped>> /\ raced' \in BOOLEAN
  BY DEF ManifestCut, StageGoto, Touch
<1>2. Torn \in Manifest /\ Torn.state = "torn"
  BY Distinct DEF Torn, Absent, Manifest
<1>3. [stage[s] EXCEPT !.pc = "manifestWrite"] \in StageState
  BY DEF IInv, TypeOK, StagePcs, StageState
<1>4. TypeOK'
  BY <1>1, <1>2, <1>3 DEF IInv, TypeOK
<1>5. \A r \in Stager \ {s} : stage'[r] = stage[r]
  BY <1>1 DEF IInv, TypeOK
<1>6. /\ stage'[s].pc = "manifestWrite" /\ stage'[s].variant = stage[s].variant
      /\ stage'[s].held = stage[s].held
  BY <1>1 DEF IInv, TypeOK, StageState
<1>7. Begun'
  BY <1>1, <1>5, <1>6 DEF IInv, Begun
<1>8. Working(s) /\ Working(s)'
  BY <1>1, <1>6 DEF Working
<1>9. ASSUME ~overlapped
      PROVE  Described(s)'
  BY <1>1, <1>6, <1>9 DEF IInv, Staging, Described, DescribesImage
<1>10. ManifestDescribes' /\ Written(s)' /\ BeingWritten(s)'
  BY <1>1, <1>2, <1>6 DEF ManifestDescribes, Written, BeingWritten
<1>11. Staging'
  BY <1>1, <1>5, <1>8, <1>9, <1>10, AloneAtWork, StagingFrom
<1>12. QED
  BY <1>4, <1>7, <1>11

LEMMA StageWritesManifest ==
  ASSUME IInv, NEW s \in Stager, ManifestWrite(s)
  PROVE  TypeOK' /\ Begun' /\ Staging'
<1>1. /\ stage[s].pc = "manifestWrite" /\ Leave(s)
      /\ manifest' \in {stage[s].held, manifest, Torn}
      /\ UNCHANGED <<dir, overlapped>> /\ raced' \in BOOLEAN
  BY DEF ManifestWrite, Touch
<1>2. Torn \in Manifest /\ Torn.state = "torn" /\ IdleStage \in StageState
  BY Distinct DEF Torn, IdleStage, Absent, Manifest, StagePcs, StageState
<1>3. stage[s].held \in Manifest
  BY DEF IInv, TypeOK, StageState
<1>4. TypeOK'
  BY <1>1, <1>2, <1>3 DEF Leave, IInv, TypeOK
<1>5. \A r \in Stager \ {s} : stage'[r] = stage[r]
  BY <1>1 DEF Leave, IInv, TypeOK
<1>6. stage'[s].pc = "idle"
  BY <1>1 DEF Leave, IdleStage, IInv, TypeOK
<1>7. Begun'
  BY <1>5, <1>6 DEF IInv, Begun
<1>8. Working(s)
  BY <1>1 DEF Working
<1>9. ASSUME ~overlapped
      PROVE  ManifestDescribes'
  <2>1. Described(s) /\ ManifestDescribes
    BY <1>9 DEF IInv, Staging
  <2>2. CASE manifest' = stage[s].held
    BY <1>1, <2>1, <2>2 DEF Described, ManifestDescribes, DescribesImage
  <2>3. CASE manifest' = manifest
    BY <1>1, <2>1, <2>3 DEF ManifestDescribes, DescribesImage
  <2>4. CASE manifest' = Torn
    BY <1>2, <2>4 DEF ManifestDescribes
  <2>5. QED
    BY <1>1, <2>2, <2>3, <2>4
<1>10. Written(s)' /\ BeingWritten(s)' /\ Described(s)'
  BY <1>6 DEF Written, BeingWritten, Described
<1>11. Staging'
  BY <1>1, <1>5, <1>8, <1>9, <1>10, AloneAtWork, StagingFrom
<1>12. QED
  BY <1>4, <1>7, <1>11

LEMMA StageStepKeeps ==
  ASSUME IInv, NEW s \in Stager, StageStep(s)
  PROVE  IInv'
<1>1. TypeOK' /\ Begun' /\ Staging'
  BY StageStarts, StageLeaves, StageStartsRemoving, StageRemoves, StageStartsWriting,
     StageStartsFile, StageFinishesFile, StageCollects, StageCutsManifest,
     StageWritesManifest
     DEF StageStep, Refuse, PatchFails, Abort
<1>2. UNCHANGED host
  BY DEF StageStep, Stage, Refuse, StartRemoving, RemoveEntry, StartWriting, StartFile,
         PatchFails, FinishFile, CollectHashes, ManifestCut, ManifestWrite, Abort, Enter,
         Touch
<1>3. (dir' = dir /\ raced' = raced) \/ raced' = (raced \/ \E e \in Engine : Reading(e))
  BY DEF StageStep, Stage, Refuse, StartRemoving, RemoveEntry, StartWriting, StartFile,
         PatchFails, FinishFile, CollectHashes, ManifestCut, ManifestWrite, Abort, Enter,
         Touch
<1>4. overlapped' = overlapped \/ overlapped' = (overlapped \/ \E r \in Stager \ {s} : Working(r))
  BY DEF StageStep, Stage, Refuse, StartRemoving, RemoveEntry, StartWriting, StartFile,
         PatchFails, FinishFile, CollectHashes, ManifestCut, ManifestWrite, Abort, Enter,
         Touch
<1>5. ~raced' => ~raced /\ (dir' = dir \/ \A e \in Engine : ~Reading(e))
  BY <1>3
<1>6. ~overlapped' => ~overlapped
  BY <1>4
<1>7. QED
  BY <1>1, <1>2, <1>5, <1>6, EnginesAreLeft DEF IInv

-----------------------------------------------------------------------------
(* Engines                                                                 *)

LEMMA Orders ==
  /\ AssetOrder = <<"patched", "lock">> /\ AssetOrder # <<>> /\ <<"lock">> # <<>>
  /\ Head(AssetOrder) = "patched" /\ Tail(AssetOrder) = <<"lock">>
  /\ Head(<<"lock">>) = "lock" /\ Tail(<<"lock">>) = <<>>
  BY DEF AssetOrder

LEMMA Fields ==
  ASSUME IInv, NEW e \in Engine
  PROVE  /\ DOMAIN engine[e] = FieldNames
         /\ \A r : [engine EXCEPT ![e] = r][e] = r
  BY DEF IInv, Shape

(* The caches never give up or replace an entry.                           *)
CachesGrow ==
  /\ \A x \in DOMAIN assetCache : x \in DOMAIN assetCache' /\ assetCache'[x] = assetCache[x]
  /\ \A x \in DOMAIN metadataCache :
       x \in DOMAIN metadataCache' /\ metadataCache'[x] = metadataCache[x]

LEMMA OthersKeep ==
  ASSUME IInv, NEW d \in Engine, engine'[d] = engine[d], UNCHANGED Directory, CachesGrow
  PROVE  Holds(d)' /\ Given(d)' /\ (Agrees(d) => Agrees(d)')
<1> USE DEF Directory
<1>1. Holds(d)'
  BY DEF IInv, Holds, DescribesImage
<1>2. \A part : Cached(d, part) =>
        Cached(d, part)' /\ assetCache'[CacheKey(d, part)'] = assetCache[CacheKey(d, part)]
  BY DEF Cached, CacheKey, CachesGrow
<1>3. \A lock : Cached(d, "patched") => Assets(d, lock)' = Assets(d, lock)
  BY <1>2 DEF Assets
<1>4. Given(d)
  BY DEF IInv
<1>5. Given(d)'
  BY <1>2, <1>3, <1>4 DEF Given, CachesGrow
<1>6. Agrees(d) => Agrees(d)'
  BY <1>2 DEF Agrees, Reading, Booted
<1>7. QED
  BY <1>1, <1>5, <1>6

LEMMA EngineFrom ==
  ASSUME IInv, NEW e \in Engine, UNCHANGED Directory, CachesGrow,
         NEW r, engine' = [engine EXCEPT ![e] = r],
         DOMAIN r = FieldNames,
         Holds(e)', Given(e)',
         ~raced /\ ~overlapped => CachesAgree' /\ Agrees(e)'
  PROVE  IInv'
<1>1. TypeOK' /\ Begun' /\ Staging'
  BY DEF Directory, IInv, TypeOK, Begun, Staging, OneWorks, Working, ManifestDescribes,
         DescribesImage, Written, BeingWritten, Described
<1>2. engine'[e] = r /\ \A d \in Engine \ {e} : engine'[d] = engine[d]
  BY DEF IInv, Shape
<1>3. Shape'
  BY <1>2 DEF IInv, Shape
<1>4. \A d \in Engine : Holds(d)' /\ Given(d)'
  BY <1>2, OthersKeep
<1>5. Unraced'
  BY <1>2, OthersKeep DEF IInv, Unraced, Directory
<1>6. QED
  BY <1>1, <1>3, <1>4, <1>5 DEF IInv

LEMMA SameCaches ==
  UNCHANGED <<assetCache, metadataCache>> => CachesGrow /\ (CachesAgree => CachesAgree')
  BY DEF CachesGrow, CachesAgree

LEMMA EngineIsDropped ==
  ASSUME IInv, NEW e \in Engine, Fail(e), UNCHANGED <<Directory, assetCache, metadataCache>>
  PROVE  IInv'
<1>1. engine' = [engine EXCEPT ![e] = IdleEngine] /\ engine'[e] = IdleEngine
  BY DEF Fail, IInv, Shape
<1>2. Holds(e)' /\ Given(e)' /\ Agrees(e)'
  BY <1>1 DEF Holds, Given, Agrees, Reading, IdleEngine
<1>3. QED
  BY <1>1, <1>2, SameCaches, EngineFrom DEF IInv, Unraced, IdleEngine, FieldNames

LEMMA EngineOpens ==
  ASSUME IInv, NEW e \in Engine, Open(e)
  PROVE  IInv'
<1> DEFINE known == Key(manifest) \in verified
           r == [engine[e] EXCEPT !.pc = IF known THEN "read" ELSE "verify",
                   !.held = manifest,
                   !.todo = IF known THEN AssetOrder ELSE Listed(manifest)]
<1>1. /\ engine[e].pc = "idle" /\ manifest.state = "whole"
      /\ UNCHANGED <<Directory, assetCache, metadataCache>>
  BY DEF Open
<1>2. /\ engine' = [engine EXCEPT ![e] = r] /\ engine'[e] = r /\ DOMAIN r = FieldNames
      /\ r.pc = (IF known THEN "read" ELSE "verify") /\ r.held = manifest
      /\ r.todo = (IF known THEN AssetOrder ELSE Listed(manifest))
      /\ r.assets = engine[e].assets
  <2>1. engine' = [engine EXCEPT ![e] = r]
    BY DEF Open
  <2>2. QED
    BY <2>1, Fields DEF FieldNames
<1> HIDE DEF r
<1>3. engine[e].assets = NoAssets
  BY <1>1 DEF IInv, Given
<1>4. ~overlapped => ManifestDescribes
  BY DEF IInv, Staging
<1>5. Holds(e)'
  BY <1>1, <1>2, <1>4 DEF Holds, ManifestDescribes, DescribesImage, Directory
<1>6. Given(e)'
  <2>1. \/ engine'[e].pc = "verify"
        \/ engine'[e].pc = "read" /\ engine'[e].todo = AssetOrder
    BY <1>2
  <2>2. engine'[e].assets = NoAssets
    BY <1>2, <1>3
  <2>3. QED
    BY <2>1, <2>2 DEF Given
<1>7. ~overlapped => Agrees(e)'
  <2>1. engine'[e].pc \notin {"insert", "metadata"}
    BY <1>2
  <2>2. QED
    BY <1>1, <1>2, <1>4, <2>1 DEF Agrees, ManifestDescribes, Directory
<1>8. QED
  BY <1>1, <1>2, <1>5, <1>6, <1>7, SameCaches, EngineFrom DEF IInv, Unraced

LEMMA EngineVerifiesFile ==
  ASSUME IInv, NEW e \in Engine, VerifyFile(e)
  PROVE  IInv'
<1> DEFINE r == [engine[e] EXCEPT !.todo = Tail(@)]
<1>1. engine[e].pc = "verify" /\ UNCHANGED <<Directory, assetCache, metadataCache>>
  BY DEF VerifyFile, Shared
<1>2. CASE Fail(e)
  BY <1>1, <1>2, EngineIsDropped
<1>3. CASE engine' = [engine EXCEPT ![e] = r]
  <2>1. /\ engine'[e] = r /\ r.pc = "verify" /\ r.held = engine[e].held
        /\ r.assets = engine[e].assets
        /\ DOMAIN r = FieldNames
    BY <1>1, <1>3, Fields DEF FieldNames
  <2>2. Reading(e)
    BY <1>1 DEF Reading, Booted
  <2>3. Holds(e)'
    BY <1>1, <2>1 DEF IInv, Holds, DescribesImage, Directory
  <2>4. Given(e)'
    BY <1>1, <2>1 DEF IInv, Given
  <2>5. Agrees(e) => Agrees(e)'
    BY <1>1, <2>1, <2>2 DEF Agrees, Directory, Cached, CacheKey
  <2>6. QED
    BY <1>1, <1>3, <2>1, <2>3, <2>4, <2>5, SameCaches, EngineFrom DEF IInv, Unraced
<1>4. QED
  BY <1>2, <1>3 DEF VerifyFile

LEMMA EngineIsVerified ==
  ASSUME IInv, NEW e \in Engine, Verified(e)
  PROVE  IInv'
<1> DEFINE r == [engine[e] EXCEPT !.pc = "read", !.todo = AssetOrder]
<1>1. engine[e].pc = "verify" /\ UNCHANGED <<Directory, assetCache, metadataCache>>
  BY DEF Verified
<1>2. engine' = [engine EXCEPT ![e] = r]
  BY DEF Verified
<1>3. /\ engine'[e] = r /\ r.pc = "read" /\ r.held = engine[e].held
      /\ r.assets = engine[e].assets /\ r.todo = AssetOrder
      /\ DOMAIN r = FieldNames
  BY <1>1, <1>2, Fields DEF FieldNames
<1>4. Reading(e)
  BY <1>1 DEF Reading, Booted
<1>5. Holds(e)'
  BY <1>1, <1>3 DEF IInv, Holds, DescribesImage, Directory
<1>6. Given(e)'
  BY <1>1, <1>3 DEF IInv, Given
<1>7. Agrees(e) => Agrees(e)'
  BY <1>1, <1>3, <1>4 DEF Agrees, Directory, Cached, CacheKey
<1>8. QED
  BY <1>1, <1>2, <1>3, <1>5, <1>6, <1>7, SameCaches, EngineFrom DEF IInv, Unraced

(* What register_core_assets gives an engine is in the cache.              *)
LEMMA EngineIsGiven ==
  ASSUME IInv, NEW e \in Engine, engine[e].pc \in {"read", "insert"}, engine[e].todo # <<>>,
         NEW content, Install(e, content),
         UNCHANGED <<Directory, metadataCache>>, CachesGrow,
         AssetKey(e) \in DOMAIN assetCache', assetCache'[AssetKey(e)] = content,
         ~raced /\ ~overlapped => CachesAgree'
  PROVE  IInv'
<1> DEFINE todo == engine[e].todo
           assets == [engine[e].assets EXCEPT ![Head(todo)] = content]
           r == [engine[e] EXCEPT !.assets = assets, !.got = Nothing,
                   !.pc = IF Head(todo) = "lock" THEN "metadata" ELSE "read",
                   !.todo = IF Head(todo) = "lock" THEN @ ELSE Tail(@)]
<1>1. /\ engine' = [engine EXCEPT ![e] = r] /\ engine'[e] = r /\ DOMAIN r = FieldNames
      /\ r.pc = (IF Head(todo) = "lock" THEN "metadata" ELSE "read")
      /\ r.held = engine[e].held /\ r.assets = assets
      /\ r.todo = IF Head(todo) = "lock" THEN todo ELSE Tail(todo)
  <2>1. engine' = [engine EXCEPT ![e] = r]
    BY DEF Install
  <2>2. QED
    BY <2>1, Fields DEF FieldNames
<1> HIDE DEF r
<1>2. Holds(e)'
  BY <1>1 DEF IInv, Holds, DescribesImage, Directory
<1>3. \A part \in Part : /\ CacheKey(e, part)' = CacheKey(e, part)
                         /\ Cached(e, part) => Cached(e, part)'
  BY <1>1 DEF CacheKey, Cached, CachesGrow
<1>4. Given(e)
  BY DEF IInv
<1>5. CASE todo = AssetOrder
  <2>1. Head(todo) = "patched" /\ Tail(todo) = <<"lock">>
    BY <1>5, Orders
  <2>2. engine[e].assets = NoAssets
    BY <1>4, <1>5, Orders DEF Given
  <2>3. assets = [part \in Part |-> IF part = "patched" THEN content ELSE Nothing]
    BY <2>1, <2>2 DEF NoAssets
  <2>4. AssetKey(e) = CacheKey(e, "patched")
    BY <2>1 DEF AssetKey, CacheKey
  <2>5. Cached(e, "patched")' /\ assets = Assets(e, Nothing)'
    BY <1>3, <2>3, <2>4, Distinct DEF Assets, Cached
  <2>6. Given(e)'
    <3>1. engine'[e].pc = "read" /\ engine'[e].todo = <<"lock">> /\ engine'[e].assets = assets
      BY <1>1, <2>1
    <3>2. QED
      BY <2>5, <3>1 DEF Given
  <2>7. Reading(e)
    BY <1>5, Orders DEF Reading, Booted
  <2>8. Agrees(e) => Agrees(e)'
    BY <1>1, <1>3, <2>1, <2>7, Distinct DEF Agrees, Directory
  <2>9. QED
    BY <1>1, <1>2, <2>6, <2>8, EngineFrom DEF IInv, Unraced
<1>6. CASE todo = <<"lock">>
  <2>1. Head(todo) = "lock"
    BY <1>6, Orders
  <2>2. Cached(e, "patched") /\ engine[e].assets = Assets(e, Nothing)
    BY <1>4, <1>6, Orders DEF Given
  <2>3. assetCache'[CacheKey(e, "patched")] = assetCache[CacheKey(e, "patched")]
    BY <2>2 DEF Cached, CachesGrow
  <2>4. assets = Assets(e, content)'
    BY <1>3, <2>1, <2>2, <2>3, Distinct DEF Assets
  <2>5. assets["lock"] = content
    BY <2>1, <2>2, Distinct DEF Assets
  <2>6. AssetKey(e) = CacheKey(e, "lock")
    BY <2>1 DEF AssetKey, CacheKey
  <2>7. Cached(e, "patched")' /\ Cached(e, "lock")'
    BY <1>3, <2>2, <2>6, Distinct DEF Cached
  <2>8. Given(e)'
    <3>1. /\ engine'[e].pc = "metadata" /\ engine'[e].todo = <<"lock">>
          /\ engine'[e].assets = assets
      BY <1>1, <1>6, <2>1
    <3>2. QED
      BY <2>4, <2>5, <2>7, <3>1 DEF Given
  <2>9. CachesAgree' => content = engine[e].held.files["lock"]
    BY <2>6 DEF CachesAgree, CacheKey, Key
  <2>10. Reading(e)
    BY <1>6, Orders DEF Reading, Booted
  <2>11. Agrees(e) /\ CachesAgree' => Agrees(e)'
    BY <1>1, <2>1, <2>5, <2>7, <2>9 DEF Agrees
  <2>12. QED
    BY <1>1, <1>2, <2>8, <2>11, EngineFrom DEF IInv, Unraced
<1>7. QED
  BY <1>4, <1>5, <1>6 DEF Given

LEMMA EngineReadsCached ==
  ASSUME IInv, NEW e \in Engine, ReadCached(e)
  PROVE  IInv'
  BY EngineIsGiven, SameCaches DEF ReadCached, Shared, IInv, Unraced

LEMMA EngineReadsFile ==
  ASSUME IInv, NEW e \in Engine, ReadFile(e)
  PROVE  IInv'
<1> DEFINE part == Head(engine[e].todo)
           r == [engine[e] EXCEPT !.pc = "insert", !.got = dir[part]]
<1>1. /\ engine[e].pc = "read" /\ engine[e].todo # <<>> /\ AssetKey(e) \notin DOMAIN assetCache
      /\ UNCHANGED <<Directory, assetCache, metadataCache>>
  BY DEF ReadFile, Shared
<1>2. CASE Fail(e)
  BY <1>1, <1>2, EngineIsDropped
<1>3. CASE dir[part] # Nothing /\ engine' = [engine EXCEPT ![e] = r]
  <2>1. /\ r.pc = "insert" /\ r.held = engine[e].held /\ r.todo = engine[e].todo
        /\ r.got = dir[part] /\ r.assets = engine[e].assets /\ DOMAIN r = FieldNames
    BY Fields DEF FieldNames
  <2>2. engine'[e] = r
    BY <1>3, Fields
  <2> HIDE DEF r
  <2>3. Holds(e)'
    BY <1>1, <2>1, <2>2 DEF IInv, Holds, DescribesImage, Directory
  <2>4. Given(e)'
    <3>1. /\ engine'[e].pc = "insert" /\ engine'[e].held = engine[e].held
          /\ engine'[e].todo = engine[e].todo /\ engine'[e].assets = engine[e].assets
      BY <2>1, <2>2
    <3>2. \A q : CacheKey(e, q)' = CacheKey(e, q) /\ (Cached(e, q)' <=> Cached(e, q))
      BY <1>1, <3>1 DEF CacheKey, Cached
    <3>3. Assets(e, Nothing)' = Assets(e, Nothing)
      BY <1>1, <3>2 DEF Assets
    <3>4. Given(e)
      BY DEF IInv
    <3>5. QED
      BY <1>1, <3>1, <3>2, <3>3, <3>4 DEF Given
  <2>5. part \in {"patched", "lock"}
    BY <1>1, Orders DEF IInv, Given
  <2>6. ~Cached(e, part)
    BY <1>1 DEF Cached, CacheKey, AssetKey
  <2>7. Reading(e)
    BY <1>1 DEF Reading, Booted
  <2>8. Agrees(e) => Agrees(e)'
    <3>1. ASSUME Agrees(e)
          PROVE  \A q \in Part : dir[q] \in {engine[e].held.files[q], Nothing}
      BY <2>5, <2>6, <2>7, <3>1 DEF Agrees
    <3>2. part \in Part
      BY <2>5, Distinct
    <3>3. QED
      BY <1>1, <1>3, <2>1, <2>2, <3>1, <3>2 DEF Agrees, Directory
  <2>9. QED
    BY <1>1, <1>3, <2>1, <2>3, <2>4, <2>8, SameCaches, EngineFrom DEF IInv, Unraced
<1>4. QED
  BY <1>2, <1>3 DEF ReadFile

LEMMA EngineInserts ==
  ASSUME IInv, NEW e \in Engine, Insert(e)
  PROVE  IInv'
<1> DEFINE key == AssetKey(e)
<1>1. /\ engine[e].pc = "insert" /\ UNCHANGED <<Directory, metadataCache>>
      /\ assetCache' = [k \in DOMAIN assetCache \cup {key} |->
                          IF k \in DOMAIN assetCache THEN assetCache[k] ELSE engine[e].got]
      /\ Install(e, FirstRead(e))
  BY DEF Insert, Directory
<1>2. engine[e].todo # <<>>
  BY <1>1, Orders DEF IInv, Given
<1>3. CachesGrow
  BY <1>1 DEF CachesGrow
<1>4. key \in DOMAIN assetCache' /\ assetCache'[key] = FirstRead(e)
  BY <1>1 DEF FirstRead
<1>5. ASSUME ~raced, ~overlapped
      PROVE  CachesAgree'
  <2>1. CachesAgree /\ Agrees(e)
    BY <1>5 DEF IInv, Unraced
  <2>2. engine[e].got = key[1].files[key[2]]
    BY <1>1, <2>1 DEF Agrees, AssetKey, Key
  <2>3. QED
    BY <1>1, <2>1, <2>2 DEF CachesAgree
<1>6. QED
  BY <1>1, <1>2, <1>3, <1>4, <1>5, EngineIsGiven

LEMMA EngineParsesLockfile ==
  ASSUME IInv, NEW e \in Engine, ParseLockfile(e)
  PROVE  IInv'
<1> DEFINE key == engine[e].held.lock
           text == engine[e].assets["lock"]
           built == IF key \in DOMAIN metadataCache THEN metadataCache[key] ELSE text
           assets == [engine[e].assets EXCEPT !["lock"] = built]
           r == [engine[e] EXCEPT !.pc = "read", !.todo = Tail(@), !.assets = assets]
<1>1. engine[e].pc = "metadata" /\ UNCHANGED <<Directory, assetCache>>
  BY DEF ParseLockfile, Directory
<1>2. CASE Fail(e) /\ UNCHANGED metadataCache
  BY <1>1, <1>2, EngineIsDropped
<1>3. CASE /\ metadataCache' = [k \in DOMAIN metadataCache \cup {key} |->
                                  IF k = key THEN built ELSE metadataCache[k]]
           /\ engine' = [engine EXCEPT ![e].pc = "read", ![e].todo = Tail(@),
                                       ![e].assets["lock"] = built]
  <2>1. /\ engine' = [engine EXCEPT ![e] = r] /\ engine'[e] = r /\ DOMAIN r = FieldNames
        /\ r.pc = "read" /\ r.held = engine[e].held /\ r.todo = Tail(engine[e].todo)
        /\ r.assets = assets
    <3>1. engine' = [engine EXCEPT ![e] = r]
      BY <1>3
    <3>2. QED
      BY <3>1, Fields DEF FieldNames
  <2> HIDE DEF r
  <2>2. CachesGrow
    BY <1>1, <1>3 DEF CachesGrow
  <2>3. Holds(e)'
    BY <1>1, <2>1 DEF IInv, Holds, DescribesImage, Directory
  <2>4. /\ engine[e].todo = <<"lock">> /\ Cached(e, "patched") /\ Cached(e, "lock")
        /\ engine[e].assets = Assets(e, text)
    BY <1>1 DEF IInv, Given
  <2>5. assets = Assets(e, built)
    BY <2>4, Distinct DEF Assets
  <2>6. Given(e)'
    <3>1. key \in DOMAIN metadataCache' /\ metadataCache'[key] = built
      BY <1>3
    <3>2. Assets(e, metadataCache[key])' = Assets(e, built)
      BY <1>1, <2>1, <3>1 DEF Assets, CacheKey
    <3>3. r.todo = <<>>
      BY <2>1, <2>4, Orders
    <3>4. QED
      BY <1>1, <2>1, <2>4, <2>5, <3>1, <3>2, <3>3 DEF Given, Cached, CacheKey
  <2>7. ASSUME ~raced, ~overlapped
        PROVE  CachesAgree' /\ Agrees(e)'
    <3>1. CachesAgree /\ Agrees(e) /\ Holds(e)
      BY <2>7 DEF IInv, Unraced
    <3>2. text = key
      BY <1>1, <2>7, <3>1, Distinct DEF Agrees, Holds, DescribesImage, Image
    <3>3. built = key
      BY <3>1, <3>2 DEF CachesAgree
    <3>4. CachesAgree'
      BY <1>1, <1>3, <3>1, <3>3 DEF CachesAgree
    <3>5. Agrees(e)'
      BY <2>1, <2>4, Orders DEF Agrees, Reading, Booted
    <3>6. QED
      BY <3>4, <3>5
  <2>8. QED
    BY <1>1, <2>1, <2>2, <2>3, <2>6, <2>7, EngineFrom
<1>4. QED
  BY <1>2, <1>3 DEF ParseLockfile

LEMMA EngineResets ==
  ASSUME IInv, NEW e \in Engine, ResetInPlace(e)
  PROVE  IInv'
<1> DEFINE r == [engine[e] EXCEPT !.todo = AssetOrder, !.assets = NoAssets]
<1>1. /\ engine[e].pc = "read" /\ engine[e].todo = <<>>
      /\ UNCHANGED <<Directory, assetCache, metadataCache>>
      /\ engine' = [engine EXCEPT ![e] = r]
  BY DEF ResetInPlace, Booted, Shared
<1>2. /\ r.pc = engine[e].pc /\ r.held = engine[e].held /\ r.todo = AssetOrder
      /\ r.assets = NoAssets /\ DOMAIN r = FieldNames
  BY Fields DEF FieldNames
<1>3. engine'[e] = r
  BY <1>1, Fields
<1> HIDE DEF r
<1>4. Cached(e, "patched") /\ Cached(e, "lock")
  BY <1>1, Orders DEF IInv, Given
<1>5. Holds(e)' /\ Given(e)'
  <2>1. Holds(e)'
    BY <1>1, <1>2, <1>3 DEF IInv, Holds, DescribesImage, Directory
  <2>2. Given(e)'
    BY <1>1, <1>2, <1>3 DEF Given
  <2>3. QED
    BY <2>1, <2>2
<1>6. Agrees(e)'
  BY <1>1, <1>2, <1>3, <1>4 DEF Agrees, Cached, CacheKey
<1>7. QED
  BY <1>1, <1>2, <1>5, <1>6, SameCaches, EngineFrom DEF IInv, Unraced

LEMMA HostRestarts == IInv /\ RestartHost => IInv'
<1> SUFFICES ASSUME IInv, RestartHost
             PROVE  IInv'
  OBVIOUS
<1>1. /\ UNCHANGED <<dir, manifest, stage, overlapped>> /\ raced' = FALSE
      /\ engine' = [e \in Engine |-> IdleEngine]
      /\ assetCache' = <<>> /\ metadataCache' = <<>>
  BY DEF RestartHost
<1>2. TypeOK' /\ Begun' /\ Staging'
  BY <1>1 DEF IInv, TypeOK, Begun, Staging, OneWorks, Working, ManifestDescribes,
         DescribesImage, Written, BeingWritten, Described
<1>3. Shape' /\ \A e \in Engine : Holds(e)' /\ Given(e)' /\ Agrees(e)'
  BY <1>1 DEF Shape, FieldNames, Holds, Given, Agrees, Reading, IdleEngine
<1>4. CachesAgree'
  BY <1>1 DEF CachesAgree
<1>5. QED
  BY <1>2, <1>3, <1>4 DEF IInv, Unraced

-----------------------------------------------------------------------------
LEMMA Initially == Init => IInv
<1> SUFFICES ASSUME Init
             PROVE  IInv
  OBVIOUS
<1>1. Absent \in Manifest /\ Absent.state = "absent" /\ IdleStage \in StageState
  BY Distinct DEF IdleStage, Absent, Manifest, StagePcs, StageState
<1>2. TypeOK
  BY <1>1, Distinct DEF Init, TypeOK
<1>3. Begun /\ Staging
  BY <1>1 DEF Init, Begun, Staging, OneWorks, Working, ManifestDescribes, Written, BeingWritten,
         Described, IdleStage
<1>4. Shape /\ \A e \in Engine : Holds(e) /\ Given(e) /\ Agrees(e)
  BY DEF Init, Shape, FieldNames, Holds, Given, Agrees, Reading, IdleEngine
<1>5. CachesAgree
  BY DEF Init, CachesAgree
<1>6. QED
  BY <1>2, <1>3, <1>4, <1>5 DEF IInv, Unraced

LEMMA Stutters == IInv /\ UNCHANGED vars => IInv'
<1> SUFFICES ASSUME IInv, UNCHANGED vars
             PROVE  IInv'
  OBVIOUS
<1>1. TypeOK' /\ Begun' /\ Staging'
  BY DEF vars, IInv, TypeOK, Begun, Staging, OneWorks, Working, ManifestDescribes,
         DescribesImage, Written, BeingWritten, Described
<1>2. Shape' /\ (\A e \in Engine : Holds(e) /\ Given(e))' /\ Unraced'
  BY EnginesAreLeft DEF vars
<1>3. QED
  BY <1>1, <1>2 DEF IInv

THEOREM Invariance == Spec => []IInv
<1>1. Init => IInv
  BY Initially
<1>2. IInv /\ [Next]_vars => IInv'
  <2>1. ASSUME IInv, NEW e \in Engine, EngineStep(e)
        PROVE  IInv'
    BY <2>1, EngineOpens, EngineVerifiesFile, EngineIsVerified, EngineReadsCached,
       EngineReadsFile, EngineInserts, EngineParsesLockfile, EngineResets
       DEF EngineStep
  <2>2. QED
    BY <2>1, StageStepKeeps, HostRestarts, Stutters DEF Next
<1>3. QED
  BY <1>1, <1>2, PTL DEF Spec

-----------------------------------------------------------------------------
(* Directory, manifests and staging commands have their types.             *)
THEOREM TypeCorrect == Spec => []TypeOK
<1>1. IInv => TypeOK
  BY DEF IInv
<1>2. QED
  BY <1>1, Invariance, PTL

(* Wherever a staging was cut short, a manifest that an engine accepts     *)
(* describes the whole image of one variant.                               *)
THEOREM WholeImages == Spec => []VerifiedIsWhole
<1>1. IInv => VerifiedIsWhole
  BY DEF IInv, Holds, DescribesImage, VerifiedIsWhole
<1>2. QED
  BY <1>1, Invariance, PTL

(* An engine runs the files its manifest lists unless they were written    *)
(* while an engine read them.                                              *)
THEOREM RunsVerified == Spec => []RunsWhatWasVerified
<1>1. ASSUME IInv, ~raced, ~overlapped, NEW e \in Engine, Booted(e)
      PROVE  /\ engine[e].assets["patched"] = engine[e].held.files["patched"]
             /\ engine[e].assets["lock"] = engine[e].held.files["lock"]
  <2>1. CachesAgree /\ Holds(e) /\ Given(e)
    BY <1>1 DEF IInv, Unraced
  <2>2. engine[e].pc = "read" /\ engine[e].todo = <<>>
    BY <1>1 DEF Booted
  <2>3. /\ Cached(e, "patched") /\ engine[e].held.lock \in DOMAIN metadataCache
        /\ engine[e].assets = Assets(e, metadataCache[engine[e].held.lock])
    BY <2>1, <2>2, Orders DEF Given
  <2>4. /\ engine[e].assets["patched"] = assetCache[CacheKey(e, "patched")]
        /\ engine[e].assets["lock"] = metadataCache[engine[e].held.lock]
    BY <2>3, Distinct DEF Assets
  <2>5. assetCache[CacheKey(e, "patched")] = engine[e].held.files["patched"]
    BY <2>1, <2>3 DEF CachesAgree, Cached, CacheKey, Key
  <2>6. engine[e].held.files["lock"] = engine[e].held.lock
    BY <1>1, <2>1, <2>2, Distinct DEF Holds, DescribesImage, Image
  <2>7. QED
    BY <2>1, <2>3, <2>4, <2>5, <2>6 DEF CachesAgree
<1>2. {AssetOrder[i] : i \in DOMAIN AssetOrder} = {"patched", "lock"}
  BY DEF AssetOrder
<1>3. IInv => RunsWhatWasVerified
  BY <1>1, <1>2 DEF RunsWhatWasVerified
<1>4. QED
  BY <1>3, Invariance, PTL

(* Engines of one host with the same manifest run the same bytes, whatever *)
(* happens to the directory.                                               *)
THEOREM SameBytes == Spec => []SameBytesPerKey
<1>1. ASSUME IInv, NEW d \in Engine, NEW e \in Engine, Booted(d), Booted(e),
             Key(engine[d].held) = Key(engine[e].held)
      PROVE  engine[d].assets = engine[e].assets
  <2>1. ASSUME NEW x \in Engine, Booted(x)
        PROVE  engine[x].assets = Assets(x, metadataCache[engine[x].held.lock])
    BY <1>1, <2>1, Orders DEF IInv, Given, Booted
  <2>2. engine[d].held.lock = engine[e].held.lock
    BY <1>1 DEF Key
  <2>3. QED
    BY <1>1, <2>1, <2>2 DEF Assets, CacheKey
<1>2. IInv => SameBytesPerKey
  BY <1>1 DEF SameBytesPerKey
<1>3. QED
  BY <1>2, Invariance, PTL
===============================================================================
