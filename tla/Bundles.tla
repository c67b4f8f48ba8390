-------------------------------- MODULE Bundles --------------------------------
(***************************************************************************)
(* From an archive to the plan of a call: Bundle reads a ZIP archive under *)
(* its limits, BundleManifest normalises the manifest in it, BundleArtifact*)
(* keeps what a call needs of it, InlinePythonOptions writes an archive of *)
(* its own, PyRuntimeConfig selects a distribution, and a session or a     *)
(* handler gets its entrypoint, language and limit                         *)
(* (crates/aardvark-core/src/bundle.rs, bundle_manifest.rs, config.rs,     *)
(* invocation.rs, persistent/artifact.rs, persistent/inline.rs).           *)
(*                                                                         *)
(* A path is a sequence of components.  A word is what is left of a name   *)
(* of a manifest: its lower-case key, its spelling and whether there are   *)
(* blanks around it.  The sizes an archive declares may be wrong.          *)
(***************************************************************************)
EXTENDS Functions, SequencesExt, Subsequences

CONSTANTS
  Archive,       \* the archives: their length in bytes and their records
  Limits,        \* the BundleLimits a host reads with
  DefaultLimits, \* BundleLimits::default
  Largest,       \* u64::MAX
  PyodideVersion,
  ProfileName,   \* the labels that have only legal characters
  Directory,     \* the distributions
  Inline,        \* InlinePythonOptions: the manifests they stand for
  Dotted,        \* the components of a module's name, per spelling
  FileOf,        \* the name of a module's file, per component
  Descriptor,    \* the descriptors of hosts: entrypoint, language and cpu_ms
  Override,      \* budget_override.cpu_ms
  PathBytes,     \* the bytes of a path,
  LengthBytes,   \* of a length, to_le_bytes of a u64,
  DataBytes,     \* and of a file, per size and text
  Unset,         \* None
  MaxBundles     \* bound: the bundles a host reads

Word == [key : STRING, as : STRING, padded : BOOLEAN]

Manifest ==
  [schema : STRING, language : {Unset, "python", "javascript"},
   entrypoint : Seq(Word), packages : Seq(Word), capabilities : Seq(Word),
   pyodide : {Unset} \cup [version : {Unset} \cup STRING,
                          profile : {Unset} \cup Word, preload : Seq(Word)],
   network : {Unset} \cup [allow : Seq(Word), bounds : SUBSET Nat],
   cpu : {Unset} \cup Nat, quota : {Unset} \cup Nat]

ASSUME BundlesAssumption ==
  /\ {Largest, MaxBundles} \subseteq Nat \ {0}
  /\ "default" \in ProfileName
  /\ \A l \in Limits \cup {DefaultLimits} :
       {l.archive, l.entries, l.entry, l.total} \subseteq 0..Largest
  /\ Inline \subseteq Manifest
  /\ \A m \in Inline :
       Len(m.entrypoint) = 2 => m.entrypoint[1].as \in DOMAIN Dotted
  /\ \A a \in Archive :
       /\ a.records \in Seq(Elements(a.records))
       /\ \A r \in Elements(a.records) :
            r.size \in 0..Largest /\ r.name \in Seq(Elements(r.name))
  /\ \A as \in DOMAIN Dotted : \* module names have no slash
       /\ Dotted[as] \in Seq(Elements(Dotted[as])) \ {<<>>}
       /\ \A c \in Elements(Dotted[as]) :
            {c, FileOf[c]} \cap {".", "..", "/"} = {}
  /\ \A d \in Descriptor : DOMAIN d = {"entrypoint", "language", "cpu"}

VARIABLES
  reading,   \* the archive being read: the records left, the entries so far
  bundles,   \* the bundles read
  made,      \* the artifacts made of them
  config,    \* the host's PyRuntimeConfig: profile, directory, registered
             \* profiles; and by (history), the profile that is registered
             \* for the directory, if a selection set it
  runtime,   \* the runtime: what it took over, and its default language
  handler,   \* the HandlerSession: artifact, descriptor and whether the host
             \* has changed it
  session    \* the session prepared, and what was asked for

bundlesVars == <<reading, bundles, made, config, runtime, handler, session>>

NoReading == [left |-> <<>>, entries |-> <<>>, total |-> 0,
              limits |-> DefaultLimits, module |-> Unset]

BundlesInit ==
  /\ reading = Unset
  /\ bundles = {} /\ made = {}
  /\ config = Unset
  /\ runtime = Unset /\ handler = Unset
  /\ session = Unset

(* A host reads its bundles, configures and then runs one of them.  None   *)
(* of these depends on a later one, so that no other order shows more;     *)
(* what a runtime is that runs one bundle after another is Isolate's.      *)
Reads ==
  /\ reading = Unset /\ config = Unset /\ runtime = Unset
  /\ Cardinality(bundles) < MaxBundles
Makes ==
  /\ reading = Unset /\ config = Unset /\ runtime = Unset
  /\ Cardinality(made) < MaxBundles
Configures == config # Unset /\ runtime = Unset
Runs == runtime # Unset /\ session = Unset

-----------------------------------------------------------------------------
(* Reading an archive                                                      *)

Outside == <<"/">>

(* normalize_entry_path: "." is dropped, ".." takes the last component     *)
(* away, and the archive's root is never left.                             *)
Enter(path, component) ==
  IF path = Outside THEN Outside
  ELSE CASE component = "."  -> path
         [] component = ".." -> IF path = <<>> THEN Outside ELSE Front(path)
         [] OTHER            -> Append(path, component)

Entered(name) ==
  LET path[k \in 0..Len(name)] ==
        IF k = 0 THEN <<>> ELSE Enter(path[k - 1], name[k])
  IN path

NormalizeEntryPath(name) ==
  LET path == Entered(name)[Len(name)] IN
    IF name = <<>> \/ Head(name) = "/" \/ path = <<>> THEN Outside ELSE path

(* saturating_add                                                          *)
Plus(a, b) == IF a + b > Largest THEN Largest ELSE a + b
Least(a, b) == IF a < b THEN a ELSE b

(* Mutant: each file may use what a file may.                              *)
ReadLimitOfEntry(l, total) == l.entry

(* read_zip_file gets what is left of the total, and reads one byte more   *)
(* than it is allowed to.                                                  *)
ReadLimit(l, total) == Least(l.entry, l.total - total)

Accepted(r) ==
  LET l == reading.limits
      limit == ReadLimit(l, reading.total) IN
    /\ NormalizeEntryPath(r.name) # Outside
    /\ r.declared <= l.entry
    /\ Plus(reading.total, Least(r.declared, l.entry)) <= l.total
    /\ Least(r.size, Plus(limit, 1)) <= limit

EntryOf(r) ==
  [path |-> NormalizeEntryPath(r.name), size |-> r.size, text |-> r.text,
   name |-> r.name]

StartReading(records, l, module) ==
  IF Len(records) <= l.entries
  THEN reading' = [NoReading EXCEPT !.left = records, !.limits = l,
                                    !.module = module]
  ELSE UNCHANGED reading

(* from_zip_bytes_with_limits; from_reader has no bytes to count.          *)
FromZipBytes(a, l) ==
  /\ Reads
  /\ IF a.bytes <= l.archive THEN StartReading(a.records, l, Unset)
     ELSE UNCHANGED reading
  /\ UNCHANGED <<bundles, made, config, runtime, handler, session>>

FromReader(a, l) ==
  /\ Reads
  /\ StartReading(a.records, l, Unset)
  /\ UNCHANGED <<bundles, made, config, runtime, handler, session>>

Unread == <<bundles, made, config, runtime, handler, session>>

ReadRecord ==
  /\ reading # Unset /\ reading.left # <<>>
  /\ LET r == Head(reading.left) IN
       \/ /\ r.dir
          /\ reading' = [reading EXCEPT !.left = Tail(@)]
       \/ /\ ~r.dir /\ Accepted(r)
          /\ reading' = [reading EXCEPT !.left = Tail(@),
                                        !.entries = Append(@, EntryOf(r)),
                                        !.total = Plus(@, r.size)]
       \/ ~r.dir /\ ~Accepted(r) /\ reading' = Unset
  /\ UNCHANGED Unread

(* The record cannot be found, named or decompressed.                      *)
ReadFails ==
  /\ reading # Unset /\ reading.left # <<>>
  /\ reading' = Unset
  /\ UNCHANGED Unread

EndReading ==
  /\ reading # Unset /\ reading.left = <<>>
  /\ reading' = Unset
  /\ bundles' = IF reading.entries = <<>> THEN bundles
                ELSE bundles \cup {[entries |-> reading.entries,
                                    limits |-> reading.limits,
                                    module |-> reading.module]}
  /\ UNCHANGED <<made, config, runtime, handler, session>>

FilesAt(entries, path) ==
  Kept(entries, {i \in 1..Len(entries) : entries[i].path = path})

PathsOf(entries) == {entries[i].path : i \in DOMAIN entries}

Contents(entries, path) ==
  LET files == FilesAt(entries, path) IN
    [i \in 1..Len(files) |-> <<files[i].size, files[i].text>>]

(* The order of bytes.                                                     *)
Earlier(s, t) ==
  \/ IsStrictPrefix(s, t)
  \/ \E i \in DOMAIN s \cap DOMAIN t :
       s[i] < t[i] /\ \A j \in 1..(i - 1) : s[j] = t[j]

EarlierPath(e, f) == Earlier(PathBytes[e.path], PathBytes[f.path])

(* Mutant: sort() compares what is in the files of one path too.           *)
FileRank(entries) ==
  [i \in 1..Len(entries) |->
     Cardinality({j \in 1..Len(entries) :
       \/ EarlierPath(entries[j], entries[i])
       \/ /\ entries[j].path = entries[i].path
          /\ entries[j].size < entries[i].size})]

(* How many files have an earlier path.                                    *)
PathRank(entries) ==
  [i \in 1..Len(entries) |->
     Cardinality({j \in 1..Len(entries) : EarlierPath(entries[j], entries[i])})]

(* sort_by is stable: files of one path keep the order of the archive.     *)
InOrder(entries) == SortedBy(entries, PathRank(entries))

Encoded(e) ==
  PathBytes[e.path] \o LengthBytes[e.size] \o DataBytes[<<e.size, e.text>>]

(* What the hasher has been updated with after k files.                    *)
Hashed(entries) ==
  LET files == InOrder(entries)
      hasher[k \in 0..Len(entries)] ==
        IF k = 0 THEN <<>> ELSE hasher[k - 1] \o Encoded(files[k])
  IN hasher

(* The bytes stand for their hash.                                         *)
Fingerprint(entries) == Hashed(entries)[Len(entries)]

-----------------------------------------------------------------------------
(* The manifest                                                            *)

ManifestPath == <<"aardvark.manifest.json">>

Trim(w) == [w EXCEPT !.padded = FALSE]
Lower(w) == [key |-> w.key, as |-> w.key, padded |-> FALSE]
NoBlank(words) == \A i \in DOMAIN words : words[i].key # ""
TrimAll(words) == [i \in DOMAIN words |-> Trim(words[i])]

(* The first of the words with a key stays, trimmed.                       *)
WithoutRepeats(words) ==
  TrimAll(Kept(words, {i \in 1..Len(words) :
                         \A j \in 1..(i - 1) : words[j].key # words[i].key}))

WellFormed(m) ==
  /\ m.schema = "1.0"
  /\ Len(m.entrypoint) = 2 /\ NoBlank(m.entrypoint)
  /\ m.language = "javascript" => m.packages = <<>> /\ m.pyodide = Unset
  /\ NoBlank(m.packages) /\ NoBlank(m.capabilities)
  /\ m.pyodide # Unset =>
       /\ m.pyodide.version \in {Unset, PyodideVersion}
       /\ m.pyodide.profile = Unset \/ m.pyodide.profile.key \in ProfileName
       /\ NoBlank(m.pyodide.preload)
  /\ m.network # Unset => NoBlank(m.network.allow) /\ 0 \notin m.network.bounds
  /\ m.cpu # 0 /\ m.quota # 0

NormalizeProfile(w) == IF w = Unset THEN Unset ELSE Lower(w)

NormalizePyodide(p) ==
  IF p = Unset THEN Unset
  ELSE [p EXCEPT !.profile = NormalizeProfile(@), !.preload = WithoutRepeats(@)]

NormalizeNetwork(w) ==
  IF w = Unset THEN Unset ELSE [w EXCEPT !.allow = WithoutRepeats(@)]

Normalize(m) ==
  [m EXCEPT !.entrypoint = TrimAll(@),
            !.packages = WithoutRepeats(@),
            !.capabilities = WithoutRepeats(@),
            !.pyodide = NormalizePyodide(@),
            !.network = NormalizeNetwork(@)]

(* Bundle::manifest takes the first file of that path.                     *)
Readable(entries) ==
  LET found == FilesAt(entries, ManifestPath) IN
    found # <<>> => found[1].text # Unset /\ WellFormed(found[1].text)

ManifestOf(entries) ==
  LET found == FilesAt(entries, ManifestPath) IN
    IF found = <<>> THEN Unset ELSE Normalize(found[1].text)

ProfileOf(m) ==
  IF m = Unset \/ m.pyodide = Unset \/ m.pyodide.profile = Unset THEN Unset
  ELSE m.pyodide.profile.key

-----------------------------------------------------------------------------
(* Artifacts and inline bundles                                            *)

MainHandler == <<"main", "handler">>

EntrypointOf(m) ==
  IF m = Unset THEN MainHandler
  ELSE <<m.entrypoint[1].as, m.entrypoint[2].as>>

(* from_bundle and from_bundle_with_entrypoint                             *)
FromBundle(b, entrypoint) ==
  /\ Makes
  /\ Readable(b.entries)
  /\ LET m == ManifestOf(b.entries) IN
       made' = made \cup
         {[bundle |-> b, manifest |-> m,
           fingerprint |-> Fingerprint(b.entries),
           entrypoint |-> IF entrypoint = Unset THEN EntrypointOf(m)
                          ELSE entrypoint,
           language |-> IF m = Unset \/ m.language = Unset THEN "python"
                        ELSE m.language,
           profile |-> ProfileOf(m)]}
  /\ UNCHANGED <<reading, bundles, config, runtime, handler, session>>

File(path, text, size) ==
  [dir |-> FALSE, name |-> path, declared |-> size, size |-> size,
   text |-> text]

(* module_path_for_entrypoint: the packages above the module.              *)
Package(module, k) == Append(SubSeq(module, 1, k), "__init__.py")

(* Mutant: each level is one too high.                                     *)
InitModulesAbove(module) ==
  [k \in 1..(Len(module) - 1) |-> Package(module, k - 1)]

InitModules(module) == [k \in 1..(Len(module) - 1) |-> Package(module, k)]

ModulePath(module) == Append(Front(module), FileOf[Last(module)])

(* assemble_inline_bundle                                                  *)
Assembled(module, m) ==
  [k \in DOMAIN InitModules(module) |-> File(InitModules(module)[k], Unset, 0)]
    \o <<File(ModulePath(module), Unset, 1), File(ManifestPath, m, 1)>>

(* The records that are ever read, and the files they become.              *)
InlineRecords(as, m) == Assembled(Dotted[as], Normalize(m))

GivenRecord == UNION {Elements(a.records) : a \in Archive}
RecordFor(as) == UNION {Elements(InlineRecords(as, m)) : m \in Inline}
WrittenRecord == UNION {RecordFor(as) : as \in DOMAIN Dotted}
AnyRecord == GivenRecord \cup WrittenRecord
AnyEntry == {EntryOf(r) : r \in AnyRecord}

(* Bytes tell paths, lengths and files; every length has as many of them,  *)
(* and a file has as many as its size.                                     *)
ASSUME EncodingAssumption ==
  /\ IsInjective(PathBytes) /\ IsInjective(LengthBytes) /\ IsInjective(DataBytes)
  /\ PathBytes \in [DOMAIN PathBytes -> Seq(Nat)]
  /\ LengthBytes \in [0..Largest -> Seq(Nat)]
  /\ Len(LengthBytes[0]) # 0
  /\ \A n \in 0..Largest : Len(LengthBytes[n]) = Len(LengthBytes[0])
  /\ \A e \in AnyEntry :
       /\ e.path \in DOMAIN PathBytes \cup {Outside}
       /\ <<e.size, e.text>> \in DOMAIN DataBytes
       /\ DataBytes[<<e.size, e.text>>] \in Seq(Nat)
       /\ Len(DataBytes[<<e.size, e.text>>]) = e.size

(* build_bundle: the writer refuses a second file of one name.             *)
FromInlinePython(m) ==
  /\ Reads
  /\ m.language # "javascript" /\ WellFormed(m)
  /\ LET module == Dotted[m.entrypoint[1].as]
         records == Assembled(module, Normalize(m)) IN
       /\ "" \notin Range(module)
       /\ IsInjective([i \in DOMAIN records |-> records[i].name])
       /\ StartReading(records, DefaultLimits, module)
  /\ UNCHANGED <<bundles, made, config, runtime, handler, session>>

-----------------------------------------------------------------------------
(* Which distribution                                                      *)

Unconfigured == <<reading, bundles, made, runtime, handler, session>>

(* PyRuntimeConfig::default: AARDVARK_PYODIDE_DIST_PROFILES, and the        *)
(* directory of AARDVARK_PYODIDE_DIST_DIR, also as the default profile.    *)
Environment ==
  {[profile |-> Unset, by |-> Unset, dir |-> d,
    registered |-> [p \in ProfileName |->
      IF p \in DOMAIN given THEN given[p]
      ELSE IF p = "default" THEN d ELSE Unset]] :
     d \in Directory \cup {Unset},
     given \in UNION {[P -> Directory] : P \in SUBSET ProfileName}}

NewConfig ==
  /\ reading = Unset /\ config = Unset /\ runtime = Unset
  /\ Cardinality(bundles) = 1
  /\ config' \in Environment
  /\ UNCHANGED Unconfigured

RegisterProfile(p, d) ==
  /\ Configures
  /\ config' = [config EXCEPT !.registered[p] = d]
  /\ UNCHANGED Unconfigured

(* set_pyodide_dist_dir, clear_pyodide_dist_dir                            *)
SetDirectory(d) ==
  /\ Configures
  /\ config' = [config EXCEPT !.dir = d, !.by = Unset]
  /\ UNCHANGED Unconfigured

(* set_pyodide_distribution_profile: the default needs no directory.       *)
Selectable(p) == p = "default" \/ config.registered[p] # Unset

Selected(p) ==
  IF config.registered[p] = Unset THEN [config EXCEPT !.profile = p]
  ELSE [config EXCEPT !.profile = p, !.by = p, !.dir = config.registered[p]]

SelectProfile(p) ==
  /\ Configures
  /\ Selectable(p)
  /\ config' = Selected(p)
  /\ UNCHANGED Unconfigured

(* The configuration, with some default language, goes into the runtime.   *)
Start(c, language) ==
  /\ runtime' = [profile |-> c.profile, dir |-> c.dir, by |-> c.by,
                 language |-> language]
  /\ config' = Unset

(* AardvarkRuntime::new, whatever bundles come later.                      *)
NewRuntime(language) ==
  /\ Configures
  /\ Start(config, language)
  /\ UNCHANGED <<reading, bundles, made, handler, session>>

(* new_for_bundle and BundlePoolInner::new select what the bundle asks for.*)
StartFor(profile, language) ==
  /\ Configures
  /\ IF profile = Unset THEN Start(config, language)
     ELSE Selectable(profile) /\ Start(Selected(profile), language)
  /\ UNCHANGED <<reading, bundles, made, handler, session>>

NewForBundle(b, language) ==
  Readable(b.entries) /\ StartFor(ProfileOf(ManifestOf(b.entries)), language)

NewForArtifact(a, language) == StartFor(a.profile, language)

-----------------------------------------------------------------------------
(* The plan of a call                                                      *)

Or(value, default) == IF value = Unset THEN default ELSE value

(* merged_with                                                             *)
Tighter(a, b) ==
  IF a = Unset THEN b ELSE IF b = Unset THEN a ELSE Least(a, b)

CpuOf(m) == IF m = Unset THEN Unset ELSE m.cpu
LanguageOf(m) == IF m = Unset THEN Unset ELSE m.language

(* validate                                                                *)
Valid(d) == d.entrypoint # Unset /\ d.cpu # 0

(* Mutant: any runtime will do.                                            *)
AnyProfile(m) == TRUE

(* validate_manifest_pyodide_profile                                       *)
ProfileAccepted(m) ==
  ProfileOf(m) \in {Unset, Or(runtime.profile, "default")}

Plan(d) ==
  [entrypoint |-> d.entrypoint, language |-> d.language,
   cpu |-> Tighter(d.cpu, Override)]

Prepared(how, b, asked, d, edited) ==
  session' = [how |-> how, bundle |-> b, asked |-> asked, edited |-> edited,
              plan |-> Plan(d), runtime |-> runtime]

Unprepared == <<reading, bundles, made, config, runtime, handler>>

(* prepare_session_with_descriptor                                         *)
Plain(d) == [d EXCEPT !.language = Or(@, runtime.language)]

PrepareWithDescriptor(b, d) ==
  /\ Runs
  /\ Valid(d)
  /\ Prepared("plain", b, d, Plain(d), FALSE)
  /\ UNCHANGED Unprepared

Nameless == [entrypoint |-> Unset, language |-> Unset, cpu |-> Unset]

(* An override that names no entrypoint is dropped as a whole.             *)
Heeded(d) == IF d.entrypoint = Unset THEN Nameless ELSE d

(* prepare_session_with_manifest_internal                                  *)
OfManifest(m, d) ==
  [entrypoint |-> Or(Heeded(d).entrypoint, EntrypointOf(m)),
   language |-> Or(Or(Heeded(d).language, LanguageOf(m)), runtime.language),
   cpu |-> Or(CpuOf(m), Heeded(d).cpu)]

PrepareWithManifest(b, d) ==
  /\ Runs
  /\ Readable(b.entries)
  /\ LET m == ManifestOf(b.entries) IN
       /\ ProfileAccepted(m)
       /\ Valid(OfManifest(m, d))
       /\ Prepared("manifest", b, d, OfManifest(m, d), FALSE)
  /\ UNCHANGED Unprepared

(* Mutant: the manifest's limit is for descriptors without one.            *)
CpuIfMissing(a, d) ==
  [d EXCEPT !.language = Or(@, a.language),
            !.cpu = Or(@, CpuOf(a.manifest))]

(* apply_manifest_descriptor_defaults                                      *)
ManifestDefaults(a, d) ==
  [d EXCEPT !.language = Or(@, a.language),
            !.cpu = Or(CpuOf(a.manifest), @)]

(* default_descriptor, when the host gives none.                           *)
PrepareHandler(a, d) ==
  /\ Runs
  /\ handler' = [artifact |-> a, edited |-> FALSE, asked |-> Or(d, Nameless),
                 descriptor |->
                   ManifestDefaults(a, Or(d, [Nameless EXCEPT
                                                !.entrypoint = a.entrypoint]))]
  /\ UNCHANGED <<reading, bundles, made, config, runtime, session>>

(* descriptor_mut                                                          *)
EditHandler(cpu) ==
  /\ Runs /\ handler # Unset
  /\ handler' = [handler EXCEPT !.descriptor.cpu = cpu, !.edited = TRUE]
  /\ UNCHANGED <<reading, bundles, made, config, runtime, session>>

(* A Python handler's session is its descriptor; the others are prepared   *)
(* anew.  Materialising the bundle has accepted its profile by then.       *)
PrepareHandlerSession ==
  /\ Runs /\ handler # Unset
  /\ LET a == handler.artifact
         d == handler.descriptor
         m == a.manifest IN
       /\ ProfileAccepted(m)
       /\ \/ /\ d.language = "python"
             /\ Valid(d)
             /\ Prepared("hot", a.bundle, handler.asked, d, handler.edited)
          \/ /\ d.language # "python" /\ m # Unset
             /\ Valid(OfManifest(m, d))
             /\ Prepared("cold", a.bundle, handler.asked, OfManifest(m, d),
                         handler.edited)
          \/ /\ d.language # "python" /\ m = Unset
             /\ Valid(d)
             /\ Prepared("cold", a.bundle, handler.asked, Plain(d),
                         handler.edited)
  /\ UNCHANGED Unprepared

-----------------------------------------------------------------------------
BundlesNext ==
  \/ \E a \in Archive, l \in Limits : FromZipBytes(a, l) \/ FromReader(a, l)
  \/ \E m \in Inline : FromInlinePython(m)
  \/ ReadRecord \/ ReadFails \/ EndReading
  \/ \E b \in bundles, d \in Descriptor :
       FromBundle(b, Unset) \/ FromBundle(b, d.entrypoint)
  \/ NewConfig
  \/ \E p \in ProfileName, d \in Directory : RegisterProfile(p, d)
  \/ \E d \in Directory \cup {Unset} : SetDirectory(d)
  \/ \E p \in ProfileName : SelectProfile(p)
  \/ \E language \in {"python", "javascript"} :
       \/ NewRuntime(language)
       \/ \E b \in bundles : NewForBundle(b, language)
       \/ \E a \in made : NewForArtifact(a, language)
  \/ \E b \in bundles, d \in Descriptor :
       PrepareWithDescriptor(b, d) \/ PrepareWithManifest(b, d)
  \/ \E a \in made, d \in Descriptor \cup {Unset} : PrepareHandler(a, d)
  \/ \E cpu \in {1, Unset} : EditHandler(cpu)
  \/ PrepareHandlerSession

BundlesSpec == BundlesInit /\ [][BundlesNext]_bundlesVars

-----------------------------------------------------------------------------
(* Properties                                                              *)

BytesOf(entries) ==
  {b \in (1..Len(entries)) \X (1..Largest) : b[2] <= entries[b[1]].size}
SizeOf(entries) == Cardinality(BytesOf(entries))

NeverLeaves(name) ==
  \A k \in DOMAIN name :
    LET count(S) == Cardinality({i \in 1..k : name[i] \in S}) IN
      count({".."}) <= k - count({".", ".."})

(* What an archive leaves in memory stays within the limits it was read    *)
(* with, whatever sizes it declares and however near to u64::MAX they are  *)
(* (Bundle::from_reader_with_limits, read_zip_file); and no name that      *)
(* climbs above the root is taken for a file (normalize_entry_path).       *)
WithinLimits ==
  \A b \in bundles :
    /\ Len(b.entries) <= b.limits.entries
    /\ SizeOf(b.entries) <= b.limits.total
    /\ \A i \in DOMAIN b.entries :
         b.entries[i].size <= b.limits.entry /\ NeverLeaves(b.entries[i].name)

(* What mount_bundle leaves at a path: the last file of it.                *)
Mounted(entries) == [p \in PathsOf(entries) |-> Last(Contents(entries, p))]

(* As far as both go.                                                      *)
Agree(s, t) == \A i \in DOMAIN s \cap DOMAIN t : s[i] = t[i]

(* The path of f goes on where the path of e ends, with bytes of e's       *)
(* length: nothing that is hashed says where a path ends.                  *)
GoesOn(e, f) ==
  /\ Len(PathBytes[e.path]) < Len(PathBytes[f.path])
  /\ Agree(PathBytes[e.path] \o LengthBytes[e.size], PathBytes[f.path])

Ambiguous(entries, others) ==
  LET s == InOrder(entries)
      t == InOrder(others) IN
    \E n \in DOMAIN s \cap DOMAIN t : GoesOn(s[n], t[n]) \/ GoesOn(t[n], s[n])

(* Isolates skip mounting and pools are shared when fingerprints agree: the*)
(* manifest the host goes by and the files the guest would find are then   *)
(* the same, though one takes the first file of a path and the other the   *)
(* last, unless a path of one bundle takes in bytes of a length of the     *)
(* other (Bundle::fingerprint, Bundle::manifest, mount_bundle).            *)
SameFingerprintSameBundle ==
  \A a, o \in made :
    a.fingerprint = o.fingerprint =>
      \/ /\ Mounted(a.bundle.entries) = Mounted(o.bundle.entries)
         /\ a.manifest = o.manifest /\ a.language = o.language
      \/ Ambiguous(a.bundle.entries, o.bundle.entries)

(* An inline bundle can be imported: its module is there and so are all the*)
(* packages above it, and the manifest it is read back with is the one that*)
(* was normalised for it, in which no name comes twice                     *)
(* (InlinePythonOptions::build_bundle, BundleManifest::normalize).         *)
KeysOf(words) == [i \in DOMAIN words |-> words[i].key]

InlineIsImportable ==
  \A a \in made :
    a.bundle.module # Unset =>
      LET module == a.bundle.module IN
        /\ \A k \in 1..(Len(module) - 1) :
             Append(SubSeq(module, 1, k), "__init__.py")
               \in PathsOf(a.bundle.entries)
        /\ ModulePath(module) \in PathsOf(a.bundle.entries)
        /\ a.manifest = Last(a.bundle.entries).text
        /\ IsInjective(KeysOf(a.manifest.packages))

(* A handler's session, made without preparing it again, is the one that   *)
(* preparing its bundle with the same descriptor gives, unless the host    *)
(* has changed it, the runtime's language is not Python or no one names the*)
(* entrypoint (apply_manifest_descriptor_defaults and                      *)
(* prepare_session_with_manifest_internal).                                *)
HotIsCold ==
  ( /\ session # Unset
    /\ session.how = "hot" /\ ~session.edited
    /\ session.runtime.language = "python"
    /\ session.asked.entrypoint # Unset ) =>
  session.plan =
      Plan(OfManifest(ManifestOf(session.bundle.entries), session.asked))

(* A bundle that asks for a profile never runs on a distribution selected  *)
(* for another one, the default excepted, which is selected without a      *)
(* directory (set_pyodide_distribution_profile,                            *)
(* validate_manifest_pyodide_profile).                                     *)
RunsOnRequestedProfile ==
  session # Unset /\ session.how # "plain" =>
      LET p == ProfileOf(ManifestOf(session.bundle.entries)) IN
        p \in {Unset, "default"} \/ session.runtime.by \in {p, Unset}

===============================================================================
