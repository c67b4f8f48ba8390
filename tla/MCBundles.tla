-------------------------------- MODULE MCBundles --------------------------------
EXTENDS Bundles

Spelt(key, as, padded) == [key |-> key, as |-> as, padded |-> padded]
Plainly(key) == Spelt(key, key, FALSE)

Basic ==
  [schema |-> "1.0", language |-> Unset, packages |-> <<>>, pyodide |-> Unset,
   entrypoint |-> <<Plainly("main"), Spelt("handler", "handler", TRUE)>>,
   network |-> Unset, cpu |-> Unset, quota |-> Unset, capabilities |-> <<>>]

Blas == [version |-> Unset, profile |-> Spelt("blas", "BLAS", TRUE),
         preload |-> <<Plainly("main"), Spelt("main", "MAIN", FALSE)>>]

(* A limit; a profile; JavaScript with packages, which is refused.         *)
MCManifests ==
  {[Basic EXCEPT !.cpu = 2],
   [Basic EXCEPT !.pyodide = Blas],
   [Basic EXCEPT !.language = "javascript", !.cpu = 2],
   [Basic EXCEPT !.language = "javascript", !.packages = <<Plainly("left")>>]}

MCInline ==
  {[Basic EXCEPT !.entrypoint[1] = Plainly("pkg.sub.main"),
                 !.packages = <<Spelt("numpy", "NumPy", TRUE), Plainly("numpy")>>],
   [Basic EXCEPT !.entrypoint[1] = Plainly("pkg.__init__")]}

MCDotted == [m \in {"main", "pkg.sub.main", "pkg.__init__"} |->
  CASE m = "main" -> <<"main">>
    [] m = "pkg.sub.main" -> <<"pkg", "sub", "main">>
    [] OTHER -> <<"pkg", "__init__">>]

MCFileOf == [c \in {"main", "__init__", "pkg", "sub"} |-> c \o ".py"]

Record(name, declared, size, text) ==
  [dir |-> FALSE, name |-> name, declared |-> declared, size |-> size,
   text |-> text]

Folder == [Record(<<"d">>, 0, 0, Unset) EXCEPT !.dir = TRUE]

(* Sizes that lie, names that climb, two files of one path in two orders,  *)
(* a manifest of each kind; and one file whose bytes are those of two.     *)
MCArchive ==
  {[bytes |-> 2, records |-> r] : r \in
     {<<Record(<<"a">>, d, s, Unset), Record(<<"b">>, 1, 3, Unset)>> :
        d \in {1, 7}, s \in {1, 2, 3}}
     \cup {<<Folder, Record(n, 1, 1, Unset)>> :
             n \in {<<"d", "..", "a">>, <<"..", "a">>, <<"/", "a">>}}
     \cup {<<Record(<<"a">>, 1, 1, Unset), Record(<<".", "a">>, 2, 2, Unset)>>,
           <<Record(<<".", "a">>, 2, 2, Unset), Record(<<"a">>, 1, 1, Unset)>>}
     \cup {<<Record(<<"a">>, 1, 1, Unset), Record(<<"c">>, 1, 1, Unset)>>,
           <<Record(<<"c">>, 1, 1, Unset), Record(<<"a">>, 1, 1, Unset)>>,
           <<Record(<<"a..c">>, 1, 1, Unset)>>}
     \cup {<<Record(ManifestPath, 1, 1, m)>> : m \in MCManifests}}
  \cup {[bytes |-> 3, records |-> <<Record(<<"a">>, 1, 1, Unset)>>]}

MCDefaultLimits == [archive |-> 7, entries |-> 4, entry |-> 7, total |-> 7]
MCLimits == {[archive |-> 2, entries |-> 2, entry |-> 3, total |-> 4],
             MCDefaultLimits}

Custom == [entrypoint |-> <<"main", "custom">>, language |-> Unset,
           cpu |-> Unset]

MCDescriptor ==
  {Custom, [Custom EXCEPT !.cpu = 1], [Custom EXCEPT !.language = "python"],
   [Custom EXCEPT !.entrypoint = Unset, !.cpu = 1]}

(* Lengths of two bytes; the files without a text are zeros.               *)
MCLengthBytes == [n \in 0..Largest |-> <<n, 0>>]

(* The members of a set, numbered.                                         *)
Numbered(S) ==
  LET s == FoldSet(LAMBDA x, t : Append(t, x), <<>>, S) IN
    [x \in S |-> CHOOSE i \in DOMAIN s : s[i] = x]

MCPathBytes ==
  LET number == Numbered({e.path : e \in AnyEntry}) IN
    [p \in DOMAIN number |->
       CASE p = <<"a">> -> <<97>>
         [] p = <<"c">> -> <<99>>
         [] p = <<"a..c">> -> <<97, 1, 0, 0, 99>>
         [] OTHER -> <<100 + number[p]>>]

MCDataBytes ==
  LET number == Numbered({e.text : e \in AnyEntry}) IN
    [c \in {<<e.size, e.text>> : e \in AnyEntry} |->
       IF c[2] = Unset THEN [i \in 1..c[1] |-> 0] ELSE <<number[c[2]]>>]

===============================================================================
