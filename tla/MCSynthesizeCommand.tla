------------------------ MODULE MCSynthesizeCommand ------------------------
(***************************************************************************)
(* TLC instance of SynthesizeCommand: the sound packages may be changed by *)
(* another program while they are read, the others are read as they are.   *)
(***************************************************************************)
EXTENDS PackageCases

Paths == {<<>>, ReleasePath, ManifestPath, <<"frontend">>}
         \cup {FixtureFiles[k].path : k \in DOMAIN FixtureFiles}
         \cup {PiperFiles[k].path : k \in DOMAIN PiperFiles}
\* The content that goes with an entry that declares another one.
Content(v, k) ==
  IF v \in {"bytes", "large", "sha"} THEN FixtureFiles[k].sha ELSE ManifestOf(v).files[k].sha
Disk(v) ==
  LET m == ManifestOf(v)
  IN  [path \in Paths |->
         CASE path \in {<<>>, <<"frontend">>} -> Directory
           [] path = ReleasePath  -> File(Rel(v))
           [] path = ManifestPath -> File(Man(v))
           [] OTHER -> IF \E k \in DOMAIN m.files : m.files[k].path = path
                       THEN File(Content(v, CHOOSE k \in DOMAIN m.files : m.files[k].path = path))
                       ELSE Absent]
DiskWith(path, node) == <<[Disk("fixture") EXCEPT ![path] = node], Rel("fixture"), 0>>
Pins(release) == <<[Disk("fixture") EXCEPT ![ReleasePath] = File(release)], release, 0>>

MCCases ==
  {<<Disk("fixture"), Rel("fixture"), 2>>, <<Disk("piper"), Rel("piper"), 1>>}
  \cup {<<Disk(v), Rel(v), 0>> : v \in Variants}
  \cup {<<Disk("fixture"), "malformed", 0>>, <<Disk("fixture"), Rel("piper"), 0>>}
  \cup {Pins(release) : release \in {"release none", "release large", "release size",
                                     "release zero", "release other", "other"}}
  \cup {<<[Disk("fixture") EXCEPT ![ReleasePath] = File("release self"),
                                  ![ManifestPath] = File("other")], "release self", 0>>}
  \cup {DiskWith(<<>>, Absent), DiskWith(<<>>, Link("none")),
        DiskWith(<<"frontend">>, Link("none")),
        DiskWith(In("lex"), Absent), DiskWith(In("lex"), Directory),
        DiskWith(In("lex"), Link("lexicon")), DiskWith(ManifestPath, File("onnx"))}

\* What another program may put where: something of the same size, of another
\* size, a link, nothing.
MCChanges ==
  {<<ReleasePath, File("other")>>, <<ManifestPath, File(Man("piper"))>>,
   <<ManifestPath, Absent>>, <<In("lts"), File("stray")>>, <<In("lts"), File("lts")>>,
   <<In("lts"), File("second")>>, <<In("lex"), File("onnx")>>, <<In("lex"), File("other")>>,
   <<In("tok"), Link("tokens")>>, <<In("tok"), Directory>>, <<<<"frontend">>, Link("none")>>}
=============================================================================
