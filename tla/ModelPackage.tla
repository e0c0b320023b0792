---------------------------- MODULE ModelPackage ----------------------------
(***************************************************************************)
(* Verification of a model package (src/src/runtime/model_package.cpp):    *)
(* RELEASE.json must have the hash that the caller pinned, it names the    *)
(* hash of MANIFEST.json, which names those of the payloads.  Every file   *)
(* is inspected, sized, read and hashed in separate system calls, between  *)
(* which other programs may change the directory.                          *)
(*                                                                         *)
(* A path is a sequence of names.  The content of a file is known by a     *)
(* name that also stands for its SHA-256: two contents never have one      *)
(* hash.  A file rewritten while it is read is a content of its own.  What *)
(* a link to a directory leads to is not modelled: nothing is found there. *)
(***************************************************************************)
EXTENDS Integers, Sequences, FiniteSets

CONSTANTS
  Contents,         (* [content -> [bytes, body]]                          *)
  Cases,            (* <<disk, pin, budget>>: where a run starts           *)
  Changes,          (* <<path, node>> that another program may put there   *)
  MaxReleaseBytes,  (* kMaximumReleaseBytes, 65536 in the code             *)
  MaxManifestBytes, (* kMaximumManifestBytes, 1048576 in the code          *)
  MaxPayloadFiles,  (* kMaximumPayloadFiles, 256 in the code               *)
  MaxPayloadBytes,  (* kMaximumPayloadBytes, 2^31 in the code              *)
  MaxTotalBytes,    (* kMaximumTotalPayloadBytes, 2^32 in the code         *)
  MinGraphBytes     (* the least ONNX graph, 1024 in the code              *)

\* A payload entry of a manifest, as the code has parsed it.
FileEntry == [path : Seq(STRING), role : STRING, sha : STRING, bytes : Nat]
\* How the sections of a manifest beside its files are judged.
Verdicts == {"OK", "INVALID_MODEL", "UNSUPPORTED_SCHEMA", "ABI_MISMATCH", "UNSUPPORTED_CPU"}

ASSUME SizesAssumption == \A c \in DOMAIN Contents : Contents[c].bytes \in Nat
ASSUME ManifestsAssumption ==
  \A c \in DOMAIN Contents :
    Contents[c].body.type = "manifest" =>
      /\ Contents[c].body.files \in Seq(FileEntry)
      /\ {Contents[c].body.head, Contents[c].body.tail} \subseteq Verdicts
\* "malformed" is what no hash of 64 digits is.
ASSUME HashesAssumption == "malformed" \notin DOMAIN Contents
ASSUME LimitsAssumption ==
  {MaxReleaseBytes, MaxManifestBytes, MaxPayloadFiles, MaxPayloadBytes, MaxTotalBytes,
   MinGraphBytes} \subseteq Nat

VARIABLES
  disk, budget,     \* the files, and how often others may still change them
  touched,          \* whether anybody did
  pin,              \* the hash that the caller expects of RELEASE.json
  step,             \* where kgv_engine_open is
  target, depth,    \* the file being read, and the component inspected
  sized, bytes,     \* the size it had, the content that was read
  manifest, entry,  \* the manifest and the number of the file entry in it
  payloads, total,  \* the payloads verified so far
  status            \* of the call that has ended

files == <<disk, budget, touched, pin>>
progress == <<target, depth, sized, bytes, manifest, entry, payloads, total>>
packageVars == <<files, step, progress, status>>

None        == "none"
Absent      == [type |-> "absent"]
Directory   == [type |-> "directory"]
File(c)     == [type |-> "file", content |-> c]
Link(c)     == [type |-> "link", content |-> c]

ReleasePath  == <<"RELEASE.json">>
ManifestPath == <<"MANIFEST.json">>

\* What a disk has at its paths.
Node(n) == \/ n \in {Absent, Directory}
           \/ n = Link(n.content)
           \/ n = File(n.content) /\ n.content \in DOMAIN Contents
ASSUME DisksAssumption ==
  \A case \in Cases : LET start == case[1]
                     IN  /\ {ReleasePath, ManifestPath} \subseteq DOMAIN start
                         /\ \A path \in DOMAIN start : Node(start[path])

Prefix(path, k)  == SubSeq(path, 1, k)
InDirectory(path) == \A k \in 1..Len(path) - 1 : disk[Prefix(path, k)] = Directory
\* The content that opening the path would find, links followed.
Found(path) ==
  IF InDirectory(path) /\ disk[path].type \in {"file", "link"}
  THEN {disk[path].content} \cap DOMAIN Contents ELSE {}
BytesOf(c) == Contents[c].bytes
Body(c)    == Contents[c].body

Idle ==
  /\ touched = FALSE /\ step = "idle" /\ status = None
  /\ target = <<>> /\ depth = 0 /\ sized = 0 /\ bytes = None
  /\ manifest = None /\ entry = 0 /\ payloads = <<>> /\ total = 0

\* The call ends without a model; what it has read is freed.
Fail(code) ==
  /\ step' = "ended" /\ status' = code
  /\ target' = <<>> /\ depth' = 0 /\ sized' = 0 /\ bytes' = None
  /\ manifest' = None /\ entry' = 0 /\ payloads' = <<>> /\ total' = 0
  /\ UNCHANGED files

Seek(path) == step' = "walk" /\ target' = path /\ depth' = 1

-----------------------------------------------------------------------------
(* The files, as other programs see to them.                               *)

Reading == step \in {"walk", "regular", "size", "read", "judge", "entry"}
Change ==
  /\ Reading /\ budget > 0
  /\ \E c \in Changes : disk[c[1]] # c[2] /\ disk' = [disk EXCEPT ![c[1]] = c[2]]
  /\ budget' = budget - 1 /\ touched' = TRUE
  /\ UNCHANGED <<pin, step, progress, status>>

-----------------------------------------------------------------------------
(* One file: inspected component by component, sized, read.                *)

CheckPin ==
  /\ step = "pin"
  /\ IF pin = "malformed" THEN Fail("INVALID_ARGUMENT")
     ELSE IF disk[<<>>] # Directory THEN Fail("IO_ERROR")
     ELSE /\ Seek(ReleasePath)
          /\ UNCHANGED <<files, sized, bytes, manifest, entry, payloads, total, status>>

Walk ==
  /\ step = "walk"
  /\ LET part == Prefix(target, depth)
     IN  IF ~ InDirectory(part) \/ disk[part] = Absent THEN Fail("IO_ERROR")
         ELSE IF disk[part].type = "link" THEN Fail("INVALID_MODEL")
         ELSE /\ IF depth < Len(target) THEN depth' = depth + 1 /\ UNCHANGED step
                 ELSE step' = "regular" /\ UNCHANGED depth
              /\ UNCHANGED <<files, target, sized, bytes, manifest, entry, payloads, total,
                             status>>

\* The entry of the manifest that is being verified.
Entry == Body(manifest).files[entry]

Regular ==
  /\ step = "regular"
  /\ IF Found(target) = {} THEN Fail("IO_ERROR")
     ELSE IF target \notin {ReleasePath, ManifestPath} /\ Entry.bytes > MaxPayloadBytes
     THEN Fail("INVALID_MODEL")
     ELSE /\ step' = "size"
          /\ UNCHANGED <<files, progress, status>>

\* The size that the content is expected to have, or the most it may have.
RightSize(size) ==
  CASE target = ReleasePath  -> size <= MaxReleaseBytes
    [] target = ManifestPath -> size <= MaxManifestBytes
    [] OTHER                 -> size = Entry.bytes
WrongSize == IF target \in {ReleasePath, ManifestPath} THEN "INVALID_MODEL" ELSE "HASH_MISMATCH"

Size ==
  /\ step = "size"
  /\ IF Found(target) = {} THEN Fail("IO_ERROR")
     ELSE \E c \in Found(target) :
       IF ~ RightSize(BytesOf(c)) THEN Fail(WrongSize)
       ELSE /\ sized' = BytesOf(c) /\ step' = "read"
            /\ UNCHANGED <<files, target, depth, bytes, manifest, entry, payloads, total, status>>

\* As many bytes as the size said, and no byte more.
Read ==
  /\ step = "read"
  /\ IF Found(target) = {} THEN Fail("IO_ERROR")
     ELSE \E c \in Found(target) :
       IF BytesOf(c) < sized THEN Fail("IO_ERROR")
       ELSE IF BytesOf(c) > sized
       THEN Fail(IF target \in {ReleasePath, ManifestPath} THEN "IO_ERROR" ELSE "HASH_MISMATCH")
       ELSE /\ bytes' = c /\ step' = "judge"
            /\ UNCHANGED <<files, target, depth, sized, manifest, entry, payloads, total, status>>

\* (faulty: the file is read again for its hash.)
HashedAgain(c) == IF Found(target) = {} THEN None ELSE CHOOSE d \in Found(target) : TRUE

\* sha256_hex of what has been read.
Hashed(c) == c

-----------------------------------------------------------------------------
(* What the files say.                                                     *)

\* An "other release" has the fields of a release and another schema.
JudgeRelease ==
  /\ step = "judge" /\ target = ReleasePath
  /\ IF Hashed(bytes) # pin THEN Fail("HASH_MISMATCH")
     ELSE IF BytesOf(bytes) > 0 /\ Body(bytes).type = "other release"
     THEN Fail("UNSUPPORTED_SCHEMA")
     ELSE IF \/ BytesOf(bytes) = 0 \/ Body(bytes).type # "release"
             \/ Body(bytes).manifestBytes \notin 1..MaxManifestBytes
     THEN Fail("INVALID_MODEL")
     ELSE /\ Seek(ManifestPath) /\ manifest' = bytes
          /\ UNCHANGED <<files, sized, bytes, entry, payloads, total, status>>

\* verify_manifest up to the files: head is the verdict on the sections before
\* them.  Until now manifest was the release that names it.
JudgeManifest ==
  /\ step = "judge" /\ target = ManifestPath
  /\ LET named == Body(manifest)
     IN  IF sized # named.manifestBytes \/ Hashed(bytes) # named.manifestSha
         THEN Fail("HASH_MISMATCH")
         ELSE IF Body(bytes).type # "manifest" THEN Fail("INVALID_MODEL")
         ELSE IF Body(bytes).head # "OK" THEN Fail(Body(bytes).head)
         ELSE IF Len(Body(bytes).files) \notin 1..MaxPayloadFiles THEN Fail("INVALID_MODEL")
         ELSE /\ manifest' = bytes /\ entry' = 1 /\ step' = "entry"
              /\ UNCHANGED <<files, target, depth, sized, bytes, payloads, total, status>>

\* (faulty: only the entry before is looked at.)
NamedJustBefore(e, field) == entry > 1 /\ Body(manifest).files[entry - 1][field] = e[field]
NamedBefore(e, field) == \E k \in 1..entry - 1 : Body(manifest).files[k][field] = e[field]
\* safe_relative_path, and not one of the package's own files; such a path is
\* a path of the disk.
SafePath(path) == path \in DOMAIN disk /\ path \notin {<<>>, ReleasePath, ManifestPath}

CheckEntry ==
  /\ step = "entry" /\ entry <= Len(Body(manifest).files)
  /\ IF ~ SafePath(Entry.path) \/ NamedBefore(Entry, "path") \/ NamedBefore(Entry, "role")
     THEN Fail("INVALID_MODEL")
     ELSE Seek(Entry.path) /\ UNCHANGED <<files, sized, bytes, manifest, entry, payloads, total,
                                          status>>

JudgePayload ==
  /\ step = "judge" /\ target \notin {ReleasePath, ManifestPath}
  /\ IF Hashed(bytes) # Entry.sha THEN Fail("HASH_MISMATCH")
     ELSE IF total > MaxTotalBytes - Entry.bytes THEN Fail("INVALID_MODEL")
     ELSE /\ payloads' = Append(payloads, [role |-> Entry.role, path |-> Entry.path,
                                           content |-> bytes])
          /\ total' = total + Entry.bytes
          /\ entry' = entry + 1 /\ step' = "entry"
          /\ UNCHANGED <<files, target, depth, sized, bytes, manifest, status>>

-----------------------------------------------------------------------------
(* The roles of the payloads.                                              *)

Overlays == {"heteronym_rules", "morphology_rules", "weak_form_rules"}
Core     == {"segment_inventory", "pronunciation_lexicon", "lts_model", "model_token_inventory"}
RequiredRoles(engine) ==
  IF engine = "fixture" THEN Core \cup {"fixture_graph"}
  ELSE Core \cup {"onnx_model", "token_projection"}
AllowedRoles(engine) ==
  RequiredRoles(engine) \cup Overlays \cup (IF engine = "fixture" THEN {} ELSE {"license_notice"})

\* Every required role and no other than the allowed ones.
RolesFit(engine, roles) == RequiredRoles(engine) \subseteq roles /\ roles \subseteq AllowedRoles(engine)

Payload(role) == {p \in {payloads[k] : k \in DOMAIN payloads} : p.role = role}
\* The graph and the projection are where they belong and are not empty.
GraphFits(engine) ==
  IF engine = "fixture"
  THEN \A p \in Payload("fixture_graph") :
         p.path = <<"fixture.graph">> /\ BytesOf(p.content) > 0
  ELSE /\ \A p \in Payload("onnx_model") :
            p.path = <<"model.onnx">> /\ BytesOf(p.content) >= MinGraphBytes
       /\ \A p \in Payload("token_projection") :
            p.path = <<"frontend", "piper_projection.jsonl">> /\ BytesOf(p.content) > 0

\* The rest of verify_files and of verify_manifest: tail is the verdict on the
\* sections after the files, notices the paths that the licences name.
EndOfFiles ==
  /\ step = "entry" /\ entry > Len(Body(manifest).files)
  /\ LET m == Body(manifest)
         used(field) == {payloads[k][field] : k \in DOMAIN payloads}
     IN  IF \/ ~ RolesFit(m.engine, used("role")) \/ ~ GraphFits(m.engine)
            \/ total # m.modelBytes \/ ~ m.notices \subseteq used("path")
         THEN Fail("INVALID_MODEL")
         ELSE IF m.tail # "OK" THEN Fail(m.tail)
         ELSE /\ step' = "verified"
              /\ UNCHANGED <<files, progress, status>>

\* std::bad_alloc is caught around the whole verification.
OutOfMemory == Reading /\ Fail("RESOURCE_EXHAUSTED")

Verify == \/ Change \/ CheckPin \/ Walk \/ Regular \/ Size \/ Read
          \/ JudgeRelease \/ JudgeManifest \/ CheckEntry \/ JudgePayload
          \/ EndOfFiles \/ OutOfMemory
=============================================================================
