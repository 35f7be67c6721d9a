---------------------------- MODULE InputArchive ----------------------------
(* The candidate's way to the runner: build_candidate packs the reviewed     *)
(* tree (build_immutable_inputs.py) while it may be edited, safe_extract     *)
(* unpacks an archive (safe_extract_tar.py).  Either may die at any step,    *)
(* and the extraction may be called again.                                   *)
(*                                                                           *)
(* A path is the sequence of its names.  A digest stands for what it was     *)
(* taken of.                                                                 *)
EXTENDS Integers, Sequences

CONSTANTS
  Files,       \* paths of the candidate's files, but for the checksum file's
  Versions,    \* of a file
  Prefix,      \* <<"candidate">>
  SumsFile,    \* path of SHA256SUMS.txt
  Manifest,    \* path of execution-manifest.json in the archive
  PathOrder,   \* all paths, as their strings are sorted
  Foreign,     \* archives of another maker
  Nothing,     \* no file
  Directory,   \* content of a directory
  MaxEdits, MaxCalls

VARIABLES
  tree,         \* version of each file of the candidate
  sums,         \* what its checksum file lists
  edits,        \* bounds the edits
  reviewed,     \* the checksum file whose digest was compared with the reviewed one
  listing,      \* files: the parsed checksum file
  hashed,       \* actual, as far as computed
  todo,         \* paths the present loop has not reached
  archive,      \* the members written so far
  build,        \* where build_candidate is
  steady,       \* history: nothing was edited since the build began
  exists,       \* the destination exists
  destination,  \* what is below it
  taken,        \* the archive that is extracted
  position,     \* the member extraction is at
  calls,        \* bounds the calls of safe_extract
  unpack,       \* where safe_extract is
  delivered     \* history: the archive of the call that returned

source == <<tree, sums, edits>>
building == <<reviewed, listing, hashed, todo, archive, build>>
unpacking == <<exists, destination, taken, position, calls, unpack, delivered>>
archiveVars == <<source, building, steady, unpacking>>

Paths == {PathOrder[i] : i \in DOMAIN PathOrder}
Names == UNION {{path[i] : i \in DOMAIN path} : path \in Paths}
Parents(path) == {SubSeq(path, 1, n) : n \in 1..(Len(path) - 1)}

(* A directory's string comes before those of what is in it. *)
ASSUME OrderAssumption ==
  /\ PathOrder \in Seq(Paths)
  /\ \A j \in DOMAIN PathOrder : \A directory \in Parents(PathOrder[j]) :
       \E i \in DOMAIN PathOrder : i < j /\ PathOrder[i] = directory

Listings == [Files -> Versions]

(* A "link" stands for every member that is refused: a link or a device, or  *)
(* a name that is absolute, leads upward or has another spelling.            *)
Member == [name : Paths, kind : {"directory", "file", "link"},
           content : Versions \cup Listings \cup {Directory, Nothing}]

ASSUME ArchiveAssumption ==
  Manifest \in Paths /\ Foreign \subseteq Seq(Member) /\ Directory # Nothing

(* Broken variant: a set is gone through in any order. *)
AnyOf(paths, path) == path \in paths

(* The next one of a sorted loop. *)
FirstOf(paths, path) ==
  /\ path \in paths
  /\ \E i \in DOMAIN PathOrder :
       /\ PathOrder[i] = path
       /\ \A j \in 1..(i - 1) : PathOrder[j] \notin paths

ArchiveInit ==
  /\ tree \in [Files -> Versions \cup {Nothing}]
  /\ sums \in Listings
  /\ edits = 0
  /\ reviewed = Nothing /\ listing = Nothing /\ hashed = <<>>
  /\ todo = {} /\ archive = <<>> /\ build = "digest"
  /\ steady = TRUE
  /\ exists = FALSE
  /\ destination = [path \in Paths |-> Nothing]
  /\ taken = <<>> /\ position = 1 /\ calls = 0
  /\ unpack = "idle" /\ delivered = <<>>

-----------------------------------------------------------------------------
(* build_candidate *)

Packed(path) == Prefix \o path

(* Files are not directories; in the archive they are below the prefix, and  *)
(* the manifest is beside it.                                                *)
ASSUME LayoutAssumption ==
  /\ Nothing \notin Versions \cup Listings
  /\ SumsFile \notin Files
  /\ Paths \subseteq Seq(Names)
  /\ Parents(Manifest) = {}
  /\ \A f \in Files \cup {SumsFile} :
       /\ Packed(f) \in Paths
       /\ Prefix \in Parents(Packed(f))
       /\ Manifest \notin Parents(Packed(f)) \cup {Packed(f)}
       /\ \A g \in Files \cup {SumsFile} :
            /\ Packed(f) \notin Parents(Packed(g))
            /\ Packed(f) = Packed(g) => f = g

Present == {f \in Files : tree[f] # Nothing}

(* The digest of the checksum file, which the caller has reviewed. *)
ReadDigest ==
  /\ build = "digest"
  /\ reviewed' = sums
  /\ build' = "parse"
  /\ UNCHANGED <<source, listing, hashed, todo, archive, steady, unpacking>>

(* parse_candidate_manifest reads it again and lists the tree. *)
ParseSums ==
  /\ build = "parse"
  /\ listing' = sums
  /\ hashed' = [f \in Present |-> Nothing]
  /\ todo' = Present
  /\ build' = "hash"
  /\ UNCHANGED <<source, reviewed, archive, steady, unpacking>>

HashFile ==
  /\ build = "hash"
  /\ \E f \in Present :
       /\ FirstOf(todo, f)
       /\ hashed' = [hashed EXCEPT ![f] = tree[f]]
       /\ todo' = todo \ {f}
  /\ UNCHANGED <<source, reviewed, listing, archive, build, steady, unpacking>>

DirectoryMember(path) == [name |-> path, kind |-> "directory", content |-> Directory]
FileMember(path, content) == [name |-> path, kind |-> "file", content |-> content]

(* add_tree writes the directories first, then the files; each in order, and *)
(* the tree is listed anew for it.                                           *)
StartPacking ==
  /\ build = "hash"
  /\ todo = {}
  /\ hashed = listing
  /\ todo' = {Packed(f) : f \in Present \cup {SumsFile}}
  /\ build' = "directories"
  /\ UNCHANGED <<source, reviewed, listing, hashed, archive, steady, unpacking>>

Written == {archive[i].name : i \in DOMAIN archive}
Directories == {Prefix} \cup UNION {Parents(path) : path \in todo}

PackDirectory ==
  /\ build = "directories"
  /\ \E path \in Directories :
       /\ FirstOf(Directories \ Written, path)
       /\ archive' = Append(archive, DirectoryMember(path))
  /\ UNCHANGED <<source, reviewed, listing, hashed, todo, build, steady, unpacking>>

StartFiles ==
  /\ build = "directories"
  /\ Directories \subseteq Written
  /\ build' = "files"
  /\ UNCHANGED <<source, reviewed, listing, hashed, todo, archive, steady, unpacking>>

PackFile ==
  /\ build = "files"
  /\ \E f \in Present \cup {SumsFile} :
       /\ FirstOf(todo, Packed(f))
       /\ archive' = Append(archive,
            FileMember(Packed(f), IF f = SumsFile THEN sums ELSE tree[f]))
       /\ todo' = todo \ {Packed(f)}
  /\ UNCHANGED <<source, reviewed, listing, hashed, build, steady, unpacking>>

(* The execution manifest is last; it lists what was parsed. *)
PackManifest ==
  /\ build = "files"
  /\ todo = {}
  /\ archive' = Append(archive, FileMember(Manifest, listing))
  /\ build' = "done"
  /\ UNCHANGED <<source, reviewed, listing, hashed, todo, steady, unpacking>>

(* An exception, or a death: the archive stays as far as it was written. *)
BuildFails ==
  /\ build \in {"digest", "parse", "hash", "directories", "files"}
  /\ build' = "failed"
  /\ UNCHANGED <<source, reviewed, listing, hashed, todo, archive, steady, unpacking>>

(* A file or the checksum file is edited. *)
EditTree ==
  /\ edits < MaxEdits
  /\ build \in {"parse", "hash", "directories", "files"}
  /\ edits' = edits + 1
  /\ \/ \E f \in Files, v \in Versions \cup {Nothing} : tree' = [tree EXCEPT ![f] = v]
        /\ UNCHANGED sums
     \/ sums' \in Listings /\ UNCHANGED tree
  /\ steady' = FALSE
  /\ UNCHANGED <<building, unpacking>>

-----------------------------------------------------------------------------
(* safe_extract *)

Empty == [path \in Paths |-> Nothing]

Available == Foreign \cup (IF build \in {"done", "failed"} THEN {archive} ELSE {})

(* Broken variant: the files of an earlier call may be there. *)
Usable == TRUE

Fresh == ~exists

(* A new call; it takes a destination that does not exist. *)
CallExtract ==
  /\ unpack # "members"
  /\ calls < MaxCalls
  /\ calls' = calls + 1
  /\ taken' \in Available
  /\ position' = 1
  /\ IF Fresh THEN exists' = TRUE /\ unpack' = "members"
     ELSE unpack' = "occupied" /\ UNCHANGED exists
  /\ UNCHANGED <<source, building, steady, destination, delivered>>

Seen(member) == \E i \in 1..(position - 1) : taken[i].name = member.name

(* A new name, regular, with content, and nothing in its place: mkdir and    *)
(* O_EXCL.                                                                   *)
Creatable(member) ==
  /\ member.kind \in {"directory", "file"}
  /\ member.content # Nothing
  /\ ~Seen(member)
  /\ destination[member.name] = Nothing
  /\ \A path \in Parents(member.name) : destination[path] \in {Nothing, Directory}

ExtractMember ==
  /\ unpack = "members"
  /\ position \in DOMAIN taken
  /\ Creatable(taken[position])
  /\ destination' = [path \in Paths |->
       IF path = taken[position].name THEN taken[position].content
       ELSE IF path \in Parents(taken[position].name) THEN Directory
       ELSE destination[path]]
  /\ position' = position + 1
  /\ UNCHANGED <<source, building, steady, exists, taken, calls, unpack, delivered>>

ExtractReturns ==
  /\ unpack = "members"
  /\ taken # <<>>
  /\ position \notin DOMAIN taken
  /\ unpack' = "returned"
  /\ delivered' = taken
  /\ UNCHANGED <<source, building, steady, exists, destination, taken, position, calls>>

(* An exception: rmtree removes what was extracted. *)
RefuseArchive ==
  /\ unpack = "members"
  /\ IF position \in DOMAIN taken THEN ~Creatable(taken[position]) ELSE taken = <<>>
  /\ exists' = FALSE
  /\ destination' = Empty
  /\ unpack' = "refused"
  /\ UNCHANGED <<source, building, steady, taken, position, calls, delivered>>

(* The process dies, and what was extracted stays. *)
ExtractDies ==
  /\ unpack = "members"
  /\ unpack' = "dead"
  /\ UNCHANGED <<source, building, steady, exists, destination, taken, position,
                 calls, delivered>>

Build ==
  \/ ReadDigest \/ ParseSums \/ HashFile
  \/ StartPacking \/ PackDirectory \/ StartFiles \/ PackFile \/ PackManifest
  \/ BuildFails

Extract == CallExtract \/ ExtractMember \/ ExtractReturns \/ RefuseArchive \/ ExtractDies

ArchiveNext == Build \/ EditTree \/ Extract

ArchiveSpec == ArchiveInit /\ [][ArchiveNext]_archiveVars

-----------------------------------------------------------------------------
TreeOf(members) ==
  [path \in Paths |->
    IF \E i \in DOMAIN members : members[i].name = path
    THEN members[CHOOSE i \in DOMAIN members : members[i].name = path].content
    ELSE IF \E i \in DOMAIN members : path \in Parents(members[i].name)
    THEN Directory
    ELSE Nothing]

(* Below the destination of a call that returned is its archive and nothing  *)
(* else: nothing that an earlier call left when it died, and nothing is      *)
(* taken away or added by later calls (safe_extract_tar.py 12-15, 56-59).    *)
ExtractedIsArchive == delivered # <<>> => destination = TreeOf(delivered)

Content(path) == destination[Packed(path)]

(* What was packed can be unpacked: the order of the members suits mkdir and *)
(* O_EXCL.  If nobody edited the candidate meanwhile, the unpacked tree is   *)
(* the one its checksum file and the execution manifest list, so that the    *)
(* runner accepts it (build_immutable_inputs.py 92-134).                     *)
UndisturbedBuildAccepted ==
  build = "done" =>
    /\ ~(unpack = "refused" /\ taken = archive)
    /\ steady /\ delivered = archive =>
         /\ destination[Manifest] = reviewed
         /\ Content(SumsFile) = reviewed
         /\ \A f \in Files : Content(f) = reviewed[f]
=============================================================================
