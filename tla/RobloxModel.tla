----------------------------- MODULE RobloxModel -----------------------------
(* A project built for Roblox: how `require "..."` finds a source file      *)
(* (src/module.rs), the path through the instance tree it is replaced by    *)
(* (emit_roblox_path), and the tree of instances that the build makes of    *)
(* the sources (src/compiler.rs, build_project_rbxmx).  Paths begin at the  *)
(* project's baseDir.                                                       *)
EXTENDS Naturals, SequencesExt, FiniteSetsExt, Functions

CONSTANTS
  Files,        \* source files that may exist: [dir, stem, ext]
  Order,        \* all of Files as the build sorts them
  Extensions,   \* config: extensions, in the order they are tried
  ScriptSuffixes, \* config: server, legacy, client, local
  LongestFirst, \* the same, the longest first
  Stripped,     \* stems that end with a suffix, and what is left then
  IndexFiles,   \* config: indexFiles
  IndexLike,    \* the names that are index files but for the case of letters
  Unsafe,       \* the names Roblox would not take, and what becomes of them
  Aliases,      \* config: paths, as [from, wild, to]
  Longer,       \* names that begin with another name, and what is left then
  Specifiers    \* the strings required: [ups, names, ext]; names is empty
                \* only for "."

ASSUME OrderAssumption == Order \in Seq(Files) /\ ToSet(Order) = Files /\ IsInjective(Order)

\* A directory is a sequence of names, and a name that was made safe is safe.
ASSUME NamesAssumption ==
  /\ \A f \in Files : f.dir \in Seq(STRING) /\ f.stem \in STRING
  /\ \A n \in DOMAIN Unsafe : Unsafe[n] \notin DOMAIN Unsafe

\* The lists of a config are lists.
ASSUME ConfigAssumption ==
  Extensions \in Seq(STRING) /\ ScriptSuffixes \in Seq(STRING) /\ IndexFiles \in Seq(STRING)

\* No stem ends with an empty suffix: the code passes over those.
ASSUME SuffixAssumption ==
  /\ LongestFirst \in Seq(STRING) /\ ToSet(LongestFirst) = ToSet(ScriptSuffixes)
  /\ \A pair \in DOMAIN Stripped : pair[2] # "" /\ Stripped[pair] \in STRING

VARIABLES
  disk,       \* the files that exist
  emit_rbxmx, \* config: robloxOutput.emitRbxmx, a document for each file
  with_model, \* config: robloxOutput.projectRbxmx.enabled
  overlap,    \* config: do two patterns of `include` find the same files?
  todo,       \* how often each file of Order is still to be put in the tree
  placed,     \* the nodes of the tree that are scripts, and their sources
  verdict     \* "building", "built" or "refused"

vars == <<disk, emit_rbxmx, with_model, overlap, todo, placed, verdict>>

Nobody == [nobody |-> TRUE]

\* What the glob patterns of the default `include` find.
Included(f) == f.ext = "xl"
Project == {f \in disk : Included(f)}

\* The suffixes that a stem ends with and is more than, by their places.
Fits(stem, suffixes) ==
  {i \in DOMAIN suffixes : /\ <<stem, suffixes[i]>> \in DOMAIN Stripped
                           /\ Stripped[<<stem, suffixes[i]>>] # ""}

WithoutFirst(stem, suffixes) ==
  LET fits == Fits(stem, suffixes)
  IN IF fits = {} THEN stem ELSE Stripped[<<stem, suffixes[Min(fits)]>>]

\* The resolver takes off the first suffix that fits, the compiler the longest.
logical_file_stem(f) == WithoutFirst(f.stem, ScriptSuffixes)
stripped_stem(f) == WithoutFirst(f.stem, LongestFirst)

\* The suffix that makes a file a script.
suffix(f) ==
  LET fits == Fits(f.stem, LongestFirst)
  IN IF fits = {} THEN "" ELSE LongestFirst[Min(fits)]

\* The stem is a suffix and nothing else.
OnlySuffix(f) ==
  \E s \in ToSet(LongestFirst) : <<f.stem, s>> \in DOMAIN Stripped /\ Stripped[<<f.stem, s>>] = ""

\* Mutant: names are left as they are.
LeftAlone(name) == name

sanitize(name) == IF name \in DOMAIN Unsafe THEN Unsafe[name] ELSE name

Safe(path) == [i \in DOMAIN path |-> sanitize(path[i])]

-----------------------------------------------------------------------------
(* Resolving a specifier.                                                   *)

IsDir(path) == \E f \in disk : IsPrefix(path, f.dir)

FileAt(dir, stem, ext) ==
  LET found == {f \in disk : f.dir = dir /\ f.stem = stem /\ f.ext = ext}
  IN IF found = {} THEN Nobody ELSE CHOOSE f \in found : TRUE

\* The first of a sequence of files that exists.
FirstOf(files) ==
  LET found == {i \in DOMAIN files : files[i] # Nobody}
  IN IF found = {} THEN Nobody ELSE files[Min(found)]

InExtensions(dir, stem) == FirstOf([i \in DOMAIN Extensions |-> FileAt(dir, stem, Extensions[i])])

\* directory_index_stems: each index file name as it is, and then each of them
\* with each suffix of a script.
InDirectory(path) ==
  LET plain == FirstOf([i \in DOMAIN IndexFiles |-> InExtensions(path, IndexFiles[i])])
      script(i) == FirstOf([j \in DOMAIN ScriptSuffixes |->
                              InExtensions(path, IndexFiles[i] \o ScriptSuffixes[j])])
  IN IF plain # Nobody THEN plain ELSE FirstOf([i \in DOMAIN IndexFiles |-> script(i)])

resolve_source_path(path, ext) ==
  LET file == IF path = <<>> THEN Nobody
              ELSE IF ext # "" THEN FileAt(Front(path), Last(path), ext)
              ELSE InExtensions(Front(path), Last(path))
  IN IF file # Nobody THEN file
     ELSE IF ext = "" /\ IsDir(path) THEN InDirectory(path) ELSE Nobody

\* What is left of names behind a wildcard's prefix, which is compared as a
\* string: it may end inside a name.
Behind(from, names) ==
  LET n == Len(from)
  IN IF IsPrefix(from, names) THEN {SubSeq(names, n + 1, Len(names))}
     ELSE IF n <= Len(names) /\ IsPrefix(Front(from), names) /\ <<Last(from), names[n]>> \in DOMAIN Longer
     THEN {<<Longer[<<Last(from), names[n]>>]>> \o SubSeq(names, n + 1, Len(names))}
     ELSE {}

\* The aliases that fit, the longest of those without /* first.
resolve_alias_base(names) ==
  LET direct == {a \in Aliases : ~a.wild /\ IsPrefix(a.from, names)}
      wild == {a \in Aliases : a.wild /\ Behind(a.from, names) # {}}
      best == IF direct # {} THEN direct ELSE wild
      alias == CHOOSE a \in best : \A b \in best : Len(b.from) <= Len(a.from)
  IN {alias.to \o rest : rest \in IF best = {} THEN {} ELSE Behind(alias.from, names)}

\* An alias by itself is taken for the name of a package, and refused.
resolve_package_alias(names) == Len(names) = 1 /\ \E a \in Aliases : a.from = names

\* A specifier that begins with a dot goes from the directory of the file it
\* stands in; others are aliases.
resolve_static_require(current, s) ==
  IF s.ups > 0
  THEN IF s.ups - 1 > Len(current.dir) THEN Nobody
       ELSE resolve_source_path(SubSeq(current.dir, 1, Len(current.dir) + 1 - s.ups) \o s.names, s.ext)
  ELSE LET base == resolve_alias_base(s.names)
       IN IF resolve_package_alias(s.names) \/ base = {} THEN Nobody
          ELSE resolve_source_path(CHOOSE p \in base : TRUE, s.ext)

-----------------------------------------------------------------------------
(* The path a require is replaced by.                                       *)

\* Mutant: a suffix hides that a file is an index file.
IsPlainIndex(f) == f.stem \in IndexLike

is_index_stem(f) == logical_file_stem(f) \in IndexLike

\* The module of an index file is its directory.  The suffix stays in the
\* names of other files.
module_id(f) == IF is_index_stem(f) THEN f.dir ELSE Append(f.dir, f.stem)

Shared(p, q) == Max({n \in 0..Len(p) : IsPrefix(SubSeq(p, 1, n), q)})

\* script, .Parent so many times, and then the names of children.
emit_roblox_path(current, f) ==
  LET from == module_id(current)
      to == module_id(f)
      shared == Shared(from, to)
  IN [parents |-> Len(from) - shared, names |-> Safe(SubSeq(to, shared + 1, Len(to)))]

-----------------------------------------------------------------------------
(* The tree.                                                                *)

is_init(f) == stripped_stem(f) \in IndexLike

instance_name(f) ==
  IF is_init(f) /\ f.dir # <<>> THEN sanitize(Last(f.dir)) ELSE sanitize(stripped_stem(f))

\* The place of a file: its directory, or under it.
NodeOf(f) == IF is_init(f) THEN Safe(f.dir) ELSE Append(Safe(f.dir), instance_name(f))

HasChildren(node) == \E p \in DOMAIN placed : node # p /\ IsPrefix(node, p)

roblox_output_file_stem(f) ==
  IF OnlySuffix(f) THEN sanitize(f.stem) ELSE sanitize(stripped_stem(f)) \o suffix(f)

\* The output, but for its extension.
roblox_output_relative_path(f) == Append(Safe(f.dir), roblox_output_file_stem(f))

\* The included files; a file that two patterns find is there twice.
collect_project_files ==
  [i \in DOMAIN Order |-> IF Order[i] \in Project THEN (IF overlap THEN 2 ELSE 1) ELSE 0]

\* The list is sorted: the file at the least place is the next.
Left == {i \in DOMAIN Order : todo[i] > 0}
NextFile == Order[Min(Left)]

Init ==
  /\ disk \in SUBSET Files
  /\ emit_rbxmx \in BOOLEAN
  /\ with_model \in BOOLEAN
  /\ overlap \in BOOLEAN
  /\ todo = collect_project_files
  /\ placed = <<>>
  /\ verdict = "building"

\* Mutants: the later of two files replaces the earlier; a directory counts
\* against an index file as well.
TakenNever(f) == FALSE
TakenByDirectory(f) == NodeOf(f) \in DOMAIN placed \/ HasChildren(NodeOf(f))

Taken(f) == NodeOf(f) \in DOMAIN placed \/ (~is_init(f) /\ HasChildren(NodeOf(f)))

\* build_project makes a document for each file before there is a tree.
DocumentsMade == emit_rbxmx => \A f \in Project : ~OnlySuffix(f)

\* A file must have a name besides its suffix, for its document and in the tree.
RefuseName ==
  /\ verdict = "building"
  /\ \/ ~DocumentsMade
     \/ with_model /\ Left # {} /\ OnlySuffix(NextFile)
  /\ verdict' = "refused"
  /\ UNCHANGED <<disk, emit_rbxmx, with_model, overlap, todo, placed>>

Refuse ==
  /\ verdict = "building" /\ DocumentsMade /\ with_model /\ Left # {}
  /\ ~OnlySuffix(NextFile) /\ Taken(NextFile)
  /\ verdict' = "refused"
  /\ UNCHANGED <<disk, emit_rbxmx, with_model, overlap, todo, placed>>

Insert ==
  /\ verdict = "building" /\ DocumentsMade /\ with_model /\ Left # {}
  /\ ~OnlySuffix(NextFile) /\ ~Taken(NextFile)
  /\ placed' = [p \in DOMAIN placed \cup {NodeOf(NextFile)} |->
                  IF p = NodeOf(NextFile) THEN NextFile ELSE placed[p]]
  /\ todo' = [todo EXCEPT ![Min(Left)] = @ - 1]
  /\ UNCHANGED <<disk, emit_rbxmx, with_model, overlap, verdict>>

Finish ==
  /\ verdict = "building" /\ DocumentsMade
  /\ ~with_model \/ Left = {}
  /\ verdict' = "built"
  /\ UNCHANGED <<disk, emit_rbxmx, with_model, overlap, todo, placed>>

Next == RefuseName \/ Refuse \/ Insert \/ Finish

Spec == Init /\ [][Next]_vars

-----------------------------------------------------------------------------
(* Roblox.                                                                  *)

\* The name an item of the document is given: its instance's, or that of the
\* directory.  The items of a place are the places that begin with it.
into_xml_item(place) ==
  IF place \in DOMAIN placed THEN instance_name(placed[place]) ELSE Last(place)

\* The scripts that path leads to from a script, by the names of items; the
\* root is not reached by a name.
Reached(script, path) ==
  LET from == Len(script) - path.parents
  IN {n \in DOMAIN placed :
        /\ from >= 0 /\ Len(n) = from + Len(path.names)
        /\ IsPrefix(SubSeq(script, 1, from), n)
        /\ \A i \in DOMAIN path.names : into_xml_item(SubSeq(n, 1, from + i)) = path.names[i]}

-----------------------------------------------------------------------------
(* Properties.                                                              *)

TypeOK ==
  /\ disk \subseteq Files
  /\ emit_rbxmx \in BOOLEAN /\ with_model \in BOOLEAN /\ overlap \in BOOLEAN
  /\ todo \in [DOMAIN Order -> 0..2]
  /\ \A p \in DOMAIN placed : placed[p] \in Project /\ \A i \in DOMAIN p : p[i] \notin DOMAIN Unsafe
  /\ verdict \in {"building", "built", "refused"}

Modelled == verdict = "built" /\ with_model

\* A script that is no index file has no path: Roblox cannot require it.
Requirable(f) == Included(f) /\ (suffix(f) = "" \/ is_init(f))

\* f is in a directory that has the name of the script `current`, with its
\* suffix.  The path goes down from the script, which is not the directory.
BelowNamesake(current, f) ==
  suffix(current) # "" /\ ~is_init(current) /\ IsPrefix(module_id(current), module_id(f))

\* The stem ends with one of the configured suffixes at most.  Where one suffix
\* ends another, the resolver's and the compiler's ways to take one off differ:
\* of `init.v.server`, the first leaves `init.v` and the longest `init`.
OneSuffix(f) ==
  \A i, j \in Fits(f.stem, ScriptSuffixes) : ScriptSuffixes[i] = ScriptSuffixes[j]

(* A build that makes the model has a place for each file: no file takes    *)
(* that of another one in the tree or in the output directory, though names *)
(* are made safe for both, and none is left out (insert_project_rbxmx_item, *)
(* roblox_output_relative_path).                                            *)
EachFileOnce ==
  Modelled =>
    /\ ToSet(Order) \cap Project = Range(placed) /\ IsInjective(placed)
    /\ \A f, g \in Project : f # g => roblox_output_relative_path(f) # roblox_output_relative_path(g)

(* A require leads, in the model, from the script it stands in to the       *)
(* script of the file that it finds in the sources, unless that is in a     *)
(* directory named like the script, or the name of one of the two ends with *)
(* several suffixes (resolve_static_require and emit_roblox_path against    *)
(* insert_project_rbxmx_item).                                              *)
RequiresFind ==
  Modelled =>
    \A current \in Project, s \in Specifiers :
      LET f == resolve_static_require(current, s)
      IN /\ f # Nobody /\ Requirable(f) /\ ~BelowNamesake(current, f)
         /\ OneSuffix(current) /\ OneSuffix(f)
         => {placed[n] : n \in Reached(NodeOf(current), emit_roblox_path(current, f))} = {f}

(* A build is refused only when a file is named by a suffix alone, two files *)
(* want the same place, a file wants the place of a directory that is not   *)
(* empty, or a file is listed twice (roblox_instance_kind_for_stem and      *)
(* insert_project_rbxmx_item).                                              *)
RefusedForAReason ==
  verdict = "refused" /\ ~overlap =>
    \/ \E f \in Project : OnlySuffix(f)
    \/ \E f, g \in Project :
         f # g /\ IsPrefix(NodeOf(f), NodeOf(g)) /\ (NodeOf(f) = NodeOf(g) \/ ~is_init(f))

=============================================================================
