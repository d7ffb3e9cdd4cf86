--------------------------- MODULE MCProjectBuild ---------------------------
(* Small instances of ProjectBuild, and so of DependencyCheck, for TLC.     *)
EXTENDS ProjectBuild

CONSTANTS a, b, c

\* Every list of up to two different files.
UpToTwo == {s \in BoundedSeq(Paths, 2) : \A i, j \in 1..Len(s) : s[i] = s[j] => i = j}

\* build_file's entry point, and build_project's sorted files.
OneOrAll == {<<a>>, <<a, b, c>>}

\* The emitted code and its source map.
CodeAndMap == <<"luau", "map">>

=============================================================================
