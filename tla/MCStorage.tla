----------------------------- MODULE MCStorage -----------------------------
(* The registry of mounts, and the files in mounts, side by side in one    *)
(* run: they share no state here, so that one of them is at rest while the *)
(* other runs, which adds their states up instead of multiplying them.     *)
(* Both are given the same model values for their requests and for their   *)
(* directories and data: one permutation of them serves either part.       *)
EXTENDS MountRegistry, MountFiles, Naturals, FiniteSets, TLC

CONSTANTS p1, p2, p3, v1, v2, k1, a, b

RootPaths == {p1, p2, p3}
UnsteadyPaths == {p1}
NestedPaths == {{p1, p3}}
\* Two devices: what is bound from one overlaps itself.
Binds == {{v1}, {v2}}

\* In mount a, s is the conflict-safe name of n, and one file is meta.json.
SomePlaces == {<<a, "n">>, <<a, "s">>, <<a, "meta.json">>, <<b, "n">>}
SafeNames == [p \in SomePlaces |-> IF p = <<a, "n">> THEN <<a, "s">> ELSE NoPlace]
Metas == {<<a, "meta.json">>}

\* What the run looks at: the registry, files and their conflict-safe names, or
\* files of which one is called meta.json.
VARIABLE focus
Idle == [files |-> <<a, "meta.json">>, meta |-> <<a, "s">>]

\* Bound: at first there is a directory behind every path, by one entry of
\* mountinfo, or behind none when it does not matter.
Init ==
    /\ MountInit /\ FilesInit
    /\ focus \in {"mounts", "files", "meta"}
    /\ \A p \in Roots : focus = "mounts" <=> behind[p].dir # NoDir
    /\ \A p \in Roots : behind[p] # Nothing => behind[p].via = v1 /\ behind[p].id = k1

\* Bound: files in at most two places at a time, as many as there are contents.
FewFiles == Cardinality({p \in Places : Taken(p)}) <= 2

Next ==
    /\ \/ focus = "mounts" /\ MountNext /\ UNCHANGED filesVars
       \/ /\ focus # "mounts" /\ FilesNext /\ UNCHANGED mountVars
          /\ content'[Idle[focus]] = NoFile /\ FewFiles'
    /\ UNCHANGED focus

Spec == Init /\ [][Next]_<<mountVars, filesVars, focus>>

Symmetry ==
    Permutations(Calls) \cup Permutations(Rows) \cup Permutations(Dirs)
=============================================================================
