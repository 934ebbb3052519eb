------------------------------ MODULE Builder ------------------------------
(***************************************************************************)
(* build::Builder: the skeletons in an output directory over many builds   *)
(* of a crate whose eBPF sources are added, removed and edited in between. *)
(*                                                                         *)
(* Nothing is ever cleaned up in the output directory.  A build writes the *)
(* skeleton of every source to where the source is below src, and gives a  *)
(* name that occurs once a symbolic link in the root, which is where       *)
(* include_bpf looks.  It may panic or be killed at any time; cargo then   *)
(* runs it again.                                                          *)
(***************************************************************************)
EXTENDS FiniteSets, Naturals

CONSTANTS
    Dirs,     \* directories below src, and of the output directory
    Root,     \* src itself, and the output directory itself
    Names,    \* file prefixes
    Explicit, \* the sources given with Builder::source
    NoFile

ASSUME RootAssumption == Root \in Dirs

\* A source file and its skeleton have the same place and name.
Files == [dir : Dirs, name : Names]

ASSUME ExplicitAssumption == Explicit \subseteq Files

VARIABLES
    tree,   \* the source files below src
    skel,   \* what is in the output directory
    header, \* vmlinux.h in the output directory
    phase,  \* where the build is
    todo,   \* the jobs of the build that have not been done
    job,    \* the job whose skeleton is being linked
    warned  \* whether a link could not be created in this build

vars == <<tree, skel, header, phase, todo, job, warned>>

\* A skeleton is torn or generated from a source, and then fresh as long as the
\* source is not edited.
Torn == [kind : {"torn"}]
Skeleton == [kind : {"skel"}, of : Files, fresh : BOOLEAN]
Link == [kind : {"link"}, dir : Dirs]
Generated(f) == [kind |-> "skel", of |-> f, fresh |-> TRUE]

\* The same file twice if it is below src and given with Builder::source.
Jobs == [file : Files, explicit : BOOLEAN]

ASSUME JobsAssumption == IsFiniteSet(Jobs)
ASSUME NoFileAssumption == NoFile \notin Torn \cup Skeleton \cup Link

Init ==
    /\ tree \in SUBSET Files
    /\ skel = [f \in Files |-> NoFile]
    /\ header = "absent"
    /\ phase = "idle"
    /\ todo = {}
    /\ job = NoFile
    /\ warned = FALSE

-----------------------------------------------------------------------------
(***************************************************************************)
(* Between builds.                                                         *)
(***************************************************************************)

Idle == phase \in {"idle", "done"}

Add(f) ==
    /\ Idle
    /\ f \notin tree
    /\ tree' = tree \cup {f}
    /\ phase' = "idle"
    /\ UNCHANGED <<skel, header, todo, job, warned>>

Outdated(file, f) ==
    IF file # NoFile /\ file = Generated(f) THEN [file EXCEPT !.fresh = FALSE] ELSE file

\* A source is removed or edited.
Change(f, removed) ==
    /\ Idle
    /\ f \in tree
    /\ tree' = IF removed THEN tree \ {f} ELSE tree
    /\ skel' = [p \in Files |-> Outdated(skel[p], f)]
    /\ phase' = "idle"
    /\ UNCHANGED <<header, todo, job, warned>>

-----------------------------------------------------------------------------
(***************************************************************************)
(* A build.                                                                *)
(***************************************************************************)

\* named_sources: what the glob pattern matches and what was given explicitly.
NamedSources ==
    [file : tree, explicit : {FALSE}] \cup [file : Explicit, explicit : {TRUE}]

NameCount(n) == Cardinality({j \in NamedSources : j.file.name = n})

Start ==
    /\ Idle
    /\ phase' = "header"
    /\ todo' = NamedSources
    /\ warned' = FALSE
    /\ UNCHANGED <<tree, skel, header, job>>

\* dump_kernel_btf: an existing header is not looked at.
HeaderExists ==
    /\ phase = "header"
    /\ header # "absent"
    /\ phase' = "compile"
    /\ UNCHANGED <<tree, skel, header, todo, job, warned>>

CreateHeader ==
    /\ phase = "header"
    /\ header = "absent"
    /\ header' = "torn"
    /\ phase' = "dump"
    /\ UNCHANGED <<tree, skel, todo, job, warned>>

WriteHeader ==
    /\ phase = "dump"
    /\ header' = "complete"
    /\ phase' = "compile"
    /\ UNCHANGED <<tree, skel, todo, job, warned>>

\* Mutant: all skeletons are written to the root.
OutFlat(f) == [dir |-> Root, name |-> f.name]

Out(f) == f

\* The file that is written or read at path p.
Target(p) ==
    IF skel[p] # NoFile /\ skel[p].kind = "link" THEN [p EXCEPT !.dir = skel[p].dir] ELSE p

\* The sources found below src come first.
Turn(j) == j \in todo /\ (j.explicit => \A k \in todo : k.explicit)

\* Mutant: a skeleton that is in the root already is linked too.
LinkableAnywhere(f) == NameCount(f.name) = 1

Linkable(f) == NameCount(f.name) = 1 /\ Out(f).dir # Root

\* The skeleton is generated into whatever is at its path.  A source that is not
\* there does not compile, nor does one that includes a torn vmlinux.h.
Compile(j) ==
    /\ phase = "compile"
    /\ Turn(j)
    /\ j.file \in tree /\ header = "complete"
    /\ skel' = [skel EXCEPT ![Target(Out(j.file))] = Generated(j.file)]
    /\ todo' = todo \ {j}
    /\ IF Linkable(j.file) THEN phase' = "unlink" /\ job' = j.file
       ELSE UNCHANGED <<phase, job>>
    /\ UNCHANGED <<tree, header, warned>>

LinkPath == [job EXCEPT !.dir = Root]

\* Mutant: what is at the place of the link is left there.
UnlinkNothing ==
    /\ phase = "unlink"
    /\ phase' = "link"
    /\ UNCHANGED <<tree, skel, header, todo, job, warned>>

Unlink ==
    /\ phase = "unlink"
    /\ skel' = [skel EXCEPT ![LinkPath] = NoFile]
    /\ phase' = "link"
    /\ UNCHANGED <<tree, header, todo, job, warned>>

Symlink ==
    /\ phase = "link"
    /\ skel[LinkPath] = NoFile
    /\ skel' = [skel EXCEPT ![LinkPath] = [kind |-> "link", dir |-> Out(job).dir]]
    /\ phase' = "compile"
    /\ job' = NoFile
    /\ UNCHANGED <<tree, header, todo, warned>>

\* A link that cannot be created is only worth a warning.
SymlinkFails ==
    /\ phase = "link"
    /\ warned' = TRUE
    /\ phase' = "compile"
    /\ job' = NoFile
    /\ UNCHANGED <<tree, skel, header, todo>>

Finish ==
    /\ phase = "compile"
    /\ todo = {}
    /\ phase' = "done"
    /\ UNCHANGED <<tree, skel, header, todo, job, warned>>

\* The build panics or is killed, perhaps while a skeleton is written.
Abort ==
    /\ ~ Idle
    /\ phase' = "idle"
    /\ todo' = {}
    /\ job' = NoFile
    /\ \/ UNCHANGED skel
       \/ \E j \in todo :
              /\ phase = "compile" /\ Turn(j)
              /\ skel' = [skel EXCEPT ![Target(Out(j.file))] = [kind |-> "torn"]]
    /\ UNCHANGED <<tree, header, warned>>

-----------------------------------------------------------------------------

Next ==
    \/ \E f \in Files : Add(f)
    \/ \E f \in Files, removed \in BOOLEAN : Change(f, removed)
    \/ Start \/ HeaderExists \/ CreateHeader \/ WriteHeader
    \/ \E j \in todo : Compile(j)
    \/ Unlink \/ Symlink \/ SymlinkFails
    \/ Finish \/ Abort

Spec == Init /\ [][Next]_vars

-----------------------------------------------------------------------------

\* The types.  A link is in the root and leads to a skeleton below it, so that
\* there is no chain of links and none that leads to nothing.
TypeOK ==
    /\ tree \subseteq Files
    /\ skel \in [Files -> {NoFile} \cup Torn \cup Skeleton \cup Link]
    /\ \A p \in Files :
           skel[p] \in Link => p.dir = Root /\ skel[Target(p)] \in Torn \cup Skeleton
    /\ header \in {"absent", "torn", "complete"}
    /\ phase \in {"idle", "header", "dump", "compile", "unlink", "link", "done"}
    /\ todo \subseteq Jobs
    /\ job \in Files \cup {NoFile}
    /\ warned \in BOOLEAN

\* What include_bpf finds by name.
Included(n) == skel[Target([dir |-> Root, name |-> n])]

\* When a build has succeeded, a name that occurs once gets the
\* skeleton of the only source of this name, as it is now, wherever sources of
\* the name were before and however earlier builds ended.  If a link could not be
\* created there may be none, but never another one.
UnambiguousNameIsIncluded ==
    phase = "done" =>
        \A f \in tree : NameCount(f.name) = 1 =>
            Included(f.name) \in {Generated(f)} \cup IF warned THEN {NoFile} ELSE {}

\* When a build has succeeded, every source below a directory of src has its own
\* fresh skeleton in the same place of the output directory, unless there is one
\* of the same name in the root of src.
OwnSkeletonBelowRoot ==
    phase = "done" =>
        \A f \in tree : [f EXCEPT !.dir = Root] \notin tree => skel[f] = Generated(f)

\* The doc of build: "Artifacts mirror the layout their source has below src."
\* So after a build every source has its own skeleton in its own place.
ArtifactsMirrorSources ==
    phase = "done" => \A f \in tree : skel[Target(f)] = Generated(f)

=============================================================================
