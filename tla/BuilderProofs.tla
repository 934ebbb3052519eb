--------------------------- MODULE BuilderProofs ---------------------------
(***************************************************************************)
(* What TLAPS proves about Builder, for all sets of directories, names and *)
(* explicit sources: what the output directory holds after any history of  *)
(* builds.                                                                 *)
(***************************************************************************)
EXTENDS Builder, FiniteSetTheorems, TLAPS

-----------------------------------------------------------------------------
(***************************************************************************)
(* Files and links.                                                        *)
(***************************************************************************)

Written == Torn \cup Skeleton

\* The place of the link to file f.
RootOf(f) == [f EXCEPT !.dir = Root]

\* Links are in the root and lead to something that was written below it.
LinkLeads(p) ==
    /\ p.dir = Root
    /\ skel[p].dir \in Dirs \ {Root}
    /\ skel[[p EXCEPT !.dir = skel[p].dir]] \in Written

FilesInv ==
    /\ skel \in [Files -> {NoFile} \cup Written \cup Link]
    /\ \A p \in Files : skel[p] \in Link => LinkLeads(p)

LEMMA FileIs ==
    ASSUME NEW p \in Files
    PROVE  /\ p.dir \in Dirs /\ p.name \in Names
           /\ RootOf(p) \in Files /\ RootOf(p).dir = Root /\ RootOf(p).name = p.name
           /\ \A d \in Dirs : /\ [p EXCEPT !.dir = d] \in Files
                              /\ [p EXCEPT !.dir = d].dir = d
                              /\ [p EXCEPT !.dir = d].name = p.name
BY RootAssumption DEF Files, RootOf

LEMMA SameFile ==
    ASSUME NEW p \in Files, NEW q \in Files, p.dir = q.dir, p.name = q.name
    PROVE  p = q
BY DEF Files

\* What is at a path is one thing only.
LEMMA KindsDiffer ==
    /\ \A x \in Written : x \notin Link /\ x # NoFile /\ x.kind # "link"
    /\ \A x \in Link : x # NoFile /\ x.kind = "link" /\ x.dir \in Dirs
BY NoFileAssumption DEF Written, Torn, Skeleton, Link

LEMMA GeneratedIs ==
    ASSUME NEW f \in Files
    PROVE  Generated(f) \in Written
BY DEF Generated, Written, Skeleton

LEMMA TornIs == [kind |-> "torn"] \in Written
BY DEF Written, Torn

LEMMA TargetIs ==
    ASSUME FilesInv, NEW p \in Files
    PROVE  /\ Target(p) \in Files /\ Target(p).name = p.name
           /\ skel[p] \notin Link => Target(p) = p
           /\ skel[p] \in Link => /\ p.dir = Root
                                  /\ Target(p) = [p EXCEPT !.dir = skel[p].dir]
                                  /\ Target(p).dir # Root
           /\ skel[Target(p)] \notin Link
<1>1. skel[p] \in {NoFile} \cup Written \cup Link
  BY DEF FilesInv
<1>2. CASE skel[p] \in Link
  <2>1. Target(p) = [p EXCEPT !.dir = skel[p].dir]
    BY <1>2, KindsDiffer DEF Target
  <2>2. LinkLeads(p)
    BY <1>2 DEF FilesInv
  <2>3. p.dir = Root /\ skel[p].dir \in Dirs /\ skel[p].dir # Root /\ skel[Target(p)] \in Written
    BY <2>1, <2>2 DEF LinkLeads
  <2>4. Target(p) \in Files /\ Target(p).name = p.name /\ Target(p).dir = skel[p].dir
    BY <2>1, <2>3, FileIs
  <2> QED
    BY <1>2, <2>1, <2>3, <2>4, KindsDiffer
<1>3. CASE skel[p] \notin Link
  <2>1. ~ (skel[p] # NoFile /\ skel[p].kind = "link")
    BY <1>1, <1>3, KindsDiffer
  <2>2. Target(p) = p
    BY <2>1 DEF Target
  <2> QED
    BY <1>3, <2>2
<1> QED
  BY <1>2, <1>3

\* Writing a file through the link in its place.
LEMMA WritingKeepsFiles ==
    ASSUME FilesInv, NEW f \in Files, NEW x \in Written, skel' = [skel EXCEPT ![Target(f)] = x]
    PROVE  /\ FilesInv'
           /\ skel'[Target(f)] = x /\ Target(f)' = Target(f)
           /\ \A p \in Files : p # Target(f) => skel'[p] = skel[p]
<1> DEFINE t == Target(f)
<1>1. /\ t \in Files /\ skel[t] \notin Link /\ x \notin Link
      /\ skel \in [Files -> {NoFile} \cup Written \cup Link]
  BY TargetIs, KindsDiffer DEF FilesInv
<1>2. PICK u \in Files : u = t
  BY <1>1
<1>3. /\ skel'[u] = x /\ \A p \in Files : p # u => skel'[p] = skel[p]
      /\ skel' \in [Files -> {NoFile} \cup Written \cup Link]
  BY <1>1, <1>2
<1>4. ASSUME NEW p \in Files, skel'[p] \in Link
      PROVE  LinkLeads(p)'
  <2>1. p # u
    BY <1>1, <1>3, <1>4
  <2>2. skel'[p] = skel[p] /\ LinkLeads(p)
    BY <1>3, <1>4, <2>1 DEF FilesInv
  <2>3. PICK d \in Dirs \ {Root} : d = skel[p].dir
    BY <2>2 DEF LinkLeads
  <2>4. [p EXCEPT !.dir = d] \in Files /\ skel[[p EXCEPT !.dir = d]] \in Written /\ p.dir = Root
    BY <2>2, <2>3, FileIs DEF LinkLeads
  <2>5. skel'[[p EXCEPT !.dir = d]] \in Written
    BY <1>3, <2>4
  <2> QED
    BY <2>2, <2>3, <2>4, <2>5 DEF LinkLeads
<1>5. FilesInv'
  BY <1>3, <1>4 DEF FilesInv
<1>6. Target(f)' = u
  <2>1. CASE skel[f] \in Link
    <3>1. f # u /\ skel'[f] = skel[f]
      BY <1>1, <1>2, <1>3, <2>1
    <3> QED
      BY <1>2, <3>1 DEF Target
  <2>2. CASE skel[f] \notin Link
    <3>1. f = u
      BY <1>2, <2>2, TargetIs
    <3>2. ~ (skel'[f] # NoFile /\ skel'[f].kind = "link")
      BY <1>3, <3>1, KindsDiffer
    <3> QED
      BY <3>1, <3>2 DEF Target
  <2> QED
    BY <2>1, <2>2
<1> QED
  BY <1>2, <1>3, <1>5, <1>6

\* Removing and creating the link to file f.
LEMMA LinkingKeepsFiles ==
    ASSUME FilesInv, NEW f \in Files, f.dir # Root, NEW x,
           skel' = [skel EXCEPT ![RootOf(f)] = x],
           x = NoFile \/ (skel[f] \in Written /\ x = [kind |-> "link", dir |-> f.dir])
    PROVE  /\ FilesInv'
           /\ skel'[RootOf(f)] = x
           /\ \A p \in Files : p # RootOf(f) => skel'[p] = skel[p]
<1> DEFINE r == RootOf(f)
<1>1. /\ r \in Files /\ r.dir = Root /\ r.name = f.name
      /\ f.dir \in Dirs
      /\ skel \in [Files -> {NoFile} \cup Written \cup Link]
  BY FileIs DEF FilesInv
<1>2. x = NoFile \/ x \in Link
  BY <1>1 DEF Link
<1>3. [r EXCEPT !.dir = f.dir] = f
  <2> DEFINE q == [r EXCEPT !.dir = f.dir]
  <2> HIDE DEF r
  <2>1. q \in Files /\ q.dir = f.dir /\ q.name = f.name
    BY <1>1, FileIs
  <2> HIDE DEF q
  <2>2. q = f
    BY ONLY <2>1, f \in Files, SameFile
  <2> QED
    BY ONLY <2>2 DEF q
<1>4. skel' = [skel EXCEPT ![r] = x]
  OBVIOUS
<1> HIDE DEF r
<1>5. /\ skel'[r] = x /\ \A p \in Files : p # r => skel'[p] = skel[p]
      /\ skel' \in [Files -> {NoFile} \cup Written \cup Link]
  BY <1>1, <1>2, <1>4
<1>6. ASSUME NEW p \in Files, skel'[p] \in Link
      PROVE  LinkLeads(p)'
  <2>1. CASE p = r
    <3>1. x = [kind |-> "link", dir |-> f.dir] /\ skel[f] \in Written
      BY <1>5, <1>6, <2>1, NoFileAssumption
    <3>2. f # r /\ skel'[f] = skel[f]
      BY <1>1, <1>5
    <3>3. skel'[p].dir = f.dir /\ [p EXCEPT !.dir = f.dir] = f
      BY <1>3, <1>5, <2>1, <3>1
    <3> QED
      BY <1>1, <2>1, <3>1, <3>2, <3>3 DEF LinkLeads
  <2>2. CASE p # r
    <3>1. skel'[p] = skel[p] /\ LinkLeads(p)
      BY <1>5, <1>6, <2>2 DEF FilesInv
    <3>2. PICK d \in Dirs \ {Root} : d = skel[p].dir
      BY <3>1 DEF LinkLeads
    <3> DEFINE q == [p EXCEPT !.dir = d]
    <3>3. q \in Files /\ q.dir = d /\ skel[q] \in Written /\ p.dir = Root
      BY <3>1, <3>2, FileIs DEF LinkLeads
    <3>4. skel'[q] \in Written
      BY <1>1, <1>5, <3>3
    <3> QED
      BY <3>1, <3>2, <3>3, <3>4 DEF LinkLeads
  <2> QED
    BY <2>1, <2>2
<1>7. FilesInv'
  BY <1>5, <1>6 DEF FilesInv
<1> QED
  BY <1>5, <1>7 DEF r

-----------------------------------------------------------------------------
(***************************************************************************)
(* The inductive invariant.                                                *)
(***************************************************************************)

\* The job of a source below src.
Plain(f) == [file |-> f, explicit |-> FALSE]

Linking == phase \in {"unlink", "link"}
Building == Linking \/ phase \in {"compile", "done"}

StateTyped ==
    /\ tree \subseteq Files
    /\ header \in {"absent", "torn", "complete"}
    /\ phase \in {"idle", "header", "dump", "compile", "unlink", "link", "done"}
    /\ todo \subseteq Jobs
    /\ job \in Files \cup {NoFile}
    /\ warned \in BOOLEAN

\* What is still to be done, and the skeleton that is being linked.
JobsInv ==
    /\ phase # "idle" => todo \subseteq NamedSources
    /\ phase \in {"header", "dump"} => todo = NamedSources
    /\ phase = "done" => todo = {}
    /\ Linking => job \in tree /\ Linkable(job) /\ skel[job] = Generated(job)
    /\ phase = "link" => skel[RootOf(job)] = NoFile

IncludedWell(f) ==
    skel[Target(RootOf(f))] \in {Generated(f)} \cup IF warned THEN {NoFile} ELSE {}

\* The only source of its name is found as soon as its job is done and linked.
IncludedInv ==
    Building => \A f \in tree :
        NameCount(f.name) = 1 /\ Plain(f) \notin todo /\ ~ (Linking /\ job = f)
            => IncludedWell(f)

\* A source without one of its name in the root has its skeleton once its jobs are done.
OwnInv ==
    Building => \A f \in tree :
        RootOf(f) \notin tree /\ (\A j \in todo : j.file # f) => skel[f] = Generated(f)

Inv == StateTyped /\ FilesInv /\ JobsInv /\ IncludedInv /\ OwnInv

LEMMA InitInv == Init => Inv
<1> SUFFICES ASSUME Init
             PROVE  Inv
  OBVIOUS
<1>1. StateTyped
  BY DEF Init, StateTyped
<1>2. FilesInv
  BY NoFileAssumption DEF Init, FilesInv
<1>3. phase = "idle"
  BY DEF Init
<1> QED
  BY <1>1, <1>2, <1>3 DEF Inv, JobsInv, IncludedInv, OwnInv, Building, Linking

\* A name that occurs once has one job.
LEMMA OnlySource ==
    ASSUME StateTyped, NEW f \in tree, NameCount(f.name) = 1,
           NEW j \in NamedSources, j.file.name = f.name
    PROVE  j = Plain(f) /\ j.file = f
<1> DEFINE S == {k \in NamedSources : k.file.name = f.name}
<1>1. NamedSources \subseteq Jobs
  BY ExplicitAssumption DEF StateTyped, NamedSources, Jobs
<1>2. IsFiniteSet(S)
  <2>1. S \in SUBSET Jobs
    BY <1>1
  <2> QED
    BY ONLY <2>1, JobsAssumption, FS_Subset
<1>3. Cardinality(S) = 1
  BY DEF NameCount
<1>4. j \in S /\ Plain(f) \in S
  BY DEF NamedSources, Plain
<1> HIDE DEF S
<1>5. PICK x : S = {x}
  BY <1>2, <1>3, FS_Singleton
<1>6. j = Plain(f)
  BY <1>4, <1>5
<1> QED
  BY <1>6 DEF Plain

LEMMA NamesDiffer ==
    ASSUME StateTyped, NEW f \in tree, NameCount(f.name) = 1, NEW g \in tree, g # f
    PROVE  g.name # f.name
<1>1. Plain(g) \in NamedSources /\ Plain(g).file = g
  BY DEF NamedSources, Plain
<1> QED
  BY <1>1, OnlySource

\* What is written under other names is not included for this one.
LEMMA IncludedElsewhere ==
    ASSUME FilesInv, NEW f \in Files, \A p \in Files : p.name = f.name => skel'[p] = skel[p]
    PROVE  skel'[Target(RootOf(f))'] = skel[Target(RootOf(f))]
<1>1. PICK r \in Files : r = RootOf(f) /\ r.name = f.name
  BY FileIs
<1>2. skel'[r] = skel[r]
  BY <1>1
<1>3. PICK t \in Files : t = Target(r) /\ t.name = f.name
  BY <1>1, TargetIs
<1>4. skel'[t] = skel[t]
  BY <1>3
<1>5. Target(r)' = Target(r)
  BY <1>2 DEF Target
<1>6. Target(RootOf(f)) = t /\ Target(RootOf(f))' = t
  BY <1>1, <1>3, <1>5 DEF RootOf, Target
<1> QED
  BY <1>4, <1>6

-----------------------------------------------------------------------------
(***************************************************************************)
(* Steps.                                                                  *)
(***************************************************************************)

LEMMA OutdatedIs ==
    ASSUME NEW f \in Files, NEW x \in {NoFile} \cup Written \cup Link
    PROVE  /\ Outdated(x, f) \in {NoFile} \cup Written \cup Link
           /\ x \in Written => Outdated(x, f) \in Written
           /\ x \notin Written => Outdated(x, f) = x
<1>1. CASE x # NoFile /\ x = Generated(f)
  <2>1. [Generated(f) EXCEPT !.fresh = FALSE] \in Skeleton
    BY DEF Generated, Skeleton
  <2>2. x \in Written
    BY <1>1, GeneratedIs
  <2> QED
    BY <1>1, <2>1, <2>2 DEF Outdated, Written
<1>2. CASE ~ (x # NoFile /\ x = Generated(f))
  BY <1>2 DEF Outdated
<1> QED
  BY <1>1, <1>2

\* Between builds.
LEMMA ChangeInv ==
    ASSUME Inv, NEW f \in Files, NEW removed \in BOOLEAN, Change(f, removed)
    PROVE  Inv'
<1>1. /\ StateTyped /\ FilesInv
      /\ tree' = IF removed THEN tree \ {f} ELSE tree
      /\ skel' = [p \in Files |-> Outdated(skel[p], f)]
      /\ phase' = "idle" /\ UNCHANGED <<header, todo, job, warned>>
  BY DEF Inv, Change
<1>2. StateTyped'
  BY <1>1 DEF StateTyped
<1>3. \A p \in Files : /\ skel'[p] \in {NoFile} \cup Written \cup Link
                       /\ skel[p] \in Written => skel'[p] \in Written
                       /\ skel[p] \notin Written => skel'[p] = skel[p]
  BY <1>1, OutdatedIs DEF FilesInv
<1>4. ASSUME NEW p \in Files, skel'[p] \in Link
      PROVE  LinkLeads(p)'
  <2>1. skel'[p] = skel[p] /\ LinkLeads(p)
    BY <1>1, <1>3, <1>4, KindsDiffer DEF FilesInv
  <2>2. PICK d \in Dirs \ {Root} : d = skel[p].dir
    BY <2>1 DEF LinkLeads
  <2> DEFINE q == [p EXCEPT !.dir = d]
  <2>3. q \in Files /\ skel[q] \in Written /\ p.dir = Root
    BY <2>1, <2>2, FileIs DEF LinkLeads
  <2>4. skel'[q] \in Written
    BY <1>3, <2>3
  <2> QED
    BY <2>1, <2>2, <2>3, <2>4 DEF LinkLeads
<1>5. FilesInv'
  <2>1. skel' \in [Files -> {NoFile} \cup Written \cup Link]
    BY <1>1, <1>3
  <2> QED
    BY <1>4, <2>1 DEF FilesInv
<1> QED
  BY <1>1, <1>2, <1>5 DEF Inv, JobsInv, IncludedInv, OwnInv, Building, Linking

\* The skeleton of job j is generated.
LEMMA CompileInv ==
    ASSUME Inv, NEW j \in todo, Compile(j)
    PROVE  Inv'
<1>1. /\ StateTyped /\ FilesInv /\ JobsInv /\ IncludedInv /\ OwnInv
      /\ phase = "compile" /\ j.file \in tree
      /\ skel' = [skel EXCEPT ![Target(j.file)] = Generated(j.file)]
      /\ todo' = todo \ {j}
      /\ \/ Linkable(j.file) /\ phase' = "unlink" /\ job' = j.file
         \/ ~ Linkable(j.file) /\ UNCHANGED <<phase, job>>
      /\ UNCHANGED <<tree, header, warned>>
  BY DEF Inv, Compile, Out
<1>2. PICK f \in Files : f = j.file
  BY <1>1 DEF StateTyped
<1>3. /\ FilesInv' /\ skel'[Target(f)] = Generated(f) /\ Target(f)' = Target(f)
      /\ \A p \in Files : p # Target(f) => skel'[p] = skel[p]
  <2>1. Generated(f) \in Written /\ skel' = [skel EXCEPT ![Target(f)] = Generated(f)]
    BY <1>1, <1>2, GeneratedIs
  <2> DEFINE x == Generated(f)
  <2>2. x \in Written /\ skel' = [skel EXCEPT ![Target(f)] = x]
    BY <2>1
  <2>3. /\ FilesInv' /\ skel'[Target(f)] = x /\ Target(f)' = Target(f)
        /\ \A p \in Files : p # Target(f) => skel'[p] = skel[p]
    <3> HIDE DEF x
    <3> QED
      BY ONLY <1>1, <2>2, f \in Files, WritingKeepsFiles
  <2> QED
    BY <2>3
<1>4. /\ Target(f) \in Files /\ Target(f).name = f.name
      /\ f.dir # Root => Target(f) = f
      /\ Target(f) # f => f.dir = Root
  BY <1>1, TargetIs
<1>5. NamedSources' = NamedSources /\ \A n : NameCount(n)' = NameCount(n)
  BY <1>1 DEF NamedSources, NameCount
<1>6. \A g : Linkable(g)' = Linkable(g)
  BY <1>5 DEF Linkable, Out
<1>7. todo \subseteq NamedSources /\ j \in NamedSources
  BY <1>1 DEF JobsInv
<1>8. StateTyped'
  BY <1>1 DEF StateTyped
<1>9. JobsInv'
  <2>1. CASE Linkable(f)
    <3>1. f.dir # Root /\ skel'[f] = Generated(f)
      BY <1>3, <1>4, <2>1 DEF Linkable, Out
    <3>2. phase' = "unlink" /\ job' = f
      BY <1>1, <1>2, <2>1
    <3> QED
      BY <1>1, <1>2, <1>5, <1>6, <1>7, <2>1, <3>1, <3>2 DEF JobsInv, Linking
  <2>2. CASE ~ Linkable(f)
    BY <1>1, <1>2, <1>5, <1>7, <2>2 DEF JobsInv, Linking
  <2> QED
    BY <2>1, <2>2
<1>10. IncludedInv'
  <2> SUFFICES ASSUME NEW g \in tree, NameCount(g.name) = 1, Plain(g) \notin todo',
                      ~ (Linking' /\ job' = g)
               PROVE  IncludedWell(g)'
    BY <1>1, <1>5 DEF IncludedInv
  <2>0. g \in Files
    BY <1>1 DEF StateTyped
  <2>1. CASE g = f
    <3>1. f.dir = Root
      <4>1. ~ Linkable(f)
        BY <1>1, <1>2, <2>1 DEF Linking
      <4> QED
        BY <2>1, <4>1 DEF Linkable, Out
    <3>2. RootOf(f) = f
      BY <3>1, FileIs, SameFile
    <3>3. skel'[Target(f)'] = Generated(f)
      BY <1>3
    <3>4. Target(RootOf(f))' = Target(f)'
      BY <3>2 DEF RootOf, Target
    <3> QED
      BY <2>1, <3>3, <3>4 DEF IncludedWell
  <2>2. CASE g # f
    <3>1. f.name # g.name
      BY <1>1, <1>2, <2>2, NamesDiffer
    <3>2. Plain(g) \notin todo
      BY <1>1, <1>2, <2>2 DEF Plain
    <3>3. IncludedWell(g)
      BY <1>1, <3>2 DEF IncludedInv, Building, Linking
    <3>4. \A p \in Files : p.name = g.name => skel'[p] = skel[p]
      BY <1>3, <1>4, <3>1
    <3>5. skel'[Target(RootOf(g))'] = skel[Target(RootOf(g))]
      BY ONLY <1>1, <2>0, <3>4, IncludedElsewhere
    <3> QED
      BY <1>1, <3>3, <3>5 DEF IncludedWell
  <2> QED
    BY <2>1, <2>2
<1>11. OwnInv'
  <2> SUFFICES ASSUME NEW g \in tree, RootOf(g) \notin tree, \A k \in todo' : k.file # g
               PROVE  skel'[g] = Generated(g)
    BY <1>1 DEF OwnInv
  <2>0. g \in Files
    BY <1>1 DEF StateTyped
  <2>1. CASE g = f
    <3>1. f.dir # Root
      <4>1. f.dir = Root => RootOf(f) = f
        BY FileIs, SameFile
      <4> QED
        BY <2>1, <4>1
    <3> QED
      BY <1>3, <1>4, <2>1, <3>1
  <2>2. CASE g # f
    <3>1. \A k \in todo : k.file # g
      BY <1>1, <1>2, <2>2
    <3>2. skel[g] = Generated(g)
      BY <1>1, <3>1 DEF OwnInv, Building, Linking
    <3>3. g # Target(f)
      <4> SUFFICES ASSUME g = Target(f)
                   PROVE  FALSE
        OBVIOUS
      <4>1. f.dir = Root /\ g.name = f.name
        BY <1>4, <2>2
      <4>2. RootOf(g) = f
        <5>1. RootOf(g) \in Files /\ RootOf(g).dir = f.dir /\ RootOf(g).name = f.name
          BY <2>0, <4>1, FileIs
        <5> QED
          BY <5>1, SameFile
      <4> QED
        BY <1>1, <1>2, <4>2
    <3> QED
      BY <1>3, <2>0, <3>2, <3>3
  <2> QED
    BY <2>1, <2>2
<1> QED
  BY <1>3, <1>8, <1>9, <1>10, <1>11 DEF Inv

\* While file f is being linked, only the place of its link changes.
LEMMA LinkStepInv ==
    ASSUME Inv, NEW f \in tree, job = f, Linking, NEW x,
           skel' = [skel EXCEPT ![RootOf(f)] = x],
           x = NoFile \/ x = [kind |-> "link", dir |-> f.dir],
           UNCHANGED <<tree, todo>>
    PROVE  /\ FilesInv' /\ NamedSources' = NamedSources
           /\ \A g : NameCount(g)' = NameCount(g) /\ Linkable(g)' = Linkable(g)
           /\ skel'[RootOf(f)] = x /\ skel'[f] = Generated(f)
           /\ \A g \in tree : g # f /\ NameCount(g.name) = 1 /\ Plain(g) \notin todo
                  => IncludedWell(g) /\ skel'[Target(RootOf(g))'] = skel[Target(RootOf(g))]
           /\ \A g \in tree : RootOf(g) \notin tree /\ (\A j \in todo : j.file # g)
                  => skel'[g] = Generated(g)
<1>1. /\ StateTyped /\ FilesInv /\ JobsInv /\ IncludedInv /\ OwnInv
      /\ f \in Files /\ Linkable(f) /\ skel[f] = Generated(f)
  BY DEF Inv, JobsInv, StateTyped
<1>2. f.dir # Root /\ skel[f] \in Written
  BY <1>1, GeneratedIs DEF Linkable, Out
<1>3. /\ FilesInv' /\ skel'[RootOf(f)] = x
      /\ \A p \in Files : p # RootOf(f) => skel'[p] = skel[p]
  <2>1. /\ FilesInv /\ f \in Files /\ f.dir # Root
        /\ skel' = [skel EXCEPT ![RootOf(f)] = x]
        /\ x = NoFile \/ (skel[f] \in Written /\ x = [kind |-> "link", dir |-> f.dir])
    BY <1>1, <1>2
  <2> QED
    BY ONLY <2>1, LinkingKeepsFiles
<1>4. RootOf(f) # f /\ RootOf(f).dir = Root /\ RootOf(f).name = f.name
  BY <1>1, <1>2, FileIs
<1>5. NamedSources' = NamedSources /\ \A g : NameCount(g)' = NameCount(g)
  BY DEF NamedSources, NameCount
<1>6. \A g : Linkable(g)' = Linkable(g)
  BY <1>5 DEF Linkable, Out
<1>7. ASSUME NEW g \in tree, g # f, NameCount(g.name) = 1, Plain(g) \notin todo
      PROVE  IncludedWell(g) /\ skel'[Target(RootOf(g))'] = skel[Target(RootOf(g))]
  <2>1. g \in Files /\ f.name # g.name
    BY <1>1, <1>7, NamesDiffer DEF StateTyped
  <2>2. IncludedWell(g)
    BY <1>1, <1>7 DEF IncludedInv, Building
  <2>3. \A p \in Files : p.name = g.name => skel'[p] = skel[p]
    BY <1>3, <1>4, <2>1
  <2>4. skel'[Target(RootOf(g))'] = skel[Target(RootOf(g))]
    BY ONLY <1>1, <2>1, <2>3, IncludedElsewhere
  <2> QED
    BY <2>2, <2>4
<1>8. ASSUME NEW g \in tree, RootOf(g) \notin tree, \A j \in todo : j.file # g
      PROVE  skel'[g] = Generated(g)
  <2>1. g \in Files /\ skel[g] = Generated(g)
    BY <1>1, <1>8 DEF StateTyped, OwnInv, Building
  <2>2. g.dir # Root
    <3>1. g.dir = Root => RootOf(g) = g
      BY <2>1, FileIs, SameFile
    <3> QED
      BY <1>8, <3>1
  <2> QED
    BY <1>3, <1>4, <2>1, <2>2
<1> QED
  BY <1>1, <1>3, <1>4, <1>5, <1>6, <1>7, <1>8

LEMMA UnlinkInv ==
    ASSUME Inv, Unlink
    PROVE  Inv'
<1>1. /\ StateTyped /\ JobsInv /\ phase = "unlink" /\ phase' = "link" /\ Linking
      /\ skel' = [skel EXCEPT ![RootOf(job)] = NoFile]
      /\ UNCHANGED <<tree, header, todo, job, warned>>
      /\ job \in tree
  BY DEF Inv, Unlink, LinkPath, RootOf, Linking, JobsInv
<1>2. PICK f \in tree : f = job
  BY <1>1
<1>3. /\ FilesInv' /\ NamedSources' = NamedSources
      /\ \A g : NameCount(g)' = NameCount(g) /\ Linkable(g)' = Linkable(g)
      /\ skel'[RootOf(f)] = NoFile /\ skel'[f] = Generated(f)
      /\ \A g \in tree : g # f /\ NameCount(g.name) = 1 /\ Plain(g) \notin todo
             => IncludedWell(g) /\ skel'[Target(RootOf(g))'] = skel[Target(RootOf(g))]
      /\ \A g \in tree : RootOf(g) \notin tree /\ (\A j \in todo : j.file # g)
             => skel'[g] = Generated(g)
  BY <1>1, <1>2, LinkStepInv
<1>4. StateTyped'
  BY <1>1 DEF StateTyped
<1>5. Linking' /\ job' = f
  BY <1>1, <1>2 DEF Linking
<1>6. JobsInv'
  <2>1. RootOf(job)' = RootOf(f)
    BY <1>5 DEF RootOf
  <2>2. Linkable(job)' = Linkable(job)
    BY <1>1, <1>3 DEF Linkable, Out
  <2> QED
    BY <1>1, <1>2, <1>3, <1>5, <2>1, <2>2 DEF JobsInv
<1>7. IncludedInv'
  <2> SUFFICES ASSUME NEW g \in tree, NameCount(g.name) = 1, Plain(g) \notin todo, g # f
               PROVE  IncludedWell(g)'
    BY <1>1, <1>3, <1>5 DEF IncludedInv
  <2> QED
    BY <1>1, <1>3 DEF IncludedWell
<1>8. OwnInv'
  BY <1>1, <1>3 DEF OwnInv
<1> QED
  BY <1>3, <1>4, <1>6, <1>7, <1>8 DEF Inv

LEMMA SymlinkInv ==
    ASSUME Inv, Symlink
    PROVE  Inv'
<1>1. /\ StateTyped /\ JobsInv /\ phase = "link" /\ phase' = "compile" /\ Linking /\ ~ Linking'
      /\ skel' = [skel EXCEPT ![RootOf(job)] = [kind |-> "link", dir |-> job.dir]]
      /\ job' = NoFile
      /\ UNCHANGED <<tree, header, todo, warned>>
      /\ job \in tree
  BY DEF Inv, Symlink, LinkPath, RootOf, Linking, JobsInv, Out
<1>2. PICK f \in tree : f = job
  BY <1>1
<1> DEFINE x == [kind |-> "link", dir |-> f.dir]
<1>3. /\ FilesInv' /\ NamedSources' = NamedSources
      /\ \A g : NameCount(g)' = NameCount(g) /\ Linkable(g)' = Linkable(g)
      /\ skel'[RootOf(f)] = x /\ skel'[f] = Generated(f)
      /\ \A g \in tree : g # f /\ NameCount(g.name) = 1 /\ Plain(g) \notin todo
             => IncludedWell(g) /\ skel'[Target(RootOf(g))'] = skel[Target(RootOf(g))]
      /\ \A g \in tree : RootOf(g) \notin tree /\ (\A j \in todo : j.file # g)
             => skel'[g] = Generated(g)
  <2>1. /\ job = f /\ skel' = [skel EXCEPT ![RootOf(f)] = x]
        /\ x = [kind |-> "link", dir |-> f.dir]
    BY <1>1, <1>2
  <2> HIDE DEF x
  <2> QED
    BY <1>1, <2>1, LinkStepInv
<1>4. StateTyped'
  BY <1>1 DEF StateTyped
<1>6. JobsInv'
  BY <1>1, <1>3 DEF JobsInv
<1>7. IncludedInv'
  <2> SUFFICES ASSUME NEW g \in tree, NameCount(g.name) = 1, Plain(g) \notin todo
               PROVE  IncludedWell(g)'
    BY <1>1, <1>3 DEF IncludedInv
  <2>1. CASE g # f
    BY <1>1, <1>3, <2>1 DEF IncludedWell
  <2>2. CASE g = f
    <3>1. f \in Files
      BY <1>1 DEF StateTyped
    <3>2. skel'[RootOf(f)] # NoFile /\ skel'[RootOf(f)].kind = "link"
          /\ skel'[RootOf(f)].dir = f.dir
      <4>1. x \in Link
        BY <3>1, FileIs DEF Link
      <4> QED
        BY <1>3, <4>1, KindsDiffer
    <3>3. Target(RootOf(f))' = [RootOf(f) EXCEPT !.dir = f.dir]
      BY <3>2 DEF Target, RootOf
    <3>4. [RootOf(f) EXCEPT !.dir = f.dir] = f
      <4> DEFINE r == RootOf(f)
                 q == [r EXCEPT !.dir = f.dir]
      <4>1. r \in Files /\ r.name = f.name /\ f.dir \in Dirs
        BY <3>1, FileIs
      <4> HIDE DEF r
      <4>2. q \in Files /\ q.dir = f.dir /\ q.name = f.name
        BY <4>1, FileIs
      <4> HIDE DEF q
      <4>3. q = f
        BY ONLY <3>1, <4>2, SameFile
      <4> QED
        BY ONLY <4>3 DEF q, r
    <3> QED
      BY <1>3, <2>2, <3>3, <3>4 DEF IncludedWell
  <2> QED
    BY <2>1, <2>2
<1>8. OwnInv'
  BY <1>1, <1>3 DEF OwnInv
<1> QED
  BY <1>3, <1>4, <1>6, <1>7, <1>8 DEF Inv

LEMMA SymlinkFailsInv ==
    ASSUME Inv, SymlinkFails
    PROVE  Inv'
<1>1. /\ StateTyped /\ FilesInv /\ JobsInv /\ IncludedInv /\ OwnInv
      /\ phase = "link" /\ phase' = "compile" /\ Linking /\ ~ Linking' /\ Building
      /\ warned' = TRUE /\ job' = NoFile
      /\ UNCHANGED <<tree, skel, header, todo>>
  BY DEF Inv, SymlinkFails, Linking, Building
<1>2. PICK f \in tree : f = job /\ skel[RootOf(f)] = NoFile
  BY <1>1 DEF JobsInv
<1>3. NamedSources' = NamedSources /\ \A g : NameCount(g)' = NameCount(g)
  BY <1>1 DEF NamedSources, NameCount
<1>4. StateTyped'
  BY <1>1 DEF StateTyped
<1>5. FilesInv'
  BY <1>1 DEF FilesInv, LinkLeads
<1>6. JobsInv'
  BY <1>1, <1>3 DEF JobsInv
<1>7. IncludedInv'
  <2> SUFFICES ASSUME NEW g \in tree, NameCount(g.name) = 1, Plain(g) \notin todo
               PROVE  IncludedWell(g)'
    BY <1>1, <1>3 DEF IncludedInv
  <2>0. Target(RootOf(g))' = Target(RootOf(g)) /\ skel' = skel
    BY <1>1 DEF Target, RootOf
  <2>1. CASE g # f
    <3>1. IncludedWell(g)
      BY <1>1, <1>2, <2>1 DEF IncludedInv
    <3> QED
      BY <1>1, <2>0, <3>1 DEF IncludedWell
  <2>2. CASE g = f
    <3>1. Target(RootOf(g)) = RootOf(g)
      BY <1>2, <2>2 DEF Target
    <3> QED
      BY <1>1, <1>2, <2>0, <2>2, <3>1 DEF IncludedWell
  <2> QED
    BY <2>1, <2>2
<1>8. OwnInv'
  BY <1>1 DEF OwnInv
<1> QED
  BY <1>4, <1>5, <1>6, <1>7, <1>8 DEF Inv

\* A build dies, perhaps while it writes a skeleton.
LEMMA AbortInv ==
    ASSUME Inv, Abort
    PROVE  Inv'
<1>1. /\ StateTyped /\ FilesInv
      /\ phase' = "idle" /\ todo' = {} /\ job' = NoFile
      /\ UNCHANGED <<tree, header, warned>>
      /\ \/ UNCHANGED skel
         \/ \E j \in todo : skel' = [skel EXCEPT ![Target(j.file)] = [kind |-> "torn"]]
  BY DEF Inv, Abort, Out
<1>2. StateTyped'
  BY <1>1 DEF StateTyped
<1>3. FilesInv'
  <2>1. CASE UNCHANGED skel
    BY <1>1, <2>1 DEF FilesInv, LinkLeads
  <2>2. CASE \E j \in todo : skel' = [skel EXCEPT ![Target(j.file)] = [kind |-> "torn"]]
    <3>1. PICK j \in todo : skel' = [skel EXCEPT ![Target(j.file)] = [kind |-> "torn"]]
      BY <2>2
    <3>2. j.file \in Files
      BY <1>1 DEF StateTyped, Jobs
    <3>3. PICK f \in Files : f = j.file
      BY <3>2
    <3> DEFINE x == [kind |-> "torn"]
    <3>4. x \in Written /\ skel' = [skel EXCEPT ![Target(f)] = x]
      BY <3>1, <3>3, TornIs
    <3> HIDE DEF x
    <3> QED
      BY ONLY <1>1, <3>4, f \in Files, WritingKeepsFiles
  <2> QED
    BY <1>1, <2>1, <2>2
<1> QED
  BY <1>1, <1>2, <1>3 DEF Inv, JobsInv, IncludedInv, OwnInv, Building, Linking

\* Steps that leave the output directory alone.
LEMMA QuietInv ==
    ASSUME Inv,
           \/ \E f \in Files : Add(f)
           \/ Start \/ HeaderExists \/ CreateHeader \/ WriteHeader \/ Finish
           \/ UNCHANGED vars
    PROVE  Inv'
<1>1. /\ StateTyped /\ FilesInv /\ JobsInv /\ IncludedInv /\ OwnInv
      /\ skel' = skel
  BY DEF Inv, Add, Start, HeaderExists, CreateHeader, WriteHeader, Finish, vars
<1>2. FilesInv'
  BY <1>1 DEF FilesInv, LinkLeads
<1>3. NamedSources \subseteq Jobs
  BY <1>1, ExplicitAssumption DEF StateTyped, NamedSources, Jobs
<1>4. StateTyped'
  BY <1>1, <1>3 DEF StateTyped, Add, Start, HeaderExists, CreateHeader, WriteHeader, Finish, vars
<1>5. CASE \E f \in Files : Add(f)
  <2>1. phase' = "idle"
    BY <1>5 DEF Add
  <2> QED
    BY <1>2, <1>4, <2>1 DEF Inv, JobsInv, IncludedInv, OwnInv, Building, Linking
<1>6. ASSUME tree' = tree
      PROVE  NamedSources' = NamedSources
  BY <1>6 DEF NamedSources
<1>7. CASE Start
  <2>1. phase' = "header" /\ todo' = NamedSources /\ tree' = tree
    BY <1>7 DEF Start
  <2> QED
    BY <1>2, <1>4, <1>6, <2>1 DEF Inv, JobsInv, IncludedInv, OwnInv, Building, Linking
<1>8. CASE CreateHeader
  <2>1. phase = "header" /\ phase' = "dump" /\ tree' = tree /\ todo' = todo
    BY <1>8 DEF CreateHeader
  <2> QED
    BY <1>1, <1>2, <1>4, <1>6, <2>1 DEF Inv, JobsInv, IncludedInv, OwnInv, Building, Linking
<1>9. CASE HeaderExists \/ WriteHeader
  <2>1. /\ phase \in {"header", "dump"} /\ phase' = "compile"
        /\ tree' = tree /\ todo' = todo
    BY <1>9 DEF HeaderExists, WriteHeader
  <2>2. todo' = NamedSources /\ JobsInv'
    BY <1>1, <1>6, <2>1 DEF JobsInv, Linking
  <2>3. \A f \in tree' : Plain(f) \in todo' /\ Plain(f).file = f
    BY <2>1, <2>2 DEF NamedSources, Plain
  <2>4. IncludedInv' /\ OwnInv'
    BY <2>3 DEF IncludedInv, OwnInv
  <2> QED
    BY <1>2, <1>4, <2>2, <2>4 DEF Inv
<1>10. CASE Finish
  <2>1. /\ phase = "compile" /\ phase' = "done" /\ todo = {}
        /\ UNCHANGED <<tree, skel, todo, warned>>
    BY <1>10 DEF Finish
  <2>2. ~ Linking /\ ~ Linking' /\ Building
    BY <2>1 DEF Linking, Building
  <2>3. \A f : IncludedWell(f)' = IncludedWell(f) /\ NameCount(f.name)' = NameCount(f.name)
    BY <2>1 DEF IncludedWell, Target, RootOf, NameCount, NamedSources
  <2>4. IncludedInv' /\ OwnInv'
    BY <1>1, <2>1, <2>2, <2>3 DEF IncludedInv, OwnInv
  <2>5. JobsInv'
    BY <1>1, <1>6, <2>1, <2>2 DEF JobsInv
  <2> QED
    BY <1>2, <1>4, <2>4, <2>5 DEF Inv
<1>11. CASE UNCHANGED vars
  <2>1. UNCHANGED <<tree, skel, header, phase, todo, job, warned>>
    BY <1>11 DEF vars
  <2>2. /\ \A f : IncludedWell(f)' = IncludedWell(f) /\ NameCount(f.name)' = NameCount(f.name)
        /\ Linking' = Linking /\ Building' = Building /\ Linkable(job)' = Linkable(job)
    BY <2>1 DEF IncludedWell, Target, RootOf, NameCount, NamedSources, Linking, Building,
                Linkable, Out
  <2>3. IncludedInv' /\ OwnInv'
    BY <1>1, <2>1, <2>2 DEF IncludedInv, OwnInv
  <2>4. JobsInv'
    BY <1>1, <1>6, <2>1, <2>2 DEF JobsInv, RootOf
  <2> QED
    BY <1>2, <1>4, <2>3, <2>4 DEF Inv
<1> QED
  BY <1>5, <1>7, <1>8, <1>9, <1>10, <1>11

-----------------------------------------------------------------------------
(***************************************************************************)
(* The theorems.                                                           *)
(***************************************************************************)

\* What is known of the output directory, of the jobs that are left and of those that
\* are done is kept by every step of a build and by every change between builds.
THEOREM InvCorrect == Spec => []Inv
<1>1. Init => Inv
  BY InitInv
<1>2. Inv /\ [Next]_vars => Inv'
  <2> SUFFICES ASSUME Inv, [Next]_vars
               PROVE  Inv'
    OBVIOUS
  <2>1. CASE \E f \in Files, removed \in BOOLEAN : Change(f, removed)
    BY <2>1, ChangeInv
  <2>2. CASE \E j \in todo : Compile(j)
    BY <2>2, CompileInv
  <2>3. CASE Unlink
    BY <2>3, UnlinkInv
  <2>4. CASE Symlink
    BY <2>4, SymlinkInv
  <2>5. CASE SymlinkFails
    BY <2>5, SymlinkFailsInv
  <2>6. CASE Abort
    BY <2>6, AbortInv
  <2>7. CASE \/ \E f \in Files : Add(f)
            \/ Start \/ HeaderExists \/ CreateHeader \/ WriteHeader \/ Finish
            \/ UNCHANGED vars
    BY <2>7, QuietInv
  <2> QED
    BY <2>1, <2>2, <2>3, <2>4, <2>5, <2>6, <2>7 DEF Next
<1> QED
  BY <1>1, <1>2, PTL DEF Spec

\* However builds were ended and sources moved, a link in the output directory is in its
\* root and leads to a skeleton below it.
THEOREM TypeCorrect == Spec => []TypeOK
<1>1. Inv => TypeOK
  <2> SUFFICES ASSUME Inv
               PROVE  TypeOK
    OBVIOUS
  <2>1. \A p \in Files : skel[p] \in Link => p.dir = Root /\ skel[Target(p)] \in Written
    <3> SUFFICES ASSUME NEW p \in Files, skel[p] \in Link
                 PROVE  p.dir = Root /\ skel[Target(p)] \in Written
      OBVIOUS
    <3>1. LinkLeads(p)
      BY DEF Inv, FilesInv
    <3>2. Target(p) = [p EXCEPT !.dir = skel[p].dir]
      BY TargetIs DEF Inv
    <3> QED
      BY <3>1, <3>2 DEF LinkLeads
  <2> QED
    BY <2>1 DEF Inv, StateTyped, FilesInv, TypeOK, Written
<1> QED
  BY <1>1, InvCorrect, PTL

\* After a build include_bpf finds, for a name that occurs once, the skeleton of its
\* only source or, if a link could not be made, nothing.
THEOREM UnambiguousNameCorrect == Spec => []UnambiguousNameIsIncluded
<1>1. Inv => UnambiguousNameIsIncluded
  <2> SUFFICES ASSUME Inv, phase = "done", NEW f \in tree, NameCount(f.name) = 1
               PROVE  Included(f.name) \in {Generated(f)} \cup IF warned THEN {NoFile} ELSE {}
    BY DEF UnambiguousNameIsIncluded
  <2>1. IncludedWell(f)
    BY DEF Inv, JobsInv, IncludedInv, Building, Linking
  <2>2. [dir |-> Root, name |-> f.name] = RootOf(f)
    BY DEF Inv, StateTyped, Files, RootOf
  <2> QED
    BY <2>1, <2>2 DEF IncludedWell, Included
<1> QED
  BY <1>1, InvCorrect, PTL

\* After a build every source has its own fresh skeleton in its place, unless there is
\* one of its name in the root.
THEOREM OwnSkeletonCorrect == Spec => []OwnSkeletonBelowRoot
<1>1. Inv => OwnSkeletonBelowRoot
  BY DEF Inv, JobsInv, OwnInv, Building, OwnSkeletonBelowRoot, RootOf
<1> QED
  BY <1>1, InvCorrect, PTL

=============================================================================
