---------------------------- MODULE ArtifactProofs ----------------------------
(***************************************************************************)
(* What is proved about the way from a schema to a running kernel, for     *)
(* every set of schemas, entry lists, contracts and configurations and     *)
(* every bound: what a finished build or check says is true, and the       *)
(* checks between Host and Worker let only the kernel run that is meant.   *)
(* Of sorting they use what SortAssumption states, nothing of SortSeq.     *)
(***************************************************************************)
EXTENDS Artifacts, TLAPS

Numbers == INSTANCE PartitionProofs WITH N <- 1

(* A run of a tool that has passed parseBuildConfig.                       *)
ToolRuns == [at : {"none", "read", "check", "write", "fmt", "plan", "build", "copy"},
             config : [schema : BOOLEAN, descriptor : BOOLEAN, artifacts : Seq(Roles)],
             check : BOOLEAN, next : Nat \ {0}, generated : Schemas \cup {Missing}]

ToolTypes ==
    /\ schema \in Schemas /\ entries \in EntryLists
    /\ compiled = [r \in Roles |-> compiled[r]] /\ placed = [r \in Roles |-> placed[r]]
    /\ tool.at # "none" \/ verdict = "built" => tool \in ToolRuns
    /\ tool.at # "none" => verdict = "none"
    /\ tool.at \in {"read", "check", "write", "fmt"} => tool.next = 1
    /\ tool.at \in {"build", "copy"} => tool.next <= Len(tool.config.artifacts)

(* What the sources as they are compile to.                                *)
Fresh == [r \in Roles |-> Artifact(r)]

(* The artifacts before the one the run is at are in place.                *)
PlacedBefore == \A i \in 1 .. tool.next - 1 :
                   i <= Len(tool.config.artifacts) =>
                      placed[tool.config.artifacts[i]] = Fresh[tool.config.artifacts[i]]

(* What a run has done so far agrees with the sources, if nobody touched   *)
(* them since it began.                                                    *)
Progress ==
    ~ edited =>
       /\ tool.at \in {"check", "write"} => tool.generated = schema
       /\ tool.at \in {"fmt", "plan", "build", "copy"} /\ tool.config.schema => descriptor = schema
       /\ tool.at \in {"plan", "build", "copy"} => PlacedBefore
       /\ tool.at = "copy" => compiled[Role] = Fresh[Role]

ToolInv == ToolTypes /\ Progress /\ BuildCoherent /\ CheckTrue

-----------------------------------------------------------------------------
LEMMA ToolStarts == ASSUME Init PROVE ToolInv
  BY DEF Init, ToolInv, ToolTypes, Progress, BuildCoherent, CheckTrue

LEMMA EditKeeps == ASSUME ToolInv, Edit PROVE ToolInv'
  BY DEF Edit, ToolInv, ToolTypes, Progress, BuildCoherent, CheckTrue

LEMMA FreshStays ==
    ASSUME UNCHANGED <<descriptor, sources>>
    PROVE  /\ Fresh' = Fresh
           /\ \A r \in Roles : Artifact(r)' = Fresh[r] /\ Artifact(r) = Fresh[r]
<1>1. \A r \in Roles : Artifact(r)' = Artifact(r)
  BY DEF Artifact, sources
<1>2. Fresh' = [r \in Roles |-> Artifact(r)']
  BY DEF Fresh
<1>3. \A r \in Roles : Artifact(r) = Fresh[r]
  BY DEF Fresh
<1>4. Fresh' = Fresh
  BY <1>1, <1>2 DEF Fresh
<1> QED
  BY <1>1, <1>3, <1>4

LEMMA PoolKeeps == ASSUME ToolInv, UNCHANGED <<sources, files, toolVars>> PROVE ToolInv'
<1>1. UNCHANGED <<schema, entries, descriptor, compiled, placed, tool, verdict, edited>>
  BY DEF sources, files, toolVars
<1>2. Fresh' = Fresh /\ \A r \in Roles : Artifact(r)' = Artifact(r)
  BY <1>1, FreshStays DEF files
<1>3. ToolTypes' /\ Progress' /\ CheckTrue'
  BY <1>1, <1>2 DEF ToolInv, ToolTypes, Progress, PlacedBefore, CheckTrue, Role
<1>4. BuildCoherent'
  BY <1>1 DEF ToolInv, BuildCoherent, Artifact, sources
<1> QED
  BY <1>3, <1>4 DEF ToolInv

(* parseBuildConfig knows three kinds of targets. *)
LEMMA ConfigTypes ==
    Configs \cup {GenOnly} \subseteq [schema : BOOLEAN, descriptor : BOOLEAN, artifacts : Seq(Roles)]
<1>1. Configs \subseteq [schema : BOOLEAN, descriptor : BOOLEAN, artifacts : Seq(Roles)]
  BY ArtifactAssumption
<1>2. ASSUME NEW list \in Seq(Roles)
      PROVE  [schema |-> TRUE, descriptor |-> TRUE, artifacts |-> list] \in
                [schema : BOOLEAN, descriptor : BOOLEAN, artifacts : Seq(Roles)]
  OBVIOUS
<1>3. <<>> \in Seq(Roles)
  OBVIOUS
<1> QED
  BY <1>1, <1>2, <1>3 DEF GenOnly

LEMMA StartKeeps ==
    ASSUME ToolInv, NEW config \in Configs \cup {GenOnly}, NEW check \in BOOLEAN,
           StartTool(config, check)
    PROVE  ToolInv'
<1>1. config \in [schema : BOOLEAN, descriptor : BOOLEAN, artifacts : Seq(Roles)]
  BY ConfigTypes
<1>2. ToolTypes'
  BY <1>1 DEF StartTool, ToolInv, ToolTypes, ToolRuns, files, Rest, sources
<1>3. Progress'
  BY <1>1 DEF StartTool, ToolInv, ToolTypes, Progress, PlacedBefore, files, Rest, sources
<1> QED
  BY <1>2, <1>3 DEF StartTool, ToolInv, BuildCoherent, CheckTrue

(* The kinds of artifacts a run has before it. *)
LEMMA RoleKinds ==
    ASSUME NEW config \in [schema : BOOLEAN, descriptor : BOOLEAN, artifacts : Seq(Roles)],
           NEW i \in Nat \ {0}, i <= Len(config.artifacts)
    PROVE  config.artifacts[i] \in Roles
  OBVIOUS

LEMMA ToolKeeps == ASSUME ToolInv, ToolStep PROVE ToolInv'
<1> USE DEF ToolInv, ToolTypes, Progress, BuildCoherent, CheckTrue, files, sources, Rest
<1>0. tool.at # "none" /\ tool \in ToolRuns /\ verdict = "none"
  BY DEF ToolStep, ReadSchema, CheckDescriptor, WriteDescriptor, Format, NextArtifact, Build, Copy,
         ToolFails
<1>1. CASE ReadSchema
  <2>1. CASE ValidSchema(schema)
    <3>1. PICK next \in {"check", "write"} :
             tool' = [tool EXCEPT !.at = next, !.generated = schema]
      BY <1>1, <2>1 DEF ReadSchema
    <3>2. tool' \in ToolRuns /\ tool'.at = next /\ tool'.generated = schema
          /\ tool'.next = tool.next
      BY <1>0, <3>1 DEF ToolRuns
    <3>3. tool.at = "read" /\ UNCHANGED <<verdict, files, edited, sources>>
      BY <1>1, <2>1 DEF ReadSchema
    <3> QED
      BY <1>0, <3>2, <3>3
  <2>2. CASE ~ ValidSchema(schema)
    BY <1>0, <1>1, <2>2 DEF ReadSchema, End, ToolRuns
  <2> QED
    BY <2>1, <2>2
<1>2. CASE CheckDescriptor
  BY <1>0, <1>2 DEF CheckDescriptor, Normalized, End, ToolRuns
<1>3. CASE WriteDescriptor
  BY <1>0, <1>3 DEF WriteDescriptor, End, ToolRuns
<1>4. CASE Format
  <2>1. tool' = [tool EXCEPT !.at = "plan"] /\ tool.at = "fmt"
    BY <1>4 DEF Format
  <2>2. tool' \in ToolRuns /\ tool'.at = "plan" /\ tool'.next = tool.next /\ tool'.config = tool.config
    BY <1>0, <2>1 DEF ToolRuns
  <2> QED
    BY <1>0, <1>4, <2>2 DEF Format, PlacedBefore
<1>5. CASE NextArtifact
  <2>1. tool.at = "plan" /\ UNCHANGED <<files, edited, sources>>
    BY <1>5 DEF NextArtifact
  <2>2. CASE tool' = [tool EXCEPT !.at = "build"] /\ UNCHANGED verdict
             /\ ~ tool.next > Len(tool.config.artifacts)
    <3>1. tool' \in ToolRuns /\ tool'.at = "build" /\ tool'.next = tool.next
          /\ tool'.config = tool.config
      BY <1>0, <2>2 DEF ToolRuns
    <3>2. tool.next \in Nat /\ Len(tool.config.artifacts) \in Nat
      BY <1>0 DEF ToolRuns
    <3>3. Fresh' = Fresh
      BY <2>1, FreshStays
    <3> QED
      BY <1>0, <2>1, <2>2, <3>1, <3>2, <3>3 DEF PlacedBefore
  <2>3. CASE End("nothing to check")
    BY <1>0, <2>1, <2>3 DEF End, ToolRuns
  <2>4. CASE End("built") /\ tool.next > Len(tool.config.artifacts)
    <3>1. tool' \in ToolRuns /\ tool'.at = "none" /\ tool'.next = tool.next
          /\ tool'.config = tool.config /\ verdict' = "built"
      BY <1>0, <2>4 DEF End, ToolRuns
    <3>2. ASSUME ~ edited, NEW i \in DOMAIN tool.config.artifacts
          PROVE  placed[tool.config.artifacts[i]] = Artifact(tool.config.artifacts[i])'
      <4>1. i \in 1 .. tool.next - 1 /\ i <= Len(tool.config.artifacts)
        BY <1>0, <2>4 DEF ToolRuns
      <4>2. tool.config.artifacts[i] \in Roles
        BY <1>0, <4>1, RoleKinds DEF ToolRuns
      <4> QED
        BY <2>1, <3>1, <3>2, <4>1, <4>2, FreshStays DEF PlacedBefore
    <3>3. BuildCoherent'
      <4> SUFFICES ASSUME ~ edited, NEW i \in DOMAIN tool.config.artifacts
                   PROVE  placed[tool.config.artifacts[i]] = Artifact(tool.config.artifacts[i])'
        BY <2>1, <3>1 DEF ToSet
      <4> QED
        BY <3>2
    <3> QED
      BY <2>1, <3>1, <3>3
  <2> QED
    BY <1>5, <2>2, <2>3, <2>4 DEF NextArtifact
<1>6. CASE Build
  <2>1. /\ tool.at = "build"
        /\ UNCHANGED <<descriptor, placed, edited, sources>>
    BY <1>6 DEF Build
  <2>2. CASE End("failed") /\ UNCHANGED compiled
    BY <1>0, <2>1, <2>2 DEF End, ToolRuns
  <2>3. CASE /\ compiled' = [compiled EXCEPT ![Role] = Artifact(Role)]
             /\ tool' = [tool EXCEPT !.at = "copy"]
             /\ UNCHANGED verdict
    <3>1. tool' \in ToolRuns /\ tool'.at = "copy" /\ tool'.next = tool.next
          /\ tool'.config = tool.config
      BY <1>0, <2>3 DEF ToolRuns
    <3>2. Role \in Roles
      BY <1>0, <2>1, RoleKinds DEF Role, ToolRuns
    <3>3. compiled'[Role] = Artifact(Role) /\ compiled' = [r \in Roles |-> compiled'[r]]
      BY <2>3, <3>2
    <3>4. Role' = Role /\ (PlacedBefore => PlacedBefore')
      BY <2>1, <3>1, FreshStays DEF PlacedBefore, Role
    <3>5. compiled'[Role'] = Fresh'[Role']
      BY <2>1, <3>2, <3>3, <3>4, FreshStays
    <3>6. ToolTypes'
      BY <2>1, <2>3, <3>1, <3>3
    <3>7. Progress'
      BY <2>1, <3>1, <3>4, <3>5
    <3>8. verdict' = "none"
      BY <1>0, <2>3
    <3> QED
      BY <3>6, <3>7, <3>8
  <2> QED
    BY <1>6, <2>2, <2>3 DEF Build
<1>7. CASE Copy
  <2>1. /\ tool.at = "copy"
        /\ UNCHANGED <<verdict, descriptor, compiled, edited, sources>>
        /\ placed' = [placed EXCEPT ![Role] = compiled[Role]]
        /\ tool' = [tool EXCEPT !.at = "plan", !.next = @ + 1]
    BY <1>7 DEF Copy
  <2>2. tool' \in ToolRuns /\ tool'.at = "plan" /\ tool'.next = tool.next + 1
        /\ tool'.config = tool.config /\ tool.next \in Nat \ {0}
    <3>1. tool.next \in Nat \ {0} /\ tool.next + 1 \in Nat \ {0}
      BY <1>0 DEF ToolRuns
    <3>2. PICK next \in Nat \ {0} : next = tool.next + 1
      BY <3>1
    <3>3. tool' = [tool EXCEPT !.at = "plan", !.next = next]
      BY <2>1, <3>2
    <3> QED
      BY <1>0, <3>1, <3>2, <3>3 DEF ToolRuns
  <2>3. Role \in Roles
    BY <1>0, <2>1, RoleKinds DEF Role, ToolRuns
  <2>4. \A r \in Roles : placed'[r] = IF r = Role THEN compiled[Role] ELSE placed[r]
    BY <2>1
  <2>5. ~ edited => PlacedBefore'
    <3>0. Fresh' = Fresh
      BY <2>1, FreshStays
    <3> SUFFICES ASSUME ~ edited, NEW i \in 1 .. tool.next, i <= Len(tool.config.artifacts)
                 PROVE  placed'[tool.config.artifacts[i]] = Fresh[tool.config.artifacts[i]]
      BY <2>1, <2>2, <3>0 DEF PlacedBefore
    <3>1. tool.config.artifacts[i] \in Roles
      BY <1>0, <2>2, RoleKinds DEF ToolRuns
    <3>2. CASE i = tool.next
      BY <2>1, <2>4, <3>1, <3>2 DEF Role
    <3>3. CASE i # tool.next
      <4>1. i \in 1 .. tool.next - 1
        BY <2>2, <3>3
      <4> QED
        BY <2>1, <2>4, <3>1, <4>1 DEF PlacedBefore
    <3> QED
      BY <3>2, <3>3
  <2>6. placed' = [r \in Roles |-> placed'[r]]
    BY <2>1
  <2> QED
    BY <1>0, <2>1, <2>2, <2>5, <2>6
<1>8. CASE ToolFails
  BY <1>0, <1>8 DEF ToolFails, Role, End, ToolRuns
<1> QED
  BY <1>1, <1>2, <1>3, <1>4, <1>5, <1>6, <1>7, <1>8 DEF ToolStep
LEMMA ToolInvHolds == Spec => []ToolInv
<1>1. ToolInv /\ [Next]_vars => ToolInv'
  <2>1. CASE PoolStep \/ UNCHANGED vars
    <3>1. UNCHANGED <<sources, files, toolVars>>
      BY <2>1
      DEF PoolStep, OpenPool, LoadGuest, OnOnline, GlueOnline, InitializeKernel, LoadFails, Restart,
          Dispatch, vars
    <3> QED
      BY <3>1, PoolKeeps
  <2> QED
    BY <2>1, EditKeeps, StartKeeps, ToolKeeps DEF Next
<1> QED
  BY <1>1, ToolStarts, PTL DEF Spec

(* What a build has said it built is what the sources compile to, all of   *)
(* it: the descriptor, and each artifact of the configuration.             *)
THEOREM BuildCoherentHolds == Spec => []BuildCoherent
<1>1. ToolInv => BuildCoherent
  BY DEF ToolInv
<1> QED
  BY <1>1, ToolInvHolds, PTL

(* --check says "fresh" of a generated file that is, and "stale" of one    *)
(* that is not.                                                            *)
THEOREM CheckTrueHolds == Spec => []CheckTrue
<1>1. ToolInv => CheckTrue
  BY DEF ToolInv
<1> QED
  BY <1>1, ToolInvHolds, PTL

-----------------------------------------------------------------------------
(* A descriptor that compiles; a Host artifact; a Guest artifact, with     *)
(* entries of kernels it has.                                              *)
GoodCode(code) == code \in Schemas /\ Distinct(NamesOf(code.kernels))
GoodHost(artifact) == GoodCode(artifact.code)
GoodGuest(artifact) == /\ GoodCode(artifact.code)
                       /\ artifact.entries \in EntryLists
                       /\ ToSet(artifact.entries) \subseteq ToSet(NamesOf(artifact.code.kernels))

GoodFile(role, file) == \/ file \in {Missing, Torn}
                        \/ role = "host" /\ GoodHost(file)
                        \/ role = "guest" /\ GoodGuest(file)
                        \/ role = "wasm"

(* Only code that compiled runs, and in it every kernel has its name.      *)
KernelInv ==
    /\ \A role \in Roles : GoodFile(role, compiled[role]) /\ GoodFile(role, placed[role])
    /\ phase # "none" => GoodHost(host)
    /\ phase \in {"online", "ready"} => GoodGuest(worker)
    /\ SameKernel

LEMMA NameFound ==
    ASSUME NEW code, GoodCode(code), NEW kernel \in ToSet(code.kernels)
    PROVE  KernelNamed(code, kernel.name) = kernel
<1>1. PICK i \in DOMAIN code.kernels : kernel = code.kernels[i]
  BY DEF ToSet
<1>2. \A other \in ToSet(code.kernels) : other.name = kernel.name => other = kernel
  BY <1>1 DEF GoodCode, Distinct, IsInjective, NamesOf, ToSet
<1> QED
  BY <1>2 DEF KernelNamed

LEMMA EntryFound ==
    ASSUME NEW code, NEW name \in ToSet(NamesOf(code.kernels))
    PROVE  KernelNamed(code, name) \in ToSet(code.kernels) /\ KernelNamed(code, name).name = name
  BY DEF KernelNamed, NamesOf, ToSet

(* Kernels whose contracts have one hash mean the same. *)
LEMMA SameText ==
    ASSUME NEW code1, NEW code2, NEW kernel1, NEW kernel2,
           Hash(Canonical(code1, kernel1)) = Hash(Canonical(code2, kernel2))
    PROVE  /\ code1.manifest = code2.manifest /\ kernel1.name = kernel2.name
           /\ kernel1.kind = kernel2.kind /\ kernel1.argument = kernel2.argument
           /\ LayoutOf(code1, kernel1) = LayoutOf(code2, kernel2)
  BY DEF Hash, Canonical

(* The first of some entries is one of them. *)
LEMMA FirstOf ==
    ASSUME NEW names \in EntryLists, NEW at \in SUBSET DOMAIN names, at # {}
    PROVE  (CHOOSE j \in at : \A k \in at : j <= k) \in at
<1>1. names \in Seq(ToSet(names))
  BY ArtifactAssumption
<1>2. at \in SUBSET Nat
  BY <1>1
<1>3. \E j \in at : \A k \in at : j <= k
  BY <1>2, Numbers!LeastNumber
<1> QED
  BY <1>3

(* What a dispatch runs is what it means: the hash of the entry that is    *)
(* served is that of the call.                                             *)
LEMMA DispatchMeans ==
    ASSUME GoodHost(host), GoodGuest(worker), NEW kernel \in ToSet(host.code.kernels),
           Dispatch(kernel)
    PROVE  ran'[2].status = "ok" => ran'[2].meaning = ran'[1]
<1> DEFINE spec  == SpecOf(host.code, kernel)
           specs == Entries(worker.code, worker.entries)
           at    == {i \in DOMAIN specs : specs[i].id = spec.id}
           i     == CHOOSE j \in at : \A k \in at : j <= k
           name  == worker.entries[i]
<1>1. ran' = <<Meaning(host.code, kernel.name), Served(spec)>>
  BY DEF Dispatch
<1> SUFFICES ASSUME Served(spec).status = "ok"
             PROVE  Served(spec).meaning = Meaning(host.code, kernel.name)
  BY <1>1
<1>2. /\ at # {} /\ specs[i].hash = spec.hash
      /\ Served(spec).meaning = Meaning(worker.code, name)
  BY DEF Served
<1>3. i \in DOMAIN worker.entries /\ specs[i] = SpecOf(worker.code, KernelNamed(worker.code, name))
  <2>1. at \in SUBSET DOMAIN worker.entries
    BY DEF Entries
  <2>2. i \in at
    <3> HIDE DEF at
    <3> QED
      BY <1>2, <2>1, FirstOf DEF GoodGuest
  <2> QED
    BY <2>1, <2>2 DEF Entries
<1> HIDE DEF i
<1>4. KernelNamed(worker.code, name).name = name
  BY <1>3, EntryFound DEF GoodGuest, ToSet
<1>5. KernelNamed(host.code, kernel.name) = kernel
  BY NameFound DEF GoodHost
<1>6. Hash(Canonical(worker.code, KernelNamed(worker.code, name))) =
      Hash(Canonical(host.code, kernel))
  BY <1>2, <1>3 DEF SpecOf
<1> QED
  BY <1>2, <1>4, <1>5, <1>6, SameText DEF Meaning

LEMMA KernelStarts == ASSUME Init PROVE KernelInv
  BY DEF Init, KernelInv, GoodFile, SameKernel

LEMMA FilesKeep ==
    ASSUME ToolInv, KernelInv, Edit \/ ToolStep
           \/ \E config \in Configs \cup {GenOnly}, check \in BOOLEAN : StartTool(config, check)
    PROVE  KernelInv'
<1> USE DEF ToolInv, ToolTypes
<1>1. UNCHANGED poolVars
  BY DEF Edit, ToolStep, ReadSchema, CheckDescriptor, WriteDescriptor, Format, NextArtifact, Build,
         Copy, ToolFails, StartTool, Rest
<1>2. \A r \in Roles : GoodFile(r, compiled[r]) /\ GoodFile(r, placed[r])
  BY DEF KernelInv
<1>3. \A r \in Roles : GoodFile(r, compiled'[r]) /\ GoodFile(r, placed'[r])
  <2>1. CASE Build
    <3>1. Role \in Roles
      BY <2>1, RoleKinds DEF Build, Role, ToolRuns
    <3>2. Compiles(Role) => GoodFile(Role, Artifact(Role))
      BY <3>1 DEF Compiles, Artifact, GoodFile, GoodHost, GoodGuest, GoodCode, Roles
    <3> QED
      BY <1>2, <2>1, <3>1, <3>2 DEF Build
  <2>2. CASE Copy
    <3>1. Role \in Roles
      BY <2>2, RoleKinds DEF Copy, Role, ToolRuns
    <3> QED
      BY <1>2, <2>2, <3>1 DEF Copy
  <2>3. CASE ToolFails
    <3>1. compiled' = compiled
      BY <2>3 DEF ToolFails
    <3>2. \A r \in Roles : placed'[r] \in {placed[r], Torn}
      BY <2>3 DEF ToolFails
    <3> QED
      BY <1>2, <3>1, <3>2 DEF GoodFile
  <2>4. CASE UNCHANGED <<compiled, placed>>
    BY <1>2, <2>4
  <2> QED
    BY <2>1, <2>2, <2>3, <2>4
    DEF Edit, ToolStep, ReadSchema, CheckDescriptor, WriteDescriptor, Format, NextArtifact,
        StartTool, files
<1> QED
  BY <1>1, <1>3 DEF KernelInv, GoodFile, SameKernel, poolVars

LEMMA PoolRight == ASSUME KernelInv, PoolStep PROVE KernelInv'
<1> USE DEF KernelInv, GoodFile, SameKernel, sources, files, toolVars
<1>1. CASE OpenPool
  BY <1>1 DEF OpenPool, Roles
<1>2. CASE LoadGuest
  BY <1>2 DEF LoadGuest, Roles
<1>3. CASE OnOnline
  BY <1>3 DEF OnOnline
<1>4. CASE GlueOnline \/ LoadFails \/ InitializeKernel
  BY <1>4 DEF GlueOnline, LoadFails, InitializeKernel
<1>5. CASE Restart
  BY <1>5 DEF Restart
<1>6. ASSUME phase = "ready", NEW kernel \in ToSet(host.code.kernels), Dispatch(kernel)
      PROVE  KernelInv'
  BY <1>6, DispatchMeans DEF Dispatch
<1> QED
  BY <1>1, <1>2, <1>3, <1>4, <1>5, <1>6 DEF PoolStep

LEMMA KernelInvHolds == Spec => [](ToolInv /\ KernelInv)
<1>1. ToolInv /\ KernelInv /\ [Next]_vars => KernelInv'
  <2>1. CASE UNCHANGED vars
    BY <2>1 DEF KernelInv, GoodFile, SameKernel, vars, files, poolVars
  <2> QED
    BY <2>1, FilesKeep, PoolRight DEF Next
<1> QED
  BY <1>1, KernelStarts, ToolInvHolds, PTL DEF Spec

(* A kernel that runs is the one that is meant, whatever mixture of old    *)
(* and new artifacts Host and Worker were loaded from.                     *)
THEOREM SameKernelHolds == Spec => []SameKernel
<1>1. KernelInv => SameKernel
  BY DEF KernelInv
<1> QED
  BY <1>1, KernelInvHolds, PTL

-----------------------------------------------------------------------------
(* What the Host and serve_kernels have checked of who got that far.       *)
CheckInv ==
    /\ phase \notin {"none", "refused"} => ~ ManifestAborts(Manifest(host.code))
    /\ phase \in {"online", "ready"} => /\ worker # Missing
                                        /\ ~ EntriesAbort(worker.code, worker.entries)
    /\ phase = "ready" => ProtocolId(Manifest(worker.code)) = ProtocolId(Manifest(host.code))
    /\ AgreedRuns

LEMMA Sorted ==
    ASSUME NEW code \in Schemas
    PROVE  /\ DOMAIN Kernels(code) = DOMAIN code.kernels
           /\ ToSet(Kernels(code)) = ToSet(code.kernels)
           /\ Distinct([i \in DOMAIN code.kernels |-> code.kernels[i].id]) =>
                 \A i, j \in DOMAIN code.kernels :
                    i # j => Kernels(code)[i].id # Kernels(code)[j].id
<1>1. PICK p \in Bijection(DOMAIN code.kernels, DOMAIN code.kernels) :
         Kernels(code) = [i \in DOMAIN code.kernels |-> code.kernels[p[i]]]
  BY SortAssumption DEF Kernels
<1>2. /\ p \in [DOMAIN code.kernels -> DOMAIN code.kernels] /\ IsInjective(p)
      /\ \A j \in DOMAIN code.kernels : \E i \in DOMAIN code.kernels : p[i] = j
  BY DEF Bijection, Injection, Surjection
<1>3. \A i, j \in DOMAIN code.kernels : i # j => p[i] # p[j]
  BY <1>2 DEF IsInjective
<1>4. ToSet(Kernels(code)) = ToSet(code.kernels)
  BY <1>1, <1>2 DEF ToSet
<1>5. ASSUME Distinct([i \in DOMAIN code.kernels |-> code.kernels[i].id]),
             NEW i \in DOMAIN code.kernels, NEW j \in DOMAIN code.kernels, i # j
      PROVE  Kernels(code)[i].id # Kernels(code)[j].id
  <2>1. p[i] \in DOMAIN code.kernels /\ p[j] \in DOMAIN code.kernels /\ p[i] # p[j]
    BY <1>2, <1>3, <1>5
  <2>2. code.kernels[p[i]].id # code.kernels[p[j]].id
    BY <1>5, <2>1 DEF Distinct, IsInjective
  <2> QED
    BY <1>1, <2>2
<1> QED
  BY <1>1, <1>4, <1>5

(* The manifest of a descriptor has a spec of each of its kernels ... *)
LEMMA SpecsOf ==
    ASSUME NEW code \in Schemas
    PROVE  /\ DOMAIN Manifest(code).specs = DOMAIN code.kernels
           /\ \A i \in DOMAIN code.kernels :
                 /\ Kernels(code)[i] \in ToSet(code.kernels)
                 /\ Manifest(code).specs[i] = SpecOf(code, Kernels(code)[i])
                 /\ Manifest(code).specs[i].id = Kernels(code)[i].id
           /\ \A kernel \in ToSet(code.kernels) :
                 \E i \in DOMAIN code.kernels : Kernels(code)[i] = kernel
<1>1. /\ DOMAIN Kernels(code) = DOMAIN code.kernels
      /\ ToSet(Kernels(code)) = ToSet(code.kernels)
  BY Sorted
<1>2. \A i \in DOMAIN code.kernels : Manifest(code).specs[i] = SpecOf(code, Kernels(code)[i])
  BY DEF Manifest
<1> QED
  BY <1>1, <1>2 DEF Manifest, ToSet, SpecOf

LEMMA IdsAreNumbers ==
    ASSUME NEW code \in Schemas
    PROVE  /\ \A i \in DOMAIN code.kernels : Kernels(code)[i].id \in Int
           /\ \A i, j \in DOMAIN code.kernels : i < j => Kernels(code)[i].id <= Kernels(code)[j].id
           /\ code.kernels \in Seq(ToSet(code.kernels))
  BY ArtifactAssumption, SortAssumption, SpecsOf DEF Kernels

(* ... and if it was accepted, no two have one id. *)
LEMMA IdsIncrease ==
    ASSUME NEW code \in Schemas, ~ ManifestAborts(Manifest(code)),
           NEW i \in DOMAIN code.kernels, NEW j \in DOMAIN code.kernels, i < j
    PROVE  Kernels(code)[i].id < Kernels(code)[j].id
<1>1. i \in Nat /\ j \in Nat /\ i + 1 \in DOMAIN code.kernels /\ i + 1 # 1 /\ (i + 1) - 1 = i
  BY IdsAreNumbers
<1>2. ~ Kernels(code)[i + 1].id <= Kernels(code)[i].id
  <2>1. ~ Manifest(code).specs[i + 1].id <= Manifest(code).specs[(i + 1) - 1].id
    BY <1>1, SpecsOf DEF ManifestAborts
  <2> QED
    BY <1>1, <2>1, SpecsOf
<1>3. Kernels(code)[i + 1].id <= Kernels(code)[j].id
  BY <1>1, IdsAreNumbers
<1> QED
  BY <1>1, <1>2, <1>3, IdsAreNumbers

(* A descriptor that mayo_gen accepts has a manifest the library accepts.  *)
LEMMA ValidManifest ==
    ASSUME NEW code \in Schemas, ValidSchema(code) PROVE ~ ManifestAborts(Manifest(code))
<1>1. code.kernels # <<>> /\ code.kernels \in Seq(ToSet(code.kernels))
  BY IdsAreNumbers DEF ValidSchema, ValidKernels
<1>2. 1 \in DOMAIN code.kernels
  BY <1>1
<1>3. Manifest(code).specs # <<>>
  BY <1>2, SpecsOf
<1>4. \A kernel \in ToSet(code.kernels) : 0 < kernel.id
  BY DEF ValidSchema, ValidKernels
<1>5. ASSUME NEW i \in DOMAIN code.kernels, i # 1
      PROVE  ~ Kernels(code)[i].id <= Kernels(code)[i - 1].id
  <2>1. i - 1 \in DOMAIN code.kernels /\ i - 1 # i /\ i - 1 < i
    BY <1>1, <1>5
  <2>2. Kernels(code)[i - 1].id # Kernels(code)[i].id
    BY <2>1, Sorted DEF ValidSchema, ValidKernels
  <2> QED
    BY <2>1, <2>2, IdsAreNumbers
<1> QED
  BY <1>3, <1>4, <1>5, SpecsOf, IdsAreNumbers DEF ManifestAborts

(* Guests with the descriptor of the Host, which bind its kernels by       *)
(* ascending id, have the entries serve_kernels wants.                     *)
LEMMA SortedEntries ==
    ASSUME NEW code, GoodCode(code)
    PROVE  ~ EntriesAbort(code, NamesOf(ById(code.kernels)))
<1>1. code \in Schemas /\ ById(code.kernels) = Kernels(code)
  BY DEF GoodCode, Kernels
<1>2. \A i \in DOMAIN code.kernels : KernelNamed(code, Kernels(code)[i].name) = Kernels(code)[i]
  BY <1>1, NameFound, SpecsOf
<1>3. DOMAIN Kernels(code) = DOMAIN code.kernels
  BY <1>1, Sorted
<1>4. Entries(code, NamesOf(Kernels(code))) =
      [i \in DOMAIN code.kernels |-> SpecOf(code, Kernels(code)[i])]
  BY <1>2, <1>3 DEF Entries, NamesOf
<1> QED
  BY <1>1, <1>4 DEF EntriesAbort, Manifest

(* After the checks every call finds its kernel at the Worker.             *)
LEMMA DispatchFinds ==
    ASSUME GoodHost(host), GoodGuest(worker), CheckInv, phase = "ready",
           NEW kernel \in ToSet(host.code.kernels), Dispatch(kernel)
    PROVE  ran'[2].status = "ok"
<1> DEFINE spec  == SpecOf(host.code, kernel)
           specs == Entries(worker.code, worker.entries)
           at    == {i \in DOMAIN specs : specs[i].id = spec.id}
           i     == CHOOSE j \in at : \A k \in at : j <= k
<1>1. specs = Manifest(host.code).specs
  BY DEF CheckInv, EntriesAbort, ProtocolId
<1>2. host.code \in Schemas /\ ~ ManifestAborts(Manifest(host.code))
  BY DEF CheckInv, GoodHost, GoodCode
<1>3. PICK j \in DOMAIN host.code.kernels : Kernels(host.code)[j] = kernel
  BY <1>2, SpecsOf
<1>4. j \in at /\ specs[j] = spec
  BY <1>1, <1>2, <1>3, SpecsOf DEF SpecOf
<1>5. ASSUME NEW k \in at PROVE k = j
  <2>1. k \in DOMAIN host.code.kernels /\ Kernels(host.code)[k].id = Kernels(host.code)[j].id
    <3>1. DOMAIN specs = DOMAIN host.code.kernels
      BY <1>1, <1>2, SpecsOf
    <3>2. k \in DOMAIN host.code.kernels /\ specs[k].id = spec.id
      BY <3>1
    <3>3. specs[k].id = Kernels(host.code)[k].id
      <4> HIDE DEF specs
      <4> QED
        BY <1>1, <1>2, <3>2, SpecsOf
    <3>4. spec.id = kernel.id
      BY DEF SpecOf
    <3> QED
      BY <1>3, <3>2, <3>3, <3>4
  <2>2. k \in Nat /\ j \in Nat /\ Kernels(host.code)[j].id \in Int
    BY <1>2, <2>1, IdsAreNumbers
  <2>3. ~ k < j /\ ~ j < k
    BY <1>2, <2>1, <2>2, IdsIncrease
  <2> QED
    BY <2>2, <2>3
<1>6. at = {j} /\ j \in Nat
  BY <1>2, <1>4, <1>5, IdsAreNumbers
<1>7. i = j
  <2> HIDE DEF at
  <2> QED
    BY <1>6
<1>8. Served(spec).status = "ok"
  BY <1>4, <1>7 DEF Served
<1> QED
  BY <1>8 DEF Dispatch

LEMMA ChecksKeep == ASSUME KernelInv, CheckInv, PoolStep PROVE CheckInv'
<1> USE DEF CheckInv, AgreedRuns, sources, files, toolVars
<1>1. CASE OpenPool
  <2>1. GoodHost(host')
    BY <1>1 DEF OpenPool, KernelInv, GoodFile, Roles
  <2> QED
    BY <1>1, <2>1, ValidManifest DEF OpenPool, GoodHost, GoodCode
<1>2. CASE LoadGuest
  <2>1. GoodHost(host) /\ GoodGuest(worker') /\ worker' # Missing
        /\ ~ ManifestAborts(Manifest(host.code))
    BY <1>2 DEF LoadGuest, KernelInv, GoodFile, Roles
  <2>2. worker'.code = host.code /\ worker'.entries = NamesOf(ById(host.code.kernels))
        => phase' = "online"
    BY <1>2, <2>1, SortedEntries DEF LoadGuest, GoodHost
  <2> QED
    BY <1>2, <2>1, <2>2 DEF LoadGuest
<1>3. CASE OnOnline
  BY <1>3 DEF OnOnline
<1>4. CASE GlueOnline \/ LoadFails \/ InitializeKernel
  BY <1>4 DEF GlueOnline, LoadFails, InitializeKernel
<1>5. CASE Restart
  BY <1>5 DEF Restart
<1>6. ASSUME phase = "ready", NEW kernel \in ToSet(host.code.kernels), Dispatch(kernel)
      PROVE  CheckInv'
  <2>1. ran'[2].status = "ok"
    BY <1>6, DispatchFinds DEF KernelInv
  <2> QED
    BY <1>6, <2>1 DEF Dispatch
<1> QED
  BY <1>1, <1>2, <1>3, <1>4, <1>5, <1>6 DEF PoolStep

LEMMA CheckInvHolds == Spec => []CheckInv
<1>1. Init => CheckInv
  BY DEF Init, CheckInv, AgreedRuns
<1>2. KernelInv /\ CheckInv /\ [Next]_vars => CheckInv'
  <2>1. CASE UNCHANGED poolVars
    BY <2>1 DEF CheckInv, AgreedRuns, poolVars
  <2>2. CASE ~ PoolStep
    BY <2>1, <2>2
    DEF Next, Edit, ToolStep, ReadSchema, CheckDescriptor, WriteDescriptor, Format, NextArtifact,
        Build, Copy, ToolFails, StartTool, Rest, vars
  <2> QED
    BY <2>2, ChecksKeep
<1> QED
  BY <1>1, <1>2, KernelInvHolds, PTL DEF Spec

(* No pair of artifacts that fit is refused, and after the checks no call  *)
(* fails over the contract.                                                *)
THEOREM AgreedRunsHolds == Spec => []AgreedRuns
<1>1. CheckInv => AgreedRuns
  BY DEF CheckInv
<1> QED
  BY <1>1, CheckInvHolds, PTL
=============================================================================
