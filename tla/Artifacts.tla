----------------------------- MODULE Artifacts -----------------------------
(***************************************************************************)
(* From a schema to a kernel that runs.  mayo_gen and mayo_build generate  *)
(* the descriptor package and compile and place the artifacts, step by     *)
(* step, any of which may fail; the sources may be edited at any time; and *)
(* a Host runs whatever artifacts it finds, and has to find out for itself *)
(* whether the Worker it starts was built from the same descriptor.        *)
(*                                                                         *)
(* The file of the descriptor holds the schema it was generated from, or   *)
(* Torn after a write that failed; formatting says whether moon fmt has    *)
(* been over it.  A JavaScript artifact is what its sources were when it   *)
(* was compiled, a Wasm kernel its ABI version and contract hash.          *)
(***************************************************************************)
EXTENDS Descriptor

CONSTANTS Schemas,      \* schemas the developer writes
          EntryLists,   \* kernels the Guest's source binds, in its order
          Contracts,    \* contract ids of the Wasm kernel
          Abis,         \* ABI versions a Wasm kernel may be compiled against
          Configs,      \* build configurations
          Torn, Missing, \* a file half written, a file that is not there
          MaxEdits, MaxRuns, MaxStarts \* bounds on edits, runs of the tools
                                       \* and starts of a Worker

Roles == {"host", "guest", "wasm"}

ASSUME ArtifactAssumption ==
    /\ Torn \notin Schemas
    /\ \A s \in Schemas : /\ s.kernels \in Seq(ToSet(s.kernels))
                          /\ \A kernel \in ToSet(s.kernels) : kernel.id \in Int
    /\ \A names \in EntryLists : names \in Seq(ToSet(names))
    /\ Configs \subseteq [schema : BOOLEAN, descriptor : BOOLEAN, artifacts : Seq(Roles)]
    /\ MaxEdits \in Nat /\ MaxRuns \in Nat /\ MaxStarts \in Nat

(* Sorting permutes the kernels of a schema so that no id decreases.       *)
ASSUME SortAssumption ==
    \A s \in Schemas :
       /\ \E p \in Bijection(DOMAIN s.kernels, DOMAIN s.kernels) :
             ById(s.kernels) = [i \in DOMAIN s.kernels |-> s.kernels[p[i]]]
       /\ \A i, j \in DOMAIN s.kernels :
             i < j => ById(s.kernels)[i].id <= ById(s.kernels)[j].id

VARIABLES
    schema, entries, contract, contractHash, abi,  \* sources
    descriptor, formatted,   \* the generated file
    compiled, placed,        \* artifacts under _build and where they are used
    tool,     \* the last run of mayo_gen or mayo_build, and how far it is
    verdict,  \* how it ended
    edited,   \* whether a source was edited since that began
    host,     \* the Host artifact that is running
    worker,   \* the Guest artifact its Worker has loaded
    phase,    \* how far the Worker is
    ran,      \* the last dispatch: what was meant and what has run
    edits, runs, starts

sources  == <<schema, entries, contract, contractHash, abi>>
files    == <<descriptor, formatted, compiled, placed>>
toolVars == <<tool, verdict, edited, runs>>
poolVars == <<host, worker, phase, ran, starts>>
vars     == <<sources, files, toolVars, poolVars, edits>>

Init == /\ schema \in Schemas /\ entries \in EntryLists
        /\ contract \in Contracts /\ contractHash = Hash(contract) /\ abi \in Abis
        /\ descriptor = Missing /\ formatted = FALSE
        /\ compiled = [r \in Roles |-> Missing]
        /\ placed = [r \in Roles |-> Missing]
        /\ tool = [at |-> "none"] /\ verdict = "none" /\ edited = FALSE
        /\ host = Missing /\ worker = Missing /\ phase = "none" /\ ran = <<>>
        /\ edits = 0 /\ runs = 0 /\ starts = 0

-----------------------------------------------------------------------------
(* The developer edits a source, or the generated file; a Wasm kernel's    *)
(* source holds the hash of its contract, which may be forgotten.          *)

Edit == /\ edits < MaxEdits
        /\ edits' = edits + 1 /\ edited' = TRUE
        /\ \/ schema' \in Schemas \ {schema}
              /\ UNCHANGED <<entries, contract, contractHash, abi, descriptor>>
           \/ entries' \in EntryLists \ {entries}
              /\ UNCHANGED <<schema, contract, contractHash, abi, descriptor>>
           \/ /\ contract' \in Contracts \ {contract}
              /\ contractHash' \in {contractHash, Hash(contract')}
              /\ UNCHANGED <<schema, entries, abi, descriptor>>
           \/ descriptor' \in Schemas \ {descriptor}
              /\ UNCHANGED <<schema, entries, contract, contractHash, abi>>
        /\ UNCHANGED <<formatted, compiled, placed, tool, verdict, runs, poolVars>>

-----------------------------------------------------------------------------
(* The tools.  A run of mayo_gen has no configuration and no artifacts.    *)

GenOnly == [schema |-> TRUE, descriptor |-> TRUE, artifacts |-> <<>>]

(* parseBuildConfig. *)
ConfigFits(config) == /\ config.schema = config.descriptor
                      /\ config.artifacts # <<>>

(* Every way out of a run: what is left of its work stays.                 *)
End(how) == tool' = [tool EXCEPT !.at = "none"] /\ verdict' = how
Rest     == <<sources, edits, poolVars>>

StartTool(config, check) ==
    /\ tool.at = "none" /\ runs < MaxRuns
    /\ runs' = runs + 1 /\ edited' = FALSE
    /\ LET fits == config = GenOnly \/ ConfigFits(config)
       IN  /\ tool' = [at |-> IF ~ fits THEN "none"
                              ELSE IF config.schema THEN "read" ELSE "plan",
                       config |-> config, check |-> check, next |-> 1,
                       generated |-> Missing]
           /\ verdict' = IF fits THEN "none" ELSE "failed"
    /\ UNCHANGED <<files, Rest>>

(* The schema is read and MoonBit generated from it, in memory.            *)
ReadSchema == /\ tool.at = "read"
              /\ IF ValidSchema(schema)
                 THEN /\ tool' = [tool EXCEPT !.at = IF tool.check THEN "check" ELSE "write",
                                               !.generated = schema]
                      /\ UNCHANGED verdict
                 ELSE End("failed")
              /\ UNCHANGED <<files, edited, runs, Rest>>

(* Mutant of Normalized: the texts are compared as they are. *)
AsWritten(code, isFormatted) == <<code, isFormatted>>

(* normalized: what moon fmt changes makes no difference.                  *)
Normalized(code, isFormatted) == <<code>>

CheckDescriptor ==
    /\ tool.at = "check"
    /\ descriptor # Missing
    /\ End(IF Normalized(descriptor, formatted) = Normalized(tool.generated, FALSE)
           THEN "fresh" ELSE "stale")
    /\ UNCHANGED <<files, edited, runs, Rest>>

(* writeTextFile; mayo_build then has the package formatted. *)
WriteDescriptor == /\ tool.at = "write"
                   /\ descriptor' = tool.generated /\ formatted' = FALSE
                   /\ IF tool.config = GenOnly THEN End("generated")
                      ELSE tool' = [tool EXCEPT !.at = "fmt"] /\ UNCHANGED verdict
                   /\ UNCHANGED <<compiled, placed, edited, runs, Rest>>

Format == /\ tool.at = "fmt"
          /\ formatted' = TRUE
          /\ tool' = [tool EXCEPT !.at = "plan"]
          /\ UNCHANGED <<verdict, descriptor, compiled, placed, edited, runs, Rest>>

(* The loop over the artifacts of the plan; --check stops before it.       *)
NextArtifact == /\ tool.at = "plan"
                /\ IF tool.check THEN End("nothing to check")
                   ELSE IF tool.next > Len(tool.config.artifacts) THEN End("built")
                   ELSE tool' = [tool EXCEPT !.at = "build"] /\ UNCHANGED verdict
                /\ UNCHANGED <<files, edited, runs, Rest>>

Role == tool.config.artifacts[tool.next]

(* moon build compiles what is there: the descriptor for a JavaScript      *)
(* artifact, in which no function is defined twice, with entries of kernels *)
(* it has; the contract for a Wasm one.                                    *)
Compiles(role) ==
    \/ role = "wasm"
    \/ /\ descriptor \in Schemas /\ Distinct(NamesOf(descriptor.kernels))
       /\ role = "guest" => ToSet(entries) \subseteq ToSet(NamesOf(descriptor.kernels))

Artifact(role) ==
    CASE role = "host"  -> [code |-> descriptor, contract |-> contract]
      [] role = "guest" -> [code |-> descriptor, entries |-> entries]
      [] role = "wasm"  -> [abi |-> abi, hash |-> contractHash, contract |-> contract]

Build == /\ tool.at = "build"
         /\ IF Compiles(Role)
            THEN /\ compiled' = [compiled EXCEPT ![Role] = Artifact(Role)]
                 /\ tool' = [tool EXCEPT !.at = "copy"]
                 /\ UNCHANGED verdict
            ELSE End("failed") /\ UNCHANGED compiled
         /\ UNCHANGED <<descriptor, formatted, placed, edited, runs, Rest>>

(* Mutant of Copy: the artifact in use is not replaced. *)
CopyNew == /\ tool.at = "copy"
           /\ placed' = [placed EXCEPT ![Role] = IF @ = Missing THEN compiled[Role] ELSE @]
           /\ tool' = [tool EXCEPT !.at = "plan", !.next = @ + 1]
           /\ UNCHANGED <<verdict, descriptor, formatted, compiled, edited, runs, Rest>>

Copy == /\ tool.at = "copy"
        /\ placed' = [placed EXCEPT ![Role] = compiled[Role]]
        /\ tool' = [tool EXCEPT !.at = "plan", !.next = @ + 1]
        /\ UNCHANGED <<verdict, descriptor, formatted, compiled, edited, runs, Rest>>

(* A read, a write, a command or a copy fails; a write may have begun.     *)
ToolFails == /\ tool.at # "none"
             /\ End("failed")
             /\ IF tool.at = "write" THEN descriptor' \in {descriptor, Torn}
                ELSE UNCHANGED descriptor
             /\ IF tool.at = "copy"
                THEN placed' \in {placed, [placed EXCEPT ![Role] = Torn]}
                ELSE UNCHANGED placed
             /\ UNCHANGED <<formatted, compiled, edited, runs, Rest>>

ToolStep == \/ ReadSchema \/ CheckDescriptor \/ WriteDescriptor \/ Format
            \/ NextArtifact \/ Build \/ Copy \/ ToolFails

-----------------------------------------------------------------------------
(* The Host, and the Worker it starts. *)

OpenPool == /\ placed["host"] \notin {Missing, Torn} /\ starts < MaxStarts
            /\ starts' = starts + 1
            /\ host' = placed["host"] /\ worker' = Missing /\ ran' = <<>>
            /\ phase' \in (IF ManifestAborts(Manifest(placed["host"].code))
                           THEN {"refused"} ELSE {"starting js", "starting wasm"})
            /\ UNCHANGED <<sources, files, toolVars, edits>>

(* A JavaScript Worker loads its artifact; serve_kernels may abort.        *)
LoadGuest == /\ phase = "starting js" /\ placed["guest"] \notin {Missing, Torn}
             /\ worker' = placed["guest"]
             /\ phase' = IF \/ ManifestAborts(Manifest(worker'.code))
                            \/ EntriesAbort(worker'.code, worker'.entries)
                         THEN "refused" ELSE "online"
             /\ UNCHANGED <<host, ran, starts, sources, files, toolVars, edits>>

(* The Host compares the protocol in "online" with its own.                *)
OnOnline == /\ phase = "online"
            /\ phase' = IF ProtocolId(Manifest(worker.code)) = ProtocolId(Manifest(host.code))
                        THEN "ready" ELSE "refused"
            /\ UNCHANGED <<host, worker, ran, starts, sources, files, toolVars, edits>>

(* The Wasm glue says online with the contract of its URL or, on Bun, of   *)
(* the bootstrap message, both the Host's own.                             *)
GlueOnline == /\ phase = "starting wasm"
              /\ phase' = "instantiate"
              /\ UNCHANGED <<host, worker, ran, starts, sources, files, toolVars, edits>>

(* initializeKernel, on "atomic-init". *)
AbiVersion == 2
InitializeKernel ==
    /\ phase = "instantiate" /\ placed["wasm"] \notin {Missing, Torn}
    /\ worker' = placed["wasm"]
    /\ phase' = IF worker'.abi = AbiVersion /\ worker'.hash = Hash(host.contract)
                THEN "ready wasm" ELSE "failed"
    /\ UNCHANGED <<host, ran, starts, sources, files, toolVars, edits>>

(* The artifact is not there or does not load.                             *)
LoadFails == /\ phase \in {"starting js", "instantiate"}
             /\ phase' = "failed"
             /\ UNCHANGED <<host, worker, ran, starts, sources, files, toolVars, edits>>

(* The Worker's side of a dispatch: the first entry of the kernel's id.    *)
Served(spec) ==
    LET specs == Entries(worker.code, worker.entries)
        at    == {i \in DOMAIN specs : specs[i].id = spec.id}
    IN  IF at = {} THEN [status |-> "unknown"]
        ELSE LET i == CHOOSE j \in at : \A k \in at : j <= k
             IN  IF specs[i].hash # spec.hash THEN [status |-> "layout mismatch"]
                 ELSE [status |-> "ok", meaning |-> Meaning(worker.code, worker.entries[i])]

(* The Host calls one of the kernels of its descriptor.                    *)
Dispatch(kernel) ==
    /\ phase = "ready"
    /\ ran' = <<Meaning(host.code, kernel.name), Served(SpecOf(host.code, kernel))>>
    /\ UNCHANGED <<host, worker, phase, starts, sources, files, toolVars, edits>>

(* RestartWorkers: the Worker is started again, from what is there now.    *)
Restart == /\ phase \in {"ready", "ready wasm"} /\ starts < MaxStarts
           /\ starts' = starts + 1
           /\ phase' = IF phase = "ready" THEN "starting js" ELSE "starting wasm"
           /\ worker' = Missing /\ ran' = <<>>
           /\ UNCHANGED <<host, sources, files, toolVars, edits>>

PoolStep == \/ OpenPool \/ LoadGuest \/ OnOnline \/ GlueOnline \/ InitializeKernel
            \/ LoadFails \/ Restart
            \/ phase = "ready" /\ \E kernel \in ToSet(host.code.kernels) : Dispatch(kernel)

Next == \/ Edit
        \/ \E config \in Configs \cup {GenOnly}, check \in BOOLEAN : StartTool(config, check)
        \/ ToolStep
        \/ PoolStep

Spec == Init /\ [][Next]_vars

-----------------------------------------------------------------------------
(* A kernel that runs is the one the Host's code means by its call - same  *)
(* manifest, name, kind, argument and layout - whatever was edited, built  *)
(* in part or left over when Host and Worker were started, and restarted.  *)
(* A Wasm kernel that runs was hashed for the Host's contract.             *)
SameKernel ==
    /\ ran # <<>> /\ ran[2].status = "ok" => ran[2].meaning = ran[1]
    /\ phase = "ready wasm" => worker.hash = Hash(host.contract)

(* The checks refuse no pair of artifacts that fit: a Host generated from  *)
(* a schema that mayo_gen accepts starts and takes any Guest that has the  *)
(* same descriptor and binds its kernels by ascending id; and after that   *)
(* no call fails over the contract.                                        *)
AgreedRuns ==
    /\ phase = "refused" /\ ValidSchema(host.code)
       => /\ worker # Missing
          /\ \/ worker.code # host.code
             \/ worker.entries # NamesOf(ById(host.code.kernels))
    /\ ran # <<>> => ran[2].status = "ok"

(* A build that ended well while nobody edited leaves in place, for each   *)
(* artifact of its configuration, what the sources as they are compile to, *)
(* with the descriptor of the schema that is there.                        *)
BuildCoherent ==
    verdict = "built" /\ ~ edited =>
        /\ tool.config.schema => descriptor = schema
        /\ \A role \in ToSet(tool.config.artifacts) : placed[role] = Artifact(role)

(* A --check that ended while nobody edited tells the truth, both ways.    *)
CheckTrue ==
    ~ edited => /\ verdict = "fresh" => descriptor = schema
                /\ verdict = "stale" => descriptor # schema
=============================================================================
