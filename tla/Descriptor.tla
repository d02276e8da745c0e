---------------------------- MODULE Descriptor ----------------------------
(***************************************************************************)
(* What tools/mayo_gen.ts makes of a schema, and what the code it          *)
(* generates hands to the library: kernel specs with an id, a hash and a   *)
(* kind, a manifest of them and its protocol id.                           *)
(*                                                                         *)
(* A schema is a record of its manifest's name, its layouts (a sequence of *)
(* [name, fields], a field being a [name, type]) and its kernels (a        *)
(* sequence of [name, id, kind, argument, layout], "none" standing for an  *)
(* argument or layout that is left out).  The 32-bit FNV-1a hash is        *)
(* represented by what it is computed from: that two different texts have  *)
(* different hashes is assumed.                                            *)
(***************************************************************************)
EXTENDS Integers, Sequences, SequencesExt

CONSTANTS BadNames,  \* keywords, and names no identifier can have
          MaxId      \* the largest Int32

ASSUME DescriptorAssumption == MaxId \in Nat

GoodName(name) == name \notin BadNames
Distinct(seq)  == IsInjective(seq)
NamesOf(seq)   == [i \in DOMAIN seq |-> seq[i].name]

-----------------------------------------------------------------------------
(* validateSchema, the part about layouts and the part about kernels.      *)
ValidLayouts(layouts) ==
    /\ Distinct(NamesOf(layouts))
    /\ \A layout \in ToSet(layouts) :
          /\ GoodName(layout.name)
          /\ layout.fields # <<>>
          /\ Distinct(NamesOf(layout.fields))
          /\ \A field \in ToSet(layout.fields) :
                GoodName(field.name) /\ field.type \in {"i32", "slice_i32"}

ValidKernels(kernels, layouts) ==
    /\ kernels # <<>>
    /\ Distinct(NamesOf(kernels))
    /\ Distinct([i \in DOMAIN kernels |-> kernels[i].id])
    /\ \A kernel \in ToSet(kernels) :
          /\ GoodName(kernel.name)
          /\ kernel.argument # "none" => GoodName(kernel.argument)
          /\ kernel.kind \in {"map", "reduce"}
          /\ 0 < kernel.id /\ kernel.id <= MaxId
          /\ kernel.layout # "none" => kernel.layout \in ToSet(NamesOf(layouts))

ValidSchema(schema) ==
    /\ GoodName(schema.manifest)
    /\ ValidLayouts(schema.layouts)
    /\ ValidKernels(schema.kernels, schema.layouts)

(* The layout a kernel names, as a set of at most one.                     *)
LayoutOf(schema, kernel) ==
    {layout \in ToSet(schema.layouts) : layout.name = kernel.layout}

(* Mutant of Canonical: the layout is left out of the hash. *)
CanonicalUnshaped(schema, kernel) ==
    <<schema.manifest, kernel.name, kernel.kind, kernel.argument>>

(* canonicalKernel: the text that is hashed; not the kernel's id.          *)
Canonical(schema, kernel) ==
    <<schema.manifest, kernel.name, kernel.kind, kernel.argument,
      LayoutOf(schema, kernel)>>

(* fnv1a32. *)
Hash(text) == text

ById(kernels) == SortSeq(kernels, LAMBDA a, b : a.id < b.id)

(* Mutant of Kernels: the order of the schema is kept. *)
KernelsUnsorted(schema) == schema.kernels

(* The kernels as validateSchema returns them, by ascending id.            *)
Kernels(schema) == ById(schema.kernels)

(* renderKernel: <kernel>_spec().                                          *)
SpecOf(schema, kernel) ==
    [id   |-> kernel.id,
     hash |-> Hash(Canonical(schema, kernel)),
     kind |-> IF kernel.kind = "reduce" THEN 1 ELSE 0]

(* generateMoonBit: manifest() and its specs.                              *)
Manifest(schema) ==
    [id |-> schema.manifest,
     specs |-> [i \in DOMAIN schema.kernels |-> SpecOf(schema, Kernels(schema)[i])]]

-----------------------------------------------------------------------------
(* kernel_manifest aborts unless the ids increase. *)
ManifestAborts(manifest) ==
    \/ manifest.specs = <<>>
    \/ \E i \in DOMAIN manifest.specs :
          manifest.specs[i].id <= (IF i = 1 THEN 0 ELSE manifest.specs[i - 1].id)

(* build_kernel_protocol_id. *)
ProtocolId(manifest) == <<"mayo.kernel", manifest.id, manifest.specs>>

(* <kernel>_entry() of each of the names a Guest binds, in its order; and  *)
(* when serve_kernels aborts over them.                                    *)
KernelNamed(schema, name) == CHOOSE k \in ToSet(schema.kernels) : k.name = name
Entries(schema, names) == [i \in DOMAIN names |-> SpecOf(schema, KernelNamed(schema, names[i]))]
EntriesAbort(schema, names) == Entries(schema, names) # Manifest(schema).specs

(* What a kernel is, to those who write and call it.                       *)
Meaning(schema, name) ==
    LET kernel == KernelNamed(schema, name)
    IN  [manifest |-> schema.manifest, name |-> name, kind |-> kernel.kind,
         argument |-> kernel.argument, shape |-> LayoutOf(schema, kernel)]
=============================================================================
