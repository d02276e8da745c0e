---------------------------- MODULE SharedArena ----------------------------
(***************************************************************************)
(* SharedArena, SharedRegion and WorkerScratch (thread_pool.mbt), the      *)
(* monotonic allocator over the pool's shared buffer, with the generated   *)
(* functions of PodLayout on top: layouts are allocated from the arena,    *)
(* or placed by an application that shares out its buffer itself, and      *)
(* their headers are written to the buffer, where kernels load them from.  *)
(*                                                                         *)
(* live is the set of allocations made since the last reset: what reset    *)
(* takes back is the client's not to use any more, and a second arena of   *)
(* the same pool is a reset as far as the first one is concerned.          *)
(***************************************************************************)
EXTENDS PodLayout

CONSTANTS Lengths,      \* lengths asked for, in words
          Dimensions,   \* <<workers, words per Worker>> of scratch asked for
          Arguments,    \* field values and slice lengths of layouts
          Bases,        \* where an application places a layout itself
          Payloads,     \* data stored into allocations, repeated
          MaxAllocations \* bound on the allocations of a run

ASSUME ArenaAssumption ==
    /\ Lengths \subseteq Int32 /\ Dimensions \subseteq Int32 \X Int32
    /\ Arguments \subseteq [Fields -> Int32] /\ Bases \subseteq Int32
    /\ Payloads \subseteq Seq(Int32) \ {<<>>}
    /\ MaxAllocations \in Nat

VARIABLES cursor,   \* SharedArena.cursor_
          words,    \* the shared buffer
          live,     \* allocations since the last reset
          allocated \* number of allocations so far

arenaVars == <<cursor, words, live, allocated>>

Region(offset, length)  == [kind |-> "region", offset |-> offset, length |-> length]
Scratch(offset, workers, each) ==
    [kind |-> "scratch", offset |-> offset, workers |-> workers, words |-> each]
Placed(layout) == [kind |-> "layout", layout |-> layout]

ArenaInit == /\ cursor = 0
             /\ words = [i \in 0 .. Words - 1 |-> 0]
             /\ live = {} /\ allocated = 0

(* reserve_region. *)
Fits(length) == /\ cursor >= 0 /\ length >= 0 /\ cursor <= Words
                /\ length <= Words - cursor

(* What one call counts for, whether it succeeds or raises.                *)
Count == allocated < MaxAllocations /\ allocated' = allocated + 1

(* An application that placed a layout itself has no arena to allocate     *)
(* from: who places layouts has to know where the free words are.          *)
FromArena == ~ \E a \in live : a.kind = "layout" /\ a.layout.base >= cursor

Allocate(length) == /\ Count /\ FromArena /\ Fits(length)
                    /\ cursor' = cursor + length
                    /\ live' = live \cup {Region(cursor, length)}
                    /\ UNCHANGED words

(* Mutant of ScratchFits: the product is not guarded. *)
ScratchWraps(workers, each) ==
    workers > 0 /\ each >= 0 /\ Fits(Wrap(workers * each))

(* allocate_worker_scratch, whose product is an Int.                       *)
ScratchFits(workers, each) ==
    /\ workers > 0 /\ each >= 0
    /\ each > 0 => workers <= MaxInt \div each
    /\ Fits(Wrap(workers * each))

AllocateScratch(workers, each) ==
    /\ Count /\ FromArena /\ ScratchFits(workers, each)
    /\ cursor' = cursor + Wrap(workers * each)
    /\ live' = live \cup {Scratch(cursor, workers, each)}
    /\ UNCHANGED words

(* allocate_<name>_layout: the shape at 0, a region of its capacity, the   *)
(* layout there, its header.                                               *)
AllocateLayout(args) ==
    /\ Count /\ FromArena
    /\ LET shape  == LayoutAt(0, args)
           layout == LayoutAt(cursor, args)
       IN  /\ ~ LayoutAborts(0, args) /\ Fits(shape.capacity)
           /\ ~ LayoutAborts(cursor, args) /\ ~ WriteAborts(layout)
           /\ words' = WriteHeader(words, layout)
           /\ cursor' = cursor + shape.capacity
           /\ live' = live \cup {Placed(layout)}

(* layout_at and write_header without an arena. *)
PlaceLayout(base, args) ==
    /\ Count /\ live = {} /\ cursor = 0
    /\ LET layout == LayoutAt(base, args)
       IN  /\ ~ LayoutAborts(base, args) /\ ~ WriteAborts(layout)
           /\ words' = WriteHeader(words, layout)
           /\ live' = {Placed(layout)}
    /\ UNCHANGED cursor

Reset == /\ live # {}
         /\ cursor' = 0 /\ live' = {}
         /\ UNCHANGED <<words, allocated>>

-----------------------------------------------------------------------------
(* The words through which each kind of allocation can be written.         *)

(* WorkerScratch::worker_region of each Worker.                            *)
WorkerWords(a, worker) == LET first == Wrap(a.offset + Wrap(worker * a.words))
                          IN  first .. first + a.words - 1

(* The index that SharedRegion::store and <field>_index lead to.           *)
Indexes(a) ==
    CASE a.kind = "region"  -> a.offset .. a.offset + a.length - 1
      [] a.kind = "scratch" -> UNION {WorkerWords(a, v) : v \in 0 .. a.workers - 1}
      [] a.kind = "layout"  ->
            UNION {SliceWords(a.layout, k) : k \in {f \in Fields : IsSlice(f)}}

(* A Host or a kernel fills what it was given with its data.               *)
Fill(a, v) ==
    /\ words' = [i \in DOMAIN words |->
                    IF i \in Indexes(a) THEN v[1 + (i % Len(v))] ELSE words[i]]
    /\ UNCHANGED <<cursor, live, allocated>>

ArenaNext == \/ \E n \in Lengths : Allocate(n)
             \/ \E d \in Dimensions : AllocateScratch(d[1], d[2])
             \/ \E args \in Arguments : AllocateLayout(args)
             \/ \E base \in Bases, args \in Arguments : PlaceLayout(base, args)
             \/ Reset
             \/ \E a \in live, v \in Payloads : Fill(a, v)

-----------------------------------------------------------------------------
HeaderIndexes(a) == IF a.kind # "layout" THEN {}
                    ELSE a.layout.base .. a.layout.base + HeaderWords - 1

(* What is allocated between two resets never overlaps: not two regions,   *)
(* not a header and a slice of any layout, not the scratch of two Workers; *)
(* and all of it lies in the buffer (thread_pool.mbt line 262).            *)
AllocationsDisjoint ==
    /\ \A a \in live : Indexes(a) \cup HeaderIndexes(a) \subseteq 0 .. Words - 1
    /\ \A a, b \in live :
          /\ a # b => Indexes(a) \cap Indexes(b) = {}
          /\ Indexes(a) \cap HeaderIndexes(b) = {}
          /\ a # b => HeaderIndexes(a) \cap HeaderIndexes(b) = {}
    /\ \A a \in live : a.kind = "scratch" =>
          \A v, w \in 0 .. a.workers - 1 :
             v # w => WorkerWords(a, v) \cap WorkerWords(a, w) = {}

(* Whatever was written through other allocations since, a Guest that      *)
(* loads a layout at the base the Host gave it gets the Host's layout.     *)
LoadAgrees == \A a \in live :
    a.kind = "layout" => /\ ~ LoadAborts(words, a.layout.base)
                         /\ LoadLayout(words, a.layout.base) = a.layout

(* A Guest that loads at a wrong base, or over words that were never a     *)
(* header, is refused or given slices that lie in the buffer, one after    *)
(* the other behind the header: no kernel is led outside the buffer.       *)
LoadedInside ==
    \A base \in Int32 :
        LET layout == LoadLayout(words, base)
        IN  ~ LoadAborts(words, base) =>
               \A k \in Fields : IsSlice(k) =>
                  /\ layout.offset[k] >= base + HeaderWords
                  /\ layout.offset[k] + layout.args[k] <= Words
                  /\ \A j \in Fields : IsSlice(j) /\ j < k =>
                        layout.offset[j] + layout.args[j] <= layout.offset[k]
=============================================================================
