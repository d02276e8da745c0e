----------------------------- MODULE PodLayout -----------------------------
(***************************************************************************)
(* The POD layouts tools/mayo_gen.ts generates code for.  A layout is a    *)
(* header in the shared Int32 buffer, one word for each i32 field and two  *)
(* (offset and length) for each slice, followed by the slices.  Host and   *)
(* Guest run the same generated functions; here they are functions of the  *)
(* schema's field types, in the arithmetic of signed integers that wrap.   *)
(*                                                                         *)
(* A buffer is a function from 0 .. Words - 1.  A load outside it yields   *)
(* 0 and a store outside it is lost, as for the Int32Array of a JavaScript *)
(* build.                                                                  *)
(***************************************************************************)
EXTENDS Integers, Sequences

CONSTANTS MaxInt,  \* the largest Int (2147483647 in the program)
          Words,   \* length of the shared buffer
          Schema   \* the field types of the layout, in order

Int32 == -MaxInt - 1 .. MaxInt

ASSUME LayoutAssumption == /\ MaxInt \in Nat \ {0}
                           /\ Words \in 0 .. MaxInt
                           /\ Schema \in Seq({"i32", "slice"}) /\ Schema # <<>>

Wrap(n) == ((n + MaxInt + 1) % (2 * (MaxInt + 1))) - (MaxInt + 1)

Fields  == DOMAIN Schema
IsSlice(k) == Schema[k] = "slice"

LoadWord(words, i) == IF i \in DOMAIN words THEN words[i] ELSE 0

-----------------------------------------------------------------------------
(* headerSlots: the words before field k, and of the whole header.         *)
SlotsBefore[k \in 1 .. Len(Schema) + 1] ==
    IF k = 1 THEN 0 ELSE SlotsBefore[k - 1] + (IF IsSlice(k - 1) THEN 2 ELSE 1)
HeaderWords == SlotsBefore[Len(Schema) + 1]

(* A schema has far fewer fields than there are integers.                  *)
ASSUME HeaderAssumption == HeaderWords <= MaxInt

(* after_<field>: where each slice ends and the next one starts.           *)
After(base, args) ==
    LET end[k \in 0 .. Len(Schema)] ==
            IF k = 0 THEN Wrap(base + HeaderWords)
            ELSE IF IsSlice(k) THEN Wrap(end[k - 1] + args[k]) ELSE end[k - 1]
    IN  end

(* When <name>_layout_at aborts.                                           *)
LayoutAborts(base, args) ==
    LET end == After(base, args)
    IN  \/ base < 0
        \/ \E k \in Fields : IsSlice(k) /\ (args[k] < 0 \/ end[k] < end[k - 1])

(* <name>_layout_at, given each i32 and the length of each slice.          *)
LayoutAt(base, args) ==
    LET end == After(base, args)
    IN  [base     |-> base,
         args     |-> args,
         offset   |-> [k \in Fields |-> end[k - 1]],
         capacity |-> Wrap(end[Len(Schema)] - base)]

(* <field>_index leads to these words, and aborts for another index.       *)
SliceWords(layout, k) == {Wrap(layout.offset[k] + i) : i \in 0 .. layout.args[k] - 1}

(* Mutant of HeaderWord: the words of a slice are swapped. *)
HeaderWordSwapped(layout, s) ==
    LET k == CHOOSE f \in Fields : SlotsBefore[f] <= s /\ s < SlotsBefore[f + 1]
    IN  IF IsSlice(k) /\ s # SlotsBefore[k] THEN layout.offset[k] ELSE layout.args[k]

(* The word of the header at slot s.                                       *)
HeaderWord(layout, s) ==
    LET k == CHOOSE f \in Fields : SlotsBefore[f] <= s /\ s < SlotsBefore[f + 1]
    IN  IF IsSlice(k) /\ s = SlotsBefore[k] THEN layout.offset[k] ELSE layout.args[k]

(* <Name>Layout::write_header. *)
WriteAborts(layout) == Words < Wrap(layout.base + layout.capacity)
WriteHeader(words, layout) ==
    [i \in DOMAIN words |->
        LET s == i - layout.base
        IN  IF s \in 0 .. HeaderWords - 1 THEN HeaderWord(layout, s) ELSE words[i]]

(* What load_<name>_layout makes of the words at base.                     *)
LoadLayout(words, base) ==
    LayoutAt(base, [k \in Fields |->
        LoadWord(words, Wrap(base + SlotsBefore[k] + (IF IsSlice(k) THEN 1 ELSE 0)))])

(* The header says another offset than the lengths before it amount to.    *)
OffsetDiffers(words, layout) ==
    \E k \in Fields : IsSlice(k) /\ LoadWord(words, Wrap(layout.base + SlotsBefore[k]))
                                       # layout.offset[k]

(* Mutant of LoadAborts: the end of the last slice is not checked. *)
LoadAbortsSeldom(words, base) ==
    LET layout == LoadLayout(words, base)
    IN  \/ base < 0 \/ Words < Wrap(base + HeaderWords)
        \/ LayoutAborts(base, layout.args)
        \/ OffsetDiffers(words, layout)

(* When load_<name>_layout, the Guest's way to a layout, aborts.           *)
LoadAborts(words, base) ==
    LET layout == LoadLayout(words, base)
    IN  \/ base < 0 \/ Words < Wrap(base + HeaderWords)
        \/ LayoutAborts(base, layout.args)
        \/ OffsetDiffers(words, layout)
        \/ Words < Wrap(layout.base + layout.capacity)
=============================================================================
