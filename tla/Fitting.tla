-------------------------------- MODULE Fitting --------------------------------
(***************************************************************************)
(* A fit handed from one caller to the next, as text and as a record:      *)
(* src/fitting/CjsToolFittingCodec.js reads DNA (and the chat link around  *)
(* it) and EFT into one record and writes the record as either, and        *)
(* CjsToolFitting.FromEsi makes the same record of a fitting EVE saved.    *)
(* A type is classified by the slot its effect names; a text is the list   *)
(* of its groups or lines.  The ship and the fit's name are left out, and  *)
(* so is how a number or a name is spelled.                                *)
(*                                                                         *)
(* A definition named X_ and what it forgets stands before X and is X with *)
(* a plausible bug; nothing here uses it.                                  *)
(***************************************************************************)
EXTENDS Naturals, SequencesExt, FiniteSetsExt

CONSTANTS
    Items,          \* the types of modules, drones and charges
    SlotOf,         \* [Items -> Slots \cup {Nothing}]
    Named,          \* the items whose name Resolve finds
    MaxItems,       \* bound: entries in a text
    MaxQuantity,    \* bound: of one entry
    Nothing

Slots == {"high", "medium", "low", "rig", "subsystem", "service"}

ASSUME SlotsAreSlots == SlotOf \in [Items -> Slots \cup {Nothing}] /\ Nothing \notin Slots
ASSUME NamedAreItems == Named \subseteq Items
ASSUME BoundsAreNumbers == {MaxItems, MaxQuantity} \subseteq Nat

VARIABLES
    text,       \* what was handed over last: its form and its entries
    record,     \* what the last reader made of it, Nothing if it refused
    source,     \* where the first record came from: "dna", "eft", "esi"
    first       \* the first record

fitVars == <<text, record, source, first>>

Quantities == 1..MaxQuantity
Parts == [item : Items, quantity : Quantities, fitted : BOOLEAN]

-------------------------------------------------------------------------------
(* Normalize *)

\* The type decides the slot, and the order the position in it.
Normalize(parts) ==
    [i \in DOMAIN parts |->
       LET p == parts[i]
           Fits(j) == parts[j].fitted /\ SlotOf[parts[j].item] # Nothing
           before == {j \in 1..(i - 1) : Fits(j) /\ SlotOf[parts[j].item] = SlotOf[p.item]}
       IN [item |-> p.item, quantity |-> p.quantity, fitted |-> Fits(i),
           slot |-> IF Fits(i) THEN SlotOf[p.item] ELSE Nothing,
           position |-> IF Fits(i) THEN Cardinality(before) ELSE Nothing]]

\* FromEsi: the flag decides both, and only the flag.
Placed(parts) ==
    [i \in DOMAIN parts |->
       [item |-> parts[i].item, quantity |-> parts[i].quantity,
        fitted |-> parts[i].slot # Nothing, slot |-> parts[i].slot,
        position |-> IF parts[i].slot # Nothing THEN parts[i].position ELSE Nothing]]

-------------------------------------------------------------------------------
(* The two texts *)

\* What a list has at some of its places, in its order.
Chosen(items, at) ==
    [k \in 1..Cardinality(at) |->
       items[CHOOSE i \in at : Cardinality({j \in at : j < i}) = k - 1]]

InSlot(items, slot) == Chosen(items, {i \in DOMAIN items : items[i].slot = slot})
Loose(items) == Chosen(items, {i \in DOMAIN items : ~items[i].fitted})

DnaOrder == <<"high", "medium", "low", "rig", "subsystem", "service">>
EftOrder == <<"low", "medium", "high", "rig", "subsystem", "service">>

Sections(items, order) ==
    InSlot(items, order[1]) \o InSlot(items, order[2]) \o InSlot(items, order[3])
      \o InSlot(items, order[4]) \o InSlot(items, order[5]) \o InSlot(items, order[6])

\* Unfitted modules are not marked.
FormatDna_Unmarked(items) ==
    LET all == Sections(items, DnaOrder) \o Loose(items)
    IN [i \in DOMAIN all |->
          [item |-> all[i].item, quantity |-> all[i].quantity, fitted |-> TRUE]]

\* `type;quantity` by slot, then `type_;quantity` for what is not fitted.
FormatDna(items) ==
    LET all == Sections(items, DnaOrder) \o Loose(items)
    IN [i \in DOMAIN all |->
          [item |-> all[i].item, quantity |-> all[i].quantity, fitted |-> all[i].fitted]]

\* No line says how many.
FormatEft_NoCounts(items) ==
    LET all == Sections(items, EftOrder) \o Loose(items)
    IN [i \in DOMAIN all |-> [item |-> all[i].item, fitted |-> TRUE, quantity |-> 1]]

\* One line for each: the name alone of what is fitted, `name xN` of the rest.
FormatEft(items) ==
    LET all == Sections(items, EftOrder) \o Loose(items)
    IN [i \in DOMAIN all |->
          [item |-> all[i].item, fitted |-> TRUE,
           quantity |-> IF all[i].fitted THEN 1 ELSE all[i].quantity]]

\* A line that names no type refuses the whole text.
ReadEft(lines) ==
    IF \E i \in DOMAIN lines : lines[i].item \notin Named THEN Nothing ELSE Normalize(lines)

-------------------------------------------------------------------------------
FitIdle == text = Nothing /\ record = Nothing /\ source = Nothing /\ first = Nothing

EsiParts == [item : Items, quantity : Quantities, slot : Slots \cup {Nothing}, position : 0..1]

\* A text of another program, or a fitting EVE saved.
FitInit ==
    /\ \/ /\ source = "dna"
          /\ \E parts \in BoundedSeq(Parts, MaxItems) : record = Normalize(parts)
       \/ /\ source = "eft"
          /\ \E lines \in BoundedSeq({p \in Parts : p.fitted}, MaxItems) : record = ReadEft(lines)
       \/ /\ source = "esi"
          /\ \E parts \in BoundedSeq(EsiParts, MaxItems) : record = Placed(parts)
    /\ first = record /\ text = Nothing

WriteDna ==
    /\ record # Nothing /\ text = Nothing
    /\ text' = [form |-> "dna", parts |-> FormatDna(record)]
    /\ UNCHANGED <<record, source, first>>

WriteEft ==
    /\ record # Nothing /\ text = Nothing
    /\ text' = [form |-> "eft", parts |-> FormatEft(record)]
    /\ UNCHANGED <<record, source, first>>

ReadText ==
    /\ text # Nothing
    /\ record' = IF text.form = "dna" THEN Normalize(text.parts) ELSE ReadEft(text.parts)
    /\ text' = Nothing
    /\ UNCHANGED <<source, first>>

FitNext == WriteDna \/ WriteEft \/ ReadText

FitSpec == FitInit /\ [][FitNext]_fitVars

-------------------------------------------------------------------------------
(* Properties *)

\* How many of an item a record has, fitted or not.
Amount(items, item) ==
    Cardinality({u \in (DOMAIN items) \X Quantities :
                   items[u[1]].item = item /\ u[2] <= items[u[1]].quantity})

\* An entry is what another was: its amount may have become one if that was fitted or
\* belongs into a slot, for an EFT line of what is fitted says no quantity.
Fittable(was) == was.fitted \/ SlotOf[was.item] # Nothing
KeptAs(now, was) ==
    /\ now.item = was.item
    /\ now.fitted => Fittable(was)
    /\ now.quantity = was.quantity \/ (now.quantity = 1 /\ Fittable(was))

Follows(items, of) ==
    \E at \in Bijection(DOMAIN items, DOMAIN of) :
        \A k \in DOMAIN items : KeptAs(items[k], of[at[k]])

\* "A fitting that silently loses its modules looks like a valid fit of an empty
\* hull" (CjsToolFittingCodec.js:77): through any chain of texts a record either has
\* each entry of the first once, its amount too unless an EFT cut it to one, or its
\* reader refused it.
NothingVanishes == record # Nothing /\ first # Nothing => Follows(record, first)

\* The step that reads a DNA makes of it as much of everything, and, where the slots
\* are the types' own, what is fitted as it was and the same DNA.
DnaReturns ==
    text # Nothing /\ text.form = "dna" /\ text' = Nothing =>
      /\ \A item \in Items : Amount(record', item) = Amount(record, item)
      /\ (\A i \in DOMAIN record : record[i].slot \in {Nothing, SlotOf[record[i].item]}) =>
           /\ FormatDna(record') = text.parts
           /\ \A slot \in Slots \cup {Nothing} :
                [i \in DOMAIN InSlot(record', slot) |-> InSlot(record', slot)[i].item]
                  = [i \in DOMAIN InSlot(record, slot) |-> InSlot(record, slot)[i].item]

\* "That round trip is the point" (CjsToolFittingCodec.js:12): a record that goes
\* out as DNA comes back with as much of everything, writes the same DNA again, and
\* is fitted as it was where its slots are the types' own.
DnaKeepsTheFit == [][DnaReturns]_fitVars
===============================================================================
