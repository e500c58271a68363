----------------------------- MODULE DeadPixels -----------------------------
(***************************************************************************)
(* The table of dead pixels and their replacements (deadpixels.cpp) and    *)
(* its way to the camera and back (addDPRAdapters, the value adapter with  *)
(* progress).  A caller edits a DeadPixels object and writes it as the     *)
(* value of a property; the writer stores two tables one after the other,  *)
(* the dead pixels and the replacements, and may fail anywhere in between. *)
(*                                                                         *)
(* A pixel is its index, so the order of coordinates is the order of       *)
(* numbers.  A table in the camera's memory is a sequence of entries that  *)
(* name a pixel by its index plus one, up to an entry that names none;     *)
(* what lies behind it is left from earlier.  A replacement                *)
(* entry has two slots, A and B, each naming a dead pixel by its place in  *)
(* the first table; no two entries may use the same slot for one dead      *)
(* pixel.                                                                  *)
(***************************************************************************)
EXTENDS HungarianDeadPixels, Sequences, SequencesExt

CONSTANTS
    MaxDeadpixelsCount,   \* MAX_DEADPIXELS_COUNT of the memory space
    Edited,               \* bound: the pixels inserted and erased one by one
    Files,                \* bound: CSV files, sequences of rows
    FactoryMemory         \* what the camera holds at first

NoSlot == -1
Unreadable == -1   \* a coordinate of a file that is no pixel
NotRead == [ok |-> FALSE, pixels |-> << >>]

MaxReplacements == 2
MaxReplacedPixels == 2

VARIABLES
    pixels,    \* m_deadPixelToReplacementsMap of the object the caller edits
    camera,    \* the two tables in the camera's memory
    cached,    \* the property's value in the library
    writing,   \* how far the writer is: "no", "dead pixels", "replacements", "done"
    fresh      \* ghost: the object is as recomputeReplacements left it

vars == <<pixels, camera, cached, writing, fresh>>

-----------------------------------------------------------------------------
Sorted(S) == SetToSortSeq(S, <)

\* The index of a dead pixel is its place in the ordered map.
IndexOf(table, dead) == Cardinality({d \in DOMAIN table : d < dead})

\* How often, over all dead pixels, a pixel is listed as a replacement.
UsesOf(table, pixel) ==
    {use \in (DOMAIN table) \X (1 .. MaxReplacements) :
        use[2] <= Len(table[use[1]]) /\ table[use[1]][use[2]] = pixel}

ReplacementsOf(table) == UNION {ToSet(table[d]) : d \in DOMAIN table}

\* createAndCheckReplacementsList, its conditions.
IsChecked(table) ==
    /\ DOMAIN table \subseteq Pixel
    /\ \A d \in DOMAIN table :
            /\ Len(table[d]) <= MaxReplacements
            /\ \A i, j \in DOMAIN table[d] : i < j => table[d][i] <= table[d][j]
    /\ ReplacementsOf(table) \subseteq Pixel \ DOMAIN table
    /\ \A r \in ReplacementsOf(table) : Cardinality(UsesOf(table, r)) <= MaxReplacedPixels

\* createAndCheckReplacementsList, its result: slot A is the first dead pixel, B the second.
CreateReplacementsList(table) ==
    LET Entry(r) ==
            LET first == Min({use[1] : use \in UsesOf(table, r)})
                last == Max({use[1] : use \in UsesOf(table, r)})
            IN  [pixel |-> r,
                 a |-> IndexOf(table, first),
                 b |-> IF Cardinality(UsesOf(table, r)) = 1 THEN NoSlot ELSE IndexOf(table, last)]
        order == Sorted(ReplacementsOf(table))
    IN  [i \in DOMAIN order |-> Entry(order[i])]

-----------------------------------------------------------------------------
(* Slot decollision.  Entries that share a dead pixel form chains and      *)
(* circles; walking along them, an entry that uses the slot its neighbour  *)
(* uses is moved or swapped.                                               *)

SlotOf(entry, direction) == IF direction = "B" THEN entry.b ELSE entry.a

Swapped(entry) == [entry EXCEPT !.a = entry.b, !.b = entry.a]

\* The entries that name a dead pixel, as the chains found them before any move.
CandidatesOf(list, index) == {i \in DOMAIN list : index \in {list[i].a, list[i].b}}

\* Fault: the same slots are compared in both directions.
CollidesOneWay(previous, current, direction) == previous.b # current.a

\* Does the neighbour found over the previous entry's slot use the same slot?
Collides(previous, current, direction) ==
    IF direction = "B" THEN previous.b # current.a ELSE current.b # previous.a

RECURSIVE WalkChain(_, _, _, _, _)
WalkChain(original, walk, start, at, direction) ==
    LET previous == walk.list[at]
        others == CandidatesOf(original, SlotOf(previous, direction)) \ {at}
    IN  IF others = {}
        THEN walk
        ELSE LET next == CHOOSE i \in others : TRUE
                 current == walk.list[next]
                 marked == [walk EXCEPT !.decollided = @ \cup {next}]
                 moved == [marked EXCEPT !.list[next] = Swapped(@)]
             IN  CASE next = start -> marked
                   [] next # start /\ current.a = NoSlot ->
                        IF direction = "B" THEN moved ELSE marked
                   [] next # start /\ current.a # NoSlot /\ current.b = NoSlot ->
                        IF direction = "A" THEN moved ELSE marked
                   [] OTHER ->
                        WalkChain(original,
                                  IF Collides(previous, current, direction) THEN moved ELSE marked,
                                  start, next, direction)

ChainDecollision(original, walk, start, direction) ==
    IF SlotOf(walk.list[start], direction) = NoSlot
    THEN walk
    ELSE WalkChain(original, walk, start, start, direction)

\* deadPixelsSlotDecollision: both ways from every entry no chain has passed.
SlotDecollision(list) ==
    FoldLeftDomain(
        LAMBDA walk, start :
            IF start \in walk.decollided
            THEN walk
            ELSE LET oneWay == ChainDecollision(list, walk, start, "A")
                 IN  ChainDecollision(list, oneWay, start, "B"),
        [list |-> list, decollided |-> {}], list).list

-----------------------------------------------------------------------------
(* The two tables as they lie in the memory.                               *)

DeadEntry(pixel) == [pixelnum |-> pixel + 1]
ReplacementEntry(entry) == [pixelnum |-> entry.pixel + 1, a |-> entry.a, b |-> entry.b]

EndOfDeadPixels == [pixelnum |-> 0]
EndOfReplacements == [pixelnum |-> 0, a |-> NoSlot, b |-> NoSlot]

SerializeDeadPixels(table) ==
    LET order == Sorted(DOMAIN table)
    IN  Append([i \in DOMAIN order |-> DeadEntry(order[i])], EndOfDeadPixels)

SerializeReplacements(table) ==
    LET list == SlotDecollision(CreateReplacementsList(table))
    IN  Append([i \in DOMAIN list |-> ReplacementEntry(list[i])], EndOfReplacements)

-----------------------------------------------------------------------------
(* Reading: both tables up to their terminators, then the checks.          *)

UpToTerminator(memory) == SelectInSeq(memory, LAMBDA e : e.pixelnum = 0) - 1
IsTerminated(memory) == UpToTerminator(memory) >= 0
Entries(memory) == SubSeq(memory, 1, UpToTerminator(memory))
PixelOf(entry) == entry.pixelnum - 1

\* deserializeReplacements refuses a slot of one dead pixel used twice.
SlotsAreDistinct(entries) ==
    \A i, j \in DOMAIN entries :
        i # j => /\ entries[i].a = NoSlot \/ entries[i].a # entries[j].a
                 /\ entries[i].b = NoSlot \/ entries[i].b # entries[j].b

\* createDeadPixels: the replacements of a dead pixel are those that name its index.
CreateDeadPixels(deadEntries, entries) ==
    LET Named(index) == {PixelOf(entries[i]) : i \in CandidatesOf(entries, index)}
        table == [d \in {PixelOf(deadEntries[i]) : i \in DOMAIN deadEntries} |->
                    Sorted(Named(SelectInSeq(deadEntries, LAMBDA e : PixelOf(e) = d) - 1))]
    IN  IF /\ \A i \in DOMAIN entries :
                  {entries[i].a, entries[i].b} \subseteq {NoSlot} \cup 0 .. Len(deadEntries) - 1
           /\ IsInjective(deadEntries)
           /\ IsChecked(table)
        THEN [ok |-> TRUE, pixels |-> table]
        ELSE NotRead

\* deadPixelsReader
ReadDeadPixels(memory) ==
    IF /\ IsTerminated(memory.deadPixels)
       /\ IsTerminated(memory.replacements)
       /\ \A i \in DOMAIN Entries(memory.deadPixels) :
              PixelOf(Entries(memory.deadPixels)[i]) \in Pixel
       /\ \A i \in DOMAIN Entries(memory.replacements) :
              PixelOf(Entries(memory.replacements)[i]) \in Pixel
       /\ SlotsAreDistinct(Entries(memory.replacements))
    THEN CreateDeadPixels(Entries(memory.deadPixels), Entries(memory.replacements))
    ELSE NotRead

\* The first entries of a table are written over what the memory holds.
Overwritten(memory, written) == written \o SubSeq(memory, Len(written) + 1, Len(memory))

-----------------------------------------------------------------------------
(* Editing.  A table with pixels outside Edited comes from a file and is   *)
(* saved or recomputed, not edited (bound).                                *)

CanEdit == writing = "no" /\ DOMAIN pixels \subseteq Edited

\* insertPixel: the new dead pixel replaces no other any more.
TableWith(dead, replacements) ==
    [d \in DOMAIN pixels \cup {dead} |->
        IF d = dead THEN Sorted(replacements)
                    ELSE SelectSeq(pixels[d], LAMBDA r : r # dead)]

\* Fault: the new table is not checked as a whole.
InsertPixelUnchecked(dead, replacements) ==
    /\ CanEdit
    /\ replacements \cap DOMAIN pixels = {}
    /\ pixels' = TableWith(dead, replacements)
    /\ fresh' = FALSE
    /\ UNCHANGED <<camera, cached, writing>>

InsertPixel(dead, replacements) ==
    /\ CanEdit
    /\ replacements \cap DOMAIN pixels = {}
    /\ IsChecked(TableWith(dead, replacements))
    /\ pixels' = TableWith(dead, replacements)
    /\ fresh' = FALSE
    /\ UNCHANGED <<camera, cached, writing>>

ErasePixel(dead) ==
    /\ CanEdit
    /\ dead \in DOMAIN pixels
    /\ pixels' = [d \in DOMAIN pixels \ {dead} |-> pixels[d]]
    /\ fresh' = FALSE
    /\ UNCHANGED <<camera, cached, writing>>

\* recomputeReplacements: one replacement each; the check that follows is only logged.
Recomputed(dead) ==
    LET replacements == Replacements(dead)
    IN  [d \in dead |-> <<replacements[d]>>]

RecomputeReplacements ==
    /\ writing = "no"
    /\ CanMatch(DOMAIN pixels)
    /\ pixels' = Recomputed(DOMAIN pixels)
    /\ fresh' = TRUE
    /\ UNCHANGED <<camera, cached, writing>>

\* exportPixelsToCSV: a dead pixel without a replacement gets a default coordinate, pixel 0.
ExportPixelsToCSV ==
    LET order == Sorted(DOMAIN pixels)
    IN  [i \in DOMAIN order |->
            [dead |-> order[i],
             replacements |-> IF pixels[order[i]] = << >> THEN <<0>> ELSE pixels[order[i]]]]

\* importPixelsFromCSV: a replacement that is no pixel is skipped, everything else is an error.
ImportPixelsFromCSV(file, withReplacements) ==
    LET RowFor(d) == CHOOSE i \in DOMAIN file : file[i].dead = d
        table == [d \in {file[i].dead : i \in DOMAIN file} |->
                    IF withReplacements
                    THEN SortSeq(SelectSeq(file[RowFor(d)].replacements,
                                           LAMBDA r : r # Unreadable), <)
                    ELSE << >>]
    IN  /\ writing = "no"
        /\ \A i, j \in DOMAIN file : file[i].dead # Unreadable /\ (file[i].dead = file[j].dead => i = j)
        /\ IsChecked(table)
        /\ withReplacements \/ CanMatch(DOMAIN table)
        /\ pixels' = IF withReplacements THEN table ELSE Recomputed(DOMAIN table)
        /\ fresh' = ~withReplacements
        /\ UNCHANGED <<camera, cached, writing>>

\* What an import does depends on the file alone: those of Files are imported into an empty
\* table (bound), what was exported into the table it came from.
Importable == {ExportPixelsToCSV} \cup (IF pixels = << >> THEN Files ELSE {})

-----------------------------------------------------------------------------
(* Writing the object as the property's value.                             *)

StartWrite ==
    /\ writing = "no"
    /\ cached' = NotRead
    /\ writing' = "dead pixels"
    /\ UNCHANGED <<pixels, camera, fresh>>

\* A writer that fails has the value read again, which may fail too.
WriteFails(memory) ==
    /\ camera' = memory
    /\ cached' \in {ReadDeadPixels(memory), NotRead}
    /\ writing' = "done"
    /\ UNCHANGED <<pixels, fresh>>

TooManyDeadPixels ==
    /\ writing = "dead pixels"
    /\ Cardinality(DOMAIN pixels) > MaxDeadpixelsCount
    /\ WriteFails(camera)

WriteDeadPixels ==
    LET data == SerializeDeadPixels(pixels)
    IN  /\ writing = "dead pixels"
        /\ Cardinality(DOMAIN pixels) <= MaxDeadpixelsCount
        /\ \/ /\ camera' = [camera EXCEPT !.deadPixels = Overwritten(@, data)]
              /\ writing' = "replacements"
              /\ UNCHANGED <<pixels, cached, fresh>>
           \/ \E n \in 0 .. Len(data) :
                  WriteFails([camera EXCEPT !.deadPixels = Overwritten(@, SubSeq(data, 1, n))])

WriteReplacements ==
    LET data == SerializeReplacements(pixels)
    IN  /\ writing = "replacements"
        /\ \/ /\ camera' = [camera EXCEPT !.replacements = Overwritten(@, data)]
              /\ cached' = [ok |-> TRUE, pixels |-> pixels]
              /\ writing' = "done"
              /\ UNCHANGED <<pixels, fresh>>
           \/ \E n \in 0 .. Len(data) :
                  WriteFails([camera EXCEPT !.replacements = Overwritten(@, SubSeq(data, 1, n))])

\* The caller takes the property's value as its new object.
TakeValue ==
    /\ writing = "done"
    /\ cached.ok
    /\ pixels' = cached.pixels
    /\ fresh' = FALSE
    /\ UNCHANGED <<camera, cached, writing>>

Init ==
    /\ camera = FactoryMemory
    /\ cached = ReadDeadPixels(camera)
    /\ pixels = cached.pixels
    /\ writing = "no"
    /\ fresh = FALSE

Next ==
    \/ \E dead \in Edited, replacements \in kSubset(0, Edited) \cup kSubset(1, Edited) \cup kSubset(2, Edited) :
          InsertPixel(dead, replacements)
    \/ \E dead \in Edited : ErasePixel(dead)
    \/ RecomputeReplacements
    \/ \E file \in Importable, withReplacements \in BOOLEAN :
          ImportPixelsFromCSV(file, withReplacements)
    \/ StartWrite
    \/ TooManyDeadPixels
    \/ WriteDeadPixels
    \/ WriteReplacements
    \/ TakeValue

Spec == Init /\ [][Next]_vars

-----------------------------------------------------------------------------
(* Properties.                                                             *)

\* What the caller's object holds passes the check, so that serializeReplacements may
\* assert it (deadpixels.cpp:626): after every edit, after replacements were recomputed
\* (a failing check is only logged there), and after a value read from two tables that
\* belong to different saves.
TableIsChecked == IsChecked(pixels)

\* The value the library holds is the one the camera would give: a table that was saved
\* completely is read back with the same replacements for every dead pixel, so no slot is
\* used twice, whatever an earlier and longer table left behind the terminators.
CacheIsCamera ==
    cached.ok =>
        LET read == ReadDeadPixels(camera)
        IN  /\ read.ok
            /\ DOMAIN read.pixels = DOMAIN cached.pixels
            /\ \A d \in DOMAIN read.pixels : ToSet(read.pixels[d]) = ToSet(cached.pixels[d])

\* The cheapest way to give every dead pixel a use of a live pixel, by trying them all.
RECURSIVE LowestCost(_, _)
LowestCost(dead, free) ==
    IF dead = {}
    THEN 0
    ELSE LET d == Min(dead)
         IN  Min({CostLambda(d, p) + LowestCost(dead \ {d}, free \ {p}) : p \in free})

TableCost(table) ==
    MapThenSumSet(LAMBDA d : CostLambda(d, table[d][1]), DOMAIN table)
        + ReuseDemotivation * Cardinality({r \in Pixel : Cardinality(UsesOf(table, r)) = 2})

\* The replacements that the search over a growing neighbourhood finds are the best there
\* are, as the potentials of hungariandeadpixels.cpp:226 assert: no other choice of a use of
\* a live pixel for every dead pixel costs less.
RecomputedIsBest ==
    fresh /\ writing = "no" =>
        TableCost(pixels) = LowestCost(DOMAIN pixels, {p \in Point : p % NumPixels \notin DOMAIN pixels})
=============================================================================
