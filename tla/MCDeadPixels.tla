---------------------------- MODULE MCDeadPixels ----------------------------
EXTENDS DeadPixels

MCEdited == {0, 1, 2, 3, 4}

\* Dead pixels 1, 3 and 4; pixel 0 replaces two of them. Stale entries lie behind the ends.
MCFactoryMemory ==
    [deadPixels |-> <<DeadEntry(1), DeadEntry(3), DeadEntry(4), EndOfDeadPixels,
                      DeadEntry(7), EndOfDeadPixels>>,
     replacements |-> <<[pixelnum |-> 1, a |-> 0, b |-> 1],
                        [pixelnum |-> 3, a |-> NoSlot, b |-> 2], EndOfReplacements,
                        [pixelnum |-> 5, a |-> 0, b |-> NoSlot], EndOfReplacements>>]

Row(dead, replacements) == [dead |-> dead, replacements |-> replacements]

\* Two circles, the same replacement twice, a skipped coordinate, a duplicate row, and every
\* set of up to four dead pixels without replacements.
MCFiles ==
    {<<Row(0, <<3, 1>>), Row(2, <<1, 5>>), Row(8, <<3, 5>>)>>,
     <<Row(8, <<7, 5>>), Row(0, <<1, 3>>), Row(6, <<3, 7>>), Row(2, <<1, 5>>)>>,
     <<Row(2, <<1, 1>>), Row(4, <<Unreadable, 3>>)>>,
     <<Row(2, <<1>>), Row(2, <<3>>)>>}
    \cup {[i \in DOMAIN Sorted(dead) |-> Row(Sorted(dead)[i], << >>)] :
              dead \in UNION {kSubset(n, Pixel) : n \in 1 .. 4}}
=============================================================================
