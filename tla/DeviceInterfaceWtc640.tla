----------------------- MODULE DeviceInterfaceWtc640 -----------------------
(***************************************************************************)
(* Long reads and writes of the camera                                     *)
(* (wtc640/source/deviceinterfacewtc640.cpp): an operation is cut into     *)
(* packets, transient failures are retried while the window of the last    *)
(* packets does not hold too many of them, a busy device is waited for,    *)
(* and flash memory is written sector by sector in bursts that no other    *)
(* operation may interleave with.                                          *)
(*                                                                         *)
(* An operation is a sequence of sectors, a sector the number of its       *)
(* packets; reads and writes of other memory have one sector.  What the    *)
(* protocol makes of a packet is an outcome: ok, failed (NO_RESPONSE or    *)
(* TRANSMISSION_FAILED), busy (DEVICE_IS_BUSY), refused (any other error). *)
(***************************************************************************)
EXTENDS Naturals, Sequences, FiniteSets

CONSTANTS
  Threads,
  Sectors,      \* [kind -> sequence of packets per sector]
  WindowSize,   \* bits of ErrorWindow, 8
  MaxErrors,    \* MAX_ERRORS_IN_WINDOW, 4
  BusyLimit,    \* BUSY_DEVICE_TIMEOUT / BUSY_DEVICE_DELAY, 20
  Nobody

Kinds == DOMAIN Sectors

ASSUME DeviceAssumption ==
  /\ Kinds \subseteq {"read", "write", "flash"} /\ Kinds # {}
  /\ \A k \in Kinds : Sectors[k] \in Seq(Nat \ {0}) /\ Sectors[k] # <<>>
  /\ \A k \in Kinds \ {"flash"} : Len(Sectors[k]) = 1
  /\ WindowSize \in Nat /\ MaxErrors \in 1..WindowSize-1 /\ BusyLimit \in Nat \ {0}
  /\ Nobody \notin Threads

Outcomes == {"ok", "failed", "busy", "refused"}

VARIABLES
  pc,       \* idle, locking m_flashMutex, sending the start, a packet or the end of a burst
  op,       \* the locals of the operation, as an Operation
  result,   \* of the last operation: none, ok or error
  readers,  \* threads that share m_flashMutex
  writer,   \* the thread that has it alone
  seen      \* history: what the device has made of the operation's packets, as a Record

lockVars == <<readers, writer>>
vars == <<pc, op, result, lockVars, seen>>

EmptyWindow == [i \in 1..WindowSize |-> FALSE]
Shift(w, bit) == [i \in 1..WindowSize |-> IF i = 1 THEN bit ELSE w[i-1]]
SetNewest(w) == [w EXCEPT ![1] = TRUE]
Errors(w) == Cardinality({i \in 1..WindowSize : w[i]})

Packets(k, s) == {s} \X (1..Sectors[k][s])

\* sent: packets of the current sector that need not be sent any more; busy: busyDelayTotal
\* in units of BUSY_DEVICE_DELAY; window: lastErrors, the newest bit first; counter: of the
\* sector loop.
Operation(k) ==
  [kind |-> k, sector |-> 1, sent |-> 0, window |-> EmptyWindow, busy |-> 0, counter |-> 0]
NoOperation == Operation(CHOOSE k \in Kinds : TRUE)

\* missing: packets the device has not acknowledged, in flash memory since their burst has
\* started; recent: the last WindowSize packets of the operation, TRUE for a failed one.
Record(packets) == [missing |-> packets, recent |-> EmptyWindow]
NoRecord == Record({})

IsFlash(t) == op[t].kind = "flash"
Size(t) == Sectors[op[t].kind][op[t].sector]
LastSector(t) == op[t].sector = Len(Sectors[op[t].kind])
Sending == {"start", "packet", "end"}

----------------------------------------------------------------------------
(* handleErrorResponse *)

\* What it leaves in the window it is given, and in busyDelayTotal.
WindowAfter(w, outcome) == IF outcome = "failed" THEN SetNewest(w) ELSE w
BusyAfter(busy, outcome) == IF outcome = "busy" /\ busy < BusyLimit THEN busy + 1 ELSE busy

\* Fault: one error more than allowed.
Recoverable_OffByOne(w, busy, outcome) ==
  \/ outcome = "failed" /\ Errors(SetNewest(w)) <= MaxErrors + 1
  \/ outcome = "busy" /\ busy + 1 < BusyLimit

\* Fault: a busy device is waited for without an end.
Recoverable_NoBusyTimeout(w, busy, outcome) ==
  \/ outcome = "failed" /\ Errors(SetNewest(w)) <= MaxErrors
  \/ outcome = "busy"

\* The same packet is tried again.
Recoverable(w, busy, outcome) ==
  \/ outcome = "failed" /\ Errors(SetNewest(w)) <= MaxErrors
  \/ outcome = "busy" /\ busy + 1 < BusyLimit

----------------------------------------------------------------------------
(* readData, writeData *)

Begin(t, k) ==
  /\ pc[t] = "idle"
  /\ pc' = [pc EXCEPT ![t] = "locking"]
  /\ op' = [op EXCEPT ![t] = Operation(k)]
  /\ result' = [result EXCEPT ![t] = "none"]
  /\ seen' = [seen EXCEPT ![t] = Record(UNION {Packets(k, s) : s \in DOMAIN Sectors[k]})]
  /\ UNCHANGED lockVars

\* Fault: a flash write shares the mutex.
Lock_Shared(t) ==
  /\ pc[t] = "locking" /\ writer = Nobody
  /\ readers' = readers \cup {t}
  /\ pc' = [pc EXCEPT ![t] = IF IsFlash(t) THEN "start" ELSE "packet"]
  /\ op' = [op EXCEPT ![t].counter = IF IsFlash(t) THEN 1 ELSE 0]
  /\ UNCHANGED <<writer, result, seen>>

\* The shared or the unique lock; a flash write enters its sector loop.
Lock(t) ==
  /\ pc[t] = "locking" /\ writer = Nobody
  /\ IF IsFlash(t)
     THEN /\ readers = {}
          /\ writer' = t /\ UNCHANGED readers
          /\ pc' = [pc EXCEPT ![t] = "start"]
          /\ op' = [op EXCEPT ![t].counter = 1]
     ELSE /\ readers' = readers \cup {t} /\ UNCHANGED writer
          /\ pc' = [pc EXCEPT ![t] = "packet"]
          /\ UNCHANGED op
  /\ UNCHANGED <<result, seen>>

\* The operation is over: its locals are gone and the mutex is released.
Return(t, r) ==
  /\ pc' = [pc EXCEPT ![t] = "idle"]
  /\ op' = [op EXCEPT ![t] = NoOperation]
  /\ result' = [result EXCEPT ![t] = r]
  /\ readers' = readers \ {t}
  /\ writer' = IF writer = t THEN Nobody ELSE writer

\* The operation goes on at label with the locals o.
GoOn(t, label, o) ==
  /\ pc' = [pc EXCEPT ![t] = label]
  /\ op' = [op EXCEPT ![t] = o]
  /\ UNCHANGED <<result, lockVars>>

\* The error is returned.
Abandon(t) == Return(t, "error") /\ seen' = [seen EXCEPT ![t] = NoRecord]

Observe(t, outcome) ==
  [seen[t] EXCEPT !.recent = Shift(@, outcome = "failed")]

\* A packet of the loops around writeFlashBurstStart and writeFlashBurstEnd that is not
\* acknowledged: the window is not shifted.
BurstPacketFails(t, outcome) ==
  /\ pc[t] \in {"start", "end"} /\ outcome # "ok"
  /\ LET o == op[t] IN
       IF Recoverable(o.window, o.busy, outcome)
       THEN /\ GoOn(t, pc[t], [o EXCEPT !.window = WindowAfter(@, outcome),
                                        !.busy = BusyAfter(@, outcome)])
            /\ seen' = [seen EXCEPT ![t] = Observe(t, outcome)]
       ELSE Abandon(t)

\* Fault: the packets written before the sector failed are not written again.
BurstStart_ContinuesSector(t) ==
  /\ pc[t] = "start"
  /\ GoOn(t, "packet", [op[t] EXCEPT !.counter = 0])
  /\ seen' = [seen EXCEPT ![t] =
                [Observe(t, "ok") EXCEPT !.missing = @ \cup Packets("flash", op[t].sector)]]

\* A burst has started; writeDataImpl is called with the whole sector.
BurstStart(t) ==
  /\ pc[t] = "start"
  /\ GoOn(t, "packet", [op[t] EXCEPT !.counter = 0, !.sent = 0])
  /\ seen' = [seen EXCEPT ![t] =
                [Observe(t, "ok") EXCEPT !.missing = @ \cup Packets("flash", op[t].sector)]]

\* A burst has ended; the next sector follows.
BurstEnd(t) ==
  /\ pc[t] = "end"
  /\ IF LastSector(t)
     THEN Return(t, "ok") /\ seen' = [seen EXCEPT ![t] = Record(@.missing)]
     ELSE /\ GoOn(t, "start", [op[t] EXCEPT !.sector = @ + 1, !.sent = 0, !.counter = 1])
          /\ seen' = [seen EXCEPT ![t] = Observe(t, "ok")]

----------------------------------------------------------------------------
(* The loop over the packets in readDataImpl and writeDataImpl *)

PacketOk(t) ==
  /\ pc[t] = "packet"
  /\ LET o == [op[t] EXCEPT !.sent = @ + 1, !.window = Shift(@, FALSE)]
         missing == seen[t].missing \ {<<o.sector, o.sent>>}
     IN \/ /\ o.sent < Size(t) \/ IsFlash(t)
           /\ GoOn(t, IF o.sent < Size(t) THEN "packet" ELSE "end", o)
           /\ seen' = [seen EXCEPT ![t] = [Observe(t, "ok") EXCEPT !.missing = missing]]
        \/ /\ o.sent = Size(t) /\ ~IsFlash(t)
           /\ Return(t, "ok") /\ seen' = [seen EXCEPT ![t] = Record(missing)]
        \/ op[t].kind = "read" /\ Abandon(t)    \* advanceByIsCancelled

\* A read, and a write to other memory, returns the error; the sector loop of a flash write
\* tests its counter and tries the sector again.
PacketFails(t, outcome) ==
  /\ pc[t] = "packet" /\ outcome # "ok"
  /\ LET w == Shift(op[t].window, FALSE)
         o == [op[t] EXCEPT !.window = WindowAfter(w, outcome), !.busy = BusyAfter(@, outcome)]
         again == Recoverable(w, op[t].busy, outcome)
     IN IF again \/ (IsFlash(t) /\ o.counter < MaxErrors)
        THEN /\ IF again THEN GoOn(t, "packet", o)
                ELSE GoOn(t, "start", [o EXCEPT !.counter = @ + 1])
             /\ seen' = [seen EXCEPT ![t] = Observe(t, outcome)]
        ELSE Abandon(t)

----------------------------------------------------------------------------

Init ==
  /\ pc = [t \in Threads |-> "idle"] /\ op = [t \in Threads |-> NoOperation]
  /\ result = [t \in Threads |-> "none"] /\ seen = [t \in Threads |-> NoRecord]
  /\ readers = {} /\ writer = Nobody

Send(t) ==
  \/ BurstStart(t) \/ BurstEnd(t) \/ PacketOk(t)
  \/ \E outcome \in Outcomes : BurstPacketFails(t, outcome) \/ PacketFails(t, outcome)

Next ==
  \E t \in Threads :
    \/ \E k \in Kinds : Begin(t, k)
    \/ Lock(t)
    \/ Send(t)

Spec == Init /\ [][Next]_vars

\* Each packet gets its outcome, if only at its timeout.
FairSpec == Spec /\ \A t \in Threads : WF_vars(Send(t))

----------------------------------------------------------------------------
(* Properties *)

\* The types of the variables; the mutex is held by exactly the operations under way.
TypeOK ==
  /\ pc \in [Threads -> Sending \cup {"idle", "locking"}]
  /\ \A t \in Threads :
       /\ op[t].kind \in Kinds /\ op[t].sector \in DOMAIN Sectors[op[t].kind]
       /\ op[t].sent \in 0..Size(t) /\ op[t].window \in [1..WindowSize -> BOOLEAN]
       /\ op[t].busy \in 0..BusyLimit /\ op[t].counter \in 0..MaxErrors
  /\ result \in [Threads -> {"none", "ok", "error"}]
  /\ readers = {t \in Threads : pc[t] \in Sending /\ ~IsFlash(t)}
  /\ {writer} \ {Nobody} = {t \in Threads : pc[t] \in Sending /\ IsFlash(t)}

\* While a flash write sends packets nobody else does: no packet gets into its bursts.
BurstIsExclusive ==
  \A t, u \in Threads :
    t # u /\ {pc[t], pc[u]} \subseteq Sending => ~IsFlash(t) /\ ~IsFlash(u)

\* An operation returns ok only if the device has acknowledged every packet, for flash memory
\* within the last burst of the packet's sector, however often sectors were tried again.
OkMeansWritten == \A t \in Threads : result[t] = "ok" => seen[t].missing = {}

\* A read or write of other memory goes on only while at most MaxErrors of its last
\* WindowSize packets have failed.
ErrorsLimited ==
  \A t \in Threads :
    pc[t] = "packet" /\ ~IsFlash(t) => Errors(seen[t].recent) <= MaxErrors

\* A read or write of other memory that has the mutex ends, whatever the device does:
\* the window and the busy time leave no way to try for ever.
ReadsAndWritesEnd ==
  \A t \in Threads : pc[t] = "packet" /\ ~IsFlash(t) ~> pc[t] = "idle"

\* "Too many errors! {} errors in last {} packets" (deviceinterfacewtc640.cpp:285), of every
\* operation.  The code does not keep it for the packets that start and end a burst.
FlashErrorsLimited ==
  \A t \in Threads : pc[t] \in Sending => Errors(seen[t].recent) <= MaxErrors

=============================================================================
