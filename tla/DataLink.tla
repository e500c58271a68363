------------------------------ MODULE DataLink ------------------------------
(***************************************************************************)
(* The data link below the protocol (IDataLinkInterface): a serial port    *)
(* driven by Boost.Asio (asiodatalinkwithbaudrateandstreamsource.cpp,      *)
(* datalinkuart.cpp) or eBUS (datalinkebus.cpp), with its image stream.    *)
(*                                                                         *)
(* Bytes are numbered in the order in which they come in.  An asynchronous *)
(* operation of the serial port is composed of reads of what is there; its *)
(* handlers and those of two timers run in the thread of the call, in the  *)
(* order in which they become ready: a timer cancels what is waiting for   *)
(* bytes, and has no effect between two of the composing reads.            *)
(***************************************************************************)
EXTENDS Naturals, Sequences, VideoStream

CONSTANTS
    Sizes,     \* the sizes of the buffers that are read into
    Block,     \* the size of the buffer that is used to drop (256)
    MaxBytes,  \* bound: bytes that come in
    MaxCalls,  \* bound: calls
    MaxFaults  \* bound: errors and hanging of the driver

ASSUME DataLinkAssumption ==
    /\ Sizes \subseteq Nat \ {0} /\ Block \in Nat \ {0}
    /\ MaxBytes \in Nat /\ MaxCalls \in Nat /\ MaxFaults \in Nat

VARIABLES
    kind,     \* "uart" or "ebus"
    port,     \* "none", "open", "closed" by the close timer or the vendor library,
              \* "gone" after closeConnection
    hung,     \* the driver does not obey a cancellation
    lost,     \* m_connectionLost
    arrived,  \* bytes that have come in
    taken,    \* bytes taken from the driver
    call,     \* the call: name, buffer size, what it has, expiry of its timeout, whether
              \* the port was open when it began
    io,       \* the asynchronous operation
    result,   \* what the last call returned
    dropped,  \* bytes that had come in when the last drop began
    calls, faults \* bounds

driverVars == <<port, hung, lost, faults>>
lineVars   == <<arrived, taken>>
callVars   == <<call, io, result, dropped, calls>>
vars == <<kind, driverVars, lineVars, callVars, streamVars>>

\* A call that is over, and an operation that is not under way.
NoCall == [name |-> "none", size |-> 0, has |-> <<>>, expired |-> FALSE, opened |-> FALSE]
NoIo   == [at |-> "none", has |-> <<>>, timer |-> FALSE, error |-> "none"]

\* Calls and the stream share nothing but the close of the link: a behaviour
\* explores the ones or the other, and has the others used up.
LinkInit ==
    /\ kind \in {"uart", "ebus"} /\ port = "none"
    /\ hung = FALSE /\ lost = FALSE /\ faults = 0
    /\ arrived = 0 /\ taken = 0 /\ dropped = 0
    /\ call = NoCall /\ io = NoIo
    /\ result = [name |-> "none", status |-> "none", has |-> <<>>, after |-> 0]
    /\ StreamInit
    /\ \/ calls = 0 /\ starts = MaxStarts
       \/ calls = MaxCalls /\ starts = 0

Min2(a, b) == IF a < b THEN a ELSE b
Numbered(first, count) == [ i \in 1..count |-> first + i ]

Idle == call = NoCall
Fault == faults < MaxFaults /\ faults' = faults + 1

-----------------------------------------------------------------------------
(* Opening and closing.                                                    *)

\* createConnection: when the port cannot be opened or an option cannot be set,
\* there is no connection.
CreateUartConnection ==
    /\ kind = "uart" /\ port = "none"
    /\ port' = "open"
    /\ UNCHANGED <<kind, hung, lost, faults, lineVars, callVars, streamVars>>

CreateEbusConnection ==
    /\ kind = "ebus" /\ port = "none"
    /\ port' = "open"
    /\ UNCHANGED <<kind, hung, lost, faults, lineVars, callVars, streamVars>>

\* closeConnectionImpl, also of the destructor: the stream is stopped first.
CloseUart ==
    /\ kind = "uart" /\ Idle /\ port \in {"open", "closed"}
    /\ port' = "gone"
    /\ StopUartStream
    /\ UNCHANGED <<kind, hung, lost, faults, lineVars, callVars>>

CloseEbus ==
    /\ kind = "ebus" /\ Idle /\ port \in {"open", "closed"}
    /\ port' = "gone"
    /\ StopEbusStream(port = "open")
    /\ UNCHANGED <<kind, hung, lost, faults, lineVars, callVars>>

-----------------------------------------------------------------------------
(* Calls begin and end.                                                    *)

Begin(name, size) ==
    /\ Idle /\ port \in {"open", "closed"} /\ calls < MaxCalls
    /\ calls' = calls + 1
    /\ call' = [NoCall EXCEPT !.name = name, !.size = size, !.opened = (port = "open")]
    /\ UNCHANGED <<kind, driverVars, lineVars, io, result, streamVars>>

Read  == \E s \in Sizes : Begin("read", s) /\ UNCHANGED dropped
Write == \E s \in Sizes : Begin("write", s) /\ UNCHANGED dropped
DropPendingData == Begin("drop", Block) /\ dropped' = arrived

Finish(status) ==
    /\ call' = NoCall /\ io' = NoIo
    /\ result' = [name |-> call.name, status |-> status, has |-> call.has, after |-> dropped]

\* The time of a read or write is over.
Expire ==
    /\ call.name \in {"read", "write"} /\ ~call.expired
    /\ call' = [call EXCEPT !.expired = TRUE]
    /\ UNCHANGED <<kind, driverVars, lineVars, io, result, dropped, calls, streamVars>>

TimedOutStatus == IF call.has = <<>> THEN "noResponse" ELSE "failed"

-----------------------------------------------------------------------------
(* The serial port: read, write and dropPendingData over doAsync.          *)

InUart == kind = "uart" /\ ~Idle

Rest(has) == call.size - Len(call.has) - Len(has)
Available(has) == Min2(Rest(has), IF call.name = "write" THEN Rest(has) ELSE arrived - taken)

\* One of the reads (or writes) that compose the operation: what is there is
\* taken at once and the handler posted, or the operation waits.
Attempt(async) ==
    LET n == IF hung THEN 0 ELSE Available(async.has) IN
    /\ io' = [async EXCEPT !.at = IF n > 0 THEN "posted" ELSE "waits", !.has = @ \o Numbered(taken, n)]
    /\ taken' = IF call.name = "write" THEN taken ELSE taken + n

\* Before each asynchronous operation; isOpened is tested once, when the call begins.
UartLoop ==
    /\ InUart /\ io = NoIo
    /\ IF call.name # "drop" /\ ~call.opened THEN Finish("noConnection") /\ UNCHANGED taken
       ELSE IF call.name # "drop" /\ Len(call.has) = call.size THEN Finish("ok") /\ UNCHANGED taken
       ELSE IF call.expired THEN Finish(TimedOutStatus) /\ UNCHANGED taken
       ELSE IF port = "open" THEN Attempt(NoIo) /\ UNCHANGED <<call, result>>
       ELSE io' = [NoIo EXCEPT !.at = "done", !.error = "failed"] /\ UNCHANGED <<call, result, taken>>
    /\ UNCHANGED <<kind, driverVars, arrived, dropped, calls, streamVars>>

\* Bytes have come in while the operation waits.
Transfer ==
    /\ InUart /\ io.at = "waits" /\ port = "open" /\ ~hung
    /\ Available(io.has) > 0
    /\ Attempt(io)
    /\ UNCHANGED <<kind, driverVars, arrived, call, result, dropped, calls, streamVars>>

\* The handler of a composing read runs: the operation is complete or goes on.
Continue ==
    /\ InUart /\ io.at = "posted"
    /\ IF Rest(io.has) > 0 /\ port = "open" THEN Attempt(io)
       ELSE /\ io' = [io EXCEPT !.at = "done", !.error = IF Rest(io.has) > 0 THEN "failed" ELSE "none"]
            /\ UNCHANGED taken
    /\ UNCHANGED <<kind, driverVars, arrived, call, result, dropped, calls, streamVars>>

\* The driver reports an error, which may be one that the connection is lost by.
DriverFails ==
    /\ InUart /\ io.at = "waits" /\ port = "open" /\ Fault
    /\ \E e \in {"failed", "lost"} : io' = [io EXCEPT !.at = "done", !.error = e]
    /\ UNCHANGED <<kind, port, hung, lost, lineVars, call, result, dropped, calls, streamVars>>

\* The timer cancels what waits; the operation is aborted and tells nothing of
\* what it has got.
TimerFires ==
    /\ InUart /\ io.at \in {"waits", "posted"} /\ ~io.timer
    /\ io' = IF io.at = "waits" /\ ~hung
             THEN [io EXCEPT !.at = "done", !.timer = TRUE, !.has = <<>>]
             ELSE [io EXCEPT !.timer = TRUE]
    /\ UNCHANGED <<kind, driverVars, lineVars, call, result, dropped, calls, streamVars>>

\* Fault: the close timer is stopped by the other timer.
CloseTimerFires_Stopped ==
    /\ InUart /\ io.at = "waits" /\ ~io.timer
    /\ port' = "closed"
    /\ io' = [io EXCEPT !.at = "done", !.has = <<>>]
    /\ UNCHANGED <<kind, hung, lost, faults, lineVars, call, result, dropped, calls, streamVars>>

\* Much later the second timer closes the port.
CloseTimerFires ==
    /\ InUart /\ io.at = "waits" /\ io.timer
    /\ port' = "closed"
    /\ io' = [io EXCEPT !.at = "done", !.has = <<>>]
    /\ UNCHANGED <<kind, hung, lost, faults, lineVars, call, result, dropped, calls, streamVars>>

\* restOfBuffer shrinks by what was transferred.
TakeOver == call' = [call EXCEPT !.has = @ \o io.has]

\* Fault: one block is enough.
EndDrop_OneBlock == Finish("ok")

\* dropPendingData goes on until nothing is transferred.
EndDrop == IF io.has = <<>> THEN Finish("ok") ELSE io' = NoIo /\ UNCHANGED <<call, result>>

\* doAsync returns.
AsyncReturns ==
    /\ InUart /\ io.at = "done"
    /\ lost' = (lost \/ (call.name # "drop" /\ io.error = "lost"))
    /\ IF call.name = "drop" THEN EndDrop
       ELSE IF io.error # "none" THEN Finish(IF lost' THEN "noConnection" ELSE "failed")
       ELSE io' = NoIo /\ TakeOver /\ UNCHANGED result
    /\ UNCHANGED <<kind, port, hung, faults, lineVars, dropped, calls, streamVars>>

-----------------------------------------------------------------------------
(* eBUS: the vendor library reads what is there.                           *)

InEbus == kind = "ebus" /\ ~Idle

\* The errors of this link carry no ResultDeviceInfo: it is given to the
\* formatting of the text.
EbusFails ==
    /\ InEbus /\ call.name # "drop"
    /\ \/ port # "open" /\ UNCHANGED faults
       \/ port = "open" /\ Fault
    /\ Finish("unclassified")
    /\ UNCHANGED <<kind, port, hung, lost, lineVars, dropped, calls, streamVars>>

EbusRead ==
    /\ InEbus /\ call.name = "read" /\ port = "open" /\ Len(call.has) < call.size
    /\ IF call.expired THEN Finish(TimedOutStatus) /\ UNCHANGED taken
       ELSE /\ arrived > taken
            /\ LET n == Available(<<>>) IN
                  /\ call' = [call EXCEPT !.has = @ \o Numbered(taken, n)]
                  /\ taken' = taken + n
            /\ UNCHANGED <<io, result>>
    /\ UNCHANGED <<kind, driverVars, arrived, dropped, calls, streamVars>>

\* Fault: a read is over with the first bytes it gets.
EbusReturns_Short ==
    /\ InEbus
    /\ \/ call.name = "read" /\ call.has # <<>> /\ UNCHANGED taken
       \/ call.name = "write" /\ port = "open" /\ UNCHANGED taken
       \/ call.name = "drop" /\ taken' = arrived
    /\ Finish("ok")
    /\ UNCHANGED <<kind, driverVars, arrived, dropped, calls, streamVars>>

EbusReturns ==
    /\ InEbus
    /\ \/ call.name = "read" /\ Len(call.has) = call.size /\ UNCHANGED taken
       \/ call.name = "write" /\ port = "open" /\ UNCHANGED taken
       \/ call.name = "drop" /\ taken' = arrived          \* FlushRxBuffer
    /\ Finish("ok")
    /\ UNCHANGED <<kind, driverVars, arrived, dropped, calls, streamVars>>

\* OnLinkDisconnected of the event sink, at any time.
EbusDisconnected ==
    /\ kind = "ebus" /\ port = "open" /\ Fault
    /\ port' = "closed" /\ lost' = TRUE
    /\ UNCHANGED <<kind, hung, lineVars, callVars, streamVars>>

-----------------------------------------------------------------------------
(* The line, and the threads of the stream.                                *)

Arrive ==
    /\ port = "open" /\ arrived < MaxBytes
    /\ arrived' = arrived + 1
    /\ UNCHANGED <<kind, driverVars, taken, callVars, streamVars>>

DriverHangs ==
    /\ kind = "uart" /\ ~hung /\ Fault
    /\ hung' = TRUE
    /\ UNCHANGED <<kind, port, lost, lineVars, callVars, streamVars>>

StreamStep ==
    /\ port # "none" /\ calls = MaxCalls /\ Idle
    /\ \/ kind = "uart" /\ (StartUartStream \/ StopUartStream \/ ReadBegins \/ ReadChooses \/ ReadUartFrame)
       \/ kind = "ebus" /\ (StartEbusStream \/ StopEbusStream(port = "open") \/ ReadEbusFrame)
       \/ kind = "ebus" /\ IsRunning /\ ReadBegins
    /\ UNCHANGED <<kind, driverVars, lineVars, callVars>>

CallStep ==
    \/ UartLoop \/ Transfer \/ Continue \/ DriverFails \/ TimerFires \/ CloseTimerFires \/ AsyncReturns
    \/ EbusFails \/ EbusRead \/ EbusReturns

Next ==
    \/ CreateUartConnection \/ CreateEbusConnection \/ CloseUart \/ CloseEbus
    \/ Read \/ Write \/ DropPendingData \/ Expire
    \/ CallStep
    \/ Arrive \/ DriverHangs \/ EbusDisconnected
    \/ StreamStep

\* Time passes, and the thread of the call runs the handlers that are ready.
Fairness == WF_vars(Expire) /\ WF_vars(CallStep)

Spec == LinkInit /\ [][Next]_vars /\ Fairness

-----------------------------------------------------------------------------
(* Properties.                                                             *)

\* A read that returns ok gives bytes that came in one after the other, none of
\* them from before the last dropPendingData: whatever timed out, was aborted
\* or was left over before, an answer is never put together from two pieces
\* with a hole between them.
FreshBytes ==
    result.name = "read" /\ result.status = "ok" =>
        /\ \A i \in 1..(Len(result.has) - 1) : result.has[i + 1] = result.has[i] + 1
        /\ result.has[1] > result.after

Reads == call.name = "read"

\* The bytes taken before the read under way; what the last call has given to the protocol.
Gone  == IF Reads THEN taken - Len(call.has) - Len(io.has) ELSE taken
Given == IF result.name = "read" /\ result.status = "ok" THEN result.has ELSE <<>>

Stream == INSTANCE ByteStream WITH
    gone  <- Gone, asked <- IF Reads THEN call.size ELSE 0,
    given <- Given, dropping <- call.name = "drop", floor <- dropped

\* The reads that compose an operation, the operations that compose a call, the timers
\* and the errors add up to what ByteStream promises: a read that returns ok has filled
\* its buffer with the next bytes in order, none of which was or will be given to
\* another read, and a byte is lost only in a drop or a read.
ImplementsByteStream == Stream!Spec

\* Every call ends, even over a driver that does not obey a cancellation.
CallsEnd == (call.name # "none") ~> (call.name = "none")

\* An image that is returned ok by a serial port's stream was read from a stream that
\* runs, and its data are of the type it is labelled with, whoever stops the stream or starts it
\* again while it is read.  There is one exception, which the code has: the label is noted outside
\* the mutex (datalinkuart.cpp:198), so that startStream of another type within the
\* read gives an image whose label and data disagree.
FrameHasItsType ==
    kind = "uart" /\ image.result = "ok" =>
        image.data # "none" /\ (image.data = image.type \/ image.disturbed)
=============================================================================
