---------------------------- MODULE ProtocolTCSI ----------------------------
(***************************************************************************)
(* One operation at a time of the TCSI protocol                            *)
(* (core/connection/protocolinterfacetcsi.cpp, tcsipacket.cpp) over a link *)
(* that may lose, damage and delay what the device answers.                *)
(*                                                                         *)
(* An answer is a header and, for a read, the rest of the packet.  Header  *)
(* and rest travel separately, as the two reads of receiveResponsePacket   *)
(* fetch them.  Both carry the number of the request they answer, which    *)
(* only the model knows: the code sees the packet id, the number modulo    *)
(* PacketIds, and the address.  The checksum tells a rest that belongs to  *)
(* its header from any other bytes.                                        *)
(***************************************************************************)
EXTENDS Naturals, Sequences, SequencesExt

CONSTANTS
  Addresses,
  PacketIds,            \* 16: PACKET_ID_MASK has four bits
  MaxStraightNoResponses, \* MAX_STRAIGHT_NO_RESPONSES_COUNT
  MaxLate,              \* bound: how many requests later an answer may still arrive
  MaxRequests           \* bound on the number of requests

ASSUME ProtocolAssumption ==
  /\ PacketIds \in Nat \ {0} /\ MaxStraightNoResponses \in Nat
  /\ MaxLate \in Nat /\ MaxRequests \in Nat

Commands == {"READ", "WRITE"}
NoRequest == [number |-> 0]

VARIABLES
  pc,          \* idle, waiting for a header, waiting for the rest, dropping pending data
  request,     \* the request whose answer is awaited
  header,      \* the header received, while the rest is awaited
  number,      \* requests made so far; m_lastPacketId is this modulo PacketIds
  device,      \* fragments the device has still to send, in order
  pending,     \* fragments the data link has received and nobody has read
  noResponses, \* m_straightNoResponsesCount
  connectionLost, \* m_connectionLost
  outcome,     \* history: of the last operation, and the request its answer was for
  silent,      \* history: operations since this link last delivered a header
  calm,        \* from some moment on the link and the device are in order
  failures     \* history: operations failed since then

hostVars == <<pc, request, header, number, noResponses, connectionLost>>
linkVars == <<device, pending>>
history  == <<outcome, silent, failures>>
vars == <<hostVars, linkVars, history, calm>>

PacketId(n) == n % PacketIds

Header(r) == [part |-> "header", number |-> r.number, address |-> r.address,
              more |-> r.command = "READ", ok |-> TRUE]
\* createErrorResponse: a status other than OK, no payload.
Refusal(r) == [Header(r) EXCEPT !.more = FALSE, !.ok = FALSE]
Rest(r)   == [part |-> "rest", number |-> r.number]
Noise     == [part |-> "noise", number |-> 0]

Answer(r) == IF r.command = "READ" THEN <<Header(r), Rest(r)>> ELSE <<Header(r)>>

\* A bound on the link, not on the code: when the next request is made, what is left of
\* earlier answers is at most MaxLate requests old.
LateBound ==
  \A f \in Range(device \o pending) : f.number = 0 \/ f.number + MaxLate > number

----------------------------------------------------------------------------
(* The ends of an operation *)

\* An operation ends with the answer to request n, or with 0 for an error.
Return(n) ==
  /\ pc' = "idle" /\ request' = NoRequest /\ header' = NoRequest
  /\ outcome' = [request |-> request.number, answer |-> n]
  /\ failures' = IF n = 0 /\ calm THEN failures + 1 ELSE failures

StartDropping ==
  /\ pc' = "dropping" /\ header' = NoRequest
  /\ UNCHANGED <<request, outcome, failures>>

Await(label, h) ==
  /\ pc' = label /\ header' = h
  /\ UNCHANGED <<request, outcome, failures>>

----------------------------------------------------------------------------
(* readDataImpl, writeDataImpl *)

\* The request is written; the device answers it or, out of order, refuses it or is silent.
SendRequest(command, address) ==
  LET r == [number |-> number + 1, command |-> command, address |-> address]
  IN  /\ pc = "idle" /\ number < MaxRequests /\ LateBound
      /\ number' = number + 1
      /\ request' = r
      /\ pc' = "header" /\ header' = NoRequest
      /\ \/ device' = device \o Answer(r)
         \/ ~calm /\ device' \in {device, Append(device, Refusal(r))}
      /\ UNCHANGED <<pending, noResponses, connectionLost, history, calm>>

\* IDataLinkInterface::write fails: the error is returned, nothing is dropped.
SendFails ==
  /\ pc = "idle" /\ number < MaxRequests /\ LateBound /\ ~calm
  /\ number' = number + 1
  /\ outcome' = [request |-> number + 1, answer |-> 0]
  /\ silent' = silent + 1
  /\ UNCHANGED <<pc, request, header, noResponses, connectionLost, linkVars,
                 failures, calm>>

\* Fault: any answer for the address is taken.
CheckResponse_AnyId(h) ==
  IF h.address # request.address THEN StartDropping ELSE Return(h.number)

\* receiveResponse on a whole packet: another address is an error, another packet id is
\* skipped, a matching packet ends the operation, with an error if its status or size is
\* not what was asked for.
CheckResponse(h) ==
  IF h.address # request.address THEN StartDropping
  ELSE IF PacketId(h.number) # PacketId(request.number) THEN Await("header", NoRequest)
  ELSE Return(IF h.ok /\ h.more = (request.command = "READ") THEN h.number ELSE 0)

\* receiveResponsePacket, first read: what is no header fails getExpectedDataSize.
ReadHeader ==
  /\ pc = "header" /\ pending # <<>>
  /\ LET h == Head(pending)
     IN  /\ pending' = Tail(pending)
         /\ IF h.part # "header" THEN StartDropping
            ELSE IF h.more THEN Await("rest", h) ELSE CheckResponse(h)
  /\ noResponses' = 0 /\ silent' = 0
  /\ UNCHANGED <<number, connectionLost, device, calm>>

\* Second read, and the checksum over both parts.
ReadRest ==
  /\ pc = "rest" /\ pending # <<>>
  /\ LET r == Head(pending)
     IN  /\ pending' = Tail(pending)
         /\ IF r = [part |-> "rest", number |-> header.number]
            THEN CheckResponse(header) ELSE StartDropping
  /\ UNCHANGED <<number, noResponses, connectionLost, device, silent, calm>>

\* A read times out.  In order, what was asked for arrives before that.
TimedOut == pending = <<>> /\ (calm => device = <<>>)

HeaderTimesOut ==
  /\ pc = "header" /\ TimedOut
  /\ noResponses' = noResponses + 1
  /\ connectionLost' = (connectionLost \/ noResponses' > MaxStraightNoResponses)
  /\ silent' = silent + 1
  /\ StartDropping
  /\ UNCHANGED <<number, linkVars, calm>>

\* The data link reports a failure that is not NO_RESPONSE, with part of the data read.
ReadFails ==
  /\ pc \in {"header", "rest"} /\ ~calm
  /\ pending' = IF pending = <<>> THEN <<>> ELSE Tail(pending)
  /\ silent' = IF pc = "header" THEN silent + 1 ELSE silent
  /\ StartDropping
  /\ UNCHANGED <<number, noResponses, connectionLost, device, calm>>

\* Fault: the rest of the packet is waited for again.
RestTimesOut_WaitsAgain ==
  /\ pc = "rest" /\ TimedOut
  /\ UNCHANGED vars

RestTimesOut ==
  /\ pc = "rest" /\ TimedOut
  /\ StartDropping
  /\ UNCHANGED <<number, noResponses, connectionLost, linkVars, silent, calm>>

\* Fault: the pending data is dropped at once.
DropPendingData_AtOnce ==
  /\ pc = "dropping"
  /\ pending' = <<>>
  /\ Return(0)
  /\ UNCHANGED <<number, noResponses, connectionLost, device, silent, calm>>

\* dropPendingData: the rest of the timeout is slept first, so that in order the answer
\* has arrived.
DropPendingData ==
  /\ pc = "dropping" /\ (calm => device = <<>>)
  /\ pending' = <<>>
  /\ Return(0)
  /\ UNCHANGED <<number, noResponses, connectionLost, device, silent, calm>>

\* Fault: a new link inherits the count of the old one.
SetDataLinkInterface_KeepsCount ==
  /\ pc = "idle" /\ ~calm
  /\ connectionLost' = FALSE /\ silent' = 0
  /\ device' = <<>> /\ pending' = <<>>
  /\ UNCHANGED <<pc, request, header, number, noResponses, outcome, failures, calm>>

\* setDataLinkInterface: a new link, with nothing on it.
SetDataLinkInterface ==
  /\ pc = "idle" /\ ~calm
  /\ noResponses' = 0 /\ connectionLost' = FALSE /\ silent' = 0
  /\ device' = <<>> /\ pending' = <<>>
  /\ UNCHANGED <<pc, request, header, number, outcome, failures, calm>>

----------------------------------------------------------------------------
(* The link and the device *)

Arrive ==
  /\ device # <<>>
  /\ device' = Tail(device)
  /\ \/ pending' = Append(pending, Head(device))
     \/ ~calm /\ pending' \in {pending, Append(pending, Noise)}
  /\ UNCHANGED <<hostVars, history, calm>>

\* From now on nothing is lost, damaged or late; what was on its way still is.
BecomeCalm ==
  /\ ~calm /\ pc = "idle"
  /\ calm' = TRUE
  /\ UNCHANGED <<hostVars, linkVars, history>>

----------------------------------------------------------------------------

Init ==
  /\ pc = "idle" /\ request = NoRequest /\ header = NoRequest /\ number = 0
  /\ device = <<>> /\ pending = <<>>
  /\ noResponses = 0 /\ connectionLost = FALSE
  /\ outcome = [request |-> 0, answer |-> 0] /\ silent = 0
  /\ calm = FALSE /\ failures = 0

Receive ==
  \/ ReadHeader \/ ReadRest \/ HeaderTimesOut \/ RestTimesOut \/ DropPendingData

Next ==
  \/ \E command \in Commands, address \in Addresses : SendRequest(command, address)
  \/ SendFails \/ SetDataLinkInterface
  \/ Receive \/ ReadFails
  \/ Arrive \/ BecomeCalm

Spec == Init /\ [][Next]_vars

\* A read returns, with data or at its timeout, and so does an operation; a link that
\* has something to deliver delivers it.
FairSpec == Spec /\ WF_vars(Receive) /\ WF_vars(Arrive)

----------------------------------------------------------------------------
(* Properties *)

\* An operation that succeeds returns the answer to its own request, however many older
\* answers, halves of answers and noise were on the link.
OwnAnswer == outcome.answer \in {0, outcome.request}

\* The connection is declared lost only after more than MaxStraightNoResponses operations
\* in a row that heard nothing on this link: answers and a new link start the count anew.
LostOnlyAfterSilence ==
  [][connectionLost' /\ ~connectionLost => silent' > MaxStraightNoResponses]_vars

\* Once the link and the device are in order, at most one more operation fails, whatever
\* was left on the link: the drop after an error leaves nothing to trip over.
RecoversAtOnce == failures <= 1

\* Every operation ends, also on a dead link: no read waits longer than its timeout.
OperationsEnd == pc # "idle" ~> pc = "idle"

=============================================================================
