------------------------ MODULE ProtocolTCSIProofs ------------------------
(***************************************************************************)
(* Proofs about ProtocolTCSI, for any addresses, any number of packet ids  *)
(* and requests, and any faults of the link.  The last section measures    *)
(* what an operation has left.                                             *)
(***************************************************************************)
EXTENDS ProtocolTCSI, SequenceTheorems, TLAPS

Headers   == [part : {"header"}, number : Nat \ {0}, address : Addresses,
              more : BOOLEAN, ok : BOOLEAN]
Rests     == [part : {"rest"}, number : Nat \ {0}]
Fragments == Headers \cup Rests \cup {Noise}
Requests  == [number : Nat \ {0}, command : Commands, address : Addresses]

Types ==
  /\ pc \in {"idle", "header", "rest", "dropping"}
  /\ number \in Nat /\ noResponses \in Nat /\ silent \in Nat /\ failures \in Nat
  /\ connectionLost \in BOOLEAN /\ calm \in BOOLEAN
  /\ device \in Seq(Fragments) /\ pending \in Seq(Fragments)
  /\ pc = "idle" => request = NoRequest
  /\ pc # "idle" => request \in Requests /\ request.number = number
  /\ pc = "rest" => header \in Headers

\* What the link still holds, and the header of which the rest is awaited.
OnLink == Range(device) \cup Range(pending)
Known  == OnLink \cup (IF pc = "rest" THEN {header} ELSE {})

\* Nothing is from the future, and while an operation is under way nothing is older than
\* the link may make it.
Recent ==
  \A f \in Known \ {Noise} :
    /\ f.number <= number
    /\ pc # "idle" => f.number + MaxLate >= number

\* While an answer is awaited in order, what answers this request is what the device sent:
\* not a refusal.
Accepted ==
  calm /\ pc # "idle" =>
    \A f \in Known : f.number = number => f \in {Header(request), Rest(request)}

\* After the one failure nothing is on the link but the answer to the current request.
Clean ==
  failures # 0 =>
    /\ failures = 1 /\ calm /\ pc # "dropping"
    /\ pc = "idle" => pending \o device = <<>>
    /\ pc = "header" => pending \o device = Answer(request)
    /\ pc = "rest" =>
         /\ request.command = "READ" /\ header = Header(request)
         /\ pending \o device = <<Rest(request)>>

\* The count of timeouts is no larger than the number of operations without an answer.
Counted == noResponses <= silent

IInv == Types /\ Recent /\ Accepted /\ Clean /\ Counted /\ OwnAnswer

-----------------------------------------------------------------------------
(* Numbers and sequences *)

\* Two numbers that are closer than the packet ids are many and have the same packet id
\* are the same.
LEMMA SameId ==
  ASSUME NEW a \in Nat, NEW b \in Nat, a <= b, b - a < PacketIds, PacketId(a) = PacketId(b)
  PROVE  a = b
<1> DEFINE q == (b \div PacketIds) - (a \div PacketIds)
<1>1. PacketIds \in Nat \ {0}
  BY ProtocolAssumption
<1>2. /\ a = PacketIds * (a \div PacketIds) + (a % PacketIds)
      /\ b = PacketIds * (b \div PacketIds) + (b % PacketIds)
  BY <1>1
<1>3. q \in Int
  BY <1>1
<1>4. b - a = PacketIds * q
  BY <1>1, <1>2 DEF PacketId
<1>5. q = 0
  BY <1>1, <1>3, <1>4
<1>6. b - a = PacketIds * 0
  BY <1>4, <1>5
<1> QED BY <1>1, <1>6

LEMMA RangeOfAppend ==
  ASSUME NEW S, NEW s \in Seq(S), NEW e \in S
  PROVE  /\ Append(s, e) \in Seq(S)
         /\ Range(Append(s, e)) = Range(s) \cup {e}
<1>1. /\ Append(s, e) \in Seq(S) /\ Len(Append(s, e)) = Len(s) + 1 /\ Len(s) \in Nat
      /\ Append(s, e)[Len(s) + 1] = e
      /\ \A i \in 1..Len(s) : Append(s, e)[i] = s[i]
  OBVIOUS
<1>2. DOMAIN s = 1..Len(s) /\ DOMAIN Append(s, e) = 1..(Len(s) + 1)
  BY <1>1
<1>3. ASSUME NEW x \in Range(Append(s, e)) PROVE x \in Range(s) \cup {e}
  <2>1. PICK i \in 1..(Len(s) + 1) : x = Append(s, e)[i]
    BY <1>2, <1>3 DEF Range
  <2>2. i = Len(s) + 1 \/ i \in 1..Len(s)
    BY <1>1
  <2> QED BY <1>1, <1>2, <2>1, <2>2 DEF Range
<1>4. e \in Range(Append(s, e))
  <2>1. Len(s) + 1 \in DOMAIN Append(s, e)
    BY <1>1, <1>2
  <2> QED BY <1>1, <2>1 DEF Range
<1>5. ASSUME NEW x \in Range(s) PROVE x \in Range(Append(s, e))
  <2>1. PICK i \in 1..Len(s) : x = s[i]
    BY <1>2, <1>5 DEF Range
  <2>2. i \in DOMAIN Append(s, e) /\ x = Append(s, e)[i]
    BY <1>1, <1>2, <2>1
  <2> QED BY <2>2 DEF Range
<1> QED BY <1>1, <1>3, <1>4, <1>5

LEMMA RangeOfTail ==
  ASSUME NEW S, NEW s \in Seq(S), s # <<>>
  PROVE  /\ Head(s) \in S /\ Head(s) \in Range(s)
         /\ Tail(s) \in Seq(S) /\ Range(Tail(s)) \subseteq Range(s)
<1>1. Len(s) \in Nat \ {0} /\ Head(s) = s[1]
  OBVIOUS
<1>2. /\ Tail(s) \in Seq(S) /\ Len(Tail(s)) = Len(s) - 1
      /\ \A i \in 1..Len(Tail(s)) : Tail(s)[i] = s[i + 1]
  OBVIOUS
<1>3. Head(s) \in S /\ Head(s) \in Range(s)
  BY <1>1 DEF Range
<1>4. ASSUME NEW i \in DOMAIN Tail(s)
      PROVE  i + 1 \in DOMAIN s /\ Tail(s)[i] = s[i + 1]
  BY <1>1, <1>2
<1>5. Range(Tail(s)) \subseteq Range(s)
  BY <1>4 DEF Range
<1> QED BY <1>2, <1>3, <1>5

LEMMA RangeOfEmpty == Range(<<>>) = {}
BY DEF Range

\* What is handed on from the device to the link keeps its place.
LEMMA HandedOn ==
  ASSUME NEW S, NEW s \in Seq(S), NEW t \in Seq(S), t # <<>>
  PROVE  Append(s, Head(t)) \o Tail(t) = s \o t
OBVIOUS

LEMMA TailOfConcat ==
  ASSUME NEW S, NEW s \in Seq(S), NEW t \in Seq(S), s # <<>>
  PROVE  Tail(s) \o t = Tail(s \o t) /\ Head(s) = Head(s \o t) /\ s \o t # <<>>
OBVIOUS

LEMMA EmptyConcat ==
  ASSUME NEW S, NEW s \in Seq(S), NEW t \in Seq(S)
  PROVE  /\ s = <<>> /\ t = <<>> => s \o t = <<>>
         /\ s \o t = <<>> => s = <<>> /\ t = <<>>
         /\ s = <<>> => s \o t = t
OBVIOUS
-----------------------------------------------------------------------------
(* The invariant *)

LEMMA InitInv == Init => IInv
<1> SUFFICES ASSUME Init PROVE IInv
  OBVIOUS
<1>1. Known = {}
  BY RangeOfEmpty DEF Init, Known, OnLink
<1>2. Types
  <2>1. <<>> \in Seq(Fragments)
    OBVIOUS
  <2> QED BY <2>1 DEF Init, Types
<1>3. Clean /\ Counted /\ OwnAnswer
  BY DEF Init, Clean, Counted, OwnAnswer
<1> QED BY <1>1, <1>2, <1>3 DEF IInv, Recent, Accepted

\* What is known of the fragments on the link.
LEMMA Knowledge ==
  ASSUME Types
  PROVE  /\ Known \subseteq Fragments /\ OnLink \subseteq Known
         /\ \A f \in Known \ {Noise} : f.number \in Nat \ {0}
         /\ Noise.number = 0 /\ Noise \notin Headers \cup Rests
<1>1. Range(device) \subseteq Fragments /\ Range(pending) \subseteq Fragments
  BY RangeOfSeq DEF Types
<1>2. pc = "rest" => header \in Fragments
  BY DEF Types, Fragments
<1>3. Known \subseteq Fragments /\ OnLink \subseteq Known
  BY <1>1, <1>2 DEF Known, OnLink
<1>4. Noise.number = 0 /\ Noise \notin Headers \cup Rests
  BY DEF Noise, Headers, Rests
<1>5. \A f \in Known \ {Noise} : f.number \in Nat \ {0}
  BY <1>3 DEF Fragments, Headers, Rests
<1> QED BY <1>3, <1>4, <1>5

\* Every answer is made of fragments with the number of its request.
LEMMA AnswerFragments ==
  ASSUME NEW r \in Requests
  PROVE  /\ Answer(r) \in Seq(Fragments)
         /\ Range(Answer(r)) \subseteq {Header(r), Rest(r)}
         /\ Refusal(r) \in Fragments /\ Header(r) \in Headers /\ Rest(r) \in Rests
         /\ Refusal(r).number = r.number /\ Header(r).number = r.number
         /\ Rest(r).number = r.number
         /\ Noise \notin {Header(r), Rest(r), Refusal(r)}
<1>1. Header(r) \in Headers /\ Rest(r) \in Rests /\ Refusal(r) \in Headers
  BY DEF Header, Rest, Refusal, Requests, Headers, Rests, Commands
<1>2. Range(Answer(r)) \subseteq {Header(r), Rest(r)}
  BY DEF Answer, Range
<1>3. Answer(r) \in Seq(Fragments)
  <2>1. Header(r) \in Fragments /\ Rest(r) \in Fragments
    BY <1>1 DEF Fragments
  <2>2. <<Header(r)>> \in Seq(Fragments) /\ <<Header(r), Rest(r)>> \in Seq(Fragments)
    BY <2>1
  <2> QED BY <2>2 DEF Answer
<1>4. /\ Refusal(r).number = r.number /\ Header(r).number = r.number
      /\ Rest(r).number = r.number
  BY DEF Header, Rest, Refusal
<1>5. Noise \notin {Header(r), Rest(r), Refusal(r)}
  BY <1>1 DEF Noise, Headers, Rests
<1> QED BY <1>1, <1>2, <1>3, <1>4, <1>5 DEF Fragments

\* Each step keeps the types and counts the silence.
LEMMA TypesStep ==
  ASSUME Types, Counted, [Next]_vars
  PROVE  Types' /\ Counted'
<1> USE DEF Counted
<1>0. /\ number \in Nat /\ noResponses \in Nat /\ silent \in Nat /\ failures \in Nat
      /\ connectionLost \in BOOLEAN /\ calm \in BOOLEAN
      /\ device \in Seq(Fragments) /\ pending \in Seq(Fragments)
  BY DEF Types
<1>1. ASSUME NEW command \in Commands, NEW address \in Addresses, SendRequest(command, address)
      PROVE  Types' /\ Counted'
  <2> DEFINE r == [number |-> number + 1, command |-> command, address |-> address]
  <2>1. r \in Requests /\ r.number = number + 1
    BY <1>0 DEF Requests
  <2>2. device' \in Seq(Fragments)
    <3>1. CASE device' = device \o Answer(r)
      BY <1>0, <2>1, <3>1, AnswerFragments, ConcatProperties
    <3>2. CASE device' \in {device, Append(device, Refusal(r))}
      <4>1. Refusal(r) \in Fragments
        BY <2>1, AnswerFragments
      <4>2. Append(device, Refusal(r)) \in Seq(Fragments)
        BY <1>0, <4>1, AppendProperties
      <4> QED BY <1>0, <3>2, <4>2
    <3> QED BY <1>1, <3>1, <3>2 DEF SendRequest
  <2> QED BY <1>0, <1>1, <2>1, <2>2 DEF SendRequest, Types, history
<1>2. CASE SendFails
  BY <1>0, <1>2 DEF SendFails, Types, linkVars
<1>3. CASE SetDataLinkInterface
  <2>1. <<>> \in Seq(Fragments)
    OBVIOUS
  <2>2. /\ pc = "idle" /\ pc' = pc /\ request' = request /\ number' = number
        /\ calm' = calm /\ noResponses' = 0 /\ silent' = 0 /\ failures' = failures
    BY <1>3 DEF SetDataLinkInterface
  <2>3. connectionLost' \in BOOLEAN
    BY <1>3 DEF SetDataLinkInterface
  <2>4. device' \in Seq(Fragments) /\ pending' \in Seq(Fragments)
    BY <1>3, <2>1 DEF SetDataLinkInterface
  <2> QED BY <1>0, <2>2, <2>3, <2>4 DEF Types
<1>4. ASSUME NEW h \in Headers, CheckResponse(h) PROVE
        /\ pc' \in {"idle", "header", "dropping"} /\ failures' \in Nat
        /\ pc' = "idle" => request' = NoRequest
        /\ pc' # "idle" => request' = request
  BY <1>0, <1>4 DEF CheckResponse, StartDropping, Await, Return
<1>5. ASSUME StartDropping PROVE
        pc' = "dropping" /\ request' = request /\ failures' = failures
  BY <1>5 DEF StartDropping
<1>6. CASE ReadHeader
  <2>1. Head(pending) \in Fragments /\ Tail(pending) \in Seq(Fragments)
    BY <1>0, <1>6, HeadTailProperties DEF ReadHeader
  <2>2. Head(pending).part = "header" => Head(pending) \in Headers
    BY <2>1 DEF Fragments, Rests, Noise
  <2>3. /\ pc = "header" /\ pending' = Tail(pending) /\ noResponses' = 0 /\ silent' = 0
        /\ number' = number /\ connectionLost' = connectionLost /\ device' = device
        /\ calm' = calm
    BY <1>6 DEF ReadHeader
  <2>4. CASE Head(pending).part # "header"
    BY <1>0, <1>5, <1>6, <2>1, <2>3, <2>4 DEF ReadHeader, Types
  <2>5. CASE Head(pending).part = "header" /\ Head(pending).more
    BY <1>0, <1>6, <2>1, <2>2, <2>3, <2>5 DEF ReadHeader, Await, Types
  <2>6. CASE Head(pending).part = "header" /\ ~Head(pending).more
    <3>1. CheckResponse(Head(pending)) /\ Head(pending) \in Headers
      BY <1>6, <2>2, <2>6 DEF ReadHeader
    <3> QED BY <1>0, <1>4, <2>1, <2>3, <3>1 DEF Types
  <2> QED BY <2>4, <2>5, <2>6
<1>7. CASE ReadRest
  <2>1. Tail(pending) \in Seq(Fragments) /\ header \in Headers
    BY <1>0, <1>7, HeadTailProperties DEF ReadRest, Types
  <2>2. /\ pc = "rest" /\ pending' = Tail(pending) /\ noResponses' = noResponses
        /\ silent' = silent /\ number' = number /\ connectionLost' = connectionLost
        /\ device' = device /\ calm' = calm
        /\ CheckResponse(header) \/ StartDropping
    BY <1>7 DEF ReadRest
  <2> QED BY <1>0, <1>4, <1>5, <2>1, <2>2 DEF Types
<1>8. CASE HeaderTimesOut
  BY <1>0, <1>5, <1>8 DEF HeaderTimesOut, Types, linkVars
<1>9. CASE RestTimesOut
  BY <1>0, <1>5, <1>9 DEF RestTimesOut, Types, linkVars
<1>10. CASE DropPendingData
  <2>1. <<>> \in Seq(Fragments)
    OBVIOUS
  <2> QED BY <1>0, <1>10, <2>1 DEF DropPendingData, Return, Types
<1>11. CASE ReadFails
  <2>1. pending' \in Seq(Fragments)
    BY <1>0, <1>11, HeadTailProperties DEF ReadFails
  <2> QED BY <1>0, <1>5, <1>11, <2>1 DEF ReadFails, Types
<1>12. CASE Arrive
  <2>1. Head(device) \in Fragments /\ device' \in Seq(Fragments) /\ Noise \in Fragments
    BY <1>0, <1>12, HeadTailProperties DEF Arrive, Fragments
  <2>2. pending' \in Seq(Fragments)
    <3>1. /\ Append(pending, Head(device)) \in Seq(Fragments)
          /\ Append(pending, Noise) \in Seq(Fragments)
      BY <1>0, <2>1, AppendProperties
    <3> QED BY <1>0, <1>12, <3>1 DEF Arrive
  <2> QED BY <1>0, <1>12, <2>1, <2>2 DEF Arrive, Types, hostVars, history
<1>13. CASE BecomeCalm
  BY <1>0, <1>13 DEF BecomeCalm, Types, hostVars, linkVars, history
<1>14. CASE UNCHANGED vars
  BY <1>14 DEF Types, vars, hostVars, linkVars, history
<1> QED
  BY <1>1, <1>2, <1>3, <1>6, <1>7, <1>8, <1>9, <1>10, <1>11, <1>12, <1>13, <1>14
  DEF Next, Receive

LEMMA SendInv ==
  ASSUME IInv, NEW command \in Commands, NEW address \in Addresses,
         SendRequest(command, address)
  PROVE  Recent' /\ Accepted' /\ Clean' /\ OwnAnswer'
<1> DEFINE r == [number |-> number + 1, command |-> command, address |-> address]
<1>1. /\ Types /\ pc = "idle" /\ LateBound /\ number' = number + 1 /\ request' = r
      /\ pc' = "header" /\ pending' = pending /\ calm' = calm /\ noResponses' = noResponses
      /\ connectionLost' = connectionLost
      /\ outcome' = outcome /\ silent' = silent /\ failures' = failures
      /\ \/ device' = device \o Answer(r)
         \/ ~calm /\ device' \in {device, Append(device, Refusal(r))}
  BY DEF IInv, SendRequest, history
<1>2. r \in Requests /\ r.number = number' /\ number \in Nat
  BY <1>1 DEF Types, Requests
<1>3. /\ device' \in Seq(Fragments)
      /\ Range(device') \subseteq Range(device) \cup {Header(r), Rest(r), Refusal(r)}
      /\ calm => Range(device') \subseteq Range(device) \cup {Header(r), Rest(r)}
  <2>1. CASE device' = device \o Answer(r)
    BY <1>1, <1>2, <2>1, AnswerFragments, RangeConcatenation, ConcatProperties DEF Types
  <2>2. CASE ~calm /\ device' = device
    BY <1>1, <2>2 DEF Types
  <2>3. CASE ~calm /\ device' = Append(device, Refusal(r))
    BY <1>1, <1>2, <2>3, AnswerFragments, RangeOfAppend DEF Types
  <2> QED BY <1>1, <2>1, <2>2, <2>3
<1>5. Known' \subseteq OnLink \cup {Header(r), Rest(r), Refusal(r)}
      /\ (calm => Known' \subseteq OnLink \cup {Header(r), Rest(r)})
  BY <1>1, <1>3 DEF Known, OnLink
<1>6. \A f \in OnLink \ {Noise} :
        f.number \in Nat /\ f.number <= number /\ f.number + MaxLate > number
  <2>1. Range(device \o pending) = OnLink
    BY <1>1, RangeConcatenation DEF Types, OnLink
  <2> QED BY <1>1, <2>1, Knowledge DEF IInv, Recent, LateBound
<1>7. Recent'
  <2> SUFFICES ASSUME NEW f \in Known' \ {Noise}
               PROVE  f.number <= number' /\ f.number + MaxLate >= number'
    BY DEF Recent
  <2>1. CASE f \in OnLink
    BY <1>1, <1>2, <1>6, <2>1, ProtocolAssumption
  <2>2. CASE f \in {Header(r), Rest(r), Refusal(r)}
    BY <1>1, <1>2, <2>2, AnswerFragments, ProtocolAssumption
  <2> QED BY <1>5, <2>1, <2>2
<1>8. Accepted'
  <2> SUFFICES ASSUME calm, NEW f \in Known', f.number = number'
               PROVE  f \in {Header(r), Rest(r)}
    BY <1>1 DEF Accepted
  <2>1. f \notin OnLink
    BY <1>1, <1>2, <1>6, Knowledge
  <2> QED BY <1>5, <2>1
<1>9. Clean'
  <2> SUFFICES ASSUME failures # 0 PROVE Clean'
    BY <1>1 DEF Clean
  <2>1. failures = 1 /\ calm /\ pending \o device = <<>>
    BY <1>1 DEF IInv, Clean
  <2>2. pending = <<>> /\ device = <<>>
    BY <1>1, <2>1, EmptyConcat DEF Types
  <2>3. Answer(r) \in Seq(Fragments)
    BY <1>2, AnswerFragments
  <2>4. pending' \o device' = Answer(r)
    BY <1>1, <2>1, <2>2, <2>3, ConcatEmptySeq
  <2> QED BY <1>1, <2>1, <2>4 DEF Clean
<1>10. OwnAnswer'
  BY <1>1 DEF IInv, OwnAnswer
<1> QED BY <1>7, <1>8, <1>9, <1>10

\* A whole packet is judged.  With what is left on the link nothing is new, and if one
\* operation has failed, it is the answer to the current request.
LEMMA CheckInv ==
  ASSUME MaxLate < PacketIds, IInv, Types', NEW h \in Headers, CheckResponse(h),
         pc # "idle", h \in Known, Range(device') \cup Range(pending') \subseteq OnLink,
         number' = number, calm' = calm,
         failures # 0 => /\ h = Header(request) /\ h.more = (request.command = "READ")
                         /\ pending' \o device' = <<>>
  PROVE  Recent' /\ Accepted' /\ Clean' /\ OwnAnswer'
<1>1. /\ Types /\ Recent /\ Accepted /\ Clean /\ OwnAnswer
      /\ request \in Requests /\ request.number = number /\ number \in Nat
      /\ h.number \in Nat
  BY DEF IInv, Types, Headers
<1>2. h # Noise
  BY Knowledge, <1>1
<1>3. pc' # "rest" /\ Known' \subseteq Known
  <2>1. pc' # "rest"
    BY DEF CheckResponse, StartDropping, Await, Return
  <2> QED BY <2>1, <1>1, Knowledge DEF Known, OnLink
<1>4. Recent'
  BY <1>1, <1>3 DEF Recent
<1>5. pc' # "idle" => request' = request
  BY DEF CheckResponse, StartDropping, Await, Return
<1>6. Accepted'
  BY <1>1, <1>3, <1>5 DEF Accepted
<1>7. CASE h.address # request.address
  <2>1. failures' = failures /\ outcome' = outcome /\ pc' = "dropping"
    BY <1>7 DEF CheckResponse, StartDropping
  <2>2. failures = 0
    BY <1>7 DEF Header
  <2> QED BY <1>1, <1>4, <1>6, <2>1, <2>2 DEF Clean, OwnAnswer
<1>8. CASE h.address = request.address /\ PacketId(h.number) # PacketId(request.number)
  <2>1. failures' = failures /\ outcome' = outcome /\ pc' = "header"
    BY <1>8 DEF CheckResponse, Await
  <2>2. failures = 0
    BY <1>8 DEF Header
  <2> QED BY <1>1, <1>4, <1>6, <2>1, <2>2 DEF Clean, OwnAnswer
<1>9. CASE h.address = request.address /\ PacketId(h.number) = PacketId(request.number)
  <2> DEFINE n == IF h.ok /\ h.more = (request.command = "READ") THEN h.number ELSE 0
  <2>1. /\ Return(n) /\ pc' = "idle" /\ outcome' = [request |-> request.number, answer |-> n]
    BY <1>9 DEF CheckResponse, Return
  <2>2. h.number = number
    <3>1. h.number <= number /\ h.number + MaxLate >= number
      BY <1>1, <1>2 DEF Recent
    <3>2. number - h.number < PacketIds
      BY <1>1, <3>1, ProtocolAssumption
    <3> QED BY <1>1, <1>9, <3>1, <3>2, SameId
  <2>3. OwnAnswer'
    BY <1>1, <2>1, <2>2 DEF OwnAnswer
  <2>4. calm => n # 0
    <3> SUFFICES ASSUME calm PROVE n # 0
      OBVIOUS
    <3>1. h \in {Header(request), Rest(request)}
      BY <1>1, <2>2 DEF Accepted
    <3>2. h = Header(request)
      BY <3>1 DEF Headers, Rest
    <3>3. h.ok /\ h.more = (request.command = "READ")
      BY <3>2 DEF Header
    <3> QED BY <3>3 DEF Headers
  <2>5. failures' = failures
    BY <2>1, <2>4 DEF Return
  <2>6. Clean'
    BY <1>1, <2>1, <2>5 DEF Clean
  <2> QED BY <1>4, <1>6, <2>3, <2>6
<1> QED BY <1>7, <1>8, <1>9

\* An operation that is under way is given up.
LEMMA DropInv ==
  ASSUME IInv, Types', StartDropping, failures = 0, pc # "idle", number' = number, calm' = calm,
         Range(device') \cup Range(pending') \subseteq OnLink
  PROVE  Recent' /\ Accepted' /\ Clean' /\ OwnAnswer'
<1>1. /\ Recent /\ Accepted /\ OwnAnswer
      /\ pc' = "dropping" /\ request' = request /\ outcome' = outcome /\ failures' = 0
  BY DEF IInv, StartDropping
<1>2. Known' \subseteq Known
  BY <1>1 DEF Known, OnLink
<1> QED BY <1>1, <1>2 DEF Recent, Accepted, Clean, OwnAnswer

LEMMA ReadHeaderInv ==
  ASSUME MaxLate < PacketIds, IInv, Types', ReadHeader
  PROVE  Recent' /\ Accepted' /\ Clean' /\ OwnAnswer'
<1> DEFINE h == Head(pending)
<1>1. /\ Types /\ Recent /\ Accepted /\ Clean /\ OwnAnswer
      /\ pc = "header" /\ pending # <<>> /\ pending' = Tail(pending)
      /\ number' = number /\ device' = device /\ calm' = calm
      /\ pending \in Seq(Fragments) /\ device \in Seq(Fragments)
      /\ request \in Requests /\ request.number = number
  BY DEF IInv, ReadHeader, Types
<1>2. h \in Fragments /\ h \in OnLink /\ h \in Known
      /\ Range(device') \cup Range(pending') \subseteq OnLink
  BY <1>1, RangeOfTail DEF OnLink, Known
<1>3. failures # 0 =>
        /\ h = Header(request) /\ h.more = (request.command = "READ")
        /\ Tail(pending) \o device = Tail(Answer(request))
  <2> SUFFICES ASSUME failures # 0
               PROVE  /\ h = Header(request) /\ h.more = (request.command = "READ")
                      /\ Tail(pending) \o device = Tail(Answer(request))
    OBVIOUS
  <2>1. pending \o device = Answer(request)
    BY <1>1 DEF Clean
  <2>2. Tail(pending) \o device = Tail(Answer(request)) /\ h = Head(Answer(request))
    <3>1. pending \in Seq(Fragments) /\ pending # <<>> /\ device \in Seq(Fragments)
      BY <1>1
    <3>2. /\ Tail(pending) \o device = Tail(pending \o device)
          /\ Head(pending) = Head(pending \o device)
      BY <3>1, TailOfConcat, Zenon
    <3> QED BY <2>1, <3>2, Zenon
  <2>3. Head(Answer(request)) = Header(request)
    BY DEF Answer
  <2> QED BY <2>2, <2>3 DEF Header
<1>4. CASE h.part # "header"
  <2>1. StartDropping
    BY <1>4 DEF ReadHeader
  <2>2. failures = 0
    BY <1>3, <1>4 DEF Header
  <2> QED BY <1>1, <1>2, <2>1, <2>2, DropInv
<1>5. CASE h.part = "header" /\ h.more
  <2>1. /\ pc' = "rest" /\ header' = h /\ request' = request /\ outcome' = outcome
        /\ failures' = failures
    BY <1>5 DEF ReadHeader, Await
  <2>2. Known' \subseteq Known
    BY <1>1, <1>2, <2>1 DEF Known, OnLink
  <2>3. ASSUME failures # 0
        PROVE  request.command = "READ" /\ pending' \o device' = <<Rest(request)>>
    <3>1. request.command = "READ" /\ pending' \o device' = Tail(Answer(request))
      BY <1>1, <1>3, <1>5, <2>3
    <3>2. Tail(Answer(request)) = <<Rest(request)>>
      BY <3>1 DEF Answer
    <3> QED BY <3>1, <3>2
  <2>4. Clean'
    BY <1>1, <1>3, <2>1, <2>3 DEF Clean, Header
  <2> QED BY <1>1, <2>1, <2>2, <2>4 DEF Recent, Accepted, OwnAnswer
<1>6. CASE h.part = "header" /\ ~h.more
  <2>1. CheckResponse(h)
    BY <1>6 DEF ReadHeader
  <2>2. h \in Headers
    BY <1>2, <1>6 DEF Fragments, Rests, Noise
  <2>3. ASSUME failures # 0 PROVE pending' \o device' = <<>>
    <3>1. request.command # "READ" /\ pending' \o device' = Tail(Answer(request))
      BY <1>1, <1>3, <1>6, <2>3
    <3>2. Tail(Answer(request)) = <<>>
      BY <3>1 DEF Answer
    <3> QED BY <3>1, <3>2
  <2> QED BY <1>1, <1>2, <1>3, <2>1, <2>2, <2>3, CheckInv
<1> QED BY <1>4, <1>5, <1>6

LEMMA ReadRestInv ==
  ASSUME MaxLate < PacketIds, IInv, Types', ReadRest
  PROVE  Recent' /\ Accepted' /\ Clean' /\ OwnAnswer'
<1> DEFINE r == Head(pending)
<1>1. /\ Types /\ Clean /\ pc = "rest" /\ pending # <<>> /\ pending' = Tail(pending)
      /\ number' = number /\ device' = device /\ calm' = calm
      /\ pending \in Seq(Fragments) /\ device \in Seq(Fragments)
      /\ header \in Headers /\ header \in Known
  BY DEF IInv, ReadRest, Types, Known
<1>2. Range(device') \cup Range(pending') \subseteq OnLink
  BY <1>1, RangeOfTail DEF OnLink
<1>3. failures # 0 =>
        /\ header = Header(request) /\ header.more = (request.command = "READ")
        /\ r = Rest(request) /\ pending' \o device' = <<>>
  <2> SUFFICES ASSUME failures # 0
               PROVE  /\ header = Header(request) /\ header.more = (request.command = "READ")
                      /\ r = Rest(request) /\ pending' \o device' = <<>>
    OBVIOUS
  <2>1. /\ header = Header(request) /\ request.command = "READ"
        /\ pending \o device = <<Rest(request)>>
    BY <1>1 DEF Clean
  <2>2. Tail(pending) \o device = Tail(<<Rest(request)>>) /\ r = Head(<<Rest(request)>>)
    <3>1. pending \in Seq(Fragments) /\ device \in Seq(Fragments) /\ pending # <<>>
      BY <1>1
    <3>2. /\ Tail(pending) \o device = Tail(pending \o device)
          /\ Head(pending) = Head(pending \o device)
      BY <3>1, TailOfConcat
    <3> QED BY <2>1, <3>2
  <2>3. Tail(<<Rest(request)>>) = <<>> /\ Head(<<Rest(request)>>) = Rest(request)
    OBVIOUS
  <2>4. header.more = TRUE
    BY <2>1 DEF Header
  <2>5. pending' \o device' = <<>> /\ r = Rest(request)
    BY <1>1, <2>2, <2>3
  <2> QED BY <2>1, <2>4, <2>5
<1>4. CASE r = [part |-> "rest", number |-> header.number]
  <2>1. CheckResponse(header)
    BY <1>4 DEF ReadRest
  <2> QED BY <1>1, <1>2, <1>3, <2>1, CheckInv
<1>5. CASE r # [part |-> "rest", number |-> header.number]
  <2>1. StartDropping
    BY <1>5 DEF ReadRest
  <2>2. failures = 0
    BY <1>3, <1>5 DEF Header, Rest
  <2> QED BY <1>1, <1>2, <2>1, <2>2, DropInv
<1> QED BY <1>4, <1>5

\* The one failure that counts: in order nothing is left on the link by then.
LEMMA DropPendingDataInv ==
  ASSUME IInv, Types', DropPendingData
  PROVE  Recent' /\ Accepted' /\ Clean' /\ OwnAnswer'
<1>1. /\ Recent /\ Clean /\ Types /\ pc = "dropping" /\ pc' = "idle"
      /\ pending' = <<>> /\ device' = device /\ number' = number /\ calm' = calm
      /\ (calm => device = <<>>) /\ outcome'.answer = 0
      /\ failures' = IF calm THEN failures + 1 ELSE failures
  BY DEF IInv, DropPendingData, Return
<1>2. Known' \subseteq Known
  BY <1>1, RangeOfEmpty DEF Known, OnLink
<1>3. failures = 0
  BY <1>1 DEF Clean
<1>4. calm => pending' \o device' = <<>>
  BY <1>1
<1> QED BY <1>1, <1>2, <1>3, <1>4 DEF Recent, Accepted, Clean, OwnAnswer

LEMMA ArriveInv ==
  ASSUME IInv, Types', Arrive
  PROVE  Recent' /\ Accepted' /\ Clean' /\ OwnAnswer'
<1>1. /\ Types /\ Recent /\ Accepted /\ Clean /\ OwnAnswer
      /\ device # <<>> /\ device' = Tail(device)
      /\ pc' = pc /\ request' = request /\ header' = header /\ number' = number
      /\ outcome' = outcome /\ failures' = failures /\ calm' = calm
      /\ \/ pending' = Append(pending, Head(device))
         \/ ~calm /\ pending' \in {pending, Append(pending, Noise)}
      /\ pending \in Seq(Fragments) /\ device \in Seq(Fragments)
  BY DEF IInv, Arrive, hostVars, history, Types
<1>2. /\ Head(device) \in Fragments /\ Head(device) \in Range(device)
      /\ Range(device') \subseteq Range(device)
  BY <1>1, RangeOfTail
<1>3. /\ Range(pending') \subseteq Range(pending) \cup Range(device) \cup {Noise}
      /\ calm => Range(pending') \subseteq Range(pending) \cup Range(device)
  <2>1. CASE pending' = Append(pending, Head(device))
    BY <1>1, <1>2, <2>1, RangeOfAppend
  <2>2. CASE ~calm /\ pending' = pending
    BY <2>2
  <2>3. CASE ~calm /\ pending' = Append(pending, Noise)
    <3>1. Noise \in Fragments
      BY DEF Fragments
    <3> QED BY <1>1, <2>3, <3>1, RangeOfAppend
  <2> QED BY <1>1, <2>1, <2>2, <2>3
<1>4. Known' \subseteq Known \cup {Noise} /\ (calm => Known' \subseteq Known)
  BY <1>1, <1>2, <1>3 DEF Known, OnLink
<1>5. calm => pending' \o device' = pending \o device
  BY <1>1, HandedOn
<1>6. Clean'
  BY <1>1, <1>5 DEF Clean
<1> QED BY <1>1, <1>4, <1>6 DEF Recent, Accepted, OwnAnswer

\* A read or an answer is given up only while the link is out of order or nothing is on it.
LEMMA GivenUpInv ==
  ASSUME IInv, Types', HeaderTimesOut \/ RestTimesOut \/ ReadFails
  PROVE  Recent' /\ Accepted' /\ Clean' /\ OwnAnswer'
<1>1. /\ Types /\ Clean /\ StartDropping /\ pc \in {"header", "rest"}
      /\ number' = number /\ device' = device /\ calm' = calm
      /\ pending \in Seq(Fragments) /\ device \in Seq(Fragments)
  BY DEF IInv, HeaderTimesOut, RestTimesOut, ReadFails, linkVars, Types
<1>2. Range(device') \cup Range(pending') \subseteq OnLink
  BY <1>1, RangeOfTail, RangeOfEmpty
  DEF HeaderTimesOut, RestTimesOut, ReadFails, linkVars, OnLink
<1>3. ~calm \/ pending \o device = <<>>
  BY DEF HeaderTimesOut, RestTimesOut, ReadFails, TimedOut
<1>4. failures = 0
  <2>1. Answer(request) # <<>> /\ <<Rest(request)>> # <<>>
    BY DEF Answer
  <2> QED BY <1>1, <1>3, <2>1 DEF Clean
<1> QED BY <1>1, <1>2, <1>4, DropInv

\* Between operations: the request cannot be sent, the link is exchanged, all is in order.
LEMMA IdleInv ==
  ASSUME IInv, Types', SendFails \/ SetDataLinkInterface \/ BecomeCalm
  PROVE  Recent' /\ Accepted' /\ Clean' /\ OwnAnswer'
<1>1. /\ Types /\ Recent /\ Clean /\ OwnAnswer /\ ~calm /\ pc = "idle" /\ pc' = "idle"
      /\ number \in Nat /\ number' \in {number, number + 1} /\ failures' = failures
      /\ outcome' = outcome \/ outcome'.answer = 0
  BY DEF IInv, SendFails, SetDataLinkInterface, BecomeCalm, hostVars, history, Types
<1>2. Known' \subseteq Known
  BY <1>1, RangeOfEmpty
  DEF SendFails, SetDataLinkInterface, BecomeCalm, linkVars, Known, OnLink
<1>3. failures = 0
  BY <1>1 DEF Clean
<1>4. \A f \in Known \ {Noise} : f.number \in Nat
  BY <1>1, Knowledge
<1> QED BY <1>1, <1>2, <1>3, <1>4 DEF Recent, Accepted, Clean, OwnAnswer

-----------------------------------------------------------------------------
(* The theorems *)

\* The invariant: an answer is at most MaxLate requests old, and after one failure on a link
\* in order only the answer to the current request is on its way.
THEOREM Invariance ==
  ASSUME MaxLate < PacketIds
  PROVE  Spec => []IInv
<1>1. IInv /\ [Next]_vars => IInv'
  <2> SUFFICES ASSUME IInv, [Next]_vars PROVE IInv'
    OBVIOUS
  <2>1. Types' /\ Counted'
    BY TypesStep DEF IInv
  <2>2. ASSUME NEW command \in Commands, NEW address \in Addresses,
               SendRequest(command, address)
        PROVE  IInv'
    BY <2>1, <2>2, SendInv DEF IInv
  <2>3. CASE ReadHeader
    BY <2>1, <2>3, ReadHeaderInv DEF IInv
  <2>4. CASE ReadRest
    BY <2>1, <2>4, ReadRestInv DEF IInv
  <2>5. CASE HeaderTimesOut \/ RestTimesOut \/ ReadFails
    BY <2>1, <2>5, GivenUpInv DEF IInv
  <2>6. CASE DropPendingData
    BY <2>1, <2>6, DropPendingDataInv DEF IInv
  <2>7. CASE Arrive
    BY <2>1, <2>7, ArriveInv DEF IInv
  <2>8. CASE SendFails \/ SetDataLinkInterface \/ BecomeCalm
    BY <2>1, <2>8, IdleInv DEF IInv
  <2>9. CASE UNCHANGED vars
    BY <2>9 DEF IInv, Types, Recent, Accepted, Clean, Counted, OwnAnswer, Known, OnLink,
                vars, hostVars, linkVars, history
  <2> QED BY <2>2, <2>3, <2>4, <2>5, <2>6, <2>7, <2>8, <2>9 DEF Next, Receive
<1> QED BY <1>1, InitInv, PTL DEF Spec

\* OwnAnswer, if an answer is never as late as there are packet ids: the id and the address
\* are enough to tell an operation's own answer, however many old ones are on the link.
THEOREM AnswersAreOwn ==
  ASSUME MaxLate < PacketIds
  PROVE  Spec => []OwnAnswer
<1>1. IInv => OwnAnswer
  BY DEF IInv
<1> QED BY <1>1, Invariance, PTL

\* RecoversAtOnce, under the same condition: once the link is in order the drop after an
\* error leaves nothing on it for the next operation to trip over.
THEOREM OneFailureAtMost ==
  ASSUME MaxLate < PacketIds
  PROVE  Spec => []RecoversAtOnce
<1>1. IInv => RecoversAtOnce
  BY DEF IInv, Types, Clean, RecoversAtOnce
<1> QED BY <1>1, Invariance, PTL

\* LostOnlyAfterSilence, without any condition: the code's count of timeouts never exceeds
\* the operations in a row that heard nothing on this link.
THEOREM LossNeedsSilence == Spec => LostOnlyAfterSilence
<1> DEFINE Silence == connectionLost' /\ ~connectionLost => silent' > MaxStraightNoResponses
<1>1. Init => Types /\ Counted
  BY InitInv DEF IInv
<1>2. Types /\ Counted /\ [Next]_vars => Types' /\ Counted'
  BY TypesStep
<1>3. Types /\ Counted /\ [Next]_vars => [Silence]_vars
  <2> SUFFICES ASSUME Types, Counted, Next, connectionLost', ~connectionLost
               PROVE  silent' > MaxStraightNoResponses
    OBVIOUS
  <2>1. HeaderTimesOut
    BY DEF Next, Receive, SendRequest, SendFails, SetDataLinkInterface, ReadHeader, ReadRest,
           RestTimesOut, DropPendingData, ReadFails, Arrive, BecomeCalm, hostVars
  <2> QED BY <2>1, ProtocolAssumption DEF HeaderTimesOut, Types, Counted
<1> QED BY <1>1, <1>2, <1>3, PTL DEF Spec, LostOnlyAfterSilence

-----------------------------------------------------------------------------
(* How long an operation can go on *)

Waits == [idle |-> 0, dropping |-> 1, header |-> 2, rest |-> 2]

\* The steps an operation can still see at most: what the device has sent comes in and is
\* read, and then the wait for it times out.
StepsLeft == 2 * Len(device) + Len(pending) + Waits[pc]

\* An older answer, a half of one, noise or a failure of the link leads back to a wait for a
\* header or to the drop of what is left, but each time there is less to come.
OperationStep == pc # "idle" => StepsLeft' < StepsLeft

\* What is read is gone, whatever it is taken for.
LEMMA ReadSpends ==
  ASSUME Types, pc \in {"header", "rest"}, pending # <<>>, pending' = Tail(pending),
         UNCHANGED device, pc' \in {"header", "rest", "dropping", "idle"}
  PROVE  StepsLeft' < StepsLeft
<1>1. Len(Tail(pending)) = Len(pending) - 1 /\ Len(pending) \in Nat \ {0}
  BY DEF Types
<1>2. Len(device) \in Nat
  BY DEF Types
<1>3. Waits[pc'] \in 0..2 /\ Waits[pc] = 2
  BY DEF Waits
<1> DEFINE before == Len(pending)
           after  == Len(pending')
           rest   == Len(device)
<1>4. before \in Nat \ {0} /\ after = before - 1 /\ rest \in Nat
  BY <1>1, <1>2
<1>5. /\ StepsLeft = 2 * rest + before + 2
      /\ StepsLeft' = 2 * rest + after + Waits[pc']
  BY <1>3 DEF StepsLeft
<1> HIDE DEF before, after, rest
<1> QED BY <1>3, <1>4, <1>5

\* So is what is dropped, and a wait that is over.
LEMMA WaitSpends ==
  ASSUME Types, UNCHANGED device, Len(pending') \in 0..Len(pending),
         \/ pc \in {"header", "rest"} /\ pc' = "dropping"
         \/ pc = "dropping" /\ pc' = "idle"
  PROVE  StepsLeft' < StepsLeft
<1>1. Len(device) \in Nat /\ Len(pending) \in Nat
  BY DEF Types
<1>2. Waits[pc'] \in Nat /\ Waits[pc] = Waits[pc'] + 1
  BY DEF Waits
<1> DEFINE before == Len(pending)
           after  == Len(pending')
           rest   == Len(device)
<1>3. before \in Nat /\ after \in 0..before /\ rest \in Nat
  BY <1>1
<1>4. /\ StepsLeft = 2 * rest + before + (Waits[pc'] + 1)
      /\ StepsLeft' = 2 * rest + after + Waits[pc']
  BY <1>2 DEF StepsLeft
<1> HIDE DEF before, after, rest
<1> QED BY <1>2, <1>3, <1>4

\* What arrives counts for less than what is to arrive.
LEMMA ArriveSpends ==
  ASSUME Types, Arrive
  PROVE  StepsLeft' < StepsLeft
<1>1. /\ device # <<>> /\ device' = Tail(device) /\ pc' = pc
      /\ \/ pending' = pending \/ \E f \in Fragments : pending' = Append(pending, f)
  <2>1. Head(device) \in Fragments
    BY DEF Types, Arrive
  <2> QED BY <2>1 DEF Arrive, hostVars, Fragments
<1>2. Len(device) \in Nat \ {0} /\ Len(device') = Len(device) - 1
  BY <1>1 DEF Types
<1>3. Len(pending) \in Nat /\ Len(pending') \in Len(pending)..Len(pending) + 1
  BY <1>1 DEF Types
<1>4. Waits[pc] \in Nat
  BY DEF Types, Waits
<1> DEFINE before == Len(pending)
           after  == Len(pending')
           many   == Len(device)
           fewer  == Len(device')
<1>5. before \in Nat /\ after \in before..before + 1 /\ many \in Nat /\ fewer = many - 1
  BY <1>2, <1>3
<1>6. /\ StepsLeft = 2 * many + before + Waits[pc]
      /\ StepsLeft' = 2 * fewer + after + Waits[pc]
  BY <1>1 DEF StepsLeft
<1> HIDE DEF before, after, many, fewer
<1> QED BY <1>4, <1>5, <1>6

\* Outside an idle protocol nothing happens but the steps above.
LEMMA OperationStepHolds == Types /\ [Next]_vars => [OperationStep]_vars
<1>1. SUFFICES ASSUME Types, Next, pc # "idle" PROVE StepsLeft' < StepsLeft
  BY DEF OperationStep
<1>2. CASE ReadHeader
  <2>1. pc' \in {"header", "rest", "dropping", "idle"}
    BY <1>2 DEF ReadHeader, CheckResponse, StartDropping, Await, Return
  <2> QED BY <1>1, <1>2, <2>1, ReadSpends DEF ReadHeader
<1>3. CASE ReadRest
  <2>1. pc' \in {"header", "rest", "dropping", "idle"}
    BY <1>3 DEF ReadRest, CheckResponse, StartDropping, Await, Return
  <2> QED BY <1>1, <1>3, <2>1, ReadSpends DEF ReadRest
<1>4. CASE HeaderTimesOut \/ RestTimesOut
  <2>1. Len(pending') \in 0..Len(pending)
    BY <1>1, <1>4 DEF HeaderTimesOut, RestTimesOut, linkVars, Types
  <2> QED BY <1>1, <1>4, <2>1, WaitSpends
          DEF HeaderTimesOut, RestTimesOut, linkVars, StartDropping
<1>5. CASE ReadFails
  <2>1. Len(pending') \in 0..Len(pending)
    BY <1>1, <1>5 DEF ReadFails, Types
  <2> QED BY <1>1, <1>5, <2>1, WaitSpends DEF ReadFails, StartDropping
<1>6. CASE DropPendingData
  <2>1. Len(pending') \in 0..Len(pending)
    BY <1>1, <1>6 DEF DropPendingData, Types
  <2> QED BY <1>1, <1>6, <2>1, WaitSpends DEF DropPendingData, Return
<1>7. CASE Arrive
  BY <1>1, <1>7, ArriveSpends
<1>8. ~(\/ \E command \in Commands, address \in Addresses : SendRequest(command, address)
        \/ SendFails \/ SetDataLinkInterface \/ BecomeCalm)
  BY <1>1 DEF SendRequest, SendFails, SetDataLinkInterface, BecomeCalm
<1> QED BY <1>1, <1>2, <1>3, <1>4, <1>5, <1>6, <1>7, <1>8 DEF Next, Receive

\* Every step of an operation, of the host, the link or the device, brings it nearer to its
\* end, on a link that loses, damages and delays what it will: no operation sees more steps
\* than StepsLeft says when its request has been sent.
THEOREM OperationsWearOff == Spec => [][OperationStep]_vars
<1>1. Init => Types /\ Counted
  BY InitInv DEF IInv
<1>2. Types /\ Counted /\ [Next]_vars => Types' /\ Counted'
  BY TypesStep
<1>3. Types /\ [Next]_vars => [OperationStep]_vars
  BY OperationStepHolds
<1> QED BY <1>1, <1>2, <1>3, PTL DEF Spec

=============================================================================
