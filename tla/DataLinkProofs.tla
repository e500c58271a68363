-------------------------- MODULE DataLinkProofs --------------------------
(***************************************************************************)
(* Proofs about DataLink, for any sizes of buffers, any number of bytes,   *)
(* calls and starts of the stream, and any faults of the driver: the       *)
(* bytes that are held, the types of images, the refinement of the         *)
(* abstract ByteStream, and how many steps are left of a call.             *)
(***************************************************************************)
EXTENDS DataLink, SequenceTheorems, TLAPS

Calls == [name : {"none", "read", "write", "drop"}, size : Nat, has : Seq(Nat), expired : BOOLEAN,
          opened : BOOLEAN]
Ios   == [at : {"none", "posted", "waits", "done"}, has : Seq(Nat), timer : BOOLEAN,
          error : {"none", "failed", "lost"}]

Types ==
  /\ kind \in {"uart", "ebus"} /\ port \in {"none", "open", "closed", "gone"}
  /\ hung \in BOOLEAN /\ (kind = "ebus" => ~hung)
  /\ arrived \in Nat /\ taken \in 0..arrived /\ dropped \in 0..arrived
  /\ call \in Calls /\ io \in Ios

\* The last bytes that were taken, without a hole.
Latest(has, last) == \A i \in DOMAIN has : has[i] + Len(has) = last + i

\* An operation of the serial port fills the whole buffer or tells nothing of what it has
\* got, so that there is never an operation beside bytes that an earlier one has left.
Buffers ==
  /\ Idle => io = NoIo
  /\ ~Idle => call.name # "none" /\ call.size # 0 /\ port # "none"
  /\ kind = "ebus" => io = NoIo
  /\ kind = "uart" => call.has = <<>> \/ (Len(call.has) = call.size /\ io = NoIo)
  /\ call.name = "drop" => call.has = <<>> /\ ~call.expired
  /\ Len(call.has) <= call.size /\ Len(io.has) <= call.size
  /\ io.at = "none" => io = NoIo
  /\ io.at = "posted" => io.has # <<>>
  /\ io.at = "done" /\ io.error = "none" => io.has = <<>> \/ Len(io.has) = call.size

\* Nothing from before the last drop will be read any more.
Over == hung \/ port \in {"closed", "gone"} \/ taken >= dropped

\* That is so unless the drop is still under way, and once it waits with nothing taken.
Dropping ==
  /\ call.name # "drop" => Over
  /\ io.at = "waits" => Over
  /\ io.at = "done" /\ io.has = <<>> => Over

\* What a read has got.
Reading ==
  call.name = "read" =>
    /\ Latest(call.has, taken) /\ Latest(io.has, taken)
    /\ \A i \in DOMAIN call.has : call.has[i] > dropped
    /\ \A i \in DOMAIN io.has : io.has[i] > dropped

BytesInv == Types /\ Buffers /\ Dropping /\ Reading /\ FreshBytes

-----------------------------------------------------------------------------
(* Numbered bytes                                                          *)

LEMMA NumberedBytes ==
  ASSUME NEW first \in Nat, NEW count \in Nat
  PROVE  /\ Numbered(first, count) \in Seq(Nat) /\ Len(Numbered(first, count)) = count
         /\ \A i \in 1..count : Numbered(first, count)[i] = first + i
BY DEF Numbered

\* Bytes taken one after the other stay the latest.
LEMMA LatestGrows ==
  ASSUME NEW has \in Seq(Nat), NEW last \in Nat, NEW count \in Nat, NEW floor \in Nat,
         Latest(has, last), \A i \in DOMAIN has : has[i] > floor, count # 0 => last >= floor
  PROVE  LET all == has \o Numbered(last, count) IN
         /\ all \in Seq(Nat) /\ Len(all) = Len(has) + count
         /\ Latest(all, last + count) /\ \A i \in DOMAIN all : all[i] > floor
<1> DEFINE more == Numbered(last, count)
           all == has \o more
<1>1. more \in Seq(Nat) /\ Len(more) = count /\ \A i \in 1..count : more[i] = last + i
  BY NumberedBytes
<1>2. Len(has) \in Nat /\ DOMAIN has = 1..Len(has) /\ \A i \in DOMAIN has : has[i] \in Nat
  OBVIOUS
<1> HIDE DEF more
<1>3. /\ all \in Seq(Nat) /\ Len(all) = Len(has) + count
      /\ \A i \in 1..Len(has) + count :
           all[i] = IF i <= Len(has) THEN has[i] ELSE more[i - Len(has)]
  BY <1>1, ConcatProperties
<1> HIDE DEF all
<1>4. DOMAIN all = 1..Len(has) + count
  BY <1>2, <1>3
<1>5. ASSUME NEW i \in 1..Len(has) + count
      PROVE  all[i] + Len(all) = last + count + i /\ all[i] > floor
  <2>1. CASE i <= Len(has)
    <3>1. i \in DOMAIN has /\ all[i] = has[i]
      BY <1>2, <1>3, <2>1
    <3>2. has[i] + Len(has) = last + i /\ has[i] > floor /\ has[i] \in Nat
      BY <1>2, <3>1 DEF Latest
    <3>3. Len(all) = Len(has) + count /\ Len(has) \in Nat
      BY <1>2, <1>3
    <3>4. PICK byte \in Nat : byte = has[i]
      BY <3>2
    <3>5. PICK length \in Nat : length = Len(has)
      BY <3>3
    <3>6. byte + length = last + i /\ byte > floor
      BY <3>2, <3>4, <3>5
    <3>7. byte + (length + count) = last + count + i
      BY <3>5, <3>6
    <3> QED BY <3>1, <3>3, <3>4, <3>5, <3>6, <3>7
  <2>2. CASE i > Len(has)
    <3>1. i - Len(has) \in 1..count /\ all[i] = more[i - Len(has)]
      BY <1>2, <1>3, <2>2
    <3>2. all[i] = last + (i - Len(has)) /\ count # 0
      BY <1>1, <3>1
    <3> QED BY <1>2, <1>3, <2>2, <3>2
  <2> QED BY <1>2, <2>1, <2>2
<1> QED BY <1>3, <1>4, <1>5 DEF Latest, all, more

\* One of the operations that compose an asynchronous operation takes what is there.
LEMMA AttemptInv ==
  ASSUME BytesInv, InUart, call.has = <<>>, NEW async, async \in {io, NoIo}, Rest(async.has) > 0,
         port = "open", Attempt(async)
  PROVE  /\ io' \in Ios /\ taken' \in taken..arrived
         /\ io'.at \in {"waits", "posted"}
         /\ io'.at = "posted" => io'.has # <<>>
         /\ Len(io'.has) <= call.size
         /\ io'.at = "waits" => hung \/ taken' >= dropped
         /\ call.name = "read" =>
              Latest(io'.has, taken') /\ \A i \in DOMAIN io'.has : io'.has[i] > dropped
         /\ call.name = "read" => Len(io'.has) <= Len(async.has) + (taken' - taken)
         /\ call.name = "write" => taken' = taken
<1> DEFINE n == IF hung THEN 0 ELSE Available(async.has)
           more == Numbered(taken, n)
           all == async.has \o more
<1>1. /\ async \in Ios /\ async.has \in Seq(Nat) /\ call.size \in Nat
      /\ arrived \in Nat /\ taken \in Nat /\ taken <= arrived /\ dropped \in Nat
      /\ dropped <= arrived
  <2>1. NoIo \in Ios
    <3>1. <<>> \in Seq(Nat)
      OBVIOUS
    <3> QED BY <3>1 DEF NoIo, Ios
  <2>2. Types /\ async \in Ios
    BY <2>1 DEF BytesInv, Types
  <2> QED BY <2>2 DEF Types, Ios, Calls
<1>2. Len(async.has) \in Nat /\ Rest(async.has) = call.size - Len(async.has)
  BY <1>1 DEF Rest
<1>3. /\ n \in Nat /\ n <= Rest(async.has)
      /\ call.name # "write" => n <= arrived - taken
      /\ n = 0 => hung \/ taken = arrived
  <2>1. Rest(async.has) \in Nat \ {0} /\ arrived - taken \in Nat
    BY <1>1, <1>2
  <2> QED BY <1>1, <2>1 DEF Available, Min2
<1> HIDE DEF n
<1>4. more \in Seq(Nat) /\ Len(more) = n
  BY <1>1, <1>3, NumberedBytes
<1> HIDE DEF more
<1>5. all \in Seq(Nat) /\ Len(all) = Len(async.has) + n
  BY <1>1, <1>4, ConcatProperties
<1>6. /\ io' = [async EXCEPT !.at = IF n > 0 THEN "posted" ELSE "waits", !.has = all]
      /\ taken' = IF call.name = "write" THEN taken ELSE taken + n
  BY DEF Attempt, n, more
<1>7. ASSUME call.name = "read"
      PROVE  Latest(all, taken') /\ \A i \in DOMAIN all : all[i] > dropped
  <2>1. Latest(async.has, taken) /\ \A i \in DOMAIN async.has : async.has[i] > dropped
    BY <1>7 DEF BytesInv, Reading, NoIo, Latest
  <2>2. n # 0 => taken >= dropped
    BY <1>7 DEF BytesInv, Dropping, Over, n
  <2>3. taken' = taken + n
    BY <1>6, <1>7
  <2> QED BY <1>1, <1>3, <2>1, <2>2, <2>3, LatestGrows DEF more
<1> HIDE DEF all
<1>8. /\ io'.at = (IF n > 0 THEN "posted" ELSE "waits") /\ io'.has = all /\ io' \in Ios
  BY <1>1, <1>5, <1>6 DEF Ios
<1>9. n > 0 => all # <<>>
  BY <1>2, <1>3, <1>5
<1>10. taken' \in taken..arrived /\ (n = 0 => hung \/ taken' >= dropped)
  BY <1>1, <1>3, <1>6
<1>11. Len(all) <= call.size
  BY <1>1, <1>2, <1>3, <1>5
<1>12. /\ call.name = "read" => Len(all) <= Len(async.has) + (taken' - taken)
       /\ call.name = "write" => taken' = taken
  BY <1>1, <1>2, <1>3, <1>5, <1>6
<1> QED BY <1>3, <1>7, <1>8, <1>9, <1>10, <1>11, <1>12

-----------------------------------------------------------------------------
(* The invariant of the bytes                                              *)

LEMMA NothingInTypes == NoCall \in Calls /\ NoIo \in Ios
<1>1. <<>> \in Seq(Nat)
  OBVIOUS
<1> QED BY <1>1 DEF NoCall, NoIo, Calls, Ios

LEMMA InitBytes == LinkInit => BytesInv
<1> SUFFICES ASSUME LinkInit PROVE BytesInv
  OBVIOUS
<1>1. Types
  <2>1. call \in Calls /\ io \in Ios
    BY NothingInTypes DEF LinkInit
  <2>2. hung \in BOOLEAN /\ ~hung
    BY DEF LinkInit
  <2>3. /\ kind \in {"uart", "ebus"} /\ port = "none"
        /\ arrived = 0 /\ taken = 0 /\ dropped = 0
    BY DEF LinkInit
  <2> QED BY <2>1, <2>2, <2>3 DEF Types
<1>2. Buffers
  BY DEF LinkInit, Buffers, Idle, NoCall, NoIo
<1>3. Dropping /\ Reading /\ FreshBytes
  BY DEF LinkInit, Dropping, Over, Reading, FreshBytes, NoCall, NoIo
<1> QED BY <1>1, <1>2, <1>3 DEF BytesInv

\* A call returns.
LEMMA FinishInv ==
  ASSUME BytesInv, ~Idle, NEW status, Finish(status), kind' = kind, port' = port, hung' = hung,
         arrived' = arrived, dropped' = dropped, taken' \in taken..arrived, Over',
         status = "ok" /\ call.name = "read" => Len(call.has) = call.size
  PROVE  BytesInv'
<1>1. /\ Types /\ Buffers /\ Reading
      /\ call' = NoCall /\ io' = NoIo
      /\ result' = [name |-> call.name, status |-> status, has |-> call.has, after |-> dropped]
  BY DEF BytesInv, Finish
<1>2. Types'
  BY <1>1, NothingInTypes DEF Types
<1>3. Buffers'
  BY <1>1 DEF Buffers, Idle, NoCall, NoIo
<1>4. Dropping' /\ Reading'
  BY <1>1 DEF Dropping, Reading, NoCall, NoIo
<1>5. FreshBytes'
  <2> SUFFICES ASSUME call.name = "read", status = "ok"
               PROVE  /\ \A i \in 1..(Len(call.has) - 1) : call.has[i + 1] = call.has[i] + 1
                      /\ call.has[1] > dropped
    BY <1>1 DEF FreshBytes
  <2>1. /\ call.has \in Seq(Nat) /\ Len(call.has) = call.size /\ call.size \in Nat \ {0}
        /\ taken \in Nat
    BY <1>1 DEF Types, Calls, Buffers
  <2>2. DOMAIN call.has = 1..Len(call.has) /\ \A i \in DOMAIN call.has : call.has[i] \in Nat
    BY <2>1
  <2>3. ASSUME NEW i \in 1..(Len(call.has) - 1) PROVE call.has[i + 1] = call.has[i] + 1
    <3>1. i \in DOMAIN call.has /\ i + 1 \in DOMAIN call.has
      BY <2>1, <2>2
    <3>2. /\ call.has[i] + Len(call.has) = taken + i
          /\ call.has[i + 1] + Len(call.has) = taken + (i + 1)
      BY <1>1, <3>1 DEF Reading, Latest
    <3>3. PICK this, after, length \in Nat :
             this = call.has[i] /\ after = call.has[i + 1] /\ length = Len(call.has)
      BY <2>1, <2>2, <3>1
    <3>4. this + length = taken + i /\ after + length = taken + (i + 1)
      BY <3>2, <3>3
    <3>5. i \in Nat /\ taken \in Nat
      BY <2>1
    <3>6. after = this + 1
      BY <3>4, <3>5
    <3> QED BY <3>3, <3>6
  <2>4. call.has[1] > dropped
    BY <1>1, <2>1, <2>2 DEF Reading
  <2> QED BY <2>3, <2>4
<1> QED BY <1>2, <1>3, <1>4, <1>5 DEF BytesInv

\* A call begins when there is none.
LEMMA BeginInv ==
  ASSUME BytesInv, Idle,
         NEW name \in {"read", "write", "drop"}, NEW size \in Nat \ {0}, Begin(name, size),
         dropped' = IF name = "drop" THEN arrived ELSE dropped
  PROVE  BytesInv'
<1>1. /\ Types /\ Buffers /\ Dropping /\ FreshBytes
      /\ call' = [NoCall EXCEPT !.name = name, !.size = size, !.opened = (port = "open")]
      /\ io = NoIo /\ io' = io
      /\ kind' = kind /\ port' = port /\ hung' = hung /\ arrived' = arrived /\ taken' = taken
      /\ result' = result
  BY DEF BytesInv, Begin, Buffers, driverVars, lineVars
<1>2. /\ call' \in Calls /\ call'.name = name /\ call'.size = size /\ call'.has = <<>>
      /\ call'.expired = FALSE
  BY <1>1, NothingInTypes DEF NoCall, Calls
<1>3. Types'
  BY <1>1, <1>2 DEF Types
<1>4. Buffers'
  <2>1. port # "none"
    BY DEF Begin
  <2>2. ~Idle'
    BY <1>2 DEF Idle, NoCall
  <2>3. Len(call'.has) <= call'.size /\ Len(io'.has) <= call'.size
    BY <1>1, <1>2 DEF NoIo
  <2> QED BY <1>1, <1>2, <2>1, <2>2, <2>3 DEF Buffers, NoIo
<1>5. name # "drop" => Over'
  BY <1>1 DEF Dropping, Over, Idle, NoCall
<1>6. Dropping' /\ Reading' /\ FreshBytes'
  BY <1>1, <1>2, <1>5 DEF Dropping, Reading, FreshBytes, NoIo, Latest
<1> QED BY <1>3, <1>4, <1>6 DEF BytesInv

\* The call goes on without a change of its buffer, and nothing is taken.
LEMMA KeepInv ==
  ASSUME BytesInv, Types', call'.name = call.name, call'.size = call.size, call'.has = call.has,
         Idle' <=> Idle, io' = io, kind' = kind, taken' = taken, dropped' = dropped, result' = result,
         Over => Over', port' # "none" \/ port' = port, call.name = "drop" => call'.expired = call.expired
  PROVE  BytesInv'
BY DEF BytesInv, Buffers, Dropping, Reading, FreshBytes

\* The operation goes on or is done, and the call keeps its buffer.
LEMMA IoInv ==
  ASSUME BytesInv, InUart, call.has = <<>>, call' = call, kind' = kind, hung' = hung,
         arrived' = arrived, dropped' = dropped, result' = result, Types',
         port' \in {port, "closed"}, port' # "none", taken' \in taken..arrived,
         io'.at # "none", io'.at = "posted" => io'.has # <<>>, Len(io'.has) <= call.size,
         io'.at = "waits" => Over',
         io'.at = "done" =>
           /\ io'.has = <<>> => Over'
           /\ io'.error = "none" => io'.has = <<>> \/ Len(io'.has) = call.size,
         call.name = "read" =>
           Latest(io'.has, taken') /\ \A i \in DOMAIN io'.has : io'.has[i] > dropped
  PROVE  BytesInv'
<1>1. /\ Buffers /\ Dropping /\ FreshBytes /\ Types
      /\ kind = "uart" /\ ~Idle
  BY DEF BytesInv, InUart
<1>2. /\ Len(io'.has) \in Nat /\ call'.has = <<>> /\ call'.size = call.size
      /\ call'.name = call.name /\ ~Idle' /\ call'.expired = call.expired
  BY <1>1 DEF Types, Ios, Idle
<1>3. Len(call'.has) <= call'.size /\ Len(io'.has) <= call'.size
  BY <1>1, <1>2 DEF Buffers
<1>4. Buffers'
  BY <1>1, <1>2, <1>3 DEF Buffers
<1>5. Over => Over'
  BY <1>1 DEF Over, Types
<1>6. Dropping' /\ Reading' /\ FreshBytes'
  BY <1>1, <1>5 DEF Dropping, Reading, FreshBytes, Latest
<1> QED BY <1>6, <1>4 DEF BytesInv

\* The operation takes what is there.
LEMMA GoesOnInv ==
  ASSUME BytesInv, InUart, call.has = <<>>, NEW async, async \in {io, NoIo}, Rest(async.has) > 0,
         port = "open", Attempt(async), call' = call, kind' = kind, hung' = hung, port' = port,
         arrived' = arrived, dropped' = dropped, result' = result
  PROVE  BytesInv'
<1>1. /\ io' \in Ios /\ taken' \in taken..arrived
      /\ io'.at \in {"waits", "posted"}
      /\ io'.at = "posted" => io'.has # <<>>
      /\ Len(io'.has) <= call.size
      /\ io'.at = "waits" => hung \/ taken' >= dropped
      /\ call.name = "read" =>
           Latest(io'.has, taken') /\ \A i \in DOMAIN io'.has : io'.has[i] > dropped
  BY AttemptInv
<1>2. Types'
  BY <1>1 DEF BytesInv, Types
<1>3. io'.at = "waits" => Over'
  BY <1>1 DEF Over
<1>4. port' \in {port, "closed"} /\ port' # "none" /\ io'.at # "none" /\ io'.at # "done"
  BY <1>1
<1> QED BY <1>1, <1>2, <1>3, <1>4, IoInv

LEMMA UartLoopInv ==
  ASSUME BytesInv, UartLoop
  PROVE  BytesInv'
<1>1. /\ Types /\ Buffers /\ Dropping /\ InUart /\ ~Idle /\ io = NoIo
      /\ kind' = kind /\ hung' = hung /\ port' = port /\ arrived' = arrived
      /\ dropped' = dropped /\ taken \in 0..arrived /\ arrived \in Nat
      /\ kind = "uart"
  BY DEF BytesInv, UartLoop, InUart, driverVars, Types
<1>2. ASSUME NEW status, Finish(status), call.name # "drop", taken' = taken,
             status = "ok" => Len(call.has) = call.size
      PROVE  BytesInv'
  <2>1. Over'
    BY <1>1, <1>2 DEF Dropping, Over
  <2> QED BY <1>1, <1>2, <2>1, FinishInv
<1>3. CASE call.name # "drop" /\ ~call.opened
  BY <1>2, <1>3 DEF UartLoop
<1>4. CASE call.name # "drop" /\ call.opened /\ Len(call.has) = call.size
  BY <1>2, <1>4 DEF UartLoop
<1>5. /\ ~(call.name # "drop" /\ ~call.opened)
      /\ ~(call.name # "drop" /\ call.opened /\ Len(call.has) = call.size)
      => call.has = <<>> /\ call.size \in Nat \ {0}
  BY <1>1 DEF Buffers, Types, Calls
<1>6. CASE /\ ~(call.name # "drop" /\ ~call.opened)
           /\ ~(call.name # "drop" /\ call.opened /\ Len(call.has) = call.size)
  <2>1. call.has = <<>> /\ call.size \in Nat \ {0} /\ Rest(NoIo.has) > 0
    BY <1>5, <1>6 DEF Rest, NoIo
  <2>2. CASE call.expired
    <3>1. Finish(TimedOutStatus) /\ taken' = taken /\ TimedOutStatus # "ok"
      BY <1>6, <2>2 DEF UartLoop, TimedOutStatus
    <3>2. CASE call.name # "drop"
      BY <1>2, <3>1, <3>2
    <3>3. CASE call.name = "drop"
      BY <1>1, <2>2, <3>3 DEF Buffers
    <3> QED BY <3>2, <3>3
  <2>3. CASE ~call.expired /\ port = "open"
    BY <1>1, <1>6, <2>1, <2>3, GoesOnInv DEF UartLoop
  <2>4. CASE ~call.expired /\ port # "open"
    <3>1. /\ io' = [NoIo EXCEPT !.at = "done", !.error = "failed"]
          /\ call' = call /\ result' = result /\ taken' = taken
      BY <1>6, <2>4 DEF UartLoop
    <3>2. io'.at = "done" /\ io'.has = <<>> /\ io'.error = "failed" /\ io' \in Ios
      BY <3>1, NothingInTypes DEF NoIo, Ios
    <3>3. port \in {"closed", "gone"} /\ Over'
      BY <1>1, <2>4 DEF Buffers, Types, Over
    <3>4. Types'
      BY <1>1, <3>1, <3>2 DEF Types
    <3>5. taken' \in taken..arrived
      BY <1>1, <3>1
    <3>6. Len(io'.has) <= call.size
      BY <2>1, <3>2
    <3> QED BY <1>1, <2>1, <3>1, <3>2, <3>3, <3>4, <3>5, <3>6, IoInv DEF Latest
  <2> QED BY <2>2, <2>3, <2>4
<1> QED BY <1>3, <1>4, <1>6

\* The handlers of the serial port while an operation is under way.
LEMMA HandlerInv ==
  ASSUME BytesInv, Transfer \/ Continue \/ DriverFails \/ TimerFires \/ CloseTimerFires
  PROVE  BytesInv'
<1>1. /\ Types /\ Buffers /\ Dropping /\ Reading /\ InUart /\ kind = "uart" /\ ~Idle
      /\ io.at # "none" /\ io \in Ios /\ call.size \in Nat /\ taken \in 0..arrived
      /\ arrived \in Nat
  BY DEF BytesInv, Transfer, Continue, DriverFails, TimerFires, CloseTimerFires, InUart, Types, Calls
<1>2. call.has = <<>> /\ port # "none" /\ io.has \in Seq(Nat) /\ Len(io.has) \in Nat
      /\ Len(io.has) <= call.size
  BY <1>1 DEF Buffers, NoIo, Ios
<1>3. Rest(io.has) = call.size - Len(io.has)
  BY <1>1, <1>2 DEF Rest
<1>4. /\ call' = call /\ kind' = kind /\ hung' = hung /\ arrived' = arrived
      /\ dropped' = dropped /\ result' = result
  BY DEF Transfer, Continue, DriverFails, TimerFires, CloseTimerFires, driverVars, lineVars
<1>5. CASE Transfer
  <2>1. Available(io.has) > 0 /\ Attempt(io) /\ port = "open" /\ port' = port
    BY <1>5 DEF Transfer, driverVars
  <2>2. Rest(io.has) > 0
    BY <1>1, <1>2, <1>3, <2>1 DEF Available, Min2
  <2> QED BY <1>1, <1>2, <1>4, <2>1, <2>2, GoesOnInv
<1>6. CASE Continue /\ Rest(io.has) > 0 /\ port = "open"
  BY <1>1, <1>2, <1>4, <1>6, GoesOnInv DEF Continue, driverVars
<1>7. ASSUME io' \in Ios, io'.at \in {"posted", "waits", "done"}, port' \in {port, "closed"},
             taken' = taken, io'.has = io.has \/ io'.has = <<>>, io'.at = "posted" => io'.has # <<>>,
             io'.at = "waits" => Over,
             io'.at = "done" /\ io'.has = <<>> => Over,
             io'.at = "done" /\ io'.error = "none" => io'.has = <<>> \/ Len(io'.has) = call.size
      PROVE  BytesInv'
  <2>1. Types'
    BY <1>1, <1>4, <1>7 DEF Types
  <2>2. Over => Over'
    BY <1>4, <1>7 DEF Over
  <2>3. Len(io'.has) <= call.size
    BY <1>1, <1>2, <1>7
  <2>4. call.name = "read" =>
          Latest(io'.has, taken') /\ \A i \in DOMAIN io'.has : io'.has[i] > dropped
    BY <1>1, <1>7 DEF Reading, Latest
  <2>5. port' # "none" /\ io'.at # "none" /\ taken' \in taken..arrived
    BY <1>1, <1>2, <1>7
  <2> QED BY <1>1, <1>2, <1>4, <1>7, <2>1, <2>2, <2>3, <2>4, <2>5, IoInv
<1>8. CASE Continue /\ ~(Rest(io.has) > 0 /\ port = "open")
  <2>1. /\ io' = [io EXCEPT !.at = "done", !.error = IF Rest(io.has) > 0 THEN "failed" ELSE "none"]
        /\ taken' = taken /\ port' = port /\ io.at = "posted"
    BY <1>8 DEF Continue, driverVars
  <2>2. /\ io' \in Ios /\ io'.at = "done" /\ io'.has = io.has
        /\ io'.error = IF Rest(io.has) > 0 THEN "failed" ELSE "none"
    BY <1>1, <2>1 DEF Ios
  <2>3. io.has # <<>>
    BY <1>1, <2>1 DEF Buffers
  <2>4. io'.error = "none" => Len(io'.has) = call.size
    BY <1>1, <1>2, <1>3, <2>2
  <2> QED BY <1>7, <2>1, <2>2, <2>3, <2>4
<1>9. CASE DriverFails
  <2>1. /\ \E e \in {"failed", "lost"} : io' = [io EXCEPT !.at = "done", !.error = e]
        /\ taken' = taken /\ port' = port /\ io.at = "waits"
    BY <1>9 DEF DriverFails, lineVars
  <2>2. io' \in Ios /\ io'.at = "done" /\ io'.has = io.has /\ io'.error # "none"
    BY <1>1, <2>1 DEF Ios
  <2>3. Over
    BY <1>1, <2>1 DEF Dropping
  <2> QED BY <1>7, <2>1, <2>2, <2>3
<1>10. <<>> \in Seq(Nat)
  OBVIOUS
<1>11. CASE TimerFires
  <2>1. /\ io' = IF io.at = "waits" /\ ~hung
                 THEN [io EXCEPT !.at = "done", !.timer = TRUE, !.has = <<>>]
                 ELSE [io EXCEPT !.timer = TRUE]
        /\ taken' = taken /\ port' = port /\ io.at \in {"waits", "posted"}
    BY <1>11 DEF TimerFires, driverVars, lineVars
  <2>2. CASE io.at = "waits" /\ ~hung
    <3>1. io' \in Ios /\ io'.at = "done" /\ io'.has = <<>>
      BY <1>1, <1>10, <2>1, <2>2 DEF Ios
    <3>2. Over
      BY <1>1, <2>2 DEF Dropping
    <3> QED BY <1>7, <2>1, <3>1, <3>2
  <2>3. CASE ~(io.at = "waits" /\ ~hung)
    <3>1. io' \in Ios /\ io'.at = io.at /\ io'.has = io.has
      BY <1>1, <2>1, <2>3 DEF Ios
    <3>2. /\ io.at = "waits" => Over
          /\ io.at = "posted" => io.has # <<>>
      BY <1>1 DEF Dropping, Buffers
    <3> QED BY <1>7, <2>1, <3>1, <3>2
  <2> QED BY <2>2, <2>3
<1>12. CASE CloseTimerFires
  <2>1. /\ io' = [io EXCEPT !.at = "done", !.has = <<>>]
        /\ taken' = taken /\ port' = "closed" /\ io.at = "waits"
    BY <1>12 DEF CloseTimerFires, lineVars
  <2>2. io' \in Ios /\ io'.at = "done" /\ io'.has = <<>>
    BY <1>1, <1>10, <2>1 DEF Ios
  <2>3. Over
    BY <1>1, <2>1 DEF Dropping
  <2> QED BY <1>7, <2>1, <2>2, <2>3
<1> QED BY <1>5, <1>6, <1>8, <1>9, <1>11, <1>12

\* An operation returns; a read takes over its buffer, a drop goes on until one is empty.
LEMMA AsyncReturnsInv ==
  ASSUME BytesInv, AsyncReturns
  PROVE  BytesInv'
<1>1. /\ Types /\ Buffers /\ Dropping /\ Reading /\ FreshBytes /\ ~Idle /\ kind = "uart"
      /\ io.at = "done" /\ io # NoIo /\ call.has = <<>>
      /\ kind' = kind /\ port' = port /\ hung' = hung /\ arrived' = arrived /\ taken' = taken
      /\ dropped' = dropped /\ taken \in 0..arrived /\ arrived \in Nat /\ call \in Calls
      /\ io.has \in Seq(Nat)
  BY DEF BytesInv, AsyncReturns, InUart, lineVars, Buffers, NoIo, Types, Ios
<1>2. ASSUME NEW status, Finish(status), status # "ok" \/ call.name = "drop", Over
      PROVE  BytesInv'
  <2>1. Over' /\ taken' \in taken..arrived
    BY <1>1, <1>2 DEF Over
  <2> QED BY <1>1, <1>2, <2>1, FinishInv
<1>3. CASE call.name = "drop" /\ io.has = <<>>
  <2>1. Finish("ok")
    BY <1>3 DEF AsyncReturns, EndDrop
  <2>2. Over
    BY <1>1, <1>3 DEF Dropping
  <2> QED BY <1>2, <1>3, <2>1, <2>2
<1>4. CASE call.name = "drop" /\ io.has # <<>>
  <2>1. io' = NoIo /\ call' = call /\ result' = result
    BY <1>4 DEF AsyncReturns, EndDrop
  <2>2. Types'
    BY <1>1, <2>1, NothingInTypes DEF Types
  <2>3. Buffers'
    BY <1>1, <2>1 DEF Buffers, Idle, NoIo
  <2>4. Dropping' /\ Reading' /\ FreshBytes'
    BY <1>1, <1>4, <2>1 DEF Dropping, Reading, FreshBytes, NoIo
  <2> QED BY <2>2, <2>3, <2>4 DEF BytesInv
<1>5. CASE call.name # "drop" /\ io.error # "none"
  <2>1. PICK status \in {"noConnection", "failed"} : Finish(status)
    BY <1>5 DEF AsyncReturns
  <2>2. Over
    BY <1>1, <1>5 DEF Dropping
  <2> QED BY <1>2, <2>1, <2>2
<1>6. CASE call.name # "drop" /\ io.error = "none"
  <2>1. io' = NoIo /\ call' = [call EXCEPT !.has = @ \o io.has] /\ result' = result
    BY <1>6 DEF AsyncReturns, TakeOver
  <2>2. <<>> \o io.has = io.has
    BY <1>1, ConcatEmptySeq
  <2>3. /\ call' \in Calls /\ call'.has = io.has /\ call'.name = call.name /\ call'.size = call.size
    BY <1>1, <2>1, <2>2 DEF Calls
  <2>4. Types'
    BY <1>1, <2>1, <2>3, NothingInTypes DEF Types
  <2>5. ~Idle'
    BY <1>1, <2>3 DEF Buffers, Idle, NoCall
  <2>6. io.has = <<>> \/ Len(io.has) = call.size
    BY <1>1, <1>6 DEF Buffers
  <2>7. Len(io'.has) <= call.size
    <3>1. Len(io'.has) = 0 /\ call.size \in Nat
      BY <1>1, <2>1 DEF NoIo, Calls
    <3> QED BY <3>1
  <2>8. Buffers'
    BY <1>1, <1>6, <2>1, <2>3, <2>5, <2>6, <2>7 DEF Buffers, NoIo
  <2>9. Dropping' /\ Reading' /\ FreshBytes'
    BY <1>1, <1>6, <2>1, <2>3 DEF Dropping, Over, Reading, FreshBytes, NoIo, Latest
  <2> QED BY <2>4, <2>8, <2>9 DEF BytesInv
<1> QED BY <1>3, <1>4, <1>5, <1>6

LEMMA EbusInv ==
  ASSUME BytesInv, EbusFails \/ EbusRead \/ EbusReturns
  PROVE  BytesInv'
<1>1. /\ Types /\ Buffers /\ Dropping /\ Reading /\ FreshBytes /\ ~Idle /\ kind = "ebus" /\ ~hung
      /\ io = NoIo /\ kind' = kind /\ port' = port /\ hung' = hung /\ arrived' = arrived
      /\ dropped' = dropped /\ arrived \in Nat /\ taken \in Nat /\ taken <= arrived /\ dropped \in Nat
      /\ dropped <= arrived /\ call \in Calls /\ call.size \in Nat
  BY DEF BytesInv, EbusFails, EbusRead, EbusReturns, InEbus, driverVars, lineVars, Buffers, Types, Calls
<1>2. ASSUME NEW status, Finish(status), taken' = taken, call.name # "drop",
             status = "ok" /\ call.name = "read" => Len(call.has) = call.size
      PROVE  BytesInv'
  <2>1. Over' /\ taken' \in taken..arrived
    BY <1>1, <1>2 DEF Dropping, Over
  <2> QED BY <1>1, <1>2, <2>1, FinishInv
<1>3. CASE EbusFails
  BY <1>2, <1>3 DEF EbusFails, lineVars
<1>4. CASE EbusRead /\ call.expired
  <2>1. Finish(TimedOutStatus) /\ taken' = taken /\ call.name = "read" /\ TimedOutStatus # "ok"
    BY <1>4 DEF EbusRead, TimedOutStatus
  <2> QED BY <1>2, <2>1
<1>5. CASE EbusRead /\ ~call.expired
  <2> DEFINE n == Available(<<>>)
             more == Numbered(taken, n)
             all == call.has \o more
  <2>1. /\ call' = [call EXCEPT !.has = all] /\ taken' = taken + n /\ io' = io /\ result' = result
        /\ call.name = "read" /\ port = "open" /\ Len(call.has) < call.size
        /\ arrived > taken
    BY <1>5 DEF EbusRead
  <2>2. call.has \in Seq(Nat) /\ Len(call.has) \in Nat
    BY <1>1 DEF Calls
  <2>3. n \in Nat /\ n <= call.size - Len(call.has) /\ n <= arrived - taken
    <3>1. Rest(<<>>) = call.size - Len(call.has)
      BY <1>1, <2>2 DEF Rest
    <3>2. Rest(<<>>) \in Nat /\ arrived - taken \in Nat
      BY <1>1, <2>1, <2>2, <3>1
    <3> QED BY <2>1, <3>1, <3>2 DEF Available, Min2
  <2> HIDE DEF n
  <2>4. taken >= dropped
    BY <1>1, <2>1 DEF Dropping, Over
  <2>5. /\ all \in Seq(Nat) /\ Len(all) = Len(call.has) + n
        /\ Latest(all, taken + n) /\ \A i \in DOMAIN all : all[i] > dropped
    BY <1>1, <2>1, <2>2, <2>3, <2>4, LatestGrows DEF Reading
  <2> HIDE DEF all
  <2>6. call' \in Calls /\ call'.name = call.name /\ call'.size = call.size /\ call'.has = all
    BY <1>1, <2>1, <2>5 DEF Calls
  <2>7. taken' \in 0..arrived /\ taken' >= dropped
    BY <1>1, <2>1, <2>3, <2>4
  <2>8. Types'
    BY <1>1, <2>1, <2>6, <2>7 DEF Types
  <2>9. Len(all) <= call.size
    BY <1>1, <2>2, <2>3, <2>5
  <2>10. Buffers'
    BY <1>1, <2>1, <2>6, <2>9 DEF Buffers, Idle, NoCall
  <2>11. Dropping' /\ Reading' /\ FreshBytes'
    BY <1>1, <2>1, <2>5, <2>6, <2>7 DEF Dropping, Over, Reading, FreshBytes, NoIo, Latest
  <2> QED BY <2>8, <2>10, <2>11 DEF BytesInv
<1>6. CASE EbusReturns /\ call.name # "drop"
  BY <1>2, <1>6 DEF EbusReturns
<1>7. CASE EbusReturns /\ call.name = "drop"
  <2>1. Finish("ok") /\ taken' = arrived
    BY <1>7 DEF EbusReturns
  <2>2. Over' /\ taken' \in taken..arrived
    BY <1>1, <2>1 DEF Over
  <2> QED BY <1>1, <1>7, <2>1, <2>2, FinishInv
<1> QED BY <1>3, <1>4, <1>5, <1>6, <1>7

\* Everything else leaves the calls and the bytes taken alone.
LEMMA BesideInv ==
  ASSUME BytesInv,
         \/ CreateUartConnection \/ CreateEbusConnection \/ CloseUart \/ CloseEbus
         \/ Expire \/ Arrive \/ DriverHangs \/ EbusDisconnected \/ StreamStep \/ UNCHANGED vars
  PROVE  BytesInv'
<1>1. Types /\ call \in Calls
  BY DEF BytesInv, Types
<1>2. /\ io' = io /\ kind' = kind /\ taken' = taken /\ dropped' = dropped /\ result' = result
      /\ hung' = hung \/ (hung' = TRUE /\ kind = "uart")
      /\ arrived' \in {arrived, arrived + 1}
      /\ port' = port \/ port' \in {"open", "closed", "gone"}
      /\ port \in {"closed", "gone"} => port' \in {"closed", "gone"}
  BY <1>1 DEF CreateUartConnection, CreateEbusConnection, CloseUart, CloseEbus, Expire, Arrive,
              DriverHangs, EbusDisconnected, StreamStep, vars, driverVars, lineVars, callVars, Types
<1>3. call' = call \/ (call.name # "drop" /\ call.name # "none" /\ call' = [call EXCEPT !.expired = TRUE])
  BY DEF CreateUartConnection, CreateEbusConnection, CloseUart, CloseEbus, Expire, Arrive,
         DriverHangs, EbusDisconnected, StreamStep, vars, callVars
<1>4. /\ call' \in Calls /\ call'.name = call.name /\ call'.size = call.size /\ call'.has = call.has
      /\ call.name = "drop" => call'.expired = call.expired
  BY <1>1, <1>3 DEF Calls
<1>5. Idle' <=> Idle
  BY <1>3, <1>4 DEF Idle, NoCall
<1>6. hung' \in BOOLEAN /\ (kind' = "ebus" => ~hung')
  <2>1. CASE hung' = hung
    BY <1>1, <1>2, <2>1 DEF Types
  <2>2. CASE hung' = TRUE /\ kind = "uart"
    BY <1>2, <2>2
  <2> QED BY <1>2, <2>1, <2>2
<1>7. Types'
  BY <1>1, <1>2, <1>4, <1>6 DEF Types
<1>8. Over => Over'
  BY <1>2 DEF Over
<1> QED BY <1>2, <1>4, <1>5, <1>7, <1>8, KeepInv

-----------------------------------------------------------------------------
(* The stream                                                              *)

Readings ==
  [at : {"idle", "noted", "chosen", "crashed"}, type : ImageTypes \cup {"none"},
   branch : ImageTypes \cup {"none"}, disturbed : BOOLEAN]

\* A stream that runs delivers what its type is made from; and unless a start for another
\* type has fallen into a read, the label and the branch are still the type of the stream.
FrameInv ==
  kind = "uart" =>
    /\ dataType \in ImageTypes /\ reading \in Readings
    /\ input # "none" => input = Delivered(dataType)
    /\ reading.at \in {"noted", "chosen"} /\ ~reading.disturbed => reading.type = dataType
    /\ reading.at = "chosen" /\ ~reading.disturbed => reading.branch = reading.type
    /\ FrameHasItsType

LEMMA FrameStep == FrameInv /\ [Next]_vars => FrameInv'
<1> SUFFICES ASSUME FrameInv, kind = "uart", [Next]_vars PROVE FrameInv'
  BY DEF FrameInv, Next, vars, CreateUartConnection, CreateEbusConnection, CloseUart, CloseEbus,
         Read, Write, DropPendingData, Begin, Expire, CallStep, UartLoop, Transfer, Continue,
         DriverFails, TimerFires, CloseTimerFires, AsyncReturns, EbusFails, EbusRead, EbusReturns,
         Arrive, DriverHangs, EbusDisconnected, StreamStep
<1> USE DEF FrameInv, FrameHasItsType
<1>1. CASE StartUartStream /\ UNCHANGED kind
  <2>1. PICK type \in ImageTypes :
          /\ dataType' = type /\ Disturb(type # reading.type) /\ image' = image
          /\ input' = "none" \/ input' = Delivered(type)
    BY <1>1 DEF StartUartStream
  <2>2. /\ reading' \in Readings /\ reading'.at = reading.at /\ reading'.type = reading.type
        /\ reading'.branch = reading.branch
        /\ ~reading'.disturbed => ~reading.disturbed /\ (reading.at # "idle" => type = reading.type)
    BY <2>1 DEF Disturb, Readings
  <2> QED BY <1>1, <2>1, <2>2
<1>2. CASE StopUartStream /\ UNCHANGED kind
  BY <1>2 DEF StopUartStream
<1>3. CASE ReadBegins /\ UNCHANGED kind
  BY <1>3 DEF ReadBegins, NotReading, Readings
<1>4. CASE ReadChooses /\ UNCHANGED kind
  BY <1>4 DEF ReadChooses, Readings
<1>5. CASE ReadUartFrame /\ UNCHANGED kind
  <2>1. CASE ReadFails
    BY <1>5, <2>1 DEF ReadFails, ReadUartFrame, NotReading, NoImage, Readings
  <2>2. CASE Crash /\ UNCHANGED image
    BY <1>5, <2>2 DEF Crash, ReadUartFrame, NotReading, Readings
  <2>3. CASE IsRunning /\ reading' = NotReading /\ image' = Image(reading.type, FrameData)
    <3>1. image'.data = FrameData /\ image'.type = reading.type /\ image'.disturbed = reading.disturbed
      BY <2>3 DEF Image
    <3>2. input # "none" /\ FrameData # "none"
      BY <2>3 DEF IsRunning, FrameData
    <3>3. ~reading.disturbed => FrameData = reading.type
      BY <1>5, <3>2 DEF FrameData, Delivered, ImageTypes, ReadUartFrame
    <3> QED BY <1>5, <2>3, <3>1, <3>2, <3>3 DEF ReadUartFrame, NotReading, Readings
  <2> QED BY <1>5, <2>1, <2>2, <2>3 DEF ReadUartFrame
<1>6. CASE UNCHANGED <<kind, streamVars>>
  BY <1>6 DEF streamVars
<1>7. CASE StreamStep
  BY <1>1, <1>2, <1>3, <1>4, <1>5, <1>7 DEF StreamStep
<1>8. CASE CloseUart
  BY <1>2, <1>8 DEF CloseUart
<1>9. CASE CallStep
  BY <1>6, <1>9 DEF CallStep, UartLoop, Transfer, Continue, DriverFails, TimerFires,
                    CloseTimerFires, AsyncReturns, EbusFails, EbusRead, EbusReturns
<1>10. CASE Read \/ Write \/ DropPendingData
  BY <1>6, <1>10 DEF Read, Write, DropPendingData, Begin
<1>11. CASE \/ CreateUartConnection \/ CreateEbusConnection \/ CloseEbus \/ Expire
            \/ Arrive \/ DriverHangs \/ EbusDisconnected \/ UNCHANGED vars
  BY <1>6, <1>11 DEF CreateUartConnection, CreateEbusConnection, CloseEbus, Expire, Arrive,
                     DriverHangs, EbusDisconnected, vars
<1> QED BY <1>7, <1>8, <1>9, <1>10, <1>11 DEF Next

-----------------------------------------------------------------------------
(* The theorems                                                            *)

\* The invariant of the bytes holds in every state.
LEMMA BytesInvariance == Spec => []BytesInv
<1>1. BytesInv /\ [Next]_vars => BytesInv'
  <2> SUFFICES ASSUME BytesInv, [Next]_vars PROVE BytesInv'
    OBVIOUS
  <2>1. ASSUME NEW size \in Sizes, Begin("read", size), dropped' = dropped PROVE BytesInv'
    BY <2>1, BeginInv, DataLinkAssumption DEF Begin
  <2>2. ASSUME NEW size \in Sizes, Begin("write", size), dropped' = dropped PROVE BytesInv'
    BY <2>2, BeginInv, DataLinkAssumption DEF Begin
  <2>3. CASE DropPendingData
    BY <2>3, BeginInv, DataLinkAssumption DEF DropPendingData, Begin
  <2>4. CASE CallStep
    BY <2>4, UartLoopInv, HandlerInv, AsyncReturnsInv, EbusInv DEF CallStep
  <2> QED BY <2>1, <2>2, <2>3, <2>4, BesideInv DEF Next, Read, Write
<1> QED BY <1>1, InitBytes, PTL DEF Spec

\* FreshBytes: for any buffers, faults and timers an ok read gives bytes without a hole and
\* none from before the last drop.
THEOREM BytesAreFresh == Spec => []FreshBytes
<1>1. BytesInv => FreshBytes
  BY DEF BytesInv
<1> QED BY <1>1, BytesInvariance, PTL

\* FrameHasItsType: an ok image of a serial port comes from a stream that runs, however starts and
\* stops meet the reader; and only a start for another type within its read, which nothing in
\* the code prevents, gives it a label that its data do not have.
THEOREM FramesHaveTheirTypes == Spec => []FrameHasItsType
<1>1. LinkInit => FrameInv
  BY DEF LinkInit, StreamInit, FrameInv, FrameHasItsType, NotReading, NoImage, ImageTypes, Readings
<1>2. FrameInv => FrameHasItsType
  BY DEF FrameInv, FrameHasItsType
<1> QED BY <1>1, <1>2, FrameStep, PTL DEF Spec

-----------------------------------------------------------------------------
(* The data link implements ByteStream                                     *)

\* The bytes of the read under way are the ones behind those that are gone.
GoneInv ==
  /\ Gone \in 0..taken
  /\ Reads /\ call.has # <<>> =>
       /\ io.has = <<>> /\ dropped <= Gone
       /\ Len(call.has) = taken - Gone
       /\ \A i \in DOMAIN call.has : call.has[i] = Gone + i

LEMMA Differences ==
  /\ \A byte, length, last, i \in Int : byte + length = last + i => byte = last - length + i
  /\ \A all, more, top, a, b, c \in Nat : c <= b + (more - all) /\ more <= top =>
       more - a - c \in (all - a - b)..top
OBVIOUS

LEMMA BehindGone ==
  ASSUME NEW has \in Seq(Nat), NEW last \in Nat, NEW low \in Nat, Latest(has, last), has # <<>>,
         \A i \in DOMAIN has : has[i] > low
  PROVE  /\ Len(has) <= last /\ low <= last - Len(has)
         /\ \A i \in DOMAIN has : has[i] = last - Len(has) + i
<1>1. PICK length \in Nat : length = Len(has)
  OBVIOUS
<1>2. DOMAIN has = 1..length /\ length # 0 /\ \A i \in 1..length : has[i] \in Nat
  BY <1>1
<1>3. \A i \in 1..length : has[i] + length = last + i /\ has[i] > low
  BY <1>1, <1>2 DEF Latest
<1>4. PICK first \in Nat : first = has[1]
  BY <1>2
<1>5. first + length = last + 1 /\ first > low
  BY <1>2, <1>3, <1>4
<1>6. length <= last /\ low <= last - length
  BY <1>5
<1>7. ASSUME NEW i \in 1..length PROVE has[i] = last - length + i
  <2>1. PICK byte \in Nat : byte = has[i]
    BY <1>2
  <2>2. byte + length = last + i
    BY <1>3, <2>1
  <2>3. byte = last - length + i
    <3>1. byte \in Int /\ length \in Int /\ last \in Int /\ i \in Int
      OBVIOUS
    <3> QED BY <2>2, <3>1, Differences
  <2> QED BY <2>1, <2>3
<1> QED BY <1>1, <1>2, <1>6, <1>7

LEMMA GoneKept == BytesInv => GoneInv
<1> SUFFICES ASSUME BytesInv PROVE GoneInv
  OBVIOUS
<1>1. /\ call \in Calls /\ call.has \in Seq(Nat) /\ io.has \in Seq(Nat)
      /\ taken \in Nat /\ dropped \in Nat
      /\ kind \in {"uart", "ebus"}
  BY DEF BytesInv, Types, Calls, Ios
<1>2. call.has = <<>> \/ io.has = <<>>
  BY <1>1 DEF BytesInv, Buffers, NoIo
<1>3. CASE ~Reads
  BY <1>1, <1>3 DEF GoneInv, Gone
<1>4. CASE Reads /\ call.has # <<>>
  <2>1. Gone = taken - Len(call.has)
    <3>1. Len(io.has) = 0 /\ Len(call.has) \in Nat
      BY <1>1, <1>2, <1>4
    <3>2. Gone = taken - Len(call.has) - Len(io.has)
      BY <1>4 DEF Gone
    <3> QED BY <1>1, <3>1, <3>2
  <2>2. /\ Len(call.has) <= taken /\ dropped <= taken - Len(call.has)
        /\ \A i \in DOMAIN call.has : call.has[i] = taken - Len(call.has) + i
    BY <1>1, <1>4, BehindGone DEF BytesInv, Reading, Reads
  <2> QED BY <1>1, <1>2, <1>4, <2>1, <2>2 DEF GoneInv
<1>5. CASE Reads /\ call.has = <<>>
  <2>1. Gone = taken - Len(io.has)
    BY <1>1, <1>5 DEF Gone
  <2>2. Len(io.has) <= taken
    <3>1. CASE io.has = <<>>
      BY <1>1, <3>1
    <3>2. CASE io.has # <<>>
      BY <1>1, <1>5, <3>2, BehindGone DEF BytesInv, Reading, Reads
    <3> QED BY <3>1, <3>2
  <2> QED BY <1>1, <1>5, <2>1, <2>2 DEF GoneInv
<1> QED BY <1>3, <1>4, <1>5

\* A call returns: a read that is ok gives, everything else ends without.
LEMMA FinishStep ==
  ASSUME BytesInv, ~Idle, NEW status, Finish(status), arrived' = arrived, dropped' = dropped,
         taken' \in taken..arrived, call.name # "drop" => taken' = taken,
         status = "ok" /\ Reads => Len(call.has) = call.size
  PROVE  Stream!Give \/ Stream!EndOther
<1>1. /\ Types /\ GoneInv /\ call.name # "none" /\ call.size # 0 /\ call.size \in Nat
      /\ call.has \in Seq(Nat) /\ arrived \in Nat /\ taken \in Nat /\ taken <= arrived
  BY GoneKept DEF BytesInv, Buffers, Types, Calls
<1>2. /\ call'.name = "none" /\ Gone' = taken'
      /\ result' = [name |-> call.name, status |-> status, has |-> call.has, after |-> dropped]
  BY DEF Finish, NoCall, Gone, Reads
<1>3. ~Reads'
  BY <1>2 DEF Reads
<1>4. CASE Reads /\ status = "ok"
  <2>1. /\ Len(call.has) = call.size /\ call.has # <<>> /\ taken' = taken
        /\ Given' = call.has
    BY <1>1, <1>2, <1>4 DEF Given, Reads
  <2>2. /\ Gone \in Nat /\ dropped <= Gone /\ call.size = taken - Gone
        /\ DOMAIN call.has = 1..call.size
        /\ \A i \in 1..call.size : call.has[i] = Gone + i
    BY <1>1, <1>4, <2>1 DEF GoneInv
  <2>3. call.has = [ i \in 1..call.size |-> Gone + i ]
    BY <1>1, <2>2
  <2>4. Gone' = Gone + call.size /\ Gone' <= arrived
    BY <1>1, <1>2, <2>1, <2>2
  <2>5. (call'.name = "drop") = (call.name = "drop")
    BY <1>2, <1>4 DEF Reads
  <2> QED BY <1>1, <1>3, <1>4, <2>1, <2>2, <2>3, <2>4, <2>5 DEF Stream!Give
<1>5. CASE ~(Reads /\ status = "ok")
  <2>1. Given' = <<>>
    BY <1>2, <1>5 DEF Given, Reads
  <2>2. Gone' \in Gone..arrived
    BY <1>1, <1>2 DEF GoneInv
  <2>3. ~Reads /\ call.name # "drop" => Gone' = Gone
    BY <1>2 DEF Gone
  <2>4. (call'.name = "drop") = FALSE
    BY <1>2
  <2>5. Stream!Idle => ~Reads /\ call.name # "drop"
    BY <1>1 DEF Stream!Idle
  <2> QED BY <1>3, <2>1, <2>2, <2>3, <2>4, <2>5 DEF Stream!EndOther
<1> QED BY <1>4, <1>5

\* A call begins.
LEMMA BeginStep ==
  ASSUME BytesInv, Idle, NEW name \in {"read", "write", "drop"}, NEW size \in Nat, Begin(name, size),
         dropped' = IF name = "drop" THEN arrived ELSE dropped
  PROVE  IF name = "read" THEN Stream!Ask(size)
         ELSE IF name = "drop" THEN Stream!Drop ELSE UNCHANGED Stream!vars
<1>1. /\ call = NoCall /\ io = NoIo /\ io' = io /\ taken' = taken /\ arrived' = arrived
      /\ result' = result /\ call' = [NoCall EXCEPT !.name = name, !.size = size, !.opened = (port = "open")]
      /\ taken \in Nat
  BY DEF BytesInv, Types, Buffers, Idle, Begin, lineVars
<1>2. /\ call.name = "none" /\ call'.name = name /\ call'.size = size
      /\ call'.has = <<>> /\ io'.has = <<>>
  BY <1>1 DEF NoCall, NoIo
<1>3. Gone = taken /\ Gone' = taken
  BY <1>1, <1>2 DEF Gone, Reads
<1>4. Given' = Given
  BY <1>1 DEF Given
<1> QED BY <1>1, <1>2, <1>3, <1>4
        DEF Reads, Stream!Ask, Stream!Drop, Stream!vars, Stream!Idle

\* A call goes on: what it has may move from the operation to the call.
LEMMA SameStep ==
  ASSUME call'.name = call.name, call'.size = call.size, result' = result, taken' = taken,
         dropped' = dropped, Reads => Len(call'.has) + Len(io'.has) = Len(call.has) + Len(io.has),
         BytesInv, BytesInv', arrived' = arrived \/ arrived' = arrived + 1
  PROVE  Stream!Arrive \/ UNCHANGED Stream!vars
<1>1. /\ Len(call.has) \in Nat /\ Len(io.has) \in Nat /\ Len(call'.has) \in Nat
      /\ Len(io'.has) \in Nat /\ taken \in Nat
  BY DEF BytesInv, Types, Calls, Ios
<1>2. Gone' = Gone
  <2>1. CASE Reads
    <3>1. PICK a, b, c, d \in Nat : /\ a = Len(call'.has) /\ b = Len(io'.has)
                                   /\ c = Len(call.has) /\ d = Len(io.has)
      BY <1>1
    <3>2. a + b = c + d
      BY <2>1, <3>1
    <3>3. taken - a - b = taken - c - d
      BY <1>1, <3>2
    <3>4. Gone = taken - c - d /\ Gone' = taken - a - b
      BY <2>1, <3>1 DEF Gone, Reads
    <3> QED BY <3>3, <3>4
  <2>2. CASE ~Reads
    BY <2>2 DEF Gone, Reads
  <2> QED BY <2>1, <2>2
<1>3. Given' = Given
  BY DEF Given
<1> QED BY <1>2, <1>3 DEF Reads, Stream!Arrive, Stream!vars

\* The operation takes bytes, or forgets what it has.
LEMMA IoStep ==
  ASSUME BytesInv, BytesInv', ~Idle, call' = call, arrived' = arrived, dropped' = dropped,
         result' = result, taken' \in taken..arrived,
         Reads => Len(io'.has) <= Len(io.has) + (taken' - taken),
         Reads \/ call.name = "drop" \/ taken' = taken
  PROVE  Stream!Lose \/ UNCHANGED Stream!vars
<1>1. /\ Len(call.has) \in Nat /\ Len(io.has) \in Nat /\ Len(io'.has) \in Nat /\ taken \in Nat
      /\ taken' \in Nat /\ arrived \in Nat /\ call.size # 0 /\ taken' <= arrived
  BY DEF BytesInv, Types, Buffers, Calls, Ios
<1>2. Given' = Given
  BY DEF Given
<1>3. CASE Reads
  <2>1. PICK a, b, c \in Nat : a = Len(call.has) /\ b = Len(io.has) /\ c = Len(io'.has)
    BY <1>1
  <2>2. c <= b + (taken' - taken)
    BY <1>3, <2>1
  <2>3. taken' - a - c \in (taken - a - b)..arrived
    BY <1>1, <2>2, Differences
  <2>4. Gone = taken - a - b /\ Gone' = taken' - a - c
    BY <1>3, <2>1 DEF Gone, Reads
  <2>5. Gone' \in Gone..arrived
    BY <2>3, <2>4
  <2> QED BY <1>1, <1>2, <1>3, <2>5 DEF Reads, Stream!Lose, Stream!Idle
<1>4. CASE call.name = "drop"
  <2>1. Gone' \in Gone..arrived
    BY <1>1, <1>4 DEF Gone, Reads
  <2> QED BY <1>2, <1>4, <2>1 DEF Reads, Stream!Lose, Stream!Idle
<1>5. CASE ~Reads /\ taken' = taken
  BY <1>2, <1>5 DEF Gone, Reads, Stream!vars
<1> QED BY <1>3, <1>4, <1>5

LEMMA AttemptStep ==
  ASSUME BytesInv, BytesInv', InUart, call.has = <<>>, NEW async, async \in {io, NoIo},
         Len(async.has) = Len(io.has), Rest(async.has) > 0, port = "open", Attempt(async),
         call' = call, arrived' = arrived, dropped' = dropped, result' = result
  PROVE  Stream!Lose \/ UNCHANGED Stream!vars
<1>1. /\ taken' \in taken..arrived /\ ~Idle
      /\ Reads => Len(io'.has) <= Len(io.has) + (taken' - taken)
      /\ call.name = "write" => taken' = taken
  BY AttemptInv DEF InUart, Reads
<1>2. Reads \/ call.name = "drop" \/ call.name = "write"
  BY <1>1 DEF BytesInv, Types, Calls, Buffers, Reads
<1> QED BY <1>1, <1>2, IoStep

\* What the steps of a call are to the stream.
StreamStepOrHidden == Stream!Next \/ UNCHANGED Stream!vars

LEMMA UartLoopStep ==
  ASSUME BytesInv, BytesInv', UartLoop
  PROVE  StreamStepOrHidden
<1> USE DEF StreamStepOrHidden, Stream!Next
<1>1. /\ InUart /\ ~Idle /\ io = NoIo /\ kind = "uart" /\ arrived' = arrived /\ dropped' = dropped
      /\ taken \in 0..arrived /\ arrived \in Nat
  BY DEF BytesInv, UartLoop, InUart, driverVars, Types
<1>2. ASSUME NEW status, Finish(status), call.name # "drop", taken' = taken,
             status = "ok" => Len(call.has) = call.size
      PROVE  StreamStepOrHidden
  BY <1>1, <1>2, FinishStep
<1>3. CASE call.name # "drop" /\ (~call.opened \/ Len(call.has) = call.size)
  BY <1>2, <1>3 DEF UartLoop
<1>4. CASE ~(call.name # "drop" /\ (~call.opened \/ Len(call.has) = call.size))
  <2>1. call.has = <<>> /\ call.size \in Nat \ {0} /\ Rest(NoIo.has) > 0
    <3>1. call.has = <<>> /\ call.size \in Nat \ {0}
      BY <1>1, <1>4 DEF BytesInv, Buffers, Types, Calls
    <3> QED BY <3>1 DEF Rest, NoIo
  <2>2. CASE call.expired
    <3>1. call.name # "drop" /\ Finish(TimedOutStatus) /\ taken' = taken /\ TimedOutStatus # "ok"
      BY <1>4, <2>2 DEF UartLoop, TimedOutStatus, BytesInv, Buffers
    <3> QED BY <1>2, <3>1
  <2>3. CASE ~call.expired /\ port = "open"
    BY <1>1, <1>4, <2>1, <2>3, AttemptStep DEF UartLoop
  <2>4. CASE ~call.expired /\ port # "open"
    <3>1. /\ io' = [NoIo EXCEPT !.at = "done", !.error = "failed"]
          /\ call' = call /\ result' = result /\ taken' = taken
      BY <1>4, <2>4 DEF UartLoop
    <3>2. io'.has = io.has
      BY <1>1, <3>1 DEF NoIo
    <3> QED BY <1>1, <3>1, <3>2, SameStep
  <2> QED BY <2>2, <2>3, <2>4
<1> QED BY <1>3, <1>4

LEMMA HandlerStep ==
  ASSUME BytesInv, BytesInv', Transfer \/ Continue \/ DriverFails \/ TimerFires \/ CloseTimerFires
  PROVE  StreamStepOrHidden
<1> USE DEF StreamStepOrHidden, Stream!Next
<1>1. /\ InUart /\ kind = "uart" /\ ~Idle /\ io \in Ios /\ call.size \in Nat
      /\ taken \in 0..arrived /\ arrived \in Nat
      /\ call.has = <<>> /\ io.has \in Seq(Nat) /\ Len(io.has) \in Nat
  <2>1. InUart /\ io.at # "none"
    BY DEF Transfer, Continue, DriverFails, TimerFires, CloseTimerFires
  <2>2. kind = "uart" /\ ~Idle
    BY <2>1 DEF InUart
  <2>3. /\ io \in Ios /\ call \in Calls /\ taken \in 0..arrived /\ arrived \in Nat
        /\ call.has = <<>> \/ io = NoIo
    BY <2>2 DEF BytesInv, Buffers, Types
  <2>4. call.has = <<>>
    BY <2>1, <2>3 DEF NoIo
  <2> QED BY <2>1, <2>2, <2>3, <2>4 DEF Ios, Calls
<1>2. call' = call /\ arrived' = arrived /\ dropped' = dropped /\ result' = result
  BY DEF Transfer, Continue, DriverFails, TimerFires, CloseTimerFires, driverVars, lineVars
<1>3. CASE Transfer
  <2>1. Available(io.has) > 0 /\ Attempt(io) /\ port = "open"
    BY <1>3 DEF Transfer
  <2>2. Rest(io.has) > 0
    BY <1>1, <2>1 DEF Available, Min2, Rest
  <2> QED BY <1>1, <1>2, <2>1, <2>2, AttemptStep
<1>4. CASE Continue /\ Rest(io.has) > 0 /\ port = "open"
  BY <1>1, <1>2, <1>4, AttemptStep DEF Continue
<1>5. CASE DriverFails \/ TimerFires \/ CloseTimerFires
           \/ (Continue /\ ~(Rest(io.has) > 0 /\ port = "open"))
  <2>1. taken' = taken /\ io'.has \in {io.has, <<>>}
    BY <1>1, <1>5 DEF Ios, DriverFails, TimerFires, CloseTimerFires, Continue, lineVars
  <2>2. Len(io'.has) <= Len(io.has) + (taken' - taken) /\ taken' \in taken..arrived
    BY <1>1, <2>1
  <2> QED BY <1>1, <1>2, <2>1, <2>2, IoStep
<1> QED BY <1>3, <1>4, <1>5

LEMMA AsyncReturnsStep ==
  ASSUME BytesInv, BytesInv', AsyncReturns
  PROVE  StreamStepOrHidden
<1> USE DEF StreamStepOrHidden, Stream!Next
<1>1. /\ ~Idle /\ call.has = <<>> /\ arrived' = arrived /\ taken' = taken /\ dropped' = dropped
      /\ taken \in 0..arrived /\ arrived \in Nat /\ call \in Calls /\ io.has \in Seq(Nat)
  BY DEF BytesInv, AsyncReturns, InUart, lineVars, Buffers, NoIo, Types, Ios
<1>2. ASSUME NEW status, Finish(status), status # "ok" \/ call.name = "drop"
      PROVE  StreamStepOrHidden
  BY <1>1, <1>2, FinishStep DEF Reads
<1>3. CASE call.name = "drop" /\ io.has = <<>>
  BY <1>2, <1>3 DEF AsyncReturns, EndDrop
<1>4. CASE call.name = "drop" /\ io.has # <<>>
  <2>1. call' = call /\ result' = result
    BY <1>4 DEF AsyncReturns, EndDrop
  <2> QED BY <1>1, <1>4, <2>1, SameStep DEF Reads
<1>5. CASE call.name # "drop" /\ io.error # "none"
  <2>1. PICK status \in {"noConnection", "failed"} : Finish(status)
    BY <1>5 DEF AsyncReturns
  <2> QED BY <1>2, <2>1
<1>6. CASE call.name # "drop" /\ io.error = "none"
  <2>1. io' = NoIo /\ call' = [call EXCEPT !.has = @ \o io.has] /\ result' = result
    BY <1>6 DEF AsyncReturns, TakeOver
  <2>2. <<>> \o io.has = io.has
    BY <1>1, ConcatEmptySeq
  <2>3. call'.has = io.has /\ call'.name = call.name /\ call'.size = call.size
    BY <1>1, <2>1, <2>2 DEF Calls
  <2>4. Len(call'.has) + Len(io'.has) = Len(call.has) + Len(io.has)
    <3>1. Len(io'.has) = 0 /\ Len(call.has) = 0 /\ Len(io.has) \in Nat
      BY <1>1, <2>1 DEF NoIo
    <3> QED BY <2>3, <3>1
  <2> QED BY <1>1, <2>1, <2>3, <2>4, SameStep
<1> QED BY <1>3, <1>4, <1>5, <1>6

LEMMA EbusStep ==
  ASSUME BytesInv, BytesInv', EbusFails \/ EbusRead \/ EbusReturns
  PROVE  StreamStepOrHidden
<1> USE DEF StreamStepOrHidden, Stream!Next
<1>1. /\ ~Idle /\ io = NoIo /\ arrived' = arrived /\ dropped' = dropped /\ arrived \in Nat
      /\ taken \in 0..arrived /\ call \in Calls /\ call.size \in Nat
      /\ call.has \in Seq(Nat) /\ Len(call.has) \in Nat
  BY DEF BytesInv, EbusFails, EbusRead, EbusReturns, InEbus, driverVars, lineVars, Buffers, Types, Calls
<1>2. ASSUME NEW status, Finish(status), call.name # "drop" => taken' = taken,
             taken' \in taken..arrived, status = "ok" /\ Reads => Len(call.has) = call.size
      PROVE  StreamStepOrHidden
  BY <1>1, <1>2, FinishStep
<1>3. CASE EbusFails
  BY <1>1, <1>2, <1>3 DEF EbusFails, lineVars
<1>4. CASE EbusRead /\ call.expired
  BY <1>1, <1>2, <1>4 DEF EbusRead, TimedOutStatus
<1>5. CASE EbusRead /\ ~call.expired
  <2> DEFINE n == Available(<<>>)
             more == Numbered(taken, n)
             all == call.has \o more
  <2>1. /\ call' = [call EXCEPT !.has = all] /\ taken' = taken + n /\ io' = io /\ result' = result
        /\ call.name = "read" /\ Len(call.has) < call.size /\ arrived > taken
    BY <1>5 DEF EbusRead
  <2>2. n \in Nat /\ n <= arrived - taken
    <3>1. Rest(<<>>) = call.size - Len(call.has) /\ arrived - taken \in Nat
      BY <1>1, <2>1 DEF Rest
    <3> QED BY <1>1, <2>1, <3>1 DEF Available, Min2
  <2> HIDE DEF n
  <2>3. Len(all) = Len(call.has) + n
    <3>0. taken \in Nat
      BY <1>1
    <3>1. more \in Seq(Nat) /\ Len(more) = n
      BY <2>2, <3>0, NumberedBytes
    <3> HIDE DEF more
    <3> QED BY <1>1, <3>1, ConcatProperties
  <2> HIDE DEF all
  <2>4. call'.name = call.name /\ call'.size = call.size /\ call'.has = all
    BY <1>1, <2>1 DEF Calls
  <2>5. Gone' = Gone
    <3>1. PICK had, has \in Nat : had = Len(call.has) /\ has = Len(all) /\ has = had + n
      BY <1>1, <2>2, <2>3
    <3>2. Len(io.has) = 0 /\ Len(io'.has) = 0
      BY <1>1, <2>1 DEF NoIo
    <3>3. /\ Gone = taken - Len(call.has) - Len(io.has)
          /\ Gone' = taken' - Len(call'.has) - Len(io'.has)
      BY <2>1, <2>4 DEF Gone, Reads
    <3>4. Gone = taken - had - 0 /\ Gone' = (taken + n) - has - 0
      BY <2>1, <2>4, <3>1, <3>2, <3>3
    <3> QED BY <1>1, <2>2, <3>1, <3>4
  <2>6. Given' = Given
    BY <2>1 DEF Given
  <2> QED BY <1>1, <2>1, <2>4, <2>5, <2>6 DEF Reads, Stream!vars
<1>6. CASE EbusReturns
  BY <1>1, <1>2, <1>6 DEF EbusReturns, Reads
<1> QED BY <1>3, <1>4, <1>5, <1>6

LEMMA BesideStep ==
  ASSUME BytesInv, BytesInv',
         \/ CreateUartConnection \/ CreateEbusConnection \/ CloseUart \/ CloseEbus
         \/ Expire \/ Arrive \/ DriverHangs \/ EbusDisconnected \/ StreamStep \/ UNCHANGED vars
  PROVE  StreamStepOrHidden
<1>1. /\ io' = io /\ taken' = taken /\ dropped' = dropped /\ result' = result
      /\ arrived' = arrived \/ arrived' = arrived + 1
  BY DEF CreateUartConnection, CreateEbusConnection, CloseUart, CloseEbus, Expire, Arrive,
         DriverHangs, EbusDisconnected, StreamStep, vars, lineVars, callVars
<1>2. call' = call \/ call' = [call EXCEPT !.expired = TRUE]
  BY DEF CreateUartConnection, CreateEbusConnection, CloseUart, CloseEbus, Expire, Arrive,
         DriverHangs, EbusDisconnected, StreamStep, vars, callVars
<1>3. call'.name = call.name /\ call'.size = call.size /\ call'.has = call.has
  BY <1>2 DEF BytesInv, Types, Calls
<1> QED BY <1>1, <1>3, SameStep DEF StreamStepOrHidden, Stream!Next

\* ImplementsByteStream: for any sizes of buffers and blocks, any number of calls, and timers,
\* errors and hanging drivers at any moment, a read that is ok has filled its buffer with the
\* next bytes, and no byte is given twice or lost outside a read or a drop.
THEOREM Refinement == Spec => ImplementsByteStream
<1>1. LinkInit => Stream!Init
  BY DEF LinkInit, Stream!Init, Gone, Given, Reads, NoCall
<1>2. BytesInv /\ [Next]_vars /\ BytesInv' => [Stream!Next]_(Stream!vars)
  <2> SUFFICES ASSUME BytesInv, [Next]_vars, BytesInv' PROVE StreamStepOrHidden
    BY DEF StreamStepOrHidden
  <2>1. CASE Read \/ Write \/ DropPendingData
    <3>1. ASSUME NEW size \in Sizes, Begin("read", size), dropped' = dropped
          PROVE  StreamStepOrHidden
      <4>1. Stream!Ask(size)
        BY <3>1, BeginStep, DataLinkAssumption DEF Begin
      <4> QED BY <4>1 DEF StreamStepOrHidden, Stream!Next
    <3>2. ASSUME NEW size \in Sizes, Begin("write", size), dropped' = dropped
          PROVE  StreamStepOrHidden
      BY <3>2, BeginStep, DataLinkAssumption DEF Begin, StreamStepOrHidden
    <3>3. CASE DropPendingData
      <4>1. Stream!Drop
        BY <3>3, BeginStep, DataLinkAssumption DEF DropPendingData, Begin
      <4> QED BY <4>1 DEF StreamStepOrHidden, Stream!Next
    <3> QED BY <2>1, <3>1, <3>2, <3>3 DEF Read, Write
  <2>2. CASE CallStep
    BY <2>2, UartLoopStep, HandlerStep, AsyncReturnsStep, EbusStep DEF CallStep
  <2> QED BY <2>1, <2>2, BesideStep DEF Next
<1> QED BY <1>1, <1>2, BytesInvariance, PTL DEF Spec, ImplementsByteStream, Stream!Spec

-----------------------------------------------------------------------------
(* What is left of a call that cannot go on for ever: a call of eBUS, a drop, and a read  *)
(* or write of the serial port whose time is over.                                        *)

Ending == ~Idle /\ (kind = "ebus" \/ call.name = "drop" \/ call.expired)

\* The bytes it may still transfer: a drop takes what has come in, another operation of the
\* serial port goes on until its buffer is full, and is the last of its call.
Ahead == IF call.name = "drop" THEN arrived - taken
         ELSE IF io.at \in {"waits", "posted"} THEN Rest(io.has) ELSE 0

\* Each byte may take a handler and another wait; bytes that are held take a further
\* operation of a drop; each timer fires once.
Held  == IF io.has # <<>> THEN 5 ELSE 0
Stage == CASE io.at = "none"   -> IF call.name = "drop" THEN 5 ELSE 0
           [] io.at = "waits"  -> IF io.timer THEN 2 ELSE 3
           [] io.at = "posted" -> IF io.timer THEN 4 ELSE 5
           [] io.at = "done"   -> 1

StepsLeft == IF kind = "ebus" THEN Rest(<<>>) + 1 ELSE 10 * Ahead + Held + Stage

\* Each step of the thread of such a call ends it or lowers what is left, and only a byte that
\* comes in during a drop raises it.
CallWindsDown ==
  Ending =>
    IF CallStep THEN call' = NoCall \/ StepsLeft' < StepsLeft
    ELSE StepsLeft' <= StepsLeft + (IF call.name = "drop" THEN 10 * (arrived' - arrived) ELSE 0)

\* A call that ends has at most so many steps left, whatever the driver does.
CallIsBounded ==
  Ending => StepsLeft \in 0..10 * (IF call.name = "drop" /\ kind = "uart"
                                   THEN arrived - taken ELSE call.size) + 10

LEMMA CallTypes ==
  ASSUME BytesInv
  PROVE  /\ call \in Calls /\ call.size \in Nat /\ call.has \in Seq(Nat) /\ Len(call.has) \in Nat
         /\ io \in Ios /\ io.has \in Seq(Nat) /\ Len(io.has) \in Nat /\ io.timer \in BOOLEAN
         /\ io.at \in {"none", "posted", "waits", "done"}
         /\ arrived \in Nat /\ taken \in Nat /\ taken <= arrived
         /\ call.size - Len(call.has) \in Nat /\ call.size - Len(io.has) \in Nat
         /\ Held \in {0, 5} /\ Stage \in 0..5
<1>1. /\ call \in Calls /\ io \in Ios /\ arrived \in Nat /\ taken \in 0..arrived
      /\ Len(call.has) <= call.size /\ Len(io.has) <= call.size
  BY DEF BytesInv, Types, Buffers
<1>2. /\ call.size \in Nat /\ call.has \in Seq(Nat) /\ io.has \in Seq(Nat)
      /\ io.timer \in BOOLEAN /\ io.at \in {"none", "posted", "waits", "done"}
  BY <1>1 DEF Calls, Ios
<1>3. Len(call.has) \in Nat /\ Len(io.has) \in Nat
  BY <1>2
<1>4. Held \in {0, 5} /\ Stage \in 0..5
  BY <1>2 DEF Held, Stage
<1> QED BY <1>1, <1>2, <1>3, <1>4

\* While an operation is under way, its bytes are the only ones of the call.
LEMMA AheadIsRest ==
  ASSUME BytesInv, kind = "uart", ~Idle
  PROVE  /\ Ahead \in Nat
         /\ io.at \in {"waits", "posted"} /\ call.name # "drop" =>
              call.has = <<>> /\ Ahead = call.size - Len(io.has)
<1>1. CASE call.name = "drop"
  BY <1>1, CallTypes DEF Ahead
<1>2. CASE call.name # "drop" /\ io.at \in {"waits", "posted"}
  <2>1. call.has = <<>>
    BY <1>2 DEF BytesInv, Buffers, NoIo
  <2>2. Len(call.has) = 0
    BY <2>1
  <2>3. Ahead = call.size - Len(io.has)
    BY <1>2, <2>2, CallTypes DEF Ahead, Rest
  <2> QED BY <1>2, <2>1, <2>3, CallTypes
<1>3. CASE call.name # "drop" /\ io.at \notin {"waits", "posted"}
  BY <1>3 DEF Ahead
<1> QED BY <1>1, <1>2, <1>3

LEMMA BoundHolds == BytesInv => CallIsBounded
<1> SUFFICES ASSUME BytesInv, Ending
             PROVE  StepsLeft \in 0..10 * (IF call.name = "drop" /\ kind = "uart"
                                           THEN arrived - taken ELSE call.size) + 10
  BY DEF CallIsBounded
<1>1. CASE kind = "ebus"
  <2>1. Len(<<>>) = 0 /\ StepsLeft = (call.size - Len(call.has)) + 1
    BY <1>1, CallTypes DEF StepsLeft, Rest
  <2>2. PICK more \in Nat : more = call.size - Len(call.has)
    BY CallTypes
  <2>3. more <= call.size
    BY <2>2, CallTypes
  <2> QED BY <1>1, <2>1, <2>2, <2>3, CallTypes
<1>2. CASE kind # "ebus"
  <2>1. kind = "uart" /\ ~Idle
    BY <1>2 DEF BytesInv, Types, Ending
  <2>2. Ahead \in Nat /\ Held \in {0, 5} /\ Stage \in 0..5 /\ StepsLeft = 10 * Ahead + Held + Stage
    BY <1>2, <2>1, AheadIsRest, CallTypes DEF StepsLeft
  <2>3. Ahead <= IF call.name = "drop" THEN arrived - taken ELSE call.size
    BY <2>1, AheadIsRest, CallTypes DEF Ahead
  <2>4. call.size \in Nat /\ arrived - taken \in Nat
    BY CallTypes
  <2> QED BY <2>1, <2>2, <2>3, <2>4
<1> QED BY <1>1, <1>2

LEMMA SpendSum ==
  ASSUME NEW ahead \in Nat, NEW fewer \in Nat, NEW held \in {0, 5}, NEW keeps \in {0, 5},
         NEW before \in 0..5, NEW after \in 0..5,
         \/ fewer < ahead /\ before # 0
         \/ fewer <= ahead /\ keeps <= held /\ after < before
  PROVE  10 * fewer + keeps + after < 10 * ahead + held + before
BY SMT

\* One of the operations that compose an asynchronous operation: bytes are taken, or it waits
\* where a handler had been posted or nothing begun.
LEMMA AttemptSpends ==
  ASSUME BytesInv, BytesInv', InUart, call.has = <<>>, NEW async, async \in {io, NoIo},
         Rest(async.has) > 0, port = "open", Attempt(async),
         call' = call, arrived' = arrived, kind' = kind,
         \/ async = io /\ io.at = "posted"
         \/ async = io /\ io.at = "waits" /\ ~hung /\ Available(io.has) > 0
         \/ async = NoIo /\ io = NoIo /\ call.name = "drop"
  PROVE  StepsLeft' < StepsLeft
<1> DEFINE n == IF hung THEN 0 ELSE Available(async.has)
           more == Numbered(taken, n)
<1>1. /\ async = io \/ (async = NoIo /\ io = NoIo)
      /\ kind = "uart" /\ ~Idle /\ ~Idle'
  BY DEF InUart, Idle
<1>2. async = io
  BY <1>1
<1>3. /\ Len(call.has) = 0 /\ Len(io.has) \in Nat /\ call.size \in Nat
      /\ Rest(io.has) = call.size - Len(io.has) /\ Rest(io.has) \in Nat \ {0}
      /\ arrived - taken \in Nat
  BY <1>2, CallTypes DEF Rest
<1>4. n \in Nat /\ n <= Rest(io.has) /\ (call.name # "write" => n <= arrived - taken)
  BY <1>2, <1>3 DEF Available, Min2
<1>5. io.at = "waits" => n > 0
  BY <1>2, <1>4 DEF NoIo
<1> HIDE DEF n
<1>6. more \in Seq(Nat) /\ Len(more) = n
  BY <1>4, CallTypes, NumberedBytes
<1> HIDE DEF more
<1>7. /\ io' = [io EXCEPT !.at = IF n > 0 THEN "posted" ELSE "waits", !.has = io.has \o more]
      /\ taken' = IF call.name = "write" THEN taken ELSE taken + n
  BY <1>2 DEF Attempt, n, more
<1>8. /\ io'.at = (IF n > 0 THEN "posted" ELSE "waits") /\ io'.has = io.has \o more
      /\ io'.timer = io.timer
  BY <1>7, CallTypes DEF Ios
<1>9. Len(io'.has) = Len(io.has) + n
  <2>1. io.has \in Seq(Nat)
    BY CallTypes
  <2>2. Len(io.has \o more) = Len(io.has) + Len(more)
    BY <1>6, <2>1, ConcatProperties
  <2> QED BY <1>6, <1>8, <2>2
<1>10. n = 0 => Len(io'.has) = Len(io.has)
  BY <1>3, <1>9
<1>11. (io.has = <<>> <=> Len(io.has) = 0) /\ (io'.has = <<>> <=> Len(io'.has) = 0)
  BY CallTypes, <1>6, <1>8, ConcatProperties, EmptySeq
<1>12. n = 0 => Held' = Held
  BY <1>10, <1>11 DEF Held
<1>13. Held' \in {0, 5} /\ Held \in {0, 5}
  BY <1>11, CallTypes DEF Held
<1>14. Ahead' = Ahead - n /\ Ahead \in Nat /\ n <= Ahead
  <2>1. CASE call.name = "drop"
    BY <1>3, <1>4, <1>7, <2>1, CallTypes DEF Ahead
  <2>2. CASE call.name # "drop"
    <3>1. io.at \in {"waits", "posted"} /\ io'.at \in {"waits", "posted"}
      BY <1>2, <1>8, <2>2
    <3>2. Ahead = Rest(io.has) /\ Ahead' = Rest(io.has)'
      BY <2>2, <3>1 DEF Ahead
    <3>3. Rest(io.has)' = call.size - Len(io'.has)
      <4>1. Rest(io.has)' = call.size - Len(call.has) - Len(io'.has)
        BY DEF Rest
      <4>2. PICK now \in Nat : now = Len(io'.has)
        BY <1>3, <1>4, <1>9
      <4> QED BY <1>3, <4>1, <4>2
    <3> QED BY <1>3, <1>4, <1>9, <3>2, <3>3
  <2> QED BY <2>1, <2>2
<1>15. /\ StepsLeft = 10 * Ahead + Held + Stage /\ StepsLeft' = 10 * Ahead' + Held' + Stage'
  BY <1>1 DEF StepsLeft
<1>16. CASE n > 0
  <2>1. Stage' \in 0..5 /\ Stage \in 2..5
    BY <1>8, <1>16, CallTypes DEF Stage, NoIo
  <2>2. Ahead' \in Nat /\ Ahead' < Ahead /\ Stage # 0 /\ Stage \in 0..5
    BY <1>4, <1>14, <1>16, <2>1
  <2> QED BY <1>13, <1>14, <1>15, <2>1, <2>2, SpendSum
<1>17. CASE n = 0
  <2>1. io'.at = "waits" /\ io.at # "waits"
    BY <1>5, <1>8, <1>17
  <2>2. Stage' \in 2..3 /\ Stage \in 4..5
    BY <1>2, <1>8, <2>1, CallTypes DEF Stage, NoIo
  <2>3. Ahead' = Ahead /\ Held' <= Held /\ Stage' < Stage /\ Stage \in 0..5 /\ Stage' \in 0..5
    BY <1>12, <1>13, <1>14, <1>17, <2>2
  <2> QED BY <1>13, <1>14, <1>15, <2>3, SpendSum
<1> QED BY <1>4, <1>16, <1>17

LEMMA UartLoopSpends ==
  ASSUME BytesInv, BytesInv', Ending, UartLoop
  PROVE  call' = NoCall \/ StepsLeft' < StepsLeft
<1>1. /\ InUart /\ ~Idle /\ kind = "uart" /\ io = NoIo /\ arrived' = arrived /\ kind' = kind
      /\ call.name = "drop" \/ call.expired
  BY DEF UartLoop, InUart, driverVars, Ending
<1>2. CASE call.name # "drop" \/ call.expired
  BY <1>1, <1>2 DEF UartLoop, Finish
<1>3. CASE call.name = "drop" /\ ~call.expired /\ port = "open"
  <2>1. /\ Attempt(NoIo) /\ call' = call
    BY <1>3 DEF UartLoop
  <2>2. call.has = <<>> /\ call.size \in Nat \ {0} /\ Len(<<>>) = 0
    BY <1>1, <1>3, CallTypes DEF BytesInv, Buffers
  <2>3. Rest(NoIo.has) > 0
    BY <2>2 DEF Rest, NoIo
  <2> QED BY <1>1, <1>3, <2>1, <2>2, <2>3, AttemptSpends
<1>4. CASE call.name = "drop" /\ ~call.expired /\ port # "open"
  <2>1. io' = [NoIo EXCEPT !.at = "done", !.error = "failed"] /\ call' = call /\ taken' = taken
    BY <1>4 DEF UartLoop
  <2>2. /\ io.at = "none" /\ io'.at = "done" /\ io.has = <<>> /\ io'.has = <<>>
    BY <1>1, <2>1 DEF NoIo
  <2>3. Ahead' = Ahead /\ Held' = Held /\ Stage' = 1 /\ Stage = 5
    BY <1>1, <1>4, <2>1, <2>2 DEF Ahead, Held, Stage
  <2>4. Ahead \in Nat /\ Held \in {0, 5}
    BY <1>1, AheadIsRest, CallTypes
  <2> QED BY <1>1, <2>3, <2>4 DEF StepsLeft
<1> QED BY <1>2, <1>3, <1>4

LEMMA HandlerSpends ==
  ASSUME BytesInv, BytesInv', Transfer \/ Continue \/ DriverFails \/ TimerFires \/ CloseTimerFires
  PROVE  StepsLeft' < StepsLeft
<1>1. /\ InUart /\ kind = "uart" /\ ~Idle /\ io.at \in {"waits", "posted"} /\ call' = call
      /\ arrived' = arrived /\ kind' = kind
  BY DEF Transfer, Continue, DriverFails, TimerFires, CloseTimerFires, InUart, driverVars, lineVars
<1>2. call.has = <<>>
  BY <1>1 DEF BytesInv, Buffers, NoIo
<1>3. CASE Transfer
  <2>1. Available(io.has) > 0 /\ Attempt(io) /\ port = "open" /\ io.at = "waits" /\ ~hung
    BY <1>3 DEF Transfer
  <2>2. Len(<<>>) = 0 /\ call.size - Len(io.has) \in Nat /\ Len(io.has) \in Nat /\ call.size \in Nat
    BY CallTypes
  <2>3. Rest(io.has) \in Nat
    BY <1>2, <2>2 DEF Rest
  <2>4. Rest(io.has) > 0
    BY <2>1, <2>3, CallTypes DEF Available, Min2
  <2> QED BY <1>1, <1>2, <2>1, <2>4, AttemptSpends
<1>4. CASE Continue /\ Rest(io.has) > 0 /\ port = "open"
  <2>1. Attempt(io) /\ io.at = "posted"
    BY <1>4 DEF Continue
  <2> QED BY <1>1, <1>2, <1>4, <2>1, AttemptSpends
<1>5. CASE \/ DriverFails \/ TimerFires \/ CloseTimerFires
           \/ (Continue /\ ~(Rest(io.has) > 0 /\ port = "open"))
  <2>1. /\ taken' = taken /\ io'.has \in {io.has, <<>>}
        /\ \/ io'.at = "done"
           \/ io'.at = io.at /\ io'.has = io.has /\ ~io.timer /\ io'.timer
    BY <1>1, <1>5, CallTypes DEF Ios, DriverFails, TimerFires, CloseTimerFires, Continue, lineVars
  <2>2. Held' <= Held /\ Held' \in {0, 5} /\ Held \in {0, 5}
    BY <2>1 DEF Held
  <2>3. Stage' < Stage /\ Stage' \in 1..4 /\ Stage \in 2..5
    BY <1>1, <2>1, CallTypes DEF Stage
  <2>4. Ahead' <= Ahead /\ Ahead \in Nat /\ Ahead' \in Nat
    <3>1. Ahead \in Nat
      BY <1>1, AheadIsRest
    <3>2. CASE call.name = "drop" \/ io'.at # "done"
      BY <1>1, <2>1, <3>1, <3>2 DEF Ahead, Rest
    <3>3. CASE call.name # "drop" /\ io'.at = "done"
      BY <1>1, <3>1, <3>3 DEF Ahead
    <3> QED BY <3>2, <3>3
  <2>5. StepsLeft = 10 * Ahead + Held + Stage /\ StepsLeft' = 10 * Ahead' + Held' + Stage'
    BY <1>1 DEF StepsLeft
  <2>6. Stage \in 0..5 /\ Stage' \in 0..5
    BY <2>3
  <2> QED BY <2>2, <2>3, <2>4, <2>5, <2>6, SpendSum
<1> QED BY <1>3, <1>4, <1>5

LEMMA AsyncReturnsSpends ==
  ASSUME BytesInv, BytesInv', AsyncReturns
  PROVE  call' = NoCall \/ StepsLeft' < StepsLeft
<1>1. /\ InUart /\ kind = "uart" /\ ~Idle /\ io.at = "done"
      /\ arrived' = arrived /\ kind' = kind /\ taken' = taken
  BY DEF AsyncReturns, InUart, lineVars
<1>2. CASE call.name = "drop" /\ io.has # <<>>
  <2>1. io' = NoIo /\ call' = call
    BY <1>2 DEF AsyncReturns, EndDrop
  <2>2. Held = 5 /\ Held' = 0 /\ Stage = 1 /\ Stage' = 5 /\ Ahead' = Ahead
    BY <1>1, <1>2, <2>1 DEF Held, Stage, Ahead, NoIo
  <2>3. Ahead \in Nat
    BY <1>1, AheadIsRest
  <2> QED BY <1>1, <2>2, <2>3 DEF StepsLeft
<1>3. CASE call.name # "drop" /\ io.error = "none"
  <2>1. io' = NoIo /\ call' = [call EXCEPT !.has = @ \o io.has]
    BY <1>3 DEF AsyncReturns, TakeOver
  <2>2. call'.name = call.name
    BY <2>1, CallTypes DEF Calls
  <2>3. Held' = 0 /\ Stage = 1 /\ Stage' = 0 /\ Ahead' = 0 /\ Ahead = 0
    BY <1>1, <1>3, <2>1, <2>2 DEF Held, Stage, Ahead, NoIo
  <2>4. Held \in {0, 5}
    BY CallTypes
  <2> QED BY <1>1, <2>3, <2>4 DEF StepsLeft
<1>4. CASE (call.name = "drop" /\ io.has = <<>>) \/ (call.name # "drop" /\ io.error # "none")
  BY <1>4 DEF AsyncReturns, EndDrop, Finish
<1> QED BY <1>2, <1>3, <1>4

LEMMA EbusSpends ==
  ASSUME BytesInv, BytesInv', EbusFails \/ EbusRead \/ EbusReturns
  PROVE  call' = NoCall \/ StepsLeft' < StepsLeft
<1>1. CASE EbusRead /\ ~call.expired
  <2> DEFINE n == Available(<<>>)
             more == Numbered(taken, n)
  <2>1. /\ kind = "ebus" /\ kind' = kind /\ call' = [call EXCEPT !.has = call.has \o more]
        /\ arrived > taken /\ Len(call.has) < call.size
    BY <1>1 DEF EbusRead, InEbus
  <2>2. Len(<<>>) = 0 /\ Rest(<<>>) = call.size - Len(call.has) /\ Rest(<<>>) \in Nat \ {0}
    BY <2>1, CallTypes DEF Rest
  <2>3. n \in Nat \ {0}
    BY <2>1, <2>2, CallTypes DEF Available, Min2
  <2> HIDE DEF n
  <2>4. more \in Seq(Nat) /\ Len(more) = n
    BY <2>3, CallTypes, NumberedBytes
  <2> HIDE DEF more
  <2>5. call'.has = call.has \o more /\ call'.size = call.size
    BY <2>1, CallTypes DEF Calls
  <2>6. Len(call'.has) = Len(call.has) + n
    BY <2>4, <2>5, CallTypes, ConcatProperties
  <2>7. Rest(<<>>)' = call.size - (Len(call.has) + n)
    BY <2>2, <2>3, <2>5, <2>6, CallTypes DEF Rest
  <2>8. StepsLeft = Rest(<<>>) + 1 /\ StepsLeft' = Rest(<<>>)' + 1
    BY <2>1 DEF StepsLeft
  <2>9. PICK room \in Nat, given \in Nat : room = call.size - Len(call.has) /\ given = Len(call.has)
    BY CallTypes
  <2>10. call.size = room + given
    BY <2>9, CallTypes
  <2> QED BY <2>2, <2>3, <2>7, <2>8, <2>9, <2>10
<1>2. CASE EbusFails \/ EbusReturns \/ (EbusRead /\ call.expired)
  BY <1>2 DEF EbusFails, EbusReturns, EbusRead, Finish
<1> QED BY <1>1, <1>2

\* What is not a step of the thread of the call adds at most a byte to be dropped.
LEMMA BesideSpends ==
  ASSUME BytesInv, BytesInv', Ending,
         \/ CreateUartConnection \/ CreateEbusConnection \/ CloseUart \/ CloseEbus
         \/ Expire \/ Arrive \/ DriverHangs \/ EbusDisconnected \/ StreamStep \/ UNCHANGED vars
  PROVE  StepsLeft' <= StepsLeft + (IF call.name = "drop" THEN 10 * (arrived' - arrived) ELSE 0)
<1>1. /\ io' = io /\ kind' = kind /\ taken' = taken /\ arrived' \in {arrived, arrived + 1}
      /\ call' = call \/ call' = [call EXCEPT !.expired = TRUE]
  BY DEF CreateUartConnection, CreateEbusConnection, CloseUart, CloseEbus, Expire, Arrive,
         DriverHangs, EbusDisconnected, StreamStep, vars, driverVars, lineVars, callVars
<1>2. call'.name = call.name /\ call'.size = call.size /\ call'.has = call.has
  BY <1>1, CallTypes DEF Calls
<1>3. Rest(io.has)' = Rest(io.has) /\ Rest(<<>>)' = Rest(<<>>) /\ Held' = Held /\ Stage' = Stage
  BY <1>1, <1>2 DEF Rest, Held, Stage
<1>4. CASE kind = "ebus"
  <2>1. StepsLeft' = StepsLeft /\ StepsLeft \in Nat
    <3>1. Len(<<>>) = 0 /\ Rest(<<>>) = call.size - Len(call.has)
      BY CallTypes DEF Rest
    <3> QED BY <1>1, <1>3, <1>4, <3>1, CallTypes DEF StepsLeft
  <2> QED BY <1>1, <2>1, CallTypes
<1>5. CASE kind # "ebus"
  <2>1. kind = "uart" /\ ~Idle
    BY <1>5 DEF BytesInv, Types, Ending
  <2>2. Ahead \in Nat /\ Held \in {0, 5} /\ Stage \in 0..5
    BY <2>1, AheadIsRest, CallTypes
  <2>3. Ahead' = Ahead + (IF call.name = "drop" THEN arrived' - arrived ELSE 0)
    <3>1. CASE call.name = "drop"
      BY <1>1, <1>2, <3>1, CallTypes DEF Ahead
    <3>2. CASE call.name # "drop"
      BY <1>1, <1>2, <1>3, <2>2, <3>2 DEF Ahead
    <3> QED BY <3>1, <3>2
  <2>4. StepsLeft = 10 * Ahead + Held + Stage /\ StepsLeft' = 10 * Ahead' + Held' + Stage'
    BY <1>1, <1>5 DEF StepsLeft
  <2>5. arrived' - arrived \in 0..1
    BY <1>1, CallTypes
  <2> QED BY <1>3, <2>2, <2>3, <2>4, <2>5
<1> QED BY <1>4, <1>5

\* A drop, a call of eBUS, and a read or write whose time is over come nearer to their end
\* with each step of their thread, however the driver fails, hangs or is closed: with
\* CallsAreBounded the first takes ten steps for a byte, the others ten for a byte of
\* their buffer, and ten more.
THEOREM CallsWindDown == Spec => [][CallWindsDown]_vars
<1>1. BytesInv /\ BytesInv' /\ [Next]_vars => [CallWindsDown]_vars
  <2> SUFFICES ASSUME BytesInv, BytesInv', Next, Ending
               PROVE  IF CallStep THEN call' = NoCall \/ StepsLeft' < StepsLeft
                      ELSE StepsLeft' <= StepsLeft
                             + (IF call.name = "drop" THEN 10 * (arrived' - arrived) ELSE 0)
    BY DEF CallWindsDown
  <2>1. CASE CallStep
    BY <2>1, UartLoopSpends, HandlerSpends, AsyncReturnsSpends, EbusSpends DEF CallStep
  <2>2. CASE ~CallStep
    <3>1. ~(Read \/ Write \/ DropPendingData)
      BY DEF Ending, Read, Write, DropPendingData, Begin
    <3> QED BY <2>2, <3>1, BesideSpends DEF Next
  <2> QED BY <2>1, <2>2
<1> QED BY <1>1, BytesInvariance, PTL DEF Spec

\* How many steps are left is bounded by the buffer, or by the bytes that have come in.
THEOREM CallsAreBounded == Spec => []CallIsBounded
BY BoundHolds, BytesInvariance, PTL

=============================================================================
