-------------------- MODULE DeviceInterfaceWtc640Proofs --------------------
(***************************************************************************)
(* Proofs about the long reads and writes, for any threads, any sectors    *)
(* and any limits.  Good says what holds of one thread, whatever the       *)
(* others do: a step of a thread keeps its own and leaves the others'      *)
(* alone.  Only the mutex is shared.  The last section counts the packets  *)
(* that a read or write outside flash memory has left.                     *)
(***************************************************************************)
EXTENDS DeviceInterfaceWtc640, FiniteSetTheorems, TLAPS

----------------------------------------------------------------------------
(* The inductive invariant *)

PCs        == Sending \cup {"idle", "locking"}
Windows    == [1..WindowSize -> BOOLEAN]
Operations == [kind : Kinds, sector : Nat, sent : Nat, window : Windows,
               busy : 0..BusyLimit, counter : 0..MaxErrors]
Records    == [missing : SUBSET (Nat \X Nat), recent : Windows]

\* The position of an operation o at p is within its sectors, and a packet that is to be
\* sent is one of its sector.
GoodPosition(p, o) ==
  /\ o.sector \in 1..Len(Sectors[o.kind]) /\ o.sent \in 0..Sectors[o.kind][o.sector]
  /\ p = "locking" => o.sector = 1 /\ o.sent = 0
  /\ p = "packet" => o.sent < Sectors[o.kind][o.sector]
  /\ p \in {"start", "end"} => o.kind = "flash"

\* What is missing is still to be sent: nothing of the sectors before, and of the current
\* one only what has not been sent in this burst.
GoodMissing(p, o, missing) ==
  \A m \in missing :
    /\ m[1] \in o.sector..Len(Sectors[o.kind]) /\ m[2] \in 1..Sectors[o.kind][m[1]]
    /\ m[1] = o.sector =>
         /\ p # "end"
         /\ p \in {"locking", "packet"} => m[2] > o.sent

\* Outside flash memory the window of the code is the record of its last packets.
GoodWindow(p, o, recent) ==
  p \in {"locking", "packet"} /\ o.kind # "flash" =>
    recent = o.window /\ Errors(o.window) <= MaxErrors

Good(p, o, r, s) ==
  /\ p \in PCs /\ o \in Operations /\ r \in {"none", "ok", "error"} /\ s \in Records
  /\ GoodPosition(p, o)
  /\ p # "idle" => GoodMissing(p, o, s.missing)
  /\ r = "ok" => p = "idle" /\ s.missing = {}
  /\ GoodWindow(p, o, s.recent)

\* The mutex is shared by the senders of reads and writes, or a flash write has it alone.
Mutex ==
  /\ writer \in Threads \cup {Nobody}
  /\ readers = {t \in Threads : pc[t] \in Sending /\ ~IsFlash(t)}
  /\ \A t \in Threads : writer = t <=> pc[t] \in Sending /\ IsFlash(t)
  /\ writer = Nobody \/ readers = {}

\* What holds of each thread by itself.
ThreadsInv ==
  /\ pc \in [Threads -> PCs] /\ op \in [Threads -> Operations]
  /\ result \in [Threads -> {"none", "ok", "error"}] /\ seen \in [Threads -> Records]
  /\ \A t \in Threads : Good(pc[t], op[t], result[t], seen[t])

IInv == ThreadsInv /\ Mutex

----------------------------------------------------------------------------
(* The error window *)

\* The limits are numbers, with room for a sector to be tried once.
LEMMA LimitTypes ==
  /\ WindowSize \in Nat /\ WindowSize > 1
  /\ MaxErrors \in Nat /\ 0 \in 0..MaxErrors /\ 1 \in 0..MaxErrors
  /\ BusyLimit \in Nat /\ 0 \in 0..BusyLimit
BY DeviceAssumption

\* The operations on windows yield windows.
LEMMA WindowTypes ==
  /\ EmptyWindow \in Windows
  /\ \A w \in Windows : SetNewest(w) \in Windows
  /\ \A w \in Windows : \A bit \in BOOLEAN : Shift(w, bit) \in Windows
<1>1. WindowSize \in Nat /\ WindowSize > 1
  BY LimitTypes
<1>2. EmptyWindow \in Windows /\ \A w \in Windows : SetNewest(w) \in Windows
  BY DEF EmptyWindow, Windows, SetNewest
<1>3. ASSUME NEW w \in Windows, NEW bit \in BOOLEAN PROVE Shift(w, bit) \in Windows
  <2>1. \A i \in 1..WindowSize : i # 1 => i - 1 \in 1..WindowSize
    BY <1>1
  <2>2. QED
    BY <2>1 DEF Windows, Shift
<1>4. QED
  BY <1>2, <1>3

\* Shifting in a failure is shifting in nothing and setting the newest bit.
LEMMA SetNewestOfShift ==
  ASSUME NEW w \in Windows
  PROVE  SetNewest(Shift(w, FALSE)) = Shift(w, TRUE)
<1> DEFINE f == SetNewest(Shift(w, FALSE))
           g == Shift(w, TRUE)
<1>1. f \in [1..WindowSize -> BOOLEAN] /\ g \in [1..WindowSize -> BOOLEAN]
  BY WindowTypes DEF Windows
<1>2. \A i \in 1..WindowSize : f[i] = g[i]
  BY LimitTypes DEF SetNewest, Shift
<1>3. f = [i \in 1..WindowSize |-> f[i]] /\ g = [i \in 1..WindowSize |-> g[i]]
  BY <1>1
<1>4. QED
  <2> HIDE DEF f, g
  <2>1. [i \in 1..WindowSize |-> f[i]] = [i \in 1..WindowSize |-> g[i]]
    BY <1>2
  <2>2. f = g
    BY <1>3, <2>1
  <2>3. QED
    BY <2>2 DEF f, g

\* The errors of a window are finitely many, and a packet without a failure adds none.
LEMMA ShiftAddsNoError ==
  ASSUME NEW w \in Windows
  PROVE  Errors(w) \in Nat /\ Errors(Shift(w, FALSE)) <= Errors(w)
<1> DEFINE before == {i \in 1..WindowSize : w[i]}
           after  == {i \in 1..WindowSize : Shift(w, FALSE)[i]}
           back   == [i \in after |-> i - 1]
<1>1. IsFiniteSet(before)
  <2>1. IsFiniteSet(1..WindowSize)
    BY LimitTypes, FS_Interval
  <2>2. QED
    BY <2>1, FS_Subset
<1>2. \A i \in after : i \in Nat /\ i - 1 \in before
  BY LimitTypes DEF Shift
<1>3. back \in Injection(after, before)
  <2>1. back \in [after -> before]
    BY <1>2
  <2>2. ASSUME NEW a \in after, NEW c \in after, back[a] = back[c] PROVE a = c
    <3>1. a \in Nat /\ c \in Nat /\ back[a] = a - 1 /\ back[c] = c - 1
      BY <1>2
    <3>2. back[a] = back[c]
      BY <2>2
    <3>3. QED
      <4> HIDE DEF back, after, before
      <4>1. QED
        BY <3>1, <3>2
  <2>3. QED
    BY <2>1, <2>2 DEF Injection, IsInjective
<1>4. Cardinality(after) <= Cardinality(before) /\ Cardinality(before) \in Nat
  BY <1>1, <1>3, FS_Injection, FS_CardinalityType
<1>5. QED
  BY <1>4 DEF Errors

\* So a window within the limit stays within it.
LEMMA NoMoreErrors ==
  ASSUME NEW w \in Windows, Errors(w) <= MaxErrors
  PROVE  Errors(Shift(w, FALSE)) <= MaxErrors
<1> DEFINE old == Errors(w)
           new == Errors(Shift(w, FALSE))
<1>1. old \in Nat /\ new \in Nat /\ new <= old
  BY WindowTypes, ShiftAddsNoError
<1>2. old <= MaxErrors /\ MaxErrors \in Nat
  BY LimitTypes
<1>3. QED
  <2> HIDE DEF old, new
  <2>1. new <= MaxErrors
    BY <1>1, <1>2
  <2>2. QED
    BY <2>1 DEF new

\* An operation begins without errors.
LEMMA EmptyWindowHasNoErrors == Errors(EmptyWindow) = 0
<1>1. {i \in 1..WindowSize : EmptyWindow[i]} = {}
  BY DEF EmptyWindow
<1>2. QED
  BY <1>1, FS_EmptySet DEF Errors

----------------------------------------------------------------------------
(* What a step of one thread leaves of the invariant *)

\* Every operation has sectors, every sector packets; other memory has one sector.
LEMMA SectorsTypes ==
  ASSUME NEW k \in Kinds
  PROVE  /\ Sectors[k] \in Seq(Nat \ {0}) /\ Len(Sectors[k]) \in Nat \ {0}
         /\ \A s \in 1..Len(Sectors[k]) : Sectors[k][s] \in Nat \ {0}
         /\ k # "flash" => Len(Sectors[k]) = 1
<1>1. Sectors[k] \in Seq(Nat \ {0}) /\ Sectors[k] # <<>>
  BY DeviceAssumption
<1>2. k # "flash" => Len(Sectors[k]) = 1
  BY DeviceAssumption
<1>3. QED
  BY <1>1, <1>2

\* An operation begins at the first packet of its first sector.
LEMMA OperationIsGood ==
  ASSUME NEW k \in Kinds, NEW p \in {"idle", "locking"}
  PROVE  Operation(k) \in Operations /\ GoodPosition(p, Operation(k))
<1>1. 1 \in 1..Len(Sectors[k]) /\ Sectors[k][1] \in Nat \ {0}
  BY SectorsTypes
<1>2. 0 \in 0..BusyLimit /\ 0 \in 0..MaxErrors
  BY LimitTypes
<1>3. QED
  BY <1>1, <1>2, WindowTypes DEF Operation, Operations, GoodPosition

\* A thread without an operation is good, whatever the last one returned.
LEMMA NoOperationIsGood ==
  ASSUME NEW r \in {"none", "ok", "error"}
  PROVE  Good("idle", NoOperation, r, NoRecord)
<1>1. PICK k \in Kinds : NoOperation = Operation(k)
  BY DeviceAssumption DEF NoOperation
<1>2. NoRecord \in Records /\ NoRecord.missing = {}
  BY WindowTypes DEF NoRecord, Record, Records
<1>3. QED
  BY <1>1, <1>2, OperationIsGood DEF Good, PCs, GoodWindow

\* The other threads stay as good as they were.
LEMMA Frame ==
  ASSUME ThreadsInv, NEW t \in Threads, NEW p, NEW o, NEW r, NEW s, Good(p, o, r, s),
         pc' = [pc EXCEPT ![t] = p], op' = [op EXCEPT ![t] = o],
         result' = [result EXCEPT ![t] = r], seen' = [seen EXCEPT ![t] = s]
  PROVE  ThreadsInv'
<1>1. p \in PCs /\ o \in Operations /\ r \in {"none", "ok", "error"} /\ s \in Records
  BY DEF Good
<1>2. /\ pc' \in [Threads -> PCs] /\ op' \in [Threads -> Operations]
      /\ result' \in [Threads -> {"none", "ok", "error"}] /\ seen' \in [Threads -> Records]
  BY <1>1 DEF ThreadsInv
<1>3. ASSUME NEW u \in Threads PROVE Good(pc'[u], op'[u], result'[u], seen'[u])
  <2>1. CASE u = t
    <3>1. pc'[u] = p /\ op'[u] = o /\ result'[u] = r /\ seen'[u] = s
      BY <2>1 DEF ThreadsInv
    <3>2. QED
      BY <3>1
  <2>2. CASE u # t
    <3>1. pc'[u] = pc[u] /\ op'[u] = op[u] /\ result'[u] = result[u] /\ seen'[u] = seen[u]
      BY <2>2 DEF ThreadsInv
    <3>2. QED
      BY <3>1 DEF ThreadsInv
  <2>3. QED
    BY <2>1, <2>2
<1>4. QED
  BY <1>2, <1>3 DEF ThreadsInv

\* A sender that goes on keeps the mutex as it has it.
LEMMA GoOnKeeps ==
  ASSUME IInv, NEW t \in Threads, pc[t] \in Sending,
         NEW label \in Sending, NEW o, o.kind = op[t].kind, NEW s, Good(label, o, result[t], s),
         GoOn(t, label, o), seen' = [seen EXCEPT ![t] = s]
  PROVE  IInv'
<1>1. result' = [result EXCEPT ![t] = result[t]]
  BY DEF GoOn, IInv, ThreadsInv
<1>2. ThreadsInv'
  BY <1>1, Frame DEF GoOn, IInv
<1>3. \A u \in Threads : (pc'[u] \in Sending <=> pc[u] \in Sending) /\ IsFlash(u)' = IsFlash(u)
  BY DEF GoOn, IInv, IsFlash, ThreadsInv
<1>4. Mutex'
  BY <1>3 DEF GoOn, lockVars, IInv, Mutex, ThreadsInv
<1>5. QED
  BY <1>2, <1>4 DEF IInv

\* A sender that returns gives the mutex back.
LEMMA ReturnKeeps ==
  ASSUME IInv, NEW t \in Threads, pc[t] \in Sending, NEW r \in {"ok", "error"},
         NEW s, s = NoRecord, Return(t, r), seen' = [seen EXCEPT ![t] = s]
  PROVE  IInv'
<1>1. Good("idle", NoOperation, r, s)
  BY NoOperationIsGood
<1>2. ThreadsInv'
  BY <1>1, Frame DEF Return, IInv
<1>3. Mutex'
  <2>1. /\ pc'[t] \notin Sending
        /\ \A u \in Threads : u # t => pc'[u] = pc[u] /\ IsFlash(u)' = IsFlash(u)
    BY DEF Return, IInv, IsFlash, Sending, ThreadsInv
  <2>2. writer' \in Threads \cup {Nobody}
    BY DEF Return, IInv, Mutex, ThreadsInv
  <2>3. readers' = {u \in Threads : pc'[u] \in Sending /\ ~IsFlash(u)'}
    BY <2>1 DEF Return, IInv, Mutex, ThreadsInv
  <2>4. \A u \in Threads : writer' = u <=> pc'[u] \in Sending /\ IsFlash(u)'
    BY <2>1, DeviceAssumption DEF Return, IInv, Mutex, ThreadsInv
  <2>5. writer' = Nobody \/ readers' = {}
    BY DEF Return, IInv, Mutex, ThreadsInv
  <2>6. QED
    BY <2>2, <2>3, <2>4, <2>5 DEF Mutex
<1>4. QED
  BY <1>2, <1>3 DEF IInv

----------------------------------------------------------------------------
(* The actions *)

\* All packets are missing when an operation begins.
LEMMA BeginKeeps ==
  ASSUME IInv, NEW t \in Threads, NEW k \in Kinds, Begin(t, k)
  PROVE  IInv'
<1> DEFINE all == UNION {Packets(k, s) : s \in DOMAIN Sectors[k]}
<1>1. \A m \in all : /\ m[1] \in 1..Len(Sectors[k]) /\ m[2] \in 1..Sectors[k][m[1]]
                    /\ m \in Nat \X Nat
  BY SectorsTypes DEF Packets
<1>2. Record(all) \in Records
  BY <1>1, WindowTypes DEF Record, Records
<1>3. GoodMissing("locking", Operation(k), all)
  BY <1>1, SectorsTypes DEF GoodMissing, Operation
<1>4. GoodWindow("locking", Operation(k), EmptyWindow)
  <2>1. Errors(EmptyWindow) <= MaxErrors
    BY EmptyWindowHasNoErrors, LimitTypes
  <2>2. Operation(k).window = EmptyWindow
    BY DEF Operation
  <2>3. QED
    BY <2>1, <2>2 DEF GoodWindow
<1>5. Good("locking", Operation(k), "none", Record(all))
  BY <1>2, <1>3, <1>4, OperationIsGood DEF Good, Record, PCs
<1>6. ThreadsInv'
  BY <1>5, Frame DEF Begin, IInv
<1>7. \A u \in Threads : /\ pc'[u] \in Sending <=> pc[u] \in Sending
                         /\ pc[u] \in Sending => IsFlash(u)' = IsFlash(u)
  BY DEF Begin, IInv, IsFlash, Sending, ThreadsInv
<1>8. Mutex'
  BY <1>7 DEF Begin, lockVars, IInv, Mutex, ThreadsInv
<1>9. QED
  BY <1>6, <1>8 DEF IInv

\* Whoever gets the mutex has not sent anything yet.
LEMMA LockKeeps ==
  ASSUME IInv, NEW t \in Threads, Lock(t)
  PROVE  IInv'
<1> DEFINE label == IF IsFlash(t) THEN "start" ELSE "packet"
           o     == IF IsFlash(t) THEN [op[t] EXCEPT !.counter = 1] ELSE op[t]
<1>1. /\ pc[t] = "locking" /\ writer = Nobody
      /\ Good("locking", op[t], result[t], seen[t]) /\ op[t] \in Operations
  BY DEF Lock, IInv, Good, ThreadsInv
<1>2. /\ pc' = [pc EXCEPT ![t] = label] /\ op' = [op EXCEPT ![t] = o]
      /\ result' = [result EXCEPT ![t] = result[t]] /\ seen' = [seen EXCEPT ![t] = seen[t]]
  BY DEF Lock, IInv, ThreadsInv
<1>3. /\ o \in Operations /\ o.kind = op[t].kind /\ o.sector = 1 /\ o.sent = 0
      /\ o.window = op[t].window
  <2>1. op[t].sector = 1 /\ op[t].sent = 0
    BY <1>1 DEF Good, GoodPosition
  <2>2. QED
    BY <1>1, <2>1, LimitTypes DEF Operations
<1>4. GoodPosition(label, o)
  <2>1. 1 \in 1..Len(Sectors[o.kind]) /\ Sectors[o.kind][1] \in Nat \ {0}
    BY <1>3, SectorsTypes DEF Operations
  <2>2. QED
    BY <1>3, <2>1 DEF GoodPosition, IsFlash
<1>5. GoodMissing(label, o, seen[t].missing)
  BY <1>1, <1>3 DEF Good, GoodMissing, GoodPosition
<1>6. GoodWindow(label, o, seen[t].recent)
  BY <1>1, <1>3 DEF Good, GoodWindow
<1>7. Good(label, o, result[t], seen[t])
  BY <1>1, <1>3, <1>4, <1>5, <1>6 DEF Good, PCs, Sending
<1>8. ThreadsInv'
  BY <1>2, <1>7, Frame DEF IInv
<1>9. Mutex'
  <2>1. /\ pc'[t] \in Sending /\ pc[t] \notin Sending
        /\ \A u \in Threads : IsFlash(u)' = IsFlash(u)
        /\ \A u \in Threads : u # t => pc'[u] = pc[u]
    BY <1>1, <1>2, <1>3 DEF IInv, IsFlash, Sending, ThreadsInv
  <2>2. CASE IsFlash(t)
    BY <1>1, <2>1, <2>2, DeviceAssumption DEF Lock, IInv, Mutex, ThreadsInv
  <2>3. CASE ~IsFlash(t)
    BY <1>1, <2>1, <2>3, DeviceAssumption DEF Lock, IInv, Mutex, ThreadsInv
  <2>4. QED
    BY <2>2, <2>3
<1>10. QED
  BY <1>8, <1>9 DEF IInv

\* The error is returned.
LEMMA AbandonKeeps ==
  ASSUME IInv, NEW t \in Threads, pc[t] \in Sending, Abandon(t)
  PROVE  IInv'
BY ReturnKeeps DEF Abandon

\* What is known of the thread of a sender, and of the record of one more packet.
LEMMA SenderFacts ==
  ASSUME IInv, NEW t \in Threads, pc[t] \in Sending
  PROVE  /\ op[t] \in Operations /\ op[t].kind \in Kinds /\ seen[t] \in Records
         /\ result[t] \in {"none", "ok", "error"} /\ result[t] # "ok"
         /\ GoodPosition(pc[t], op[t]) /\ GoodMissing(pc[t], op[t], seen[t].missing)
         /\ GoodWindow(pc[t], op[t], seen[t].recent)
         /\ \A outcome : /\ Observe(t, outcome) \in Records
                         /\ Observe(t, outcome).missing = seen[t].missing
                         /\ Observe(t, outcome).recent =
                              Shift(seen[t].recent, outcome = "failed")
<1>1. pc[t] # "idle" /\ Good(pc[t], op[t], result[t], seen[t])
  BY DEF IInv, Sending, ThreadsInv
<1>2. seen[t] \in Records
  BY <1>1 DEF Good
<1>3. ASSUME NEW outcome
      PROVE  /\ Observe(t, outcome) \in Records
             /\ Observe(t, outcome).missing = seen[t].missing
             /\ Observe(t, outcome).recent = Shift(seen[t].recent, outcome = "failed")
  <2>1. Shift(seen[t].recent, outcome = "failed") \in Windows
    BY <1>2, WindowTypes DEF Records
  <2>2. QED
    BY <1>2, <2>1 DEF Observe, Records
<1>4. QED
  BY <1>1, <1>2, <1>3 DEF Good, Operations

\* What handleErrorResponse leaves has its types.
LEMMA AfterTypes ==
  ASSUME NEW w \in Windows, NEW busy \in 0..BusyLimit, NEW outcome
  PROVE  WindowAfter(w, outcome) \in Windows /\ BusyAfter(busy, outcome) \in 0..BusyLimit
<1>1. BusyLimit \in Nat
  BY DeviceAssumption
<1>2. QED
  BY <1>1, WindowTypes DEF WindowAfter, BusyAfter

\* The start or the end of a burst fails: only the window and the busy time change.
LEMMA BurstPacketFailsKeeps ==
  ASSUME IInv, NEW t \in Threads, NEW outcome \in Outcomes, BurstPacketFails(t, outcome)
  PROVE  IInv'
<1> DEFINE o == [op[t] EXCEPT !.window = WindowAfter(@, outcome), !.busy = BusyAfter(@, outcome)]
<1>1. pc[t] \in {"start", "end"} /\ pc[t] \in Sending
  BY DEF BurstPacketFails, Sending
<1>2. CASE Abandon(t)
  BY <1>1, <1>2, AbandonKeeps
<1>3. CASE GoOn(t, pc[t], o) /\ seen' = [seen EXCEPT ![t] = Observe(t, outcome)]
  <2>1. /\ o \in Operations /\ o.kind = op[t].kind /\ o.sector = op[t].sector
        /\ o.sent = op[t].sent
    BY <1>1, SenderFacts, AfterTypes DEF Operations
  <2>2. GoodPosition(pc[t], o) /\ GoodMissing(pc[t], o, seen[t].missing)
    BY <1>1, <2>1, SenderFacts DEF GoodPosition, GoodMissing
  <2>3. GoodWindow(pc[t], o, Observe(t, outcome).recent)
    BY <1>1 DEF GoodWindow
  <2>4. Good(pc[t], o, result[t], Observe(t, outcome))
    BY <1>1, <2>1, <2>2, <2>3, SenderFacts DEF Good, PCs
  <2>5. QED
    BY <1>1, <1>3, <2>1, <2>4, GoOnKeeps
<1>4. QED
  BY <1>2, <1>3 DEF BurstPacketFails

\* The packets of the sector are missing again, and the first is the next to be sent.
LEMMA BurstStartKeeps ==
  ASSUME IInv, NEW t \in Threads, BurstStart(t)
  PROVE  IInv'
<1> DEFINE o       == [op[t] EXCEPT !.counter = 0, !.sent = 0]
           missing == Observe(t, "ok").missing \cup Packets("flash", op[t].sector)
           s       == [Observe(t, "ok") EXCEPT !.missing = missing]
<1>1. pc[t] = "start" /\ pc[t] \in Sending /\ op[t].kind = "flash"
  <2>1. pc[t] = "start" /\ pc[t] \in Sending
    BY DEF BurstStart, Sending
  <2>2. QED
    BY <2>1, SenderFacts DEF GoodPosition
<1>2. "flash" \in Kinds /\ op[t].sector \in 1..Len(Sectors["flash"])
  BY <1>1, SenderFacts DEF GoodPosition
<1>3. /\ o \in Operations /\ o.kind = "flash" /\ o.sector = op[t].sector /\ o.sent = 0
      /\ o.window = op[t].window
  <2>1. op[t] \in Operations
    BY <1>1, SenderFacts
  <2>2. QED
    BY <1>1, <2>1, LimitTypes DEF Operations
<1>4. Sectors["flash"][o.sector] \in Nat \ {0}
  BY <1>2, <1>3, SectorsTypes
<1>5. \A m \in Packets("flash", op[t].sector) :
        m[1] = op[t].sector /\ m[2] \in 1..Sectors["flash"][m[1]] /\ m \in Nat \X Nat
  BY <1>2, <1>3, <1>4, SectorsTypes DEF Packets
<1>6. s \in Records /\ s.missing = missing
  BY <1>1, <1>5, SenderFacts DEF Records
<1>7. GoodMissing("packet", o, missing)
  <2>1. \A m \in seen[t].missing :
          m[1] \in o.sector..Len(Sectors[o.kind]) /\ m[2] \in 1..Sectors[o.kind][m[1]]
    BY <1>1, <1>3, SenderFacts DEF GoodMissing
  <2>2. \A m \in Packets("flash", op[t].sector) :
          m[1] \in o.sector..Len(Sectors[o.kind]) /\ m[2] \in 1..Sectors[o.kind][m[1]]
    BY <1>2, <1>3, <1>5, SectorsTypes
  <2>3. ASSUME NEW m \in missing
        PROVE  m[1] \in o.sector..Len(Sectors[o.kind]) /\ m[2] \in 1..Sectors[o.kind][m[1]]
    BY <1>1, <2>1, <2>2, SenderFacts
  <2>4. \A m \in missing : m[2] \in Nat /\ m[2] > 0
    BY <2>3
  <2>5. QED
    <3> HIDE DEF missing, o
    <3>1. QED
      BY <1>3, <2>3, <2>4 DEF GoodMissing
<1>8. GoodPosition("packet", o)
  BY <1>2, <1>3, <1>4 DEF GoodPosition
<1>9. GoodWindow("packet", o, s.recent)
  BY <1>3 DEF GoodWindow
<1>10. Good("packet", o, result[t], s)
  BY <1>1, <1>3, <1>6, <1>7, <1>8, <1>9, SenderFacts DEF Good, PCs, Sending
<1>11. QED
  BY <1>1, <1>3, <1>10, GoOnKeeps DEF BurstStart, Sending

\* At the end of a burst nothing of its sector is missing.
LEMMA BurstEndKeeps ==
  ASSUME IInv, NEW t \in Threads, BurstEnd(t)
  PROVE  IInv'
<1> DEFINE o == [op[t] EXCEPT !.sector = @ + 1, !.sent = 0, !.counter = 1]
<1>1. pc[t] = "end" /\ pc[t] \in Sending
  BY DEF BurstEnd, Sending
<1>2. op[t].kind = "flash" /\ op[t].sector \in 1..Len(Sectors["flash"])
  BY <1>1, SenderFacts DEF GoodPosition
<1>3. /\ "flash" \in Kinds /\ Len(Sectors["flash"]) \in Nat
      /\ \A i \in 1..Len(Sectors["flash"]) : Sectors["flash"][i] \in Nat \ {0}
  BY <1>1, <1>2, SenderFacts, SectorsTypes
<1>4. \A m \in seen[t].missing : /\ m[1] \in op[t].sector+1..Len(Sectors["flash"])
                                 /\ m[2] \in 1..Sectors["flash"][m[1]]
  BY <1>1, <1>2, <1>3, SenderFacts DEF GoodMissing
<1>5. CASE LastSector(t)
  <2>1. seen[t].missing = {}
    BY <1>2, <1>4, <1>5 DEF LastSector
  <2>2. QED
    BY <1>1, <1>5, <2>1, ReturnKeeps DEF BurstEnd, NoRecord
<1>6. CASE ~LastSector(t)
  <2>1. op[t].sector + 1 \in 1..Len(Sectors["flash"])
    BY <1>2, <1>3, <1>6 DEF LastSector
  <2>2. /\ o \in Operations /\ o.kind = "flash" /\ o.sector = op[t].sector + 1
        /\ o.sent = 0
    <3>1. op[t] \in Operations /\ op[t].sector + 1 \in Nat
      BY <1>1, <2>1, SenderFacts
    <3>2. QED
      BY <1>2, <3>1, LimitTypes DEF Operations
  <2>3. GoodPosition("start", o)
    BY <1>3, <2>1, <2>2 DEF GoodPosition
  <2>4. GoodMissing("start", o, Observe(t, "ok").missing)
    BY <1>1, <1>4, <2>2, SenderFacts DEF GoodMissing
  <2>5. Good("start", o, result[t], Observe(t, "ok"))
    BY <1>1, <2>2, <2>3, <2>4, SenderFacts DEF Good, PCs, Sending, GoodWindow
  <2>6. QED
    BY <1>1, <1>2, <1>6, <2>2, <2>5, GoOnKeeps DEF BurstEnd, Sending
<1>7. QED
  BY <1>5, <1>6

\* The packet just acknowledged is no longer missing; after the last of a sector none is.
LEMMA PacketOkKeeps ==
  ASSUME IInv, NEW t \in Threads, PacketOk(t)
  PROVE  IInv'
<1> DEFINE o       == [op[t] EXCEPT !.sent = @ + 1, !.window = Shift(@, FALSE)]
           missing == seen[t].missing \ {<<o.sector, o.sent>>}
           s       == [Observe(t, "ok") EXCEPT !.missing = missing]
           size    == Size(t)
<1>1. pc[t] = "packet" /\ pc[t] \in Sending
  BY DEF PacketOk, Sending
<1>2. /\ op[t].sector \in 1..Len(Sectors[op[t].kind]) /\ op[t].sent \in Nat
      /\ size \in Nat \ {0} /\ op[t].sent < size
  BY <1>1, SenderFacts, SectorsTypes DEF GoodPosition, Size, Operations
<1>3. /\ o \in Operations /\ o.kind = op[t].kind /\ o.sector = op[t].sector
      /\ o.sent = op[t].sent + 1 /\ o.window = Shift(op[t].window, FALSE)
  <2>1. op[t] \in Operations
    BY <1>1, SenderFacts
  <2>2. Shift(op[t].window, FALSE) \in Windows
    BY <2>1, WindowTypes DEF Operations
  <2>3. op[t].sent + 1 \in Nat
    BY <1>2
  <2>4. QED
    BY <2>1, <2>2, <2>3 DEF Operations
<1>4. \A m \in missing :
        /\ m[1] \in o.sector..Len(Sectors[o.kind]) /\ m[2] \in 1..Sectors[o.kind][m[1]]
        /\ m[1] = o.sector => m[2] > o.sent
  <2> SUFFICES ASSUME NEW m \in missing
               PROVE  /\ m[1] \in o.sector..Len(Sectors[o.kind])
                      /\ m[2] \in 1..Sectors[o.kind][m[1]]
                      /\ m[1] = o.sector => m[2] > o.sent
    OBVIOUS
  <2>1. m \in seen[t].missing /\ m # <<o.sector, o.sent>>
    OBVIOUS
  <2>2. m \in Nat \X Nat /\ m = <<m[1], m[2]>>
    BY <1>1, <2>1, SenderFacts DEF Records
  <2>3. /\ m[1] \in op[t].sector..Len(Sectors[op[t].kind])
        /\ m[2] \in 1..Sectors[op[t].kind][m[1]]
        /\ m[1] = op[t].sector => m[2] > op[t].sent
    BY <1>1, <2>1, SenderFacts DEF GoodMissing
  <2>4. m[1] = o.sector => m[2] # o.sent
    BY <2>1, <2>2
  <2>5. m[1] = o.sector => m[2] > o.sent
    BY <1>2, <1>3, <2>2, <2>3, <2>4
  <2>6. QED
    BY <1>3, <2>3, <2>5
<1>5. s \in Records /\ s.missing = missing /\ s.recent = Shift(seen[t].recent, FALSE)
  BY <1>1, SenderFacts DEF Records
<1>6. GoodWindow("packet", o, s.recent)
  <2> SUFFICES ASSUME o.kind # "flash"
               PROVE  s.recent = o.window /\ Errors(o.window) <= MaxErrors
    BY DEF GoodWindow
  <2>1. op[t].window \in Windows
    BY <1>1, SenderFacts DEF Operations
  <2>2. seen[t].recent = op[t].window /\ Errors(op[t].window) <= MaxErrors
    BY <1>1, <1>3, SenderFacts DEF GoodWindow
  <2>3. Errors(o.window) <= MaxErrors
    BY <1>3, <2>1, <2>2, NoMoreErrors
  <2>4. QED
    BY <1>3, <1>5, <2>2, <2>3
<1>7. CASE o.sent < size /\ GoOn(t, "packet", o) /\ seen' = [seen EXCEPT ![t] = s]
  <2>1. GoodPosition("packet", o)
    BY <1>2, <1>3, <1>7 DEF GoodPosition, Size
  <2>2. GoodMissing("packet", o, missing)
    BY <1>4 DEF GoodMissing
  <2>3. Good("packet", o, result[t], s)
    BY <1>1, <1>3, <1>5, <1>6, <2>1, <2>2, SenderFacts DEF Good, PCs, Sending
  <2>4. QED
    BY <1>1, <1>3, <1>7, <2>3, GoOnKeeps DEF Sending
<1>8. CASE ~(o.sent < size) /\ IsFlash(t) /\ GoOn(t, "end", o) /\ seen' = [seen EXCEPT ![t] = s]
  <2>1. o.sent = size /\ o.kind = "flash"
    BY <1>2, <1>3, <1>8 DEF IsFlash
  <2>2. GoodPosition("end", o)
    BY <1>2, <1>3, <2>1 DEF GoodPosition, Size
  <2>3. GoodMissing("end", o, missing)
    BY <1>2, <1>3, <1>4, <2>1 DEF GoodMissing, Size
  <2>4. Good("end", o, result[t], s)
    BY <1>1, <1>3, <1>5, <2>2, <2>3, SenderFacts DEF Good, PCs, Sending, GoodWindow
  <2>5. QED
    BY <1>1, <1>3, <1>8, <2>4, GoOnKeeps DEF Sending
<1>9. CASE /\ o.sent = size /\ ~IsFlash(t) /\ Return(t, "ok")
           /\ seen' = [seen EXCEPT ![t] = Record(missing)]
  <2>1. Len(Sectors[op[t].kind]) = 1 /\ o.sector = 1
    BY <1>1, <1>2, <1>3, <1>9, SenderFacts, SectorsTypes DEF IsFlash
  <2>2. missing = {}
    BY <1>2, <1>3, <1>4, <1>9, <2>1 DEF Size
  <2>3. QED
    BY <1>1, <1>9, <2>2, ReturnKeeps DEF NoRecord
<1>10. CASE Abandon(t)
  BY <1>1, <1>10, AbandonKeeps
<1>11. QED
  BY <1>7, <1>8, <1>9, <1>10 DEF PacketOk

\* Outside flash memory a failure goes into the window and the record alike.
LEMMA PacketFailsKeeps ==
  ASSUME IInv, NEW t \in Threads, NEW outcome \in Outcomes, PacketFails(t, outcome)
  PROVE  IInv'
<1> DEFINE w     == Shift(op[t].window, FALSE)
           o     == [op[t] EXCEPT !.window = WindowAfter(w, outcome),
                                  !.busy = BusyAfter(@, outcome)]
           again == Recoverable(w, op[t].busy, outcome)
           s     == Observe(t, outcome)
<1>1. pc[t] = "packet" /\ pc[t] \in Sending
  BY DEF PacketFails, Sending
<1>2. op[t].window \in Windows /\ op[t].busy \in 0..BusyLimit /\ w \in Windows
  BY <1>1, SenderFacts, WindowTypes DEF Operations
<1>3. /\ o \in Operations /\ o.kind = op[t].kind /\ o.sector = op[t].sector
      /\ o.sent = op[t].sent /\ o.window = WindowAfter(w, outcome) /\ o.counter = op[t].counter
  BY <1>1, <1>2, SenderFacts, AfterTypes DEF Operations
<1>4. CASE again /\ GoOn(t, "packet", o) /\ seen' = [seen EXCEPT ![t] = s]
  <2>1. GoodPosition("packet", o) /\ GoodMissing("packet", o, s.missing)
    BY <1>1, <1>3, SenderFacts DEF GoodPosition, GoodMissing
  <2>2. ASSUME o.kind # "flash" PROVE s.recent = o.window /\ Errors(o.window) <= MaxErrors
    <3>1. s.recent = Shift(op[t].window, outcome = "failed") /\ Errors(op[t].window) <= MaxErrors
      BY <1>1, <1>3, <2>2, SenderFacts DEF GoodWindow
    <3>2. CASE outcome = "failed"
      <4>1. o.window = SetNewest(w) /\ SetNewest(w) = Shift(op[t].window, TRUE)
        BY <1>2, <1>3, <3>2, SetNewestOfShift DEF WindowAfter
      <4>2. Errors(SetNewest(w)) <= MaxErrors
        BY <1>4, <3>2 DEF Recoverable
      <4>3. QED
        BY <3>1, <3>2, <4>1, <4>2
    <3>3. CASE outcome # "failed"
      <4>1. o.window = w /\ s.recent = w
        BY <1>3, <3>1, <3>3 DEF WindowAfter
      <4>2. Errors(w) <= MaxErrors
        BY <1>2, <3>1, NoMoreErrors
      <4>3. QED
        BY <4>1, <4>2
    <3>4. QED
      BY <3>2, <3>3
  <2>3. Good("packet", o, result[t], s)
    BY <1>1, <1>3, <2>1, <2>2, SenderFacts DEF Good, PCs, Sending, GoodWindow
  <2>4. QED
    BY <1>1, <1>3, <1>4, <2>3, GoOnKeeps DEF Sending
<1>5. CASE /\ IsFlash(t) /\ o.counter < MaxErrors
           /\ GoOn(t, "start", [o EXCEPT !.counter = @ + 1]) /\ seen' = [seen EXCEPT ![t] = s]
  <2> DEFINE n == [o EXCEPT !.counter = @ + 1]
  <2>1. n \in Operations /\ n.kind = "flash" /\ n.sector = o.sector /\ n.sent = o.sent
    <3> HIDE DEF o
    <3>1. o.counter \in 0..MaxErrors /\ o.counter < MaxErrors
      BY <1>3, <1>5 DEF Operations
    <3>2. o.counter + 1 \in 0..MaxErrors
      BY <3>1, LimitTypes
    <3>3. o.kind = "flash"
      BY <1>3, <1>5 DEF IsFlash
    <3>4. QED
      BY <1>3, <3>2, <3>3 DEF Operations
  <2>2. GoodPosition("start", n) /\ GoodMissing("start", n, s.missing)
    BY <1>1, <1>3, <1>5, <2>1, SenderFacts DEF GoodPosition, GoodMissing, IsFlash
  <2>3. Good("start", n, result[t], s)
    BY <1>1, <2>1, <2>2, SenderFacts DEF Good, PCs, Sending, GoodWindow
  <2>4. QED
    BY <1>1, <1>3, <1>5, <2>1, <2>3, GoOnKeeps DEF Sending, IsFlash
<1>6. CASE Abandon(t)
  BY <1>1, <1>6, AbandonKeeps
<1>7. QED
  BY <1>4, <1>5, <1>6 DEF PacketFails

----------------------------------------------------------------------------
(* The invariant *)

\* No thread has an operation and the mutex is free.
LEMMA InitIInv == Init => IInv
<1> SUFFICES ASSUME Init PROVE IInv
  OBVIOUS
<1>1. Good("idle", NoOperation, "none", NoRecord)
  BY NoOperationIsGood
<1>2. ThreadsInv
  BY <1>1 DEF Init, ThreadsInv, Good
<1>3. Mutex
  BY DeviceAssumption DEF Init, Mutex, Sending
<1>4. QED
  BY <1>2, <1>3 DEF IInv

\* Every step is one of the actions above, or changes nothing.
LEMMA NextKeeps == IInv /\ [Next]_vars => IInv'
<1> SUFFICES ASSUME IInv, [Next]_vars PROVE IInv'
  OBVIOUS
<1>1. ASSUME NEW t \in Threads, NEW k \in Kinds, Begin(t, k) PROVE IInv'
  BY <1>1, BeginKeeps
<1>2. ASSUME NEW t \in Threads, Lock(t) PROVE IInv'
  BY <1>2, LockKeeps
<1>3. ASSUME NEW t \in Threads, Send(t) PROVE IInv'
  BY <1>3, BurstStartKeeps, BurstEndKeeps, PacketOkKeeps, BurstPacketFailsKeeps,
     PacketFailsKeeps DEF Send
<1>4. CASE UNCHANGED vars
  BY <1>4 DEF vars, lockVars, IInv, Mutex, IsFlash, ThreadsInv
<1>5. QED
  BY <1>1, <1>2, <1>3, <1>4 DEF Next

\* IInv holds in every state of every behaviour.
THEOREM Invariance == Spec => []IInv
<1>1. Init => IInv
  BY InitIInv
<1>2. IInv /\ [Next]_vars => IInv'
  BY NextKeeps
<1>3. QED
  BY <1>1, <1>2, PTL DEF Spec

----------------------------------------------------------------------------
(* What follows from it *)

\* For any number of threads and any memory, the locals of readData and writeData keep
\* their ranges, and m_flashMutex is held by exactly the operations under way.
THEOREM TypeCorrect == Spec => []TypeOK
<1>1. ASSUME IInv PROVE TypeOK
  <2>1. pc \in [Threads -> Sending \cup {"idle", "locking"}]
    BY <1>1 DEF IInv, PCs, ThreadsInv
  <2>2. ASSUME NEW t \in Threads
        PROVE  /\ op[t].kind \in Kinds /\ op[t].sector \in DOMAIN Sectors[op[t].kind]
               /\ op[t].sent \in 0..Size(t) /\ op[t].window \in [1..WindowSize -> BOOLEAN]
               /\ op[t].busy \in 0..BusyLimit /\ op[t].counter \in 0..MaxErrors
    <3>1. op[t] \in Operations /\ GoodPosition(pc[t], op[t])
      BY <1>1 DEF IInv, Good, ThreadsInv
    <3>2. DOMAIN Sectors[op[t].kind] = 1..Len(Sectors[op[t].kind])
      BY <3>1, SectorsTypes DEF Operations
    <3>3. QED
      BY <3>1, <3>2 DEF Operations, GoodPosition, Size, Windows
  <2>3. {writer} \ {Nobody} = {t \in Threads : pc[t] \in Sending /\ IsFlash(t)}
    BY <1>1, DeviceAssumption DEF IInv, Mutex, ThreadsInv
  <2>4. QED
    BY <1>1, <2>1, <2>2, <2>3 DEF TypeOK, IInv, Mutex, ThreadsInv
<1>2. QED
  BY <1>1, Invariance, PTL

\* For any number of threads no packet of another operation gets into the bursts of a flash
\* write: writeData has m_flashMutex alone from its first packet to its return.
THEOREM BurstsAreExclusive == Spec => []BurstIsExclusive
<1>1. ASSUME IInv, NEW t \in Threads, NEW u \in Threads, t # u,
             {pc[t], pc[u]} \subseteq Sending
      PROVE  ~IsFlash(t) /\ ~IsFlash(u)
  BY <1>1, DeviceAssumption DEF IInv, Mutex, ThreadsInv
<1>2. IInv => BurstIsExclusive
  BY <1>1 DEF BurstIsExclusive
<1>3. QED
  BY <1>2, Invariance, PTL

\* For any number and sizes of sectors and any faults of the device, an operation returns
\* ok only if every packet was acknowledged, in flash memory within its last burst.
THEOREM OkMeansAllWritten == Spec => []OkMeansWritten
<1>1. IInv => OkMeansWritten
  BY DEF IInv, Good, OkMeansWritten, ThreadsInv
<1>2. QED
  BY <1>1, Invariance, PTL

\* For any size of the window and any limit, reads and writes of other memory go on only
\* while the last packets hold no more failures than MAX_ERRORS_IN_WINDOW.
THEOREM ErrorsAreLimited == Spec => []ErrorsLimited
<1>1. IInv => ErrorsLimited
  BY DEF IInv, Good, GoodWindow, ErrorsLimited, IsFlash, ThreadsInv
<1>2. QED
  BY <1>1, Invariance, PTL

----------------------------------------------------------------------------
(* How long reads and writes of other memory can go on *)

\* The failures since the last packet that did not fail, as far as the window goes back.
Streak(w)  == {i \in 1..WindowSize : \A j \in 1..i : w[j]}
Failing(w) == Cardinality(Streak(w))

\* How many packets more the operation can send at most: each packet of the sector and
\* each unit of the busy time with as many failures before it as the window allows.
Budget(t)      == (Size(t) - op[t].sent) + (BusyLimit - op[t].busy)
PacketsLeft(t) == Budget(t) * (MaxErrors + 1) - Failing(op[t].window)

OnOtherMemory(t) == pc[t] = "packet" /\ ~IsFlash(t)

\* A read or write of other memory ends or has fewer packets left with each it sends,
\* and no other thread gives it more.
PacketStep ==
  \A t \in Threads : OnOtherMemory(t) =>
    /\ pc'[t] = "idle" \/ (OnOtherMemory(t)' /\ PacketsLeft(t)' <= PacketsLeft(t))
    /\ Send(t) => pc'[t] = "idle" \/ PacketsLeft(t)' < PacketsLeft(t)

\* The failures in a row are among those in the window.
LEMMA FailingIsLimited ==
  ASSUME NEW w \in Windows
  PROVE  /\ IsFiniteSet(Streak(w)) /\ Failing(w) \in Nat
         /\ Errors(w) \in Nat /\ Failing(w) <= Errors(w)
<1> DEFINE bits == {i \in 1..WindowSize : w[i]}
<1>1. IsFiniteSet(bits)
  <2>1. IsFiniteSet(1..WindowSize)
    BY LimitTypes, FS_Interval
  <2>2. QED
    BY <2>1, FS_Subset
<1>2. Streak(w) \subseteq bits
  <2>1. ASSUME NEW i \in Streak(w) PROVE i \in bits
    <3>1. i \in 1..WindowSize /\ \A j \in 1..i : w[j]
      BY DEF Streak
    <3>2. i \in 1..i
      BY <3>1, LimitTypes
    <3>3. QED
      BY <3>1, <3>2
  <2>2. QED
    BY <2>1
<1>3. QED
  BY <1>1, <1>2, FS_Subset, FS_CardinalityType DEF Failing, Errors

\* A packet that does not fail ends the streak.
LEMMA ShiftEndsStreak ==
  ASSUME NEW w \in Windows
  PROVE  Failing(Shift(w, FALSE)) = 0
<1>1. ASSUME NEW i \in Streak(Shift(w, FALSE)) PROVE FALSE
  <2>1. i \in 1..WindowSize /\ \A j \in 1..i : Shift(w, FALSE)[j]
    BY DEF Streak
  <2>2. 1 \in 1..i /\ 1 \in 1..WindowSize
    BY <2>1, LimitTypes
  <2>3. QED
    BY <2>1, <2>2 DEF Shift
<1>2. Streak(Shift(w, FALSE)) = {}
  BY <1>1
<1>3. QED
  BY <1>2, FS_EmptySet DEF Failing

\* One that fails makes it longer, unless the window is full of failures.
LEMMA ShiftExtendsStreak ==
  ASSUME NEW w \in Windows, Errors(w) <= MaxErrors
  PROVE  Failing(Shift(w, TRUE)) >= Failing(w) + 1
<1> DEFINE n     == Shift(w, TRUE)
           later == Streak(n) \ {1}
           move  == [i \in Streak(w) |-> i + 1]
<1>1. WindowSize \in Nat /\ WindowSize > MaxErrors /\ MaxErrors \in Nat
  BY DeviceAssumption
<1>2. WindowSize \notin Streak(w)
  <2>1. SUFFICES ASSUME WindowSize \in Streak(w) PROVE FALSE
    OBVIOUS
  <2>2. {i \in 1..WindowSize : w[i]} = 1..WindowSize
    BY <2>1 DEF Streak
  <2>3. Errors(w) = WindowSize
    <3>1. Cardinality(1..WindowSize) = IF 1 > WindowSize THEN 0 ELSE WindowSize - 1 + 1
      BY <1>1, FS_Interval
    <3>2. Errors(w) = Cardinality(1..WindowSize)
      BY <2>2 DEF Errors
    <3> DEFINE size == Cardinality(1..WindowSize)
    <3> HIDE DEF size
    <3>3. size = WindowSize
      BY <1>1, <3>1 DEF size
    <3>4. QED
      BY <3>2, <3>3 DEF size
  <2>4. QED
    BY <1>1, <2>3
<1>3. ASSUME NEW i \in Streak(w) PROVE i + 1 \in later
  <2>1. i \in 1..WindowSize /\ i # WindowSize /\ \A j \in 1..i : w[j]
    BY <1>2 DEF Streak
  <2>2. i + 1 \in 1..WindowSize /\ i + 1 # 1
    BY <1>1, <2>1
  <2>3. ASSUME NEW j \in 1..i+1 PROVE n[j]
    <3>1. j \in 1..WindowSize /\ (j # 1 => j - 1 \in 1..i)
      BY <1>1, <2>1, <2>2
    <3>2. QED
      BY <2>1, <3>1 DEF Shift
  <2>4. QED
    BY <2>2, <2>3 DEF Streak
<1>4. move \in Injection(Streak(w), later)
  <2>1. move \in [Streak(w) -> later]
    BY <1>3
  <2>2. ASSUME NEW a \in Streak(w), NEW c \in Streak(w), move[a] = move[c] PROVE a = c
    <3>1. a \in Nat /\ c \in Nat /\ move[a] = a + 1 /\ move[c] = c + 1
      BY <1>1 DEF Streak
    <3>2. move[a] = move[c]
      BY <2>2
    <3>3. QED
      <4> HIDE DEF move, later
      <4>1. QED
        BY <3>1, <3>2
  <2> HIDE DEF move, later
  <2>3. QED
    BY <2>1, <2>2 DEF Injection, IsInjective
<1>5. 1 \in Streak(n)
  <2>1. n[1] = TRUE /\ 1 \in 1..WindowSize
    BY <1>1, LimitTypes DEF Shift
  <2>2. \A j \in 1..1 : j = 1
    OBVIOUS
  <2> HIDE DEF n
  <2>3. \A j \in 1..1 : n[j]
    BY <2>1, <2>2
  <2>4. QED
    BY <2>1, <2>3 DEF Streak
<1>6. n \in Windows
  BY WindowTypes
<1>7. IsFiniteSet(Streak(n)) /\ Cardinality(Streak(n)) \in Nat
  BY <1>6, FailingIsLimited DEF Failing
<1>8. IsFiniteSet(later) /\ Cardinality(later) = Cardinality(Streak(n)) - 1
  BY <1>5, <1>7, FS_RemoveElement
<1>9. Cardinality(Streak(w)) <= Cardinality(later)
  BY <1>4, <1>8, FS_Injection
<1>10. Cardinality(Streak(w)) \in Nat
  BY FailingIsLimited DEF Failing
<1>11. QED
  <2> DEFINE long   == Cardinality(Streak(n))
             short  == Cardinality(Streak(w))
             middle == Cardinality(later)
  <2>1. long \in Nat /\ short \in Nat /\ middle = long - 1 /\ short <= middle
    BY <1>7, <1>8, <1>9, <1>10
  <2> HIDE DEF long, short, middle
  <2>2. long >= short + 1
    BY <2>1
  <2>3. QED
    BY <2>2 DEF long, short, Failing

\* The numbers of an operation on other memory.
LEMMA OtherMemoryFacts ==
  ASSUME IInv, NEW t \in Threads, OnOtherMemory(t)
  PROVE  /\ op[t] \in Operations /\ op[t].window \in Windows
         /\ op[t].sent \in Nat /\ Size(t) \in Nat /\ op[t].sent < Size(t)
         /\ op[t].busy \in 0..BusyLimit
         /\ Errors(op[t].window) <= MaxErrors
         /\ Failing(op[t].window) \in Nat /\ Failing(op[t].window) <= MaxErrors
         /\ Budget(t) \in Nat \ {0}
<1>1. pc[t] = "packet" /\ op[t].kind # "flash" /\ pc[t] \in Sending
  BY DEF OnOtherMemory, IsFlash, Sending
<1>2. op[t] \in Operations /\ GoodPosition("packet", op[t])
  BY <1>1, SenderFacts
<1>3. op[t].window \in Windows /\ op[t].sent \in Nat /\ op[t].busy \in 0..BusyLimit
  BY <1>2 DEF Operations
<1>4. Size(t) \in Nat /\ op[t].sent < Size(t)
  BY <1>2, SectorsTypes DEF Operations, GoodPosition, Size
<1>5. Errors(op[t].window) <= MaxErrors
  BY <1>1, SenderFacts DEF GoodWindow
<1>6. Failing(op[t].window) \in Nat /\ Failing(op[t].window) <= MaxErrors
  <2> DEFINE f == Failing(op[t].window)
             e == Errors(op[t].window)
  <2>1. f \in Nat /\ e \in Nat /\ f <= e /\ e <= MaxErrors /\ MaxErrors \in Nat
    BY <1>3, <1>5, FailingIsLimited, LimitTypes
  <2> HIDE DEF f, e
  <2>2. f <= MaxErrors
    BY <2>1
  <2>3. QED
    BY <2>1, <2>2 DEF f
<1>7. Budget(t) \in Nat \ {0}
  BY <1>3, <1>4, LimitTypes DEF Budget
<1>8. QED
  BY <1>2, <1>3, <1>4, <1>5, <1>6, <1>7

LeftIsNumber == \A t \in Threads : OnOtherMemory(t) => PacketsLeft(t) \in Int

LEMMA LeftIsNumberHolds == IInv => LeftIsNumber
  BY OtherMemoryFacts, LimitTypes DEF LeftIsNumber, PacketsLeft

LEMMA LeftIsNumberNext == IInv' => LeftIsNumber'
  BY LeftIsNumberHolds, PTL

\* A unit of the budget is worth more than any streak.
LEMMA UnitSpent ==
  ASSUME NEW b \in Nat \ {0}, NEW m \in Nat, NEW f \in 0..m
  PROVE  (b - 1) * (m + 1) - 0 < b * (m + 1) - f
<1>1. (b - 1) * (m + 1) = b * (m + 1) - (m + 1)
  OBVIOUS
<1>2. b * (m + 1) \in Nat
  OBVIOUS
<1>3. QED
  BY <1>1, <1>2

LEMMA UnitsLeft ==
  ASSUME NEW b \in Nat \ {0}, NEW n \in Nat, b <= n, NEW m \in Nat, NEW f \in 0..m
  PROVE  b * (m + 1) - f >= 1 /\ b * (m + 1) <= n * (m + 1)
<1>1. b * (m + 1) = (b - 1) * (m + 1) + (m + 1) /\ (b - 1) * (m + 1) \in Nat
  OBVIOUS
<1>2. n * (m + 1) = b * (m + 1) + (n - b) * (m + 1)
  OBVIOUS
<1>3. b * (m + 1) \in Nat /\ (n - b) * (m + 1) \in Nat
  OBVIOUS
<1>4. b * (m + 1) - f >= 1
  BY <1>1
<1>5. QED
  BY <1>2, <1>3, <1>4

\* An acknowledged packet spends a unit.
LEMMA PacketOkSpends ==
  ASSUME IInv, NEW t \in Threads, OnOtherMemory(t), PacketOk(t)
  PROVE  pc'[t] = "idle" \/ (OnOtherMemory(t)' /\ PacketsLeft(t)' < PacketsLeft(t))
<1> DEFINE o == [op[t] EXCEPT !.sent = @ + 1, !.window = Shift(@, FALSE)]
<1>1. ~IsFlash(t) /\ pc \in [Threads -> PCs] /\ op \in [Threads -> Operations]
  BY DEF OnOtherMemory, IInv, ThreadsInv
<1>2. CASE o.sent < Size(t) /\ GoOn(t, "packet", o)
  <2>1. pc'[t] = "packet" /\ op'[t] = o
    BY <1>1, <1>2 DEF GoOn
  <2>2. /\ o.kind = op[t].kind /\ o.sector = op[t].sector /\ o.sent = op[t].sent + 1
        /\ o.busy = op[t].busy /\ o.window = Shift(op[t].window, FALSE)
    BY OtherMemoryFacts DEF Operations
  <2>3. Size(t)' = Size(t) /\ OnOtherMemory(t)'
    BY <1>1, <2>1, <2>2 DEF Size, OnOtherMemory, IsFlash
  <2>4. Budget(t)' = Budget(t) - 1
    BY <2>1, <2>2, <2>3, OtherMemoryFacts, LimitTypes DEF Budget
  <2>5. Failing(op'[t].window) = 0
    BY <2>1, <2>2, OtherMemoryFacts, ShiftEndsStreak
  <2>6. PacketsLeft(t)' < PacketsLeft(t)
    BY <2>4, <2>5, OtherMemoryFacts, LimitTypes, UnitSpent DEF PacketsLeft
  <2>7. QED
    BY <2>3, <2>6
<1>3. CASE Return(t, "ok") \/ Abandon(t)
  BY <1>1, <1>3 DEF Return, Abandon
<1>4. QED
  BY <1>1, <1>2, <1>3 DEF PacketOk

\* A busy device spends a unit, a failed packet makes the streak longer.
LEMMA PacketFailsSpends ==
  ASSUME IInv, NEW t \in Threads, OnOtherMemory(t), NEW outcome \in Outcomes,
         PacketFails(t, outcome)
  PROVE  pc'[t] = "idle" \/ (OnOtherMemory(t)' /\ PacketsLeft(t)' < PacketsLeft(t))
<1> DEFINE w == Shift(op[t].window, FALSE)
           o == [op[t] EXCEPT !.window = WindowAfter(w, outcome),
                              !.busy = BusyAfter(@, outcome)]
<1>1. ~IsFlash(t) /\ pc \in [Threads -> PCs] /\ op \in [Threads -> Operations]
  BY DEF OnOtherMemory, IInv, ThreadsInv
<1>2. CASE Recoverable(w, op[t].busy, outcome) /\ GoOn(t, "packet", o)
  <2>1. pc'[t] = "packet" /\ op'[t] = o
    BY <1>1, <1>2 DEF GoOn
  <2>2. /\ o.kind = op[t].kind /\ o.sector = op[t].sector /\ o.sent = op[t].sent
        /\ o.busy = BusyAfter(op[t].busy, outcome) /\ o.window = WindowAfter(w, outcome)
    BY OtherMemoryFacts DEF Operations
  <2>3. Size(t)' = Size(t) /\ OnOtherMemory(t)'
    BY <1>1, <2>1, <2>2 DEF Size, OnOtherMemory, IsFlash
  <2>4. CASE outcome = "busy"
    <3>1. op'[t].busy = op[t].busy + 1 /\ op'[t].window = w
      BY <1>2, <2>1, <2>2, <2>4, OtherMemoryFacts, LimitTypes
      DEF Recoverable, BusyAfter, WindowAfter
    <3>2. Budget(t)' = Budget(t) - 1
      BY <2>1, <2>2, <2>3, <3>1, OtherMemoryFacts, LimitTypes DEF Budget
    <3>3. Failing(op'[t].window) = 0
      BY <3>1, OtherMemoryFacts, ShiftEndsStreak
    <3>4. PacketsLeft(t)' < PacketsLeft(t)
      BY <3>2, <3>3, OtherMemoryFacts, LimitTypes, UnitSpent DEF PacketsLeft
    <3>5. QED
      BY <2>3, <3>4
  <2>5. CASE outcome = "failed"
    <3>1. op'[t].busy = op[t].busy /\ op'[t].window = Shift(op[t].window, TRUE)
      BY <2>1, <2>2, <2>5, OtherMemoryFacts, SetNewestOfShift DEF BusyAfter, WindowAfter
    <3>2. Budget(t)' = Budget(t)
      BY <2>1, <2>2, <2>3, <3>1 DEF Budget
    <3>3. Failing(op'[t].window) >= Failing(op[t].window) + 1
      BY <3>1, OtherMemoryFacts, ShiftExtendsStreak
    <3>4. Failing(op'[t].window) \in Nat
      BY <3>1, OtherMemoryFacts, WindowTypes, FailingIsLimited
    <3>5. PacketsLeft(t)' < PacketsLeft(t)
      <4> DEFINE before == Failing(op[t].window)
                 after  == Failing(op'[t].window)
                 budget == Budget(t) * (MaxErrors + 1)
      <4>1. budget \in Nat
        BY OtherMemoryFacts, LimitTypes
      <4>2. before \in Nat /\ after \in Nat /\ after >= before + 1
        BY <3>3, <3>4, OtherMemoryFacts
      <4>3. PacketsLeft(t) = budget - before /\ PacketsLeft(t)' = budget - after
        BY <3>2 DEF PacketsLeft
      <4> HIDE DEF before, after, budget
      <4>4. QED
        BY <4>1, <4>2, <4>3
    <3>6. QED
      BY <2>3, <3>5
  <2>6. QED
    BY <1>2, <2>4, <2>5 DEF Recoverable
<1>3. CASE Abandon(t)
  BY <1>1, <1>3 DEF Return, Abandon
<1>4. QED
  BY <1>1, <1>2, <1>3 DEF PacketFails

\* The step of another thread.
LEMMA OthersSpendNothing ==
  ASSUME IInv, NEW t \in Threads, OnOtherMemory(t), UNCHANGED <<pc[t], op[t]>>
  PROVE  OnOtherMemory(t)' /\ PacketsLeft(t)' <= PacketsLeft(t)
<1>1. OnOtherMemory(t)' /\ PacketsLeft(t)' = PacketsLeft(t)
  BY DEF OnOtherMemory, PacketsLeft, Budget, Size, IsFlash
<1>2. PacketsLeft(t) \in Int
  BY OtherMemoryFacts, LimitTypes DEF PacketsLeft
<1>3. QED
  BY <1>1, <1>2

LEMMA PacketStepHolds == IInv /\ [Next]_vars => PacketStep
<1>1. SUFFICES ASSUME IInv, [Next]_vars, NEW t \in Threads, OnOtherMemory(t)
               PROVE  /\ \/ pc'[t] = "idle"
                         \/ OnOtherMemory(t)' /\ PacketsLeft(t)' <= PacketsLeft(t)
                      /\ Send(t) => pc'[t] = "idle" \/ PacketsLeft(t)' < PacketsLeft(t)
  BY DEF PacketStep
<1>2. Send(t) => pc'[t] = "idle" \/ (OnOtherMemory(t)' /\ PacketsLeft(t)' < PacketsLeft(t))
  <2>1. pc[t] = "packet"
    BY <1>1 DEF OnOtherMemory
  <2>2. QED
    BY <1>1, <2>1, PacketOkSpends, PacketFailsSpends
    DEF Send, BurstStart, BurstEnd, BurstPacketFails
<1>3. CASE Send(t)
  <2>1. CASE pc'[t] = "idle"
    BY <2>1
  <2>2. CASE OnOtherMemory(t)' /\ PacketsLeft(t)' < PacketsLeft(t)
    <3>1. PacketsLeft(t) \in Int
      BY <1>1, OtherMemoryFacts, LimitTypes DEF PacketsLeft
    <3>2. PacketsLeft(t)' \in Int
      <4>1. IInv'
        BY <1>1, NextKeeps
      <4>2. QED
        BY <2>2, <4>1, LeftIsNumberNext DEF LeftIsNumber
    <3>3. QED
      BY <2>2, <3>1, <3>2
  <2>3. QED
    BY <1>2, <1>3, <2>1, <2>2
<1>4. CASE \E u \in Threads : u # t /\ (Send(u) \/ Lock(u) \/ \E k \in Kinds : Begin(u, k))
  <2>1. PICK u \in Threads : u # t /\ (Send(u) \/ Lock(u) \/ \E k \in Kinds : Begin(u, k))
    BY <1>4
  <2>2. pc'[t] = pc[t] /\ op'[t] = op[t]
    BY <1>1, <2>1 DEF Send, Lock, Begin, BurstStart, BurstEnd, PacketOk, BurstPacketFails,
       PacketFails, GoOn, Return, Abandon, IInv, ThreadsInv
  <2>3. QED
    BY <1>1, <1>2, <2>2, OthersSpendNothing
<1>5. CASE Lock(t) \/ \E k \in Kinds : Begin(t, k)
  BY <1>1, <1>5 DEF Lock, Begin, OnOtherMemory
<1>6. CASE UNCHANGED vars
  BY <1>1, <1>2, <1>6, OthersSpendNothing DEF vars
<1>7. QED
  BY <1>1, <1>3, <1>4, <1>5, <1>6 DEF Next

\* Whatever the device does, each packet of a read or write of other memory is one less of
\* those that are left, for any size of the operation, of the window and of the limits.
THEOREM PacketsRunOut == Spec => [][PacketStep]_vars
<1>1. IInv /\ [Next]_vars => [PacketStep]_vars
  BY PacketStepHolds
<1>2. QED
  BY <1>1, Invariance, PTL DEF Spec

\* There is always one left while the operation goes on, and never more than what the
\* size of the data, the busy time and the window allow together.
PacketsBounded ==
  \A t \in Threads : OnOtherMemory(t) =>
    /\ PacketsLeft(t) >= 1
    /\ PacketsLeft(t) <= (Size(t) + BusyLimit) * (MaxErrors + 1)

THEOREM PacketsAreBounded == Spec => []PacketsBounded
<1>1. ASSUME IInv, NEW t \in Threads, OnOtherMemory(t)
      PROVE  /\ PacketsLeft(t) >= 1
             /\ PacketsLeft(t) <= (Size(t) + BusyLimit) * (MaxErrors + 1)
  <2> DEFINE b == Budget(t)
             f == Failing(op[t].window)
             n == Size(t) + BusyLimit
  <2>1. b \in Nat \ {0} /\ f \in 0..MaxErrors /\ MaxErrors \in Nat /\ n \in Nat /\ b <= n
    BY <1>1, OtherMemoryFacts, LimitTypes DEF Budget
  <2>2. PacketsLeft(t) = b * (MaxErrors + 1) - f
    BY DEF PacketsLeft
  <2> HIDE DEF b, f, n
  <2>3. b * (MaxErrors + 1) - f >= 1
    BY <2>1, UnitsLeft
  <2>4. b * (MaxErrors + 1) <= n * (MaxErrors + 1)
    BY <2>1, UnitsLeft
  <2>5. b * (MaxErrors + 1) \in Nat /\ n * (MaxErrors + 1) \in Nat
    BY <2>1
  <2>6. PacketsLeft(t) >= 1 /\ PacketsLeft(t) <= n * (MaxErrors + 1)
    BY <2>1, <2>2, <2>3, <2>4, <2>5
  <2>7. QED
    BY <2>6 DEF n
<1>2. IInv => PacketsBounded
  BY <1>1 DEF PacketsBounded
<1>3. QED
  BY <1>2, Invariance, PTL

=============================================================================
