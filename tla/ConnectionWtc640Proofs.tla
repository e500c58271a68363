----------------------- MODULE ConnectionWtc640Proofs -----------------------
(***************************************************************************)
(* Proofs about ConnectionWtc640, for any baudrates, parts of a firmware,  *)
(* attempts, presets and attributes, and any number of operations, faults  *)
(* and changes of the camera: what is known of the camera, what an ok      *)
(* means, how many steps an operation has left, and that no loss of the    *)
(* connection is overlooked.                                               *)
(***************************************************************************)
EXTENDS ConnectionWtc640, TLAPS

Triggers == {"SOFTWARE_RESET", "RESET_TO_FACTORY_DEFAULT", "RESET_FROM_LOADER",
             "RESET_TO_LOADER", "STAY_IN_LOADER"}
Connects == {"connectUart", "connectEbus", "auto", "reconnect"}
Resets   == {"reset", "update"}
Stages   == {"toLoader", "stay", "parts", "again", "fromLoader"}
SetsBaud == {"baudWrite", "baudLink", "baudPoll"}
Tries    == {"try", "test"}

Cameras == [mode : {"main", "loader"}, baud : Bauds, reset : {"none"} \cup Triggers,
            flash : [1..PartsCount -> {"old", "new", "torn"}]]

Ops == [name : {"none", "setBaud"} \cup Connects \cup Resets, trigger : {"none"} \cup Triggers,
        old : {0} \cup Bauds, stage : {"none"} \cup Stages, tries : Nat, part : Nat]

Typed ==
  /\ core \in Cameras /\ link \in Links /\ cand \in Seq(Links \ {NoLink}) /\ op \in Ops
  /\ asked.old \in {0} \cup Bauds

\* What is known of the camera is what belongs to the link.
Agrees ==
  /\ (type = "none") <=> (link = NoLink)
  /\ space = type /\ (usb <=> type # "none")
  /\ type # "main" => adapters = {}
  /\ lens = { i \in 1..PresetsCount : <<i, 1>> \in adapters }

\* While a link is taken into use nothing is known yet, and at any other moment what is
\* known agrees.
Adapted ==
  /\ pc # "test" /\ ~thrown => Agrees
  /\ pc = "test" =>
       link # NoLink /\ type = "none" /\ space = "none" /\ ~usb /\ adapters = {} /\ lens = {}

\* Where an operation can be.
Control ==
  /\ pc = "idle" <=> op.name = "none"
  /\ op.name \in Connects => pc \in Tries /\ op.tries = 0 /\ op.old = 0
  /\ op.name = "setBaud" => pc \in SetsBaud /\ op.tries = 0 /\ link.kind = "uart"
  /\ op.name \in Resets =>
       /\ pc \in {"trigger", "wait"} \cup Tries \cup SetsBaud \cup {"write", "check"}
       /\ pc \in Tries \cup SetsBaud => op.tries # 0
  /\ op.name = "update" => op.stage \in Stages
  /\ pc \in {"write", "check"} <=> op.name = "update" /\ op.stage = "parts"
  /\ pc \in SetsBaud => op.old # 0
  /\ pc \in {"baudLink", "baudPoll"} => link.kind = "uart"
  /\ pc = "baudPoll" => link.baud = op.old

\* The parts before the current one have been compared, and after the last one all of them.
Flashed ==
  op.name = "update" =>
    /\ op.stage = "parts" =>
         op.part \in 1..PartsCount /\ \A p \in 1..(op.part - 1) : core.flash[p] = "new"
    /\ op.stage \in {"again", "fromLoader"} => \A p \in 1..PartsCount : core.flash[p] = "new"

IInv == Typed /\ Adapted /\ Control /\ Flashed

\* What the end of an operation that returns ok is about.
OkIsTrue ==
  pc # "idle" /\ pc' = "idle" /\ outcome' = "ok" =>
    \/ op.name = "auto" /\ progress.isCancelled
    \/ /\ Reachable' /\ (op.old # 0 => link'.baud = op.old)
       /\ op.name = "update" => \A p \in 1..PartsCount : core'.flash[p] = "new"

-----------------------------------------------------------------------------
(* Links and candidates                                                    *)

LEMMA LinkFacts ==
  /\ NoLink \in Links /\ NoLink.kind = "none" /\ NoLink.baud = 0
  /\ Ebus \in Links \ {NoLink} /\ Ebus.kind = "ebus"
  /\ \A b \in Bauds : Uart(b) \in Links \ {NoLink}
  /\ \A b : Uart(b).kind = "uart" /\ Uart(b).baud = b
  /\ \A l \in Links : l.baud \in {0} \cup Bauds /\ (l.kind = "uart" => l = Uart(l.baud))
<1>1. /\ NoLink.kind = "none" /\ NoLink.baud = 0 /\ Ebus.kind = "ebus" /\ Ebus.baud = 0
  BY DEF NoLink, Ebus
<1>2. ASSUME NEW b PROVE Uart(b).kind = "uart" /\ Uart(b).baud = b
  BY DEF Uart
<1>3. NoLink \in Links /\ Ebus \in Links /\ \A b \in Bauds : Uart(b) \in Links
  BY DEF Links
<1>4. ASSUME NEW l \in Links
      PROVE  l.baud \in {0} \cup Bauds /\ (l.kind = "uart" => l = Uart(l.baud))
  BY <1>1, <1>2, <1>4 DEF Links
<1>5. Ebus # NoLink /\ \A b : Uart(b) # NoLink
  BY <1>1, <1>2
<1> QED BY <1>1, <1>2, <1>3, <1>4, <1>5

\* A baudrate is none of the numbers that stand for "no baudrate".
LEMMA BaudsArePositive == Bauds \subseteq Nat \ {0}
BY ConnectionAssumption DEF Bauds

LEMMA Candidates ==
  /\ <<>> \in Seq(Links \ {NoLink}) /\ <<Ebus>> \in Seq(Links \ {NoLink})
  /\ \A b \in Bauds : <<Uart(b)>> \in Seq(Links \ {NoLink})
  /\ [i \in DOMAIN BaudOrder |-> Uart(BaudOrder[i])] \in Seq(Links \ {NoLink})
  /\ ReconnectCandidates \in Seq(Links \ {NoLink})
<1> DEFINE S == Links \ {NoLink}
<1>1. Ebus \in S /\ \A b \in Bauds : Uart(b) \in S
  BY LinkFacts
<1>2. \A i \in DOMAIN BaudOrder : Uart(BaudOrder[i]) \in S
  BY <1>1 DEF Bauds
<1> HIDE DEF S
<1>3. <<>> \in Seq(S)
  OBVIOUS
<1>4. <<Ebus>> \in Seq(S)
  BY <1>1
<1>5. \A b \in Bauds : <<Uart(b)>> \in Seq(S)
  BY <1>1
<1>6. [i \in DOMAIN BaudOrder |-> Uart(BaudOrder[i])] \in Seq(S)
  <2>1. DOMAIN BaudOrder = 1..Len(BaudOrder) /\ Len(BaudOrder) \in Nat
    BY ConnectionAssumption
  <2>2. [i \in 1..Len(BaudOrder) |-> Uart(BaudOrder[i])] \in [1..Len(BaudOrder) -> S]
    BY <1>2, <2>1
  <2> QED BY <2>1, <2>2
<1>7. ReconnectCandidates \in Seq(S)
  BY <1>3, <1>4, <1>6 DEF ReconnectCandidates
<1> QED BY <1>3, <1>4, <1>5, <1>6, <1>7 DEF S

\* Without a link nothing is known of a camera.
LEMMA WithoutLink ==
  ASSUME SetDataLinkInterface(NoLink), pc' # "test"
  PROVE  Adapted' /\ link' \in Links
<1>1. /\ link' = NoLink /\ type' = "none" /\ space' = "none" /\ usb' = FALSE
      /\ adapters' = {} /\ lens' = {}
  BY DEF SetDataLinkInterface, RemoveDynamicPresetAdapters
<1>2. Agrees'
  BY <1>1 DEF Agrees
<1> QED BY <1>1, <1>2, LinkFacts DEF Adapted

LEMMA SameLink ==
  ASSUME IInv, pc # "test", pc' # "test", UNCHANGED <<link, type, space, adapterVars>>
  PROVE  Adapted' /\ link' \in Links
BY DEF IInv, Typed, Adapted, Agrees, adapterVars

-----------------------------------------------------------------------------
(* How an operation goes on                                                *)

\* What a step has to keep of the operation and the flash, and when it may return ok.
LEMMA FinishKeeps ==
  ASSUME NEW result, Finish(result)
  PROVE  op' \in Ops /\ cand' \in Seq(Links \ {NoLink}) /\ Control' /\ Flashed' /\ pc' = "idle"
<1>1. op' = NoOp /\ pc' = "idle" /\ cand' = <<>>
  BY DEF Finish
<1>2. op' \in Ops /\ op'.name = "none"
  BY <1>1 DEF Ops, NoOp
<1>3. Control'
  BY <1>1, <1>2 DEF Control, Connects, Resets, SetsBaud
<1>4. Flashed'
  BY <1>2 DEF Flashed
<1> QED BY <1>1, <1>2, <1>3, <1>4, Candidates

LEMMA ResetReturnsKeeps ==
  ASSUME IInv, core'.flash = core.flash, op.name \in Resets, pc \notin {"write", "check"},
         NEW result, NEW typeNow, ResetReturns(result, typeNow)
  PROVE  /\ op' \in Ops /\ cand' \in Seq(Links \ {NoLink}) /\ Control' /\ Flashed'
         /\ pc' \in {"idle", "trigger", "write"}
         /\ pc' = "idle" /\ outcome' = "ok" =>
              result = "ok" /\ (op.name = "update" => op.stage = "fromLoader")
<1>1. /\ op \in Ops /\ (op.name = "update" => op.stage \in Stages \ {"parts"})
      /\ op.name \in {"reset", "update"}
  BY DEF IInv, Typed, Control, Resets
<1>2. CASE op.name # "update" \/ op.stage = "fromLoader"
  <2>1. Finish(result)
    BY <1>2 DEF ResetReturns
  <2>2. outcome' = result
    BY <2>1 DEF Finish
  <2> QED BY <1>2, <2>1, <2>2, FinishKeeps
<1>3. CASE op.name = "update" /\ op.stage # "fromLoader" /\ Finish("error")
  <2>1. outcome' = "error"
    BY <1>3 DEF Finish
  <2> QED BY <1>3, <2>1, FinishKeeps
<1>4. CASE /\ op.name = "update" /\ op.stage = "toLoader"
           /\ op' = [op EXCEPT !.stage = "stay", !.trigger = "STAY_IN_LOADER", !.tries = 0]
           /\ cand' = <<>> /\ Goto("trigger")
  <2>1. /\ pc' = "trigger" /\ op' \in Ops /\ op'.name = "update" /\ op'.stage = "stay"
    BY <1>1, <1>4 DEF Goto, Ops, Stages, Triggers
  <2>2. Control' /\ Flashed'
    BY <2>1 DEF Control, Flashed, Connects, Resets, SetsBaud, Tries, Stages
  <2> QED BY <1>4, <2>1, <2>2, Candidates
<1>5. CASE /\ op.name = "update" /\ op.stage = "stay"
           /\ op' = [op EXCEPT !.stage = "parts", !.part = 1, !.tries = 0]
           /\ cand' = <<>> /\ Goto("write")
  <2>1. /\ pc' = "write" /\ op' \in Ops /\ op'.name = "update" /\ op'.stage = "parts"
        /\ op'.part = 1
    BY <1>1, <1>5 DEF Goto, Ops, Stages
  <2>2. Control'
    BY <2>1 DEF Control, Connects, Resets, SetsBaud, Tries, Stages
  <2>3. Flashed'
    BY <2>1, ConnectionAssumption DEF Flashed
  <2> QED BY <1>5, <2>1, <2>2, <2>3, Candidates
<1>6. CASE /\ op.name = "update" /\ op.stage = "again"
           /\ op' = [op EXCEPT !.stage = "fromLoader", !.trigger = "RESET_FROM_LOADER", !.tries = 0]
           /\ cand' = <<>> /\ Goto("trigger")
  <2>1. /\ pc' = "trigger" /\ op' \in Ops /\ op'.name = "update" /\ op'.stage = "fromLoader"
    BY <1>1, <1>6 DEF Goto, Ops, Stages, Triggers
  <2>2. Control'
    BY <2>1 DEF Control, Connects, Resets, SetsBaud, Tries, Stages
  <2>3. Flashed'
    BY <1>6, <2>1 DEF IInv, Flashed
  <2> QED BY <1>6, <2>1, <2>2, <2>3, Candidates
<1> QED BY <1>1, <1>2, <1>3, <1>4, <1>5, <1>6 DEF ResetReturns, Stages

LEMMA NextCandidateKeeps ==
  ASSUME IInv, core'.flash = core.flash, pc \in Tries, NextCandidate
  PROVE  /\ op' \in Ops /\ cand' \in Seq(Links \ {NoLink}) /\ Control' /\ Flashed'
         /\ pc' # "test"
         /\ ~(pc' = "idle" /\ outcome' = "ok")
<1>1. /\ op \in Ops /\ cand \in Seq(Links \ {NoLink}) /\ op.tries \in Nat
      /\ op.name \in Connects \cup Resets /\ pc \in {"try", "test"}
      /\ op.name \in Connects => op.tries = 0 /\ op.old = 0
      /\ op.name \in Resets => op.tries # 0
  BY DEF IInv, Typed, Control, Ops, Connects, Resets, Tries, SetsBaud
<1>2. ASSUME op' = [op EXCEPT !.tries = op'.tries], op'.tries \in Nat,
             op.name \in Connects => op'.tries = 0, op.name \in Resets => op'.tries # 0,
             Goto("try"), cand' \in Seq(Links \ {NoLink})
      PROVE  op' \in Ops /\ Control' /\ Flashed' /\ pc' = "try"
  <2>1. /\ pc' = "try" /\ op' \in Ops /\ op'.name = op.name /\ op'.old = op.old
        /\ op'.stage = op.stage /\ op'.part = op.part
    BY <1>1, <1>2 DEF Goto, Ops
  <2>2. op.name = "update" => op.stage \in Stages \ {"parts"}
    BY <1>1 DEF IInv, Control
  <2>3. Control'
    BY <1>1, <1>2, <2>1, <2>2 DEF Control, Connects, Resets, SetsBaud, Tries
  <2>4. Flashed'
    BY <2>1 DEF IInv, Flashed
  <2> QED BY <2>1, <2>3, <2>4
<1>3. CASE Len(cand) > 1
  <2>1. cand' = Tail(cand) /\ op' = op /\ Goto("try")
    BY <1>3 DEF NextCandidate
  <2>2. cand' \in Seq(Links \ {NoLink})
    BY <1>1, <1>3, <2>1
  <2>3. op' = [op EXCEPT !.tries = op'.tries]
    BY <1>1, <2>1 DEF Ops
  <2> QED BY <1>1, <1>2, <2>1, <2>2, <2>3
<1>4. CASE ~(Len(cand) > 1) /\ op.tries > 1
  <2>1. /\ op' = [op EXCEPT !.tries = op.tries - 1] /\ cand' = ReconnectCandidates
        /\ Goto("try")
    BY <1>4 DEF NextCandidate
  <2>2. op'.tries = op.tries - 1 /\ op'.tries \in Nat \ {0}
    BY <1>1, <1>4, <2>1 DEF Ops
  <2>3. op.name \notin Connects
    BY <1>1, <1>4
  <2> QED BY <1>2, <2>1, <2>2, <2>3, Candidates
<1>5. CASE ~(Len(cand) > 1) /\ op.tries = 1
  <2>1. ResetReturns("error", "none")
    BY <1>5 DEF NextCandidate
  <2>2. op.name \in Resets /\ pc \notin {"write", "check"}
    BY <1>1, <1>5
  <2> QED BY <2>1, <2>2, ResetReturnsKeeps
<1>6. CASE ~(Len(cand) > 1) /\ op.tries = 0
  <2>1. Finish("error")
    BY <1>6 DEF NextCandidate
  <2>2. outcome' = "error"
    BY <2>1 DEF Finish
  <2> QED BY <2>1, <2>2, FinishKeeps
<1> QED BY <1>1, <1>3, <1>4, <1>5, <1>6

LEMMA CandidateFailsKeeps ==
  ASSUME IInv, core'.flash = core.flash, pc \in Tries, CandidateFails
  PROVE  /\ op' \in Ops /\ cand' \in Seq(Links \ {NoLink}) /\ Control' /\ Flashed'
         /\ pc' # "test"
         /\ pc' = "idle" /\ outcome' = "ok" => op.name = "auto" /\ progress.isCancelled
<1>1. CASE op.name = "auto" /\ progress.isCancelled
  BY <1>1, FinishKeeps DEF CandidateFails
<1>2. CASE ~(op.name = "auto" /\ progress.isCancelled)
  BY <1>2, NextCandidateKeeps DEF CandidateFails
<1> QED BY <1>1, <1>2

LEMMA BaudrateFailsKeeps ==
  ASSUME IInv, core'.flash = core.flash, pc \in SetsBaud, BaudrateFails
  PROVE  /\ op' \in Ops /\ cand' \in Seq(Links \ {NoLink}) /\ Control' /\ Flashed'
         /\ Adapted' /\ link' \in Links
         /\ ~(pc' = "idle" /\ outcome' = "ok")
<1>1. CASE op.tries = 0
  <2>1. Finish("error") /\ UNCHANGED <<link, type, space, adapterVars>>
    BY <1>1 DEF BaudrateFails
  <2>2. pc' = "idle" /\ outcome' = "error" /\ pc # "test"
    BY <2>1 DEF Finish, SetsBaud
  <2>3. Adapted' /\ link' \in Links
    BY <2>1, <2>2, SameLink
  <2> QED BY <2>1, <2>2, <2>3, FinishKeeps
<1>2. CASE op.tries # 0
  <2>1. SetDataLinkInterface(NoLink) /\ ResetReturns("error", "none")
    BY <1>2 DEF BaudrateFails
  <2>2. op.name \in Resets /\ pc \notin {"write", "check"}
    BY <1>2 DEF IInv, Typed, Ops, Control, SetsBaud, Connects, Tries
  <2>3. /\ op' \in Ops /\ cand' \in Seq(Links \ {NoLink}) /\ Control' /\ Flashed'
        /\ pc' \in {"idle", "trigger", "write"} /\ ~(pc' = "idle" /\ outcome' = "ok")
    BY <2>1, <2>2, ResetReturnsKeeps
  <2> QED BY <2>1, <2>3, WithoutLink
<1> QED BY <1>1, <1>2

-----------------------------------------------------------------------------
(* Operations begin                                                        *)

\* A step that begins an operation from the idle state and leaves the camera alone.
LEMMA BeginInv ==
  ASSUME IInv, pc = "idle", core' = core, asked'.old \in {0} \cup Bauds,
         op' \in Ops, op'.name # "none", cand' \in Seq(Links \ {NoLink}),
         Control', op'.stage \notin {"parts", "again", "fromLoader"},
         Adapted', link' \in Links
  PROVE  IInv' /\ OkIsTrue
<1>1. Flashed'
  BY DEF Flashed
<1>2. Typed'
  BY DEF IInv, Typed
<1> QED BY <1>1, <1>2 DEF IInv, OkIsTrue

LEMMA BeginConnectInv ==
  ASSUME IInv, NEW name \in Connects, NEW route \in Seq(Links \ {NoLink}),
         BeginConnect(name, route)
  PROVE  IInv' /\ OkIsTrue
<1>1. /\ pc = "idle" /\ asked' = asked /\ core' = core /\ SetDataLinkInterface(NoLink)
      /\ op' = [NoOp EXCEPT !.name = name] /\ cand' = route /\ pc' = "try"
  BY DEF BeginConnect, Begin, Goto, cameraVars
<1>2. /\ op' \in Ops /\ op'.name = name /\ op'.old = 0 /\ op'.tries = 0 /\ op'.stage = "none"
  BY <1>1 DEF NoOp, Ops
<1>3. Control'
  BY <1>1, <1>2 DEF Control, Connects, Resets, SetsBaud, Tries
<1>4. Adapted' /\ link' \in Links
  BY <1>1, WithoutLink
<1>5. op'.name # "none" /\ asked'.old \in {0} \cup Bauds
  BY <1>1, <1>2 DEF Connects, IInv, Typed
<1> QED BY <1>1, <1>2, <1>3, <1>4, <1>5, BeginInv

LEMMA ConnectInv ==
  ASSUME IInv, ConnectUart \/ ConnectEbus \/ ConnectUartAuto \/ ReconnectCore
  PROVE  IInv' /\ OkIsTrue
<1>1. \E name \in Connects, route \in Seq(Links \ {NoLink}) : BeginConnect(name, route)
  BY Candidates DEF ConnectUart, ConnectEbus, ConnectUartAuto, ReconnectCore, Connects
<1> QED BY <1>1, BeginConnectInv

LEMMA DisconnectCoreInv == ASSUME IInv, DisconnectCore PROVE IInv' /\ OkIsTrue
<1>1. /\ pc = "idle" /\ pc' = pc /\ op' = op /\ cand' = cand /\ core' = core /\ asked' = asked
      /\ SetDataLinkInterface(NoLink)
  BY DEF DisconnectCore, Begin, cameraVars
<1>2. Adapted' /\ link' \in Links
  BY <1>1, WithoutLink
<1>3. Typed' /\ Flashed'
  BY <1>1, <1>2 DEF IInv, Typed, Flashed
<1>4. op.name = "none"
  BY <1>1 DEF IInv, Control
<1>5. Control'
  BY <1>1, <1>4 DEF Control, Connects, Resets, SetsBaud
<1> QED BY <1>1, <1>2, <1>3, <1>5 DEF IInv, OkIsTrue

LEMMA SetCoreBaudrateInv == ASSUME IInv, SetCoreBaudrate PROVE IInv' /\ OkIsTrue
<1>1. PICK b \in Bauds :
        /\ Begin("setBaud")
        /\ UNCHANGED <<cameraVars, linkVars, adapterVars, last, cand, progress, finishing>>
        /\ IF SetCoreBaudrateReturnsAtOnce(b)
           THEN UNCHANGED <<op, pc>>
           ELSE op' = [NoOp EXCEPT !.name = "setBaud", !.old = b] /\ Goto("baudWrite")
  BY DEF SetCoreBaudrate
<1>2. /\ pc = "idle" /\ asked' = asked /\ core' = core /\ cand' = cand
      /\ UNCHANGED <<link, type, space, adapterVars>>
  BY <1>1 DEF Begin, cameraVars, linkVars
<1>3. CASE UNCHANGED <<op, pc>>
  <2>1. Adapted' /\ link' \in Links
    BY <1>2, <1>3, SameLink
  <2> QED BY <1>2, <1>3, <2>1 DEF IInv, Typed, Control, Flashed, OkIsTrue
<1>4. CASE ~SetCoreBaudrateReturnsAtOnce(b)
  <2>1. /\ op' = [NoOp EXCEPT !.name = "setBaud", !.old = b] /\ pc' = "baudWrite"
    BY <1>1, <1>4 DEF Goto
  <2>2. /\ op' \in Ops /\ op'.name = "setBaud" /\ op'.old = b /\ op'.tries = 0
        /\ op'.stage = "none" /\ b # 0
    BY <2>1, BaudsArePositive DEF NoOp, Ops
  <2>3. link'.kind = "uart"
    BY <1>2, <1>4 DEF SetCoreBaudrateReturnsAtOnce
  <2>4. Control'
    BY <2>1, <2>2, <2>3 DEF Control, Connects, Resets, SetsBaud, Tries
  <2>5. Adapted' /\ link' \in Links
    BY <1>2, <2>1, SameLink
  <2>6. asked'.old \in {0} \cup Bauds /\ cand' \in Seq(Links \ {NoLink})
    BY <1>2 DEF IInv, Typed
  <2> QED BY <1>2, <2>2, <2>4, <2>5, <2>6, BeginInv
<1> QED BY <1>1, <1>3, <1>4

LEMMA ResetCoreInv == ASSUME IInv, ResetCore PROVE IInv' /\ OkIsTrue
<1>1. PICK t \in {"SOFTWARE_RESET", "RESET_TO_FACTORY_DEFAULT", "RESET_FROM_LOADER"} :
        /\ Begin("reset")
        /\ op' = [NoOp EXCEPT !.name = "reset", !.trigger = t] /\ Goto("trigger")
        /\ UNCHANGED <<cameraVars, linkVars, adapterVars, last, cand, progress, finishing>>
  BY DEF ResetCore
<1>2. /\ pc = "idle" /\ pc' = "trigger" /\ asked' = asked /\ core' = core /\ cand' = cand
      /\ UNCHANGED <<link, type, space, adapterVars>>
  BY <1>1 DEF Begin, Goto, cameraVars, linkVars
<1>3. op' \in Ops /\ op'.name = "reset" /\ op'.old = 0 /\ op'.stage = "none"
  BY <1>1 DEF NoOp, Ops, Resets, Triggers
<1>4. Control'
  BY <1>2, <1>3 DEF Control, Connects, Resets, SetsBaud, Tries
<1>5. Adapted' /\ link' \in Links
  BY <1>2, SameLink
<1>6. asked'.old \in {0} \cup Bauds /\ cand' \in Seq(Links \ {NoLink})
  BY <1>2 DEF IInv, Typed
<1> QED BY <1>2, <1>3, <1>4, <1>5, <1>6, BeginInv

LEMMA AskBeforeUpdateInv == ASSUME IInv, AskBeforeUpdate PROVE IInv' /\ OkIsTrue
<1>1. /\ pc = "idle" /\ asked' = [old |-> link.baud, type |-> type]
      /\ UNCHANGED <<core, link, type, space, adapterVars, op, pc, cand>>
  BY DEF AskBeforeUpdate, cameraVars, linkVars
<1>2. asked'.old \in {0} \cup Bauds
  BY <1>1, LinkFacts DEF IInv, Typed
<1>3. Adapted' /\ link' \in Links
  BY <1>1, SameLink
<1> QED BY <1>1, <1>2, <1>3 DEF IInv, Typed, Control, Flashed, OkIsTrue

LEMMA UpdateFirmwareInv == ASSUME IInv, UpdateFirmware PROVE IInv' /\ OkIsTrue
<1>1. /\ pc = "idle" /\ pc' = "trigger" /\ asked' = NotAsked
      /\ UNCHANGED <<core, link, type, space, adapterVars, cand>>
      /\ op' = [NoOp EXCEPT !.name = "update", !.old = asked.old,
                   !.stage = IF asked.type = "loader" THEN "stay" ELSE "toLoader",
                   !.trigger = IF asked.type = "loader" THEN "STAY_IN_LOADER"
                               ELSE "RESET_TO_LOADER"]
  BY DEF UpdateFirmware, Goto, cameraVars, linkVars
<1>2. asked.old \in {0} \cup Bauds /\ cand' \in Seq(Links \ {NoLink})
  BY <1>1 DEF IInv, Typed
<1>3. op' \in Ops /\ op'.name = "update" /\ op'.stage \in {"stay", "toLoader"}
  BY <1>1, <1>2 DEF NoOp, Ops, Resets, Triggers, Stages
<1>4. Control'
  BY <1>1, <1>3 DEF Control, Connects, Resets, SetsBaud, Tries, Stages
<1>5. Adapted' /\ link' \in Links
  BY <1>1, SameLink
<1>6. asked'.old \in {0} \cup Bauds
  BY <1>1 DEF NotAsked
<1> QED BY <1>1, <1>2, <1>3, <1>4, <1>5, <1>6, BeginInv

-----------------------------------------------------------------------------
(* Connecting                                                              *)

LEMMA TryCandidateInv == ASSUME IInv, TryCandidate PROVE IInv' /\ OkIsTrue
<1>1. pc = "try" /\ core' = core /\ asked' = asked
  BY DEF TryCandidate
<1>2. CASE cand # <<>> /\ SetDataLinkInterface(Head(cand)) /\ Goto("test") /\ UNCHANGED <<op, cand>>
  <2>1. Head(cand) \in Links \ {NoLink}
    BY <1>2 DEF IInv, Typed
  <2>2. /\ pc' = "test" /\ op' = op /\ cand' = cand /\ link' = Head(cand)
        /\ type' = "none" /\ space' = "none" /\ usb' = FALSE /\ adapters' = {} /\ lens' = {}
    BY <1>2 DEF SetDataLinkInterface, RemoveDynamicPresetAdapters, Goto
  <2>3. Typed' /\ Flashed'
    BY <1>1, <2>1, <2>2 DEF IInv, Typed, Flashed
  <2>4. Adapted'
    BY <2>1, <2>2 DEF Adapted
  <2>5. Control'
    BY <1>1, <2>2 DEF IInv, Typed, Ops, Control, Connects, Resets, SetsBaud, Tries
  <2> QED BY <2>2, <2>3, <2>4, <2>5 DEF IInv, OkIsTrue
<1>3. CASE CandidateFails /\ UNCHANGED <<linkVars, adapterVars>>
  <2>1. /\ op' \in Ops /\ cand' \in Seq(Links \ {NoLink}) /\ Control' /\ Flashed'
        /\ pc' # "test"
        /\ pc' = "idle" /\ outcome' = "ok" => op.name = "auto" /\ progress.isCancelled
    BY <1>1, <1>3, CandidateFailsKeeps DEF Tries
  <2>2. Adapted' /\ link' \in Links
    BY <1>1, <1>3, <2>1, SameLink DEF linkVars
  <2>3. Typed'
    BY <1>1, <2>1, <2>2 DEF IInv, Typed
  <2> QED BY <2>1, <2>2, <2>3 DEF IInv, OkIsTrue
<1> QED BY <1>2, <1>3 DEF TryCandidate

\* A camera that has answered is known completely, or an exception was thrown.
LEMMA DeviceTestedAdapts ==
  ASSUME IInv, pc = "test", pc' # "test", NEW errorAt \in 0..NoError, NEW attrs \in AttrCounts,
         DeviceTested(errorAt, attrs)
  PROVE  Adapted' /\ link' = link
<1>1. /\ link' = link /\ link # NoLink /\ type' = core.mode /\ space' = core.mode /\ usb' = TRUE
      /\ core.mode \in {"main", "loader"} /\ adapters = {} /\ lens = {}
  BY DEF DeviceTested, IInv, Typed, Cameras, Adapted
<1>2. CASE core.mode = "loader"
  <2>1. adapters' = {} /\ lens' = {}
    BY <1>1, <1>2 DEF DeviceTested
  <2>2. Agrees'
    BY <1>1, <1>2, <2>1 DEF Agrees
  <2> QED BY <1>1, <2>2 DEF Adapted
<1>3. CASE core.mode = "main" /\ UnknownPresets(errorAt, attrs) # {}
  <2>1. thrown' = TRUE
    BY <1>3 DEF DeviceTested
  <2> QED BY <1>1, <2>1 DEF Adapted
<1>4. CASE core.mode = "main" /\ UnknownPresets(errorAt, attrs) = {}
  <2>1. AddDynamicPresetAdapters(errorAt, attrs)
    BY <1>4 DEF DeviceTested
  <2>2. IF errorAt = NoError
        THEN adapters' = PresetAdapters(PresetsCount, attrs) /\ lens' = 1..PresetsCount
        ELSE adapters' = {} /\ lens' = {}
    BY <1>4, <2>1 DEF AddDynamicPresetAdapters, RemoveDynamicPresetAdapters
  <2>3. lens' = {i \in 1..PresetsCount : <<i, 1>> \in adapters'}
    <3>1. 1 \in 1..attrs
      BY ConnectionAssumption
    <3>2. CASE errorAt = NoError
      <4>1. \A i \in 1..PresetsCount : <<i, 1>> \in adapters'
        BY <2>2, <3>1, <3>2 DEF PresetAdapters
      <4> QED BY <2>2, <3>2, <4>1
    <3>3. CASE errorAt # NoError
      BY <2>2, <3>3
    <3> QED BY <3>2, <3>3
  <2>4. Agrees'
    BY <1>1, <1>4, <2>3 DEF Agrees
  <2> QED BY <1>1, <2>4 DEF Adapted
<1> QED BY <1>1, <1>2, <1>3, <1>4

LEMMA ConnectedKeeps ==
  ASSUME IInv, core' = core, pc = "test", link' = link, Connected
  PROVE  /\ op' \in Ops /\ cand' \in Seq(Links \ {NoLink}) /\ Control' /\ Flashed'
         /\ pc' # "test"
         /\ pc' = "idle" /\ outcome' = "ok" =>
              /\ op.old # 0 => link.baud = op.old
              /\ op.name = "update" => op.stage = "fromLoader"
<1>1. /\ op \in Ops /\ op.name \in Connects \cup Resets
      /\ op.name \in Connects => op.tries = 0 /\ op.old = 0
      /\ op.name \in Resets => op.tries # 0
  BY DEF IInv, Typed, Control, Ops, Connects, Resets, Tries, SetsBaud
<1>2. CASE op.tries = 0
  <2>1. Finish("ok") /\ op.old = 0 /\ op.name # "update"
    BY <1>1, <1>2 DEF Connected, Resets
  <2> QED BY <2>1, FinishKeeps
<1>3. CASE op.tries # 0 /\ (op.old = 0 \/ link = Uart(op.old))
  <2>1. ResetReturns("ok", core.mode)
    BY <1>3 DEF Connected
  <2>2. op.name \in Resets /\ pc \notin {"write", "check"}
    BY <1>1, <1>3
  <2> QED BY <1>3, <2>1, <2>2, ResetReturnsKeeps, LinkFacts
<1>4. CASE op.tries # 0 /\ ~(op.old = 0 \/ link = Uart(op.old))
  <2>1. op' = op /\ cand' = cand /\ pc' = "baudWrite"
    BY <1>4 DEF Connected, Goto
  <2>2. op.name \in Resets /\ (op.name = "update" => op.stage \in Stages \ {"parts"})
    BY <1>1, <1>4 DEF IInv, Control
  <2>3. Control'
    BY <1>1, <1>4, <2>1, <2>2 DEF Control, Connects, Resets, SetsBaud, Tries
  <2>4. Flashed' /\ cand' \in Seq(Links \ {NoLink})
    BY <2>1 DEF IInv, Flashed, Typed
  <2> QED BY <1>1, <2>1, <2>3, <2>4
<1> QED BY <1>2, <1>3, <1>4

LEMMA TestDeviceTypeInv == ASSUME IInv, TestDeviceType PROVE IInv' /\ OkIsTrue
<1>1. pc = "test" /\ core' = core /\ asked' = asked /\ plugged' = plugged
  BY DEF TestDeviceType
<1>2. ASSUME Reachable, NEW errorAt \in 0..NoError, NEW attrs \in AttrCounts,
             DeviceTested(errorAt, attrs), IF thrown' THEN Finish("exception") ELSE Connected
      PROVE  IInv' /\ OkIsTrue
  <2>1. /\ op' \in Ops /\ cand' \in Seq(Links \ {NoLink}) /\ Control' /\ Flashed'
        /\ pc' # "test" /\ link' = link
        /\ pc' = "idle" /\ outcome' = "ok" =>
             /\ op.old # 0 => link.baud = op.old
             /\ op.name = "update" => op.stage = "fromLoader"
    <3>1. link' = link
      BY <1>2 DEF DeviceTested
    <3>2. CASE Finish("exception")
      <4>1. outcome' = "exception"
        BY <3>2 DEF Finish
      <4> QED BY <3>1, <3>2, <4>1, FinishKeeps
    <3>3. CASE Connected
      BY <1>1, <3>1, <3>3, ConnectedKeeps
    <3> QED BY <1>2, <3>2, <3>3
  <2>2. Adapted'
    BY <1>1, <1>2, <2>1, DeviceTestedAdapts
  <2>3. Typed'
    BY <1>1, <2>1 DEF IInv, Typed
  <2>4. Reachable'
    BY <1>1, <1>2, <2>1 DEF Reachable
  <2>5. op.name = "update" /\ op.stage = "fromLoader" =>
          \A p \in 1..PartsCount : core'.flash[p] = "new"
    BY <1>1 DEF IInv, Flashed
  <2> QED BY <2>1, <2>2, <2>3, <2>4, <2>5 DEF IInv, OkIsTrue
<1>3. CASE SetDataLinkInterface(NoLink) /\ CandidateFails
  <2>1. /\ op' \in Ops /\ cand' \in Seq(Links \ {NoLink}) /\ Control' /\ Flashed'
        /\ pc' # "test"
        /\ pc' = "idle" /\ outcome' = "ok" => op.name = "auto" /\ progress.isCancelled
    BY <1>1, <1>3, CandidateFailsKeeps DEF Tries
  <2>2. Adapted' /\ link' \in Links
    BY <1>3, <2>1, WithoutLink
  <2>3. Typed'
    BY <1>1, <2>1, <2>2 DEF IInv, Typed
  <2> QED BY <2>1, <2>2, <2>3 DEF IInv, OkIsTrue
<1> QED
  <2>1. CASE SetDataLinkInterface(NoLink) /\ CandidateFails
    BY <1>3, <2>1
  <2>2. CASE Reachable /\ \E errorAt \in 0..NoError, attrs \in AttrCounts :
               DeviceTested(errorAt, attrs)
               /\ IF thrown' THEN Finish("exception") ELSE Connected
    BY <1>2, <2>2
  <2> QED BY <2>1, <2>2 DEF TestDeviceType

-----------------------------------------------------------------------------
(* The baudrate                                                            *)

\* A step that ends in BaudrateFails.
LEMMA BaudrateFailsInv ==
  ASSUME IInv, pc \in SetsBaud, core'.flash = core.flash, core' \in Cameras, asked' = asked,
         BaudrateFails
  PROVE  IInv' /\ OkIsTrue
<1>1. /\ op' \in Ops /\ cand' \in Seq(Links \ {NoLink}) /\ Control' /\ Flashed'
      /\ Adapted' /\ link' \in Links
      /\ ~(pc' = "idle" /\ outcome' = "ok")
  BY BaudrateFailsKeeps
<1>2. Typed'
  BY <1>1 DEF IInv, Typed
<1> QED BY <1>1, <1>2 DEF IInv, OkIsTrue

LEMMA NoUartConnectionInv == ASSUME IInv, NoUartConnection PROVE IInv' /\ OkIsTrue
<1>1. /\ pc = "baudWrite" /\ core' = core /\ asked' = asked /\ BaudrateFails
  BY DEF NoUartConnection, cameraVars
<1>2. pc \in SetsBaud
  BY <1>1 DEF SetsBaud
<1>3. core' \in Cameras
  BY <1>1 DEF IInv, Typed
<1> QED BY <1>1, <1>2, <1>3, BaudrateFailsInv

LEMMA WriteBaudrateInv == ASSUME IInv, WriteBaudrate PROVE IInv' /\ OkIsTrue
<1>1. pc = "baudWrite" /\ link.kind = "uart" /\ asked' = asked /\ pc \in SetsBaud
  BY DEF WriteBaudrate, SetsBaud
<1>2. CASE /\ core' = [core EXCEPT !.baud = op.old] /\ Goto("baudLink")
           /\ UNCHANGED <<link, sent, type, space, signals, adapterVars, op, cand>>
  <2>1. /\ pc' = "baudLink" /\ link' = link /\ op' = op /\ cand' = cand
        /\ UNCHANGED <<link, type, space, adapterVars>>
    BY <1>2 DEF Goto
  <2>2. Adapted' /\ link' \in Links
    BY <1>1, <2>1, SameLink
  <2>3. Typed' /\ Flashed'
    <3>1. core \in Cameras /\ op.old \in Bauds
      BY <1>1 DEF IInv, Typed, Ops, Control, SetsBaud
    <3>2. core' \in Cameras /\ core'.flash = core.flash
      BY <1>2, <3>1 DEF Cameras
    <3> QED BY <1>1, <2>1, <2>2, <3>2 DEF IInv, Typed, Flashed
  <2>4. Control'
    BY <1>1, <2>1 DEF IInv, Typed, Ops, Control, Connects, Resets, SetsBaud, Tries
  <2> QED BY <2>1, <2>2, <2>3, <2>4 DEF IInv, OkIsTrue
<1>3. CASE /\ core' \in {core} \cup (IF Reachable THEN {[core EXCEPT !.baud = op.old]} ELSE {})
           /\ BaudrateFails
  <2>1. core \in Cameras /\ op.old \in Bauds
    BY <1>1 DEF IInv, Typed, Ops, Control
  <2>2. core' \in Cameras /\ core'.flash = core.flash
    BY <1>3, <2>1 DEF Cameras
  <2> QED BY <1>1, <1>3, <2>2, BaudrateFailsInv
<1> QED BY <1>2, <1>3 DEF WriteBaudrate

LEMMA SetLinkBaudrateInv == ASSUME IInv, SetLinkBaudrate PROVE IInv' /\ OkIsTrue
<1>1. pc = "baudLink" /\ core' = core /\ asked' = asked /\ pc \in SetsBaud
  BY DEF SetLinkBaudrate, SetsBaud
<1>2. CASE /\ link' = [link EXCEPT !.baud = op.old] /\ Goto("baudPoll")
           /\ UNCHANGED <<lost, sent, type, space, signals, adapterVars, op, cand, faults>>
  <2>1. link \in Links /\ link.kind = "uart" /\ op.old \in Bauds
    BY <1>1 DEF IInv, Typed, Ops, Control, SetsBaud
  <2>2. link' = Uart(op.old) /\ link' \in Links /\ link # NoLink /\ link' # NoLink
    BY <1>2, <2>1, LinkFacts DEF Uart
  <2>3. link'.kind = "uart" /\ link'.baud = op.old
    BY <2>2, LinkFacts
  <2>4. /\ pc' = "baudPoll" /\ op' = op /\ cand' = cand
        /\ UNCHANGED <<type, space, adapterVars>>
    BY <1>2 DEF Goto
  <2>5. Adapted'
    BY <1>1, <2>2, <2>4 DEF IInv, Adapted, Agrees, adapterVars
  <2>6. Typed' /\ Flashed'
    BY <1>1, <2>2, <2>4 DEF IInv, Typed, Flashed
  <2>7. Control'
    BY <1>1, <2>3, <2>4 DEF IInv, Typed, Ops, Control, Connects, Resets, SetsBaud, Tries
  <2> QED BY <2>4, <2>5, <2>6, <2>7 DEF IInv, OkIsTrue
<1>3. CASE BaudrateFails
  <2>1. core' \in Cameras
    BY <1>1 DEF IInv, Typed
  <2> QED BY <1>1, <1>3, <2>1, BaudrateFailsInv
<1> QED BY <1>2, <1>3 DEF SetLinkBaudrate

LEMMA PollDeviceTypeInv == ASSUME IInv, PollDeviceType PROVE IInv' /\ OkIsTrue
<1>1. /\ pc = "baudPoll" /\ core' = core /\ asked' = asked /\ plugged' = plugged
      /\ pc \in SetsBaud
  BY DEF PollDeviceType, SetsBaud
<1>2. CASE /\ Answered /\ UNCHANGED <<link, sent, type, space, signals, adapterVars>>
           /\ IF op.tries = 0 THEN Finish("ok") ELSE ResetReturns("ok", type)
  <2>1. /\ op \in Ops /\ link.baud = op.old
        /\ op.tries # 0 => op.name \in Resets /\ pc \notin {"write", "check"}
        /\ op.tries = 0 => op.name # "update"
    BY <1>1 DEF IInv, Typed, Ops, Control, Connects, Resets, SetsBaud, Tries
  <2>2. /\ op' \in Ops /\ cand' \in Seq(Links \ {NoLink}) /\ Control' /\ Flashed'
        /\ pc' # "test"
        /\ pc' = "idle" /\ outcome' = "ok" =>
             (op.name = "update" => op.stage = "fromLoader")
    <3>1. CASE op.tries = 0
      BY <1>2, <2>1, <3>1, FinishKeeps
    <3>2. CASE op.tries # 0
      BY <1>1, <1>2, <2>1, <3>2, ResetReturnsKeeps
    <3> QED BY <3>1, <3>2
  <2>3. Adapted' /\ link' \in Links /\ link' = link
    BY <1>1, <1>2, <2>2, SameLink
  <2>4. Typed'
    BY <1>1, <2>2, <2>3 DEF IInv, Typed
  <2>5. Reachable'
    BY <1>1, <1>2, <2>3 DEF Answered, Reachable
  <2>6. op.name = "update" /\ op.stage = "fromLoader" =>
          \A p \in 1..PartsCount : core'.flash[p] = "new"
    BY <1>1 DEF IInv, Flashed
  <2> QED BY <2>1, <2>2, <2>3, <2>4, <2>5, <2>6 DEF IInv, OkIsTrue
<1>3. CASE BaudrateFails
  <2>1. core' \in Cameras
    BY <1>1 DEF IInv, Typed
  <2> QED BY <1>1, <1>3, <2>1, BaudrateFailsInv
<1> QED BY <1>2, <1>3 DEF PollDeviceType

-----------------------------------------------------------------------------
(* Resets and the firmware                                                 *)

LEMMA ActivateTriggerInv == ASSUME IInv, ActivateTrigger PROVE IInv' /\ OkIsTrue
<1>1. /\ pc = "trigger" /\ asked' = asked /\ UNCHANGED <<link, type, space, adapterVars>>
  BY DEF ActivateTrigger
<1>2. core' = core \/ core' = [core EXCEPT !.reset = op.trigger]
  BY DEF ActivateTrigger
<1>3. core' \in Cameras /\ core'.flash = core.flash
  <2>1. core \in Cameras /\ op.trigger \in {"none"} \cup Triggers
    BY DEF IInv, Typed, Ops
  <2> QED BY <1>2, <2>1 DEF Cameras
<1>4. /\ op \in Ops /\ op.name \in Resets
      /\ op.name = "update" => op.stage \in Stages \ {"parts"}
  BY <1>1 DEF IInv, Typed, Ops, Control, Connects, Resets, SetsBaud, Tries
<1>5. /\ op' \in Ops /\ cand' \in Seq(Links \ {NoLink}) /\ Control' /\ Flashed'
      /\ pc' # "test" /\ ~(pc' = "idle" /\ outcome' = "ok")
  <2>1. CASE ResetReturns("error", type)
    BY <1>1, <1>3, <1>4, <2>1, ResetReturnsKeeps
  <2>2. CASE Goto("wait") /\ UNCHANGED <<op, cand>>
    <3>1. pc' = "wait" /\ op' = op /\ cand' = cand
      BY <2>2 DEF Goto
    <3>2. Control'
      BY <1>4, <3>1 DEF Control, Connects, Resets, SetsBaud, Tries
    <3>3. Flashed' /\ cand' \in Seq(Links \ {NoLink})
      BY <1>3, <3>1 DEF IInv, Typed, Flashed
    <3> QED BY <1>4, <3>1, <3>2, <3>3
  <2> QED BY <2>1, <2>2 DEF ActivateTrigger
<1>6. Adapted' /\ link' \in Links
  BY <1>1, <1>5, SameLink
<1>7. Typed'
  BY <1>1, <1>3, <1>5, <1>6 DEF IInv, Typed
<1> QED BY <1>5, <1>6, <1>7 DEF IInv, OkIsTrue

LEMMA WaitInv == ASSUME IInv, WaitTillTriggerFinished PROVE IInv' /\ OkIsTrue
<1>1. /\ pc = "wait" /\ pc' = "try" /\ core' = core /\ asked' = asked
      /\ SetDataLinkInterface(NoLink)
      /\ op' = [op EXCEPT !.tries = Attempts] /\ cand' = ReconnectCandidates
  BY DEF WaitTillTriggerFinished, Goto, cameraVars
<1>2. /\ op \in Ops /\ op.name \in Resets
      /\ op.name = "update" => op.stage \in Stages \ {"parts"}
  BY <1>1 DEF IInv, Typed, Ops, Control, Connects, Resets, SetsBaud, Tries
<1>3. /\ op' \in Ops /\ op'.name = op.name /\ op'.stage = op.stage /\ op'.part = op.part
      /\ op'.tries # 0
  BY <1>1, <1>2, ConnectionAssumption DEF Ops
<1>4. Control'
  BY <1>1, <1>2, <1>3 DEF Control, Connects, Resets, SetsBaud, Tries
<1>5. Flashed'
  BY <1>1, <1>3 DEF IInv, Flashed
<1>6. Adapted' /\ link' \in Links
  BY <1>1, WithoutLink
<1>7. Typed'
  BY <1>1, <1>3, <1>6, Candidates DEF IInv, Typed
<1> QED BY <1>1, <1>4, <1>5, <1>6, <1>7 DEF IInv, OkIsTrue

LEMMA WritePartInv == ASSUME IInv, WritePart PROVE IInv' /\ OkIsTrue
<1>1. /\ pc = "write" /\ asked' = asked /\ UNCHANGED <<link, type, space, adapterVars>>
      /\ \/ Goto("check") /\ UNCHANGED <<op, cand>>
         \/ Finish("error")
  BY DEF WritePart
<1>2. PICK content \in {"old", "new", "torn"} : core' = [core EXCEPT !.flash[op.part] = content]
  BY DEF WritePart
<1>3. /\ op \in Ops /\ op.name = "update" /\ op.stage = "parts" /\ op.part \in 1..PartsCount
      /\ \A p \in 1..(op.part - 1) : core.flash[p] = "new"
  BY <1>1 DEF IInv, Typed, Control, Flashed
<1>4. core' \in Cameras /\ core'.flash = [core.flash EXCEPT ![op.part] = content]
  BY <1>2, <1>3 DEF IInv, Typed, Cameras
<1>5. \A p \in 1..(op.part - 1) : core'.flash[p] = "new"
  <2>1. core.flash \in [1..PartsCount -> {"old", "new", "torn"}] /\ PartsCount \in Nat
    BY ConnectionAssumption DEF IInv, Typed, Cameras
  <2>2. \A p \in 1..(op.part - 1) : p \in 1..PartsCount /\ p # op.part
    BY <1>3, <2>1
  <2> QED BY <1>3, <1>4, <2>1, <2>2
<1>6. /\ op' \in Ops /\ cand' \in Seq(Links \ {NoLink}) /\ Control' /\ Flashed'
      /\ pc' # "test" /\ ~(pc' = "idle" /\ outcome' = "ok")
  <2>1. CASE Finish("error")
    <3>1. outcome' = "error"
      BY <2>1 DEF Finish
    <3> QED BY <2>1, <3>1, FinishKeeps
  <2>2. CASE Goto("check") /\ UNCHANGED <<op, cand>>
    <3>1. pc' = "check" /\ op' = op /\ cand' = cand
      BY <2>2 DEF Goto
    <3>2. Control'
      BY <1>3, <3>1 DEF Control, Connects, Resets, SetsBaud, Tries, Stages
    <3>3. Flashed' /\ cand' \in Seq(Links \ {NoLink})
      BY <1>3, <1>5, <3>1 DEF IInv, Typed, Flashed
    <3> QED BY <1>3, <3>1, <3>2, <3>3
  <2> QED BY <1>1, <2>1, <2>2
<1>7. Adapted' /\ link' \in Links
  BY <1>1, <1>6, SameLink
<1>8. Typed'
  BY <1>1, <1>4, <1>5, <1>6, <1>7 DEF IInv, Typed
<1> QED BY <1>6, <1>7, <1>8 DEF IInv, OkIsTrue

LEMMA CheckPartInv == ASSUME IInv, CheckPart PROVE IInv' /\ OkIsTrue
<1>1. /\ pc = "check" /\ core' = core /\ asked' = asked
      /\ UNCHANGED <<link, type, space, adapterVars>>
      /\ \/ core.flash[op.part] = "new" /\ NextPart /\ UNCHANGED cand
         \/ Finish("error")
  BY DEF CheckPart
<1>2. /\ op \in Ops /\ op.name = "update" /\ op.stage = "parts" /\ op.part \in 1..PartsCount
      /\ \A p \in 1..(op.part - 1) : core.flash[p] = "new"
  BY <1>1 DEF IInv, Typed, Control, Flashed
<1>3. /\ op' \in Ops /\ cand' \in Seq(Links \ {NoLink}) /\ Control' /\ Flashed'
      /\ pc' # "test" /\ ~(pc' = "idle" /\ outcome' = "ok")
  <2>1. CASE Finish("error")
    <3>1. outcome' = "error"
      BY <2>1 DEF Finish
    <3> QED BY <2>1, <3>1, FinishKeeps
  <2>2. CASE core.flash[op.part] = "new" /\ NextPart /\ UNCHANGED cand
    <3>1. cand' \in Seq(Links \ {NoLink})
      BY <2>2 DEF IInv, Typed
    <3>2. \A p \in 1..op.part : core'.flash[p] = "new"
      BY <1>1, <1>2, <2>2, ConnectionAssumption
    <3>3. CASE op.part < PartsCount
      <4>1. op' = [op EXCEPT !.part = op.part + 1] /\ pc' = "write"
        BY <2>2, <3>3 DEF NextPart, Goto
      <4>2. /\ op' \in Ops /\ op'.name = "update" /\ op'.stage = "parts"
            /\ op'.part = op.part + 1
        BY <1>2, <4>1 DEF Ops
      <4>3. op'.part \in 1..PartsCount /\ op'.part - 1 = op.part
        <5>1. PICK part \in Nat : part = op.part
          BY <1>2, ConnectionAssumption
        <5>2. PartsCount \in Nat
          BY ConnectionAssumption
        <5> QED BY <1>2, <3>3, <4>2, <5>1, <5>2
      <4>4. Flashed'
        BY <3>2, <4>2, <4>3 DEF Flashed
      <4>5. Control'
        BY <4>1, <4>2 DEF Control, Connects, Resets, SetsBaud, Tries, Stages
      <4> QED BY <3>1, <4>1, <4>2, <4>4, <4>5
    <3>4. CASE ~(op.part < PartsCount)
      <4>1. PICK again \in BOOLEAN :
              /\ op' = [op EXCEPT !.stage = IF again THEN "again" ELSE "fromLoader",
                          !.trigger = IF again THEN "RESET_TO_LOADER" ELSE "RESET_FROM_LOADER"]
              /\ pc' = "trigger"
        BY <2>2, <3>4 DEF NextPart, Goto
      <4>2. /\ op' \in Ops /\ op'.name = "update" /\ op'.stage \in {"again", "fromLoader"}
        BY <1>2, <4>1 DEF Ops, Stages, Triggers
      <4>3. op.part = PartsCount
        BY <1>2, <3>4, ConnectionAssumption
      <4>4. Flashed'
        BY <3>2, <4>2, <4>3 DEF Flashed
      <4>5. Control'
        BY <4>1, <4>2 DEF Control, Connects, Resets, SetsBaud, Tries, Stages
      <4> QED BY <3>1, <4>1, <4>2, <4>4, <4>5
    <3> QED BY <3>3, <3>4
  <2> QED BY <1>1, <2>1, <2>2
<1>4. Adapted' /\ link' \in Links
  BY <1>1, <1>3, SameLink
<1>5. Typed'
  BY <1>1, <1>3, <1>4 DEF IInv, Typed
<1> QED BY <1>3, <1>4, <1>5 DEF IInv, OkIsTrue

-----------------------------------------------------------------------------
(* The camera and the other threads                                        *)

\* The camera may change its mode and baudrate, and nothing else of what matters here changes.
LEMMA ElsewhereInv ==
  ASSUME IInv, UNCHANGED <<link, type, space, adapterVars, op, pc, cand, asked>>,
         core'.flash = core.flash, core' \in Cameras
  PROVE  IInv' /\ OkIsTrue
<1>1. Typed' /\ Flashed'
  BY DEF IInv, Typed, Flashed
<1>2. Control' /\ Adapted'
  BY DEF IInv, Control, Adapted, Agrees, adapterVars
<1> QED BY <1>1, <1>2 DEF IInv, OkIsTrue

LEMMA CameraInv == ASSUME IInv, CameraResets \/ CameraChanges PROVE IInv' /\ OkIsTrue
<1>1. UNCHANGED <<link, type, space, adapterVars, op, pc, cand, asked>>
  BY DEF CameraResets, CameraChanges, linkVars, controlVars
<1>2. PICK m \in {"main", "loader"}, b \in Bauds :
        core' = [core EXCEPT !.mode = m, !.baud = b, !.reset = "none"]
  BY DEF CameraResets, CameraChanges, ModeAfter
<1>3. core' \in Cameras /\ core'.flash = core.flash
  BY <1>2 DEF IInv, Typed, Cameras
<1> QED BY <1>1, <1>3, ElsewhereInv

LEMMA OtherInv ==
  ASSUME IInv, \/ Unplug \/ Plug \/ Cancel \/ EndTransaction \/ RefreshProperties
               \/ CheckConnectionLost \/ SignalConnectionLost
               \/ UNCHANGED vars
  PROVE  IInv' /\ OkIsTrue
<1>1. core' = core /\ UNCHANGED <<link, type, space, adapterVars, op, pc, cand, asked>>
  BY DEF Unplug, Plug, Cancel, EndTransaction, RefreshProperties, CheckConnectionLost,
         SignalConnectionLost, vars, cameraVars, linkVars, controlVars
<1> QED BY <1>1, ElsewhereInv DEF IInv, Typed

-----------------------------------------------------------------------------
(* Theorems                                                                *)

LEMMA InitInv == ASSUME Init PROVE IInv
<1>1. /\ core \in [mode : {"main", "loader"}, baud : Bauds, reset : {"none"},
                    flash : {[p \in 1..PartsCount |-> "old"]}]
      /\ link = NoLink /\ type = "none" /\ space = "none" /\ usb = FALSE /\ adapters = {}
      /\ lens = {} /\ op = NoOp /\ pc = "idle" /\ cand = <<>> /\ asked = NotAsked
  BY DEF Init
<1>2. op \in Ops /\ op.name = "none" /\ asked.old = 0
  BY <1>1 DEF NoOp, Ops, NotAsked
<1>3. core \in Cameras
  BY <1>1 DEF Cameras
<1>4. Typed
  BY <1>1, <1>2, <1>3, LinkFacts, Candidates DEF Typed
<1>5. Adapted
  BY <1>1 DEF Adapted, Agrees
<1>6. Control /\ Flashed
  BY <1>1, <1>2 DEF Control, Flashed, Connects, Resets, SetsBaud
<1> QED BY <1>4, <1>5, <1>6 DEF IInv

LEMMA NextInv == ASSUME IInv, [Next]_vars PROVE IInv' /\ OkIsTrue
BY ConnectInv, DisconnectCoreInv, SetCoreBaudrateInv, ResetCoreInv, AskBeforeUpdateInv,
   UpdateFirmwareInv, TryCandidateInv, TestDeviceTypeInv, NoUartConnectionInv, WriteBaudrateInv,
   SetLinkBaudrateInv, PollDeviceTypeInv, ActivateTriggerInv, WaitInv, WritePartInv, CheckPartInv,
   CameraInv, OtherInv
   DEF Next, OperationStep

\* The inductive invariant: where each operation can be, what is known of the camera in
\* every step, and which parts of the firmware are written.
THEOREM Invariance == Spec => []IInv
<1>1. Init => IInv
  BY InitInv
<1>2. IInv /\ [Next]_vars => IInv'
  BY NextInv
<1> QED BY <1>1, <1>2, PTL DEF Spec

\* TypeMatchesLink: after every failure path the device type, the memory space, the USB,
\* preset and lens adapters are those of the link.
THEOREM ConnectionAgrees == Spec => []TypeMatchesLink
<1>1. IInv => TypeMatchesLink
  BY DEF IInv, Adapted, Agrees, TypeMatchesLink
<1> QED BY <1>1, Invariance, PTL

\* OkMeansConnected: an operation that returns ok leaves a camera that answers, at the
\* baudrate that was to be set or kept, through any resets and attempts.
THEOREM OkLeavesConnected == Spec => OkMeansConnected
<1>1. IInv /\ [Next]_vars =>
        [Ends(Connecting) /\ outcome' = "ok" /\ ~(op.name = "auto" /\ progress.isCancelled) =>
           /\ Reachable'
           /\ op.old # 0 => link'.baud = op.old]_vars
  BY NextInv DEF OkIsTrue, Ends
<1> QED BY <1>1, Invariance, PTL DEF Spec, OkMeansConnected

\* FirmwareWhole: an update returns ok only when every part of the firmware was written and
\* compared, whatever was lost or damaged on the way.
THEOREM UpdateIsWhole == Spec => FirmwareWhole
<1>1. IInv /\ [Next]_vars =>
        [Ends({"update"}) /\ outcome' = "ok" =>
           \A p \in 1..PartsCount : core'.flash[p] = "new"]_vars
  BY NextInv DEF OkIsTrue, Ends
<1> QED BY <1>1, Invariance, PTL DEF Spec, FirmwareWhole

-----------------------------------------------------------------------------
(* How many steps an operation has left                                    *)

\* A reset is triggered and waited for; each attempt to reconnect tries every baudrate, which
\* takes two steps, and the baudrate is restored in three.
Most       == Len(BaudOrder)
ResetSteps == 2 * (Attempts * Most) + 5

\* What an operation has to do after the reset or the part under way.
Later ==
  IF op.name # "update" THEN 0
  ELSE CASE op.stage = "toLoader"   -> 3 * ResetSteps + 2 * PartsCount
         [] op.stage = "stay"       -> 2 * ResetSteps + 2 * PartsCount
         [] op.stage = "parts"      -> 2 * ResetSteps + 2 * (PartsCount - op.part)
         [] op.stage = "again"      -> ResetSteps
         [] op.stage = "fromLoader" -> 0

\* The candidates that are left to be tried, in this attempt and in the following ones.
Untried == (IF op.tries = 0 THEN 0 ELSE (op.tries - 1) * Most)
           + (IF cand = <<>> THEN 1 ELSE Len(cand))

\* What is left of the reset, the connecting or the part under way.
Now ==
  CASE pc = "trigger"   -> ResetSteps
    [] pc = "wait"      -> ResetSteps - 1
    [] pc = "try"       -> 2 * Untried + 3
    [] pc = "test"      -> 2 * Untried + 2
    [] pc = "baudWrite" -> 3
    [] pc = "baudLink"  -> 2
    [] pc = "baudPoll"  -> 1
    [] pc = "write"     -> 2
    [] pc = "check"     -> 1
    [] pc = "idle"      -> 0

StepsLeft == Later + Now

\* Each step of the thread of an operation ends it or lowers what is left, and nothing that
\* the camera, the cable, the user or another thread does raises it.
OperationWearsOff ==
  pc # "idle" => IF OperationStep THEN pc' = "idle" \/ StepsLeft' < StepsLeft
                 ELSE pc' # "idle" /\ StepsLeft' = StepsLeft

\* An update is four resets and the parts, every other operation is less.
OperationIsBounded == StepsLeft \in 0..4 * ResetSteps + 2 * PartsCount

LEMMA StepFacts ==
  /\ Most \in Nat \ {0} /\ Attempts \in Nat \ {0} /\ Attempts * Most \in Nat
  /\ (Attempts - 1) * Most \in Nat /\ Attempts * Most = (Attempts - 1) * Most + Most
  /\ ResetSteps \in Nat /\ ResetSteps = 2 * ((Attempts - 1) * Most + Most) + 5
  /\ PartsCount \in Nat \ {0}
  /\ Len(ReconnectCandidates) \in 0..Most
<1>1. Most \in Nat \ {0} /\ Attempts \in Nat \ {0} /\ PartsCount \in Nat \ {0}
  BY ConnectionAssumption DEF Most
<1>2. ASSUME NEW a \in Nat \ {0}, NEW m \in Nat
      PROVE  a * m \in Nat /\ (a - 1) * m \in Nat /\ a * m = (a - 1) * m + m
  <2>1. PICK b \in Nat : a = b + 1
    BY <1>2
  <2>2. b * m \in Nat /\ (b + 1) * m = b * m + m
    BY <2>1
  <2> QED BY <2>1, <2>2
<1>3. Len(ReconnectCandidates) \in 0..Most
  <2>1. CASE last = "uart"
    <3>1. ReconnectCandidates = [i \in 1..Most |-> Uart(BaudOrder[i])]
      BY <2>1, ConnectionAssumption DEF ReconnectCandidates, Most
    <3>2. Len([i \in 1..Most |-> Uart(BaudOrder[i])]) = Most
      BY <1>1
    <3> QED BY <1>1, <3>1, <3>2
  <2>2. CASE last = "ebus"
    <3>1. Len(<<Ebus>>) = 1
      OBVIOUS
    <3> QED BY <1>1, <2>2, <3>1 DEF ReconnectCandidates
  <2>3. CASE last \notin {"uart", "ebus"}
    <3>1. Len(<<>>) = 0
      OBVIOUS
    <3> QED BY <1>1, <2>3, <3>1 DEF ReconnectCandidates
  <2> QED BY <2>1, <2>2, <2>3
<1> DEFINE am == Attempts * Most
           bm == (Attempts - 1) * Most
<1>4. am \in Nat /\ bm \in Nat /\ am = bm + Most
  BY <1>1, <1>2
<1>5. ResetSteps = 2 * am + 5
  BY DEF ResetSteps
<1> HIDE DEF am, bm
<1>6. ResetSteps \in Nat /\ ResetSteps = 2 * (bm + Most) + 5
  BY <1>1, <1>4, <1>5
<1> QED BY <1>1, <1>3, <1>4, <1>6 DEF am, bm

\* What is left of a candidate's attempt, and of the attempts after it.
LEMMA UntriedFacts ==
  ASSUME IInv
  PROVE  /\ op \in Ops /\ op.tries \in Nat /\ op.part \in Nat /\ Len(cand) \in Nat
         /\ cand = <<>> <=> Len(cand) = 0
         /\ op.tries # 0 => (op.tries - 1) * Most \in Nat
         /\ op.tries > 1 => (op.tries - 1) * Most = (op.tries - 2) * Most + Most
                            /\ (op.tries - 2) * Most \in Nat
         /\ Untried \in Nat \ {0}
<1>1. op \in Ops /\ cand \in Seq(Links \ {NoLink})
  BY DEF IInv, Typed
<1>2. op.tries \in Nat /\ op.part \in Nat /\ Len(cand) \in Nat /\ (cand = <<>> <=> Len(cand) = 0)
  BY <1>1 DEF Ops
<1>3. ASSUME NEW t \in Nat, NEW m \in Nat
      PROVE  /\ t # 0 => (t - 1) * m \in Nat
             /\ t > 1 => (t - 1) * m = (t - 2) * m + m /\ (t - 2) * m \in Nat
  <2>1. ASSUME t > 1 PROVE (t - 1) * m = (t - 2) * m + m /\ (t - 2) * m \in Nat
    <3>1. PICK b \in Nat : t = b + 2
      BY <2>1
    <3>2. t - 1 = b + 1 /\ t - 2 = b
      BY <3>1
    <3>3. b * m \in Nat /\ (b + 1) * m = b * m + m
      OBVIOUS
    <3> QED BY <3>2, <3>3
  <2>2. ASSUME t # 0 PROVE (t - 1) * m \in Nat
    <3>1. PICK b \in Nat : t - 1 = b
      BY <2>2
    <3>2. b * m \in Nat
      OBVIOUS
    <3> QED BY <3>1, <3>2
  <2> QED BY <2>1, <2>2
<1>4. /\ op.tries # 0 => (op.tries - 1) * Most \in Nat
      /\ op.tries > 1 => (op.tries - 1) * Most = (op.tries - 2) * Most + Most
                         /\ (op.tries - 2) * Most \in Nat
  BY <1>2, <1>3, StepFacts
<1>5. Untried \in Nat \ {0}
  <2> DEFINE rounds == IF op.tries = 0 THEN 0 ELSE (op.tries - 1) * Most
             queue  == IF cand = <<>> THEN 1 ELSE Len(cand)
  <2>1. rounds \in Nat /\ queue \in Nat \ {0} /\ Untried = rounds + queue
    BY <1>2, <1>4 DEF Untried
  <2> HIDE DEF rounds, queue
  <2> QED BY <2>1
<1> QED BY <1>1, <1>2, <1>4, <1>5

LEMMA LaterIsNat == ASSUME IInv PROVE Later \in Nat /\ Later <= 3 * ResetSteps + 2 * PartsCount
<1>1. op.name = "update" => op.stage \in Stages
  BY DEF IInv, Control
<1>2. op.name = "update" /\ op.stage = "parts" => op.part \in 1..PartsCount
  BY DEF IInv, Flashed
<1>3. ResetSteps \in Nat /\ PartsCount \in Nat
  BY StepFacts
<1> QED BY <1>1, <1>2, <1>3 DEF Later, Stages

\* resetCoreImpl returns: what is left is at most what was to come after it.
LEMMA ResetReturnsSpends ==
  ASSUME IInv, pc \in {"trigger", "wait"} \cup Tries \cup SetsBaud,
         NEW result, NEW typeNow, ResetReturns(result, typeNow)
  PROVE  pc' = "idle" \/ (StepsLeft' \in Nat /\ StepsLeft' <= Later)
<1>1. op \in Ops /\ (op.name = "update" => op.stage \in Stages \ {"parts"})
  BY DEF IInv, Typed, Control, Tries, SetsBaud
<1>2. CASE op.name # "update" \/ op.stage = "fromLoader"
  BY <1>2 DEF ResetReturns, Finish
<1>3. CASE op.name = "update" /\ op.stage = "toLoader" /\ pc' # "idle"
  <2>1. op' = [op EXCEPT !.stage = "stay", !.trigger = "STAY_IN_LOADER", !.tries = 0]
        /\ pc' = "trigger"
    BY <1>3 DEF ResetReturns, Finish, Goto
  <2>2. op'.name = "update" /\ op'.stage = "stay"
    BY <1>1, <1>3, <2>1 DEF Ops
  <2>3. /\ Later = 3 * ResetSteps + 2 * PartsCount
        /\ Later' = 2 * ResetSteps + 2 * PartsCount /\ Now' = ResetSteps
    BY <1>3, <2>1, <2>2 DEF Later, Now, ResetSteps
  <2> QED BY <2>3, StepFacts DEF StepsLeft
<1>4. CASE op.name = "update" /\ op.stage = "stay" /\ pc' # "idle"
  <2>1. op' = [op EXCEPT !.stage = "parts", !.part = 1, !.tries = 0] /\ pc' = "write"
    BY <1>4 DEF ResetReturns, Finish, Goto
  <2>2. op'.name = "update" /\ op'.stage = "parts" /\ op'.part = 1
    BY <1>1, <1>4, <2>1 DEF Ops
  <2>3. /\ Later = 2 * ResetSteps + 2 * PartsCount
        /\ Later' = 2 * ResetSteps + 2 * (PartsCount - 1) /\ Now' = 2
    BY <1>4, <2>1, <2>2 DEF Later, Now
  <2> QED BY <2>3, StepFacts DEF StepsLeft
<1>5. CASE op.name = "update" /\ op.stage = "again" /\ pc' # "idle"
  <2>1. op' = [op EXCEPT !.stage = "fromLoader", !.trigger = "RESET_FROM_LOADER", !.tries = 0]
        /\ pc' = "trigger"
    BY <1>5 DEF ResetReturns, Finish, Goto
  <2>2. op'.name = "update" /\ op'.stage = "fromLoader"
    BY <1>1, <1>5, <2>1 DEF Ops
  <2>3. Later = ResetSteps /\ Later' = 0 /\ Now' = ResetSteps
    BY <1>5, <2>1, <2>2 DEF Later, Now
  <2> QED BY <2>3, StepFacts DEF StepsLeft
<1> QED BY <1>1, <1>2, <1>3, <1>4, <1>5 DEF Stages

\* The same operation goes on at another place.
LEMMA GoesOnSpends ==
  ASSUME IInv, op' = op, Now' < Now, Now \in Nat, Now' \in Nat
  PROVE  StepsLeft' < StepsLeft
<1>1. Later' = Later
  BY DEF Later
<1> QED BY <1>1, LaterIsNat DEF StepsLeft

LEMMA FewerSum ==
  ASSUME NEW rounds \in Nat, NEW most \in Nat, NEW queue \in Nat \ {0}, NEW next \in 1..most
  PROVE  rounds + next < (rounds + most) + queue /\ rounds + next \in Nat
OBVIOUS

LEMMA NextCandidateSpends ==
  ASSUME IInv, pc \in Tries, NextCandidate
  PROVE  pc' = "idle" \/ StepsLeft' < StepsLeft
<1>1. pc \in {"try", "test"} /\ Now \in {2 * Untried + 2, 2 * Untried + 3} /\ Untried \in Nat \ {0}
  BY UntriedFacts DEF Tries, Now
<1> DEFINE rounds == IF op.tries = 0 THEN 0 ELSE (op.tries - 1) * Most
           queue  == IF cand = <<>> THEN 1 ELSE Len(cand)
<1>2. rounds \in Nat /\ queue \in Nat \ {0} /\ Untried = rounds + queue /\ Most \in Nat
  BY UntriedFacts, StepFacts DEF Untried
<1>3. CASE Len(cand) > 1
  <2>1. cand' = Tail(cand) /\ op' = op /\ pc' = "try"
    BY <1>3 DEF NextCandidate, Goto
  <2>2. cand \in Seq(Links \ {NoLink}) /\ cand # <<>>
    BY <1>3, UntriedFacts DEF IInv, Typed
  <2>3. Len(cand') = Len(cand) - 1 /\ cand' # <<>>
    <3>1. Len(Tail(cand)) = Len(cand) - 1
      BY <2>2
    <3>2. Len(<<>>) = 0
      OBVIOUS
    <3>3. Len(cand) - 1 # 0
      <4>1. PICK many \in Nat : many = Len(cand)
        BY UntriedFacts
      <4>2. many > 1
        BY <1>3, <4>1
      <4> QED BY <4>1, <4>2
    <3> QED BY <2>1, <3>1, <3>2, <3>3
  <2>4. queue' = queue - 1 /\ rounds' = rounds
    BY <1>3, <2>1, <2>2, <2>3, UntriedFacts
  <2>5. Untried' = rounds' + queue'
    BY DEF Untried
  <2> HIDE DEF rounds, queue
  <2>6. Now' = 2 * Untried' + 3
    BY <2>1 DEF Now
  <2>7. Untried' = Untried - 1
    BY <1>2, <2>4, <2>5
  <2>8. Now' < Now /\ Now \in Nat /\ Now' \in Nat
    BY <1>1, <2>6, <2>7
  <2> QED BY <2>1, <2>8, GoesOnSpends
<1>4. CASE ~(Len(cand) > 1) /\ op.tries > 1
  <2>1. /\ op' = [op EXCEPT !.tries = op.tries - 1] /\ cand' = ReconnectCandidates
        /\ pc' = "try"
    BY <1>4 DEF NextCandidate, Goto
  <2>2. /\ op'.tries = op.tries - 1 /\ op'.name = op.name /\ op'.stage = op.stage
        /\ op'.part = op.part
    BY <2>1, UntriedFacts DEF Ops
  <2>3. rounds' = (op.tries - 2) * Most
    <3>1. op'.tries # 0 /\ op'.tries - 1 = op.tries - 2
      BY <1>4, <2>2, UntriedFacts
    <3>2. rounds' = (op'.tries - 1) * Most
      BY <3>1 DEF Most
    <3> QED BY <3>1, <3>2
  <2>4. rounds = rounds' + Most /\ rounds' \in Nat
    BY <1>4, <2>3, UntriedFacts
  <2>5. queue' \in 1..Most
    <3>1. ReconnectCandidates \in Seq(Links \ {NoLink})
      BY Candidates
    <3>2. ReconnectCandidates # <<>> => Len(ReconnectCandidates) # 0
      BY <3>1
    <3>3. Most \in Nat \ {0} /\ Len(ReconnectCandidates) \in 0..Most
      BY StepFacts
    <3>4. queue' = IF ReconnectCandidates = <<>> THEN 1 ELSE Len(ReconnectCandidates)
      BY <2>1
    <3> HIDE DEF queue
    <3> QED BY <3>2, <3>3, <3>4
  <2>6. Untried' = rounds' + queue'
    BY DEF Untried
  <2> HIDE DEF rounds, queue
  <2>7. Untried' < Untried /\ Untried' \in Nat
    <3>1. /\ rounds' \in Nat /\ Most \in Nat /\ queue \in Nat \ {0} /\ queue' \in 1..Most
      BY <1>2, <2>4, <2>5
    <3>2. Untried = (rounds' + Most) + queue /\ Untried' = rounds' + queue'
      BY <1>2, <2>4, <2>6
    <3> QED BY <3>1, <3>2, FewerSum
  <2>8. Now' = 2 * Untried' + 3
    BY <2>1 DEF Now
  <2>9. Later' = Later
    <3>1. op.name = "update" => op.stage \in Stages
      BY DEF IInv, Control
    <3> QED BY <2>2, <3>1 DEF Later, Stages
  <2> QED BY <1>1, <2>7, <2>8, <2>9, LaterIsNat DEF StepsLeft
<1>5. CASE ~(Len(cand) > 1) /\ op.tries = 1
  <2>1. ResetReturns("error", "none")
    BY <1>5 DEF NextCandidate
  <2>2. pc' = "idle" \/ (StepsLeft' \in Nat /\ StepsLeft' <= Later)
    BY <2>1, ResetReturnsSpends
  <2> HIDE DEF rounds, queue
  <2>3. Now \in Nat \ {0}
    BY <1>1
  <2>4. Later < StepsLeft /\ Later \in Nat /\ StepsLeft \in Nat
    BY <2>3, LaterIsNat DEF StepsLeft
  <2>5. ASSUME StepsLeft' \in Nat, StepsLeft' <= Later PROVE StepsLeft' < StepsLeft
    BY <2>4, <2>5
  <2> QED BY <2>2, <2>5
<1>6. CASE ~(Len(cand) > 1) /\ op.tries \notin {0, 1} /\ ~(op.tries > 1)
  BY <1>6, UntriedFacts
<1>7. CASE ~(Len(cand) > 1) /\ op.tries = 0
  BY <1>7 DEF NextCandidate, Finish
<1> QED BY <1>3, <1>4, <1>5, <1>6, <1>7

\* What was to come is less than what is left while anything is.
LEMMA AfterReset ==
  ASSUME IInv, pc \in {"trigger", "wait"} \cup Tries \cup SetsBaud,
         pc' = "idle" \/ (StepsLeft' \in Nat /\ StepsLeft' <= Later)
  PROVE  pc' = "idle" \/ StepsLeft' < StepsLeft
<1>1. Now \in Nat \ {0}
  <2>1. ResetSteps \in Nat /\ ResetSteps - 1 \in Nat \ {0} /\ Untried \in Nat
    <3>1. PICK rounds \in Nat : rounds = (Attempts - 1) * Most
      BY StepFacts
    <3>2. Most \in Nat /\ ResetSteps = 2 * (rounds + Most) + 5
      BY <3>1, StepFacts
    <3>3. Untried \in Nat
      BY UntriedFacts
    <3> QED BY <3>2, <3>3
  <2> QED BY <2>1 DEF Now, Tries, SetsBaud
<1>2. Later < StepsLeft /\ Later \in Nat /\ StepsLeft \in Nat
  BY <1>1, LaterIsNat DEF StepsLeft
<1>3. ASSUME StepsLeft' \in Nat, StepsLeft' <= Later PROVE StepsLeft' < StepsLeft
  BY <1>2, <1>3
<1> QED BY <1>3

LEMMA CandidateFailsSpends ==
  ASSUME IInv, pc \in Tries, CandidateFails
  PROVE  pc' = "idle" \/ StepsLeft' < StepsLeft
BY NextCandidateSpends DEF CandidateFails, Finish

LEMMA TrySpends ==
  ASSUME IInv, TryCandidate \/ TestDeviceType
  PROVE  pc' = "idle" \/ StepsLeft' < StepsLeft
<1>1. pc \in Tries /\ Untried \in Nat \ {0}
  BY UntriedFacts DEF TryCandidate, TestDeviceType, Tries
<1>2. CASE CandidateFails
  BY <1>1, <1>2, CandidateFailsSpends
<1>3. CASE TryCandidate /\ Goto("test") /\ UNCHANGED <<op, cand>>
  <2>1. pc = "try" /\ pc' = "test" /\ op' = op /\ cand' = cand
    BY <1>3 DEF TryCandidate, Goto
  <2>2. Untried' = Untried
    BY <2>1 DEF Untried
  <2>3. Now = 2 * Untried + 3 /\ Now' = 2 * Untried + 2
    BY <2>1, <2>2 DEF Now
  <2> QED BY <1>1, <2>1, <2>3, GoesOnSpends
<1>4. CASE TestDeviceType /\ Connected
  <2>1. CASE op.tries = 0
    BY <1>4, <2>1 DEF Connected, Finish
  <2>2. CASE op.tries # 0 /\ ResetReturns("ok", core.mode)
    <3>1. pc' = "idle" \/ (StepsLeft' \in Nat /\ StepsLeft' <= Later)
      BY <1>1, <2>2, ResetReturnsSpends
    <3> QED BY <1>1, <3>1, AfterReset
  <2>3. CASE UNCHANGED <<op, cand>> /\ Goto("baudWrite")
    <3>1. pc = "test" /\ pc' = "baudWrite" /\ op' = op
      BY <1>4, <2>3 DEF TestDeviceType, Goto
    <3>2. Now = 2 * Untried + 2 /\ Now' = 3
      BY <3>1 DEF Now
    <3> QED BY <1>1, <3>1, <3>2, GoesOnSpends
  <2> QED BY <1>4, <2>1, <2>2, <2>3 DEF Connected
<1>5. CASE TestDeviceType /\ Finish("exception")
  BY <1>5 DEF Finish
<1> QED BY <1>2, <1>3, <1>4, <1>5 DEF TryCandidate, TestDeviceType

LEMMA SetsBaudSpends ==
  ASSUME IInv, NoUartConnection \/ WriteBaudrate \/ SetLinkBaudrate \/ PollDeviceType
  PROVE  pc' = "idle" \/ StepsLeft' < StepsLeft
<1>1. pc \in SetsBaud
  BY DEF NoUartConnection, WriteBaudrate, SetLinkBaudrate, PollDeviceType, SetsBaud
<1>2. ASSUME NEW result, NEW typeNow, ResetReturns(result, typeNow)
      PROVE  pc' = "idle" \/ StepsLeft' < StepsLeft
  <2>1. pc' = "idle" \/ (StepsLeft' \in Nat /\ StepsLeft' <= Later)
    BY <1>1, <1>2, ResetReturnsSpends
  <2> QED BY <1>1, <2>1, AfterReset
<1>3. CASE BaudrateFails
  BY <1>2, <1>3 DEF BaudrateFails, Finish
<1>4. CASE WriteBaudrate /\ Goto("baudLink") /\ op' = op
  <2>1. Now = 3 /\ Now' = 2
    BY <1>4 DEF WriteBaudrate, Goto, Now
  <2> QED BY <1>4, <2>1, GoesOnSpends
<1>5. CASE SetLinkBaudrate /\ Goto("baudPoll") /\ op' = op
  <2>1. Now = 2 /\ Now' = 1
    BY <1>5 DEF SetLinkBaudrate, Goto, Now
  <2> QED BY <1>5, <2>1, GoesOnSpends
<1>6. CASE Finish("ok") \/ ResetReturns("ok", type)
  BY <1>2, <1>6 DEF Finish
<1> QED BY <1>3, <1>4, <1>5, <1>6
        DEF NoUartConnection, WriteBaudrate, SetLinkBaudrate, PollDeviceType

LEMMA ResetSpends ==
  ASSUME IInv, ActivateTrigger \/ WaitTillTriggerFinished
  PROVE  pc' = "idle" \/ StepsLeft' < StepsLeft
<1>1. PICK rounds \in Nat : rounds = (Attempts - 1) * Most
  BY StepFacts
<1>2. Most \in Nat \ {0} /\ ResetSteps = 2 * (rounds + Most) + 5 /\ ResetSteps \in Nat
  BY <1>1, StepFacts
<1>3. CASE ActivateTrigger /\ ResetReturns("error", type)
  <2>1. pc = "trigger"
    BY <1>3 DEF ActivateTrigger
  <2>2. pc' = "idle" \/ (StepsLeft' \in Nat /\ StepsLeft' <= Later)
    BY <1>3, <2>1, ResetReturnsSpends
  <2> QED BY <2>1, <2>2, AfterReset
<1>4. CASE ActivateTrigger /\ Goto("wait") /\ UNCHANGED <<op, cand>>
  <2>1. pc = "trigger" /\ pc' = "wait" /\ op' = op
    BY <1>4 DEF ActivateTrigger, Goto
  <2>2. Now = ResetSteps /\ Now' = ResetSteps - 1
    BY <2>1 DEF Now, ResetSteps
  <2>3. Now' < Now /\ Now \in Nat /\ Now' \in Nat
    BY <1>2, <2>2
  <2> QED BY <2>1, <2>3, GoesOnSpends
<1>5. CASE WaitTillTriggerFinished
  <2>1. /\ pc = "wait" /\ pc' = "try"
        /\ op' = [op EXCEPT !.tries = Attempts] /\ cand' = ReconnectCandidates
    BY <1>5 DEF WaitTillTriggerFinished, Goto
  <2>2. /\ op'.tries = Attempts /\ op'.name = op.name /\ op'.stage = op.stage
        /\ op'.part = op.part
    BY <2>1, UntriedFacts DEF Ops
  <2>3. Later' = Later
    <3>1. op.name = "update" => op.stage \in Stages
      BY DEF IInv, Control
    <3> QED BY <2>2, <3>1 DEF Later, Stages
  <2> DEFINE queue == IF ReconnectCandidates = <<>> THEN 1 ELSE Len(ReconnectCandidates)
  <2>4. queue \in 1..Most
    <3>1. ReconnectCandidates \in Seq(Links \ {NoLink})
      BY Candidates
    <3>2. ReconnectCandidates # <<>> => Len(ReconnectCandidates) # 0
      BY <3>1
    <3>3. Len(ReconnectCandidates) \in 0..Most
      BY StepFacts
    <3> QED BY <1>2, <3>2, <3>3
  <2>5. Untried' = rounds + queue
    <3>1. Attempts # 0
      BY StepFacts
    <3>2. Untried' = (Attempts - 1) * Most + queue
      BY <2>1, <2>2, <3>1 DEF Untried, Most
    <3> QED BY <1>1, <3>2
  <2> HIDE DEF queue
  <2>6. Now = ResetSteps - 1 /\ Now' = 2 * Untried' + 3
    BY <2>1 DEF Now
  <2>7. Now' < Now /\ Now' \in Nat /\ Now \in Nat
    BY <1>2, <2>4, <2>5, <2>6
  <2> QED BY <2>3, <2>7, LaterIsNat DEF StepsLeft
<1> QED BY <1>3, <1>4, <1>5 DEF ActivateTrigger

LEMMA PartSpends ==
  ASSUME IInv, WritePart \/ CheckPart
  PROVE  pc' = "idle" \/ StepsLeft' < StepsLeft
<1>1. /\ op \in Ops /\ op.name = "update" /\ op.stage = "parts" /\ op.part \in 1..PartsCount
      /\ op.part \in Nat
  BY DEF IInv, Typed, Ops, Control, Flashed, WritePart, CheckPart
<1>2. PartsCount \in Nat /\ ResetSteps \in Nat
  BY StepFacts
<1>3. Later = 2 * ResetSteps + 2 * (PartsCount - op.part)
  BY <1>1 DEF Later
<1>4. CASE WritePart /\ pc' # "idle"
  <2>1. op' = op /\ Now = 2 /\ Now' = 1
    BY <1>4 DEF WritePart, Finish, Goto, Now
  <2> QED BY <2>1, GoesOnSpends
<1>5. CASE CheckPart /\ NextPart /\ op.part < PartsCount
  <2>1. op' = [op EXCEPT !.part = op.part + 1] /\ pc = "check" /\ pc' = "write"
    BY <1>5 DEF CheckPart, NextPart, Goto
  <2>2. op'.name = "update" /\ op'.stage = "parts" /\ op'.part = op.part + 1
    BY <1>1, <2>1 DEF Ops
  <2>3. Later' = 2 * ResetSteps + 2 * (PartsCount - (op.part + 1)) /\ Now = 1 /\ Now' = 2
    BY <2>1, <2>2 DEF Later, Now, ResetSteps
  <2> QED BY <1>1, <1>2, <1>3, <2>3 DEF StepsLeft
<1>6. CASE CheckPart /\ NextPart /\ ~(op.part < PartsCount)
  <2>1. PICK again \in BOOLEAN :
          /\ op' = [op EXCEPT !.stage = IF again THEN "again" ELSE "fromLoader",
                      !.trigger = IF again THEN "RESET_TO_LOADER" ELSE "RESET_FROM_LOADER"]
          /\ pc = "check" /\ pc' = "trigger"
    BY <1>6 DEF CheckPart, NextPart, Goto
  <2>2. op'.name = "update" /\ op'.stage \in {"again", "fromLoader"}
    BY <1>1, <2>1 DEF Ops
  <2>3. Later' \in {0, ResetSteps} /\ Now = 1 /\ Now' = ResetSteps
    BY <2>1, <2>2 DEF Later, Now
  <2> QED BY <1>1, <1>2, <1>3, <2>3 DEF StepsLeft
<1> QED BY <1>4, <1>5, <1>6 DEF WritePart, CheckPart, Finish

\* What is not a step of the operation leaves it where it is.
LEMMA BesideOperation ==
  ASSUME IInv, [Next]_vars, pc # "idle", ~OperationStep
  PROVE  pc' # "idle" /\ StepsLeft' = StepsLeft
<1>1. UNCHANGED <<op, pc, cand>>
  <2>1. ~(\/ ConnectUart \/ ConnectEbus \/ ConnectUartAuto \/ ReconnectCore \/ DisconnectCore
          \/ SetCoreBaudrate \/ ResetCore \/ AskBeforeUpdate \/ UpdateFirmware
          \/ EndTransaction \/ RefreshProperties)
    BY DEF ConnectUart, ConnectEbus, ConnectUartAuto, ReconnectCore, DisconnectCore,
           SetCoreBaudrate, ResetCore, AskBeforeUpdate, UpdateFirmware, EndTransaction,
           RefreshProperties, BeginConnect, Begin
  <2>2. CASE \/ CameraResets \/ CameraChanges \/ Unplug \/ Plug \/ Cancel
             \/ CheckConnectionLost \/ SignalConnectionLost
    BY <2>2 DEF CameraResets, CameraChanges, Unplug, Plug, Cancel, CheckConnectionLost,
                SignalConnectionLost, controlVars
  <2>3. CASE UNCHANGED vars
    BY <2>3 DEF vars, controlVars
  <2> QED BY <2>1, <2>2, <2>3 DEF Next
<1>2. Later' = Later /\ Untried' = Untried
  BY <1>1 DEF Later, Untried
<1> QED BY <1>1, <1>2 DEF StepsLeft, Now

\* The candidates and attempts never exceed what the constants say.
Counted == Len(cand) \in 0..Most /\ op.tries \in 0..Attempts

LEMMA FinishCounts == ASSUME NEW result, Finish(result) PROVE Counted'
<1>1. op' = NoOp /\ cand' = <<>> /\ Len(<<>>) = 0
  BY DEF Finish
<1>2. Len(cand') = 0 /\ op'.tries = 0
  BY <1>1 DEF NoOp
<1> QED BY <1>2, StepFacts DEF Counted, Most

LEMMA ResetReturnsCounts ==
  ASSUME IInv, NEW result, NEW typeNow, ResetReturns(result, typeNow)
  PROVE  Counted'
<1>1. CASE \E other : Finish(other)
  BY <1>1, FinishCounts
<1>2. CASE cand' = <<>> /\ op'.tries = 0
  <2>1. Len(<<>>) = 0
    OBVIOUS
  <2> QED BY <1>2, <2>1, StepFacts DEF Counted, Most
<1>3. op \in Ops
  BY DEF IInv, Typed
<1> QED BY <1>1, <1>2, <1>3 DEF ResetReturns, Ops

LEMMA CountedStep == ASSUME IInv, Counted, [Next]_vars PROVE Counted'
<1>1. Most \in Nat \ {0} /\ Attempts \in Nat \ {0} /\ Len(ReconnectCandidates) \in 0..Most
  BY StepFacts
<1>2. CASE UNCHANGED cand /\ op'.tries \in {0, op.tries}
  BY <1>1, <1>2 DEF Counted, Most
<1>3. CASE \E name, baud : cand' = <<[kind |-> name, baud |-> baud]>> /\ op'.tries = 0
  <2>1. Len(cand') = 1
    BY <1>3
  <2> QED BY <1>1, <1>3, <2>1 DEF Counted, Most
<1>4. CASE op'.tries \in 0..Attempts
           /\ cand' \in {ReconnectCandidates, [i \in DOMAIN BaudOrder |-> Uart(BaudOrder[i])]}
  <2>1. Len([i \in DOMAIN BaudOrder |-> Uart(BaudOrder[i])]) = Most
    <3>1. DOMAIN BaudOrder = 1..Len(BaudOrder) /\ Len(BaudOrder) \in Nat
      BY ConnectionAssumption
    <3>2. Len([i \in 1..Len(BaudOrder) |-> Uart(BaudOrder[i])]) = Len(BaudOrder)
      BY <3>1
    <3> QED BY <3>1, <3>2 DEF Most
  <2>2. Len(cand') \in 0..Most
    BY <1>1, <1>4, <2>1
  <2> QED BY <1>1, <1>4, <2>2 DEF Counted, Most
<1>5. CASE \E result : Finish(result)
  BY <1>5, FinishCounts
<1>6. CASE \E result, typeNow : ResetReturns(result, typeNow)
  BY <1>6, ResetReturnsCounts
<1>7. CASE NextCandidate
  <2>1. CASE Len(cand) > 1
    <3>1. cand \in Seq(Links \ {NoLink}) /\ cand # <<>>
      BY <2>1, UntriedFacts DEF IInv, Typed
    <3>2. cand' = Tail(cand) /\ op' = op
      BY <1>7, <2>1 DEF NextCandidate
    <3>3. Len(cand') = Len(cand) - 1
      BY <3>1, <3>2
    <3> QED BY <1>1, <2>1, <3>2, <3>3 DEF Counted, Most
  <2>2. CASE ~(Len(cand) > 1) /\ op.tries > 1
    <3>1. op' = [op EXCEPT !.tries = op.tries - 1] /\ cand' = ReconnectCandidates
      BY <1>7, <2>2 DEF NextCandidate
    <3>2. op'.tries = op.tries - 1
      BY <3>1 DEF IInv, Typed, Ops
    <3>3. op'.tries \in 0..Attempts
      BY <1>1, <2>2, <3>2 DEF Counted
    <3> QED BY <1>4, <3>1, <3>3
  <2> QED BY <1>5, <1>6, <1>7, <2>1, <2>2 DEF NextCandidate
<1>8. CASE CandidateFails
  BY <1>5, <1>7, <1>8 DEF CandidateFails
<1>9. CASE BaudrateFails
  BY <1>5, <1>6, <1>9 DEF BaudrateFails
<1>10. CASE \/ ConnectUart \/ ConnectEbus \/ ConnectUartAuto \/ ReconnectCore
  <2>1. PICK name, route : BeginConnect(name, route) /\
          (route \in {ReconnectCandidates, [i \in DOMAIN BaudOrder |-> Uart(BaudOrder[i])]}
           \/ \E kind, baud : route = <<[kind |-> kind, baud |-> baud]>>)
    BY <1>10 DEF ConnectUart, ConnectEbus, ConnectUartAuto, ReconnectCore, Uart, Ebus
  <2>2. op'.tries = 0 /\ cand' = route
    BY <2>1 DEF BeginConnect, NoOp
  <2> QED BY <1>1, <1>3, <1>4, <2>1, <2>2
<1>11. CASE DisconnectCore \/ SetCoreBaudrate \/ ResetCore \/ AskBeforeUpdate \/ UpdateFirmware
  <2>1. UNCHANGED cand /\ op'.tries \in {0, op.tries}
    BY <1>11 DEF DisconnectCore, SetCoreBaudrate, ResetCore, AskBeforeUpdate, UpdateFirmware, NoOp
  <2> QED BY <1>2, <2>1
<1>12. CASE TryCandidate \/ TestDeviceType
  BY <1>2, <1>5, <1>6, <1>8, <1>12 DEF TryCandidate, TestDeviceType, Connected
<1>13. CASE NoUartConnection \/ WriteBaudrate \/ SetLinkBaudrate \/ PollDeviceType
  BY <1>2, <1>5, <1>6, <1>9, <1>13
     DEF NoUartConnection, WriteBaudrate, SetLinkBaudrate, PollDeviceType
<1>14. CASE ActivateTrigger
  BY <1>2, <1>6, <1>14 DEF ActivateTrigger
<1>15. CASE WaitTillTriggerFinished
  <2>1. op'.tries = Attempts /\ cand' = ReconnectCandidates
    BY <1>15 DEF WaitTillTriggerFinished, IInv, Typed, Ops
  <2> QED BY <1>1, <1>4, <2>1
<1>16. CASE WritePart \/ CheckPart
  <2>1. op \in Ops
    BY DEF IInv, Typed
  <2>2. (\E result : Finish(result)) \/ (UNCHANGED cand /\ op'.tries = op.tries)
    BY <1>16, <2>1 DEF WritePart, CheckPart, NextPart, Ops
  <2> QED BY <1>2, <1>5, <2>2
<1>17. CASE \/ CameraResets \/ CameraChanges \/ Unplug \/ Plug \/ Cancel
            \/ EndTransaction \/ RefreshProperties \/ CheckConnectionLost \/ SignalConnectionLost
            \/ UNCHANGED vars
  BY <1>2, <1>17 DEF CameraResets, CameraChanges, Unplug, Plug, Cancel, EndTransaction,
     RefreshProperties, CheckConnectionLost, SignalConnectionLost, vars, controlVars
<1> QED BY <1>10, <1>11, <1>12, <1>13, <1>14, <1>15, <1>16, <1>17 DEF Next, OperationStep

\* With the candidates and attempts counted, what is left is bounded.
LEMMA CountedIsBounded == ASSUME IInv, Counted PROVE OperationIsBounded
<1>1. PICK rounds \in Nat : rounds = (Attempts - 1) * Most
  BY StepFacts
<1>2. Most \in Nat \ {0} /\ ResetSteps = 2 * (rounds + Most) + 5 /\ ResetSteps \in Nat
      /\ Attempts \in Nat \ {0} /\ PartsCount \in Nat
  BY <1>1, StepFacts
<1>3. Untried \in Nat /\ Untried <= rounds + Most
  <2> DEFINE left  == IF op.tries = 0 THEN 0 ELSE (op.tries - 1) * Most
             queue == IF cand = <<>> THEN 1 ELSE Len(cand)
  <2>1. left \in Nat /\ left <= rounds
    <3>1. CASE op.tries = 0
      BY <1>1, <3>1
    <3>2. CASE op.tries # 0
      <4>1. op.tries - 1 \in Nat /\ Attempts - 1 \in Nat /\ op.tries - 1 <= Attempts - 1
        BY <1>2, <3>2 DEF Counted
      <4>2. ASSUME NEW a \in Nat, NEW b \in Nat, NEW m \in Nat, a <= b
            PROVE  a * m \in Nat /\ a * m <= b * m
        <5>1. PICK c \in Nat : b = a + c
          BY <4>2
        <5>2. a * m \in Nat /\ c * m \in Nat /\ (a + c) * m = a * m + c * m
          OBVIOUS
        <5> QED BY <5>1, <5>2
      <4> QED BY <1>1, <1>2, <3>2, <4>1, <4>2
    <3> QED BY <3>1, <3>2
  <2>2. queue \in 1..Most
    <3>1. cand # <<>> => Len(cand) # 0
      BY UntriedFacts
    <3> QED BY <1>2, <3>1 DEF Counted
  <2>3. Untried = left + queue
    BY DEF Untried
  <2> HIDE DEF left, queue
  <2> QED BY <1>1, <1>2, <2>1, <2>2, <2>3
<1>4. Now \in 0..ResetSteps
  <2>1. pc \in {"idle", "trigger", "wait", "try", "test", "baudWrite", "baudLink", "baudPoll",
                "write", "check"}
    BY DEF IInv, Typed, Ops, Control, Connects, Resets, SetsBaud, Tries
  <2>2. ResetSteps >= 5 /\ 2 * Untried + 3 \in 0..ResetSteps /\ 2 * Untried + 2 \in 0..ResetSteps
    BY <1>1, <1>2, <1>3
  <2>3. {0, 1, 2, 3, ResetSteps - 1, ResetSteps} \subseteq 0..ResetSteps
    BY <1>2, <2>2
  <2>4. Now \in {0, 1, 2, 3, ResetSteps - 1, ResetSteps, 2 * Untried + 2, 2 * Untried + 3}
    BY <2>1 DEF Now
  <2> QED BY <2>2, <2>3, <2>4
<1> QED BY <1>2, <1>4, LaterIsNat DEF OperationIsBounded, StepsLeft

\* Each step of an operation that connects, sets the baudrate, resets or updates ends it or
\* brings it nearer to its end, and nothing that happens beside it takes it further away.
THEOREM OperationsWearOff == Spec => [][OperationWearsOff]_vars
<1>1. IInv /\ [Next]_vars => [OperationWearsOff]_vars
  <2> SUFFICES ASSUME IInv, [Next]_vars, pc # "idle"
               PROVE  IF OperationStep THEN pc' = "idle" \/ StepsLeft' < StepsLeft
                      ELSE pc' # "idle" /\ StepsLeft' = StepsLeft
    BY DEF OperationWearsOff
  <2> QED BY TrySpends, SetsBaudSpends, ResetSpends, PartSpends, BesideOperation
          DEF OperationStep
<1> QED BY <1>1, Invariance, PTL DEF Spec

\* No operation takes more steps than four resets and the parts of the firmware do.
THEOREM OperationsAreBounded == Spec => []OperationIsBounded
<1>1. Init => Counted
  <2>1. Init => Len(cand) = 0 /\ op.tries = 0
    BY DEF Init, NoOp
  <2> QED BY <2>1, StepFacts DEF Counted, Most
<1>2. IInv /\ Counted /\ [Next]_vars => Counted'
  BY CountedStep
<1>3. IInv /\ Counted => OperationIsBounded
  BY CountedIsBounded
<1> QED BY <1>1, <1>2, <1>3, Invariance, PTL DEF Spec

-----------------------------------------------------------------------------
(* A loss is not overlooked                                                *)

\* No signal has been given since the link was set, neither for this link nor for another.
Unsignalled == signals \in {"none", "found"}

\* The end of a transaction finds a loss as long as no signal has been given on the link, and
\* a loss is only forgotten when the link is closed or a new one taken into use.  A thread that
\* looked at an earlier link can spoil that, but only while this one is not yet lost.
LossIsNoticed ==
  /\ lost /\ Unsignalled =>
       /\ CheckConnectionLost => finishing' # <<>> /\ Head(finishing') = "lost"
       /\ lost' \/ link' = NoLink \/ pc' = "test"
       /\ ~Unsignalled' => SignalConnectionLost /\ signals' = "own"
  /\ signals # "late" /\ signals' = "late" => SignalConnectionLost /\ ~lost

\* The flag of the code tells whether a signal was given since the link was set, but not
\* which link the thread that gave it had looked at.
SentIsSignalled ==
  /\ lost \in BOOLEAN /\ signals \in {"none", "found", "own", "late"}
  /\ sent \in BOOLEAN /\ (sent <=> ~Unsignalled)
  /\ finishing \in Seq({"check", "lost"})

\* Every step but the signal leaves the flag alone, or drops it with the link.
LEMMA FlagFollowsLink ==
  ASSUME [Next]_vars, ~SignalConnectionLost
  PROVE  \/ /\ sent' = sent /\ lost' \in {lost, TRUE}
            /\ signals' = signals \/ (signals = "none" /\ signals' = "found")
         \/ /\ sent' = FALSE /\ signals' = "none" /\ lost' = FALSE
            /\ link' = NoLink \/ pc' = "test"
<1> DEFINE Kept  == /\ sent' = sent /\ lost' \in {lost, TRUE}
                    /\ signals' = signals \/ (signals = "none" /\ signals' = "found")
           Reset == /\ sent' = FALSE /\ signals' = "none" /\ lost' = FALSE
                    /\ link' = NoLink \/ pc' = "test"
<1> SUFFICES Kept \/ Reset
  OBVIOUS
<1>1. ASSUME SetDataLinkInterface(NoLink) PROVE Reset
  BY <1>1 DEF SetDataLinkInterface
<1>2. CASE ConnectUart \/ ConnectEbus \/ ConnectUartAuto \/ ReconnectCore \/ DisconnectCore
  BY <1>1, <1>2 DEF ConnectUart, ConnectEbus, ConnectUartAuto, ReconnectCore, DisconnectCore,
                    BeginConnect
<1>3. CASE SetCoreBaudrate \/ ResetCore \/ AskBeforeUpdate \/ UpdateFirmware
  BY <1>3 DEF SetCoreBaudrate, ResetCore, AskBeforeUpdate, UpdateFirmware, linkVars
<1>4. CASE TryCandidate
  BY <1>4 DEF TryCandidate, SetDataLinkInterface, Goto, linkVars
<1>5. CASE TestDeviceType
  BY <1>1, <1>5 DEF TestDeviceType, DeviceTested
<1>6. ASSUME BaudrateFails, op.tries = 0 => lost' \in {lost, TRUE} PROVE Kept \/ Reset
  BY <1>1, <1>6 DEF BaudrateFails
<1>7. CASE NoUartConnection \/ WriteBaudrate \/ SetLinkBaudrate \/ PollDeviceType
  BY <1>6, <1>7 DEF NoUartConnection, WriteBaudrate, SetLinkBaudrate, PollDeviceType, Answered
<1>8. CASE ActivateTrigger \/ WritePart \/ CheckPart
  BY <1>8 DEF ActivateTrigger, WritePart, CheckPart, Answered, NotAnswered
<1>9. CASE WaitTillTriggerFinished
  BY <1>1, <1>9 DEF WaitTillTriggerFinished
<1>10. CASE \/ CameraResets \/ CameraChanges \/ Unplug \/ Plug \/ Cancel \/ EndTransaction
            \/ CheckConnectionLost \/ UNCHANGED vars
  BY <1>10 DEF CameraResets, CameraChanges, Unplug, Plug, Cancel, EndTransaction,
               CheckConnectionLost, vars, linkVars
<1>11. CASE RefreshProperties
  BY <1>11 DEF RefreshProperties, Answered, NotAnswered
<1> HIDE DEF Kept, Reset
<1> QED BY <1>2, <1>3, <1>4, <1>5, <1>7, <1>8, <1>9, <1>10, <1>11 DEF Next, OperationStep

LEMMA FinishingStep ==
  ASSUME finishing \in Seq({"check", "lost"}), [Next]_vars
  PROVE  finishing' \in Seq({"check", "lost"})
<1>1. CASE EndTransaction \/ RefreshProperties
  <2>1. <<"check">> \in Seq({"check", "lost"}) /\ <<"check", "lost">> \in Seq({"check", "lost"})
    OBVIOUS
  <2>2. finishing' \in {<<"check">>, <<"check", "lost">>}
    BY <1>1 DEF EndTransaction, RefreshProperties
  <2> QED BY <2>1, <2>2
<1>2. CASE CheckConnectionLost \/ SignalConnectionLost
  <2>1. finishing # <<>>
    BY <1>2 DEF CheckConnectionLost, SignalConnectionLost
  <2>2. Tail(finishing) \in Seq({"check", "lost"})
    BY <2>1
  <2>3. /\ <<>> \o Tail(finishing) \in Seq({"check", "lost"})
        /\ <<"lost">> \o Tail(finishing) \in Seq({"check", "lost"})
    BY <2>2
  <2> QED BY <1>2, <2>2, <2>3 DEF CheckConnectionLost, SignalConnectionLost
<1>3. CASE UNCHANGED finishing
  BY <1>3
<1>4. CASE ConnectUart \/ ConnectEbus \/ ConnectUartAuto \/ ReconnectCore \/ DisconnectCore
  BY <1>3, <1>4 DEF ConnectUart, ConnectEbus, ConnectUartAuto, ReconnectCore, DisconnectCore,
                    BeginConnect
<1>5. CASE SetCoreBaudrate \/ ResetCore \/ AskBeforeUpdate \/ UpdateFirmware
  BY <1>3, <1>5 DEF SetCoreBaudrate, ResetCore, AskBeforeUpdate, UpdateFirmware
<1>6. CASE OperationStep
  BY <1>3, <1>6 DEF OperationStep, TryCandidate, TestDeviceType, NoUartConnection, WriteBaudrate,
     SetLinkBaudrate, PollDeviceType, ActivateTrigger, WaitTillTriggerFinished, WritePart, CheckPart
<1>7. CASE CameraResets \/ CameraChanges \/ Unplug \/ Plug \/ Cancel \/ UNCHANGED vars
  BY <1>3, <1>7 DEF CameraResets, CameraChanges, Unplug, Plug, Cancel, vars
<1> QED BY <1>1, <1>2, <1>4, <1>5, <1>6, <1>7 DEF Next

LEMMA SentStep ==
  ASSUME SentIsSignalled, [Next]_vars
  PROVE  SentIsSignalled' /\ [LossIsNoticed]_vars
<1>1. SentIsSignalled'
  <2>1. CASE SignalConnectionLost
    BY <2>1, FinishingStep DEF SignalConnectionLost, SentIsSignalled, Unsignalled
  <2>2. CASE ~SignalConnectionLost
    <3>1. finishing' \in Seq({"check", "lost"})
      BY FinishingStep DEF SentIsSignalled
    <3>2. CASE /\ sent' = sent /\ lost' \in {lost, TRUE}
               /\ signals' = signals \/ (signals = "none" /\ signals' = "found")
      <4>1. /\ signals' \in {"none", "found", "own", "late"} /\ lost' \in BOOLEAN
            /\ Unsignalled' <=> Unsignalled
        BY <3>2 DEF SentIsSignalled, Unsignalled
      <4>2. sent' \in BOOLEAN /\ (sent' <=> ~Unsignalled')
        BY <3>2, <4>1, Zenon DEF SentIsSignalled
      <4> QED BY <3>1, <4>1, <4>2, Zenon DEF SentIsSignalled
    <3>3. CASE sent' = FALSE /\ signals' = "none" /\ lost' = FALSE
      BY <3>1, <3>3 DEF SentIsSignalled, Unsignalled
    <3> QED BY <2>2, <3>2, <3>3, FlagFollowsLink
  <2> QED BY <2>1, <2>2
<1>2. ASSUME lost, Unsignalled, CheckConnectionLost
      PROVE  finishing' # <<>> /\ Head(finishing') = "lost"
  <2>1. finishing # <<>> /\ finishing' = <<"lost">> \o Tail(finishing)
    BY <1>2 DEF CheckConnectionLost, SentIsSignalled, Unsignalled
  <2>2. Tail(finishing) \in Seq({"check", "lost"})
    BY <2>1 DEF SentIsSignalled
  <2> QED BY <2>1, <2>2
<1>3. ASSUME lost, Unsignalled
      PROVE  /\ lost' \/ link' = NoLink \/ pc' = "test"
             /\ ~Unsignalled' => SignalConnectionLost /\ signals' = "own"
  <2>1. CASE SignalConnectionLost
    BY <1>3, <2>1 DEF SignalConnectionLost
  <2>2. CASE ~SignalConnectionLost
    <3>1. lost = TRUE
      BY <1>3 DEF SentIsSignalled
    <3> QED BY <1>3, <2>2, <3>1, FlagFollowsLink DEF Unsignalled
  <2> QED BY <2>1, <2>2
<1>4. ASSUME signals # "late", signals' = "late" PROVE SignalConnectionLost /\ ~lost
  <2>1. SignalConnectionLost
    BY <1>4, FlagFollowsLink
  <2> QED BY <1>4, <2>1 DEF SignalConnectionLost
<1> QED BY <1>1, <1>2, <1>3, <1>4 DEF LossIsNoticed

\* A loss is found by every end of a transaction until it is signalled or the link is closed or
\* replaced, and is then signalled for this link.  The only way to miss it is that a thread which
\* had looked at an earlier link signalled while this one was not lost yet.
THEOREM LossesAreNoticed == Spec => [][LossIsNoticed]_vars
<1>1. Init => SentIsSignalled
  <2>1. <<>> \in Seq({"check", "lost"})
    OBVIOUS
  <2> QED BY <2>1 DEF Init, SentIsSignalled, Unsignalled
<1>2. SentIsSignalled /\ [Next]_vars => SentIsSignalled' /\ [LossIsNoticed]_vars
  BY SentStep
<1> QED BY <1>1, <1>2, PTL DEF Spec

=============================================================================
