--------------------------- MODULE InventoryProofs -------------------------
(***************************************************************************)
(* Inventory for any number of instruments, users, assignments and         *)
(* handlers, whatever other services' handlers are on the desk: a return   *)
(* closes an assignment of its own instrument, what a handler has checked  *)
(* still holds at its write when requests take turns, and only an update   *)
(* makes a row disagree with the assignments.                              *)
(*                                                                         *)
(* The first chapter is about the desk alone, and serves every service:    *)
(* a step belongs to one handler and touches no other's frame, and in a    *)
(* calm behaviour only one handler is in progress.                         *)
(***************************************************************************)
EXTENDS Inventory, TLAPS, FiniteSetTheorems

-----------------------------------------------------------------------------
(* The desk. *)

(* A frame has its six fields. *)
Whole(f) == f = [pc |-> f.pc, op |-> f.op, on |-> f.on, who |-> f.who, arg |-> f.arg,
                 seen |-> f.seen]

DeskInv ==
  /\ frame = [s \in Slots |-> frame[s]]
  /\ \A s \in Slots : Whole(frame[s]) /\ (frame[s].pc = "idle" => frame[s] = Idle)
  /\ calm \in BOOLEAN
  /\ calm => \A s, t \in Slots : frame[s] # Idle /\ frame[t] # Idle => s = t

(* A step of a service with the operations in O: the handler in slot s      *)
(* begins, goes on or ends.                                                 *)
Turn(O, s, f) ==
  /\ frame' = [frame EXCEPT ![s] = f] /\ UNCHANGED <<ops, calm>>
  /\ frame[s] = Idle \/ frame[s].op \in O
  /\ Whole(f) /\ (f = Idle \/ (f.op \in O /\ f.pc # "idle"))
  /\ calm /\ frame[s] = Idle => \A t \in Slots : frame[t] = Idle

(* A slot whose handler has ended. *)
LEMMA IdleFrame ==
  Whole(Idle) /\ Idle.pc = "idle" /\ Idle.op = "none" /\ Idle.on = Null /\ Idle.who = Null
  /\ Idle.arg = Null /\ Idle.seen = Null
BY DEF Idle, Whole

(* The frame of a handler that goes on, perhaps with what it has read.      *)
With(f, pc, seen) == [f EXCEPT !.pc = pc, !.seen = seen]

LEMMA MovedPc ==
  ASSUME NEW f, Whole(f), NEW pc
  PROVE  LET h == [f EXCEPT !.pc = pc] IN
         /\ Whole(h) /\ h.pc = pc
         /\ h.op = f.op /\ h.on = f.on /\ h.who = f.who /\ h.arg = f.arg /\ h.seen = f.seen
BY DEF Whole

LEMMA Moved ==
  ASSUME NEW f, Whole(f), NEW pc, NEW seen
  PROVE  LET h == With(f, pc, seen) IN
         /\ Whole(h) /\ h.pc = pc /\ h.seen = seen
         /\ h.op = f.op /\ h.on = f.on /\ h.who = f.who /\ h.arg = f.arg
<1> DEFINE h == With(f, pc, seen)
           k == [f EXCEPT !.pc = pc]
           l == [k EXCEPT !.seen = seen]
<1>1. h = l
  BY DEF Whole, With
<1>2. Whole(k) /\ k.pc = pc /\ k.op = f.op /\ k.on = f.on /\ k.who = f.who /\ k.arg = f.arg
  BY DEF Whole
<1> HIDE DEF k
<1>3. /\ Whole(l) /\ l.pc = pc /\ l.seen = seen
      /\ l.op = f.op /\ l.on = f.on /\ l.who = f.who /\ l.arg = f.arg
  BY <1>2 DEF Whole
<1> HIDE DEF h, l
<1>4. /\ Whole(h) /\ h.pc = pc /\ h.seen = seen
      /\ h.op = f.op /\ h.on = f.on /\ h.who = f.who /\ h.arg = f.arg
  BY <1>1, <1>3
<1> QED
  BY <1>4 DEF h

(* The frame a request starts with, field by field. *)
Request(op, pc, x, u, v) == [Idle EXCEPT !.pc = pc, !.op = op, !.on = x, !.who = u, !.arg = v]

LEMMA Requested ==
  ASSUME NEW op, NEW pc, NEW x, NEW u, NEW v
  PROVE  LET h == Request(op, pc, x, u, v) IN
         /\ Whole(h) /\ h.pc = pc /\ h.op = op /\ h.on = x /\ h.who = u /\ h.arg = v
         /\ h.seen = Null
<1> DEFINE h  == Request(op, pc, x, u, v)
           g1 == [Idle EXCEPT !.pc = pc]
           g2 == [g1 EXCEPT !.op = op]
           g3 == [g2 EXCEPT !.on = x]
           g4 == [g3 EXCEPT !.who = u]
           g5 == [g4 EXCEPT !.arg = v]
<1>1. h = g5
  BY IdleFrame DEF Whole, Request
<1>2. Whole(g1) /\ g1.pc = pc /\ g1.seen = Null
  BY IdleFrame DEF Whole
<1> HIDE DEF g1
<1>3. Whole(g2) /\ g2.pc = pc /\ g2.op = op /\ g2.seen = Null
  BY <1>2 DEF Whole
<1> HIDE DEF g2
<1>4. Whole(g3) /\ g3.pc = pc /\ g3.op = op /\ g3.on = x /\ g3.seen = Null
  BY <1>3 DEF Whole
<1> HIDE DEF g3
<1>5. Whole(g4) /\ g4.pc = pc /\ g4.op = op /\ g4.on = x /\ g4.who = u /\ g4.seen = Null
  BY <1>4 DEF Whole
<1> HIDE DEF g4
<1>6. Whole(g5) /\ g5.pc = pc /\ g5.op = op /\ g5.on = x /\ g5.who = u /\ g5.arg = v /\ g5.seen = Null
  BY <1>5 DEF Whole
<1> HIDE DEF h, g5
<1>7. Whole(h) /\ h.pc = pc /\ h.op = op /\ h.on = x /\ h.who = u /\ h.arg = v /\ h.seen = Null
  BY <1>1, <1>6
<1> QED
  BY <1>7 DEF h

-----------------------------------------------------------------------------
(* No handler is in progress at first. *)
LEMMA DeskStart == DeskInit => DeskInv /\ \A s \in Slots : frame[s] = Idle
BY IdleFrame DEF DeskInit, DeskInv

(* What a turn does to the frames. *)
LEMMA TurnFrames ==
  ASSUME DeskInv, NEW s \in Slots, NEW f, frame' = [frame EXCEPT ![s] = f]
  PROVE  /\ frame'[s] = f /\ \A t \in Slots \ {s} : frame'[t] = frame[t]
         /\ frame' = [t \in Slots |-> frame'[t]]
BY DEF DeskInv

LEMMA TurnKeeps ==
  ASSUME DeskInv, NEW s \in Slots, NEW f, NEW O, Turn(O, s, f)
  PROVE  DeskInv'
<1>1. /\ frame'[s] = f /\ \A t \in Slots \ {s} : frame'[t] = frame[t]
      /\ frame' = [t \in Slots |-> frame'[t]]
  BY TurnFrames DEF Turn
<1>2. ASSUME NEW t \in Slots PROVE Whole(frame'[t]) /\ (frame'[t].pc = "idle" => frame'[t] = Idle)
  BY <1>1 DEF DeskInv, Turn
<1>3. ASSUME calm', NEW t \in Slots, NEW u \in Slots, frame'[t] # Idle, frame'[u] # Idle PROVE t = u
  BY <1>1, <1>3 DEF DeskInv, Turn
<1>4. DeskInv' <=> /\ frame' = [t \in Slots |-> frame'[t]]
                   /\ \A t \in Slots : Whole(frame'[t]) /\ (frame'[t].pc = "idle" => frame'[t] = Idle)
                   /\ calm' => \A t, u \in Slots : frame'[t] # Idle /\ frame'[u] # Idle => t = u
  BY DEF DeskInv, Whole, Turn
<1> QED
  BY <1>1, <1>2, <1>3, <1>4

(* In a calm behaviour the handler whose turn it is is alone. *)
LEMMA TurnAlone ==
  ASSUME DeskInv, calm, NEW s \in Slots, NEW f, NEW O, Turn(O, s, f), NEW t \in Slots, t # s
  PROVE  frame[t] = Idle /\ frame'[t] = Idle
BY TurnFrames DEF DeskInv, Turn

-----------------------------------------------------------------------------
(* The desk's actions are turns. *)
LEMMA OpenTurn ==
  ASSUME DeskInv, NEW s \in Slots, NEW f, Open(s, f), Whole(f), NEW O, f.op \in O, f.pc # "idle"
  PROVE  Turn(O, s, f) /\ frame[s] = Idle
BY DEF DeskInv, Turn, Open, AtStep, Busy

LEMMA ProceedTurn ==
  ASSUME DeskInv, NEW s \in Slots, frame[s].pc # "idle", NEW O, frame[s].op \in O,
         NEW f, Whole(f), f.op \in O, f.pc # "idle", Proceed(s, f)
  PROVE  Turn(O, s, f)
BY IdleFrame DEF Turn, Proceed

LEMMA NextTurn ==
  ASSUME DeskInv, NEW s \in Slots, frame[s].pc # "idle", NEW O, frame[s].op \in O,
         NEW pc, pc # "idle", Next2(s, pc)
  PROVE  Turn(O, s, [frame[s] EXCEPT !.pc = pc])
<1> DEFINE g == frame[s]
           f == [g EXCEPT !.pc = pc]
<1>1. Whole(g) /\ g.op \in O /\ g # Idle /\ frame' = [frame EXCEPT ![s] = f] /\ UNCHANGED <<ops, calm>>
  BY IdleFrame DEF DeskInv, Next2, Proceed
<1> HIDE DEF g
<1>2. Whole(f) /\ f.op \in O /\ f.pc # "idle"
  BY <1>1, MovedPc
<1> HIDE DEF f
<1> QED
  BY <1>1, <1>2 DEF Turn, f, g

LEMMA EndTurn ==
  ASSUME DeskInv, NEW s \in Slots, frame[s].pc # "idle", NEW O, frame[s].op \in O,
         frame' = [frame EXCEPT ![s] = Idle], UNCHANGED <<ops, calm>>
  PROVE  Turn(O, s, Idle)
BY IdleFrame DEF Turn

(* Throw, Fail and Finish end the handler. *)
LEMMA Ends ==
  ASSUME NEW s, NEW notice, Throw(s) \/ Fail(s) \/ Finish(s, notice)
  PROVE  frame' = [frame EXCEPT ![s] = Idle] /\ UNCHANGED <<ops, calm>>
BY DEF Throw, Fail, Finish, Proceed

-----------------------------------------------------------------------------
(* The frame f of a handler whose frame was g: it has gone on with what it  *)
(* was asked.                                                               *)
Onward(g, f) == f.op = g.op /\ f.on = g.on /\ f.who = g.who /\ f.arg = g.arg

(* A handler that goes on to its next call, one that has read something, and *)
(* one that ends.                                                           *)
LEMMA Steps ==
  ASSUME DeskInv, NEW s \in Slots, frame[s].pc # "idle", NEW O, frame[s].op \in O,
         NEW pc, pc # "idle", Next2(s, pc)
  PROVE  \E f : Turn(O, s, f) /\ Onward(frame[s], f) /\ f.pc = pc /\ f.seen = frame[s].seen
<1> DEFINE g == frame[s]
           f == [g EXCEPT !.pc = pc]
<1>1. Turn(O, s, f) /\ Whole(g)
  BY NextTurn DEF DeskInv
<1> HIDE DEF g
<1>2. Onward(g, f) /\ f.pc = pc /\ f.seen = g.seen
  BY <1>1, MovedPc DEF Onward
<1> HIDE DEF f
<1> QED
  BY <1>1, <1>2 DEF g

LEMMA StepsWith ==
  ASSUME DeskInv, NEW s \in Slots, frame[s].pc # "idle", NEW O, frame[s].op \in O,
         NEW pc, pc # "idle", NEW seen, NEW h, h = With(frame[s], pc, seen), Proceed(s, h)
  PROVE  \E f : Turn(O, s, f) /\ Onward(frame[s], f) /\ f.pc = pc /\ f.seen = seen
<1> DEFINE g == frame[s]
           f == With(g, pc, seen)
<1>1. Whole(g) /\ Proceed(s, f) /\ g.op \in O /\ g.pc # "idle"
  BY DEF DeskInv
<1> HIDE DEF g
<1>2. Whole(f) /\ Onward(g, f) /\ f.pc = pc /\ f.seen = seen /\ f.op \in O
  BY <1>1, Moved DEF Onward
<1> HIDE DEF f
<1>3. Turn(O, s, f)
  BY <1>1, <1>2, ProceedTurn DEF g
<1> QED
  BY <1>2, <1>3 DEF g

LEMMA StepsEnd ==
  ASSUME DeskInv, NEW s \in Slots, frame[s].pc # "idle", NEW O, frame[s].op \in O,
         Throw(s) \/ Fail(s) \/ \E notice : Finish(s, notice)
  PROVE  Turn(O, s, Idle)
BY Ends, EndTurn

(* No handler's turn: the frames stay as they are. *)
LEMMA DeskStill == DeskInv /\ UNCHANGED <<frame, calm>> => DeskInv'
BY DEF DeskInv, Whole

-----------------------------------------------------------------------------
(* The instruments and their assignments. *)

(* What a handler's frame f is about, whatever overlaps: it names an         *)
(* instrument there is, and the assignment it has found is of that one.     *)
InvtFirm(f, I, A) ==
  /\ f.op = "create" => f.pc \in {"role", "write"}
  /\ f.pc = "find" => f.op = "returnInstrument"
  /\ f.op # "create" => f.on \in Instruments /\ I[f.on].status # "none"
  /\ f.op = "assign" => f.who \in Holders \cup {Null}
  /\ f.op = "returnInstrument" /\ f.pc = "write" => f.seen \in LoanIds /\ A[f.seen].on = f.on

(* What it has checked and is still so if nothing else changes the tables.  *)
InvtFresh(f, I, A) ==
  /\ f.op = "assign" /\ f.pc \in {"role", "write"} =>
       f.seen = I[f.on].status /\ I[f.on].isActive
  /\ f.op = "update" /\ f.pc \in {"role", "write"} => I[f.on].isActive
  /\ f.op = "assign" /\ f.pc = "write" => f.seen \notin {"IN_USE", "MAINTENANCE"}
  /\ f.op = "returnInstrument" /\ f.pc = "write" => ~A[f.seen].returned

(* The rows, whatever overlaps. *)
Stocked ==
  /\ InvtTypeOK
  /\ LoansOfRows
  /\ \A i \in Instruments : instruments[i].isActive => Exists(i)

InvtFrames ==
  \A s \in Slots : frame[s].op \in InvtOps =>
    /\ InvtFirm(frame[s], instruments, loans)
    /\ calm => InvtFresh(frame[s], instruments, loans)

InvtIInv == Stocked /\ InvtFrames

(* The run's invariant is part of it. *)
LEMMA InvtPart == InvtIInv => InvtInv
BY DEF InvtIInv, InvtInv, InvtFrames, InvtFirm, Stocked, OnInstrument, AssigneesKnown, FoundIsItsOwn,
   InvtOps, AtStep

(* Idle handlers are nobody's. *)
LEMMA InvtIdle == Idle.op \notin InvtOps
BY DEF Idle, InvtOps

(* An assignment that was never made is not open. *)
LEMMA BlankLoan == NoLoan \in LoanRow /\ NoLoan.on = Null
BY DEF NoLoan, LoanRow

(* Before the first request the invariant holds. *)
LEMMA InvtStart == InvtInit => InvtIInv
<1> SUFFICES ASSUME InvtInit PROVE InvtIInv
  OBVIOUS
<1>1. PICK known \in SUBSET Instruments :
        instruments = [i \in Instruments |->
          IF i \in known THEN [status |-> "AVAILABLE", isActive |-> TRUE] ELSE NoInstrument]
  BY DEF InvtInit
<1>2. instruments \in [Instruments -> InstrumentRow]
      /\ \A i \in Instruments : instruments[i].isActive => instruments[i].status # "none"
  BY <1>1 DEF InstrumentRow, StatusColumn, NoInstrument
<1>3. loans \in [LoanIds -> LoanRow] /\ \A a \in LoanIds : loans[a].on = Null
  BY BlankLoan DEF InvtInit
<1>4. Stocked
  BY <1>2, <1>3 DEF Stocked, LoansOfRows, InvtTypeOK, Exists
<1>5. InvtFrames
  BY DeskStart, InvtIdle DEF InvtInit, InvtFrames
<1> QED
  BY <1>4, <1>5 DEF InvtIInv

-----------------------------------------------------------------------------
(* A step of one of the service's handlers: the tables are in order after   *)
(* it, its frame is sound, and an assignment keeps its instrument.          *)
LEMMA InvtTurn ==
  ASSUME DeskInv, InvtIInv, NEW s \in Slots, NEW f, Turn(InvtOps, s, f), Stocked',
         f.op \in InvtOps =>
           InvtFirm(f, instruments', loans') /\ (calm => InvtFresh(f, instruments', loans')),
         \A i \in Instruments : Exists(i) => instruments'[i].status # "none",
         \A a \in LoanIds : loans[a].on # Null => loans'[a].on = loans[a].on
  PROVE  InvtIInv'
<1>1. /\ frame'[s] = f /\ \A t \in Slots \ {s} : frame'[t] = frame[t]
  BY TurnFrames DEF Turn
<1>2. ASSUME NEW t \in Slots, frame'[t].op \in InvtOps
      PROVE  InvtFirm(frame'[t], instruments', loans')
             /\ (calm => InvtFresh(frame'[t], instruments', loans'))
  <2>1. CASE t = s
    BY <1>1, <1>2, <2>1
  <2>2. CASE t # s
    <3>1. frame'[t] = frame[t] /\ InvtFirm(frame[t], instruments, loans)
      BY <1>1, <1>2, <2>2 DEF InvtIInv, InvtFrames
    <3>2. ~calm
      BY <1>2, <2>2, TurnAlone, InvtIdle
    <3>3. InvtFirm(frame[t], instruments', loans')
      BY <3>1, NullAssumption DEF InvtFirm, Exists
    <3> QED
      BY <3>1, <3>2, <3>3
  <2> QED
    BY <2>1, <2>2
<1>3. InvtFrames'
  BY <1>2 DEF InvtFrames, Turn
<1>4. calm' = calm
  BY DEF Turn
<1> QED
  BY <1>3, <1>4 DEF InvtIInv

(* One that leaves the tables alone. *)
LEMMA InvtMoves ==
  ASSUME DeskInv, InvtIInv, UNCHANGED stock, NEW s \in Slots, NEW f, Turn(InvtOps, s, f),
         f.op \in InvtOps =>
           InvtFirm(f, instruments, loans) /\ (calm => InvtFresh(f, instruments, loans))
  PROVE  InvtIInv'
<1>1. instruments' = instruments /\ loans' = loans
  BY DEF stock
<1>2. Stocked'
  BY <1>1 DEF InvtIInv, Stocked, InvtTypeOK, LoansOfRows, Exists
<1> QED
  BY <1>1, <1>2, InvtTurn DEF Exists

(* One that throws, fails, or has nothing to write. *)
LEMMA InvtEnds ==
  ASSUME DeskInv, InvtIInv, UNCHANGED stock, NEW s \in Slots, Turn(InvtOps, s, Idle)
  PROVE  InvtIInv'
BY InvtMoves, InvtIdle

(* Another service's step. *)
LEMMA InvtOthers ==
  ASSUME DeskInv, InvtIInv, UNCHANGED stock, NEW O, O \cap InvtOps = {},
         NEW s \in Slots, NEW f, Turn(O, s, f)
  PROVE  InvtIInv'
<1>1. frame'[s] = f /\ \A t \in Slots \ {s} : frame'[t] = frame[t]
  BY TurnFrames DEF Turn
<1>2. instruments' = instruments /\ loans' = loans /\ calm' = calm
  BY DEF stock, Turn
<1>3. f.op \notin InvtOps
  BY InvtIdle DEF Turn
<1>4. InvtFrames'
  BY <1>1, <1>2, <1>3 DEF InvtIInv, InvtFrames
<1> QED
  BY <1>2, <1>4 DEF InvtIInv, Stocked, InvtTypeOK, LoansOfRows, Exists

(* A step of no handler, and none of the inventory's. *)
LEMMA InvtStill == InvtIInv /\ UNCHANGED <<frame, calm, stock>> => InvtIInv'
BY DEF stock, InvtIInv, Stocked, InvtFrames, InvtTypeOK, LoansOfRows, Exists

-----------------------------------------------------------------------------
(* The frame a request starts with. *)
LEMMA InvtAsked ==
  ASSUME NEW op, NEW pc, NEW i, NEW u
  PROVE  LET h == InvtAsk(op, pc, i, u) IN
         Whole(h) /\ h.pc = pc /\ h.op = op /\ h.on = i /\ h.who = u
<1> DEFINE h  == InvtAsk(op, pc, i, u)
           g1 == [Idle EXCEPT !.pc = pc]
           g2 == [g1 EXCEPT !.op = op]
           g3 == [g2 EXCEPT !.on = i]
           g4 == [g3 EXCEPT !.who = u]
<1>1. h = g4
  BY IdleFrame DEF Whole, InvtAsk
<1>2. Whole(g1) /\ g1.pc = pc
  BY IdleFrame DEF Whole
<1> HIDE DEF g1
<1>3. Whole(g2) /\ g2.pc = pc /\ g2.op = op
  BY <1>2 DEF Whole
<1> HIDE DEF g2
<1>4. Whole(g3) /\ g3.pc = pc /\ g3.op = op /\ g3.on = i
  BY <1>3 DEF Whole
<1> HIDE DEF g3
<1>5. Whole(g4) /\ g4.pc = pc /\ g4.op = op /\ g4.on = i /\ g4.who = u
  BY <1>4 DEF Whole
<1> HIDE DEF g4, h
<1>6. Whole(h) /\ h.pc = pc /\ h.op = op /\ h.on = i /\ h.who = u
  BY <1>1, <1>5
<1> QED
  BY <1>6 DEF h

(* A client's request. *)
LEMMA InvtCallStep ==
  ASSUME DeskInv, InvtIInv, NEW s \in Slots, InvtCall(s)
  PROVE  InvtIInv' /\ \E f : Turn(InvtOps, s, f)
<1>1. ASSUME NEW op \in InvtOps, NEW pc \in {"role", "read"}, NEW i, NEW u, Open(s, InvtAsk(op, pc, i, u)),
             IF op = "create" THEN pc = "role" ELSE pc = "read" /\ i \in Instruments /\ Exists(i),
             u \in Holders \cup {Null}
      PROVE  InvtIInv' /\ \E f : Turn(InvtOps, s, f)
  <2> DEFINE g == InvtAsk(op, pc, i, u)
  <2>1. Open(s, g)
    BY <1>1
  <2>2. Whole(g) /\ g.pc = pc /\ g.op = op /\ g.on = i /\ g.who = u
    BY InvtAsked
  <2> HIDE DEF g
  <2>3. Turn(InvtOps, s, g)
    BY <2>1, <2>2, OpenTurn
  <2>4. InvtFirm(g, instruments, loans) /\ InvtFresh(g, instruments, loans)
    BY <1>1, <2>2 DEF InvtFirm, InvtFresh, Exists
  <2> QED
    BY <2>3, <2>4, InvtMoves DEF InvtCall
<1>2. CASE Open(s, InvtAsk("create", "role", Null, Null))
  BY <1>1, <1>2 DEF InvtOps
<1>3. ASSUME NEW i \in Instruments, Exists(i), NEW op \in {"update", "retire", "returnInstrument"},
             Open(s, InvtAsk(op, "read", i, Null))
      PROVE  InvtIInv' /\ \E f : Turn(InvtOps, s, f)
  BY <1>1, <1>3 DEF InvtOps
<1>4. ASSUME NEW i \in Instruments, Exists(i), NEW u \in Holders \cup {Null},
             Open(s, InvtAsk("assign", "read", i, u))
      PROVE  InvtIInv' /\ \E f : Turn(InvtOps, s, f)
  BY <1>1, <1>4 DEF InvtOps
<1> QED
  BY <1>2, <1>3, <1>4 DEF InvtCall

(* A handler in progress is sound. *)
LEMMA InvtAt ==
  ASSUME DeskInv, InvtIInv, NEW s \in Slots, frame[s].op \in InvtOps
  PROVE  /\ Whole(frame[s]) /\ InvtFirm(frame[s], instruments, loans)
         /\ calm => InvtFresh(frame[s], instruments, loans)
BY DEF DeskInv, InvtIInv, InvtFrames

(* The three queries of a handler. *)
LEMMA InvtReadStep ==
  ASSUME DeskInv, InvtIInv, NEW s \in Slots, ReadInstrument(s)
  PROVE  InvtIInv' /\ \E f : Turn(InvtOps, s, f)
<1> DEFINE g == frame[s]
           seen == IF g.op = "assign" THEN instruments[g.on].status ELSE Null
           f == With(g, "role", seen)
<1>1. g.pc = "read" /\ g.op \in InvtOps /\ UNCHANGED stock
  BY DEF ReadInstrument, AtStep
<1>2. Whole(g) /\ InvtFirm(g, instruments, loans)
  BY <1>1, InvtAt
<1>3. CASE Throw(s)
  BY <1>1, <1>3, EndTurn, Ends, InvtEnds
<1>4. CASE Proceed(s, f) /\ (g.op \in {"update", "assign"} => instruments[g.on].isActive)
  <2>1. Proceed(s, f)
    BY <1>4
  <2>5. g.op = "assign" => seen = instruments[g.on].status
    OBVIOUS
  <2> HIDE DEF g, seen
  <2>2. /\ Whole(f) /\ f.pc = "role" /\ f.seen = seen
        /\ f.op = g.op /\ f.on = g.on /\ f.who = g.who
    BY <1>2, Moved
  <2> HIDE DEF f
  <2>3. Turn(InvtOps, s, f)
    BY <1>1, <2>1, <2>2, ProceedTurn DEF g
  <2>4. InvtFirm(f, instruments, loans) /\ InvtFresh(f, instruments, loans)
    BY <1>1, <1>2, <1>4, <2>2, <2>5 DEF InvtFirm, InvtFresh
  <2> QED
    BY <1>1, <2>3, <2>4, InvtMoves
<1> QED
  BY <1>3, <1>4 DEF ReadInstrument, With

(* The answer about the caller's role. *)
LEMMA InvtRoleStep ==
  ASSUME DeskInv, InvtIInv, NEW s \in Slots, AskRole(s)
  PROVE  InvtIInv' /\ \E f : Turn(InvtOps, s, f)
<1> DEFINE g == frame[s]
           pc == IF g.op = "returnInstrument" THEN "find" ELSE "write"
           f == [g EXCEPT !.pc = pc]
<1>1. g.pc = "role" /\ g.op \in InvtOps /\ UNCHANGED stock
  BY DEF AskRole, AtStep
<1>2. Whole(g) /\ InvtFirm(g, instruments, loans) /\ (calm => InvtFresh(g, instruments, loans))
  BY <1>1, InvtAt
<1>3. CASE Throw(s)
  BY <1>1, <1>3, EndTurn, Ends, InvtEnds
<1>4. CASE Next2(s, pc) /\ (g.op = "assign" => g.seen \notin {"IN_USE", "MAINTENANCE"})
  <2>1. Turn(InvtOps, s, f)
    BY <1>1, <1>4, NextTurn
  <2> HIDE DEF g
  <2>2. Whole(f) /\ f.pc = pc /\ f.seen = g.seen /\ f.op = g.op /\ f.on = g.on /\ f.who = g.who
    BY <1>2, MovedPc
  <2> HIDE DEF f
  <2>3. InvtFirm(f, instruments, loans) /\ (calm => InvtFresh(f, instruments, loans))
    BY <1>1, <1>2, <1>4, <2>2 DEF InvtFirm, InvtFresh
  <2> QED
    BY <1>1, <2>1, <2>3, InvtMoves
<1> QED
  BY <1>3, <1>4 DEF AskRole

(* What returnInstrument finds is an open assignment of its own instrument. *)
LEMMA InvtFindStep ==
  ASSUME DeskInv, InvtIInv, NEW s \in Slots, FindAssignment(s)
  PROVE  InvtIInv' /\ \E f : Turn(InvtOps, s, f)
<1> DEFINE g == frame[s]
<1>1. g.pc = "find" /\ g.op \in InvtOps /\ UNCHANGED stock
  BY DEF FindAssignment, AtStep
<1>2. Whole(g) /\ InvtFirm(g, instruments, loans)
  BY <1>1, InvtAt
<1>3. CASE Throw(s)
  BY <1>1, <1>3, EndTurn, Ends, InvtEnds
<1>4. ASSUME NEW a \in OpenLoans(g.on), Proceed(s, With(g, "write", a))
      PROVE  InvtIInv' /\ \E f : Turn(InvtOps, s, f)
  <2> DEFINE f == With(g, "write", a)
  <2>1. Proceed(s, f) /\ a \in LoanIds /\ loans[a].on = g.on /\ ~loans[a].returned
    BY <1>4 DEF OpenLoans
  <2> HIDE DEF g
  <2>2. /\ Whole(f) /\ f.pc = "write" /\ f.seen = a
        /\ f.op = g.op /\ f.on = g.on /\ f.who = g.who
    BY <1>2, Moved
  <2> HIDE DEF f
  <2>3. Turn(InvtOps, s, f)
    BY <1>1, <2>1, <2>2, ProceedTurn DEF g
  <2>4. g.op = "returnInstrument"
    BY <1>1, <1>2 DEF InvtFirm
  <2>5. InvtFirm(f, instruments, loans) /\ InvtFresh(f, instruments, loans)
    BY <1>1, <1>2, <2>1, <2>2, <2>4 DEF InvtFirm, InvtFresh
  <2> QED
    BY <1>1, <2>3, <2>5, InvtMoves
<1> QED
  BY <1>3, <1>4 DEF FindAssignment, With

-----------------------------------------------------------------------------
(* The handlers' last steps: a row is written and the frame ends.           *)
LEMMA InvtWrites ==
  ASSUME DeskInv, InvtIInv, NEW s \in Slots, frame[s].op \in InvtOps, frame[s].pc # "idle",
         frame' = [frame EXCEPT ![s] = Idle], UNCHANGED <<ops, calm>>, Stocked',
         \A i \in Instruments : Exists(i) => instruments'[i].status # "none",
         \A a \in LoanIds : loans[a].on # Null => loans'[a].on = loans[a].on
  PROVE  InvtIInv' /\ \E f : Turn(InvtOps, s, f)
<1>1. Turn(InvtOps, s, Idle)
  BY EndTurn
<1> QED
  BY <1>1, InvtTurn, InvtIdle

(* create, update and retire write one row, and no assignment. *)
LEMMA RowWritten ==
  ASSUME DeskInv, InvtIInv, NEW s \in Slots,
         CreateInstrument(s) \/ UpdateInstrument(s) \/ RetireInstrument(s)
  PROVE  \E i \in Instruments, row \in InstrumentRow :
           /\ row.status # "none" /\ instruments' = [instruments EXCEPT ![i] = row] /\ UNCHANGED loans
<1>1. \A row \in [status : StatusColumn, isActive : BOOLEAN] : row \in InstrumentRow /\ row.status # "none"
  BY DEF InstrumentRow, StatusColumn
<1>2. CASE CreateInstrument(s)
  <2>1. [status |-> "AVAILABLE", isActive |-> TRUE] \in [status : StatusColumn, isActive : BOOLEAN]
    BY DEF StatusColumn
  <2> QED
    BY <1>1, <1>2, <2>1 DEF CreateInstrument
<1>3. ASSUME UpdateInstrument(s) \/ RetireInstrument(s) PROVE frame[s].on \in Instruments
  BY <1>3, InvtAt DEF UpdateInstrument, RetireInstrument, InvtFirm, InvtOps, AtStep
<1>4. CASE UpdateInstrument(s)
  BY <1>1, <1>3, <1>4 DEF UpdateInstrument
<1>5. CASE RetireInstrument(s)
  <2>1. [status |-> "RETIRED", isActive |-> FALSE] \in [status : StatusColumn, isActive : BOOLEAN]
    BY DEF StatusColumn
  <2> QED
    BY <1>1, <1>3, <1>5, <2>1 DEF RetireInstrument
<1> QED
  BY <1>2, <1>4, <1>5

LEMMA InvtRowStep ==
  ASSUME DeskInv, InvtIInv, NEW s \in Slots, frame[s].op \in InvtOps, frame[s].pc # "idle",
         frame' = [frame EXCEPT ![s] = Idle], UNCHANGED <<ops, calm, loans>>,
         NEW i \in Instruments, NEW row \in InstrumentRow, row.status # "none",
         instruments' = [instruments EXCEPT ![i] = row]
  PROVE  InvtIInv' /\ \E f : Turn(InvtOps, s, f)
<1>1. /\ instruments \in [Instruments -> InstrumentRow]
      /\ \A j \in Instruments : instruments'[j] = IF j = i THEN row ELSE instruments[j]
  BY DEF InvtIInv, Stocked, InvtTypeOK
<1>2. \A j \in Instruments : Exists(j) => instruments'[j].status # "none"
  BY <1>1 DEF Exists
<1>3. Stocked'
  <2>1. InvtTypeOK'
    BY DEF InvtIInv, Stocked, InvtTypeOK
  <2>2. \A j \in Instruments : instruments'[j].isActive => instruments'[j].status # "none"
    BY <1>1 DEF InvtIInv, Stocked, Exists
  <2>3. \A a \in LoanIds : loans'[a].on # Null => instruments'[loans'[a].on].status # "none"
    <3> SUFFICES ASSUME NEW a \in LoanIds, loans[a].on # Null
                 PROVE  instruments'[loans[a].on].status # "none"
      OBVIOUS
    <3>1. loans[a].on \in Instruments
      BY DEF InvtIInv, Stocked, InvtTypeOK, LoanRow
    <3> QED
      BY <1>2, <3>1 DEF InvtIInv, Stocked, LoansOfRows
  <2> QED
    BY <2>1, <2>2, <2>3 DEF Stocked, LoansOfRows, Exists
<1> QED
  BY <1>2, <1>3, InvtWrites

(* The transaction of assign: one assignment more of the instrument, whose   *)
(* row says IN_USE; when requests take turns it was to be had.              *)
AssignRows(i) ==
  /\ Exists(i) /\ (calm => Lendable(i))
  /\ \A j \in Instruments \ {i} : instruments'[j] = instruments[j] /\ OpenLoans(j)' = OpenLoans(j)
  /\ instruments'[i].status = "IN_USE" /\ instruments'[i].isActive = instruments[i].isActive
  /\ \E a \in LoanIds : a \notin OpenLoans(i) /\ OpenLoans(i)' = OpenLoans(i) \cup {a}

LEMMA Assigned ==
  ASSUME DeskInv, InvtIInv, NEW s \in Slots, AssignTx(s)
  PROVE  /\ \E i \in Instruments : i = frame[s].on /\ AssignRows(i)
         /\ InvtTypeOK' /\ LoansOfRows'
         /\ \A b \in LoanIds : loans[b].on # Null => loans'[b].on = loans[b].on
<1> DEFINE g == frame[s]
<1>1. /\ g.op = "assign" /\ g.pc = "write"
      /\ InvtFirm(g, instruments, loans) /\ (calm => InvtFresh(g, instruments, loans))
  BY InvtAt DEF AssignTx, AtStep, InvtOps
<1>2. /\ g.on \in Instruments /\ Exists(g.on) /\ g.who \in Holders \cup {Null} /\ g.on # Null
      /\ calm => Lendable(g.on)
  BY <1>1, NullAssumption DEF InvtFirm, InvtFresh, Exists, Lendable
<1>3. PICK a \in LoanIds :
        /\ loans[a] = NoLoan
        /\ loans' = [loans EXCEPT ![a] = [on |-> g.on, to |-> g.who, returned |-> FALSE]]
  BY DEF AssignTx
<1>4. instruments' = [instruments EXCEPT ![g.on].status = "IN_USE"]
  BY DEF AssignTx
<1>5. instruments \in [Instruments -> InstrumentRow] /\ loans \in [LoanIds -> LoanRow]
  BY DEF InvtIInv, Stocked, InvtTypeOK
<1> DEFINE new == [on |-> g.on, to |-> g.who, returned |-> FALSE]
           row == [instruments[g.on] EXCEPT !.status = "IN_USE"]
<1>6. /\ new \in LoanRow /\ new.on = g.on /\ ~new.returned
      /\ row \in InstrumentRow /\ row.status = "IN_USE" /\ row.isActive = instruments[g.on].isActive
  BY <1>2, <1>5 DEF LoanRow, InstrumentRow, StatusColumn
<1>7. instruments' = [instruments EXCEPT ![g.on] = row] /\ loans' = [loans EXCEPT ![a] = new]
  BY <1>3, <1>4
<1> HIDE DEF g, new, row
<1>9. /\ \A i \in Instruments : instruments'[i] = IF i = g.on THEN row ELSE instruments[i]
      /\ \A b \in LoanIds : loans'[b] = IF b = a THEN new ELSE loans[b]
  BY <1>5, <1>7
<1>10. \A i \in Instruments : OpenLoans(i)' = IF i = g.on THEN OpenLoans(i) \cup {a} ELSE OpenLoans(i)
  BY <1>2, <1>3, <1>6, <1>9, BlankLoan, NullAssumption DEF OpenLoans
<1>11. a \notin OpenLoans(g.on)
  BY <1>2, <1>3, BlankLoan DEF OpenLoans
<1>12. InvtTypeOK'
  BY <1>2, <1>5, <1>6, <1>7 DEF InvtTypeOK
<1>13. \A b \in LoanIds : loans[b].on # Null => loans'[b].on = loans[b].on
  BY <1>3, <1>9, BlankLoan
<1>14. LoansOfRows'
  <2> SUFFICES ASSUME NEW b \in LoanIds, loans'[b].on # Null
               PROVE  instruments'[loans'[b].on].status # "none"
    BY DEF LoansOfRows, Exists
  <2>1. CASE b = a
    BY <1>2, <1>6, <1>9, <2>1
  <2>2. CASE b # a
    <3>1. loans'[b] = loans[b] /\ loans[b].on \in Instruments
      BY <1>5, <1>9, <2>2 DEF LoanRow
    <3> QED
      BY <1>6, <1>9, <3>1 DEF InvtIInv, Stocked, LoansOfRows, Exists
  <2> QED
    BY <2>1, <2>2
<1>15. ASSUME NEW i \in Instruments, i = g.on PROVE AssignRows(i)
  BY <1>2, <1>6, <1>9, <1>10, <1>11, <1>15 DEF AssignRows
<1> QED
  BY <1>2, <1>12, <1>13, <1>14, <1>15 DEF g

LEMMA InvtAssignStep ==
  ASSUME DeskInv, InvtIInv, NEW s \in Slots, AssignTx(s)
  PROVE  InvtIInv' /\ \E f : Turn(InvtOps, s, f)
<1> PICK i \in Instruments : AssignRows(i)
  BY Assigned
<1>1. AssignRows(i) /\ InvtTypeOK' /\ LoansOfRows'
      /\ \A b \in LoanIds : loans[b].on # Null => loans'[b].on = loans[b].on
  BY Assigned
<1>2. \A j \in Instruments : Exists(j) => instruments'[j].status # "none"
  BY <1>1 DEF AssignRows, Exists
<1>3. \A j \in Instruments : instruments'[j].isActive => instruments'[j].status # "none"
  BY <1>1 DEF AssignRows, InvtIInv, Stocked, Exists
<1>4. Stocked'
  BY <1>1, <1>3 DEF Stocked, Exists
<1>5. /\ frame[s].op \in InvtOps /\ frame[s].pc # "idle"
      /\ frame' = [frame EXCEPT ![s] = Idle] /\ UNCHANGED <<ops, calm>>
  BY DEF AssignTx, Finish, AtStep, InvtOps
<1> QED
  BY <1>1, <1>2, <1>4, <1>5, InvtWrites

(* The transaction of returnInstrument closes an assignment of the very      *)
(* instrument it makes AVAILABLE; when requests take turns, one that is     *)
(* still open.                                                              *)
ReturnRows(i) ==
  /\ Exists(i)
  /\ \A j \in Instruments \ {i} : instruments'[j] = instruments[j] /\ OpenLoans(j)' = OpenLoans(j)
  /\ instruments'[i].status = "AVAILABLE" /\ instruments'[i].isActive = instruments[i].isActive
  /\ \E a \in LoanIds : OpenLoans(i)' = OpenLoans(i) \ {a} /\ (calm => a \in OpenLoans(i))

LEMMA Returned ==
  ASSUME DeskInv, InvtIInv, NEW s \in Slots, ReturnTx(s)
  PROVE  /\ \E i \in Instruments : i = frame[s].on /\ ReturnRows(i)
         /\ InvtTypeOK' /\ LoansOfRows'
         /\ \A b \in LoanIds : loans'[b].on = loans[b].on
<1> DEFINE g == frame[s]
           new == [loans[g.seen] EXCEPT !.returned = TRUE]
           row == [instruments[g.on] EXCEPT !.status = "AVAILABLE"]
<1>1. /\ g.op = "returnInstrument" /\ g.pc = "write"
      /\ InvtFirm(g, instruments, loans) /\ (calm => InvtFresh(g, instruments, loans))
  BY InvtAt DEF ReturnTx, AtStep, InvtOps
<1>2. /\ g.on \in Instruments /\ Exists(g.on) /\ g.seen \in LoanIds /\ loans[g.seen].on = g.on
      /\ calm => g.seen \in OpenLoans(g.on)
  BY <1>1 DEF InvtFirm, InvtFresh, Exists, OpenLoans
<1>3. /\ instruments' = [instruments EXCEPT ![g.on] = row]
      /\ loans' = [loans EXCEPT ![g.seen] = new]
  BY DEF ReturnTx
<1>4. instruments \in [Instruments -> InstrumentRow] /\ loans \in [LoanIds -> LoanRow]
  BY DEF InvtIInv, Stocked, InvtTypeOK
<1>5. /\ new \in LoanRow /\ new.on = g.on /\ new.returned
      /\ row \in InstrumentRow /\ row.status = "AVAILABLE" /\ row.isActive = instruments[g.on].isActive
  BY <1>2, <1>4 DEF LoanRow, InstrumentRow, StatusColumn
<1> HIDE DEF g, new, row
<1>6. /\ \A i \in Instruments : instruments'[i] = IF i = g.on THEN row ELSE instruments[i]
      /\ \A b \in LoanIds : loans'[b] = IF b = g.seen THEN new ELSE loans[b]
  BY <1>3, <1>4
<1>7. \A i \in Instruments : OpenLoans(i)' = IF i = g.on THEN OpenLoans(i) \ {g.seen} ELSE OpenLoans(i)
  BY <1>2, <1>5, <1>6 DEF OpenLoans
<1>8. InvtTypeOK'
  BY <1>2, <1>3, <1>4, <1>5 DEF InvtTypeOK
<1>9. \A b \in LoanIds : loans'[b].on = loans[b].on
  BY <1>2, <1>5, <1>6
<1>10. \A i \in Instruments : Exists(i) => instruments'[i].status # "none"
  BY <1>5, <1>6 DEF Exists
<1>11. LoansOfRows'
  BY <1>4, <1>9, <1>10 DEF InvtIInv, Stocked, LoansOfRows, LoanRow, Exists
<1>12. ASSUME NEW i \in Instruments, i = g.on PROVE ReturnRows(i)
  BY <1>2, <1>5, <1>6, <1>7, <1>12 DEF ReturnRows
<1> QED
  BY <1>2, <1>8, <1>9, <1>11, <1>12 DEF g

LEMMA InvtReturnStep ==
  ASSUME DeskInv, InvtIInv, NEW s \in Slots, ReturnTx(s)
  PROVE  InvtIInv' /\ \E f : Turn(InvtOps, s, f)
<1> PICK i \in Instruments : ReturnRows(i)
  BY Returned
<1>1. ReturnRows(i) /\ InvtTypeOK' /\ LoansOfRows' /\ \A b \in LoanIds : loans'[b].on = loans[b].on
  BY Returned
<1>2. \A j \in Instruments : Exists(j) => instruments'[j].status # "none"
  BY <1>1 DEF ReturnRows, Exists
<1>3. \A j \in Instruments : instruments'[j].isActive => instruments'[j].status # "none"
  BY <1>1 DEF ReturnRows, InvtIInv, Stocked, Exists
<1>4. Stocked'
  BY <1>1, <1>3 DEF Stocked, Exists
<1>5. /\ frame[s].op \in InvtOps /\ frame[s].pc # "idle"
      /\ frame' = [frame EXCEPT ![s] = Idle] /\ UNCHANGED <<ops, calm>>
  BY DEF ReturnTx, Finish, AtStep, InvtOps
<1> QED
  BY <1>1, <1>2, <1>4, <1>5, InvtWrites

(* Every step of the service is a turn of one of its handlers and keeps the  *)
(* invariant.                                                               *)
LEMMA InvtStep ==
  ASSUME DeskInv, InvtIInv, InvtNext
  PROVE  InvtIInv' /\ \E s \in Slots : \E f : Turn(InvtOps, s, f)
<1>1. PICK s \in Slots : InvtCall(s) \/ InvtHandler(s) \/ InvtFail(s)
  BY DEF InvtNext
<1>2. CASE CreateInstrument(s) \/ UpdateInstrument(s) \/ RetireInstrument(s)
  <2>1. PICK i \in Instruments, row \in InstrumentRow :
          /\ row.status # "none" /\ instruments' = [instruments EXCEPT ![i] = row] /\ UNCHANGED loans
    BY <1>2, RowWritten
  <2>2. frame[s].op \in InvtOps /\ frame[s].pc # "idle"
        /\ frame' = [frame EXCEPT ![s] = Idle] /\ UNCHANGED <<ops, calm>>
    BY <1>2 DEF CreateInstrument, UpdateInstrument, RetireInstrument, Finish, AtStep, InvtOps
  <2> QED
    BY <2>1, <2>2, InvtRowStep
<1>5. CASE InvtFail(s)
  <2>1. Turn(InvtOps, s, Idle)
    BY <1>5, EndTurn, Ends DEF InvtFail, Fail, AtStep
  <2> QED
    BY <1>5, <2>1, InvtEnds DEF InvtFail
<1> QED
  BY <1>1, <1>2, <1>5, InvtCallStep, InvtReadStep, InvtRoleStep, InvtFindStep, InvtAssignStep,
     InvtReturnStep DEF InvtHandler

-----------------------------------------------------------------------------
(* What the service says, it says of an assignment. *)
LEMMA InvtSays == InvtNext => said' = Null \/ said'.type = "INSTRUMENT_ASSIGNED"
<1> SUFFICES ASSUME InvtNext PROVE said' = Null \/ said'.type = "INSTRUMENT_ASSIGNED"
  OBVIOUS
<1>1. PICK s \in Slots : InvtCall(s) \/ InvtHandler(s) \/ InvtFail(s)
  BY DEF InvtNext
<1>2. InvtCall(s) => said' = Null
  BY DEF InvtCall, Open
<1>3. InvtFail(s) \/ ReadInstrument(s) \/ AskRole(s) \/ FindAssignment(s) => said' = Null
  BY DEF InvtFail, Fail, Throw, Proceed, Next2, ReadInstrument, AskRole, FindAssignment
<1>4. CreateInstrument(s) \/ UpdateInstrument(s) \/ RetireInstrument(s) \/ ReturnTx(s) => said' = Null
  BY DEF CreateInstrument, UpdateInstrument, RetireInstrument, ReturnTx, Finish
<1>5. AssignTx(s) => said' = Null \/ said'.type = "INSTRUMENT_ASSIGNED"
  BY DEF AssignTx, Finish
<1> QED
  BY <1>1, <1>2, <1>3, <1>4, <1>5 DEF InvtHandler

(* A step that writes neither table. *)
LEMMA InvtWrite ==
  ASSUME InvtNext, ~UNCHANGED stock
  PROVE  \E s \in Slots : \/ AssignTx(s) \/ ReturnTx(s)
                          \/ CreateInstrument(s) \/ UpdateInstrument(s) \/ RetireInstrument(s)
BY DEF InvtNext, InvtCall, InvtFail, InvtHandler, ReadInstrument, AskRole, FindAssignment

-----------------------------------------------------------------------------
(* Every write but an update's leaves an instrument's row in agreement with  *)
(* its assignments.                                                         *)
MisledBy(s, i) ==
  frame[s].op = "update" /\ frame[s].on = i /\ AtStep(s, "write") /\ AtStep(s, "idle")'

LEMMA AccountStep ==
  ASSUME DeskInv, InvtIInv, InvtNext, calm' = calm, NEW i \in Instruments, Accounted(i), ~Accounted(i)'
  PROVE  \E s \in Slots : MisledBy(s, i)
<1>1. ~UNCHANGED stock
  BY DEF stock, Accounted, OpenLoans, Lendable
<1>2. PICK s \in Slots : \/ AssignTx(s) \/ ReturnTx(s)
                         \/ CreateInstrument(s) \/ UpdateInstrument(s) \/ RetireInstrument(s)
  BY <1>1, InvtWrite
<1>3. instruments \in [Instruments -> InstrumentRow] /\ loans \in [LoanIds -> LoanRow]
  BY DEF InvtIInv, Stocked, InvtTypeOK
<1>4. ASSUME AssignTx(s) PROVE FALSE
  <2>1. PICK k \in Instruments : AssignRows(k)
    BY <1>4, Assigned
  <2>2. CASE i # k
    BY <2>1, <2>2 DEF AssignRows, Accounted, Lendable
  <2>3. CASE i = k
    <3>1. calm => OpenLoans(i) = {}
      BY <2>1, <2>3 DEF AssignRows, Accounted
    <3> QED
      BY <2>1, <2>3, <3>1 DEF AssignRows, Accounted, Lendable
  <2> QED
    BY <2>2, <2>3
<1>5. ASSUME ReturnTx(s) PROVE FALSE
  <2>1. PICK k \in Instruments : ReturnRows(k)
    BY <1>5, Returned
  <2>2. CASE i # k
    BY <2>1, <2>2 DEF ReturnRows, Accounted, Lendable
  <2>3. CASE i = k
    <3>1. calm => OpenLoans(i)' = {}
      BY <2>1, <2>3 DEF ReturnRows, Accounted
    <3> QED
      BY <2>1, <2>3, <3>1 DEF ReturnRows, Accounted
  <2> QED
    BY <2>2, <2>3
<1>6. ASSUME CreateInstrument(s) PROVE FALSE
  <2>1. PICK k \in Instruments :
          ~Exists(k) /\ instruments' = [instruments EXCEPT ![k] = [status |-> "AVAILABLE", isActive |-> TRUE]]
    BY <1>6 DEF CreateInstrument
  <2>2. OpenLoans(i)' = OpenLoans(i)
    BY <1>6 DEF CreateInstrument, OpenLoans
  <2>3. CASE i # k
    BY <1>3, <2>1, <2>2, <2>3 DEF Accounted, Lendable
  <2>4. CASE i = k
    <3>1. OpenLoans(i) = {}
      BY <2>1, <2>4, NullAssumption DEF InvtIInv, Stocked, LoansOfRows, OpenLoans
    <3>2. instruments'[i].status = "AVAILABLE"
      BY <1>3, <2>1, <2>4
    <3> QED
      BY <2>2, <3>1, <3>2 DEF Accounted
  <2> QED
    BY <2>3, <2>4
<1>7. ASSUME RetireInstrument(s) PROVE FALSE
  <2>1. instruments' = [instruments EXCEPT ![frame[s].on] = [status |-> "RETIRED", isActive |-> FALSE]]
        /\ OpenLoans(i)' = OpenLoans(i)
    BY <1>7 DEF RetireInstrument, OpenLoans
  <2>2. CASE i # frame[s].on
    BY <1>3, <2>1, <2>2 DEF Accounted, Lendable
  <2>3. CASE i = frame[s].on
    <3>1. instruments'[i].status = "RETIRED" /\ ~instruments'[i].isActive
      BY <1>3, <2>1, <2>3
    <3> QED
      BY <2>1, <3>1 DEF Accounted, Lendable
  <2> QED
    BY <2>2, <2>3
<1>8. ASSUME UpdateInstrument(s) PROVE MisledBy(s, i)
  <2>1. /\ frame[s].op = "update" /\ AtStep(s, "write")
        /\ \E row : instruments' = [instruments EXCEPT ![frame[s].on] = row]
        /\ frame' = [frame EXCEPT ![s] = Idle] /\ OpenLoans(i)' = OpenLoans(i)
    BY <1>8 DEF UpdateInstrument, Finish, OpenLoans
  <2>2. AtStep(s, "idle")'
    BY <2>1, TurnFrames, IdleFrame DEF AtStep
  <2>3. frame[s].on = i
    BY <1>3, <2>1 DEF Accounted, Lendable
  <2> QED
    BY <2>1, <2>2, <2>3 DEF MisledBy
<1> QED
  BY <1>2, <1>4, <1>5, <1>6, <1>7, <1>8

-----------------------------------------------------------------------------
(* What the shelf shows of an instrument. *)
ShelfShows(T, n, i) ==
  /\ T.loans = n
  /\ T.known <=> Exists(i)
  /\ T.kept <=> instruments[i].isActive
  /\ T.free <=> instruments[i].status \notin {"none", "IN_USE", "MAINTENANCE"}

LEMMA OpenLoansFinite ==
  ASSUME NEW i
  PROVE  IsFiniteSet(OpenLoans(i)) /\ Cardinality(OpenLoans(i)) \in Nat
<1>1. IsFiniteSet(LoanIds) /\ OpenLoans(i) \in SUBSET LoanIds
  BY LoansAssumption, FS_Interval DEF LoanIds, OpenLoans
<1> QED
  BY <1>1, FS_Subset, FS_CardinalityType

Labelled ==
  \A i \in Instruments :
    Shelf[i] \in L!Thing /\ ShelfShows(Shelf[i], Cardinality(OpenLoans(i)), i)

LEMMA ShelfOf == InvtTypeOK => Labelled
<1> SUFFICES ASSUME InvtTypeOK, NEW i \in Instruments
             PROVE  Shelf[i] \in L!Thing /\ ShelfShows(Shelf[i], Cardinality(OpenLoans(i)), i)
  BY DEF Labelled
<1>1. Cardinality(OpenLoans(i)) \in Nat /\ instruments[i].isActive \in BOOLEAN
  BY OpenLoansFinite DEF InvtTypeOK, InstrumentRow
<1> HIDE DEF OpenLoans
<1> QED
  BY <1>1 DEF Shelf, ShelfShows, L!Thing, Exists

(* A step after which only instrument t may have another row or other       *)
(* assignments: what the shelf shows of t afterwards.                       *)
LEMMA ShelfMoves ==
  ASSUME NEW t \in Instruments,
         \A i \in Instruments \ {t} : instruments'[i] = instruments[i] /\ OpenLoans(i)' = OpenLoans(i)
  PROVE  Shelf' = [Shelf EXCEPT ![t] = Shelf'[t]]
<1>1. Shelf  = [i \in Instruments |-> Shelf[i]] /\ Shelf' = [i \in Instruments |-> Shelf'[i]]
  BY DEF Shelf
<1>2. ASSUME NEW i \in Instruments \ {t} PROVE Shelf'[i] = Shelf[i]
  <2>1. instruments'[i] = instruments[i] /\ OpenLoans(i)' = OpenLoans(i)
    OBVIOUS
  <2>2. /\ Shelf[i] = [loans |-> Cardinality(OpenLoans(i)), known |-> instruments[i].status # "none",
                       kept |-> instruments[i].isActive,
                       free |-> instruments[i].status \notin {"none", "IN_USE", "MAINTENANCE"}]
        /\ Shelf'[i] = [loans |-> Cardinality(OpenLoans(i)'), known |-> instruments'[i].status # "none",
                        kept |-> instruments'[i].isActive,
                        free |-> instruments'[i].status \notin {"none", "IN_USE", "MAINTENANCE"}]
    BY DEF Shelf, Exists
  <2> QED
    BY <2>1, <2>2
<1> HIDE DEF Shelf
<1> QED
  BY <1>1, <1>2

(* A step that changes what the shelf shows of instrument t.  The instrument *)
(* is known afterwards.                                                     *)
LEMMA Shown ==
  ASSUME InvtTypeOK, InvtTypeOK', NEW t \in Instruments,
         \A i \in Instruments \ {t} : instruments'[i] = instruments[i] /\ OpenLoans(i)' = OpenLoans(i),
         Exists(t)'
  PROVE  /\ Shelf[t] \in L!Thing /\ ShelfShows(Shelf[t], Cardinality(OpenLoans(t)), t)
         /\ \E k, f \in BOOLEAN :
              /\ L!Show(t, Cardinality(OpenLoans(t))', k, f)
              /\ k <=> instruments'[t].isActive
              /\ f <=> instruments'[t].status \notin {"IN_USE", "MAINTENANCE"}
<1>1. Shelf' = [Shelf EXCEPT ![t] = Shelf'[t]]
  BY ShelfMoves
<1>2. /\ Shelf[t] \in L!Thing /\ ShelfShows(Shelf[t], Cardinality(OpenLoans(t)), t)
  BY ShelfOf DEF Labelled
<1>3. InvtTypeOK' => Labelled'
  BY ShelfOf, PTL
<1> DEFINE T == Shelf'[t]
<1>4. /\ T \in L!Thing /\ T.loans = Cardinality(OpenLoans(t))' /\ T.known
      /\ T.kept <=> instruments'[t].isActive
      /\ T.free <=> instruments'[t].status \notin {"IN_USE", "MAINTENANCE"}
  BY <1>3 DEF Labelled, ShelfShows, Exists
<1>5. Shelf' = [Shelf EXCEPT ![t] = T]
  BY <1>1
<1> HIDE DEF T
<1>6. T = [loans |-> Cardinality(OpenLoans(t))', known |-> TRUE, kept |-> T.kept, free |-> T.free]
      /\ T.kept \in BOOLEAN /\ T.free \in BOOLEAN
  BY <1>4 DEF L!Thing
<1>7. L!Show(t, Cardinality(OpenLoans(t))', T.kept, T.free)
  BY <1>5, <1>6 DEF L!Show
<1> QED
  BY <1>2, <1>4, <1>6, <1>7

(* When requests take turns, each write of the service is one of Lending's.  *)
LEMMA LendStep ==
  ASSUME DeskInv, InvtIInv, InvtIInv', calm, NEW s \in Slots, AssignTx(s)
  PROVE  \E t \in Instruments : L!Lend(t)
<1>1. PICK i \in Instruments : AssignRows(i)
  BY Assigned
<1>2. Cardinality(OpenLoans(i))' = Cardinality(OpenLoans(i)) + 1
  BY <1>1, OpenLoansFinite, FS_AddElement DEF AssignRows
<1>3. Exists(i)' /\ instruments'[i].status = "IN_USE" /\ instruments'[i].isActive
  BY <1>1 DEF AssignRows, Exists, Lendable
<1>4. PICK k \in BOOLEAN, f \in BOOLEAN :
        /\ Shelf[i] \in L!Thing /\ ShelfShows(Shelf[i], Cardinality(OpenLoans(i)), i)
        /\ L!Show(i, Cardinality(OpenLoans(i))', k, f)
        /\ k <=> instruments'[i].isActive
        /\ f <=> instruments'[i].status \notin {"IN_USE", "MAINTENANCE"}
  BY <1>1, <1>3, Shown DEF AssignRows, InvtIInv, Stocked
<1>5. Shelf[i].kept /\ Shelf[i].free /\ Shelf[i].loans = Cardinality(OpenLoans(i))
  BY <1>1, <1>4 DEF AssignRows, ShelfShows, Lendable, Exists
<1>6. k = TRUE /\ f = FALSE
  BY <1>3, <1>4
<1>7. L!Show(i, Shelf[i].loans + 1, TRUE, FALSE)
  BY <1>2, <1>4, <1>5, <1>6
<1> QED
  BY <1>5, <1>7 DEF L!Lend

LEMMA TakeBackStep ==
  ASSUME DeskInv, InvtIInv, InvtIInv', calm, NEW s \in Slots, ReturnTx(s)
  PROVE  \E t \in Instruments : L!TakeBack(t)
<1>1. PICK i \in Instruments : ReturnRows(i)
  BY Returned
<1>2. PICK a \in LoanIds : OpenLoans(i)' = OpenLoans(i) \ {a} /\ a \in OpenLoans(i)
  BY <1>1 DEF ReturnRows
<1>3. /\ Cardinality(OpenLoans(i))' = Cardinality(OpenLoans(i)) - 1
      /\ Cardinality(OpenLoans(i)) \in Nat /\ Cardinality(OpenLoans(i)) # 0
  BY <1>2, OpenLoansFinite, FS_RemoveElement, FS_EmptySet
<1>4. Exists(i)' /\ instruments'[i].status = "AVAILABLE" /\ instruments'[i].isActive = instruments[i].isActive
  BY <1>1 DEF ReturnRows, Exists
<1>5. PICK k \in BOOLEAN, f \in BOOLEAN :
        /\ Shelf[i] \in L!Thing /\ ShelfShows(Shelf[i], Cardinality(OpenLoans(i)), i)
        /\ L!Show(i, Cardinality(OpenLoans(i))', k, f)
        /\ k <=> instruments'[i].isActive
        /\ f <=> instruments'[i].status \notin {"IN_USE", "MAINTENANCE"}
  BY <1>1, <1>4, Shown DEF ReturnRows, InvtIInv, Stocked
<1>6. (Shelf[i].kept <=> k) /\ Shelf[i].loans = Cardinality(OpenLoans(i))
  BY <1>4, <1>5 DEF ShelfShows
<1>7. Shelf[i].kept \in BOOLEAN
  BY <1>5 DEF L!Thing
<1>9. Shelf[i].kept = k
  BY <1>6, <1>7
<1>10. f = TRUE
  BY <1>4, <1>5
<1>8. Shelf[i].loans > 0 /\ Cardinality(OpenLoans(i))' = Shelf[i].loans - 1
  BY <1>3, <1>6
<1>11. Shelf' = [Shelf EXCEPT ![i] = [loans |-> Shelf[i].loans - 1, known |-> TRUE, kept |-> k, free |-> f]]
  BY <1>5, <1>8 DEF L!Show
<1>12. L!Show(i, Shelf[i].loans - 1, Shelf[i].kept, TRUE)
  BY <1>9, <1>10, <1>11 DEF L!Show
<1> QED
  BY <1>8, <1>12 DEF L!TakeBack

(* A write of one row and no assignment. *)
LEMMA RowShown ==
  ASSUME InvtIInv, InvtIInv', NEW i \in Instruments, NEW row \in InstrumentRow, row.status # "none",
         instruments' = [instruments EXCEPT ![i] = row], UNCHANGED loans
  PROVE  /\ Shelf[i] \in L!Thing /\ ShelfShows(Shelf[i], Cardinality(OpenLoans(i)), i)
         /\ \E k, f \in BOOLEAN :
              /\ L!Show(i, Shelf[i].loans, k, f)
              /\ k <=> row.isActive
              /\ f <=> row.status \notin {"IN_USE", "MAINTENANCE"}
<1>1. instruments \in [Instruments -> InstrumentRow] /\ InvtTypeOK /\ InvtTypeOK'
  BY DEF InvtIInv, Stocked, InvtTypeOK
<1>2. instruments'[i] = row /\ \A j \in Instruments \ {i} : instruments'[j] = instruments[j]
  BY <1>1
<1>3. OpenLoans(i)' = OpenLoans(i) /\ \A j \in Instruments \ {i} : OpenLoans(j)' = OpenLoans(j)
  BY DEF OpenLoans
<1>4. Exists(i)'
  BY <1>2 DEF Exists
<1>5. PICK k \in BOOLEAN, f \in BOOLEAN :
        /\ Shelf[i] \in L!Thing /\ ShelfShows(Shelf[i], Cardinality(OpenLoans(i)), i)
        /\ L!Show(i, Cardinality(OpenLoans(i))', k, f)
        /\ k <=> instruments'[i].isActive
        /\ f <=> instruments'[i].status \notin {"IN_USE", "MAINTENANCE"}
  BY <1>1, <1>2, <1>3, <1>4, Shown
<1>6. Cardinality(OpenLoans(i))' = Shelf[i].loans
  BY <1>3, <1>5 DEF ShelfShows
<1> QED
  BY <1>2, <1>5, <1>6

LEMMA AcquireStep ==
  ASSUME DeskInv, InvtIInv, InvtIInv', NEW s \in Slots, CreateInstrument(s)
  PROVE  \E t \in Instruments : L!Acquire(t)
<1> DEFINE row == [status |-> "AVAILABLE", isActive |-> TRUE]
<1>1. PICK i \in Instruments : ~Exists(i) /\ instruments' = [instruments EXCEPT ![i] = row]
  BY DEF CreateInstrument
<1>2. row \in InstrumentRow /\ row.status = "AVAILABLE" /\ row.isActive
  BY DEF InstrumentRow, StatusColumn
<1> HIDE DEF row
<1>3. PICK k \in BOOLEAN, f \in BOOLEAN :
        /\ Shelf[i] \in L!Thing /\ ShelfShows(Shelf[i], Cardinality(OpenLoans(i)), i)
        /\ L!Show(i, Shelf[i].loans, k, f)
        /\ k <=> row.isActive
        /\ f <=> row.status \notin {"IN_USE", "MAINTENANCE"}
  BY <1>1, <1>2, RowShown DEF CreateInstrument
<1>4. OpenLoans(i) = {} /\ ~instruments[i].isActive
  BY <1>1, NullAssumption DEF InvtIInv, Stocked, LoansOfRows, OpenLoans
<1>5. Shelf[i].loans = 0 /\ ~Shelf[i].known /\ ~Shelf[i].kept /\ ~Shelf[i].free
  BY <1>1, <1>3, <1>4, FS_EmptySet DEF ShelfShows, Exists
<1>6. Shelf[i] = L!Absent
  BY <1>3, <1>5 DEF L!Absent, L!Thing
<1>7. k = TRUE /\ f = TRUE
  BY <1>2, <1>3
<1> QED
  BY <1>3, <1>5, <1>6, <1>7 DEF L!Acquire

LEMMA WithdrawStep ==
  ASSUME DeskInv, InvtIInv, InvtIInv', NEW s \in Slots, RetireInstrument(s)
  PROVE  \E t \in Instruments : L!Withdraw(t)
<1> DEFINE row == [status |-> "RETIRED", isActive |-> FALSE]
<1> PICK i \in Instruments : i = frame[s].on
  BY InvtAt DEF RetireInstrument, InvtFirm, InvtOps, AtStep
<1>1. Exists(i) /\ instruments' = [instruments EXCEPT ![i] = row]
  BY InvtAt DEF RetireInstrument, InvtFirm, InvtOps, Exists, AtStep
<1>2. row \in InstrumentRow /\ row.status = "RETIRED" /\ ~row.isActive
  BY DEF InstrumentRow, StatusColumn
<1> HIDE DEF row
<1>3. PICK k \in BOOLEAN, f \in BOOLEAN :
        /\ Shelf[i] \in L!Thing /\ ShelfShows(Shelf[i], Cardinality(OpenLoans(i)), i)
        /\ L!Show(i, Shelf[i].loans, k, f)
        /\ k <=> row.isActive
        /\ f <=> row.status \notin {"IN_USE", "MAINTENANCE"}
  BY <1>1, <1>2, RowShown DEF RetireInstrument
<1>4. Shelf[i].known /\ k = FALSE /\ f = TRUE
  BY <1>1, <1>2, <1>3 DEF ShelfShows
<1> QED
  BY <1>3, <1>4 DEF L!Withdraw

LEMMA RelabelStep ==
  ASSUME DeskInv, InvtIInv, InvtIInv', calm, NEW s \in Slots, UpdateInstrument(s)
  PROVE  \E t \in Instruments : L!Relabel(t)
<1>1. frame[s].on \in Instruments /\ instruments[frame[s].on].isActive
  BY InvtAt DEF UpdateInstrument, InvtFirm, InvtFresh, InvtOps, AtStep
<1> PICK i \in Instruments : i = frame[s].on
  BY <1>1
<1>2. PICK row \in [status : StatusColumn, isActive : BOOLEAN] : instruments' = [instruments EXCEPT ![i] = row]
  BY DEF UpdateInstrument
<1>3. row \in InstrumentRow /\ row.status # "none"
  BY DEF InstrumentRow, StatusColumn
<1>6. UNCHANGED loans
  BY DEF UpdateInstrument
<1>4. PICK k \in BOOLEAN, f \in BOOLEAN :
        /\ Shelf[i] \in L!Thing /\ ShelfShows(Shelf[i], Cardinality(OpenLoans(i)), i)
        /\ L!Show(i, Shelf[i].loans, k, f)
        /\ k <=> row.isActive
        /\ f <=> row.status \notin {"IN_USE", "MAINTENANCE"}
  BY <1>2, <1>3, <1>6, RowShown
<1>5. Shelf[i].kept
  BY <1>1, <1>4 DEF ShelfShows
<1> QED
  BY <1>4, <1>5 DEF L!Relabel

(* When requests take turns, each step of the service is one of Lending's,   *)
(* or changes nothing on the shelf.                                         *)
LEMMA LendingStep ==
  ASSUME DeskInv, InvtIInv, InvtIInv', calm, InvtNext
  PROVE  [L!Next]_Shelf
<1>1. CASE UNCHANGED stock
  BY <1>1 DEF stock, Shelf, OpenLoans, Exists
<1>2. CASE ~UNCHANGED stock
  <2>1. PICK s \in Slots : \/ AssignTx(s) \/ ReturnTx(s)
                           \/ CreateInstrument(s) \/ UpdateInstrument(s) \/ RetireInstrument(s)
    BY <1>2, InvtWrite
  <2> QED
    BY <2>1, LendStep, TakeBackStep, AcquireStep, WithdrawStep, RelabelStep DEF L!Next
<1> QED
  BY <1>1, <1>2

(* At first nothing is lent out, and every known instrument may be. *)
LEMMA LendingStart == InvtInit => L!Init
<1> SUFFICES ASSUME InvtInit PROVE L!Init
  OBVIOUS
<1>1. InvtTypeOK /\ \A i \in Instruments : OpenLoans(i) = {}
  BY InvtStart, NullAssumption, BlankLoan DEF InvtIInv, Stocked, InvtInit, OpenLoans
<1>2. ASSUME NEW i \in Instruments PROVE Shelf[i] \in {L!Absent, L!Acquired}
  <2>1. Shelf[i] \in L!Thing /\ ShelfShows(Shelf[i], Cardinality(OpenLoans(i)), i)
    BY <1>1, ShelfOf DEF Labelled
  <2>2. \/ instruments[i].status = "none" /\ ~instruments[i].isActive
        \/ instruments[i].status = "AVAILABLE" /\ instruments[i].isActive
    BY DEF InvtInit, NoInstrument
  <2>3. Shelf[i].loans = 0
    BY <1>1, <2>1, FS_EmptySet DEF ShelfShows
  <2>4. CASE instruments[i].status = "none" /\ ~instruments[i].isActive
    <3>1. ~Shelf[i].known /\ ~Shelf[i].kept /\ ~Shelf[i].free
      BY <2>1, <2>4 DEF ShelfShows, Exists
    <3> QED
      BY <2>1, <2>3, <3>1 DEF L!Absent, L!Thing
  <2>5. CASE instruments[i].status = "AVAILABLE" /\ instruments[i].isActive
    <3>1. Shelf[i].known /\ Shelf[i].kept /\ Shelf[i].free
      BY <2>1, <2>5 DEF ShelfShows, Exists
    <3> QED
      BY <2>1, <2>3, <3>1 DEF L!Acquired, L!Thing
  <2> QED
    BY <2>2, <2>4, <2>5
<1>3. Shelf = [i \in Instruments |-> Shelf[i]]
  BY DEF Shelf
<1> HIDE DEF Shelf
<1> QED
  BY <1>2, <1>3 DEF L!Init
=============================================================================
