--------------------------- MODULE WorkflowsProofs -------------------------
(***************************************************************************)
(* All the services of one desk together, for any number of rows, users,   *)
(* handlers and groups of operations.  A service's invariant is kept by    *)
(* its own steps, and by the others' because they share no table and a     *)
(* handler is one service's.  The chapters on Finance, Messages, Accounts  *)
(* and Repertoire come first; Inventory and Agenda have modules of their   *)
(* own.                                                                    *)
(***************************************************************************)
EXTENDS Workflows, InventoryProofs, AgendaProofs

-----------------------------------------------------------------------------
(* Finance, for any number of entries, categories and per diems.            *)
FinOps == LedgerOps \cup PerDiemOps

Decisions == {"approveEntry", "rejectEntry"}

(* What a handler's frame is about, whatever overlaps. *)
FinFirm(f) ==
  /\ f.op \in {"createCategory", "deleteCategory"} => f.on \in Categories
  /\ f.op = "createEntry" => f.arg.type \in Types /\ f.arg.amount \in Amounts
  /\ f.op = "updateEntry" => f.arg \in Amounts
  /\ f.op \in Decisions \cup {"updateEntry", "deleteEntry"} => f.on \in Entries
  /\ f.op \in Decisions => f.pc \in {"find", "role", "approver", "write"}

(* The amount a decision will announce, when requests take turns. *)
FinFresh(f, E) == f.op \in Decisions /\ f.pc # "find" => f.seen = E[f.on].amount

FinFrames ==
  \A s \in Slots : frame[s].op \in FinOps =>
    FinFirm(frame[s]) /\ (calm => FinFresh(frame[s], entries))

FinIInv == FinTypeOK /\ FinFrames

(* Idle handlers are nobody's. *)
LEMMA FinIdle == Idle.op \notin FinOps
BY DEF Idle, FinOps, LedgerOps, PerDiemOps

(* The ledger is empty before the first request. *)
LEMMA FinStart == FinInit => FinIInv
BY DeskStart, FinIdle DEF FinInit, FinIInv, FinFrames, FinTypeOK

-----------------------------------------------------------------------------
(* A step of one of the service's handlers. *)
LEMMA FinTurn ==
  ASSUME DeskInv, FinIInv, NEW s \in Slots, NEW f, Turn(FinOps, s, f), FinTypeOK',
         f.op \in FinOps => FinFirm(f) /\ (calm => FinFresh(f, entries'))
  PROVE  FinIInv'
<1>1. frame'[s] = f /\ \A t \in Slots \ {s} : frame'[t] = frame[t]
  BY TurnFrames DEF Turn
<1>2. ASSUME NEW t \in Slots, frame'[t].op \in FinOps
      PROVE  FinFirm(frame'[t]) /\ (calm => FinFresh(frame'[t], entries'))
  <2>1. CASE t = s
    BY <1>1, <1>2, <2>1
  <2>2. CASE t # s
    <3>1. FinFirm(frame'[t])
      BY <1>1, <1>2, <2>2 DEF FinIInv, FinFrames
    <3>2. ~calm
      BY <1>2, <2>2, TurnAlone, FinIdle
    <3> QED
      BY <3>1, <3>2
  <2> QED
    BY <2>1, <2>2
<1>3. calm' = calm
  BY DEF Turn
<1>4. FinFrames'
  BY <1>2, <1>3 DEF FinFrames
<1> QED
  BY <1>4 DEF FinIInv

(* One that leaves the ledger alone. *)
LEMMA FinMoves ==
  ASSUME DeskInv, FinIInv, UNCHANGED ledger, NEW s \in Slots, NEW f, Turn(FinOps, s, f),
         f.op \in FinOps => FinFirm(f) /\ (calm => FinFresh(f, entries))
  PROVE  FinIInv' /\ \E g : Turn(FinOps, s, g)
<1>1. FinTypeOK' /\ entries' = entries
  BY DEF ledger, FinIInv, FinTypeOK
<1> QED
  BY <1>1, FinTurn

(* The last one of a handler. *)
LEMMA FinEnds ==
  ASSUME DeskInv, FinIInv, FinTypeOK', NEW s \in Slots, frame[s].pc # "idle", frame[s].op \in FinOps,
         Throw(s) \/ Fail(s) \/ \E notice : Finish(s, notice)
  PROVE  FinIInv' /\ \E f : Turn(FinOps, s, f)
BY StepsEnd, FinTurn, FinIdle

(* The rows stay as they are. *)
LEMMA FinSame == FinTypeOK /\ UNCHANGED ledger => FinTypeOK'
BY DEF ledger, FinTypeOK

(* Another service's step, and one of no handler. *)
LEMMA FinOthers ==
  ASSUME DeskInv, FinIInv, UNCHANGED ledger, NEW O, O \cap FinOps = {},
         NEW s \in Slots, NEW f, Turn(O, s, f)
  PROVE  FinIInv'
<1>1. frame'[s] = f /\ \A t \in Slots \ {s} : frame'[t] = frame[t]
  BY TurnFrames DEF Turn
<1>2. entries' = entries /\ calm' = calm /\ f.op \notin FinOps
  BY FinIdle DEF ledger, Turn
<1>3. FinFrames'
  BY <1>1, <1>2 DEF FinIInv, FinFrames
<1> QED
  BY <1>3, FinSame DEF FinIInv

LEMMA FinStill == FinIInv /\ UNCHANGED <<frame, calm, ledger>> => FinIInv'
BY FinSame DEF FinIInv, FinFrames, ledger

-----------------------------------------------------------------------------
(* The frame a request starts with. *)
LEMMA FinAsked ==
  ASSUME NEW op, NEW pc, NEW x, NEW v
  PROVE  LET h == FinAsk(op, pc, x, v) IN Whole(h) /\ h.pc = pc /\ h.op = op /\ h.on = x /\ h.arg = v
<1> DEFINE h  == FinAsk(op, pc, x, v)
           g1 == [Idle EXCEPT !.pc = pc]
           g2 == [g1 EXCEPT !.op = op]
           g3 == [g2 EXCEPT !.on = x]
           g4 == [g3 EXCEPT !.arg = v]
<1>1. h = g4
  BY IdleFrame DEF Whole, FinAsk
<1>2. Whole(g1) /\ g1.pc = pc
  BY IdleFrame DEF Whole
<1> HIDE DEF g1
<1>3. Whole(g2) /\ g2.pc = pc /\ g2.op = op
  BY <1>2 DEF Whole
<1> HIDE DEF g2
<1>4. Whole(g3) /\ g3.pc = pc /\ g3.op = op /\ g3.on = x
  BY <1>3 DEF Whole
<1> HIDE DEF g3
<1>5. Whole(g4) /\ g4.pc = pc /\ g4.op = op /\ g4.on = x /\ g4.arg = v
  BY <1>4 DEF Whole
<1> HIDE DEF g4, h
<1>6. Whole(h) /\ h.pc = pc /\ h.op = op /\ h.on = x /\ h.arg = v
  BY <1>1, <1>5
<1> QED
  BY <1>6 DEF h

(* A client's request. *)
LEMMA FinCallStep ==
  ASSUME DeskInv, FinIInv, NEW s \in Slots, FinCall(s)
  PROVE  FinIInv' /\ \E f : Turn(FinOps, s, f)
<1>1. ASSUME NEW op \in FinOps, NEW pc \in {"find", "role"}, NEW x, NEW v, Open(s, FinAsk(op, pc, x, v)),
             op \in Decisions => pc = "find",
             op \in {"createCategory", "deleteCategory"} => x \in Categories,
             op = "createEntry" => v.type \in Types /\ v.amount \in Amounts,
             op = "updateEntry" => v \in Amounts,
             op \in Decisions \cup {"updateEntry", "deleteEntry"} => x \in Entries
      PROVE  FinIInv' /\ \E f : Turn(FinOps, s, f)
  <2> DEFINE f == FinAsk(op, pc, x, v)
  <2>1. Whole(f) /\ f.pc = pc /\ f.op = op /\ f.on = x /\ f.arg = v
    BY FinAsked
  <2>2. Open(s, f)
    BY <1>1
  <2> HIDE DEF f
  <2>3. Turn(FinOps, s, f)
    BY <2>1, <2>2, OpenTurn
  <2>4. FinFirm(f) /\ FinFresh(f, entries)
    BY <1>1, <2>1 DEF FinFirm, FinFresh, Decisions
  <2> QED
    BY <2>3, <2>4, FinMoves DEF FinCall
<1> USE DEF FinOps, LedgerOps, PerDiemOps, Decisions
<1>2. ASSUME NEW c \in Categories, Open(s, FinAsk("createCategory", "role", c, Null))
      PROVE  FinIInv' /\ \E f : Turn(FinOps, s, f)
  BY <1>1, <1>2
<1>3. ASSUME NEW c \in categories, Open(s, FinAsk("deleteCategory", "find", c, Null))
      PROVE  FinIInv' /\ \E f : Turn(FinOps, s, f)
  BY <1>1, <1>3 DEF FinIInv, FinTypeOK
<1>4. ASSUME NEW c, NEW a \in Amounts, NEW type \in Types,
             Open(s, FinAsk("createEntry", "role", c, [amount |-> a, type |-> type]))
      PROVE  FinIInv' /\ \E f : Turn(FinOps, s, f)
  <2> DEFINE v == [amount |-> a, type |-> type]
  <2>1. v.amount \in Amounts /\ v.type \in Types /\ Open(s, FinAsk("createEntry", "role", c, v))
    BY <1>4
  <2> HIDE DEF v
  <2> QED
    BY <1>1, <2>1
<1>5. ASSUME NEW e \in Known, NEW a \in Amounts, Open(s, FinAsk("updateEntry", "find", e, a))
      PROVE  FinIInv' /\ \E f : Turn(FinOps, s, f)
  BY <1>1, <1>5 DEF Known
<1>6. ASSUME NEW e \in Known, NEW op \in {"deleteEntry", "approveEntry", "rejectEntry"},
             Open(s, FinAsk(op, "find", e, Null))
      PROVE  FinIInv' /\ \E f : Turn(FinOps, s, f)
  BY <1>1, <1>6 DEF Known
<1>7. CASE Open(s, FinAsk("createPerDiem", "role", Null, Null))
  BY <1>1, <1>7
<1>8. ASSUME NEW p \in PerDiems, Open(s, FinAsk("markPerDiemPaid", "find", p, Null))
      PROVE  FinIInv' /\ \E f : Turn(FinOps, s, f)
  BY <1>1, <1>8
<1> QED
  BY <1>2, <1>3, <1>4, <1>5, <1>6, <1>7, <1>8 DEF FinCall

(* A handler in progress is sound. *)
LEMMA FinAt ==
  ASSUME FinIInv, NEW s \in Slots, frame[s].op \in FinOps
  PROVE  FinFirm(frame[s]) /\ (calm => FinFresh(frame[s], entries))
BY DEF FinIInv, FinFrames

(* The queries before the write. *)
LEMMA FinReadSteps ==
  ASSUME DeskInv, FinIInv, NEW s \in Slots,
         FindRow(s) \/ AskFinRole(s) \/ CategoryExists(s) \/ ReadApprover(s)
  PROVE  FinIInv' /\ \E f : Turn(FinOps, s, f)
<1> DEFINE g == frame[s]
<1>1. /\ g.op \in FinOps /\ g.pc # "idle" /\ UNCHANGED ledger
      /\ g.pc \in {"find", "role", "exists", "approver"}
  BY DEF FindRow, AskFinRole, CategoryExists, ReadApprover, AtStep, FinOps, LedgerOps
<1>2. FinFirm(g) /\ (calm => FinFresh(g, entries))
  BY <1>1, FinAt
<1>3. CASE Throw(s)
  BY <1>1, <1>3, FinEnds, FinSame DEF FinIInv
<1>4. ASSUME NEW pc \in {"role", "exists", "approver", "write"}, Next2(s, pc),
             g.op \in Decisions => g.pc # "find" /\ pc # "exists"
      PROVE  FinIInv' /\ \E f : Turn(FinOps, s, f)
  <2>1. PICK f : Turn(FinOps, s, f) /\ Onward(g, f) /\ f.pc = pc /\ f.seen = g.seen
    BY <1>1, <1>4, Steps
  <2>2. FinFirm(f) /\ (calm => FinFresh(f, entries))
    BY <1>2, <1>4, <2>1 DEF FinFirm, FinFresh, Onward
  <2> QED
    BY <1>1, <2>1, <2>2, FinMoves
<1>5. ASSUME NEW a, a = entries[g.on].amount, NEW pc, pc = "role", NEW h, h = With(g, pc, a), Proceed(s, h)
      PROVE  FinIInv' /\ \E f : Turn(FinOps, s, f)
  <2>1. PICK f : Turn(FinOps, s, f) /\ Onward(g, f) /\ f.pc = pc /\ f.seen = a
    BY <1>1, <1>5, StepsWith
  <2>2. FinFirm(f) /\ FinFresh(f, entries)
    BY <1>2, <1>5, <2>1 DEF FinFirm, FinFresh, Onward
  <2> QED
    BY <1>1, <2>1, <2>2, FinMoves
<1>6. CASE FindRow(s)
  <2>1. \/ Throw(s)
        \/ Next2(s, "role") /\ g.op \notin Decisions
        \/ Proceed(s, With(g, "role", entries[g.on].amount))
    BY <1>6 DEF FindRow, With, Decisions
  <2> QED
    BY <1>3, <1>4, <1>5, <2>1
<1>7. CASE AskFinRole(s)
  <2>1. g.pc = "role" /\ (Throw(s) \/ \E pc \in {"exists", "approver", "write"} :
                            Next2(s, pc) /\ (g.op \in Decisions => pc # "exists"))
    BY <1>7 DEF AskFinRole, Authority, Decisions, AtStep
  <2> QED
    BY <1>3, <1>4, <2>1
<1>8. CASE CategoryExists(s)
  BY <1>3, <1>4, <1>8 DEF CategoryExists, Decisions
<1>9. CASE ReadApprover(s)
  BY <1>3, <1>4, <1>9 DEF ReadApprover, AtStep
<1> QED
  BY <1>6, <1>7, <1>8, <1>9

(* The writes: rows stay rows. *)
LEMMA OnEntryRow ==
  ASSUME FinIInv, NEW s \in Slots, NEW op \in Decisions \cup {"updateEntry", "deleteEntry"}, NEW notice,
         NEW row, OnEntry(s, op, row, notice),
         entries[frame[s].on] # Null /\ frame[s].on \in Entries => row \in EntryRow \cup {Null}
  PROVE  FinTypeOK' /\ (Throw(s) \/ \E n : Finish(s, n))
<1>1. frame[s].on \in Entries
  BY FinAt DEF OnEntry, FinFirm, FinOps, LedgerOps, Decisions
<1> QED
  BY <1>1 DEF OnEntry, FinIInv, FinTypeOK

LEMMA FinWriteSteps ==
  ASSUME DeskInv, FinIInv, NEW s \in Slots,
         WriteCategory(s) \/ InsertEntry(s) \/ UpdateEntry(s) \/ DeleteEntry(s) \/ ApproveEntry(s)
         \/ RejectEntry(s) \/ WritePerDiem(s)
  PROVE  FinIInv' /\ \E f : Turn(FinOps, s, f)
<1> DEFINE g == frame[s]
           e == g.on
<1>1. g.op \in FinOps /\ g.pc = "write"
  BY DEF WriteCategory, InsertEntry, UpdateEntry, DeleteEntry, ApproveEntry, RejectEntry, OnEntry,
     WritePerDiem, AtStep, FinOps, LedgerOps, PerDiemOps
<1>2. FinFirm(g) /\ FinTypeOK
  BY <1>1, FinAt DEF FinIInv
<1>3. FinTypeOK' /\ (Throw(s) \/ \E notice : Finish(s, notice)) => FinIInv' /\ \E f : Turn(FinOps, s, f)
  BY <1>1, FinEnds
<1>4. CASE WriteCategory(s)
  <2>1. Finish(s, Null) /\ perDiems' = perDiems
    BY <1>4 DEF WriteCategory
  <2>2. ASSUME g.op = "createCategory", categories' = categories \cup {g.on}, UNCHANGED entries
        PROVE  FinTypeOK'
    BY <1>2, <2>1, <2>2 DEF FinTypeOK, FinFirm
  <2>3. ASSUME categories' = categories \ {g.on},
               entries' = [x \in Entries |->
                  IF x \in Known /\ entries[x].category = g.on
                  THEN [entries[x] EXCEPT !.category = Null] ELSE entries[x]]
        PROVE  FinTypeOK'
    <3>1. ASSUME NEW x \in Known PROVE [entries[x] EXCEPT !.category = Null] \in EntryRow
      BY <1>2 DEF FinTypeOK, Known, EntryRow
    <3>2. entries' \in [Entries -> EntryRow \cup {Null}]
      BY <1>2, <2>3, <3>1 DEF FinTypeOK
    <3> QED
      BY <1>2, <2>1, <2>3, <3>2 DEF FinTypeOK
  <2>4. FinTypeOK'
    BY <1>4, <2>2, <2>3 DEF WriteCategory
  <2> QED
    BY <1>3, <2>1, <2>4
<1>5. CASE InsertEntry(s)
  <2>1. CASE UNCHANGED entries /\ Throw(s)
    BY <1>2, <1>3, <1>5, <2>1 DEF InsertEntry, FinTypeOK
  <2>2. CASE Finish(s, Null) /\ g.on \in categories \cup {Null}
    <3> DEFINE new == [type |-> g.arg.type, amount |-> g.arg.amount, category |-> g.on,
                       status |-> "PENDING", paid |-> FALSE]
    <3>1. new \in EntryRow
      BY <1>2, <1>5, <2>2 DEF InsertEntry, FinFirm, FinTypeOK, EntryRow
    <3>2. entries' = entries \/ \E x \in Entries : entries' = [entries EXCEPT ![x] = new]
      BY <1>5 DEF InsertEntry
    <3> HIDE DEF new
    <3>3. FinTypeOK'
      BY <1>2, <1>5, <3>1, <3>2 DEF InsertEntry, FinTypeOK
    <3> QED
      BY <1>3, <2>2, <3>3
  <2> QED
    BY <1>5, <2>1, <2>2 DEF InsertEntry
<1>6. CASE UpdateEntry(s)
  <2>1. e \in Entries /\ entries[e] # Null => [entries[e] EXCEPT !.amount = g.arg] \in EntryRow
    BY <1>2, <1>6 DEF UpdateEntry, OnEntry, FinTypeOK, FinFirm, EntryRow
  <2> QED
    BY <1>3, <1>6, <2>1, OnEntryRow DEF UpdateEntry
<1>7. CASE DeleteEntry(s)
  BY <1>3, <1>7, OnEntryRow DEF DeleteEntry
<1>8. CASE ApproveEntry(s)
  <2>1. e \in Entries /\ entries[e] # Null =>
          [entries[e] EXCEPT !.status = "APPROVED", !.paid = TRUE] \in EntryRow
    BY <1>2 DEF FinTypeOK, EntryRow
  <2> QED
    BY <1>3, <1>8, <2>1, OnEntryRow DEF ApproveEntry, Decisions
<1>9. CASE RejectEntry(s)
  <2>1. e \in Entries /\ entries[e] # Null => [entries[e] EXCEPT !.status = "REJECTED"] \in EntryRow
    BY <1>2 DEF FinTypeOK, EntryRow
  <2> QED
    BY <1>3, <1>9, <2>1, OnEntryRow DEF RejectEntry, Decisions
<1>10. CASE WritePerDiem(s)
  <2>1. FinTypeOK' /\ Finish(s, Null)
    BY <1>2, <1>10 DEF WritePerDiem, FinTypeOK
  <2> QED
    BY <1>3, <2>1
<1> QED
  BY <1>4, <1>5, <1>6, <1>7, <1>8, <1>9, <1>10

(* Every step of the service. *)
LEMMA FinStep ==
  ASSUME DeskInv, FinIInv, FinNext
  PROVE  FinIInv' /\ \E s \in Slots : \E f : Turn(FinOps, s, f)
<1>1. PICK s \in Slots : FinCall(s) \/ FinHandler(s) \/ FinFail(s)
  BY DEF FinNext
<1>2. CASE FinFail(s)
  <2>1. frame[s].op \in FinOps /\ frame[s].pc # "idle" /\ UNCHANGED ledger /\ Fail(s)
    BY <1>2 DEF FinFail, FinOps, Fail, AtStep
  <2> QED
    BY <2>1, FinEnds, FinSame DEF FinIInv
<1> QED
  BY <1>1, <1>2, FinCallStep, FinReadSteps, FinWriteSteps DEF FinHandler

-----------------------------------------------------------------------------
(* What FinanceService says, and that an approval it announces is in the    *)
(* ledger.                                                                  *)
LEMMA FinSays ==
  ASSUME DeskInv, FinIInv, FinNext, said' # Null, said'.type = "EXPENSE_APPROVED"
  PROVE  /\ entries'[said'.about] # Null /\ entries'[said'.about].status = "APPROVED"
         /\ calm => entries'[said'.about].amount = said'.amount
<1>1. PICK s \in Slots : FinHandler(s)
  BY DEF FinNext, FinCall, Open, FinFail, Fail, Throw, Proceed
<1> DEFINE g == frame[s]
           e == g.on
           row == [entries[e] EXCEPT !.status = "APPROVED", !.paid = TRUE]
<1>2. ApproveEntry(s) \/ RejectEntry(s)
  BY <1>1 DEF FinHandler, FindRow, AskFinRole, Authority, CategoryExists, ReadApprover, Next2, Throw, Proceed,
     WriteCategory, InsertEntry, UpdateEntry, DeleteEntry, OnEntry, WritePerDiem, Finish
<1>3. ~RejectEntry(s)
  BY DEF RejectEntry, OnEntry, Notice, Finish, Throw, Proceed
<1>4. /\ g.op = "approveEntry" /\ g.pc = "write" /\ entries[e] # Null
      /\ said' = [type |-> "EXPENSE_APPROVED", about |-> e, amount |-> g.seen]
      /\ entries' = [entries EXCEPT ![e] = row]
  BY <1>2, <1>3 DEF ApproveEntry, OnEntry, Notice, Finish, Throw, Proceed, AtStep
<1>5. said'.about = e /\ said'.amount = g.seen
  BY <1>4
<1>6. e \in Entries /\ (calm => g.seen = entries[e].amount)
  BY <1>4, FinAt DEF FinFirm, FinFresh, Decisions, FinOps, LedgerOps
<1>7. row \in EntryRow /\ row.status = "APPROVED" /\ row.amount = entries[e].amount
  BY <1>4, <1>6 DEF FinIInv, FinTypeOK, EntryRow
<1> HIDE DEF row, g
<1>8. entries'[e] = row
  BY <1>4, <1>6 DEF FinIInv, FinTypeOK
<1> QED
  BY <1>5, <1>6, <1>7, <1>8, EntriesAssumption

-----------------------------------------------------------------------------
(***************************************************************************)
(* Sums. MapThenSumSet takes the elements of a set one by one; what it     *)
(* returns for every finite set follows from strict inclusion being well   *)
(* founded. A sum of natural numbers is then a number of things counted    *)
(* part by part, and the report's sums count the same units of money.      *)
(***************************************************************************)

(* it is the sum of F over each subset of S, taking the elements in the     *)
(* order MapThenSumSet does.                                                *)
AddsUp(it, S, F) ==
  it = [s \in SUBSET S |->
          IF s = {} THEN 0
          ELSE LET x == CHOOSE x \in s : TRUE IN F[x] + it[s \ {x}]]

(* The sum of F over S, as MapThenSumSet computes it.                       *)
SumOf(F, S) == (CHOOSE it : AddsUp(it, S, F))[S]

(* There is one such function at most: where two differ, they differ on a   *)
(* smallest subset, and taking an element from it leaves a smaller one.     *)
LEMMA OneSum ==
  ASSUME NEW S, IsFiniteSet(S), NEW F, NEW f, NEW g, AddsUp(f, S, F), AddsUp(g, S, F)
  PROVE  f[S] = g[S]
<1> DEFINE R == StrictSubsetOrdering(S)
           T == {s \in FiniteSubsetsOf(S) : f[s] # g[s]}
<1>1. SUFFICES ASSUME f[S] # g[S] PROVE FALSE
  OBVIOUS
<1>2. S \in T /\ T \subseteq FiniteSubsetsOf(S)
  BY <1>1 DEF FiniteSubsetsOf
<1>3. IsWellFoundedOn(R, FiniteSubsetsOf(S))
  BY FS_StrictSubsetOrderingWellFounded
<1>4. T # {}
  BY <1>2
<1> HIDE DEF T, R
<1>5. \E s \in T : \A t \in T : <<t, s>> \notin R
  BY <1>2, <1>3, <1>4, WFMin, Zenon
<1>6. PICK s \in T : \A t \in T : <<t, s>> \notin R
  BY <1>5
<1>7. s \in SUBSET S /\ IsFiniteSet(s) /\ f[s] # g[s]
  BY DEF T, FiniteSubsetsOf
<1>8. CASE s = {}
  BY <1>7, <1>8 DEF AddsUp
<1>9. CASE s # {}
  <2> DEFINE x == CHOOSE x \in s : TRUE
             t == s \ {x}
  <2>1. x \in s
    BY <1>9
  <2>2. f[s] = F[x] + f[t] /\ g[s] = F[x] + g[t]
    BY <1>7, <1>9 DEF AddsUp
  <2> HIDE DEF x
  <2>3. t \in SUBSET S /\ IsFiniteSet(t) /\ t \subseteq s /\ t # s
    BY <1>7, <2>1, FS_Subset
  <2>4. <<t, s>> \in R
    BY <1>7, <2>3 DEF R, StrictSubsetOrdering
  <2>5. f[t] = g[t]
    BY <1>6, <2>3, <2>4 DEF T, FiniteSubsetsOf
  <2> QED
    BY <1>7, <2>2, <2>5
<1> QED
  BY <1>8, <1>9

(* So whatever adds up over S is its sum.                                   *)
LEMMA SumIs ==
  ASSUME NEW S, IsFiniteSet(S), NEW F, NEW g, AddsUp(g, S, F)
  PROVE  SumOf(F, S) = g[S]
<1> DEFINE it == CHOOSE it : AddsUp(it, S, F)
<1>1. AddsUp(it, S, F)
  OBVIOUS
<1> HIDE DEF it
<1>2. it[S] = g[S]
  BY <1>1, OneSum
<1> QED
  BY <1>2 DEF SumOf, it

(* The elements of P that part puts in s. *)
Parts(P, part, s) == {p \in P : part[p] \in s}

(* Counting P part by part counts P.                                        *)
LEMMA PartsSum ==
  ASSUME NEW P, IsFiniteSet(P), NEW S, IsFiniteSet(S), NEW part \in [P -> S],
         NEW F, \A x \in S : F[x] = Cardinality(Parts(P, part, {x}))
  PROVE  SumOf(F, S) = Cardinality(P)
<1> DEFINE g == [s \in SUBSET S |-> Cardinality(Parts(P, part, s))]
<1>1. \A s : Parts(P, part, s) \in SUBSET P
  BY DEF Parts
<1>2. \A s : IsFiniteSet(Parts(P, part, s)) /\ Cardinality(Parts(P, part, s)) \in Nat
  BY <1>1, FS_Subset, FS_CardinalityType
<1>3. ASSUME NEW s \in SUBSET S, s # {}, NEW x \in s
      PROVE  g[s] = F[x] + g[s \ {x}]
  <2> DEFINE A == Parts(P, part, {x})
             B == Parts(P, part, s \ {x})
  <2>1. Parts(P, part, s) = A \cup B /\ A \cap B = {}
    BY DEF Parts
  <2>2. IsFiniteSet(A) /\ IsFiniteSet(B) /\ Cardinality(A) \in Nat /\ Cardinality(B) \in Nat
    BY <1>2
  <2> HIDE DEF A, B
  <2>3. Cardinality(A \cup B) = Cardinality(A) + Cardinality(B)
    <3>1. Cardinality(A \cup B) = Cardinality(A) + Cardinality(B) - Cardinality(A \cap B)
      BY <2>2, FS_Union
    <3>2. Cardinality(A \cap B) = 0
      BY <2>1, FS_EmptySet
    <3> QED
      BY <2>2, <3>1, <3>2
  <2>4. g[s] = Cardinality(A \cup B) /\ g[s \ {x}] = Cardinality(B) /\ F[x] = Cardinality(A)
    BY <2>1 DEF A, B
  <2> QED
    BY <2>3, <2>4
<1>4. g[{}] = 0
  BY FS_EmptySet DEF Parts
<1>5. g[S] = Cardinality(P)
  BY DEF Parts
<1>6. \A s \in SUBSET S :
        g[s] = IF s = {} THEN 0 ELSE LET x == CHOOSE x \in s : TRUE IN F[x] + g[s \ {x}]
  <2> SUFFICES ASSUME NEW s \in SUBSET S, s # {}
               PROVE  g[s] = LET x == CHOOSE x \in s : TRUE IN F[x] + g[s \ {x}]
    BY <1>4
  <2> DEFINE x == CHOOSE x \in s : TRUE
  <2>1. x \in s
    OBVIOUS
  <2> HIDE DEF x, g
  <2>2. g[s] = F[x] + g[s \ {x}]
    BY <1>3, <2>1
  <2> QED
    BY <2>2 DEF x
<1>7. g = [s \in SUBSET S |-> g[s]]
  OBVIOUS
<1> HIDE DEF g
<1>8. AddsUp(g, S, F)
  BY <1>6, <1>7 DEF AddsUp
<1> QED
  BY <1>5, <1>8, SumIs

-----------------------------------------------------------------------------
(* An entry and every unit of its amount. *)
Units(E) == {p \in E \X Nat : p[2] < entries[p[1]].amount}

(* An entry has as many units as its amount says.                           *)
LEMMA UnitsOfOne ==
  ASSUME NEW e, entries[e].amount \in Nat
  PROVE  IsFiniteSet(Units({e})) /\ Cardinality(Units({e})) = entries[e].amount
<1> DEFINE n == entries[e].amount
<1>1. Units({e}) = {e} \X (0 .. n - 1)
  BY DEF Units
<1>2. IsFiniteSet(0 .. n - 1) /\ Cardinality(0 .. n - 1) = n
  <2>1. n \in Nat
    OBVIOUS
  <2> HIDE DEF n
  <2>2. n - 1 \in Int
    BY <2>1
  <2>3. /\ IsFiniteSet(0 .. n - 1)
        /\ Cardinality(0 .. n - 1) = IF 0 > n - 1 THEN 0 ELSE (n - 1) - 0 + 1
    BY <2>2, FS_Interval
  <2> QED
    BY <2>1, <2>3
<1>3. IsFiniteSet({e}) /\ Cardinality({e}) = 1
  BY FS_Singleton
<1> HIDE DEF n
<1>4. IsFiniteSet({e} \X (0 .. n - 1)) /\ Cardinality({e} \X (0 .. n - 1)) = 1 * n
  <2> DEFINE A == {e}
             B == 0 .. n - 1
  <2>1. IsFiniteSet(A) /\ IsFiniteSet(B) /\ Cardinality(A) = 1 /\ Cardinality(B) = n
    BY <1>2, <1>3
  <2> HIDE DEF A, B
  <2>2. IsFiniteSet(A \X B) /\ Cardinality(A \X B) = Cardinality(A) * Cardinality(B)
    BY <2>1, FS_Product
  <2> QED
    BY <2>1, <2>2 DEF A, B
<1>5. n \in Nat
  BY DEF n
<1> QED
  BY <1>1, <1>4, <1>5 DEF n

(* The units of finitely many entries can be counted.                       *)
LEMMA UnitsFinite ==
  ASSUME NEW E, IsFiniteSet(E), \A e \in E : entries[e].amount \in Nat
  PROVE  IsFiniteSet(Units(E))
<1>1. \A e \in E : IsFiniteSet(Units({e}))
  BY UnitsOfOne
<1> DEFINE U == {Units({e}) : e \in E}
<1>2. IsFiniteSet(U)
  <2> DEFINE f == [e \in E |-> Units({e})]
  <2>1. f \in Surjection(E, U)
    BY DEF Surjection
  <2> HIDE DEF f, U
  <2> QED
    BY <2>1, FS_Surjection
<1>3. Units(E) = UNION U
  BY DEF Units
<1> QED
  BY <1>1, <1>2, <1>3, FS_UNION

(* AmountOf counts the units of the entries.                                *)
LEMMA AmountIs ==
  ASSUME NEW E, IsFiniteSet(E), \A e \in E : entries[e].amount \in Nat
  PROVE  AmountOf(E) = Cardinality(Units(E)) /\ AmountOf(E) \in Nat
<1> DEFINE F    == [e \in E |-> entries[e].amount]
           part == [p \in Units(E) |-> p[1]]
<1>1. AmountOf(E) = SumOf(F, E)
  BY DEF AmountOf, MapThenSumSet, MapThenFoldSet, AddsUp, SumOf
<1>2. part \in [Units(E) -> E]
  BY DEF Units
<1>3. ASSUME NEW e \in E PROVE F[e] = Cardinality(Parts(Units(E), part, {e}))
  <2>1. Parts(Units(E), part, {e}) = Units({e})
    BY DEF Parts, Units
  <2> QED
    BY <2>1, UnitsOfOne
<1>4. IsFiniteSet(Units(E)) /\ Cardinality(Units(E)) \in Nat
  BY UnitsFinite, FS_CardinalityType
<1> HIDE DEF F, part
<1> QED
  BY <1>1, <1>2, <1>3, <1>4, PartsSum

(* A line of the report, and the entries on it. *)
On(h) == {e \in Approved : Heading(e) = h}

(* The line an entry is on.                                                 *)
LineOf(e) == ReportLine(Heading(e))

(* A line's columns.                                                        *)
LEMMA LineFields ==
  ASSUME NEW h
  PROVE  /\ ReportLine(h).name = h /\ ReportLine(h).total = AmountOf(On(h))
         /\ ReportLine(h).count = Cardinality(On(h))
BY DEF ReportLine, On

(* Every approved entry is on one line.                                     *)
LEMMA LinesCount ==
  ASSUME IsFiniteSet(Approved)
  PROVE  /\ IsFiniteSet(Report.lines) /\ Report.lines = {LineOf(e) : e \in Approved}
         /\ MapThenSumSet(LAMBDA l : l.count, Report.lines) = Cardinality(Approved)
<1> DEFINE R    == Report.lines
           F    == [l \in R |-> l.count]
           part == [e \in Approved |-> LineOf(e)]
<1>1. R = {LineOf(e) : e \in Approved}
  BY DEF Report, LineOf
<1>2. part \in [Approved -> R] /\ part \in Surjection(Approved, R)
  BY <1>1 DEF Surjection
<1>3. MapThenSumSet(LAMBDA l : l.count, R) = SumOf(F, R)
  BY DEF MapThenSumSet, MapThenFoldSet, AddsUp, SumOf
<1>4. ASSUME NEW l \in R PROVE F[l] = Cardinality(Parts(Approved, part, {l}))
  <2>1. PICK d \in Approved : l = LineOf(d)
    BY <1>1
  <2>2. \A e \in Approved : LineOf(e) = l <=> Heading(e) = Heading(d)
    BY <2>1, LineFields DEF LineOf
  <2>3. Parts(Approved, part, {l}) = On(Heading(d))
    BY <2>2 DEF Parts, On
  <2>4. l.count = Cardinality(On(Heading(d)))
    BY <2>1, LineFields DEF LineOf
  <2> QED
    BY <2>3, <2>4
<1> HIDE DEF F, part, R
<1>5. IsFiniteSet(R)
  BY <1>2, FS_Surjection
<1>6. SumOf(F, R) = Cardinality(Approved)
  BY <1>2, <1>4, <1>5, PartsSum
<1> QED
  BY <1>1, <1>3, <1>5, <1>6 DEF R

(* Every unit of an approved amount is on one line.                         *)
LEMMA LinesTotal ==
  ASSUME IsFiniteSet(Approved), \A e \in Approved : entries[e].amount \in Nat
  PROVE  MapThenSumSet(LAMBDA l : l.total, Report.lines) = AmountOf(Approved)
<1> DEFINE R    == Report.lines
           F    == [l \in R |-> l.total]
           P    == Units(Approved)
           part == [p \in P |-> LineOf(p[1])]
<1>1. R = {LineOf(e) : e \in Approved} /\ IsFiniteSet(R)
  BY LinesCount
<1>2. part \in [P -> R] /\ IsFiniteSet(P)
  BY <1>1, UnitsFinite DEF Units
<1>3. MapThenSumSet(LAMBDA l : l.total, R) = SumOf(F, R)
  BY DEF MapThenSumSet, MapThenFoldSet, AddsUp, SumOf
<1>4. ASSUME NEW l \in R PROVE F[l] = Cardinality(Parts(P, part, {l}))
  <2>1. PICK d \in Approved : l = LineOf(d)
    BY <1>1
  <2> DEFINE E == On(Heading(d))
  <2>2. \A e \in Approved : LineOf(e) = l <=> Heading(e) = Heading(d)
    BY <2>1, LineFields DEF LineOf
  <2>3. E \in SUBSET Approved /\ \A e \in Approved : e \in E <=> LineOf(e) = l
    BY <2>2 DEF On
  <2>4. l.total = AmountOf(E)
    BY <2>1, LineFields DEF LineOf
  <2> HIDE DEF E
  <2>5. Parts(P, part, {l}) = Units(E)
    BY <2>3 DEF Parts, Units
  <2>6. AmountOf(E) = Cardinality(Units(E))
    BY <2>3, FS_Subset, AmountIs
  <2> QED
    BY <2>4, <2>5, <2>6
<1>5. AmountOf(Approved) = Cardinality(P)
  BY AmountIs
<1> HIDE DEF F, part, R, P
<1>6. SumOf(F, R) = Cardinality(P)
  BY <1>1, <1>2, <1>4, PartsSum
<1> QED
  BY <1>3, <1>5, <1>6 DEF R

(* Income and expense are the approved amounts between them, and so are     *)
(* the totals of the lines.                                                 *)
LEMMA Totals ==
  ASSUME FinTypeOK, IsFiniteSet(Known)
  PROVE  ReportAddsUp
<1> DEFINE I == {e \in Approved : entries[e].type = "INCOME"}
           X == {e \in Approved : entries[e].type = "EXPENSE"}
<1>1. \A e \in Approved : entries[e] \in EntryRow /\ entries[e].amount \in Nat /\ entries[e].type \in Types
  BY AmountsAssumption DEF Approved, Known, FinTypeOK, EntryRow
<1>2. IsFiniteSet(Approved)
  BY FS_Subset DEF Approved
<1>3. Report.income = AmountOf(I) /\ Report.expense = AmountOf(X)
  BY DEF Report
<1>4. I \cup X = Approved /\ I \cap X = {} /\ I \in SUBSET Approved /\ X \in SUBSET Approved
  BY <1>1 DEF Types
<1>5. Units(Approved) = Units(I) \cup Units(X) /\ Units(I) \cap Units(X) = {}
  BY <1>4 DEF Units
<1> HIDE DEF I, X
<1>6. /\ IsFiniteSet(I) /\ IsFiniteSet(X)
      /\ \A e \in I \cup X : entries[e].amount \in Nat
  BY <1>1, <1>2, <1>4, FS_Subset
<1>7. /\ AmountOf(I) = Cardinality(Units(I)) /\ AmountOf(I) \in Nat
      /\ AmountOf(X) = Cardinality(Units(X)) /\ AmountOf(X) \in Nat
      /\ AmountOf(Approved) = Cardinality(Units(Approved))
  BY <1>1, <1>2, <1>6, AmountIs
<1>8. IsFiniteSet(Units(I)) /\ IsFiniteSet(Units(X))
  BY <1>6, UnitsFinite
<1>9. Cardinality(Units(Approved)) = Cardinality(Units(I)) + Cardinality(Units(X))
  <2>1. Cardinality(Units(I) \cup Units(X))
          = Cardinality(Units(I)) + Cardinality(Units(X)) - Cardinality(Units(I) \cap Units(X))
    BY <1>8, FS_Union
  <2>2. Cardinality(Units(I) \cap Units(X)) = 0
    BY <1>5, FS_EmptySet
  <2>3. Cardinality(Units(I)) \in Nat /\ Cardinality(Units(X)) \in Nat
    BY <1>7
  <2> QED
    BY <1>5, <2>1, <2>2, <2>3
<1>10. AmountOf(Approved) = Report.income + Report.expense
  BY <1>3, <1>7, <1>9
<1>11. /\ MapThenSumSet(LAMBDA l : l.total, Report.lines) = AmountOf(Approved)
       /\ MapThenSumSet(LAMBDA l : l.count, Report.lines) = Cardinality(Approved)
  BY <1>1, <1>2, LinesTotal, LinesCount
<1> QED
  BY <1>10, <1>11 DEF ReportAddsUp

-----------------------------------------------------------------------------
(* A step adds one entry at most.                                           *)
LEMMA FinFinite ==
  ASSUME entries \in [Entries -> EntryRow \cup {Null}], IsFiniteSet(Known), FinNext
  PROVE  IsFiniteSet(Known')
<1>1. PICK s \in Slots : FinCall(s) \/ FinHandler(s) \/ FinFail(s)
  BY DEF FinNext
<1>2. SUFFICES \E x : Known' \subseteq Known \cup {x}
  <2>1. PICK x : Known' \subseteq Known \cup {x}
    BY <1>2
  <2> QED
    BY <2>1, FS_AddElement, FS_Subset
<1>3. CASE UNCHANGED entries
  BY <1>3 DEF Known
<1>4. CASE WriteCategory(s)
  BY <1>4 DEF WriteCategory, Known
<1>5. CASE InsertEntry(s)
  <2>1. CASE UNCHANGED entries
    BY <1>3, <2>1
  <2>2. ASSUME NEW x \in Entries, NEW row, entries' = [entries EXCEPT ![x] = row]
        PROVE  Known' \subseteq Known \cup {x}
    BY <2>2 DEF Known
  <2> QED
    BY <1>5, <2>1, <2>2 DEF InsertEntry
<1>6. ASSUME NEW op, NEW row, NEW notice, OnEntry(s, op, row, notice)
      PROVE  Known' \subseteq Known \cup {frame[s].on}
  BY <1>6 DEF OnEntry, Known
<1>7. CASE UpdateEntry(s) \/ DeleteEntry(s) \/ ApproveEntry(s) \/ RejectEntry(s)
  BY <1>6, <1>7 DEF UpdateEntry, DeleteEntry, ApproveEntry, RejectEntry
<1> QED
  BY <1>1, <1>3, <1>4, <1>5, <1>7
  DEF FinHandler, FinCall, FinFail, ledger, FindRow, AskFinRole, CategoryExists, ReadApprover, WritePerDiem

-----------------------------------------------------------------------------
(* Messages, for any number of writers, messages and pages.                 *)
InboxOps == MsgOps \cup NoteOps

BetweenIn(M, u, v) == {m \in MsgIds : M[m] # Null /\ {M[m].from, M[m].to} = {u, v}}

(* What a handler's frame is about, whatever overlaps: a message it marks by *)
(* id is its caller's.                                                      *)
MsgFirm(f, M) ==
  /\ f.who \in Writers
  /\ f.op \in {"send", "getConversationWith"} => f.on \in Writers /\ f.pc # "find"
  /\ f.op = "markRead" => f.on \in MsgIds /\ M[f.on] # Null
  /\ f.op = "markRead" /\ f.pc = "write" => M[f.on].to = f.who

(* The page that is about to be answered, when requests take turns. *)
MsgFresh(f, M) ==
  f.op = "getConversationWith" /\ f.pc = "write" =>
    f.seen = Page(BetweenIn(M, f.who, f.on), f.arg)

MsgFrames ==
  \A s \in Slots : frame[s].op \in InboxOps =>
    MsgFirm(frame[s], messages) /\ (calm => MsgFresh(frame[s], messages))

(* Messages are numbered as they are sent. *)
InOrder == \E k \in 0..MaxMessages : Sent = 1..k

MsgTables == MsgTypeOK /\ InOrder

MsgIInv == MsgTables /\ MsgFrames

(* Idle handlers are nobody's. *)
LEMMA MsgIdle == Idle.op \notin InboxOps
BY DEF Idle, InboxOps, MsgOps, NoteOps

(* Nothing is sent before the first request. *)
LEMMA MsgStart == MsgInit => MsgIInv
<1> SUFFICES ASSUME MsgInit PROVE MsgIInv
  OBVIOUS
<1>1. Sent = {} /\ 0 \in 0..MaxMessages /\ 1..0 = {}
  BY PagesAssumption DEF MsgInit, Sent
<1>2. MsgTables
  BY <1>1 DEF MsgInit, MsgTables, MsgTypeOK, InOrder
<1> QED
  BY <1>2, DeskStart, MsgIdle DEF MsgInit, MsgIInv, MsgFrames

-----------------------------------------------------------------------------
(* Messages stay, and go on to be to whom they were. *)
Delivered == \A m \in MsgIds : messages[m] # Null => messages'[m] # Null /\ messages'[m].to = messages[m].to

(* A step of one of the service's handlers. *)
LEMMA MsgTurn ==
  ASSUME DeskInv, MsgIInv, NEW s \in Slots, NEW f, Turn(InboxOps, s, f), MsgTables', Delivered,
         f.op \in InboxOps => MsgFirm(f, messages') /\ (calm => MsgFresh(f, messages'))
  PROVE  MsgIInv'
<1>1. frame'[s] = f /\ \A t \in Slots \ {s} : frame'[t] = frame[t]
  BY TurnFrames DEF Turn
<1>2. ASSUME NEW t \in Slots, frame'[t].op \in InboxOps
      PROVE  MsgFirm(frame'[t], messages') /\ (calm => MsgFresh(frame'[t], messages'))
  <2>1. CASE t = s
    BY <1>1, <1>2, <2>1
  <2>2. CASE t # s
    <3>1. frame'[t] = frame[t] /\ MsgFirm(frame[t], messages)
      BY <1>1, <1>2, <2>2 DEF MsgIInv, MsgFrames
    <3>2. MsgFirm(frame[t], messages')
      BY <3>1 DEF MsgFirm, Delivered
    <3>3. ~calm
      BY <1>2, <2>2, TurnAlone, MsgIdle
    <3> QED
      BY <3>1, <3>2, <3>3
  <2> QED
    BY <2>1, <2>2
<1>3. calm' = calm
  BY DEF Turn
<1>4. MsgFrames'
  BY <1>2, <1>3 DEF MsgFrames
<1> QED
  BY <1>4 DEF MsgIInv

(* The tables stay as they are. *)
LEMMA MsgSame == MsgTables /\ UNCHANGED inbox => MsgTables' /\ Delivered
BY DEF inbox, MsgTables, MsgTypeOK, InOrder, Sent, Delivered

LEMMA MsgMoves ==
  ASSUME DeskInv, MsgIInv, UNCHANGED inbox, NEW s \in Slots, NEW f, Turn(InboxOps, s, f),
         f.op \in InboxOps => MsgFirm(f, messages) /\ (calm => MsgFresh(f, messages))
  PROVE  MsgIInv' /\ \E g : Turn(InboxOps, s, g)
<1>1. MsgTables' /\ Delivered /\ messages' = messages
  BY MsgSame DEF MsgIInv, inbox
<1> QED
  BY <1>1, MsgTurn

(* The last step of a handler. *)
LEMMA MsgEnds ==
  ASSUME DeskInv, MsgIInv, MsgTables', Delivered, NEW s \in Slots, frame[s].pc # "idle",
         frame[s].op \in InboxOps, Throw(s) \/ Fail(s) \/ \E notice : Finish(s, notice)
  PROVE  MsgIInv' /\ \E f : Turn(InboxOps, s, f)
BY StepsEnd, MsgTurn, MsgIdle

(* Another service's step, and one of no handler. *)
LEMMA MsgOthers ==
  ASSUME DeskInv, MsgIInv, UNCHANGED inbox, NEW O, O \cap InboxOps = {},
         NEW s \in Slots, NEW f, Turn(O, s, f)
  PROVE  MsgIInv'
<1>1. frame'[s] = f /\ \A t \in Slots \ {s} : frame'[t] = frame[t]
  BY TurnFrames DEF Turn
<1>2. messages' = messages /\ calm' = calm /\ f.op \notin InboxOps
  BY MsgIdle DEF inbox, Turn
<1>3. MsgFrames'
  BY <1>1, <1>2 DEF MsgIInv, MsgFrames
<1> QED
  BY <1>3, MsgSame DEF MsgIInv

LEMMA MsgStill == MsgIInv /\ MsgTables' /\ UNCHANGED <<frame, calm, messages>> => MsgIInv'
BY DEF MsgIInv, MsgFrames

-----------------------------------------------------------------------------
(* The frame a request starts with. *)
LEMMA MsgAsked ==
  ASSUME NEW op, NEW pc, NEW u, NEW x
  PROVE  LET h == MsgAsk(op, pc, u, x) IN Whole(h) /\ h.pc = pc /\ h.op = op /\ h.who = u /\ h.on = x
<1> DEFINE h  == MsgAsk(op, pc, u, x)
           g1 == [Idle EXCEPT !.pc = pc]
           g2 == [g1 EXCEPT !.op = op]
           g3 == [g2 EXCEPT !.who = u]
           g4 == [g3 EXCEPT !.on = x]
<1>1. h = g4
  BY IdleFrame DEF Whole, MsgAsk
<1>2. Whole(g1) /\ g1.pc = pc
  BY IdleFrame DEF Whole
<1> HIDE DEF g1
<1>3. Whole(g2) /\ g2.pc = pc /\ g2.op = op
  BY <1>2 DEF Whole
<1> HIDE DEF g2
<1>4. Whole(g3) /\ g3.pc = pc /\ g3.op = op /\ g3.who = u
  BY <1>3 DEF Whole
<1> HIDE DEF g3
<1>5. Whole(g4) /\ g4.pc = pc /\ g4.op = op /\ g4.who = u /\ g4.on = x
  BY <1>4 DEF Whole
<1> HIDE DEF g4, h
<1>6. Whole(h) /\ h.pc = pc /\ h.op = op /\ h.who = u /\ h.on = x
  BY <1>1, <1>5
<1> QED
  BY <1>6 DEF h

(* A client's request. *)
LEMMA MsgCallStep ==
  ASSUME DeskInv, MsgIInv, NEW s \in Slots, MsgCall(s)
  PROVE  MsgIInv' /\ \E f : Turn(InboxOps, s, f)
<1>1. ASSUME NEW f, Open(s, f), Whole(f), f.op \in InboxOps, f.pc \in {"partner", "find", "write"}, f.who \in Writers,
             f.op \in {"send", "getConversationWith"} => f.on \in Writers /\ f.pc = "partner",
             f.op = "markRead" => f.on \in Sent /\ f.pc = "find"
      PROVE  MsgIInv' /\ \E g : Turn(InboxOps, s, g)
  <2>1. Turn(InboxOps, s, f)
    BY <1>1, OpenTurn
  <2>2. MsgFirm(f, messages) /\ MsgFresh(f, messages)
    BY <1>1 DEF MsgFirm, MsgFresh, Sent
  <2> QED
    BY <2>1, <2>2, MsgMoves DEF MsgCall
<1>2. ASSUME NEW op \in InboxOps, NEW pc \in {"partner", "find", "write"}, NEW u \in Writers, NEW x,
             Open(s, MsgAsk(op, pc, u, x)),
             op \in {"send", "getConversationWith"} => x \in Writers /\ pc = "partner",
             op = "markRead" => x \in Sent /\ pc = "find"
      PROVE  MsgIInv' /\ \E g : Turn(InboxOps, s, g)
  <2> DEFINE f == MsgAsk(op, pc, u, x)
  <2>1. Open(s, f) /\ Whole(f) /\ f.pc = pc /\ f.op = op /\ f.who = u /\ f.on = x
    BY <1>2, MsgAsked
  <2> HIDE DEF f
  <2> QED
    BY <1>1, <1>2, <2>1
<1> USE DEF InboxOps, MsgOps, NoteOps
<1>3. ASSUME NEW u \in Writers, NEW v \in Writers, Open(s, MsgAsk("send", "partner", u, v))
      PROVE  MsgIInv' /\ \E f : Turn(InboxOps, s, f)
  BY <1>2, <1>3
<1>4. ASSUME NEW u \in Writers, NEW v \in Writers, NEW page,
             Open(s, [MsgAsk("getConversationWith", "partner", u, v) EXCEPT !.arg = page])
      PROVE  MsgIInv' /\ \E f : Turn(InboxOps, s, f)
  <2> DEFINE g == MsgAsk("getConversationWith", "partner", u, v)
             f == [g EXCEPT !.arg = page]
  <2>1. Whole(g) /\ g.pc = "partner" /\ g.op = "getConversationWith" /\ g.who = u /\ g.on = v
    BY MsgAsked
  <2>2. Open(s, f)
    BY <1>4
  <2> HIDE DEF g
  <2>3. Whole(f) /\ f.pc = "partner" /\ f.op = "getConversationWith" /\ f.who = u /\ f.on = v
    BY <2>1 DEF Whole
  <2> HIDE DEF f
  <2> QED
    BY <1>1, <2>2, <2>3
<1>5. ASSUME NEW u \in Writers, NEW m \in Sent, Open(s, MsgAsk("markRead", "find", u, m))
      PROVE  MsgIInv' /\ \E f : Turn(InboxOps, s, f)
  BY <1>2, <1>5
<1>6. ASSUME NEW u \in Writers, NEW n \in MsgIds, NEW op \in {"markNoticeRead", "removeNotice"},
             Open(s, MsgAsk(op, IF op = "removeNotice" THEN "write" ELSE "find", u, n))
      PROVE  MsgIInv' /\ \E f : Turn(InboxOps, s, f)
  <2> DEFINE pc == IF op = "removeNotice" THEN "write" ELSE "find"
  <2>1. pc \in {"partner", "find", "write"} /\ Open(s, MsgAsk(op, pc, u, n))
    BY <1>6
  <2> HIDE DEF pc
  <2> QED
    BY <1>2, <2>1
<1>7. ASSUME NEW u \in Writers, Open(s, MsgAsk("markAllRead", "write", u, Null))
      PROVE  MsgIInv' /\ \E f : Turn(InboxOps, s, f)
  BY <1>2, <1>7
<1> QED
  BY <1>3, <1>4, <1>5, <1>6, <1>7 DEF MsgCall

(* A handler in progress is sound. *)
LEMMA MsgAt ==
  ASSUME MsgIInv, NEW s \in Slots, frame[s].op \in InboxOps
  PROVE  MsgFirm(frame[s], messages) /\ (calm => MsgFresh(frame[s], messages))
BY DEF MsgIInv, MsgFrames

(* The queries before the write. *)
LEMMA MsgReadSteps ==
  ASSUME DeskInv, MsgIInv, NEW s \in Slots, FindPartner(s) \/ ReadPage(s) \/ FindOwn(s)
  PROVE  MsgIInv' /\ \E f : Turn(InboxOps, s, f)
<1> DEFINE g == frame[s]
<1>1. g.op \in InboxOps /\ g.pc # "idle" /\ UNCHANGED inbox
  BY DEF FindPartner, ReadPage, FindOwn, AtStep, InboxOps, MsgOps
<1>2. MsgFirm(g, messages)
  BY <1>1, MsgAt
<1>3. CASE Throw(s)
  BY <1>1, <1>3, MsgEnds, MsgSame DEF MsgIInv
<1>4. ASSUME NEW pc \in {"page", "write"}, Next2(s, pc),
             g.op = "getConversationWith" => pc = "page",
             g.op = "markRead" /\ pc = "write" => messages[g.on].to = g.who
      PROVE  MsgIInv' /\ \E f : Turn(InboxOps, s, f)
  <2>1. PICK f : Turn(InboxOps, s, f) /\ Onward(g, f) /\ f.pc = pc /\ f.seen = g.seen
    BY <1>1, <1>4, Steps
  <2>2. MsgFirm(f, messages) /\ MsgFresh(f, messages)
    BY <1>2, <1>4, <2>1 DEF MsgFirm, MsgFresh, Onward
  <2> QED
    BY <1>1, <2>1, <2>2, MsgMoves
<1>5. CASE FindPartner(s)
  <2>1. Throw(s) \/ Next2(s, IF g.op = "send" THEN "write" ELSE "page")
    BY <1>5 DEF FindPartner
  <2> QED
    BY <1>3, <1>4, <2>1
<1>6. CASE ReadPage(s)
  <2> DEFINE seen == Page(Between(g.who, g.on), g.arg)
  <2>1. Proceed(s, With(g, "write", seen)) /\ g.op = "getConversationWith"
    BY <1>6 DEF ReadPage, With
  <2>2. seen = Page(BetweenIn(messages, g.who, g.on), g.arg)
    <3>1. Between(g.who, g.on) = BetweenIn(messages, g.who, g.on)
      BY DEF Between, BetweenIn, Sent
    <3> QED
      BY <3>1
  <2>3. PICK pc, x, h : pc = "write" /\ x = seen /\ h = With(g, "write", seen)
    OBVIOUS
  <2> HIDE DEF seen
  <2>4. Proceed(s, h) /\ h = With(g, pc, x) /\ pc # "idle"
    BY <2>1, <2>3
  <2>5. PICK f : Turn(InboxOps, s, f) /\ Onward(g, f) /\ f.pc = pc /\ f.seen = x
    BY <1>1, <2>4, StepsWith
  <2>6. MsgFirm(f, messages) /\ MsgFresh(f, messages)
    BY <1>2, <2>1, <2>2, <2>3, <2>5 DEF MsgFirm, MsgFresh, Onward
  <2> QED
    BY <1>1, <2>5, <2>6, MsgMoves
<1>7. CASE FindOwn(s)
  <2>1. \/ Throw(s)
        \/ Next2(s, "write") /\ g.pc = "find" /\ (g.op = "markRead" => messages[g.on].to = g.who)
    BY <1>7 DEF FindOwn, AtStep
  <2>2. g.pc = "find" => g.op # "getConversationWith"
    BY <1>2 DEF MsgFirm
  <2> QED
    BY <1>3, <1>4, <2>1, <2>2
<1> QED
  BY <1>5, <1>6, <1>7

-----------------------------------------------------------------------------
(* send takes the next number. *)
LEMMA SendStep ==
  ASSUME DeskInv, MsgIInv, NEW s \in Slots, SendMessage(s)
  PROVE  /\ MsgTables' /\ Delivered
         /\ \A m \in Sent : messages'[m] = messages[m]
<1> DEFINE f   == frame[s]
           new == [from |-> f.who, to |-> f.on, isRead |-> FALSE]
<1>1. PICK k \in 0..MaxMessages : Sent = 1..k
  BY DEF MsgIInv, MsgTables, InOrder
<1>2. Cardinality(Sent) = k
  BY <1>1, FS_Interval, PagesAssumption
<1>3. /\ k + 1 \in MsgIds /\ messages' = [messages EXCEPT ![k + 1] = new] /\ firing' = firing \cup {k + 1}
      /\ notices' = notices
  BY <1>2 DEF SendMessage
<1>4. new \in MsgRow /\ new # Null
  <2>1. f.op = "send" /\ f.op \in InboxOps
    BY DEF SendMessage, InboxOps, MsgOps
  <2>2. f.who \in Writers /\ f.on \in Writers
    BY <2>1, MsgAt DEF MsgFirm
  <2> HIDE DEF f
  <2>3. new \in MsgRow
    BY <2>2 DEF MsgRow
  <2> HIDE DEF new
  <2> QED
    BY <2>3, MessagesAssumption
<1> HIDE DEF new
<1>5. messages \in [MsgIds -> MsgRow \cup {Null}] /\ firing \subseteq Sent
  BY DEF MsgIInv, MsgTables, MsgTypeOK
<1>6. k + 1 \notin Sent
  BY <1>1
<1>7. /\ messages'[k + 1] = new /\ \A m \in MsgIds : m # k + 1 => messages'[m] = messages[m]
      /\ messages' \in [MsgIds -> MsgRow \cup {Null}]
  BY <1>3, <1>4, <1>5
<1>8. Sent' = Sent \cup {k + 1}
  BY <1>3, <1>4, <1>7 DEF Sent
<1>9. Sent' = 1..(k + 1) /\ k + 1 \in 0..MaxMessages
  BY <1>1, <1>3, <1>8, PagesAssumption DEF MsgIds
<1>10. MsgTables'
  BY <1>3, <1>5, <1>7, <1>8, <1>9 DEF MsgIInv, MsgTables, MsgTypeOK, InOrder
<1>11. \A m \in Sent : messages'[m] = messages[m]
  BY <1>6, <1>7 DEF Sent
<1> QED
  BY <1>10, <1>11 DEF Delivered, Sent

(* The other writes to messages set isRead. *)
LEMMA ReadRows ==
  ASSUME MsgIInv, UNCHANGED <<notices, firing>>, NEW R \in SUBSET Sent,
         messages' = [m \in MsgIds |-> IF m \in R THEN [messages[m] EXCEPT !.isRead = TRUE] ELSE messages[m]]
  PROVE  MsgTables' /\ Delivered
<1>1. messages \in [MsgIds -> MsgRow \cup {Null}]
  BY DEF MsgIInv, MsgTables, MsgTypeOK
<1>2. ASSUME NEW m \in R
      PROVE  LET row == [messages[m] EXCEPT !.isRead = TRUE] IN
             row \in MsgRow /\ row # Null /\ row.to = messages[m].to
  BY <1>1, MessagesAssumption DEF Sent, MsgRow
<1>3. messages' \in [MsgIds -> MsgRow \cup {Null}] /\ Delivered
  BY <1>1, <1>2 DEF Delivered, Sent
<1>4. Sent' = Sent
  <2>1. \A m \in MsgIds : messages'[m] = Null <=> messages[m] = Null
    BY <1>1, <1>2 DEF Sent
  <2> QED
    BY <2>1 DEF Sent
<1> QED
  BY <1>3, <1>4 DEF MsgIInv, MsgTables, MsgTypeOK, InOrder

LEMMA MsgWriteSteps ==
  ASSUME DeskInv, MsgIInv, NEW s \in Slots,
         SendMessage(s) \/ MarkConversation(s) \/ MarkMessage(s) \/ WriteNotices(s)
  PROVE  MsgIInv' /\ \E f : Turn(InboxOps, s, f)
<1> DEFINE g == frame[s]
<1>1. g.op \in InboxOps /\ g.pc = "write"
  BY DEF SendMessage, MarkConversation, MarkMessage, WriteNotices, AtStep, InboxOps, MsgOps, NoteOps
<1>2. MsgFirm(g, messages) /\ MsgTables
  BY <1>1, MsgAt DEF MsgIInv
<1>3. \E notice : Finish(s, notice)
  BY DEF SendMessage, MarkConversation, MarkMessage, WriteNotices
<1>4. MsgTables' /\ Delivered => MsgIInv' /\ \E f : Turn(InboxOps, s, f)
  BY <1>1, <1>3, MsgEnds
<1>5. CASE SendMessage(s)
  BY <1>4, <1>5, SendStep
<1>6. CASE MarkConversation(s)
  <2>1. Unread(g.who, g.on) \in SUBSET Sent
    BY DEF Unread
  <2> QED
    BY <1>4, <1>6, <2>1, ReadRows DEF MarkConversation
<1>7. CASE MarkMessage(s)
  <2>1. g.on \in Sent
    BY <1>2, <1>7 DEF MarkMessage, MsgFirm, Sent
  <2>2. messages' = [m \in MsgIds |->
                      IF m \in {g.on} THEN [messages[m] EXCEPT !.isRead = TRUE] ELSE messages[m]]
    BY <1>2, <1>7, <2>1 DEF MarkMessage, MsgTables, MsgTypeOK, Sent
  <2>3. {g.on} \in SUBSET Sent
    BY <2>1
  <2> QED
    BY <1>4, <1>7, <2>2, <2>3, ReadRows DEF MarkMessage
<1>8. CASE WriteNotices(s)
  <2>1. messages' = messages /\ firing' = firing
    BY <1>8 DEF WriteNotices
  <2>2. ASSUME NEW n \in MsgIds, notices[n] # Null
        PROVE  [notices[n] EXCEPT !.isRead = TRUE] \in NoteRow /\ [to |-> g.who, isRead |-> TRUE] \in NoteRow
    BY <1>2, <2>2 DEF MsgTables, MsgTypeOK, NoteRow, MsgFirm
  <2>3. notices' \in [MsgIds -> NoteRow \cup {Null}]
    <3>1. CASE notices' = [n \in MsgIds |-> IF n = g.on /\ n \in {x \in MsgIds : notices[x] # Null /\ notices[x].to = g.who}
                                            THEN Null ELSE notices[n]]
      BY <1>2, <3>1 DEF MsgTables, MsgTypeOK
    <3>2. CASE notices' = [n \in MsgIds |-> IF n \in {x \in MsgIds : notices[x] # Null /\ notices[x].to = g.who}
                                            THEN [to |-> g.who, isRead |-> TRUE] ELSE notices[n]]
      BY <1>2, <2>2, <3>2 DEF MsgTables, MsgTypeOK
    <3>3. CASE notices' = [n \in MsgIds |-> IF n = g.on /\ notices[n] # Null
                                            THEN [notices[n] EXCEPT !.isRead = TRUE] ELSE notices[n]]
      BY <1>2, <2>2, <3>3 DEF MsgTables, MsgTypeOK
    <3> QED
      BY <1>8, <3>1, <3>2, <3>3 DEF WriteNotices, NoteOps
  <2>4. MsgTables' /\ Delivered
    BY <1>2, <2>1, <2>3 DEF MsgTables, MsgTypeOK, InOrder, Sent, Delivered
  <2> QED
    BY <1>4, <2>4
<1> QED
  BY <1>5, <1>6, <1>7, <1>8

(* A notification nobody waited for arrives. *)
LEMMA MsgSettles ==
  ASSUME MsgIInv, NEW m \in MsgIds, NoticeSettles(m)
  PROVE  MsgIInv'
<1>1. UNCHANGED <<frame, calm, messages>>
  BY DEF NoticeSettles
<1>2. messages[m] \in MsgRow
  BY DEF NoticeSettles, MsgIInv, MsgTables, MsgTypeOK, Sent
<1>3. [to |-> messages[m].to, isRead |-> FALSE] \in NoteRow
  BY <1>2 DEF MsgRow, NoteRow
<1>4. MsgTables'
  BY <1>1, <1>3 DEF NoticeSettles, MsgIInv, MsgTables, MsgTypeOK, InOrder, Sent
<1> QED
  BY <1>1, <1>4, MsgStill

(* Every step of the two services. *)
LEMMA MsgStep ==
  ASSUME DeskInv, MsgIInv, MsgNext
  PROVE  MsgIInv' /\ ((\E s \in Slots : \E f : Turn(InboxOps, s, f)) \/ UNCHANGED <<frame, calm>>)
<1>1. CASE \E m \in MsgIds : NoticeSettles(m)
  BY <1>1, MsgSettles DEF NoticeSettles
<1>2. ASSUME NEW s \in Slots, MsgCall(s) \/ MsgHandler(s) \/ MsgFail(s)
      PROVE  MsgIInv' /\ \E f : Turn(InboxOps, s, f)
  <2>1. CASE MsgFail(s)
    <3>1. frame[s].op \in InboxOps /\ frame[s].pc # "idle" /\ UNCHANGED inbox /\ Fail(s)
      BY <2>1 DEF MsgFail, InboxOps, Fail, AtStep
    <3> QED
      BY <3>1, MsgEnds, MsgSame DEF MsgIInv
  <2> QED
    BY <1>2, <2>1, MsgCallStep, MsgReadSteps, MsgWriteSteps DEF MsgHandler
<1> QED
  BY <1>1, <1>2 DEF MsgNext

-----------------------------------------------------------------------------
(* What MessagesService says, it says of a message. *)
LEMMA MsgSays == MsgNext => said' = Null \/ said'.type = "MESSAGE_RECEIVED"
<1> SUFFICES ASSUME MsgNext PROVE said' = Null \/ said'.type = "MESSAGE_RECEIVED"
  OBVIOUS
<1>1. CASE \E m \in MsgIds : NoticeSettles(m)
  BY <1>1 DEF NoticeSettles
<1>2. ASSUME NEW s \in Slots, MsgCall(s) PROVE said' = Null
  BY <1>2 DEF MsgCall, Open
<1>3. ASSUME NEW s \in Slots, MsgFail(s) PROVE said' = Null
  BY <1>3 DEF MsgFail, Fail, Throw, Proceed
<1>4. ASSUME NEW s \in Slots, FindPartner(s) \/ ReadPage(s) \/ FindOwn(s) PROVE said' = Null
  BY <1>4 DEF FindPartner, ReadPage, FindOwn, Throw, Next2, Proceed
<1>5. ASSUME NEW s \in Slots, MarkConversation(s) \/ MarkMessage(s) \/ WriteNotices(s) PROVE said' = Null
  BY <1>5 DEF MarkConversation, MarkMessage, WriteNotices, Finish
<1>6. ASSUME NEW s \in Slots, SendMessage(s) PROVE said'.type = "MESSAGE_RECEIVED"
  BY <1>6 DEF SendMessage, Finish
<1> QED
  BY <1>1, <1>2, <1>3, <1>4, <1>5, <1>6 DEF MsgNext, MsgHandler

(* The first page holds a conversation that is no longer than a page. *)
LEMMA FirstPage ==
  ASSUME NEW C \in SUBSET MsgIds, Cardinality(C) <= PageSize, NEW m \in C
  PROVE  m \in Page(C, 1)
<1> DEFINE later == {n \in C : n > m}
<1>1. IsFiniteSet(C)
  <2>1. IsFiniteSet(1..MaxMessages)
    <3>1. 1 \in Int /\ MaxMessages \in Int
      BY PagesAssumption
    <3> QED
      BY <3>1, FS_Interval
  <2> QED
    BY <2>1, FS_Subset DEF MsgIds
<1>2. later \subseteq C /\ later # C
  BY DEF MsgIds
<1>3. IsFiniteSet(later) /\ Cardinality(later) < Cardinality(C) /\ Cardinality(later) \in Nat
      /\ Cardinality(C) \in Nat
  BY <1>1, <1>2, FS_Subset, FS_CardinalityType
<1>4. Cardinality(later) >= (1 - 1) * PageSize /\ Cardinality(later) < 1 * PageSize
  BY <1>3, PagesAssumption
<1> QED
  BY <1>4 DEF Page

(* A message turns read by a request of its addressee. *)
LEMMA MsgRead ==
  ASSUME DeskInv, MsgIInv, MsgNext, NEW m \in Sent, messages'[m].isRead, ~messages[m].isRead
  PROVE  \E s \in Slots :
           /\ frame[s].who = messages[m].to
           /\ \/ frame[s].op = "markRead" /\ frame[s].on = m
              \/ /\ frame[s].op = "getConversationWith" /\ frame[s].on = messages[m].from
                 /\ calm /\ frame[s].arg = 1
                      /\ Cardinality(Between(frame[s].who, frame[s].on)) <= PageSize
                    => m \in frame[s].seen
<1>1. PICK s \in Slots : SendMessage(s) \/ MarkConversation(s) \/ MarkMessage(s)
  <2>1. messages' # messages
    OBVIOUS
  <2> QED
    BY <2>1 DEF MsgNext, NoticeSettles, MsgCall, MsgFail, MsgHandler, FindPartner, ReadPage, FindOwn, WriteNotices,
       inbox
<1> DEFINE g == frame[s]
<1>2. ~SendMessage(s)
  BY SendStep
<1>3. g.op \in InboxOps /\ g.pc = "write"
  BY <1>1, <1>2 DEF MarkConversation, MarkMessage, AtStep, InboxOps, MsgOps
<1>4. MsgFirm(g, messages) /\ (calm => MsgFresh(g, messages))
  BY <1>3, MsgAt
<1>5. m \in MsgIds /\ messages \in [MsgIds -> MsgRow \cup {Null}]
  BY DEF Sent, MsgIInv, MsgTables, MsgTypeOK
<1>6. CASE MarkMessage(s)
  <2>1. g.op = "markRead" /\ g.on = m
    BY <1>5, <1>6 DEF MarkMessage
  <2> QED
    BY <1>3, <1>4, <2>1 DEF MsgFirm
<1>7. CASE MarkConversation(s)
  <2>1. g.op = "getConversationWith" /\ m \in Unread(g.who, g.on)
    BY <1>5, <1>7 DEF MarkConversation
  <2>2. g.who = messages[m].to /\ g.on = messages[m].from
    BY <2>1 DEF Unread
  <2>3. ASSUME calm, g.arg = 1, Cardinality(Between(g.who, g.on)) <= PageSize PROVE m \in g.seen
    <3>1. Between(g.who, g.on) = BetweenIn(messages, g.who, g.on)
      BY DEF Between, BetweenIn, Sent
    <3>2. g.seen = Page(Between(g.who, g.on), 1)
      BY <1>3, <1>4, <2>1, <2>3, <3>1 DEF MsgFresh
    <3>3. Between(g.who, g.on) \in SUBSET MsgIds /\ m \in Between(g.who, g.on)
      BY <2>2 DEF Between, Sent
    <3> QED
      BY <2>3, <3>2, <3>3, FirstPage
  <2> QED
    BY <2>1, <2>2, <2>3
<1> QED
  BY <1>1, <1>2, <1>6, <1>7

-----------------------------------------------------------------------------
(* Accounts, for any number of addresses and handlers: however registrations *)
(* race and answers are lost, an address is welcomed once, and what a client *)
(* is told of an account is true.                                           *)

(* A handler that still has to pass on this answer of Keycloak's. *)
Told(f, status) == f.op \in AuthOps /\ f.pc = "created" /\ f.seen = status

AuthFrames ==
  \A s \in Slots : frame[s].op \in AuthOps =>
    /\ frame[s].on \in Emails
    /\ frame[s].pc = "created" => frame[s].seen \in {201, 409, 400}

(* The answers on their way are true, and at most one of them, for an       *)
(* address nobody was welcomed for, says created.                           *)
AnswersTrue ==
  \A s \in Slots : Told(frame[s], 201) \/ Told(frame[s], 409) => frame[s].on \in realm

CreatedOnce ==
  /\ \A s \in Slots : Told(frame[s], 201) => frame[s].on \notin welcomed
  /\ \A s, t \in Slots :
       Told(frame[s], 201) /\ Told(frame[t], 201) /\ frame[s].on = frame[t].on => s = t

AuthIInv == AuthTypeOK /\ welcomed \subseteq realm /\ AuthFrames /\ AnswersTrue /\ CreatedOnce

(* Idle handlers are nobody's. *)
LEMMA AuthIdle == Idle.op \notin AuthOps
BY DEF Idle, AuthOps

(* Before the first request there are no accounts. *)
LEMMA AuthStart == AuthInit => AuthIInv
BY DeskStart, AuthIdle DEF AuthInit, AuthIInv, AuthTypeOK, AuthFrames, AnswersTrue, CreatedOnce, Told

-----------------------------------------------------------------------------
(* A step of one of the service's handlers: f says created only of an       *)
(* address that had no account.                                             *)
LEMMA AuthTurn ==
  ASSUME DeskInv, AuthIInv, NEW s \in Slots, NEW f, Turn(AuthOps, s, f), AuthTypeOK',
         realm \subseteq realm',
         \/ welcomed' = welcomed
         \/ /\ Told(frame[s], 201) /\ welcomed' = welcomed \cup {frame[s].on}
            /\ f.op \notin AuthOps,
         f.op \in AuthOps => f.on \in Emails /\ (f.pc = "created" => f.seen \in {201, 409, 400}),
         Told(f, 201) => f.on \notin realm /\ f.on \in realm',
         Told(f, 409) => f.on \in realm'
  PROVE  AuthIInv'
<1>1. frame'[s] = f /\ \A t \in Slots : t # s => frame'[t] = frame[t]
  <2>1. frame' = [frame EXCEPT ![s] = f]
    BY DEF Turn
  <2>2. frame'[s] = f /\ \A t \in Slots \ {s} : frame'[t] = frame[t]
    BY <2>1, TurnFrames
  <2> QED
    BY <2>2
<1>2. welcomed' \subseteq realm'
  BY DEF AuthIInv, AnswersTrue
<1>3. AuthFrames'
  BY <1>1 DEF AuthIInv, AuthFrames
<1>4. AnswersTrue'
  <2>1. ASSUME NEW t \in Slots, Told(frame'[t], 201) \/ Told(frame'[t], 409) PROVE frame'[t].on \in realm'
    <3>1. CASE t = s
      BY <1>1, <2>1, <3>1
    <3>2. CASE t # s
      BY <1>1, <2>1, <3>2 DEF AuthIInv, AnswersTrue
    <3> QED
      BY <3>1, <3>2
  <2> QED
    BY <2>1 DEF AnswersTrue, Told
<1>5. ASSUME NEW t \in Slots, Told(frame'[t], 201) PROVE frame'[t].on \notin welcomed'
  <2>1. CASE t = s
    BY <1>1, <1>5, <2>1 DEF AuthIInv, Told
  <2>2. CASE t # s
    BY <1>1, <1>5, <2>2 DEF AuthIInv, CreatedOnce
  <2> QED
    BY <2>1, <2>2
<1>6. ASSUME NEW t \in Slots, NEW u \in Slots, Told(frame'[t], 201), Told(frame'[u], 201),
             frame'[t].on = frame'[u].on
      PROVE  t = u
  <2>1. \A v \in Slots : v # s /\ Told(frame'[v], 201) => frame'[v].on \in realm
    BY <1>1 DEF AuthIInv, AnswersTrue
  <2>2. CASE t # s /\ u # s
    BY <1>1, <1>6, <2>2 DEF AuthIInv, CreatedOnce
  <2>3. CASE t = s \/ u = s
    BY <1>1, <1>6, <2>1, <2>3
  <2> QED
    BY <2>2, <2>3
<1>7. CreatedOnce'
  BY <1>5, <1>6 DEF CreatedOnce, Told
<1> QED
  BY <1>2, <1>3, <1>4, <1>7 DEF AuthIInv

(* One that leaves the realm alone and brings no answer. *)
LEMMA AuthMoves ==
  ASSUME DeskInv, AuthIInv, UNCHANGED identities, NEW s \in Slots, NEW f, Turn(AuthOps, s, f),
         f.op \in AuthOps => f.on \in Emails /\ (f.pc = "created" => f.seen = 400)
  PROVE  AuthIInv' /\ \E g : Turn(AuthOps, s, g)
<1>1. realm' = realm /\ welcomed' = welcomed /\ AuthTypeOK'
  BY DEF identities, AuthIInv, AuthTypeOK
<1>2. ~Told(f, 201) /\ ~Told(f, 409)
  BY DEF Told
<1> QED
  BY <1>1, <1>2, AuthTurn

(* One that ends the handler. *)
LEMMA AuthEnds ==
  ASSUME DeskInv, AuthIInv, UNCHANGED identities, NEW s \in Slots, frame[s].pc # "idle",
         frame[s].op \in AuthOps, Throw(s) \/ Fail(s) \/ \E notice : Finish(s, notice)
  PROVE  AuthIInv' /\ \E f : Turn(AuthOps, s, f)
BY StepsEnd, AuthMoves, AuthIdle

(* Another service's step, and one of no handler. *)
LEMMA AuthOthers ==
  ASSUME DeskInv, AuthIInv, UNCHANGED identities, NEW O, O \cap AuthOps = {},
         NEW s \in Slots, NEW f, Turn(O, s, f)
  PROVE  AuthIInv'
<1>1. frame'[s] = f /\ \A t \in Slots : t # s => frame'[t] = frame[t]
  <2>1. frame' = [frame EXCEPT ![s] = f]
    BY DEF Turn
  <2>2. frame'[s] = f /\ \A t \in Slots \ {s} : frame'[t] = frame[t]
    BY <2>1, TurnFrames
  <2> QED
    BY <2>2
<1>2. realm' = realm /\ welcomed' = welcomed /\ f.op \notin AuthOps
  BY AuthIdle DEF identities, Turn
<1>3. \A t \in Slots : frame'[t].op \in AuthOps => frame'[t] = frame[t]
  BY <1>1, <1>2
<1>4. AuthFrames' /\ AnswersTrue'
  BY <1>2, <1>3 DEF AuthIInv, AuthFrames, AnswersTrue, Told
<1>5. CreatedOnce'
  BY <1>2, <1>3 DEF AuthIInv, CreatedOnce, Told
<1> QED
  BY <1>2, <1>4, <1>5 DEF AuthIInv, AuthTypeOK

LEMMA AuthStill == AuthIInv /\ UNCHANGED <<frame, identities>> => AuthIInv'
BY DEF identities, AuthIInv, AuthTypeOK, AuthFrames, AnswersTrue, CreatedOnce, Told

-----------------------------------------------------------------------------
(* A client's request. *)
LEMMA AuthCallStep ==
  ASSUME DeskInv, AuthIInv, NEW s \in Slots, AuthCall(s)
  PROVE  AuthIInv' /\ \E f : Turn(AuthOps, s, f)
<1>1. PICK e \in Emails, op \in AuthOps, pc \in {"admin", "token"} :
        Open(s, [Idle EXCEPT !.op = op, !.on = e, !.pc = pc])
  BY DEF AuthCall
<1> DEFINE g1 == [Idle EXCEPT !.op = op]
           g2 == [g1 EXCEPT !.on = e]
           f  == [g2 EXCEPT !.pc = pc]
<1>2. Open(s, f)
  BY <1>1, IdleFrame DEF Whole
<1>3. Whole(g1) /\ g1.op = op
  BY IdleFrame DEF Whole
<1> HIDE DEF g1
<1>4. Whole(g2) /\ g2.op = op /\ g2.on = e
  BY <1>3 DEF Whole
<1> HIDE DEF g2
<1>5. Whole(f) /\ f.op = op /\ f.on = e /\ f.pc = pc
  BY <1>4 DEF Whole
<1> HIDE DEF f
<1>6. Turn(AuthOps, s, f)
  BY <1>2, <1>5, OpenTurn
<1>7. UNCHANGED identities /\ f.pc # "created"
  BY <1>5 DEF AuthCall
<1> QED
  BY <1>5, <1>6, <1>7, AuthMoves

(* A handler in progress has its address. *)
LEMMA AuthAt ==
  ASSUME AuthIInv, NEW s \in Slots, frame[s].op \in AuthOps
  PROVE  frame[s].on \in Emails /\ (frame[s].pc = "created" => frame[s].seen \in {201, 409, 400})
BY DEF AuthIInv, AuthFrames

(* The service account's token comes, or not. *)
LEMMA AdminStep ==
  ASSUME DeskInv, AuthIInv, NEW s \in Slots, AdminToken(s)
  PROVE  AuthIInv' /\ \E f : Turn(AuthOps, s, f)
<1>1. frame[s].op \in AuthOps /\ frame[s].pc # "idle" /\ UNCHANGED identities
  BY DEF AdminToken, AtStep, AuthOps
<1>2. CASE \E notice : Finish(s, notice)
  BY <1>1, <1>2, AuthEnds
<1>3. CASE Next2(s, "create")
  <2>1. PICK f : Turn(AuthOps, s, f) /\ Onward(frame[s], f) /\ f.pc = "create"
    <3>1. PICK pc : pc = "create"
      OBVIOUS
    <3> QED
      BY <1>1, <1>3, <3>1, Steps
  <2>2. f.on \in Emails /\ f.pc # "created"
    BY <1>1, <2>1, AuthAt DEF Onward
  <2> QED
    BY <1>1, <2>1, <2>2, AuthMoves
<1> QED
  BY <1>2, <1>3 DEF AdminToken, Answer

(* Keycloak's answer to the POST: 201 for the one that made the account. *)
LEMMA AnswerStep ==
  ASSUME DeskInv, AuthIInv, NEW s \in Slots, KeycloakCreates(s) \/ KeycloakRefuses(s)
  PROVE  AuthIInv' /\ \E f : Turn(AuthOps, s, f)
<1> DEFINE g == frame[s]
<1>1. g.op \in AuthOps /\ g.pc # "idle"
  BY DEF KeycloakCreates, KeycloakRefuses, AtStep, AuthOps
<1>2. g.on \in Emails
  BY <1>1, AuthAt
<1>3. ASSUME NEW status \in {201, 409, 400}, Proceed(s, With(g, "created", status))
      PROVE  \E f : Turn(AuthOps, s, f) /\ f.on = g.on /\ f.pc = "created" /\ f.seen = status
  <2>1. PICK pc, x, h : pc = "created" /\ x = status /\ h = With(g, "created", status)
    OBVIOUS
  <2>2. Proceed(s, h) /\ h = With(g, pc, x) /\ pc # "idle"
    BY <1>3, <2>1
  <2>3. PICK f : Turn(AuthOps, s, f) /\ Onward(g, f) /\ f.pc = pc /\ f.seen = x
    BY <1>1, <2>2, StepsWith
  <2> QED
    BY <2>1, <2>3 DEF Onward
<1>4. CASE KeycloakRefuses(s)
  <2>1. Proceed(s, With(g, "created", 400)) /\ UNCHANGED identities
    BY <1>4 DEF KeycloakRefuses, With
  <2>2. PICK f : Turn(AuthOps, s, f) /\ f.on = g.on /\ f.pc = "created" /\ f.seen = 400
    BY <1>3, <2>1
  <2> QED
    BY <1>2, <2>1, <2>2, AuthMoves
<1>5. CASE KeycloakCreates(s)
  <2> DEFINE status == IF g.on \in realm THEN 409 ELSE 201
  <2>1. /\ Proceed(s, With(g, "created", status)) /\ welcomed' = welcomed
        /\ realm' = realm \cup {g.on}
    BY <1>5 DEF KeycloakCreates, With
  <2>2. status \in {201, 409, 400} /\ (status = 201 => g.on \notin realm)
    OBVIOUS
  <2> HIDE DEF status
  <2>3. PICK f : Turn(AuthOps, s, f) /\ f.on = g.on /\ f.pc = "created" /\ f.seen = status
    BY <1>3, <2>1, <2>2
  <2>4. AuthTypeOK' /\ realm \subseteq realm' /\ f.on \in realm'
    BY <1>2, <2>1, <2>3 DEF AuthIInv, AuthTypeOK
  <2>5. Told(f, 201) => f.on \notin realm
    BY <2>2, <2>3 DEF Told
  <2> QED
    BY <1>2, <2>1, <2>2, <2>3, <2>4, <2>5, AuthTurn
<1> QED
  BY <1>4, <1>5

(* The handler passes the answer on; whoever is welcomed was not before. *)
LEMMA PassedOn ==
  ASSUME DeskInv, AuthIInv, NEW s \in Slots, CreateKeycloakUser(s)
  PROVE  AuthIInv' /\ \E f : Turn(AuthOps, s, f)
<1> DEFINE g == frame[s]
<1>1. g.op \in AuthOps /\ g.pc = "created" /\ \E notice : Finish(s, notice)
  BY DEF CreateKeycloakUser, AtStep, AuthOps, Answer
<1>2. g.on \in Emails /\ g.seen \in {201, 409, 400}
  BY <1>1, AuthAt
<1>3. /\ realm' = realm
      /\ \/ welcomed' = welcomed
         \/ Told(g, 201) /\ welcomed' = welcomed \cup {g.on}
  BY <1>1, <1>2 DEF CreateKeycloakUser, StatusOf, Told
<1>4. AuthTypeOK'
  BY <1>2, <1>3 DEF AuthIInv, AuthTypeOK
<1>5. Turn(AuthOps, s, Idle)
  BY <1>1, StepsEnd
<1>6. ~Told(Idle, 201) /\ ~Told(Idle, 409)
  BY AuthIdle DEF Told
<1> QED
  BY <1>3, <1>4, <1>5, <1>6, AuthIdle, AuthTurn

(* Every step of the service. *)
LEMMA AuthStep ==
  ASSUME DeskInv, AuthIInv, AuthNext
  PROVE  AuthIInv' /\ \E s \in Slots : \E f : Turn(AuthOps, s, f)
<1>1. PICK s \in Slots : AuthCall(s) \/ AuthHandler(s) \/ AuthFail(s)
  BY DEF AuthNext
<1>2. CASE KeycloakUnreachable(s) \/ TokenRequest(s) \/ AuthFail(s)
  <2>1. frame[s].op \in AuthOps /\ frame[s].pc # "idle" /\ UNCHANGED identities
    BY <1>2 DEF KeycloakUnreachable, TokenRequest, AuthFail, Fail, AtStep, AuthOps
  <2>2. Fail(s) \/ \E notice : Finish(s, notice)
    BY <1>2 DEF KeycloakUnreachable, TokenRequest, AuthFail, Answer
  <2> QED
    BY <2>1, <2>2, AuthEnds
<1> QED
  BY <1>1, <1>2, AuthCallStep, AdminStep, AnswerStep, PassedOn DEF AuthHandler

-----------------------------------------------------------------------------
(* What a client is told of an account. *)
LEMMA AuthSays ==
  ASSUME AuthIInv, AuthNext, said' # Null
  PROVE  /\ said'.type = "answer"
         /\ said'.status \in {201, 409} => said'.about \in realm
         /\ said'.status = 201 => said'.about \notin welcomed
<1>1. PICK s \in Slots : AuthHandler(s)
  BY DEF AuthNext, AuthCall, Open, AuthFail, Fail, Throw, Proceed
<1>2. PICK status : Answer(s, status)
  BY <1>1 DEF AuthHandler, AdminToken, Next2, KeycloakCreates, KeycloakRefuses, CreateKeycloakUser,
     KeycloakUnreachable, TokenRequest, Proceed
<1>3. said'.type = "answer" /\ said'.status = status /\ said'.about = frame[s].on
  BY <1>2 DEF Answer, Finish
<1>4. CASE CreateKeycloakUser(s)
  <2>1. said'.status = StatusOf(frame[s].seen) /\ frame[s].pc = "created" /\ frame[s].op \in AuthOps
    BY <1>4 DEF CreateKeycloakUser, Answer, Finish, AtStep, AuthOps
  <2>2. said'.status \in {201, 409} => frame[s].seen = said'.status
    BY <2>1 DEF StatusOf
  <2> QED
    BY <1>3, <2>1, <2>2 DEF AuthIInv, AnswersTrue, CreatedOnce, Told
<1>5. CASE ~CreateKeycloakUser(s)
  <2>1. said'.status \in {200, 401, 503}
    BY <1>1, <1>5 DEF AuthHandler, AdminToken, Next2, KeycloakCreates, KeycloakRefuses,
       KeycloakUnreachable, TokenRequest, Proceed, Answer, Finish
  <2> QED
    BY <1>3, <2>1
<1> QED
  BY <1>4, <1>5

-----------------------------------------------------------------------------
(* The repertoire and the skills, for any number of users and categories.   *)

(* What a handler's frame is about, whatever overlaps: a removal names a row *)
(* there has been; once found, it is its caller's, or nobody's any more.     *)
RepFirm(f, S, n, sg) ==
  /\ f.op = "updateSong" =>
       (f.arg = Null \/ f.arg \in BOOLEAN) /\ (f.pc # "song" => sg # Null)
  /\ f.op = "createSkillCategory" => f.arg \in Skills
  /\ f.op \in {"deleteSkillCategory", "addSkill"} => f.on \in CategoryIds
  /\ f.op \in VenueOps \cup SkillOps => f.who \in Musicians
  /\ f.op = "removeSkill" =>
       /\ f.pc \in {"skill", "write"}
       /\ f.arg \in 1..n
       /\ f.pc = "write" =>
            \A m \in Musicians, c \in CategoryIds : S[m][c] # Null /\ S[m][c] = f.arg => m = f.who

(* When requests take turns the song is still there as it was found. *)
RepFresh(f, sg) == f.op = "updateSong" /\ f.pc # "song" => ~sg.deleted

RepFrames ==
  \A s \in Slots : frame[s].op \in RepOps =>
    RepFirm(frame[s], skills, claimed, song) /\ (calm => RepFresh(frame[s], song))

(* Rows are numbered as they are inserted, so a number is one row's. *)
SkillsNumbered ==
  /\ \A m \in Musicians, c \in CategoryIds : skills[m][c] # Null => skills[m][c] \in 1..claimed
  /\ \A m, n \in Musicians, c, d \in CategoryIds :
       skills[m][c] # Null /\ skills[n][d] # Null /\ skills[m][c] = skills[n][d] => m = n /\ c = d

RepTables == RepTypeOK /\ RepertoireConsistent /\ SkillsNumbered

RepIInv == RepTables /\ RepFrames

(* Idle handlers are nobody's. *)
LEMMA RepIdle == Idle.op \notin RepOps
BY DEF Idle, RepOps, SongOps, CategoryOps, SkillOps, VenueOps

(* Nobody has a skill at first. *)
LEMMA RepStart == RepInit => RepIInv
<1> SUFFICES ASSUME RepInit PROVE RepIInv
  OBVIOUS
<1>1. \A m \in Musicians, c \in CategoryIds : skills[m][c] = Null
  BY DEF RepInit, NoSkills
<1>2. 0 \in 0..MaxSkills
  BY SkillsAssumption
<1>3. RepTypeOK
  BY <1>2 DEF RepInit, RepTypeOK, NoSkills
<1>4. RepertoireConsistent /\ SkillsNumbered
  BY <1>1 DEF RepInit, RepertoireConsistent, SkillsNumbered
<1> QED
  BY <1>3, <1>4, DeskStart, RepIdle DEF RepInit, RepIInv, RepTables, RepFrames

-----------------------------------------------------------------------------
(* The song stays, rows stay until they go, and later rows have later        *)
(* numbers.                                                                 *)
RepOn ==
  /\ song # Null => song' # Null
  /\ claimed' \in Nat /\ claimed <= claimed'
  /\ \A m \in Musicians, c \in CategoryIds :
       skills'[m][c] # Null => skills'[m][c] = skills[m][c] \/ skills'[m][c] \notin 1..claimed

(* A step of one of the services' handlers. *)
LEMMA RepTurn ==
  ASSUME DeskInv, RepIInv, NEW s \in Slots, NEW f, Turn(RepOps, s, f), RepTables', RepOn,
         f.op \in RepOps => RepFirm(f, skills', claimed', song') /\ (calm => RepFresh(f, song'))
  PROVE  RepIInv'
<1>1. frame'[s] = f /\ \A t \in Slots \ {s} : frame'[t] = frame[t]
  BY TurnFrames DEF Turn
<1>2. ASSUME NEW t \in Slots, frame'[t].op \in RepOps
      PROVE  RepFirm(frame'[t], skills', claimed', song') /\ (calm => RepFresh(frame'[t], song'))
  <2>1. CASE t = s
    BY <1>1, <1>2, <2>1
  <2>2. CASE t # s
    <3> DEFINE g == frame[t]
    <3>1. frame'[t] = g /\ RepFirm(g, skills, claimed, song)
      BY <1>1, <1>2, <2>2 DEF RepIInv, RepFrames
    <3>2. claimed \in Nat
      BY SkillsAssumption DEF RepIInv, RepTables, RepTypeOK
    <3> HIDE DEF g
    <3>3. g.op = "removeSkill" => g.arg \in 1..claimed'
      BY <3>1, <3>2 DEF RepFirm, RepOn
    <3>4. g.op = "removeSkill" /\ g.pc = "write" =>
            \A m \in Musicians, c \in CategoryIds : skills'[m][c] # Null /\ skills'[m][c] = g.arg => m = g.who
      BY <3>1 DEF RepFirm, RepOn
    <3>5. RepFirm(g, skills', claimed', song')
      BY <3>1, <3>3, <3>4 DEF RepFirm, RepOn
    <3>6. ~calm
      BY <1>2, <2>2, TurnAlone, RepIdle
    <3> QED
      BY <3>1, <3>5, <3>6
  <2> QED
    BY <2>1, <2>2
<1>3. calm' = calm
  BY DEF Turn
<1>4. RepFrames'
  BY <1>2, <1>3 DEF RepFrames
<1> QED
  BY <1>4 DEF RepIInv

(* The rows stay as they are. *)
LEMMA RepSame == RepTables /\ UNCHANGED <<calm, repertoire>> => RepTables' /\ RepOn
BY SkillsAssumption DEF repertoire, catalogue, RepTables, RepTypeOK, RepertoireConsistent, SkillsNumbered, RepOn

LEMMA RepMoves ==
  ASSUME DeskInv, RepIInv, UNCHANGED repertoire, NEW s \in Slots, NEW f, Turn(RepOps, s, f),
         f.op \in RepOps => RepFirm(f, skills, claimed, song) /\ (calm => RepFresh(f, song))
  PROVE  RepIInv' /\ \E g : Turn(RepOps, s, g)
<1>1. calm' = calm
  BY DEF Turn
<1>2. RepTables' /\ RepOn
  BY <1>1, RepSame DEF RepIInv
<1>3. skills' = skills /\ claimed' = claimed /\ song' = song
  BY DEF repertoire, catalogue
<1> QED
  BY <1>2, <1>3, RepTurn

(* The last step of a handler. *)
LEMMA RepEnds ==
  ASSUME DeskInv, RepIInv, RepTables', RepOn, NEW s \in Slots, frame[s].pc # "idle",
         frame[s].op \in RepOps, Throw(s) \/ Fail(s) \/ \E notice : Finish(s, notice)
  PROVE  RepIInv' /\ \E f : Turn(RepOps, s, f)
BY StepsEnd, RepTurn, RepIdle

(* Another service's step, and one of no handler. *)
LEMMA RepOthers ==
  ASSUME DeskInv, RepIInv, UNCHANGED repertoire, NEW O, O \cap RepOps = {},
         NEW s \in Slots, NEW f, Turn(O, s, f)
  PROVE  RepIInv'
<1>1. frame'[s] = f /\ \A t \in Slots \ {s} : frame'[t] = frame[t]
  BY TurnFrames DEF Turn
<1>2. calm' = calm /\ f.op \notin RepOps
  BY RepIdle DEF Turn
<1>3. skills' = skills /\ claimed' = claimed /\ song' = song
  BY DEF repertoire, catalogue
<1>4. RepFrames'
  BY <1>1, <1>2, <1>3 DEF RepIInv, RepFrames
<1> QED
  BY <1>2, <1>4, RepSame DEF RepIInv

LEMMA RepStill == RepIInv /\ UNCHANGED <<frame, calm, repertoire>> => RepIInv'
BY RepSame DEF RepIInv, RepFrames, repertoire, catalogue

-----------------------------------------------------------------------------
(* The frame a request starts with. *)
LEMMA RepAsked ==
  ASSUME NEW op, NEW pc, NEW x, NEW m, NEW v
  PROVE  LET h == RepAsk(op, pc, x, m, v) IN
         Whole(h) /\ h.pc = pc /\ h.op = op /\ h.on = x /\ h.who = m /\ h.arg = v
<1>1. RepAsk(op, pc, x, m, v) = Request(op, pc, x, m, v)
  BY IdleFrame DEF RepAsk, Request, Whole
<1> QED
  BY <1>1, Requested

(* A client's request. *)
LEMMA RepCallStep ==
  ASSUME DeskInv, RepIInv, NEW s \in Slots, RepCall(s)
  PROVE  RepIInv' /\ \E f : Turn(RepOps, s, f)
<1>1. UNCHANGED repertoire
  BY DEF RepCall
<1>2. ASSUME NEW op \in RepOps, NEW pc \in {"role", "song", "exists", "category", "skill", "venue", "write"},
             NEW x, NEW m, NEW v, Open(s, RepAsk(op, pc, x, m, v)),
             op = "updateSong" => pc = "song" /\ (v = Null \/ v \in BOOLEAN),
             op = "createSkillCategory" => v \in Skills,
             op \in {"deleteSkillCategory", "addSkill"} => x \in CategoryIds,
             op \in VenueOps \cup SkillOps => m \in Musicians,
             op = "removeSkill" => pc = "skill" /\ v \in 1..claimed
      PROVE  RepIInv' /\ \E f : Turn(RepOps, s, f)
  <2> DEFINE f == RepAsk(op, pc, x, m, v)
  <2>1. Open(s, f) /\ Whole(f) /\ f.pc = pc /\ f.op = op /\ f.on = x /\ f.who = m /\ f.arg = v
    BY <1>2, RepAsked
  <2> HIDE DEF f
  <2>2. Turn(RepOps, s, f)
    BY <2>1, OpenTurn
  <2>3. RepFirm(f, skills, claimed, song) /\ RepFresh(f, song)
    BY <1>2, <2>1 DEF RepFirm, RepFresh
  <2> QED
    BY <1>1, <2>2, <2>3, RepMoves
<1> DEFINE Kept == RepIInv' /\ \E f : Turn(RepOps, s, f)
<1> HIDE DEF Kept
<1>3. ASSUME NEW op \in {"createSong", "removeSong"}, NEW pc \in {"role", "song"},
             Open(s, RepAsk(op, pc, Null, Null, Null))
      PROVE  Kept
  <2>1. op \in RepOps /\ op \notin {"updateSong", "createSkillCategory", "deleteSkillCategory"}
        /\ op \notin VenueOps \cup SkillOps
    BY DEF RepOps, SongOps, VenueOps, SkillOps
  <2> QED
    BY <1>2, <1>3, <2>1 DEF Kept, SkillOps
<1>4. ASSUME NEW a \in BOOLEAN \cup {Null}, NEW op, op = "updateSong", Open(s, RepAsk(op, "song", Null, Null, a))
      PROVE  Kept
  <2>1. op \in RepOps /\ op \notin VenueOps \cup SkillOps
    BY <1>4 DEF RepOps, SongOps, VenueOps, SkillOps
  <2> QED
    BY <1>2, <1>4, <2>1 DEF Kept, SkillOps
<1>5. ASSUME NEW n \in Skills, NEW op, op = "createSkillCategory", Open(s, RepAsk(op, "exists", Null, Null, n))
      PROVE  Kept
  <2>1. op \in RepOps /\ op \notin VenueOps \cup SkillOps
    BY <1>5 DEF RepOps, CategoryOps, VenueOps, SkillOps
  <2> QED
    BY <1>2, <1>5, <2>1 DEF Kept, SkillOps
<1>6. ASSUME NEW c \in CategoryIds, NEW op, op = "deleteSkillCategory",
             Open(s, RepAsk(op, "category", c, Null, Null))
      PROVE  Kept
  <2>1. op \in RepOps /\ op \notin VenueOps \cup SkillOps
    BY <1>6 DEF RepOps, CategoryOps, VenueOps, SkillOps
  <2> QED
    BY <1>2, <1>6, <2>1 DEF Kept, SkillOps
<1>7. ASSUME NEW m \in Musicians, NEW c \in CategoryIds, NEW op, op = "addSkill",
             Open(s, RepAsk(op, "category", c, m, Null))
      PROVE  Kept
  <2>1. op \in RepOps
    BY <1>7 DEF RepOps, SkillOps
  <2> QED
    BY <1>2, <1>7, <2>1 DEF Kept
<1>8. ASSUME NEW m \in Musicians, NEW v \in 1..claimed, NEW op, op = "removeSkill",
             Open(s, RepAsk(op, "skill", Null, m, v))
      PROVE  Kept
  <2>1. op \in RepOps
    BY <1>8 DEF RepOps, SkillOps
  <2> QED
    BY <1>2, <1>8, <2>1 DEF Kept
<1>9. ASSUME NEW m \in Musicians, NEW op \in VenueOps, NEW pc \in {"write", "venue"},
             Open(s, RepAsk(op, pc, Null, m, Null))
      PROVE  Kept
  <2>1. op \in RepOps
        /\ op \notin {"updateSong", "createSkillCategory", "deleteSkillCategory", "addSkill", "removeSkill"}
    BY DEF RepOps, VenueOps
  <2> QED
    BY <1>2, <1>9, <2>1 DEF Kept
<1>10. ASSUME NEW m \in Musicians, NEW owner \in Musicians, NEW c \in CategoryIds, skills[owner][c] # Null,
              Open(s, RepAsk("removeSkill", "skill", Null, m, skills[owner][c]))
       PROVE  Kept
  <2>1. PICK v, op : v = skills[owner][c] /\ op = "removeSkill"
    OBVIOUS
  <2>2. v \in 1..claimed /\ Open(s, RepAsk(op, "skill", Null, m, v))
    BY <1>10, <2>1 DEF RepIInv, RepTables, SkillsNumbered
  <2> QED
    BY <1>8, <2>1, <2>2
<1>11. SongCall(s) => Kept
  BY <1>3, <1>4 DEF SongCall
<1>12. CategoryCall(s) => Kept
  BY <1>5, <1>6 DEF CategoryCall
<1>13. SkillCall(s) => Kept
  BY <1>7, <1>10 DEF SkillCall
<1>14. VenueCall(s) => Kept
  BY <1>9 DEF VenueCall, VenueOps
<1> QED
  BY <1>11, <1>12, <1>13, <1>14 DEF RepCall, Kept

(* A handler in progress is sound. *)
LEMMA RepAt ==
  ASSUME RepIInv, NEW s \in Slots, frame[s].op \in RepOps
  PROVE  RepFirm(frame[s], skills, claimed, song) /\ (calm => RepFresh(frame[s], song))
BY DEF RepIInv, RepFrames

(* The reads. *)
LEMMA RepReadSteps ==
  ASSUME DeskInv, RepIInv, NEW s \in Slots,
         \/ FindSong(s) \/ AskSongRole(s) \/ SkillCategoryExists(s) \/ FindCategory(s)
         \/ FindOwnSkill(s) \/ FindSkill(s) \/ FindVenue(s)
  PROVE  RepIInv' /\ \E f : Turn(RepOps, s, f)
<1> DEFINE g == frame[s]
<1>1. /\ g.op \in RepOps /\ UNCHANGED repertoire
      /\ g.pc \in {"song", "role", "exists", "category", "entry", "skill", "venue"}
  BY DEF FindSong, AskSongRole, SkillCategoryExists, FindCategory, FindOwnSkill, FindSkill, FindVenue, Reads, AtStep
<1>2. RepFirm(g, skills, claimed, song) /\ (calm => RepFresh(g, song))
  BY <1>1, RepAt
<1>3. CASE Throw(s)
  <2>1. Turn(RepOps, s, Idle)
    BY <1>1, <1>3, StepsEnd
  <2> QED
    BY <1>1, <2>1, RepIdle, RepMoves
<1>4. ASSUME NEW pc \in {"role", "entry", "write"}, Next2(s, pc),
             g.op = "updateSong" => song # Null /\ (calm => ~song.deleted),
             g.op = "removeSkill" =>
               /\ pc = "write"
               /\ \A m \in Musicians, c \in CategoryIds : skills[m][c] # Null /\ skills[m][c] = g.arg => m = g.who
      PROVE  RepIInv' /\ \E f : Turn(RepOps, s, f)
  <2>1. PICK f : Turn(RepOps, s, f) /\ Onward(g, f) /\ f.pc = pc
    BY <1>1, <1>4, Steps
  <2>2. RepFirm(f, skills, claimed, song) /\ (calm => RepFresh(f, song))
    BY <1>2, <1>4, <2>1 DEF RepFirm, RepFresh, Onward
  <2> QED
    BY <1>1, <2>1, <2>2, RepMoves
<1>5. CASE FindSong(s)
  <2>1. g.op # "removeSkill"
    BY <1>2, <1>5 DEF FindSong, Reads, AtStep, RepFirm
  <2> QED
    BY <1>3, <1>4, <1>5, <2>1 DEF FindSong
<1>6. CASE FindSkill(s)
  <2>1. g.op = "removeSkill" => g.who \in Musicians
    BY <1>2 DEF RepFirm, SkillOps
  <2>2. CASE Next2(s, "write") /\ \E c \in Held(g.who) : skills[g.who][c] = g.arg
    <3>1. g.op = "removeSkill" =>
            \A m \in Musicians, c \in CategoryIds : skills[m][c] # Null /\ skills[m][c] = g.arg => m = g.who
      BY <2>1, <2>2 DEF RepIInv, RepTables, SkillsNumbered, Held
    <3>2. g.op = "updateSong" => song # Null /\ (calm => ~song.deleted)
      BY <1>2, <1>6 DEF FindSkill, Reads, AtStep, RepFirm, RepFresh
    <3> QED
      BY <1>4, <2>2, <3>1, <3>2
  <2> QED
    BY <1>3, <1>6, <2>2 DEF FindSkill
<1>7. CASE ~FindSong(s) /\ ~FindSkill(s)
  <2>1. g.pc \notin {"song", "skill", "write"}
    BY <1>7 DEF AskSongRole, SkillCategoryExists, FindCategory, FindOwnSkill, FindVenue, Reads, AtStep
  <2>2. g.op # "removeSkill" /\ (g.op = "updateSong" => song # Null /\ (calm => ~song.deleted))
    BY <1>2, <2>1 DEF RepFirm, RepFresh
  <2>3. Throw(s) \/ \E pc \in {"role", "entry", "write"} : Next2(s, pc)
    BY <1>7 DEF AskSongRole, SkillCategoryExists, FindCategory, FindOwnSkill, FindVenue, Authority
  <2> QED
    BY <1>3, <1>4, <2>2, <2>3
<1> QED
  BY <1>5, <1>6, <1>7

-----------------------------------------------------------------------------
(* The writes of songs. *)
LEMMA SongWrites ==
  ASSUME DeskInv, RepIInv, NEW s \in Slots, CreateSong(s) \/ UpdateSong(s) \/ RemoveSong(s)
  PROVE  RepTables' /\ RepOn
<1> DEFINE g == frame[s]
<1>1. UNCHANGED <<calm, catalogue, venue>> /\ g.pc = "write"
  BY DEF CreateSong, UpdateSong, RemoveSong, WritesRep, AtStep, Finish
<1>2. RepTypeOK /\ RepertoireConsistent /\ SkillsNumbered
  BY DEF RepIInv, RepTables
<1>3. ASSUME song' \in SongRow, calm /\ song'.deleted => ~song'.isActive
      PROVE  RepTables' /\ RepOn
  <2>1. song' # Null
    BY <1>3, SongAssumption
  <2>2. RepTypeOK' /\ RepertoireConsistent' /\ SkillsNumbered'
    BY <1>1, <1>2, <1>3 DEF catalogue, RepTypeOK, RepertoireConsistent, SkillsNumbered
  <2>3. RepOn
    BY <1>1, <1>2, <2>1, SkillsAssumption DEF catalogue, RepTypeOK, RepOn
  <2> QED
    BY <2>2, <2>3 DEF RepTables
<1>4. CASE song' = song
  BY <1>1, <1>4, RepSame DEF RepIInv, repertoire
<1>5. CASE CreateSong(s) /\ song' # song
  <2>1. song' = [isActive |-> TRUE, deleted |-> FALSE]
    BY <1>5 DEF CreateSong
  <2> QED
    BY <1>3, <2>1 DEF SongRow
<1>6. CASE RemoveSong(s)
  <2>1. song' = [isActive |-> FALSE, deleted |-> TRUE]
    BY <1>6 DEF RemoveSong
  <2> QED
    BY <1>3, <2>1 DEF SongRow
<1>7. CASE UpdateSong(s) /\ song' # song
  <2>1. g.op = "updateSong" /\ g.arg # Null /\ song' = [song EXCEPT !.isActive = g.arg]
    BY <1>7 DEF UpdateSong, WritesRep
  <2>2. RepFirm(g, skills, claimed, song) /\ (calm => RepFresh(g, song))
    BY <2>1, RepAt DEF RepOps, SongOps
  <2>3. g.arg \in BOOLEAN /\ song \in SongRow /\ (calm => ~song.deleted)
    BY <1>1, <1>2, <2>1, <2>2 DEF RepFirm, RepFresh, RepTypeOK
  <2> HIDE DEF g
  <2>4. song' \in SongRow /\ (calm => ~song'.deleted)
    BY <2>1, <2>3 DEF SongRow
  <2> QED
    BY <1>3, <2>4
<1> QED
  BY <1>4, <1>5, <1>6, <1>7

(* The writes of the catalogue: a category in use stays. *)
LEMMA CategoryWrites ==
  ASSUME DeskInv, RepIInv, NEW s \in Slots, CreateSkillCategory(s) \/ DeleteSkillCategory(s)
  PROVE  RepTables' /\ RepOn
<1> DEFINE g == frame[s]
<1>1. UNCHANGED <<calm, song, skills, claimed, venue>>
  BY DEF CreateSkillCategory, DeleteSkillCategory, Throw, Proceed, Finish
<1>2. RepTypeOK /\ RepertoireConsistent /\ SkillsNumbered
  BY DEF RepIInv, RepTables
<1>3. RepOn /\ SkillsNumbered'
  BY <1>1, <1>2, SkillsAssumption DEF RepTypeOK, SkillsNumbered, RepOn
<1>4. ASSUME category' \in [CategoryIds -> Skills \cup {Null, "gone"}],
             \A m \in Musicians, c \in CategoryIds : skills[m][c] # Null => category'[c] \in Skills
      PROVE  RepTables' /\ RepOn
  BY <1>1, <1>2, <1>3, <1>4 DEF RepTables, RepTypeOK, RepertoireConsistent
<1>5. CASE category' = category
  BY <1>2, <1>4, <1>5 DEF RepTypeOK, RepertoireConsistent
<1>6. CASE CreateSkillCategory(s) /\ category' # category
  <2>1. /\ g.op = "createSkillCategory"
        /\ \E c \in CategoryIds : category[c] = Null /\ category' = [category EXCEPT ![c] = g.arg]
    BY <1>6 DEF CreateSkillCategory, WritesRep
  <2>2. g.arg \in Skills
    BY <2>1, RepAt DEF RepOps, CategoryOps, RepFirm
  <2> QED
    BY <1>2, <1>4, <2>1, <2>2 DEF RepTypeOK, RepertoireConsistent
<1>7. CASE DeleteSkillCategory(s) /\ category' # category
  <2>1. category' = [category EXCEPT ![g.on] = "gone"] /\ \A m \in Musicians : g.on \notin Held(m)
    BY <1>7 DEF DeleteSkillCategory
  <2>2. \A m \in Musicians, c \in CategoryIds : skills[m][c] # Null => c # g.on
    BY <2>1 DEF Held
  <2> QED
    BY <1>2, <1>4, <2>1, <2>2 DEF RepTypeOK, RepertoireConsistent
<1> QED
  BY <1>5, <1>6, <1>7

(* A skill claimed gets the next number. *)
LEMMA AddWrite ==
  ASSUME DeskInv, RepIInv, NEW s \in Slots, AddSkill(s)
  PROVE  /\ RepTables' /\ RepOn
         /\ \A m \in Musicians, c \in CategoryIds : skills[m][c] # Null => skills'[m][c] = skills[m][c]
<1> DEFINE m0 == frame[s].who
           c0 == frame[s].on
<1>1. UNCHANGED <<calm, song, category, venue>> /\ frame[s].op = "addSkill"
  BY DEF AddSkill, WritesRep, Throw, Proceed, Finish
<1>2. RepTypeOK /\ RepertoireConsistent /\ SkillsNumbered
  BY DEF RepIInv, RepTables
<1>3. CASE UNCHANGED <<skills, claimed>>
  BY <1>1, <1>3, RepSame DEF RepIInv, repertoire, catalogue
<1>4. CASE ~UNCHANGED <<skills, claimed>>
  <2>1. m0 \in Musicians /\ c0 \in CategoryIds
    BY <1>1, RepAt DEF RepOps, SkillOps, RepFirm
  <2>2. /\ c0 \notin Held(m0) /\ category[c0] \in Skills
        /\ claimed < MaxSkills /\ claimed' = claimed + 1
        /\ skills' = [skills EXCEPT ![m0][c0] = claimed']
    BY <1>4 DEF AddSkill
  <2>3. skills[m0][c0] = Null
    BY <2>1, <2>2 DEF Held
  <2>4. /\ claimed \in Nat /\ claimed' \in Nat /\ claimed' \in 1..MaxSkills /\ claimed' \notin 1..claimed
        /\ 1..claimed \subseteq 1..claimed' /\ claimed' \in 0..MaxSkills /\ claimed' \in 1..claimed'
        /\ claimed <= claimed'
    BY <1>2, <2>2, SkillsAssumption DEF RepTypeOK
  <2>5. skills' \in [Musicians -> [CategoryIds -> (1..MaxSkills) \cup {Null}]]
    BY <1>2, <2>2, <2>4 DEF RepTypeOK
  <2>6. \A m \in Musicians, c \in CategoryIds :
          skills'[m][c] = IF m = m0 /\ c = c0 THEN claimed' ELSE skills[m][c]
    BY <1>2, <2>2 DEF RepTypeOK
  <2>7. \A m \in Musicians, c \in CategoryIds : skills[m][c] # Null => skills[m][c] \in 1..claimed
    BY <1>2 DEF SkillsNumbered
  <2>8. \A m \in Musicians, c \in CategoryIds : skills'[m][c] # Null => skills'[m][c] \in 1..claimed'
    BY <2>4, <2>6, <2>7
  <2>9. \A m, n \in Musicians, c, d \in CategoryIds :
          skills'[m][c] # Null /\ skills'[n][d] # Null /\ skills'[m][c] = skills'[n][d] => m = n /\ c = d
    <3>1. \A m, n \in Musicians, c, d \in CategoryIds :
            skills[m][c] # Null /\ skills[n][d] # Null /\ skills[m][c] = skills[n][d] => m = n /\ c = d
      BY <1>2 DEF SkillsNumbered
    <3> QED
      BY <2>4, <2>6, <2>7, <3>1
  <2>10. \A m \in Musicians, c \in CategoryIds : skills'[m][c] # Null => category[c] \in Skills
    BY <1>2, <2>2, <2>6 DEF RepertoireConsistent
  <2>11. RepTables'
    BY <1>1, <1>2, <2>4, <2>5, <2>8, <2>9, <2>10 DEF RepTables, RepTypeOK, RepertoireConsistent, SkillsNumbered
  <2>12. RepOn
    BY <1>1, <2>4, <2>6 DEF RepOn
  <2> QED
    BY <2>3, <2>6, <2>11, <2>12
<1> QED
  BY <1>3, <1>4

(* A skill removed takes its number with it. *)
LEMMA RemoveWrite ==
  ASSUME DeskInv, RepIInv, NEW s \in Slots, RemoveSkill(s)
  PROVE  RepTables' /\ RepOn
<1> DEFINE row == frame[s].arg
<1>1. /\ skills' = [m \in Musicians |->
                     [c \in CategoryIds |-> IF skills[m][c] = row THEN Null ELSE skills[m][c]]]
      /\ UNCHANGED <<calm, song, category, claimed, venue>>
  BY DEF RemoveSkill, Finish
<1>2. RepTypeOK /\ RepertoireConsistent /\ SkillsNumbered
  BY DEF RepIInv, RepTables
<1> HIDE DEF row
<1>3. \A m \in Musicians, c \in CategoryIds : skills'[m][c] # Null => skills'[m][c] = skills[m][c]
  BY <1>1
<1>4. RepTypeOK'
  BY <1>1, <1>2 DEF RepTypeOK
<1>5. RepertoireConsistent' /\ SkillsNumbered'
  BY <1>1, <1>2, <1>3 DEF RepertoireConsistent, SkillsNumbered
<1>6. RepOn
  BY <1>1, <1>2, <1>3, SkillsAssumption DEF RepTypeOK, RepOn
<1> QED
  BY <1>4, <1>5, <1>6 DEF RepTables

(* A venue has an owner from its creation on. *)
LEMMA VenueWrite ==
  ASSUME DeskInv, RepIInv, NEW s \in Slots, WriteVenue(s)
  PROVE  RepTables' /\ RepOn
<1>1. UNCHANGED <<calm, song, catalogue>> /\ venue' \in Musicians \cup {Null}
  <2>1. RepTypeOK
    BY DEF RepIInv, RepTables
  <2>2. frame[s].op \in VenueOps => frame[s].who \in Musicians
    BY RepAt DEF RepOps, RepFirm
  <2> QED
    BY <2>1, <2>2 DEF WriteVenue, WritesRep, VenueOps, RepTypeOK, Finish
<1> QED
  BY <1>1, SkillsAssumption DEF RepIInv, RepTables, catalogue, RepTypeOK, RepertoireConsistent, SkillsNumbered, RepOn

(* Every step of the services. *)
LEMMA RepStep ==
  ASSUME DeskInv, RepIInv, RepNext
  PROVE  RepIInv' /\ \E s \in Slots : \E f : Turn(RepOps, s, f)
<1>1. PICK s \in Slots : RepCall(s) \/ RepHandler(s) \/ RepFail(s)
  BY DEF RepNext
<1>2. CASE RepFail(s)
  <2>1. /\ frame[s].op \in RepOps /\ frame[s].pc # "idle" /\ Fail(s)
        /\ UNCHANGED <<calm, repertoire>>
    BY <1>2 DEF RepFail, Fail, AtStep, Throw, Proceed
  <2> QED
    BY <2>1, RepSame, RepEnds DEF RepIInv
<1>3. CASE \/ CreateSong(s) \/ UpdateSong(s) \/ RemoveSong(s) \/ CreateSkillCategory(s)
           \/ DeleteSkillCategory(s) \/ AddSkill(s) \/ RemoveSkill(s) \/ WriteVenue(s)
  <2>1. frame[s].op \in RepOps /\ frame[s].pc # "idle"
    BY <1>3 DEF CreateSong, UpdateSong, RemoveSong, CreateSkillCategory, DeleteSkillCategory, AddSkill,
       RemoveSkill, WriteVenue, WritesRep, AtStep, RepOps, SongOps, CategoryOps, SkillOps, VenueOps
  <2>2. Throw(s) \/ \E notice : Finish(s, notice)
    BY <1>3 DEF CreateSong, UpdateSong, RemoveSong, CreateSkillCategory, DeleteSkillCategory, AddSkill,
       RemoveSkill, WriteVenue
  <2>3. RepTables' /\ RepOn
    BY <1>3, SongWrites, CategoryWrites, AddWrite, RemoveWrite, VenueWrite
  <2> QED
    BY <2>1, <2>2, <2>3, RepEnds
<1> QED
  BY <1>1, <1>2, <1>3, RepCallStep, RepReadSteps DEF RepHandler

-----------------------------------------------------------------------------
(* The services say nothing. *)
LEMMA RepSays == RepNext => said' = Null
<1> SUFFICES ASSUME NEW s \in Slots, RepCall(s) \/ RepHandler(s) \/ RepFail(s) PROVE said' = Null
  BY DEF RepNext
<1>1. CASE RepCall(s)
  BY <1>1 DEF RepCall, SongCall, CategoryCall, SkillCall, VenueCall, Open
<1>2. CASE RepFail(s)
  BY <1>2 DEF RepFail, Fail, Throw, Proceed
<1>3. CASE RepHandler(s)
  BY <1>3 DEF RepHandler, FindSong, AskSongRole, SkillCategoryExists, FindCategory, FindOwnSkill, FindSkill,
     FindVenue, Authority, Next2, CreateSong, UpdateSong, RemoveSong, CreateSkillCategory, DeleteSkillCategory,
     AddSkill, RemoveSkill, WriteVenue, Throw, Proceed, Finish
<1> QED
  BY <1>1, <1>2, <1>3

(* Of all steps only removeSkill's write takes a skill away. *)
LEMMA SkillGoes ==
  ASSUME DeskInv, RepIInv, RepNext, NEW m \in Musicians, NEW c \in Held(m), skills'[m][c] # skills[m][c]
  PROVE  \E s \in Slots : frame[s].op = "removeSkill" /\ frame[s].who = m
                          /\ frame[s].arg = skills[m][c]
<1>0. c \in CategoryIds /\ skills[m][c] # Null
  BY DEF Held
<1>1. PICK s \in Slots : AddSkill(s) \/ RemoveSkill(s)
  <2>1. PICK s \in Slots : RepCall(s) \/ RepHandler(s) \/ RepFail(s)
    BY DEF RepNext
  <2> QED
    BY <2>1 DEF RepCall, RepHandler, RepFail, FindSong, AskSongRole, SkillCategoryExists, FindCategory,
       FindOwnSkill, FindSkill, FindVenue, CreateSong, UpdateSong, RemoveSong, CreateSkillCategory,
       DeleteSkillCategory, WriteVenue, Reads, repertoire, catalogue
<1>2. ~AddSkill(s)
  BY <1>0, AddWrite
<1>3. /\ frame[s].op = "removeSkill" /\ frame[s].pc = "write"
      /\ skills' = [n \in Musicians |->
           [d \in CategoryIds |-> IF skills[n][d] = frame[s].arg THEN Null ELSE skills[n][d]]]
  BY <1>1, <1>2 DEF RemoveSkill, WritesRep, AtStep
<1>4. skills[m][c] = frame[s].arg
  BY <1>0, <1>3
<1>5. RepFirm(frame[s], skills, claimed, song)
  BY <1>3, RepAt DEF RepOps, SkillOps
<1> QED
  BY <1>0, <1>3, <1>4, <1>5 DEF RepFirm
-----------------------------------------------------------------------------
(* The services together.                                                   *)
WorkIInv == DeskInv /\ InvtIInv /\ FinIInv /\ AgIInv /\ MsgIInv /\ AuthIInv /\ RepIInv

(* A step of a handler of the service with the operations in O, or of none. *)
Acts(O) == UNCHANGED <<frame, calm>> \/ \E s \in Slots : \E f : Turn(O, s, f)

(* No operation belongs to two services. *)
LEMMA OwnOps ==
  /\ InvtOps \cap FinOps = {} /\ InvtOps \cap AgendaOps = {} /\ InvtOps \cap InboxOps = {}
  /\ InvtOps \cap AuthOps = {} /\ InvtOps \cap RepOps = {}
  /\ FinOps \cap AgendaOps = {} /\ FinOps \cap InboxOps = {} /\ FinOps \cap AuthOps = {}
  /\ FinOps \cap RepOps = {}
  /\ AgendaOps \cap InboxOps = {} /\ AgendaOps \cap AuthOps = {} /\ AgendaOps \cap RepOps = {}
  /\ InboxOps \cap AuthOps = {} /\ InboxOps \cap RepOps = {}
  /\ AuthOps \cap RepOps = {}
<1> USE DEF InvtOps, FinOps, LedgerOps, PerDiemOps, AgendaOps, EventOps, RosterOps, ItemOps, VehicleOps, SeatOps,
        PickupOps, InboxOps, MsgOps, NoteOps, AuthOps, RepOps, SongOps, CategoryOps, SkillOps, VenueOps
<1>1. /\ InvtOps \cap FinOps = {} /\ InvtOps \cap AgendaOps = {} /\ InvtOps \cap InboxOps = {}
      /\ InvtOps \cap AuthOps = {} /\ InvtOps \cap RepOps = {}
  OBVIOUS
<1>2. FinOps \cap AgendaOps = {} /\ FinOps \cap InboxOps = {} /\ FinOps \cap AuthOps = {} /\ FinOps \cap RepOps = {}
  OBVIOUS
<1>3. AgendaOps \cap InboxOps = {} /\ AgendaOps \cap AuthOps = {} /\ AgendaOps \cap RepOps = {}
  OBVIOUS
<1>4. InboxOps \cap AuthOps = {} /\ InboxOps \cap RepOps = {} /\ AuthOps \cap RepOps = {}
  OBVIOUS
<1> QED
  BY <1>1, <1>2, <1>3, <1>4

(* What a service's step leaves alone: the desk, and the services whose      *)
(* tables it does not write.                                                *)
LEMMA ActsElsewhere ==
  ASSUME WorkIInv, NEW O, Acts(O)
  PROVE  /\ DeskInv'
         /\ UNCHANGED stock /\ O \cap InvtOps = {} => InvtIInv'
         /\ UNCHANGED ledger /\ O \cap FinOps = {} => FinIInv'
         /\ UNCHANGED agenda /\ O \cap AgendaOps = {} => AgIInv'
         /\ UNCHANGED inbox /\ O \cap InboxOps = {} => MsgIInv'
         /\ UNCHANGED identities /\ O \cap AuthOps = {} => AuthIInv'
         /\ UNCHANGED repertoire /\ O \cap RepOps = {} => RepIInv'
<1>1. DeskInv /\ InvtIInv /\ FinIInv /\ AgIInv /\ MsgIInv /\ AuthIInv /\ RepIInv
  BY DEF WorkIInv
<1>2. CASE UNCHANGED <<frame, calm>>
  <2>1. UNCHANGED inbox => MsgIInv'
    BY <1>1, <1>2, MsgSame, MsgStill DEF MsgIInv, inbox
  <2> QED
    BY <1>1, <1>2, <2>1, DeskStill, InvtStill, FinStill, AgStill, AuthStill, RepStill
<1>3. ASSUME NEW s \in Slots, NEW f, Turn(O, s, f)
      PROVE  /\ DeskInv'
             /\ UNCHANGED stock /\ O \cap InvtOps = {} => InvtIInv'
             /\ UNCHANGED ledger /\ O \cap FinOps = {} => FinIInv'
             /\ UNCHANGED agenda /\ O \cap AgendaOps = {} => AgIInv'
             /\ UNCHANGED inbox /\ O \cap InboxOps = {} => MsgIInv'
             /\ UNCHANGED identities /\ O \cap AuthOps = {} => AuthIInv'
             /\ UNCHANGED repertoire /\ O \cap RepOps = {} => RepIInv'
  BY <1>1, <1>3, TurnKeeps, InvtOthers, FinOthers, AgOthers, MsgOthers, AuthOthers, RepOthers
<1> QED
  BY <1>2, <1>3 DEF Acts

(* Every step of every service. *)
LEMMA WorkStep == WorkIInv /\ [Next]_workVars => WorkIInv'
<1> SUFFICES ASSUME WorkIInv, [Next]_workVars PROVE WorkIInv'
  OBVIOUS
<1>1. DeskInv /\ InvtIInv /\ FinIInv /\ AgIInv /\ MsgIInv /\ AuthIInv /\ RepIInv
  BY DEF WorkIInv
<1>2. CASE InvtNext /\ UNCHANGED <<ledger, agenda, inbox, identities, repertoire>>
  <2>1. InvtIInv' /\ Acts(InvtOps)
    BY <1>1, <1>2, InvtStep DEF Acts
  <2> QED
    BY <1>2, <2>1, ActsElsewhere, OwnOps DEF WorkIInv
<1>3. CASE FinNext /\ UNCHANGED <<stock, agenda, inbox, identities, repertoire>>
  <2>1. FinIInv' /\ Acts(FinOps)
    BY <1>1, <1>3, FinStep DEF Acts
  <2> QED
    BY <1>3, <2>1, ActsElsewhere, OwnOps DEF WorkIInv
<1>4. CASE AgNext /\ UNCHANGED <<stock, ledger, inbox, identities, repertoire>>
  <2>1. AgIInv' /\ Acts(AgendaOps)
    BY <1>1, <1>4, AgStep DEF Acts
  <2> QED
    BY <1>4, <2>1, ActsElsewhere, OwnOps DEF WorkIInv
<1>5. CASE MsgNext /\ UNCHANGED <<stock, ledger, agenda, identities, repertoire>>
  <2>1. MsgIInv' /\ Acts(InboxOps)
    BY <1>1, <1>5, MsgStep DEF Acts
  <2> QED
    BY <1>5, <2>1, ActsElsewhere, OwnOps DEF WorkIInv
<1>6. CASE AuthNext /\ UNCHANGED <<stock, ledger, agenda, inbox, repertoire>>
  <2>1. AuthIInv' /\ Acts(AuthOps)
    BY <1>1, <1>6, AuthStep DEF Acts
  <2> QED
    BY <1>6, <2>1, ActsElsewhere, OwnOps DEF WorkIInv
<1>7. CASE RepNext /\ UNCHANGED <<stock, ledger, agenda, inbox, identities>>
  <2>1. RepIInv' /\ Acts(RepOps)
    BY <1>1, <1>7, RepStep DEF Acts
  <2> QED
    BY <1>7, <2>1, ActsElsewhere, OwnOps DEF WorkIInv
<1>8. CASE UNCHANGED workVars
  <2>1. Acts({}) /\ UNCHANGED <<stock, ledger, agenda, inbox, identities, repertoire>>
    BY <1>8 DEF Acts, workVars, desk
  <2>2. \A O : {} \cap O = {}
    OBVIOUS
  <2> QED
    BY <2>1, <2>2, ActsElsewhere DEF WorkIInv
<1> QED
  BY <1>2, <1>3, <1>4, <1>5, <1>6, <1>7, <1>8 DEF Next

(* The services' tables and frames are sound in every behaviour of the desk. *)
THEOREM WorkInvariance == Spec => []WorkIInv
<1>1. Init => WorkIInv
  <2>1. Init => DeskInit
    BY DEF Init, InvtInit
  <2> QED
    BY <2>1, DeskStart, InvtStart, FinStart, AgStart, MsgStart, AuthStart, RepStart DEF Init, WorkIInv
<1> QED
  BY <1>1, WorkStep, PTL DEF Spec

(* Rows keep their shapes, a flag agrees with its date, nothing refers to a  *)
(* vehicle or a category that has gone, a removed song stays inactive, and a *)
(* return holds an assignment of its own instrument.                         *)
THEOREM ServicesConsistent == Spec => []WorkflowsOK
<1>1. WorkIInv => WorkflowsOK
  BY InvtPart DEF WorkIInv, WorkflowsOK, FinIInv, AgIInv, AgTables, MsgIInv, MsgTables, AuthIInv, RepIInv, RepTables
<1> QED
  BY <1>1, WorkInvariance, PTL

(* Handlers of the inventory are about instruments there are, and the        *)
(* assignment a return has found is of its own instrument.                  *)
THEOREM InventoryHolds == Spec => []InvtInv
<1>1. WorkIInv => InvtInv
  BY InvtPart DEF WorkIInv
<1> QED
  BY <1>1, WorkInvariance, PTL

(* The ledger is finite, whatever its number of rows may reach.              *)
LEMMA LedgerIsFinite == Spec => [](FinTypeOK /\ IsFiniteSet(Known))
<1>1. Init => IsFiniteSet(Known)
  <2>1. Init => Known = {}
    BY DEF Init, FinInit, Known
  <2> QED
    BY <2>1, FS_EmptySet
<1>2. WorkIInv /\ IsFiniteSet(Known) /\ [Next]_workVars => IsFiniteSet(Known)'
  <2> SUFFICES ASSUME WorkIInv, IsFiniteSet(Known), [Next]_workVars PROVE IsFiniteSet(Known)'
    OBVIOUS
  <2>1. FinNext \/ UNCHANGED entries
    BY DEF Next, workVars, ledger
  <2>2. CASE UNCHANGED entries
    BY <2>2 DEF Known
  <2> QED
    BY <2>1, <2>2, FinFinite DEF WorkIInv, FinIInv, FinTypeOK
<1>3. WorkIInv => FinTypeOK
  BY DEF WorkIInv, FinIInv
<1> QED
  BY <1>1, <1>2, <1>3, WorkInvariance, PTL DEF Spec

(* getReport: whatever categories were deleted or share a name, its lines    *)
(* add up to income and expense together, and count every approved entry    *)
(* once.                                                                    *)
THEOREM ReportBalances == Spec => []ReportAddsUp
<1>1. FinTypeOK /\ IsFiniteSet(Known) => ReportAddsUp
  BY Totals
<1> QED
  BY <1>1, LedgerIsFinite, PTL

-----------------------------------------------------------------------------
(* Which service a step is of, and that calm does not change. *)
LEMMA StepOf ==
  ASSUME WorkIInv, [Next]_workVars
  PROVE  /\ calm' = calm
         /\ InvtNext \/ UNCHANGED stock
         /\ AgNext \/ UNCHANGED agenda
         /\ MsgNext \/ UNCHANGED inbox
         /\ RepNext \/ UNCHANGED repertoire
<1>1. InvtNext \/ FinNext \/ AgNext \/ MsgNext \/ AuthNext \/ RepNext => calm' = calm
  <2>1. DeskInv /\ InvtIInv /\ FinIInv /\ AgIInv /\ MsgIInv /\ AuthIInv /\ RepIInv
    BY DEF WorkIInv
  <2>2. \A O : Acts(O) => calm' = calm
    BY DEF Acts, Turn
  <2>3. /\ InvtNext => Acts(InvtOps)
        /\ FinNext => Acts(FinOps)
        /\ AgNext => Acts(AgendaOps)
        /\ MsgNext => Acts(InboxOps)
        /\ AuthNext => Acts(AuthOps)
        /\ RepNext => Acts(RepOps)
    BY <2>1, InvtStep, FinStep, AgStep, MsgStep, AuthStep, RepStep DEF Acts
  <2> QED
    BY <2>2, <2>3
<1>2. UNCHANGED workVars => UNCHANGED <<calm, stock, agenda, inbox, repertoire>>
  BY DEF workVars, desk
<1> QED
  BY <1>1, <1>2 DEF Next

(* What each service says. *)
LEMMA FinSpeaks == FinNext => said' = Null \/ said'.type \in {"EXPENSE_APPROVED", "EXPENSE_REJECTED"}
<1> SUFFICES ASSUME NEW s \in Slots, FinCall(s) \/ FinHandler(s) \/ FinFail(s)
             PROVE  said' = Null \/ said'.type \in {"EXPENSE_APPROVED", "EXPENSE_REJECTED"}
  BY DEF FinNext
<1>1. CASE FinCall(s) \/ FinFail(s)
  BY <1>1 DEF FinCall, Open, FinFail, Fail, Throw, Proceed
<1>2. CASE ApproveEntry(s) \/ RejectEntry(s)
  BY <1>2 DEF ApproveEntry, RejectEntry, OnEntry, Notice, Finish, Throw, Proceed
<1>3. CASE FinHandler(s) /\ ~ApproveEntry(s) /\ ~RejectEntry(s)
  BY <1>3 DEF FinHandler, FindRow, AskFinRole, Authority, CategoryExists, ReadApprover, Next2, Throw, Proceed,
     WriteCategory, InsertEntry, UpdateEntry, DeleteEntry, OnEntry, WritePerDiem, Finish
<1> QED
  BY <1>1, <1>2, <1>3

LEMMA SaidBy ==
  ASSUME WorkIInv, Next, said' # Null
  PROVE  /\ said'.type = "EXPENSE_APPROVED" => FinNext
         /\ said'.type = "answer" => AuthNext
BY InvtSays, FinSpeaks, AgSays, MsgSays, AuthSays, RepSays DEF Next, WorkIInv

-----------------------------------------------------------------------------
(* Whatever overlaps, no write but an update's makes an instrument IN_USE    *)
(* that nobody has; and when requests take turns, none but an update's has  *)
(* an instrument lent twice, or ready to be lent while somebody has it.     *)
THEOREM OnlyUpdatesBelie == Spec => OnlyUpdatesMislead
<1>1. ASSUME WorkIInv, [Next]_workVars
      PROVE  [\A i \in Instruments :
                Accounted(i) /\ ~Accounted(i)' => \E s \in Slots : MisledBy(s, i)]_invtVars
  <2>1. calm' = calm /\ DeskInv /\ InvtIInv /\ (InvtNext \/ UNCHANGED stock)
    BY <1>1, StepOf DEF WorkIInv
  <2>2. CASE InvtNext
    BY <2>1, <2>2, AccountStep
  <2>3. CASE UNCHANGED stock
    BY <2>1, <2>3 DEF stock, Accounted, OpenLoans, Lendable
  <2> QED
    BY <2>1, <2>2, <2>3
<1>2. WorkIInv /\ [Next]_workVars =>
        [\A i \in Instruments :
           Accounted(i) /\ ~Accounted(i)'
           => \E s \in Slots :
                frame[s].op = "update" /\ frame[s].on = i /\ AtStep(s, "write") /\ AtStep(s, "idle")']_invtVars
  BY <1>1 DEF MisledBy
<1> QED
  BY <1>2, WorkInvariance, PTL DEF Spec, OnlyUpdatesMislead

(* When requests take turns, the inventory implements Lending: an instrument *)
(* is lent only while its row says it is to be had, and a lent one is to be *)
(* had again after a return or an update.                                   *)
THEOREM RefinesLending == Spec => ImplementsLending
<1>1. Init => L!Init
  BY LendingStart DEF Init
<1>2. WorkIInv /\ WorkIInv' /\ [Next]_workVars => [calm => [L!Next]_Shelf]_invtVars
  <2> SUFFICES ASSUME WorkIInv, WorkIInv', [Next]_workVars, calm PROVE [L!Next]_Shelf
    OBVIOUS
  <2>1. calm' /\ DeskInv /\ InvtIInv /\ InvtIInv' /\ (InvtNext \/ UNCHANGED stock)
    BY StepOf DEF WorkIInv
  <2>2. CASE InvtNext
    BY <2>1, <2>2, LendingStep
  <2>3. CASE UNCHANGED stock
    BY <2>3 DEF stock, Shelf, OpenLoans, Exists
  <2> QED
    BY <2>1, <2>2, <2>3
<1> QED
  BY <1>1, <1>2, WorkInvariance, PTL DEF Spec, ImplementsLending

(* An answer or a removal reaches the roster or passenger row it was decided *)
(* about, or none.                                                          *)
THEOREM WritesReachTheirRow == Spec => RowWritesHitTheirRow
<1>1. ASSUME WorkIInv, [Next]_workVars
      PROVE  \A u \in People :
               /\ roster[u] # Null /\ roster'[u] # roster[u] =>
                    \E s \in Slots : frame[s].op \in RosterOps /\ frame[s].who = u
                                       /\ frame[s].seen = roster[u].id
               /\ \A v \in Vehicles :
                    seats[v] # Null /\ seats'[v] # Null /\ seats[v][u] # Null
                      /\ seats'[v][u] # seats[v][u] =>
                    \E s \in Slots : frame[s].op = "removePassenger" /\ frame[s].who = u
                                       /\ frame[s].on = v /\ frame[s].seen = seats[v][u]
  <2>1. DeskInv /\ AgIInv /\ (AgNext \/ UNCHANGED agenda)
    BY <1>1, StepOf DEF WorkIInv
  <2>2. CASE AgNext
    BY <2>1, <2>2, RosterChange, SeatChange
  <2>3. CASE UNCHANGED agenda
    BY <2>3 DEF agenda, people, transport
  <2> QED
    BY <2>1, <2>2, <2>3
<1>2. WorkIInv /\ [Next]_workVars =>
        [\A u \in People :
           /\ roster[u] # Null /\ roster'[u] # roster[u] =>
                \E s \in Slots : frame[s].op \in RosterOps /\ frame[s].who = u
                                   /\ frame[s].seen = roster[u].id
           /\ \A v \in Vehicles :
                seats[v] # Null /\ seats'[v] # Null /\ seats[v][u] # Null
                  /\ seats'[v][u] # seats[v][u] =>
                \E s \in Slots : frame[s].op = "removePassenger" /\ frame[s].who = u
                                   /\ frame[s].on = v /\ frame[s].seen = seats[v][u]]_agVars
  BY <1>1
<1> QED
  BY <1>2, WorkInvariance, PTL DEF Spec, RowWritesHitTheirRow

(* When requests take turns, what an event's handler has read is still so    *)
(* when it writes.                                                          *)
THEOREM ReadsHoldAtWrites == Spec => WritesFollowReads
<1>1. ASSUME WorkIInv, WorkIInv', [Next]_workVars, calm
      PROVE  /\ \A s \in Slots, i \in Items :
                  frame[s].op = "toggleComplete" /\ items'[i] # items[i] =>
                    items'[i].isCompleted = ~items[i].isCompleted
             /\ rows' > rows => Live /\ \E s \in Slots :
                  frame[s].who \in members /\ frame'[s] = Idle /\ frame[s] # Idle
             /\ event'.deleted => event'.status = "CANCELLED"
  <2>1. DeskInv /\ AgIInv /\ (AgNext \/ UNCHANGED agenda)
    BY <1>1, StepOf DEF WorkIInv
  <2>2. event'.deleted => event'.status = "CANCELLED"
    BY <1>1, StepOf DEF WorkIInv, AgIInv, AgTables, Deleted
  <2>3. CASE AgNext
    BY <1>1, <2>1, <2>2, <2>3, ToggleTurnsOver, RowsGrow
  <2>4. CASE UNCHANGED agenda
    <3>1. items' = items /\ rows' = rows
      BY <2>4 DEF agenda, people
    <3>2. ~(rows' > rows)
      BY <2>1, <3>1, RowsAssumption DEF AgIInv, AgTables, AgTypeOK
    <3> QED
      BY <2>2, <3>1, <3>2
  <2> QED
    BY <2>1, <2>3, <2>4
<1>2. WorkIInv /\ WorkIInv' /\ [Next]_workVars =>
        [calm =>
           /\ \A s \in Slots, i \in Items :
                frame[s].op = "toggleComplete" /\ items'[i] # items[i] =>
                  items'[i].isCompleted = ~items[i].isCompleted
           /\ rows' > rows => Live /\ \E s \in Slots :
                frame[s].who \in members /\ frame'[s] = Idle /\ frame[s] # Idle
           /\ event'.deleted => event'.status = "CANCELLED"]_agVars
  BY <1>1
<1> QED
  BY <1>2, WorkInvariance, PTL DEF Spec, WritesFollowReads

(* An approval that is announced is of an entry the ledger has, approved,    *)
(* with the amount announced if nothing changed it meanwhile.               *)
THEOREM AnnouncedIsApproved == Spec => NoticeMatchesLedger
<1>1. WorkIInv /\ [Next]_workVars =>
        [said' # Null /\ said'.type = "EXPENSE_APPROVED" =>
           /\ entries'[said'.about] # Null
           /\ entries'[said'.about].status = "APPROVED"
           /\ calm => entries'[said'.about].amount = said'.amount]_finVars
  <2> SUFFICES ASSUME WorkIInv, [Next]_workVars, finVars' # finVars, said' # Null, said'.type = "EXPENSE_APPROVED"
               PROVE  /\ entries'[said'.about] # Null
                      /\ entries'[said'.about].status = "APPROVED"
                      /\ calm => entries'[said'.about].amount = said'.amount
    OBVIOUS
  <2>1. Next
    BY DEF workVars, finVars
  <2> QED
    BY <2>1, SaidBy, FinSays DEF WorkIInv
<1> QED
  BY <1>1, WorkInvariance, PTL DEF Spec, NoticeMatchesLedger

(* A message turns read by its addressee, who opened that conversation or    *)
(* marked that message.                                                     *)
THEOREM OnlyAddresseesRead == Spec => ReadByItsAddressee
<1>1. ASSUME WorkIInv, [Next]_workVars, NEW m \in Sent, messages'[m].isRead, ~messages[m].isRead
      PROVE  \E s \in Slots :
               /\ frame[s].who = messages[m].to
               /\ \/ frame[s].op = "markRead" /\ frame[s].on = m
                  \/ /\ frame[s].op = "getConversationWith" /\ frame[s].on = messages[m].from
                     /\ calm /\ frame[s].arg = 1
                          /\ Cardinality(Between(frame[s].who, frame[s].on)) <= PageSize
                        => m \in frame[s].seen
  <2>1. DeskInv /\ MsgIInv /\ (MsgNext \/ UNCHANGED inbox)
    BY <1>1, StepOf DEF WorkIInv
  <2>2. MsgNext
    BY <1>1, <2>1 DEF inbox
  <2> QED
    BY <1>1, <2>1, <2>2, MsgRead
<1>2. WorkIInv /\ [Next]_workVars =>
        [\A m \in Sent :
           messages'[m].isRead /\ ~messages[m].isRead =>
             \E s \in Slots :
               /\ frame[s].who = messages[m].to
               /\ \/ frame[s].op = "markRead" /\ frame[s].on = m
                  \/ /\ frame[s].op = "getConversationWith" /\ frame[s].on = messages[m].from
                     /\ calm /\ frame[s].arg = 1
                          /\ Cardinality(Between(frame[s].who, frame[s].on)) <= PageSize
                        => m \in frame[s].seen]_msgVars
  BY <1>1
<1> QED
  BY <1>2, WorkInvariance, PTL DEF Spec, ReadByItsAddressee

(* Of all the registrations of an address at most one is answered 201, and   *)
(* 201 and 409 are only said of an account that exists.                     *)
THEOREM WelcomedOnce == Spec => OneWelcomePerAddress
<1>1. WorkIInv /\ [Next]_workVars =>
        [said' # Null /\ said'.type = "answer" =>
           /\ said'.status \in {201, 409} => said'.about \in realm
           /\ said'.status = 201 => said'.about \notin welcomed]_authVars
  <2> SUFFICES ASSUME WorkIInv, [Next]_workVars, authVars' # authVars, said' # Null, said'.type = "answer"
               PROVE  /\ said'.status \in {201, 409} => said'.about \in realm
                      /\ said'.status = 201 => said'.about \notin welcomed
    OBVIOUS
  <2>1. Next
    BY DEF workVars, authVars
  <2> QED
    BY <2>1, SaidBy, AuthSays DEF WorkIInv
<1> QED
  BY <1>1, WorkInvariance, PTL DEF Spec, OneWelcomePerAddress

(* A skill goes only with its owner's request for that very row. *)
THEOREM SkillsStay == Spec => SkillsStayUntilRemoved
<1>1. ASSUME WorkIInv, [Next]_workVars, NEW m \in Musicians, NEW c \in Held(m), skills'[m][c] # skills[m][c]
      PROVE  \E s \in Slots : frame[s].op = "removeSkill" /\ frame[s].who = m
                                /\ frame[s].arg = skills[m][c]
  <2>1. DeskInv /\ RepIInv /\ (RepNext \/ UNCHANGED repertoire)
    BY <1>1, StepOf DEF WorkIInv
  <2>2. RepNext
    BY <1>1, <2>1 DEF repertoire, catalogue
  <2> QED
    BY <1>1, <2>1, <2>2, SkillGoes
<1>2. WorkIInv /\ [Next]_workVars =>
        [\A m \in Musicians : \A c \in Held(m) :
           skills'[m][c] # skills[m][c] =>
             \E s \in Slots : frame[s].op = "removeSkill" /\ frame[s].who = m
                                /\ frame[s].arg = skills[m][c]]_repVars
  BY <1>1
<1> QED
  BY <1>2, WorkInvariance, PTL DEF Spec, SkillsStayUntilRemoved
=============================================================================
