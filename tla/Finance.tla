------------------------------ MODULE Finance ------------------------------
(***************************************************************************)
(* FinanceService: the ledger of an organization, its categories, its per  *)
(* diems and the report over it.                                           *)
(***************************************************************************)
EXTENDS Desk, Naturals, FiniteSets, FiniteSetsExt

CONSTANTS
  Entries,      \* identifiers of finance_entries
  CatNames,     \* names of categories
  Amounts,      \* amounts a client may enter
  MaxEntries,   \* rows the ledger may reach when requests overlap
  PerDiems      \* identifiers of per_diem_payouts

ASSUME AmountsAssumption == Amounts \subseteq Nat /\ MaxEntries \in Nat

LedgerOps ==
  {"createCategory", "deleteCategory", "createEntry", "updateEntry", "deleteEntry",
   "approveEntry", "rejectEntry"}
PerDiemOps == {"createPerDiem", "markPerDiemPaid"}

Types      == {"INCOME", "EXPENSE"}
Categories == [name : CatNames, type : Types]

VARIABLES
  categories,   \* the finance_categories that exist; (name, type) is unique
  entries,      \* entries[e]: the finance_entries row, or Null
  perDiems      \* perDiems[p]: "none", "due" or "paid"

ledger  == <<categories, entries, perDiems>>
finVars == <<desk, ledger>>

(* paid: paidAt is set.  A deleted category created again counts as the     *)
(* same one; no entry refers to it any more, because the delete set their   *)
(* categoryId to null.                                                      *)
EntryRow == [type : Types, amount : Amounts, category : Categories \cup {Null},
             status : {"PENDING", "APPROVED", "REJECTED"}, paid : BOOLEAN]

ASSUME EntriesAssumption == Null \notin EntryRow

Known == {e \in Entries : entries[e] # Null}

FinInit ==
  /\ DeskInit
  /\ categories = {}
  /\ entries = [e \in Entries |-> Null]
  /\ perDiems = [p \in PerDiems |-> "none"]

-----------------------------------------------------------------------------
(* The calls of finance.controller.ts that change something. *)
FinAsk(op, pc, x, v) == [Idle EXCEPT !.pc = pc, !.op = op, !.on = x, !.arg = v]

FinCall(s) ==
  /\ UNCHANGED ledger
  /\ \/ \E c \in Categories : Open(s, FinAsk("createCategory", "role", c, Null))
     \/ \E c \in categories : Open(s, FinAsk("deleteCategory", "find", c, Null))
     \/ \E c \in categories \cup {Null}, a \in Amounts, type \in Types :
          Open(s, FinAsk("createEntry", "role", c, [amount |-> a, type |-> type]))
     \/ \E e \in Known :
          \/ \E a \in Amounts : Open(s, FinAsk("updateEntry", "find", e, a))
          \/ \E op \in {"deleteEntry", "approveEntry", "rejectEntry"} :
               Open(s, FinAsk(op, "find", e, Null))
     \/ Open(s, FinAsk("createPerDiem", "role", Null, Null))
     \/ \E p \in PerDiems :
          perDiems[p] # "none" /\ Open(s, FinAsk("markPerDiemPaid", "find", p, Null))

(* findUnique of the category, the entry or the per diem. *)
FindRow(s) ==
  LET f == frame[s] IN
  /\ AtStep(s, "find") /\ f.op \in LedgerOps \cup PerDiemOps
  /\ UNCHANGED ledger
  /\ CASE f.op = "deleteCategory" ->
            IF f.on \in categories THEN Next2(s, "role") ELSE Throw(s)
       [] f.op = "markPerDiemPaid" -> Next2(s, "role")
       [] OTHER -> IF entries[f.on] = Null THEN Throw(s)
                   ELSE Proceed(s, [f EXCEPT !.pc = "role", !.seen = entries[f.on].amount])

(* The author of an entry may update and delete it without the role. *)
AskFinRole(s) ==
  LET f == frame[s] IN
  /\ AtStep(s, "role") /\ f.op \in LedgerOps \cup PerDiemOps
  /\ UNCHANGED ledger
  /\ Authority(s, IF f.op = "createCategory" THEN "exists"
                  ELSE IF f.op \in {"approveEntry", "rejectEntry"} THEN "approver"
                  ELSE "write")

CategoryExists(s) ==
  LET f == frame[s] IN
  /\ AtStep(s, "exists") /\ f.op = "createCategory"
  /\ UNCHANGED ledger
  /\ IF f.on \in categories THEN Throw(s) ELSE Next2(s, "write")

(* approveEntry and rejectEntry read the approver's name for the notice. *)
ReadApprover(s) ==
  /\ AtStep(s, "approver") /\ frame[s].op \in {"approveEntry", "rejectEntry"}
  /\ UNCHANGED ledger
  /\ Next2(s, "write")

WriteCategory(s) ==
  LET f == frame[s] IN
  /\ AtStep(s, "write")
  /\ UNCHANGED perDiems
  /\ \/ /\ f.op = "createCategory"     \* the unique index refuses a second one
        /\ categories' = categories \cup {f.on}
        /\ UNCHANGED entries
     \/ /\ f.op = "deleteCategory"
        /\ categories' = categories \ {f.on}
        /\ entries' = [e \in Entries |->
             IF e \in Known /\ entries[e].category = f.on
             THEN [entries[e] EXCEPT !.category = Null] ELSE entries[e]]
  /\ Finish(s, Null)

InsertEntry(s) ==
  LET f == frame[s] IN
  /\ AtStep(s, "write") /\ f.op = "createEntry"
  /\ UNCHANGED <<categories, perDiems>>
  /\ IF f.on \in categories \cup {Null}    \* the foreign key
     THEN /\ calm \/ Cardinality(Known) < MaxEntries
          /\ \E e \in Entries \ Known :
               entries' = [entries EXCEPT ![e] =
                 [type |-> f.arg.type, amount |-> f.arg.amount, category |-> f.on,
                  status |-> "PENDING", paid |-> FALSE]]
          /\ Finish(s, Null)
     ELSE UNCHANGED entries /\ Throw(s)

(* update and delete by id reject when the row has gone. *)
OnEntry(s, op, row, notice) ==
  LET f == frame[s] IN
  /\ AtStep(s, "write") /\ f.op = op
  /\ UNCHANGED <<categories, perDiems>>
  /\ IF entries[f.on] = Null THEN UNCHANGED entries /\ Throw(s)
     ELSE entries' = [entries EXCEPT ![f.on] = row] /\ Finish(s, notice)

UpdateEntry(s) ==
  OnEntry(s, "updateEntry", [entries[frame[s].on] EXCEPT !.amount = frame[s].arg], Null)

DeleteEntry(s) == OnEntry(s, "deleteEntry", Null, Null)

Notice(type, s) == [type |-> type, about |-> frame[s].on, amount |-> frame[s].seen]

(* What if the notice did not wait for the update? *)
ApproveUnawaited(s) ==
  LET f == frame[s] IN
  /\ AtStep(s, "write") /\ f.op = "approveEntry"
  /\ entries' = IF entries[f.on] = Null THEN entries
                ELSE [entries EXCEPT ![f.on].status = "APPROVED", ![f.on].paid = TRUE]
  /\ UNCHANGED <<categories, perDiems>>
  /\ Finish(s, Notice("EXPENSE_APPROVED", s))

(* Neither looks at the status: a decision may be taken again or reversed,  *)
(* and a rejection leaves paidAt as it is.                                  *)
ApproveEntry(s) ==
  OnEntry(s, "approveEntry",
          [entries[frame[s].on] EXCEPT !.status = "APPROVED", !.paid = TRUE],
          Notice("EXPENSE_APPROVED", s))

RejectEntry(s) ==
  OnEntry(s, "rejectEntry", [entries[frame[s].on] EXCEPT !.status = "REJECTED"],
          Notice("EXPENSE_REJECTED", s))

WritePerDiem(s) ==
  LET f == frame[s] IN
  /\ AtStep(s, "write")
  /\ UNCHANGED <<categories, entries>>
  /\ \/ /\ f.op = "createPerDiem"
        /\ \E p \in PerDiems :
             perDiems[p] = "none" /\ perDiems' = [perDiems EXCEPT ![p] = "due"]
     \/ /\ f.op = "markPerDiemPaid"
        /\ perDiems' = [perDiems EXCEPT ![f.on] = "paid"]
  /\ Finish(s, Null)

FinHandler(s) ==
  \/ FindRow(s) \/ AskFinRole(s) \/ CategoryExists(s) \/ ReadApprover(s)
  \/ WriteCategory(s) \/ InsertEntry(s)
  \/ UpdateEntry(s) \/ DeleteEntry(s) \/ ApproveEntry(s) \/ RejectEntry(s)
  \/ WritePerDiem(s)

FinFail(s) == frame[s].op \in LedgerOps \cup PerDiemOps /\ Fail(s) /\ UNCHANGED ledger

FinNext == \E s \in Slots : FinCall(s) \/ FinHandler(s) \/ FinFail(s)

FinSpec == FinInit /\ [][FinNext]_finVars

-----------------------------------------------------------------------------
(* getReport: one query for the approved entries, then a loop over them.    *)
(* Categories are grouped by name, entries without one under a heading of   *)
(* their own; a line has the type of the first entry the loop meets.        *)
Approved == {e \in Known : entries[e].status = "APPROVED"}

AmountOf(E) == MapThenSumSet(LAMBDA e : entries[e].amount, E)

Heading(e) == IF entries[e].category = Null THEN Null ELSE entries[e].category.name

(* What if entries without a category were passed over? *)
ReportLineOfCategory(h) ==
  LET E == {e \in Approved : h # Null /\ Heading(e) = h}
  IN  [name |-> h, total |-> AmountOf(E), count |-> Cardinality(E)]

ReportLine(h) ==
  LET E == {e \in Approved : Heading(e) = h}
  IN  [name |-> h, total |-> AmountOf(E), count |-> Cardinality(E)]

Report ==
  [income  |-> AmountOf({e \in Approved : entries[e].type = "INCOME"}),
   expense |-> AmountOf({e \in Approved : entries[e].type = "EXPENSE"}),
   lines   |-> {ReportLine(h) : h \in {Heading(e) : e \in Approved}}]

FinTypeOK ==
  /\ categories \subseteq Categories
  /\ entries \in [Entries -> EntryRow \cup {Null}]
  /\ perDiems \in [PerDiems -> {"none", "due", "paid"}]

(* The report's two totals and its lines are the same money: whatever       *)
(* categories were deleted or share a name, the lines add up to income and  *)
(* expense together, and every approved entry is on exactly one.            *)
ReportAddsUp ==
  /\ MapThenSumSet(LAMBDA l : l.total, Report.lines) = Report.income + Report.expense
  /\ MapThenSumSet(LAMBDA l : l.count, Report.lines) = Cardinality(Approved)

(* What its author is told is approved is what the ledger then holds, when  *)
(* nothing changes the entry between the read and the write; and an entry   *)
(* that is deleted meanwhile is never announced, whatever overlaps.         *)
NoticeMatchesLedger ==
  [][said' # Null /\ said'.type = "EXPENSE_APPROVED" =>
       /\ entries'[said'.about] # Null
       /\ entries'[said'.about].status = "APPROVED"
       /\ calm => entries'[said'.about].amount = said'.amount]_finVars
=============================================================================
