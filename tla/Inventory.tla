----------------------------- MODULE Inventory -----------------------------
(***************************************************************************)
(* InventoryService: the instruments of an organization and who has them.  *)
(*                                                                         *)
(* The route of update declares its body as Partial<CreateInstrumentDto>,  *)
(* a type for which the validation pipe keeps no list of columns, and the  *)
(* service writes every column it is sent but orgId.  An update may        *)
(* therefore set status and isActive to anything, whatever the assignments *)
(* say; no step reads another column it can set.  The primary key and      *)
(* writes nested in the body are left out.                                 *)
(***************************************************************************)
EXTENDS Desk, Naturals, FiniteSets

CONSTANTS
  Instruments,  \* identifiers of instruments
  Holders,      \* users an instrument is assigned to
  MaxLoans      \* rows instrument_assignments may reach

ASSUME LoansAssumption == MaxLoans \in Nat
ASSUME NullAssumption  == Null \notin Instruments \cup Nat

InvtOps == {"create", "update", "retire", "assign", "returnInstrument"}
LoanIds == 1..MaxLoans      \* in the order of assignedAt

VARIABLES
  instruments,  \* instruments[i]: the instruments row
  loans         \* loans[a]: the instrument_assignments row

stock    == <<instruments, loans>>
invtVars == <<desk, stock>>

StatusColumn  == {"AVAILABLE", "IN_USE", "MAINTENANCE", "RETIRED"}
NoInstrument  == [status |-> "none", isActive |-> FALSE]
InstrumentRow == [status : StatusColumn \cup {"none"}, isActive : BOOLEAN]
NoLoan  == [on |-> Null, to |-> Null, returned |-> FALSE]
LoanRow == [on : Instruments \cup {Null}, to : Holders \cup {Null}, returned : BOOLEAN]

Exists(i)    == instruments[i].status # "none"
OpenLoans(i) == {a \in LoanIds : loans[a].on = i /\ ~loans[a].returned}

InvtInit ==
  /\ DeskInit
  /\ \E known \in SUBSET Instruments :
       instruments = [i \in Instruments |->
         IF i \in known THEN [status |-> "AVAILABLE", isActive |-> TRUE] ELSE NoInstrument]
  /\ loans = [a \in LoanIds |-> NoLoan]

-----------------------------------------------------------------------------
(* The calls of inventory.controller.ts that change something. *)
InvtAsk(op, pc, i, u) == [Idle EXCEPT !.pc = pc, !.op = op, !.on = i, !.who = u]

InvtCall(s) ==
  /\ UNCHANGED stock
  /\ \/ Open(s, InvtAsk("create", "role", Null, Null))
     \/ \E i \in Instruments :
          /\ Exists(i)
          /\ \/ \E op \in {"update", "retire", "returnInstrument"} :
                  Open(s, InvtAsk(op, "read", i, Null))
             \/ \E u \in Holders \cup {Null} : Open(s, InvtAsk("assign", "read", i, u))

(* findUnique: an inactive row will not do where the operation asks for an  *)
(* active one; only assign looks at the status as well.                     *)
ReadInstrument(s) ==
  LET f == frame[s] IN
  /\ AtStep(s, "read") /\ f.op \in InvtOps
  /\ UNCHANGED stock
  /\ IF f.op \in {"update", "assign"} /\ ~instruments[f.on].isActive
     THEN Throw(s)
     ELSE Proceed(s, [f EXCEPT !.pc = "role",
                               !.seen = IF f.op = "assign" THEN instruments[f.on].status ELSE Null])

(* What if assign did not look at the status? *)
AskRoleOnly(s) ==
  /\ AtStep(s, "role") /\ frame[s].op \in InvtOps
  /\ UNCHANGED stock
  /\ Authority(s, IF frame[s].op = "returnInstrument" THEN "find" ELSE "write")

(* assign compares the status it read before it asked for the role. *)
AskRole(s) ==
  LET f == frame[s] IN
  /\ AtStep(s, "role") /\ f.op \in InvtOps
  /\ UNCHANGED stock
  /\ \/ Throw(s)
     \/ /\ f.op = "assign" => f.seen \notin {"IN_USE", "MAINTENANCE"}
        /\ Next2(s, IF f.op = "returnInstrument" THEN "find" ELSE "write")

(* findFirst of the open assignments, the latest first. *)
FindAssignment(s) ==
  LET f == frame[s] IN
  /\ AtStep(s, "find") /\ f.op \in InvtOps
  /\ UNCHANGED stock
  /\ \/ OpenLoans(f.on) = {} /\ Throw(s)
     \/ \E a \in OpenLoans(f.on) :
          /\ \A b \in OpenLoans(f.on) : b <= a
          /\ Proceed(s, [f EXCEPT !.pc = "write", !.seen = a])

CreateInstrument(s) ==
  /\ AtStep(s, "write") /\ frame[s].op = "create"
  /\ \E i \in Instruments :
       /\ ~Exists(i)
       /\ instruments' = [instruments EXCEPT ![i] = [status |-> "AVAILABLE", isActive |-> TRUE]]
  /\ UNCHANGED loans
  /\ Finish(s, Null)

(* Whatever the body says of the row. *)
UpdateInstrument(s) ==
  /\ AtStep(s, "write") /\ frame[s].op = "update"
  /\ \E row \in [status : StatusColumn, isActive : BOOLEAN] :
       instruments' = [instruments EXCEPT ![frame[s].on] = row]
  /\ UNCHANGED loans
  /\ Finish(s, Null)

RetireInstrument(s) ==
  /\ AtStep(s, "write") /\ frame[s].op = "retire"
  /\ instruments' = [instruments EXCEPT ![frame[s].on] = [status |-> "RETIRED", isActive |-> FALSE]]
  /\ UNCHANGED loans
  /\ Finish(s, Null)

(* What if the return left the status to a call of its own? *)
ReturnTxForgets(s) ==
  /\ AtStep(s, "write") /\ frame[s].op = "returnInstrument"
  /\ loans' = [loans EXCEPT ![frame[s].seen].returned = TRUE]
  /\ UNCHANGED instruments
  /\ Finish(s, Null)

(* The $transaction of assign. *)
AssignTx(s) ==
  LET f == frame[s] IN
  /\ AtStep(s, "write") /\ f.op = "assign"
  /\ \E a \in LoanIds :
       /\ loans[a] = NoLoan
       /\ \A b \in LoanIds : b < a => loans[b] # NoLoan
       /\ loans' = [loans EXCEPT ![a] = [on |-> f.on, to |-> f.who, returned |-> FALSE]]
  /\ instruments' = [instruments EXCEPT ![f.on].status = "IN_USE"]
  /\ Finish(s, IF f.who = Null THEN Null
               ELSE [type |-> "INSTRUMENT_ASSIGNED", to |-> f.who, about |-> f.on])

(* The $transaction of returnInstrument: the assignment found, by its id.  *)
(* It looks neither at isActive nor at what the status has become.         *)
ReturnTx(s) ==
  LET f == frame[s] IN
  /\ AtStep(s, "write") /\ f.op = "returnInstrument"
  /\ loans' = [loans EXCEPT ![f.seen].returned = TRUE]
  /\ instruments' = [instruments EXCEPT ![f.on].status = "AVAILABLE"]
  /\ Finish(s, Null)

InvtHandler(s) ==
  \/ ReadInstrument(s) \/ AskRole(s) \/ FindAssignment(s)
  \/ CreateInstrument(s) \/ UpdateInstrument(s) \/ RetireInstrument(s)
  \/ AssignTx(s) \/ ReturnTx(s)

InvtFail(s) == frame[s].op \in InvtOps /\ Fail(s) /\ UNCHANGED stock

InvtNext == \E s \in Slots : InvtCall(s) \/ InvtHandler(s) \/ InvtFail(s)

InvtSpec == InvtInit /\ [][InvtNext]_invtVars

-----------------------------------------------------------------------------
InvtTypeOK ==
  /\ instruments \in [Instruments -> InstrumentRow]
  /\ loans \in [LoanIds -> LoanRow]

(* A handler that has found an assignment to return found one of its own    *)
(* instrument; only then does the status it writes belong to the row it     *)
(* closes.                                                                  *)
FoundIsItsOwn ==
  \A s \in Slots :
    frame[s].op = "returnInstrument" /\ AtStep(s, "write") =>
      frame[s].seen \in LoanIds /\ loans[frame[s].seen].on = frame[s].on

(* Handlers about an existing instrument name one. *)
OnInstrument ==
  \A s \in Slots :
    frame[s].op \in {"assign", "returnInstrument", "retire", "update"} =>
      frame[s].on \in Instruments

AssigneesKnown ==
  \A s \in Slots : frame[s].op = "assign" => frame[s].who \in Holders \cup {Null}

(* An assignment is of an instrument there is. *)
LoansOfRows ==
  \A a \in LoanIds : loans[a].on # Null => Exists(loans[a].on)

(* The tables and the handlers about them, whatever overlaps. *)
InvtInv ==
  /\ InvtTypeOK
  /\ OnInstrument
  /\ AssigneesKnown
  /\ LoansOfRows
  /\ FoundIsItsOwn

(* May it be assigned, as far as its row shows? *)
Lendable(i) ==
  instruments[i].isActive /\ instruments[i].status \notin {"IN_USE", "MAINTENANCE"}

(* The row of an instrument agrees with its assignments: IN_USE, it is      *)
(* somebody's; and when requests take turns it is nobody's or one's, and    *)
(* then may not be assigned again.                                          *)
Accounted(i) ==
  /\ instruments[i].status = "IN_USE" => OpenLoans(i) # {}
  /\ calm => /\ \A a, b \in OpenLoans(i) : a = b
             /\ OpenLoans(i) # {} => ~Lendable(i)

(* An update may set a status that the assignments belie, and nothing else  *)
(* does.  Two administrators may assign an instrument at once, return it at *)
(* once, or return it while it is assigned or retired: that never leaves an *)
(* instrument IN_USE with nobody to return it; and while requests take      *)
(* turns, each decides by a row read two calls before its write.            *)
OnlyUpdatesMislead ==
  [][\A i \in Instruments :
       Accounted(i) /\ ~Accounted(i)'
       => \E s \in Slots :
            frame[s].op = "update" /\ frame[s].on = i /\ AtStep(s, "write") /\ AtStep(s, "idle")']_invtVars

(* When requests take turns, the service implements Lending: an instrument  *)
(* is lent only while it is kept and its label allows it, is not lent again *)
(* before it has been taken back or relabelled, and never once it has been  *)
(* retired, although retired instruments do come back.                      *)
Shelf ==
  [i \in Instruments |->
    [loans |-> Cardinality(OpenLoans(i)),
     known |-> Exists(i),
     kept  |-> instruments[i].isActive,
     free  |-> instruments[i].status \notin {"none", "IN_USE", "MAINTENANCE"}]]

L == INSTANCE Lending WITH Things <- Instruments, shelf <- Shelf

ImplementsLending == L!Init /\ [][calm => [L!Next]_Shelf]_invtVars
=============================================================================
