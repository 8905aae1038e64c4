---------------------------- MODULE AgendaProofs ---------------------------
(***************************************************************************)
(* Events and daysheets for any number of people, items, vehicles, rows    *)
(* and handlers, whatever other services' handlers are on the desk: a      *)
(* number names one roster or passenger row for good, a row that a handler *)
(* has found is that of its request or gone, and when requests take turns  *)
(* what a handler has read is still so at its write.                       *)
(* The lemmas on the desk are those of InventoryProofs.                    *)
(***************************************************************************)
EXTENDS Agenda, InventoryProofs

(* The requests that write a roster row they have found, and an item's. *)
Follows    == {"updateRosterMember", "removeRosterMember"}
ItemWrites == {"updateItem", "toggleComplete", "removeItem"}
Adds       == {"addRosterMember", "addPassenger"}

Sits(v, u) == seats[v] # Null /\ seats[v][u] # Null

(* A row that a handler has found is the row of the person, and the vehicle, *)
(* of its request, or nobody's any more.                                    *)
FoundIn(f, entries, places, n) ==
  f.pc = "write" =>
    /\ f.op \in Follows =>
         /\ f.seen \in 1..n
         /\ \A u \in People : entries[u] # Null /\ entries[u].id = f.seen => u = f.who
    /\ f.op = "removePassenger" =>
         /\ f.seen \in 1..n
         /\ \A v \in Vehicles, u \in People :
              places[v] # Null /\ places[v][u] # Null /\ places[v][u] = f.seen =>
                v = f.on /\ u = f.who

(* What a request is about, and the calls it makes. *)
AgAsked(f) ==
  /\ f.op \in RosterOps \cup SeatOps => f.who \in People
  /\ f.op \in SeatOps \cup PickupOps => f.on \in Vehicles
  /\ f.op = "updateEvent" => f.arg \in Statuses
  /\ f.op \in {"updateItem", "upsertFinance"} => f.arg = Null \/ f.arg \in BOOLEAN
  /\ f.op = "updateRosterMember" => f.arg \in BOOLEAN

AgPath(f) ==
  /\ f.op \in RosterOps => f.pc \in {"event", "role", "target", "entry", "write"}
  /\ f.op \in SeatOps => f.pc \in {"event", "role", "vehicle", "target", "entry", "write"}
  /\ f.op \in ItemWrites => f.pc \in {"event", "role", "item", "write"}

AgFirm(f, entries, places, n) == AgAsked(f) /\ AgPath(f) /\ FoundIn(f, entries, places, n)

(* What a handler has read, and still holds when requests take turns. *)
AgFresh(f, ev, mem, its) ==
  /\ f.op # "createEvent" /\ f.pc # "event" => ev.status # "none" /\ ~ev.deleted
  /\ f.op \in Adds /\ f.pc \in {"entry", "write"} => f.who \in mem
  /\ f.op = "toggleComplete" /\ f.pc = "write" => its[f.on] # Null /\ f.seen = its[f.on].isCompleted

AgFrames ==
  \A s \in Slots : frame[s].op \in AgendaOps =>
    AgFirm(frame[s], roster, seats, rows) /\ (calm => AgFresh(frame[s], event, members, items))

(* Rows are numbered as they are inserted, so a number is one row's. *)
RowsNumbered ==
  /\ \A u \in People : roster[u] # Null => roster[u].id \in 1..rows
  /\ \A u, w \in People : roster[u] # Null /\ roster[w] # Null /\ roster[u].id = roster[w].id => u = w
  /\ \A v \in Vehicles, u \in People : Sits(v, u) => seats[v][u] \in 1..rows
  /\ \A v, x \in Vehicles, u, w \in People :
       Sits(v, u) /\ Sits(x, w) /\ seats[v][u] = seats[x][w] => v = x /\ u = w

Deleted == calm /\ event.deleted => event.status = "CANCELLED"

AgTables == AgTypeOK /\ AgendaConsistent /\ RowsNumbered /\ Deleted

AgIInv == AgTables /\ AgFrames

(* Idle handlers are nobody's. *)
LEMMA AgIdle == Idle.op \notin AgendaOps
BY DEF Idle, AgendaOps, EventOps, RosterOps, ItemOps, VehicleOps, SeatOps, PickupOps

(* At first there is at most one entry on the roster and nobody in a vehicle. *)
LEMMA AgStart == AgInit => AgIInv
<1> SUFFICES ASSUME AgInit PROVE AgIInv
  OBVIOUS
<1>1. AgFrames
  BY DeskStart, AgIdle DEF AgInit, AgFrames
<1>2. \A v \in Vehicles, u \in People : ~Sits(v, u)
  BY DEF AgInit, Sits
<1>3. /\ event \in [status : Statuses, deleted : BOOLEAN] /\ ~event.deleted /\ members \subseteq People
      /\ items \in [Items -> ItemRow \cup {Null}] /\ seats \in [Vehicles -> SeatRow \cup {Null}]
      /\ pickups \in [Pickups -> Vehicles \cup {Null}] /\ money \in MoneyRow \cup {Null}
  <2>1. PICK st \in {"none", "DRAFT"} : event = [status |-> st, deleted |-> FALSE]
    BY DEF AgInit
  <2>2. event \in [status : Statuses, deleted : BOOLEAN] /\ ~event.deleted
    BY <2>1 DEF Statuses
  <2>3. items \in [Items -> ItemRow \cup {Null}] /\ seats \in [Vehicles -> SeatRow \cup {Null}]
    BY DEF AgInit
  <2> QED
    BY <2>2, <2>3 DEF AgInit
<1>4. AgendaConsistent /\ Deleted
  BY <1>3 DEF AgInit, AgendaConsistent, Deleted
<1>5. ASSUME roster \in [People -> RosterRow \cup {Null}], rows \in 0..MaxRows,
             \A u \in People : roster[u] # Null => roster[u].id \in 1..rows,
             \A u, w \in People : roster[u] # Null /\ roster[w] # Null => u = w
      PROVE  AgIInv
  <2>1. AgTypeOK
    BY <1>3, <1>5 DEF AgTypeOK
  <2>2. RowsNumbered
    BY <1>2, <1>5 DEF RowsNumbered
  <2> QED
    BY <1>1, <1>4, <2>1, <2>2 DEF AgIInv, AgTables
<1>6. CASE rows = 0 /\ roster = Nobody
  <2>1. 0 \in 0..MaxRows
    BY RowsAssumption
  <2> QED
    BY <1>5, <1>6, <2>1 DEF Nobody
<1>7. ASSUME rows = 1, rows <= MaxRows, NEW m \in members,
             roster = [Nobody EXCEPT ![m] = [id |-> 1, answered |-> FALSE]]
      PROVE  AgIInv
  <2> DEFINE row == [id |-> 1, answered |-> FALSE]
  <2>1. m \in People /\ 1 \in 1..MaxRows /\ rows \in 0..MaxRows /\ 1 \in 1..rows
    BY <1>3, <1>7, RowsAssumption
  <2>2. row \in RosterRow /\ row.id = 1
    BY <2>1 DEF RosterRow
  <2> HIDE DEF row
  <2>3. roster = [u \in People |-> IF u = m THEN row ELSE Null]
    BY <1>7 DEF Nobody, row
  <2> QED
    BY <1>5, <2>1, <2>2, <2>3
<1> QED
  BY <1>6, <1>7 DEF AgInit

-----------------------------------------------------------------------------
(* Rows stay where they are until they go, and later rows have later numbers. *)
AgOn ==
  /\ rows' \in Nat /\ rows <= rows'
  /\ \A u \in People :
       roster'[u] # Null /\ roster'[u].id \in 1..rows => roster[u] # Null /\ roster'[u].id = roster[u].id
  /\ \A v \in Vehicles, u \in People :
       seats'[v] # Null /\ seats'[v][u] # Null /\ seats'[v][u] \in 1..rows =>
         Sits(v, u) /\ seats'[v][u] = seats[v][u]

LEMMA StillFirm ==
  ASSUME rows \in Nat, AgOn, NEW g, AgFirm(g, roster, seats, rows)
  PROVE  AgFirm(g, roster', seats', rows')
<1>1. 1..rows \subseteq 1..rows'
  BY DEF AgOn
<1>2. FoundIn(g, roster', seats', rows')
  BY <1>1 DEF AgOn, AgFirm, FoundIn, Sits
<1> QED
  BY <1>2 DEF AgFirm

(* A step of one of the services' handlers. *)
LEMMA AgTurn ==
  ASSUME DeskInv, AgIInv, NEW s \in Slots, NEW f, Turn(AgendaOps, s, f), AgTables', AgOn,
         f.op \in AgendaOps =>
           AgFirm(f, roster', seats', rows') /\ (calm => AgFresh(f, event', members', items'))
  PROVE  AgIInv'
<1>1. frame'[s] = f /\ \A t \in Slots \ {s} : frame'[t] = frame[t]
  BY TurnFrames DEF Turn
<1>2. ASSUME NEW t \in Slots, frame'[t].op \in AgendaOps
      PROVE  AgFirm(frame'[t], roster', seats', rows') /\ (calm => AgFresh(frame'[t], event', members', items'))
  <2>1. CASE t = s
    BY <1>1, <1>2, <2>1
  <2>2. CASE t # s
    <3> DEFINE g == frame[t]
    <3>1. frame'[t] = g /\ AgFirm(g, roster, seats, rows)
      BY <1>1, <1>2, <2>2 DEF AgIInv, AgFrames
    <3>2. rows \in Nat
      BY RowsAssumption DEF AgIInv, AgTables, AgTypeOK
    <3> HIDE DEF g
    <3>3. AgFirm(g, roster', seats', rows')
      BY <3>1, <3>2, StillFirm
    <3>4. ~calm
      BY <1>2, <2>2, TurnAlone, AgIdle
    <3> QED
      BY <3>1, <3>3, <3>4
  <2> QED
    BY <2>1, <2>2
<1>3. calm' = calm
  BY DEF Turn
<1>4. AgFrames'
  BY <1>2, <1>3 DEF AgFrames
<1> QED
  BY <1>4 DEF AgIInv

(* The rows stay as they are. *)
LEMMA AgSame == AgTables /\ UNCHANGED <<calm, agenda>> => AgTables' /\ AgOn
BY RowsAssumption DEF agenda, people, transport, AgTables, AgTypeOK, AgendaConsistent, RowsNumbered, Sits,
   Deleted, AgOn

LEMMA AgMoves ==
  ASSUME DeskInv, AgIInv, UNCHANGED agenda, NEW s \in Slots, NEW f, Turn(AgendaOps, s, f),
         f.op \in AgendaOps =>
           AgFirm(f, roster, seats, rows) /\ (calm => AgFresh(f, event, members, items))
  PROVE  AgIInv' /\ \E g : Turn(AgendaOps, s, g)
<1>1. calm' = calm
  BY DEF Turn
<1>2. AgTables' /\ AgOn
  BY <1>1, AgSame DEF AgIInv
<1>3. roster' = roster /\ seats' = seats /\ rows' = rows /\ event' = event /\ members' = members /\ items' = items
  BY DEF agenda, people, transport
<1> QED
  BY <1>2, <1>3, AgTurn

(* The last step of a handler. *)
LEMMA AgEnds ==
  ASSUME DeskInv, AgIInv, AgTables', AgOn, NEW s \in Slots, frame[s].pc # "idle",
         frame[s].op \in AgendaOps, Throw(s) \/ Fail(s) \/ \E notice : Finish(s, notice)
  PROVE  AgIInv' /\ \E f : Turn(AgendaOps, s, f)
BY StepsEnd, AgTurn, AgIdle

(* Another service's step, and one of no handler. *)
LEMMA AgOthers ==
  ASSUME DeskInv, AgIInv, UNCHANGED agenda, NEW O, O \cap AgendaOps = {},
         NEW s \in Slots, NEW f, Turn(O, s, f)
  PROVE  AgIInv'
<1>1. frame'[s] = f /\ \A t \in Slots \ {s} : frame'[t] = frame[t]
  BY TurnFrames DEF Turn
<1>2. calm' = calm /\ f.op \notin AgendaOps
  BY AgIdle DEF Turn
<1>3. roster' = roster /\ seats' = seats /\ rows' = rows /\ event' = event /\ members' = members /\ items' = items
  BY DEF agenda, people, transport
<1>4. AgFrames'
  BY <1>1, <1>2, <1>3 DEF AgIInv, AgFrames
<1> QED
  BY <1>2, <1>4, AgSame DEF AgIInv

LEMMA AgStill == AgIInv /\ UNCHANGED <<frame, calm, agenda>> => AgIInv'
BY AgSame DEF AgIInv, AgFrames, agenda, people, transport

(* People come and go; in a calm behaviour nobody is asking anything then. *)
LEMMA MembersStep ==
  ASSUME DeskInv, AgIInv, MembershipChanges
  PROVE  AgIInv' /\ UNCHANGED <<frame, calm>>
<1>1. UNCHANGED <<frame, calm, event, roster, rows, items, transport, money>>
  BY DEF MembershipChanges
<1>2. members' \subseteq People
  BY DEF MembershipChanges, AgIInv, AgTables, AgTypeOK
<1>3. AgTables'
  BY <1>1, <1>2 DEF transport, AgIInv, AgTables, AgTypeOK, AgendaConsistent, RowsNumbered, Sits, Deleted
<1>4. calm => \A s \in Slots : frame[s].op \notin AgendaOps
  BY AgIdle DEF MembershipChanges, Busy, AtStep, DeskInv
<1>5. AgFrames'
  BY <1>1, <1>4 DEF transport, AgIInv, AgFrames
<1> QED
  BY <1>1, <1>3, <1>5 DEF AgIInv

-----------------------------------------------------------------------------
(* The frame a request starts with. *)
LEMMA AgAskedFor ==
  ASSUME NEW op, NEW x, NEW u, NEW v
  PROVE  LET h == AgAsk(op, x, u, v) IN
         /\ Whole(h) /\ h.op = op /\ h.on = x /\ h.who = u /\ h.arg = v
         /\ h.pc = IF op = "createEvent" THEN "role" ELSE "event"
<1>1. AgAsk(op, x, u, v) = Request(op, IF op = "createEvent" THEN "role" ELSE "event", x, u, v)
  BY DEF AgAsk, Request
<1> DEFINE pc == IF op = "createEvent" THEN "role" ELSE "event"
<1>2. AgAsk(op, x, u, v) = Request(op, pc, x, u, v)
  BY <1>1
<1> HIDE DEF pc
<1>3. LET h == AgAsk(op, x, u, v) IN
      Whole(h) /\ h.op = op /\ h.on = x /\ h.who = u /\ h.arg = v /\ h.pc = pc
  BY <1>2, Requested
<1> QED
  BY <1>3 DEF pc

(* A client's request. *)
LEMMA AgCallStep ==
  ASSUME DeskInv, AgIInv, NEW s \in Slots, AgCall(s)
  PROVE  AgIInv' /\ \E f : Turn(AgendaOps, s, f)
<1> DEFINE Kept == AgIInv' /\ \E f : Turn(AgendaOps, s, f)
<1>1. ASSUME NEW op \in AgendaOps, NEW x, NEW u, NEW v, Open(s, AgAsk(op, x, u, v)),
             op \in RosterOps \cup SeatOps => u \in People,
             op \in SeatOps \cup PickupOps => x \in Vehicles,
             op = "updateEvent" => v \in Statuses,
             op \in {"updateItem", "upsertFinance"} => v = Null \/ v \in BOOLEAN,
             op = "updateRosterMember" => v \in BOOLEAN
      PROVE  Kept
  <2> DEFINE f == AgAsk(op, x, u, v)
  <2>1. /\ Whole(f) /\ f.op = op /\ f.on = x /\ f.who = u /\ f.arg = v
        /\ f.pc = IF op = "createEvent" THEN "role" ELSE "event"
    BY AgAskedFor
  <2>2. Open(s, f)
    BY <1>1
  <2> HIDE DEF f
  <2>3. Turn(AgendaOps, s, f)
    BY <2>1, <2>2, OpenTurn
  <2>4. f.pc \in {"role", "event"} /\ (f.pc = "event" \/ f.op = "createEvent")
    BY <2>1
  <2>5. AgAsked(f) /\ AgPath(f)
    BY <1>1, <2>1, <2>4 DEF AgAsked, AgPath
  <2>6. AgFirm(f, roster, seats, rows) /\ AgFresh(f, event, members, items)
    BY <2>4, <2>5 DEF AgFirm, FoundIn, AgFresh
  <2> QED
    BY <2>3, <2>6, AgMoves DEF AgCall
<1> HIDE DEF Kept
<1> USE DEF AgendaOps, EventOps, RosterOps, ItemOps, VehicleOps, SeatOps, PickupOps
<1>2. ASSUME NEW op \in {"createEvent", "updateDaysheet", "removeEvent", "createItem", "createVehicle"},
             Open(s, AgAsk(op, Null, Null, Null))
      PROVE  Kept
  BY <1>1, <1>2
<1>3. ASSUME NEW st \in Statuses, NEW op, op = "updateEvent", Open(s, AgAsk(op, Null, Null, st))
      PROVE  Kept
  BY <1>1, <1>3
<1>4. ASSUME NEW paid \in BOOLEAN \cup {Null}, NEW op, op = "upsertFinance", Open(s, AgAsk(op, Null, Null, paid))
      PROVE  Kept
  BY <1>1, <1>4
<1>5. ASSUME NEW u \in People, NEW op \in {"addRosterMember", "removeRosterMember"},
             Open(s, AgAsk(op, Null, u, Null))
      PROVE  Kept
  BY <1>1, <1>5
<1>6. ASSUME NEW u \in People, NEW answer \in BOOLEAN, NEW op, op = "updateRosterMember",
             Open(s, AgAsk(op, Null, u, answer))
      PROVE  Kept
  BY <1>1, <1>6
<1>7. ASSUME NEW i \in Items, NEW op \in {"toggleComplete", "removeItem"}, Open(s, AgAsk(op, i, Null, Null))
      PROVE  Kept
  BY <1>1, <1>7
<1>8. ASSUME NEW i \in Items, NEW d \in BOOLEAN \cup {Null}, NEW op, op = "updateItem",
             Open(s, AgAsk(op, i, Null, d))
      PROVE  Kept
  BY <1>1, <1>8
<1>9. ASSUME NEW v \in Vehicles, NEW op \in {"updateVehicle", "deleteVehicle", "addPickupPoint"},
             Open(s, AgAsk(op, v, Null, Null))
      PROVE  Kept
  BY <1>1, <1>9
<1>10. ASSUME NEW v \in Vehicles, NEW op \in SeatOps, NEW u \in People, Open(s, AgAsk(op, v, u, Null))
       PROVE  Kept
  BY <1>1, <1>10
<1>11. ASSUME NEW v \in Vehicles, NEW op \in {"updatePickupPoint", "deletePickupPoint"}, NEW p,
              Open(s, AgAsk(op, v, Null, p))
       PROVE  Kept
  BY <1>1, <1>11
<1>12. EventCall(s) => Kept
  BY <1>2, <1>3, <1>4 DEF EventCall
<1>13. RosterCall(s) => Kept
  BY <1>5, <1>6 DEF RosterCall
<1>14. ItemCall(s) => Kept
  BY <1>7, <1>8 DEF ItemCall
<1>15. VehicleCall(s) => Kept
  BY <1>9, <1>10, <1>11 DEF VehicleCall
<1> QED
  BY <1>12, <1>13, <1>14, <1>15 DEF AgCall, Kept

(* A handler in progress is sound. *)
LEMMA AgAt ==
  ASSUME AgIInv, NEW s \in Slots, frame[s].op \in AgendaOps
  PROVE  /\ AgFirm(frame[s], roster, seats, rows)
         /\ calm => AgFresh(frame[s], event, members, items)
BY DEF AgIInv, AgFrames

-----------------------------------------------------------------------------
(* Where a handler goes on after its membership is known. *)
LEMMA AfterRoleGoes ==
  ASSUME NEW op
  PROVE  /\ op \in RosterOps => AfterRole(op) \in {"target", "entry"}
         /\ op = "addRosterMember" => AfterRole(op) = "target"
         /\ op \in SeatOps => AfterRole(op) = "vehicle"
         /\ op \in ItemWrites => AfterRole(op) = "item"
         /\ AfterRole(op) \in {"target", "entry", "item", "vehicle", "write"}
BY DEF AfterRole, RosterOps, SeatOps, PickupOps, ItemWrites

(* The calls before the one that finds a row. *)
LEMMA AgReadSteps ==
  ASSUME DeskInv, AgIInv, NEW s \in Slots,
         ReadEvent(s) \/ AskAgRole(s) \/ FindVehicle(s) \/ FindTarget(s) \/ FindPickup(s)
  PROVE  AgIInv' /\ \E f : Turn(AgendaOps, s, f)
<1> DEFINE g == frame[s]
           Kept == AgIInv' /\ \E f : Turn(AgendaOps, s, f)
<1>1. /\ g.op \in AgendaOps /\ UNCHANGED agenda
      /\ g.pc \in {"event", "role", "vehicle", "target", "pickup"}
  BY DEF ReadEvent, AskAgRole, FindVehicle, FindTarget, FindPickup, AtStep
<1>2. AgFirm(g, roster, seats, rows) /\ (calm => AgFresh(g, event, members, items))
  BY <1>1, AgAt
<1>3. ASSUME Throw(s) PROVE Kept
  <2>1. Turn(AgendaOps, s, Idle)
    BY <1>1, <1>3, StepsEnd
  <2> QED
    BY <1>1, <2>1, AgIdle, AgMoves
<1>4. ASSUME NEW pc \in {"role", "target", "entry", "item", "vehicle", "pickup", "write"}, Next2(s, pc),
             g.op \in RosterOps => pc \in {"role", "target", "entry"},
             g.op \in SeatOps => pc \in {"role", "vehicle", "target", "entry"},
             g.op \in ItemWrites => pc \in {"role", "item"},
             calm /\ g.pc = "event" => event.status # "none" /\ ~event.deleted,
             calm /\ g.op \in Adds => pc # "entry" \/ g.who \in members
      PROVE  Kept
  <2>1. PICK f : Turn(AgendaOps, s, f) /\ Onward(g, f) /\ f.pc = pc
    BY <1>1, <1>4, Steps
  <2> HIDE DEF g
  <2>2. AgAsked(f)
    BY <1>2, <2>1 DEF AgFirm, AgAsked, Onward
  <2>3. AgPath(f)
    BY <1>4, <2>1 DEF AgPath, Onward
  <2>4. f.pc = "write" => f.op \notin RosterOps \cup SeatOps \cup ItemWrites
    BY <1>4, <2>1 DEF Onward
  <2>5. FoundIn(f, roster, seats, rows)
    BY <2>4 DEF FoundIn, Follows, RosterOps, SeatOps
  <2>6. calm => AgFresh(f, event, members, items)
    BY <1>2, <1>4, <2>1, <2>4 DEF AgFresh, Onward, Adds, RosterOps, SeatOps, ItemWrites
  <2> QED
    BY <1>1, <2>1, <2>2, <2>3, <2>5, <2>6, AgMoves DEF AgFirm
<1>5. AgPath(g)
  BY <1>2 DEF AgFirm
<1>6. ReadEvent(s) => Kept
  BY <1>3, <1>4 DEF ReadEvent, Live
<1>7. AskAgRole(s) => Kept
  <2> DEFINE pc == AfterRole(g.op)
  <2> SUFFICES ASSUME AskAgRole(s) PROVE Kept
    OBVIOUS
  <2>1. g.pc = "role" /\ (Throw(s) \/ Next2(s, pc))
    BY DEF AskAgRole, AtStep, Authority
  <2>2. /\ g.op \in RosterOps => pc \in {"target", "entry"}
        /\ g.op = "addRosterMember" => pc = "target"
        /\ g.op \in SeatOps => pc = "vehicle"
        /\ g.op \in ItemWrites => pc = "item"
        /\ pc \in {"target", "entry", "item", "vehicle", "write"}
    BY AfterRoleGoes
  <2>3. g.op \in Adds => pc # "entry"
    BY <2>2 DEF Adds, SeatOps
  <2> HIDE DEF pc, Kept, g
  <2> QED
    BY <1>3, <1>4, <2>1, <2>2, <2>3
<1>10. FindVehicle(s) => Kept
  <2> DEFINE pc == CASE g.op = "addPassenger"    -> "target"
                     [] g.op = "removePassenger" -> "entry"
                     [] g.op \in {"updatePickupPoint", "deletePickupPoint"} -> "pickup"
                     [] OTHER                    -> "write"
  <2> SUFFICES ASSUME FindVehicle(s) PROVE Kept
    OBVIOUS
  <2>1. g.pc = "vehicle" /\ (Throw(s) \/ Next2(s, pc))
    BY DEF FindVehicle, AtStep
  <2>2. pc \in {"target", "entry", "pickup", "write"} /\ (g.op \in SeatOps => pc \in {"target", "entry"})
        /\ (pc = "entry" => g.op \notin Adds)
    BY DEF SeatOps, Adds
  <2>3. g.op \notin RosterOps /\ g.op \notin ItemWrites
    BY <1>5, <2>1 DEF AgPath
  <2> HIDE DEF pc, Kept, g
  <2> QED
    BY <1>3, <1>4, <2>1, <2>2, <2>3
<1>8. FindTarget(s) => Kept
  <2> SUFFICES ASSUME FindTarget(s) PROVE Kept
    OBVIOUS
  <2>1. PICK pc : /\ pc = "entry" /\ g.pc = "target"
                  /\ Throw(s) \/ (g.who \in members /\ Next2(s, pc))
    BY DEF FindTarget, AtStep
  <2>2. g.op \notin ItemWrites
    BY <1>5, <2>1 DEF AgPath
  <2> HIDE DEF Kept, g
  <2> QED
    BY <1>3, <1>4, <2>1, <2>2
<1>9. FindPickup(s) => Kept
  <2> SUFFICES ASSUME FindPickup(s) PROVE Kept
    OBVIOUS
  <2>1. PICK pc : pc = "write" /\ g.pc = "pickup" /\ (Throw(s) \/ Next2(s, pc))
    BY DEF FindPickup, AtStep
  <2>2. g.op \notin RosterOps /\ g.op \notin SeatOps /\ g.op \notin ItemWrites
    BY <1>5, <2>1 DEF AgPath
  <2> HIDE DEF Kept, g
  <2> QED
    BY <1>3, <1>4, <2>1, <2>2 DEF Adds, RosterOps, SeatOps
<1> QED
  BY <1>6, <1>7, <1>8, <1>9, <1>10

(* The row a request asks about, when there is one, is the only one with its *)
(* number.                                                                  *)
LEMMA EntryFound ==
  ASSUME AgIInv, NEW f, AgAsked(f), f.op \in RosterOps \cup SeatOps, EntryId(f) # Null
  PROVE  /\ f.op \in Follows =>
              /\ EntryId(f) \in 1..rows
              /\ \A u \in People : roster[u] # Null /\ roster[u].id = EntryId(f) => u = f.who
         /\ f.op = "removePassenger" =>
              /\ EntryId(f) \in 1..rows
              /\ \A v \in Vehicles, u \in People :
                   seats[v] # Null /\ seats[v][u] # Null /\ seats[v][u] = EntryId(f) => v = f.on /\ u = f.who
<1>1. CASE f.op \in Follows
  <2>1. f.op \in RosterOps /\ f.op # "removePassenger" /\ f.who \in People
    BY <1>1 DEF Follows, RosterOps, AgAsked
  <2>2. roster[f.who] # Null /\ EntryId(f) = roster[f.who].id
    BY <2>1 DEF EntryId
  <2> QED
    BY <1>1, <2>1, <2>2 DEF AgIInv, AgTables, RowsNumbered
<1>2. CASE f.op = "removePassenger"
  <2>1. f.op \notin RosterOps /\ f.op \notin Follows /\ f.who \in People /\ f.on \in Vehicles
    BY <1>2 DEF Follows, RosterOps, SeatOps, AgAsked
  <2>2. Sits(f.on, f.who) /\ EntryId(f) = seats[f.on][f.who]
    BY <2>1 DEF EntryId, Sits
  <2> QED
    BY <1>2, <2>1, <2>2 DEF AgIInv, AgTables, RowsNumbered, Sits
<1> QED
  BY <1>1, <1>2

(* A handler finds the row it will write: an entry of the roster or a seat,  *)
(* or an item.                                                              *)
LEMMA FindRowSteps ==
  ASSUME DeskInv, AgIInv, NEW s \in Slots, FindEntry(s) \/ FindItem(s)
  PROVE  AgIInv' /\ \E f : Turn(AgendaOps, s, f)
<1> DEFINE g == frame[s]
           Kept == AgIInv' /\ \E f : Turn(AgendaOps, s, f)
<1>1. g.op \in AgendaOps /\ UNCHANGED agenda /\ g.pc \in {"entry", "item"}
  BY DEF FindEntry, FindItem, AtStep
<1>2. AgFirm(g, roster, seats, rows) /\ (calm => AgFresh(g, event, members, items))
  BY <1>1, AgAt
<1>3. ASSUME Throw(s) PROVE Kept
  <2>1. Turn(AgendaOps, s, Idle)
    BY <1>1, <1>3, StepsEnd
  <2> QED
    BY <1>1, <2>1, AgIdle, AgMoves
<1>4. ASSUME NEW seen, Proceed(s, With(g, "write", seen)),
             g.op \in RosterOps \cup SeatOps => g.pc = "entry",
             g.op \in Follows =>
               seen \in 1..rows /\ \A u \in People : roster[u] # Null /\ roster[u].id = seen => u = g.who,
             g.op = "removePassenger" =>
               /\ seen \in 1..rows
               /\ \A v \in Vehicles, u \in People :
                    seats[v] # Null /\ seats[v][u] # Null /\ seats[v][u] = seen => v = g.on /\ u = g.who,
             g.op = "toggleComplete" => items[g.on] # Null /\ seen = items[g.on].isCompleted
      PROVE  Kept
  <2>1. PICK pc, h : pc = "write" /\ h = With(g, "write", seen)
    OBVIOUS
  <2>2. Proceed(s, h) /\ h = With(g, pc, seen) /\ pc # "idle"
    BY <1>4, <2>1
  <2>3. PICK f : Turn(AgendaOps, s, f) /\ Onward(g, f) /\ f.pc = pc /\ f.seen = seen
    BY <1>1, <2>2, StepsWith
  <2> USE <2>1
  <2> HIDE DEF g
  <2>4. AgAsked(f) /\ AgPath(f)
    BY <1>2, <2>3 DEF AgFirm, AgAsked, AgPath, Onward
  <2>5. FoundIn(f, roster, seats, rows)
    BY <1>4, <2>3 DEF FoundIn, Onward
  <2>6. g.op \in Adds => g.pc = "entry"
    BY <1>4 DEF Adds, RosterOps, SeatOps
  <2>7. calm => AgFresh(f, event, members, items)
    BY <1>1, <1>2, <1>4, <2>3, <2>6 DEF AgFresh, Onward
  <2> QED
    BY <1>1, <2>3, <2>4, <2>5, <2>7, AgMoves DEF AgFirm
<1>5. AgPath(g) /\ AgAsked(g)
  BY <1>2 DEF AgFirm
<1>6. FindEntry(s) => Kept
  <2> DEFINE e == EntryId(g)
  <2> SUFFICES ASSUME FindEntry(s), ~Throw(s) PROVE Kept
    BY <1>3
  <2>1. g.pc = "entry" /\ Proceed(s, With(g, "write", e)) /\ (g.op \in Adds <=> e = Null)
    BY DEF FindEntry, AtStep, With, Adds
  <2>2. g.op \in Follows \cup {"removePassenger"} => g.op \in RosterOps \cup SeatOps /\ g.op \notin Adds
    BY DEF Follows, RosterOps, SeatOps, Adds
  <2>3. /\ g.op \in Follows =>
             e \in 1..rows /\ \A u \in People : roster[u] # Null /\ roster[u].id = e => u = g.who
        /\ g.op = "removePassenger" =>
             /\ e \in 1..rows
             /\ \A v \in Vehicles, u \in People :
                  seats[v] # Null /\ seats[v][u] # Null /\ seats[v][u] = e => v = g.on /\ u = g.who
    BY <1>5, <2>1, <2>2, EntryFound
  <2>4. g.op # "toggleComplete"
    BY <1>5, <2>1 DEF AgPath, ItemWrites
  <2> HIDE DEF e, Kept
  <2> QED
    BY <1>4, <2>1, <2>3, <2>4
<1>7. FindItem(s) => Kept
  <2> DEFINE done == items[g.on].isCompleted
  <2> SUFFICES ASSUME FindItem(s), ~Throw(s) PROVE Kept
    BY <1>3
  <2>1. g.pc = "item" /\ Proceed(s, With(g, "write", done)) /\ items[g.on] # Null
    BY DEF FindItem, AtStep, With
  <2>2. g.op \notin RosterOps /\ g.op \notin SeatOps
    BY <1>5, <2>1 DEF AgPath
  <2>3. g.op \notin Follows /\ g.op # "removePassenger"
    BY <2>2 DEF Follows, RosterOps, SeatOps
  <2>4. PICK seen : seen = done
    OBVIOUS
  <2> HIDE DEF done, Kept
  <2>5. Proceed(s, With(g, "write", seen)) /\ seen = items[g.on].isCompleted
    BY <2>1, <2>4 DEF done
  <2> QED
    BY <1>4, <2>1, <2>2, <2>3, <2>5
<1> QED
  BY <1>6, <1>7

-----------------------------------------------------------------------------
(* The writes of the event: one that is on stays on until it is removed. *)
LEMMA EventWrites ==
  ASSUME DeskInv, AgIInv, NEW s \in Slots, CreateEvent(s) \/ WriteEvent(s)
  PROVE  AgTables' /\ AgOn
<1> DEFINE g == frame[s]
<1>1. UNCHANGED <<calm, members, roster, rows, items, transport, money>> /\ g.pc = "write"
  BY DEF CreateEvent, WriteEvent, Writes, AtStep, Finish
<1>2. AgTypeOK /\ AgendaConsistent /\ RowsNumbered /\ Deleted
  BY DEF AgIInv, AgTables
<1>3. event \in [status : Statuses, deleted : BOOLEAN]
  BY <1>2 DEF AgTypeOK
<1>4. ASSUME event' \in [status : Statuses, deleted : BOOLEAN], Deleted'
      PROVE  AgTables' /\ AgOn
  <2>1. AgTypeOK' /\ AgendaConsistent' /\ RowsNumbered'
    BY <1>1, <1>2, <1>4 DEF transport, AgTypeOK, AgendaConsistent, RowsNumbered, Sits
  <2>2. AgOn
    BY <1>1, <1>2, RowsAssumption DEF transport, AgTypeOK, AgOn, Sits
  <2> QED
    BY <1>4, <2>1, <2>2 DEF AgTables
<1>5. CASE event' = event
  BY <1>1, <1>2, <1>3, <1>4, <1>5 DEF Deleted
<1>6. CASE CreateEvent(s) /\ event' # event
  <2>1. event.status = "none" /\ event' = [event EXCEPT !.status = "DRAFT"]
    BY <1>6 DEF CreateEvent
  <2>2. event' \in [status : Statuses, deleted : BOOLEAN] /\ (event'.deleted <=> event.deleted)
    BY <1>3, <2>1 DEF Statuses
  <2> QED
    BY <1>1, <1>2, <1>4, <2>1, <2>2 DEF Deleted
<1>7. CASE WriteEvent(s) /\ event' # event
  <2>1. g.op \in {"updateEvent", "updateDaysheet", "removeEvent"}
    BY <1>7 DEF WriteEvent, Writes, EventOps
  <2>2. AgAsked(g) /\ (calm => AgFresh(g, event, members, items))
    BY <2>1, AgAt DEF AgendaOps, EventOps, AgFirm
  <2>3. CASE g.op = "updateEvent"
    <3>1. event' = [event EXCEPT !.status = g.arg]
      BY <1>7, <2>3 DEF WriteEvent
    <3>2. g.arg \in Statuses /\ (calm => ~event.deleted)
      BY <1>1, <2>2, <2>3 DEF AgAsked, AgFresh
    <3> HIDE DEF g
    <3>3. event' \in [status : Statuses, deleted : BOOLEAN] /\ (event'.deleted <=> event.deleted)
      BY <1>3, <3>1, <3>2
    <3> QED
      BY <1>1, <1>4, <3>2, <3>3 DEF Deleted
  <2>4. CASE g.op = "removeEvent"
    <3>1. event' = [status |-> "CANCELLED", deleted |-> TRUE]
      BY <1>7, <2>4 DEF WriteEvent
    <3> QED
      BY <1>4, <3>1 DEF Deleted, Statuses
  <2>5. g.op # "updateDaysheet"
    BY <1>7 DEF WriteEvent
  <2> QED
    BY <2>1, <2>3, <2>4, <2>5
<1> QED
  BY <1>5, <1>6, <1>7

(* The writes of the schedule: an item is done, and since when, together. *)
LEMMA ItemRows ==
  ASSUME AgIInv, UNCHANGED <<calm, people, transport, money>>,
         items' \in [Items -> ItemRow \cup {Null}],
         \A i \in Items : items'[i] # Null => items'[i].isCompleted = items'[i].completedAt
  PROVE  AgTables' /\ AgOn
<1>1. AgTypeOK /\ AgendaConsistent /\ RowsNumbered /\ Deleted
  BY DEF AgIInv, AgTables
<1>2. AgTypeOK' /\ AgendaConsistent' /\ RowsNumbered' /\ Deleted'
  BY <1>1 DEF people, transport, AgTypeOK, AgendaConsistent, RowsNumbered, Sits, Deleted
<1>3. AgOn
  BY <1>1, RowsAssumption DEF people, transport, AgTypeOK, AgOn, Sits
<1> QED
  BY <1>2, <1>3 DEF AgTables

LEMMA ItemSteps ==
  ASSUME DeskInv, AgIInv, NEW s \in Slots, CreateItem(s) \/ WriteItem(s)
  PROVE  AgTables' /\ AgOn
<1> DEFINE g == frame[s]
<1>1. UNCHANGED <<calm, people, transport, money>> /\ g.pc = "write"
  BY DEF CreateItem, WriteItem, Writes, AtStep, Finish, Throw, Proceed
<1>2. /\ items \in [Items -> ItemRow \cup {Null}]
      /\ \A i \in Items : items[i] # Null => items[i].isCompleted = items[i].completedAt
  BY DEF AgIInv, AgTables, AgTypeOK, AgendaConsistent
<1>3. ASSUME NEW i, NEW new \in ItemRow \cup {Null}, new # Null => new.isCompleted = new.completedAt,
             items' = [items EXCEPT ![i] = new]
      PROVE  AgTables' /\ AgOn
  <2>1. items' \in [Items -> ItemRow \cup {Null}]
    BY <1>2, <1>3
  <2>2. \A j \in Items : items'[j] # Null => items'[j].isCompleted = items'[j].completedAt
    BY <1>2, <1>3
  <2> QED
    BY <1>1, <2>1, <2>2, ItemRows
<1>4. ASSUME NEW i, NEW done \in BOOLEAN, items' = [items EXCEPT ![i] = [isCompleted |-> done, completedAt |-> done]]
      PROVE  AgTables' /\ AgOn
  <2> DEFINE new == [isCompleted |-> done, completedAt |-> done]
  <2>1. new \in ItemRow /\ new.isCompleted = new.completedAt
    BY DEF ItemRow
  <2>2. items' = [items EXCEPT ![i] = new]
    BY <1>4
  <2> HIDE DEF new
  <2> QED
    BY <1>3, <2>1, <2>2
<1>5. CASE items' = items
  BY <1>1, <1>2, <1>5, ItemRows
<1>6. CASE CreateItem(s)
  BY <1>4, <1>6 DEF CreateItem
<1>7. CASE WriteItem(s) /\ items' # items
  <2> DEFINE done == IF g.op = "toggleComplete" THEN ~g.seen ELSE g.arg
  <2>1. \/ items' = [items EXCEPT ![g.on] = Null]
        \/ /\ done # Null /\ g.op \in {"updateItem", "toggleComplete"}
           /\ items' = [items EXCEPT ![g.on] = [isCompleted |-> done, completedAt |-> done]]
    BY <1>7 DEF WriteItem, Writes
  <2>2. g.op = "updateItem" => g.arg = Null \/ g.arg \in BOOLEAN
    BY AgAt DEF AgFirm, AgAsked, AgendaOps, ItemOps
  <2>3. done # Null /\ g.op \in {"updateItem", "toggleComplete"} => done \in BOOLEAN
    BY <2>2
  <2> HIDE DEF done
  <2> QED
    BY <1>3, <1>4, <2>1, <2>3
<1> QED
  BY <1>5, <1>6, <1>7

-----------------------------------------------------------------------------
(* A step that inserts no row keeps the numbers apart. *)
Shrinks ==
  /\ rows' = rows
  /\ \A u \in People : roster'[u] # Null => roster[u] # Null /\ roster'[u].id = roster[u].id
  /\ \A v \in Vehicles, u \in People :
       seats'[v] # Null /\ seats'[v][u] # Null => seats[v] # Null /\ seats'[v][u] = seats[v][u]

LEMMA ShrinkKeeps ==
  ASSUME AgIInv, Shrinks
  PROVE  RowsNumbered' /\ AgOn
<1>1. RowsNumbered /\ rows \in Nat
  BY RowsAssumption DEF AgIInv, AgTables, AgTypeOK
<1>2. \A u \in People : roster'[u] # Null => roster'[u].id \in 1..rows'
  BY <1>1 DEF RowsNumbered, Shrinks
<1>3. \A u, w \in People : roster'[u] # Null /\ roster'[w] # Null /\ roster'[u].id = roster'[w].id => u = w
  BY <1>1 DEF RowsNumbered, Shrinks
<1>4. \A v \in Vehicles, u \in People :
        seats'[v] # Null /\ seats'[v][u] # Null => seats'[v][u] \in 1..rows'
  BY <1>1 DEF RowsNumbered, Shrinks, Sits
<1>5. \A v, x \in Vehicles, u, w \in People :
        seats'[v] # Null /\ seats'[v][u] # Null /\ seats'[x] # Null /\ seats'[x][w] # Null
          /\ seats'[v][u] = seats'[x][w] => v = x /\ u = w
  BY <1>1 DEF RowsNumbered, Shrinks, Sits
<1>6. RowsNumbered'
  BY <1>2, <1>3, <1>4, <1>5 DEF RowsNumbered, Sits
<1>7. AgOn
  BY <1>1 DEF AgOn, Shrinks, Sits
<1> QED
  BY <1>6, <1>7

(* An entry of the roster that changes, and one that goes. *)
LEMMA EntryWrites ==
  ASSUME DeskInv, AgIInv, NEW s \in Slots, UpdateRosterMember(s) \/ RemoveRosterMember(s)
  PROVE  /\ AgTables' /\ AgOn
         /\ \A u \in People : roster'[u] # roster[u] => RowIs(u, frame[s].seen)
<1> DEFINE g == frame[s]
<1>1. UNCHANGED <<calm, event, members, rows, items, transport, money>>
  BY DEF UpdateRosterMember, RemoveRosterMember, Finish, Throw, Proceed
<1>2. AgTypeOK /\ AgendaConsistent /\ RowsNumbered /\ Deleted
  BY DEF AgIInv, AgTables
<1>3. roster \in [People -> RosterRow \cup {Null}]
  BY <1>2 DEF AgTypeOK
<1>4. ASSUME roster' \in [People -> RosterRow \cup {Null}],
             \A u \in People : roster'[u] # Null => roster[u] # Null /\ roster'[u].id = roster[u].id
      PROVE  AgTables' /\ AgOn
  <2>1. Shrinks
    BY <1>1, <1>4 DEF transport, Shrinks
  <2>2. AgTypeOK' /\ AgendaConsistent' /\ Deleted'
    BY <1>1, <1>2, <1>4 DEF transport, AgTypeOK, AgendaConsistent, Deleted
  <2> QED
    BY <2>1, <2>2, ShrinkKeeps DEF AgTables
<1>5. CASE roster' = roster
  BY <1>3, <1>4, <1>5
<1>6. CASE RemoveRosterMember(s)
  <2>1. roster' = [u \in People |-> IF RowIs(u, g.seen) THEN Null ELSE roster[u]]
    BY <1>6 DEF RemoveRosterMember
  <2>2. \A u \in People : (RowIs(u, g.seen) /\ roster'[u] = Null) \/ roster'[u] = roster[u]
    BY <2>1
  <2>3. roster' \in [People -> RosterRow \cup {Null}]
    BY <1>3, <2>1
  <2> QED
    BY <1>4, <2>2, <2>3
<1>7. CASE UpdateRosterMember(s) /\ roster' # roster
  <2>1. PICK u \in People : RowIs(u, g.seen) /\ roster' = [roster EXCEPT ![u].answered = g.arg]
    BY <1>7 DEF UpdateRosterMember
  <2>2. g.op = "updateRosterMember"
    BY <1>7 DEF UpdateRosterMember, Writes
  <2>3. g.arg \in BOOLEAN
    BY <2>2, AgAt DEF AgendaOps, RosterOps, AgFirm, AgAsked
  <2> DEFINE new == [roster[u] EXCEPT !.answered = g.arg]
  <2>4. roster[u] \in RosterRow
    BY <1>3, <2>1 DEF RowIs
  <2>5. new \in RosterRow /\ new.id = roster[u].id
    BY <2>3, <2>4 DEF RosterRow
  <2>6. roster' = [roster EXCEPT ![u] = new]
    BY <1>3, <2>1
  <2> HIDE DEF new
  <2>7. roster' \in [People -> RosterRow \cup {Null}] /\ \A w \in People : w # u => roster'[w] = roster[w]
    BY <1>3, <2>5, <2>6
  <2>8. roster'[u].id = roster[u].id /\ roster[u] # Null
    BY <1>3, <2>1, <2>5, <2>6 DEF RowIs
  <2> QED
    BY <1>4, <2>1, <2>7, <2>8
<1> QED
  BY <1>5, <1>6, <1>7

(* An entry added to the roster gets the next number. *)
LEMMA AddRosterWrite ==
  ASSUME DeskInv, AgIInv, NEW s \in Slots, AddRosterMember(s)
  PROVE  /\ AgTables' /\ AgOn
         /\ \A u \in People : roster[u] # Null => roster'[u] = roster[u]
<1> DEFINE m   == frame[s].who
           row == [id |-> rows', answered |-> FALSE]
<1>1. UNCHANGED <<calm, event, members, items, transport, money>> /\ frame[s].op = "addRosterMember"
  BY DEF AddRosterMember, Writes, Finish, Throw, Proceed
<1>2. AgTypeOK /\ AgendaConsistent /\ RowsNumbered /\ Deleted
  BY DEF AgIInv, AgTables
<1>3. CASE UNCHANGED <<roster, rows>>
  BY <1>1, <1>3, AgSame DEF AgIInv, agenda, people
<1>4. CASE ~UNCHANGED <<roster, rows>>
  <2>1. /\ roster[m] = Null /\ rows < MaxRows /\ rows' = rows + 1
        /\ roster' = [roster EXCEPT ![m] = row]
    BY <1>4 DEF AddRosterMember
  <2>2. m \in People
    BY <1>1, AgAt DEF AgendaOps, RosterOps, AgFirm, AgAsked
  <2>3. /\ rows \in Nat /\ rows' \in Nat /\ rows' \in 1..rows' /\ rows' \notin 1..rows
        /\ 1..rows \subseteq 1..rows' /\ rows' \in 1..MaxRows /\ rows' \in 0..MaxRows /\ rows <= rows'
    BY <1>2, <2>1, RowsAssumption DEF AgTypeOK
  <2>4. row \in RosterRow /\ row.id = rows'
    BY <2>3 DEF RosterRow
  <2> HIDE DEF row
  <2>5. roster' \in [People -> RosterRow \cup {Null}]
    BY <1>2, <2>1, <2>4 DEF AgTypeOK
  <2>6. \A u \in People : roster'[u] = IF u = m THEN row ELSE roster[u]
    BY <1>2, <2>1 DEF AgTypeOK
  <2>7. \A u \in People : roster'[u] # Null =>
          \/ u = m /\ roster'[u].id = rows'
          \/ u # m /\ roster[u] # Null /\ roster'[u] = roster[u] /\ roster'[u].id \in 1..rows
    BY <1>2, <2>4, <2>6 DEF RowsNumbered
  <2>8. \A u \in People : roster'[u] # Null => roster'[u].id \in 1..rows'
    BY <2>3, <2>7
  <2>9. \A u, w \in People : roster'[u] # Null /\ roster'[w] # Null /\ roster'[u].id = roster'[w].id => u = w
    BY <1>2, <2>3, <2>7 DEF RowsNumbered
  <2>10. RowsNumbered'
    BY <1>1, <1>2, <2>3, <2>8, <2>9 DEF transport, RowsNumbered, Sits
  <2>11. AgTypeOK' /\ AgendaConsistent' /\ Deleted'
    BY <1>1, <1>2, <2>3, <2>5 DEF transport, AgTypeOK, AgendaConsistent, Deleted
  <2>12. AgOn
    BY <1>1, <1>2, <2>3, <2>7 DEF transport, RowsNumbered, Sits, AgOn
  <2>13. \A u \in People : roster[u] # Null => roster'[u] = roster[u]
    BY <2>1, <2>6
  <2> QED
    BY <2>10, <2>11, <2>12, <2>13 DEF AgTables
<1> QED
  BY <1>3, <1>4
-----------------------------------------------------------------------------
(* A vehicle's passengers: nobody at first, and one of them set. *)
LEMMA SeatsOf ==
  /\ Nobody \in SeatRow /\ \A u \in People : Nobody[u] = Null
  /\ \A P \in SeatRow : P # Null
  /\ \A P \in SeatRow, u \in People, n \in (1..MaxRows) \cup {Null} :
       [P EXCEPT ![u] = n] \in SeatRow /\ \A w \in People : [P EXCEPT ![u] = n][w] = IF w = u THEN n ELSE P[w]
BY SeatsAssumption DEF SeatRow, Nobody

(* A step that puts nobody in a vehicle. *)
LEMMA SeatsShrink ==
  ASSUME AgIInv, UNCHANGED <<calm, people, items, money>>,
         seats' \in [Vehicles -> SeatRow \cup {Null}], pickups' \in [Pickups -> Vehicles \cup {Null}],
         \A p \in Pickups : pickups'[p] # Null => seats'[pickups'[p]] # Null,
         \A v \in Vehicles, u \in People :
           seats'[v] # Null /\ seats'[v][u] # Null => seats[v] # Null /\ seats'[v][u] = seats[v][u]
  PROVE  AgTables' /\ AgOn
<1>1. AgTypeOK /\ AgendaConsistent /\ RowsNumbered /\ Deleted
  BY DEF AgIInv, AgTables
<1>2. Shrinks
  BY DEF people, Shrinks
<1>3. AgTypeOK' /\ AgendaConsistent' /\ Deleted'
  BY <1>1 DEF people, AgTypeOK, AgendaConsistent, Deleted
<1> QED
  BY <1>2, <1>3, ShrinkKeeps DEF AgTables

(* Vehicles come empty, and go with their passengers and pickup points. *)
LEMMA VehicleWrites ==
  ASSUME DeskInv, AgIInv, NEW s \in Slots,
         CreateVehicle(s) \/ WriteVehicle(s) \/ RemovePassenger(s) \/ WritePickup(s)
  PROVE  /\ AgTables' /\ AgOn
         /\ \A v \in Vehicles, u \in People :
              seats[v] # Null /\ seats'[v] # Null /\ seats[v][u] # Null /\ seats'[v][u] # seats[v][u] =>
                RemovePassenger(s) /\ seats[v][u] = frame[s].seen
<1> DEFINE g == frame[s]
           Only == \A v \in Vehicles, u \in People :
              seats[v] # Null /\ seats'[v] # Null /\ seats[v][u] # Null /\ seats'[v][u] # seats[v][u] =>
                RemovePassenger(s) /\ seats[v][u] = frame[s].seen
<1>1. UNCHANGED <<calm, people, items, money>>
  BY DEF CreateVehicle, WriteVehicle, RemovePassenger, WritePickup, Finish
<1>2. /\ seats \in [Vehicles -> SeatRow \cup {Null}] /\ pickups \in [Pickups -> Vehicles \cup {Null}]
      /\ \A p \in Pickups : pickups[p] # Null => seats[pickups[p]] # Null
  BY DEF AgIInv, AgTables, AgTypeOK, AgendaConsistent
<1>3. CASE CreateVehicle(s)
  <2>1. PICK v \in Vehicles : seats[v] = Null /\ seats' = [seats EXCEPT ![v] = Nobody]
    BY <1>3 DEF CreateVehicle
  <2>2. pickups' = pickups
    BY <1>3 DEF CreateVehicle
  <2>3. seats' \in [Vehicles -> SeatRow \cup {Null}]
    BY <1>2, <2>1, SeatsOf
  <2>4. seats'[v] = Nobody /\ \A x \in Vehicles : x # v => seats'[x] = seats[x]
    BY <1>2, <2>1
  <2>5. \A p \in Pickups : pickups'[p] # Null => seats'[pickups'[p]] # Null
    BY <1>2, <2>1, <2>2, <2>4
  <2>6. \A x \in Vehicles, u \in People :
          seats'[x] # Null /\ seats'[x][u] # Null => seats[x] # Null /\ seats'[x][u] = seats[x][u]
    BY <2>4, SeatsOf
  <2> QED
    BY <1>1, <1>2, <2>1, <2>2, <2>3, <2>4, <2>5, <2>6, SeatsShrink
<1>4. CASE UNCHANGED transport
  BY <1>1, <1>2, <1>4, SeatsShrink DEF transport
<1>5. CASE WriteVehicle(s) /\ g.op = "deleteVehicle"
  <2>1. /\ seats' = [seats EXCEPT ![g.on] = Null]
        /\ pickups' = [p \in Pickups |-> IF pickups[p] = g.on THEN Null ELSE pickups[p]]
    BY <1>5 DEF WriteVehicle
  <2>2. \A v \in Vehicles : seats'[v] = Null \/ (v # g.on /\ seats'[v] = seats[v])
    BY <1>2, <2>1
  <2>3. seats' \in [Vehicles -> SeatRow \cup {Null}] /\ pickups' \in [Pickups -> Vehicles \cup {Null}]
    BY <1>2, <2>1
  <2>4. \A v \in Vehicles : v # g.on => seats'[v] = seats[v]
    BY <1>2, <2>1
  <2>5. \A p \in Pickups : pickups'[p] # Null => seats'[pickups'[p]] # Null
    BY <1>2, <2>1, <2>4
  <2> QED
    BY <1>1, <2>2, <2>3, <2>5, SeatsShrink
<1>6. CASE RemovePassenger(s)
  <2>1. /\ pickups' = pickups
        /\ seats' = [v \in Vehicles |-> IF seats[v] = Null THEN Null
                      ELSE [u \in People |-> IF seats[v][u] = g.seen THEN Null ELSE seats[v][u]]]
    BY <1>6 DEF RemovePassenger
  <2>2. ASSUME NEW v \in Vehicles, seats[v] # Null
        PROVE  /\ seats'[v] \in SeatRow
               /\ \A u \in People : seats'[v][u] = IF seats[v][u] = g.seen THEN Null ELSE seats[v][u]
    <3>1. seats[v] \in SeatRow
      BY <1>2, <2>2
    <3> DEFINE row == [u \in People |-> IF seats[v][u] = g.seen THEN Null ELSE seats[v][u]]
    <3>2. row \in SeatRow /\ \A u \in People : row[u] = IF seats[v][u] = g.seen THEN Null ELSE seats[v][u]
      BY <3>1 DEF SeatRow
    <3>3. seats'[v] = row
      BY <2>1, <2>2
    <3> QED
      BY <3>2, <3>3
  <2>3. \A v \in Vehicles : seats[v] = Null => seats'[v] = Null
    BY <2>1
  <2>4. seats' \in [Vehicles -> SeatRow \cup {Null}]
    BY <1>2, <2>1, <2>2, <2>3
  <2>5. \A p \in Pickups : pickups'[p] # Null => seats'[pickups'[p]] # Null
    BY <1>2, <2>1, <2>2, SeatsOf
  <2>6. pickups' \in [Pickups -> Vehicles \cup {Null}]
    BY <1>2, <2>1
  <2> QED
    BY <1>1, <1>6, <2>2, <2>3, <2>4, <2>5, <2>6, SeatsShrink
<1>7. CASE WritePickup(s) /\ ~UNCHANGED transport
  <2>1. seats' = seats
    BY <1>7 DEF WritePickup
  <2>2. g.op \in PickupOps => g.on \in Vehicles
    BY AgAt DEF AgendaOps, AgFirm, AgAsked
  <2>3. PICK p : \/ pickups' = [pickups EXCEPT ![p] = Null]
                 \/ /\ g.op = "addPickupPoint" /\ seats[g.on] # Null
                    /\ pickups' = [pickups EXCEPT ![p] = g.on]
    BY <1>7, <2>1 DEF WritePickup, transport
  <2>4. CASE pickups' = [pickups EXCEPT ![p] = Null]
    <3>1. pickups' \in [Pickups -> Vehicles \cup {Null}]
      BY <1>2, <2>4
    <3>2. \A q \in Pickups : pickups'[q] # Null => pickups'[q] = pickups[q]
      BY <1>2, <2>4
    <3> QED
      BY <1>1, <1>2, <2>1, <3>1, <3>2, SeatsShrink
  <2>5. CASE g.op = "addPickupPoint" /\ seats[g.on] # Null /\ pickups' = [pickups EXCEPT ![p] = g.on]
    <3>1. g.on \in Vehicles
      BY <2>2, <2>5 DEF PickupOps
    <3>2. pickups' \in [Pickups -> Vehicles \cup {Null}]
      BY <1>2, <2>5, <3>1
    <3>3. \A q \in Pickups : pickups'[q] # Null => pickups'[q] = g.on \/ pickups'[q] = pickups[q]
      BY <1>2, <2>5
    <3> QED
      BY <1>1, <1>2, <2>1, <2>5, <3>2, <3>3, SeatsShrink
  <2> QED
    BY <2>3, <2>4, <2>5
<1>8. CASE WriteVehicle(s) /\ g.op # "deleteVehicle"
  BY <1>4, <1>8 DEF WriteVehicle
<1> QED
  BY <1>3, <1>4, <1>5, <1>6, <1>7, <1>8

(* A passenger added gets the next number, where nobody sat. *)
LEMMA AddPassengerWrite ==
  ASSUME DeskInv, AgIInv, NEW s \in Slots, AddPassenger(s)
  PROVE  /\ AgTables' /\ AgOn
         /\ \A v \in Vehicles, u \in People : Sits(v, u) => seats'[v][u] = seats[v][u]
<1> DEFINE g   == frame[s]
           old == seats[g.on]
           row == [old EXCEPT ![g.who] = rows']
<1>1. UNCHANGED <<calm, event, members, roster, items, pickups, money>> /\ g.op = "addPassenger"
  BY DEF AddPassenger, Writes, Finish, Throw, Proceed
<1>2. AgTypeOK /\ AgendaConsistent /\ RowsNumbered /\ Deleted
  BY DEF AgIInv, AgTables
<1>3. CASE UNCHANGED <<seats, rows>>
  BY <1>1, <1>3, AgSame DEF AgIInv, agenda, people, transport
<1>4. CASE ~UNCHANGED <<seats, rows>>
  <2>1. /\ old # Null /\ EntryId(g) = Null /\ rows < MaxRows /\ rows' = rows + 1
        /\ seats' = [seats EXCEPT ![g.on] = row]
    BY <1>4 DEF AddPassenger
  <2>2. g.who \in People /\ g.on \in Vehicles
    BY <1>1, AgAt DEF AgendaOps, SeatOps, AgFirm, AgAsked
  <2>3. old[g.who] = Null
    BY <1>1, <2>1 DEF EntryId, RosterOps
  <2>4. /\ rows \in Nat /\ rows' \in Nat /\ rows' \in 1..rows' /\ rows' \notin 1..rows
        /\ 1..rows \subseteq 1..rows' /\ rows' \in 1..MaxRows /\ rows' \in 0..MaxRows /\ rows <= rows'
    BY <1>2, <2>1, RowsAssumption DEF AgTypeOK
  <2>5. seats \in [Vehicles -> SeatRow \cup {Null}] /\ old \in SeatRow
    BY <1>2, <2>1, <2>2 DEF AgTypeOK
  <2>6. row \in SeatRow /\ row # Null /\ \A w \in People : row[w] = IF w = g.who THEN rows' ELSE old[w]
    BY <2>2, <2>4, <2>5, SeatsOf
  <2>7. PICK m \in People, c \in Vehicles : m = g.who /\ c = g.on
    BY <2>2
  <2> HIDE DEF row
  <2>8. /\ seats' \in [Vehicles -> SeatRow \cup {Null}] /\ seats'[c] # Null
        /\ seats'[c][m] = rows' /\ \A w \in People : w # m => seats'[c][w] = seats[c][w]
        /\ \A v \in Vehicles : v # c => seats'[v] = seats[v]
    BY <2>1, <2>5, <2>6, <2>7
  <2>9. seats[c] # Null /\ seats[c][m] = Null
    BY <2>1, <2>3, <2>7
  <2> HIDE DEF g, old
  <2>10. \A v \in Vehicles, u \in People : seats'[v] # Null /\ seats'[v][u] # Null =>
           \/ v = c /\ u = m /\ seats'[v][u] = rows'
           \/ Sits(v, u) /\ seats'[v][u] = seats[v][u] /\ seats'[v][u] \in 1..rows
    BY <1>2, <2>8, <2>9 DEF RowsNumbered, Sits
  <2>11. \A v \in Vehicles, u \in People : seats'[v] # Null /\ seats'[v][u] # Null => seats'[v][u] \in 1..rows'
    BY <2>4, <2>10
  <2>12. \A v, x \in Vehicles, u, w \in People :
           seats'[v] # Null /\ seats'[v][u] # Null /\ seats'[x] # Null /\ seats'[x][w] # Null
             /\ seats'[v][u] = seats'[x][w] => v = x /\ u = w
    BY <1>2, <2>4, <2>10 DEF RowsNumbered
  <2>13. \A u \in People : roster'[u] # Null => roster'[u].id \in 1..rows'
    BY <1>1, <1>2, <2>4 DEF RowsNumbered
  <2>14. RowsNumbered'
    BY <1>1, <1>2, <2>11, <2>12, <2>13 DEF RowsNumbered, Sits
  <2>15. AgTypeOK' /\ AgendaConsistent' /\ Deleted'
    BY <1>1, <1>2, <2>4, <2>8, <2>9 DEF AgTypeOK, AgendaConsistent, Deleted
  <2>16. AgOn
    BY <1>1, <1>2, <2>4, <2>10 DEF RowsNumbered, AgOn
  <2>17. \A v \in Vehicles, u \in People : Sits(v, u) => seats'[v][u] = seats[v][u]
    BY <2>8, <2>9 DEF Sits
  <2> QED
    BY <2>14, <2>15, <2>16, <2>17 DEF AgTables
<1> QED
  BY <1>3, <1>4 DEF Sits

(* The finance row is paid, and since when, together. *)
LEMMA MoneyWrite ==
  ASSUME DeskInv, AgIInv, NEW s \in Slots, UpsertFinance(s)
  PROVE  AgTables' /\ AgOn
<1> DEFINE g == frame[s]
<1>1. UNCHANGED <<calm, people, items, transport>> /\ g.op = "upsertFinance"
  BY DEF UpsertFinance, Writes, Finish
<1>2. AgTypeOK /\ AgendaConsistent /\ RowsNumbered /\ Deleted
  BY DEF AgIInv, AgTables
<1>3. g.arg = Null \/ g.arg \in BOOLEAN
  BY <1>1, AgAt DEF AgendaOps, AgFirm, AgAsked
<1>4. money \in MoneyRow \cup {Null} /\ (money # Null => money.isPaid = money.paidAt)
  BY <1>2 DEF AgTypeOK, AgendaConsistent
<1>5. money' \in MoneyRow \cup {Null} /\ (money' # Null => money'.isPaid = money'.paidAt)
  <2>1. \A b \in BOOLEAN :
          LET row == [isPaid |-> b, paidAt |-> b] IN row \in MoneyRow /\ row.isPaid = row.paidAt
    BY DEF MoneyRow
  <2>2. CASE money' = money
    BY <1>4, <2>2
  <2>3. CASE \E b \in BOOLEAN : money' = [isPaid |-> b, paidAt |-> b]
    BY <2>1, <2>3
  <2> QED
    BY <1>3, <2>2, <2>3 DEF UpsertFinance
<1>6. AgTypeOK' /\ AgendaConsistent' /\ RowsNumbered' /\ Deleted'
  BY <1>1, <1>2, <1>5 DEF people, transport, AgTypeOK, AgendaConsistent, RowsNumbered, Sits, Deleted
<1>7. AgOn
  BY <1>1, <1>2, RowsAssumption DEF people, transport, AgTypeOK, AgOn, Sits
<1> QED
  BY <1>6, <1>7 DEF AgTables
-----------------------------------------------------------------------------
(* The last steps of the handlers. *)
LEMMA AgWrites ==
  ASSUME DeskInv, AgIInv, NEW s \in Slots,
         \/ CreateEvent(s) \/ WriteEvent(s) \/ AddRosterMember(s) \/ UpdateRosterMember(s)
         \/ RemoveRosterMember(s) \/ CreateItem(s) \/ WriteItem(s) \/ CreateVehicle(s) \/ WriteVehicle(s)
         \/ AddPassenger(s) \/ RemovePassenger(s) \/ WritePickup(s) \/ UpsertFinance(s)
  PROVE  /\ frame[s].op \in AgendaOps /\ frame[s].pc = "write"
         /\ Throw(s) \/ \E notice : Finish(s, notice)
         /\ AgTables' /\ AgOn
<1>1. frame[s].op \in AgendaOps /\ frame[s].pc = "write"
  BY DEF CreateEvent, WriteEvent, AddRosterMember, UpdateRosterMember, RemoveRosterMember, CreateItem, WriteItem,
     CreateVehicle, WriteVehicle, AddPassenger, RemovePassenger, WritePickup, UpsertFinance, Writes, AtStep,
     AgendaOps, EventOps, RosterOps, ItemOps, VehicleOps, SeatOps, PickupOps
<1>2. Throw(s) \/ \E notice : Finish(s, notice)
  BY DEF CreateEvent, WriteEvent, AddRosterMember, UpdateRosterMember, RemoveRosterMember, CreateItem, WriteItem,
     CreateVehicle, WriteVehicle, AddPassenger, RemovePassenger, WritePickup, UpsertFinance
<1>3. AgTables' /\ AgOn
  BY EventWrites, AddRosterWrite, EntryWrites, ItemSteps, VehicleWrites, AddPassengerWrite, MoneyWrite
<1> QED
  BY <1>1, <1>2, <1>3

(* Every step of the services. *)
LEMMA AgStep ==
  ASSUME DeskInv, AgIInv, AgNext
  PROVE  AgIInv' /\ (UNCHANGED <<frame, calm>> \/ \E s \in Slots : \E f : Turn(AgendaOps, s, f))
<1>1. CASE MembershipChanges
  BY <1>1, MembersStep
<1>2. ASSUME NEW s \in Slots, AgCall(s) \/ AgHandler(s) \/ AgFail(s)
      PROVE  AgIInv' /\ \E f : Turn(AgendaOps, s, f)
  <2>1. CASE AgFail(s)
    <3>1. /\ frame[s].op \in AgendaOps /\ frame[s].pc # "idle" /\ Fail(s)
          /\ UNCHANGED <<calm, agenda>>
      BY <2>1 DEF AgFail, Fail, AtStep, Throw, Proceed
    <3> QED
      BY <3>1, AgSame, AgEnds DEF AgIInv
  <2>2. CASE \/ CreateEvent(s) \/ WriteEvent(s) \/ AddRosterMember(s) \/ UpdateRosterMember(s)
             \/ RemoveRosterMember(s) \/ CreateItem(s) \/ WriteItem(s) \/ CreateVehicle(s) \/ WriteVehicle(s)
             \/ AddPassenger(s) \/ RemovePassenger(s) \/ WritePickup(s) \/ UpsertFinance(s)
    <3>1. /\ frame[s].op \in AgendaOps /\ frame[s].pc # "idle" /\ AgTables' /\ AgOn
          /\ Throw(s) \/ \E notice : Finish(s, notice)
      BY <2>2, AgWrites
    <3> QED
      BY <3>1, AgEnds
  <2> QED
    BY <1>2, <2>1, <2>2, AgCallStep, AgReadSteps, FindRowSteps DEF AgHandler
<1> QED
  BY <1>1, <1>2 DEF AgNext

-----------------------------------------------------------------------------
(* What the services say is that somebody was put on a roster. *)
LEMMA AgSays == AgNext => said' = Null \/ said'.type = "EVENT_ASSIGNED"
<1>1. CASE MembershipChanges
  BY <1>1 DEF MembershipChanges
<1>2. ASSUME NEW s \in Slots, AgCall(s) \/ AgHandler(s) \/ AgFail(s)
      PROVE  said' = Null \/ said'.type = "EVENT_ASSIGNED"
  <2>1. CASE AgCall(s)
    BY <2>1 DEF AgCall, EventCall, RosterCall, ItemCall, VehicleCall, Open
  <2>2. CASE AgFail(s)
    BY <2>2 DEF AgFail, Fail, Throw, Proceed
  <2>3. CASE AddRosterMember(s)
    BY <2>3 DEF AddRosterMember, Throw, Proceed, Finish
  <2>4. CASE AgHandler(s) /\ ~AddRosterMember(s)
    BY <2>4 DEF AgHandler, ReadEvent, AskAgRole, FindVehicle, FindTarget, FindEntry, FindItem, FindPickup,
       Authority, Next2, CreateEvent, WriteEvent, UpdateRosterMember, RemoveRosterMember, CreateItem, WriteItem,
       CreateVehicle, WriteVehicle, AddPassenger, RemovePassenger, WritePickup, UpsertFinance, Throw, Proceed, Finish
  <2> QED
    BY <1>2, <2>1, <2>2, <2>3, <2>4
<1> QED
  BY <1>1, <1>2 DEF AgNext

(* Which handlers change an entry of the roster, and a seat. *)
LEMMA RosterChange ==
  ASSUME DeskInv, AgIInv, AgNext, NEW u \in People, roster[u] # Null, roster'[u] # roster[u]
  PROVE  \E s \in Slots : frame[s].op \in RosterOps /\ frame[s].who = u /\ frame[s].seen = roster[u].id
<1>1. PICK s \in Slots : AddRosterMember(s) \/ UpdateRosterMember(s) \/ RemoveRosterMember(s)
  BY DEF AgNext, MembershipChanges, AgCall, AgFail, AgHandler, ReadEvent, AskAgRole, FindVehicle, FindTarget,
     FindEntry, FindItem, FindPickup, CreateEvent, WriteEvent, CreateItem, WriteItem, CreateVehicle, WriteVehicle,
     AddPassenger, RemovePassenger, WritePickup, UpsertFinance, agenda, people
<1>2. ~AddRosterMember(s)
  BY AddRosterWrite
<1>3. frame[s].op \in Follows /\ frame[s].op \in AgendaOps /\ frame[s].op \in RosterOps /\ frame[s].pc = "write"
  BY <1>1, <1>2 DEF UpdateRosterMember, RemoveRosterMember, Writes, AtStep, Follows, AgendaOps, RosterOps
<1>4. RowIs(u, frame[s].seen)
  BY <1>1, <1>2, EntryWrites
<1>5. FoundIn(frame[s], roster, seats, rows)
  BY <1>3, AgAt DEF AgFirm
<1>6. frame[s].who = u /\ frame[s].seen = roster[u].id
  BY <1>3, <1>4, <1>5 DEF FoundIn, RowIs
<1> QED
  BY <1>3, <1>6

LEMMA SeatChange ==
  ASSUME DeskInv, AgIInv, AgNext, NEW v \in Vehicles, NEW u \in People, seats[v] # Null, seats'[v] # Null,
         seats[v][u] # Null, seats'[v][u] # seats[v][u]
  PROVE  \E s \in Slots : frame[s].op = "removePassenger" /\ frame[s].who = u /\ frame[s].on = v
                          /\ frame[s].seen = seats[v][u]
<1>1. PICK s \in Slots : CreateVehicle(s) \/ WriteVehicle(s) \/ AddPassenger(s) \/ RemovePassenger(s)
  BY DEF AgNext, MembershipChanges, AgCall, AgFail, AgHandler, ReadEvent, AskAgRole, FindVehicle, FindTarget,
     FindEntry, FindItem, FindPickup, CreateEvent, WriteEvent, AddRosterMember, UpdateRosterMember,
     RemoveRosterMember, CreateItem, WriteItem, WritePickup, UpsertFinance, agenda, transport
<1>2. ~AddPassenger(s)
  BY AddPassengerWrite DEF Sits
<1>3. RemovePassenger(s) /\ seats[v][u] = frame[s].seen
  BY <1>1, <1>2, VehicleWrites
<1>4. frame[s].op = "removePassenger" /\ frame[s].op \in AgendaOps /\ frame[s].pc = "write"
  BY <1>3 DEF RemovePassenger, Writes, AtStep, AgendaOps, SeatOps
<1>5. FoundIn(frame[s], roster, seats, rows)
  BY <1>4, AgAt DEF AgFirm
<1>6. frame[s].who = u /\ frame[s].on = v
  BY <1>3, <1>4, <1>5 DEF FoundIn
<1> QED
  BY <1>3, <1>4, <1>6

-----------------------------------------------------------------------------
(* When requests take turns, only the handler at work is not idle. *)
LEMMA OnlyOne ==
  ASSUME DeskInv, AgIInv, calm, NEW s \in Slots, frame[s].pc # "idle", frame[s].op \in AgendaOps
  PROVE  /\ \A t \in Slots \ {s} : frame[t] = Idle
         /\ AgFresh(frame[s], event, members, items)
BY AgAt, IdleFrame DEF DeskInv

(* A toggle turns the item over as it is. *)
LEMMA ToggleTurnsOver ==
  ASSUME DeskInv, AgIInv, AgNext, calm, NEW s \in Slots, NEW i \in Items,
         frame[s].op = "toggleComplete", items'[i] # items[i]
  PROVE  items'[i].isCompleted = ~items[i].isCompleted
<1>1. PICK t \in Slots : CreateItem(t) \/ WriteItem(t)
  BY DEF AgNext, MembershipChanges, AgCall, AgFail, AgHandler, ReadEvent, AskAgRole, FindVehicle, FindTarget,
     FindEntry, FindItem, FindPickup, CreateEvent, WriteEvent, AddRosterMember, UpdateRosterMember,
     RemoveRosterMember, CreateVehicle, WriteVehicle, AddPassenger, RemovePassenger, WritePickup, UpsertFinance,
     agenda
<1>2. frame[t].pc = "write" /\ frame[t].op \in AgendaOps
  BY <1>1, AgWrites
<1>3. t = s
  BY <1>2, OnlyOne, AgIdle DEF AgendaOps, ItemOps
<1>4. WriteItem(s)
  BY <1>1, <1>3 DEF CreateItem, Writes
<1> DEFINE g == frame[s]
           done == ~g.seen
           new == [isCompleted |-> done, completedAt |-> done]
<1>5. items' = [items EXCEPT ![g.on] = new]
  BY <1>4 DEF WriteItem
<1>6. items[g.on] # Null /\ g.seen = items[g.on].isCompleted
  BY <1>2, <1>3, OnlyOne DEF AgFresh
<1>7. items \in [Items -> ItemRow \cup {Null}]
  BY DEF AgIInv, AgTables, AgTypeOK
<1>8. new.isCompleted = done
  OBVIOUS
<1> HIDE DEF new
<1>9. i = g.on /\ items'[i] = new
  BY <1>5, <1>7
<1> QED
  BY <1>6, <1>8, <1>9

(* Whoever is put on the roster or in a vehicle is a member, and the event is on. *)
LEMMA RowsGrow ==
  ASSUME DeskInv, AgIInv, AgNext, calm, rows' > rows
  PROVE  Live /\ \E s \in Slots : frame[s].who \in members /\ frame'[s] = Idle /\ frame[s] # Idle
<1>1. PICK s \in Slots : AddRosterMember(s) \/ AddPassenger(s)
  <2>1. rows' # rows
    BY RowsAssumption DEF AgIInv, AgTables, AgTypeOK
  <2> QED
    BY <2>1 DEF AgNext, MembershipChanges, AgCall, AgFail, AgHandler, ReadEvent, AskAgRole, FindVehicle, FindTarget,
       FindEntry, FindItem, FindPickup, CreateEvent, WriteEvent, UpdateRosterMember, RemoveRosterMember, CreateItem,
       WriteItem, CreateVehicle, WriteVehicle, RemovePassenger, WritePickup, UpsertFinance, agenda, people
<1>2. /\ frame[s].op \in AgendaOps /\ frame[s].pc = "write"
      /\ Throw(s) \/ \E notice : Finish(s, notice)
  BY <1>1, AgWrites
<1>3. frame[s].op \in Adds /\ frame[s].op # "createEvent"
  BY <1>1 DEF AddRosterMember, AddPassenger, Writes, Adds
<1>4. AgFresh(frame[s], event, members, items)
  BY <1>2, OnlyOne
<1>5. Live /\ frame[s].who \in members
  BY <1>2, <1>3, <1>4 DEF AgFresh, Live
<1>6. Turn(AgendaOps, s, Idle)
  BY <1>2, StepsEnd
<1>7. frame'[s] = Idle
  BY <1>6, TurnFrames DEF Turn
<1> QED
  BY <1>2, <1>5, <1>7 DEF Idle
=============================================================================
