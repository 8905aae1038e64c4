------------------------------- MODULE Agenda ------------------------------
(***************************************************************************)
(* EventsService and the daysheet services: an event, the people on its    *)
(* roster, its schedule, its vehicles with passengers and pickup points,   *)
(* and its finance row.  Every handler begins with the event.              *)
(*                                                                         *)
(* Roster and passenger rows are numbered in the order they are inserted,  *)
(* so a number names one row for ever, as a cuid does.                     *)
(***************************************************************************)
EXTENDS Desk, Naturals

CONSTANTS
  People,       \* users who may be put on a roster or in a vehicle
  Items,        \* identifiers of event_schedule_items
  Vehicles,     \* identifiers of event_vehicles
  Pickups,      \* identifiers of vehicle_pickup_points
  MaxRows       \* roster and passenger rows inserted in a behaviour

ASSUME RowsAssumption == MaxRows \in Nat

EventOps   == {"createEvent", "updateEvent", "updateDaysheet", "removeEvent"}
RosterOps  == {"addRosterMember", "updateRosterMember", "removeRosterMember"}
ItemOps    == {"createItem", "updateItem", "toggleComplete", "removeItem"}
VehicleOps == {"createVehicle", "updateVehicle", "deleteVehicle"}
SeatOps    == {"addPassenger", "removePassenger"}
PickupOps  == {"addPickupPoint", "updatePickupPoint", "deletePickupPoint"}
AgendaOps  == EventOps \cup RosterOps \cup ItemOps \cup VehicleOps \cup SeatOps
                \cup PickupOps \cup {"upsertFinance"}

VARIABLES
  event,        \* the events row: its status and whether deletedAt is set
  members,      \* the users who are members of its organization
  roster,       \* roster[u]: the event_roster row of the unique key (event, user)
  items,        \* items[i]: the event_schedule_items row
  seats,        \* seats[v]: Null, or who sits in vehicle v by which row
  pickups,      \* pickups[p]: the vehicle of the vehicle_pickup_points row
  money,        \* the event_finance row
  rows          \* the number of roster and passenger rows inserted so far

people    == <<event, members, roster, rows>>
transport == <<seats, pickups>>
agenda    == <<people, items, transport, money>>
agVars    == <<desk, agenda>>

Statuses  == {"none", "DRAFT", "CONFIRMED", "CANCELLED"}
RosterRow == [id : 1..MaxRows, answered : BOOLEAN]
ItemRow   == [isCompleted : BOOLEAN, completedAt : BOOLEAN]
MoneyRow  == [isPaid : BOOLEAN, paidAt : BOOLEAN]
SeatRow   == [People -> (1..MaxRows) \cup {Null}]   \* a vehicle's passenger rows

ASSUME SeatsAssumption == Null \notin SeatRow

Nobody == [u \in People |-> Null]

Live == event.status # "none" /\ ~event.deleted

AgInit ==
  /\ DeskInit
  /\ event \in {[status |-> st, deleted |-> FALSE] : st \in {"none", "DRAFT"}}
  /\ members \in SUBSET People
  /\ \/ rows = 0 /\ roster = Nobody
     \/ /\ rows = 1 /\ rows <= MaxRows /\ Live
        /\ \E u \in members :
             roster = [Nobody EXCEPT ![u] = [id |-> 1, answered |-> FALSE]]
  /\ items = [i \in Items |-> Null]
  /\ seats = [v \in Vehicles |-> Null]
  /\ pickups = [p \in Pickups |-> Null]
  /\ money = Null

-----------------------------------------------------------------------------
(* The calls of the events, schedule, logistics and event-finance           *)
(* controllers that change something.                                       *)
AgAsk(op, x, u, v) ==
  [Idle EXCEPT !.pc = IF op = "createEvent" THEN "role" ELSE "event",
               !.op = op, !.on = x, !.who = u, !.arg = v]

EventCall(s) ==
  \/ \E op \in {"createEvent", "updateDaysheet", "removeEvent", "createItem", "createVehicle"} :
       Open(s, AgAsk(op, Null, Null, Null))
  \/ \E st \in Statuses \ {"none"} : Open(s, AgAsk("updateEvent", Null, Null, st))
  \/ \E paid \in BOOLEAN \cup {Null} : Open(s, AgAsk("upsertFinance", Null, Null, paid))

RosterCall(s) ==
  \E u \in People :
    \/ \E op \in {"addRosterMember", "removeRosterMember"} : Open(s, AgAsk(op, Null, u, Null))
    \/ \E answer \in BOOLEAN : Open(s, AgAsk("updateRosterMember", Null, u, answer))

ItemCall(s) ==
  \E i \in Items :
    /\ items[i] # Null
    /\ \/ \E op \in {"toggleComplete", "removeItem"} : Open(s, AgAsk(op, i, Null, Null))
       \/ \E d \in BOOLEAN \cup {Null} : Open(s, AgAsk("updateItem", i, Null, d))

VehicleCall(s) ==
  \E v \in Vehicles :
    /\ seats[v] # Null
    /\ \/ \E op \in {"updateVehicle", "deleteVehicle", "addPickupPoint"} :
            Open(s, AgAsk(op, v, Null, Null))
       \/ \E op \in SeatOps, u \in People : Open(s, AgAsk(op, v, u, Null))
       \/ \E op \in {"updatePickupPoint", "deletePickupPoint"}, p \in Pickups :
            pickups[p] # Null /\ Open(s, AgAsk(op, v, Null, p))

AgCall(s) ==
  /\ EventCall(s) \/ RosterCall(s) \/ ItemCall(s) \/ VehicleCall(s)
  /\ UNCHANGED agenda

(* OrganizationsService lets people in and out, in calm behaviours between  *)
(* two requests.  It touches no roster and no seat.                         *)
MembershipChanges ==
  /\ calm => ~Busy
  /\ ops \cap (RosterOps \cup SeatOps) # {}
  /\ \E u \in People : members' = IF u \in members THEN members \ {u} ELSE members \cup {u}
  /\ said' = Null
  /\ UNCHANGED <<frame, ops, calm, event, roster, rows, items, transport, money>>

-----------------------------------------------------------------------------
(* getEventOrFail, and findFirst with deletedAt: null. *)
ReadEvent(s) ==
  /\ AtStep(s, "event") /\ frame[s].op \in AgendaOps
  /\ UNCHANGED agenda
  /\ IF Live THEN Next2(s, "role") ELSE Throw(s)

AfterRole(op) ==
  CASE op \in {"addRosterMember"}                            -> "target"
    [] op \in {"updateRosterMember", "removeRosterMember"}   -> "entry"
    [] op \in {"updateItem", "toggleComplete", "removeItem"} -> "item"
    [] op \in {"updateVehicle", "deleteVehicle"} \cup SeatOps \cup PickupOps -> "vehicle"
    [] OTHER -> "write"

AskAgRole(s) ==
  /\ AtStep(s, "role") /\ frame[s].op \in AgendaOps
  /\ UNCHANGED agenda
  /\ Authority(s, AfterRole(frame[s].op))

(* getVehicleOrFail, for every operation on what belongs to a vehicle. *)
FindVehicle(s) ==
  LET f == frame[s] IN
  /\ AtStep(s, "vehicle") /\ f.op \in AgendaOps
  /\ UNCHANGED agenda
  /\ IF seats[f.on] = Null THEN Throw(s)
     ELSE Next2(s, CASE f.op = "addPassenger"    -> "target"
                     [] f.op = "removePassenger" -> "entry"
                     [] f.op \in {"updatePickupPoint", "deletePickupPoint"} -> "pickup"
                     [] OTHER                    -> "write")

(* What if any user could be added? *)
FindAnybody(s) ==
  /\ AtStep(s, "target") /\ frame[s].op \in AgendaOps
  /\ UNCHANGED agenda
  /\ Next2(s, "entry")

(* The person added must be a member of the organization. *)
FindTarget(s) ==
  /\ AtStep(s, "target") /\ frame[s].op \in AgendaOps
  /\ UNCHANGED agenda
  /\ IF frame[s].who \in members THEN Next2(s, "entry") ELSE Throw(s)

(* The row of the unique key: of the roster, or of the vehicle's passengers. *)
EntryId(f) ==
  IF f.op \in RosterOps
  THEN IF roster[f.who] = Null THEN Null ELSE roster[f.who].id
  ELSE IF seats[f.on] = Null THEN Null ELSE seats[f.on][f.who]

FindEntry(s) ==
  LET f == frame[s]
      adds == f.op \in {"addRosterMember", "addPassenger"}
  IN
  /\ AtStep(s, "entry") /\ f.op \in AgendaOps
  /\ UNCHANGED agenda
  /\ IF adds <=> EntryId(f) = Null
     THEN Proceed(s, [f EXCEPT !.pc = "write", !.seen = EntryId(f)])
     ELSE Throw(s)

(* getItemOrFail and getPickupOrFail. *)
FindItem(s) ==
  LET f == frame[s] IN
  /\ AtStep(s, "item") /\ f.op \in AgendaOps
  /\ UNCHANGED agenda
  /\ IF items[f.on] = Null THEN Throw(s)
     ELSE Proceed(s, [f EXCEPT !.pc = "write", !.seen = items[f.on].isCompleted])

FindPickup(s) ==
  LET f == frame[s] IN
  /\ AtStep(s, "pickup") /\ f.op \in AgendaOps
  /\ UNCHANGED agenda
  /\ IF pickups[f.arg] = f.on THEN Next2(s, "write") ELSE Throw(s)

-----------------------------------------------------------------------------
(* The writes. *)
Writes(s, O) == AtStep(s, "write") /\ frame[s].op \in O

(* Another event than the one followed may be created.  It has no roster.   *)
CreateEvent(s) ==
  /\ Writes(s, {"createEvent"})
  /\ event' = IF event.status = "none" THEN [event EXCEPT !.status = "DRAFT"] ELSE event
  /\ UNCHANGED <<members, roster, rows, items, transport, money>>
  /\ Finish(s, Null)

(* update and remove write the row by its id; it is never deleted for real. *)
WriteEvent(s) ==
  LET f == frame[s] IN
  /\ Writes(s, EventOps \ {"createEvent"})
  /\ CASE f.op = "updateEvent"    -> event' = [event EXCEPT !.status = f.arg]
       [] f.op = "updateDaysheet" -> UNCHANGED event
       [] f.op = "removeEvent"    -> event' = [status |-> "CANCELLED", deleted |-> TRUE]
  /\ UNCHANGED <<members, roster, rows, items, transport, money>>
  /\ Finish(s, Null)

(* The unique index refuses a second row for the same person. *)
AddRosterMember(s) ==
  LET f == frame[s] IN
  /\ Writes(s, {"addRosterMember"})
  /\ UNCHANGED <<event, members, items, transport, money>>
  /\ IF roster[f.who] # Null THEN UNCHANGED <<roster, rows>> /\ Throw(s)
     ELSE /\ rows < MaxRows
          /\ rows' = rows + 1
          /\ roster' = [roster EXCEPT ![f.who] = [id |-> rows', answered |-> FALSE]]
          /\ Finish(s, [type |-> "EVENT_ASSIGNED", to |-> f.who])

(* What if the answer were written by the key and not by the row's id? *)
AnswerByKey(s) ==
  LET f == frame[s] IN
  /\ Writes(s, {"updateRosterMember"})
  /\ roster[f.who] # Null
  /\ roster' = [roster EXCEPT ![f.who].answered = f.arg]
  /\ UNCHANGED <<event, members, rows, items, transport, money>>
  /\ Finish(s, Null)

RowIs(u, id) == roster[u] # Null /\ roster[u].id = id

UpdateRosterMember(s) ==
  LET f == frame[s] IN
  /\ Writes(s, {"updateRosterMember"})
  /\ UNCHANGED <<event, members, rows, items, transport, money>>
  /\ \/ \E u \in People :
          /\ RowIs(u, f.seen)
          /\ roster' = [roster EXCEPT ![u].answered = f.arg]
          /\ Finish(s, Null)
     \/ /\ \A u \in People : ~RowIs(u, f.seen)
        /\ UNCHANGED roster
        /\ Throw(s)

RemoveRosterMember(s) ==
  LET f == frame[s] IN
  /\ Writes(s, {"removeRosterMember"})
  /\ roster' = [u \in People |-> IF RowIs(u, f.seen) THEN Null ELSE roster[u]]
  /\ UNCHANGED <<event, members, rows, items, transport, money>>
  /\ Finish(s, Null)

CreateItem(s) ==
  /\ Writes(s, {"createItem"})
  /\ \E i \in Items :
       /\ items[i] = Null
       /\ items' = [items EXCEPT ![i] = [isCompleted |-> FALSE, completedAt |-> FALSE]]
  /\ UNCHANGED <<people, transport, money>>
  /\ Finish(s, Null)

(* What if completedAt were left as it is when an item is reopened? *)
WriteItemKeepsDate(s) ==
  LET f    == frame[s]
      done == IF f.op = "toggleComplete" THEN ~f.seen ELSE f.arg
  IN
  /\ Writes(s, {"updateItem", "toggleComplete", "removeItem"})
  /\ items[f.on] # Null /\ done # Null
  /\ items' = [items EXCEPT ![f.on] = [isCompleted |-> done, completedAt |-> @.completedAt \/ done]]
  /\ UNCHANGED <<people, transport, money>>
  /\ Finish(s, Null)

(* update and toggleComplete set completedAt with isCompleted. *)
WriteItem(s) ==
  LET f    == frame[s]
      done == IF f.op = "toggleComplete" THEN ~f.seen ELSE f.arg
  IN
  /\ Writes(s, {"updateItem", "toggleComplete", "removeItem"})
  /\ UNCHANGED <<people, transport, money>>
  /\ IF items[f.on] = Null THEN UNCHANGED items /\ Throw(s)
     ELSE /\ items' = CASE f.op = "removeItem" -> [items EXCEPT ![f.on] = Null]
                        [] f.op # "removeItem" /\ done # Null ->
                             [items EXCEPT ![f.on] = [isCompleted |-> done, completedAt |-> done]]
                        [] OTHER -> items
          /\ Finish(s, Null)

CreateVehicle(s) ==
  /\ Writes(s, {"createVehicle"})
  /\ \E v \in Vehicles : seats[v] = Null /\ seats' = [seats EXCEPT ![v] = Nobody]
  /\ UNCHANGED <<people, items, pickups, money>>
  /\ Finish(s, Null)

(* Deleting a vehicle deletes its passengers and pickups (onDelete). *)
WriteVehicle(s) ==
  LET f == frame[s] IN
  /\ Writes(s, VehicleOps \ {"createVehicle"})
  /\ UNCHANGED <<people, items, money>>
  /\ \/ f.op = "updateVehicle" /\ UNCHANGED transport
     \/ /\ f.op = "deleteVehicle"
        /\ seats' = [seats EXCEPT ![f.on] = Null]
        /\ pickups' = [p \in Pickups |-> IF pickups[p] = f.on THEN Null ELSE pickups[p]]
  /\ Finish(s, Null)

(* The foreign key refuses a vehicle that has gone, the unique index a      *)
(* second seat.  Nothing compares the passengers with the capacity.         *)
AddPassenger(s) ==
  LET f == frame[s] IN
  /\ Writes(s, {"addPassenger"})
  /\ UNCHANGED <<event, members, roster, items, pickups, money>>
  /\ IF seats[f.on] = Null \/ EntryId(f) # Null THEN UNCHANGED <<seats, rows>> /\ Throw(s)
     ELSE /\ rows < MaxRows
          /\ rows' = rows + 1
          /\ seats' = [seats EXCEPT ![f.on][f.who] = rows']
          /\ Finish(s, Null)

RemovePassenger(s) ==
  LET f == frame[s] IN
  /\ Writes(s, {"removePassenger"})
  /\ seats' = [v \in Vehicles |-> IF seats[v] = Null THEN Null
       ELSE [u \in People |-> IF seats[v][u] = f.seen THEN Null ELSE seats[v][u]]]
  /\ UNCHANGED <<people, items, pickups, money>>
  /\ Finish(s, Null)

WritePickup(s) ==
  LET f == frame[s] IN
  /\ Writes(s, PickupOps)
  /\ UNCHANGED <<people, items, seats, money>>
  /\ \/ /\ f.op = "addPickupPoint" /\ seats[f.on] # Null
        /\ \E p \in Pickups : pickups[p] = Null /\ pickups' = [pickups EXCEPT ![p] = f.on]
     \/ /\ f.op = "addPickupPoint" /\ seats[f.on] = Null
        /\ UNCHANGED pickups
     \/ f.op = "updatePickupPoint" /\ UNCHANGED pickups
     \/ f.op = "deletePickupPoint" /\ pickups' = [pickups EXCEPT ![f.arg] = Null]
  /\ Finish(s, Null)

(* upsert by eventId: isPaid and paidAt go together. *)
UpsertFinance(s) ==
  LET f   == frame[s]
      old == IF money = Null THEN [isPaid |-> FALSE, paidAt |-> FALSE] ELSE money
  IN
  /\ Writes(s, {"upsertFinance"})
  /\ money' = IF f.arg = Null THEN old ELSE [isPaid |-> f.arg, paidAt |-> f.arg]
  /\ UNCHANGED <<people, items, transport>>
  /\ Finish(s, Null)

AgHandler(s) ==
  \/ ReadEvent(s) \/ AskAgRole(s) \/ FindVehicle(s) \/ FindTarget(s) \/ FindEntry(s)
  \/ FindItem(s) \/ FindPickup(s)
  \/ CreateEvent(s) \/ WriteEvent(s) \/ AddRosterMember(s) \/ UpdateRosterMember(s) \/ RemoveRosterMember(s)
  \/ CreateItem(s) \/ WriteItem(s) \/ CreateVehicle(s) \/ WriteVehicle(s) \/ AddPassenger(s)
  \/ RemovePassenger(s) \/ WritePickup(s) \/ UpsertFinance(s)

AgFail(s) == frame[s].op \in AgendaOps /\ Fail(s) /\ UNCHANGED agenda

AgNext == MembershipChanges \/ \E s \in Slots : AgCall(s) \/ AgHandler(s) \/ AgFail(s)

AgSpec == AgInit /\ [][AgNext]_agVars

-----------------------------------------------------------------------------
AgTypeOK ==
  /\ event \in [status : Statuses, deleted : BOOLEAN]
  /\ members \subseteq People
  /\ roster \in [People -> RosterRow \cup {Null}]
  /\ items \in [Items -> ItemRow \cup {Null}]
  /\ seats \in [Vehicles -> SeatRow \cup {Null}]
  /\ pickups \in [Pickups -> Vehicles \cup {Null}]
  /\ money \in MoneyRow \cup {Null}
  /\ rows \in 0..MaxRows

(* Flags and their dates agree, and nothing refers to a vehicle that has    *)
(* gone, however handlers interleave.                                       *)
AgendaConsistent ==
  /\ \A i \in Items : items[i] # Null => items[i].isCompleted = items[i].completedAt
  /\ money # Null => money.isPaid = money.paidAt
  /\ \A p \in Pickups : pickups[p] # Null => seats[pickups[p]] # Null

(* An answer or a removal reaches the roster or passenger row it was        *)
(* decided about and no other: if that person was removed and put back      *)
(* meanwhile, the new row is left alone.                                    *)
RowWritesHitTheirRow ==
  [][\A u \in People :
       /\ roster[u] # Null /\ roster'[u] # roster[u] =>
            \E s \in Slots : frame[s].op \in RosterOps /\ frame[s].who = u
                               /\ frame[s].seen = roster[u].id
       /\ \A v \in Vehicles :
            seats[v] # Null /\ seats'[v] # Null /\ seats[v][u] # Null
              /\ seats'[v][u] # seats[v][u] =>
            \E s \in Slots : frame[s].op = "removePassenger" /\ frame[s].who = u
                               /\ frame[s].on = v /\ frame[s].seen = seats[v][u]]_agVars

(* When requests take turns, a handler's reads are still true when it       *)
(* writes: a toggle turns the item over; people are put on the roster or in *)
(* a vehicle of an event that is on and an organization they are in; and no *)
(* update brings a deleted event's status back.                             *)
WritesFollowReads ==
  [][calm =>
       /\ \A s \in Slots, i \in Items :
            frame[s].op = "toggleComplete" /\ items'[i] # items[i] =>
              items'[i].isCompleted = ~items[i].isCompleted
       /\ rows' > rows => Live /\ \E s \in Slots :
            frame[s].who \in members /\ frame'[s] = Idle /\ frame[s] # Idle
       /\ event'.deleted => event'.status = "CANCELLED"]_agVars
=============================================================================
