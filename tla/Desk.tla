-------------------------------- MODULE Desk -------------------------------
(***************************************************************************)
(* What the services that keep the rows of one organization share: request *)
(* frames.  InventoryService, FinanceService, EventsService, the daysheet  *)
(* services, MessagesService and AuthService are written in one style: an  *)
(* async handler reads a row, asks for the caller's membership, reads what *)
(* else it needs, and writes by row id; each awaited call is one step and  *)
(* other handlers run between the steps.                                   *)
(*                                                                         *)
(* frame[s] is a handler in progress: pc names the call it makes next, the *)
(* other fields are its parameters (on, who, arg) and what its queries     *)
(* have returned (seen).  A frame that is done can take another request,   *)
(* so behaviours have no last request.                                     *)
(***************************************************************************)

CONSTANTS
  Slots,      \* handlers that may be in progress at the same time
  Groups,     \* sets of operations; the clients of a behaviour use one of them
  Null        \* SQL NULL, undefined, and "no such row"

VARIABLES
  frame,      \* frame[s]: the handler in slot s
  ops,        \* the operations the clients of this behaviour call
  calm,       \* TRUE: the clients of this behaviour wait for each other
  said        \* the notification fired, or the answer given, in the last step

desk == <<frame, ops, calm, said>>

Idle == [pc |-> "idle", op |-> "none", on |-> Null, who |-> Null, arg |-> Null,
         seen |-> Null]

DeskInit ==
  /\ frame = [s \in Slots |-> Idle]
  /\ ops \in Groups
  /\ calm \in BOOLEAN
  /\ said = Null

AtStep(s, pc)  == frame[s].pc = pc
Busy           == \E s \in Slots : ~AtStep(s, "idle")

(* A client's request starts a handler at its first call. *)
Open(s, f) ==
  /\ AtStep(s, "idle")
  /\ f.op \in ops
  /\ calm => ~Busy
  /\ frame' = [frame EXCEPT ![s] = f]
  /\ said' = Null
  /\ UNCHANGED <<ops, calm>>

(* A step that only moves the handler on, or ends it because a check threw. *)
Proceed(s, f) ==
  /\ frame' = [frame EXCEPT ![s] = f]
  /\ said' = Null
  /\ UNCHANGED <<ops, calm>>

Next2(s, pc) == Proceed(s, [frame[s] EXCEPT !.pc = pc])
Throw(s)     == Proceed(s, Idle)

(* The handler's last step; it fires notice (or answers it), or nothing. *)
Finish(s, notice) ==
  /\ frame' = [frame EXCEPT ![s] = Idle]
  /\ said' = notice
  /\ UNCHANGED <<ops, calm>>

(* requireMembership and requireAdminOrOwner.  The membership table belongs *)
(* to OrganizationsService and may change at any time, so either answer is  *)
(* possible whenever it is asked.                                           *)
Authority(s, next) == Next2(s, next) \/ Throw(s)

(* A call rejects, or the process dies between two calls. *)
Fail(s) == ~AtStep(s, "idle") /\ Throw(s)
=============================================================================
