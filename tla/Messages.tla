------------------------------ MODULE Messages -----------------------------
(***************************************************************************)
(* MessagesService and NotificationsService: what is sent, and what counts *)
(* as read.  In the frames of this module, who is the caller.              *)
(***************************************************************************)
EXTENDS Desk, Naturals, FiniteSets

CONSTANTS
  Writers,      \* users who write to each other
  MaxMessages,  \* messages and notifications a behaviour may create
  PageSize      \* the limit of getConversationWith

ASSUME PagesAssumption == MaxMessages \in Nat /\ PageSize \in Nat \ {0}

MsgOps  == {"send", "getConversationWith", "markRead"}
NoteOps == {"markNoticeRead", "markAllRead", "removeNotice"}
MsgIds  == 1..MaxMessages     \* in the order of createdAt

VARIABLES
  messages,     \* messages[m]: the messages row
  notices,      \* notices[n]: the notifications row about message n
  firing        \* NotificationsService.create calls not awaited by anybody

inbox   == <<messages, notices, firing>>
msgVars == <<desk, inbox>>

MsgRow  == [from : Writers, to : Writers, isRead : BOOLEAN]
NoteRow == [to : Writers, isRead : BOOLEAN]
ASSUME MessagesAssumption == Null \notin MsgRow

Sent    == {m \in MsgIds : messages[m] # Null}

MsgInit ==
  /\ DeskInit
  /\ messages = [m \in MsgIds |-> Null]
  /\ notices = [m \in MsgIds |-> Null]
  /\ firing = {}

-----------------------------------------------------------------------------
(* The calls of the messages and notifications controllers that change      *)
(* something.                                                               *)
MsgAsk(op, pc, u, x) == [Idle EXCEPT !.pc = pc, !.op = op, !.who = u, !.on = x]

MsgCall(s) ==
  /\ UNCHANGED inbox
  /\ \E u \in Writers :
       \/ \E v \in Writers \ {u} :   \* send refuses a message to oneself
            \/ Open(s, MsgAsk("send", "partner", u, v))
            \/ \E page \in {1, 2} :
                 Open(s, [MsgAsk("getConversationWith", "partner", u, v) EXCEPT !.arg = page])
       \/ \E m \in Sent : Open(s, MsgAsk("markRead", "find", u, m))
       \/ \E n \in MsgIds :
            /\ notices[n] # Null
            /\ \E op \in {"markNoticeRead", "removeNotice"} :
                 Open(s, MsgAsk(op, IF op = "removeNotice" THEN "write" ELSE "find", u, n))
       \/ Open(s, MsgAsk("markAllRead", "write", u, Null))

(* The other user may be inactive or gone. *)
FindPartner(s) ==
  /\ AtStep(s, "partner") /\ frame[s].op \in MsgOps
  /\ UNCHANGED inbox
  /\ \/ Throw(s)
     \/ Next2(s, IF frame[s].op = "send" THEN "write" ELSE "page")

SendMessage(s) ==
  LET f == frame[s]
      m == Cardinality(Sent) + 1
  IN
  /\ AtStep(s, "write") /\ f.op = "send"
  /\ m \in MsgIds
  /\ messages' = [messages EXCEPT ![m] = [from |-> f.who, to |-> f.on, isRead |-> FALSE]]
  /\ firing' = firing \cup {m}
  /\ UNCHANGED notices
  /\ Finish(s, [type |-> "MESSAGE_RECEIVED", to |-> f.on, about |-> m])

Between(u, v) == {m \in Sent : {messages[m].from, messages[m].to} = {u, v}}

(* The page-th PageSize messages of the conversation, the latest first. *)
Page(C, page) ==
  {m \in C : LET later == Cardinality({n \in C : n > m})
             IN  later >= (page - 1) * PageSize /\ later < page * PageSize}

ReadPage(s) ==
  LET f == frame[s] IN
  /\ AtStep(s, "page") /\ f.op = "getConversationWith"
  /\ UNCHANGED inbox
  /\ Proceed(s, [f EXCEPT !.pc = "write", !.seen = Page(Between(f.who, f.on), f.arg)])

Unread(u, v) == {m \in Sent : messages[m].from = v /\ messages[m].to = u /\ ~messages[m].isRead}

(* What if updateMany forgot whose messages the conversation holds? *)
MarkInbox(s) ==
  LET f == frame[s] IN
  /\ AtStep(s, "write") /\ f.op = "getConversationWith"
  /\ messages' = [m \in MsgIds |-> IF m \in Sent /\ messages[m].to = f.who
                                   THEN [messages[m] EXCEPT !.isRead = TRUE] ELSE messages[m]]
  /\ UNCHANGED <<notices, firing>>
  /\ Finish(s, Null)

(* The updateMany after the page was read: everything unread from the       *)
(* partner, on that page or not, arrived by then or since.                  *)
MarkConversation(s) ==
  LET f == frame[s] IN
  /\ AtStep(s, "write") /\ f.op = "getConversationWith"
  /\ messages' = [m \in MsgIds |-> IF m \in Unread(f.who, f.on)
                                   THEN [messages[m] EXCEPT !.isRead = TRUE] ELSE messages[m]]
  /\ UNCHANGED <<notices, firing>>
  /\ Finish(s, Null)

(* markRead of either service: findFirst with the recipient, and nothing to *)
(* do if it is read already.                                                *)
FindOwn(s) ==
  LET f   == frame[s]
      row == IF f.op = "markRead" THEN messages[f.on] ELSE notices[f.on]
  IN
  /\ AtStep(s, "find") /\ f.op \in MsgOps \cup NoteOps
  /\ UNCHANGED inbox
  /\ IF row = Null THEN Throw(s)
     ELSE IF row.to # f.who \/ row.isRead THEN Throw(s) ELSE Next2(s, "write")

MarkMessage(s) ==
  LET f == frame[s] IN
  /\ AtStep(s, "write") /\ f.op = "markRead"
  /\ messages' = [messages EXCEPT ![f.on].isRead = TRUE]
  /\ UNCHANGED <<notices, firing>>
  /\ Finish(s, Null)

(* update by id, updateMany and deleteMany of the notifications. *)
WriteNotices(s) ==
  LET f    == frame[s]
      mine == {n \in MsgIds : notices[n] # Null /\ notices[n].to = f.who}
  IN
  /\ AtStep(s, "write") /\ f.op \in NoteOps
  /\ notices' = CASE f.op = "removeNotice" ->
                       [n \in MsgIds |-> IF n = f.on /\ n \in mine THEN Null ELSE notices[n]]
                  [] f.op = "markAllRead" ->
                       [n \in MsgIds |-> IF n \in mine THEN [to |-> f.who, isRead |-> TRUE]
                                         ELSE notices[n]]
                  [] f.op = "markNoticeRead" ->
                       [n \in MsgIds |-> IF n = f.on /\ notices[n] # Null
                                         THEN [notices[n] EXCEPT !.isRead = TRUE] ELSE notices[n]]
  /\ UNCHANGED <<messages, firing>>
  /\ Finish(s, Null)

(* fire: the create settles some time after the caller has gone on, or      *)
(* fails and nobody hears of it.                                            *)
NoticeSettles(m) ==
  /\ m \in firing
  /\ firing' = firing \ {m}
  /\ \/ notices' = [notices EXCEPT ![m] = [to |-> messages[m].to, isRead |-> FALSE]]
     \/ UNCHANGED notices
  /\ said' = Null
  /\ UNCHANGED <<frame, ops, calm, messages>>

MsgHandler(s) ==
  \/ FindPartner(s) \/ SendMessage(s) \/ ReadPage(s) \/ MarkConversation(s)
  \/ FindOwn(s) \/ MarkMessage(s) \/ WriteNotices(s)

MsgFail(s) == frame[s].op \in MsgOps \cup NoteOps /\ Fail(s) /\ UNCHANGED inbox

MsgNext ==
  \/ \E s \in Slots : MsgCall(s) \/ MsgHandler(s) \/ MsgFail(s)
  \/ \E m \in MsgIds : NoticeSettles(m)

MsgSpec == MsgInit /\ [][MsgNext]_msgVars

-----------------------------------------------------------------------------
MsgTypeOK ==
  /\ messages \in [MsgIds -> MsgRow \cup {Null}]
  /\ notices \in [MsgIds -> NoteRow \cup {Null}]
  /\ firing \subseteq Sent

(* A message turns read because its addressee opened the conversation with  *)
(* its author, or marked that very message; opening one conversation leaves *)
(* the others unread.  When requests take turns and the first page holds    *)
(* the conversation, the addressee was shown what is marked.                *)
ReadByItsAddressee ==
  [][\A m \in Sent :
       messages'[m].isRead /\ ~messages[m].isRead =>
         \E s \in Slots :
           /\ frame[s].who = messages[m].to
           /\ \/ frame[s].op = "markRead" /\ frame[s].on = m
              \/ /\ frame[s].op = "getConversationWith" /\ frame[s].on = messages[m].from
                 /\ calm /\ frame[s].arg = 1
                      /\ Cardinality(Between(frame[s].who, frame[s].on)) <= PageSize
                    => m \in frame[s].seen]_msgVars
=============================================================================
