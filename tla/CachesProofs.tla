--------------------------- MODULE CachesProofs ----------------------------
(***************************************************************************)
(* The services of Caches for any number of handlers, users, addresses and *)
(* events, any Lag and any length of a behaviour.  Each account of time is *)
(* an invariant of one service, and a behaviour has the clock of one:      *)
(*                                                                         *)
(*   StorageAccess   while an answer in Redis is wrong, the time since the *)
(*                   membership changed and the time the answer has left   *)
(*                   add up to no more than when it was stored, and what a *)
(*                   SET that is under way carries was true at its start;  *)
(*   Geo             what a handler still waits for and the time since the *)
(*                   last call add up to the whole gap;                    *)
(*   Weather         the age and the time left of a forecast add up to the *)
(*                   lifetime of the distance at which it was asked for.   *)
(***************************************************************************)
EXTENDS Caches, TLAPS

-----------------------------------------------------------------------------
(* StorageMembershipService and StoragePresignedService. *)
AccessSteps == {"idle", "orgs", "access", "edit", "cached", "db", "asset", "lookup", "sign", "store",
          "delete", "invalidate"}

Signed == [age : Nat, cleared : BOOLEAN]

AccessRow ==
  [pc : AccessSteps, op : AccessOps \cup {"none"}, on : BOOLEAN \cup {Null}, who : Users \cup {Null},
   arg : Nat \cup {Null}, seen : Signed \cup {Null}]

Asking == {"orgs", "access", "cached", "db"}

(* A call takes at most Lag, a membership is asked for one of Users, and    *)
(* the URL a handler has signed is as old as the call that stores it.       *)
AccessSound(f) ==
  /\ f.pc # "idle" => f.arg \in 0..Lag
  /\ f.pc \in Asking => f.who \in Users
  /\ f.pc = "store" => f.seen \in Signed /\ f.seen.age <= f.arg

AccessFrame == {f \in AccessRow : AccessSound(f)}

Wrong(u, is) == (u \in member /\ is = FALSE) \/ (u \notin member /\ is = TRUE)

TablesOK ==
  /\ member \subseteq Users
  /\ steady \in [Users -> 0..Longest]
  /\ answers \in [Users -> Answer \cup {Null}]
  /\ setting \subseteq [who : Users, is : BOOLEAN, waited : 0..Lag]
  /\ uploader \in Users \cup {Null}
  /\ isPublic \in BOOLEAN /\ cleared \in BOOLEAN

AnswersFresh ==
  \A u \in Users : answers[u] # Null /\ Wrong(u, answers[u].is) =>
    steady[u] + answers[u].left <= MembershipTtl + Lag

SetsFresh == \A w \in setting : Wrong(w.who, w.is) => steady[w.who] <= w.waited

UrlFresh ==
  url # Null =>
    /\ url \in [signed : Signed, left : 1..UrlTtl]
    /\ url.signed.age + url.left <= UrlTtl + Lag

OneAtATime ==
  calm => \A s, t \in Slots : frame[s].pc # "idle" /\ frame[t].pc # "idle" => s = t

(* When requests take turns, no URL outlives an invalidation. *)
ClearedIsGone ==
  calm => /\ url # Null => url.signed.cleared = cleared
          /\ \A s \in Slots : frame[s].pc = "store" => frame[s].seen.cleared = cleared

AccessIInv ==
  /\ TablesOK /\ frame \in [Slots -> AccessFrame]
  /\ AnswersFresh /\ SetsFresh /\ UrlFresh
  /\ OneAtATime /\ ClearedIsGone

(* A slot whose handler has ended holds a frame the invariant allows. *)
LEMMA IdleAccess == Idle \in AccessFrame /\ Idle.pc = "idle"
BY DEF Idle, AccessFrame, AccessRow, AccessSound, AccessSteps, Asking

(* The arithmetic of the lifetimes. *)
LEMMA Numbers ==
  /\ Lag \in Nat /\ MembershipTtl = 10 /\ UrlLife = 10 /\ UrlTtl = 8 /\ SensitiveLife = 2
  /\ Longest = 10 + Lag
BY LagAssumption DEF MembershipTtl, UrlLife, UrlTtl, SensitiveLife, Longest

-----------------------------------------------------------------------------
(* Before the first request the caches are empty. *)
LEMMA AccessStarts == AccessInit => AccessIInv
<1> SUFFICES ASSUME AccessInit PROVE AccessIInv
  OBVIOUS
<1>1. frame \in [Slots -> AccessFrame] /\ \A s \in Slots : frame[s].pc = "idle"
  BY IdleAccess DEF AccessInit, DeskInit
<1>2. TablesOK
  <2>1. Longest \in 0..Longest
    BY Numbers
  <2>2. steady \in [Users -> 0..Longest]
    BY <2>1 DEF AccessInit
  <2>3. answers \in [Users -> Answer \cup {Null}]
    BY DEF AccessInit
  <2> QED
    BY <2>2, <2>3 DEF AccessInit, TablesOK
<1>3. AnswersFresh /\ SetsFresh /\ UrlFresh
  BY DEF AccessInit, AnswersFresh, SetsFresh, UrlFresh
<1>4. OneAtATime /\ ClearedIsGone
  BY <1>1 DEF AccessInit, OneAtATime, ClearedIsGone
<1> QED
  BY <1>1, <1>2, <1>3, <1>4 DEF AccessIInv

(* A handler's frame is replaced, and the tables change as the rest of the   *)
(* invariant allows: a handler starts only when it may, and a URL is         *)
(* invalidated by a handler that ends.                                      *)
LEMMA HandlerMoves ==
  ASSUME AccessIInv, NEW s \in Slots, NEW f \in AccessFrame,
         frame' = [frame EXCEPT ![s] = f], calm' = calm,
         \/ f.pc = "idle" \/ frame[s].pc # "idle"
         \/ (calm => ~Busy),
         f.pc = "store" => f.seen.cleared = cleared',
         \/ cleared' = cleared
         \/ f.pc = "idle" /\ frame[s].pc # "idle",
         calm /\ url' # Null => url'.signed.cleared = cleared',
         TablesOK', AnswersFresh', SetsFresh', UrlFresh'
  PROVE  AccessIInv'
<1>1. frame \in [Slots -> AccessFrame]
  BY DEF AccessIInv
<1>2. frame' \in [Slots -> AccessFrame]
  BY <1>1
<1>3. OneAtATime'
  <2> SUFFICES ASSUME calm, NEW t \in Slots, NEW u \in Slots,
                      frame'[t].pc # "idle", frame'[u].pc # "idle"
               PROVE  t = u
    BY DEF OneAtATime
  <2>1. \A v \in Slots : v # s => frame'[v] = frame[v]
    BY <1>1
  <2>2. frame'[s] = f
    BY <1>1
  <2>3. \A v, w \in Slots : frame[v].pc # "idle" /\ frame[w].pc # "idle" => v = w
    BY DEF AccessIInv, OneAtATime
  <2> QED
    BY <2>1, <2>2, <2>3 DEF Busy, AtStep
<1>4. ClearedIsGone'
  <2> SUFFICES ASSUME calm, NEW t \in Slots, frame'[t].pc = "store"
               PROVE  frame'[t].seen.cleared = cleared'
    BY DEF ClearedIsGone
  <2>1. CASE t = s
    BY <1>1, <2>1
  <2>2. CASE t # s
    <3>1. frame'[t] = frame[t]
      BY <1>1, <2>2
    <3>2. frame[t].seen.cleared = cleared
      BY <3>1 DEF AccessIInv, ClearedIsGone
    <3>3. frame[s].pc = "idle"
      BY <2>2, <3>1 DEF AccessIInv, OneAtATime
    <3> QED
      BY <3>1, <3>2, <3>3
  <2> QED
    BY <2>1, <2>2
<1> QED
  BY <1>2, <1>3, <1>4 DEF AccessIInv

(* The same when nothing but the frame changes. *)
LEMMA QuietMoves ==
  ASSUME AccessIInv, UNCHANGED access, NEW s \in Slots, NEW f \in AccessFrame,
         frame' = [frame EXCEPT ![s] = f], calm' = calm,
         \/ f.pc = "idle" \/ frame[s].pc # "idle"
         \/ (calm => ~Busy),
         f.pc = "store" => f.seen.cleared = cleared
  PROVE  AccessIInv'
<1>1. /\ member' = member /\ steady' = steady /\ answers' = answers /\ setting' = setting
      /\ url' = url /\ uploader' = uploader /\ isPublic' = isPublic /\ cleared' = cleared
  BY DEF access, redis
<1>2. TablesOK' /\ AnswersFresh' /\ SetsFresh' /\ UrlFresh'
  BY <1>1 DEF AccessIInv, TablesOK, AnswersFresh, SetsFresh, UrlFresh, Wrong
<1>3. calm /\ url' # Null => url'.signed.cleared = cleared'
  BY <1>1 DEF AccessIInv, ClearedIsGone
<1> QED
  BY <1>1, <1>2, <1>3, HandlerMoves

(* A handler that ends without a change. *)
LEMMA EndKeeps ==
  ASSUME AccessIInv, UNCHANGED access, NEW s \in Slots, frame' = [frame EXCEPT ![s] = Idle], calm' = calm
  PROVE  AccessIInv'
BY IdleAccess, QuietMoves

(* A handler that goes on to a call before any URL is signed. *)
LEMMA GoKeeps ==
  ASSUME AccessIInv, UNCHANGED access, NEW s \in Slots, frame[s].pc # "idle",
         NEW pc \in AccessSteps \ {"idle", "store"}, pc \in Asking => frame[s].who \in Users,
         Go(s, pc, Null)
  PROVE  AccessIInv'
<1> DEFINE g == frame[s]
           f == [g EXCEPT !.pc = pc, !.arg = 0, !.seen = Null]
<1>1. g \in AccessRow
  BY DEF AccessIInv, AccessFrame
<1>2. frame' = [frame EXCEPT ![s] = f] /\ calm' = calm
  BY DEF Go, Proceed
<1> HIDE DEF g
<1>3. f \in AccessRow /\ f.pc = pc /\ f.arg = 0 /\ f.who = g.who
  BY <1>1 DEF AccessRow
<1> HIDE DEF f
<1>4. AccessSound(f)
  BY <1>3, Numbers DEF AccessSound, g
<1>5. f.pc # "store"
  BY <1>3
<1> QED
  BY <1>2, <1>3, <1>4, <1>5, QuietMoves DEF AccessFrame

-----------------------------------------------------------------------------
(* A request of a client opens a handler. *)
LEMMA AccessCallKeeps ==
  ASSUME AccessIInv, NEW s \in Slots, AccessCall(s)
  PROVE  AccessIInv'
<1>1. UNCHANGED access
  BY DEF AccessCall
<1>2. ASSUME NEW op \in AccessOps, NEW pc \in AccessSteps \ {"idle", "store"}, NEW u \in Users \cup {Null},
             pc \in Asking => u \in Users,
             Open(s, [Idle EXCEPT !.pc = pc, !.op = op, !.who = u, !.arg = 0])
      PROVE  AccessIInv'
  <2> DEFINE f == [Idle EXCEPT !.pc = pc, !.op = op, !.who = u, !.arg = 0]
  <2>1. frame' = [frame EXCEPT ![s] = f] /\ calm' = calm /\ (calm => ~Busy)
    BY <1>2 DEF Open
  <2>2. f \in AccessRow /\ f.pc = pc /\ f.who = u /\ f.arg = 0
    BY IdleAccess DEF AccessFrame, AccessRow
  <2> HIDE DEF f
  <2>3. AccessSound(f)
    BY <1>2, <2>2, Numbers DEF AccessSound
  <2> QED
    BY <1>1, <2>1, <2>2, <2>3, QuietMoves DEF AccessFrame
<1>3. \/ \E u \in Users, op \in {"check", "download"} :
           Open(s, [Idle EXCEPT !.pc = "cached", !.op = op, !.who = u, !.arg = 0])
      \/ \E u \in Users, op \in ByIdOps :
           Open(s, [Idle EXCEPT !.pc = "orgs", !.op = op, !.who = u, !.arg = 0])
      \/ Open(s, [Idle EXCEPT !.pc = "delete", !.op = "deleteObject", !.who = Null, !.arg = 0])
  BY DEF AccessCall
<1>4. {"cached", "orgs", "delete"} \subseteq AccessSteps \ {"idle", "store"} /\ "delete" \notin Asking
  BY DEF AccessSteps, Asking
<1>5. {"check", "download", "deleteObject"} \cup ByIdOps \subseteq AccessOps
  BY DEF AccessOps
<1>6. CASE \E u \in Users, op \in {"check", "download"} :
             Open(s, [Idle EXCEPT !.pc = "cached", !.op = op, !.who = u, !.arg = 0])
  BY <1>2, <1>4, <1>5, <1>6
<1>7. CASE \E u \in Users, op \in ByIdOps :
             Open(s, [Idle EXCEPT !.pc = "orgs", !.op = op, !.who = u, !.arg = 0])
  BY <1>2, <1>4, <1>5, <1>7
<1>8. CASE Open(s, [Idle EXCEPT !.pc = "delete", !.op = "deleteObject", !.who = Null, !.arg = 0])
  BY <1>2, <1>4, <1>5, <1>8
<1> QED
  BY <1>3, <1>6, <1>7, <1>8

(* The memberships of the caller are noted in the frame. *)
LEMMA ListOrgsKeeps ==
  ASSUME AccessIInv, NEW s \in Slots, ListOrgs(s)
  PROVE  AccessIInv'
<1> DEFINE g == frame[s]
           f == [g EXCEPT !.pc = "access", !.arg = 0, !.on = g.who \in member]
<1>1. g \in AccessRow /\ AccessSound(g) /\ g.pc = "orgs"
  BY DEF AccessIInv, AccessFrame, ListOrgs, AtStep
<1>2. frame' = [frame EXCEPT ![s] = f] /\ calm' = calm /\ UNCHANGED access
  BY DEF ListOrgs, Proceed
<1> HIDE DEF g
<1>3. f.pc = "access" /\ f.arg = 0 /\ f.who = g.who
  BY <1>1 DEF AccessRow
<1>4. "access" \in AccessSteps /\ (g.who \in member) \in BOOLEAN
  BY DEF AccessSteps
<1>5. f \in AccessRow
  BY <1>1, <1>4 DEF AccessRow
<1> HIDE DEF f
<1>6. AccessSound(f)
  BY <1>1, <1>3, Numbers DEF AccessSound, Asking
<1> QED
  BY <1>1, <1>2, <1>3, <1>5, <1>6, QuietMoves DEF AccessFrame, g

(* The steps that ask, or end, without changing a table. *)
LEMMA AskKeeps ==
  ASSUME AccessIInv, NEW s \in Slots,
         AssertAccess(s) \/ MissAnswer(s) \/ FindAsset(s) \/ LookupUrl(s) \/ DeleteFromBucket(s)
  PROVE  AccessIInv'
<1>1. UNCHANGED access
  BY DEF AssertAccess, MissAnswer, FindAsset, LookupUrl, DeleteFromBucket
<1>2. frame[s] \in AccessRow /\ AccessSound(frame[s])
  BY DEF AccessIInv, AccessFrame
<1>3. /\ {"cached", "edit", "db", "sign", "lookup", "invalidate"} \subseteq AccessSteps \ {"idle", "store"}
      /\ {"access", "cached", "db"} \subseteq Asking
      /\ {"edit", "sign", "lookup", "invalidate"} \cap Asking = {}
  BY DEF AccessSteps, Asking
<1>4. CASE AssertAccess(s)
  <2>1. frame[s].pc = "access" /\ frame[s].who \in Users
    BY <1>2, <1>3, <1>4 DEF AssertAccess, AtStep, AccessSound
  <2>2. Go(s, "cached", Null) \/ Go(s, "edit", Null) \/ Throw(s)
    BY <1>4 DEF AssertAccess
  <2> QED
    BY <1>1, <1>3, <2>1, <2>2, GoKeeps, EndKeeps DEF Throw, Proceed
<1>5. CASE MissAnswer(s)
  <2>1. frame[s].pc = "cached" /\ frame[s].who \in Users
    BY <1>2, <1>3, <1>5 DEF MissAnswer, AtStep, AccessSound
  <2> QED
    BY <1>1, <1>3, <1>5, <2>1, GoKeeps DEF MissAnswer
<1>6. CASE FindAsset(s)
  <2>1. frame[s].pc = "asset"
    BY <1>6 DEF FindAsset, AtStep
  <2>2. \/ Go(s, "sign", Null) \/ Go(s, "lookup", Null)
        \/ Finish(s, [type |-> "cdn"])
    BY <1>6 DEF FindAsset
  <2> QED
    BY <1>1, <1>3, <2>1, <2>2, GoKeeps, EndKeeps DEF Finish
<1>7. CASE LookupUrl(s)
  <2>1. frame[s].pc = "lookup"
    BY <1>7 DEF LookupUrl, AtStep
  <2> QED
    BY <1>1, <1>3, <1>7, <2>1, GoKeeps, EndKeeps DEF LookupUrl, Served, Finish
<1>8. CASE DeleteFromBucket(s)
  <2>1. frame[s].pc = "delete"
    BY <1>8 DEF DeleteFromBucket, AtStep
  <2> QED
    BY <1>1, <1>3, <1>8, <2>1, GoKeeps DEF DeleteFromBucket
<1> QED
  BY <1>4, <1>5, <1>6, <1>7, <1>8

(* What assertMembership answers ends the handler or lets it go on. *)
LEMMA Decided ==
  ASSUME AccessIInv, NEW s \in Slots, frame[s].pc # "idle", Admitted(s) \/ Refused(s)
  PROVE  \E f \in AccessFrame : /\ frame' = [frame EXCEPT ![s] = f] /\ calm' = calm
                          /\ f.pc \in {"idle", "asset"}
<1>1. CASE Go(s, "asset", Null)
  <2> DEFINE g == frame[s]
             f == [g EXCEPT !.pc = "asset", !.arg = 0, !.seen = Null]
  <2>1. g \in AccessRow
    BY DEF AccessIInv, AccessFrame
  <2>2. frame' = [frame EXCEPT ![s] = f] /\ calm' = calm
    BY <1>1 DEF Go, Proceed
  <2>3. "asset" \in AccessSteps
    BY DEF AccessSteps
  <2> HIDE DEF g
  <2>4. f \in AccessRow /\ f.pc = "asset" /\ f.arg = 0
    BY <2>1, <2>3 DEF AccessRow
  <2> HIDE DEF f
  <2>5. AccessSound(f)
    BY <2>4, Numbers DEF AccessSound, Asking
  <2> QED
    BY <2>2, <2>4, <2>5 DEF AccessFrame
<1>2. CASE frame' = [frame EXCEPT ![s] = Idle] /\ calm' = calm
  BY <1>2, IdleAccess
<1> QED
  BY <1>1, <1>2 DEF Admitted, Refused, Finish

(* A hit in the cache. *)
LEMMA ReadAnswerKeeps ==
  ASSUME AccessIInv, NEW s \in Slots, ReadAnswer(s)
  PROVE  AccessIInv'
<1>1. UNCHANGED access /\ frame[s].pc # "idle"
  BY DEF ReadAnswer, AtStep
<1>2. PICK f \in AccessFrame : /\ frame' = [frame EXCEPT ![s] = f] /\ calm' = calm
                         /\ f.pc \in {"idle", "asset"}
  BY <1>1, Decided DEF ReadAnswer
<1> QED
  BY <1>1, <1>2, QuietMoves

(* The table's answer is stored as it is. *)
LEMMA AskTableKeeps ==
  ASSUME AccessIInv, NEW s \in Slots, AskTable(s)
  PROVE  AccessIInv'
<1> DEFINE u == frame[s].who
           w == [who |-> u, is |-> u \in member, waited |-> 0]
<1>1. /\ setting' = setting \cup {w} /\ frame[s].pc = "db" /\ member' = member /\ steady' = steady
      /\ answers' = answers /\ url' = url /\ uploader' = uploader /\ isPublic' = isPublic
      /\ cleared' = cleared
  BY DEF AskTable, AtStep
<1>2. PICK f \in AccessFrame : /\ frame' = [frame EXCEPT ![s] = f] /\ calm' = calm
                         /\ f.pc \in {"idle", "asset"}
  BY <1>1, Decided DEF AskTable
<1>3. u \in Users
  BY <1>1 DEF AccessIInv, AccessFrame, AccessSound, Asking
<1>4. w.who = u /\ w.waited = 0 /\ ~Wrong(u, w.is)
  BY DEF Wrong
<1>5. w \in [who : Users, is : BOOLEAN, waited : 0..Lag]
  BY <1>3, Numbers
<1> HIDE DEF w
<1>6. TablesOK'
  BY <1>1, <1>5 DEF AccessIInv, TablesOK
<1>7. SetsFresh'
  BY <1>1, <1>4 DEF AccessIInv, SetsFresh, Wrong
<1>8. AnswersFresh' /\ UrlFresh'
  BY <1>1 DEF AccessIInv, AnswersFresh, UrlFresh, Wrong
<1>9. calm /\ url' # Null => url'.signed.cleared = cleared'
  BY <1>1 DEF AccessIInv, ClearedIsGone
<1> QED
  BY <1>1, <1>2, <1>6, <1>7, <1>8, <1>9, HandlerMoves

(* What a handler signs is new, and from before any later invalidation. *)
LEMMA SignKeeps ==
  ASSUME AccessIInv, NEW s \in Slots, SignUrl(s)
  PROVE  AccessIInv'
<1> DEFINE signed == [age |-> 0, cleared |-> cleared]
           g == frame[s]
           f == [g EXCEPT !.pc = "store", !.arg = 0, !.seen = signed]
<1>1. UNCHANGED access /\ g.pc = "sign" /\ g \in AccessRow
  BY DEF SignUrl, AtStep, AccessIInv, AccessFrame
<1>2. CASE Served(s, signed, SensitiveLife)
  BY <1>1, <1>2, EndKeeps DEF Served, Finish
<1>3. CASE Go(s, "store", signed)
  <2>1. signed \in Signed /\ signed.age = 0 /\ signed.cleared = cleared
    BY DEF AccessIInv, TablesOK, Signed
  <2>2. frame' = [frame EXCEPT ![s] = f] /\ calm' = calm
    BY <1>3 DEF Go, Proceed
  <2>3. "store" \in AccessSteps /\ "store" \notin Asking
    BY DEF AccessSteps, Asking
  <2> HIDE DEF signed, g
  <2>4. f \in AccessRow /\ f.pc = "store" /\ f.arg = 0 /\ f.seen = signed
    BY <1>1, <2>1, <2>3 DEF AccessRow
  <2> HIDE DEF f
  <2>5. AccessSound(f)
    BY <2>1, <2>3, <2>4, Numbers DEF AccessSound
  <2> QED
    BY <1>1, <2>1, <2>2, <2>4, <2>5, QuietMoves DEF AccessFrame, g
<1> QED
  BY <1>2, <1>3 DEF SignUrl

(* An entry lives less long than its URL by more than the call that stores   *)
(* it may take.                                                             *)
LEMMA StoreKeeps ==
  ASSUME AccessIInv, NEW s \in Slots, StoreUrl(s)
  PROVE  AccessIInv'
<1> DEFINE signed == frame[s].seen
           entry == [signed |-> signed, left |-> UrlTtl]
<1>1. /\ member' = member /\ steady' = steady /\ answers' = answers /\ setting' = setting
      /\ uploader' = uploader /\ isPublic' = isPublic /\ cleared' = cleared
      /\ frame[s].pc = "store" /\ frame' = [frame EXCEPT ![s] = Idle] /\ calm' = calm
  BY DEF StoreUrl, AtStep, Served, Finish
<1>2. url' = entry \/ url' = url
  BY DEF StoreUrl
<1>3. signed \in Signed /\ signed.age <= Lag
  BY <1>1, Numbers DEF AccessIInv, AccessFrame, AccessRow, AccessSound, Signed
<1>4. entry.signed = signed /\ entry.left = UrlTtl /\ entry \in [signed : Signed, left : 1..UrlTtl]
  BY <1>3, Numbers
<1> HIDE DEF entry
<1>5. UrlFresh'
  BY <1>2, <1>3, <1>4, Numbers DEF AccessIInv, UrlFresh, Signed
<1>6. TablesOK' /\ AnswersFresh' /\ SetsFresh'
  BY <1>1 DEF AccessIInv, TablesOK, AnswersFresh, SetsFresh, Wrong
<1>7. calm /\ url' # Null => url'.signed.cleared = cleared'
  BY <1>1, <1>2, <1>4 DEF AccessIInv, ClearedIsGone
<1> QED
  BY <1>1, <1>5, <1>6, <1>7, IdleAccess, HandlerMoves

(* An invalidation leaves no URL from before it. *)
LEMMA InvalidateKeeps ==
  ASSUME AccessIInv, NEW s \in Slots, InvalidateDownloadCache(s)
  PROVE  AccessIInv'
<1>1. /\ member' = member /\ steady' = steady /\ answers' = answers /\ setting' = setting
      /\ uploader' = uploader /\ isPublic' = isPublic
      /\ frame[s].pc = "invalidate" /\ frame' = [frame EXCEPT ![s] = Idle] /\ calm' = calm
  BY DEF InvalidateDownloadCache, AtStep, Finish
<1>2. (url' = Null /\ cleared' = TRUE) \/ (url' = url /\ cleared' = cleared)
  BY DEF InvalidateDownloadCache
<1>3. TablesOK' /\ AnswersFresh' /\ SetsFresh'
  BY <1>1, <1>2 DEF AccessIInv, TablesOK, AnswersFresh, SetsFresh, Wrong
<1>4. UrlFresh'
  BY <1>2 DEF AccessIInv, UrlFresh
<1>5. calm /\ url' # Null => url'.signed.cleared = cleared'
  BY <1>2 DEF AccessIInv, ClearedIsGone
<1> QED
  BY <1>1, <1>2, <1>3, <1>4, <1>5, IdleAccess, HandlerMoves

(* The asset's visibility is no part of the account. *)
LEMMA UpdateKeeps ==
  ASSUME AccessIInv, NEW s \in Slots, UpdateMetadata(s)
  PROVE  AccessIInv'
<1>1. /\ member' = member /\ steady' = steady /\ answers' = answers /\ setting' = setting
      /\ url' = url /\ uploader' = uploader /\ isPublic' \in BOOLEAN /\ cleared' = cleared
      /\ frame' = [frame EXCEPT ![s] = Idle] /\ calm' = calm
  BY DEF UpdateMetadata, Finish, redis
<1>2. TablesOK' /\ AnswersFresh' /\ SetsFresh' /\ UrlFresh'
  BY <1>1 DEF AccessIInv, TablesOK, AnswersFresh, SetsFresh, UrlFresh, Wrong
<1>3. calm /\ url' # Null => url'.signed.cleared = cleared'
  BY <1>1 DEF AccessIInv, ClearedIsGone
<1> QED
  BY <1>1, <1>2, <1>3, IdleAccess, HandlerMoves

-----------------------------------------------------------------------------
(* A SET that lands brings an answer that was true when it was started, and  *)
(* it was started no longer than Lag ago.                                   *)
LEMMA SetLandsKeeps == AccessIInv /\ SetLands => AccessIInv'
<1> SUFFICES ASSUME AccessIInv, SetLands PROVE AccessIInv'
  OBVIOUS
<1>1. PICK w \in setting :
        /\ setting' = setting \ {w}
        /\ \/ answers' = [answers EXCEPT ![w.who] = [is |-> w.is, left |-> MembershipTtl]]
           \/ answers' = answers
        /\ frame' = frame /\ calm' = calm /\ member' = member /\ steady' = steady /\ url' = url
        /\ uploader' = uploader /\ isPublic' = isPublic /\ cleared' = cleared
  BY DEF SetLands
<1>2. /\ answers \in [Users -> Answer \cup {Null}] /\ steady \in [Users -> 0..Longest]
      /\ w.who \in Users /\ w.is \in BOOLEAN /\ w.waited \in 0..Lag
  BY DEF AccessIInv, TablesOK
<1> DEFINE e == [is |-> w.is, left |-> MembershipTtl]
<1>3. e \in Answer /\ e.is = w.is /\ e.left = MembershipTtl
  BY <1>2, Numbers DEF Answer
<1> HIDE DEF e
<1>4. answers' = [answers EXCEPT ![w.who] = e] \/ answers' = answers
  BY <1>1 DEF e
<1>5. TablesOK'
  BY <1>1, <1>2, <1>3, <1>4 DEF AccessIInv, TablesOK
<1>6. SetsFresh' /\ UrlFresh'
  BY <1>1 DEF AccessIInv, SetsFresh, UrlFresh, Wrong
<1>7. AnswersFresh'
  <2> SUFFICES ASSUME NEW u \in Users, answers'[u] # Null, Wrong(u, answers[u].is)'
               PROVE  steady'[u] + answers'[u].left <= MembershipTtl + Lag
    BY DEF AnswersFresh
  <2>1. CASE answers'[u] = answers[u]
    BY <1>1, <2>1 DEF AccessIInv, AnswersFresh, Wrong
  <2>2. CASE u = w.who /\ answers'[u] = e
    <3>1. Wrong(u, w.is)
      BY <1>1, <1>3, <2>2 DEF Wrong
    <3>2. steady[u] <= w.waited
      BY <2>2, <3>1 DEF AccessIInv, SetsFresh
    <3> QED
      BY <1>1, <1>2, <1>3, <2>2, <3>2, Numbers
  <2> QED
    BY <1>2, <1>4, <2>1, <2>2
<1>8. OneAtATime' /\ ClearedIsGone'
  BY <1>1 DEF AccessIInv, OneAtATime, ClearedIsGone
<1> QED
  BY <1>1, <1>5, <1>6, <1>7, <1>8 DEF AccessIInv

(* What a membership that changes makes wrong, it makes wrong only now. *)
LEMMA MemberChangesKeeps == AccessIInv /\ MemberChanges => AccessIInv'
<1> SUFFICES ASSUME AccessIInv, MemberChanges PROVE AccessIInv'
  OBVIOUS
<1>1. PICK u \in Users :
        /\ member' = IF u \in member THEN member \ {u} ELSE member \cup {u}
        /\ steady' = [steady EXCEPT ![u] = 0]
  BY DEF MemberChanges
<1>2. /\ frame' = frame /\ calm' = calm /\ answers' = answers /\ setting' = setting /\ url' = url
      /\ uploader' = uploader /\ isPublic' = isPublic /\ cleared' = cleared
  BY DEF MemberChanges, redis
<1>3. /\ answers \in [Users -> Answer \cup {Null}] /\ steady \in [Users -> 0..Longest]
      /\ setting \subseteq [who : Users, is : BOOLEAN, waited : 0..Lag]
  BY DEF AccessIInv, TablesOK
<1>4. steady' \in [Users -> 0..Longest] /\ steady'[u] = 0
  BY <1>1, <1>3, Numbers
<1>5. \A v \in Users : v # u => steady'[v] = steady[v] /\ (v \in member' <=> v \in member)
  BY <1>1, <1>3
<1>6. TablesOK'
  BY <1>1, <1>2, <1>4 DEF AccessIInv, TablesOK
<1>7. AnswersFresh'
  <2> SUFFICES ASSUME NEW v \in Users, answers'[v] # Null, Wrong(v, answers[v].is)'
               PROVE  steady'[v] + answers'[v].left <= MembershipTtl + Lag
    BY DEF AnswersFresh
  <2>1. CASE v = u
    BY <1>2, <1>3, <1>4, <2>1, Numbers DEF Answer
  <2>2. CASE v # u
    BY <1>2, <1>5, <2>2 DEF AccessIInv, AnswersFresh, Wrong
  <2> QED
    BY <2>1, <2>2
<1>8. SetsFresh'
  <2> SUFFICES ASSUME NEW w \in setting, Wrong(w.who, w.is)'
               PROVE  steady'[w.who] <= w.waited
    BY <1>2 DEF SetsFresh
  <2>1. w.who \in Users /\ w.waited \in 0..Lag
    BY <1>3
  <2>2. CASE w.who = u
    BY <1>4, <2>1, <2>2, Numbers
  <2>3. CASE w.who # u
    BY <1>5, <2>1, <2>3 DEF AccessIInv, SetsFresh, Wrong
  <2> QED
    BY <2>2, <2>3
<1>9. UrlFresh' /\ OneAtATime' /\ ClearedIsGone'
  BY <1>2 DEF AccessIInv, UrlFresh, OneAtATime, ClearedIsGone
<1> QED
  BY <1>2, <1>6, <1>7, <1>8, <1>9 DEF AccessIInv

(* Half a minute in the life of a handler: the URL it holds ages with the    *)
(* call that stores it.                                                     *)
LEMMA FrameAges ==
  ASSUME NEW f \in AccessFrame, f.pc # "idle" => f.arg < Lag
  PROVE  /\ LaterFrame(f) \in AccessFrame
         /\ LaterFrame(f).pc = f.pc
         /\ f.pc = "store" => LaterFrame(f).seen.cleared = f.seen.cleared
<1>1. CASE f.pc = "idle"
  BY <1>1 DEF LaterFrame
<1>2. CASE f.pc # "idle"
  <2> DEFINE seen == IF f.seen = Null THEN Null ELSE Older(f.seen)
             g == [f EXCEPT !.arg = f.arg + 1, !.seen = seen]
  <2>1. LaterFrame(f) = g
    BY <1>2 DEF LaterFrame
  <2>2. f \in AccessRow /\ f.arg \in 0..Lag /\ f.arg + 1 \in 0..Lag /\ AccessSound(f)
    BY <1>2, Numbers DEF AccessFrame, AccessSound
  <2>3. seen \in Signed \cup {Null}
    BY <2>2 DEF AccessRow, Older, Signed
  <2>4. f.pc = "store" =>
          seen \in Signed /\ seen.age <= f.arg + 1 /\ seen.cleared = f.seen.cleared
    BY <2>2 DEF AccessSound, Older, Signed
  <2> HIDE DEF seen
  <2>5. f.arg + 1 \in Nat
    BY <2>2
  <2>6. g \in AccessRow /\ g.pc = f.pc /\ g.who = f.who /\ g.arg = f.arg + 1 /\ g.seen = seen
    BY <2>2, <2>3, <2>5 DEF AccessRow
  <2> HIDE DEF g
  <2>7. AccessSound(g)
    BY <2>2, <2>4, <2>6 DEF AccessSound
  <2> QED
    BY <2>1, <2>4, <2>6, <2>7 DEF AccessFrame
<1> QED
  BY <1>1, <1>2

(* Half a minute takes from an answer what it adds to the time since the     *)
(* membership changed.                                                      *)
LEMMA HalfMinuteKeeps == AccessIInv /\ HalfMinute => AccessIInv'
<1> SUFFICES ASSUME AccessIInv, HalfMinute PROVE AccessIInv'
  OBVIOUS
<1>1. /\ frame' = [s \in Slots |-> LaterFrame(frame[s])]
      /\ setting' = {[w EXCEPT !.waited = @ + 1] : w \in setting}
      /\ answers' = [u \in Users |-> Shorter(answers[u])]
      /\ url' = IF Shorter(url) = Null THEN Null ELSE [Shorter(url) EXCEPT !.signed = Older(@)]
      /\ steady' = [u \in Users |-> IF steady[u] < Longest THEN steady[u] + 1 ELSE Longest]
      /\ calm' = calm /\ member' = member /\ uploader' = uploader /\ isPublic' = isPublic
      /\ cleared' = cleared
  BY DEF HalfMinute
<1>2. /\ answers \in [Users -> Answer \cup {Null}] /\ steady \in [Users -> 0..Longest]
      /\ setting \subseteq [who : Users, is : BOOLEAN, waited : 0..Lag]
  BY DEF AccessIInv, TablesOK
<1>3. \A s \in Slots : /\ frame'[s] \in AccessFrame /\ frame'[s].pc = frame[s].pc
                       /\ frame[s].pc = "store" => frame'[s].seen.cleared = frame[s].seen.cleared
  <2> SUFFICES ASSUME NEW s \in Slots
               PROVE  /\ frame'[s] \in AccessFrame /\ frame'[s].pc = frame[s].pc
                      /\ frame[s].pc = "store" => frame'[s].seen.cleared = frame[s].seen.cleared
    OBVIOUS
  <2>1. frame[s] \in AccessFrame /\ (frame[s].pc # "idle" => frame[s].arg < Lag)
    BY DEF AccessIInv, HalfMinute, AtStep
  <2>2. frame'[s] = LaterFrame(frame[s])
    BY <1>1
  <2> QED
    BY <2>1, <2>2, FrameAges
<1>4. \A w \in setting : /\ w.waited + 1 \in 0..Lag
                         /\ [w EXCEPT !.waited = @ + 1] =
                              [who |-> w.who, is |-> w.is, waited |-> w.waited + 1]
  BY <1>2, Numbers DEF HalfMinute
<1>5. \A u \in Users : /\ steady'[u] \in 0..Longest /\ steady'[u] <= steady[u] + 1
  BY <1>1, <1>2, Numbers
<1>6. \A u \in Users : answers'[u] # Null =>
        /\ answers[u] # Null /\ answers[u] \in Answer /\ answers'[u] \in Answer
        /\ answers'[u].is = answers[u].is /\ answers'[u].left = answers[u].left - 1
  <2> SUFFICES ASSUME NEW u \in Users, answers'[u] # Null
               PROVE  /\ answers[u] # Null /\ answers[u] \in Answer /\ answers'[u] \in Answer
                      /\ answers'[u].is = answers[u].is /\ answers'[u].left = answers[u].left - 1
    OBVIOUS
  <2> DEFINE e == answers[u]
  <2>1. answers'[u] = Shorter(e)
    BY <1>1
  <2>2. e # Null /\ e.left # 1 /\ answers'[u] = [e EXCEPT !.left = @ - 1]
    BY <2>1 DEF Shorter
  <2>3. e \in Answer
    BY <1>2, <2>2
  <2> HIDE DEF e
  <2>4. e.left - 1 \in 1..MembershipTtl
    BY <2>2, <2>3, Numbers DEF Answer
  <2>5. [e EXCEPT !.left = @ - 1] \in Answer
    BY <2>3, <2>4 DEF Answer
  <2>6. answers'[u].is = e.is /\ answers'[u].left = e.left - 1
    BY <2>2, <2>3 DEF Answer
  <2> QED
    BY <2>2, <2>3, <2>5, <2>6 DEF e
<1>7. \A u \in Users : answers'[u] \in Answer \cup {Null}
  <2> TAKE u \in Users
  <2>1. CASE answers'[u] = Null
    BY <2>1
  <2>2. CASE answers'[u] # Null
    BY <1>6, <2>2
  <2> QED
    BY <2>1, <2>2
<1>8. TablesOK'
  <2>1. answers' \in [Users -> Answer \cup {Null}] /\ steady' \in [Users -> 0..Longest]
    BY <1>1, <1>5, <1>7
  <2>2. setting' \subseteq [who : Users, is : BOOLEAN, waited : 0..Lag]
    BY <1>1, <1>2, <1>4
  <2> QED
    BY <1>1, <2>1, <2>2 DEF AccessIInv, TablesOK
<1>9. AnswersFresh'
  <2> SUFFICES ASSUME NEW u \in Users, answers'[u] # Null, Wrong(u, answers[u].is)'
               PROVE  steady'[u] + answers'[u].left <= MembershipTtl + Lag
    BY DEF AnswersFresh
  <2>1. /\ answers[u] # Null /\ answers[u] \in Answer
        /\ answers'[u].is = answers[u].is /\ answers'[u].left = answers[u].left - 1
    BY <1>6
  <2>2. steady[u] + answers[u].left <= MembershipTtl + Lag
    BY <1>1, <2>1 DEF AccessIInv, AnswersFresh, Wrong
  <2> QED
    BY <1>2, <1>5, <2>1, <2>2, Numbers DEF Answer
<1>10. SetsFresh'
  <2> SUFFICES ASSUME NEW w \in setting, Wrong(w.who, w.is)'
               PROVE  steady'[w.who] <= w.waited + 1
    BY <1>1, <1>4 DEF SetsFresh, Wrong
  <2>1. w.who \in Users /\ w.waited \in 0..Lag
    BY <1>2
  <2>2. steady[w.who] <= w.waited
    BY <1>1 DEF AccessIInv, SetsFresh, Wrong
  <2> QED
    BY <1>2, <1>5, <2>1, <2>2, Numbers
<1>11. UrlFresh' /\ (calm /\ url' # Null => url'.signed.cleared = cleared')
  <2> SUFFICES ASSUME url' # Null
               PROVE  UrlFresh' /\ (calm => url'.signed.cleared = cleared')
    BY DEF UrlFresh
  <2>1. url # Null /\ url.left # 1
    BY <1>1 DEF Shorter
  <2>2. /\ url \in [signed : Signed, left : 1..UrlTtl]
        /\ url.signed.age + url.left <= UrlTtl + Lag
    BY <2>1 DEF AccessIInv, UrlFresh
  <2> DEFINE older == Older(url.signed)
  <2>3. older \in Signed /\ older.age = url.signed.age + 1 /\ older.cleared = url.signed.cleared
    BY <2>2 DEF Older, Signed
  <2> HIDE DEF older
  <2>4. url' = [signed |-> older, left |-> url.left - 1]
    BY <1>1, <2>1, <2>2 DEF Shorter, older
  <2>5. UrlFresh'
    BY <2>1, <2>2, <2>3, <2>4, Numbers DEF UrlFresh, Signed
  <2>6. calm => url'.signed.cleared = cleared'
    BY <1>1, <2>1, <2>3, <2>4 DEF AccessIInv, ClearedIsGone
  <2> QED
    BY <2>5, <2>6
<1>12. frame' \in [Slots -> AccessFrame]
  BY <1>1, <1>3
<1>13. OneAtATime'
  BY <1>1, <1>3 DEF AccessIInv, OneAtATime
<1>14. ClearedIsGone'
  BY <1>1, <1>3, <1>11 DEF AccessIInv, ClearedIsGone
<1> QED
  BY <1>8, <1>9, <1>10, <1>11, <1>12, <1>13, <1>14 DEF AccessIInv

-----------------------------------------------------------------------------
(* Every step keeps the invariant. *)
LEMMA AccessKeeps == AccessIInv /\ [AccessNext]_accessVars => AccessIInv'
<1> SUFFICES ASSUME AccessIInv, [AccessNext]_accessVars PROVE AccessIInv'
  OBVIOUS
<1>1. CASE UNCHANGED accessVars
  BY <1>1 DEF accessVars, desk, access, redis, AccessIInv, TablesOK, AnswersFresh, SetsFresh, UrlFresh,
              OneAtATime, ClearedIsGone, Wrong
<1>2. CASE SetLands \/ MemberChanges \/ HalfMinute
  BY <1>2, SetLandsKeeps, MemberChangesKeeps, HalfMinuteKeeps
<1>3. ASSUME NEW s \in Slots, AccessCall(s) PROVE AccessIInv'
  BY <1>3, AccessCallKeeps
<1>4. ASSUME NEW s \in Slots, AccessHandler(s) PROVE AccessIInv'
  BY <1>4, ListOrgsKeeps, AskKeeps, UpdateKeeps, ReadAnswerKeeps, AskTableKeeps, SignKeeps,
     StoreKeeps, InvalidateKeeps DEF AccessHandler
<1>5. ASSUME NEW s \in Slots, AccessFail(s) PROVE AccessIInv'
  BY <1>5, EndKeeps DEF AccessFail, Fail, Throw, Proceed
<1> QED
  BY <1>1, <1>2, <1>3, <1>4, <1>5 DEF AccessNext


(* Who is let through, or refused, by an answer that no longer holds: the    *)
(* answer has something left of its lifetime, so the change is recent.      *)
LEMMA HitIsRecent ==
  ASSUME AccessIInv, NEW u \in Users, answers[u] # Null, Wrong(u, answers[u].is)
  PROVE  steady[u] < MembershipTtl + Lag
<1>1. steady[u] + answers[u].left <= MembershipTtl + Lag
  BY DEF AccessIInv, AnswersFresh
<1>2. answers[u].left \in 1..MembershipTtl /\ steady[u] \in 0..Longest
  BY DEF AccessIInv, TablesOK, Answer
<1> QED
  BY <1>1, <1>2, Numbers

(* The first half of AnswersAreRecent: a handler that was asking goes on.    *)
LEMMA AdmissionIsRecent ==
  ASSUME AccessIInv, AccessNext, NEW u \in Users, NEW s \in Slots, frame[s].who = u,
         frame[s].pc \in {"cached", "db"}, frame'[s].pc = "asset"
  PROVE  u \in member \/ steady[u] < MembershipTtl + Lag
<1>1. frame[s] \in AccessFrame /\ frame \in [Slots -> AccessFrame]
  BY DEF AccessIInv
<1>2. CASE \E t \in Slots : AccessCall(t) \/ AccessHandler(t) \/ AccessFail(t)
  <2>1. PICK t \in Slots : AccessCall(t) \/ AccessHandler(t) \/ AccessFail(t)
    BY <1>2
  <2>2. t = s
    BY <1>1, <2>1 DEF AccessCall, AccessHandler, AccessFail, Open, Fail, Throw, Proceed, Finish, Go,
       ListOrgs, AssertAccess, UpdateMetadata, ReadAnswer, MissAnswer, AskTable, FindAsset, LookupUrl,
       SignUrl, StoreUrl, DeleteFromBucket, InvalidateDownloadCache, Admitted, Refused, Served
  <2>3. frame' # [frame EXCEPT ![s] = Idle]
    BY <1>1, IdleAccess
  <2>4. ReadAnswer(s) \/ MissAnswer(s) \/ AskTable(s)
    BY <2>1, <2>2, <2>3 DEF AccessCall, AccessHandler, AccessFail, Open, AtStep, Fail, Throw, Proceed,
       ListOrgs, AssertAccess, UpdateMetadata, FindAsset, LookupUrl, SignUrl, StoreUrl,
       DeleteFromBucket, InvalidateDownloadCache
  <2>5. CASE ReadAnswer(s)
    <3>1. answers[u] # Null /\ answers[u].is
      BY <2>3, <2>5 DEF ReadAnswer, Refused, Finish
    <3>2. answers[u].is \in BOOLEAN
      BY <3>1 DEF AccessIInv, TablesOK, Answer
    <3> QED
      BY <3>1, <3>2, HitIsRecent DEF Wrong
  <2>6. CASE MissAnswer(s)
    <3>1. frame'[s].pc = "db"
      BY <1>1, <2>6 DEF MissAnswer, Go, Proceed, AccessFrame, AccessRow
    <3> QED
      BY <3>1
  <2>7. CASE AskTable(s)
    BY <2>3, <2>7 DEF AskTable, Refused, Finish
  <2> QED
    BY <2>4, <2>5, <2>6, <2>7
<1>3. CASE SetLands \/ MemberChanges
  BY <1>3 DEF SetLands, MemberChanges
<1>4. CASE HalfMinute
  <2>1. frame'[s] = LaterFrame(frame[s]) /\ (frame[s].pc # "idle" => frame[s].arg < Lag)
    BY <1>4 DEF HalfMinute, AtStep
  <2> QED
    BY <1>1, <2>1, FrameAges
<1> QED
  BY <1>2, <1>3, <1>4 DEF AccessNext

(* The other half: a handler refuses its caller. *)
LEMMA RefusalIsRecent ==
  ASSUME AccessIInv, AccessNext, NEW u \in Users, said' # Null, said'.type = "refused", said'.who = u
  PROVE  u \notin member \/ steady[u] < MembershipTtl + Lag
<1>1. PICK s \in Slots : AccessHandler(s)
  BY DEF AccessNext, SetLands, MemberChanges, HalfMinute, AccessCall, Open, AccessFail, Fail, Throw,
     Proceed
<1>2. ReadAnswer(s) \/ AskTable(s)
  BY <1>1 DEF AccessHandler, ListOrgs, AssertAccess, UpdateMetadata, MissAnswer, FindAsset, LookupUrl,
     SignUrl, StoreUrl, DeleteFromBucket, InvalidateDownloadCache, Go, Throw, Proceed, Finish, Served
<1>3. CASE ReadAnswer(s)
  <2>1. ~answers[frame[s].who].is /\ said' = [type |-> "refused", who |-> frame[s].who]
    BY <1>3 DEF ReadAnswer, Refused, Admitted, Go, Proceed, Finish
  <2>2. answers[u] # Null /\ ~answers[u].is
    BY <1>3, <2>1 DEF ReadAnswer
  <2>3. answers[u].is \in BOOLEAN
    BY <2>2 DEF AccessIInv, TablesOK, Answer
  <2> QED
    BY <2>2, <2>3, HitIsRecent DEF Wrong
<1>4. CASE AskTable(s)
  BY <1>4 DEF AskTable, Refused, Admitted, Go, Proceed, Finish
<1> QED
  BY <1>2, <1>3, <1>4

-----------------------------------------------------------------------------
(* A URL is handed out by one of three steps. *)
LEMMA UrlStep ==
  ASSUME AccessIInv, Lag <= 2, AccessNext, said' # Null, said'.type = "url"
  PROVE  /\ said'.signed.age < said'.life
         /\ calm /\ said'.cached => said'.signed.cleared = cleared
<1>1. PICK s \in Slots : AccessHandler(s)
  BY DEF AccessNext, SetLands, MemberChanges, HalfMinute, AccessCall, Open, AccessFail, Fail, Throw,
     Proceed
<1>2. LookupUrl(s) \/ SignUrl(s) \/ StoreUrl(s)
  BY <1>1 DEF AccessHandler, ListOrgs, AssertAccess, UpdateMetadata, ReadAnswer, MissAnswer, AskTable,
     FindAsset, DeleteFromBucket, InvalidateDownloadCache, Go, Throw, Proceed, Finish, Admitted, Refused
<1>3. CASE LookupUrl(s)
  <2>1. /\ url # Null
        /\ said' = [type |-> "url", signed |-> url.signed, life |-> UrlLife,
                    cached |-> AtStep(s, "lookup")]
    BY <1>3 DEF LookupUrl, Served, Finish, Go, Proceed
  <2>2. /\ url.signed \in Signed /\ url.left \in 1..UrlTtl
        /\ url.signed.age + url.left <= UrlTtl + Lag
    BY <2>1 DEF AccessIInv, UrlFresh
  <2>3. calm => url.signed.cleared = cleared
    BY <2>1 DEF AccessIInv, ClearedIsGone
  <2> QED
    BY <2>1, <2>2, <2>3, Numbers DEF Signed
<1>4. CASE SignUrl(s)
  <2>1. /\ ~AtStep(s, "lookup")
        /\ said' = [type |-> "url", signed |-> [age |-> 0, cleared |-> cleared],
                    life |-> SensitiveLife, cached |-> AtStep(s, "lookup")]
    BY <1>4 DEF SignUrl, Served, Finish, Go, Proceed, AtStep
  <2> QED
    BY <2>1, Numbers
<1>5. CASE StoreUrl(s)
  <2>1. /\ ~AtStep(s, "lookup") /\ frame[s].pc = "store"
        /\ said' = [type |-> "url", signed |-> frame[s].seen, life |-> UrlLife,
                    cached |-> AtStep(s, "lookup")]
    BY <1>5 DEF StoreUrl, Served, Finish, AtStep
  <2>2. frame[s].seen \in Signed /\ frame[s].seen.age <= frame[s].arg /\ frame[s].arg \in 0..Lag
    BY <2>1 DEF AccessIInv, AccessFrame, AccessSound
  <2> QED
    BY <2>1, <2>2, Numbers DEF Signed
<1> QED
  BY <1>2, <1>3, <1>4, <1>5

-----------------------------------------------------------------------------
(* GeoService. *)
GeoSteps == {"idle", "cache", "ban", "limit", "wait", "fetch", "store"}

Waits == (0..Gap) \cup {Null}

GeoRow ==
  [pc : GeoSteps, op : GeoOps \cup {"none"}, on : Addresses \cup {Null}, who : {Null}, arg : Waits,
   seen : {Null}]

(* A handler in progress has an address and waits no longer than the gap.   *)
GeoFrame == {f \in GeoRow : f.pc # "idle" => f.on \in Addresses /\ f.arg \in 0..Gap}

(* With callers that take turns, the handler that waits waits until the gap *)
(* since the last call is over, and what was sent has been answered unless  *)
(* somebody is waiting for the answer.                                      *)
GapKept ==
  calm /\ ~rejected =>
    /\ \A s \in Slots : frame[s].pc = "wait" => lastCall + frame[s].arg >= Gap
    /\ (\A s \in Slots : frame[s].pc # "fetch") => lastCall <= lastSend

GeoIInv == GeoTypeOK /\ frame \in [Slots -> GeoFrame] /\ OneAtATime /\ GapKept

(* A slot whose handler has ended. *)
LEMMA IdleGeo == Idle \in GeoFrame /\ Idle.pc = "idle"
BY DEF Idle, GeoFrame, GeoRow, GeoSteps, Waits

(* Before the first request nothing is cached and nothing was sent. *)
LEMMA GeoStarts == GeoInit => GeoIInv
<1> SUFFICES ASSUME GeoInit PROVE GeoIInv
  OBVIOUS
<1>1. frame \in [Slots -> GeoFrame] /\ \A s \in Slots : frame[s].pc = "idle"
  BY IdleGeo DEF GeoInit, DeskInit
<1>2. GeoTypeOK
  BY DEF GeoInit, GeoTypeOK, Gap
<1>3. OneAtATime /\ GapKept
  BY <1>1 DEF GeoInit, OneAtATime, GapKept, Gap
<1> QED
  BY <1>1, <1>2, <1>3 DEF GeoIInv

(* One handler moves: at most it is the only one in progress. *)
LEMMA OneMoves ==
  ASSUME OneAtATime, NEW F, frame \in [Slots -> F], NEW s \in Slots, NEW f \in F,
         frame' = [frame EXCEPT ![s] = f], calm' = calm,
         \/ f.pc = "idle" \/ frame[s].pc # "idle"
         \/ (calm => ~Busy)
  PROVE  /\ frame' \in [Slots -> F] /\ OneAtATime'
         /\ calm /\ f.pc # "idle" => \A t \in Slots : t # s => frame[t].pc = "idle"
<1>1. frame' \in [Slots -> F]
  OBVIOUS
<1>2. frame'[s] = f /\ \A v \in Slots : v # s => frame'[v] = frame[v]
  OBVIOUS
<1>3. calm => \A v, w \in Slots : frame[v].pc # "idle" /\ frame[w].pc # "idle" => v = w
  BY DEF OneAtATime
<1>4. ASSUME calm, NEW t \in Slots, NEW u \in Slots, frame'[t].pc # "idle", frame'[u].pc # "idle"
      PROVE  t = u
  BY <1>2, <1>3, <1>4 DEF Busy, AtStep
<1>5. OneAtATime'
  BY <1>4 DEF OneAtATime
<1>6. calm /\ f.pc # "idle" => \A t \in Slots : t # s => frame[t].pc = "idle"
  BY <1>3 DEF Busy, AtStep
<1> QED
  BY <1>1, <1>5, <1>6

(* A handler's frame is replaced by one that neither begins to wait nor      *)
(* ends a wait for an answer; the times stand still.                        *)
LEMMA GeoMoves ==
  ASSUME GeoIInv, NEW s \in Slots, NEW f \in GeoFrame,
         frame' = [frame EXCEPT ![s] = f], calm' = calm,
         lastCall' = lastCall, lastSend' = lastSend, rejected => rejected', inFrance' = inFrance,
         geoCache' \subseteq Addresses,
         \/ f.pc = "idle" \/ frame[s].pc # "idle"
         \/ (calm => ~Busy),
         f.pc = "wait" => lastCall + f.arg >= Gap,
         frame[s].pc = "fetch" => rejected',
         f.pc # "fetch"
  PROVE  GeoIInv'
<1>1. frame \in [Slots -> GeoFrame] /\ OneAtATime /\ GapKept /\ GeoTypeOK
  BY DEF GeoIInv
<1>2. frame' \in [Slots -> GeoFrame] /\ OneAtATime'
  BY <1>1, OneMoves
<1>3. frame'[s] = f /\ \A v \in Slots : v # s => frame'[v] = frame[v]
  BY <1>1
<1>4. GeoTypeOK'
  BY <1>1 DEF GeoTypeOK
<1>5. ASSUME calm, ~rejected', NEW t \in Slots, frame'[t].pc = "wait"
      PROVE  lastCall + frame'[t].arg >= Gap
  BY <1>1, <1>3, <1>5 DEF GapKept
<1>6. ASSUME calm, ~rejected', \A t \in Slots : frame'[t].pc # "fetch"
      PROVE  lastCall <= lastSend
  <2>1. \A t \in Slots : frame[t].pc # "fetch"
    BY <1>3, <1>6
  <2> QED
    BY <1>1, <1>6, <2>1 DEF GapKept
<1>7. GapKept'
  BY <1>5, <1>6 DEF GapKept
<1> QED
  BY <1>2, <1>4, <1>7 DEF GeoIInv

(* A handler goes on to another call, for the same address. *)
LEMMA GeoNext2 ==
  ASSUME NEW g \in GeoFrame, g.pc # "idle", NEW pc \in GeoSteps, NEW wait \in 0..Gap
  PROVE  LET f == [g EXCEPT !.pc = pc, !.arg = wait] IN
         f \in GeoFrame /\ f.pc = pc /\ f.arg = wait
<1> DEFINE f == [g EXCEPT !.pc = pc, !.arg = wait]
<1>1. wait \in Waits
  BY DEF Waits
<1> HIDE DEF Waits
<1>2. g \in GeoRow /\ g.on \in Addresses
  BY DEF GeoFrame
<1>3. f \in GeoRow /\ f.pc = pc /\ f.arg = wait /\ f.on = g.on
  BY <1>1, <1>2 DEF GeoRow
<1> QED
  BY <1>2, <1>3 DEF GeoFrame

(* The same without a new wait. *)
LEMMA GeoGoesOn ==
  ASSUME NEW g \in GeoFrame, g.pc # "idle", NEW pc \in GeoSteps
  PROVE  LET f == [g EXCEPT !.pc = pc] IN f \in GeoFrame /\ f.pc = pc /\ f.arg = g.arg
<1> DEFINE f == [g EXCEPT !.pc = pc]
<1>1. g \in GeoRow /\ g.on \in Addresses /\ g.arg \in 0..Gap
  BY DEF GeoFrame
<1>2. f \in GeoRow /\ f.pc = pc /\ f.arg = g.arg /\ f.on = g.on
  BY <1>1 DEF GeoRow
<1> QED
  BY <1>1, <1>2 DEF GeoFrame

(* A request opens a handler, which does not wait yet. *)
LEMMA GeoCallKeeps ==
  ASSUME GeoIInv, NEW s \in Slots, GeoCall(s)
  PROVE  GeoIInv'
<1>1. PICK a \in Addresses, op \in GeoOps, pc \in {"cache", "ban", "limit"} :
        Open(s, [Idle EXCEPT !.op = op, !.on = a, !.arg = 0, !.pc = pc])
  <2>1. PICK a \in Addresses, op \in GeoOps :
          Open(s, [Idle EXCEPT !.op = op, !.on = a, !.arg = 0, !.pc =
                     IF op = "geocode" THEN "cache" ELSE IF a \in inFrance THEN "ban" ELSE "limit"])
    BY DEF GeoCall
  <2> DEFINE pc == IF op = "geocode" THEN "cache" ELSE IF a \in inFrance THEN "ban" ELSE "limit"
  <2>2. pc \in {"cache", "ban", "limit"} /\ Open(s, [Idle EXCEPT !.op = op, !.on = a, !.arg = 0, !.pc = pc])
    BY <2>1
  <2> HIDE DEF pc
  <2> QED
    BY <2>2
<1> DEFINE f == [Idle EXCEPT !.op = op, !.on = a, !.arg = 0, !.pc = pc]
<1>2. frame' = [frame EXCEPT ![s] = f] /\ calm' = calm /\ (calm => ~Busy)
  BY <1>1 DEF Open
<1>3. f = [pc |-> pc, op |-> op, on |-> a, who |-> Null, arg |-> 0, seen |-> Null]
  <2> DEFINE f1 == [Idle EXCEPT !.op = op]
             f2 == [f1 EXCEPT !.on = a]
             f3 == [f2 EXCEPT !.arg = 0]
  <2>1. f1 = [pc |-> "idle", op |-> op, on |-> Null, who |-> Null, arg |-> Null, seen |-> Null]
    BY DEF Idle
  <2>2. f = [f3 EXCEPT !.pc = pc]
    OBVIOUS
  <2> HIDE DEF f1
  <2>3. f2 = [pc |-> "idle", op |-> op, on |-> a, who |-> Null, arg |-> Null, seen |-> Null]
    BY <2>1
  <2> HIDE DEF f2
  <2>4. f3 = [pc |-> "idle", op |-> op, on |-> a, who |-> Null, arg |-> 0, seen |-> Null]
    BY <2>3
  <2> HIDE DEF f3, f
  <2> QED
    BY <2>2, <2>4
<1>4. 0 \in Waits /\ 0 \in 0..Gap /\ pc \in GeoSteps /\ pc \notin {"wait", "fetch"}
  BY DEF Waits, Gap, GeoSteps
<1> HIDE DEF f
<1>5. f \in GeoFrame /\ f.pc = pc
  BY <1>3, <1>4 DEF GeoFrame, GeoRow
<1>6. frame[s].pc = "idle"
  BY <1>1 DEF Open, AtStep
<1>7. UNCHANGED geo
  BY DEF GeoCall
<1>8. geoCache \subseteq Addresses
  BY DEF GeoIInv, GeoTypeOK
<1> QED
  BY <1>2, <1>4, <1>5, <1>6, <1>7, <1>8, GeoMoves DEF geo

(* The calls to Redis and to BAN. *)
LEMMA LookupKeeps ==
  ASSUME GeoIInv, NEW s \in Slots, GetCached(s) \/ FetchBan(s) \/ SetCache(s)
  PROVE  GeoIInv'
<1> DEFINE g == frame[s]
<1>1. g \in GeoFrame /\ g.pc \in {"cache", "ban", "store"}
  BY DEF GeoIInv, GetCached, FetchBan, SetCache, AtStep
<1>2. geoCache \subseteq Addresses /\ g.on \in Addresses
  BY <1>1 DEF GeoIInv, GeoTypeOK, GeoFrame
<1>3. /\ lastCall' = lastCall /\ lastSend' = lastSend /\ rejected' = rejected /\ inFrance' = inFrance
      /\ geoCache' \subseteq Addresses /\ calm' = calm
  BY <1>2 DEF GetCached, FetchBan, SetCache, geo, Next2, Proceed, Finish
<1>4. \/ frame' = [frame EXCEPT ![s] = Idle]
      \/ \E pc \in {"ban", "limit", "store"} : frame' = [frame EXCEPT ![s] = [g EXCEPT !.pc = pc]]
  BY DEF GetCached, FetchBan, SetCache, Next2, Proceed, Finish
<1>5. CASE frame' = [frame EXCEPT ![s] = Idle]
  BY <1>1, <1>3, <1>5, IdleGeo, GeoMoves
<1>6. ASSUME NEW pc \in {"ban", "limit", "store"}, frame' = [frame EXCEPT ![s] = [g EXCEPT !.pc = pc]]
      PROVE  GeoIInv'
  <2> DEFINE f == [g EXCEPT !.pc = pc]
  <2>1. pc \in GeoSteps /\ g.pc # "idle"
    BY <1>1 DEF GeoSteps
  <2>2. f \in GeoFrame /\ f.pc = pc
    BY <1>1, <2>1, GeoGoesOn
  <2>3. frame' = [frame EXCEPT ![s] = f]
    BY <1>6
  <2> HIDE DEF f
  <2> QED
    BY <1>1, <1>3, <2>2, <2>3, GeoMoves
<1> QED
  BY <1>4, <1>5, <1>6

(* The wait is what is missing of the gap. *)
LEMMA WaitKeeps ==
  ASSUME GeoIInv, NEW s \in Slots, WaitForNominatimRateLimit(s)
  PROVE  GeoIInv'
<1> DEFINE g == frame[s]
           w == Gap - lastCall
           f == [g EXCEPT !.pc = "wait", !.arg = w]
<1>1. g \in GeoFrame /\ g.pc = "limit" /\ UNCHANGED geo
  BY DEF GeoIInv, WaitForNominatimRateLimit, AtStep
<1>2. frame' = [frame EXCEPT ![s] = f] /\ calm' = calm
  BY DEF WaitForNominatimRateLimit, Proceed
<1>3. lastCall \in 0..Gap /\ geoCache \subseteq Addresses
  BY DEF GeoIInv, GeoTypeOK
<1>4. w \in 0..Gap /\ lastCall + w >= Gap
  BY <1>3 DEF Gap
<1>5. "wait" \in GeoSteps
  BY DEF GeoSteps
<1> HIDE DEF w
<1>6. f \in GeoFrame /\ f.pc = "wait" /\ f.arg = w
  BY <1>1, <1>4, <1>5, GeoNext2
<1> HIDE DEF f
<1> QED
  BY <1>1, <1>2, <1>3, <1>4, <1>6, GeoMoves DEF geo

(* From the request on, the handler waits for the answer. *)
LEMMA SendKeeps ==
  ASSUME GeoIInv, NEW s \in Slots, SendNominatim(s)
  PROVE  GeoIInv'
<1> DEFINE g == frame[s]
           f == [g EXCEPT !.pc = "fetch"]
<1>1. g \in GeoFrame /\ g.pc = "wait" /\ frame \in [Slots -> GeoFrame] /\ OneAtATime /\ GapKept
  BY DEF GeoIInv, SendNominatim, AtStep
<1>2. /\ frame' = [frame EXCEPT ![s] = f] /\ calm' = calm /\ lastSend' = 0 /\ lastCall' = lastCall
      /\ geoCache' = geoCache /\ inFrance' = inFrance /\ rejected' = rejected
  BY DEF SendNominatim
<1>3. "fetch" \in GeoSteps
  BY DEF GeoSteps
<1>4. f \in GeoFrame /\ f.pc = "fetch"
  BY <1>1, <1>3, GeoGoesOn
<1> HIDE DEF f
<1>5. frame' \in [Slots -> GeoFrame] /\ OneAtATime'
  BY <1>1, <1>2, <1>4, OneMoves
<1>6. GeoTypeOK'
  BY <1>2 DEF GeoIInv, GeoTypeOK, Gap
<1>7. frame'[s] = f /\ \A v \in Slots : v # s => frame'[v] = frame[v]
  BY <1>1, <1>2
<1>8. GapKept'
  BY <1>1, <1>2, <1>4, <1>7 DEF GapKept
<1> QED
  BY <1>5, <1>6, <1>8 DEF GeoIInv

(* With the answer the time since the last call begins. *)
LEMMA AnswerKeeps ==
  ASSUME GeoIInv, NEW s \in Slots, NominatimAnswers(s)
  PROVE  GeoIInv'
<1> DEFINE g == frame[s]
<1>1. g \in GeoFrame /\ g.pc = "fetch" /\ frame \in [Slots -> GeoFrame] /\ OneAtATime
  BY DEF GeoIInv, NominatimAnswers, AtStep
<1>2. /\ calm' = calm /\ lastSend' = lastSend /\ lastCall' = 0
      /\ geoCache' = geoCache /\ inFrance' = inFrance /\ rejected' = rejected
  BY DEF NominatimAnswers, Finish, Next2, Proceed
<1>3. frame' = [frame EXCEPT ![s] = Idle] \/ frame' = [frame EXCEPT ![s] = [g EXCEPT !.pc = "store"]]
  BY DEF NominatimAnswers, Finish, Next2, Proceed
<1>4. "store" \in GeoSteps
  BY DEF GeoSteps
<1> DEFINE h == [g EXCEPT !.pc = "store"]
<1> HIDE DEF g
<1>12. h \in GeoFrame /\ h.pc = "store"
  BY <1>1, <1>4, GeoGoesOn
<1>13. frame' = [frame EXCEPT ![s] = Idle] \/ frame' = [frame EXCEPT ![s] = h]
  BY <1>3
<1> HIDE DEF h
<1>5. PICK f \in GeoFrame : frame' = [frame EXCEPT ![s] = f] /\ f.pc \in {"idle", "store"}
  BY <1>12, <1>13, IdleGeo
<1>6. frame' \in [Slots -> GeoFrame] /\ OneAtATime'
  BY <1>1, <1>2, <1>5, OneMoves DEF g
<1>7. GeoTypeOK' /\ lastSend \in 0..Gap
  BY <1>2 DEF GeoIInv, GeoTypeOK, Gap
<1>8. \A v \in Slots : frame'[v].pc # "idle" => (v = s /\ frame'[v] = f) \/ (v # s /\ frame'[v] = frame[v])
  BY <1>1, <1>5
<1>9. calm => \A v \in Slots : v # s => frame[v].pc = "idle"
  BY <1>1 DEF OneAtATime, g
<1>10. calm => \A v \in Slots : frame'[v].pc # "wait"
  BY <1>5, <1>8, <1>9
<1>11. GapKept'
  BY <1>2, <1>7, <1>10 DEF GapKept
<1> QED
  BY <1>6, <1>7, <1>11 DEF GeoIInv

(* A tenth of a second takes from the wait what it adds to the time since    *)
(* the last call.                                                           *)
LEMMA TenthKeeps == GeoIInv /\ TenthPasses => GeoIInv'
<1> SUFFICES ASSUME GeoIInv, TenthPasses PROVE GeoIInv'
  OBVIOUS
<1>1. /\ lastCall' = Since(lastCall) /\ lastSend' = Since(lastSend)
      /\ calm' = calm /\ geoCache' = geoCache /\ inFrance' = inFrance /\ rejected' = rejected
      /\ frame' = [s \in Slots |-> IF AtStep(s, "wait") /\ frame[s].arg > 0
                                   THEN [frame[s] EXCEPT !.arg = @ - 1] ELSE frame[s]]
  BY DEF TenthPasses
<1>2. /\ frame \in [Slots -> GeoFrame] /\ OneAtATime /\ GapKept /\ lastCall \in 0..Gap
      /\ lastSend \in 0..Gap /\ geoCache \subseteq Addresses /\ inFrance \subseteq Addresses
  BY DEF GeoIInv, GeoTypeOK
<1>3. /\ lastCall' \in 0..Gap /\ lastSend' \in 0..Gap
      /\ lastCall <= lastSend => lastCall' <= lastSend'
      /\ lastCall' >= lastCall /\ (lastCall' = lastCall + 1 \/ lastCall' = Gap)
  BY <1>1, <1>2 DEF Since, Gap
<1>4. ASSUME NEW s \in Slots
      PROVE  /\ frame'[s] \in GeoFrame /\ frame'[s].pc = frame[s].pc
             /\ frame[s].pc = "wait" =>
                  /\ frame[s].arg \in 0..Gap /\ frame'[s].arg \in 0..Gap
                  /\ frame'[s].arg = frame[s].arg - 1 \/ (frame'[s].arg = 0 /\ frame[s].arg = 0)
  <2> DEFINE g == frame[s]
             w == g.arg - 1
  <2>1. g \in GeoFrame
    BY <1>2
  <2>2. CASE g.pc = "wait" /\ g.arg > 0
    <3>1. g \in GeoRow /\ g.on \in Addresses /\ g.arg \in 0..Gap
      BY <2>1, <2>2 DEF GeoFrame
    <3>2. w \in 0..Gap
      BY <2>2, <3>1 DEF Gap
    <3>3. frame'[s] = [g EXCEPT !.arg = w]
      BY <1>1, <2>2 DEF AtStep
    <3>4. w \in Waits
      BY <3>2 DEF Waits
    <3> HIDE DEF g, w
    <3>5. [g EXCEPT !.arg = w] \in GeoRow /\ [g EXCEPT !.arg = w].pc = g.pc
          /\ [g EXCEPT !.arg = w].arg = w /\ [g EXCEPT !.arg = w].on = g.on
      BY <3>1, <3>4 DEF GeoRow
    <3> QED
      BY <3>1, <3>2, <3>3, <3>5 DEF GeoFrame, w, g
  <2>3. CASE ~(g.pc = "wait" /\ g.arg > 0)
    <3>1. frame'[s] = g
      BY <1>1, <2>3 DEF AtStep
    <3>2. g.pc = "wait" => g.arg \in 0..Gap
      BY <2>1 DEF GeoFrame
    <3> QED
      BY <2>1, <2>3, <3>1, <3>2 DEF Gap
  <2> QED
    BY <2>2, <2>3
<1>5. frame' \in [Slots -> GeoFrame]
  BY <1>1, <1>4
<1>6. OneAtATime'
  BY <1>1, <1>2, <1>4 DEF OneAtATime
<1>7. ASSUME calm, ~rejected, NEW s \in Slots, frame'[s].pc = "wait"
      PROVE  lastCall' + frame'[s].arg >= Gap
  <2>1. lastCall + frame[s].arg >= Gap
    BY <1>2, <1>4, <1>7 DEF GapKept
  <2> QED
    BY <1>2, <1>3, <1>4, <1>7, <2>1 DEF Gap
<1>8. GapKept'
  BY <1>1, <1>2, <1>3, <1>4, <1>7 DEF GapKept
<1>9. GeoTypeOK'
  BY <1>1, <1>2, <1>3 DEF GeoTypeOK
<1> QED
  BY <1>5, <1>6, <1>8, <1>9 DEF GeoIInv

(* Every step keeps the invariant. *)
LEMMA GeoKeeps == GeoIInv /\ [GeoNext]_geoVars => GeoIInv'
<1> SUFFICES ASSUME GeoIInv, [GeoNext]_geoVars PROVE GeoIInv'
  OBVIOUS
<1>1. CASE UNCHANGED geoVars
  BY <1>1 DEF geoVars, desk, geo, GeoIInv, GeoTypeOK, OneAtATime, GapKept
<1>2. CASE GeoEntryExpires
  BY <1>2 DEF GeoEntryExpires, GeoIInv, GeoTypeOK, OneAtATime, GapKept
<1>3. CASE TenthPasses
  BY <1>3, TenthKeeps
<1>4. ASSUME NEW s \in Slots, GeoCall(s) \/ GeoHandler(s) PROVE GeoIInv'
  BY <1>4, GeoCallKeeps, LookupKeeps, WaitKeeps, SendKeeps, AnswerKeeps DEF GeoHandler
<1>5. ASSUME NEW s \in Slots, GeoFail(s) PROVE GeoIInv'
  <2>1. /\ frame' = [frame EXCEPT ![s] = Idle] /\ calm' = calm
        /\ lastCall' = lastCall /\ lastSend' = lastSend /\ inFrance' = inFrance
        /\ geoCache' = geoCache /\ (rejected => rejected') /\ (frame[s].pc = "fetch" => rejected')
    BY <1>5 DEF GeoFail, Fail, Throw, Proceed, AtStep
  <2>2. geoCache \subseteq Addresses
    BY DEF GeoIInv, GeoTypeOK
  <2> QED
    BY <2>1, <2>2, IdleGeo, GeoMoves
<1> QED
  BY <1>1, <1>2, <1>3, <1>4, <1>5 DEF GeoNext

(* Only a request to Nominatim is announced. *)
LEMMA GeoSays ==
  ASSUME GeoNext
  PROVE  said' = Null \/ said' = [type |-> "nominatim"]
BY DEF GeoNext, GeoEntryExpires, TenthPasses, GeoCall, GeoHandler, GeoFail, Open, GetCached, FetchBan,
   WaitForNominatimRateLimit, SendNominatim, NominatimAnswers, SetCache, Fail, Throw, Next2, Proceed,
   Finish

(* When it is sent, the whole gap has passed since the last answer, and with *)
(* it since the last request.                                               *)
LEMMA SentAfterTheGap ==
  ASSUME GeoIInv, GeoNext, calm, ~rejected, said' # Null
  PROVE  lastSend >= RateLimit
<1>1. PICK s \in Slots : SendNominatim(s)
  BY DEF GeoNext, GeoEntryExpires, TenthPasses, GeoCall, GeoHandler, GeoFail, Open, GetCached, FetchBan,
     WaitForNominatimRateLimit, NominatimAnswers, SetCache, Fail, Throw, Next2, Proceed, Finish
<1>2. frame[s].pc = "wait" /\ frame[s].arg = 0
  BY <1>1 DEF SendNominatim, AtStep
<1>3. \A t \in Slots : frame[t].pc # "fetch"
  BY <1>2 DEF GeoIInv, OneAtATime
<1>4. lastCall \in 0..Gap /\ lastSend \in 0..Gap
  BY DEF GeoIInv, GeoTypeOK
<1>5. lastCall + 0 >= Gap /\ lastCall <= lastSend
  BY <1>2, <1>3 DEF GeoIInv, GapKept
<1> QED
  BY <1>4, <1>5 DEF Gap, RateLimit

-----------------------------------------------------------------------------
(* WeatherService. *)
EventSteps == {"event", "forecast", "api"}
PlaceSteps == {"locate", "place", "fetch"}

WeatherSteps == {"idle"} \cup EventSteps \cup PlaceSteps
WeatherOps   == EventOps \cup PlaceOps \cup {"none"}
Distant        == Int \cup {Null}

WeatherRow ==
  [pc : WeatherSteps, op : WeatherOps, on : Offsets \cup {Null}, who : {Null}, arg : Distant, seen : {Null}]

(* A handler asks either for an event of the day or for a place. *)
WeatherFrame ==
  {f \in WeatherRow : /\ f.pc \in EventSteps => f.op \in EventOps /\ f.on \in Offsets
                      /\ f.pc \in PlaceSteps => f.op \in PlaceOps}

(* No half hour passes while WeatherAPI is asked. *)
DistanceStands == \A s \in Slots : frame[s].pc = "api" => frame[s].arg = Days(frame[s].on)

(* The distance at which the cached forecast was asked for: the event was   *)
(* further away by what the forecast has aged since.                        *)
AskedAt(o) == (eta + forecast.age - o) \div Day

LifeKept ==
  forecast # Null =>
    \E o \in Offsets : /\ forecast.source = SourceFor(AskedAt(o))
                       /\ forecast.age + forecast.left = TtlFor(AskedAt(o))

WeatherIInv ==
  WeatherTypeOK /\ frame \in [Slots -> WeatherFrame] /\ DistanceStands /\ LifeKept

(* A slot whose handler has ended. *)
LEMMA IdleWeather == Idle \in WeatherFrame /\ Idle.pc = "idle"
BY DEF Idle, WeatherFrame, WeatherRow, WeatherSteps, WeatherOps, Distant, EventSteps, PlaceSteps

(* The numbers of the constants. *)
LEMMA Distances ==
  /\ FarAway \in Nat /\ LongAfter \in Nat /\ Day = 48
  /\ \A o \in Offsets : o \in 0..47
BY EtaAssumption, OffsetsAssumption DEF Day

(* What Math.floor makes of half hours. *)
LEMMA WholeDays ==
  ASSUME NEW t \in Int
  PROVE  /\ t \div Day \in Int
         /\ Day * (t \div Day) <= t /\ t < Day * (t \div Day) + Day
BY DEF Day

(* The lifetimes getTtlSeconds gives. *)
LEMMA Lifetimes ==
  ASSUME NEW d \in Int
  PROVE  /\ TtlFor(d) \in {1, 4, 12, 24, 48} /\ SourceFor(d) \in Sources
         /\ d < 0 => TtlFor(d) = 48
         /\ d = 0 => TtlFor(d) = 1
         /\ 1 <= d /\ d < 3 => TtlFor(d) = 4
         /\ 3 <= d /\ d < 7 => TtlFor(d) = 12
         /\ 7 <= d => TtlFor(d) = 24
BY DEF TtlFor, SourceFor, Sources

(* Before the first request nothing is cached. *)
LEMMA WeatherStarts == WeatherInit => WeatherIInv
<1> SUFFICES ASSUME WeatherInit PROVE WeatherIInv
  OBVIOUS
<1>1. frame \in [Slots -> WeatherFrame] /\ \A s \in Slots : frame[s].pc = "idle"
  BY IdleWeather DEF WeatherInit, DeskInit
<1>2. eta \in -LongAfter..FarAway
  BY Distances DEF WeatherInit
<1>3. WeatherTypeOK
  BY <1>2 DEF WeatherInit, WeatherTypeOK
<1> QED
  BY <1>1, <1>3 DEF WeatherInit, WeatherIInv, DistanceStands, LifeKept

(* A handler's frame is replaced while the clock and the forecast stand      *)
(* still.                                                                   *)
LEMMA WeatherMoves ==
  ASSUME WeatherIInv, NEW s \in Slots, NEW f \in WeatherFrame,
         frame' = [frame EXCEPT ![s] = f], eta' = eta, WeatherTypeOK', LifeKept',
         f.pc = "api" => f.arg = Days(f.on)
  PROVE  WeatherIInv'
<1>1. frame \in [Slots -> WeatherFrame] /\ DistanceStands
  BY DEF WeatherIInv
<1>2. frame' \in [Slots -> WeatherFrame]
  BY <1>1
<1>3. frame'[s] = f /\ \A v \in Slots : v # s => frame'[v] = frame[v]
  BY <1>1
<1>4. DistanceStands'
  BY <1>1, <1>3 DEF DistanceStands, Days
<1> QED
  BY <1>2, <1>4 DEF WeatherIInv

(* The same when nothing but the frame changes. *)
LEMMA WeatherQuiet ==
  ASSUME WeatherIInv, UNCHANGED weather, NEW s \in Slots, NEW f \in WeatherFrame,
         frame' = [frame EXCEPT ![s] = f], f.pc = "api" => f.arg = Days(f.on)
  PROVE  WeatherIInv'
<1>1. eta' = eta /\ forecast' = forecast /\ current' = current /\ daily' = daily
  BY DEF weather
<1>2. WeatherTypeOK' /\ LifeKept'
  BY <1>1 DEF WeatherIInv, WeatherTypeOK, LifeKept, AskedAt
<1> QED
  BY <1>1, <1>2, WeatherMoves

(* A handler that ends, and stores nothing. *)
LEMMA WeatherEnds ==
  ASSUME WeatherIInv, UNCHANGED weather, NEW s \in Slots, frame' = [frame EXCEPT ![s] = Idle]
  PROVE  WeatherIInv'
BY IdleWeather, WeatherQuiet

(* A handler that goes on to the next call of the same request. *)
LEMMA WeatherGoesOn ==
  ASSUME WeatherIInv, UNCHANGED weather, NEW s \in Slots, NEW pc,
         \/ frame[s].pc \in EventSteps /\ pc = "forecast"
         \/ frame[s].pc \in PlaceSteps /\ pc \in {"place", "fetch"},
         Next2(s, pc)
  PROVE  WeatherIInv'
<1> DEFINE g == frame[s]
           f == [g EXCEPT !.pc = pc]
<1>1. g \in WeatherFrame /\ g \in WeatherRow
  BY DEF WeatherIInv, WeatherFrame
<1>2. frame' = [frame EXCEPT ![s] = f]
  BY DEF Next2, Proceed
<1>3. /\ pc \in EventSteps \cup PlaceSteps /\ pc # "api"
      /\ pc \in EventSteps => g.op \in EventOps /\ g.on \in Offsets
      /\ pc \in PlaceSteps => g.op \in PlaceOps
  BY <1>1 DEF WeatherFrame, EventSteps, PlaceSteps
<1> HIDE DEF g
<1>4. f \in WeatherRow /\ f.pc = pc /\ f.op = g.op /\ f.on = g.on
  BY <1>1, <1>3 DEF WeatherRow, WeatherSteps
<1> HIDE DEF f
<1>5. f \in WeatherFrame /\ f.pc # "api"
  BY <1>3, <1>4 DEF WeatherFrame
<1> QED
  BY <1>2, <1>5, WeatherQuiet

(* A request opens a handler. *)
LEMMA WeatherCallKeeps ==
  ASSUME WeatherIInv, NEW s \in Slots, WeatherCall(s)
  PROVE  WeatherIInv'
<1>1. UNCHANGED weather
  BY DEF WeatherCall
<1>2. ASSUME NEW op \in EventOps, NEW o \in Offsets,
             Open(s, [Idle EXCEPT !.op = op, !.pc = "event", !.on = o])
      PROVE  WeatherIInv'
  <2> DEFINE f == [Idle EXCEPT !.op = op, !.pc = "event", !.on = o]
  <2>1. f = [pc |-> "event", op |-> op, on |-> o, who |-> Null, arg |-> Null, seen |-> Null]
    <3> DEFINE f1 == [Idle EXCEPT !.op = op]
               f2 == [f1 EXCEPT !.pc = "event"]
    <3>1. f1 = [pc |-> "idle", op |-> op, on |-> Null, who |-> Null, arg |-> Null, seen |-> Null]
      BY DEF Idle
    <3>2. f = [f2 EXCEPT !.on = o]
      OBVIOUS
    <3> HIDE DEF f1
    <3>3. f2 = [pc |-> "event", op |-> op, on |-> Null, who |-> Null, arg |-> Null, seen |-> Null]
      BY <3>1
    <3> HIDE DEF f2, f
    <3> QED
      BY <3>2, <3>3
  <2>2. frame' = [frame EXCEPT ![s] = f]
    BY <1>2 DEF Open
  <2> HIDE DEF f
  <2>3. "event" \in WeatherSteps /\ op \in WeatherOps /\ Null \in Distant
    BY DEF WeatherSteps, EventSteps, PlaceSteps, WeatherOps, Distant
  <2>4. f \in WeatherRow
    BY <2>1, <2>3 DEF WeatherRow
  <2>5. f.pc = "event" /\ f.op = op /\ f.on = o
    BY <2>1
  <2>6. f \in WeatherFrame
    BY <2>4, <2>5 DEF WeatherFrame, EventSteps, PlaceSteps
  <2> QED
    BY <1>1, <2>2, <2>5, <2>6, WeatherQuiet
<1>3. ASSUME NEW op \in PlaceOps, Open(s, [Idle EXCEPT !.op = op, !.pc = "locate"])
      PROVE  WeatherIInv'
  <2> DEFINE f == [Idle EXCEPT !.op = op, !.pc = "locate"]
  <2>1. f = [pc |-> "locate", op |-> op, on |-> Null, who |-> Null, arg |-> Null, seen |-> Null]
    <3> DEFINE f1 == [Idle EXCEPT !.op = op]
    <3>1. f1 = [pc |-> "idle", op |-> op, on |-> Null, who |-> Null, arg |-> Null, seen |-> Null]
      BY DEF Idle
    <3>2. f = [f1 EXCEPT !.pc = "locate"]
      OBVIOUS
    <3> HIDE DEF f1, f
    <3> QED
      BY <3>1, <3>2
  <2>2. frame' = [frame EXCEPT ![s] = f]
    BY <1>3 DEF Open
  <2> HIDE DEF f
  <2>3. "locate" \in WeatherSteps /\ op \in WeatherOps /\ Null \in Distant
    BY DEF WeatherSteps, EventSteps, PlaceSteps, WeatherOps, Distant
  <2>4. f \in WeatherRow
    BY <2>1, <2>3 DEF WeatherRow
  <2>5. f.pc = "locate" /\ f.op = op /\ f.on = Null
    BY <2>1
  <2>6. f \in WeatherFrame
    BY <2>4, <2>5 DEF WeatherFrame, EventSteps, PlaceSteps
  <2> QED
    BY <1>1, <2>2, <2>5, <2>6, WeatherQuiet
<1> QED
  BY <1>2, <1>3 DEF WeatherCall

(* The reads, of the database and of Redis, and the operations without a key *)
(* for WeatherAPI.                                                          *)
LEMMA WeatherReadKeeps ==
  ASSUME WeatherIInv, NEW s \in Slots,
         \/ FindEvents(s) \/ ResolveLocation(s) \/ NoApiKey(s) \/ ReadForecast(s) \/ ReadPlace(s)
  PROVE  WeatherIInv'
<1>1. UNCHANGED weather
  BY DEF FindEvents, ResolveLocation, NoApiKey, ReadForecast, ReadPlace
<1>2. CASE FindEvents(s)
  BY <1>1, <1>2, WeatherGoesOn, WeatherEnds DEF FindEvents, AtStep, EventSteps, Finish
<1>3. CASE ResolveLocation(s)
  BY <1>1, <1>3, WeatherGoesOn, WeatherEnds
     DEF ResolveLocation, Authority, Throw, Proceed, AtStep, PlaceSteps
<1>4. CASE NoApiKey(s)
  BY <1>1, <1>4, WeatherEnds DEF NoApiKey, Finish
<1>5. CASE ReadPlace(s)
  BY <1>1, <1>5, WeatherGoesOn, WeatherEnds DEF ReadPlace, AtStep, PlaceSteps, Finish
<1>6. CASE ReadForecast(s)
  <2> DEFINE g == frame[s]
             days == Days(g.on)
             f == [g EXCEPT !.pc = "api", !.arg = days]
  <2>1. frame' = [frame EXCEPT ![s] = Idle] \/ frame' = [frame EXCEPT ![s] = f]
    BY <1>6 DEF ReadForecast, Finish, Proceed
  <2>2. g \in WeatherFrame /\ g \in WeatherRow /\ g.pc = "forecast"
    BY <1>6 DEF WeatherIInv, WeatherFrame, ReadForecast, AtStep
  <2>3. g.op \in EventOps /\ g.on \in Offsets
    BY <2>2 DEF WeatherFrame, EventSteps
  <2>4. days \in Int
    BY <2>3, Distances, WholeDays DEF WeatherIInv, WeatherTypeOK, Days
  <2> DEFINE k == [g EXCEPT !.pc = "api"]
  <2>5. f = [k EXCEPT !.arg = days]
    BY <2>2 DEF WeatherRow
  <2>6. days = Days(g.on)
    OBVIOUS
  <2> HIDE DEF g, days
  <2>7. /\ k \in WeatherRow /\ k.pc = "api" /\ k.op = g.op /\ k.on = g.on
    BY <2>2 DEF WeatherRow, WeatherSteps, EventSteps
  <2> HIDE DEF k
  <2>8. [k EXCEPT !.arg = days] \in WeatherRow /\ [k EXCEPT !.arg = days].pc = "api"
        /\ [k EXCEPT !.arg = days].op = k.op /\ [k EXCEPT !.arg = days].on = k.on
        /\ [k EXCEPT !.arg = days].arg = days
    BY <2>4, <2>7 DEF WeatherRow, Distant
  <2> HIDE DEF f
  <2>9. f \in WeatherFrame /\ f.arg = Days(f.on)
    BY <2>3, <2>5, <2>6, <2>7, <2>8 DEF WeatherFrame, EventSteps, PlaceSteps
  <2> QED
    BY <1>1, <2>1, <2>9, WeatherQuiet, WeatherEnds
<1> QED
  BY <1>2, <1>3, <1>4, <1>5, <1>6

(* What WeatherAPI answers is stored with the lifetime of its distance. *)
LEMMA GetForecastKeeps ==
  ASSUME WeatherIInv, NEW s \in Slots, GetForecast(s)
  PROVE  WeatherIInv'
<1> DEFINE o == frame[s].on
           d == frame[s].arg
           entry == [source |-> SourceFor(d), age |-> 0, left |-> TtlFor(d)]
<1>1. /\ forecast' \in {forecast, entry} /\ eta' = eta /\ current' = current /\ daily' = daily
      /\ frame' = [frame EXCEPT ![s] = Idle] /\ frame[s].pc = "api" /\ frame[s] \in WeatherFrame
  BY DEF GetForecast, Finish, AtStep, WeatherIInv
<1>2. o \in Offsets /\ d = Days(o)
  BY <1>1 DEF WeatherFrame, EventSteps, WeatherIInv, DistanceStands
<1>3. eta \in Int /\ o \in Int
  BY <1>2, Distances DEF WeatherIInv, WeatherTypeOK
<1>4. d = (eta - o) \div Day /\ d \in Int
  BY <1>2, <1>3, WholeDays DEF Days
<1> HIDE DEF o, d
<1>5. TtlFor(d) \in 1..48 /\ SourceFor(d) \in Sources
  BY <1>4, Lifetimes
<1>6. /\ entry \in [source : Sources, age : 0..47, left : 1..48]
      /\ entry.age = 0 /\ entry.left = TtlFor(d) /\ entry.source = SourceFor(d)
  BY <1>5
<1> HIDE DEF entry
<1>7. CASE forecast' = forecast
  <2>1. WeatherTypeOK' /\ LifeKept'
    BY <1>1, <1>7 DEF WeatherIInv, WeatherTypeOK, LifeKept, AskedAt
  <2> QED
    BY <1>1, <2>1, IdleWeather, WeatherMoves
<1>8. CASE forecast' = entry
  <2>1. eta' + forecast'.age - o = eta - o
    BY <1>1, <1>3, <1>6, <1>8
  <2>2. /\ forecast'.source = SourceFor((eta' + forecast'.age - o) \div Day)
        /\ forecast'.age + forecast'.left = TtlFor((eta' + forecast'.age - o) \div Day)
    BY <1>4, <1>5, <1>6, <1>8, <2>1
  <2>3. LifeKept'
    BY <1>2, <2>2 DEF LifeKept, AskedAt
  <2>4. WeatherTypeOK'
    BY <1>1, <1>6, <1>8 DEF WeatherIInv, WeatherTypeOK
  <2> QED
    BY <1>1, <2>3, <2>4, IdleWeather, WeatherMoves
<1> QED
  BY <1>1, <1>7, <1>8

(* The two entries of a place. *)
LEMMA FetchPlaceKeeps ==
  ASSUME WeatherIInv, NEW s \in Slots, FetchPlace(s)
  PROVE  WeatherIInv'
<1>1. /\ current' \in {CurrentTtl, current} /\ daily' \in {DailyTtl, daily}
      /\ eta' = eta /\ forecast' = forecast /\ frame' = [frame EXCEPT ![s] = Idle]
  BY DEF FetchPlace, Finish
<1>2. WeatherTypeOK' /\ LifeKept'
  BY <1>1 DEF WeatherIInv, WeatherTypeOK, LifeKept, AskedAt, DailyTtl
<1> QED
  BY <1>1, <1>2, IdleWeather, WeatherMoves

(* Half an hour takes from the lifetime of the forecast what it adds to its  *)
(* age, and to nobody's request.                                            *)
LEMMA HalfHourKeeps == WeatherIInv /\ HalfHour => WeatherIInv'
<1> SUFFICES ASSUME WeatherIInv, HalfHour PROVE WeatherIInv'
  OBVIOUS
<1>1. /\ eta > -LongAfter /\ eta' = eta - 1 /\ frame' = frame /\ current' = current /\ daily' = daily
      /\ forecast' = IF forecast = Null THEN Null
                     ELSE IF forecast.left = 1 THEN Null
                     ELSE [forecast EXCEPT !.age = @ + 1, !.left = @ - 1]
      /\ \A s \in Slots : frame[s].pc = "idle"
  BY DEF HalfHour, Busy, AtStep
<1>2. eta \in -LongAfter..FarAway /\ eta' \in -LongAfter..FarAway
  BY <1>1, Distances DEF WeatherIInv, WeatherTypeOK
<1>3. frame' \in [Slots -> WeatherFrame] /\ DistanceStands'
  BY <1>1 DEF WeatherIInv, DistanceStands
<1>4. CASE forecast' = Null
  BY <1>1, <1>2, <1>3, <1>4 DEF WeatherIInv, WeatherTypeOK, LifeKept
<1>5. CASE forecast' # Null
  <2> DEFINE e == forecast
  <2>1. /\ e # Null /\ e.left # 1 /\ forecast' = [e EXCEPT !.age = @ + 1, !.left = @ - 1]
        /\ e \in [source : Sources, age : 0..47, left : 1..48]
    BY <1>1, <1>5 DEF WeatherIInv, WeatherTypeOK
  <2>2. PICK o \in Offsets : e.source = SourceFor(AskedAt(o)) /\ e.age + e.left = TtlFor(AskedAt(o))
    BY <2>1 DEF WeatherIInv, LifeKept
  <2> DEFINE n == forecast'
  <2>3. n = [source |-> e.source, age |-> e.age + 1, left |-> e.left - 1]
    BY <2>1
  <2>4. eta' + (e.age + 1) - o = eta + e.age - o /\ eta + e.age - o \in Int /\ o \in Int
    BY <1>1, <1>2, <2>1, Distances
  <2>5. e.age + e.left <= 48 /\ AskedAt(o) \in Int
    <3>1. AskedAt(o) \in Int
      BY <2>4, WholeDays DEF AskedAt
    <3> QED
      BY <2>2, <3>1, Lifetimes
  <2>6. n.age = e.age + 1 /\ n.left = e.left - 1 /\ n.source = e.source
    BY <2>3
  <2>7. n \in [source : Sources, age : 0..47, left : 1..48]
    BY <2>1, <2>3, <2>5
  <2>8. n.age + n.left = e.age + e.left
    BY <2>1, <2>6
  <2>9. (eta' + n.age - o) \div Day = AskedAt(o)
    BY <2>4, <2>6 DEF AskedAt
  <2>10. LifeKept'
    BY <2>2, <2>6, <2>8, <2>9 DEF LifeKept, AskedAt
  <2>11. WeatherTypeOK'
    BY <1>1, <1>2, <2>7 DEF WeatherIInv, WeatherTypeOK
  <2> QED
    BY <1>3, <2>10, <2>11 DEF WeatherIInv
<1> QED
  BY <1>4, <1>5

(* Ten minutes in the life of the entries of a place. *)
LEMMA TenMinutesKeeps == WeatherIInv /\ TenMinutes => WeatherIInv'
<1> SUFFICES ASSUME WeatherIInv, TenMinutes PROVE WeatherIInv'
  OBVIOUS
<1>1. /\ current' = TimeLeft(current) /\ daily' = TimeLeft(daily) /\ eta' = eta
      /\ forecast' = forecast /\ frame' = frame
  BY DEF TenMinutes
<1>2. TimeLeft(current) = Null
  BY DEF WeatherIInv, WeatherTypeOK, TimeLeft, CurrentTtl
<1>3. TimeLeft(daily) \in (1..DailyTtl) \cup {Null}
  BY DEF WeatherIInv, WeatherTypeOK, TimeLeft, DailyTtl
<1> QED
  BY <1>1, <1>2, <1>3 DEF WeatherIInv, WeatherTypeOK, DistanceStands, Days, LifeKept, AskedAt

(* Every step keeps the invariant. *)
LEMMA WeatherKeeps == WeatherIInv /\ [WeatherNext]_weatherVars => WeatherIInv'
<1> SUFFICES ASSUME WeatherIInv, [WeatherNext]_weatherVars PROVE WeatherIInv'
  OBVIOUS
<1>1. CASE UNCHANGED weatherVars
  BY <1>1 DEF weatherVars, desk, weather, WeatherIInv, WeatherTypeOK, DistanceStands, Days, LifeKept,
              AskedAt
<1>2. CASE HalfHour \/ TenMinutes
  BY <1>2, HalfHourKeeps, TenMinutesKeeps
<1>3. ASSUME NEW s \in Slots, WeatherCall(s) PROVE WeatherIInv'
  BY <1>3, WeatherCallKeeps
<1>4. ASSUME NEW s \in Slots, WeatherHandler(s) PROVE WeatherIInv'
  BY <1>4, WeatherReadKeeps, GetForecastKeeps, FetchPlaceKeeps DEF WeatherHandler
<1>5. ASSUME NEW s \in Slots, WeatherFail(s) PROVE WeatherIInv'
  BY <1>5, WeatherEnds DEF WeatherFail, Fail, Throw, Proceed
<1> QED
  BY <1>1, <1>2, <1>3, <1>4, <1>5 DEF WeatherNext

-----------------------------------------------------------------------------
(* A forecast from the cache: how long ago it was asked for is less than the *)
(* lifetime of that distance, and so less than what OldestAt allows now.    *)
LEMMA CachedForecast ==
  ASSUME WeatherIInv, forecast # Null
  PROVE  /\ \E o \in Offsets : forecast.age < OldestAt(eta - o)
         /\ eta < -1 => forecast.source = "history"
         /\ eta <= 14 * Day => forecast.source # "unavailable"
<1>1. PICK o \in Offsets : /\ forecast.source = SourceFor(AskedAt(o))
                           /\ forecast.age + forecast.left = TtlFor(AskedAt(o))
  BY DEF WeatherIInv, LifeKept
<1> DEFINE age == forecast.age
           left == forecast.left
           d == AskedAt(o)
           t == eta + age - o
           ttl == TtlFor(d)
<1>2. age \in 0..47 /\ left \in 1..48 /\ eta \in Int /\ o \in 0..47
  BY Distances DEF WeatherIInv, WeatherTypeOK
<1>3. t \in Int /\ d = t \div Day /\ eta - o = t - age /\ eta = t - age + o
  BY <1>2 DEF AskedAt
<1>4. d \in Int /\ 48 * d <= t /\ t < 48 * d + 48
  BY <1>2, <1>3, WholeDays, Distances
<1>5. /\ d < 0 => ttl = 48
      /\ 0 <= d /\ d < 1 => ttl = 1
      /\ 1 <= d /\ d < 3 => ttl = 4
      /\ 3 <= d /\ d < 7 => ttl = 12
      /\ 7 <= d => ttl = 24
  BY <1>4, Lifetimes
<1>6. age + left = ttl /\ forecast.source = SourceFor(d)
  BY <1>1
<1>7. OldestAt(eta - o) = IF t - age < 0 THEN 48 ELSE IF t - age < 48 THEN 4
                          ELSE IF t - age < 144 THEN 12 ELSE 24
  BY <1>2, <1>3, Distances DEF OldestAt
<1> HIDE DEF age, left, d, t, ttl
<1>8. age < OldestAt(eta - o)
  <2>1. CASE d < 0
    BY <1>2, <1>3, <1>4, <1>5, <1>6, <1>7, <2>1
  <2>2. CASE 0 <= d /\ d < 1
    <3>1. age = 0
      BY <1>2, <1>5, <1>6, <2>2
    <3>2. t >= 0
      BY <1>3, <1>4, <2>2
    <3> QED
      BY <1>3, <1>7, <3>1, <3>2
  <2>3. CASE 1 <= d /\ d < 3
    BY <1>2, <1>3, <1>4, <1>5, <1>6, <1>7, <2>3
  <2>4. CASE 3 <= d /\ d < 7
    BY <1>2, <1>3, <1>4, <1>5, <1>6, <1>7, <2>4
  <2>5. CASE 7 <= d
    BY <1>2, <1>3, <1>4, <1>5, <1>6, <1>7, <2>5
  <2> QED
    BY <1>4, <2>1, <2>2, <2>3, <2>4, <2>5
<1>9. ASSUME eta < -1 PROVE forecast.source = "history"
  <2>1. d < 0
    <3>1. ~(1 <= d)
      BY <1>2, <1>3, <1>4, <1>9
    <3>2. ASSUME 0 <= d /\ d < 1 PROVE FALSE
      <4>1. age = 0
        BY <1>2, <1>5, <1>6, <3>2
      <4>2. t >= 0
        BY <1>3, <1>4, <3>2
      <4>3. eta = t + o
        BY <1>2, <1>3, <4>1
      <4> QED
        BY <1>2, <1>3, <1>9, <4>2, <4>3
    <3> QED
      BY <1>4, <3>1, <3>2
  <2> QED
    BY <1>4, <1>6, <2>1 DEF SourceFor
<1>10. ASSUME eta <= 14 * Day PROVE forecast.source # "unavailable"
  <2>1. d <= 14
    <3>1. CASE 7 <= d
      BY <1>2, <1>3, <1>4, <1>5, <1>6, <1>10, <3>1, Distances
    <3> QED
      BY <1>4, <3>1
  <2> QED
    BY <1>4, <1>6, <2>1 DEF SourceFor
<1> QED
  BY <1>8, <1>9, <1>10 DEF age

(* A forecast from WeatherAPI. *)
LEMMA NewForecast ==
  ASSUME WeatherIInv, NEW s \in Slots, frame[s].pc = "api"
  PROVE  /\ \E o \in Offsets : 0 < OldestAt(eta - o)
         /\ eta < -1 => SourceFor(frame[s].arg) = "history"
         /\ eta <= 14 * Day => SourceFor(frame[s].arg) # "unavailable"
<1> DEFINE o == frame[s].on
           d == frame[s].arg
<1>1. o \in Offsets /\ d = (eta - o) \div Day
  BY DEF WeatherIInv, WeatherFrame, EventSteps, DistanceStands, Days
<1>2. eta \in Int /\ o \in 0..47
  BY <1>1, Distances DEF WeatherIInv, WeatherTypeOK
<1> HIDE DEF o, d
<1>3. d \in Int /\ 48 * d <= eta - o /\ eta - o < 48 * d + 48
  BY <1>1, <1>2, WholeDays, Distances
<1>4. 0 < OldestAt(eta - o)
  BY <1>2 DEF OldestAt, Day
<1>5. eta < -1 => d < 0
  BY <1>2, <1>3
<1>6. eta <= 14 * Day => d <= 14
  BY <1>2, <1>3, Distances
<1> QED
  BY <1>1, <1>3, <1>4, <1>5, <1>6 DEF SourceFor, d

(* What is told of a forecast. *)
LEMMA ToldOf ==
  ASSUME NEW op \in EventOps, NEW source, NEW age, NEW a \in Told(op, source, age), a # Null
  PROVE  a = [type |-> "forecast", source |-> source, age |-> age]
BY DEF Told, EventOps

(* What WeatherService answers with: a forecast, or the entries of a place.  *)
LEMMA WeatherSays ==
  ASSUME WeatherIInv, WeatherNext, said' # Null
  PROVE  \/ /\ said'.type = "forecast"
            /\ \E o \in Offsets : said'.age < OldestAt(eta - o)
            /\ eta < -1 => said'.source = "history"
            /\ eta <= 14 * Day => said'.source # "unavailable"
         \/ /\ said'.type = "place"
            /\ \A e \in DOMAIN said'.ages :
                 said'.ages[e] < IF e = "current" THEN CurrentTtl ELSE DailyTtl
<1>1. PICK s \in Slots : ReadForecast(s) \/ GetForecast(s) \/ ReadPlace(s) \/ FetchPlace(s)
  BY DEF WeatherNext, HalfHour, TenMinutes, WeatherCall, WeatherHandler, WeatherFail, Open, FindEvents,
     ResolveLocation, Authority, NoApiKey, Fail, Throw, Next2, Proceed, Finish
<1>2. frame[s] \in WeatherFrame
  BY DEF WeatherIInv
<1>3. CASE ReadForecast(s)
  <2>1. /\ forecast # Null /\ frame[s].pc = "forecast"
        /\ said' \in Told(frame[s].op, forecast.source, forecast.age)
    BY <1>3 DEF ReadForecast, AtStep, Finish, Proceed
  <2>2. frame[s].op \in EventOps
    BY <1>2, <2>1 DEF WeatherFrame, EventSteps
  <2>3. said' = [type |-> "forecast", source |-> forecast.source, age |-> forecast.age]
    BY <2>1, <2>2, ToldOf
  <2> QED
    BY <2>1, <2>3, CachedForecast
<1>4. CASE GetForecast(s)
  <2>1. /\ frame[s].pc = "api" /\ said' \in Told(frame[s].op, SourceFor(frame[s].arg), 0)
    BY <1>4 DEF GetForecast, AtStep, Finish
  <2>2. frame[s].op \in EventOps
    BY <1>2, <2>1 DEF WeatherFrame, EventSteps
  <2>3. said' = [type |-> "forecast", source |-> SourceFor(frame[s].arg), age |-> 0]
    BY <2>1, <2>2, ToldOf
  <2> QED
    BY <2>1, <2>3, NewForecast
<1>5. CASE ReadPlace(s)
  <2> DEFINE U == Uses(frame[s].op)
  <2>1. U \subseteq Cached /\ said' = [type |-> "place", ages |-> [e \in U |-> AgeOf(e)]]
    BY <1>5 DEF ReadPlace, Finish, Next2, Proceed
  <2> HIDE DEF U
  <2>2. current \in {CurrentTtl, Null} /\ daily \in (1..DailyTtl) \cup {Null}
    BY DEF WeatherIInv, WeatherTypeOK
  <2>3. ASSUME NEW e \in U PROVE AgeOf(e) < IF e = "current" THEN CurrentTtl ELSE DailyTtl
    <3>1. CASE e = "current"
      <4>1. current = CurrentTtl
        BY <2>1, <2>2, <2>3, <3>1 DEF Cached
      <4> QED
        BY <3>1, <4>1 DEF AgeOf, CurrentTtl
    <3>2. CASE e # "current"
      <4>1. daily \in 1..DailyTtl
        BY <2>1, <2>2, <2>3, <3>2 DEF Cached
      <4> QED
        BY <3>2, <4>1 DEF AgeOf, DailyTtl
    <3> QED
      BY <3>1, <3>2
  <2>4. said'.type = "place" /\ said'.ages = [e \in U |-> AgeOf(e)]
    BY <2>1
  <2> QED
    BY <2>3, <2>4
<1>6. CASE FetchPlace(s)
  <2> DEFINE U == Uses(frame[s].op)
  <2>1. said' = [type |-> "place", ages |-> [e \in U |-> 0]]
    BY <1>6 DEF FetchPlace, Finish
  <2> HIDE DEF U
  <2>2. said'.type = "place" /\ said'.ages = [e \in U |-> 0]
    BY <2>1
  <2> QED
    BY <2>2 DEF CurrentTtl, DailyTtl
<1> QED
  BY <1>1, <1>3, <1>4, <1>5, <1>6

-----------------------------------------------------------------------------
(* The three services together: a behaviour is one of one of them, and what  *)
(* the others keep stands as it began.                                      *)
WeatherServiceOps == EventOps \cup PlaceOps

IInv ==
  \/ ops \subseteq AccessOps /\ AccessIInv /\ GeoTypeOK /\ WeatherTypeOK
  \/ ops \subseteq GeoOps /\ AccessTypeOK /\ GeoIInv /\ WeatherTypeOK
  \/ ops \subseteq WeatherServiceOps /\ AccessTypeOK /\ GeoTypeOK /\ WeatherIInv

(* No operation belongs to two services. *)
LEMMA Apart ==
  /\ AccessOps \cap GeoOps = {}
  /\ AccessOps \cap WeatherServiceOps = {}
  /\ GeoOps \cap WeatherServiceOps = {}
BY DEF AccessOps, ByIdOps, GeoOps, WeatherServiceOps, EventOps, PlaceOps

(* The invariant of StorageAccess gives the shape of its state. *)
LEMMA AccessTyped == AccessIInv => AccessTypeOK
<1> SUFFICES ASSUME AccessIInv PROVE AccessTypeOK
  OBVIOUS
<1>1. url # Null => url \in CachedUrl
  <2> SUFFICES ASSUME url # Null PROVE url \in CachedUrl
    OBVIOUS
  <2>1. url \in [signed : Signed, left : 1..UrlTtl] /\ url.signed.age + url.left <= UrlTtl + Lag
    BY DEF AccessIInv, UrlFresh
  <2>2. url.signed \in Signed /\ url.left \in 1..UrlTtl
    BY <2>1
  <2>3. url.signed.age \in 0..(UrlTtl + 2 * Lag)
    BY <2>1, <2>2, Numbers DEF Signed
  <2>4. url.signed \in Url
    BY <2>2, <2>3 DEF Signed, Url
  <2> QED
    BY <2>1, <2>4 DEF CachedUrl
<1> QED
  BY <1>1 DEF AccessIInv, TablesOK, AccessTypeOK

(* Initially every cache is empty. *)
LEMMA InitIInv == Init => IInv
<1> SUFFICES ASSUME Init PROVE IInv
  OBVIOUS
<1>1. AccessIInv /\ GeoIInv /\ WeatherIInv
  BY AccessStarts, GeoStarts, WeatherStarts DEF Init
<1>2. AccessTypeOK /\ GeoTypeOK /\ WeatherTypeOK
  BY <1>1, AccessTyped DEF GeoIInv, WeatherIInv
<1>3. ops \subseteq AccessOps \/ ops \subseteq GeoOps \/ ops \subseteq WeatherServiceOps
  BY GroupsAssumption DEF Init, GeoInit, DeskInit, WeatherServiceOps
<1> QED
  BY <1>1, <1>2, <1>3 DEF IInv

(* Whose step a step is. *)
LEMMA WhoseStep ==
  ASSUME IInv, [Next]_cacheVars
  PROVE  /\ ops' = ops
         /\ \/ UNCHANGED cacheVars
            \/ /\ ops \subseteq AccessOps /\ AccessIInv /\ GeoTypeOK /\ WeatherTypeOK
               /\ AccessNext /\ UNCHANGED <<geo, weather>>
            \/ /\ ops \subseteq GeoOps /\ AccessTypeOK /\ GeoIInv /\ WeatherTypeOK
               /\ GeoNext /\ UNCHANGED <<access, weather>>
            \/ /\ ops \subseteq WeatherServiceOps /\ AccessTypeOK /\ GeoTypeOK /\ WeatherIInv
               /\ WeatherNext /\ UNCHANGED <<access, geo>>
<1>1. CASE UNCHANGED cacheVars
  BY <1>1 DEF cacheVars, desk
<1>2. CASE Concerns(AccessOps) /\ AccessNext /\ UNCHANGED <<geo, weather>>
  <2>1. ops' = ops
    BY <1>2 DEF AccessNext, SetLands, MemberChanges, HalfMinute, AccessCall, AccessHandler, AccessFail,
       Open, Fail, Throw, Proceed, Finish, Go, ListOrgs, AssertAccess, UpdateMetadata, ReadAnswer,
       MissAnswer, AskTable, FindAsset, LookupUrl, SignUrl, StoreUrl, DeleteFromBucket,
       InvalidateDownloadCache, Admitted, Refused, Served
  <2>2. ~(ops \subseteq GeoOps) /\ ~(ops \subseteq WeatherServiceOps)
    BY <1>2, Apart DEF Concerns
  <2> QED
    BY <1>2, <2>1, <2>2 DEF IInv
<1>3. CASE Concerns(GeoOps) /\ GeoNext /\ UNCHANGED <<access, weather>>
  <2>1. ops' = ops
    BY <1>3 DEF GeoNext, GeoEntryExpires, TenthPasses, GeoCall, GeoHandler, GeoFail, Open, GetCached,
       FetchBan, WaitForNominatimRateLimit, SendNominatim, NominatimAnswers, SetCache, Fail, Throw,
       Next2, Proceed, Finish
  <2>2. ~(ops \subseteq AccessOps) /\ ~(ops \subseteq WeatherServiceOps)
    BY <1>3, Apart DEF Concerns
  <2> QED
    BY <1>3, <2>1, <2>2 DEF IInv
<1>4. CASE Concerns(WeatherServiceOps) /\ WeatherNext /\ UNCHANGED <<access, geo>>
  <2>1. ops' = ops
    BY <1>4 DEF WeatherNext, HalfHour, TenMinutes, WeatherCall, WeatherHandler, WeatherFail, Open,
       FindEvents, ResolveLocation, Authority, NoApiKey, ReadForecast, GetForecast, ReadPlace,
       FetchPlace, Fail, Throw, Next2, Proceed, Finish
  <2>2. ~(ops \subseteq AccessOps) /\ ~(ops \subseteq GeoOps)
    BY <1>4, Apart DEF Concerns
  <2> QED
    BY <1>4, <2>1, <2>2 DEF IInv
<1> QED
  BY <1>1, <1>2, <1>3, <1>4 DEF Next, WeatherServiceOps

(* What stands still keeps its shape. *)
LEMMA Untouched ==
  /\ AccessTypeOK /\ UNCHANGED access => AccessTypeOK'
  /\ GeoTypeOK /\ UNCHANGED geo => GeoTypeOK'
  /\ WeatherTypeOK /\ UNCHANGED weather => WeatherTypeOK'
<1>1. AccessTypeOK /\ UNCHANGED access => AccessTypeOK'
  BY DEF AccessTypeOK, access, redis
<1>2. GeoTypeOK /\ UNCHANGED geo => GeoTypeOK'
  BY DEF GeoTypeOK, geo
<1>3. WeatherTypeOK /\ UNCHANGED weather => WeatherTypeOK'
  BY DEF WeatherTypeOK, weather
<1> QED
  BY <1>1, <1>2, <1>3

(* Every step keeps the invariant. *)
LEMMA NextKeeps == IInv /\ [Next]_cacheVars => IInv'
<1> SUFFICES ASSUME IInv, [Next]_cacheVars PROVE IInv'
  OBVIOUS
<1>1. CASE UNCHANGED cacheVars
  <2>1. UNCHANGED accessVars /\ UNCHANGED geoVars /\ UNCHANGED weatherVars /\ ops' = ops
    BY <1>1 DEF cacheVars, accessVars, geoVars, weatherVars, desk
  <2>2. UNCHANGED access /\ UNCHANGED geo /\ UNCHANGED weather
    BY <1>1 DEF cacheVars
  <2> QED
    BY <2>1, <2>2, AccessKeeps, GeoKeeps, WeatherKeeps, Untouched DEF IInv
<1>2. CASE ops \subseteq AccessOps /\ AccessIInv /\ GeoTypeOK /\ WeatherTypeOK
           /\ AccessNext /\ UNCHANGED <<geo, weather>>
  BY <1>2, WhoseStep, AccessKeeps, Untouched DEF IInv
<1>3. CASE ops \subseteq GeoOps /\ AccessTypeOK /\ GeoIInv /\ WeatherTypeOK
           /\ GeoNext /\ UNCHANGED <<access, weather>>
  BY <1>3, WhoseStep, GeoKeeps, Untouched DEF IInv
<1>4. CASE ops \subseteq WeatherServiceOps /\ AccessTypeOK /\ GeoTypeOK /\ WeatherIInv
           /\ WeatherNext /\ UNCHANGED <<access, geo>>
  BY <1>4, WhoseStep, WeatherKeeps, Untouched DEF IInv
<1> QED
  BY <1>1, <1>2, <1>3, <1>4, WhoseStep

(* The accounts of time, in every behaviour. *)
THEOREM CachesInvariance == Spec => []IInv
<1> QED
  BY InitIInv, NextKeeps, PTL DEF Spec

(* Every cache entry has the shape and at most the lifetime its service gives *)
(* it.                                                                      *)
THEOREM CachesConsistent == Spec => []CachesOK
<1>1. IInv => CachesOK
  BY AccessTyped DEF IInv, CachesOK, GeoIInv, WeatherIInv
<1> QED
  BY <1>1, CachesInvariance, PTL

(* Membership changes reach the downloads within the lifetime of an answer   *)
(* and one call, whatever overlaps and whichever SET lands late.            *)
THEOREM MembershipsAreRecent == Spec => AnswersAreRecent
<1> DEFINE Recent ==
             \A u \in Users :
               LET decided(s) == frame[s].who = u /\ frame[s].pc \in {"cached", "db"} IN
               /\ (\E s \in Slots : decided(s) /\ frame'[s].pc = "asset") =>
                    u \in member \/ steady[u] < MembershipTtl + Lag
               /\ said' # Null /\ said'.type = "refused" /\ said'.who = u =>
                    u \notin member \/ steady[u] < MembershipTtl + Lag
<1>1. IInv /\ [Next]_cacheVars => [Recent]_accessVars
  <2> SUFFICES ASSUME IInv, [Next]_cacheVars, ~UNCHANGED accessVars PROVE Recent
    OBVIOUS
  <2>1. CASE UNCHANGED cacheVars
    BY <2>1 DEF cacheVars, accessVars
  <2>2. CASE AccessIInv /\ AccessNext
    BY <2>2, AdmissionIsRecent, RefusalIsRecent
  <2>3. CASE GeoIInv /\ GeoNext
    <3>1. \A s \in Slots : frame'[s].pc # "asset"
      <4>1. GeoIInv'
        BY <2>3, GeoKeeps
      <4> QED
        BY <4>1 DEF GeoIInv, GeoFrame, GeoRow, GeoSteps
    <3>2. said' = Null \/ said'.type = "nominatim"
      BY <2>3, GeoSays
    <3> QED
      BY <3>1, <3>2
  <2>4. CASE WeatherIInv /\ WeatherNext
    <3>1. \A s \in Slots : frame'[s].pc # "asset"
      <4>1. WeatherIInv'
        BY <2>4, WeatherKeeps
      <4> QED
        BY <4>1 DEF WeatherIInv, WeatherFrame, WeatherRow, WeatherSteps, EventSteps, PlaceSteps
    <3>2. said' = Null \/ said'.type \in {"forecast", "place"}
      BY <2>4, WeatherSays
    <3> QED
      BY <3>1, <3>2
  <2> QED
    BY <2>1, <2>2, <2>3, <2>4, WhoseStep
<1> QED
  BY <1>1, CachesInvariance, PTL DEF Spec, AnswersAreRecent

(* What StorageAccess tells a client. *)
LEMMA AccessSays ==
  ASSUME AccessNext, said' # Null
  PROVE  said'.type \in {"url", "cdn", "refused"}
<1>1. PICK s \in Slots : AccessHandler(s)
  BY DEF AccessNext, SetLands, MemberChanges, HalfMinute, AccessCall, Open, AccessFail, Fail, Throw,
     Proceed
<1>2. CASE ReadAnswer(s) \/ AskTable(s) \/ FindAsset(s)
  BY <1>2 DEF ReadAnswer, AskTable, FindAsset, Admitted, Refused, Go, Proceed, Finish
<1>3. CASE LookupUrl(s) \/ SignUrl(s) \/ StoreUrl(s)
  BY <1>3 DEF LookupUrl, SignUrl, StoreUrl, Served, Go, Proceed, Finish
<1> QED
  BY <1>1, <1>2, <1>3 DEF AccessHandler, ListOrgs, AssertAccess, UpdateMetadata, MissAnswer,
     DeleteFromBucket, InvalidateDownloadCache, Go, Throw, Proceed, Finish

(* When no call takes longer than a minute, every URL that is handed out     *)
(* still works, from the cache or not.                                      *)
THEOREM UrlsWork ==
  ASSUME Lag <= 2
  PROVE  Spec => ServedUrlWorks
<1> DEFINE Works ==
             said' # Null /\ said'.type = "url" =>
               /\ said'.signed.age < said'.life
               /\ calm /\ said'.cached => said'.signed.cleared = cleared
<1>1. IInv /\ [Next]_cacheVars => [Works]_accessVars
  <2> SUFFICES ASSUME IInv, [Next]_cacheVars, ~UNCHANGED accessVars, said' # Null, said'.type = "url"
               PROVE  Works
    OBVIOUS
  <2>1. CASE UNCHANGED cacheVars
    BY <2>1 DEF cacheVars, accessVars
  <2>2. CASE AccessIInv /\ AccessNext
    BY <2>2, UrlStep
  <2>3. CASE GeoIInv /\ GeoNext
    BY <2>3, GeoSays
  <2>4. CASE WeatherIInv /\ WeatherNext
    BY <2>4, WeatherSays
  <2> QED
    BY <2>1, <2>2, <2>3, <2>4, WhoseStep
<1> QED
  BY <1>1, CachesInvariance, PTL DEF Spec, ServedUrlWorks

(* Callers that take turns keep Nominatim's requests a second apart, however *)
(* many addresses and handlers there are.                                   *)
THEOREM RequestsAreSpaced == Spec => NominatimSpaced
<1> DEFINE Spaced ==
             calm /\ ~rejected /\ said' # Null /\ said'.type = "nominatim" => lastSend >= RateLimit
<1>1. IInv /\ [Next]_cacheVars => [Spaced]_geoVars
  <2> SUFFICES ASSUME IInv, [Next]_cacheVars, ~UNCHANGED geoVars,
                      calm, ~rejected, said' # Null, said'.type = "nominatim"
               PROVE  lastSend >= RateLimit
    OBVIOUS
  <2>1. CASE UNCHANGED cacheVars
    BY <2>1 DEF cacheVars, geoVars
  <2>2. CASE AccessIInv /\ AccessNext
    BY <2>2, AccessSays
  <2>3. CASE GeoIInv /\ GeoNext
    BY <2>3, SentAfterTheGap
  <2>4. CASE WeatherIInv /\ WeatherNext
    BY <2>4, WeatherSays
  <2> QED
    BY <2>1, <2>2, <2>3, <2>4, WhoseStep
<1> QED
  BY <1>1, CachesInvariance, PTL DEF Spec, NominatimSpaced

(* No forecast is served that is older than the next distance allows, and    *)
(* none from before its event once the event has begun, wherever its         *)
(* behaviour begins and ends and whatever the events of the day are.        *)
THEOREM ForecastsAreFresh == Spec => ServedWeatherIsFresh
<1> DEFINE Fresh ==
             /\ said' # Null /\ said'.type = "forecast" =>
                  /\ \E o \in Offsets : said'.age < OldestAt(eta - o)
                  /\ eta < -1 => said'.source = "history"
             /\ said' # Null /\ said'.type = "place" =>
                  \A e \in DOMAIN said'.ages :
                    said'.ages[e] < IF e = "current" THEN CurrentTtl ELSE DailyTtl
<1>1. IInv /\ [Next]_cacheVars => [Fresh]_weatherVars
  <2> SUFFICES ASSUME IInv, [Next]_cacheVars, ~UNCHANGED weatherVars, said' # Null PROVE Fresh
    OBVIOUS
  <2>1. CASE UNCHANGED cacheVars
    BY <2>1 DEF cacheVars, weatherVars
  <2>2. CASE AccessIInv /\ AccessNext
    BY <2>2, AccessSays
  <2>3. CASE GeoIInv /\ GeoNext
    BY <2>3, GeoSays
  <2>4. CASE WeatherIInv /\ WeatherNext
    BY <2>4, WeatherSays
  <2> QED
    BY <2>1, <2>2, <2>3, <2>4, WhoseStep
<1> QED
  BY <1>1, CachesInvariance, PTL DEF Spec, ServedWeatherIsFresh

(* Fourteen days before the last event of the day the answer "available       *)
(* from ..." is served to nobody any more.                                  *)
THEOREM ThePromiseIsKept == Spec => PromisedForecastComes
<1> DEFINE Comes ==
             said' # Null /\ said'.type = "forecast" /\ eta <= 14 * Day =>
               said'.source # "unavailable"
<1>1. IInv /\ [Next]_cacheVars => [Comes]_weatherVars
  <2> SUFFICES ASSUME IInv, [Next]_cacheVars, ~UNCHANGED weatherVars, said' # Null,
                      said'.type = "forecast", eta <= 14 * Day
               PROVE  said'.source # "unavailable"
    OBVIOUS
  <2>1. CASE UNCHANGED cacheVars
    BY <2>1 DEF cacheVars, weatherVars
  <2>2. CASE AccessIInv /\ AccessNext
    BY <2>2, AccessSays
  <2>3. CASE GeoIInv /\ GeoNext
    BY <2>3, GeoSays
  <2>4. CASE WeatherIInv /\ WeatherNext
    BY <2>4, WeatherSays
  <2> QED
    BY <2>1, <2>2, <2>3, <2>4, WhoseStep
<1> QED
  BY <1>1, CachesInvariance, PTL DEF Spec, PromisedForecastComes

=============================================================================
