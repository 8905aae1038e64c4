--------------------------- MODULE StorageProofs ---------------------------
(***************************************************************************)
(* Theorems about Storage for any number of keys, requests and instances,  *)
(* any batch size and any number of faults.                                *)
(***************************************************************************)
EXTENDS Storage, TLAPS

(* The rows a behaviour starts with. *)
LEMMA SeedRows ==
  ASSUME NEW k \in Keys, NEW x \in Seed(k)
  PROVE  x \in AssetRow \cup {NoAsset} /\ x.id \in {k, Null} /\ (x # NoAsset => x.id = k) /\ x.gone # "day"
<1>1. CASE x = NoAsset
  BY <1>1 DEF NoAsset
<1>2. CASE x = [id |-> k, status |-> "PENDING", old |-> FALSE, gone |-> "no"]
  BY <1>2 DEF AssetRow, AssetIds
<1>3. CASE x = [id |-> k, status |-> "DELETED", old |-> TRUE, gone |-> "recent"]
  BY <1>3 DEF AssetRow, AssetIds
<1>4. CASE x \in [id : {k}, status : {"CONFIRMED"}, old : BOOLEAN, gone : {"no"}]
  BY <1>4 DEF AssetRow, AssetIds
<1> QED
  BY <1>1, <1>2, <1>3, <1>4 DEF Seed

(* Rows, frames and jobs start well typed, nothing listed or locked.       *)
LEMMA StInitInv == StInit => StInv
<1> SUFFICES ASSUME StInit PROVE StInv
  OBVIOUS
<1>1. \A k \in Keys : /\ assets[k] \in AssetRow \cup {NoAsset} /\ assets[k].id \in {k, Null}
                      /\ assets[k] # NoAsset => assets[k].id = k
                      /\ assets[k].gone # "day"
  BY SeedRows DEF StInit
<1>2. StTypeOK
  <2>1. assets \in [Keys -> AssetRow \cup {NoAsset}]
    BY <1>1 DEF StInit
  <2>2. grant \in [Reqs -> Grants] /\ sreq \in [Reqs -> StFrame] /\ lock \in [Kinds -> Jobs \cup {Null}]
    BY DEF StInit, Grants, StFrame, StBlank
  <2>3. job \in [Jobs -> JobRun]
    BY DEF StInit, Idle, JobRun
  <2> QED
    BY <2>1, <2>2, <2>3, StorageAssumption DEF StInit, StTypeOK
<1>3. \A j \in Jobs : ~Running(j) /\ Listing(j) = {}
  BY DEF StInit, Running, Listing, Idle
<1>4. \A k \in Keys : assets[k].id \notin Reqs
  BY <1>1, StorageAssumption
<1>5. FramesKeyed
  BY DEF StInit, FramesKeyed, WellKeyed, StBlank
<1>6. RowIdentity
  BY <1>1, StorageAssumption DEF RowIdentity
<1>7. GoneIsOld
  BY <1>1 DEF GoneIsOld
<1> QED
  BY <1>2, <1>3, <1>4, <1>5, <1>6, <1>7 DEF StInv, HolderSetTheKey, ListsAreOld, IdsAreInserted, Inserting

-----------------------------------------------------------------------------
(* A step that leaves the jobs alone keeps the invariant if every row it   *)
(* writes stays the same row and no younger, or goes, or is inserted under *)
(* the id of a request that makes its insert in this step.                 *)
RowKept(k) == assets'[k].id = assets[k].id /\ (assets[k].old => assets'[k].old)

Inserts(k) == Inserting(assets'[k].id) /\ sreq'[assets'[k].id].pc = "done"

LEMMA RequestStep ==
  ASSUME StInv, UNCHANGED jobVars,
         stored' \subseteq Keys, shown' \subseteq PictureKeys, grant' \in [Reqs -> Grants],
         assets' \in [Keys -> AssetRow \cup {NoAsset}],
         sreq' \in [Reqs -> StFrame], FramesKeyed',
         \A q \in Reqs : sreq[q].pc = "done" => sreq'[q].pc = "done",
         NEW c \in Keys,
         \A k \in Keys \ {c} : RowKept(k) \/ assets'[k] = NoAsset,
         RowKept(c) \/ assets'[c] = NoAsset \/ Inserts(c),
         GoneIsOld'
  PROVE  StInv'
<1>0. Null \notin AssetIds /\ NoAsset.id = Null /\ NoAsset.old = FALSE
  BY StorageAssumption DEF AssetIds, NoAsset
<1>1. StTypeOK'
  BY DEF StInv, StTypeOK, jobVars
<1>2. HolderSetTheKey'
  BY DEF StInv, HolderSetTheKey, Running, LockOf, jobVars
<1>3. \A j \in Jobs : Listing(j)' = Listing(j) /\ Listing(j) \subseteq AssetIds \X Keys
  BY DEF StInv, StTypeOK, JobRun, Listing, jobVars
<1>4. \A id : Inserting(id)' => Inserting(id)
  BY DEF Inserting
<1>5. ListsAreOld'
  <2> SUFFICES ASSUME NEW j \in Jobs, NEW a \in Listing(j), NEW k \in Keys, assets'[k].id = a[1]
               PROVE  assets'[k].old
    BY <1>3 DEF ListsAreOld
  <2>1. a[1] \in AssetIds /\ ~Inserting(a[1])
    BY <1>3 DEF StInv, IdsAreInserted
  <2>2. RowKept(k)
    BY <2>1, <1>0 DEF Inserts
  <2> QED
    BY <2>2 DEF StInv, ListsAreOld, RowKept
<1>6. IdsAreInserted'
  <2>1. \A j \in Jobs : \A a \in Listing(j)' : ~Inserting(a[1])'
    BY <1>3, <1>4 DEF StInv, IdsAreInserted
  <2>2. ASSUME NEW k \in Keys PROVE ~Inserting(assets[k].id)'
    <3>1. CASE RowKept(k)
      BY <3>1 DEF RowKept, StInv, IdsAreInserted, Inserting
    <3>2. CASE assets'[k] = NoAsset
      BY <3>2, <1>0 DEF Inserting, AssetIds
    <3>3. CASE Inserts(k)
      BY <3>3 DEF Inserts, Inserting
    <3> QED
      BY <3>1, <3>2, <3>3
  <2> QED
    BY <2>1, <2>2 DEF IdsAreInserted
<1>7. RowIdentity'
  <2> SUFFICES ASSUME NEW k \in Keys, NEW l \in Keys, assets'[k] # NoAsset,
                      assets'[k].id = assets'[l].id
               PROVE  k = l
    BY DEF RowIdentity
  <2>1. assets'[k] \in AssetRow /\ assets'[k].id \in AssetIds /\ assets'[l] # NoAsset
    BY <1>0 DEF AssetRow
  <2>2. CASE RowKept(k) /\ RowKept(l)
    <3>1. assets[k] # NoAsset
      BY <2>1, <2>2, <1>0 DEF RowKept
    <3> QED
      BY <2>2, <3>1 DEF RowKept, StInv, RowIdentity
  <2>3. CASE Inserts(c) /\ (k = c \/ l = c)
    <3>1. ASSUME NEW n \in Keys \ {c}, assets'[n].id = assets'[c].id, assets'[n] # NoAsset PROVE FALSE
      <4>1. RowKept(n)
        BY <3>1
      <4> QED
        BY <4>1, <3>1, <2>3 DEF RowKept, Inserts, StInv, IdsAreInserted
    <3> QED
      BY <3>1, <2>1, <2>3
  <2> QED
    BY <2>1, <2>2, <2>3
<1> QED
  BY <1>1, <1>2, <1>5, <1>6, <1>7 DEF StInv

-----------------------------------------------------------------------------
(* Frames. *)
Framed == /\ sreq' \in [Reqs -> StFrame] /\ FramesKeyed'
          /\ \A q \in Reqs : sreq[q].pc = "done" => sreq'[q].pc = "done"

InHandler == {"start", "create", "head", "find", "update", "send", "remove"}

(* A request that is not done may get any well-keyed frame. *)
LEMMA FrameMoves ==
  ASSUME StInv, NEW r \in Reqs, sreq[r].pc # "done", NEW g \in StFrame, WellKeyed(g),
         sreq' = [sreq EXCEPT ![r] = g]
  PROVE  Framed
<1>1. sreq' \in [Reqs -> StFrame]
  BY DEF StInv, StTypeOK
<1>2. \A q \in Reqs : sreq'[q] = IF q = r THEN g ELSE sreq[q]
  BY DEF StInv, StTypeOK
<1>3. FramesKeyed'
  BY <1>2 DEF StInv, FramesKeyed, WellKeyed
<1> QED
  BY <1>1, <1>2, <1>3 DEF Framed

(* Going on and ending are such moves. *)
LEMMA HandlerMoves ==
  ASSUME StInv, NEW r \in Reqs, StInFlight(r),
         \/ StFinish(r)
         \/ \E pc \in InHandler : StGoto(r, pc)
         \/ sreq[r].key \in PictureKeys /\ StGoto(r, "profile")
  PROVE  Framed /\ sreq[r].key \in Keys
<1>1. sreq[r] \in StFrame /\ sreq[r].pc \notin {"new", "done"} /\ sreq[r].key \in Keys
  BY DEF StInv, StTypeOK, StInFlight, FramesKeyed, WellKeyed
<1>2. CASE StFinish(r)
  <2>1. StDone \in StFrame /\ WellKeyed(StDone)
    BY DEF StDone, StBlank, StFrame, WellKeyed
  <2> QED
    BY <1>1, <1>2, <2>1, FrameMoves DEF StFinish
<1>3. ASSUME NEW pc \in InHandler \cup {"profile"}, StGoto(r, pc),
             pc = "profile" => sreq[r].key \in PictureKeys
      PROVE  Framed
  <2> DEFINE g == [sreq[r] EXCEPT !.pc = pc]
  <2>1. g \in StFrame /\ g.pc = pc /\ g.key = sreq[r].key
    BY <1>1 DEF StFrame, InHandler
  <2>2. WellKeyed(g)
    BY <2>1, <1>1, <1>3 DEF WellKeyed
  <2>3. sreq' = [sreq EXCEPT ![r] = g]
    BY <1>3 DEF StGoto
  <2> HIDE DEF g
  <2> QED
    BY <1>1, <2>1, <2>2, <2>3, FrameMoves
<1> QED
  BY <1>1, <1>2, <1>3 DEF InHandler

(* A step that writes no row. *)
LEMMA QuietStep ==
  ASSUME StInv, Framed, UNCHANGED <<assets, jobVars>>, NEW k \in Keys,
         stored' \subseteq Keys, shown' \subseteq PictureKeys, grant' \in [Reqs -> Grants]
  PROVE  StInv'
<1>1. assets' \in [Keys -> AssetRow \cup {NoAsset}] /\ \A l \in Keys : RowKept(l)
  BY DEF RowKept, StInv, StTypeOK
<1>2. GoneIsOld'
  BY DEF StInv, GoneIsOld
<1> QED
  BY <1>1, <1>2, RequestStep DEF Framed

-----------------------------------------------------------------------------
(* Requests. *)
LEMMA CallInv == ASSUME StInv, NEW r \in Reqs, StCall(r) PROVE StInv'
<1>1. ASSUME NEW k \in Keys, NEW f \in StFrame, f.key = k, f.pc # "profile", StIssue(r, f)
      PROVE  StInv'
  <2>1. Framed
    BY <1>1, FrameMoves DEF StIssue, WellKeyed
  <2> QED
    BY <2>1, <1>1, QuietStep DEF StIssue, StInv, StTypeOK
<1>2. PICK k \in Keys :
    \/ StIssue(r, [StBlank EXCEPT !.pc = "create", !.op = "uploadUrl", !.key = k])
    \/ StIssue(r, [StBlank EXCEPT !.pc = "start", !.op = "initiate", !.key = k])
    \/ StIssue(r, [StBlank EXCEPT !.pc = "head", !.op = "confirm", !.key = k])
    \/ /\ assets[k] # NoAsset
       /\ StIssue(r, [StBlank EXCEPT !.pc = "find", !.op = "delete", !.key = k,
                                     !.row = assets[k].id])
    \/ \E q \in Reqs, op \in {"complete", "abort"} :
         StIssue(r, [StBlank EXCEPT !.pc = "send", !.op = op, !.key = k, !.upload = q])
  BY Zenon DEF StCall
<1>3. assets[k] # NoAsset => assets[k].id \in AssetIds
  BY DEF StInv, StTypeOK, AssetRow
<1>4. /\ [StBlank EXCEPT !.pc = "create", !.op = "uploadUrl", !.key = k] \in StFrame
      /\ [StBlank EXCEPT !.pc = "start", !.op = "initiate", !.key = k] \in StFrame
      /\ [StBlank EXCEPT !.pc = "head", !.op = "confirm", !.key = k] \in StFrame
      /\ assets[k] # NoAsset =>
           [StBlank EXCEPT !.pc = "find", !.op = "delete", !.key = k, !.row = assets[k].id] \in StFrame
      /\ \A q \in Reqs, op \in {"complete", "abort"} :
           [StBlank EXCEPT !.pc = "send", !.op = op, !.key = k, !.upload = q] \in StFrame
  BY <1>3 DEF StBlank, StFrame, StOps
<1> QED
  <2>1. CASE StIssue(r, [StBlank EXCEPT !.pc = "create", !.op = "uploadUrl", !.key = k])
    BY <2>1, <1>1, <1>4 DEF StBlank
  <2>2. CASE StIssue(r, [StBlank EXCEPT !.pc = "start", !.op = "initiate", !.key = k])
    BY <2>2, <1>1, <1>4 DEF StBlank
  <2>3. CASE StIssue(r, [StBlank EXCEPT !.pc = "head", !.op = "confirm", !.key = k])
    BY <2>3, <1>1, <1>4 DEF StBlank
  <2>4. CASE /\ assets[k] # NoAsset
             /\ StIssue(r, [StBlank EXCEPT !.pc = "find", !.op = "delete", !.key = k,
                                           !.row = assets[k].id])
    BY <2>4, <1>1, <1>4 DEF StBlank
  <2>5. ASSUME NEW q \in Reqs, NEW op \in {"complete", "abort"},
               StIssue(r, [StBlank EXCEPT !.pc = "send", !.op = op, !.key = k, !.upload = q])
        PROVE  StInv'
    BY <2>5, <1>1, <1>4 DEF StBlank
  <2> QED
    BY <1>2, <2>1, <2>2, <2>3, <2>4, <2>5

(* The handlers' reads, and the steps that only touch R2, a grant or a     *)
(* profile.                                                                *)
LEMMA QuietHandlers ==
  ASSUME StInv, NEW r \in Reqs,
         \/ InitiateStart(r) \/ CompleteSend(r) \/ AbortSend(r)
         \/ ConfirmHead(r) \/ ConfirmFind(r) \/ ConfirmProfile(r) \/ DeleteFind(r) \/ StAbort(r)
  PROVE  StInv'
<1>1. StInFlight(r)
  BY DEF InitiateStart, CompleteSend, AbortSend, ConfirmHead, ConfirmFind, ConfirmProfile,
         DeleteFind, StAbort, StAt, StInFlight
<1>2. /\ UNCHANGED <<assets, jobVars>>
      /\ \/ StFinish(r)
         \/ \E pc \in InHandler : StGoto(r, pc)
         \/ sreq[r].key \in PictureKeys /\ StGoto(r, "profile")
  BY DEF InitiateStart, CompleteSend, AbortSend, ConfirmHead, ConfirmFind, ConfirmProfile,
         DeleteFind, StAbort, AfterConfirm, InHandler
<1>3. Framed /\ sreq[r].key \in Keys
  BY <1>1, <1>2, HandlerMoves
<1>4. stored' \subseteq Keys
  BY <1>3 DEF InitiateStart, CompleteSend, AbortSend, ConfirmHead, ConfirmFind, ConfirmProfile,
         DeleteFind, StAbort, StInv, StTypeOK
<1>5. shown' \subseteq PictureKeys
  <2>1. CASE ConfirmProfile(r)
    BY <2>1 DEF ConfirmProfile, StAt, StInv, StTypeOK, FramesKeyed, WellKeyed
  <2> QED
    BY <2>1 DEF InitiateStart, CompleteSend, AbortSend, ConfirmHead, ConfirmFind,
         DeleteFind, StAbort, StInv, StTypeOK
<1>6. grant' \in [Reqs -> Grants]
  <2>0. grant \in [Reqs -> Grants]
    BY DEF StInv, StTypeOK
  <2>1. ASSUME NEW q \in Reqs \cup {Null}, grant[q].kind = "multi",
               grant' = [grant EXCEPT ![q].kind = "closed"]
        PROVE  grant' \in [Reqs -> Grants]
    <3>1. CASE q \in Reqs
      <4>1. [grant[q] EXCEPT !.kind = "closed"] \in Grants
        BY <2>0, <2>1, <3>1 DEF Grants, NoGrant
      <4> QED
        BY <2>0, <2>1, <3>1, <4>1
    <3>2. CASE q \notin Reqs
      BY <2>0, <2>1, <3>2
    <3> QED
      BY <3>1, <3>2
  <2>2. sreq[r].upload \in Reqs \cup {Null}
    BY DEF StInv, StTypeOK, StFrame
  <2>3. CASE CompleteSend(r) \/ AbortSend(r)
    BY <2>0, <2>1, <2>2, <2>3 DEF CompleteSend, AbortSend
  <2> QED
    BY <2>0, <2>3 DEF InitiateStart, CompleteSend, AbortSend, ConfirmHead, ConfirmFind, ConfirmProfile,
         DeleteFind, StAbort, StInv, StTypeOK
<1> QED
  BY <1>2, <1>3, <1>4, <1>5, <1>6, QuietStep

(* An abort notes the id of the row it will remove.                        *)
LEMMA AbortFindInv == ASSUME StInv, NEW r \in Reqs, AbortFind(r) PROVE StInv'
<1> DEFINE k == sreq[r].key
           g == [sreq[r] EXCEPT !.pc = "remove", !.row = assets[k].id]
<1>1. StInFlight(r) /\ sreq[r] \in StFrame /\ k \in Keys /\ sreq[r].pc # "done"
  BY DEF AbortFind, StAt, StInFlight, StInv, StTypeOK, FramesKeyed, WellKeyed
<1>2. Framed
  <2>1. CASE assets[k] # NoAsset /\ sreq' = [sreq EXCEPT ![r] = g]
    <3>1. g \in StFrame /\ g.key = k /\ g.pc = "remove"
      BY <2>1, <1>1 DEF StFrame, StInv, StTypeOK, AssetRow
    <3>2. WellKeyed(g)
      BY <3>1, <1>1 DEF WellKeyed
    <3> HIDE DEF g
    <3> QED
      BY <1>1, <2>1, <3>1, <3>2, FrameMoves
  <2>2. CASE StFinish(r)
    BY <2>2, <1>1, HandlerMoves
  <2>3. (assets[k] # NoAsset /\ sreq' = [sreq EXCEPT ![r] = g]) \/ StFinish(r)
    BY DEF AbortFind
  <2> QED
    BY <2>1, <2>2, <2>3
<1> QED
  BY <1>1, <1>2, QuietStep DEF AbortFind, StInv, StTypeOK

(* What clients do with R2. *)
LEMMA ClientInv == ASSUME StInv, NEW r \in Reqs, ClientPut(r) \/ GrantExpires(r) PROVE StInv'
<1>1. grant[r] # NoGrant /\ grant[r] \in Grants /\ grant[r].key \in Keys
  BY DEF ClientPut, GrantExpires, StInv, StTypeOK, Grants, NoGrant
<1>2. Framed
  BY DEF ClientPut, GrantExpires, Framed, StInv, StTypeOK, FramesKeyed
<1>3. grant' \in [Reqs -> Grants]
  <2>1. [grant[r] EXCEPT !.kind = "closed"] \in Grants
    BY <1>1 DEF Grants, NoGrant
  <2> QED
    BY <2>1 DEF ClientPut, GrantExpires, StInv, StTypeOK
<1>4. stored' \subseteq Keys /\ shown' \subseteq PictureKeys /\ UNCHANGED <<assets, jobVars>>
  BY <1>1 DEF ClientPut, GrantExpires, StInv, StTypeOK
<1> QED
  BY <1>1, <1>2, <1>3, <1>4, QuietStep

-----------------------------------------------------------------------------
(* Steps that write rows. *)

(* createPending, with the URL handed out: a new row has the id of a       *)
(* request that was about to insert it.                                    *)
LEMMA HandOutInv == ASSUME StInv, NEW r \in Reqs, HandOut(r) PROVE StInv'
<1> DEFINE k == sreq[r].key
<1>1. StInFlight(r) /\ StFinish(r) /\ k \in Keys
  BY DEF HandOut, StInFlight, StInv, FramesKeyed, WellKeyed
<1>2. Framed
  BY <1>1, HandlerMoves
<1>3. /\ stored' \subseteq Keys /\ shown' \subseteq PictureKeys /\ UNCHANGED jobVars
      /\ grant' \in [Reqs -> Grants]
  <2>1. \A kind \in {"put", "multi"} : [key |-> k, kind |-> kind] \in Grants
    BY <1>1 DEF Grants
  <2> QED
    BY <2>1 DEF HandOut, StInv, StTypeOK
<1>4. /\ assets' \in [Keys -> AssetRow \cup {NoAsset}]
      /\ \A l \in Keys \ {k} : RowKept(l)
      /\ RowKept(k) \/ Inserts(k)
      /\ GoneIsOld'
  <2>1. assets \in [Keys -> AssetRow \cup {NoAsset}] /\ r \in AssetIds /\ GoneIsOld
    BY DEF StInv, StTypeOK, AssetIds
  <2>2. CASE UNCHANGED assets
    BY <2>1, <2>2 DEF RowKept, GoneIsOld
  <2>3. CASE assets[k] = NoAsset /\ CreatePending(r, k)
    <3> DEFINE new == [id |-> r, status |-> "PENDING", old |-> FALSE, gone |-> "no"]
    <3>1. new \in AssetRow /\ new.id = r /\ new.gone = "no"
      BY <2>1 DEF AssetRow
    <3>2. assets' = [assets EXCEPT ![k] = new]
      BY <2>3 DEF CreatePending
    <3>3. Inserting(r) /\ sreq'[r].pc = "done"
      BY <1>1 DEF Inserting, StInFlight, StFinish, StDone, StBlank, StInv, StTypeOK
    <3> HIDE DEF new
    <3> QED
      BY <1>1, <2>1, <3>1, <3>2, <3>3 DEF RowKept, Inserts, GoneIsOld
  <2>4. CASE assets[k] # NoAsset /\ CreatePending(r, k)
    <3> DEFINE new == [assets[k] EXCEPT !.status = "PENDING", !.gone = "no"]
    <3>1. new \in AssetRow /\ new.id = assets[k].id /\ new.old = assets[k].old /\ new.gone = "no"
      BY <1>1, <2>1, <2>4 DEF AssetRow
    <3>2. assets' = [assets EXCEPT ![k] = new]
      BY <2>4 DEF CreatePending
    <3> HIDE DEF new
    <3> QED
      BY <1>1, <2>1, <3>1, <3>2 DEF RowKept, GoneIsOld
  <2> QED
    BY <2>2, <2>3, <2>4 DEF HandOut
<1> QED
  BY <1>1, <1>2, <1>3, <1>4, RequestStep DEF Framed

(* Updates of a row that is there keep its id and never make it younger;   *)
(* hard deletes leave none.                                                *)
LEMMA RowWriteInv ==
  ASSUME StInv, NEW r \in Reqs, ConfirmUpdate(r) \/ DeleteUpdate(r) \/ AbortRemove(r)
  PROVE  StInv'
<1> DEFINE k == sreq[r].key
<1>1. StInFlight(r) /\ k \in Keys
  BY DEF ConfirmUpdate, DeleteUpdate, AbortRemove, StAt, StInFlight, StInv, FramesKeyed, WellKeyed
<1>2. Framed
  BY <1>1, HandlerMoves DEF ConfirmUpdate, AfterConfirm, DeleteUpdate, AbortRemove
<1>3. assets \in [Keys -> AssetRow \cup {NoAsset}] /\ NoAsset.id = Null /\ NoAsset.gone = "no" /\ GoneIsOld
  BY DEF StInv, StTypeOK, NoAsset
<1>4. /\ assets' \in [Keys -> AssetRow \cup {NoAsset}]
      /\ \A l \in Keys : RowKept(l) \/ assets'[l] = NoAsset
      /\ GoneIsOld'
  <2>1. CASE UNCHANGED assets
    BY <2>1, <1>3 DEF RowKept, GoneIsOld
  <2>2. CASE assets[k] # NoAsset /\ assets' = [assets EXCEPT ![k].status = "CONFIRMED"]
    <3>1. assets[k] \in AssetRow
      BY <1>1, <1>3, <2>2
    <3> QED
      BY <1>1, <1>3, <2>2, <3>1 DEF AssetRow, RowKept, GoneIsOld
  <2>3. CASE DeleteUpdate(r)
    <3>1. \A l \in RowsWith({sreq[r].row}) : assets[l] \in AssetRow
      BY <1>3 DEF RowsWith
    <3> QED
      BY <2>3, <3>1, <1>3 DEF DeleteUpdate, AssetRow, RowKept, GoneIsOld
  <2>4. CASE AbortRemove(r)
    BY <2>4, <1>3 DEF AbortRemove, HardDelete, RowKept, GoneIsOld
  <2> QED
    BY <2>1, <2>2, <2>3, <2>4 DEF ConfirmUpdate
<1>5. /\ stored' \subseteq Keys /\ shown' \subseteq PictureKeys /\ UNCHANGED jobVars
      /\ grant' \in [Reqs -> Grants]
  BY DEF ConfirmUpdate, DeleteUpdate, AbortRemove, StInv, StTypeOK
<1> QED
  BY <1>1, <1>2, <1>4, <1>5, RequestStep DEF Framed

(* The clock makes rows older. *)
LEMMA ClockInv == ASSUME StInv, NEW k \in Keys, AssetAges(k) \/ DayPasses(k) PROVE StInv'
<1>1. assets \in [Keys -> AssetRow \cup {NoAsset}] /\ assets[k] # NoAsset /\ GoneIsOld
  BY DEF AssetAges, DayPasses, NoAsset, StInv, StTypeOK
<1>2. assets[k] \in AssetRow
  BY <1>1
<1>3. ASSUME NEW new \in AssetRow, new.id = assets[k].id, new.old, assets' = [assets EXCEPT ![k] = new]
      PROVE  assets' \in [Keys -> AssetRow \cup {NoAsset}] /\ (\A l \in Keys : RowKept(l)) /\ GoneIsOld'
  BY <1>1, <1>3 DEF RowKept, GoneIsOld
<1>4. /\ assets' \in [Keys -> AssetRow \cup {NoAsset}]
      /\ \A l \in Keys : RowKept(l)
      /\ GoneIsOld'
  <2>1. CASE AssetAges(k)
    <3> DEFINE new == [assets[k] EXCEPT !.old = TRUE]
    <3>1. new \in AssetRow /\ new.id = assets[k].id /\ new.old
      BY <1>2 DEF AssetRow
    <3>2. assets' = [assets EXCEPT ![k] = new]
      BY <2>1 DEF AssetAges
    <3> HIDE DEF new
    <3> QED
      BY <1>3, <3>1, <3>2
  <2>2. CASE DayPasses(k)
    <3> DEFINE new == [assets[k] EXCEPT !.gone = "day"]
    <3>1. new \in AssetRow /\ new.id = assets[k].id /\ new.old
      BY <1>2, <2>2 DEF AssetRow, DayPasses
    <3>2. assets' = [assets EXCEPT ![k] = new]
      BY <2>2 DEF DayPasses
    <3> HIDE DEF new
    <3> QED
      BY <1>3, <3>1, <3>2
  <2> QED
    BY <2>1, <2>2
<1>5. /\ stored' \subseteq Keys /\ shown' \subseteq PictureKeys /\ UNCHANGED jobVars
      /\ grant' \in [Reqs -> Grants] /\ Framed
  BY DEF AssetAges, DayPasses, StInv, StTypeOK, Framed, FramesKeyed
<1> QED
  BY <1>4, <1>5, RequestStep DEF Framed

-----------------------------------------------------------------------------
(* Jobs. *)

(* A run may list rows that are there and old, and take rows away.         *)
LEMMA JobMoves ==
  ASSUME StInv, UNCHANGED <<shown, grant, sreq>>, stored' \subseteq stored,
         faults' \in 0..MaxFaults,
         NEW j \in Jobs, NEW g \in JobRun, job' = [job EXCEPT ![j] = g],
         \A a \in g.todo \cup g.ready :
           a \in Listing(j) \/ \E k \in Keys : a[1] = assets[k].id /\ assets[k].old,
         assets' \in [Keys -> AssetRow \cup {NoAsset}],
         \A k \in Keys : assets'[k] = assets[k] \/ assets'[k] = NoAsset,
         lock' \in [Kinds -> Jobs \cup {Null}], HolderSetTheKey'
  PROVE  StInv'
<1>0. Null \notin AssetIds /\ NoAsset.id = Null /\ NoAsset.old = FALSE /\ NoAsset.gone = "no"
  BY StorageAssumption DEF AssetIds, NoAsset
<1>1. StTypeOK'
  BY DEF StInv, StTypeOK
<1>2. FramesKeyed'
  BY DEF StInv, FramesKeyed
<1>3. \A i \in Jobs : \A a \in Listing(i)' :
        a \in Listing(i) \/ \E k \in Keys : a[1] = assets[k].id /\ assets[k].old
  BY DEF Listing, StInv, StTypeOK
<1>4. \A id : Inserting(id)' <=> Inserting(id)
  BY DEF Inserting
<1>5. \A k \in Keys : assets[k].old => assets[k] # NoAsset /\ assets[k].id \in AssetIds
  BY <1>0 DEF StInv, StTypeOK, AssetRow
<1>6. \A i \in Jobs : \A a \in Listing(i) : a[1] \in AssetIds
  BY DEF StInv, StTypeOK, JobRun, Listing
<1>7. ListsAreOld'
  <2> SUFFICES ASSUME NEW i \in Jobs, NEW a \in Listing(i)', NEW k \in Keys, assets'[k].id = a[1]
               PROVE  assets'[k].old
    BY DEF ListsAreOld
  <2>1. a[1] \in AssetIds
    BY <1>3, <1>5, <1>6
  <2>2. assets'[k] = assets[k]
    BY <2>1, <1>0
  <2>3. CASE a \in Listing(i)
    BY <2>2, <2>3 DEF StInv, ListsAreOld
  <2>4. ASSUME NEW l \in Keys, a[1] = assets[l].id, assets[l].old PROVE assets[k].old
    BY <2>4, <2>2, <1>5 DEF StInv, RowIdentity
  <2> QED
    BY <1>3, <2>2, <2>3, <2>4
<1>8. IdsAreInserted'
  <2>1. ASSUME NEW i \in Jobs, NEW a \in Listing(i)' PROVE ~Inserting(a[1])
    BY <1>3 DEF StInv, IdsAreInserted
  <2>2. ASSUME NEW k \in Keys PROVE ~Inserting(assets'[k].id)
    BY <1>0 DEF StInv, IdsAreInserted, Inserting, AssetIds
  <2> QED
    BY <1>4, <2>1, <2>2 DEF IdsAreInserted, Inserting
<1>9. RowIdentity'
  <2> SUFFICES ASSUME NEW k \in Keys, NEW l \in Keys, assets'[k] # NoAsset,
                      assets'[k].id = assets'[l].id
               PROVE  k = l
    BY DEF RowIdentity
  <2>1. assets'[k].id \in AssetIds
    BY DEF AssetRow
  <2> QED
    BY <2>1, <1>0 DEF StInv, RowIdentity
<1>10. GoneIsOld'
  BY <1>0 DEF StInv, GoneIsOld
<1> QED
  BY <1>1, <1>2, <1>7, <1>8, <1>9, <1>10 DEF StInv

(* A run goes on, ends or crashes, with the key left as it is.             *)
LEMMA KeyStays ==
  ASSUME StInv, NEW j \in Jobs, NEW g \in JobRun, job' = [job EXCEPT ![j] = g],
         g.pc # "idle" => Running(j), UNCHANGED lock
  PROVE  HolderSetTheKey'
<1>1. \A i \in Jobs : Running(i)' => Running(i)
  BY DEF Running, StInv, StTypeOK
<1> QED
  BY <1>1 DEF StInv, HolderSetTheKey, LockOf

(* The key is deleted when no other run can hold it.                       *)
LEMMA KeyGoes ==
  ASSUME StInv, NEW kind \in Kinds, lock' = [lock EXCEPT ![kind] = Null],
         \A i \in Jobs : Running(i)' => Running(i) /\ (Timely => lock[kind] # i),
         NEW j \in Jobs, NEW g \in JobRun, job' = [job EXCEPT ![j] = g]
  PROVE  HolderSetTheKey'
<1> SUFFICES ASSUME Timely, NEW i \in Jobs, Running(i)' PROVE lock'[i[2]] = i
  BY DEF HolderSetTheKey, LockOf
<1>1. Running(i) /\ lock[i[2]] = i /\ lock[kind] # i
  BY DEF StInv, HolderSetTheKey, LockOf
<1> QED
  BY <1>1 DEF StInv, StTypeOK

(* A run that sets the key starts with the lists of an idle job.           *)
LEMMA AcquireInv == ASSUME StInv, NEW j \in Jobs, Acquire(j) PROVE StInv'
<1>1. job[j] \in JobRun /\ j[2] \in Kinds /\ ~Running(j) /\ UNCHANGED assetVars
  BY DEF StInv, StTypeOK, Jobs, Acquire
<1>2. PICK g \in JobRun : job' = [job EXCEPT ![j] = g] /\ g.todo = job[j].todo /\ g.ready = job[j].ready
  <2>1. CASE UNCHANGED job
    BY <2>1, <1>1 DEF StInv, StTypeOK
  <2>2. CASE JobGoto(j, "find")
    <3> DEFINE g == [job[j] EXCEPT !.pc = "find"]
    <3>1. g \in JobRun /\ g.todo = job[j].todo /\ g.ready = job[j].ready
      BY <1>1 DEF JobRun
    <3>2. job' = [job EXCEPT ![j] = g]
      BY <2>2 DEF JobGoto
    <3> HIDE DEF g
    <3> QED
      BY <3>1, <3>2
  <2> QED
    BY <2>1, <2>2 DEF Acquire
<1>3. HolderSetTheKey'
  <2> SUFFICES ASSUME Timely, NEW i \in Jobs, Running(i)' PROVE lock'[i[2]] = i
    BY DEF HolderSetTheKey, LockOf
  <2>1. lock[j[2]] = Null /\ lock' = [lock EXCEPT ![j[2]] = j] /\ i[2] \in Kinds
    BY DEF Acquire, LockOf, Jobs
  <2>2. CASE i = j
    BY <2>1, <2>2, <1>1 DEF StInv, StTypeOK
  <2>3. CASE i # j
    <3>1. Running(i)
      BY <2>3, <1>2 DEF Running, StInv, StTypeOK
    <3>2. lock[i[2]] = i /\ i[2] # j[2]
      BY <3>1, <2>1, JobAssumption DEF StInv, HolderSetTheKey, LockOf
    <3> QED
      BY <3>2, <2>1 DEF StInv, StTypeOK
  <2> QED
    BY <2>2, <2>3
<1>4. /\ lock' \in [Kinds -> Jobs \cup {Null}] /\ faults' \in 0..MaxFaults
  <2>1. lock' \in [Kinds -> Jobs \cup {Null}]
    BY DEF Acquire, StInv, StTypeOK
  <2>2. faults \in 0..MaxFaults /\ (faults' = faults \/ Fault)
    BY DEF Acquire, StInv, StTypeOK
  <2> QED
    BY <2>1, <2>2, StorageAssumption DEF Fault
<1>5. \A a \in g.todo \cup g.ready : a \in Listing(j)
  BY <1>2 DEF Listing
<1> QED
  BY <1>1, <1>2, <1>3, <1>4, <1>5, JobMoves DEF assetVars, StInv, StTypeOK

(* A run goes on with rows it had listed or lists now, and may take some.  *)
LEMMA RunInv ==
  ASSUME StInv, NEW j \in Jobs, NEW g \in JobRun, job' = [job EXCEPT ![j] = g],
         g.pc # "idle" => Running(j),
         \A a \in g.todo \cup g.ready :
           a \in Listing(j) \/ \E k \in Keys : a[1] = assets[k].id /\ assets[k].old,
         UNCHANGED <<shown, grant, sreq, lock>>, stored' \subseteq stored,
         faults' = faults \/ Fault,
         assets' \in [Keys -> AssetRow \cup {NoAsset}],
         \A k \in Keys : assets'[k] = assets[k] \/ assets'[k] = NoAsset
  PROVE  StInv'
<1>1. faults' \in 0..MaxFaults /\ lock' \in [Kinds -> Jobs \cup {Null}]
  BY StorageAssumption DEF Fault, StInv, StTypeOK
<1> QED
  BY <1>1, KeyStays, JobMoves

(* A run that only moves on.                                               *)
LEMMA JobGotoInv ==
  ASSUME StInv, NEW j \in Jobs, NEW pc \in {"find", "objects", "remove", "release"},
         JobGoto(j, pc), Running(j), faults' = faults \/ Fault,
         UNCHANGED <<stored, shown, grant, sreq, lock>>,
         assets' \in [Keys -> AssetRow \cup {NoAsset}],
         \A k \in Keys : assets'[k] = assets[k] \/ assets'[k] = NoAsset
  PROVE  StInv'
<1> DEFINE g == [job[j] EXCEPT !.pc = pc]
<1>1. g \in JobRun /\ g.todo = job[j].todo /\ g.ready = job[j].ready
  BY DEF JobRun, StInv, StTypeOK
<1>2. job' = [job EXCEPT ![j] = g]
  BY DEF JobGoto
<1> HIDE DEF g
<1>3. \A a \in g.todo \cup g.ready : a \in Listing(j)
  BY <1>1 DEF Listing
<1> QED
  BY <1>1, <1>2, <1>3, RunInv

(* What the two queries find is there and a day old.                       *)
LEMMA FoundIsOld ==
  ASSUME StInv, NEW k \in Expired \cup Purgeable
  PROVE  assets[k].old /\ <<assets[k].id, k>> \in AssetIds \X Keys
<1>1. k \in Keys /\ assets[k].old
  BY DEF Expired, Purgeable, StInv, GoneIsOld
<1>2. assets[k] \in AssetRow
  BY <1>1 DEF StInv, StTypeOK, NoAsset
<1> QED
  BY <1>1, <1>2 DEF AssetRow

(* The queries at the start of a run.                                      *)
LEMMA FindInv ==
  ASSUME StInv, NEW j \in Jobs, FindExpiredPending(j) \/ FindDeletedForPurge(j)
  PROVE  StInv'
<1>1. /\ Running(j) /\ UNCHANGED <<assetVars, lock, faults>>
      /\ assets \in [Keys -> AssetRow \cup {NoAsset}]
  BY DEF FindExpiredPending, FindDeletedForPurge, ListPending, ListPurge, JobAt, Running, StInv, StTypeOK
<1>2. CASE JobGoto(j, "release")
  BY <1>1, <1>2, JobGotoInv DEF assetVars
<1>3. ASSUME NEW S, S \subseteq Expired \cup Purgeable,
             NEW g, g \in {[pc |-> "remove", todo |-> {}, ready |-> Listed(S)],
                           [pc |-> "objects", todo |-> Listed(S), ready |-> {}]},
             job' = [job EXCEPT ![j] = g]
      PROVE  StInv'
  <2>1. Listed(S) \subseteq AssetIds \X Keys
    BY <1>3, FoundIsOld DEF Listed
  <2>2. \A a \in Listed(S) : \E k \in Keys : a[1] = assets[k].id /\ assets[k].old
    BY <1>3, FoundIsOld DEF Listed, Expired, Purgeable
  <2>3. g \in JobRun /\ g.pc # "idle" /\ g.todo \cup g.ready = Listed(S)
    BY <1>3, <2>1 DEF JobRun
  <2> QED
    BY <2>2, <2>3, <1>1, <1>3, RunInv DEF assetVars
<1>4. CASE FindExpiredPending(j)
  BY <1>2, <1>3, <1>4 DEF FindExpiredPending, ListPending
<1>5. CASE FindDeletedForPurge(j)
  BY <1>2, <1>3, <1>5 DEF FindDeletedForPurge, ListPurge
<1> QED
  BY <1>4, <1>5

(* A listed row passes from one list to the other.                         *)
LEMMA DeleteObjectInv == ASSUME StInv, NEW j \in Jobs, DeleteObject(j) PROVE StInv'
<1>1. PICK a \in job[j].todo :
        /\ job' = [job EXCEPT ![j] =
             [pc |-> IF job[j].todo = {a} THEN "remove" ELSE "objects",
              todo |-> job[j].todo \ {a}, ready |-> job[j].ready \cup {a}]]
        /\ \/ stored' = stored \ {a[2]} /\ UNCHANGED faults
           \/ Fault /\ UNCHANGED stored
  BY DEF DeleteObject, StInv, StTypeOK
<1> DEFINE g == [pc |-> IF job[j].todo = {a} THEN "remove" ELSE "objects",
                 todo |-> job[j].todo \ {a}, ready |-> job[j].ready \cup {a}]
<1>2. job[j] \in JobRun
  BY DEF StInv, StTypeOK
<1>3. g \in JobRun /\ g.todo \cup g.ready \subseteq Listing(j)
  BY <1>2 DEF JobRun, Listing
<1>4. job' = [job EXCEPT ![j] = g]
  BY <1>1
<1> HIDE DEF g
<1>5. /\ Running(j) /\ UNCHANGED <<assets, shown, grant, sreq, lock>>
      /\ assets \in [Keys -> AssetRow \cup {NoAsset}]
  BY DEF DeleteObject, JobAt, Running, StInv, StTypeOK
<1> QED
  BY <1>1, <1>3, <1>4, <1>5, RunInv

(* A run hard-deletes its rows, fails, or dies.                            *)
LEMMA RunEndsInv ==
  ASSUME StInv, NEW j \in Jobs, RemoveRows(j) \/ JobFails(j) \/ Crash(j)
  PROVE  StInv'
<1>0. assets \in [Keys -> AssetRow \cup {NoAsset}]
  BY DEF StInv, StTypeOK
<1>1. CASE RemoveRows(j)
  <2>1. /\ assets' \in [Keys -> AssetRow \cup {NoAsset}]
        /\ \A k \in Keys : assets'[k] = assets[k] \/ assets'[k] = NoAsset
    BY <1>0, <1>1 DEF RemoveRows, HardDelete
  <2> QED
    BY <1>1, <2>1, JobGotoInv DEF RemoveRows, JobAt, Running
<1>2. CASE JobFails(j)
  BY <1>0, <1>2, JobGotoInv DEF JobFails, Running, assetVars
<1>3. CASE Crash(j)
  <2>1. Idle \in JobRun /\ Idle.pc = "idle" /\ Idle.todo \cup Idle.ready = {}
    BY DEF Idle, JobRun
  <2> QED
    BY <1>0, <1>3, <2>1, RunInv DEF Crash, JobEnd, assetVars
<1> QED
  BY <1>1, <1>2, <1>3

(* A run that deletes its own key leaves no other run without one.         *)
LEMMA ReleaseInv == ASSUME StInv, NEW j \in Jobs, Release(j) PROVE StInv'
<1>1. Idle \in JobRun /\ Idle.pc = "idle" /\ Idle.todo \cup Idle.ready = {}
  BY DEF Idle, JobRun
<1>2. /\ job' = [job EXCEPT ![j] = Idle] /\ Running(j) /\ j[2] \in Kinds /\ UNCHANGED assetVars
      /\ assets \in [Keys -> AssetRow \cup {NoAsset}]
  BY DEF Release, JobEnd, JobAt, Running, Jobs, StInv, StTypeOK
<1>3. CASE UNCHANGED lock
  BY <1>1, <1>2, <1>3, RunInv DEF Release, assetVars
<1>4. CASE lock' = [lock EXCEPT ![j[2]] = Null] /\ UNCHANGED faults
  <2>1. \A i \in Jobs : Running(i)' => Running(i) /\ i # j
    BY <1>1, <1>2 DEF Running, StInv, StTypeOK
  <2>2. \A i \in Jobs : Running(i)' => Running(i) /\ (Timely => lock[j[2]] # i)
    BY <2>1, <1>2 DEF StInv, HolderSetTheKey, LockOf
  <2>3. HolderSetTheKey'
    BY <2>2, <1>1, <1>2, <1>4, KeyGoes
  <2>4. lock' \in [Kinds -> Jobs \cup {Null}] /\ faults' \in 0..MaxFaults
    BY <1>4 DEF StInv, StTypeOK
  <2> QED
    BY <2>3, <2>4, <1>1, <1>2, JobMoves DEF assetVars
<1> QED
  BY <1>3, <1>4 DEF Release

(* A key that expires under Timely was not that of a running job.          *)
LEMMA LockExpiresInv == ASSUME StInv, NEW kind \in Kinds, LockExpires(kind) PROVE StInv'
<1>1. lock[kind] \in Jobs /\ job' = [job EXCEPT ![lock[kind]] = job[lock[kind]]]
  BY DEF LockExpires, StInv, StTypeOK
<1>2. job[lock[kind]] \in JobRun /\ assets \in [Keys -> AssetRow \cup {NoAsset}]
  BY <1>1 DEF StInv, StTypeOK
<1>3. \A i \in Jobs : Running(i)' => Running(i) /\ (Timely => lock[kind] # i)
  BY DEF LockExpires, Running
<1>4. HolderSetTheKey'
  BY <1>1, <1>2, <1>3, KeyGoes DEF LockExpires
<1>5. lock' \in [Kinds -> Jobs \cup {Null}] /\ faults' \in 0..MaxFaults
  BY DEF LockExpires, StInv, StTypeOK
<1> QED
  BY <1>1, <1>2, <1>4, <1>5, JobMoves DEF LockExpires, assetVars, Listing

-----------------------------------------------------------------------------
(* The invariant is inductive. *)
LEMMA StNextInv == StInv /\ [StNext]_stVars => StInv'
<1> SUFFICES ASSUME StInv, [StNext]_stVars PROVE StInv'
  OBVIOUS
<1>1. ASSUME NEW r \in Reqs, StCall(r) \/ StHandler(r) \/ StAbort(r) \/ ClientPut(r) \/ GrantExpires(r)
      PROVE  StInv'
  BY <1>1, CallInv, QuietHandlers, AbortFindInv, HandOutInv, RowWriteInv, ClientInv DEF StHandler
<1>2. ASSUME NEW k \in Keys, AssetAges(k) \/ DayPasses(k) PROVE StInv'
  BY <1>2, ClockInv
<1>3. ASSUME NEW j \in Jobs, Acquire(j) \/ JobStep(j) \/ JobFails(j) \/ Crash(j) PROVE StInv'
  BY <1>3, AcquireInv, FindInv, DeleteObjectInv, RunEndsInv, ReleaseInv DEF JobStep
<1>4. ASSUME NEW kind \in Kinds, LockExpires(kind) PROVE StInv'
  BY <1>4, LockExpiresInv
<1>5. CASE UNCHANGED stVars
  <2>1. UNCHANGED <<assets, stored, shown, grant, sreq, job, lock, faults>>
    BY <1>5 DEF stVars, assetVars, jobVars
  <2> QED
    BY <2>1 DEF StInv, StTypeOK, FramesKeyed, HolderSetTheKey, LockOf, Running, ListsAreOld, Listing,
         IdsAreInserted, Inserting, RowIdentity, GoneIsOld
<1> QED
  BY <1>1, <1>2, <1>3, <1>4, <1>5 DEF StNext

(* Lists hold ids that are taken for good, of rows that are old while they *)
(* last; rows keep their identity; a running job holds its lock's key.     *)
THEOREM StInvariance == StSpec => []StInv
  BY StInitInv, StNextInv, PTL DEF StSpec

(* Every variable of Storage keeps its type. *)
THEOREM StTypeCorrect == StSpec => []StTypeOK
<1>1. StInv => StTypeOK
  BY DEF StInv
<1> QED
  BY <1>1, StInvariance, PTL

(* One instance at a time runs a job, with any number of instances and     *)
(* faults, as long as the TTL outlives the run: the key names its holder.  *)
THEOREM OneRunPerLock == StSpec => []OneJobPerLock
<1>1. StInv => OneJobPerLock
  BY DEF StInv, HolderSetTheKey, OneJobPerLock, LockOf
<1> QED
  BY <1>1, StInvariance, PTL

(* A row that goes was a day old, or an upload's abort removes it: whatever *)
(* happens to a key between a job's query and its delete, the ids it listed *)
(* never name a younger row.                                               *)
THEOREM OnlyOldRowsTaken == StSpec => JobsTakeOnlyOldRows
<1>1. StInv /\ [StNext]_stVars => [JobTakesOldRow]_stVars
  <2> SUFFICES ASSUME StInv, StNext, NEW k \in Keys, assets[k] # NoAsset, assets'[k] = NoAsset
               PROVE  assets[k].old \/ \E r \in Reqs : /\ StAt(r, "abort", "remove")
                                                     /\ sreq[r].row = assets[k].id
    BY DEF JobTakesOldRow
  <2>1. assets \in [Keys -> AssetRow \cup {NoAsset}]
    BY DEF StInv, StTypeOK
  <2>2. CASE \E r \in Reqs : AbortRemove(r)
    BY <2>1, <2>2 DEF AbortRemove, HardDelete, RowsWith
  <2>3. ASSUME NEW j \in Jobs, RemoveRows(j) PROVE assets[k].old
    <3>1. \E a \in job[j].ready : a[1] = assets[k].id
      BY <2>1, <2>3 DEF RemoveRows, HardDelete, RowsWith
    <3> QED
      BY <3>1 DEF StInv, ListsAreOld, Listing
  <2>4. \/ \E r \in Reqs : AbortRemove(r)
        \/ \E j \in Jobs : RemoveRows(j)
    <3>1. UNCHANGED assets => FALSE
      OBVIOUS
    <3>2. ASSUME NEW r \in Reqs, HandOut(r) \/ ConfirmUpdate(r) \/ DeleteUpdate(r) PROVE FALSE
      <4>1. CASE HandOut(r)
        <5> DEFINE new == [assets[k] EXCEPT !.status = "PENDING", !.gone = "no"]
        <5>1. assets[k] \in AssetRow
          BY <2>1
        <5>2. new # NoAsset
          BY <5>1 DEF AssetRow, NoAsset
        <5>3. assets'[k] = assets[k] \/ assets'[k] = new
          BY <2>1, <4>1 DEF HandOut, CreatePending
        <5> HIDE DEF new
        <5> QED
          BY <5>2, <5>3
      <4>2. CASE ConfirmUpdate(r)
        BY <3>1, <4>2, <2>1 DEF ConfirmUpdate, NoAsset, AssetRow
      <4>3. CASE DeleteUpdate(r)
        BY <3>1, <4>3, <2>1 DEF DeleteUpdate, NoAsset, AssetRow, RowsWith
      <4> QED
        BY <3>2, <4>1, <4>2, <4>3
    <3>3. ASSUME NEW l \in Keys, AssetAges(l) \/ DayPasses(l) PROVE FALSE
      BY <3>3, <2>1 DEF AssetAges, DayPasses, NoAsset, AssetRow
    <3>4. ASSUME NEW r \in Reqs, StCall(r) PROVE UNCHANGED assets
      BY <3>4 DEF StCall, StIssue
    <3>5. ASSUME NEW r \in Reqs, StHandler(r) \/ StAbort(r) \/ ClientPut(r) \/ GrantExpires(r)
          PROVE  AbortRemove(r)
      BY <3>1, <3>2, <3>5 DEF StHandler, InitiateStart, CompleteSend, AbortSend, AbortFind,
           ConfirmHead, ConfirmFind, ConfirmProfile, DeleteFind, StAbort, ClientPut, GrantExpires
    <3>6. ASSUME NEW j \in Jobs, Acquire(j) \/ JobStep(j) \/ JobFails(j) \/ Crash(j)
          PROVE  RemoveRows(j)
      BY <3>1, <3>6 DEF JobStep, Acquire, FindExpiredPending, FindDeletedForPurge, ListPending,
           ListPurge, DeleteObject, Release, JobFails, Crash, assetVars
    <3>7. ASSUME NEW kind \in Kinds, LockExpires(kind) PROVE UNCHANGED assets
      BY <3>7 DEF LockExpires, assetVars
    <3> QED
      BY <3>1, <3>3, <3>4, <3>5, <3>6, <3>7 DEF StNext
  <2> QED
    BY <2>2, <2>3, <2>4
<1>2. JobsTakeOnlyOldRows <=> [][JobTakesOldRow]_stVars
  BY DEF JobsTakeOnlyOldRows
<1> QED
  BY <1>1, <1>2, StInvariance, PTL DEF StSpec

-----------------------------------------------------------------------------
(***************************************************************************)
(* What holds when requests about one key, and jobs, do not overlap        *)
(* (Serial): nothing comes between a check and the call that relies on it. *)
(***************************************************************************)

(* One request works on a key, and a job works alone.                      *)
Alone ==
  /\ \A q, r \in Reqs : StInFlight(q) /\ StInFlight(r) /\ sreq[q].key = sreq[r].key => q = r
  /\ \A j \in Jobs : Running(j) => /\ \A q \in Reqs : ~StInFlight(q)
                                   /\ \A i \in Jobs : Running(i) => i = j

RowIs(rows, k, id) == rows[k] # NoAsset /\ rows[k].id = id

(* What a handler has checked: a confirmation saw the object, a deletion   *)
(* has the id of its key's row, an abort found that row not deleted.       *)
Looked(f, objects) == f.op = "confirm" /\ f.pc \in {"find", "update", "profile"} => f.key \in objects
Held(f, rows) ==
  /\ f.op = "delete" /\ f.pc \in {"find", "update"} => RowIs(rows, f.key, f.row)
  /\ f.op = "abort" /\ f.pc = "remove" => RowIs(rows, f.key, f.row) /\ rows[f.key].gone = "no"
Checked == \A r \in Reqs : Looked(sreq[r], stored) /\ Held(sreq[r], assets)

(* What a job has on its list is what its query looked for.                *)
Dead(j) == IF j[2] = "pending" THEN Expired ELSE Purgeable
ListsAreDead ==
  \A j \in Jobs : job[j].pc \in {"objects", "remove"} =>
    \A a \in Listing(j) : RowIs(assets, a[2], a[1]) /\ a[2] \in Dead(j)

SInv == Alone /\ Checked /\ ListsAreDead /\ LiveAssetHasObject

Live(row) == row.status = "CONFIRMED" /\ row.gone = "no"
Recent(row) == row.status = "DELETED" /\ row.gone = "recent"

(* Nothing is in flight and no row is listed at first; the objects of the  *)
(* confirmed rows are there.                                               *)
LEMMA SerialInit == StInit => SInv
<1> SUFFICES ASSUME StInit PROVE SInv
  OBVIOUS
<1>1. /\ \A r \in Reqs : sreq[r] = StBlank
      /\ \A j \in Jobs : job[j] = Idle
  BY DEF StInit
<1>2. Alone /\ ListsAreDead
  BY <1>1 DEF Alone, ListsAreDead, StInFlight, Running, StBlank, Idle
<1>3. Checked
  BY <1>1 DEF Checked, Looked, Held, StBlank
<1>4. LiveAssetHasObject
  BY DEF LiveAssetHasObject, StInit
<1> QED
  BY <1>2, <1>3, <1>4 DEF SInv

-----------------------------------------------------------------------------
(* What a step of request r does: it has its key to itself, adds objects   *)
(* only, deletes no row that may still be recovered, and goes on with what *)
(* it has checked.                                                         *)
OwnStep(r) ==
  /\ StInFlight(r) /\ UNCHANGED job /\ stored \subseteq stored'
  /\ \A q \in Reqs \ {r} : sreq'[q] = sreq[q]
  /\ sreq'[r].pc = "done" \/ sreq'[r].key = sreq[r].key
  /\ \A k \in Keys \ {sreq[r].key} : assets'[k] = assets[k]
  /\ Looked(sreq'[r], stored') /\ Held(sreq'[r], assets')
  /\ Live(assets'[sreq[r].key]) => sreq[r].key \in stored'
  /\ Recent(assets[sreq[r].key]) => assets'[sreq[r].key] # NoAsset
  /\ shown' \ shown \subseteq stored

(* Such a step keeps the invariant. *)
LEMMA OwnStepKeeps ==
  ASSUME StInv, SInv, NEW r \in Reqs, OwnStep(r) PROVE SInv'
<1>1. \A j \in Jobs : ~Running(j) /\ ~Running(j)'
  BY DEF SInv, Alone, OwnStep, Running
<1>2. Alone'
  BY <1>1 DEF SInv, Alone, OwnStep, StInFlight
<1>3. Checked'
  <2> SUFFICES ASSUME NEW q \in Reqs PROVE Looked(sreq'[q], stored') /\ Held(sreq'[q], assets')
    BY DEF Checked
  <2>1. CASE q = r
    BY <2>1 DEF OwnStep
  <2>2. CASE q # r
    <3>1. sreq'[q] = sreq[q] /\ Looked(sreq[q], stored) /\ Held(sreq[q], assets) /\ stored \subseteq stored'
      BY <2>2 DEF OwnStep, SInv, Checked
    <3>2. CASE StInFlight(q)
      <4>1. sreq[q].key # sreq[r].key /\ sreq[q].key \in Keys
        BY <2>2, <3>2 DEF SInv, Alone, OwnStep, StInv, FramesKeyed, WellKeyed, StInFlight
      <4>2. assets'[sreq[q].key] = assets[sreq[q].key]
        BY <4>1 DEF OwnStep
      <4> QED
        BY <3>1, <4>2 DEF Looked, Held, RowIs
    <3>3. CASE ~StInFlight(q)
      BY <3>1, <3>3 DEF StInFlight, Looked, Held
    <3> QED
      BY <3>2, <3>3
  <2> QED
    BY <2>1, <2>2
<1>4. ListsAreDead'
  BY <1>1 DEF ListsAreDead, Running
<1>5. LiveAssetHasObject'
  BY DEF LiveAssetHasObject, Live, OwnStep, SInv
<1> QED
  BY <1>2, <1>3, <1>4, <1>5 DEF SInv

(* The row with an id a request holds for its key is that key's.           *)
LEMMA OneRow ==
  ASSUME StInv, NEW k \in Keys, NEW id, RowIs(assets, k, id)
  PROVE  RowsWith({id}) = {k}
BY DEF RowIs, RowsWith, StInv, RowIdentity

(* A request that ends. *)
LEMMA EndOfFrame ==
  ASSUME StInv, NEW r \in Reqs, StFinish(r)
  PROVE  /\ sreq'[r] = StDone /\ sreq'[r].pc = "done"
         /\ \A q \in Reqs \ {r} : sreq'[q] = sreq[q]
         /\ \A objects, rows : Looked(sreq'[r], objects) /\ Held(sreq'[r], rows)
<1>1. sreq'[r] = StDone /\ \A q \in Reqs \ {r} : sreq'[q] = sreq[q]
  BY DEF StFinish, StInv, StTypeOK
<1>2. StDone.pc = "done" /\ StDone.op = "none"
  BY DEF StDone, StBlank
<1> QED
  BY <1>1, <1>2 DEF Looked, Held

(* A request that goes on. *)
LEMMA NextOfFrame ==
  ASSUME StInv, NEW r \in Reqs, NEW pc, StGoto(r, pc)
  PROVE  /\ sreq'[r].pc = pc
         /\ sreq'[r].op = sreq[r].op /\ sreq'[r].key = sreq[r].key /\ sreq'[r].row = sreq[r].row
         /\ \A q \in Reqs \ {r} : sreq'[q] = sreq[q]
BY DEF StGoto, StInv, StTypeOK, StFrame

(* Steps that leave the rows alone. *)
LEMMA QuietOwnStep ==
  ASSUME StInv, SInv, NEW r \in Reqs,
         \/ InitiateStart(r) \/ CompleteSend(r) \/ AbortSend(r)
         \/ ConfirmHead(r) \/ ConfirmFind(r) \/ ConfirmProfile(r) \/ DeleteFind(r) \/ StAbort(r)
  PROVE  OwnStep(r)
<1> DEFINE k == sreq[r].key
<1>1. StInFlight(r) /\ UNCHANGED <<assets, job>> /\ stored \subseteq stored'
  BY DEF InitiateStart, CompleteSend, AbortSend, ConfirmHead, ConfirmFind, ConfirmProfile,
         DeleteFind, StAbort, StAt, StInFlight, jobVars
<1>2. k \in Keys /\ Looked(sreq[r], stored) /\ Held(sreq[r], assets)
  BY <1>1 DEF StInv, FramesKeyed, WellKeyed, StInFlight, SInv, Checked
<1>3. /\ \A q \in Reqs \ {r} : sreq'[q] = sreq[q]
      /\ sreq'[r].pc = "done" \/ sreq'[r].key = k
      /\ Looked(sreq'[r], stored') /\ Held(sreq'[r], assets')
  <2>1. CASE StFinish(r)
    BY <2>1, EndOfFrame
  <2>2. CASE InitiateStart(r)
    BY <2>2, NextOfFrame DEF InitiateStart, StAt, Looked, Held
  <2>3. CASE AbortSend(r)
    BY <2>3, NextOfFrame DEF AbortSend, StAt, Looked, Held
  <2>4. CASE ConfirmHead(r)
    BY <1>1, <2>1, <2>4, NextOfFrame DEF ConfirmHead, StAt, Looked, Held
  <2>5. CASE ConfirmFind(r)
    BY <1>1, <1>2, <2>1, <2>5, NextOfFrame DEF ConfirmFind, AfterConfirm, StAt, Looked, Held
  <2>6. CASE DeleteFind(r)
    BY <1>1, <1>2, <2>1, <2>6, NextOfFrame DEF DeleteFind, StAt, Looked, Held
  <2> QED
    BY <2>1, <2>2, <2>3, <2>4, <2>5, <2>6 DEF CompleteSend, ConfirmProfile, StAbort
<1>4. Live(assets'[k]) => k \in stored'
  BY <1>1, <1>2 DEF SInv, LiveAssetHasObject, Live
<1>5. Recent(assets[k]) => assets'[k] # NoAsset
  BY <1>1 DEF Recent, NoAsset
<1>6. shown' \ shown \subseteq stored
  BY <1>2 DEF InitiateStart, CompleteSend, AbortSend, ConfirmHead, ConfirmFind, ConfirmProfile,
         DeleteFind, StAbort, StAt, Looked
<1> QED
  BY <1>1, <1>3, <1>4, <1>5, <1>6 DEF OwnStep

(* An abort notes the row it found not deleted.                            *)
LEMMA AbortFindOwnStep == ASSUME StInv, SInv, NEW r \in Reqs, AbortFind(r) PROVE OwnStep(r)
<1> DEFINE k == sreq[r].key
           g == [sreq[r] EXCEPT !.pc = "remove", !.row = assets[k].id]
<1>1. /\ StInFlight(r) /\ UNCHANGED <<assets, stored, shown, job>> /\ sreq[r] \in StFrame /\ k \in Keys
      /\ sreq[r].op = "abort" /\ sreq \in [Reqs -> StFrame]
  BY DEF AbortFind, StAt, StInFlight, jobVars, StInv, StTypeOK, FramesKeyed, WellKeyed
<1>2. /\ Live(assets'[k]) => k \in stored'
      /\ Recent(assets[k]) => assets'[k] # NoAsset
  BY <1>1 DEF SInv, LiveAssetHasObject, Live, Recent, NoAsset
<1>3. CASE StFinish(r)
  BY <1>1, <1>2, <1>3, EndOfFrame DEF OwnStep
<1>4. CASE assets[k] # NoAsset /\ assets[k].gone = "no" /\ sreq' = [sreq EXCEPT ![r] = g]
  <2>1. g.pc = "remove" /\ g.key = k /\ g.op = "abort" /\ g.row = assets[k].id
    BY <1>1 DEF StFrame
  <2> HIDE DEF g
  <2>2. sreq'[r] = g /\ \A q \in Reqs \ {r} : sreq'[q] = sreq[q]
    BY <1>1, <1>4
  <2>3. Looked(g, stored') /\ Held(g, assets')
    BY <1>1, <1>4, <2>1 DEF Looked, Held, RowIs
  <2> QED
    BY <1>1, <1>2, <2>1, <2>2, <2>3 DEF OwnStep
<1> QED
  BY <1>3, <1>4 DEF AbortFind

(* A pending row is created or renewed, whatever is in R2.                 *)
LEMMA HandOutOwnStep == ASSUME StInv, SInv, NEW r \in Reqs, HandOut(r) PROVE OwnStep(r)
<1> DEFINE k == sreq[r].key
<1>1. /\ StInFlight(r) /\ StFinish(r) /\ k \in Keys /\ UNCHANGED <<stored, shown, job>>
      /\ assets \in [Keys -> AssetRow \cup {NoAsset}]
  BY DEF HandOut, StInFlight, jobVars, StInv, StTypeOK, FramesKeyed, WellKeyed
<1>2. /\ \A l \in Keys \ {k} : assets'[l] = assets[l]
      /\ Live(assets'[k]) => k \in stored'
      /\ Recent(assets[k]) => assets'[k] # NoAsset
  <2>1. CASE UNCHANGED assets
    BY <1>1, <2>1 DEF SInv, LiveAssetHasObject, Live, Recent, NoAsset
  <2>2. CASE assets[k] = NoAsset /\ CreatePending(r, k)
    BY <1>1, <2>2 DEF CreatePending, Live, Recent, NoAsset
  <2>3. CASE assets[k] # NoAsset /\ CreatePending(r, k)
    <3> DEFINE new == [assets[k] EXCEPT !.status = "PENDING", !.gone = "no"]
    <3>1. new.status = "PENDING" /\ new # NoAsset
      BY <1>1, <2>3 DEF AssetRow, NoAsset
    <3>2. assets' = [assets EXCEPT ![k] = new]
      BY <2>3 DEF CreatePending
    <3> HIDE DEF new
    <3> QED
      BY <1>1, <3>1, <3>2 DEF Live
  <2> QED
    BY <2>1, <2>2, <2>3 DEF HandOut
<1> QED
  BY <1>1, <1>2, EndOfFrame DEF OwnStep

(* confirmUpload's update relies on its HeadObject.                        *)
LEMMA ConfirmUpdateOwnStep == ASSUME StInv, SInv, NEW r \in Reqs, ConfirmUpdate(r) PROVE OwnStep(r)
<1> DEFINE k == sreq[r].key
<1>1. /\ StInFlight(r) /\ k \in Keys /\ UNCHANGED <<stored, shown, job>>
      /\ assets \in [Keys -> AssetRow \cup {NoAsset}] /\ StAt(r, "confirm", "update")
  BY DEF ConfirmUpdate, StAt, StInFlight, jobVars, StInv, StTypeOK, FramesKeyed, WellKeyed
<1>2. k \in stored
  BY <1>1 DEF SInv, Checked, Looked, StAt
<1>3. /\ \A q \in Reqs \ {r} : sreq'[q] = sreq[q]
      /\ sreq'[r].pc = "done" \/ sreq'[r].key = k
      /\ Looked(sreq'[r], stored') /\ Held(sreq'[r], assets')
  <2>1. CASE StFinish(r)
    BY <2>1, EndOfFrame
  <2>2. CASE StGoto(r, "profile")
    BY <1>1, <1>2, <2>2, NextOfFrame DEF StAt, Looked, Held
  <2> QED
    BY <2>1, <2>2 DEF ConfirmUpdate, AfterConfirm
<1>4. \A l \in Keys \ {k} : assets'[l] = assets[l]
  BY <1>1 DEF ConfirmUpdate
<1>5. Recent(assets[k]) => assets'[k] # NoAsset
  BY <1>1 DEF ConfirmUpdate, Recent, NoAsset, AssetRow
<1> QED
  BY <1>1, <1>2, <1>3, <1>4, <1>5 DEF OwnStep

(* What a deletion or an abort writes is its key's row.                    *)
LEMMA RowOwnStep ==
  ASSUME StInv, SInv, NEW r \in Reqs, DeleteUpdate(r) \/ AbortRemove(r) PROVE OwnStep(r)
<1> DEFINE k == sreq[r].key
<1>1. /\ StInFlight(r) /\ StFinish(r) /\ k \in Keys /\ UNCHANGED <<stored, shown, job>>
      /\ assets \in [Keys -> AssetRow \cup {NoAsset}]
  BY DEF DeleteUpdate, AbortRemove, StAt, StInFlight, jobVars, StInv, StTypeOK, FramesKeyed, WellKeyed
<1>2. RowIs(assets, k, sreq[r].row) /\ (AbortRemove(r) => assets[k].gone = "no")
  BY DEF DeleteUpdate, AbortRemove, StAt, SInv, Checked, Held
<1>3. RowsWith({sreq[r].row}) = {k}
  BY <1>1, <1>2, OneRow
<1>4. assets[k] \in AssetRow
  BY <1>1, <1>2 DEF RowIs
<1>5. /\ \A l \in Keys \ {k} : assets'[l] = assets[l]
      /\ ~Live(assets'[k])
      /\ Recent(assets[k]) => assets'[k] # NoAsset
  <2>1. CASE DeleteUpdate(r)
    BY <1>1, <1>3, <1>4, <2>1 DEF DeleteUpdate, AssetRow, Live, NoAsset
  <2>2. CASE AbortRemove(r)
    BY <1>1, <1>2, <1>3, <2>2 DEF AbortRemove, HardDelete, Live, Recent, NoAsset
  <2> QED
    BY <2>1, <2>2
<1> QED
  BY <1>1, <1>5, EndOfFrame DEF OwnStep

LEMMA HandlerOwnStep ==
  ASSUME StInv, SInv, NEW r \in Reqs, StHandler(r) \/ StAbort(r) PROVE OwnStep(r)
BY QuietOwnStep, AbortFindOwnStep, HandOutOwnStep, ConfirmUpdateOwnStep, RowOwnStep DEF StHandler

-----------------------------------------------------------------------------
(* A new request finds no other on its key and no job running.             *)
LEMMA CallKeeps ==
  ASSUME Serial, StInv, SInv, NEW r \in Reqs, StCall(r) PROVE SInv'
<1>0. PICK f : StIssue(r, f) /\ Looked(f, stored) /\ Held(f, assets)
  <2>1. PICK k \in Keys :
          \/ StIssue(r, [StBlank EXCEPT !.pc = "create", !.op = "uploadUrl", !.key = k])
          \/ StIssue(r, [StBlank EXCEPT !.pc = "start", !.op = "initiate", !.key = k])
          \/ StIssue(r, [StBlank EXCEPT !.pc = "head", !.op = "confirm", !.key = k])
          \/ /\ assets[k] # NoAsset
             /\ StIssue(r, [StBlank EXCEPT !.pc = "find", !.op = "delete", !.key = k,
                                           !.row = assets[k].id])
          \/ \E q \in Reqs, op \in {"complete", "abort"} :
               StIssue(r, [StBlank EXCEPT !.pc = "send", !.op = op, !.key = k, !.upload = q])
    BY Zenon DEF StCall
  <2>2. ASSUME NEW f, StIssue(r, f), Looked(f, stored), Held(f, assets)
        PROVE  \E e : StIssue(r, e) /\ Looked(e, stored) /\ Held(e, assets)
    BY <2>2
  <2>3. CASE StIssue(r, [StBlank EXCEPT !.pc = "create", !.op = "uploadUrl", !.key = k])
    BY <2>2, <2>3 DEF StBlank, Looked, Held
  <2>4. CASE StIssue(r, [StBlank EXCEPT !.pc = "start", !.op = "initiate", !.key = k])
    BY <2>2, <2>4 DEF StBlank, Looked, Held
  <2>5. CASE StIssue(r, [StBlank EXCEPT !.pc = "head", !.op = "confirm", !.key = k])
    BY <2>2, <2>5 DEF StBlank, Looked, Held
  <2>6. CASE /\ assets[k] # NoAsset
             /\ StIssue(r, [StBlank EXCEPT !.pc = "find", !.op = "delete", !.key = k,
                                           !.row = assets[k].id])
    BY <2>2, <2>6 DEF StBlank, Looked, Held, RowIs
  <2>7. ASSUME NEW q \in Reqs, NEW op \in {"complete", "abort"},
               StIssue(r, [StBlank EXCEPT !.pc = "send", !.op = op, !.key = k, !.upload = q])
        PROVE  \E e : StIssue(r, e) /\ Looked(e, stored) /\ Held(e, assets)
    BY <2>2, <2>7 DEF StBlank, Looked, Held
  <2> QED
    BY <2>1, <2>3, <2>4, <2>5, <2>6, <2>7
<1>1. /\ \A q \in Reqs : sreq'[q] = IF q = r THEN f ELSE sreq[q]
      /\ UNCHANGED <<assets, stored, job>> /\ MayStart(f.key) /\ ~StInFlight(r)
  BY <1>0 DEF StIssue, StInFlight, jobVars, StInv, StTypeOK
<1>2. Alone'
  BY <1>0, <1>1 DEF SInv, Alone, MayStart, StInFlight, Running
<1>3. Checked'
  BY <1>0, <1>1 DEF SInv, Checked
<1>4. ListsAreDead' /\ LiveAssetHasObject'
  BY <1>1 DEF SInv, ListsAreDead, Listing, Dead, Expired, Purgeable, LiveAssetHasObject
<1> QED
  BY <1>2, <1>3, <1>4 DEF SInv

(* A client's upload adds an object. *)
LEMMA ClientKeeps ==
  ASSUME SInv, NEW r \in Reqs, ClientPut(r) \/ GrantExpires(r) PROVE SInv'
<1>1. UNCHANGED <<assets, sreq, job>> /\ stored \subseteq stored'
  BY DEF ClientPut, GrantExpires, jobVars
<1>2. Alone' /\ Checked'
  BY <1>1 DEF SInv, Alone, StInFlight, Running, Checked, Looked
<1>3. ListsAreDead' /\ LiveAssetHasObject'
  BY <1>1 DEF SInv, ListsAreDead, Listing, Dead, Expired, Purgeable, LiveAssetHasObject
<1> QED
  BY <1>2, <1>3 DEF SInv

(* Time takes no row, brings none back, and keeps the dead ones dead.      *)
LEMMA ClockMoves ==
  ASSUME StInv, NEW k \in Keys, AssetAges(k) \/ DayPasses(k)
  PROVE  /\ UNCHANGED <<sreq, job, stored>>
         /\ \A l \in Keys : /\ assets'[l] = NoAsset <=> assets[l] = NoAsset
                            /\ assets'[l].id = assets[l].id /\ assets'[l].status = assets[l].status
                            /\ assets'[l].gone = "no" <=> assets[l].gone = "no"
                            /\ assets[l].gone = "day" => assets'[l].gone = "day"
                            /\ assets[l].old => assets'[l].old
<1>1. /\ UNCHANGED <<sreq, job, stored>> /\ assets[k] # NoAsset
      /\ assets \in [Keys -> AssetRow \cup {NoAsset}]
  BY DEF AssetAges, DayPasses, jobVars, NoAsset, StInv, StTypeOK
<1>2. assets[k] \in AssetRow
  BY <1>1
<1>3. CASE AssetAges(k)
  <2> DEFINE new == [assets[k] EXCEPT !.old = TRUE]
  <2>1. /\ new # NoAsset /\ new.id = assets[k].id /\ new.status = assets[k].status
        /\ new.gone = assets[k].gone /\ new.old
    BY <1>2 DEF AssetRow, NoAsset
  <2>2. assets' = [assets EXCEPT ![k] = new]
    BY <1>3 DEF AssetAges
  <2> HIDE DEF new
  <2> QED
    BY <1>1, <2>1, <2>2
<1>4. CASE DayPasses(k)
  <2> DEFINE new == [assets[k] EXCEPT !.gone = "day"]
  <2>1. /\ new # NoAsset /\ new.id = assets[k].id /\ new.status = assets[k].status
        /\ new.gone = "day" /\ new.old = assets[k].old /\ assets[k].gone = "recent"
    BY <1>2, <1>4 DEF AssetRow, NoAsset, DayPasses
  <2>2. assets' = [assets EXCEPT ![k] = new]
    BY <1>4 DEF DayPasses
  <2> HIDE DEF new
  <2> QED
    BY <1>1, <2>1, <2>2
<1> QED
  BY <1>1, <1>3, <1>4

LEMMA ClockKeeps ==
  ASSUME StInv, SInv, NEW k \in Keys, AssetAges(k) \/ DayPasses(k) PROVE SInv'
<1>1. /\ UNCHANGED <<sreq, job, stored>>
      /\ \A l \in Keys : /\ assets'[l] = NoAsset <=> assets[l] = NoAsset
                         /\ assets'[l].id = assets[l].id /\ assets'[l].status = assets[l].status
                         /\ assets'[l].gone = "no" <=> assets[l].gone = "no"
                         /\ assets[l].gone = "day" => assets'[l].gone = "day"
                         /\ assets[l].old => assets'[l].old
  BY ClockMoves
<1>2. Alone'
  BY <1>1 DEF SInv, Alone, StInFlight, Running
<1>3. Checked'
  <2> SUFFICES ASSUME NEW r \in Reqs PROVE Looked(sreq[r], stored) /\ Held(sreq[r], assets')
    BY <1>1 DEF Checked
  <2>1. Looked(sreq[r], stored) /\ Held(sreq[r], assets)
    BY DEF SInv, Checked
  <2>2. sreq[r].pc \notin {"new", "done"} => sreq[r].key \in Keys
    BY DEF StInv, FramesKeyed, WellKeyed
  <2> QED
    BY <1>1, <2>1, <2>2 DEF Held, RowIs
<1>4. ListsAreDead'
  <2> SUFFICES ASSUME NEW j \in Jobs, job[j].pc \in {"objects", "remove"}, NEW a \in Listing(j)
               PROVE  RowIs(assets', a[2], a[1]) /\ a[2] \in Dead(j)'
    BY <1>1 DEF ListsAreDead, Listing
  <2>1. RowIs(assets, a[2], a[1]) /\ a[2] \in Dead(j)
    BY DEF SInv, ListsAreDead
  <2>2. a[2] \in Keys
    BY <2>1 DEF Dead, Expired, Purgeable
  <2> QED
    BY <1>1, <2>1, <2>2 DEF RowIs, Dead, Expired, Purgeable
<1>5. LiveAssetHasObject'
  BY <1>1 DEF SInv, LiveAssetHasObject
<1> QED
  BY <1>2, <1>3, <1>4, <1>5 DEF SInv

-----------------------------------------------------------------------------
(* A job that starts or runs is alone. *)
LEMMA JobAlone ==
  ASSUME Serial, SInv, NEW j \in Jobs, Running(j) \/ Acquire(j)
  PROVE  /\ \A q \in Reqs : ~StInFlight(q)
         /\ \A i \in Jobs \ {j} : ~Running(i)
BY DEF SInv, Alone, Acquire, MayRun

(* It may go on with a list of dead rows, and takes no object of a live one. *)
LEMMA JobKeeps ==
  ASSUME StInv, NEW j \in Jobs, UNCHANGED sreq,
         \A q \in Reqs : ~StInFlight(q), \A i \in Jobs \ {j} : ~Running(i),
         NEW g, job' = [job EXCEPT ![j] = g],
         g.pc \in {"objects", "remove"} =>
           \A a \in g.todo \cup g.ready : RowIs(assets', a[2], a[1]) /\ a[2] \in Dead(j)',
         LiveAssetHasObject'
  PROVE  SInv'
<1>1. \A i \in Jobs : job'[i] = IF i = j THEN g ELSE job[i]
  BY DEF StInv, StTypeOK
<1>2. Alone'
  BY <1>1 DEF Alone, StInFlight, Running
<1>3. Checked'
  BY DEF Checked, Looked, Held, StInFlight
<1>4. ListsAreDead'
  BY <1>1 DEF ListsAreDead, Listing, Running
<1> QED
  BY <1>2, <1>3, <1>4 DEF SInv

(* A run begins, ends, fails or dies: it has no list to go on with.        *)
LEMMA JobBoundsKeep ==
  ASSUME Serial, StInv, SInv, NEW j \in Jobs, Acquire(j) \/ Release(j) \/ JobFails(j) \/ Crash(j)
  PROVE  SInv'
<1>1. UNCHANGED assetVars /\ (Running(j) \/ Acquire(j)) /\ job[j] \in JobRun
  BY DEF Acquire, Release, JobFails, Crash, JobAt, Running, StInv, StTypeOK
<1>2. LiveAssetHasObject'
  BY <1>1 DEF assetVars, SInv, LiveAssetHasObject
<1>3. PICK g : job' = [job EXCEPT ![j] = g] /\ g.pc \notin {"objects", "remove"}
  <2>1. CASE JobEnd(j)
    <3>1. Idle.pc = "idle"
      BY DEF Idle
    <3> QED
      BY <2>1, <3>1 DEF JobEnd
  <2>2. ASSUME NEW pc \in {"find", "release"}, JobGoto(j, pc)
        PROVE  [job[j] EXCEPT !.pc = pc].pc = pc /\ job' = [job EXCEPT ![j] = [job[j] EXCEPT !.pc = pc]]
    BY <1>1, <2>2 DEF JobGoto, JobRun
  <2>3. CASE UNCHANGED job /\ ~Running(j)
    BY <2>3 DEF Running, StInv, StTypeOK
  <2> QED
    BY <2>1, <2>2, <2>3 DEF Acquire, Release, JobFails, Crash
<1> QED
  BY <1>1, <1>2, <1>3, JobAlone, JobKeeps DEF assetVars

(* The queries list dead rows. *)
LEMMA FindKeeps ==
  ASSUME Serial, StInv, SInv, NEW j \in Jobs, FindExpiredPending(j) \/ FindDeletedForPurge(j)
  PROVE  SInv'
<1>1. UNCHANGED assetVars /\ Running(j) /\ job[j] \in JobRun
  BY DEF FindExpiredPending, FindDeletedForPurge, ListPending, ListPurge, JobAt, Running, StInv, StTypeOK
<1>2. LiveAssetHasObject'
  BY <1>1 DEF assetVars, SInv, LiveAssetHasObject
<1>3. CASE JobGoto(j, "release")
  <2> DEFINE g == [job[j] EXCEPT !.pc = "release"]
  <2>1. g.pc = "release" /\ job' = [job EXCEPT ![j] = g]
    BY <1>1, <1>3 DEF JobGoto, JobRun
  <2> HIDE DEF g
  <2> QED
    BY <1>1, <1>2, <2>1, JobAlone, JobKeeps DEF assetVars
<1>4. ASSUME NEW S, S \subseteq Dead(j),
             NEW g, g \in {[pc |-> "remove", todo |-> {}, ready |-> Listed(S)],
                           [pc |-> "objects", todo |-> Listed(S), ready |-> {}]},
             job' = [job EXCEPT ![j] = g]
      PROVE  SInv'
  <2>1. g.todo \cup g.ready = Listed(S)
    BY <1>4
  <2>2. \A k \in S : assets[k] # NoAsset
    BY <1>4 DEF Dead, Expired, Purgeable, NoAsset
  <2>3. \A a \in Listed(S) : RowIs(assets', a[2], a[1]) /\ a[2] \in Dead(j)'
    BY <1>1, <1>4, <2>2 DEF Listed, RowIs, Dead, Expired, Purgeable, assetVars
  <2> QED
    BY <1>1, <1>2, <1>4, <2>1, <2>3, JobAlone, JobKeeps DEF assetVars
<1>5. CASE FindExpiredPending(j)
  BY <1>3, <1>4, <1>5 DEF FindExpiredPending, ListPending, Dead
<1>6. CASE FindDeletedForPurge(j)
  BY <1>3, <1>4, <1>6 DEF FindDeletedForPurge, ListPurge, Dead
<1> QED
  BY <1>5, <1>6

(* What an object the purge takes belonged to.                             *)
LEMMA PurgedObjects ==
  ASSUME SInv, NEW j \in Jobs, DeleteObject(j), NEW k \in stored \ stored'
  PROVE  k \in Expired \cup Purgeable
BY DEF DeleteObject, JobAt, SInv, ListsAreDead, Listing, Dead

LEMMA DeleteObjectKeeps ==
  ASSUME Serial, StInv, SInv, NEW j \in Jobs, DeleteObject(j) PROVE SInv'
<1>1. PICK a \in job[j].todo :
        job' = [job EXCEPT ![j] =
             [pc |-> IF job[j].todo = {a} THEN "remove" ELSE "objects",
              todo |-> job[j].todo \ {a}, ready |-> job[j].ready \cup {a}]]
  BY DEF DeleteObject, StInv, StTypeOK
<1> DEFINE g == [pc |-> IF job[j].todo = {a} THEN "remove" ELSE "objects",
                 todo |-> job[j].todo \ {a}, ready |-> job[j].ready \cup {a}]
<1>2. g.todo \cup g.ready = Listing(j) /\ job' = [job EXCEPT ![j] = g]
  BY <1>1 DEF Listing
<1> HIDE DEF g
<1>3. Running(j) /\ UNCHANGED <<assets, sreq>>
  BY DEF DeleteObject, JobAt, Running
<1>4. \A b \in Listing(j) : RowIs(assets', b[2], b[1]) /\ b[2] \in Dead(j)'
  BY <1>3 DEF DeleteObject, JobAt, SInv, ListsAreDead, Dead, Expired, Purgeable
<1>5. LiveAssetHasObject'
  BY <1>3, PurgedObjects DEF SInv, LiveAssetHasObject, Expired, Purgeable
<1> QED
  BY <1>2, <1>3, <1>4, <1>5, JobAlone, JobKeeps

(* The rows a job takes are on its list, under the keys they had there.    *)
LEMMA TakenRows ==
  ASSUME StInv, SInv, NEW j \in Jobs, RemoveRows(j), NEW k \in Keys
  PROVE  assets'[k] = assets[k] \/ (assets'[k] = NoAsset /\ k \in Dead(j))
<1> SUFFICES ASSUME k \in RowsWith({a[1] : a \in job[j].ready}) PROVE k \in Dead(j)
  BY DEF RemoveRows, HardDelete, StInv, StTypeOK
<1>1. PICK a \in job[j].ready : assets[k] # NoAsset /\ assets[k].id = a[1]
  BY DEF RowsWith
<1>2. RowIs(assets, a[2], a[1]) /\ a[2] \in Dead(j)
  BY <1>1 DEF RemoveRows, JobAt, SInv, ListsAreDead, Listing
<1>3. a[2] \in Keys
  BY <1>2 DEF Dead, Expired, Purgeable
<1> QED
  BY <1>1, <1>2, <1>3 DEF RowIs, StInv, RowIdentity

LEMMA RemoveRowsKeeps ==
  ASSUME Serial, StInv, SInv, NEW j \in Jobs, RemoveRows(j) PROVE SInv'
<1> DEFINE g == [job[j] EXCEPT !.pc = "release"]
<1>1. g.pc = "release" /\ job' = [job EXCEPT ![j] = g]
  BY DEF RemoveRows, JobGoto, JobRun, StInv, StTypeOK
<1> HIDE DEF g
<1>2. Running(j) /\ UNCHANGED <<stored, sreq>>
  BY DEF RemoveRows, JobAt, Running
<1>3. LiveAssetHasObject'
  BY <1>2, TakenRows DEF SInv, LiveAssetHasObject, NoAsset
<1> QED
  BY <1>1, <1>2, <1>3, JobAlone, JobKeeps

-----------------------------------------------------------------------------
(* The invariant is inductive. *)
LEMMA SerialStep == ASSUME Serial PROVE StInv /\ SInv /\ [StNext]_stVars => SInv'
<1> SUFFICES ASSUME StInv, SInv, [StNext]_stVars PROVE SInv'
  OBVIOUS
<1>1. ASSUME NEW r \in Reqs, StCall(r) \/ StHandler(r) \/ StAbort(r) \/ ClientPut(r) \/ GrantExpires(r)
      PROVE  SInv'
  BY <1>1, CallKeeps, HandlerOwnStep, OwnStepKeeps, ClientKeeps
<1>2. ASSUME NEW k \in Keys, AssetAges(k) \/ DayPasses(k) PROVE SInv'
  BY <1>2, ClockKeeps
<1>3. ASSUME NEW j \in Jobs, Acquire(j) \/ JobStep(j) \/ JobFails(j) \/ Crash(j) PROVE SInv'
  BY <1>3, JobBoundsKeep, FindKeeps, DeleteObjectKeeps, RemoveRowsKeeps DEF JobStep
<1>4. CASE UNCHANGED <<assets, stored, sreq, job>>
  BY <1>4 DEF SInv, Alone, StInFlight, Running, Checked, ListsAreDead, Listing, Dead, Expired,
       Purgeable, LiveAssetHasObject
<1>5. ASSUME NEW kind \in Kinds, LockExpires(kind) PROVE UNCHANGED <<assets, stored, sreq, job>>
  BY <1>5 DEF LockExpires, assetVars
<1> QED
  BY <1>1, <1>2, <1>3, <1>4, <1>5 DEF StNext, stVars, assetVars, jobVars

(* When requests about one key, and jobs, take turns, what a handler or a  *)
(* job has checked still holds at the call that relies on it: the object a *)
(* confirmation saw, the row a deletion or an abort found, the rows on a   *)
(* job's list.                                                             *)
THEOREM ChecksHold == ASSUME Serial PROVE StSpec => [](StInv /\ SInv)
BY SerialInit, SerialStep, StInvariance, PTL DEF StSpec

(* What the table shows as uploaded is in R2.                              *)
THEOREM UploadedIsStored == ASSUME Serial PROVE StSpec => []LiveAssetHasObject
<1>1. SInv => LiveAssetHasObject
  BY DEF SInv
<1> QED
  BY <1>1, ChecksHold, PTL

(* Only a step of a job changes what a job is at, and the only such step   *)
(* that writes rows is the hard delete.                                    *)
LEMMA JobMove ==
  ASSUME StInv, StNext, NEW j \in Jobs, job'[j] # job[j], assets' # assets
  PROVE  RemoveRows(j)
<1>1. ASSUME NEW r \in Reqs, StCall(r) \/ StHandler(r) \/ StAbort(r) \/ ClientPut(r) \/ GrantExpires(r)
      PROVE  UNCHANGED job
  <2>1. CASE StCall(r)
    BY <2>1 DEF StCall, StIssue, jobVars
  <2> QED
    BY <1>1, <2>1 DEF StHandler, InitiateStart, HandOut, CompleteSend, AbortSend, AbortFind, AbortRemove,
       ConfirmHead, ConfirmFind, ConfirmUpdate, ConfirmProfile, DeleteFind, DeleteUpdate, StAbort,
       ClientPut, GrantExpires, jobVars
<1>2. ASSUME NEW k \in Keys, AssetAges(k) \/ DayPasses(k) PROVE UNCHANGED job
  BY <1>2 DEF AssetAges, DayPasses, jobVars
<1>3. ASSUME NEW kind \in Kinds, LockExpires(kind) PROVE UNCHANGED job
  BY <1>3 DEF LockExpires
<1>4. ASSUME NEW i \in Jobs, Acquire(i) \/ JobStep(i) \/ JobFails(i) \/ Crash(i)
      PROVE  RemoveRows(i)
  BY <1>4 DEF JobStep, Acquire, FindExpiredPending, FindDeletedForPurge, ListPending,
       ListPurge, DeleteObject, Release, JobFails, Crash, assetVars
<1>5. PICK i \in Jobs : RemoveRows(i)
  BY <1>1, <1>2, <1>3, <1>4 DEF StNext
<1> QED
  BY <1>5 DEF RemoveRows, JobGoto, StInv, StTypeOK

(* A step that is no handler's writes no profile, and takes rows only as a *)
(* job's hard delete and objects only as a purge.                          *)
LEMMA OtherSteps ==
  ASSUME StInv, StNext, \A r \in Reqs : ~StHandler(r) /\ ~StAbort(r)
  PROVE  /\ UNCHANGED shown
         /\ stored \subseteq stored' \/ \E j \in Jobs : DeleteObject(j)
         /\ \/ \A k \in Keys : assets[k] # NoAsset => assets'[k] # NoAsset
            \/ \E j \in Jobs : RemoveRows(j)
<1>1. ASSUME NEW r \in Reqs, StCall(r) \/ ClientPut(r) \/ GrantExpires(r)
      PROVE  UNCHANGED <<shown, assets>> /\ stored \subseteq stored'
  <2>1. CASE StCall(r)
    BY <2>1 DEF StCall, StIssue
  <2> QED
    BY <1>1, <2>1 DEF ClientPut, GrantExpires
<1>2. ASSUME NEW k \in Keys, AssetAges(k) \/ DayPasses(k)
      PROVE  UNCHANGED <<shown, stored>> /\ \A l \in Keys : assets[l] # NoAsset => assets'[l] # NoAsset
  BY <1>2, ClockMoves DEF AssetAges, DayPasses
<1>3. ASSUME NEW kind \in Kinds, LockExpires(kind) PROVE UNCHANGED <<shown, assets, stored>>
  BY <1>3 DEF LockExpires, assetVars
<1>4. ASSUME NEW j \in Jobs, Acquire(j) \/ JobStep(j) \/ JobFails(j) \/ Crash(j)
      PROVE  /\ UNCHANGED shown /\ (UNCHANGED stored \/ DeleteObject(j))
             /\ UNCHANGED assets \/ RemoveRows(j)
  BY <1>4 DEF JobStep, Acquire, FindExpiredPending, FindDeletedForPurge, ListPending,
       ListPurge, DeleteObject, RemoveRows, Release, JobFails, Crash, assetVars
<1> QED
  BY <1>1, <1>2, <1>3, <1>4 DEF StNext

(* A user's picture points to an object that was in R2 when the path was   *)
(* written: nothing takes it between HeadObject and the update of users.   *)
THEOREM PicturesWereThere == ASSUME Serial PROVE StSpec => ShownWasThere
<1>1. StInv /\ SInv /\ [StNext]_stVars => [shown' \ shown \subseteq stored]_stVars
  BY HandlerOwnStep, OtherSteps DEF OwnStep
<1> QED
  BY <1>1, ChecksHold, PTL DEF StSpec, ShownWasThere

(* Each row a run takes is one its query would still find: a pending row a *)
(* day old, or a row deleted a day ago.                                    *)
THEOREM RunsTakeTheDead == ASSUME Serial PROVE StSpec => JobsTakeDeadRows
<1>1. ASSUME StInv, SInv, StNext, NEW j \in Jobs, NEW k \in Keys,
             JobAt(j, "remove"), job'[j].pc = "release", assets[k] # NoAsset, assets'[k] = NoAsset
      PROVE  k \in IF j[2] = "pending" THEN Expired ELSE Purgeable
  <2>1. RemoveRows(j)
    BY <1>1, JobMove DEF JobAt
  <2> QED
    BY <1>1, <2>1, TakenRows DEF Dead
<1>2. StInv /\ SInv /\ [StNext]_stVars =>
        [\A j \in Jobs, k \in Keys :
           JobAt(j, "remove") /\ JobAt(j, "release")' /\ assets[k] # NoAsset /\ assets'[k] = NoAsset
           => k \in IF j[2] = "pending" THEN Expired ELSE Purgeable]_stVars
  BY <1>1 DEF JobAt
<1> QED
  BY <1>2, ChecksHold, PTL DEF StSpec, JobsTakeDeadRows

(* An asset deleted less than a day ago can be recovered: no step takes    *)
(* its row or its object, neither a job's nor an abort's.                  *)
THEOREM DeletedIsRecoverable == ASSUME Serial PROVE StSpec => GracePeriod
<1>1. ASSUME StInv, SInv, StNext, NEW k \in Keys, assets[k].status = "DELETED", assets[k].gone = "recent"
      PROVE  assets'[k] # NoAsset /\ (k \in stored => k \in stored')
  <2>0. assets[k] # NoAsset /\ Recent(assets[k]) /\ k \notin Expired \cup Purgeable
    BY <1>1 DEF NoAsset, Recent, Expired, Purgeable
  <2>1. ASSUME NEW r \in Reqs, StHandler(r) \/ StAbort(r)
        PROVE  assets'[k] # NoAsset /\ (k \in stored => k \in stored')
    BY <1>1, <2>0, <2>1, HandlerOwnStep DEF OwnStep
  <2>2. ASSUME NEW j \in Jobs, DeleteObject(j)
        PROVE  assets'[k] # NoAsset /\ (k \in stored => k \in stored')
    <3>1. UNCHANGED assets
      BY <2>2 DEF DeleteObject
    <3> QED
      BY <1>1, <2>0, <2>2, <3>1, PurgedObjects
  <2>3. ASSUME NEW j \in Jobs, RemoveRows(j)
        PROVE  assets'[k] # NoAsset /\ (k \in stored => k \in stored')
    <3>1. UNCHANGED stored
      BY <2>3 DEF RemoveRows
    <3> QED
      BY <1>1, <2>0, <2>3, <3>1, TakenRows DEF Dead
  <2> QED
    BY <1>1, <2>0, <2>1, <2>2, <2>3, OtherSteps
<1>2. StInv /\ SInv /\ [StNext]_stVars =>
        [\A k \in Keys :
           assets[k].status = "DELETED" /\ assets[k].gone = "recent" =>
             assets'[k] # NoAsset /\ (k \in stored => k \in stored')]_stVars
  BY <1>1
<1> QED
  BY <1>2, ChecksHold, PTL DEF StSpec, GracePeriod
=============================================================================
