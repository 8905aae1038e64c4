------------------------------ MODULE Storage ------------------------------
(***************************************************************************)
(* The storage module: the assets table, the objects in R2 that clients    *)
(* upload directly with signed URLs, and the two cleanup jobs that run on  *)
(* every instance of the API under a Redis lock.                           *)
(*                                                                         *)
(* A step is one awaited call to Postgres, R2 or Redis together with the   *)
(* code up to the next await.  Requests the DTO, the upload policy or the  *)
(* ownership check refuses change nothing: they are the requests that end  *)
(* by StAbort.                                                             *)
(*                                                                         *)
(* Time is kept where the code compares it: a row is old once createdAt is *)
(* more than 24 hours ago, and its deletedAt is recent or a day ago.       *)
(***************************************************************************)
EXTENDS FiniteSets, Integers

CONSTANTS
  Keys,        \* object keys whose path is fixed (avatar, banner, track, score)
  PictureKeys, \* those of avatars and banners
  Reqs,        \* HTTP requests; each is issued at most once
  Instances,   \* API processes, each with its own cron timers
  PurgeBatch,  \* rows purged per run
  MaxFaults,   \* failed calls and crashes of the jobs in one behaviour
  Timely,      \* TRUE: a lock's TTL outlives the run that holds it
  Serial,      \* TRUE: requests about one key, and jobs, do not overlap
  Null

ASSUME StorageAssumption ==
  /\ PictureKeys \subseteq Keys /\ Keys \cap Reqs = {} /\ Null \notin Keys \cup Reqs
  /\ PurgeBatch \in Nat \ {0} /\ MaxFaults \in Nat
  /\ Timely \in BOOLEAN /\ Serial \in BOOLEAN

(* A row is identified by the request that inserted it, or by its key when *)
(* it was there before the first request.                                  *)
AssetIds == Keys \cup Reqs
Kinds    == {"pending", "purge"}
Jobs     == Instances \X Kinds

ASSUME JobAssumption == Null \notin Jobs

VARIABLES
  assets,   \* assets[k]: the row with that key
  stored,   \* keys that have an object in R2
  shown,    \* picture keys a users row's avatarUrl or bannerUrl points to
  grant,    \* grant[r]: the signed URL or multipart upload r gave its client
  sreq,     \* sreq[r]: the frame of request r
  job,      \* job[j]: the run of a cron job on an instance
  lock,     \* lock[kind]: the run that set the lock's key, Null if unset
  faults    \* faults so far

assetVars == <<assets, stored, shown, grant, sreq>>
jobVars   == <<job, lock, faults>>
stVars    == <<assetVars, jobVars>>

NoAsset  == [id |-> Null, status |-> "none", old |-> FALSE, gone |-> "no"]
AssetRow == [id : AssetIds, status : {"PENDING", "CONFIRMED", "DELETED"},
             old : BOOLEAN, gone : {"no", "recent", "day"}]

NoGrant == [key |-> Null, kind |-> "none"]
Grants  == [key : Keys, kind : {"put", "multi", "closed"}] \cup {NoGrant}

StBlank == [pc |-> "new", op |-> "none", key |-> Null, row |-> Null, upload |-> Null]
StDone  == [StBlank EXCEPT !.pc = "done"]
StOps   == {"uploadUrl", "confirm", "delete", "initiate", "complete", "abort"}
StFrame == [pc : {"new", "start", "create", "head", "find", "update", "profile",
                  "send", "remove", "done"},
            op : StOps \cup {"none"}, key : Keys \cup {Null},
            row : AssetIds \cup {Null}, upload : Reqs \cup {Null}]

Idle   == [pc |-> "idle", todo |-> {}, ready |-> {}]
JobRun == [pc : {"idle", "find", "objects", "remove", "release"},
           todo : SUBSET (AssetIds \X Keys),     \* found, object not deleted yet
           ready : SUBSET (AssetIds \X Keys)]    \* rows to hard-delete

StTypeOK ==
  /\ assets \in [Keys -> AssetRow \cup {NoAsset}]
  /\ stored \subseteq Keys /\ shown \subseteq PictureKeys
  /\ grant \in [Reqs -> Grants]
  /\ sreq \in [Reqs -> StFrame]
  /\ job \in [Jobs -> JobRun]
  /\ lock \in [Kinds -> Jobs \cup {Null}]
  /\ faults \in 0..MaxFaults

(* Before the first request a key is unused, uploaded and confirmed,       *)
(* waiting for its upload, or deleted with its object still there.         *)
Seed(k) ==
  {NoAsset,
   [id |-> k, status |-> "PENDING", old |-> FALSE, gone |-> "no"],
   [id |-> k, status |-> "DELETED", old |-> TRUE, gone |-> "recent"]}
  \cup [id : {k}, status : {"CONFIRMED"}, old : BOOLEAN, gone : {"no"}]

StInit ==
  /\ assets \in [Keys -> UNION {Seed(k) : k \in Keys}]
  /\ \A k \in Keys : assets[k] \in Seed(k)
  /\ stored = {k \in Keys : assets[k].status \in {"CONFIRMED", "DELETED"}}
  /\ shown = {}
  /\ grant = [r \in Reqs |-> NoGrant]
  /\ sreq = [r \in Reqs |-> StBlank]
  /\ job = [j \in Jobs |-> Idle]
  /\ lock = [kind \in Kinds |-> Null]
  /\ faults = 0

-----------------------------------------------------------------------------
StAt(r, op, pc) == sreq[r].op = op /\ sreq[r].pc = pc
StInFlight(r)   == sreq[r].pc \notin {"new", "done"}
StGoto(r, pc)   == sreq' = [sreq EXCEPT ![r].pc = pc]
StFinish(r)     == sreq' = [sreq EXCEPT ![r] = StDone]
Running(j)      == job[j].pc # "idle"

(* What Serial asks of clients and timers. *)
MayStart(k) == Serial => /\ \A q \in Reqs : StInFlight(q) => sreq[q].key # k
                         /\ \A j \in Jobs : ~Running(j)
MayRun      == Serial => /\ \A q \in Reqs : ~StInFlight(q)
                         /\ \A j \in Jobs : ~Running(j)

StIssue(r, f) ==
  /\ sreq[r].pc = "new"
  /\ MayStart(f.key)
  /\ sreq' = [sreq EXCEPT ![r] = f]
  /\ UNCHANGED <<assets, stored, shown, grant, jobVars>>

(* The calls of storage.controller.ts.  A client deletes by the id of an   *)
(* asset it was shown, and completes or aborts an upload it initiated.     *)
StCall(r) ==
  \E k \in Keys :
    \/ StIssue(r, [StBlank EXCEPT !.pc = "create", !.op = "uploadUrl", !.key = k])
    \/ StIssue(r, [StBlank EXCEPT !.pc = "start", !.op = "initiate", !.key = k])
    \/ StIssue(r, [StBlank EXCEPT !.pc = "head", !.op = "confirm", !.key = k])
    \/ /\ assets[k] # NoAsset
       /\ StIssue(r, [StBlank EXCEPT !.pc = "find", !.op = "delete", !.key = k,
                                     !.row = assets[k].id])
    \/ \E q \in Reqs, op \in {"complete", "abort"} :
         /\ grant[q].key = k /\ grant[q].kind = "multi"
         /\ StIssue(r, [StBlank EXCEPT !.pc = "send", !.op = op, !.key = k, !.upload = q])

-----------------------------------------------------------------------------
(***************************************************************************)
(* Rows.                                                                   *)
(***************************************************************************)
(* createPending's upsert: a row that is there keeps its id and createdAt. *)
CreatePending(r, k) ==
  assets' = [assets EXCEPT ![k] =
    IF @ = NoAsset THEN [id |-> r, status |-> "PENDING", old |-> FALSE, gone |-> "no"]
    ELSE [@ EXCEPT !.status = "PENDING", !.gone = "no"]]

RowsWith(ids) == {k \in Keys : assets[k] # NoAsset /\ assets[k].id \in ids}

HardDelete(ids) ==
  assets' = [k \in Keys |-> IF k \in RowsWith(ids) THEN NoAsset ELSE assets[k]]

(***************************************************************************)
(* Uploads.  The URL or multipart upload is handed out even when the row   *)
(* could not be written.                                                   *)
(***************************************************************************)
InitiateStart(r) ==
  /\ StAt(r, "initiate", "start")
  /\ StGoto(r, "create")
  /\ UNCHANGED <<assets, stored, shown, grant, jobVars>>

HandOut(r) ==
  LET f == sreq[r] IN
  /\ f.op \in {"uploadUrl", "initiate"} /\ f.pc = "create"
  /\ CreatePending(r, f.key) \/ UNCHANGED assets
  /\ grant' = [grant EXCEPT ![r] =
                 [key |-> f.key, kind |-> IF f.op = "uploadUrl" THEN "put" ELSE "multi"]]
  /\ StFinish(r)
  /\ UNCHANGED <<stored, shown, jobVars>>

(* The client's PUT goes to R2 and not through the API. *)
ClientPut(r) ==
  /\ grant[r].kind = "put"
  /\ stored' = stored \cup {grant[r].key}
  /\ UNCHANGED <<assets, shown, grant, sreq, jobVars>>

GrantExpires(r) ==
  /\ grant[r].kind \in {"put", "multi"}
  /\ grant' = [grant EXCEPT ![r].kind = "closed"]
  /\ UNCHANGED <<assets, stored, shown, sreq, jobVars>>

CompleteSend(r) ==
  LET q == sreq[r].upload IN
  /\ StAt(r, "complete", "send")
  /\ grant[q].kind = "multi"
  /\ stored' = stored \cup {sreq[r].key}
  /\ grant' = [grant EXCEPT ![q].kind = "closed"]
  /\ StFinish(r)
  /\ UNCHANGED <<assets, shown, jobVars>>

(* abort goes on whether or not R2 could free the parts. *)
AbortSend(r) ==
  LET q == sreq[r].upload IN
  /\ StAt(r, "abort", "send")
  /\ \/ grant[q].kind = "multi" /\ grant' = [grant EXCEPT ![q].kind = "closed"]
     \/ UNCHANGED grant
  /\ StGoto(r, "find")
  /\ UNCHANGED <<assets, stored, shown, jobVars>>

AbortFind(r) ==
  LET row == assets[sreq[r].key] IN
  /\ StAt(r, "abort", "find")
  /\ IF row # NoAsset /\ row.gone = "no"
     THEN sreq' = [sreq EXCEPT ![r].pc = "remove", ![r].row = row.id]
     ELSE StFinish(r)
  /\ UNCHANGED <<assets, stored, shown, grant, jobVars>>

AbortRemove(r) ==
  /\ StAt(r, "abort", "remove")
  /\ HardDelete({sreq[r].row})
  /\ StFinish(r)
  /\ UNCHANGED <<stored, shown, grant, jobVars>>

(***************************************************************************)
(* confirmUpload: HeadObject, find the row, update it by key, and for a    *)
(* picture write its path into the users row.                              *)
(***************************************************************************)
(* What if confirmUpload did not ask R2? *)
ConfirmHeadNothing(r) ==
  /\ StAt(r, "confirm", "head")
  /\ StGoto(r, "find")
  /\ UNCHANGED <<assets, stored, shown, grant, jobVars>>

ConfirmHead(r) ==
  /\ StAt(r, "confirm", "head")
  /\ IF sreq[r].key \in stored THEN StGoto(r, "find") ELSE StFinish(r)
  /\ UNCHANGED <<assets, stored, shown, grant, jobVars>>

AfterConfirm(r) == IF sreq[r].key \in PictureKeys THEN StGoto(r, "profile") ELSE StFinish(r)

(* Without a row ('unknown') it goes on to the profile all the same. *)
ConfirmFind(r) ==
  /\ StAt(r, "confirm", "find")
  /\ IF assets[sreq[r].key] # NoAsset THEN StGoto(r, "update") ELSE AfterConfirm(r)
  /\ UNCHANGED <<assets, stored, shown, grant, jobVars>>

(* The update sets CONFIRMED whatever the status was, and leaves deletedAt. *)
ConfirmUpdate(r) ==
  LET k == sreq[r].key IN
  /\ StAt(r, "confirm", "update")
  /\ \/ assets[k] = NoAsset /\ StFinish(r) /\ UNCHANGED assets
     \/ /\ assets[k] # NoAsset
        /\ assets' = [assets EXCEPT ![k].status = "CONFIRMED"]
        /\ AfterConfirm(r)
  /\ UNCHANGED <<stored, shown, grant, jobVars>>

ConfirmProfile(r) ==
  /\ StAt(r, "confirm", "profile")
  /\ shown' \in {shown, shown \cup {sreq[r].key}}
  /\ StFinish(r)
  /\ UNCHANGED <<assets, stored, grant, jobVars>>

(***************************************************************************)
(* softDelete, by id.                                                      *)
(***************************************************************************)
DeleteFind(r) ==
  /\ StAt(r, "delete", "find")
  /\ IF \E k \in RowsWith({sreq[r].row}) : assets[k].gone = "no"
     THEN StGoto(r, "update") ELSE StFinish(r)
  /\ UNCHANGED <<assets, stored, shown, grant, jobVars>>

DeleteUpdate(r) ==
  /\ StAt(r, "delete", "update")
  /\ assets' = [k \in Keys |-> IF k \in RowsWith({sreq[r].row})
                  THEN [assets[k] EXCEPT !.status = "DELETED", !.gone = "recent"] ELSE assets[k]]
  /\ StFinish(r)
  /\ UNCHANGED <<stored, shown, grant, jobVars>>

(* A check refuses, a call rejects that nothing catches, or the process    *)
(* dies.                                                                   *)
StAbort(r) ==
  /\ StInFlight(r)
  /\ StFinish(r)
  /\ UNCHANGED <<assets, stored, shown, grant, jobVars>>

(* A row is a day old only after the URL of the request that inserted it   *)
(* (15 minutes) has expired.                                               *)
AssetAges(k) ==
  /\ assets[k] # NoAsset /\ ~assets[k].old
  /\ assets[k].id \in Reqs => grant[assets[k].id].kind # "put"
  /\ assets' = [assets EXCEPT ![k].old = TRUE]
  /\ UNCHANGED <<stored, shown, grant, sreq, jobVars>>

DayPasses(k) ==
  /\ assets[k].gone = "recent" /\ assets[k].old
  /\ assets' = [assets EXCEPT ![k].gone = "day"]
  /\ UNCHANGED <<stored, shown, grant, sreq, jobVars>>

-----------------------------------------------------------------------------
(***************************************************************************)
(* The cron jobs.                                                          *)
(***************************************************************************)
Fault       == faults < MaxFaults /\ faults' = faults + 1
LockOf(j)   == lock[j[2]]
JobAt(j, p) == job[j].pc = p
JobGoto(j, p) == job' = [job EXCEPT ![j].pc = p]
JobEnd(j)   == job' = [job EXCEPT ![j] = Idle]

(* What if the skipped run went through the finally block? *)
AcquireOrRelease(j) ==
  /\ ~Running(j) /\ MayRun
  /\ IF LockOf(j) = Null
     THEN lock' = [lock EXCEPT ![j[2]] = j] /\ JobGoto(j, "find")
     ELSE lock' = [lock EXCEPT ![j[2]] = Null] /\ UNCHANGED job
  /\ UNCHANGED <<assetVars, faults>>

(* SET NX: the loser skips its run.  If Redis answers with an error the    *)
(* run is over too, and the key may or may not have been set.              *)
Acquire(j) ==
  /\ ~Running(j) /\ MayRun
  /\ LockOf(j) = Null
  /\ lock' = [lock EXCEPT ![j[2]] = j]
  /\ \/ JobGoto(j, "find") /\ UNCHANGED faults
     \/ Fault /\ UNCHANGED job
  /\ UNCHANGED assetVars

Listed(S) == {<<assets[k].id, k>> : k \in S}

(* The list of a pending run is S, and it removes these rows next. *)
ListPending(j, S) ==
  /\ j[2] = "pending" /\ JobAt(j, "find")
  /\ IF S = {} THEN JobGoto(j, "release")
     ELSE job' = [job EXCEPT ![j] = [pc |-> "remove", todo |-> {}, ready |-> Listed(S)]]
  /\ UNCHANGED <<assetVars, lock, faults>>

(* The list of a purge is PurgeBatch of the rows in S, which the query     *)
(* does not order, or all of them if there are fewer.                      *)
ListPurge(j, S) ==
  /\ j[2] = "purge" /\ JobAt(j, "find")
  /\ \/ S = {} /\ JobGoto(j, "release")
     \/ \E batch \in SUBSET S :
          /\ batch # {} /\ Cardinality(batch) <= PurgeBatch
          /\ batch = S \/ Cardinality(batch) = PurgeBatch
          /\ job' = [job EXCEPT ![j] = [pc |-> "objects", todo |-> Listed(batch), ready |-> {}]]
  /\ UNCHANGED <<assetVars, lock, faults>>

Expired   == {k \in Keys : assets[k].status = "PENDING" /\ assets[k].old}
Purgeable == {k \in Keys : assets[k].status = "DELETED" /\ assets[k].gone = "day"}

(* What if the query forgot the date, or the status? *)
FindPendingAnyAge(j) == ListPending(j, {k \in Keys : assets[k].status = "PENDING"})
FindOldAnyStatus(j)  == ListPending(j, {k \in Keys : assets[k].old})

FindExpiredPending(j) == ListPending(j, Expired)

(* What if there were no grace period? *)
FindDeletedNow(j) == ListPurge(j, {k \in Keys : assets[k].status = "DELETED"})

FindDeletedForPurge(j) == ListPurge(j, Purgeable)

(* deleteObject swallows R2's error, so the id is ready either way. *)
DeleteObject(j) ==
  /\ JobAt(j, "objects")
  /\ \E a \in job[j].todo :
       /\ job' = [job EXCEPT ![j] =
            [pc |-> IF @.todo = {a} THEN "remove" ELSE "objects",
             todo |-> @.todo \ {a}, ready |-> @.ready \cup {a}]]
       /\ \/ stored' = stored \ {a[2]} /\ UNCHANGED faults
          \/ Fault /\ UNCHANGED stored
  /\ UNCHANGED <<assets, shown, grant, sreq, lock>>

(* What if hardDelete went by the keys, which may have new rows by now? *)
RemoveRowsByKey(j) ==
  /\ JobAt(j, "remove")
  /\ assets' = [k \in Keys |->
       IF \E a \in job[j].ready : a[2] = k THEN NoAsset ELSE assets[k]]
  /\ JobGoto(j, "release")
  /\ UNCHANGED <<stored, shown, grant, sreq, lock, faults>>

RemoveRows(j) ==
  /\ JobAt(j, "remove")
  /\ HardDelete({a[1] : a \in job[j].ready})
  /\ JobGoto(j, "release")
  /\ UNCHANGED <<stored, shown, grant, sreq, lock, faults>>

(* A query rejects: the catch block logs it and finally follows. *)
JobFails(j) ==
  /\ job[j].pc \in {"find", "remove"}
  /\ Fault
  /\ JobGoto(j, "release")
  /\ UNCHANGED <<assetVars, lock>>

(* DEL, whoever has set the key; when it fails the key stays. *)
Release(j) ==
  /\ JobAt(j, "release")
  /\ JobEnd(j)
  /\ \/ lock' = [lock EXCEPT ![j[2]] = Null] /\ UNCHANGED faults
     \/ Fault /\ UNCHANGED lock
  /\ UNCHANGED assetVars

Crash(j) ==
  /\ Running(j)
  /\ Fault
  /\ JobEnd(j)
  /\ UNCHANGED <<assetVars, lock>>

(* What if the lock were set without EX? *)
LockStays(kind) == FALSE /\ UNCHANGED stVars

LockExpires(kind) ==
  /\ lock[kind] # Null
  /\ Timely => ~Running(lock[kind])
  /\ lock' = [lock EXCEPT ![kind] = Null]
  /\ UNCHANGED <<assetVars, job, faults>>

-----------------------------------------------------------------------------
StHandler(r) ==
  \/ InitiateStart(r) \/ HandOut(r) \/ CompleteSend(r)
  \/ AbortSend(r) \/ AbortFind(r) \/ AbortRemove(r)
  \/ ConfirmHead(r) \/ ConfirmFind(r) \/ ConfirmUpdate(r) \/ ConfirmProfile(r)
  \/ DeleteFind(r) \/ DeleteUpdate(r)

JobStep(j) ==
  \/ FindExpiredPending(j) \/ FindDeletedForPurge(j) \/ DeleteObject(j)
  \/ RemoveRows(j) \/ Release(j)

StNext ==
  \/ \E r \in Reqs : StCall(r) \/ StHandler(r) \/ StAbort(r) \/ ClientPut(r) \/ GrantExpires(r)
  \/ \E k \in Keys : AssetAges(k) \/ DayPasses(k)
  \/ \E j \in Jobs : Acquire(j) \/ JobStep(j) \/ JobFails(j) \/ Crash(j)
  \/ \E kind \in Kinds : LockExpires(kind)

(* Timers fire again and again on some instance, a job that has started    *)
(* goes on, and a key with a TTL expires.                                  *)
StFairness ==
  \A kind \in Kinds : /\ WF_stVars(\E i \in Instances : Acquire(<<i, kind>>))
                      /\ WF_stVars(\E i \in Instances : JobStep(<<i, kind>>))
                      /\ WF_stVars(LockExpires(kind))

StSpec == StInit /\ [][StNext]_stVars /\ StFairness

-----------------------------------------------------------------------------
(***************************************************************************)
(* Properties that hold however requests and jobs interleave.              *)
(***************************************************************************)

(* A job runs on one instance at a time if its lock's TTL outlives a run,  *)
(* although release deletes the key without looking whose it is, and a run *)
(* may end without releasing it.                                           *)
OneJobPerLock ==
  Timely => \A i, j \in Jobs : i[2] = j[2] /\ Running(i) /\ Running(j) => i = j

(* What that rests on: a run set its lock's key, and the key is still its. *)
HolderSetTheKey == Timely => \A j \in Jobs : Running(j) => LockOf(j) = j

(* What a job has on its list it saw a day old.  The row may be gone by    *)
(* now, and another inserted for its key, but never under the same id:     *)
(* rows and lists only hold ids of requests that have made their insert.   *)
Listing(j) == job[j].todo \cup job[j].ready
Inserting(id) == id \in Reqs /\ sreq[id].pc # "done"

ListsAreOld ==
  \A j \in Jobs : \A a \in Listing(j), k \in Keys :
    assets[k].id = a[1] => assets[k].old

IdsAreInserted ==
  /\ \A j \in Jobs : \A a \in Listing(j) : ~Inserting(a[1])
  /\ \A k \in Keys : ~Inserting(assets[k].id)

RowIdentity ==
  \A k, l \in Keys : assets[k] # NoAsset /\ assets[k].id = assets[l].id => k = l

GoneIsOld == \A k \in Keys : assets[k].gone = "day" => assets[k].old

(* A handler works on a key, and on the profile only for a picture. *)
WellKeyed(f) == /\ f.pc \notin {"new", "done"} => f.key \in Keys
                /\ f.pc = "profile" => f.key \in PictureKeys
FramesKeyed == \A r \in Reqs : WellKeyed(sreq[r])

(* The inductive invariant. *)
StInv == /\ StTypeOK /\ FramesKeyed
         /\ HolderSetTheKey /\ ListsAreOld /\ IdsAreInserted /\ RowIdentity
         /\ GoneIsOld

(* The jobs take no row less than a day old, not even one inserted for the *)
(* key of a row they had listed: only an abort does.                       *)
JobTakesOldRow ==
  \A k \in Keys :
    assets[k] # NoAsset /\ assets'[k] = NoAsset =>
      assets[k].old \/ \E r \in Reqs : /\ StAt(r, "abort", "remove")
                                     /\ sreq[r].row = assets[k].id

JobsTakeOnlyOldRows == [][JobTakesOldRow]_stVars

(* Abandoned uploads and deleted assets leave the table in the end, with   *)
(* jobs skipping runs, failing, and crashing with the lock held: the row   *)
(* is removed, or a request gives it another status.                       *)
EventuallyCollected ==
  \A k \in Keys : /\ k \in Expired ~> k \notin Expired
                  /\ k \in Purgeable ~> k \notin Purgeable

(***************************************************************************)
(* Properties that need requests about a key and jobs not to overlap       *)
(* (Serial): nothing is read again between a check and the call that uses  *)
(* it.                                                                     *)
(***************************************************************************)

(* What the table shows as uploaded is in R2: confirmation looks, and the  *)
(* purge takes objects of deleted rows only.                               *)
LiveAssetHasObject ==
  \A k \in Keys : assets[k].status = "CONFIRMED" /\ assets[k].gone = "no" => k \in stored

(* A profile picture's path is written only while its object is there.     *)
ShownWasThere == [][shown' \ shown \subseteq stored]_stVars

(* A row taken by a job is still what the job looked for when it goes.     *)
JobsTakeDeadRows ==
  [][\A j \in Jobs, k \in Keys :
       JobAt(j, "remove") /\ JobAt(j, "release")' /\ assets[k] # NoAsset /\ assets'[k] = NoAsset
       => k \in IF j[2] = "pending" THEN Expired ELSE Purgeable]_stVars

(* For a day after its deletion an asset can be recovered: neither its row *)
(* nor its object goes.                                                    *)
GracePeriod ==
  [][\A k \in Keys :
       assets[k].status = "DELETED" /\ assets[k].gone = "recent" =>
         assets'[k] # NoAsset /\ (k \in stored => k \in stored')]_stVars

(* "URL generated, never uploaded": the hourly job takes no row of a key   *)
(* whose upload URL can still be used.                                     *)
CleanupSparesOpenUploads ==
  [][\A j \in Jobs, k \in Keys :
       /\ j[2] = "pending" /\ JobAt(j, "remove") /\ JobAt(j, "release")'
       /\ assets[k] # NoAsset /\ assets'[k] = NoAsset
       => \A r \in Reqs : ~(grant[r].key = k /\ grant[r].kind = "put")]_stVars
=============================================================================
