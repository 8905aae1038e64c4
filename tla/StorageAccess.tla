--------------------------- MODULE StorageAccess ---------------------------
(***************************************************************************)
(* The two read-through caches between a client and a file: whether the    *)
(* user is a member of the file's organization (StorageMembershipService), *)
(* and the signed download URL of a key (StoragePresignedService); and the *)
(* requests about the asset's row (StorageAssetService) that come before.  *)
(*                                                                         *)
(* A tick of the clock is half a minute.  A frame's arg counts the ticks   *)
(* its present call has taken, seen is the URL it has signed.  A call that *)
(* fails where the code goes on without Redis has that outcome as well.    *)
(* A request by the asset's id notes in on whether the caller was a member. *)
(***************************************************************************)
EXTENDS Desk, Naturals

CONSTANTS
  Users,        \* users who ask for the file
  Lag           \* ticks a call to Redis, Prisma or R2 may take

ASSUME LagAssumption == Lag \in Nat

(* Operations that name the asset by its id. *)
ByIdOps   == {"downloadAsset", "downloadSensitive", "updateMetadata"}
AccessOps == {"check", "download", "deleteObject"} \cup ByIdOps

MembershipTtl == 10     \* MEMBERSHIP_CACHE_TTL_SECONDS
UrlLife       == 10     \* DOWNLOAD_EXPIRY_SECONDS
UrlTtl        == 8      \* DOWNLOAD_CACHE_TTL
SensitiveLife == 2      \* SENSITIVE_DOWNLOAD_EXPIRY_SECONDS

VARIABLES
  member,       \* the users with a row in organization_members
  steady,       \* steady[u]: ticks since that last changed
  answers,      \* Redis: storage:membership:u:org
  setting,      \* SETs of answers that nobody awaits
  url,          \* Redis: storage:download-url:key
  uploader,     \* uploadedById of the asset; Null: nobody of Users
  isPublic,     \* the asset is public (a CDN is configured)
  cleared       \* whether the URL has been invalidated

redis      == <<answers, setting, url>>
access     == <<member, steady, redis, uploader, isPublic, cleared>>
accessVars == <<desk, access>>

(* steady is counted up to where it can make no difference. *)
Longest == MembershipTtl + Lag

Url       == [age : 0..(UrlTtl + 2 * Lag), cleared : BOOLEAN]
Answer    == [is : BOOLEAN, left : 1..MembershipTtl]
CachedUrl == [signed : Url, left : 1..UrlTtl]

AccessInit ==
  /\ DeskInit
  /\ member \in SUBSET Users
  /\ steady = [u \in Users |-> Longest]
  /\ answers = [u \in Users |-> Null]
  /\ setting = {}
  /\ url = Null
  /\ uploader \in Users \cup {Null}
  /\ isPublic \in BOOLEAN
  /\ cleared = FALSE

-----------------------------------------------------------------------------
Go(s, pc, seen) == Proceed(s, [frame[s] EXCEPT !.pc = pc, !.arg = 0, !.seen = seen])

Refused(s) == Finish(s, [type |-> "refused", who |-> frame[s].who])
Served(s, u, life) ==
  Finish(s, [type |-> "url", signed |-> u, life |-> life, cached |-> AtStep(s, "lookup")])

(* What calls assertMembership, or names the asset by its id, and the purge *)
(* job's deleteObject.                                                      *)
AccessCall(s) ==
  LET start(op, pc, u) == Open(s, [Idle EXCEPT !.pc = pc, !.op = op, !.who = u, !.arg = 0])
  IN
  /\ UNCHANGED access
  /\ \/ \E u \in Users :
          \/ \E op \in {"check", "download"} : start(op, "cached", u)
          \/ \E op \in ByIdOps : start(op, "orgs", u)
     \/ start("deleteObject", "delete", Null)

(* The caller's memberships, read from the table. *)
ListOrgs(s) ==
  LET f == frame[s] IN
  /\ AtStep(s, "orgs")
  /\ UNCHANGED access
  /\ Proceed(s, [f EXCEPT !.pc = "access", !.arg = 0, !.on = f.who \in member])

(* assertCanDownload, then generateDownloadUrl's own check of the key; and  *)
(* the check of updateMetadata.  The asset may be deleted.                  *)
AssertAccess(s) ==
  LET f       == frame[s]
      reads   == f.op # "updateMetadata"
      allowed == (reads /\ isPublic) \/ f.who = uploader \/ f.on
  IN
  /\ AtStep(s, "access")
  /\ UNCHANGED access
  /\ \/ allowed /\ Go(s, IF reads THEN "cached" ELSE "edit", Null)
     \/ Throw(s)

UpdateMetadata(s) ==
  /\ AtStep(s, "edit")
  /\ isPublic' \in BOOLEAN
  /\ UNCHANGED <<member, steady, redis, uploader, cleared>>
  /\ Finish(s, Null)

Admitted(s) ==
  IF frame[s].op = "check" THEN Finish(s, Null) ELSE Go(s, "asset", Null)

(* What if a hit renewed the entry? *)
ReadAnswerRenewing(s) ==
  LET u == frame[s].who IN
  /\ AtStep(s, "cached") /\ answers[u] # Null
  /\ answers' = [answers EXCEPT ![u].left = MembershipTtl]
  /\ UNCHANGED <<member, steady, setting, url, uploader, isPublic, cleared>>
  /\ IF answers[u].is THEN Admitted(s) ELSE Refused(s)

(* assertMembership: a hit decides, whatever the table says by now. *)
ReadAnswer(s) ==
  LET u == frame[s].who IN
  /\ AtStep(s, "cached") /\ answers[u] # Null
  /\ UNCHANGED access
  /\ IF answers[u].is THEN Admitted(s) ELSE Refused(s)

(* A miss, or Redis is down. *)
MissAnswer(s) ==
  /\ AtStep(s, "cached")
  /\ UNCHANGED access
  /\ Go(s, "db", Null)

(* findUnique of the membership; the SET is started and not awaited. *)
AskTable(s) ==
  LET u == frame[s].who IN
  /\ AtStep(s, "db")
  /\ setting' = setting \cup {[who |-> u, is |-> u \in member, waited |-> 0]}
  /\ UNCHANGED <<member, steady, answers, url, uploader, isPublic, cleared>>
  /\ IF u \in member THEN Admitted(s) ELSE Refused(s)

SetLands ==
  \E w \in setting :
    /\ setting' = setting \ {w}
    /\ \/ answers' = [answers EXCEPT ![w.who] = [is |-> w.is, left |-> MembershipTtl]]
       \/ UNCHANGED answers
    /\ said' = Null
    /\ UNCHANGED <<frame, ops, calm, member, steady, url, uploader, isPublic, cleared>>

(* tryGetPublicCdnUrl. *)
FindAsset(s) ==
  /\ AtStep(s, "asset")
  /\ UNCHANGED access
  /\ IF isPublic THEN Finish(s, [type |-> "cdn"])
     ELSE Go(s, IF frame[s].op = "downloadSensitive" THEN "sign" ELSE "lookup", Null)

LookupUrl(s) ==
  /\ AtStep(s, "lookup")
  /\ UNCHANGED access
  /\ \/ url # Null /\ Served(s, url.signed, UrlLife)
     \/ Go(s, "sign", Null)     \* a miss, or Redis is down

SignUrl(s) ==
  LET signed == [age |-> 0, cleared |-> cleared] IN
  /\ AtStep(s, "sign")
  /\ UNCHANGED access
  /\ IF frame[s].op = "downloadSensitive" THEN Served(s, signed, SensitiveLife)
     ELSE Go(s, "store", signed)

(* What if the entry lived as long as its URL? *)
StoreUrlForItsLife(s) ==
  LET f == frame[s] IN
  /\ AtStep(s, "store")
  /\ url' = [signed |-> f.seen, left |-> UrlLife]
  /\ UNCHANGED <<member, steady, answers, setting, uploader, isPublic, cleared>>
  /\ Served(s, f.seen, UrlLife)

StoreUrl(s) ==
  LET f == frame[s] IN
  /\ AtStep(s, "store")
  /\ \/ url' = [signed |-> f.seen, left |-> UrlTtl]
     \/ UNCHANGED url           \* Redis is down
  /\ UNCHANGED <<member, steady, answers, setting, uploader, isPublic, cleared>>
  /\ Served(s, f.seen, UrlLife)

(* deleteObject removes the object from R2 and then invalidates its URL. *)
DeleteFromBucket(s) ==
  /\ AtStep(s, "delete")
  /\ UNCHANGED access
  /\ Go(s, "invalidate", Null)

InvalidateDownloadCache(s) ==
  /\ AtStep(s, "invalidate")
  /\ \/ url' = Null /\ cleared' = TRUE
     \/ UNCHANGED <<url, cleared>>
  /\ UNCHANGED <<member, steady, answers, setting, uploader, isPublic>>
  /\ Finish(s, Null)

(* OrganizationsService and InvitationsService let people in and out; here  *)
(* only in behaviours in which other handlers check memberships too.        *)
MemberChanges ==
  /\ "check" \in ops
  /\ \E u \in Users :
       /\ member' = IF u \in member THEN member \ {u} ELSE member \cup {u}
       /\ steady' = [steady EXCEPT ![u] = 0]
  /\ said' = Null
  /\ UNCHANGED <<frame, ops, calm, redis, uploader, isPublic, cleared>>

Older(w)     == [w EXCEPT !.age = @ + 1]
Shorter(e)   == IF e = Null THEN Null ELSE IF e.left = 1 THEN Null ELSE [e EXCEPT !.left = @ - 1]
LaterFrame(f) ==
  IF f.pc = "idle" THEN f
  ELSE [f EXCEPT !.arg = @ + 1, !.seen = IF @ = Null THEN Null ELSE Older(@)]

(* Half a minute passes, if no call has taken longer than it may.  Redis    *)
(* drops what has expired.                                                  *)
HalfMinute ==
  /\ ops \cap AccessOps # {}
  /\ \A s \in Slots : ~AtStep(s, "idle") => frame[s].arg < Lag
  /\ \A w \in setting : w.waited < Lag
  /\ frame' = [s \in Slots |-> LaterFrame(frame[s])]
  /\ setting' = {[w EXCEPT !.waited = @ + 1] : w \in setting}
  /\ answers' = [u \in Users |-> Shorter(answers[u])]
  /\ url' = LET e == Shorter(url) IN
            IF e = Null THEN Null ELSE [e EXCEPT !.signed = Older(@)]
  /\ steady' = [u \in Users |-> IF steady[u] < Longest THEN steady[u] + 1 ELSE Longest]
  /\ said' = Null
  /\ UNCHANGED <<ops, calm, member, uploader, isPublic, cleared>>

AccessHandler(s) ==
  /\ frame[s].op \in AccessOps
  /\ \/ ListOrgs(s) \/ AssertAccess(s) \/ UpdateMetadata(s)
     \/ ReadAnswer(s) \/ MissAnswer(s) \/ AskTable(s)
     \/ FindAsset(s) \/ LookupUrl(s) \/ SignUrl(s) \/ StoreUrl(s)
     \/ DeleteFromBucket(s) \/ InvalidateDownloadCache(s)

AccessFail(s) == frame[s].op \in AccessOps /\ Fail(s) /\ UNCHANGED access

AccessNext ==
  \/ SetLands \/ MemberChanges \/ HalfMinute
  \/ \E s \in Slots : AccessCall(s) \/ AccessHandler(s) \/ AccessFail(s)

-----------------------------------------------------------------------------
AccessTypeOK ==
  /\ member \subseteq Users
  /\ steady \in [Users -> 0..Longest]
  /\ answers \in [Users -> Answer \cup {Null}]
  /\ setting \subseteq [who : Users, is : BOOLEAN, waited : 0..Lag]
  /\ url \in CachedUrl \cup {Null}
  /\ uploader \in Users \cup {Null}
  /\ {isPublic, cleared} \subseteq BOOLEAN

(* A user is let through, or refused, as the membership table says; or      *)
(* their membership changed less than the lifetime of an answer and one     *)
(* call ago.                                                                *)
AnswersAreRecent ==
  [][\A u \in Users :
       LET decided(s) == frame[s].who = u /\ frame[s].pc \in {"cached", "db"} IN
       /\ (\E s \in Slots : decided(s) /\ frame'[s].pc = "asset") =>
            u \in member \/ steady[u] < MembershipTtl + Lag
       /\ said' # Null /\ said'.type = "refused" /\ said'.who = u =>
            u \notin member \/ steady[u] < MembershipTtl + Lag]_accessVars

(* A URL that is handed out still works: its signature has not expired, nor *)
(* does the lookup in a cache bring back one that was invalidated, unless   *)
(* it was being signed at the time.                                         *)
ServedUrlWorks ==
  [][said' # Null /\ said'.type = "url" =>
       /\ said'.signed.age < said'.life
       /\ calm /\ said'.cached => said'.signed.cleared = cleared]_accessVars
=============================================================================
