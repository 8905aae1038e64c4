# RegieArt API: a TLA+ model

This directory holds TLA+ modules that model the API of RegieArt
(`src/apps/api`, NestJS over Prisma/PostgreSQL, Redis, Keycloak and Cloudflare
R2), the TLC configurations that check them on small instances, and proofs that
TLAPS checks for instances of any size.  `PROJECT.json` lists the runs, what
each definition translates (file and lines), the mutations of the code each
property is known to detect, the hazards found while reading, the findings and
the theorems.

## 1. The system

The API is a set of stateless Node processes.  Everything that lasts is in
PostgreSQL (`src/packages/database/prisma/schema.prisma`), in R2 (files), in
Keycloak (accounts) and in Redis (caches and two locks).  A request is an async
handler: it runs to its next `await`, and any number of other handlers, in this
process or in another, run before it goes on.  Almost every handler has the
shape *read, check, write* with each part a separate call, very few calls are
grouped in `$transaction`, and writes address a row by the id or token that was
read before.  Nothing locks a row or checks a version.  That is where this code
is hard, so the modules model handlers call by call.

| Component | State it keeps | Operations that change it | Hard behaviour | What makes it correct |
|---|---|---|---|---|
| Organizations (`organizations.service.ts`) | organizations, organization_members, invite_links | create, update, remove, updateMemberRole, removeMember, createInviteLink, revokeInviteLink, joinByToken | checks separated from writes; writes by row id; last owner; one-time links | writes reach the membership they were meant for; no way in but a link that is used up; an owner remains; authority still holds at the write |
| Invitations (`invitations.service.ts`) | invitations (+ members, users) | send, the three lazy expirations, accept, reject, revoke | answer racing a revocation or an expiry; duplicate check | an invitation leaves PENDING once; only its addressee joins, with its role; one pending per address |
| Onboarding (both of the above) | organization_members | join by link and by invitation, removal meanwhile | two services over one unique key | exactly one door opens per membership and nothing is spent for nothing |
| Storage (`storage/services/*`) | assets, R2 objects, users.avatarUrl/bannerUrl, two Redis locks | upload URL, confirm, soft delete, multipart initiate/complete/abort, two cron jobs on every instance | jobs on several instances, crash with the lock held, client uploads behind the API's back, reuse of keys | one run of a job at a time; jobs take only what they should; the table agrees with R2; what is abandoned is collected |
| Storage access (`storage-membership`, `storage-presigned`, `storage-asset`) | Redis: membership answers (5 min), download URLs (4 min) | read-through, invalidation, updateMetadata | a SET nobody awaits, stale entries, write after invalidation | answers are recent; a served URL still works |
| Inventory (`inventory.service.ts`) | instruments, assignments | create, update, retire, assign, return | two assignments at once; return after retirement; an update that writes the status | a return closes an assignment of its own instrument; only an update makes an instrument's row disagree with its assignments; taking turns, lent only while kept and free to be lent |
| Finance (`finance.service.ts`) | finance_entries, categories, per diems | create, update, approve, reject, delete, categories, per diems, the report | decisions repeated, reversed or racing an edit; categories deleted under entries | the notice says what the ledger holds; totals and lines of the report agree |
| Events, roster, daysheet (`events.service.ts`, `daysheet/services/*`) | events, event_roster, schedule items, vehicles, passengers, pickups, event_finance | CRUD, roster answers, toggleComplete | a member or an event goes between check and write; read-negate-write; writes by id | a write reaches the row it was decided about; taking turns, reads still hold at the write |
| Messages, notifications | messages, notifications | send, getConversationWith (marks read), markRead, mark all, remove | reads racing arrivals; `fire` is never awaited | nothing turns read but for its addressee |
| Accounts (`auth.service.ts`, Keycloak) | the realm | register, login, refresh | Keycloak acts and its answer is lost; two registrations | one welcome per address; what a client is told is true |
| Songs, skills, venues | songs, skill_categories, user_skills, venues | CRUD | category deleted while a skill is claimed; removal by row id | a skill goes only when its owner says so |
| Geo (`geo.service.ts`) | Redis geocode cache, time of the last Nominatim call | geocode, autocomplete | the wait reads a time that is set after the answer | calls to Nominatim are a second apart |
| Weather (`weather.service.ts`) | Redis forecasts, current and daily weather | read-through from four callers | lifetime depends on the distance to the event; two events of a day share an entry | nothing served is older than its lifetime; a promised forecast comes |
| Convoy, users' profiles, health, CDN URLs, sanitising, Redis and Prisma clients | - | - | little | section 7 |

Interaction: controllers call their service after the JWT guard has upserted
the caller's `users` row; services share tables rather than call each other
(Organizations and Invitations both write `organization_members`; Storage,
Events, Inventory and Finance read it); notifications are handed over with
`fire`/`fireBulk` and never awaited; cron jobs run inside every API process.

## 2. The modules

| Module | What it is |
|---|---|
| `Memberships` | The two shared tables, their queries and the writes by primary key. No actions. |
| `Organizations` | `OrganizationsService`, one action per database call of each handler, its invariant and its properties. |
| `Invitations` | `InvitationsService`, in the same way, with the guard's upsert of the caller. |
| `InvitationLifecycle` | Abstract specification: what an invitation promises, without requests or calls. |
| `InvitationRefinement` | The mapping from `Invitations` to it. |
| `Onboarding` | Both services over one pair of tables, by `INSTANCE`. |
| `Storage` | Uploads, assets and the two cleanup jobs with their Redis locks, several instances. |
| `Desk` | What the following modules share: request frames, what is fired or answered, `calm`. |
| `Inventory`, `Lending` | `InventoryService`, and the abstract specification of a lending desk it implements when requests take turns. |
| `Finance`, `Agenda`, `Messages`, `Accounts`, `Repertoire` | `FinanceService`; `EventsService` and the daysheet services; `MessagesService` with the inbox of notifications; `AuthService` with Keycloak; songs, skills and venues. |
| `Workflows` | The six of them over one desk. |
| `StorageAccess`, `Geo`, `Weather` | The two read-through caches of Storage; geocoding and the wait before Nominatim; the forecasts. |
| `Caches` | The three of them over one desk. |
| `MC...` | Instances for TLC (symmetry, sets of operations). |
| `OrganizationsProofs`, `InvitationsProofs`, `OnboardingProofs`, `StorageProofs`, `CachesProofs` | Theorems about these modules and their proofs. |
| `InventoryProofs`, `AgendaProofs`, `WorkflowsProofs` | Lemmas about frames on a desk and about `Inventory`; about `Agenda`; and the theorems about `Workflows`, with the chapters on its other services. |

How state corresponds to code.  A table is a function from identifiers to rows
(records with the columns something tests).  A request `r` has a frame
(`req[r]`, `ireq[r]`, `sreq[r]`): `pc` is the call it makes next, the rest are
its parameters and the locals it keeps across an `await`.  A step is one awaited
call and the code up to the next one; a thrown exception ends the request; a
`$transaction` is one step.  Reads whose result nothing that changes could have
altered (a name, an e-mail) are not steps.  A call may reject, or the process
die, between any two steps (`Abort`, `InvAbort`, `StAbort`); where the code
catches the error and goes on, the step itself has that outcome (`HandOut`,
`AbortSend`, `ConfirmProfile`, `DeleteObject`, `JobFails`).

*Identifiers.*  A row inserted in a behaviour is named by the request that
inserted it, which is as unique as a cuid.  This is what lets the properties
say "this very row" and not "a row with that key".

*Clients.*  They send any parameters the routes accept, about anything that
exists; ids of rows are ids the API has shown for that organization or asset.
`updateMemberRole` looks up the caller's role in the organization of the URL and
updates a row by its id: clients may name any membership row, of that
organization or of another.  The body of an instrument's update is written as it
comes: `UpdateInstrument` sets `status` and `isActive` to anything.

*Desk.*  The frames of the modules over `Desk` are slots: `frame[s]` has the
call it makes next (`pc`), its parameters (`on`, `who`, `arg`) and what it has
read (`seen`), and a slot that is done takes another request, so behaviours go
on for ever.  `said` is the notice or answer of the last step.  `requireMembership`
and `requireAdminOrOwner` may answer either way at any time, because other
services own that table (`Authority`); where the handler depends on more than
the answer, as for the target of a roster entry, the memberships are a variable.
In `Fail` a call rejects or the process dies.  A behaviour is about one set of
operations (`ops`) and either lets requests overlap or has them take turns
(`calm`): what is claimed only of requests that take turns says so with `calm =>`.

*Time* is kept as what the code compares: a date in the past or not, a row
older than 24 hours or not, a `deletedAt` recent or a day ago.  It may pass at
any step.  Lifetimes that are compared with each other are counted instead: half
minutes in `StorageAccess`, tenths of a second in `Geo`, half hours and ten
minutes in `Weather`; a tick passes only when no call has taken longer than the
module allows (`Lag`).

*Storage locks.*  Both locks are `SET key "1" NX EX ttl`, and `finally`
deletes the key without looking at it.  `lock[kind]` records which run set the
key, which the code does not know; no action reads that except through the
constant `Timely`.  With `Timely = TRUE` a key does not expire while the run
that set it goes on, as the comment on the TTLs demands ("Must be longer than
the maximum expected execution time of the job").  Without it nothing keeps two
runs apart.

## 3. The runs

All invariants and properties are commented where they are defined.  A run
checks its configuration exhaustively.

| Run | Question | Bounds |
|---|---|---|
| `OrgConcurrent` | What holds however the handlers about memberships and links interleave, and those that create organizations: the inductive invariant `OrgInv`; deletes and updates by a row id read earlier hit the row they were meant for; nobody joins without a link consumed in the same step | 3 requests, 2 users, 1 organization and those they create, 1 link, roles OWNER and ADMIN |
| `OrgExclusive` | What the checks before the writes promise when requests about one organization do not overlap | 3 requests, all operations, 3 roles |
| `InvConcurrent` | What holds of views, answers and revocations however they interleave | 3 requests, 2 users, 1 invitation |
| `InvExclusive` | The service implements `InvitationLifecycle`, when requests about one address do not overlap | 2 requests and a seed invitation, all operations |
| `Onboarding` | Both doors and a removal at once | 3 requests |
| `StorageJobs` | Mutual exclusion of the jobs, what they may take, and that they do collect | 2 requests, 2 instances, 1 key, 1 fault |
| `StorageSerial` | The table, R2 and the jobs agree when they do not overlap | 3 requests, 2 keys, batches of 1 |
| `Workflows` | What holds of the rows of inventory, ledger, agenda, inbox, realm and repertoire however two handlers overlap and fail, and what needs them to take turns; only an update makes the row of an instrument disagree with its assignments, and taking turns Inventory implements `Lending` | 2 slots, requests for ever; 16 sets of operations that touch the same rows; 1 instrument with 3 assignments, 2 entries (1 when they overlap), 2 roster and passenger rows, 2 messages in pages of 1, 2 claimed skills |
| `Caches` | What the caches may serve while what they were computed from changes and their clocks run | 2 slots, requests for ever; 7 sets of operations; 1 user, 1 address; `Lag` of 1 half minute; from 16 days before an event to a day after it, two events 10 hours apart |
| `OrgLastOwner`, `OrgLinkRace`, `StorageReupload` | The three findings of section 6; TLC finds a behaviour that breaks a statement of the repository | 2 requests, 3 for none |

*Why the bounds suffice.*  A handler keeps one row across calls and writes at
most two, so what an interleaving can do to it is done by the request that
removes or changes that row and the one that puts another in its place: three
requests.  Two users and one organization are enough for every test the code
makes on them (self or other, member or not, the only owner or not), and the
theorems of section 5 lift the organizations' main results to any number.  For
the jobs, two instances give contention for a lock, one fault gives each of a
crash with the lock held, a lost DEL, a lost SET and a failing query, and
`PurgeBatch = 1` with two keys makes the batch smaller than the work.  A
request is issued at most once, so behaviours are finite in requests; the jobs
repeat for ever.

In `Workflows` and `Caches` a finished slot is used again, so two slots give any
number of requests two at a time; a third in between is another request of the
second slot.  The counted rows bound how often a row may be put back in place of
one that went: `MaxLoans = 3` has two assignments of an instrument at once (of two
requests that overlap, or after an update) and one after their return (that a
return finds an assignment of its own instrument among several is for the
proof), `MaxRows = 2` and `MaxSkills = 2` a row and its successor, `MaxMessages = 2`
with `PageSize = 1` a conversation longer than a page.  `MaxEntries = 1` bounds
the ledger only while requests overlap; taking turns it has two entries, which
share a heading or not.  `FarAway = 769` half hours is a tick more than 16 days,
beyond the 14 days for which there is a forecast by more than the longest
lifetime of an entry; `LongAfter = 60` is past the day whose weather is history;
`AlertWindow = 144` is the 72 hours of the default.  The other bounds are the
code's own constants, in ticks.

*Exclusive, Serial.*  Many checks in this code are only as good as the time
between them and the write.  Runs with these constants `TRUE` ask what the
checks are worth by themselves (a mutant that drops one is caught); the same
properties without them fail, which the findings show.  They are assumptions
about clients, not claims about the code, and the races they exclude are listed
under "hazards", with a note.  A request takes turns with those of its `Scope`:
the organization of its URL, or of its link, and that of the membership row it
names, so a role change sent through another organization's URL takes turns with
the requests of both.

*Deadlock.*  Requests happen once in the first modules and counted rows run out
in the others, so a finished behaviour may have no step left:
`CHECK_DEADLOCK FALSE`.

*Fairness.*  A handler whose call has settled is resumed by the event loop
(`OrgFairness`, `InvFairness`: weak fairness of each handler; calls that never
settle are not modelled, Prisma and ioredis time out).  `StFairness`: the timers
of some instance keep firing (`@Cron`), a job that has started goes on, and a
Redis key with a TTL expires.  All three are weak and there is none on requests,
clients, or the passing of time.  Under it `EventuallyCollected` holds although
runs are skipped, fail, and crash with the lock held; without the TTL (mutant
`LockStays`) it does not.  The modules over `Desk` state safety only: their
handlers end because each is a fixed sequence of calls, and what they promise
later (a notification) the code itself does not promise.

## 4. What the properties say, briefly

* `RemovalHitsOnlyTarget`, `RoleChangeKeepsRow`: a write by id reaches the
  membership the request was about or none, even if that member left and came
  back meanwhile.
* `JoinersComeThroughLinks`, `OneDoorPerMember`, `NothingSpentForNothing`: the
  two transactions are all or nothing, also against each other.
* `UsedLinkAdmitsNobody`, `LeavingKeepsAnOwner`, `WriterIsAdmin`: the checks of
  `joinByToken`, `removeMember` and the `require...` helpers, at the time of
  the write.  The writer of a role change is an administrator of the organization
  its URL names, and nothing is said of the row's; every other change of an
  organization, its links or somebody else's membership is an administrator's of
  that organization.
* `AcceptanceJoinsAddressee`, `MembersWereInvited`, `ExpiredMeansPast`: what
  survives any interleaving of an invitation's handlers.  `TerminalIsFinal`,
  `OnePendingPerAddress` and `ImplementsLifecycle` need them not to overlap.
* `OneJobPerLock`, `JobsTakeOnlyOldRows`, `EventuallyCollected`: the cron jobs.
* `LiveAssetHasObject`, `ShownWasThere`, `JobsTakeDeadRows`, `GracePeriod`:
  agreement of the table, R2 and the profile pictures.
* `OnlyUpdatesMislead`: the row of an instrument is right about its assignments
  (`Accounted`) until an update writes another status or brings it back.
  Assignments, returns and retirements never leave it IN_USE with nobody to
  return it, however they overlap; taking turns, they lend it to one and leave it
  not to be lent while it is lent.  `ImplementsLending`: taking turns and whatever
  updates write, an instrument is lent only while it is active and its status
  allows it, its status follows each loan and each return, and it is not lent
  again once it is inactive, although a retired one does come back.
* `NoticeMatchesLedger`, `ReportAddsUp`: what an author is told is approved is
  in the ledger and a deleted entry is never announced; the report's lines and
  its totals are the same money although categories of both types share names
  and are deleted under their entries.
* `RowWritesHitTheirRow`, `SkillsStayUntilRemoved`: a roster answer, a passenger
  removed, a skill withdrawn reach the row that was read, not the one put in its
  place meanwhile.  `WritesFollowReads`: taking turns, toggles toggle, and nobody
  joins a deleted event or one of an organization they have left.
* `ReadByItsAddressee`: opening a conversation marks no other conversation, and
  taking turns nothing the reader was not shown when a page holds it all.
* `OneWelcomePerAddress`: registrations that race, or whose answer is lost.
* `AnswersAreRecent`, `ServedUrlWorks`: what the caches of Storage let through.
* `NominatimSpaced`, `ServedWeatherIsFresh`, `PromisedForecastComes`: the wait,
  the lifetimes by distance, and "available from" for the last event of a day.
* `WorkflowsOK`, `CachesOK`: the type invariants, with the agreement of columns
  and rows that one handler writes together.

## 5. What is proved

`OrganizationsProofs` holds for every set of users, organizations, links,
requests, roles and operations that satisfies the named assumptions of
`Memberships` and `Organizations` (identifier spaces are disjoint, Null is no
identifier, OWNER and ADMIN are roles).

* `Invariance`: `OrgSpec => []OrgInv`.  The type invariant alone is not
  inductive.  `FramesOK` says what each frame holds at each `pc` (a join that
  has read its link still agrees with it); `ForeignKeys` that what frames and
  rows refer to exists; `IdsTaken` that an id a request will use for its insert
  is not in use and in no frame; `RowIdentity` that an id names one membership.
  From these two follows `RemovalTarget`: the id a removal holds is its
  target's, or nobody's any more, and no later insert can take it.
  `UniqueSlugs` is kept by the unique index at the insert, not by the lookup
  before it.  There is
  one lemma per action; `FrameStep` and `TableStep` carry the cases where only
  a frame, or only the tables, change.
* `TypeCorrect`, `RemovalsHitTheirTarget`, `RoleChangesHitTheirRow`,
  `LinksAdmitJoiners`: the type invariant and the three action properties of
  `OrgConcurrent`, from `OrgInv`.
* `ChecksHold` (`ASSUME Exclusive`, the hypothesis of the run `OrgExclusive`):
  `OrgSpec => [](OrgInv /\ AInv)`.  `AInv` says that the scopes of two requests
  in progress are disjoint, and `Verified` for each operation and `pc` what the
  handler has checked and is still so: the caller's role, the second owner, the
  open link.  A step reaches only rows and links of organizations in its own scope
  (`Reach`), a role change also those of its row's, so it leaves what others have
  checked alone.
* `UsedLinksAdmitNobody`, `LeaversKeepAnOwner`, `WritersAreAdmins`: the three
  properties of `OrgExclusive`, from it.  Without the hypothesis the first is
  refuted by the run `OrgLinkRace`.

`StorageProofs` holds for any number of keys, requests and API instances, any
batch size and any number of faults, with and without `Timely` and `Serial`
(assumptions: `StorageAssumption`, the identifier spaces are disjoint, and
`JobAssumption`, Null is no job).

* `StInvariance`: `StSpec => []StInv`.  To see that a job's delete by id hits
  what its query found one needs that an id on a list belongs to no request
  that is still to insert its row (`IdsAreInserted`) and names one row
  (`RowIdentity`); then whatever has that id later is the row the job saw, and
  it was old (`ListsAreOld`, and `GoneIsOld` for the purge's query).
  `HolderSetTheKey` says that the lock's key is the running job's own: that is
  why `release`, which deletes the key unseen, deletes no other run's.
  `RequestStep` and `JobMoves` carry the invariant over any step of a request
  or a job of a given shape; the lemmas after them show that each action has it.
* `StTypeCorrect`, `OneRunPerLock`, `OnlyOldRowsTaken`: the type invariant,
  `OneJobPerLock` and `JobsTakeOnlyOldRows` of `StorageJobs`.
* `ChecksHold` (`ASSUME Serial`, the hypothesis of the run `StorageSerial`):
  `StSpec => [](StInv /\ SInv)`.  `LiveAssetHasObject` alone is not inductive:
  `Alone` says that work on a key takes turns, `Checked` what a handler's frame
  has found of its key and is still so (the object a confirmation saw is there,
  the row it will write is one it may write), and `ListsAreDead` that a row on
  a job's list is what the job's query asked for.  Each action is shown to be a
  step of one frame that touches only its own key (`OwnStep`).
* `UploadedIsStored`, `PicturesWereThere`, `RunsTakeTheDead`,
  `DeletedIsRecoverable`: the four properties of `StorageSerial`, from it.

`CachesProofs` is about `Caches!Spec`, for any number of users, addresses,
handlers and events of a day, any bound `Lag` on the length of a call and any
length of a behaviour (assumptions: the bounds are numbers, an event of the day
starts within a day of the last, and `GroupsAssumption`: a behaviour's clients
are those of one service, because the services count time in different ticks).
`MCCaches` starts in some of the initial states of `Spec`, so the run `Caches`
checks instances of these theorems.

* `CachesInvariance` is a case for each service, with an account of its time
  that is the real content; the other services' tables stand as they began.
* *StorageAccess.*  Wherever a membership answer is (in Redis, on its way there,
  or in a frame), it is right or the membership has changed more recently than
  the answer was asked for; and a URL is no older than its entry has lived plus
  what its calls took.  `MembershipsAreRecent`: `AnswersAreRecent` for every
  `Lag`.  `UrlsWork`: `ServedUrlWorks` if `Lag <= 2`, that is if no call takes
  more than a minute: then the 240 s of an entry and the calls around it fit in
  the 300 s of a signature.
* *Geo.*  `GapKept`: with callers that take turns the time a handler still waits
  and the time since the last call add up to the whole gap, and the last request
  was sent no later than it was answered, unless somebody waits for the answer.
  A request is sent when the wait is over, hence `RequestsAreSpaced`.
* *Weather.*  `LifeKept`: the age and the time left of a cached forecast add up
  to the lifetime of the distance at which it was asked for (`AskedAt`).
  `DistanceStands` is needed to establish it: the distance computed before the
  call to WeatherAPI is still right after it, because no half hour passes while a
  request is in progress, which is an abstraction of the model.  With the
  rounding of `Math.floor` (`WholeDays`) and a case for each of the five
  lifetimes (`CachedForecast`), `ForecastsAreFresh` and `ThePromiseIsKept` follow.
* `CachesConsistent`: `CachesOK`.

`InvitationsProofs` holds for any number of users, organizations, invitations
and overlapping requests, with and without `Exclusive` (the assumptions of
`Memberships` and `Invitations`).

* `Invariance`: the type invariant is not inductive, because an acceptance
  inserts a member from what it read some calls earlier.  `Kept` says, for each
  `pc`, what a frame has read of a row and that it is still so; it stays so
  because a row never changes its organization, address or role, and a row past
  its date stays past it (`Grows`).  `Spent` says that the id a request will
  insert names no invitation before its insert, so that an insert is no change
  of a row others have read.
* `TargetsAreAddressees`, `OnlyThePastExpires`, `AddresseesJoin`,
  `OnlyInvitedJoin`: the four properties of `InvConcurrent`, from it.
* `ChecksHold` (`ASSUME InvExclusive`): `InvSpec => [](IInv /\ XInv)`.  `XInv`
  says that requests in progress are about different addresses, that a row a
  handler has found pending still is and an address it has found free still is
  (`Fresh`), and `OnePendingPerAddress`, which needs the two others to be
  inductive.
* `OneInvitationPerAddress`, `AnswersAreFinal`: the properties of
  `InvExclusive` that follow at once.
* `RefinesLifecycle`: `InvSpec => ImplementsLifecycle`, the refinement of
  `InvitationLifecycle`.  `StepEffect` says of every step that it leaves the
  invitations and memberships alone, lets a date pass, or does to them what one
  request does: add a pending row, accept one with its membership, or close
  some.  The first two map to a stutter, the others to `Send`, `Accept` and
  `Close`.

`OnboardingProofs` is about `Onboarding!Spec`, for any number of users,
organizations, links, invitations and overlapping requests of either service
(the assumptions of `Memberships`, and `SeedsAssumption`: the rows a behaviour
starts with are no request's, and clients call what the controllers offer;
`MCOnboarding` starts in some of the initial states of `Spec`).

* Neither service's own invariant holds here as it stands: `IdsTaken` of
  `OrganizationsProofs` says that a membership with a request's id was inserted
  by a request of that service.  `DoorInv` is what is needed of both.  `LinkSide`
  and `LetterSide` say, of each service's tables and frames, that the
  organization, the link or the invitation a request is about is there, that
  a join or an acceptance at its transaction agrees with it on organization, role
  and addressee, and that an id still to be inserted is in use nowhere.
  `MembersOK` says that a membership has an id.
* A service keeps its own side because links and invitations keep their
  organization, role and address (`LinksGrow`, `LettersGrow`), and the other's
  because it writes none of its tables and organizations are never unmade
  (`OrgsStay`).
* `DoorStep` then tells two kinds of steps apart: a transaction of
  `JoinTransaction` or `AcceptTransaction`, which inserts one membership and
  spends one link or invitation (`ByLink`, `ByLetter`), and all others, which
  make nobody a member of an organization that exists and spend nothing.  A role
  change creates no membership because the id it writes to is never Null, nor
  does `create`, because the organization it fills did not exist.  `TwoDoors` and
  `NothingIsWasted` follow, and `AddresseesJoin`: `AcceptanceJoinsAddressee`,
  proved of `Invitations` alone, also holds with links letting users in.
  (`JoinersComeThroughLinks` and `MembersWereInvited`, each of one service, do
  not survive the composition; `TwoDoors` is what they become.)
* `removeMember` and `updateMemberRole` address a row by id only, and now another
  service inserts rows too.  `RowsInv` says that a request is one service's
  (`OneService`), that an id in the table or kept in a frame is one whose insert
  is over (`IdsPast`), that it names one membership (`OneRowPerId`) and that a
  removal's names its target's (`HeldIsTarget`).  It is inductive because a new
  row's id is that of a request not past its insert before the step
  (`InsertsNow`), so no frame can hold it yet (`RowsStep`).  With it
  `RemovalsHitThroughBothDoors` and `RolesHitThroughBothDoors` prove
  `RemovalHitsOnlyTarget` and `RoleChangeKeepsRow` of the composition: a member
  who leaves and returns through either door between a removal's read and its
  delete is not removed by it.

`WorkflowsProofs` is about the six services over one desk, `Workflows!Spec`, for
any number of rows, users, handlers and groups of operations (assumptions: the
bounds are numbers, and Null is no row; `MCWorkflows` starts in some of the
initial states of `Spec`, so the run `Workflows` checks instances of these
theorems).

* The argument is modular.  The first chapter of `InventoryProofs` says what a
  step does to the frames: it is a `Turn` of one handler, which leaves the other frames alone, and in a calm
  behaviour no other handler is in progress then (`DeskInv`).  Each service has
  an invariant of its tables and of the frames with one of its operations, and
  three lemmas: its own steps keep it and are turns (`...Step`), a turn of
  another service keeps it (`...Others`), and so does a step of no handler
  (`...Still`).  `WorkInvariance` puts them together: the services write
  different tables, and no operation belongs to two of them (`OwnOps`).
* A service's invariant says two things of a frame: what is so whatever overlaps
  (`InvtFirm`, `FinFirm`, `AgFirm`, ...) and what a handler has read and is still
  so when requests take turns (`InvtFresh`, `FinFresh`, `AgFresh`, ...).
* *Inventory.*  A return closes the assignment its frame holds and makes the
  frame's instrument AVAILABLE, so the two must be about one instrument
  (`FoundIsItsOwn`); a found assignment keeps its instrument because assignments
  are only ever added and closed.  `InventoryHolds` is that, needs no turns, and is
  part of `WorkflowsOK`.  `OnlyUpdatesBelie` looks at each write in turn
  (`AccountStep`): what may become of an instrument that was accounted for.  For the part about turns, and for
  `RefinesLending`, `InvtFresh` adds that the row a handler has read, and the
  assignment a return has found, are still so at its write.
* *Agenda* and *Repertoire.*  Rows are numbered as they are inserted, so no two
  have one number and a number is not used again.  A handler that has found the
  row it will write holds the number of its own person's (and vehicle's, or
  caller's) row, or nobody's.  `WritesReachTheirRow` and `SkillsStay` follow,
  one lemma per way a row may change; `ReadsHoldAtWrites` from `AgFresh`.
* *Accounts.*  Answers of Keycloak still to be passed on are true
  (`AnswersTrue`), and one of them at most says created, for an address nobody
  was welcomed for (`CreatedOnce`).  `WelcomedOnce` follows.
* *Finance* and *Messages.*  `AnnouncedIsApproved` and `OnlyAddresseesRead`; the
  first also needs that no other service announces an approval (`SaidBy`).
* *The report.*  `ReportBalances` is about `ReportAddsUp`, whose sums are folds
  over sets: what they return is an induction over data, and the library's
  induction theorems cannot be used.  Two things take their place.  A fold is a
  function on the subsets of its set, and a set it sums wrongly would have a
  smallest such subset, because strict inclusion of finite sets is well founded
  (`OneSum`, `SumIs`; `FS_StrictSubsetOrderingWellFounded` and `WFMin` name no
  operator).  And a sum is the number of units of money counted part by part
  (`Parts`, `PartsSum`), so that lines and totals, which part the approved
  entries differently, count one set of units (`LinesTotal`, `Totals`).  The
  ledger is finite because it begins empty and a step adds at most an entry
  (`LedgerIsFinite`).
* `ServicesConsistent`: the types and consistency of all the tables.

Only model-checked: `EventuallyCollected`, the one liveness property, because
fairness and ENABLED are outside the prover's reach.  Every other property of a
passing run is stated by a theorem.

## 6. Findings

Each is a `violation` run whose property states what the repository says.

1. `OrgLastOwner`: an administrator can remove the only owner.  Owners are
   counted only when a member removes themself.
2. `OrgLinkRace`: two joins that both read a link unused both succeed; the
   transaction does not look at `usedAt` again.  (Two owners leaving at once get
   past the owner count in the same way.)
3. `StorageReupload`: uploading again to a fixed key (avatar, banner, track,
   score) more than a day after its first upload makes a PENDING row that is
   already a day old; the hourly job deletes it while the client uploads, and
   the confirmation then finds no row.

Smaller divergences between text and code, met while reading and not given a
run: `storage.controller.ts:184` says deletion hard-deletes in R2 immediately
(it is the purge, a day later, that does); `storage-presigned.service.ts:143`
says confirmation creates a missing row (it does not);
`storage-asset.service.ts:111` says confirmation goes from PENDING to CONFIRMED
(it goes from any status, and confirming a deleted asset leaves a row with
`deletedAt` set that neither search nor the purge finds); the catch around
`deleteObject` in the purge cannot run, because `deleteObject` swallows errors,
so a failed R2 deletion leaves an object without a row.  A revocation that read
an invitation pending overwrites an acceptance, and the member stays; in the
other order an acceptance overwrites a revocation.  `updateMemberRole` asks for
the caller's role in the organization of the URL and updates the membership by its
id, so the two need not belong together, and the notice then carries the id of one
and is about the membership of the other.  The route of an instrument's update
declares its body as `Partial<CreateInstrumentDto>`, for which the validation pipe
keeps no list of columns, and the service writes what it is sent: `status` and
`isActive` can be set to anything, IN_USE with nobody having the instrument or
AVAILABLE while somebody has it.  A line of the finance report has the
type of the first entry of its name, although a name is unique only together
with a type.  `Docs/DATABASE_ARCHITECTURE.md:628` has the creator of an event
put on its roster (the code does not), and its lines 942, 1276 and 1384 describe
a retired instrument as inactive and RETIRED (returning it makes it AVAILABLE).
`geo.service.ts:27` says one request a second is enforced: that is so for one
process whose callers take turns and whose calls all answer; callers that
overlap wait for the same time, a rejected call leaves no time behind, and a
restart forgets it.  The lifetimes in the header of `weather.service.ts` hold
when an entry is made, not when it is served; once an earlier event of a day has
begun, a later one at the same place may be served the 24-hour entry made for
it, and "available from" is right only for the last event of the day.  An update
of a song that races its removal can leave a deleted song active.

## 7. What is not modelled

Responses, texts, e-mail and logging; DTO validation and other refusals before
the first change (they change nothing); pagination and searches, except the
page of a conversation, which decides what is shown before it is marked; key
sanitising and CDN URLs (string functions); what the JWT library checks;
`updateProfile`, which writes columns of the caller's own row that nothing
tests; health checks; the Redis and Prisma clients (their failures are steps of
the modules); migrations and the start script, which run before the API.

*Convoy.*  `calculateRoute` refuses a vehicle without an origin, and no route of
the API sets one, so what follows the refusal is never reached through the API.
Its cache is keyed by the waypoints while its value holds a departure time
computed from one event's start; that would become wrong as soon as an origin
could be set.  *Capacity.*  Nothing compares a vehicle's passengers with its
capacity, so there is no property to state.  *Weather.*  How a forecast is
turned into the severity and the words of an alert.  *Inventory.*  Writes nested in
the body of an instrument's update, and a body that sets its primary key.  *Geo.*  A
restart of the process.

## 8. Plan

What is left, in order of importance.

1. *Arithmetic*: part sizes of multipart uploads against the limits, over
   bounded inputs.
2. *Convoy*, when a route of the API sets the origin of a vehicle.
