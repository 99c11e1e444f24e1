# Formal models of the GoverneAI backend

TLA+ models of `src/`, the multi-tenant backend of GoverneAI (NestJS, TypeORM,
Postgres), their model checking with TLC, and theorems about them checked by
TLAPS.

The backend is one Node process. It has no worker threads, so what interleaves
is what stands between two `await`s: every call to the database, to Mercado
Pago or to the mail server is a point where other requests run. With one
exception (`TenantsService.deleteModuleData`) nothing runs in a database
transaction. Two ways of writing a row coexist, and most of the hard behaviour
comes from their meeting:

* a query builder's `UPDATE ... SET ... WHERE ...` (or `repository.update`)
  writes the columns it names, and may carry a condition;
* `repository.save(entity)` writes every column in which the entity, as it was
  read some awaits ago, differs from the row, and inserts the row again when it
  is gone. Saving an entity that was read before other writes puts old values
  back.

The models keep both exactly: a read takes a copy of the row into the job's
state, and a save assigns that copy.

## 1. Inventory

| Component | State | Operations | What is hard | What makes it correct |
|---|---|---|---|---|
| Checkout and billing webhooks (`core/checkout`) | `checkout_sessions`, `subscription_payments`, resources and payments at Mercado Pago | create a session or an administrator's payment link, handle a notification (payment, merchant order, preapproval, authorized payment), adjust the price, invite | notifications come duplicated, reordered, concurrently or never; stale saves; no transaction between PAID and the subscriber; the webhook answers 200 at once | one subscriber and one invitation for a session, only after an approved and recorded payment; a paid session is served |
| Signup (`checkout-signup`, `signup-token`) | `signup_tokens`, `tenants`, `tenant_modules`, `users`, `subscribers.userId` | create the tenant, create the user | two requests with one link, a request that stops between two statements, two purchases by one address | a completed signup gives access; orphan tenants and stuck customers have a cause one can name |
| Subscriber life cycle (`core/subscribers`) | `subscribers` | create, link, extend, cancel, patch, remove, hourly sweep | the sweep, a charge and a cancellation save entities they found earlier | a paid period is not cut short; nobody has more than was paid for; what expired is deactivated |
| Leads (`core/leads`) | `leads`, `subscribers.leadId` | create, the bot's and the checkout's upsert by address, update, remove | two checkouts of one address; whole-row saves; addresses in other letters | one lead for an address, with its last plan, unless a cause one can name |
| Authentication and sessions (`core/auth`) | `users.active`, `password`, `sessionsValidAfter`, tokens held by clients | login, refresh, validate, profile, kick one, kick a tenant, kick all | whole-user saves undo a kick or a deactivation; seconds against milliseconds; refresh tokens are not rotated | a kicked session stays refused, a new one is accepted |
| Permissions (`core/permissions`, `shared/guards`) | `role_permissions`, `user_permission_overrides`, `tenant_modules`, two in-memory caches | effective permissions, replace defaults, replace overrides, toggle a module, the guards | a slow reader fills the cache after the edit cleared it; delete and insert are two statements | the cache agrees with the table once edits are over; what is denied is not granted |
| Tenants, modules and branding (`core/tenants`, `core/modules`, `tenant-branding`) | `tenants` with their images in a bucket, `users.tenantId` | update, texts and images, remove, move a user | each request saves the whole row with its list of users; the image and the row are two writes | the row is what the last request asked; the images it shows exist |
| Leaders and staff (`features/leaders`, `features/staff`) | `leaders`, `staff`, their `userId`, `users` | create with a login, grant, revoke, update, remove | two rows without a foreign key, by two statements | a login and its holder point to each other |
| Voter change requests (`features/voter-change-requests`) | request status, proposed changes, the voter, notifications | create, approve, reject, resubmit | check of PENDENTE, then awaits, then a save | one decision for each submission, applied once |
| Voters and geocoding (`features/voters`, `shared/geocoding`, `shared/leader-scope`) | `voters`, `leaders.votersCount`, the import's index, the geocoder's cache and clock | create, update, remove, import, geocode, pages, figures, map, export | an index of duplicates against batches of inserts; a counter recomputed by each request; a check, an await and a write; the rate limit | counters and answers of an import add up; the lists show what they should to whom they should; one request a second |
| Visits and agenda (`features/visits`, `features/appointments`) | `visits`, `appointments` | schedule, change status, remove, from both sides | two rows in two statements | a visit and its appointment keep in step |
| Help records and cabinet visits (`features/help-records`, `features/cabinet-visits`) | types, records, cabinet visits, visitors | create with its type, import, list, figures, dashboard | a type found by one and made by another; seven queries at once | types are single, figures are of the list |
| Chat (`features/chat`) | conversations, participants with unread counters, messages, presence, rooms | open, send, read, delete, members, connect, disconnect | counters and previews against concurrent sends; saves that cascade; the order of emissions | counters, previews and clients agree with the messages |
| WhatsApp over Evolution (`features/whatsapp`) | connection rows, the entry of each in the process (`instances`), Evolution's instances, messages, the media cache | connect, disconnect, restore, delete, default, send, revoke, react, flag, webhooks, lists and figures | webhooks come late, twice, out of order or never; a connect that crosses them; restart | the entry says what Evolution is; a message is stored once and says what was last told of it |
| Plans, election results, CEAP, reports, dashboard, AI, broadcasts, audit log, mail, storage, seeds, plain CRUD features | their tables | queries, parsing, appends | nothing that interleaves | - |

How they interact: the webhook calls the subscriber repository and the token
service; the signup calls the tenants and users services and links the
subscriber; every authenticated request asks whether some user of the tenant
has an active subscriber, and the permissions service for the effective
permissions; change requests call the voters, the notifications and the audit
log; a visit calls the appointments and a cabinet visit the help records; the
chat's gateway calls the chat's service and emits what it answers. Apart from
these calls, components meet only in the database rows they share:
`subscribers` is written by five of them, `users` by four.

`PROJECT.json` lists every component with its status, and every hazard with the
line at which it bites.

## 2. Modules

| Module | What it is |
|---|---|
| `Provisioning` | abstract: what the checkout promises about a session |
| `Checkout` | the checkout in detail: the rows, Mercado Pago, and the jobs with one step for each round trip |
| `CheckoutInvariant` | its inductive invariant, in named parts |
| `CheckoutProofs` | its theorems |
| `Signup`, `SignupInvariant`, `SignupProofs` | the signup, its inductive invariant, its theorems |
| `Subscription`, `SubscriptionInvariant`, `SubscriptionProofs` | the life of a subscriber row, its inductive invariant, its theorems |
| `ChangeRequests`, `ChangeRequestsInvariant`, `ChangeRequestsProofs` | the requests to change or remove a voter, their inductive invariant, their theorems |
| `Sessions` | who may use the back end: logins, tokens, kicks |
| `Permissions` | what a request may do: rows, cache, guards |
| `LeaderAccess` | the login of a leader or of staff |
| `TenantRow` | the row of a tenant, its images, its users |
| `Leads` | the leads of the sales funnel |
| `AccessProofs` | the theorems of these five, and of their composition |
| `WhatsappConnection` | connections: row, entry in the process, Evolution's instance |
| `WhatsappMessages` | the messages of one chat under requests and webhooks |
| `WhatsappFigures` | the list of chats and the figures of a panel, read in several queries |
| `WhatsappProofs` | the theorems of the connections, the messages, the media cache, the lists and the figures, and of their composition |
| `MediaCache` | the cache of media, by use, bytes and age |
| `Chat` | the rows of the internal chat |
| `ChatGateway` | the sockets of the chat |
| `Voters`, `VoterLists` | voters: counts, import and coordinates; lists and the leader's scope |
| `Geocoder` | the cache and the pause before Nominatim |
| `Visits` | visits with their appointments |
| `Rows` | what several of them do with rows: what is kept of a batch of which the database refused some, and sums, as the number of points under a function |
| `HelpRecords`, `CabinetDesk` | help records with their types and import; the cabinet's desk and dashboard |
| `VotersProofs` | the theorems of the voters, their lists, the geocoder and the help records |
| `OfficeProofs` | the theorems of the chat, its gateway, the visits and the cabinet's desk, and of the composition of all these |
| `MCCheckout`, `MCSignup`, `MCSubscription`, `MCChangeRequests` | constants and symmetry for TLC |
| `MCAccess`, `MCWhatsapp`, `MCOffice` | the same for several components that share no state: `part` is chosen at the start, and a behaviour is one of that part, with the variables of the others unchanged |

In all of them a *job* (`session`, `editor`, `linkJob`, `tenantJob`, `conjob`,
...) is one HTTP request or one webhook. Its `step` names the statement it runs
next, and its other fields are what it read or made so far. An action is what
runs between two awaits.

### Checkout

A *job* is one call of `CheckoutWebhookService.handle` or of
`cancelByContext`. Its field `at` names the call it makes next, `seen` what
Mercado Pago answered, `snap` the copy of the session row it read. The
handlers are chains of such steps:

* `payment`, `merchant_order`: `getPayment` -> `findByReference` -> by the
  status seen: `casPaid` (`markPreferencePaid`), `casFailed`
  (`markPreferenceFailed`) or `save`, which saves the whole entity;
* `preapproval`: `getPreapproval` -> `findByPreapproval` -> `save`;
* `authorized_payment`: `getAuthorized` -> `findByAuthorized` ->
  `recordCharge` -> the first charge (`casFirstCharge`), a renewal
  (`findSubscriber`, `extend`), or a rejection (`rejectFirst`);
* the winner of PENDING -> PAID goes on with `ensure`, `createSubscriber`,
  `findToken`, `generate`, `mail`, and on a preapproval `adjust`,
  `markAdjusted`;
* `cancelByContext`: `cancelPreapproval`, `refund`, `deactivate`,
  `saveCancelled`.

Mercado Pago and the customer are the environment: `StartPayment`,
`SettlePayment`, `MovePreapproval`. A notification may come at any time for any
payment that exists, so duplication, delay and reordering need no machinery of
their own, and loss is the notification that never comes. `JobFails`,
`CreationFails` and `Restart` are a call that throws at any step, and a process
that stops; `ensureSubscriber`, `sendHtml` and `adjustPreapprovalAmount`, which
catch for themselves, go on instead. A message that the mail server took
although the call timed out is counted as a failed one.

### Signup

A job is one request with a signup link. `validate` and `validateUser` read the
token; what follows uses that copy, as the code does. `createTenant`,
`coreModules`, `planModules` and `markTenant` are the statements of the first
page; `createUser`, `link` and `complete` those of the second. The slug may
turn out to be taken (the job ends), users may be created elsewhere with the
same address, an administrator may link the subscriber, and the subscriber may
be missing because `ensureSubscriber` failed. `lost` and `doubled` are history
variables: the tokens one of whose requests stopped half-way, and those for
which two requests created tenants at the same time.

### Subscription

The row of a subscriber is `[active, end, user]`. The sweep's copies (`sweep`)
and each job's copy are taken when the code finds the entity and assigned when
it saves it, so that a save over newer writes, or over a removed row, happens
as it does in the code. A save may be refused: `userId` is unique. `paidUntil`
and `touched` are history variables: what the last charge paid for, and what
has been done to the row since. Subscribers that an administrator created have
no checkout session: no charge finds them, and the code refuses to cancel them.

### ChangeRequests

A job is one HTTP request: `create`, `approve`, `reject`, `resubmit`, or an
administrator's direct edit of a voter. `findOne` and `assertPending` are one
read, whose copy the job carries to its save; `findVoter` is the last find in
`VotersService.update` or `remove`, and what follows it are the statements of
`approve`: save or remove the voter, save the request, append to the audit log,
notify. A voter's row is the set of changes in force, each change being columns
of its own. `applied`, `crossed`, `lost` and `disturbed` are history variables:
what approvals did to voters, the requests that were saved over a row newer
than the copy, the jobs that stopped half-way, and the voters that were edited
directly or saved over a newer row.

### Sessions and Permissions

A token is `[user, iat, known, late]`: `iat` is the second it was minted in, as
a tick rounded down, and `known` and `late` are history: how many kicks its
session knew, and whether a kick came while it was minted. `login`, `refresh`,
`profile`, `update` and a kick of one read the whole user and save the whole
user some steps later; a kick of a tenant or of all is one `UPDATE`. `asked`
and `lost` are history: the last value asked for each column, and the columns
that a save put back.

In `Permissions` the rows of `role_permissions` and of
`user_permission_overrides` are one variable, because both are replaced by a
DELETE and an INSERT. A query goes through the cache (`QueryStarts`), the
table (`QueryDefaults`, `QueryStore`), the overrides and the two guards. `late`
says that the cache was filled with rows that have been replaced, `spoilt` that
the last edit of an owner failed half-way or met another; `denied` is what a
query's member was denied all the time since it started.

### LeaderAccess, TenantRow and Leads

`holder` are the rows of `leaders` and `staff`, `login` those of `users`. A
request to create, grant or revoke writes the one and then the other, and may
stop between (`LinkEnds`). `loose` is history: the logins whose link something
other than these requests, done one at a time, broke.

`TenantRow` keeps of a tenant what its requests write: the plan of the form,
the texts of the branding (`colour`), an image for each kind, and the users. A
save assigns all of them from the request's copy; the users are there because
`findOne` loads them, and a loaded list is saved as the list. The images are numbered, so that the bucket
may keep one that no row shows and a row may show one that is gone.

`Leads` has an address as it was written (`Written`) and as it is compared
(`Normal`); the checkout's upsert looks for the address and creates or saves
what it found.

### WhatsApp

`WhatsappConnection` has the three places a connection is in: `row`, `inst`
(the entry of `instances`) and `remote` (Evolution's instance, external). What
Evolution posts waits in the set `hooks` until it is handled, in any order, or
is lost. `connect` writes its row and its entry in separate steps around the
calls to Evolution, whose answers it holds while webhooks go on arriving;
`Restart` empties `inst` and, as `onModuleInit` does, asks Evolution about the
rows that say CONNECTED. `staleInst`, `staleRow`, `unruly` and `leaked` are
history: which of the copies is known to be old and why, and which connections
lost their single default, or were deleted while another request connected them.

`WhatsappMessages` has rows, each with the message's `externalId`, and the
handlers of messages, status reports, reactions and revocations, each a find
and a save. A webhook may be delivered twice, late or out of order: what
Evolution has to tell stays deliverable. `MediaCache` is the Map in order of
use with its counter of bytes. `WhatsappFigures` reads the list page by page
and a report in four queries, while messages arrive.

### Chat

`Chat` has the group, the direct conversations of two users, participants with
counters, and messages. `send` stores, saves the conversation with its
participants (the cascade), and increments; reading resets and then marks;
removals and withdrawals save what they read. `ChatGateway` has what is
outside the rows: the map of sockets, the rooms and the queues of what was
emitted to each socket, which keep their order.

### Voters, Visits and the cabinet

`Voters` is the import in batches with its index of duplicates, the leaders'
counters and the coordinates by town; `VoterLists` is the pages, figures, map
and sheets under a leader's scope, and the writes of a leader. `Geocoder` is
the shared clock and cache. `Visits` has both sides of a visit and its
appointment. `HelpRecords` has types, records, cabinet visits and the import of
a sheet, `CabinetDesk` visitors and the dashboard, whose seven queries see each
its own moment.

## 3. What TLC checks

| Run | Instance | Shows |
|---|---|---|
| `checkout` | 1 session, 2 payments, 2 jobs, no fault; 927 thousand states | access only after a recorded charge; the price flag is true; a settled status changes by whole-entity saves only |
| `checkout_faults` | 1 session, 1 payment, 2 jobs, 2 faults; 646 thousand states | the refinement of `Provisioning`; a PAID session without subscriber had a fault |
| `checkout_liveness` | 1 session, 1 payment, 2 jobs, no fault, fairness | a paid session gets subscriber and invitation |
| `signup` | 2 tokens of one address, 2 tenants, 2 requests, 1 fault; 810 thousand states | the five properties of `Signup` |
| `signup_liveness` | the same with 1 tenant, no fault, fairness | a signup with its user is completed |
| `subscription` | 1 bought subscriber, 1 user, 2 jobs, 1 fault, 1 patch, clock to 3; 606 thousand states | a paid period is kept; an active subscriber has what it paid for |
| `subscription_liveness` | 1 bought and 1 given subscriber, 1 user, 1 job, 1 fault, 1 patch, clock to 2, fairness | what expired is deactivated |
| `change_requests` | 1 request, 1 voter, 2 changes, 2 jobs, 1 fault; 1.28 million states | an approved request is in force; what was applied is approved and logged; approvers know of what is pending |
| `change_requests_review` | the same, no fault; a violation is expected | a decision is saved over another one |
| `access` | 1 user with 1 kick, 2 passwords, a clock to 2 with 2 ticks in a second; 1 role, 1 member, 2 modules, 2 keys; 1 leader, 1 member of staff, 2 logins; 1 tenant with 1 kind of image, 2 plans, 1 user; 2 leads of one address; 2 requests in each part; 1.12 million states | a kick ends the sessions from before it and no other; rows are what was asked; permissions are current; a login and its holder agree; each but for named causes |
| `whatsapp` | 2 connections, 2 requests, 1 webhook lost, a restart; 2 messages, 2 phones; 2 cached keys, 3 bytes; 2 contacts over 2 days; 1.24 million states | one default connection; nothing left of a deleted one; the entry says what Evolution says; a message is stored once and says the last told; the cache's counter is its content; lists and figures agree |
| `office` | the group with 3 users and one direct conversation; 3 sockets; a file of rows in batches of 2, 4 voters, 2 states with a town of one name; 3 listed voters of 2 leaders, pages of 1; 2 geocoding callers; 2 visits; 3 records, 3 spellings of types; 2 cabinet visits; 748 thousand states | counters, previews, presence and screens follow the messages; imports, counters, coordinates, lists and the leader's scope are right; visits, records and figures keep in step |

**Bounds.** Jobs of the checkout touch the rows of their own session only, so
one session suffices, and two jobs give every race of a pair; the second
payment is what makes a rejected attempt followed by an approved one, and a
second charge, possible. Two faults allow a retry that fails again. In the
signup the two tokens share one address, which is the only way two signups
meet. In the subscription a period of one tick and a clock that goes to three
lets a subscriber be bought, expire, be found by the sweep and be charged again
before the sweep saves. In the change requests two jobs give every race of two
reviews, of a review and a resubmission, or of either and a direct edit, and the
second change is what a resubmission proposes instead of the first; two requests
about one voter meet only in the voter's row, which the direct edits already
disturb. `MaxFaults`, `MaxPatches` and `MaxTime` are the only
caps of these four and stand in the guards.

The last three runs have several components each, which share no state, so
their states add up and do not multiply, and the invariants of each are
checked in the behaviours of its part only. Every part has two requests at
work, which gives every race of a pair; where a third actor matters (a webhook
between two requests, an administrator, a second tab) it is an action that is
always possible. Their caps stand in guards too, and count requests or what
happens from outside: `MaxTick`, `MaxKicks`, `MaxTokens` and `MaxWrites`
(sessions: one kick, and a login, a refresh and a save around it);
`MaxEdits` (two edits of permissions, which can meet, or an edit and a crash);
`MaxEditsOfUserId`, `MaxTenantAsks`, `MaxLeadRows` and `MaxLeadAsks`;
`MaxRequests`, `MaxRemote` and `MaxLosses` (three requests, so that a connect,
a deletion and a restart meet, while Evolution moves twice); `MaxRows`,
`MaxReports`, `MaxAsked`, `MaxUses`, `MaxTime`, `MaxDay`, `MaxMessages`;
`MaxJoins`, `MaxChatRequests` and `Sends` (a member leaves and comes back, and
two messages cross); `MaxVoters`, `MaxLeaders`, `MaxWork` and `MaxChanges`;
`GeoTime` (two waits of the geocoder's gap); `MaxVisits`, `MaxAppointments`,
`MaxVisitRequests`, `MaxRecords`, `MaxVisitsIn`, `MaxHelpWork`,
`MaxDeskVisits` and `MaxDeskWork`. They are large enough for the causes
that the properties name: dropping any one of these from its property makes TLC
produce the interleaving. Two need a request more than the bounds allow: a
voter that is removed, missed by an import and saved again by an edit
(`HelpIsCounted`, `MaxWork = 3`), and a chat shown twice because another was
flagged (`PagesCoverTheList`, three contacts and `MaxEdits = 3`). The theorems
below do without any of these bounds.

Deadlock is not checked: when nothing is left to pay, expire or request, the
system may stop.

**Fairness.** `WF_vars(JobStep(j))`: a request in flight goes on, which is what
the event loop does with a promise that settles. The environment (customers,
Mercado Pago, administrators, faults) has none. In `Subscription` the cron
comes round and a sweep that runs goes on; nothing is assumed of any particular
row, because another row's refused save may end the sweep before it. The runs
`access`, `whatsapp` and `office` check safety only and assume no fairness.

**Mutants.** Each property of each run has a mutated definition (next to the
original, marked `Mutant`), a change of the code such as a dropped condition in
an UPDATE, and TLC finds the property violated with it.

**What the checks say about the code.** The causes that the properties list are
all reachable; dropping any one of them makes TLC produce the interleaving.
Worth knowing:

* a saved entity can put PENDING back over PAID or CANCELLED; the unique
  indexes of `subscribers` and `signup_tokens`, not the status, are what keeps
  the provisioning single;
* between PAID and the subscriber there is a window in which a fault strands
  the customer for good: redelivered notifications give up on a PAID session;
* two first pages at once leave a tenant that nobody uses, and the token may
  name that one;
* a signup that stops after the user exists cannot be resumed with the link;
* two reviews of a request at once both go through, although
  `assertPending` says that an analysed request cannot be altered: a rejection
  saved over an approval leaves the voter changed by a request that is
  shown as rejected and that may be resubmitted (`AnalysedStaysUnaltered`, the
  one finding in `PROJECT.json`);
* an approval that stops between the voter and the request leaves a pending
  request that is in force already, and may then be rejected;
* the sweep may deactivate a subscriber that was extended between its find and
  its save; a charge may undo the link that the signup made meanwhile;
* a login that was reading the user when a kick came saves the old cutoff and
  undoes the kick; a token minted in the second of a kick, after it, is refused,
  because its `iat` has lost the milliseconds of the cutoff;
* a reader that found the defaults before an edit fills the cache after it, and
  the old permissions stay until the next edit; a key named twice makes the
  INSERT fail after the DELETE, and the role is left with nothing, though the
  cache goes on granting it;
* a leader whose login was removed by `UsersService` can neither be revoked nor
  be given another one; `tenants.update` takes the tenant from a user created
  while it was under way, and never changes a plan that is set, whatever
  `planId` its form sends;
* `connect` writes PENDING over the row of an instance that is open, and a
  `CONNECTION_UPDATE` for a connection without an entry in the process is
  dropped; a sent message may be stored by the request and by the webhook;
* the response rate of a panel counts the answers of contacts who wrote after
  the end of the range, and may exceed 100 %; a click on "reply later" looks at
  the last message only, the list at any message, so a flag may stay on;
* saving a conversation with the participants it was read with brings back one
  who has been removed meanwhile, and an old copy of a message undoes its
  deletion for everyone;
* the import's index keeps the key of a row that the database refused, so a
  correct row after it is dropped as a duplicate; the UPDATE of coordinates
  groups by town without its state; the voters of one INSERT have one
  `createdAt`, by which the pages are ordered, and may change places;
* a leader's request checks that the voter is the leader's and writes after an
  await: it may write a voter that was moved to another leader in between;
* the dashboard's differences come from queries of different moments and may be
  below zero; a voter whose phone is stored with a `)` is never found to be the
  visitor.

## 4. What is proved

All theorems hold for every value of the constants that satisfies the named
assumptions of the modules (`CheckoutAssumption`, `SignupAssumption`,
`SubscriptionAssumption`, `ChangeRequestsAssumption` with `RowsAssumption`,
`SessionsAssumption`, `PermissionsAssumption`, `LeaderAccessAssumption`,
`TenantRowAssumption`, `LeadsAssumption`, `WhatsappConnectionAssumption`,
`WhatsappMessagesAssumption`, `MediaCacheAssumption`,
`WhatsappFiguresAssumption`, `ChatAssumption`, `ChatGatewayAssumption`,
`VisitsAssumption`, `VotersAssumption`, `VoterListsAssumption`,
`GeocoderAssumption`, `HelpRecordsAssumption`, `CabinetDeskAssumption`): finiteness, types, sets that are not empty, and `None`
being no other value. The bounds on requests, rows and clocks are among these
constants, so the theorems are about any number of them.

* `CheckoutProofs` proves `TypeCorrect`. Types alone are not inductive: a
  job assigns the copy it holds, so the type of the copy, and that the job's
  session has a row, go with it (`Known`). It goes on to show that `IInv` of
  `CheckoutInvariant` is inductive and with it `PaidServed`, `AccessRecorded`,
  `AdjustedPriced`, `SettledByEntity` and the refinement
  `ImplementsProvisioning`. The properties
  speak of tables, but a job writes what it checked several steps ago;
  each part of `IInv` therefore says what a job's control point implies:
  `Priced` that copies with the flag are of adjusted prices, `Paid` that a
  job which grants access has an approved and recorded payment, `Invited`
  that at most one job is about to mail and the token exists, `Serves`
  that a copy which says PAID belongs to a served session. There is one lemma
  for each part and group of actions, so that an action only appears where it
  can disturb the part.
* `SignupProofs` proves the type invariant and the five properties from `IInv`
  of `SignupInvariant`: `Built` and `Equipped` follow a tenant through its
  statements, `Completes` the second page, `Single` and `Accounted` count the
  tenants of undisturbed tokens.
* `SubscriptionProofs` proves the type invariant, `PaidKeepsAccess` and
  `ActiveMeansPaid`. `Swept` is the strengthening: what the sweep found had
  expired when it was found, and time does not go back, so a save over an
  unchanged row ends no paid access.
* `ChangeRequestsProofs` proves the five invariants of `ChangeRequests`. They
  speak of the request's row, but what keeps them is what a job carries between
  its read and its save: `Carried` says that a review holds a copy that was
  pending and a resubmission one that was rejected, `Applied` that an approval
  about to be saved has been applied and is in force.

* `AccessProofs` proves, of the sessions, the type invariant and
  `KickEndsSessions`, for any length of a second and any number of kicks. What a token is worth depends on
  what requests still hold: `JobsAgree` of `SessionsInv` says that no request can
  save a cutoff that a token from after the last kick would not bear, and that
  whoever is to mint for a session from before a kick raced with it or entered
  because a save had undone it; `TokensAgree` says the same of tokens, and
  `TimesPassed` that no cutoff is of a time to come, which is what makes a new
  kick refuse everything from before it. `RowAsAsked` is inductive once the
  types are known: an operation writes the columns it was asked to write, and
  every other is from a copy, which is counted as old when a save came between.
* `AccessProofs` proves, of the permissions, the type invariant, `RowsAsRequested` and
  `PermissionsAreCurrent`. `AloneOrMet` is what the first needs: an edit
  between its two statements has the owner's rows to itself and finds none,
  or has met another edit and both know. `JudgedByOverrides` is what the
  second needs: what a request holds as denied is denied still, and is taken
  from its keys when it goes through the overrides.
* `AccessProofs` proves, of the logins, the type invariant and `LeaderLinkHasCause` from
  `LeaderInv`: `GivingIsNew` says that a login about to be given was made for
  its holder and is given by one request only, `LinksAreGiven` that a `userId`
  in a row or in a copy is of a login that was made for that holder.

* `AccessProofs` proves `TenantRowHolds` from `TenantInv`. A request that
  changes an image deletes the old one, stores the new one and saves the row in
  steps of their own; `JobImagesHold` follows it: the row it holds is the
  tenant's unless it is late (`RowIsCurrent`), what it deleted is shown no
  longer or known to be (`IsCleared`), what it stored nobody else shows
  (`StoredIsOwn`). `ListIsCurrent` says the same of the users that an update
  has listed and not yet written.
* `AccessProofs` proves `LeadsAgree` from `LeadsInv`. What it says of two leads
  of one address needs that a checkout which found none is either alone or late
  (`LeadJobIsLate`), and that an unedited lead is found by the address a second
  checkout looks for (`LeadIsFound`); what it says of the plans must be said of
  removed leads as well, because an old copy brings them back.
* `AccessProofs` proves, of `MCAccess`, `AccessTypeOK` and `RowsAreKept`: five
  components in one behaviour keep what each keeps alone, for any constants.
* `WhatsappProofs` proves `DefaultConnection`, `DeletedLeavesNothing` and
  `StatusHasCause` from `ConnectionInv`. A row, the entry in the process and
  Evolution's instance are written by steps between which webhooks arrive, so
  the invariant names, for each disagreement, the request that is about to end
  it (`EntryHasCause`, `RowHasCause`, `DefaultsHaveCause`); a deletion needs
  that nobody else is about to write what it removed (`DeletionIsAlone`), that
  a new row is unknown to all but the request that inserts it (`NewIsUnknown`),
  and that an instance's token can be found again (`TokenIsKept`). That a
  deletion promotes the oldest row left uses that a set of naturals that is not
  empty has a least element (well-founded induction from the library).
* `WhatsappProofs` proves `MessagesFollowWebhooks` from `MessagesInv`:
  `MessageJobFollows` says what a request or a webhook holds, `RowIsAlone` when
  a message has two rows, `RowFollows` that a row keeps to the last it was told
  at every step and not only when nobody is at work; the webhooks of one
  message can come in any order and number. `RowLeavesWithChat` is there because
  the deletion of a chat removes rows that requests still hold, and these come
  back deleted.
* `OfficeProofs` proves `ChatFollowsUsers` from `ChatInv`. `UnreadHasCause` speaks
  of a conversation with no send at work; at every other moment a counter is
  behind by the sends that have yet to count (`UnreadFollows`, where a reading
  that has emptied the counter is the other case), and it stays in its range
  because sends at work are counted against those that were ever made
  (`UnreadIsSent`). `PreviewFollows` says that the preview is of the last
  message or that the request which will save it is at work; for that,
  `ChatJobKnows` says what messages a request that is about to save a preview
  may have missed. `DirectsAreCounted` relates the direct conversations that
  have no participants yet to the requests that make them. What was not
  inductive was a finding about the model: two sends read the conversation
  while its preview was of a deleted message, the later one saved and its
  message was withdrawn again, and then the earlier one saved its own message,
  which is no longer the last, over a preview that looked as it had read it. It
  takes three messages and five requests, more than the run has; `oldPreview`
  now counts it among the causes.
* `OfficeProofs` proves `ClientsHear` from `GatewayInv`, for any sockets, users
  and messages: who is online, what the room shows and what the lists show
  follow from the events alone. Emissions of one send come in two steps, and
  others come between: `LaterOverlaps` says that what is stored while a send is
  not done overlaps it, `LateIsKnown` that a deletion that is done before the
  emission has overtaken it, `SocketHears` and `ShownOnce` what a socket
  shows at every step, `StoredFirst` that a socket which joins now has missed
  nothing it should show.
* `OfficeProofs` proves `VisitsInStep` from `VisitsInv`: `Knows` says of what
  visit and appointment a request holds a copy, `NamesItsOwn` that a visit's
  appointment was made for it, and `AtRest` and `AtWork` what a visit that is
  not loose has when nobody and when one request is at work on it (`Follows`).
* `VotersProofs` proves `VotersInOrder` from `VotersInv`. `IndexTells` is what
  an import needs: the index names a row of its own, a voter whose file row has
  the key, or says that such a row waits in the batch, so that a row
  dropped as a duplicate is one of something that landed. `HelpTells` counts the
  help records against the rows that asked for them, a row being lost only when
  its voter was removed or was crossed by another request (`GoneOrCrossed`);
  `CopiesAreOfRows` says what a request holds of the voter it will save,
  `PlacesAreRight` whose coordinates a voter has, and `CountsAreComing` which
  request or import is about to count the leader of a voter whose count is not
  right (`WillCount`).
* `VotersProofs` proves `ListsAreTrue` from `ListsInv`: `PagesAreFirst` says that
  the pages gone through so far have shown exactly the voters that fewer than
  `page * PerPage` others precede, while nobody came or went, which is what makes
  the last page complete the list; `OwnRequests` what a leader's request checked
  before the await after which it writes. It proves `GeocoderIsFair` from
  `GeocoderInv`, which says of each call what it measured, asked and put in the
  cache.
* `VotersProofs` proves `RecordsAgree` from `HelpInv`. `JobsKnow` follows a
  request between its writes: it makes a type only if it found none, the record
  it has made is there and of no visit yet, and the visit it removes is the one
  whose record it has removed. `VisitsApart` says that no two cabinet visits
  share a record. `ImportsKnow` is what an import needs: each type its index
  names, in some spelling, was made, was removed, or waits to be made, once; a
  type found by the look-up and removed during the import is the case that the
  property names.
* `VotersProofs` also proves `FiguresAddUp`, that the voters by neighborhood add
  up to those that have one. Sums would need induction over data if they were
  folds; `Total` of `Rows` states a sum as the number of points under the
  function, and what is needed of sums (`CountsOfSome` and its like: rows counted
  by what they have in common add up to the rows) follows from one-to-one maps
  between finite sets. A run of `MCWhatsapp` or `MCOffice` evaluates the same
  definition.
* `OfficeProofs` proves `DeskIsKept` from `DeskInv`. The seven queries of a
  dashboard are answered in any order while visits are written; `BoardTells`
  says of each answer by how much it may be off from what its query would count
  now, which is the number of writes since. `RowsOfUpdates` says that an update
  saves the row of a visitor who was there. That the match is true rests on what
  marks a stored phone may have.
* `WhatsappProofs` proves `MediaCacheAccounted` from `MediaInv`, for any sizes
  and budget: the counter is the sum of the entries' bytes through hits, which
  move an entry to the end, replacements, and evictions from the front. How many
  are evicted is the least number that suffices, which exists because evicting
  all does.
* `WhatsappProofs` proves `PagesCoverTheList`, `FiguresAddUp` and
  `FlagFollowsClicks` from `FiguresInv`. `LogKnown` is of the messages: numbers
  are given once, and flags are those of the last click in chats that got no
  message since. `ViewKnown` says what the pages shown so far hold: while no chat
  got a message, the chats whose rank is within the pages' limits, each with the
  last message it had. Pages are cut by offset, so that they cover the list needs
  that ranks have no gap (each number below the size of the list is the rank of
  one chat). `ReportKnown` says of each query that was answered what it agrees
  with: the total while nothing was written, at least the total while nothing was
  removed.
* `OfficeProofs` proves of `MCOffice` that each part keeps its own inductive
  invariant beside the others, whence `OfficeTypeOK`, `ChatIsFollowed`,
  `VotersAreKept`, `VisitsInStep` and `RecordsAreKept`. `WhatsappProofs` does the
  same for `MCWhatsapp`: `WhatsappTypeOK`, `ReadsAreTrue`, and the properties of
  connections and messages (`ConnectionsAndMessagesHold`).

TLC checks each of these inductive invariants on the instances above as well
(`AccessTypeOK`, `WhatsappTypeOK` and `OfficeTypeOK` have them as conjuncts).

Every invariant and action property that a passing run checks is stated by a
theorem. Only model-checked, on the instances above: the three liveness
properties, since fairness and ENABLED are beyond the prover; and that
`AnalysedStaysUnaltered` is violated, which is a counterexample and not a
theorem.

## 5. Not modelled, and the plan

Not modelled in the modules above: TypeORM's own SELECT inside `save` (its diff
is taken at the moment of the UPDATE); the text of mails and of exported
sheets; HTTP validation; amounts of money beyond "first charge" and "plan
price". Components that are left out, with the reason:

* WhatsApp over Baileys: its service is registered in no module, the program
  never runs it;
* election results: the service with the queries is registered nowhere, what
  runs is a proxy that forwards read-only requests;
* CEAP, reports, the general dashboard: read-only queries;
* the AI assistant: calls to a language model, no state other parts depend on;
* broadcasts, plans, and the features that only inherit the tenant-aware base
  class: one find and one save, which nothing else reads;
* `deleteModuleData` and the other cascades of a tenant's end: lists of DELETEs;
* the resolution of webhooks of old instances without a connection in
  `whatsapp-evolution.service.ts`;
* configuration, seeds and bootstrap.

Hazards that are not in `PROJECT.json`'s list, being smaller ones of the same
kinds: a second purchase by the address of a subscriber; the exact second of
`expiresAt` in the sweep; an empty list of allowed modules, which hides every
module in the menu and which the guard takes as a list too.

What may come next: `AccessGate`, the composition of `Subscription`, `Signup`
and `Sessions` (who is let in, across the three); and a liveness property of the
connection, which needs an assumption about Evolution's webhooks that the code
does not state.
