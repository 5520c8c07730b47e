# social-commerce-backend in TLA+

A verification development of the backend under `src/`: the state its services
share, the steps their handlers take, what they promise each other and their
users, checked by TLC on small instances and, where it can be, proved by TLAPS
for every instance. Every definition is translated from the code; paths below
are relative to `src/src/` unless they begin with `docs/`, `migrations/` or name
a file of the repository's root. `PROJECT.json` maps each definition to the
lines it stands for.

## 1. The system

One Postgres database, a bucket, Stripe, and these processes: the API (HTTP and
Socket.io, `app.ts`, `server.ts`, `socket/`), one media worker (`worker.ts`, one
PM2 instance, `ecosystem.config.js:43`) and `sweepMedia.ts`, which a timer or an
operator starts. Stripe delivers webhooks to the API, at least once and in no
particular order; clients PUT media straight to the bucket.

Nothing in the code locks an order, an event or a post for the length of a
request. Handlers read rows, await something (a query, Stripe, S3), and write
what they concluded. Three facts about the persistence layer decide what can go
wrong, and the modules are built on them:

- Postgres runs READ COMMITTED: inside one transaction a read is not protected
  from other handlers, but an `UPDATE ... WHERE` re-evaluates its guard.
- `instance.update(...)` in Sequelize writes only the columns that differ from
  what that instance read, and its WHERE is the primary key alone: it writes over
  whatever another handler stored, and sometimes leaves half of it.
- A process may die between any two statements; what was committed stays.

### Components

| component | state | operations | hard behaviour | what makes it correct |
|---|---|---|---|---|
| Checkout, payment, fulfillment (`services/orderService.ts`, `fulfillmentService.ts`, `paymentService.ts`, `controllers/webhookController.ts`) | orders, order_items, products.stock; Stripe's intents | createCheckoutIntent, confirmOrder, refundOrder, applyOrderPaymentResult, fulfillOrder, markOrderDelivered | awaits on Stripe, confirm against webhook, duplicated and late events, compensation of a failed intent, two buyers and one unit | stock is conserved; captured money has an order; nothing reads paid, refunded or shipped without the money |
| Media queue and worker (`services/mediaJobService.ts`, `worker.ts`, `services/transcodeService.ts`) | media_jobs, the clip's URLs | enqueue, claimNext, requeueOrphaned, markDone, markFailed, the two handlers | crashes at any statement, retry budget, two kinds of job, shutdown | a budget; done means repointed; every job ends |
| Events and tickets (`services/eventService.ts`) | events.attendee_count, event_attendees; Stripe's intents | createEvent, setRsvp, createTicketIntent, confirmTicket, applyTicketPaymentResult | RSVP against payment of one user, confirm against webhook | tickets are paid for; the count is the rows |
| Media retention (`services/mediaRetentionService.ts`, `sweepMedia.ts`, `storageService.ts`) | the bucket, url and source_url columns | sweepOrphans, reclaimOriginals, deleteObjects | a scan that outlives publishes and repoints, per-key failures, shared uploads | no referenced object is swept; what plays is kept; originals are kept as long as promised |
| Engagement and comments (`services/engagementService.ts`, `postEngagementService.ts`, `commentService.ts`, `postCommentService.ts`) | engagements, comments, their likes, and the counters on videos, posts and comments | toggles, postComment, removal by a moderator | concurrent toggles of one user, a parent that vanishes | counters are the rows; threads are one level deep; like and dislike exclude each other |
| Moderation (`services/moderationService.ts`, `appealService.ts`, `reportService.ts`, the deletes in `videoService.ts` and `postService.ts`) | deleted_at, deleted_by, is_active, reports, appeals | createReport, resolveTarget, createAppeal, resolveAppeal, deleteVideo, deletePost | takedown against the author's own delete, two moderators and one appeal | deleted_by tells whose act it was; one decision per appeal; granted means restored |
| Sessions (`services/authSessionService.ts`, `authService.ts`, `middlewares/auth.ts`) | user_sessions, revoked_tokens, password_reset_codes | login, rotate, revoke, reset | a rotation whose answer is lost, a login that races a reset, parallel guesses at a code | a refresh token buys one pair; revoked is for good; a reset evicts; tries are bounded |
| Conversations (`services/chatService.ts`) | conversations, members, roles, messages, read marks | openWith, createGroup, addMembers, removeMember, setMemberRole, leaveGroup, getMessages, postMessage | the owner leaves while the successor does; two open one 1:1; a post while a thread is read | a group has one owner; one 1:1 per pair; what is not shown is unread |
| Social graph (`services/socialService.ts`) | follows, friend_requests, blocks, mutes | follow, mute, block, sendFriendRequest, acceptFriendRequest, removeFriend | crossed requests, a late answer, a block against calls in flight | both see one relation; friends have agreed; a block leaves nothing older than itself |
| Migrations (`migrations/`, `deploy/deploy.sh`) | the schema, SequelizeMeta, the rows a migration rewrites | up and down of each file | a run that dies half-way, the old API serving on | the history runs, undoes and runs again; rows are converted |
| Feeds (`services/feedService.ts`, `rankingService.ts`, `utils/cursor.ts`) | none of their own | keyset and ranked pages | rows and scores change between pages | nothing repeated, nothing skipped |
| Pricing and products (`services/pricingService.ts`, `productService.ts`) | products, variants, images | priceCart, edits, delisting | negative deltas, stock edited under checkouts | a total is the sum of its lines |
| Sockets and calls, notifications, push, devices, lifecycle, HTTP edge, serializers, e-mail, geocoding, the seeder | rooms, notifications, device tokens | | best effort | |

How they interact: the checkout and the tickets share Stripe and one webhook
endpoint, which routes an event to the order or the ticket that carries its
intent. Publishing a video or a post inserts a media job in the same transaction;
the worker repoints the row; the sweep reads every column of every table for
references. Moderation writes the rows that feeds, engagement and orders read,
and soft deletion keeps all of them in place. Notifications are written after
commits and their failures are swallowed.

## 2. The modules

Each component has one module, an MC module when its instance needs
definitions (symmetry, functions), and a proofs module that EXTENDS it.

| module | models | theorems in |
|---|---|---|
| `Inventory` | the abstract promise of the checkout about stock and money | |
| `Checkout` | orders, payment, fulfillment; implements `Inventory` | `CheckoutProofs` |
| `CheckoutClaims` | what comments say of orders and the code does not do | |
| `WorkQueue` | the abstract promise of the queue: orders, runs and outcomes | |
| `MediaJobs` | the queue and the worker process; implements `WorkQueue` | `MediaProofs` |
| `BoxOffice` | the abstract promise of the tickets: what becomes of a user's seat | |
| `EventTickets` | events, RSVPs and tickets; implements `BoxOffice` | `EventTicketsProofs` |
| `MediaRetention` | the sweep against uploads, publishes and encodes | `MediaProofs` |
| `Engagement` | reactions, comments, likes and their counters | `EngagementProofs` |
| `Acquaintance` | the abstract promise of the social graph: requests, friends, blocks | |
| `SocialGraph` | follows, friend requests, blocks, mutes; implements `Acquaintance` | `SocialGraphProofs` |
| `Moderation` | reports, takedowns, authors' deletes, appeals | `ModerationProofs` |
| `Credentials` | the abstract promise of the sessions: what a pair of tokens is good for | |
| `AuthSession` | login, rotation, logout, reset codes, the sockets a token opens; implements `Credentials` | `AuthSessionProofs` |
| `GroupChat` | 1:1 and group conversations, roles, messages and read marks | `GroupChatProofs` |
| `SchemaChange` | what one statement of a migration does | |
| `SchemaHistory` | the migrations, a sequence of blocks of statements each | |
| `Migrations` | the runner of that history, with crashes, undos and the API beside it | |

Conventions they share. A database transaction whose writes are guarded is one
step; a handler with awaits is a record in a slot, whose `pc` names the statement
it is about to run and whose other fields are exactly what the code keeps in local
variables across the await. Slots bound concurrency, not arrivals. A handler's
death, and any statement that throws, is the action `Abort`, `EncodeStops`,
`SweepDies` or `Crash`, enabled between any two statements. Variables called
history in a module are not in the code: they record what a property needs to
say. Definitions whose names end in an underscore and a word
(`RetrieveIntent_Optimistic`) are mutants: plausible mistakes in the definition
that follows them, each of which makes one property of a run fail.

### Checkout

Variables are the columns (`orders`, `stock`, `listed`, `live`), Stripe
(`intent`, `refunded`, `secret`, `sent`) and the handlers (`req`).
createCheckoutIntent is `BeginCheckout` (price, look for a reusable order), then
either `ReuseIntent`, or `persistOrder` (the transaction that decrements stock and
inserts), `SettleFree` for a total of 0, or `createPaymentIntent`, `BindIntent`,
and `releaseOrder` when one of them fails. confirmOrder is `BeginConfirm`,
`RetrieveIntent`, `settleOrder`; the webhook is `stripeWebhook` and the same
`settleOrder`; refundOrder is `BeginRefund`, `refundPaymentIntent`, `WriteRefund`;
the two fulfillment calls are a read and a write each. Settling writes both
columns over whatever they held, from a value read before the await. `AgeOrder` is
the reuse window passing. A cart is only free or not.

### MediaJobs

`Publish` is the publish transaction with its `enqueue`, of a clip that is new; the
partial unique index on live subjects is its guard. The worker is one process with a program counter:
`Start`, `requeueOrphaned` at boot, `claimNext` (SKIP LOCKED is moot with one
worker) over the two kinds in order, `Encode`, `Repoint`, `markDone` or
`markFailed`. `Crash` takes it at any of them; `MarkFailedThrows` is the bookkeeping
statement failing under a worker that lives on; `Shutdown` is SIGTERM. `WorkQueue`
has none of it: orders that are tried, lost, retried and closed.

### EventTickets

Attendee rows with the unique index (event, user); `Counted` is the rule of
`serializeEvents`. `createTicketIntent` is `BeginTicket`, `createPaymentIntent`,
`RecordTicket`, `AttachIntent`; `confirmTicket` is `BeginConfirm`,
`RetrieveIntent`, `FlipTicket`; the webhook is `stripeWebhook`, which reads the row
and hands over to `FlipTicket` (a guarded update) or, for a failed payment, to
`DestroyRow`. `muddled` marks the events where one user's payment met that user's
RSVP (section 6). `BoxOffice` has one seat for each event and user and neither rows
nor handlers: a seat is taken by an RSVP, reserved or ticketed, and each handler's
write is one step of it (`AttachIntent` reserves, or only informs the buyer when the
row is gone or settled; `DestroyRow` drops the seat, whatever it has become, but only
of a payment that was reported to have failed).

### MediaRetention

Rows, objects, a clock. Clients `Upload` and later `PublishRow`, which takes any
URL: an upload of their own, that of a publish sent before, or what another row
plays or played. The worker runs `BeginEncode`, `putObject`, `RepointRow`; a sweep is `collectReferencedKeys`,
`ListObjects`, `DeleteKey` one object at a time, and on demand
`findReclaimableOriginals`, `DeleteKey`, `ClearSource` one row at a time. A clip and
its poster are one object.

### Engagement

A reaction begins with `BeginToggle` (the read of the item). A like or dislike
then runs in two steps, `DropOpposite` and `CommitReaction`, because between the
two statements it cannot see what another transaction has not committed; the
counter it counts down locks the item's row (`Unlocked`). Reactions without an
opposite are `ReactionOn`, taking one back is `ReactionOff`. postComment is
`BeginComment` and `CommitComment`, a comment's like `BeginCommentLike` and
`CommitCommentLike`. `RemoveComment` is the moderator's hard delete with what the
foreign keys cascade. Videos and posts have mirrored tables and services: an item
is either.

### SocialGraph

The four tables as sets of rows. A friend request is `Send` or
`Accept` (the read of the rows of the pair) and `CreateRequest` or `AcceptRow`
(the write, by the row's key); a block is one transaction of three statements,
`BlockFollows`, `BlockRequests`, `CommitBlock`, whose deletions others do not see
before the commit and whose rows others wait for. follow, unfollow, mute and their
like are one statement each (`AtOnce`). `FriendStatus` is friendStatusMap, the way
each side's view is computed from the rows. `Acquaintance` knows which requests have
been answered and which blocks are being made, and neither slots nor statements: an
answer of the addressee makes friends of the request it was for, if that still
stands, and a block takes what stood between its two users at once.

### Moderation

A target is content or an account; `down` is deleted_at or not is_active,
`deleted_by` the stamp. createReport is a read and an insert, `FileReport` and
`InsertReport`. resolveTarget is a transaction: what it reads takes no lock
(`Resolve`), its first write holds the row (`TakeHold`, `Held`) until
`CommitTakedown`; a dismissal, and a takedown that finds its target down, only write
the reports (`CommitReports`). The author's delete is three statements of their own,
the read, the stamp and the destroy: `Delete`, `StampAuthor`, `DestroyOwn`, which is
where it may cross a takedown. An appeal is `FileAppeal` (the checks) and
`InsertAppeal`. resolveAppeal reads the appeal before its transaction (`Review`); a
grant reads the target (`JudgeTarget`), then restores it (`HoldRestored`,
`CommitRestore`), or leaves it as it is (`CommitDecision`), as a denial does.

### AuthSession

One account. A login or a rotation mints a pair of tokens, and any pair ever
minted may be sent again at any time: that is the client that lost an answer, the
retry and the copied token. `StartRotation` to `CommitRotation` holds the
session's row, as the transaction does with `FOR UPDATE`; `RefuseRotation` is what
it does with a token that is not in place. A logout is `Logout` (protect),
`Blacklist`, then `RevokeById`, or `ReadToRevoke` and `WriteRevoked`. A reset is
`Guess` and what follows it one statement at a time (`Charge`, `Burn`, `UseCode`,
`SavePassword`, `StartEviction`, `FinishEviction`). A socket is `Handshake`,
`Connect`, `Disconnect`. Other accounts share nothing with this one. `Credentials`
says what a pair is good for, without rows, locks or transactions: it is awaited by
its session, presented by one call at a time, exchanged for a new one or barred, and
it opens a socket if it was good when it knocked.

### GroupChat

Rows of conversations, members and messages, with one clock for all of them. A
call checks the caller's row in one step, named for the call (`AddMembers`,
`Leave`, `Post`), and writes in later ones (`InsertMembers`, `StartLeave`,
`CommitLeave`, `InsertMessage`, `UpdatePreview`); creation and leaving are
transactions. A 1:1 conversation is opened with an inbox line and a time but no
message. getMessages is the page and the two
read marks in turn.

### Migrations

`SchemaHistory` spells out every statement of every migration, up and down, by
what it needs, what must not exist yet, what it adds, drops and rewrites.
`Migrations` applies block after block (a block is a transaction, or a statement
outside of one), records the migration in SequelizeMeta afterwards and separately,
dies at any point, undoes and runs again. One row of a followed kind lives beside
the schema, written by an API of before or after.

## 3. The runs

Every property of a passing run has a mutant in `PROJECT.json` that makes it fail
under the same configuration, so none of them holds by the smallness of the
instance. Type invariants are theorems and are not run again, except that of
`GroupChat`: it also says that members and messages always have their
conversation, which a leaving member deletes.

| run | instance | what it shows |
|---|---|---|
| `checkout_one_order` | 1 order, a paid and a free cart, 2 handlers, 1 Stripe fault or death, with fairness (92,992 states) | no interleaving of checkout, confirm, webhooks, refunds and shipments of one order makes it read paid, refunded or shipped when it was not, and a capture Stripe keeps announcing reaches the order without the buyer's help |
| `checkout_race` | 2 buyers, carts of one and of two products, 2 orders, 2 handlers, 1 fault (263,160) | two checkouts for the same units conserve stock, never lose an order with captured money, and implement `Inventory` |
| `media_jobs` | a feed video, an attachment, a clip on a foreign host, 2 jobs, budget 2, 2 faults (69,809) | the queue implements `WorkQueue`: runs within the budget, done and parked for cause; and every job ends |
| `event_tickets` | a free and a paid event, 2 users, 3 rows, 2 handlers (590,176) | the tickets implement `BoxOffice` (no ticket without captured money, no seat taken away but by its user or a failed payment), and the count is the rows |
| `media_retention` | a video row and an attachment, 3 objects, 1 sweep, 5 instants (4,864,752) | what the sweep may delete, whatever uploads and renditions rows share |
| `engagement` | 1 item, 1 user, 3 comments, 2 handlers (1,298,736) | counters are rows, comments are counted, opposites exclude |
| `migrations` | the whole history, 1 crash, a row of call_records or of posts (273,919) | the history runs, undoes and re-runs, except after a crash, and for which migrations |
| `social_graph` | 2 users, 3 ids, 3 handlers (648,189) | both sides see one relation, the graph implements `Acquaintance` (friends have agreed, an answer is for the request it read), a block severs |
| `group_chat` | 3 users, 2 conversations, 2 handlers, 5 calls, pages of 1 (1,279,092) | one 1:1 per pair, one owner per group, nothing marked read that nobody was shown, the preview is the newest |
| `auth_session` | 2 sessions, 3 pairs, 2 codes of 2 attempts, 2 handlers, 5 calls (1,073,436) | rotation, logout, reset and sockets in every order: the sessions implement `Credentials`, a logout and a reset end what they are to end, guesses are capped |
| `moderation` | a video and an account, 3 reports, 2 appeals, 2 handlers, 7 calls (631,288) | takedowns, the author's deletes, reports and appeals in every order |

Why the bounds are enough. A race in this code is between two handlers that each
read once and write once, so two slots reach it, and a third handler comes after one
of them has ended; `CheckoutProofs` covers any number. One order suffices for the
statuses, which are per order; two compete for stock, one cart of two products so
that a partial reservation is possible. One fault separates a handler that completes
from one that does not; `media_jobs` has two, since the budget is a claim about
repeated losses. Three attendee rows let a row be dropped, re-created and met by a
handler that remembers the first. Three objects are two uploads and a transcode, and
two rows are what is needed to share one of them; five instants are enough for an
object to outlive each of the ages. Three comments are a thread, a reply and a reply
to the reply. One user is enough for reactions because the counters of different
users touch only through the rows' locks, and a user's own two taps are the hard
case; `EngagementProofs` covers every number of users and items. `checkout_race`
leaves out the operator's and the seller's requests (`MCCheckout!RaceNext`), which
touch neither stock nor captures; they are in `checkout_one_order`. Ids, slots and
users that are interchangeable are symmetric, except in the runs with a liveness
property. Deadlock is not checked where a bound lets everything end: when all
orders, jobs, rows or ticks are used up.

Two users are a relation, and pairs share nothing; three handlers there are a block
and two crossed requests. In `group_chat` three users are an owner, the successor
and a third one whose role is changed, and a group is looked at alone (`GroupAlone`)
because conversations share no row; five calls create a group, fill it, and let two
more meet. A page of one message is a thread longer than its page. In `auth_session`
two sessions are the caller's and another, and three pairs let a token be rotated
twice. Seven calls in `moderation` are a report, a
takedown, an appeal, its review, the author's delete and a second round of two. One
crash separates a migration that was committed from one that was recorded.

The violation run refutes one sentence of the repository, quoted in
`PROJECT.json` under findings; the others that the code does not keep are in
section 6:

| run | sentence | what the trace shows |
|---|---|---|
| `claim_PaidStaysPaid` | webhookController.ts:15-17, "whichever is first wins and the second is a no-op" | a confirm reads the intent, the webhook settles 'succeeded', the confirm writes what it read |

## 4. Fairness

Safety runs assume none. `checkout_one_order` assumes that a handler that started
goes on (`WF` of `Continue`: Node keeps awaiting, and an abort answers for the one
that does not) and that Stripe redelivers an event until it is acknowledged. That
one is strong, because the number of slots is a bound of the model: the server would
take the webhook at any time, the model only when a slot is free. `media_jobs`
assumes that PM2 restarts a dead worker and that the worker polls (`WF` of `Work`),
and that time passes (`WF` of `BackoffElapses`). Buyers, banks, operators, sellers,
publishers and faults are never fair. Faults are bounded by `MaxFaults`: for ever
crashing, nothing ends.

`EveryJobEnds` leaves out a job whose outcome a surviving worker failed to
record: nothing reaps it until the next restart (section 6). It is about finitely many
jobs: runOnce asks for a video before it asks for a post's media (worker.ts:73-75),
so an endless stream of videos could keep a post waiting, which no finite instance
shows.

## 5. The proofs

Everything below holds for every value of the constants; the assumptions are the
named ASSUMEs of the modules, which TLC evaluates in the runs. Each proofs module has an
inductive invariant (`IInv`; in `AuthSessionProofs` and `ModerationProofs` a chain of
named ones, each resting on those before it), a lemma for each action, and theorems
that read off the properties.

| module | theorems | assumptions | why the invariant is stronger |
|---|---|---|---|
| `CheckoutProofs` | TypeCorrect, CapturedMoneyHasOrder, PaymentStatusIsBacked, ShipmentsAreFunded, StockIsConserved, ImplementsInventory | carts, quantities and supply are natural | who may touch an order: until payment_intent_id is stored it is private to the one handler that inserted it (`OwnersExclusive`) and nobody knows its client_secret, so money cannot be captured (`PaymentNeedsSecret`) and deleting it loses none; what a handler is about to write was true when it was read and cannot become false (`HandlersOK`, `EventsTrue`) |
| `EventTicketsProofs` | TypeCorrect, TicketsPaid, CountIsExact, ImplementsBoxOffice | | a handler about to flip looked at a captured intent, and captured is final; the count is exact because every step moves it as it moves the rows (`Follows`); a seat has one row (`OneRow`), and what a handler is about to do to it rests on an intent that was opened or a failure that was sent (`Grounded`), which no step takes back (`Endures`) |
| `MediaProofs`, the jobs | JobsTypeCorrect, BudgetIsKept, DoneIsTrue, ParkedIsTrue, StatusMovesForward, ImplementsWorkQueue | MAX_ATTEMPTS is positive | a job nobody is at has an attempt left in the budget that lost runs extend (`AttemptLeft`); the running job is in the worker's hands (`WorkerHolds`) |
| `MediaProofs`, the sweep | TypeCorrect, PlayableIsKept, RetentionIsKept, SweepSparesReferenced | Gap + Scan < MinAge, Gap <= RetainAge | an object that the sweep's references lack and that a row comes to refer to was young when they were read and is still too young when it is listed; one on the list of orphans is too old to be published, and the encode in flight works on what its row refers to (`EncodeInv`, `SweepInv`); an object plays for the row that was published with it or that it was made for (`RowInv`, `MakersKnown`) |
| `SocialGraphProofs` | TypeCorrect, OneStandingHolds, ConsentHolds, BlockSeversHolds, ImplementsAcquaintance | an id is not a pair of users | two who ask each other are both between read and write when the later one reads, so a row an asker did not see is one it crossed (`AskOK`, `CrossingsKnown`); an answer holds the id of the row it read, and that id is no other row's (`AnswerOK`); what a block has not swept is marked (`FollowsSwept`, `RequestsSwept`), and what it has is of its pair, still there, and held by no other block (`Held`) |
| `ModerationProofs` | TypeCorrect, TakedownAppealableHolds, AuthorsWordStandsHolds, OneVerdictHolds, OneOpenCaseHolds | no account is content; handlers and report ids are finite | while no two cross, a target has one appeal, filed or on its way, and one review of it (`OneAppeal`, `OneReview`), and is down as long (`StaysDown`), so its author's delete finds nothing; the restore that ends it clears the stamp (`GrantsClear`), so the next removal to be appealed is a moderator's; reports in the window and those being filed are counted together (`WindowBounded`) |
| `AuthSessionProofs` | TypeCorrect, RevocationStands, OneUseHolds, SocketsAdmittedHolds, LogoutSticksHolds, EvictedByResetHolds, TriesBoundedHolds, ImplementsCredentials | handlers are finite; no id is one of the markers for none | six invariants on the ground that rows only grow and a pair stays with its session (`Grows`): a rotation in flight has its token in place and the row to itself (`RotationInv`); a logout past its first step has the access token refused (`LogoutInv`); what an eviction has not found was opened by a login that is marked (`EvictionInv`); who holds or awaits a socket has a good token or is marked (`SocketInv`); a code's wrong guesses are charged or held by a handler that will charge them, and a code that was used gives no handler more (`CodeInv`) |
| `EngagementProofs` | TypeCorrect, CountersAreRows, CommentsAreCounted, ThreadsAreFlat, OppositesExclude | NoComment is no comment | a transaction that dropped a reaction holds the item, so what it dropped is there to take off (`LocksExclusive`, `DropOK`); an opposite it did not see was set by one it crossed (`SeenOK`, `CrossingsKnown`); a parent that was read was a top-level comment and comments never move (`ReplyOK`) |
| `GroupChatProofs` | TypeCorrect, OneDirectHolds, OneOwnerHolds, SeenOrUnreadHolds, PreviewNewestHolds | `NoHeir` is no member's key | one invariant per property, each resting on the types and on times that nothing exceeds (`TimesInv`): two who open their 1:1 and have not crossed have none yet (`DirectInv`); what a handler has read of a roster stays true of it as long as nobody leaves beside it, so the heir of the one that leaves is still there and nobody else owns (`OwnerInv`); who has read past a message on its way has missed it (`SeenInv`); a post that is alone in its conversation is the newest there (`PreviewInv`) |

`ImplementsInventory`, `ImplementsWorkQueue`, `ImplementsBoxOffice`,
`ImplementsAcquaintance` and `ImplementsCredentials` are refinements: initial states
map to initial states, and every step to a step of the abstract module or none.

- For the queue, a live job is an order (its clip, how often it was tried and how often
  a run of it was lost), the job in the worker's hands is the run, and the finished
  jobs are the outcomes; a step touches the order of one job, which is no other job's
  because no other live job has its clip (`OneLiveJob`, part of the invariant), and an unused id starts a
  fresh order (`UnusedIsFresh`).
- For the tickets, a live row is the seat of its event and user, and what its two
  flags say is what the seat is. Each statement changes one row, so it changes one
  seat (`OneSeatMoves`): that is where `OneRow`, the unique index, is needed.
- For the social graph, an answer in flight is the id it read and a block in flight
  its pair, wherever in its three statements it is. The commit of a block is the step
  that takes everything; what it deleted before is invisible until then (`Held`).
- For the sessions, the pair a row awaits is derived from the row, so a rotation, a
  logout and a reset that touch one row touch the pairs of one session; a rotation
  that presents a pair has the row to itself (`RotationInv`).

`StockIsConserved` is proved through the refinement of `Inventory`: the units an
order holds are counted as a set with one element for each unit, each step of
`Inventory` moves as many elements in or out of that set as it takes from the shelf
or puts back, and no other step of `Checkout` touches either. The five invariants of
`GroupChatProofs` were checked by TLC on the instance of the run `group_chat`, all
of it, before they were proved. The ages assumed in `MediaRetention` are not
enforced by the code: its grace period of a day takes for granted that clients
publish and listings end within it.

Proved and not among the runs' properties: the type invariants but `GroupChat`'s, that statuses of
jobs only move forward, that jobs are done or parked for cause (`WorkQueue` says it
too), that threads are flat, and what three of the refinements imply: that a refresh
token buys one pair (`OneUse`), that friends have agreed (`Consent`), and that tickets
are paid for (`TicketsArePaid`).

Every safety property of the runs is proved but those of `Migrations`. Only
model-checked are these three, which say what a recursive function over a sequence
of statements comes to (the schema after each), so that their proof is an
induction over data, while the history is one constant and the only parameters
are the number of crashes and the rows followed; `CaptureReachesOrder` and
`EveryJobEnds`, which are liveness, out of the prover's reach; and the
refutation.

## 6. What the code does not keep

Met while modelling; the modules do what the code does, and the properties are
stated so that they say what remains true.

- confirmOrder writes the status Stripe had before its await over what the webhook
  has written since (orderService.ts:296). The order may fall back from
  'succeeded', and the event is already acknowledged; `CaptureReachesOrder` says
  only that it was seen.
- A success event that is late or replayed finds 'refunded' different from
  'succeeded' and un-refunds the row (313). A crash between Stripe's refund and
  the write leaves 'succeeded' (336), and the retry is refused by Stripe, as is
  the second of two concurrent refunds (334). `PaymentBacked` holds in the other
  direction only: what reads refunded was refunded.
- refundOrder's update skips the columns equal to the instance it read, so status
  and payment_status can disagree (338).
- fulfillOrder may ship an order refunded since it was read, against "Only a PAID
  order can ship" (fulfillmentService.ts:152, 168), and write 'shipped' over
  'delivered' (169). `ShippedWasFunded` is what is left: it had been paid.
- A crash between persistOrder and the bind (237) keeps units reserved by an order
  nobody can pay, and one between the insert and the settling of a free order
  (224) leaves it unpaid for ever, because confirm returns early without an
  intent. A reused order ignores a new price or address (206). A seller's stock
  edit is an absolute write over concurrent decrements (productService.ts:229).
- A markFailed that throws under a worker that lives on strands a 'running' job
  until the next restart (worker.ts:90, 119; mediaJobService.ts:155). A second
  worker instance would requeue the first one's running job (168); deployment
  starts only one.
- The success event of a ticket whose row was dropped meanwhile is acknowledged
  and the money stays captured (eventService.ts:306). A user who has RSVPed and
  buys, or changes the RSVP with a payment pending, makes attendee_count drift
  (248, 174): these are the events in `muddled`. Stripe forgets an idempotency key
  after a day (paymentService.ts:61).
- reclaimOriginals clears source_url of rows whose objects S3 refused to delete
  (mediaRetentionService.ts:233, against 184-186). Any URL can be published
  (validators/videoValidators.ts:8): a publish that is sent twice shares one
  upload between two rows, and one may play another row's rendition. Reclaiming
  the one's original then takes the other's clip: `PlayableKept` excepts an object
  that is another row's too, by its publish or its encode. post_media has no
  updated_at, so an original a late encode has only just superseded is reclaimed
  at once (207); `RetentionKept` counts from its birth. A publish that comes later
  than the grace period may refer to an object already swept (125). Soft-deleted
  rows keep their URLs, so their media is never reclaimed
  (videoService.ts:180-184).
- A like and a dislike of one user in flight together both stay
  (engagementService.ts:39-56); `LikeXorDislike` says it takes that. Removing a
  comment takes nothing off comment_count (moderationService.ts:182, against
  "Keeps the video's comment_count coherent", commentService.ts:94). "Notify the
  author only on a NEW like, so toggling off and on can't spam the feed"
  (engagementService.ts:61) does not follow: taking a like back deletes the row,
  and the next one is new again.
- Two requests of one cart may each open an order, against
  orderService.ts:200-202: both look before either has bound its own. A worker
  that dies at the last attempt leaves a job that is requeued and started once
  more, against the budget of mediaJobService.ts:73-74 and 159-160:
  `BudgetPerLoss` counts what was lost. A payment_failed event may destroy a
  ticket settled since it was read, against eventService.ts:300-301 (331).
- Social graph: nothing refuses a follow or a request after a block, or while it
  is being made (socialService.ts:539); `BlockSevers` says the rest goes. Two who
  ask each other at once leave two rows, and friendStatusMap shows the last of
  them.
- Conversations: getMessages lists the OLDEST page of a thread, so a message
  beyond the two hundredth is never listed and is marked read all the same
  (`SeenOrUnread` excepts it by `PageLimit`). A handover that crosses another
  change of the roster may leave a group with no owner or two, the last two
  leavers an empty conversation, and leaveGroup works on a 1:1 too. Two users who
  open their 1:1 at once get one each.
- Sessions: a retry of a rotation whose answer was lost revokes the session, as
  reuse does. Two crossed requests for a code leave two live ones, and the older
  is good again after the newest was used. Parallel guesses pass the cap by as
  many as are in flight but one. A reset that dies between the password and the
  eviction leaves the old sessions; a login that had verified the old password
  opens one after it. Suspension revokes no session: is_active is looked at per
  request, and an open socket stays. cleanupExpiredOrRevokedSessions is called by
  nothing, although RevokedToken.ts speaks of a job. A socket's timer overflows
  when JWT_EXPIRES_IN is more than 24.8 days, and fires at once.
- Moderation: a takedown that crosses the author's delete may read as the
  author's, and the right to appeal goes with it; two moderators may decide an
  appeal both ways, and two taps file two. A takedown whose target is gone marks
  its reports actioned (moderationService.ts:176) where the comment says the
  transaction rolls back (167-168). An author's delete whose destroy lands on a
  row already taken down does not count as withdrawn: an appeal may bring the
  content back.
- Migrations: SequelizeMeta is written outside the transaction, so even a
  transactional migration that committed fails when it is run again after a crash,
  but for the seven in `Rerunnable`. Enum values, pg_trgm and
  enum_post_engagements_type are never undone, the last against the comment of its
  down. An interrupted undo of jsonb-snake-case leaves rows of the old shape under
  a migration that still counts as executed, and the old API, which serves until
  deploy.sh restarts it, writes some after the rewrite.
- Documents: docs/01-system-overview.md:87 and docs/05 say there is no background
  worker; docs/04-flows describes a rotation that revokes and inserts where the
  code updates in place; MediaJob.ts names a reapOldJobs that does not exist.

## 7. What is not modelled

- Feeds, ranking and search: queries that change no state. The score is SQL over
  floats and the clock, and the pages a keyset cursor cuts are the database's work.
- Pricing: arithmetic on the rows that were read. A product edit overwrites columns
  with what the seller sent, stock among them: of all this only delisting is in
  `Checkout`.
- Socket rooms, presence and call signalling: relays that keep no row; a call is one
  insert when it has ended. Connections are in `AuthSession`.
- Notifications, push, devices: best effort by design; failures are swallowed and no
  other part depends on them.
- Process lifecycle and HTTP edge: a linear startup and shutdown, stateless
  middleware and library code. That a process dies anywhere is in every module.
- Serializers, e-mail, geocoding, the seeder, backups: formatting, external calls,
  demo rows inserted once, file copies.
- Within the modules: prices other than free or not, addresses, texts, URLs and
  their parsing, ffmpeg, hashing and signatures, the listings that only read (but
  for the pages and views that a property is about). One migration runner is
  assumed to run at a time, and `Migrations` follows one row.

## 8. What is left

1. `FeedPages`: the keyset cursor (nothing repeated or skipped while rows are
   inserted and deleted between pages), with the score as an arbitrary function
   of row and instant for the ranked one.
2. The composition of `Moderation` and `Checkout`: a seller suspended, or a product
   taken down, under open orders.
3. The composition of `AuthSession` and `Moderation`: what a suspended account may
   still do through a socket that is open.
