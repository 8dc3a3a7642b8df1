# A verification model of the dating Mini App

TLA+ modules, TLC configurations and TLAPS proofs about the NestJS backend of the
dating Mini App (`src/backend`) and the parts of its React client (`src/frontend`) that
take part in a protocol. Paths below are relative to `src/`; `be/` stands for
`backend/src/`.

## 1. The system

A Telegram Mini App talks REST and Socket.IO to one Node process, which keeps all of its
state in PostgreSQL through Prisma. There are no locks and, with two exceptions
(`blockUser`, `fileReport`), no transactions: every `await` of a handler is a database
statement that commits on its own, and the handlers of other requests run between two of
them. What is correct rests on the order of the statements, on unique indexes, on foreign
keys and on cascades. This is why nearly all of the hazards are interleavings, and why the
models are written at the grain of one statement per action.

| Component | State | Operations | Talks to | What makes it correct |
|---|---|---|---|---|
| likes (`be/likes`) | `Like`, `DailyUsage.swipeCount` | swipe, who liked me | users, matches | a mutual like becomes a match; a new like of a free man is charged, within the quota |
| matches (`be/matches`) | `Match` | createMatch, unmatch, list | notifier | one row per pair, resting on both likes; none for a blocked pair |
| users (`be/users`) | `BlockedUser` | block, isBlocked, hasActivePremium | all of them | a block ends the match, and for good |
| messages (`be/messages/messages.service.ts`) | `Message`, `DailyUsage.newChatMsgCount` | history, send, mark read | users, notifier | only into an open conversation; new conversations of a free man are charged, within the quota |
| chat gateway (`be/messages/messages.gateway.ts`) | sockets, rooms | connect, join, send, typing | messages | the messages of a match reach its participants |
| payments (`be/payments`) | `Transaction`, the TON chain | order, confirm, verify | subscriptions | what is granted was paid, what was recorded is granted, once per hash |
| subscriptions (`be/subscriptions`) | `Subscription` | activate, hourly expiry | — | purchases add up; premium ends by time only |
| payment client (`frontend/src/ton`) | the wallet | buy | payments | a transfer the backend can recognise, reported once it is sent |
| reports (`be/reports`) | `Report`, `Profile.isVisible` | file, resolve | admin | five distinct reporters hide a profile |
| photos (`be/photos`) | `Photo`, S3 objects | upload URL, confirm, delete | S3 | at most six; a row has its object until it is deleted |
| discovery (`be/discovery`) | — | candidates, remaining swipes | users | whom it shows may be swiped on |
| authentication (`be/auth`) | `User`, tokens | login, validate | — | one account per Telegram user; a banned one is shut out |
| session of the frontend (`frontend/src/App.tsx`, `api`, `store`) | `authStore` | log in, call, log out | authentication | no page keeps a dead token, none is past the setup without a profile |
| profiles (`be/profiles`) | `Profile` | upsert, with the bounds that are given | discovery reads it | an edit leaves `isVisible` as it is; the ages looked for are a range |
| list of matches (`frontend/src/pages/MatchesPage.tsx`) | the list | load, open a chat | matches, chat page | what it shows, the chat shows as well |
| discovery page (`frontend/src/pages/DiscoveryPage.tsx`) | the cards | load, swipe | discovery, likes | every candidate gets a turn |
| admin (`be/admin`) | `User.status`, `Report.status`, `Language` | ban, unban, delete, resolve, statistics | — | a deletion leaves no dangling rows |
| chat page (`frontend/src/pages/ChatPage.tsx`) | the list shown | load, receive, send | gateway | shows each message once, in order |
| notifier, interceptors, guards, bootstrap | — | — | Telegram | — |

What is hard here:

* **check, then act** in separate statements: both quotas, the block check of
  `createMatch` and of `sendMessage`, the six-photo limit, the duplicate report,
  the extension of a subscription;
* **two statements that belong together** and may be parted by a crash: like and match,
  transaction and subscription, S3 object and photo row;
* **a guarantee by order alone**: each swipe writes its like before it reads the other's;
* **upserts that are two statements**: `match.upsert` has an `include`, so Prisma runs a
  SELECT and then an INSERT or an UPDATE;
* **midnight** between two evaluations of `todayUtc()`;
* **cascades** of a user deletion under requests in flight;
* **state looked at once**: the account's status when a socket connects, membership of a
  room after an unmatch;
* **partial updates** that are checked by themselves and not against what is stored: the two
  bounds on the ages looked for;
* **the age of a credential**: a page sends the `initData` it was opened with as long as it lives;
* **the chain**: a transfer is reported before it is included, may be out of the page of 20
  that is fetched, and carries no comment the way the client builds it;
* **a key that is the client's word**: `createOrder` stores nothing, and the hash, plan, wallet and comment
  of a confirmation all come from the client, independent of each other;
* **calls that fail with effect**: S3 may have removed an object although the answer was lost;
* **two sources of one list**: the chat page fetches the history and hears live messages, and
  nothing orders the two;
* **an answer put together from several moments**: the candidates are a fourth read after
  swipes and blocks were read;
* **closures**: the setup page continues with the token it had before a 401 logged it out.

`PROJECT.json` lists each of these at its line, with the properties that cover it.

## 2. The modules

| Module | Models | Depends on |
|---|---|---|
| `MatchPromise` | what swiping promises a pair: an abstract specification | — |
| `Matching` | swipe, createMatch, unmatch, block, ban, delete, crash; implements `MatchPromise` | `MatchPromise` |
| `MatchingProofs` | theorems about `Matching`, that it implements `MatchPromise`, and what that promise is worth | `Matching`, TLAPS |
| `MCMatching` | instances of `Matching` for TLC | `Matching` |
| `Billing` | transfers, confirm, activate, hourly expiry, delete, crash | — |
| `BillingProofs`, `MCBilling` | the same for `Billing` | `Billing` |
| `Messages` | sendMessage by REST and socket against what others do meanwhile | — |
| `MessagesProofs`, `MCMessages` | the same for `Messages` | `Messages` |
| `ChatRoom` | the list of matches, sockets, the room of a match, the list of a chat page | — |
| `Photos` | upload URL, confirm, delete, against S3 and its failures, crash | — |
| `Reports` | fileReport and its transaction, resolving, profile edits, deletion, crash | — |
| `Discovery` | one seeker's page, profile, swipes on their way and getCandidates, against what others do meanwhile | — |
| `Session` | initData, login, token, saves and logout on the pages of one person | — |
| `ChatRoomProofs`, `PhotosProofs`, `ReportsProofs`, `DiscoveryProofs`, `SessionProofs` | theorems about these | the module, TLAPS |
| `MCChatRoom`, `MCPhotos`, `MCReports`, `MCDiscovery`, `MCSession` | their instances for TLC | the module |

### How the modules correspond to the code

A request in flight occupies a slot of `Req`; `req[r].pc` names the statement it
executes next, and the other fields are the local variables of the handler that later
statements use. One action is one statement together with the synchronous code up to the next
one. A thrown exception ends the request (`Finish`). What a response says is left out.
The tables are variables indexed by their unique keys, so that a unique index is a
function and a second INSERT is visible as the conflict it is.

`Matching`, with the lines of `likes.service.ts` and `matches.service.ts`:

| Statement | Action |
|---|---|
| `JwtStrategy.validate` (`be/auth/jwt.strategy.ts:23`) | `Begin`, in `Swipe`, `BeginUnmatch`, `BeginBlock` |
| the five reads of the `Promise.all` (25–34) | `ReadTarget`, `ReadBlocked`, `ReadLike`, in any order; the sender's profile and subscription are read in `Swipe` |
| the refusals (36–39) | `Refuse` |
| `dailyUsage.upsert` and the comparison (46–53) | `PassQuota`, `ExceedQuota` |
| `dailyUsage.update` (54–57) | `Charge` |
| `like.upsert` (60) | `PutLike`; one `INSERT .. ON CONFLICT` |
| `like.findUnique` (68) | `ReadReciprocal` |
| createMatch: block check (14–23), upsert (26–34) | `CheckBlocked`, then `FindMatch` and `InsertMatch` or `UpdateMatch` |
| any of these once a user is deleted | `FailGone` |
| unmatch, blockUser | `Unmatch`, `Block` |

`status` has the extra value `GONE` for a deleted row; `DeleteUser` performs the cascades
of `schema.prisma`. `usage` counts 0 where there is no row.

`MatchPromise` knows no statements and no requests. Its state is who is a member, what each
user last said of each other one (`wish`), the blocks, the matches, the pairs that are
`owed` a match, and those `admitted` to one, which no block can deprive of it any more. The
refinement mapping in `Matching` (`Promise == INSTANCE MatchPromise WITH ...`) takes the
first four from the tables; a pair is owed a match while one of its requests is before the
block check and will find, or has found, the other like, and admitted while one is between that
check and the end of the upsert. Quota, bans, reads and midnight are stutters of the promise.
`Like` leaves open whether a like that meets a PASS is owed anything: `PutLike` writes the PASS over a
like whose own request may be past its read of the reciprocal one.

`Billing`: a transfer has the `comment`, `src` and `value` of its inMessage, and a report (`Dto`) a hash, a plan, a wallet
and a comment; nothing ties the four to each other or to a user, and any user may `Confirm` any report of `Dtos`. There is no
action for `createOrder`, which changes nothing. `Lookup`, `Verify`/`VerifyFails`, `Record` are the statements of `confirmPayment`:
`Verify` looks for a transfer with the comment reported and compares its source and its value (to the tolerance) as
`ton-verification.service.ts:43-63` does, and, as there, not the hash. `tx` and `sub` are indexed by the hash reported, the unique
`tonTxHash`. `ReadCurrent`, `Extend`, `CreateSub` are the statements of `activate`; `Extend` reads the clock anew, as
`subscriptions.service.ts:27` does. `ExpireOutdated` is the hourly job, at any hour. What the transfers of an
instance carry is the constant `Message`: the order comment, if the comment at `useTonPayment.ts:23` were true, none as the
code is (`Uncommented`).

`Messages`: `AssertParticipant`, `CheckBlocked`, `ReadProfile`, `CountPrior`,
`CheckQuota`, `Charge`, `CreateMessage` are the statements of `sendMessage` in their
order. `todayUtc()` is called before the check and again before the charge; the request
remembers the first (`today`), and `Charge` takes any day from then on. What the other
components do meanwhile (unmatch, re-match, block, ban, a swipe that creates the
day's row) is there as atomic changes of the tables.

`ChatRoom` takes up where `Messages` ends: `CreateMessage` is `message.create`, `Emit` the
broadcast after it, which only sends by socket have (`messages.controller.ts:36` does not
broadcast). `OpenMatches` and `GetMyMatches` are the list of `MatchesPage`, whose button (`HasButton`) is the way
to the chat; `preview` is the latest message as the list shows it. `Open` is the effect of `ChatPage`: it asks for the history, connects, and emits its only
`join_match`; `HandleConnection` and `JoinMatch` race, and the loser is refused. `ShowHistory`
replaces the list, `Receive` appends to it. `Reconnect` is what socket.io does by itself, without
a `join_match`. `watch` is a history variable: the pages that were ready when a message was
saved and have kept their connection.

`Photos`: `CountPhotos` and `FindDuplicate` are the two concurrent reads of `confirmUpload`,
`HeadObject` the question to S3 with its three outcomes, `Discard` the removal of an invalid
file, `CreatePhoto` the insert; `FindPhoto`, `DeleteObject` or `DeleteFails`, `DeleteRow` are `deletePhoto`. A call of S3 that
throws may have taken effect or not. `Broken` are the rows whose object is no image. `Crash` is part of `Next`. What the
page uploads is an image or something `confirmUpload` refuses (an empty file passes the checks of
the page). The page waits for an answer before it confirms a key again.

`Reports`: PostgreSQL's READ COMMITTED is in the modules as writes that stay with the request
until `Commit`; `CountReporters` sees the committed rows and its own. The foreign keys of the
inserted row hold off a deletion of either user until the transaction ends. A crash rolls
transactions back.

`Discovery`: `EditOwn` is `ProfilesService.upsert` for the seeker, with what the DTO lets through (`Dto`): a
name that may be blank and two bounds that may be missing. `ReadRemaining`, `ReadOwnProfile`, the three reads of the `Promise.all`
in any order, `FindCandidates` (the query with its 3 * limit, the distance filter, the
sort by score and the cut), `Answer`. Order by `updatedAt` is the permutation `rank`;
an upsert moves a user to its head. `isPriority`, the first key of the order, is false in every
row, since nothing in the repository writes it. `Swipe` is `onSwipe`, which posts without
waiting: up to `Post` swipes are on their way, while the page shows, closes or loads again. `ReadTarget`, `CheckQuota`, `Charge`,
`PutLike` are the statements of `LikesService.swipe` for each; the reads at its start are one moment here. A charge that
midnight overtakes goes to the row of the old day, so `NextDay` takes such a swipe past it. `complete` stands for `isComplete` and
`isVisible` together: `fileReport`, which clears the latter, is like an edit that takes its user off the list.
`left` is bookkeeping for `OutIsNotShown`.

`Session`: `Mount` posts the `initData` of the page, of any age (a reload sends the old one again), and `Valid` is
the verdict of `TelegramValidationService.validate`; `Reopen` is opening the app from Telegram, with a new one. `FindUser`, `CreateUser`, `UpdateUser` are the statements of `loginWithTelegram`,
`Bootstrapped` is the callback in `App.tsx` that fills the store. `SaveSetup` and `SaveEdit` are the
two pages that PUT the profile, `Saved` the continuation after their `await`: on the setup page
a `setSession` with the token of the closure. `CallRefused` and `SaveRefused` are the response
interceptor. A reload (`Mount`) drops the page's callbacks, not a save the server has let in.

### Abstractions

* Gender is a constant (`Male`); a profile edited during a request is not modelled. Who
  holds a subscription is nondeterministic within `Payer` at every read, which covers
  any expiry or purchase meanwhile.
* Whether a target's profile is visible and complete is a nondeterministic answer.
* Statements fail for unique keys, foreign keys and missing rows; a lost database
  connection is the same as a crash of the request and is covered by `Crash`, which
  loses all requests at once.
* A REST retry is a new request.
* The chain API may be asked about any report: what it does with a hash it does not know is in `VerifyFails`. Amounts
  are thousandths of a TON.
* The clock of `Billing` counts whole days. Only comparisons of moments and the addition of
  a plan's days matter, and both keep their sense under this rounding.
* `Messages` has no deletion of users (a deleted sender's statements fail, a deleted
  match fails the create); `Matching`, `Billing`, `Photos`, `Reports` and `Session` do.
* `ChatRoom` is the chat of one match, and the checks of `sendMessage` are reduced to the
  match being active; `Messages` has them. Packets of one socket arrive in order, or the
  socket is gone.
* `Photos` follows one user; a row's id is not used again.
* `Discovery` keeps the others' ages, and gender on both sides, fixed and puts users outside the gender preference out
  of the model; distance and score are constants of a user. Interests edited meanwhile would
  change a score between two answers, not within one.
  The seeker is a free man or one who swipes freely (a woman, a payer); `OTHER`, whom
  `getRemainingSwipes` counts and `swipe` does not charge, is not in it.
* `Session` follows one person. The lifetime of a token (30 days) is longer than a page
  lives. Of an `initData` only matters whether the hash is right, a user is named, and it is older than a day.
* Orders that make no difference to a property are left out: `Matching` reads the sender's profile and subscription
  before the other reads of the same `Promise.all`; a page of `ChatRoom` that reconnects while its `join_match` is still buffered
  counts as one that has lost it; `Session` has no reload while a login of the page is under way.
* Reading operations that nothing depends on (`getWhoLikedMe`, `findById`, `getMyProfile`, statistics) are left out.

## 3. What the runs check

Passing runs:

| Run | Specification | Properties | Shows |
|---|---|---|---|
| `MatchingAccounts` | with crashes | `TypeOK`, `MatchHasLikes`, `SwipeBudget`, `LikesPaidFor`, `PartedForEver` | swipes, blocks and unmatches of a pair over a midnight, with a third target, a deletion and its cascades, and crashes: no match without both likes, no parted pair revived, the quota passed by at most one swipe (two requests in flight), no first like of a free man uncharged |
| `MatchingLive` | fair | `MutualLikeIsMatched`, `PromiseKept` | two users who swipe, change their minds, unmatch, block, are banned and deleted, a subscription that comes and goes: every step is a step of `MatchPromise` or none, a mutual like is never forgotten and ends in a match, a block, or the end of a like |
| `BillingConcurrent` | safety | `TypeOK`, `OnlyPaid`, `OneActivation`, `PaidIsGranted`, `OverlapBudget`, `PremiumEndsByTime` | two transfers reported under three hashes by either of two users, one of them also as a plan it does not pay, through two confirmations at once, with the hourly job and a deletion: nothing is granted without a transfer worth it, a hash activates once, no time is paid for more than twice |
| `MessagesTraffic` | with crashes | `TypeOK`, `ClosedForEver`, `BanTakesHold`, `NewChatBudget`, `NewChatsPaidFor` | a man writes in two matches over a midnight while one of them is blocked, unmatched, matched again, and a user with a socket is banned and unbanned: a closed conversation gets nothing, a ban holds once the socket and the requests from before it are gone |
| `PhotosPages` | with crashes, patient user | `TypeOK`, `PhotoBudget`, `OneRowPerKey`, `OnlyDeletionBreaks`, `BrokenPhotoGoes` | pages of a user that confirm and delete two uploads against a limit of one, while calls of S3 fail with and without effect: the limit is passed by at most one photo, a key has one row, a photo loses its picture only to its own deletion, and what a crash or a lost answer has left without its object goes when its user asks again |
| `ChatRoomLive` | safety | `TypeOK`, `HeardOnce`, `NotBehindTheList`, `SameOrder` | two pages that come from the list, go and reconnect while two sends overtake each other: a page that is ready and stays connected hears every message once, in the order of the others, and a chat shows the message its list showed or a later one |
| `ReportsThreshold` | with crashes | `TypeOK`, `HideBudget`, `HiddenForReason`, `DuplicateBudget` | three reporters, two transactions at a time, a threshold of two: how late a profile is hidden, and that one reporter's duplicates never hide it |
| `DiscoveryPages` | patient seeker | `TypeOK`, `OutIsNotShown`, `BestAreShown`, `NearbyIsShown` | a page of one card out of the three freshest profiles of four, two of them too far away, for a seeker whose two swipes on their way overlap and may be refused: what a card may not show, what a page may leave out, and that every nearby user gets a turn |
| `SessionPages` | pages in use | `TypeOK`, `SameAccount`, `PastSetupHasProfile`, `DeadTokenGoes`, `PatientGetsIn` | two pages of a person whose account is banned, unbanned, deleted and made again, with `initData` that may be too old |

Runs in which TLC finds what the code or its documents promise violated by what the code does:

| Run | Property | Disagreement |
|---|---|---|
| `BillingCrash` | `PaidIsGranted` | a crash between transaction and subscription leaves a confirmed payment that a retry cannot activate (`payments.service.ts:30`) |
| `BillingNoComment` | `LandedIsGranted` | 'TonConnect UI builds the comment payload' (`useTonPayment.ts:23`): it does not, and no payment is ever recognised, not even for a patient client |
| `DiscoveryRange` | `AgesInOrder` | 'Minimum preferred age cannot exceed maximum preferred age' (`profiles.service.ts:35`): a PUT of one bound is checked against the default of the other, not against the stored one |

### What the properties had to concede

A budget instead of a limit is a statement about a race. These are the plain statements
that do not hold of the code, and what holds instead:

* 20 swipes a day (`README.md:21`), three messages a day to new matches (`messages.service.ts:7`), six photos, one open report of a
  user: each is checked by one statement and acted upon by another, so requests in flight
  together pass. `SwipeBudget`, `NewChatBudget`, `PhotoBudget` and `DuplicateBudget` say by how many:
  one less than the requests in flight, whatever happened before.
* 'Cannot match with a blocked user' (`matches.service.ts:23`): a block between the check and the
  upsert is overridden, and the blocked pair has an active match. `PartedForEver` promises
  the end of a match to blocks that no swipe in flight has overtaken.
* 'Extend from the current expiry' (`subscriptions.service.ts:22`): two activations at once
  extend the same expiry, and one purchase adds nothing. `NoOverlap` is proved for one
  at a time; `OverlapBudget` says how far it fails: no moment is paid for more often than there are
  confirmations in flight.
* `MutualLikeIsMatched` fails after a crash between the like and `createMatch`, and is stated of the specification
  without crashes. A swipe may be charged and its like not written; only the opposite is excluded (`LikesPaidFor`).
* One payment, one subscription (`ton-verification.service.ts:30`): the transfer found is not compared with the hash reported
  and its comment is kept nowhere, so a transfer reported under two hashes is recorded twice; `BillingConcurrent` has such
  reports. What is promised is per hash (`OneActivation`), and that a transfer worth it stands behind every
  subscription (`OnlyPaid`), not one for each.
* A photo has its object: not after a deletion whose call of S3 took effect and threw, nor after a crash between that call and
  the row. Nothing but that can part them (`OnlyDeletionBreaks`), and nothing repairs it but a user who deletes
  the photo again (`BrokenPhotoGoes`).
* A profile reported by five is hidden: not if the fifth and the fourth report do not see
  each other (`HideBudget`), and not if the profile is made after the reports (it is stated of `Settled`
  users).
* A banned account is shut out: not the socket it has open, whose status is looked at once
  (`messages.gateway.ts:42`), nor a request already let in. `BanTakesHold` says that nothing else gets
  past a ban.
* A chat page that is open shows what is sent: only from the moment it has its history and its
  room, and until its connection drops (`HeardOnce`). Before, a message may be dropped by the history
  or doubled by it; afterwards, the page hears nothing.
* A page shows nobody it should not: each reason to leave a user out is respected on its own
  (`OutIsNotShown`), but a user who blocks the seeker after the blocks were read and then completes the
  profile is shown.
* A logged-out page stays logged out: a save under way puts the refused token back
  (`ProfileSetupPage.tsx:215`); `DeadTokenGoes` says the next call takes it away again.

### Bounds

Every bound is a constant of the cfg. Slots (`Req`): two requests are what a race between
two statements needs; three hashes in
`BillingConcurrent` are one more than `OverlapBudget` lets overlap. `FreeDailySwipes`, `FreeDailyNewChats` and `MaxPhotos` are 1
and `HideAt` is 2: the code compares with these numbers only, so 1 and 20 differ in how long
it takes to get there. `LastDay` is 1 where midnight matters: requests of the first day reach
the second. `LastTime` 3 exceeds the longest plan of the instance, so subscriptions
end and are expired. `MaxSent` 1 stops a user from starting a second conversation-opening
send after a message is there; two sends in flight still both create theirs. Users are
two where a pair matters, three where a man must have more targets than swipes, three for two
matches; `ReportsThreshold` has one more reporter than the threshold asks for, and a user without a profile.
`PhotosPages` has one more key than the limit, which two confirmations can both pass, and a photo that breaks beside another.
`ChatRoomLive` has two
messages, which an order needs, and a history of one, so that it may lack a message that was live before.
`DiscoveryPages` has a limit of one, so that the query takes three of four profiles, two of them
too far away: a fourth is out of reach until the order changes, and a query that took no more than the limit would
show nobody; its two swipes on their way can pass the quota of one. Its clients leave the ages
looked for as they are, and only the name makes the own profile incomplete: with a narrowing the instance is four times as
large. What `OutIsNotShown` says of the ages is thus proved only, and the narrowing itself is met by `DiscoveryRange`.
`SessionPages` has two ids, so an
account is deleted and made again once (guard of `DeleteUser`).

`Swipes`, `Blocks`, `Unmatches`, `Files`, `Bannable`, `Deletable` and the like say who does what
in an instance; they are constants, so the proofs hold for all of them.

Slots, and in `ChatRoomLive` pages and messages, are symmetric and treated so where only safety is
checked.

### Fairness

`FairSpec` of `Matching` asks for weak fairness of the steps of each request: a statement that has
been sent is answered, by the database or by an error. Nothing else is fair: no user needs
to swipe again, no client to retry, no hour to strike. `PatientSpec` of `Billing` adds, on purpose, much
more than the frontend does (the transfer lands, a client reports it again and again, the chain API answers
now and then), to show that no patience helps a transfer without comment (`BillingNoComment`).

`PatientSpec` of `Photos` is a user who does not give up: statements are answered, and as long as a photo is shown without a
picture its deletion is asked for again (strong fairness, since the slots may be taken), and neither the calls of S3
nor the server fail each time. Nothing in the code does that for the user.

`PatientSpec` of `Discovery` is a seeker who stays with the app, as its empty page asks
('No more profiles nearby right now'): loads are answered, days pass, the statements of swipes are answered,
and a card that is shown again and again is swiped on at some time (strong fairness, since a card is
gone when the seeker leaves the page and opens it again). `Settled`, in `NearbyIsShown`,
excludes users who come and go in the listing for ever, and seekers who never leave their own profile complete.

`UsedSpec` of `Session`: requests are answered, a page that holds a token is used and makes calls (discovery, the
matches, the chat and the edit page do when they are mounted; the setup, premium and settings pages only when their user does
something, which is assumed here), and whoever sees the welcome page, which says nothing
but 'Open inside Telegram', opens the app from Telegram again. Only `PatientGetsIn` needs the last of these.
Nobody needs to save or log out, and `PatientGetsIn` promises nothing to an account that is banned again and again.

## 4. What is proved

Every invariant and action property that a passing run checks is a theorem as well. The theorems
are for any sets of users, transfers and reports, matches, pages and slots, any limits and any of the inputs,
from the assumption at the head of each module (`MatchingAssumption`, `BillingAssumption`, ...). These say what
kind of thing each constant is, and besides: user ids are integers (for `orderIds`); whatever is counted or
sorted is finite (slots, photos and keys, messages, the users of `Discovery` and `Reports`); limits are positive, plans
last at least a day, a page of discovery has 1 to 50 cards (`MAX_DISCOVERY_LIMIT`); a cfg lists as deletable, bannable and so on
only users that there are. `ReportsAssumption` asks for at least one slot,
without which nothing happens and a budget of "less than the requests in flight" would be negative.

Each proof has the same form: an inductive invariant (checked with TLC on the instance of section 3 before it
was proved), a lemma that `Init` implies it, lemmas that each action preserves it, and one temporal step. What
is worth knowing about them is the strengthening.

`MatchingProofs`, of `CrashSpec` unless stated otherwise

* `TypeCorrect`.
* `MatchesRest` (`MatchHasLikes`). Not inductive by itself: a request that is past its reads
  will write a match although it no longer looks at the likes. `RowInv` adds `Grounded` (each
  request past a stage has the rows that stage has seen) and `NothingLeft` (no row names a
  deleted user, so that a request whose rows were cascaded away can only fail).
* `MutualLikesMatched` (`MutualLikeIsMatched`), of `Spec`. The argument is the order of the two
  statements: whichever like is written second, its request then reads the first.
* `PartedStays` (`PartedForEver`), from `RowInv`.
* `SwipeBudgetKept`. Whoever passes the check saw a count below the limit, and everyone else who
  is about to charge holds another slot.
* `LikesPaidForHolds`. `PaidInv` counts on the side of the likes also the requests that have
  been charged and will write a new one (`Creating`), and says of a request that pays nothing that the
  like it has seen is still there, unless one of its users was deleted (`FreeOfCharge`).
  The sum of a user's charges over the days is stated as the number of elements of a set with one element for each
  charge (`Charges`): the sum itself is a fold, which would need an induction.
* `PromiseIsKept`: `Spec => Promise!Spec`, the step simulation under the mapping of section 2. The
  invariant is `RowInv` with `BlocksOthers` (a block in flight is of two different users). A step of one
  request changes `Owed` and `Admitted` in its own `Key` only (`OwedAfter`, `AdmittedAfter`), so each action is
  one case: the reads, the quota and the bans stutter; `PutLike` is `Like` or `Pass`; `CheckBlocked` is
  `Admit` or `Settle`; `InsertMatch` and `UpdateMatch` are `Make` or, if the row stands, `Settle`; `FailGone`
  concerns pairs that are no longer living. The hard case is `PutLike`: it may change what a request of
  the other user, between its like and its read, will find.
* `NobodyForgotten`: `Promise!Spec => []Promise!Remembered`, and `ClosedStaysClosed`:
  `Promise!Spec => Promise!ClosedForEver`, about whoever keeps the promise. `Like` records the debt in the step that
  completes the pair, and only a match, a block or a change of mind takes it off; `Admit` asks for
  both members and no block, and `Make` for an admitted pair. `PromiseMatters` draws the conclusion for `Spec`.
  The promise is about a server without crashes, since a crash forgets debts.

`BillingProofs`, of `CrashSpec` unless stated otherwise

* `TypeCorrect`; `OnlyPaidHolds`, `OneActivationHolds` and, of `Spec`, `PaidIsGrantedHolds`, from `LedgerInv`: what
  a confirmation has learned of a transfer and of its row stays true as long as its user is there, and a deleted user has no rows. The
  assumption leaves reports and transfers arbitrary: any number of reports may name one transfer.
* `PremiumEndsByTimeHolds`.
* `SerialPurchasesDoNotOverlap`: with one slot, `[]NoOverlap`. The invariant says what the
  request has learned: between reading the latest running subscription and creating the new one
  nothing can begin after it, whatever expires meanwhile.
* `OverlapBudgetKept`, for any number of slots. `BudgetInv` is about every user and every moment, in days: the
  subscriptions that cover it and the confirmations that may come to cover it (`MayCover`: those that have read an expiry
  no later than it, and those that have computed a time around it) are together no more than the slots. A confirmation that
  reads the running subscriptions joins only moments that nothing covers, since it has read the
  latest expiry; from there on it leaves moments behind, until it becomes one subscription.

`MessagesProofs`, crashes included

* `TypeCorrect`; `ClosedStays` (`ClosedForEver`); `BanHolds` (`BanTakesHold`).
* `NewChatBudgetKept`. `QuotaInv` adds that no request holds a day that has
  not come and that nothing is charged to such a day. Another part of it is of interest on its own,
  `AdmittedHasRowHolds`: the charge of an admitted message finds the row it was checked against.
* `NewChatsPaidForHolds`. As for likes: a request past its charge counts with the conversations as long as its
  user has not written in that match (`Opening`).

`PhotosProofs`

* `TypeCorrect`, `PhotoBudgetKept` (by the slots, as above).
* `OneRowPerKeyHolds`, `OnlyDeletionBreaksHolds`, from `KeyInv`: a key has one confirmation at a time
  (`OneConfirmation`: a page waits before it confirms a key again), and one past its check has found no row of it
  (`NoRowYet`) and an image (`HasImage`); an id that was used names no later row, so that a
  deletion in flight can hit no row but the one it has found (`HoldsKey`).

`SessionProofs`

* `TypeCorrect`; `SameAccountHolds`, `PastSetupHasProfileHolds`, from `SessionInv`: there is at most one row of the
  person (`OneRow`), and every token that a store, a login or a save holds is of an account that was made, and, where it is past
  the setup, has a profile unless it is gone (`Sound`).

`ReportsProofs`, crashes included

* `TypeCorrect`; `DuplicateBudgetKept` (`DuplicateInv`: a transaction past its reads has passed all of
  them, so only one that has found no open report inserts, and it holds a slot).
* `HideBudgetKept` (`HideInv`: with the budget, a settled user has a profile until deleted, and nobody in
  a transaction is deleted). A transaction that leaves the profile visible has counted less than the threshold, and misses
  only reporters of the other slots that are about to commit.
* `HiddenForReasonHolds` (`ReasonInv`: whoever is about to hide, or has hidden and not committed, has at least `HideAt` users
  behind it, who have filed a report or are gone).

`DiscoveryProofs`

* `TypeCorrect`; `OutIsNotShownHolds` (`OutInv`: who was excluded by a read, and has been out ever since for the same
  reason, is not in the candidates).
* `BestAreShownHolds`. The argument is by places: the position of a user among the candidates is how many are
  better than he is; scores with the order of the rows as tie-breaker make this one-to-one, so a page of `Limit`
  users has exactly the places below `Limit` (`FullPage`), and whoever has none is behind all of them.

`ChatRoomProofs`

* `TypeCorrect`, with `ConnInv`: a socket exists only where a chat is open, and a `join_match` that is being checked is of a socket
  that is in.
* `NotBehindTheListHolds` (`ListInv`): what a list or an answer under way shows never gets ahead of the rows, and a history
  asked for after the list has it, up to the size of a page.
* `HeardOnceHolds`, `SameOrderHolds`, from `HeardInv`: all that is seen is a row (`Known`), a message has one sender (`OneSender`), and each
  page that was ready when a message was saved has it in what it shows or in what its socket still carries
  exactly once, if it was broadcast (`Told`).

Only model-checked: the liveness properties (`Honoured` in `PromiseKept`, `BrokenPhotoGoes`,
`NearbyIsShown`, `DeadTokenGoes`, `PatientGetsIn`), since fairness is outside the prover's reach. The violations are
counterexamples of TLC.

## 5. Plan

Done: all of the modules above with their runs, and a theorem for each safety property a run
checks. Worth doing next, in this order:

1. A `Grant` specification for `Billing` (what is bought, paid, recorded and granted, once and for its whole
   length), with a refinement mapping and its step simulation, as `MatchPromise` is for `Matching`.
2. Safety of the liveness arguments: the invariants on which `BrokenPhotoGoes` and `PatientGetsIn` rest (that a request
   in flight can always take a step) as theorems.
3. `Messages` with the deletion of users, as in the other modules.

## 6. Not modelled

* `markRead`: it sets `isRead` of the messages, which nothing else in the code reads.
* Typing events and the notifier: they change no state.
* The HMAC of the Telegram login and the signatures of tokens: cryptography. `Session` has the verdict of
  the validation.
* Languages and statistics of the admin panel, and the lists `getWhoLikedMe` and
  `getMyReports`: single reads or statements that nothing depends on.
* What `PremiumPage` and the other pages show, and the state of their buttons: `buy` behind the button is in `Billing`,
  and a second press while one is in progress is a second order there.
* Serialisation, error formatting, bootstrap and layout.
* The seed script: it runs on an empty database, before there are requests. Its match rows ignore the order of the
  ids that `orderIds` keeps, so `MatchHasLikes` is about databases that were not seeded with it.
