# Verification of the Tekero backend

TLA+ models of the backend in `src/`, the TLC runs that check them on small
instances and the TLAPS proofs of what holds for every instance. The backend is
one NestJS process (`src/src/main.ts`, `app.module.ts`) over PostgreSQL
(Sequelize), RabbitMQ, Redis, S3 and socket.io.

## The system

Every API controller forwards a request over RabbitMQ with `rmqSend` to the
controller of the module that does the work, and turns its answer into an HTTP
status. The repository's README calls RabbitMQ the only way modules reach each
other; two modules call another one directly: `ChatGateway` uses `MediaService`,
and `NotificationsService` uses `PresenceService` and `PresenceGateway`. All
modules share the tables.

Nothing in the code takes a lock of its own. Calls interleave at every `await`,
row locks exist only inside a PostgreSQL transaction, messages are consumed
without acknowledgement (lost with the process), and every `rmqSend` gives up
after five seconds whatever becomes of the request.

| Component | State | Operations | Talks to | What is hard | What makes it correct |
|---|---|---|---|---|---|
| likes service | `like`, `chat`, `chat-user`, `user-stats` | sendLike, dismissLike, rejectLike, match, refill every two hours | tables; notifications after a success | stale reads, checks outside transactions, row locks, deadlock, failures in the middle | one like per user and ad, balance in range, match and chat together, every call ends |
| its database connections | the Sequelize pool | acquire, release, time limit | every handler | a transaction that is never ended, a second connection taken while one is held | connections come back, calls end |
| chat | `message`, rooms, sockets | connect, join, send, upload-image, disconnect | chat service by RabbitMQ, media directly | events before the membership check, late answers, join after the history | members only, nobody misses a message, what is shown is stored |
| rmqSend | a request and who waits for it | send, take, answer, give up, expire | all modules | a late answer, a lost request, a handler called twice | every call ends |
| notifications | `notification` | LIKE_RECEIVED, MATCH | the likes controller waits for it; presence | the reply waits for the notification, losses | at most one notification per event, and the caller learns what was done |
| presence | a Redis key per user, rooms | connect, set-online, disconnect, expiry | notifications | several sockets of a user, expiry, a disconnect during connect | online exactly while connected |
| questionnaire | `questionnaire`, `questionnaire-steps` | get, submit | tables | lost answers, completion from a stale count | no answer lost, completed when all are answered |
| advertisements | `advertisement`, its media | create, edit, publish, archive, search | media rows | lost edits, the life cycle, privacy of photos, a search that pages while ads change | valid filters, only public photos, ad and photos together, a search misses nothing |
| media | `media`, `media-access`, files in S3 | upload, get, delete, privacy, access | S3, chat tables | row and file apart, toggles | a row has its file, private means private |
| users, sessions, profiles | `user` and what belongs to it, `session` | create, register, delete, login, refresh, update | tables | statements outside the transaction opened for them | a user is there completely or not at all, one active session |
| api | a request and its client | one handler per operation: guard, check, `rmqSend`, status | all modules | the answer that comes late or never | every client is told something, and "ok" only of what was done |
| metrics, stubs, bootstrap | none of their own | | | | not modelled |

`PROJECT.json` lists the components with their sources, and the hazards line by
line.

## Modules

| Module | Models |
|---|---|
| `LikeLedger` | what the likes service promises: each operation one indivisible step on likes, chats and balances |
| `Likes` | `likes.service.ts`, one action per database statement |
| `DbPool` | the connections those statements need |
| `ChatRoom` | `chat.gateway.ts`, `chat.controller.ts`, `chat.service.ts` with `rmqSend` between them |
| `LikeCall` | what a client of the likes service may rely on: effect, notification and outcome of a call |
| `Presence` | `presence.gateway.ts`, `presence.service.ts` |
| `Notify` | a call from `api.likes.controller.ts` through `with-notify.ts` to `notifications.service.ts`, composed with `Presence` |
| `Rpc` | one request of a client to a service: guard, `rmqSend`, queue, answer, status |
| `Media` | `media.service.ts`, on `Rpc` |
| `AdBoard` | what clients may rely on about ads: who may change what, and at most once |
| `Ads` | `ads.service.ts`, composed with `Media` |
| `Questionnaire` | `questionnaire.service.ts`, on `Rpc` |
| `Accounts` | `users.service.ts`, `auth.service.ts`, `profiles.service.ts`, `user-stats.service.ts`, composed with `Questionnaire` |
| `MCLikes`, `MCDbPool`, `MCChatRoom`, `MCNotify`, `MCAds`, `MCAccounts` | the instances TLC checks |
| `LikesProofs`, `LikesRefinement`, `DbPoolProofs`, `ChatRoomProofs`, `NotifyProofs`, `AccountsProofs`, `AdsProofs`, `SearchProofs` | theorems and proofs |

### LikeLedger and Likes

`likes`, `chats` and `stats` are the committed tables; a `chats` record stands for
the row of `chat`, its two `chat-user` rows and, in its field `like`, for what the
chat was opened for (the table does not keep it). `cooling` are the rejected rows
younger than twelve hours. `req[r]` holds the locals of one running handler: its
next statement, its arguments and the balance it has read. An action is the code
from one `await` to the next.

* Reads without the option `transaction` see the committed tables, also in the
  middle of a transaction of the same handler: `rejectLike` and `match` do that.
* The writes of a transaction are installed by its commit. Until then the rows
  they touch are locked (`Holds`), a statement that needs a locked row waits
  (`Wants`, `Unblocked`), and PostgreSQL aborts one call of a cycle
  (`DeadlockAbort`).
* An error in a transaction and its rollback are one step, since nobody sees
  anything in between. A call that is refused before it has read anything it
  acts on (no such ad, own ad, no such like, not the author) changes no state and
  is left out.
* The query for a cooldown names neither the user nor the ad: while any rejection is cooling,
  every send is refused (`SendCheckCooldown`).
* `dismissLike` has no transaction: its delete and its refund are separate
  committed steps.
* The cron job is `CronStart`, `CronFetch` (a page), `CronRefill` (a row) and `CronFails`:
  nothing in it catches a read or an update that throws (the time limit of the pool is
  one such case), and the end of the process ends it as well. `cron.end` says how the last
  run has ended. The rows from there on wait for the next run, two hours later.

What is simplified: like ids are taken at commit (PostgreSQL draws them at the
insert; only their freshness matters), one run of the cron job at a time (they
are two hours apart), the connection is not lost between a commit and its
answer, and users and ads are not deleted meanwhile.

`LedgerImplemented` says that, seen from the tables, the interleaved handlers are
the indivisible operations of the ledger. `DecisionsStand` is about what no step may do:
take back a match, a rejection or a chat. The ledger leaves the new balance open
on purpose: the three violation runs below show why it cannot promise plus one
and minus one.

### DbPool

A handler is the list of its statements: `begin`, `tx` (with the option
`transaction`), `plain` (without), `commit`, and `check`, the read of `match`
between its begin and its `try`. `conn[k]` says who has connection `k`.
`getDbProviders` sets no pool option, so the pool has five connections and a call
waits at most sixty seconds for one (`Timeout`). Four modules create a Sequelize
for the same models, and the one created last serves the statements without a
transaction; whether that is the one whose transactions the service opens is
`onePool`, chosen at start. Which waiting call gets a connection is left open; the
real queue is first come first served, one of the behaviours of the model. The
connection that `match` loses holds no row locks (nothing has been written by
then), which is why `Likes` need not know of it.

### ChatRoom

One chat; chats share nothing else. `sock`, `room` and `seen` are the live sockets,
the socket.io room and the messages each client has been shown; `event[e]` is one
run of a gateway handler with its request (`queued`, `working`) and its answer
(`replied`). `awaited` is false once `rmqSend` has given up: the request lives on and
its answer is dropped. `handleConnection` sets the user before its first `await`, so
events are served while the membership is looked up; its success changes nothing
and its refusal is a `Disconnect`. No code path sets a chat to `ENDED` or changes its
members, so both checks of the service read constants. A crash loses what is
`working` (consumers use `noAck`) and leaves what is `queued`, with nobody waiting.
The media upload is only its outcome here.

### LikeCall, Presence and Notify

`Presence` keeps, per slot for a socket, the user in its verified token (`token`),
`client.data.userId` (`bound`, set when Redis has answered) and its rooms; `key` are the
users with a key in Redis. A command to Redis takes effect when it is issued (one
connection, in order) and its answer is a step of its own. A socket that joins before
it is bound joins the room `undefined`, here the room of `Nobody`.

`Notify` follows one call through its phases: `call[c]` in the likes service, `note[c]`
in the notifications service, `timer[c]` the two running `rmqSend`s in ticks,
`told[c]` the client. What the operations do to the tables is the subject of `Likes`.
`rejectLike` is decorated, but the notifications controller has no handler for its
event. `LikeCall` is the abstract specification: at most one effect, at most one
notification and only of an effect, one outcome, and "ok" only of an effect.
`CallImplemented` is the refinement, with `done <- Took` and `noticed <- stored`.

### Rpc, Media and Ads

`Rpc` has the life of a request: `pc[r]` is the next statement of its handler, `mem[r]`
what it has read and at the end its result, `told[r]` the HTTP status. `GiveUp` is the
time limit: it may come at any time, and the handler goes on. `Crash` stops handlers and
keeps what is in a queue. Handlers that call their service directly (`DirectOps`)
have no time limit and no queue.

`Media` has the rows (`rows`, `hidden` for private ones), the files (`objects`) and the
access rows. `getMedia` decides from up to four reads, `deleteMedia` deletes the file
first, `setMediaPrivacy` writes the negation of what it has read. `s3_upload` and
`s3_delete` may fail with or without effect. `seen` and `trusted` are history: what was
public, or open to the user, while a request ran.

Whether `getMedia` looks for a message and at the members of its chat depends on
`media_type`. No code sets that column: `uploadMedia` does not, by which the api stores
photos and the chat gateway the images of messages. So the model keeps apart the media that
have a message type (`ChatMedia`, by other means than this code) and those that a message
refers to (`Messages`). For an image of a chat without the type, `CheckMember` checks nothing:
it is given to everybody who may see a public medium. `UrlOnlyByRight` claims membership only
for media with the type, and the instance has images of both kinds.

`Ads` has the rows of `advertisement` with their photos. A transaction of `createAd` is
its reads, the insert that takes an id and the commit; the rows are visible at the
commit only. `editAd` merges the filter it has read with the one it is given and writes
the whole. Both write the columns that a body names, since the payload is spread over the author
and the status and the `ValidationPipe`s have no whitelist: an ad may be created for, or
moved to, another author, in any status (`columns` of a request, `Overwritten`). An edit, a
publication or an archiving looks at the author first and updates by the id alone, so that the
ad may have changed hands in between. The search reads a page per step. Of the filter, a list and an interval
stand for the others of their kind; the distance is left out, so every ad is near
enough. The status of an ad plays no part in the search, as in the code. `destroy` of
`Media` takes the junction rows of the medium with it (`DestroyMedia`).

`AdBoard` is the abstract specification of the ads. A request takes effect at most once, in
one step and before it ends; "ok" is told only of a change that has been made. An ad appears
whole and never goes; its photos were chosen by the request that created it and belong to the
user of that request. A change is made in two steps, because the code makes it so: a request is
allowed (`Allow`) when its user is found to be the author, and changes the ad later, one thing
at a time, or for an edit the filter and the columns its body names. The new filter is left
open, because an edit writes what it has merged from a stale read. The life cycle is left open
as well: that an archived ad is never published again, as a comment in
`ads.api-interface.ts` has it, is `ArchivedForGood`, which the run `ads_restored` violates.
`BoardImplemented` is the refinement, with `allowed <- Allowed` (the handlers between check and
update), `ended <- Ended` (requests served, refused or lost) and `ok <- ToldOk`.

### Questionnaire and Accounts

`account[u]` is the set of rows of a user, with a mark for a password that can match and
one for an email that has been changed, `questionnaire[u]` the row with its answers,
`session[r]` the session that the login `r` has opened. `before[r]` is history: the
requests that had ended when `r` was sent, so that two requests overlapped if neither
is before the other.

* `createUser` is one step: all of its statements are in its transaction. Whether it can
  succeed is left open: the api gives it no id for the user and no responses for the
  questionnaire, which the validator of that column may refuse.
* `register` creates the users row outside of its transaction: two steps.
* `deleteUser` opens a transaction and uses it for nothing: a step per table. The foreign
  keys refuse the users row while a row refers to it, and it never deletes the
  questionnaire.
* `editUser` writes what the body names. A password is written as it is, and nothing matches
  it any more; after a change of the email a login with the old one finds no user. It is
  assumed that no body names an `id`, or the email of another user: ids and emails stay apart.
* `updateUserProfile` updates only rows that the payload has a value for, and answers 404 when
  it has updated none, although the profile may be there.
* `openUserSession` is two steps, between which another login may do the same. Its tokens are told
  apart by their logins (`of`), which the code does by their texts: two logins of a user in the
  same second get the same text.
* `getQuestionnaire` counts an answer that is false as a condition (0, false, an empty text) as
  none (`AnsweredIn`), `submitQuestionByShortcode` as one.
* `submitQuestionByShortcode` reads the answers, writes them back with its own, and then
  compares the number it has read plus one with that of the active questions.

A registration that lost its user to a deletion and got it back from a second registration
gives that user two rows in every table, since `user_id` is unique in none of them. Of two
questionnaires the reads may find either: `CommitRegister` chooses the one that is found
from then on. The rows of the other tables hold nothing that the model tells apart.

## Runs

| Run | Checks | Distinct states |
|---|---|---|
| `likes_safety` | types, `BalanceBounded`, `OneLikePerUserAd`, `MatchesAndChatsAgree`, `OnlyMatchesDeadlock`, `DecisionsStand`, `LedgerImplemented` | 153,768 |
| `likes_liveness` | `RefillCoversEveryRow`, `EveryRequestFinishes`, `RefillFinishes` | 62,736 |
| `likes_two_chats` | violates `OneChatPerLike` | |
| `likes_lost_charge` | violates `SentLikeIsCharged` | |
| `likes_reject_credit` | violates `RejectionCostsNothing` | |
| `pool` | types, `HoldsWhatItUses`, `SendNeverWaitsHolding`, `EveryCallEnds` | 14,636 |
| `chat` | types, `OnlyMembersTakePart`, `RoomIsConnected`, `SeenIsStored`, `EveryEventEnds` | 107,020 |
| `chat_missed` | violates `JoinedSeesEveryMessage` | |
| `notify` | types, `PushReachesOwner`, `OkMeansNoticeSettled`, `CallImplemented`, `EveryClientIsTold`, `AbsenceShows` | 162,590 |
| `ads` | types, `UrlOnlyByRight`, `StorageAgrees`, `FilterAlwaysValid`, `PhotosWerePublic`, `CreateAllOrNothing`, `SearchExact`, `BoardImplemented` | 679,206 |
| `accounts` | types, `RegisteredIsFound`, `HalfUserHasCause`, `DeletedIsGone`, `SessionsSuperseded`, `AnswersKept`, `CompletedIsTrue` | 1,413,430 |
| `ads_restored` | violates `ArchivedForGood` | |

What the violations show:

* `likes_two_chats`: both matches of a like read the flag before either commits; the
  second waits for the row lock and then opens another chat.
* `likes_lost_charge`: two sends of a user read the same balance; one charge is lost.
* `likes_reject_credit`: one call after the other; the balance written to the sender
  of a rejected like is the author's.
* `chat_missed`: a message stored after the history was read and broadcast before the
  client is in the room reaches that client in neither way.
* `ads_restored`: an author archives an ad and publishes it, with nothing in between.

What the passing runs show beyond their names: a client that is told "failed" may have
had its effect (`CallImplemented` allows it, and nothing in the code prevents it), but
one that is told "ok" never waits for its notification any more
(`OkMeansNoticeSettled`: the time limit of `WithNotify` is that of the api, whose timer
was started first). A failed upload or delete leaves a row without file or a file
without row, nothing else does (`StorageAgrees`). `deleteUser` can not delete a user that
`register` or `createUser` has created: the questionnaire, which it does not delete, refers to
the users row, so that it fails there with stats, profile, settings and sessions gone
(`Referred`, `DestroyUser`; `HalfUserHasCause` has it among its causes). The answers to the questionnaire are
safe as long as a user's submits do not overlap, and the completion flag as long as
none answers a question again either; being registered again, which opens another
questionnaire, ends both (`AnswersKept`, `CompletedIsTrue` name the exceptions).
A refill that fails leaves rows without it, but never skips one (`RefillCoversEveryRow`).

Some properties excuse what the code does get wrong and nothing in the repository promises:
`SessionsSuperseded` logins at the same time, `AnswersKept` and `CompletedIsTrue` submits at
the same time, `AbsenceShows` says nothing of a connected user shown as absent, `SeenIsStored`
nothing of a message that is stored although its sender was told that it failed, and
`BalanceBounded` nothing of a charge or a refund that was lost. The notes of the hazards in
`PROJECT.json` say so where they apply.

### Bounds

* `likes_safety`: two calls at a time. Every race of the service is between two
  calls (or a call and a committed effect of an earlier one), and a third call only
  adds waiters; the proofs cover any number. Two like rows and two chats are enough
  for a like to be sent twice and matched twice, three users for one without a stats
  row, and `MaxLikes = 2` for both caps. The requests are interchangeable, so the run
  uses symmetry; it has no liveness property.
* `likes_liveness`: `BatchSize = 1` with two rows makes the refill turn pages, and it may
  fail or die at each; the run leaves dismissals and rejections out, whose only lock waits are on rows the other
  handlers lock too, to keep the graph small. The symmetry is off.
* `likes_reject_credit` has one request: concurrency is not needed.
* `pool`: as many calls as connections, so that each connection can be held by a call
  that waits for another one, and all can be lost.
* `chat`: a member and a stranger on two sockets, two handlers at a time, two
  messages, every fault. `MessageBound` counts messages stored or being sent.
* `chat_missed`: two members, no fault.
* `notify`: one call, of one of three kinds (decorated and handled, decorated and not handled,
  not decorated; `match` differs from `sendLike` only in who is told), a time limit of
  two ticks, so that both timers can be apart, two sockets, two connections, one crash. Calls share only
  sockets and keys, which the call itself does not change; the proofs cover any number.
* `ads` and `accounts`: three requests and one crash; `MCScenarios` lists what they ask
  for. In `ads` one request looks and two others change what it looks at: with two
  writes any pair of reads can be told apart. Bodies name another author and another status, or
  neither, when an ad is created and when it is edited. Pages of one ad with two ads, and a third
  one created meanwhile, make the search turn pages. The scenarios take the place of all
  combinations of three operations, most of which share no state.
* `accounts`: two active questions, so that one answer is not all and two are; an
  inactive one, an unknown one and a misfit.

Deadlock checking is off in the violation runs, where the bounds on rows stop the
system, and in `notify`, `ads` and `accounts`, where it stops when all requests have been
served.

### Fairness

* `Likes`: strong fairness for the next statement of each call and of the refill:
  PostgreSQL serves the waiters of a row in order, so a statement whose row becomes
  free again and again does get it; weak fairness for the deadlock detection. No
  fairness for the arrival of requests.
* `DbPool`: statements come back and the timer of a waiting call runs out. Nothing is
  assumed of the pool itself: `EveryCallEnds` does not rest on being served.
* `ChatRoom`: the timers of the process and of the broker (time limit, expiration) and
  the work a consumer has begun. That a consumer takes a request is not assumed.
* `Notify`: the timers of the process, the two callbacks that wait for them, and the
  expiration of keys in Redis. Nothing is assumed of the services behind the queues.
* `Media`, `Ads`, `Accounts`: none, they have safety properties only.

## Proofs

Every safety property of a passing run is a theorem here, for every value of the
constants, under the assumptions named in the modules: an ad has an owner, the table of
stats is finite and its ids are positive and distinct, the limits are positive, markers
are no users, requests or rows, the ads there are at the start have the first ids of the
sequence and filters their column accepts, each medium has an owner, and the requests are such as the validators of
the API let through, an upload making an id of its own and no body naming the id of a row (`AskedAssumption` in `Ads` and in
`Accounts`).

* `LikesProofs`. The invariants are not inductive by themselves. `IInv` adds that ids are
  fresh (`IdsFresh`) and what a handler knows at each of its statements (`LocalsOK`): a
  send past its balance check has read a positive balance, one about to commit has the
  only row of its key and the lock on that key, a match past its first write has the
  lock on a like that exists and knows its sender and ad. Such knowledge survives the
  steps of other calls because they would need the locks, so the exclusiveness of locks
  (`LockStep`) carries the argument. From `IInv`: `TypeCorrect`, `BalanceStaysBounded`,
  `LikeIsUnique`, `MatchComesWithChat`, `LocksStayExclusive`. The refill has an invariant of
  its own (`CronOK`): it has done the rows up to the last one it has come to, and what is
  left of its page are the next rows, none left out between them (`PageHasNoHoles`, from
  the cardinalities that define a page). A page that is not full is therefore the last one
  (`LastPage`). A failure keeps what is done and drops the rest of the page: `RefillIsComplete`
  says how far a run came, however it ended. A third invariant, `ChatsOK`, says that a chat has the id
  of a like of the past, which no new like gets again, and of a match if the like is still
  there: `ChatsAreOfMatches`, with `MatchComesWithChat` the whole of
  `MatchesAndChatsAlwaysAgree`. It also gives the action property `DecisionsAlwaysStand`. No run
  checks `LocksExclusive`, a part of `IInv`.
* `LikesRefinement`. Under `IInv` every commit, delete, refund and refill is a step of the
  ledger and every other step leaves its tables alone: `LikesImplementLedger`. A cycle
  of waits contains a call that waits and one that is waited for at each of its
  members; the lock order of sends, dismissals and rejections lets only matches be
  both: `SpecOnlyMatchesDeadlock`.
* `DbPoolProofs`. The invariant adds that only statements that take a connection are asked
  for (`AskedFromPool`). The statement lists are looked up once each (`SendProgram` to
  `Programs`). `PoolTypeCorrect`, `CallsHoldWhatTheyUse`, `ChargedSendNeverWaits`.
* `ChatRoomProofs`. The invariant adds what a handler knows (`EventsOK`): while it is
  waited for, its socket is the one it began with or gone, a granted answer is a
  member's, and the ids in it are stored. `ChatTypeCorrect`,
  `ChatIsPrivate`, `RoomStaysConnected`, `ShownIsStored`.
* `NotifyProofs`. `NInv` adds for each socket that it is bound to nobody else than the
  user of its token and is in no other room than that user's and `undefined` (`SocketOK`),
  and for each call what its parts know of each other (`CallOK`): a notification exists
  only of an effect, it is stored from the insert on and not before, and while the api
  still waits, its timer is not behind the one of `WithNotify`. The last is what makes
  `SpecOkMeansNoticeSettled` true for every time limit; neither property is inductive without
  it. From `NInv` also `NotifyTypeCorrect`, `SpecPushReachesOwner`, and the refinement
  `SpecCallImplemented`: `Execute` takes effect, `StoreNotification` is the notice, an answer
  or a timeout tells the client or stutters, a crash loses those who wait.
* `AccountsProofs`, for every number of users and requests and all they may ask for. `AInv`
  adds which handler a label belongs to and what it remembers there (`StageOK`), that
  history speaks of requests that have ended (`PastOK`), that who was told of his
  registration has all rows until a deletion begins (`RegisteredIsThere`), that an email has
  changed only by an edit that has begun (`RenamedOK`), and that a login
  that has outdated its predecessors stays without an active one among them
  (`SupersededOK`). `StepKept` says what a step has to observe (`TellsTruth`, `KeepsRows`,
  `KeepsSessions`); each action is shown to do so. `AccountsTypeCorrect` (with the foreign
  keys), `RegisteredStaysFound`, `HalfUsersHaveCause`, `DeletedStaysGone`,
  `SessionsAreSuperseded`. It assumes that a refreshed token is one of the same user.
  A second invariant, `KInv`, is about the questionnaires. What a submit has read holds the
  answers of all submits that ended before it began, or they are excused already
  (`SnapshotOK`); for a user whose submits came one by one it holds exactly theirs, so that
  the number read plus one is the number of answers after the write (`CountOK`), and the
  flag says whether they are all (`FlagOK`). A registration is harmless to those who are
  excused by it and to those who have written nothing (`NewRowKept`): `AnswersStayKept`,
  `CompletionIsTrue`.
* `AdsProofs`, for `Media` and `Ads` together. `MInv` adds what a request remembers at each of
  its statements (`StagesOK`: what it has found public was public while it ran, what
  `createAd` inserts has been accepted, which ids and photos an insert waits with), that a row
  is there only once its upload is over (`RowsSettled`), who has left a file without a row
  and who a row without a file (`StorageOK`, sharper than `StorageAgrees`), that uncommitted
  inserts have different ids (`IdsDistinct`), and where each ad comes from (`AdsOK`).
  `AdsTypeCorrect`, `UrlByRight`, `StorageStaysAgreed`, `FiltersStayValid`,
  `PhotosHadBeenPublic`, `CreateIsAllOrNothing`. The author of an ad is no part of it: a body may
  replace him, so photos are tied to the user of the request that created the ad (`by`). For
  the refinement `BInv` adds what a handler still holds at its last statement (`Rights`): the
  photos were chosen by its client, the medium to delete is the client's. That an ad is still
  the client's is no part of it, since it may have been moved. Each action then allows its
  request (`Permitted`), ends it in one step of `AdBoard` (`EndsServed`, `EndsRefused`) or is
  not seen (`Unseen`): `AdsImplementBoard`.
* `SearchProofs`. `SInv` adds what a search has found up to the last id it has seen
  (`PagingOK`): all ads up to there that have matched since it began, in order, and only
  such as have matched at some time. An ad that matches now or comes later has an id above
  the last one seen or has been looked at. That a page is the first `PageSize` ads of what
  is left, and all of it if there are fewer, comes from their cardinalities (`PageIsFirst`):
  `SearchIsExact`.

Only model-checked, since liveness is out of the prover's reach: `EveryRequestFinishes`,
`RefillFinishes`, `EveryCallEnds`, `EveryEventEnds`, `EveryClientIsTold`, `AbsenceShows`.

## Not modelled

* Connecting to RabbitMQ with retries, and what the second call of a handler that throws
  does (`rmq-utils.nest.ts`): an answer is sent once, the rest is an error in a log.
* What tokens contain and how they are signed; validation of single fields; cookies,
  formatting of errors, logging and metrics.
* The values of a profile, the texts, places and dates of an ad and the distance of a
  search; the age and the other lists and intervals of a filter, which are treated alike.
* S3 and Redis beyond their outcomes; the schema, seeders and infrastructure; the empty
  modules for actions and expenses; `setActiveChatLimit` and its like, which have no
  caller and no body.
* The chat service's upload in detail: `ChatRoom` has its outcome, `Media` starts with the
  chat media in place.

## Plan

1. Abstract specifications for `Media` alone and for the sessions of `Accounts`, refined as
   `Likes` refines `LikeLedger` and `Ads` refines `AdBoard`.
2. The hazards in `PROJECT.json` without a property: the refund that `dismissLike` loses,
   the image without its message, the presence of a connected user whose key has gone.
3. Row counts in `Accounts`, for what deletions do to a user with two sets of rows.
