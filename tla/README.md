# Verification of fastapi-bookshop

TLA+ specifications of the bookshop backend (`src/app`), TLC configurations that
model-check them on small instances, and proofs that TLAPS checks for every
instance.  File names below are relative to `src/app/` unless they end in `.tla`
or `.cfg`.

## 1. The system

A FastAPI process (several workers), a taskiq worker and scheduler, RabbitMQ
consumers, and a browser script; PostgreSQL holds the truth, Redis caches, locks
and counters, Qdrant and Elasticsearch are indexes derived from PostgreSQL,
ClickHouse an event log, Stripe takes the money.  Every HTTP request, webhook and
task owns one SQLAlchemy session (`core/db/postgres.py`: `autoflush=False`,
`expire_on_commit=False`), so between two statements of one handler any
statement of any other may run, and a session keeps using what it has read.

| Component | State | Operations | Interacts with |
|---|---|---|---|
| Checkout (`order/usecase/order`, webhook in `order/api/routers/order.py`, cron task) | `books.quantity`, `orders`, `order_items`, `payments`, `cart_items` | BuyBooks, BuyCart, ConfirmOrderPayment, CancelOrder, cancel_expired_pending_orders | Stripe (checkout session, webhooks), cart, catalogue |
| Cart and wishlist (`order/usecase/cart`, `order/usecase/wishlist`) | `carts`, `cart_items`, `wishlists` | AddBookToCart, SetCartItemQuantity, add/remove wishlist | checkout (reads and empties the cart), browser tabs |
| Authentication (`client/service`) | Redis: codes (`otp:<code>`, `otp:<email>`); `users` | register, log in with a code, Google OAuth | refresh sessions, e-mail task |
| Refresh sessions (`client/service/infrastructure/jwt`) | Redis: a key per token, a sorted set per user | sign in, refresh, logout, logout from all devices | authentication, browser tabs |
| Recommendation profile (`client/service/infrastructure/user/reco_profile.py`) | Redis: version, pending flag, lock, cached profile; Qdrant user vector | rebuild after user events, debounced | book events, feed |
| Book events (`product/service/usecase/book/personal_reco.py`, RabbitMQ consumer) | Redis dedup keys, `user_events` | view/wishlist/purchase events | profile |
| Reviews (`product/service/usecase/review`) | `reviews`, the totals of `books` | write a review, update the rating | admin |
| Index synchronisation (`product/service/infrastructure/taskiq`, `product/db/qdrant`, `product/db/elasticsearch`) | Qdrant points, Elasticsearch documents | sync_book, Qdrant reconcile, Elasticsearch re-index | admin, catalogue |
| Popular books (`update_popular_books.py`) | daily rows of `book_popularity_stats` | daily recompute | lists, feed |
| Book feed and paginators (`main_reco.py`, the query handlers, `app.js`) | cursors, the session's seen list, cached pages | pages of the personal feed, endless lists, search | profile, popular books, indexes |
| Support chat (`support/`) | `chats`, messages, Redis: manager lock, antispam counters, cached chats | user message, escalation, bot answer, assign, leave, close | managers, the bot's queue |
| Agents (`agents/`) | Redis: rate windows, turn lock, history, shown books, answer cache | one conversational turn | LLM, catalogue tools |
| Admin (`admin/`) | - | sqladmin screens on all tables | all tables |
| Core, shared, CLI (`core/`, `shared/`) | settings, clients, DI containers, response cache | - | - |

What is hard here is the same everywhere: state read before an `await` and used
after it, check-then-act on Redis and PostgreSQL, at-least-once webhooks and
tasks, locks with a TTL that are deleted without a look at their owner, and
processes that die between two commands.  `PROJECT.json` lists these hazards at
their lines with the properties that cover them.

What makes the components correct:

* checkout: a copy of a book is never lost or sold twice, no order is PAID
  without a completed Stripe session or canceled under a buyer who can still pay,
  every reservation is eventually settled and every payment recorded;
* authentication: an address becomes active with the password its code was asked
  with; a refresh token is dead once it was used, sessions stay within the limit
  and a logout from all devices reaches every one of them;
* profile and indexes: the derived data catch up with the last change, a cached
  profile is not older than the events that were handled;
* feed and lists: a visitor is shown every book, and none twice; a source that failed
  keeps its cursor, and exploration passes no book it has not handed out;
* reviews, cart, marks: totals, quantities and badges add up;
* support: one manager per chat, one device per user, a cached chat that follows
  its row, limits that end, no question lost;
* agents: one turn per user at a time, memory that agrees with the turns that
  finished while its keys live, no work recommended twice, no private answer given
  to somebody else.

## 2. Modules

| Module | Kind | What it is |
|---|---|---|
| `Orders.tla` | component | checkout, webhooks, sweep; one action per database statement or Stripe call |
| `OrderLedger.tla`, `OrdersLedger.tla` | abstract specification, refinement mapping | what checkout promises (Place, Cancel, Confirm, each indivisible), and `Orders` as an implementation of it |
| `OrdersInvariant.tla`, `OrdersProofs.tla` | proofs | the inductive invariant of `Orders`, its safety properties, the refinement |
| `RecoProfile.tla`, `RecoProfileProofs.tla` | component, proofs | one user's events, their consumers, the debounced rebuild of the vector, the profile cache |
| `Sessions.tla` | component | the refresh sessions of one account, one Redis command per action |
| `Accounts.tla`, `AccountsProofs.tla` | composition, proofs of both | extends `Sessions` with registration, login by code and Google: the forms end in a session request |
| `Support.tla`, `SupportProofs.tla` | component, proofs | the support chat of one user: sockets, managers, REST calls, bot |
| `Agents.tla`, `AgentsProofs.tla` | component, proofs | the assistant's turns |
| `RankedLists.tla` | operators | what the queries have in common: a set ranked by a key, cut, filtered |
| `FeedSampling.tla`, `Feed.tla` | pure algorithms, component | the sampling, diversification and blending of the feed; a feed session over its four sources |
| `Listing.tla`, `FeedProofs.tla` | component, proofs | an endless list: script, response cache, cursor paginators, popularity; the proofs of `Feed` and `Listing` |
| `IndexSync.tla` | component | Qdrant and Elasticsearch behind PostgreSQL |
| `Reviews.tla`, `Shelf.tla`, `StorefrontProofs.tla` | components, proofs | ratings of a book; cart, wishlist and the marks in browser tabs; the proofs of both and of the types of `IndexSync` |
| `DataLemmas.tla` | lemmas | facts about sums, folds, lists without repetition and ranked lists |
| `MCOrders.tla`, `MCRecoProfile.tla` (3 `.cfg` each), `MCSerial.tla`, `MCUser.tla`, `MCStorefront.tla`, `MCSessions.tla`, `MCAgents.tla`, `MCIndexSync.tla` (1 each) | model checking | instances; `MCSerial` is `OrdersLedger` and `RecoProfile`, `MCUser` is `Accounts`, `Support` and `Agents`, `MCStorefront` is `IndexSync`, `Listing`, `Feed`, `Reviews` and `Shelf` |

The parts put together in `MCSerial`, `MCUser` and `MCStorefront` share no state.  A
behaviour of the instance is a behaviour of one of them, chosen by the constant
variable `topic`, while the others rest in an initial state; so the run explores
the sum, not the product, of their states.

In all modules a history variable (`spent`, `solo`, `slack`, `told`, `raced`, `excused`
and others) records what a property speaks about and is read by no guard of a
program step.  Where the code promises something only to requests that do not overlap,
such a variable says whether they did.

### Runs

| Run | Instance | Bounds | Shows |
|---|---|---|---|
| `orders` | `MCOrders.cfg` | 2 orders for the one copy of one book, one of them from the cart; a web session and the sweep, both in flight; 1 crash; `FairSpec` | `IInv` (the types included), `PaidOnlyIfCompleted`, `NeverCanceledWhilePayable`, `StatusAgreesWithPayment`, `ReservationIsExact`, `PendingIsSettled`, `CompletedIsRecorded` |
| `serial` | `MCSerial.cfg` | handlers one after another; 3 orders, one from the cart, 2 books with 2 copies, 1 crash; 2 events, a consumer, a worker, a reader, 2 failures, with the fairness of `RecoProfile` | `LedgerImplemented`, `SavedIsReflected` |
| `reco` | `MCRecoProfile.cfg` | 3 events, 2 of them views of one book; 2 consumers, 2 workers, 3 processes at work; one fault of any kind (`OneMishap`) | `TypeOK`, `BuildersBounded`, `PendingHasTask`, `DoneIsSaved`, `StaleOnlyIfOvertaken` |
| `user` | `MCUser.cfg` | accounts: 1 browser, 2 requests, 2 tokens, 2 forms, 2 passwords, 2 codes, 1 session allowed; one disturbance (`OneDisturbance`): overlapping requests of an account for which one code is made, overlapping forms of which one session comes, or a failure; support: 2 devices, 2 managers, 2 chats, 5 events, the fifth a manager's; agents: 2 turns of one user, 3 books of 2 works, 1 window, 2 stimuli, or 3 of small talk or of searches one after another (`Brief`) | `TypeOK`, `ActivatedAsConfirmed`, `SpentIsDead`, `SessionsWithinLimit`, `HeldIsListed`, `SupportTypeOK`, `OneManagerPerChat`, `NewestDeviceStays`, `CacheTrailsItsWriter`, `LimitsAreLifted`, `NoQuestionLost`, `AgentsTypeOK`, `WindowsEnd`, `TurnsOverlapOnlyBySlack`, `NoExchangeForgotten`, `NoWorkTwice` |
| `storefront` | `MCStorefront.cfg` | list: 5 ids, pages of 2, 3 days, 2 stirs; feed: 5 books of two categories and none, two authors, 3 kinds of user, pages of 5 slots, 2 requests, 1 upset (a request sent twice, a failure or lost answer, a book withdrawn, a key that runs out); indexes: 1 book, 2 changes, 1 slip, 2 jobs; reviews: 2 readers, 2 requests, 2 reviews and edits; shelf: 1 book, 2 tabs, 2 requests, 3 deeds | `ListedOnce`, `FeedTypeOK`, `CursorsKeepTheUnshown`, `NoRepeatInSession`, `CapsYieldOnlyWhenForced`, `EndsOnlyWhenAllShown`, `IndexesConverge`, `ReviewsAddUp`, `CartAddsUp`, `MarksFollowTheShelf` |
| `orders_cart_stale` | `MCOrdersCart.cfg` | 2 web sessions and the sweep | violated: `CartReservationIsExact` |
| `orders_cancel_not_pending` | `MCOrdersCancel.cfg` | 2 web sessions and the sweep | violated: `CancelsOnlyPending` |
| `reco_flag_dropped` | `MCRecoProfileFlag.cfg` | 2 events, a consumer and a worker, two at a time | violated: `FlagDropIsCovered` |
| `reco_stale` | `MCRecoProfileStale.cfg` | 2 events, a consumer, a worker and a reader, two at a time; no failure of any kind | violated: `CacheIsFresh` |
| `agents_shared` | `MCAgentsShared.cfg` | 1 user, 1 turn at a time, 2 questions | violated: `SharedAnswersArePublic` |
| `logout_replay` | `MCSessions.cfg` | 2 browsers, 1 request at a time, 3 tokens | violated: `OnlyReuseIsReplay` |
| `index_vector` | `MCIndexVector.cfg` | 1 book changed three times, a sync worker and a reconcile, `IndexSpec` | violated: `VectorsConverge` |

The seven violated runs are disagreements between the code and its own comments:

* `CancelOrder` tests the status on an unlocked read and never again, so duplicated
  deliveries restock twice and a late confirmation is overwritten.
* The identity map makes `FOR UPDATE` useless for rows read before it: `BuyCart`
  sells what it read before the lock, and `CancelOrder` restocks a stale quantity
  the same way.
* An event that falls between the second version read of a build and the removal of
  the flag gets no rebuild.
* The handler of logout answers with a `Response` of its own, so the cookies are not
  cleared; the next page load refreshes with the removed token, which counts as a
  replay and signs out every device.
* `reconcile` overwrites payloads, the hash of the text included, after hashes
  it scrolled earlier: the vector of another text stays for good.
* `get` stores a profile it computed from events read before a save, after that
  event's consumer has deleted the cached profile: the next request does not see the
  event, as `personal_reco.py` promises, until the TTL or another event.
* The book branch's model is given the whole dialog, earlier answers about orders and the cart
  included, and what it answers is shared by branch and wording alone; `cache.py`
  says that only self-contained answers are.

Other behaviour the models have, which no run is about: the sweep cancels
an order whose `completed` webhook is late without asking Stripe; a payment takes all
copies of the books it paid for out of the cart, those asked for since the purchase
included; the feed leaves slots of a page empty when a source has moved its cursor past
books another one shows, and in a catalogue larger than `MAX_EXCLUDED_IDS` shows a book
again; `BookMainNewReco` moves its cursor past books of the window that the sample left out although
they fitted the cap (its comment says that only capped ones are lost); `for_user` records a page on the
session's list before the answer goes out, so that when the answer is lost and `app.js` sends its old cursor
again, the lost books are excluded; `filter_books` hands out works without recording them, so the
next semantic search may recommend them again; a bot's answer is saved in a chat that was handed to a manager since; of two
managers that assign themselves the last commit wins; a review that an admin adds, edits
or removes does not reach the totals, and an admin may give a user a second one; the page
key of the popular list is the last ten characters of the cursor's base64, so two cursors
with one id and different scores share a page; a search page whose books are all deleted
ends the scrolling; an empty catalogue removes nothing from Elasticsearch.  Where one of
these would break a property, the property names it as its exception (`mixedUp`,
`cutShort`, `edited`, `swept`, `excused` ...).

### Orders: how state and actions correspond to the code

PostgreSQL is `stock` (`books.quantity`), `lock` (row locks), `cart`, `items`,
`status`, `payment`; `restocks` is a history variable (how often the books of an
order were returned).  `status` has three values without a row: the request was
not made (`new`), is being served (`sent`), was refused (`rejected`).  Stripe is
`checkout` and `offered` (the response with the URL left the process).  `aged`
is the set of orders the cutoff of the cron task has passed.  A session is
`pc`, `ord`, and its identity map: `seen`, `seenPay` (the order and payment rows)
and `copy` (book quantities).  `copy` is where the model is precise on purpose:
SQLAlchemy does not refresh a row the session already holds, not even by
`SELECT ... FOR UPDATE`, and `book.quantity -= n` flushes an absolute value.

| Action | Code |
|---|---|
| `StartPurchase` | `BuyCart.buy` (cart and books read, unlocked) or the items of a `/orders` request; item limits |
| `LockForReserve`, `RejectPurchase` | `get_list_by_ids_for_update`, availability and quantity tests of `BuyBooks.buy` |
| `CommitReserve` | flush and COMMIT of transaction 1 |
| `CheckoutCreated`, `CheckoutFailed`, `SaveCheckout` | the Stripe call, its `except` branch, transaction 2 and the response |
| `StartConfirm`, `ReadOrderToConfirm`, `CommitConfirm` | `checkout.session.completed`, `ConfirmOrderPayment.confirm` |
| `StartExpired` | `checkout.session.expired` |
| `ReadOrderToCancel`, `LoadBooks`, `LockForCancel`, `CancelBusy`, `CommitCancel` | `CancelOrder.cancel`, in the same session for the Stripe failure and the sweep |
| `StartSweep`, `SweepOrder`, `EndSweep` | `cancel_expired_pending_orders`: one session, one transaction per order |
| `Crash` | the process dies; PostgreSQL rolls back and frees its locks |
| `Pay`, `Expire`, `Age` | the buyer, Stripe's `expires_at`, the clock |

Abstractions: an order id stands for its purchase request, so it is created
once; items of one request that name the same book are one basket entry;
`is_available` is the constant set `OnSale`; prices, addresses, e-mail and the
Stripe customer are left out; the user of a request exists; the limit of 100 ids per
sweep is above every instance.  `RejectPurchase` and `CancelBusy` are always
possible: the foreign-key check of a cart insert takes a `KEY SHARE` lock on the
book row, which `FOR UPDATE NOWAIT` refuses to wait for.  Timing assumptions:
`Expire` only when no session is about the order (`checkout_ttl_minutes`, 30, is
far longer than a request), and `Age` only when the Stripe session is over or the
purchase request has died (`EXPIRE_BUFFER_MINUTES`, 10, is longer than a Stripe
call).  Admin edits of `orders.status` (SHIPPED, DELIVERED) are not modelled; requests
that change the cart are in `Shelf`.

Bounds of `Orders`.  Every conflict is between two sessions about one order or one
book: two sessions in flight with two orders and one copy of one book give every
pair of handlers a common row, and the sweep is one of the sessions.  Overlapping
baskets need two books, which `serial` has.  `MaxInFlight` and `MaxCrashes`
bound the exploration; a session may be used again and again, so webhooks are
repeated without a bound.  The safety properties and the refinement are also proved
for all bounds (section 3).

Fairness (`FairSpec` of `Orders`).  A session that was started takes its next statement unless the process dies
(weak fairness of `Step`); `LockForCancel` is strongly fair: NOWAIT is tried
again every ten minutes and purchases hold rows for milliseconds.  The cron task
runs again and again (weak fairness of `Sweep`), time passes (`Expire`, `Age`).
Stripe repeats a completed webhook that was not answered with 2xx (strong
fairness of `StartConfirm`).  Nothing makes an expired webhook arrive, a buyer
pay, or a purchase start.

### RecoProfile: how state and actions correspond to the code

One user, because every key, task and point is per user.  RabbitMQ is `msg` (the
state of each event's message) and `tasks` (rebuild tasks in taskiq's queue, by
the number of the run); PostgreSQL is `rows`; Redis is `dedup`, `version`,
`pending`, `lock`, `profile`, `vector`; Qdrant is `point`.  A profile, and a vector
computed from it, is the set of events it reflects.

| Action | Code |
|---|---|
| `Take`, `Settle` | `_process_message`: `message.process(requeue=False)`; an exception dead-letters the message |
| `Dedup` | `_is_duplicate_view`: `SET NX EX 60`, for a VIEW |
| `Save`, `SaveFails` | the transaction of `BookPersonalRecoForUserUC.generate` |
| `Invalidate`, `IncrementVersion`, `SetFlag`, `Schedule`, `Outage` | the two `try` blocks after it and `_update_user_reco_profile` |
| `StartRead`, `GetProfile`, `ReadEvents`, `SetProfile`, `GetVector`, `ReadPoint`, `WarmVector` | `UserPersonalBooksRecoProfile.get`, for a feed request and inside a build |
| `StartBuild`, `HasPending`, `StartVersion` | the head of `build`: lock, flag, version |
| `Embed`, `SetVector`, `SavePoint` | `_update_profile` after `get` |
| `EndVersion`, `RemovePending`, `Rebuild`, `Reschedule` | the tail of `build`, `_rebuild` |
| `BuildFails`, `ReleaseLock`, `Retry` | `except`, `finally`, `SimpleRetryMiddleware` |
| `Publish`, `ExpireFlag`, `ExpireLock`, `ExpireKeys`, `Crash` | the routers, the TTLs, the death of a process |

Abstractions: every event names a book that has a point in Qdrant (a build leaves
early only when there is no event); weights, decay, scores and texts are left
out; a command that raises has not taken effect; `release_lock` does not raise.
A retry takes the task's labels along, the delay too, and a task runs while its
`max_retries` (3) is not used up; a task is acknowledged when its result has been
saved, so a worker that dies gives it back.  `Prompt` is the timing assumption that
the last Redis calls of a build (flag, schedule, release) take less than the 30
seconds a task waits in the delayed exchange (`VECTOR_UPDATE_DELAY`): without it a
task scheduled by `_rebuild` could find the lock of its own scheduler and end.

Bounds of `RecoProfile`.  The conflicts are between a consumer and a build, a consumer
and a reader, or two builds; two events make the version move during a build, and a
third makes a view a duplicate of another.  `reco` has one crash, outage,
expiration or exception per behaviour; `BuildersBounded` is proved for any number.
`CacheIsFresh` says what `personal_reco.py:42-43` promises, and `reco_stale` refutes it
with one reader that overlaps one consumer.  `StaleOnlyIfOvertaken` is what remains true
under any overlap: `overtaken` are the gets that read the events before one was saved and were
still on their way to the cache when its consumer deleted the profile, and only what such a get stores
(`spoiled`) is too old.
The code claims nothing for a consumer that dies between the dedup key and the save
(the redelivered view is a duplicate) or between the flag and the task (the flag
blocks further events until its TTL), and `DoneIsSaved` and `PendingHasTask` except
these.  `serial` has no expirations of the flag (its TTL of 120 s is longer than
the 30 s delay) and handlers that do not overlap, since `reco_flag_dropped` shows
what overlapping ones do.

Fairness (`FairSpec` of `RecoProfile`).  A handler that was started goes on (weak
fairness of `Step`); RabbitMQ hands out its messages and due tasks to some consumer
or worker, which is busy again and again, hence strong fairness of `Take` and
`StartBuild`.  Nothing makes an event be published or a feed be read.

### Sessions and Accounts: how state and actions correspond to the code

`Sessions` is `client/service/infrastructure/jwt/refresh_session.py` and its use cases
for one account.  Redis is `keys` (a key per token), `listed` and `scores` (the sorted
set and its scores); the browsers' cookies are `cookie`.  A request is `req[r]`; between any
two of its commands another request may run or it may die.

| Action | Code |
|---|---|
| `SignIn`, `Refresh`, `Logout`, `LogoutAll` | the endpoints of `client/api/routers/user.py`; a token is generated |
| `CheckToken`, `ReadUser` | `JwtRefreshTokenUpdateUC.execute`: `is_exists`, the user's row; a replay or an inactive account goes to the purge |
| `DropKey`, `Unlist` | `remove`: DEL, ZREM; a logout is answered, with the cookies still in the browser |
| `CountSessions`, `FindOldest`, `EvictKey`, `EvictListed`, `StoreKey`, `ListSession` | `create`: ZCARD, ZRANGE 0 0, DEL, ZREM, SET, ZADD |
| `Reply` | `set_auth_cookies` |
| `PurgeRead`, `PurgeKeys`, `PurgeList` | `remove_all_user_sessions`: ZRANGE, DEL, DEL |
| `Die`, `TimeOut`, `SetActive` | a request dies, a key times out, an admin changes `is_active` |

`Accounts` extends it with one address: `row` is its row in `users` (`active` of
`Sessions` is `is_active`), `codes` and `byEmail` are the two Redis keys of a code, `mailed`
the codes that reached the mailbox.  `form[f]` is a request; the last step of one
(`ForgetCode`, `EnterByGoogle`) is `SignIn` of `Sessions`, so the sign-in of the account and
the rotation of its tokens are explored together.

| Action | Code |
|---|---|
| `Register`, `Login` | `UserAuthenticationUC`: the row, password and provider |
| `CheckCode`, `StoreCode`, `StoreEmail`, `SendMail` | `is_otp_not_expired`, `OtpAuthSession.create` (SET, SET), the mail task |
| `SaveUser` | INSERT, or UPDATE of an unconfirmed row with the new password |
| `Confirm`, `ReadRow`, `Activate`, `ForgetCode` | `UserAuthorizationUC.login_confirm`, `register_confirm` |
| `Google`, `SaveGoogle`, `EnterByGoogle` | `UserGoogleAuthorizationUC.authorize` |
| `Abandon`, `Expire` | a form dies, a code times out |

Abstractions: a confirmation carries a right code, a login a right password (a wrong one
changes nothing); the times of keys are an order.  `SpentIsDead` holds under every
interleaving.  `SessionsWithinLimit` and `HeldIsListed` are promises to requests that
do not overlap, dead ones included: two that do overlap both count before
either adds, and a purge may miss what is added after its ZRANGE.  `ActivatedAsConfirmed`
holds while forms do not overlap: `is_otp_not_expired` and `create` are two commands.
One browser, one session allowed and two tokens are enough for an eviction, a rotation
and a replay; the proofs remove the bounds.  No liveness: nothing is promised to a
request that dies.

### Support: how state and actions correspond to the code

The chats of one user, `chats`; what Redis caches of them for the user (`userCache`) and for
managers (`chatCache`); the antispam counters (`rate`, `spam`, `muted`); the manager lock
of each chat (`locks`); the bot's queue (`queue`, `bot`, `settled`, `answered`).

| Action | Code |
|---|---|
| `Connect`, `Subscribe`, `Disconnect` | `support_chat_user_ws`: a device announces itself, then listens; another one hangs up when it hears of it |
| `SendText`, `CheckMute`, `CountMessage`, `ExpireRate`, `CountViolation`, `ExpireSpam`, `Mute`, `ForgetViolations` | `_check_user_antispam`, `_register_spam_violation`: INCR and EXPIRE one by one |
| `ReadCache`, `FindChat`, `CreateChat`, `StoreCache` | the `redis_cache` around `get_or_create_user_chat` |
| `SaveMessage`, `DropUserCache`, `AnnounceTransfer`, `AskBot` | `ChatEscalationUC.handle_user_message` |
| `CloseByUser`, `FinishClose` | `CloseChatUC.by_user` |
| `OpenSocket`, `ReadLock`, `Unlock` | `support_chat_manager_ws`; the `finally` block gets the lock, compares, and deletes |
| `ManagerText`, `CacheChat` | `HandleManagerMessageUC`: the cached chat or its row, and the SET that fills the cache |
| `ReadForAssign`, `CommitAssign`, `UncacheAssign` | `AssignManagerToChatUC` |
| `LeaveChat`, `UncacheLeave`, `CloseByManager`, `UncacheClose` | `ManagerLeaveChatUC`, `CloseChatUC.by_manager` |
| `RestAssign`, `RestCommit`, `RestClose`, `RestUncache` | `ManagerChatService`, `chat_router.py` |
| `TakeQuestion`, `Answer`, `Acknowledge` | the consumer of `LLM_QUEUE` and `BotAnswerUC` |
| `Crash`, `CrashManager`, `CrashConsumer`, `KeyLapses`, `LockLapses` | dying workers, TTLs |

What the properties except is what the code lets happen: a lock that ran out under a live
socket (nothing renews it), a reader that stores a chat it read before the DEL
(`excused`), a counter whose EXPIRE died with its worker (`orphaned`), two devices that
announce themselves before either listens.  Five events give a message, its escalation,
an assignment, a lapse and a close.  No liveness: the bot may fail for ever, a manager may
never come.

### Agents: how state and actions correspond to the code

`turn[t]` is one `stream_chat` request.  Redis is `windows`, `turnLock`, `history`, `shown` and
`answers` (the shared cache).  `turnLock` remembers which turn set the lock; the code
stores `"1"` and deletes the key whoever set it.

| Action | Code |
|---|---|
| `Ask` | a message arrives |
| `CountTurn`, `ExpireWindow`, `LimiterFails` | `AgentRateLimiter.check`: INCR, EXPIRE; on a Redis error the turn is let in |
| `AcquireTurn`, `AcquireFails` | the length limit, then SET NX EX; again open on errors |
| `LoadHistory`, `LookUpAnswer` | `_stream_turn`: history, `match_smalltalk`, the shared answer |
| `Route`, `Think` | the graph: intent, tool calls, `MaxRounds`, the recursion limit |
| `FilterBooks` | `filter_books`: books by author, price and the like, recorded nowhere |
| `StartSearch`, `FindBooks`, `ReadIds`, `ReadEntries`, `RememberShown`, `EndSearch` | two semantic searches of one round, side by side, and `ShownBooksTracker.add`: a GET for the ids, another for the entries, the SET |
| `WriteAnswer`, `ReadHistory`, `AppendHistory`, `ShareAnswer` | the end of the turn |
| `ReleaseTurn`, `ReleaseFails`, `ClientLeaves`, `WorkerDies`, `LockExpires`, `KeyExpires`, `HistoryExpires`, `ShownExpires` | `finally`, disconnects, crashes, the TTLs of the lock, of counters and shared answers, of the dialog, of the books shown |

A model's words are a choice of branch, tool and whether it asks a question back; six messages
stand for what the code tells apart (small talk, a contextual word, too long, cacheable or not, about
orders).  What a turn has handed out (`advised`, `repeated`) is recorded where
`ShownBooksTracker.add` writes it, so a turn that dies between the search and that
write has shown nothing.  An exchange carries the private tools (`orders`, `cart`) its answer was made with and
those of the exchanges its model was given (`CarriedBy`): what a model had before it, it may repeat.
`NoExchangeForgotten` and `NoWorkTwice` speak of what is kept while the keys live: the dialog holds all that was said since its
key last ran out (`since`), or the window; works handed out count from when the list last ran out.  Users whose searches overlapped or whose
list overflowed are `lossy`: two searches may recommend one work, and even list one id twice.  `RoundsAssumption`: the tool rounds end before LangGraph's recursion
limit.  Two turns of one user are all the lock is about; two messages reach every
tool.  The proofs hold for any number of turns and windows.  `agents_shared`, which is violated, needs no overlap: its turns come one at a time.

### Feed and FeedSampling: how state and actions correspond to the code

`FeedSampling` has the pure parts of `main_reco.py` as operators: a weighted draw is the set of
results it can have (`WeightedSamples`, from the rule of one pick, `PickFrom`), `DiversifiedPicks` the picks under the category and author
caps and their relaxations, `NewPicks` those of the new books, `Mix` the blender with its fallback order.  `Feed`
ranks the books by the keys of the queries (`BySales`, `ByNewest`, `ByRandomKey`, `ByPopularity`, `ByAffinity`)
and is a session over them: the client's `cursor` with the part of each source, the seen list in Redis, the
books on sale, the index.

| Action or operator | Code |
|---|---|
| `Explore`, `NewBooks`, `PopularBooks`, `Nearest`, `Rerank`, `Collaborative`, `ColdStart`, `Personalized` | the four sources with their fallbacks, echelons, offsets and wrap-around |
| `Send`, `Gather` | `BooksMainRecommendationsQH.for_user`: the seen list and the pools are read, the sources queried and blended; one of them may fail (`Unmoved`) |
| `LoadPreviews`, `Record`, `Deliver` | `get_preview_by_ids`, RPUSH and LTRIM of the seen list, the answer with its cursor |
| `Fail` | `app.js`: a request fails, or its answer is lost, at any of these points, and is sent again with the cursor it had |
| `Withdraw`, `SyncIndex`, `Lapse` | books leave, the index follows, the session's key expires |

`served` are the books recorded on the seen list, delivered or not, and `EndsOnlyWhenAllShown` is about these.
`CursorsKeepTheUnshown` compares the two cursors of a request: the part of a failed
source is the same in both, and the key of exploration has passed nothing that is not on the page or excluded.  The
new and popular sources pass books on purpose (capped ones) or by sampling, so that nothing of the kind holds of them.

The popular source lists only books with a score (`main_reco.py:608-630`), and the session's list is cut to
`MAX_EXCLUDED_IDS`: `NoRepeatInSession` speaks of sessions the list is long enough for, which in the run
is every session (five books, five places), and in the proof any.  `CapsYieldOnlyWhenForced` compares `DiversifiedPicks` with what a best pick must satisfy.  Five books of
three categories and two authors make every cap bind and every pool run short.  A recent
impression makes a book rarer, never impossible, and is left out.

### Listing: how state and actions correspond to the code

A scrolling page of one of the lists (new, popular, category, search): its cursor and what it has shown (`page`),
the pages in Redis, the rows, the search index and the daily popularity scores.

| Action | Code |
|---|---|
| `LoadNext`, `Render`, `RequestFails` | `createCursorPager` of `static/js/app.js` |
| `OtherAsks` | another visitor, through the same cache |
| `Hit`, `MakePage`, `Hydrate`, `StorePage`, `ExpirePage` | `redis_cache`, `BookSQLAlchemyCursorPaginator`, `BooksElasticREPO`, `CategoryBooksSearchQH` |
| `AddBook`, `RemoveBook`, `SyncSearch`, `UpdatePopularity` | admin, synchronisation, `update_books_popularity` over a window of days |

### IndexSync: how state and actions correspond to the code

| Action | Code |
|---|---|
| `ChangeBook` | `BookAdmin.after_model_change`, `after_model_delete`: the row, and a task that may get lost |
| `TakeSync`, `ReadBook`, `SyncElastic`, `SyncQdrant`, `SyncFails` | `sync_book_task` with `SimpleRetryMiddleware` |
| `StartReconcile`, `ReadRows`, `ReadHashes`, `EmbedAndUpsert`, `OverwritePayload`, `RemovePoints`, `Unlock`, `ReconcileFails`, `LockExpires` | `qdrant_index_books_task` under its lock, `BooksQdrantCollection.reconcile` |
| `StartBulk`, `BulkIndex`, `DeleteMissing`, `BulkFails` | `elastic_index_books_task` |

A row is its text, the rest of its payload and whether it is on sale; a point has the text
its vector was made of beside the hash it carries.  Fairness (`IndexFairness`): cron starts the
two jobs again and again and RabbitMQ hands out its tasks (strong: all workers may be
busy for a while), what was started takes its next step, a lock with a TTL ends (weak).  Nobody has
to change a book.  Under it payloads and documents converge whatever is lost, late or
raced, and vectors do not (`index_vector`).  `BookIds` has one book: no step of the code relates two,
except the bulk jobs, which take each as it is, and the empty catalogue.

### Reviews and Shelf: how state and actions correspond to the code

| Action | Code |
|---|---|
| `BeginReview`, `ReadTotals`, `FindReview`, `SaveReview`, `ReviewFails` | `WriteReview.for_book`, `set_avg_rating`: the book is read, a second review of one user refused, the review inserted, the changed columns of the book written |
| `AddReview`, `EditReview`, `RemoveReview` | `ReviewBookAdmin`: its form has the user, the book and the rating of a review; the totals are left alone |
| `Click`, `ReadShelf`, `WriteCart`, `AddWish`, `RemoveWish`, `ClickFails`, `Reply` | the four requests of `order/usecase/cart` and `order/usecase/wishlist`; unique keys refuse the second INSERT, a row that is gone its UPDATE |
| `LoadPage`, `ReadList`, `ShowLists` | `app.js`: a tab asks for both lists and replaces its marks |
| `Buy`, `Confirm` | `BuyCart` and `BuyBooks` leave the cart alone; the payment's webhook, once or twice and however late, deletes the rows of the books of the order |
| `EditCart`, `EditWishes`, `MoveStock` | `CartAdmin`, `CartItemAdmin`, `WishlistAdmin`; the stock changes |

Transactions are READ COMMITTED; a write is made of what was read.  Without overlap totals and
quantities add up; with it the code loses an update, and the properties say exactly when and how much: a review whose commit
came late (`raced`) costs whole reviews, never a part of one; a request that had been overtaken (`late`) makes its book `mixed`, and even
then the cart holds nothing that was not asked for.  `owed` is what the answered requests add up to; a payment takes off it what
was owed at the purchase (`since` of an order holds what was asked for after it), and where the deletion took more the book
is `swept`.  What an admin enters is owed.  `Rounded` rounds ties to even as Python does; from twenty reviews on a tie may
fall either way, since the average is a float, which no instance reaches.

## 3. Proofs

Each proof module extends its component, holds for all values of the constants that
the named assumption allows, and follows one scheme: an inductive invariant, a lemma per action with a
step per conjunct, the theorem for the specification, and the properties as corollaries.

From `OrdersAssumption` (any books, orders, users, sessions, any bound):

1. `Invariance`: `Spec => []IInv`.  The safety properties are not inductive: that
   a PAID order was completed depends on what a confirming session knew when it
   started, and that a canceled order cannot be paid depends on what the
   sessions still about to cancel or to offer it know.  `IInv` adds these: what a
   session at each statement knows about its order (`PurchaseInv`, `ConfirmInv`,
   `CancelInv`), who holds which row (`LockInv`), what it will write (`CopyInv`),
   and that an order that is canceled or old is `Settled`.
2. `TypeCorrect`, `NoBooksForFree`, `NoCancelUnderTheBuyer`,
   `OneStoryAboutMoney` follow; `ExactReservation` proves the action property
   `ReservationIsExact` from `LockInv` and `CopyInv`.
3. `SerialCheckoutIsALedger`: if `MaxInFlight = 1`, `Spec => LedgerImplemented`.
   The second invariant, `SerialInv`, says that the session at work is alone and
   what it has read is what the database holds; then `CommitReserve` is `Place`,
   `CommitCancel` is `Cancel`, `CommitConfirm` is `Confirm` or a repetition, and
   every other step is invisible.  The violated runs show that the assumption is
   needed.

From `RecoAssumption` (any events, consumers, workers, readers and bounds):

4. `Invariance` of `RecoProfileProofs`: `IInv` is `TypeOK`, `OneConsumer` and
   `BuildersBounded` together.  That only an acquired lock adds a build needs the
   labels of `TypeOK`; that a message in hand stays unacknowledged while another
   consumer settles its own needs `OneConsumer`.  `OverlapIsBounded` counts: every
   deletion of the lock, whoever's it was, also ends a build, so overlapping
   builds never outnumber the expirations by more than the lock itself.
5. `TheFlagIsActedOn`: `PendingHasTask`, for any number of faults, given `Prompt` and fewer
   failed builds than a task has runs.  `FlagInv` adds that a lock that is set belongs to a build at work until a worker dies
   (`LockHeld`), so that a task that finds the lock taken has a build behind it, and that a task is in its
   r-th run only after r - 1 failures (`RunsCounted`).
6. `NoEventIsLost`: `DoneIsSaved`.  `SaveInv` adds that a consumer past its save has the row (`RowsFirst`)
   and that a deduplication key stands for a view that was settled or is in a consumer's hands, until a
   process dies (`DedupHasView`).
7. `OnlyOvertakenGetsAreStale`: `StaleOnlyIfOvertaken`, for any number of consumers, builds and readers at work at once.
   `AgeInv` says that what a get that was not overtaken is about to store, and the cached profile unless it is `spoiled`,
   lack only events whose consumer has still to delete the profile.

From `SessionsAssumption` and `AccountsAssumption` (any browsers, requests, forms, codes and
passwords, any finite set of tokens, any limit of at least one session):

8. `SessionsInvariance`.  `SpentIsDead` is not inductive: a token returns to Redis when a
   request stores it.  `TokenInv` adds that a token about to be stored is nobody's cookie,
   no request's token and not spent (`Unborn`), that no two requests have made the same one
   (`OwnToken`), and that a request that has taken its token out never sees it come back
   (`Dropped`).  `SoloInv` says what a request without company knows: who else is in flight
   (nobody), how long the list is when it stores, and which members it removes; there the
   cardinality of the list is counted with `FiniteSetTheorems`.
9. `AccountsInvariance` adds the forms.  Every step of `Accounts` is a step of `Sessions` or
   leaves what `SessionsInv` speaks of alone, so `AccountTypes`, `SpentStaysDead`, `NeverTooManySessions`
   and `NoSessionUnlisted` carry over.  `TheConfirmedPasswordCounts` rests on `CodeInv`: a live code that reached
   the mailbox agrees with the row, because the one form that is about to write the row or a code has seen that no code is alive.

From `AgentsAssumption` (any users, turns, windows, books and limits):

10. `AgentsInvariance` and `TurnsTakeTheirTurns`.  The turns at work without the lock are counted
   per user.  A turn that releases a lock that is another's leaves the count itself as
   the other enters it: they change places, and only a hiccup at the acquisition or a lock
   that expires under its turn (`slack`) adds one.
11. `NobodyIsLimitedForEver`: `WindowsEnd`: a counter without
   a TTL has a turn at its EXPIRE, or that EXPIRE failed or died with its worker.
12. `MemoryInvariance`, `NothingSaidIsLost`, `MoreMeansOthers`, `AgentsTypes`.  The second invariant, `MemoryInv`, says what
    Redis holds (`MemoryOK`: the history is the end of what was told and reaches back to where its key last ran out, no work was handed out twice and those that were are
    in the list of shown books, while it lives) and what a turn that has its user to itself knows of it (`Informed`): the history it is about to
    extend is still such an end, although the key may have run out since it was read, and a lone search excludes all the books shown, or those before the list ran out.  `Proportioned`
    relates rounds and steps of a turn: with `RoundsAssumption` a turn ends by its rounds, never by the recursion limit.

From `SupportAssumption` (any devices, managers, chats and limits; `None` is no row, read or question):

13. `SupportInvariance`.  `SupportInv` has a part for each concern, inductive given the types (`StateOK`).
    `CacheInv`: not only the cached chat but also the copy of every reader that was not
    overtaken is the row, or a handler that changed the row still has to drop it; each step writes a row
    (`Covered`), drops the cache or dies trying (`Cleared`), or leaves the rows that exist alone (`Untouched`).
    `LocksInv`: a socket whose lock did not run out has it, and one about to DEL has compared it
    with a lock that is still its own.  `LinksInv`: of two open sockets one is kicked or was missed.
    `LimitsInv` and `QuestionsInv`: who is at an EXPIRE, where each question is.
14. `TheCacheFollowsTheRow`, `ManagersDoNotMeet`, `TheNewestDeviceStays`,
    `NoQuestionIsForgotten`, `NobodyIsMutedForEver` (`LimitsAreLifted`) and `SupportTypes` follow.

From `ReviewsAssumption`, `ShelfAssumption` and `IndexAssumption` (any readers, grades, titles, tabs and requests):

15. `ReviewsTypeCorrect`, `TotalsAreThoseOfTheReviews`.  The totals are a count and a sum kept beside the
    reviews: `ReviewsInv` says that a request nobody overtook still knows the totals it adds to (`BaseHolds`),
    that it finds no review of its user (`OneEach`), that the totals are always those of some of the reviews (`SomeCounted`), and that the sum of the grades grows by the new one, an induction over the reviews.
16. `ShelfTypeCorrect`, `TheCartIsWhatWasAskedFor`, `MarksAreTrue`.  `ShelfInv` says that a request nobody
    overtook still knows its item (`ItemKnown`), which a payment or an admin that takes the item away must tell it, that a tab has been shown what is on the shelf or is about to be told of it
    (`PageKnows`), and that a mark put while the lists load is put before they are shown (`PutEarly`).
17. `IndexTypeCorrect`: whatever jobs, synchronisations and failures meet, the indexes and the workers'
    notes hold rows and points of known books; a reconcile plans only writes it has rows for (`Planned`).
    That the indexes converge is liveness.

From `ListingAssumption`, `SamplingAssumption` and `FeedAssumption` (any catalogue, scores, page sizes, pools, caps, shuffles
and failures; the rankings are total because every ORDER BY ends in the id and random keys are unique):

18. `ListTypeCorrect`, `EveryBookIsShownOnce`.  Every page, in the cache or on its way, tells the truth about the books that stay in the
    list: it has those between its cursor and its next cursor, each once (`PagesTell`).  With `AnswersFit` (an answer is one to
    the cursor asked for) and `AsksForMore`, the books before the page's cursor were shown once
    and the others not at all (`ShownSoFar`).
19. The algorithms of the feed, each as a lemma about its operator: a weighted draw has the books asked for, none twice
    (`Sampled`); a diversified pick is as long as it can be, and exceeds a cap only if no candidate fits (`Picked`, `CapsForced`); the
    blender shows all it was given (`Mixed`); each source returns what is on sale and not excluded, and
    exploration returns all there is between its two keys, and nothing only if nothing is left.
20. `FeedTypeCorrect`, `NoBookIsPassedOver`, `NoBookTwice`, `CapsYieldLast` and the action property `TheEndIsTheEnd` follow from them and
    `FeedInv`: a blended page has its cursors where they should be and is empty only at the end (`PagesAreTrue`), what is excluded was served (`SeenWasServed`), and a client that waits has everything
    served excluded while the list has room for it (`Calm`).

`DataLemmas` has the inductions these need.  The library's induction theorems take an operator, so induction is
done on the least element of a set of counterexamples; a fold is characterised by what it adds to, element by element
(`Adds`, `Folds`), and a list that a query returns by its rank (`RankedOnce`).

Every safety invariant and action property of a passing run is stated by a theorem: `LedgerImplemented` for
`MaxInFlight = 1`, `PendingHasTask` under the hypotheses above, which are those of their runs, the others as they stand.
Only model-checked are the liveness properties (`PendingIsSettled`, `CompletedIsRecorded`,
`SavedIsReflected`, `IndexesConverge`: fairness and ENABLED are out of the prover's reach) and the seven violated ones.

Some of what the proofs need the bounded runs could not show.  The popular source let books without a score
in, which no instance had; the model of the feed assumed a catalogue that fits the session's list; a dying turn
counted as having shown what it had only found; a lost answer left its books out of the list.  Each was corrected after the source.

## 4. Not modelled

`PROJECT.json` lists every component with its status.

* Checkout: prices, addresses, receipts; edits of `orders.status` in the admin (SHIPPED,
  DELIVERED); the sweep's limit of 100 orders per run.
* Profile: scores, decay and embeddings; a `release_lock` that raises (the lock then stays for
  its TTL); a vector read from Qdrant before a rebuild and cached after it, which the TTL of the cache ends.
* Two orders with overlapping books cannot wait for each other: `FOR UPDATE NOWAIT`
  refuses instead, which is `RejectPurchase` and `CancelBusy`.
* Popular books: the ClickHouse batcher buffers inserts in memory and may lose a batch with its process;
  the daily rows it feeds are the input of `UpdatePopularity`.
* Support: reply templates, the FAQ index, the managers' login; each is one statement.
* Agents: prompts and parsing of what a model writes; the order and cart tools beyond the fact that their
  answer is private.
* Admin screens are generated CRUD; an edit is modelled where it reaches another component's
  state (`ChangeBook`, `AddReview`, `EditReview`, `RemoveReview`, `EditCart`, `EditWishes`, `AddBook`, `RemoveBook`, `SetActive`).
* Settings, dependency injection, HTTP schemas, migrations, prompts and rendering keep no
  state that changes.
* No liveness is claimed for requests and chats: nothing in the code repeats them, so a failure
  may end any of them.
