# TLA+ models of the PrismaView API

PrismaView is a portfolio tracker for crypto investors: a NestJS API over
PostgreSQL (through Prisma) and Redis, which imports the orders of its users
from exchanges (through ccxt), keeps their exchange credentials, and fetches
market prices with a command-line program. The modules here model the parts of
`src/apps/api` that change state, TLC checks them on small instances, and TLAPS
proves their safety properties, and that order import implements its abstract
specification, for every value of the constants.

## 1. Inventory

All paths are under `src/apps/api/src`, except `prisma/schema.prisma`.

### Order import (`order/order.service.ts`, `lib/exchange/kraken-exchange.ts`)

*State:* the table `order` (unique, nullable `orderId`); in the memory of each
request the offset, the dictionary of fetched orders and the rows a lookup found.
*Operations:* `POST /order/sync` with a mode (`ALL`, `RECENT`, `RANGE`). The
guard `AccessKeyOwnerGuard` finds the key, `_getSyncDateRange` computes a window
from the rows of the key, `KrakenExchange.syncOrders` expands pages until one is
not full, `findMany` looks up the orders that are already stored, `createMany`
with `skipDuplicates` inserts the others.
*Hard:* every `await` is a point where another import, another user's request
or a restart may come in; the exchange's list grows at its head while it is read
by offset; lookup and insert are no transaction; windows depend on what earlier
imports stored; any step may fail; the insert is carried out by another process,
so that an import whose call fails, or whose process stops, does not know whether
its rows are in the table, or will be.
*Correct when:* no order is saved twice, rows belong to the user and key that
asked, a successful import lost nothing of its window, every other one saved all
it had to or nothing, reported counts are true but for those of lost answers,
histories have no holes, imports end.

### Order editing (`order/order.service.ts`, `order/dto`, `order/common/utils.ts`)

*State:* the rows of `order` field by field. *Operations:* `POST`, `PATCH` and
`DELETE /order`. A change reads the row (`_getOrderById`), computes the dependent
fields (`cost`, `base`, `quote`, `currency`, `timestamp`), and writes with a
`where` on user and id. *Hard:* read-modify-write across an `await`; a row that
goes away in between; bodies that name some of the fields. *Correct when:*
derived fields agree with what they are derived from, requests reach only rows
of their user, one deletion of a row succeeds.

### Pagination (`getOrders`, `getApiKeys`, `shared/utils/search.ts`, `shared/dto/paginate.dto.ts`)

*State:* none of its own; a client walks a listing by offset. *Operations:*
`GET /order`, and `GET /access-key` behind its cache, with a limit and an offset: a
page (`findMany`) and a count, sent together. *Hard:* two queries and no transaction, rows entering
and leaving between them and between pages, an order of rows that is not total, a
greatest offset. *Correct when:* a walk that ends has shown what was there, but
for as many rows as moved, and is told there is more only when there is.

### Authentication and users (`auth`, `user`)

*State:* the tables `user` and `user_setting`; tokens in the hands of clients.
*Operations:* sign-up and sign-in, answered by a token (or, on two older routes,
by a session no middleware provides); `JwtGuard` and `JwtStrategy`, which turn a
token into an account before any other handler runs; four routes that show
users through serializers. *Hard:* hashing, verifying, signing and the guard's
lookup are `await`s, so that accounts are created, promoted, demoted and deleted
while a request is under way; tokens outlive all of that. *Correct when:* an
email has one account, answers were true while their request was under way,
nobody acts for an account of another, private fields stay private.

### Exceptions (`shared/filters/global-exception.filter.ts`, `app/app.config.ts`)

Stateless; what a failed handler sends. Modelled by the answer of `OrderEdits`.

### Access keys and their listing (`access-key`, `shared/interceptors/pv-cache.interceptor.ts`)

*State:* the table `access_key` (soft deletion); a cache of responses with a time
to live. *Operations:* `POST` (two calls to the exchange decide whether the
credentials are right and limited), `DELETE`, cached `GET /access-key`.
*Hard:* creation and deletion do not touch the cache, and a slow reader stores
an old listing after a deletion; calls fail in several ways. *Correct when:* only
limited credentials are stored, nobody is shown another's keys, staleness ends.

### Price fetching (`commands/price.command.ts`, `price/price.service.ts`, `shared/utils/time.ts`)

*State:* the table `price` (unique market, exchange and minute); per command its
window, round and total. *Operations:* page after page forwards or backwards:
fetch, insert what is new, decide whether to go on. *Hard:* boundaries of windows
in two directions, markets with pauses, the minute that is still running,
several commands at once, a next minute found on the local clock, an insert whose
answer is lost, termination. *Correct when:* nothing between the first
and the last saved price is left out, totals are true but for a page whose answer
was lost, a fetch that ends by itself has caught up, and it ends.

### Market discovery (`price/price.service.ts`, `findTickerSymbolToMarkets`)

A computation over the traded symbols and the exchanges' markets, with two
`await`s. Nothing in the repository calls it yet. *Hard:* three searches (for BTC,
for fiat currencies, for chains through USD) choose an exchange each by itself, in
loops of their own, and may meet the same market. *Correct when:* every amount
can be converted or is reported, prices are asked of exchanges that have them,
and those of a market of one exchange only.

### The rest

*Events gateway, RabbitMQ, schedulers, playground, bootstrap*: no state of their
own, or skeletons.

### How the parts interact

Requests of different users share nothing but the database, the cache and the
single-threaded event loop: code between two `await`s is atomic, and everything
may happen at an `await`. `Order import` and `Order editing` write the same table
and constrain each other through the unique `orderId` and, in the windows of
`ALL` and `RECENT`, through the datetimes of rows. `Access keys` give imports
their credentials and owner. `Market discovery` reads the symbols of orders.
`Price fetching` runs in a process of its own on the same database.
`Authentication` stands before all handlers but its own: the other modules start
with the user the guard found. `Pagination` reads what imports, edits and
deletions write.

## 2. Plan

Order, most important first. Items 1 to 8 are done.

1. `OrderImport` (what an import promises), `OrderSync` (what the code does),
   `MCOrderSync`, and `OrderSyncProofs`.
2. `OrderEdits`, `MCOrderEdits`.
3. `AccessKeys`, `MCAccessKeys`.
4. `PriceFetch`, `MCPriceFetch`: from the options of the command to the end of
   its loop, on a local clock, beside other commands.
5. `MarketDiscovery`, `MCMarketDiscovery`.
6. `Auth`, `MCAuth`.
7. `Paging`, `MCPaging`.
8. Proofs of every safety and action property the runs check, of the refinement
   of `OrderImport`, and of the lemmas about sums, ranks and pages they need:
   `OrderSyncProofs`, `AuthProofs`, `AccessKeysProofs`, `OrderEditsProofs`,
   `MarketDiscoveryProofs`, `PriceFetchProofs`, `PagingProofs`, `Sums`.
9. Left: amounts with a scale in `OrderEdits`; lost answers in the modules that
   have none (section 3); a composition of `AccessKeys` and `OrderSync`; and the safety part of the liveness properties, that is, the
   measures that make imports and fetches end.

## 3. Modules and code

`PROJECT.json` maps each definition to its lines. Actions are the code between
two `await`s; definitions keep the names of the functions they model where they
model one. Operators commented "Mutant" are plausible mistakes that no action
uses: each property has one that TLC shows to break it. The proofs about a module
`M` are in `MProofs`, and `Sums` has what two of them need about sums.

| module | state | actions |
|---|---|---|
| `OrderImport` | set of stored orders, phase and debt of each import | the abstract import: look, import at once, report; abandon with nothing, with everything, or in doubt; users add, remove and rename |
| `OrderSync` | `orders` (rows with an `orderId`), the exchange (`account`, `when`, `closedNo`), per import `pc`, `req`, `ofs`, `fetched`, `existing`, `saved`; what the database has of its `createMany`: `insert`, `sent`, `count` | `BeginSync`, `RejectSync`, `UnsupportedSync`: guard and window. `FetchFullPage`, `FetchLastPage`: a turn of `expand`. `FindExisting`, `MappingFails`, `SaveOrders` (`createMany` is called), `CommitInsert` (PostgreSQL carries it out), `Respond` (its answer arrives): the rest of `syncOrders`. `CallFails`, `Restart`. `CreateOrder`, `UpdateOrder`, `DeleteOrder` as far as imports see them |
| `OrderEdits` | `rows` field by field, per request `pc`, `ask`, `stale` (the row read), `answer` | `Create`; `ReadRow`, then `Patch` or `Delete`; `ImportRow` |
| `AccessKeys` | `keys`, `cache` with the life left, per request `pc`, `ask`, `read`, `got` | `CreateKey`, `CheckLimits`, `InsertKey`; `FindKey`, `DeleteKey`; `Hit`, or `Miss`, `ReadKeys`, `Store`; `Tick`, `Evict` |
| `PriceFetch` | `market` and `saved` as sets of minutes, `fetch` per command; `windowed` and `zone`, the kind of exchange and the local clock | `BeginFetch` (options), `FindExchange`, `FetchPage` (up to the call of `createMany`), `InsertPage` (PostgreSQL), `EndRound` (its answer, the total, the next round), `CallFails`; `Tick`, `Trade`, `SaveOther` |
| `MarketDiscovery` | `orders`, `listed`, `quotes`, `found` | `DetectQuotes`, `FindMarkets`, `SplitFails`, `CallFails`, `AddOrder` |
| `Auth` | `rows` and `gone` (accounts), `token` per client, per request `pc`, `ask`, `read`, `got`, and the history `seen` | `JwtSignup` or `Signup`, then `CreateUser`, `CreateSessionUser` or `CreateRefused`; `FindUser`, then `Verify`, `VerifyFails` or `VerifySession`; `signJwtToken`; `canActivate` (guard), then `Handle`; `CallFails`, `Expire`, `SetRole`, `DeleteUser` |
| `Paging` | `table` (users and creation times of rows), `removed`, `walk` per client with its history | `BeginWalk`, then per page `FindMany` and `Count` in either order; `Insert`, `Remove`, `Abandon` |

### When an insert happens

The two `createMany` of the program (`order.service.ts:334`, `price.service.ts:692`)
save many rows for a client that counts them, and are modelled in three steps: the
call, the insert in the database, the answer. A call that fails and a restart come
between any two of them. The insert of a call that failed may have been carried
out, may still be, at any later time, or never is: `CallFails` and `Restart` leave
`insert`, `sent` and `count` of `OrderSync`, and the `page` of `PriceFetch`, as
they are, and `CommitInsert` and `InsertPage` go on without anybody waiting.

The other statements (`create`, `update` and `delete` of one row, in `OrderEdits`,
`AccessKeys`, `Auth`, and by hand in `OrderSync`) and their answers are one
step. A request whose answer is lost is then one that was not answered after its
step, and that is how far these modules go: `Auth` has such requests (`CallFails`
after `CreateUser`: the account stays), `OrderEdits` and `AccessKeys` do not, and
none has a statement that is carried out after its request has failed. What they
say of tables (`OneAccountPerEmail`, `StoredKeysAreLimited`, `DerivedFieldsAgree`)
rests on what a request writes and on the unique indexes, not on its being
answered; what they say of answers (`OneDeletionSucceeds`, `AnswersWereTrue`) is
about answers that were given. `OnlyOwnRows` identifies a change with the answer to
its request, and would have to name the write instead.

### What is assumed of things outside the repository

* An exchange lists the closed orders of a window newest first by closing, both
  ends of the window included; it filters by the opening time, which is the
  `datetime` of an order. With `LateFills` an order may close with a datetime in
  the past, as limit orders do.
* `createMany` with `skipDuplicates` is one `INSERT ... ON CONFLICT DO NOTHING`,
  atomic, and its count is the number of rows inserted; it is carried out at most
  once, whoever waits for it, and answered after that only.
  `findFirst`, `update` and `delete` are single statements; an `update` or `delete` whose `where` finds
  nothing fails with P2025, a violated unique index with P2002.
* `Paging` is of a listing that is read from its table, which `GET /order` is.
  Pages of `GET /access-key` are cached one by one, by user and URL, for the
  time to live: what `Paging` says holds for that route behind the cache, of the
  queries that fill it, and not of a walk whose pages come from the cache, each as
  old as it may be. `AccessKeys` has the cache.
* The two tiers of the cache (memory and Redis) are one store whose entries live
  the configured time or less.
* `fetchOHLCV` answers with the first prices from `since` on, at most the limit.
  Some exchanges end the answer with the window (`windowed`); both are checked.
* An error the exception filter itself fails on is answered with the web
  framework's fallback page.
* `Date` reads a local time that was twice as the first of the two, and one that
  never was as the time as much later. One change of the clock is modelled.
* `ORDER BY createdAt` leaves rows of one time in any order, another one at each
  query; `createdAt` is the beginning of the transaction, and rows may become
  visible in another order than that.
* A password is known to its client only, and a hash matches the password it was
  made of; tokens cannot be forged. A client keeps the token it was given last.
  Nobody but the operator of the database changes or deletes accounts (no route does).
* The content of a price and the wording of messages are left out.
* A constant that stands for "none" (`NoUser`, `NoToken`, `NoKey`, `NoEntry`,
  `NoRequest`, `NoFetch`) is no record of the kind it is the absence of
  (`NoneAssumption` of `Auth`, `AccessKeys` and `PriceFetch`): the code has
  `null` or nothing at all there.

## 4. Runs

| run | question | bounds, and why they are enough |
|---|---|---|
| `sync_races` | uniqueness, ownership, all or nothing, completeness and counts under interleaving and lost answers; refinement of `OrderImport` | two imports, two users, three keys (a syncable one each, and one of an exchange without import), one account, two orders, pages of one: both imports page several times, race between lookup and insert, and commit before or after their calls fail. `ALL` and `RECENT` (the windows of `RANGE` are in `sync_paging`; they change which orders are due, which `ALL` varies too). One edit, one restart: the smallest number with which each can come between any two steps. |
| `sync_paging` | paging by offset over a growing list; termination | pages of two and up to four orders, windows of `ALL` and every `RANGE`: one and two exact pages, a partial page, an empty one; one order cannot be mapped. |
| `sync_history` | holes between imports | three imports of a key, three orders at up to three times: two that may share a datetime, and a row after them; an insert may be carried out after the two other imports have ended. `EditBound = 0`, no `RANGE`, no late fills, because the code promises nothing about them. |
| `edits_overlap` | read-modify-write of rows | three requests of two users on two rows: a change between the read and the write of another, twice; bodies that name each field alone and together. |
| `edits_lost` (violated) | lost updates | as `edits_overlap`. |
| `keys_listing` | isolation of the cached listings; checks of credentials; end of staleness | two overlapping requests of two users (slots, used again and again), one key, two ticks of life: two fill the cache at once, or one stores after a deletion by the other. Every kind of credentials, on an exchange that needs them to tell its status and on one that does not (Bitstamp differs from Kraken in no outcome). |
| `keys_stale` (violated) | staleness after a deletion | one accepted credential, two requests. |
| `price_pages` | boundaries of the windows in both directions; local clocks; true totals; termination | every set of traded minutes of 0 to 3, and one minute more while the fetch runs; both kinds of exchange; limits of one, two and three; two target pages or none; starting anywhere: several pages, partial and empty ones, pauses longer than a page. A clock that is put back or forward by a minute at minute 2, that is, between pages and within one. One page of another command, which may come between a fetch and its insert, and an insert that is carried out late. |
| `price_endless` (violated) | termination on an exchange that does not end its answers with the window | one backward fetch. |
| `markets_pairs` | completeness of the computation | everything two exchanges may list of six pairs over two fiat and two crypto currencies: each quote with direct, inverse, chained and missing markets, and markets of both exchanges that two of the searches meet, one as a market of its own and one as a link. |
| `auth_accounts` | accounts and tokens under interleaving | two clients, emails and accounts: as many as it takes for one to take over the email of another. Two requests at a time (slots, used again), of which each may be sent between any two steps of the other. Two changes by the operator: a promotion and a demotion, or a deletion between steps. |
| `paging_walks` | walks over a listing that changes | one walk (walks do not act on each other), pages of one and two, offsets up to two: three pages, a refused fourth. Four rows, entering one by one or together, at three times, one removal, a second user: rows before, within and after the page, at equal times and not. |

Bounds in guards: `ClockBound` (`Tick`, `Times`), `EditBound` (`MayEdit`),
`CrashBound` (`Restart`), `RowBound` (`next \in RowIds` in `Create` and
`ImportRow`; `Insert` of `Paging`), `RemovalBound` (`Remove`), `TimeBound`
(`Times`), `OtherBound` (`SaveOther`), `OperatorBound` (`Operate`), `Ids`
(`Insert` of `Auth`), and the numbers of requests, imports and fetches, each of which is
made once (in `AccessKeys` and `Auth`, slots that are given free). Deadlock is not
checked: these systems stop when nobody asks anything and the clock has reached
its bound. Symmetry is used in runs without liveness only, over sets no
definition tells the members of apart.

### Fairness

* `OrderSync`: weak fairness of each import's steps but `CallFails`, and of its
  insert while it waits for it (`Proceed`). Every step
  continues an answered call; ccxt and Prisma calls return or time out, and the event loop
  starves no continuation. Nobody has to ask, close an order, or edit. An import
  ends since the offset grows by every full page and an account closes finitely many orders
  while it is read; failing calls are allowed, not required.
* `AccessKeys`: weak fairness of each request's `Continue` and of time. Requests
  need not arrive and entries need not be evicted; `DeletionShows` thus rests on
  the time to live alone.
* `PriceFetch`: weak fairness of each fetch's rounds, the insert it waits for
  included. `CallFails` is not fair, so that a fetch has to end without its help;
  nor is an insert nobody waits for. `WindowedFetchEnds` excepts the cases
  of section 6 in which it does not.
* `Auth` and `Paging` have safety properties only. A walk ends because its offset
  grows by every page and has a greatest value, which needs no run.

### Properties worth a comment

* `NothingLost` speaks of the window at the moment the first page was read:
  orders that close later are the business of the next import.
* `RowsFollowTheirImport` is all or nothing, of imports that failed or were lost
  too: if one row of an import is in the table, so is every order its window held
  when its first page was read, but for what a user took out since.
* `CountsAddUp` and `TotalsAddUp` add to what was reported what the database
  inserted and no answer has told yet, or ever will (`Unanswered`, `inserted`). The
  code has no such count: it is what the reported ones are short of, and it is
  zero where no answer was lost.
* `Implements` says that an import, whatever pages and lookups it takes, adds its
  orders in one step and owes at least those of `NothingLost`. An import that fails
  or is lost before it called its insert changes nothing (`abandoned`); later it
  is `doubtful`, its orders enter in one step or never, or it has stored them
  (`kept`). The last is what an import that was told to have failed leaves behind
  when its answer was lost: nothing in the code undoes it, and the next import
  skips the orders. Users' deletions are the abstract `gone`.
* `OnlyListedMarkets` is what three loops have to agree on, each a definition of its
  own (`BtcListing`, `FiatMarket`, `Proxy`). The caller of the first prefers Binance
  to Bitstamp, which would be wrong if that loop could return a market of each. That
  no market is asked of both exchanges depends on each loop looking at Bitstamp first.
* `NoHoles` bounds a backward fetch to minutes that were over when it began.
* `NoHoles` and `EndsCaughtUp` except the minutes `Hidden` names, exactly those
  the clock hides. `EndsCaughtUp` is checked for limits above one; see below for one.
* `AnswersWereTrue` is linearizability of single answers: a sign-up that succeeds
  was free to at some time since it was sent, one that is refused was not; an
  administrator's answer was theirs to have at some time, though not necessarily
  at the last. `seen` is its history.
* `NobodyActsForAnother` covers accounts of the same email one after the other:
  the token of the first names an id that does not come back.
* `SkipsAreBounded` and `RepeatsAreBounded` give the price of paging
  by offset among changes: TLC finds walks that lose, and walks that repeat, that many.

## 5. Proofs

TLAPS proves the following for every value of the constants that satisfies the
assumptions named in the modules (owners and accounts of keys, positive limits and
page sizes, natural bounds, values for "none"; the numbers of users, requests,
imports, fetches and walks may be infinite). The bounds of section 4 are natural
numbers of any size. Every safety and action property of the passing runs is a
theorem. An invariant that is inductive given the types alone is said to be so;
otherwise the strengthening is described, which TLC checked first.

### Order import (`OrderSyncProofs`)

* `TypeCorrect`. One lemma per group of actions.
* `IdsUnique` (`OrderIdsUnique`), inductive: what is inserted has an id that is in
  no row at that moment (`skipDuplicates` on the unique index, not the lookup).
* `RowsFollowImports` (`RowsFollowTheirImport`). Nothing in it says that an import in
  flight has a key its user owns, or that an insert which has not been carried out
  has all it owes. `OwnersInv` adds that the requests of imports in flight and of
  inserts under way are owned, and that a row names an import whose insert was
  carried out, which keeps its request. The rest is from `DeliveryInv`, below: what
  is due is in what was sent, in the table, or was taken out (`SentCovers`), and
  after the insert in the table or taken out (`CommitCovers`).
* `NothingIsLost` (`NothingLost`), from `DeliveryCorrect`. `DeliveryInv`: places in
  a history are distinct (`HistoryOrdered`); after the first page every order that is
  due was fetched or has at least `ofs` newer orders in the window (`PagesCover`);
  after the last all are fetched; what the lookup found is stored or was taken out
  since; what was sent to the database covers what is due until it is inserted, and
  the table does after, also when the import has ended (`SentCovers`,
  `CommitCovers`). The step that matters is a full page: the ranks of a window's
  orders are distinct and none is missing (`RanksDiffer`, `PageFull`), so the offset
  grows by exactly the ranks the page has, and an order that closes only raises ranks.
* `ImportsImplementPromise` (`Implements`). `MappingInv` is the types, `DeliveryInv`
  and unique ids; each action maps to one of `OrderImport` or to a stutter: the
  insert to `Import`, whoever waits for it, its answer to `Report`, and a failure or a
  restart to `Abandon`, with the imports in doubt whose inserts were under way.
* `HistoriesAreWhole` (`NoGaps`), where `OnlyContinues`: no `RANGE`, no edits, no
  late fills, the instances the run checks and for which the code's windows are
  meant. `GapsInv`: nothing is dated ahead of the clock, and what lies before the
  window of an import is stored, from its beginning (`Continues`), also when the
  import has failed and its insert is still to come; what is older
  than its end is due or stored once its first page is read.
* `CountsAreTrue` (`CountsAddUp`), with the table and the imports that have
  inserted finite: an insert adds a row for each order it counts, since rows of
  different orders differ and none was in the table; its answer moves the count from
  one sum to the other, and a failure or a restart moves nothing.

`Sums` proves what this and the price command need of the library's sum over a
function. Its fold is a recursive function, so that even its first step needs an
induction. The induction theorems of the library take a predicate, which the
provers cannot instantiate; `EveryNatural` and `ByCardinality` take a set instead,
and rest on the smallest element of a set of naturals. From there: the fold exists
(`FoldExists`), takes any element first (`FoldedWithout`), and looks at its own part
only (`FoldedPart`).

### Authentication and users (`AuthProofs`)

* `TypeCorrect`: a request in flight carries what its route asks for and what it
  has read, and a deleted id had a row.
* `EmailsUnique` (`OneAccountPerEmail`), inductive: rows enter at once if their
  email is free, in both kinds of sign-up.
* `NobodyActs` and `PrivateStaysPrivate` (`NobodyActsForAnother`,
  `PrivateFieldsStayPrivate`). Every step keeps the email and hash of a row and never
  gives its id away (`RowsKept`). `IdentityInv`: tokens name a row with their
  holder's password (`TokensAreOwn`); a request has read a row that was there, its
  client's own once the password is verified or the guard passed
  (`ReadsOwnAccount`); what it was shown it may see (`SeesWhatItMay`).
* `AnswersTrue` (`AnswersWereTrue`). `AnswersInv` says what the history of a request
  holds at each of its points: what is so now while it is under way, whether the
  password matches what it has read, and the answer it has given.

### Access keys (`AccessKeysProofs`)

* `TypeCorrect`.
* `OnlyLimitedKeys` (`StoredKeysAreLimited`). `CheckedInv`: a request that is about
  to insert carries credentials that are right and limited, for the exchange says
  "permission denied" of no others, whichever of its calls fail.
* `ListingsStayPrivate` (`ListingsAreTheUsersOwn`). `ListingInv`: so do the entry of a
  user in the cache, and what a request has read and is about to store.

### Order editing (`OrderEditsProofs`)

* `TypeCorrect`: ids are not used again, and a row keeps its fields and its owner.
* `FieldsAgree` (`DerivedFieldsAgree`), inductive given the types: a change that
  names an amount writes the product of what it writes, whatever the row has become
  since it was read; one that names none leaves all three.
* `DeletionsSucceedOnce` (`OneDeletionSucceeds`). `DeletedInv`: whoever was told so,
  the row is gone, and its id is not used again.
* `RowsAreTheirOwners` (`OnlyOwnRows`), an action property, from the types.

### Market discovery (`MarketDiscoveryProofs`)

* `EveryQuoteAccountedFor`, `SourcesListTheirMarkets` (`ConvertibleOrReported`,
  `OnlyListedMarkets`). `FoundInv`: what is returned is the result of the
  computation for the quotes that were detected. The rest is about `Result`: the first
  theorem by the cases in which a quote meets a currency (itself, a direct market, an
  inverse one, a chain, or none), the second from `SearchesPreferBitstamp`: a market
  any of the searches gives to Binance is listed there and not by Bitstamp, one it
  gives to Bitstamp is listed there.

### Price fetching (`PriceFetchProofs`)

* `TypeCorrect`, which rests on what an answer holds: its prices have the ranks
  `1..limit` among those it is taken from (`RanksAreAll`), so that it is no larger
  than the limit (`AnswerBound`), has no hole (`AnswerClosed`), and has all of a window
  as long as the limit (`AnswerHasWindow`).
* `NoHolesLeft` (`NoHoles`). `HolesInv`: a fetch that goes on has saved whatever was
  traded where it has passed, but what is hidden (`Covered`), and its page is whole
  (`PageHolds`); there is no hole in what it has saved, nor in that with the page
  whose insert is under way (`Whole`), so that it does not matter whether and when
  that insert is carried out. What the next minute on the local clock skips is
  `Hidden` (`NextForward`, `NextBackward`), for any change of the clock at any minute.
* `CaughtUp` (`EndsCaughtUp`), an action property, from the same invariant: a page of
  at most one, where the limit is more, had all there was (`AnswerGoesOn`).
* `TotalsAreTrue` (`TotalsAddUp`), with finitely many fetches begun: an insert adds
  to what one fetch accounts for (`Accounted`) what it adds to the table, and the
  answer moves it into the total.

### Pagination (`PagingProofs`)

A row that shares its time with no other of its listing is *untied*; its place is
the number of rows listed not after it (`Place`). A page of whatever order the
database gives ties holds exactly the untied rows whose places are within it (`PageIs`).

* `TypeCorrect`: offsets are multiples of the limit, pages no larger than it.
* `FewAreSkipped`, `FewAreRepeated`, `RefusalsAreFarOut` (`SkipsAreBounded`,
  `RepeatsAreBounded`, `RefusedFarOut`), from one invariant per walk, `WalkInv`. The
  untied rows that a walk has passed without showing them are no more than the
  removals and late entries it has noted, less what the listing has grown since the
  count it holds (`SkipInv`); those it showed and is to meet again no more than the
  entries (`RepeatInv`); and its pages held as many as it has passed, but for both
  (`HeldInv`). Between the two queries of a page the walk has passed the page and
  not yet counted, or counted and not yet passed: `Passed`, `Grown`, `Shrunk` and
  `Expected` tell the cases apart. A row that enters or leaves moves every other
  by at most one place (`RowsMove`), and ties never dissolve (`RowsStay`).

### Checked by TLC only

* `SyncEnds`, `DeletionShows` and `WindowedFetchEnds`: liveness under fairness, and
  `ENABLED`, are beyond the prover. The same holds for what the runs `edits_lost`,
  `keys_stale` and `price_endless` refute.

No module uses a RECURSIVE operator.

## 6. Where the code and its documents disagree

Each of the first three has a run whose counterexample shows it.

* `edits_lost`: a `PATCH` that names only the price writes back the `filled` it
  read before the `await`, and undoes a change made in between.
* `keys_stale`: `test/app.e2e-spec.ts:180-190` expects a listing after a deletion
  not to show the key; with the cache on, it may, for up to the time to live.
* `price_endless`: "until no new results are fetched" (`price.command.ts:78`): a
  backward fetch at the beginning of a market asks for the same window for ever
  when the exchange answers with prices after it.

Single requests show the following, so that no run is spent on them. The models
contain all of them but page limits of zero or less.

* The exception filter calls `getStatus` on every error; plain `Error`s (a
  malformed symbol) and Prisma's P2025 do not have it, and get no formatted answer.
* A new order without the optional `timestamp` fails on `BigInt(NaN)`.
* `filled || amount` saves an order of which nothing was filled as filled in full.
* A change to the empty symbol keeps the parts of the old one (which is why
  `DerivedFieldsAgree` excepts it).
* Amounts in BTC are skipped before their fiat markets are collected, and a
  quote USD with a fiat currency yields the pair of both as a foreign exchange rate.
* With `--limit 1` a forward fetch takes its first page for the last, which is why
  `EndsCaughtUp` excepts that limit.
* Where the clock is put forward, the minute before the first one after it is, in
  local time, one that never was, and is read as a later one: a backward fetch
  whose window holds no price from before the change asks for it for ever. Where
  it is put back, the hour that comes twice is left out by a forward fetch, and
  as much before a page that begins in its second half by a backward one. A
  process that runs in UTC, as containers do, shows neither.
* The session routes store or verify an account and then fail, for no middleware
  provides `session`; a client that tries to sign up again is told its email exists.
* `PaginateDto` accepts offsets up to 1000, so that no page shows the rows behind
  the 1020th while `hasMore` says there are some; it accepts a limit of 0, with
  which `hasMore` stays true for ever, and negative ones.
* `order.service.ts:352` and `price.service.ts:857` report an insert whose answer was
  lost as one that failed: its rows are in the table, the user is told of an error, and
  no count has them. No document says otherwise.
* The rows of one import share their `createdAt`, so that pages of a listing may
  overlap although nothing changed.

## 7. What is not modelled

`createPrice`, which nothing calls; the decimals of amounts, and the composition
of `AccessKeys` and `OrderSync` (planned); limits of pages that are zero or
negative; the cascade of a deleted account to its keys and orders, which the
database does; the guards `AdminGuard` and `SessionGuard`, which are wired
nowhere; `getMeTest` and `SimpleService`, which nothing but tests calls; events and RabbitMQ,
schedulers, the playground and the wiring, which keep no state worth a model.
