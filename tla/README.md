# Hostr in TLA+

Hostr is a peer-to-peer rental marketplace on Nostr and Bitcoin. A guest and a
host negotiate in encrypted messages, the guest pays into an escrow contract on
an EVM chain, and the state of each trade is a small set of replaceable Nostr
events: one *order* per trade and role (buyer, seller, escrow). Everybody derives
what a trade is from those orders, the listing and the chain. No server owns the
state. An escrow daemon, the clients of the two participants and anybody with the
escrow's key read the relay, decide, and write to the relay, each at its own pace.
An assistant may act for a user too: an MCP server signs users in over OAuth,
keeps their sessions, and passes tool calls on to a hostr daemon it spawns.

This directory holds a model of the parts of that system in which order matters,
the TLC runs that check it, and theorems about it checked by TLAPS. All paths
below are relative to `src/`; `usecase/` is `hostr_sdk/lib/usecase/`.

## 1. Inventory

### 1.1 Components with logic of their own

| Component | State | Operations | Talks to | What is hard | What makes it correct |
|---|---|---|---|---|---|
| **Escrow daemon, order half** (`usecase/escrow_daemon/escrow_daemon.dart`) | retry timers per trade, the queue of triggers, sent notice keys, the group a job holds | start, stop, one job per trigger, retries, notices | relay (orders, threads), listing lookup, chain verification, `Orders` | every await is a window for participants, operator and crash; restart replays all stored orders; broadcast and record are two calls | confirms only funded and authorised orders; cancels only for lasting reasons; never replaces a verdict; rules on every funded order; tells the truth, once |
| **Order groups** (`usecase/order_groups/order_groups.dart`) | none; streams of validated groups | `verifyGroup`, `verifyGroupOnChain`, each by default or by force | listings, `EscrowVerification` | two modes with different authority rules; a null listing | forced verification is stricter, and rests on the chain |
| **Orders and transitions** (`usecase/orders/orders.dart`, `usecase/order_transitions/`) | the relay's orders; the chain of transition records | createSelfSigned, confirm, cancel, accept, createBlocked, record | relay | broadcast and record are two calls; successors are chosen by reading the latest | every broadcast order has its record; the chain does not fork |
| **Payment proof orchestrator** (`usecase/trades/payment_proof_orchestrator.dart`) | processed and in-flight trade ids, one subscription to orders and one to payments | start, reset, on order, on payment, publish for a completed swap | user subscriptions, threads, `Orders`, allocator | two callers of one routine with five awaits; in-memory memory only; events before start or before the thread | a proof is published once, and for every payment |
| **Book and pay** (`usecase/trades/book_and_pay/`) | the state of one checkout | execute: validate, offer, fund, prove, wait | nearly everything | a chain of awaits with one timeout | a checkout ends, and says what happened |
| **Escrow daemon, trade half and RPC** (`escrow_daemon.dart`, `escrow/lib/daemon/handlers.dart`) | snapshot per trade, block subscription, RPC sessions | contract events, reconcile, arbitrate, list | chain, RPC clients | a handler reconciles a snapshot read before its awaits while events update it; terminal events replay out of order | a terminal status is never undone |
| **User subscriptions** (`usecase/user_subscriptions/`) | known trade ids, known escrow services, filters, liveness | start, track, discover, reset | gift wraps, orders, transitions, payments | discovery expands the filters of other subscriptions; account change | the filters cover every trade of the account; live only when all are |
| **Startup coordinator** (`usecase/startup/`) | the generation and profile of the current start-up | start, cancel, stop | all services | cancellation between awaits, a second login during the first | at most one profile runs; a cancelled one publishes nothing |
| **Trade account allocator** (`usecase/trade_account_allocator/`) | next index, cache | reserve, find by trade id | seed store, relay, chain | read-modify-write across awaits | two trades never share a key |
| **Messaging and threads** (`usecase/messaging/`) | threads, processed ids, unread counts | broadcast to both copies, hydrate, seen receipts | relay | a message is two gift wraps, either may fail | a thread shows each message once |
| **Requests, CRUD, expandable subscriptions** (`usecase/requests/`, `usecase/crud.usecase.dart`) | open requests, batched lookups | query, subscribe, broadcast, getOne | relay | sharing and merging of requests, time-outs that look like empty answers | an answer belongs to its question |
| **Verify stream** (`hostr_sdk/lib/util/verify_stream.dart`) | sequence per key | verify in parallel, emit | validators | a result arrives after a newer version of its event | the newest version's result wins |
| **Background worker, heartbeat** (`usecase/background_worker/`, `usecase/heartbeat/`) | one pass, one timer | watch, run, publish | all of the above | overlap of passes, deadline, account change | one pass at a time |
| **Account stores** (`usecase/deterministic_keys/account_seed_store.dart`, `usecase/user_config/`) | persisted maps | load, update | storage | read-modify-write | no update is lost |
| **OAuth tokens and clients** (`ai/mcp-server/src/auth/refresh-token-store.ts`, `client-store.ts`, `oauth.ts`) | clients and refresh tokens, in memory and in a file | register, issue, rotate, detect reuse | OAuth clients | rotation spans an await; a failed write leaves memory and file apart; a lost answer | one live token per family; a token is traded once; a client without an accident can go on |
| **OAuth login** (`auth/oauth.ts`, its page) | pending requests and their index, codes | authorize, poll, nsec, cancel, exchange, sweep | browser, daemon, signer | tabs, polls and sweeps meet on one request while the daemon is awaited | a request ends once, a code is used once; the page tells the truth and comes to an end |
| **Daemon client** (`daemon/client.ts`, CLI `stdio_daemon.dart`) and **uploads** (`http/uploads.ts`) | pending calls, the child, its slots; hits of a rate limit | call, time out, cancel, exit, spawn; upload | child process, Blossom | late answers, a child that dies and is replaced, a cancel that finds nothing | an answer settles its own call; "ok" means stored; the limit holds in every window |
| **Sessions and accounts** (`auth/session-store.ts`, `mcp/server.ts`) | accounts of a session, in memory and in a file; tool lists of its connections | initialize, connect, switch, logout | daemon | handlers hold an account over several awaits | the active account is one of the session's; what is logged out stays out; tools are the active account's |
| **Booking conversation** (`mcp/server.ts`, `hostr_daemon.dart`) | what an answer shows and tells the assistant to do | bookAndPay, swaps.watch | daemon, relay, swap | an answer is put together from reads at different times | no second payment is asked for; the assistant stops for a reason and shows the trip |
| **Tool answers and payment assets** (`mcp/server.ts`, `payment/assets.ts`) | the files behind links | make an answer, store, serve, clean up | MCP library, disk | schemas and cards are kept far apart; three files per asset | answers fit; links work for a day; nothing but what was made is served |
| **Signer notices and forms** (`hostr_daemon.dart`, `mcp/server.ts`) | seen requests, tokens, listeners, forms | raise, tell, answer, ask | signer | several calls of one account; notices race answers | an answer tells of every request of its account, and only of its own; one form each |
| **Relay authorisation** (`relay-authz/src/policy.js`) | none | decide | relay | order of rules | the table is total and matches its reference |

### 1.2 Components without

Auth and keys, payments and wallets, read models (calendar, trade audit, reviews,
escrows, metadata, listings), Blossom, storage, location, the CLI's other commands, the Flutter
app, infrastructure, generated code and mocks. They are queries, mappings, I/O
or presentation. The EVM, swap and escrow-verification packages and the Solidity
contract live in submodules that are empty in this tree; the code here is
modelled against the *classes* of their answers. `PROJECT.json` lists every one
with the reason.

### 1.3 How the modelled parts interact

    guest's app                         relay                     escrow daemon
    ───────────                         ─────                     ─────────────
    checkout ──┐                 order(buyer)  ─── trigger ──▶  job: read
               ├─ publish proof ─▶             ◀── verdict ───   listing, chain
    payment ───┘                 order(escrow)                   re-read, publish
    event      ◀── allMyOrders$ ─              ◀── record ────   record
                                 order(seller) ─── trigger ──▶   tell buyer, seller
    host's app ── confirm/cancel ▶                               retry timer
                         escrow contract: pending → funded | short

    assistant ── tool call ──▶ MCP server ── line ──▶ hostr daemon ──▶ use cases
       ▲                       session, tools         slots, signer       (above)
       └── answer, notices ◀── schema, assets  ◀── answer, notification ──┘
    browser ── authorize, poll ─▶ OAuth login ─ code ─▶ tokens

## 2. Modules

| Module | Models | Reads as |
|---|---|---|
| `OrderGroups` | the pure rules of `order_groups.dart` and `isRetryableOrderVerificationFailure` | operators on a group, a function from roles to stages |
| `OrderGroupRules` | a group that grows, judged in both modes | three properties that relate the modes |
| `EscrowVerdict` | what the escrow promises (abstract specification) | a ruling: open → approving/rejecting → confirmed/cancelled |
| `EscrowDaemon` | the order half of the daemon, the notifier, the participants, relay and chain | one action per await of a job |
| `EscrowDaemonProofs` | theorems | |
| `PaymentProof` | the payment-proof orchestrator and the end of a checkout | one action per await of a call, two callers |
| `PaymentProofProofs` | theorems | |
| `OAuthTokens`, `OAuthTokensProofs` | the persisted half of OAuth: clients, refresh tokens | two maps, each with its file |
| `LoginRequest` | what the login endpoints promise of a request (abstract specification) | unused → open → granted or closed |
| `OAuthLogin`, `OAuthLoginProofs` | the in-memory half of OAuth, the page, the daemon's login attempts | a handler cut at its await; the page reads replies in steps of its own |
| `DaemonClient` | calls over the daemon's line protocol | client, child and lines between them |
| `Uploads`, `UploadsProofs` | the upload endpoint on top of `DaemonClient` | one action per await |
| `McpSessions` | a session's accounts, its store and its tool lists | one action per await of a handler |
| `BookingChat` | a booking as an assistant conducts it | EXTENDS `OrderGroupRules`: the orders grow meanwhile |
| `ConversationProofs` | theorems on `BookingChat` and `McpSessions` | |
| `PaymentAssets` | the files behind an answer's links | memory and disk of each asset |
| `ToolAnswers`, `ToolAnswersProofs` | what a tool answers, against its registered schema | pure operators on `PaymentAssets` |
| `SignerNotices`, `SignerNoticesProofs` | a signer request on its way to a conversation | the daemon's output as one queue of lines |
| `MC*` | constants and symmetry for TLC | |

`EscrowDaemon` and `PaymentProof` both EXTEND `OrderGroups`; `EscrowDaemon`
INSTANCEs `EscrowVerdict` with a refinement mapping, `OAuthLogin` does so with
`LoginRequest`. `BuyerCommits` of `EscrowDaemon` is the outcome of `PaymentProof`.
The three compositions are `Uploads` over `DaemonClient`, `BookingChat` over
`OrderGroupRules`, and `ToolAnswers` over `PaymentAssets`.

### 2.1 `EscrowDaemon` against the code

`relay[t]` is what the relay stores: orders are replaceable, so there is one per
role, reduced to its stage. `funding[t]` is the contract's log, `terms[t]` the
listing's `autoAccept` and the class of the buyer's payment proof: none, a sound zap
receipt, an escrow proof, or an escrow proof that `Order.validate` refuses. Only a
buyer's commit with an escrow proof is ruled on (`MayRule`), so the daemon never
judges a group that forced verification would pass without asking the chain.

A trigger of the order subscription goes through `flatMap(maxConcurrent: 1)`, so
there is one job slot (`SlotFree`). The job is cut at every await:

| `step` | The await | Then |
|---|---|---|
| read | `_queryOrderGroupsForTrade` | an escrow order: notices only; a buyer's commit: listing; else end |
| listing | `getOneByAnchor` | `verifyGroup`, forced: on chain, or cancel |
| onchain | `EscrowVerification.verify` (the daemon always has one) | valid: re-read; retryable: timer; else cancel |
| reread | `_latestOrderGroup` | an escrow order now: notices; else confirm |
| confirm, cancel | `broadcastEvent` | record |
| record … | `OrderTransitions.record` | notices |
| tell … | `Future.wait` over the two gift wraps of a notice | both back: next notice, or end; one thrown: end |

An exception anywhere is logged and swallowed by `_processOrderTradeId` (`EndJob`).
`seen` merges `_sentNoticeKeys` with the hydrated threads, since `_maybeSend`
asks both. `Crash` loses the process's variables and the wraps still on their way, and
nothing else; `Restart` waits for the threads (or for 30 s, fault *hydrate*) and gets
every stored order replayed as a trigger.

A notice is two broadcasts side by side (`_broadcastRumour`), the recipient's wrap and
the escrow's own, and `wraps` is where each of them is. `SendNotice` puts both out;
`CopyReturns` stores one and lets its broadcast come back, in either order, or throw
with the copy stored or not; with the last one back `NoticeEnds` marks the notice sent,
or ends the job by the exception. The participants, hydration and a crash may come
between any two of these steps. `lapsed` is history: the notices whose recipient has
them although the daemon may not know it, because a crash or an exception cut the
sending off, or because a restart did not wait for the stored copy.

Simplifications, each deliberate: one relay (hostr's kinds are queried on the
hostr relay only); one group per trade; a query answers completely, with nothing
or with an exception; triggers are a set, so that the order between different
triggers is left open and equal ones waiting are merged; a participant's own
operation is atomic on the relay's current state, so stale reads of *participants*
are not modelled; the buyer's participation proof resolves; `accept` has no caller
outside tests; a transition record is a call that may fail and that nothing here reads.
`delivered` saturates at 2, which stands for "again". Crashes are bounded by
`MaxCrashes` (counted in `crashes`), retries by nothing.

### 2.2 `PaymentProof` against the code

The trades are ones this user negotiated as a guest (the early return for hosts
is left out). Both callers of `_publishProofForTrade` are kept as
`step[<<trade, caller>>]`: *event*, of which `asyncMap` runs one at a time over
all trades, and *checkout*, one per trade. `Enter` is the synchronous prefix of
the routine with its guards in the code's order; then come the query
(`CheckOrders`), listing, profile and key as one await (`Prepare`), the broadcast
(`Publish`) and the record (`Record`). `Settled`, `GivesUp` and `Throws` are the
ways a call ends, each with what `finally` does and what the checkout that waits
for it does next.

`threads` are the trades whose order request has been hydrated: an event that
arrives earlier is dropped, as the comment in the code says it may be. `orders`
are the commits that `allMyOrders$` has delivered. `lost` is a history variable:
the trades some call of this session gave up or failed. `Start` normally waits
for the inbox; a checkout that starts the orchestrator by itself
(`book_and_pay_operation.dart:61`) or the 30 s time-out let it run earlier (fault
*inbox*). `_containsBuyerOrder` excludes only the seller's orders, so the escrow's
commit counts as well, and does in the model.

Not in this module: `reset()` while a call is under way, a change of account, and
the part of a checkout before its payment.

### 2.3 The MCP server's modules against the code

JavaScript runs a handler without a break from one `await` to the next, so that is
one action, with the throw of a failed write among its outcomes. What a handler
keeps over an await is a record in `call`, `sign`, `poll` or `stage`; it is not read
again unless the code does.

**`OAuthTokens`.** A store is a map in memory and a file that every change rewrites
through a temporary file and a rename, so the file is old or new but never torn.
`RefreshBegin` is the refresh branch up to `await signAccessToken`, with the consumed
token already in the file; `RefreshEnd` issues the successor. Faults: a write fails
(*persist*; memory keeps the change, only registration takes it back), a start cannot
read its file (*load*), the answer is lost (*reply*), *crash*. `hurt` and `clientsLost`
record which families met an accident. Every client registers for all scopes.

**`OAuthLogin`.** `pending`, `index` and `code` are the three maps; a removed request
keeps the way it ended in `pending`. `Authorize` begins with the sweep, as every
endpoint does. The page's script is `timer`, `poll` and `nsec`: it polls, stops while
an nsec is asked, and reads what the server says in a step of its own. The daemon's
attempt is `connect` (which QR code is live) and `wait`.

**`DaemonClient`, `Uploads`.** Calls get increasing ids over all children; `out` is the
set of answers on their way, `cancels` that of the cancel lines. `TakeSlot` is the
semaphore, which serves in order. The death of a child and its exit event are one step.
`UploadEnds` needs no fairness of the daemon: every call has a time-out. A spawn error
leaves a child that takes calls and never answers, as in the code. `hits[k]` is the
list of times the rate limiter keeps for a class of requesters, as the set of the
requests they belong to; a rejected request is not in it.

**`McpSessions`.** One OAuth session with several connections and overlapping handlers.
`doing[h]` is what a handler holds over its await. `Saved` writes the file and can fail;
`DaemonChecks` and `DaemonSignsOut` are the two halves of the daemon's logout, between
which a swap may begin. The code filters an account out of the session and the model
removes its first occurrence (`RemoveFirst`): `SessionSound` says an account is there
once. `gone` and `fresh` are history.

**`BookingChat`.** `swap` is the persisted record by the classes the code tells apart.
The payment (`UserPays`, `paid`) is one moment and the change of the record another
(`SwapNotices`): until the swap operation has noticed the payment, the record still asks
for it, and a watch begun after paying shows the invoice.
A watch reads orders, swap and orders again (`WatchChecks`, `WatchReads`,
`WatchLooksUp`), and `Respond` is what `toolResponse` makes of it: what is shown, and
what the instructions tell the assistant (`duty`). The assistant obeys. Another
conversation may switch the account at any time.

**`PaymentAssets`, `ToolAnswers`.** An asset is a text, a picture when it was made with
one, and metadata, which is written last. `Results` are the classes of a daemon's result.
`Card` is the card of a kind that `toolResponse` makes of one, if it does; the four
orders (`DisplayOrder`, `MetaOrder`, `WidgetOrder`, `ContentOrder`) are those in which
the code's branches look for them, and the schemas those of the registrations.
`Fits` is the library's check and external.

**`SignerNotices`.** Notifications and answers share the child's stdout, so `out` is a
sequence. `owed` is history: what was raised for a call's account while its action ran.

## 3. Runs

| Run | Instance | Distinct states | Question |
|---|---|---|---|
| `daemon_safety` | 1 trade, all terms, every fault but *noListing*, all moves but the operator, 2 crashes | 711,588 | are verdicts justified, final, and truthfully announced; is a notice repeated only by a daemon that could not know of it; does the daemon implement `EscrowVerdict` |
| `daemon_liveness` | 2 trades, no failing calls, an operator, 1 crash | 114,355 | is every funded order ruled on, the buyer told; does a trade silence the other; does an operator's cancellation stay |
| `proof_session` | 2 trades, every fault and move | 117,193 | is a proof published once and never lost; does a checkout end |
| `booking_chat` | all groups, listings, proofs, chain answers; every fault of a watch | 121,770 | how do the two modes of verification relate; is the conversation told the truth in time |
| `oauth_tokens` | 2 clients, 3 tokens, 2 scopes, 2 waiting requests, every fault | 174,113 | is rotation ever forked, and whom does an accident strand |
| `oauth_login` | 1 key, 2 requests, 2 pages, every fault | 144,871 | does a request end once and a code serve once; do pages end, and tell the truth |
| `daemon_calls` | 2 uploads, 2 calls, 2 children, 1 slot, a window of 2 ticks, every fault | 124,101 | does an answer reach its own call; is what is called stored stored; does the limit hold |
| `mcp_sessions` | 2 accounts, 2 connections, 2 handlers, every fault | 2,109,381 | is the session sound; does logged out mean out; whose tools are shown |
| `tool_answers` | 2 assets, 3 ticks, every answer, every fault | 102,423 | does each answer fit its schema; do links work; is only the right thing served |
| `signer_notices` | 2 calls, 2 accounts, 3 requests (1 quiet) | 2,588,045 | is a conversation told of its requests, all of them, once |
| `find_logout`, `find_booked` | 1 account; 1 asset; no faults | | see section 6 |

What the properties say:

- `ConfirmOnlyIfFunded`, `AuthorisedConfirm`, `CancelOnlyWithGrounds` relate the
  escrow's order on the relay to the chain and the terms, over any number of
  jobs: they fail when a retry, a re-read or a forced check is skipped.
- `VerdictFinal`: what the escrow published is never replaced. It needs the
  guard on the first read *and* the single job slot; it says so of crashes too.
- `OperatorCancelFinal`: no step undoes an operator's cancellation once it is stored
  and no confirmation is past its re-read. The window after the re-read is open in the
  code, and the property says so rather than hide it.
- `NoticeMatchesVerdict`: what the notifier says.
- `NoticesOnce`: a notice is repeated only where the daemon could not know that it had
  sent it (`lapsed`). Its run has every failing call and crashes between the two wraps;
  it fails when the listener does not wait for the threads.
- `BuyerTold`: a crash between verdict and notice, or before the recipient's wrap is
  out, does not leave the buyer untold. The one case it excuses is the code's: the
  escrow's own copy was stored, the recipient's was not, and the restarted daemon takes
  the notice for sent.
- `Settles`: no interleaving of triggers, timers and restarts loses a trade.
- `KeepsThePromise`: refinement of `EscrowVerdict`.
- `ForcedMeansFunded`: where the buyer's order has an escrow proof and there is a
  verifier, what forced verification accepts is funded, whatever confirmations or
  cancellations there are beside it. Without a proof or a verifier `verifyGroupOnChain`
  answers Valid without the chain, as its tests want (`order_groups_test.dart:727-744`,
  `1034-1062`), and the property says nothing there. `SellerHasAuthority`: in default
  mode the seller's order is enough.
- `OneProof`: a call never broadcasts over a committed order: of the two callers
  only one gets past the query, and what it read there stays true until it
  publishes.
- `ProcessedHasOrder`: a call that fails half-way does not leave its trade marked.
- `FundedGetsProof`: a payment gets its order unless a call failed it *in this
  session*; an early return because the other caller is busy does not lose it.
- `BookingEnds`: a checkout that paid ends, whoever publishes its proof.
- `OneLivePerFamily`, `RotatedOnce`, `NotStranded`: refresh tokens. The first two say
  that rotation cannot be forked, not even through a restart that reads the file; the
  third that detecting reuse in one family does not lock out another.
- `IndexSound`, `ExpiredMeansOver`, `KeepsRequest`, `LoginEnds`: a login is found
  again only while it is open; what the page says is over is over; no interleaving
  gives a second code; a page that is left open stops polling in the end.
- `OwnAnswer`, `RejectedIsOver`: over time-outs and respawned children an answer
  settles the call it belongs to, and what was rejected with its child is not served.
- `OkMeansStored`, `RateBound`, `UploadEnds`: uploads, with the fallback from the
  daemon to a direct upload.
- `SessionSound`, `LoggedOutStaysOut`, `AloneMeansCurrent`: sessions. The last one
  speaks of account calls no other call overlapped; overlapping switches may leave a
  connection with the tools of the account that lost.
- `StopsForAReason`, `InvoiceWithdrawn`, `TripShown`: a conversation whose answers are
  made from reads at different times does not stop a booking that goes on, ceases to show
  the invoice once the swap has moved on, and shows the trip in the end. That no answer
  ever shows the invoice to somebody who has paid would be false of the code: the record
  lags behind the payment. `InvoiceWithdrawn` asks nothing of the swap; it starts when
  the record has left the invoice.
- `AnswersFit`, `LinkWhole`, `ServedRight`: answers and the files behind their links.
- `OwnRequests`, `AnswerTellsAll`, `OneForm`: signer requests.

**Bounds.** One trade is enough for what a job may do to its own trade; the daemon
shares three things between trades, the slot, the timers and the notice keys, and
the two trades of `daemon_liveness` show their interplay (its mutants share a timer and
a key between trades). For the orchestrator the shared thing is `asyncMap`'s slot. The
state of these two is finite without bounds on retries and repeated events, and that of
the orchestrator without one on restarts. `MaxCrashes` of the daemon is two where safety
is checked (a crash in the sending that another crash had caused) and one in the liveness
run, whose properties are about the time after the last crash. The MCP modules name theirs: `Tokens` (a family of three shows a
successor of a successor), `Ids` and `Tabs` (two requests, two pages), `MaxCalls` and
`MaxChildren` (a call before and after a respawn), `Handlers` and `Transports` (two
overlapping calls on two connections), `LastTick` (an edge of the window on both sides;
an asset that expires), `Requests` (two of an account and one nobody waits for). The
faults of this code come from two awaits that cross, and two actors cross them.
Symmetry is used in runs that check invariants only. `CHECK_DEADLOCK FALSE` appears
where the system may really stop: everything settled, or a bound reached.

**Faults.** Each class of failing call is a name in a module's fault constant. The
liveness run of the daemon has none, because the code does not retry a job that failed
by an exception; that is recorded as a hazard and no property claims otherwise. The
other passing runs have them all, except that `daemon_safety` leaves out a lookup that
does not find the listing (its hazard says what the code does then): their
properties name the failure they excuse.

**Mutants.** Every property of a passing run has a mutated definition in the module
beside the one it mutates (a dropped guard, a lost retry, a shared timer), which
makes the run fail.

## 4. Fairness

- `WF(JobStep)`: a call that was made returns. The code's queries, lookups and
  broadcasts have time-outs; an outcome that is a failure is a step too.
- `SF(Start)`, `SF(TakeEvent)`: `flatMap(maxConcurrent: 1)` and `asyncMap` serve
  what is waiting in order. The slot is taken and freed in between, so weak
  fairness would not say it.
- `WF(RetryFires)`, `WF(ProofTimeout)`: timers fire.
- `SF(VerifyAnswered)`: a chain that is asked again and again answers at last.
  Without it "unreachable" for ever would be a counterexample to `Settles`, and
  rightly so.
- `WF(Restart)`: the supervisor restarts the daemon; a user opens the app again.
- `WF(ThreadArrives)`, `WF(EventArrives)`, `WF(Start)`: subscriptions deliver what
  the relay and the chain hold, and start-up goes on.

- `OAuthLogin`: replies and timers reach the page and ten minutes pass (`PageFairness`,
  `WF(RequestAges)`); calls to the daemon have time-outs.
- `Uploads`: `WF(Timeout)` and `WF` of the continuations of settled promises; nothing is
  asked of the child or of Blossom, whose own end (`DirectEnds`) is bounded by an abort.
- `BookingChat`: the assistant does what it is told, the user replies in the end, and
  `SF` of the three reads of a watch: one that is repeated is not refused, lost or late
  every time.

Nothing is asked of participants, funding, operators, faults or crashes, and
`Settles`, `BuyerTold` and `FundedGetsProof` are conditional on `<>[]up`.

## 5. Proofs

The theorems hold for every value of the constants, and every choice of faults and
moves that their hypotheses allow. The ASSUMEs of the modules say
only what kind of sets the constants are.

**`EscrowDaemonProofs`**

- `TypeCorrect`: `Spec => []TypeOK`.
- `FundedWhenConfirmed`: `Spec => []ConfirmOnlyIfFunded` without any hypothesis:
  operator, lookups that find nothing and every failing call included. Its
  invariant adds that a job at *listing* holds a buyer's commit with an escrow proof,
  which is why verification cannot bypass the chain, that a job at *reread* or
  *confirm* has a funded trade, and that funding does not go away.
- `DaemonSound`: `Spec => []IInv`, assuming `Alone`: no operator signs for the
  escrow (`"operator" \notin Moves`) and a lookup of a listing finds it
  (`"noListing" \notin Faults`). The safety properties are not inductive: they
  speak of what is on the relay, and a job decides long before it publishes.
  `IInv` adds what a job knows at each step (`JobSound`): while it decides the
  escrow has no order; the seller's order it has read is still there in some
  stage; past the checks the proof and the authorisation are there; past the
  verdict the relay has it. `AuthorisedWhenConfirmed`, `GroundsWhenCancelled`,
  `NoticesTrue` and `VerdictIsFinal` follow from it.
  Both hypotheses are needed: a lookup that finds no listing lets an unauthorised
  order pass, and an operator may cancel between the re-read and the confirmation.
- `NobodyToldTwice`: `Spec => []NoticesOnce` without hypotheses, crashes between the
  two wraps included. `OnceInv` accounts for every notice (`Accounted`): the daemon
  lost track of it, or nobody has it, or the running daemon knows it or is about to, its
  recipient's wrap being back (`Sending`), or the process is down and the copy stored. A
  notice is only sent when it is not known, so whose wrap is still out has not been told
  before (`Untold`); that one job at most is sending is `OneJob`.
- `OperatorIsFinal`: the action property `OperatorCancelFinal`, assuming only that queries answer
  completely (`"read" \notin Faults`), operator included.
- `PromiseKept`: `Spec => KeepsThePromise` under `Alone`. A job's step maps to
  `Approve`, `Reject`, `Publish` or a stutter; an exception or a crash to `Forget`.

**`PaymentProofProofs`**, without hypotheses

- `Inductive`: the invariant: a call under way holds its trade in the in-flight
  set (part of `TypeOK`); the two callers are never both under way for a trade;
  from *prepare* on the order is not committed; what was seen, confirmed,
  processed or is being recorded has an order.
- `TypeCorrect`, `ProcessedHasOrderHolds`, `OneProofHolds` follow. The heart is
  that nobody but the one call commits the order between its query and its
  broadcast, and that `finally` frees only the trade of its own call.

**`OAuthTokensProofs`**, for any clients, tokens, scopes, requests and faults. While a
request waits for its signature no token of its family is live, in memory or in the
file, and no other request of the family waits. `OneLive`, `TradedOnce`,
`ScopesOnlyNarrow` (a scope once narrowed is not widened by a later refresh) and
`ClientsStay` follow. `NobodyStranded` needs more (`HeldInv`): as long as no file of
clients was lost, the clients of all tokens are registered, and every family without
an accident has a live token or a request at its signature. The step that matters is
that of another family: consuming, revoking, expiring or losing its tokens leaves this
one's tokens, clients and requests as they were (`UntouchedServed`).

**`OAuthLoginProofs`**: every step opens a fresh request, closes some, grants one that
is open, or leaves them alone; from this `IndexCorrect`, `ExpiredIsOver` and
`Implements`, the refinement of `LoginRequest`.

**`UploadsProofs`**: `TypeCorrect`; ids are never used twice and at most one child works,
so `AnswersAreOwn`, `RejectedStaysOver` and `OkIsStored`, for any number of calls,
children and slots. `RateIsBounded` (`RateInv`): the limiter forgets a request only when
its window has passed, so who is let in at `now` is counted with all of the window that
ends at `now`; a window that ends later is a part of that one, and one that ended
earlier has not changed. The bounds are for every start of a window, not for those the
run enumerates.

**`ToolAnswersProofs`**: metadata is written last, so text and metadata together mean a
whole asset: `OnlyWholeAssets`, `LinksWork`. `AnswersAlwaysFit`: a result has cards of
at most one kind (`OneKind`), so the four orders find the same card (`AlwaysAlike`,
`OnlyOne`), and the kind is in the schema of its tool (`CardFits`).

**`SignerNoticesProofs`**, for finite sets of calls and requests: what is owed to a call
is in its notices or ahead of its answer on the same stream: `AnswersTellAll`; with it
`NoticesAreOwn` and `FormsAreSingle`.

**`ConversationProofs`**: `ForcedIsFunded`, `SellerStays` and `ForceStricter` (what the
escrow accepts by force no client rejects) of the rules; by force, an
escrow proof and a verifier leave nothing but the chain's word (`ForcedIsAsked`).
`StopsWithReason` of the conversation: a failure that was read is still one when it is
told. Of the session, for any accounts, connections,
overlapping handlers and failing writes: `SessionsSound`, `LogoutIsForGood` and
`AloneIsCurrent`, all from `SessionInv`. A session is read and written within one step,
so `SessionSound` and `LoggedOutStaysOut` follow from what adding, switching and
removing do to a list without repetitions (`AddedIs`, `SwitchedIs`, `RemovedIs`).
`AloneMeansCurrent` is not inductive: the list a connection shows was asked for some
steps earlier. `Solo` says that a call nothing overlapped looks up the tools of the
account that is still active, `FreshIsLast` that nobody is under way who could change
it once the list is shown.

Only model-checked: liveness (`Settles`, `BuyerTold`, `FundedGetsProof`, `BookingEnds`,
`LoginEnds`, `UploadEnds`, `TripShown`, `InvoiceWithdrawn`), as TLAPS has no support for the enabledness in
fairness. Every invariant and every action property of the runs is proved.

## 6. Findings

Runs in which TLC shows that the code does not do what its documentation says:

| Run | The text | What the code does |
|---|---|---|
| `find_logout` | `ai/mcp-server/src/mcp/server.ts:6632` "Hostr refuses to log out an account with non-terminal swaps in progress" | the daemon refuses with a *result* (`ok: false`, `pending_swaps`); the server reacts to exceptions only and removes the account from the session; the test mocks a daemon that throws |
| `find_booked` | `ai/mcp-server/src/mcp/server.ts:460` "May return a payment QR widget. If payment is required, …" | a booking that needs no payment answers without the fields its registered schema requires, and the MCP library turns the finished booking into an error |

What reading the code for the models showed besides (each is a hazard in
`PROJECT.json`, with its line): the daemon's re-read before a confirmation looks for the
escrow's orders only, so a participant's cancellation that it has just read is confirmed
over; a crash between broadcast and transition leaves an order without its record for
good; a restart whose threads take longer than 30 s repeats notices, and a crash between the
two wraps of a notice repeats it, or, with the escrow's own copy stored and the
recipient's not, leaves the recipient untold for good, though `escrow_daemon.dart:918`
calls the notifier idempotent; forced verification says nothing of money for a group
without an escrow proof, or where there is no verifier (the daemon rules on no such
group); a lookup that finds
no listing passes the pre-authorisation check; after a restart the replayed payment event
republishes an order whose buyer had cancelled it. The models have all of these
behaviours, and the properties above leave them room where they say so.

## 7. Not modelled, and why

- Cryptography, key derivation, gift wrapping, wire formats: pure functions, or
  their outcome is a fault of a call.
- The escrow contract and the swap protocol: not in this tree. Funding is one
  irreversible event with a right or a wrong amount; release, claim and
  arbitration on the chain come with the trade tracker.
- Several relays, and relays that lose events: the code queries hostr's kinds on
  one relay; a read that finds nothing is a fault.
- `EscrowDaemon.stop()` overlapping a job, `PaymentProofOrchestrator.reset()`
  overlapping a call, `HostrDaemonClient.close()` overlapping a request: they happen at
  shutdown or at a change of account, which no module has.
- Progress notifications, widgets, prompts and the wording of answers; PKCE, redirect
  and token checks, which guard requests that would change nothing.
- The contract half of the escrow daemon and its RPC handlers, the chain of transition
  records, the account allocator, the start-up coordinator, the streams of validated
  order groups, the stores of the client application, the relay's policy: no module
  yet (section 8).
- User interface, deployment, generated code.

`PROJECT.json` lists every hazard met while reading, with the property that covers
it or the reason none does.

## 8. Plan

Done, in this order: what an order means and who publishes it (`OrderGroups`,
`OrderGroupRules`, `EscrowVerdict`, `EscrowDaemon`, `PaymentProof`), then the MCP server
in front of it (`OAuthTokens`, `OAuthLogin`, `DaemonClient`, `Uploads`, `McpSessions`,
`BookingChat`, `ToolAnswers`, `SignerNotices`), each with its proofs.

What would come next:

1. `OrderTransitions`: several devices of one key append to the chain of a trade
   by reading its latest record; abstract specification: a list without forks.
2. `TradeTracker`: the contract-event half of the daemon and the RPC handlers.
   Property: a terminal status is never undone; handler and stream agree.
3. `TradeAccounts`: the allocator, several reservations at once over the seed store.
4. `Startup`: coordinator, user subscriptions, `reset()` with a call under way, change
   of account. Property: nothing is published for an account that is no longer active.
5. `Settlement`: `PaymentProof` and `EscrowDaemon` composed over one relay.
6. `VerifyStream` and the order-group streams; `BookAndPay` from validation on; the
   background worker and the heartbeat; the relay's table against a reference.
