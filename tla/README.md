# A verification of vara-dapp-patterns in TLA+

The repository collects patterns for dApps on the Vara network: Rust contracts
for the Gear runtime, Node servers that sign for their users, and React hooks.
Each pattern is small, and each is hard at one point: a delayed message that
cannot be called back, a nonce that two requests may take, a balance that is
stale when it is used, a block that is reverted after it was believed. The
modules here model those points, TLC checks them on small instances, and TLAPS
proves for every instance what is safety: each invariant and action property
that a run checks, and two refinements.

## 1. The system

| Part | State it keeps | Operations | Talks to |
|---|---|---|---|
| `contracts/delayed-self-message` | a map user -> lock (`active`, `expires_at`, `version`) | `start`, `renew`, `cancel`, `expire`, `get_lock` | itself, by delayed messages in the Gear dispatch stash |
| `contracts/factory`, `factory-child` | the child's `code_id` | `create_program` (async) | the runtime that creates and initializes the child |
| `contracts/module-toggles` (oracle, admin wrapper, market) | a price; the last quote and trader | `update_price`, `get_price`, `quote_usd`, `open_position`, `last_quote` | services call each other inside one program |
| `contracts/signless-gasless` | sessions (external crate), a counter | `increase_counter`, session service | wallet and session key |
| `infrastructure/gasless-server` | a promise queue, a map of requests in flight, cached voucher figures | `POST /gasless/voucher/request`, `/issue`, `/prolong`, `/revoke`, status and details | the chain, with one issuer account |
| `infrastructure/token-gate-server` | nonces, one cached API connection; the JWTs are with the clients | `/auth/nonce`, `/auth/verify`, `/auth/refresh`, `/entitlement` | the chain (VFT balance) |
| `infrastructure/gateway` | its connection; no record of requests | create program, create pool (two ways), create both, queries, start-up, shutdown | factory and pool factory programs, with one account |
| `frontend/.../verified-sign-and-send` | one mutation's promise and subscription | sign and send, follow statuses, check replies | node, indexes of replies |
| `frontend/.../ez-transactions` | voucher status, refs, a polling loop | request voucher, send | gasless server, contract |
| `frontend/.../prepare-program-tx`, `program-tx-mutation`, `VftTransfer` | one mutation at a time, as React Query shows it | prepare, sign and send, alert | node, wallet |
| providers, generated clients | none of their own | wiring, encoding | |

What is hard, and which property answers it, is the list `hazards` of
`PROJECT.json`, each at its line. In short:

- **Overlap.** Requests of a server run on one event loop and are cut at every
  `await`; another request runs in between (gasless queue and map, token-gate
  connection, gateway's last pair, factory's await).
- **Stale data.** A delayed message of an earlier term; a balance read before
  an `await`; a price read before a trade; a voucher past its duration.
- **The network.** Transactions that leave the pool without a block, blocks
  that are reverted, replies that come late, never, or after the wait ended.
- **Restarts.** The servers keep everything in memory.
- **Numbers.** `saturating_add` on versions and blocks, `saturating_mul` on
  prices, balances truncated to whole VARA.

## 2. The modules

An action is what the code does without interruption: one message for a
contract, what lies between two awaits for a server or a hook, one step of the
chain for the environment. A contract call that returns `Err` panics under
`#[export(unwrap_result)]`, so it is undone as a whole and is a stuttering step
unless something outside the program is used up.

| Module | Models | Correspondence |
|---|---|---|
| `Lease` | abstract specification | what a user of the lock contract is promised: acquire, extend, release, lapse at the deadline and no earlier, and to learn how it ended |
| `DelayedSelfMessage` | `contracts/delayed-self-message/app/src/lib.rs` | `locks` is `State.locks`, `pending` the delayed messages; `Start`, `Renew`, `Cancel`, `Expire` are the exports; `DeliverExpire` executes a delayed message, `ExpireFails` one that fails and is gone, `CallExpire` a call from outside |
| `DelayedSelfMessageProofs` | | its theorems |
| `VoucherDesk` | abstract specification | what the gasless server promises: clients stand in one line, each is served alone, who asks with the same words stands together, and who asks for a voucher is issued one only if the account has none |
| `VoucherDeskProofs` | | its theorems |
| `GaslessServer`, `MCGaslessServer` | `infrastructure/gasless-server/src/{lib,index}.ts` | `queue` is `submissionQueue`, `inFlight` is `inFlightVoucherIssues`; `Request`, `Issue`, `Update` are the routes; `FindExisting` ... `InBlockCallback` the stretches of an operation; `pool` and `chain` the node |
| `GaslessServerProofs` | | theorems about its queue and nonces, and that it implements `VoucherDesk` |
| `VoucherTopUp` | `prolong` in the same `lib.ts` | `ReadBalance`, `SubmitUpdate`: the balance read and the top-up computed from it; `update` is where each call's update is, which may outlive the call (`CallEnds`) and come back from a reverted block; `Spend` is the user of the voucher |
| `TokenGate` | `infrastructure/token-gate-server/src/{server,auth,gear}.ts` | `Verify`, `Refresh` up to the connection, `GetApi`/`ApiCreated`, `NodeReads` the balance, rounded by `Number`, `Answer` the JWT |
| `TokenGateProofs` | | its theorems, and lemmas about rounding |
| `Gateway` | `infrastructure/gateway/src/{index,services,controllers}` | one action per await of each write endpoint, `Query` for the reads; `Listen`, `Shutdown` and `Exit` are the process, `Lose` is a transaction the node drops or replaces, `Orphan` what the chain does with one whose process is gone; `pairs` is the registry |
| `GatewayProofs` | | its theorems |
| `VerifiedSignAndSend` | `frontend/patterns/hooks/verified-sign-and-send` | `StatusCallback`, `CheckResolves`/`CheckRejects`, `SettleOnce` |
| `VerifiedSignAndSendProofs` | | its theorems |
| `Market` | `contracts/module-toggles` | `UpdatePrice` behind `EnsureAdmin`, `GetPrice`, `OpenPosition` |
| `SwitchSignless` | `frontend/patterns/ez-transactions/examples/SwitchSignless.tsx` | `Mount`, `AccountChanges`, `EnabledChanges` are the renders whose effects run; `runs` are the invocations of `requestVoucherSafely`, `Poll` its loop |
| `Onboarding`, `OnboardingProofs` (theorems about both modules) | that component and the server together | `mail` is what travels; the server is an instance of `VoucherDesk`, which `GaslessServer` implements; `Breaks` loses a request or its answer |
| `SendButton` | `SwitchSignless.tsx` (`handleSendHello`), `use-sign-and-send.ts`, `use-check-balance.ts`, `VftTransfer.tsx`, `useVftTransferMutation.ts` and the two hooks it is built from | an attempt per click, a stage per await; `latest` is the mutation React Query shows |
| `Factory` | `contracts/factory`, `factory-child` | `CreateProgram` before the await, `Wake` after it, `Timeout` when the wait ends |
| `ComponentProofs` | | theorems about `Market`, `Factory`, `VoucherTopUp` and `SendButton`, which it extends all four; hence their prefixed `MarketInit`, `FactoryNext`, `TopUpSpec` and so on |

Modelled from how the code uses them, and marked external in the map: the Gear
dispatch stash and block height, the transaction pool and its reverted blocks,
the voucher pallet, the pool factory's registry (a pair is added once, at the
end), VFT transfers, the runtime's address allocation and reply timeout.

Definitions whose comment begins with "Mutant" are faulty variants of the
definition below them. They are used by no specification; each shows that a
property notices a plausible slip at that place.

## 3. What TLC checks

Twelve runs, listed in `PROJECT.json`; each takes at most a few minutes on a
laptop.

**delayed** (`Delayed.cfg`, 73,781 states). Two users, three delayed messages,
versions up to 3 and blocks up to 4, both saturating, so a version is reached
at which stale messages do match. Three messages suffice for the interesting
case: start, cancel, start again, renew, with the first message still on its
way. `ActiveLockHasTimer`: no active lock without a message of its own.
`NoStaleMatch`, `OnlyOwnTimerExpires`: below the version ceiling stale messages
do nothing. `EndsEarlyOnlyByCancel`, `ImplementsLease`: even at the ceiling no
lock ends early. `EventsTellTheLock`: events determine the lock.
`EveryTermEnds`, `LapsesLikeTheLease`: locks end, unless their own Expire was
executed and failed. That exception is real: `ExpireFails` rolls back the lock
but cannot bring back the message, and nobody sends another.

**gasless_queue** (120,761 states). Four overlapping requests of all kinds, one
account under two strings, failing calls, dropped transactions, expiries. Four
is what it takes for a leader, a request that shares its promise, an operation
behind it and a request that finds the voucher. `ImplementsDesk`: with all its
awaits, its nonces and the transaction pool the server behaves like
`VoucherDesk`; the effect of an operation is the block that includes it, its
reply the moment its promise settles. `AnsweredUnlessLost`: while the node
loses no transaction, everyone is answered. Restarts and reverted blocks are
left out here because the refinement does not hold with them (section below).

**gasless_nonces** (504,334 states). Three requests of two accounts, with
restarts, dropped transactions and reverted blocks: `NoncesNeverCollide`, and
`WaitersHaveAnOperation`: nobody shares a promise that has settled.

**onboarding** (31,070 states). The component and the server together. Two
accounts, two changes of account or mode after the mount, two polls a request,
requests and answers that get lost: enough to leave an account with a request
under way, return to it, and have the old request fail into the new connection
while the server still serves it. `AskedOnceUnlessFailed`: an account that
stays connected is asked for once, and again only after a failure.
`OneVoucherPerAccount`: nobody ends up with two. `EventuallyServed`: who stays
connected gets one, unless a request of its own failed. `IndicatorGoesOut`.

**send_button** (1,926 states). Three clicks in each of the three components,
every stage failing or not, wallet and session coming and going, messages the
node drops. `HelloOneAtATime`, `EachIsToldItsOutcome` (also when a second click
overlaps the first, as the button of `VftTransfer` allows), `ButtonComesBack`.

**top_up** (5,715,904 states). Three prolongs with targets below, at and above the
balance, spending at any moment, two units to a VARA so that truncation
matters; restarts, dropped updates, and one revert of the blocks that are not
final. `ReachesTarget`. `NeverOverfilled`: without those faults no sequence of
calls adds up beyond the highest target. With them two top-ups do add up, when
an update waits in the pool over a restart, or returns from a reverted block,
and is included after the next call has read the balance. The history variable
`late` counts what came that way (and what reverted spending gave back), and
the property says that nothing else exceeds the target. Two calls suffice for
one update behind the other's back; the third finds two of them.

**token_gate** (1,153,104 states). Two requests at a time, two nonces, five
seconds, JWTs of two seconds so that chains of refreshes occur, and Numbers
exact up to 4 with balances 9, 11 and 13 around a threshold of 12: 9 is rounded to 8
and refused, 11 is rounded up to 12 and admitted, 13 is rounded down to it.
`NonceBuysOneToken`; `AccessFollowsTokens`: access outlives the tokens by less
than one JWT lifetime plus the time the balance read was under way, through any
chain of refreshes, and tokens are enough when they reach the threshold or miss
it by no more than half the distance between neighbouring Numbers;
`ConnectionsBounded`.

**gateway** (744,641 states). Three requests, two at a time, a registry that
may lag behind the factory's reply, one shutdown that cuts requests off at any
await, transactions that the node drops: `OwnTokensAnswered`, `BothMeansBoth`,
`AnswerNotOlder`; `AnsweredUnlessLost`: a client is answered, unless its
transaction was dropped or the process exited. Two at a time suffice for every confusion of two requests;
the third comes after, on what they left, or after the restart.

**verified** (181,323 states). One mutation, up to three inclusions of its
extrinsic in blocks with different outcomes, two programs of which one is
registered, replies that are errors or cannot be read. `ResolvedMeansVerified`;
`RejectedHasCause`: what rejects is a failed extrinsic, an error reply, or a
reply that could not be read, of a block that included it and of the finalized
one if that was asked for; `SettlesUnlessDropped`. Three inclusions let a check
of the first block finish after the second was reverted.

**market** (53,824 states). Two traders, prices 0 to 4, a scale of 2 and words
of four bits, so that products saturate: `NeverAboveLimit`.

**factory** (7,328 states). Three calls overlap, children fail, waits run out,
replies arrive late: `ReturnsItsOwnChild`, `EventsAreResults`.

`CHECK_DEADLOCK FALSE` stands where a system really comes to rest (all requests
answered, all messages executed).

A module's `TypeOK` is listed in a run where a plausible slip in the code can
break it; elsewhere it documents the state, or serves a proof.

### A disagreement shown by a run

- **gasless_stall** (30 states): the status callback handles `InBlock` only, so
  a transaction that the pool drops leaves its promise unsettled, and the queue
  behind it stops for good (`lib.ts:220`), although `lib.ts:171` says that
  there are two failure phases and both reject.

### Disagreements noted while modelling

These follow from the same models but have no run of their own.

- The gateway waits for each transaction without a timeout
  (`contract.service.ts:45`, 66, 102): when the node drops one, or replaces it by
  another request's with the same nonce, that request is never answered.
- The gateway's "most recently added pair" may be another request's when two
  overlap (`contract.service.ts:86`, 114); `AnswerNotOlder` is what does hold.
  `getRegistry` returns the query object without calling it (line 182).
- After a restart with an issue still in the pool, a repeated request issues a
  second voucher, although the README of the gasless server calls issuance
  idempotent (`README.md:145`, `lib.ts:42`). A rejection of `signAndSend`'s own
  promise is handled nowhere and ends the process the same way.
- `lib.ts:49` promises to issue "only if no active voucher already exists"; the
  code (`lib.ts:67`) does not look at the expiry, so an account whose voucher
  has expired is given that one and no new one. `ExpireVoucher` is in the model.
- The status endpoint reports `enabled: true` whenever the balance query
  resolves, whatever balance and expiry are (`lib.ts:138`, 155).
- `prolong` documents `balance` as planck and takes it as whole VARA
  (`lib.ts:259`, 271). It calls it the desired final balance too, but after a
  restart, or when a block is reverted, an update of an earlier call may be
  included after the balance was read (line 268), and the voucher ends with
  both top-ups; `NeverOverfilled` is the bound that does hold.
- The README of the gasless server says that nonce collisions may occur under
  concurrent requests and asks for a queue (lines 121 and 242-244). The code
  has that queue (`lib.ts:308`), and `NoncesNeverCollide` holds, through restarts
  and reverted blocks too, as long as one process signs for the issuer.
- The "lazy singleton" connection of the token gate is created once per request
  that arrives before the first one is up (`server.ts:59`, 64);
  `ConnectionsBounded` is the bound that does hold.
- `useVerifiedSignAndSend` never settles when the pool drops the extrinsic
  (its README line 38), and resolves although a program that is not registered
  replied with an error (line 36). It rejects whenever a reply is not found or
  cannot be decoded (`useVerifiedSignAndSend.ts:88`, 94, 149), as its README says
  (line 38): a rejected mutation may have succeeded on the chain.
- `SwitchSignless.tsx:69` and its README (line 218) rely on the ref for exactly
  one request per account under React's StrictMode. StrictMode runs both
  effects of a mount twice, and the first resets the ref, so a component
  mounted with an account asks twice. The model has no StrictMode: it runs
  effects as a production build does.
- There too: a failure does not lead to "retry on the next render cycle" (line
  118), because no dependency of the effect changes with the ref; the polls
  (line 107) read the status of the render that started them and never see the
  voucher activated; an account that leaves and returns is asked for again
  (line 82 says once per account); and a failed request of an earlier account
  clears the new account's ref, which is why `AskedOnceUnlessFailed` counts
  failures of any account. `handleSendHello` only logs a failed preparation
  (line 162): that user is told nothing.
- `VftTransfer` disables its button while the mutation is pending, not while the
  extrinsic is prepared (line 91): a second click sends a second transfer. A
  failure is alerted twice, by `onError` and by the `catch`. The account may
  change between preparing and signing.
- The token gate compares a rounded balance with an exact threshold
  (`gear.ts:46`): beyond 2^53 raw units, that is for any threshold of a token
  with 18 decimals, a balance up to half a step of Number below it may pass.
- The market's quote is capped once `amount * price` exceeds `u128::MAX`, which
  its README's formula (line 163) does not say.
- The factory's `ProgramCreated` is not emitted for a child whose reply comes
  after the wait ended, although the child is active (`lib.rs:43`, 69).

## 4. Fairness

- `DelayedSelfMessage`: weak fairness of `NextBlock` and of the delivery of each
  delayed message. The chain produces blocks, and its queue is drained. No
  user is obliged to call. Failure of `expire` is allowed, so the liveness
  properties say what it spoils.
- `GaslessServer`: weak fairness of each operation, because the event loop runs
  what is ready, and of the inclusion of a pending transaction. Nothing is
  assumed of transactions the node drops.
- `Gateway`: weak fairness of every request's next step and of `Exit` after a
  shutdown. Calls may still reject at any point; the property is that the
  client is told. Nothing is assumed of a transaction that the node drops
  (`Lose`): its await never settles, and the property excepts it.
- `VerifiedSignAndSend`: weak fairness of inclusion, finality, callbacks and
  the reply check of the block that still holds the extrinsic. Nothing promises
  that a reply of a reverted block is ever found.
- `Onboarding`: weak fairness of the delivery of each request that is not lost,
  of the server's serving and answering it, of the component's reaction, and
  of its polls (timers fire). The server's answer is what `AnsweredUnlessLost`
  provides while no transaction is lost; with `gasless_stall` it is an
  assumption.
- `SendButton`: weak fairness of the stages of each attempt. A promise whose
  message the node dropped is not assumed to settle.

## 5. What TLAPS proves

`DelayedSelfMessageProofs` proves, from `DelayedAssumption` alone (the program is
not a user, delays are naturals, the ceilings are positive), for any set of
users and delays and any ceilings:

| Theorem | States |
|---|---|
| `TypeCorrect` | `TypeOK` |
| `StaleNeverMatches` | `NoStaleMatch` |
| `NeverWithoutTimer` | `ActiveLockHasTimer` |
| `NeverEarly` | `EndsEarlyOnlyByCancel` |
| `OnlyOwnTimer` | `OnlyOwnTimerExpires` |
| `VersionsNameStates` | every change below the ceiling bumps the version by one |
| `EventsSuffice` | `EventsTellTheLock` |
| `LockIsLease` | `ImplementsLease` |

`NoStaleMatch` is not inductive: it speaks only of messages whose version is
the lock's, and a bump changes which those are. The inductive invariant `IInv`
adds what the version scheme is built on: no message is newer than its user's
lock (`NoNewerMessage`), a matching message below the ceiling is the running
term's timer (`MatchingIsTimer`), and no two messages of a user share a version
below the ceiling (`OneMessagePerVersion`). Since every change of a lock bumps
its version and only `start` and `renew` send, with the new version, a bump
leaves every earlier message strictly older. At the ceiling the bump does
nothing, so those parts stop there, and what remains, that a lock never ends
early, rests on the deadline test alone: `NeverEarly` and `LockIsLease` need no
part of `IInv`. The refinement needs one more invariant, that an active lock
has a non-zero deadline (`ActiveHasDeadline`), because the lease shows a free
lock as deadline 0.

`VoucherDeskProofs` proves, from `DeskAssumption` (no request is the absence of
one, and the kinds are the four endpoints), for any requests, strings and accounts: `TypeCorrect`,
`OneVoucher` (`OneVoucherPerAccount`) and `TrueAnswers` (`AnswersAreTrue`). Neither
is inductive: a voucher is known by the request that issued it, and a request
that is asked anew, or joins one asked with other words, would change whom a
voucher belongs to. The invariant adds that whatever is in line, stored or
given has been asked for (`AskedFor`), that who has not asked stands with
nobody (`Unasked`), and that who stands with another asked for the same
(`SameWords`). These theorems are about the desk; `KeepsThePromises` below carries them over
to the server.

`OnboardingProofs` proves `AskedOnce` of the component alone, that is `AskedOnceUnlessFailed`, from
no assumption at all. The bound on requests is not inductive: a request may
start at any time the ref is clear. The invariant adds what the ref stands for
(`RefCounts`): a set ref pays for one request, a clear one for none, so that
whoever clears it must either have failed or be starting a new count.

It then composes: `ImplementsComponent` (hiding the server, the composition is
`SwitchSignless`), `ServesLikeADesk` (hiding the component, it is `VoucherDesk`),
and from these, by the theorems of the parts, `JointlyAskedOnce`
(`AskedOnceUnlessFailed`) and `JointlyOneVoucher` (`OneVoucherPerAccount`), for
any accounts and any number of changes. Assumed are `SwitchAssumption` and
`OnboardingAssumption`: the absence of an account is no account, and no
invocation's id. That every delivery is a step of the desk needs an invariant of what travels
(`MailOK`): a request carries the change that caused it and a real account.

`GaslessServerProofs` proves, from `GaslessAssumption` and for any number of
requests, any strings and accounts and every combination of faults, restarts
and reverted blocks included: `TypeCorrect` (`TypeOK`), `WaitersServed`
(`WaitersHaveAnOperation`) and `NoncesApart` (`NoncesNeverCollide`). The
invariant `IInv` adds the queue discipline: nobody stands in the queue twice
(`QueueDistinct`), only its head has passed its first await (`HeadOnly`), and a
nonce that was fetched stays free until it is used (`NonceIsFree`). The last
holds because the one who fetched it is the only one who may submit, and
because blocks take and give back nonces at the end of the chain only: a
reverted block returns the nonce just below all others.

It proves further `ServerIsDesk`, that is `Steady => (Spec => ImplementsDesk)`:
every step of the server is a step of the voucher desk or none. `Steady` says
that `Faults` has neither `"crash"` nor `"retract"`; throws, drops and
expiries stay. Without it the theorem is false: after a restart with an issue
in the pool a repeated request issues a second voucher (section 3). The desk's
effect is the block that includes the head's transaction, its reply the moment
`Settle` runs. Four things must be known at these moments, and none follows
from `IInv`:

- at an inclusion, that the account still has no voucher, although
  `issueIfNeeded` looked two awaits ago. `StillNone` says that the look is
  still true; it survives because only the head can have anything included, and
  its own transaction ends its claim.
- at a reply, that the callback's block is the only one with a transaction of
  this request (`SignsOnce`: one transaction, in the pool or on chain), so that
  what it tells is what happened; and that the next in line has had no effect
  yet.
- at an arrival, that the map of requests in flight holds the queued voucher
  requests and nothing else (`MapIsQueue`): who joins stands with somebody in
  line, and who does not finds no one with the same words.
- that a voucher, once revoked, had been issued (`RevokedWereIssued`) and an
  answer names a request that was made (`Heard`), so that a later request cannot
  undo or take over what an earlier one did.

`KeepsThePromises` then applies the theorems of `VoucherDeskProofs` to that
desk: the server itself issues no account two vouchers on request, and its
answers name vouchers of the account that asked.

`TokenGateProofs`, from `GateAssumption` (counters, lifetimes and amounts are
naturals, the threshold and the exact range are positive, the slots finite):

- `TypeCorrect`; `OneTokenPerNonce` (`NonceBuysOneToken`). The count of tokens a
  nonce bought is not inductive: the token is granted awaits after the nonce was
  taken. `NoncesInv` adds that a nonce not yet issued, or still in the store, has
  bought nothing and is in nobody's hands (`StoreIssued`, `Unspent`), and that
  one in somebody's hands is in one request's only (`SpentOnce`).
- `FewConnections` (`ConnectionsBounded`): `ConnectionsInv` counts those still
  connecting together with the connections there are, and says that once there
  is one nobody starts another.
- `AccessIsCurrent` (`AccessFollowsTokens`), with `Recheck` as hypothesis: it is
  the option `RECHECK_ON_REFRESH` (`server.ts`), and with it off a refresh reads no
  balance and the property is false. `AccessInv` carries the bound from the
  read (`AnswersFresh`) to the token (`TokensFresh`). It rests on what rounding does:
  a balance that passes the test in Number is one that reaches the threshold or
  misses it by at most half a step (`Close`). `Ulp`, the distance between
  neighbouring Numbers, is a recursive function; what holds of it for every
  balance is proved at the least balance for which it would fail, by
  `WFMin` on the naturals, since the induction theorems are out of reach.

`GatewayProofs`, from `GatewayAssumption` (at least one request, tokens are not
the programs the gateway creates): `TypeCorrect`, `OwnTokens` (`OwnTokensAnswered`),
`BothExist` (`BothMeansBoth`) and `LastIsNotOlder` (`AnswerNotOlder`). What an answer
says is settled several awaits earlier, so `IInv` says at every phase what has
been brought about: which call an endpoint is in (`CallsFit`), that a pool is
the work of a request past its second call and joins the tokens it asked for
(`PairsOwned`), that no pool is registered twice (`AddressesOnce`), and how far
`createProgramAndPool` has got (`BothProgress`).

`VerifiedSignAndSendProofs`, from `VerifiedAssumption`: `TypeCorrect`,
`ResolvedVerified` (`ResolvedMeansVerified`) and `RejectedForCause`
(`RejectedHasCause`), for any number of inclusions. A verdict speaks of a
block that may be reverted since; `IInv` says of every status on its way
(`DeliveriesTrue`) and every reply check under way (`ChecksAwaited`) that its block
was there, without failure, and is the finalized one if that was asked for.

`ComponentProofs` has four parts, each from the assumption of its module.

- Market: `MarketTypeCorrect`, `LimitProtects` (`NeverAboveLimit`). A quote times the scale is at most the exact product
  (`QuoteIsBelowValue`), whether the product saturates or not.
- Factory: `FactoryTypeCorrect`, `CallersGetTheirOwn` (`ReturnsItsOwnChild`),
  `EventsTellResults` (`EventsAreResults`), for any finite set of calls
  (`FactoryAssumption`: addresses are numbered by the calls made). The invariant
  adds that children are numbered without gaps, each with its caller
  (`Numbered`), that a reply tells what became of its child (`RepliesTrue`), and
  that nobody else has a result (`OnlyOkReturns`).
- Top-up: `TopUpTypeCorrect`, `DoesNotOverfill` (`NeverOverfilled`), `TopUpReaches`
  (`ReachesTarget`). `ReadIsAhead` is the reason: until the update of the last
  call is in a block, whatever came to the voucher since its read came late, so
  what was read is too low by no more than `late`. It needs that the update in
  the pool is the one computed from that read (`LastIsComputed`) and that none
  is out before it is computed (`NotYetSent`).
- Send button: `ButtonTypeCorrect`, `OneHelloAtATime` (`HelloOneAtATime`),
  `ToldItsOutcome` (`EachIsToldItsOutcome`), for any number of clicks; inductive
  with their types.

What each assumption excludes is no state of the code: the constants are
counts, amounts and identifiers.

Left to TLC are the temporal properties: `EveryTermEnds`, `LapsesLikeTheLease`,
`AnsweredUnlessLost` (of the gasless server and of the gateway), `EventuallyServed`,
`IndicatorGoesOut`, `ButtonComesBack` and `SettlesUnlessDropped` (fairness and ENABLED are out of the
prover's reach).

## 6. Bounds

`MaxHeight`, `MaxVersion` (delayed), `MaxU128`, `PriceScale` (market) and `Exact`
(token gate) stand for the machine limits, shrunk so that they are reached;
nothing else in the models depends on their size. `MaxSent`, `N`, `Calls`,
`Nonces`, `MaxTime`, `MaxBlocks`, `MaxChanges`, `MaxClicks`, `MaxStops`, `Reverts`
and `Retries` bound the length of a behaviour, `Concurrency` and `Slot` how much
overlaps. The properties speak of two actors or two messages at most, and each
bound admits at least one more than it takes to violate them.

## 7. Not modelled

- `contracts/signless-gasless`: who may act for whom, for how long, and how a
  session ends is all in an external crate (`session_service`) whose source is
  not in the repository. What the repository adds is one call of it and a
  saturating counter; a model would be of the crate, guessed.
- The status endpoint of the gasless server, and the figures in
  `voucherInfoStorage`: only `getVoucherDetailsForProgram` reports them, which
  no route calls.
- Amounts and durations in `GaslessServer` (`VoucherTopUp` has the arithmetic, of
  a voucher that is neither revoked nor expires).
- The gateway's API-key middleware: a guard before every handler, without state.
- Wording, logging, parsing of the signed message (well-signed or not, fresh
  or not, is what counts).
- Providers, generated clients, build files: wiring and encoding.

## 8. Plan

1. Modelled: every component that has behaviour of its own.
2. Proved: every safety property that a run checks, and the refinements of
   `VoucherDesk` and `Lease`.
3. Next: what remains true of the server with restarts and reverted blocks, as
   a weaker desk that may forget its line and issue again, checked by TLC first
   and proved from `IInv` like `ServerIsDesk`.
