# TLA+ models of zkPhil

zkPhil mints on-chain art behind a backend-signed allowlist. A wallet logs in
to a server, trades an allowlist slot for a signed mint claim, and spends the
claim on chain, through a smart account and a gas sponsor or directly; the
tokens then trade on a marketplace. This directory models the parts where the
order of steps decides whether that is safe, model-checks them on small
instances with TLC and proves the core of them for every instance with TLAPS.

## The system

| Component | Code | State | Operations | What is hard |
|---|---|---|---|---|
| Proof gate | `contracts/ProofGateTest13.sol` | owner, authorised callers, signer, spent nullifiers | `verifyAndConsume`, `verifyActionAndConsume`, three admin calls | replay, field swapping, signer rotation, expiry |
| Capped mint | `contracts/PhilTestMint.sol` | supply, traits, ERC721 owners | `mint` | cap, one token per proof |
| Cadence mint | `contracts/Phil369CadenceMint.sol` | supply, reserve count, window minter, next mint time, version | `mint`, `reserveMint`, admin | proofs bound to the next id go stale, two counters share one supply |
| Marketplace | `contracts/PhilMarketplace.sol` | offers, bids, pause flag, escrowed ether | `offerForSale`, `cancelOffer`, `buy`, `enterBid`, `withdrawBid`, `acceptBid`, `pause`, `unpause` | callbacks in the middle of a call, refused payments, stale offers, trapped bids |
| Auth | `server-ts/src/routes/auth.ts`, `lib/db.ts` | challenge and session tables | challenge, verify, session lookup | expiry, purge, crash between consume and insert |
| Request-mint | `routes/requestMint.ts`, `lib/allowlist.ts`, `lib/db.ts` | entitlements, issued proofs | eligibility, mint proof, action proof | awaits between check and write, crash, lost response, key rotation |
| Sign-paymaster | `routes/signPaymaster.ts`, `lib/db.ts` | `paymaster_signed_at`, `used_at` of issued proofs | sponsor a userOp | a row read early and used after many awaits, concurrent requests |
| Boot, rate limit | `server-ts/src/index.ts` | per-process key, buckets | start checks, `onRequest` hook | restart with another key |
| Smart wallet | `PhilAccount.sol`, `PhilAccountFactory.sol`, `PhilUnlockInbox.sol` | owners, approved action hashes, ticket nonces, inbox | execute, batch, approve, owner and scope settings, tickets from L2 | approvals that outlive what justified them, message order |
| 4337 rail | `PhilPaymaster.sol`, `EntryPointLocalMock.sol` | deposits, nonces | `handleOps`, `simulateValidation`, `validatePaymasterUserOp` | operations of one bundle see what earlier ones changed; validation has side effects; the validity window is dropped |
| Art storage | `PhilSVGStorage.sol`, `src/layer-catalog.mjs`, `src/sepolia-pipeline.mjs`, `scripts/sepolia/txutil.mjs` | chunked records, local upload state | store, append, finalize, resume | time-outs, late transactions, crash between chain and state file |
| Registry, NFT | `PhilLayerRegistry.sol`, `PhilNFT.sol` | layers, assets, variants, selections | register, mint with selections | slot arithmetic |
| Sharp account | `sharpAccountV1/contracts/SharpAccount.sol` | nonce | `execute` | one external call between checks |
| Deployment | `scripts/deploy_stark.mjs`, `deploy_4337.mjs`, `deploy_marketplace.mjs`, `local/deployPhilSystem.mjs`, `sepolia/run_all_and_mint_one.mjs` | deployment files, the account's nonce | deploy, configure, verify, start a backend, mint one | killed or timed-out runs, keys changed between runs, a stale backend on the port |
| Frontend flow | `frontend/mint.js`, `frontend/userop.js` | one global `state` | connect, select, mint | async flows that share the state, account and network changes between their awaits |
| Renderer, proving rail | `PhilRenderer.sol`, `PhilDSLDecoder.sol`, `lib/atlantic.ts`, `lib/merkle.ts` | none that matters here | | |

Interactions: `PhilTestMint`, `Phil369CadenceMint` and `PhilAccountFactory` call
the gate inside their own transaction. The server reads the gate
(`allowlistSigner`, `isMintNullifierSpent`) over RPC, so what it reads is stale
by the time it is used. The paymaster trusts the server's signature alone. The
marketplace calls the token contract and pays other contracts, and all of them
may call back. `PROJECT.json` lists every component with its status, and under
"hazards" the lines where each difficulty bites.

## The modules

    Clock ── ProofGate ─┬─ PhilTestMint ── MCPhilTestMint
      │                 └─ CadenceMint ──┬─ MCCadenceMint
      │                                  └─ CadenceMint_proofs
      └───── AuthSession
             PhilTestMint + AuthSession ── MintService ─┬─ MCMintService
                                             │          └─ MintService_proofs
                                             └ refines AllowlistDrop
             PhilMarketplace ─┬─ MCPhilMarketplace
               │              └─ PhilMarketplace_proofs
               └ refines EscrowLedger
             PhilTestMint + UnlockInbox ── PhilAccount ── UserOps ─┬─ MCWallet
                                                                   └─ UserOps_proofs
             SVGStorage ─┬─────────────────────────── Launch ──┬─ MCLaunch
               │         │                                     └─ Launch_proofs
               │         │  LayerCatalog, LayerRegistry, PhilNFT
               │         └────────┴── Release ──┬─ MCRelease
               │                                └─ Release_proofs
               └ SVGStorage_proofs (lemmas of both)
             MintPage ─┬─ MCMintPage
                       └─ MintPage_proofs

`MintService_proofs` goes from the gate through the mint contract and the sessions
to the server, so that what is proved of the parts carries over to the
composition. `CadenceMint_proofs` and `UserOps_proofs` restate the few lemmas of the
gate that they need.

**Clock.** One clock `now` for block timestamps and the server's `Date.now()`
in seconds.

**ProofGate** (`ProofGateTest13.sol`). A transaction is atomic, so an external
function is one action and a reverting call is no step. A hash is the tagged
record of what is hashed: `FactHash`, `MintNullifier` and `ActionNullifier`
keep the tag strings and the different preimage shapes of the code. A
signature is the key and claim it was made over plus one of two byte encodings;
recovering it for another claim yields no key's address. `attested` records the
signatures that callers hold; a presented proof is any mixture of an expiry
field, the fact hash of one attested claim and the signature of another.

**PhilTestMint** (`PhilTestMint.sol`). `Mint` has the argument checks, the cap,
the gate call and the assignments. `MintNext` adds the admin calls, signing of
any claim of `Signable` by any key, and action proofs spent by other consumers.
ERC721 transfers of minted tokens are left out: `tokens` is the mint record.

**CadenceMint** (`Phil369CadenceMint.sol`). `Mint` and `ReserveMint` are the two
functions; what they share (supply check, gate call for the next id at the
current version, record of the token) is `MintNextToken`. Other consumers spend
their own action types over hashes that contain their own address
(`SpendElsewhere`). `tokens` keeps the time and kind of each mint for the
properties. `setVersionBaseURI` and token transfers are left out.

**AuthSession** (`routes/auth.ts`). `/auth/verify` has no await and SQLite is
synchronous, so each outcome of it is one action: session opened, challenge
spent without a session (wrong signature, or a crash before the insert), no
live challenge. Every path purges the table as the code does. `opened` is a
history variable, the number of sessions each nonce opened; a nonce is its
index, because `randomBytes(16)` is taken to be fresh.

**MintService** (`requestMint.ts`, `allowlist.ts`, `signPaymaster.ts`, `db.ts`,
`index.ts`) is the composition: the server beside the chain. Each handler is a
small program counter in `handler[h]` that advances from one await to the next:

| `at` | code | next |
|---|---|---|
| `resolve` | token checked, waiting for `resolveSmartAccount` | `ResolveSmartAccount` fixes expiry and claim |
| `persist` | waiting for `signMessage` | `ConsumeMintAndPersistProof` or `RefuseMint` |
| `reply` | slot spent, row written, response not yet out | `ReplyMint` releases the signature |
| `signer` | row read, waiting for `allowlistSigner()` | `ReadAllowlistSigner` |
| `nullifier` | waiting for `isMintNullifierSpent` | `ReadUnspentNullifier`, `ReadSpentNullifier` |
| `lock` | policy view, `getHash`, signing | `MarkPaymasterSigned` |
| `answer` | locked, response not yet out | `AnswerSponsorship` |

`Abort` ends a request at any await (failed RPC, refused check, client gone),
`Crash` ends them all and keeps the tables, `Boot` repeats the start checks of
`index.ts`. The values a handler read (`claim`, `start`) travel in its record,
so they are as stale as in the code. In a sponsorship request the userOp is
reduced to the mint claim its calldata carries: the route's shape checks of
initCode and calldata either refuse (Abort) or leave exactly that.
`ProofGate.Attest` is here only used for action proofs; mint signatures reach
callers by `ReplyMint`.

**AllowlistDrop** is what the drop promises: at most `Slots` grants, at most one
redemption and one sponsorship per grant, no grant returned. `MintService`
implements it with granted = slots the table has spent, redeemed =
`totalSupply`, sponsored = number of released sponsorships.

**PhilMarketplace** (`PhilMarketplace.sol`). A call that delivers a token or pays
ether gives control away, so it is not one step. `stack` holds the calls in
progress: `callee` is the account in control, `payouts` what is still owed,
`saved` the state to restore. `PayNext` performs the next `_sendETH`, `Finish`
returns, `Revert` is a callee with code refusing (revert in the hook or the
receive function) and undoes the whole transaction. While a contract is in
control it may call anything `nonReentrant` does not protect: `offerForSale`,
`cancelOffer`, `pause`, and the token's own functions. The guard is a condition
of the protected actions (`NotEntered`), not an assumption of the model. `asks`
is a history variable: what each account last asked for a token and has neither
cancelled nor sold on.

**EscrowLedger** is the promise about money, one move per transaction.
`PhilMarketplace` implements it on the committed state, that is `saved` of the
outermost call while one is in progress.

**UnlockInbox** (`PhilUnlockInbox.sol`). `messages` are the L2 messages nobody
has consumed; `RecordTicket` consumes any of them, so they arrive in any order.

**PhilAccount** (`PhilAccount.sol`) is the wallet's storage `vault` and what
operators on it return: `Accepts`/`After` for its own functions, `Perform` for
the calls of a batch in order and all or nothing (`done[n]` is the state after n
calls, `AfterCall` one more), `PolicyAllows` for scopes,
`Execute` for an armed request. A request stands for its own hash. Whoever calls
`initVaultConfig` first chooses the inbox and the mint target (`InitVaultConfig`);
validation auto-approves a mint at that target, by the target's own gate:
`AcceptedElsewhere` stands for the proofs that a gate other than the drop's takes.
The functions that the account inherits from its library (`delegateExecute`,
storage access, ERC-1271) and upgrades are left out.

**UserOps** puts the wallet in its surroundings (`PhilAccountFactory.sol`,
`EntryPointLocalMock.sol`, `PhilPaymaster.sol`). `handleOps` validates and
executes one operation after the other, and a failure reverts the transaction,
so a bundle is a run of `HandleOp` steps. `SimulateValidation` is an ordinary
transaction of the local EntryPoint and leaves the approval that validation
stored. Sponsorships are presented without a validity window, which the local
EntryPoint drops: one may outlive the proof it pays for. `credit` counts, per
caller and request, armings minus executions; `newestSpent` is the highest
ticket nonce that armed anything, whatever inbox it came from.

**SVGStorage** (`PhilSVGStorage.sol`), **LayerCatalog** (`layer-catalog.mjs`),
**LayerRegistry**, **PhilNFT** are state and pure operators on it: what a
contract does to its record, which files of a directory become which assets of
which layers, which slots a token's selections land in.

**Release** (`sepolia-pipeline.mjs`, `scripts/sepolia/*.mjs`) is the operator's
run over them: `job` is the script at its place, `disk` the resume file and
manifests that survive it, `mempool` the transactions sent, `receipt` what the
script has seen. A script may be killed at any point or time out on a
transaction that is mined later; the next one reads `disk` and goes on. A
re-sent `initializeChunkedSvg` waits in the same account's queue behind what
was sent before it, so what a `staticCall` predicts stays right as long as the
files do not change.

**Launch** (`deploy_stark`, `deploy_4337`, `deploy_marketplace`,
`local/deployPhilSystem`, `verify_sepolia_bindings`, `run_all_and_mint_one`)
puts a drop on a chain. A script is the list of transactions still to send; each
is a role with the fields that decide its effect. The n-th transaction of the
account creates the contract of address n, so a second user of the account
moves addresses. `files` are the deployment files, `servers` who answers on the
two ports, `BootAccepts` what a server checks of them, `VerifyAccepts` the
bindings script. A step is one of the chain (`Mine`), of the script that runs
(`ScriptStep`: `Enter`, `Send`, `Receipt`, `Finish`), of the operator (`OperatorStep`) or
another use of the account (`OtherTx`). `Bootstrap` walks over the art with a recursive
function, one file after the other, as the loop of `bootstrapArtBackend` does; a batch
is sent when it has enough files or enough bytes (`BatchFull`).

**MintPage** (`frontend/mint.js`, `frontend/userop.js`). `page` is the global
`state`; `flow[f]` is one run of `connectWallet` or `doMint`, at one of its awaits,
with its own locals (`to`, `sent`, `current`, `op`, ...). Code between two awaits
is one step. An answer is computed when it is asked for and delivered later, so
it may be stale; a flow that throws leaves the state as it is (`Failed`). The
server and the chain are reduced to what the page relies on: who may ask for
what, `mintTo` must be the recipient's own account, a userOp is valid for one
nonce and one owner's signature. The server signs any palette; `Mints` has the
refusals of `PhilTestMint` that the page can meet: a palette past its nine
(`PaletteAccepted`; the page makes `philId` a residue of 6 and `mixMode` 0), an
expired or spent proof or one for another claim (`ProofAccepted`), the supply cap,
which others use up as well (`OthersMint`). What the wallet sends goes to the network
it is on by then (`Reaches`, `SentElsewhere`), and a submission that the page has
given up on may be mined later (`adrift`, `MinedLate`).

## Runs

| Run | Question | Properties |
|---|---|---|
| `mint_gate` | Can a mixture of signatures, encodings, expiries, fact hashes and rotations mint what was not signed? | `TypeOK`, `TokensMatchSpentProofs`, `SpentProofsAttested`, `SpentWhileCurrent` |
| `cadence` | Do caps, spacing and the binding of proofs to tokens survive late mints, reserve mints, version changes and reassignment? | `CadenceTypeOK`, `MintsSpaced`, `TokensMatchActions` |
| `mint_service` | Do two requests in flight with crashes and on-chain mints keep slots, rows, tokens and sponsorships in step? | `ServiceTypeOK`, `SlotPerProof`, `SponsorshipsBacked`, `ImplementsDrop` |
| `key_rotation` | Does only the allowlisted wallet's account get tokens through gate administration, rotation and reboot from a cold start, and can a challenge open two sessions, or one for someone else? | `TokensGoToAllowedAccount`, `AuthTypeOK`, `ChallengeOpensItsSession` |
| `sponsor_used` | Is a proof recorded as used never sponsored? No: a violation. | `UsedProofNeverSponsored` |
| `marketplace` | Is the escrow exact at every instant, each transaction one move of money, and nobody sold out on terms they did not set? | `TypeOK`, `Solvency`, `ImplementsLedger`, `SoldAsAsked` |
| `market_liveness` | Does a bidder always get out? Are private offers taken by the invited only? | `BidNotTrapped`, `SoldAsAsked` |
| `wallet` | Through tickets in any order, switched inboxes, owner changes, batches, simulated validations and resubmitted userOps: does anything run that was not armed for it, or run twice, or cost the sponsor without a mint? | `WalletTypeOK`, `ExecutionsArmed`, `EachTicketArmsOnce`, `NewestTicketInForce`, `OpsRunOnce`, `SponsoredOpsMinted` |
| `release` | Uploading and registering art with kills, time-outs, late transactions and failed batches: is what the manifests name what the chain holds, does the run come to its end, and do minted tokens show it? | `ReleaseTypeOK`, `RecordsHoldTheirContent`, `RecordsPermanent`, `ManifestNamesContent`, `PhilsShowTheirArt`, `ReleasePublished` |
| `launch` | Are the deployment files true and the servers' drops whole after any two runs of the scripts, and does a forced run get to its mint? | `LaunchTypeOK`, `FilesAreTrue`, `ServedDropWorks`, `ForcedLaunchFinishes` |
| `mint_page` | Two flows over one page while the wallet switches, proofs expire, receipts come late and others mint: whose sign-in, whose account, and when is a usable proof lost? | `PageTypeOK`, `CachedTokenIsItsRecipients`, `TokensReachTheirOwner`, `SlotsLostOnlyToTrouble` |
| `unmintable_phils` | Can every Phil that the page calls ready be minted? No: a violation. | `LockedPhilsMint` |

All passing runs finish exhaustively, most in about a minute and each in under
four. Deadlock checking is
off everywhere because every one of these systems may really stop: the bounds
on time and on issued items run out, and nobody has to send a transaction.

### Bounds

Bounds are constants named as such where they are declared and appear in
guards or in the sets that inputs are drawn from.

- `mint_gate`: two keys, six claims that differ in every field that matters
  (three expiries, zero address, refused traits, an action), two signature
  encodings, cap 2, at most 3 released signatures. Two of these are needed for
  a replay or a swap, the third for a spend in between.
- `cadence`: window 2 in 4 instants, so that a mint can come late and the next be
  too early; cap 2, reserve cap 1 with signed reserve claims for two tokens and a
  claim for a token past the supply; two versions, two wallets, 3 signatures.
- `mint_service` starts logged in (`LoggedIn`, a reachable state) with 2
  handlers, 2 slots, 3 instants and proof lifetime 1, so that proofs expire
  while requests hold them. Handlers are symmetric. No properties here are
  liveness properties, so symmetry is sound.
- `key_rotation`: cold start, 1 handler, 1 slot, 2 keys, valid and refused
  traits, an account-creation proof. One challenge, asked for by either wallet and
  answered under either name, 3 instants, lifetimes 1: it can expire before,
  between and after the other steps. A challenge is a row that no other challenge
  touches, so one shows what several would; `mint_service` starts with a session
  of each wallet.
- marketplace runs: one token (the code keeps tokens apart), a seller, a bidder
  who also owns the marketplace, a contract that calls back, an artist who
  receives royalties. Amounts are chosen around the rounding of the royalty:
  10 % of 10 is 1, of 5 nothing. In `marketplace` offers are public and the seller
  may approve the marketplace for all tokens; in `market_liveness` they are private.
- `wallet`: two inboxes whose ticket nonces overlap (1, 2 and 2, 3), one ticket
  for any call with a window of one instant, two possible mint targets, a mint at
  each, a transfer and a batch that switches the inbox, the owner and the wallet
  itself as owners, two userOps, sponsorships for the first nonce of a mint and of
  something that is none.
- `release`: two colours, five layers, files of one chunk, of two chunks that fit a
  single upload and of two or three that do not, two of them the same; six
  directory trees of which some are incomplete; one failure (time-out, out of
  gas, drop), two deployments, one separate upload, one edited file, one token.
- `launch`: two script runs, two faults (a kill, a time-out, another use of the
  account), three environments (keys agree, keys rotated, keys disagree), Sepolia
  and a local chain with a chunked file after a batch that its bytes fill, or
  after one that its files fill and before a twin of one of them.
- `mint_page`: two accounts, two Phils, one of them of a palette the contract takes,
  two flows at a time, two slots, two tokens to mint, two troubles. One trouble is
  enough to separate any two awaits of a flow; the second lets it come back. The
  flows are interchangeable and the properties are invariants, so the run uses
  their symmetry.
- `unmintable_phils`: the same page without any trouble, so one flow at a time.

### Fairness

Three runs assume some. `market_liveness`: weak fairness of `PayNext \/ Finish`: a call
that has started is carried to its end by the EVM. Strong fairness of
`WithdrawBid` per account and token: the bidder keeps resubmitting, and a
transaction that can be included again and again is included, although other
transactions enable and disable it. Nothing is assumed of the other party, the
marketplace's owner or `Revert`.

`release`: the chain mines what is pending, a running script goes on, and the
operator starts the deployment again after a failure; failures are bounded, as a
network that always fails publishes nothing. `launch`: a running script takes its
next step and the chain mines the next transaction. Nothing is assumed of the
operator there: `ForcedLaunchFinishes` speaks of the run that was started.

### The violations

`unmintable_phils`: `mint.js` shows thirteen Phils with thirteen palettes (467-480)
and says "Locked Phil #N ready to mint" (1832) of any of them. It sends the
palette's number, 0 to 12, as `paletteVariant` (1979, 2095); the server signs any up
to 255 (`requestMint.ts` 282) and takes a slot for it; `PhilTestMint.mint` refuses 9
and up (`PhilTestMint.sol` 101). So Phils #10 to #13 cannot be minted: each attempt
goes through sign-in, proof and signature, reverts, and leaves the wallet one slot
poorer. `SlotsLostOnlyToTrouble` is about the other nine.

`sponsor_used`: `signPaymaster.ts` refuses proofs that the table records as used
(lines 228-234) but the statement that guards the release,
`markIssuedMintProofPaymasterSigned` (`db.ts` 425-433), tests only
`paymaster_signed_at`. With two requests for one proof in flight, one reads the
nullifier unspent; the mint lands; the other reads it spent and sets `used_at`;
the first locks the row and its signature is released. The sponsored userOp
then fails at the gate's nullifier check during execution, at the paymaster's
expense. `AND used_at IS NULL` in the UPDATE would close the window as far as
the table can know.

### What the models found out

Conditions in the properties are where the code needs them; each was met as a
counterexample first.

- `ForcedLaunchFinishes`: a forced `run_all_and_mint_one` gets to its mint unless it
  is interrupted, the account is used elsewhere meanwhile, `ALLOWLIST_SIGNER` and
  `ALLOWLIST_SIGNER_KEY` disagree (an unset `ALLOWLIST_SIGNER` means the deployer),
  or an old backend answers on its port (`waitForBackendReady` takes any answer).
  A top-up of the paymaster that timed out is sent again and may be paid twice.
- `FilesAreTrue` is stated for art without two identical files: the local bootstrap
  counts ids, the contract reuses the id of bytes it has. The repository's art
  has five such pairs.
- `ManifestNamesContent` is stated for art nobody edits between runs: a resumed
  upload goes by path, not by content.
- `SlotsLostOnlyToTrouble`: the page spends a slot before it knows that it can use
  the proof. A trouble is a wallet event, a failed await, an expired proof or a mint
  begun beside another flow (`minting` is set only after the eligibility await).
  Without one the page loses no proof that the contract would still take, and one
  trouble costs one such proof at most. Proofs for palettes past the contract's nine
  are lost without any trouble (see above), and so are those outstanding when the
  contract sells out, whose slots nobody gives back. Two troubles may cost all slots that are
  left: two connects that end on different accounts can leave the page with the
  address and smart account of one and the Stark key of the other, and then every
  click of Mint is granted a slot whose proof `buildMintUserOp` refuses, again and
  again, with no further trouble. An earlier form of the property, at most one
  lost slot per trouble, held within the bounds and was given up when its proof
  came to this state.
- An account made by the proofless `createAccount`, whose owner calls `setUnlockInbox`
  before anybody configures it, never gets a mint target: `initVaultConfig` refuses
  once there is an inbox, `createPhilAccount` skips it, and no setter exists. Mints of
  that account are never auto-approved; they need a ticket each. (`WalletTypeOK`
  states the one implication that does hold: a mint target comes with an inbox.)
- `TokensReachTheirOwner` rests on the server's `mintTo` check, not on the page,
  whose address, key and smart account can belong to different wallets.

## Proofs

Eight modules of theorems are checked by TLAPS to the last leaf:
`MintService_proofs` (gate, mint, sessions and server), `CadenceMint_proofs`,
`PhilMarketplace_proofs`, `UserOps_proofs`, `MintPage_proofs`, `SVGStorage_proofs`
(lemmas only), `Release_proofs` and `Launch_proofs`. They hold for every value of the constants
that satisfies the named assumptions:

- sizes, lifetimes, amounts and ticket nonces are naturals and expiries fit the
  clock (`ClockBounds`, `GateBounds`, `MintBounds`, `CadenceBounds`, `AuthBounds`,
  `ServiceBounds`, `MarketAssumption`, `TicketAssumption`, `PageAssumption`);
- `address(0)` and the other markers for "nothing" are no account and no record
  (`AddressAssumption`, `WalletAddresses`, `MarketAssumption`, `PageAssumption`);
- a claim that gets signed is a claim, every wallet of the server has a smart
  account, royalties are at most 10 % (`SignableAssumption`, `ServiceBounds`,
  `MarketAssumption`);
- what is not a batch is one call, a batch is a finite sequence of the calls
  modelled, and an owner's own calls go to the account (`OneCallUnlessBatch`,
  `WalletBounds`);
- files are finite byte strings from `Contents`, catalog lists are sequences, every
  layer of the order has its directories, the chunk limit and the two batch sizes are
  positive (`StorageAssumption`, `CatalogAssumption`, `ReleaseAssumption`,
  `LaunchAssumption`);
- the marketplace's collection is finite (`MarketAssumption`), as the sum of its
  bids would mean nothing otherwise.

None of them bounds the number of users, keys, claims, tokens, challenges,
requests in flight, tickets, inboxes, userOps, flows of the page, files, chunks,
failures, script runs, interruptions or steps.

### Gate, mints and sessions

| Theorem | Statement | Argument |
|---|---|---|
| `TypeCorrect` | `Spec => []TypeOK` | inductive as it stands; the step for `Mint` needs that a spent nullifier is one of `MintNullifiers` |
| `SpentAttested` | `Spec => []SpentProofsAttested` | a spent proof's fact hash is that of the claim rebuilt from the call, and only an attested signature over that claim recovers a signer; `attested` never shrinks |
| `SpentCurrent` | `Spec => SpentWhileCurrent` | the same fact at the step that adds the nullifier |
| `TokensMatch` | `Spec => []TokensMatchSpentProofs` | inductive invariant `MatchInv` = `TypeOK`, the property itself and finiteness of `nullifierUsed`: counting needs finite sets, and `TypeOK` is needed to know that the new token's slot was empty |
| `CadenceTypeCorrect` | `Spec => []CadenceTypeOK` | inductive: the next id is an empty slot, so a reserve mint adds one to `ReserveTokens` and to the counter |
| `Spaced` | `Spec => []MintsSpaced` | needs `WindowsClosed`: every window mint is a window before `nextMintTime`; `MintsSpaced` alone says nothing of the mint to come |
| `TokensProved` | `Spec => []TokensMatchActions` | the proof spent at a mint names the id `totalSupply`; every proof spent before names a smaller id |
| `ChallengeOpensOnce` | `AuthSpec => []ChallengeOpensItsSession` | `AuthInv`: an unconsumed challenge has opened nothing, nonces name at most one challenge row (`NoncesNameOne`), so the session that is opened is the first |
| `AuthTypeCorrect` | `AuthSpec => []AuthTypeOK` | the same invariant |

Without `NoncesNameOne` the induction for `ChallengeOpensOnce` fails: two rows
with one nonce, one consumed and one open, satisfy the rest of the invariant.

### Server and chain

`ServiceInv` has three parts. `AuthInv` is that of the sessions:
`ServiceImplementsAuth` shows that every step of the service is a step of
`AuthSpec`. `ServerInv` is about the tables and the requests in flight: every grant has
its number and its row (`GrantsNumbered`), what a request remembers at each await
was true of the row it read and still is where it matters (`RequestsTrue`), and a
row that is not signed has no sponsorship and no request about to answer with one
(`RowsGuardSponsorships`: the lock of `markIssuedMintProofPaymasterSigned`).
`ChainInv` is about the gate: a mint signature that callers hold is over a claim a
slot was spent on (`ReleasedWereGranted`), and each token has one spent nullifier,
of such a claim.

| Theorem | Statement | Argument |
|---|---|---|
| `ServiceTypeCorrect` | `ServiceSpec => []ServiceTypeOK` | a part of `ServiceInv` |
| `OneSlotPerProof` | `ServiceSpec => []SlotPerProof` | the slot and the row are written in one step of `ConsumeMintAndPersistProof`; no abort, crash or reboot touches either |
| `SponsorshipsAreBacked` | `ServiceSpec => []SponsorshipsBacked` | `RequestsTrue` for the claim and its expiry, `RowsGuardSponsorships` for "once" |
| `TokensAllowed` | `ServiceSpec => []TokensGoToAllowedAccount` | `ChainInv`: the claim a token was minted for was granted, and grants are for the allowed wallet's own account |
| `ServiceImplementsDrop` | `ServiceSpec => ImplementsDrop` | one step of the service is one grant, one redemption, one sponsorship or a stutter; redemptions stay below grants because spent nullifiers inject into grants |
| `ServiceImplementsAuth` | `ServiceSpec => AuthSpec` | every action either takes a step of `AuthSession` or leaves its tables alone |

### Marketplace

`MarketInv` says of the storage between calls that the ether is the sum of the
open bids and that every open offer is what its seller last asked (`OffersAsked`),
and of the one call in progress (`CallOK`) that the ether is the open bids plus what
the call still owes, that the state to restore satisfies the same conditions, and
that from that state to the present one, payments still due included, is one move
of `EscrowLedger`. There is at most one call because every function that pays
or delivers is `nonReentrant`; the other functions, which callbacks may use, move no
money. Sums over tokens are handled without induction over data: if two sums
differed unexpectedly there would be a smallest set of tokens where they do
(`SmallestSet`), and one element less gives the contradiction.

| Theorem | Statement | Argument |
|---|---|---|
| `MarketTypeCorrect` | `Spec => []TypeOK` | part of `MarketInv` |
| `AlwaysSolvent` | `Spec => []Solvency` | `MarketInv`: the balance, with or without a call in progress |
| `PaymentsCovered` | `Spec => []NextPaymentCovered` | the bids are never negative, so what a call owes is there; "insufficient balance" is never why a payment fails |
| `SalesAsked` | `Spec => SoldAsAsked` | `OffersAsked`, in storage and in the state to restore |
| `MarketImplementsLedger` | `Spec => ImplementsLedger` | `CallOK`: when the call returns, its payments are made and the move is done; when it reverts, nothing happened |

### Wallet

| Theorem | Statement | Argument |
|---|---|---|
| `NewestTicket` | `WalletSpec => []NewestTicketInForce` | `InboxInv`: `lastNonce` is the nonce of the ticket in force; the property says nothing of a ticket to come, which `lastNonce` lets in |
| `OpsOnce` | `WalletSpec => []OpsRunOnce` | `OpsInv`: the k-th userOp run carries nonce k-1 and `opNonce` is the next, so no two agree |
| `SponsoredMinted` | `WalletSpec => []SponsoredOpsMinted` | `OpsInv`: a sponsored request is one call, a mint into this account (`SponsoredIsOneMint`), and a minted token is never overwritten (`MintIfAskedKeepsTokens`), by any owner's or userOp's calls |
| `WalletTypeCorrect` | `WalletSpec => []WalletTypeOK` | `VaultInv`: `ownerCount` counts the owners and is never zero (`OwnersCounted`); `removeOwner` refuses the last; a mint target comes with an inbox (`TargetHasInbox`), which is never unset |
| `OnlyArmedExecutions` | `WalletSpec => []ExecutionsArmed` | `VaultInv`: every standing approval is covered by credit, and an execution takes the approval it uses |
| `TicketsArmOnce` | `WalletSpec => EachTicketArmsOnce` | `VaultInv`: `newestSpent` is the account's `lastExecutionApprovalNonce`, which no function lowers, so whatever inbox a ticket comes from its nonce is higher than every one before; the only other arming is one mint at the account's target, by validation |

A request may be a batch in which the account calls itself: what a single call
preserves (`VaultOK` and the credit it leaves) is carried through the batch by the
smallest number of calls after which it would fail.

### Page

| Theorem | Statement | Argument |
|---|---|---|
| `PageTypeCorrect` | `Spec => []PageTypeOK` | `PageInv`: of the page's fields only signer and address always go together; slots and proofs make up the allowance |
| `CachedTokenSafe` | `Spec => []CachedTokenIsItsRecipients` | `PageInv` says what each flow carries at each await: between challenge and verification the flow was challenged for the address it remembers, and the session it is given is that address's |
| `TokensOwned` | `Spec => []TokensReachTheirOwner` | the proofs issued name the recipient's own account, and a userOp mints the claim of the proof it was built from |
| `CalmMintsKeepTheirProofs` | `Spec => []CalmMintsLoseNothing`: without trouble every proof issued is redeemed, in hand, of a palette past the contract's, or outlived by the supply | `CalmInv`: without trouble a mint runs alone, on the target network, and address, Stark key, smart account and account of the wallet are one account's, and no proof expires; so nothing between the grant and the token can refuse but `PaletteAccepted` and the cap, and the cap, once reached, stays |

### Art storage and release

Three facts of `SVGStorage_proofs` carry the rest: the chunks a content is cut into,
joined, are the content (`ChunksRoundTrip`, for any limit, the last chunk shorter or
not); a batch adds exactly its missing contents, once each and in order
(`BatchStores`); and each call keeps `StoreOK` (index and records agree, an unfinished
record holds at most what was expected, a finished one its content) and lets a
store only grow (`BatchKeeps`, `InitializeKeeps`, `AppendChunksKeeps`, `FinalizeKeeps`).

`ReleaseInv` ties to that what lives outside the contract: a record that the
resume file, the running script or a pending transaction names exists in the storage
they name it for; the script waits for the last transaction of the mempool and
nothing else (`ReceiptFollows`, `StorageAwaited`, `BatchAwaited`, `InitAwaited`);
and ids that a `staticCall` predicted are not past those that the missing
contents will get. `ReleaseTypeOK` and `RecordsHoldTheirContent` follow.

It does not say that a predicted id is the right one. `OrderInv` does, as long as
nobody edits a file: contents reach a storage in one fixed order, that of the catalog
with later duplicates left out (`Order`), so that a storage always holds a prefix of it
(`InOrder`), each pending upload goes on where what is before it in the queue
leaves the storage (`PoolInOrder`), the script's own queue and the two halves
of a failed batch keep the order (`QueueOK`), and whatever is saved, entered or
predicted names its own content now or once the queue is mined (`DiskNames`,
`JobNames`, `Predictions`). This is why transactions that an earlier, killed
run left pending do no harm: they are the same ones in the same order.

| Theorem | Statement | Argument |
|---|---|---|
| `ReleaseInvariant` | `Spec => []ReleaseInv` | one lemma per action; what a script waits for is the last transaction pending, so a block of others only lets the stores grow |
| `ReleaseTypesCorrect` | `Spec => []ReleaseTypeOK` | parts of `ReleaseInv` |
| `RecordsAreTrue` | `Spec => []RecordsHoldTheirContent` | `StoreOK` of every storage; a finalized chunked record has been compared with its hash |
| `RecordsStay` | `Spec => RecordsPermanent` | every call either leaves a finalized record and its index alone or reverts |
| `StorageOrder` | `Spec => []OrderInv` | relative to `ReleaseInv` |
| `ManifestsAreTrue` | `Spec => []ManifestNamesContent` | `JobNames` at the end of the upload, `RecordsStay` afterwards |

### Deployment

`LaunchInv` has one part for each place where the drop's state is kept.
`ChainInv`: contracts have the fields of their kind and pending calls go to contracts
of the right kind. `FilesInv` and `ServersInv` are the properties themselves,
with the kinds of the contracts named. `PrivateInv` is why nothing that is still
pending, from a killed script or a second one, can spoil them: a call that changes
a contract in a way that a file or a server relies on (a rotation of the
gate's signer, an upload, a registration) goes only to contracts that no file and no
server knows yet. `DepositInv` bounds what a paymaster holds and is about to
get by the interruptions. `JobInv` is about the script that runs: its contracts are
its own and the only transaction to one of them is the one it waits for
(`OwnInv`), the address it waits at holds what it sent (`SentInv`), and for each script
what the steps done so far have made of the chain (`ScriptInv`).

For `deploy_stark` that is most of the proof. The upload plan is a sequence
computed file by file; `Covers` says which files are in the storage after each of its
steps, so that the ids written into the registry are those of the files
(`ArtJob`), unless two files are the same. `ForetellJob` follows the address
that is foretold for the mint through the nonces still to be used, until the
mint is created there (`MintJob`) or the script stops.

| Theorem | Statement | Argument |
|---|---|---|
| `LaunchInvariant` | `Spec => []LaunchInv` | one lemma per action, under it one per part; `Mine` by what the oldest transaction is |
| `LaunchTypesCorrect` | `Spec => []LaunchTypeOK` | `ChainInv`, `FilesInv`, `DepositInv` |
| `FilesTrue` | `Spec => []FilesAreTrue` | `FilesInv` |
| `ServedDropsWork` | `Spec => []ServedDropWorks` | `ServersInv`: what `BootAccepts` compared was on the chain, and `PrivateInv` keeps it there |

### How the proofs handle recursion

The library's induction theorems cannot be used (they take an operator as
parameter). A fact about a recursive function or a fold is proved by its
least counterexample instead: a non-empty set of naturals has a least member
(`SmallestNumber`), and at that number the definition unfolds once. Definitions of the form
`CHOOSE f : ...`, which recursive functions are, need first that such an f exists,
and that is proved the same way. Chunks, batches, queues, the upload plan, the sums of
the marketplace and the batches of the wallet are all done so.

The proofs made three definitions of the models clearer, without changing what the
code does in them. `StoreSvgBatch` and `Bootstrap` are recursive functions, of the
missing contents and of the files, where they were a filter and a fold. `Next` of `Launch` is
grouped by who acts. Where two arms of a `CASE` could both hold (`StepsOf` and
`WriteFile` of a reused script, `StoredAs` of a file that both the resume file and the
contract know), TLA+ leaves the choice open and TLC takes the first; they are now an
`IF` that makes the code's order of the tests explicit.

`AuthInv`, `MatchInv`, `SpacingInv`, `ServiceInv`, `MarketInv`, `WalletInv` (which is
`InboxInv`, `OpsInv`, `VaultInv` and types), `PageInv` and `CalmInv` were checked by TLC on the instances
of the runs as well.

### What is only model-checked

- `PhilsShowTheirArt`: it needs, beyond `OrderInv`, an invariant of the registry's
  batches and of the selection's slot arithmetic (`PhilNFT`) that says of
  every half-registered catalog which assets and variants it has.
- The second half of `SlotsLostOnlyToTrouble`, that one trouble costs one slot at
  most: its invariant would have to say in how many ways a page with one trouble
  behind it can disagree with itself, at every await.
- `BidNotTrapped`, `ReleasePublished` and `ForcedLaunchFinishes` are liveness under
  fairness, out of the prover's reach.
- `UsedProofNeverSponsored` and `LockedPhilsMint` are false: see above.

## Not modelled, and why

`PROJECT.json` has one line per component. Left out for good: the renderer and
decoder (pure view code over bytes), the Pedersen/Cairo rail (cryptography and a
remote prover that the deployed stack no longer uses), the SharpAccount prototype
(nothing refers to it), page layout, dry runs and read-only tools.
Inside modelled components: `transferOwnership` and `setRoyaltyReceiver` of
`PhilTestMint` (nothing that `mint` reads), the `unsafe_dev` allowlist (off unless a
developer sets two variables), upgrades of the wallet's implementation (what runs
then is another program) and the functions it inherits from its account library
beside `execute` and `executeBatch` (`delegateExecute`, direct storage access,
ERC-1271), the deposits of the local EntryPoint (no operation is
charged), the page's gallery, vault panel and `doMintLegacy` (the server refuses
its proof request), gas, event contents, and signature cryptography.

## Plan

What is left, in this order.

1. `PhilsShowTheirArt`: the registry's invariant (assets and variants registered so
   far are a prefix of `Registrations`), then `PickOne` and the slots.
2. The one-trouble half of `SlotsLostOnlyToTrouble`.
