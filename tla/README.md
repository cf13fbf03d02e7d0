# Verification of the elastic restaking network

TLA+ models of the elastic restaking network: its Solana program
(`src/programs/elastic_restaking`), its TypeScript client, analyzer, deployment
scripts and web application (`src/packages`, `src/scripts`, `src/apps/web`), the
TLC configurations that check them, and machine-checked proofs about them.

Validators deposit tokens once and commit ("allocate") the same deposit to
several services, up to a leverage cap. When a service misbehaves, governance
slashes it: every validator allocated to it loses what it had effectively
allocated there, and its other allocations are "stretched" over the stake that
is left. Deposits come back through a ticket that matures after a cooldown.
The accounts involved are shared by all transactions, most instructions may
come in any order, several of them may be sent by anyone, and the totals kept
on the accounts are updated incrementally by checked and by saturating
arithmetic. Around the program, clients read accounts before they send, give up
on transactions that land later, and pages show data older than what they act
on. This is what the models are about.

## 1. Inventory

Paths of the program are relative to `src/programs/elastic_restaking/src/`.

| Part | State | Operations | Interacts with |
|---|---|---|---|
| Accounts (`state/`) | `NetworkConfig`, `ValidatorState`, `ServiceState`, `AllocationState`, `WithdrawalTicket`, `SlashProposal`, `SlashRecord` | | written by every instruction |
| Deposits and withdrawals (`instructions/validator/`) | the deposit, open tickets, network totals, the stake vault | `deposit_stake`, `request_withdrawal`, `complete_withdrawal` | allocations (the cap is checked at the request), epochs (the cooldown), slashes (the vault) |
| Allocations (`instructions/allocation/`) | one account per validator and service; totals of both | `allocate_stake`, `deallocate_stake` | deposits (the caps), slashes (frozen services) |
| Slashing (`instructions/slashing/`) | proposals, records | `propose_slash`, `veto_slash`, `finalize_slash`, `rebalance_allocations` | all of the above; the treasury |
| Epochs (`instructions/epoch/advance_epoch.rs`) | `current_epoch`, `last_epoch_timestamp` | `advance_epoch` | tickets, clock |
| Administration (`instructions/admin/`) | parameters, the authority and its nominee | `initialize_network`, `update_network_config`, `propose_authority`, `accept_authority` | everything that reads a parameter or asks for the authority |
| Service registry (`instructions/service/`) | services, their vaults, `service_count` | `register_service`, `update_service`, `deactivate_service` | allocations (the lock), proposals |
| Rewards (`fund_rewards.rs`, `distribute_rewards.rs`, `claim_rewards.rs`) | reward pools and vaults, accruals | fund, distribute, claim | allocations (the share), the recorded degree (the gate) |
| Arithmetic (`math.rs`) | none | `checked_mul_div`, `bps_mul`, degree, share, fee | used by all |
| Client (`packages/sdk`) | none of its own; a method in progress holds what it fetched | one method per instruction; derivation of addresses | other clients, between the fetch, the send and the execution |
| Analyzer (`packages/analyzer`, copied to `apps/web/lib/analyzer`) | the loop variables of a search | attack search, robustness, symmetric closed form, optimal degree, figures | called by the analyzer page |
| Scripts (`scripts/deploy.ts`, `scripts/seed-devnet.ts`) | `deployment.json`, `seed-info.json`, the step a run is at | one sequence of awaited RPC calls each | the program; the client of the same wallet; earlier runs |
| Web: dashboard, registry (`apps/web/app/page.tsx`, `services/page.tsx`, `hooks/`) | two cached queries, the wallet connection | refetch, connect | the chain; fixed sample rows |
| Web: network page (`network/page.tsx`) | a sample graph, selection, hover, the slash simulator and its timer | slash, reset, click, hover | none |
| Web: analyzer page (`analyzer/page.tsx`) | sliders, results, the computation under way | move, compute, reset, tabs | the analyzer |
| Web: staking and admin pages | input fields | none with an effect | |
| Migrations, tests | none | one-shot | |

What makes the parts correct:

* deposits: tokens are conserved; what tickets reserve is what they will take;
  a matured ticket can be paid; network totals do not overstate the deposits.
* allocations: no allocation is worth more than its nominal amount or than the
  stake behind it when it is written; totals and slots of validators and
  services match the allocations, or err on a known side.
* slashing: only an unvetoed proposal that sat out its window slashes, once; a
  slash costs only validators of that service, and no more than they had
  effectively there; it is final and freezes the service.
* epochs: tickets and proposals make progress although nobody in particular is
  in charge of it.
* administration and registry: only the authority of the moment administers,
  only its last nominee succeeds it; ids are dense whatever registrations race.
* client: a signature returned means that what was asked for happened, to the
  account the client meant; a refusal can be explained to the caller.
* analyzer: each verdict and figure is the one its definition asks for, and
  the fast symmetric search agrees with the exhaustive one.
* scripts: whatever is killed, late or repeated, the files agree with the
  chain, no token appears or vanishes, and a seed run that meets no fault
  registers what earlier ones left out. (A deployment killed between
  `initialize_network` and the writing of the file is not taken up again: the
  next one finds the network initialized and stops.)
* web: views of one page agree with each other, a verdict shown holds for the
  parameters it is shown for, no action leaves a button disabled.
* rewards: rewards paid never exceed what was funded (see section 6).

What is hard about it: interleavings of validators, services, authority and
permissionless callers over shared accounts; values read at one instruction and
used at a later one (effective amounts, degree, reservations); partial
finalizations, since the caller picks at most ten validators; several open
proposals against one service; a position registered a second time over its old
allocations; parameters changed under open tickets and proposals; saturating
against checked arithmetic; a counter fetched before the transaction built from
it lands; transactions that outlive the caller's patience; scripts killed
between two calls; timers that outlive the state they were set for; the ends of
bisections and ties between degrees. The `hazards` of `PROJECT.json` place each
of these at its line.

## 2. Modules

| Module | Models | Source |
|---|---|---|
| `RestakingAccounts` | the accounts as variables, their types, `math.rs`, the network after `initialize_network` | `state/`, `math.rs`, `constants.rs`, `admin/initialize_network.rs` |
| `Staking` | deposits and the two-step withdrawal | `instructions/validator/` |
| `AllocationLedger` | allocate, deallocate | `instructions/allocation/` |
| `Slashing` | propose, veto, finalize, rebalance | `instructions/slashing/` |
| `Network` | clock, epochs, parameters, retirement of a service | `epoch/advance_epoch.rs`, `admin/update_network_config.rs`, `service/deactivate_service.rs` |
| `ElasticRestaking` | the composition: `Next`, fairness, the properties of the program | the whole program |
| `SlashGovernance` | abstract: cases opened, stopped, due, executed | what proposals promise |
| `SlashRefinement` | the mapping of the program to it | |
| `ProgramAddresses` | derived addresses | `packages/sdk/src/pdas.ts` |
| `SdkClient` | wallets administering the network through the client; registry, authority, proposals as the client sees them | `client.ts`, `types.ts`, `admin/transfer_authority.rs`, `service/` |
| `StakerClient` | the staking methods of the client and RPC calls that may time out | `client.ts`, `instructions/validator/`, `instructions/allocation/` |
| `Scripts` | both scripts beside the wallet of `StakerClient` | `scripts/` |
| `NetworkAnalysis` | networks, attacks, the symmetric closed form, figures | `packages/analyzer/src` |
| `Analyzer` | the loops of the searches, one step per iteration | `packages/analyzer/src` |
| `AnalyzerPage`, `NetworkPage`, `ChainData` | the pages and the hooks | `apps/web/app`, `apps/web/hooks` |
| `WebApp` | navigation between the pages; their composition | `apps/web/app` |
| `DocumentedClaims` | a statement of a comment the program departs from | section 5 |
| `MCElasticRestaking`, `MCSdkClient`, `MCScripts`, `MCAnalyzer`, `MCWebApp` | values of the constants for TLC | |
| `ElasticRestakingProofs`, `SlashGovernanceProofs`, `SdkProofs`, `ScriptsProofs`, `AnalyzerProofs`, `WebAppProofs` | theorems about the specifications | |
| `NetworkAnalysisProofs` | lemmas on the closed form, for the analyzer and its page | `packages/analyzer/src` |
| `SumTheorems` | lemmas on sums, counts, intervals, products and ratios | |

Correspondence, the program. A field of an account type is a function from the
key of the account; a boolean field is the set of the accounts that have it
set; an allocation or ticket that does not exist yet has status `"None"` or
amount 0. One instruction is one action, because a transaction is atomic: every
`require!`, account constraint, checked operation and token transfer that can
fail is a conjunct of the guard. A `checked_add` is a membership in `U64` or
`U32`, a `checked_sub` a comparison, a `saturating_sub` is `SatSub`, and
`.unwrap_or(0)` on the degree is `DegreeOrZero`.

Correspondence, the client. A method that reads first is two actions, the call
(`StartFetch`) and the send (`FetchAndSend`, or `FetchThrows` when the fetch
does); a method that does not is one (`Call`). A transaction in `inFlight`
lands (`Land`), is refused by the handler (`Refuse`) or expires (`Expire`); its
sender may stop waiting first (`GiveUp`). `SdkClient` keeps of each account
what the administering instructions read, as a record, in maps from addresses;
`StakerClient` has one wallet and keeps the numbers of its accounts.
In `Scripts` each `await` of a script is an action; `script` and `item` are its
program counter, `Killed` ends a run anywhere.

Correspondence, the analyzer. A loop of the source is a step per iteration and
its local variables are variables; the functions it calls are operators of
`NetworkAnalysis`. A ratio of binomial coefficients is a numerator over a common
scale.

Correspondence, the pages. One `useState` is one variable, one handler one
action, one `setTimeout` a pending timer; derived values (`useMemo`, the values
of the markup) are operators. A query of react-query is its data and whether a
fetch is under way.

Abstractions, and why they lose nothing the properties can see:

* Time in the program. It compares "now" with a stored timestamp, and the
  current epoch with a stored epoch, and nothing else. The model keeps the
  differences (`epoch_elapsed`, `dispute_left`, `epochs_waited`), saturated at
  `Horizon`, which no configured duration exceeds.
* `activation_epoch`, `deactivation_epoch` and `is_active` of a validator are
  written and never lead to a different outcome; timestamps for display, bumps,
  names, and the before/after totals of a slash record have no reader.
* `finalize_slash` takes the set `P` of the validators passed to it. A repeated
  pair is skipped the second time (the allocation is `Inactive` by then), so
  the order and multiplicity of the pairs do not matter. Its pairs are read by
  hand, and the handler compares the names in them only
  (`finalize_slash.rs:120-150`). A service's allocation is the program's own,
  since the handler writes it. The validator's account may be another one with
  the same name, as long as writing it back changes nothing: `Q` is the part
  of `P` whose allocations come with such an account. The constant
  `Substitutable` says for which validators there is one. Those in `Q` pay
  into the total of the slash and keep their own totals.
* `rebalance_allocations` takes a function from the allocations passed to a
  service account each, any service, or `NoService` for an account that is
  none of the program's: the handler does not compare the two. A repeated
  allocation has nothing left to shrink.
* `fees` is a history variable: it is written by deposits and read by
  properties only.
* The number of proposals is capped by `MaxProposals`, the widths by `MaxU64`
  and `MaxU32`, the amounts a caller may pass by `Amounts`.
* An address is the tuple of its seeds: the hash is taken to be injective.
* `SdkClient` keeps of the dispute window only whether it is open; it may close
  at any step. That includes every length of window.
* `StakerClient` is a network without fees, slashes and pauses, one deposit of
  the seed script as the unit. A ticket ripens when no transaction is in
  flight, since a transaction is valid for about a minute and the cooldown
  lasts hours. The caller is the one the comment of `client.ts:441` asks for:
  it takes no ticket id twice, though it may repeat a request that failed, and
  claims once a request it gave up on has expired.
* The analyzer computes in doubles; the model is exact. 50 rounds of a
  bisection are `Iterations` rounds.
* A visit to a page without queries (network, analyzer) lasts longer than
  react-query keeps unused data, so the next page that needs them fetches. A
  shorter visit would let that page show old data first, as a refetch that
  failed does, which the model has; keeping them multiplies the states of the
  graph by those of the queries, beyond what TLC can explore.
* Search, filter and sort of fixed rows, layout and charts are left out.

## 3. What the runs check

In the runs of the program one unit of stake is the minimum deposit, one unit of
time the default epoch. The runs differ in which dimension is large, because
the product of all of them is out of reach.

| Run | Instance | Shows |
|---|---|---|
| `protocol` | 1 validator, 2 services, 1 ticket id, 1 proposal, amounts to 3 | widths (`TypeOK`), `DepositBounds`, `ExposureBounds`, and of every step: tokens leave the vault only through a matured ticket or one finalization (`VaultOutflow`), effective stake lost to a slash comes back only with a new deposit (`SlashIsPermanent`), whoever writes an effective amount writes the stretch (`StretchOnWrite`) |
| `reregistration` | 1 validator that may register twice and is `Substitutable`, 1 service, 2 proposals, pause | `AllocationShape`, `ServiceTotals` through withdrawals to zero and new deposits over old allocations |
| `deposits` | 2 validators, 2 ticket ids each, 1 proposal, fees on and off, a refused parameter set | `PendingIsOpenTickets` through overlapping tickets, `VaultConservation` through tickets and a slash |
| `slashing` | 2 validators, 2 services, 2 proposals, one pair per finalization and per rebalance, windows of length 0 and 1, both validators `Substitutable` | `NetworkTotals`, `SettledIsFinal`, `NoCascade`, `SlashedServiceFrozen` through partial finalizations and repeated proposals |
| `governance` | 1 validator, a plain and a base service, 2 proposals, changing windows | the program implements `SlashGovernance` (`ImplementsGovernance`); `ProposalEventuallySettled` |
| `tickets` | 1 validator, 2 ticket ids, 1 proposal, changing cooldown, fee and epoch length | `TicketEventuallyPaid` |
| `sdk` | 2 wallets with 2 calls each, 3 service ids of which 1 is taken, 4 names, one too long and one registered with a threshold the program refuses, 2 proposals, 1 transaction that nobody waits for | the registry is dense (`RegistryDense`), signatures stand for what was asked (`ReceiptsHold`), `RefusalExplained`, `AdministeredByAuthority` |
| `analysis` | every network of 2 validators and 2 services with stakes and allocations to 2 and prizes to 3, of 1 validator and 3 services with prizes to 2; every symmetric one with S to 4, stakes to 3, prizes to 4; 4 rounds per bisection | `VerdictIsExact`, `BudgetIsLeast`, `ClosedFormIsExact`, `BestIsFirst`, `MinStakeIsLeast` |
| `scripts` | 3 services, 1 ticket id, 4 calls of the wallet, 1 transaction given up at a time, 2 runs of each script | `FilesAgree`, `TokensAccounted`, `AllocationsBacked`, `FaultlessRunRegistersAll` |
| `web_app` | validators v0, v4 and services s0, s2, s3 of the page's graph; two positions for most sliders; 2 timers; 2 ids queried of 3 on chain | `EffectiveExactAtFirst`, `ViewsAgree`, `VerdictSound`, `ShownExist`, `SlashNeverRaises`, and that buttons come back and the banner goes away (`ButtonsReturn`, `BannerClears`) |

Why the bounds are enough. Two services are what a cascade or a slash before a
rebalance needs; two validators are what a partial finalization, a shared
service total and a network total need; two tickets and two proposals overlap;
a deposit of two units can be split, fee-charged (half of it is a fee under
`Fee`) and partly withdrawn. With one unit as the minimum deposit and a cap of
five, the interesting caps are reached by amounts up to 3. `MaxU64` small
makes additions overflow within the instance, so the checked paths are taken.
`MaxValidatorsPerSlash = 1` in `slashing` is the limit of ten scaled to two
validators. `Substitutable` is not empty in `slashing`, `reregistration` and
`tickets`; it is empty in `protocol`, where `ExposureBounds` is about the
others. In `sdk` a third id is one more than the two registrations that
race for the second, an abandoned transaction plus a repeated one is a
duplicate, and the registry does fill up. In `analysis` every order of stake,
allocation and prize of two services occurs, ties included; a network of three
services has subsets that are neither single nor whole. In `scripts` two runs
are what "run it again" needs and one late transaction crosses them. In
`web_app` the two validators share a service and each has another one, one of
which is slashed from the start, and one more id may exist on the chain than
the query looks at.

Every run of the program and `web_app` check deadlock. `sdk` and `scripts` do
not, since callers may have made all their calls, nor `analysis`, whose
algorithms end. Symmetry over validators (and services) is used in safety runs
only.

Fairness of the program (`FairSpec`). Time passes (`Tick`). `advance_epoch` and
`finalize_slash` take any signer, so somebody interested in a due epoch or
proposal sends the transaction; a validator collects the ticket it can
collect. A transaction that stays possible is eventually included in a block:
weak fairness is enough, since a due epoch, an elapsed window and a matured
ticket stay so, except that the authority can move the cooldown and the epoch
length, which `tickets` lets it do for ever. Nothing is assumed about
deposits, allocations, proposals, vetoes or rebalances. `TicketEventuallyPaid`
has one exception, a vault that a slash left short of the ticket; see
`claim_slash_exact` and section 5.

Fairness of the pages. A timer that was set fires (weak fairness), on a page
that stays; the refetch interval of a query in use fires (weak fairness); an
RPC node that is asked again and again answers at some time (strong fairness of
the answer: single fetches may fail). Nothing is assumed of the user.

## 4. What is proved

Every invariant and every safety action property of the passing runs, but
for the exceptions listed at the end, for every value of the constants: any sets
of validators, services, wallets and names, any amounts, widths, networks,
parameters and numbers of iterations. The assumptions on constants are named in
the module that declares them and evaluated by TLC in every run:
`WidthAssumption`, `InputAssumption`, `ConfigAssumption` and `FiniteAssumption`
(finitely many validators and services, since the totals add over them) of
`RestakingAccounts`, `SdkAssumption` and `NobodyAssumption` of `SdkClient`,
`StakerAssumption` and `ScriptsAssumption` of the scripts, `AnalyzerAssumption`
(networks with finitely many validators and natural amounts; `1 <= d <= S`),
`NetworkPageAssumption` and `EveryNodeHasAnEdge` of the graph's data,
`AnalyzerPageAssumption` and `ChainDataAssumption`. A theorem that needs more
says so in its statement.

Sums (`SumTheorems`). Totals are folds, and a fold is a recursive function over
the subsets of a finite set. An induction over that set cannot be cited here, so
each lemma takes a counterexample of least cardinality instead
(`SubsetInduction`, from `LeastElement`). What the other proofs cite is
pointwise: a sum after one entry, or one entry of a row or column, was written;
the sum of a part; monotony. `IntervalInduction`, `IntervalRecursion`,
`FirstBest` and the lemmas on products and ratios come from the same principle.

The program (`ElasticRestakingProofs`):

* `TypeCorrect`: `Spec => [](TypeOK /\ ProposalsMade)`. `TypeOK` alone is not
  inductive: a finalization writes the totals of the service its proposal
  names, so a proposal that was made must name one. `ProposalsMade` says that,
  and that only proposals that were made are settled. There is one lemma for
  each action; `BpsMulNat`, `U64Closed`, `U32SatSub` and `ResetType` are the
  facts on the arithmetic they share.
* `DepositsBounded`, `SlashesJustified`, `SlashedServicesFrozen`,
  `AllocationsShaped`: invariants, each inductive beside `TypeOK` and
  `ProposalsMade`; the step lemma has one case for each instruction that
  disturbs it. `SlashesJustified` has no run of its own: a service is slashed
  exactly when an unvetoed proposal against it was finalized, which
  `ImplementsGovernance` implies.
* `SettlementsFinal`, `SlashesPermanent`, `StretchWritten`, `SlashesIsolated`
  and `VaultGuarded`: the action properties `SettledIsFinal`,
  `SlashIsPermanent`, `StretchOnWrite`, `NoCascade` and `VaultOutflow`. Each
  follows from `TypeOK` and `ProposalsMade`; a frame lemma (`GovernanceFrame`,
  `DepositFrame`, `AllocationFrame`) disposes of the instructions that leave the
  accounts in question alone, so that the step lemma has one case for each that
  does not.
* `TicketsAccounted`, `NetworkTotalsKept`, `TokensConserved`,
  `ServicesAccounted` and `ExposureBounded`: the totals. An instruction that
  writes one account moves a total by what it moves the account; a
  finalization writes several, and `SlashTotalBounds` bounds what they lose
  together by what the treasury receives, which is as much as can be said (see
  `claim_slash_exact`). `ServiceTotals` is not inductive: a full deallocation
  gives back the slot of the allocation, and would give back one that is not
  counted if the allocation were `Active`. `NoActivation`, that no instruction
  makes one, is proved with it. `ExposureBounded` bounds `total_allocated` for
  the validators that are not `Substitutable`, and the slots of all.
* `GovernanceImplemented`: the refinement. The mapping reads the abstract state
  off the proposals: opened is proposed, due is past its window, defendants are
  services, condemned is slashed, taken is `total_slashed`. Initial states map
  to initial ones and each instruction to a step or a stutter: propose, veto and
  finalize to the actions of those names, `Tick` to `TimePasses`, the others
  leave the abstract state alone. `JusticeDone` (`SlashGovernanceProofs`) proves
  what the abstract specification is for: nobody is condemned but by an executed
  case, the immune (base services) never, no case is vetoed and executed, none
  takes anything before its execution.

The client (`SdkProofs`). `TypesHold`, `RegistryIsDense`, `ReceiptsAreGood`,
`RefusalsExplained` and `AuthorityAdministers` prove all the properties of the
run `sdk`. The inductive invariant `IInv` has three parts: the ledger (types,
density of services and of proposals, and that every proposal names a service
that exists), the transactions on the way, and the receipts. Density is not
inductive without the second: a finalization in flight writes the service it
names. The relation `LedgerKeeps` says what no instruction takes back (a
service, its owner and name, a slash; a proposal, its target, its outcome).
Every lemma on an instruction ends in it, and the facts about transactions
built from an older ledger (`TransactionsFrame`) and about signatures returned
earlier (`ReceiptKept`) follow from it alone. The refusals need the converse of
the vaults' density as well, that no vault exists without its service, and that
a registration in flight was built from a count the registry once had; a
threshold or mint the program refuses is the third reason they name.

The scripts (`ScriptsProofs`). `FilesTellTheTruth`, `TokensNeverLost` and
`AllocationsAreBacked`. The invariant has three parts: the accounts, with their
sums; the deliveries (a ticket id is claimed before it is paid, and no request
is in flight for a claimed one, which is what keeps a late transaction from
paying an id twice); and how far the deployment has come. `CallOutcome` reduces
all that can become of a call to three cases, executed, nothing happened, or
left in flight, so that a step of a script is one application of the lemma on
its instruction. `AllocationsBacked` is not inductive without its first
conjunct: a deposit on an empty position resets `totalAllocated`, and the
allocations left over are those a withdrawal was let past, so they are within
the cap on what was paid out. "The program refuses" is a negation of `ENABLED`, which the
provers cannot expand; the proofs do not need it, since a refusal changes
nothing whatever its reason.

The analyzer (`AnalyzerProofs`, `NetworkAnalysisProofs`). `TypeInv` says what
the searches have in hand; beside it each search has an invariant of its own.

* `VerdictsAreExact`. `AttackIs` proves that slashing the services of a mask in
  index order, each time at most what is left, takes from each validator the
  lesser of its stake and its exposure, so that the order does not matter.
  `AttacksAreMasks` proves that the masks below `1 << services` are the sets of
  services. That is right up to 30 services only: at 31 the shift overflows and
  the loop visits nothing (section 5). The theorem and the next one state it as
  their hypothesis, `Within30Services`. `SubsetsInv` accounts for the masks
  passed.
* `BudgetsAreLeast`. The invariant of a bisection, that the upper end was found
  to pay for an attack and the lower one was not, gives the least budget because
  what a budget pays for, a larger one pays for (`PossibleIs`).
* `DegreeIsFirst`. `BestInv` makes the sweep a first maximum of a total
  preorder. That robustness never falls with the degree needs an argument about
  the formula: a chance of being missed by an attack is a quotient of falling
  products, convex in the size of the attack, so that the worst attack is on one
  service or on all (`WorstIsExtreme`); what the attack on all takes does not
  depend on the degree, and what the attack on one takes grows with it
  (`HitGrows`, `CostGrows`). Figures 4 to 6 follow (`PointsFollow`,
  `BaseHelps`).
* `StakesAreLeast`. The same bisection invariant (`StakesInv`), with
  `SecureAtIs`: resisting is monotone in the stake and in the degree, and the
  upper bound `10 S pi` of the search always resists.

* `ClosedFormExact`. Its second hypothesis, `OneValidatorPerChoice`, is what the
  closed form is about: as many validators as there are choices of `d` services
  out of `S`. `ChoicesCount` proves that these are `S (S - 1) ... (S - d + 1) / d!`
  (Pascal's rule, `ChoicesNext` and `FallingPascal`), for the choices that avoid
  an attack too, so that `HitsAreCounted`. The margin of an attack then depends
  on its size only (`DesignMargin`). The least margin is that of the worst size;
  `FirstInv`, that the subset in hand is the first of its margin, settles the
  size when several are as bad, since mask 1 is a single service.

The pages (`WebAppProofs`). `TypeCorrect`, `ServicesShownExist`,
`EffectiveStakeExact`, `ViewsAlwaysAgree`, `SlashesNeverRaise`,
`VerdictsAreSound` and `OneComputationAtATime`, for any selection of the graph's
data and any ranges of the sliders. `GraphInv` states the graph in terms of the
data and of the set of services slashed since: the stake of a validator that was
hit is `LeftAfter`, whichever service and however often, which is why a second
slash changes nothing and why the number shown is exact after the first only.
It takes from the data that a validator has at most two edges, and that every
node of the selection has one (`EveryNodeHasAnEdge`). `VerdictsAreSound` reuses the lemmas on the closed
form: a cost above the total prize is above the prize of an attack of any size
(`CostlyIsSecure`), at the degree the sweep reports. `ServicesShownExist` rests
on what was found being the first ids, and on services never being closed.

Only model-checked:

* liveness: `ProposalEventuallySettled`, `TicketEventuallyPaid`, `ButtonsReturn`
  and `BannerClears`, under the fairness of section 3;
* `FaultlessRunRegistersAll`, which needs that a call is refused only when its
  instruction is not `ENABLED`.

## 5. Where the code departs from what is said of it

Two statements have a run that checks them, and TLC finds a behaviour that
violates each.

* `claim_slash_exact` (`SlashTakesWhatStakeLoses`).
  `finalize_slash.rs:161`: "effective_stake is reduced by exactly the amount
  they had effectively allocated". The subtraction saturates, and the tokens
  moved are the unsaturated amount: after another service of the same
  validator was slashed and nobody rebalanced, the treasury receives more than
  the stake lost. `README.md:57` bounds a validator's loss by its deposit.
* `claim_single_service` (`SingleServiceVerdict`). The analyzer page says
  "Secure against single-service attacks" (`analyzer/page.tsx:384`) when the
  total stake exceeds the prize. With the page's own sliders, five validators
  of 10000, ten services and a prize of 20000 give the verdict, while the
  attack on one service costs 5000 at the degree reported.

Other statements were compared with the code while modelling. The following
depart from it and have no run; the definition named shows the behaviour.

* `complete_withdrawal.rs:127`, "tracks the sum of all validator
  effective_stake values": after a slash, withdrawing stake that no longer is
  effective lowers the total again. It never overstates the sum
  (`NetworkTotals`).
* `README.md:191`, "total_allocated <= effective_stake * max_degree / 10_000":
  a withdrawal is checked when it is requested; an allocation made before it
  completes counts the stake that is leaving (`DepositBounds`,
  `ExposureBounds` say what does hold).
* `deallocate_stake.rs:82`, the allocation "becomes slashable for
  `deallocation_delay_epochs` more epochs": it is emptied at once, and an empty
  allocation is skipped (`AllocationShape`).
* `network_config.rs:51`, "Whether all state-mutating instructions are paused":
  of the instructions modelled, `deposit_stake`, `request_withdrawal` and
  `allocate_stake` look at the flag.
* `validator.rs:11`, "Sum of raw token amounts allocated across all services":
  a position withdrawn to zero and registered again has its total reset over
  its old allocations, which can no longer be deallocated in full.
* `client.ts:512`, "Anyone may propose": the handler wants the authority
  (`ProposalAccepted`). `client.ts:300`, "Only the network authority may call
  this": the service's own authority may too (`DeactivateAccepted`).
* `client.ts:444`, ticket ids from `allocationCount`: the count goes down and
  up again, and an id still in use is refused (`TicketFree`).
* `client.ts:707`: `rebalanceAllocations` passes no allocation accounts, so the
  handler has nothing to rebalance. `client.ts:900`: the filter by service is
  given base64 where base58 is read.
* `network/page.tsx:188`, "sum of effective allocations": it sums the initial
  ones. The number is right after the first slash that hits a validator and
  too high after the second (`EffectiveExactAtFirst`). The tooltip of a node
  and its detail panel sum different columns.
* `robustness.ts:37` samples budgets below the whole stake only, so a network
  that falls to exactly that budget is called robust (`BudgetIsLeast` states
  it). `symmetric-network.ts:43`, "the minimum over all k": it is the cost at
  the worst margin. `security-check.ts:25` and `:35` give different meanings to
  a score of 100. `optimal-degree.ts:72` and the page's caption of Figure 3
  speak of an interior minimum; the minimal stake never grows with the degree
  (`MinStakeIsLeast`).
* `network-model.ts:133`: `1 << S` wraps at 31 services, no subset is visited
  and the network is called secure (`ShiftOne`); the program takes 256
  services. `use-services.ts` looks at the ids 0 to 19 only.

* `analyzer/page.tsx:752-754`, "Over-restaking (d > d*) reduces the attack
  cost": it does not, in the analyzer's own terms. `minAttackCost` never falls
  as the degree grows, nor do figures 4 and 5 (`BestIsFirst`, proved for any
  parameters): the degree reported is the smallest at which it has reached its
  maximum, and every larger one has the same.

Seen in the actions without being said of otherwise: no instruction makes an
allocation `Active` or ends a deactivation (`tests/elastic-restaking.ts:838`
says so), so a fully deallocated pair refuses new allocations; `validator_count`
counts registrations, not wallets; `finalize_slash` leaves `allocation_count`
and `validator_count` of the service as they were, which is what `ServiceTotals`
and `ExposureBounds` account for by counting `Inactive` slots; a slash reduces
the vault and not `total_staked` (`VaultConservation` states the exact
relation). `finalize_slash` writes the validator account it is given, which
need not be the program's (`finalize_slash.rs:120-150`): the allocation is then
closed and paid for while the validator's own `effective_stake` and
`total_allocated` stay, so that `total_allocated` can exceed the sum of the
allocations (`ExposureBounds` is about the other validators). A deposit on a
position withdrawn to zero resets `total_allocated` and not the allocations
(`deposit_stake.rs:102-122`), which the cap no longer counts: `AllocationsBacked`
says by how much they can exceed it. The client passes the threshold and the
mint of a registration unchecked; the program refuses wrong ones
(`RefusalExplained`). On the pages: a failed first fetch reads "not yet initialized" until
the next one succeeds (`BannerClears`); after a slider has moved the verdict
compares the results of the old parameters with the prize of the new ones
(`VerdictSound` is about unmoved sliders); a reset during a computation is
followed by its results; the timer of an earlier slash gives the button back
while a later one is shown as running.

## 6. What is not modelled, and what is left

* Rewards. `distribute_rewards` pays `Active` allocations, and no instruction
  makes one `Active`: nothing is ever distributed, and there is nothing to
  claim. A model would have one action that can happen, a transfer into a vault
  nothing leaves. The same reason leaves the reward share of `math.rs` out.
* `update_service`. It writes the metadata, threshold and prize of a service,
  which no modelled instruction reads; the count that locks it is the subject
  of `ServiceTotals`.
* The methods of the client that send one transaction built from their
  arguments (`updateNetworkConfig`, `updateService`, `fundRewards`,
  `advanceEpoch`, `distributeRewards`, `claimRewards`, `rebalanceAllocations`)
  and the read-only listings.
* The staking and admin pages: fixed data and input fields, buttons without
  handlers. Rendering, charts, search and sort.
* Rounding of doubles in the analyzer.
* Migrations, tests and CI; serialization and account ownership checks of the
  Anchor framework, where it makes them: for the pairs of `finalize_slash` and
  `rebalance_allocations` it makes none, which is modelled (section 2); the SPL
  token program (a transfer either moves the amount or fails the instruction).

Left to prove: that the mapping of `sdk`'s registry to that of the program,
which both translate from the same instructions, is a refinement.
