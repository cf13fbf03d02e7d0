------------------------------- MODULE Scripts -------------------------------
(***************************************************************************)
(* scripts/deploy.ts and scripts/seed-devnet.ts: two programs that set a   *)
(* network up from one wallet, each RPC call awaited before the next, run  *)
(* as often as the operator likes.  A run may be killed anywhere, and what *)
(* it gave up waiting for may still land during the next one.  The same    *)
(* wallet uses the client of module StakerClient meanwhile.                *)
(***************************************************************************)
EXTENDS StakerClient

CONSTANTS MaxRuns   \* bound on the runs of each script

ASSUME ScriptsAssumption ==
    /\ MaxRuns \in Nat
    /\ Names \in Seq(Range(Names))
    /\ Len(Names) >= 2      \* the seed script allocates to the first two

VARIABLES
    script,       \* the one that runs: "none", "deploy" or "seed"
    step,         \* what it does next
    item,         \* the service it does it for
    newMint,      \* deploy: the mint it has created
    mints,        \* mints created so far
    deployment,   \* stakeMint in deployment.json, NoMint when there is no file
    seedInfo,     \* whether seed-info.json was written
    faultless,    \* seed: every call so far landed or was refused
    runs          \* per script, runs started

scriptVars == <<script, step, item, newMint, mints, deployment, seedInfo, faultless, runs>>
vars == <<chain, inFlight, clientVars, scriptVars>>

Init ==
    /\ ClientInit
    /\ script = "none" /\ step = "start" /\ item = 0
    /\ newMint = NoMint /\ mints = 0
    /\ deployment = NoMint
    /\ seedInfo = FALSE
    /\ faultless = TRUE
    /\ runs = [s \in {"deploy", "seed"} |-> 0]

At(s, st) == script = s /\ step = st

Goto(st, i) == script' = script /\ step' = st /\ item' = i
Exit == script' = "none" /\ step' = "start" /\ item' = 0

Start(s, first) ==
    /\ script = "none"
    /\ runs[s] < MaxRuns
    /\ runs' = [runs EXCEPT ![s] = @ + 1]
    /\ script' = s /\ step' = first /\ item' = 0
    /\ UNCHANGED <<chain, inFlight, clientVars>>

(***************************************************************************)
(* deploy.ts: any error ends the run.                                      *)
(***************************************************************************)
StartDeploy ==
    /\ Start("deploy", "createMint")
    /\ UNCHANGED <<newMint, mints, deployment, seedInfo, faultless>>

\* A mint of its own for every run.
CreateMint ==
    /\ At("deploy", "createMint")
    /\ mints' = mints + 1
    /\ newMint' = mints + 1
    /\ Goto("initializeNetwork", 0)
    /\ UNCHANGED <<chain, inFlight, clientVars, deployment, seedInfo, faultless, runs>>

\* Mutant: the error is caught and the run goes on.
AfterError_caught == Goto("save", 0)

AfterError == Exit

DeployInitialize ==
    LET tx == Tx("initializeNetwork", newMint) IN
    /\ At("deploy", "initializeNetwork")
    /\ \/ Confirmed(tx) /\ Goto("save", 0)
       \/ Throws(tx) /\ AfterError
    /\ UNCHANGED <<clientVars, newMint, mints, deployment, seedInfo, faultless, runs>>

SaveDeployment ==
    /\ At("deploy", "save")
    /\ deployment' = newMint
    /\ Exit
    /\ UNCHANGED <<chain, inFlight, clientVars, newMint, mints, seedInfo, faultless, runs>>

(***************************************************************************)
(* seed-devnet.ts: the calls in a try block go on after an error; creating *)
(* the token account goes on too; minting does not.                        *)
(***************************************************************************)
\* Without deployment.json the script ends at once.
StartSeed ==
    /\ deployment # NoMint
    /\ Start("seed", "registerService")
    /\ faultless' = TRUE
    /\ UNCHANGED <<newMint, mints, deployment, seedInfo>>

\* A call that goes on to the next step, whatever becomes of it.
Try(tx, next, i) ==
    /\ \/ Confirmed(tx) /\ UNCHANGED faultless
       \/ Refused(tx) /\ UNCHANGED faultless
       \/ GivenUp(tx) /\ faultless' = FALSE
    /\ Goto(next, i)
    /\ UNCHANGED <<clientVars, newMint, mints, deployment, seedInfo, runs>>

\* Mutant: only the first service a run finds unregistered is registered.
NextService_one == IF item >= Len(names) THEN Len(Names) ELSE item + 1

NextService == item + 1

SeedService ==
    LET next == NextService IN
    /\ At("seed", "registerService")
    /\ IF next < Len(Names) THEN Try(Tx("registerService", item), "registerService", next)
                            ELSE Try(Tx("registerService", item), "createTokenAccount", 0)

SeedTokenAccount ==
    /\ At("seed", "createTokenAccount")
    /\ Try(Tx("createTokenAccount", 0), "mintTo", 0)

SeedMint ==
    LET tx == Tx("mintTo", 0) IN
    /\ At("seed", "mintTo")
    /\ \/ Confirmed(tx) /\ Goto("depositStake", 0)
       \/ Throws(tx) /\ Exit
    /\ UNCHANGED <<clientVars, newMint, mints, deployment, seedInfo, faultless, runs>>

SeedDeposit ==
    /\ At("seed", "depositStake")
    /\ Try(DepositStakeTx, "allocateStake", 0)

\* The only validator, of index 0, allocates to the services 0 and 1.
SeedAllocation ==
    /\ At("seed", "allocateStake")
    /\ IF item = 0 THEN Try(AllocateStakeTx(0), "allocateStake", 1)
                   ELSE Try(AllocateStakeTx(1), "finish", 0)

SeedFinish ==
    /\ At("seed", "finish")
    /\ seedInfo' = TRUE
    /\ Exit
    /\ UNCHANGED <<chain, inFlight, clientVars, newMint, mints, deployment, faultless, runs>>

Killed ==
    /\ script # "none"
    /\ Exit
    /\ UNCHANGED <<chain, inFlight, clientVars, newMint, mints, deployment, seedInfo,
                   faultless, runs>>

Next ==
    \/ StartDeploy \/ CreateMint \/ DeployInitialize \/ SaveDeployment
    \/ StartSeed \/ SeedService \/ SeedTokenAccount \/ SeedMint \/ SeedDeposit
    \/ SeedAllocation \/ SeedFinish
    \/ Killed
    \/ \E tx \in ClientTxs : ClientCall(tx) /\ UNCHANGED scriptVars
    \/ \E tx \in inFlight : LandsLate(tx) /\ UNCHANGED scriptVars
    \/ \E tx \in inFlight : Expires(tx) /\ UNCHANGED scriptVars
    \/ CooldownEnds /\ UNCHANGED scriptVars

Spec == Init /\ [][Next]_vars

-----------------------------------------------------------------------------
(***************************************************************************)
(* The files tell the truth, however many runs were killed, gave up on a   *)
(* transaction that landed later, or found the work done.  deployment.json *)
(* names the mint of the network, which seed-devnet.ts mints and deposits. *)
(* The services get the ids the script writes to seed-info.json, although  *)
(* it goes on after a registration that failed and registers by a fixed    *)
(* index: service i is the i-th of the list or does not exist.             *)
(***************************************************************************)
FilesAgree ==
    /\ deployment # NoMint => deployment = mint
    /\ names = SubSeq(Names, 1, Len(names))

(***************************************************************************)
(* A seed run that comes to its end without giving up on a call leaves     *)
(* every service registered, whatever earlier runs left behind or left in  *)
(* flight: running the script again repairs a run that failed halfway.     *)
(***************************************************************************)
FaultlessRunRegistersAll ==
    [][SeedFinish /\ faultless => Len(names) = Len(Names)]_vars

(***************************************************************************)
(* The tokens minted are with the wallet or staked, what is to be          *)
(* withdrawn is what the open tickets say, and is staked; late and         *)
(* repeated deposits, requests and completions included.  A ticket id is   *)
(* paid out once, however often its request and its completion are         *)
(* repeated after an error, as long as the caller takes no id twice        *)
(* (client.ts:444) and lets a request it gave up on expire before it       *)
(* claims.                                                                 *)
(***************************************************************************)
TokensAccounted ==
    /\ tokens.balance + stake = minted
    /\ pending = SumFunction(ticket)
    /\ pending <= stake
    /\ \A t \in TicketIds : paid[t] <= 1

(***************************************************************************)
(* Running the seed script again, deposits that land late and allocations  *)
(* made meanwhile never take the allocations above the degree cap on all   *)
(* that was ever deposited, although a deposit after a withdrawal to       *)
(* nothing resets the total the program checks and leaves the allocations  *)
(* (deposit_stake.rs:102): what that total no longer counts is within the  *)
(* cap on what was paid out.  Each allocation is to a service that exists. *)
(***************************************************************************)
AllocationsBacked ==
    /\ Allocated <= totalAllocated + SumFunction(paid) * MaxDegree
    /\ Allocated <= (stake + SumFunction(paid)) * MaxDegree
    /\ \A s \in ServiceIds : allocation[s] > 0 => s < Len(names)

=============================================================================
