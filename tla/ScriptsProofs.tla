---------------------------- MODULE ScriptsProofs ----------------------------
(***************************************************************************)
(* The deployment scripts and the staking methods of the client, for every *)
(* list of services, every set of ticket ids and any number of calls, runs *)
(* and transactions given up: the files agree with the network, tokens are *)
(* accounted for and every allocation is backed.                           *)
(*                                                                         *)
(* That a call is refused only when its instruction cannot execute is not  *)
(* used: a refusal changes nothing, whatever its reason.                   *)
(***************************************************************************)
EXTENDS Scripts, SumTheorems

-----------------------------------------------------------------------------
\* The accounts

\* The validator and the registry, as far as the handlers keep them.
Accounts ==
    /\ mint \in Nat
    /\ Len(names) \in Nat /\ Len(names) <= Len(Names)
    /\ names = SubSeq(Names, 1, Len(names))
    /\ tokens \in [exists : BOOLEAN, balance : Nat]
    /\ minted \in Nat /\ stake \in Nat /\ pending \in Nat /\ totalAllocated \in Nat
    /\ allocation \in [ServiceIds -> Nat]
    /\ ticket \in [TicketIds -> Nat]
    /\ paid \in [TicketIds -> Nat]

\* A ticket id that was paid has no ticket any more, and a ticket is for one unit.
TicketsOnce == \A t \in TicketIds : paid[t] + ticket[t] <= 1

\* The sums.
Accounting ==
    /\ tokens.balance + stake = minted
    /\ pending = SumFunction(ticket)
    /\ pending <= stake

ChainInv == Accounts /\ TicketsOnce /\ Accounting /\ AllocationsBacked

LEMMA ServicesFinite ==
    /\ Len(Names) \in Nat
    /\ IsFiniteSet(ServiceIds)
    /\ \A s \in ServiceIds : s \in Nat /\ s < Len(Names)
<1>1. Len(Names) \in Nat
  BY ScriptsAssumption
<1>2. IsFiniteSet(ServiceIds)
  BY <1>1, FS_Interval DEF ServiceIds
<1>3. QED
  BY <1>1, <1>2 DEF ServiceIds

\* Writing one entry of a table of amounts.
LEMMA EntryWritten ==
    ASSUME NEW D, IsFiniteSet(D), NEW f \in [D -> Nat], NEW g \in [D -> Nat], NEW e \in D,
           \A x \in D \ {e} : g[x] = f[x]
    PROVE  SumFunction(f) \in Nat /\ SumFunction(g) = SumFunction(f) + g[e] - f[e]
<1>1. f \in [D -> Int] /\ g \in [D -> Int]
  OBVIOUS
<1>2. /\ SumFunction(f) \in Int /\ SumFunction(g) \in Int
      /\ SumFunction(g) - g[e] = SumFunction(f) - f[e]
  BY <1>1, TotalUpdate
<1>3. SumFunction(f) \in Nat
  BY TotalNat
<1>4. g[e] \in Nat /\ f[e] \in Nat
  OBVIOUS
<1>5. QED
  BY <1>2, <1>3, <1>4

\* More stake, or more paid out, allows no less to be allocated.
LEMMA DegreeMonotone ==
    ASSUME NEW a \in Nat, NEW b \in Nat, a <= b
    PROVE  a * MaxDegree <= b * MaxDegree
<1>1. PICK d \in Nat : b = a + d
  <2>1. b - a \in Nat /\ b = a + (b - a)
    OBVIOUS
  <2>2. QED
    BY <2>1
<1>2. MaxDegree \in Nat
  BY StakerAssumption
<1>3. (a + d) * MaxDegree = a * MaxDegree + d * MaxDegree
  BY <1>2
<1>4. a * MaxDegree \in Nat /\ d * MaxDegree \in Nat
  BY <1>2
<1>5. QED
  BY <1>1, <1>3, <1>4

\* What the invariant says of the accounts, in the form the steps below use.
LEMMA AccountFacts ==
    ASSUME ChainInv
    PROVE  /\ tokens.balance \in Nat /\ minted \in Nat /\ stake \in Nat /\ pending \in Nat
           /\ tokens.balance + stake = minted
           /\ pending = SumFunction(ticket) /\ pending <= stake
           /\ SumFunction(paid) \in Nat /\ Allocated \in Nat /\ totalAllocated \in Nat
           /\ Allocated <= (stake + SumFunction(paid)) * MaxDegree
           /\ Allocated <= totalAllocated + SumFunction(paid) * MaxDegree
           /\ Len(names) \in Nat /\ Len(names) <= Len(Names)
<1>1. allocation \in [ServiceIds -> Nat] /\ paid \in [TicketIds -> Nat]
  BY DEF ChainInv, Accounts
<1>2. SumFunction(paid) \in Nat /\ SumFunction(allocation) \in Nat
  BY <1>1, ServicesFinite, StakerAssumption, TotalNat
<1>3. QED
  BY <1>2 DEF ChainInv, Accounts, Accounting, AllocationsBacked, Allocated

LEMMA InitializeKeeps ==
    ASSUME ChainInv, NEW m \in Nat, InitializeNetwork(m)
    PROVE  ChainInv'
BY DEF InitializeNetwork, validatorVars, ChainInv, Accounts, TicketsOnce, Accounting,
       AllocationsBacked, Allocated

\* Service i is the i-th of the list.
LEMMA RegisterKeeps ==
    ASSUME ChainInv, NEW s \in ServiceIds, RegisterService(s)
    PROVE  ChainInv'
<1> DEFINE n == Len(names)
<1>1. /\ n \in Nat /\ n < Len(Names) /\ s = n
      /\ names = SubSeq(Names, 1, n)
      /\ names' = Append(names, Names[n + 1])
  BY ServicesFinite DEF RegisterService, AtTheCount, ChainInv, Accounts
<1>2. Names \in Seq(Range(Names)) /\ Len(Names) \in Nat
  BY ScriptsAssumption
<1> HIDE DEF n
<1>3. Append(SubSeq(Names, 1, n), Names[n + 1]) = SubSeq(Names, 1, n + 1)
  BY <1>1, <1>2
<1>4. names' = SubSeq(Names, 1, n + 1)
  BY <1>1, <1>3
<1>5. Len(SubSeq(Names, 1, n + 1)) = n + 1
  BY <1>1, <1>2
<1>6. Len(names') = n + 1
  BY <1>4, <1>5
<1>7. UNCHANGED <<mint, tokens, minted, stake, pending, totalAllocated, allocation, ticket,
                  paid>>
  BY DEF RegisterService, validatorVars
<1>8. Accounts'
  BY <1>1, <1>2, <1>4, <1>6, <1>7 DEF ChainInv, Accounts
<1>9. TicketsOnce' /\ Accounting'
  BY <1>7 DEF ChainInv, TicketsOnce, Accounting
<1>10. Allocated' = Allocated /\ \A t \in ServiceIds : allocation'[t] > 0 => t < n
  BY <1>7 DEF ChainInv, AllocationsBacked, Allocated, n
<1>11. AllocationsBacked'
  BY <1>1, <1>6, <1>7, <1>10, ServicesFinite DEF ChainInv, AllocationsBacked, Allocated
<1>12. QED
  BY <1>8, <1>9, <1>11 DEF ChainInv

LEMMA TokensKeep ==
    ASSUME ChainInv, CreateTokenAccount \/ MintTo
    PROVE  ChainInv'
<1>1. UNCHANGED <<mint, names, stake, pending, totalAllocated, allocation, ticket, paid>>
  BY DEF CreateTokenAccount, MintTo, validatorVars
<1>2. /\ tokens' \in [exists : BOOLEAN, balance : Nat] /\ minted' \in Nat
      /\ tokens'.balance + stake = minted'
  <2>1. tokens \in [exists : BOOLEAN, balance : Nat] /\ minted \in Nat /\ stake \in Nat
    BY DEF ChainInv, Accounts
  <2>2. tokens.balance + stake = minted
    BY DEF ChainInv, Accounting
  <2>3. CASE CreateTokenAccount
    BY <2>1, <2>2, <2>3 DEF CreateTokenAccount
  <2>4. CASE MintTo
    BY <2>1, <2>2, <2>4 DEF MintTo
  <2>5. QED
    BY <2>3, <2>4
<1>3. Accounts' /\ TicketsOnce' /\ Accounting'
  BY <1>1, <1>2 DEF ChainInv, Accounts, TicketsOnce, Accounting
<1>4. AllocationsBacked'
  BY <1>1 DEF ChainInv, AllocationsBacked, Allocated
<1>5. QED
  BY <1>3, <1>4 DEF ChainInv

LEMMA DepositKeeps ==
    ASSUME ChainInv, DepositStake
    PROVE  ChainInv'
<1>1. /\ UNCHANGED <<mint, names, minted, allocation, ticket, paid>>
      /\ tokens.balance > 0 /\ tokens' = [tokens EXCEPT !.balance = @ - 1]
      /\ stake' = stake + 1
      /\ totalAllocated' \in Nat
      /\ totalAllocated' = totalAllocated \/ (stake = 0 /\ totalAllocated' = 0)
      /\ pending' = pending
  BY DEF DepositStake, ResetOnFirst, ChainInv, Accounts, Accounting
<1>2. /\ tokens' \in [exists : BOOLEAN, balance : Nat] /\ stake' \in Nat
      /\ tokens'.balance + stake' = minted /\ pending <= stake'
  <2>1. tokens \in [exists : BOOLEAN, balance : Nat] /\ minted \in Nat /\ stake \in Nat
        /\ pending \in Nat
    BY DEF ChainInv, Accounts
  <2>2. tokens.balance + stake = minted /\ pending <= stake
    BY DEF ChainInv, Accounting
  <2>3. QED
    BY <1>1, <2>1, <2>2
<1>3. Accounts' /\ TicketsOnce' /\ Accounting'
  BY <1>1, <1>2 DEF ChainInv, Accounts, TicketsOnce, Accounting
<1>4. AllocationsBacked'
  <2>1. /\ stake \in Nat /\ SumFunction(paid) \in Nat /\ Allocated \in Nat
        /\ totalAllocated \in Nat
        /\ Allocated <= (stake + SumFunction(paid)) * MaxDegree
        /\ Allocated <= totalAllocated + SumFunction(paid) * MaxDegree
    BY AccountFacts
  <2>2. PICK sum \in Nat : sum = SumFunction(paid)
    BY <2>1
  <2>3. (stake + sum) * MaxDegree <= (stake + 1 + sum) * MaxDegree
    BY <2>1, <2>2, DegreeMonotone
  <2>4. (stake + sum) * MaxDegree \in Nat /\ (stake + 1 + sum) * MaxDegree \in Nat
    BY <2>1, <2>2, StakerAssumption
  <2>5. Allocated <= (stake + 1 + sum) * MaxDegree
    BY <2>1, <2>2, <2>3, <2>4
  <2>6. Allocated' = Allocated /\ SumFunction(paid)' = sum /\ stake' = stake + 1
    BY <1>1, <2>2 DEF Allocated
  <2>7. Allocated' <= (stake' + SumFunction(paid)') * MaxDegree
    BY <2>5, <2>6
  <2>8. Allocated <= totalAllocated' + sum * MaxDegree
    <3>1. CASE totalAllocated' = totalAllocated
      BY <2>1, <2>2, <3>1
    <3>2. CASE stake = 0 /\ totalAllocated' = 0
      <4>1. stake + sum = sum
        BY <3>2
      <4>2. sum * MaxDegree \in Nat
        BY StakerAssumption
      <4>3. QED
        BY <2>1, <2>2, <3>2, <4>1, <4>2
    <3>3. QED
      BY <1>1, <3>1, <3>2
  <2>9. Allocated' <= totalAllocated' + SumFunction(paid)' * MaxDegree
    BY <2>6, <2>8
  <2>10. QED
    BY <1>1, <2>7, <2>9 DEF ChainInv, AllocationsBacked
<1>5. QED
  BY <1>3, <1>4 DEF ChainInv

LEMMA AllocateKeeps ==
    ASSUME ChainInv, NEW s \in ServiceIds, AllocateStake(s)
    PROVE  ChainInv'
<1>1. /\ UNCHANGED <<mint, names, tokens, minted, stake, pending, ticket, paid>>
      /\ s < Len(names)
      /\ totalAllocated + 1 <= (stake - 0) * MaxDegree
      /\ totalAllocated' = totalAllocated + 1
      /\ allocation' = [allocation EXCEPT ![s] = allocation[s] + 1]
  BY DEF AllocateStake, WithinDegree
<1>2. allocation \in [ServiceIds -> Nat] /\ allocation[s] \in Nat
  BY DEF ChainInv, Accounts
<1>3. PICK n \in Nat : n = allocation[s] + 1
  BY <1>2
<1>4. /\ allocation' \in [ServiceIds -> Nat]
      /\ Allocated' = Allocated + 1 /\ Allocated \in Nat
  <2>1. allocation' \in [ServiceIds -> Nat] /\ allocation'[s] = n
    BY <1>1, <1>2, <1>3
  <2>2. PICK f \in [ServiceIds -> Nat], g \in [ServiceIds -> Nat] :
           f = allocation /\ g = allocation'
    BY <1>2, <2>1
  <2>3. \A x \in ServiceIds \ {s} : g[x] = f[x]
    BY <1>1, <2>2
  <2>4. SumFunction(f) \in Nat /\ SumFunction(g) = SumFunction(f) + g[s] - f[s]
    BY <2>3, ServicesFinite, EntryWritten
  <2>5. Allocated = SumFunction(f) /\ Allocated' = SumFunction(g)
    BY <2>2 DEF Allocated
  <2>6. QED
    BY <1>2, <1>3, <2>1, <2>2, <2>4, <2>5
<1>5. Accounts' /\ TicketsOnce' /\ Accounting'
  BY <1>1, <1>4 DEF ChainInv, Accounts, TicketsOnce, Accounting
<1>6. /\ Allocated' <= (stake + SumFunction(paid)) * MaxDegree
      /\ Allocated' <= totalAllocated' + SumFunction(paid) * MaxDegree
  <2>1. /\ stake \in Nat /\ SumFunction(paid) \in Nat /\ totalAllocated \in Nat
        /\ Allocated <= totalAllocated + SumFunction(paid) * MaxDegree
    BY AccountFacts
  <2>2. PICK sum \in Nat : sum = SumFunction(paid)
    BY <2>1
  <2>3. (stake + sum) * MaxDegree = stake * MaxDegree + sum * MaxDegree
    BY <2>1, StakerAssumption
  <2>4. stake * MaxDegree \in Nat /\ sum * MaxDegree \in Nat
    BY <2>1, StakerAssumption
  <2>5. stake - 0 = stake
    BY <2>1
  <2>6. totalAllocated + 1 <= stake * MaxDegree
    BY <1>1, <2>5
  <2>7. QED
    BY <1>1, <1>4, <2>1, <2>2, <2>3, <2>4, <2>6
<1>7. \A t \in ServiceIds : allocation'[t] > 0 => t < Len(names)
  BY <1>1, <1>2 DEF ChainInv, AllocationsBacked
<1>8. AllocationsBacked'
  BY <1>1, <1>6, <1>7 DEF AllocationsBacked
<1>9. QED
  BY <1>5, <1>8 DEF ChainInv

LEMMA DeallocateKeeps ==
    ASSUME ChainInv, NEW s \in ServiceIds, DeallocateStake(s)
    PROVE  ChainInv'
<1>1. /\ UNCHANGED <<mint, names, tokens, minted, stake, pending, ticket, paid>>
      /\ allocation[s] > 0
      /\ totalAllocated > 0 /\ totalAllocated' = totalAllocated - 1
      /\ allocation' = [allocation EXCEPT ![s] = allocation[s] - 1]
  BY DEF DeallocateStake
<1>2. allocation \in [ServiceIds -> Nat] /\ allocation[s] \in Nat
  BY DEF ChainInv, Accounts
<1>3. PICK n \in Nat : n = allocation[s] - 1
  BY <1>1, <1>2
<1>4. /\ allocation' \in [ServiceIds -> Nat]
      /\ Allocated' = Allocated - 1 /\ Allocated \in Nat
  <2>1. allocation' \in [ServiceIds -> Nat] /\ allocation'[s] = n
    BY <1>1, <1>2, <1>3
  <2>2. PICK f \in [ServiceIds -> Nat], g \in [ServiceIds -> Nat] :
           f = allocation /\ g = allocation'
    BY <1>2, <2>1
  <2>3. \A x \in ServiceIds \ {s} : g[x] = f[x]
    BY <1>1, <2>2
  <2>4. SumFunction(f) \in Nat /\ SumFunction(g) = SumFunction(f) + g[s] - f[s]
    BY <2>3, ServicesFinite, EntryWritten
  <2>5. Allocated = SumFunction(f) /\ Allocated' = SumFunction(g)
    BY <2>2 DEF Allocated
  <2>6. QED
    BY <1>2, <1>3, <2>1, <2>2, <2>4, <2>5
<1>5. Accounts' /\ TicketsOnce' /\ Accounting'
  BY <1>1, <1>4 DEF ChainInv, Accounts, TicketsOnce, Accounting
<1>6. /\ Allocated' <= (stake + SumFunction(paid)) * MaxDegree
      /\ Allocated' <= totalAllocated' + SumFunction(paid) * MaxDegree
  <2>1. /\ stake \in Nat /\ SumFunction(paid) \in Nat /\ totalAllocated \in Nat
        /\ Allocated <= (stake + SumFunction(paid)) * MaxDegree
        /\ Allocated <= totalAllocated + SumFunction(paid) * MaxDegree
    BY AccountFacts
  <2>2. /\ (stake + SumFunction(paid)) * MaxDegree \in Nat
        /\ SumFunction(paid) * MaxDegree \in Nat
    BY <2>1, StakerAssumption
  <2>3. QED
    BY <1>1, <1>4, <2>1, <2>2
<1>7. \A t \in ServiceIds : allocation'[t] > 0 => t < Len(names)
  BY <1>1, <1>2 DEF ChainInv, AllocationsBacked
<1>8. AllocationsBacked'
  BY <1>1, <1>6, <1>7 DEF AllocationsBacked
<1>9. QED
  BY <1>5, <1>8 DEF ChainInv

\* A ticket is requested under an id that was never paid.
LEMMA RequestKeeps ==
    ASSUME ChainInv, NEW t \in TicketIds, paid[t] = 0, RequestWithdrawal(t)
    PROVE  ChainInv'
<1>1. /\ UNCHANGED <<mint, names, tokens, minted, stake, totalAllocated, allocation, paid>>
      /\ ticket[t] = 0 /\ pending + 1 <= stake
      /\ ticket' = [ticket EXCEPT ![t] = 1] /\ pending' = pending + 1
  BY DEF RequestWithdrawal, TicketFree
<1>2. ticket \in [TicketIds -> Nat] /\ pending \in Nat /\ pending = SumFunction(ticket)
  BY DEF ChainInv, Accounts, Accounting
<1>3. ticket' \in [TicketIds -> Nat] /\ pending' = SumFunction(ticket')
  <2>1. ticket' \in [TicketIds -> Nat] /\ ticket'[t] = 1 /\ ticket[t] = 0
    BY <1>1, <1>2
  <2>2. PICK f \in [TicketIds -> Nat], g \in [TicketIds -> Nat] : f = ticket /\ g = ticket'
    BY <1>1, <1>2, <2>1
  <2>3. \A x \in TicketIds \ {t} : g[x] = f[x]
    BY <1>1, <1>2, <2>2
  <2>4. SumFunction(f) \in Nat /\ SumFunction(g) = SumFunction(f) + g[t] - f[t]
    BY <2>3, StakerAssumption, EntryWritten
  <2>5. QED
    BY <1>1, <1>2, <2>1, <2>2, <2>4
<1>4. Accounts' /\ Accounting'
  BY <1>1, <1>2, <1>3 DEF ChainInv, Accounts, Accounting
<1>5. TicketsOnce'
  BY <1>1, <1>2 DEF ChainInv, TicketsOnce
<1>6. AllocationsBacked'
  BY <1>1 DEF ChainInv, AllocationsBacked, Allocated
<1>7. QED
  BY <1>4, <1>5, <1>6 DEF ChainInv

LEMMA CompleteKeeps ==
    ASSUME ChainInv, NEW t \in TicketIds, CompleteWithdrawal(t)
    PROVE  ChainInv' /\ paid' = [paid EXCEPT ![t] = 1]
<1>1. ticket \in [TicketIds -> Nat] /\ paid \in [TicketIds -> Nat] /\ ticket[t] > 0
      /\ paid[t] + ticket[t] <= 1
  BY DEF CompleteWithdrawal, ChainInv, Accounts, TicketsOnce
<1>2. ticket[t] = 1 /\ paid[t] = 0
  BY <1>1
<1>3. /\ UNCHANGED <<mint, names, minted, totalAllocated, allocation>>
      /\ tokens' = [tokens EXCEPT !.balance = @ + 1]
      /\ stake' = stake - 1 /\ pending' = pending - 1 /\ 1 <= pending
      /\ ticket' = [ticket EXCEPT ![t] = 0]
      /\ paid' = [paid EXCEPT ![t] = 1]
  BY <1>1, <1>2 DEF CompleteWithdrawal
<1>4. ticket' \in [TicketIds -> Nat] /\ SumFunction(ticket') = SumFunction(ticket) - 1
  <2>1. ticket' \in [TicketIds -> Nat] /\ ticket'[t] = 0 /\ ticket[t] = 1
    BY <1>1, <1>2, <1>3
  <2>2. PICK f \in [TicketIds -> Nat], g \in [TicketIds -> Nat] : f = ticket /\ g = ticket'
    BY <1>1, <1>2, <1>3, <2>1
  <2>3. \A x \in TicketIds \ {t} : g[x] = f[x]
    BY <1>1, <1>2, <1>3, <2>2
  <2>4. SumFunction(f) \in Nat /\ SumFunction(g) = SumFunction(f) + g[t] - f[t]
    BY <2>3, StakerAssumption, EntryWritten
  <2>5. QED
    BY <1>1, <1>2, <1>3, <2>1, <2>2, <2>4
<1>5. /\ paid' \in [TicketIds -> Nat] /\ SumFunction(paid') = SumFunction(paid) + 1
      /\ SumFunction(paid) \in Nat
  <2>1. paid' \in [TicketIds -> Nat] /\ paid'[t] = 1 /\ paid[t] = 0
    BY <1>1, <1>2, <1>3
  <2>2. PICK f \in [TicketIds -> Nat], g \in [TicketIds -> Nat] : f = paid /\ g = paid'
    BY <1>1, <1>2, <1>3, <2>1
  <2>3. \A x \in TicketIds \ {t} : g[x] = f[x]
    BY <1>1, <1>2, <1>3, <2>2
  <2>4. SumFunction(f) \in Nat /\ SumFunction(g) = SumFunction(f) + g[t] - f[t]
    BY <2>3, StakerAssumption, EntryWritten
  <2>5. QED
    BY <1>1, <1>2, <1>3, <2>1, <2>2, <2>4
<1>6. /\ tokens' \in [exists : BOOLEAN, balance : Nat] /\ stake' \in Nat /\ pending' \in Nat
      /\ tokens'.balance + stake' = minted /\ pending' <= stake'
      /\ pending' = SumFunction(ticket) - 1
  <2>1. tokens \in [exists : BOOLEAN, balance : Nat] /\ minted \in Nat /\ stake \in Nat
        /\ pending \in Nat
    BY DEF ChainInv, Accounts
  <2>2. tokens.balance + stake = minted /\ pending <= stake /\ pending = SumFunction(ticket)
    BY DEF ChainInv, Accounting
  <2>3. QED
    BY <1>3, <2>1, <2>2
<1>7. Accounts' /\ Accounting'
  BY <1>3, <1>4, <1>5, <1>6 DEF ChainInv, Accounts, Accounting
<1>8. TicketsOnce'
  BY <1>1, <1>3 DEF ChainInv, TicketsOnce
<1>9. AllocationsBacked'
  <2>1. /\ stake \in Nat /\ Allocated \in Nat /\ totalAllocated \in Nat
        /\ Allocated <= (stake + SumFunction(paid)) * MaxDegree
        /\ Allocated <= totalAllocated + SumFunction(paid) * MaxDegree
    BY AccountFacts
  <2>2. stake' + SumFunction(paid') = stake + SumFunction(paid)
    BY <1>3, <1>5, <2>1
  <2>3. Allocated' = Allocated
    BY <1>3 DEF Allocated
  <2>4. Allocated' <= (stake' + SumFunction(paid')) * MaxDegree
    BY <2>1, <2>2, <2>3
  <2>5. PICK sum \in Nat : sum = SumFunction(paid)
    BY <1>5
  <2>6. (sum + 1) * MaxDegree = sum * MaxDegree + MaxDegree /\ sum * MaxDegree \in Nat
    BY StakerAssumption
  <2>7. Allocated' <= totalAllocated' + SumFunction(paid') * MaxDegree
    BY <1>3, <1>5, <2>1, <2>3, <2>5, <2>6, StakerAssumption
  <2>8. QED
    BY <1>3, <2>4, <2>7 DEF ChainInv, AllocationsBacked
<1>10. QED
  BY <1>3, <1>7, <1>8, <1>9 DEF ChainInv

-----------------------------------------------------------------------------
\* The transactions

\* What the instructions are called with.
WellFormed(instruction, argument) ==
    /\ instruction = "initializeNetwork" => argument \in Nat \ {0}
    /\ instruction \in {"registerService", "allocateStake", "deallocateStake"} =>
          argument \in ServiceIds
    /\ instruction \in {"requestWithdrawal", "completeWithdrawal"} => argument \in TicketIds

(***************************************************************************)
(* A ticket id is claimed before it is paid; while a completion may land   *)
(* its id is claimed, and while a request may land it is not: that is what *)
(* keeps an id from being paid a second time.                              *)
(***************************************************************************)
Delivery ==
    /\ \A tx \in inFlight :
          /\ WellFormed(tx.instruction, tx.argument)
          /\ tx.instruction = "completeWithdrawal" => tx.argument \in claimed
          /\ tx.instruction = "requestWithdrawal" => tx.argument \notin claimed
    /\ \A t \in TicketIds : paid[t] > 0 => t \in claimed

LEMMA ExecutionKeeps ==
    ASSUME ChainInv, NEW tx, Executes(tx), WellFormed(tx.instruction, tx.argument),
           tx.instruction = "requestWithdrawal" => paid[tx.argument] = 0
    PROVE  /\ ChainInv'
           /\ mint # NoMint => mint' = mint
           /\ tx.instruction = "initializeNetwork" => mint' = tx.argument
           /\ tx.instruction # "completeWithdrawal" => paid' = paid
           /\ tx.instruction = "completeWithdrawal" => paid' = [paid EXCEPT ![tx.argument] = 1]
<1> DEFINE i == tx.instruction
           a == tx.argument
           Goal == /\ ChainInv'
                   /\ mint # NoMint => mint' = mint
                   /\ i = "initializeNetwork" => mint' = a
                   /\ i # "completeWithdrawal" => paid' = paid
                   /\ i = "completeWithdrawal" => paid' = [paid EXCEPT ![a] = 1]
<1>1. ASSUME i = "initializeNetwork", InitializeNetwork(a)
      PROVE  Goal
  <2>1. a \in Nat
    BY <1>1 DEF WellFormed
  <2>2. mint = NoMint /\ mint' = a /\ paid' = paid
    BY <1>1 DEF InitializeNetwork
  <2>3. QED
    BY <1>1, <2>1, <2>2, InitializeKeeps
<1>2. ASSUME i = "registerService", RegisterService(a)
      PROVE  Goal
  <2>1. a \in ServiceIds
    BY <1>2 DEF WellFormed
  <2>2. mint' = mint /\ paid' = paid
    BY <1>2 DEF RegisterService
  <2>3. QED
    BY <1>2, <2>1, <2>2, RegisterKeeps
<1>3. ASSUME i \in {"createTokenAccount", "mintTo"}, CreateTokenAccount \/ MintTo
      PROVE  Goal
  <2>1. mint' = mint /\ paid' = paid
    BY <1>3 DEF CreateTokenAccount, MintTo
  <2>2. QED
    BY <1>3, <2>1, TokensKeep
<1>4. ASSUME i = "depositStake", DepositStake
      PROVE  Goal
  <2>1. mint' = mint /\ paid' = paid
    BY <1>4 DEF DepositStake
  <2>2. QED
    BY <1>4, <2>1, DepositKeeps
<1>5. ASSUME i = "allocateStake", AllocateStake(a)
      PROVE  Goal
  <2>1. a \in ServiceIds
    BY <1>5 DEF WellFormed
  <2>2. mint' = mint /\ paid' = paid
    BY <1>5 DEF AllocateStake
  <2>3. QED
    BY <1>5, <2>1, <2>2, AllocateKeeps
<1>6. ASSUME i = "deallocateStake", DeallocateStake(a)
      PROVE  Goal
  <2>1. a \in ServiceIds
    BY <1>6 DEF WellFormed
  <2>2. mint' = mint /\ paid' = paid
    BY <1>6 DEF DeallocateStake
  <2>3. QED
    BY <1>6, <2>1, <2>2, DeallocateKeeps
<1>7. ASSUME i = "requestWithdrawal", RequestWithdrawal(a)
      PROVE  Goal
  <2>1. a \in TicketIds /\ paid[a] = 0
    BY <1>7 DEF WellFormed
  <2>2. mint' = mint /\ paid' = paid
    BY <1>7 DEF RequestWithdrawal
  <2>3. QED
    BY <1>7, <2>1, <2>2, RequestKeeps
<1>8. ASSUME i = "completeWithdrawal", CompleteWithdrawal(a)
      PROVE  Goal
  <2>1. a \in TicketIds
    BY <1>8 DEF WellFormed
  <2>2. mint' = mint
    BY <1>8 DEF CompleteWithdrawal
  <2>3. QED
    BY <1>8, <2>1, <2>2, CompleteKeeps
<1>9. QED
  BY <1>1, <1>2, <1>3, <1>4, <1>5, <1>6, <1>7, <1>8 DEF Executes

\* What can become of a call: it executes once, or nothing happens on chain and
\* at most the transaction itself is left in flight.
LEMMA CallOutcome ==
    ASSUME NEW i, NEW a, Confirmed(Tx(i, a)) \/ Throws(Tx(i, a))
    PROVE  \/ Executes(Tx(i, a)) /\ inFlight' = inFlight
           \/ UNCHANGED <<chain, inFlight>>
           \/ /\ UNCHANGED chain
              /\ \E tx : /\ tx.instruction = i /\ tx.argument = a
                         /\ inFlight' = inFlight \cup {tx}
<1>1. CASE Confirmed(Tx(i, a))
  BY <1>1 DEF Confirmed
<1>2. CASE Refused(Tx(i, a))
  <2>1. UNCHANGED <<chain, inFlight>>
    BY <1>2 DEF Refused
  <2>2. QED
    BY <2>1
<1>3. CASE GivenUp(Tx(i, a))
  <2>1. PICK h : inFlight' = inFlight \cup {[Tx(i, a) EXCEPT !.blockhash = h]} /\ UNCHANGED chain
    BY <1>3, Zenon DEF GivenUp
  <2> DEFINE tx == [Tx(i, a) EXCEPT !.blockhash = h]
  <2>2. tx.instruction = i /\ tx.argument = a
    BY DEF Tx
  <2>3. QED
    BY <2>1, <2>2, Zenon
<1>4. QED
  BY <1>1, <1>2, <1>3 DEF Throws

LEMMA ChainFrame ==
    ASSUME ChainInv, UNCHANGED chain
    PROVE  ChainInv' /\ mint' = mint /\ paid' = paid
BY DEF chain, validatorVars, ChainInv, Accounts, TicketsOnce, Accounting, AllocationsBacked,
       Allocated

LEMMA CallKeeps ==
    ASSUME ChainInv, Delivery, NEW i, NEW a, WellFormed(i, a),
           Confirmed(Tx(i, a)) \/ Throws(Tx(i, a)),
           claimed \subseteq claimed',
           i = "completeWithdrawal" => a \in claimed',
           i = "requestWithdrawal" => a \notin claimed',
           \A tx \in inFlight : tx.instruction = "requestWithdrawal" => tx.argument \notin claimed'
    PROVE  ChainInv' /\ Delivery' /\ (mint # NoMint => mint' = mint)
<1>1. paid \in [TicketIds -> Nat]
  BY DEF ChainInv, Accounts
<1>2. CASE Executes(Tx(i, a)) /\ inFlight' = inFlight
  <2>1. Tx(i, a).instruction = i /\ Tx(i, a).argument = a
    BY DEF Tx
  <2>2. i = "requestWithdrawal" => paid[a] = 0
    BY <1>1 DEF WellFormed, Delivery
  <2>3. /\ ChainInv' /\ (mint # NoMint => mint' = mint)
        /\ i # "completeWithdrawal" => paid' = paid
        /\ i = "completeWithdrawal" => paid' = [paid EXCEPT ![a] = 1]
    BY <1>2, <2>1, <2>2, ExecutionKeeps
  <2>4. \A t \in TicketIds : paid'[t] > 0 => t \in claimed'
    BY <1>1, <2>3 DEF Delivery
  <2>5. QED
    BY <1>2, <2>3, <2>4 DEF Delivery
<1>3. CASE UNCHANGED <<chain, inFlight>>
  BY <1>3, ChainFrame DEF Delivery
<1>4. CASE /\ UNCHANGED chain
           /\ \E tx : /\ tx.instruction = i /\ tx.argument = a
                      /\ inFlight' = inFlight \cup {tx}
  BY <1>4, ChainFrame DEF Delivery
<1>5. QED
  BY <1>2, <1>3, <1>4, CallOutcome

-----------------------------------------------------------------------------
\* The scripts

\* Past its initializeNetwork, a deployment knows the mint of the network; the
\* file was written there.
Deployment ==
    /\ mints \in Nat
    /\ At("deploy", "initializeNetwork") => newMint \in Nat \ {0}
    /\ At("deploy", "save") => newMint = mint /\ newMint # NoMint
    /\ deployment # NoMint => deployment = mint
    /\ At("seed", "registerService") => item \in ServiceIds

Inv == ChainInv /\ Delivery /\ Deployment

\* What the scripts' own calls ask of the invariants.
LEMMA ScriptCallKeeps ==
    ASSUME ChainInv, Delivery, NEW i, NEW a, WellFormed(i, a),
           i \notin {"completeWithdrawal", "requestWithdrawal"},
           Confirmed(Tx(i, a)) \/ Throws(Tx(i, a)), UNCHANGED clientVars
    PROVE  ChainInv' /\ Delivery' /\ (mint # NoMint => mint' = mint)
<1>1. claimed' = claimed
  BY DEF clientVars
<1>2. \A tx \in inFlight : tx.instruction = "requestWithdrawal" => tx.argument \notin claimed'
  BY <1>1 DEF Delivery
<1>3. QED
  BY <1>1, <1>2, CallKeeps

\* A step of the scripts that calls nobody.
LEMMA ScriptFrame ==
    ASSUME ChainInv, Delivery, UNCHANGED <<chain, inFlight, clientVars>>
    PROVE  ChainInv' /\ Delivery' /\ mint' = mint
BY ChainFrame DEF Delivery, clientVars

LEMMA DeployKeeps ==
    ASSUME Inv, StartDeploy \/ CreateMint \/ DeployInitialize \/ SaveDeployment
    PROVE  Inv'
<1>1. CASE StartDeploy
  <2>1. ChainInv' /\ Delivery' /\ mint' = mint
    BY <1>1, ScriptFrame DEF StartDeploy, Start, Inv
  <2>2. Deployment'
    BY <1>1, <2>1 DEF StartDeploy, Start, Inv, Deployment, At
  <2>3. QED
    BY <2>1, <2>2 DEF Inv
<1>2. CASE CreateMint
  <2>1. ChainInv' /\ Delivery' /\ mint' = mint
    BY <1>2, ScriptFrame DEF CreateMint, Inv
  <2>2. Deployment'
    BY <1>2, <2>1 DEF CreateMint, Inv, Deployment, At, Goto
  <2>3. QED
    BY <2>1, <2>2 DEF Inv
<1>3. CASE DeployInitialize
  <2>1. newMint \in Nat \ {0}
    BY <1>3 DEF DeployInitialize, Inv, Deployment
  <2>2. WellFormed("initializeNetwork", newMint)
    BY <2>1 DEF WellFormed
  <2>3. /\ Confirmed(Tx("initializeNetwork", newMint)) \/ Throws(Tx("initializeNetwork", newMint))
        /\ UNCHANGED clientVars
    BY <1>3 DEF DeployInitialize
  <2>4. ChainInv' /\ Delivery' /\ (mint # NoMint => mint' = mint)
    BY <2>2, <2>3, ScriptCallKeeps DEF Inv
  <2>5. At("deploy", "save")' => newMint' = mint' /\ newMint' # NoMint
    <3>1. CASE Confirmed(Tx("initializeNetwork", newMint))
      <4>1. mint' = newMint
        BY <3>1 DEF Confirmed, Executes, Tx, InitializeNetwork
      <4>2. newMint' = newMint
        BY <1>3 DEF DeployInitialize
      <4>3. QED
        BY <2>1, <4>1, <4>2 DEF NoMint
    <3>2. CASE AfterError
      BY <3>2 DEF AfterError, Exit, At
    <3>3. QED
      BY <1>3, <3>1, <3>2 DEF DeployInitialize
  <2>6. (At("deploy", "initializeNetwork") \/ At("seed", "registerService"))' => FALSE
    BY <1>3 DEF DeployInitialize, AfterError, Exit, Goto, At
  <2>7. UNCHANGED <<newMint, mints, deployment>>
    BY <1>3 DEF DeployInitialize
  <2>8. Deployment'
    BY <2>4, <2>5, <2>6, <2>7 DEF Inv, Deployment
  <2>9. QED
    BY <2>4, <2>8 DEF Inv
<1>4. CASE SaveDeployment
  <2>1. ChainInv' /\ Delivery' /\ mint' = mint
    BY <1>4, ScriptFrame DEF SaveDeployment, Inv
  <2>2. Deployment'
    BY <1>4, <2>1 DEF SaveDeployment, Inv, Deployment, At, Exit
  <2>3. QED
    BY <2>1, <2>2 DEF Inv
<1>5. QED
  BY <1>1, <1>2, <1>3, <1>4

\* A call of the seed script, by the step it goes on to.
LEMMA SeedCallKeeps ==
    ASSUME Inv, NEW i, NEW a, WellFormed(i, a),
           i \notin {"completeWithdrawal", "requestWithdrawal"},
           Confirmed(Tx(i, a)) \/ Throws(Tx(i, a)),
           UNCHANGED <<clientVars, newMint, mints, deployment>>,
           script' # "deploy", At("seed", "registerService")' => item' \in ServiceIds
    PROVE  Inv'
<1>1. ChainInv' /\ Delivery' /\ (mint # NoMint => mint' = mint)
  BY ScriptCallKeeps DEF Inv
<1>2. Deployment'
  BY <1>1 DEF Inv, Deployment, At
<1>3. QED
  BY <1>1, <1>2 DEF Inv

LEMMA SeedKeeps ==
    ASSUME Inv, \/ StartSeed \/ SeedService \/ SeedTokenAccount \/ SeedMint \/ SeedDeposit
                \/ SeedAllocation \/ SeedFinish \/ Killed
    PROVE  Inv'
<1>s. /\ Len(Names) \in Nat /\ Len(Names) >= 2
      /\ 0 \in ServiceIds /\ 1 \in ServiceIds
  BY ServicesFinite, ScriptsAssumption DEF ServiceIds
<1>1. CASE StartSeed
  <2>1. ChainInv' /\ Delivery' /\ mint' = mint
    BY <1>1, ScriptFrame DEF StartSeed, Start, Inv
  <2>2. Deployment'
    BY <1>1, <1>s, <2>1 DEF StartSeed, Start, Inv, Deployment, At
  <2>3. QED
    BY <2>1, <2>2 DEF Inv
<1>2. CASE SeedService
  <2>1. item \in ServiceIds
    BY <1>2 DEF SeedService, Inv, Deployment
  <2>2. WellFormed("registerService", item)
    BY <2>1 DEF WellFormed
  <2>3. /\ Confirmed(Tx("registerService", item)) \/ Throws(Tx("registerService", item))
        /\ UNCHANGED <<clientVars, newMint, mints, deployment>>
    BY <1>2 DEF SeedService, Try, Throws
  <2>4. script' # "deploy" /\ (At("seed", "registerService")' => item' \in ServiceIds)
    BY <1>2, <1>s, <2>1 DEF SeedService, NextService, Try, Goto, At, ServiceIds
  <2>5. QED
    BY <2>2, <2>3, <2>4, SeedCallKeeps
<1>3. CASE SeedTokenAccount
  <2>1. WellFormed("createTokenAccount", 0)
    BY DEF WellFormed
  <2>2. /\ Confirmed(Tx("createTokenAccount", 0)) \/ Throws(Tx("createTokenAccount", 0))
        /\ UNCHANGED <<clientVars, newMint, mints, deployment>>
        /\ script' # "deploy" /\ ~ At("seed", "registerService")'
    BY <1>3 DEF SeedTokenAccount, Try, Throws, Goto, At
  <2>3. QED
    BY <2>1, <2>2, SeedCallKeeps
<1>4. CASE SeedMint
  <2>1. WellFormed("mintTo", 0)
    BY DEF WellFormed
  <2>2. /\ Confirmed(Tx("mintTo", 0)) \/ Throws(Tx("mintTo", 0))
        /\ UNCHANGED <<clientVars, newMint, mints, deployment>>
        /\ script' # "deploy" /\ ~ At("seed", "registerService")'
    BY <1>4 DEF SeedMint, Exit, Goto, At
  <2>3. QED
    BY <2>1, <2>2, SeedCallKeeps
<1>5. CASE SeedDeposit
  <2>1. WellFormed("depositStake", 0)
    BY DEF WellFormed
  <2>2. /\ Confirmed(Tx("depositStake", 0)) \/ Throws(Tx("depositStake", 0))
        /\ UNCHANGED <<clientVars, newMint, mints, deployment>>
        /\ script' # "deploy" /\ ~ At("seed", "registerService")'
    BY <1>5 DEF SeedDeposit, DepositStakeTx, Try, Throws, Goto, At
  <2>3. QED
    BY <2>1, <2>2, SeedCallKeeps
<1>6. CASE SeedAllocation
  <2>1. PICK a \in {0, 1} :
        /\ Confirmed(Tx("allocateStake", a)) \/ Throws(Tx("allocateStake", a))
        /\ UNCHANGED <<clientVars, newMint, mints, deployment>>
        /\ script' # "deploy" /\ ~ At("seed", "registerService")'
    BY <1>6 DEF SeedAllocation, AllocateStakeTx, Try, Throws, Goto, At
  <2>2. WellFormed("allocateStake", a)
    BY <1>s DEF WellFormed
  <2>3. QED
    BY <2>1, <2>2, SeedCallKeeps
<1>7. CASE SeedFinish \/ Killed
  <2>1. /\ UNCHANGED <<chain, inFlight, clientVars, newMint, mints, deployment>>
        /\ script' = "none"
    BY <1>7 DEF SeedFinish, Killed, Exit
  <2>2. ChainInv' /\ Delivery' /\ mint' = mint
    BY <2>1, ScriptFrame DEF Inv
  <2>3. Deployment'
    BY <2>1, <2>2 DEF Inv, Deployment, At
  <2>4. QED
    BY <2>2, <2>3 DEF Inv
<1>8. QED
  BY <1>1, <1>2, <1>3, <1>4, <1>5, <1>6, <1>7

\* The wallet, the late transactions and the clock leave the scripts alone.
LEMMA DeploymentFrame ==
    ASSUME Deployment, UNCHANGED scriptVars, mint # NoMint => mint' = mint
    PROVE  Deployment'
BY DEF Deployment, scriptVars, At

LEMMA WalletKeeps ==
    ASSUME Inv, NEW tx \in ClientTxs, ClientCall(tx), UNCHANGED scriptVars
    PROVE  Inv'
<1>1. PICK i, a :
         /\ tx = Tx(i, a) /\ WellFormed(i, a)
         /\ i \in {"depositStake", "allocateStake", "deallocateStake", "requestWithdrawal",
                   "completeWithdrawal"}
         /\ i = "requestWithdrawal" => a \notin claimed
         /\ i = "completeWithdrawal" =>
               \A t \in inFlight : ~(t.instruction = "requestWithdrawal" /\ t.argument = a)
  <2>1. CASE tx = DepositStakeTx
    BY <2>1 DEF DepositStakeTx, WellFormed
  <2>2. ASSUME NEW s \in ServiceIds, tx = AllocateStakeTx(s) \/ tx = DeallocateStakeTx(s)
        PROVE  \E i \in {"allocateStake", "deallocateStake"} : tx = Tx(i, s) /\ WellFormed(i, s)
    BY <2>2 DEF AllocateStakeTx, DeallocateStakeTx, WellFormed
  <2>3. ASSUME NEW t \in Requestable, tx = RequestWithdrawalTx(t)
        PROVE  /\ tx = Tx("requestWithdrawal", t) /\ WellFormed("requestWithdrawal", t)
               /\ t \notin claimed
    BY <2>3 DEF RequestWithdrawalTx, WellFormed, Requestable
  <2>4. ASSUME NEW t \in Claimable, tx = CompleteWithdrawalTx(t)
        PROVE  /\ tx = Tx("completeWithdrawal", t) /\ WellFormed("completeWithdrawal", t)
               /\ \A u \in inFlight : ~(u.instruction = "requestWithdrawal" /\ u.argument = t)
    BY <2>4 DEF CompleteWithdrawalTx, WellFormed, Claimable
  <2>5. QED
    BY <2>1, <2>2, <2>3, <2>4 DEF ClientTxs
<1>2. Tx(i, a).instruction = i /\ Tx(i, a).argument = a
  BY DEF Tx
<1>3. /\ claimed' = IF i = "completeWithdrawal" THEN claimed \cup {a} ELSE claimed
      /\ Confirmed(Tx(i, a)) \/ Throws(Tx(i, a))
  BY <1>1, <1>2 DEF ClientCall
<1>4. \A t \in inFlight : t.instruction = "requestWithdrawal" => t.argument \notin claimed'
  BY <1>1, <1>3 DEF Inv, Delivery
<1>5. ChainInv' /\ Delivery' /\ (mint # NoMint => mint' = mint)
  BY <1>1, <1>3, <1>4, CallKeeps DEF Inv
<1>6. QED
  BY <1>5, DeploymentFrame DEF Inv

LEMMA NetworkKeeps ==
    ASSUME Inv, UNCHANGED scriptVars,
           (\E tx \in inFlight : LandsLate(tx) \/ Expires(tx)) \/ CooldownEnds
    PROVE  Inv'
<1>1. ASSUME NEW tx \in inFlight, LandsLate(tx)
      PROVE  Inv'
  <2>1. /\ Executes(tx) /\ inFlight' = inFlight \ {tx} /\ claimed' = claimed
    BY <1>1 DEF LandsLate, clientVars
  <2>2. /\ WellFormed(tx.instruction, tx.argument)
        /\ tx.instruction = "completeWithdrawal" => tx.argument \in claimed
        /\ tx.instruction = "requestWithdrawal" => tx.argument \notin claimed
        /\ \A t \in TicketIds : paid[t] > 0 => t \in claimed
    BY DEF Inv, Delivery
  <2>3. paid \in [TicketIds -> Nat]
    BY DEF Inv, ChainInv, Accounts
  <2>4. tx.instruction = "requestWithdrawal" => paid[tx.argument] = 0
    BY <2>2, <2>3 DEF WellFormed
  <2>5. /\ ChainInv' /\ (mint # NoMint => mint' = mint)
        /\ tx.instruction # "completeWithdrawal" => paid' = paid
        /\ tx.instruction = "completeWithdrawal" => paid' = [paid EXCEPT ![tx.argument] = 1]
    BY <2>1, <2>2, <2>4, ExecutionKeeps DEF Inv
  <2>6. \A t \in TicketIds : paid'[t] > 0 => t \in claimed'
    BY <2>1, <2>2, <2>3, <2>5
  <2>7. Delivery'
    BY <2>1, <2>6 DEF Inv, Delivery
  <2>8. QED
    BY <2>5, <2>7, DeploymentFrame DEF Inv
<1>2. ASSUME NEW tx \in inFlight, Expires(tx)
      PROVE  Inv'
  <2>1. UNCHANGED chain /\ inFlight' = inFlight \ {tx} /\ claimed' = claimed
    BY <1>2 DEF Expires, clientVars
  <2>2. ChainInv' /\ mint' = mint /\ paid' = paid
    BY <2>1, ChainFrame DEF Inv
  <2>3. Delivery'
    BY <2>1, <2>2 DEF Inv, Delivery
  <2>4. QED
    BY <2>2, <2>3, DeploymentFrame DEF Inv
<1>3. CASE CooldownEnds
  <2>1. UNCHANGED <<mint, names, tokens, minted, stake, pending, totalAllocated, allocation,
                    ticket, paid, inFlight, claimed>>
    BY <1>3 DEF CooldownEnds, clientVars
  <2>2. ChainInv'
    BY <2>1 DEF Inv, ChainInv, Accounts, TicketsOnce, Accounting, AllocationsBacked, Allocated
  <2>3. Delivery'
    BY <2>1 DEF Inv, Delivery
  <2>4. QED
    BY <2>1, <2>2, <2>3, DeploymentFrame DEF Inv
<1>4. QED
  BY <1>1, <1>2, <1>3

LEMMA InvStep ==
    ASSUME Inv, [Next]_vars
    PROVE  Inv'
<1>1. CASE UNCHANGED vars
  <2>1. UNCHANGED <<chain, inFlight, clientVars, scriptVars>>
    BY <1>1 DEF vars
  <2>2. ChainInv' /\ Delivery' /\ mint' = mint
    BY <2>1, ScriptFrame DEF Inv
  <2>3. QED
    BY <2>1, <2>2, DeploymentFrame DEF Inv
<1>2. QED
  BY <1>1, DeployKeeps, SeedKeeps, WalletKeeps, NetworkKeeps DEF Next

LEMMA InitInv == Init => Inv
<1> SUFFICES ASSUME Init PROVE Inv
  OBVIOUS
<1>1. /\ mint = 0 /\ names = <<>> /\ tokens = [exists |-> FALSE, balance |-> 0]
      /\ minted = 0 /\ stake = 0 /\ pending = 0 /\ totalAllocated = 0
      /\ allocation = [s \in ServiceIds |-> 0]
      /\ ticket = [t \in TicketIds |-> 0]
      /\ paid = [t \in TicketIds |-> 0]
      /\ inFlight = {}
  BY DEF Init, ClientInit, NoMint
<1>2. Accounts
  <2>1. names = SubSeq(Names, 1, 0) /\ Len(names) = 0
    BY <1>1, ScriptsAssumption
  <2>2. QED
    BY <1>1, <2>1, ServicesFinite DEF Accounts
<1>3. /\ SumFunction(ticket) = 0 /\ SumFunction(paid) = 0 /\ SumFunction(allocation) = 0
  <2> DEFINE noTicket == [t \in TicketIds |-> 0]
             noneHere == [s \in ServiceIds |-> 0]
  <2>1. /\ noTicket \in [TicketIds -> Int] /\ \A t \in TicketIds : noTicket[t] = 0
        /\ noneHere \in [ServiceIds -> Int] /\ \A s \in ServiceIds : noneHere[s] = 0
    OBVIOUS
  <2> HIDE DEF noTicket, noneHere
  <2>2. SumFunction(noTicket) = 0 /\ SumFunction(noneHere) = 0
    BY <2>1, ServicesFinite, StakerAssumption, TotalZero
  <2>3. QED
    BY <1>1, <2>2 DEF noTicket, noneHere
<1>4. TicketsOnce /\ Accounting
  BY <1>1, <1>3 DEF TicketsOnce, Accounting
<1>5. AllocationsBacked
  <2>1. (stake + SumFunction(paid)) * MaxDegree = 0 /\ SumFunction(paid) * MaxDegree = 0
    BY <1>1, <1>3, StakerAssumption
  <2>2. QED
    BY <1>1, <1>3, <2>1 DEF AllocationsBacked, Allocated
<1>6. Delivery
  BY <1>1 DEF Delivery
<1>7. Deployment
  BY DEF Init, Deployment, At
<1>8. QED
  BY <1>2, <1>4, <1>5, <1>6, <1>7 DEF Inv, ChainInv

LEMMA Invariance == Spec => []Inv
BY InitInv, InvStep, PTL DEF Spec

(***************************************************************************)
(* deployment.json names the mint of the network and the i-th service has  *)
(* the i-th name, for any number of runs of deploy.ts and seed-devnet.ts,  *)
(* killed, failed or overtaken by a transaction of an earlier one.         *)
(***************************************************************************)
THEOREM FilesTellTheTruth == Spec => []FilesAgree
<1>1. Inv => FilesAgree
  BY DEF Inv, Deployment, ChainInv, Accounts, FilesAgree
<1>2. QED
  BY <1>1, Invariance, PTL

(***************************************************************************)
(* client.ts: the tokens minted are in the wallet or staked, the pending   *)
(* withdrawals are those of the open tickets and are staked, and no ticket *)
(* id is paid twice, whatever is repeated after an error and lands late.   *)
(***************************************************************************)
THEOREM TokensNeverLost == Spec => []TokensAccounted
<1>1. Inv => TokensAccounted
  <2> SUFFICES ASSUME Inv PROVE TokensAccounted
    OBVIOUS
  <2>1. \A t \in TicketIds : paid[t] \in Nat /\ ticket[t] \in Nat /\ paid[t] + ticket[t] <= 1
    BY DEF Inv, ChainInv, Accounts, TicketsOnce
  <2>2. \A t \in TicketIds : paid[t] <= 1
    BY <2>1
  <2>3. QED
    BY <2>2 DEF Inv, ChainInv, Accounting, TokensAccounted
<1>2. QED
  BY <1>1, Invariance, PTL

(***************************************************************************)
(* seed-devnet.ts and client.ts: what is allocated stays within the degree *)
(* cap on everything deposited, and goes to services that exist.  A        *)
(* deposit after a withdrawal to nothing resets the total that is checked  *)
(* (deposit_stake.rs:102); what it stops counting stays within the cap on  *)
(* what was paid out.                                                      *)
(***************************************************************************)
THEOREM AllocationsAreBacked == Spec => []AllocationsBacked
<1>1. Inv => AllocationsBacked
  BY DEF Inv, ChainInv
<1>2. QED
  BY <1>1, Invariance, PTL

=============================================================================
