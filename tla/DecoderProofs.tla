---------------------------- MODULE DecoderProofs ---------------------------
(***************************************************************************)
(* Proofs about Decoder and Derive, for transactions of any length over    *)
(* any instructions.                                                       *)
(***************************************************************************)
EXTENDS Derive, Induction, SequenceTheorems

\* A transaction consists of the instructions it may have.
Built == ixs \in Seq(OuterIx \cup InnerIx)

LEMMA AlwaysBuilt == Spec => []Built
<1>1. Init => Built
  BY EmptySeq DEF Init, Built
<1>2. Built /\ [Next]_vars => Built'
  <2> SUFFICES ASSUME Built, [Next]_vars PROVE Built'
    OBVIOUS
  <2>1. ASSUME NEW ix \in OuterIx, AddOuter(ix) PROVE Built'
    BY <2>1, AppendProperties, SMTT(30) DEF AddOuter, Built
  <2>2. ASSUME NEW ix \in InnerIx, AddInner(ix) PROVE Built'
    BY <2>2, AppendProperties, SMTT(30) DEF AddInner, Built
  <2>3. CASE UNCHANGED vars
    BY <2>3 DEF vars, Built
  <2> QED
    BY <2>1, <2>2, <2>3 DEF Next
<1> QED
  BY <1>1, <1>2, PTL DEF Spec

\* An instruction of a transaction.
Listed(ix) ==
    /\ Len(ix.accounts) \in Nat
    /\ DOMAIN ix.accounts = 1 .. Len(ix.accounts)
    /\ None \notin Accounts(ix)

LEMMA InstructionsListed ==
  ASSUME Built, NEW i \in DOMAIN ixs
  PROVE  Listed(ixs[i])
<1> DEFINE ix == ixs[i]
<1>1. ix \in OuterIx \cup InnerIx
  BY LenProperties, ElementOfSeq DEF Built
<1>2. ix.accounts \in Seq(Accounts(ix) \ {None})
  BY <1>1, DecoderAssumption
<1>3. /\ Len(ix.accounts) \in Nat
      /\ DOMAIN ix.accounts = 1 .. Len(ix.accounts)
  BY <1>2, LenProperties
<1>4. \A k \in DOMAIN ix.accounts : ix.accounts[k] # None
  BY <1>2, <1>3, ElementOfSeq
<1> QED
  BY <1>3, <1>4 DEF Listed, Accounts

\* A position that the account list has, or has not.
LEMMA AccountPresent ==
  ASSUME NEW ix, Listed(ix), NEW k \in Nat
  PROVE  Account(ix, k) # None <=> k < Len(ix.accounts)
<1>1. CASE k < Len(ix.accounts)
  <2>1. k + 1 \in DOMAIN ix.accounts
    BY <1>1 DEF Listed
  <2>2. Account(ix, k) = ix.accounts[k + 1]
    BY <1>1 DEF Account
  <2> QED
    BY <1>1, <2>1, <2>2 DEF Listed, Accounts
<1>2. CASE ~(k < Len(ix.accounts))
  BY <1>2 DEF Account
<1> QED
  BY <1>1, <1>2

\* What the classifier says, read backwards.
LEMMA EventTypes ==
  ASSUME NEW ix, Recognised(ix)
  PROVE  /\ EventType(ix) = "created" <=> ix.op \in Creations[ix.program]
         /\ EventType(ix) = "swap" <=> ix.op \in Swaps[ix.program]
         /\ ix.program \in {"cpmm", "clmm", "launchlab"}
<1>1. ix.program \in {"cpmm", "clmm", "launchlab"}
  BY DEF Recognised, Protocols
<1> DEFINE created  == ix.op \in Creations[ix.program]
           swap     == ix.op \in Swaps[ix.program]
           activity == ix.op \in Activities[ix.program]
<1>2. ~(created /\ swap) /\ ~(created /\ activity) /\ ~(swap /\ activity)
  BY <1>1 DEF Creations, Swaps, Activities
<1>3. EventType(ix) = CASE created -> "created" [] swap -> "swap" [] activity -> "activity"
                        [] OTHER -> "unknown"
  BY DEF EventType
<1> HIDE DEF created, swap, activity
<1>4. created => EventType(ix) = "created"
  BY <1>2, <1>3
<1>5. ~created => EventType(ix) # "created"
  BY <1>3
<1>6. swap => EventType(ix) = "swap"
  BY <1>2, <1>3
<1>7. ~swap => EventType(ix) # "swap"
  BY <1>3
<1> QED
  BY <1>1, <1>4, <1>5, <1>6, <1>7 DEF created, swap

-----------------------------------------------------------------------------
\* The two chains know the same instructions. A layout that is known leads to
\* three positions, of which the last decides whether the accounts suffice.
LEMMA LayoutsAreCreations ==
  ASSUME NEW ix, Recognised(ix), ix.op \in DOMAIN Layouts[ix.program] \/ ix.op \in Creations[ix.program]
  PROVE  LET at == Layouts[ix.program][ix.op]
         IN  /\ ix.op \in DOMAIN Layouts[ix.program] /\ ix.op \in Creations[ix.program]
             /\ at[1] \in Nat /\ at[2] \in Nat /\ at[3] \in Nat
             /\ at[1] < at[3] /\ at[2] < at[3]
             /\ Needed[ix.program] = at[3] + 1
<1>1. CASE ix.program = "cpmm"
  BY <1>1 DEF Layouts, Creations, Needed
<1>2. CASE ix.program = "clmm"
  BY <1>2 DEF Layouts, Creations, Needed
<1>3. CASE ix.program = "launchlab"
  BY <1>3 DEF Layouts, Creations, Needed
<1> QED
  BY <1>1, <1>2, <1>3, EventTypes

\* What the detector asks of the accounts of a layout it knows.
LEMMA LayoutPresent ==
  ASSUME NEW ix, Listed(ix), Recognised(ix), ix.op \in DOMAIN Layouts[ix.program]
  PROVE  Detected(ix) <=> Len(ix.accounts) >= Needed[ix.program]
<1> DEFINE at == Layouts[ix.program][ix.op]
<1>1. /\ at[1] \in Nat /\ at[2] \in Nat /\ at[3] \in Nat
      /\ at[1] < at[3] /\ at[2] < at[3]
      /\ Needed[ix.program] = at[3] + 1
  BY LayoutsAreCreations
<1>2. Detected(ix) <=> \A n \in 1 .. 3 : Account(ix, at[n]) # None
  BY DEF Detected
<1> HIDE DEF at
<1>3. Detected(ix) <=> /\ Account(ix, at[1]) # None
                       /\ Account(ix, at[2]) # None
                       /\ Account(ix, at[3]) # None
  BY <1>2
<1>4. Detected(ix) <=> /\ at[1] < Len(ix.accounts)
                       /\ at[2] < Len(ix.accounts)
                       /\ at[3] < Len(ix.accounts)
  BY <1>1, <1>3, AccountPresent
<1> QED
  BY <1>1, <1>4 DEF Listed

\* The classifier and the pool detector agree on every transaction.
THEOREM DetectorAgrees == Spec => []CreationsDetected
<1>1. Built => CreationsDetected
  <2> SUFFICES ASSUME Built, NEW i \in DOMAIN ixs
               PROVE  Detected(ixs[i]) <=>
                        /\ Recognised(ixs[i])
                        /\ EventType(ixs[i]) = "created"
                        /\ Len(ixs[i].accounts) >= Needed[ixs[i].program]
    BY DEF CreationsDetected, NewPools, Creating, Records
  <2> DEFINE ix == ixs[i]
  <2>1. CASE Recognised(ix) /\ ix.op \in DOMAIN Layouts[ix.program]
    <3>1. EventType(ix) = "created"
      BY <2>1, LayoutsAreCreations, EventTypes
    <3>2. Listed(ix)
      BY InstructionsListed
    <3> QED
      BY <2>1, <3>1, <3>2, LayoutPresent
  <2>2. CASE ~Recognised(ix)
    BY <2>2 DEF Detected
  <2>3. CASE Recognised(ix) /\ ix.op \notin DOMAIN Layouts[ix.program]
    <3>1. ~Detected(ix)
      BY <2>3 DEF Detected
    <3>2. EventType(ix) # "created"
      BY <2>3, LayoutsAreCreations, EventTypes
    <3> QED
      BY <3>1, <3>2
  <2> QED
    BY <2>1, <2>2, <2>3
<1> QED
  BY <1>1, AlwaysBuilt, PTL

LEMMA DetectedAreCreating ==
  ASSUME CreationsDetected
  PROVE  NewPools \subseteq Creating
BY DEF CreationsDetected

-----------------------------------------------------------------------------
LEMMA AtMostOne ==
  ASSUME NEW S, NEW a, \A s \in S : s = a
  PROVE  Cardinality(S) <= 1
<1>1. CASE S = {}
  BY <1>1, FS_EmptySet
<1>2. CASE S # {}
  <2>1. S = {a}
    BY <1>2
  <2> QED
    BY <2>1, FS_Singleton
<1> QED
  BY <1>1, <1>2

\* A swap counts for one pool at most, of the program it calls.
THEOREM OnePoolPerSwap == Spec => []SwapsAttributedOnce
<1>1. Built => SwapsAttributedOnce
  <2> SUFFICES ASSUME Built, NEW i \in Records
               PROVE  LET pools == [protocol : Protocols, account : Accounts(ixs[i])]
                          hits  == {p \in pools : i \in SwapsOf(p)}
                      IN  /\ Cardinality(hits) <= 1
                          /\ hits # {} => EventType(ixs[i]) = "swap"
    BY DEF SwapsAttributedOnce
  <2> DEFINE ix    == ixs[i]
             pools == [protocol : Protocols, account : Accounts(ix)]
             hits  == {p \in pools : i \in SwapsOf(p)}
             own   == [protocol |-> ix.program, account |-> SwapPool(ix)]
  <2>1. Listed(ix)
    BY InstructionsListed DEF Records
  <2>2. ASSUME NEW p \in hits
        PROVE  p = own /\ EventType(ix) = "swap"
    <3>1. p \in pools /\ p.protocol = ix.program /\ p.account = SwapPool(ix)
      BY DEF SwapsOf, Relevant
    <3>2. p = [protocol |-> p.protocol, account |-> p.account]
      BY <3>1
    <3>3. p.account # None
      BY <2>1, <3>1 DEF Listed
    <3> QED
      BY <3>1, <3>2, <3>3 DEF SwapPool
  <2>3. Cardinality(hits) <= 1
    <3> HIDE DEF hits, own
    <3> QED
      BY <2>2, AtMostOne
  <2> QED
    BY <2>2, <2>3
<1> QED
  BY <1>1, AlwaysBuilt, PTL

-----------------------------------------------------------------------------
\* A creation row carries its pool if the protocol has no other creation in
\* the transaction.
THEOREM RowsNamePools == Spec => []CreationRowNamesItsPool
<1>1. Built /\ CreationsDetected => CreationRowNamesItsPool
  <2> SUFFICES ASSUME Built, CreationsDetected, NEW i \in NewPools,
                      \A j \in Creating : ixs[j].program = ixs[i].program => j = i
               PROVE  RowPool(i) = Pool(ixs[i]).account
    BY DEF CreationRowNamesItsPool
  <2> DEFINE pools == {j \in NewPools : ixs[j].program = ixs[i].program}
  <2>1. i \in Creating /\ pools = {i}
    BY DetectedAreCreating
  <2>2. EventType(ixs[i]) = "created"
    BY <2>1 DEF Creating
  <2>3. \A k \in pools : i <= k
    <3>1. i \in Int
      BY LenProperties DEF NewPools, Built
    <3> QED
      BY <2>1, <3>1
  <2>4. (CHOOSE j \in pools : \A k \in pools : j <= k) = i
    <3> HIDE DEF pools
    <3> QED
      BY <2>1, <2>3
  <2> QED
    BY <2>1, <2>2, <2>4 DEF RowPool
<1> QED
  BY <1>1, AlwaysBuilt, DetectorAgrees, PTL
-----------------------------------------------------------------------------
\* The two decoders recognise the same swaps.
LEMMA SameSwaps ==
  ASSUME Built, LaunchLab
  PROVE  SwapRefs = SwapRecords
<1> SUFFICES ASSUME NEW i \in DOMAIN ixs, LaunchLabCall(ixs[i])
             PROVE  /\ Recognised(ixs[i])
                    /\ (/\ ixs[i].op \in SwapDiscriminators
                        /\ Account(ixs[i], 4) # None) <=> SwapPool(ixs[i]) # None
  BY DEF SwapRefs, SwapRecords, Records
<1>1. Recognised(ixs[i])
  BY DEF LaunchLabCall, Recognised, Protocols
<1>2. EventType(ixs[i]) = "swap" <=> ixs[i].op \in SwapDiscriminators
  BY <1>1, EventTypes DEF LaunchLabCall, Swaps, SwapDiscriminators
<1>3. SwapIndex[ixs[i].program] = 4
  BY DEF LaunchLabCall, SwapIndex
<1> QED
  BY <1>1, <1>2, <1>3 DEF SwapPool

\* What derive_one checks before it looks at amounts.
LEMMA PricedSwap ==
  ASSUME Built, DeriveOne.outcome = "price"
  PROVE  \E i \in DOMAIN ixs : SwapRefs = {i} /\ Account(ixs[i], 4) \in DOMAIN Targets
<1>1. SwapRefs # {}
  BY DEF DeriveOne, Rejected
<1>2. Cardinality(SwapRefs) = 1
  BY <1>1 DEF DeriveOne, Rejected
<1>3. SwapRefs \subseteq DOMAIN ixs /\ IsFiniteSet(DOMAIN ixs)
  BY LenProperties, FS_Interval DEF SwapRefs, Built
<1>4. PICK i \in DOMAIN ixs : SwapRefs = {i}
  BY <1>2, <1>3, FS_Subset, FS_Singleton
<1>5. (CHOOSE k \in SwapRefs : TRUE) = i
  BY <1>4
<1>6. Account(ixs[i], 4) \in DOMAIN Targets
  BY <1>1, <1>2, <1>5 DEF DeriveOne, Rejected
<1> QED
  BY <1>4, <1>6

\* A transaction that is given a price has one swap, and the scanner counts
\* it for the launch that is priced.
THEOREM DerivationAgrees == Spec => []DecodersAgree
<1>1. Built => DecodersAgree
  <2> SUFFICES ASSUME Built, LaunchLab, DeriveOne.outcome = "price"
               PROVE  \E i \in Records :
                        /\ SwapRecords = {i}
                        /\ SwapPool(ixs[i]) \in DOMAIN Targets
                        /\ i \in SwapsOf([protocol |-> "launchlab", account |-> SwapPool(ixs[i])])
    BY DEF DecodersAgree
  <2>1. PICK i \in DOMAIN ixs : SwapRefs = {i} /\ Account(ixs[i], 4) \in DOMAIN Targets
    BY PricedSwap
  <2>2. SwapRecords = {i}
    BY <2>1, SameSwaps
  <2>3. i \in Records /\ SwapPool(ixs[i]) # None /\ ixs[i].program = "launchlab"
    BY <2>2 DEF SwapRecords, LaunchLabCall
  <2>4. SwapPool(ixs[i]) = Account(ixs[i], 4)
    BY <2>3 DEF SwapPool, SwapIndex
  <2>5. SwapPool(ixs[i]) \in Accounts(ixs[i])
    <3>1. Listed(ixs[i])
      BY InstructionsListed
    <3>2. 4 < Len(ixs[i].accounts)
      BY <2>3, <2>4, <3>1, AccountPresent
    <3>3. Account(ixs[i], 4) = ixs[i].accounts[5] /\ 5 \in DOMAIN ixs[i].accounts
      BY <3>1, <3>2 DEF Account, Listed
    <3> QED
      BY <2>4, <3>3 DEF Accounts
  <2>6. i \in SwapsOf([protocol |-> "launchlab", account |-> SwapPool(ixs[i])])
    BY <2>3, <2>5 DEF SwapsOf, Relevant
  <2> QED
    BY <2>1, <2>2, <2>3, <2>4, <2>6
<1> QED
  BY <1>1, AlwaysBuilt, PTL
-----------------------------------------------------------------------------
(* The price of a swap *)

\* An instruction that moves tokens.
LEMMA MoveShape ==
  ASSUME Built, NEW j \in Moves
  PROVE  LET ix == ixs[j]
         IN  /\ DOMAIN ix.accounts = {1, 2}
             /\ Accounts(ix) = {ix.accounts[1], ix.accounts[2]}
             /\ \A a \in Accounts(ix) : a \in DOMAIN MintOf /\ MintOf[a] = ix.mint
<1> DEFINE ix == ixs[j]
<1>1. j \in DOMAIN ixs /\ ix.op \in {"transferChecked", "transfer"}
  BY DEF Moves
<1>2. ix \in OuterIx \cup InnerIx
  BY <1>1, LenProperties, ElementOfSeq DEF Built
<1>3. /\ Len(ix.accounts) = 2
      /\ Accounts(ix) \subseteq {a \in DOMAIN MintOf : MintOf[a] = ix.mint}
  BY <1>1, <1>2, DeriveAssumption
<1>4. DOMAIN ix.accounts = 1 .. Len(ix.accounts)
  BY <1>1, InstructionsListed DEF Listed
<1>5. DOMAIN ix.accounts = {1, 2}
  BY <1>3, <1>4
<1> QED
  BY <1>3, <1>5 DEF Accounts

LEMMA AmountsAreNumbers ==
  ASSUME Built
  PROVE  /\ \A j \in DOMAIN ixs : ixs[j].amount \in Nat
         /\ DOMAIN ixs \subseteq Nat
         /\ IsFiniteSet(DOMAIN ixs)
<1>1. ASSUME NEW j \in DOMAIN ixs PROVE ixs[j].amount \in Nat
  <2>1. ixs[j] \in OuterIx \cup InnerIx
    BY LenProperties, ElementOfSeq DEF Built
  <2> QED
    BY <2>1, DeriveAssumption
<1>2. DOMAIN ixs = 1 .. Len(ixs) /\ Len(ixs) \in Nat
  BY LenProperties DEF Built
<1> QED
  BY <1>1, <1>2, FS_Interval

LEMMA TotalOfOne ==
  ASSUME Built, NEW j \in DOMAIN ixs
  PROVE  Total({j}) = ixs[j].amount
<1> DEFINE amount == [k \in DOMAIN ixs |-> ixs[k].amount]
<1>1. amount[j] \in Int
  BY AmountsAreNumbers
<1>2. Total({j}) = SumFunctionOnSet(amount, {j})
  BY DEF Total
<1>3. amount[j] = ixs[j].amount
  OBVIOUS
<1> HIDE DEF amount
<1> QED
  BY <1>1, <1>2, <1>3, SumSingleton

LEMMA TotalOfNone == Total({}) = 0
BY SumEmpty DEF Total

\* Swap i of a settled transaction, with its transfers of base and quote.
Trading(i, p, q) ==
    LET ix     == ixs[i]
        target == Targets[ix.accounts[5]]
    IN  /\ i \in DOMAIN ixs /\ p \in Moves /\ q \in Moves
        /\ ix.op \in {"buy_exact_in", "sell_exact_in"}
        /\ Argument(ix) = ix.amount
        /\ ix.amount = ixs[IF ix.op = "sell_exact_in" THEN p ELSE q].amount
        /\ Principals(target.base) = {p} /\ Principals(target.quote) = {q}
        /\ MovedOnce(i, target.base) /\ MovedOnce(i, target.quote)
        /\ OneProgramPerMint
        /\ DeriveOne = Price(ix, target)
        /\ \A by : Exact(by) = Priced(ixs[p].amount, ixs[q].amount, by)

LEMMA OneOf ==
  ASSUME NEW S, IsFiniteSet(S), Cardinality(S) = 1
  PROVE  \E x : S = {x}
BY FS_Singleton

LEMMA SettledTrades ==
  ASSUME Built, Settled
  PROVE  \E i, p, q : Trading(i, p, q)
<1>1. PICK i \in DOMAIN ixs :
        LET ix     == ixs[i]
            target == Targets[ix.accounts[5]]
            input  == IF ix.op = "sell_exact_in" THEN target.base ELSE target.quote
        IN  /\ OneProgramPerMint
            /\ SwapRefs = {i}
            /\ \A j \in DOMAIN ixs : LaunchLabCall(ixs[j]) /\ ixs[j].op = ix.op => j = i
            /\ ix.op \in {"buy_exact_in", "sell_exact_in"}
            /\ ix.accounts[5] \in DOMAIN Targets
            /\ MovedOnce(i, target.base) /\ MovedOnce(i, target.quote)
            /\ Amounts(Principals(input)) = {ix.amount}
  BY DEF Settled
<1> DEFINE ix     == ixs[i]
           target == Targets[ix.accounts[5]]
           sells  == ix.op = "sell_exact_in"
<1>2. \A m : Principals(m) \subseteq Moves /\ IsFiniteSet(Principals(m))
  <2>1. \A m : Principals(m) \subseteq Moves /\ Principals(m) \subseteq DOMAIN ixs
    BY DEF Principals, Moves
  <2> QED
    BY <2>1, AmountsAreNumbers, FS_Subset
<1>3. PICK p : Principals(target.base) = {p}
  BY <1>1, <1>2, OneOf DEF MovedOnce
<1>4. PICK q : Principals(target.quote) = {q}
  BY <1>1, <1>2, OneOf DEF MovedOnce
<1>5. p \in Moves /\ q \in Moves /\ p \in DOMAIN ixs /\ q \in DOMAIN ixs
  BY <1>2, <1>3, <1>4 DEF Moves
<1>6. i \in SwapRefs /\ LaunchLabCall(ix) /\ Account(ix, 4) # None
  BY <1>1 DEF SwapRefs
<1>7. Account(ix, 4) = ix.accounts[5]
  BY <1>6 DEF Account
<1>8. (CHOOSE k \in SwapRefs : TRUE) = i
  BY <1>1
<1>9. Argument(ix) = ix.amount
  <2> DEFINE same == {k \in DOMAIN ixs : LaunchLabCall(ixs[k]) /\ ixs[k].op = ix.op}
  <2>1. same = {i}
    BY <1>1, <1>6
  <2>2. i <= i
    BY AmountsAreNumbers
  <2>3. (CHOOSE k \in same : \A j \in same : k <= j) = i
    <3> HIDE DEF same
    <3> QED
      BY <2>1, <2>2
  <2> QED
    BY <2>3 DEF Argument
<1>10. ix.amount = ixs[IF sells THEN p ELSE q].amount
  <2>1. CASE sells
    BY <1>1, <1>3, <2>1 DEF Amounts
  <2>2. CASE ~sells
    BY <1>1, <1>4, <2>2 DEF Amounts
  <2> QED
    BY <2>1, <2>2
<1>11. DeriveOne = Price(ix, target)
  <2>1. SwapRefs # {} /\ Cardinality(SwapRefs) = 1
    BY <1>1, FS_Singleton
  <2> QED
    BY <1>1, <1>7, <1>8, <2>1 DEF DeriveOne
<1>12. \A by : Exact(by) = Priced(ixs[p].amount, ixs[q].amount, by)
  BY <1>3, <1>4, <1>5, <1>8, TotalOfOne DEF Exact
<1>13. Trading(i, p, q)
  BY <1>1, <1>3, <1>4, <1>5, <1>9, <1>10, <1>11, <1>12 DEF Trading
<1> QED
  BY <1>13

-----------------------------------------------------------------------------
(* From the transfers *)

\* The parsed transfers of a mint are the swap's own and strays, and with any
\* of them the swap's own is among them.
LEMMA TransfersOfSwap ==
  ASSUME Built, OneProgramPerMint, NEW i \in DOMAIN ixs, NEW m, MovedOnce(i, m),
         NEW p \in Moves, Principals(m) = {p}
  PROVE  LET found == Transfers(m, Accounts(ixs[i]))
         IN  /\ found \subseteq {p} \cup Strays
             /\ p \in found <=> ixs[p].program = "spl-token"
             /\ found # {} => p \in found
<1> DEFINE found == Transfers(m, Accounts(ixs[i]))
<1>1. p \in DOMAIN ixs /\ ixs[p].mint = m
  BY DEF Principals, Moves
<1>2. ixs[p].op = "transferChecked" /\ Accounts(ixs[p]) \subseteq Accounts(ixs[i])
  BY DEF MovedOnce
<1>3. found \subseteq {k \in Moves : ixs[k].mint = m /\ ixs[k].program = "spl-token"}
  BY DEF Transfers, Moves
<1>4. found \subseteq {p} \cup Strays
  <2> SUFFICES ASSUME NEW k \in found, k \notin Strays PROVE k = p
    OBVIOUS
  <2>1. k \in Moves /\ ixs[k].mint = m /\ ixs[k].principal
    BY <1>3 DEF Strays
  <2>2. k \in Principals(m)
    BY <2>1 DEF Principals
  <2> QED
    BY <2>2
<1>5. Accounts(ixs[p]) \cap Accounts(ixs[i]) # {}
  BY <1>2, MoveShape
<1>6. p \in found <=> ixs[p].program = "spl-token"
  BY <1>1, <1>2, <1>5 DEF Transfers
<1>7. found # {} => ixs[p].program = "spl-token"
  <2> SUFFICES ASSUME NEW k \in found PROVE ixs[p].program = "spl-token"
    OBVIOUS
  <2>1. k \in Moves /\ ixs[k].mint = ixs[p].mint /\ ixs[k].program = "spl-token"
    BY <1>1, <1>3
  <2> QED
    BY <2>1 DEF OneProgramPerMint
<1> QED
  BY <1>4, <1>6, <1>7

LEMMA AmountsAreFinite ==
  ASSUME NEW found, IsFiniteSet(found)
  PROVE  IsFiniteSet(Amounts(found))
<1> DEFINE amount == [k \in found |-> ixs[k].amount]
<1>1. DOMAIN amount = found /\ Amounts(found) = {amount[k] : k \in DOMAIN amount}
  BY DEF Amounts
<1> HIDE DEF amount
<1> QED
  BY <1>1, RangeIsFinite

\* Beside other transfers that all differ, the swap's own amount is as
\* frequent as any.
LEMMA OwnAmountRepeats ==
  ASSUME NEW found, IsFiniteSet(found), NEW p \in found,
         \A j, k \in found \ {p} : ixs[j].amount = ixs[k].amount => j = k
  PROVE  ixs[p].amount \in Repeated(found)
<1> DEFINE with(b) == {j \in found : ixs[j].amount = b}
<1> SUFFICES ASSUME NEW b \in Amounts(found)
             PROVE  Times(found, b) <= Times(found, ixs[p].amount)
  BY DEF Repeated, Amounts
<1>1. \A a : IsFiniteSet(with(a)) /\ Cardinality(with(a)) \in Nat
  <2> SUFFICES ASSUME NEW a PROVE IsFiniteSet(with(a)) /\ Cardinality(with(a)) \in Nat
    OBVIOUS
  <2>1. with(a) \subseteq found
    OBVIOUS
  <2> HIDE DEF with
  <2>2. IsFiniteSet(with(a))
    BY <2>1, FS_Subset
  <2> QED
    BY <2>2, FS_CardinalityType
<1>2. \A a : Times(found, a) = Cardinality(with(a))
  BY DEF Times
<1>3. p \in with(ixs[p].amount)
  OBVIOUS
<1>4. CASE b = ixs[p].amount
  <2> HIDE DEF with
  <2> QED
    BY <1>1, <1>2, <1>4
<1>5. CASE b # ixs[p].amount
  <2>1. PICK k \in found : b = ixs[k].amount
    BY DEF Amounts
  <2>2. with(b) = {k}
    BY <1>5, <2>1
  <2> HIDE DEF with
  <2>3. Cardinality(with(b)) = 1
    BY <2>2, FS_Singleton
  <2>4. Cardinality(with(ixs[p].amount)) # 0
    BY <1>1, <1>3, FS_EmptySet
  <2>5. Cardinality(with(ixs[p].amount)) \in Nat
    BY <1>1
  <2> QED
    BY <1>2, <2>3, <2>4, <2>5
<1> QED
  BY <1>4, <1>5

LEMMA TakenIsOwn ==
  ASSUME NEW found, IsFiniteSet(found), NEW p, found # {} => p \in found,
         \A j, k \in found \ {p} : ixs[j].amount = ixs[k].amount => j = k,
         Cardinality(Repeated(found)) = 1
  PROVE  Repeated(found) = {ixs[p].amount}
<1>1. IsFiniteSet(Repeated(found))
  <2>1. Repeated(found) \subseteq Amounts(found)
    BY DEF Repeated
  <2> QED
    BY <2>1, AmountsAreFinite, FS_Subset
<1>2. PICK c : Repeated(found) = {c}
  BY <1>1, OneOf
<1>3. found # {}
  BY <1>2 DEF Repeated, Amounts
<1>4. ixs[p].amount \in Repeated(found)
  BY <1>3, OwnAmountRepeats
<1> QED
  BY <1>2, <1>4

\* Unless strays agree, a price from the transfers is the exchange.
LEMMA TransfersExact ==
  ASSUME Built, NEW i, NEW p, NEW q, Trading(i, p, q), ~StraysAgree
  PROVE  LET target == Targets[ixs[i].accounts[5]]
             price  == TransferPrice(ixs[i], Transfers(target.base, Accounts(ixs[i])),
                                     Transfers(target.quote, Accounts(ixs[i])))
         IN  price.outcome = "price" => price = Exact("transfers")
<1> DEFINE ix     == ixs[i]
           target == Targets[ix.accounts[5]]
           base   == Transfers(target.base, Accounts(ix))
           quote  == Transfers(target.quote, Accounts(ix))
           price  == TransferPrice(ix, base, quote)
           sells  == ix.op = "sell_exact_in"
           output == IF sells THEN quote ELSE base
           taken  == CHOOSE a \in Repeated(output) : TRUE
<1> SUFFICES ASSUME price.outcome = "price" PROVE price = Exact("transfers")
  OBVIOUS
<1>1. /\ Argument(ix) = ixs[IF sells THEN p ELSE q].amount
      /\ Exact("transfers") = Priced(ixs[p].amount, ixs[q].amount, "transfers")
  BY DEF Trading
<1>2. ASSUME NEW m
      PROVE  /\ IsFiniteSet(Transfers(m, Accounts(ix)))
             /\ \A k \in Transfers(m, Accounts(ix)) : ixs[k].mint = m
  <2>1. Transfers(m, Accounts(ix)) \subseteq DOMAIN ixs
    BY DEF Transfers
  <2>2. \A k \in Transfers(m, Accounts(ix)) : ixs[k].mint = m
    BY DEF Transfers
  <2> QED
    BY <2>1, <2>2, AmountsAreNumbers, FS_Subset
<1>3. /\ base # {} => p \in base
      /\ \A j, k \in base \ {p} : ixs[j].amount = ixs[k].amount => j = k
  <2>1. base \subseteq {p} \cup Strays /\ (base # {} => p \in base)
    BY TransfersOfSwap DEF Trading
  <2> QED
    BY <1>2, <2>1 DEF StraysAgree
<1>4. /\ quote # {} => q \in quote
      /\ \A j, k \in quote \ {q} : ixs[j].amount = ixs[k].amount => j = k
  <2>1. quote \subseteq {q} \cup Strays /\ (quote # {} => q \in quote)
    BY TransfersOfSwap DEF Trading
  <2> QED
    BY <1>2, <2>1 DEF StraysAgree
<1>5. IsFiniteSet(base) /\ IsFiniteSet(quote)
  BY <1>2
<1> HIDE DEF base, quote
<1>6. /\ Cardinality(Repeated(output)) = 1
      /\ price = IF sells THEN Priced(Argument(ix), taken, "transfers")
                          ELSE Priced(taken, Argument(ix), "transfers")
  BY DEF TransferPrice, Rejected
<1> HIDE DEF price
<1>7. CASE sells
  <2>1. output = quote /\ Cardinality(Repeated(quote)) = 1
    BY <1>6, <1>7
  <2>2. Repeated(quote) = {ixs[q].amount}
    <3> HIDE DEF output
    <3> QED
      BY <1>4, <1>5, <2>1, TakenIsOwn
  <2>3. taken = ixs[q].amount
    BY <2>1, <2>2
  <2> QED
    BY <1>1, <1>6, <1>7, <2>3
<1>8. CASE ~sells
  <2>1. output = base /\ Cardinality(Repeated(base)) = 1
    BY <1>6, <1>8
  <2>2. Repeated(base) = {ixs[p].amount}
    <3> HIDE DEF output
    <3> QED
      BY <1>3, <1>5, <2>1, TakenIsOwn
  <2>3. taken = ixs[p].amount
    BY <2>1, <2>2
  <2> QED
    BY <1>1, <1>6, <1>8, <2>3
<1> QED
  BY <1>7, <1>8

-----------------------------------------------------------------------------
(* From the balances *)

LEMMA ListedAreFinite ==
  ASSUME Built, NEW i \in DOMAIN ixs
  PROVE  IsFiniteSet(Accounts(ixs[i]))
<1>1. IsFiniteSet(DOMAIN ixs[i].accounts)
  BY InstructionsListed, FS_Interval DEF Listed
<1> QED
  BY <1>1, RangeIsFinite DEF Accounts

LEMMA TwoAtLeast ==
  ASSUME NEW S, IsFiniteSet(S), NEW a \in S, NEW b \in S, a # b
  PROVE  ~(Cardinality(S) < 2)
<1>1. IsFiniteSet({a}) /\ Cardinality({a}) = 1
  BY FS_Singleton
<1>2. IsFiniteSet({a} \cup {b}) /\ Cardinality({a} \cup {b}) = 2
  <2>1. b \notin {a}
    OBVIOUS
  <2>2. /\ IsFiniteSet({a} \cup {b})
        /\ Cardinality({a} \cup {b}) = Cardinality({a}) + 1
    BY <1>1, <2>1, FS_AddElement, Zenon
  <2> QED
    BY <1>1, <2>2
<1>3. {a} \cup {b} \subseteq S
  OBVIOUS
<1>4. Cardinality(S) \in Nat /\ 2 <= Cardinality(S)
  BY <1>2, <1>3, FS_Subset, FS_CardinalityType
<1> QED
  BY <1>4

\* Without strays of the payer, the payer's account of a mint has changed by
\* what the swap moved.
LEMMA BalanceMoved ==
  ASSUME Built, NEW i \in DOMAIN ixs, NEW m, NEW r \in Moves, Principals(m) = {r},
         MovedOnce(i, m), ~PayerStrays
  PROVE  Exchanged(m, Accounts(ixs[i])) = ixs[r].amount
<1> DEFINE scope == Accounts(ixs[i])
           held  == {a \in scope \cap DOMAIN MintOf : MintOf[a] = m}
           mine  == {a \in held : Owner[a] = Payer}
           from  == ixs[r].accounts[1]
           to    == ixs[r].accounts[2]
           moved == ixs[r].amount
<1>1. r \in DOMAIN ixs /\ ixs[r].mint = m
  BY DEF Principals, Moves
<1>2. /\ mine = {a \in scope \cap DOMAIN MintOf : MintOf[a] = m /\ Owner[a] = Payer}
      /\ Cardinality(mine) = 1 /\ mine \subseteq Accounts(ixs[r])
      /\ moved > 0 /\ Accounts(ixs[r]) \subseteq scope /\ from # to
  <2>1. mine = {a \in scope \cap DOMAIN MintOf : MintOf[a] = m /\ Owner[a] = Payer}
    OBVIOUS
  <2> QED
    BY <2>1 DEF MovedOnce
<1>3. Accounts(ixs[r]) = {from, to} /\ Accounts(ixs[r]) \subseteq held
  <2>1. Accounts(ixs[r]) = {from, to}
    BY MoveShape
  <2>2. \A a \in Accounts(ixs[r]) : a \in DOMAIN MintOf /\ MintOf[a] = m
    BY <1>1, MoveShape
  <2> QED
    BY <1>2, <2>1, <2>2
<1>4. IsFiniteSet(held)
  <2>1. IsFiniteSet(scope) /\ held \subseteq scope
    BY ListedAreFinite
  <2> HIDE DEF scope, held
  <2> QED
    BY <2>1, FS_Subset
<1>5. ~(Cardinality(held) < 2)
  <2>1. from \in held /\ to \in held /\ from # to
    BY <1>2, <1>3
  <2> HIDE DEF held, from, to
  <2> QED
    BY <1>4, <2>1, TwoAtLeast
<1>6. PICK a : mine = {a}
  <2>1. IsFiniteSet(mine)
    BY <1>4, FS_Subset
  <2> QED
    BY <1>2, <2>1, OneOf
<1>7. a \in {from, to} /\ MintOf[a] = m /\ Owner[a] = Payer
  BY <1>2, <1>3, <1>6
<1>8. ASSUME NEW k \in Moves, a \in {ixs[k].accounts[1], ixs[k].accounts[2]}
      PROVE  k = r
  <2>1. ixs[k].mint = m
    BY <1>7, <1>8, MoveShape
  <2>2. a \in Accounts(ixs[k])
    BY <1>8, MoveShape
  <2>3. k \in Principals(m)
    BY <1>7, <2>1, <2>2 DEF Principals, PayerStrays, Strays
  <2> QED
    BY <2>3
<1>9. moved \in Nat
  BY <1>1, AmountsAreNumbers
<1>10. Delta(a) = IF to = a THEN moved ELSE -moved
  <2> DEFINE into == {k \in Moves : ixs[k].accounts[2] = a}
             out  == {k \in Moves : ixs[k].accounts[1] = a}
  <2>1. Delta(a) = Total(into) - Total(out)
    BY DEF Delta
  <2>2. CASE to = a
    <3>1. into = {r} /\ out = {}
      BY <1>2, <1>8, <2>2
    <3>2. Total(into) = moved /\ Total(out) = 0
      BY <1>1, <3>1, TotalOfOne, TotalOfNone
    <3> QED
      BY <1>9, <2>1, <2>2, <3>2
  <2>3. CASE to # a
    <3>1. into = {} /\ out = {r}
      BY <1>7, <1>8, <2>3
    <3>2. Total(into) = 0 /\ Total(out) = moved
      BY <1>1, <3>1, TotalOfOne, TotalOfNone
    <3> QED
      BY <1>9, <2>1, <2>3, <3>2
  <2> QED
    BY <2>2, <2>3
<1>11. Exchanged(m, scope) = IF Delta(a) < 0 THEN -Delta(a) ELSE Delta(a)
  <2>1. (CHOOSE b \in mine : TRUE) = a
    BY <1>6
  <2>2. Exchanged(m, scope) =
          LET d == Delta(CHOOSE b \in mine : TRUE)
          IN  IF Cardinality(held) < 2 \/ Cardinality(mine) # 1 THEN 0
              ELSE IF d < 0 THEN -d ELSE d
    BY DEF Exchanged
  <2> HIDE DEF held, mine
  <2> QED
    BY <1>2, <1>5, <2>1, <2>2
<1> HIDE DEF scope, moved, to
<1>12. Exchanged(m, scope) = moved
  <2>1. CASE Delta(a) = moved
    BY <1>9, <1>11, <2>1
  <2>2. CASE Delta(a) = -moved
    BY <1>2, <1>9, <1>11, <2>2
  <2> QED
    BY <1>10, <2>1, <2>2
<1> QED
  BY <1>12 DEF scope, moved

-----------------------------------------------------------------------------
\* Nothing but the exchange is left to read: the transfers show both sides of
\* it, or neither and the balances do.
THEOREM CleanSwapPriced == Spec => []CleanSwapIsPriced
<1>1. Built => CleanSwapIsPriced
  <2> SUFFICES ASSUME Built, Settled, Strays = {}, ShownAlike
               PROVE  DeriveOne \in {Exact("transfers"), Exact("balances")}
    BY DEF CleanSwapIsPriced
  <2>1. PICK i, p, q : Trading(i, p, q)
    BY SettledTrades
  <2> DEFINE ix     == ixs[i]
             target == Targets[ix.accounts[5]]
             scope  == Accounts(ix)
             base   == Transfers(target.base, scope)
             quote  == Transfers(target.quote, scope)
             price  == TransferPrice(ix, base, quote)
             sells  == ix.op = "sell_exact_in"
  <2>2. /\ p \in Moves /\ q \in Moves /\ p \in DOMAIN ixs /\ q \in DOMAIN ixs
        /\ i \in DOMAIN ixs
        /\ Principals(target.base) = {p} /\ Principals(target.quote) = {q}
        /\ MovedOnce(i, target.base) /\ MovedOnce(i, target.quote)
        /\ OneProgramPerMint
        /\ ix.op \in {"buy_exact_in", "sell_exact_in"}
    BY <2>1 DEF Trading, Moves
  <2>3. /\ Argument(ix) = ixs[IF sells THEN p ELSE q].amount
        /\ DeriveOne = Price(ix, target)
        /\ \A by : Exact(by) = Priced(ixs[p].amount, ixs[q].amount, by)
    BY <2>1 DEF Trading
  <2>4. /\ ixs[p].amount \in Nat /\ ixs[p].amount > 0
        /\ ixs[q].amount \in Nat /\ ixs[q].amount > 0
    BY <2>2, AmountsAreNumbers DEF MovedOnce
  <2>5. ixs[p].program = ixs[q].program
    <3> DEFINE programs == {ixs[k].program : k \in Moves}
    <3>1. IsFiniteSet(programs)
      <4> DEFINE program == [k \in Moves |-> ixs[k].program]
      <4>1. IsFiniteSet(Moves)
        BY AmountsAreNumbers, FS_Subset DEF Moves
      <4>2. DOMAIN program = Moves /\ programs = {program[k] : k \in DOMAIN program}
        OBVIOUS
      <4> HIDE DEF program, programs
      <4> QED
        BY <4>1, <4>2, RangeIsFinite
    <3>2. \E x : programs = {x}
      BY <3>1, OneOf DEF ShownAlike
    <3> QED
      BY <2>2, <3>2
  <2>6. /\ base \subseteq {p} /\ (p \in base <=> ixs[p].program = "spl-token")
        /\ quote \subseteq {q} /\ (q \in quote <=> ixs[q].program = "spl-token")
    BY <2>2, TransfersOfSwap
  <2>7. CASE ixs[p].program = "spl-token"
    <3>1. base = {p} /\ quote = {q}
      BY <2>5, <2>6, <2>7
    <3>2. DeriveOne = price
      BY <2>2, <2>3, <3>1 DEF Price
    <3>3. price.outcome = "price"
      <4>1. Amounts(base) = {ixs[p].amount} /\ Amounts(quote) = {ixs[q].amount}
        BY <3>1 DEF Amounts
      <4>2. ~(0 \in Amounts(base \cup quote))
        BY <2>4, <3>1 DEF Amounts
      <4>3. /\ Argument(ix) # 0
            /\ Argument(ix) \in Amounts(IF sells THEN base ELSE quote)
        BY <2>3, <2>4, <4>1
      <4>4. Cardinality(Repeated(IF sells THEN quote ELSE base)) = 1
        <5>1. ASSUME NEW r, ixs[r].amount \in Nat PROVE Cardinality(Repeated({r})) = 1
          <6>1. ixs[r].amount \in Repeated({r})
            BY OwnAmountRepeats, FS_Singleton
          <6>2. Repeated({r}) = {ixs[r].amount}
            BY <6>1 DEF Repeated, Amounts
          <6> QED
            BY <6>2, FS_Singleton
        <5> QED
          BY <2>4, <3>1, <5>1
      <4> HIDE DEF base, quote
      <4> QED
        BY <4>2, <4>3, <4>4 DEF TransferPrice, Priced
    <3>4. price.outcome = "price" => price = Exact("transfers")
      BY <2>1, TransfersExact DEF StraysAgree
    <3> QED
      BY <3>2, <3>3, <3>4
  <2>8. CASE ixs[p].program # "spl-token"
    <3>1. base \cup quote = {}
      BY <2>5, <2>6, <2>8
    <3>2. DeriveOne = BalancePrice(target, scope)
      BY <2>2, <2>3, <3>1 DEF Price
    <3>3. /\ Exchanged(target.base, scope) = ixs[p].amount
          /\ Exchanged(target.quote, scope) = ixs[q].amount
      BY <2>2, BalanceMoved DEF PayerStrays
    <3>4. BalancePrice(target, scope) = Priced(ixs[p].amount, ixs[q].amount, "balances")
      BY <2>4, <3>3 DEF BalancePrice
    <3> QED
      BY <2>3, <3>2, <3>4
  <2> QED
    BY <2>7, <2>8
<1> QED
  BY <1>1, AlwaysBuilt, PTL

\* A price is wrong only if strays agree with each other, or are the payer's.
THEOREM OnlyStraysMislead == Spec => []PricesAreExact
<1>1. Built => PricesAreExact
  <2> SUFFICES ASSUME Built, Settled, DeriveOne.outcome = "price"
               PROVE  \/ DeriveOne = Exact(DeriveOne.by)
                      \/ DeriveOne.by = "transfers" /\ StraysAgree
                      \/ DeriveOne.by = "balances" /\ PayerStrays
    BY DEF PricesAreExact
  <2>1. PICK i, p, q : Trading(i, p, q)
    BY SettledTrades
  <2> DEFINE ix     == ixs[i]
             target == Targets[ix.accounts[5]]
             scope  == Accounts(ix)
             price  == TransferPrice(ix, Transfers(target.base, scope),
                                     Transfers(target.quote, scope))
             weighed == BalancePrice(target, scope)
  <2>2. DeriveOne = price \/ DeriveOne = weighed
    <3>1. DeriveOne = Price(ix, target)
      BY <2>1 DEF Trading
    <3> QED
      BY <3>1 DEF Price, Rejected
  <2>3. CASE DeriveOne = price
    <3>1. price.outcome = "price" /\ price.by = "transfers"
      BY <2>3 DEF TransferPrice, Priced, Rejected
    <3>2. StraysAgree \/ price = Exact("transfers")
      BY <2>1, <3>1, TransfersExact
    <3> QED
      BY <2>3, <3>1, <3>2
  <2>4. CASE DeriveOne = weighed
    <3>1. /\ weighed = Priced(Exchanged(target.base, scope), Exchanged(target.quote, scope),
                              "balances")
          /\ weighed.by = "balances"
      BY <2>4 DEF BalancePrice, Priced, Rejected
    <3>2. ASSUME ~PayerStrays PROVE weighed = Exact("balances")
      <4>1. /\ i \in DOMAIN ixs /\ p \in Moves /\ q \in Moves
            /\ Principals(target.base) = {p} /\ Principals(target.quote) = {q}
            /\ MovedOnce(i, target.base) /\ MovedOnce(i, target.quote)
            /\ Exact("balances") = Priced(ixs[p].amount, ixs[q].amount, "balances")
        BY <2>1 DEF Trading
      <4>2. /\ Exchanged(target.base, scope) = ixs[p].amount
            /\ Exchanged(target.quote, scope) = ixs[q].amount
        BY <3>2, <4>1, BalanceMoved
      <4> QED
        BY <3>1, <4>1, <4>2
    <3> QED
      BY <2>4, <3>1, <3>2
  <2> QED
    BY <2>2, <2>3, <2>4
<1> QED
  BY <1>1, AlwaysBuilt, PTL
=============================================================================
