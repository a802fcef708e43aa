------------------------------- MODULE Derive ------------------------------
(***************************************************************************)
(* The offline price derivation of research/src/derive.rs, an operator on  *)
(* the transaction that Decoder builds, and what it owes the chain.        *)
(*                                                                         *)
(* Of a token transfer, an instruction's `accounts` are its source and     *)
(* destination, and it has a `mint` and an `amount`; of a swap, `amount`   *)
(* is its exact-in argument. The field `principal` is a history variable:  *)
(* whether the transfer is the swap's own. Decimals are left out: a mint   *)
(* has one number of them. Failed transactions are rejected before         *)
(* anything is read (derive.rs:88), and are left out as well.              *)
(***************************************************************************)
EXTENDS Decoder, Functions

CONSTANTS
    Targets,    \* launch account -> [base, quote]: the LaunchLab feature rows
    MintOf,     \* token account -> its mint
    Owner,      \* token account -> its owner
    Payer

\* A transfer moves a mint between two token accounts of it.
ASSUME DeriveAssumption ==
    /\ DOMAIN Owner = DOMAIN MintOf
    /\ \A ix \in OuterIx \cup InnerIx :
        /\ ix.amount \in Nat
        /\ ix.op \in {"transferChecked", "transfer"} =>
            /\ Len(ix.accounts) = 2
            /\ Accounts(ix) \subseteq {a \in DOMAIN MintOf : MintOf[a] = ix.mint}

Priced(base, quote, by) == [outcome |-> "price", base |-> base, quote |-> quote, by |-> by]

Rejected(reason) == [outcome |-> reason]

LaunchLabCall(ix) == ix.program = "launchlab"

\* Mutant of SwapDiscriminators: only the exact-in swaps are recognised.
SwapDiscriminators_ExactIn == {"buy_exact_in", "sell_exact_in"}

\* SWAP_DISCRIMINATORS, kept apart from the scanner's. (The model writes the
\* name of an instruction for its eight bytes in both.)
SwapDiscriminators == {"buy_exact_in", "buy_exact_out", "sell_exact_in", "sell_exact_out"}

\* launchlab_swap, of all instructions.
SwapRefs ==
    {i \in DOMAIN ixs :
        /\ LaunchLabCall(ixs[i])
        /\ ixs[i].op \in SwapDiscriminators
        /\ Account(ixs[i], 4) # None}

-----------------------------------------------------------------------------
(* Evidence from the parsed transfers *)

\* transfer_amounts: the checked transfers of a mint by the classic token
\* program that touch an account of the swap.
Transfers(mint, scope) ==
    {i \in DOMAIN ixs :
        LET ix == ixs[i]
        IN  /\ ix.program = "spl-token"
            /\ ix.op = "transferChecked"
            /\ ix.mint = mint
            /\ Accounts(ix) \cap scope # {}}

Amounts(transfers) == {ixs[i].amount : i \in transfers}

Times(transfers, amount) == Cardinality({i \in transfers : ixs[i].amount = amount})

\* Mutant of Repeated: of equally frequent amounts, the first in order will do.
Repeated_Any(transfers) ==
    {a \in Amounts(transfers) : \A b \in Amounts(transfers) :
        \/ Times(transfers, b) < Times(transfers, a)
        \/ Times(transfers, b) = Times(transfers, a) /\ b >= a}

\* unique_repeated_amount: the most frequent amounts; a price needs one.
Repeated(transfers) ==
    {a \in Amounts(transfers) :
        \A b \in Amounts(transfers) : Times(transfers, b) <= Times(transfers, a)}

\* The instruction whose argument is read: the first with the swap's
\* discriminator.
Argument(swap) ==
    LET same == {i \in DOMAIN ixs : /\ LaunchLabCall(ixs[i])
                                             /\ ixs[i].op = swap.op}
    IN  ixs[CHOOSE i \in same : \A j \in same : i <= j].amount

\* transfer_price, when a transfer was found.
TransferPrice(swap, base, quote) ==
    LET selling == swap.op = "sell_exact_in"
        input   == IF selling THEN base ELSE quote
        output  == IF selling THEN quote ELSE base
        given   == Argument(swap)
        taken   == CHOOSE a \in Repeated(output) : TRUE
    IN  IF \/ 0 \in Amounts(base \cup quote)
           \/ given = 0
           \/ given \notin Amounts(input)
           \/ Cardinality(Repeated(output)) # 1
        THEN Rejected("ambiguous")
        ELSE IF selling THEN Priced(given, taken, "transfers")
                        ELSE Priced(taken, given, "transfers")

-----------------------------------------------------------------------------
(* Evidence from the balances *)

Moves == {i \in DOMAIN ixs : ixs[i].op \in {"transferChecked", "transfer"}}

Total(transfers) == SumFunctionOnSet([i \in DOMAIN ixs |-> ixs[i].amount], transfers)

\* The post balance of a token account less its pre balance, as the transfers
\* of the transaction, parsed or not, have left it.
Delta(account) ==
    Total({i \in Moves : ixs[i].accounts[2] = account})
        - Total({i \in Moves : ixs[i].accounts[1] = account})

\* exchanged_amount and balances: the accounts of the swap that hold the
\* mint, the payer's own among them, and how much it changed; 0 rejects.
Exchanged(mint, scope) ==
    LET held == {a \in scope \cap DOMAIN MintOf : MintOf[a] = mint}
        mine == {a \in held : Owner[a] = Payer}
        d    == Delta(CHOOSE a \in mine : TRUE)
    IN  IF Cardinality(held) < 2 \/ Cardinality(mine) # 1 THEN 0
        ELSE IF d < 0 THEN -d ELSE d

BalancePrice(target, scope) ==
    LET base  == Exchanged(target.base, scope)
        quote == Exchanged(target.quote, scope)
    IN  IF base = 0 \/ quote = 0 THEN Rejected("ambiguous") ELSE Priced(base, quote, "balances")

\* Mutant of Price: the balances are not tried when there is no transfer.
Price_TransfersOnly(swap, target) ==
    LET scope == Accounts(swap)
    IN  IF swap.op \notin {"buy_exact_in", "sell_exact_in"} THEN Rejected("ambiguous")
        ELSE TransferPrice(swap, Transfers(target.base, scope), Transfers(target.quote, scope))

\* The transfers decide if there are any, and then alone.
Price(swap, target) ==
    LET scope == Accounts(swap)
        base  == Transfers(target.base, scope)
        quote == Transfers(target.quote, scope)
    IN  IF swap.op \notin {"buy_exact_in", "sell_exact_in"} THEN Rejected("ambiguous")
        ELSE IF base \cup quote = {} THEN BalancePrice(target, scope)
        ELSE TransferPrice(swap, base, quote)

\* derive_one.
DeriveOne ==
    IF SwapRefs = {} THEN Rejected("no swap")
    ELSE IF Cardinality(SwapRefs) # 1 THEN Rejected("ambiguous")
    ELSE LET swap   == ixs[CHOOSE i \in SwapRefs : TRUE]
             launch == Account(swap, 4)
         IN  IF launch \notin DOMAIN Targets THEN Rejected("unknown target")
             ELSE Price(swap, Targets[launch])

-----------------------------------------------------------------------------
(* Properties *)

SwapRecords == {i \in Records : SwapPool(ixs[i]) # None /\ LaunchLabCall(ixs[i])}

\* The derivation has a decoder of its own, with its own program id, swap
\* discriminators and account index. When it makes a price of a transaction,
\* the scanner saw exactly one LaunchLab swap of a pool there, and counted it
\* for the launch that is priced.
DecodersAgree ==
    LaunchLab /\ DeriveOne.outcome = "price" =>
        \E i \in Records :
            /\ SwapRecords = {i}
            /\ SwapPool(ixs[i]) \in DOMAIN Targets
            /\ i \in SwapsOf([protocol |-> "launchlab", account |-> SwapPool(ixs[i])])

Principals(mint) == {i \in Moves : ixs[i].principal /\ ixs[i].mint = mint}

Strays == {i \in Moves : ~ixs[i].principal}

\* A mint belongs to one token program, so the transfers of a mint are either
\* all parsed or all unknown to the derivation.
OneProgramPerMint ==
    \A i, j \in Moves : ixs[i].mint = ixs[j].mint => ixs[i].program = ixs[j].program

\* Swap i moved mint m once, some of it, by a checked transfer between the one
\* account of m that it lists for the payer and another one it lists.
MovedOnce(i, m) ==
    LET listed == Accounts(ixs[i])
        mine   == {a \in listed \cap DOMAIN MintOf : MintOf[a] = m /\ Owner[a] = Payer}
    IN  /\ Cardinality(Principals(m)) = 1
        /\ Cardinality(mine) = 1
        /\ \A j \in Principals(m) :
            /\ ixs[j].op = "transferChecked"
            /\ ixs[j].amount > 0
            /\ Accounts(ixs[j]) \subseteq listed
            /\ mine \subseteq Accounts(ixs[j])
            /\ ixs[j].accounts[1] # ixs[j].accounts[2]

\* The transaction has one swap, exact-in and of a target, and the swap moved
\* both mints, the input by its argument and out of the payer's account. (A
\* call with the same discriminator and no pool fails on chain.)
Settled ==
    \E i \in DOMAIN ixs :
        LET ix     == ixs[i]
            target == Targets[ix.accounts[5]]
            input  == IF ix.op = "sell_exact_in" THEN target.base ELSE target.quote
        IN  /\ OneProgramPerMint
            /\ SwapRefs = {i}
            /\ \A j \in DOMAIN ixs : LaunchLabCall(ixs[j]) /\ ixs[j].op = ix.op => j = i
            /\ ix.op \in {"buy_exact_in", "sell_exact_in"}
            /\ ix.accounts[5] \in DOMAIN Targets
            /\ MovedOnce(i, target.base) /\ MovedOnce(i, target.quote)
            /\ Amounts(Principals(input)) = {ix.amount}
            /\ \A j \in Principals(target.base) \cup Principals(target.quote) :
                Owner[ixs[j].accounts[1]] = Payer <=> ixs[j].mint = input

\* One token program made all transfers. Not so for a launch with a Token-2022
\* base: only its quote's are parsed, and every swap of it is rejected.
ShownAlike == Cardinality({ixs[i].program : i \in Moves}) = 1

\* The exchange the swap made of it.
Exact(by) ==
    LET target == Targets[ixs[CHOOSE i \in SwapRefs : TRUE].accounts[5]]
    IN  Priced(Total(Principals(target.base)), Total(Principals(target.quote)), by)

\* Without other movements, every exact-in swap of a target gets its price:
\* the exchange it made, the same by either evidence and in either direction,
\* provided that its transfers are all parsed or all unparsed.
CleanSwapIsPriced ==
    Settled /\ Strays = {} /\ ShownAlike => DeriveOne \in {Exact("transfers"), Exact("balances")}

\* Two movements beside the swap's, of one mint and one amount.
StraysAgree ==
    \E i, j \in Strays : i # j /\ ixs[i].mint = ixs[j].mint /\ ixs[i].amount = ixs[j].amount

\* One that touches an account of the payer.
PayerStrays == \E i \in Strays : \E a \in Accounts(ixs[i]) : Owner[a] = Payer

\* Whatever else the transaction moves, a price is the exchange of its swap,
\* but for two cases: the transfers can be outvoted by strays that agree (see
\* UnrelatedMovementsRejected), and the balances include the payer's strays.
\* A price from transfers is right whatever fees there are, if no two are alike.
PricesAreExact ==
    Settled /\ DeriveOne.outcome = "price" =>
        \/ DeriveOne = Exact(DeriveOne.by)
        \/ DeriveOne.by = "transfers" /\ StraysAgree
        \/ DeriveOne.by = "balances" /\ PayerStrays

\* docs/architecture.md:43: "Ambiguous routing, fees, unrelated movements,
\* mismatched exact-in amounts, and unknown targets are rejected": whatever
\* else the transaction moved, a price is the exchange of its swap.
UnrelatedMovementsRejected ==
    Settled /\ DeriveOne.outcome = "price" => DeriveOne = Exact(DeriveOne.by)
=============================================================================
