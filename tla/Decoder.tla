------------------------------ MODULE Decoder ------------------------------
(***************************************************************************)
(* The scanner's transaction decoder: raydium.rs, with the event rows and  *)
(* the launches process() (main.rs) makes of a transaction and the swaps   *)
(* Tracker::observe (momentum.rs) counts for a launch.                     *)
(*                                                                         *)
(* A transaction is built one instruction at a time, and the decoder is    *)
(* operators on it. An instruction is a record: `program` and `op` stand   *)
(* for the program id and the discriminator ("none", "short" and "other"   *)
(* are data without a known one), `accounts` for its account list.         *)
(***************************************************************************)
EXTENDS Integers, Sequences, FiniteSets

CONSTANTS
    LaunchLab,      \* whether config.launchlab_program is set
    None,           \* no account
    OuterIx, InnerIx,   \* the instructions a transaction may have
    MaxOuter, MaxInner  \* Bounds: their numbers

VARIABLES
    ixs,    \* the instructions of the transaction: the outer, then the inner ones
    outer   \* how many are outer ones

vars == <<ixs, outer>>

Init == ixs = <<>> /\ outer = 0

AddOuter(ix) ==
    /\ Len(ixs) = outer
    /\ outer < MaxOuter
    /\ ixs' = Append(ixs, ix)
    /\ outer' = outer + 1

AddInner(ix) ==
    /\ Len(ixs) < outer + MaxInner
    /\ ixs' = Append(ixs, ix)
    /\ UNCHANGED outer

Next == (\E ix \in OuterIx : AddOuter(ix)) \/ (\E ix \in InnerIx : AddInner(ix))

Spec == Init /\ [][Next]_vars

-----------------------------------------------------------------------------
Protocols == {"cpmm", "clmm"} \cup IF LaunchLab THEN {"launchlab"} ELSE {}

Recognised(ix) == ix.program \in Protocols

Creations == [cpmm |-> {"initialize"},
              clmm |-> {"create_pool", "create_customizable_pool"},
              launchlab |-> {"initialize_v2", "initialize_with_token_2022"}]

Swaps == [cpmm |-> {"swap_base_input", "swap_base_output"},
          clmm |-> {"swap", "swap_v2"},
          launchlab |-> {"buy_exact_in", "buy_exact_out", "sell_exact_in", "sell_exact_out"}]

Activities == [cpmm |-> {"deposit", "withdraw"},
               clmm |-> {"increase_liquidity_v2", "decrease_liquidity_v2", "open_position_v2"},
               launchlab |-> {}]

\* classify_raw_instruction, of a recognised instruction.
EventType(ix) ==
    CASE ix.op \in Creations[ix.program] -> "created"
      [] ix.op \in Swaps[ix.program] -> "swap"
      [] ix.op \in Activities[ix.program] -> "activity"
      [] OTHER -> "unknown"

\* instruction_account: positions count from 0, a missing one is None.
Account(ix, i) == IF i < Len(ix.accounts) THEN ix.accounts[i + 1] ELSE None

Accounts(ix) == {ix.accounts[i] : i \in DOMAIN ix.accounts}

\* An instruction that was decoded lists accounts.
ASSUME DecoderAssumption ==
    /\ LaunchLab \in BOOLEAN
    /\ \A ix \in OuterIx \cup InnerIx : ix.accounts \in Seq(Accounts(ix) \ {None})

SwapIndex == [cpmm |-> 3, clmm |-> 2, launchlab |-> 4]

SwapPool(ix) == IF EventType(ix) = "swap" THEN Account(ix, SwapIndex[ix.program]) ELSE None

\* The decoder reads the outer instructions, then the inner ones; its results
\* are positions in this list.
Records == {i \in DOMAIN ixs : Recognised(ixs[i])}

-----------------------------------------------------------------------------
\* Mutant of Layouts: a launch of a Token-2022 mint is not in the chain.
Layouts_NoToken2022 ==
    [cpmm |-> [initialize |-> <<3, 4, 5>>],
     clmm |-> [create_pool |-> <<2, 3, 4>>, create_customizable_pool |-> <<2, 3, 4>>],
     launchlab |-> [initialize_v2 |-> <<5, 6, 7>>]]

\* The chain of detect_pool_instruction, a table of its own beside Creations:
\* the instructions it knows, with the positions of the pool and the mints.
Layouts ==
    [cpmm |-> [initialize |-> <<3, 4, 5>>],
     clmm |-> [create_pool |-> <<2, 3, 4>>, create_customizable_pool |-> <<2, 3, 4>>],
     launchlab |-> [initialize_v2 |-> <<5, 6, 7>>,
                    initialize_with_token_2022 |-> <<5, 6, 7>>]]

\* detect_pool_instruction.
Detected(ix) ==
    /\ Recognised(ix)
    /\ ix.op \in DOMAIN Layouts[ix.program]
    /\ \A n \in 1 .. 3 : Account(ix, Layouts[ix.program][ix.op][n]) # None

Pool(ix) ==
    [protocol |-> ix.program, account |-> Account(ix, Layouts[ix.program][ix.op][1])]

NewPools == {i \in DOMAIN ixs : Detected(ixs[i])}

\* Mutant of RowPool: the first pool of the transaction.
RowPool_AnyProtocol(i) ==
    IF EventType(ixs[i]) # "created" \/ NewPools = {} THEN None
    ELSE Pool(ixs[CHOOSE j \in NewPools : \A k \in NewPools : j <= k]).account

\* The pool in the event row of record i: the first one of its protocol.
RowPool(i) ==
    LET ix    == ixs[i]
        pools == {j \in NewPools : ixs[j].program = ix.program}
    IN  IF EventType(ix) # "created" \/ pools = {} THEN None
        ELSE Pool(ixs[CHOOSE j \in pools : \A k \in pools : j <= k]).account

\* The records that count as activity of a tracked pool, and as its swaps.
Relevant(pool) == {i \in Records : /\ ixs[i].program = pool.protocol
                                   /\ pool.account \in Accounts(ixs[i])}

\* Mutant of SwapsOf: that the instruction names the pool is enough.
SwapsOf_Mentioned(pool) ==
    {i \in Relevant(pool) : EventType(ixs[i]) = "swap"}

SwapsOf(pool) == {i \in Relevant(pool) : SwapPool(ixs[i]) = pool.account}

-----------------------------------------------------------------------------
(* Properties *)

Creating == {i \in Records : EventType(ixs[i]) = "created"}

\* The accounts a creation cannot do without, up to its second mint.
Needed == [cpmm |-> 6, clmm |-> 5, launchlab |-> 8]

\* The classifier (collect_instruction_records) and the pool detector
\* (detect_new_pools) read a transaction separately, each by its own chain of
\* discriminators. They agree on it: the pools are those of the creation
\* rows, but for an instruction that is too short to name its mints.
CreationsDetected ==
    NewPools = {i \in Creating : Len(ixs[i].accounts) >= Needed[ixs[i].program]}

\* A swap counts for one pool at most, however many tracked pools its
\* accounts mention, and only for a pool of the program it calls
\* (Tracker::observe with swap_pool).
SwapsAttributedOnce ==
    \A i \in Records :
        LET pools == [protocol : Protocols, account : Accounts(ixs[i])]
            hits  == {p \in pools : i \in SwapsOf(p)}
        IN  /\ Cardinality(hits) <= 1
            /\ hits # {} => EventType(ixs[i]) = "swap"

\* In a transaction that creates one pool of a protocol, the creation row
\* carries that pool, wherever other protocols' creations stand.
CreationRowNamesItsPool ==
    \A i \in NewPools :
        (\A j \in Creating : ixs[j].program = ixs[i].program => j = i)
            => RowPool(i) = Pool(ixs[i]).account

\* What docs/architecture.md:37 says of every pool attribution, that it is
\* scoped to the instruction, for the rows process() writes.
RowsAreInstructionScoped ==
    \A i \in NewPools : RowPool(i) = Pool(ixs[i]).account
=============================================================================
