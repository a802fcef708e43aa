----------------------------- MODULE MCDecoder -----------------------------
(***************************************************************************)
(* Two LaunchLab launches, L a target and M not, and a CPMM pool C. The    *)
(* payer u trades base for quote with the vaults v; x belongs to others.   *)
(***************************************************************************)
EXTENDS Derive, TLC

CONSTANTS
    L, M, C, u, x,
    uBase, uQuote, vBase, vQuote, xBase, xQuote,
    baseMint, quoteMint

Ix(program, op, accounts) ==
    [program |-> program, op |-> op, accounts |-> accounts, mint |-> None,
     amount |-> 0, principal |-> FALSE]

Launch(op, pool) == Ix("launchlab", op, <<x, u, x, x, x, pool, baseMint, quoteMint>>)

Trade(op, pool, amount) ==
    [Ix("launchlab", op, <<u, x, x, x, pool, uBase, uQuote, vBase, vQuote, L>>)
        EXCEPT !.amount = amount]

Move(program, op, mint, from, to, amount, principal) ==
    [program |-> program, op |-> op, accounts |-> <<from, to>>, mint |-> mint,
     amount |-> amount, principal |-> principal]

MCTargets == L :> [base |-> baseMint, quote |-> quoteMint]
MCMintOf ==
    [a \in {uBase, vBase, xBase} |-> baseMint] @@ [a \in {uQuote, vQuote, xQuote} |-> quoteMint]
MCOwner == [a \in {uBase, uQuote} |-> u] @@ [a \in {vBase, vQuote, xBase, xQuote} |-> x]

Create == {Launch("initialize_v2", L), Launch("initialize_with_token_2022", M),
           Ix("launchlab", "initialize_v2", <<x, u, x>>),
           Ix("cpmm", "initialize", <<u, x, x, C, baseMint, quoteMint>>),
           Ix("clmm", "create_pool", <<u, x, C, baseMint, quoteMint>>),
           Ix("clmm", "create_customizable_pool", <<u, x, C, baseMint>>)}

Swap == {Trade("buy_exact_in", L, 2), Trade("sell_exact_in", L, 3),
         Trade("buy_exact_out", M, 2)}

Other == {Ix("cpmm", "swap_base_input", <<u, x, L, C, L>>),
          Ix("clmm", "deposit", <<u, x, C>>),
          Ix("launchlab", "short", <<u, x, x, x, L>>),
          Ix("foreign", "buy_exact_in", <<u, x, x, x, L>>)}

\* The swap's own transfers, as the classic program and its checked transfer
\* show them, and as another program or an unchecked one does.
Own(program, op) ==
    {Move(program, op, quoteMint, uQuote, vQuote, 2, TRUE),
     Move(program, op, quoteMint, vQuote, uQuote, 2, TRUE),
     Move(program, op, baseMint, uBase, vBase, 3, TRUE),
     Move(program, op, baseMint, vBase, uBase, 3, TRUE)}

Stray == {Move("spl-token", "transferChecked", baseMint, uBase, xBase, 1, FALSE),
          Move("spl-token", "transferChecked", quoteMint, vQuote, xQuote, 1, FALSE),
          Move("spl-token", "transferChecked", quoteMint, xQuote, xQuote, 3, FALSE),
          Move("spl-token", "transfer", baseMint, uBase, vBase, 4, FALSE)}

\* Token-2022 shows no transfer that the code reads, so these reach the
\* balances: one of the payer, and one of the vault.
Stray2022 == {Move("spl-token-2022", "transferChecked", quoteMint, uQuote, xQuote, 1, FALSE),
              Move("spl-token-2022", "transferChecked", baseMint, vBase, xBase, 1, FALSE)}

\* With a movement of the payer outside the swap, two strays can agree.
MCOuter == Create \cup Swap \cup Other
               \cup {Move("spl-token", "transferChecked", baseMint, uBase, xBase, 1, FALSE)}
MCInner == Own("spl-token", "transferChecked") \cup Own("spl-token-2022", "transferChecked")
               \cup Stray \cup Stray2022 \cup {Trade("buy_exact_in", L, 2)}
MCTrades == {Trade("buy_exact_in", L, 2)}
MCTransfers == Own("spl-token", "transferChecked") \cup Stray
=============================================================================
