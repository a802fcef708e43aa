----------------------------- MODULE MCResearch ----------------------------
(***************************************************************************)
(* One launch with up to five signatures: a page's edge inside the window, *)
(* in the creation second and behind a row without a block time, a window  *)
(* longer than the pages, and an endpoint that forgot the creation. The    *)
(* hour is four seconds, and a horizon one, two, three or four of them.    *)
(***************************************************************************)
EXTENDS Research

CONSTANTS a, b, c, d, e

List(sigs, times) == [i \in DOMAIN sigs |-> [sig |-> sigs[i], time |-> times[i]]]

MCHistories ==
    {List(<<d, c, b, a>>, <<4, 2, 1, 0>>),
     List(<<d, c, b, a>>, <<3, NoTime, NoTime, 0>>),
     List(<<d, c, b, a>>, <<2, 0, 0, 0>>),
     List(<<c, b, a>>, <<5, 5, 2>>),
     List(<<e, d, c, b, a>>, <<5, 5, 3, 2, 0>>)}

MCPriceOf == a :> 1 @@ b :> 2 @@ c :> 3 @@ d :> 2 @@ e :> 1

MCHorizons == <<1, 2, 3, 4>>

MCImports == {0 :> 1 @@ 1 :> 3 @@ 2 :> 1, 1 :> 3 @@ 2 :> 1 @@ 3 :> 3, 4 :> 1,
              0 :> 0 @@ 3 :> 1, -1 :> 1 @@ 3 :> 3}
MCReplacements == {0 :> 2 @@ 3 :> 2, -1 :> 1 @@ 0 :> 0 @@ 3 :> 2}
MCEarly == UNION {[s -> {1, 3}] : s \in SUBSET {-1, 1, 4}}
=============================================================================
