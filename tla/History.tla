------------------------------ MODULE History ------------------------------
(***************************************************************************)
(* fetch-transactions: research/src/fetch.rs and its command in main.rs.   *)
(* A run pages through the signatures of a launch account, newest first,   *)
(* selects those of the hour after creation (second 0), fetches their      *)
(* transactions and appends them to a file, one to a line. A run may die   *)
(* anywhere; the next one starts from the file.                            *)
(*                                                                         *)
(* Left out: the attempts inside a call (three, then it fails), the pauses *)
(* and --signatures-only, which stops after the paging.                    *)
(***************************************************************************)
EXTENDS Integers, SequencesExt

CONSTANTS
    Sig,        \* signatures
    NoTime,     \* the block time the endpoint does not know
    Histories,  \* the lists the endpoint may have: <<[sig, time], ...>>, newest first
    Window,     \* seconds after creation
    PageSize, MaxPages,
    MaxRuns     \* Bound: commands that are started

\* The endpoint lists a signature once, the newest first.
ASSUME HistoryAssumption ==
    /\ NoTime \notin Int
    /\ \A list \in Histories :
        /\ list \in Seq([sig : Sig, time : Int \cup {NoTime}])
        /\ \A i, j \in DOMAIN list : i < j =>
            /\ list[i].sig # list[j].sig
            /\ NoTime \notin {list[i].time, list[j].time} => list[i].time >= list[j].time
    /\ {Window, MaxRuns} \subseteq Nat
    /\ {PageSize, MaxPages} \subseteq Nat \ {0}

VARIABLES
    history,    \* the endpoint's list
    file,       \* the raw export: lines [txs, whole, utf8, ended]
    pc,         \* "idle", "paging", "fetching"
    run,        \* the run: its cursor, the positions selected, its results
    exit,       \* of the last run: "none", "success", "failure", "died"
    runs        \* how many were started

histVars == <<history, file, pc, run, exit, runs>>

\* `selected` and `todo` are positions of the list, which are taken in order;
\* `missing` are the transactions the endpoint did not have (null).
NewRun == [pages |-> 0, listed |-> 0, selected |-> {}, todo |-> {}, lines |-> <<>>,
           boundary |-> FALSE, failures |-> 0, missing |-> {}]

HistInit ==
    /\ history \in Histories
    /\ file = <<>> /\ pc = "idle" /\ run = NewRun /\ exit = "none" /\ runs = 0

-----------------------------------------------------------------------------
\* A line is read as JSON: it must hold one whole transaction.
Readable(line) == line.whole /\ Len(line.txs) = 1

\* The lines a reader comes to that stops at the first one that is not text:
\* one that was cut inside a character.
Reached(f) == {i \in DOMAIN f : \A k \in 1..i : f[k].utf8}

\* existing_signatures: other lines that cannot be read are passed over, but
\* one that is not UTF-8 ends the reading (map_while, fetch.rs:170).
Existing == {file[i].txs[1] : i \in {j \in Reached(file) : Readable(file[j])}}

Line(tx) == [txs |-> <<tx>>, whole |-> TRUE, utf8 |-> TRUE, ended |-> TRUE]

\* The file after a line was appended; a last line without its end is
\* continued by it.
AddLine(f, line) ==
    IF f = <<>> \/ Last(f).ended THEN Append(f, line)
    ELSE Append(Front(f), [txs   |-> Last(f).txs \o line.txs,
                           whole |-> Last(f).whole /\ line.whole,
                           utf8  |-> Last(f).utf8 /\ line.utf8,
                           ended |-> line.ended])

\* The file after whole lines were appended.
AddLines(f, txs) ==
    IF txs = <<>> THEN f
    ELSE AddLine(f, Line(Head(txs))) \o [i \in 1 .. Len(txs) - 1 |-> Line(txs[i + 1])]

-----------------------------------------------------------------------------
Start ==
    /\ pc = "idle" /\ runs < MaxRuns
    /\ pc' = "paging" /\ run' = NewRun /\ exit' = "none" /\ runs' = runs + 1
    /\ UNCHANGED <<history, file>>

\* Mutant of InWindow: the window ends a second later.
InWindow_OneMore(row) == row.time # NoTime /\ 0 <= row.time /\ row.time <= Window + 1

InWindow(row) == row.time # NoTime /\ 0 <= row.time /\ row.time <= Window

Time(i) == history[i].time

\* Mutant of AtBoundary: the end of the window is taken for its start.
AtBoundary_End(page) == page = {} \/ \E i \in page : Time(i) # NoTime /\ Time(i) <= Window

\* An empty page, or one that reaches the creation second.
AtBoundary(page) == page = {} \/ \E i \in page : Time(i) # NoTime /\ Time(i) <= 0

\* Mutant of PagingOver: the number of pages is not limited.
PagingOver_NoLimit(page) == AtBoundary(page) \/ Cardinality(page) < PageSize

PagingOver(page) ==
    AtBoundary(page) \/ Cardinality(page) < PageSize \/ run.pages + 1 = MaxPages

Page ==
    /\ pc = "paging"
    /\ LET upto == Min({run.listed + PageSize, Len(history)})
           page == run.listed + 1 .. upto
           all  == run.selected \cup {i \in page : InWindow(history[i])}
       IN  /\ run' = [run EXCEPT !.pages = @ + 1, !.listed = upto, !.selected = all,
                                 !.boundary = AtBoundary(page),
                                 !.todo = IF PagingOver(page) THEN all ELSE {}]
           /\ pc' = IF PagingOver(page) THEN "fetching" ELSE "paging"
    /\ UNCHANGED <<history, file, exit, runs>>

\* A page that cannot be read ends the run, and nothing is fetched.
PageFails ==
    /\ pc = "paging"
    /\ run' = [run EXCEPT !.failures = @ + 1]
    /\ pc' = "idle" /\ exit' = "failure"
    /\ UNCHANGED <<history, file, runs>>

\* Mutant of Reusable: what the file has is fetched again.
Reusable_Never(sig) == FALSE

\* A signature whose transaction the file has.
Reusable(sig) == sig \in Existing

\* A transaction of the file is not fetched again; another one is received,
\* not available, or not answered for.
FetchTransaction ==
    /\ pc = "fetching" /\ run.todo # {}
    /\ LET i    == Min(run.todo)
           sig  == history[i].sig
           next == [run EXCEPT !.todo = @ \ {i}]
       IN  IF Reusable(sig) THEN run' = next
           ELSE \/ run' = [next EXCEPT !.lines = Append(@, sig)]
                \/ run' = [next EXCEPT !.missing = @ \cup {sig}]
                \/ run' = [next EXCEPT !.failures = @ + 1]
    /\ UNCHANGED <<history, file, pc, exit, runs>>

\* Mutant of WindowComplete: transactions that failed do not matter.
WindowComplete_Pages == run.boundary

\* The window is complete by the paging, and the command succeeds if no
\* transaction failed after it either.
WindowComplete == run.boundary /\ run.failures = 0

Finish ==
    /\ pc = "fetching" /\ run.todo = {}
    /\ file' = AddLines(file, run.lines)
    /\ pc' = "idle"
    /\ exit' = IF WindowComplete THEN "success" ELSE "failure"
    /\ UNCHANGED <<history, run, runs>>

\* The run dies, or its write fails: before it writes, or with the k-th line
\* cut, maybe inside a character, or short of its end.
Die ==
    /\ pc # "idle"
    /\ pc' = "idle" /\ exit' = "died"
    /\ \/ UNCHANGED file
       \/ /\ pc = "fetching" /\ run.todo = {}
          /\ \E k \in DOMAIN run.lines, whole, utf8, end \in BOOLEAN :
                /\ end => whole
                /\ whole => utf8
                /\ file' = AddLine(AddLines(file, SubSeq(run.lines, 1, k - 1)),
                                   [Line(run.lines[k]) EXCEPT !.whole = whole, !.utf8 = utf8,
                                                              !.ended = end])
    /\ UNCHANGED <<history, run, runs>>

HistNext == Start \/ Page \/ PageFails \/ FetchTransaction \/ Finish \/ Die

-----------------------------------------------------------------------------
(* Properties *)

\* The signatures a complete window must hold. Those of the creation second
\* are left to chance: a page that ends within that second is the last one
\* (fetch.rs:109).
Due == {history[i].sig : i \in {j \in DOMAIN history : InWindow(history[j]) /\ Time(j) > 0}}

\* The paging reports a complete window only if it selected every signature
\* that is due: none is lost on a page's edge, behind a row without a block
\* time, or beyond the last page.
CompleteWindowIsSelected ==
    pc = "fetching" /\ run.boundary => Due \subseteq {history[i].sig : i \in run.selected}

\* read_jsonl_values accepts a file whose lines can all be read.
Accepted == \A i \in DOMAIN file : Readable(file[i])

\* When a run succeeds, what derive-prices then accepts holds every
\* transaction of the window that the endpoint has, although earlier runs may
\* have failed or died over the same file.
SuccessCoversWindow ==
    exit = "success" /\ Accepted => Due \ run.missing \subseteq Existing

\* A transaction is in the file twice, as lines that can be read, only if an
\* earlier line is not UTF-8: a run takes up a file where the one before left
\* it, a last line without its end included, but what stands behind such a
\* line is fetched and written again by every run (fetch.rs:170). A file that
\* derive-prices accepts has no such line, and so no transaction twice.
TwinsOnlyBehindTornText ==
    \A i, j \in DOMAIN file :
        i < j /\ Readable(file[i]) /\ Readable(file[j]) /\ file[i].txs = file[j].txs
            => \E k \in 1..i : ~file[k].utf8
=============================================================================
