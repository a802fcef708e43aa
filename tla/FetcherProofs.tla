--------------------------- MODULE FetcherProofs ---------------------------
(***************************************************************************)
(* Proofs about Fetcher, for any slots, signatures, delays and bounds.     *)
(***************************************************************************)
EXTENDS Fetcher, FiniteSetTheorems, SequenceTheorems, TLAPS

\* The next-state relation, action by action.
LEMMA NextCases ==
  ASSUME Next, NEW G,
         \A s \in Sigs : SkipDuplicate(s) => G,
         \A s \in Sigs : SkipMalformed(s) => G,
         \A i \in Slots, s \in Sigs, age \in 0..MaxAge : Submit(i, s, age) => G,
         CloseInput => G, Exit => G, Cancel => G,
         \A i \in Slots : GateClosed(i) => G,
         \A i \in Slots : StartStale(i) => G,
         \A i \in Slots : StartRpc(i) => G,
         \A i \in Slots : RpcOk(i) => G,
         \A i \in Slots, p \in BOOLEAN : RpcError(i, p) => G,
         \A i \in Slots, r \in RetryAfters : RpcLimited(i, r) => G,
         \A i \in Slots : Send(i) => G,
         Consume => G, Tick => G, UNCHANGED vars => G
  PROVE  G
<1>1. \A i \in Slots : RpcTimeout(i) => RpcError(i, FALSE)
  BY DEF RpcTimeout
<1>. QED BY <1>1 DEF Next, Dispatch, Step, Answer, Terminating

-----------------------------------------------------------------------------
(* Types.  The two gauges are differences, so here they are only integers; *)
(* that they never go below zero follows from JobsAccounted.               *)

LEMMA FreeType == Free \in Job
BY FetcherAssumption DEF FetcherAssumption, Free, Job

LEMMA RememberType ==
  ASSUME NEW h \in [seen : SUBSET Sigs, order : Seq(Sigs)], NEW sig \in Sigs
  PROVE  Remember(h, sig) \in [seen : SUBSET Sigs, order : Seq(Sigs)]
<1>1. Append(h.order, sig) \in Seq(Sigs) /\ Append(h.order, sig) # <<>>
  BY AppendProperties
<1>2. Tail(Append(h.order, sig)) \in Seq(Sigs)
  BY <1>1, HeadTailProperties
<1>. QED BY <1>1, <1>2 DEF Remember

\* The cardinalities that the ledger is about.
LEMMA SlotCounts ==
  /\ IsFiniteSet(Active) /\ Cardinality(Active) \in Nat
  /\ \A p : IsFiniteSet(Pc(p)) /\ Cardinality(Pc(p)) \in Nat
<1>1. Active \subseteq Slots /\ \A p : Pc(p) \subseteq Slots
  BY DEF Active, Pc
<1>2. IsFiniteSet(Slots)
  BY FetcherAssumption DEF FetcherAssumption
<1>. QED BY <1>1, <1>2, FS_Subset, FS_CardinalityType

LEMMA SlotCountsNext ==
  Cardinality(Active)' \in Nat /\ Cardinality(Pc("rpc"))' \in Nat
<1>1. Active' \subseteq Slots /\ Pc("rpc")' \subseteq Slots
  BY DEF Active, Pc
<1>. QED BY <1>1, FetcherAssumption, FS_Subset, FS_CardinalityType DEF FetcherAssumption

\* What an action that changes some counters does to each of them.
LEMMA UpdateAt ==
  ASSUME n \in [Counter -> Int], NEW change, Update(change),
         \A c \in DOMAIN change : change[c] \in Int
  PROVE  /\ n' \in [Counter -> Int]
         /\ \A c \in Counter : c \in DOMAIN change => n'[c] = n[c] + change[c]
         /\ \A c \in Counter : c \notin DOMAIN change => n'[c] = n[c]
BY DEF Update

\* The types of what the actions on one job do to it.
JobsOK ==
  /\ job \in [Slots -> Job]
  /\ \A i \in Slots : job[i].pc # "free" => job[i].sig \in Sigs

LEMMA PlaceType ==
  ASSUME JobsOK, NEW i \in Slots, NEW r \in Job, r.pc # "free" => r.sig \in Sigs,
         job' = [job EXCEPT ![i] = r]
  PROVE  JobsOK'
BY DEF JobsOK

LEMMA MoveType ==
  ASSUME JobsOK, NEW i \in Slots, job[i].pc # "free",
         NEW pc \in {"gate", "rpc", "send"}, NEW attempt \in 0..(Attempts - 1),
         NEW timer \in Nat, NEW age \in 0..(MaxAge + 1),
         Move(i, pc, attempt, timer, age)
  PROVE  JobsOK'
<1>. DEFINE r == [pc |-> pc, sig |-> job[i].sig, attempt |-> attempt,
                  timer |-> timer, age |-> age]
<1>1. r \in Job
  BY DEF JobsOK, Job
<1>2. r.sig \in Sigs
  BY DEF JobsOK
<1>3. job' = [job EXCEPT ![i] = r]
  BY DEF Move
<1>. HIDE DEF r
<1>. QED BY <1>1, <1>2, <1>3, PlaceType

LEMMA CompleteType ==
  ASSUME JobsOK, pending \subseteq Sigs, NEW i \in Slots, Complete(i)
  PROVE  JobsOK' /\ pending' \subseteq Sigs
<1>1. Free.pc = "free"
  BY DEF Free
<1>. QED BY <1>1, FreeType, PlaceType DEF Complete

LEMMA JobFields ==
  ASSUME JobsOK, NEW i \in Slots
  PROVE  /\ job[i].pc \in {"free", "gate", "rpc", "send"}
         /\ job[i].attempt \in 0..(Attempts - 1) /\ Backoff[job[i].attempt] \in Nat
         /\ job[i].timer \in Nat /\ job[i].age \in 0..(MaxAge + 1)
<1>1. job[i] \in Job
  BY DEF JobsOK
<1>2. job[i].attempt \in 0..(Attempts - 1)
  BY <1>1 DEF Job
<1>. QED BY <1>1, <1>2, FetcherAssumption DEF FetcherAssumption, Job

\* Counters of finished work never decrease.
Tallies == Counter \ {"jobs", "current"}
LedgerType == n \in [Counter -> Int] /\ \A c \in Tallies : n[c] >= 0

LEMMA UpdateType ==
  ASSUME LedgerType, NEW change, Update(change),
         \A c \in DOMAIN change : change[c] \in Int,
         \A c \in DOMAIN change : c \in Tallies => change[c] >= 0
  PROVE  LedgerType'
<1>1. /\ n' \in [Counter -> Int]
      /\ \A c \in Counter : c \in DOMAIN change => n'[c] = n[c] + change[c]
      /\ \A c \in Counter : c \notin DOMAIN change => n'[c] = n[c]
  BY UpdateAt DEF LedgerType
<1>2. ASSUME NEW c \in Tallies PROVE n'[c] >= 0
  <2>1. c \in Counter /\ n[c] \in Int /\ n[c] >= 0
    BY DEF LedgerType, Tallies
  <2>2. CASE c \in DOMAIN change
    BY <1>1, <2>1, <2>2
  <2>3. CASE c \notin DOMAIN change
    BY <1>1, <2>1, <2>3
  <2>. QED BY <2>2, <2>3
<1>. QED BY <1>1, <1>2 DEF LedgerType

LEMMA FailureType ==
  ASSUME JobsOK, pending \subseteq Sigs, LedgerType,
         NEW i \in Slots, NEW p, job[i].pc = "rpc", AfterFailure(i, p)
  PROVE  JobsOK' /\ pending' \subseteq Sigs /\ LedgerType'
<1>1. CASE Complete(i) /\ Update([failures |-> 1, jobs |-> -1, current |-> -1])
  BY <1>1, CompleteType, UpdateType DEF Tallies
<1>2. CASE /\ job[i].attempt < Attempts - 1 /\ pending' = pending
           /\ Move(i, "gate", job[i].attempt + 1, Backoff[job[i].attempt], job[i].age)
           /\ Update([current |-> -1])
  <2>1. job[i].attempt + 1 \in 0..(Attempts - 1)
    BY <1>2, JobFields, FetcherAssumption DEF FetcherAssumption
  <2>2. JobsOK'
    BY <1>2, <2>1, JobFields, MoveType
  <2>3. LedgerType'
    BY <1>2, UpdateType DEF Tallies
  <2>. QED BY <1>2, <2>2, <2>3
<1>. QED BY <1>1, <1>2 DEF AfterFailure

TypeInv ==
  /\ running \in BOOLEAN /\ inputClosed \in BOOLEAN
  /\ history \in [seen : SUBSET Sigs, order : Seq(Sigs)]
  /\ pending \subseteq Sigs
  /\ JobsOK /\ LedgerType
  /\ gateWait \in Nat /\ out \in 0..OutCap
  /\ since \in 0..Spacing /\ cool \in Nat

LEMMA InitType == Init => TypeInv
<1>. SUFFICES ASSUME Init PROVE TypeInv
  OBVIOUS
<1>1. history \in [seen : SUBSET Sigs, order : Seq(Sigs)]
  BY DEF Init, NoHistory
<1>2. LedgerType
  BY DEF Init, LedgerType, Tallies
<1>3. JobsOK
  BY FreeType DEF Init, Free, JobsOK
<1>4. gateWait \in Nat /\ out \in 0..OutCap /\ since \in 0..Spacing /\ cool \in Nat
  BY FetcherAssumption DEF Init, FetcherAssumption
<1>. QED BY <1>1, <1>2, <1>3, <1>4 DEF Init, TypeInv

LEMMA NextType == TypeInv /\ [Next]_vars => TypeInv'
<1>. SUFFICES ASSUME TypeInv, [Next]_vars PROVE TypeInv'
  OBVIOUS
<1>t. /\ running \in BOOLEAN /\ inputClosed \in BOOLEAN
      /\ history \in [seen : SUBSET Sigs, order : Seq(Sigs)]
      /\ pending \subseteq Sigs /\ JobsOK /\ LedgerType
      /\ gateWait \in Nat /\ out \in 0..OutCap
      /\ since \in 0..Spacing /\ cool \in Nat
  BY DEF TypeInv
<1>j. job' = job => JobsOK'
  BY <1>t DEF JobsOK
<1>n. n' = n => LedgerType'
  BY <1>t DEF LedgerType
<1>1. ASSUME NEW s \in Sigs, SkipDuplicate(s) PROVE TypeInv'
  <2>1. LedgerType'
    BY <1>1, <1>t, UpdateType DEF SkipDuplicate
  <2>. QED BY <1>1, <1>t, <1>j, <2>1 DEF SkipDuplicate, TypeInv
<1>2. ASSUME NEW s \in Sigs, SkipMalformed(s) PROVE TypeInv'
  BY <1>2, <1>t, <1>j, <1>n, RememberType DEF SkipMalformed, TypeInv
<1>3. ASSUME NEW i \in Slots, NEW s \in Sigs, NEW age \in 0..MaxAge, Submit(i, s, age) PROVE TypeInv'
  <2>1. LedgerType'
    BY <1>3, <1>t, UpdateType DEF Submit, Tallies
  <2>2. [pc |-> "gate", sig |-> s, attempt |-> 0, timer |-> 0, age |-> age] \in Job
    BY FetcherAssumption DEF FetcherAssumption, Job
  <2>3. JobsOK'
    BY <1>3, <1>t, <2>2, PlaceType DEF Submit
  <2>4. history' \in [seen : SUBSET Sigs, order : Seq(Sigs)]
    BY <1>3, <1>t, RememberType DEF Submit
  <2>. QED BY <1>3, <1>t, <2>1, <2>3, <2>4 DEF Submit, TypeInv
<1>4. CASE CloseInput
  BY <1>4, <1>t, <1>j, <1>n DEF CloseInput, TypeInv
<1>5. CASE Exit
  BY <1>5, <1>t, <1>j, <1>n DEF Exit, TypeInv
<1>6. CASE Cancel
  <2>1. LedgerType'
    BY <1>6, <1>t, SlotCounts, UpdateType DEF Cancel, Tallies
  <2>2. JobsOK'
    BY <1>6, FreeType DEF Cancel, Free, JobsOK
  <2>. QED BY <1>6, <1>t, <2>1, <2>2 DEF Cancel, TypeInv
<1>7. ASSUME NEW i \in Slots, GateClosed(i) PROVE TypeInv'
  <2>1. JobsOK'
    BY <1>7, <1>t, JobFields, MoveType DEF GateClosed
  <2>. QED BY <1>7, <1>t, <1>n, <2>1 DEF GateClosed, TypeInv
<1>8. ASSUME NEW i \in Slots, StartStale(i) PROVE TypeInv'
  <2>1. LedgerType'
    BY <1>8, <1>t, UpdateType DEF StartStale, Tallies
  <2>2. gateWait' \in Nat
    BY <1>8, FetcherAssumption DEF StartStale, FetcherAssumption
  <2>. QED BY <1>8, <1>t, <2>1, <2>2, CompleteType DEF StartStale, TypeInv
<1>9. ASSUME NEW i \in Slots, StartRpc(i) PROVE TypeInv'
  <2>1. LedgerType'
    BY <1>9, <1>t, UpdateType DEF StartRpc, Tallies
  <2>2. JobsOK'
    BY <1>9, <1>t, JobFields, MoveType, FetcherAssumption DEF StartRpc, FetcherAssumption
  <2>3. gateWait' \in Nat /\ since' \in 0..Spacing
    BY <1>9, FetcherAssumption DEF StartRpc, FetcherAssumption
  <2>. QED BY <1>9, <1>t, <2>1, <2>2, <2>3 DEF StartRpc, TypeInv
<1>10. ASSUME NEW i \in Slots, RpcOk(i) PROVE TypeInv'
  <2>1. LedgerType'
    BY <1>10, <1>t, UpdateType DEF RpcOk, Tallies
  <2>2. 0 \in 0..(MaxAge + 1)
    BY FetcherAssumption DEF FetcherAssumption
  <2>3. JobsOK'
    BY <1>10, <1>t, <2>2, JobFields, MoveType DEF RpcOk
  <2>. QED BY <1>10, <1>t, <2>1, <2>3 DEF RpcOk, TypeInv
<1>11. ASSUME NEW i \in Slots, NEW p \in BOOLEAN, RpcError(i, p) PROVE TypeInv'
  BY <1>11, <1>t, FailureType DEF RpcError, TypeInv
<1>12. ASSUME NEW i \in Slots, NEW r \in RetryAfters, RpcLimited(i, r) PROVE TypeInv'
  <2>1. Backoff[job[i].attempt] \in Nat /\ r \in Nat
    BY <1>t, JobFields, FetcherAssumption DEF FetcherAssumption
  <2>2. gateWait' \in Nat /\ cool' \in Nat
    BY <1>12, <1>t, <2>1 DEF RpcLimited, Larger
  <2>. QED BY <1>12, <1>t, <2>2, FailureType DEF RpcLimited, TypeInv
<1>13. ASSUME NEW i \in Slots, Send(i) PROVE TypeInv'
  <2>1. LedgerType'
    BY <1>13, <1>t, UpdateType DEF Send, Tallies
  <2>2. out' \in 0..OutCap
    BY <1>13, <1>t, FetcherAssumption DEF Send, FetcherAssumption
  <2>. QED BY <1>13, <1>t, <2>1, <2>2, CompleteType DEF Send, TypeInv
<1>14. CASE Consume
  <2>1. out' \in 0..OutCap
    BY <1>14, <1>t, FetcherAssumption DEF Consume, FetcherAssumption
  <2>. QED BY <1>14, <1>t, <1>j, <1>n, <2>1 DEF Consume, TypeInv
<1>15. CASE Tick
  <2>1. ASSUME NEW i \in Slots
        PROVE  job'[i] \in Job /\ job'[i].pc = job[i].pc /\ job'[i].sig = job[i].sig
    <3>1. job[i] \in Job
      BY <1>t DEF JobsOK
    <3>2. Less(job[i].timer) \in Nat
      BY <1>t, JobFields DEF Less
    <3>3. job[i].age <= MaxAge => job[i].age + 1 \in 0..(MaxAge + 1)
      BY <1>t, JobFields, FetcherAssumption, SMTT(60) DEF FetcherAssumption
    <3>. QED BY <1>15, <3>1, <3>2, <3>3 DEF Tick, Job
  <2>2. JobsOK'
    BY <1>15, <1>t, <2>1 DEF Tick, JobsOK
  <2>3. gateWait' \in Nat /\ cool' \in Nat /\ since' \in 0..Spacing
    BY <1>15, <1>t, FetcherAssumption DEF Tick, Less, FetcherAssumption
  <2>. QED BY <1>15, <1>t, <1>n, <2>2, <2>3 DEF Tick, TypeInv
<1>16. CASE UNCHANGED vars
  BY <1>16, <1>t, <1>j, <1>n DEF vars, TypeInv
<1>. QED
  BY <1>1, <1>2, <1>3, <1>4, <1>5, <1>6, <1>7, <1>8, <1>9, <1>10, <1>11, <1>12,
     <1>13, <1>14, <1>15, <1>16, NextCases

LEMMA TypeCorrect == Spec => []TypeInv
BY InitType, NextType, PTL DEF Spec

-----------------------------------------------------------------------------
(* Pacing.  What the gate still waits covers both what is left of every    *)
(* cooldown and what is left of the spacing since the last start.          *)

PaceInv == gateWait >= cool /\ gateWait + since >= Spacing

LEMMA NextPace == TypeInv /\ PaceInv /\ [Next]_vars => PaceInv'
<1>. SUFFICES ASSUME TypeInv, PaceInv, [Next]_vars PROVE PaceInv'
  OBVIOUS
<1>. USE FetcherAssumption DEF FetcherAssumption, TypeInv, PaceInv
<1>1. ASSUME NEW i \in Slots, StartStale(i) PROVE PaceInv'
  BY <1>1 DEF StartStale
<1>2. ASSUME NEW i \in Slots, StartRpc(i) PROVE PaceInv'
  BY <1>2 DEF StartRpc
<1>3. ASSUME NEW i \in Slots, NEW r \in RetryAfters, RpcLimited(i, r) PROVE PaceInv'
  <2>1. Backoff[job[i].attempt] \in Nat /\ r \in Nat
    BY JobFields
  <2>2. Larger(r, Backoff[job[i].attempt]) \in Nat
    BY <2>1 DEF Larger
  <2>3. PICK wait \in Nat : /\ gateWait' = Larger(gateWait, wait) /\ cool' = Larger(cool, wait)
                            /\ since' = since
    BY <1>3, <2>2 DEF RpcLimited
  <2>. QED BY <2>3 DEF Larger
<1>4. CASE Tick
  BY <1>4, SMTT(60) DEF Tick, Less
<1>5. ASSUME UNCHANGED <<gateWait, since, cool>> PROVE PaceInv'
  BY <1>5
<1>. QED
  BY <1>1, <1>2, <1>3, <1>4, <1>5, NextCases
     DEF SkipDuplicate, SkipMalformed, Submit, CloseInput, Exit, Cancel, GateClosed,
         RpcOk, RpcError, Send, Consume, vars

LEMMA PaceCorrect == Spec => [](TypeInv /\ PaceInv)
<1>1. Init => PaceInv
  BY FetcherAssumption DEF FetcherAssumption, Init, PaceInv
<1>. QED BY <1>1, NextPace, InitType, NextType, PTL DEF Spec

\* Only StartRpc takes a job from the gate into a call.
LEMMA Starts ==
  ASSUME TypeInv, Next, NEW i \in Slots, job[i].pc = "gate", job'[i].pc = "rpc"
  PROVE  gateWait = 0
<1>j. job \in [Slots -> Job] /\ Free.pc = "free"
  BY DEF TypeInv, JobsOK, Free
<1>m. ASSUME NEW k \in Slots, NEW pc, NEW attempt, NEW timer, NEW age,
             Move(k, pc, attempt, timer, age), pc # "rpc"
      PROVE  FALSE
  BY <1>m, <1>j DEF Move
<1>1. \A k \in Slots : ~Complete(k)
  BY <1>j DEF Complete
<1>2. \A k \in Slots : \A p : ~AfterFailure(k, p)
  BY <1>1, <1>m DEF AfterFailure
<1>3. \A s \in Sigs : ~SkipDuplicate(s) /\ ~SkipMalformed(s)
  BY DEF SkipDuplicate, SkipMalformed
<1>4. ASSUME NEW k \in Slots, NEW s \in Sigs, NEW age \in 0..MaxAge, Submit(k, s, age)
      PROVE  FALSE
  <2>1. job'[i] = job[i] \/ job'[i].pc = "gate"
    BY <1>4, <1>j DEF Submit
  <2>. QED BY <2>1
<1>5. ~CloseInput /\ ~Exit /\ ~Consume /\ ~UNCHANGED vars
  BY DEF CloseInput, Exit, Consume, vars
<1>6. ~Cancel
  BY <1>j DEF Cancel
<1>7. ~Tick
  BY DEF Tick
<1>8. \A k \in Slots : ~GateClosed(k) /\ ~RpcOk(k)
  BY <1>m DEF GateClosed, RpcOk
<1>9. \A k \in Slots : StartRpc(k) => gateWait = 0
  BY DEF StartRpc
<1>10. \A k \in Slots : ~StartStale(k) /\ ~Send(k)
  BY <1>1 DEF StartStale, Send
<1>11. \A k \in Slots : (\A p \in BOOLEAN : ~RpcError(k, p)) /\ (\A r \in RetryAfters : ~RpcLimited(k, r))
  BY <1>2 DEF RpcError, RpcLimited
<1>. QED BY <1>3, <1>4, <1>5, <1>6, <1>7, <1>8, <1>9, <1>10, <1>11, NextCases

\* RPC calls start at least Spacing apart, over all jobs and retries.
THEOREM RequestsAreSpaced == Spec => StartsSpaced
<1>1. TypeInv /\ PaceInv /\ [Next]_vars =>
        [\A i \in Slots : job[i].pc = "gate" /\ job'[i].pc = "rpc" => since >= Spacing]_vars
  <2>. SUFFICES ASSUME TypeInv, PaceInv, Next, NEW i \in Slots,
                       job[i].pc = "gate", job'[i].pc = "rpc"
                PROVE  since >= Spacing
    OBVIOUS
  <2>1. gateWait = 0
    BY Starts
  <2>. QED BY <2>1, FetcherAssumption DEF FetcherAssumption, TypeInv, PaceInv
<1>. QED BY <1>1, PaceCorrect, PTL DEF Spec, StartsSpaced

\* No RPC call starts while the cooldown of an earlier 429 lasts.
THEOREM CooldownsHold == Spec => CooldownRespected
<1>1. TypeInv /\ PaceInv /\ [Next]_vars =>
        [\A i \in Slots : job[i].pc = "gate" /\ job'[i].pc = "rpc" => cool = 0]_vars
  <2>. SUFFICES ASSUME TypeInv, PaceInv, Next, NEW i \in Slots,
                       job[i].pc = "gate", job'[i].pc = "rpc"
                PROVE  cool = 0
    OBVIOUS
  <2>1. gateWait = 0
    BY Starts
  <2>. QED BY <2>1 DEF TypeInv, PaceInv
<1>. QED BY <1>1, PaceCorrect, PTL DEF Spec, CooldownRespected

-----------------------------------------------------------------------------
(* One job per signature.  It does not rest on the bounded history: what   *)
(* `pending` holds is exactly what the jobs work on.                       *)

PendingInv ==
  /\ pending = {job[i].sig : i \in Active}
  /\ OneJobPerSignature

\* A step that keeps every job's signature, and which slots are free.
LEMMA SameJobs ==
  ASSUME PendingInv, UNCHANGED pending,
         \A i \in Slots : /\ job'[i].sig = job[i].sig
                          /\ job'[i].pc = "free" <=> job[i].pc = "free"
  PROVE  PendingInv'
<1>1. Active' = Active
  BY DEF Active
<1>2. \A i \in Active : job'[i].sig = job[i].sig
  BY DEF Active
<1>. QED BY <1>1, <1>2 DEF PendingInv, OneJobPerSignature

LEMMA MovedJob ==
  ASSUME JobsOK, PendingInv, UNCHANGED pending, NEW i \in Slots, job[i].pc # "free",
         NEW pc \in {"gate", "rpc", "send"}, NEW attempt, NEW timer, NEW age,
         Move(i, pc, attempt, timer, age)
  PROVE  PendingInv'
<1>1. \A k \in Slots : /\ job'[k].sig = job[k].sig
                       /\ job'[k].pc = "free" <=> job[k].pc = "free"
  BY DEF JobsOK, Move
<1>. QED BY <1>1, SameJobs

LEMMA CompletedJob ==
  ASSUME JobsOK, PendingInv, NEW i \in Slots, job[i].pc # "free", Complete(i)
  PROVE  PendingInv'
<1>1. \A k \in Slots \ {i} : job'[k] = job[k]
  BY DEF JobsOK, Complete
<1>2. job'[i].pc = "free"
  BY DEF JobsOK, Complete, Free
<1>3. Active' = Active \ {i} /\ i \in Active
  BY <1>1, <1>2 DEF Active
<1>4. {job'[k].sig : k \in Active'} = {job[k].sig : k \in Active \ {i}}
  BY <1>1, <1>3 DEF Active
<1>5. {job[k].sig : k \in Active \ {i}} = {job[k].sig : k \in Active} \ {job[i].sig}
  BY <1>3 DEF PendingInv, OneJobPerSignature
<1>6. pending' = {job'[k].sig : k \in Active'}
  BY <1>4, <1>5 DEF PendingInv, Complete
<1>7. OneJobPerSignature'
  BY <1>1, <1>3 DEF PendingInv, OneJobPerSignature, Active
<1>. QED BY <1>6, <1>7 DEF PendingInv

LEMMA FailedJob ==
  ASSUME JobsOK, PendingInv, NEW i \in Slots, job[i].pc # "free", NEW p, AfterFailure(i, p)
  PROVE  PendingInv'
BY CompletedJob, MovedJob DEF AfterFailure

LEMMA NextPending == TypeInv /\ PendingInv /\ [Next]_vars => PendingInv'
<1>. SUFFICES ASSUME TypeInv, PendingInv, [Next]_vars PROVE PendingInv'
  OBVIOUS
<1>j. JobsOK
  BY DEF TypeInv
<1>s. UNCHANGED <<pending, job>> => PendingInv'
  BY SameJobs
<1>1. ASSUME NEW i \in Slots, NEW s \in Sigs, NEW age \in 0..MaxAge, Submit(i, s, age)
      PROVE  PendingInv'
  <2>1. \A k \in Slots \ {i} : job'[k] = job[k]
    BY <1>1, <1>j DEF Submit, JobsOK
  <2>2. job'[i].pc = "gate" /\ job'[i].sig = s
    BY <1>1, <1>j DEF Submit, JobsOK
  <2>3. Active' = Active \cup {i} /\ i \notin Active
    BY <1>1, <2>1, <2>2 DEF Active, Submit
  <2>4. \A k \in Active : job'[k] = job[k]
    BY <2>1, <2>3 DEF Active
  <2>5. {job'[k].sig : k \in Active'} = {job[k].sig : k \in Active} \cup {s}
    BY <2>2, <2>3, <2>4
  <2>6. pending' = {job'[k].sig : k \in Active'}
    BY <1>1, <2>5 DEF PendingInv, Submit
  <2>7. \A k \in Active : job[k].sig # s
    BY <1>1 DEF PendingInv, Submit
  <2>8. OneJobPerSignature'
    BY <2>2, <2>3, <2>4, <2>7 DEF PendingInv, OneJobPerSignature
  <2>. QED BY <2>6, <2>8 DEF PendingInv
<1>2. CASE Cancel
  <2>1. Active' = {}
    BY <1>2 DEF Cancel, Active, Free
  <2>. QED BY <1>2, <2>1 DEF Cancel, PendingInv, OneJobPerSignature
<1>3. ASSUME NEW i \in Slots, GateClosed(i) PROVE PendingInv'
  BY <1>3, <1>j, MovedJob DEF GateClosed
<1>4. ASSUME NEW i \in Slots, StartStale(i) PROVE PendingInv'
  BY <1>4, <1>j, CompletedJob DEF StartStale
<1>5. ASSUME NEW i \in Slots, StartRpc(i) PROVE PendingInv'
  BY <1>5, <1>j, MovedJob DEF StartRpc
<1>6. ASSUME NEW i \in Slots, RpcOk(i) PROVE PendingInv'
  BY <1>6, <1>j, MovedJob DEF RpcOk
<1>7. ASSUME NEW i \in Slots, NEW p \in BOOLEAN, RpcError(i, p) PROVE PendingInv'
  BY <1>7, <1>j, FailedJob DEF RpcError
<1>8. ASSUME NEW i \in Slots, NEW r \in RetryAfters, RpcLimited(i, r) PROVE PendingInv'
  BY <1>8, <1>j, FailedJob DEF RpcLimited
<1>9. ASSUME NEW i \in Slots, Send(i) PROVE PendingInv'
  BY <1>9, <1>j, CompletedJob DEF Send
<1>10. CASE Tick
  <2>1. \A k \in Slots : job'[k].sig = job[k].sig /\ job'[k].pc = job[k].pc
    BY <1>10 DEF Tick
  <2>. QED BY <1>10, <2>1, SameJobs DEF Tick
<1>. QED
  BY <1>s, <1>1, <1>2, <1>3, <1>4, <1>5, <1>6, <1>7, <1>8, <1>9, <1>10, NextCases
     DEF SkipDuplicate, SkipMalformed, CloseInput, Exit, Consume, vars

\* No two jobs ever work on the same signature.
THEOREM NoSignatureFetchedTwiceAtOnce == Spec => []OneJobPerSignature
<1>1. Init => PendingInv
  BY DEF Init, PendingInv, OneJobPerSignature, Active, Free
<1>2. PendingInv => OneJobPerSignature
  BY DEF PendingInv
<1>. QED BY <1>1, <1>2, NextPending, InitType, NextType, PTL DEF Spec

-----------------------------------------------------------------------------
(* The ledger of jobs.                                                     *)

LEMMA Filled ==
  ASSUME NEW S \in SUBSET Slots, NEW i \in Slots
  PROVE  /\ i \notin S => Cardinality(S \cup {i}) = Cardinality(S) + 1
         /\ i \in S => Cardinality(S \ {i}) = Cardinality(S) - 1
         /\ i \notin S => S \ {i} = S
<1>1. IsFiniteSet(S)
  BY FetcherAssumption, FS_Subset DEF FetcherAssumption
<1>2. i \notin S => Cardinality(S \cup {i}) = Cardinality(S) + 1
  BY <1>1, FS_AddElement
<1>3. i \in S => Cardinality(S \ {i}) = Cardinality(S) - 1
  BY <1>1, FS_RemoveElement
<1>. QED BY <1>2, <1>3

\* A job that goes on leaves the set of jobs alone; it changes the calls in
\* flight by entering or leaving one.
LEMMA MovedCounts ==
  ASSUME JobsOK, NEW i \in Slots, job[i].pc # "free",
         NEW pc \in {"gate", "rpc", "send"}, NEW attempt, NEW timer, NEW age,
         Move(i, pc, attempt, timer, age)
  PROVE  /\ Active' = Active
         /\ Pc("rpc")' = IF pc = "rpc" THEN Pc("rpc") \cup {i} ELSE Pc("rpc") \ {i}
<1>1. \A k \in Slots \ {i} : job'[k] = job[k]
  BY DEF JobsOK, Move
<1>2. job'[i].pc = pc
  BY DEF JobsOK, Move
<1>. QED BY <1>1, <1>2 DEF Active, Pc

LEMMA CompletedCounts ==
  ASSUME JobsOK, NEW i \in Slots, job[i].pc # "free", Complete(i)
  PROVE  Active' = Active \ {i} /\ Pc("rpc")' = Pc("rpc") \ {i}
<1>1. \A k \in Slots \ {i} : job'[k] = job[k]
  BY DEF JobsOK, Complete
<1>2. job'[i].pc = "free"
  BY DEF JobsOK, Complete, Free
<1>. QED BY <1>1, <1>2 DEF Active, Pc

\* What a step must do to the counters: the gauges follow the sets, and what is
\* started less what has ended follows the jobs.
LEMMA Balanced ==
  ASSUME LedgerType, LedgerType', JobsAccounted,
         n'.jobs - n.jobs = Cardinality(Active)' - Cardinality(Active),
         n'.current - n.current = Cardinality(Pc("rpc"))' - Cardinality(Pc("rpc")),
         (n'.submitted - n.submitted) - (n'.delivered - n.delivered) - (n'.failures - n.failures)
           - (n'.stale - n.stale) - (n'.cancelled - n.cancelled) = n'.jobs - n.jobs
  PROVE  JobsAccounted'
<1>1. /\ Cardinality(Active) \in Nat /\ Cardinality(Pc("rpc")) \in Nat
      /\ Cardinality(Active)' \in Nat /\ Cardinality(Pc("rpc"))' \in Nat
  BY SlotCounts, SlotCountsNext
<1>2. \A c \in Counter : n[c] \in Int /\ n'[c] \in Int
  BY DEF LedgerType
<1>3. /\ n.submitted = n.delivered + n.failures + n.stale + n.cancelled + Cardinality(Active)
      /\ n.jobs = Cardinality(Active) /\ n.current = Cardinality(Pc("rpc"))
  BY DEF JobsAccounted
<1>4. n'.jobs = Cardinality(Active)' /\ n'.current = Cardinality(Pc("rpc"))'
  <2>1. n.jobs \in Int /\ n'.jobs \in Int /\ n.current \in Int /\ n'.current \in Int
    BY <1>2 DEF Counter
  <2>. QED BY <1>1, <1>3, <2>1
<1>5. n'.submitted = n'.delivered + n'.failures + n'.stale + n'.cancelled + n'.jobs
  BY <1>2, <1>3 DEF Counter
<1>. QED BY <1>4, <1>5 DEF JobsAccounted

LEMMA Unbalanced ==
  ASSUME LedgerType, JobsAccounted, Active' = Active, Pc("rpc")' = Pc("rpc"),
         \A c \in Counter \ {"duplicates"} : n'[c] = n[c]
  PROVE  JobsAccounted'
BY DEF JobsAccounted, Counter

LEMMA FailedCounts ==
  ASSUME JobsOK, LedgerType, LedgerType', JobsAccounted,
         NEW i \in Slots, NEW p, job[i].pc = "rpc", AfterFailure(i, p)
  PROVE  JobsAccounted'
<1>. i \in Active /\ i \in Pc("rpc") /\ Active \subseteq Slots /\ Pc("rpc") \subseteq Slots
  BY DEF Active, Pc
<1>. n \in [Counter -> Int]
  BY DEF LedgerType
<1>1. CASE Complete(i) /\ Update([failures |-> 1, jobs |-> -1, current |-> -1])
  <2>1. /\ n'.failures = n.failures + 1 /\ n'.jobs = n.jobs - 1 /\ n'.current = n.current - 1
        /\ UNCHANGED <<n.submitted, n.delivered, n.stale, n.cancelled>>
    BY <1>1, UpdateAt DEF Counter
  <2>2. /\ Cardinality(Active)' = Cardinality(Active) - 1
        /\ Cardinality(Pc("rpc"))' = Cardinality(Pc("rpc")) - 1
    BY <1>1, CompletedCounts, Filled
  <2>. QED BY <2>1, <2>2, Balanced, SlotCounts DEF Counter
<1>2. CASE /\ Move(i, "gate", job[i].attempt + 1, Backoff[job[i].attempt], job[i].age)
           /\ Update([current |-> -1])
  <2>1. /\ n'.current = n.current - 1
        /\ UNCHANGED <<n.submitted, n.delivered, n.stale, n.cancelled, n.failures, n.jobs>>
    BY <1>2, UpdateAt DEF Counter
  <2>2. /\ Cardinality(Active)' = Cardinality(Active)
        /\ Cardinality(Pc("rpc"))' = Cardinality(Pc("rpc")) - 1
    BY <1>2, MovedCounts, Filled
  <2>. QED BY <2>1, <2>2, Balanced, SlotCounts DEF Counter
<1>. QED BY <1>1, <1>2 DEF AfterFailure

LEMMA NextLedger == TypeInv /\ JobsAccounted /\ [Next]_vars => JobsAccounted'
<1>. SUFFICES ASSUME TypeInv, JobsAccounted, [Next]_vars PROVE JobsAccounted'
  OBVIOUS
<1>t. JobsOK /\ LedgerType /\ LedgerType' /\ n \in [Counter -> Int]
  BY NextType DEF TypeInv, LedgerType
<1>p. Active \subseteq Slots /\ Pc("rpc") \subseteq Slots
  BY DEF Active, Pc
<1>s. UNCHANGED <<n, job>> => JobsAccounted'
  BY DEF JobsAccounted, Active, Pc
<1>1. ASSUME NEW s \in Sigs, SkipDuplicate(s) PROVE JobsAccounted'
  <2>1. \A c \in Counter \ {"duplicates"} : n'[c] = n[c]
    BY <1>1, <1>t, UpdateAt DEF SkipDuplicate
  <2>2. Active' = Active /\ Pc("rpc")' = Pc("rpc")
    BY <1>1 DEF SkipDuplicate, Active, Pc
  <2>. QED BY <1>t, <2>1, <2>2, Unbalanced
<1>2. ASSUME NEW i \in Slots, NEW s \in Sigs, NEW age \in 0..MaxAge, Submit(i, s, age)
      PROVE  JobsAccounted'
  <2>1. /\ n'.submitted = n.submitted + 1 /\ n'.jobs = n.jobs + 1
        /\ UNCHANGED <<n.delivered, n.stale, n.cancelled, n.failures, n.current>>
    BY <1>2, <1>t, UpdateAt DEF Submit, Counter
  <2>2. /\ \A k \in Slots \ {i} : job'[k] = job[k]
        /\ job'[i].pc = "gate" /\ job[i].pc = "free"
    BY <1>2, <1>t DEF Submit, JobsOK
  <2>3. Active' = Active \cup {i} /\ i \notin Active /\ Pc("rpc")' = Pc("rpc")
    BY <2>2 DEF Active, Pc
  <2>4. /\ Cardinality(Active)' = Cardinality(Active) + 1
        /\ Cardinality(Pc("rpc"))' = Cardinality(Pc("rpc"))
    BY <1>p, <2>3, Filled
  <2>. QED BY <1>t, <2>1, <2>4, Balanced, SlotCounts DEF Counter
<1>3. CASE Cancel
  <2>. DEFINE a == Cardinality(Active)
              r == Cardinality(Pc("rpc"))
  <2>. a \in Nat /\ r \in Nat
    BY SlotCounts
  <2>1. Update([cancelled |-> a, jobs |-> -a, current |-> -r])
    BY <1>3 DEF Cancel
  <2>2. Active' = {} /\ Pc("rpc")' = {}
    BY <1>3 DEF Cancel, Active, Pc, Free
  <2>3. Cardinality(Active)' = 0 /\ Cardinality(Pc("rpc"))' = 0
    BY <2>2, FS_EmptySet
  <2>. HIDE DEF a, r
  <2>4. /\ n'.cancelled = n.cancelled + a /\ n'.jobs = n.jobs + (-a) /\ n'.current = n.current + (-r)
        /\ UNCHANGED <<n.submitted, n.delivered, n.stale, n.failures>>
    BY <1>t, <2>1, UpdateAt DEF Counter
  <2>5. \A c \in Counter : n[c] \in Int
    BY <1>t
  <2>6. /\ n'.jobs - n.jobs = 0 - a /\ n'.current - n.current = 0 - r
        /\ (n'.submitted - n.submitted) - (n'.delivered - n.delivered) - (n'.failures - n.failures)
             - (n'.stale - n.stale) - (n'.cancelled - n.cancelled) = n'.jobs - n.jobs
    BY <2>4, <2>5 DEF Counter
  <2>. QED BY <1>t, <2>3, <2>6, Balanced DEF a, r
<1>4. ASSUME NEW i \in Slots, GateClosed(i) PROVE JobsAccounted'
  <2>1. Active' = Active /\ Pc("rpc")' = Pc("rpc")
    BY <1>4, <1>t, MovedCounts DEF GateClosed, Pc
  <2>. QED BY <1>4, <1>t, <2>1, Unbalanced DEF GateClosed
<1>5. ASSUME NEW i \in Slots, StartStale(i) PROVE JobsAccounted'
  <2>1. /\ n'.stale = n.stale + 1 /\ n'.jobs = n.jobs - 1
        /\ UNCHANGED <<n.submitted, n.delivered, n.cancelled, n.failures, n.current>>
    BY <1>5, <1>t, UpdateAt DEF StartStale, Counter
  <2>2. i \in Active /\ i \notin Pc("rpc")
    BY <1>5 DEF StartStale, Active, Pc
  <2>3. /\ Cardinality(Active)' = Cardinality(Active) - 1
        /\ Cardinality(Pc("rpc"))' = Cardinality(Pc("rpc"))
    <3>1. Active' = Active \ {i} /\ Pc("rpc")' = Pc("rpc") \ {i}
      BY <1>5, <1>t, CompletedCounts DEF StartStale
    <3>. QED BY <1>p, <2>2, <3>1, Filled
  <2>. QED BY <1>t, <2>1, <2>3, Balanced, SlotCounts DEF Counter
<1>6. ASSUME NEW i \in Slots, StartRpc(i) PROVE JobsAccounted'
  <2>1. /\ n'.current = n.current + 1
        /\ UNCHANGED <<n.submitted, n.delivered, n.cancelled, n.failures, n.stale, n.jobs>>
    BY <1>6, <1>t, UpdateAt DEF StartRpc, Counter
  <2>2. i \notin Pc("rpc")
    BY <1>6 DEF StartRpc, Pc
  <2>3. Active' = Active /\ Pc("rpc")' = Pc("rpc") \cup {i}
    BY <1>6, <1>t, MovedCounts DEF StartRpc
  <2>4. /\ Cardinality(Active)' = Cardinality(Active)
        /\ Cardinality(Pc("rpc"))' = Cardinality(Pc("rpc")) + 1
    BY <1>p, <2>2, <2>3, Filled
  <2>. QED BY <1>t, <2>1, <2>4, Balanced, SlotCounts DEF Counter
<1>7. ASSUME NEW i \in Slots, RpcOk(i) PROVE JobsAccounted'
  <2>1. /\ n'.current = n.current - 1
        /\ UNCHANGED <<n.submitted, n.delivered, n.cancelled, n.failures, n.stale, n.jobs>>
    <3>1. Update([successes |-> 1, current |-> -1])
      BY <1>7 DEF RpcOk
    <3>. QED BY <3>1, <1>t, UpdateAt DEF Counter
  <2>2. i \in Pc("rpc")
    BY <1>7 DEF RpcOk, Pc
  <2>3. Active' = Active /\ Pc("rpc")' = Pc("rpc") \ {i}
    BY <1>7, <1>t, MovedCounts DEF RpcOk
  <2>4. /\ Cardinality(Active)' = Cardinality(Active)
        /\ Cardinality(Pc("rpc"))' = Cardinality(Pc("rpc")) - 1
    BY <1>p, <2>2, <2>3, Filled
  <2>. QED BY <1>t, <2>1, <2>4, Balanced, SlotCounts DEF Counter
<1>8. ASSUME NEW i \in Slots, NEW p \in BOOLEAN, RpcError(i, p) PROVE JobsAccounted'
  BY <1>8, <1>t, FailedCounts DEF RpcError
<1>9. ASSUME NEW i \in Slots, NEW r \in RetryAfters, RpcLimited(i, r) PROVE JobsAccounted'
  BY <1>9, <1>t, FailedCounts DEF RpcLimited
<1>10. ASSUME NEW i \in Slots, Send(i) PROVE JobsAccounted'
  <2>1. /\ n'.delivered = n.delivered + 1 /\ n'.jobs = n.jobs - 1
        /\ UNCHANGED <<n.submitted, n.stale, n.cancelled, n.failures, n.current>>
    <3>1. Update([delivered |-> 1, jobs |-> -1])
      BY <1>10 DEF Send
    <3>. QED BY <3>1, <1>t, UpdateAt DEF Counter
  <2>2. i \in Active /\ i \notin Pc("rpc")
    BY <1>10 DEF Send, Active, Pc
  <2>3. /\ Cardinality(Active)' = Cardinality(Active) - 1
        /\ Cardinality(Pc("rpc"))' = Cardinality(Pc("rpc"))
    <3>1. Active' = Active \ {i} /\ Pc("rpc")' = Pc("rpc") \ {i}
      BY <1>10, <1>t, CompletedCounts DEF Send
    <3>. QED BY <1>p, <2>2, <3>1, Filled
  <2>. QED BY <1>t, <2>1, <2>3, Balanced, SlotCounts DEF Counter
<1>11. CASE Tick
  <2>1. Active' = Active /\ Pc("rpc")' = Pc("rpc")
    BY <1>11 DEF Tick, Active, Pc
  <2>. QED BY <1>11, <1>t, <2>1, Unbalanced DEF Tick
<1>. QED
  BY <1>s, <1>1, <1>2, <1>3, <1>4, <1>5, <1>6, <1>7, <1>8, <1>9, <1>10, <1>11, NextCases
     DEF SkipMalformed, CloseInput, Exit, Consume, vars

\* Every job that was started is accounted for, and the gauges tell the truth.
THEOREM EveryJobAccounted == Spec => []JobsAccounted
<1>1. Init => JobsAccounted
  <2>. SUFFICES ASSUME Init PROVE JobsAccounted
    OBVIOUS
  <2>1. Active = {} /\ Pc("rpc") = {} /\ \A c \in Counter : n[c] = 0
    BY DEF Init, Active, Pc, Free
  <2>. QED BY <2>1, FS_EmptySet DEF JobsAccounted, Counter
<1>. QED BY <1>1, NextLedger, InitType, NextType, PTL DEF Spec

\* The types, with gauges that never go below zero.
THEOREM TypeSafe == Spec => []TypeOK
<1>1. TypeInv /\ JobsAccounted => TypeOK
  <2>. SUFFICES ASSUME TypeInv, JobsAccounted PROVE TypeOK
    OBVIOUS
  <2>1. n.jobs \in Nat /\ n.current \in Nat
    BY SlotCounts DEF JobsAccounted
  <2>2. n \in [Counter -> Nat]
    BY <2>1 DEF TypeInv, LedgerType, Tallies, Counter
  <2>. QED BY <2>2 DEF TypeInv, TypeOK, JobsOK
<1>. QED BY <1>1, TypeCorrect, EveryJobAccounted, PTL
=============================================================================
