--------------------------- MODULE ScannerProofs ---------------------------
(***************************************************************************)
(* Proofs about Scanner, for any capacities, ages, windows and bounds.     *)
(***************************************************************************)
EXTENDS Scanner, FiniteSetTheorems, SequenceTheorems, TLAPS

\* The next-state relation, action by action.
LEMMA NextCases ==
  ASSUME [Next]_vars, NEW G,
         \A s \in Sig : running /\ Duplicate(s) => G,
         \A s \in Sig : running /\ Push(s) => G,
         \A s \in Sig : running /\ Refuse(s) => G,
         \A e \in queue : running /\ DispatchStale(e) => G,
         \A e \in queue : running /\ DispatchDuplicate(e) => G,
         \A e \in queue : running /\ DispatchJob(e) => G,
         \A e \in jobs : running /\ JobStale(e) => G,
         \A e \in jobs : running /\ JobFails(e) => G,
         running /\ JobLimited => G,
         \A e \in jobs : running /\ JobDone(e) => G,
         Advance => G, WriteFeature => G, Process => G, Shutdown => G, Tick => G,
         UNCHANGED vars => G
  PROVE  G
BY DEF Next, Notify, Dispatch, Job

-----------------------------------------------------------------------------
(* Types.  The numbers in the queue are those of earlier notifications, so *)
(* that an event that is pushed is not in it yet.                          *)

Events == [sig : Sig, at : Nat]

QueueTypes ==
  /\ IsFiniteSet(queue) /\ Cardinality(queue) <= Capacity
  /\ \A e \in queue : e \in [sig : Sig, at : Nat, no : Nat] /\ e.no < n["received"]

Types ==
  /\ now \in Nat /\ start \in Nat /\ running \in BOOLEAN
  /\ n \in [Counter -> Nat]
  /\ QueueTypes
  /\ jobs \subseteq Events /\ IsFiniteSet(jobs)
  /\ out \in Seq(Events)

LEMMA Capacities == Capacity \in Nat /\ Capacity > 0
BY ScannerAssumption DEF ScannerAssumption

\* What counting does to a counter.
LEMMA CountAt ==
  ASSUME n \in [Counter -> Nat], NEW S, Count(S)
  PROVE  /\ n' \in [Counter -> Nat]
         /\ \A c \in Counter : n'[c] = IF c \in S THEN n[c] + 1 ELSE n[c]
         /\ n'["received"] \in Nat /\ n["received"] \in Nat
         /\ n'["received"] >= n["received"]
<1>1. "received" \in Counter
  BY DEF Counter
<1>2. \A c \in Counter : n[c] \in Nat /\ n[c] + 1 \in Nat
  OBVIOUS
<1>. QED BY <1>1, <1>2 DEF Count

\* An eviction and an arrival in the queue.
LEMMA Eviction ==
  ASSUME Types
  PROVE  /\ IsFiniteSet(queue \ Stale) /\ IsFiniteSet(Stale)
         /\ Cardinality(Stale) \in Nat
         /\ Cardinality(queue) \in Nat
         /\ Cardinality(queue \ Stale) = Cardinality(queue) - Cardinality(Stale)
<1>1. Stale \subseteq queue /\ queue \cap Stale = Stale
  BY DEF Stale
<1>. QED BY <1>1, FS_Difference, FS_Subset, FS_CardinalityType, ZenonT(60) DEF Types, QueueTypes

LEMMA Arrival ==
  ASSUME Types, NEW s \in Sig, queue' = (queue \ Stale) \cup {Received(s)}
  PROVE  /\ IsFiniteSet(queue')
         /\ Cardinality(queue') = Cardinality(queue) - Cardinality(Stale) + 1
<1>1. Received(s) \notin queue \ Stale
  BY DEF Types, QueueTypes, Received, Counter
<1>. QED BY <1>1, Eviction, FS_AddElement

\* A refusal evicts nothing: a queue with a stale entry has a place.
LEMMA RefusalEvictsNothing ==
  ASSUME Types, Refuses
  PROVE  Stale = {}
<1>1. Cardinality(Stale) = 0
  BY Eviction, Capacities DEF Types, QueueTypes, Refuses
<1>. QED BY <1>1, Eviction, FS_EmptySet

LEMMA Removal ==
  ASSUME NEW S, IsFiniteSet(S), NEW e \in S
  PROVE  IsFiniteSet(S \ {e}) /\ Cardinality(S \ {e}) = Cardinality(S) - 1
BY FS_RemoveElement

LEMMA InitTypes == Init => Types
<1>1. IsFiniteSet({}) /\ Cardinality({}) = 0
  BY FS_EmptySet
<1>2. <<>> \in Seq(Events)
  OBVIOUS
<1>. QED BY <1>1, <1>2, Capacities DEF Init, Types, QueueTypes

\* A queue that loses an event at most, under counters that do not fall.
LEMMA QueueKept ==
  ASSUME Types, queue' = queue \/ \E e \in queue : queue' = queue \ {e},
         n' \in [Counter -> Nat], n'["received"] >= n["received"]
  PROVE  QueueTypes'
<1>1. IsFiniteSet(queue') /\ Cardinality(queue') <= Capacity
  <2>1. CASE queue' = queue
    BY <2>1 DEF Types, QueueTypes
  <2>2. ASSUME NEW e \in queue, queue' = queue \ {e}
        PROVE  IsFiniteSet(queue') /\ Cardinality(queue') <= Capacity
    <3>1. IsFiniteSet(queue') /\ Cardinality(queue') = Cardinality(queue) - 1
      BY <2>2, Removal DEF Types, QueueTypes
    <3>. QED BY <3>1, FS_CardinalityType, Capacities DEF Types, QueueTypes
  <2>. QED BY <2>1, <2>2
<1>2. "received" \in Counter
  BY DEF Counter
<1>3. n["received"] \in Nat /\ n'["received"] \in Nat
  BY <1>2 DEF Types
<1>4. ASSUME NEW e \in queue' PROVE e \in [sig : Sig, at : Nat, no : Nat] /\ e.no < n'["received"]
  <2>1. e \in queue
    BY <1>4
  <2>2. e \in [sig : Sig, at : Nat, no : Nat] /\ e.no < n["received"] /\ e.no \in Nat
    BY <2>1 DEF Types, QueueTypes
  <2>. QED BY <2>2, <1>3
<1>. QED BY <1>1, <1>4 DEF QueueTypes

LEMMA StepTypes == Types /\ [Next]_vars => Types'
<1>. SUFFICES ASSUME Types, [Next]_vars PROVE Types'
  OBVIOUS
<1>1. ASSUME NEW s \in Sig, Duplicate(s) PROVE Types'
  <2>1. n' \in [Counter -> Nat] /\ QueueTypes'
    BY <1>1, CountAt, QueueKept DEF Duplicate, Types
  <2>. QED BY <1>1, <2>1 DEF Duplicate, Types, trackerVars
<1>2. ASSUME NEW s \in Sig, Push(s) PROVE Types'
  <2>0. "received" \in Counter /\ "evicted" \in Counter /\ "received" # "evicted"
    BY DEF Counter, Outcomes
  <2>1. n' \in [Counter -> Nat] /\ n["received"] \in Nat /\ n'["received"] = n["received"] + 1
    BY <1>2, <2>0, Eviction DEF Push, Types
  <2>2. IsFiniteSet(queue') /\ Cardinality(queue') <= Capacity
    <3>1. Cardinality(queue \ Stale) \in Nat /\ Cardinality(queue \ Stale) < Capacity
      BY <1>2, Eviction, FS_CardinalityType, Capacities DEF Push, Refuses
    <3>2. IsFiniteSet(queue') /\ Cardinality(queue') = Cardinality(queue \ Stale) + 1
      BY <1>2, Arrival, Eviction DEF Push
    <3>. QED BY <3>1, <3>2, Capacities
  <2>3. ASSUME NEW e \in queue'
        PROVE  e \in [sig : Sig, at : Nat, no : Nat] /\ e.no < n'["received"]
    <3>1. CASE e = Received(s)
      BY <3>1, <2>1 DEF Types, Received
    <3>2. CASE e \in queue
      <4>1. e \in [sig : Sig, at : Nat, no : Nat] /\ e.no < n["received"] /\ e.no \in Nat
        BY <3>2 DEF Types, QueueTypes
      <4>. QED BY <4>1, <2>1
    <3>. QED BY <1>2, <3>1, <3>2 DEF Push
  <2>4. QueueTypes'
    BY <2>2, <2>3 DEF QueueTypes
  <2>. QED BY <1>2, <2>1, <2>4 DEF Push, New, Types, trackerVars
<1>3. ASSUME NEW s \in Sig, Refuse(s) PROVE Types'
  <2>1. queue' = queue
    BY <1>3, RefusalEvictsNothing DEF Refuse
  <2>2. n' \in [Counter -> Nat] /\ QueueTypes'
    BY <1>3, <2>1, CountAt, QueueKept DEF Refuse, Types
  <2>. QED BY <1>3, <2>2 DEF Refuse, New, Types, trackerVars
<1>4. ASSUME NEW e \in queue, Take(e), n' \in [Counter -> Nat], n'["received"] >= n["received"],
             jobs' \subseteq Events /\ IsFiniteSet(jobs')
      PROVE  Types'
  <2>1. QueueTypes'
    BY <1>4, QueueKept DEF Take
  <2>. QED BY <1>4, <2>1 DEF Take, Types, trackerVars
<1>5. ASSUME NEW e \in queue, DispatchStale(e) PROVE Types'
  BY <1>4, <1>5, CountAt DEF DispatchStale, Types
<1>6. ASSUME NEW e \in queue, DispatchDuplicate(e) PROVE Types'
  BY <1>4, <1>6, CountAt DEF DispatchDuplicate, Types
<1>7. ASSUME NEW e \in queue, DispatchJob(e) PROVE Types'
  <2>1. Event(e) \in Events
    BY DEF Event, Events, Types, QueueTypes
  <2>2. IsFiniteSet(jobs') /\ jobs' \subseteq Events
    BY <1>7, <2>1, FS_AddElement DEF DispatchJob, Types
  <2>3. n' \in [Counter -> Nat] /\ n'["received"] >= n["received"]
    BY <1>7 DEF DispatchJob, Types, Counter
  <2>4. Take(e)
    BY <1>7 DEF DispatchJob
  <2>. QED BY <1>4, <2>2, <2>3, <2>4
<1>8. ASSUME NEW e \in jobs, JobStale(e) PROVE Types'
  <2>1. n' \in [Counter -> Nat] /\ QueueTypes'
    BY <1>8, CountAt, QueueKept DEF JobStale, Types
  <2>2. IsFiniteSet(jobs') /\ jobs' \subseteq Events
    BY <1>8, Removal DEF JobStale, Types
  <2>. QED BY <1>8, <2>1, <2>2 DEF JobStale, Types, trackerVars
<1>9. ASSUME NEW e \in jobs, JobFails(e) PROVE Types'
  <2>1. n' \in [Counter -> Nat] /\ QueueTypes'
    BY <1>9, CountAt, QueueKept DEF JobFails, Types
  <2>2. IsFiniteSet(jobs') /\ jobs' \subseteq Events
    BY <1>9, Removal DEF JobFails, Types
  <2>. QED BY <1>9, <2>1, <2>2 DEF JobFails, Types, trackerVars
<1>10. ASSUME JobLimited PROVE Types'
  <2>1. n' \in [Counter -> Nat] /\ QueueTypes'
    BY <1>10, CountAt, QueueKept DEF JobLimited, Types
  <2>. QED BY <1>10, <2>1 DEF JobLimited, Types, trackerVars
<1>11. ASSUME NEW e \in jobs, JobDone(e) PROVE Types'
  <2>1. out' \in Seq(Events)
    BY <1>11 DEF JobDone, Types
  <2>2. IsFiniteSet(jobs') /\ jobs' \subseteq Events
    BY <1>11, Removal DEF JobDone, Types
  <2>. QED BY <1>11, <2>1, <2>2 DEF JobDone, Types, QueueTypes, trackerVars
<1>12. ASSUME Advance PROVE Types'
  BY <1>12 DEF Advance, Types, QueueTypes
<1>13. ASSUME WriteFeature PROVE Types'
  BY <1>13 DEF WriteFeature, Types, QueueTypes
<1>14. ASSUME Process PROVE Types'
  <2>1. out # <<>> /\ Head(out) \in Events /\ out' \in Seq(Events)
    <3>1. out # <<>> /\ out' = Tail(out)
      BY <1>14 DEF Process
    <3>. QED BY <3>1 DEF Types
  <2>2. start' \in Nat
    BY <1>14, <2>1 DEF Process, Types, Events
  <2>3. n' \in [Counter -> Nat] /\ QueueTypes'
    BY <1>14, CountAt, QueueKept DEF Process, Types
  <2>. QED BY <1>14, <2>1, <2>2, <2>3 DEF Process, Types
<1>15. ASSUME Shutdown PROVE Types'
  <2>1. IsFiniteSet({}) /\ Cardinality({}) = 0 /\ <<>> \in Seq(Events)
    BY FS_EmptySet
  <2>2. queue' = {} /\ jobs' = {} /\ out' = <<>> /\ running' = FALSE /\ UNCHANGED <<now, start, n>>
    BY <1>15 DEF Shutdown
  <2>3. QueueTypes'
    BY <2>1, <2>2, Capacities DEF QueueTypes
  <2>4. jobs' \subseteq Events /\ IsFiniteSet(jobs') /\ out' \in Seq(Events)
    BY <2>1, <2>2
  <2>. QED BY <2>2, <2>3, <2>4 DEF Types
<1>16. ASSUME Tick PROVE Types'
  BY <1>16 DEF Tick, Types, QueueTypes, trackerVars
<1>17. ASSUME UNCHANGED vars PROVE Types'
  BY <1>17 DEF vars, Types, QueueTypes
<1>. QED
  BY <1>1, <1>2, <1>3, <1>5, <1>6, <1>7, <1>8, <1>9, <1>10, <1>11, <1>12, <1>13, <1>14,
     <1>15, <1>16, <1>17, NextCases

-----------------------------------------------------------------------------
(* The refinement.  Each action receives, settles or stops, or moves work  *)
(* from one stage to the next, which the ledger does not see.              *)

Gone == [o \in Outcomes |-> n[o]]

LEMMA UnderwayNat ==
  ASSUME Types
  PROVE  /\ Cardinality(queue) \in Nat /\ Cardinality(jobs) \in Nat /\ Len(out) \in Nat
         /\ Underway \in Nat
BY FS_CardinalityType DEF Types, QueueTypes, Underway

\* Counting an event in one outcome, or in none.
LEMMA OneLeaves ==
  ASSUME n \in [Counter -> Nat], NEW S, NEW o \in Outcomes, Count(S),
         \A x \in Outcomes : x \in S <=> x = o
  PROVE  Gone' = [Gone EXCEPT ![o] = @ + 1]
<1>1. \A x \in Outcomes : n'[x] = IF x = o THEN n[x] + 1 ELSE n[x]
  BY CountAt DEF Counter
<1>. QED BY <1>1 DEF Gone

LEMMA NoneLeaves ==
  ASSUME n \in [Counter -> Nat], NEW S, Count(S), \A x \in Outcomes : x \notin S
  PROVE  Gone' = Gone
<1>1. \A x \in Outcomes : n'[x] = n[x]
  BY CountAt DEF Counter
<1>. QED BY <1>1 DEF Gone

LEMMA ReceivedMoves ==
  ASSUME n \in [Counter -> Nat], NEW S, Count(S)
  PROVE  /\ "received" \in S => n'["received"] = n["received"] + 1
         /\ "received" \notin S => n'["received"] = n["received"]
<1>1. "received" \in Counter
  BY DEF Counter
<1>. QED BY <1>1, CountAt

LEMMA SettleStep ==
  ASSUME Types, running, UNCHANGED running, NEW o \in Outcomes, NEW S, Count(S),
         \A x \in Outcomes : x \in S <=> x = o, "received" \notin S,
         Underway > 0, Underway' = Underway - 1
  PROVE  Promise!Next
<1>1. Gone' = [Gone EXCEPT ![o] = @ + 1] /\ n'["received"] = n["received"]
  BY OneLeaves, ReceivedMoves DEF Types
<1>. QED BY <1>1 DEF Gone, Promise!Next, Promise!Settle, Promise!Leaves

LEMMA ReceiveStep ==
  ASSUME Types, running, UNCHANGED running, NEW o \in Outcomes, Count({"received", o}),
         Underway' = Underway
  PROVE  Promise!Next
<1>1. "received" \notin Outcomes
  BY DEF Outcomes
<1>2. Gone' = [Gone EXCEPT ![o] = @ + 1]
  BY <1>1, OneLeaves DEF Types
<1>3. n'["received"] = n["received"] + 1
  BY ReceivedMoves DEF Types
<1>. QED BY <1>2, <1>3 DEF Gone, Promise!Next, Promise!Receive, Promise!Leaves

\* A push is received and underway; what it evicted has left.
LEMMA PushStep ==
  ASSUME Types, running, NEW s \in Sig, Push(s)
  PROVE  Promise!Next
<1> DEFINE k == Cardinality(Stale)
<1>1. k \in Nat /\ k <= Cardinality(queue) /\ Underway' = Underway + 1 - k
  <2>1. Cardinality(queue') = Cardinality(queue) - k + 1 /\ UNCHANGED <<jobs, out>>
    BY Arrival DEF Push, New
  <2>2. k \in Nat /\ k <= Cardinality(queue)
    BY Eviction, FS_CardinalityType
  <2>. QED BY <2>1, <2>2, UnderwayNat DEF Underway
<1>2. /\ "received" \in Counter /\ "evicted" \in Outcomes
      /\ "received" \notin Outcomes /\ Outcomes \subseteq Counter
  BY DEF Counter, Outcomes
<1>3. n'["received"] = n["received"] + 1
  BY <1>2 DEF Push, Types
<1>4. Gone' = [Gone EXCEPT !["evicted"] = @ + k]
  <2>1. \A x \in Outcomes : n'[x] = IF x = "evicted" THEN n[x] + k ELSE n[x]
    BY <1>2 DEF Push, Types
  <2>. QED BY <2>1, <1>2 DEF Gone
<1>5. running' = running
  BY DEF Push, New
<1>6. CASE k = 0
  <2>1. Gone' = Gone
    <3>1. \A x \in Outcomes : Gone'[x] = Gone[x]
      <4>1. \A x \in Outcomes : Gone[x] \in Nat /\ Gone'[x] = n'[x]
        BY <1>2 DEF Gone, Types
      <4>. QED BY <1>4, <1>6, <4>1 DEF Gone
    <3>. QED BY <3>1 DEF Gone
  <2>2. Underway' = Underway + 1
    BY <1>1, <1>6, UnderwayNat
  <2>. QED BY <1>3, <1>5, <2>1, <2>2 DEF Gone, Promise!Next, Promise!Receive
<1>7. CASE k > 0
  <2>1. k \in 1 .. Underway
    BY <1>1, <1>7, UnderwayNat DEF Underway
  <2>. QED BY <1>1, <1>2, <1>3, <1>4, <1>5, <2>1 DEF Gone, Promise!Next, Promise!Receive
<1>. QED BY <1>1, <1>6, <1>7

LEMMA StepRefines == Types /\ [Next]_vars => [Promise!Next]_(Promise!vars)
<1>. SUFFICES ASSUME Types, [Next]_vars PROVE [Promise!Next]_(Promise!vars)
  OBVIOUS
<1> DEFINE G == [Promise!Next]_(Promise!vars)
<1> HIDE DEF G
<1>0. ASSUME UNCHANGED <<running, Gone, Underway>>, n'["received"] = n["received"] PROVE G
  BY <1>0 DEF G, Gone, Promise!vars
<1>a. ASSUME Promise!Next PROVE G
  BY <1>a DEF G
<1>1. ASSUME NEW s \in Sig, running, Duplicate(s) PROVE G
  <2>1. Count({"received", "duplicates"}) /\ UNCHANGED <<running, queue, jobs, out>>
    BY <1>1 DEF Duplicate
  <2>. QED BY <1>1, <1>a, <2>1, ReceiveStep DEF Underway, Outcomes
<1>2. ASSUME NEW s \in Sig, running, Push(s) PROVE G
  BY <1>2, <1>a, PushStep
<1>3. ASSUME NEW s \in Sig, running, Refuse(s) PROVE G
  <2>1. Count({"received", "dropped"}) /\ UNCHANGED <<running, queue, jobs, out>>
    BY <1>3, RefusalEvictsNothing DEF Refuse, New
  <2>. QED BY <1>3, <1>a, <2>1, ReceiveStep DEF Underway, Outcomes
<1>4. ASSUME NEW e \in queue, Take(e)
      PROVE  /\ Cardinality(queue') = Cardinality(queue) - 1 /\ Cardinality(queue) > 0
             /\ UNCHANGED <<running, out>>
  <2>1. Cardinality(queue') = Cardinality(queue) - 1 /\ Cardinality(queue') \in Nat
    BY <1>4, Removal, FS_CardinalityType DEF Take, Types, QueueTypes
  <2>. QED BY <1>4, <2>1, UnderwayNat DEF Take
<1>5. ASSUME NEW e \in queue, running, DispatchStale(e) PROVE G
  <2>1. Take(e) /\ Count({"stale_fetch"}) /\ UNCHANGED jobs
    BY <1>5 DEF DispatchStale
  <2>2. Underway > 0 /\ Underway' = Underway - 1 /\ UNCHANGED running
    BY <1>4, <2>1, UnderwayNat DEF Underway
  <2>. QED BY <1>5, <1>a, <2>1, <2>2, SettleStep DEF Outcomes
<1>6. ASSUME NEW e \in queue, running, DispatchDuplicate(e) PROVE G
  <2>1. Take(e) /\ Count({"duplicates"}) /\ UNCHANGED jobs
    BY <1>6 DEF DispatchDuplicate
  <2>2. Underway > 0 /\ Underway' = Underway - 1 /\ UNCHANGED running
    BY <1>4, <2>1, UnderwayNat DEF Underway
  <2>. QED BY <1>6, <1>a, <2>1, <2>2, SettleStep DEF Outcomes
<1>7. ASSUME NEW e \in queue, running, DispatchJob(e) PROVE G
  <2>1. Take(e) /\ UNCHANGED n /\ jobs' = jobs \cup {Event(e)} /\ Event(e) \notin jobs
    BY <1>7 DEF DispatchJob, Event
  <2>2. Cardinality(jobs') = Cardinality(jobs) + 1
    BY <2>1, FS_AddElement DEF Types
  <2>3. Underway' = Underway /\ UNCHANGED running
    BY <1>4, <2>1, <2>2, UnderwayNat DEF Underway
  <2>. QED BY <1>0, <2>1, <2>3 DEF Gone
<1>8. ASSUME NEW e \in jobs, jobs' = jobs \ {e}
      PROVE  Cardinality(jobs') = Cardinality(jobs) - 1 /\ Cardinality(jobs) > 0
  <2>1. Cardinality(jobs') = Cardinality(jobs) - 1 /\ Cardinality(jobs') \in Nat
    BY <1>8, Removal, FS_CardinalityType DEF Types
  <2>. QED BY <2>1, UnderwayNat
<1>9. ASSUME NEW e \in jobs, running, JobStale(e) PROVE G
  <2>1. Count({"stale_fetch"}) /\ jobs' = jobs \ {e} /\ UNCHANGED <<queue, out, running>>
    BY <1>9 DEF JobStale
  <2>2. Underway > 0 /\ Underway' = Underway - 1
    <3>1. Cardinality(jobs') = Cardinality(jobs) - 1 /\ Cardinality(jobs) > 0
      BY <1>8, <2>1
    <3>2. UNCHANGED <<queue, out>>
      BY <2>1
    <3>. QED BY <3>1, <3>2, UnderwayNat DEF Underway
  <2>. QED BY <1>9, <1>a, <2>1, <2>2, SettleStep DEF Outcomes
<1>10. ASSUME NEW e \in jobs, running, JobFails(e) PROVE G
  <2>1. Count({"failures"}) /\ jobs' = jobs \ {e} /\ UNCHANGED <<queue, out, running>>
    BY <1>10 DEF JobFails
  <2>2. Underway > 0 /\ Underway' = Underway - 1
    <3>1. Cardinality(jobs') = Cardinality(jobs) - 1 /\ Cardinality(jobs) > 0
      BY <1>8, <2>1
    <3>2. UNCHANGED <<queue, out>>
      BY <2>1
    <3>. QED BY <3>1, <3>2, UnderwayNat DEF Underway
  <2>. QED BY <1>10, <1>a, <2>1, <2>2, SettleStep DEF Outcomes
<1>11. ASSUME JobLimited PROVE G
  <2>1. Count({"rate_limits"}) /\ UNCHANGED <<running, queue, jobs, out>>
    BY <1>11 DEF JobLimited
  <2>2. Gone' = Gone /\ n'["received"] = n["received"]
    BY <2>1, NoneLeaves, ReceivedMoves DEF Types, Outcomes
  <2>. QED BY <1>0, <2>1, <2>2 DEF Underway
<1>12. ASSUME NEW e \in jobs, JobDone(e) PROVE G
  <2>1. /\ jobs' = jobs \ {e} /\ out' = Append(out, e) /\ UNCHANGED <<queue, n, running>>
    BY <1>12 DEF JobDone
  <2>2. Len(out') = Len(out) + 1
    BY <2>1 DEF Types
  <2>3. Underway' = Underway
    <3>1. Cardinality(jobs') = Cardinality(jobs) - 1 /\ UNCHANGED queue
      BY <1>8, <2>1
    <3>. QED BY <2>2, <3>1, UnderwayNat DEF Underway
  <2>. QED BY <1>0, <2>1, <2>3 DEF Gone
<1>13. ASSUME UNCHANGED <<queue, jobs, out, n, running>> PROVE G
  BY <1>0, <1>13 DEF Gone, Underway
<1>14. ASSUME Process PROVE G
  <2>1. running /\ out # <<>> /\ out' = Tail(out) /\ UNCHANGED <<queue, jobs, running>>
    BY <1>14 DEF Process
  <2>2. Len(out) > 0 /\ Len(out') = Len(out) - 1
    BY <2>1 DEF Types
  <2>3. Underway > 0 /\ Underway' = Underway - 1
    BY <2>1, <2>2, UnderwayNat DEF Underway
  <2>4. PICK S : S \in {{"processed"}, {"processed", "stale_momentum"}} /\ Count(S)
    <3>1. Count({"processed"} \cup IF Older(Head(out), MaxMomentumAge) THEN {"stale_momentum"} ELSE {})
      BY <1>14 DEF Process
    <3>2. CASE Older(Head(out), MaxMomentumAge)
      <4>1. {"processed"} \cup {"stale_momentum"} = {"processed", "stale_momentum"}
        OBVIOUS
      <4>. QED BY <3>1, <3>2, <4>1
    <3>3. CASE ~Older(Head(out), MaxMomentumAge)
      <4>1. {"processed"} \cup {} = {"processed"}
        OBVIOUS
      <4>. QED BY <3>1, <3>3, <4>1
    <3>. QED BY <3>2, <3>3
  <2>5. /\ \A x \in Outcomes : x \in S <=> x = "processed"
        /\ "received" \notin S /\ "processed" \in Outcomes
    BY <2>4 DEF Outcomes
  <2>. QED BY <1>a, <2>1, <2>3, <2>4, <2>5, SettleStep
<1>15. ASSUME Shutdown PROVE G
  <2>1. /\ running /\ running' = FALSE
        /\ queue' = {} /\ jobs' = {} /\ out' = <<>> /\ UNCHANGED n
    BY <1>15 DEF Shutdown
  <2>2. Underway' = 0
    BY <2>1, FS_EmptySet DEF Underway
  <2>3. Promise!Stop
    BY <2>1, <2>2 DEF Promise!Stop
  <2>. QED BY <1>a, <2>3 DEF Promise!Next
<1>16. ASSUME Advance \/ WriteFeature \/ Tick \/ UNCHANGED vars PROVE G
  <2>1. UNCHANGED <<queue, jobs, out, n, running>>
    BY <1>16 DEF Advance, WriteFeature, Tick, vars
  <2>. QED BY <1>13, <2>1
<1>17. G
  BY <1>1, <1>2, <1>3, <1>5, <1>6, <1>7, <1>9, <1>10, <1>11, <1>12, <1>14, <1>15, <1>16, NextCases
<1>. QED BY <1>17 DEF G

LEMMA InitRefines == Init => Promise!Init
<1>. SUFFICES ASSUME Init PROVE Promise!Init
  OBVIOUS
<1>1. Underway = 0
  BY FS_EmptySet DEF Init, Underway
<1>2. n["received"] = 0 /\ \A o \in Outcomes : n[o] = 0
  BY DEF Init, Counter
<1>. QED BY <1>1, <1>2 DEF Init, Promise!Init

\* The types: in particular the queue never holds more than its capacity.
THEOREM TypesHold == Spec => []Types
<1>. QED BY InitTypes, StepTypes, PTL DEF Spec

\* The scanner implements the ledger: through the listeners, the queue and its
\* evictions, the dispatcher, the jobs and the coordinator, every notification is
\* on its way or in exactly one counter, for any capacities, ages and windows.
THEOREM KeepsLedger == Spec => LedgerKept
<1>. QED BY InitRefines, StepRefines, TypesHold, PTL DEF Spec, LedgerKept, Promise!Spec

-----------------------------------------------------------------------------
(* What a clean feature says.  A signature is settled when it is counted,  *)
(* in a job or in the output channel, or lost in a way that is untold or   *)
(* counted as stale.                                                       *)

Held == jobs \cup ToSet(out)

Settled(s) ==
  \/ s \in counted
  \/ \E f \in Held : f.sig = s
  \/ \E how \in Untold \cup {"stale"} : <<s, how>> \in fate

Queued(s) == \E f \in queue : f.sig = s

\* Whatever the histories remember and whatever arrived has gone on, or was
\* refused by a full queue.
Flow ==
  /\ \A s \in late.seen : Settled(s)
  /\ \A e \in arrived : Settled(e.sig) \/ Queued(e.sig) \/ <<e.sig, "full">> \in fate

\* The two counters that the flags read are above zero when they have to be.
Flagged ==
  \A x \in fate : /\ x[2] = "full" => n["dropped"] > 0
                  /\ x[2] = "stale" => n["stale_momentum"] > 0

\* A feature is complete only when its last window is over.
Ended ==
  /\ launch = "due" => now - start >= Last(Ends)
  /\ feature.written => launch = "over"
  /\ feature.written /\ feature.complete => now - start >= Last(Ends)

\* Nothing is stale under a clean feature, and nothing of its windows is refused.
CleanKept ==
  Clean(feature) =>
    /\ \A x \in fate : x[2] # "stale"
    /\ \A e \in arrived : e.at - start \in 0 .. Last(Ends) - 1 =>
          Settled(e.sig) \/ Queued(e.sig)

Explained == Flow /\ Flagged /\ Ended /\ CleanKept

\* What a step does to the flow: what is settled stays so, what leaves the queue
\* is settled, what is remembered or arrives is settled, queued or refused, and
\* what the flags tell of is counted.
Moves ==
  /\ counted \subseteq counted' /\ fate \subseteq fate'
  /\ \A f \in Held : f \in Held' \/ Settled(f.sig)'
  /\ \A f \in queue : f \in queue' \/ Settled(f.sig)'
  /\ \A s \in late.seen' : s \in late.seen \/ Settled(s)'
  /\ \A e \in arrived' :
       e \in arrived \/ (e.at = now /\ (Queued(e.sig)' \/ <<e.sig, "full">> \in fate'))
  /\ \A x \in fate' : x \in fate \/ (/\ x[2] = "full" => n["dropped"]' > 0
                                     /\ x[2] = "stale" => n["stale_momentum"]' > 0 /\ launch # "over")
  /\ n["dropped"]' >= n["dropped"] /\ n["stale_momentum"]' >= n["stale_momentum"]

LEMMA SettledKept ==
  ASSUME Moves, NEW s, Settled(s)
  PROVE  Settled(s)'
<1>1. CASE s \in counted
  BY <1>1 DEF Moves, Settled
<1>2. CASE \E how \in Untold \cup {"stale"} : <<s, how>> \in fate
  BY <1>2 DEF Moves, Settled, Untold
<1>3. CASE \E f \in Held : f.sig = s
  <2>1. PICK f \in Held : f.sig = s
    BY <1>3
  <2>2. f \in Held' \/ Settled(f.sig)'
    BY DEF Moves
  <2>3. CASE f \in Held'
    BY <2>1, <2>3 DEF Settled
  <2>. QED BY <2>1, <2>2, <2>3
<1>. QED BY <1>1, <1>2, <1>3 DEF Settled

LEMMA QueuedKept ==
  ASSUME Moves, NEW s, Queued(s)
  PROVE  Queued(s)' \/ Settled(s)'
<1>1. PICK f \in queue : f.sig = s
  BY DEF Queued
<1>2. f \in queue' \/ Settled(f.sig)'
  BY DEF Moves
<1>. QED BY <1>1, <1>2 DEF Queued

LEMMA FlowKept == Flow /\ Moves => Flow'
<1>. SUFFICES ASSUME Flow, Moves PROVE Flow'
  OBVIOUS
<1>1. ASSUME NEW s \in late.seen' PROVE Settled(s)'
  BY SettledKept DEF Flow, Moves
<1>2. ASSUME NEW e \in arrived'
      PROVE  (Settled(e.sig) \/ Queued(e.sig) \/ <<e.sig, "full">> \in fate)'
  <2>1. CASE e \in arrived
    <3>1. Settled(e.sig) \/ Queued(e.sig) \/ <<e.sig, "full">> \in fate
      BY <2>1 DEF Flow
    <3>. QED BY <3>1, SettledKept, QueuedKept DEF Moves
  <2>2. CASE e \notin arrived
    BY <2>2 DEF Moves
  <2>. QED BY <2>1, <2>2
<1>. QED BY <1>1, <1>2 DEF Flow

LEMMA CountersNat ==
  ASSUME Types
  PROVE  n["dropped"] \in Nat /\ n["stale_momentum"] \in Nat
BY DEF Types, Counter, Outcomes

LEMMA FlaggedKept == Types /\ Types' /\ Flagged /\ Moves => Flagged'
<1>. SUFFICES ASSUME Types, Types', Flagged, Moves PROVE Flagged'
  OBVIOUS
<1>1. n["dropped"] \in Nat /\ n["stale_momentum"] \in Nat
  BY CountersNat
<1>2. n'["dropped"] \in Nat /\ n'["stale_momentum"] \in Nat
  BY DEF Types, Counter, Outcomes
<1>3. ASSUME NEW x \in fate', x \in fate
      PROVE  (x[2] = "full" => n'["dropped"] > 0) /\ (x[2] = "stale" => n'["stale_momentum"] > 0)
  BY <1>1, <1>2, <1>3 DEF Flagged, Moves
<1>4. ASSUME NEW x \in fate', x \notin fate
      PROVE  (x[2] = "full" => n'["dropped"] > 0) /\ (x[2] = "stale" => n'["stale_momentum"] > 0)
  BY <1>4 DEF Moves
<1>. QED BY <1>3, <1>4 DEF Flagged

-----------------------------------------------------------------------------
(* The output channel as a set.                                            *)

LEMMA Appended ==
  ASSUME NEW q \in Seq(Events), NEW e \in Events
  PROVE  ToSet(Append(q, e)) = ToSet(q) \cup {e}
<1> DEFINE a == Append(q, e)
<1>1. /\ a \in Seq(Events) /\ Len(a) = Len(q) + 1 /\ Len(q) \in Nat
      /\ \A i \in 1 .. Len(q) : a[i] = q[i]
      /\ a[Len(q) + 1] = e
  BY AppendProperties, LenProperties
<1>2. DOMAIN a = 1 .. Len(a) /\ DOMAIN q = 1 .. Len(q)
  BY <1>1
<1>3. ASSUME NEW x \in ToSet(a) PROVE x \in ToSet(q) \cup {e}
  <2>1. PICK i \in 1 .. Len(a) : a[i] = x
    BY <1>2 DEF ToSet
  <2>2. CASE i = Len(q) + 1
    BY <1>1, <2>1, <2>2
  <2>3. CASE i \in 1 .. Len(q)
    BY <1>1, <1>2, <2>1, <2>3 DEF ToSet
  <2>. QED BY <1>1, <2>1, <2>2, <2>3
<1>4. ASSUME NEW x \in ToSet(q) PROVE x \in ToSet(a)
  <2>1. PICK i \in 1 .. Len(q) : q[i] = x
    BY <1>2 DEF ToSet
  <2>2. i \in DOMAIN a /\ a[i] = x
    BY <1>1, <1>2, <2>1
  <2>. QED BY <2>2 DEF ToSet
<1>5. e \in ToSet(a)
  <2>1. Len(q) + 1 \in DOMAIN a
    BY <1>1, <1>2
  <2>. QED BY <1>1, <2>1 DEF ToSet
<1>. QED BY <1>3, <1>4, <1>5

LEMMA Taken ==
  ASSUME NEW q \in Seq(Events), q # <<>>
  PROVE  \A x \in ToSet(q) : x = Head(q) \/ x \in ToSet(Tail(q))
<1> DEFINE t == Tail(q)
<1>1. /\ t \in Seq(Events) /\ Len(t) = Len(q) - 1 /\ Len(q) \in Nat
      /\ \A i \in 1 .. Len(t) : t[i] = q[i + 1]
      /\ Head(q) = q[1]
  BY HeadTailProperties, LenProperties
<1>2. DOMAIN t = 1 .. Len(t) /\ DOMAIN q = 1 .. Len(q)
  BY <1>1
<1>. TAKE x \in ToSet(q)
<1>3. PICK i \in 1 .. Len(q) : q[i] = x
  BY <1>2 DEF ToSet
<1>4. CASE i # 1
  <2>1. i - 1 \in DOMAIN t /\ t[i - 1] = x
    BY <1>1, <1>2, <1>3, <1>4
  <2>. QED BY <2>1 DEF ToSet
<1>. QED BY <1>1, <1>3, <1>4

-----------------------------------------------------------------------------
(* Every step moves the flow.                                              *)

LEMMA CountersRise ==
  ASSUME Types, NEW S, Count(S)
  PROVE  /\ n'["dropped"] >= n["dropped"] /\ n'["stale_momentum"] >= n["stale_momentum"]
         /\ "dropped" \in S => n'["dropped"] > 0
         /\ "stale_momentum" \in S => n'["stale_momentum"] > 0
<1>1. "dropped" \in Counter /\ "stale_momentum" \in Counter
  BY DEF Counter, Outcomes
<1>2. n["dropped"] \in Nat /\ n["stale_momentum"] \in Nat
  BY CountersNat
<1>. QED BY <1>1, <1>2, CountAt DEF Types

\* A step without an arrival, a new memory or a loss the flags tell of.
LEMMA QuietMoves ==
  ASSUME counted \subseteq counted', fate \subseteq fate', UNCHANGED <<late, arrived>>,
         \A f \in Held : f \in Held' \/ Settled(f.sig)',
         \A f \in queue : f \in queue' \/ Settled(f.sig)',
         \A x \in fate' : x \in fate \/ (x[2] # "full" /\ x[2] # "stale"),
         n'["dropped"] >= n["dropped"] /\ n'["stale_momentum"] >= n["stale_momentum"]
  PROVE  Moves
BY DEF Moves

LEMMA NothingMoves ==
  ASSUME Types, UNCHANGED <<late, arrived, counted, fate, jobs, out, queue>>,
         n' = n \/ \E S : Count(S)
  PROVE  Moves
<1>1. n'["dropped"] >= n["dropped"] /\ n'["stale_momentum"] >= n["stale_momentum"]
  <2>1. CASE n' = n
    BY <2>1, CountersNat
  <2>. QED BY <2>1, CountersRise
<1>2. Held' = Held
  BY DEF Held
<1>. QED BY <1>1, <1>2, QuietMoves

LEMMA LostIsSettled ==
  ASSUME NEW s, NEW how \in Untold \cup {"stale"}, <<s, how>> \in fate'
  PROVE  Settled(s)'
BY DEF Settled, Untold

LEMMA LostUntold ==
  ASSUME NEW s, NEW how \in Untold, fate' = fate \cup {<<s, how>>}
  PROVE  \A x \in fate' : x \in fate \/ (x[2] # "full" /\ x[2] # "stale")
<1>1. how # "full" /\ how # "stale"
  BY DEF Untold
<1>2. <<s, how>>[2] = how
  OBVIOUS
<1>. QED BY <1>1, <1>2

LEMMA PushMoves ==
  ASSUME Types, NEW s \in Sig, Push(s)
  PROVE  Moves
<1>1. /\ UNCHANGED <<late, jobs, out, counted>> /\ arrived' = arrived \cup {Event(Received(s))}
      /\ queue' = (queue \ Stale) \cup {Received(s)}
      /\ fate' = fate \cup {<<e.sig, "evicted">> : e \in Stale}
  BY DEF Push, New, trackerVars
<1>2. n'["dropped"] = n["dropped"] /\ n'["stale_momentum"] = n["stale_momentum"]
  BY DEF Push, Types, Counter, Outcomes
<1>3. \A f \in queue : f \in queue' \/ Settled(f.sig)'
  <2>1. ASSUME NEW f \in Stale PROVE Settled(f.sig)'
    <3>1. <<f.sig, "evicted">> \in fate'
      BY <1>1
    <3>. QED BY <3>1, LostIsSettled DEF Untold
  <2>. QED BY <1>1, <2>1
<1>4. \A e \in arrived' : e \in arrived \/ (e.at = now /\ Queued(e.sig)')
  <2>1. Received(s) \in queue' /\ Received(s).sig = s
    BY <1>1 DEF Received
  <2>2. Queued(s)'
    BY <2>1 DEF Queued
  <2>3. Event(Received(s)).at = now /\ Event(Received(s)).sig = s
    BY DEF Event, Received
  <2>. QED BY <1>1, <2>2, <2>3
<1>5. Held' = Held
  BY <1>1 DEF Held
<1>6. \A x \in fate' : x \in fate \/ (x[2] # "full" /\ x[2] # "stale")
  BY <1>1
<1>. QED BY <1>1, <1>2, <1>3, <1>4, <1>5, <1>6, CountersNat DEF Moves

LEMMA RefuseMoves ==
  ASSUME Types, NEW s \in Sig, Refuse(s)
  PROVE  Moves
<1>1. /\ UNCHANGED <<late, jobs, out, counted>> /\ arrived' = arrived \cup {Event(Received(s))}
      /\ fate' = fate \cup {<<s, "full">>} /\ Count({"received", "dropped"})
  BY DEF Refuse, New, Lose, trackerVars
<1>2. queue' = queue
  BY RefusalEvictsNothing DEF Refuse
<1>3. /\ n'["dropped"] >= n["dropped"] /\ n'["stale_momentum"] >= n["stale_momentum"]
      /\ n'["dropped"] > 0
  BY <1>1, CountersRise
<1>4. \A e \in arrived' : e \in arrived \/ (e.at = now /\ <<e.sig, "full">> \in fate')
  BY <1>1 DEF Event, Received
<1>5. Held' = Held
  BY <1>1 DEF Held
<1>6. \A x \in fate' : x \in fate \/ (x[2] = "full" /\ x[2] # "stale")
  BY <1>1
<1>. QED BY <1>1, <1>2, <1>3, <1>4, <1>5, <1>6 DEF Moves

LEMMA DispatchStaleMoves ==
  ASSUME Types, NEW e \in queue, DispatchStale(e)
  PROVE  Moves
<1>1. /\ UNCHANGED <<late, arrived, jobs, out, counted>> /\ queue' = queue \ {e}
      /\ fate' = fate \cup {<<e.sig, "stale fetch">>} /\ Count({"stale_fetch"})
  BY DEF DispatchStale, Take, Lose, trackerVars
<1>2. Settled(e.sig)'
  BY <1>1, LostIsSettled DEF Untold
<1>3. Held' = Held
  BY <1>1 DEF Held
<1>4. \A x \in fate' : x \in fate \/ (x[2] # "full" /\ x[2] # "stale")
  BY <1>1, LostUntold DEF Untold
<1>5. n'["dropped"] >= n["dropped"] /\ n'["stale_momentum"] >= n["stale_momentum"]
  BY <1>1, CountersRise
<1>. QED BY <1>1, <1>2, <1>3, <1>4, <1>5, QuietMoves

\* What the dispatcher remembers or has a job for is settled.
LEMMA DispatchDuplicateMoves ==
  ASSUME Types, Flow, NEW e \in queue, DispatchDuplicate(e)
  PROVE  Moves
<1>1. /\ UNCHANGED <<late, arrived, jobs, out, counted, fate>> /\ queue' = queue \ {e}
      /\ Count({"duplicates"})
  BY DEF DispatchDuplicate, Take, trackerVars
<1>2. Held' = Held
  BY <1>1 DEF Held
<1>3. Settled(e.sig)
  BY DEF DispatchDuplicate, Knows, Flow, Settled, Held
<1>4. Settled(e.sig)'
  BY <1>1, <1>2, <1>3 DEF Settled
<1>. QED BY <1>1, <1>2, <1>4, CountersRise, QuietMoves

LEMMA DispatchJobMoves ==
  ASSUME Types, NEW e \in queue, DispatchJob(e)
  PROVE  Moves
<1>1. /\ UNCHANGED <<arrived, out, counted, fate, n>> /\ queue' = queue \ {e}
      /\ jobs' = jobs \cup {Event(e)} /\ late' = Remember(late, e.sig)
  BY DEF DispatchJob, Take, trackerVars
<1>2. Event(e) \in Held' /\ Event(e).sig = e.sig
  BY <1>1 DEF Event, Held
<1>3. Settled(e.sig)'
  BY <1>2 DEF Settled
<1>4. late.seen' \subseteq late.seen \cup {e.sig}
  BY <1>1 DEF Remember
<1>5. \A f \in Held : f \in Held'
  BY <1>1 DEF Held
<1>. QED BY <1>1, <1>3, <1>4, <1>5, CountersNat DEF Moves

LEMMA JobLostMoves ==
  ASSUME Types, NEW e \in jobs, NEW S, NEW how \in {"stale fetch", "failed"},
         jobs' = jobs \ {e}, Count(S), Lose(e.sig, how),
         UNCHANGED <<late, queue, out, counted, arrived>>
  PROVE  Moves
<1>1. fate' = fate \cup {<<e.sig, how>>}
  BY DEF Lose
<1>2. Settled(e.sig)'
  BY <1>1, LostIsSettled DEF Untold
<1>3. \A f \in Held : f \in Held' \/ f = e
  BY DEF Held
<1>4. \A x \in fate' : x \in fate \/ (x[2] # "full" /\ x[2] # "stale")
  BY <1>1, LostUntold DEF Untold
<1>5. n'["dropped"] >= n["dropped"] /\ n'["stale_momentum"] >= n["stale_momentum"]
  BY CountersRise
<1>. QED BY <1>1, <1>2, <1>3, <1>4, <1>5, QuietMoves

LEMMA JobDoneMoves ==
  ASSUME Types, NEW e \in jobs, JobDone(e)
  PROVE  Moves
<1>1. /\ UNCHANGED <<late, queue, counted, arrived, n, fate>>
      /\ jobs' = jobs \ {e} /\ out' = Append(out, e)
  BY DEF JobDone, trackerVars
<1>2. ToSet(out') = ToSet(out) \cup {e}
  BY <1>1, Appended DEF Types
<1>3. \A f \in Held : f \in Held'
  BY <1>1, <1>2 DEF Held
<1>. QED BY <1>1, <1>3, CountersNat, QuietMoves

\* A processed event is counted, or lost: as stale only before the launch is
\* over, and with its counter.
LEMMA ProcessMoves ==
  ASSUME Types, Process
  PROVE  Moves
<1>0. PICK e : e = Head(out)
  OBVIOUS
<1>1. /\ out # <<>> /\ out' = Tail(out) /\ UNCHANGED <<late, queue, jobs, arrived>>
      /\ Count({"processed"} \cup IF Older(e, MaxMomentumAge) THEN {"stale_momentum"} ELSE {})
  BY <1>0 DEF Process
<1>2. \/ fate' = fate /\ counted' = counted \cup {e.sig}
      \/ counted' = counted /\ \E how \in {"late", "before launch", "capped"} : Lose(e.sig, how)
      \/ /\ counted' = counted /\ Lose(e.sig, "stale")
         /\ Older(e, MaxMomentumAge) /\ launch # "over"
  BY <1>0 DEF Process
<1>3. /\ n'["dropped"] >= n["dropped"] /\ n'["stale_momentum"] >= n["stale_momentum"]
      /\ Older(e, MaxMomentumAge) => n'["stale_momentum"] > 0
  BY <1>1, CountersRise
<1>4. \A f \in Held : f \in Held' \/ f = e
  BY <1>0, <1>1, Taken DEF Held, Types
<1>5. CASE fate' = fate /\ counted' = counted \cup {e.sig}
  <2>1. Settled(e.sig)'
    BY <1>5 DEF Settled
  <2>. QED BY <1>1, <1>3, <1>4, <1>5, <2>1, QuietMoves
<1>6. ASSUME NEW how \in {"late", "before launch", "capped"}, counted' = counted, Lose(e.sig, how)
      PROVE  Moves
  <2>1. fate' = fate \cup {<<e.sig, how>>}
    BY <1>6 DEF Lose
  <2>2. Settled(e.sig)'
    BY <2>1, LostIsSettled DEF Untold
  <2>3. \A x \in fate' : x \in fate \/ (x[2] # "full" /\ x[2] # "stale")
    BY <2>1, LostUntold DEF Untold
  <2>. QED BY <1>1, <1>3, <1>4, <1>6, <2>1, <2>2, <2>3, QuietMoves
<1>7. CASE /\ counted' = counted /\ Lose(e.sig, "stale")
           /\ Older(e, MaxMomentumAge) /\ launch # "over"
  <2>1. fate' = fate \cup {<<e.sig, "stale">>}
    BY <1>7 DEF Lose
  <2>2. Settled(e.sig)'
    BY <2>1, LostIsSettled
  <2>3. \A x \in fate' : x \in fate \/ (x[2] = "stale" /\ x[2] # "full")
    BY <2>1
  <2>. QED BY <1>1, <1>3, <1>4, <1>7, <2>1, <2>2, <2>3 DEF Moves
<1>. QED BY <1>2, <1>5, <1>6, <1>7

LEMMA ShutdownMoves ==
  ASSUME Types, Shutdown
  PROVE  Moves
<1>1. /\ UNCHANGED <<late, counted, arrived, n>>
      /\ fate' = fate \cup {<<f.sig, "discarded">> : f \in queue \cup Held}
  BY DEF Shutdown, Held
<1>3. \A x \in fate' : x \in fate \/ (x[2] # "full" /\ x[2] # "stale")
  BY <1>1
<1>2. ASSUME NEW f \in queue \cup Held PROVE Settled(f.sig)'
  <2>1. <<f.sig, "discarded">> \in fate'
    BY <1>1
  <2>. QED BY <2>1, LostIsSettled DEF Untold
<1>. QED BY <1>1, <1>2, <1>3, CountersNat, QuietMoves

LEMMA StepMoves == Types /\ Flow /\ [Next]_vars => Moves
<1>. SUFFICES ASSUME Types, Flow, [Next]_vars PROVE Moves
  OBVIOUS
<1>1. ASSUME NEW s \in Sig, Duplicate(s) PROVE Moves
  BY <1>1, NothingMoves DEF Duplicate, trackerVars
<1>2. ASSUME NEW e \in jobs, JobStale(e) PROVE Moves
  BY <1>2, JobLostMoves DEF JobStale, trackerVars
<1>3. ASSUME NEW e \in jobs, JobFails(e) PROVE Moves
  BY <1>3, JobLostMoves DEF JobFails, trackerVars
<1>4. ASSUME JobLimited PROVE Moves
  BY <1>4, NothingMoves DEF JobLimited, trackerVars
<1>5. ASSUME Advance \/ WriteFeature \/ Tick \/ UNCHANGED vars PROVE Moves
  BY <1>5, NothingMoves DEF Advance, WriteFeature, Tick, vars, trackerVars
<1>. QED
  BY <1>1, <1>2, <1>3, <1>4, <1>5, PushMoves, RefuseMoves, DispatchStaleMoves,
     DispatchDuplicateMoves, DispatchJobMoves, JobDoneMoves, ProcessMoves, ShutdownMoves, NextCases

-----------------------------------------------------------------------------
(* The clock and the clean feature.                                        *)

LEMMA WindowEnds ==
  /\ Len(Ends) \in Nat /\ Len(Ends) > 0 /\ Last(Ends) \in Nat
  /\ DOMAIN Ends = 1 .. Len(Ends) /\ Last(Ends) = Ends[Len(Ends)]
<1>1. Ends \in Seq(Nat) /\ Ends # <<>>
  BY ScannerAssumption DEF ScannerAssumption
<1>2. Len(Ends) \in Nat /\ Len(Ends) > 0 /\ DOMAIN Ends = 1 .. Len(Ends)
  BY <1>1
<1>3. Ends[Len(Ends)] \in Nat
  BY <1>1, <1>2
<1>. QED BY <1>2, <1>3 DEF Last

\* When as many windows are over as there are, the last one is.
LEMMA AllOver ==
  ASSUME Over = Len(Ends)
  PROVE  now - start >= Last(Ends)
<1> DEFINE W == {w \in DOMAIN Ends : now - start >= Ends[w]}
<1>1. IsFiniteSet(1 .. Len(Ends)) /\ Cardinality(1 .. Len(Ends)) = Len(Ends)
  BY WindowEnds, FS_Interval
<1>2. W \in SUBSET (1 .. Len(Ends)) /\ Cardinality(W) = Len(Ends)
  BY WindowEnds DEF Over
<1>3. W = 1 .. Len(Ends)
  BY <1>1, <1>2, FS_Subset
<1>. QED BY <1>3, WindowEnds

\* A written feature stays as it is, and a feature is written from the counters.
Writes ==
  /\ feature.written => UNCHANGED <<feature, start>> /\ launch = "over"
  /\ \/ feature' = feature
     \/ \E c \in BOOLEAN : feature' = Feature(c) /\ UNCHANGED <<n, counted>>

LEMMA Features == Types /\ Ended /\ [Next]_vars => Ended' /\ Writes
<1>. SUFFICES ASSUME Types, Ended, [Next]_vars PROVE Ended' /\ Writes
  OBVIOUS
<1> DEFINE G == Ended' /\ Writes
<1> HIDE DEF G
<1>1. ASSUME UNCHANGED <<launch, start, feature>>, now' = now \/ now' = now + 1 PROVE G
  BY <1>1, WindowEnds DEF G, Ended, Writes, Types
<1>2. ASSUME Advance PROVE G
  <2>1. /\ launch = "open" /\ UNCHANGED <<start, feature, now>>
        /\ \/ launch' = "due" /\ Over = Len(Ends)
           \/ launch' = "open"
    BY <1>2 DEF Advance, Due
  <2>. QED BY <2>1, AllOver DEF G, Ended, Writes
<1>3. ASSUME WriteFeature PROVE G
  <2>1. /\ launch = "due" /\ launch' = "over" /\ UNCHANGED <<start, now, n, counted>>
        /\ feature' = Feature(TRUE)
    BY <1>3 DEF WriteFeature
  <2>. QED BY <2>1 DEF G, Ended, Writes, Feature
<1>4. ASSUME Process PROVE G
  <2>1. /\ UNCHANGED <<feature, now>>
        /\ \/ launch = "none" /\ launch' = "open"
           \/ UNCHANGED <<launch, start>>
    BY <1>4 DEF Process
  <2>. QED BY <1>1, <2>1 DEF G, Ended, Writes
<1>5. ASSUME Shutdown PROVE G
  <2>1. UNCHANGED <<start, now, n, counted>> /\ launch # "due"
    BY <1>5 DEF Shutdown
  <2>2. CASE launch = "open"
    <3>1. launch' = "over" /\ feature' = Feature(Over = Len(Ends))
      BY <1>5, <2>2 DEF Shutdown
    <3>2. Over' = Over
      BY <2>1 DEF Over
    <3>. QED BY <2>1, <2>2, <3>1, AllOver DEF G, Ended, Writes, Feature
  <2>3. CASE launch # "open"
    BY <1>5, <1>1, <2>1, <2>3 DEF Shutdown
  <2>. QED BY <2>2, <2>3
<1>6. ASSUME NEW s \in Sig, Duplicate(s) \/ Push(s) \/ Refuse(s) PROVE G
  BY <1>1, <1>6 DEF Duplicate, Push, Refuse, New, trackerVars
<1>7. ASSUME NEW e \in queue, Take(e) PROVE G
  BY <1>1, <1>7 DEF Take, trackerVars
<1>8. ASSUME NEW e \in queue, DispatchStale(e) \/ DispatchDuplicate(e) \/ DispatchJob(e) PROVE G
  BY <1>7, <1>8 DEF DispatchStale, DispatchDuplicate, DispatchJob
<1>9. ASSUME NEW e \in jobs, JobStale(e) \/ JobFails(e) \/ JobDone(e) PROVE G
  BY <1>1, <1>9 DEF JobStale, JobFails, JobDone, trackerVars
<1>10. ASSUME JobLimited \/ Tick \/ UNCHANGED vars PROVE G
  BY <1>1, <1>10 DEF JobLimited, Tick, vars, trackerVars
<1>11. G
  BY <1>2, <1>3, <1>4, <1>5, <1>6, <1>8, <1>9, <1>10, NextCases
<1>. QED BY <1>11 DEF G

LEMMA CleanStep ==
  ASSUME Types, Types', Flow', Flagged', Ended, CleanKept, Moves, Writes
  PROVE  CleanKept'
<1>. SUFFICES ASSUME Clean(feature')
     PROVE  /\ \A x \in fate' : x[2] # "stale"
            /\ \A e \in arrived' : e.at - start' \in 0 .. Last(Ends) - 1 =>
                  Settled(e.sig)' \/ Queued(e.sig)'
  BY DEF CleanKept
<1>1. CASE feature' = feature
  <2>1. Clean(feature) /\ feature.written /\ feature.complete
    BY <1>1 DEF Clean
  <2>2. launch = "over" /\ start' = start /\ now - start >= Last(Ends)
    BY <2>1 DEF Writes, Ended
  <2>3. \A x \in fate' : x[2] # "stale"
    BY <2>1, <2>2 DEF CleanKept, Moves
  <2>4. ASSUME NEW e \in arrived', e.at - start' \in 0 .. Last(Ends) - 1
        PROVE  Settled(e.sig)' \/ Queued(e.sig)'
    <3>1. CASE e \in arrived
      <4>1. Settled(e.sig) \/ Queued(e.sig)
        BY <2>1, <2>2, <2>4, <3>1 DEF CleanKept
      <4>. QED BY <4>1, SettledKept, QueuedKept
    <3>2. CASE e \notin arrived
      <4>1. e.at = now
        BY <3>2 DEF Moves
      <4>. QED BY <2>2, <2>4, <4>1, WindowEnds DEF Types
    <3>. QED BY <3>1, <3>2
  <2>. QED BY <2>3, <2>4
<1>2. ASSUME NEW c \in BOOLEAN, feature' = Feature(c), UNCHANGED n PROVE
        /\ \A x \in fate' : x[2] # "stale"
        /\ \A e \in arrived' : Settled(e.sig)' \/ Queued(e.sig)'
  <2>1. ~(n["dropped"] > 0) /\ ~(n["stale_momentum"] > 0)
    BY <1>2 DEF Clean, Feature, Flags
  <2>2. \A x \in fate' : x[2] # "stale" /\ x[2] # "full"
    BY <1>2, <2>1 DEF Flagged
  <2>3. ASSUME NEW e \in arrived' PROVE Settled(e.sig)' \/ Queued(e.sig)'
    <3>1. <<e.sig, "full">>[2] = "full"
      OBVIOUS
    <3>2. <<e.sig, "full">> \notin fate'
      BY <2>2, <3>1
    <3>. QED BY <3>2 DEF Flow
  <2>. QED BY <2>2, <2>3
<1>. QED BY <1>1, <1>2 DEF Writes

LEMMA InitExplained == Init => Explained
BY DEF Init, Explained, Flow, Flagged, Ended, CleanKept, Clean, NoFeature, NoHistory

LEMMA StepExplained == Types /\ Types' /\ Explained /\ [Next]_vars => Explained'
<1>. SUFFICES ASSUME Types, Types', Explained, [Next]_vars PROVE Explained'
  OBVIOUS
<1>1. Moves
  BY StepMoves DEF Explained
<1>2. Flow' /\ Flagged' /\ Ended' /\ Writes
  BY <1>1, FlowKept, FlaggedKept, Features DEF Explained
<1>. QED BY <1>1, <1>2, CleanStep DEF Explained

LEMMA ExplainedSuffices == Explained => CleanFeatureExplained
<1>. SUFFICES ASSUME Explained, Clean(feature), NEW e \in arrived,
                     e.at - start \in 0 .. Last(Ends) - 1
     PROVE  \/ e.sig \in counted
            \/ \E how \in Untold : <<e.sig, how>> \in fate
            \/ \E f \in queue \cup jobs \cup ToSet(out) : f.sig = e.sig
  BY DEF CleanFeatureExplained
<1>1. Settled(e.sig) \/ Queued(e.sig)
  BY DEF Explained, CleanKept
<1>2. <<e.sig, "stale">> \notin fate
  <2>1. <<e.sig, "stale">>[2] = "stale"
    OBVIOUS
  <2>. QED BY <2>1 DEF Explained, CleanKept
<1>. QED BY <1>1, <1>2 DEF Settled, Queued, Held

\* A feature the quality gate accepts hides no full queue and no event stale at
\* the tracker: what it does not count of its windows is on its way or was lost
\* in one of the untold ways, for any capacities, histories, ages and windows.
THEOREM CleanMeansExplained == Spec => []CleanFeatureExplained
<1>. QED BY InitTypes, StepTypes, InitExplained, StepExplained, ExplainedSuffices, PTL DEF Spec
=============================================================================
