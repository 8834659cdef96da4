------------------------ MODULE HostedServer_proofs ------------------------
(***************************************************************************)
(* What holds of the hosted service for every value of its constants: a    *)
(* start finds no half database and removes none that was used, needs an   *)
(* operator only after a process that ended halfway, and the requests of   *)
(* all processes together keep the bounds of HostedAgent.                  *)
(***************************************************************************)
EXTENDS HostedServer, FiniteSetTheorems, SequenceTheorems, TLAPS

-----------------------------------------------------------------------------
(***************************************************************************)
(* The requests, whatever the storage does: the slots of the semaphore     *)
(* bound what the calls in flight can add to a budget.                     *)
(***************************************************************************)
USE LimitAssumption, RunAssumption

(***************************************************************************)
(* Calls that have passed, or can pass, the guard cost at most MaxTokens   *)
(* each.                                                                   *)
(***************************************************************************)
Cost(n) == MaxTokens * n

LEMMA CostOfMore ==
    \A m, n \in Nat : /\ Cost(n) \in Nat
                      /\ m <= n => Cost(m) <= Cost(n)
                      /\ Cost(n + 1) = Cost(n) + MaxTokens
                      /\ Cost(m + n) = Cost(m) + Cost(n)
<1>1. ASSUME NEW m \in Nat, NEW n \in Nat
      PROVE  /\ Cost(n) \in Nat
             /\ Cost(n + 1) = Cost(n) + MaxTokens
             /\ Cost(m + n) = Cost(m) + Cost(n)
  BY DEF Cost
<1>2. ASSUME NEW m \in Nat, NEW n \in Nat, m <= n PROVE Cost(m) <= Cost(n)
  <2>1. n = m + (n - m) /\ n - m \in Nat
    BY <1>2
  <2>2. Cost(m + (n - m)) = Cost(m) + Cost(n - m) /\ Cost(n - m) \in Nat /\ Cost(m) \in Nat
    BY <1>1, <2>1
  <2> QED
    BY <2>1, <2>2
<1> QED
  BY <1>1, <1>2

(***************************************************************************)
(* Days and months follow each other.                                      *)
(***************************************************************************)
LEMMA DaysGrow ==
    \A t \in 0 .. MaxTime : Day(t) \in Days /\ Day(t) \in Nat /\ Day(t) <= Day(t + 1)
  BY DEF Day, Days

LEMMA PeriodsGrow ==
    \A p \in Periods :
        /\ Budget(p) \in Nat
        /\ \A d \in Days : Begin(p, d) \in Days /\ Begin(p, d) \in Nat
        /\ \A d, e \in Days : d <= e => Begin(p, d) <= Begin(p, e)
<1>1. \A d \in Days : d \in Nat
  BY DEF Days
<1> QED
  BY <1>1, CalendarAssumption DEF Periods, Budget, Begin

-----------------------------------------------------------------------------
(* The inductive invariant.                                                *)

Running == {r \in Requests : InSlot(r)}

\* The period that begins is the one the guard asks about.
Ongoing(p) == Begin(p, Day(now))

\* The calls whose tokens the ledger can still get for the period p that
\* begins with day d, and those of them that the guard let pass.
Prepared(p, d) ==
    {r \in Requests : /\ request[r] # None
                      /\ request[r].step \in {"guard", "send", "record"}
                      /\ Begin(p, request[r].day) = d}

Passed(p, d) ==
    {r \in Requests : /\ request[r] # None
                      /\ request[r].step \in {"send", "record"}
                      /\ Begin(p, request[r].day) = d}

\* No call is of a day or month to come.
NotYet ==
    \A p \in Periods, d \in Days :
        d > Ongoing(p) => spent[p][d] = 0 /\ Prepared(p, d) = {}

\* To what is over, calls may still come that its own guard has not seen.
Past ==
    \A p \in Periods, d \in Days :
        Budget(p) > 0 /\ d < Ongoing(p) =>
            spent[p][d] + Cost(Cardinality(Prepared(p, d))) < Budget(p) + 2 * Cost(MaxRuns)

Present ==
    \A p \in Periods :
        Budget(p) > 0 =>
            spent[p][Ongoing(p)] + Cost(Cardinality(Passed(p, Ongoing(p))))
                < Budget(p) + Cost(MaxRuns)

IndInv == AgentTypeOK /\ NotYet /\ Past /\ Present

(***************************************************************************)
(* The sets of calls are finite, and no larger than the slots allow.       *)
(***************************************************************************)
LEMMA FewCalls ==
    ASSUME AgentTypeOK
    PROVE  /\ \A S \in SUBSET Running :
                  IsFiniteSet(S) /\ Cardinality(S) \in Nat /\ Cardinality(S) <= MaxRuns
           /\ \A p, d : Prepared(p, d) \in SUBSET Running /\ Passed(p, d) \in SUBSET Prepared(p, d)
<1>1. IsFiniteSet(Running)
  BY FS_Subset DEF Running
<1>2. Cardinality(Running) \in Nat /\ Cardinality(Running) <= MaxRuns
  BY <1>1, FS_CardinalityType DEF AgentTypeOK, Running
<1>3. ASSUME NEW S \in SUBSET Running
      PROVE  IsFiniteSet(S) /\ Cardinality(S) \in Nat /\ Cardinality(S) <= MaxRuns
  <2>1. IsFiniteSet(S) /\ Cardinality(S) <= Cardinality(Running)
    BY <1>1, FS_Subset
  <2>2. Cardinality(S) \in Nat
    BY <2>1, FS_CardinalityType
  <2> QED
    BY <1>2, <2>1, <2>2
<1>4. \A p, d : Prepared(p, d) \in SUBSET Running /\ Passed(p, d) \in SUBSET Prepared(p, d)
  BY DEF Prepared, Passed, Running, InSlot
<1> QED
  BY <1>3, <1>4

(***************************************************************************)
(* With all slots free and nothing in the ledger, the invariant holds.     *)
(***************************************************************************)
LEMMA PartsInit == AgentInit => IndInv
<1> SUFFICES ASSUME AgentInit PROVE IndInv
  OBVIOUS
<1>1. Running = {} /\ \A p, d : Prepared(p, d) = {} /\ Passed(p, d) = {}
  BY DEF AgentInit, Running, InSlot, Prepared, Passed
<1>2. Cardinality({}) = 0
  BY FS_EmptySet
<1>3. /\ Day(now) \in Days /\ now \in 0 .. MaxTime
      /\ \A p \in Periods : Ongoing(p) \in Days /\ Budget(p) \in Nat
  BY DaysGrow, PeriodsGrow DEF AgentInit, Ongoing
<1>4. AgentTypeOK
  <2>1. slots + Cardinality({r \in Requests : InSlot(r)}) = MaxRuns
    <3>1. Cardinality({r \in Requests : InSlot(r)}) = Cardinality(Running)
      BY DEF Running
    <3>2. Cardinality(Running) = 0
      BY <1>1, <1>2
    <3> QED
      BY <3>1, <3>2 DEF AgentInit
  <2>2. request \in [Requests -> Placed \cup {None}] /\ slots \in 0 .. MaxRuns
    BY DEF AgentInit
  <2>3. spent \in [Periods -> [Days -> Nat]]
    BY DEF AgentInit
  <2> QED
    BY <1>3, <2>1, <2>2, <2>3 DEF AgentTypeOK
<1>5. Cost(0) = 0 /\ Cost(MaxRuns) \in Nat
  BY CostOfMore DEF Cost
<1>6. NotYet
  BY <1>1 DEF NotYet, AgentInit
<1>7. ASSUME NEW p \in Periods, NEW d \in Days
      PROVE  /\ spent[p][d] = 0
             /\ Cardinality(Prepared(p, d)) = 0 /\ Cardinality(Passed(p, d)) = 0
  BY <1>1, <1>2 DEF AgentInit
<1>8. Past
  BY <1>3, <1>5, <1>7 DEF Past
<1>9. Present
  BY <1>3, <1>5, <1>7 DEF Present
<1> QED
  BY <1>4, <1>6, <1>8, <1>9 DEF IndInv

-----------------------------------------------------------------------------
(* The steps.                                                              *)

(***************************************************************************)
(* A request that moves within its slot, or outside of one, leaves the     *)
(* slots as they are; one that leaves gives its slot back.                 *)
(***************************************************************************)
LEMMA SlotsKept ==
    ASSUME AgentTypeOK, NEW r \in Requests, NEW where \in Placed \cup {None}, Move(r, where),
           \/ slots' = slots /\ (InSlot(r) <=> InSlot(r)')
           \/ slots' = slots - 1 /\ slots > 0 /\ ~InSlot(r) /\ InSlot(r)'
           \/ slots' = slots + 1 /\ InSlot(r) /\ ~InSlot(r)'
    PROVE  /\ request' \in [Requests -> Placed \cup {None}]
           /\ slots' \in 0 .. MaxRuns
           /\ slots' + Cardinality(Running') = MaxRuns
<1>1. request' \in [Requests -> Placed \cup {None}]
  BY DEF AgentTypeOK, Move
<1>2. \A q \in Requests \ {r} : request'[q] = request[q]
  BY DEF AgentTypeOK, Move
<1>3. \A q \in Requests \ {r} : InSlot(q) <=> InSlot(q)'
  BY <1>2 DEF InSlot
<1>4. IsFiniteSet(Running) /\ IsFiniteSet(Running') /\ Cardinality(Running) \in Nat
      /\ Cardinality(Running') \in Nat
  BY FS_Subset, FS_CardinalityType DEF Running
<1>5. slots + Cardinality(Running) = MaxRuns /\ slots \in 0 .. MaxRuns
  BY DEF AgentTypeOK, Running
<1>6. CASE slots' = slots /\ (InSlot(r) <=> InSlot(r)')
  <2>1. Running' = Running
    BY <1>3, <1>6 DEF Running
  <2> QED
    BY <1>1, <1>5, <1>6, <2>1
<1>7. CASE slots' = slots - 1 /\ slots > 0 /\ ~InSlot(r) /\ InSlot(r)'
  <2>1. Running' = Running \cup {r} /\ r \notin Running
    BY <1>3, <1>7 DEF Running
  <2>2. Cardinality(Running') = Cardinality(Running) + 1
    BY <1>4, <2>1, FS_AddElement
  <2> QED
    BY <1>1, <1>4, <1>5, <1>7, <2>2
<1>8. CASE slots' = slots + 1 /\ InSlot(r) /\ ~InSlot(r)'
  <2>1. Running' = Running \ {r} /\ r \in Running
    BY <1>3, <1>8 DEF Running
  <2>2. Cardinality(Running') = Cardinality(Running) - 1
    BY <1>4, <2>1, FS_RemoveElement
  <2> QED
    BY <1>1, <1>4, <1>5, <1>8, <2>2
<1> QED
  BY <1>6, <1>7, <1>8

(***************************************************************************)
(* Fewer calls weigh no more, and one call less weighs MaxTokens less.     *)
(***************************************************************************)
LEMMA Lighter ==
    ASSUME AgentTypeOK, NEW S \in SUBSET Running, NEW T \in SUBSET S
    PROVE  /\ Cost(Cardinality(S)) \in Nat /\ Cost(Cardinality(T)) \in Nat
           /\ Cost(Cardinality(T)) <= Cost(Cardinality(S))
           /\ \A r \in S : r \notin T =>
                 Cost(Cardinality(T)) + MaxTokens <= Cost(Cardinality(S))
<1>1. IsFiniteSet(S) /\ Cardinality(S) \in Nat
  BY FewCalls
<1>2. IsFiniteSet(T) /\ Cardinality(T) \in Nat /\ Cardinality(T) <= Cardinality(S)
  BY <1>1, FS_Subset, FS_CardinalityType
<1>3. ASSUME NEW r \in S, r \notin T
      PROVE  Cost(Cardinality(T)) + MaxTokens <= Cost(Cardinality(S))
  <2>1. Cardinality(S) # Cardinality(T)
    BY <1>1, <1>3, FS_Subset
  <2>2. Cardinality(T) + 1 <= Cardinality(S) /\ Cardinality(T) + 1 \in Nat
    BY <1>1, <1>2, <2>1
  <2> QED
    BY <1>1, <1>2, <2>2, CostOfMore
<1> QED
  BY <1>1, <1>2, <1>3, CostOfMore

(***************************************************************************)
(* Calls that end, or that begin today and wait for the guard, change no   *)
(* bound.                                                                  *)
(***************************************************************************)
LEMMA CallsEnd ==
    ASSUME IndInv, UNCHANGED <<now, spent>>,
           \A p \in Periods, d \in Days :
               /\ d # Ongoing(p) => Prepared(p, d)' \subseteq Prepared(p, d)
               /\ Passed(p, d)' \subseteq Passed(p, d)
    PROVE  NotYet' /\ Past' /\ Present'
<1>1. AgentTypeOK /\ now \in 0 .. MaxTime /\ \A p : Ongoing(p)' = Ongoing(p)
  BY DEF IndInv, AgentTypeOK, Day, Ongoing, Begin
<1>2. \A p \in Periods : Ongoing(p) \in Days /\ Ongoing(p) \in Nat /\ Budget(p) \in Nat
  BY <1>1, DaysGrow, PeriodsGrow DEF Ongoing
<1>3. NotYet'
  BY <1>1, <1>2 DEF IndInv, NotYet, Days
<1>4. Cost(MaxRuns) \in Nat /\ \A p \in Periods, d \in Days : spent[p][d] \in Nat
  BY CostOfMore DEF IndInv, AgentTypeOK
<1>5. Past'
  <2> SUFFICES ASSUME NEW p \in Periods, NEW d \in Days, Budget(p) > 0, d < Ongoing(p)
               PROVE  spent[p][d] + Cost(Cardinality(Prepared(p, d)')) < Budget(p) + 2 * Cost(MaxRuns)
    BY <1>1 DEF Past, Budget
  <2>1. Prepared(p, d) \in SUBSET Running /\ Prepared(p, d)' \in SUBSET Prepared(p, d)
    BY <1>1, <1>2, FewCalls
  <2>2. spent[p][d] + Cost(Cardinality(Prepared(p, d))) < Budget(p) + 2 * Cost(MaxRuns)
    BY DEF IndInv, Past
  <2> QED
    BY <1>1, <1>2, <1>4, <2>1, <2>2, Lighter
<1>6. Present'
  <2> SUFFICES ASSUME NEW p \in Periods, Budget(p) > 0
               PROVE  spent[p][Ongoing(p)] + Cost(Cardinality(Passed(p, Ongoing(p))'))
                          < Budget(p) + Cost(MaxRuns)
    BY <1>1 DEF Present, Passed, Budget, Begin
  <2>1. /\ Passed(p, Ongoing(p)) \in SUBSET Running
        /\ Passed(p, Ongoing(p))' \in SUBSET Passed(p, Ongoing(p))
    BY <1>1, <1>2, FewCalls DEF Passed
  <2>2. spent[p][Ongoing(p)] + Cost(Cardinality(Passed(p, Ongoing(p)))) < Budget(p) + Cost(MaxRuns)
    BY DEF IndInv, Present
  <2> QED
    BY <1>1, <1>2, <1>4, <2>1, <2>2, Lighter
<1> QED
  BY <1>3, <1>5, <1>6

(***************************************************************************)
(* A call that the guard lets pass is one of at most MaxRuns, and found    *)
(* the budget not yet used up.                                             *)
(***************************************************************************)
LEMMA CallPasses ==
    ASSUME IndInv, AgentTypeOK', UNCHANGED <<now, spent>>, WithinBudget,
           \A p, d : Prepared(p, d)' \subseteq Prepared(p, d)
    PROVE  NotYet' /\ Past' /\ Present'
<1>1. AgentTypeOK /\ now \in 0 .. MaxTime /\ \A p : Ongoing(p)' = Ongoing(p)
  BY DEF IndInv, AgentTypeOK, Day, Ongoing, Begin
<1>2. \A p \in Periods : Ongoing(p) \in Days /\ Ongoing(p) \in Nat /\ Budget(p) \in Nat
  BY <1>1, DaysGrow, PeriodsGrow DEF Ongoing
<1>3. NotYet'
  BY <1>1, <1>2 DEF IndInv, NotYet, Days
<1>4. Cost(MaxRuns) \in Nat /\ \A p \in Periods, d \in Days : spent[p][d] \in Nat
  BY CostOfMore DEF IndInv, AgentTypeOK
<1>5. Past'
  <2> SUFFICES ASSUME NEW p \in Periods, NEW d \in Days, Budget(p) > 0, d < Ongoing(p)
               PROVE  spent[p][d] + Cost(Cardinality(Prepared(p, d)')) < Budget(p) + 2 * Cost(MaxRuns)
    BY <1>1 DEF Past, Budget
  <2>1. Prepared(p, d) \in SUBSET Running /\ Prepared(p, d)' \in SUBSET Prepared(p, d)
    BY <1>1, <1>2, FewCalls
  <2>2. spent[p][d] + Cost(Cardinality(Prepared(p, d))) < Budget(p) + 2 * Cost(MaxRuns)
    BY DEF IndInv, Past
  <2> QED
    BY <1>1, <1>2, <1>4, <2>1, <2>2, Lighter
<1>6. ASSUME NEW p, NEW d
      PROVE  Cardinality(Passed(p, d)') \in Nat /\ Cardinality(Passed(p, d)') <= MaxRuns
  <2>1. IsFiniteSet(Running') /\ Cardinality(Running') \in Nat
    BY FS_Subset, FS_CardinalityType DEF Running
  <2>2. Cardinality(Running') <= MaxRuns
    BY <2>1 DEF AgentTypeOK, Running
  <2>3. Passed(p, d)' \subseteq Running'
    BY DEF Passed, Running, InSlot
  <2>4. IsFiniteSet(Passed(p, d)') /\ Cardinality(Passed(p, d)') <= Cardinality(Running')
    BY <2>1, <2>3, FS_Subset
  <2> QED
    BY <2>1, <2>2, <2>4, FS_CardinalityType
<1>7. Present'
  <2> SUFFICES ASSUME NEW p \in Periods, Budget(p) > 0
               PROVE  spent[p][Ongoing(p)] + Cost(Cardinality(Passed(p, Ongoing(p))'))
                          < Budget(p) + Cost(MaxRuns)
    BY <1>1 DEF Present, Passed, Budget, Begin
  <2>1. /\ Cost(Cardinality(Passed(p, Ongoing(p))')) <= Cost(MaxRuns)
        /\ Cost(Cardinality(Passed(p, Ongoing(p))')) \in Nat
    <3>1. /\ Cardinality(Passed(p, Ongoing(p))') \in Nat
          /\ Cardinality(Passed(p, Ongoing(p))') <= MaxRuns
      BY <1>1, <1>6 DEF Passed
    <3> QED
      BY <3>1, CostOfMore
  <2>2. spent[p][Ongoing(p)] < Budget(p)
    BY DEF WithinBudget, Ongoing
  <2> QED
    BY <1>2, <1>4, <2>1, <2>2
<1> QED
  BY <1>3, <1>5, <1>7

(***************************************************************************)
(* A recorded call costs no more than what was set aside for it.           *)
(***************************************************************************)
LEMMA CallRecorded ==
    ASSUME IndInv, NEW r \in Requests, NEW today \in Days, NEW tokens \in 0 .. MaxTokens,
           \A p \in Periods : r \in Passed(p, Begin(p, today)), UNCHANGED now,
           spent' = [p \in Periods |-> [spent[p] EXCEPT ![Begin(p, today)] = @ + tokens]],
           \A p, d : /\ Prepared(p, d)' \subseteq Prepared(p, d) \ {r}
                     /\ Passed(p, d)' \subseteq Passed(p, d) \ {r}
    PROVE  NotYet' /\ Past' /\ Present'
<1>1. AgentTypeOK /\ now \in 0 .. MaxTime /\ \A p : Ongoing(p)' = Ongoing(p)
  BY DEF IndInv, AgentTypeOK, Day, Ongoing, Begin
<1>2. \A p \in Periods : /\ Ongoing(p) \in Days /\ Ongoing(p) \in Nat /\ Budget(p) \in Nat
                         /\ Begin(p, today) \in Days /\ Begin(p, today) \in Nat
  BY <1>1, DaysGrow, PeriodsGrow DEF Ongoing
<1>3. \A p \in Periods : r \in Prepared(p, Begin(p, today)) /\ Begin(p, today) <= Ongoing(p)
  <2>1. \A p \in Periods : r \in Prepared(p, Begin(p, today))
    BY <1>1, FewCalls
  <2> QED
    BY <1>2, <2>1 DEF IndInv, NotYet, Days
<1>4. \A p \in Periods, d \in Days :
          /\ spent[p][d] \in Nat
          /\ spent'[p][d] = IF d = Begin(p, today) THEN spent[p][d] + tokens ELSE spent[p][d]
  <2>1. \A p \in Periods : spent[p] \in [Days -> Nat]
    BY <1>1 DEF AgentTypeOK
  <2> QED
    BY <2>1
<1>5. Cost(MaxRuns) \in Nat
  BY CostOfMore
<1>6. NotYet'
  <2> SUFFICES ASSUME NEW p \in Periods, NEW d \in Days, d > Ongoing(p)
               PROVE  spent'[p][d] = 0 /\ Prepared(p, d)' = {}
    BY <1>1 DEF NotYet
  <2>1. spent[p][d] = 0 /\ Prepared(p, d) = {} /\ d # Begin(p, today)
    BY <1>2, <1>3 DEF IndInv, NotYet, Days
  <2> QED
    BY <1>4, <2>1
<1>7. Past'
  <2> SUFFICES ASSUME NEW p \in Periods, NEW d \in Days, Budget(p) > 0, d < Ongoing(p)
               PROVE  spent'[p][d] + Cost(Cardinality(Prepared(p, d)')) < Budget(p) + 2 * Cost(MaxRuns)
    BY <1>1 DEF Past, Budget
  <2>1. /\ Prepared(p, d) \in SUBSET Running /\ Prepared(p, d)' \in SUBSET Prepared(p, d)
        /\ r \notin Prepared(p, d)'
    BY <1>1, FewCalls
  <2>2. spent[p][d] + Cost(Cardinality(Prepared(p, d))) < Budget(p) + 2 * Cost(MaxRuns)
    BY DEF IndInv, Past
  <2>3. /\ Cost(Cardinality(Prepared(p, d))) \in Nat /\ Cost(Cardinality(Prepared(p, d)')) \in Nat
        /\ Cost(Cardinality(Prepared(p, d)')) <= Cost(Cardinality(Prepared(p, d)))
        /\ r \in Prepared(p, d) =>
              Cost(Cardinality(Prepared(p, d)')) + MaxTokens <= Cost(Cardinality(Prepared(p, d)))
    BY <1>1, <2>1, Lighter
  <2> QED
    BY <1>2, <1>3, <1>4, <1>5, <2>2, <2>3
<1>8. Present'
  <2> SUFFICES ASSUME NEW p \in Periods, Budget(p) > 0
               PROVE  spent'[p][Ongoing(p)] + Cost(Cardinality(Passed(p, Ongoing(p))'))
                          < Budget(p) + Cost(MaxRuns)
    BY <1>1 DEF Present, Passed, Budget, Begin
  <2>1. /\ Passed(p, Ongoing(p)) \in SUBSET Running
        /\ Passed(p, Ongoing(p))' \in SUBSET Passed(p, Ongoing(p))
        /\ r \notin Passed(p, Ongoing(p))'
    BY <1>1, <1>2, FewCalls DEF Passed
  <2>2. spent[p][Ongoing(p)] + Cost(Cardinality(Passed(p, Ongoing(p)))) < Budget(p) + Cost(MaxRuns)
    BY DEF IndInv, Present
  <2>3. /\ Cost(Cardinality(Passed(p, Ongoing(p)))) \in Nat
        /\ Cost(Cardinality(Passed(p, Ongoing(p))')) \in Nat
        /\ Cost(Cardinality(Passed(p, Ongoing(p))')) <= Cost(Cardinality(Passed(p, Ongoing(p))))
        /\ r \in Passed(p, Ongoing(p)) =>
              Cost(Cardinality(Passed(p, Ongoing(p))')) + MaxTokens
                  <= Cost(Cardinality(Passed(p, Ongoing(p))))
    BY <1>1, <2>1, Lighter
  <2> QED
    BY <1>2, <1>4, <1>5, <2>2, <2>3
<1> QED
  BY <1>6, <1>7, <1>8

(***************************************************************************)
(* Time passes.  At the turn of a day or a month the calls in flight and   *)
(* those that still wait for the guard are added to what it may be over.   *)
(***************************************************************************)
LEMMA TimePasses ==
    ASSUME IndInv, now < MaxTime, now' = now + 1, UNCHANGED <<request, spent>>
    PROVE  NotYet' /\ Past' /\ Present'
<1> DEFINE next(p) == Begin(p, Day(now + 1))
<1>1. /\ AgentTypeOK /\ now \in 0 .. MaxTime /\ now + 1 \in 0 .. MaxTime
      /\ \A p : Ongoing(p)' = next(p)
  BY DEF IndInv, AgentTypeOK, Day, Ongoing, Begin
<1>2. \A p \in Periods : /\ Ongoing(p) \in Days /\ Ongoing(p) \in Nat /\ Budget(p) \in Nat
                         /\ next(p) \in Days /\ next(p) \in Nat /\ Ongoing(p) <= next(p)
  BY <1>1, DaysGrow, PeriodsGrow DEF Ongoing
<1> HIDE DEF next
<1>3. \A p, d : Prepared(p, d)' = Prepared(p, d) /\ Passed(p, d)' = Passed(p, d)
  BY DEF Prepared, Passed, Begin
<1>4. Cost(MaxRuns) \in Nat /\ \A p \in Periods, d \in Days : spent[p][d] \in Nat
  BY <1>1, CostOfMore DEF AgentTypeOK
<1>5. Cardinality({}) = 0 /\ Cost(0) = 0
  BY FS_EmptySet DEF Cost
<1>6. NotYet'
  <2> SUFFICES ASSUME NEW p \in Periods, NEW d \in Days, d > next(p)
               PROVE  spent[p][d] = 0 /\ Prepared(p, d) = {}
    BY <1>1, <1>3 DEF NotYet
  <2>1. d > Ongoing(p)
    BY <1>2 DEF Days
  <2> QED
    BY <2>1 DEF IndInv, NotYet
<1>7. Past'
  <2> SUFFICES ASSUME NEW p \in Periods, NEW d \in Days, Budget(p) > 0, d < next(p)
               PROVE  spent[p][d] + Cost(Cardinality(Prepared(p, d))) < Budget(p) + 2 * Cost(MaxRuns)
    BY <1>1, <1>3 DEF Past, Budget
  <2>1. CASE d < Ongoing(p)
    BY <2>1 DEF IndInv, Past
  <2>2. CASE d = Ongoing(p)
    <3>1. Prepared(p, d) \in SUBSET Running /\ Passed(p, d) \in SUBSET Prepared(p, d)
      BY <1>1, FewCalls
    <3>2. Cardinality(Prepared(p, d)) \in Nat /\ Cardinality(Prepared(p, d)) <= MaxRuns
      BY <1>1, <3>1, FewCalls
    <3>3. /\ Cost(Cardinality(Prepared(p, d))) \in Nat /\ Cost(Cardinality(Passed(p, d))) \in Nat
          /\ Cost(Cardinality(Prepared(p, d))) <= Cost(MaxRuns)
      BY <1>1, <3>1, <3>2, Lighter, CostOfMore
    <3>4. spent[p][d] + Cost(Cardinality(Passed(p, d))) < Budget(p) + Cost(MaxRuns)
      BY <2>2 DEF IndInv, Present
    <3> QED
      BY <1>2, <1>4, <3>3, <3>4
  <2>3. CASE d > Ongoing(p)
    <3>1. spent[p][d] = 0 /\ Prepared(p, d) = {}
      BY <2>3 DEF IndInv, NotYet
    <3> QED
      BY <1>2, <1>4, <1>5, <3>1
  <2> QED
    BY <1>2, <2>1, <2>2, <2>3 DEF Days
<1>8. Present'
  <2> SUFFICES ASSUME NEW p \in Periods, Budget(p) > 0
               PROVE  spent[p][next(p)] + Cost(Cardinality(Passed(p, next(p))))
                          < Budget(p) + Cost(MaxRuns)
    BY <1>1, <1>3 DEF Present, Passed, Budget, Begin
  <2>1. CASE next(p) = Ongoing(p)
    BY <2>1 DEF IndInv, Present
  <2>2. CASE next(p) # Ongoing(p)
    <3>1. spent[p][next(p)] = 0 /\ Prepared(p, next(p)) = {}
      BY <1>2, <2>2 DEF IndInv, NotYet
    <3>2. Passed(p, next(p)) = {}
      BY <1>1, <3>1, FewCalls
    <3> QED
      BY <1>2, <1>4, <1>5, <3>1, <3>2
  <2> QED
    BY <2>1, <2>2
<1> QED
  BY <1>6, <1>7, <1>8

(***************************************************************************)
(* A move of one request leaves the calls of the others alone.             *)
(***************************************************************************)
LEMMA OtherCalls ==
    ASSUME AgentTypeOK, NEW r \in Requests, NEW where, Move(r, where)
    PROVE  /\ request'[r] = where
           /\ \A p, d : \A q \in Requests \ {r} :
                 /\ q \in Prepared(p, d)' <=> q \in Prepared(p, d)
                 /\ q \in Passed(p, d)' <=> q \in Passed(p, d)
<1>1. request'[r] = where /\ \A q \in Requests \ {r} : request'[q] = request[q]
  BY DEF AgentTypeOK, Move
<1> QED
  BY <1>1 DEF Prepared, Passed

(***************************************************************************)
(* What is known of a request where it is.                                 *)
(***************************************************************************)
LEMMA WhereCallsAre ==
    ASSUME AgentTypeOK, NEW r \in Requests
    PROVE  /\ At(r, "guard") => request[r].call \in Calls /\ request[r].day \in Days
           /\ At(r, "send") => /\ request[r].call \in Calls /\ request[r].day \in Days
                               /\ request[r].attempt \in 1 .. Attempts
           /\ At(r, "record") => /\ request[r].call \in Calls /\ request[r].day \in Days
                                 /\ request[r].tokens \in 0 .. MaxTokens
<1>1. request[r] # None => request[r] \in Placed
  BY DEF AgentTypeOK
<1> QED
  BY <1>1 DEF At, Placed

(***************************************************************************)
(* Where a request can be.                                                 *)
(***************************************************************************)
LEMMA Places ==
    /\ \A of \in Categories : [step |-> "body", of |-> of] \in Placed
    /\ [step |-> "enter"] \in Placed /\ [step |-> "tool"] \in Placed
    /\ \A call \in Calls, day \in Days :
          /\ [step |-> "guard", call |-> call, day |-> day] \in Placed
          /\ \A n \in 1 .. Attempts :
                [step |-> "send", call |-> call, day |-> day, attempt |-> n] \in Placed
          /\ \A n \in 0 .. MaxTokens :
                [step |-> "record", call |-> call, day |-> day, tokens |-> n] \in Placed
  BY DEF Placed

(***************************************************************************)
(* A request that holds no call, begins one today, or goes on with one it  *)
(* was let pass with, keeps the invariant.                                 *)
(***************************************************************************)
LEMMA QuietMove ==
    ASSUME IndInv, NEW r \in Requests, NEW where \in Placed \cup {None}, Move(r, where),
           UNCHANGED <<now, spent>>,
           \/ slots' = slots /\ (InSlot(r) <=> InSlot(r)')
           \/ slots' = slots - 1 /\ slots > 0 /\ ~InSlot(r) /\ InSlot(r)'
           \/ slots' = slots + 1 /\ InSlot(r) /\ ~InSlot(r)',
           \/ where = None
           \/ where.step \in {"body", "enter", "tool"}
           \/ where.step = "guard" /\ where.day = Day(now)
           \/ where.step \in {"send", "record"} /\ At(r, "send") /\ where.day = request[r].day
    PROVE  IndInv'
<1>1. AgentTypeOK
  BY DEF IndInv
<1>2. request'[r] = where
  BY <1>1, OtherCalls
<1>3. AgentTypeOK'
  BY <1>1, SlotsKept DEF AgentTypeOK, Running
<1>4. \A p \in Periods, d \in Days :
          /\ d # Ongoing(p) /\ r \in Prepared(p, d)' => r \in Prepared(p, d)
          /\ r \in Passed(p, d)' => r \in Passed(p, d)
  BY <1>2 DEF Prepared, Passed, At, Ongoing
<1>5. \A p \in Periods, d \in Days :
          /\ d # Ongoing(p) => Prepared(p, d)' \subseteq Prepared(p, d)
          /\ Passed(p, d)' \subseteq Passed(p, d)
  <2>1. \A p, d : Prepared(p, d)' \subseteq Requests /\ Passed(p, d)' \subseteq Requests
    BY DEF Prepared, Passed
  <2> QED
    BY <1>1, <1>4, <2>1, OtherCalls
<1> QED
  BY <1>3, <1>5, CallsEnd DEF IndInv

(***************************************************************************)
(* A request outside of a slot stays outside, or takes one.                *)
(***************************************************************************)
LEMMA ArriveKeeps ==
    ASSUME IndInv, NEW r \in Requests, NEW key \in Keys, Arrive(r, key)
    PROVE  IndInv'
<1>1. UNCHANGED <<now, slots, spent>> /\ request[r] = None
  BY DEF Arrive
<1>2. CASE UNCHANGED request
  BY <1>1, <1>2 DEF IndInv, AgentTypeOK, InSlot, NotYet, Past, Present, Ongoing,
                    Prepared, Passed, Day
<1>3. CASE Move(r, [step |-> "body", of |-> key[1]])
  <2> DEFINE where == [step |-> "body", of |-> key[1]]
  <2>1. where \in Placed /\ where.step = "body"
    BY Places DEF Keys
  <2> HIDE DEF where
  <2>2. Move(r, where)
    BY <1>3 DEF where
  <2>3. ~InSlot(r) /\ ~InSlot(r)'
    BY <1>1, <2>1, <2>2, OtherCalls DEF InSlot, IndInv
  <2> QED
    BY <1>1, <2>1, <2>2, <2>3, QuietMove
<1> QED
  BY <1>2, <1>3 DEF Arrive

LEMMA ReadBodyKeeps ==
    ASSUME IndInv, NEW r \in Requests, ReadBody(r)
    PROVE  IndInv'
<1>1. UNCHANGED <<now, slots, spent>> /\ ~InSlot(r)
  BY DEF ReadBody, At, InSlot
<1>2. CASE Move(r, None)
  <2>1. ~InSlot(r)'
    BY <1>2, OtherCalls DEF InSlot, IndInv
  <2> QED
    BY <1>1, <1>2, <2>1, QuietMove
<1>3. CASE Move(r, [step |-> "enter"])
  <2>1. ~InSlot(r)'
    BY <1>3, OtherCalls DEF InSlot, IndInv
  <2> QED
    BY <1>1, <1>3, <2>1, Places, QuietMove
<1> QED
  BY <1>2, <1>3 DEF ReadBody, Respond

LEMMA EnterKeeps ==
    ASSUME IndInv, NEW r \in Requests, Enter(r)
    PROVE  IndInv'
<1>1. UNCHANGED <<now, spent>> /\ ~InSlot(r)
  BY DEF Enter, At, InSlot
<1>2. CASE Move(r, None) /\ UNCHANGED slots
  <2>1. ~InSlot(r)'
    BY <1>2, OtherCalls DEF InSlot, IndInv
  <2> QED
    BY <1>1, <1>2, <2>1, QuietMove
<1>3. CASE /\ slots > 0 /\ slots' = slots - 1
           /\ Move(r, [step |-> "guard", call |-> "decision", day |-> Day(now)])
  <2> DEFINE where == [step |-> "guard", call |-> "decision", day |-> Day(now)]
  <2>1. where \in Placed /\ where.step = "guard" /\ where.day = Day(now)
    BY Places, DaysGrow DEF IndInv, AgentTypeOK, Calls
  <2> HIDE DEF where
  <2>2. Move(r, where)
    BY <1>3 DEF where
  <2>3. InSlot(r)'
    BY <2>1, <2>2, OtherCalls, NoneAssumption DEF InSlot, IndInv
  <2> QED
    BY <1>1, <1>3, <2>1, <2>2, <2>3, QuietMove
<1> QED
  BY <1>2, <1>3 DEF Enter, Respond

-----------------------------------------------------------------------------
(* The steps in a slot.                                                    *)

(***************************************************************************)
(* However a run ends, its slot is free.                                   *)
(***************************************************************************)
LEMMA LeaveKeeps ==
    ASSUME IndInv, NEW r \in Requests, InSlot(r), Leave(r), UNCHANGED <<now, spent>>
    PROVE  IndInv'
<1>1. Move(r, None) /\ slots' = slots + 1
  BY DEF Leave, Respond
<1>2. ~InSlot(r)'
  BY <1>1, OtherCalls DEF InSlot, IndInv
<1> QED
  BY <1>1, <1>2, QuietMove

LEMMA GuardKeeps ==
    ASSUME IndInv, NEW r \in Requests, Guard(r)
    PROVE  IndInv'
<1>1. UNCHANGED <<now, spent>> /\ InSlot(r) /\ At(r, "guard") /\ AgentTypeOK
  BY DEF Guard, At, InSlot, IndInv
<1>2. CASE WithinBudget
  <2> DEFINE where == [step |-> "send", call |-> request[r].call,
                       day |-> request[r].day, attempt |-> 1]
  <2>1. where \in Placed /\ where.step = "send" /\ where.day = request[r].day
    <3>1. request[r].call \in Calls /\ request[r].day \in Days /\ 1 \in 1 .. Attempts
      BY <1>1, WhereCallsAre
    <3> QED
      BY <3>1, Places
  <2>2. Move(r, where) /\ UNCHANGED slots
    BY <1>2 DEF Guard
  <2> HIDE DEF where
  <2>3. request'[r] = where
    BY <1>1, <2>2, OtherCalls
  <2>4. InSlot(r)'
    BY <2>1, <2>3, NoneAssumption DEF InSlot
  <2>5. AgentTypeOK'
    BY <1>1, <2>1, <2>2, <2>4, SlotsKept DEF AgentTypeOK, Running
  <2>6. \A p, d : r \in Prepared(p, d)' => r \in Prepared(p, d)
    BY <1>1, <2>1, <2>3 DEF Prepared, At
  <2>7. \A p, d : Prepared(p, d)' \subseteq Requests
    BY DEF Prepared
  <2>8. \A p, d : Prepared(p, d)' \subseteq Prepared(p, d)
    BY <1>1, <2>2, <2>6, <2>7, OtherCalls
  <2> QED
    BY <1>1, <1>2, <2>5, <2>8, CallPasses DEF IndInv
<1>3. CASE ~WithinBudget
  BY <1>1, <1>3, LeaveKeeps DEF Guard
<1> QED
  BY <1>2, <1>3

LEMMA SendKeeps ==
    ASSUME IndInv, NEW r \in Requests, Send(r)
    PROVE  IndInv'
<1>1. UNCHANGED <<now, spent>> /\ InSlot(r) /\ At(r, "send") /\ AgentTypeOK
  BY DEF Send, At, InSlot, IndInv
<1>2. ASSUME NEW where \in Placed, Move(r, where), UNCHANGED slots,
             where.step \in {"send", "record"}, where.day = request[r].day
      PROVE  IndInv'
  <2>1. InSlot(r)'
    BY <1>1, <1>2, OtherCalls, NoneAssumption DEF InSlot
  <2> QED
    BY <1>1, <1>2, <2>1, QuietMove
<1>3. CASE /\ request[r].attempt < Attempts /\ UNCHANGED slots
           /\ Move(r, [request[r] EXCEPT !.attempt = @ + 1])
  <2>1. request[r] \in [step: {"send"}, call: Calls, day: Days, attempt: 1 .. Attempts]
    BY <1>1 DEF AgentTypeOK, At, Placed
  <2> DEFINE where == [request[r] EXCEPT !.attempt = @ + 1]
  <2>2. where \in Placed /\ where.step = "send" /\ where.day = request[r].day
    BY <1>3, <2>1 DEF Placed
  <2> QED
    BY <1>2, <1>3, <2>2
<1>4. CASE Leave(r)
  BY <1>1, <1>4, LeaveKeeps
<1>5. ASSUME NEW tokens \in 0 .. MaxTokens, UNCHANGED slots,
             Move(r, [step |-> "record", call |-> request[r].call,
                      day |-> request[r].day, tokens |-> tokens])
      PROVE  IndInv'
  <2> DEFINE where == [step |-> "record", call |-> request[r].call,
                       day |-> request[r].day, tokens |-> tokens]
  <2>1. request[r].call \in Calls /\ request[r].day \in Days
    BY <1>1, WhereCallsAre
  <2>2. where \in Placed
    BY <2>1, Places
  <2>3. where.step = "record" /\ where.day = request[r].day
    OBVIOUS
  <2> QED
    BY <1>2, <1>5, <2>2, <2>3
<1> QED
  BY <1>3, <1>4, <1>5 DEF Send

LEMMA ToolKeeps ==
    ASSUME IndInv, NEW r \in Requests, Tool(r)
    PROVE  IndInv'
<1>1. UNCHANGED <<now, spent>> /\ InSlot(r) /\ At(r, "tool") /\ AgentTypeOK
  BY DEF Tool, At, InSlot, IndInv
<1>2. CASE Leave(r)
  BY <1>1, <1>2, LeaveKeeps
<1>3. CASE /\ Move(r, [step |-> "guard", call |-> "answer", day |-> Day(now)])
           /\ UNCHANGED slots
  <2> DEFINE where == [step |-> "guard", call |-> "answer", day |-> Day(now)]
  <2>1. where \in Placed /\ where.step = "guard" /\ where.day = Day(now)
    BY Places, DaysGrow DEF IndInv, AgentTypeOK, Calls
  <2> HIDE DEF where
  <2>2. Move(r, where)
    BY <1>3 DEF where
  <2>3. InSlot(r)'
    BY <2>1, <2>2, OtherCalls, NoneAssumption DEF InSlot, IndInv
  <2> QED
    BY <1>1, <1>3, <2>1, <2>2, <2>3, QuietMove
<1> QED
  BY <1>2, <1>3 DEF Tool

(***************************************************************************)
(* A call that is over, its tokens in the ledger or not.                   *)
(***************************************************************************)
LEMMA RecordKeeps ==
    ASSUME IndInv, NEW r \in Requests, Record(r)
    PROVE  IndInv'
<1> DEFINE today  == request[r].day
           tokens == request[r].tokens
<1>1. /\ InSlot(r) /\ At(r, "record") /\ AgentTypeOK /\ now' = now
      /\ today \in Days /\ tokens \in 0 .. MaxTokens
  BY WhereCallsAre DEF Record, At, InSlot, IndInv
<1>2. PICK where \in {[step |-> "tool"], None} :
          /\ Move(r, where)
          /\ \/ where = [step |-> "tool"] /\ slots' = slots
             \/ where = None /\ slots' = slots + 1
  BY DEF Record, Leave, Respond
<1>3. where \in Placed \cup {None} /\ (where = None \/ where.step = "tool")
  BY <1>2, Places
<1>4. request'[r] = where
  BY <1>1, <1>2, OtherCalls
<1>5. \/ slots' = slots /\ (InSlot(r) <=> InSlot(r)')
      \/ slots' = slots + 1 /\ InSlot(r) /\ ~InSlot(r)'
  <2>1. CASE where = [step |-> "tool"] /\ slots' = slots
    <3>1. where # None
      BY <2>1, Places, NoneAssumption
    <3>2. InSlot(r)'
      BY <1>4, <2>1, <3>1 DEF InSlot
    <3> QED
      BY <1>1, <2>1, <3>2
  <2>2. CASE where = None /\ slots' = slots + 1
    BY <1>1, <1>4, <2>2 DEF InSlot
  <2> QED
    BY <1>2, <2>1, <2>2
<1>6. CASE UNCHANGED spent
  BY <1>1, <1>2, <1>3, <1>5, <1>6, QuietMove
<1>7. CASE spent' = [p \in Periods |-> [spent[p] EXCEPT ![Begin(p, today)] = @ + tokens]]
  <2>1. AgentTypeOK'
    <3>1. /\ request' \in [Requests -> Placed \cup {None}] /\ slots' \in 0 .. MaxRuns
          /\ slots' + Cardinality({q \in Requests : InSlot(q)})' = MaxRuns
      BY <1>1, <1>2, <1>3, <1>5, SlotsKept DEF Running
    <3>2. spent' \in [Periods -> [Days -> Nat]]
      <4>1. ASSUME NEW p \in Periods
            PROVE  [spent[p] EXCEPT ![Begin(p, today)] = @ + tokens] \in [Days -> Nat]
        <5>1. spent[p] \in [Days -> Nat] /\ tokens \in Nat /\ Begin(p, today) \in Days
          BY <1>1, PeriodsGrow DEF AgentTypeOK
        <5>2. \A f \in [Days -> Nat], d \in Days, n \in Nat :
                 [f EXCEPT ![d] = @ + n] \in [Days -> Nat]
          OBVIOUS
        <5> QED
          BY <5>1, <5>2
      <4> QED
        BY <1>7, <4>1
    <3> QED
      BY <1>1, <3>1, <3>2 DEF AgentTypeOK
  <2>2. \A p, d : r \notin Prepared(p, d)' /\ r \notin Passed(p, d)'
    BY <1>3, <1>4 DEF Prepared, Passed
  <2>3. \A p, d : Prepared(p, d)' \subseteq Requests /\ Passed(p, d)' \subseteq Requests
    BY DEF Prepared, Passed
  <2>4. \A p, d : /\ Prepared(p, d)' \subseteq Prepared(p, d) \ {r}
                  /\ Passed(p, d)' \subseteq Passed(p, d) \ {r}
    BY <1>1, <1>2, <2>2, <2>3, OtherCalls
  <2>5. \A p \in Periods : r \in Passed(p, Begin(p, today))
    BY <1>1 DEF Passed, At
  <2> HIDE DEF today, tokens
  <2>6. NotYet' /\ Past' /\ Present'
    BY <1>1, <1>7, <2>4, <2>5, CallRecorded
  <2> QED
    BY <2>1, <2>6 DEF IndInv
<1> QED
  BY <1>6, <1>7 DEF Record

-----------------------------------------------------------------------------
(* The steps of no request.                                                *)

LEMMA TickKeeps ==
    ASSUME IndInv, Tick
    PROVE  IndInv'
<1>1. now < MaxTime /\ now' = now + 1 /\ UNCHANGED <<request, slots, spent>>
  BY DEF Tick
<1>2. AgentTypeOK'
  BY <1>1 DEF IndInv, AgentTypeOK, InSlot
<1> QED
  BY <1>1, <1>2, TimePasses DEF IndInv

LEMMA RestartKeeps ==
    ASSUME IndInv, Restart
    PROVE  IndInv'
<1>1. /\ UNCHANGED <<now, spent>> /\ slots' = MaxRuns
      /\ request' = [r \in Requests |-> None]
  BY DEF Restart
<1>2. Running' = {} /\ \A p, d : Prepared(p, d)' = {} /\ Passed(p, d)' = {}
  BY <1>1 DEF Running, InSlot, Prepared, Passed
<1>3. AgentTypeOK'
  <2>1. Cardinality(Running') = 0
    BY <1>2, FS_EmptySet
  <2> QED
    BY <1>1, <2>1 DEF IndInv, AgentTypeOK, Running
<1> QED
  BY <1>1, <1>2, <1>3, CallsEnd DEF IndInv

LEMMA HandleKeeps ==
    ASSUME IndInv, NEW r \in Requests, Handle(r)
    PROVE  IndInv'
BY ArriveKeeps, ReadBodyKeeps, EnterKeeps, GuardKeeps, SendKeeps, RecordKeeps, ToolKeeps
   DEF Handle

LEMMA StutterKeeps ==
    ASSUME IndInv, UNCHANGED agent
    PROVE  IndInv'
BY DEF agent, IndInv, AgentTypeOK, InSlot, NotYet, Past, Present, Ongoing,
       Prepared, Passed, Day

(***************************************************************************)
(* What the invariant bounds.                                              *)
(***************************************************************************)
LEMMA Bounded == IndInv => OverrunBounded
<1> SUFFICES ASSUME IndInv PROVE OverrunBounded
  OBVIOUS
<1>1. AgentTypeOK
  BY DEF IndInv
<1>2. \A p \in Periods : Ongoing(p) \in Days /\ Budget(p) \in Nat
  BY <1>1, DaysGrow, PeriodsGrow DEF AgentTypeOK, Ongoing
<1>3. Cost(MaxRuns) \in Nat /\ Cost(MaxRuns) = MaxRuns * MaxTokens
  BY CostOfMore DEF Cost
<1>4. ASSUME NEW p \in Periods, Budget(p) > 0, NEW d \in Days
      PROVE  spent[p][d] < Budget(p) + 2 * Cost(MaxRuns)
  <2>1. spent[p][d] \in Nat
    BY <1>1 DEF AgentTypeOK
  <2>2. Prepared(p, d) \in SUBSET Running /\ Passed(p, d) \in SUBSET Running
    BY <1>1, FewCalls
  <2>3. Cost(Cardinality(Prepared(p, d))) \in Nat /\ Cost(Cardinality(Passed(p, d))) \in Nat
    BY <1>1, <2>2, Lighter
  <2>4. CASE d < Ongoing(p)
    <3>1. spent[p][d] + Cost(Cardinality(Prepared(p, d))) < Budget(p) + 2 * Cost(MaxRuns)
      BY <1>4, <2>4 DEF IndInv, Past
    <3> QED
      BY <1>2, <1>3, <2>1, <2>3, <3>1
  <2>5. CASE d = Ongoing(p)
    <3>1. spent[p][d] + Cost(Cardinality(Passed(p, d))) < Budget(p) + Cost(MaxRuns)
      BY <1>4, <2>5 DEF IndInv, Present
    <3> QED
      BY <1>2, <1>3, <2>1, <2>3, <3>1
  <2>6. CASE d > Ongoing(p)
    <3>1. spent[p][d] = 0
      BY <2>6 DEF IndInv, NotYet
    <3> QED
      BY <1>2, <1>3, <1>4, <3>1
  <2> QED
    BY <1>2, <2>4, <2>5, <2>6 DEF Days
<1>5. 2 * MaxRuns * MaxTokens = 2 * Cost(MaxRuns)
  BY <1>3
<1> QED
  BY <1>3, <1>4, <1>5 DEF OverrunBounded

(***************************************************************************)
(* The requests of one process, started again and again, keep the          *)
(* invariant.                                                              *)
(***************************************************************************)
THEOREM Invariance == AgentSpec => []IndInv
<1>1. IndInv /\ [AgentNext]_agent => IndInv'
  BY HandleKeeps, TickKeeps, RestartKeeps, StutterKeeps DEF AgentNext
<1> QED
  BY <1>1, PartsInit, PTL DEF AgentSpec

(***************************************************************************)
(* A slot is free or held by one run, whatever the requests do: no end of  *)
(* a run loses its slot or gives it back twice (the finally of run_agent). *)
(***************************************************************************)
THEOREM SlotsAreKept == AgentSpec => []AgentTypeOK
<1>1. IndInv => AgentTypeOK
  BY DEF IndInv
<1> QED
  BY <1>1, Invariance, PTL

(***************************************************************************)
(* For every limit, budget, number of requests and length of a day, the    *)
(* ledger exceeds its budgets by no more than the slots allow.             *)
(***************************************************************************)
THEOREM OverrunIsBounded == AgentSpec => []OverrunBounded
BY Invariance, Bounded, PTL

-----------------------------------------------------------------------------
(***************************************************************************)
(* The rate of a client.                                                   *)
(***************************************************************************)
Buckets == [key: Keys, expires: Int, count: Nat]

\* The windows in their order: they end in the order they began, and a key has
\* one.
WindowsOK ==
    /\ windows \in Seq(Buckets)
    /\ \A i \in DOMAIN windows :
          windows[i].expires <= now + Window /\ windows[i].count <= Limit(windows[i].key)
    /\ \A i, j \in DOMAIN windows : i < j =>
          windows[i].expires <= windows[j].expires /\ windows[i].key # windows[j].key

AdmittedOK ==
    /\ admitted = [k \in Keys |-> admitted[k]]
    /\ \A k \in Keys : /\ IsFiniteSet(admitted[k])
                       /\ \A a \in admitted[k] : a[1] \in Int /\ a[1] <= now

OpenFor(k, w) ==
    w.key = k /\ w.expires > now

Since(admissions, t) == {a \in admissions : a[1] >= t}
Earlier(admissions, t) == {a \in admissions : a[1] < t}

\* A window that is open has counted what was admitted since it began, and its
\* first admission is not forgotten yet; what is left of the window before it
\* lacks its first admission.
CountedSince(k) ==
    \A i \in DOMAIN windows : OpenFor(k, windows[i]) =>
        LET begun == windows[i].expires - Window
        IN  /\ <<begun, 1>> \in admitted[k]
            /\ Cardinality(Since(admitted[k], begun)) <= windows[i].count
            /\ Cardinality(Earlier(admitted[k], begun)) < Limit(k)

\* Without an open window: what is left of the last one.
Closed(k) ==
    (\A i \in DOMAIN windows : ~OpenFor(k, windows[i])) =>
        /\ Cardinality(admitted[k]) < Limit(k)
        /\ \A a \in admitted[k] : a[1] < now

RateInv ==
    /\ WindowsOK /\ AdmittedOK
    /\ \A k \in Keys : CountedSince(k) /\ Closed(k)

LEMMA Limits == \A k \in Keys : Limit(k) \in Nat /\ Limit(k) >= 1
  BY LimitAssumption DEF Limit, Keys

(***************************************************************************)
(* What _expire leaves: the open windows, in their order.                  *)
(***************************************************************************)
LEMMA CurrentWindows ==
    ASSUME WindowsOK, now \in Int
    PROVE  /\ Current \in Seq(Buckets)
           /\ \A i \in DOMAIN Current :
                 /\ Current[i].expires > now
                 /\ \E m \in DOMAIN windows : Current[i] = windows[m]
           /\ \A m \in DOMAIN windows :
                 windows[m].expires > now => \E i \in DOMAIN Current : Current[i] = windows[m]
           /\ \A i, j \in DOMAIN Current : i < j =>
                 Current[i].expires <= Current[j].expires /\ Current[i].key # Current[j].key
<1> DEFINE open == {i \in DOMAIN windows : windows[i].expires > now}
           first == CHOOSE i \in open : \A j \in open : i <= j
<1>1. /\ windows \in Seq(Buckets) /\ Len(windows) \in Nat
      /\ DOMAIN windows = 1 .. Len(windows)
      /\ \A i \in DOMAIN windows : windows[i] \in Buckets
  BY LenProperties, ElementOfSeq DEF WindowsOK
<1>2. CASE open = {}
  <2>1. Current = <<>>
    BY <1>2 DEF Current
  <2>2. Current \in Seq(Buckets) /\ DOMAIN Current = {}
    BY <2>1
  <2> QED
    BY <1>2, <2>2
<1>3. CASE open # {}
  <2>1. first \in open /\ \A j \in open : first <= j
    <3>1. open \subseteq Nat
      BY <1>1
    <3>2. \E i \in open : \A j \in open : ~ (<<j, i>> \in OpToRel(<, Nat))
      BY <1>3, <3>1, NatLessThanWellFounded, WFMin
    <3>3. \A i, j \in open : ~ (<<j, i>> \in OpToRel(<, Nat)) => i <= j
      BY <3>1 DEF OpToRel
    <3> QED
      BY <3>2, <3>3
  <2>2. Current = SubSeq(windows, first, Len(windows))
    BY <1>3 DEF Current
  <2>3. first \in Int /\ first >= 1 /\ first <= Len(windows) /\ windows[first].expires > now
    BY <1>1, <2>1
  <2> HIDE DEF first
  <2>4. /\ Current \in Seq(Buckets) /\ Len(Current) = Len(windows) - first + 1
        /\ \A i \in 1 .. Len(windows) - first + 1 : Current[i] = windows[first + i - 1]
    <3>1. \A i \in first .. Len(windows) : windows[i] \in Buckets
      BY <1>1, <2>3
    <3> QED
      BY <1>1, <2>2, <2>3, <3>1, SubSeqProperties
  <2>5. DOMAIN Current = 1 .. Len(windows) - first + 1
    BY <2>4, LenProperties
  <2>6. ASSUME NEW i \in DOMAIN Current
        PROVE  /\ first + i - 1 \in DOMAIN windows /\ first + i - 1 >= first
               /\ Current[i] = windows[first + i - 1]
    BY <1>1, <2>3, <2>4, <2>5
  <2>7. \A m \in DOMAIN windows : m >= first => windows[m].expires > now
    <3> SUFFICES ASSUME NEW m \in DOMAIN windows, m > first PROVE windows[m].expires > now
      BY <1>1, <2>3
    <3>1. windows[first].expires <= windows[m].expires /\ first \in DOMAIN windows
      BY <1>1, <2>3 DEF WindowsOK
    <3>2. windows[first].expires \in Int /\ windows[m].expires \in Int
      BY <1>1, <3>1 DEF Buckets
    <3> QED
      BY <2>3, <3>1, <3>2
  <2>8. ASSUME NEW m \in DOMAIN windows, windows[m].expires > now
        PROVE  \E i \in DOMAIN Current : Current[i] = windows[m]
    <3>1. m \in open /\ m >= first
      BY <2>1, <2>8 DEF first
    <3>2. m - first + 1 \in DOMAIN Current /\ first + (m - first + 1) - 1 = m
      BY <1>1, <2>3, <2>5, <3>1
    <3> QED
      BY <2>6, <3>2
  <2>9. ASSUME NEW i \in DOMAIN Current, NEW j \in DOMAIN Current, i < j
        PROVE  Current[i].expires <= Current[j].expires /\ Current[i].key # Current[j].key
    <3>1. first + i - 1 < first + j - 1
      BY <2>3, <2>5, <2>9
    <3> QED
      BY <2>6, <3>1 DEF WindowsOK
  <2> QED
    BY <2>4, <2>6, <2>7, <2>8, <2>9
<1> QED
  BY <1>2, <1>3

(***************************************************************************)
(* Admissions.                                                             *)
(***************************************************************************)
LEMMA Admissions ==
    ASSUME NEW A, IsFiniteSet(A), NEW x, NEW t
    PROVE  /\ IsFiniteSet(A \cup {x}) /\ Cardinality(A) \in Nat
           /\ IsFiniteSet({a \in A : a[1] >= t}) /\ IsFiniteSet({a \in A : a[1] < t})
           /\ Cardinality({a \in A : a[1] >= t}) \in Nat
           /\ Cardinality({a \in A : a[1] < t}) \in Nat
           /\ Cardinality({a \in A \cup {x} : a[1] >= t}) \in Nat
           /\ Cardinality({a \in A \cup {x} : a[1] >= t})
                 <= Cardinality({a \in A : a[1] >= t}) + 1
           /\ Cardinality({a \in A : a[1] < t}) <= Cardinality(A)
<1> DEFINE since == {a \in A : a[1] >= t}
           earlier == {a \in A : a[1] < t}
           more == {a \in A \cup {x} : a[1] >= t}
<1>1. IsFiniteSet(A \cup {x}) /\ Cardinality(A) \in Nat
  BY FS_AddElement, FS_CardinalityType
<1>2. since \in SUBSET A /\ earlier \in SUBSET A /\ more \in SUBSET (since \cup {x})
  OBVIOUS
<1> HIDE DEF since, earlier, more
<1>3. /\ IsFiniteSet(since) /\ IsFiniteSet(earlier)
      /\ Cardinality(earlier) <= Cardinality(A)
  BY <1>2, FS_Subset
<1>4. Cardinality(since) \in Nat /\ Cardinality(earlier) \in Nat
  BY <1>3, FS_CardinalityType
<1>5. IsFiniteSet(since \cup {x}) /\ Cardinality(since \cup {x}) <= Cardinality(since) + 1
  <2>1. /\ IsFiniteSet(since \cup {x})
        /\ Cardinality(since \cup {x}) =
              IF x \in since THEN Cardinality(since) ELSE Cardinality(since) + 1
    BY <1>3, FS_AddElement
  <2> QED
    BY <1>4, <2>1
<1>6. IsFiniteSet(more) /\ Cardinality(more) <= Cardinality(since \cup {x})
  BY <1>2, <1>5, FS_Subset
<1>7. Cardinality(more) \in Nat /\ Cardinality(since \cup {x}) \in Nat
  BY <1>5, <1>6, FS_CardinalityType
<1>8. Cardinality(more) <= Cardinality(since) + 1
  BY <1>4, <1>5, <1>6, <1>7
<1> QED
  BY <1>1, <1>3, <1>4, <1>7, <1>8 DEF since, earlier, more

(***************************************************************************)
(* A process begins without windows.                                       *)
(***************************************************************************)
LEMMA RateBegins == AgentInit => RateInv
<1> SUFFICES ASSUME AgentInit PROVE RateInv
  OBVIOUS
<1>1. windows = <<>> /\ DOMAIN windows = {} /\ windows \in Seq(Buckets)
  BY DEF AgentInit
<1>2. admitted = [k \in Keys |-> admitted[k]] /\ \A k \in Keys : admitted[k] = {}
  BY DEF AgentInit
<1>3. WindowsOK
  BY <1>1 DEF WindowsOK
<1>4. AdmittedOK
  BY <1>2, FS_EmptySet DEF AdmittedOK
<1>5. \A k \in Keys : CountedSince(k) /\ Closed(k)
  <2>1. \A k \in Keys : Limit(k) > 0
    BY Limits
  <2> QED
    BY <1>1, <1>2, <2>1, FS_EmptySet DEF CountedSince, Closed
<1> QED
  BY <1>3, <1>4, <1>5 DEF RateInv

LEMMA RestartRate == Restart => RateInv'
<1> SUFFICES ASSUME Restart PROVE RateInv'
  OBVIOUS
<1>1. windows' = <<>> /\ DOMAIN windows' = {} /\ windows' \in Seq(Buckets)
  BY DEF Restart
<1>2. admitted' = [k \in Keys |-> admitted'[k]] /\ \A k \in Keys : admitted'[k] = {}
  BY DEF Restart
<1>3. WindowsOK'
  BY <1>1 DEF WindowsOK
<1>4. AdmittedOK'
  BY <1>2, FS_EmptySet DEF AdmittedOK
<1>5. \A k \in Keys : CountedSince(k)' /\ Closed(k)'
  <2>1. \A k \in Keys : Limit(k) > 0
    BY Limits
  <2> QED
    BY <1>1, <1>2, <2>1, FS_EmptySet DEF CountedSince, Closed
<1> QED
  BY <1>3, <1>4, <1>5 DEF RateInv

(***************************************************************************)
(* Time passes: what is forgotten when a window ends has its first         *)
(* admission.                                                              *)
(***************************************************************************)
LEMMA TickRate ==
    ASSUME RateInv, now \in Int, Tick
    PROVE  RateInv'
<1>1. now' = now + 1 /\ windows' = windows
  BY DEF Tick
<1>2. \A k \in Keys : admitted'[k] = {a \in admitted[k] : a[1] > (now + 1) - Window}
  <2> SUFFICES ASSUME NEW k \in Keys
               PROVE  admitted'[k] = {a \in admitted[k] : a[1] > (now + 1) - Window}
    OBVIOUS
  <2>1. admitted'[k] = Recent(admitted[k], now + 1)
    BY DEF Tick
  <2> QED
    BY <2>1 DEF Recent
<1>3. \A i \in DOMAIN windows : windows[i].expires \in Int /\ windows[i].count \in Nat
  <2>1. \A i \in DOMAIN windows : windows[i] \in Buckets
    BY LenProperties, ElementOfSeq DEF RateInv, WindowsOK
  <2> QED
    BY <2>1 DEF Buckets
<1>4. Window \in Nat
  BY LimitAssumption
<1>5. WindowsOK'
  BY <1>1, <1>3, <1>4 DEF RateInv, WindowsOK
<1>6. AdmittedOK'
  <2>1. admitted' = [k \in Keys |-> admitted'[k]]
    BY DEF Tick
  <2> SUFFICES ASSUME NEW k \in Keys
               PROVE  /\ IsFiniteSet(admitted'[k])
                      /\ \A a \in admitted'[k] : a[1] \in Int /\ a[1] <= now'
    BY <2>1 DEF AdmittedOK
  <2>2. IsFiniteSet(admitted'[k])
    BY <1>2, FS_Subset DEF RateInv, AdmittedOK
  <2> QED
    BY <1>1, <1>2, <2>2 DEF RateInv, AdmittedOK
<1>7. ASSUME NEW k \in Keys PROVE CountedSince(k)' /\ Closed(k)'
  <2>1. /\ IsFiniteSet(admitted[k]) /\ admitted'[k] \in SUBSET admitted[k]
        /\ \A a \in admitted[k] : a[1] \in Int /\ a[1] <= now
        /\ CountedSince(k) /\ Closed(k)
    BY <1>2 DEF RateInv, AdmittedOK
  <2>2. Limit(k) \in Nat /\ Cardinality(admitted[k]) \in Nat
    BY <2>1, Limits, FS_CardinalityType
  <2>3. /\ IsFiniteSet(admitted'[k]) /\ Cardinality(admitted'[k]) \in Nat
        /\ Cardinality(admitted'[k]) <= Cardinality(admitted[k])
    BY <2>1, FS_Subset, FS_CardinalityType
  <2>4. ASSUME NEW i \in DOMAIN windows, OpenFor(k, windows[i])'
        PROVE  LET begun == windows[i].expires - Window
               IN  /\ <<begun, 1>> \in admitted'[k]
                   /\ Cardinality(Since(admitted'[k], begun)) <= windows[i].count
                   /\ Cardinality(Earlier(admitted'[k], begun)) < Limit(k)
    <3> DEFINE begun == windows[i].expires - Window
    <3>1. OpenFor(k, windows[i]) /\ windows[i].expires > now + 1
      BY <1>1, <1>3, <2>4 DEF OpenFor
    <3>2. /\ <<begun, 1>> \in admitted[k]
          /\ Cardinality(Since(admitted[k], begun)) <= windows[i].count
          /\ Cardinality(Earlier(admitted[k], begun)) < Limit(k)
      BY <2>1, <3>1 DEF CountedSince
    <3>3. begun \in Int /\ begun > (now + 1) - Window
      BY <1>3, <1>4, <3>1
    <3> HIDE DEF begun
    <3>4. <<begun, 1>> \in admitted'[k]
      BY <1>2, <3>2, <3>3
    <3>5. /\ Since(admitted'[k], begun) \in SUBSET Since(admitted[k], begun)
          /\ Earlier(admitted'[k], begun) \in SUBSET Earlier(admitted[k], begun)
      BY <2>1 DEF Since, Earlier
    <3>6. /\ IsFiniteSet(Since(admitted[k], begun)) /\ Cardinality(Since(admitted[k], begun)) \in Nat
          /\ IsFiniteSet(Earlier(admitted[k], begun)) /\ Cardinality(Earlier(admitted[k], begun)) \in Nat
      BY <2>1, Admissions DEF Since, Earlier
    <3>7. /\ Cardinality(Since(admitted'[k], begun)) \in Nat
          /\ Cardinality(Since(admitted'[k], begun)) <= Cardinality(Since(admitted[k], begun))
          /\ Cardinality(Earlier(admitted'[k], begun)) \in Nat
          /\ Cardinality(Earlier(admitted'[k], begun)) <= Cardinality(Earlier(admitted[k], begun))
      BY <3>5, <3>6, FS_Subset, FS_CardinalityType
    <3>8. /\ Cardinality(Since(admitted'[k], begun)) <= windows[i].count
          /\ Cardinality(Earlier(admitted'[k], begun)) < Limit(k)
      BY <1>3, <2>2, <3>2, <3>6, <3>7
    <3> QED
      BY <3>4, <3>8 DEF begun
  <2>5. CountedSince(k)'
    BY <1>1, <2>4 DEF CountedSince
  <2>6. ASSUME \A i \in DOMAIN windows : ~OpenFor(k, windows[i])'
        PROVE  Cardinality(admitted'[k]) < Limit(k)
    <3>1. CASE \A i \in DOMAIN windows : ~OpenFor(k, windows[i])
      BY <2>1, <2>2, <2>3, <3>1 DEF Closed
    <3>2. CASE ~ \A i \in DOMAIN windows : ~OpenFor(k, windows[i])
      <4>1. PICK i \in DOMAIN windows : OpenFor(k, windows[i])
        BY <3>2
      <4>2. windows[i].key = k /\ windows[i].expires = now + 1
        BY <1>1, <1>3, <2>6, <4>1 DEF OpenFor
      <4> DEFINE begun == windows[i].expires - Window
      <4>3. /\ <<begun, 1>> \in admitted[k]
            /\ Cardinality(Since(admitted[k], begun)) <= windows[i].count
        BY <2>1, <4>1 DEF CountedSince
      <4>4. windows[i].count \in Nat /\ windows[i].count <= Limit(k)
        BY <1>3, <4>2 DEF RateInv, WindowsOK
      <4>5. begun = (now + 1) - Window /\ begun \in Int
        BY <1>4, <4>2
      <4> HIDE DEF begun
      <4>6. <<begun, 1>> \in Since(admitted[k], begun)
        BY <4>3, <4>5 DEF Since
      <4>7. admitted'[k] \in SUBSET (Since(admitted[k], begun) \ {<<begun, 1>>})
        BY <1>2, <2>1, <4>5 DEF Since
      <4>8. IsFiniteSet(Since(admitted[k], begun)) /\ Cardinality(Since(admitted[k], begun)) \in Nat
        BY <2>1, Admissions DEF Since
      <4>9. /\ IsFiniteSet(Since(admitted[k], begun) \ {<<begun, 1>>})
            /\ Cardinality(Since(admitted[k], begun) \ {<<begun, 1>>}) = Cardinality(Since(admitted[k], begun)) - 1
        BY <4>6, <4>8, FS_RemoveElement
      <4>10. Cardinality(admitted'[k]) <= Cardinality(Since(admitted[k], begun) \ {<<begun, 1>>})
        BY <4>7, <4>9, FS_Subset
      <4> QED
        BY <2>2, <2>3, <4>3, <4>4, <4>8, <4>9, <4>10
    <3> QED
      BY <3>1, <3>2
  <2>7. \A a \in admitted'[k] : a[1] < now'
    BY <1>1, <2>1
  <2>8. Closed(k)'
    BY <1>1, <2>6, <2>7 DEF Closed
  <2> QED
    BY <2>5, <2>8
<1> QED
  BY <1>5, <1>6, <1>7 DEF RateInv

(***************************************************************************)
(* The open windows as they were, with what each key was admitted.         *)
(***************************************************************************)
LEMMA KeyUndisturbed ==
    ASSUME NEW k \in Keys, CountedSince(k), Closed(k),
           now' = now, admitted'[k] = admitted[k],
           \A i \in DOMAIN windows' : windows'[i].key = k =>
              \E m \in DOMAIN windows : windows'[i] = windows[m],
           \A m \in DOMAIN windows : OpenFor(k, windows[m]) =>
              \E i \in DOMAIN windows' : windows'[i] = windows[m]
    PROVE  CountedSince(k)' /\ Closed(k)'
<1>1. CountedSince(k)'
  <2> SUFFICES ASSUME NEW i \in DOMAIN windows', OpenFor(k, windows[i])'
               PROVE  LET begun == windows'[i].expires - Window
                      IN  /\ <<begun, 1>> \in admitted'[k]
                          /\ Cardinality(Since(admitted'[k], begun)) <= windows'[i].count
                          /\ Cardinality(Earlier(admitted'[k], begun)) < Limit(k)
    BY DEF CountedSince
  <2>1. PICK m \in DOMAIN windows : windows'[i] = windows[m]
    BY DEF OpenFor
  <2>2. OpenFor(k, windows[m])
    BY <2>1 DEF OpenFor
  <2> QED
    BY <2>1, <2>2 DEF CountedSince
<1>2. Closed(k)'
  <2> SUFFICES ASSUME \A i \in DOMAIN windows' : ~OpenFor(k, windows[i])'
               PROVE  \A m \in DOMAIN windows : ~OpenFor(k, windows[m])
    BY DEF Closed
  <2> QED
    BY DEF OpenFor
<1> QED
  BY <1>1, <1>2

(***************************************************************************)
(* An admission, in a new window or in the one that is open.               *)
(***************************************************************************)
LEMMA ArriveRate ==
    ASSUME RateInv, now \in Int, NEW r \in Requests, NEW key \in Keys, Arrive(r, key)
    PROVE  RateInv'
<1> DEFINE mine == {i \in DOMAIN Current : Current[i].key = key}
           at == CHOOSE j \in mine : TRUE
           bucket == [key |-> key, expires |-> now + Window, count |-> 1]
           new == <<now, Cardinality({a \in admitted[key] : a[1] = now}) + 1>>
<1> DEFINE Admitted == admitted' = [admitted EXCEPT ![key] = @ \cup {new}]
<1>1. /\ now' = now
      /\ \/ windows' = Current /\ admitted' = admitted
         \/ mine = {} /\ windows' = Append(Current, bucket) /\ Admitted
         \/ /\ mine # {} /\ Current[at].count < Limit(key)
            /\ windows' = [Current EXCEPT ![at].count = @ + 1]
            /\ Admitted
  <2>1. /\ now' = now /\ windows' = Admission(key).windows
        /\ IF Admission(key).admit THEN Admitted ELSE UNCHANGED admitted
    BY DEF Arrive, Counted
  <2>2. CASE mine = {}
    <3>1. Admission(key) = IF Len(Current) >= MaxBuckets
                           THEN [admit |-> FALSE, windows |-> Current]
                           ELSE [admit |-> TRUE, windows |-> Append(Current, bucket)]
      BY <2>2 DEF Admission
    <3> HIDE DEF mine, bucket, Admitted
    <3> QED
      BY <2>1, <2>2, <3>1
  <2>3. CASE mine # {}
    <3>1. Admission(key) = IF Current[at].count >= Limit(key)
                           THEN [admit |-> FALSE, windows |-> Current]
                           ELSE [admit |-> TRUE,
                                 windows |-> [Current EXCEPT ![at].count = @ + 1]]
      BY <2>3 DEF Admission
    <3>2. Current[at].count \in Int /\ Limit(key) \in Int
      <4>1. at \in DOMAIN Current
        BY <2>3
      <4>2. Current[at] \in Buckets
        BY <4>1, CurrentWindows, LenProperties, ElementOfSeq DEF RateInv
      <4> QED
        BY <4>2, Limits DEF Buckets
    <3> HIDE DEF mine, at, Admitted
    <3> QED
      BY <2>1, <2>3, <3>1, <3>2
  <2> QED
    BY <2>2, <2>3
<1>2. /\ Current \in Seq(Buckets) /\ Len(Current) \in Nat
      /\ DOMAIN Current = 1 .. Len(Current)
      /\ \A i \in DOMAIN Current : Current[i] \in Buckets
  BY CurrentWindows, LenProperties, ElementOfSeq DEF RateInv
<1>3. /\ \A i \in DOMAIN Current :
            /\ Current[i].expires > now
            /\ \E m \in DOMAIN windows : Current[i] = windows[m]
      /\ \A m \in DOMAIN windows :
            windows[m].expires > now => \E i \in DOMAIN Current : Current[i] = windows[m]
      /\ \A i, j \in DOMAIN Current : i < j =>
            Current[i].expires <= Current[j].expires /\ Current[i].key # Current[j].key
  BY CurrentWindows DEF RateInv
<1>4. \A i \in DOMAIN Current : /\ Current[i].expires <= now + Window
                               /\ Current[i].count <= Limit(Current[i].key)
  BY <1>3 DEF RateInv, WindowsOK
<1>5. /\ IsFiniteSet(admitted[key]) /\ CountedSince(key) /\ Closed(key)
      /\ \A a \in admitted[key] : a[1] \in Int /\ a[1] <= now
      /\ Limit(key) \in Nat /\ Limit(key) >= 1
      /\ Window \in Nat /\ Window >= 1
  BY Limits, LimitAssumption DEF RateInv, AdmittedOK
<1> HIDE DEF mine, at, bucket, new, Admitted
\* Who gets no further.
<1>6. CASE windows' = Current /\ admitted' = admitted
  <2>1. WindowsOK'
    BY <1>1, <1>2, <1>3, <1>4, <1>6 DEF WindowsOK
  <2>2. AdmittedOK'
    BY <1>1, <1>6 DEF RateInv, AdmittedOK
  <2>3. ASSUME NEW k \in Keys PROVE CountedSince(k)' /\ Closed(k)'
    <3>1. CountedSince(k) /\ Closed(k) /\ admitted'[k] = admitted[k]
      BY <1>6 DEF RateInv
    <3> QED
      BY <1>1, <1>3, <1>6, <3>1, KeyUndisturbed DEF OpenFor
  <2> QED
    BY <2>1, <2>2, <2>3 DEF RateInv
<1>7. ASSUME Admitted
      PROVE  /\ AdmittedOK' /\ admitted'[key] = admitted[key] \cup {new}
             /\ \A k \in Keys \ {key} : admitted'[k] = admitted[k]
  <2>1. admitted = [k \in Keys |-> admitted[k]]
    BY DEF RateInv, AdmittedOK
  <2>2. /\ admitted'[key] = admitted[key] \cup {new}
        /\ \A k \in Keys \ {key} : admitted'[k] = admitted[k]
        /\ admitted' = [k \in Keys |-> admitted'[k]]
    BY <1>7, <2>1 DEF Admitted
  <2>3. new[1] = now
    BY DEF new
  <2>4. IsFiniteSet(admitted[key] \cup {new})
    BY <1>5, FS_AddElement
  <2>5. \A a \in admitted[key] \cup {new} : a[1] \in Int /\ a[1] <= now
    BY <1>5, <2>3
  <2> QED
    BY <1>1, <2>2, <2>4, <2>5 DEF RateInv, AdmittedOK
\* A new window: the key had none that was open.
<1>8. CASE mine = {} /\ windows' = Append(Current, bucket) /\ Admitted
  <2>1. /\ windows' \in Seq(Buckets) /\ Len(windows') = Len(Current) + 1
        /\ DOMAIN windows' = 1 .. Len(Current) + 1
        /\ windows'[Len(Current) + 1] = bucket
        /\ \A i \in DOMAIN Current : windows'[i] = Current[i]
    <3>1. bucket \in Buckets
      BY <1>5 DEF bucket, Buckets
    <3> QED
      BY <1>2, <1>8, <3>1
  <2>2. bucket.key = key /\ bucket.expires = now + Window /\ bucket.count = 1
    BY DEF bucket
  <2>3. \A i \in DOMAIN Current : Current[i].key # key
    BY <1>8 DEF mine
  <2>4. WindowsOK'
    <3>1. ASSUME NEW i \in DOMAIN windows'
          PROVE  /\ windows'[i].expires <= now' + Window
                 /\ windows'[i].count <= Limit(windows'[i].key)
      <4>1. i \in DOMAIN Current \/ i = Len(Current) + 1
        BY <1>2, <2>1
      <4> QED
        BY <1>1, <1>4, <1>5, <2>1, <2>2, <4>1
    <3>2. ASSUME NEW i \in DOMAIN windows', NEW j \in DOMAIN windows', i < j
          PROVE  /\ windows'[i].expires <= windows'[j].expires
                 /\ windows'[i].key # windows'[j].key
      <4>1. i \in DOMAIN Current
        BY <1>2, <2>1, <3>2
      <4>2. CASE j \in DOMAIN Current
        BY <1>3, <2>1, <3>2, <4>1, <4>2
      <4>3. CASE j = Len(Current) + 1
        BY <1>4, <2>1, <2>2, <2>3, <4>1, <4>3
      <4> QED
        BY <1>2, <2>1, <4>2, <4>3
    <3> QED
      BY <2>1, <3>1, <3>2 DEF WindowsOK
  <2>5. ASSUME NEW k \in Keys \ {key} PROVE CountedSince(k)' /\ Closed(k)'
    <3>1. CountedSince(k) /\ Closed(k) /\ admitted'[k] = admitted[k]
      BY <1>7, <1>8 DEF RateInv
    <3>2. \A i \in DOMAIN windows' : windows'[i].key = k =>
             \E m \in DOMAIN windows : windows'[i] = windows[m]
      BY <1>2, <1>3, <2>1, <2>2
    <3>3. \A m \in DOMAIN windows : OpenFor(k, windows[m]) =>
             \E i \in DOMAIN windows' : windows'[i] = windows[m]
      BY <1>2, <1>3, <2>1 DEF OpenFor
    <3> QED
      BY <1>1, <3>1, <3>2, <3>3, KeyUndisturbed
  <2>6. /\ Cardinality(admitted[key]) < Limit(key)
        /\ \A a \in admitted[key] : a[1] < now
    <3>1. \A m \in DOMAIN windows : ~OpenFor(key, windows[m])
      BY <1>3, <2>3 DEF OpenFor
    <3> QED
      BY <1>5, <3>1 DEF Closed
  <2>7. new = <<now, 1>>
    <3>1. {a \in admitted[key] : a[1] = now} = {}
      BY <1>5, <2>6
    <3>2. Cardinality({a \in admitted[key] : a[1] = now}) = 0
      BY <3>1, FS_EmptySet
    <3> QED
      BY <3>2 DEF new
  <2>8. /\ Since(admitted'[key], now) = {new}
        /\ Earlier(admitted'[key], now) \in SUBSET admitted[key]
    BY <1>5, <1>7, <1>8, <2>6, <2>7 DEF Since, Earlier
  <2>9. /\ Cardinality(Since(admitted'[key], now)) = 1
        /\ Cardinality(Earlier(admitted'[key], now)) < Limit(key)
    <3>1. /\ Cardinality(Earlier(admitted'[key], now)) <= Cardinality(admitted[key])
          /\ IsFiniteSet(Earlier(admitted'[key], now))
      BY <1>5, <2>8, FS_Subset
    <3>2. /\ Cardinality(Earlier(admitted'[key], now)) \in Nat
          /\ Cardinality(admitted[key]) \in Nat
      BY <1>5, <3>1, FS_CardinalityType
    <3>3. Cardinality(Since(admitted'[key], now)) = 1
      BY <2>8, FS_Singleton
    <3> QED
      BY <1>5, <2>6, <3>1, <3>2, <3>3
  <2>10. CountedSince(key)'
    <3> SUFFICES ASSUME NEW i \in DOMAIN windows', OpenFor(key, windows[i])'
                 PROVE  LET begun == windows'[i].expires - Window
                        IN  /\ <<begun, 1>> \in admitted'[key]
                            /\ Cardinality(Since(admitted'[key], begun)) <= windows'[i].count
                            /\ Cardinality(Earlier(admitted'[key], begun)) < Limit(key)
      BY DEF CountedSince
    <3>1. windows'[i] = bucket
      BY <1>2, <2>1, <2>3 DEF OpenFor
    <3>2. windows'[i].expires - Window = now /\ windows'[i].count = 1
      BY <1>5, <2>2, <3>1
    <3> QED
      BY <1>7, <1>8, <2>7, <2>9, <3>2
  <2>11. Closed(key)'
    <3>1. /\ Len(Current) + 1 \in DOMAIN windows'
          /\ windows'[Len(Current) + 1].key = key
          /\ windows'[Len(Current) + 1].expires > now'
      <4>1. Len(Current) + 1 \in 1 .. Len(Current) + 1
        BY <1>2
      <4>2. now + Window > now
        BY <1>5
      <4> QED
        BY <1>1, <2>1, <2>2, <4>1, <4>2
    <3> QED
      BY <3>1 DEF Closed, OpenFor
  <2> QED
    BY <1>7, <1>8, <2>4, <2>5, <2>10, <2>11 DEF RateInv
\* The window that is open counts one more.
<1>9. CASE /\ mine # {} /\ Current[at].count < Limit(key)
           /\ windows' = [Current EXCEPT ![at].count = @ + 1]
           /\ Admitted
  <2>1. at \in DOMAIN Current /\ Current[at].key = key
    BY <1>9 DEF at, mine
  <2> DEFINE counted == [Current[at] EXCEPT !.count = @ + 1]
  <2>2. /\ counted \in Buckets /\ counted.key = key
        /\ counted.expires = Current[at].expires /\ counted.count = Current[at].count + 1
        /\ Current[at].expires \in Int /\ Current[at].count \in Nat
    <3>1. Current[at] \in Buckets
      BY <1>2, <2>1
    <3>2. \A w \in Buckets :
             LET more == [w EXCEPT !.count = @ + 1]
             IN  /\ more \in Buckets /\ more.key = w.key /\ more.expires = w.expires
                 /\ more.count = w.count + 1
                 /\ w.expires \in Int /\ w.count \in Nat
      BY DEF Buckets
    <3> QED
      BY <2>1, <3>1, <3>2
  <2>3. windows' = [Current EXCEPT ![at] = counted]
    BY <1>9
  <2> HIDE DEF counted
  <2>4. /\ windows' \in Seq(Buckets) /\ DOMAIN windows' = DOMAIN Current
        /\ windows'[at] = counted
        /\ \A i \in DOMAIN Current \ {at} : windows'[i] = Current[i]
    BY <1>2, <2>1, <2>2, <2>3, ExceptSeq, LenProperties
  <2>5. \A i \in DOMAIN Current \ {at} : Current[i].key # key
    <3> SUFFICES ASSUME NEW i \in DOMAIN Current \ {at} PROVE Current[i].key # key
      OBVIOUS
    <3>1. i < at \/ at < i
      BY <1>2, <2>1
    <3> QED
      BY <1>3, <2>1, <3>1
  <2>6. \A i \in DOMAIN Current : windows'[i].key = Current[i].key
                                 /\ windows'[i].expires = Current[i].expires
    BY <2>1, <2>2, <2>4
  <2>7. WindowsOK'
    <3>1. ASSUME NEW i \in DOMAIN windows'
          PROVE  /\ windows'[i].expires <= now' + Window
                 /\ windows'[i].count <= Limit(windows'[i].key)
      <4>1. CASE i = at
        <5>1. Current[at].count + 1 <= Limit(key)
          BY <1>5, <1>9, <2>2
        <5> QED
          BY <1>1, <1>4, <2>1, <2>2, <2>4, <4>1, <5>1
      <4>2. CASE i # at
        BY <1>1, <1>4, <2>4, <4>2
      <4> QED
        BY <4>1, <4>2
    <3> QED
      BY <1>3, <2>4, <2>6, <3>1 DEF WindowsOK
  <2>8. ASSUME NEW k \in Keys \ {key} PROVE CountedSince(k)' /\ Closed(k)'
    <3>1. CountedSince(k) /\ Closed(k) /\ admitted'[k] = admitted[k]
      BY <1>7, <1>9 DEF RateInv
    <3>2. \A i \in DOMAIN windows' : windows'[i].key = k =>
             \E m \in DOMAIN windows : windows'[i] = windows[m]
      BY <1>3, <2>1, <2>2, <2>4
    <3>3. \A m \in DOMAIN windows : OpenFor(k, windows[m]) =>
             \E i \in DOMAIN windows' : windows'[i] = windows[m]
      <4> SUFFICES ASSUME NEW m \in DOMAIN windows, OpenFor(k, windows[m])
                   PROVE  \E i \in DOMAIN windows' : windows'[i] = windows[m]
        OBVIOUS
      <4>1. PICK i \in DOMAIN Current : Current[i] = windows[m]
        BY <1>3 DEF OpenFor
      <4>2. i # at
        BY <2>1, <4>1 DEF OpenFor
      <4> QED
        BY <2>4, <4>1, <4>2
    <3> QED
      BY <1>1, <3>1, <3>2, <3>3, KeyUndisturbed
  <2> DEFINE begun == counted.expires - Window
  <2>9. /\ <<begun, 1>> \in admitted[key]
        /\ Cardinality(Since(admitted[key], begun)) <= Current[at].count
        /\ Cardinality(Earlier(admitted[key], begun)) < Limit(key)
    <3>1. PICK m \in DOMAIN windows : Current[at] = windows[m]
      BY <1>3, <2>1
    <3>2. OpenFor(key, windows[m])
      BY <1>3, <2>1, <3>1 DEF OpenFor
    <3> QED
      BY <1>5, <2>2, <3>1, <3>2 DEF CountedSince
  <2>10. begun \in Int /\ begun <= now
    BY <1>4, <1>5, <2>1, <2>2
  <2> HIDE DEF begun
  <2>11. /\ Cardinality(Since(admitted'[key], begun)) <= counted.count
         /\ Cardinality(Earlier(admitted'[key], begun)) < Limit(key)
    <3>1. admitted'[key] = admitted[key] \cup {new} /\ new[1] = now
      BY <1>7, <1>9 DEF new
    <3>2. /\ Cardinality(Since(admitted'[key], begun))
                <= Cardinality(Since(admitted[key], begun)) + 1
          /\ Cardinality(Since(admitted'[key], begun)) \in Nat
          /\ Cardinality(Since(admitted[key], begun)) \in Nat
      BY <1>5, <3>1, Admissions DEF Since
    <3>3. Earlier(admitted'[key], begun) = Earlier(admitted[key], begun)
      BY <2>10, <3>1 DEF Earlier
    <3> QED
      BY <2>2, <2>9, <3>2, <3>3
  <2>12. CountedSince(key)'
    <3> SUFFICES ASSUME NEW i \in DOMAIN windows', OpenFor(key, windows[i])'
                 PROVE  LET b == windows'[i].expires - Window
                        IN  /\ <<b, 1>> \in admitted'[key]
                            /\ Cardinality(Since(admitted'[key], b)) <= windows'[i].count
                            /\ Cardinality(Earlier(admitted'[key], b)) < Limit(key)
      BY DEF CountedSince
    <3>1. i = at
      BY <2>4, <2>5 DEF OpenFor
    <3>2. windows'[i] = counted /\ <<begun, 1>> \in admitted'[key]
      BY <1>7, <1>9, <2>4, <2>9, <3>1
    <3> QED
      BY <2>11, <3>2 DEF begun
  <2>13. Closed(key)'
    <3>1. at \in DOMAIN windows' /\ windows'[at].key = key /\ windows'[at].expires > now'
      BY <1>1, <1>3, <2>1, <2>2, <2>4
    <3> QED
      BY <3>1 DEF Closed, OpenFor
  <2> QED
    BY <1>7, <1>9, <2>7, <2>8, <2>12, <2>13 DEF RateInv
<1> QED
  BY <1>1, <1>6, <1>8, <1>9

(***************************************************************************)
(* A client gets through less than twice its limit within one window.      *)
(***************************************************************************)
LEMMA RateBounded ==
    ASSUME RateInv
    PROVE  RateKept
<1> SUFFICES ASSUME NEW k \in Keys PROVE Cardinality(admitted[k]) < 2 * Limit(k)
  BY DEF RateKept
<1>1. /\ IsFiniteSet(admitted[k]) /\ CountedSince(k) /\ Closed(k)
      /\ \A a \in admitted[k] : a[1] \in Int
      /\ Limit(k) \in Nat /\ Limit(k) >= 1 /\ Cardinality(admitted[k]) \in Nat
  BY Limits, FS_CardinalityType DEF RateInv, AdmittedOK
<1>2. CASE \A i \in DOMAIN windows : ~OpenFor(k, windows[i])
  BY <1>1, <1>2 DEF Closed
<1>3. CASE \E i \in DOMAIN windows : OpenFor(k, windows[i])
  <2>1. PICK i \in DOMAIN windows : OpenFor(k, windows[i])
    BY <1>3
  <2> DEFINE begun == windows[i].expires - Window
             since == Since(admitted[k], begun)
             earlier == Earlier(admitted[k], begun)
  <2>2. /\ Cardinality(since) <= windows[i].count /\ Cardinality(earlier) < Limit(k)
        /\ windows[i].count <= Limit(k)
    BY <1>1, <2>1 DEF CountedSince, OpenFor, RateInv, WindowsOK
  <2>3. begun \in Int /\ windows[i].count \in Nat
    <3>1. windows \in Seq(Buckets) /\ i \in 1 .. Len(windows)
      BY LenProperties DEF RateInv, WindowsOK
    <3>2. windows[i] \in Buckets
      BY <3>1, ElementOfSeq
    <3> QED
      BY <3>2, LimitAssumption DEF Buckets
  <2> HIDE DEF begun
  <2>4. /\ IsFiniteSet(since) /\ IsFiniteSet(earlier)
        /\ Cardinality(since) \in Nat /\ Cardinality(earlier) \in Nat
    BY <1>1, Admissions DEF Since, Earlier
  <2>5. admitted[k] = since \cup earlier /\ since \cap earlier = {}
    BY <1>1, <2>3 DEF Since, Earlier
  <2> HIDE DEF since, earlier
  <2>6. Cardinality(admitted[k]) = Cardinality(since) + Cardinality(earlier)
    <3>1. Cardinality(since \cup earlier)
             = Cardinality(since) + Cardinality(earlier) - Cardinality(since \cap earlier)
      BY <2>4, FS_Union
    <3>2. Cardinality(since \cap earlier) = 0
      BY <2>5, FS_EmptySet
    <3>3. Cardinality(admitted[k]) = Cardinality(since \cup earlier)
      BY <2>5
    <3> QED
      BY <2>4, <3>1, <3>2, <3>3
  <2> QED
    BY <1>1, <2>2, <2>3, <2>4, <2>6
<1> QED
  BY <1>2, <1>3

LEMMA QuietRate ==
    ASSUME RateInv, UNCHANGED <<now, windows, admitted>>
    PROVE  RateInv'
<1>1. WindowsOK' /\ AdmittedOK'
  BY DEF RateInv, WindowsOK, AdmittedOK
<1>2. \A k \in Keys : CountedSince(k)' /\ Closed(k)'
  BY DEF RateInv, CountedSince, Closed, OpenFor
<1> QED
  BY <1>1, <1>2 DEF RateInv

LEMMA HandleRate ==
    ASSUME RateInv, now \in Int, NEW r \in Requests, Handle(r)
    PROVE  RateInv'
<1>1. CASE \E key \in Keys : Arrive(r, key)
  BY <1>1, ArriveRate
<1>2. CASE ~ \E key \in Keys : Arrive(r, key)
  BY <1>2, QuietRate DEF Handle, ReadBody, Enter, Guard, Send, Record, Tool
<1> QED
  BY <1>1, <1>2

(***************************************************************************)
(* Of the requests alone: a client gets through less than twice its limit  *)
(* within the time of one window, wherever that time begins.               *)
(***************************************************************************)
THEOREM RateIsKept == AgentSpec => []RateKept
<1>1. RateInv /\ AgentTypeOK /\ [AgentNext]_agent => RateInv'
  <2> SUFFICES ASSUME RateInv, AgentTypeOK, [AgentNext]_agent PROVE RateInv'
    OBVIOUS
  <2>1. now \in Int
    BY DEF AgentTypeOK
  <2> QED
    BY <2>1, HandleRate, TickRate, RestartRate, QuietRate DEF AgentNext, agent
<1>2. RateInv => RateKept
  BY RateBounded
<1> QED
  BY <1>1, <1>2, RateBegins, SlotsAreKept, PTL DEF AgentSpec

-----------------------------------------------------------------------------
(***************************************************************************)
(* The start of the service.                                               *)
(***************************************************************************)
USE StorageAssumption, NoFileAssumption

Both == {"wal", "shm"}

\* What the database is at each step of a start.
Stages ==
    /\ stage \in {"seed", "copy", "link"} => target = NoFile /\ ~published
    /\ stage = "link" => temporary = "whole"
    /\ stage \in {"unlink", "check", "wal", "shm", "final", "serving"} \cup Undoing
          => target # NoFile
    /\ stage \in Undoing \cup {"unlink"} => published
    /\ stage \in {"down", "layout", "serving"} => ~published
    /\ published => target # NoFile /\ ~target.used

\* Where no process ended halfway: the files are what a start accepts.
Files ==
    \/ halfway
    \/ /\ target = NoFile => sidecars = {}
       /\ target # NoFile /\ stage \notin {"unlink", "undo"} => target.links = 1
       /\ stage \in {"seed", "copy", "link", "undo target"} => sidecars = {}
       /\ stage \in {"down", "layout", "unlink", "check", "wal"} => sidecars \in {{}, Both}
       /\ stage = "shm" => sidecars \in {{"wal"}, Both}
       /\ stage \in {"final", "serving"} => sidecars = Both
       /\ stage = "undo shm" => "wal" \notin sidecars

StorageInv ==
    StorageTypeOK /\ Stages /\ PublishedWhole /\ Files /\ RefusedForACause

(***************************************************************************)
(* A database that loses a name, or is used, is a database.                *)
(***************************************************************************)
LEMMA Databases ==
    ASSUME StorageTypeOK, target # NoFile
    PROVE  /\ target \in [links: 1 .. 2, whole: BOOLEAN, used: BOOLEAN]
           /\ \A t \in {[target EXCEPT !.links = 1], [target EXCEPT !.used = TRUE]} :
                 /\ t \in [links: 1 .. 2, whole: BOOLEAN, used: BOOLEAN]
                 /\ t # NoFile /\ t.whole = target.whole
           /\ [target EXCEPT !.links = 1].links = 1
           /\ [target EXCEPT !.links = 1].used = target.used
           /\ [target EXCEPT !.used = TRUE].links = target.links
           /\ [target EXCEPT !.used = TRUE].used
<1>1. target \in [links: 1 .. 2, whole: BOOLEAN, used: BOOLEAN]
  BY DEF StorageTypeOK
<1>2. ASSUME NEW t \in [links: 1 .. 2, whole: BOOLEAN, used: BOOLEAN]
      PROVE  /\ t # NoFile
             /\ [t EXCEPT !.links = 1] \in [links: 1 .. 2, whole: BOOLEAN, used: BOOLEAN]
             /\ [t EXCEPT !.used = TRUE] \in [links: 1 .. 2, whole: BOOLEAN, used: BOOLEAN]
             /\ [t EXCEPT !.links = 1].whole = t.whole
             /\ [t EXCEPT !.used = TRUE].whole = t.whole
             /\ [t EXCEPT !.links = 1].links = 1
             /\ [t EXCEPT !.links = 1].used = t.used
             /\ [t EXCEPT !.used = TRUE].links = t.links
             /\ [t EXCEPT !.used = TRUE].used
  <2>1. t # NoFile
    OBVIOUS
  <2>2. [t EXCEPT !.links = 1] \in [links: 1 .. 2, whole: BOOLEAN, used: BOOLEAN]
    OBVIOUS
  <2>3. [t EXCEPT !.used = TRUE] \in [links: 1 .. 2, whole: BOOLEAN, used: BOOLEAN]
    OBVIOUS
  <2>4. [t EXCEPT !.links = 1].whole = t.whole /\ [t EXCEPT !.links = 1].used = t.used
    OBVIOUS
  <2>5. [t EXCEPT !.used = TRUE].whole = t.whole
    OBVIOUS
  <2>6. [t EXCEPT !.links = 1].links = 1 /\ [t EXCEPT !.used = TRUE].links = t.links
    OBVIOUS
  <2>7. [t EXCEPT !.used = TRUE].used
    OBVIOUS
  <2> QED
    BY <2>1, <2>2, <2>3, <2>4, <2>5, <2>6, <2>7
<1> QED
  BY <1>1, <1>2

(***************************************************************************)
(* A start begins from nothing.                                            *)
(***************************************************************************)
LEMMA StorageBegins == StorageInit => StorageInv
<1> SUFFICES ASSUME StorageInit PROVE StorageInv
  OBVIOUS
<1> USE DEF StorageInit
<1>1. StorageTypeOK
  <2>1. deaths \in 0 .. MaxDeaths /\ faults \in 0 .. MaxFaults
    OBVIOUS
  <2>2. /\ target \in {NoFile} /\ temporary \in {NoFile} /\ sidecars = {}
        /\ published = FALSE /\ refused = FALSE /\ halfway = FALSE
        /\ stage \in {"down", "serving"}
    OBVIOUS
  <2> HIDE DEF StorageInit
  <2> QED
    BY <2>1, <2>2 DEF StorageTypeOK
<1>2. Stages
  BY DEF Stages, Undoing
<1>3. PublishedWhole
  BY DEF PublishedWhole
<1>4. Files
  BY DEF Files, Both
<1>5. RefusedForACause
  BY DEF RefusedForACause
<1> QED
  BY <1>1, <1>2, <1>3, <1>4, <1>5 DEF StorageInv

(***************************************************************************)
(* A process starts.                                                       *)
(***************************************************************************)
LEMMA StartKeeps ==
    ASSUME StorageInv, Start
    PROVE  StorageInv'
<1> USE DEF StorageInv, Start
<1>1. StorageTypeOK'
  BY DEF StorageTypeOK, Starting, Undoing
<1>2. Stages'
  BY DEF StorageTypeOK, Stages, Starting, Undoing
<1>3. PublishedWhole'
  BY DEF StorageTypeOK, Stages, PublishedWhole
<1>4. Files'
  BY DEF StorageTypeOK, Stages, Files, Starting, Undoing, Both
<1>5. RefusedForACause'
  BY DEF StorageTypeOK, Stages, Files, RefusedForACause, Both
<1> QED
  BY <1>1, <1>2, <1>3, <1>4, <1>5

(***************************************************************************)
(* The layout is right where no process ended halfway.                     *)
(***************************************************************************)
LEMMA LayoutKeeps ==
    ASSUME StorageInv, Layout
    PROVE  StorageInv'
<1> USE DEF StorageInv, Layout, LayoutOK, Goto, Refuse, Fail, Down
<1>1. StorageTypeOK'
  BY DEF StorageTypeOK, Starting, Undoing
<1>2. Stages'
  BY DEF StorageTypeOK, Stages, Starting, Undoing
<1>3. PublishedWhole'
  BY DEF StorageTypeOK, Stages, PublishedWhole
<1>4. Files'
  BY DEF StorageTypeOK, Stages, Files, Starting, Undoing, Both
<1>5. RefusedForACause'
  BY DEF StorageTypeOK, Stages, Files, RefusedForACause, Both
<1> QED
  BY <1>1, <1>2, <1>3, <1>4, <1>5

(***************************************************************************)
(* The copy is begun.                                                      *)
(***************************************************************************)
LEMMA SeedKeeps ==
    ASSUME StorageInv, Seed
    PROVE  StorageInv'
<1> USE DEF StorageInv, Seed, Goto
<1>1. StorageTypeOK'
  BY DEF StorageTypeOK, Starting, Undoing
<1>2. Stages'
  BY DEF StorageTypeOK, Stages, Starting, Undoing
<1>3. PublishedWhole'
  BY DEF StorageTypeOK, Stages, PublishedWhole
<1>4. Files'
  BY DEF StorageTypeOK, Stages, Files, Starting, Undoing, Both
<1>5. RefusedForACause'
  BY DEF StorageTypeOK, Stages, Files, RefusedForACause, Both
<1> QED
  BY <1>1, <1>2, <1>3, <1>4, <1>5

(***************************************************************************)
(* The copy is made.                                                       *)
(***************************************************************************)
LEMMA CopyKeeps ==
    ASSUME StorageInv, Copy
    PROVE  StorageInv'
<1> USE DEF StorageInv, Copy, Goto
<1>1. StorageTypeOK'
  BY DEF StorageTypeOK, Starting, Undoing
<1>2. Stages'
  BY DEF StorageTypeOK, Stages, Starting, Undoing
<1>3. PublishedWhole'
  BY DEF StorageTypeOK, Stages, PublishedWhole
<1>4. Files'
  BY DEF StorageTypeOK, Stages, Files, Starting, Undoing, Both
<1>5. RefusedForACause'
  BY DEF StorageTypeOK, Stages, Files, RefusedForACause, Both
<1> QED
  BY <1>1, <1>2, <1>3, <1>4, <1>5

(***************************************************************************)
(* The whole copy is published.                                            *)
(***************************************************************************)
LEMMA PublishKeeps ==
    ASSUME StorageInv, Publish
    PROVE  StorageInv'
<1> USE DEF StorageInv, Publish
<1>0. /\ target' \in [links: 1 .. 2, whole: BOOLEAN, used: BOOLEAN]
      /\ target'.whole /\ ~target'.used
  <2>1. target' = [links |-> 2, whole |-> TRUE, used |-> FALSE]
    <3>1. (temporary = "whole") = TRUE
      BY DEF Stages
    <3> QED
      BY <3>1
  <2> QED
    BY <2>1
<1>1. StorageTypeOK'
  BY DEF StorageTypeOK, Starting, Undoing
<1>2. Stages'
  <2>1. target' # NoFile
    BY <1>0
  <2> QED
    BY <1>0, <2>1 DEF Stages, Undoing
<1>3. PublishedWhole'
  BY <1>0 DEF PublishedWhole
<1>4. Files'
  BY DEF StorageTypeOK, Stages, Files, Starting, Undoing, Both
<1>5. RefusedForACause'
  BY DEF StorageTypeOK, Stages, Files, RefusedForACause, Both
<1> QED
  BY <1>1, <1>2, <1>3, <1>4, <1>5

(***************************************************************************)
(* The temporary name is removed.                                          *)
(***************************************************************************)
LEMMA UnlinkKeeps ==
    ASSUME StorageInv, Unlink
    PROVE  StorageInv'
<1> USE DEF StorageInv, Unlink, Goto
<1>0. /\ target # NoFile /\ target' = [target EXCEPT !.links = 1]
      /\ target' \in [links: 1 .. 2, whole: BOOLEAN, used: BOOLEAN] /\ target' # NoFile
      /\ target'.whole = target.whole /\ target'.links = 1 /\ target'.used = target.used
  BY Databases DEF Stages, Undoing
<1> HIDE DEF Unlink
<1>1. StorageTypeOK'
  BY <1>0 DEF StorageTypeOK, Starting, Unlink
<1>2. Stages'
  <2>1. stage = "unlink" /\ stage' = "check" /\ UNCHANGED published
    BY DEF Unlink
  <2> QED
    BY <1>0, <2>1 DEF Stages, Undoing
<1>3. PublishedWhole'
  BY <1>0 DEF PublishedWhole
<1>4. Files'
  <2>1. stage = "unlink" /\ stage' = "check" /\ UNCHANGED <<halfway, sidecars>>
    BY DEF Unlink
  <2> QED
    BY <1>0, <2>1 DEF Files
<1>5. RefusedForACause'
  BY DEF Unlink, RefusedForACause
<1> QED
  BY <1>1, <1>2, <1>3, <1>4, <1>5

(***************************************************************************)
(* What is there is accepted where no process ended halfway.               *)
(***************************************************************************)
LEMMA CheckKeeps ==
    ASSUME StorageInv, Check
    PROVE  StorageInv'
<1> USE DEF StorageInv, Check, RuntimeOK, LayoutOK, Goto, Refuse, Fail, Down
<1>1. StorageTypeOK'
  BY DEF StorageTypeOK, Starting, Undoing
<1>2. Stages'
  BY DEF StorageTypeOK, Stages, Starting, Undoing
<1>3. PublishedWhole'
  BY DEF StorageTypeOK, Stages, PublishedWhole
<1>4. Files'
  BY DEF StorageTypeOK, Stages, Files, Starting, Undoing, Both
<1>5. RefusedForACause'
  <2>1. ~halfway => RuntimeOK
    BY DEF StorageTypeOK, Stages, PublishedWhole, Files, Both
  <2> QED
    BY <2>1 DEF RefusedForACause
<1> QED
  BY <1>1, <1>2, <1>3, <1>4, <1>5

(***************************************************************************)
(* SQLite makes its files.                                                 *)
(***************************************************************************)
LEMMA OpenKeeps ==
    ASSUME StorageInv, Open
    PROVE  StorageInv'
<1> USE DEF StorageInv, Open, Goto
<1>1. StorageTypeOK'
  BY DEF StorageTypeOK, Starting, Undoing
<1>2. Stages'
  <2>1. /\ stage \in {"wal", "shm"} /\ stage' \in {"shm", "final"}
        /\ UNCHANGED <<target, temporary, published>>
    OBVIOUS
  <2> HIDE DEF Open
  <2> QED
    BY <2>1 DEF Stages, Undoing
<1>3. PublishedWhole'
  BY DEF StorageTypeOK, Stages, PublishedWhole
<1>4. Files'
  BY DEF StorageTypeOK, Stages, Files, Starting, Undoing, Both
<1>5. RefusedForACause'
  BY DEF StorageTypeOK, Stages, Files, RefusedForACause, Both
<1> QED
  BY <1>1, <1>2, <1>3, <1>4, <1>5

(***************************************************************************)
(* The database is accepted once more, and from then on it is used.        *)
(***************************************************************************)
LEMMA ServeKeeps ==
    ASSUME StorageInv, Serve
    PROVE  StorageInv'
<1> USE DEF StorageInv, Serve, RuntimeOK, LayoutOK, Refuse, Fail, Down
<1>0. /\ target # NoFile
      /\ ~halfway => RuntimeOK /\ sidecars = {"wal", "shm"}
  BY DEF StorageTypeOK, Stages, PublishedWhole, Files, Both
<1>a. \/ /\ target' = [target EXCEPT !.used = TRUE]
         /\ target' # NoFile /\ target'.links = target.links
      \/ target' = target
  BY <1>0, Databases
<1>1. StorageTypeOK'
  BY DEF StorageTypeOK, Starting, Undoing
<1>2. Stages'
  <2>1. CASE stage' = "serving" /\ ~published'
    <3>1. target' # NoFile
      BY <1>0, <1>a
    <3> QED
      BY <2>1, <3>1 DEF Stages, Undoing
  <2>2. CASE target' = target /\ stage' \in {"undo", "down"}
    BY <2>2 DEF Stages, Undoing
  <2> QED
    BY <2>1, <2>2
<1>3. PublishedWhole'
  BY <1>0, Databases DEF PublishedWhole
<1>4. Files'
  <2>1. CASE halfway
    BY <2>1 DEF Files
  <2>2. CASE ~halfway
    <3>1. /\ stage' = "serving" /\ UNCHANGED <<sidecars, halfway>>
          /\ target' # NoFile /\ target'.links = target.links
      BY <1>0, <2>2, Databases
    <3>2. target.links = 1 /\ sidecars = Both
      BY <1>0, <2>2 DEF Files
    <3> HIDE DEF Serve
    <3> QED
      BY <2>2, <3>1, <3>2 DEF Files
  <2> QED
    BY <2>1, <2>2
<1>5. RefusedForACause'
  BY <1>0 DEF RefusedForACause
<1> QED
  BY <1>1, <1>2, <1>3, <1>4, <1>5

(***************************************************************************)
(* A call of a start raises.                                               *)
(***************************************************************************)
LEMMA FaultKeeps ==
    ASSUME StorageInv, Fault
    PROVE  StorageInv'
<1> USE DEF StorageInv, Fault, Fail, Down
<1>1. StorageTypeOK'
  <2>1. faults' \in 0 .. MaxFaults
    BY DEF StorageTypeOK
  <2>2. /\ target' \in {NoFile} \cup [links: 1 .. 2, whole: BOOLEAN, used: BOOLEAN]
        /\ sidecars' \subseteq {"wal", "shm"} /\ temporary' \in {NoFile, "part", "whole"}
        /\ published' \in BOOLEAN /\ refused' \in BOOLEAN /\ halfway' \in BOOLEAN
        /\ deaths' \in 0 .. MaxDeaths
    BY DEF StorageTypeOK
  <2>3. stage' \in {"down", "serving"} \cup Starting \cup Undoing
    BY DEF Undoing, Starting, StorageTypeOK
  <2> QED
    BY <2>1, <2>2, <2>3 DEF StorageTypeOK
<1>2. Stages'
  BY DEF StorageTypeOK, Stages, Starting, Undoing
<1>3. PublishedWhole'
  BY DEF StorageTypeOK, Stages, PublishedWhole
<1>4. Files'
  <2>1. CASE halfway'
    BY <2>1 DEF Files
  <2>2. CASE ~halfway'
    <3>1. ~halfway /\ stage # "shm" /\ UNCHANGED <<target, sidecars>>
      BY <2>2
    <3>2. CASE published
      <4>1. stage' = "undo" /\ target # NoFile
        BY <3>2 DEF Stages
      <4> QED
        BY <3>1, <4>1 DEF Files
    <3>3. CASE ~published
      <4>1. stage' = "down" /\ stage # "unlink"
        BY <3>3 DEF Stages
      <4>2. target = NoFile => stage = "layout" \/ stage \in {"seed", "copy", "link"}
        BY DEF Stages, Starting
      <4> QED
        BY <3>1, <4>1, <4>2 DEF Files, Starting, Both
    <3> QED
      BY <3>2, <3>3
  <2> QED
    BY <2>1, <2>2
<1>5. RefusedForACause'
  BY DEF StorageTypeOK, Stages, Files, RefusedForACause, Both
<1> QED
  BY <1>1, <1>2, <1>3, <1>4, <1>5

(***************************************************************************)
(* What was published loses its temporary name.                            *)
(***************************************************************************)
LEMMA UndoKeeps ==
    ASSUME StorageInv, Undo
    PROVE  StorageInv'
<1> USE DEF StorageInv, Undo
<1>0. /\ target # NoFile /\ target' = [target EXCEPT !.links = 1]
      /\ target' \in [links: 1 .. 2, whole: BOOLEAN, used: BOOLEAN] /\ target' # NoFile
      /\ target'.whole = target.whole /\ target'.links = 1 /\ target'.used = target.used
  BY Databases DEF Stages, Undoing
<1> HIDE DEF Undo
<1>1. StorageTypeOK'
  BY <1>0 DEF StorageTypeOK, Undo, Undoing
<1>2. Stages'
  <2>1. stage = "undo" /\ stage' = "undo wal" /\ UNCHANGED published
    BY DEF Undo
  <2> QED
    BY <1>0, <2>1 DEF Stages, Undoing
<1>3. PublishedWhole'
  BY <1>0 DEF PublishedWhole
<1>4. Files'
  <2>1. stage = "undo" /\ stage' = "undo wal" /\ UNCHANGED <<halfway, sidecars>>
    BY DEF Undo
  <2> QED
    BY <1>0, <2>1 DEF Files
<1>5. RefusedForACause'
  BY DEF Undo, RefusedForACause
<1> QED
  BY <1>1, <1>2, <1>3, <1>4, <1>5

(***************************************************************************)
(* Its files go.                                                           *)
(***************************************************************************)
LEMMA UndoFileKeeps ==
    ASSUME StorageInv, UndoFile
    PROVE  StorageInv'
<1> USE DEF StorageInv, UndoFile, Down
<1>1. StorageTypeOK'
  BY DEF StorageTypeOK, Starting, Undoing
<1>2. Stages'
  BY DEF StorageTypeOK, Stages, Starting, Undoing
<1>3. PublishedWhole'
  BY DEF StorageTypeOK, Stages, PublishedWhole
<1>4. Files'
  BY DEF StorageTypeOK, Stages, Files, Starting, Undoing, Both
<1>5. RefusedForACause'
  BY DEF StorageTypeOK, Stages, Files, RefusedForACause, Both
<1> QED
  BY <1>1, <1>2, <1>3, <1>4, <1>5

(***************************************************************************)
(* The removal gives up.                                                   *)
(***************************************************************************)
LEMMA UndoFailsKeeps ==
    ASSUME StorageInv, UndoFails
    PROVE  StorageInv'
<1> USE DEF StorageInv, UndoFails, Down
<1>0. /\ target # NoFile
      /\ target' \in {target, [target EXCEPT !.links = 1]}
  BY DEF Stages, Undoing
<1>a. /\ target' \in [links: 1 .. 2, whole: BOOLEAN, used: BOOLEAN] /\ target' # NoFile
      /\ target'.whole = target.whole
  BY <1>0, Databases
<1>1. StorageTypeOK'
  <2>1. faults' \in 0 .. MaxFaults
    BY DEF StorageTypeOK
  <2>2. /\ target' \in {NoFile} \cup [links: 1 .. 2, whole: BOOLEAN, used: BOOLEAN]
        /\ sidecars' \subseteq {"wal", "shm"} /\ temporary' \in {NoFile, "part", "whole"}
        /\ published' \in BOOLEAN /\ refused' \in BOOLEAN /\ halfway' \in BOOLEAN
        /\ deaths' \in 0 .. MaxDeaths
    BY <1>a DEF StorageTypeOK
  <2>3. stage' \in {"down", "serving"} \cup Starting \cup Undoing
    BY DEF Undoing, Starting, StorageTypeOK
  <2> QED
    BY <2>1, <2>2, <2>3 DEF StorageTypeOK
<1>2. Stages'
  <2>1. stage' = "down" /\ ~published'
    OBVIOUS
  <2> QED
    BY <2>1 DEF Stages, Undoing
<1>3. PublishedWhole'
  BY <1>0, <1>a DEF PublishedWhole
<1>4. Files'
  BY DEF Files
<1>5. RefusedForACause'
  BY DEF RefusedForACause
<1> QED
  BY <1>1, <1>2, <1>3, <1>4, <1>5

(***************************************************************************)
(* The process dies.                                                       *)
(***************************************************************************)
LEMMA DieKeeps ==
    ASSUME StorageInv, Die
    PROVE  StorageInv'
<1> USE DEF StorageInv, Die, Down, Halfway
<1>1. StorageTypeOK'
  <2>1. deaths' \in 0 .. MaxDeaths
    BY DEF StorageTypeOK
  <2>2. /\ target' \in {NoFile} \cup [links: 1 .. 2, whole: BOOLEAN, used: BOOLEAN]
        /\ sidecars' \subseteq {"wal", "shm"} /\ temporary' \in {NoFile, "part", "whole"}
        /\ published' \in BOOLEAN /\ refused' \in BOOLEAN /\ halfway' \in BOOLEAN
        /\ faults' \in 0 .. MaxFaults
    BY DEF StorageTypeOK
  <2>3. stage' \in {"down", "serving"} \cup Starting \cup Undoing
    BY DEF Undoing, Starting, StorageTypeOK
  <2> QED
    BY <2>1, <2>2, <2>3 DEF StorageTypeOK
<1>2. Stages'
  BY DEF StorageTypeOK, Stages, Starting, Undoing
<1>3. PublishedWhole'
  BY DEF StorageTypeOK, Stages, PublishedWhole
<1>4. Files'
  BY DEF StorageTypeOK, Stages, Files, Starting, Undoing, Both
<1>5. RefusedForACause'
  BY DEF StorageTypeOK, Stages, Files, RefusedForACause, Both
<1> QED
  BY <1>1, <1>2, <1>3, <1>4, <1>5

(***************************************************************************)
(* The service stops.                                                      *)
(***************************************************************************)
LEMMA StopKeeps ==
    ASSUME StorageInv, Stop
    PROVE  StorageInv'
<1> USE DEF StorageInv, Stop, Down
<1>1. StorageTypeOK'
  BY DEF StorageTypeOK, Starting, Undoing
<1>2. Stages'
  BY DEF StorageTypeOK, Stages, Starting, Undoing
<1>3. PublishedWhole'
  BY DEF StorageTypeOK, Stages, PublishedWhole
<1>4. Files'
  BY DEF StorageTypeOK, Stages, Files, Starting, Undoing, Both
<1>5. RefusedForACause'
  BY DEF StorageTypeOK, Stages, Files, RefusedForACause, Both
<1> QED
  BY <1>1, <1>2, <1>3, <1>4, <1>5

(***************************************************************************)
(* Every step of every process.                                            *)
(***************************************************************************)
LEMMA StorageSteps ==
    ASSUME StorageInv, StorageNext \/ UNCHANGED storage
    PROVE  StorageInv'
<1>1. CASE UNCHANGED storage
  BY <1>1 DEF storage, StorageInv, StorageTypeOK, Stages, PublishedWhole, Files,
              RefusedForACause
<1>2. CASE StorageNext
  BY <1>2, StartKeeps, LayoutKeeps, SeedKeeps, CopyKeeps, PublishKeeps, UnlinkKeeps,
     CheckKeeps, OpenKeeps, ServeKeeps, FaultKeeps, UndoKeeps, UndoFileKeeps,
     UndoFailsKeeps, DieKeeps, StopKeeps DEF StorageNext, Bootstrap
<1> QED
  BY <1>1, <1>2

-----------------------------------------------------------------------------
(* The service.                                                            *)

(***************************************************************************)
(* The storage and the requests take steps of their own, or both do when a *)
(* process ends.                                                           *)
(***************************************************************************)
LEMMA StepsOfBoth ==
    ASSUME [Next]_vars
    PROVE  /\ StorageNext \/ UNCHANGED storage
           /\ (\E r \in Requests : Handle(r)) \/ Tick \/ Restart \/ UNCHANGED agent
BY DEF Next, vars, StorageNext

(***************************************************************************)
(* A start of the service maps to a start of the requests, and each of its *)
(* steps to one of theirs or to none: the service implements HostedAgent.  *)
(***************************************************************************)
THEOREM ServesRequests == Spec => AgentSpec
<1>1. Init => AgentInit
  BY DEF Init
<1>2. [Next]_vars => [AgentNext]_agent
  BY StepsOfBoth DEF AgentNext
<1> QED
  BY <1>1, <1>2, PTL DEF Spec, AgentSpec

(***************************************************************************)
(* What is found after any process has ended, wherever it ended.           *)
(***************************************************************************)
THEOREM StorageInvariance == Spec => []StorageInv
<1>1. Init => StorageInv
  BY StorageBegins DEF Init
<1>2. StorageInv /\ [Next]_vars => StorageInv'
  BY StepsOfBoth, StorageSteps
<1> QED
  BY <1>1, <1>2, PTL DEF Spec

(***************************************************************************)
(* Every variable has its type; a slot is free or held by one run.         *)
(***************************************************************************)
THEOREM Typing == Spec => []TypeOK
<1>1. StorageInv /\ AgentTypeOK => TypeOK
  BY DEF StorageInv, TypeOK
<1> QED
  BY <1>1, StorageInvariance, ServesRequests, SlotsAreKept, PTL

(***************************************************************************)
(* No start finds half a seed under the name of the database, however      *)
(* often processes died or the file system failed.                         *)
(***************************************************************************)
THEOREM SeedIsPublishedWhole == Spec => []PublishedWhole
<1>1. StorageInv => PublishedWhole
  BY DEF StorageInv
<1> QED
  BY <1>1, StorageInvariance, PTL

(***************************************************************************)
(* A refused start has its cause: some process ended halfway.              *)
(***************************************************************************)
THEOREM RefusalsHaveACause == Spec => []RefusedForACause
<1>1. StorageInv => RefusedForACause
  BY DEF StorageInv
<1> QED
  BY <1>1, StorageInvariance, PTL

(***************************************************************************)
(* No step of a start, of its failure or of a stop takes away a database   *)
(* that the service has used.                                              *)
(***************************************************************************)
THEOREM UsedDatabaseStays == Spec => UsedIsKept
<1> DEFINE Used == target # NoFile /\ target.used
<1>1. ASSUME StorageInv, StorageNext \/ UNCHANGED storage, Used
      PROVE  target' # NoFile /\ target'.used
  <2>1. StorageTypeOK /\ target # NoFile /\ target.used /\ ~published
    BY <1>1 DEF StorageInv, Stages
  <2>2. stage \notin Undoing \cup {"seed", "copy", "link", "unlink"}
    BY <1>1, <2>1 DEF StorageInv, Stages
  <2>3. target' \in {target, [target EXCEPT !.used = TRUE]}
    <3>1. CASE UNCHANGED storage
      BY <3>1 DEF storage
    <3>2. CASE Die \/ Stop \/ Start \/ Layout \/ Seed \/ Copy \/ Check \/ Open \/ Fault
      BY <3>2 DEF Die, Stop, Start, Layout, Seed, Copy, Check, Open, Fault, Fail, Down,
                  Refuse, Goto
    <3>3. CASE Publish \/ Unlink
      BY <2>2, <3>3 DEF Publish, Unlink
    <3>4. CASE Serve
      BY <3>4 DEF Serve, Refuse, Fail
    <3>5. CASE Undo \/ UndoFile \/ UndoFails
      BY <2>2, <3>5 DEF Undo, UndoFile, UndoFails, Undoing
    <3> QED
      BY <1>1, <3>1, <3>2, <3>3, <3>4, <3>5 DEF StorageNext, Bootstrap
  <2> QED
    BY <2>1, <2>3, Databases
<1>2. StorageInv /\ [Next]_vars => [Used => (target' # NoFile /\ target'.used)]_storage
  BY <1>1, StepsOfBoth
<1> QED
  BY <1>2, StorageInvariance, PTL DEF Spec, UsedIsKept

(***************************************************************************)
(* The budgets hold up to the slots across restarts of the service.        *)
(***************************************************************************)
THEOREM ServiceOverrunIsBounded == Spec => []OverrunBounded
BY ServesRequests, OverrunIsBounded, PTL

(***************************************************************************)
(* Of the whole service: a client gets through less than twice its limit   *)
(* within the time of one window.                                          *)
(***************************************************************************)
THEOREM ServiceRateIsKept == Spec => []RateKept
  BY ServesRequests, RateIsKept, PTL
=============================================================================
