------------------------ MODULE AdaptiveBatchingProofs ------------------------
(***************************************************************************)
(* For every number of candidates, every size of a batch and every budget  *)
(* of attempts: the batches of one file never lose or repeat a candidate,  *)
(* the costs of a failure add up, a budget runs out only because of        *)
(* attempts that failed, a change of the repository is fatal, and no call  *)
(* takes more than four steps for each candidate.                          *)
(***************************************************************************)
EXTENDS AdaptiveBatching, SequenceTheorems, WellFoundedInduction, TLAPS

-----------------------------------------------------------------------------
(* The initial batches.                                                    *)

\* Division rounded up.
LEMMA RoundedUp ==
    ASSUME NEW n \in Nat \ {0}, NEW size \in Nat \ {0},
           NEW k, k = (n + size - 1) \div size
    PROVE  k \in Nat \ {0} /\ (k - 1) * size < n /\ n <= k * size
<1> DEFINE a == n + size - 1
<1>1. a \in Nat /\ a >= size
  OBVIOUS
<1>2. k \in Int /\ k * size <= a /\ a < k * size + size
  BY <1>1
<1>3. (k - 1) * size = k * size - size
  BY <1>2
<1>4. k >= 1
  <2>1. SUFFICES ASSUME k <= 0 PROVE FALSE
    BY <1>2
  <2>2. k * size <= 0
    BY <2>1, <1>2
  <2> QED
    BY <2>2, <1>1, <1>2
<1> QED
  BY <1>1, <1>2, <1>3, <1>4

\* A larger factor gives a larger product.
LEMMA Monotone ==
    ASSUME NEW i \in Nat, NEW k \in Nat, i <= k, NEW size \in Nat
    PROVE  i * size <= k * size
<1>1. k * size = i * size + (k - i) * size
  OBVIOUS
<1>2. (k - i) * size >= 0
  OBVIOUS
<1> QED
  BY <1>1, <1>2

\* Each initial batch begins after the one before it, none is empty, and the
\* last ends with the last candidate (processor.py:952-959).
LEMMA InitialInOrder ==
    ASSUME NEW n \in 0 .. MaxCandidates
    PROVE  LET batches == InitialBatches(n)
           IN  /\ batches \in Seq(Batch)
               /\ Len(batches) > 0
               /\ \A i \in 1 .. Len(batches) - 1 :
                    batches[i + 1].first = batches[i].last + 1
               /\ batches[1].first = 1
               /\ batches[Len(batches)].last = n
               /\ n > 0 => \A i \in 1 .. Len(batches) : Size(batches[i]) > 0
               /\ \A i \in 1 .. Len(batches) :
                    Size(batches[i]) <= CandidateLimit
               /\ n = 0 => Len(batches) = 1
<1> DEFINE batches == InitialBatches(n)
<1>1. CASE n = 0
  <2>1. batches = << [first |-> 1, last |-> 0] >>
    BY <1>1 DEF InitialBatches
  <2>2. Len(batches) = 1 /\ batches[1] = [first |-> 1, last |-> 0]
    BY <2>1
  <2>3. batches[1] \in Batch /\ Size(batches[1]) = 0
    BY <2>2, BatchingConstants DEF Batch, Size
  <2>4. batches \in Seq(Batch)
    BY <2>1, <2>2, <2>3
  <2>5. /\ Len(batches) = 1 /\ batches[1].first = 1 /\ batches[1].last = 0
        /\ \A i \in 1 .. Len(batches) : i = 1
    BY <2>2
  <2>6. \A i \in 1 .. Len(batches) : Size(batches[i]) <= CandidateLimit
    BY <2>5, <2>3, BatchingConstants
  <2> QED
    BY <1>1, <2>4, <2>5, <2>6
<1>2. CASE n # 0
  <2> DEFINE k == (n + CandidateLimit - 1) \div CandidateLimit
  <2>1. /\ k \in Nat \ {0}
        /\ (k - 1) * CandidateLimit < n /\ n <= k * CandidateLimit
    BY <1>2, RoundedUp, BatchingConstants
  <2> HIDE DEF k
  <2>2. batches = [i \in 1 .. k |->
            [first |-> (i - 1) * CandidateLimit + 1,
             last  |-> IF i * CandidateLimit < n THEN i * CandidateLimit
                       ELSE n]]
    BY <1>2 DEF InitialBatches, k
  <2>3. ASSUME NEW i \in 1 .. k
        PROVE  /\ i * CandidateLimit \in Nat
               /\ (i - 1) * CandidateLimit \in Nat
               /\ i * CandidateLimit = (i - 1) * CandidateLimit
                                         + CandidateLimit
               /\ (i - 1) * CandidateLimit < n
               /\ i < k => i * CandidateLimit < n
               /\ i = k => i * CandidateLimit >= n
    <3>1. (i - 1) * CandidateLimit <= (k - 1) * CandidateLimit
      BY <2>1, Monotone, BatchingConstants
    <3>2. i < k => i * CandidateLimit <= (k - 1) * CandidateLimit
      BY <2>1, Monotone, BatchingConstants
    <3>3. /\ i * CandidateLimit \in Nat
          /\ (i - 1) * CandidateLimit \in Nat
          /\ (k - 1) * CandidateLimit \in Nat
      BY <2>1, BatchingConstants
    <3>4. i * CandidateLimit = (i - 1) * CandidateLimit + CandidateLimit
      BY <2>1, BatchingConstants
    <3> QED
      BY <2>1, <3>1, <3>2, <3>3, <3>4
  <2>4. ASSUME NEW i \in 1 .. k
        PROVE  /\ batches[i] \in Batch /\ Size(batches[i]) > 0
               /\ Size(batches[i]) <= CandidateLimit
    <3>1. batches[i] =
            [first |-> (i - 1) * CandidateLimit + 1,
             last  |-> IF i * CandidateLimit < n THEN i * CandidateLimit
                       ELSE n]
      BY <2>2
    <3> QED
      BY <3>1, <2>3, BatchingConstants DEF Batch, Size
  <2>5. batches \in Seq(Batch) /\ Len(batches) = k
    BY <2>1, <2>2, <2>4
  <2>6. ASSUME NEW i \in 1 .. k - 1
        PROVE  batches[i + 1].first = batches[i].last + 1
    <3>1. i \in 1 .. k /\ i + 1 \in 1 .. k /\ i < k /\ (i + 1) - 1 = i
      BY <2>1
    <3>2. batches[i + 1].first = i * CandidateLimit + 1
      BY <2>2, <3>1
    <3>3. batches[i].last = i * CandidateLimit
      BY <2>2, <2>3, <3>1
    <3> QED
      BY <3>2, <3>3
  <2>7. batches[1].first = 1
    BY <2>1, <2>2, BatchingConstants
  <2>8. batches[k].last = n
    <3>1. ~(k * CandidateLimit < n)
      BY <2>1, <2>3
    <3> QED
      BY <2>1, <2>2, <3>1
  <2> QED
    BY <1>2, <2>1, <2>4, <2>5, <2>6, <2>7, <2>8
<1> QED
  BY <1>1, <1>2

-----------------------------------------------------------------------------
(* The inductive invariant.                                                *)

\* How many initial batches there are.
Initially == Len(InitialBatches(count))

\* A file without candidates has its one empty batch, never split.
EmptyFile == count = 0 => Len(Plan) = 1 /\ recoverable = 0

\* Every split makes one batch more.
PlanGrows == Len(Plan) = Initially + recoverable

\* Splits that answered a refusal: the batch in hand has become shorter with
\* each of them.
Refused ==
    /\ attempts = AttemptLimit /\ attempts > Len(completed)
    /\ FailedAttempts < recoverable
    /\ work # <<>> /\ Size(Head(work)) > 0
    /\ (recoverable - FailedAttempts) + Size(Head(work)) <= CandidateLimit

\* An attempt ends in a batch done or in a failure that a split answered.  A
\* split that answers an exhausted budget is entered without an attempt; by
\* then one attempt has failed, since the initial batches fit the budget.
AttemptsAddUp ==
    /\ Len(completed) <= attempts
    /\ phase = "preflight" =>
         attempts = 0 /\ completed = <<>> /\ recoverable = 0
    /\ phase = "ready" =>
         \/ attempts = Len(completed) + recoverable
         \/ Refused
    /\ phase = "examining" =>
         work # <<>> /\ attempts = Len(completed) + recoverable + 1
    /\ phase \in {"ready", "examining"} /\ count > 0 =>
         Initially <= AttemptLimit
    /\ exhausted => phase = "failed"

BatchingInv ==
    /\ TypeOK
    /\ CandidatesInOrder
    /\ EmptyFile
    /\ PlanGrows
    /\ AttemptsAddUp
    /\ CostsAddUp
    /\ ExhaustedByFailures

\* The invariant holds when the call begins.
LEMMA BatchingInit == Init => BatchingInv
<1> SUFFICES ASSUME Init PROVE BatchingInv
  OBVIOUS
<1> USE DEF Init
<1>1. count \in 0 .. MaxCandidates /\ work = InitialBatches(count)
  OBVIOUS
<1>2. work \in Seq(Batch) /\ Len(work) > 0
  BY <1>1, InitialInOrder
<1>3. Plan = work
  BY <1>2 DEF Plan
<1>4. TypeOK
  <2>1. completed \in Seq(Batch)
    OBVIOUS
  <2>2. /\ phase \in {"preflight", "ready", "examining"} \cup Outcome
        /\ begun \in 0 .. MaxChanges /\ repo \in 0 .. MaxChanges
        /\ attempts \in 0 .. AttemptLimit /\ recoverable \in Nat
    BY BatchingConstants
  <2>3. exhausted \in BOOLEAN
    OBVIOUS
  <2> QED
    BY <1>1, <1>2, <2>1, <2>2, <2>3 DEF TypeOK
<1>5. CandidatesInOrder
  BY <1>1, <1>3, InitialInOrder DEF CandidatesInOrder
<1>6. EmptyFile /\ PlanGrows
  BY <1>1, <1>2, <1>3, InitialInOrder DEF EmptyFile, PlanGrows, Initially
<1>7. AttemptsAddUp /\ CostsAddUp /\ ExhaustedByFailures
  BY DEF AttemptsAddUp, CostsAddUp, ExhaustedByFailures
<1> QED
  BY <1>4, <1>5, <1>6, <1>7 DEF BatchingInv

\* The halves of a batch of several candidates are batches, not empty, that
\* adjoin and together span it (processor.py:162-164).
LEMMA HalvesAdjoin ==
    ASSUME NEW batch \in Batch, Size(batch) > 1
    PROVE  /\ Halves(batch) \in Seq(Batch) /\ Len(Halves(batch)) = 2
           /\ Halves(batch)[1] \in Batch /\ Halves(batch)[2] \in Batch
           /\ Size(Halves(batch)[1]) > 0 /\ Size(Halves(batch)[2]) > 0
           /\ Size(Halves(batch)[1]) < Size(batch)
           /\ Size(Halves(batch)[2]) < Size(batch)
           /\ Halves(batch)[1].first = batch.first
           /\ Halves(batch)[2].first = Halves(batch)[1].last + 1
           /\ Halves(batch)[2].last = batch.last
<1> DEFINE middle == batch.first + Size(batch) \div 2
<1>1. middle \in Nat /\ batch.first < middle /\ middle <= batch.last
  BY BatchingConstants DEF Batch, Size
<1> HIDE DEF middle
<1> DEFINE left == [batch EXCEPT !.last = middle - 1]
           right == [batch EXCEPT !.first = middle]
<1>2. Halves(batch) = <<left, right>>
  BY Zenon DEF Halves, middle
<1>3. /\ left \in Batch /\ right \in Batch
      /\ left.first = batch.first /\ left.last = middle - 1
      /\ right.first = middle /\ right.last = batch.last
  BY <1>1, BatchingConstants DEF Batch
<1> HIDE DEF left, right
<1>4. /\ Size(left) > 0 /\ Size(right) > 0
      /\ Size(left) < Size(batch) /\ Size(right) < Size(batch)
  BY <1>1, <1>3 DEF Size, Batch
<1> QED
  BY <1>1, <1>2, <1>3, <1>4

Joined(done, todo) == done \o todo
Spliced(done, two, todo) == done \o (two \o Tail(todo))

OneForTwo(done, two, todo) ==
    LET old == Joined(done, todo)
        new == Spliced(done, two, todo)
    IN  /\ two \o Tail(todo) \in Seq(Batch)
        /\ old \in Seq(Batch) /\ new \in Seq(Batch)
        /\ Len(new) = Len(old) + 1
        /\ Len(done) + 1 \in 1 .. Len(old)
        /\ old[Len(done) + 1] = Head(todo)
        /\ \A i \in 1 .. Len(done) : new[i] = old[i]
        /\ new[Len(done) + 1] = two[1]
        /\ new[Len(done) + 2] = two[2]
        /\ \A i \in Len(done) + 3 .. Len(old) + 1 : new[i] = old[i - 1]

\* In a sequence the first element of what is to do gives way to two: what
\* was before and after it stays.
LEMMA OneBecomesTwo ==
    ASSUME NEW done \in Seq(Batch), NEW todo \in Seq(Batch), todo # <<>>,
           NEW two \in Seq(Batch), Len(two) = 2
    PROVE  OneForTwo(done, two, todo)
<1> DEFINE old == Joined(done, todo)
           new == Spliced(done, two, todo)
<1>0. old = done \o todo /\ new = done \o (two \o Tail(todo))
  BY DEF Joined, Spliced
<1> HIDE DEF old, new
<1>1. /\ Tail(todo) \in Seq(Batch) /\ Len(todo) \in Nat \ {0}
      /\ Len(Tail(todo)) = Len(todo) - 1
      /\ \A i \in 1 .. Len(todo) - 1 : Tail(todo)[i] = todo[i + 1]
      /\ Head(todo) = todo[1]
      /\ Len(done) \in Nat
  BY HeadTailProperties, Len(todo) \in Nat
<1> DEFINE rest == two \o Tail(todo)
<1>2. /\ rest \in Seq(Batch) /\ Len(rest) = Len(todo) + 1
      /\ \A i \in 1 .. Len(todo) + 1 :
           rest[i] = IF i <= 2 THEN two[i] ELSE Tail(todo)[i - 2]
  <2>1. /\ rest \in Seq(Batch) /\ Len(rest) = Len(two) + Len(Tail(todo))
        /\ \A i \in 1 .. Len(two) + Len(Tail(todo)) :
             rest[i] = IF i <= Len(two) THEN two[i]
                       ELSE Tail(todo)[i - Len(two)]
    BY <1>1, ConcatProperties
  <2> HIDE DEF rest
  <2> QED
    BY <1>1, <2>1
<1> HIDE DEF rest
<1>3. rest \in Seq(Batch) /\ new = done \o rest
  BY <1>0, <1>2 DEF rest
<1>4. /\ Len(old) = Len(done) + Len(todo)
      /\ \A i \in 1 .. Len(done) + Len(todo) :
           old[i] = IF i <= Len(done) THEN done[i] ELSE todo[i - Len(done)]
  BY <1>0, ConcatProperties
<1>5. /\ Len(new) = Len(done) + Len(rest)
      /\ \A i \in 1 .. Len(done) + Len(rest) :
           new[i] = IF i <= Len(done) THEN done[i] ELSE rest[i - Len(done)]
  <2>1. \A t \in Seq(Batch) :
          /\ Len(done \o t) = Len(done) + Len(t)
          /\ \A i \in 1 .. Len(done) + Len(t) :
               (done \o t)[i] = IF i <= Len(done) THEN done[i]
                                ELSE t[i - Len(done)]
    BY ConcatProperties
  <2> QED
    BY <1>3, <2>1
<1>6. ASSUME NEW i \in Len(done) + 3 .. Len(old) + 1
      PROVE  new[i] = old[i - 1]
  <2> DEFINE j == i - Len(done)
  <2>1. j \in 3 .. Len(todo) + 1 /\ i - 1 - Len(done) = j - 1
    BY <1>1, <1>4
  <2>2. new[i] = rest[j] /\ old[i - 1] = todo[j - 1]
    BY <1>0, <1>1, <1>2, <1>4, <1>5, <2>1
  <2>3. rest[j] = Tail(todo)[j - 2] /\ Tail(todo)[j - 2] = todo[j - 1]
    <3> HIDE DEF j
    <3>1. j - 2 \in 1 .. Len(todo) - 1 /\ (j - 2) + 1 = j - 1
      BY <1>1, <2>1
    <3> QED
      BY <1>1, <1>2, <2>1, <3>1
  <2> QED
    BY <2>2, <2>3
<1>7. /\ Len(new) = Len(old) + 1 /\ Len(done) + 1 \in 1 .. Len(old)
      /\ old[Len(done) + 1] = Head(todo)
      /\ new[Len(done) + 1] = two[1] /\ new[Len(done) + 2] = two[2]
  BY <1>0, <1>1, <1>2, <1>4, <1>5
<1>8. \A i \in 1 .. Len(done) : new[i] = old[i]
  BY <1>1, <1>2, <1>4, <1>5
<1> QED
  BY <1>0, <1>3, <1>6, <1>7, <1>8 DEF OneForTwo, rest, old, new

\* What a split does to the plan: one batch gives way to its halves.
LEMMA SplitPlan ==
    ASSUME BatchingInv, work # <<>>, Size(Head(work)) > 1, Split
    PROVE  /\ work' \in Seq(Batch) /\ completed' = completed
           /\ Len(Plan') = Len(Plan) + 1
           /\ Plan[Len(completed) + 1] = Head(work)
           /\ Len(completed) + 1 \in 1 .. Len(Plan)
           /\ \A i \in 1 .. Len(completed) : Plan'[i] = Plan[i]
           /\ Plan'[Len(completed) + 1] = Halves(Head(work))[1]
           /\ Plan'[Len(completed) + 2] = Halves(Head(work))[2]
           /\ \A i \in Len(completed) + 3 .. Len(Plan) + 1 :
                Plan'[i] = Plan[i - 1]
<1>1. /\ work \in Seq(Batch) /\ completed \in Seq(Batch)
      /\ Head(work) \in Batch
  BY HeadTailProperties DEF BatchingInv, TypeOK
<1>2. Halves(Head(work)) \in Seq(Batch) /\ Len(Halves(Head(work))) = 2
  BY <1>1, HalvesAdjoin
<1>3. work' = Halves(Head(work)) \o Tail(work) /\ completed' = completed
  BY DEF Split
<1>4. /\ Plan = Joined(completed, work)
      /\ Plan' = Spliced(completed, Halves(Head(work)), work)
  BY <1>3 DEF Plan, Joined, Spliced
<1>5. OneForTwo(completed, Halves(Head(work)), work)
  BY <1>1, <1>2, OneBecomesTwo
<1> QED
  BY <1>3, <1>4, <1>5 DEF OneForTwo

\* A split keeps the order, and only a file with candidates is ever split.
LEMMA SplitKeepsOrder ==
    ASSUME BatchingInv, work # <<>>, Size(Head(work)) > 1, Split
    PROVE  /\ work' \in Seq(Batch)
           /\ CandidatesInOrder' /\ EmptyFile' /\ PlanGrows'
<1> DEFINE c == Len(completed) + 1
           n == Len(Plan)
           halves == Halves(Head(work))
<1>1. /\ work' \in Seq(Batch) /\ completed' = completed
      /\ Len(Plan') = n + 1 /\ Plan[c] = Head(work) /\ c \in 1 .. n
      /\ \A i \in 1 .. c - 1 : Plan'[i] = Plan[i]
      /\ Plan'[c] = halves[1] /\ Plan'[c + 1] = halves[2]
      /\ \A i \in c + 2 .. n + 1 : Plan'[i] = Plan[i - 1]
  <2>1. Len(completed) \in Nat
    BY DEF BatchingInv, TypeOK
  <2> QED
    BY <2>1, SplitPlan
<1>2. /\ Size(halves[1]) > 0 /\ Size(halves[2]) > 0
      /\ Size(halves[1]) <= CandidateLimit
      /\ Size(halves[2]) <= CandidateLimit
      /\ halves[1].first = Plan[c].first
      /\ halves[2].first = halves[1].last + 1
      /\ halves[2].last = Plan[c].last
  <2>1. Head(work) \in Batch
    BY HeadTailProperties DEF BatchingInv, TypeOK
  <2>2. Size(Head(work)) <= CandidateLimit
    BY <1>1 DEF BatchingInv, CandidatesInOrder
  <2>3. /\ halves[1] \in Batch /\ halves[2] \in Batch
        /\ Size(halves[1]) < Size(Head(work))
        /\ Size(halves[2]) < Size(Head(work))
    BY <2>1, HalvesAdjoin
  <2>4. /\ Size(halves[1]) \in Int /\ Size(halves[2]) \in Int
        /\ Size(Head(work)) \in Int
    <3>1. \A batch \in Batch : Size(batch) \in Int
      BY BatchingConstants DEF Size, Batch
    <3> HIDE DEF halves
    <3> QED
      BY <2>1, <2>3, <3>1
  <2>5. Size(halves[1]) <= CandidateLimit /\ Size(halves[2]) <= CandidateLimit
    <3> HIDE DEF halves
    <3> QED
      BY <2>2, <2>3, <2>4, BatchingConstants
  <2> QED
    BY <1>1, <2>1, <2>5, HalvesAdjoin
<1>3. /\ c \in Nat /\ n \in Nat /\ recoverable \in Nat
      /\ count \in Nat /\ count' = count
      /\ recoverable' = recoverable + 1
  <2>1. Len(completed) \in Nat /\ recoverable \in Nat /\ count \in Nat
    BY BatchingConstants DEF BatchingInv, TypeOK
  <2>2. n \in Nat
    BY LenProperties, ConcatProperties DEF BatchingInv, TypeOK, Plan
  <2> QED
    BY <2>1, <2>2 DEF Split
<1>4. /\ \A i \in 1 .. n - 1 : Plan[i + 1].first = Plan[i].last + 1
      /\ Plan[1].first = 1 /\ Plan[n].last = count
      /\ count > 0 => \A i \in 1 .. n : Size(Plan[i]) > 0
      /\ \A i \in 1 .. n : Size(Plan[i]) <= CandidateLimit
  BY DEF BatchingInv, CandidatesInOrder
<1>5. count # 0
  <2> SUFFICES ASSUME count = 0 PROVE FALSE
    OBVIOUS
  <2>1. n = 1 /\ c = 1
    <3>1. n = 1
      BY DEF BatchingInv, EmptyFile
    <3> HIDE DEF n, c
    <3> QED
      BY <1>1, <1>3, <3>1
  <2>2. Head(work).first = 1 /\ Head(work).last = 0
    BY <1>1, <1>4, <2>1
  <2> QED
    BY <2>2 DEF Size
<1> HIDE DEF c, n, halves
<1>6. ASSUME NEW i \in 1 .. n
      PROVE  Plan'[i + 1].first = Plan'[i].last + 1
  <2>1. CASE i + 1 < c
    <3>1. i \in 1 .. n - 1 /\ i \in 1 .. c - 1 /\ i + 1 \in 1 .. c - 1
      BY <1>1, <1>3, <2>1
    <3> QED
      BY <1>1, <1>4, <3>1
  <2>2. CASE i + 1 = c
    <3>1. i \in 1 .. n - 1 /\ i \in 1 .. c - 1
      BY <1>1, <1>3, <2>2
    <3>2. Plan'[i + 1].first = Plan[i + 1].first /\ Plan'[i] = Plan[i]
      BY <1>1, <1>2, <2>2, <3>1
    <3> QED
      BY <1>4, <3>1, <3>2
  <2>3. CASE i = c
    BY <1>1, <1>2, <2>3
  <2>4. CASE i = c + 1
    <3>1. i + 1 \in c + 2 .. n + 1 /\ (i + 1) - 1 = i /\ i - 1 \in 1 .. n - 1
          /\ i - 1 = c /\ (i - 1) + 1 = i
      BY <1>1, <1>3, <2>4
    <3>2. Plan'[i + 1] = Plan[i] /\ Plan'[i].last = Plan[i - 1].last
      BY <1>1, <1>2, <2>4, <3>1
    <3>3. Plan[(i - 1) + 1].first = Plan[i - 1].last + 1
      BY <1>4, <3>1
    <3> QED
      BY <3>1, <3>2, <3>3
  <2>5. CASE i > c + 1
    <3>1. i \in c + 2 .. n + 1 /\ i + 1 \in c + 2 .. n + 1
          /\ (i + 1) - 1 = i /\ i - 1 \in 1 .. n - 1 /\ (i - 1) + 1 = i
      BY <1>1, <1>3, <2>5
    <3>2. Plan'[i + 1] = Plan[i] /\ Plan'[i] = Plan[i - 1]
      BY <1>1, <3>1
    <3>3. Plan[(i - 1) + 1].first = Plan[i - 1].last + 1
      BY <1>4, <3>1
    <3> QED
      BY <3>1, <3>2, <3>3
  <2> QED
    BY <1>3, <2>1, <2>2, <2>3, <2>4, <2>5
<1>7. Plan'[1].first = 1
  <2>1. CASE c = 1
    BY <1>1, <1>2, <1>4, <2>1
  <2>2. CASE c > 1
    BY <1>1, <1>3, <1>4, <2>2
  <2> QED
    BY <1>1, <1>3, <2>1, <2>2
<1>8. Plan'[n + 1].last = count
  <2>1. CASE c = n
    BY <1>1, <1>2, <1>4, <2>1
  <2>2. CASE c < n
    <3>1. n + 1 \in c + 2 .. n + 1 /\ (n + 1) - 1 = n
      BY <1>1, <1>3, <2>2
    <3> QED
      BY <1>1, <1>4, <3>1
  <2> QED
    BY <1>1, <1>3, <2>1, <2>2
<1>9. ASSUME NEW i \in 1 .. n + 1
      PROVE  Size(Plan'[i]) > 0 /\ Size(Plan'[i]) <= CandidateLimit
  <2>1. CASE i < c
    <3>1. i \in 1 .. c - 1 /\ i \in 1 .. n
      BY <1>1, <1>3, <2>1
    <3> QED
      BY <1>1, <1>3, <1>4, <1>5, <3>1
  <2>2. CASE i = c \/ i = c + 1
    BY <1>1, <1>2, <2>2
  <2>3. CASE i > c + 1
    <3>1. i \in c + 2 .. n + 1 /\ i - 1 \in 1 .. n
      BY <1>1, <1>3, <2>3
    <3> QED
      BY <1>1, <1>3, <1>4, <1>5, <3>1
  <2> QED
    BY <1>3, <2>1, <2>2, <2>3
<1>10. CandidatesInOrder'
  BY <1>1, <1>3, <1>6, <1>7, <1>8, <1>9 DEF CandidatesInOrder
<1>11. PlanGrows'
  <2>1. Initially' = Initially /\ n = Initially + recoverable
    BY <1>3 DEF Initially, BatchingInv, PlanGrows, n
  <2>2. Initially \in Nat
    BY InitialInOrder DEF Initially, BatchingInv, TypeOK
  <2> QED
    BY <1>1, <1>3, <2>1, <2>2 DEF PlanGrows
<1> QED
  BY <1>1, <1>3, <1>5, <1>10, <1>11 DEF EmptyFile

\* A batch that is done moves from what is to do to what is done.
LEMMA DoneKeepsPlan ==
    ASSUME BatchingInv, work # <<>>,
           work' = Tail(work), completed' = Append(completed, Head(work))
    PROVE  /\ work' \in Seq(Batch) /\ completed' \in Seq(Batch)
           /\ Len(completed') = Len(completed) + 1
           /\ Plan' = Plan
<1>1. /\ work \in Seq(Batch) /\ completed \in Seq(Batch)
      /\ Head(work) \in Batch /\ Tail(work) \in Seq(Batch)
  BY HeadTailProperties DEF BatchingInv, TypeOK
<1>2. Append(completed, Head(work)) \o Tail(work) = completed \o work
  BY <1>1
<1> QED
  BY <1>1, <1>2 DEF Plan

\* What does not touch the plan keeps what is said of it.
LEMMA PlanStays ==
    ASSUME BatchingInv, Plan' = Plan, UNCHANGED <<count, recoverable>>
    PROVE  CandidatesInOrder' /\ EmptyFile' /\ PlanGrows'
<1>1. CandidatesInOrder' /\ EmptyFile'
  BY DEF BatchingInv, CandidatesInOrder, EmptyFile
<1>2. PlanGrows'
  BY DEF BatchingInv, PlanGrows, Initially
<1> QED
  BY <1>1, <1>2

\* A call that fails keeps the invariant, if its costs add up and it blames
\* the budget only after a failed attempt.
LEMMA FailKeepsInv ==
    ASSUME BatchingInv, NEW outOfBudget \in BOOLEAN, Fail(outOfBudget),
           ~outOfBudget => attempts - Len(completed) = recoverable + 1,
           outOfBudget => /\ FailedAttempts <= recoverable
                          /\ recoverable < FailedAttempts + CandidateLimit,
           outOfBudget /\ attempts > 0 => attempts - Len(completed) > 0
    PROVE  BatchingInv'
<1>1. TypeOK'
  BY DEF BatchingInv, TypeOK, Fail, Outcome
<1>2. CandidatesInOrder' /\ EmptyFile' /\ PlanGrows'
  BY PlanStays DEF Fail, Plan
<1>3. AttemptsAddUp'
  BY DEF BatchingInv, AttemptsAddUp, Fail
<1>4. CostsAddUp' /\ ExhaustedByFailures'
  BY DEF CostsAddUp, ExhaustedByFailures, FailedAttempts, Fail
<1> QED
  BY <1>1, <1>2, <1>3, <1>4 DEF BatchingInv

\* The batch in hand is one the investigator takes at once.
LEMMA HeadFits ==
    ASSUME BatchingInv, work # <<>>
    PROVE  /\ Head(work) \in Batch /\ Size(Head(work)) \in Int
           /\ Size(Head(work)) <= CandidateLimit
           /\ count > 0 => Size(Head(work)) > 0
<1>1. /\ work \in Seq(Batch) /\ completed \in Seq(Batch)
      /\ Head(work) \in Batch /\ Head(work) = work[1]
      /\ Len(work) \in Nat \ {0} /\ Len(completed) \in Nat
  BY HeadTailProperties DEF BatchingInv, TypeOK
<1>2. /\ Len(Plan) = Len(completed) + Len(work)
      /\ \A i \in 1 .. Len(completed) + Len(work) :
           Plan[i] = IF i <= Len(completed) THEN completed[i]
                     ELSE work[i - Len(completed)]
  BY <1>1, ConcatProperties DEF Plan
<1>3. /\ Len(completed) + 1 \in 1 .. Len(Plan)
      /\ Plan[Len(completed) + 1] = Head(work)
  BY <1>1, <1>2
<1>4. Size(Head(work)) \in Int
  BY <1>1 DEF Size, Batch
<1> QED
  BY <1>1, <1>3, <1>4 DEF BatchingInv, CandidatesInOrder

\* After a split the first half, shorter and not empty, is in hand.
LEMMA SplitHead ==
    ASSUME BatchingInv, work # <<>>, Size(Head(work)) > 1, Split
    PROVE  /\ Head(work') = Halves(Head(work))[1] /\ work' # <<>>
           /\ Size(Head(work')) > 0 /\ Size(Head(work')) < Size(Head(work))
           /\ Size(Head(work')) \in Int
<1>1. work \in Seq(Batch) /\ Head(work) \in Batch /\ Tail(work) \in Seq(Batch)
  BY HeadTailProperties DEF BatchingInv, TypeOK
<1> DEFINE halves == Halves(Head(work))
<1>2. /\ halves \in Seq(Batch) /\ Len(halves) = 2 /\ halves[1] \in Batch
      /\ Size(halves[1]) > 0 /\ Size(halves[1]) < Size(Head(work))
  BY <1>1, HalvesAdjoin
<1>3. work' = halves \o Tail(work)
  BY DEF Split
<1> HIDE DEF halves
<1>4. /\ Len(halves \o Tail(work)) = 2 + Len(Tail(work))
      /\ (halves \o Tail(work))[1] = halves[1]
      /\ halves \o Tail(work) \in Seq(Batch)
  <2>1. Len(Tail(work)) \in Nat
    BY <1>1, LenProperties
  <2>2. /\ halves \o Tail(work) \in Seq(Batch)
        /\ Len(halves \o Tail(work)) = Len(halves) + Len(Tail(work))
        /\ \A i \in 1 .. Len(halves) + Len(Tail(work)) :
             (halves \o Tail(work))[i] =
               IF i <= Len(halves) THEN halves[i]
               ELSE Tail(work)[i - Len(halves)]
    BY <1>1, <1>2, ConcatProperties
  <2> QED
    BY <1>2, <2>1, <2>2
<1>5. work' # <<>> /\ Head(work') = halves[1]
  <2>1. Len(work') > 0 /\ work' \in Seq(Batch) /\ work'[1] = halves[1]
    <3>1. Len(Tail(work)) \in Nat
      BY <1>1, LenProperties
    <3> QED
      BY <1>3, <1>4, <3>1
  <2> QED
    BY <2>1, HeadTailProperties
<1>6. Size(halves[1]) \in Int
  BY <1>2 DEF Size, Batch
<1> QED
  BY <1>2, <1>5, <1>6 DEF halves

\* A budget that refuses an attempt has been used for one that failed: the
\* initial batches fit it, and only a failure makes more batches of them.
LEMMA RefusedAfterFailure ==
    ASSUME BatchingInv, work # <<>>, phase = "ready", attempts = AttemptLimit,
           Size(Head(work)) > 1
    PROVE  attempts = AttemptLimit /\ attempts > Len(completed)
<1>1. /\ Len(completed) \in Nat /\ recoverable \in Nat
      /\ attempts \in Nat /\ Len(completed) <= attempts
  BY BatchingConstants DEF BatchingInv, TypeOK, AttemptsAddUp
<1> SUFFICES ASSUME attempts = Len(completed) PROVE FALSE
  BY <1>1
<1>2. recoverable = 0
  BY <1>1 DEF BatchingInv, AttemptsAddUp, Refused
<1>3. Len(Plan) = Len(completed) + Len(work) /\ Len(work) > 0
  BY ConcatProperties DEF BatchingInv, TypeOK, Plan
<1>4. Initially \in Nat /\ count \in Nat
  BY InitialInOrder DEF Initially, BatchingInv, TypeOK
<1>5. count # 0
  <2> SUFFICES ASSUME count = 0 PROVE FALSE
    OBVIOUS
  <2>1. Len(Plan) = 1 /\ Len(completed) = 0
    <3>1. Len(Plan) = 1
      BY DEF BatchingInv, EmptyFile
    <3>2. Len(work) \in Nat
      BY LenProperties DEF BatchingInv, TypeOK
    <3>3. Len(completed) + Len(work) = 1
      BY <1>3, <3>1
    <3>4. \A i, j \in Nat : i + j = 1 /\ j > 0 => i = 0
      OBVIOUS
    <3> QED
      BY <1>1, <1>3, <3>1, <3>2, <3>3, <3>4
  <2>2. Plan = work
    <3>1. completed = <<>> /\ work \in Seq(Batch)
      BY <2>1, EmptySeq DEF BatchingInv, TypeOK
    <3> QED
      BY <3>1, ConcatEmptySeq DEF Plan
  <2>3. work[1].first = 1 /\ work[1].last = 0
    BY <2>1, <2>2 DEF BatchingInv, CandidatesInOrder
  <2> QED
    BY <2>3, HeadTailProperties DEF BatchingInv, TypeOK, Size
<1> QED
  BY <1>1, <1>2, <1>3, <1>4, <1>5 DEF BatchingInv, AttemptsAddUp, PlanGrows

\* A split answers a failed attempt, or a refused one when the budget is
\* exhausted.
LEMMA SplitKeepsInv ==
    ASSUME BatchingInv, work # <<>>, Splittable(TRUE), Split, ~exhausted,
           phase \in {"ready", "examining"},
           phase = "ready" => attempts = AttemptLimit
    PROVE  BatchingInv'
<1>1. /\ work' \in Seq(Batch)
      /\ CandidatesInOrder' /\ EmptyFile' /\ PlanGrows'
  BY SplitKeepsOrder DEF Splittable
<1>2. TypeOK'
  BY <1>1 DEF BatchingInv, TypeOK, Split
<1>3. AttemptsAddUp'
  <2>1. /\ Len(completed) \in Nat /\ recoverable \in Nat
        /\ attempts \in Nat /\ Len(completed) <= attempts
    BY BatchingConstants DEF BatchingInv, TypeOK, AttemptsAddUp
  <2>2. CASE phase = "examining"
    BY <2>1, <2>2 DEF BatchingInv, AttemptsAddUp, Split, Initially
  <2>3. CASE phase = "ready"
    <3>1. attempts = AttemptLimit /\ attempts > Len(completed)
      BY <2>3, RefusedAfterFailure DEF Splittable
    <3>2. /\ Head(work) \in Batch /\ Size(Head(work)) \in Int
          /\ Size(Head(work)) <= CandidateLimit
      BY HeadFits
    <3>3. /\ Head(work') = Halves(Head(work))[1] /\ work' # <<>>
          /\ Size(Head(work')) > 0 /\ Size(Head(work')) < Size(Head(work))
          /\ Size(Head(work')) \in Int
      BY <3>2, SplitHead DEF Splittable
    <3>4. /\ FailedAttempts \in Int /\ FailedAttempts <= recoverable
          /\ FailedAttempts' = FailedAttempts
          /\ recoverable' = recoverable + 1
      BY <2>1, <2>3 DEF BatchingInv, AttemptsAddUp, FailedAttempts, Refused,
                        Split
    <3>5. (recoverable - FailedAttempts) + Size(Head(work)) <= CandidateLimit
      <4>1. CASE Refused
        BY <4>1 DEF Refused
      <4>2. CASE ~Refused
        <5>1. FailedAttempts = recoverable
          BY <2>1, <2>3, <4>2 DEF BatchingInv, AttemptsAddUp, FailedAttempts
        <5> QED
          BY <2>1, <3>2, <5>1
      <4> QED
        BY <4>1, <4>2
    <3>6. Refused'
      <4>1. (recoverable' - FailedAttempts') + Size(Head(work'))
              <= CandidateLimit
        BY <2>1, <3>2, <3>3, <3>4, <3>5, BatchingConstants
      <4>2. FailedAttempts' < recoverable'
        BY <2>1, <3>4
      <4> QED
        BY <3>1, <3>3, <4>1, <4>2 DEF Refused, Split
    <3> QED
      BY <2>1, <2>3, <3>6 DEF BatchingInv, AttemptsAddUp, Split, Initially
  <2> QED
    BY <2>2, <2>3
<1>4. CostsAddUp' /\ ExhaustedByFailures'
  BY DEF CostsAddUp, ExhaustedByFailures, Split
<1> QED
  BY <1>1, <1>2, <1>3, <1>4 DEF BatchingInv

\* Every step keeps the invariant.
LEMMA BatchingStep == BatchingInv /\ [Next]_vars => BatchingInv'
<1> SUFFICES ASSUME BatchingInv, [Next]_vars PROVE BatchingInv'
  OBVIOUS
<1>1. /\ work \in Seq(Batch) /\ completed \in Seq(Batch)
      /\ Len(completed) \in Nat /\ Len(work) \in Nat
      /\ attempts \in Nat /\ recoverable \in Nat /\ count \in Nat
  BY BatchingConstants DEF BatchingInv, TypeOK
<1>2. CASE Preflight
  <2>1. CASE Fail(TRUE)
    <3>1. attempts = 0
      BY <1>2 DEF BatchingInv, AttemptsAddUp, Preflight
    <3>2. ~(TRUE /\ attempts > 0)
      BY <3>1
    <3>3. completed = <<>> /\ recoverable = 0
      BY <1>2 DEF BatchingInv, AttemptsAddUp, Preflight
    <3>4. FailedAttempts = 0
      <4>1. Len(completed) = 0
        BY <3>3, <1>1, EmptySeq
      <4> QED
        BY <3>1, <4>1 DEF FailedAttempts
    <3>5. /\ FailedAttempts <= recoverable
          /\ recoverable < FailedAttempts + CandidateLimit
      BY <3>3, <3>4, BatchingConstants
    <3> QED
      BY <2>1, <3>2, <3>5, FailKeepsInv
  <2>2. CASE ~Fail(TRUE)
    <3>1. /\ phase = "preflight" /\ phase' = "ready"
          /\ count = 0 \/ Len(work) <= AttemptLimit
          /\ UNCHANGED <<count, work, begun, repo, completed, attempts,
                         recoverable, exhausted>>
      BY <1>2, <2>2 DEF Preflight
    <3>2. CandidatesInOrder' /\ EmptyFile' /\ PlanGrows'
      BY <3>1, PlanStays DEF Plan
    <3>3. TypeOK'
      BY <3>1 DEF BatchingInv, TypeOK, Outcome
    <3>4. count > 0 => Initially <= AttemptLimit
      <4>1. Plan = work
        BY <1>1, <3>1 DEF BatchingInv, AttemptsAddUp, Plan
      <4>2. Initially \in Nat
        BY InitialInOrder DEF Initially, BatchingInv, TypeOK
      <4> QED
        BY <1>1, <3>1, <4>1, <4>2, BatchingConstants
           DEF BatchingInv, PlanGrows
    <3>5. AttemptsAddUp'
      <4>1. exhausted = FALSE /\ attempts = 0 /\ completed = <<>>
        BY <3>1 DEF BatchingInv, AttemptsAddUp, TypeOK
      <4>2. attempts = Len(completed) + recoverable
        <5>1. recoverable = 0
          BY <3>1 DEF BatchingInv, AttemptsAddUp
        <5> QED
          BY <4>1, <5>1
      <4> QED
        BY <1>1, <3>1, <3>4, <4>1, <4>2 DEF AttemptsAddUp, Initially
    <3>6. CostsAddUp' /\ ExhaustedByFailures'
      BY <3>1 DEF BatchingInv, AttemptsAddUp, CostsAddUp, ExhaustedByFailures
    <3> QED
      BY <3>2, <3>3, <3>5, <3>6 DEF BatchingInv
  <2> QED
    BY <2>1, <2>2
<1>3. CASE BeginAttempt
  <2>1. CandidatesInOrder' /\ EmptyFile' /\ PlanGrows'
    BY <1>3, PlanStays DEF BeginAttempt, Plan
  <2>2. TypeOK'
    BY <1>3, BatchingConstants
       DEF BatchingInv, TypeOK, BeginAttempt, BudgetLeft, Outcome
  <2>3. AttemptsAddUp'
    BY <1>1, <1>3
       DEF BatchingInv, AttemptsAddUp, Refused, BeginAttempt, BudgetLeft,
           Initially
  <2>4. CostsAddUp' /\ ExhaustedByFailures'
    BY <1>3
       DEF BatchingInv, AttemptsAddUp, CostsAddUp, ExhaustedByFailures,
           BeginAttempt
  <2> QED
    BY <2>1, <2>2, <2>3, <2>4 DEF BatchingInv
<1>4. CASE RefuseAttempt
  <2>1. /\ phase = "ready" /\ work # <<>> /\ attempts = AttemptLimit
        /\ ~exhausted
    BY <1>1, <1>4, BatchingConstants
       DEF RefuseAttempt, BudgetLeft, BatchingInv, TypeOK, AttemptsAddUp
  <2>2. CASE Splittable(TRUE)
    BY <1>4, <2>1, <2>2, SplitKeepsInv DEF RefuseAttempt
  <2>3. CASE ~Splittable(TRUE)
    <3>1. Fail(TRUE)
      BY <1>4, <2>3 DEF RefuseAttempt
    <3>2. attempts > 0 => attempts - Len(completed) > 0
      <4> SUFFICES ASSUME attempts > 0, attempts = Len(completed)
                   PROVE  FALSE
        BY <1>1 DEF BatchingInv, AttemptsAddUp
      <4>1. recoverable = 0
        BY <1>1, <2>1 DEF BatchingInv, AttemptsAddUp, Refused
      <4>2. Len(Plan) = Len(completed) + Len(work) /\ Len(work) > 0
        <5>1. Len(work) # 0
          BY <2>1, EmptySeq DEF BatchingInv, TypeOK
        <5>2. Len(Plan) = Len(completed) + Len(work)
          BY ConcatProperties DEF BatchingInv, TypeOK, Plan
        <5> QED
          BY <1>1, <5>1, <5>2
      <4>3. count # 0
        BY <1>1, <4>2 DEF BatchingInv, EmptyFile
      <4>4. Initially <= AttemptLimit /\ Initially \in Nat
            /\ Len(Plan) = Initially
        <5>1. Initially \in Nat
          BY InitialInOrder DEF Initially, BatchingInv, TypeOK
        <5> QED
          BY <1>1, <2>1, <4>1, <4>3, <5>1
             DEF BatchingInv, AttemptsAddUp, PlanGrows
      <4> QED
        BY <1>1, <2>1, <4>2, <4>4, BatchingConstants
    <3>3. /\ FailedAttempts <= recoverable
          /\ recoverable < FailedAttempts + CandidateLimit
      <4>1. CASE Refused
        <5>1. Size(Head(work)) \in Int /\ FailedAttempts \in Int
          BY <1>1, <2>1, HeadFits DEF FailedAttempts
        <5> QED
          BY <1>1, <4>1, <5>1, BatchingConstants DEF Refused
      <4>2. CASE ~Refused
        BY <1>1, <2>1, <4>2, BatchingConstants
           DEF BatchingInv, AttemptsAddUp, FailedAttempts
      <4> QED
        BY <4>1, <4>2
    <3> QED
      BY <3>1, <3>2, <3>3, FailKeepsInv
  <2> QED
    BY <2>2, <2>3
\* While a batch is examined the costs of its failure are accounted for.
<1>5. phase = "examining" =>
        /\ work # <<>> /\ ~exhausted
        /\ attempts - Len(completed) = recoverable + 1
  BY <1>1 DEF BatchingInv, AttemptsAddUp
<1>6. CASE IntegrityFailure
  BY <1>5, <1>6, FailKeepsInv DEF IntegrityFailure
<1>7. CASE CapacityFailure
  <2>1. CASE Splittable(TRUE)
    BY <1>5, <1>7, <2>1, SplitKeepsInv DEF CapacityFailure
  <2>2. CASE ~Splittable(TRUE)
    BY <1>5, <1>7, <2>2, FailKeepsInv DEF CapacityFailure
  <2> QED
    BY <2>1, <2>2
<1>8. ASSUME /\ phase' \in {"raised", "complete"}
             /\ phase \in {"examining", "ready"}
             /\ UNCHANGED <<count, work, begun, repo, completed, attempts,
                            recoverable, exhausted>>
      PROVE  BatchingInv'
  <2>1. CandidatesInOrder' /\ EmptyFile' /\ PlanGrows'
    BY <1>8, PlanStays DEF Plan
  <2>2. TypeOK'
    BY <1>8 DEF BatchingInv, TypeOK, Outcome
  <2>3. exhausted = FALSE
    BY <1>8 DEF BatchingInv, AttemptsAddUp, TypeOK
  <2>4. AttemptsAddUp' /\ CostsAddUp' /\ ExhaustedByFailures'
    BY <1>8, <2>3
       DEF BatchingInv, AttemptsAddUp, CostsAddUp, ExhaustedByFailures
  <2> QED
    BY <2>1, <2>2, <2>4 DEF BatchingInv
<1>9. CASE FinishAttempt
  <2>1. CASE Fail(FALSE)
    BY <1>5, <1>9, <2>1, FailKeepsInv DEF FinishAttempt
  <2>2. CASE ~Fail(FALSE)
    <3>1. /\ phase = "examining" /\ phase' = "ready"
          /\ work' = Tail(work) /\ completed' = Append(completed, Head(work))
          /\ UNCHANGED <<count, begun, repo, attempts, recoverable,
                         exhausted>>
      BY <1>9, <2>2 DEF FinishAttempt
    <3>2. /\ work' \in Seq(Batch) /\ completed' \in Seq(Batch)
          /\ Len(completed') = Len(completed) + 1
          /\ Plan' = Plan
      BY <1>5, <3>1, DoneKeepsPlan
    <3>3. CandidatesInOrder' /\ EmptyFile' /\ PlanGrows'
      BY <3>1, <3>2, PlanStays
    <3>4. TypeOK'
      BY <3>1, <3>2 DEF BatchingInv, TypeOK, Outcome
    <3>5. AttemptsAddUp'
      BY <1>1, <1>5, <3>1, <3>2
         DEF BatchingInv, AttemptsAddUp, Initially
    <3>6. CostsAddUp' /\ ExhaustedByFailures'
      BY <1>5, <3>1
         DEF BatchingInv, AttemptsAddUp, CostsAddUp, ExhaustedByFailures
    <3> QED
      BY <3>3, <3>4, <3>5, <3>6 DEF BatchingInv
  <2> QED
    BY <2>1, <2>2
<1>10. CASE OtherError \/ Conclude
  BY <1>8, <1>10 DEF OtherError, Conclude
<1>11. CASE Change
  <2>1. CandidatesInOrder' /\ EmptyFile' /\ PlanGrows'
    BY <1>11, PlanStays DEF Change, Plan
  <2>2. TypeOK'
    BY <1>11, BatchingConstants DEF BatchingInv, TypeOK, Change
  <2>3. AttemptsAddUp' /\ CostsAddUp' /\ ExhaustedByFailures'
    BY <1>11
       DEF BatchingInv, AttemptsAddUp, CostsAddUp, ExhaustedByFailures,
           FailedAttempts, Refused, Initially, Change
  <2> QED
    BY <2>1, <2>2, <2>3 DEF BatchingInv
<1>12. CASE UNCHANGED vars
  <2>1. CandidatesInOrder' /\ EmptyFile' /\ PlanGrows'
    BY <1>12, PlanStays DEF vars, Plan
  <2>2. TypeOK' /\ AttemptsAddUp' /\ CostsAddUp' /\ ExhaustedByFailures'
    BY <1>12
       DEF BatchingInv, TypeOK, AttemptsAddUp, CostsAddUp,
           ExhaustedByFailures, FailedAttempts, Refused, Initially, vars
  <2> QED
    BY <2>1, <2>2 DEF BatchingInv
<1> QED
  BY <1>2, <1>3, <1>4, <1>6, <1>7, <1>9, <1>10, <1>11, <1>12
     DEF Next, Examine

-----------------------------------------------------------------------------

\* For every record, limit and budget, the parts of the invariant that relate
\* what was done, what is left and what it cost hold together
\* (processor.py:915-1094).
THEOREM BatchingInvariant == Spec => []BatchingInv
<1> QED
  BY BatchingInit, BatchingStep, PTL DEF Spec

\* Every variable keeps its type; in particular the attempts never exceed
\* MAX_INVESTIGATOR_BATCH_ATTEMPTS.
THEOREM BatchingTypeCorrect == Spec => []TypeOK
<1>1. BatchingInv => TypeOK
  BY DEF BatchingInv
<1> QED
  BY <1>1, BatchingInvariant, PTL

\* However often batches are split, no candidate is lost and none is examined
\* twice (processor.py:148-171, 952-959).
THEOREM NoCandidateIsLost == Spec => []CandidatesInOrder
<1>1. BatchingInv => CandidatesInOrder
  BY DEF BatchingInv
<1> QED
  BY <1>1, BatchingInvariant, PTL

\* The failed attempts a failure reports are those a split answered, and the
\* last; of an exhausted budget they are those and the splits that answered a
\* refusal, fewer than a batch has candidates (processor.py:157, 1199-1230).
THEOREM FailuresAreCounted == Spec => []CostsAddUp
<1>1. BatchingInv => CostsAddUp
  BY DEF BatchingInv
<1> QED
  BY <1>1, BatchingInvariant, PTL

\* The budget of a file runs out only after an attempt that failed
\* (processor.py:962-969).
THEOREM BudgetCoversTheBatches == Spec => []ExhaustedByFailures
<1>1. BatchingInv => ExhaustedByFailures
  BY DEF BatchingInv
<1> QED
  BY <1>1, BatchingInvariant, PTL

-----------------------------------------------------------------------------
(* What the order of the batches says of all of them.                      *)

\* Induction, over a set: the library's theorem takes an operator.
LEMMA SetInduction ==
    ASSUME NEW S \in SUBSET Nat, 0 \in S, \A n \in S : n + 1 \in S
    PROVE  S = Nat
<1> SUFFICES ASSUME Nat \ S # {} PROVE FALSE
  OBVIOUS
<1> DEFINE Less == OpToRel(<, Nat)
<1>1. IsWellFoundedOn(Less, Nat)
  BY NatLessThanWellFounded
<1>2. \A m, n \in Nat : m < n => <<m, n>> \in Less
  BY DEF OpToRel
<1> HIDE DEF Less
<1>3. PICK least \in Nat \ S : \A n \in Nat \ S : <<n, least>> \notin Less
  BY <1>1, WFMin
<1>4. least - 1 \in Nat /\ least - 1 < least /\ (least - 1) + 1 = least
  BY <1>3
<1>5. least - 1 \in S
  BY <1>2, <1>3, <1>4
<1> QED
  BY <1>3, <1>4, <1>5

\* What the invariant says of the plan, without the state.
InOrder(batches, n) ==
    /\ batches \in Seq(Batch)
    /\ Len(batches) > 0
    /\ \A i \in 1 .. Len(batches) - 1 :
         batches[i + 1].first = batches[i].last + 1
    /\ batches[1].first = 1 /\ batches[Len(batches)].last = n
    /\ \A i \in 1 .. Len(batches) : Size(batches[i]) > 0

LEMMA PlanInOrder ==
    ASSUME BatchingInv, count > 0
    PROVE  InOrder(Plan, count)
<1>1. Plan \in Seq(Batch) /\ Len(Plan) = Len(completed) + Len(work)
  BY ConcatProperties DEF BatchingInv, TypeOK, Plan
<1>2. Len(Plan) > 0
  <2>1. Initially \in Nat /\ Initially > 0 /\ recoverable \in Nat
    BY InitialInOrder DEF Initially, BatchingInv, TypeOK
  <2> QED
    BY <2>1 DEF BatchingInv, PlanGrows
<1> QED
  BY <1>1, <1>2 DEF InOrder, BatchingInv, CandidatesInOrder

\* The bounds of a batch in order.
LEMMA BatchBounds ==
    ASSUME NEW n, NEW batches, InOrder(batches, n),
           NEW i \in 1 .. Len(batches)
    PROVE  /\ batches[i].first \in Nat /\ batches[i].last \in Nat
           /\ batches[i].first <= batches[i].last
<1>1. batches[i] \in Batch /\ Size(batches[i]) > 0
  BY DEF InOrder
<1> QED
  BY <1>1, BatchingConstants DEF Batch, Size

\* The first i batches hold i candidates at least.
LEMMA BatchesHoldCandidates ==
    ASSUME NEW n, NEW batches, InOrder(batches, n)
    PROVE  \A i \in 1 .. Len(batches) : batches[i].last >= i
<1>1. Len(batches) \in Nat
  BY DEF InOrder
<1> DEFINE S == {k \in Nat : k + 1 \in 1 .. Len(batches) =>
                               batches[k + 1].last >= k + 1}
<1>2. 0 \in S
  <2>1. 1 \in 1 .. Len(batches) /\ batches[1].first = 1
    BY <1>1 DEF InOrder
  <2> QED
    BY <2>1, BatchBounds
<1>3. ASSUME NEW k \in S PROVE k + 1 \in S
  <2> SUFFICES ASSUME (k + 1) + 1 \in 1 .. Len(batches)
               PROVE  batches[(k + 1) + 1].last >= (k + 1) + 1
    BY <1>3
  <2>1. k + 1 \in 1 .. Len(batches) /\ k + 1 \in 1 .. Len(batches) - 1
    BY <1>1, <1>3
  <2>2. batches[k + 1].last >= k + 1
    BY <1>3, <2>1
  <2>3. batches[(k + 1) + 1].first = batches[k + 1].last + 1
    BY <2>1 DEF InOrder
  <2> QED
    BY <2>1, <2>2, <2>3, BatchBounds
<1> HIDE DEF S
<1>4. S = Nat
  <2>1. S \in SUBSET Nat
    BY DEF S
  <2> QED
    BY <1>2, <1>3, <2>1, SetInduction
<1>5. ASSUME NEW i \in 1 .. Len(batches) PROVE batches[i].last >= i
  <2>1. i - 1 \in S /\ (i - 1) + 1 = i
    BY <1>1, <1>4
  <2> QED
    BY <2>1 DEF S
<1> QED
  BY <1>5

\* A batch ends before every later one begins.
LEMMA BatchesAreApart ==
    ASSUME NEW n, NEW batches, InOrder(batches, n)
    PROVE  \A i, j \in 1 .. Len(batches) :
             i < j => batches[i].last < batches[j].first
<1>1. Len(batches) \in Nat
  BY DEF InOrder
<1> TAKE i \in 1 .. Len(batches)
<1> DEFINE S == {k \in Nat : (i + k) + 1 \in 1 .. Len(batches) =>
                   batches[i].last < batches[(i + k) + 1].first}
<1>2. 0 \in S
  <2> SUFFICES ASSUME (i + 0) + 1 \in 1 .. Len(batches)
               PROVE  batches[i].last < batches[(i + 0) + 1].first
    OBVIOUS
  <2>1. i \in 1 .. Len(batches) - 1 /\ (i + 0) + 1 = i + 1
    BY <1>1
  <2>2. batches[i + 1].first = batches[i].last + 1
    BY <2>1 DEF InOrder
  <2> QED
    BY <2>1, <2>2, BatchBounds
<1>3. ASSUME NEW k \in S PROVE k + 1 \in S
  <2> SUFFICES ASSUME (i + (k + 1)) + 1 \in 1 .. Len(batches)
               PROVE  batches[i].last < batches[(i + (k + 1)) + 1].first
    BY <1>3
  <2> DEFINE j == (i + k) + 1
  <2>1. /\ j \in 1 .. Len(batches) /\ j \in 1 .. Len(batches) - 1
        /\ (i + (k + 1)) + 1 = j + 1
    BY <1>1, <1>3
  <2>2. batches[i].last < batches[j].first
    BY <1>3, <2>1
  <2> HIDE DEF j
  <2>3. batches[j + 1].first = batches[j].last + 1
    BY <2>1 DEF InOrder
  <2> QED
    BY <2>1, <2>2, <2>3, BatchBounds
<1> HIDE DEF S
<1>4. S = Nat
  <2>1. S \in SUBSET Nat
    BY DEF S
  <2> QED
    BY <1>2, <1>3, <2>1, SetInduction
<1> TAKE j \in 1 .. Len(batches)
<1> HAVE i < j
<1>5. (j - i) - 1 \in S /\ (i + ((j - i) - 1)) + 1 = j
  BY <1>1, <1>4
<1> QED
  BY <1>5 DEF S

\* Every candidate up to the end of a batch is in it or in an earlier one.
LEMMA BatchesCover ==
    ASSUME NEW n, NEW batches, InOrder(batches, n)
    PROVE  \A c \in 1 .. n :
             \E j \in 1 .. Len(batches) : c \in Members(batches[j])
<1>1. Len(batches) \in Nat /\ Len(batches) > 0
  BY DEF InOrder
<1> DEFINE S == {k \in Nat : k + 1 \in 1 .. Len(batches) =>
                   \A c \in 1 .. batches[k + 1].last :
                     \E j \in 1 .. Len(batches) : c \in Members(batches[j])}
<1>2. 0 \in S
  <2>1. 1 \in 1 .. Len(batches) /\ batches[1].first = 1
    BY <1>1 DEF InOrder
  <2>2. \A c \in 1 .. batches[1].last : c \in Members(batches[1])
    BY <2>1 DEF Members
  <2> QED
    BY <2>1, <2>2
<1>3. ASSUME NEW k \in S PROVE k + 1 \in S
  <2> SUFFICES ASSUME (k + 1) + 1 \in 1 .. Len(batches),
                      NEW c \in 1 .. batches[(k + 1) + 1].last
               PROVE  \E j \in 1 .. Len(batches) : c \in Members(batches[j])
    BY <1>3
  <2>1. k + 1 \in 1 .. Len(batches) /\ k + 1 \in 1 .. Len(batches) - 1
    BY <1>1, <1>3
  <2>2. batches[(k + 1) + 1].first = batches[k + 1].last + 1
    BY <2>1 DEF InOrder
  <2>3. /\ batches[k + 1].last \in Nat /\ batches[(k + 1) + 1].last \in Nat
    BY <2>1, BatchBounds
  <2>4. CASE c <= batches[k + 1].last
    BY <1>3, <2>1, <2>3, <2>4
  <2>5. CASE c > batches[k + 1].last
    BY <2>2, <2>3, <2>5 DEF Members
  <2> QED
    BY <2>3, <2>4, <2>5
<1> HIDE DEF S
<1>4. S = Nat
  <2>1. S \in SUBSET Nat
    BY DEF S
  <2> QED
    BY <1>2, <1>3, <2>1, SetInduction
<1>5. Len(batches) - 1 \in S /\ (Len(batches) - 1) + 1 = Len(batches)
  BY <1>1, <1>4
<1>6. batches[Len(batches)].last = n
  BY DEF InOrder
<1> QED
  BY <1>1, <1>5, <1>6 DEF S

-----------------------------------------------------------------------------
(* A call that completes.                                                  *)

\* A call completes only when nothing is left to be done.
NothingLeft == phase = "complete" => work = <<>>

LEMMA NothingLeftStep == NothingLeft /\ [Next]_vars => NothingLeft'
<1> SUFFICES ASSUME NothingLeft, [Next]_vars PROVE NothingLeft'
  OBVIOUS
<1>1. CASE phase' # "complete"
  BY <1>1 DEF NothingLeft
<1>2. CASE phase' = "complete" /\ phase # "complete"
  <2>1. Conclude
    BY <1>2
       DEF Next, Examine, Preflight, BeginAttempt, RefuseAttempt,
           IntegrityFailure, CapacityFailure, OtherError, FinishAttempt, Fail,
           Split, Change, vars
  <2> QED
    BY <2>1 DEF NothingLeft, Conclude
<1>3. CASE phase = "complete"
  <2>1. UNCHANGED work
    BY <1>3
       DEF Next, Examine, Preflight, BeginAttempt, RefuseAttempt,
           IntegrityFailure, CapacityFailure, OtherError, FinishAttempt,
           Conclude, Change, vars
  <2> QED
    BY <1>3, <2>1 DEF NothingLeft
<1> QED
  BY <1>1, <1>2, <1>3

\* Each candidate is in exactly one of the batches done.
ExaminedOnce ==
    phase = "complete" =>
      \A c \in Candidates :
        \E i \in 1 .. Len(completed) :
          /\ c \in Members(completed[i])
          /\ \A j \in 1 .. Len(completed) \ {i} :
               c \notin Members(completed[j])

LEMMA DoneMeansExamined == BatchingInv /\ NothingLeft => ExaminedOnce
<1> SUFFICES ASSUME BatchingInv, NothingLeft, phase = "complete",
                    NEW c \in Candidates
             PROVE  \E i \in 1 .. Len(completed) :
                      /\ c \in Members(completed[i])
                      /\ \A j \in 1 .. Len(completed) \ {i} :
                           c \notin Members(completed[j])
  BY DEF ExaminedOnce
<1>1. completed \in Seq(Batch) /\ count \in Nat
  BY BatchingConstants DEF BatchingInv, TypeOK
<1>2. Plan = completed
  BY <1>1 DEF NothingLeft, Plan
<1>3. count > 0 /\ c \in 1 .. count
  BY <1>1 DEF Candidates
<1>4. InOrder(completed, count)
  BY <1>2, <1>3, PlanInOrder
<1>5. PICK i \in 1 .. Len(completed) : c \in Members(completed[i])
  BY <1>3, <1>4, BatchesCover
<1>6. ASSUME NEW j \in 1 .. Len(completed) \ {i}, c \in Members(completed[j])
      PROVE  FALSE
  <2>1. /\ i < j => completed[i].last < completed[j].first
        /\ j < i => completed[j].last < completed[i].first
    BY <1>4, BatchesAreApart
  <2>2. /\ completed[i].first <= c /\ c <= completed[i].last
        /\ completed[j].first <= c /\ c <= completed[j].last
    BY <1>5, <1>6 DEF Members
  <2>3. /\ completed[i].first \in Nat /\ completed[i].last \in Nat
        /\ completed[j].first \in Nat /\ completed[j].last \in Nat
    BY <1>4, BatchBounds
  <2>4. i < j \/ j < i
    BY <1>1
  <2> QED
    BY <1>3, <2>1, <2>2, <2>3, <2>4
<1> QED
  BY <1>5, <1>6

\* A file is recorded as analyzed only when each of its candidates has been
\* examined, once, in a batch of its own call (processor.py:1081-1094).
THEOREM CompleteCallsExamineEach == Spec => []ExaminedOnce
<1>1. Init => NothingLeft
  BY DEF Init, NothingLeft
<1> QED
  BY <1>1, BatchingInvariant, NothingLeftStep, DoneMeansExamined, PTL DEF Spec

-----------------------------------------------------------------------------
(* A change of the repository.                                             *)

\* Once the repository has changed while something is to be examined, the call
\* cannot succeed.
ChangeIsFatal ==
    [](repo > 0 /\ work # <<>> => [](phase # "complete"))

\* The repository has changed and something is still to be examined.
Doomed == repo > 0 /\ work # <<>> /\ phase # "complete"

\* No step leads out of there.
LEMMA DoomedStep == BatchingInv /\ Doomed /\ [Next]_vars => Doomed'
<1> SUFFICES ASSUME BatchingInv, Doomed, [Next]_vars PROVE Doomed'
  OBVIOUS
<1>1. /\ work \in Seq(Batch) /\ repo \in Nat /\ repo > 0
      /\ work # <<>> /\ phase # "complete"
  BY BatchingConstants DEF BatchingInv, TypeOK, Doomed
<1>2. ASSUME UNCHANGED <<work, repo>>, phase' # "complete" PROVE Doomed'
  BY <1>1, <1>2 DEF Doomed
<1>3. ASSUME Split, Splittable(TRUE) PROVE Doomed'
  <2>1. Halves(Head(work)) \in Seq(Batch) /\ Len(Halves(Head(work))) = 2
    BY <1>1, <1>3, HalvesAdjoin, HeadTailProperties DEF Splittable
  <2>2. Len(Halves(Head(work)) \o Tail(work)) > 0
    BY <1>1, <2>1, HeadTailProperties, ConcatProperties
  <2>3. Len(work') > 0
    BY <1>3, <2>2, Zenon DEF Split
  <2>4. work' # <<>>
    BY <2>3
  <2> QED
    BY <1>1, <1>3, <2>4 DEF Doomed, Split
<1>4. CASE Preflight \/ BeginAttempt \/ IntegrityFailure \/ OtherError
  BY <1>2, <1>4 DEF Preflight, BeginAttempt, IntegrityFailure, OtherError, Fail
<1>5. CASE RefuseAttempt
  BY <1>2, <1>3, <1>5 DEF RefuseAttempt, Fail
<1>6. CASE CapacityFailure
  BY <1>2, <1>3, <1>6 DEF CapacityFailure, Fail
\* What is examined now cannot be accepted: the repository is read again.
<1>7. CASE FinishAttempt
  <2>1. \A covered : ~Accepted(covered)
    BY <1>1 DEF Accepted
  <2>2. Fail(FALSE)
    BY <1>7, <2>1 DEF FinishAttempt
  <2> QED
    BY <1>2, <2>2 DEF Fail
<1>8. CASE Conclude
  BY <1>1, <1>8 DEF Conclude
<1>9. CASE Change
  BY <1>1, <1>9 DEF Change, Doomed
<1>10. CASE UNCHANGED vars
  BY <1>2, <1>1, <1>10 DEF vars
<1> QED
  BY <1>4, <1>5, <1>6, <1>7, <1>8, <1>9, <1>10 DEF Next, Examine

\* From the moment the repository changes while a candidate is unexamined the
\* call cannot succeed: every batch is judged by the catalog it was scanned
\* with, before and after (processor.py:1034-1041).
THEOREM ChangesAreFatal == Spec => ChangeIsFatal
<1>1. Init => NothingLeft
  BY DEF Init, NothingLeft
<1>2. NothingLeft /\ repo > 0 /\ work # <<>> => Doomed
  BY DEF NothingLeft, Doomed
<1>3. Doomed => phase # "complete"
  BY DEF Doomed
<1> QED
  BY <1>1, <1>2, <1>3, BatchingInvariant, NothingLeftStep, DoomedStep, PTL
     DEF Spec, ChangeIsFatal

-----------------------------------------------------------------------------
(* The recursion is finite.                                                *)

\* The phases in their order.
LEMMA Stages ==
    /\ Stage["preflight"] = 0 /\ Stage["ready"] = 1 /\ Stage["examining"] = 2
    /\ \A p \in Outcome : Stage[p] = 3
  BY DEF Stage, Outcome

\* A file is never divided into more batches than it has candidates.
LEMMA BatchesAtMost == BatchingInv => Len(Plan) <= MostBatches
<1> SUFFICES ASSUME BatchingInv PROVE Len(Plan) <= MostBatches
  OBVIOUS
<1>1. count \in Nat
  BY BatchingConstants DEF BatchingInv, TypeOK
<1>2. CASE count = 0
  <2>1. Len(Plan) = 1 /\ MostBatches = 1
    BY <1>2, Zenon DEF BatchingInv, EmptyFile, MostBatches
  <2> QED
    BY <2>1
<1>3. CASE count > 0
  <2>1. InOrder(Plan, count)
    BY <1>3, PlanInOrder
  <2>2. Len(Plan) \in 1 .. Len(Plan) /\ Plan[Len(Plan)].last = count
    <3>1. Plan \in Seq(Batch) /\ Len(Plan) > 0
      BY <2>1 DEF InOrder
    <3>2. Len(Plan) \in Nat
      BY <3>1, LenProperties
    <3> QED
      BY <2>1, <3>1, <3>2 DEF InOrder
  <2>3. Plan[Len(Plan)].last >= Len(Plan)
    BY <2>1, <2>2, BatchesHoldCandidates
  <2> QED
    BY <1>1, <1>3, <2>2, <2>3 DEF MostBatches
<1> QED
  BY <1>1, <1>2, <1>3

\* There is only so far to go: each split leaves a batch more, and each batch
\* is done once.
LEMMA ProgressIsBounded == BatchingInv => Progress <= 4 * MostBatches + 1
<1> SUFFICES ASSUME BatchingInv PROVE Progress <= 4 * MostBatches + 1
  OBVIOUS
<1>1. /\ Len(completed) \in Nat /\ Len(work) \in Nat /\ recoverable \in Nat
      /\ Len(Plan) = Len(completed) + Len(work)
  BY ConcatProperties DEF BatchingInv, TypeOK, Plan
<1>2. Initially \in Nat /\ Initially > 0
  BY InitialInOrder DEF Initially, BatchingInv, TypeOK
<1>3. Len(Plan) = Initially + recoverable
  BY DEF BatchingInv, PlanGrows
<1>4. Len(Plan) <= MostBatches /\ MostBatches \in Nat
  BY BatchesAtMost, BatchingConstants DEF MostBatches, BatchingInv, TypeOK
<1>5. Stage[phase] \in 0 .. 3
  <2>1. \/ phase \in {"preflight", "ready", "examining"} \/ phase \in Outcome
    BY DEF BatchingInv, TypeOK
  <2> QED
    BY <2>1, Stages
<1> QED
  BY <1>1, <1>2, <1>3, <1>4, <1>5 DEF Progress

\* Each step of the call brings it further.
LEMMA ProgressIsMade == BatchingInv /\ Examine => Progress < Progress'
<1> SUFFICES ASSUME BatchingInv, Examine PROVE Progress < Progress'
  OBVIOUS
<1>1. /\ Len(completed) \in Nat /\ recoverable \in Nat
      /\ completed \in Seq(Batch) /\ work \in Seq(Batch)
  BY DEF BatchingInv, TypeOK
<1>2. /\ phase = "preflight" => Stage[phase] = 0
      /\ phase = "ready" => Stage[phase] = 1
      /\ phase = "examining" => Stage[phase] = 2
      /\ phase' = "ready" => Stage[phase'] = 1
      /\ phase' = "examining" => Stage[phase'] = 2
      /\ phase' \in Outcome => Stage[phase'] = 3
  BY Stages
<1>3. Progress' = 2 * (recoverable' + Len(completed')) + Stage[phase']
  BY DEF Progress, Stage
<1>4. ASSUME UNCHANGED <<recoverable, completed>>,
             Stage[phase] < Stage[phase'],
             Stage[phase] \in Nat, Stage[phase'] \in Nat
      PROVE  Progress < Progress'
  BY <1>1, <1>3, <1>4 DEF Progress
<1>5. ASSUME phase \in {"preflight", "ready", "examining"},
             UNCHANGED <<recoverable, completed>>, phase' \in Outcome
      PROVE  Progress < Progress'
  BY <1>2, <1>4, <1>5
<1>6. ASSUME phase \in {"ready", "examining"}, Split
      PROVE  Progress < Progress'
  <2>1. /\ recoverable' = recoverable + 1 /\ completed' = completed
        /\ phase' = "ready"
    BY <1>6 DEF Split
  <2> QED
    BY <1>1, <1>2, <1>3, <1>6, <2>1 DEF Progress
<1>7. CASE Preflight \/ BeginAttempt
  BY <1>2, <1>4, <1>5, <1>7 DEF Preflight, BeginAttempt, Fail, Outcome
<1>8. CASE RefuseAttempt \/ CapacityFailure
  BY <1>5, <1>6, <1>8 DEF RefuseAttempt, CapacityFailure, Fail, Outcome
<1>9. CASE IntegrityFailure \/ OtherError \/ Conclude
  BY <1>5, <1>9 DEF IntegrityFailure, OtherError, Conclude, Fail, Outcome
<1>10. CASE FinishAttempt
  <2>1. CASE Fail(FALSE)
    BY <1>5, <1>10, <2>1 DEF FinishAttempt, Fail, Outcome
  <2>2. CASE ~Fail(FALSE)
    <3>1. /\ phase = "examining" /\ phase' = "ready"
          /\ work' = Tail(work) /\ completed' = Append(completed, Head(work))
          /\ recoverable' = recoverable
      BY <1>10, <2>2 DEF FinishAttempt
    <3>2. Len(completed') = Len(completed) + 1
      BY <3>1, DoneKeepsPlan DEF BatchingInv, AttemptsAddUp
    <3> QED
      BY <1>1, <1>2, <1>3, <3>1, <3>2 DEF Progress
  <2> QED
    BY <2>1, <2>2
<1> QED
  BY <1>7, <1>8, <1>9, <1>10 DEF Examine

\* A call takes at most four steps for each candidate and one more, whatever
\* the investigator answers: no size of a batch, no budget and no change of
\* the repository makes the recursion loop (processor.py:101-171).
THEOREM CallsAreFinite == Spec => CallAdvances
<1>1. (BatchingInv => Progress <= 4 * MostBatches + 1)'
  BY ProgressIsBounded, PTL
<1>2. BatchingInv /\ BatchingInv' /\ [Next]_vars
        => [/\ Examine => Progress < Progress'
            /\ Progress' <= 4 * MostBatches + 1]_vars
  <2> SUFFICES ASSUME BatchingInv, BatchingInv', [Next]_vars, vars' # vars
               PROVE  /\ Examine => Progress < Progress'
                      /\ Progress' <= 4 * MostBatches + 1
    OBVIOUS
  <2>1. MostBatches' = MostBatches
    BY DEF Next, Examine, Preflight, BeginAttempt, RefuseAttempt,
           IntegrityFailure, CapacityFailure, OtherError, FinishAttempt,
           Conclude, Change, Fail, Split, vars, MostBatches
  <2>2. Progress' <= 4 * MostBatches' + 1
    BY <1>1
  <2> QED
    BY <2>1, <2>2, ProgressIsMade
<1> QED
  BY <1>2, BatchingInvariant, PTL DEF Spec, CallAdvances

=============================================================================
