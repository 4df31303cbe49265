-------------------------- MODULE AgentCenterProofs --------------------------
(***************************************************************************)
(* For every number of clients, actions, edits, reviews and failures: the  *)
(* state is typed, the triage the service carried out stays in the file    *)
(* while only the service writes, and a reused state is current.           *)
(***************************************************************************)
EXTENDS AgentCenter, TLAPS

-----------------------------------------------------------------------------
(* Types.                                                                  *)

LEMMA BlankState == Blank \in State
<1>1. NoTriage \in Triage
  BY AgentCenterConstants DEF NoTriage, Triage, Forever
<1> QED
  BY <1>1, AgentCenterConstants DEF Blank, State

LEMMA NormalizedTriage ==
    ASSUME NEW t \in Triage
    PROVE  Normalized(t) \in Triage
BY AgentCenterConstants DEF Normalized, Triage, Forever

LEMMA TriagedTriage ==
    ASSUME NEW t \in Triage, NEW j \in Job, j.kind # "refresh",
           now \in 0 .. MaxClock
    PROVE  Triaged(t, j) \in Triage
<1>1. Normalized(t) \in Triage /\ j.of \in Action
  BY NormalizedTriage DEF Job
<1>2. now + 1 \in 0 .. Forever /\ 0 \in 0 .. Forever
      /\ Forever \in 0 .. Forever
  BY AgentCenterConstants DEF Forever
<1>3. CASE j.kind = "dismiss"
  BY <1>1, <1>2, <1>3 DEF Triaged, Triage
<1>4. CASE j.kind = "snooze"
  BY <1>1, <1>2, <1>4 DEF Triaged, Triage
<1>5. CASE j.kind = "restore"
  BY <1>1, <1>2, <1>5 DEF Triaged, Triage
<1> QED
  BY <1>3, <1>4, <1>5 DEF Job

LEMMA AgentInit == Init => TypeOK
<1> SUFFICES ASSUME Init PROVE TypeOK
  OBVIOUS
<1>1. NoTriage \in Triage
  BY AgentCenterConstants DEF NoTriage, Triage, Forever
<1>2. source \in 0 .. MaxEdits /\ reviews \in 0 .. MaxReviews
      /\ now \in 0 .. MaxClock /\ failures \in 0 .. MaxFailures
  BY AgentCenterConstants DEF Init
<1> QED
  BY <1>1, <1>2, AgentCenterConstants DEF Init, TypeOK, Client

LEMMA AgentTypes == TypeOK /\ [Next]_vars => TypeOK'
<1> SUFFICES ASSUME TypeOK, [Next]_vars PROVE TypeOK'
  OBVIOUS
<1> USE DEF TypeOK, GoTo, Keep, Outside, Client
<1>1. NoTriage \in Triage
  BY AgentCenterConstants DEF NoTriage, Triage, Forever
<1>2. ASSUME NEW p \in Client, Leave(p)
      PROVE  /\ lock' \in Thread \cup {Free}
             /\ pc' = [pc EXCEPT ![p] = "idle"]
             /\ job' \in [Client -> Job \cup {NoJob}]
             /\ draft' \in [Client -> State \cup {NoState}]
             /\ \A q \in Thread : pc'[q] # "idle" <=> lock' = q
             /\ \A q \in Client : pc'[q] # "idle" => job'[q] \in Job
             /\ \A q \in Client :
                  pc'[q] \notin {"idle", "load", "sign"} => draft'[q] \in State
             /\ \A q \in Client : pc'[q] = "edit" => job'[q].kind # "refresh"
  BY <1>2, AgentCenterConstants DEF Leave
<1>3. ASSUME NEW p \in Client, NEW j \in Requests(p), Begin(p, j)
      PROVE  TypeOK'
  <2>1. j \in Job
    BY DEF Requests
  <2>2. CASE p \in Thread
    BY <1>3, <2>1, <2>2, AgentCenterConstants DEF Begin
  <2>3. CASE p \notin Thread
    BY <1>3, <2>1, <2>3, AgentCenterConstants DEF Begin
  <2> QED
    BY <2>2, <2>3
<1>4. ASSUME NEW p \in Client, Load(p) PROVE TypeOK'
  <2>1. CASE job[p].kind = "refresh"
    BY <1>4, <2>1 DEF Load, Loaded
  <2>2. CASE job[p].kind # "refresh" /\ Loaded
    BY <1>4, <2>2 DEF Load, LoadForTriage, Loaded
  <2>3. CASE job[p].kind = "restore" /\ ~Loaded
    BY <1>2, <1>4, <2>3 DEF Load, LoadForTriage
  <2>4. CASE job[p].kind \notin {"refresh", "restore"} /\ ~Loaded
    <3>1. [job[p] EXCEPT !.force = TRUE] \in Job
      BY <1>4 DEF Load, Job
    <3> QED
      BY <1>4, <2>4, <3>1 DEF Load, LoadForTriage
  <2> QED
    BY <2>1, <2>2, <2>3, <2>4
<1>5. ASSUME NEW p \in Client, Reuse(p) PROVE TypeOK'
  <2>1. draft[p] \in State
    BY <1>5 DEF Reuse, MayReuse
  <2>2. [draft[p] EXCEPT !.triage = Normalized(draft[p].triage)] \in State
    BY <2>1, NormalizedTriage DEF State
  <2>3. CASE Normalized(draft[p].triage) = draft[p].triage
    BY <1>2, <1>5, <2>3 DEF Reuse
  <2>4. CASE Normalized(draft[p].triage) # draft[p].triage
    BY <1>5, <2>2, <2>4 DEF Reuse
  <2> QED
    BY <2>3, <2>4
<1>6. ASSUME NEW p \in Client, Sign(p) PROVE TypeOK'
  <2>1. Previous(p).triage \in Triage
    BY <1>6, BlankState DEF Previous, State
  <2>2. [Blank EXCEPT !.signed = source, !.digest = reviews,
                      !.triage = Normalized(Previous(p).triage)] \in State
    BY <2>1, BlankState, NormalizedTriage DEF State
  <2> QED
    BY <1>6, <2>2 DEF Sign
<1>7. ASSUME NEW p \in Client, Analyse(p) PROVE TypeOK'
  <2>1. [draft[p] EXCEPT !.analysed = source] \in State
    BY <1>7 DEF Analyse, State
  <2> QED
    BY <1>7, <2>1 DEF Analyse
<1>8. ASSUME NEW p \in Client, Apply(p) PROVE TypeOK'
  <2>1. draft[p] \in State /\ Normalized(draft[p].triage) \in Triage
    BY <1>8, NormalizedTriage DEF Apply, State
  <2>2. [draft[p] EXCEPT !.reviewed = reviews,
                         !.triage = Normalized(draft[p].triage)] \in State
    BY <2>1 DEF State
  <2> QED
    BY <1>8, <2>2 DEF Apply
<1>9. ASSUME NEW p \in Client, Edit(p) PROVE TypeOK'
  <2>1. draft[p] \in State /\ job[p] \in Job /\ job[p].kind # "refresh"
    BY <1>9 DEF Edit
  <2>2. [draft[p] EXCEPT !.triage = Triaged(draft[p].triage, job[p])]
          \in State
    BY <2>1, TriagedTriage DEF State
  <2> QED
    BY <1>9, <2>2 DEF Edit
<1>10. ASSUME NEW p \in Client, Truncate(p) PROVE TypeOK'
  BY <1>1, <1>10 DEF Truncate, Spoil
<1>11. ASSUME NEW p \in Client, Write(p) PROVE TypeOK'
  <2>1. draft[p] \in State /\ job[p] \in Job
    BY <1>11 DEF Write
  <2>2. CASE job[p].kind # "refresh" /\ job[p].force
    <3>1. /\ [job[p] EXCEPT !.force = FALSE] \in Job
          /\ [job[p] EXCEPT !.force = FALSE].kind # "refresh"
      BY <2>1, <2>2 DEF Job
    <3> QED
      BY <1>11, <2>1, <2>2, <3>1 DEF Write
  <2>3. CASE ~(job[p].kind # "refresh" /\ job[p].force)
    <3>1. wanted' \in Triage
      BY <1>11, <2>1, <2>3 DEF Write, Triage, State, Job
    <3>2. Leave(p) /\ file' = draft[p]
          /\ UNCHANGED <<Outside, spoiled>>
      BY <1>11, <2>3 DEF Write
    <3> QED
      BY <1>2, <2>1, <3>1, <3>2
  <2> QED
    BY <2>2, <2>3
<1>12. ASSUME NEW p \in Client, Fail(p) PROVE TypeOK'
  <2>1. failures' \in 0 .. MaxFailures
    BY <1>12, AgentCenterConstants DEF Fail
  <2>2. wanted' \in Triage /\ spoiled' \in BOOLEAN
    BY <1>1, <1>12 DEF Fail, Spoil
  <2>3. Leave(p) /\ UNCHANGED <<source, reviews, now, file>>
    BY <1>12 DEF Fail
  <2> QED
    BY <1>2, <2>1, <2>2, <2>3
<1>13. CASE EditSource \/ ChangeReview \/ Tick
  <2>1. source' \in 0 .. MaxEdits /\ reviews' \in 0 .. MaxReviews
        /\ now' \in 0 .. MaxClock
    BY <1>13, AgentCenterConstants DEF EditSource, ChangeReview, Tick
  <2>2. UNCHANGED <<file, lock, pc, job, draft, failures, wanted, spoiled>>
    BY <1>13 DEF EditSource, ChangeReview, Tick
  <2> QED
    BY <2>1, <2>2
<1>14. CASE UNCHANGED vars
  BY <1>14 DEF vars
<1> QED
  BY <1>3, <1>4, <1>5, <1>6, <1>7, <1>8, <1>9, <1>10, <1>11, <1>12, <1>13,
     <1>14 DEF Next, Work, Ask

\* Every variable keeps its type, and the lock belongs to the thread that is in
\* a call.
THEOREM AgentTypeCorrect == Spec => []TypeOK
<1> QED
  BY AgentInit, AgentTypes, PTL DEF Spec

-----------------------------------------------------------------------------
(* What a state says of itself.  That a reused state is current rests on    *)
(* every state, in the file or in somebody's hands, having been signed      *)
(* before it was analysed and reviewed.                                     *)

Signed(s) == s.signed <= source /\ s.digest <= reviews
Analysed(s) == s.signed <= s.analysed /\ s.analysed <= source
Reviewed(s) == s.digest <= s.reviewed /\ s.reviewed <= reviews
Whole(s) == Signed(s) /\ Analysed(s) /\ Reviewed(s)

HasState(p) ==
    pc[p] \notin {"idle", "load"} /\ (pc[p] = "sign" => draft[p] # NoState)

DraftWhole(p) ==
    /\ pc[p] \in {"idle", "load"} => draft[p] = NoState
    /\ HasState(p) =>
         /\ Signed(draft[p])
         /\ pc[p] # "analyse" => Analysed(draft[p])
         /\ pc[p] \notin {"analyse", "apply"} => Reviewed(draft[p])

WholeInv ==
    /\ TypeOK
    /\ Loaded => Whole(file)
    /\ \A p \in Client : DraftWhole(p)

\* One client moves, and the sources and the reviews stay.
LEMMA OneDraft ==
    ASSUME WholeInv, TypeOK', NEW p \in Client, DraftWhole(p)',
           \A q \in Client : q # p =>
             pc'[q] = pc[q] /\ draft'[q] = draft[q],
           UNCHANGED <<source, reviews>>, file' = file \/ Whole(file')
    PROVE  WholeInv'
<1>1. (Loaded => Whole(file))'
  BY DEF WholeInv, Loaded, Whole, Signed, Analysed, Reviewed
<1>2. ASSUME NEW q \in Client, q # p PROVE DraftWhole(q)'
  BY <1>2 DEF WholeInv, DraftWhole, HasState, Signed, Analysed, Reviewed
<1> QED
  BY <1>1, <1>2 DEF WholeInv

LEMMA LeavesNoDraft ==
    ASSUME TypeOK, NEW p \in Client, Leave(p)
    PROVE  /\ DraftWhole(p)'
           /\ \A q \in Client : q # p =>
                pc'[q] = pc[q] /\ draft'[q] = draft[q]
  BY DEF TypeOK, Leave, GoTo, Keep, DraftWhole, HasState

LEMMA WholeStep == WholeInv /\ [Next]_vars => WholeInv'
<1> SUFFICES ASSUME WholeInv, [Next]_vars PROVE WholeInv'
  OBVIOUS
<1>1. TypeOK /\ TypeOK'
  BY AgentTypes DEF WholeInv
<1>2. source \in Nat /\ reviews \in Nat
  BY <1>1, AgentCenterConstants DEF TypeOK
<1>3. ASSUME NEW s \in State
      PROVE  /\ s.signed \in Nat /\ s.analysed \in Nat
             /\ s.digest \in Nat /\ s.reviewed \in Nat
  BY AgentCenterConstants DEF State
<1>4. ASSUME NEW p \in Client
      PROVE  /\ DraftWhole(p)
             /\ pc \in [Client -> {"idle", "load", "edit", "sign", "analyse",
                                   "apply", "truncate", "write"}]
             /\ draft \in [Client -> State \cup {NoState}]
             /\ pc[p] \notin {"idle", "load", "sign"} => draft[p] \in State
  BY <1>1 DEF WholeInv, TypeOK
<1>5. ASSUME NEW p \in Client, NEW j \in Requests(p), Begin(p, j)
      PROVE  WholeInv'
  <2>1. DraftWhole(p)'
    BY <1>4, <1>5 DEF Begin, GoTo, DraftWhole, HasState
  <2> QED
    BY <1>1, <1>4, <1>5, <2>1, OneDraft DEF Begin, GoTo, Outside
<1>6. ASSUME NEW p \in Client, Load(p) PROVE WholeInv'
  <2>1. UNCHANGED <<source, reviews, file>>
    BY <1>6 DEF Load, Outside
  <2>2. CASE Leave(p)
    BY <1>1, <2>1, <2>2, LeavesNoDraft, OneDraft
  <2>3. CASE /\ pc' = [pc EXCEPT ![p] = "sign"]
             /\ draft' = [draft EXCEPT ![p] = IF Loaded THEN file
                                              ELSE NoState]
    <3>1. DraftWhole(p)'
      BY <1>4, <2>1, <2>3
         DEF WholeInv, DraftWhole, HasState, Whole, Signed, Analysed,
             Reviewed
    <3> QED
      BY <1>1, <1>4, <2>1, <2>3, <3>1, OneDraft
  <2>4. CASE /\ pc' = [pc EXCEPT ![p] = "edit"] /\ Loaded
             /\ draft' = [draft EXCEPT ![p] = file]
    <3>1. DraftWhole(p)'
      BY <1>4, <2>1, <2>4
         DEF WholeInv, DraftWhole, HasState, Whole, Signed, Analysed,
             Reviewed
    <3> QED
      BY <1>1, <1>4, <2>1, <2>4, <3>1, OneDraft
  <2>5. CASE pc' = [pc EXCEPT ![p] = "sign"] /\ draft' = draft
    <3>1. DraftWhole(p)'
      BY <1>4, <1>6, <2>5 DEF Load, DraftWhole, HasState
    <3> QED
      BY <1>1, <1>4, <2>1, <2>5, <3>1, OneDraft
  <2> QED
    BY <1>6, <2>2, <2>3, <2>4, <2>5
       DEF Load, LoadForTriage, GoTo, Keep
<1>7. ASSUME NEW p \in Client, Reuse(p) PROVE WholeInv'
  <2>1. UNCHANGED <<source, reviews, file>>
    BY <1>7 DEF Reuse, Outside
  <2>2. CASE Leave(p)
    BY <1>1, <2>1, <2>2, LeavesNoDraft, OneDraft
  <2>3. CASE ~Leave(p)
    <3> DEFINE old == draft[p]
               s == [old EXCEPT !.triage = Normalized(old.triage)]
    <3>1. /\ pc[p] = "sign" /\ old # NoState /\ old \in State
          /\ pc' = [pc EXCEPT ![p] = "truncate"]
          /\ draft' = [draft EXCEPT ![p] = s]
      BY <1>4, <1>7, <2>3 DEF Reuse, MayReuse, GoTo, Keep
    <3>2. /\ s.signed = old.signed /\ s.analysed = old.analysed
          /\ s.digest = old.digest /\ s.reviewed = old.reviewed
      BY <3>1 DEF State
    <3>3. Whole(old)
      BY <1>4, <3>1 DEF DraftWhole, HasState, Whole
    <3> HIDE DEF s
    <3>4. DraftWhole(p)'
      BY <1>4, <2>1, <3>1, <3>2, <3>3
         DEF DraftWhole, HasState, Whole, Signed, Analysed, Reviewed
    <3> QED
      BY <1>1, <1>4, <2>1, <3>1, <3>4, OneDraft
  <2> QED
    BY <2>2, <2>3
<1>8. ASSUME NEW p \in Client, Sign(p) PROVE WholeInv'
  <2> DEFINE s == [Blank EXCEPT !.signed = source, !.digest = reviews,
                     !.triage = Normalized(Previous(p).triage)]
  <2>1. /\ UNCHANGED <<source, reviews, file>>
        /\ pc' = [pc EXCEPT ![p] = "analyse"]
        /\ draft' = [draft EXCEPT ![p] = s]
    BY <1>8 DEF Sign, Outside, GoTo, Keep
  <2>2. s.signed = source /\ s.digest = reviews
    BY BlankState DEF State
  <2> HIDE DEF s
  <2>3. DraftWhole(p)'
    BY <1>2, <1>4, <2>1, <2>2 DEF DraftWhole, HasState, Signed
  <2> QED
    BY <1>1, <1>4, <2>1, <2>3, OneDraft
<1>9. ASSUME NEW p \in Client, Analyse(p) PROVE WholeInv'
  <2> DEFINE old == draft[p]
             s == [old EXCEPT !.analysed = source]
  <2>1. /\ UNCHANGED <<source, reviews, file>>
        /\ pc[p] = "analyse" /\ pc' = [pc EXCEPT ![p] = "apply"]
        /\ draft' = [draft EXCEPT ![p] = s]
    BY <1>9 DEF Analyse, Outside, GoTo, Keep
  <2>2. old \in State /\ Signed(old)
    BY <1>4, <2>1 DEF DraftWhole, HasState
  <2>3. s.signed = old.signed /\ s.digest = old.digest /\ s.analysed = source
    BY <2>2 DEF State
  <2> HIDE DEF s
  <2>4. DraftWhole(p)'
    BY <1>2, <1>4, <2>1, <2>2, <2>3
       DEF DraftWhole, HasState, Signed, Analysed
  <2> QED
    BY <1>1, <1>4, <2>1, <2>4, OneDraft
<1>10. ASSUME NEW p \in Client, Apply(p) PROVE WholeInv'
  <2> DEFINE old == draft[p]
             s == [old EXCEPT !.reviewed = reviews,
                              !.triage = Normalized(old.triage)]
  <2>1. /\ UNCHANGED <<source, reviews, file>>
        /\ pc[p] = "apply" /\ pc' = [pc EXCEPT ![p] = "truncate"]
        /\ draft' = [draft EXCEPT ![p] = s]
    BY <1>10 DEF Apply, Outside, GoTo, Keep
  <2>2. old \in State /\ Signed(old) /\ Analysed(old)
    BY <1>4, <2>1 DEF DraftWhole, HasState
  <2>3. /\ s.signed = old.signed /\ s.digest = old.digest
        /\ s.analysed = old.analysed /\ s.reviewed = reviews
    BY <2>2 DEF State
  <2> HIDE DEF s
  <2>4. DraftWhole(p)'
    BY <1>2, <1>4, <2>1, <2>2, <2>3
       DEF DraftWhole, HasState, Signed, Analysed, Reviewed
  <2> QED
    BY <1>1, <1>4, <2>1, <2>4, OneDraft
<1>11. ASSUME NEW p \in Client, Edit(p) PROVE WholeInv'
  <2> DEFINE old == draft[p]
             s == [old EXCEPT !.triage = Triaged(old.triage, job[p])]
  <2>1. /\ UNCHANGED <<source, reviews, file>>
        /\ pc[p] = "edit" /\ pc' = [pc EXCEPT ![p] = "truncate"]
        /\ draft' = [draft EXCEPT ![p] = s]
    BY <1>11 DEF Edit, Outside, GoTo, Keep
  <2>2. old \in State /\ Whole(old)
    BY <1>4, <2>1 DEF DraftWhole, HasState, Whole
  <2>3. /\ s.signed = old.signed /\ s.digest = old.digest
        /\ s.analysed = old.analysed /\ s.reviewed = old.reviewed
    BY <2>2 DEF State
  <2> HIDE DEF s
  <2>4. DraftWhole(p)'
    BY <1>2, <1>4, <2>1, <2>2, <2>3
       DEF DraftWhole, HasState, Whole, Signed, Analysed, Reviewed
  <2> QED
    BY <1>1, <1>4, <2>1, <2>4, OneDraft
<1>12. ASSUME NEW p \in Client, Truncate(p) PROVE WholeInv'
  <2>1. /\ UNCHANGED <<source, reviews, draft>> /\ file' = Torn
        /\ pc[p] = "truncate" /\ pc' = [pc EXCEPT ![p] = "write"]
    BY <1>12 DEF Truncate, Outside, GoTo
  <2>2. ~Loaded'
    BY <2>1 DEF Loaded
  <2>3. ASSUME NEW q \in Client PROVE DraftWhole(q)'
    BY <1>4, <2>1 DEF DraftWhole, HasState, Signed, Analysed, Reviewed
  <2> QED
    BY <1>1, <2>2, <2>3 DEF WholeInv
<1>13. ASSUME NEW p \in Client, Write(p) PROVE WholeInv'
  <2>1. /\ UNCHANGED <<source, reviews>> /\ file' = draft[p]
        /\ pc[p] = "write"
    BY <1>13 DEF Write, Outside
  <2>2. Whole(draft[p])
    BY <1>4, <2>1 DEF DraftWhole, HasState, Whole
  <2>3. Whole(file')
    BY <2>1, <2>2
  <2>4. CASE Leave(p)
    BY <1>1, <2>1, <2>3, <2>4, LeavesNoDraft, OneDraft
  <2>5. CASE pc' = [pc EXCEPT ![p] = "edit"] /\ draft' = draft
    <3>1. DraftWhole(p)'
      BY <1>4, <2>1, <2>2, <2>5
         DEF DraftWhole, HasState, Whole, Signed, Analysed, Reviewed
    <3> QED
      BY <1>1, <1>4, <2>1, <2>3, <2>5, <3>1, OneDraft
  <2> QED
    BY <1>13, <2>4, <2>5 DEF Write, GoTo
<1>14. ASSUME NEW p \in Client, Fail(p) PROVE WholeInv'
  BY <1>1, <1>14, LeavesNoDraft, OneDraft DEF Fail
<1>15. CASE EditSource \/ ChangeReview \/ Tick \/ UNCHANGED vars
  <2>1. /\ source <= source' /\ reviews <= reviews'
        /\ UNCHANGED <<file, pc, draft>>
    BY <1>2, <1>15 DEF EditSource, ChangeReview, Tick, vars
  <2>2. source' \in Nat /\ reviews' \in Nat
    BY <1>1, AgentCenterConstants DEF TypeOK
  <2>3. (Loaded => Whole(file))'
    BY <1>1, <1>2, <1>3, <2>1, <2>2
       DEF WholeInv, TypeOK, Loaded, Whole, Signed, Analysed, Reviewed
  <2>4. ASSUME NEW p \in Client PROVE DraftWhole(p)'
    <3>1. HasState(p) => draft[p] \in State
      BY <1>4 DEF HasState
    <3> QED
      BY <1>2, <1>3, <1>4, <2>1, <2>2, <3>1
         DEF DraftWhole, HasState, Signed, Analysed, Reviewed
  <2> QED
    BY <1>1, <2>3, <2>4 DEF WholeInv
<1> QED
  BY <1>5, <1>6, <1>7, <1>8, <1>9, <1>10, <1>11, <1>12, <1>13, <1>14, <1>15
     DEF Next, Work, Ask

LEMMA WholeInvariant == Spec => []WholeInv
<1>1. Init => WholeInv
  BY AgentInit DEF Init, WholeInv, Loaded, DraftWhole, HasState
<1> QED
  BY <1>1, WholeStep, PTL DEF Spec

\* A reused state is of the sources that are there now, and follows the
\* reviews in force unless the digest may have come back.
THEOREM ReusedIsCurrent == Spec => ReuseIsCurrent
<1>1. ASSUME WholeInv, NEW p \in Client, Reuse(p)
      PROVE  /\ draft[p].analysed = source
             /\ reviews < draft[p].digest + 2 => draft[p].reviewed = reviews
  <2>1. /\ draft[p] \in State /\ Whole(draft[p])
        /\ draft[p].signed = source
        /\ draft[p].digest % 2 = reviews % 2
    BY <1>1
       DEF WholeInv, TypeOK, DraftWhole, HasState, Whole, Reuse, MayReuse,
           Previous
  <2>2. /\ source \in Nat /\ reviews \in Nat
        /\ draft[p].signed \in Nat /\ draft[p].analysed \in Nat
        /\ draft[p].digest \in Nat /\ draft[p].reviewed \in Nat
    BY <1>1, <2>1, AgentCenterConstants DEF WholeInv, TypeOK, State
  <2>3. draft[p].analysed = source
    BY <2>1, <2>2 DEF Whole, Analysed
  <2>4. draft[p].digest <= reviews /\ draft[p].digest <= draft[p].reviewed
        /\ draft[p].reviewed <= reviews
    BY <2>1 DEF Whole, Signed, Reviewed
  <2>5. reviews # draft[p].digest + 1
    BY <2>1, <2>2
  <2> QED
    BY <2>2, <2>3, <2>4, <2>5
<1>2. WholeInv /\ [Next]_vars =>
        [\A p \in Client : Reuse(p) =>
           /\ draft[p].analysed = source
           /\ reviews < draft[p].digest + 2 =>
                draft[p].reviewed = reviews]_vars
  BY <1>1
<1> QED
  BY <1>2, WholeInvariant, PTL DEF Spec, ReuseIsCurrent

-----------------------------------------------------------------------------
(* The triage.  That the file holds what was carried out rests on what the  *)
(* thread in the lock has in hand: all it holds is what was carried out,    *)
(* but for the entry it was asked to change.                                *)

\* The entry that is in force now: none when its time has come.
Shown(until) == IF until > now THEN until ELSE 0
Agree(t, u, a) == Shown(t[a]) = Shown(u[a])
Same(t, u) == \A a \in Action : Agree(t, u, a)

Filed ==
    IF file = NoState THEN wanted = NoTriage
    ELSE Loaded /\ Same(file.triage, wanted)

\* What a thread that is in a call has in hand.
InHand(p) ==
    /\ pc[p] # "write" => Filed
    /\ pc[p] \in {"load", "edit"} /\ job[p].kind # "refresh" => ~job[p].force
    /\ pc[p] \in {"sign", "analyse", "apply"} /\ job[p].kind # "refresh" =>
         job[p].force
    /\ pc[p] = "sign" => Same(Previous(p).triage, wanted)
    /\ pc[p] \in {"analyse", "apply", "edit"} => Same(draft[p].triage, wanted)
    /\ pc[p] \in {"truncate", "write"} =>
         \A a \in Action :
           \/ Agree(draft[p].triage, wanted, a)
           \/ job[p].kind # "refresh" /\ ~job[p].force /\ a = job[p].of

KeptInv ==
    /\ TypeOK
    /\ \A p \in Client : pc[p] \in {"idle", "load"} => draft[p] = NoState
    /\ \A w \in Watch : pc[w] = "write" => spoiled
    /\ ~spoiled => (lock = Free => Filed)
                   /\ \A p \in Thread : pc[p] # "idle" => InHand(p)

LEMMA NormalizedShows ==
    ASSUME NEW t \in Triage, now \in Nat
    PROVE  /\ \A a \in Action : Normalized(t)[a] = Shown(t[a])
           /\ \A a \in Action : Shown(Normalized(t)[a]) = Shown(t[a])
  BY AgentCenterConstants DEF Normalized, Shown, Triage, Forever

\* Maps that show the same are the same when normalised.
LEMMA SameIsNormalized ==
    ASSUME NEW t \in Triage, NEW u \in Triage, now \in Nat
    PROVE  Same(t, u) <=> Normalized(t) = Normalized(u)
<1>1. Normalized(t) = [a \in Action |-> Shown(t[a])]
      /\ Normalized(u) = [a \in Action |-> Shown(u[a])]
  BY DEF Normalized, Shown
<1> QED
  BY <1>1 DEF Same, Agree

\* A step of a client that leaves the triage alone, and the file.
LEMMA OneHand ==
    ASSUME KeptInv, TypeOK', NEW p \in Client,
           \A q \in Client : q # p =>
             pc'[q] = pc[q] /\ draft'[q] = draft[q] /\ job'[q] = job[q],
           now' = now, wanted' = wanted, file' = file, spoiled' = spoiled,
           pc'[p] \in {"idle", "load"} => draft'[p] = NoState,
           p \in Watch => pc'[p] # "write" /\ (lock' = Free => lock = Free),
           p \in Thread =>
             (~spoiled /\ (lock' = Free \/ pc'[p] # "idle") => Filed),
           p \in Thread /\ ~spoiled /\ pc'[p] # "idle" => InHand(p)'
    PROVE  KeptInv'
<1>1. Filed' = Filed
  BY DEF Filed, Loaded, Same, Agree, Shown
<1>2. ASSUME NEW q \in Thread, ~spoiled', pc'[q] # "idle" PROVE InHand(q)'
  <2>1. CASE q = p
    BY <1>2, <2>1
  <2>2. CASE q # p
    <3>1. InHand(q) /\ pc'[q] = pc[q] /\ draft'[q] = draft[q]
          /\ job'[q] = job[q]
      BY <1>2, <2>2 DEF KeptInv, Client
    <3>2. Previous(q)' = Previous(q)
      BY <3>1 DEF Previous, Blank
    <3> QED
      BY <1>1, <3>1, <3>2 DEF InHand, Same, Agree, Shown
  <2> QED
    BY <2>1, <2>2
<1>3. ~spoiled' /\ lock' = Free => Filed'
  BY <1>1 DEF KeptInv, Client
<1>4. \A q \in Client : pc'[q] \in {"idle", "load"} => draft'[q] = NoState
  BY DEF KeptInv
<1>5. \A w \in Watch : pc'[w] = "write" => spoiled'
  BY DEF KeptInv, Client
<1> QED
  BY <1>2, <1>3, <1>4, <1>5 DEF KeptInv

LEMMA KeptStep == KeptInv /\ [Next]_vars => KeptInv'
<1> SUFFICES ASSUME KeptInv, [Next]_vars PROVE KeptInv'
  OBVIOUS
<1>1. TypeOK /\ TypeOK'
  BY AgentTypes DEF KeptInv
<1>2. /\ now \in Nat /\ wanted \in Triage
      /\ Loaded => file.triage \in Triage
  BY <1>1, AgentCenterConstants DEF TypeOK, Loaded, State
<1>3. ASSUME NEW p \in Client
      PROVE  /\ pc[p] \in {"idle", "load"} => draft[p] = NoState
             /\ pc[p] # "idle" => job[p] \in Job
             /\ Previous(p) \in State
             /\ pc[p] \notin {"idle", "load", "sign"} => draft[p] \in State
             /\ pc[p] = "edit" => job[p].kind # "refresh"
             /\ p \in Thread /\ pc[p] # "idle" =>
                  /\ lock = p /\ p # Free
                  /\ ~spoiled => InHand(p)
  BY <1>1, BlankState, AgentCenterConstants DEF KeptInv, TypeOK, Previous
<1>4. /\ pc \in [Client -> {"idle", "load", "edit", "sign", "analyse",
                            "apply", "truncate", "write"}]
      /\ draft \in [Client -> State \cup {NoState}]
      /\ job \in [Client -> Job \cup {NoJob}]
  BY <1>1 DEF TypeOK
<1>5. \A s \in State : s.triage \in Triage
  BY DEF State
<1> USE DEF GoTo, Keep
\* A call that is over, and leaves the file alone.
<1>6. ASSUME NEW p \in Client, pc[p] \notin {"idle", "write"}, Leave(p),
             UNCHANGED <<now, file, wanted, spoiled>>
      PROVE  KeptInv'
  <2>1. /\ pc'[p] = "idle" /\ draft'[p] = NoState
        /\ \A q \in Client : q # p =>
             pc'[q] = pc[q] /\ draft'[q] = draft[q] /\ job'[q] = job[q]
    BY <1>4, <1>6 DEF Leave
  <2>2. p \in Watch => (lock' = Free => lock = Free)
    BY <1>1, <1>6, AgentCenterConstants DEF Leave, TypeOK
  <2>3. p \in Thread /\ ~spoiled => Filed
    BY <1>3, <1>6 DEF InHand
  <2> QED
    BY <1>1, <1>6, <2>1, <2>2, <2>3, OneHand
\* A step within a call.
<1>7. ASSUME NEW p \in Client, NEW at, NEW s, NEW j,
             pc[p] \notin {"idle", "write"},
             at \notin {"idle", "load", "write"},
             pc' = [pc EXCEPT ![p] = at], draft' = [draft EXCEPT ![p] = s],
             job' = [job EXCEPT ![p] = j],
             UNCHANGED <<now, file, wanted, spoiled, lock>>,
             p \in Thread /\ ~spoiled => InHand(p)'
      PROVE  KeptInv'
  <2>1. /\ pc'[p] = at /\ \A q \in Client : q # p =>
             pc'[q] = pc[q] /\ draft'[q] = draft[q] /\ job'[q] = job[q]
    BY <1>4, <1>7
  <2>2. p \in Thread /\ ~spoiled => Filed
    BY <1>3, <1>7 DEF InHand
  <2> QED
    BY <1>1, <1>7, <2>1, <2>2, OneHand
<1>8. ASSUME NEW p \in Client, NEW j \in Requests(p), Begin(p, j)
      PROVE  KeptInv'
  <2>1. /\ UNCHANGED <<now, file, wanted, spoiled>> /\ draft' = draft
        /\ pc[p] = "idle" /\ pc'[p] = "load" /\ job'[p] = j
        /\ \A q \in Client : q # p => pc'[q] = pc[q] /\ job'[q] = job[q]
        /\ p \in Thread => lock = Free
        /\ p \notin Thread => lock' = lock
    BY <1>4, <1>8 DEF Begin, Outside
  <2>2. p \in Thread /\ ~spoiled => Filed
    BY <2>1 DEF KeptInv
  <2>3. p \in Thread => (j.kind # "refresh" => ~j.force)
    BY DEF Requests
  <2>4. p \in Thread /\ ~spoiled => InHand(p)'
    BY <2>1, <2>2, <2>3 DEF InHand, Filed, Loaded, Same, Agree, Shown
  <2>5. p \in Watch => p \notin Thread
    BY AgentCenterConstants
  <2> QED
    BY <1>1, <1>3, <2>1, <2>2, <2>4, <2>5, OneHand
<1>9. ASSUME NEW p \in Client, Load(p) PROVE KeptInv'
  <2>1. /\ UNCHANGED <<now, file, wanted, spoiled>> /\ pc[p] = "load"
        /\ draft[p] = NoState /\ job[p] \in Job
    BY <1>3, <1>9 DEF Load, Outside
  <2>2. CASE Leave(p)
    BY <1>6, <2>1, <2>2
  <2>3. CASE /\ job[p].kind = "refresh" /\ UNCHANGED <<job, lock>>
             /\ pc' = [pc EXCEPT ![p] = "sign"]
             /\ draft' = [draft EXCEPT ![p] = IF Loaded THEN file
                                              ELSE NoState]
    <3>1. ASSUME p \in Thread, ~spoiled PROVE InHand(p)'
      <4>1. Filed
        BY <1>3, <2>1, <3>1 DEF InHand
      <4>2. pc'[p] = "sign" /\ job'[p] = job[p]
            /\ draft'[p] = IF Loaded THEN file ELSE NoState
        BY <1>4, <2>3
      <4>3. Same(Previous(p).triage, wanted)'
        BY <2>1, <4>1, <4>2
           DEF Filed, Loaded, Previous, Blank, Same, Agree, Shown
      <4> QED
        BY <2>1, <2>3, <4>1, <4>2, <4>3
           DEF InHand, Filed, Loaded, Same, Agree, Shown
    <3>2. job' = [job EXCEPT ![p] = job[p]]
      BY <1>4, <2>3
    <3> QED
      BY <1>7, <2>1, <2>3, <3>1, <3>2
  <2>4. CASE /\ Loaded /\ job[p].kind # "refresh"
             /\ UNCHANGED <<job, lock>>
             /\ pc' = [pc EXCEPT ![p] = "edit"]
             /\ draft' = [draft EXCEPT ![p] = file]
    <3>1. ASSUME p \in Thread, ~spoiled PROVE InHand(p)'
      <4>1. Filed /\ ~job[p].force
        BY <1>3, <2>1, <2>4, <3>1 DEF InHand
      <4>2. pc'[p] = "edit" /\ job'[p] = job[p] /\ draft'[p] = file
        BY <1>4, <2>4
      <4> QED
        BY <2>1, <2>4, <4>1, <4>2
           DEF InHand, Filed, Loaded, Same, Agree, Shown
    <3>2. job' = [job EXCEPT ![p] = job[p]]
      BY <1>4, <2>4
    <3> QED
      BY <1>7, <2>1, <2>4, <3>1, <3>2
  <2>5. CASE /\ ~Loaded /\ UNCHANGED <<draft, lock>>
             /\ pc' = [pc EXCEPT ![p] = "sign"]
             /\ job' = [job EXCEPT ![p].force = TRUE]
    <3> DEFINE j == [job[p] EXCEPT !.force = TRUE]
    <3>1. j.force = TRUE /\ job' = [job EXCEPT ![p] = j]
      BY <2>1, <2>5 DEF Job
    <3> HIDE DEF j
    <3>2. ASSUME p \in Thread, ~spoiled PROVE InHand(p)'
      <4>1. Filed
        BY <1>3, <2>1, <3>2 DEF InHand
      <4>2. pc'[p] = "sign" /\ job'[p].force = TRUE /\ draft'[p] = NoState
        BY <1>4, <2>1, <2>5, <3>1
      <4>3. Same(Previous(p).triage, wanted)'
        BY <2>1, <2>5, <4>1, <4>2
           DEF Filed, Previous, Blank, Same, Agree, Shown
      <4> QED
        BY <2>1, <4>1, <4>2, <4>3
           DEF InHand, Filed, Loaded, Same, Agree, Shown
    <3>3. draft' = [draft EXCEPT ![p] = draft[p]]
      BY <1>4, <2>5
    <3> QED
      BY <1>7, <2>1, <2>5, <3>1, <3>2, <3>3
  <2> QED
    BY <1>9, <2>2, <2>3, <2>4, <2>5 DEF Load, LoadForTriage
<1>10. ASSUME NEW p \in Client, Reuse(p) PROVE KeptInv'
  <2>1. /\ UNCHANGED <<now, file, wanted, spoiled>> /\ pc[p] = "sign"
        /\ draft[p] # NoState
    BY <1>10 DEF Reuse, MayReuse, Outside
  <2>2. CASE Leave(p)
    BY <1>6, <2>1, <2>2
  <2>3. CASE ~Leave(p)
    <3> DEFINE old == draft[p]
               s == [old EXCEPT !.triage = Normalized(old.triage)]
    <3>1. /\ pc' = [pc EXCEPT ![p] = "truncate"]
          /\ draft' = [draft EXCEPT ![p] = s] /\ UNCHANGED <<lock, job>>
      BY <1>10, <2>3 DEF Reuse
    <3>2. old \in State /\ s.triage = Normalized(old.triage)
          /\ old.triage \in Triage
      BY <1>4, <1>5, <2>1 DEF State
    <3>3. ASSUME p \in Thread, ~spoiled PROVE InHand(p)'
      <4>1. Filed /\ Same(old.triage, wanted)
        BY <1>3, <2>1, <3>3 DEF InHand, Previous
      <4>2. \A a \in Action : Agree(s.triage, wanted, a)
        BY <1>2, <3>2, <4>1, NormalizedShows DEF Same, Agree
      <4>3. pc'[p] = "truncate" /\ draft'[p] = s
        BY <1>4, <3>1
      <4> HIDE DEF s
      <4> QED
        BY <2>1, <4>1, <4>2, <4>3
           DEF InHand, Filed, Loaded, Same, Agree, Shown
    <3>4. job' = [job EXCEPT ![p] = job[p]]
      BY <1>4, <3>1
    <3> HIDE DEF s
    <3> QED
      BY <1>7, <2>1, <3>1, <3>3, <3>4
  <2> QED
    BY <2>2, <2>3
<1>11. ASSUME NEW p \in Client, Sign(p) PROVE KeptInv'
  <2> DEFINE old == Previous(p)
             s == [Blank EXCEPT !.signed = source, !.digest = reviews,
                     !.triage = Normalized(old.triage)]
  <2>1. /\ UNCHANGED <<now, file, wanted, spoiled, lock, job>>
        /\ pc[p] = "sign" /\ pc' = [pc EXCEPT ![p] = "analyse"]
        /\ draft' = [draft EXCEPT ![p] = s]
    BY <1>11 DEF Sign, Outside
  <2>2. old.triage \in Triage /\ s.triage = Normalized(old.triage)
    BY <1>3, <1>5, BlankState DEF State
  <2> HIDE DEF s
  <2>3. ASSUME p \in Thread, ~spoiled PROVE InHand(p)'
    <3>1. Filed /\ Same(old.triage, wanted)
          /\ (job[p].kind # "refresh" => job[p].force)
      BY <1>3, <2>1, <2>3 DEF InHand
    <3>2. Same(s.triage, wanted)
      BY <1>2, <2>2, <3>1, NormalizedShows DEF Same, Agree
    <3>3. pc'[p] = "analyse" /\ draft'[p] = s
      BY <1>4, <2>1
    <3> QED
      BY <2>1, <3>1, <3>2, <3>3
         DEF InHand, Filed, Loaded, Same, Agree, Shown
  <2>4. job' = [job EXCEPT ![p] = job[p]]
    BY <1>4, <2>1
  <2> QED
    BY <1>7, <2>1, <2>3, <2>4
<1>12. ASSUME NEW p \in Client, Analyse(p) PROVE KeptInv'
  <2> DEFINE old == draft[p]
             s == [old EXCEPT !.analysed = source]
  <2>1. /\ UNCHANGED <<now, file, wanted, spoiled, lock, job>>
        /\ pc[p] = "analyse" /\ pc' = [pc EXCEPT ![p] = "apply"]
        /\ draft' = [draft EXCEPT ![p] = s]
    BY <1>12 DEF Analyse, Outside
  <2>2. s.triage = old.triage
    BY <1>3, <2>1 DEF State
  <2> HIDE DEF s
  <2>3. ASSUME p \in Thread, ~spoiled PROVE InHand(p)'
    <3>1. Filed /\ Same(old.triage, wanted)
          /\ (job[p].kind # "refresh" => job[p].force)
      BY <1>3, <2>1, <2>3 DEF InHand
    <3>2. pc'[p] = "apply" /\ draft'[p] = s
      BY <1>4, <2>1
    <3> QED
      BY <2>1, <2>2, <3>1, <3>2
         DEF InHand, Filed, Loaded, Same, Agree, Shown
  <2>4. job' = [job EXCEPT ![p] = job[p]]
    BY <1>4, <2>1
  <2> QED
    BY <1>7, <2>1, <2>3, <2>4
<1>13. ASSUME NEW p \in Client, Apply(p) PROVE KeptInv'
  <2> DEFINE old == draft[p]
             s == [old EXCEPT !.reviewed = reviews,
                              !.triage = Normalized(old.triage)]
  <2>1. /\ UNCHANGED <<now, file, wanted, spoiled, lock, job>>
        /\ pc[p] = "apply" /\ pc' = [pc EXCEPT ![p] = "truncate"]
        /\ draft' = [draft EXCEPT ![p] = s]
    BY <1>13 DEF Apply, Outside
  <2>2. s.triage = Normalized(old.triage) /\ old.triage \in Triage
    BY <1>3, <1>5, <2>1 DEF State
  <2> HIDE DEF s
  <2>3. ASSUME p \in Thread, ~spoiled PROVE InHand(p)'
    <3>1. Filed /\ Same(old.triage, wanted)
      BY <1>3, <2>1, <2>3 DEF InHand
    <3>2. \A a \in Action : Agree(s.triage, wanted, a)
      BY <1>2, <2>2, <3>1, NormalizedShows DEF Same, Agree
    <3>3. pc'[p] = "truncate" /\ draft'[p] = s
      BY <1>4, <2>1
    <3> QED
      BY <2>1, <3>1, <3>2, <3>3
         DEF InHand, Filed, Loaded, Same, Agree, Shown
  <2>4. job' = [job EXCEPT ![p] = job[p]]
    BY <1>4, <2>1
  <2> QED
    BY <1>7, <2>1, <2>3, <2>4
<1>14. ASSUME NEW p \in Client, Edit(p) PROVE KeptInv'
  <2> DEFINE old == draft[p]
             s == [old EXCEPT !.triage = Triaged(old.triage, job[p])]
  <2>1. /\ UNCHANGED <<now, file, wanted, spoiled, lock, job>>
        /\ pc[p] = "edit" /\ pc' = [pc EXCEPT ![p] = "truncate"]
        /\ draft' = [draft EXCEPT ![p] = s]
    BY <1>14 DEF Edit, Outside
  <2>2. s.triage = Triaged(old.triage, job[p]) /\ old.triage \in Triage
    BY <1>3, <1>5, <2>1 DEF State
  <2>3. \A a \in Action : a # job[p].of =>
          s.triage[a] = Normalized(old.triage)[a]
    BY <1>2, <2>2, NormalizedTriage DEF Triaged, Triage
  <2> HIDE DEF s
  <2>4. ASSUME p \in Thread, ~spoiled PROVE InHand(p)'
    <3>1. /\ Filed /\ Same(old.triage, wanted)
          /\ job[p].kind # "refresh" /\ ~job[p].force
      BY <1>3, <2>1, <2>4 DEF InHand
    <3>2. \A a \in Action :
            a # job[p].of => Agree(s.triage, wanted, a)
      BY <1>2, <2>2, <2>3, <3>1, NormalizedShows DEF Same, Agree
    <3>3. pc'[p] = "truncate" /\ draft'[p] = s
      BY <1>4, <2>1
    <3> QED
      BY <2>1, <3>1, <3>2, <3>3
         DEF InHand, Filed, Loaded, Same, Agree, Shown
  <2>5. job' = [job EXCEPT ![p] = job[p]]
    BY <1>4, <2>1
  <2> QED
    BY <1>7, <2>1, <2>4, <2>5
<1>15. ASSUME NEW p \in Client, Truncate(p) PROVE KeptInv'
  <2>1. /\ now' = now /\ UNCHANGED <<lock, job, draft>>
        /\ pc[p] = "truncate" /\ pc'[p] = "write"
        /\ \A q \in Client : q # p => pc'[q] = pc[q]
        /\ p \in Thread => UNCHANGED <<wanted, spoiled>>
        /\ p \notin Thread => spoiled'
    BY <1>4, <1>15 DEF Truncate, Outside, Spoil
  <2>2. ASSUME ~spoiled'
        PROVE  /\ lock' = Free => Filed'
               /\ \A q \in Thread : pc'[q] # "idle" => InHand(q)'
    <3>1. p \in Thread /\ ~spoiled
      BY <2>1, <2>2
    <3>2. lock = p /\ p # Free /\ InHand(p)
      BY <1>3, <2>1, <3>1
    <3>3. InHand(p)'
      BY <2>1, <3>1, <3>2 DEF InHand, Agree, Shown
    <3>4. \A q \in Thread : q # p => pc'[q] = "idle"
      BY <1>1, <2>1, <3>2 DEF TypeOK, Client
    <3> QED
      BY <2>1, <3>2, <3>3, <3>4
  <2>3. \A q \in Client : pc'[q] \in {"idle", "load"} => draft'[q] = NoState
    BY <1>3, <2>1
  <2>4. \A w \in Watch : pc'[w] = "write" => spoiled'
    BY <2>1, AgentCenterConstants DEF KeptInv, Client
  <2> QED
    BY <1>1, <2>2, <2>3, <2>4 DEF KeptInv
<1>16. ASSUME NEW p \in Client, Write(p) PROVE KeptInv'
  <2>1. /\ now' = now /\ file' = draft[p] /\ spoiled' = spoiled
        /\ pc[p] = "write" /\ draft[p] \in State /\ job[p] \in Job
    BY <1>3, <1>16 DEF Write, Outside
  <2>2. /\ pc'[p] \in {"idle", "edit"}
        /\ pc'[p] = "idle" => draft'[p] = NoState
        /\ \A q \in Client : q # p =>
             pc'[q] = pc[q] /\ draft'[q] = draft[q] /\ job'[q] = job[q]
    BY <1>4, <1>16 DEF Write, Leave
  <2>3. ASSUME ~spoiled'
        PROVE  /\ lock' = Free => Filed'
               /\ \A q \in Thread : pc'[q] # "idle" => InHand(q)'
    <3>1. p \in Thread /\ ~spoiled
      BY <2>1, <2>3 DEF KeptInv, Client
    <3>2. lock = p /\ p # Free /\ InHand(p)
      BY <1>3, <2>1, <3>1
    <3>3. \A q \in Thread : q # p => pc'[q] = "idle"
      BY <1>1, <2>2, <3>2 DEF TypeOK, Client
    <3>4. file' # NoState /\ Loaded'
      BY <2>1, AgentCenterFile DEF Loaded
    <3>5. CASE job[p].kind # "refresh" /\ job[p].force
      <4>1. /\ UNCHANGED <<lock, draft, wanted>> /\ pc'[p] = "edit"
            /\ job' = [job EXCEPT ![p].force = FALSE]
        BY <1>4, <1>16, <3>5 DEF Write
      <4>2. job'[p].force = FALSE
        BY <1>4, <2>1, <4>1 DEF Job
      <4>3. Same(draft[p].triage, wanted)
        BY <2>1, <3>2, <3>5 DEF InHand, Same
      <4>4. Same(draft[p].triage, wanted)'
        BY <2>1, <4>1, <4>3 DEF Same, Agree, Shown
      <4>5. Same(file.triage, wanted)'
        BY <2>1, <4>1, <4>4
      <4>6. InHand(p)'
        BY <3>4, <4>1, <4>2, <4>4, <4>5 DEF InHand, Filed
      <4>7. lock' # Free
        BY <3>2, <4>1
      <4>8. ASSUME NEW q \in Thread, pc'[q] # "idle" PROVE InHand(q)'
        <5>1. q = p
          BY <3>3, <4>8
        <5> QED
          BY <4>6, <5>1
      <4> QED
        BY <4>7, <4>8
    <3>6. CASE ~(job[p].kind # "refresh" /\ job[p].force)
      <4>1. Leave(p) /\ wanted' = IF job[p].kind = "refresh" THEN wanted
                                  ELSE [wanted EXCEPT ![job[p].of] =
                                          draft[p].triage[job[p].of]]
        BY <1>16, <3>1, <3>6 DEF Write
      <4>2. \A a \in Action :
              \/ Agree(draft[p].triage, wanted, a)
              \/ job[p].kind # "refresh" /\ a = job[p].of
        BY <2>1, <3>2 DEF InHand
      <4>3. ASSUME NEW a \in Action
            PROVE  Shown(draft[p].triage[a]) = Shown(wanted'[a])
        <5>1. CASE job[p].kind = "refresh"
          BY <4>1, <4>2, <5>1 DEF Agree
        <5>2. CASE job[p].kind # "refresh" /\ a = job[p].of
          BY <1>2, <4>1, <5>2 DEF Triage
        <5>3. CASE job[p].kind # "refresh" /\ a # job[p].of
          <6>1. wanted'[a] = wanted[a]
            BY <1>2, <4>1, <5>3 DEF Triage
          <6> QED
            BY <4>2, <5>3, <6>1 DEF Agree
        <5> QED
          BY <5>1, <5>2, <5>3
      <4>4. Same(file.triage, wanted)'
        BY <2>1, <4>3 DEF Same, Agree, Shown
      <4>5. pc'[p] = "idle"
        BY <1>4, <4>1 DEF Leave
      <4> QED
        BY <3>3, <3>4, <4>4, <4>5 DEF Filed
    <3> QED
      BY <3>5, <3>6
  <2>4. \A q \in Client : pc'[q] \in {"idle", "load"} => draft'[q] = NoState
    BY <1>3, <2>2
  <2>5. \A w \in Watch : pc'[w] = "write" => spoiled'
    BY <2>1, <2>2 DEF KeptInv, Client
  <2> QED
    BY <1>1, <2>3, <2>4, <2>5 DEF KeptInv
<1>17. ASSUME NEW p \in Client, Fail(p) PROVE KeptInv'
  <2>1. CASE pc[p] # "write"
    BY <1>6, <1>17, <2>1 DEF Fail
  <2>2. CASE pc[p] = "write"
    <3>1. spoiled' /\ Leave(p)
      BY <1>17, <2>2 DEF Fail, Spoil
    <3>2. \A q \in Client :
            pc'[q] \in {"idle", "load"} => draft'[q] = NoState
      BY <1>3, <1>4, <3>1 DEF Leave
    <3> QED
      BY <1>1, <3>1, <3>2 DEF KeptInv
  <2> QED
    BY <2>1, <2>2
<1>18. CASE EditSource \/ ChangeReview \/ Tick \/ UNCHANGED vars
  <2>1. /\ now' = now \/ now' = now + 1
        /\ UNCHANGED <<file, lock, pc, job, draft, wanted, spoiled>>
    BY <1>18 DEF EditSource, ChangeReview, Tick, vars
  <2>2. ASSUME NEW s \in State, NEW a \in Action, Agree(s.triage, wanted, a)
        PROVE  Shown(s.triage[a])' = Shown(wanted[a])'
    <3> DEFINE t == s.triage
    <3>1. t \in Triage
      BY <1>5
    <3>2. (IF t[a] > now THEN t[a] ELSE 0)
            = (IF wanted[a] > now THEN wanted[a] ELSE 0)
      BY <2>2 DEF Agree, Shown
    <3>3. t[a] \in Nat /\ wanted[a] \in Nat
      BY <1>2, <3>1, AgentCenterConstants DEF Triage, Forever
    <3> HIDE DEF t
    <3>4. (IF t[a] > now' THEN t[a] ELSE 0)
            = (IF wanted[a] > now' THEN wanted[a] ELSE 0)
      BY <1>2, <2>1, <3>2, <3>3
    <3> QED
      BY <2>1, <3>4 DEF Shown, t
  <2>3. Filed => Filed'
    <3>1. Loaded => file \in State
      BY <1>1 DEF TypeOK, Loaded
    <3> QED
      BY <2>1, <2>2, <3>1 DEF Filed, Loaded, Same, Agree
  <2>4. ASSUME NEW p \in Thread, pc[p] # "idle", InHand(p)
        PROVE  InHand(p)'
    <3>1. /\ Previous(p) \in State
          /\ pc[p] \notin {"idle", "load", "sign"} => draft[p] \in State
      BY <1>3 DEF Client
    <3>2. Previous(p)' = Previous(p)
      BY <2>1 DEF Previous, Blank
    <3>3. pc[p] = "sign" => Same(Previous(p).triage, wanted)'
      BY <2>1, <2>2, <2>4, <3>1, <3>2 DEF InHand, Same, Agree
    <3>4. pc[p] \in {"analyse", "apply", "edit"} =>
            Same(draft[p].triage, wanted)'
      BY <2>1, <2>2, <2>4, <3>1 DEF InHand, Same, Agree
    <3>5. pc[p] \in {"truncate", "write"} =>
            \A a \in Action :
              \/ Agree(draft[p].triage, wanted, a)'
              \/ job[p].kind # "refresh" /\ ~job[p].force /\ a = job[p].of
      BY <2>1, <2>2, <2>4, <3>1 DEF InHand, Agree
    <3> QED
      BY <2>1, <2>3, <2>4, <3>3, <3>4, <3>5 DEF InHand
  <2> QED
    BY <1>1, <2>1, <2>3, <2>4 DEF KeptInv
<1> QED
  BY <1>8, <1>9, <1>10, <1>11, <1>12, <1>13, <1>14, <1>15, <1>16, <1>17,
     <1>18 DEF Next, Work, Ask

LEMMA KeptInvariant == Spec => []KeptInv
<1>1. Init => KeptInv
  BY AgentInit DEF Init, KeptInv, Filed, Client
<1> QED
  BY <1>1, KeptStep, PTL DEF Spec

\* While only the service writes, and none of its calls ends in the middle of
\* a write, the file holds the triage the service carried out.
THEOREM ServiceKeepsTriage == Spec => []TriageKept
<1>1. KeptInv => TriageKept
  <2> SUFFICES ASSUME KeptInv, lock = Free, ~spoiled, file # NoState
               PROVE  /\ Loaded
                      /\ Normalized(file.triage) = Normalized(wanted)
    BY DEF KeptInv, TriageKept, Filed
  <2>1. Loaded /\ Same(file.triage, wanted)
    BY DEF KeptInv, Filed
  <2>2. now \in Nat /\ wanted \in Triage /\ file.triage \in Triage
    BY <2>1, AgentCenterConstants DEF KeptInv, TypeOK, Loaded, State
  <2> QED
    BY <2>1, <2>2, SameIsNormalized
<1> QED
  BY <1>1, KeptInvariant, PTL

=============================================================================
