------------------------- MODULE LocalDecisionsProofs -------------------------
(***************************************************************************)
(* For every number of processes and decisions and for every limit: what   *)
(* was acknowledged is kept until a lock is overdue, no finding ever has   *)
(* two standing decisions, authoring implements the decision ledger, and   *)
(* what ends the growth of the store is the loader's limit on bytes.       *)
(***************************************************************************)
EXTENDS LocalDecisions, FiniteSetTheorems, TLAPS

-----------------------------------------------------------------------------
(* The operators.                                                          *)

\* A change of a bundle is a bundle, and nothing is ever removed or unrevoked.
LEMMA ChangedKeeps ==
    ASSUME NEW s \in Bundle, NEW c \in Call, Possible(s, c)
    PROVE  /\ Changed(s, c) \in Bundle
           /\ \A d \in Decision :
                /\ s[d] # "absent" => Changed(s, c)[d] # "absent"
                /\ s[d] = "revoked" => Changed(s, c)[d] = "revoked"
           /\ c.op = "record" => Changed(s, c)[c.of] # "absent"
           /\ c.op = "restore" => Changed(s, c)[c.of] = "revoked"
<1>1. CASE c.op = "record"
  BY <1>1 DEF Changed, Superseded, Possible, Bundle, Call
<1>2. CASE c.op = "restore"
  BY <1>2 DEF Changed, Possible, Bundle, Call
<1> QED
  BY <1>1, <1>2 DEF Call

\* A new decision supersedes the standing one on the same finding.
LEMMA ChangedOnePerKey ==
    ASSUME NEW s \in Bundle, NEW c \in Call, Ledger!OnePerKey(s)
    PROVE  Ledger!OnePerKey(Changed(s, c))
<1>1. CASE c.op = "record"
  BY <1>1 DEF Changed, Superseded, Ledger!OnePerKey, Bundle, Call
<1>2. CASE c.op = "restore"
  BY <1>2 DEF Changed, Ledger!OnePerKey, Bundle, Call
<1> QED
  BY <1>1, <1>2 DEF Call

-----------------------------------------------------------------------------
(* The inductive invariant.                                                *)

\* Until a lock is overdue one process is in the section, and nobody else has
\* saved since it read.
Serialized ==
    ~overdue =>
      /\ \A p, q \in holders : p = q
      /\ \A p \in Process : pc[p] = "writing" => view[p] = store

\* A copy about to be saved allows the change, and is as unambiguous as the
\* store it was read from.
CopiesChecked ==
    \A p \in Process :
      pc[p] = "writing" =>
        Possible(view[p], call[p]) /\ Ledger!OnePerKey(view[p])

\* What a process is about to acknowledge is in the store.
SavedIsStored ==
    ~overdue =>
      \A p \in Process : pc[p] = "saved" =>
        /\ call[p].op = "record" => store[call[p].of] # "absent"
        /\ call[p].op = "restore" => store[call[p].of] = "revoked"

DecisionsInv ==
    /\ TypeOK
    /\ Serialized
    /\ CopiesChecked
    /\ SavedIsStored
    /\ AcknowledgedKept
    /\ NeverAmbiguous

LEMMA DecisionsInit == Init => DecisionsInv
<1> SUFFICES ASSUME Init PROVE DecisionsInv
  OBVIOUS
<1>1. TypeOK
  BY DEF Init, TypeOK, Bundle, Lock!Init
<1>2. NeverAmbiguous
  BY DEF Init, NeverAmbiguous, Ledger!OnePerKey
<1> QED
  BY <1>1, <1>2
     DEF Init, DecisionsInv, Serialized, CopiesChecked, SavedIsStored,
         AcknowledgedKept, Lock!Init

LEMMA DecisionsTypes ==
    ASSUME TypeOK, CopiesChecked, [Next]_vars
    PROVE  TypeOK'
<1> USE DEF TypeOK, GoTo
<1>1. ASSUME NEW p \in Process, NEW c \in Call, Begin(p, c) PROVE TypeOK'
  BY <1>1 DEF Begin
<1>2. ASSUME NEW p \in Process, Acquire(p) PROVE TypeOK'
  BY <1>2 DEF Acquire, Lock!Enter
<1>3. ASSUME NEW p \in Process, Busy(p) PROVE TypeOK'
  BY <1>3 DEF Busy, Return
<1>4. ASSUME NEW p \in Process, Read(p) PROVE TypeOK'
  <2>1. CASE Readable(store) /\ Possible(store, call[p])
    BY <1>4, <2>1 DEF Read
  <2>2. CASE ~(Readable(store) /\ Possible(store, call[p]))
    BY <1>4, <2>2 DEF Read
  <2> QED
    BY <2>1, <2>2
<1>5. ASSUME NEW p \in Process, Write(p) PROVE TypeOK'
  <2>1. store' \in Bundle
    BY <1>5, ChangedKeeps DEF Write, CopiesChecked
  <2> QED
    BY <1>5, <2>1 DEF Write
<1>6. ASSUME NEW p \in Process, WriteFails(p) PROVE TypeOK'
  BY <1>6 DEF WriteFails
<1>7. ASSUME NEW p \in Process, Acknowledge(p) PROVE TypeOK'
  <2>1. recorded' \in SUBSET Decision /\ restored' \in SUBSET Decision
    BY <1>7 DEF Acknowledge, Call
  <2> QED
    BY <1>7, <2>1 DEF Acknowledge, Return, Lock!Leave
<1>8. ASSUME NEW p \in Process, Refuse(p) PROVE TypeOK'
  BY <1>8 DEF Refuse, Return, Lock!Leave
<1>9. ASSUME NEW p \in Process, Crash(p) PROVE TypeOK'
  <2>1. CASE p \in holders
    BY <1>9, <2>1 DEF Crash, Return, Lock!Leave
  <2>2. CASE p \notin holders
    BY <1>9, <2>2 DEF Crash, Return
  <2> QED
    BY <2>1, <2>2
<1>10. CASE LockGrowsOld
  BY <1>10 DEF LockGrowsOld, Lock!BecomeOverdue
<1>11. CASE UNCHANGED vars
  BY <1>11 DEF vars
<1> QED
  BY <1>1, <1>2, <1>3, <1>4, <1>5, <1>6, <1>7, <1>8, <1>9, <1>10, <1>11
     DEF Next, Step

\* The lock admits one process, and only that process saves.
LEMMA StaysSerialized ==
    ASSUME TypeOK, Serialized, [Next]_vars
    PROVE  Serialized'
<1> USE DEF TypeOK, Serialized, GoTo
<1>1. ASSUME NEW p \in Process, NEW c \in Call, Begin(p, c)
      PROVE  Serialized'
  BY <1>1 DEF Begin
<1>2. ASSUME NEW p \in Process, Acquire(p) PROVE Serialized'
  BY <1>2 DEF Acquire, Lock!Enter
<1>3. ASSUME NEW p \in Process, Busy(p) PROVE Serialized'
  BY <1>3 DEF Busy, Return
<1>4. ASSUME NEW p \in Process, Read(p) PROVE Serialized'
  BY <1>4 DEF Read
<1>5. ASSUME NEW p \in Process, Write(p) PROVE Serialized'
  <2>1. /\ p \in holders /\ holders' = holders /\ overdue' = overdue
        /\ pc'[p] = "saved"
        /\ \A q \in Process : q # p => pc'[q] = pc[q]
    BY <1>5 DEF Write
  <2>2. ~overdue => \A q \in Process : q # p => pc[q] # "writing"
    BY <2>1
  <2> QED
    BY <2>1, <2>2
<1>6. ASSUME NEW p \in Process, WriteFails(p) PROVE Serialized'
  BY <1>6 DEF WriteFails
<1>7. ASSUME NEW p \in Process, Acknowledge(p) \/ Refuse(p)
      PROVE  Serialized'
  BY <1>7 DEF Acknowledge, Refuse, Return, Lock!Leave
<1>8. ASSUME NEW p \in Process, Crash(p) PROVE Serialized'
  BY <1>8 DEF Crash, Return, Lock!Leave
<1>9. CASE LockGrowsOld
  BY <1>9 DEF LockGrowsOld, Lock!BecomeOverdue
<1>10. CASE UNCHANGED vars
  BY <1>10 DEF vars
<1> QED
  BY <1>1, <1>2, <1>3, <1>4, <1>5, <1>6, <1>7, <1>8, <1>9, <1>10
     DEF Next, Step

\* The checks of a request are made on the copy that is saved.
LEMMA StayChecked ==
    ASSUME TypeOK, CopiesChecked, NeverAmbiguous, [Next]_vars
    PROVE  CopiesChecked'
<1> USE DEF TypeOK, CopiesChecked, GoTo, NeverAmbiguous
<1>1. ASSUME NEW p \in Process,
             \/ \E c \in Call : Begin(p, c)
             \/ Acquire(p) \/ Busy(p) \/ Write(p) \/ WriteFails(p)
             \/ Acknowledge(p) \/ Refuse(p) \/ Crash(p)
      PROVE  CopiesChecked'
  <2>1. pc'[p] # "writing"
    BY <1>1 DEF Begin, Acquire, Busy, Write, WriteFails, Acknowledge, Refuse,
         Crash, Return
  <2>2. \A q \in Process : q # p =>
          pc'[q] = pc[q] /\ call'[q] = call[q] /\ view'[q] = view[q]
    BY <1>1 DEF Begin, Acquire, Busy, Write, WriteFails, Acknowledge, Refuse,
         Crash, Return
  <2> QED
    BY <2>1, <2>2
<1>2. ASSUME NEW p \in Process, Read(p) PROVE CopiesChecked'
  <2>1. \A q \in Process : q # p =>
          pc'[q] = pc[q] /\ call'[q] = call[q] /\ view'[q] = view[q]
    BY <1>2 DEF Read
  <2>2. pc'[p] = "writing" =>
          /\ Possible(store, call[p])
          /\ view'[p] = store /\ call'[p] = call[p]
    BY <1>2 DEF Read
  <2> QED
    BY <2>1, <2>2
<1>3. CASE LockGrowsOld
  BY <1>3 DEF LockGrowsOld
<1>4. CASE UNCHANGED vars
  BY <1>4 DEF vars
<1> QED
  BY <1>1, <1>2, <1>3, <1>4 DEF Next, Step

\* The store changes by one legal change of itself, or a lock is overdue.
LEMMA StoreOnlyGrows ==
    ASSUME TypeOK, Serialized, CopiesChecked, [Next]_vars, ~overdue
    PROVE  \A d \in Decision :
             /\ store[d] # "absent" => store'[d] # "absent"
             /\ store[d] = "revoked" => store'[d] = "revoked"
<1>1. ASSUME NEW p \in Process, Write(p)
      PROVE  \A d \in Decision :
               /\ store[d] # "absent" => store'[d] # "absent"
               /\ store[d] = "revoked" => store'[d] = "revoked"
  <2>1. /\ view[p] = store /\ Possible(store, call[p]) /\ call[p] \in Call
        /\ store' = Changed(store, call[p])
    BY <1>1 DEF Write, TypeOK, Serialized, CopiesChecked
  <2> QED
    BY <2>1, ChangedKeeps DEF TypeOK
<1>2. (\A p \in Process : ~Write(p)) => store' = store
  BY DEF Next, Step, Begin, Acquire, Busy, Read, WriteFails, Acknowledge,
     Refuse, Crash, LockGrowsOld, vars
<1> QED
  BY <1>1, <1>2

\* What is about to be acknowledged was just saved, and stays.
LEMMA StaysStored ==
    ASSUME TypeOK, Serialized, CopiesChecked, SavedIsStored, [Next]_vars
    PROVE  SavedIsStored'
<1> SUFFICES ASSUME ~overdue', NEW p \in Process, pc'[p] = "saved"
             PROVE  /\ call'[p].op = "record" =>
                         store'[call'[p].of] # "absent"
                    /\ call'[p].op = "restore" =>
                         store'[call'[p].of] = "revoked"
  BY DEF SavedIsStored
<1>1. ~overdue
  BY DEF TypeOK, Next, Step, Begin, Acquire, Busy, Read, Write, WriteFails,
     Acknowledge, Refuse, Crash, LockGrowsOld, Lock!Enter, Lock!Leave,
     Lock!BecomeOverdue, vars
<1>2. CASE Write(p)
  <2>1. /\ view[p] = store /\ Possible(store, call[p]) /\ call[p] \in Call
        /\ store' = Changed(store, call[p]) /\ call'[p] = call[p]
    BY <1>1, <1>2 DEF Write, TypeOK, Serialized, CopiesChecked
  <2> QED
    BY <2>1, ChangedKeeps DEF TypeOK
<1>3. CASE ~Write(p)
  <2>1. pc[p] = "saved" /\ call'[p] = call[p]
    <3>1. ASSUME NEW q \in Process, Step(q) \/ Crash(q), q # p
          PROVE  pc'[p] = pc[p] /\ call'[p] = call[p]
      BY <3>1 DEF TypeOK, Step, Begin, Acquire, Busy, Read, Write, WriteFails,
           Acknowledge, Refuse, Crash, Return, GoTo
    <3>2. ~Step(p) /\ ~Crash(p)
      BY <1>3 DEF TypeOK, Step, Begin, Acquire, Busy, Read, WriteFails,
           Acknowledge, Refuse, Crash, Return, GoTo
    <3>3. LockGrowsOld \/ UNCHANGED vars =>
            pc'[p] = pc[p] /\ call'[p] = call[p]
      BY DEF LockGrowsOld, vars
    <3> QED
      BY <3>1, <3>2, <3>3 DEF Next
  <2>2. call[p] \in Call
    BY <2>1 DEF TypeOK
  <2> QED
    BY <1>1, <2>1, <2>2, StoreOnlyGrows DEF SavedIsStored, Call
<1> QED
  BY <1>2, <1>3

\* What was acknowledged was stored, and stays.
LEMMA StaysKept ==
    ASSUME TypeOK, Serialized, CopiesChecked, SavedIsStored,
           AcknowledgedKept, [Next]_vars
    PROVE  AcknowledgedKept'
<1> SUFFICES ASSUME ~overdue'
             PROVE  /\ \A d \in recorded' : store'[d] # "absent"
                    /\ \A d \in restored' : store'[d] = "revoked"
  BY DEF AcknowledgedKept
<1>1. ~overdue
  BY DEF TypeOK, Next, Step, Begin, Acquire, Busy, Read, Write, WriteFails,
     Acknowledge, Refuse, Crash, LockGrowsOld, Lock!Enter, Lock!Leave,
     Lock!BecomeOverdue, vars
<1>2. ASSUME NEW p \in Process, Acknowledge(p)
      PROVE  /\ \A d \in recorded' : store[d] # "absent"
             /\ \A d \in restored' : store[d] = "revoked"
  <2>1. pc[p] = "saved" /\ call[p] \in Call
    BY <1>2 DEF Acknowledge, TypeOK
  <2> QED
    BY <1>1, <1>2, <2>1
       DEF Acknowledge, SavedIsStored, AcknowledgedKept, Call
<1>3. (\A p \in Process : ~Acknowledge(p)) =>
        recorded' = recorded /\ restored' = restored
  BY DEF Next, Step, Begin, Acquire, Busy, Read, Write, WriteFails,
     Refuse, Crash, LockGrowsOld, vars
<1>4. recorded' \subseteq Decision /\ restored' \subseteq Decision
  BY DecisionsTypes DEF TypeOK
<1>5. /\ \A d \in recorded' : store[d] # "absent"
      /\ \A d \in restored' : store[d] = "revoked"
  BY <1>1, <1>2, <1>3 DEF AcknowledgedKept
<1> QED
  BY <1>1, <1>4, <1>5, StoreOnlyGrows

\* Every save leaves one standing decision per finding.
LEMMA StaysUnambiguous ==
    ASSUME TypeOK, CopiesChecked, NeverAmbiguous, [Next]_vars
    PROVE  NeverAmbiguous'
<1>1. ASSUME NEW p \in Process, Write(p) PROVE NeverAmbiguous'
  <2>1. /\ view[p] \in Bundle /\ call[p] \in Call
        /\ Ledger!OnePerKey(view[p]) /\ store' = Changed(view[p], call[p])
    BY <1>1 DEF Write, TypeOK, CopiesChecked
  <2>2. Ledger!OnePerKey(Changed(view[p], call[p]))
    BY <2>1, ChangedOnePerKey
  <2> QED
    BY <2>1, <2>2 DEF NeverAmbiguous, Ledger!OnePerKey
<1>2. (\A p \in Process : ~Write(p)) => store' = store
  BY DEF Next, Step, Begin, Acquire, Busy, Read, WriteFails, Acknowledge,
     Refuse, Crash, LockGrowsOld, vars
<1> QED
  BY <1>1, <1>2 DEF NeverAmbiguous, Ledger!OnePerKey

LEMMA DecisionsInvariant == Spec => []DecisionsInv
<1>1. DecisionsInv /\ [Next]_vars => DecisionsInv'
  BY DecisionsTypes, StaysSerialized, StayChecked, StaysStored, StaysKept,
     StaysUnambiguous DEF DecisionsInv
<1> QED
  BY <1>1, DecisionsInit, PTL DEF Spec

-----------------------------------------------------------------------------

\* Every variable keeps its type, and the section holds whoever is in it.
THEOREM DecisionsTypeCorrect == Spec => []TypeOK
<1>1. DecisionsInv => TypeOK
  BY DEF DecisionsInv
<1> QED
  BY <1>1, DecisionsInvariant, PTL

\* A recorded decision stays recorded and a restored one restored, as long as
\* no lock is overdue (review_decisions.py:826-941).
THEOREM AcknowledgementsHold == Spec => []AcknowledgedKept
<1>1. DecisionsInv => AcknowledgedKept
  BY DEF DecisionsInv
<1> QED
  BY <1>1, DecisionsInvariant, PTL

\* No finding has two standing local decisions, not even after robbed writers
\* have saved what they read long ago.
THEOREM OneStandingDecision == Spec => []NeverAmbiguous
<1>1. DecisionsInv => NeverAmbiguous
  BY DEF DecisionsInv
<1> QED
  BY <1>1, DecisionsInvariant, PTL

\* Authoring implements the ledger: a save is one Record or one Restore on the
\* decisions of that moment, or a lapse after a lock became overdue.
THEOREM AuthoringImplementsLedger == Spec => ImplementsLedger
<1>1. Init => Ledger!Init
  BY DEF Init, Lock!Init, Ledger!Init
<1>2. DecisionsInv /\ DecisionsInv' /\ [Next]_vars
        => [Ledger!Next]_Ledger!vars
  <2> SUFFICES ASSUME DecisionsInv, DecisionsInv', [Next]_vars
               PROVE  [Ledger!Next]_Ledger!vars
    OBVIOUS
  <2> USE DEF DecisionsInv
  <2>1. ASSUME NEW p \in Process, Write(p) PROVE Ledger!Next
    <3> DEFINE c == call[p]
    <3>1. /\ view[p] \in Bundle /\ c \in Call /\ c.of \in Decision
          /\ c.op \in {"record", "restore"} /\ Possible(view[p], c)
          /\ store' = Changed(view[p], c) /\ overdue' = overdue
      BY <2>1 DEF Write, TypeOK, CopiesChecked, Call
    <3>2. CASE overdue
      BY <3>1, <3>2
         DEF Ledger!Next, Ledger!Lapse, Ledger!Status, Ledger!OnePerKey,
             NeverAmbiguous, TypeOK, Bundle
    <3>3. CASE ~overdue /\ c.op = "record"
      <4>1. view[p] = store /\ store[c.of] = "absent"
        BY <2>1, <3>1, <3>3 DEF Write, Serialized, Possible
      <4>2. store' = Ledger!Superseded(store, c.of)
        BY <3>1, <3>3, <4>1 DEF Changed, Superseded, Ledger!Superseded
      <4> QED
        BY <3>1, <4>1, <4>2 DEF Ledger!Next, Ledger!Record
    <3>4. CASE ~overdue /\ c.op = "restore"
      <4>1. view[p] = store /\ store[c.of] = "standing"
        BY <2>1, <3>1, <3>4 DEF Write, Serialized, Possible
      <4> QED
        BY <3>1, <3>4, <4>1 DEF Changed, Ledger!Next, Ledger!Restore
    <3> QED
      BY <3>1, <3>2, <3>3, <3>4
  <2>2. ASSUME NEW p \in Process,
               \/ \E c \in Call : Begin(p, c)
               \/ Acquire(p) \/ Busy(p) \/ Read(p) \/ WriteFails(p)
               \/ Acknowledge(p) \/ Refuse(p) \/ Crash(p)
        PROVE  UNCHANGED Ledger!vars
    BY <2>2 DEF Begin, Acquire, Busy, Read, WriteFails, Acknowledge, Refuse,
         Crash, Lock!Enter, Lock!Leave, Ledger!vars
  <2>3. CASE LockGrowsOld
    BY <2>3 DEF LockGrowsOld, Lock!BecomeOverdue, Ledger!Next,
         Ledger!BecomeOverdue
  <2>4. CASE UNCHANGED vars
    BY <2>4 DEF vars, Ledger!vars
  <2> QED
    BY <2>1, <2>2, <2>3, <2>4 DEF Next, Step
<1> QED
  BY <1>1, <1>2, DecisionsInvariant, PTL
     DEF Spec, ImplementsLedger, Ledger!Spec

-----------------------------------------------------------------------------
(* The limits of the store.                                                *)

WithinLimit(s) ==
    IsFiniteSet(Stored(s)) /\ Cardinality(Stored(s)) <= MaxDecisions

\* The store and every copy of it hold at most MAX_DECISIONS decisions, and a
\* copy was small enough to be loaded, robbed writers included.
LimitsInv ==
    /\ WithinLimit(store)
    /\ \A p \in Process :
         pc[p] = "writing" => WithinLimit(view[p]) /\ Readable(view[p])

\* A possible change stays within the limit.
LEMMA ChangedWithinLimit ==
    ASSUME NEW s \in Bundle, NEW c \in Call, Possible(s, c), WithinLimit(s)
    PROVE  WithinLimit(Changed(s, c))
<1>1. CASE c.op = "record"
  <2>1. Stored(Changed(s, c)) = Stored(s) \cup {c.of}
    BY <1>1 DEF Stored, Changed, Superseded, Possible, Bundle, Call
  <2>2. c.of \notin Stored(s) /\ Cardinality(Stored(s)) < MaxDecisions
    BY <1>1 DEF Stored, Possible
  <2>3. /\ IsFiniteSet(Stored(s) \cup {c.of})
        /\ Cardinality(Stored(s) \cup {c.of}) = Cardinality(Stored(s)) + 1
    BY <2>2, FS_AddElement DEF WithinLimit
  <2>4. Cardinality(Stored(s)) \in Nat
    BY FS_CardinalityType DEF WithinLimit
  <2> QED
    BY <2>1, <2>2, <2>3, <2>4, LocalDecisionsConstants DEF WithinLimit
<1>2. CASE c.op = "restore"
  <2>1. Stored(Changed(s, c)) = Stored(s)
    BY <1>2 DEF Stored, Changed, Possible, Bundle, Call
  <2> QED
    BY <2>1 DEF WithinLimit
<1> QED
  BY <1>1, <1>2 DEF Call

LEMMA LimitsInit == Init => LimitsInv
<1> SUFFICES ASSUME Init PROVE LimitsInv
  OBVIOUS
<1>1. Stored(store) = {}
  BY DEF Init, Stored
<1> QED
  BY <1>1, FS_EmptySet, LocalDecisionsConstants
     DEF Init, LimitsInv, WithinLimit

LEMMA LimitsStay ==
    ASSUME DecisionsInv, LimitsInv, [Next]_vars
    PROVE  LimitsInv'
<1> USE DEF DecisionsInv, TypeOK, GoTo
<1>1. ASSUME NEW p \in Process,
             \/ \E c \in Call : Begin(p, c)
             \/ Acquire(p) \/ Busy(p) \/ WriteFails(p)
             \/ Acknowledge(p) \/ Refuse(p) \/ Crash(p)
      PROVE  LimitsInv'
  <2>1. pc'[p] # "writing" /\ store' = store
    BY <1>1 DEF Begin, Acquire, Busy, WriteFails, Acknowledge, Refuse, Crash,
         Return
  <2>2. \A q \in Process : q # p => pc'[q] = pc[q] /\ view'[q] = view[q]
    BY <1>1 DEF Begin, Acquire, Busy, WriteFails, Acknowledge, Refuse, Crash,
         Return
  <2> QED
    BY <2>1, <2>2 DEF LimitsInv, WithinLimit, Stored
<1>2. ASSUME NEW p \in Process, Read(p) PROVE LimitsInv'
  <2>1. store' = store
    BY <1>2 DEF Read
  <2>2. \A q \in Process : q # p => pc'[q] = pc[q] /\ view'[q] = view[q]
    BY <1>2 DEF Read
  <2>3. pc'[p] = "writing" => view'[p] = store /\ Readable(store)
    BY <1>2 DEF Read
  <2>4. WithinLimit(store')
    BY <2>1 DEF LimitsInv
  <2>5. ASSUME NEW q \in Process, pc'[q] = "writing"
        PROVE  WithinLimit(view'[q]) /\ Readable(view'[q])
    <3>1. CASE q = p
      <4>1. view'[q] = store /\ Readable(store) /\ WithinLimit(store)
        BY <2>3, <2>5, <3>1 DEF LimitsInv
      <4> QED
        BY <4>1
    <3>2. CASE q # p
      <4>1. view'[q] = view[q] /\ pc[q] = "writing"
        BY <2>2, <2>5, <3>2
      <4>2. WithinLimit(view[q]) /\ Readable(view[q])
        BY <4>1 DEF LimitsInv
      <4> QED
        BY <4>1, <4>2
    <3> QED
      BY <3>1, <3>2
  <2> QED
    BY <2>4, <2>5 DEF LimitsInv, WithinLimit, Stored
<1>3. ASSUME NEW p \in Process, Write(p) PROVE LimitsInv'
  <2>1. /\ view[p] \in Bundle /\ call[p] \in Call
        /\ Possible(view[p], call[p]) /\ WithinLimit(view[p])
        /\ store' = Changed(view[p], call[p])
    BY <1>3 DEF Write, CopiesChecked, LimitsInv
  <2>2. WithinLimit(store')
    BY <2>1, ChangedWithinLimit
  <2>3. pc'[p] # "writing"
    BY <1>3 DEF Write
  <2>4. \A q \in Process : q # p => pc'[q] = pc[q] /\ view'[q] = view[q]
    BY <1>3 DEF Write
  <2> QED
    BY <2>2, <2>3, <2>4 DEF LimitsInv, WithinLimit, Stored
<1>4. CASE LockGrowsOld \/ UNCHANGED vars
  BY <1>4 DEF LockGrowsOld, vars, LimitsInv, WithinLimit, Stored
<1> QED
  BY <1>1, <1>2, <1>3, <1>4 DEF Next, Step

LEMMA LimitsInvariant == Spec => [](DecisionsInv /\ LimitsInv)
<1>1. DecisionsInv /\ LimitsInv /\ [Next]_vars => LimitsInv'
  BY LimitsStay
<1> QED
  BY <1>1, LimitsInit, DecisionsInvariant, PTL DEF Spec

\* However many processes author, and after robbed writers too, the store
\* never holds more than MAX_DECISIONS decisions: the check is made on the
\* very copy that is saved (review_decisions.py:872-873).
THEOREM LimitHolds == Spec => []WithinLimit(store)
<1>1. LimitsInv => WithinLimit(store)
  BY DEF LimitsInv
<1> QED
  BY <1>1, LimitsInvariant, PTL

\* A store that can no longer be loaded has reached its end: until a lock is
\* an hour old no call changes it, not even to restore a finding, for each of
\* them loads the bundle first (review_decisions.py:852-860, 915-923).
THEOREM UnreadableIsFinal ==
    Spec => [][~overdue /\ ~Readable(store) => store' = store]_vars
<1>1. DecisionsInv /\ LimitsInv /\ [Next]_vars
        => [~overdue /\ ~Readable(store) => store' = store]_vars
  <2> SUFFICES ASSUME DecisionsInv, LimitsInv, [Next]_vars,
                      ~overdue, ~Readable(store)
               PROVE  store' = store
    OBVIOUS
  <2>1. ASSUME NEW p \in Process PROVE ~Write(p)
    BY DEF Write, DecisionsInv, Serialized, LimitsInv
  <2> QED
    BY <2>1 DEF Next, Step, Begin, Acquire, Busy, Read, WriteFails,
         Acknowledge, Refuse, Crash, LockGrowsOld, vars
<1> QED
  BY <1>1, LimitsInvariant, PTL DEF Spec

\* The part of a bundle's size that its records take.
LEMMA RecordsTakeRoom ==
    ASSUME NEW s, IsFiniteSet(Stored(s)), Readable(s)
    PROVE  RecordSize * Cardinality(Stored(s)) <= MaxBundle
<1>1. Cardinality(Stored(s)) \in Nat /\ Cardinality(Revoked(s)) \in Nat
  <2>1. Revoked(s) \in SUBSET Stored(s)
    BY DEF Revoked, Stored
  <2> QED
    BY <2>1, FS_Subset, FS_CardinalityType
<1>2. /\ RecordSize * Cardinality(Stored(s)) \in Nat
      /\ RevocationSize * Cardinality(Revoked(s)) \in Nat
  BY <1>1, LocalDecisionsConstants
<1> QED
  BY <1>2, LocalDecisionsConstants DEF Readable, Size

\* What the loader admits, and one record more.
OnePastReadable(s) ==
    Stored(s) # {} => RecordSize * (Cardinality(Stored(s)) - 1) <= MaxBundle

\* Every decision that is saved is added to a copy that could be loaded.
LEMMA ChangedOnePastReadable ==
    ASSUME NEW s \in Bundle, NEW c \in Call, Possible(s, c),
           WithinLimit(s), Readable(s)
    PROVE  OnePastReadable(Changed(s, c))
<1>1. /\ IsFiniteSet(Stored(s)) /\ Cardinality(Stored(s)) \in Nat
      /\ RecordSize * Cardinality(Stored(s)) <= MaxBundle
  BY RecordsTakeRoom, FS_CardinalityType DEF WithinLimit
<1>2. CASE c.op = "record"
  <2>1. Stored(Changed(s, c)) = Stored(s) \cup {c.of}
    BY <1>2 DEF Stored, Changed, Superseded, Possible, Bundle, Call
  <2>2. c.of \notin Stored(s)
    BY <1>2 DEF Stored, Possible
  <2>3. Cardinality(Stored(Changed(s, c))) = Cardinality(Stored(s)) + 1
    BY <1>1, <2>1, <2>2, FS_AddElement
  <2>4. Cardinality(Stored(Changed(s, c))) - 1 = Cardinality(Stored(s))
    BY <1>1, <2>3
  <2> QED
    BY <1>1, <2>4 DEF OnePastReadable
<1>3. CASE c.op = "restore"
  <2>1. Stored(Changed(s, c)) = Stored(s)
    BY <1>3 DEF Stored, Changed, Possible, Bundle, Call
  <2>2. RecordSize * (Cardinality(Stored(s)) - 1)
          = RecordSize * Cardinality(Stored(s)) - RecordSize
    BY <1>1, LocalDecisionsConstants
  <2>3. RecordSize * Cardinality(Stored(s)) \in Nat
    BY <1>1, LocalDecisionsConstants
  <2> QED
    BY <1>1, <2>1, <2>2, <2>3, LocalDecisionsConstants DEF OnePastReadable
<1> QED
  BY <1>2, <1>3 DEF Call

\* What ends the growth of the store is the loader's limit on bytes: however
\* many processes author, and after robbed writers too, the store holds one
\* decision at most beyond those whose records fit MAX_BUNDLE_BYTES
\* (review_decisions.py:680, 885-886), whatever MAX_DECISIONS is.
THEOREM LoaderEndsGrowth == Spec => []OnePastReadable(store)
<1>1. Init => OnePastReadable(store)
  BY DEF Init, OnePastReadable, Stored
<1>2. ASSUME DecisionsInv, LimitsInv, OnePastReadable(store), [Next]_vars
      PROVE  OnePastReadable(store)'
  <2>1. ASSUME NEW p \in Process, Write(p) PROVE OnePastReadable(store')
    <3>1. /\ view[p] \in Bundle /\ call[p] \in Call
          /\ Possible(view[p], call[p])
          /\ WithinLimit(view[p]) /\ Readable(view[p])
          /\ store' = Changed(view[p], call[p])
      BY <1>2, <2>1 DEF Write, DecisionsInv, TypeOK, CopiesChecked, LimitsInv
    <3> QED
      BY <3>1, ChangedOnePastReadable
  <2>2. (\A p \in Process : ~Write(p)) => store' = store
    BY <1>2 DEF Next, Step, Begin, Acquire, Busy, Read, WriteFails,
         Acknowledge, Refuse, Crash, LockGrowsOld, vars
  <2> QED
    BY <1>2, <2>1, <2>2 DEF OnePastReadable, Stored
<1> QED
  BY <1>1, <1>2, LimitsInvariant, PTL DEF Spec

\* With records too large for MAX_DECISIONS of them to fit MAX_BUNDLE_BYTES,
\* as the program's are (ten thousand of some 561 bytes against a million),
\* "local review decision store is full" is never said: whenever a call has
\* loaded the store there is room for another decision in it
\* (review_decisions.py:872-873).
THEOREM FullIsNeverSaid ==
    RecordSize * MaxDecisions > MaxBundle
      => (Spec => [](Readable(store) =>
                       Cardinality(Stored(store)) < MaxDecisions))
<1> SUFFICES ASSUME RecordSize * MaxDecisions > MaxBundle
             PROVE  Spec => [](Readable(store) =>
                                 Cardinality(Stored(store)) < MaxDecisions)
  OBVIOUS
<1>1. LimitsInv =>
        (Readable(store) => Cardinality(Stored(store)) < MaxDecisions)
  <2> SUFFICES ASSUME LimitsInv, Readable(store)
               PROVE  Cardinality(Stored(store)) < MaxDecisions
    OBVIOUS
  <2>1. /\ Cardinality(Stored(store)) \in Nat
        /\ Cardinality(Stored(store)) <= MaxDecisions
        /\ RecordSize * Cardinality(Stored(store)) <= MaxBundle
    BY RecordsTakeRoom, FS_CardinalityType DEF LimitsInv, WithinLimit
  <2>2. Cardinality(Stored(store)) # MaxDecisions
    BY <2>1, LocalDecisionsConstants
  <2> QED
    BY <2>1, <2>2, LocalDecisionsConstants
<1> QED
  BY <1>1, LimitsInvariant, PTL

=============================================================================
