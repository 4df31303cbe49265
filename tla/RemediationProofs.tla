-------------------------- MODULE RemediationProofs --------------------------
(***************************************************************************)
(* Proofs about Remediation, for all files, fixes and bounds.              *)
(***************************************************************************)
EXTENDS Remediation, TLAPS

-----------------------------------------------------------------------------
(* Types.                                                                  *)

LEMMA RemediationInit == Init => TypeOK
<1> SUFFICES ASSUME Init PROVE TypeOK
  OBVIOUS
<1>1. [save |-> 0, fixes |-> {}, whole |-> TRUE] \in Text
  BY RemediationConstants DEF Text
<1> QED
  BY <1>1, RemediationConstants DEF Init, TypeOK, Judging, Replacing

LEMMA RemediationTypes == TypeOK /\ [Next]_vars => TypeOK'
<1> SUFFICES ASSUME TypeOK, [Next]_vars PROVE TypeOK'
  OBVIOUS
<1> USE RemediationConstants DEF TypeOK, Judging, Replacing, Asked, History
<1>1. ASSUME NEW f \in File
      PROVE  [tree EXCEPT ![f].whole = FALSE] \in [File -> Text]
  <2>1. tree[f] \in Text
    OBVIOUS
  <2>2. [tree[f] EXCEPT !.whole = FALSE] \in Text
    BY ONLY <2>1 DEF Text
  <2> QED
    BY <2>2
<1>2. ASSUME NEW f \in File, FailedWrite(f)
      PROVE  tree' \in [File -> Text] /\ failures' \in 0 .. MaxFailures
  BY <1>1, <1>2 DEF FailedWrite, Fail
<1>3. CASE Branch
  BY <1>3 DEF Branch
<1>4. ASSUME NEW t \in Fix, Take(t) PROVE TypeOK'
  BY <1>4 DEF Take
<1>5. CASE GiveUp
  BY <1>5 DEF GiveUp, Conclude
<1>20. CASE TakeBackup
  <2>1. current \in Fix /\ FileOf[current] \in File
    BY <1>20 DEF TakeBackup
  <2> QED
    BY <1>20, <2>1 DEF TakeBackup, Backup
<1>6. CASE Apply
  <2>1. source \in Text /\ current \in Fix /\ FileOf[current] \in File
    BY <1>6 DEF Apply
  <2>2. [source EXCEPT !.fixes = source.fixes \cup {current}] \in Text
    BY <2>1 DEF Text
  <2> QED
    BY <1>6, <2>1, <2>2 DEF Apply
<1>7. CASE ApplyFails
  <2>1. current \in Fix /\ FileOf[current] \in File
    BY <1>7 DEF ApplyFails
  <2>2. tree' \in [File -> Text] /\ failures' \in 0 .. MaxFailures
    BY <1>2, <1>7, <2>1 DEF ApplyFails, Fail
  <2> QED
    BY <1>7, <2>1, <2>2 DEF ApplyFails, Conclude
<1>8. CASE TestsPass
  <2>1. FixesIn(tree) \in SUBSET Fix
    BY DEF FixesIn, Text
  <2> QED
    BY <1>8, <2>1 DEF TestsPass, Conclude
<1>9. CASE TestsFail
  BY <1>9 DEF TestsFail
<1>10. CASE TestsRaise
  BY <1>10 DEF TestsRaise, Conclude, Fail
<1>11. CASE Verify
  BY <1>11 DEF Verify, Conclude
<1>12. CASE Revert
  BY <1>12 DEF Revert, Conclude
<1>13. CASE RevertFails
  <2>1. current \in Fix /\ FileOf[current] \in File
    BY <1>13 DEF RevertFails
  <2>2. tree' \in [File -> Text] /\ failures' \in 0 .. MaxFailures
    BY <1>2, <1>13, <2>1 DEF RevertFails
  <2> QED
    BY <1>13, <2>1, <2>2 DEF RevertFails, Conclude
<1>14. CASE Commit
  BY <1>14 DEF Commit
<1>15. CASE Finish
  BY <1>15 DEF Finish
<1>16. CASE Abort
  <2>1. tree' \in [File -> Text] /\ failures' \in 0 .. MaxFailures
    BY <1>2, <1>16 DEF Abort, Fail
  <2> QED
    BY <1>16, <2>1 DEF Abort
<1>17. ASSUME NEW f \in File, Save(f) PROVE TypeOK'
  <2>1. saves[f] + 1 \in 0 .. MaxSaves
    BY <1>17 DEF Save
  <2>2. tree[f] \in Text
    OBVIOUS
  <2>3. [tree[f] EXCEPT !.save = saves[f] + 1] \in Text
    BY ONLY <2>1, <2>2 DEF Text
  <2> QED
    BY <1>17, <2>1, <2>3 DEF Save
<1>19. ASSUME NEW f \in File, StageFile(f) PROVE TypeOK'
  BY <1>19 DEF StageFile
<1>18. CASE UNCHANGED vars
  BY <1>18 DEF vars
<1> QED
  BY <1>3, <1>4, <1>5, <1>6, <1>7, <1>8, <1>9, <1>10, <1>11, <1>12, <1>13,
     <1>14, <1>15, <1>16, <1>17, <1>18, <1>19, <1>20 DEF Next, Step

\* Every variable keeps its type; whoever has a fix in hand has the text the
\* model was given, and while it is judged its backup.
THEOREM RemediationTypeCorrect == Spec => []TypeOK
<1> QED
  BY RemediationInit, RemediationTypes, PTL DEF Spec

-----------------------------------------------------------------------------
(* What is in the files.                                                   *)

Target == FileOf[current]

FixesFor(f) == {t \in Fix : FileOf[t] = f}

\* What the file will hold if the fix in it does not stay.
Held(f) == IF Judging /\ Target = f THEN backups[f] ELSE tree[f]

\* The fix in hand is pending; the model was given the file but for the user's
\* later saves, and the backup is the file but for those; the fix being judged
\* is what tells the file from its backup.
InHand ==
    /\ pc = "fixing" \/ Replacing => status[current] = "pending"
    /\ pc \in {"start", "next", "over"} => current = NoFix
    /\ pc \in {"fixing", "writing"} => /\ source.fixes = tree[Target].fixes
                                       /\ source.whole = tree[Target].whole
    /\ pc = "writing" => /\ backups[Target].fixes = tree[Target].fixes
                         /\ backups[Target].whole = tree[Target].whole
    /\ Judging => tree[Target].fixes = backups[Target].fixes \cup {current}

\* What is reported is held, and nothing else is but what is loose.
HeldMatchesReport ==
    pc # "aborted" => \A f \in File :
      /\ Fixed \cap FixesFor(f) \subseteq Held(f).fixes
      /\ Held(f).fixes \subseteq Fixed \cup loose

FilesMatchReport ==
    \A f \in File :
      /\ Fixed \cap FixesFor(f) \subseteq tree[f].fixes
      /\ tree[f].fixes \subseteq Fixed \cup loose \cup {current}
      /\ tree[f].fixes \subseteq FixesFor(f)

ReportInv == TypeOK /\ InHand /\ HeldMatchesReport /\ FilesMatchReport

LEMMA ReportInit == Init => ReportInv
<1> SUFFICES ASSUME Init PROVE ReportInv
  OBVIOUS
<1>1. TypeOK
  BY RemediationInit
<1>2. \A f \in File : tree[f].fixes = {}
  BY DEF Init
<1>3. Fixed = {} /\ ~Judging /\ current = NoFix /\ pc = "start"
  BY DEF Init, Fixed, Judging
<1> QED
  BY <1>1, <1>2, <1>3
     DEF ReportInv, InHand, Replacing, HeldMatchesReport, FilesMatchReport, Held

\* Concluding fixes what it says, and nothing else.
LEMMA Concluded ==
  ASSUME TypeOK, current \in Fix, status[current] = "pending",
         NEW s \in {"skipped", "failed", "reverted", "fixed"}, Conclude(s)
  PROVE  /\ Fixed' = IF s = "fixed" THEN Fixed \cup {current} ELSE Fixed
         /\ current' = NoFix /\ pc' = "next" /\ ~Judging'
<1>1. \A t \in Fix : status'[t] = IF t = current THEN s ELSE status[t]
  BY DEF TypeOK, Conclude
<1>2. current \notin Fixed
  BY DEF Fixed
<1>3. current' = NoFix /\ pc' = "next" /\ ~Judging'
  BY DEF Conclude, Judging
<1> QED
  BY <1>1, <1>2, <1>3 DEF Fixed

\* A write that fails changes no fixes and no save.
LEMMA FailedWriteKeeps ==
  ASSUME TypeOK, NEW f \in File, FailedWrite(f)
  PROVE  \A g \in File : /\ tree'[g].fixes = tree[g].fixes
                         /\ tree'[g].save = tree[g].save
                         /\ tree'[g].whole => tree[g].whole
<1>1. CASE UNCHANGED tree
  BY <1>1
<1>2. CASE tree' = [tree EXCEPT ![f].whole = FALSE]
  <2>1. \A g \in File : tree[g] \in Text
    BY DEF TypeOK
  <2>2. tree'[f] = [tree[f] EXCEPT !.whole = FALSE]
    BY <1>2 DEF TypeOK
  <2>3. \A g \in File : g # f => tree'[g] = tree[g]
    BY <1>2 DEF TypeOK
  <2>4. /\ tree'[f].fixes = tree[f].fixes
        /\ tree'[f].save = tree[f].save
        /\ tree'[f].whole = FALSE
    BY <2>1, <2>2 DEF Text
  <2> QED
    BY <2>3, <2>4
<1> QED
  BY <1>1, <1>2 DEF FailedWrite

\* The user changes no fixes.
LEMMA SaveKeeps ==
  ASSUME TypeOK, NEW f \in File, Save(f)
  PROVE  /\ \A g \in File : /\ tree'[g].fixes = tree[g].fixes
                            /\ tree'[g].whole = tree[g].whole
         /\ \A g \in File \ {f} : tree'[g] = tree[g]
         /\ tree'[f].save = saves'[f]
<1>1. \A g \in File : tree[g] \in Text
  BY DEF TypeOK
<1>2. tree'[f] = [tree[f] EXCEPT !.save = saves[f] + 1]
  BY DEF TypeOK, Save
<1>3. \A g \in File : g # f => tree'[g] = tree[g]
  BY DEF TypeOK, Save
<1>4. /\ tree'[f].fixes = tree[f].fixes
      /\ tree'[f].save = saves[f] + 1
      /\ tree'[f].whole = tree[f].whole
  BY <1>1, <1>2 DEF Text
<1>5. saves'[f] = saves[f] + 1
  BY DEF TypeOK, Save
<1> QED
  BY <1>3, <1>4, <1>5

LEMMA ReportStep == ReportInv /\ [Next]_vars => ReportInv'
<1> SUFFICES ASSUME ReportInv, [Next]_vars PROVE ReportInv'
  OBVIOUS
<1> USE RemediationConstants
<1>0. TypeOK /\ InHand /\ HeldMatchesReport /\ FilesMatchReport
  BY DEF ReportInv
<1>1. TypeOK'
  BY <1>0, RemediationTypes
\* Between two fixes, what is held is what is on disk.
<1>2. ASSUME ~Judging', pc' # "aborted", pc' \notin {"fixing", "writing"},
             current' = NoFix,
             \A f \in File : /\ tree'[f].fixes = Held(f).fixes
                             /\ tree'[f].fixes \subseteq FixesFor(f),
             Fixed' = Fixed, loose \subseteq loose', pc # "aborted"
      PROVE  ReportInv'
  <2>1. InHand'
    BY <1>2 DEF InHand, Replacing
  <2>2. \A f \in File : Held(f)' = tree'[f] /\ FixesFor(f)' = FixesFor(f)
    BY <1>2 DEF Held, FixesFor
  <2>3. HeldMatchesReport'
    BY <1>0, <1>2, <2>2 DEF HeldMatchesReport
  <2>4. FilesMatchReport'
    BY <1>0, <1>2, <2>2 DEF HeldMatchesReport, FilesMatchReport
  <2> QED
    BY <1>1, <2>1, <2>3, <2>4 DEF ReportInv
\* The fix being judged stays.
<1>3. ASSUME Judging, ~Judging', pc' # "aborted",
             pc' \notin {"fixing", "writing"},
             current' = NoFix, \A f \in File : tree'[f].fixes = tree[f].fixes,
             Fixed \subseteq Fixed', Fixed' \subseteq Fixed \cup {current},
             loose \subseteq loose', current \in Fixed' \cup loose'
      PROVE  ReportInv'
  <2>1. InHand'
    BY <1>3 DEF InHand, Replacing
  <2>2. \A f \in File : Held(f)' = tree'[f] /\ FixesFor(f)' = FixesFor(f)
    BY <1>3 DEF Held, FixesFor
  <2>3. current \in tree[Target].fixes /\ current \in Fix
    BY <1>0, <1>3 DEF InHand, TypeOK, Replacing
  <2>4. \A f \in File : current \in FixesFor(f) => f = Target
    BY DEF FixesFor, Target
  <2>5. FilesMatchReport'
    BY <1>0, <1>3, <2>2, <2>3, <2>4 DEF FilesMatchReport
  <2>6. HeldMatchesReport'
    BY <1>0, <1>3, <2>2, <2>3, <2>4 DEF HeldMatchesReport, FilesMatchReport
  <2> QED
    BY <1>1, <2>1, <2>5, <2>6 DEF ReportInv
\* The judging goes on, or is left.
<1>4. ASSUME Judging, Judging' \/ pc' = "aborted",
             UNCHANGED <<current, status>>, Judging' => UNCHANGED backups,
             \A f \in File : tree'[f].fixes = tree[f].fixes,
             loose \subseteq loose'
      PROVE  ReportInv'
  <2>1. Fixed' = Fixed /\ Target' = Target /\ pc' \notin {"fixing", "writing"}
    BY <1>4 DEF Fixed, Target, Judging
  <2>2. Target \in File
    BY <1>0, <1>4 DEF TypeOK, Target, Replacing
  <2>3. InHand'
    BY <1>0, <1>4, <2>1, <2>2 DEF InHand, Judging, Replacing
  <2>4. \A f \in File : Judging' =>
           Held(f)'.fixes = Held(f).fixes /\ FixesFor(f)' = FixesFor(f)
    BY <1>4, <2>1 DEF Held, FixesFor
  <2>5. FilesMatchReport'
    BY <1>0, <1>4, <2>1 DEF FilesMatchReport, FixesFor
  <2>6. HeldMatchesReport'
    BY <1>0, <1>4, <2>1, <2>4 DEF HeldMatchesReport, FixesFor, Judging
  <2> QED
    BY <1>1, <2>3, <2>5, <2>6 DEF ReportInv
\* Nothing is in a file that is not decided about.
<1>5. ASSUME ~Judging, ~Judging', pc' \notin {"fixing", "writing"},
             pc \in {"start", "next", "over"} =>
               current' = current,
             pc' \in {"start", "next", "over"} => current' = NoFix,
             pc = "aborted" => pc' = "aborted" /\ current' = current,
             \A f \in File : tree'[f].fixes = tree[f].fixes,
             Fixed' = Fixed, UNCHANGED loose
      PROVE  ReportInv'
  <2>1. InHand'
    BY <1>5 DEF InHand, Replacing
  <2>2. \A f \in File :
           /\ Held(f)' = tree'[f] /\ Held(f) = tree[f]
           /\ FixesFor(f)' = FixesFor(f)
    BY <1>5 DEF Held, FixesFor
  <2>3. HeldMatchesReport'
    BY <1>0, <1>5, <2>2 DEF HeldMatchesReport
  <2>4. FilesMatchReport'
    BY <1>0, <1>5, <2>2 DEF HeldMatchesReport, FilesMatchReport
  <2> QED
    BY <1>1, <2>1, <2>3, <2>4 DEF ReportInv
<1>6. CASE Branch
  BY <1>0, <1>5, <1>6 DEF Branch, Judging, InHand, Fixed, History
<1>7. ASSUME NEW t \in Fix, Take(t) PROVE ReportInv'
  <2>1. /\ Fixed' = Fixed /\ ~Judging /\ ~Judging'
        /\ UNCHANGED <<tree, status, loose>>
        /\ current' = t /\ pc' = "fixing" /\ source' = tree[FileOf[t]]
        /\ status[t] = "pending" /\ pc = "next"
    BY <1>7 DEF Take, Fixed, Judging, History
  <2>2. InHand'
    BY <2>1 DEF InHand, Target, Replacing
  <2>3. \A f \in File :
           /\ Held(f)' = tree[f] /\ Held(f) = tree[f]
           /\ FixesFor(f)' = FixesFor(f)
    BY <2>1 DEF Held, FixesFor
  <2>4. HeldMatchesReport'
    BY <1>0, <2>1, <2>3 DEF HeldMatchesReport
  <2>5. FilesMatchReport'
    BY <1>0, <2>1, <2>3 DEF HeldMatchesReport, FilesMatchReport
  <2> QED
    BY <1>1, <2>2, <2>4, <2>5 DEF ReportInv
<1>8. CASE GiveUp
  <2>1. current \in Fix /\ status[current] = "pending" /\ ~Judging
        /\ pc = "fixing"
    BY <1>0, <1>8 DEF GiveUp, TypeOK, InHand, Judging
  <2>2. Fixed' = Fixed /\ current' = NoFix /\ pc' = "next" /\ ~Judging'
    BY <1>0, <1>8, <2>1, Concluded DEF GiveUp
  <2> QED
    BY <1>5, <1>8, <2>1, <2>2 DEF GiveUp, History
<1>21. CASE TakeBackup
  <2>1. /\ pc = "fixing" /\ pc' = "writing" /\ ~Judging /\ ~Judging'
        /\ current \in Fix /\ Target \in File /\ Replacing'
        /\ UNCHANGED <<current, status, source, tree, loose>>
        /\ backups' = [backups EXCEPT ![Target] = tree[Target]]
    BY <1>0, <1>21
       DEF TakeBackup, Backup, Judging, Replacing, TypeOK, Target, History
  <2>2. backups'[Target] = tree[Target] /\ Fixed' = Fixed /\ Target' = Target
    BY <1>0, <2>1 DEF TypeOK, Fixed, Target
  <2>3. InHand'
    BY <1>0, <2>1, <2>2 DEF InHand
  <2>4. \A f \in File :
           /\ Held(f)' = tree'[f] /\ Held(f) = tree[f]
           /\ FixesFor(f)' = FixesFor(f)
    BY <2>1 DEF Held, FixesFor
  <2>5. HeldMatchesReport' /\ FilesMatchReport'
    BY <1>0, <2>1, <2>2, <2>4 DEF HeldMatchesReport, FilesMatchReport
  <2> QED
    BY <1>1, <2>3, <2>5 DEF ReportInv
<1>9. CASE Apply
  <2>1. /\ pc = "writing" /\ pc' = "test" /\ ~Judging /\ Judging' /\ Replacing
        /\ current \in Fix /\ Target \in File /\ source \in Text
        /\ UNCHANGED <<current, status, backups, loose>>
    BY <1>0, <1>9 DEF Apply, Judging, Replacing, TypeOK, Target
  <2>2. /\ Fixed' = Fixed /\ Target' = Target /\ current \notin Fixed
        /\ status[current] = "pending"
    BY <1>0, <2>1 DEF Fixed, Target, InHand
  <2>3. tree' = [tree EXCEPT ![Target] =
                    [source EXCEPT !.fixes = source.fixes \cup {current}]]
    BY <1>9 DEF Apply, Target
  <2>4. /\ tree'[Target] =
             [source EXCEPT !.fixes = source.fixes \cup {current}]
        /\ backups'[Target].fixes = tree[Target].fixes
        /\ \A f \in File \ {Target} : tree'[f] = tree[f]
    BY <1>0, <2>1, <2>3 DEF TypeOK, InHand
  <2>5. tree'[Target].fixes = tree[Target].fixes \cup {current}
    <3>1. tree'[Target].fixes = source.fixes \cup {current}
      BY <2>1, <2>4 DEF Text
    <3> QED
      BY <1>0, <2>1, <3>1 DEF InHand
  <2>6. InHand'
    BY <2>1, <2>2, <2>4, <2>5 DEF InHand
  <2>7. \A f \in File : /\ Held(f)'.fixes = tree[f].fixes
                        /\ Held(f) = tree[f]
                        /\ FixesFor(f)' = FixesFor(f)
    BY <2>1, <2>2, <2>4 DEF Held, FixesFor
  <2>8. HeldMatchesReport'
    BY <1>0, <2>1, <2>2, <2>7 DEF HeldMatchesReport
  <2>9. current \in FixesFor(Target)
    BY <2>1 DEF FixesFor, Target
  <2>10. FilesMatchReport'
    BY <1>0, <2>1, <2>2, <2>4, <2>5, <2>7, <2>9 DEF FilesMatchReport
  <2> QED
    BY <1>1, <2>6, <2>8, <2>10 DEF ReportInv
<1>10. CASE ApplyFails
  <2>1. current \in Fix /\ status[current] = "pending" /\ ~Judging
        /\ pc \in {"fixing", "writing"} /\ FileOf[current] \in File
    BY <1>0, <1>10 DEF ApplyFails, TypeOK, InHand, Judging, Replacing
  <2>2. Fixed' = Fixed /\ current' = NoFix /\ pc' = "next" /\ ~Judging'
    BY <1>0, <1>10, <2>1, Concluded DEF ApplyFails
  <2>3. \A f \in File : tree'[f].fixes = tree[f].fixes
    BY <1>0, <1>10, <2>1, FailedWriteKeeps DEF ApplyFails
  <2> QED
    BY <1>5, <1>10, <2>1, <2>2, <2>3 DEF ApplyFails, History
<1>11. CASE TestsPass
  <2>1. Judging /\ current \in Fix /\ status[current] = "pending"
        /\ UNCHANGED <<tree, backups, loose>>
    BY <1>0, <1>11 DEF TestsPass, Judging, Replacing, InHand, TypeOK
  <2>2. CASE agent = "remediate"
    BY <1>4, <1>11, <2>1, <2>2 DEF TestsPass, Judging
  <2>3. CASE agent # "remediate"
    <3>1. Conclude("fixed")
      BY <1>11, <2>3 DEF TestsPass
    <3>2. Fixed' = Fixed \cup {current} /\ current' = NoFix /\ pc' = "next"
          /\ ~Judging'
      BY <1>0, <2>1, <3>1, Concluded
    <3> QED
      BY <1>3, <2>1, <3>2
  <2> QED
    BY <2>2, <2>3
<1>12. CASE TestsFail
  BY <1>4, <1>12 DEF TestsFail, Judging, History
<1>13. CASE TestsRaise
  <2>1. Judging /\ current \in Fix /\ status[current] = "pending"
        /\ UNCHANGED <<tree, backups>> /\ loose' = loose \cup {current}
    BY <1>0, <1>13 DEF TestsRaise, Judging, Replacing, InHand, TypeOK
  <2>2. CASE agent = "cleanup"
    <3>1. Conclude("skipped")
      BY <1>13, <2>2 DEF TestsRaise
    <3>2. Fixed' = Fixed /\ current' = NoFix /\ pc' = "next" /\ ~Judging'
      BY <1>0, <2>1, <3>1, Concluded
    <3> QED
      BY <1>3, <2>1, <3>2
  <2>3. CASE agent # "cleanup"
    BY <1>4, <1>13, <2>1, <2>3 DEF TestsRaise
  <2> QED
    BY <2>2, <2>3
<1>14. CASE Verify
  <2>1. Judging /\ current \in Fix /\ status[current] = "pending"
        /\ UNCHANGED <<tree, backups, loose>>
    BY <1>0, <1>14 DEF Verify, Judging, Replacing, InHand, TypeOK, History
  <2>2. CASE Conclude("fixed")
    <3>1. Fixed' = Fixed \cup {current} /\ current' = NoFix /\ pc' = "next"
          /\ ~Judging'
      BY <1>0, <2>1, <2>2, Concluded
    <3> QED
      BY <1>3, <2>1, <3>1
  <2>3. CASE pc' = "revert" /\ UNCHANGED <<status, current>>
    BY <1>4, <2>1, <2>3 DEF Judging
  <2> QED
    BY <1>14, <2>2, <2>3 DEF Verify
<1>15. CASE Revert
  <2>1. /\ Judging /\ current \in Fix /\ status[current] = "pending"
        /\ Target \in File /\ pc = "revert" /\ UNCHANGED loose
        /\ tree' = [tree EXCEPT ![Target] = backups[Target]]
    BY <1>0, <1>15
       DEF Revert, Judging, Replacing, InHand, TypeOK, Target, History
  <2>2. Fixed' = Fixed /\ current' = NoFix /\ pc' = "next" /\ ~Judging'
    BY <1>0, <1>15, <2>1, Concluded DEF Revert
  <2>3. \A f \in File : tree'[f] = Held(f)
    BY <1>0, <2>1 DEF Held, TypeOK
  <2>4. \A f \in File : Held(f).fixes \subseteq tree[f].fixes
    BY <1>0, <2>1 DEF Held, InHand
  <2>5. \A f \in File : tree'[f].fixes \subseteq FixesFor(f)
    BY <1>0, <2>3, <2>4 DEF FilesMatchReport
  <2> QED
    BY <1>2, <2>1, <2>2, <2>3, <2>5
<1>16. CASE RevertFails
  <2>1. /\ Judging /\ current \in Fix /\ status[current] = "pending"
        /\ FileOf[current] \in File
    BY <1>0, <1>16
       DEF RevertFails, Judging, Replacing, InHand, TypeOK
  <2>2. Fixed' = Fixed /\ current' = NoFix /\ pc' = "next" /\ ~Judging'
    BY <1>0, <1>16, <2>1, Concluded DEF RevertFails
  <2>3. \A f \in File : tree'[f].fixes = tree[f].fixes
    BY <1>0, <1>16, <2>1, FailedWriteKeeps DEF RevertFails
  <2> QED
    BY <1>3, <1>16, <2>1, <2>2, <2>3 DEF RevertFails
<1>17. CASE Commit \/ Finish
  BY <1>0, <1>5, <1>17 DEF Commit, Finish, Judging, InHand, Fixed, History
<1>18. CASE Abort
  <2>1. /\ pc \notin {"over", "aborted"} /\ pc' = "aborted" /\ ~Judging'
        /\ UNCHANGED <<current, status, loose>> /\ Fixed' = Fixed
    BY <1>18 DEF Abort, Judging, History, Fixed
  <2>2. \A f \in File : tree'[f].fixes = tree[f].fixes
    <3>1. CASE pc \in {"writing", "revert"}
      <4>1. FileOf[current] \in File
        BY <1>0, <3>1 DEF TypeOK, Judging, Replacing
      <4> QED
        BY <1>0, <1>18, <3>1, <4>1, FailedWriteKeeps DEF Abort
    <3>2. CASE pc \notin {"writing", "revert"}
      BY <1>18, <3>2 DEF Abort
    <3> QED
      BY <3>1, <3>2
  <2>3. CASE Judging
    BY <1>4, <2>1, <2>2, <2>3
  <2>4. CASE ~Judging
    BY <1>5, <2>1, <2>2, <2>4
  <2> QED
    BY <2>3, <2>4
<1>19. ASSUME NEW f \in File, Save(f) PROVE ReportInv'
  <2>1. /\ UNCHANGED <<pc, current, status, source, backups, loose>>
        /\ Fixed' = Fixed /\ (Judging' <=> Judging) /\ Target' = Target
        /\ (Replacing' <=> Replacing)
    BY <1>19 DEF Save, Fixed, Judging, Replacing, Target
  <2>2. \A g \in File : /\ tree'[g].fixes = tree[g].fixes
                        /\ tree'[g].whole = tree[g].whole
    BY <1>0, <1>19, SaveKeeps
  <2>3. pc = "fixing" \/ Replacing => Target \in File
    BY <1>0 DEF TypeOK, Target
  <2>4. InHand'
    BY <1>0, <2>1, <2>2, <2>3 DEF InHand, Judging, Replacing
  <2>5. \A g \in File : Held(g)'.fixes = Held(g).fixes
    BY <2>1, <2>2 DEF Held
  <2>6. HeldMatchesReport'
    BY <1>0, <2>1, <2>5 DEF HeldMatchesReport, FixesFor
  <2>7. FilesMatchReport'
    BY <1>0, <2>1, <2>2 DEF FilesMatchReport, FixesFor
  <2> QED
    BY <1>1, <2>4, <2>6, <2>7 DEF ReportInv
<1>20. CASE (\E f \in File : StageFile(f)) \/ UNCHANGED vars
  <2>1. UNCHANGED <<pc, current, status, source, backups, tree, loose>>
    BY <1>20 DEF StageFile, History, vars
  <2> QED
    BY <1>0, <1>1, <2>1
       DEF ReportInv, InHand, HeldMatchesReport, FilesMatchReport, Held,
           Judging, Replacing, Target, Fixed, FixesFor
<1> QED
  BY <1>6, <1>7, <1>8, <1>9, <1>10, <1>11, <1>12, <1>13, <1>14, <1>15, <1>16,
     <1>17, <1>18, <1>19, <1>20, <1>21 DEF Next, Step

\* A file that is not damaged holds the fixes that are reported, and no other
\* but the one in hand and those that were not judged or not reverted.
THEOREM FilesAreAsReported == Spec => []TreeMatchesReport
<1>1. ReportInv => TreeMatchesReport
  <2> SUFFICES ASSUME ReportInv, NEW f \in File
               PROVE  /\ {t \in Fixed : FileOf[t] = f} \subseteq tree[f].fixes
                      /\ tree[f].fixes \subseteq
                           Fixed \cup loose \cup {current}
    BY DEF TreeMatchesReport
  <2>1. {t \in Fixed : FileOf[t] = f} = Fixed \cap FixesFor(f)
    BY DEF Fixed, FixesFor
  <2> QED
    BY <2>1 DEF ReportInv, FilesMatchReport
<1> QED
  BY <1>1, ReportInit, ReportStep, PTL DEF Spec

-----------------------------------------------------------------------------
(* The tests.                                                              *)

HeldFixes == UNION {Held(f).fixes : f \in File}

\* The tests have passed with what is held, and a fix that is verified has
\* passed them together with it.
PassedInv ==
    /\ pc # "aborted" /\ loose = {} => HeldFixes \in passed \cup {{}}
    /\ pc = "verify" => FixesIn(tree) \in passed

LEMMA PassedInit == Init => PassedInv
<1> SUFFICES ASSUME Init PROVE PassedInv
  OBVIOUS
<1>1. \A f \in File : Held(f).fixes = {}
  BY DEF Init, Held, Judging
<1>2. HeldFixes = {}
  BY <1>1 DEF HeldFixes
<1> QED
  BY <1>2 DEF PassedInv, Init

LEMMA PassedStep ==
  ReportInv /\ ReportInv' /\ PassedInv /\ [Next]_vars => PassedInv'
<1> SUFFICES ASSUME ReportInv, ReportInv', PassedInv, [Next]_vars
             PROVE  PassedInv'
  OBVIOUS
<1> USE RemediationConstants
<1>0. TypeOK /\ InHand /\ HeldMatchesReport /\ FilesMatchReport
  BY DEF ReportInv
\* What is held stays, or what is judged passes and stays.
<1>1. ASSUME \A f \in File : Held(f)'.fixes = Held(f).fixes,
             passed \subseteq passed', pc # "aborted", loose \subseteq loose',
             pc' # "verify" \/ FixesIn(tree)' \in passed'
      PROVE  PassedInv'
  <2>1. HeldFixes' = HeldFixes
    BY <1>1 DEF HeldFixes
  <2> QED
    BY <1>1, <2>1 DEF PassedInv
<1>2. ASSUME ~Judging', UNCHANGED tree, FixesIn(tree) \in passed',
             pc' # "verify"
      PROVE  PassedInv'
  <2>1. \A f \in File : Held(f)' = tree[f]
    BY <1>2 DEF Held
  <2>2. HeldFixes' = FixesIn(tree)
    BY <2>1 DEF HeldFixes, FixesIn
  <2> QED
    BY <1>2, <2>2 DEF PassedInv
<1>3. ASSUME loose' # {}, pc' # "verify" PROVE PassedInv'
  BY <1>3 DEF PassedInv
<1>4. CASE pc = "aborted"
  <2>1. pc' = "aborted"
    BY <1>4 DEF Next, Step, Branch, Take, GiveUp, Apply, ApplyFails, TestsPass,
           TestsFail, TestsRaise, Verify, Revert, RevertFails, Commit, Finish,
           TakeBackup, Abort, Save, StageFile, vars
  <2> QED
    BY <2>1 DEF PassedInv
<1> SUFFICES ASSUME pc # "aborted" PROVE PassedInv'
  BY <1>4
\* Steps outside the judging that change no file.
<1>5. ASSUME ~Judging, ~Judging', UNCHANGED <<passed, loose>>,
             \A f \in File : tree'[f].fixes = tree[f].fixes
      PROVE  PassedInv'
  <2>1. \A f \in File : Held(f)'.fixes = Held(f).fixes
    BY <1>5 DEF Held
  <2> QED
    BY <1>1, <1>5, <2>1 DEF Judging
<1>6. CASE \/ Branch \/ (\E t \in Fix : Take(t)) \/ GiveUp \/ TakeBackup
           \/ Commit \/ Finish
  BY <1>5, <1>6 DEF Branch, Take, GiveUp, TakeBackup, Conclude, Commit, Finish,
     Judging, History
<1>7. CASE Apply
  <2>1. /\ ~Judging /\ Judging' /\ pc' = "test" /\ Target' = Target
        /\ Target \in File /\ UNCHANGED <<passed, loose, backups>>
        /\ pc = "writing"
    BY <1>0, <1>7 DEF Apply, Judging, Replacing, TypeOK, Target
  <2>2. /\ backups'[Target].fixes = tree[Target].fixes
        /\ \A f \in File \ {Target} : tree'[f] = tree[f]
    BY <1>0, <1>7, <2>1 DEF Apply, Target, TypeOK, InHand
  <2>3. \A f \in File : Held(f)'.fixes = Held(f).fixes
    BY <2>1, <2>2 DEF Held
  <2> QED
    BY <1>1, <2>1, <2>3
<1>8. CASE ApplyFails
  <2>1. FileOf[current] \in File /\ ~Judging /\ ~Judging'
        /\ UNCHANGED <<passed, loose>>
    BY <1>0, <1>8
       DEF ApplyFails, Conclude, TypeOK, Judging, Replacing, History
  <2>2. \A f \in File : tree'[f].fixes = tree[f].fixes
    BY <1>0, <1>8, <2>1, FailedWriteKeeps DEF ApplyFails
  <2> QED
    BY <1>5, <2>1, <2>2
<1>9. CASE TestsPass
  <2>1. FixesIn(tree) \in passed' /\ UNCHANGED <<tree, backups, loose>>
        /\ passed \subseteq passed' /\ Judging
    BY <1>9 DEF TestsPass, Judging
  <2>2. CASE agent = "remediate"
    <3>1. Judging' /\ Target' = Target
      BY <1>9, <2>2 DEF TestsPass, Judging, Target
    <3>2. \A f \in File : Held(f)'.fixes = Held(f).fixes
      BY <2>1, <3>1 DEF Held
    <3>3. FixesIn(tree)' = FixesIn(tree)
      BY <2>1 DEF FixesIn
    <3> QED
      BY <1>1, <2>1, <3>2, <3>3
  <2>3. CASE agent # "remediate"
    BY <1>2, <1>9, <2>1, <2>3 DEF TestsPass, Conclude, Judging
  <2> QED
    BY <2>2, <2>3
<1>10. CASE TestsFail
  <2>1. Judging /\ Judging' /\ Target' = Target
        /\ UNCHANGED <<tree, backups, loose, passed>> /\ pc' = "revert"
    BY <1>10 DEF TestsFail, Judging, Target, History
  <2>2. \A f \in File : Held(f)'.fixes = Held(f).fixes
    BY <2>1 DEF Held
  <2> QED
    BY <1>1, <2>1, <2>2
<1>11. CASE TestsRaise \/ RevertFails
  <2>1. loose' # {} /\ pc' # "verify"
    BY <1>11 DEF TestsRaise, RevertFails, Conclude
  <2> QED
    BY <1>3, <2>1
<1>12. CASE Verify
  <2>1. FixesIn(tree) \in passed
    BY <1>12 DEF Verify, PassedInv
  <2>2. UNCHANGED <<tree, backups, loose, passed>> /\ Judging
    BY <1>12 DEF Verify, History, Judging
  <2>3. CASE Conclude("fixed")
    BY <1>2, <2>1, <2>2, <2>3 DEF Conclude, Judging
  <2>4. CASE pc' = "revert" /\ UNCHANGED <<status, current>>
    <3>1. \A f \in File : Held(f)'.fixes = Held(f).fixes
      BY <2>2, <2>4 DEF Held, Judging, Target
    <3> QED
      BY <1>1, <2>2, <2>4, <3>1
  <2> QED
    BY <1>12, <2>3, <2>4 DEF Verify
<1>13. CASE Revert
  <2>1. /\ Judging /\ ~Judging' /\ pc' = "next" /\ Target \in File
        /\ UNCHANGED <<loose, passed>>
        /\ tree' = [tree EXCEPT ![Target] = backups[Target]]
    BY <1>0, <1>13
       DEF Revert, Conclude, Judging, Replacing, TypeOK, Target, History
  <2>2. \A f \in File : Held(f)'.fixes = Held(f).fixes
    BY <1>0, <2>1 DEF Held, TypeOK
  <2> QED
    BY <1>1, <2>1, <2>2
<1>14. CASE Abort
  BY <1>14 DEF Abort, PassedInv
<1>15. ASSUME NEW f \in File, Save(f) PROVE PassedInv'
  <2>1. /\ UNCHANGED <<pc, current, backups, loose, passed>>
        /\ (Judging' <=> Judging) /\ Target' = Target
    BY <1>15 DEF Save, Judging, Target
  <2>2. \A g \in File : tree'[g].fixes = tree[g].fixes
    BY <1>0, <1>15, SaveKeeps
  <2>3. \A g \in File : Held(g)'.fixes = Held(g).fixes
    BY <2>1, <2>2 DEF Held
  <2>4. FixesIn(tree)' = FixesIn(tree)
    BY <2>2 DEF FixesIn
  <2> QED
    BY <1>1, <2>1, <2>3, <2>4 DEF PassedInv
<1>16. CASE (\E f \in File : StageFile(f)) \/ UNCHANGED vars
  <2>1. UNCHANGED <<pc, current, backups, tree, loose, passed>>
    BY <1>16 DEF StageFile, History, vars
  <2> QED
    BY <2>1 DEF PassedInv, HeldFixes, Held, Judging, Target, FixesIn
<1> QED
  BY <1>6, <1>7, <1>8, <1>9, <1>10, <1>11, <1>12, <1>13, <1>14, <1>15, <1>16
     DEF Next, Step

\* Between two fixes the tests have passed with all that is in the tree.
THEOREM FixesAreTestedTogether == Spec => []TestedTogether
<1>1. ReportInv /\ PassedInv => TestedTogether
  <2> SUFFICES ASSUME ReportInv, PassedInv, pc \in {"next", "over"}, loose = {}
               PROVE  FixesIn(tree) \in passed \cup {{}}
    BY DEF TestedTogether
  <2>1. \A f \in File : Held(f) = tree[f]
    BY DEF Held, Judging
  <2>2. HeldFixes = FixesIn(tree)
    BY <2>1 DEF HeldFixes, FixesIn
  <2> QED
    BY <2>2 DEF PassedInv
<1>2. Init => ReportInv /\ PassedInv
  BY ReportInit, PassedInit
<1>3. ReportInv /\ PassedInv /\ [Next]_vars => (ReportInv /\ PassedInv)'
  BY ReportStep, PassedStep
<1> QED
  BY <1>1, <1>2, <1>3, PTL DEF Spec

-----------------------------------------------------------------------------
(* The commit.                                                             *)

\* With one batch per file, a file with a fixed batch has no loose fix.
CommitInv ==
    /\ autoPr => agent = "remediate"
    /\ agent = "remediate" =>
         /\ \A t, u \in Fix :
              FileOf[t] = FileOf[u] /\ status[t] # "skipped"
                /\ status[u] # "skipped" => t = u
         /\ \A t \in loose : status[t] = "reverted" \/ pc = "aborted"
    /\ \A f \in File : committed[f] # NoText => pc = "over"
    /\ CommitOnlyFixed

LEMMA CommitInit == Init => CommitInv
<1> SUFFICES ASSUME Init PROVE CommitInv
  OBVIOUS
<1>1. \A t \in Fix : status[t] # "skipped" => t \in Pending
  BY DEF Init, Pending
<1> QED
  BY <1>1 DEF Init, CommitInv, CommitOnlyFixed

LEMMA CommitStep ==
  ReportInv /\ ReportInv' /\ CommitInv /\ [Next]_vars => CommitInv'
<1> SUFFICES ASSUME ReportInv, ReportInv', CommitInv, [Next]_vars
             PROVE  CommitInv'
  OBVIOUS
<1> USE RemediationConstants
<1>0. TypeOK /\ InHand /\ FilesMatchReport
  BY DEF ReportInv
\* Nothing is committed while the run goes on.
<1>1. ASSUME pc # "over", UNCHANGED <<agent, autoPr, committed>>,
             \A t \in Fix : status'[t] = status[t]
                            \/ (t = current /\ status[t] = "pending"),
             \A t \in loose' : \/ status'[t] = "reverted"
                              \/ agent # "remediate"
                              \/ pc' = "aborted"
      PROVE  CommitInv'
  <2>1. \A f \in File : committed'[f] = NoText
    BY <1>1 DEF CommitInv
  <2>2. \A t \in Fix : status[t] = "skipped" => status'[t] = "skipped"
    BY <1>1
  <2> QED
    BY <1>1, <2>1, <2>2 DEF CommitInv, CommitOnlyFixed
\* Loose fixes stay what they are.
<1>2. ASSUME pc \notin {"over", "aborted"},
             UNCHANGED <<agent, autoPr, committed, loose>>,
             \A t \in Fix : status'[t] = status[t]
                            \/ (t = current /\ status[t] = "pending")
      PROVE  CommitInv'
  <2>1. \A t \in loose : agent = "remediate" => status'[t] = "reverted"
    BY <1>0, <1>2 DEF CommitInv, TypeOK
  <2> QED
    BY <1>0, <1>1, <1>2, <2>1 DEF TypeOK
<1>3. ASSUME NEW s \in {"skipped", "failed", "reverted", "fixed"},
             Conclude(s), status[current] = "pending"
      PROVE  \A t \in Fix : status'[t] = status[t]
                            \/ (t = current /\ status[t] = "pending")
  BY <1>0, <1>3 DEF Conclude, TypeOK
<1>4. pc = "fixing" \/ Replacing =>
        status[current] = "pending" /\ current \in Fix
  BY <1>0 DEF InHand, TypeOK
<1>5. CASE \/ Branch \/ (\E t \in Fix : Take(t)) \/ TakeBackup \/ Apply
           \/ TestsFail \/ Finish \/ (\E f \in File : StageFile(f))
  BY <1>2, <1>5 DEF Branch, Take, TakeBackup, Apply, TestsFail, Finish,
     StageFile, Asked, History
<1>6. CASE GiveUp
  BY <1>2, <1>3, <1>4, <1>6 DEF GiveUp, Asked, History
<1>7. CASE ApplyFails
  BY <1>2, <1>3, <1>4, <1>7 DEF ApplyFails, Asked, History, Replacing
<1>8. CASE TestsPass
  BY <1>2, <1>3, <1>4, <1>8 DEF TestsPass, Asked, Judging, Replacing
<1>9. CASE Verify
  BY <1>2, <1>3, <1>4, <1>9 DEF Verify, Asked, History, Judging, Replacing
<1>10. CASE Revert
  BY <1>2, <1>3, <1>4, <1>10 DEF Revert, Asked, History, Judging, Replacing
<1>11. CASE TestsRaise
  <2>1. /\ pc = "test" /\ UNCHANGED <<agent, autoPr, committed>>
        /\ status[current] = "pending"
    BY <1>4, <1>11 DEF TestsRaise, Asked, Judging, Replacing
  <2>2. \A t \in Fix : status'[t] = status[t]
                       \/ (t = current /\ status[t] = "pending")
    BY <1>3, <1>11, <2>1 DEF TestsRaise
  <2>3. agent # "remediate" \/ pc' = "aborted"
    BY <1>11 DEF TestsRaise
  <2> QED
    BY <1>1, <2>1, <2>2, <2>3
<1>12. CASE RevertFails
  <2>1. /\ pc = "revert" /\ UNCHANGED <<agent, autoPr, committed>>
        /\ status[current] = "pending" /\ current \in Fix
        /\ loose' = loose \cup {current}
    BY <1>4, <1>12 DEF RevertFails, Asked, Judging, Replacing
  <2>2. \A t \in Fix :
           status'[t] = IF t = current THEN "reverted" ELSE status[t]
    BY <1>0, <1>12 DEF RevertFails, Conclude, TypeOK
  <2>3. \A t \in loose' : agent = "remediate" =>
           status'[t] = "reverted" /\ t \in Fix
    BY <1>0, <2>1, <2>2 DEF CommitInv, TypeOK
  <2> QED
    BY <1>1, <2>1, <2>2, <2>3
<1>13. CASE Commit
  <2>1. /\ autoPr /\ pc = "next" /\ pc' = "over"
        /\ UNCHANGED <<agent, autoPr, status, tree, staged, loose>>
        /\ committed' = [f \in File |-> IF \E t \in Fixed : FileOf[t] = f
                                          THEN tree[f] ELSE staged[f]]
    BY <1>13 DEF Commit, Asked, History
  <2>2. agent = "remediate" /\ current = NoFix /\ Fixed' = Fixed
    BY <1>0, <2>1 DEF CommitInv, InHand, Fixed
  <2>3. ASSUME NEW f \in File, committed'[f] # NoText,
               \E t \in Fixed : FileOf[t] = f
        PROVE  committed'[f].fixes \subseteq Fixed'
    <3>1. PICK t \in Fixed : FileOf[t] = f
      BY <2>3
    <3>2. committed'[f] = tree[f] /\ t \in Fix /\ status[t] = "fixed"
      BY <2>1, <3>1 DEF Fixed
    <3>3. tree[f].fixes \subseteq Fixed \cup loose \cup {NoFix}
          /\ tree[f].fixes \subseteq FixesFor(f)
      BY <1>0, <2>2 DEF FilesMatchReport
    <3>4. ASSUME NEW u \in tree[f].fixes PROVE u \in Fixed
      <4>1. u \in Fix /\ FileOf[u] = f /\ u \in Fixed \cup loose
        BY <3>3, <3>4 DEF FixesFor
      <4>2. u \notin loose
        BY <2>1, <2>2, <3>1, <3>2, <4>1 DEF CommitInv
      <4> QED
        BY <4>1, <4>2
    <3> QED
      BY <2>2, <3>2, <3>4
  <2>4. CommitOnlyFixed'
    BY <2>1, <2>2, <2>3 DEF CommitOnlyFixed
  <2> QED
    BY <2>1, <2>2, <2>4 DEF CommitInv
<1>14. CASE Abort
  <2>1. /\ pc # "over" /\ pc' = "aborted"
        /\ UNCHANGED <<agent, autoPr, committed, status>>
    BY <1>14 DEF Abort, Asked
  <2> QED
    BY <1>1, <2>1
<1>15. CASE (\E f \in File : Save(f)) \/ UNCHANGED vars
  <2>1. UNCHANGED <<agent, autoPr, staged, committed, status, loose, pc>>
    BY <1>15 DEF Save, Asked, vars
  <2> QED
    BY <2>1 DEF CommitInv, CommitOnlyFixed, Fixed
<1> QED
  BY <1>5, <1>6, <1>7, <1>8, <1>9, <1>10, <1>11, <1>12, <1>13, <1>14, <1>15
     DEF Next, Step

\* No fix is committed that is not fixed, but for what the user has staged.
THEOREM OnlyFixedIsCommitted == Spec => []CommitOnlyFixed
<1>1. CommitInv => CommitOnlyFixed
  BY DEF CommitInv
<1>2. Init => ReportInv /\ CommitInv
  BY ReportInit, CommitInit
<1>3. ReportInv /\ CommitInv /\ [Next]_vars => (ReportInv /\ CommitInv)'
  BY ReportStep, CommitStep
<1> QED
  BY <1>1, <1>2, <1>3, PTL DEF Spec

-----------------------------------------------------------------------------
(* The user's saves.                                                       *)

\* A fix written over a save that the model had not seen.
Covered(f, fixes) == \E t \in unseen \cap fixes : FileOf[t] = f

\* What is held has the user's last save, or a fix that stays covers it, and
\* until the fix is written so has the backup.
EditsInv ==
    /\ pc = "writing" /\ Target \notin late =>
         backups[Target].save = tree[Target].save
    /\ pc # "aborted" => \A f \in File \ late :
         \/ Held(f).save = saves[f]
         \/ ~Held(f).whole
         \/ Covered(f, Fixed \cup loose)
    /\ EditsSurvive

LEMMA EditsInit == Init => EditsInv
<1> SUFFICES ASSUME Init PROVE EditsInv
  OBVIOUS
<1>1. \A f \in File : Held(f).save = saves[f] /\ tree[f].save = saves[f]
  BY DEF Init, Held, Judging
<1>2. pc # "writing"
  BY DEF Init
<1> QED
  BY <1>1, <1>2 DEF EditsInv, EditsSurvive

LEMMA EditsStep ==
  ReportInv /\ ReportInv' /\ EditsInv /\ [Next]_vars => EditsInv'
<1> SUFFICES ASSUME ReportInv, ReportInv', EditsInv, [Next]_vars
             PROVE  EditsInv'
  OBVIOUS
<1> USE RemediationConstants
<1>0. TypeOK /\ InHand /\ TypeOK' /\ EditsSurvive
  BY DEF ReportInv, EditsInv
\* Outside the judging the two parts say the same, but for the fix in hand.
<1>1. ASSUME ~Judging', pc' # "writing", UNCHANGED <<saves, late>>,
             Fixed \subseteq Fixed',
             loose \subseteq loose', unseen \subseteq unseen',
             \A f \in File \ late :
               \/ tree'[f].save = saves[f]
               \/ ~tree'[f].whole
               \/ Covered(f, Fixed' \cup loose')
      PROVE  EditsInv'
  <2>1. \A f \in File : Held(f)' = tree'[f]
    BY <1>1 DEF Held
  <2>2. \A f \in File : Covered(f, Fixed' \cup loose') =>
           Covered(f, Fixed \cup loose)'
    BY <1>1 DEF Covered
  <2>3. EditsSurvive'
    BY <1>1, <2>2 DEF EditsSurvive, Covered
  <2> QED
    BY <1>1, <2>1, <2>2, <2>3 DEF EditsInv
\* A step outside the judging that writes no text.
<1>2. ASSUME ~Judging, ~Judging', UNCHANGED <<saves, late, unseen, loose>>,
             Fixed' = Fixed, pc # "aborted", pc' # "writing",
             \A f \in File : /\ tree'[f].save = tree[f].save
                             /\ tree'[f].whole => tree[f].whole
      PROVE  EditsInv'
  <2>1. \A f \in File : Held(f) = tree[f]
    BY <1>2 DEF Held
  <2> QED
    BY <1>1, <1>2, <2>1 DEF EditsInv
\* The fix being judged stays, whether it should or not.
<1>3. ASSUME Judging, ~Judging', pc' # "writing",
             UNCHANGED <<saves, late, unseen>>,
             Fixed \subseteq Fixed', loose \subseteq loose',
             current \in Fixed' \cup loose',
             \A f \in File : /\ tree'[f].save = tree[f].save
                             /\ tree'[f].whole => tree[f].whole
      PROVE  EditsInv'
  <2>1. \A f \in File \ late :
           \/ tree[f].save = saves[f]
           \/ ~tree[f].whole
           \/ Covered(f, Fixed' \cup loose')
    BY <1>0, <1>3 DEF EditsSurvive, Covered
  <2> QED
    BY <1>1, <1>3, <2>1
\* The judging goes on.
<1>4. ASSUME Judging, Judging',
             UNCHANGED <<saves, late, unseen, loose, tree, backups, status,
                         current>>
      PROVE  EditsInv'
  <2>1. Fixed' = Fixed /\ \A f \in File : Held(f)' = Held(f)
    BY <1>4 DEF Fixed, Held, Target
  <2>2. pc # "aborted" /\ pc' # "aborted" /\ pc' # "writing"
    BY <1>4 DEF Judging
  <2> QED
    BY <1>4, <2>1, <2>2 DEF EditsInv, EditsSurvive, Covered
\* The run is left, with the fix in hand.
<1>5. ASSUME pc' = "aborted", UNCHANGED <<saves, late, unseen, current>>,
             Fixed' = Fixed, loose \subseteq loose',
             \A f \in File : /\ tree'[f].save = tree[f].save
                             /\ tree'[f].whole => tree[f].whole
      PROVE  EditsInv'
  <2>1. EditsSurvive'
    BY <1>0, <1>5 DEF EditsSurvive
  <2> QED
    BY <1>5, <2>1 DEF EditsInv
<1>6. pc \in {"fixing", "writing"} \/ Judging =>
        /\ status[current] = "pending" /\ current \in Fix
        /\ FileOf[current] \in File
  BY <1>0 DEF InHand, TypeOK, Replacing
<1>7. CASE Branch \/ (\E t \in Fix : Take(t)) \/ Commit \/ Finish
  <2>1. /\ ~Judging /\ ~Judging' /\ Fixed' = Fixed /\ pc # "aborted"
        /\ UNCHANGED <<saves, late, unseen, loose, tree>> /\ pc' # "writing"
    BY <1>7 DEF Branch, Take, Commit, Finish, Judging, Fixed, History
  <2> QED
    BY <1>2, <2>1
<1>8. CASE GiveUp
  <2>1. /\ ~Judging /\ ~Judging' /\ Fixed' = Fixed /\ pc # "aborted"
        /\ pc' # "writing"
    BY <1>0, <1>6, <1>8, Concluded DEF GiveUp, Judging
  <2> QED
    BY <1>2, <1>8, <2>1 DEF GiveUp, History
<1>20. CASE TakeBackup
  <2>1. /\ ~Judging /\ ~Judging' /\ pc = "fixing" /\ pc' = "writing"
        /\ UNCHANGED <<current, status, tree, saves, late, unseen, loose>>
        /\ backups' = [backups EXCEPT ![Target] = tree[Target]]
        /\ Target \in File
    BY <1>6, <1>20 DEF TakeBackup, Backup, Judging, Target, History
  <2>2. /\ backups'[Target] = tree[Target] /\ Target' = Target
        /\ Fixed' = Fixed
    BY <1>0, <2>1 DEF TypeOK, Target, Fixed
  <2>3. \A f \in File : Held(f) = tree[f] /\ Held(f)' = tree[f]
    BY <2>1 DEF Held
  <2>4. EditsSurvive'
    BY <1>0, <2>1, <2>2 DEF EditsSurvive
  <2> QED
    BY <2>1, <2>2, <2>3, <2>4 DEF EditsInv, Covered
<1>9. CASE Apply
  <2>1. /\ pc = "writing" /\ pc' = "test" /\ ~Judging /\ Judging'
        /\ current \in Fix /\ Target \in File /\ source \in Text
        /\ UNCHANGED <<current, status, backups, loose, saves, late>>
    BY <1>0, <1>6, <1>9 DEF Apply, Judging, TypeOK, Target
  <2>2. Fixed' = Fixed /\ Target' = Target
    BY <2>1 DEF Fixed, Target
  <2>3. /\ tree'[Target] =
             [source EXCEPT !.fixes = source.fixes \cup {current}]
        /\ \A f \in File \ {Target} : tree'[f] = tree[f]
        /\ unseen' = IF tree[Target].save = source.save THEN unseen
                     ELSE unseen \cup {current}
    BY <1>0, <1>9, <2>1 DEF Apply, Target, TypeOK
  <2>4. tree'[Target].save = source.save /\ tree'[Target].whole = source.whole
    BY <2>1, <2>3 DEF Text
  <2>5. source.whole = tree[Target].whole
    BY <1>0, <2>1 DEF InHand
  <2>6. \A f \in File \ late :
           /\ Held(f) = tree[f]
           /\ Held(f)'.save = tree[f].save /\ Held(f)'.whole = tree[f].whole
    BY <1>0, <2>1, <2>2, <2>3 DEF Held, EditsInv, InHand
  <2>7. \A f \in File \ late :
           \/ tree[f].save = saves[f]
           \/ ~tree[f].whole
           \/ Covered(f, Fixed \cup loose)
    BY <2>1, <2>6 DEF EditsInv
  <2>8. \A f \in File : Covered(f, Fixed \cup loose) =>
           Covered(f, Fixed \cup loose)'
    BY <2>1, <2>2, <2>3 DEF Covered
  <2>9. \A f \in File \ late' :
           \/ Held(f)'.save = saves'[f]
           \/ ~Held(f)'.whole
           \/ Covered(f, Fixed \cup loose)'
    BY <2>1, <2>6, <2>7, <2>8
  <2>10. ASSUME NEW f \in File \ late'
         PROVE  \/ tree'[f].save = saves'[f]
                \/ ~tree'[f].whole
                \/ \E t \in unseen' \cap (Fixed' \cup loose' \cup {current'}) :
                     FileOf[t] = f
    <3>1. CASE f # Target
      BY <2>1, <2>3, <2>7, <2>8, <3>1 DEF Covered
    <3>2. CASE f = Target /\ tree[Target].save = source.save
      BY <2>1, <2>3, <2>4, <2>5, <2>7, <2>8, <3>2 DEF Covered
    <3>3. CASE f = Target /\ tree[Target].save # source.save
      <4>1. current \in unseen' /\ FileOf[current] = f
        BY <2>3, <3>3 DEF Target
      <4> QED
        BY <2>1, <4>1
    <3> QED
      BY <3>1, <3>2, <3>3
  <2> QED
    BY <2>1, <2>9, <2>10 DEF EditsInv, EditsSurvive
<1>10. CASE ApplyFails
  <2>1. /\ ~Judging /\ ~Judging' /\ Fixed' = Fixed /\ pc # "aborted"
        /\ pc' # "writing"
    BY <1>0, <1>6, <1>10, Concluded DEF ApplyFails, Judging
  <2>2. \A f \in File : /\ tree'[f].save = tree[f].save
                        /\ tree'[f].whole => tree[f].whole
    BY <1>0, <1>6, <1>10, FailedWriteKeeps DEF ApplyFails
  <2> QED
    BY <1>2, <1>10, <2>1, <2>2 DEF ApplyFails, History
<1>11. CASE TestsPass
  <2>1. Judging /\ UNCHANGED <<tree, backups, saves, late, unseen, loose>>
    BY <1>11 DEF TestsPass, Judging
  <2>2. CASE agent = "remediate"
    BY <1>4, <1>11, <2>1, <2>2 DEF TestsPass, Judging
  <2>3. CASE agent # "remediate"
    <3>1. Conclude("fixed")
      BY <1>11, <2>3 DEF TestsPass
    <3>2. Fixed' = Fixed \cup {current} /\ ~Judging' /\ pc' # "writing"
      BY <1>0, <1>6, <2>1, <3>1, Concluded
    <3> QED
      BY <1>3, <2>1, <3>2
  <2> QED
    BY <2>2, <2>3
<1>12. CASE TestsFail
  BY <1>4, <1>12 DEF TestsFail, Judging, History
<1>13. CASE TestsRaise
  <2>1. Judging /\ loose' = loose \cup {current}
        /\ UNCHANGED <<tree, saves, late, unseen>>
    BY <1>13 DEF TestsRaise, Judging
  <2>2. CASE agent = "cleanup"
    <3>1. Fixed' = Fixed /\ ~Judging' /\ pc' # "writing"
      BY <1>0, <1>6, <1>13, <2>1, <2>2, Concluded DEF TestsRaise
    <3> QED
      BY <1>3, <2>1, <3>1
  <2>3. CASE agent # "cleanup"
    <3>1. pc' = "aborted" /\ UNCHANGED <<status, current>> /\ Fixed' = Fixed
      BY <1>13, <2>3 DEF TestsRaise, Fixed
    <3> QED
      BY <1>5, <2>1, <3>1
  <2> QED
    BY <2>2, <2>3
<1>14. CASE Verify
  <2>1. Judging /\ UNCHANGED <<tree, backups, saves, late, unseen, loose>>
    BY <1>14 DEF Verify, Judging, History
  <2>2. CASE Conclude("fixed")
    <3>1. Fixed' = Fixed \cup {current} /\ ~Judging' /\ pc' # "writing"
      BY <1>0, <1>6, <2>1, <2>2, Concluded
    <3> QED
      BY <1>3, <2>1, <3>1
  <2>3. CASE pc' = "revert" /\ UNCHANGED <<status, current>>
    BY <1>4, <2>1, <2>3 DEF Judging
  <2> QED
    BY <1>14, <2>2, <2>3 DEF Verify
<1>15. CASE Revert
  <2>1. /\ Judging /\ pc = "revert" /\ Target \in File
        /\ UNCHANGED <<saves, late, unseen, loose>>
        /\ tree' = [tree EXCEPT ![Target] = backups[Target]]
    BY <1>6, <1>15 DEF Revert, Judging, Target, History
  <2>2. Fixed' = Fixed /\ ~Judging' /\ pc' # "writing"
    BY <1>0, <1>6, <1>15, <2>1, Concluded DEF Revert
  <2>3. \A f \in File : tree'[f] = Held(f)
    BY <1>0, <2>1 DEF Held, TypeOK
  <2>4. \A f \in File \ late :
           \/ tree'[f].save = saves[f]
           \/ ~tree'[f].whole
           \/ Covered(f, Fixed' \cup loose')
    BY <2>1, <2>2, <2>3 DEF EditsInv
  <2> QED
    BY <1>1, <2>1, <2>2, <2>4
<1>16. CASE RevertFails
  <2>1. /\ Judging /\ loose' = loose \cup {current}
        /\ UNCHANGED <<saves, late, unseen>>
    BY <1>16 DEF RevertFails, Judging
  <2>2. Fixed' = Fixed /\ ~Judging' /\ pc' # "writing"
    BY <1>0, <1>6, <1>16, <2>1, Concluded DEF RevertFails
  <2>3. \A f \in File : /\ tree'[f].save = tree[f].save
                        /\ tree'[f].whole => tree[f].whole
    BY <1>0, <1>6, <1>16, <2>1, FailedWriteKeeps DEF RevertFails
  <2> QED
    BY <1>3, <2>1, <2>2, <2>3
<1>17. CASE Abort
  <2>1. /\ pc' = "aborted" /\ UNCHANGED <<current, saves, late, unseen, loose>>
        /\ Fixed' = Fixed
    BY <1>17 DEF Abort, History, Fixed
  <2>2. \A f \in File : /\ tree'[f].save = tree[f].save
                        /\ tree'[f].whole => tree[f].whole
    <3>1. CASE pc \in {"writing", "revert"}
      BY <1>0, <1>6, <1>17, <3>1, FailedWriteKeeps DEF Abort, Judging
    <3>2. CASE pc \notin {"writing", "revert"}
      BY <1>17, <3>2 DEF Abort
    <3> QED
      BY <3>1, <3>2
  <2> QED
    BY <1>5, <2>1, <2>2
<1>18. ASSUME NEW f \in File, Save(f) PROVE EditsInv'
  <2>1. /\ UNCHANGED <<pc, current, status, backups, unseen, loose>>
        /\ Fixed' = Fixed /\ (Judging' <=> Judging) /\ Target' = Target
        /\ late' = IF Replacing /\ Target = f THEN late \cup {f} ELSE late \ {f}
        /\ Judging => Replacing
    BY <1>18 DEF Save, Fixed, Judging, Replacing, Target
  <2>2. /\ \A g \in File \ {f} : tree'[g] = tree[g] /\ saves'[g] = saves[g]
        /\ tree'[f].save = saves'[f]
    BY <1>0, <1>18, SaveKeeps DEF Save, TypeOK
  <2>3. EditsSurvive'
    BY <1>0, <2>1, <2>2 DEF EditsSurvive
  <2>5. pc' = "writing" /\ Target' \notin late' =>
          backups'[Target'].save = tree'[Target'].save
    <3> SUFFICES ASSUME pc = "writing", Target \notin late'
                 PROVE  backups[Target].save = tree'[Target].save
      BY <2>1
    <3>1. Target # f /\ Target \in File /\ Target \notin late
      BY <1>6, <2>1 DEF Replacing, Target
    <3> QED
      BY <2>2, <3>1 DEF EditsInv
  <2>4. ASSUME NEW g \in File \ late', pc # "aborted"
        PROVE  \/ Held(g)'.save = saves'[g]
               \/ ~Held(g)'.whole
               \/ Covered(g, Fixed \cup loose)'
    <3>1. CASE g = f
      <4>1. Held(g)' = tree'[f]
        BY <2>1, <2>4, <3>1 DEF Held
      <4> QED
        BY <2>2, <3>1, <4>1
    <3>2. CASE g # f
      <4>1. Held(g)' = Held(g) /\ saves'[g] = saves[g] /\ g \notin late
        BY <2>1, <2>2, <2>4, <3>2 DEF Held
      <4> QED
        BY <2>1, <2>4, <4>1 DEF EditsInv, Covered
    <3> QED
      BY <3>1, <3>2
  <2> QED
    BY <2>1, <2>3, <2>4, <2>5 DEF EditsInv
<1>19. CASE (\E f \in File : StageFile(f)) \/ UNCHANGED vars
  <2>1. UNCHANGED <<pc, current, status, backups, tree, saves, late, unseen,
                    loose>>
    BY <1>19 DEF StageFile, History, vars
  <2> QED
    BY <2>1 DEF EditsInv, EditsSurvive, Covered, Held, Judging, Target, Fixed
<1> QED
  BY <1>7, <1>8, <1>9, <1>10, <1>11, <1>12, <1>13, <1>14, <1>15, <1>16, <1>17,
     <1>18, <1>19, <1>20 DEF Next, Step

\* Whatever is saved before the backup for a fix is still there when the fix is
\* reverted; the saves that may be lost are those that come after the backup
\* and before the decision, and those a fix that stays was written over.
THEOREM SavesSurviveReverts == Spec => []EditsSurvive
<1>1. EditsInv => EditsSurvive
  BY DEF EditsInv
<1>2. Init => ReportInv /\ EditsInv
  BY ReportInit, EditsInit
<1>3. ReportInv /\ EditsInv /\ [Next]_vars => (ReportInv /\ EditsInv)'
  BY ReportStep, EditsStep
<1> QED
  BY <1>1, <1>2, <1>3, PTL DEF Spec

-----------------------------------------------------------------------------
(* A run gets somewhere.                                                   *)

LEMMA Stages ==
  /\ Stage["start"] = 0 /\ Stage["next"] = 1 /\ Stage["fixing"] = 2
  /\ Stage["writing"] = 3 /\ Stage["test"] = 4 /\ Stage["verify"] = 5
  /\ Stage["revert"] = 6 /\ Stage["over"] = 7 /\ Stage["aborted"] = 7
  BY DEF Stage

\* What is decided stays so.
DecidedStay == \A t \in Fix \ Pending : status'[t] = status[t]

\* A fix is decided, or the run goes on to a later stage.
Further == \/ Pending' \subseteq Pending /\ Pending' # Pending
           \/ Pending' = Pending /\ Stage[pc] < Stage[pc']

\* Concluding decides the fix in hand.
LEMMA ConcludeDecides ==
  ASSUME TypeOK, current \in Fix, status[current] = "pending",
         NEW s \in {"skipped", "failed", "reverted", "fixed"}, Conclude(s)
  PROVE  DecidedStay /\ Further
<1>1. \A t \in Fix : status'[t] = IF t = current THEN s ELSE status[t]
  BY DEF TypeOK, Conclude
<1>2. current \in Pending /\ current \notin Pending'
  BY <1>1 DEF Pending
<1>3. Pending' \subseteq Pending
  BY <1>1 DEF Pending
<1>4. DecidedStay
  BY <1>1 DEF DecidedStay, Pending
<1> QED
  BY <1>2, <1>3, <1>4 DEF Further

LEMMA RunGoesFurther ==
  ReportInv /\ [Next]_vars => DecidedStay /\ (Step => Further)
<1> SUFFICES ASSUME ReportInv, [Next]_vars
             PROVE  DecidedStay /\ (Step => Further)
  OBVIOUS
<1>0. /\ TypeOK
      /\ pc \in {"fixing", "writing"} \/ Judging =>
           status[current] = "pending" /\ current \in Fix
  BY DEF ReportInv, InHand, TypeOK, Replacing
\* The statuses stay, and the run moves.
<1>1. ASSUME UNCHANGED status PROVE DecidedStay /\ Pending' = Pending
  BY <1>1 DEF DecidedStay, Pending
<1>2. ASSUME UNCHANGED status, Stage[pc] < Stage[pc']
      PROVE  DecidedStay /\ Further
  BY <1>1, <1>2 DEF Further
<1>3. CASE Branch
  BY <1>2, <1>3, Stages DEF Branch
<1>4. CASE \E t \in Fix : Take(t)
  BY <1>2, <1>4, Stages DEF Take
<1>5. CASE GiveUp
  BY <1>0, <1>5, ConcludeDecides DEF GiveUp
<1>6. CASE TakeBackup \/ Apply
  BY <1>2, <1>6, Stages DEF TakeBackup, Apply
<1>7. CASE ApplyFails
  <2>1. PICK s \in {"failed", "skipped"} : Conclude(s)
    BY <1>7 DEF ApplyFails
  <2> QED
    BY <1>0, <1>7, <2>1, ConcludeDecides DEF ApplyFails
<1>8. CASE TestsPass
  BY <1>0, <1>2, <1>8, ConcludeDecides, Stages DEF TestsPass, Judging
<1>9. CASE TestsFail
  BY <1>2, <1>9, Stages DEF TestsFail
<1>10. CASE TestsRaise
  BY <1>0, <1>2, <1>10, ConcludeDecides, Stages DEF TestsRaise, Judging
<1>11. CASE Verify
  BY <1>0, <1>2, <1>11, ConcludeDecides, Stages DEF Verify, Judging
<1>12. CASE Revert \/ RevertFails
  BY <1>0, <1>12, ConcludeDecides DEF Revert, RevertFails, Judging
<1>13. CASE Commit \/ Finish
  BY <1>2, <1>13, Stages DEF Commit, Finish
<1>14. CASE ~Step
  <2>1. UNCHANGED status
    BY <1>14 DEF Next, Abort, Save, StageFile, vars
  <2> QED
    BY <1>1, <1>14, <2>1
<1> QED
  BY <1>3, <1>4, <1>5, <1>6, <1>7, <1>8, <1>9, <1>10, <1>11, <1>12, <1>13,
     <1>14 DEF Step

\* However many fixes, files, saves and failures there are, each fix is tried
\* and decided once, and the run comes to its end in a bounded number of steps
\* (orchestrator.py:101-132, 186-260; cleanup_orchestrator.py:307-412, 503-572).
THEOREM RunsAreFinite == Spec => RunAdvances
<1>1. ReportInv /\ [Next]_vars =>
        [/\ \A t \in Fix \ Pending : status'[t] = status[t]
         /\ Step => \/ Pending' \subseteq Pending /\ Pending' # Pending
                    \/ Pending' = Pending /\ Stage[pc] < Stage[pc']]_vars
  BY RunGoesFurther DEF DecidedStay, Further
<1>2. Init => ReportInv
  BY ReportInit
<1>3. ReportInv /\ [Next]_vars => ReportInv'
  BY ReportStep
<1> QED
  BY <1>1, <1>2, <1>3, PTL DEF Spec, RunAdvances

=============================================================================
