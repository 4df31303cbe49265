----------------------------- MODULE EditorScans -----------------------------
(***************************************************************************)
(* The static scans of the VS Code extension                               *)
(* (editors/vscode/src/scanner.ts, extension.ts, store.ts): a scan is a    *)
(* child process.  Every saved file is scanned, a new scan kills the one   *)
(* before it, and the close event of a process, whenever it comes, hands   *)
(* its output to the store of findings.                                    *)
(*                                                                         *)
(* The extension has one thread: a handler runs to its end, with what it   *)
(* awaits that is settled already.  Child processes run beside it.         *)
(***************************************************************************)
EXTENDS Naturals

CONSTANTS
    File,      \* the files of the workspace
    Scan,      \* the child processes there may be, each used once
    NoScan,    \* activeProcess is null
    All,       \* the target of a scan of the workspace
    NoOutput,  \* a process that has printed nothing
    Garbled,   \* a process that has printed a part of its report
    NoFinding, \* an empty list of findings
    Unknown,   \* a file the store has no list for
    MaxSaves   \* bound: how often each file is saved

(* NoScan is no scan, All no file, and MaxSaves a natural number.          *)

VARIABLES
    disk,      \* how often each file was saved
    target,    \* what each process scans
    state,     \* where each process stands
    output,    \* what each process has printed: the texts it has found
    active,    \* activeProcess
    focused,   \* FindingsStore.focusedCliFindingsByFile
    workspace, \* FindingsStore.workspaceCliFindingsByFile
    failed     \* has a scan been reported as failed?

vars == <<disk, target, state, output, active, focused, workspace, failed>>

-----------------------------------------------------------------------------
\* The findings of a file are known by the text they were found in.
Version == 0 .. MaxSaves
Found == Version \cup {NoFinding}

TypeOK ==
    /\ disk \in [File -> Version]
    /\ target \in [Scan -> File \cup {All}]
    /\ state \in [Scan -> {"unused", "running", "killed", "exited", "closed"}]
    /\ output \in [Scan -> [File -> Version] \cup {NoOutput, Garbled}]
    /\ active \in Scan \cup {NoScan}
    /\ focused \in [File -> Found \cup {Unknown}]
    /\ workspace \in [File -> Found \cup {Unknown}]
    /\ failed \in BOOLEAN

Init ==
    /\ disk = [f \in File |-> 0]
    /\ target = [s \in Scan |-> All]
    /\ state = [s \in Scan |-> "unused"]
    /\ output = [s \in Scan |-> NoOutput]
    /\ active = NoScan
    /\ focused = [f \in File |-> Unknown]
    /\ workspace = [f \in File |-> Unknown]
    /\ failed = FALSE

-----------------------------------------------------------------------------
(* The extension.                                                          *)

\* cancelScan, then spawn: the process that is active gets a signal.
Start(s, what) ==
    /\ state[s] = "unused"
    /\ state' = [r \in Scan |-> IF r = s THEN "running"
                                ELSE IF r = active /\ state[r] = "running"
                                THEN "killed"
                                ELSE state[r]]
    /\ target' = [target EXCEPT ![s] = what]
    /\ active' = s
    /\ UNCHANGED <<output, focused, workspace, failed>>

\* onDidSaveTextDocument
SaveFile(f, s) ==
    /\ disk[f] < MaxSaves
    /\ disk' = [disk EXCEPT ![f] = @ + 1]
    /\ Start(s, f)

\* The commands that scan a file, or the workspace, without a save.
Command(s) ==
    /\ \E what \in File \cup {All} : Start(s, what)
    /\ UNCHANGED disk

\* What a report says of a file.  Nothing printed is read as an empty report.
Reported(s, f) ==
    IF output[s] = NoOutput THEN NoFinding ELSE output[s][f]

\* setFocusedCLIFindings, setWorkspaceCLIFindings
Show(s) ==
    IF target[s] = All
    THEN /\ workspace' = [f \in File |->
              IF Reported(s, f) = NoFinding THEN Unknown ELSE Reported(s, f)]
         /\ focused' = [f \in File |-> Unknown]
    ELSE /\ focused' = [focused EXCEPT ![target[s]] = Reported(s, target[s])]
         /\ UNCHANGED workspace

\* The close event: no process is active now, whoever it was.
Close(s) ==
    /\ state[s] = "exited"
    /\ state' = [state EXCEPT ![s] = "closed"]
    /\ active' = NoScan
    /\ IF output[s] = Garbled
         THEN failed' = TRUE /\ UNCHANGED <<focused, workspace>>
         ELSE Show(s) /\ UNCHANGED failed
    /\ UNCHANGED <<disk, target, output>>

\* The error event: the process could not be started.
SpawnFails(s) ==
    /\ state[s] = "running"
    /\ state' = [state EXCEPT ![s] = "closed"]
    /\ active' = NoScan
    /\ failed' = TRUE
    /\ UNCHANGED <<disk, target, output, focused, workspace>>

-----------------------------------------------------------------------------
(* The child processes: skylos --json prints its report at its end.        *)

PrintReport(s) ==
    /\ state[s] \in {"running", "killed"}
    /\ state' = [state EXCEPT ![s] = "exited"]
    /\ output' = [output EXCEPT ![s] = disk]
    /\ UNCHANGED <<disk, target, active, focused, workspace, failed>>

\* The signal arrives before the report is printed, or in the middle of it.
Die(s) ==
    /\ state[s] = "killed"
    /\ state' = [state EXCEPT ![s] = "exited"]
    /\ \E printed \in {NoOutput, Garbled} :
         output' = [output EXCEPT ![s] = printed]
    /\ UNCHANGED <<disk, target, active, focused, workspace, failed>>

Next ==
    \E s \in Scan :
      \/ \E f \in File : SaveFile(f, s)
      \/ Command(s)
      \/ Close(s) \/ SpawnFails(s) \/ PrintReport(s) \/ Die(s)

Spec == Init /\ [][Next]_vars

-----------------------------------------------------------------------------
(* Properties.                                                             *)

\* getCurrentCLIFindingsForFile
Shown(f) == IF focused[f] # Unknown THEN focused[f] ELSE workspace[f]

AtRest == \A s \in Scan : state[s] \in {"unused", "closed"}

\* "Save any file -> Skylos CLI refreshes findings for that file"
\* (editors/vscode/README.md:72): when no scan is left and none was reported
\* as failed, the findings of a saved file are those of its present text.
SaveRefreshes ==
    AtRest /\ ~failed =>
      \A f \in File : disk[f] > 0 => Shown(f) = disk[f]

=============================================================================
