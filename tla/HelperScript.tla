---------------------------- MODULE HelperScript ----------------------------
(***************************************************************************)
(* The Windows update helper: the batch file apply_update.bat that         *)
(* UpdaterService::CreateUpdateHelperScript writes into the staging        *)
(* directory (configure_filesystem.cpp, lines 581-681) and                 *)
(* LaunchUpdateHelper starts detached (683-689).                           *)
(*                                                                         *)
(* The script runs concurrently with the emulator it replaces: it polls    *)
(* for citron.exe to exit, copies the staging tree over the installation   *)
(* with robocopy, relaunches the emulator and deletes the staging          *)
(* directory.  cmd.exe reads a batch file line by line from disk, so once  *)
(* the file itself is deleted (by `rd` of the staging directory it lives   *)
(* in, or by `del "%~f0"`) the script ends at its next line.               *)
(*                                                                         *)
(* The installation and the staging tree are abstracted to whether they   *)
(* hold the old build, the new one or a mixture, and whether they exist.   *)
(***************************************************************************)
EXTENDS Naturals

CONSTANTS
    MaxWait,        \* `if !wait_count! gtr 60`
    CopyTries,      \* `if !copy_retries! lss 3`
    CleanupTries    \* `if !cleanup_retries! lss 5`

ASSUME ScriptAssumption ==
    /\ MaxWait \in Nat
    /\ CopyTries \in Nat \ {0}
    /\ CleanupTries \in Nat \ {0}

\* Program points of the script.  "paused" is the `pause` before
\* `exit /b 1`; "vanished" is cmd.exe stopping because the batch file no
\* longer exists.
Label == {"wait", "copy", "start", "cleanup", "selfdelete",
          "paused", "exited1", "vanished"}
Ended == {"paused", "exited1", "vanished"}

\* robocopy's exit code: below 8 every file was copied; 8-15 some files
\* failed after robocopy's own /R:3 retries; 16 a fatal error, nothing
\* copied.
RobocopyExit == {"copied", "some_failed", "fatal"}

VARIABLES
    pc,               \* the line the script is at
    wait_count,       \* the script's counters
    copy_retries,
    cleanup_retries,
    emulator,         \* a citron.exe process exists ("running") or not
    install,          \* the installation directory: "old", "mixed", "new"
    staging,          \* update_staging: "present", "partial", "gone"
    script_file       \* apply_update.bat still exists

vars == <<pc, wait_count, copy_retries, cleanup_retries, emulator, install,
          staging, script_file>>

-----------------------------------------------------------------------------
\* The script has just been started by LaunchUpdateHelper, from the
\* emulator, which is expected to quit.
Init ==
    /\ pc = "wait"
    /\ wait_count = 0
    /\ copy_retries = 0
    /\ cleanup_retries = 0
    /\ emulator = "running"
    /\ install = "old"
    /\ staging = "present"
    /\ script_file = TRUE

\* The environment: the emulator process quits (the user closes it).
EmulatorExits ==
    /\ emulator = "running"
    /\ emulator' = "exited"
    /\ UNCHANGED <<pc, wait_count, copy_retries, cleanup_retries, install,
                   staging, script_file>>

\* Mutant: `set /a wait_count=0` sits after the :wait_loop label, so every
\* poll counts from zero again and the loop never gives up.
WaitPollResetInLoop ==
    /\ pc = "wait"
    /\ IF emulator = "running"
       THEN /\ wait_count' = 1
            /\ pc' = IF 1 > MaxWait THEN "copy" ELSE "wait"
       ELSE /\ pc' = "copy"
            /\ wait_count' = 0
    /\ UNCHANGED <<copy_retries, cleanup_retries, emulator, install,
                   staging, script_file>>

\* :wait_loop, one poll of tasklist: while citron.exe runs, count and sleep
\* a second, giving up after MaxWait polls; then wait 2 s and clear the
\* read-only attributes (not modelled).
WaitPoll ==
    /\ pc = "wait"
    /\ IF emulator = "running"
       THEN /\ wait_count' = wait_count + 1
            /\ pc' = IF wait_count + 1 > MaxWait THEN "copy" ELSE "wait"
       ELSE /\ pc' = "copy"
            /\ UNCHANGED wait_count
    /\ UNCHANGED <<copy_retries, cleanup_retries, emulator, install,
                   staging, script_file>>

\* What a robocopy run does to the installation.  A running emulator locks
\* citron.exe, so the copy of that file fails whatever happens to the rest.
RobocopyEffect(code) ==
    CASE code = "copied"      -> install' = "new"
      [] code = "some_failed" -> install' = "mixed"
      [] code = "fatal"       -> install' = install

RobocopyCanExit ==
    IF emulator = "running" THEN {"some_failed", "fatal"} ELSE RobocopyExit

\* Mutant: the success threshold `geq 8` is written `geq 16`.
RobocopyThreshold16 ==
    /\ pc = "copy"
    /\ \E code \in RobocopyCanExit :
         /\ RobocopyEffect(code)
         /\ IF code = "fatal"
            THEN /\ copy_retries' = copy_retries + 1
                 /\ pc' = IF copy_retries + 1 < CopyTries THEN "copy"
                          ELSE "paused"
            ELSE /\ pc' = "start"
                 /\ UNCHANGED copy_retries
    /\ UNCHANGED <<wait_count, cleanup_retries, emulator, staging,
                   script_file>>

\* :copy_loop, one robocopy run and its exit-code test: 8 or more counts a
\* retry, and after CopyTries failures the script pauses and exits 1;
\* below 8 it goes on.  The verification that citron.exe exists always
\* passes: robocopy without /MIR or /PURGE deletes nothing.
Robocopy ==
    /\ pc = "copy"
    /\ \E code \in RobocopyCanExit :
         /\ RobocopyEffect(code)
         /\ IF code # "copied"
            THEN /\ copy_retries' = copy_retries + 1
                 /\ pc' = IF copy_retries + 1 < CopyTries THEN "copy"
                          ELSE "paused"
            ELSE /\ pc' = "start"
                 /\ UNCHANGED copy_retries
    /\ UNCHANGED <<wait_count, cleanup_retries, emulator, staging,
                   script_file>>

\* `start "" citron.exe`: the updated emulator is relaunched.
Relaunch ==
    /\ pc = "start"
    /\ pc' = "cleanup"
    /\ emulator' = "running"
    /\ UNCHANGED <<wait_count, copy_retries, cleanup_retries, install,
                   staging, script_file>>

\* Mutant: the retry test is `leq 5`, one removal too many.
RemoveStagingOneMore ==
    /\ pc = "cleanup"
    /\ \/ /\ staging' = "gone"
          /\ script_file' = FALSE
          /\ pc' = "vanished"
          /\ UNCHANGED cleanup_retries
       \/ /\ staging' = "partial"
          /\ script_file' = FALSE
          /\ pc' = "vanished"
          /\ UNCHANGED cleanup_retries
       \/ /\ staging' = "partial"
          /\ UNCHANGED script_file
          /\ cleanup_retries' = cleanup_retries + 1
          /\ pc' = IF cleanup_retries + 1 <= CleanupTries THEN "cleanup"
                   ELSE "selfdelete"
    /\ UNCHANGED <<wait_count, copy_retries, emulator, install>>

\* :cleanup_loop, one `rd /s /q` of the staging directory, which holds the
\* script itself.  rd removes what it can: everything, or all but some
\* locked file, and apply_update.bat may be among what it removed.  If the
\* script is gone cmd.exe stops; else `if exist` retries up to
\* CleanupTries times and falls through to the self-delete.
RemoveStaging ==
    /\ pc = "cleanup"
    /\ \/ /\ staging' = "gone"
          /\ script_file' = FALSE
          /\ pc' = "vanished"
          /\ UNCHANGED cleanup_retries
       \/ /\ staging' = "partial"
          /\ script_file' = FALSE
          /\ pc' = "vanished"
          /\ UNCHANGED cleanup_retries
       \/ /\ staging' = "partial"
          /\ UNCHANGED script_file
          /\ cleanup_retries' = cleanup_retries + 1
          /\ pc' = IF cleanup_retries + 1 < CleanupTries THEN "cleanup"
                   ELSE "selfdelete"
    /\ UNCHANGED <<wait_count, copy_retries, emulator, install>>

\* `del "%~f0"`: the script deletes itself and cmd.exe stops at the next
\* line, before `exit /b 0`.
SelfDelete ==
    /\ pc = "selfdelete"
    /\ pc' = "vanished"
    /\ script_file' = FALSE
    /\ UNCHANGED <<wait_count, copy_retries, cleanup_retries, emulator,
                   install, staging>>

\* The user presses a key at `pause`; the script exits with code 1.
PressKey ==
    /\ pc = "paused"
    /\ pc' = "exited1"
    /\ UNCHANGED <<wait_count, copy_retries, cleanup_retries, emulator,
                   install, staging, script_file>>

ScriptStep == WaitPoll \/ Robocopy \/ Relaunch \/ RemoveStaging \/ SelfDelete

Next == EmulatorExits \/ ScriptStep \/ PressKey

Spec == Init /\ [][Next]_vars

\* cmd.exe keeps executing the script; nothing makes the user close the
\* emulator or press a key.
FairSpec == Spec /\ WF_vars(ScriptStep)

-----------------------------------------------------------------------------
(* Properties. *)

TypeOK ==
    /\ pc \in Label
    /\ wait_count \in 0..MaxWait + 1
    /\ copy_retries \in 0..CopyTries
    /\ cleanup_retries \in 0..CleanupTries
    /\ emulator \in {"running", "exited"}
    /\ install \in {"old", "mixed", "new"}
    /\ staging \in {"present", "partial", "gone"}
    /\ script_file \in BOOLEAN

\* The script does not hang: whether or not the emulator ever quits, it
\* ends or stops at `pause` for the user (spec section 4.5: the wait is
\* bounded and proceeds with a warning).
ScriptEnds == <>(pc \in Ended)

\* The emulator is relaunched, and the staging tree deleted, only over a
\* completely applied installation: robocopy's exit code is told apart at
\* the right threshold.
RelaunchOnlyComplete ==
    pc \in {"start", "cleanup", "selfdelete", "vanished"} => install = "new"

\* The staging directory does not survive the update (spec section 8).
StagingPurged ==
    pc \in {"exited1", "vanished"} => staging = "gone"

=============================================================================
