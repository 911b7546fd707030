------------------------- MODULE HelperScript_proofs -------------------------
(***************************************************************************)
(* Proofs about the Windows update helper apply_update.bat, for every      *)
(* value of the script's bounds MaxWait, CopyTries and CleanupTries.       *)
(***************************************************************************)
EXTENDS HelperScript, TLAPS

USE ScriptAssumption

\* TypeOK and RelaunchOnlyComplete are not inductive as they stand: a
\* counter stays within its bound only because the script leaves a loop
\* when the bound is reached, so while it is at the loop's label the count
\* is still below the bound, and a loop's counter is still zero when the
\* script enters it; "vanished" is entered with a replaced installation
\* only because it is entered from the cleanup.
IInv ==
    /\ TypeOK
    /\ pc = "wait" => copy_retries = 0
    /\ pc \in {"wait", "copy", "start"} => cleanup_retries = 0
    /\ pc = "wait" => wait_count <= MaxWait
    /\ pc = "copy" => copy_retries < CopyTries
    /\ pc = "cleanup" => cleanup_retries < CleanupTries
    /\ RelaunchOnlyComplete

LEMMA InitIInv == Init => IInv
    BY DEF Init, IInv, TypeOK, Label, RelaunchOnlyComplete

LEMMA NextIInv == IInv /\ [Next]_vars => IInv'
<1> SUFFICES ASSUME IInv, [Next]_vars PROVE IInv'
    OBVIOUS
<1>1. CASE EmulatorExits
    BY <1>1 DEF EmulatorExits, IInv, TypeOK, RelaunchOnlyComplete
<1>2. CASE WaitPoll
    BY <1>2 DEF WaitPoll, IInv, TypeOK, Label, RelaunchOnlyComplete
<1>3. CASE Robocopy
    <2>1. PICK code \in RobocopyCanExit :
              /\ RobocopyEffect(code)
              /\ IF code # "copied"
                 THEN /\ copy_retries' = copy_retries + 1
                      /\ pc' = IF copy_retries + 1 < CopyTries THEN "copy"
                               ELSE "paused"
                 ELSE /\ pc' = "start"
                      /\ UNCHANGED copy_retries
        BY <1>3 DEF Robocopy
    <2>2. code \in {"copied", "some_failed", "fatal"}
        BY <2>1 DEF RobocopyCanExit, RobocopyExit
    \* Only an exit code below 8 leads on to the relaunch, and only that
    \* one leaves the new build in place.
    <2>3. CASE code = "copied"
        <3>1. install' = "new" /\ pc' = "start"
            BY <2>1, <2>3 DEF RobocopyEffect
        <3>2. QED
            BY <3>1, <1>3 DEF Robocopy, IInv, TypeOK, Label,
                              RelaunchOnlyComplete
    <2>4. CASE code # "copied"
        <3>1. install' \in {"old", "mixed", "new"}
            BY <2>1, <2>2, <2>4 DEF RobocopyEffect, IInv, TypeOK
        <3>2. pc' \in {"copy", "paused"}
            BY <2>1, <2>4
        <3>3. QED
            BY <2>1, <2>4, <3>1, <3>2, <1>3 DEF Robocopy, IInv, TypeOK,
                                                Label, RelaunchOnlyComplete
    <2>5. QED
        BY <2>3, <2>4
<1>4. CASE Relaunch
    BY <1>4 DEF Relaunch, IInv, TypeOK, Label, RelaunchOnlyComplete
<1>5. CASE RemoveStaging
    <2>1. pc = "cleanup" /\ UNCHANGED install
        BY <1>5 DEF RemoveStaging
    \* rd removed the script with the rest of the tree: cmd.exe stops.
    <2>2. CASE pc' = "vanished"
        BY <1>5, <2>1, <2>2 DEF RemoveStaging, IInv, TypeOK, Label,
                                RelaunchOnlyComplete
    \* A locked file kept the tree and the script: count and retry.
    <2>3. CASE pc' # "vanished"
        <3>1. /\ staging' = "partial"
              /\ UNCHANGED script_file
              /\ cleanup_retries' = cleanup_retries + 1
              /\ pc' = IF cleanup_retries + 1 < CleanupTries THEN "cleanup"
                       ELSE "selfdelete"
            BY <1>5, <2>3 DEF RemoveStaging
        <3>2. QED
            BY <1>5, <2>1, <3>1 DEF RemoveStaging, IInv, TypeOK, Label,
                                    RelaunchOnlyComplete
    <2>4. QED
        BY <2>2, <2>3
<1>6. CASE SelfDelete
    BY <1>6 DEF SelfDelete, IInv, TypeOK, Label, RelaunchOnlyComplete
<1>7. CASE PressKey
    BY <1>7 DEF PressKey, IInv, TypeOK, Label, RelaunchOnlyComplete
<1>8. CASE UNCHANGED vars
    BY <1>8 DEF vars, IInv, TypeOK, RelaunchOnlyComplete
<1>9. QED
    BY <1>1, <1>2, <1>3, <1>4, <1>5, <1>6, <1>7, <1>8 DEF Next, ScriptStep

\* The script's variables keep their types for every bound: the wait, copy
\* and cleanup counters of apply_update.bat never pass MaxWait + 1,
\* CopyTries and CleanupTries.
THEOREM TypeCorrect == Spec => []TypeOK
<1>1. IInv => TypeOK
    BY DEF IInv
<1>2. QED
    BY <1>1, InitIInv, NextIInv, PTL DEF Spec

\* For every bound, the helper relaunches citron.exe and deletes the
\* staging tree only after a robocopy run that copied every file (exit
\* code below 8): the exit-code test of the copy loop admits no partial
\* copy.
THEOREM RelaunchOnlyOverComplete == Spec => []RelaunchOnlyComplete
<1>1. IInv => RelaunchOnlyComplete
    BY DEF IInv
<1>2. QED
    BY <1>1, InitIInv, NextIInv, PTL DEF Spec

=============================================================================
