-------------------------- MODULE Autoloader_proofs --------------------------
(***************************************************************************)
(* Proofs about ConfigureFilesystem::OnRunAutoloader, for any number of    *)
(* .nsp files and any number of chunks per file.                           *)
(***************************************************************************)
EXTENDS Autoloader, TLAPS

USE AutoloaderAssumption

\* The dialogs install_progress may point at while it is not null.
Live == {"shown", "canceled", "closing"}

\* On the GUI thread install_progress is null or names a live dialog: the
\* deferred deletion and the `destroyed` lambda run in the same step.
GuiPointerValid ==
    install_progress => dialog \in Live

\* The GUI thread is outside the busy wait only while no InstallNSP runs.
WorkerJoined == gui # "wait" => worker = "idle"

\* The inductive invariant.  GuiPointerValid and WorkerJoined need no
\* help; the rest is what CancelStopsInstall and the counters rest on:
\*   - nothing happens before the click reaches the dialog's creation;
\*   - a Cancel or a close leaves the dialog cancelled, closing or freed,
\*     and no action of either thread brings it back to "shown";
\*   - the busy wait runs only for a file that exists.
IInv ==
    /\ TypeOK
    /\ GuiPointerValid
    /\ WorkerJoined
    /\ gui = "start" => ~user_cancelled /\ dialog = "none" /\ ~install_progress
    /\ user_cancelled => dialog \in Canceled \cup {"freed"}
    /\ gui = "wait" => file <= NFiles

LEMMA InitIInv == Init => IInv
<1> SUFFICES ASSUME Init PROVE IInv
    OBVIOUS
<1>1. file \in 1..NFiles + 1 /\ chunks \in 0..MaxChunks
    BY DEF Init
<1>2. QED
    BY <1>1, Zenon DEF Init, IInv, TypeOK, GuiPointerValid, WorkerJoined,
                      DialogState, Live

LEMMA NextIInv == IInv /\ [Next]_vars => IInv'
<1> SUFFICES ASSUME IInv, [Next]_vars PROVE IInv'
    OBVIOUS
<1> USE DEF IInv, TypeOK, GuiPointerValid, WorkerJoined, DialogState,
           Canceled, Live
<1>1. CASE Start
    <2>1. \/ /\ gui' = "done"
             /\ UNCHANGED <<install_progress, dialog>>
          \/ /\ gui' = "loop"
             /\ install_progress' = TRUE
             /\ dialog' = "shown"
        BY <1>1 DEF Start
    <2>2. /\ gui = "start"
          /\ UNCHANGED <<file, worker, chunks, user_cancelled, uaf>>
        BY <1>1 DEF Start
    <2>3. ~user_cancelled /\ dialog = "none" /\ ~install_progress
        BY <2>2
    <2>4. TypeOK'
        BY <2>1, <2>2
    <2>5. (gui = "wait" => file <= NFiles)'
        BY <2>1
    <2>6. QED
        BY <2>1, <2>2, <2>3, <2>4, <2>5, Zenon
<1>2. CASE NextFile
    BY <1>2 DEF NextFile
<1>3. CASE Collect
    BY <1>3 DEF Collect
<1>4. CASE Finish
    BY <1>4 DEF Finish
<1>5. CASE UserCancel
    BY <1>5 DEF UserCancel
<1>6. CASE UserClose
    BY <1>6 DEF UserClose
<1>7. CASE DeferredDelete
    BY <1>7 DEF DeferredDelete
<1>8. CASE CopyChunk
    BY <1>8 DEF CopyChunk
<1>9. CASE InstallDone
    BY <1>9 DEF InstallDone
<1>10. CASE CallbackTest
    BY <1>10 DEF CallbackTest
<1>11. CASE CallbackWasCanceled
    BY <1>11 DEF CallbackWasCanceled
<1>12. CASE UNCHANGED vars
    BY <1>12 DEF vars
<1>13. QED
    BY <1>1, <1>2, <1>3, <1>4, <1>5, <1>6, <1>7, <1>8, <1>9, <1>10, <1>11,
       <1>12 DEF Next, GuiStep, WorkerStep, UserStep

LEMMA Invariant == Spec => []IInv
    BY InitIInv, NextIInv, PTL DEF Spec


\* The autoloader's variables keep their types for any number of files and
\* chunks: the loop index never passes one beyond the last file.
THEOREM TypeCorrect == Spec => []TypeOK
    BY Invariant, PTL DEF IInv

\* A step that starts the next file while the user has cancelled: only the
\* top of OnRunAutoloader's for loop does so, and its test of
\* install_progress and wasCanceled() rules it out.
LEMMA NoStartAfterCancel ==
    IInv /\ [Next]_vars =>
        [user_cancelled => ~(gui = "loop" /\ gui' = "wait")]_vars
<1> SUFFICES ASSUME IInv, [Next]_vars, user_cancelled,
                    gui = "loop", gui' = "wait"
             PROVE FALSE
    OBVIOUS
<1>1. NextFile
    \* Every other action leaves gui alone or leaves another label.
    BY DEF Next, GuiStep, WorkerStep, UserStep, Start, Collect, Finish,
           UserCancel, UserClose, DeferredDelete, CopyChunk, InstallDone,
           CallbackTest, CallbackWasCanceled, vars
<1>2. install_progress /\ dialog \notin Canceled
    BY <1>1 DEF NextFile
<1>3. dialog = "shown"
    BY <1>2 DEF IInv, GuiPointerValid, Live, Canceled
<1>4. QED
    BY <1>3 DEF IInv, Canceled

\* For any number of files and chunks: once the user has pressed Cancel
\* or closed the progress dialog, the autoloader starts no further
\* install, whichever point of InstallNSP and its callback the worker was
\* at when processEvents() delivered the click.
THEOREM CancelHonoured == Spec => CancelStopsInstall
    BY Invariant, NoStartAfterCancel, PTL DEF Spec, CancelStopsInstall

=============================================================================
