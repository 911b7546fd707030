----------------------------- MODULE Autoloader -----------------------------
(***************************************************************************)
(* The autoloader of the filesystem settings page,                         *)
(* ConfigureFilesystem::OnRunAutoloader (configure_filesystem.cpp, lines   *)
(* 57-184): it installs every .nsp found in the game directories, one at a *)
(* time, on a QtConcurrent worker thread, while the GUI thread spins in    *)
(* processEvents() and shows a QProgressDialog.                            *)
(*                                                                         *)
(* Two threads share the member install_progress: the GUI thread creates   *)
(* the dialog, and nulls the pointer from the dialog's `destroyed` signal; *)
(* the worker's progress callback tests the pointer and then calls         *)
(* wasCanceled() through it.  User input (the Cancel button, the window's  *)
(* close button) and the deferred deletion of a closed dialog are         *)
(* delivered only while the GUI thread is inside processEvents().         *)
(*                                                                         *)
(* ContentManager::InstallNSP is not part of the repository: it is the    *)
(* environment, which copies the file in chunks, calls the callback after *)
(* each chunk, stops when the callback returns true and returns a result. *)
(* Results, file names and the progress value are not modelled.           *)
(***************************************************************************)
EXTENDS Naturals

CONSTANTS
    NFiles,     \* .nsp files found by the directory scan
    MaxChunks   \* chunks InstallNSP copies of one file at most

ASSUME AutoloaderAssumption ==
    /\ NFiles \in Nat \ {0}
    /\ MaxChunks \in Nat \ {0}

\* The QProgressDialog object: not created yet, shown, cancelled (the
\* Cancel button: hidden, wasCanceled() true), closing (close() was
\* called; WA_DeleteOnClose posted its deletion) or freed.
DialogState == {"none", "shown", "canceled", "closing", "freed"}
Canceled == {"canceled", "closing"}

VARIABLES
    gui,        \* where OnRunAutoloader is
    file,       \* index of the file the loop is at
    install_progress,  \* the pointer is not null
    dialog,     \* the object it was set to
    worker,     \* the worker thread running InstallNSP
    chunks,     \* chunks copied of the current file
    (* Observation. *)
    user_cancelled,  \* the user pressed Cancel or closed the dialog
    uaf         \* wasCanceled() was called on a freed dialog

vars == <<gui, file, install_progress, dialog, worker, chunks,
          user_cancelled, uaf>>

-----------------------------------------------------------------------------
Init ==
    /\ gui = "start"
    /\ file = 1
    /\ install_progress = FALSE
    /\ dialog = "none"
    /\ worker = "idle"
    /\ chunks = 0
    /\ user_cancelled = FALSE
    /\ uaf = FALSE

(* The GUI thread. *)

\* From the button click to the dialog: the confirmation box, the lookup
\* of the main window and the system, the directory scan and the size sum
\* each may end the call with a message box; else the dialog is created,
\* its `destroyed` connected to a lambda that nulls install_progress, and
\* shown.
Start ==
    /\ gui = "start"
    /\ \/ /\ gui' = "done"
          /\ UNCHANGED <<install_progress, dialog>>
       \/ /\ gui' = "loop"
          /\ install_progress' = TRUE
          /\ dialog' = "shown"
    /\ UNCHANGED <<file, worker, chunks, user_cancelled, uaf>>

\* Mutant: the loop stops only when the dialog is gone, not when the user
\* pressed Cancel.
NextFileIgnoresCancel ==
    /\ gui = "loop"
    /\ IF ~install_progress \/ file > NFiles
       THEN /\ gui' = "after"
            /\ UNCHANGED <<worker, chunks>>
       ELSE /\ gui' = "wait"
            /\ worker' = "copy"
            /\ chunks' = 0
    /\ UNCHANGED <<file, install_progress, dialog, user_cancelled, uaf>>

\* Mutant: one iteration too many.
NextFilePastEnd ==
    /\ gui = "loop"
    /\ IF ~install_progress \/ dialog \in Canceled \/ file > NFiles + 1
       THEN /\ gui' = "after"
            /\ UNCHANGED <<worker, chunks>>
       ELSE /\ gui' = "wait"
            /\ worker' = "copy"
            /\ chunks' = 0
    /\ UNCHANGED <<file, install_progress, dialog, user_cancelled, uaf>>

\* The top of the for loop: stop if the dialog is gone or was cancelled, or
\* after the last file; else relabel the dialog and run InstallNSP on the
\* worker with the progress callback.
NextFile ==
    /\ gui = "loop"
    /\ IF ~install_progress \/ dialog \in Canceled \/ file > NFiles
       THEN /\ gui' = "after"
            /\ UNCHANGED <<worker, chunks>>
       ELSE /\ gui' = "wait"
            /\ worker' = "copy"
            /\ chunks' = 0
    /\ UNCHANGED <<file, install_progress, dialog, user_cancelled, uaf>>

\* Mutant: the result is recorded but the loop does not advance.
CollectNoAdvance ==
    /\ gui = "wait"
    /\ worker = "done"
    /\ gui' = "loop"
    /\ worker' = "idle"
    /\ UNCHANGED <<file, install_progress, dialog, chunks, user_cancelled,
                   uaf>>

\* The busy wait sees the future finished: the result is appended to its
\* list and the loop moves to the next file.
Collect ==
    /\ gui = "wait"
    /\ worker = "done"
    /\ gui' = "loop"
    /\ worker' = "idle"
    /\ file' = file + 1
    /\ UNCHANGED <<install_progress, dialog, chunks, user_cancelled, uaf>>

\* After the loop: close the dialog if it still exists (WA_DeleteOnClose
\* posts its deletion), show the summary, drop the game-list cache and ask
\* for a refresh.
Finish ==
    /\ gui = "after"
    /\ gui' = "done"
    /\ dialog' = IF install_progress THEN "closing" ELSE dialog
    /\ UNCHANGED <<file, install_progress, worker, chunks, user_cancelled,
                   uaf>>

(* Events delivered by processEvents() in the busy wait. *)

\* The user presses Cancel: QProgressDialog::cancel() hides the dialog and
\* sets the flag wasCanceled() returns.
UserCancel ==
    /\ gui = "wait"
    /\ dialog = "shown"
    /\ dialog' = "canceled"
    /\ user_cancelled' = TRUE
    /\ UNCHANGED <<gui, file, install_progress, worker, chunks, uaf>>

\* The user closes the dialog's window: closeEvent emits canceled(), and
\* with WA_DeleteOnClose the close posts the deletion.
UserClose ==
    /\ gui = "wait"
    /\ dialog \in {"shown", "canceled"}
    /\ dialog' = "closing"
    /\ user_cancelled' = TRUE
    /\ UNCHANGED <<gui, file, install_progress, worker, chunks, uaf>>

\* The deferred delete runs: the dialog is destroyed and its `destroyed`
\* lambda sets install_progress to nullptr, on the GUI thread.
DeferredDelete ==
    /\ gui \in {"wait", "done"}
    /\ dialog = "closing"
    /\ dialog' = "freed"
    /\ install_progress' = FALSE
    /\ UNCHANGED <<gui, file, worker, chunks, user_cancelled, uaf>>

(* The worker thread: InstallNSP and the progress callback. *)

\* InstallNSP copies a chunk and calls the callback ...
CopyChunk ==
    /\ worker = "copy"
    /\ chunks < MaxChunks
    /\ chunks' = chunks + 1
    /\ worker' = "check"
    /\ UNCHANGED <<gui, file, install_progress, dialog, user_cancelled, uaf>>

\* ... or has copied the whole file and returns.
InstallDone ==
    /\ worker = "copy"
    /\ worker' = "done"
    /\ UNCHANGED <<gui, file, install_progress, dialog, chunks,
                   user_cancelled, uaf>>

\* The callback emits UpdateInstallProgress (queued to the GUI thread) and
\* tests install_progress: null stops the install.
CallbackTest ==
    /\ worker = "check"
    /\ worker' = IF install_progress THEN "call" ELSE "done"
    /\ UNCHANGED <<gui, file, install_progress, dialog, chunks,
                   user_cancelled, uaf>>

\* The callback returns install_progress->wasCanceled(); true stops the
\* install.  On a freed dialog the call is undefined: it may read either.
CallbackWasCanceled ==
    /\ worker = "call"
    /\ uaf' = (uaf \/ dialog = "freed")
    /\ \/ dialog \in Canceled /\ worker' = "done"
       \/ dialog = "shown" /\ worker' = "copy"
       \/ dialog = "freed" /\ worker' \in {"done", "copy"}
    /\ UNCHANGED <<gui, file, install_progress, dialog, chunks,
                   user_cancelled>>

GuiStep == Start \/ NextFile \/ Collect \/ Finish
WorkerStep == CopyChunk \/ InstallDone \/ CallbackTest \/ CallbackWasCanceled
UserStep == UserCancel \/ UserClose \/ DeferredDelete

Next == GuiStep \/ WorkerStep \/ UserStep

Spec == Init /\ [][Next]_vars

\* Both threads are scheduled; the user owes nothing.
FairSpec == Spec /\ WF_vars(GuiStep) /\ WF_vars(WorkerStep)

-----------------------------------------------------------------------------
(* Properties. *)

TypeOK ==
    /\ gui \in {"start", "loop", "wait", "after", "done"}
    /\ file \in 1..NFiles + 1
    /\ install_progress \in BOOLEAN
    /\ dialog \in DialogState
    /\ worker \in {"idle", "copy", "check", "call", "done"}
    /\ chunks \in 0..MaxChunks
    /\ user_cancelled \in BOOLEAN
    /\ uaf \in BOOLEAN

\* Once the user pressed Cancel or closed the dialog, no further file
\* starts installing, whatever the worker was doing when the click was
\* delivered.
CancelStopsInstall ==
    [][user_cancelled => ~(gui = "loop" /\ gui' = "wait")]_vars

\* The autoloader returns: the installs end and the busy wait sees each one
\* finish, whatever the user does.
AutoloaderEnds == <>(gui = "done")

\* The progress callback never calls wasCanceled() on a destroyed dialog.
NoUseAfterFree == ~uaf

=============================================================================
