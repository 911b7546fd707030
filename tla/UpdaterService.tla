--------------------------- MODULE UpdaterService ---------------------------
(***************************************************************************)
(* The self-update orchestrator Updater::UpdaterService (embedded in       *)
(* src/src/citron/configuration/configure_filesystem.cpp, lines 185-708).  *)
(*                                                                         *)
(* Every handler runs on the Qt GUI thread, so each is one atomic step:    *)
(* the public calls CheckForUpdates, DownloadAndInstallUpdate and          *)
(* CancelUpdate, the `finished` handler of a check reply (a lambda), the   *)
(* `finished` handler of a download reply (OnDownloadFinished) and, on     *)
(* Windows, the 100 ms single-shot timer that extracts and stages the      *)
(* archive.  The network is the environment: a running reply finishes,     *)
(* with or without an error, whenever it likes.                            *)
(*                                                                         *)
(* A QNetworkReply object is a slot of Slots.  A slot is reused once the   *)
(* object it held can no longer do anything: it was deleted, or it is      *)
(* finished and neither current_reply nor a pending timer refers to it    *)
(* (finished download replies are never deleteLater()'d by the code; they *)
(* leak until the service dies, but they emit nothing more).              *)
(*                                                                         *)
(* Files are abstracted to what the properties tell apart: whether the     *)
(* archive, the staging tree or the AppImage holds a complete payload, a   *)
(* truncated one or nothing.                                               *)
(***************************************************************************)
EXTENDS Naturals, FiniteSets

CONSTANTS
    Slots,      \* QNetworkReply objects that can be alive at once
    NoReply,    \* nullptr
    Platform    \* the build: "windows" (_WIN32) or "linux" (__linux__)

ASSUME SlotsAssumption == IsFiniteSet(Slots) /\ Slots # {} /\ NoReply \notin Slots
ASSUME PlatformAssumption == Platform \in {"windows", "linux"}

VARIABLES
    (* The service's members. *)
    update_in_progress,  \* std::atomic<bool>
    cancel_requested,    \* std::atomic<bool>
    current_reply,       \* QNetworkReply*, or NoReply
    reply,               \* reply[s]: what the object in slot s is and does
    timers,              \* slots whose download scheduled a pending singleShot
    (* The disk and the process environment. *)
    backup_taken,        \* citron.exe.bak written by this process (Windows)
    zip,                 \* temp_download_path / "citron_update.zip"
    staging,             \* app_directory / "update_staging"
    appimage,            \* the file named by $APPIMAGE (Linux)
    appimage_backup,     \* backup_dir / "citron-backup-<v>.AppImage"
    appimage_env,        \* $APPIMAGE is set
    backups_enabled,     \* UISettings updater_enable_backups
    (* Observation: which attempt is running, and what was reported. *)
    attempt,             \* slot of the latest DownloadAndInstallUpdate
    cancelled,           \* attempts that CancelUpdate cancelled
    outcome,             \* outcome[s]: the last notification about attempt s
    notices              \* notices[s]: how many notifications attempt s got

impl == <<update_in_progress, cancel_requested, current_reply, reply, timers>>
disk == <<backup_taken, zip, staging, appimage, appimage_backup,
          appimage_env, backups_enabled>>
ghost == <<attempt, cancelled, outcome, notices>>
vars == <<impl, disk, ghost>>

-----------------------------------------------------------------------------
(* Values. *)

ReplyKind == {"free", "check", "download"}
ReplyState == {"running", "ok", "error"}
Reply == [kind : ReplyKind, st : ReplyState]
FreeReply == [kind |-> "free", st |-> "ok"]

\* Content of the archive written from a download: the complete body of a
\* finished reply, or what readAll() returned from a reply still running.
Payload == {"none", "full", "partial"}
\* The staging tree: "stale" is left over from an earlier run, "incomplete"
\* is a copy that threw half-way or has no apply_update.bat, "mixed" is a new
\* payload copied over stale files that remove_all failed to delete.
Staging == {"none", "stale", "incomplete", "full", "partial", "mixed"}
StagedUpdate == {"full", "partial", "mixed"}
\* The AppImage: the running build, a complete new build, or a short write.
Image == {"old", "new", "truncated"}
Outcome == {"none", "Success", "Failed", "ExtractionError",
            "PermissionError", "Error"}

-----------------------------------------------------------------------------
(* Helpers. *)

Running(s) == reply[s].st = "running"

\* A slot the model may hand to the next `get`: its object was deleted
\* (deleteLater), or it has finished and is no longer current_reply, so no
\* handler can reach it again (the code leaks such a reply).  A slot also
\* names an attempt in the ghost history, so a pending singleShot timer,
\* which still acts for its attempt, keeps its slot.
Reusable(s) ==
    /\ s \notin timers
    /\ \/ reply[s].kind = "free"
       \/ ~Running(s) /\ s # current_reply

\* `new` takes slot s: the ghost history of the slot starts afresh.
Allocate(s, kind) ==
    /\ reply' = [reply EXCEPT ![s] = [kind |-> kind, st |-> "running"]]
    /\ cancelled' = cancelled \ {s}
    /\ outcome' = [outcome EXCEPT ![s] = "none"]
    /\ notices' = [notices EXCEPT ![s] = 0]

\* A notification (UpdateCompleted or UpdateError) about the attempt in s.
Emit(s, o) ==
    /\ outcome' = [outcome EXCEPT ![s] = o]
    /\ notices' = [notices EXCEPT ![s] = @ + 1]

\* The reply with its error state after a `finished` of slot s.
Finish(s, err) == [reply EXCEPT ![s].st = IF err THEN "error" ELSE "ok"]

\* What readAll() gives from reply object c in the reply table r.
ReadAll(r, c) == IF r[c].st = "ok" THEN "full" ELSE "partial"

-----------------------------------------------------------------------------
Init ==
    /\ update_in_progress = FALSE
    /\ cancel_requested = FALSE
    /\ current_reply = NoReply
    /\ reply = [s \in Slots |-> FreeReply]
    /\ timers = {}
    /\ backup_taken = FALSE
    /\ zip = "none"                 \* CleanupFiles() of the previous run
    /\ staging \in {"none", "stale"}
    /\ appimage = "old"
    /\ appimage_backup = "none"
    /\ appimage_env \in BOOLEAN
    /\ backups_enabled \in BOOLEAN
    /\ attempt = NoReply
    /\ cancelled = {}
    /\ outcome = [s \in Slots |-> "none"]
    /\ notices = [s \in Slots |-> 0]

-----------------------------------------------------------------------------
(* The public entry points. *)

\* CheckForUpdates: a GET of the release feed; the new reply replaces
\* current_reply, whatever it held.
CheckForUpdates(s) ==
    /\ ~update_in_progress
    /\ Reusable(s)
    /\ Allocate(s, "check")
    /\ current_reply' = s
    /\ UNCHANGED <<update_in_progress, cancel_requested, timers, disk, attempt>>

\* DownloadAndInstallUpdate after its guard: clears the cancel flag, on
\* Windows snapshots citron.exe (a failure is reported as PermissionError
\* and releases the flag), then starts the GET.
StartDownload(s) ==
    /\ Reusable(s)
    /\ cancel_requested' = FALSE
    /\ attempt' = s
    /\ UNCHANGED <<timers, zip, staging, appimage, appimage_backup,
                   appimage_env, backups_enabled>>
    /\ \/ /\ Platform = "windows"
          /\ update_in_progress' = FALSE
          /\ reply' = [reply EXCEPT ![s] = FreeReply]
          /\ cancelled' = cancelled \ {s}
          /\ outcome' = [outcome EXCEPT ![s] = "PermissionError"]
          /\ notices' = [notices EXCEPT ![s] = 1]
          /\ UNCHANGED <<current_reply, backup_taken>>
       \/ /\ update_in_progress' = TRUE
          /\ backup_taken' = (backup_taken \/ Platform = "windows")
          /\ Allocate(s, "download")
          /\ current_reply' = s

\* Mutant: the single-flight test `if (update_in_progress.load()) return;`
\* is dropped.
DownloadAndInstallUpdateNoGuard(s) == StartDownload(s)

\* Mutant: the result of CreateBackup() is ignored and the download starts
\* without a backup.
DownloadAndInstallUpdateIgnoreBackup(s) ==
    /\ ~update_in_progress
    /\ Reusable(s)
    /\ cancel_requested' = FALSE
    /\ attempt' = s
    /\ update_in_progress' = TRUE
    /\ \E backed_up \in BOOLEAN :
         backup_taken' = (backup_taken \/ (Platform = "windows" /\ backed_up))
    /\ Allocate(s, "download")
    /\ current_reply' = s
    /\ UNCHANGED <<timers, zip, staging, appimage, appimage_backup,
                   appimage_env, backups_enabled>>

\* DownloadAndInstallUpdate: rejected while an update is in progress, else
\* claims the in-progress flag and starts.
DownloadAndInstallUpdate(s) ==
    /\ ~update_in_progress
    /\ StartDownload(s)

\* Mutant: CancelUpdate clears the flags without aborting current_reply.
CancelUpdateNoAbort ==
    /\ update_in_progress
    /\ cancel_requested' = TRUE
    /\ update_in_progress' = FALSE
    /\ cancelled' = IF attempt # NoReply /\ reply[attempt].kind = "download"
                    THEN cancelled \cup {attempt} ELSE cancelled
    /\ UNCHANGED <<reply, current_reply, timers, disk, attempt, outcome,
                   notices>>

\* CancelUpdate: sets the cancel flag and aborts current_reply.  abort() on
\* a running reply emits `finished` synchronously, so the reply's handler
\* runs inside this step: OnDownloadFinished sees the flag and only clears
\* update_in_progress; a check reply's lambda reports the abort error and
\* drops the reply.  The flag is then cleared whatever happened.
CancelUpdate ==
    /\ update_in_progress
    /\ cancel_requested' = TRUE
    /\ update_in_progress' = FALSE
    /\ cancelled' = IF attempt # NoReply /\ reply[attempt].kind = "download"
                    THEN cancelled \cup {attempt} ELSE cancelled
    /\ IF current_reply # NoReply /\ Running(current_reply)
       THEN IF reply[current_reply].kind = "check"
            THEN /\ reply' = [reply EXCEPT ![current_reply] = FreeReply]
                 /\ current_reply' = NoReply
            ELSE /\ reply' = Finish(current_reply, TRUE)
                 /\ UNCHANGED current_reply
       ELSE UNCHANGED <<reply, current_reply>>
    /\ UNCHANGED <<timers, disk, attempt, outcome, notices>>

-----------------------------------------------------------------------------
(* The handlers of the network's `finished` signal. *)

\* The lambda's `if (error() == NoError) ParseUpdateResponse(readAll())
\* else emit UpdateError(errorString())` applied to reply c of table r.  The
\* error of a download reply is a notification about that attempt, and
\* nothing stops the lambda from giving it after OnDownloadFinished already
\* reported the attempt or after it was cancelled.  The error of a check is
\* the check's own report, and a parse is ReleaseSelection's business: a
\* download's body is no JSON array, so parsing it emits nothing.
ReportCurrent(r, c) ==
    IF r[c].kind = "download" /\ r[c].st = "error"
    THEN Emit(c, "Error")
    ELSE UNCHANGED <<outcome, notices>>

\* Mutant: the lambda deleteLater()s current_reply but does not null it.
CheckReplyFinishedKeepsCurrent(s) ==
    /\ reply[s].kind = "check"
    /\ Running(s)
    /\ \E err \in BOOLEAN :
         LET r == Finish(s, err)
             c == current_reply
         IN  IF c = NoReply
             THEN /\ reply' = r
                  /\ UNCHANGED <<outcome, notices>>
             ELSE /\ reply' = [r EXCEPT ![c] = FreeReply]
                  /\ ReportCurrent(r, c)
    /\ UNCHANGED <<update_in_progress, current_reply, cancel_requested,
                   timers, disk, attempt, cancelled>>

\* The lambda connected in CheckForUpdates.  It reads current_reply, not the
\* reply that finished: parses, or reports the error of, whatever reply is
\* current, then deleteLater()s it and clears current_reply.  A download
\* reply still running when it is deleted never emits `finished`, unless
\* its `finished` was already queued, in which case OnDownloadFinished runs
\* next with current_reply == nullptr and only clears update_in_progress.
CheckReplyFinished(s) ==
    /\ reply[s].kind = "check"
    /\ Running(s)
    /\ \E err \in BOOLEAN :
         LET r == Finish(s, err)
             c == current_reply
         IN  IF c = NoReply
             THEN /\ reply' = r
                  /\ UNCHANGED <<update_in_progress, current_reply, outcome,
                                 notices>>
             ELSE /\ reply' = [r EXCEPT ![c] = FreeReply]
                  /\ current_reply' = NoReply
                  /\ ReportCurrent(r, c)
                  /\ \/ UNCHANGED update_in_progress
                     \/ /\ r[c].kind = "download"
                        /\ r[c].st = "running"
                        /\ update_in_progress' = FALSE
    /\ UNCHANGED <<cancel_requested, timers, disk, attempt, cancelled>>

\* OnDownloadFinished, Linux branch after the reply was read: back up the
\* AppImage if enabled (errors ignored), write `data` to <AppImage>.new
\* (open failure skipped, short write unchecked), chmod, rename over the
\* AppImage, report.
LinuxReplace(s, data) ==
    \/ /\ ~appimage_env
       /\ Emit(s, "Error")
       /\ UNCHANGED <<appimage, appimage_backup>>
    \/ /\ appimage_env
       /\ \E copied, opened, written, renamed \in BOOLEAN :
            /\ appimage_backup' = IF backups_enabled /\ copied
                                  THEN appimage ELSE appimage_backup
            /\ appimage' = IF opened /\ renamed
                           THEN IF data = "full" /\ written
                                THEN "new" ELSE "truncated"
                           ELSE appimage
            /\ Emit(s, IF opened /\ ~renamed THEN "Error" ELSE "Success")

\* OnDownloadFinished.  Like the check lambda it reads current_reply rather
\* than the sender.  On Windows it writes the archive (an open failure is
\* silently skipped) and defers extraction to a 100 ms timer, keeping
\* update_in_progress set; on Linux it replaces the AppImage at once.
OnDownloadFinished(s) ==
    /\ reply[s].kind = "download"
    /\ Running(s)
    /\ \E err \in BOOLEAN :
         LET r == Finish(s, err)
             c == current_reply
         IN  /\ reply' = r
             /\ UNCHANGED <<cancel_requested, current_reply, backup_taken,
                            staging, appimage_env, backups_enabled,
                            attempt, cancelled>>
             /\ IF cancel_requested \/ c = NoReply
                THEN /\ update_in_progress' = FALSE
                     /\ UNCHANGED <<timers, zip, appimage, appimage_backup,
                                    outcome, notices>>
                ELSE IF r[c].st = "error"
                THEN /\ update_in_progress' = FALSE
                     /\ Emit(s, "Error")
                     /\ UNCHANGED <<timers, zip, appimage, appimage_backup>>
                ELSE IF Platform = "windows"
                THEN /\ \E opened \in BOOLEAN :
                          zip' = IF opened THEN ReadAll(r, c) ELSE zip
                     /\ timers' = timers \cup {s}
                     /\ UNCHANGED <<update_in_progress, appimage,
                                    appimage_backup, outcome, notices>>
                ELSE /\ update_in_progress' = FALSE
                     /\ LinuxReplace(s, ReadAll(r, c))
                     /\ UNCHANGED <<timers, zip>>

-----------------------------------------------------------------------------
(* Windows: the singleShot(100) lambda scheduled by OnDownloadFinished.    *)

\* ExtractArchive: fails on a missing archive; on a truncated one libarchive
\* may extract what it can and still return true.
Extracted(ok) ==
    \/ zip = "full" /\ ok
    \/ zip = "partial"

\* InstallUpdate: remove_all(staging) (its error is ignored), copy every
\* extracted file (may throw), then CreateUpdateHelperScript (may fail).
Staged(removed) ==
    IF ~removed /\ staging # "none" THEN "mixed" ELSE zip

\* The lambda: on extraction or staging failure RestoreBackup() (which
\* copies citron.exe.bak back over the unchanged citron.exe), report, and
\* release the flag; otherwise report Success.  It never looks at
\* cancel_requested.
InstallTimerFired(s) ==
    /\ s \in timers
    /\ timers' = timers \ {s}
    /\ update_in_progress' = FALSE
    /\ \E ok \in BOOLEAN :
         \/ /\ ~Extracted(ok)
            /\ Emit(s, "ExtractionError")
            /\ UNCHANGED staging
         \/ /\ Extracted(ok)
            /\ \E removed, copied \in BOOLEAN :
                 IF copied
                 THEN /\ staging' = Staged(removed)
                      /\ Emit(s, "Success")
                 ELSE /\ staging' = "incomplete"
                      /\ Emit(s, "Failed")
    /\ UNCHANGED <<cancel_requested, current_reply, reply, backup_taken, zip,
                   appimage, appimage_backup, appimage_env, backups_enabled,
                   attempt, cancelled>>

-----------------------------------------------------------------------------
Next ==
    \/ \E s \in Slots : CheckForUpdates(s)
    \/ \E s \in Slots : DownloadAndInstallUpdate(s)
    \/ CancelUpdate
    \/ \E s \in Slots : CheckReplyFinished(s)
    \/ \E s \in Slots : OnDownloadFinished(s)
    \/ \E s \in Slots : InstallTimerFired(s)

Spec == Init /\ [][Next]_vars

\* The user may never click; the network eventually answers every request
\* (the code sets no transfer timeout, so this is an assumption about the
\* server), and the event loop eventually fires a pending timer.
Fairness ==
    /\ \A s \in Slots : WF_vars(CheckReplyFinished(s))
    /\ \A s \in Slots : WF_vars(OnDownloadFinished(s))
    /\ \A s \in Slots : WF_vars(InstallTimerFired(s))

FairSpec == Spec /\ Fairness

-----------------------------------------------------------------------------
(* Properties. *)

TypeOK ==
    /\ update_in_progress \in BOOLEAN
    /\ cancel_requested \in BOOLEAN
    /\ current_reply \in {s \in Slots : reply[s].kind # "free"} \cup {NoReply}
    /\ reply \in [Slots -> Reply]
    /\ timers \subseteq Slots
    /\ backup_taken \in BOOLEAN
    /\ zip \in Payload
    /\ staging \in Staging
    /\ appimage \in Image
    /\ appimage_backup \in Image \cup {"none"}
    /\ appimage_env \in BOOLEAN
    /\ backups_enabled \in BOOLEAN
    /\ attempt \in Slots \cup {NoReply}
    /\ cancelled \subseteq Slots
    /\ outcome \in [Slots -> Outcome]
    /\ notices \in [Slots -> Nat]

\* The download work in flight: running download replies and pending
\* install timers.
InFlight ==
    {s \in Slots : reply[s].kind = "download" /\ Running(s)} \cup timers

\* Single flight (spec section 3): at most one download attempt is in
\* flight, and only while update_in_progress is set, so that the flag
\* tested by DownloadAndInstallUpdate really excludes a second attempt.
SingleFlight ==
    /\ Cardinality(InFlight) <= 1
    /\ InFlight # {} => update_in_progress

\* Cancellation is honoured (spec section 8): an attempt cancelled by
\* CancelUpdate is never reported as a Success.
CancelHonoured ==
    \A s \in cancelled : outcome[s] # "Success"

\* No staging without a backup (spec section 7): on Windows an update is
\* staged for the helper script only after CreateBackup succeeded in this
\* run.
StagedAfterBackup ==
    staging \in StagedUpdate => backup_taken

\* On Linux OnDownloadFinished reports Success only in a step that leaves
\* the AppImage replaced by the complete downloaded build.
SuccessMeansReplaced ==
    [][\A s \in Slots :
         outcome'[s] = "Success" /\ outcome[s] # "Success"
           => appimage' = "new"]_vars

\* Every update attempt ends: once update_in_progress is set it is
\* eventually cleared, so the updater accepts requests again.
AttemptEnds ==
    update_in_progress ~> ~update_in_progress

\* The service as its caller sees it: update_in_progress is the contract's
\* busy flag, the ghost history is the contract's.
Contract == INSTANCE UpdaterContract WITH busy <- update_in_progress

\* The handlers keep the updater's promises to the settings page: a new
\* attempt only when none is in progress; every notification is about the
\* attempt in progress and ends it; a cancelled attempt never succeeds.  A
\* reply of an earlier attempt that finishes late must not notify.
ImplementsContract == Contract!Spec

=============================================================================
