------------------------ MODULE UpdaterService_proofs ------------------------
(***************************************************************************)
(* Proofs about UpdaterService for every set of reply objects and both    *)
(* platforms.                                                              *)
(***************************************************************************)
EXTENDS UpdaterService, FiniteSetTheorems, TLAPS

-----------------------------------------------------------------------------
(* Type correctness.  TypeOK includes the type of the pointer              *)
(* current_reply: null or a live QNetworkReply.                            *)

\* The handlers keep the slots' records well formed.
LEMMA FinishType ==
    ASSUME TypeOK, NEW s \in Slots, NEW err \in BOOLEAN
    PROVE  /\ Finish(s, err) \in [Slots -> Reply]
           /\ \A t \in Slots : Finish(s, err)[t].kind = reply[t].kind
BY DEF TypeOK, Finish, Reply, ReplyState

\* A notification keeps the ghost history well typed.
LEMMA EmitType ==
    ASSUME TypeOK, NEW s \in Slots, NEW o \in Outcome, Emit(s, o)
    PROVE  outcome' \in [Slots -> Outcome] /\ notices' \in [Slots -> Nat]
BY DEF TypeOK, Emit

\* So does the check lambda's report on the current reply.
LEMMA ReportType ==
    ASSUME TypeOK, NEW r \in [Slots -> Reply], NEW c \in Slots,
           ReportCurrent(r, c)
    PROVE  outcome' \in [Slots -> Outcome] /\ notices' \in [Slots -> Nat]
<1>1. CASE r[c].kind = "download" /\ r[c].st = "error"
    <2>1. Emit(c, "Error")
        BY <1>1 DEF ReportCurrent
    <2>2. QED
        BY <2>1, EmitType DEF Outcome
<1>2. CASE ~(r[c].kind = "download" /\ r[c].st = "error")
    BY <1>2 DEF ReportCurrent, TypeOK
<1>3. QED
    BY <1>1, <1>2

LEMMA InitType == Init => TypeOK
<1> SUFFICES ASSUME Init PROVE TypeOK
    OBVIOUS
<1>1. reply \in [Slots -> Reply]
    BY DEF Init, Reply, ReplyKind, ReplyState, FreeReply
<1>2. outcome \in [Slots -> Outcome] /\ notices \in [Slots -> Nat]
    BY DEF Init, Outcome
<1>3. current_reply \in {s \in Slots : reply[s].kind # "free"} \cup {NoReply}
    BY DEF Init
<1>4. /\ update_in_progress \in BOOLEAN /\ cancel_requested \in BOOLEAN
      /\ backup_taken \in BOOLEAN
    BY DEF Init
<1>10. appimage_env \in BOOLEAN /\ backups_enabled \in BOOLEAN
    BY DEF Init
<1>5. zip \in Payload
    BY DEF Init, Payload
<1>8. staging \in Staging
    BY DEF Init, Staging
<1>9. appimage \in Image /\ appimage_backup \in Image \cup {"none"}
    BY DEF Init, Image
<1>6. timers \subseteq Slots /\ attempt \in Slots \cup {NoReply} /\ cancelled \subseteq Slots
    BY DEF Init
<1>7. QED
    BY <1>1, <1>2, <1>3, <1>4, <1>5, <1>6, <1>8, <1>9, <1>10 DEF TypeOK

LEMMA NextType == TypeOK /\ [Next]_vars => TypeOK'
<1> SUFFICES ASSUME TypeOK, [Next]_vars PROVE TypeOK'
    OBVIOUS
<1>1. ASSUME NEW s \in Slots, CheckForUpdates(s) PROVE TypeOK'
    BY <1>1 DEF CheckForUpdates, Allocate, TypeOK, Reply, ReplyKind,
                ReplyState, Outcome, disk
<1>2. ASSUME NEW s \in Slots, DownloadAndInstallUpdate(s) PROVE TypeOK'
    <2>1. CASE Platform = "windows" /\ update_in_progress' = FALSE
                /\ reply' = [reply EXCEPT ![s] = FreeReply]
                /\ cancelled' = cancelled \ {s}
                /\ outcome' = [outcome EXCEPT ![s] = "PermissionError"]
                /\ notices' = [notices EXCEPT ![s] = 1]
                /\ UNCHANGED <<current_reply, backup_taken>>
        <3>1. current_reply # NoReply => current_reply # s
            BY <1>2 DEF DownloadAndInstallUpdate, StartDownload, Reusable,
                        TypeOK, Running
        <3>2. QED
            BY <1>2, <2>1, <3>1 DEF DownloadAndInstallUpdate, StartDownload,
                TypeOK, Reply, ReplyKind, ReplyState, FreeReply, Outcome
    <2>2. CASE /\ update_in_progress' = TRUE
               /\ backup_taken' = (backup_taken \/ Platform = "windows")
               /\ Allocate(s, "download")
               /\ current_reply' = s
        BY <1>2, <2>2 DEF DownloadAndInstallUpdate, StartDownload, Allocate,
            TypeOK, Reply, ReplyKind, ReplyState, Outcome
    <2>3. QED
        BY <1>2, <2>1, <2>2 DEF DownloadAndInstallUpdate, StartDownload
<1>3. ASSUME CancelUpdate PROVE TypeOK'
    <2>1. cancelled' \subseteq Slots
        BY <1>3 DEF CancelUpdate, TypeOK
    <2>2. /\ update_in_progress' \in BOOLEAN /\ cancel_requested' \in BOOLEAN
          /\ UNCHANGED <<timers, disk, attempt, outcome, notices>>
        BY <1>3 DEF CancelUpdate
    <2>3. /\ reply' \in [Slots -> Reply]
          /\ current_reply' \in {t \in Slots : reply'[t].kind # "free"} \cup {NoReply}
        <3>1. CASE current_reply # NoReply /\ Running(current_reply)
                   /\ reply[current_reply].kind = "check"
            BY <1>3, <3>1 DEF CancelUpdate, TypeOK, Reply, ReplyKind,
                ReplyState, FreeReply
        <3>2. CASE current_reply # NoReply /\ Running(current_reply)
                   /\ reply[current_reply].kind # "check"
            <4>1. current_reply \in Slots
                BY <3>2 DEF TypeOK
            <4>2. /\ Finish(current_reply, TRUE) \in [Slots -> Reply]
                  /\ \A t \in Slots :
                       Finish(current_reply, TRUE)[t].kind = reply[t].kind
                BY <4>1, FinishType
            <4>3. reply' = Finish(current_reply, TRUE)
                  /\ current_reply' = current_reply
                BY <1>3, <3>2 DEF CancelUpdate
            <4>4. QED
                BY <4>1, <4>2, <4>3 DEF TypeOK
        <3>3. CASE ~(current_reply # NoReply /\ Running(current_reply))
            BY <1>3, <3>3 DEF CancelUpdate, TypeOK
        <3>4. QED
            BY <3>1, <3>2, <3>3
    <2>4. QED
        BY <2>1, <2>2, <2>3 DEF TypeOK, disk
<1>4. ASSUME NEW s \in Slots, CheckReplyFinished(s) PROVE TypeOK'
    <2>1. PICK err \in BOOLEAN :
            LET r == Finish(s, err)
                c == current_reply
            IN  IF c = NoReply
                THEN /\ reply' = r
                     /\ UNCHANGED <<update_in_progress, current_reply, outcome,
                                    notices>>
                ELSE /\ reply' = [r EXCEPT ![c] = FreeReply]
                     /\ current_reply' = NoReply
                     /\ ReportCurrent(r, c)
                     /\ \/ UNCHANGED update_in_progress
                        \/ /\ r[c].kind = "download"
                           /\ r[c].st = "running"
                           /\ update_in_progress' = FALSE
        BY <1>4 DEF CheckReplyFinished
    <2>2. Finish(s, err) \in [Slots -> Reply]
          /\ \A t \in Slots : Finish(s, err)[t].kind = reply[t].kind
        BY FinishType
    <2>3. UNCHANGED <<cancel_requested, timers, disk, attempt, cancelled>>
        BY <1>4 DEF CheckReplyFinished
    <2>4. /\ update_in_progress' \in BOOLEAN
          /\ reply' \in [Slots -> Reply]
          /\ current_reply' \in {t \in Slots : reply'[t].kind # "free"} \cup {NoReply}
          /\ outcome' \in [Slots -> Outcome]
          /\ notices' \in [Slots -> Nat]
        <3>1. CASE current_reply = NoReply
            BY <2>1, <2>2, <3>1 DEF TypeOK
        <3>2. CASE current_reply # NoReply
            <4>1. current_reply \in Slots
                BY <3>2 DEF TypeOK
            <4>2. /\ reply' = [Finish(s, err) EXCEPT ![current_reply] = FreeReply]
                  /\ current_reply' = NoReply
                  /\ update_in_progress' \in BOOLEAN
                  /\ ReportCurrent(Finish(s, err), current_reply)
                BY <2>1, <3>2 DEF TypeOK
            <4>3. FreeReply \in Reply
                BY DEF FreeReply, Reply, ReplyKind, ReplyState
            <4>4. outcome' \in [Slots -> Outcome] /\ notices' \in [Slots -> Nat]
                BY <2>2, <4>1, <4>2, ReportType
            <4>5. QED
                BY <2>2, <4>1, <4>2, <4>3, <4>4
        <3>3. QED
            BY <3>1, <3>2
    <2>5. QED
        BY <2>3, <2>4 DEF TypeOK, disk
<1>5. ASSUME NEW s \in Slots, OnDownloadFinished(s) PROVE TypeOK'
    <2>1. PICK err \in BOOLEAN :
            LET r == Finish(s, err)
                c == current_reply
            IN  /\ reply' = r
                /\ UNCHANGED <<cancel_requested, current_reply, backup_taken,
                               staging, appimage_env, backups_enabled,
                               attempt, cancelled>>
                /\ IF cancel_requested \/ c = NoReply
                   THEN /\ update_in_progress' = FALSE
                        /\ UNCHANGED <<timers, zip, appimage,
                                       appimage_backup, outcome, notices>>
                   ELSE IF r[c].st = "error"
                   THEN /\ update_in_progress' = FALSE
                        /\ Emit(s, "Error")
                        /\ UNCHANGED <<timers, zip, appimage, appimage_backup>>
                   ELSE IF Platform = "windows"
                   THEN /\ \E opened \in BOOLEAN :
                             zip' = IF opened THEN ReadAll(r, c) ELSE zip
                        /\ timers' = timers \cup {s}
                        /\ UNCHANGED <<update_in_progress, appimage,
                                       appimage_backup, outcome, notices>>
                   ELSE /\ update_in_progress' = FALSE
                        /\ LinuxReplace(s, ReadAll(r, c))
                        /\ UNCHANGED <<timers, zip>>
        BY <1>5 DEF OnDownloadFinished
    <2>2. Finish(s, err) \in [Slots -> Reply]
          /\ \A t \in Slots : Finish(s, err)[t].kind = reply[t].kind
        BY FinishType
    <2>3. /\ reply' \in [Slots -> Reply]
          /\ current_reply' \in {t \in Slots : reply'[t].kind # "free"} \cup {NoReply}
          /\ UNCHANGED <<cancel_requested, backup_taken, staging, appimage_env,
                         backups_enabled, attempt, cancelled>>
        BY <2>1, <2>2 DEF TypeOK
    <2>4. \A r, c : ReadAll(r, c) \in Payload
        BY DEF ReadAll, Payload
    <2>5. \A d : LinuxReplace(s, d) =>
                 /\ appimage_backup' \in Image \cup {"none"}
                 /\ appimage' \in Image
                 /\ outcome' \in [Slots -> Outcome]
                 /\ notices' \in [Slots -> Nat]
        <3>1. \A o \in {"Error", "Success"} :
                Emit(s, o) => outcome' \in [Slots -> Outcome]
                              /\ notices' \in [Slots -> Nat]
            BY EmitType DEF Outcome
        <3>2. QED
            BY <3>1 DEF LinuxReplace, TypeOK, Image
    <2>6. /\ update_in_progress' \in BOOLEAN
          /\ timers' \subseteq Slots
          /\ zip' \in Payload
          /\ appimage' \in Image
          /\ appimage_backup' \in Image \cup {"none"}
          /\ outcome' \in [Slots -> Outcome]
          /\ notices' \in [Slots -> Nat]
        <3> DEFINE r == Finish(s, err)
                   c == current_reply
        <3>1. CASE cancel_requested \/ c = NoReply
            BY <2>1, <3>1 DEF TypeOK
        <3>2. CASE ~(cancel_requested \/ c = NoReply) /\ r[c].st = "error"
            BY <2>1, <3>2, EmitType DEF TypeOK, Outcome
        <3>3. CASE ~(cancel_requested \/ c = NoReply) /\ r[c].st # "error"
                   /\ Platform = "windows"
            BY <2>1, <2>4, <3>3 DEF TypeOK
        <3>4. CASE ~(cancel_requested \/ c = NoReply) /\ r[c].st # "error"
                   /\ Platform # "windows"
            <4>1. update_in_progress' = FALSE /\ LinuxReplace(s, ReadAll(r, c))
                  /\ UNCHANGED <<timers, zip>>
                BY <2>1, <3>4
            <4>2. QED
                BY <4>1, <2>5 DEF TypeOK
        <3>5. QED
            BY <3>1, <3>2, <3>3, <3>4
    <2>7. QED
        BY <2>3, <2>6 DEF TypeOK
<1>6. ASSUME NEW s \in Slots, InstallTimerFired(s) PROVE TypeOK'
    <2>1. zip \in Payload /\ staging \in Staging
        BY DEF TypeOK
    <2>2. \A removed \in BOOLEAN : Staged(removed) \in Staging
        BY <2>1 DEF Staged, Payload, Staging
    <2>3. PICK ok \in BOOLEAN :
                 \/ /\ ~Extracted(ok)
                    /\ Emit(s, "ExtractionError")
                    /\ UNCHANGED staging
                 \/ /\ Extracted(ok)
                    /\ \E removed, copied \in BOOLEAN :
                         IF copied
                         THEN /\ staging' = Staged(removed)
                              /\ Emit(s, "Success")
                         ELSE /\ staging' = "incomplete"
                              /\ Emit(s, "Failed")
        BY <1>6 DEF InstallTimerFired
    <2>6. \A o \in {"ExtractionError", "Success", "Failed"} :
            Emit(s, o) => outcome' \in [Slots -> Outcome]
                          /\ notices' \in [Slots -> Nat]
        BY EmitType DEF Outcome
    <2>4. /\ staging' \in Staging
          /\ outcome' \in [Slots -> Outcome] /\ notices' \in [Slots -> Nat]
        BY <2>1, <2>2, <2>3, <2>6 DEF TypeOK, Staging
    <2>5. QED
        BY <1>6, <2>4 DEF InstallTimerFired, TypeOK
<1>7. CASE UNCHANGED vars
    BY <1>7 DEF vars, impl, disk, ghost, TypeOK
<1>8. QED
    BY <1>1, <1>2, <1>3, <1>4, <1>5, <1>6, <1>7 DEF Next

\* The updater's state is always well typed, and current_reply is never a
\* dangling pointer: it is null or refers to a QNetworkReply that has not
\* been deleted (every handler dereferences it).
THEOREM TypeCorrect == Spec => []TypeOK
BY InitType, NextType, PTL DEF Spec

-----------------------------------------------------------------------------
(* Single flight on Linux.  SingleFlight is not inductive: a step of the  *)
(* check lambda or of OnDownloadFinished from a state with a second        *)
(* running download would break it.  On Linux the handlers never leave    *)
(* update_in_progress cleared while a download runs (nothing is deferred  *)
(* to a timer), so every running download is the current reply and the   *)
(* flag is set; that strengthening is inductive.                          *)

LinuxFlightInv ==
    Platform = "linux" =>
        /\ timers = {}
        /\ \A s \in Slots : reply[s].kind = "download" /\ Running(s)
                             => s = current_reply /\ update_in_progress

IInv == TypeOK /\ LinuxFlightInv

\* A running download reply, in the current and in the next state.
RD(s) == reply[s].kind = "download" /\ reply[s].st = "running"

LEMMA LinuxFlightStep ==
    ASSUME TypeOK, LinuxFlightInv, [Next]_vars, Platform = "linux"
    PROVE  LinuxFlightInv'
<1> USE DEF Running
<1> SUFFICES /\ timers' = {}
             /\ \A s \in Slots : RD(s)' => s = current_reply' /\ update_in_progress'
    BY DEF LinuxFlightInv, RD
<1>0. /\ timers = {}
      /\ \A t \in Slots : RD(t) => t = current_reply /\ update_in_progress
    BY DEF LinuxFlightInv, RD
<1>2. CASE \E s \in Slots : CheckForUpdates(s)
    <2>1. PICK s \in Slots : CheckForUpdates(s)
        BY <1>2
    <2>2. \A t \in Slots : ~RD(t)
        BY <1>0, <2>1 DEF CheckForUpdates
    <2>3. QED
        BY <1>0, <2>1, <2>2 DEF CheckForUpdates, Allocate, RD, TypeOK
<1>3. CASE \E s \in Slots : DownloadAndInstallUpdate(s)
    <2>1. PICK s \in Slots : DownloadAndInstallUpdate(s)
        BY <1>3
    <2>2. \A t \in Slots : ~RD(t)
        BY <1>0, <2>1 DEF DownloadAndInstallUpdate
    <2>3. /\ update_in_progress' = TRUE
          /\ reply' = [reply EXCEPT ![s] = [kind |-> "download", st |-> "running"]]
          /\ current_reply' = s
          /\ timers' = timers
        BY <2>1 DEF DownloadAndInstallUpdate, StartDownload, Allocate
    <2>4. QED
        BY <1>0, <2>2, <2>3 DEF RD, TypeOK
<1>4. CASE CancelUpdate
    <2>1. update_in_progress' = FALSE /\ timers' = timers
        BY <1>4 DEF CancelUpdate
    <2>2. \A t \in Slots : ~RD(t)'
        <3>1. CASE current_reply # NoReply /\ Running(current_reply)
                   /\ reply[current_reply].kind = "check"
            <4>1. \A t \in Slots : ~RD(t)
                BY <1>0, <3>1 DEF RD
            <4>2. reply' = [reply EXCEPT ![current_reply] = FreeReply]
                BY <1>4, <3>1 DEF CancelUpdate
            <4>3. QED
                BY <4>1, <4>2 DEF RD, TypeOK, FreeReply
        <3>2. CASE current_reply # NoReply /\ Running(current_reply)
                   /\ reply[current_reply].kind # "check"
            <4>1. \A t \in Slots : RD(t) => t = current_reply
                BY <1>0
            <4>2. reply' = Finish(current_reply, TRUE)
                BY <1>4, <3>2 DEF CancelUpdate
            <4>3. QED
                BY <4>1, <4>2 DEF RD, TypeOK, Finish
        <3>3. CASE ~(current_reply # NoReply /\ Running(current_reply))
            <4>1. \A t \in Slots : ~RD(t)
                BY <1>0, <3>3, SlotsAssumption DEF RD
            <4>2. reply' = reply
                <5>1. IF current_reply # NoReply /\ Running(current_reply)
                      THEN IF reply[current_reply].kind = "check"
                           THEN /\ reply' = [reply EXCEPT ![current_reply] = FreeReply]
                                /\ current_reply' = NoReply
                           ELSE /\ reply' = Finish(current_reply, TRUE)
                                /\ UNCHANGED current_reply
                      ELSE UNCHANGED <<reply, current_reply>>
                    BY <1>4 DEF CancelUpdate
                <5>2. QED
                    BY <5>1, <3>3
            <4>3. QED
                BY <4>1, <4>2 DEF RD
        <3>4. QED
            BY <3>1, <3>2, <3>3
    <2>3. QED
        BY <1>0, <2>1, <2>2
<1>5. CASE \E s \in Slots : CheckReplyFinished(s)
    <2>1. PICK s \in Slots : CheckReplyFinished(s)
        BY <1>5
    <2>2. PICK err \in BOOLEAN :
            LET r == Finish(s, err)
                c == current_reply
            IN  IF c = NoReply
                THEN /\ reply' = r
                     /\ UNCHANGED <<update_in_progress, current_reply>>
                ELSE /\ reply' = [r EXCEPT ![c] = FreeReply]
                     /\ current_reply' = NoReply
                     /\ \/ UNCHANGED update_in_progress
                        \/ /\ r[c].kind = "download"
                           /\ r[c].st = "running"
                           /\ update_in_progress' = FALSE
        BY <2>1 DEF CheckReplyFinished
    <2>3. reply[s].kind = "check" /\ timers' = timers
        BY <2>1 DEF CheckReplyFinished
    <2>4. \A t \in Slots : RD(t)' => RD(t) /\ t # current_reply
        <3>1. CASE current_reply = NoReply
            <4>1. reply' = Finish(s, err)
                BY <2>2, <3>1
            <4>2. SUFFICES ASSUME NEW t \in Slots, RD(t)'
                           PROVE  RD(t) /\ t # current_reply
                OBVIOUS
            <4>3. t # s
                BY <2>3, <4>1, <4>2 DEF RD, Finish, TypeOK, Reply
            <4>4. QED
                BY <3>1, <4>1, <4>2, <4>3, SlotsAssumption DEF RD, Finish, TypeOK
        <3>2. CASE current_reply # NoReply
            <4>1. reply' = [Finish(s, err) EXCEPT ![current_reply] = FreeReply]
                BY <2>2, <3>2
            <4>2. current_reply \in Slots
                BY <3>2 DEF TypeOK
            <4>3. SUFFICES ASSUME NEW t \in Slots, RD(t)'
                           PROVE  RD(t) /\ t # current_reply
                OBVIOUS
            <4>4. t # current_reply
                BY <4>1, <4>2, <4>3 DEF RD, TypeOK, FreeReply, Finish
            <4>5. t # s
                BY <2>3, <4>1, <4>3, <4>4 DEF RD, Finish, TypeOK, Reply
            <4>6. reply'[t] = reply[t]
                BY <4>1, <4>4, <4>5 DEF Finish, TypeOK
            <4>7. QED
                BY <4>3, <4>4, <4>6 DEF RD
        <3>3. QED
            BY <3>1, <3>2
    <2>5. QED
        BY <1>0, <2>3, <2>4
<1>6. CASE \E s \in Slots : OnDownloadFinished(s)
    <2>1. PICK s \in Slots : OnDownloadFinished(s)
        BY <1>6
    <2>2. PICK err \in BOOLEAN :
            /\ reply' = Finish(s, err)
            /\ timers' = timers
        BY <2>1 DEF OnDownloadFinished
    <2>3. RD(s)
        BY <2>1 DEF OnDownloadFinished, RD
    <2>4. \A t \in Slots : RD(t)' => RD(t) /\ t # s
        BY <2>2 DEF RD, Finish, TypeOK
    <2>5. QED
        BY <1>0, <2>2, <2>3, <2>4
<1>7. CASE \E s \in Slots : InstallTimerFired(s)
    BY <1>0, <1>7 DEF InstallTimerFired
<1>8. CASE UNCHANGED vars
    BY <1>0, <1>8 DEF vars, impl, RD
<1>9. QED
    BY <1>2, <1>3, <1>4, <1>5, <1>6, <1>7, <1>8 DEF Next

\* In the Linux build the strengthened invariant holds in every state.
LEMMA LinuxIInv ==
    ASSUME Platform = "linux"
    PROVE  Spec => []IInv
<1>1. Init => IInv
    <2>1. Init => LinuxFlightInv
        BY DEF Init, LinuxFlightInv, Running, FreeReply
    <2>2. QED
        BY <2>1, InitType DEF IInv
<1>2. IInv /\ [Next]_vars => IInv'
    BY NextType, LinuxFlightStep DEF IInv
<1>3. QED
    BY <1>1, <1>2, PTL DEF Spec

\* The strengthened invariant confines the flight to current_reply.
LEMMA IInvSingleFlight ==
    ASSUME Platform = "linux", IInv
    PROVE  SingleFlight
<1>1. \A s \in InFlight : s = current_reply /\ update_in_progress
    BY DEF IInv, LinuxFlightInv, InFlight, Running
<1>2. InFlight \subseteq {current_reply}
    BY <1>1
<1>3. IsFiniteSet({current_reply}) /\ Cardinality({current_reply}) = 1
    BY FS_Singleton
<1>4. Cardinality(InFlight) <= 1
    BY <1>2, <1>3, FS_Subset
<1>5. InFlight # {} => update_in_progress
    BY <1>1
<1>6. QED
    BY <1>4, <1>5 DEF SingleFlight

\* Single flight in the Linux build: CancelUpdate aborts the current reply
\* synchronously and OnDownloadFinished replaces the AppImage in the same
\* handler, so update_in_progress is set whenever a download runs and at
\* most one runs, for any number of reply objects.
THEOREM LinuxSingleFlight ==
    ASSUME Platform = "linux"
    PROVE  Spec => []SingleFlight
BY LinuxIInv, IInvSingleFlight, PTL

-----------------------------------------------------------------------------
(* Cancellation in the Linux build.  CancelHonoured is not inductive: a   *)
(* Cancel must find the attempt in progress not yet reported a Success,  *)
(* and a Success must go to an attempt that was not cancelled.  Both      *)
(* follow from what holds while update_in_progress is set: the attempt in *)
(* progress is the one recorded, not cancelled and not yet notified, and  *)
(* it is the current reply whenever there is one.  That current reply has *)
(* not failed, so the UpdateError of the check lambda never lands on the  *)
(* attempt in progress.  AttemptInv holds in both builds.                 *)

AttemptInv ==
    update_in_progress =>
        /\ attempt \in Slots
        /\ attempt \notin cancelled
        /\ outcome[attempt] = "none"
        /\ current_reply \in {attempt, NoReply}
        /\ current_reply # NoReply => reply[current_reply].st # "error"

\* The check lambda's report changes nothing but an Error of the current
\* reply, and only of a failed download.
LEMMA ReportEffect ==
    ASSUME TypeOK, NEW r \in [Slots -> Reply], NEW c \in Slots,
           ReportCurrent(r, c)
    PROVE  /\ r[c].kind = "download" /\ r[c].st = "error" =>
                outcome' = [outcome EXCEPT ![c] = "Error"]
           /\ ~(r[c].kind = "download" /\ r[c].st = "error") =>
                outcome' = outcome
BY DEF ReportCurrent, Emit

LEMMA AttemptStep ==
    ASSUME TypeOK, AttemptInv, [Next]_vars
    PROVE  AttemptInv'
<1> SUFFICES ASSUME update_in_progress'
             PROVE  /\ attempt' \in Slots
                    /\ attempt' \notin cancelled'
                    /\ outcome'[attempt'] = "none"
                    /\ current_reply' \in {attempt', NoReply}
                    /\ current_reply' # NoReply =>
                         reply'[current_reply'].st # "error"
    BY DEF AttemptInv
<1>1. CASE \E s \in Slots : CheckForUpdates(s)
    BY <1>1 DEF CheckForUpdates
<1>2. CASE \E s \in Slots : DownloadAndInstallUpdate(s)
    <2>1. PICK s \in Slots : DownloadAndInstallUpdate(s)
        BY <1>2
    <2>2. /\ attempt' = s /\ cancelled' = cancelled \ {s}
          /\ outcome' = [outcome EXCEPT ![s] = "none"]
          /\ current_reply' = s
          /\ reply' = [reply EXCEPT ![s] = [kind |-> "download", st |-> "running"]]
        BY <2>1 DEF DownloadAndInstallUpdate, StartDownload, Allocate
    <2>3. QED
        BY <2>2 DEF TypeOK
<1>3. CASE CancelUpdate
    BY <1>3 DEF CancelUpdate
<1>4. CASE \E s \in Slots : CheckReplyFinished(s)
    <2>1. PICK s \in Slots : CheckReplyFinished(s)
        BY <1>4
    <2>2. PICK err \in BOOLEAN :
            LET r == Finish(s, err)
                c == current_reply
            IN  IF c = NoReply
                THEN UNCHANGED <<update_in_progress, current_reply, outcome>>
                ELSE /\ current_reply' = NoReply
                     /\ ReportCurrent(r, c)
                     /\ update_in_progress' \in {update_in_progress, FALSE}
        BY <2>1 DEF CheckReplyFinished
    <2>3. /\ update_in_progress
          /\ UNCHANGED <<attempt, cancelled>>
          /\ reply[s].kind = "check"
        BY <2>1, <2>2 DEF CheckReplyFinished
    <2>4. current_reply' = NoReply
        BY <2>2
    <2>5. UNCHANGED outcome
        <3>1. CASE current_reply = NoReply
            BY <2>2, <3>1
        <3>2. CASE current_reply # NoReply
            <4> DEFINE r == Finish(s, err)
                       c == current_reply
            <4>1. c \in Slots /\ reply[c].st # "error"
                BY <2>3, <3>2 DEF AttemptInv, TypeOK
            <4>2. r \in [Slots -> Reply]
                BY FinishType
            <4>3. ~(r[c].kind = "download" /\ r[c].st = "error")
                <5>1. CASE c = s
                    BY <2>3, <5>1 DEF Finish, TypeOK
                <5>2. CASE c # s
                    BY <4>1, <5>2 DEF Finish, TypeOK
                <5>3. QED
                    BY <5>1, <5>2
            <4>4. ReportCurrent(r, c)
                BY <2>2, <3>2
            <4>5. QED
                BY <4>1, <4>2, <4>3, <4>4, ReportEffect
        <3>3. QED
            BY <3>1, <3>2
    <2>6. QED
        BY <2>3, <2>4, <2>5 DEF AttemptInv
<1>5. CASE \E s \in Slots : OnDownloadFinished(s)
    <2>1. PICK s \in Slots : OnDownloadFinished(s)
        BY <1>5
    <2>2. PICK err \in BOOLEAN :
            LET r == Finish(s, err)
                c == current_reply
            IN  /\ reply' = r
                /\ UNCHANGED <<current_reply, attempt, cancelled>>
                /\ IF cancel_requested \/ c = NoReply
                   THEN update_in_progress' = FALSE
                   ELSE IF r[c].st = "error"
                   THEN update_in_progress' = FALSE
                   ELSE IF Platform = "windows"
                   THEN UNCHANGED <<update_in_progress, outcome>>
                   ELSE update_in_progress' = FALSE
        BY <2>1 DEF OnDownloadFinished
    <2>3. /\ update_in_progress
          /\ UNCHANGED <<current_reply, attempt, cancelled, outcome>>
          /\ current_reply # NoReply => reply'[current_reply].st # "error"
        BY <2>2
    <2>4. QED
        BY <2>3 DEF AttemptInv
<1>6. CASE \E s \in Slots : InstallTimerFired(s)
    BY <1>6 DEF InstallTimerFired
<1>7. CASE UNCHANGED vars
    BY <1>7 DEF vars, impl, ghost, AttemptInv
<1>8. QED
    BY <1>1, <1>2, <1>3, <1>4, <1>5, <1>6, <1>7 DEF Next

LEMMA AttemptInvariant == Spec => []AttemptInv
<1>1. Init => AttemptInv
    BY DEF Init, AttemptInv
<1>2. TypeOK /\ AttemptInv /\ [Next]_vars => TypeOK' /\ AttemptInv'
    BY NextType, AttemptStep
<1>3. QED
    BY <1>1, <1>2, InitType, PTL DEF Spec

\* A step that reports outcome o about slot u and cancels nothing keeps
\* CancelHonoured when o is no Success or u is not cancelled.
LEMMA EmitHonoured ==
    ASSUME TypeOK, CancelHonoured, NEW u \in Slots, NEW o,
           outcome' = [outcome EXCEPT ![u] = o],
           cancelled' = cancelled,
           o # "Success" \/ u \notin cancelled
    PROVE  CancelHonoured'
BY DEF CancelHonoured, TypeOK

LEMMA CancelStep ==
    ASSUME Platform = "linux", TypeOK, LinuxFlightInv, AttemptInv,
           CancelHonoured, [Next]_vars
    PROVE  CancelHonoured'
<1>1. CASE \E s \in Slots : CheckForUpdates(s)
    BY <1>1 DEF CheckForUpdates, Allocate, CancelHonoured, TypeOK
<1>2. CASE \E s \in Slots : DownloadAndInstallUpdate(s)
    <2>1. PICK s \in Slots : DownloadAndInstallUpdate(s)
        BY <1>2
    <2>2. /\ cancelled' = cancelled \ {s}
          /\ outcome' = [outcome EXCEPT ![s] = "none"]
        BY <2>1 DEF DownloadAndInstallUpdate, StartDownload, Allocate
    <2>3. QED
        BY <2>2 DEF CancelHonoured, TypeOK
<1>3. CASE CancelUpdate
    <2>1. outcome' = outcome /\ cancelled' \subseteq cancelled \cup {attempt}
        BY <1>3 DEF CancelUpdate
    <2>2. outcome[attempt] = "none"
        BY <1>3 DEF CancelUpdate, AttemptInv
    <2>3. QED
        BY <2>1, <2>2 DEF CancelHonoured
<1>4. CASE \E s \in Slots : CheckReplyFinished(s)
    <2>1. PICK s \in Slots : CheckReplyFinished(s)
        BY <1>4
    <2>2. PICK err \in BOOLEAN :
            LET r == Finish(s, err)
                c == current_reply
            IN  IF c = NoReply
                THEN UNCHANGED outcome
                ELSE ReportCurrent(r, c)
        BY <2>1 DEF CheckReplyFinished
    <2>3. cancelled' = cancelled
        BY <2>1 DEF CheckReplyFinished
    <2>4. CASE current_reply = NoReply
        BY <2>2, <2>3, <2>4 DEF CancelHonoured
    <2>5. CASE current_reply # NoReply
        <3> DEFINE r == Finish(s, err)
        <3>1. current_reply \in Slots /\ r \in [Slots -> Reply]
            BY <2>5, FinishType DEF TypeOK
        <3>2. ReportCurrent(r, current_reply)
            BY <2>2, <2>5
        <3>3. \/ outcome' = [outcome EXCEPT ![current_reply] = "Error"]
              \/ outcome' = outcome
            BY <3>1, <3>2, ReportEffect
        <3>4. QED
            BY <3>1, <3>3, <2>3, EmitHonoured DEF CancelHonoured
    <2>6. QED
        BY <2>4, <2>5
<1>5. CASE \E s \in Slots : OnDownloadFinished(s)
    <2>1. PICK s \in Slots : OnDownloadFinished(s)
        BY <1>5
    <2>2. cancelled' = cancelled
        BY <2>1 DEF OnDownloadFinished
    <2>3. s \notin cancelled
        <3>1. RD(s)
            BY <2>1 DEF OnDownloadFinished, Running, RD
        <3>2. s = current_reply /\ update_in_progress
            BY <3>1 DEF LinuxFlightInv, RD, Running
        <3>3. QED
            BY <3>2, SlotsAssumption DEF AttemptInv
    <2>4. \/ outcome' = outcome
          \/ \E o \in Outcome : outcome' = [outcome EXCEPT ![s] = o]
        BY <2>1 DEF OnDownloadFinished, LinuxReplace, Emit, Outcome
    <2>5. QED
        BY <2>2, <2>3, <2>4, EmitHonoured DEF CancelHonoured
<1>6. CASE \E s \in Slots : InstallTimerFired(s)
    BY <1>6 DEF InstallTimerFired, LinuxFlightInv
<1>7. CASE UNCHANGED vars
    BY <1>7 DEF vars, ghost, CancelHonoured
<1>8. QED
    BY <1>1, <1>2, <1>3, <1>4, <1>5, <1>6, <1>7 DEF Next

\* Cancellation in the Linux build: once CancelUpdate has cancelled an
\* attempt, neither OnDownloadFinished nor the check lambda's report of the
\* current reply ever tells the user that attempt succeeded, for any number
\* of reply objects.
THEOREM LinuxCancelHonoured ==
    ASSUME Platform = "linux"
    PROVE  Spec => []CancelHonoured
<1> DEFINE CInv == IInv /\ AttemptInv /\ CancelHonoured
<1>1. Init => CInv
    <2>1. Init => CancelHonoured
        BY DEF Init, CancelHonoured
    <2>2. Init => LinuxFlightInv
        BY DEF Init, LinuxFlightInv, Running, FreeReply
    <2>3. QED
        BY <2>1, <2>2, InitType DEF IInv, AttemptInv, Init
<1>2. CInv /\ [Next]_vars => CInv'
    BY NextType, LinuxFlightStep, AttemptStep, CancelStep DEF IInv
<1>3. QED
    BY <1>1, <1>2, PTL DEF Spec

-----------------------------------------------------------------------------
(* No staging without a backup.  StagedAfterBackup is not inductive: the  *)
(* install timer stages the archive, so the backup must already be taken *)
(* when the timer is pending, and before that while the Windows download  *)
(* that schedules it runs.  backup_taken is never reset.                   *)

BackupInv ==
    ~backup_taken =>
        /\ timers = {}
        /\ staging \notin StagedUpdate
        /\ Platform = "windows" => \A s \in Slots : ~RD(s)

\* No handler but DownloadAndInstallUpdate starts a download reply.
LEMMA NoNewDownload ==
    ASSUME TypeOK, [Next]_vars, ~\E s \in Slots : DownloadAndInstallUpdate(s)
    PROVE  \A t \in Slots : RD(t)' => RD(t)
<1> SUFFICES ASSUME NEW t \in Slots, RD(t)' PROVE RD(t)
    OBVIOUS
<1>1. FreeReply.st # "running" /\ FreeReply.kind # "download"
    BY DEF FreeReply
<1>2. \A u \in Slots, err \in BOOLEAN : Finish(u, err)[t].st = "running" =>
                                         reply[t] = Finish(u, err)[t]
    BY DEF Finish, TypeOK
<1>3. CASE \E s \in Slots : CheckForUpdates(s)
    BY <1>3, <1>1 DEF CheckForUpdates, Allocate, RD, TypeOK
<1>4. CASE CancelUpdate
    BY <1>4, <1>1, <1>2 DEF CancelUpdate, RD, TypeOK
<1>5. CASE \E s \in Slots : CheckReplyFinished(s)
    <2>1. PICK s \in Slots, err \in BOOLEAN :
            \/ reply' = Finish(s, err)
            \/ /\ current_reply \in Slots
               /\ reply' = [Finish(s, err) EXCEPT ![current_reply] = FreeReply]
        BY <1>5 DEF CheckReplyFinished, TypeOK
    <2>2. QED
        BY <2>1, <1>1, <1>2 DEF RD, TypeOK, Finish
<1>6. CASE \E s \in Slots : OnDownloadFinished(s)
    BY <1>6, <1>2 DEF OnDownloadFinished, RD
<1>7. CASE \E s \in Slots : InstallTimerFired(s)
    BY <1>7 DEF InstallTimerFired, RD
<1>8. CASE UNCHANGED vars
    BY <1>8 DEF vars, impl, RD
<1>9. QED
    BY <1>3, <1>4, <1>5, <1>6, <1>7, <1>8 DEF Next

LEMMA BackupStep ==
    ASSUME TypeOK, BackupInv, [Next]_vars
    PROVE  BackupInv'
<1> SUFFICES ASSUME ~backup_taken'
             PROVE  /\ timers' = {}
                    /\ staging' \notin StagedUpdate
                    /\ Platform = "windows" => \A s \in Slots : ~RD(s)'
    BY DEF BackupInv
<1>0. ~backup_taken
    <2>1. backup_taken => backup_taken'
        BY DEF Next, CheckForUpdates, DownloadAndInstallUpdate, StartDownload,
               CancelUpdate, CheckReplyFinished, OnDownloadFinished,
               InstallTimerFired, vars, disk
    <2>2. QED
        BY <2>1
<1>1. /\ timers = {}
      /\ staging \notin StagedUpdate
      /\ Platform = "windows" => \A s \in Slots : ~RD(s)
    BY <1>0 DEF BackupInv
<1>2. CASE \E s \in Slots : DownloadAndInstallUpdate(s)
    <2>1. PICK s \in Slots : DownloadAndInstallUpdate(s)
        BY <1>2
    <2>2. Platform = "windows" => reply' = [reply EXCEPT ![s] = FreeReply]
        BY <2>1, <1>0 DEF DownloadAndInstallUpdate, StartDownload
    <2>3. QED
        BY <1>1, <2>1, <2>2 DEF DownloadAndInstallUpdate, StartDownload, RD,
                               FreeReply, TypeOK
<1>3. CASE ~\E s \in Slots : DownloadAndInstallUpdate(s)
    <2>1. \A t \in Slots : RD(t)' => RD(t)
        BY <1>3, NoNewDownload
    <2>2. timers' = {} /\ UNCHANGED staging
        <3>1. CASE \E s \in Slots : OnDownloadFinished(s)
            <4>1. PICK s \in Slots : OnDownloadFinished(s)
                BY <3>1
            <4>2. RD(s)
                BY <4>1 DEF OnDownloadFinished, RD, Running
            <4>3. Platform # "windows"
                BY <1>1, <4>2
            <4>4. QED
                BY <1>1, <4>1, <4>3 DEF OnDownloadFinished
        <3>2. CASE \E s \in Slots : CheckForUpdates(s)
            BY <1>1, <3>2 DEF CheckForUpdates, disk
        <3>4. CASE CancelUpdate
            BY <1>1, <3>4 DEF CancelUpdate, disk
        <3>5. CASE \E s \in Slots : CheckReplyFinished(s)
            BY <1>1, <3>5 DEF CheckReplyFinished, disk
        <3>6. CASE \E s \in Slots : InstallTimerFired(s)
            BY <1>1, <3>6 DEF InstallTimerFired
        <3>7. CASE UNCHANGED vars
            BY <1>1, <3>7 DEF vars, impl, disk
        <3>3. QED
            BY <1>3, <3>1, <3>2, <3>4, <3>5, <3>6, <3>7 DEF Next
    <2>3. QED
        BY <1>1, <2>1, <2>2
<1>4. QED
    BY <1>2, <1>3

\* An update is staged for the helper script only after CreateBackup
\* succeeded in this run, on both platforms and for any number of reply
\* objects: the timer that stages it was scheduled by a download that
\* started after the backup.
THEOREM StagedOnlyAfterBackup == Spec => []StagedAfterBackup
<1>1. Init => BackupInv
    BY DEF Init, BackupInv, RD, FreeReply, StagedUpdate
<1>2. TypeOK /\ BackupInv /\ [Next]_vars => TypeOK' /\ BackupInv'
    BY NextType, BackupStep
<1>3. BackupInv => StagedAfterBackup
    BY DEF BackupInv, StagedAfterBackup
<1>4. QED
    BY <1>1, <1>2, <1>3, InitType, PTL DEF Spec

=============================================================================
