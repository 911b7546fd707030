--------------------------- MODULE UpdaterContract ---------------------------
(***************************************************************************)
(* What the updater promises its caller, the settings page (spec sections  *)
(* 3 and 8), with the network, the disk and the reply objects abstracted   *)
(* away.  An update attempt is named by the reply slot it was started in.  *)
(*                                                                         *)
(*   - one attempt at a time: an attempt begins only when none is busy;    *)
(*   - every notification is about the attempt that is busy, it ends that  *)
(*     attempt, and an attempt is notified at most once;                   *)
(*   - a cancelled attempt is never notified as a Success;                 *)
(*   - an attempt may also end without a notification (cancelled, or its   *)
(*     reply dropped), and checking for updates reuses a slot.             *)
(***************************************************************************)
EXTENDS Naturals, TLAPS

CONSTANTS Slots, NoReply

VARIABLES
    busy,       \* an attempt is in progress
    attempt,    \* the latest attempt, or NoReply
    cancelled,  \* attempts that were cancelled
    outcome,    \* outcome[s]: the notification attempt s got, or "none"
    notices     \* notices[s]: how many notifications attempt s got

cvars == <<busy, attempt, cancelled, outcome, notices>>

Notification == {"Success", "Failed", "ExtractionError", "PermissionError",
                 "Error"}

Init ==
    /\ busy = FALSE
    /\ attempt = NoReply
    /\ cancelled = {}
    /\ outcome = [s \in Slots |-> "none"]
    /\ notices = [s \in Slots |-> 0]

\* A slot starts a history of its own: a new attempt, or an update check.
Fresh(s) ==
    /\ cancelled' = cancelled \ {s}
    /\ outcome' = [outcome EXCEPT ![s] = "none"]
    /\ notices' = [notices EXCEPT ![s] = 0]

Begin(s) ==
    /\ ~busy
    /\ busy' = TRUE
    /\ attempt' = s
    /\ Fresh(s)

Check(s) ==
    /\ ~busy
    /\ Fresh(s)
    /\ UNCHANGED <<busy, attempt>>

Notify(o) ==
    /\ busy
    /\ o = "Success" => attempt \notin cancelled
    /\ busy' = FALSE
    /\ outcome' = [outcome EXCEPT ![attempt] = o]
    /\ notices' = [notices EXCEPT ![attempt] = @ + 1]
    /\ UNCHANGED <<attempt, cancelled>>

Cancel ==
    /\ busy
    /\ busy' = FALSE
    /\ cancelled' = cancelled \cup {attempt}
    /\ UNCHANGED <<attempt, outcome, notices>>

Drop ==
    /\ busy
    /\ busy' = FALSE
    /\ UNCHANGED <<attempt, cancelled, outcome, notices>>

Next ==
    \/ \E s \in Slots : Begin(s) \/ Check(s)
    \/ \E o \in Notification : Notify(o)
    \/ Cancel
    \/ Drop

Spec == Init /\ [][Next]_cvars

-----------------------------------------------------------------------------
TypeOK ==
    /\ busy \in BOOLEAN
    /\ attempt \in Slots \cup {NoReply}
    /\ cancelled \subseteq Slots
    /\ outcome \in [Slots -> Notification \cup {"none"}]
    /\ notices \in [Slots -> Nat]

\* A cancelled attempt is never notified as a Success.
Honoured == \A s \in cancelled : outcome[s] # "Success"

\* An attempt is notified at most once.
NotifiedOnce == \A s \in Slots : notices[s] <= 1

\* Honoured and NotifiedOnce are not inductive: a Cancel or a Notify must
\* find the busy attempt not yet notified, which holds because a
\* notification ends the attempt.
Inv ==
    /\ TypeOK
    /\ Honoured
    /\ NotifiedOnce
    /\ busy => /\ attempt \in Slots
               /\ outcome[attempt] = "none"
               /\ notices[attempt] = 0

LEMMA InitInv == Init => Inv
<1> SUFFICES ASSUME Init PROVE Inv
    OBVIOUS
<1>1. TypeOK
    BY DEF Init, TypeOK
<1>2. Honoured
    BY DEF Init, Honoured
<1>3. NotifiedOnce
    BY DEF Init, NotifiedOnce
<1>4. QED
    BY <1>1, <1>2, <1>3 DEF Init, Inv

LEMMA InvInductive == Inv /\ [Next]_cvars => Inv'
<1> SUFFICES ASSUME Inv, [Next]_cvars PROVE Inv'
    OBVIOUS
<1>1. ASSUME NEW s \in Slots, Begin(s) PROVE Inv'
    <2>1. /\ cancelled' = cancelled \ {s}
          /\ outcome' = [outcome EXCEPT ![s] = "none"]
          /\ notices' = [notices EXCEPT ![s] = 0]
          /\ busy' = TRUE
          /\ attempt' = s
        BY <1>1 DEF Begin, Fresh
    <2>2. QED
        BY <2>1 DEF Inv, TypeOK, Honoured, NotifiedOnce
<1>7. ASSUME NEW s \in Slots, Check(s) PROVE Inv'
    <2>1. /\ cancelled' = cancelled \ {s}
          /\ outcome' = [outcome EXCEPT ![s] = "none"]
          /\ notices' = [notices EXCEPT ![s] = 0]
          /\ busy' = FALSE
          /\ attempt' = attempt
        BY <1>7 DEF Check, Fresh
    <2>2. TypeOK'
        BY <2>1 DEF Inv, TypeOK
    <2>3. Honoured' /\ NotifiedOnce'
        BY <2>1 DEF Inv, TypeOK, Honoured, NotifiedOnce
    <2>4. QED
        BY <2>1, <2>2, <2>3 DEF Inv
<1>2. ASSUME NEW o \in Notification, Notify(o) PROVE Inv'
    <2>1. /\ busy /\ attempt \in Slots /\ notices[attempt] = 0
          /\ outcome[attempt] = "none"
        BY <1>2 DEF Notify, Inv
    <2>2. /\ notices' = [notices EXCEPT ![attempt] = 1]
          /\ outcome' = [outcome EXCEPT ![attempt] = o]
          /\ busy' = FALSE
          /\ UNCHANGED <<attempt, cancelled>>
        BY <1>2, <2>1 DEF Notify
    <2>3. TypeOK'
        BY <2>1, <2>2 DEF Inv, TypeOK
    <2>4. NotifiedOnce'
        BY <2>1, <2>2 DEF Inv, TypeOK, NotifiedOnce
    <2>5. Honoured'
        BY <1>2, <2>1, <2>2 DEF Notify, Inv, TypeOK, Honoured
    <2>6. QED
        BY <2>2, <2>3, <2>4, <2>5 DEF Inv
<1>3. CASE Cancel
    BY <1>3 DEF Cancel, Inv, TypeOK, Honoured, NotifiedOnce
<1>4. CASE Drop
    BY <1>4 DEF Drop, Inv, TypeOK, Honoured, NotifiedOnce
<1>5. CASE UNCHANGED cvars
    BY <1>5 DEF cvars, Inv, TypeOK, Honoured, NotifiedOnce
<1>6. QED
    BY <1>1, <1>2, <1>3, <1>4, <1>5, <1>7 DEF Next

\* Whatever implements the contract never reports a cancelled attempt as a
\* Success: the guard of Notify, and the end of an attempt at its first
\* notification, keep a Cancel from landing on a succeeded attempt.
THEOREM ContractHonoured == Spec => []Honoured
<1>1. Init => Inv
    BY InitInv
<1>2. QED
    BY <1>1, InvInductive, PTL DEF Spec, Inv

\* Whatever implements the contract notifies an attempt at most once: the
\* settings page shows one result per DownloadAndInstallUpdate.
THEOREM ContractNotifiesOnce == Spec => []NotifiedOnce
<1>1. Init => Inv
    BY InitInv
<1>2. QED
    BY <1>1, InvInductive, PTL DEF Spec, Inv

=============================================================================
