# Formal model of the Citron self-updater

This directory holds TLA+ models of the code in
`src/src/citron/configuration/configure_filesystem.cpp`. That file holds two
parts: the filesystem settings panel with its game-file autoloader (lines
1-184), and `Updater::UpdaterService` (lines 185-708). It also has TLC
configurations, TLAPS proofs and the project index `PROJECT.json`. All line
numbers below refer to that file.

## 1. The system

### Parts and how they interact

| Part | Code | State | Operations |
|---|---|---|---|
| Orchestrator | `CheckForUpdates`, `DownloadAndInstallUpdate`, `CancelUpdate`, the check lambda, `OnDownloadFinished` (268-423) | `update_in_progress`, `cancel_requested` (atomics), `current_reply` (raw pointer), the live `QNetworkReply` objects | start check, start download, cancel, reply finished (check), reply finished (download) |
| ReleaseFetcher / AssetSelector | `ParseUpdateResponse`, `ExtractCommitHash`, `GetCurrentVersion` (230-237, 321-329, 425-500) | `current_update_info` | one parse of the feed per check |
| BackupManager | `CreateBackup`, `RestoreBackup` (562-579), the Linux AppImage backup (389-398) | `citron.exe.bak`, the AppImage backup | snapshot before download, restore on failure |
| Installer (Windows) | the `singleShot(100)` lambda, `ExtractArchive`, `InstallUpdate` (358-377, 503-560) | `citron_update.zip`, `extracted/`, the staging tree | extract and stage |
| Installer (Linux) | `OnDownloadFinished` Linux branch (379-422) | the AppImage and `<AppImage>.new` | write, chmod, rename |
| Helper script | `CreateUpdateHelperScript`, `LaunchUpdateHelper` (581-689) | the install directory, the staging tree | wait, copy with retries, verify, relaunch, clean up |
| Autoloader | `ConfigureFilesystem::OnRunAutoloader` (57-184) | progress dialog pointer, worker thread | install files on a worker, cancel from the dialog |

Every updater handler runs on the Qt GUI thread, so each one is atomic. The
network is concurrent with the handlers: a reply can finish at any time.
`abort()` emits `finished` synchronously, inside `CancelUpdate`.
`deleteLater()` on a running reply either destroys it before it finishes or
delivers a `finished` that was already queued. On Windows the work after the
download is deferred to a 100 ms timer. It installs nothing itself: it stages
files for a helper script that is meant to run after the emulator exits.

### What makes it hard

The hard cases are these:

- Handlers read `current_reply`, not the reply that finished. A check and a
  download, or two checks, can therefore act on each other's reply.
- `CancelUpdate` races the Windows install timer.
- Several failing steps are never reported: the `.new` file fails to open, a
  write is short, `remove_all` fails, the backup copy fails, libarchive
  reports entry errors.
- No request has a timeout.
- The helper script retries with bounds and gives up.
- The autoloader reads a pointer from a worker thread while the GUI thread
  nulls it.

## 2. Modules

### `UpdaterService.tla`: the orchestrator and both installers

The constants are:

- `Slots`: the reply objects. A model value stands for a `QNetworkReply`;
  it is reused once nothing can reach the object.
- `NoReply`: `nullptr`.
- `Platform`: the `#if` branch that is compiled in.

| Variable | Code |
|---|---|
| `update_in_progress`, `cancel_requested` | the two `std::atomic<bool>` members |
| `current_reply` | the `current_reply` pointer |
| `reply[s]` | kind (check, download, or free) and state (running, ok, error) of reply object `s` |
| `timers` | pending `singleShot(100)` lambdas (Windows) |
| `backup_taken` | `citron.exe.bak` written by `CreateBackup` in this run |
| `zip`, `staging` | `citron_update.zip` and the staging tree, abstracted to full, partial, mixed or stale content |
| `appimage`, `appimage_backup`, `appimage_env`, `backups_enabled` | the Linux AppImage, its backup, whether `$APPIMAGE` is usable, and the backup setting |
| `attempt`, `cancelled`, `outcome`, `notices` | ghost variables: the latest download attempt, the attempts the user cancelled, the last `UpdateCompleted`/`UpdateError` result per attempt, and how many of those each attempt received |

| Action | Code |
|---|---|
| `CheckForUpdates(s)` | 268-280. Refused while `update_in_progress`; the new reply replaces `current_reply`. |
| `DownloadAndInstallUpdate(s)` | 293-311. The guard, then `StartDownload`: the cancel flag is reset and, on Windows, `CreateBackup` succeeds or `PermissionError` is reported. |
| `CancelUpdate` | 314-319. `abort()` and its synchronous `finished` handler are part of this step. |
| `CheckReplyFinished(s)` | the lambda, 281-290. Acts on `current_reply`: `ReportCurrent` emits `UpdateError` (286) when that reply is a failed download, then the reply is freed and the pointer nulled. |
| `OnDownloadFinished(s)` | 335-358. The cancel/null check, then the error check, then the platform branch. On Linux the branch is `LinuxReplace`, 380-422. |
| `InstallTimerFired(s)` | 358-377. `Extracted` is `ExtractArchive` (503-538) and `Staged` is `InstallUpdate` (540-560). `RestoreBackup` copies the unchanged `citron.exe.bak` back, so it has no effect in the model. |

Every notification goes through `Emit`, which records the result and
counts it in `notices`. A reply slot is reused (`Reusable`) once its object
was deleted, or once it has finished and is no longer `current_reply`, so
that no handler can reach it again. A pending install timer keeps its slot,
because a slot also names an attempt in the ghost history.

Undefined and unchecked outcomes are nondeterministic choices: opening a
file, a write, a rename, `remove_all`, a copy, and the dangling
`qgetenv().constData()` pointer.

### `ReleaseSelection.tla`: discovery and asset choice

One behaviour is one call of `ParseUpdateResponse` on a response picked by
`Init`: any feed of at most two releases, or a malformed body.

- An asset is abstracted to its extension and the substrings the code tests
  (`PGO`, `v3`, `aarch64`).
- The build variant is abstracted to `aarch64`, `v3` and `x86_64`.
- A release title is a string, because `ExtractCommitHash` cuts a regex match
  out of it. The alphabet is `a`, `b` (hex) and `z`. The regex bounds
  `{7,40}` become the constants `MinHash..MaxHash` (2..3 in the runs), so
  that a short run, a run in range and a run over the cap all occur in five
  characters.

| Operator | Code |
|---|---|
| `HexEnd`, `HexRun`, `MatchStarts` | the extent of a hex run and the positions where `[0-9a-fA-F]{7,40}` can match (231-233) |
| `ExtractCommitHash` | the regex search: the leftmost start (`Min(MatchStarts)`), its greedy run cut at `MaxHash` (230-237) |
| `LatestV` | 434-442 |
| `OsValid` | 460-477 |
| `VariantMatched` | 464-485 |
| `SelectAssets` | 449-489 |
| `FirstCompatible` | the release loop: the least index of a release with a version and a matching asset |
| `ParseUpdateResponse` | 425-500 |

### `UpdaterContract.tla`: what the updater promises

An abstract specification of the updater, seen from the settings page. An
attempt is named by its reply slot. The variables are `busy`, `attempt`,
`cancelled`, `outcome` and `notices`. The actions are these:

- `Begin(s)`: only when no attempt is busy.
- `Check(s)`: a check reuses a slot.
- `Notify(o)`: a notification is about the busy attempt and ends it. It is
  never a `Success` if the attempt was cancelled.
- `Cancel` ends the busy attempt and marks it cancelled.
- `Drop` ends it silently.

`UpdaterService` instantiates it as `Contract` with `busy <- update_in_progress`.
The ghost history maps to itself. `ImplementsContract == Contract!Spec` is
the refinement property. The code does not satisfy it: the run
check_renotifies finds the violation (section 3).

### `HelperScript.tla`: `apply_update.bat`

The batch file written by `CreateUpdateHelperScript` (581-681), run by
`cmd.exe` next to the emulator it replaces. `pc` is the line the script is
at. The counters are the script's. `emulator` says whether a `citron.exe`
process runs, `install` whether the installation holds the old build, the
new one or a mixture, `staging` whether the staging tree is present, partly
removed or gone, and `script_file` whether the batch file still exists.

| Action | Code |
|---|---|
| `WaitPoll` | 607-620: one `tasklist` poll; gives up after 60 |
| `Robocopy` | 625-653: `attrib`, one robocopy run, the `geq 8` test and the 3 attempts; the `citron.exe` verification always passes because robocopy deletes nothing. `RobocopyEffect` is what a run does: all copied; all but the locked `citron.exe` copied; or nothing. |
| `PressKey` | 643-644: `pause`, then `exit /b 1` |
| `Relaunch` | 655-657: `start citron.exe` |
| `RemoveStaging` | 659-670: one `rd /s /q`. It may remove everything, or everything but a locked file; the batch file may be among what it removed, and then `cmd.exe` stops at its next line. Otherwise it retries up to 5 times. |
| `SelfDelete` | 672-674: `del "%~f0"`, after which `cmd.exe` stops |
| `EmulatorExits` | the environment: the user closes the emulator |

### `Autoloader.tla`: the game-file autoloader

One call of `ConfigureFilesystem::OnRunAutoloader` (57-184). It has two
threads. The GUI thread runs the loop and the busy wait. The
QtConcurrent worker runs `InstallNSP` and its progress callback. The
variable `install_progress` is the pointer (null or not), and `dialog` is
the object: shown, cancelled, closing (deletion posted) or freed. User input
and the deferred deletion are delivered only while the GUI thread is in
`processEvents()`.

| Action | Code |
|---|---|
| `Start` | 57-121: the early returns (message boxes), then the dialog is created with `WA_DeleteOnClose` and its `destroyed` lambda |
| `NextFile` | 123-140: the loop test `!install_progress || wasCanceled()`, then `QtConcurrent::run` |
| `Collect` | 142-158: the future has finished and its result is recorded |
| `Finish` | 160-184: `close()`, the summary, the cache removal |
| `DeferredDelete` | 117-120: the deletion, and the lambda nulling the pointer in the same GUI step |
| `CallbackTest`, `CallbackWasCanceled` | 133-137: the worker's null test, and then its call through the pointer, as two steps |
| `CopyChunk`, `InstallDone`, `UserCancel`, `UserClose` | the environment: `InstallNSP` (not in the sources), and the user |

A call through a freed dialog is undefined. The model lets it return
either answer and records it in `uaf`.

The worker's lambda captures `file`, `progress_callback` and the system by
reference (`[&]`, line 140), so the loop must not advance or return before
the future has finished. `Collect` leaves the busy wait only when the
future has finished, so this holds by construction. The proofs keep it as a
conjunct of their inductive invariant, and no run states it on its own.

### MC modules

- `MC_UpdaterService` adds `SlotSymmetry`. Reply objects are
  interchangeable, so symmetry is sound: no property names a particular
  slot.
- `MC_ReleaseSelection` defines the small alphabets, assets, variants and
  feeds.
- `MC_HelperScript` gives the script's own bounds: 60 polls, 3 copies and
  5 removals.
- `MC_Autoloader` extends `Autoloader`; its cfg gives 2 files of up to 3
  chunks.

## 3. Runs

| Run | cfg | Checks | Result |
|---|---|---|---|
| linux_safety | `UpdaterService_linux.cfg` (3 slots) | `TypeOK`, `SingleFlight`, `CancelHonoured` | pass, 168k states |
| windows_backup | `UpdaterService_windows.cfg` (2 slots) | `StagedAfterBackup` | pass, 17k states (with symmetry) |
| check_renotifies | `UpdaterService_contract.cfg` (2 slots) | `ImplementsContract` | violation |
| win_cancel | `UpdaterService_win_cancel.cfg` | `CancelHonoured` | violation |
| linux_success_replaced | `UpdaterService_linux_success_replaced.cfg` | `SuccessMeansReplaced` | violation |
| attempt_ends | `UpdaterService_attempt_ends.cfg` (`FairSpec`) | `AttemptEnds` | violation |
| release_linux | `ReleaseSelection_linux.cfg` | `TypeOK`, `FirstCompatibleChosen`, `OptionsFollowVariant` | pass, 192k states |
| release_windows | `ReleaseSelection_windows.cfg` | `OptionsFollowVariant` | pass, 128k states |
| helper_script | `HelperScript.cfg` (`FairSpec`) | `TypeOK`, `RelaunchOnlyComplete`, `ScriptEnds` | pass, 7k states |
| helper_staging_purged | `HelperScript_purged.cfg` | `StagingPurged` | violation |
| autoloader | `Autoloader.cfg` (`FairSpec`) | `TypeOK`, `CancelStopsInstall`, `AutoloaderEnds` | pass, 233 states |
| autoloader_uaf | `Autoloader_uaf.cfg` | `NoUseAfterFree` | violation |

What the violations show (details in `PROJECT.json`, "findings"):

- **win_cancel.** On Windows a `CancelUpdate` during the 100 ms timer
  window is ignored by the timer, which stages the update and reports
  `Success`. The same cancel clears `update_in_progress` while the timer
  is pending, so a second attempt can overlap the first; TLC shows this
  too when `SingleFlight` is checked under the Windows constants.
- **linux_success_replaced.** On Linux a failed open of `<AppImage>.new` is
  skipped and `Success` is reported with the old AppImage in place.
- **attempt_ends.** A check still in flight when a download starts deletes
  the download reply when it finishes. `update_in_progress` then stays set
  forever, and the updater refuses everything until the user cancels.
- **check_renotifies.** A check is running when a download starts. The
  user cancels the download, and `CancelUpdate` aborts it silently. When the
  check's answer arrives, the lambda reads `current_reply`, finds the failed
  download and emits `UpdateError` about it while no update is in progress.
  In the other trace, the download fails and `OnDownloadFinished` reports
  it; the check lambda then reports the same failure a second time. The
  contract (spec sections 4.6 and 8) allows one notification per attempt,
  only while it is busy.
- **helper_staging_purged.** The script lives in the directory it removes.
  `rd` deletes the script with the rest, `cmd.exe` stops, and a locked file
  left in staging is never retried. The exit-1 paths skip cleanup entirely.
- **autoloader_uaf.** The user closes the progress dialog between the
  worker's null test and its `wasCanceled()` call. The deferred delete
  frees the dialog, and the worker then calls through a dangling pointer.

The code also diverges from the spec in one place no run states on its
own. `ParseUpdateResponse` returns silently on a malformed body and when no
release is compatible, where spec sections 4.1 and 7 name `ParseError` and
`NoCompatibleAsset`. `FirstCompatibleChosen` pins down that silence: the
parse is silent exactly when no release qualifies.

### Bounds

- The helper script is checked with its real bounds, because its state is
  small. The 60 polls let the emulator exit before, during or never within
  the wait.
- The autoloader uses two files, so a cancel can land in the first file
  and be seen before the second. Up to three chunks per file let a click
  fall before, between and after the callback's two steps.

- Three reply objects are enough for every interleaving of a check, a
  download and a reused object. Windows uses two, because the timer and the
  staging state multiply the state space. Two objects are enough for a
  check overlapping a download and for a second attempt during the timer.
- The release runs cover every ordering of a compatible and an incompatible
  release, every asset kind in both positions, and both channels and every
  realistic variant of each platform. Windows assets carry no `aarch64`
  tag, because there is no Windows ARM build to match.

### Fairness

`FairSpec` puts weak fairness on the reply handlers and on the timer. That
means the network eventually answers every request and Qt eventually fires
a due timer. The code sets no transfer timeout, so the first part is an
assumption about the server, and the hazard list records it. User actions
are not fair: the user may never click.

`HelperScript` puts weak fairness on the script's own steps: `cmd.exe` keeps
running the script. The emulator's exit and the key press at `pause` are
not fair. `Autoloader` puts weak fairness on the GUI thread's loop steps and
on the worker's steps; the user, and the deferred deletion, owe nothing.
Because `InstallNSP` copies at most `MaxChunks` chunks of a file, weak
fairness on the worker means it eventually returns.

### Deadlock

The `UpdaterService` runs check deadlock; the updater can always start
another check. The release runs set `CHECK_DEADLOCK FALSE`, because each
behaviour is one call of `ParseUpdateResponse`, which ends after its one
step. The helper-script and autoloader runs set it too: the script exits,
and `OnRunAutoloader` returns.

## 4. Proofs (checked by `tlapm`)

### `UpdaterService_proofs.tla`

- **`TypeCorrect`**: `Spec => []TypeOK`, for every finite set of reply
  objects and both platforms. `TypeOK` includes the claim that
  `current_reply` is null or names a live reply. The proof is `InitType`
  plus `NextType`. `NextType` has one step per action, with `CASE` steps for
  the branches of `CancelUpdate`, the check lambda and `OnDownloadFinished`.
- **`LinuxSingleFlight`**: under `Platform = "linux"`,
  `Spec => []SingleFlight`. `SingleFlight` is not inductive by itself: from
  a state with two running downloads, the handlers break it. The
  strengthening `LinuxFlightInv` says:
  - no timer is pending;
  - every running download reply is `current_reply`;
  - while one runs, `update_in_progress` is set.

  It holds on Linux because `CancelUpdate` aborts the current reply
  synchronously and `OnDownloadFinished` finishes all its work in the same
  handler. TLC checked `TypeOK /\ LinuxFlightInv` as an invariant first. The
  proof shows it inductive (`LinuxFlightStep`, one step per action). Then
  `IInvSingleFlight` derives `SingleFlight` with `FS_Subset` and
  `FS_Singleton`.
- **`LinuxCancelHonoured`**: `Spec => []CancelHonoured` on Linux. The
  inductive invariant is `IInv /\ AttemptInv /\ CancelHonoured`.
  `AttemptInv` (proved on both platforms, `AttemptInvariant`) says that
  while `update_in_progress` is set:
  - the recorded attempt is not cancelled and not yet notified;
  - `current_reply` is that attempt or null;
  - the current reply has not failed.

  With it, `CancelStep` goes through each action:
  - `CancelUpdate` cancels an attempt whose outcome is still "none".
  - The check lambda reports only an `Error` (`ReportEffect`, `EmitHonoured`).
  - `OnDownloadFinished` reports only about the running download. By
    `LinuxFlightInv` that download is the current, uncancelled attempt.
  - No timer is pending on Linux.

  The contract refinement is not proved, because it is false (run
  check_renotifies).
- **`StagedOnlyAfterBackup`**: `Spec => []StagedAfterBackup` on both
  platforms. The inductive `BackupInv` says that without a backup, no timer
  is pending, nothing is staged and, on Windows, no download runs.
  `NoNewDownload` shows that only `DownloadAndInstallUpdate` starts a
  running download.

### `UpdaterContract.tla`

- **`ContractHonoured`**: `Spec => []Honoured`. The inductive `Inv` adds
  that a busy attempt has no notification yet.
- **`ContractNotifiesOnce`**: `Spec => []NotifiedOnce`. Every attempt is
  notified at most once, from the same `Inv`. This is the promise that the
  check lambda breaks in check_renotifies.

The proofs rest on `SlotsAssumption`: `Slots` is finite and non-empty, and
`NoReply` is not in `Slots`.

### `HelperScript_proofs.tla`

These proofs hold for every value of `MaxWait`, `CopyTries` and
`CleanupTries` allowed by `ScriptAssumption`.

- **`TypeCorrect`**: `Spec => []TypeOK`.
- **`RelaunchOnlyOverComplete`**: `Spec => []RelaunchOnlyComplete`.

Neither property is inductive on its own. The inductive invariant `IInv`
adds two facts:

- At a loop's label, that loop's counter is still below its bound. The
  `if ... gtr`/`lss` tests leave the loop when the bound is reached.
- When the script enters a loop, that loop's counter is zero.

The proof has one step per action. The `Robocopy` step splits on the
exit code: only "every file copied" leads to `start`, and only that
code leaves `install = "new"`. `RemoveStaging` splits on whether `rd`
removed the script.

### `Autoloader_proofs.tla`

These proofs hold for any `NFiles` and `MaxChunks` allowed by
`AutoloaderAssumption`. The inductive invariant `IInv` is `TypeOK`, plus
these facts:

- `GuiPointerValid`: `install_progress` is null or names a live dialog.
- `WorkerJoined`: the GUI thread is outside the busy wait only while no
  `InstallNSP` runs.

- Nothing has happened before `Start`.
- After a Cancel or a close, the dialog is cancelled, closing or freed.
  No step of either thread makes it "shown" again.
- The busy wait runs only for a file that exists.

The theorems:

- **`TypeCorrect`**: the type invariant holds in every state.
- **`CancelHonoured`**: `Spec => CancelStopsInstall`, the action property.
  The lemma `NoStartAfterCancel` shows that only `NextFile` moves the GUI
  thread from the loop into the busy wait. It also shows that its test
  cannot pass after a cancel: a non-null pointer means a live dialog, and
  after a cancel a live dialog is cancelled or closing.

TLC checked each `IInv` as an invariant before it was proved.

### `ReleaseSelection_proofs.tla`

The scans of `ReleaseSelection` are written as the least element of a set,
never as recursion over the title or the feed:
- `HexEnd(s, i)` is the least position at or after `i` that is past the end
  or not hex.
- `ExtractCommitHash` starts at the least position where a run of at least
  `MinHash` hex characters begins. This is what `std::regex_search` returns:
  the leftmost match, greedy up to the `{7,40}` cap.
- `FirstCompatible` is the least index of a qualifying release. This is
  the loop's first `return` of a result.

The provers therefore need no induction over data. The fact that a least
element exists is the lemma `NatMin`. It comes from `WFMin` and
`NatLessThanWellFounded` of `WellFoundedInduction`.

The lemmas:
- **`HexEndFacts`** and **`HexEndBeyond`**: every character from `i` up to
  `HexEnd` is hex, and so is no character at `HexEnd`.
- **`StartIsSpan`**: `i` is in `MatchStarts` exactly when a hex span of
  `MinHash..MaxHash` characters starts there.
- **`HashAgrees`**: for every string over the alphabet and every pair of
  bounds, `ExtractCommitHash(s) = RefHash(s)`. `RefHash` is the spec's
  reading (section 4.1), stated with no scan at all: of all hex spans of the
  allowed length, take the leftmost start and the longest span from it.
  TLC compares the two only on strings of five characters. The lemma covers
  every length.
- **`HashShape`**: a non-empty hash has `MinHash..MaxHash` hex characters.
- **`LatestVAgrees`**: `LatestV = RefLatestV` for every release.
- **`StopsAtFirstCompatible`**: the index `FirstCompatible` returns is the
  least one of the set `Compatible`, the set `FirstCompatibleChosen` names.

The inductive invariant `IInv` has three parts: the response is a feed or
the malformed body, `FirstCompatibleChosen` and `VersionShape`. These are
inductive together. The first conjunct is what lets the step proof read
the feed as a `Seq(Release)`. TLC checked `IInv` on the Windows model before
the proof.

The theorems:
- **`FirstCompatibleReported`**: `Spec => []FirstCompatibleChosen`. The
  first release in feed order with a version and a compatible asset is the
  one reported, for feeds of any length, any bounds and any variant.
- **`VersionWellFormed`**: `Spec => []VersionShape`. A reported version is
  a tag, or a hash of `MinHash..MaxHash` hex characters.

### What TLC checks and no proof covers

- Liveness (`AttemptEnds`, `ScriptEnds`, `AutoloaderEnds`). TLAPS does not
  handle `ENABLED` and fairness.
- `ReleaseSelection`'s `OptionsFollowVariant`, and the `options` conjunct
  of its `TypeOK`. Both concern `SelectAssets`, which filters with
  `SelectSeq`. `Sequences` defines `SelectSeq` by a recursive function.
  Saying what that function returns for every list would need induction
  over the list. The installed provers cannot instantiate the library's
  induction theorems, so these stay with TLC on the assets of
  `MC_ReleaseSelection`.
- The Windows properties that are violated.

## 5. Not modelled

- **A re-entrant `OnRunAutoloader`.** `processEvents()` in the busy wait
  delivers a second click on the button, and the nested call replaces
  `install_progress`. The model runs a single call.
- **The progress value.** `OnUpdateInstallProgress` adds one per callback,
  and `QProgressDialog::setValue` at the maximum resets the cancel flag.
  How many callbacks `InstallNSP` makes is not in the sources.
- **The helper script composed with `UpdaterService`.** `LaunchUpdateHelper`
  has no caller in the sources, so nothing connects a staged update to the
  script. Each is modelled alone.
- **`CleanupFiles` and the destructor.** They run when the service dies and
  change only files that no property reads.
- **Composition of `UpdaterService` and `ReleaseSelection`.** Not done.
  `current_update_info` is read by no handler.
- **The settings form.** It copies UI values into settings.
- **`part_000`.** An interface with declarations only.
- **`scm_rev.h`.** Constants.
- **`stb.cpp`.** It includes a third-party header.
- **`present_lanczos.frag`.** A per-pixel shader with no state.
