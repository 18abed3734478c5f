---------------------------- MODULE Updates_proofs ----------------------------
(* Proofs about Updates: the dialogue implements the engine's barrier, and     *)
(* settles, for every number of downloads, closings and attempts.              *)
EXTENDS Updates, EngineBuilds_proofs

\* An action of the dialogue leaves the engine alone, or is its Begin or GiveUp.
LEMMA DialogueSteps ==
  ASSUME [UpdatesNext]_<<system, dialogue>>
  PROVE  [SystemNext]_system
<1>1. CASE (Working \/ Building \/ Preparing) /\ UNCHANGED dialogue
  BY <1>1 DEF SystemNext
<1>2. CASE Dialogue
  BY <1>2 DEF Dialogue, Check, Checked, Download, CancelDownload, CloseWindow, Ask, DownloadEnds,
     InstallOnClose, Timeout, Install, Handover, GivesUp, InstallFailed, SystemNext
<1>3. CASE UNCHANGED <<system, dialogue>>
  BY <1>3
<1> QED BY <1>1, <1>2, <1>3 DEF UpdatesNext

\* An update begins with Begin and ends only when it gives up.
LEMMA UpdaterStays ==
  ASSUME TypeOK, Working \/ Building \/ Preparing
  PROVE  updater' # "off" <=> updater # "off"
<1>1. CASE Working
  BY <1>1, WorkingStays
<1>2. CASE Building
  <2>1. ASSUME NEW o \in Ops, NEW s \in Sources, SourcePublished(o, s) PROVE updater' = updater
    BY <2>1 DEF SourcePublished, Publish, barrier
  <2>2. ASSUME NEW o \in Ops, NEW k \in Keys, Look(o, k) \/ Rebuild(o, k) PROVE updater' = updater
    BY <2>2 DEF Look, Rebuild, vars
  <2>3. ASSUME NEW o \in Ops, Prepare(o) PROVE updater' = updater
    BY <2>3 DEF Prepare, PrepareBegins, PrepareWants, PrepareLooks, PrepareClaims, PrepareBuilds,
       PrepareReleases, PrepareGoesOn, PrepareLeaves, vars
  <2>4. ASSUME Enqueue \/ Take \/ Admitted \/ Consider \/ Claim \/ Builds \/ Releases \/ Leave
        PROVE  updater' = updater
    BY <2>4 DEF Enqueue, Take, Admitted, Consider, Claim, Builds, Releases, Leave, vars
  <2> QED BY <1>2, <2>1, <2>2, <2>3, <2>4 DEF Building
<1>3. CASE Preparing
  BY <1>3 DEF Preparing, ClearQueue, SeesNoClaim, SeesWorker, SeesRequests, Quiet, vars
<1> QED BY <1>1, <1>2, <1>3

-----------------------------------------------------------------------------
(* The inductive invariant, over the engine's.                               *)

\* A ready package is what every attempt and every closing is about, and only
\* the installer leaves it; the last number given is the download's that is shown.
Offered ==
    /\ handing > 0 \/ failing > 0 \/ asking # 0 \/ updater # "off" =>
           phase \in {"Ready", "Installing"}
    /\ phase = "Downloading" => owner = downloads
    /\ asking \in 0..closes

UInv == /\ UpdatesTypeOK
        /\ Offered
        /\ DownloadOwned
        /\ CloseAnswered
        /\ AttemptEnds

-----------------------------------------------------------------------------
(* The steps of the dialogue.                                                *)

\* A check begins only without a package.
LEMMA CheckSettles ==
  ASSUME UInv, EngineTypeOK', Check
  PROVE  UInv'
<1> USE DEF UInv, Check, dialogue, download, close
<1>1. UpdatesTypeOK'
  BY DialogueAssumption DEF UpdatesTypeOK, Offered
<1>2. Offered'
  BY DEF Offered, UpdatesTypeOK, CloseAnswered, system, vars
<1>3. DownloadOwned'
  BY DEF DownloadOwned, UpdatesTypeOK, Offered, CloseAnswered
<1>4. CloseAnswered'
  BY DEF CloseAnswered, UpdatesTypeOK, Offered
<1>5. AttemptEnds'
  BY DEF AttemptEnds, UpdatesTypeOK, Offered, system, vars
<1> QED BY <1>1, <1>2, <1>3, <1>4, <1>5

\* A check ends without one.
LEMMA CheckedSettles ==
  ASSUME UInv, EngineTypeOK', Checked
  PROVE  UInv'
<1> USE DEF UInv, Checked, dialogue, download, close
<1>1. UpdatesTypeOK'
  BY DialogueAssumption DEF UpdatesTypeOK, Offered
<1>2. Offered'
  BY DEF Offered, UpdatesTypeOK, CloseAnswered, system, vars
<1>3. DownloadOwned'
  BY DEF DownloadOwned, UpdatesTypeOK, Offered, CloseAnswered
<1>4. CloseAnswered'
  BY DEF CloseAnswered, UpdatesTypeOK, Offered
<1>5. AttemptEnds'
  BY DEF AttemptEnds, UpdatesTypeOK, Offered, system, vars
<1> QED BY <1>1, <1>2, <1>3, <1>4, <1>5

\* A download owns the dialogue by its number.
LEMMA DownloadSettles ==
  ASSUME UInv, EngineTypeOK', Download
  PROVE  UInv'
<1> USE DEF UInv, Download, dialogue, download, close
<1>1. UpdatesTypeOK'
  <2>1. {owner', package', downloads'} \subseteq 0..MaxDownloads /\ tasks' \subseteq 1..downloads'
    <3>1. /\ downloads \in Nat /\ downloads' = downloads + 1 /\ downloads' \in 1..MaxDownloads
          /\ tasks \subseteq 1..downloads /\ package \in 0..MaxDownloads
      BY DialogueAssumption DEF UpdatesTypeOK
    <3>2. 1..downloads \subseteq 1..downloads' /\ downloads' \in 1..downloads'
      BY <3>1
    <3>3. owner' = downloads' /\ tasks' = tasks \cup {downloads'} /\ package' = package
      OBVIOUS
    <3> QED BY <3>1, <3>2, <3>3
  <2>2. {closing', asking', closes'} \subseteq 0..MaxCloses /\ timers' \subseteq 1..closes'
    BY DialogueAssumption DEF UpdatesTypeOK, Offered
  <2>3. {handing', failing'} \subseteq Nat
    BY DEF UpdatesTypeOK
  <2>4. phase' \in {"Idle", "Checking", "Available", "Downloading", "Ready", "Installing"}
    BY DEF UpdatesTypeOK
  <2>5. onClose' \in BOOLEAN /\ (onClose' => phase' = "Ready")
    BY DEF UpdatesTypeOK, DownloadOwned
  <2> QED BY <2>1, <2>2, <2>3, <2>4, <2>5 DEF UpdatesTypeOK
<1>2. Offered'
  BY DEF Offered, UpdatesTypeOK, CloseAnswered, system, vars
<1>3. DownloadOwned'
  BY DEF DownloadOwned, UpdatesTypeOK, Offered, CloseAnswered
<1>4. CloseAnswered'
  BY DEF CloseAnswered, UpdatesTypeOK, Offered
<1>5. AttemptEnds'
  BY DEF AttemptEnds, UpdatesTypeOK, Offered, system, vars
<1> QED BY <1>1, <1>2, <1>3, <1>4, <1>5

\* Only the download that owns the dialogue delivers.
LEMMA DownloadEndsSettles ==
  ASSUME UInv, EngineTypeOK', NEW t \in tasks, DownloadEnds(t)
  PROVE  UInv'
<1> USE DEF UInv, DownloadEnds, dialogue, download, close
<1>1. UpdatesTypeOK'
  <2>1. {owner', package', downloads'} \subseteq 0..MaxDownloads /\ tasks' \subseteq 1..downloads'
    BY DialogueAssumption DEF UpdatesTypeOK
  <2>2. {closing', asking', closes'} \subseteq 0..MaxCloses /\ timers' \subseteq 1..closes'
    BY DialogueAssumption DEF UpdatesTypeOK, Offered
  <2>3. {handing', failing'} \subseteq Nat
    BY DEF UpdatesTypeOK
  <2>4. phase' \in {"Idle", "Checking", "Available", "Downloading", "Ready", "Installing"}
    BY DEF UpdatesTypeOK
  <2>5. onClose' \in BOOLEAN /\ (onClose' => phase' = "Ready")
    BY DEF UpdatesTypeOK, DownloadOwned
  <2> QED BY <2>1, <2>2, <2>3, <2>4, <2>5 DEF UpdatesTypeOK
<1>2. Offered'
  BY DEF Offered, UpdatesTypeOK, DownloadOwned, system, vars
<1>3. DownloadOwned'
  BY DEF DownloadOwned, UpdatesTypeOK, Offered, CloseAnswered
<1>4. CloseAnswered'
  BY DEF CloseAnswered, UpdatesTypeOK, DownloadOwned
<1>5. AttemptEnds'
  BY DEF AttemptEnds, UpdatesTypeOK, Offered, system, vars
<1> QED BY <1>1, <1>2, <1>3, <1>4, <1>5

\* A cancelled download owns nothing, whether its task is stopped or not.
LEMMA CancelDownloadSettles ==
  ASSUME UInv, EngineTypeOK', CancelDownload
  PROVE  UInv'
<1> USE DEF UInv, CancelDownload, dialogue, download, close
<1>1. UpdatesTypeOK'
  BY DialogueAssumption DEF UpdatesTypeOK, Offered
<1>2. Offered'
  BY DEF Offered, UpdatesTypeOK, CloseAnswered, system, vars
<1>3. DownloadOwned'
  BY DEF DownloadOwned, UpdatesTypeOK, Offered, CloseAnswered
<1>4. CloseAnswered'
  BY DEF CloseAnswered, UpdatesTypeOK, Offered
<1>5. AttemptEnds'
  BY DEF AttemptEnds, UpdatesTypeOK, Offered, system, vars
<1> QED BY <1>1, <1>2, <1>3, <1>4, <1>5

\* Who takes the offer back takes the window's request back with it.
LEMMA InstallOnCloseSettles ==
  ASSUME UInv, EngineTypeOK', NEW enabled \in BOOLEAN, InstallOnClose(enabled)
  PROVE  UInv'
<1> USE DEF UInv, InstallOnClose, dialogue, download, close
<1>1. UpdatesTypeOK'
  BY DialogueAssumption DEF UpdatesTypeOK, Offered
<1>2. Offered'
  BY DEF Offered, UpdatesTypeOK, CloseAnswered, system, vars
<1>3. DownloadOwned'
  BY DEF DownloadOwned, UpdatesTypeOK, Offered, CloseAnswered
<1>4. CloseAnswered'
  BY DEF CloseAnswered, UpdatesTypeOK, Offered
<1>5. AttemptEnds'
  BY DEF AttemptEnds, UpdatesTypeOK, Offered, system, vars
<1> QED BY <1>1, <1>2, <1>3, <1>4, <1>5

\* The window is kept open with its event about to be sent.
LEMMA CloseWindowSettles ==
  ASSUME UInv, EngineTypeOK', CloseWindow
  PROVE  UInv'
<1> USE DEF UInv, CloseWindow, dialogue, download, close
<1>1. UpdatesTypeOK'
  <2>1. {owner', package', downloads'} \subseteq 0..MaxDownloads /\ tasks' \subseteq 1..downloads'
    BY DialogueAssumption DEF UpdatesTypeOK
  <2>2. {closing', asking', closes'} \subseteq 0..MaxCloses /\ timers' \subseteq 1..closes'
    BY DialogueAssumption DEF UpdatesTypeOK, Offered
  <2>3. {handing', failing'} \subseteq Nat
    BY DEF UpdatesTypeOK
  <2>4. phase' \in {"Idle", "Checking", "Available", "Downloading", "Ready", "Installing"}
    BY DEF UpdatesTypeOK
  <2>5. onClose' \in BOOLEAN /\ (onClose' => phase' = "Ready")
    BY DEF UpdatesTypeOK, DownloadOwned
  <2> QED BY <2>1, <2>2, <2>3, <2>4, <2>5 DEF UpdatesTypeOK
<1>2. Offered'
  BY DEF Offered, UpdatesTypeOK, CloseAnswered, system, vars
<1>3. DownloadOwned'
  BY DEF DownloadOwned, UpdatesTypeOK, Offered, CloseAnswered
<1>4. CloseAnswered'
  BY DEF CloseAnswered, UpdatesTypeOK, Offered
<1>5. AttemptEnds'
  BY DEF AttemptEnds, UpdatesTypeOK, Offered, system, vars
<1> QED BY <1>1, <1>2, <1>3, <1>4, <1>5

\* The event is sent with its timer, or the request is given up.
LEMMA AskSettles ==
  ASSUME UInv, EngineTypeOK', Ask
  PROVE  UInv'
<1> USE DEF UInv, Ask, dialogue, download, close, Restore
<1>1. UpdatesTypeOK'
  <2>1. {owner', package', downloads'} \subseteq 0..MaxDownloads /\ tasks' \subseteq 1..downloads'
    BY DialogueAssumption DEF UpdatesTypeOK
  <2>2. {closing', asking', closes'} \subseteq 0..MaxCloses /\ timers' \subseteq 1..closes'
    <3>1. asking \in 1..closes /\ closes \in 0..MaxCloses
      BY DEF UpdatesTypeOK, Offered
    <3>2. CASE timers' = timers \cup {asking} /\ UNCHANGED <<phase, onClose, closing>>
      BY <3>1, <3>2, DialogueAssumption DEF UpdatesTypeOK
    <3>3. CASE Restore /\ UNCHANGED timers
      BY <3>1, <3>3, DialogueAssumption DEF UpdatesTypeOK
    <3> QED BY <3>2, <3>3
  <2>3. {handing', failing'} \subseteq Nat
    BY DEF UpdatesTypeOK
  <2>4. phase' \in {"Idle", "Checking", "Available", "Downloading", "Ready", "Installing"}
    BY DEF UpdatesTypeOK
  <2>5. onClose' \in BOOLEAN /\ (onClose' => phase' = "Ready")
    <3>1. CASE UNCHANGED <<phase, onClose, closing>>
      BY <3>1 DEF UpdatesTypeOK
    <3>2. CASE Restore
      BY <3>2
    <3> QED BY <3>1, <3>2
  <2> QED BY <2>1, <2>2, <2>3, <2>4, <2>5 DEF UpdatesTypeOK
<1>2. Offered'
  BY DEF Offered, UpdatesTypeOK, CloseAnswered, system, vars
<1>3. DownloadOwned'
  BY DEF DownloadOwned, UpdatesTypeOK, Offered, CloseAnswered
<1>4. CloseAnswered'
  BY DEF CloseAnswered, UpdatesTypeOK, Offered
<1>5. AttemptEnds'
  BY DEF AttemptEnds, UpdatesTypeOK, Offered, system, vars
<1> QED BY <1>1, <1>2, <1>3, <1>4, <1>5

\* The timer gives up the request it was started for, and no other.
LEMMA TimeoutSettles ==
  ASSUME UInv, EngineTypeOK', NEW q \in timers, Timeout(q)
  PROVE  UInv'
<1> USE DEF UInv, Timeout, dialogue, download, close, Restore
<1>1. UpdatesTypeOK'
  <2>1. {owner', package', downloads'} \subseteq 0..MaxDownloads /\ tasks' \subseteq 1..downloads'
    BY DialogueAssumption DEF UpdatesTypeOK
  <2>2. {closing', asking', closes'} \subseteq 0..MaxCloses /\ timers' \subseteq 1..closes'
    BY DialogueAssumption DEF UpdatesTypeOK, Offered
  <2>3. {handing', failing'} \subseteq Nat
    BY DEF UpdatesTypeOK
  <2>4. phase' \in {"Idle", "Checking", "Available", "Downloading", "Ready", "Installing"}
    BY DEF UpdatesTypeOK
  <2>5. onClose' \in BOOLEAN /\ (onClose' => phase' = "Ready")
    BY DEF UpdatesTypeOK, DownloadOwned
  <2> QED BY <2>1, <2>2, <2>3, <2>4, <2>5 DEF UpdatesTypeOK
<1>2. Offered'
  BY DEF Offered, UpdatesTypeOK, CloseAnswered, system, vars
<1>3. DownloadOwned'
  BY DEF DownloadOwned, UpdatesTypeOK, Offered, CloseAnswered
<1>4. CloseAnswered'
  BY DEF CloseAnswered, UpdatesTypeOK, Offered
<1>5. AttemptEnds'
  BY DEF AttemptEnds, UpdatesTypeOK, Offered, system, vars
<1> QED BY <1>1, <1>2, <1>3, <1>4, <1>5

\* An attempt answers the window and will pause the application.
LEMMA InstallSettles ==
  ASSUME UInv, EngineTypeOK', NEW restart \in BOOLEAN, Install(restart)
  PROVE  UInv'
<1> USE DEF UInv, Install, dialogue, download, close
<1>1. UpdatesTypeOK'
  <2>1. {owner', package', downloads'} \subseteq 0..MaxDownloads /\ tasks' \subseteq 1..downloads'
    BY DialogueAssumption DEF UpdatesTypeOK
  <2>2. {closing', asking', closes'} \subseteq 0..MaxCloses /\ timers' \subseteq 1..closes'
    BY DialogueAssumption DEF UpdatesTypeOK, Offered
  <2>3. {handing', failing'} \subseteq Nat
    BY DEF UpdatesTypeOK
  <2>4. phase' \in {"Idle", "Checking", "Available", "Downloading", "Ready", "Installing"}
    BY DEF UpdatesTypeOK
  <2>5. onClose' \in BOOLEAN /\ (onClose' => phase' = "Ready")
    BY DEF UpdatesTypeOK, DownloadOwned
  <2> QED BY <2>1, <2>2, <2>3, <2>4, <2>5 DEF UpdatesTypeOK
<1>2. Offered'
  BY DEF Offered, UpdatesTypeOK, CloseAnswered, system, vars
<1>3. DownloadOwned'
  BY DEF DownloadOwned, UpdatesTypeOK, Offered, CloseAnswered
<1>4. CloseAnswered'
  BY DEF CloseAnswered, UpdatesTypeOK, Offered
<1>5. AttemptEnds'
  BY DEF AttemptEnds, UpdatesTypeOK, Offered, system, vars
<1> QED BY <1>1, <1>2, <1>3, <1>4, <1>5

\* The attempt pauses the application, or has failed.
LEMMA HandoverSettles ==
  ASSUME UInv, EngineTypeOK', Handover
  PROVE  UInv'
<1> USE DEF UInv, Handover, dialogue, download, close
<1>1. UpdatesTypeOK'
  BY DialogueAssumption DEF UpdatesTypeOK, Offered
<1>2. Offered'
  BY DEF Offered, UpdatesTypeOK, CloseAnswered, system, vars, Begin, Pause
<1>3. DownloadOwned'
  BY DEF DownloadOwned, UpdatesTypeOK, Offered, CloseAnswered
<1>4. CloseAnswered'
  BY DEF CloseAnswered, UpdatesTypeOK, Offered
<1>5. AttemptEnds'
  BY DEF AttemptEnds, UpdatesTypeOK, Offered, system, vars, Begin, Pause
<1> QED BY <1>1, <1>2, <1>3, <1>4, <1>5

\* The barrier falls with a failure to report.
LEMMA GivesUpSettles ==
  ASSUME UInv, EngineTypeOK', GivesUp
  PROVE  UInv'
<1> USE DEF UInv, GivesUp, dialogue, download, close
<1>1. UpdatesTypeOK'
  BY DialogueAssumption DEF UpdatesTypeOK, Offered
<1>2. Offered'
  BY DEF Offered, UpdatesTypeOK, CloseAnswered, system, vars, GiveUp, Resume
<1>3. DownloadOwned'
  BY DEF DownloadOwned, UpdatesTypeOK, Offered, CloseAnswered
<1>4. CloseAnswered'
  BY DEF CloseAnswered, UpdatesTypeOK, Offered
<1>5. AttemptEnds'
  BY DEF AttemptEnds, UpdatesTypeOK, Offered, system, vars, GiveUp, Resume
<1> QED BY <1>1, <1>2, <1>3, <1>4, <1>5

\* A failure is reported: the package is ready again.
LEMMA InstallFailedSettles ==
  ASSUME UInv, EngineTypeOK', InstallFailed
  PROVE  UInv'
<1> USE DEF UInv, InstallFailed, dialogue, download, close, Restore
<1>1. UpdatesTypeOK'
  <2>1. {owner', package', downloads'} \subseteq 0..MaxDownloads /\ tasks' \subseteq 1..downloads'
    BY DialogueAssumption DEF UpdatesTypeOK
  <2>2. {closing', asking', closes'} \subseteq 0..MaxCloses /\ timers' \subseteq 1..closes'
    BY DialogueAssumption DEF UpdatesTypeOK, Offered
  <2>3. {handing', failing'} \subseteq Nat
    BY DEF UpdatesTypeOK
  <2>4. phase' \in {"Idle", "Checking", "Available", "Downloading", "Ready", "Installing"}
    BY DEF UpdatesTypeOK
  <2>5. onClose' \in BOOLEAN /\ (onClose' => phase' = "Ready")
    BY DEF UpdatesTypeOK, DownloadOwned
  <2> QED BY <2>1, <2>2, <2>3, <2>4, <2>5 DEF UpdatesTypeOK
<1>2. Offered'
  BY DEF Offered, UpdatesTypeOK, CloseAnswered, system, vars
<1>3. DownloadOwned'
  BY DEF DownloadOwned, UpdatesTypeOK, Offered, CloseAnswered
<1>4. CloseAnswered'
  BY DEF CloseAnswered, UpdatesTypeOK, Offered
<1>5. AttemptEnds'
  BY DEF AttemptEnds, UpdatesTypeOK, Offered, system, vars
<1> QED BY <1>1, <1>2, <1>3, <1>4, <1>5

-----------------------------------------------------------------------------
(* The theorems.                                                             *)

\* Nothing was checked, asked or begun.
LEMMA UpdatesInitSettles == UpdatesInit => UInv
<1> SUFFICES ASSUME UpdatesInit PROVE UInv
  OBVIOUS
<1> USE DEF UpdatesInit
<1>1. EngineTypeOK /\ updater = "off"
  BY SystemInitEstablishes DEF EInv, SystemInit, Init
<1>2. {owner, package, downloads} \subseteq 0..MaxDownloads /\ tasks \subseteq 1..downloads
  BY DialogueAssumption
<1>3. {closing, asking, closes} \subseteq 0..MaxCloses /\ timers \subseteq 1..closes
  BY DialogueAssumption
<1>4. UpdatesTypeOK
  <2>1. phase = "Idle" /\ onClose = FALSE /\ {handing, failing} \subseteq Nat
    OBVIOUS
  <2> HIDE DEF UpdatesInit
  <2> QED BY <1>1, <1>2, <1>3, <2>1 DEF UpdatesTypeOK
<1>5. Offered /\ DownloadOwned /\ CloseAnswered /\ AttemptEnds
  BY <1>1 DEF Offered, DownloadOwned, CloseAnswered, AttemptEnds
<1> QED BY <1>4, <1>5 DEF UInv

\* Every action of the dialogue, and every step under it, keeps the invariant.
LEMMA UpdatesStepSettles ==
  ASSUME UInv, EngineTypeOK', [UpdatesNext]_<<system, dialogue>>
  PROVE  UInv'
<1>1. CASE (Working \/ Building \/ Preparing) /\ UNCHANGED dialogue
  <2>1. updater' # "off" <=> updater # "off"
    BY <1>1, UpdaterStays DEF UInv, UpdatesTypeOK, EngineTypeOK
  <2> QED BY <1>1, <2>1 DEF UInv, UpdatesTypeOK, Offered, DownloadOwned, CloseAnswered,
     AttemptEnds, dialogue, download, close
<1>2. CASE Dialogue
  BY <1>2, CheckSettles, CheckedSettles, DownloadSettles, DownloadEndsSettles,
     CancelDownloadSettles, InstallOnCloseSettles, CloseWindowSettles, AskSettles,
     TimeoutSettles, InstallSettles, HandoverSettles, GivesUpSettles, InstallFailedSettles
     DEF Dialogue
<1>3. CASE UNCHANGED <<system, dialogue>>
  BY <1>3 DEF UInv, UpdatesTypeOK, Offered, DownloadOwned, CloseAnswered, AttemptEnds,
     dialogue, download, close, system, vars
<1> QED BY <1>1, <1>2, <1>3 DEF UpdatesNext

\* The dialogue implements the engine and its barrier: it only begins updates
\* and gives them up.
THEOREM UpdatesImplementEngine == UpdatesSpec => SystemSpec
<1>1. UpdatesInit => SystemInit
  BY DEF UpdatesInit
<1>2. [UpdatesNext]_<<system, dialogue>> => [SystemNext]_system
  BY DialogueSteps
<1> QED BY <1>1, <1>2, PTL DEF UpdatesSpec, SystemSpec

\* The inductive invariant holds in every state of every behaviour.
THEOREM DialogueInvariantHolds == UpdatesSpec => []UInv
<1>1. UpdatesInit => UInv
  BY UpdatesInitSettles
<1>2. UInv /\ EngineTypeOK' /\ [UpdatesNext]_<<system, dialogue>> => UInv'
  BY UpdatesStepSettles
<1> QED BY <1>1, <1>2, UpdatesImplementEngine, EngineTypeCorrect, PTL DEF UpdatesSpec

\* The types of the dialogue; installing on close is promised only for a ready
\* package.
THEOREM UpdatesTypeCorrect == UpdatesSpec => []UpdatesTypeOK
<1>1. UInv => UpdatesTypeOK
  BY DEF UInv
<1> QED BY <1>1, DialogueInvariantHolds, PTL

\* A download is shown exactly while its task can end it, and the package that
\* waits is the last one asked for, however many were cancelled in between.
THEOREM DownloadAlwaysOwned == UpdatesSpec => []DownloadOwned
<1>1. UInv => DownloadOwned
  BY DEF UInv
<1> QED BY <1>1, DialogueInvariantHolds, PTL

\* Nobody waits for a closing or an installation that nobody will end.
THEOREM DialogueAlwaysSettles == UpdatesSpec => []DialogueSettles
<1>1. UInv => DialogueSettles
  BY DEF UInv, DialogueSettles
<1> QED BY <1>1, DialogueInvariantHolds, PTL

\* The whole composition keeps what its parts promise: requests, builders and
\* the installer, under every behaviour of the dialogue.
THEOREM CompositionCorrect ==
  UpdatesSpec => /\ [](RunningCounted /\ UpdateQuiet /\ AnswerTrue /\ CancelExact)
                 /\ [](InstallQuiet /\ ClaimsExact /\ ActiveAlive)
                 /\ FailureReal
BY UpdatesImplementEngine, EngineKeepsRequestsCorrect, InstallAlwaysQuiet, ClaimsAlwaysExact,
   ActiveAlwaysAlive, FailuresAlwaysReal, PTL

=============================================================================
