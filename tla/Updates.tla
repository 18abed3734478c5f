-------------------------------- MODULE Updates --------------------------------
(***************************************************************************)
(* The update dialogue (src-tauri/src/updates.rs) over the barrier of      *)
(* EngineBuilds: check, download, install, and install on closing.  A      *)
(* download may be cancelled while its task is between two await points.   *)
(* With install on closing the window stays open until the page has saved  *)
(* its Cases and asks for the installation, for thirty seconds at most.    *)
(* An attempt that fails leaves the verified package ready.                *)
(***************************************************************************)
EXTENDS EngineBuilds

CONSTANTS MaxDownloads, MaxCloses  \* bounds: how often each is asked
ASSUME DialogueAssumption == {MaxDownloads, MaxCloses} \subseteq Nat

VARIABLES
    phase,       \* Inner.phase
    owner,       \* download_owner: the number of a download, or 0
    downloads,   \* how many were asked
    tasks,       \* the download tasks that may still do something
    package,     \* the download that was verified, or 0
    onClose,     \* install_on_close
    closing,     \* close_requested: the number of a request, or 0
    closes,      \* how many were asked
    asking,      \* the request whose event is about to be emitted, or 0
    timers,      \* requests whose thirty seconds have not passed
    handing,     \* install tasks that have not paused the application yet
    failing      \* those that failed, before the dialogue is told

download == <<owner, downloads, tasks, package>>
close    == <<onClose, closing, closes, asking, timers>>
dialogue == <<phase, download, close, handing, failing>>

UpdatesInit ==
    /\ SystemInit
    /\ phase = "Idle"
    /\ owner = 0 /\ downloads = 0 /\ tasks = {} /\ package = 0
    /\ onClose = FALSE /\ closing = 0 /\ closes = 0 /\ asking = 0 /\ timers = {}
    /\ handing = 0 /\ failing = 0

-----------------------------------------------------------------------------
\* check(), before and after the answer of the server.
Check ==
    /\ phase \in {"Idle", "Available"}
    /\ phase' = "Checking"
    /\ UNCHANGED <<system, download, close, handing, failing>>

Checked ==
    /\ phase = "Checking"
    /\ phase' \in {"Idle", "Available"}
    /\ UNCHANGED <<system, download, close, handing, failing>>

\* update_download.
Download ==
    /\ phase = "Available"
    /\ downloads < MaxDownloads
    /\ phase' = "Downloading"
    /\ downloads' = downloads + 1
    /\ owner' = downloads'
    /\ tasks' = tasks \cup {downloads'}
    /\ UNCHANGED <<system, package, close, handing, failing>>

DownloadEndsFault(t) ==  \* the ticket is not looked at
    /\ t \in tasks
    /\ tasks' = tasks \ {t}
    /\ owner' = 0
    /\ \/ phase' = "Ready" /\ package' = t
       \/ phase' = "Available" /\ UNCHANGED package
    /\ UNCHANGED <<system, downloads, close, handing, failing>>

\* The task's end: a task that no longer owns the download changes nothing.
DownloadEnds(t) ==
    /\ t \in tasks
    /\ tasks' = tasks \ {t}
    /\ IF owner = t
       THEN /\ owner' = 0
            /\ \/ phase' = "Ready" /\ package' = t
               \/ phase' = "Available" /\ UNCHANGED package
       ELSE UNCHANGED <<owner, phase, package>>
    /\ UNCHANGED <<system, downloads, close, handing, failing>>

\* update_cancel.  The abort stops the task at its next await point, which may be
\* after the end of the download.
CancelDownload ==
    /\ phase = "Downloading"
    /\ phase' = "Available"
    /\ owner' = 0
    /\ tasks' \in {tasks, tasks \ {owner}}
    /\ UNCHANGED <<system, downloads, package, close, handing, failing>>

InstallOnCloseFault(enabled) ==  \* the window that waits is forgotten
    /\ phase = "Ready"
    /\ onClose' = enabled
    /\ UNCHANGED <<system, phase, download, closing, closes, asking, timers, handing, failing>>

\* update_install_on_close.
InstallOnClose(enabled) ==
    /\ phase = "Ready"
    /\ onClose' = enabled
    /\ closing' = IF enabled THEN closing ELSE 0
    /\ UNCHANGED <<system, phase, download, closes, asking, timers, handing, failing>>

\* on_window_event, when the window is kept open for the page to save.
CloseWindow ==
    /\ phase = "Ready" /\ onClose
    /\ closing = 0 /\ asking = 0
    /\ closes < MaxCloses
    /\ closes' = closes + 1
    /\ closing' = closes'
    /\ asking' = closes'
    /\ UNCHANGED <<system, phase, download, onClose, timers, handing, failing>>

\* restore_failed_install.
Restore ==
    /\ phase' = "Ready"
    /\ onClose' = FALSE
    /\ closing' = 0

\* The event is emitted and the timer started, or it cannot be emitted.
Ask ==
    /\ asking # 0
    /\ asking' = 0
    /\ \/ timers' = timers \cup {asking} /\ UNCHANGED <<phase, onClose, closing>>
       \/ Restore /\ UNCHANGED timers
    /\ UNCHANGED <<system, download, closes, handing, failing>>

\* Thirty seconds later.
Timeout(q) ==
    /\ q \in timers
    /\ timers' = timers \ {q}
    /\ IF closing = q THEN Restore ELSE UNCHANGED <<phase, onClose, closing>>
    /\ UNCHANGED <<system, download, closes, asking, handing, failing>>

InstallFault(restart) ==  \* the offer to install on closing stays
    /\ phase = "Ready"
    /\ restart \/ closing # 0
    /\ phase' = "Installing"
    /\ closing' = 0
    /\ handing' = handing + 1
    /\ UNCHANGED <<system, download, onClose, closes, asking, timers, failing>>

\* update_install, begin_install.  A record of the attempt that cannot be saved
\* refuses it.
Install(restart) ==
    /\ phase = "Ready"
    /\ restart \/ closing # 0
    /\ phase' = "Installing"
    /\ onClose' = FALSE
    /\ closing' = 0
    /\ handing' = handing + 1
    /\ UNCHANGED <<system, download, closes, asking, timers, failing>>

\* prepare_for_update pauses, or another attempt has.
Handover ==
    /\ handing > 0
    /\ handing' = handing - 1
    /\ \/ Begin /\ UNCHANGED failing
       \/ paused /\ failing' = failing + 1 /\ UNCHANGED system
    /\ UNCHANGED <<phase, download, close>>

\* The barrier falls in the install task; then install_failed.
GivesUp ==
    /\ GiveUp
    /\ failing' = failing + 1
    /\ UNCHANGED <<phase, download, close, handing>>

InstallFailed ==
    /\ failing > 0
    /\ failing' = failing - 1
    /\ Restore
    /\ UNCHANGED <<system, download, closes, asking, timers, handing>>

Dialogue ==
    \/ Check \/ Checked \/ Download \/ CancelDownload \/ CloseWindow \/ Ask
    \/ \E t \in tasks : DownloadEnds(t)
    \/ \E enabled \in BOOLEAN : InstallOnClose(enabled)
    \/ \E q \in timers : Timeout(q)
    \/ \E restart \in BOOLEAN : Install(restart)
    \/ Handover \/ GivesUp \/ InstallFailed

UpdatesNext ==
    \/ (Working \/ Building \/ Preparing) /\ UNCHANGED dialogue
    \/ Dialogue

UpdatesSpec == UpdatesInit /\ [][UpdatesNext]_<<system, dialogue>>

-----------------------------------------------------------------------------
(* What must hold.                                                         *)

\* The type invariant, over that of the engine and its requests; installing on close
\* is promised only for a ready package.
UpdatesTypeOK ==
    /\ EngineTypeOK
    /\ phase \in {"Idle", "Checking", "Available", "Downloading", "Ready", "Installing"}
    /\ {owner, package, downloads} \subseteq 0..MaxDownloads
    /\ tasks \subseteq 1..downloads
    /\ onClose \in BOOLEAN /\ (onClose => phase = "Ready")
    /\ {closing, asking, closes} \subseteq 0..MaxCloses
    /\ timers \subseteq 1..closes
    /\ {handing, failing} \subseteq Nat

\* A download is shown exactly while the task that owns it can end it, and the
\* package that waits is the last one asked for: a cancelled download never
\* delivers, and none is shown for ever.
DownloadOwned ==
    /\ IF phase = "Downloading" THEN owner \in tasks ELSE owner = 0
    /\ phase \in {"Ready", "Installing"} => package = downloads /\ package # 0

\* A window kept open is going to be answered: its timer runs (or is about to),
\* unless the installation begins or the user takes the request back.
CloseAnswered ==
    closing # 0 => /\ phase = "Ready" /\ onClose
                   /\ closing \in timers \cup {asking}

\* The dialogue never says "installing" for good while the application works
\* on: an attempt is about to pause it, keeps it paused, or is about to report
\* that it failed, whichever attempt it was.
AttemptEnds ==
    phase = "Installing" =>
        handing > 0 \/ failing > 0 \/ updater # "off"

\* The user is never left waiting for a closing or an installation that nobody
\* will end.
DialogueSettles == CloseAnswered /\ AttemptEnds

=============================================================================
