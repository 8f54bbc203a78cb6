------------------------------ MODULE Updates ------------------------------
(***************************************************************************)
(* The update flow: app/src/ui/main_window.cpp:492-649 (the window's side) *)
(* and app/src/ui/updater.cpp:427-577 (its workers).                       *)
(*                                                                         *)
(* A check or a download runs on a throwaway thread and posts its result.  *)
(* The window's handlers put message boxes up, and a message box pumps the *)
(* window's queue: while one is open the tray menu works, the next result  *)
(* is handled inside it, and another box opens above it.  Boxes may be     *)
(* answered in any order; their handlers go on innermost first.            *)
(*                                                                         *)
(* The files in %TEMP% outlive the process, which may end between any two  *)
(* steps of a download.  Releases are numbered as they are published, with *)
(* the version each has; 0 stands for a version from before them, and for  *)
(* "none" where one may be missing.  A release may be withdrawn again.     *)
(* updateVersion_ always goes with updateUrl_ and is not kept apart.       *)
(***************************************************************************)
EXTENDS Integers, Sequences, FiniteSets, Release

CONSTANTS
  Newest,     \* the last release that will ever be published
  Version,    \* the version of each: major, minor, patch
  Published,  \* what the releases may consist of: the page and the assets of each
  MaxBoxes    \* bound: message boxes open at a time

ASSUME UpdatesAssumption ==
  /\ Newest \in Nat \ {0} /\ MaxBoxes \in Nat \ {0}
  /\ Version \in [0 .. Newest -> Nat \X Nat \X Nat]

Releases == 1 .. Newest

\* What a file in %TEMP% holds.
Content == {"none", "partial", "bad", "good"}

VARIABLES
  assets,     \* what each release consists of
  latest,     \* the release /releases/latest answers with, 0 for none
  installed,  \* the release this computer runs
  installer,  \* the release whose installer is at work, 0 for none
  app,        \* is our process up
  timer,      \* kUpdateTimer is set: the startup check is still to come
  busy,       \* updateBusy_
  url,        \* updateUrl_, and with it updateVersion_
  workers,    \* the check and download threads
  posted,     \* WM_UPDATE_CHECKED and WM_UPDATE_DOWNLOADED in the queue
  boxes,      \* the open message boxes, innermost last
  agreed,     \* (history) the releases whose offer the user accepted in this process
  part,       \* <installer>.part of each release
  dest        \* <installer> of each release

window == <<timer, busy, url, workers, posted, boxes, agreed>>
files  == <<part, dest>>
world  == <<assets, latest, installed, installer>>
vars   == <<world, app, window, files>>

Check(manual) == [job |-> "check", manual |-> manual]
Download(r, at) == [job |-> "download", release |-> r, at |-> at]

Result ==
  [of : {"check"}, manual : BOOLEAN, outcome : {"error", "current"}]
    \cup [of : {"check"}, manual : BOOLEAN, outcome : {"found"}, release : Releases]
    \cup [of : {"download"}, outcome : {"failed", "done"}, release : Releases]

DownloadPlace == {"sum", "open", "create", "body", "verify", "replace", "rename"}

Box == [asks : {"install", "page", "nothing"}, release : 0 .. Newest,
        answer : {"open", "yes", "no"}]

\* Types, and nothing of the window is left when the process is gone.
TypeOK ==
  /\ assets \in Published
  /\ latest \in 0 .. Newest /\ installed \in 0 .. Newest /\ installer \in 0 .. Newest
  /\ app \in BOOLEAN /\ timer \in BOOLEAN /\ busy \in BOOLEAN
  /\ url \in 0 .. Newest
  /\ workers \subseteq {Check(m) : m \in BOOLEAN}
                         \cup {Download(r, at) : r \in Releases, at \in DownloadPlace}
  /\ posted \in Seq(Result)
  /\ boxes \in Seq(Box) /\ Len(boxes) <= MaxBoxes
  /\ agreed \subseteq Releases
  /\ part \in [Releases -> Content] /\ dest \in [Releases -> Content]
  /\ ~app => ~timer /\ ~busy /\ workers = {} /\ posted = <<>> /\ boxes = <<>>

Init ==
  /\ assets \in Published
  /\ latest = 0 /\ installed = 0 /\ installer = 0
  /\ app = FALSE
  /\ timer = FALSE /\ busy = FALSE /\ url = 0
  /\ workers = {} /\ posted = <<>> /\ boxes = <<>> /\ agreed = {}
  /\ part = [r \in Releases |-> "none"]
  /\ dest = [r \in Releases |-> "none"]

-----------------------------------------------------------------------------
\* The window.

\* A process begins or ends with nothing in flight; its threads end with it.
Forget(startupCheck) ==
  /\ timer' = startupCheck
  /\ busy' = FALSE /\ url' = 0
  /\ workers' = {} /\ posted' = <<>> /\ boxes' = <<>> /\ agreed' = {}

\* The program starts; auto_update=1 arms the timer.
AppStarts ==
  /\ ~app /\ installer = 0
  /\ app' = TRUE
  /\ \E autoUpdate \in BOOLEAN : Forget(autoUpdate)
  /\ UNCHANGED <<world, files>>

\* The user leaves, or the process is killed: between any two steps of a worker.
AppEnds ==
  /\ app
  /\ app' = FALSE
  /\ Forget(FALSE)
  /\ UNCHANGED <<world, files>>

Open(asks, r) == boxes' = Append(boxes, [asks |-> asks, release |-> r, answer |-> "open"])

\* startUpdateCheck: one request at a time; creating the thread may fail.
StartUpdateCheck(manual) ==
  /\ \/ ~busy /\ workers' = workers \cup {Check(manual)} /\ busy' = TRUE
     \/ UNCHANGED <<workers, busy>>
  /\ UNCHANGED <<world, app, url, posted, boxes, agreed, files>>

TimerFires ==
  /\ timer /\ Len(boxes) < MaxBoxes
  /\ timer' = FALSE
  /\ StartUpdateCheck(FALSE)

\* "Güncellemeleri kontrol et" in the tray menu, which works while a box is open.
TrayCheck ==
  /\ app /\ Len(boxes) < MaxBoxes
  /\ StartUpdateCheck(TRUE)
  /\ UNCHANGED timer

\* Mutant: startUpdateDownload does not look at updateBusy_.
StartUpdateDownloadBusy ==
  \/ url # 0 /\ workers' = workers \cup {Download(url, "sum")} /\ busy' = TRUE
  \/ UNCHANGED <<workers, busy>>

\* startUpdateDownload, from the handler of an accepted offer.
StartUpdateDownload ==
  \/ /\ ~busy /\ url # 0
     /\ workers' = workers \cup {Download(url, "sum")} /\ busy' = TRUE
  \/ UNCHANGED <<workers, busy>>

\* What onUpdateChecked has to offer.
Offer(r) ==
  IF r.outcome = "found" /\ Judge(assets[r.release]) # "refused"
  THEN Judge(assets[r.release]) ELSE "nothing"

\* The address after a check: only an offer replaces it; a page has none.
Address(r) ==
  CASE Offer(r) = "installer" -> r.release
    [] Offer(r) = "page"      -> 0
    [] Offer(r) = "nothing"   -> url

\* onUpdateChecked; a release that is refused only makes a log line.
UpdateChecked(r) ==
  /\ busy' = FALSE
  /\ url' = Address(r)
  /\ CASE Offer(r) = "installer" -> Open("install", r.release)
       [] Offer(r) = "page"      -> Open("page", r.release)
       [] Offer(r) = "nothing"   -> IF r.outcome # "found" /\ r.manual
                                    THEN Open("nothing", 0) ELSE UNCHANGED boxes
  /\ UNCHANGED <<world, app, timer, workers, agreed, files>>

\* Mutant: onUpdateDownloaded lowers updateBusy_ only when there is something to run.
UpdateNotRunBusy ==
  /\ Open("nothing", 0)
  /\ UNCHANGED <<world, app, timer, busy, url, workers, agreed, files>>

\* onUpdateDownloaded, when there is nothing to run or it does not start.
UpdateNotRun ==
  /\ busy' = FALSE
  /\ Open("nothing", 0)
  /\ UNCHANGED <<world, app, timer, url, workers, agreed, files>>

\* onUpdateDownloaded: stop the receiver (modelled in MainWindow), run the installer, leave.
UpdateRun(r) ==
  /\ installer' = r.release
  /\ app' = FALSE
  /\ Forget(FALSE)
  /\ UNCHANGED <<assets, latest, installed, files>>

\* The innermost message loop takes the next result.
HandleResult ==
  /\ posted # <<>>
  /\ LET r == Head(posted)
     IN IF r.of = "check"
        THEN UpdateChecked(r) /\ posted' = Tail(posted)
        ELSE \/ UpdateNotRun /\ posted' = Tail(posted)
             \/ r.outcome = "done" /\ UpdateRun(r)

\* The user answers any of the open boxes.
AnswerBox ==
  \E i \in DOMAIN boxes, answer \in {"yes", "no"} :
    /\ boxes[i].answer = "open"
    /\ answer = "yes" => boxes[i].asks # "nothing"
    /\ boxes' = [boxes EXCEPT ![i].answer = answer]
    /\ agreed' = IF answer = "yes" /\ boxes[i].asks = "install"
                 THEN agreed \cup {boxes[i].release} ELSE agreed
    /\ UNCHANGED <<world, app, timer, busy, url, workers, posted, files>>

\* The innermost MessageBoxW returns once it is answered, and its handler goes on.
BoxReturns ==
  /\ boxes # <<>> /\ boxes[Len(boxes)].answer # "open"
  /\ boxes' = SubSeq(boxes, 1, Len(boxes) - 1)
  /\ IF boxes[Len(boxes)].asks = "install" /\ boxes[Len(boxes)].answer = "yes"
     THEN StartUpdateDownload ELSE UNCHANGED <<workers, busy>>
  /\ UNCHANGED <<world, app, timer, url, posted, agreed, files>>

WindowStep == TimerFires \/ TrayCheck \/ HandleResult \/ AnswerBox \/ BoxReturns

-----------------------------------------------------------------------------
\* The workers.

Ends(w, result) ==
  /\ workers' = workers \ {w}
  /\ posted' = Append(posted, result)

\* The answers of compareVersions on the version compiled in and the tags of the releases.
Compared ==
  [i \in 0 .. Newest |->
     [r \in Releases |->
        CompareVersions(VersionText(Version[i]), VersionOfTag(TagOf(Version[r])))]]

\* Mutant: whatever is not this version.
IsAnother(r) == Compared[installed][r] # 0

\* checkForUpdate: is r newer than the version compiled in here?
IsNewer(r) == Compared[installed][r] < 0

\* updateCheckThread: the latest release, if there is one and it is newer.
CheckEnds(w) ==
  /\ w.job = "check"
  /\ \/ Ends(w, [of |-> "check", manual |-> w.manual, outcome |-> "error"])
     \/ /\ latest # 0 /\ ~IsNewer(latest)
        /\ Ends(w, [of |-> "check", manual |-> w.manual, outcome |-> "current"])
     \/ /\ latest # 0 /\ IsNewer(latest)
        /\ Ends(w, [of |-> "check", manual |-> w.manual, outcome |-> "found", release |-> latest])
  /\ UNCHANGED <<world, app, timer, busy, url, boxes, agreed, files>>

At(w, place) == w.job = "download" /\ w.at = place
Goes(w, place) == workers' = (workers \ {w}) \cup {Download(w.release, place)} /\ UNCHANGED posted
Fails(w) == Ends(w, [of |-> "download", outcome |-> "failed", release |-> w.release])

\* downloadInstaller: the checksum first, then the installer's headers.
DownloadAsks(w) ==
  /\ \/ At(w, "sum") /\ Goes(w, "open")
     \/ At(w, "open") /\ Goes(w, "create")
     \/ (At(w, "sum") \/ At(w, "open")) /\ Fails(w)
  /\ UNCHANGED files

\* CreateFileW(CREATE_ALWAYS): an older .part is emptied.
DownloadCreates(w) ==
  /\ At(w, "create")
  /\ \/ part' = [part EXCEPT ![w.release] = "partial"] /\ Goes(w, "body")
     \/ UNCHANGED part /\ Fails(w)
  /\ UNCHANGED dest

\* Mutant: the file is renamed first and its digest compared after.
DownloadBodyUnverified(w) ==
  /\ At(w, "body")
  /\ \/ \E c \in {"good", "bad", "partial"} :
          part' = [part EXCEPT ![w.release] = c] /\ Goes(w, "replace")
     \/ part' = [part EXCEPT ![w.release] = "none"] /\ Fails(w)
  /\ UNCHANGED dest

\* The body ends: whole, damaged or cut short, or with an error.
DownloadBody(w) ==
  /\ At(w, "body")
  /\ \/ \E c \in {"good", "bad", "partial"} :
          part' = [part EXCEPT ![w.release] = c] /\ Goes(w, "verify")
     \/ part' = [part EXCEPT ![w.release] = "none"] /\ Fails(w)
  /\ UNCHANGED dest

\* The digest, while the file is still a .part.
DownloadVerify(w) ==
  /\ At(w, "verify")
  /\ \/ part[w.release] = "good" /\ Goes(w, "replace") /\ UNCHANGED part
     \/ part' = [part EXCEPT ![w.release] = "none"] /\ Fails(w)
  /\ UNCHANGED dest

\* DeleteFileW of an older installer, which may be in use.
DownloadReplace(w) ==
  /\ At(w, "replace")
  /\ \/ dest' = [dest EXCEPT ![w.release] = "none"]
     \/ UNCHANGED dest
  /\ Goes(w, "rename")
  /\ UNCHANGED part

\* MoveFileW does not overwrite.
DownloadRename(w) ==
  /\ At(w, "rename")
  /\ part' = [part EXCEPT ![w.release] = "none"]
  /\ \/ /\ dest[w.release] = "none"
        /\ dest' = [dest EXCEPT ![w.release] = part[w.release]]
        /\ Ends(w, [of |-> "download", outcome |-> "done", release |-> w.release])
     \/ UNCHANGED dest /\ Fails(w)

DownloadStep(w) ==
  /\ \/ DownloadAsks(w)
     \/ DownloadCreates(w)
     \/ DownloadBody(w)
     \/ DownloadVerify(w)
     \/ DownloadReplace(w)
     \/ DownloadRename(w)
  /\ UNCHANGED <<world, app, timer, busy, url, boxes, agreed>>

WorkerStep == \E w \in workers : CheckEnds(w) \/ DownloadStep(w)

-----------------------------------------------------------------------------
\* The world.

Publish ==
  /\ latest < Newest
  /\ latest' = latest + 1
  /\ UNCHANGED <<assets, installed, installer, app, window, files>>

\* The latest release is deleted, or made a draft again; the one before it is the latest.
Withdraw ==
  /\ latest > 0
  /\ latest' = latest - 1
  /\ UNCHANGED <<assets, installed, installer, app, window, files>>

\* The installer replaces the program, or gives up.
InstallerEnds ==
  /\ installer # 0
  /\ installed' \in {installed, installer}
  /\ installer' = 0
  /\ UNCHANGED <<assets, latest, app, window, files>>

Next == AppStarts \/ AppEnds \/ WindowStep \/ WorkerStep \/ Publish \/ Withdraw \/ InstallerEnds

Spec == Init /\ [][Next]_vars

\* Every thread runs and every request times out; the window's thread takes what is posted, in
\* whichever message loop it is.
FairSpec == Spec /\ WF_vars(WorkerStep) /\ WF_vars(HandleResult)

-----------------------------------------------------------------------------
\* The order of versions, and an installer's own checksum, of which the properties speak.
Precedes(a, b) ==
  \/ a[1] < b[1]
  \/ a[1] = b[1] /\ a[2] < b[2]
  \/ a[1] = b[1] /\ a[2] = b[2] /\ a[3] < b[3]
HasOwnChecksum(list, exe) ==
  \E i \in DOMAIN list :
    list[i].kind = "sha256" /\ list[i].host = exe.host /\ list[i].file = exe.file

\* updateBusy_ is the only guard of the flow (main_window.h:49), and boxes nest: it is raised
\* exactly while one thread runs or one result waits, whatever is answered in whatever order.
OneUpdateAtATime == Cardinality(workers) + Len(posted) = IF busy THEN 1 ELSE 0

\* A file gets an installer's name only once its digest matched, and only such a file is run
\* (updater.cpp:547, main_window.cpp:638), through failed moves, damaged downloads, leftovers
\* of a process that died and a newer download of the same release.
OnlyVerifiedRuns ==
  /\ \A r \in Releases : dest[r] \in {"none", "good"}
  /\ installer # 0 => dest[installer] = "good"

\* A release without a checksum or with an address off the list is never downloaded
\* (main_window.cpp:577), however checks and offers of other releases are mixed.
RefusedIsNotFetched ==
  \A w \in workers : w.job = "download" =>
    LET exe == Exes(assets[w.release].assets)[1]
    IN  exe.host = "allowed" /\ HasOwnChecksum(assets[w.release].assets, exe)

\* An update only ever goes forward (updater.cpp:427, 464), whatever is published or withdrawn
\* while a check, a box or a download is under way.  It never puts an older version, or the same
\* one again, in the place of the one that runs: it would be offered for ever.  And a check that
\* says "current" has looked at a release that is no newer: 0.4.10 is not older than 0.4.9.
OnlyForward ==
  [][/\ installed' # installed => Precedes(Version[installed], Version[installed'])
     /\ \A w \in workers \ workers' :
          Len(posted') > Len(posted) /\ posted'[Len(posted')].of = "check"
            /\ posted'[Len(posted')].outcome = "current"
            => ~Precedes(Version[installed], Version[latest])]_vars

\* A request is always answered, or the process ends: updateBusy_ never stays raised, which
\* would disable updates for as long as the program runs (main_window.cpp:537).
UpdateAnswered == busy ~> ~busy

\* What the comment at main_window.cpp:638 says of the silent installation: "the user already
\* answered the question".  An offer handled inside the box of an earlier one replaces url, and
\* the Yes to the earlier one downloads the later one.
DownloadIsAgreed == \A w \in workers : w.job = "download" => w.release \in agreed
=============================================================================
