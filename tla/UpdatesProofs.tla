--------------------------- MODULE UpdatesProofs ---------------------------
(***************************************************************************)
(* What the update flow never does, for any number of releases, whatever   *)
(* they consist of, and any number of message boxes inside each other.     *)
(*                                                                         *)
(* That only a verified file is run needs all of the flow: a file is good  *)
(* from its digest to its rename because no other thread writes the same   *)
(* .part (OneInv), and it stays good until it is run because no download   *)
(* starts while its result waits.                                          *)
(*                                                                         *)
(* That an update goes forward rests on what the versions' texts are read  *)
(* as: that comes first, by induction over the digits of a number.         *)
(***************************************************************************)
EXTENDS Updates, FiniteSetTheorems, SequenceTheorems, WellFoundedInduction, TLAPS

\* updateBusy_ is raised for exactly one thread, or for the one result it has left.
OneInv ==
  \/ ~busy /\ workers = {} /\ posted = <<>>
  \/ busy /\ (\E w : workers = {w}) /\ posted = <<>>
  \/ busy /\ workers = {} /\ (\E r : posted = <<r>>)

\* A release whose installer has an allowed address and a checksum of its own.
Fetchable(r) ==
  LET exe == Exes(assets[r].assets)[1]
  IN  exe.host = "allowed" /\ HasOwnChecksum(assets[r].assets, exe)

\* The address is a fetchable release's, and so is every download.
AddressInv ==
  /\ url \in 0 .. Newest /\ latest \in 0 .. Newest
  /\ url # 0 => Fetchable(url)
  /\ \A w \in workers : w.job = "download" => w.release \in Releases /\ Fetchable(w.release)
  /\ \A i \in DOMAIN posted :
       /\ posted[i].of \in {"check", "download"}
       /\ posted[i].of = "download" \/ posted[i].outcome = "found" => posted[i].release \in Releases

\* The files: verified from the digest to the run.
FilesInv ==
  /\ part \in [Releases -> Content] /\ dest \in [Releases -> {"none", "good"}]
  /\ \A w \in workers :
       w.job = "download" /\ w.at \in {"replace", "rename"} => part[w.release] = "good"
  /\ \A i \in DOMAIN posted :
       posted[i].of = "download" /\ posted[i].outcome = "done" => dest[posted[i].release] = "good"

\* An installer runs only when the process that started it has gone, with all that was in flight.
AppInv ==
  /\ installer # 0 => ~app /\ dest[installer] = "good"
  /\ ~app => ~timer /\ ~busy /\ boxes = <<>>

IInv == busy \in BOOLEAN /\ OneInv /\ AddressInv /\ FilesInv /\ AppInv

-----------------------------------------------------------------------------
\* An offer to install is only made of a fetchable release.
LEMMA OfferFetchable ==
  ASSUME NEW r \in Releases, Judge(assets[r]) = "installer"
  PROVE  Fetchable(r)
<1>1. Exes(assets[r].assets) # <<>> /\ IsAllowedUpdateUrl(Exes(assets[r].assets)[1].host)
      /\ HasChecksum(assets[r].assets, Exes(assets[r].assets)[1])
  BY DEF Judge
<1> QED
  BY <1>1 DEF Fetchable, HasOwnChecksum, HasChecksum, Checksum, IsAllowedUpdateUrl

\* The initial states are in the invariant.
LEMMA InitInv == Init => IInv
<1> SUFFICES ASSUME Init PROVE IInv
  OBVIOUS
<1>1. busy = FALSE /\ url = 0 /\ latest = 0 /\ installer = 0 /\ workers = {} /\ posted = <<>>
      /\ boxes = <<>> /\ timer = FALSE
  BY DEF Init
<1>2. 0 \in 0 .. Newest
  BY UpdatesAssumption
<1>3. FilesInv
  BY <1>1 DEF Init, FilesInv, Content
<1>4. AddressInv
  BY <1>1, <1>2 DEF AddressInv
<1> QED
  BY <1>1, <1>3, <1>4 DEF IInv, OneInv, AppInv

\* What may be fetched of a release is settled when it is published.
LEMMA FetchableStays ==
  ASSUME UNCHANGED assets, NEW r
  PROVE  Fetchable(r)' <=> Fetchable(r)
BY DEF Fetchable

\* A step that touches neither the flow nor the files; boxes come and go only in a program that
\* runs.
LEMMA ApartInv ==
  ASSUME IInv, UNCHANGED <<assets, installer, app, busy, url, workers, posted, part, dest>>,
         latest' \in 0 .. Newest, ~app => UNCHANGED <<timer, boxes>>
  PROVE  IInv'
<1>1. \A r : Fetchable(r)' <=> Fetchable(r)
  BY FetchableStays
<1>2. AddressInv'
  BY <1>1 DEF IInv, AddressInv
<1>3. busy' \in BOOLEAN /\ OneInv'
  BY DEF IInv, OneInv
<1>4. FilesInv' /\ AppInv'
  BY DEF IInv, FilesInv, AppInv
<1> QED
  BY <1>2, <1>3, <1>4 DEF IInv

\* The process begins or ends.
LEMMA ProcessInv ==
  ASSUME IInv, AppStarts \/ AppEnds
  PROVE  IInv'
<1>1. busy' = FALSE /\ url' = 0 /\ workers' = {} /\ posted' = <<>> /\ boxes' = <<>>
      /\ UNCHANGED <<assets, latest, installer, part, dest>>
  BY DEF AppStarts, AppEnds, Forget, world, files
<1>2. (app' /\ installer = 0) \/ (~app' /\ ~timer')
  BY DEF AppStarts, AppEnds, Forget
<1>3. AddressInv'
  BY <1>1, UpdatesAssumption DEF IInv, AddressInv
<1>4. FilesInv'
  BY <1>1 DEF IInv, FilesInv
<1> QED
  BY <1>1, <1>2, <1>3, <1>4 DEF IInv, OneInv, AppInv

\* A thread begins: nothing else was in flight.
LEMMA BeginInv ==
  ASSUME IInv, app, ~busy, busy' = TRUE, NEW w, workers' = workers \cup {w},
         w.job = "download" => w.release \in Releases /\ Fetchable(w.release) /\ w.at = "sum",
         UNCHANGED <<assets, latest, installer, app, url, posted, part, dest>>
  PROVE  IInv'
<1>1. workers' = {w} /\ posted' = <<>> /\ posted = <<>>
  BY DEF IInv, OneInv
<1>2. \A r : Fetchable(r)' <=> Fetchable(r)
  BY FetchableStays
<1>3. AddressInv'
  BY <1>1, <1>2 DEF IInv, AddressInv
<1>4. FilesInv'
  BY <1>1 DEF IInv, FilesInv
<1> QED
  BY <1>1, <1>3, <1>4 DEF IInv, OneInv, AppInv

\* The handlers that ask for a check or a download, or are refused for one under way.
LEMMA AskInv ==
  ASSUME IInv, TimerFires \/ TrayCheck \/ BoxReturns
  PROVE  IInv'
<1>1. app
  BY DEF TimerFires, TrayCheck, BoxReturns, IInv, AppInv
<1>2. UNCHANGED <<assets, latest, installer, app, url, posted, part, dest>>
  BY DEF TimerFires, TrayCheck, BoxReturns, StartUpdateCheck, world, files
<1>3. CASE UNCHANGED <<workers, busy>>
  BY <1>1, <1>2, <1>3, ApartInv DEF IInv, AddressInv
<1>4. CASE ~busy /\ busy' = TRUE /\ \E m : workers' = workers \cup {Check(m)}
  <2>1. PICK m : workers' = workers \cup {Check(m)}
    BY <1>4
  <2>2. Check(m).job # "download"
    BY DEF Check
  <2> QED
    BY <1>1, <1>2, <1>4, <2>1, <2>2, BeginInv
<1>5. CASE ~busy /\ busy' = TRUE /\ url # 0 /\ workers' = workers \cup {Download(url, "sum")}
  <2>1. /\ Download(url, "sum").release = url /\ Download(url, "sum").at = "sum"
        /\ url \in Releases /\ Fetchable(url)
    BY <1>5, UpdatesAssumption DEF Download, IInv, AddressInv, Releases
  <2> QED
    BY <1>1, <1>2, <1>5, <2>1, BeginInv
<1> QED
  BY <1>3, <1>4, <1>5
  DEF TimerFires, TrayCheck, BoxReturns, StartUpdateCheck, StartUpdateDownload

\* A thread goes on to its next place, with its own .part in hand.
LEMMA GoesInv ==
  ASSUME IInv, NEW w \in workers, w.job = "download", NEW place, Goes(w, place),
         part' \in [Releases -> Content], dest' \in [Releases -> {"none", "good"}],
         place \in {"replace", "rename"} => part'[w.release] = "good",
         UNCHANGED <<assets, latest, installer, app, timer, busy, url, boxes>>
  PROVE  IInv'
<1>1. workers = {w} /\ busy /\ posted = <<>>
  BY DEF IInv, OneInv
<1>2. workers' = {Download(w.release, place)} /\ posted' = <<>>
  BY <1>1 DEF Goes
<1>3. Download(w.release, place).release = w.release /\ Download(w.release, place).at = place
      /\ Download(w.release, place).job = "download"
  BY DEF Download
<1>4. \A r : Fetchable(r)' <=> Fetchable(r)
  BY FetchableStays
<1>5. AddressInv'
  BY <1>1, <1>2, <1>3, <1>4 DEF IInv, AddressInv
<1>6. FilesInv'
  BY <1>2, <1>3 DEF FilesInv
<1> QED
  BY <1>1, <1>2, <1>5, <1>6 DEF IInv, OneInv, AppInv

\* A thread ends and posts its result, which nothing can come between.
LEMMA EndsInv ==
  ASSUME IInv, NEW w \in workers, NEW result, Ends(w, result),
         part' \in [Releases -> Content], dest' \in [Releases -> {"none", "good"}],
         result.of \in {"check", "download"},
         result.of = "download" \/ result.outcome = "found" => result.release \in Releases,
         result.of = "download" /\ result.outcome = "done" => dest'[result.release] = "good",
         UNCHANGED <<assets, latest, installer, app, timer, busy, url, boxes>>
  PROVE  IInv'
<1>1. workers = {w} /\ busy /\ posted = <<>>
  BY DEF IInv, OneInv
<1>2. workers' = {} /\ posted' = <<result>>
  BY <1>1 DEF Ends
<1>3. \A i \in DOMAIN posted' : posted'[i] = result
  BY <1>2
<1>4. \A r : Fetchable(r)' <=> Fetchable(r)
  BY FetchableStays
<1>5. AddressInv'
  BY <1>2, <1>3, <1>4 DEF IInv, AddressInv
<1>6. FilesInv'
  BY <1>2, <1>3 DEF FilesInv
<1> QED
  BY <1>1, <1>2, <1>5, <1>6 DEF IInv, OneInv, AppInv

\* A check ends; what it found is a release that was the latest when it looked.
LEMMA CheckInv ==
  ASSUME IInv, NEW w \in workers, CheckEnds(w)
  PROVE  IInv'
<1>1. PICK result : /\ Ends(w, result) /\ result.of = "check"
                    /\ result.outcome = "found" => result.release = latest /\ latest # 0
  <2>1. CASE Ends(w, [of |-> "check", manual |-> w.manual, outcome |-> "error"])
    BY <2>1
  <2>2. CASE Ends(w, [of |-> "check", manual |-> w.manual, outcome |-> "current"])
    BY <2>2
  <2>3. CASE /\ latest # 0
             /\ Ends(w, [of |-> "check", manual |-> w.manual, outcome |-> "found",
                         release |-> latest])
    BY <2>3
  <2> QED
    BY <2>1, <2>2, <2>3 DEF CheckEnds
<1>2. UNCHANGED <<assets, latest, installer, app, timer, busy, url, boxes, part, dest>>
  BY DEF CheckEnds, world, files
<1>3. latest # 0 => latest \in Releases
  BY UpdatesAssumption DEF IInv, AddressInv, Releases
<1> QED
  BY <1>1, <1>2, <1>3, EndsInv DEF IInv, FilesInv

\* Each step of a download.
LEMMA DownloadInv ==
  ASSUME IInv, NEW w \in workers, DownloadStep(w)
  PROVE  IInv'
<1>1. UNCHANGED <<assets, latest, installer, app, timer, busy, url, boxes>>
  BY DEF DownloadStep, world
<1>2. w.job = "download"
  BY DEF DownloadStep, DownloadAsks, DownloadCreates, DownloadBody, DownloadVerify,
         DownloadReplace, DownloadRename, At
<1>3. part \in [Releases -> Content] /\ dest \in [Releases -> {"none", "good"}]
      /\ w.release \in Releases /\ {"none", "good", "bad", "partial"} \subseteq Content
      /\ (w.at \in {"replace", "rename"} => part[w.release] = "good")
  BY <1>2 DEF IInv, FilesInv, AddressInv, Content
<1>4. ASSUME Fails(w), part' \in [Releases -> Content], UNCHANGED dest PROVE IInv'
  <2>1. PICK result : /\ Ends(w, result) /\ result.of = "download" /\ result.outcome = "failed"
                      /\ result.release \in Releases
    BY <1>3, <1>4 DEF Fails
  <2> QED
    BY <1>1, <1>3, <1>4, <2>1, EndsInv
<1>5. CASE DownloadAsks(w)
  BY <1>1, <1>2, <1>3, <1>4, <1>5, GoesInv DEF DownloadAsks, files
<1>6. CASE DownloadCreates(w)
  BY <1>1, <1>2, <1>3, <1>4, <1>6, GoesInv DEF DownloadCreates
<1>7. CASE DownloadBody(w)
  <2>1. part' \in [Releases -> Content] /\ UNCHANGED dest
    BY <1>3, <1>7 DEF DownloadBody
  <2>2. CASE Goes(w, "verify")
    BY <1>1, <1>2, <1>3, <2>1, <2>2, GoesInv
  <2> QED
    BY <1>4, <1>7, <2>1, <2>2 DEF DownloadBody
<1>8. CASE DownloadVerify(w)
  <2>1. part' \in [Releases -> Content] /\ UNCHANGED dest
    BY <1>3, <1>8 DEF DownloadVerify
  <2>2. CASE Goes(w, "replace") /\ part[w.release] = "good" /\ UNCHANGED part
    BY <1>1, <1>2, <1>3, <2>1, <2>2, GoesInv
  <2> QED
    BY <1>4, <1>8, <2>1, <2>2 DEF DownloadVerify
<1>9. CASE DownloadReplace(w)
  <2>1. dest' \in [Releases -> {"none", "good"}] /\ UNCHANGED part /\ Goes(w, "rename")
        /\ part[w.release] = "good"
    BY <1>3, <1>9 DEF DownloadReplace, At
  <2> QED
    BY <1>1, <1>2, <1>3, <2>1, GoesInv
<1>10. CASE DownloadRename(w)
  <2>1. part' = [part EXCEPT ![w.release] = "none"] /\ part[w.release] = "good"
    BY <1>3, <1>10 DEF DownloadRename, At
  <2>2. part' \in [Releases -> Content]
    BY <1>3, <2>1
  <2>3. CASE UNCHANGED dest /\ Fails(w)
    BY <1>4, <2>2, <2>3
  <2>4. CASE /\ dest' = [dest EXCEPT ![w.release] = part[w.release]]
             /\ Ends(w, [of |-> "download", outcome |-> "done", release |-> w.release])
    <3>1. dest' \in [Releases -> {"none", "good"}] /\ dest'[w.release] = "good"
      BY <1>3, <2>1, <2>4
    <3>2. PICK result : /\ Ends(w, result) /\ result.of = "download"
                        /\ result.release = w.release
      BY <2>4
    <3> QED
      BY <1>1, <1>3, <2>2, <3>1, <3>2, EndsInv
  <2> QED
    BY <1>10, <2>3, <2>4 DEF DownloadRename
<1> QED
  BY <1>5, <1>6, <1>7, <1>8, <1>9, <1>10 DEF DownloadStep

\* A result is taken: an offer replaces the address, a verified installer is run.
LEMMA HandleInv ==
  ASSUME IInv, HandleResult
  PROVE  IInv'
<1>1. PICK r : busy /\ workers = {} /\ posted = <<r>>
  BY DEF HandleResult, IInv, OneInv
<1>2. Head(posted) = r /\ Tail(posted) = <<>> /\ app /\ r.of \in {"check", "download"}
      /\ (r.of = "download" \/ r.outcome = "found" => r.release \in Releases)
      /\ (r.of = "download" /\ r.outcome = "done" => dest[r.release] = "good")
  <2>1. 1 \in DOMAIN posted /\ posted[1] = r
    BY <1>1
  <2> QED
    BY <1>1, <2>1 DEF IInv, AddressInv, FilesInv, AppInv
<1>3. \A q : Fetchable(q)' <=> Fetchable(q) 
  BY FetchableStays DEF HandleResult, UpdateChecked, UpdateNotRun, UpdateRun, world
<1>4. CASE UpdateChecked(r) /\ posted' = Tail(posted)
  <2>1. busy' = FALSE /\ workers' = {} /\ posted' = <<>>
        /\ UNCHANGED <<assets, latest, installer, app, part, dest>>
    BY <1>1, <1>2, <1>4 DEF UpdateChecked, world, files
  <2>2. url' \in 0 .. Newest /\ (url' # 0 => Fetchable(url'))
    <3>1. url' = Address(r)
      BY <1>4 DEF UpdateChecked
    <3>2. CASE Offer(r) = "installer"
      <4>1. r.release \in Releases /\ Judge(assets[r.release]) = "installer"
        BY <1>2, <3>2 DEF Offer
      <4> QED
        BY <3>1, <3>2, <4>1, OfferFetchable, UpdatesAssumption DEF Address, Releases
    <3>3. CASE Offer(r) = "page"
      BY <3>1, <3>3, UpdatesAssumption DEF Address
    <3>4. CASE Offer(r) = "nothing"
      BY <3>1, <3>4 DEF Address, IInv, AddressInv
    <3>5. Offer(r) \in {"installer", "page", "nothing"}
      BY DEF Offer, Judge
    <3> QED
      BY <3>2, <3>3, <3>4, <3>5
  <2>3. AddressInv'
    BY <1>3, <2>1, <2>2 DEF IInv, AddressInv
  <2>4. FilesInv'
    BY <2>1 DEF IInv, FilesInv
  <2> QED
    BY <1>2, <2>1, <2>3, <2>4 DEF IInv, OneInv, AppInv
<1>5. CASE UpdateNotRun /\ posted' = Tail(posted)
  <2>1. busy' = FALSE /\ workers' = {} /\ posted' = <<>>
        /\ UNCHANGED <<assets, latest, installer, app, url, part, dest>>
    BY <1>1, <1>2, <1>5 DEF UpdateNotRun, world, files
  <2>2. AddressInv'
    BY <1>3, <2>1 DEF IInv, AddressInv
  <2>3. FilesInv'
    BY <2>1 DEF IInv, FilesInv
  <2> QED
    BY <1>2, <2>1, <2>2, <2>3 DEF IInv, OneInv, AppInv
<1>6. CASE r.of # "check" /\ r.outcome = "done" /\ UpdateRun(r)
  <2>1. busy' = FALSE /\ workers' = {} /\ posted' = <<>> /\ url' = 0 /\ ~app' /\ ~timer'
        /\ boxes' = <<>> /\ installer' = r.release /\ UNCHANGED <<assets, latest, part, dest>>
    BY <1>6 DEF UpdateRun, Forget, files
  <2>2. dest[r.release] = "good"
    BY <1>2, <1>6
  <2>3. AddressInv'
    BY <2>1, UpdatesAssumption DEF IInv, AddressInv
  <2>4. FilesInv'
    BY <2>1 DEF IInv, FilesInv
  <2> QED
    BY <2>1, <2>2, <2>3, <2>4 DEF IInv, OneInv, AppInv
<1> QED
  BY <1>2, <1>4, <1>5, <1>6 DEF HandleResult

\* Every step stays in the invariant.
LEMMA NextInv == IInv /\ [Next]_vars => IInv'
<1> SUFFICES ASSUME IInv, [Next]_vars PROVE IInv'
  OBVIOUS
<1>1. latest \in 0 .. Newest
  BY DEF IInv, AddressInv
<1>2. CASE UNCHANGED vars
  BY <1>1, <1>2, ApartInv DEF vars, world, window, files
<1>3. CASE AnswerBox
  <2>1. boxes # <<>>
    BY <1>3 DEF AnswerBox
  <2> QED
    BY <1>1, <1>3, <2>1, ApartInv DEF AnswerBox, world, files, IInv, AppInv
<1>4. CASE Publish \/ Withdraw
  <2>1. latest' \in 0 .. Newest
    <3>1. Newest \in Nat /\ latest \in Nat /\ latest <= Newest
      BY <1>1, UpdatesAssumption
    <3>2. \/ latest < Newest /\ latest' = latest + 1
          \/ latest > 0 /\ latest' = latest - 1
      BY <1>4 DEF Publish, Withdraw
    <3> QED
      BY <3>1, <3>2
  <2> QED
    BY <1>4, <2>1, ApartInv DEF Publish, Withdraw, window, files
<1>5. CASE InstallerEnds
  <2>1. installer' = 0
        /\ UNCHANGED <<assets, latest, app, timer, busy, url, workers, posted, boxes, part, dest>>
    BY <1>5 DEF InstallerEnds, window, files
  <2>2. \A r : Fetchable(r)' <=> Fetchable(r)
    BY <2>1, FetchableStays
  <2>3. AddressInv'
    BY <2>1, <2>2 DEF IInv, AddressInv
  <2>4. FilesInv'
    BY <2>1 DEF IInv, FilesInv
  <2>5. OneInv' /\ AppInv' /\ busy' \in BOOLEAN
    BY <2>1 DEF IInv, OneInv, AppInv
  <2> QED
    BY <2>3, <2>4, <2>5 DEF IInv
<1>6. CASE WorkerStep
  BY <1>6, CheckInv, DownloadInv DEF WorkerStep
<1>7. CASE AppStarts \/ AppEnds \/ TimerFires \/ TrayCheck \/ BoxReturns \/ HandleResult
  BY <1>7, ProcessInv, AskInv, HandleInv
<1> QED
  BY <1>2, <1>3, <1>4, <1>5, <1>6, <1>7 DEF Next, WindowStep

\* The inductive invariant, of which the theorems are consequences.
THEOREM UpdatesIInv == Spec => []IInv
BY InitInv, NextInv, PTL DEF Spec

-----------------------------------------------------------------------------
\* updateBusy_ (main_window.h:49) lets one check or download be under way, thread or result,
\* however many boxes are open and in whatever order they are answered.
THEOREM OneAtATimeAlways == Spec => []OneUpdateAtATime
<1>1. IInv => OneUpdateAtATime
  <2> SUFFICES ASSUME IInv PROVE OneUpdateAtATime
    OBVIOUS
  <2>1. CASE ~busy /\ workers = {} /\ posted = <<>>
    <3>1. Cardinality(workers) = 0 /\ Len(posted) = 0
      BY <2>1, FS_EmptySet
    <3> QED
      BY <2>1, <3>1 DEF OneUpdateAtATime
  <2>2. CASE busy /\ (\E w : workers = {w}) /\ posted = <<>>
    <3>1. Cardinality(workers) = 1 /\ Len(posted) = 0
      BY <2>2, FS_Singleton
    <3> QED
      BY <2>2, <3>1 DEF OneUpdateAtATime
  <2>3. CASE busy /\ workers = {} /\ (\E r : posted = <<r>>)
    <3>1. Cardinality(workers) = 0 /\ Len(posted) = 1
      BY <2>3, FS_EmptySet
    <3> QED
      BY <2>3, <3>1 DEF OneUpdateAtATime
  <2> QED
    BY <2>1, <2>2, <2>3 DEF IInv, OneInv
<1> QED
  BY <1>1, UpdatesIInv, PTL

\* A file has an installer's name only if its digest matched, and only such a file is run
\* (updater.cpp:547, main_window.cpp:638), whenever a process died and whatever it left.
THEOREM OnlyVerifiedEverRuns == Spec => []OnlyVerifiedRuns
<1>1. IInv => OnlyVerifiedRuns
  BY DEF IInv, FilesInv, AppInv, OnlyVerifiedRuns
<1> QED
  BY <1>1, UpdatesIInv, PTL

\* No release without a checksum of its own, or with an address off the list, is downloaded
\* (main_window.cpp:577), whatever a publisher makes of its releases.
THEOREM RefusedNeverFetched == Spec => []RefusedIsNotFetched
<1>1. IInv => RefusedIsNotFetched
  BY DEF IInv, AddressInv, Fetchable, RefusedIsNotFetched
<1> QED
  BY <1>1, UpdatesIInv, PTL

-----------------------------------------------------------------------------
\* Induction over the numbers, with a set in place of a predicate.
LEMMA Inductive ==
  ASSUME NEW S, \A n \in Nat : (\A m \in 0 .. n - 1 : m \in S) => n \in S
  PROVE  \A n \in Nat : n \in S
<1> DEFINE missing == {n \in Nat : n \notin S}
           R == OpToRel(<, Nat)
<1>1. \A x, y \in Nat : y < x => <<y, x>> \in R
  BY DEF OpToRel
<1>2. missing \subseteq Nat
  OBVIOUS
<1> SUFFICES ASSUME missing # {} PROVE FALSE
  OBVIOUS
<1>3. IsWellFoundedOn(R, Nat)
  BY NatLessThanWellFounded DEF R
<1>4. PICK n \in missing : \A m \in missing : <<m, n>> \notin R
  <2> HIDE DEF missing, R
  <2> QED
    BY <1>2, <1>3, WFMin
<1>5. \A m \in 0 .. n - 1 : m \in S
  <2> HIDE DEF R
  <2>1. n \in Nat
    BY <1>4
  <2> SUFFICES ASSUME NEW m \in 0 .. n - 1, m \notin S PROVE FALSE
    OBVIOUS
  <2>2. m \in Nat /\ m < n
    BY <2>1
  <2>3. m \in missing
    BY <2>2
  <2> HIDE DEF missing
  <2> QED
    BY <1>1, <1>4, <2>1, <2>2, <2>3
<1> QED
  BY <1>4, <1>5

\* One number after the other.
LEMMA Counting ==
  ASSUME NEW S, 0 \in S, \A n \in Nat : n \in S => n + 1 \in S
  PROVE  \A n \in Nat : n \in S
<1>1. ASSUME NEW n \in Nat, \A m \in 0 .. n - 1 : m \in S
      PROVE  n \in S
  <2>1. CASE n = 0
    BY <2>1
  <2>2. CASE n # 0
    <3>1. n - 1 \in Nat /\ n - 1 \in 0 .. n - 1 /\ (n - 1) + 1 = n
      BY <2>2
    <3> QED
      BY <1>1, <3>1
  <2> QED
    BY <2>1, <2>2
<1> QED
  BY <1>1, Inductive

\* The largest of a set of numbers is the one no other is above.
LEMMA MaxIs ==
  ASSUME NEW S, S \subseteq Int, NEW x \in S, \A y \in S : y <= x
  PROVE  Max(S) = x
<1>1. Max(S) \in S /\ \A y \in S : Max(S) >= y
  BY DEF Max
<1>2. Max(S) \in Int /\ x \in Int /\ Max(S) >= x /\ Max(S) <= x
  BY <1>1
<1> QED
  BY <1>2

\* And the smallest.
LEMMA MinIs ==
  ASSUME NEW S, S \subseteq Int, NEW x \in S, \A y \in S : x <= y
  PROVE  Min(S) = x
<1>1. Min(S) \in S /\ \A y \in S : Min(S) <= y
  BY DEF Min
<1>2. Min(S) \in Int /\ x \in Int /\ Min(S) <= x /\ x <= Min(S)
  BY <1>1
<1> QED
  BY <1>2

\* The digits of a number: those of its tenth, and one more.
LEMMA DecimalIs ==
  \A n \in Nat : Decimal[n] = IF n < 10 THEN <<n>> ELSE Append(Decimal[n \div 10], n % 10)
<1> DEFINE Digits(f, n) == IF n < 10 THEN <<n>> ELSE Append(f[n \div 10], n % 10)
           UpTo(m, f) == f = [n \in 0 .. m |-> Digits(f, n)]
<1>1. \A n \in Nat : n >= 10 => n \div 10 \in 0 .. n - 1
  OBVIOUS
<1>2. ASSUME NEW m \in Nat, NEW k \in Nat, NEW f, NEW g, UpTo(m, f), UpTo(k, g)
      PROVE  \A n \in Nat : n <= m /\ n <= k => f[n] = g[n]
  <2> DEFINE S == {n \in Nat : n <= m /\ n <= k => f[n] = g[n]}
  <2>1. ASSUME NEW n \in Nat, \A i \in 0 .. n - 1 : i \in S
        PROVE  n \in S
    <3> SUFFICES ASSUME n <= m, n <= k PROVE f[n] = g[n]
      OBVIOUS
    <3>1. n \in 0 .. m /\ n \in 0 .. k
      OBVIOUS
    <3>2. f[n] = Digits(f, n) /\ g[n] = Digits(g, n)
      <4> HIDE DEF Digits
      <4> QED
        BY <1>2, <3>1
    <3>3. CASE n >= 10
      <4>1. n \div 10 \in S /\ n \div 10 \in Nat /\ n \div 10 <= m /\ n \div 10 <= k
        BY <1>1, <2>1, <3>3
      <4>2. f[n \div 10] = g[n \div 10]
        BY <4>1
      <4> QED
        BY <3>2, <4>2
    <3> QED
      BY <3>2, <3>3
  <2> HIDE DEF S
  <2>2. \A n \in Nat : n \in S
    BY <2>1, Inductive
  <2> QED
    BY <2>2 DEF S
<1>3. \A m \in Nat : \E f : UpTo(m, f)
  <2> DEFINE S == {m \in Nat : \E f : UpTo(m, f)}
  <2>1. 0 \in S
    <3>1. UpTo(0, [n \in 0 .. 0 |-> <<n>>])
      OBVIOUS
    <3> QED
      BY <3>1
  <2>2. ASSUME NEW m \in Nat, m \in S
        PROVE  m + 1 \in S
    <3>1. PICK f : UpTo(m, f)
      BY <2>2
    <3> DEFINE g == [n \in 0 .. m + 1 |-> IF n = m + 1 THEN Digits(f, n) ELSE f[n]]
    <3>2. \A n \in 0 .. m + 1 : Digits(f, n) = Digits(g, n)
      <4>1. \A n \in 0 .. m + 1 : n >= 10 => n \div 10 \in 0 .. m + 1 /\ n \div 10 # m + 1
        BY <1>1
      <4> QED
        BY <4>1
    <3>3. \A n \in 0 .. m + 1 : g[n] = Digits(g, n)
      <4>1. \A n \in 0 .. m : f[n] = Digits(f, n)
        <5> HIDE DEF Digits
        <5> QED
          BY <3>1
      <4> HIDE DEF Digits
      <4>2. \A n \in 0 .. m + 1 : n # m + 1 => n \in 0 .. m
        OBVIOUS
      <4> QED
        BY <3>2, <4>1, <4>2
    <3>4. g = [n \in 0 .. m + 1 |-> Digits(g, n)]
      <4>1. g = [n \in 0 .. m + 1 |-> g[n]]
        OBVIOUS
      <4> HIDE DEF g, Digits
      <4> QED
        BY <3>3, <4>1
    <3>5. UpTo(m + 1, g)
      <4> HIDE DEF g, Digits
      <4> QED
        BY <3>4
    <3> QED
      <4> HIDE DEF g, UpTo
      <4> QED
        BY <3>5
  <2> HIDE DEF S
  <2>3. \A m \in Nat : m \in S
    BY <2>1, <2>2, Counting
  <2> QED
    BY <2>3 DEF S
<1> DEFINE Of(n) == CHOOSE f : UpTo(n, f)
           F == [n \in Nat |-> Of(n)[n]]
<1>4. \A n \in Nat : UpTo(n, Of(n))
  <2> HIDE DEF UpTo
  <2> QED
    BY <1>3
<1>5. \A n \in Nat : F[n] = Digits(F, n)
  <2> SUFFICES ASSUME NEW n \in Nat PROVE F[n] = Digits(F, n)
    OBVIOUS
  <2>1. F[n] = Digits(Of(n), n)
    <3>1. Of(n)[n] = Digits(Of(n), n)
      <4>1. n \in 0 .. n
        OBVIOUS
      <4> HIDE DEF Digits, Of
      <4> QED
        BY <1>4, <4>1
    <3> HIDE DEF Digits, Of
    <3> QED
      BY <3>1
  <2>2. CASE n >= 10
    <3>1. n \div 10 \in Nat /\ n \div 10 <= n
      BY <1>1, <2>2
    <3>2. Of(n)[n \div 10] = Of(n \div 10)[n \div 10]
      <4> HIDE DEF UpTo, Of
      <4> QED
        BY <1>2, <1>4, <3>1
    <3>3. F[n \div 10] = Of(n)[n \div 10]
      <4> HIDE DEF Of
      <4> QED
        BY <3>1, <3>2
    <3> HIDE DEF F, Of
    <3> QED
      BY <2>1, <3>3
  <2> HIDE DEF F, Of
  <2> QED
    BY <2>1, <2>2
<1>6. F = [n \in Nat |-> Digits(F, n)]
  <2>1. F = [n \in Nat |-> F[n]]
    OBVIOUS
  <2> HIDE DEF F, Digits
  <2> QED
    BY <1>5, <2>1
<1>7. Decimal = CHOOSE f : f = [n \in Nat |-> Digits(f, n)]
  BY DEF Decimal
<1>8. Decimal = [n \in Nat |-> Digits(Decimal, n)]
  <2> HIDE DEF F, Digits
  <2> QED
    BY <1>6, <1>7
<1>9. \A n \in Nat : Decimal[n] = Digits(Decimal, n)
  <2> HIDE DEF Digits
  <2> QED
    BY <1>8
<1> QED
  BY <1>9

\* A number below ten is its own digit.
LEMMA DecimalShort ==
  ASSUME NEW n \in Nat, n < 10
  PROVE  Decimal[n] = <<n>>
BY DecimalIs

\* A longer one is its tenth with a digit behind.
LEMMA DecimalLong ==
  ASSUME NEW n \in Nat, n >= 10
  PROVE  Decimal[n] = Append(Decimal[n \div 10], n % 10)
<1>1. Decimal[n] = IF n < 10 THEN <<n>> ELSE Append(Decimal[n \div 10], n % 10)
  BY DecimalIs
<1>2. ~(n < 10)
  OBVIOUS
<1> QED
  BY <1>1, <1>2

-----------------------------------------------------------------------------
\* A version read character by character.
Unread == [parts |-> <<0>>, open |-> TRUE]
Read(text) == FoldLeft(NextCharacter, Unread, text)

\* The fold over sets of positions that stands behind it.
IsReading(iter, text) ==
  iter = [s \in SUBSET DOMAIN text |->
            IF s = {} THEN Unread ELSE NextCharacter(iter[s \ {Max(s)}], text[Max(s)])]

\* There is such a fold.
LEMMA ReadingExists ==
  ASSUME NEW text, NEW n \in Nat, DOMAIN text = 1 .. n
  PROVE  \E iter : IsReading(iter, text)
<1> DEFINE Upto(m, f) ==
             f = [s \in SUBSET (1 .. m) |->
                    IF s = {} THEN Unread ELSE NextCharacter(f[s \ {Max(s)}], text[Max(s)])]
           S == {m \in Nat : \E f : Upto(m, f)}
<1>1. 0 \in S
  <2>1. Upto(0, [s \in SUBSET (1 .. 0) |-> Unread])
    <3>1. SUBSET (1 .. 0) = {{}}
      OBVIOUS
    <3> QED
      BY <3>1
  <2> HIDE DEF Upto
  <2> QED
    BY <2>1
<1>2. ASSUME NEW m \in Nat, m \in S
      PROVE  m + 1 \in S
  <2>1. PICK f : Upto(m, f)
    BY <1>2
  <2> DEFINE g == [s \in SUBSET (1 .. m + 1) |->
                     IF m + 1 \in s THEN NextCharacter(f[s \ {m + 1}], text[m + 1]) ELSE f[s]]
  <2>2. ASSUME NEW s \in SUBSET (1 .. m + 1), m + 1 \in s
        PROVE  Max(s) = m + 1
    <3>1. s \subseteq Int /\ \A y \in s : y <= m + 1
      OBVIOUS
    <3> QED
      BY <2>2, <3>1, MaxIs
  <2>3. ASSUME NEW s \in SUBSET (1 .. m + 1)
        PROVE  g[s] = IF s = {} THEN Unread ELSE NextCharacter(g[s \ {Max(s)}], text[Max(s)])
    <3>1. CASE m + 1 \in s
      <4>1. s \ {Max(s)} \in SUBSET (1 .. m + 1) /\ m + 1 \notin s \ {Max(s)} /\ Max(s) = m + 1
        BY <2>2, <3>1
      <4>2. g[s \ {Max(s)}] = f[s \ {m + 1}]
        BY <4>1
      <4> QED
        BY <3>1, <4>1, <4>2
    <3>2. CASE m + 1 \notin s
      <4>1. s \in SUBSET (1 .. m)
        BY <3>2
      <4>2. s \ {Max(s)} \in SUBSET (1 .. m + 1) /\ m + 1 \notin s \ {Max(s)}
        BY <3>2
      <4>3. g[s] = f[s] /\ g[s \ {Max(s)}] = f[s \ {Max(s)}]
        BY <3>2, <4>2
      <4> HIDE DEF g
      <4> QED
        BY <2>1, <4>1, <4>3
    <3> QED
      BY <3>1, <3>2
  <2>4. g = [s \in SUBSET (1 .. m + 1) |-> g[s]]
    OBVIOUS
  <2>5. Upto(m + 1, g)
    <3> HIDE DEF g
    <3> QED
      BY <2>3, <2>4
  <2> HIDE DEF g, Upto
  <2> QED
    BY <2>5
<1> HIDE DEF S
<1>3. n \in S
  BY <1>1, <1>2, Counting
<1> QED
  BY <1>3 DEF S, IsReading

\* Of no text nothing is read.
LEMMA ReadEmpty == Read(<<>>) = Unread
<1> DEFINE iter == CHOOSE f : IsReading(f, <<>>)
<1>1. DOMAIN <<>> = 1 .. 0
  OBVIOUS
<1>2. IsReading(iter, <<>>)
  BY <1>1, ReadingExists
<1>3. Read(<<>>) = iter[DOMAIN <<>>]
  BY DEF Read, FoldLeft, MapThenFoldSet, IsReading
<1> HIDE DEF iter
<1> QED
  BY <1>1, <1>2, <1>3 DEF IsReading

\* Reading takes one character after the other.
LEMMA ReadAppend ==
  ASSUME NEW Ch, NEW text \in Seq(Ch), NEW ch \in Ch
  PROVE  Read(Append(text, ch)) = NextCharacter(Read(text), ch)
<1> DEFINE longer == Append(text, ch)
           n == Len(text)
           old == CHOOSE f : IsReading(f, text)
           new == CHOOSE f : IsReading(f, longer)
           S == {k \in Nat : k <= n => old[1 .. k] = new[1 .. k]}
<1>1. /\ n \in Nat /\ DOMAIN text = 1 .. n /\ DOMAIN longer = 1 .. n + 1
      /\ \A i \in 1 .. n : longer[i] = text[i]
      /\ longer[n + 1] = ch
  OBVIOUS
<1> HIDE DEF n, longer
<1>2. IsReading(old, text) /\ IsReading(new, longer)
  BY <1>1, ReadingExists
<1>3. Read(text) = old[DOMAIN text] /\ Read(longer) = new[DOMAIN longer]
  BY DEF Read, FoldLeft, MapThenFoldSet, IsReading
<1> HIDE DEF old, new
<1>4. ASSUME NEW k \in Nat
      PROVE  Max(1 .. k + 1) = k + 1 /\ (1 .. k + 1) \ {k + 1} = 1 .. k /\ 1 .. k + 1 # {}
  <2>1. 1 .. k + 1 \subseteq Int /\ k + 1 \in 1 .. k + 1 /\ \A y \in 1 .. k + 1 : y <= k + 1
    OBVIOUS
  <2>2. Max(1 .. k + 1) = k + 1
    BY <2>1, MaxIs
  <2>3. \A y : y \in (1 .. k + 1) \ {k + 1} <=> y \in 1 .. k
    OBVIOUS
  <2> QED
    BY <2>1, <2>2, <2>3
<1>5. ASSUME NEW k \in Nat, k < n
      PROVE  old[1 .. k + 1] = NextCharacter(old[1 .. k], text[k + 1])
  <2>1. 1 .. k + 1 \in SUBSET DOMAIN text
    BY <1>1, <1>5
  <2>2. old[1 .. k + 1] = NextCharacter(old[(1 .. k + 1) \ {Max(1 .. k + 1)}], text[Max(1 .. k + 1)])
    BY <1>2, <1>4, <2>1 DEF IsReading
  <2> QED
    BY <1>4, <2>2
<1>6. ASSUME NEW k \in Nat, k <= n
      PROVE  new[1 .. k + 1] = NextCharacter(new[1 .. k], longer[k + 1])
  <2>1. 1 .. k + 1 \in SUBSET DOMAIN longer
    BY <1>1, <1>6
  <2>2. new[1 .. k + 1] = NextCharacter(new[(1 .. k + 1) \ {Max(1 .. k + 1)}], longer[Max(1 .. k + 1)])
    BY <1>2, <1>4, <2>1 DEF IsReading
  <2> QED
    BY <1>4, <2>2
<1>7. 0 \in S
  <2>1. 1 .. 0 = {} /\ {} \in SUBSET DOMAIN text /\ {} \in SUBSET DOMAIN longer
    OBVIOUS
  <2> QED
    BY <1>2, <2>1 DEF IsReading
<1>8. ASSUME NEW k \in Nat, k \in S
      PROVE  k + 1 \in S
  <2> SUFFICES ASSUME k + 1 <= n PROVE old[1 .. k + 1] = new[1 .. k + 1]
    OBVIOUS
  <2>1. k < n /\ k <= n /\ k + 1 \in 1 .. n
    BY <1>1
  <2>2. old[1 .. k] = new[1 .. k]
    BY <1>8, <2>1
  <2>3. longer[k + 1] = text[k + 1]
    BY <1>1, <2>1
  <2> QED
    BY <1>5, <1>6, <2>1, <2>2, <2>3
<1> HIDE DEF S
<1>9. n \in S
  BY <1>1, <1>7, <1>8, Counting
<1>10. old[1 .. n] = new[1 .. n]
  BY <1>1, <1>9 DEF S
<1>11. new[1 .. n + 1] = NextCharacter(new[1 .. n], longer[n + 1])
  BY <1>1, <1>6
<1>12. Read(longer) = NextCharacter(Read(text), ch)
  BY <1>1, <1>3, <1>10, <1>11
<1> QED
  BY <1>12 DEF longer

\* Appending behind a text.
LEMMA ConcatAppend ==
  ASSUME NEW S, NEW s \in Seq(S), NEW t \in Seq(S), NEW x \in S
  PROVE  s \o Append(t, x) = Append(s \o t, x) /\ s \o t \in Seq(S)
<1>1. Append(t, x) = t \o <<x>> /\ <<x>> \in Seq(S)
  BY AppendIsConcat
<1>2. s \o t \in Seq(S)
  BY ConcatProperties
<1>3. Append(s \o t, x) = (s \o t) \o <<x>>
  BY <1>2, AppendIsConcat
<1>4. (s \o t) \o <<x>> = s \o (t \o <<x>>)
  BY <1>1, ConcatAssociative
<1> QED
  BY <1>1, <1>2, <1>3, <1>4

\* A third number behind two, and a second behind one.
LEMMA AppendShort ==
  ASSUME NEW x \in Nat, NEW y \in Nat
  PROVE  /\ <<>> \in Seq(Int) /\ <<>> \in Seq(Nat) /\ <<x>> \in Seq(Nat) /\ <<x, y>> \in Seq(Nat)
         /\ Append(<<>>, x) = <<x>>
         /\ Append(<<x>>, y) = <<x, y>>
         /\ \A z \in Nat : Append(<<x, y>>, z) = <<x, y, z>>
<1>1. <<>> \in Seq(Int) /\ <<>> \in Seq(Nat)
  OBVIOUS
<1>2. <<x>> \in Seq(Nat) /\ <<x, y>> \in Seq(Nat)
  OBVIOUS
<1>3. Append(<<>>, x) = <<x>>
  OBVIOUS
<1>4. Append(<<x>>, y) = <<x, y>>
  <2> DEFINE f == [i \in 1 .. 2 |-> IF i = 1 THEN x ELSE y]
  <2>1. f = <<x, y>>
    OBVIOUS
  <2>2. f = Append(<<x>>, y)
    OBVIOUS
  <2> HIDE DEF f
  <2> QED
    BY <2>1, <2>2, Zenon
<1>5. ASSUME NEW z \in Nat PROVE Append(<<x, y>>, z) = <<x, y, z>>
  <2> DEFINE f == [i \in 1 .. 3 |-> IF i = 1 THEN x ELSE IF i = 2 THEN y ELSE z]
  <2>1. f = <<x, y, z>>
    OBVIOUS
  <2>2. f = Append(<<x, y>>, z)
    OBVIOUS
  <2> HIDE DEF f
  <2> QED
    BY <2>1, <2>2, Zenon
<1> QED
  BY <1>1, <1>2, <1>3, <1>4, <1>5

\* Another number in the last place.
LEMMA LastReplaced ==
  ASSUME NEW parts \in Seq(Nat), NEW n \in Nat, NEW m \in Nat
  PROVE  [Append(parts, n) EXCEPT ![Len(Append(parts, n))] = m] = Append(parts, m)
<1> DEFINE s == Append(parts, n)
           r == Append(parts, m)
           k == Len(parts)
<1>1. /\ k \in Nat /\ s \in Seq(Nat) /\ r \in Seq(Nat) /\ Len(s) = k + 1 /\ Len(r) = k + 1
      /\ \A i \in 1 .. k : s[i] = parts[i] /\ r[i] = parts[i]
      /\ r[k + 1] = m
  BY AppendProperties, LenProperties
<1> HIDE DEF s, r, k
<1> DEFINE e == [s EXCEPT ![k + 1] = m]
<1>2. k + 1 \in 1 .. Len(s)
  BY <1>1
<1>3. e \in Seq(Nat) /\ Len(e) = k + 1
      /\ \A j \in 1 .. Len(s) : e[j] = IF j = k + 1 THEN m ELSE s[j]
  BY <1>1, <1>2, ExceptSeq
<1> HIDE DEF e
<1>4. \A i \in 1 .. Len(e) : e[i] = r[i]
  <2>1. \A i \in 1 .. k + 1 : i = k + 1 \/ i \in 1 .. k
    BY <1>1
  <2> QED
    BY <1>1, <1>3, <2>1
<1>5. e = r
  BY <1>1, <1>3, <1>4, SeqEqual
<1> QED
  BY <1>1, <1>5 DEF e, s, r

\* After a dot the digits of a number become the next component.
LEMMA ReadDecimal ==
  ASSUME NEW text \in Seq(Int), NEW parts \in Seq(Nat),
         Read(text) = [parts |-> Append(parts, 0), open |-> TRUE]
  PROVE  \A n \in Nat :
           /\ Decimal[n] \in Seq(Int)
           /\ Read(text \o Decimal[n]) = [parts |-> Append(parts, n), open |-> TRUE]
<1> DEFINE Reading(n) == [parts |-> Append(parts, n), open |-> TRUE]
           S == {n \in Nat : Decimal[n] \in Seq(Int) /\ Read(text \o Decimal[n]) = Reading(n)}
<1>1. ASSUME NEW n \in Nat, NEW d \in 0 .. 9
      PROVE  NextCharacter(Reading(n), d) = Reading(n * 10 + d)
  <2>1. Append(parts, n)[Len(Append(parts, n))] = n
    BY AppendProperties, LenProperties
  <2>2. n * 10 + d \in Nat
    OBVIOUS
  <2>3. [Append(parts, n) EXCEPT ![Len(Append(parts, n))] = n * 10 + d] = Append(parts, n * 10 + d)
    BY <2>2, LastReplaced
  <2> QED
    BY <2>1, <2>3 DEF NextCharacter, Digit
<1> HIDE DEF Reading, S
<1>2. ASSUME NEW n \in Nat, \A m \in 0 .. n - 1 : m \in S
      PROVE  Decimal[n] \in Seq(Int) /\ Read(text \o Decimal[n]) = Reading(n)
  <2>1. CASE n < 10
    <3>0. Decimal[n] = <<n>>
      BY <2>1, DecimalShort
    <3>1. n \in 0 .. 9 /\ n \in Int
      BY <2>1
    <3>2. text \o <<n>> = Append(text, n)
      BY <3>1, AppendIsConcat
    <3>3. Read(text \o <<n>>) = NextCharacter(Reading(0), n)
      <4>1. Read(Append(text, n)) = NextCharacter(Read(text), n)
        BY <3>1, ReadAppend
      <4>2. Read(text) = Reading(0)
        BY DEF Reading
      <4> QED
        BY <3>2, <4>1, <4>2
    <3>4. 0 * 10 + n = n
      OBVIOUS
    <3>5. Read(text \o <<n>>) = Reading(n)
      BY <1>1, <3>1, <3>3, <3>4
    <3>6. <<n>> \in Seq(Int)
      OBVIOUS
    <3> QED
      BY <3>0, <3>5, <3>6
  <2>2. CASE n >= 10
    <3> DEFINE t == n \div 10
               d == n % 10
    <3>1. t \in 0 .. n - 1 /\ t \in Nat /\ d \in 0 .. 9 /\ t * 10 + d = n
      BY <2>2
    <3>2. Decimal[n] = Append(Decimal[t], d)
      BY <2>2, DecimalLong
    <3> HIDE DEF t, d
    <3>3. Decimal[t] \in Seq(Int) /\ Read(text \o Decimal[t]) = Reading(t)
      BY <1>2, <3>1 DEF S
    <3>4. d \in Int
      BY <3>1
    <3>5. Decimal[n] \in Seq(Int)
      BY <3>2, <3>3, <3>4, AppendProperties
    <3>6. text \o Decimal[n] = Append(text \o Decimal[t], d) /\ text \o Decimal[t] \in Seq(Int)
      <4>1. /\ text \o Append(Decimal[t], d) = Append(text \o Decimal[t], d)
            /\ text \o Decimal[t] \in Seq(Int)
        BY <3>3, <3>4, ConcatAppend
      <4> QED
        BY <3>2, <4>1
    <3>7. Read(text \o Decimal[n]) = NextCharacter(Reading(t), d)
      BY <3>3, <3>4, <3>6, ReadAppend
    <3>8. Read(text \o Decimal[n]) = Reading(n)
      BY <1>1, <3>1, <3>7
    <3> QED
      BY <3>5, <3>8
  <2> QED
    BY <2>1, <2>2
<1>3. \A n \in Nat : n \in S
  BY <1>2, Inductive DEF S
<1> QED
  BY <1>3 DEF S, Reading

\* A dot begins a component.
LEMMA ReadDot ==
  ASSUME NEW text \in Seq(Int), NEW parts,
         Read(text) = [parts |-> parts, open |-> TRUE]
  PROVE  /\ text \o <<Dot>> \in Seq(Int)
         /\ Read(text \o <<Dot>>) = [parts |-> Append(parts, 0), open |-> TRUE]
<1>1. Dot \in Int /\ Dot \notin Digit
  BY DEF Dot, Digit
<1>2. text \o <<Dot>> = Append(text, Dot) /\ Append(text, Dot) \in Seq(Int)
  BY <1>1, AppendIsConcat, AppendProperties
<1>3. Read(Append(text, Dot)) = NextCharacter([parts |-> parts, open |-> TRUE], Dot)
  BY <1>1, ReadAppend
<1> QED
  BY <1>1, <1>2, <1>3 DEF NextCharacter

\* The version a text was made of is read out of it.
LEMMA ReadVersion ==
  ASSUME NEW v \in Nat \X Nat \X Nat
  PROVE  /\ VersionText(v) \in Seq(Int)
         /\ Components(VersionText(v)) = <<v[1], v[2], v[3]>>
<1> DEFINE one == Decimal[v[1]]
           two == (one \o <<Dot>>) \o Decimal[v[2]]
           three == (two \o <<Dot>>) \o Decimal[v[3]]
<1>1. v[1] \in Nat /\ v[2] \in Nat /\ v[3] \in Nat
  OBVIOUS
<1>2. /\ <<>> \in Seq(Int) /\ <<>> \in Seq(Nat)
      /\ <<v[1]>> \in Seq(Nat) /\ <<v[1], v[2]>> \in Seq(Nat)
      /\ \A n \in Nat : Append(<<>>, n) = <<n>>
      /\ Append(<<v[1]>>, v[2]) = <<v[1], v[2]>>
      /\ Append(<<v[1], v[2]>>, v[3]) = <<v[1], v[2], v[3]>>
  BY <1>1, AppendShort
<1>3. Read(<<>>) = [parts |-> Append(<<>>, 0), open |-> TRUE]
  BY <1>2, ReadEmpty DEF Unread
<1>4. \A n \in Nat :
        /\ Decimal[n] \in Seq(Int)
        /\ Read(<<>> \o Decimal[n]) = [parts |-> Append(<<>>, n), open |-> TRUE]
  BY <1>2, <1>3, ReadDecimal
<1>5. one \in Seq(Int) /\ Read(one) = [parts |-> <<v[1]>>, open |-> TRUE]
  <2>1. <<>> \o one = one /\ one \in Seq(Int)
    BY <1>1, <1>4, ConcatEmptySeq
  <2> QED
    BY <1>1, <1>2, <1>4, <2>1
<1> HIDE DEF one
<1>6. two \in Seq(Int) /\ Read(two) = [parts |-> <<v[1], v[2]>>, open |-> TRUE]
  <2> DEFINE dotted == one \o <<Dot>>
  <2>1. dotted \in Seq(Int) /\ Read(dotted) = [parts |-> Append(<<v[1]>>, 0), open |-> TRUE]
    BY <1>5, ReadDot
  <2> HIDE DEF dotted
  <2>2. Read(dotted \o Decimal[v[2]]) = [parts |-> Append(<<v[1]>>, v[2]), open |-> TRUE]
    BY <1>1, <1>2, <2>1, ReadDecimal
  <2>3. dotted \o Decimal[v[2]] \in Seq(Int)
    BY <1>1, <1>4, <2>1, ConcatProperties
  <2> QED
    BY <1>2, <2>2, <2>3 DEF dotted
<1> HIDE DEF two
<1>7. three \in Seq(Int) /\ Read(three) = [parts |-> <<v[1], v[2], v[3]>>, open |-> TRUE]
  <2> DEFINE dotted == two \o <<Dot>>
  <2>1. dotted \in Seq(Int) /\ Read(dotted) = [parts |-> Append(<<v[1], v[2]>>, 0), open |-> TRUE]
    BY <1>6, ReadDot
  <2> HIDE DEF dotted
  <2>2. Read(dotted \o Decimal[v[3]]) = [parts |-> Append(<<v[1], v[2]>>, v[3]), open |-> TRUE]
    BY <1>1, <1>2, <2>1, ReadDecimal
  <2>3. dotted \o Decimal[v[3]] \in Seq(Int)
    BY <1>1, <1>4, <2>1, ConcatProperties
  <2> QED
    BY <1>2, <2>2, <2>3 DEF dotted
<1>8. VersionText(v) = three
  BY DEF VersionText, one, two
<1> HIDE DEF three
<1>9. Components(three) = Read(three).parts
  BY DEF Components, Read, Unread
<1> QED
  BY <1>7, <1>8, <1>9

\* The tag without its letter is the version.
LEMMA VersionOfItsTag ==
  ASSUME NEW v \in Nat \X Nat \X Nat
  PROVE  VersionOfTag(TagOf(v)) = VersionText(v)
<1> DEFINE text == VersionText(v)
           tag == <<LetterV>> \o text
<1>1. text \in Seq(Int)
  BY ReadVersion
<1> HIDE DEF text
<1>2. tag # <<>> /\ tag[1] = LetterV /\ Tail(tag) = text
  BY <1>1
<1> QED
  BY <1>2 DEF VersionOfTag, TagOf, text

\* Its components, with a zero for the fourth.
LEMMA ReadComponents ==
  ASSUME NEW text, NEW x, NEW y, NEW z, Components(text) = <<x, y, z>>
  PROVE  Component(text, 1) = x /\ Component(text, 2) = y /\ Component(text, 3) = z
         /\ Component(text, 4) = 0
<1>1. Len(<<x, y, z>>) = 3
  OBVIOUS
<1> QED
  BY <1>1 DEF Component

\* What compareVersions (updater.cpp:427) says of the version compiled in and a release's tag is
\* the order of the two versions, component by component as numbers, however many digits they
\* have: 0.4.10 comes after 0.4.9, which the texts would not say.
THEOREM VersionsCompare ==
  ASSUME NEW a \in Nat \X Nat \X Nat, NEW b \in Nat \X Nat \X Nat
  PROVE  CompareVersions(VersionText(a), VersionOfTag(TagOf(b))) < 0 <=> Precedes(a, b)
<1> DEFINE A(k) == Component(VersionText(a), k)
           B(k) == Component(VersionText(b), k)
           differ == {k \in 1 .. 4 : A(k) # B(k)}
<1>1. /\ a[1] \in Nat /\ a[2] \in Nat /\ a[3] \in Nat
      /\ b[1] \in Nat /\ b[2] \in Nat /\ b[3] \in Nat
      /\ A(1) = a[1] /\ A(2) = a[2] /\ A(3) = a[3] /\ A(4) = 0
      /\ B(1) = b[1] /\ B(2) = b[2] /\ B(3) = b[3] /\ B(4) = 0
  BY ReadVersion, ReadComponents
<1>2. CompareVersions(VersionText(a), VersionOfTag(TagOf(b)))
        = IF differ = {} THEN 0 ELSE IF A(Min(differ)) < B(Min(differ)) THEN -1 ELSE 1
  BY VersionOfItsTag DEF CompareVersions
<1> HIDE DEF A, B
<1>3. CASE a[1] # b[1]
  <2>1. 1 \in differ /\ differ \subseteq Int /\ \A k \in differ : 1 <= k
    BY <1>1, <1>3
  <2>2. Min(differ) = 1
    BY <2>1, MinIs
  <2> QED
    BY <1>1, <1>2, <1>3, <2>1, <2>2 DEF Precedes
<1>4. CASE a[1] = b[1] /\ a[2] # b[2]
  <2>1. 2 \in differ /\ differ \subseteq Int /\ \A k \in differ : 2 <= k
    BY <1>1, <1>4
  <2>2. Min(differ) = 2
    BY <2>1, MinIs
  <2> QED
    BY <1>1, <1>2, <1>4, <2>1, <2>2 DEF Precedes
<1>5. CASE a[1] = b[1] /\ a[2] = b[2] /\ a[3] # b[3]
  <2>1. 3 \in differ /\ differ \subseteq Int /\ \A k \in differ : 3 <= k
    BY <1>1, <1>5
  <2>2. Min(differ) = 3
    BY <2>1, MinIs
  <2> QED
    BY <1>1, <1>2, <1>5, <2>1, <2>2 DEF Precedes
<1>6. CASE a[1] = b[1] /\ a[2] = b[2] /\ a[3] = b[3]
  <2>1. differ = {}
    BY <1>1, <1>6
  <2> QED
    BY <1>1, <1>2, <1>6, <2>1 DEF Precedes
<1> QED
  BY <1>3, <1>4, <1>5, <1>6

-----------------------------------------------------------------------------
\* Whatever is offered, fetched or run is newer than the program it is for, and the program is
\* replaced only when it has gone.
ForwardInv ==
  /\ installed \in 0 .. Newest /\ installer \in 0 .. Newest
  /\ app => installer = 0
  /\ ~app => url = 0
  /\ url # 0 => IsNewer(url)
  /\ \A w \in workers : w.job = "download" => IsNewer(w.release)
  /\ \A i \in DOMAIN posted :
       posted[i].of = "download" \/ posted[i].outcome = "found" => IsNewer(posted[i].release)
  /\ installer # 0 => IsNewer(installer)

\* What is newer than the program stays so while the program is the same.
LEMMA NewerStays ==
  ASSUME UNCHANGED installed, NEW r
  PROVE  IsNewer(r)' <=> IsNewer(r)
BY DEF IsNewer

\* A newer release has a later version.
LEMMA NewerFollows ==
  ASSUME installed \in 0 .. Newest, NEW r \in Releases
  PROVE  IsNewer(r) <=> Precedes(Version[installed], Version[r])
<1>1. installed \in 0 .. Newest /\ r \in 0 .. Newest
  BY UpdatesAssumption DEF Releases
<1>2. Version[installed] \in Nat \X Nat \X Nat /\ Version[r] \in Nat \X Nat \X Nat
  BY <1>1, UpdatesAssumption
<1>3. Compared[installed][r]
        = CompareVersions(VersionText(Version[installed]), VersionOfTag(TagOf(Version[r])))
  BY DEF Compared
<1> QED
  BY <1>2, <1>3, VersionsCompare DEF IsNewer

\* At the start there is nothing to offer.
LEMMA InitForward == Init => ForwardInv
<1> SUFFICES ASSUME Init PROVE ForwardInv
  OBVIOUS
<1>1. installed = 0 /\ installer = 0 /\ app = FALSE /\ url = 0 /\ workers = {} /\ posted = <<>>
  BY DEF Init
<1>2. 0 \in 0 .. Newest
  BY UpdatesAssumption
<1> QED
  BY <1>1, <1>2 DEF ForwardInv

\* A step of the window, a worker or the world that changes neither the program nor what is on
\* offer.
LEMMA ApartForward ==
  ASSUME ForwardInv, UNCHANGED <<installed, installer, app, url, workers, posted>>
  PROVE  ForwardInv'
<1>1. \A r : IsNewer(r)' <=> IsNewer(r)
  BY NewerStays
<1> QED
  BY <1>1 DEF ForwardInv

\* What the window's handlers begin or offer is newer.
LEMMA WindowForward ==
  ASSUME IInv, ForwardInv, WindowStep
  PROVE  ForwardInv'
<1>1. CASE TimerFires \/ TrayCheck \/ BoxReturns
  <2>1. UNCHANGED <<installed, installer, app, url, posted>>
    BY <1>1 DEF TimerFires, TrayCheck, BoxReturns, StartUpdateCheck, world
  <2>2. \A r : IsNewer(r)' <=> IsNewer(r)
    BY <2>1, NewerStays
  <2>3. \A w \in workers' : w.job = "download" => w \in workers \/ (url # 0 /\ w.release = url)
    BY <1>1 DEF TimerFires, TrayCheck, BoxReturns, StartUpdateCheck, StartUpdateDownload,
                Check, Download
  <2> QED
    BY <2>1, <2>2, <2>3 DEF ForwardInv
<1>2. CASE AnswerBox
  BY <1>2, ApartForward DEF AnswerBox, world
<1>3. CASE HandleResult
  <2> DEFINE r == Head(posted)
  <2>1. /\ workers = {} /\ app
        /\ r.of \in {"check", "download"}
        /\ r.of = "download" \/ r.outcome = "found" => IsNewer(r.release) /\ r.release \in Releases
        /\ Tail(posted) = <<>>
    <3>1. PICK q : busy /\ workers = {} /\ posted = <<q>>
      BY <1>3 DEF HandleResult, IInv, OneInv
    <3>2. 1 \in DOMAIN posted /\ posted[1] = q /\ r = q /\ Tail(posted) = <<>>
      BY <3>1
    <3> QED
      BY <3>1, <3>2 DEF IInv, AddressInv, AppInv, ForwardInv
  <2> HIDE DEF r
  <2>2. UNCHANGED installed /\ \A q : IsNewer(q)' <=> IsNewer(q)
    BY <1>3, NewerStays DEF HandleResult, UpdateChecked, UpdateNotRun, UpdateRun, world
  <2>3. CASE r.of = "check" /\ UpdateChecked(r) /\ posted' = Tail(posted)
    <3>1. UNCHANGED <<installer, app, workers>> /\ url' = Address(r)
      BY <2>3 DEF UpdateChecked, world
    <3>2. url' # 0 => IsNewer(url')
      <4>1. CASE Offer(r) = "installer"
        BY <2>1, <3>1, <4>1 DEF Offer, Address
      <4>2. CASE Offer(r) = "page"
        BY <3>1, <4>2 DEF Address
      <4>3. CASE Offer(r) = "nothing"
        BY <3>1, <4>3 DEF Address, ForwardInv
      <4>4. Offer(r) \in {"installer", "page", "nothing"}
        BY DEF Offer, Judge
      <4> QED
        BY <4>1, <4>2, <4>3, <4>4
    <3> QED
      BY <2>1, <2>2, <2>3, <3>1, <3>2 DEF ForwardInv
  <2>4. CASE UpdateNotRun /\ posted' = Tail(posted)
    <3>1. UNCHANGED <<installer, app, workers, url>>
      BY <2>4 DEF UpdateNotRun, world
    <3> QED
      BY <2>1, <2>2, <2>4, <3>1 DEF ForwardInv
  <2>5. CASE r.of # "check" /\ UpdateRun(r)
    <3>1. /\ installer' = r.release /\ ~app' /\ url' = 0 /\ workers' = {} /\ posted' = <<>>
          /\ app' = FALSE
      BY <2>5 DEF UpdateRun, Forget
    <3>2. installer' \in 0 .. Newest
      BY <2>1, <2>5, <3>1, UpdatesAssumption DEF Releases
    <3> QED
      BY <2>1, <2>2, <2>5, <3>1, <3>2 DEF ForwardInv
  <2> QED
    BY <1>3, <2>3, <2>4, <2>5 DEF HandleResult, r
<1> QED
  BY <1>1, <1>2, <1>3 DEF WindowStep

\* A worker's result is newer: the check looked, and a download only goes on with what it has.
LEMMA WorkerForward ==
  ASSUME IInv, ForwardInv, WorkerStep
  PROVE  ForwardInv'
<1>1. PICK w \in workers : CheckEnds(w) \/ DownloadStep(w)
  BY DEF WorkerStep
<1>2. UNCHANGED <<installed, installer, app, url>> /\ \A r : IsNewer(r)' <=> IsNewer(r)
  BY <1>1, NewerStays DEF CheckEnds, DownloadStep, world
<1>3. ASSUME NEW result, Ends(w, result),
             result.of = "download" \/ result.outcome = "found" => IsNewer(result.release)
      PROVE  ForwardInv'
  <2>1. workers = {w} /\ posted = <<>>
    BY DEF IInv, OneInv
  <2>2. workers' = {} /\ posted' = <<result>>
    BY <1>3, <2>1 DEF Ends
  <2>3. \A i \in DOMAIN posted' : posted'[i] = result
    BY <2>2
  <2> QED
    BY <1>2, <1>3, <2>2, <2>3 DEF ForwardInv
<1>4. CASE CheckEnds(w)
  <2>1. CASE Ends(w, [of |-> "check", manual |-> w.manual, outcome |-> "error"])
    BY <1>3, <2>1
  <2>2. CASE Ends(w, [of |-> "check", manual |-> w.manual, outcome |-> "current"])
    BY <1>3, <2>2
  <2>3. CASE /\ IsNewer(latest)
             /\ Ends(w, [of |-> "check", manual |-> w.manual, outcome |-> "found",
                         release |-> latest])
    BY <1>3, <2>3
  <2> QED
    BY <1>4, <2>1, <2>2, <2>3 DEF CheckEnds
<1>5. CASE DownloadStep(w)
  <2>1. w.job = "download" /\ IsNewer(w.release)
    BY <1>5 DEF DownloadStep, DownloadAsks, DownloadCreates, DownloadBody, DownloadVerify,
                DownloadReplace, DownloadRename, At, ForwardInv
  <2>2. ASSUME NEW place, Goes(w, place) PROVE ForwardInv'
    <3>1. UNCHANGED posted /\ \A v \in workers' : v \in workers \/ v.release = w.release
      BY <2>2 DEF Goes, Download
    <3> QED
      BY <1>2, <2>1, <3>1 DEF ForwardInv
  <2>3. ASSUME NEW outcome,
               Ends(w, [of |-> "download", outcome |-> outcome, release |-> w.release])
        PROVE  ForwardInv'
    BY <1>3, <2>1, <2>3
  <2> QED
    BY <1>5, <2>2, <2>3
    DEF DownloadStep, DownloadAsks, DownloadCreates, DownloadBody, DownloadVerify,
        DownloadReplace, DownloadRename, Fails
<1> QED
  BY <1>1, <1>4, <1>5

\* Every step leaves newer releases on offer only.
LEMMA NextForward == IInv /\ ForwardInv /\ [Next]_vars => ForwardInv'
<1> SUFFICES ASSUME IInv, ForwardInv, [Next]_vars PROVE ForwardInv'
  OBVIOUS
<1>1. CASE UNCHANGED vars \/ Publish \/ Withdraw
  BY <1>1, ApartForward DEF vars, world, window, Publish, Withdraw
<1>2. CASE AppStarts \/ AppEnds
  <2>1. url' = 0 /\ workers' = {} /\ posted' = <<>> /\ UNCHANGED <<installed, installer>>
        /\ (app' => installer = 0)
    BY <1>2 DEF AppStarts, AppEnds, Forget, world
  <2>2. \A r : IsNewer(r)' <=> IsNewer(r)
    BY <2>1, NewerStays
  <2> QED
    BY <2>1, <2>2 DEF ForwardInv
<1>3. CASE InstallerEnds
  <2>1. /\ installer' = 0 /\ installed' \in {installed, installer}
        /\ UNCHANGED <<app, url, workers, posted>>
    BY <1>3 DEF InstallerEnds, window
  <2>2. workers = {} /\ posted = <<>> /\ url = 0
    <3>1. ~app
      BY <1>3 DEF InstallerEnds, IInv, AppInv
    <3> QED
      BY <3>1 DEF IInv, AppInv, OneInv, ForwardInv
  <2> QED
    BY <2>1, <2>2, UpdatesAssumption DEF ForwardInv
<1> QED
  BY <1>1, <1>2, <1>3, WindowForward, WorkerForward DEF Next

\* One step goes forward: the program is only replaced by the installer of a newer release, and
\* a check says "current" only of a release that is not newer.
LEMMA StepForward ==
  ASSUME IInv, ForwardInv, [Next]_vars
  PROVE  /\ installed' # installed => Precedes(Version[installed], Version[installed'])
         /\ \A w \in workers \ workers' :
              Len(posted') > Len(posted) /\ posted'[Len(posted')].of = "check"
                /\ posted'[Len(posted')].outcome = "current"
                => ~Precedes(Version[installed], Version[latest])
<1>1. CASE InstallerEnds
  <2>1. installer # 0 /\ installed' \in {installed, installer} /\ UNCHANGED workers
    BY <1>1 DEF InstallerEnds, window
  <2>2. installer \in Releases /\ IsNewer(installer)
    BY <2>1, UpdatesAssumption DEF ForwardInv, Releases
  <2> QED
    BY <2>1, <2>2, NewerFollows DEF ForwardInv
<1>2. CASE \E w \in workers : CheckEnds(w)
  <2>1. PICK w \in workers : CheckEnds(w)
    BY <1>2
  <2>2. UNCHANGED installed
    BY <2>1 DEF CheckEnds, world
  <2>3. posted = <<>>
    BY <2>1 DEF IInv, OneInv
  <2>4. ASSUME NEW result, Ends(w, result)
        PROVE  posted'[Len(posted')] = result
    BY <2>3, <2>4 DEF Ends
  <2>5. CASE Ends(w, [of |-> "check", manual |-> w.manual, outcome |-> "error"])
    BY <2>2, <2>4, <2>5
  <2>6. CASE latest # 0 /\ ~IsNewer(latest)
    <3>1. latest \in Releases
      BY <2>6, UpdatesAssumption DEF IInv, AddressInv, Releases
    <3> QED
      BY <2>2, <2>6, <3>1, NewerFollows DEF ForwardInv
  <2>7. CASE Ends(w, [of |-> "check", manual |-> w.manual, outcome |-> "found",
                      release |-> latest])
    BY <2>2, <2>4, <2>7
  <2> QED
    BY <2>1, <2>5, <2>6, <2>7 DEF CheckEnds
<1>3. CASE \E w \in workers : DownloadStep(w)
  <2>1. PICK w \in workers : DownloadStep(w)
    BY <1>3
  <2>2. UNCHANGED installed
    BY <2>1 DEF DownloadStep, world
  <2>3. posted = <<>>
    BY <2>1 DEF IInv, OneInv
  <2>4. CASE UNCHANGED posted
    BY <2>2, <2>3, <2>4
  <2>5. ASSUME NEW outcome,
               Ends(w, [of |-> "download", outcome |-> outcome, release |-> w.release])
        PROVE  posted'[Len(posted')].of = "download"
    BY <2>3, <2>5 DEF Ends
  <2>6. posted'[Len(posted')].of = "download" \/ UNCHANGED posted
    BY <2>1, <2>5
    DEF DownloadStep, DownloadAsks, DownloadCreates, DownloadBody, DownloadVerify,
        DownloadReplace, DownloadRename, Fails, Goes
  <2> QED
    BY <2>2, <2>4, <2>6
<1>4. CASE WindowStep \/ AppStarts \/ AppEnds \/ Publish \/ Withdraw \/ UNCHANGED vars
  <2>1. UNCHANGED installed
    BY <1>4 DEF WindowStep, TimerFires, TrayCheck, StartUpdateCheck, HandleResult, UpdateChecked,
                UpdateNotRun, UpdateRun, AnswerBox, BoxReturns, AppStarts, AppEnds, Publish,
                Withdraw, vars, world
  <2>2. workers \ workers' = {} \/ posted' = <<>>
    BY <1>4 DEF WindowStep, TimerFires, TrayCheck, StartUpdateCheck, StartUpdateDownload,
                HandleResult, UpdateChecked, UpdateNotRun, UpdateRun, AnswerBox, BoxReturns,
                AppStarts, AppEnds, Forget, Publish, Withdraw, vars, window
  <2>3. posted' = <<>> => ~(Len(posted') > Len(posted))
    <3>1. Len(posted) \in Nat
      BY DEF IInv, OneInv
    <3> QED
      BY <3>1
  <2> QED
    BY <2>1, <2>2, <2>3
<1> QED
  BY <1>1, <1>2, <1>3, <1>4 DEF Next, WorkerStep

\* An update only goes forward (updater.cpp:427, 464): neither an older version nor the same one
\* again takes the place of the one that runs, and no newer one is called "current", whatever is
\* published or withdrawn meanwhile and however long the versions are.
THEOREM UpdatesGoForward == Spec => OnlyForward
<1>1. Spec => []ForwardInv
  BY InitForward, NextForward, UpdatesIInv, PTL DEF Spec
<1> QED
  BY <1>1, StepForward, UpdatesIInv, PTL DEF Spec, OnlyForward
=============================================================================
