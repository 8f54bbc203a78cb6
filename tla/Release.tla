------------------------------ MODULE Release ------------------------------
(***************************************************************************)
(* What the updater makes of a release (app/src/ui/updater.cpp:427-506):   *)
(* is it newer, and may its installer be fetched.  The answer of the       *)
(* GitHub API is taken as parsed; a version is the text the publish script *)
(* puts into the tag (external), compared character by character.          *)
(*                                                                         *)
(* A character of a tag is a digit, Dot, LetterV, or any other.  A         *)
(* component has at most nine digits: no long of the code overflows.       *)
(***************************************************************************)
EXTENDS Integers, Sequences, SequencesExt

Digit == 0 .. 9
Dot == 10
LetterV == 11

-----------------------------------------------------------------------------
\* Versions.

\* The decimal digits of a number.
Decimal[n \in Nat] == IF n < 10 THEN <<n>> ELSE Append(Decimal[n \div 10], n % 10)

\* publish-release.ps1: the version of app/CMakeLists.txt, and the tag v<version>.
VersionText(n) == Decimal[n[1]] \o <<Dot>> \o Decimal[n[2]] \o <<Dot>> \o Decimal[n[3]]
TagOf(n) == <<LetterV>> \o VersionText(n)

\* checkForUpdate: the tag without its letter.
VersionOfTag(tag) == IF tag # <<>> /\ tag[1] = LetterV THEN Tail(tag) ELSE tag

\* One more character of a version: a digit counts, a dot opens the next component, anything
\* else hides the rest.
NextCharacter(read, ch) ==
  IF ~read.open THEN read
  ELSE IF ch \in Digit
       THEN [read EXCEPT !.parts[Len(read.parts)] = @ * 10 + ch]
       ELSE IF ch = Dot THEN [read EXCEPT !.parts = Append(@, 0)]
            ELSE [read EXCEPT !.open = FALSE]

Components(text) == FoldLeft(NextCharacter, [parts |-> <<0>>, open |-> TRUE], text).parts

\* Four components count; a missing one is zero.
Component(text, k) == IF k <= Len(Components(text)) THEN Components(text)[k] ELSE 0

\* Mutant: the texts are compared, not the numbers.
CompareTexts(a, b) ==
  LET common == Min({Len(a), Len(b)})
      differ == {k \in 1 .. common : a[k] # b[k]}
  IN  IF differ = {} THEN Len(a) - Len(b) ELSE a[Min(differ)] - b[Min(differ)]

\* compareVersions: the first component that differs decides.
CompareVersions(a, b) ==
  LET differ == {k \in 1 .. 4 : Component(a, k) # Component(b, k)}
  IN  IF differ = {} THEN 0
      ELSE IF Component(a, Min(differ)) < Component(b, Min(differ)) THEN -1 ELSE 1

-----------------------------------------------------------------------------
\* Assets.  A URL is a host and a file; GitHub names an asset after its file.  A file is the
\* name of an installer, and that name with ".sha256" behind it.

Installer(host, name) == [host |-> host, file |-> name, kind |-> "exe"]
Checksum(host, name) == [host |-> host, file |-> name, kind |-> "sha256"]

\* isAllowedUpdateUrl: github.com and its two download hosts.
IsAllowedUpdateUrl(host) == host = "allowed"

\* The first asset whose URL ends in .exe.
Exes(assets) == SelectSeq(assets, LAMBDA a : a.kind = "exe")

\* Mutant: any checksum will do.
HasAnyChecksum(assets, exe) == \E a \in Range(assets) : a.kind = "sha256"

\* <installer>.sha256, at the installer's URL + ".sha256".
HasChecksum(assets, exe) ==
  \E i \in DOMAIN assets : assets[i] = Checksum(exe.host, exe.file)

\* checkForUpdate: what a release has to offer: an installer, its page, or nothing ("refused":
\* an address off the list, or an installer without a checksum).
Judge(release) ==
  LET exes == Exes(release.assets)
  IN  IF ~IsAllowedUpdateUrl(release.page) \/ (exes # <<>> /\ ~IsAllowedUpdateUrl(exes[1].host))
      THEN "refused"
      ELSE IF exes = <<>> THEN "page"
           ELSE IF HasChecksum(release.assets, exes[1]) THEN "installer" ELSE "refused"
=============================================================================
