--------------------------- MODULE InstalledFiles ---------------------------
(***************************************************************************)
(* The pair of files of a binary install, the program and the vector addon  *)
(* beside it, with the copies kept for a rollback, and what the user is     *)
(* promised of them, whoever replaces them and how.                         *)
(***************************************************************************)
EXTENDS Naturals

CONSTANTS
    Processes,    \* terminals
    MaxVersion,   \* bound on releases
    FirstAddon    \* the first release that ships the addon

ASSUME VersionsAssumption == MaxVersion \in Nat \ {0} /\ FirstAddon \in Nat \ {0}

Files == {"app", "addon"}
Versions == 1 .. MaxVersion
Nothing == 0

VARIABLES
    live,      \* version of the installed file, or Nothing
    previous,  \* version of <path>.previous, or Nothing
    job,       \* applyUpdate of a process: "none", "resolve", "download", "swap"
    said       \* "deferred" from that line until the user applies an update

installed == <<live, previous>>
Swapping(p) == job[p] = "swap"
-----------------------------------------------------------------------------
(* "update deferred" is true: the process that said it replaces no file of  *)
(* its own accord afterwards (launch-auto-update.ts:21-27).                 *)
DeferredIsTrue == \A p \in Processes : said[p] = "deferred" => ~Swapping(p)

(* Between swaps no program runs beside an addon older than itself          *)
(* (update-runtime.ts:312-314), also after rollbacks, and in whatever order *)
(* several terminals install releases that ship the addon.                  *)
NoStaleAddon ==
    (\A p \in Processes : ~Swapping(p)) =>
        live["app"] # Nothing /\ live["addon"] \in {Nothing} \cup live["app"] .. MaxVersion

(* What is kept for a rollback is another version than the installed one    *)
(* (update-runtime.ts:19-23).  It is not so: two terminals started together *)
(* after a release both swap, and the second keeps what the first installed.*)
KeepsAnother == previous["app"] # Nothing => previous["app"] # live["app"]
=============================================================================
