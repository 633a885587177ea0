------------------------- MODULE SessionDurability -------------------------
(***************************************************************************)
(* How a conversation survives its process.  Each session has up to three   *)
(* files: the session-store snapshot, written after every completed turn;   *)
(* the transcript journal, which fills the gap up to the next snapshot; and *)
(* the recovery file, rewritten every minute and offered at the next launch.*)
(* A liveness marker per session says which running process has it open.    *)
(*                                                                          *)
(* Several terminals share the files.  Each process is one JavaScript       *)
(* thread: an action is one synchronous stretch of it, and a crash          *)
(* (SIGKILL, a termination signal, an uncaught exception: none of them      *)
(* writes a session file) can come between any two.                         *)
(*                                                                          *)
(* The file formats, their timestamps and the SDK's own crash window        *)
(* around a write are abstracted: a file is the set of messages it would    *)
(* bring back, and which of a session's files is the newer one.             *)
(***************************************************************************)
EXTENDS FiniteSets, FiniteSetsExt

CONSTANTS
    Procs,      \* terminals; a crashed one may be launched again
    Sessions,   \* session ids
    Turns,      \* user turns, each submitted once
    None,       \* no file, no session, no turn
    Faults      \* what goes wrong in this run (FaultKinds)

FaultKinds ==
    {"save",        \* a session-store write fails
     "append",      \* a journal append fails
     "dieApplying", \* a recovered conversation is not stored once its file is gone
     "lateMarker",  \* a second terminal opens a session inside the first one's
                    \* autosave interval
     "staleOffer",  \* a recovery point is answered after another terminal has
                    \* opened, or opened and left, its session
     "askedTwice",  \* a launch's second question is answered about the session
                    \* that the answer to its first one opened
     "force",       \* the user resumes a session another terminal has marked open
     "load",        \* /load or the /sessions picker shows another session here
     "sameName",    \* /session save under the name of an existing session
     "midTurn",     \* the session is switched while a turn is running
     "keepThenOpen",\* the offer for a named session is declined, then that
                    \* session is opened from its store
     "openPastPoint", \* a session is opened from its store past a recovery
                      \* point that holds more
     "reopenRemoved"} \* a session whose recovery point was removed is opened

ASSUME NoneAssumption == None \notin Sessions \cup Turns \cup Procs
ASSUME NoFileAssumption == \A c \in SUBSET (Turns \X {"asked", "answered"}) : None # c
ASSUME FaultsAssumption == Faults \subseteq FaultKinds

VARIABLES
    shelf,    \* the files of each session
    marker,   \* the running process a session's liveness marker names
    ledger,   \* sessions with a recorded removal (recovery-decisions.json)
    pc,       \* where each process is in its life
    sid,      \* runtime.sessionId
    conv,     \* the messages of the live conversation
    turn,     \* the turn in flight
    offer,    \* the session the recovery modal on screen is about
    queued,   \* the session the modal waiting behind it is about
    talk,     \* history: the turns that belong to each session's conversation
    secured,  \* history: completed turns the program owes to a later resume
    owed,     \* history: what each session's recovery point owes the user
    promised  \* history: recovery points the user was told will be offered again

files == <<shelf, marker, ledger>>
memory == <<pc, sid, conv, turn, offer, queued>>
history == <<talk, secured, owed, promised>>
vars == <<files, memory, history>>

Files == {"store", "journal", "recovery"}
Messages == Turns \X {"asked", "answered"}
Contents == {None} \cup (SUBSET Messages)

LifePhases == {"down", "launched", "naming", "boot", "asking", "applyingNamed", "up", "applying",
               "exiting"}

Running == {p \in Procs : pc[p] # "down"}
Holders(s) == {p \in Running : sid[p] = s}

-----------------------------------------------------------------------------
(***************************************************************************)
(* One session's files.  newer holds the pairs <<f, g>> of files where f    *)
(* was written after g.                                                     *)
(***************************************************************************)
Shelf == [store : Contents, journal : Contents, recovery : Contents,
          newer : SUBSET (Files \X Files)]

Bare == [store |-> None, journal |-> None, recovery |-> None, newer |-> {}]

Written(d, f, c) ==
    [d EXCEPT ![f] = c,
              !.newer = {pr \in @ : pr[1] # f /\ pr[2] # f} \cup ({f} \X {g \in Files \ {f} : d[g] # None})]

Deleted(d, f) ==
    [d EXCEPT ![f] = None, !.newer = {pr \in @ : pr[1] # f /\ pr[2] # f}]

Fresher(d, f, g) == d[f] # None /\ (d[g] = None \/ <<f, g>> \in d.newer)

\* What a session's store and journal bring back: journal records that
\* post-date the snapshot replace it, the last record being the whole
\* conversation.
Resumed(d) == IF Fresher(d, "journal", "store") THEN d.journal ELSE d.store

\* replayJournalForSession stores what it replayed and rotates the journal.
Folded(d, base) ==
    IF Fresher(d, "journal", base)
    THEN Deleted(Written(d, "store", d.journal), "journal")
    ELSE d

\* The SDK offers a snapshot only if it is newer than its own session's store.
Offerable(d) == Fresher(d, "recovery", "store")

TurnsIn(c) == IF c = None THEN {} ELSE {m[1] : m \in c}

-----------------------------------------------------------------------------
TypeOK ==
    /\ shelf \in [Sessions -> Shelf]
    /\ marker \in [Sessions -> Procs \cup {None}]
    /\ ledger \subseteq Sessions
    /\ pc \in [Procs -> LifePhases]
    /\ sid \in [Procs -> Sessions \cup {None}]
    /\ conv \in [Procs -> SUBSET Messages]
    /\ turn \in [Procs -> Turns \cup {None}]
    /\ offer \in [Procs -> Sessions \cup {None}]
    /\ queued \in [Procs -> Sessions \cup {None}]
    /\ talk \in [Sessions -> SUBSET Turns]
    /\ secured \subseteq Turns
    /\ owed \in [Sessions -> SUBSET Messages]
    /\ promised \in [Sessions -> Contents]
    /\ \A p \in Procs :
         /\ pc[p] = "down" <=> sid[p] = None
         /\ turn[p] # None => pc[p] = "up"
         /\ pc[p] \in {"naming", "asking", "applying", "applyingNamed"} => offer[p] # None
         /\ queued[p] # None => pc[p] \in {"asking", "applyingNamed"}
         /\ pc[p] \in {"down", "launched", "boot", "exiting"} => offer[p] = None

Init ==
    /\ shelf = [s \in Sessions |-> Bare]
    /\ marker = [s \in Sessions |-> None]
    /\ ledger = {}
    /\ pc = [p \in Procs |-> "down"]
    /\ sid = [p \in Procs |-> None]
    /\ conv = [p \in Procs |-> {}]
    /\ turn = [p \in Procs |-> None]
    /\ offer = [p \in Procs |-> None]
    /\ queued = [p \in Procs |-> None]
    /\ talk = [s \in Sessions |-> {}]
    /\ secured = {}
    /\ owed = [s \in Sessions |-> {}]
    /\ promised = [s \in Sessions |-> None]

-----------------------------------------------------------------------------
\* The marker of another process that still runs; a dead one's is stale.
NeverLive(p, s) == FALSE
Live(p, s) == marker[s] \notin {None, p}

\* Session ids are random: a new one is nobody's.
Unused(s) == shelf[s] = Bare /\ Holders(s) = {} /\ talk[s] = {} /\ s \notin ledger

\* The cases a run leaves out unless Faults names them.
Uncontended(p, s) ==
    {q \in Holders(s) \ {p} : marker[s] # q} # {} => "lateMarker" \in Faults
Foreseen(s, d) ==
    /\ s \in ledger => "reopenRemoved" \in Faults
    /\ promised[s] # None => "keepThenOpen" \in Faults
    /\ Offerable(d) /\ ~(d.recovery \subseteq Resumed(d)) => "openPastPoint" \in Faults

Forget(p) ==
    /\ pc' = [pc EXCEPT ![p] = "down"]
    /\ sid' = [sid EXCEPT ![p] = None]
    /\ conv' = [conv EXCEPT ![p] = {}]
    /\ turn' = [turn EXCEPT ![p] = None]
    /\ offer' = [offer EXCEPT ![p] = None]
    /\ queued' = [queued EXCEPT ![p] = None]

\* p's markers count for nothing once p is gone.
ClearMarkers(p, also) ==
    marker' = [s \in Sessions |-> IF marker[s] = p \/ s = also THEN None ELSE marker[s]]

(***************************************************************************)
(* resumeSessionCore: the store's conversation, then the journal's if it is *)
(* newer.  d is what s's files are just before.                             *)
(***************************************************************************)
OpenUnderOldId(p, s, d) ==
    /\ shelf' = [shelf EXCEPT ![s] = Folded(d, "store")]
    /\ conv' = [conv EXCEPT ![p] = Resumed(d)]
    /\ UNCHANGED sid
OpenFromStore(p, s, d) ==
    /\ shelf' = [shelf EXCEPT ![s] = Folded(d, "store")]
    /\ conv' = [conv EXCEPT ![p] = Resumed(d)]
    /\ sid' = [sid EXCEPT ![p] = s]

\* `/session resume s` without --force: nothing is opened when the store does
\* not have s or another terminal is known to have it open.
PlainResume(p, s, d) ==
    \/ /\ d.store # None /\ ~Live(p, s)
       /\ Uncontended(p, s) /\ Foreseen(s, d)
       /\ OpenFromStore(p, s, d)
    \/ /\ d.store = None \/ Live(p, s)
       /\ shelf' = [shelf EXCEPT ![s] = d]
       /\ UNCHANGED <<conv, sid>>

-----------------------------------------------------------------------------
(***************************************************************************)
(* Launch: a fresh session.  --continue and --resume then look for a        *)
(* recovery point of the named session: unless its removal is on record     *)
(* (the file is deleted) or another terminal has the session open, they ask *)
(* about it; with nothing to ask the session is opened from its store.      *)
(***************************************************************************)
Launch(p) ==
    /\ pc[p] = "down"
    /\ \E n \in Sessions : Unused(n) /\ sid' = [sid EXCEPT ![p] = n]
    /\ pc' = [pc EXCEPT ![p] = "launched"]
    /\ UNCHANGED <<files, conv, turn, offer, queued, history>>

\* findOfferableSnapshot: what a removal on record does to a snapshot.
DiscardUnasked(d, s) == IF Offerable(d) THEN Deleted(d, "recovery") ELSE d
Discarded(d, s) == IF Offerable(d) /\ s \in ledger THEN Deleted(d, "recovery") ELSE d

OfferNamed(p, s) ==
    LET d == Discarded(shelf[s], s) IN
    /\ pc[p] = "launched"
    /\ IF Offerable(d) /\ ~Live(p, s)
       THEN /\ pc' = [pc EXCEPT ![p] = "naming"]
            /\ offer' = [offer EXCEPT ![p] = s]
            /\ UNCHANGED <<shelf, conv, sid>>
       ELSE /\ pc' = [pc EXCEPT ![p] = "boot"]
            /\ PlainResume(p, s, d)
            /\ UNCHANGED offer
    /\ UNCHANGED <<marker, ledger, turn, queued, history>>

(***************************************************************************)
(* Nothing waits for that question: every launch goes on, in the same       *)
(* stretch, to look for the newest snapshot.  It may be any session's, the  *)
(* named one's included, or still inside the SDK's live-refresh window and  *)
(* so none.  answeredThisRun is still empty here and stops nothing.         *)
(* Snapshots with a removal on record are deleted on the way.  The modal    *)
(* opens, or waits behind the named question (the FIFO of                   *)
(* selection-modal-queue.ts), and the first liveness marker is written for  *)
(* the session the process has so far.                                      *)
(***************************************************************************)
BootOffer(p) ==
    /\ pc[p] \in {"launched", "naming", "boot"}
    /\ \E gone \in SUBSET {s \in ledger : Offerable(shelf[s])} :
         shelf' = [s \in Sessions |-> IF s \in gone THEN Discarded(shelf[s], s) ELSE shelf[s]]
    /\ \E s \in {x \in Sessions \ ledger : Offerable(shelf[x]) /\ ~Live(p, x)} \cup {None} :
         IF pc[p] = "naming"
         THEN queued' = [queued EXCEPT ![p] = s] /\ UNCHANGED offer
         ELSE offer' = [offer EXCEPT ![p] = s] /\ UNCHANGED queued
    /\ marker' = [marker EXCEPT ![sid[p]] = p]
    /\ pc' = [pc EXCEPT ![p] = IF @ = "naming" THEN "asking" ELSE "up"]
    /\ UNCHANGED <<ledger, sid, conv, turn, history>>

(***************************************************************************)
(* "Resume it": reading the snapshot retires the file and folds in journal  *)
(* records that post-date it; only then is the conversation stored.  With   *)
(* the file gone since it was offered nothing is changed.                   *)
(***************************************************************************)
Asked(p) == pc[p] \in {"asking", "up"} /\ offer[p] # None

\* Nobody opened the offered session while the question was on screen, nor did
\* the first answer move its store past the point.
StillOrphan(p) ==
    LET s == offer[p] IN
    /\ Holders(s) \ {p} # {} => "staleOffer" \in Faults
    /\ ~Offerable(shelf[s]) => (IF sid[p] = s THEN "askedTwice" ELSE "staleOffer") \in Faults

\* The first answer of this launch did not open the session.
NotOpenedHere(p) == sid[p] = offer[p] => "askedTwice" \in Faults

ReadAndRetire(d) == Deleted(Folded(d, "recovery"), "recovery")

AnswerResume(p) ==
    LET s == offer[p]  d == shelf[s] IN
    /\ Asked(p)
    /\ d.recovery # None
    /\ StillOrphan(p)
    /\ shelf' = [shelf EXCEPT ![s] = ReadAndRetire(d)]
    /\ conv' = [conv EXCEPT ![p] =
           IF Fresher(d, "journal", "recovery") THEN d.journal ELSE d.recovery]
    /\ sid' = [sid EXCEPT ![p] = s]
    /\ pc' = [pc EXCEPT ![p] = IF @ = "asking" THEN "applyingNamed" ELSE "applying"]
    /\ promised' = [promised EXCEPT ![s] = None]
    /\ UNCHANGED <<marker, ledger, turn, offer, queued, talk, secured, owed>>

\* The question is answered: the one that waited behind it comes on screen.
AfterOffer(p) ==
    /\ pc' = [pc EXCEPT ![p] = "up"]
    /\ offer' = [offer EXCEPT ![p] = queued[p]]
    /\ queued' = [queued EXCEPT ![p] = None]

StoreRecovered(p) ==
    LET s == offer[p] IN
    /\ pc[p] \in {"applying", "applyingNamed"}
    /\ shelf' = [shelf EXCEPT ![s] = Written(@, "store", conv[p])]
    /\ owed' = [owed EXCEPT ![s] = {}]
    /\ AfterOffer(p)
    /\ UNCHANGED <<marker, ledger, sid, conv, turn, talk, secured, promised>>

\* The write throws: the offer ends as though there had been none, and a named
\* session is opened from its store over what was recovered.
StoreRecoveredFails(p) ==
    LET s == offer[p] IN
    /\ "dieApplying" \in Faults
    /\ pc[p] \in {"applying", "applyingNamed"}
    /\ IF pc[p] = "applyingNamed"
       THEN PlainResume(p, s, shelf[s])
       ELSE UNCHANGED <<shelf, conv, sid>>
    /\ AfterOffer(p)
    /\ UNCHANGED <<marker, ledger, turn, history>>

\* What follows an answer that restored nothing, d being s's files now: the
\* named session is opened from its store.
WithoutIt(p, s, d) ==
    /\ AfterOffer(p)
    /\ IF pc[p] = "asking"
       THEN PlainResume(p, s, d)
       ELSE shelf' = [shelf EXCEPT ![s] = d] /\ UNCHANGED <<conv, sid>>

AnswerResumeGone(p) ==
    LET s == offer[p] IN
    /\ Asked(p)
    /\ shelf[s].recovery = None
    /\ WithoutIt(p, s, shelf[s])
    /\ UNCHANGED <<marker, ledger, turn, history>>

\* "Keep it", with its promise to offer the point again, or a dismissal.
AnswerKeep(p) ==
    LET s == offer[p] IN
    /\ Asked(p)
    /\ \E told \in BOOLEAN :
         /\ told => /\ StillOrphan(p) /\ NotOpenedHere(p)
                    /\ pc[p] = "asking" => "keepThenOpen" \in Faults
         /\ promised' = IF told THEN [promised EXCEPT ![s] = shelf[s].recovery] ELSE promised
    /\ WithoutIt(p, s, shelf[s])
    /\ UNCHANGED <<marker, ledger, turn, talk, secured, owed>>

AnswerRemove(p) ==
    LET s == offer[p] IN
    /\ Asked(p) /\ StillOrphan(p) /\ NotOpenedHere(p)
    /\ pc[p] = "asking" => "reopenRemoved" \in Faults
    /\ ledger' = ledger \cup {s}
    /\ owed' = [owed EXCEPT ![s] = {}]
    /\ promised' = [promised EXCEPT ![s] = None]
    /\ WithoutIt(p, s, Deleted(shelf[s], "recovery"))
    /\ UNCHANGED <<marker, turn, talk, secured>>

-----------------------------------------------------------------------------
(***************************************************************************)
(* Turns.  A submitted turn is journalled with the conversation so far; a   *)
(* completed one is stored and the journal rotated, or journalled when the  *)
(* store refuses; a failed or cancelled one writes nothing.                 *)
(***************************************************************************)
Idle(p) == pc[p] = "up" /\ offer[p] = None

Submit(p, t) ==
    LET now == conv[p] \cup {<<t, "asked">>} IN
    /\ Idle(p) /\ turn[p] = None
    /\ \A s \in Sessions : t \notin talk[s]
    /\ conv' = [conv EXCEPT ![p] = now]
    /\ turn' = [turn EXCEPT ![p] = t]
    /\ talk' = [talk EXCEPT ![sid[p]] = @ \cup {t}]
    /\ \/ shelf' = [shelf EXCEPT ![sid[p]] = Written(@, "journal", now)]
       \/ "append" \in Faults /\ UNCHANGED shelf
    /\ UNCHANGED <<marker, ledger, pc, sid, offer, queued, secured, owed, promised>>

Answered(p) == conv[p] \cup {<<turn[p], "answered">>}

StoredAndRotated(d, c) == Deleted(Written(d, "store", c), "journal")

TurnCompleted(p) ==
    LET s == sid[p]  now == Answered(p) IN
    /\ pc[p] = "up" /\ turn[p] # None
    /\ conv' = [conv EXCEPT ![p] = now]
    /\ turn' = [turn EXCEPT ![p] = None]
    /\ \/ /\ shelf' = [shelf EXCEPT ![s] = StoredAndRotated(@, now)]
          /\ secured' = secured \cup {turn[p]}
          /\ owed' = [owed EXCEPT ![s] = {}]
       \/ /\ "save" \in Faults
          /\ shelf' = [shelf EXCEPT ![s] = Written(@, "journal", now)]
          \* a session the store has never had cannot be resumed (a known limit)
          /\ secured' = IF shelf[s].store # None THEN secured \cup {turn[p]} ELSE secured
          /\ UNCHANGED owed
       \/ /\ {"save", "append"} \subseteq Faults
          /\ UNCHANGED <<shelf, secured, owed>>
    /\ UNCHANGED <<marker, ledger, pc, sid, offer, queued, talk, promised>>

TurnFailed(p) ==
    /\ pc[p] = "up" /\ turn[p] # None
    /\ turn' = [turn EXCEPT ![p] = None]
    /\ UNCHANGED <<files, pc, sid, conv, offer, queued, history>>

\* The minute timer: an empty conversation is not snapshotted.
Autosave(p) ==
    LET s == sid[p] IN
    /\ pc[p] \in {"asking", "up"}
    /\ marker' = [marker EXCEPT ![s] = p]
    /\ IF conv[p] = {}
       THEN UNCHANGED <<shelf, owed>>
       ELSE /\ shelf' = [shelf EXCEPT ![s] = Written(@, "recovery", conv[p])]
            /\ owed' = [owed EXCEPT ![s] = conv[p]]
    /\ UNCHANGED <<ledger, memory, talk, secured, promised>>

-----------------------------------------------------------------------------
(***************************************************************************)
(* Commands that change which conversation a process has.                   *)
(***************************************************************************)
Switchable(p) == Idle(p) /\ (turn[p] # None => "midTurn" \in Faults)

Resume(p, s) ==
    /\ Switchable(p)
    /\ shelf[s].store # None
    /\ Live(p, s) => "force" \in Faults
    /\ Uncontended(p, s) /\ Foreseen(s, shelf[s])
    /\ OpenFromStore(p, s, shelf[s])
    /\ UNCHANGED <<marker, ledger, pc, turn, offer, queued, history>>

StoreAs(p, s) ==
    /\ shelf' = [shelf EXCEPT ![s] = Written(@, "store", conv[p])]
    /\ talk' = [talk EXCEPT ![s] = @ \cup TurnsIn(conv[p])]

\* /session fork: a new id.  /session save: the title as a name, which may be
\* this session's id or, unnoticed, another's.
Fork(p, n) ==
    /\ Idle(p)
    /\ Unused(n) \/ n = sid[p] \/ "sameName" \in Faults
    /\ StoreAs(p, n)
    /\ sid' = [sid EXCEPT ![p] = n]
    /\ owed' = [owed EXCEPT ![n] = {}]
    /\ UNCHANGED <<marker, ledger, pc, conv, turn, offer, queued, secured, promised>>

\* /clear, refused while a turn runs: the conversation is stored under an id
\* of its own and the session starts over; a failed store changes nothing.
ClearWithoutCopy(p, n) == UNCHANGED <<shelf, talk>>
CopyFirst(p, n) == StoreAs(p, n)

Clear(p, n) ==
    /\ Idle(p) /\ turn[p] = None /\ conv[p] # {}
    /\ Unused(n)
    /\ CopyFirst(p, n)
    /\ conv' = [conv EXCEPT ![p] = {}]
    /\ owed' = [owed EXCEPT ![sid[p]] = {}, ![n] = owed[sid[p]]]
    /\ UNCHANGED <<marker, ledger, pc, sid, turn, offer, queued, secured, promised>>

\* /load and the /sessions picker: s's store is shown, the session stays.  The
\* next autosave replaces the recovery point by what is shown.
Load(p, s) ==
    /\ "load" \in Faults
    /\ Switchable(p)
    /\ shelf[s].store # None
    /\ conv' = [conv EXCEPT ![p] = shelf[s].store]
    /\ owed' = [owed EXCEPT ![sid[p]] = {}]
    /\ UNCHANGED <<files, pc, sid, turn, offer, queued, talk, secured, promised>>

-----------------------------------------------------------------------------
(***************************************************************************)
(* The end of a process.  exitApp takes the conversation and races its      *)
(* store against a timeout; only a confirmed store lets the recovery file   *)
(* go.  A crash or a signal leaves every file as it is.                     *)
(***************************************************************************)
ExitApp(p) ==
    /\ pc[p] \in {"asking", "up"}
    /\ pc' = [pc EXCEPT ![p] = "exiting"]
    /\ turn' = [turn EXCEPT ![p] = None]
    /\ offer' = [offer EXCEPT ![p] = None]
    /\ queued' = [queued EXCEPT ![p] = None]
    /\ UNCHANGED <<files, sid, conv, history>>

\* Whose recovery file a clean exit deletes.
EverySession(s) == Sessions
OwnSession(s) == {s}

ExitSaved(p) ==
    LET s == sid[p]
        saved == [shelf EXCEPT ![s] = Written(@, "store", conv[p])]
    IN
    /\ pc[p] = "exiting"
    /\ shelf' = [x \in Sessions |->
           IF x \in OwnSession(s) THEN Deleted(saved[x], "recovery") ELSE saved[x]]
    /\ owed' = [owed EXCEPT ![s] = {}]
    /\ ClearMarkers(p, s)
    /\ Forget(p)
    /\ UNCHANGED <<ledger, talk, secured, promised>>

\* The timeout wins, whether or not the store was written by then.
DropRecovery(d) == Deleted(d, "recovery")
KeepRecovery(d) == d

ExitTimedOut(p) ==
    LET s == sid[p] IN
    /\ pc[p] = "exiting"
    /\ \E wrote \in BOOLEAN :
         /\ shelf' = [shelf EXCEPT
                ![s] = KeepRecovery(IF wrote THEN Written(@, "store", conv[p]) ELSE @)]
         /\ owed' = IF wrote THEN [owed EXCEPT ![s] = {}] ELSE owed
    /\ ClearMarkers(p, s)
    /\ Forget(p)
    /\ UNCHANGED <<ledger, talk, secured, promised>>

Crash(p) ==
    /\ pc[p] # "down"
    /\ pc[p] \in {"applying", "applyingNamed"} => "dieApplying" \in Faults
    /\ ClearMarkers(p, None)
    /\ Forget(p)
    /\ UNCHANGED <<shelf, ledger, history>>

-----------------------------------------------------------------------------
Offers(p) ==
    \/ BootOffer(p) \/ AnswerResume(p) \/ StoreRecovered(p) \/ StoreRecoveredFails(p)
    \/ AnswerResumeGone(p) \/ AnswerKeep(p) \/ AnswerRemove(p)

Next ==
    \E p \in Procs :
        \/ Launch(p) \/ Offers(p)
        \/ TurnCompleted(p) \/ TurnFailed(p) \/ Autosave(p)
        \/ ExitApp(p) \/ ExitSaved(p) \/ ExitTimedOut(p) \/ Crash(p)
        \/ \E t \in Turns : Submit(p, t)
        \/ \E s \in Sessions :
             OfferNamed(p, s) \/ Resume(p, s) \/ Fork(p, s) \/ Clear(p, s) \/ Load(p, s)

Spec == Init /\ [][Next]_vars

-----------------------------------------------------------------------------
\* What a resume of any session would bring back from its store and journal.
Resumable == UNION {Resumed(shelf[s]) : s \in {x \in Sessions : shelf[x].store # None}}

(***************************************************************************)
(* A turn that completed, and was stored or journalled, is brought back by  *)
(* the resume of some session whatever is switched, forked, cleared,        *)
(* recovered, crashed or exited afterwards (core/turn-event-wiring.ts,      *)
(* core/session-resume-core.ts).                                            *)
(***************************************************************************)
CompletedTurnsSurvive == \A t \in secured : <<t, "answered">> \in Resumable

(***************************************************************************)
(* Two running processes never hold the same session unless the user forced *)
(* it (the liveness checks of /session resume and of the recovery offer).   *)
(***************************************************************************)
OneHolder == \A s \in Sessions : Cardinality(Holders(s)) <= 1

(***************************************************************************)
(* A resume of a session brings back only turns of that session's own       *)
(* conversation (the journal rebind of core/turn-event-wiring.ts).          *)
(***************************************************************************)
OwnConversationOnly ==
    \A s \in Sessions :
        shelf[s].store # None => TurnsIn(Resumed(shelf[s])) \subseteq talk[s]

(***************************************************************************)
(* What an autosave put aside and no later store replaced is still to be    *)
(* had, from the offer or from a running process, until the user removes it *)
(* (runtime/recovery-prompt.ts, runtime/process-lifecycle.ts).              *)
(***************************************************************************)
RecoveryPointSurvives ==
    \A s \in Sessions :
        \/ Offerable(shelf[s]) /\ s \notin ledger /\ owed[s] \subseteq shelf[s].recovery
        \/ owed[s] \subseteq Resumable \cup UNION {conv[p] : p \in Running}

(***************************************************************************)
(* A recovery point the user was told will be offered again is there,       *)
(* unchanged, until it is answered differently (RECOVERY_RETIRE_TITLE flow  *)
(* of runtime/recovery-prompt.ts).                                          *)
(***************************************************************************)
KeptIsOfferedAgain ==
    \A s \in Sessions : promised[s] # None =>
        /\ shelf[s].recovery = promised[s]
        /\ Offerable(shelf[s]) /\ s \notin ledger

(***************************************************************************)
(* A recovery point that would be offered goes away only when the user      *)
(* removes it, a store replaces it or a process takes its session up        *)
(* (runtime/recovery-prompt.ts).                                            *)
(***************************************************************************)
OnlyRemoveDeletes ==
    [][\A s \in Sessions :
         Offerable(shelf[s]) /\ shelf'[s].recovery = None =>
             owed'[s] = {} \/ \E p \in Procs : sid'[p] = s]_vars
=============================================================================
