--------------------------- MODULE ApprovalCards ---------------------------
(***************************************************************************)
(* The one approval card of the terminal: main.ts keeps a single slot,     *)
(* pendingPermission.  A tool call of this process opens its own prompt    *)
(* there ("local"), an ask that only the approval broker knows is put      *)
(* there by permissions/broker-approval-card.ts ("broker"), and applying a *)
(* diff from the transcript asks without a broker record ("direct").       *)
(* Keys go to the card first (shell/blocking-input.ts).                    *)
(*                                                                         *)
(* A microtask (queueMicrotask) runs before the next key or timer, but     *)
(* other code may publish before it does.  What the user means by a key is *)
(* the card that had settled on the screen when it was pressed.            *)
(***************************************************************************)
EXTENDS Naturals, Sequences

CONSTANTS Asks,      \* approval requests
          Origin,    \* "local", "broker" or "direct" of each
          Shape,     \* "plain", "tiers", "hunks" or "exec" of each
          None

ASSUME ApprovalAssumption ==
    /\ Origin \in [Asks -> {"local", "broker", "direct"}]
    /\ Shape \in [Asks -> {"plain", "tiers", "hunks", "exec"}]

VARIABLES
    status,    \* the broker's record of each ask (for a direct ask, its promise)
    card,      \* pendingPermission
    deferred,  \* asks whose card a queued microtask will try to open
    sent,      \* an answer given at a card, on its way to the broker, and by which way
    hit,       \* a key pressed and not yet read, and the ask it was meant for
    aborted,   \* the turn was killed at a card
    excused    \* history: asks the slot could not hold, or whose answer was refused

vars == <<status, card, deferred, sent, hit, aborted, excused>>

\* The keys a card tells apart: "digit" names one of the tiers listed, "arrow" is
\* any arrow or tab, "backspace" either of its codes, "letter" any other text.
Keys == {"y", "a", "n", "d", "digit", "space", "enter", "esc", "ctrlc",
         "arrow", "backspace", "letter"}
Card == [ask : Asks, via : {"prompt", "broker"}, fresh : BOOLEAN,
         reply : {"no", "reason", "answer"}, submenu : BOOLEAN]

Hit == [key : Keys, aim : Asks \cup {None}]

ASSUME NoneAssumption == None \notin Asks /\ None \notin Card /\ None \notin Hit
                         /\ None \notin {"prompt", "broker"}

TypeOK ==
    /\ status \in [Asks -> {"new", "pending", "claimed", "settled"}]
    /\ card \in Card \cup {None}
    /\ deferred \in Seq(Asks)
    /\ sent \in [Asks -> {"prompt", "broker", None}]
    /\ hit \in Hit \cup {None}
    /\ aborted \in BOOLEAN
    /\ excused \subseteq Asks

Open(a) == status[a] \in {"pending", "claimed"}
Shows(a) == card # None /\ card.ask = a
\* A card is up and past the settle window: it reads keys.
Reads == IF card = None THEN FALSE ELSE ~card.fresh
Quiet == deferred = <<>>

Init ==
    /\ status = [a \in Asks |-> "new"]
    /\ card = None
    /\ deferred = <<>>
    /\ sent = [a \in Asks |-> None]
    /\ hit = None
    /\ aborted = FALSE
    /\ excused = {}

----------------------------------------------------------------------------
(* Opening a card *)

\* The card as it opens: unanswerable for a moment, a running command's question
\* straight in answer mode.
Opened(a, via) ==
    [ask |-> a, via |-> via, fresh |-> TRUE,
     reply |-> IF Shape[a] = "exec" THEN "answer" ELSE "no",
     submenu |-> FALSE]

\* A prompt takes the slot whether or not a card is in it.
Prompt(a) ==
    /\ card' = Opened(a, "prompt")
    /\ excused' = IF card = None THEN excused ELSE excused \cup {card.ask}

\* Mutant: an ask in the broker is left to the other surfaces.
TellNothing(a) == UNCHANGED deferred
\* The broker tells that a is open: the card of a stays, else one is tried for
\* in a microtask.
TellOpen(a) == deferred' = IF Shows(a) THEN deferred ELSE Append(deferred, a)

\* The broker publishes a local ask and then calls its prompt.
RaiseLocal(a) ==
    /\ Origin[a] = "local"
    /\ status[a] = "new"
    /\ status' = [status EXCEPT ![a] = "pending"]
    /\ TellOpen(a)
    /\ Prompt(a)
    /\ UNCHANGED <<sent, hit, aborted>>

RaiseDirect(a) ==
    /\ Origin[a] = "direct"
    /\ status[a] = "new"
    /\ status' = [status EXCEPT ![a] = "pending"]
    /\ Prompt(a)
    /\ UNCHANGED <<deferred, sent, hit, aborted>>

RaiseBroker(a) ==
    /\ Origin[a] = "broker"
    /\ status[a] = "new"
    /\ status' = [status EXCEPT ![a] = "pending"]
    /\ TellOpen(a)
    /\ UNCHANGED <<card, sent, hit, aborted, excused>>

\* Mutants of the microtask: it replaces a card, trusts the status it was queued
\* with, or leaves out when the card opened.
DeferredReplaces(a) ==
    /\ card' = IF Open(a) THEN Opened(a, "broker") ELSE card
    /\ UNCHANGED excused
DeferredTrusts(a) ==
    /\ card' = IF card = None THEN Opened(a, "broker") ELSE card
    /\ UNCHANGED excused
DeferredAtOnce(a) ==
    /\ card' = IF card = None /\ Open(a)
               THEN [Opened(a, "broker") EXCEPT !.fresh = FALSE] ELSE card
    /\ UNCHANGED excused
\* The microtask: only into an empty slot, only for an ask that is still open.
OpenDeferred(a) ==
    /\ card' = IF card = None /\ Open(a) THEN Opened(a, "broker") ELSE card
    /\ excused' = IF card # None /\ ~Shows(a) THEN excused \cup {a} ELSE excused

RunDeferred ==
    /\ deferred # <<>>
    /\ OpenDeferred(Head(deferred))
    /\ deferred' = Tail(deferred)
    /\ UNCHANGED <<status, sent, hit, aborted>>

----------------------------------------------------------------------------
(* The broker, told by other surfaces and by the answers given here *)

Claim(a) ==
    /\ Origin[a] # "direct"
    /\ status[a] = "pending"
    /\ status' = [status EXCEPT ![a] = "claimed"]
    /\ TellOpen(a)
    /\ UNCHANGED <<card, sent, hit, aborted, excused>>

\* The record of a is settled: its card, if up, is cleared.
ClearCard(a) == card' = IF Shows(a) THEN None ELSE card
SettleRecord(a) ==
    /\ status' = [status EXCEPT ![a] = "settled"]
    /\ ClearCard(a)

DecideElsewhere(a) ==
    /\ Origin[a] # "direct"
    /\ Open(a)
    /\ SettleRecord(a)
    /\ UNCHANGED <<deferred, sent, hit, aborted, excused>>

\* An answer reaches the broker; one that comes after another is ignored.
AnswerArrives(a) ==
    /\ sent[a] # None
    /\ sent' = [sent EXCEPT ![a] = None]
    /\ IF Open(a) THEN SettleRecord(a) ELSE UNCHANGED <<status, card>>
    /\ UNCHANGED <<deferred, hit, aborted, excused>>

\* resolveApproval rejects and the card's catch swallows it.
AnswerRefused(a) ==
    /\ sent[a] = "broker"
    /\ Open(a)
    /\ sent' = [sent EXCEPT ![a] = None]
    /\ excused' = excused \cup {a}
    /\ UNCHANGED <<status, card, deferred, hit, aborted>>

----------------------------------------------------------------------------
(* Keys *)

\* APPROVAL_INPUT_DEBOUNCE_MS has passed; a key pressed before the card came is
\* read within that time.
SettleWindow ==
    /\ Quiet
    /\ hit = None
    /\ card # None
    /\ card.fresh
    /\ card' = [card EXCEPT !.fresh = FALSE]
    /\ UNCHANGED <<status, deferred, sent, hit, aborted, excused>>

Press(k) ==
    /\ Quiet
    /\ hit = None
    /\ hit' = [key |-> k, aim |-> IF Reads THEN card.ask ELSE None]
    /\ UNCHANGED <<status, card, deferred, sent, aborted, excused>>

Hunks(c) == Shape[c.ask] = "hunks"
Plain(c) == ~Hunks(c) /\ c.reply = "no"
NamesTier(c, k) == k = "digit" /\ Shape[c.ask] = "tiers"

\* What a key may do to the card c: approve, deny (Ctrl+C anywhere and any denial
\* of hunks kills the turn too), or leave one of the cards Edited(c, k).  Which
\* button the arrows have chosen, which hunks are picked and whether something
\* has been typed are left open: Enter presses any button, applies or finds
\* nothing picked, Escape clears an answer or declines.
Approves(c, k) ==
    \/ k = "enter" /\ c.reply # "reason"
    \/ Hunks(c) /\ k = "y"
    \/ Plain(c) /\ (k \in {"y", "a"} \/ NamesTier(c, k))
Denies(c, k) ==
    \/ k = "ctrlc"
    \/ Hunks(c) /\ k \in {"n", "esc", "enter"}
    \/ c.reply = "reason" /\ k = "enter"
    \/ c.reply = "answer" /\ k = "esc"
    \/ Plain(c) /\ (k = "n" \/ (k = "enter" /\ ~c.submenu))
Aborts(c, k) == k = "ctrlc" \/ Hunks(c)
Edited(c, k) ==
    CASE k = "ctrlc" -> {}
      [] Hunks(c) -> IF k \in {"y", "n", "esc"} THEN {} ELSE {c}
      [] c.reply = "answer" -> IF k = "enter" THEN {} ELSE {c}
      [] c.reply = "reason" -> IF k = "enter" THEN {}
                               ELSE {IF k = "esc" THEN [c EXCEPT !.reply = "no"] ELSE c}
      [] k \in {"y", "a", "n"} \/ NamesTier(c, k) -> {}
      [] k \in {"letter", "space", "digit"} -> {[c EXCEPT !.reply = "reason"]}
      [] k = "backspace" -> {c, [c EXCEPT !.reply = "reason"]}
      [] k = "enter" -> IF c.submenu \/ Shape[c.ask] # "tiers" THEN {}
                        ELSE {[c EXCEPT !.submenu = TRUE]}
      [] k = "esc" -> {[c EXCEPT !.submenu = FALSE]}
      [] OTHER -> {c}

\* A key is read with no card, or within the settle window: it does not answer.
KeyElsewhere ==
    /\ Quiet
    /\ hit # None
    /\ ~Reads
    /\ hit' = None
    /\ UNCHANGED <<status, card, deferred, sent, aborted, excused>>

KeyEdits ==
    /\ Quiet
    /\ hit # None
    /\ Reads
    /\ card' \in Edited(card, hit.key)
    /\ hit' = None
    /\ UNCHANGED <<status, deferred, sent, aborted, excused>>

\* The card is answered and leaves the slot.  The promise of a direct ask settles
\* at once, a broker record when the broker has taken the answer.
KeyAnswers ==
    /\ Quiet
    /\ hit # None
    /\ Reads
    /\ \/ Approves(card, hit.key) /\ UNCHANGED aborted
       \/ Denies(card, hit.key) /\ aborted' = (aborted \/ Aborts(card, hit.key))
    /\ sent' = IF Origin[card.ask] = "direct" THEN sent
               ELSE [sent EXCEPT ![card.ask] = card.via]
    /\ status' = IF Origin[card.ask] = "direct"
                 THEN [status EXCEPT ![card.ask] = "settled"] ELSE status
    /\ card' = None
    /\ hit' = None
    /\ UNCHANGED <<deferred, excused>>

Next ==
    \/ \E a \in Asks : \/ RaiseLocal(a)
                       \/ RaiseDirect(a)
                       \/ RaiseBroker(a)
                       \/ Claim(a)
                       \/ DecideElsewhere(a)
                       \/ AnswerArrives(a)
                       \/ AnswerRefused(a)
    \/ RunDeferred
    \/ SettleWindow
    \/ \E k \in Keys : Press(k)
    \/ KeyElsewhere
    \/ KeyEdits
    \/ KeyAnswers

Spec == Init /\ [][Next]_vars
----------------------------------------------------------------------------
(* The card on screen asks something that is still to be decided: another     *)
(* surface's decision takes it down, and a microtask queued before that       *)
(* decision does not put it up again (broker-approval-card.ts:174-183).       *)
CardIsOpen == card # None => Open(card.ask)

(* Nothing is answered, and no turn is killed, by a key that was meant for    *)
(* something else: not by text typed before the card came, nor by a key       *)
(* pressed at a card that was replaced while the key was on its way           *)
(* (blocking-input.ts:89-97).                                                 *)
AnswersCardSeen ==
    [][(hit # None /\ hit' = None /\ <<status, sent, aborted>>' # <<status, sent, aborted>>)
            => card # None /\ hit.aim = card.ask]_vars

(* Only a prompt of this process may take the place of a card the user is     *)
(* reading; the broker's asks find the slot empty or leave it alone, however  *)
(* many were published at once (broker-approval-card.ts:180-182).             *)
CardNotStolen ==
    [][(card # None /\ card' # None /\ card'.ask # card.ask)
            => /\ card'.via = "prompt"
               /\ status[card'.ask] = "new"]_vars

(* An ask that never met another card, and whose answer was not refused, is   *)
(* on screen until it is answered, whichever of its publications, microtasks  *)
(* and prompts came first.                                                    *)
LoneAskIsShown ==
    \A a \in Asks : (Quiet /\ Open(a) /\ sent[a] = None /\ a \notin excused) => Shows(a)

(* "OTHER broker asks waiting behind this one" (prompt-card.ts:68): when no   *)
(* card is up, nobody is waiting for one.                                     *)
NoHiddenAsk ==
    (Quiet /\ card = None) => \A a \in Asks : Open(a) => sent[a] # None
============================================================================
