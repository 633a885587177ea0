----------------------- MODULE WrfcPersistenceProofs -----------------------
(***************************************************************************)
(* For any chains, history bound and failing writes: with one terminal on   *)
(* the directory, what the resume notice says is on the file, is true, and  *)
(* no chain is forgotten.                                                   *)
(*                                                                          *)
(* The invariants say of a running terminal what it still knows of each     *)
(* chain of the file: it is listed, or recorded, or newer ends filled the   *)
(* history.                                                                 *)
(***************************************************************************)
EXTENDS WrfcPersistence, FiniteSetTheorems, TLAPS

\* One terminal at a time has the directory open.
Alone == \A t, u \in Terminals : t = u

\* History h does not need c any more, or has it with an end no earlier than x.
Safe(h, c, x) ==
    \/ c \in Over(h) /\ h[c].at >= x
    \/ \E S \in SUBSET Over(h) : Cardinality(S) = MaxHistory /\ \A o \in S : h[o].at >= x

-----------------------------------------------------------------------------
(***************************************************************************)
(* Records and listings.                                                    *)
(***************************************************************************)
LEMMA Records ==
    /\ Absent # Active /\ Absent.at = 0 /\ Active.at = 0
    /\ Absent \in Record /\ Active \in Record
    /\ \A n \in 1 .. MaxTime :
         Ended(n) \in Record /\ Ended(n) \notin {Absent, Active} /\ Ended(n).at = n
    /\ \A r \in Record : r.at \in 0 .. MaxTime
    /\ \A r \in Record : r \in {Absent, Active} => r.at = 0
<1>1. Absent.state = "absent" /\ Active.state = "active" /\ \A n : Ended(n).state = "ended"
    BY DEF Absent, Active, Ended
<1>2. Absent.at = 0 /\ Active.at = 0 /\ \A n : Ended(n).at = n
    BY DEF Absent, Active, Ended
<1>3. Absent # Active /\ \A n : Ended(n) \notin {Absent, Active}
    BY <1>1
<1>4. \A n \in 1 .. MaxTime : Ended(n) \in Record
    BY DEF Record
<1>5. \A r \in Record : r.at \in 0 .. MaxTime
    BY <1>2, MaxTimeAssumption DEF Record
<1>6. Absent \in Record /\ Active \in Record
    BY DEF Record
<1>7. QED
    BY <1>2, <1>3, <1>4, <1>5, <1>6

LEMMA OverFinite ==
    ASSUME NEW l
    PROVE  /\ Over(l) \subseteq Chains /\ IsFiniteSet(Over(l))
           /\ Cardinality(Over(l)) \in Nat
<1>1. Over(l) \subseteq Chains
    BY DEF Over, Present
<1>2. IsFiniteSet(Over(l))
    BY <1>1, ChainsAssumption, FS_Subset
<1>3. QED
    BY <1>1, <1>2, FS_CardinalityType

LEMMA NoneListed == None \in Listing /\ Over(None) = {} /\ Running(None) = {} /\ Present(None) = {}
BY Records DEF None, Listing, Over, Running, Present

LEMMA OverIs ==
    ASSUME NEW l, NEW c \in Chains
    PROVE  /\ c \in Over(l) <=> l[c] \notin {Absent, Active}
           /\ c \in Running(l) <=> l[c] = Active
           /\ c \in Present(l) <=> l[c] # Absent
BY DEF Over, Running, Present

LEMMA OnlyFits ==
    ASSUME NEW l \in Listing, NEW S
    PROVE  /\ Only(l, S) \in Listing
           /\ \A c \in Chains : Only(l, S)[c] = IF c \in S THEN l[c] ELSE Absent
BY Records DEF Only, Listing

LEMMA MergedFits ==
    ASSUME NEW l \in Listing, NEW h \in Listing
    PROVE  /\ Merged(l, h) \in Listing
           /\ \A c \in Chains : Merged(l, h)[c] = IF l[c] # Absent THEN l[c] ELSE h[c]
BY DEF Merged, Listing

(***************************************************************************)
(* What takeMostRecentTerminal keeps of a listing.                          *)
(***************************************************************************)
LEMMA RecentFits ==
    ASSUME NEW l \in Listing, NEW h \in MostRecent(l)
    PROVE  /\ h \in Listing /\ Running(h) = {}
           /\ Over(h) \subseteq Over(l) /\ Cardinality(Over(h)) <= MaxHistory
           /\ \A c \in Over(h) : h[c] = l[c]
           /\ \A c \in Chains \ Over(h) : h[c] = Absent
           /\ Over(h) = Over(l) \/ Cardinality(Over(h)) = MaxHistory
           /\ \A c \in Over(h), o \in Over(l) \ Over(h) : h[c].at >= l[o].at
<1>1. PICK S \in SUBSET Over(l) :
        /\ h = Only(l, S)
        /\ \/ Cardinality(S) = MaxHistory
           \/ S = Over(l) /\ Cardinality(S) < MaxHistory
        /\ \A c \in S, o \in Over(l) \ S : l[c].at >= l[o].at
    BY DEF MostRecent
<1>2. \A c \in Chains : h[c] = IF c \in S THEN l[c] ELSE Absent
    BY <1>1, OnlyFits
<1>3. S \subseteq Chains /\ \A c \in S : l[c] \notin {Absent, Active}
    BY DEF Over, Present, Running
<1>4. Over(h) = S /\ Running(h) = {}
    BY <1>2, <1>3, Records DEF Over, Present, Running
<1>5. Cardinality(S) <= MaxHistory
    BY <1>1, <1>4, OverFinite, MaxHistoryAssumption
<1>6. h \in Listing
    BY <1>1, OnlyFits
<1>7. QED
    BY <1>1, <1>2, <1>3, <1>4, <1>5, <1>6

\* Every end of the listing is in it or has been pushed out by later ones,
\* and what had been pushed out before stays so.
LEMMA RecentSafe ==
    ASSUME NEW l \in Listing, NEW h \in MostRecent(l), NEW c, NEW x \in Nat, Safe(l, c, x)
    PROVE  Safe(h, c, x)
<1>1. /\ h \in Listing /\ Over(h) \subseteq Over(l)
      /\ \A o \in Over(h) : h[o] = l[o]
      /\ Over(h) = Over(l) \/ Cardinality(Over(h)) = MaxHistory
      /\ \A o \in Over(h), g \in Over(l) \ Over(h) : h[o].at >= l[g].at
    BY RecentFits
<1>2. \A o \in Chains : l[o].at \in Nat /\ h[o].at \in Nat
    BY <1>1, Records DEF Listing
<1>3. Over(l) \subseteq Chains /\ IsFiniteSet(Over(h)) /\ IsFiniteSet(Over(l))
    BY OverFinite
<1>4. CASE Over(h) = Over(l)
    <2>1. \A o \in Over(l) : h[o] = l[o]
        BY <1>1, <1>4
    <2>2. CASE c \in Over(l) /\ l[c].at >= x
        BY <1>4, <2>1, <2>2 DEF Safe
    <2>3. CASE \E S \in SUBSET Over(l) : Cardinality(S) = MaxHistory /\ \A o \in S : l[o].at >= x
        <3>1. PICK S \in SUBSET Over(l) : Cardinality(S) = MaxHistory /\ \A o \in S : l[o].at >= x
            BY <2>3
        <3>2. S \in SUBSET Over(h) /\ \A o \in S : h[o].at >= x
            BY <1>4, <2>1, <3>1
        <3>3. QED
            BY <3>1, <3>2 DEF Safe
    <2>4. QED
        BY <2>2, <2>3 DEF Safe
<1>5. CASE Cardinality(Over(h)) = MaxHistory
    <2>1. ASSUME NEW g \in Over(l) \ Over(h), l[g].at >= x PROVE Safe(h, c, x)
        <3>1. \A o \in Over(h) : h[o].at >= x
            BY <1>1, <1>2, <1>3, <2>1
        <3>2. Over(h) \in SUBSET Over(h)
            OBVIOUS
        <3>3. QED
            BY <1>5, <3>1, <3>2 DEF Safe
    <2>2. CASE c \in Over(l) /\ l[c].at >= x
        <3>1. CASE c \in Over(h)
            BY <1>1, <2>2, <3>1 DEF Safe
        <3>2. CASE c \notin Over(h)
            BY <2>1, <2>2, <3>2
        <3>3. QED
            BY <3>1, <3>2
    <2>3. CASE \E S \in SUBSET Over(l) : Cardinality(S) = MaxHistory /\ \A o \in S : l[o].at >= x
        <3>1. PICK S \in SUBSET Over(l) : Cardinality(S) = MaxHistory /\ \A o \in S : l[o].at >= x
            BY <2>3
        <3>2. CASE S \subseteq Over(h)
            <4>1. S \in SUBSET Over(h) /\ \A o \in S : h[o].at >= x
                BY <1>1, <3>1, <3>2
            <4>2. QED
                BY <3>1, <4>1 DEF Safe
        <3>3. CASE ~(S \subseteq Over(h))
            BY <2>1, <3>1, <3>3
        <3>4. QED
            BY <3>2, <3>3
    <2>4. QED
        BY <2>2, <2>3 DEF Safe
<1>6. QED
    BY <1>1, <1>4, <1>5

-----------------------------------------------------------------------------
(***************************************************************************)
(* A chain ends once: a recorded chain is no longer listed, or listed with  *)
(* the end that is recorded.                                                *)
(***************************************************************************)
OnceOver ==
    /\ Over(file) \subseteq hasEnded
    /\ \A t \in Terminals :
         /\ Over(live[t]) \cup Over(history[t]) \subseteq hasEnded
         /\ \A c \in Over(history[t]) : live[t][c] \in {Absent, history[t][c]}

\* What goes on file when h is recorded with listing l.
Agrees(l, h) == \A c \in Over(h) : l[c] \in {Absent, h[c]}

LEMMA AgreeingMerge ==
    ASSUME NEW l \in Listing, NEW h \in Listing, Running(h) = {}, Agrees(l, h)
    PROVE  /\ Merged(l, h) \in Listing
           /\ \A c \in Over(h) : Merged(l, h)[c] = h[c]
           /\ \A c \in Present(l) : Merged(l, h)[c] = l[c]
           /\ \A c \in Chains \ (Present(l) \cup Over(h)) : Merged(l, h)[c] = Absent
           /\ Running(Merged(l, h)) = Running(l)
           /\ Over(Merged(l, h)) = Over(l) \cup Over(h)
<1>1. /\ Merged(l, h) \in Listing
      /\ \A c \in Chains : Merged(l, h)[c] = IF l[c] # Absent THEN l[c] ELSE h[c]
    BY MergedFits
<1>2. \A c \in Chains : h[c] # Active /\ (c \in Over(h) <=> h[c] # Absent)
    BY OverIs
<1>3. Over(h) \subseteq Chains /\ Over(l) \subseteq Chains /\ Present(l) \subseteq Chains
    BY OverFinite DEF Present
<1>4. \A c \in Over(h) : Merged(l, h)[c] = h[c]
    BY <1>1, <1>2, <1>3 DEF Agrees
<1>5. \A c \in Present(l) : Merged(l, h)[c] = l[c]
    BY <1>1 DEF Present
<1>6. \A c \in Chains \ (Present(l) \cup Over(h)) : Merged(l, h)[c] = Absent
    BY <1>1, <1>2 DEF Present
<1>7. ASSUME NEW c \in Chains
      PROVE  /\ c \in Running(Merged(l, h)) <=> c \in Running(l)
             /\ c \in Over(Merged(l, h)) <=> c \in Over(l) \cup Over(h)
    BY <1>1, <1>2, <1>4, OverIs, Records
<1>8. /\ Running(Merged(l, h)) \subseteq Chains /\ Running(l) \subseteq Chains
      /\ Over(Merged(l, h)) \subseteq Chains
    BY OverFinite DEF Running
<1>9. QED
    BY <1>1, <1>3, <1>4, <1>5, <1>6, <1>7, <1>8

\* _recordTerminalHistory.
LEMMA RecordedFits ==
    ASSUME TypeOK, OnceOver, NEW t \in Terminals, NEW h \in Recorded(t, live[t])
    PROVE  /\ h \in Listing /\ Running(h) = {} /\ Cardinality(Over(h)) <= MaxHistory
           /\ Over(h) \subseteq Over(live[t]) \cup Over(history[t])
           /\ Agrees(live[t], h)
           /\ \A c \in Over(live[t]) : Safe(h, c, live[t][c].at)
           /\ \A c : \A x \in Nat : Safe(history[t], c, x) => Safe(h, c, x)
<1> DEFINE l == live[t]
           ended == Only(l, Over(l))
           m == Merged(ended, history[t])
<1>1. /\ l \in Listing /\ history[t] \in Listing /\ Running(history[t]) = {}
      /\ h \in MostRecent(m)
    BY DEF TypeOK, Recorded
<1>2. /\ ended \in Listing
      /\ \A c \in Chains : ended[c] = IF c \in Over(l) THEN l[c] ELSE Absent
    BY <1>1, OnlyFits
<1>3. Over(l) \subseteq Chains /\ Over(history[t]) \subseteq Chains
    BY OverFinite
<1>4. Over(ended) = Over(l)
    <2>1. \A c \in Chains : c \in Over(ended) <=> c \in Over(l)
        BY <1>2, OverIs, Records
    <2>2. QED
        BY <1>3, <2>1, OverFinite
<1>5. \A c \in Over(history[t]) : l[c] \in {Absent, history[t][c]}
    BY DEF OnceOver
<1>6. Agrees(ended, history[t])
    BY <1>2, <1>3, <1>5 DEF Agrees
<1>7. /\ m \in Listing
      /\ \A c \in Over(history[t]) : m[c] = history[t][c]
      /\ \A c \in Present(ended) : m[c] = ended[c]
      /\ Over(m) = Over(l) \cup Over(history[t])
    <2> HIDE DEF ended
    <2>1. QED
        BY <1>1, <1>2, <1>4, <1>6, AgreeingMerge
<1>8. \A c \in Over(l) : m[c] = l[c]
    <2>1. \A c \in Over(l) : c \in Present(ended) /\ ended[c] = l[c]
        BY <1>2, <1>3, <1>4 DEF Over
    <2> HIDE DEF m, ended
    <2>2. QED
        BY <1>7, <2>1
<1> HIDE DEF m
<1>9. /\ h \in Listing /\ Running(h) = {} /\ Cardinality(Over(h)) <= MaxHistory
      /\ Over(h) \subseteq Over(m) /\ \A c \in Over(h) : h[c] = m[c]
    BY <1>1, <1>7, RecentFits
<1>10. Agrees(l, h)
    <2> SUFFICES ASSUME NEW c \in Over(h) PROVE l[c] \in {Absent, h[c]}
        BY DEF Agrees
    <2>1. CASE c \in Over(l)
        BY <1>8, <1>9, <2>1
    <2>2. CASE c \in Over(history[t])
        BY <1>5, <1>7, <1>9, <2>2
    <2>3. QED
        BY <1>7, <1>9, <2>1, <2>2
<1>11. ASSUME NEW c \in Over(l) PROVE Safe(h, c, l[c].at)
    <2>1. l[c].at \in Nat
        BY <1>1, <1>3, Records DEF Listing
    <2>2. Safe(m, c, l[c].at)
        BY <1>7, <1>8, <2>1 DEF Safe
    <2>3. QED
        BY <1>1, <1>7, <2>1, <2>2, RecentSafe
<1>12. ASSUME NEW c, NEW x \in Nat, Safe(history[t], c, x) PROVE Safe(h, c, x)
    <2>1. Over(history[t]) \subseteq Over(m) /\ \A o \in Over(history[t]) : m[o] = history[t][o]
        BY <1>7
    <2>2. Safe(m, c, x)
        <3>1. CASE c \in Over(history[t]) /\ history[t][c].at >= x
            BY <2>1, <3>1 DEF Safe
        <3>2. CASE \E S \in SUBSET Over(history[t]) :
                      Cardinality(S) = MaxHistory /\ \A o \in S : history[t][o].at >= x
            <4>1. PICK S \in SUBSET Over(history[t]) :
                      Cardinality(S) = MaxHistory /\ \A o \in S : history[t][o].at >= x
                BY <3>2
            <4>2. S \in SUBSET Over(m) /\ \A o \in S : m[o].at >= x
                BY <2>1, <4>1
            <4>3. QED
                BY <4>1, <4>2 DEF Safe
        <3>3. QED
            BY <1>12, <3>1, <3>2 DEF Safe
    <2>3. QED
        BY <1>1, <1>7, <2>2, RecentSafe
<1>13. QED
    BY <1>7, <1>9, <1>10, <1>11, <1>12

(***************************************************************************)
(* rehydrate(): the import ends reaped, h is what it records.               *)
(***************************************************************************)
Found(reaped) == [c \in Chains |-> IF c \in reaped THEN Ended(clock + 1) ELSE file[c]]

Rehydrated(t, reaped, h) ==
    /\ reaped \subseteq Running(file) /\ hasEnded' = hasEnded \cup reaped
    /\ clock' \in 0 .. MaxTime /\ clock <= clock' /\ (reaped # {} => clock' = clock + 1)
    /\ Found(reaped) \in Listing
    /\ live' = [live EXCEPT ![t] = Only(Found(reaped), Running(file))]
    /\ live'[t] \in Listing
    /\ Running(live'[t]) = Running(file) \ reaped /\ Over(live'[t]) = reaped
    /\ interrupted' = [interrupted EXCEPT ![t] = Running(file) \ reaped]
    /\ history' = [history EXCEPT ![t] = h]
    /\ h \in Listing /\ Running(h) = {} /\ Cardinality(Over(h)) <= MaxHistory
    /\ Over(h) \subseteq Over(file) \cup reaped
    /\ \A c \in Over(h) : h[c] = Found(reaped)[c]
    /\ \A c \in Over(file) \cup reaped : Safe(h, c, Found(reaped)[c].at)
    /\ file' \in Listing
    /\ \/ file' = file
       \/ /\ Present(file') = (Running(file) \ reaped) \cup Over(h)
          /\ Running(file') = Running(file) \ reaped
          /\ \A c \in Over(h) : file'[c] = h[c]
    /\ behind' \subseteq Terminals
    /\ t \notin behind' => \A c \in Over(h) : file'[c] = h[c]

LEMMA StartFits ==
    ASSUME TypeOK, NEW t \in Terminals, Start(t)
    PROVE  \E reaped, h : Rehydrated(t, reaped, h)
<1>1. PICK reaped \in SUBSET Running(file) :
        /\ clock' = IF reaped = {} THEN clock ELSE clock + 1
        /\ clock' <= MaxTime
        /\ live' = [live EXCEPT ![t] = Only(Found(reaped), Running(file))]
        /\ interrupted' = [interrupted EXCEPT ![t] = Running(file) \ reaped]
        /\ hasEnded' = hasEnded \cup reaped
        /\ \E h \in MostRecent(Only(Found(reaped), Chains \ (Running(file) \ reaped))) :
             /\ history' = [history EXCEPT ![t] = h]
             /\ IF Rewrites(reaped, Over(file) \ Over(h) # {})
                THEN WriteFile(t, Merged(Only(Found(reaped), Running(file) \ reaped), h))
                ELSE UNCHANGED file /\ behind' = behind \ {t}
    BY DEF Start, Unfinished, Found
<1> DEFINE f == Found(reaped)
           kept == Running(file) \ reaped
           m == Only(f, Chains \ kept)
           l == Only(f, kept)
<1>2. PICK h \in MostRecent(m) :
        /\ history' = [history EXCEPT ![t] = h]
        /\ IF Rewrites(reaped, Over(file) \ Over(h) # {})
           THEN WriteFile(t, Merged(l, h))
           ELSE UNCHANGED file /\ behind' = behind \ {t}
    BY <1>1
<1>3. /\ file \in Listing /\ clock \in 0 .. MaxTime /\ behind \subseteq Terminals
      /\ live \in [Terminals -> Listing]
    BY DEF TypeOK
<1>4. /\ clock' \in 0 .. MaxTime /\ clock <= clock' /\ (reaped # {} => clock' = clock + 1)
      /\ reaped # {} => clock + 1 \in 1 .. MaxTime
    BY <1>1, <1>3, MaxTimeAssumption
<1>5. Running(file) \subseteq Chains /\ Over(file) \subseteq Chains
    BY OverFinite DEF Running
<1>6. \A c \in reaped : Ended(clock + 1) \in Record /\ Ended(clock + 1) \notin {Absent, Active}
    BY <1>4, Records
<1>7. /\ f \in Listing
      /\ \A c \in Chains : f[c] = IF c \in reaped THEN Ended(clock + 1) ELSE file[c]
    <2>1. \A c \in Chains : (IF c \in reaped THEN Ended(clock + 1) ELSE file[c]) \in Record
        BY <1>3, <1>6 DEF Listing
    <2>2. QED
        BY <2>1 DEF Found, Listing
<1>8. \A c \in Chains : /\ f[c] \notin {Absent, Active} <=> c \in Over(file) \cup reaped
                        /\ f[c] = Active <=> c \in kept
    BY <1>5, <1>6, <1>7, OverIs
<1> HIDE DEF f
<1>9. /\ live'[t] \in Listing /\ Running(live'[t]) = kept /\ Over(live'[t]) = reaped
    <2>1. live'[t] = Only(f, Running(file))
        BY <1>1, <1>3 DEF f
    <2>2. /\ live'[t] \in Listing
          /\ \A c \in Chains : live'[t][c] = IF c \in Running(file) THEN f[c] ELSE Absent
        BY <1>7, <2>1, OnlyFits
    <2>3. \A c \in Chains : /\ c \in Running(live'[t]) <=> c \in kept
                            /\ c \in Over(live'[t]) <=> c \in reaped
        BY <1>5, <1>8, <2>2, OverIs, Records
    <2>4. Running(live'[t]) \subseteq Chains /\ Over(live'[t]) \subseteq Chains
        BY OverFinite DEF Running
    <2>5. QED
        BY <1>5, <2>2, <2>3, <2>4
<1>10. /\ m \in Listing
       /\ \A c \in Chains : m[c] = IF c \in Chains \ kept THEN f[c] ELSE Absent
    BY <1>7, OnlyFits
<1>11. Over(m) = Over(file) \cup reaped /\ \A c \in Over(m) : m[c] = f[c]
    <2>1. \A c \in Chains : c \in Over(m) <=> c \in Over(file) \cup reaped
        BY <1>8, <1>10, OverIs
    <2>2. Over(m) = Over(file) \cup reaped
        BY <1>5, <2>1, OverFinite
    <2>3. ASSUME NEW c \in Over(m) PROVE m[c] = f[c]
        <3>1. c \in Chains /\ m[c] \notin {Absent, Active}
            BY <2>3, OverFinite, OverIs
        <3>2. QED
            BY <1>10, <3>1
    <2>4. QED
        BY <2>2, <2>3
<1>12. /\ h \in Listing /\ Running(h) = {} /\ Cardinality(Over(h)) <= MaxHistory
       /\ Over(h) \subseteq Over(m) /\ \A c \in Over(h) : h[c] = m[c]
    BY <1>2, <1>10, RecentFits
<1>13. ASSUME NEW c \in Over(file) \cup reaped PROVE Safe(h, c, f[c].at)
    <2>1. f[c].at \in Nat
        BY <1>5, <1>7, Records DEF Listing
    <2>2. Safe(m, c, f[c].at)
        BY <1>11, <2>1 DEF Safe
    <2>3. QED
        BY <1>2, <1>10, <2>1, <2>2, RecentSafe
<1>14. /\ l \in Listing /\ Running(l) = kept /\ Over(l) = {} /\ Present(l) = kept
       /\ Agrees(l, h)
    <2>1. l \in Listing /\ \A c \in Chains : l[c] = IF c \in kept THEN f[c] ELSE Absent
        BY <1>7, OnlyFits
    <2>2. \A c \in Chains : (c \in Running(l) <=> c \in kept) /\ (c \in Present(l) <=> c \in kept)
        BY <1>8, <2>1, OverIs, Records
    <2>3. Running(l) = kept /\ Present(l) = kept
        BY <1>5, <2>2 DEF Running, Present
    <2>4. Over(l) = {}
        BY <2>3 DEF Over
    <2>5. ASSUME NEW c \in Over(h) PROVE l[c] = Absent
        <3>1. c \in Over(file) \cup reaped /\ c \in Chains
            BY <1>5, <1>11, <1>12
        <3>2. c \notin kept
            BY <1>8, <3>1
        <3>3. QED
            BY <2>1, <3>1, <3>2
    <2>6. QED
        BY <2>1, <2>3, <2>4, <2>5 DEF Agrees
<1>15. /\ Merged(l, h) \in Listing /\ Present(Merged(l, h)) = kept \cup Over(h)
       /\ Running(Merged(l, h)) = kept
       /\ \A c \in Over(h) : Merged(l, h)[c] = h[c]
    <2> HIDE DEF l
    <2>1. /\ Merged(l, h) \in Listing
          /\ \A c \in Over(h) : Merged(l, h)[c] = h[c]
          /\ Running(Merged(l, h)) = Running(l)
          /\ Over(Merged(l, h)) = Over(l) \cup Over(h)
        BY <1>12, <1>14, AgreeingMerge
    <2>2. Present(Merged(l, h)) = Running(Merged(l, h)) \cup Over(Merged(l, h))
        BY Records DEF Over, Running, Present
    <2>3. QED
        BY <1>14, <2>1, <2>2
<1>16. /\ file' \in Listing /\ behind' \subseteq Terminals
       /\ file' = file \/ file' = Merged(l, h)
       /\ t \notin behind' => file' = Merged(l, h) \/ (reaped = {} /\ Over(file) \subseteq Over(h))
    <2> HIDE DEF l, m
    <2>1. \/ file' = Merged(l, h) /\ behind' = behind \ {t}
          \/ file' = file /\ behind' = behind \cup {t}
          \/ file' = file /\ behind' = behind \ {t} /\ reaped = {} /\ Over(file) \ Over(h) = {}
        BY <1>2 DEF WriteFile, Rewrites
    <2>2. QED
        BY <1>3, <1>15, <2>1
<1>17. ASSUME t \notin behind', NEW c \in Over(h) PROVE file'[c] = h[c]
    <2>1. CASE file' = Merged(l, h)
        BY <1>15, <2>1
    <2>2. CASE file' = file /\ reaped = {}
        <3>1. c \in Chains /\ h[c] = f[c]
            BY <1>5, <1>11, <1>12
        <3>2. f[c] = file[c]
            BY <1>7, <2>2, <3>1
        <3>3. QED
            BY <2>2, <3>1, <3>2
    <2>3. QED
        BY <1>16, <1>17, <2>1, <2>2
<1>18. \A c \in Over(h) : h[c] = f[c]
    BY <1>11, <1>12
<1>19. Rehydrated(t, reaped, h)
    <2> HIDE DEF l, m
    <2>1. QED
        BY <1>1, <1>2, <1>4, <1>7, <1>9, <1>11, <1>12, <1>13, <1>15, <1>16, <1>17, <1>18
        DEF Rehydrated, f
<1>20. QED
    BY <1>19

-----------------------------------------------------------------------------
(***************************************************************************)
(* Types, and a chain ends once: for any number of terminals.               *)
(***************************************************************************)
LEMMA WroteFits ==
    ASSUME TypeOK, OnceOver, NEW t \in Terminals, NEW h \in Recorded(t, live[t]),
           WriteFile(t, Merged(live[t], h))
    PROVE  /\ file' \in Listing /\ behind' \subseteq Terminals
           /\ Over(file') \subseteq hasEnded
           /\ \/ file' = file /\ t \in behind'
              \/ file' = Merged(live[t], h) /\ t \notin behind'
<1>1. /\ h \in Listing /\ Running(h) = {} /\ Agrees(live[t], h)
      /\ Over(h) \subseteq Over(live[t]) \cup Over(history[t])
    BY RecordedFits
<1>2. Over(live[t]) \cup Over(history[t]) \subseteq hasEnded /\ Over(file) \subseteq hasEnded
    BY DEF OnceOver
<1>3. live[t] \in Listing /\ file \in Listing /\ behind \subseteq Terminals
    BY DEF TypeOK
<1>4. /\ Merged(live[t], h) \in Listing
      /\ Over(Merged(live[t], h)) = Over(live[t]) \cup Over(h)
    BY <1>1, <1>3, AgreeingMerge
<1>5. \/ file' = Merged(live[t], h) /\ behind' = behind \ {t}
      \/ file' = file /\ behind' = behind \cup {t}
    BY DEF WriteFile
<1>6. QED
    BY <1>1, <1>2, <1>3, <1>4, <1>5

LEMMA StartOnce ==
    ASSUME TypeOK, OnceOver, NEW t \in Terminals, Start(t) PROVE TypeOK' /\ OnceOver'
<1>1. PICK reaped, h : Rehydrated(t, reaped, h)
    BY StartFits
<1>2. /\ up' = up \cup {t} /\ UNCHANGED <<closing, armed, unrecorded, lost>>
      /\ closing' \subseteq up' /\ armed' \subseteq up' \ closing'
    BY DEF Start, TypeOK
<1>3. reaped \subseteq Chains /\ Running(file) \subseteq Chains
    BY <1>1, OverFinite DEF Rehydrated, Running
<1>4. /\ live' \in [Terminals -> Listing] /\ history' \in [Terminals -> Listing]
      /\ interrupted' \in [Terminals -> SUBSET Chains]
    <2>1. /\ live' = [live EXCEPT ![t] = live'[t]] /\ live'[t] \in Listing
          /\ history' = [history EXCEPT ![t] = h] /\ h \in Listing
          /\ interrupted' = [interrupted EXCEPT ![t] = Running(file) \ reaped]
        BY <1>1 DEF Rehydrated, TypeOK
    <2>2. QED
        BY <1>3, <2>1 DEF TypeOK
<1>5. /\ live'[t] \in Listing /\ Over(live'[t]) = reaped
      /\ history'[t] = h /\ Running(h) = {} /\ Cardinality(Over(h)) <= MaxHistory
      /\ \A u \in Terminals \ {t} : live'[u] = live[u] /\ history'[u] = history[u]
    BY <1>1 DEF Rehydrated, TypeOK
<1>6. TypeOK'
    <2>1. \A u \in Terminals :
            Running(history'[u]) = {} /\ Cardinality(Over(history'[u])) <= MaxHistory
        BY <1>5 DEF TypeOK
    <2>2. QED
        BY <1>1, <1>2, <1>3, <1>4, <2>1 DEF TypeOK, Rehydrated
<1>7. Over(file) \subseteq hasEnded /\ hasEnded' = hasEnded \cup reaped
    BY <1>1 DEF OnceOver, Rehydrated
<1>8. Over(h) \subseteq hasEnded'
    BY <1>1, <1>7 DEF Rehydrated
<1>9. Over(file') \subseteq hasEnded'
    <2>1. CASE file' = file
        BY <1>7, <2>1
    <2>2. CASE /\ Present(file') = (Running(file) \ reaped) \cup Over(h)
               /\ Running(file') = Running(file) \ reaped
        BY <1>8, <2>2 DEF Over
    <2>3. QED
        BY <1>1, <2>1, <2>2 DEF Rehydrated
<1>10. ASSUME NEW c \in Over(h) PROVE live'[t][c] \in {Absent, h[c]}
    <2>1. /\ live'[t] = Only(Found(reaped), Running(file)) /\ h[c] = Found(reaped)[c]
          /\ Found(reaped) \in Listing
        BY <1>1 DEF Rehydrated, TypeOK
    <2>2. c \in Chains
        BY OverFinite
    <2>3. QED
        BY <2>1, <2>2, OnlyFits
<1>11. QED
    BY <1>5, <1>6, <1>7, <1>8, <1>9, <1>10 DEF OnceOver

LEMMA UnsavedChains == ASSUME TypeOK, NEW t PROVE lost \cup Unsaved(t) \subseteq Chains
BY DEF TypeOK, Unsaved

\* The debounce's timer and the flush of a shutdown write the same.
LEMMA WriteOnce ==
    ASSUME TypeOK, OnceOver, NEW t \in Terminals, TimerFires(t) \/ BeginQuit(t)
    PROVE  TypeOK' /\ OnceOver'
<1>1. PICK h \in Recorded(t, live[t]) :
        history' = [history EXCEPT ![t] = h] /\ WriteFile(t, Merged(live[t], h))
    BY DEF TimerFires, BeginQuit, Flush, WriteCurrent
<1>2. /\ h \in Listing /\ Running(h) = {} /\ Agrees(live[t], h)
      /\ Cardinality(Over(h)) <= MaxHistory
      /\ Over(h) \subseteq Over(live[t]) \cup Over(history[t])
    BY RecordedFits
<1>3. /\ file' \in Listing /\ behind' \subseteq Terminals /\ Over(file') \subseteq hasEnded
    BY <1>1, WroteFits
<1>4. /\ armed' = armed \ {t} /\ unrecorded' = [unrecorded EXCEPT ![t] = {}]
      /\ UNCHANGED <<up, live, interrupted, clock, hasEnded>>
    BY DEF TimerFires, BeginQuit
<1>5. /\ history' \in [Terminals -> Listing] /\ history'[t] = h
      /\ \A u \in Terminals \ {t} : history'[u] = history[u]
    BY <1>1, <1>2 DEF TypeOK
<1>6. /\ closing' \subseteq up' /\ armed' \subseteq up' \ closing' /\ lost' \subseteq Chains
    <2>1. CASE TimerFires(t)
        BY <2>1 DEF TimerFires, TypeOK
    <2>2. CASE BeginQuit(t)
        <3>1. lost' \subseteq Chains
            BY <2>2, UnsavedChains DEF BeginQuit, TypeOK
        <3>2. QED
            BY <2>2, <3>1 DEF BeginQuit, TypeOK
    <2>3. QED
        BY <2>1, <2>2
<1>7. TypeOK'
    BY <1>2, <1>3, <1>4, <1>5, <1>6 DEF TypeOK
<1>8. OnceOver'
    BY <1>2, <1>3, <1>4, <1>5 DEF OnceOver, Agrees
<1>9. QED
    BY <1>7, <1>8

\* Of a process that ends nothing is left in memory.
LEMMA EndOnce ==
    ASSUME TypeOK, OnceOver, NEW t \in Terminals, Crash(t) \/ Exit(t)
    PROVE  TypeOK' /\ OnceOver'
<1>1. /\ up' = up \ {t} /\ closing' = closing \ {t} /\ live' = [live EXCEPT ![t] = None]
      /\ history' = [history EXCEPT ![t] = None]
      /\ interrupted' = [interrupted EXCEPT ![t] = {}] /\ armed' = armed \ {t}
      /\ unrecorded' = [unrecorded EXCEPT ![t] = {}] /\ behind' = behind \ {t}
      /\ UNCHANGED <<file, clock, hasEnded>>
    BY DEF Crash, Exit, Down
<1>2. /\ live' \in [Terminals -> Listing] /\ history' \in [Terminals -> Listing]
      /\ live'[t] = None /\ history'[t] = None
      /\ \A u \in Terminals \ {t} : live'[u] = live[u] /\ history'[u] = history[u]
    BY <1>1, NoneListed DEF TypeOK
<1>3. Cardinality({}) <= MaxHistory
    BY MaxHistoryAssumption, FS_EmptySet
<1>4. TypeOK'
    <2>1. \A u \in Terminals :
            Running(history'[u]) = {} /\ Cardinality(Over(history'[u])) <= MaxHistory
        BY <1>2, <1>3, NoneListed DEF TypeOK
    <2>2. closing' \subseteq up' /\ armed' \subseteq up' \ closing'
        BY <1>1 DEF TypeOK
    <2>3. lost' \subseteq Chains
        BY UnsavedChains DEF Crash, Exit, TypeOK
    <2>4. QED
        BY <1>1, <1>2, <2>1, <2>2, <2>3 DEF TypeOK
<1>5. OnceOver'
    BY <1>1, <1>2, NoneListed DEF OnceOver
<1>6. QED
    BY <1>4, <1>5

\* Events change one entry of one listing.
Lists(t, c, r) == live' = [live EXCEPT ![t][c] = r]

LEMMA ListedOne ==
    ASSUME TypeOK, NEW t \in Terminals, NEW c \in Chains, NEW r \in Record,
           Lists(t, c, r)
    PROVE  /\ live' \in [Terminals -> Listing] /\ live'[t][c] = r
           /\ \A u \in Terminals \ {t} : live'[u] = live[u]
           /\ \A d \in Chains \ {c} : live'[t][d] = live[t][d]
           /\ r \in {Absent, Active} => Over(live'[t]) = Over(live[t]) \ {c}
           /\ r \notin {Absent, Active} => Over(live'[t]) = Over(live[t]) \cup {c}
           /\ r # Active => Running(live'[t]) = Running(live[t]) \ {c}
           /\ r = Active => Running(live'[t]) = Running(live[t]) \cup {c}
<1>1. live \in [Terminals -> [Chains -> Record]]
    BY DEF TypeOK, Listing
<1>2. /\ live' \in [Terminals -> [Chains -> Record]] /\ live'[t][c] = r
      /\ \A u \in Terminals \ {t} : live'[u] = live[u]
      /\ \A d \in Chains \ {c} : live'[t][d] = live[t][d]
    BY <1>1 DEF Lists
<1> DEFINE n == live'[t]
           o == live[t]
<1>3. ASSUME NEW d \in Chains
      PROVE  /\ d \in Over(n) <=> IF d = c THEN r \notin {Absent, Active} ELSE d \in Over(o)
             /\ d \in Running(n) <=> IF d = c THEN r = Active ELSE d \in Running(o)
    <2>1. n[d] = IF d = c THEN r ELSE o[d]
        BY <1>2
    <2> HIDE DEF n, o
    <2>2. QED
        BY <2>1, OverIs
<1>4. /\ Over(n) \subseteq Chains /\ Over(o) \subseteq Chains
      /\ Running(n) \subseteq Chains /\ Running(o) \subseteq Chains
    BY OverFinite DEF Running
<1>5. /\ r \in {Absent, Active} => Over(n) = Over(o) \ {c}
      /\ r \notin {Absent, Active} => Over(n) = Over(o) \cup {c}
    <2> HIDE DEF n, o
    <2>1. QED
        BY <1>3, <1>4
<1>6. /\ r # Active => Running(n) = Running(o) \ {c}
      /\ r = Active => Running(n) = Running(o) \cup {c}
    <2> HIDE DEF n, o
    <2>1. QED
        BY <1>3, <1>4
<1>7. live' \in [Terminals -> Listing]
    BY <1>2 DEF Listing
<1>8. QED
    BY <1>2, <1>5, <1>6, <1>7

LEMMA EventOnce ==
    ASSUME TypeOK, OnceOver, NEW t \in Terminals, NEW c \in Chains,
           Create(t, c) \/ Progress(t, c) \/ Finish(t, c) \/ Forget(t, c)
    PROVE  TypeOK' /\ OnceOver'
<1>1. CASE Create(t, c)
    <2>1. /\ t \in up /\ live[t][c] = Absent /\ c \notin hasEnded
          /\ live' = [live EXCEPT ![t][c] = Active] /\ armed' = armed \cup ({t} \ closing)
          /\ UNCHANGED <<file, up, closing, history, interrupted, unrecorded, clock, hasEnded,
                         lost, behind>>
        BY <1>1 DEF Create, ArmedBy
    <2>2. /\ live' \in [Terminals -> Listing] /\ live'[t][c] = Active
          /\ \A u \in Terminals \ {t} : live'[u] = live[u]
          /\ \A d \in Chains \ {c} : live'[t][d] = live[t][d]
          /\ Over(live'[t]) = Over(live[t]) \ {c}
        <3>1. Active \in Record /\ Active \in {Absent, Active} /\ Lists(t, c, Active)
            BY <2>1, Records DEF Lists
        <3>2. QED
            BY <3>1, ListedOne
    <2>3. c \notin Over(history[t]) /\ Over(history[t]) \subseteq Chains
        BY <2>1, OverFinite DEF OnceOver
    <2>4. TypeOK'
        BY <2>1, <2>2 DEF TypeOK
    <2>5. OnceOver'
        BY <2>1, <2>2, <2>3 DEF OnceOver
    <2>6. QED
        BY <2>4, <2>5
<1>2. CASE Progress(t, c)
    BY <1>2 DEF Progress, ArmedBy, TypeOK, OnceOver
<1>3. CASE Finish(t, c)
    <2>1. /\ t \in up /\ live[t][c] = Active /\ clock < MaxTime /\ clock' = clock + 1
          /\ live' = [live EXCEPT ![t][c] = Ended(clock + 1)]
          /\ armed' = armed \cup ({t} \ closing)
          /\ unrecorded' = [unrecorded EXCEPT ![t] = @ \cup {c}]
          /\ hasEnded' = hasEnded \cup {c} /\ lost' \subseteq lost \cup {c}
          /\ UNCHANGED <<file, up, closing, history, interrupted, behind>>
        BY <1>3 DEF Finish, ArmedBy
    <2>2. clock + 1 \in 1 .. MaxTime /\ clock' \in 0 .. MaxTime
        BY <2>1, MaxTimeAssumption DEF TypeOK
    <2>3. Ended(clock + 1) \in Record /\ Ended(clock + 1) \notin {Absent, Active}
        BY <2>2, Records
    <2>4. /\ live' \in [Terminals -> Listing]
          /\ \A u \in Terminals \ {t} : live'[u] = live[u]
          /\ \A d \in Chains \ {c} : live'[t][d] = live[t][d]
          /\ Over(live'[t]) = Over(live[t]) \cup {c}
        <3>1. Lists(t, c, Ended(clock + 1))
            BY <2>1 DEF Lists
        <3>2. QED
            BY <2>3, <3>1, ListedOne
    <2>5. c \notin Over(history[t]) /\ Over(history[t]) \subseteq Chains
        <3>1. ASSUME c \in Over(history[t]) PROVE FALSE
            <4>1. Active \in {Absent, history[t][c]}
                BY <2>1, <3>1 DEF OnceOver
            <4>2. history[t][c] \notin {Absent, Active}
                BY <3>1, OverIs
            <4>3. QED
                BY <4>1, <4>2, Records
        <3>2. QED
            BY <3>1, OverFinite
    <2>6. TypeOK'
        BY <2>1, <2>2, <2>4 DEF TypeOK
    <2>7. OnceOver'
        BY <2>1, <2>4, <2>5 DEF OnceOver
    <2>8. QED
        BY <2>6, <2>7
<1>4. CASE Forget(t, c)
    <2>1. /\ t \in up /\ live' = [live EXCEPT ![t][c] = Absent]
          /\ unrecorded' = [unrecorded EXCEPT ![t] = @ \ {c}]
          /\ UNCHANGED <<file, up, closing, history, interrupted, armed, clock, hasEnded, lost,
                         behind>>
        BY <1>4 DEF Forget
    <2>2. /\ live' \in [Terminals -> Listing] /\ live'[t][c] = Absent
          /\ \A u \in Terminals \ {t} : live'[u] = live[u]
          /\ \A d \in Chains \ {c} : live'[t][d] = live[t][d]
          /\ Over(live'[t]) = Over(live[t]) \ {c}
        <3>1. Absent \in Record /\ Absent \in {Absent, Active} /\ Lists(t, c, Absent)
            BY <2>1, Records DEF Lists
        <3>2. QED
            BY <3>1, ListedOne
    <2>3. Over(history[t]) \subseteq Chains
        BY OverFinite
    <2>4. TypeOK'
        BY <2>1, <2>2 DEF TypeOK
    <2>5. OnceOver'
        BY <2>1, <2>2, <2>3 DEF OnceOver
    <2>6. QED
        BY <2>4, <2>5
<1>5. QED
    BY <1>1, <1>2, <1>3, <1>4

LEMMA OnceInit == Init => TypeOK /\ OnceOver
<1> SUFFICES ASSUME Init PROVE TypeOK /\ OnceOver
    OBVIOUS
<1>1. Cardinality({}) <= MaxHistory /\ 0 \in 0 .. MaxTime
    BY MaxHistoryAssumption, MaxTimeAssumption, FS_EmptySet
<1>2. TypeOK
    BY <1>1, NoneListed DEF Init, TypeOK
<1>3. OnceOver
    BY NoneListed DEF Init, OnceOver
<1>4. QED
    BY <1>2, <1>3

LEMMA OnceNext == ASSUME TypeOK, OnceOver, [Next]_vars PROVE TypeOK' /\ OnceOver'
<1>1. CASE Next
    BY <1>1, StartOnce, WriteOnce, EndOnce, EventOnce DEF Next
<1>2. CASE UNCHANGED vars
    BY <1>2 DEF vars, process, TypeOK, OnceOver
<1>3. QED
    BY <1>1, <1>2

\* For any number of terminals, chains and failures: no recorded chain is
\* running, and no history is longer than MAX_TERMINAL_HISTORY.
THEOREM TypeCorrect == Spec => []TypeOK
<1>1. TypeOK /\ OnceOver /\ [Next]_vars => (TypeOK /\ OnceOver)'
    BY OnceNext
<1>2. QED
    BY <1>1, OnceInit, PTL DEF Spec

-----------------------------------------------------------------------------
(***************************************************************************)
(* The history and the file.                                                *)
(***************************************************************************)
LEMMA HistoryNext ==
    ASSUME Alone, TypeOK, OnceOver, HistoryIsOnFile, [Next]_vars PROVE HistoryIsOnFile'
<1>1. ASSUME NEW t \in Terminals, Start(t) PROVE HistoryIsOnFile'
    <2>1. PICK reaped, h : Rehydrated(t, reaped, h)
        BY <1>1, StartFits
    <2>2. history'[t] = h /\ (t \notin behind' => \A c \in Over(h) : file'[c] = h[c])
        BY <2>1 DEF Rehydrated, TypeOK
    <2>3. up' \subseteq {t}
        BY <1>1 DEF Start, TypeOK, Alone
    <2>4. QED
        BY <2>2, <2>3 DEF HistoryIsOnFile
<1>2. ASSUME NEW t \in Terminals, TimerFires(t) \/ BeginQuit(t) PROVE HistoryIsOnFile'
    <2>1. PICK h \in Recorded(t, live[t]) :
            history' = [history EXCEPT ![t] = h] /\ WriteFile(t, Merged(live[t], h))
        BY <1>2 DEF TimerFires, BeginQuit, Flush, WriteCurrent
    <2>2. h \in Listing /\ Running(h) = {} /\ Agrees(live[t], h)
        BY <2>1, RecordedFits
    <2>3. history'[t] = h
        BY <2>1 DEF TypeOK
    <2>4. t \in behind' \/ file' = Merged(live[t], h)
        BY <2>1, WroteFits
    <2>5. \A c \in Over(h) : Merged(live[t], h)[c] = h[c]
        BY <2>2, AgreeingMerge DEF TypeOK
    <2>6. up' \subseteq {t}
        BY <1>2 DEF TimerFires, BeginQuit, TypeOK, Alone
    <2>7. QED
        BY <2>3, <2>4, <2>5, <2>6 DEF HistoryIsOnFile
<1>3. ASSUME NEW t \in Terminals, Crash(t) \/ Exit(t) PROVE HistoryIsOnFile'
    <2>1. up' = {}
        BY <1>3 DEF Crash, Exit, Down, TypeOK, Alone
    <2>2. QED
        BY <2>1 DEF HistoryIsOnFile
<1>4. ASSUME NEW t \in Terminals, NEW c \in Chains,
             Create(t, c) \/ Progress(t, c) \/ Finish(t, c) \/ Forget(t, c)
      PROVE  HistoryIsOnFile'
    BY <1>4 DEF Create, Progress, Finish, Forget, HistoryIsOnFile
<1>5. CASE UNCHANGED vars
    BY <1>5 DEF vars, process, HistoryIsOnFile
<1>6. QED
    BY <1>1, <1>2, <1>3, <1>4, <1>5 DEF Next

(* However writes fail and however often the process is killed: what the    *)
(* resume notice is told to be over is on the file as over, unless the last *)
(* write failed (wrfc-persistence.ts:244).                                  *)
THEOREM HistoryStaysOnFile == ASSUME Alone PROVE Spec => []HistoryIsOnFile
<1> DEFINE Inv == TypeOK /\ OnceOver /\ HistoryIsOnFile
<1>1. Init => Inv
    BY OnceInit DEF Init, HistoryIsOnFile
<1>2. Inv /\ [Next]_vars => Inv'
    BY OnceNext, HistoryNext
<1>3. QED
    BY <1>1, <1>2, PTL DEF Spec

-----------------------------------------------------------------------------
(***************************************************************************)
(* What is said to be interrupted had not ended: an end that is not on the  *)
(* file is known to the running process, or was lost with it, or came after *)
(* the flush of its shutdown.                                               *)
(***************************************************************************)
TrueInv ==
    \A t \in Terminals :
        /\ t \notin up \ closing => Running(file) \cap hasEnded \subseteq lost
        /\ Running(live[t]) \cap hasEnded \subseteq lost

\* A process that ends without writing.
LEMMA LosesUnsaved ==
    ASSUME TypeOK, OnceOver, TrueInv, NEW t \in Terminals
    PROVE  Running(file) \cap hasEnded \subseteq lost \cup Unsaved(t)
<1>1. Running(Merged(live[t], history[t])) = Running(live[t])
    BY AgreeingMerge DEF TypeOK, OnceOver, Agrees
<1> SUFFICES ASSUME NEW c \in Running(file), c \in hasEnded, c \notin lost PROVE c \in Unsaved(t)
    OBVIOUS
<1>2. c \in Chains /\ file[c] = Active
    BY DEF Running
<1>3. c \notin Running(Merged(live[t], history[t]))
    BY <1>1 DEF TrueInv
<1>4. QED
    BY <1>2, <1>3 DEF Running, Unsaved

TrueStep ==
    \A t \in Terminals : \A c \in interrupted'[t] \ interrupted[t] :
        /\ \A u \in Terminals \ {t} : live[u][c] # Active
        /\ c \in hasEnded => c \in lost

LEMMA StartTrue ==
    ASSUME Alone, TypeOK, OnceOver, TrueInv, NEW t \in Terminals, Start(t)
    PROVE  TrueInv' /\ TrueStep
<1>1. PICK reaped, h : Rehydrated(t, reaped, h)
    BY StartFits
<1>2. t \notin up /\ t \in up' \ closing' /\ lost' = lost
    BY DEF Start, TypeOK
<1>3. \A u \in Terminals : u = t
    BY DEF Alone
<1>4. Running(file) \cap hasEnded \subseteq lost
    BY <1>2 DEF TrueInv
<1>5. /\ Running(live'[t]) = Running(file) \ reaped
      /\ interrupted'[t] = Running(file) \ reaped
      /\ hasEnded' = hasEnded \cup reaped
    BY <1>1 DEF Rehydrated, TypeOK
<1>6. Running(live'[t]) \cap hasEnded' \subseteq lost'
    BY <1>2, <1>4, <1>5
<1>7. TrueInv'
    BY <1>2, <1>3, <1>6 DEF TrueInv
<1>8. TrueStep
    BY <1>3, <1>4, <1>5 DEF TrueStep
<1>9. QED
    BY <1>7, <1>8

LEMMA EndTrue ==
    ASSUME Alone, TypeOK, OnceOver, TrueInv, NEW t \in Terminals, Crash(t) \/ Exit(t)
    PROVE  TrueInv' /\ TrueStep
<1>1. Down(t)
    BY DEF Crash, Exit
<1>2. live'[t] = None /\ hasEnded' = hasEnded /\ interrupted'[t] = {} /\ file' = file
    BY <1>1 DEF Down, TypeOK
<1>3. \A u \in Terminals : u = t
    BY DEF Alone
<1>4. Running(file) \cap hasEnded \subseteq lost'
    <2>1. CASE Crash(t)
        BY <2>1, LosesUnsaved DEF Crash
    <2>2. CASE Exit(t)
        BY <2>2 DEF Exit, TrueInv
    <2>3. QED
        BY <2>1, <2>2
<1>5. TrueInv'
    BY <1>2, <1>3, <1>4, NoneListed DEF TrueInv
<1>6. TrueStep
    BY <1>2, <1>3 DEF TrueStep
<1>7. QED
    BY <1>5, <1>6

\* What a shutdown flushes is up to date, or counts as lost.
LEMMA QuitTrue ==
    ASSUME Alone, TypeOK, OnceOver, TrueInv, NEW t \in Terminals, BeginQuit(t)
    PROVE  TrueInv' /\ TrueStep
<1>1. PICK h \in Recorded(t, live[t]) : WriteFile(t, Merged(live[t], h))
    BY DEF BeginQuit, Flush, WriteCurrent
<1>2. h \in Listing /\ Running(h) = {} /\ Agrees(live[t], h)
    BY RecordedFits
<1>3. /\ UNCHANGED <<up, live, interrupted, hasEnded>>
      /\ lost' = IF t \in behind' THEN lost \cup Unsaved(t) ELSE lost
    BY DEF BeginQuit
<1>4. \/ file' = file /\ t \in behind'
      \/ file' = Merged(live[t], h) /\ t \notin behind'
    BY <1>1, WroteFits
<1>5. Running(file') \cap hasEnded \subseteq lost'
    <2>1. CASE file' = file /\ t \in behind'
        BY <1>3, <2>1, LosesUnsaved
    <2>2. CASE file' = Merged(live[t], h) /\ t \notin behind'
        <3>1. Running(file') = Running(live[t])
            BY <1>2, <2>2, AgreeingMerge DEF TypeOK
        <3>2. QED
            BY <1>3, <2>2, <3>1 DEF TrueInv
    <2>3. QED
        BY <1>4, <2>1, <2>2
<1>6. lost \subseteq lost'
    BY <1>3
<1>7. \A u \in Terminals : u = t
    BY DEF Alone
<1>8. TrueInv'
    BY <1>3, <1>5, <1>6, <1>7 DEF TrueInv
<1>9. TrueStep
    BY <1>3 DEF TrueStep
<1>10. QED
    BY <1>8, <1>9

LEMMA EventTrue ==
    ASSUME Alone, TypeOK, OnceOver, TrueInv, NEW t \in Terminals, NEW c \in Chains,
           Create(t, c) \/ Progress(t, c) \/ Finish(t, c) \/ Forget(t, c)
    PROVE  TrueInv'
<1>1. UNCHANGED <<file, up, closing>>
    BY DEF Create, Progress, Finish, Forget
<1>2. CASE Create(t, c)
    <2>1. /\ Active \in Record /\ Lists(t, c, Active) /\ c \notin hasEnded
          /\ UNCHANGED <<hasEnded, lost>>
        BY <1>2, Records DEF Create, Lists
    <2>2. /\ \A u \in Terminals \ {t} : live'[u] = live[u]
          /\ Running(live'[t]) = Running(live[t]) \cup {c}
        BY <2>1, ListedOne
    <2>3. QED
        BY <1>1, <2>1, <2>2 DEF TrueInv
<1>3. CASE Progress(t, c)
    BY <1>1, <1>3 DEF Progress, TrueInv
<1>4. CASE Finish(t, c)
    <2>1. /\ Lists(t, c, Ended(clock + 1)) /\ hasEnded' = hasEnded \cup {c}
          /\ clock + 1 \in 1 .. MaxTime /\ t \in up
          /\ lost' = IF t \in closing THEN lost \cup {c} ELSE lost
        BY <1>4, MaxTimeAssumption DEF Finish, Lists, TypeOK
    <2>2. Ended(clock + 1) \in Record /\ Ended(clock + 1) \notin {Absent, Active}
        BY <2>1, Records
    <2>3. /\ \A u \in Terminals \ {t} : live'[u] = live[u]
          /\ Running(live'[t]) = Running(live[t]) \ {c}
        BY <2>1, <2>2, ListedOne
    <2>4. Running(live'[t]) \cap hasEnded' \subseteq lost'
        BY <2>1, <2>3 DEF TrueInv
    <2>5. t \in closing => Running(file) \cap hasEnded' \subseteq lost'
        BY <2>1 DEF TrueInv
    <2>6. QED
        BY <1>1, <2>1, <2>4, <2>5 DEF TrueInv, Alone
<1>5. CASE Forget(t, c)
    <2>1. /\ Absent \in Record /\ Absent # Active /\ Lists(t, c, Absent)
          /\ UNCHANGED <<hasEnded, lost>>
        BY <1>5, Records DEF Forget, Lists
    <2>2. /\ \A u \in Terminals \ {t} : live'[u] = live[u]
          /\ Running(live'[t]) = Running(live[t]) \ {c}
        BY <2>1, ListedOne
    <2>3. QED
        BY <1>1, <2>1, <2>2 DEF TrueInv
<1>6. QED
    BY <1>2, <1>3, <1>4, <1>5

LEMMA TrueNext ==
    ASSUME Alone, TypeOK, OnceOver, TrueInv, [Next]_vars
    PROVE  TrueInv' /\ [TrueStep]_vars
<1>1. CASE \E t \in Terminals : Start(t) \/ Crash(t) \/ Exit(t) \/ BeginQuit(t)
    BY <1>1, StartTrue, EndTrue, QuitTrue
<1>2. ASSUME NEW t \in Terminals, TimerFires(t) PROVE TrueInv' /\ TrueStep
    <2>1. t \in up \ closing /\ UNCHANGED <<up, closing, live, interrupted, hasEnded, lost>>
        BY <1>2 DEF TimerFires, TypeOK
    <2>2. \A u \in Terminals : u = t
        BY DEF Alone
    <2>3. QED
        BY <2>1, <2>2 DEF TrueInv, TrueStep
<1>3. ASSUME NEW t \in Terminals, NEW c \in Chains,
             Create(t, c) \/ Progress(t, c) \/ Finish(t, c) \/ Forget(t, c)
      PROVE  TrueInv' /\ TrueStep
    <2>1. interrupted' = interrupted
        BY <1>3 DEF Create, Progress, Finish, Forget
    <2>2. QED
        BY <1>3, <2>1, EventTrue DEF TrueStep
<1>4. CASE UNCHANGED vars
    BY <1>4 DEF vars, process, TrueInv
<1>5. QED
    BY <1>1, <1>2, <1>3, <1>4 DEF Next

(* However long the debounce is put off and whatever writes fail: what a    *)
(* launch announces as interrupted had not ended, unless the process before *)
(* crashed, or could not write or had written already when it shut down     *)
(* (bootstrap-core.ts:515).                                                 *)
THEOREM OnlyInterruptedAnnounced == ASSUME Alone PROVE Spec => InterruptedIsTrue
<1> DEFINE Inv == TypeOK /\ OnceOver /\ TrueInv
<1>1. Init => Inv
    BY OnceInit, NoneListed DEF Init, TrueInv
<1>2. Inv /\ [Next]_vars => Inv' /\ [TrueStep]_vars
    BY OnceNext, TrueNext
<1>3. QED
    BY <1>1, <1>2, PTL DEF Spec, InterruptedIsTrue, TrueStep

-----------------------------------------------------------------------------
(***************************************************************************)
(* Nothing is forgotten: what a running process knows of each chain of the  *)
(* file, and of each end that its last timer has recorded.                  *)
(***************************************************************************)
Knows(l, h, f, new) ==
    /\ \A c \in Present(f) : l[c] # Absent \/ Safe(h, c, f[c].at)
    /\ \A c \in Over(l) \ new : Safe(h, c, l[c].at)
    /\ \A c \in Over(l) : l[c].at >= f[c].at
    /\ Running(l) \cap Over(f) = {}

KnowsInv ==
    \A t \in Terminals :
        /\ t \notin up => live[t] = None /\ history[t] = None /\ unrecorded[t] = {}
        /\ t \in up => Knows(live[t], history[t], file, unrecorded[t])

LEMMA AtNat == ASSUME NEW l \in Listing, NEW c \in Chains PROVE l[c].at \in Nat
BY Records DEF Listing

LEMMA SafeEarlier ==
    ASSUME NEW h \in Listing, NEW c, NEW x \in Nat, NEW y \in Nat, y <= x, Safe(h, c, x)
    PROVE  Safe(h, c, y)
<1>1. \A o \in Over(h) : h[o].at \in Nat
    BY AtNat, OverFinite
<1>2. CASE c \in Over(h) /\ h[c].at >= x
    BY <1>1, <1>2 DEF Safe
<1>3. CASE \E S \in SUBSET Over(h) : Cardinality(S) = MaxHistory /\ \A o \in S : h[o].at >= x
    <2>1. PICK S \in SUBSET Over(h) : Cardinality(S) = MaxHistory /\ \A o \in S : h[o].at >= x
        BY <1>3
    <2>2. \A o \in S : h[o].at >= y
        BY <1>1, <2>1
    <2>3. QED
        BY <2>1, <2>2 DEF Safe
<1>4. QED
    BY <1>2, <1>3 DEF Safe

\* Room(f, x): the file holds MaxHistory ends no earlier than x.
Room(f, x) == \E S \in SUBSET Over(f) : Cardinality(S) = MaxHistory /\ \A o \in S : f[o].at >= x

ForgetsNothing == \A c \in Present(file) \ Present(file') : Room(file', file[c].at)

LEMMA MadeRoom ==
    ASSUME NEW h, NEW f, NEW c, NEW x, Safe(h, c, x), c \notin Over(h),
           Over(h) \subseteq Over(f), \A o \in Over(h) : f[o] = h[o]
    PROVE  Room(f, x)
<1>1. PICK S \in SUBSET Over(h) : Cardinality(S) = MaxHistory /\ \A o \in S : h[o].at >= x
    BY DEF Safe
<1>2. S \in SUBSET Over(f) /\ \A o \in S : f[o].at >= x
    BY <1>1
<1>3. QED
    BY <1>1, <1>2 DEF Room

\* Writing the listing with what is recorded of it.
LEMMA WriteKnows ==
    ASSUME TypeOK, OnceOver, KnowsInv, NEW t \in Terminals, t \in up,
           NEW h \in Recorded(t, live[t]), WriteFile(t, Merged(live[t], h))
    PROVE  ForgetsNothing /\ Knows(live[t], h, file', {})
<1> DEFINE l == live[t]
<1>1. /\ h \in Listing /\ Running(h) = {} /\ Agrees(l, h)
      /\ \A c \in Over(l) : Safe(h, c, l[c].at)
      /\ \A c : \A x \in Nat : Safe(history[t], c, x) => Safe(h, c, x)
    BY RecordedFits
<1>2. l \in Listing /\ file \in Listing
    BY DEF TypeOK
<1>3. /\ \A c \in Present(file) : l[c] # Absent \/ Safe(history[t], c, file[c].at)
      /\ \A c \in Over(l) : l[c].at >= file[c].at
      /\ Running(l) \cap Over(file) = {}
    BY DEF KnowsInv, Knows
<1>4. \A c \in Present(file) : l[c] # Absent \/ Safe(h, c, file[c].at)
    <2>1. \A c \in Present(file) : c \in Chains /\ file[c].at \in Nat
        BY <1>2, AtNat DEF Present
    <2>2. QED
        BY <1>1, <1>3, <2>1
<1>5. CASE file' = file
    BY <1>1, <1>3, <1>4, <1>5 DEF ForgetsNothing, Knows
<1>6. CASE file' = Merged(l, h)
    <2>1. /\ \A c \in Over(h) : file'[c] = h[c]
          /\ \A c \in Present(l) : file'[c] = l[c]
          /\ \A c \in Chains \ (Present(l) \cup Over(h)) : file'[c] = Absent
          /\ Running(file') = Running(l)
          /\ Over(file') = Over(l) \cup Over(h)
        BY <1>1, <1>2, <1>6, AgreeingMerge
    <2>2. ASSUME NEW c \in Present(file) \ Present(file') PROVE Room(file', file[c].at)
        <3>1. c \in Chains /\ c \notin Over(file') /\ file'[c] = Absent
            BY <2>2 DEF Present, Over
        <3>2. l[c] = Absent
            BY <2>1, <3>1 DEF Present
        <3>3. QED
            BY <1>4, <2>1, <2>2, <3>1, <3>2, MadeRoom
    <2>3. ASSUME NEW c \in Present(file'), l[c] = Absent PROVE Safe(h, c, file'[c].at)
        <3>1. c \in Chains /\ file'[c] # Absent
            BY <2>3 DEF Present
        <3>2. c \in Over(h)
            BY <2>1, <2>3, <3>1 DEF Present
        <3>3. file'[c] = h[c] /\ h[c].at \in Nat
            BY <1>1, <2>1, <3>1, <3>2, AtNat
        <3>4. QED
            BY <3>2, <3>3 DEF Safe
    <2>4. ASSUME NEW c \in Over(l) PROVE l[c].at >= file'[c].at
        <3>1. c \in Chains /\ c \in Present(l)
            BY <2>4 DEF Over, Present
        <3>2. file'[c] = l[c] /\ l[c].at \in Nat
            BY <1>2, <2>1, <3>1, AtNat
        <3>3. QED
            BY <3>2
    <2>5. Running(l) \cap Over(file') = {}
        BY <2>1 DEF Over
    <2>6. QED
        BY <1>1, <2>2, <2>3, <2>4, <2>5 DEF ForgetsNothing, Knows
<1>7. QED
    BY <1>5, <1>6 DEF WriteFile

LEMMA StartKnows ==
    ASSUME Alone, TypeOK, OnceOver, KnowsInv, NEW t \in Terminals, Start(t)
    PROVE  KnowsInv' /\ ForgetsNothing
<1>1. PICK reaped, h : Rehydrated(t, reaped, h)
    BY StartFits
<1> DEFINE f == Found(reaped)
           l == live'[t]
           kept == Running(file) \ reaped
<1>2. /\ t \in up' /\ unrecorded'[t] = {} /\ file \in Listing /\ history'[t] = h
    BY <1>1 DEF Start, KnowsInv, TypeOK, Rehydrated
<1>3. /\ reaped \subseteq Running(file) /\ f \in Listing /\ l \in Listing
      /\ Running(l) = kept /\ Over(l) = reaped
      /\ h \in Listing /\ Over(h) \subseteq Over(file) \cup reaped
      /\ \A c \in Over(h) : h[c] = f[c]
      /\ \A c \in Over(file) \cup reaped : Safe(h, c, f[c].at)
      /\ file' \in Listing
      /\ \/ file' = file
         \/ /\ Present(file') = kept \cup Over(h)
            /\ Running(file') = kept
            /\ \A c \in Over(h) : file'[c] = h[c]
    BY <1>1 DEF Rehydrated
<1>4. \A c \in Running(file) : c \in Chains /\ file[c] = Active /\ file[c].at = 0 /\ l[c] = f[c]
    <2>1. l = Only(f, Running(file))
        BY <1>1 DEF Rehydrated, TypeOK
    <2>2. QED
        BY <1>3, <2>1, OnlyFits, Records DEF Running
<1>5. \A c \in Over(file) : c \in Chains /\ f[c] = file[c]
    <2>1. \A c \in Over(file) : c \in Chains /\ c \notin reaped
        BY <1>3, OverFinite DEF Over
    <2>2. QED
        BY <2>1 DEF Found
<1>6. /\ Present(file) = Running(file) \cup Over(file)
      /\ Present(l) = Running(l) \cup Over(l)
      /\ Over(h) \subseteq Chains /\ Over(file) \cap Running(file) = {}
    BY Records, OverFinite DEF Present, Over, Running
<1> HIDE DEF f, l
<1>7. ASSUME NEW c \in Running(file) PROVE l[c] # Absent
    BY <1>3, <1>6, <1>7 DEF Present
<1>8. ASSUME NEW c \in Present(file'), l[c] = Absent PROVE Safe(h, c, file'[c].at)
    <2>1. CASE file' = file
        <3>1. c \in Over(file)
            BY <1>6, <1>7, <1>8, <2>1
        <3>2. QED
            BY <1>3, <1>5, <2>1, <3>1
    <2>2. CASE Present(file') = kept \cup Over(h) /\ \A o \in Over(h) : file'[o] = h[o]
        <3>1. c \in Over(h)
            BY <1>7, <1>8, <2>2
        <3>2. QED
            BY <1>3, <2>2, <3>1
    <2>3. QED
        BY <1>3, <2>1, <2>2
<1>9. \A c \in Over(l) \ {} : Safe(h, c, l[c].at)
    BY <1>3, <1>4
<1>10. ASSUME NEW c \in Over(l) PROVE l[c].at >= file'[c].at
    <2>1. c \in Running(file) /\ c \in Chains /\ l[c].at \in Nat
        BY <1>3, <1>4, <1>10, AtNat
    <2>2. CASE file' = file
        BY <1>4, <2>1, <2>2
    <2>3. CASE Present(file') = kept \cup Over(h) /\ \A o \in Over(h) : file'[o] = h[o]
        <3>1. CASE c \in Over(h)
            BY <1>3, <1>4, <2>1, <2>3, <3>1
        <3>2. CASE c \notin Over(h)
            <4>1. c \notin kept
                BY <1>3, <1>10
            <4>2. file'[c] = Absent
                BY <2>1, <2>3, <3>2, <4>1 DEF Present
            <4>3. QED
                BY <2>1, <4>2, Records
        <3>3. QED
            BY <3>1, <3>2
    <2>4. QED
        BY <1>3, <2>2, <2>3
<1>11. Running(l) \cap Over(file') = {}
    <2>1. CASE file' = file
        BY <1>3, <1>6, <2>1
    <2>2. CASE Running(file') = kept
        BY <1>3, <2>2 DEF Over
    <2>3. QED
        BY <1>3, <2>1, <2>2
<1>12. Knows(l, h, file', {})
    BY <1>8, <1>9, <1>10, <1>11 DEF Knows
<1>13. KnowsInv'
    BY <1>2, <1>12 DEF KnowsInv, Alone, l
<1>14. ASSUME NEW c \in Present(file) \ Present(file') PROVE Room(file', file[c].at)
    <2>1. /\ Present(file') = kept \cup Over(h) /\ Running(file') = kept
          /\ \A o \in Over(h) : file'[o] = h[o]
        BY <1>3, <1>14
    <2>2. c \in Over(file) \cup reaped /\ c \notin Over(h)
        BY <1>6, <1>14, <2>1
    <2>3. f[c].at >= file[c].at /\ f[c].at \in Nat /\ file[c].at \in Nat
        <3>1. c \in Chains
            BY <1>3, <1>4, <1>5, <2>2
        <3>2. f[c].at \in Nat /\ file[c].at \in Nat
            BY <1>2, <1>3, <3>1, AtNat
        <3>3. QED
            BY <1>3, <1>4, <1>5, <2>2, <3>2
    <2>4. Safe(h, c, file[c].at)
        BY <1>3, <2>2, <2>3, SafeEarlier
    <2>5. Over(h) \subseteq Over(file')
        <3>1. Over(h) \cap kept = {}
            BY <1>3, <1>6
        <3>2. QED
            BY <2>1, <3>1 DEF Over
    <2>6. QED
        BY <2>1, <2>2, <2>4, <2>5, MadeRoom
<1>15. QED
    BY <1>13, <1>14 DEF ForgetsNothing

\* An entry of the listing changes, and perhaps what is not recorded yet.
LEMMA EventKnows ==
    ASSUME Alone, "starved" \notin Faults, TypeOK, OnceOver, KnowsInv,
           NEW t \in Terminals, NEW c \in Chains,
           Create(t, c) \/ Progress(t, c) \/ Finish(t, c) \/ Forget(t, c)
    PROVE  KnowsInv'
<1> DEFINE l == live[t]
           m == live'[t]
           h == history[t]
           new == unrecorded[t]
<1>1. /\ t \in up /\ UNCHANGED <<file, up, history>>
      /\ l \in Listing /\ file \in Listing /\ h \in Listing
    BY DEF Create, Progress, Finish, Forget, TypeOK
<1>2. /\ \A d \in Present(file) : l[d] # Absent \/ Safe(h, d, file[d].at)
      /\ \A d \in Over(l) \ new : Safe(h, d, l[d].at)
      /\ \A d \in Over(l) : l[d].at >= file[d].at
      /\ Running(l) \cap Over(file) = {}
    BY <1>1 DEF KnowsInv, Knows
<1>3. Present(file) \subseteq Chains /\ Over(l) \subseteq Chains
    BY OverFinite DEF Present
<1>4. SUFFICES Knows(m, h, file, unrecorded'[t])
    BY <1>1 DEF KnowsInv, Alone
<1>5. CASE Create(t, c)
    <2>1. /\ Active \in Record /\ Active \in {Absent, Active} /\ Active # Absent
          /\ Lists(t, c, Active) /\ c \notin Present(file) /\ unrecorded' = unrecorded
        BY <1>5, Records DEF Create, Lists
    <2>2. /\ m[c] = Active /\ \A d \in Chains \ {c} : m[d] = l[d]
          /\ Over(m) = Over(l) \ {c} /\ Running(m) = Running(l) \cup {c}
        BY <2>1, ListedOne
    <2>3. c \notin Over(file)
        BY <2>1 DEF Over
    <2> HIDE DEF l, m
    <2>4. QED
        BY <1>2, <1>3, <2>1, <2>2, <2>3 DEF Knows
<1>6. CASE Progress(t, c)
    BY <1>2, <1>6 DEF Progress, Knows
<1>7. CASE Finish(t, c)
    <2>1. /\ Lists(t, c, Ended(clock + 1)) /\ l[c] = Active
          /\ unrecorded'[t] = new \cup {c} /\ clock + 1 \in 1 .. MaxTime
        BY <1>7, MaxTimeAssumption DEF Finish, Lists, TypeOK
    <2>2. /\ Ended(clock + 1) \in Record /\ Ended(clock + 1) \notin {Absent, Active}
          /\ Ended(clock + 1).at = clock + 1
        BY <2>1, Records
    <2>3. /\ m[c] = Ended(clock + 1) /\ \A d \in Chains \ {c} : m[d] = l[d]
          /\ Over(m) = Over(l) \cup {c} /\ Running(m) = Running(l) \ {c}
        BY <2>1, <2>2, ListedOne
    <2>4. c \notin Over(file)
        BY <1>2, <2>1 DEF Running
    <2>5. file[c].at = 0
        BY <1>1, <2>4, OverIs, Records DEF Listing
    <2>6. \A d \in Over(m) : m[d].at >= file[d].at
        BY <1>2, <1>3, <2>1, <2>2, <2>3, <2>5
    <2> HIDE DEF l, m, new
    <2>7. QED
        BY <1>2, <1>3, <2>1, <2>2, <2>3, <2>6 DEF Knows
<1>8. CASE Forget(t, c)
    <2>1. /\ Absent \in Record /\ Absent \in {Absent, Active} /\ Absent # Active
          /\ Lists(t, c, Absent) /\ c \in Over(l) /\ c \notin new
          /\ unrecorded'[t] = new \ {c}
        BY <1>8, Records DEF Forget, Lists, TypeOK
    <2>2. /\ m[c] = Absent /\ \A d \in Chains \ {c} : m[d] = l[d]
          /\ Over(m) = Over(l) \ {c} /\ Running(m) = Running(l) \ {c}
        BY <2>1, ListedOne
    <2>3. l[c].at \in Nat /\ file[c].at \in Nat /\ l[c].at >= file[c].at
        BY <1>1, <1>2, <2>1, AtNat
    <2>4. Safe(h, c, file[c].at)
        BY <1>1, <1>2, <2>1, <2>3, SafeEarlier
    <2> HIDE DEF l, m, new, h
    <2>5. QED
        BY <1>2, <1>3, <2>1, <2>2, <2>4 DEF Knows
<1>9. QED
    BY <1>5, <1>6, <1>7, <1>8

LEMMA KnowsNext ==
    ASSUME Alone, "starved" \notin Faults, TypeOK, OnceOver, KnowsInv, [Next]_vars
    PROVE  KnowsInv' /\ [ForgetsNothing]_vars
<1>1. ASSUME NEW t \in Terminals, Start(t) PROVE KnowsInv' /\ ForgetsNothing
    BY <1>1, StartKnows
<1>2. ASSUME NEW t \in Terminals, TimerFires(t) \/ BeginQuit(t) PROVE KnowsInv' /\ ForgetsNothing
    <2>1. PICK h \in Recorded(t, live[t]) :
            history' = [history EXCEPT ![t] = h] /\ WriteFile(t, Merged(live[t], h))
        BY <1>2 DEF TimerFires, BeginQuit, Flush, WriteCurrent
    <2>2. t \in up /\ up' = up /\ live' = live
          /\ history'[t] = h /\ unrecorded'[t] = {}
        BY <1>2, <2>1 DEF TimerFires, BeginQuit, TypeOK
    <2>3. ForgetsNothing /\ Knows(live[t], h, file', {})
        BY <2>1, <2>2, WriteKnows
    <2>4. QED
        BY <2>2, <2>3 DEF KnowsInv, Alone
<1>3. ASSUME NEW t \in Terminals, Crash(t) \/ Exit(t) PROVE KnowsInv' /\ ForgetsNothing
    <2>1. /\ t \notin up' /\ live'[t] = None /\ history'[t] = None
          /\ unrecorded'[t] = {} /\ file' = file
        BY <1>3 DEF Crash, Exit, Down, TypeOK
    <2>2. KnowsInv'
        BY <2>1 DEF KnowsInv, Alone
    <2>3. QED
        BY <2>1, <2>2 DEF ForgetsNothing
<1>4. ASSUME NEW t \in Terminals, NEW c \in Chains,
             Create(t, c) \/ Progress(t, c) \/ Finish(t, c) \/ Forget(t, c)
      PROVE  KnowsInv' /\ ForgetsNothing
    <2>1. file' = file
        BY <1>4 DEF Create, Progress, Finish, Forget
    <2>2. QED
        BY <1>4, <2>1, EventKnows DEF ForgetsNothing
<1>5. CASE UNCHANGED vars
    BY <1>5 DEF vars, process, KnowsInv
<1>6. QED
    BY <1>1, <1>2, <1>3, <1>4, <1>5 DEF Next

(* As long as the debounce fires before a chain that ended is no longer     *)
(* listed: whatever writes fail and however often the process is killed, a  *)
(* chain leaves the file only for MaxHistory ends that came no earlier      *)
(* (wrfc-persistence.ts:327).                                               *)
THEOREM FileForgetsNothing ==
    ASSUME Alone, "starved" \notin Faults PROVE Spec => NothingForgotten
<1> DEFINE Inv == TypeOK /\ OnceOver /\ KnowsInv
<1>1. Init => Inv
    BY OnceInit DEF Init, KnowsInv
<1>2. Inv /\ [Next]_vars => Inv' /\ [ForgetsNothing]_vars
    BY OnceNext, KnowsNext
<1>3. QED
    BY <1>1, <1>2, PTL DEF Spec, NothingForgotten, ForgetsNothing, Room

=============================================================================
