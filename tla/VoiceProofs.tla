----------------------------- MODULE VoiceProofs -----------------------------
(***************************************************************************)
(* Calls, proved for every set of phones and owners: whoever answers,      *)
(* hangs up and calls back, audio goes to the person a call is with, and   *)
(* the window's view of a device is a phone line.  Then the jitter buffer, *)
(* proved for every delay and every width of the sequence numbers.         *)
(***************************************************************************)
EXTENDS VoiceCall, Jitter, FiniteSetTheorems, WellFoundedInduction, TLAPS

CallRec == [dev : Phones, with : Persons, live : BOOLEAN, up : BOOLEAN,
            peer : (Int \X Phones) \cup {None}, out : SUBSET (Int \X Phones)]

KnockRec == [at : {"way", "rings", "stopping", "taken", "written", "in", "done"},
             decide : {None, "yes", "no"}, into : Int \cup {None},
             reply : {None, "yes", "no"}, open : BOOLEAN]

\* Calls are numbered as they are made; a connection is one call's to one
\* device.
CTypes ==
    /\ calls \in [DOMAIN calls -> CallRec]
    /\ Cardinality(DOMAIN calls) \in Nat /\ DOMAIN calls = 1 .. Cardinality(DOMAIN calls)
    /\ knocks \in [DOMAIN knocks -> KnockRec] /\ DOMAIN knocks \subseteq (DOMAIN calls) \X Phones
    /\ current \in [Phones -> DOMAIN calls \cup {None}]
    /\ ringing \in [Phones -> DOMAIN knocks \cup {None}]

\* A device's current call is on the device.
OnItsDevice == \A d \in Phones : current[d] # None => calls[current[d]].dev = d

\* A connection goes from a call to a device of the person the call is with,
\* who is not the person who calls.
Outward ==
    \A k \in DOMAIN knocks : OwnerOf[k[2]] = calls[k[1]].with /\ calls[k[1]].with # Caller(k)

\* The call a knock goes into is with who knocks.
Inward ==
    \A k \in DOMAIN knocks :
        /\ knocks[k].at \in {"taken", "written"} => knocks[k].into # None
        /\ knocks[k].into # None =>
              knocks[k].into \in DOMAIN calls /\ calls[knocks[k].into].with = Caller(k)

\* A call awaits its own connections, and its peer is one with the right
\* person.
Heard(c, k) == k \in DOMAIN knocks /\ OwnerOf[OtherEnd(c, k)] = calls[c].with
Connected ==
    \A c \in DOMAIN calls :
        /\ calls[c].out \subseteq {k \in DOMAIN knocks : k[1] = c}
        /\ calls[c].peer # None => Heard(c, calls[c].peer)

CInv == CTypes /\ OnItsDevice /\ Outward /\ Inward /\ Connected

(***************************************************************************)
(* Facts about the operators.                                              *)
(***************************************************************************)

\* Closing connections changes nothing else of them.
LEMMA ClosedKeeps ==
    ASSUME NEW kn, kn \in [DOMAIN kn -> KnockRec], NEW K
    PROVE  /\ Closed(kn, K) \in [DOMAIN kn -> KnockRec] /\ DOMAIN Closed(kn, K) = DOMAIN kn
           /\ \A k \in DOMAIN kn : Closed(kn, K)[k].at = kn[k].at /\ Closed(kn, K)[k].into = kn[k].into
<1>1. ASSUME NEW k \in DOMAIN kn
      PROVE  /\ Closed(kn, K)[k] \in KnockRec
             /\ Closed(kn, K)[k].at = kn[k].at /\ Closed(kn, K)[k].into = kn[k].into
  <2>1. kn[k] \in KnockRec
    OBVIOUS
  <2>2. [kn[k] EXCEPT !.open = FALSE] \in KnockRec
    BY <2>1 DEF KnockRec
  <2>3. [kn[k] EXCEPT !.open = FALSE].at = kn[k].at /\ [kn[k] EXCEPT !.open = FALSE].into = kn[k].into
    BY <2>1 DEF KnockRec
  <2>4. Closed(kn, K)[k] = IF k \in K THEN [kn[k] EXCEPT !.open = FALSE] ELSE kn[k]
    BY DEF Closed
  <2> QED BY <2>1, <2>2, <2>3, <2>4
<1>2. DOMAIN Closed(kn, K) = DOMAIN kn /\ Closed(kn, K) = [k \in DOMAIN kn |-> Closed(kn, K)[k]]
  BY DEF Closed
<1> QED BY <1>1, <1>2

\* A number not used yet.
LEMMA NewCallIsNew ==
    ASSUME CTypes
    PROVE  /\ NewCall \in Nat \ {0} /\ NewCall \notin DOMAIN calls /\ NewCall # None
           /\ Cardinality(DOMAIN calls \cup {NewCall}) = NewCall
           /\ DOMAIN calls \cup {NewCall} = 1 .. NewCall
<1> DEFINE n == Cardinality(DOMAIN calls)
<1>1. n \in Nat /\ DOMAIN calls = 1 .. n /\ NewCall = n + 1
  BY DEF CTypes, NewCall
<1> HIDE DEF n
<1>2. NewCall \in Nat \ {0} /\ NewCall \notin DOMAIN calls /\ NewCall # None
  BY <1>1, VoiceConstants
<1>3. DOMAIN calls \cup {NewCall} = 1 .. NewCall
  BY <1>1
<1>4. Cardinality(1 .. NewCall) = NewCall
  <2>1. 1 \in Int /\ NewCall \in Int /\ NewCall >= 1 /\ NewCall - 1 + 1 = NewCall
    BY <1>2
  <2>2. Cardinality(1 .. NewCall) = IF 1 > NewCall THEN 0 ELSE NewCall - 1 + 1
    BY <2>1, FS_Interval
  <2> QED BY <2>1, <2>2
<1> QED BY <1>2, <1>3, <1>4

\* A connection's two parts.
LEMMA KnockParts ==
    ASSUME CTypes, NEW k \in DOMAIN knocks
    PROVE  k[1] \in DOMAIN calls /\ k[2] \in Phones /\ k \in Int \X Phones
<1> DEFINE D == DOMAIN calls
<1>a. D \subseteq Int
  BY DEF CTypes
<1>b. DOMAIN knocks \subseteq D \X Phones
  BY Zenon DEF CTypes
<1> HIDE DEF D
<1>1. k \in D \X Phones /\ D \subseteq Int
  BY <1>a, <1>b
<1>2. k[1] \in D /\ k[2] \in Phones /\ k \in Int \X Phones
  BY <1>1
<1> QED BY <1>2 DEF D

\* Who knocks, and a call's two ends, stay who they are.
LEMMA CallerStays ==
    ASSUME CTypes, DOMAIN calls \subseteq DOMAIN calls',
           \A c \in DOMAIN calls : calls'[c].dev = calls[c].dev
    PROVE  \A k \in DOMAIN knocks :
              /\ From(k)' = From(k) /\ Caller(k)' = Caller(k)
              /\ \A c : OtherEnd(c, k)' = OtherEnd(c, k)
<1> SUFFICES ASSUME NEW k \in DOMAIN knocks
             PROVE  /\ From(k)' = From(k) /\ Caller(k)' = Caller(k)
                    /\ \A c : OtherEnd(c, k)' = OtherEnd(c, k)
  OBVIOUS
<1>1. k[1] \in DOMAIN calls
  BY KnockParts
<1>2. From(k)' = From(k)
  BY <1>1 DEF From
<1> QED BY <1>2 DEF Caller, OtherEnd

\* Who knocks is a person.
LEMMA CallerIs ==
    ASSUME CTypes, NEW k \in DOMAIN knocks
    PROVE  Caller(k) \in Persons /\ Caller(k) # None /\ k # None /\ From(k) \in Phones
<1>1. k[1] \in DOMAIN calls /\ k \in Int \X Phones
  BY KnockParts
<1>2. calls[k[1]].dev \in Phones
  BY <1>1 DEF CTypes, CallRec
<1> QED BY <1>1, <1>2, VoiceConstants DEF Caller, From, Persons

(***************************************************************************)
(* What a step may do to the calls and to the connections, and what the    *)
(* window sees of it.                                                      *)
(***************************************************************************)

\* Knocks change where they are, and what they go into is with who knocks.
LEMMA KnocksMove ==
    ASSUME CInv, UNCHANGED <<calls, current>>,
           knocks' \in [DOMAIN knocks -> KnockRec],
           ringing' \in [Phones -> DOMAIN knocks \cup {None}],
           \A k \in DOMAIN knocks :
              /\ knocks'[k].at \in {"taken", "written"} => knocks'[k].into # None
              /\ knocks'[k].into # None =>
                    knocks'[k].into \in DOMAIN calls /\ calls[knocks'[k].into].with = Caller(k)
    PROVE  CInv' /\ Line' = Line
<1>1. DOMAIN knocks' = DOMAIN knocks
  OBVIOUS
<1>2. CTypes'
  BY <1>1 DEF CInv, CTypes
<1>3. \A k : Caller(k)' = Caller(k) /\ \A c : OtherEnd(c, k)' = OtherEnd(c, k)
  BY DEF Caller, From, OtherEnd
<1>4. OnItsDevice' /\ Line' = Line
  BY DEF CInv, OnItsDevice, Line
<1>5. Outward'
  BY <1>1, <1>3 DEF CInv, Outward
<1>6. Inward'
  BY <1>1, <1>3 DEF CInv, Inward
<1>7. Connected'
  BY <1>1, <1>3 DEF CInv, Connected, Heard
<1> QED BY <1>2, <1>4, <1>5, <1>6, <1>7 DEF CInv

\* The state of one call changes, not whose it is nor with whom; connections
\* close or move on, and the call may cease to be the current one.
LEMMA CallChanges ==
    ASSUME CInv, NEW c \in DOMAIN calls,
           calls' \in [DOMAIN calls -> CallRec],
           \A b \in DOMAIN calls : calls'[b].dev = calls[b].dev /\ calls'[b].with = calls[b].with,
           \A b \in DOMAIN calls \ {c} : calls'[b] = calls[b],
           calls'[c].out \subseteq calls[c].out,
           calls'[c].peer # None => Heard(c, calls'[c].peer),
           knocks' \in [DOMAIN knocks -> KnockRec],
           \A k \in DOMAIN knocks :
              /\ knocks'[k].into = knocks[k].into
              /\ knocks'[k].at \in {"taken", "written"} => knocks[k].at \in {"taken", "written"},
           \/ current' = current
           \/ current' = [current EXCEPT ![calls[c].dev] = None],
           ringing' = ringing
    PROVE  CInv'
<1>1. DOMAIN knocks' = DOMAIN knocks /\ DOMAIN calls' = DOMAIN calls
  OBVIOUS
<1>t. CTypes
  BY DEF CInv
<1>d. calls[c].dev \in Phones
  BY <1>t DEF CTypes, CallRec
<1>2. CTypes'
  <2>1. current' \in [Phones -> DOMAIN calls \cup {None}]
    BY <1>t DEF CTypes
  <2> QED BY <1>1, <1>t, <2>1 DEF CTypes
<1>3. \A k \in DOMAIN knocks : Caller(k)' = Caller(k) /\ \A b : OtherEnd(b, k)' = OtherEnd(b, k)
  BY <1>1, <1>t, CallerStays
<1>4. OnItsDevice'
  <2> SUFFICES ASSUME NEW d \in Phones, current'[d] # None PROVE calls'[current'[d]].dev = d
    BY DEF OnItsDevice
  <2>1. current'[d] = current[d]
    BY <1>t, <1>d DEF CTypes
  <2>2. current[d] \in DOMAIN calls /\ calls[current[d]].dev = d
    BY <1>t, <2>1 DEF CTypes, CInv, OnItsDevice
  <2> QED BY <2>1, <2>2
<1>5. Outward'
  <2> SUFFICES ASSUME NEW k \in DOMAIN knocks
               PROVE  OwnerOf[k[2]] = calls'[k[1]].with /\ calls'[k[1]].with # Caller(k)'
    BY <1>1 DEF Outward
  <2>1. k[1] \in DOMAIN calls
    BY <1>t, KnockParts
  <2> QED BY <1>3, <2>1 DEF CInv, Outward
<1>6. Inward'
  BY <1>1, <1>3 DEF CInv, Inward
<1>7. Connected'
  <2>1. ASSUME NEW b \in DOMAIN calls PROVE calls'[b].out \subseteq {k \in DOMAIN knocks : k[1] = b}
    <3>1. calls'[b].out \subseteq calls[b].out
      BY <2>1
    <3> QED BY <3>1 DEF CInv, Connected
  <2>2. ASSUME NEW b \in DOMAIN calls, NEW k, calls'[b].peer = k, k # None
        PROVE  k \in DOMAIN knocks /\ OwnerOf[IF k[1] = b THEN k[2] ELSE calls'[k[1]].dev] = calls'[b].with
    <3>1. Heard(b, k)
      BY <2>2 DEF CInv, Connected
    <3>2. k \in DOMAIN knocks /\ OwnerOf[IF k[1] = b THEN k[2] ELSE calls[k[1]].dev] = calls[b].with
      BY <3>1 DEF Heard, OtherEnd, From
    <3>3. k[1] \in DOMAIN calls
      BY <1>t, <3>2, KnockParts
    <3> QED BY <3>2, <3>3
  <2> QED BY <1>1, <2>1, <2>2 DEF Connected, Heard, OtherEnd, From
<1> QED BY <1>2, <1>4, <1>5, <1>6, <1>7 DEF CInv

\* A call begins on a device that is in none: dialled, with its connections,
\* or answered, with none.
LEMMA CallStarts ==
    ASSUME CInv, NEW d \in Phones, NEW p \in Persons, NEW out, Start(d, p, out), current[d] = None,
           out \subseteq {NewCall} \X Phones,
           \A k \in out : OwnerOf[k[2]] = p /\ p # OwnerOf[d] /\ knocks'[k].at = "way" /\ knocks'[k].into = None,
           knocks' \in [DOMAIN knocks \cup out -> KnockRec],
           \A k \in DOMAIN knocks :
              knocks'[k].at = knocks[k].at /\ knocks'[k].into = knocks[k].into,
           ringing' \in [Phones -> DOMAIN knocks \cup {None}]
    PROVE  CInv' /\ Line[d] = None /\ Line' = [Line EXCEPT ![d] = [with |-> p, talking |-> FALSE]]
<1> DEFINE n == NewCall
           new == [dev |-> d, with |-> p, live |-> TRUE, up |-> FALSE, peer |-> None, out |-> out]
<1>t. CTypes
  BY DEF CInv
<1>n. /\ n \in Nat \ {0} /\ n \notin DOMAIN calls /\ n # None /\ n \in Int
      /\ Cardinality(DOMAIN calls \cup {n}) = n /\ DOMAIN calls \cup {n} = 1 .. n
  BY <1>t, NewCallIsNew
<1>s. /\ calls' = [c \in DOMAIN calls \cup {n} |-> IF c # n THEN calls[c] ELSE new]
      /\ current' = [current EXCEPT ![d] = n]
  BY DEF Start
<1>o. out \subseteq Int \X Phones /\ \A k \in out : k[1] = n /\ k[2] \in Phones
  BY <1>n
<1>r. new \in CallRec /\ new.dev = d /\ new.with = p /\ new.up = FALSE /\ new.peer = None /\ new.out = out
  BY <1>o DEF CallRec
<1> HIDE DEF n, new
<1>1. /\ DOMAIN calls' = DOMAIN calls \cup {n} /\ calls'[n] = new
      /\ \A c \in DOMAIN calls : calls'[c] = calls[c]
      /\ calls' \in [DOMAIN calls \cup {n} -> CallRec]
  <2>1. DOMAIN calls' = DOMAIN calls \cup {n} /\ calls'[n] = new
        /\ \A c \in DOMAIN calls : calls'[c] = calls[c]
    BY <1>s, <1>n
  <2>2. calls \in [DOMAIN calls -> CallRec]
    BY <1>t DEF CTypes
  <2>3. \A c \in DOMAIN calls \cup {n} : calls'[c] \in CallRec
    BY <2>1, <2>2, <1>r
  <2>4. calls' = [c \in DOMAIN calls \cup {n} |-> calls'[c]]
    BY <1>s
  <2> QED BY <2>1, <2>3, <2>4
<1>2. DOMAIN knocks' = DOMAIN knocks \cup out
  OBVIOUS
<1>3. current'[d] = n /\ \A e \in Phones \ {d} : current'[e] = current[e]
  BY <1>s, <1>t DEF CTypes
<1>4. CTypes'
  <2>1. DOMAIN calls' = 1 .. n /\ Cardinality(DOMAIN calls') = n
    BY <1>1, <1>n
  <2>2. current' \in [Phones -> DOMAIN calls' \cup {None}]
    BY <1>1, <1>s, <1>t DEF CTypes
  <2>3. DOMAIN knocks' \subseteq (DOMAIN calls') \X Phones
    <3>1. \A k \in out : k \in {n} \X Phones
      BY DEF n
    <3>2. DOMAIN knocks \subseteq (DOMAIN calls) \X Phones
      BY <1>t DEF CTypes
    <3> QED BY <1>1, <1>2, <3>1, <3>2
  <2>4. ringing' \in [Phones -> DOMAIN knocks' \cup {None}]
    BY <1>2
  <2>5. calls' \in [DOMAIN calls' -> CallRec] /\ knocks' \in [DOMAIN knocks' -> KnockRec]
    BY <1>1, <1>2
  <2>6. Cardinality(DOMAIN calls') \in Nat /\ DOMAIN calls' = 1 .. Cardinality(DOMAIN calls')
    BY <2>1, <1>n
  <2> QED BY <2>2, <2>3, <2>4, <2>5, <2>6 DEF CTypes
<1>5. \A k \in DOMAIN knocks : /\ Caller(k)' = Caller(k) /\ k[1] \in DOMAIN calls
                               /\ \A c : OtherEnd(c, k)' = OtherEnd(c, k)
  BY <1>1, <1>t, CallerStays, KnockParts
<1>6. OnItsDevice'
  <2> SUFFICES ASSUME NEW e \in Phones, current'[e] # None PROVE calls'[current'[e]].dev = e
    BY DEF OnItsDevice
  <2>1. CASE e = d
    BY <1>1, <1>3, <1>r, <2>1
  <2>2. CASE e # d
    <3>1. current'[e] = current[e] /\ current[e] \in DOMAIN calls /\ calls[current[e]].dev = e
      BY <1>3, <1>t, <2>2 DEF CTypes, CInv, OnItsDevice
    <3> QED BY <1>1, <3>1
  <2> QED BY <2>1, <2>2
<1>7. Outward'
  <2> SUFFICES ASSUME NEW k \in DOMAIN knocks \cup out
               PROVE  OwnerOf[k[2]] = calls'[k[1]].with /\ calls'[k[1]].with # OwnerOf[calls'[k[1]].dev]
    BY <1>2 DEF Outward, Caller, From
  <2>1. CASE k \in DOMAIN knocks
    BY <1>1, <1>5, <2>1 DEF CInv, Outward, Caller, From
  <2>2. CASE k \in out
    BY <1>1, <1>o, <1>r, <2>2
  <2> QED BY <2>1, <2>2
<1>8. Inward'
  <2> SUFFICES ASSUME NEW k \in DOMAIN knocks \cup out
               PROVE  /\ knocks'[k].at \in {"taken", "written"} => knocks'[k].into # None
                      /\ knocks'[k].into # None =>
                           knocks'[k].into \in DOMAIN calls' /\ calls'[knocks'[k].into].with = Caller(k)'
    BY <1>2 DEF Inward
  <2>1. CASE k \in DOMAIN knocks
    BY <1>1, <1>5, <2>1 DEF CInv, Inward
  <2>2. CASE k \in out
    BY <2>2
  <2> QED BY <2>1, <2>2
<1>9. Connected'
  <2>1. ASSUME NEW c \in DOMAIN calls'
        PROVE  calls'[c].out \subseteq {k \in DOMAIN knocks' : k[1] = c}
    <3>1. CASE c = n
      BY <1>1, <1>2, <1>o, <1>r, <3>1
    <3>2. CASE c \in DOMAIN calls
      BY <1>1, <1>2, <3>2 DEF CInv, Connected
    <3> QED BY <1>1, <3>1, <3>2
  <2>2. ASSUME NEW c \in DOMAIN calls', NEW k, calls'[c].peer = k, k # None
        PROVE  k \in DOMAIN knocks' /\ OwnerOf[IF k[1] = c THEN k[2] ELSE calls'[k[1]].dev] = calls'[c].with
    <3>1. c \in DOMAIN calls /\ calls[c].peer = k
      BY <1>1, <1>r, <2>2
    <3>2. Heard(c, k)
      BY <2>2, <3>1 DEF CInv, Connected
    <3>3. k \in DOMAIN knocks /\ OwnerOf[IF k[1] = c THEN k[2] ELSE calls[k[1]].dev] = calls[c].with
      BY <3>2 DEF Heard, OtherEnd, From
    <3> QED BY <1>1, <1>2, <1>5, <3>1, <3>3
  <2> QED BY <2>1, <2>2 DEF Connected, Heard, OtherEnd, From
<1>10. Line[d] = None /\ Line' = [Line EXCEPT ![d] = [with |-> p, talking |-> FALSE]]
  <2>1. Line[d] = None
    BY DEF Line
  <2>2. ASSUME NEW e \in Phones
        PROVE  (IF current'[e] = None THEN None
                ELSE [with |-> calls'[current'[e]].with, talking |-> calls'[current'[e]].up])
               = IF e = d THEN [with |-> p, talking |-> FALSE] ELSE Line[e]
    <3>1. CASE e = d
      BY <1>1, <1>3, <1>n, <1>r, <3>1
    <3>2. CASE e # d
      <4>1. current'[e] = current[e] /\ current[e] \in DOMAIN calls \cup {None}
        BY <1>3, <1>t, <3>2 DEF CTypes
      <4> QED BY <1>1, <3>2, <4>1 DEF Line
    <3> QED BY <3>1, <3>2
  <2>3. Line' = [e \in Phones |-> IF current'[e] = None THEN None
                ELSE [with |-> calls'[current'[e]].with, talking |-> calls'[current'[e]].up]]
    BY DEF Line
  <2>4. DOMAIN Line = Phones
    BY DEF Line
  <2> QED BY <2>1, <2>2, <2>3, <2>4
<1> QED BY <1>4, <1>6, <1>7, <1>8, <1>9, <1>10 DEF CInv

\* The bell rings for the same person while the knock is the same.
LEMMA BellKept ==
    ASSUME CInv, ringing' = ringing, DOMAIN calls \subseteq DOMAIN calls',
           \A c \in DOMAIN calls : calls'[c].dev = calls[c].dev
    PROVE  Bell' = Bell
<1>t. CTypes
  BY DEF CInv
<1>1. ASSUME NEW d \in Phones
      PROVE  (IF ringing'[d] = None THEN None ELSE OwnerOf[calls'[ringing'[d][1]].dev]) = Bell[d]
  <2>1. ringing[d] # None => ringing[d] \in DOMAIN knocks
    BY <1>t DEF CTypes
  <2>2. ringing[d] # None => ringing[d][1] \in DOMAIN calls
    BY <1>t, <2>1, KnockParts
  <2> QED BY <2>2 DEF Bell, Caller, From
<1>2. Bell' = [d \in Phones |-> IF ringing'[d] = None THEN None ELSE OwnerOf[calls'[ringing'[d][1]].dev]]
  BY DEF Bell, Caller, From
<1> QED BY <1>1, <1>2 DEF Bell

\* A device's bell stops, or begins to ring for a knock, and nothing else
\* is seen.
LEMMA BellMoves ==
    ASSUME CInv, NEW d \in Phones, NEW k \in DOMAIN knocks \cup {None},
           ringing' = [ringing EXCEPT ![d] = k], UNCHANGED calls
    PROVE  Bell' = [Bell EXCEPT ![d] = IF k = None THEN None ELSE Caller(k)]
<1>1. ASSUME NEW e \in Phones
      PROVE  (IF ringing'[e] = None THEN None ELSE OwnerOf[calls[ringing'[e][1]].dev])
               = IF e = d THEN (IF k = None THEN None ELSE Caller(k)) ELSE Bell[e]
  <2>1. ringing'[e] = IF e = d THEN k ELSE ringing[e]
    BY DEF CInv, CTypes
  <2> QED BY <2>1 DEF Bell, Caller, From
<1>2. Bell' = [e \in Phones |-> IF ringing'[e] = None THEN None ELSE OwnerOf[calls[ringing'[e][1]].dev]]
  BY DEF Bell, Caller, From
<1>3. DOMAIN Bell = Phones
  BY DEF Bell
<1> QED BY <1>1, <1>2, <1>3

\* What the window sees of a call while who it is with and whether it was
\* answered stay.
LEMMA LineKept ==
    ASSUME CInv, current' = current,
           \A c \in DOMAIN calls : calls'[c].with = calls[c].with /\ calls'[c].up = calls[c].up
    PROVE  Line' = Line
<1>1. ASSUME NEW d \in Phones
      PROVE  (IF current'[d] = None THEN None
              ELSE [with |-> calls'[current'[d]].with, talking |-> calls'[current'[d]].up]) = Line[d]
  <2>1. current[d] # None => current[d] \in DOMAIN calls
    BY DEF CInv, CTypes
  <2> QED BY <2>1 DEF Line
<1>2. Line' = [d \in Phones |-> IF current'[d] = None THEN None
                ELSE [with |-> calls'[current'[d]].with, talking |-> calls'[current'[d]].up]]
  BY DEF Line
<1> QED BY <1>1, <1>2 DEF Line

\* A line that is not free.
LEMMA LineInCall ==
    ASSUME CInv, NEW d \in Phones, current[d] # None
    PROVE  /\ Line[d] = [with |-> calls[current[d]].with, talking |-> calls[current[d]].up]
           /\ Line[d] # None /\ Line[d] \in [with : Persons, talking : BOOLEAN]
<1>1. current[d] \in DOMAIN calls
  BY DEF CInv, CTypes
<1>2. calls[current[d]] \in CallRec
  BY <1>1 DEF CInv, CTypes
<1>3. calls[current[d]].with \in Persons /\ calls[current[d]].up \in BOOLEAN
  BY <1>2 DEF CallRec
<1>4. Line[d] = [with |-> calls[current[d]].with, talking |-> calls[current[d]].up]
  BY DEF Line
<1>5. Line[d] \in [with : Persons, talking : BOOLEAN]
  BY <1>3, <1>4
<1> QED BY <1>4, <1>5, VoiceConstants

\* The current call of a device ends: the line is put down.
LEMMA LineDown ==
    ASSUME CInv, NEW d \in Phones, current[d] # None, current' = [current EXCEPT ![d] = None],
           \A c \in DOMAIN calls : calls'[c].with = calls[c].with /\ calls'[c].up = calls[c].up
    PROVE  Line[d] # None /\ Line' = [Line EXCEPT ![d] = None]
<1>1. ASSUME NEW e \in Phones
      PROVE  (IF current'[e] = None THEN None
              ELSE [with |-> calls'[current'[e]].with, talking |-> calls'[current'[e]].up])
             = IF e = d THEN None ELSE Line[e]
  <2>1. current[e] # None => current[e] \in DOMAIN calls
    BY DEF CInv, CTypes
  <2>2. current'[e] = IF e = d THEN None ELSE current[e]
    BY DEF CInv, CTypes
  <2> QED BY <2>1, <2>2 DEF Line
<1>2. Line' = [e \in Phones |-> IF current'[e] = None THEN None
                ELSE [with |-> calls'[current'[e]].with, talking |-> calls'[current'[e]].up]]
  BY DEF Line
<1>3. DOMAIN Line = Phones
  BY DEF Line
<1>4. Line' = [Line EXCEPT ![d] = None]
  BY <1>1, <1>2, <1>3
<1> QED BY <1>4, LineInCall

\* A call is answered: the line it is on goes to talking, if it is the
\* current one there and did not talk yet.
LEMMA LineTalks ==
    ASSUME CInv, NEW c \in DOMAIN calls, current' = current,
           calls'[c].with = calls[c].with /\ calls'[c].up = TRUE,
           \A b \in DOMAIN calls \ {c} : calls'[b] = calls[b]
    PROVE  \/ Line' = Line
           \/ /\ calls[c].dev \in Phones /\ Line[calls[c].dev] # None /\ ~Line[calls[c].dev].talking
              /\ Line' = [Line EXCEPT ![calls[c].dev].talking = TRUE]
<1> DEFINE d == calls[c].dev
<1>d. d \in Phones /\ calls[c].up \in BOOLEAN
  <2>1. calls[c] \in CallRec
    BY DEF CInv, CTypes
  <2> QED BY <2>1 DEF CallRec
<1>l. Line' = [e \in Phones |-> IF current[e] = None THEN None
                ELSE [with |-> calls'[current[e]].with, talking |-> calls'[current[e]].up]]
  BY DEF Line
<1>o. ASSUME NEW e \in Phones, current[e] # c
      PROVE  (IF current[e] = None THEN None
                ELSE [with |-> calls'[current[e]].with, talking |-> calls'[current[e]].up]) = Line[e]
  <2>1. current[e] # None => current[e] \in DOMAIN calls \ {c}
    BY <1>o DEF CInv, CTypes
  <2> QED BY <2>1 DEF Line
<1>u. \A e \in Phones : current[e] = c => e = d
  <2>1. c # None
    BY VoiceConstants DEF CInv, CTypes
  <2> QED BY <2>1 DEF CInv, OnItsDevice
<1>1. CASE current[d] # c
  <2>1. \A e \in Phones : current[e] # c
    BY <1>1, <1>u
  <2> QED BY <1>l, <1>o, <2>1 DEF Line
<1>2. CASE current[d] = c /\ calls[c].up
  <2>1. calls'[c].up = calls[c].up
    BY <1>d, <1>2
  <2>2. \A b \in DOMAIN calls : calls'[b].with = calls[b].with /\ calls'[b].up = calls[b].up
    BY <2>1
  <2> QED BY <2>2, LineKept
<1>3. CASE current[d] = c /\ ~calls[c].up
  <2>0. c # None
    BY VoiceConstants DEF CInv, CTypes
  <2>1. /\ Line[d] = [with |-> calls[c].with, talking |-> calls[c].up]
        /\ Line[d] # None /\ Line[d] \in [with : Persons, talking : BOOLEAN]
    BY <1>d, <1>3, <2>0, LineInCall
  <2>2. ~Line[d].talking /\ [Line[d] EXCEPT !.talking = TRUE] = [with |-> calls[c].with, talking |-> TRUE]
    <3>1. Line[d].talking = calls[c].up /\ Line[d].with = calls[c].with
      BY <2>1
    <3>2. [Line[d] EXCEPT !.talking = TRUE] = [with |-> Line[d].with, talking |-> TRUE]
      <4>1. ASSUME NEW r \in [with : Persons, talking : BOOLEAN], NEW t
            PROVE  [r EXCEPT !.talking = t] = [with |-> r.with, talking |-> t]
        OBVIOUS
      <4> QED BY <2>1, <4>1, Zenon
    <3> QED BY <1>3, <3>1, <3>2
  <2>3. Line' = [Line EXCEPT ![d] = [with |-> calls[c].with, talking |-> TRUE]]
    <3>1. DOMAIN Line = Phones
      BY DEF Line
    <3>2. ASSUME NEW e \in Phones
          PROVE (IF current[e] = None THEN None
                ELSE [with |-> calls'[current[e]].with, talking |-> calls'[current[e]].up])
                = IF e = d THEN [with |-> calls[c].with, talking |-> TRUE] ELSE Line[e]
      <4>1. CASE e = d
        BY <1>3, <2>0, <4>1
      <4>2. CASE e # d
        BY <1>o, <1>u, <4>2
      <4> QED BY <4>1, <4>2
    <3> QED BY <1>l, <3>1, <3>2
  <2>4. Line' = [Line EXCEPT ![d].talking = TRUE]
    BY <2>2, <2>3
  <2> QED BY <1>d, <2>1, <2>2, <2>4
<1> QED BY <1>1, <1>2, <1>3

(***************************************************************************)
(* The steps.                                                              *)
(***************************************************************************)

\* A call but for its state.
CallKept(f, c) ==
    /\ f \in [DOMAIN calls -> CallRec]
    /\ \A b \in DOMAIN calls : f[b].dev = calls[b].dev /\ f[b].with = calls[b].with
    /\ \A b \in DOMAIN calls \ {c} : f[b] = calls[b]

\* A call is stopped.
LEMMA StopCall ==
    ASSUME CTypes, NEW c \in DOMAIN calls, NEW l \in BOOLEAN
    PROVE  LET f == [calls EXCEPT ![c].live = l, ![c].peer = None, ![c].out = {}]
           IN  CallKept(f, c) /\ f[c].up = calls[c].up /\ f[c].peer = None /\ f[c].out = {}
<1> DEFINE f == [calls EXCEPT ![c].live = l, ![c].peer = None, ![c].out = {}]
<1>1. calls \in [DOMAIN calls -> CallRec] /\ calls[c] \in CallRec
  BY DEF CTypes
<1>2. /\ f[c] = [calls[c] EXCEPT !.live = l, !.peer = None, !.out = {}]
      /\ \A b \in DOMAIN calls \ {c} : f[b] = calls[b]
      /\ DOMAIN f = DOMAIN calls /\ f = [b \in DOMAIN calls |-> f[b]]
  BY <1>1
<1>3. ASSUME NEW r \in CallRec
      PROVE  /\ [r EXCEPT !.live = l, !.peer = None, !.out = {}] \in CallRec
             /\ [r EXCEPT !.live = l, !.peer = None, !.out = {}].dev = r.dev
             /\ [r EXCEPT !.live = l, !.peer = None, !.out = {}].with = r.with
             /\ [r EXCEPT !.live = l, !.peer = None, !.out = {}].up = r.up
             /\ [r EXCEPT !.live = l, !.peer = None, !.out = {}].peer = None
             /\ [r EXCEPT !.live = l, !.peer = None, !.out = {}].out = {}
  BY DEF CallRec
<1>4. /\ f[c] \in CallRec /\ f[c].dev = calls[c].dev /\ f[c].with = calls[c].with
      /\ f[c].up = calls[c].up /\ f[c].peer = None /\ f[c].out = {}
  <2> DEFINE r == [calls[c] EXCEPT !.live = l, !.peer = None, !.out = {}]
  <2>1. f[c] = r
    BY <1>2
  <2>2. /\ r \in CallRec /\ r.dev = calls[c].dev /\ r.with = calls[c].with
        /\ r.up = calls[c].up /\ r.peer = None /\ r.out = {}
    BY <1>1, <1>3
  <2> HIDE DEF f, r
  <2> QED BY <2>1, <2>2
<1> HIDE DEF f
<1>5. \A b \in DOMAIN calls : f[b] \in CallRec /\ f[b].dev = calls[b].dev /\ f[b].with = calls[b].with
  BY <1>1, <1>2, <1>4
<1>6. CallKept(f, c)
  BY <1>2, <1>5 DEF CallKept
<1> QED BY <1>4, <1>6 DEF f

PutThroughTo(c, k, u) == [calls EXCEPT ![c].peer = k, ![c].up = u, ![c].out = {}]
Answered(c, k, u) == [calls EXCEPT ![c].peer = k, ![c].up = u]

\* A call gets its peer.
LEMMA PeerCall ==
    ASSUME CTypes, NEW c \in DOMAIN calls, NEW k \in Int \X Phones, NEW u \in BOOLEAN
    PROVE  LET f == PutThroughTo(c, k, u)
           IN  CallKept(f, c) /\ f[c].up = u /\ f[c].peer = k /\ f[c].out = {}
<1> DEFINE f == [calls EXCEPT ![c].peer = k, ![c].up = u, ![c].out = {}]
<1>1. calls \in [DOMAIN calls -> CallRec] /\ calls[c] \in CallRec
  BY DEF CTypes
<1>2. /\ f[c] = [calls[c] EXCEPT !.peer = k, !.up = u, !.out = {}]
      /\ \A b \in DOMAIN calls \ {c} : f[b] = calls[b]
      /\ DOMAIN f = DOMAIN calls /\ f = [b \in DOMAIN calls |-> f[b]]
  BY <1>1
<1>3. ASSUME NEW r \in CallRec
      PROVE  /\ [r EXCEPT !.peer = k, !.up = u, !.out = {}] \in CallRec
             /\ [r EXCEPT !.peer = k, !.up = u, !.out = {}].dev = r.dev
             /\ [r EXCEPT !.peer = k, !.up = u, !.out = {}].with = r.with
             /\ [r EXCEPT !.peer = k, !.up = u, !.out = {}].up = u
             /\ [r EXCEPT !.peer = k, !.up = u, !.out = {}].peer = k
             /\ [r EXCEPT !.peer = k, !.up = u, !.out = {}].out = {}
  BY DEF CallRec
<1>4. /\ f[c] \in CallRec /\ f[c].dev = calls[c].dev /\ f[c].with = calls[c].with
      /\ f[c].up = u /\ f[c].peer = k /\ f[c].out = {}
  <2> DEFINE r == [calls[c] EXCEPT !.peer = k, !.up = u, !.out = {}]
  <2>1. f[c] = r
    BY <1>2
  <2>2. /\ r \in CallRec /\ r.dev = calls[c].dev /\ r.with = calls[c].with
        /\ r.up = u /\ r.peer = k /\ r.out = {}
    BY <1>1, <1>3
  <2> HIDE DEF f, r
  <2> QED BY <2>1, <2>2
<1> HIDE DEF f
<1>5. \A b \in DOMAIN calls : f[b] \in CallRec /\ f[b].dev = calls[b].dev /\ f[b].with = calls[b].with
  BY <1>1, <1>2, <1>4
<1>6. CallKept(f, c)
  BY <1>2, <1>5 DEF CallKept
<1> QED BY <1>4, <1>6 DEF f, PutThroughTo

\* A call gets its peer, and goes on awaiting what it awaited.
LEMMA AnsweredCall ==
    ASSUME CTypes, NEW c \in DOMAIN calls, NEW k \in Int \X Phones, NEW u \in BOOLEAN
    PROVE  LET f == Answered(c, k, u)
           IN  CallKept(f, c) /\ f[c].up = u /\ f[c].peer = k /\ f[c].out = calls[c].out
<1> DEFINE f == [calls EXCEPT ![c].peer = k, ![c].up = u]
<1>1. calls \in [DOMAIN calls -> CallRec] /\ calls[c] \in CallRec
  BY DEF CTypes
<1>2. /\ f[c] = [calls[c] EXCEPT !.peer = k, !.up = u]
      /\ \A b \in DOMAIN calls \ {c} : f[b] = calls[b]
      /\ DOMAIN f = DOMAIN calls /\ f = [b \in DOMAIN calls |-> f[b]]
  BY <1>1
<1>3. ASSUME NEW r \in CallRec
      PROVE  /\ [r EXCEPT !.peer = k, !.up = u] \in CallRec
             /\ [r EXCEPT !.peer = k, !.up = u].dev = r.dev
             /\ [r EXCEPT !.peer = k, !.up = u].with = r.with
             /\ [r EXCEPT !.peer = k, !.up = u].up = u
             /\ [r EXCEPT !.peer = k, !.up = u].peer = k
             /\ [r EXCEPT !.peer = k, !.up = u].out = r.out
  BY DEF CallRec
<1>4. /\ f[c] \in CallRec /\ f[c].dev = calls[c].dev /\ f[c].with = calls[c].with
      /\ f[c].up = u /\ f[c].peer = k /\ f[c].out = calls[c].out
  BY <1>1, <1>2, <1>3
<1> HIDE DEF f
<1>5. \A b \in DOMAIN calls : f[b] \in CallRec /\ f[b].dev = calls[b].dev /\ f[b].with = calls[b].with
  BY <1>1, <1>2, <1>4
<1>6. CallKept(f, c)
  BY <1>2, <1>5 DEF CallKept
<1> QED BY <1>4, <1>6 DEF f, Answered

\* A call loses its peer, or a connection it awaited.
LEMMA LessCall ==
    ASSUME CTypes, NEW c \in DOMAIN calls, NEW o \in SUBSET (Int \X Phones)
    PROVE  /\ LET f == [calls EXCEPT ![c].peer = None]
              IN  CallKept(f, c) /\ f[c].up = calls[c].up /\ f[c].peer = None /\ f[c].out = calls[c].out
           /\ LET f == [calls EXCEPT ![c].out = o]
              IN  CallKept(f, c) /\ f[c].up = calls[c].up /\ f[c].peer = calls[c].peer /\ f[c].out = o
<1> DEFINE f == [calls EXCEPT ![c].peer = None]
           g == [calls EXCEPT ![c].out = o]
<1>1. calls \in [DOMAIN calls -> CallRec] /\ calls[c] \in CallRec
  BY DEF CTypes
<1>2. /\ f[c] = [calls[c] EXCEPT !.peer = None]
      /\ \A b \in DOMAIN calls \ {c} : f[b] = calls[b]
      /\ DOMAIN f = DOMAIN calls /\ f = [b \in DOMAIN calls |-> f[b]]
  BY <1>1
<1>3. /\ g[c] = [calls[c] EXCEPT !.out = o]
      /\ \A b \in DOMAIN calls \ {c} : g[b] = calls[b]
      /\ DOMAIN g = DOMAIN calls /\ g = [b \in DOMAIN calls |-> g[b]]
  BY <1>1
<1>4. ASSUME NEW r \in CallRec
      PROVE  /\ [r EXCEPT !.peer = None] \in CallRec /\ [r EXCEPT !.out = o] \in CallRec
             /\ [r EXCEPT !.peer = None].dev = r.dev /\ [r EXCEPT !.out = o].dev = r.dev
             /\ [r EXCEPT !.peer = None].with = r.with /\ [r EXCEPT !.out = o].with = r.with
             /\ [r EXCEPT !.peer = None].up = r.up /\ [r EXCEPT !.out = o].up = r.up
             /\ [r EXCEPT !.peer = None].peer = None /\ [r EXCEPT !.out = o].peer = r.peer
             /\ [r EXCEPT !.peer = None].out = r.out /\ [r EXCEPT !.out = o].out = o
  BY DEF CallRec
<1>5. /\ f[c] \in CallRec /\ f[c].dev = calls[c].dev /\ f[c].with = calls[c].with
      /\ f[c].up = calls[c].up /\ f[c].peer = None /\ f[c].out = calls[c].out
  BY <1>1, <1>2, <1>4
<1>6. /\ g[c] \in CallRec /\ g[c].dev = calls[c].dev /\ g[c].with = calls[c].with
      /\ g[c].up = calls[c].up /\ g[c].peer = calls[c].peer /\ g[c].out = o
  BY <1>1, <1>3, <1>4
<1> HIDE DEF f, g
<1>7. CallKept(f, c)
  <2>1. \A b \in DOMAIN calls : f[b] \in CallRec /\ f[b].dev = calls[b].dev /\ f[b].with = calls[b].with
    BY <1>1, <1>2, <1>5
  <2> QED BY <1>2, <2>1 DEF CallKept
<1>8. CallKept(g, c)
  <2>1. \A b \in DOMAIN calls : g[b] \in CallRec /\ g[b].dev = calls[b].dev /\ g[b].with = calls[b].with
    BY <1>1, <1>3, <1>6
  <2> QED BY <1>3, <2>1 DEF CallKept
<1> QED BY <1>5, <1>6, <1>7, <1>8 DEF f, g

\* A knock is now at `a`, to go into `i`, and the others are as they were.
Moved(f, kn, k, a, i) ==
    /\ f \in [DOMAIN kn -> KnockRec]
    /\ f[k].at = a /\ f[k].into = i
    /\ \A j \in DOMAIN kn \ {k} : f[j] = kn[j]

Places == {"way", "rings", "stopping", "taken", "written", "in", "done"}

\* A knock moves on.
LEMMA MoveKnock ==
    ASSUME NEW kn, kn \in [DOMAIN kn -> KnockRec], NEW k \in DOMAIN kn,
           NEW a \in Places
    PROVE  Moved([kn EXCEPT ![k].at = a], kn, k, a, kn[k].into)
<1> DEFINE f == [kn EXCEPT ![k].at = a]
<1>1. /\ f[k] = [kn[k] EXCEPT !.at = a]
      /\ \A j \in DOMAIN kn \ {k} : f[j] = kn[j]
      /\ DOMAIN f = DOMAIN kn /\ f = [j \in DOMAIN kn |-> f[j]]
  OBVIOUS
<1>0. kn[k] \in KnockRec
  OBVIOUS
<1>2. ASSUME NEW r \in KnockRec
      PROVE  /\ [r EXCEPT !.at = a] \in KnockRec
             /\ [r EXCEPT !.at = a].at = a
             /\ [r EXCEPT !.at = a].into = r.into
  BY DEF KnockRec, Places
<1>3. f[k] \in KnockRec /\ f[k].at = a /\ f[k].into = kn[k].into
  BY <1>0, <1>1, <1>2
<1> HIDE DEF f
<1>4. \A j \in DOMAIN kn : f[j] \in KnockRec
  BY <1>1, <1>3
<1> QED BY <1>1, <1>3, <1>4 DEF Moved, f

\* A knock moves on with a reply.
LEMMA AnswerKnock ==
    ASSUME NEW kn, kn \in [DOMAIN kn -> KnockRec], NEW k \in DOMAIN kn,
           NEW a \in Places, NEW v \in {"yes", "no"}
    PROVE  Moved([kn EXCEPT ![k].at = a, ![k].reply = v], kn, k, a, kn[k].into)
<1> DEFINE f == [kn EXCEPT ![k].at = a, ![k].reply = v]
<1>1. /\ f[k] = [kn[k] EXCEPT !.at = a, !.reply = v]
      /\ \A j \in DOMAIN kn \ {k} : f[j] = kn[j]
      /\ DOMAIN f = DOMAIN kn /\ f = [j \in DOMAIN kn |-> f[j]]
  OBVIOUS
<1>0. kn[k] \in KnockRec
  OBVIOUS
<1>2. ASSUME NEW r \in KnockRec
      PROVE  /\ [r EXCEPT !.at = a, !.reply = v] \in KnockRec
             /\ [r EXCEPT !.at = a, !.reply = v].at = a
             /\ [r EXCEPT !.at = a, !.reply = v].into = r.into
  BY DEF KnockRec, Places
<1>3. f[k] \in KnockRec /\ f[k].at = a /\ f[k].into = kn[k].into
  BY <1>0, <1>1, <1>2
<1> HIDE DEF f
<1>4. \A j \in DOMAIN kn : f[j] \in KnockRec
  BY <1>1, <1>3
<1> QED BY <1>1, <1>3, <1>4 DEF Moved, f

\* A knock is taken into a call.
LEMMA TakeKnock ==
    ASSUME NEW kn, kn \in [DOMAIN kn -> KnockRec], NEW k \in DOMAIN kn,
           NEW a \in Places, NEW i \in Int
    PROVE  Moved([kn EXCEPT ![k].at = a, ![k].into = i], kn, k, a, i)
<1> DEFINE f == [kn EXCEPT ![k].at = a, ![k].into = i]
<1>1. /\ f[k] = [kn[k] EXCEPT !.at = a, !.into = i]
      /\ \A j \in DOMAIN kn \ {k} : f[j] = kn[j]
      /\ DOMAIN f = DOMAIN kn /\ f = [j \in DOMAIN kn |-> f[j]]
  OBVIOUS
<1>0. kn[k] \in KnockRec
  OBVIOUS
<1>2. ASSUME NEW r \in KnockRec
      PROVE  /\ [r EXCEPT !.at = a, !.into = i] \in KnockRec
             /\ [r EXCEPT !.at = a, !.into = i].at = a
             /\ [r EXCEPT !.at = a, !.into = i].into = i
  BY DEF KnockRec, Places
<1>3. f[k] \in KnockRec /\ f[k].at = a /\ f[k].into = i
  BY <1>0, <1>1, <1>2
<1> HIDE DEF f
<1>4. \A j \in DOMAIN kn : f[j] \in KnockRec
  BY <1>1, <1>3
<1> QED BY <1>1, <1>3, <1>4 DEF Moved, f

\* The person decided.
LEMMA DecideKnock ==
    ASSUME NEW kn, kn \in [DOMAIN kn -> KnockRec], NEW k \in DOMAIN kn,
           NEW v \in {"yes", "no"}
    PROVE  Moved([kn EXCEPT ![k].decide = v], kn, k, kn[k].at, kn[k].into)
<1> DEFINE f == [kn EXCEPT ![k].decide = v]
<1>1. /\ f[k] = [kn[k] EXCEPT !.decide = v]
      /\ \A j \in DOMAIN kn \ {k} : f[j] = kn[j]
      /\ DOMAIN f = DOMAIN kn /\ f = [j \in DOMAIN kn |-> f[j]]
  OBVIOUS
<1>0. kn[k] \in KnockRec
  OBVIOUS
<1>2. ASSUME NEW r \in KnockRec
      PROVE  /\ [r EXCEPT !.decide = v] \in KnockRec
             /\ [r EXCEPT !.decide = v].at = r.at
             /\ [r EXCEPT !.decide = v].into = r.into
  BY DEF KnockRec
<1>3. f[k] \in KnockRec /\ f[k].at = kn[k].at /\ f[k].into = kn[k].into
  BY <1>0, <1>1, <1>2
<1> HIDE DEF f
<1>4. \A j \in DOMAIN kn : f[j] \in KnockRec
  BY <1>1, <1>3
<1> QED BY <1>1, <1>3, <1>4 DEF Moved, f

\* What the window may see of a step.
Seen == Phone!PNext \/ UNCHANGED <<Line, Bell>>

\* Voice::end.
LEMMA Ends ==
    ASSUME CInv, NEW c \in DOMAIN calls, End(c), ringing' = ringing
    PROVE  CInv' /\ Seen
<1> DEFINE d == calls[c].dev
           K == calls[c].out \cup ({calls[c].peer} \ {None})
<1>t. CTypes /\ c # None
  BY VoiceConstants DEF CInv, CTypes
<1>d. d \in Phones
  <2>1. calls[c] \in CallRec
    BY <1>t DEF CTypes
  <2> QED BY <2>1 DEF CallRec
<1>1. CASE current[d] = c
  <2>1. /\ calls' = [calls EXCEPT ![c].live = FALSE, ![c].peer = None, ![c].out = {}]
        /\ knocks' = Closed(knocks, K) /\ current' = [current EXCEPT ![d] = None]
    BY <1>1 DEF End, Stop
  <2>2. CallKept(calls', c) /\ calls'[c].up = calls[c].up /\ calls'[c].peer = None /\ calls'[c].out = {}
    BY <1>t, <2>1, StopCall
  <2>3. knocks' \in [DOMAIN knocks -> KnockRec]
        /\ \A k \in DOMAIN knocks : knocks'[k].at = knocks[k].at /\ knocks'[k].into = knocks[k].into
    <3>1. knocks \in [DOMAIN knocks -> KnockRec]
      BY <1>t DEF CTypes
    <3> QED BY <2>1, <3>1, ClosedKeeps
  <2>4. CInv'
    <3>1. calls'[c].out \subseteq calls[c].out
      BY <2>2
    <3>2. /\ calls' \in [DOMAIN calls -> CallRec]
          /\ \A b \in DOMAIN calls : calls'[b].dev = calls[b].dev /\ calls'[b].with = calls[b].with
          /\ \A b \in DOMAIN calls \ {c} : calls'[b] = calls[b]
      BY <2>2 DEF CallKept
    <3> QED BY <2>1, <2>2, <2>3, <3>1, <3>2, CallChanges
  <2>5. \A b \in DOMAIN calls : /\ calls'[b].with = calls[b].with /\ calls'[b].up = calls[b].up
                                /\ calls'[b].dev = calls[b].dev
    BY <2>2 DEF CallKept
  <2>6. Line[d] # None /\ Line' = [Line EXCEPT ![d] = None]
    BY <1>1, <1>d, <1>t, <2>1, <2>5, LineDown
  <2>7. Bell' = Bell
    <3>1. DOMAIN calls \subseteq DOMAIN calls'
      BY <2>2 DEF CallKept
    <3> QED BY <2>5, <3>1, BellKept
  <2>8. Phone!PutDown(d)
    BY <2>6, <2>7 DEF Phone!PutDown
  <2> QED BY <1>d, <2>4, <2>8 DEF Seen, Phone!PNext
<1>2. CASE current[d] # c
  <2>1. UNCHANGED <<calls, knocks, current, ringing>>
    BY <1>2 DEF End
  <2> QED BY <2>1 DEF Seen, Line, Bell, Caller, From, CInv, CTypes, OnItsDevice, Outward, Inward,
                       Connected, Heard, OtherEnd
<1> QED BY <1>1, <1>2

\* A call's state changes while it stays what it is, nothing rings or stops:
\* what the window sees of it is the line's alone.
LEMMA CallAlone ==
    ASSUME CInv, NEW c \in DOMAIN calls, CallKept(calls', c),
           calls'[c].out \subseteq calls[c].out,
           calls'[c].peer # None => Heard(c, calls'[c].peer),
           knocks' \in [DOMAIN knocks -> KnockRec],
           \A k \in DOMAIN knocks :
              /\ knocks'[k].into = knocks[k].into
              /\ knocks'[k].at \in {"taken", "written"} => knocks[k].at \in {"taken", "written"},
           current' = current, ringing' = ringing,
           calls'[c].up \in {calls[c].up, TRUE}
    PROVE  CInv' /\ Seen
<1>1. /\ calls' \in [DOMAIN calls -> CallRec]
      /\ \A b \in DOMAIN calls : calls'[b].dev = calls[b].dev /\ calls'[b].with = calls[b].with
      /\ \A b \in DOMAIN calls \ {c} : calls'[b] = calls[b]
  BY DEF CallKept
<1>2. CInv'
  BY <1>1, CallChanges
<1>3. Bell' = Bell
  BY <1>1, BellKept
<1>4. CASE calls'[c].up = calls[c].up
  <2>1. \A b \in DOMAIN calls : calls'[b].with = calls[b].with /\ calls'[b].up = calls[b].up
    BY <1>1, <1>4
  <2>2. Line' = Line
    BY <2>1, LineKept
  <2> QED BY <1>2, <1>3, <2>2 DEF Seen
<1>5. CASE calls'[c].up = TRUE
  <2> DEFINE d == calls[c].dev
  <2>1. \/ Line' = Line
        \/ /\ d \in Phones /\ Line[d] # None /\ ~Line[d].talking
           /\ Line' = [Line EXCEPT ![d].talking = TRUE]
    BY <1>1, <1>5, LineTalks
  <2>2. CASE Line' = Line
    BY <1>2, <1>3, <2>2 DEF Seen
  <2>3. CASE /\ d \in Phones /\ Line[d] # None /\ ~Line[d].talking
             /\ Line' = [Line EXCEPT ![d].talking = TRUE]
    <3>1. Phone!Talk(d)
      BY <1>3, <2>3 DEF Phone!Talk
    <3> QED BY <1>2, <2>3, <3>1 DEF Seen, Phone!PNext
  <2> QED BY <2>1, <2>2, <2>3
<1> QED BY <1>4, <1>5

\* A knock at the listener moves on, and what it may go into is right.
LEMMA ListenerMoves ==
    ASSUME CInv, NEW k \in DOMAIN knocks, NEW a, NEW i, Moved(knocks', knocks, k, a, i),
           a \in {"taken", "written"} => i # None,
           i # None => i \in DOMAIN calls /\ calls[i].with = Caller(k),
           UNCHANGED <<calls, current>>, ringing' \in [Phones -> DOMAIN knocks \cup {None}]
    PROVE  CInv' /\ Line' = Line
<1>1. knocks' \in [DOMAIN knocks -> KnockRec]
  BY DEF Moved
<1>2. ASSUME NEW j \in DOMAIN knocks
      PROVE  /\ knocks'[j].at \in {"taken", "written"} => knocks'[j].into # None
             /\ knocks'[j].into # None =>
                   knocks'[j].into \in DOMAIN calls /\ calls[knocks'[j].into].with = Caller(j)
  <2>1. CASE j = k
    BY <2>1 DEF Moved
  <2>2. CASE j # k
    BY <2>2 DEF Moved, CInv, Inward
  <2> QED BY <2>1, <2>2
<1> QED BY <1>1, <1>2, KnocksMove

\* The steps of a knock that touch no call.
LEMMA KnockSteps ==
    ASSUME CInv, NEW k \in DOMAIN knocks, Knock(k) \/ GiveUp(k) \/ StopRinging(k) \/ Decided(k)
    PROVE  CInv' /\ Seen
<1> DEFINE d == k[2]
<1>t. CTypes /\ knocks \in [DOMAIN knocks -> KnockRec] /\ ringing \in [Phones -> DOMAIN knocks \cup {None}]
  BY DEF CInv, CTypes
<1>k. d \in Phones /\ k # None /\ Caller(k) \in Persons /\ Caller(k) # None
  BY <1>t, KnockParts, CallerIs
<1>u. UNCHANGED <<calls, current>>
  BY DEF Knock, GiveUp, StopRinging, Decided
<1>i. knocks[k].into # None =>
        knocks[k].into \in DOMAIN calls /\ calls[knocks[k].into].with = Caller(k)
  BY DEF CInv, Inward
<1>p. "rings" \in Places /\ "stopping" \in Places /\ "taken" \in Places /\ "done" \in Places
  BY DEF Places
<1>r. ASSUME knocks' = Refuse(k, knocks), ringing' \in [Phones -> DOMAIN knocks \cup {None}]
      PROVE  CInv' /\ Line' = Line
  <2>1. Moved(knocks', knocks, k, "done", knocks[k].into)
    BY <1>r, <1>t, <1>p, AnswerKnock DEF Refuse
  <2> QED BY <1>i, <1>r, <1>u, <2>1, ListenerMoves
<1>b. ASSUME ringing' = ringing PROVE Bell' = Bell
  BY <1>b, <1>u, BellKept
<1>1. CASE Knock(k)
  <2>1. CASE current[d] # None \/ ringing[d] # None
    <3>1. knocks' = Refuse(k, knocks) /\ ringing' = ringing
      BY <1>1, <2>1 DEF Knock
    <3> QED BY <1>b, <1>r, <1>t, <3>1 DEF Seen
  <2>2. CASE current[d] = None /\ ringing[d] = None
    <3>1. knocks' = [knocks EXCEPT ![k].at = "rings"] /\ ringing' = [ringing EXCEPT ![d] = k]
      BY <1>1, <2>2 DEF Knock
    <3>2. Moved(knocks', knocks, k, "rings", knocks[k].into)
      BY <1>p, <1>t, <3>1, MoveKnock
    <3>3. ringing' \in [Phones -> DOMAIN knocks \cup {None}]
      BY <1>t, <3>1
    <3>4. CInv' /\ Line' = Line
      BY <1>i, <1>u, <3>2, <3>3, ListenerMoves
    <3>5. Bell' = [Bell EXCEPT ![d] = Caller(k)]
      BY <1>k, <1>u, <3>1, BellMoves
    <3>6. Bell[d] = None /\ Line[d] = None
      BY <1>k, <2>2 DEF Bell, Line
    <3>7. Phone!RingFor(d, Caller(k))
      BY <3>4, <3>5, <3>6 DEF Phone!RingFor
    <3> QED BY <1>k, <3>4, <3>7 DEF Seen, Phone!PNext
  <2> QED BY <2>1, <2>2
<1>2. CASE GiveUp(k)
  <2>1. knocks' = [knocks EXCEPT ![k].at = "stopping"] /\ ringing' = ringing
    BY <1>2 DEF GiveUp
  <2>2. Moved(knocks', knocks, k, "stopping", knocks[k].into)
    BY <1>p, <1>t, <2>1, MoveKnock
  <2>3. CInv' /\ Line' = Line
    BY <1>i, <1>t, <1>u, <2>1, <2>2, ListenerMoves
  <2> QED BY <1>b, <2>1, <2>3 DEF Seen
<1>3. CASE StopRinging(k)
  <2>1. knocks' = Refuse(k, knocks) /\ ringing' = [ringing EXCEPT ![d] = IF @ = k THEN None ELSE @]
    BY <1>3 DEF StopRinging
  <2>2. CInv' /\ Line' = Line
    <3>1. ringing' \in [Phones -> DOMAIN knocks \cup {None}]
      BY <1>t, <2>1
    <3> QED BY <1>r, <2>1, <3>1
  <2>3. CASE ringing[d] = k
    <3>1. ringing' = [ringing EXCEPT ![d] = None]
      BY <1>k, <1>t, <2>1, <2>3
    <3>2. Bell' = [Bell EXCEPT ![d] = None]
      BY <1>k, <1>u, <3>1, BellMoves
    <3>3. Bell[d] # None
      BY <1>k, <2>3 DEF Bell
    <3>4. Phone!Silence(d)
      BY <2>2, <3>2, <3>3 DEF Phone!Silence
    <3> QED BY <1>k, <2>2, <3>4 DEF Seen, Phone!PNext
  <2>4. CASE ringing[d] # k
    <3>1. ringing' = ringing
      BY <1>k, <1>t, <2>1, <2>4
    <3> QED BY <1>b, <2>2, <3>1 DEF Seen
  <2> QED BY <2>3, <2>4
<1>4. CASE Decided(k)
  <2>1. CASE knocks[k].decide = "yes" /\ IntoCall(k)
    <3>1. knocks' = [knocks EXCEPT ![k].at = "taken", ![k].into = current[d]] /\ ringing' = ringing
      BY <1>4, <2>1 DEF Decided
    <3>2. current[d] # None /\ current[d] \in DOMAIN calls /\ calls[current[d]].with = Caller(k)
      BY <1>k, <1>t, <2>1 DEF IntoCall, CTypes
    <3>3. current[d] \in Int
      BY <1>t, <3>2 DEF CTypes
    <3>4. Moved(knocks', knocks, k, "taken", current[d])
      BY <1>p, <1>t, <3>1, <3>3, TakeKnock
    <3>5. CInv' /\ Line' = Line
      BY <1>t, <1>u, <3>1, <3>2, <3>4, ListenerMoves
    <3> QED BY <1>b, <3>1, <3>5 DEF Seen
  <2>2. CASE ~(knocks[k].decide = "yes" /\ IntoCall(k))
    <3>1. knocks' = Refuse(k, knocks) /\ ringing' = ringing
      BY <1>4, <2>2 DEF Decided
    <3> QED BY <1>b, <1>r, <1>t, <3>1 DEF Seen
  <2> QED BY <2>1, <2>2
<1> QED BY <1>1, <1>2, <1>3, <1>4

\* accept: the yes is written, or cannot be and the call ends.
LEMMA YesSteps ==
    ASSUME CInv, NEW k \in DOMAIN knocks, WriteYes(k)
    PROVE  CInv' /\ Seen
<1> DEFINE c == knocks[k].into
<1>t. CTypes /\ knocks \in [DOMAIN knocks -> KnockRec] /\ ringing \in [Phones -> DOMAIN knocks \cup {None}]
  BY DEF CInv, CTypes
<1>c. knocks[k].at = "taken" /\ c # None /\ c \in DOMAIN calls /\ calls[c].with = Caller(k)
      /\ ringing' = ringing
  BY DEF WriteYes, CInv, Inward
<1>p. "written" \in Places /\ "done" \in Places
  BY DEF Places
<1>1. CASE knocks[k].open
  <2>1. knocks' = [knocks EXCEPT ![k].at = "written", ![k].reply = "yes"] /\ UNCHANGED <<calls, current>>
    BY <1>1 DEF WriteYes
  <2>2. Moved(knocks', knocks, k, "written", c)
    BY <1>p, <1>t, <2>1, AnswerKnock
  <2>3. CInv' /\ Line' = Line
    BY <1>c, <1>t, <2>1, <2>2, ListenerMoves
  <2>4. Bell' = Bell
    BY <1>c, <2>1, BellKept
  <2> QED BY <2>3, <2>4 DEF Seen
<1>2. CASE ~knocks[k].open /\ current[calls[c].dev] # c
  <2>1. knocks' = [knocks EXCEPT ![k].at = "done"] /\ UNCHANGED <<calls, current>>
    BY <1>2 DEF WriteYes
  <2>2. Moved(knocks', knocks, k, "done", c)
    BY <1>p, <1>t, <2>1, MoveKnock
  <2>3. CInv' /\ Line' = Line
    BY <1>c, <1>t, <2>1, <2>2, ListenerMoves
  <2>4. Bell' = Bell
    BY <1>c, <2>1, BellKept
  <2> QED BY <2>3, <2>4 DEF Seen
<1>3. CASE ~knocks[k].open /\ current[calls[c].dev] = c
  <2> DEFINE d == calls[c].dev
             kn == Closed(knocks, calls[c].out \cup ({calls[c].peer} \ {None}))
  <2>1. /\ calls' = [calls EXCEPT ![c].live = FALSE, ![c].peer = None, ![c].out = {}]
        /\ knocks' = [kn EXCEPT ![k].at = "done"]
        /\ current' = [current EXCEPT ![d] = None]
    BY <1>3 DEF WriteYes
  <2>d. d \in Phones
    <3>1. calls[c] \in CallRec
      BY <1>c, <1>t DEF CTypes
    <3> QED BY <3>1 DEF CallRec
  <2>2. CallKept(calls', c) /\ calls'[c].up = calls[c].up /\ calls'[c].peer = None /\ calls'[c].out = {}
    BY <1>c, <1>t, <2>1, StopCall
  <2>3. /\ kn \in [DOMAIN knocks -> KnockRec] /\ DOMAIN kn = DOMAIN knocks
        /\ \A j \in DOMAIN knocks : kn[j].at = knocks[j].at /\ kn[j].into = knocks[j].into
    BY <1>t, ClosedKeeps
  <2> HIDE DEF kn
  <2>4. Moved(knocks', kn, k, "done", kn[k].into)
    BY <1>p, <2>1, <2>3, MoveKnock
  <2>5. /\ knocks' \in [DOMAIN knocks -> KnockRec]
        /\ \A j \in DOMAIN knocks :
              /\ knocks'[j].into = knocks[j].into
              /\ knocks'[j].at \in {"taken", "written"} => knocks[j].at \in {"taken", "written"}
    BY <2>3, <2>4 DEF Moved
  <2>6. \A b \in DOMAIN calls : /\ calls'[b].with = calls[b].with /\ calls'[b].up = calls[b].up
                                /\ calls'[b].dev = calls[b].dev
    BY <2>2 DEF CallKept
  <2>7. CInv'
    <3>1. calls'[c].out \subseteq calls[c].out
      BY <2>2
    <3>2. /\ calls' \in [DOMAIN calls -> CallRec]
          /\ \A b \in DOMAIN calls : calls'[b].dev = calls[b].dev /\ calls'[b].with = calls[b].with
          /\ \A b \in DOMAIN calls \ {c} : calls'[b] = calls[b]
      BY <2>2 DEF CallKept
    <3> QED BY <1>c, <2>1, <2>2, <2>5, <3>1, <3>2, CallChanges
  <2>8. Line[d] # None /\ Line' = [Line EXCEPT ![d] = None]
    BY <1>3, <1>c, <2>d, <2>1, <2>6, LineDown
  <2>9. Bell' = Bell
    <3>1. DOMAIN calls \subseteq DOMAIN calls'
      BY <2>2 DEF CallKept
    <3> QED BY <1>c, <2>6, <3>1, BellKept
  <2>10. Phone!PutDown(d)
    BY <2>8, <2>9 DEF Phone!PutDown
  <2> QED BY <2>d, <2>7, <2>10 DEF Seen, Phone!PNext
<1> QED BY <1>1, <1>2, <1>3

\* The two ends of an answered call are put through: the person who knocked
\* is not the one whose call it is.
LEMMA ThroughSteps ==
    ASSUME CInv, NEW k \in DOMAIN knocks, PutThrough(k) \/ HearYes(k)
    PROVE  CInv' /\ Seen
<1>t. CTypes /\ knocks \in [DOMAIN knocks -> KnockRec]
  BY DEF CInv, CTypes
<1>k. k \in Int \X Phones /\ k # None /\ k[1] \in DOMAIN calls
  BY <1>t, KnockParts, CallerIs
<1>o. OwnerOf[k[2]] = calls[k[1]].with /\ calls[k[1]].with # Caller(k)
  BY DEF CInv, Outward
<1>u. TRUE \in BOOLEAN /\ UNCHANGED <<current, ringing>>
  BY DEF PutThrough, HearYes
<1>1. CASE PutThrough(k)
  <2> DEFINE c == knocks[k].into
             kn == Closed(knocks, {calls[c].peer} \ {None, k})
  <2>1. /\ knocks[k].at = "written" /\ calls' = [calls EXCEPT ![c].peer = k, ![c].up = TRUE]
        /\ knocks' = [kn EXCEPT ![k].at = "in"]
    BY <1>1 DEF PutThrough, AddPeer
  <2>2. c \in DOMAIN calls /\ calls[c].with = Caller(k)
    BY <2>1 DEF CInv, Inward
  <2>3. CallKept(calls', c) /\ calls'[c].up = TRUE /\ calls'[c].peer = k /\ calls'[c].out = calls[c].out
    <3>1. calls' = Answered(c, k, TRUE)
      BY <2>1, Zenon DEF Answered
    <3> QED BY <1>k, <1>t, <1>u, <2>2, <3>1, AnsweredCall
  <2>4. Heard(c, k)
    BY <1>o, <2>2 DEF Heard, OtherEnd, Caller
  <2>5. /\ kn \in [DOMAIN knocks -> KnockRec] /\ DOMAIN kn = DOMAIN knocks
        /\ \A j \in DOMAIN knocks : kn[j].at = knocks[j].at /\ kn[j].into = knocks[j].into
    BY <1>t, ClosedKeeps
  <2> HIDE DEF kn
  <2>6. Moved(knocks', kn, k, "in", kn[k].into)
    <3>1. "in" \in Places
      BY DEF Places
    <3> QED BY <2>1, <2>5, <3>1, MoveKnock
  <2>7. /\ knocks' \in [DOMAIN knocks -> KnockRec]
        /\ \A j \in DOMAIN knocks :
              /\ knocks'[j].into = knocks[j].into
              /\ knocks'[j].at \in {"taken", "written"} => knocks[j].at \in {"taken", "written"}
    BY <2>5, <2>6 DEF Moved
  <2> HIDE DEF c
  <2>8. calls'[c].out \subseteq calls[c].out /\ calls'[c].up \in {calls[c].up, TRUE}
        /\ (calls'[c].peer # None => Heard(c, calls'[c].peer))
    BY <2>3, <2>4
  <2> QED BY <1>u, <2>2, <2>3, <2>7, <2>8, CallAlone
<1>2. CASE HearYes(k)
  <2> DEFINE c == k[1]
             K == (calls[c].out \cup ({calls[c].peer} \ {None})) \ {k}
  <2>1. /\ k \in calls[c].out /\ calls' = [calls EXCEPT ![c].peer = k, ![c].up = TRUE, ![c].out = {}]
        /\ knocks' = Closed(knocks, K)
    BY <1>2 DEF HearYes
  <2>2. c \in DOMAIN calls
    BY <1>k
  <2>3. CallKept(calls', c) /\ calls'[c].up = TRUE /\ calls'[c].peer = k /\ calls'[c].out = {}
    <3>1. calls' = PutThroughTo(c, k, TRUE)
      BY <2>1, Zenon DEF PutThroughTo
    <3> QED BY <1>k, <1>t, <1>u, <2>2, <3>1, PeerCall
  <2>4. Heard(c, k)
    BY <1>o DEF Heard, OtherEnd
  <2>5. /\ knocks' \in [DOMAIN knocks -> KnockRec]
        /\ \A j \in DOMAIN knocks : knocks'[j].at = knocks[j].at /\ knocks'[j].into = knocks[j].into
    BY <1>t, <2>1, ClosedKeeps
  <2>8. calls'[c].out \subseteq calls[c].out /\ calls'[c].up \in {calls[c].up, TRUE}
        /\ (calls'[c].peer # None => Heard(c, calls'[c].peer))
    BY <2>3, <2>4
  <2> QED BY <1>u, <2>2, <2>3, <2>5, <2>8, CallAlone
<1> QED BY <1>1, <1>2

\* A knock is refused or lost, a peer is gone, a call has nobody left.
LEMMA LossSteps ==
    ASSUME CInv, NEW k \in DOMAIN knocks, HearNo(k) \/ Lose(k)
    PROVE  CInv' /\ Seen
<1>t. CTypes /\ knocks \in [DOMAIN knocks -> KnockRec]
  BY DEF CInv, CTypes
<1>c. k[1] \in DOMAIN calls
  BY <1>t, KnockParts
<1>k. ASSUME NEW K, knocks' = Closed(knocks, K)
      PROVE  /\ knocks' \in [DOMAIN knocks -> KnockRec]
             /\ \A j \in DOMAIN knocks : knocks'[j].at = knocks[j].at /\ knocks'[j].into = knocks[j].into
  BY <1>k, <1>t, ClosedKeeps
<1>1. CASE Lose(k)
  <2>1. knocks' = Closed(knocks, {k}) /\ UNCHANGED <<calls, current, ringing>>
    BY <1>1 DEF Lose
  <2>2. \A j \in DOMAIN knocks :
            /\ knocks'[j].at \in {"taken", "written"} => knocks'[j].into # None
            /\ knocks'[j].into # None =>
                  knocks'[j].into \in DOMAIN calls /\ calls[knocks'[j].into].with = Caller(j)
    BY <1>k, <2>1 DEF CInv, Inward
  <2>3. ringing' \in [Phones -> DOMAIN knocks \cup {None}]
    BY <1>t, <2>1 DEF CTypes
  <2>4. CInv' /\ Line' = Line
    BY <1>k, <2>1, <2>2, <2>3, KnocksMove
  <2>5. Bell' = Bell
    BY <2>1, BellKept
  <2> QED BY <2>4, <2>5 DEF Seen
<1>2. CASE HearNo(k) /\ calls[k[1]].out = {k}
  <2>1. End(k[1]) /\ ringing' = ringing
    BY <1>2 DEF HearNo
  <2> QED BY <1>c, <2>1, Ends
<1>3. CASE HearNo(k) /\ calls[k[1]].out # {k}
  <2> DEFINE c == k[1]
  <2>1. /\ calls' = [calls EXCEPT ![c].out = @ \ {k}] /\ knocks' = Closed(knocks, {k})
        /\ UNCHANGED <<current, ringing>>
    BY <1>3 DEF HearNo
  <2>2. calls[c] \in CallRec
    BY <1>c, <1>t DEF CTypes
  <2>3. calls[c].out \ {k} \in SUBSET (Int \X Phones)
    BY <2>2 DEF CallRec
  <2>4. calls' = [calls EXCEPT ![c].out = calls[c].out \ {k}]
    BY <2>1
  <2>5. /\ CallKept(calls', c) /\ calls'[c].up = calls[c].up /\ calls'[c].peer = calls[c].peer
        /\ calls'[c].out = calls[c].out \ {k}
    BY <1>c, <1>t, <2>3, <2>4, LessCall
  <2>6. calls'[c].peer # None => Heard(c, calls'[c].peer)
    BY <1>c, <2>5 DEF CInv, Connected
  <2>7. calls'[c].out \subseteq calls[c].out /\ calls'[c].up \in {calls[c].up, TRUE}
    BY <2>5
  <2> QED BY <1>c, <1>k, <2>1, <2>5, <2>6, <2>7, CallAlone
<1> QED BY <1>1, <1>2, <1>3

\* The tasks of a call.
LEMMA TaskSteps ==
    ASSUME CInv, NEW c \in DOMAIN calls, CallTask(c)
    PROVE  CInv' /\ Seen
<1>t. CTypes /\ knocks \in [DOMAIN knocks -> KnockRec]
  BY DEF CInv, CTypes
<1>1. CASE ReaderEnds(c)
  <2>1. calls' = [calls EXCEPT ![c].peer = None] /\ UNCHANGED <<current, ringing, knocks>>
    BY <1>1 DEF ReaderEnds
  <2>2. /\ CallKept(calls', c) /\ calls'[c].up = calls[c].up /\ calls'[c].peer = None
        /\ calls'[c].out = calls[c].out
    <3>1. {} \in SUBSET (Int \X Phones)
      OBVIOUS
    <3>2. LET f == [calls EXCEPT ![c].peer = None]
          IN  CallKept(f, c) /\ f[c].up = calls[c].up /\ f[c].peer = None /\ f[c].out = calls[c].out
      BY <1>t, <3>1, LessCall
    <3> QED BY <2>1, <3>2
  <2>3. calls'[c].out \subseteq calls[c].out /\ calls'[c].up \in {calls[c].up, TRUE}
    BY <2>2
  <2> QED BY <1>t, <2>1, <2>2, <2>3, CallAlone
<1>2. CASE UpkeepDm(c)
  BY <1>2, Ends DEF UpkeepDm
<1> QED BY <1>1, <1>2 DEF CallTask

\* Voice::call, from a device in no call, to every device of the person.
LEMMA DialSteps ==
    ASSUME CInv, NEW d \in Phones, NEW p \in Persons, CallOut(d, p)
    PROVE  CInv' /\ Seen
<1> DEFINE out == {NewCall} \X DevicesOf(p)
           knock == [at |-> "way", decide |-> None, into |-> None, reply |-> None, open |-> TRUE]
<1>t. CTypes /\ knocks \in [DOMAIN knocks -> KnockRec] /\ ringing \in [Phones -> DOMAIN knocks \cup {None}]
  BY DEF CInv, CTypes
<1>n. NewCall \notin DOMAIN calls
  BY <1>t, NewCallIsNew
<1>1. /\ current[d] = None /\ p # OwnerOf[d] /\ Start(d, p, out) /\ ringing' = ringing
      /\ knocks' = [k \in DOMAIN knocks \cup out |-> IF k \in DOMAIN knocks THEN knocks[k] ELSE knock]
  BY DEF CallOut
<1>2. out \subseteq {NewCall} \X Phones /\ \A k \in out : OwnerOf[k[2]] = p
  BY DEF DevicesOf
<1>3. out \cap DOMAIN knocks = {}
  <2> SUFFICES ASSUME NEW k \in out, k \in DOMAIN knocks PROVE FALSE
    OBVIOUS
  <2>1. k[1] = NewCall
    OBVIOUS
  <2> QED BY <1>n, <1>t, <2>1, KnockParts
<1>4. knock \in KnockRec /\ knock.at = "way" /\ knock.into = None
  BY DEF KnockRec
<1> HIDE DEF out, knock
<1>5. /\ \A k \in out : knocks'[k] = knock
      /\ \A k \in DOMAIN knocks : knocks'[k] = knocks[k]
  BY <1>1, <1>3
<1>6. knocks' \in [DOMAIN knocks \cup out -> KnockRec]
  BY <1>1, <1>4, <1>t
<1>7. CInv' /\ Line[d] = None /\ Line' = [Line EXCEPT ![d] = [with |-> p, talking |-> FALSE]]
  <2>1. \A k \in out : /\ OwnerOf[k[2]] = p /\ p # OwnerOf[d]
                        /\ knocks'[k].at = "way" /\ knocks'[k].into = None
    BY <1>1, <1>2, <1>4, <1>5
  <2>2. \A k \in DOMAIN knocks : knocks'[k].at = knocks[k].at /\ knocks'[k].into = knocks[k].into
    BY <1>5
  <2>3. ringing' \in [Phones -> DOMAIN knocks \cup {None}]
    BY <1>1, <1>t
  <2> QED BY <1>1, <1>2, <1>6, <2>1, <2>2, <2>3, CallStarts
<1>8. Bell' = Bell
  <2>1. DOMAIN calls \subseteq DOMAIN calls' /\ \A c \in DOMAIN calls : calls'[c] = calls[c]
    BY <1>1, <1>n DEF Start
  <2> QED BY <1>1, <2>1, BellKept
<1>9. Phone!Dial(d, p)
  BY <1>7, <1>8 DEF Phone!Dial, Phone!Lift
<1> QED BY <1>7, <1>9 DEF Seen, Phone!PNext

\* The bell of a device stops, whatever else happens to the calls.
LEMMA BellStops ==
    ASSUME CInv, NEW d \in Phones, ringing[d] # None, ringing' = [ringing EXCEPT ![d] = None],
           DOMAIN calls \subseteq DOMAIN calls', \A c \in DOMAIN calls : calls'[c] = calls[c]
    PROVE  Bell[d] = Caller(ringing[d]) /\ Bell[d] # None /\ Bell' = [Bell EXCEPT ![d] = None]
<1>t. CTypes
  BY DEF CInv
<1>1. Bell[d] = Caller(ringing[d]) /\ Bell[d] # None
  <2>1. ringing[d] \in DOMAIN knocks
    BY <1>t DEF CTypes
  <2> QED BY <1>t, <2>1, CallerIs DEF Bell
<1>2. ASSUME NEW e \in Phones
      PROVE  (IF ringing'[e] = None THEN None ELSE OwnerOf[calls'[ringing'[e][1]].dev])
               = IF e = d THEN None ELSE Bell[e]
  <2>1. ringing'[e] = IF e = d THEN None ELSE ringing[e]
    BY <1>t DEF CTypes
  <2>2. ringing[e] # None => ringing[e] \in DOMAIN knocks
    BY <1>t DEF CTypes
  <2>3. ringing[e] # None => ringing[e][1] \in DOMAIN calls
    BY <1>t, <2>2, KnockParts
  <2> QED BY <2>1, <2>3 DEF Bell, Caller, From
<1>3. Bell' = [e \in Phones |-> IF ringing'[e] = None THEN None ELSE OwnerOf[calls'[ringing'[e][1]].dev]]
  BY DEF Bell, Caller, From
<1>4. Bell' = [e \in Phones |-> IF e = d THEN None ELSE Bell[e]]
  BY <1>2, <1>3, ZenonT(40)
<1>5. Bell' = [Bell EXCEPT ![d] = None]
  <2>1. DOMAIN Bell = Phones /\ Bell = [e \in DOMAIN Bell |-> Bell[e]]
    BY DEF Bell
  <2> QED BY <1>4, <2>1
<1> QED BY <1>1, <1>5

\* Voice::answer and Voice::decline.
LEMMA BellSteps ==
    ASSUME CInv, NEW d \in Phones, PickUpPhone(d) \/ Decline(d)
    PROVE  CInv' /\ Seen
<1> DEFINE k == ringing[d]
<1>t. CTypes /\ knocks \in [DOMAIN knocks -> KnockRec] /\ ringing \in [Phones -> DOMAIN knocks \cup {None}]
  BY DEF CInv, CTypes
<1>k. k # None /\ k \in DOMAIN knocks /\ ringing' = [ringing EXCEPT ![d] = None]
  BY <1>t DEF PickUpPhone, Decline
<1>c. Caller(k) \in Persons
  BY <1>k, <1>t, CallerIs
<1>r. ringing' \in [Phones -> DOMAIN knocks \cup {None}]
  BY <1>k, <1>t
<1>i. /\ knocks[k].at \in {"taken", "written"} => knocks[k].into # None
      /\ knocks[k].into # None =>
            knocks[k].into \in DOMAIN calls /\ calls[knocks[k].into].with = Caller(k)
  BY <1>k DEF CInv, Inward
<1> HIDE DEF k
<1>d. ASSUME NEW v \in {"yes", "no"}, knocks' = [knocks EXCEPT ![k].decide = v]
      PROVE  Moved(knocks', knocks, k, knocks[k].at, knocks[k].into)
  BY <1>d, <1>k, <1>t, DecideKnock
<1>s. ASSUME CInv', UNCHANGED calls, Line' = Line PROVE CInv' /\ Seen
  <2>1. Bell[d] # None /\ Bell' = [Bell EXCEPT ![d] = None]
    BY <1>k, <1>s, BellStops DEF k
  <2>2. Phone!Silence(d)
    BY <1>s, <2>1 DEF Phone!Silence
  <2> QED BY <1>s, <2>2 DEF Seen, Phone!PNext
<1>u. ASSUME UNCHANGED <<calls, current>>,
             knocks' = knocks \/ \E v \in {"yes", "no"} : knocks' = [knocks EXCEPT ![k].decide = v]
      PROVE  CInv' /\ Line' = Line
  <2>1. CASE knocks' = knocks
    <3>1. \A j \in DOMAIN knocks :
            /\ knocks'[j].at \in {"taken", "written"} => knocks'[j].into # None
            /\ knocks'[j].into # None =>
                  knocks'[j].into \in DOMAIN calls /\ calls[knocks'[j].into].with = Caller(j)
      BY <2>1 DEF CInv, Inward
    <3> QED BY <1>r, <1>t, <1>u, <2>1, <3>1, KnocksMove
  <2>2. ASSUME NEW v \in {"yes", "no"}, knocks' = [knocks EXCEPT ![k].decide = v]
        PROVE  CInv' /\ Line' = Line
    <3>1. Moved(knocks', knocks, k, knocks[k].at, knocks[k].into)
      BY <1>d, <2>2
    <3> QED BY <1>i, <1>k, <1>r, <1>u, <3>1, ListenerMoves
  <2> QED BY <1>u, <2>1, <2>2
<1>1. CASE Decline(d)
  <2>1. UNCHANGED <<calls, current>>
        /\ (knocks' = knocks \/ knocks' = [knocks EXCEPT ![k].decide = "no"])
    BY <1>1 DEF Decline, k
  <2>2. CInv' /\ Line' = Line
    BY <1>u, <2>1
  <2> QED BY <1>s, <2>1, <2>2
<1>2. CASE PickUpPhone(d) /\ knocks[k].at # "rings"
  <2>1. UNCHANGED <<calls, current, knocks>>
    BY <1>2 DEF PickUpPhone, k
  <2>2. CInv' /\ Line' = Line
    BY <1>u, <2>1
  <2> QED BY <1>s, <2>1, <2>2
<1>3. CASE PickUpPhone(d) /\ knocks[k].at = "rings"
  <2>1. /\ current[d] = None /\ Start(d, Caller(k), {})
        /\ knocks' = [knocks EXCEPT ![k].decide = "yes"]
    BY <1>3 DEF PickUpPhone, k
  <2>2. Moved(knocks', knocks, k, knocks[k].at, knocks[k].into)
    BY <1>d, <2>1
  <2>3. CInv' /\ Line[d] = None /\ Line' = [Line EXCEPT ![d] = [with |-> Caller(k), talking |-> FALSE]]
    <3>1. knocks' \in [DOMAIN knocks \cup {} -> KnockRec]
          /\ \A j \in DOMAIN knocks : knocks'[j].at = knocks[j].at /\ knocks'[j].into = knocks[j].into
      BY <2>2 DEF Moved
    <3>2. {} \subseteq {NewCall} \X Phones
      OBVIOUS
    <3>3. \A j \in {} : /\ OwnerOf[j[2]] = Caller(k) /\ Caller(k) # OwnerOf[d]
                         /\ knocks'[j].at = "way" /\ knocks'[j].into = None
      OBVIOUS
    <3> QED BY <1>c, <1>r, <2>1, <3>1, <3>2, <3>3, CallStarts
  <2>4. Bell[d] = Caller(k) /\ Bell[d] # None /\ Bell' = [Bell EXCEPT ![d] = None]
    <3>1. NewCall \notin DOMAIN calls
      BY <1>t, NewCallIsNew
    <3>2. DOMAIN calls \subseteq DOMAIN calls' /\ \A c \in DOMAIN calls : calls'[c] = calls[c]
      BY <2>1, <3>1 DEF Start
    <3> QED BY <1>k, <3>2, BellStops DEF k
  <2>5. Phone!PickUp(d)
    BY <2>3, <2>4 DEF Phone!PickUp, Phone!Lift
  <2> QED BY <2>3, <2>5 DEF Seen, Phone!PNext
<1> QED BY <1>1, <1>2, <1>3

\* Every step keeps the invariant, and the window sees a phone line's step.
LEMMA CStep ==
    ASSUME CInv, [CNext]_cvars
    PROVE  CInv' /\ Seen
<1>1. CASE UNCHANGED cvars
  BY <1>1 DEF cvars, Seen, Line, Bell, Caller, From, CInv, CTypes, OnItsDevice, Outward, Inward,
              Connected, Heard, OtherEnd
<1>2. ASSUME NEW d \in Phones, HangUp(d) PROVE CInv' /\ Seen
  <2>1. current[d] \in DOMAIN calls
    BY <1>2 DEF HangUp, CInv, CTypes
  <2> QED BY <1>2, <2>1, Ends DEF HangUp
<1>3. ASSUME NEW d \in Phones, PickUpPhone(d) \/ Decline(d) PROVE CInv' /\ Seen
  BY <1>3, BellSteps
<1>4. ASSUME NEW d \in Phones, NEW p \in Persons, CallOut(d, p) PROVE CInv' /\ Seen
  BY <1>4, DialSteps
<1>5. ASSUME NEW k \in DOMAIN knocks, Listener(k) \/ GiveUp(k) \/ RingOut(k) \/ Lose(k)
      PROVE  CInv' /\ Seen
  BY <1>5, KnockSteps, YesSteps, ThroughSteps, LossSteps DEF Listener, RingOut
<1>6. ASSUME NEW c \in DOMAIN calls, CallTask(c) PROVE CInv' /\ Seen
  BY <1>6, TaskSteps
<1> QED BY <1>1, <1>2, <1>3, <1>4, <1>5, <1>6 DEF CNext

\* How it begins: no call, no connection.
LEMMA CBegins == CInit => CInv /\ Phone!PInit
<1> SUFFICES ASSUME CInit PROVE CInv /\ Phone!PInit
  OBVIOUS
<1>1. DOMAIN calls = {} /\ DOMAIN knocks = {}
  BY DEF CInit
<1>2. Cardinality({}) = 0 /\ {} = 1 .. 0
  BY FS_EmptySet
<1>3. calls \in [DOMAIN calls -> CallRec] /\ knocks \in [DOMAIN knocks -> KnockRec]
  BY <1>1 DEF CInit
<1>4. CTypes
  BY <1>1, <1>2, <1>3 DEF CInit, CTypes
<1>5. OnItsDevice /\ Outward /\ Inward /\ Connected
  BY <1>1 DEF CInit, OnItsDevice, Outward, Inward, Connected
<1>6. Phone!PInit
  BY DEF CInit, Phone!PInit, Line, Bell
<1> QED BY <1>4, <1>5, <1>6 DEF CInv

\* A call's audio goes to the person the call is with and to nobody else,
\* whoever answered, hung up and called back meanwhile (audio_loop sends to
\* call.peers; ring_in compares rooms).
THEOREM AudioGoesToTheRightPerson == CSpec => []HeardByTheRightPerson
<1>1. CInv => HeardByTheRightPerson
  BY DEF CInv, Connected, Heard, HeardByTheRightPerson
<1>2. CInv /\ [CNext]_cvars => CInv'
  BY CStep
<1> QED BY <1>1, <1>2, CBegins, PTL DEF CSpec

\* What the window shows of the calls on each device is a phone line: one call
\* at a time, put down before the next, and a bell for one person at a time.
THEOREM CallsImplementPhoneLine == CSpec => IsAPhoneLine
<1>1. CInv /\ [CNext]_cvars => CInv' /\ [Phone!PNext]_<<Line, Bell>>
  BY CStep DEF Seen
<1> QED BY <1>1, CBegins, PTL DEF CSpec, IsAPhoneLine, Phone!PSpec

(***************************************************************************)
(* The jitter buffer.  First, unwrap: turns of the sequence numbers.       *)
(***************************************************************************)

\* A number and what is left of it after whole turns.
LEMMA TurnsAndRest ==
  ASSUME NEW W \in Nat \ {0}, NEW a \in Int
  PROVE  /\ a % W \in 0..(W - 1) /\ a \div W \in Int
         /\ a = W * (a \div W) + (a % W)
  OBVIOUS

\* Fewer than two turns are one at most, either way.
LEMMA FewerThanTwo ==
  ASSUME NEW W \in Nat \ {0}, NEW k \in Int, 2 * (W * k) < 3 * W, -(3 * W) < 2 * (W * k)
  PROVE  k \in {-1, 0, 1}
  <1>1. ASSUME k >= 2 PROVE FALSE
    <2>1. k - 2 \in Nat
      BY <1>1
    <2>2. W * (k - 2) >= 0
      BY <2>1
    <2>3. W * (k - 2) = W * k - 2 * W
      OBVIOUS
    <2> QED BY <2>2, <2>3
  <1>2. ASSUME k <= -2 PROVE FALSE
    <2>1. (-2) - k \in Nat
      BY <1>2
    <2>2. W * ((-2) - k) >= 0
      BY <2>1
    <2>3. W * ((-2) - k) = (-(2 * W)) - W * k
      OBVIOUS
    <2> QED BY <2>2, <2>3
  <1> QED BY <1>1, <1>2

\* A packet of a frame within half a turn of the newest unwraps to where its
\* frame is: as far from the newest as the frames are apart.
LEMMA UnwrapsInPlace ==
  ASSUME newest \in Nat, NEW f \in Nat, NEW g \in Nat, NEW k \in Int, newest = g + WRAP * k,
         2 * AbsDiff(f, g) < WRAP
  PROVE  Unwrap(f % WRAP) = newest - g + f
  <1> DEFINE W == WRAP
             r == f % W
             base == newest - (newest % W)
             p == newest \div W
             m == (f \div W) + k
             s == newest - g + f
             turns3 == {base - W + r, base + r, base + W + r}
  <1>1. W \in Nat \ {0} /\ newest # None
    BY JitterConstants
  <1>2. r \in 0..(W - 1) /\ f \div W \in Int /\ f = W * (f \div W) + r
    BY <1>1, TurnsAndRest
  <1>3. newest % W \in 0..(W - 1) /\ p \in Int /\ base = W * p
    <2>0. newest \in Int
      OBVIOUS
    <2>1. newest % W \in 0..(W - 1) /\ p \in Int /\ newest = W * p + (newest % W)
      <3> HIDE DEF W
      <3>1. \A a \in Int : a % W \in 0..(W - 1) /\ a \div W \in Int /\ a = W * (a \div W) + (a % W)
        BY <1>1, TurnsAndRest
      <3> QED BY <2>0, <3>1
    <2> DEFINE q == newest % W
               t == W * p
    <2>2. t \in Int /\ q \in Int /\ newest = t + q
      BY <1>1, <2>1
    <2>3. base = newest - q
      OBVIOUS
    <2> HIDE DEF q, t
    <2>4. base = t
      BY <2>2, <2>3
    <2> QED BY <2>1, <2>4 DEF t
  <1>4. s \in Int /\ m \in Int /\ s = W * m + r
    <2>1. W * m = W * (f \div W) + W * k
      BY <1>1, <1>2
    <2> DEFINE a == W * (f \div W)
               b == W * k
    <2>2. /\ a \in Int /\ b \in Int /\ W * m = a + b /\ f = a + r /\ newest = g + b
          /\ r \in Int /\ m \in Int
      BY <1>1, <1>2, <2>1
    <2> HIDE DEF a, b, m, r
    <2>3. s = a + b + r /\ s \in Int
      BY <2>2
    <2> QED BY <2>2, <2>3
  <1>5. 2 * AbsDiff(s, newest) < W
    BY <1>1 DEF AbsDiff
  <1>6. base \in Int /\ base <= newest /\ newest < base + W
    BY <1>1, <1>3
  <1>7. s = base + W * (m - p) + r /\ W * (m - p) \in Int
    <2>1. W * (m - p) = W * m - W * p
      BY <1>1, <1>3, <1>4
    <2> QED BY <1>1, <1>2, <1>3, <1>4, <2>1
  <1> HIDE DEF W, r, base, p, m, s
  <1>8. m - p \in {-1, 0, 1}
    <2> DEFINE d == W * (m - p)
    <2> HIDE DEF d
    <2>1. d \in Int /\ s = base + d + r
      BY <1>7 DEF d
    <2>2. 2 * (s - newest) < W /\ 2 * (newest - s) < W
      BY <1>1, <1>4, <1>5 DEF AbsDiff
    <2>3. 2 * d < 3 * W /\ -(3 * W) < 2 * d
      BY <1>1, <1>2, <1>6, <2>1, <2>2
    <2> QED BY <1>1, <1>3, <1>4, <2>3, FewerThanTwo DEF d
  <1>9. s \in turns3
    <2> DEFINE d == W * (m - p)
    <2>1. d = -W \/ d = 0 \/ d = W
      BY <1>1, <1>8
    <2>2. d \in Int /\ s = base + d + r
      BY <1>7
    <2> HIDE DEF d
    <2> QED BY <1>1, <1>2, <1>6, <2>1, <2>2
  <1>10. \A t \in turns3 : t # s => AbsDiff(s, newest) < AbsDiff(t, newest)
    <2>1. ASSUME NEW t \in turns3, t # s PROVE t \in Int /\ (t >= s + W \/ t <= s - W)
      BY <1>1, <1>2, <1>6, <1>9, <2>1
    <2> QED BY <1>1, <1>4, <1>5, <1>6, <2>1 DEF AbsDiff
  <1>11. s = CHOOSE x \in turns3 : \A t \in turns3 :
                \/ AbsDiff(x, newest) < AbsDiff(t, newest)
                \/ AbsDiff(x, newest) = AbsDiff(t, newest) /\ x <= t
    <2> DEFINE Best(x) == \A t \in turns3 :
                \/ AbsDiff(x, newest) < AbsDiff(t, newest)
                \/ AbsDiff(x, newest) = AbsDiff(t, newest) /\ x <= t
    <2>1. Best(s)
      BY <1>4, <1>10
    <2>2. ASSUME NEW x \in turns3, Best(x) PROVE x = s
      <3>1. turns3 \subseteq Int
        BY <1>1, <1>2, <1>6
      <3>2. \A t \in turns3 : AbsDiff(t, newest) \in Int
        BY <3>1, <1>6 DEF AbsDiff
      <3>3. \/ AbsDiff(x, newest) < AbsDiff(s, newest)
            \/ AbsDiff(x, newest) = AbsDiff(s, newest)
        BY <1>9, <2>2
      <3> HIDE DEF turns3
      <3> QED BY <1>9, <1>10, <3>2, <3>3
    <2> HIDE DEF turns3, Best
    <2>3. s = CHOOSE x \in turns3 : Best(x)
      BY <1>9, <2>1, <2>2
    <2> QED BY <2>3 DEF Best
  <1>12. Unwrap(r) = CHOOSE x \in turns3 : \A t \in turns3 :
                \/ AbsDiff(x, newest) < AbsDiff(t, newest)
                \/ AbsDiff(x, newest) = AbsDiff(t, newest) /\ x <= t
    BY <1>1 DEF Unwrap, base, W
  <1> QED BY <1>11, <1>12 DEF s, r, W

(***************************************************************************)
(* The inductive invariant.                                                *)
(***************************************************************************)

\* How far the unwrapped numbers are from the frames.
Shift == newest - newestFrame

JTypes ==
    /\ frame \in Nat /\ due \in Nat /\ due <= frame
    /\ net \subseteq Nat /\ \A f \in net : f < frame
    /\ held \subseteq Nat /\ IsFiniteSet(held)
    /\ next = None \/ next \in Int
    /\ dry \in Nat /\ dry <= MAX_DRY /\ (next = None => dry = 0)
    /\ quiet \in Nat /\ quiet <= MAX_DRY + DELAY
    /\ fresh \in BOOLEAN /\ (fresh => due < frame /\ due \notin net)

\* Unwrapping has lost no turn: the newest number is its frame's, by whole
\* turns; and no packet held is newer.
Placed ==
    /\ newest = None => held = {} /\ next = None
    /\ newest # None =>
          /\ newest \in Nat /\ newest >= WRAP
          /\ newestFrame \in Nat /\ newestFrame < frame
          /\ \E k \in Int : newest = newestFrame + WRAP * k
          /\ \A s \in held : s <= newest

\* The quiet ticks are ticks that the buffer counts as dry.
RunningDry == next # None /\ quiet <= dry

\* The packets on time since: j up to the last tick, and the one after it.
Since(j) == IF fresh THEN j + 1 ELSE j

\* The buffer ran dry, and since then j packets came on time, one a tick.
\* They are held; and once it has started again, it is DELAY behind.
Refilling(j) ==
    /\ quiet <= MAX_DRY + 1 + j
    /\ next # None => newest # None /\ next = due + Shift + 1 - DELAY
    /\ Since(j) > 0 => /\ newest # None /\ newestFrame = (IF fresh THEN due ELSE due - 1)
                       /\ (newest - Since(j) + 1)..newest \subseteq held

\* As long as the sender has not gone on by two frames.
OnCourse == frame <= due + 1 => RunningDry \/ \E j \in 0..(DELAY - 1) : Refilling(j)

JInv == JTypes /\ Placed /\ OnCourse

\* The constants one by one.
LEMMA JitterBounds ==
  /\ None \notin Int /\ WRAP \in Nat \ {0} /\ DELAY \in Nat \ {0} /\ MAX_DRY \in Nat \ {0}
  /\ MAX_HELD \in Nat \ {0} /\ CATCH_UP \in Nat \ {0} /\ FirstFrame \in Nat
  /\ Pauses \subseteq Nat /\ DELAY <= MAX_HELD /\ 2 * DELAY < WRAP
  BY JitterConstants

\* A set of naturals has a least one, and Least is it.
LEMMA LeastIsLeast ==
  ASSUME NEW S, S \subseteq Nat, S # {}
  PROVE  Least(S) \in S /\ \A y \in S : Least(S) <= y
  <1> DEFINE R == {ss \in Nat \X Nat : ss[1] < ss[2]}
  <1>1. IsWellFoundedOn(R, Nat)
    BY NatLessThanWellFounded DEF OpToRel
  <1>2. \A y, x \in Nat : y < x => <<y, x>> \in R
    OBVIOUS
  <1> HIDE DEF R
  <1>3. PICK x \in S : \A y \in S : ~ (<<y, x>> \in R)
    BY <1>1, WFMin
  <1>4. \A y \in S : ~ (y < x)
    BY <1>2, <1>3
  <1>5. \A y \in S : x <= y
    BY <1>4
  <1> QED BY <1>5 DEF Least

\* The c numbers up to top are c numbers.
LEMMA CountLatest ==
  ASSUME NEW S, IsFiniteSet(S), NEW top \in Nat, NEW c \in Nat, (top - c + 1)..top \subseteq S
  PROVE  c <= Cardinality(S)
  <1> DEFINE I == (top - c + 1)..top
  <1>1. Cardinality(I) = c
    BY FS_Interval
  <1>2. I \in SUBSET S
    OBVIOUS
  <1> HIDE DEF I
  <1>3. Cardinality(I) <= Cardinality(S)
    BY <1>2, FS_Subset
  <1> QED BY <1>1, <1>3

\* A full buffer drops its oldest packet, never one of the last DELAY.
LEMMA DropsTheOldest ==
  ASSUME NEW S, IsFiniteSet(S), S \subseteq Nat, NEW top \in Nat, \A s \in S : s <= top,
         NEW c \in Nat, c <= MAX_HELD, (top - c + 1)..top \subseteq S
  PROVE  LET left == IF Cardinality(S) > MAX_HELD THEN S \ {Least(S)} ELSE S
         IN  left \subseteq S /\ IsFiniteSet(left) /\ (top - c + 1)..top \subseteq left
  <1>1. IsFiniteSet(S \ {Least(S)})
    BY FS_RemoveElement
  <1>2. ASSUME Cardinality(S) > MAX_HELD, Least(S) \in (top - c + 1)..top
        PROVE  FALSE
    <2>1. S # {}
      BY <1>2
    <2>2. \A s \in S : Least(S) <= s
      BY <2>1, LeastIsLeast
    <2> DEFINE I == (top - c + 1)..top
    <2>3. S \subseteq I
      BY <1>2, <2>2
    <2>4. IsFiniteSet(I) /\ Cardinality(I) = c
      BY FS_Interval
    <2> HIDE DEF I
    <2>5. Cardinality(S) <= Cardinality(I)
      BY <2>3, <2>4, FS_Subset
    <2>6. Cardinality(S) \in Nat
      BY FS_CardinalityType
    <2> QED BY <1>2, <2>4, <2>5, <2>6, JitterBounds
  <1> QED BY <1>1, <1>2

\* A stream begins on course.
LEMMA StreamBegins == JInit => JInv
  <1> SUFFICES ASSUME JInit PROVE JInv
    OBVIOUS
  <1>1. JTypes /\ Placed
    <2>1. fresh = FALSE
      BY DEF JInit
    <2>2. fresh \in BOOLEAN /\ (fresh => due < frame /\ due \notin net)
      BY <2>1
    <2>3. 0 <= MAX_DRY /\ 0 <= MAX_DRY + DELAY
      BY JitterBounds
    <2>4. JTypes
      BY <2>2, <2>3, JitterBounds, FS_EmptySet DEF JInit, JTypes
    <2> QED BY <2>4 DEF JInit, Placed
  <1>2. Refilling(0)
    BY JitterBounds DEF JInit, Refilling, Since
  <1> QED BY <1>1, <1>2, JitterBounds DEF JInv, OnCourse

\* The first packet is pushed.
LEMMA FirstPush ==
  ASSUME JInv, NEW f \in net, JitterPush(f), newest = None
  PROVE  JInv'
  <1> DEFINE s == (f % WRAP) + WRAP
  <1>1. f \in Nat /\ f < frame
    BY DEF JInv, JTypes
  <1>2. s \in Nat /\ s >= WRAP
    BY <1>1, JitterBounds, TurnsAndRest
  <1>3. \E k \in Int : s = f + WRAP * k
    <2> DEFINE q == f \div WRAP
    <2>1. q \in Int /\ f = WRAP * q + (f % WRAP) /\ f % WRAP \in Nat
      BY <1>1, JitterBounds, TurnsAndRest
    <2>2. WRAP * (1 - q) = WRAP - WRAP * q
      BY <2>1, JitterBounds
    <2> DEFINE a == WRAP * q
               b == f % WRAP
    <2>3. a \in Int /\ b \in Int /\ f = a + b /\ s = b + WRAP /\ WRAP * (1 - q) = WRAP - a
      BY <2>1, <2>2, JitterBounds
    <2> HIDE DEF a, b, q
    <2>4. s = f + WRAP * (1 - q)
      BY <2>3, JitterBounds
    <2> QED BY <2>1, <2>4 DEF q
  <1>4. Unwrap(f % WRAP) = s /\ next = None /\ held = {}
    BY DEF Unwrap, JInv, Placed
  <1> HIDE DEF s
  <1>5. newest' = s /\ newestFrame' = f /\ next' = None
    BY <1>4 DEF JitterPush
  <1>6. held' = {s}
    <2>1. Cardinality({s}) = 1
      BY FS_Singleton
    <2>2. {} \cup {s} = {s}
      OBVIOUS
    <2>3. held' = IF Cardinality(held \cup {s}) > MAX_HELD THEN (held \cup {s}) \ {Least(held \cup {s})}
                  ELSE held \cup {s}
      BY <1>4 DEF JitterPush
    <2>4. ~(1 > MAX_HELD)
      BY JitterBounds
    <2>5. held \cup {s} = {s}
      BY <1>4
    <2> QED BY <2>1, <2>3, <2>4, <2>5
  <1>7. newest' # None
    BY <1>2, <1>5, JitterBounds
  <1>8. /\ frame' = frame /\ due' = due /\ dry' = dry /\ quiet' = quiet
        /\ net' = net \ {f} /\ fresh' = (fresh \/ f = due)
    BY DEF JitterPush
  <1>9. JTypes'
    <2>1. IsFiniteSet(held')
      BY <1>6, FS_Singleton
    <2>2. fresh' \in BOOLEAN /\ (fresh' => due' < frame' /\ due' \notin net')
      BY <1>1, <1>8 DEF JInv, JTypes
    <2> QED BY <1>2, <1>4, <1>5, <1>6, <1>8, <2>1, <2>2 DEF JInv, JTypes
  <1>10. Placed'
    BY <1>1, <1>2, <1>3, <1>5, <1>6, <1>7, <1>8 DEF Placed
  <1>11. OnCourse'
    <2> SUFFICES ASSUME frame <= due + 1 PROVE Refilling(0)'
      BY <1>8, JitterBounds DEF OnCourse
    <2>1. ~RunningDry
      BY <1>4 DEF RunningDry
    <2>2. PICK j \in 0..(DELAY - 1) : Refilling(j)
      BY <2>1 DEF JInv, OnCourse
    <2>3. ~fresh /\ j = 0 /\ quiet <= MAX_DRY + 1
      BY <2>2, JitterBounds DEF Refilling, Since
    <2>4. Since(0)' = IF f = due THEN 1 ELSE 0
      <3>1. fresh' <=> f = due
        BY <1>8, <2>3
      <3> QED BY <3>1 DEF Since
    <2>5. CASE f = due
      <3>1. fresh' /\ Since(0)' = 1
        BY <1>8, <2>4, <2>5
      <3>2. (newest' - 1 + 1)..newest' \subseteq held'
        BY <1>2, <1>5, <1>6
      <3> QED BY <1>5, <1>7, <1>8, <2>3, <2>5, <3>1, <3>2, JitterBounds DEF Refilling
    <2>6. CASE f # due
      <3>1. Since(0)' = 0
        BY <2>4, <2>6
      <3> QED BY <1>5, <1>8, <2>3, <3>1, JitterBounds DEF Refilling
    <2> QED BY <2>5, <2>6
  <1> QED BY <1>9, <1>10, <1>11 DEF JInv

\* A packet is pushed after others: what it leaves, whatever its frame.
LEMMA LaterPush ==
  ASSUME JInv, Timely, NEW f \in net, JitterPush(f), newest # None
  PROVE  LET s == f + Shift IN
         /\ s \in Nat /\ Shift' = Shift /\ newest' # None
         /\ JTypes' /\ Placed'
         /\ next # None /\ s < next => held' = held /\ newest' = newest /\ newestFrame' = newestFrame
         /\ ~(next # None /\ s < next) =>
              /\ newest' = Greater(newest, s)
              /\ newestFrame' = IF s > newest THEN f ELSE newestFrame
              /\ \A c \in Nat : c <= MAX_HELD /\ (newest' - c + 1)..newest' \subseteq held \cup {s}
                                  => (newest' - c + 1)..newest' \subseteq held'
  <1> DEFINE s == f + Shift
             grown == held \cup {s}
  <1>1. f \in Nat /\ f < frame
    BY DEF JInv, JTypes
  <1>2. newest \in Nat /\ newest >= WRAP /\ newestFrame \in Nat /\ newestFrame < frame
    BY DEF JInv, Placed
  <1>3. PICK k \in Int : newest = newestFrame + WRAP * k
    BY DEF JInv, Placed
  <1>4. 2 * AbsDiff(f, newestFrame) < WRAP
    BY DEF Timely
  <1>5. Unwrap(f % WRAP) = s
    <2>1. Unwrap(f % WRAP) = newest - newestFrame + f
      BY <1>1, <1>2, <1>3, <1>4, UnwrapsInPlace
    <2> QED BY <1>1, <1>2, <2>1 DEF Shift
  <1>6. s \in Nat
    BY <1>1, <1>2, <1>4, JitterBounds DEF AbsDiff, Shift
  <1>7. s = f + WRAP * k
    <2> DEFINE a == WRAP * k
    <2>1. a \in Int /\ newest = newestFrame + a
      BY <1>3, JitterBounds
    <2> HIDE DEF a
    <2>2. s = f + a
      BY <1>1, <1>2, <2>1 DEF Shift
    <2> QED BY <2>2 DEF a
  <1>8. s - f = Shift
    BY <1>1, <1>2 DEF Shift
  <1> HIDE DEF s
  <1>9. /\ frame' = frame /\ due' = due /\ dry' = dry /\ quiet' = quiet /\ next' = next
        /\ net' = net \ {f} /\ fresh' = (fresh \/ f = due)
    BY DEF JitterPush
  <1>10. fresh' \in BOOLEAN /\ (fresh' => due' < frame' /\ due' \notin net')
    BY <1>1, <1>9 DEF JInv, JTypes
  <1>11. CASE next # None /\ s < next
    <2>1. held' = held /\ newest' = newest /\ newestFrame' = newestFrame
      BY <1>5, <1>11 DEF JitterPush
    <2>2. Shift' = Shift
      BY <2>1 DEF Shift
    <2>3. JTypes'
      BY <1>9, <1>10, <2>1 DEF JInv, JTypes
    <2>4. Placed'
      BY <1>9, <2>1 DEF JInv, Placed
    <2> QED BY <1>6, <1>11, <2>1, <2>2, <2>3, <2>4 DEF s
  <1>12. CASE ~(next # None /\ s < next)
    <2>1. /\ newest' = Greater(newest, s)
          /\ newestFrame' = IF s > newest THEN f ELSE newestFrame
          /\ held' = IF Cardinality(grown) > MAX_HELD THEN grown \ {Least(grown)} ELSE grown
      BY <1>5, <1>12 DEF JitterPush
    <2>2. newest' \in Nat /\ newest' >= newest /\ newest' >= s /\ newest' \in {newest, s}
      BY <1>2, <1>6, <2>1 DEF Greater
    <2>3. newest' # None /\ newest' >= WRAP
      BY <1>2, <2>2, JitterBounds
    <2>4. Shift' = Shift /\ newestFrame' \in Nat /\ newestFrame' < frame
      <3>1. CASE s > newest
        BY <1>1, <1>2, <1>6, <1>8, <2>1, <3>1 DEF Shift, Greater
      <3>2. CASE ~(s > newest)
        <4>1. newest' = newest /\ newestFrame' = newestFrame
          BY <1>2, <1>6, <2>1, <3>2 DEF Greater
        <4> QED BY <1>2, <4>1 DEF Shift
      <3> QED BY <3>1, <3>2
    <2>5. newest' = newestFrame' + WRAP * k
      BY <1>2, <1>3, <1>6, <1>7, <2>1 DEF Greater
    <2>6. IsFiniteSet(grown) /\ grown \subseteq Nat /\ \A x \in grown : x <= newest'
      <3>1. IsFiniteSet(grown)
        BY FS_AddElement DEF JInv, JTypes
      <3>2. \A x \in held : x \in Nat /\ x <= newest
        BY DEF JInv, JTypes, Placed
      <3> QED BY <1>2, <1>6, <2>2, <3>1, <3>2
    <2> HIDE DEF grown
    <2>7. ASSUME NEW c \in Nat, c <= MAX_HELD, (newest' - c + 1)..newest' \subseteq grown
          PROVE  held' \subseteq grown /\ IsFiniteSet(held') /\ (newest' - c + 1)..newest' \subseteq held'
      BY <2>1, <2>2, <2>6, <2>7, DropsTheOldest
    <2>8. held' \subseteq grown /\ IsFiniteSet(held')
      <3>1. (newest' - 0 + 1)..newest' \subseteq grown
        <4> DEFINE n == newest'
        <4>1. n \in Nat
          BY <2>2
        <4> HIDE DEF n
        <4>2. (n - 0 + 1)..n = {}
          BY <4>1
        <4> QED BY <4>2 DEF n
      <3> QED BY <2>7, <3>1, JitterBounds
    <2>9. JTypes'
      BY <1>9, <1>10, <2>6, <2>8 DEF JInv, JTypes
    <2>10. Placed'
      BY <1>9, <2>2, <2>3, <2>4, <2>5, <2>6, <2>8 DEF Placed
    <2> QED BY <1>6, <1>12, <2>1, <2>3, <2>4, <2>7, <2>9, <2>10 DEF s, grown
  <1> QED BY <1>11, <1>12

\* A push keeps the stream on course.
LEMMA PushKeepsCourse ==
  ASSUME JInv, Timely, NEW f \in net, JitterPush(f)
  PROVE  JInv'
  <1>1. CASE newest = None
    BY <1>1, FirstPush
  <1>2. CASE newest # None
    <2> DEFINE s == f + Shift
    <2>1. /\ s \in Nat /\ Shift' = Shift /\ newest' # None
          /\ JTypes' /\ Placed'
          /\ next # None /\ s < next => held' = held /\ newest' = newest /\ newestFrame' = newestFrame
          /\ ~(next # None /\ s < next) =>
               /\ newest' = Greater(newest, s)
               /\ newestFrame' = IF s > newest THEN f ELSE newestFrame
               /\ \A c \in Nat : c <= MAX_HELD /\ (newest' - c + 1)..newest' \subseteq held \cup {s}
                                   => (newest' - c + 1)..newest' \subseteq held'
      BY <1>2, LaterPush
    <2>2. /\ newest \in Nat /\ newestFrame \in Nat /\ newestFrame < frame
          /\ f \in Nat /\ f < frame /\ due \in Nat /\ frame \in Nat
      BY <1>2 DEF JInv, JTypes, Placed
    <2>3. /\ frame' = frame /\ due' = due /\ dry' = dry /\ quiet' = quiet /\ next' = next
          /\ fresh' = (fresh \/ f = due)
      BY DEF JitterPush
    <2>4. s - newest = f - newestFrame /\ s - Shift = f /\ Shift \in Int
      BY <2>2 DEF Shift
    <2> HIDE DEF s
    <2>5. ASSUME frame <= due + 1, RunningDry PROVE RunningDry'
      BY <2>3, <2>5 DEF RunningDry
    <2>6. ASSUME frame <= due + 1, NEW j \in 0..(DELAY - 1), Refilling(j), f = due
          PROVE  Refilling(j)'
      <3>1. ~fresh /\ Since(j) = j /\ Since(j)' = j + 1 /\ fresh'
        BY <2>3, <2>6 DEF JInv, JTypes, Since
      <3>2. next # None => next <= s
        BY <2>1, <2>2, <2>4, <2>6, JitterBounds DEF Refilling
      <3>3. newestFrame <= due /\ newest <= s
        BY <2>1, <2>2, <2>4, <2>6
      <3>4. ~(next # None /\ s < next)
        BY <2>1, <2>2, <2>4, <2>6, <3>2, JitterBounds DEF Refilling
      <3>5. newest' = s /\ newestFrame' = due
        BY <2>1, <2>2, <2>4, <2>6, <3>3, <3>4 DEF Greater
      <3>6. (s - (j + 1) + 1)..s \subseteq held \cup {s}
        <4>1. CASE j = 0
          BY <2>1, <4>1
        <4>2. CASE j > 0
          <5>1. newestFrame = due - 1 /\ (newest - j + 1)..newest \subseteq held
            BY <2>6, <3>1, <4>2 DEF Refilling
          <5>2. newest = s - 1
            BY <2>1, <2>2, <2>4, <2>6, <5>1
          <5> QED BY <2>1, <5>1, <5>2
        <4> QED BY <4>1, <4>2
      <3>7. (newest' - (j + 1) + 1)..newest' \subseteq held'
        <4>1. j + 1 \in Nat /\ j + 1 <= MAX_HELD
          BY JitterBounds
        <4> QED BY <2>1, <3>4, <3>5, <3>6, <4>1
      <3> QED BY <2>1, <2>3, <2>6, <3>1, <3>5, <3>7 DEF Refilling
    <2>7. ASSUME frame <= due + 1, NEW j \in 0..(DELAY - 1), Refilling(j), f # due
          PROVE  Refilling(j)'
      <3>1. fresh' = fresh /\ Since(j)' = Since(j) /\ f < due
        <4>1. fresh' = fresh
          BY <2>3, <2>7 DEF JInv, JTypes
        <4>2. f < due
          BY <2>2, <2>7
        <4> QED BY <4>1, <4>2 DEF Since
      <3>2. ASSUME Since(j) > 0
            PROVE  /\ newest' # None /\ newestFrame' = (IF fresh' THEN due' ELSE due' - 1)
                   /\ (newest' - Since(j)' + 1)..newest' \subseteq held'
        <4>1. newestFrame = (IF fresh THEN due ELSE due - 1) /\ (newest - Since(j) + 1)..newest \subseteq held
          BY <2>7, <3>2 DEF Refilling
        <4>2. f <= newestFrame /\ s <= newest
          BY <2>1, <2>2, <2>4, <3>1, <4>1
        <4>3. newest' = newest /\ newestFrame' = newestFrame
          BY <2>1, <2>2, <4>2 DEF Greater
        <4>4. Since(j) \in Nat /\ Since(j) <= MAX_HELD
          BY JitterBounds DEF Since
        <4>5. (newest' - Since(j) + 1)..newest' \subseteq held'
          BY <2>1, <4>1, <4>3, <4>4
        <4> QED BY <2>1, <2>3, <3>1, <4>1, <4>3, <4>5
      <3> QED BY <2>1, <2>3, <2>7, <3>1, <3>2 DEF Refilling
    <2>8. OnCourse'
      <3> SUFFICES ASSUME frame <= due + 1
                   PROVE  RunningDry' \/ \E j \in 0..(DELAY - 1) : Refilling(j)'
        BY <2>3 DEF OnCourse
      <3>1. RunningDry \/ \E j \in 0..(DELAY - 1) : Refilling(j)
        BY DEF JInv, OnCourse
      <3> QED BY <2>5, <2>6, <2>7, <3>1
    <2> QED BY <2>1, <2>8 DEF JInv
  <1> QED BY <1>1, <1>2

\* A tick that leaves no quiet tick behind, or none on time, begins anew.
LEMMA QuietNoMore ==
  ASSUME JTypes', quiet' = 0, fresh' = FALSE
  PROVE  OnCourse'
  <1>1. CASE next' = None
    <2>1. Since(0)' = 0
      BY DEF Since
    <2>2. Refilling(0)'
      BY <1>1, <2>1, JitterBounds DEF Refilling
    <2> QED BY <2>2, JitterBounds DEF OnCourse
  <1>2. CASE next' # None
    BY <1>2 DEF JTypes, RunningDry, OnCourse
  <1> QED BY <1>1, <1>2

\* A tick that has to wait for packets.
LEMMA WaitKeepsCourse ==
  ASSUME JInv, JitterPop, next = None, Cardinality(held) < DELAY
  PROVE  JInv'
  <1>1. /\ held' = held /\ next' = next /\ dry' = dry /\ frame' = frame /\ net' = net
        /\ newest' = newest /\ newestFrame' = newestFrame /\ due' = frame /\ fresh' = FALSE
        /\ quiet' = IF OnTime THEN quiet + 1 ELSE 0
    BY DEF JitterPop
  <1>2. Placed'
    BY <1>1 DEF JInv, Placed
  <1>3. quiet' <= MAX_DRY + DELAY => JTypes'
    <2>1. fresh' \in BOOLEAN /\ ~fresh'
      BY <1>1
    <2>2. quiet' \in Nat
      BY <1>1 DEF JInv, JTypes
    <2> QED BY <1>1, <2>1, <2>2 DEF JInv, JTypes
  <1>4. CASE ~OnTime
    <2>1. quiet' = 0
      BY <1>1, <1>4
    <2>2. JTypes'
      BY <1>3, <2>1, JitterBounds
    <2> QED BY <1>1, <1>2, <2>1, <2>2, QuietNoMore DEF JInv
  <1>5. CASE OnTime
    <2>1. fresh /\ frame = due + 1 /\ quiet' = quiet + 1 /\ due \in Nat /\ quiet \in Nat
      BY <1>1, <1>5 DEF OnTime, JInv, JTypes
    <2>2. PICK j \in 0..(DELAY - 1) : Refilling(j)
      BY <2>1 DEF JInv, OnCourse, RunningDry
    <2>3. Since(j) = j + 1 /\ j \in Nat
      BY <2>1, JitterBounds DEF Since
    <2>4. newest # None /\ newestFrame = due /\ (newest - (j + 1) + 1)..newest \subseteq held
          /\ quiet <= MAX_DRY + 1 + j
      BY <2>1, <2>2, <2>3 DEF Refilling
    <2>5. newest \in Nat /\ IsFiniteSet(held) /\ Cardinality(held) \in Nat
      BY <2>4, FS_CardinalityType DEF JInv, JTypes, Placed
    <2>6. j + 1 <= Cardinality(held)
      BY <2>3, <2>4, <2>5, CountLatest
    <2>7. j + 1 \in 0..(DELAY - 1) /\ quiet' <= MAX_DRY + 1 + (j + 1)
      BY <2>1, <2>3, <2>4, <2>5, <2>6, JitterBounds
    <2>8. Since(j + 1)' = j + 1 /\ ~fresh'
      BY <1>1 DEF Since
    <2>9. Refilling(j + 1)'
      BY <1>1, <2>1, <2>4, <2>7, <2>8 DEF Refilling
    <2>10. OnCourse'
      BY <2>7, <2>9 DEF OnCourse
    <2>11. JTypes'
      BY <1>3, <2>1, <2>7, JitterBounds
    <2> QED BY <1>2, <2>10, <2>11 DEF JInv
  <1> QED BY <1>4, <1>5

\* A tick once started, or starting, at n.
LEMMA TurnKeepsCourse ==
  ASSUME JInv, JitterPop, NEW n \in Int, PopAt(n), newest # None,
         n = next \/ (next = None /\ n \in held)
  PROVE  JInv'
  <1> DEFINE behind == newest + 1 > n + DELAY + CATCH_UP
             turn == IF behind THEN newest + 1 - DELAY ELSE n
             kept == IF behind THEN {s \in held : s >= turn} ELSE held
             plays == turn \in kept
             starved == ~plays /\ (dry + 1 > MAX_DRY \/ (kept = {} /\ dry + 1 > 2))
  <1>1. /\ frame' = frame /\ net' = net /\ newest' = newest /\ newestFrame' = newestFrame
        /\ due' = frame /\ fresh' = FALSE
    BY DEF JitterPop
  <1>2. /\ held' = kept \ {turn}
        /\ next' = IF starved THEN None ELSE turn + 1
        /\ dry' = IF plays \/ starved THEN 0 ELSE dry + 1
        /\ quiet' = IF OnTime /\ ~plays THEN quiet + 1 ELSE 0
    BY DEF PopAt
  <1>3. newest \in Nat /\ newest >= WRAP /\ turn \in Int /\ held \subseteq Nat /\ kept \subseteq held
    BY JitterBounds DEF JInv, JTypes, Placed
  <1>4. held' \subseteq held /\ IsFiniteSet(held')
    <2>1. held' \subseteq held
      BY <1>2, <1>3
    <2> QED BY <2>1, FS_Subset DEF JInv, JTypes
  <1>5. Placed'
    BY <1>1, <1>4 DEF JInv, Placed
  <1>6. dry' \in Nat /\ dry' <= MAX_DRY /\ (next' = None => dry' = 0) /\ (next' = None \/ next' \in Int)
    <2>1. turn + 1 # None /\ dry \in Nat
      BY <1>3, JitterBounds DEF JInv, JTypes
    <2>2. ~plays /\ ~starved => dry + 1 <= MAX_DRY
      BY <2>1, JitterBounds
    <2> HIDE DEF turn, kept, plays, starved
    <2> QED BY <1>2, <1>3, <2>1, <2>2, JitterBounds
  <1>7. quiet' <= MAX_DRY + DELAY => JTypes'
    <2>1. fresh' \in BOOLEAN /\ ~fresh'
      BY <1>1
    <2>2. quiet' \in Nat
      <3> HIDE DEF plays
      <3> QED BY <1>2 DEF JInv, JTypes
    <2> QED BY <1>1, <1>3, <1>4, <1>6, <2>1, <2>2 DEF JInv, JTypes
  <1>8. CASE ~(OnTime /\ ~plays)
    <2>1. quiet' = 0
      <3> HIDE DEF plays
      <3> QED BY <1>2, <1>8
    <2>2. JTypes'
      BY <1>7, <2>1, JitterBounds
    <2> QED BY <1>1, <1>5, <2>1, <2>2, QuietNoMore DEF JInv
  <1>9. CASE OnTime /\ ~plays
    <2>1. fresh /\ frame = due + 1 /\ due \in Nat /\ quiet \in Nat /\ dry \in Nat /\ dry <= MAX_DRY
      BY <1>9 DEF OnTime, JInv, JTypes
    <2>2. quiet' = quiet + 1
      <3> HIDE DEF plays
      <3> QED BY <1>2, <1>9
    <2>3. next' = IF starved THEN None ELSE turn + 1
      BY <1>2
    <2>4. RunningDry \/ \E j \in 0..(DELAY - 1) : Refilling(j)
      BY <2>1 DEF JInv, OnCourse
    <2>5. CASE RunningDry
      <3>1. quiet' <= MAX_DRY + 1 /\ JTypes'
        BY <1>7, <2>1, <2>2, <2>5, JitterBounds DEF RunningDry
      <3>2. CASE next' = None
        <4>1. Since(0)' = 0
          BY <1>1 DEF Since
        <4>2. Refilling(0)'
          BY <3>1, <3>2, <4>1, JitterBounds DEF Refilling
        <4> QED BY <1>5, <3>1, <4>2, JitterBounds DEF JInv, OnCourse
      <3>3. CASE next' # None
        <4>1. dry' = dry + 1
          <5>1. ~plays /\ ~starved
            <6> HIDE DEF plays, starved
            <6> QED BY <1>9, <2>3, <3>3
          <5> HIDE DEF plays, starved
          <5> QED BY <1>2, <5>1
        <4>2. RunningDry'
          BY <2>1, <2>2, <2>5, <3>3, <4>1 DEF RunningDry
        <4> QED BY <1>5, <3>1, <4>2 DEF JInv, OnCourse
      <3> QED BY <3>2, <3>3
    <2>6. ASSUME NEW j \in 0..(DELAY - 1), Refilling(j) PROVE JInv'
      <3>1. Since(j) = j + 1 /\ j \in Nat
        BY <2>1, JitterBounds DEF Since
      <3>2. newestFrame = due /\ (newest - j)..newest \subseteq held /\ quiet <= MAX_DRY + 1 + j
        <4>1. newestFrame = due /\ (newest - (j + 1) + 1)..newest \subseteq held
          BY <2>1, <2>6, <3>1 DEF Refilling
        <4>2. newest - (j + 1) + 1 = newest - j
          BY <1>3, <3>1
        <4> QED BY <2>6, <4>1, <4>2 DEF Refilling
      <3>3. due + Shift = newest /\ Shift \in Int
        BY <1>3, <2>1, <3>2 DEF Shift
      <3>4. turn = newest + 1 - DELAY
        <4>1. CASE next = None
          <5>1. n \in held
            BY <1>3, <4>1, JitterBounds
          <5>2. behind
            BY <1>9, <5>1
          <5> QED BY <5>2
        <4>2. CASE next # None
          <5>1. n = newest + 1 - DELAY
            BY <2>6, <3>3, <4>2 DEF Refilling
          <5>2. ~behind
            BY <1>3, <5>1, JitterBounds
          <5> QED BY <5>1, <5>2
        <4> QED BY <4>1, <4>2
      <3>5. \A s \in held : s >= turn => s \in kept
        OBVIOUS
      <3>6. turn \notin held
        <4>1. turn >= turn
          BY <1>3
        <4> QED BY <1>9, <3>5, <4>1
      <3> HIDE DEF behind, turn, kept, plays, starved
      <3>7. j + 1 <= DELAY - 1
        <4> SUFFICES ASSUME j + 1 >= DELAY PROVE FALSE
          BY <3>1, JitterBounds
        <4>1. turn \in (newest - j)..newest
          BY <1>3, <3>1, <3>4, JitterBounds
        <4> QED BY <3>2, <3>6, <4>1
      <3>8. (newest - j)..newest \subseteq held'
        <4> SUFFICES ASSUME NEW s \in (newest - j)..newest PROVE s \in held'
          OBVIOUS
        <4>1. s \in held /\ s > turn
          BY <1>3, <3>1, <3>2, <3>4, <3>7, JitterBounds
        <4>2. s \in kept
          BY <1>3, <3>5, <4>1
        <4> QED BY <1>2, <1>3, <4>1, <4>2
      <3>9. j + 1 \in 0..(DELAY - 1) /\ quiet' <= MAX_DRY + 1 + (j + 1)
        BY <2>1, <2>2, <3>1, <3>2, <3>7, JitterBounds
      <3>10. Since(j + 1)' = j + 1 /\ ~fresh'
        BY <1>1 DEF Since
      <3>11. (newest' - Since(j + 1)' + 1)..newest' \subseteq held'
        <4>1. newest - (j + 1) + 1 = newest - j
          BY <1>3, <3>1
        <4> QED BY <1>1, <3>8, <3>10, <4>1
      <3>12. next' # None => next' = due' + Shift' + 1 - DELAY
        <4>1. Shift' = Shift
          BY <1>1 DEF Shift
        <4> QED BY <1>1, <1>3, <2>1, <2>3, <3>3, <3>4, <4>1, JitterBounds
      <3>13. newestFrame' = due' - 1
        BY <1>1, <2>1, <3>2
      <3>14. Refilling(j + 1)'
        BY <1>1, <3>9, <3>10, <3>11, <3>12, <3>13 DEF Refilling
      <3>15. OnCourse'
        BY <3>9, <3>14 DEF OnCourse
      <3>16. JTypes'
        BY <1>7, <2>1, <2>2, <3>9, JitterBounds
      <3> QED BY <1>5, <3>15, <3>16 DEF JInv
    <2> QED BY <2>4, <2>5, <2>6
  <1> QED BY <1>8, <1>9

\* Every step keeps a stream on course whose packets are timely.
LEMMA StreamStep ==
  ASSUME JInv, Timely, [JNext]_jvars
  PROVE  JInv'
  <1>1. CASE SendFrame
    <2>1. /\ net' = net \cup {frame} /\ frame' = frame + 1 /\ held' = held /\ next' = next
          /\ newest' = newest /\ dry' = dry /\ newestFrame' = newestFrame /\ due' = due
          /\ fresh' = fresh /\ quiet' = quiet
      BY <1>1 DEF SendFrame
    <2>2. JTypes' /\ Placed'
      <3>1. JTypes'
        BY <2>1 DEF JInv, JTypes
      <3>2. Placed'
        BY <2>1 DEF JInv, JTypes, Placed
      <3> QED BY <3>1, <3>2
    <2>3. ASSUME frame' <= due' + 1 PROVE RunningDry' \/ \E j \in 0..(DELAY - 1) : Refilling(j)'
      <3>1. frame <= due + 1
        BY <2>1, <2>3 DEF JInv, JTypes
      <3>2. RunningDry \/ \E j \in 0..(DELAY - 1) : Refilling(j)
        BY <3>1 DEF JInv, OnCourse
      <3> QED BY <2>1, <3>2 DEF RunningDry, Refilling, Since, Shift
    <2> QED BY <2>2, <2>3 DEF JInv, OnCourse
  <1>2. CASE JitterPop
    <2>1. CASE next = None /\ Cardinality(held) < DELAY
      BY <1>2, <2>1, WaitKeepsCourse
    <2>2. CASE next # None
      <3>1. PopAt(next) /\ next \in Int /\ newest # None
        BY <1>2, <2>2 DEF JitterPop, JInv, JTypes, Placed
      <3> QED BY <1>2, <3>1, TurnKeepsCourse
    <2>3. CASE next = None /\ ~(Cardinality(held) < DELAY)
      <3>1. PopAt(Least(held))
        BY <1>2, <2>3 DEF JitterPop
      <3>2. held # {} /\ held \subseteq Nat
        BY <2>3, JitterBounds, FS_EmptySet DEF JInv, JTypes
      <3>3. Least(held) \in held
        BY <3>2, LeastIsLeast
      <3>4. newest # None
        BY <3>2 DEF JInv, Placed
      <3>5. Least(held) \in Int
        <4> DEFINE first == Least(held)
        <4>1. first \in held
          BY <3>3
        <4> HIDE DEF first
        <4>2. first \in Nat
          BY <3>2, <4>1
        <4> QED BY <4>2 DEF first
      <3> QED BY <1>2, <2>3, <3>1, <3>3, <3>4, <3>5, TurnKeepsCourse
    <2> QED BY <2>1, <2>2, <2>3
  <1>3. ASSUME NEW n \in Pauses, Pause(n) PROVE JInv'
    <2>1. /\ frame' = frame + n /\ quiet' = 0 /\ fresh' = FALSE /\ net' = net /\ held' = held
          /\ next' = next /\ newest' = newest /\ dry' = dry /\ newestFrame' = newestFrame
          /\ due' = due /\ n \in Nat
      BY <1>3, JitterBounds DEF Pause
    <2>2. fresh' \in BOOLEAN /\ ~fresh'
      BY <2>1
    <2>3. JTypes'
      <3>1. 0 <= MAX_DRY + DELAY
        BY JitterBounds
      <3> QED BY <2>1, <2>2, <3>1 DEF JInv, JTypes
    <2>4. Placed'
      BY <2>1 DEF JInv, JTypes, Placed
    <2> QED BY <2>1, <2>3, <2>4, QuietNoMore DEF JInv
  <1>4. ASSUME NEW f \in net, JitterPush(f) PROVE JInv'
    BY <1>4, PushKeepsCourse
  <1>5. ASSUME NEW f \in net, LoseFrame(f) PROVE JInv'
    <2>1. /\ net' \subseteq net /\ frame' = frame /\ held' = held /\ next' = next
          /\ newest' = newest /\ dry' = dry /\ newestFrame' = newestFrame /\ due' = due
          /\ fresh' = fresh /\ quiet' = quiet
      BY <1>5 DEF LoseFrame
    <2>2. JTypes' /\ Placed'
      BY <2>1 DEF JInv, JTypes, Placed
    <2>3. OnCourse'
      BY <2>1 DEF JInv, OnCourse, RunningDry, Refilling, Since, Shift
    <2> QED BY <2>2, <2>3 DEF JInv
  <1>6. CASE UNCHANGED jvars
    <2>1. JTypes' /\ Placed'
      BY <1>6 DEF jvars, JInv, JTypes, Placed
    <2>2. OnCourse'
      BY <1>6 DEF jvars, JInv, OnCourse, RunningDry, Refilling, Since, Shift
    <2> QED BY <2>1, <2>2 DEF JInv
  <1> QED BY <1>1, <1>2, <1>3, <1>4, <1>5, <1>6 DEF JNext

\* A stream that arrives on time is heard soon, whatever was lost, came late or
\* out of order before, and across any number of turns of the sequence numbers:
\* as long as no packet comes half a turn or more from the newest heard
\* (Jitter::push, pop, unwrap).
THEOREM OnTimeIsHeard == JSpec /\ []Timely => []HeardSoon
<1>1. JInv /\ Timely /\ [JNext]_jvars => JInv'
  BY StreamStep
<1>2. JInv => HeardSoon
  BY DEF JInv, JTypes, HeardSoon
<1> QED BY <1>1, <1>2, StreamBegins, PTL DEF JSpec

=============================================================================
