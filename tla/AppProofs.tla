----------------------------- MODULE AppProofs ------------------------------
(***************************************************************************)
(* Proofs about the services of the application and the anchor, for every  *)
(* value of their constants: onboarding, zaps, the bridge that serves a    *)
(* group to clients over a web socket, the public listing and the window.  *)
(***************************************************************************)
EXTENDS Onboarding, Zaps, Bridge, Publishing, Window, FiniteSetTheorems, TLAPS

(***************************************************************************)
(* Onboarding.                                                             *)
(***************************************************************************)
\* The places a task may be in.
Places == {"create", "import", "name_create", "name_import",
           "encrypting", "written", "backed", "start"}
Jobs == {None} \cup [at : Places, who : Keys]

OTypes ==
    /\ chosen \in [npub : Keys \cup {None}, backed : BOOLEAN]
    /\ job \in [Tasks -> Jobs]
    /\ alive \in BOOLEAN
    /\ losses \in Nat

\* The steps that put a new identity in the place of the one app.json names.
NewKey == {"create", "import", "name_create", "name_import"}

\* A key brought along is one the person holds; while no key was lost, a new
\* one comes only to a device that names none, and is in the keychain before
\* it is named.
Replacing ==
    job["step"] # None /\ job["step"].at \in NewKey
        => /\ job["step"].at \in {"import", "name_import"} => job["step"].who \in Held
           /\ losses = 0 =>
                /\ chosen.npub = None
                /\ job["step"].at \in {"name_create", "name_import"} => job["step"].who \in keychain

\* A file written, or a key copied, is one the person holds; while no key was
\* lost it is the one app.json names.
BackingUp ==
    \A t \in Tasks : job[t] # None /\ job[t].at \in {"encrypting", "written", "backed"}
        => /\ job[t].at \in {"written", "backed"} => job[t].who \in kept
           /\ losses = 0 => job[t].who = chosen.npub /\ chosen.npub # None

\* A node about to start is one for a key the person holds, or for one that a
\* backup of another key vouched for.
Starting ==
    \A t \in Tasks : job[t] # None /\ job[t].at = "start" => job[t].who \in kept \cup mistaken

\* While no key was lost, the keychain holds the one app.json names.
NoneLost == losses = 0 /\ chosen.npub # None => chosen.npub \in keychain

OInv ==
    /\ OTypes /\ Replacing /\ BackingUp /\ Starting /\ NoneLost
    /\ Held \subseteq kept
    /\ ~alive => job = [t \in Tasks |-> None]
    /\ BackedUpIsHeld

\* What a task's next step makes of the two jobs.
LEMMA JobGoes ==
    ASSUME OTypes, NEW t \in Tasks, NEW at \in Places, NEW who \in Keys, Goes(t, at, who)
    PROVE  /\ job' \in [Tasks -> Jobs]
           /\ job'[t].at = at /\ job'[t].who = who
           /\ \A s \in Tasks \ {t} : job'[s] = job[s]
  BY DEF OTypes, Goes, Jobs

\* What a task's end makes of the two jobs.
LEMMA JobEnds ==
    ASSUME OTypes, NEW t \in Tasks, Ends(t)
    PROVE  /\ job' \in [Tasks -> Jobs]
           /\ job'[t] = None
           /\ \A s \in Tasks \ {t} : job'[s] = job[s]
  BY DEF OTypes, Ends, Jobs

\* Every step of onboarding keeps this, also one that finishes the backup of
\* an identity that is not the one named any more.
LEMMA OStep == OInv /\ [ONext]_ovars => OInv'
<1> SUFFICES ASSUME OInv, [ONext]_ovars PROVE OInv'
  OBVIOUS
<1> USE DEF OInv, Replacing, BackingUp, Starting, NoneLost, BackedUpIsHeld, Person, At, NewKey
<1>a. /\ "step" \in Tasks /\ "dialog" \in Tasks /\ "step" # "dialog"
      /\ \A t \in Tasks : t = "step" \/ t = "dialog"
  BY DEF Tasks
<1>b. /\ Places = {"create", "import", "name_create", "name_import",
                  "encrypting", "written", "backed", "start"}
      /\ chosen \in [npub : Keys \cup {None}, backed : BOOLEAN]
      /\ alive \in BOOLEAN
      /\ losses \in Nat
      /\ \A t \in Tasks : job[t] # None => job[t].at \in Places /\ job[t].who \in Keys
  BY DEF OTypes, Places, Jobs
<1>c. OTypes' <=> /\ chosen' \in [npub : Keys \cup {None}, backed : BOOLEAN]
                  /\ job' \in [Tasks -> Jobs]
                  /\ alive' \in BOOLEAN
                  /\ losses' \in Nat
  BY DEF OTypes
<1>1. ASSUME NEW k \in Keys, NEW at \in {"create", "import"}, Begin(at, k) PROVE OInv'
  <2>1. Goes("step", at, k)
    BY <1>1 DEF Begin
  <2> QED BY <1>1, <1>a, <1>b, <1>c, <2>1, JobGoes DEF Begin, RequireNew
<1>2. CASE SaveKey
  <2> DEFINE next == IF job["step"].at = "create" THEN "name_create" ELSE "name_import"
  <2>1. Goes("step", next, job["step"].who)
    BY <1>2 DEF SaveKey
  <2> QED BY <1>2, <1>a, <1>b, <1>c, <2>1, JobGoes DEF SaveKey
<1>3. CASE NameCreated
  <2>1. Ends("step")
    BY <1>3 DEF NameCreated
  <2> QED BY <1>3, <1>a, <1>b, <1>c, <2>1, JobEnds DEF NameCreated
<1>4. CASE NameImported
  <2>1. Goes("step", "start", job["step"].who)
    BY <1>4 DEF NameImported
  <2> QED BY <1>4, <1>a, <1>b, <1>c, <2>1, JobGoes DEF NameImported
<1>5. CASE ConfirmBackup
  <2>1. Goes("step", "backed", Person) /\ Person = chosen.npub
    BY <1>5 DEF ConfirmBackup
  <2> QED BY <1>5, <1>a, <1>b, <1>c, <2>1, JobGoes DEF ConfirmBackup
<1>6. CASE BackupToFile
  <2>1. Goes("dialog", "encrypting", Person) /\ Person = chosen.npub
    BY <1>6 DEF BackupToFile
  <2> QED BY <1>6, <1>a, <1>b, <1>c, <2>1, JobGoes DEF BackupToFile
<1>7. CASE WriteFile
  <2>1. CASE kept' = kept \cup {job["dialog"].who} /\ Goes("dialog", "written", job["dialog"].who)
    BY <1>7, <1>a, <1>b, <1>c, <2>1, JobGoes DEF WriteFile
  <2>2. CASE kept' = kept /\ Ends("dialog")
    BY <1>7, <1>a, <1>b, <1>c, <2>2, JobEnds DEF WriteFile
  <2> QED BY <1>7, <2>1, <2>2 DEF WriteFile
<1>8. CASE FileWritten
  <2>1. Goes("dialog", "backed", job["dialog"].who) \/ Ends("dialog")
    BY <1>8 DEF FileWritten
  <2>2. CASE Goes("dialog", "backed", job["dialog"].who)
    BY <1>8, <1>a, <1>b, <1>c, <2>2, JobGoes DEF FileWritten
  <2>3. CASE Ends("dialog")
    BY <1>8, <1>a, <1>b, <1>c, <2>3, JobEnds DEF FileWritten
  <2> QED BY <2>1, <2>2, <2>3
<1>9. ASSUME NEW t \in Tasks, BackedUp(t) PROVE OInv'
  <2>1. chosen' = [npub |-> chosen.npub, backed |-> TRUE]
    BY <1>9, <1>b DEF BackedUp
  <2>2. chosen'.npub = chosen.npub /\ chosen' \in [npub : Keys \cup {None}, backed : BOOLEAN]
    BY <1>b, <2>1
  <2>3. alive /\ UNCHANGED <<keychain, kept, running, alive, losses>>
    BY <1>9 DEF BackedUp
  <2>4. job[t].who \in kept /\ (losses = 0 => job[t].who = chosen.npub)
    BY <1>9 DEF BackedUp
  <2>5. mistaken' = mistaken \cup ({chosen.npub} \ {job[t].who})
    BY <1>9 DEF BackedUp
  <2>6. mistaken \subseteq mistaken' /\ chosen.npub \in kept \cup mistaken'
    BY <2>4, <2>5
  <2>7. mistaken' # {} => losses > 0
    BY <1>b, <2>4, <2>5
  <2>8. CASE Person = None
    <3>1. Ends(t)
      BY <1>9, <2>8 DEF BackedUp
    <3> QED BY <1>a, <1>b, <1>c, <2>2, <2>3, <2>6, <2>7, <3>1, JobEnds
  <2>9. CASE Person # None
    <3>1. Goes(t, "start", chosen.npub) /\ chosen.npub \in Keys
      BY <1>9, <1>b, <2>9 DEF BackedUp
    <3>2. /\ job' \in [Tasks -> Jobs]
          /\ job'[t].at = "start" /\ job'[t].who = chosen.npub
          /\ \A s \in Tasks \ {t} : job'[s] = job[s]
      BY <1>b, <3>1, JobGoes
    <3> QED BY <1>a, <1>b, <1>c, <2>2, <2>3, <2>6, <2>7, <3>2
  <2> QED BY <2>8, <2>9
<1>10. ASSUME NEW t \in Tasks, StartNode(t) PROVE OInv'
  <2>1. Ends(t)
    BY <1>10 DEF StartNode
  <2> QED BY <1>10, <1>a, <1>b, <1>c, <2>1, JobEnds DEF StartNode
<1>11. CASE Killed
  BY <1>11, <1>a, <1>b, <1>c DEF Killed, Jobs
<1>12. CASE OpenApp
  <2>1. Stage = "ready" => chosen.backed /\ chosen.npub # None
    BY Zenon DEF Stage
  <2> QED BY <1>12, <1>a, <1>b, <1>c, <2>1 DEF OpenApp, Jobs
<1>13. ASSUME NEW k \in Keys, LoseKey(k) PROVE OInv'
  <2>1. losses' \in Nat /\ losses' # 0 /\ losses' > 0
    BY <1>13, <1>b DEF LoseKey
  <2> QED BY <1>13, <1>a, <1>b, <1>c, <2>1 DEF LoseKey, OTypes
<1>14. CASE UNCHANGED ovars
  BY <1>14, <1>c DEF ovars, OTypes, Jobs
<1> QED
  BY <1>1, <1>2, <1>3, <1>4, <1>5, <1>6, <1>7, <1>8, <1>9, <1>10, <1>11, <1>12, <1>13, <1>14
  DEF ONext

\* An identity app.json calls backed up, or a node runs for, is one whose key
\* the person holds outside the device, wherever the process was killed and
\* whichever keys the keychain lost -- but for one that the backup of another,
\* whose key was lost under it, vouched for.
THEOREM OnboardingKeepsBackups == OSpec => []BackedUpIsHeld
<1>1. OInit => OInv
  BY DEF OInit, OInv, OTypes, Replacing, BackingUp, Starting, NoneLost, BackedUpIsHeld, NoOneYet,
     Tasks, Jobs
<1>2. OInv /\ [ONext]_ovars => OInv'
  BY OStep
<1>3. OInv => BackedUpIsHeld
  BY DEF OInv
<1> QED
  BY <1>1, <1>2, <1>3, PTL DEF OSpec

(***************************************************************************)
(* Zaps.                                                                   *)
(***************************************************************************)
\* The invoices put to a wallet or to a reader.
Requested == asked \cup settled

\* The fee of zap z is in the pending zap; a dialog has shown a code for it.
Owed(z) == pending # None /\ pending.zap = z /\ pending.fee # 0
Shown(z) == \E d \in ZapIds : <<"code", z, d>> \in Requested

ZTypes ==
    /\ DOMAIN step = ZapIds /\ DOMAIN feeTask = ZapIds
    /\ pending # None => pending.zap \in ZapIds
    /\ \A i \in Requested :
        \/ \E z \in ZapIds : i = <<"zap", z>>
        \/ \E z \in ZapIds, n \in {1, 2} : i = <<"fee", z, n>>
        \/ \E z, d \in ZapIds : i = <<"code", z, d>>

\* A zap not paid yet owes nothing, and its fee goes one way: to the wallet,
\* or to the pending zap, and from there to one dialog's code.
OneWay == \A z \in ZapIds :
    /\ step[z] \in {"idle", "quoted", "paying"} => ~Owed(z) /\ ~Shown(z) /\ feeTask[z] = "none"
    /\ Owed(z) => ~Shown(z) /\ feeTask[z] = "none" /\ <<"zap", z>> \in Requested
    /\ Shown(z) => feeTask[z] = "none" /\ <<"zap", z>> \in Requested
    /\ \A d, e \in ZapIds : <<"code", z, d>> \in Requested /\ <<"code", z, e>> \in Requested => d = e

\* spawn_fee runs for a zap that was paid, and it alone asks the wallet: first
\* once, and again if the first was not to be had or was given up.
FeeOfPaid == \A z \in ZapIds :
    /\ feeTask[z] # "none" => <<"zap", z>> \in settled
    /\ <<"fee", z, 1>> \in Requested => feeTask[z] \notin {"none", "first"}
    /\ <<"fee", z, 2>> \in Requested => feeTask[z] \in {"secondAsked", "paid", "failed"}
    /\ <<"fee", z, 1>> \in Requested /\ feeTask[z] \in {"second", "secondAsked"} => z \in givenUp
    /\ <<"fee", z, 1>> \in Requested /\ <<"fee", z, 2>> \in Requested => z \in givenUp

\* A receipt, and the carrier of one, is of a zap that was paid.
ReceiptOfPaid ==
    /\ \A i \in asked : i[1] = "zap" => i = <<"zap", i[2]>>
    /\ \A r \in receipts : <<"zap", r.zap>> \in settled
    /\ \A c \in carriers : <<"zap", c.zap>> \in settled
    /\ IsFiniteSet(settled)

\* A dialog that moves on leaves every fee where it was.
LEMMA OneWayKept ==
    ASSUME ZTypes, OneWay, NEW z \in ZapIds, NEW s, Goto(z, s),
           s \notin {"idle", "paying"},
           s = "quoted" => step[z] = "idle",
           UNCHANGED <<feeTask, asked, settled, pending>>
    PROVE  ZTypes' /\ OneWay'
  BY DEF ZTypes, OneWay, Goto, Owed, Shown, Requested

\* What is put to somebody is new among the invoices, or was there.
LEMMA Asks ==
    ASSUME ZTypes, NEW i, asked' = asked \cup {i}, settled' = settled,
           \/ \E z \in ZapIds : i = <<"zap", z>>
           \/ \E z \in ZapIds, n \in {1, 2} : i = <<"fee", z, n>>
           \/ \E z, d \in ZapIds : i = <<"code", z, d>>
    PROVE  /\ Requested' = Requested \cup {i}
           /\ \A j \in Requested' :
                \/ \E z \in ZapIds : j = <<"zap", z>>
                \/ \E z \in ZapIds, n \in {1, 2} : j = <<"fee", z, n>>
                \/ \E z, d \in ZapIds : j = <<"code", z, d>>
<1>1. Requested' = Requested \cup {i}
  BY DEF Requested
<1> QED BY <1>1 DEF ZTypes

\* No step of a dialog, spawn_fee or the wallet has a fee in two places.
LEMMA ZFee == ZTypes /\ OneWay /\ [ZNext]_zvars => ZTypes' /\ OneWay'
<1> SUFFICES ASSUME ZTypes, OneWay, [ZNext]_zvars PROVE ZTypes' /\ OneWay'
  OBVIOUS
<1>1. ASSUME NEW z \in ZapIds,
             Quote(z) \/ WalletFailed(z) \/ WaitOver(z) \/ WaitCarries(z)
      PROVE  ZTypes' /\ OneWay'
  <2>1. PICK s : /\ Goto(z, s) /\ s \notin {"idle", "paying"} 
                 /\ s = "quoted" => step[z] = "idle"
    BY <1>1 DEF Quote, WalletFailed, WaitOver, WaitCarries
  <2>2. UNCHANGED <<feeTask, asked, settled, pending>>
    BY <1>1 DEF Quote, WalletFailed, WaitOver, WaitCarries
  <2> QED BY <2>1, <2>2, OneWayKept
<1>2. ASSUME NEW z \in ZapIds, PayFromWallet(z) PROVE ZTypes' /\ OneWay'
  <2>1. /\ step[z] = "quoted" /\ Goto(z, "paying") /\ asked' = asked \cup {<<"zap", z>>}
        /\ UNCHANGED <<feeTask, settled, pending>>
    BY <1>2 DEF PayFromWallet
  <2>2. Requested' = Requested \cup {<<"zap", z>>}
    BY <2>1, Asks
  <2>3. ZTypes'
    BY <2>1, Asks DEF ZTypes, Goto
  <2>4. OneWay'
    BY <2>1, <2>2 DEF ZTypes, OneWay, Goto, Owed, Shown
  <2> QED BY <2>3, <2>4
<1>3. ASSUME NEW z \in ZapIds, WalletPaid(z) PROVE ZTypes' /\ OneWay'
  BY <1>3 DEF WalletPaid, ZTypes, OneWay, Owed, Shown, Goto, Requested
<1>4. ASSUME NEW z \in ZapIds, ReceiptSeen(z) PROVE ZTypes' /\ OneWay'
  <2>1. /\ Goto(z, "done") \/ Goto(z, "waiting")
        /\ pending' = pending \/ pending' = [zap |-> z, fee |-> 0]
        /\ step[z] = "watching" /\ UNCHANGED <<feeTask, asked, settled>>
    BY <1>4 DEF ReceiptSeen
  <2>2. \A y \in ZapIds : Owed(y)' => Owed(y)
    BY <2>1 DEF Owed
  <2>3. \A y \in ZapIds : Shown(y)' <=> Shown(y)
    BY <2>1 DEF Shown, Requested
  <2>4. \A y \in ZapIds : step'[y] \in {"idle", "quoted", "paying"} => step[y] \in {"idle", "quoted", "paying"}
    BY <2>1 DEF Goto, ZTypes
  <2>5. Requested' = Requested /\ ZTypes'
    BY <2>1 DEF ZTypes, Requested, Goto
  <2>6. OneWay'
    BY <2>1, <2>2, <2>3, <2>4, <2>5 DEF OneWay
  <2> QED BY <2>5, <2>6
<1>5. ASSUME NEW z \in ZapIds, ReceiptLate(z) PROVE ZTypes' /\ OneWay'
  BY <1>5 DEF ReceiptLate, ZTypes, OneWay, Owed, Shown, Goto, Requested
<1>6. ASSUME NEW z \in ZapIds, ShowCode(z) PROVE ZTypes' /\ OneWay'
  <2>1. /\ step[z] = "quoted" /\ Goto(z, "code") /\ asked' = asked \cup {<<"zap", z>>}
        /\ pending' = [zap |-> z, fee |-> FeeOf[z]]
        /\ UNCHANGED <<feeTask, settled>>
    BY <1>6 DEF ShowCode
  <2>2. Requested' = Requested \cup {<<"zap", z>>}
    BY <2>1, Asks
  <2>3. ZTypes'
    BY <2>1, Asks DEF ZTypes, Goto
  <2>4. OneWay'
    BY <2>1, <2>2 DEF ZTypes, OneWay, Goto, Owed, Shown
  <2> QED BY <2>3, <2>4
<1>7. ASSUME NEW z \in ZapIds, FeeCode(z) PROVE ZTypes' /\ OneWay'
  <2>1. /\ step[z] = "owing" /\ Goto(z, "done") /\ pending' = None
        /\ UNCHANGED <<feeTask, settled>>
    BY <1>7 DEF FeeCode
  <2>2. CASE asked' = asked
    BY <2>1, <2>2 DEF ZTypes, OneWay, Owed, Shown, Goto, Requested
  <2>3. CASE /\ pending # None /\ pending.fee # 0
             /\ asked' = asked \cup {<<"code", pending.zap, z>>}
    <3>1. pending.zap \in ZapIds /\ Owed(pending.zap)
      BY <2>3 DEF ZTypes, Owed
    <3>2. Requested' = Requested \cup {<<"code", pending.zap, z>>}
      BY <2>1, <2>3, <3>1, Asks
    <3>3. ZTypes'
      BY <2>1, <2>3, <3>1, Asks DEF ZTypes, Goto
    <3>4. /\ ~Shown(pending.zap) /\ feeTask[pending.zap] = "none" /\ <<"zap", pending.zap>> \in Requested
          /\ step[pending.zap] \notin {"idle", "quoted", "paying"}
      BY <3>1 DEF OneWay
    <3>5. OneWay'
      BY <2>1, <3>1, <3>2, <3>4 DEF ZTypes, OneWay, Goto, Owed, Shown
    <3> QED BY <3>3, <3>5
  <2> QED BY <1>7, <2>2, <2>3 DEF FeeCode
<1>8. ASSUME NEW z \in ZapIds, FeeAsk(z) PROVE ZTypes' /\ OneWay'
  <2>1. /\ feeTask[z] \in {"first", "second"} /\ asked' = asked \cup {<<"fee", z, Attempt(z)>>}
        /\ feeTask' = [feeTask EXCEPT ![z] = IF @ = "first" THEN "firstAsked" ELSE "secondAsked"]
        /\ UNCHANGED <<step, settled, pending>> /\ Attempt(z) \in {1, 2}
    BY <1>8 DEF FeeAsk, Attempt
  <2>2. Requested' = Requested \cup {<<"fee", z, Attempt(z)>>}
    BY <2>1, Asks
  <2>3. ZTypes'
    BY <2>1, Asks DEF ZTypes
  <2>4. OneWay'
    BY <2>1, <2>2 DEF ZTypes, OneWay, Owed, Shown
  <2> QED BY <2>3, <2>4
<1>13. ASSUME NEW z \in ZapIds, FeePaid(z) \/ FeeFails(z) PROVE ZTypes' /\ OneWay'
  BY <1>13 DEF FeePaid, FeeFails, ZTypes, OneWay, Owed, Shown, Requested
<1>9. ASSUME NEW i \in asked, Settle(i) PROVE ZTypes' /\ OneWay'
  <2>1. Requested' = Requested
    BY <1>9 DEF Settle, Requested
  <2>2. UNCHANGED <<step, feeTask, pending>>
    BY <1>9 DEF Settle
  <2> QED BY <2>1, <2>2 DEF ZTypes, OneWay, Owed, Shown
<1>10. ASSUME NEW r \in receipts, AnchorCarries(r) PROVE ZTypes' /\ OneWay'
  BY <1>10 DEF AnchorCarries, ZTypes, OneWay, Owed, Shown, Requested
<1>11. ASSUME NEW k \in Providers, ChangeAddress(k) PROVE ZTypes' /\ OneWay'
  BY <1>11 DEF ChangeAddress, ZTypes, OneWay, Owed, Shown, Requested
<1>12. CASE UNCHANGED zvars
  BY <1>12 DEF zvars, ZTypes, OneWay, Owed, Shown, Requested
<1> QED
  BY <1>1, <1>2, <1>3, <1>4, <1>5, <1>6, <1>7, <1>8, <1>9, <1>10, <1>11, <1>12, <1>13 DEF ZNext

\* The wallet is asked for a fee, and a receipt is carried, only once the zap
\* itself has settled.
LEMMA ZPaid == ZTypes /\ OneWay /\ FeeOfPaid /\ ReceiptOfPaid /\ [ZNext]_zvars
                    => FeeOfPaid' /\ ReceiptOfPaid'
<1> SUFFICES ASSUME ZTypes, OneWay, FeeOfPaid, ReceiptOfPaid, [ZNext]_zvars
             PROVE FeeOfPaid' /\ ReceiptOfPaid'
  OBVIOUS
<1> USE DEF FeeOfPaid, ReceiptOfPaid, Requested
<1>1. ASSUME NEW z \in ZapIds,
             \/ Quote(z) \/ WalletFailed(z) \/ WaitOver(z) \/ WaitCarries(z)
             \/ ReceiptSeen(z) \/ ReceiptLate(z)
      PROVE  FeeOfPaid' /\ ReceiptOfPaid'
  <2>1. UNCHANGED <<feeTask, asked, settled, givenUp, receipts>>
    BY <1>1 DEF Quote, WalletFailed, WaitOver, WaitCarries, ReceiptSeen, ReceiptLate
  <2>2. \A c \in carriers' : c \in carriers \/ \E r \in receipts : c.zap = r.zap
    BY <1>1 DEF Quote, WalletFailed, WaitOver, WaitCarries, ReceiptSeen, ReceiptLate
  <2> QED BY <2>1, <2>2
<1>2. ASSUME NEW z \in ZapIds, PayFromWallet(z) \/ ShowCode(z) PROVE FeeOfPaid' /\ ReceiptOfPaid'
  BY <1>2 DEF PayFromWallet, ShowCode
<1>3. ASSUME NEW z \in ZapIds, WalletPaid(z) PROVE FeeOfPaid' /\ ReceiptOfPaid'
  BY <1>3 DEF WalletPaid, OneWay, ZTypes
<1>7. ASSUME NEW z \in ZapIds, FeeCode(z) PROVE FeeOfPaid' /\ ReceiptOfPaid'
  BY <1>7 DEF FeeCode
<1>8. ASSUME NEW z \in ZapIds, FeeAsk(z) PROVE FeeOfPaid' /\ ReceiptOfPaid'
  <2>1. UNCHANGED <<settled, givenUp, receipts, carriers>> /\ DOMAIN feeTask = ZapIds
    BY <1>8 DEF FeeAsk, ZTypes
  <2>2. CASE feeTask[z] = "first"
    <3>1. /\ asked' = asked \cup {<<"fee", z, 1>>}
          /\ feeTask' = [feeTask EXCEPT ![z] = "firstAsked"]
      BY <1>8, <2>2 DEF FeeAsk, Attempt
    <3> QED BY <2>1, <2>2, <3>1
  <2>3. CASE feeTask[z] = "second"
    <3>1. /\ asked' = asked \cup {<<"fee", z, 2>>}
          /\ feeTask' = [feeTask EXCEPT ![z] = "secondAsked"]
      BY <1>8, <2>3 DEF FeeAsk, Attempt
    <3> QED BY <2>1, <2>3, <3>1
  <2> QED BY <1>8, <2>2, <2>3 DEF FeeAsk
<1>9. ASSUME NEW z \in ZapIds, FeePaid(z) PROVE FeeOfPaid' /\ ReceiptOfPaid'
  BY <1>9 DEF FeePaid, ZTypes
<1>14. ASSUME NEW z \in ZapIds, FeeFails(z) PROVE FeeOfPaid' /\ ReceiptOfPaid'
  BY <1>14 DEF FeeFails, Attempt, ZTypes
<1>10. ASSUME NEW i \in asked, Settle(i) PROVE FeeOfPaid' /\ ReceiptOfPaid'
  <2>1. IsFiniteSet(settled')
    BY <1>10, FS_AddElement DEF Settle
  <2>2. FeeOfPaid'
    <3>1. Requested' = Requested /\ settled \subseteq settled' /\ UNCHANGED <<feeTask, givenUp>>
      BY <1>10 DEF Settle
    <3> HIDE DEF Requested
    <3> QED BY <3>1
  <2> QED BY <1>10, <2>1, <2>2 DEF Settle
<1>11. ASSUME NEW r \in receipts, AnchorCarries(r) PROVE FeeOfPaid' /\ ReceiptOfPaid'
  BY <1>11 DEF AnchorCarries
<1>12. ASSUME NEW k \in Providers, ChangeAddress(k) PROVE FeeOfPaid' /\ ReceiptOfPaid'
  BY <1>12 DEF ChangeAddress
<1>13. CASE UNCHANGED zvars
  BY <1>13 DEF zvars
<1> QED
  BY <1>1, <1>2, <1>3, <1>7, <1>8, <1>9, <1>10, <1>11, <1>12, <1>13, <1>14 DEF ZNext

ZInv == ZTypes /\ OneWay /\ FeeOfPaid /\ ReceiptOfPaid

\* Before anybody zaps, nothing is owed and nothing has settled.
LEMMA ZBegins == ZInit => ZInv
  <1> SUFFICES ASSUME ZInit PROVE ZInv
    OBVIOUS
  <1>1. IsFiniteSet(settled)
    BY FS_EmptySet DEF ZInit
  <1> QED BY <1>1, ZapConstants
           DEF ZInit, ZInv, ZTypes, OneWay, FeeOfPaid, ReceiptOfPaid, Owed, Shown, Requested

\* A fee that is in one place is asked for one way.
LEMMA FeeCounts == ZInv => FeeGoesOneWay
<1> SUFFICES ASSUME ZInv, NEW z \in ZapIds
             PROVE  /\ \A i \in FeeInvoices(z) :
                        /\ i[1] = "fee" => <<"zap", z>> \in settled
                        /\ i[1] = "code" => <<"zap", z>> \in asked \cup settled /\ FeeInvoices(z) = {i}
                    /\ Cardinality(FeeInvoices(z)) <= IF z \in givenUp THEN 2 ELSE 1
  BY DEF FeeGoesOneWay
<1> DEFINE F == FeeInvoices(z)
<1>0. ZTypes /\ OneWay /\ FeeOfPaid
  BY DEF ZInv
<1>1. ASSUME NEW i \in F
      PROVE  \/ i = <<"fee", z, 1>> \/ i = <<"fee", z, 2>>
             \/ \E d \in ZapIds : i = <<"code", z, d>>
  <2>1. i \in Requested /\ i[1] \in {"fee", "code"} /\ i[2] = z
    BY DEF FeeInvoices, Requested
  <2> QED BY <1>0, <2>1 DEF ZTypes
<1>2. F \subseteq Requested
  BY DEF FeeInvoices, Requested
<1> HIDE DEF F
<1>3. CASE Shown(z)
  <2>1. PICK d \in ZapIds : <<"code", z, d>> \in Requested
    BY <1>3 DEF Shown
  <2>2. feeTask[z] = "none" /\ <<"zap", z>> \in Requested
    BY <1>0, <1>3 DEF OneWay
  <2>3. <<"code", z, d>> \in F
    BY <2>1 DEF F, FeeInvoices, Requested
  <2>4. <<"fee", z, 1>> \notin Requested /\ <<"fee", z, 2>> \notin Requested
    BY <1>0, <2>2 DEF FeeOfPaid
  <2>5. \A e \in ZapIds : <<"code", z, e>> \in Requested => e = d
    BY <1>0, <2>1 DEF OneWay
  <2>6. F = {<<"code", z, d>>}
    <3>1. ASSUME NEW i \in F PROVE i = <<"code", z, d>>
      <4>1. i \in Requested
        BY <1>2
      <4>2. PICK e \in ZapIds : i = <<"code", z, e>>
        BY <1>1, <2>4, <4>1
      <4> QED BY <2>5, <4>1, <4>2
    <3> QED BY <2>3, <3>1
  <2>7. Cardinality(F) = 1
    BY <2>6, FS_Singleton
  <2> QED BY <2>2, <2>6, <2>7 DEF F, Requested
<1>4. CASE ~Shown(z)
  <2>1. F \subseteq {<<"fee", z, 1>>, <<"fee", z, 2>>}
    BY <1>1, <1>2, <1>4 DEF Shown
  <2>2. ASSUME NEW i \in F PROVE i[1] = "fee" /\ <<"zap", z>> \in settled
    <3>1. i \in Requested /\ (i = <<"fee", z, 1>> \/ i = <<"fee", z, 2>>)
      BY <1>2, <2>1
    <3>2. feeTask[z] # "none"
      BY <1>0, <3>1 DEF FeeOfPaid
    <3>3. <<"zap", z>> \in settled
      BY <1>0, <3>2 DEF FeeOfPaid
    <3>4. i[1] = "fee"
      BY <3>1
    <3> QED BY <3>3, <3>4
  <2>3. z \notin givenUp => <<"fee", z, 1>> \notin F \/ <<"fee", z, 2>> \notin F
    BY <1>0, <1>2 DEF FeeOfPaid
  <2>4. \/ F = {} \/ F = {<<"fee", z, 1>>} \/ F = {<<"fee", z, 2>>}
        \/ F = {<<"fee", z, 1>>, <<"fee", z, 2>>} /\ z \in givenUp
    BY <2>1, <2>3
  <2>5. /\ Cardinality({}) = 0
        /\ Cardinality({<<"fee", z, 1>>}) = 1 /\ Cardinality({<<"fee", z, 2>>}) = 1
    BY FS_EmptySet, FS_Singleton
  <2>6. Cardinality({<<"fee", z, 1>>, <<"fee", z, 2>>}) <= 2
    <3>1. IsFiniteSet({<<"fee", z, 1>>}) /\ Cardinality({<<"fee", z, 1>>}) = 1
      BY FS_Singleton
    <3>2. {<<"fee", z, 1>>, <<"fee", z, 2>>} = {<<"fee", z, 1>>} \cup {<<"fee", z, 2>>}
      OBVIOUS
    <3>3. \/ Cardinality({<<"fee", z, 1>>} \cup {<<"fee", z, 2>>}) = 1
          \/ Cardinality({<<"fee", z, 1>>} \cup {<<"fee", z, 2>>}) = 1 + 1
      BY <3>1, FS_AddElement
    <3> QED BY <3>2, <3>3
  <2>7. Cardinality(F) <= IF z \in givenUp THEN 2 ELSE 1
    BY <2>4, <2>5, <2>6
  <2> QED BY <2>2, <2>7 DEF F
<1> QED BY <1>3, <1>4

\* Every zap the window counts is one of its own settled invoices.
LEMMA ReceiptCounts == ZInv => CountedOnce
<1> SUFFICES ASSUME ZInv PROVE CountedOnce
  OBVIOUS
<1> DEFINE Paid == {i \in settled : i[1] = "zap"}
           invoice == [c \in ZapsOf |-> <<"zap", c.zap>>]
<1>1. \A c \in ZapsOf : <<"zap", c.zap>> \in settled
  <2> TAKE c \in ZapsOf
  <2>1. PICK d \in carriers : c = [zap |-> d.zap, key |-> d.key]
    BY DEF ZapsOf
  <2>2. c.zap = d.zap /\ <<"zap", d.zap>> \in settled
    BY <2>1 DEF ZInv, ReceiptOfPaid
  <2> QED BY <2>2
<1>2. IsFiniteSet(Paid)
  <2>1. IsFiniteSet(settled) /\ Paid \in SUBSET settled
    BY DEF ZInv, ReceiptOfPaid
  <2> QED BY <2>1, FS_Subset
<1>3. \A c, d \in ZapsOf : c.zap = d.zap => c = d
  BY DEF ZapsOf
<1>4. invoice \in Injection(ZapsOf, Paid)
  <2>1. \A c \in ZapsOf : invoice[c] \in Paid
    BY <1>1
  <2>2. \A c, d \in ZapsOf : invoice[c] = invoice[d] => c = d
    BY <1>3
  <2> QED BY <2>1, <2>2 DEF Injection, IsInjective
<1>5. Cardinality(ZapsOf) <= Cardinality(Paid)
  <2> HIDE DEF invoice, Paid
  <2> QED BY <1>2, <1>4, FS_Injection
<1> QED BY <1>1, <1>5 DEF CountedOnce

\* HIT_ENTER's fee goes one way, to the wallet after its zap has settled or to
\* one code in one dialog, and a second time to the wallet only after the
\* first was given up (send, spawn_fee, zap_invoice, zap_fee_invoice).
THEOREM ZapFeeGoesOneWay == ZSpec => []FeeGoesOneWay
<1>1. ZInv /\ [ZNext]_zvars => ZInv'
  BY ZFee, ZPaid DEF ZInv
<1> QED BY <1>1, ZBegins, FeeCounts, PTL DEF ZSpec

\* What is counted was paid, and once.
THEOREM ZapsAreCountedOnce == ZSpec => []CountedOnce
<1>1. ZInv /\ [ZNext]_zvars => ZInv'
  BY ZFee, ZPaid DEF ZInv
<1> QED BY <1>1, ZBegins, ReceiptCounts, PTL DEF ZSpec

\* What a queue holds after an event is appended to it.
LEMMA AppendHolds ==
    ASSUME NEW X, NEW s \in Seq(X), NEW e \in X
    PROVE  /\ Append(s, e) \in Seq(X)
           /\ ToSet(Append(s, e)) = ToSet(s) \cup {e}
  <1> DEFINE t == Append(s, e)
  <1>1. /\ t \in Seq(X) /\ Len(s) \in Nat /\ Len(t) = Len(s) + 1
        /\ t[Len(s) + 1] = e
        /\ \A i \in 1..Len(s) : t[i] = s[i]
        /\ DOMAIN s = 1..Len(s) /\ DOMAIN t = 1..(Len(s) + 1)
    OBVIOUS
  <1> HIDE DEF t
  <1>2. ASSUME NEW x \in ToSet(t) PROVE x \in ToSet(s) \cup {e}
    <2>1. PICK i \in 1..(Len(s) + 1) : x = t[i]
      BY <1>1, <1>2 DEF ToSet
    <2>2. i = Len(s) + 1 \/ i \in 1..Len(s)
      BY <1>1, <2>1
    <2> QED BY <1>1, <2>1, <2>2 DEF ToSet
  <1>3. ASSUME NEW x \in ToSet(s) \cup {e} PROVE x \in ToSet(t)
    <2>1. CASE x = e
      BY <1>1, <2>1 DEF ToSet
    <2>2. CASE x \in ToSet(s)
      <3>1. PICK i \in 1..Len(s) : x = s[i]
        BY <1>1, <2>2 DEF ToSet
      <3>2. i \in 1..(Len(s) + 1) /\ t[i] = x
        BY <1>1, <3>1
      <3> QED BY <1>1, <3>2 DEF ToSet
    <2> QED BY <1>3, <2>1, <2>2
  <1>4. ToSet(t) = ToSet(s) \cup {e}
    BY <1>2, <1>3
  <1> QED BY <1>1, <1>4 DEF t

\* What a queue held is its head and what its tail holds.
LEMMA TailHolds ==
    ASSUME NEW X, NEW s \in Seq(X), s # <<>>
    PROVE  /\ Tail(s) \in Seq(X) /\ Head(s) \in X
           /\ ToSet(s) = {Head(s)} \cup ToSet(Tail(s))
  <1>1. /\ Tail(s) \in Seq(X) /\ Head(s) = s[1] /\ s[1] \in X
        /\ Len(s) \in Nat \ {0} /\ Len(Tail(s)) = Len(s) - 1
        /\ \A i \in 1..(Len(s) - 1) : Tail(s)[i] = s[i + 1]
        /\ DOMAIN s = 1..Len(s) /\ DOMAIN Tail(s) = 1..(Len(s) - 1)
    OBVIOUS
  <1>2. ASSUME NEW x \in ToSet(s) PROVE x \in {Head(s)} \cup ToSet(Tail(s))
    <2>1. PICK i \in 1..Len(s) : x = s[i]
      BY <1>1, <1>2 DEF ToSet
    <2>2. CASE i = 1
      BY <2>1, <2>2, <1>1
    <2>3. CASE i # 1
      <3>1. i - 1 \in 1..(Len(s) - 1) /\ Tail(s)[i - 1] = s[i]
        BY <1>1, <2>1, <2>3
      <3> QED BY <1>1, <2>1, <3>1 DEF ToSet
    <2> QED BY <2>2, <2>3
  <1>3. ASSUME NEW x \in {Head(s)} \cup ToSet(Tail(s)) PROVE x \in ToSet(s)
    <2>1. CASE x = Head(s)
      BY <1>1, <2>1 DEF ToSet
    <2>2. CASE x \in ToSet(Tail(s))
      <3>1. PICK i \in 1..(Len(s) - 1) : x = s[i + 1]
        BY <1>1, <2>2 DEF ToSet
      <3>2. i + 1 \in 1..Len(s)
        BY <1>1, <3>1
      <3> QED BY <1>1, <3>1, <3>2 DEF ToSet
    <2> QED BY <1>3, <2>1, <2>2
  <1> QED BY <1>1, <1>2, <1>3

(***************************************************************************)
(* The anchor's bridge.                                                    *)
(***************************************************************************)
BridgeTypes ==
    /\ posted \subseteq Posts
    /\ feed \in Seq(Posts \cup {None})
    /\ session \in {"off", "on", "asking"}
    /\ behind \in BOOLEAN /\ subbed \in BOOLEAN
    /\ session # "asking" => answer = {}
    /\ session = "off" => ~subbed

\* From the moment a REQ is being answered, every post is in one of the
\* places it can be lost from, unless the receiver fell behind.
Accounted ==
    (session = "asking" \/ subbed) /\ ~behind =>
        posted \subseteq given \cup excused \cup untelling \cup ToSet(feed) \cup answer
                          \cup unanswered \cup muffled

BridgeInv == BridgeTypes /\ Accounted

\* A post told of is in the feed, or the receiver is behind.
LEMMA FeedsHolds ==
    ASSUME BridgeTypes, NEW e \in Posts \cup {None}, Feeds(e)
    PROVE  /\ feed' \in Seq(Posts \cup {None})
           /\ behind' \in BOOLEAN /\ (~behind' => ~behind)
           /\ session # "off" /\ ~behind' => ToSet(feed') = ToSet(feed) \cup {e}
  <1>1. CASE session = "off"
    BY <1>1 DEF BridgeTypes, Feeds
  <1>2. CASE session # "off" /\ Len(feed) = FEED
    <2>1. feed # <<>>
      BY <1>2, BridgeAssumption DEF BridgeTypes
    <2>2. Tail(feed) \in Seq(Posts \cup {None})
      BY <2>1, TailHolds DEF BridgeTypes
    <2>3. feed' = Append(Tail(feed), e) /\ behind' = TRUE
      BY <1>2, Zenon DEF Feeds
    <2> QED BY <2>2, <2>3, AppendHolds
  <1>3. CASE session # "off" /\ Len(feed) # FEED
    <2>1. feed' = Append(feed, e) /\ behind' = behind
      BY <1>3 DEF Feeds, BridgeTypes
    <2> QED BY <2>1, AppendHolds DEF BridgeTypes
  <1> QED BY <1>1, <1>2, <1>3

\* No post leaves all the places it waits in without the subscriber having
\* been given it, or the bridge noticing that its receiver fell behind.
LEMMA BridgeStep == BridgeInv /\ [BridgeNext]_wsvars => BridgeInv'
<1> SUFFICES ASSUME BridgeInv, [BridgeNext]_wsvars PROVE BridgeInv'
  OBVIOUS
<1> USE DEF BridgeInv, BridgeTypes, Accounted, nodeSide, connection, misses
<1>1. ASSUME NEW p \in Posts, ArrivesAtAnchor(p) PROVE BridgeInv'
  BY <1>1 DEF ArrivesAtAnchor
<1>2. ASSUME NEW p \in Posts, TellsBridge(p) PROVE BridgeInv'
  <2>1. Feeds(p)
    BY <1>2 DEF TellsBridge
  <2> QED BY <1>2, <2>1, FeedsHolds DEF TellsBridge
<1>3. ASSUME NEW p \in Posts, ClientPosts(p) \/ ZapCarried(p) PROVE BridgeInv'
  <2>1. Feeds(p)
    BY <1>3 DEF ClientPosts, ZapCarried
  <2> QED BY <1>3, <2>1, FeedsHolds DEF ClientPosts, ZapCarried
<1>4. CASE RightsChange
  <2>1. CASE Feeds(None)
    BY <1>4, <2>1, FeedsHolds DEF RightsChange
  <2>2. CASE UNCHANGED <<feed, behind>>
    BY <1>4, <2>2 DEF RightsChange
  <2> QED BY <1>4, <2>1, <2>2 DEF RightsChange, StateEvent
<1>5. CASE Connect \/ Authenticate \/ Eose \/ CloseSub
  <2>1. CASE Connect
    BY <2>1 DEF Connect
  <2>2. CASE Authenticate
    BY <2>2 DEF Authenticate
  <2>3. CASE Eose
    BY <2>3 DEF Eose
  <2>4. CASE CloseSub
    BY <2>4 DEF CloseSub
  <2> QED BY <1>5, <2>1, <2>2, <2>3, <2>4
<1>6. CASE Req
  <2>1. posted \subseteq excused' \cup answer' \cup unanswered'
    BY <1>6 DEF Req
  <2> QED BY <1>6, <2>1 DEF Req
<1>7. CASE SendAnswer
  BY <1>7 DEF SendAnswer
<1>8. CASE Live
  <2>1. /\ feed' \in Seq(Posts \cup {None})
        /\ ToSet(feed) = {Head(feed)} \cup ToSet(feed')
    BY <1>8, TailHolds DEF Live
  <2>2. Head(feed) \in Posts => Head(feed) \in given' \cup excused'
    BY <1>8, BridgeAssumption DEF Live, StateEvent
  <2>3. given \subseteq given' /\ excused \subseteq excused'
    BY <1>8 DEF Live
  <2> QED BY <1>8, <2>1, <2>2, <2>3 DEF Live
<1>9. CASE LaggedNotice
  BY <1>9 DEF LaggedNotice
<1>10. CASE EndSession
  <2>1. feed' \in Seq(Posts \cup {None})
    BY <1>10 DEF EndSession
  <2> QED BY <1>10, <2>1 DEF EndSession
<1>11. CASE UNCHANGED wsvars
  BY <1>11 DEF wsvars
<1>12. ASSUME NEW p \in Posts, CutAtAnchor(p) PROVE BridgeInv'
  BY <1>12 DEF CutAtAnchor
<1> QED
  BY <1>12, <1>1, <1>2, <1>3, <1>4, <1>5, <1>6, <1>7, <1>8, <1>9, <1>10, <1>11 DEF BridgeNext

\* An open subscription of the bridge misses nothing it is owed, whatever is
\* stored, told, asked and sent in whatever order, but for what a failed read
\* or a cut delivery kept from it.
THEOREM BridgeMissesNothing == BridgeSpec => []SubscriberMissesNothing
<1>1. BridgeInit => BridgeInv
  <2> SUFFICES ASSUME BridgeInit PROVE BridgeInv
    OBVIOUS
  <2>1. feed \in Seq(Posts \cup {None})
    BY DEF BridgeInit
  <2> QED BY <2>1 DEF BridgeInit, BridgeInv, BridgeTypes, Accounted
<1>2. BridgeInv => SubscriberMissesNothing
  BY DEF BridgeInv, BridgeTypes, Accounted, SubscriberMissesNothing
<1> QED BY <1>1, <1>2, BridgeStep, PTL DEF BridgeSpec

(***************************************************************************)
(* Publishing.                                                             *)
(***************************************************************************)
Listings == [todo : SUBSET PublicRelays, due : SUBSET Announcements,
             heard : SUBSET Announcements, newest : Announcements \cup {None}]

UTypes ==
    /\ second \in Nat /\ public \in BOOLEAN /\ flips \in Nat
    /\ list \subseteq PublicRelays
    /\ record \in Entries
    /\ done \in Entries \cup {None}
    /\ sending \in Sendings \cup {None}
    /\ holds \in [PublicRelays -> Announcements \cup {None}]
    /\ listing \in Listings

\* A group that was never public has been said nothing of.
Unsaid ==
    flips = 0 => /\ ~public /\ record.what = "none"
                 /\ done # None => done.what = "none"
                 /\ sending = None
                 /\ \A r \in PublicRelays : holds[r] = None

\* `n` stands among `S`: nothing there is newer, and no withdrawal is as new
\* unless n is one.
Stands(n, S) ==
    \A h \in S : /\ n # None
                 /\ \/ h.at < n.at
                    \/ h.at = n.at /\ (h.says = "private" => n.says = "private")

NewestStands == Stands(listing.newest, listing.heard \ listing.due)

\* An event is sent for the entry of a pass.
ForAPass == sending # None => done # None

UInv == UTypes /\ Unsaid /\ NewestStands /\ ForAPass

\* Comparing one more answer keeps what stands standing, in whatever order.
LEMMA StandsAfterCompare ==
    ASSUME NEW n \in Announcements \cup {None}, NEW S \in SUBSET Announcements,
           NEW h \in Announcements, Stands(n, S)
    PROVE  Stands(IF Later(n, h) THEN h ELSE n, S \cup {h})
  <1>1. CASE n = None
    <2>1. S = {}
      BY <1>1 DEF Stands
    <2>2. Later(n, h)
      BY <1>1 DEF Later
    <2> QED BY <2>1, <2>2, PublishingConstants DEF Stands, Announcements
  <1>2. CASE n # None
    <2>1. n \in Announcements /\ h # None
      BY <1>2, PublishingConstants
    <2>2. n.at \in Nat /\ h.at \in Nat /\ \A x \in S : x.at \in Nat
      BY <2>1 DEF Announcements
    <2>3. CASE Later(n, h)
      <3>1. n.at < h.at \/ (n.at = h.at /\ h.says = "private")
        BY <1>2, <2>3 DEF Later
      <3>2. Stands(h, S \cup {h})
        BY <2>1, <2>2, <3>1 DEF Stands
      <3> QED BY <2>3, <3>2
    <2>4. CASE ~Later(n, h)
      <3>1. ~(n.at < h.at) /\ ~(n.at = h.at /\ h.says = "private")
        BY <2>4 DEF Later
      <3>2. Stands(n, S \cup {h})
        BY <1>2, <2>2, <3>1 DEF Stands
      <3> QED BY <2>4, <3>2
    <2> QED BY <2>3, <2>4
  <1> QED BY <1>1, <1>2

\* The date of the next event is a date.
LEMMA DateTyped ==
    ASSUME UTypes, done # None
    PROVE  DatedAfter \in Nat /\ Says \in {"public", "private"}
  <1>1. second \in Nat /\ done.at \in Nat
    BY DEF UTypes, Entries
  <1>2. Greater(second, done.at + 1) \in Nat
    BY <1>1 DEF Greater
  <1> QED BY <1>1, <1>2 DEF DatedAfter, Says

\* The publisher's steps keep the invariant.
LEMMA PublisherSteps ==
    ASSUME UInv, SetPublic \/ BeginPass \/ Send \/ WriteRecord \/ QuitPublishing \/ Tock
                 \/ \E pick \in RelayLists : SetPublicRelays(pick)
    PROVE  UInv'
  <1>1. CASE SetPublic
    <2>1. UTypes' /\ NewestStands'
      BY <1>1 DEF UInv, UTypes, NewestStands, SetPublic
    <2>2. flips' # 0
      BY <1>1 DEF UInv, UTypes, SetPublic
    <2> QED BY <1>1, <2>1, <2>2 DEF UInv, Unsaid, ForAPass, SetPublic
  <1>2. CASE BeginPass
    <2>1. done' \in Entries /\ (record.what = "none" => done' = record)
      <3>1. [record EXCEPT !.what = ""] \in Entries
        BY DEF UInv, UTypes, Entries
      <3> QED BY <1>2, <3>1 DEF BeginPass, UInv, UTypes
    <2>2. UTypes' /\ NewestStands'
      BY <1>2, <2>1 DEF UInv, UTypes, NewestStands, BeginPass
    <2>3. Unsaid'
      BY <1>2, <2>1 DEF UInv, Unsaid, BeginPass
    <2> QED BY <2>1, <2>2, <2>3, PublishingConstants DEF UInv, ForAPass
  <1>3. CASE Send
    <2> DEFINE entry == IF done.what # Says
                        THEN [what |-> Says, at |-> DatedAfter, took |-> {}] ELSE done
    <2>1. /\ done # None /\ Mentioned
          /\ done' = entry
          /\ sending' = [says |-> Says, at |-> DatedAfter, todo |-> list \ entry.took]
          /\ UNCHANGED <<second, public, flips, list, record, holds, listing>>
      BY <1>3 DEF Send
    <2>2. DatedAfter \in Nat /\ Says \in {"public", "private"}
      BY <2>1, DateTyped DEF UInv
    <2>3. entry \in Entries
      BY <2>1, <2>2 DEF UInv, UTypes, Entries
    <2> HIDE DEF entry
    <2>4. sending' \in Sendings
      BY <2>1, <2>2 DEF UInv, UTypes, Sendings
    <2>5. UTypes' /\ NewestStands'
      BY <2>1, <2>3, <2>4 DEF UInv, UTypes, NewestStands
    <2>6. flips # 0
      BY <2>1 DEF UInv, Unsaid, Mentioned
    <2> QED BY <2>1, <2>3, <2>5, <2>6, PublishingConstants DEF UInv, Unsaid, ForAPass
  <1>4. CASE WriteRecord
    <2>1. UTypes' /\ NewestStands'
      BY <1>4 DEF UInv, UTypes, NewestStands, WriteRecord
    <2> QED BY <1>4, <2>1 DEF UInv, Unsaid, ForAPass, WriteRecord
  <1>5. CASE QuitPublishing
    <2>1. UTypes' /\ NewestStands'
      BY <1>5 DEF UInv, UTypes, NewestStands, QuitPublishing
    <2> QED BY <1>5, <2>1 DEF UInv, Unsaid, ForAPass, QuitPublishing
  <1>6. CASE Tock
    BY <1>6 DEF UInv, UTypes, Unsaid, NewestStands, ForAPass, Tock
  <1>7. ASSUME NEW pick \in RelayLists, SetPublicRelays(pick)
        PROVE  UInv'
    BY <1>7, PublishingConstants DEF UInv, UTypes, Unsaid, NewestStands, ForAPass, SetPublicRelays
  <1> QED BY <1>1, <1>2, <1>3, <1>4, <1>5, <1>6, <1>7

\* A relay's answer to the publisher keeps the invariant.
LEMMA AnswerStep ==
    ASSUME UInv, NEW r \in PublicRelays, NEW heard \in BOOLEAN, NEW noted \in BOOLEAN,
           Answer(r, heard, noted)
    PROVE  UInv'
  <1>1. /\ sending # None /\ sending \in Sendings
        /\ UNCHANGED <<second, public, flips, list, record, listing>>
    BY DEF Answer, UInv, UTypes
  <1>2. holds' \in [PublicRelays -> Announcements \cup {None}]
    <2>1. CASE heard
      <3>1. Takes(r, sending)
        BY <2>1 DEF Answer
      <3> DEFINE new == [says |-> sending.says, at |-> sending.at]
      <3>2. new \in Announcements
        BY <1>1 DEF Sendings, Announcements
      <3>3. PICK x : x \in {holds[r], new} /\ holds' = [holds EXCEPT ![r] = x]
        BY <3>1 DEF Takes
      <3> QED BY <3>2, <3>3 DEF UInv, UTypes
    <2>2. CASE ~heard
      BY <2>2 DEF Answer, UInv, UTypes
    <2> QED BY <2>1, <2>2
  <1>3. done' \in Entries
    <2>1. CASE ~noted
      BY <1>1, <2>1 DEF Answer, UInv, UTypes, ForAPass
    <2>2. CASE noted
      <3>1. done \in Entries
        BY <1>1 DEF UInv, UTypes, ForAPass
      <3>2. [done EXCEPT !.took = @ \cup {r}] \in Entries
        BY <3>1 DEF Entries
      <3> QED BY <2>2, <3>2 DEF Answer
    <2> QED BY <2>1, <2>2
  <1>4. sending' \in Sendings \cup {None}
    BY <1>1 DEF Answer, Sendings
  <1>5. flips' # 0
    BY <1>1 DEF UInv, Unsaid
  <1>6. UTypes'
    BY <1>1, <1>2, <1>3, <1>4 DEF UInv, UTypes
  <1> QED BY <1>1, <1>3, <1>5, <1>6, PublishingConstants DEF UInv, Unsaid, NewestStands, ForAPass

\* The browser's steps keep the invariant.
LEMMA BrowserSteps ==
    ASSUME UInv, \/ BeginBrowse
                 \/ \E r \in PublicRelays : Hear(r)
                 \/ \E h \in listing.due : Compare(h)
    PROVE  UInv'
  <1>1. UNCHANGED <<second, public, flips, list, record, done, sending, holds>>
    BY DEF BeginBrowse, Hear, Compare
  <1>2. Unsaid' /\ ForAPass'
    BY <1>1 DEF UInv, Unsaid, ForAPass
  <1>3. listing \in Listings
    BY DEF UInv, UTypes
  <1>4. CASE BeginBrowse
    <2>1. listing' = [todo |-> PublicRelays, due |-> {}, heard |-> {}, newest |-> None]
      BY <1>4 DEF BeginBrowse, Nothing
    <2>2. listing' \in Listings /\ NewestStands'
      BY <2>1 DEF Listings, NewestStands, Stands
    <2> QED BY <1>1, <1>2, <2>2 DEF UInv, UTypes
  <1>5. ASSUME NEW r \in PublicRelays, Hear(r)
        PROVE  UInv'
    <2> DEFINE got == {holds[r]} \ {None}
    <2>1. got \subseteq Announcements
      BY DEF UInv, UTypes
    <2>2. listing' = [todo |-> listing.todo \ {r}, due |-> listing.due \cup got,
                      heard |-> listing.heard \cup got, newest |-> listing.newest]
      BY <1>5 DEF Hear
    <2> HIDE DEF got
    <2>3. listing' \in Listings
      BY <1>3, <2>1, <2>2 DEF Listings
    <2>4. NewestStands'
      BY <2>2 DEF UInv, NewestStands, Stands
    <2> QED BY <1>1, <1>2, <2>3, <2>4 DEF UInv, UTypes
  <1>6. ASSUME NEW h \in listing.due, Compare(h)
        PROVE  UInv'
    <2> DEFINE top == IF Later(listing.newest, h) THEN h ELSE listing.newest
    <2>1. listing' = [todo |-> {}, due |-> listing.due \ {h}, heard |-> listing.heard,
                      newest |-> top]
      BY <1>6 DEF Compare
    <2>2. /\ h \in Announcements /\ listing.newest \in Announcements \cup {None}
          /\ listing.heard \in SUBSET Announcements /\ listing.due \in SUBSET Announcements
      BY <1>3 DEF Listings
    <2>3. top \in Announcements \cup {None}
      BY <2>2
    <2>4. Stands(top, (listing.heard \ listing.due) \cup {h})
      BY <2>2, StandsAfterCompare DEF UInv, NewestStands
    <2> HIDE DEF top
    <2>5. listing' \in Listings
      BY <2>1, <2>2, <2>3 DEF Listings
    <2>6. listing'.heard \ listing'.due \subseteq (listing.heard \ listing.due) \cup {h}
      BY <2>1
    <2>7. NewestStands'
      BY <2>1, <2>4, <2>6 DEF NewestStands, Stands
    <2> QED BY <1>1, <1>2, <2>5, <2>7 DEF UInv, UTypes
  <1> QED BY <1>4, <1>5, <1>6

\* OnlyWhatIsPublic for every set of relays, every clock and any number of
\* changes: publish_public_once mentions a group only once it was public, and
\* ask_for_communities lists an announcement only if no withdrawal it heard is
\* as new, in whatever order the answers came and were compared.
THEOREM OnlyPublicIsListed == USpec => []OnlyWhatIsPublic
  <1>1. UInit => UInv
    <2> SUFFICES ASSUME UInit PROVE UInv
      OBVIOUS
    <2>1. record \in Entries /\ record.what = "none"
      BY DEF UInit, NoEntry, Entries
    <2>2. listing \in Listings /\ listing.heard = {}
      BY DEF UInit, Nothing, Listings
    <2>3. UTypes
      BY <2>1, <2>2 DEF UInit, UTypes
    <2>4. Unsaid /\ ForAPass
      BY <2>1 DEF UInit, Unsaid, ForAPass
    <2> QED BY <2>2, <2>3, <2>4 DEF UInv, NewestStands, Stands
  <1>2. UInv /\ [UNext]_uvars => UInv'
    <2> SUFFICES ASSUME UInv, [UNext]_uvars
                 PROVE  UInv'
      OBVIOUS
    <2>1. CASE UNCHANGED uvars
      BY <2>1 DEF uvars, UInv, UTypes, Unsaid, NewestStands, ForAPass
    <2> QED BY <2>1, PublisherSteps, AnswerStep, BrowserSteps DEF UNext
  <1>3. UInv => OnlyWhatIsPublic
    <2> SUFFICES ASSUME UInv
                 PROVE  OnlyWhatIsPublic
      OBVIOUS
    <2>1. flips = 0 => \A r \in PublicRelays : holds[r] = None
      BY DEF UInv, Unsaid
    <2>2. ASSUME Found # None, NEW h \in listing.heard, h.says = "private"
          PROVE  h.at < Found.at
      <3>1. /\ Found = listing.newest /\ listing.due = {}
            /\ listing.newest.says = "public"
        BY <2>2 DEF Found
      <3> QED BY <2>2, <3>1 DEF UInv, NewestStands, Stands
    <2> QED BY <2>1, <2>2 DEF OnlyWhatIsPublic
  <1> QED BY <1>1, <1>2, <1>3, PTL DEF USpec

(***************************************************************************)
(* The window.                                                             *)
(***************************************************************************)
BusEvents == {Item(i) : i \in Items} \cup {GroupEvent}
UiEvents == BusEvents \cup {Gone(i) : i \in Items} \cup {Resync}

\* x is in the queue q.
Queued(q, x) == \E k \in 1..Len(q) : q[k] = x

WTypes ==
    /\ store \subseteq Items /\ coming \subseteq Items
    /\ untold \subseteq Items /\ unsaid \subseteq Items
    /\ bus \in Seq(BusEvents) /\ drops \in Seq(UiEvents) /\ rx \in Seq(UiEvents)
    /\ doing \in {"start", "groups", "messages", "dms", "idle"}

\* What is dropped does not come again, so a removal told late removes
\* nothing that is there.
GoneForGood ==
    /\ store \cap coming = {}
    /\ \A i \in Items : i \in unsaid \/ Queued(drops, Gone(i)) \/ Queued(rx, Gone(i))
                            => i \notin store /\ i \notin coming

\* A reader that fell behind has something to read, and is told then.
BehindIsTold == "bus" \in lagged => bus # <<>>

\* The window will still hear of item i, or read everything again before it
\* is past the steps S of a refresh.
Pending(i, S) ==
    \/ i \in untold \/ Queued(bus, Item(i)) \/ Queued(rx, Item(i))
    \/ Queued(rx, Resync) \/ "bus" \in lagged \/ doing \in S

ToMessages == {"start", "groups", "messages"}
ToDms == {"start", "groups", "messages", "dms"}

ShownOrPending ==
    ~picked /\ "messages" \notin blank =>
      \A i \in store \ hushed : PlaceOf[i] = channel /\ ReactsTo[i] = None
                                  => i \in shown \/ Pending(i, ToMessages)
DmsOrPending ==
    "dms" \notin blank =>
      \A i \in store \ hushed : PlaceOf[i] = DM => i \in dms \/ Pending(i, ToDms)

WInv == WTypes /\ GoneForGood /\ BehindIsTold /\ ShownOrPending /\ DmsOrPending

\* The events of the window are told apart by their type.
LEMMA EventForms ==
    ASSUME NEW i \in Items
    PROVE  /\ Item(i) \in BusEvents /\ Item(i).type = "item" /\ Item(i).id = i
           /\ Gone(i) \in UiEvents /\ Gone(i).type = "gone" /\ Gone(i).id = i
  BY DEF BusEvents, UiEvents, Item, Gone

\* So are the two that carry no item.
LEMMA PlainForms ==
    /\ GroupEvent \in BusEvents /\ GroupEvent.type = "group"
    /\ Resync \in UiEvents /\ Resync.type = "resync"
  BY DEF BusEvents, UiEvents, GroupEvent, Resync

\* Appending keeps a queue's events and adds one.
LEMMA QueuedAppend ==
    ASSUME NEW U, NEW q \in Seq(U), NEW e \in U, NEW x
    PROVE  /\ Append(q, e) \in Seq(U)
           /\ Queued(Append(q, e), x) <=> Queued(q, x) \/ x = e
  <1>1. Append(q, e) \in Seq(U)
    OBVIOUS
  <1>2. ASSUME Queued(q, x)
        PROVE  Queued(Append(q, e), x)
    <2>1. PICK k \in 1..Len(q) : q[k] = x
      BY <1>2 DEF Queued
    <2>2. k \in 1..Len(Append(q, e)) /\ Append(q, e)[k] = x
      BY <2>1
    <2> QED BY <2>2 DEF Queued
  <1>3. Queued(Append(q, e), e)
    <2>1. Len(q) + 1 \in 1..Len(Append(q, e)) /\ Append(q, e)[Len(q) + 1] = e
      OBVIOUS
    <2> QED BY <2>1 DEF Queued
  <1>4. ASSUME Queued(Append(q, e), x), x # e
        PROVE  Queued(q, x)
    <2>1. PICK k \in 1..Len(Append(q, e)) : Append(q, e)[k] = x
      BY <1>4 DEF Queued
    <2>2. k \in 1..Len(q) /\ q[k] = x
      BY <1>4, <2>1
    <2> QED BY <2>2 DEF Queued
  <1> QED BY <1>1, <1>2, <1>3, <1>4

\* Reading a queue takes its first event and leaves the others.
LEMMA QueuedTail ==
    ASSUME NEW U, NEW q \in Seq(U), q # <<>>, NEW x
    PROVE  /\ Tail(q) \in Seq(U) /\ Head(q) \in U
           /\ Queued(q, x) <=> Queued(Tail(q), x) \/ x = Head(q)
  <1>1. Tail(q) \in Seq(U) /\ Head(q) \in U /\ Len(q) >= 1 /\ Head(q) = q[1]
    OBVIOUS
  <1>2. ASSUME Queued(q, x), x # Head(q)
        PROVE  Queued(Tail(q), x)
    <2>1. PICK k \in 1..Len(q) : q[k] = x
      BY <1>2 DEF Queued
    <2>2. k - 1 \in 1..Len(Tail(q)) /\ Tail(q)[k - 1] = x
      BY <1>1, <1>2, <2>1
    <2> QED BY <2>2 DEF Queued
  <1>3. ASSUME Queued(Tail(q), x)
        PROVE  Queued(q, x)
    <2>1. PICK k \in 1..Len(Tail(q)) : Tail(q)[k] = x
      BY <1>3 DEF Queued
    <2>2. k + 1 \in 1..Len(q) /\ q[k + 1] = x
      BY <2>1
    <2> QED BY <2>2 DEF Queued
  <1>4. Queued(q, Head(q))
    BY <1>1 DEF Queued
  <1> QED BY <1>1, <1>2, <1>3, <1>4

\* A channel keeps what it held unless it was full, and has what is sent.
LEMMA QueuedSent ==
    ASSUME NEW U, NEW q \in Seq(U), NEW e \in U, NEW x
    PROVE  /\ Sent(q, e) \in Seq(U) /\ Sent(q, e) # <<>>
           /\ Queued(Sent(q, e), e)
           /\ Queued(q, x) => Queued(Sent(q, e), x) \/ Len(q) = BUS
           /\ Queued(Sent(q, e), x) => Queued(q, x) \/ x = e
  <1>1. CASE Len(q) = BUS
    <2>1. q # <<>>
      BY <1>1, WindowConstants
    <2>2. Tail(q) \in Seq(U) /\ (Queued(Tail(q), x) => Queued(q, x))
      BY <2>1, QueuedTail
    <2>3. Sent(q, e) = Append(Tail(q), e)
      BY <1>1 DEF Sent
    <2>4. /\ Append(Tail(q), e) \in Seq(U)
          /\ Queued(Append(Tail(q), e), x) <=> Queued(Tail(q), x) \/ x = e
          /\ Queued(Append(Tail(q), e), e)
      BY <2>2, QueuedAppend
    <2>5. Append(Tail(q), e) # <<>>
      <3>1. Len(Append(Tail(q), e)) = Len(Tail(q)) + 1 /\ Len(Tail(q)) \in Nat
        BY <2>2
      <3> QED BY <3>1
    <2> QED BY <1>1, <2>2, <2>3, <2>4, <2>5
  <1>2. CASE Len(q) # BUS
    <2>1. Sent(q, e) = Append(q, e)
      BY <1>2 DEF Sent
    <2>2. /\ Append(q, e) \in Seq(U)
          /\ Queued(Append(q, e), x) <=> Queued(q, x) \/ x = e
          /\ Queued(Append(q, e), e)
      BY QueuedAppend
    <2>3. Append(q, e) # <<>>
      <3>1. Len(Append(q, e)) = Len(q) + 1 /\ Len(q) \in Nat
        OBVIOUS
      <3> QED BY <3>1
    <2> QED BY <2>1, <2>2, <2>3
  <1> QED BY <1>1, <1>2

\* Sending an event on the channel of events loses nothing the window waits
\* for: what the full channel overwrites makes its reader fall behind.
LEMMA BusSend ==
    ASSUME WInv, NEW e \in BusEvents, bus' = Sent(bus, e), Lag(bus, "bus"),
           rx' = rx, doing' = doing
    PROVE  /\ bus' \in Seq(BusEvents) /\ BehindIsTold' /\ Queued(bus', e)
           /\ \A i \in Items : \A S :
                Pending(i, S) /\ (i \in untold => i \in untold' \/ e = Item(i)) => Pending(i, S)'
  <1>1. bus \in Seq(BusEvents)
    BY DEF WInv, WTypes
  <1>2. bus' \in Seq(BusEvents) /\ bus' # <<>> /\ Queued(bus', e)
    BY <1>1, QueuedSent
  <1>3. BehindIsTold'
    BY <1>2 DEF BehindIsTold
  <1>4. ASSUME NEW i \in Items, NEW S, Pending(i, S),
               i \in untold => i \in untold' \/ e = Item(i)
        PROVE  Pending(i, S)'
    <2>1. Queued(bus, Item(i)) => Queued(bus', Item(i)) \/ Len(bus) = BUS
      BY <1>1, QueuedSent
    <2>2. (Len(bus) = BUS => "bus" \in lagged') /\ ("bus" \in lagged => "bus" \in lagged')
      BY DEF Lag
    <2> QED BY <1>2, <1>4, <2>1, <2>2 DEF Pending
  <1> QED BY <1>2, <1>3, <1>4

\* A step that leaves the screen alone and loses nothing the window waits for
\* keeps every item on the screen or on its way.
LEMMA StillPending ==
    ASSUME WInv, UNCHANGED <<channel, shown, dms, picked, blank>>, hushed \subseteq hushed',
           \A i \in store' : i \in store \/ i \in untold',
           \A i \in Items \ hushed' : Pending(i, ToMessages) => Pending(i, ToMessages)',
           \A i \in Items \ hushed' : Pending(i, ToDms) => Pending(i, ToDms)'
    PROVE  ShownOrPending' /\ DmsOrPending'
  <1>1. ASSUME ~picked', "messages" \notin blank', NEW i \in store' \ hushed',
               PlaceOf[i] = channel', ReactsTo[i] = None
        PROVE  i \in shown' \/ Pending(i, ToMessages)'
    <2>1. CASE i \in store
      BY <1>1, <2>1 DEF WInv, WTypes, ShownOrPending
    <2>2. CASE i \in untold'
      BY <2>2 DEF Pending
    <2> QED BY <1>1, <2>1, <2>2
  <1>2. ASSUME "dms" \notin blank', NEW i \in store' \ hushed', PlaceOf[i] = DM
        PROVE  i \in dms' \/ Pending(i, ToDms)'
    <2>1. CASE i \in store
      BY <1>2, <2>1 DEF WInv, WTypes, DmsOrPending
    <2>2. CASE i \in untold'
      BY <2>2 DEF Pending
    <2> QED BY <1>2, <2>1, <2>2
  <1>3. ShownOrPending'
    BY <1>1 DEF ShownOrPending
  <1>4. DmsOrPending'
    BY <1>2 DEF DmsOrPending
  <1> QED BY <1>3, <1>4

\* What reaches, leaves or changes at the node keeps the invariant.
LEMMA NodeSteps ==
    ASSUME WInv, NEW i \in Items,
           \/ StoreItem(i) \/ TellItem(i) \/ CutTelling(i)
           \/ DropItem(i) \/ TellRemoved(i) \/ Follow
    PROVE  WInv'
  <1>1. UNCHANGED <<channel, shown, dms, picked, blank, doing, rx>>
    BY DEF StoreItem, TellItem, CutTelling, DropItem, TellRemoved, Follow, chatVars
  <1>2. CASE StoreItem(i)
    <2>1. /\ i \in coming /\ coming' = coming \ {i} /\ store' = store \cup {i}
          /\ untold' = untold \cup {i} /\ unsaid' = unsaid /\ bus' = bus /\ drops' = drops
          /\ lagged' = lagged /\ hushed' = hushed
      BY <1>2 DEF StoreItem
    <2>2. WTypes' /\ BehindIsTold'
      BY <1>1, <2>1 DEF WInv, WTypes, BehindIsTold
    <2>3. GoneForGood'
      BY <1>1, <2>1 DEF WInv, GoneForGood
    <2>4. ShownOrPending' /\ DmsOrPending'
      BY <1>1, <2>1, StillPending DEF Pending
    <2> QED BY <2>2, <2>3, <2>4 DEF WInv
  <1>3. CASE TellItem(i)
    <2>1. /\ untold' = untold \ {i} /\ bus' = Sent(bus, Item(i)) /\ Lag(bus, "bus")
          /\ UNCHANGED <<store, coming, unsaid, drops, hushed>>
      BY <1>3 DEF TellItem
    <2>2. /\ bus' \in Seq(BusEvents) /\ BehindIsTold'
          /\ \A j \in Items : \A S : Pending(j, S) => Pending(j, S)'
      BY <1>1, <2>1, EventForms, BusSend
    <2>3. WTypes'
      BY <1>1, <2>1, <2>2 DEF WInv, WTypes
    <2>4. GoneForGood'
      BY <1>1, <2>1 DEF WInv, GoneForGood
    <2>5. ShownOrPending' /\ DmsOrPending'
      BY <1>1, <2>1, <2>2, StillPending
    <2> QED BY <2>2, <2>3, <2>4, <2>5 DEF WInv
  <1>4. CASE DropItem(i)
    <2>1. /\ i \in store /\ store' = store \ {i} /\ unsaid' = unsaid \cup {i}
          /\ coming' = coming /\ untold' = untold /\ bus' = bus /\ drops' = drops
          /\ lagged' = lagged /\ hushed' = hushed
      BY <1>4 DEF DropItem
    <2>2. WTypes' /\ BehindIsTold'
      BY <1>1, <2>1 DEF WInv, WTypes, BehindIsTold
    <2>3. GoneForGood'
      BY <1>1, <2>1 DEF WInv, GoneForGood
    <2>4. ShownOrPending' /\ DmsOrPending'
      BY <1>1, <2>1, StillPending DEF Pending
    <2> QED BY <2>2, <2>3, <2>4 DEF WInv
  <1>5. CASE TellRemoved(i)
    <2>1. /\ i \in unsaid /\ unsaid' = unsaid \ {i} /\ drops' = Sent(drops, Gone(i))
          /\ Lag(drops, "drops")
          /\ UNCHANGED <<coming, untold, bus, store, hushed>>
      BY <1>5 DEF TellRemoved
    <2>2. "bus" \in lagged' <=> "bus" \in lagged
      BY <2>1 DEF Lag
    <2>3. drops' \in Seq(UiEvents)
          /\ \A j \in Items : Queued(drops', Gone(j)) => Queued(drops, Gone(j)) \/ Gone(j) = Gone(i)
      BY <2>1, EventForms, QueuedSent DEF WInv, WTypes
    <2>4. \A j \in Items : Gone(j) = Gone(i) => j = i
      BY EventForms
    <2>5. WTypes' /\ BehindIsTold'
      BY <1>1, <2>1, <2>2, <2>3 DEF WInv, WTypes, BehindIsTold
    <2>6. GoneForGood'
      BY <1>1, <2>1, <2>3, <2>4 DEF WInv, GoneForGood
    <2>7. ShownOrPending' /\ DmsOrPending'
      BY <1>1, <2>1, <2>2, StillPending DEF Pending
    <2> QED BY <2>5, <2>6, <2>7 DEF WInv
  <1>6. CASE Follow
    <2>1. UNCHANGED <<store, coming, untold, unsaid, bus, drops, lagged, hushed>>
      BY <1>6 DEF Follow
    <2>2. WTypes' /\ BehindIsTold' /\ GoneForGood'
      BY <1>1, <2>1 DEF WInv, WTypes, BehindIsTold, GoneForGood
    <2>3. ShownOrPending' /\ DmsOrPending'
      BY <1>1, <2>1, StillPending DEF Pending
    <2> QED BY <2>2, <2>3 DEF WInv
  <1>7. CASE CutTelling(i)
    <2>1. /\ untold' \subseteq untold /\ untold \subseteq untold' \cup hushed'
          /\ unsaid' \subseteq unsaid /\ hushed \subseteq hushed'
          /\ UNCHANGED <<store, coming, bus, drops, lagged>>
      BY <1>7 DEF CutTelling
    <2>2. WTypes' /\ BehindIsTold'
      BY <1>1, <2>1 DEF WInv, WTypes, BehindIsTold
    <2>3. GoneForGood'
      BY <1>1, <2>1 DEF WInv, GoneForGood
    <2>4. ShownOrPending' /\ DmsOrPending'
      BY <1>1, <2>1, StillPending DEF Pending
    <2> QED BY <2>2, <2>3, <2>4 DEF WInv
  <1> QED BY <1>2, <1>3, <1>4, <1>5, <1>6, <1>7

\* A change of the group keeps the invariant.
LEMMA GroupChangesStep ==
    ASSUME WInv, NEW s, GroupChanges(s)
    PROVE  WInv'
  <1>1. UNCHANGED <<channel, shown, dms, picked, blank, doing, rx,
                    store, coming, unsaid, untold, drops, hushed>>
    BY DEF GroupChanges
  <1>2. GroupEvent \in BusEvents
    BY DEF BusEvents
  <1>3. /\ bus' \in Seq(BusEvents) /\ BehindIsTold'
        /\ \A j \in Items : \A S : Pending(j, S) => Pending(j, S)'
    <2>1. CASE bus' = Sent(bus, GroupEvent) /\ Lag(bus, "bus")
      BY <1>1, <1>2, <2>1, BusSend
    <2>2. CASE UNCHANGED <<bus, lagged>>
      BY <1>1, <2>2 DEF WInv, WTypes, BehindIsTold, Pending
    <2> QED BY <2>1, <2>2 DEF GroupChanges
  <1>4. WTypes' /\ GoneForGood'
    BY <1>1, <1>3 DEF WInv, WTypes, GoneForGood
  <1>5. ShownOrPending' /\ DmsOrPending'
    BY <1>1, <1>3, StillPending
  <1> QED BY <1>3, <1>4, <1>5 DEF WInv

\* The pumps keep the invariant: what they read goes on to the window, or the
\* word that something was missed does.
LEMMA PumpSteps ==
    ASSUME WInv, PumpEvents \/ PumpDrops
    PROVE  WInv'
  <1>1. UNCHANGED <<channel, shown, dms, picked, blank, doing, store, coming,
                    unsaid, untold, hushed>>
    BY DEF PumpEvents, PumpDrops, chatVars
  <1>2. bus \in Seq(BusEvents) /\ drops \in Seq(UiEvents) /\ rx \in Seq(UiEvents)
        /\ Resync \in UiEvents
    BY DEF WInv, WTypes, UiEvents
  <1>a. \A j \in Items : Gone(j) # Resync
    BY EventForms, PlainForms
  <1>3. CASE PumpEvents
    <2>1. bus # <<>> /\ drops' = drops
      BY <1>3 DEF PumpEvents
    <2>2. CASE "bus" \in lagged
      <3>1. rx' = Append(rx, Resync) /\ bus' = bus /\ lagged' = lagged \ {"bus"}
        BY <1>3, <2>2 DEF PumpEvents, Emit
      <3>2. rx' \in Seq(UiEvents) /\ Queued(rx', Resync)
            /\ \A x : Queued(rx', x) <=> Queued(rx, x) \/ x = Resync
        BY <1>2, <3>1, QueuedAppend
      <3>3. WTypes' /\ BehindIsTold'
        BY <1>1, <2>1, <3>1, <3>2 DEF WInv, WTypes, BehindIsTold
      <3>4. GoneForGood'
        BY <1>1, <1>a, <2>1, <3>2 DEF WInv, GoneForGood
      <3>5. ShownOrPending' /\ DmsOrPending'
        BY <1>1, <3>2, StillPending DEF Pending
      <3> QED BY <3>3, <3>4, <3>5 DEF WInv
    <2>3. CASE "bus" \notin lagged
      <3>1. rx' = Append(rx, Head(bus)) /\ bus' = Tail(bus) /\ "bus" \notin lagged'
        BY <1>3, <2>3 DEF PumpEvents, Emit
      <3>2. /\ Tail(bus) \in Seq(BusEvents) /\ Head(bus) \in BusEvents
            /\ \A x : Queued(bus, x) <=> Queued(Tail(bus), x) \/ x = Head(bus)
        BY <1>2, <2>1, QueuedTail
      <3>3. rx' \in Seq(UiEvents) /\ \A x : Queued(rx', x) <=> Queued(rx, x) \/ x = Head(bus)
        <4>1. Head(bus) \in UiEvents
          BY <3>2 DEF UiEvents
        <4> QED BY <1>2, <3>1, <4>1, QueuedAppend
      <3>4. WTypes' /\ BehindIsTold'
        BY <1>1, <2>1, <3>1, <3>2, <3>3 DEF WInv, WTypes, BehindIsTold
      <3>5. \A j \in Items : Head(bus) # Gone(j)
        BY <3>2, EventForms, PlainForms DEF BusEvents
      <3>6. GoneForGood'
        BY <1>1, <2>1, <3>3, <3>5 DEF WInv, GoneForGood
      <3>7. ASSUME NEW j \in Items, NEW S, Pending(j, S)
            PROVE  Pending(j, S)'
        BY <1>1, <2>3, <3>1, <3>2, <3>3, <3>7 DEF Pending
      <3>8. ShownOrPending' /\ DmsOrPending'
        BY <1>1, <3>7, StillPending
      <3> QED BY <3>4, <3>6, <3>8 DEF WInv
    <2> QED BY <2>2, <2>3
  <1>4. CASE PumpDrops
    <2>1. drops # <<>> /\ bus' = bus /\ ("bus" \in lagged' <=> "bus" \in lagged)
      BY <1>4 DEF PumpDrops
    <2>2. PICK e \in UiEvents : /\ rx' = Append(rx, e)
                                /\ drops' \in Seq(UiEvents)
                                /\ \A j \in Items : Queued(drops', Gone(j)) => Queued(drops, Gone(j))
                                /\ \A j \in Items : e = Gone(j) => Queued(drops, Gone(j))
      <3>1. CASE "drops" \in lagged
        <4>1. rx' = Append(rx, Resync) /\ drops' = drops
          BY <1>4, <3>1 DEF PumpDrops, Emit
        <4> QED BY <1>2, <1>a, <4>1
      <3>2. CASE "drops" \notin lagged
        <4>1. rx' = Append(rx, Head(drops)) /\ drops' = Tail(drops)
          BY <1>4, <3>2 DEF PumpDrops, Emit
        <4>2. /\ Tail(drops) \in Seq(UiEvents) /\ Head(drops) \in UiEvents
              /\ \A x : Queued(drops, x) <=> Queued(Tail(drops), x) \/ x = Head(drops)
          BY <1>2, <2>1, QueuedTail
        <4> QED BY <4>1, <4>2
      <3> QED BY <3>1, <3>2
    <2>3. rx' \in Seq(UiEvents) /\ \A x : Queued(rx', x) <=> Queued(rx, x) \/ x = e
      BY <1>2, <2>2, QueuedAppend
    <2>4. WTypes' /\ BehindIsTold'
      BY <1>1, <2>1, <2>2, <2>3 DEF WInv, WTypes, BehindIsTold
    <2>5. GoneForGood'
      BY <1>1, <2>2, <2>3 DEF WInv, GoneForGood
    <2>6. ASSUME NEW j \in Items, NEW S, Pending(j, S)
          PROVE  Pending(j, S)'
      BY <1>1, <2>1, <2>3, <2>6 DEF Pending
    <2>7. ShownOrPending' /\ DmsOrPending'
      BY <1>1, <2>6, StillPending
    <2> QED BY <2>4, <2>5, <2>7 DEF WInv
  <1> QED BY <1>3, <1>4

\* The window's own part of the invariant when it changes nothing but what it
\* shows.
LEMMA WindowOnly ==
    ASSUME WInv, UNCHANGED nodeVars, rx' = rx, doing' \in {"start", "groups", "messages", "dms", "idle"}
    PROVE  WTypes' /\ GoneForGood' /\ BehindIsTold'
  BY DEF nodeVars, WInv, WTypes, GoneForGood, BehindIsTold

\* Loading a channel shows every message of it that is stored.
LEMMA Loaded ==
    ASSUME NEW c, NEW i \in store, PlaceOf[i] = c, ReactsTo[i] = None
    PROVE  i \in LoadMessages(c)
  BY DEF LoadMessages

\* So a load leaves nothing of its channel out, or the pane is known blank.
LEMMA LoadedIsShown ==
    ASSUME NEW c, Load(c), channel' = c, store' = store
    PROVE  ShownOrPending'
  <1>1. CASE shown' = LoadMessages(c)
    BY <1>1, Loaded DEF ShownOrPending
  <1>2. CASE "messages" \in blank'
    BY <1>2 DEF ShownOrPending
  <1> QED BY <1>1, <1>2 DEF Load

\* Subscribing before the first look keeps the invariant.
LEMMA StartChatStep ==
    ASSUME WInv, StartChat
    PROVE  WInv'
  <1>1. /\ doing = "start" /\ doing' = "groups"
        /\ bus' = <<>> /\ drops' = <<>> /\ lagged' = {}
        /\ UNCHANGED <<store, coming, untold, unsaid, rx, channel, shown, dms, picked,
                        blank, hushed>>
    BY DEF StartChat
  <1>2. \A x : ~Queued(drops', x)
    BY <1>1 DEF Queued
  <1>3. WTypes' /\ BehindIsTold'
    BY <1>1 DEF WInv, WTypes, BehindIsTold
  <1>4. GoneForGood'
    BY <1>1, <1>2 DEF WInv, GoneForGood
  <1>5. ShownOrPending' /\ DmsOrPending'
    BY <1>1, StillPending DEF Pending, ToMessages, ToDms
  <1> QED BY <1>3, <1>4, <1>5 DEF WInv

\* The three questions of a refresh keep the invariant.
LEMMA RefreshSteps ==
    ASSUME WInv, RefreshStep
    PROVE  WInv'
  <1>1. UNCHANGED nodeVars /\ rx' = rx
    BY DEF RefreshStep
  <1>2. UNCHANGED <<store, untold, bus, lagged, hushed>>
    BY <1>1 DEF nodeVars
  <1>3. CASE doing = "groups" /\ doing' = "messages" /\ UNCHANGED <<shown, dms, picked, blank>>
    <2>1. WTypes' /\ GoneForGood' /\ BehindIsTold'
      BY <1>1, <1>3, WindowOnly
    <2>2. \A i \in store : Pending(i, ToMessages)' /\ Pending(i, ToDms)'
      BY <1>3 DEF Pending, ToMessages, ToDms
    <2> QED BY <1>2, <2>1, <2>2 DEF WInv, ShownOrPending, DmsOrPending
  <1>4. CASE /\ doing = "messages" /\ doing' = "dms" /\ Load(channel)
             /\ UNCHANGED <<channel, dms>>
    <2>1. WTypes' /\ GoneForGood' /\ BehindIsTold'
      BY <1>1, <1>4, WindowOnly
    <2>2. \A i \in store : Pending(i, ToDms)'
      BY <1>4 DEF Pending, ToDms
    <2>3. ShownOrPending'
      BY <1>2, <1>4, LoadedIsShown
    <2>4. DmsOrPending'
      BY <1>2, <2>2 DEF DmsOrPending
    <2> QED BY <2>1, <2>3, <2>4 DEF WInv
  <1>5. CASE /\ doing = "dms" /\ doing' = "idle"
             /\ \/ dms' = LoadMessages(DM) /\ blank' = blank \ {"dms"}
                \/ dms' = {} /\ blank' = blank \cup {"dms"}
             /\ UNCHANGED <<channel, shown, picked>>
    <2>1. WTypes' /\ GoneForGood' /\ BehindIsTold'
      BY <1>1, <1>5, WindowOnly
    <2>2. \A i \in store : Pending(i, ToMessages) => Pending(i, ToMessages)'
      BY <1>1, <1>2, <1>5 DEF Pending, ToMessages
    <2>3. "messages" \in blank' <=> "messages" \in blank
      BY <1>5
    <2>4. ShownOrPending'
      BY <1>2, <1>5, <2>2, <2>3 DEF WInv, ShownOrPending
    <2>5. DmsOrPending'
      <3>1. \A i \in store : PlaceOf[i] = DM => i \in LoadMessages(DM)
        BY Loaded, WindowConstants DEF WInv, WTypes
      <3>2. "dms" \in blank' \/ dms' = LoadMessages(DM)
        BY <1>5
      <3> QED BY <1>2, <3>1, <3>2 DEF DmsOrPending
    <2> QED BY <2>1, <2>4, <2>5 DEF WInv
  <1> QED BY <1>3, <1>4, <1>5 DEF RefreshStep

\* A channel opened is a channel loaded.
LEMMA OpenedIsShown ==
    ASSUME NEW c, Open(c), store' = store
    PROVE  /\ ShownOrPending'
           /\ "dms" \in blank' <=> "dms" \in blank
  <1>1. channel' = c /\ Load(c)
    BY DEF Open
  <1>2. Load(c) /\ channel' = c => ShownOrPending'
    BY LoadedIsShown
  <1>3. "dms" \in blank' <=> "dms" \in blank
    BY <1>1 DEF Load
  <1> QED BY <1>1, <1>2, <1>3

\* While the window waits for the same, direct messages stay on the screen
\* or on their way.
LEMMA DmsStay ==
    ASSUME WInv, UNCHANGED nodeVars, rx' = rx, doing' = doing, dms' = dms,
           "dms" \in blank' <=> "dms" \in blank
    PROVE  /\ DmsOrPending'
           /\ \A i \in store : Pending(i, ToMessages) => Pending(i, ToMessages)'
  BY DEF nodeVars, WInv, DmsOrPending, Pending

\* Selecting a channel keeps the invariant.
LEMMA SelectStep ==
    ASSUME WInv, NEW c, Select(c)
    PROVE  WInv'
  <1>1. UNCHANGED nodeVars /\ rx' = rx /\ doing' = doing /\ dms' = dms /\ Open(c)
    BY DEF Select
  <1>2. store' = store /\ doing' \in {"start", "groups", "messages", "dms", "idle"}
    BY <1>1 DEF nodeVars, WInv, WTypes
  <1>3. ShownOrPending' /\ ("dms" \in blank' <=> "dms" \in blank)
    BY <1>1, <1>2, OpenedIsShown
  <1> QED BY <1>1, <1>2, <1>3, WindowOnly, DmsStay DEF WInv

\* The groups read again: what is open stays loaded, is loaded, or was picked
\* by refresh_groups itself.
LEMMA RegroupedShows ==
    ASSUME WInv, NEW closed, Regrouped(closed), store' = store, hushed' = hushed
    PROVE  /\ "dms" \in blank' <=> "dms" \in blank
           /\ (\A i \in store : Pending(i, ToMessages) => Pending(i, ToMessages)')
                 => ShownOrPending'
  <1>1. PICK g \in GroupsRead :
          IF Kept(g) \in closed \ (g \cap ToSet(Order))
          THEN Open(IF Kept(g) \in ToSet(Order) THEN FirstText(g) ELSE Kept(g))
          ELSE /\ channel' = Kept(g)
               /\ picked' = (picked \/ Kept(g) # channel)
               /\ UNCHANGED <<shown, blank>>
    BY DEF Regrouped
  <1>2. CASE Kept(g) \in closed \ (g \cap ToSet(Order))
    <2>1. PICK c : Open(c)
      BY <1>1, <1>2
    <2> QED BY <2>1, OpenedIsShown
  <1>3. CASE Kept(g) \notin closed \ (g \cap ToSet(Order))
    <2>1. /\ channel' = Kept(g) /\ picked' = (picked \/ Kept(g) # channel)
          /\ shown' = shown /\ blank' = blank
      BY <1>1, <1>3
    <2> QED BY <2>1 DEF WInv, ShownOrPending
  <1> QED BY <1>2, <1>3

\* Moderating keeps the invariant.
LEMMA ModerateStep ==
    ASSUME WInv, Moderate
    PROVE  WInv'
  <1> DEFINE all == ToSet(Order) \cup {Trial, None}
  <1>1. UNCHANGED nodeVars /\ rx' = rx /\ doing' = doing /\ dms' = dms /\ Regrouped(all)
    BY DEF Moderate, Regrouped
  <1> HIDE DEF all
  <1>2. /\ store' = store /\ hushed' = hushed
        /\ doing' \in {"start", "groups", "messages", "dms", "idle"}
    BY <1>1 DEF nodeVars, WInv, WTypes
  <1>3. "dms" \in blank' <=> "dms" \in blank
    BY <1>1, <1>2, RegroupedShows
  <1>4. DmsOrPending' /\ \A i \in store : Pending(i, ToMessages) => Pending(i, ToMessages)'
    BY <1>1, <1>3, DmsStay
  <1>5. ShownOrPending'
    BY <1>1, <1>2, <1>4, RegroupedShows
  <1> QED BY <1>1, <1>2, <1>4, <1>5, WindowOnly DEF WInv

\* What arrives while its place is open is shown, and nothing else leaves.
LEMMA ArrivedShows ==
    ASSUME NEW i \in Items, Arrived(i)
    PROVE  /\ shown \subseteq shown' /\ dms \subseteq dms'
           /\ PlaceOf[i] = DM => i \in dms'
           /\ PlaceOf[i] = channel /\ ReactsTo[i] = None => i \in shown'
  BY DEF Arrived

\* Saying something keeps the invariant: it is stored, told and shown at once.
LEMMA SayStep ==
    ASSUME WInv, NEW i \in Items, Say(i)
    PROVE  WInv'
  <1>1. /\ i \in coming /\ coming' = coming \ {i} /\ store' = store \cup {i}
        /\ bus' = Sent(bus, Item(i)) /\ Lag(bus, "bus") /\ Arrived(i)
        /\ UNCHANGED <<untold, unsaid, drops, rx, channel, doing, picked, blank, hushed>>
    BY DEF Say
  <1>2. /\ bus' \in Seq(BusEvents) /\ BehindIsTold' /\ Queued(bus', Item(i))
        /\ \A j \in Items : \A S : Pending(j, S) => Pending(j, S)'
    BY <1>1, EventForms, BusSend
  <1>3. WTypes'
    BY <1>1, <1>2 DEF WInv, WTypes
  <1>4. GoneForGood'
    BY <1>1 DEF WInv, GoneForGood
  <1>5. \A S : Pending(i, S)'
    BY <1>2 DEF Pending
  <1>6. ShownOrPending'
    BY <1>1, <1>2, <1>5, ArrivedShows DEF WInv, WTypes, ShownOrPending
  <1>7. DmsOrPending'
    BY <1>1, <1>2, <1>5, ArrivedShows DEF WInv, WTypes, DmsOrPending
  <1> QED BY <1>2, <1>3, <1>4, <1>6, <1>7 DEF WInv

\* Taking something back keeps the invariant.
LEMMA TakeBackStep ==
    ASSUME WInv, NEW i \in Items, TakeBack(i)
    PROVE  WInv'
  <1>1. /\ i \in store /\ store' = store \ {i}
        /\ drops' = Sent(drops, Gone(i)) /\ Lag(drops, "drops")
        /\ shown' = ShownWithout(shown, i)
        /\ UNCHANGED <<coming, untold, unsaid, bus, rx, channel, dms, doing, picked,
                       blank, hushed>>
    BY DEF TakeBack
  <1>2. "bus" \in lagged' <=> "bus" \in lagged
    BY <1>1 DEF Lag
  <1>3. drops' \in Seq(UiEvents)
        /\ \A j \in Items : Queued(drops', Gone(j)) => Queued(drops, Gone(j)) \/ Gone(j) = Gone(i)
    BY <1>1, EventForms, QueuedSent DEF WInv, WTypes
  <1>4. \A j \in Items : Gone(j) = Gone(i) => j = i
    BY EventForms
  <1>5. WTypes' /\ BehindIsTold'
    BY <1>1, <1>2, <1>3 DEF WInv, WTypes, BehindIsTold
  <1>6. GoneForGood'
    BY <1>1, <1>3, <1>4 DEF WInv, GoneForGood
  <1>7. \A j \in Items : \A S : Pending(j, S) => Pending(j, S)'
    BY <1>1, <1>2 DEF Pending
  <1>8. ShownOrPending'
    <2>1. \A j \in store' : j \in shown /\ ReactsTo[j] = None => j \in shown'
      BY <1>1, WindowConstants DEF ShownWithout
    <2> QED BY <1>1, <1>7, <2>1 DEF WInv, WTypes, ShownOrPending
  <1>9. DmsOrPending'
    BY <1>1, <1>7 DEF WInv, WTypes, DmsOrPending
  <1> QED BY <1>5, <1>6, <1>8, <1>9 DEF WInv

\* Handling one UiEvent keeps the invariant: the item it tells of is shown if
\* its place is open, and what it removes is not stored.
LEMMA OnEventStep ==
    ASSUME WInv, OnEvent
    PROVE  WInv'
  <1> DEFINE e == Head(rx)
  <1>1. doing = "idle" /\ rx # <<>> /\ rx' = Tail(rx) /\ UNCHANGED nodeVars
    BY DEF OnEvent
  <1>2. UNCHANGED <<store, coming, untold, unsaid, bus, drops, lagged, hushed>>
    BY <1>1 DEF nodeVars
  <1>3. /\ rx' \in Seq(UiEvents) /\ e \in UiEvents
        /\ \A x : Queued(rx, x) <=> Queued(rx', x) \/ x = e
    BY <1>1, QueuedTail DEF WInv, WTypes
  <1> HIDE DEF e
  <1>4. GoneForGood' /\ BehindIsTold'
    BY <1>2, <1>3 DEF WInv, GoneForGood, BehindIsTold
  <1>5. ASSUME NEW i \in Items, NEW S, Pending(i, S), "idle" \notin S
        PROVE  Pending(i, S)' \/ e = Item(i) \/ e = Resync
    BY <1>1, <1>2, <1>3, <1>5 DEF Pending
  <1>6. "idle" \notin ToMessages /\ "idle" \notin ToDms
    BY DEF ToMessages, ToDms
  <1>7. CASE /\ e.type = "item" /\ Arrived(e.id)
             /\ UNCHANGED <<cached, channel, doing, picked, blank>>
    <2>1. PICK i \in Items : e = Item(i)
      BY <1>3, <1>7, EventForms, PlainForms DEF UiEvents, BusEvents
    <2>2. Arrived(i) /\ e # Resync /\ \A j \in Items : e = Item(j) => j = i
      BY <1>7, <2>1, EventForms, PlainForms
    <2>3. WTypes'
      BY <1>2, <1>3, <1>7 DEF WInv, WTypes
    <2>4. ShownOrPending'
      <3> SUFFICES ASSUME ~picked', "messages" \notin blank', NEW j \in store' \ hushed',
                          PlaceOf[j] = channel', ReactsTo[j] = None
                   PROVE  j \in shown' \/ Pending(j, ToMessages)'
        BY DEF ShownOrPending
      <3>1. j \in Items /\ (j \in shown \/ Pending(j, ToMessages))
        BY <1>2, <1>7 DEF WInv, WTypes, ShownOrPending
      <3>2. shown \subseteq shown' /\ (j = i => j \in shown')
        BY <1>7, <2>2, ArrivedShows
      <3> QED BY <1>5, <1>6, <2>2, <3>1, <3>2
    <2>5. DmsOrPending'
      <3> SUFFICES ASSUME "dms" \notin blank', NEW j \in store' \ hushed', PlaceOf[j] = DM
                   PROVE  j \in dms' \/ Pending(j, ToDms)'
        BY DEF DmsOrPending
      <3>1. j \in Items /\ (j \in dms \/ Pending(j, ToDms))
        BY <1>2, <1>7 DEF WInv, WTypes, DmsOrPending
      <3>2. dms \subseteq dms' /\ (j = i => j \in dms')
        BY <2>2, ArrivedShows
      <3> QED BY <1>5, <1>6, <2>2, <3>1, <3>2
    <2> QED BY <1>4, <2>3, <2>4, <2>5 DEF WInv
  <1>8. CASE /\ e.type = "gone" /\ shown' = ShownWithout(shown, e.id)
             /\ UNCHANGED <<cached, channel, dms, doing, picked, blank>>
    <2>1. PICK i \in Items : e = Gone(i)
      BY <1>3, <1>8, EventForms, PlainForms DEF UiEvents, BusEvents
    <2>2. e.id = i /\ e # Resync /\ \A j \in Items : e # Item(j)
      BY <2>1, EventForms, PlainForms
    <2>3. i \notin store
      BY <1>3, <2>1 DEF WInv, GoneForGood
    <2>4. WTypes'
      BY <1>2, <1>3, <1>8 DEF WInv, WTypes
    <2>5. \A j \in store : j \in shown /\ ReactsTo[j] = None => j \in shown'
      BY <1>8, <2>2, <2>3, WindowConstants DEF ShownWithout
    <2>6. ShownOrPending'
      BY <1>2, <1>5, <1>6, <1>8, <2>2, <2>5 DEF WInv, WTypes, ShownOrPending
    <2>7. DmsOrPending'
      BY <1>2, <1>5, <1>6, <1>8, <2>2 DEF WInv, WTypes, DmsOrPending
    <2> QED BY <1>4, <2>4, <2>6, <2>7 DEF WInv
  <1>9. CASE e.type = "group" /\ Regrouped(ToSet(Order))
    <2>1. doing' = doing /\ dms' = dms
      BY <1>9 DEF Regrouped
    <2>2. e # Resync /\ \A j \in Items : e # Item(j)
      BY <1>9, EventForms, PlainForms
    <2>3. WTypes'
      BY <1>2, <1>3, <2>1 DEF WInv, WTypes
    <2>4. \A i \in store : Pending(i, ToMessages) => Pending(i, ToMessages)'
      BY <1>5, <1>6, <2>2 DEF WInv, WTypes
    <2>5. ShownOrPending' /\ ("dms" \in blank' <=> "dms" \in blank)
      BY <1>2, <1>9, <2>4, RegroupedShows
    <2>6. DmsOrPending'
      BY <1>2, <1>5, <1>6, <2>1, <2>2, <2>5 DEF WInv, WTypes, DmsOrPending
    <2> QED BY <1>4, <2>3, <2>5, <2>6 DEF WInv
  <1>10. CASE e.type = "resync" /\ doing' = "groups"
    <2>1. WTypes'
      BY <1>2, <1>3, <1>10 DEF WInv, WTypes
    <2>2. \A i : Pending(i, ToMessages)' /\ Pending(i, ToDms)'
      BY <1>10 DEF Pending, ToMessages, ToDms
    <2> QED BY <1>4, <2>1, <2>2 DEF WInv, ShownOrPending, DmsOrPending
  <1> QED BY <1>7, <1>8, <1>9, <1>10 DEF OnEvent, e

\* NothingIsMissed for every set of items, every size of the channels and any
\* number of clicks: an item stored is on the screen, on its way to it, or
\* will be read again, so once everything told was handled it is on the screen,
\* unless one of the three histories the property names excuses it.
THEOREM WindowMissesNothing == WSpec => []NothingIsMissed
  <1>1. WInit => WInv
    <2> SUFFICES ASSUME WInit PROVE WInv
      OBVIOUS
    <2>1. \A x : ~Queued(<<>>, x)
      BY DEF Queued
    <2>2. WTypes
      BY DEF WInit, WTypes
    <2>3. GoneForGood /\ BehindIsTold
      BY <2>1 DEF WInit, GoneForGood, BehindIsTold
    <2> QED BY <2>2, <2>3 DEF WInit, WInv, ShownOrPending, DmsOrPending
  <1>2. WInv /\ [WNext]_wvars => WInv'
    <2> SUFFICES ASSUME WInv, [WNext]_wvars
                 PROVE  WInv'
      OBVIOUS
    <2>1. CASE UNCHANGED wvars
      <3>1. UNCHANGED nodeVars /\ UNCHANGED chatVars /\ rx' = rx
        BY <2>1 DEF wvars
      <3>2. UNCHANGED <<channel, shown, dms, picked, doing, blank>>
        BY <3>1 DEF chatVars
      <3>3. UNCHANGED <<store, untold, bus, lagged, hushed>>
        BY <3>1 DEF nodeVars
      <3>4. WTypes' /\ GoneForGood' /\ BehindIsTold'
        <4>1. doing' \in {"start", "groups", "messages", "dms", "idle"}
          BY <3>2 DEF WInv, WTypes
        <4> QED BY <3>1, <4>1, WindowOnly
      <3>5. ShownOrPending' /\ DmsOrPending'
        BY <3>1, <3>2, <3>3, StillPending DEF Pending
      <3> QED BY <3>4, <3>5 DEF WInv
    <2>2. CASE Follow
      <3>1. \A i \in Items : WInv'
        BY <2>2, NodeSteps
      <3>2. CASE Items = {}
        <4>1. /\ UNCHANGED <<store, coming, untold, unsaid, bus, drops, lagged, rx>>
              /\ UNCHANGED <<channel, shown, dms, picked, doing, blank>>
          BY <2>2 DEF Follow, chatVars
        <4> QED BY <3>2, <4>1
              DEF WInv, WTypes, GoneForGood, BehindIsTold, ShownOrPending, DmsOrPending
      <3> QED BY <3>1, <3>2
    <2> QED BY <2>1, <2>2, NodeSteps, GroupChangesStep, PumpSteps, StartChatStep, RefreshSteps,
            OnEventStep, ModerateStep, SelectStep, SayStep, TakeBackStep DEF WNext
  <1>3. WInv => NothingIsMissed
    <2> SUFFICES ASSUME WInv, Quiet
                 PROVE  /\ ~picked /\ "messages" \notin blank =>
                             {i \in LoadMessages(channel) \ hushed : ReactsTo[i] = None} \subseteq shown
                        /\ "dms" \notin blank => LoadMessages(DM) \ hushed \subseteq dms
      BY DEF NothingIsMissed
    <2>1. \A x : ~Queued(bus, x) /\ ~Queued(rx, x)
      BY DEF Quiet, Queued
    <2>2. \A i \in Items : ~Pending(i, ToMessages) /\ ~Pending(i, ToDms)
      BY <2>1 DEF Quiet, Pending, ToMessages, ToDms, WInv, BehindIsTold
    <2>3. store \subseteq Items
      BY DEF WInv, WTypes
    <2>4. ~picked /\ "messages" \notin blank =>
            {i \in LoadMessages(channel) \ hushed : ReactsTo[i] = None} \subseteq shown
      BY <2>2, <2>3 DEF WInv, ShownOrPending, LoadMessages
    <2>5. "dms" \notin blank => LoadMessages(DM) \ hushed \subseteq dms
      BY <2>2, <2>3 DEF WInv, DmsOrPending, LoadMessages
    <2> QED BY <2>4, <2>5
  <1> QED BY <1>1, <1>2, <1>3, PTL DEF WSpec

=============================================================================
