-------------------------------- MODULE Zaps --------------------------------
(***************************************************************************)
(* Zaps of one person's message from the desktop's zap dialog: the quote,  *)
(* payment from the wallet or by QR code, HIT_ENTER's fee, the receipt and *)
(* its carrier (crates/hit-zap, hit-event/src/zap.rs, hit-app-core's zap   *)
(* functions, hit-node's carry_zap and zaps_of).                           *)
(*                                                                         *)
(*   step     per zap, where the dialog's task is                          *)
(*   feeTask  per zap, where spawn_fee is                                  *)
(*   asked    invoices handed to the wallet or shown, not yet settled      *)
(*   settled  invoices paid                                                *)
(*   pending  App.pending_zap: None or [zap, fee]                          *)
(*   quoted   per zap, the provider's key its invoice was asked with       *)
(*   receipts the zaps the provider has signed a receipt of, with its key  *)
(*   carriers the carriers in the group: who carried which receipt         *)
(*   key      the provider key in the recipient's profile                  *)
(*   givenUp  the zaps whose first fee invoice the wallet was asked to pay *)
(*            and did not answer for (for FeeGoesOneWay)                   *)
(*                                                                         *)
(* An invoice is <<"zap", z>>, <<"fee", z, attempt>> or <<"code", z, d>>   *)
(* (the QR code the dialog of zap d showed for the fee of zap z).  The     *)
(* wallet, the provider and the anchor's relay are external: a request may *)
(* settle at any later time, answered or not.                              *)
(***************************************************************************)
EXTENDS NodeBase

CONSTANTS ZapIds,
          AmountOf,    \* per zap, in sats
          FEE_PERCENT, FEE_MIN_SATS,
          Providers,   \* keys the recipient's servers sign with
          MaxKeys      \* bound: changes of the recipient's address

ASSUME ZapConstants == /\ {MaxKeys, FEE_PERCENT, FEE_MIN_SATS} \subseteq Nat
                       /\ \A z \in ZapIds : AmountOf[z] \in Nat
                       /\ None \notin ZapIds

VARIABLES step, feeTask, asked, settled, pending, quoted, receipts, carriers, key, keys, givenUp

zvars == <<step, feeTask, asked, settled, pending, quoted, receipts, carriers, key, keys, givenUp>>

\* fee_for: one per cent, rounded down, and nothing of a small zap.
FeeFor(sats) == IF sats < FEE_MIN_SATS THEN 0 ELSE (sats * FEE_PERCENT) \div 100

FeeOf == [z \in ZapIds |-> FeeFor(AmountOf[z])]

ZInit ==
    /\ step = [z \in ZapIds |-> "idle"]
    /\ feeTask = [z \in ZapIds |-> "none"]
    /\ asked = {} /\ settled = {} /\ pending = None
    /\ quoted = [z \in ZapIds |-> None]
    /\ receipts = {} /\ carriers = {}
    /\ key = (CHOOSE k \in Providers : TRUE) /\ keys = 0
    /\ givenUp = {}

Goto(z, s) == step' = [step EXCEPT ![z] = s]

-----------------------------------------------------------------------------
(* What counts. *)

\* Mutant: one zap per carrier.
CountedCarriers == {c \in carriers : c.key = key}

\* zaps_of: the receipts carried, signed by the key the profile names now; one per receipt.
ZapsOf == {[zap |-> c.zap, key |-> c.key] : c \in {d \in carriers : d.key = key}}

\* carry_zap, up to the carrier's publication: whether there is something to publish.
Carryable(r) == r.key = key /\ r \notin ZapsOf

-----------------------------------------------------------------------------
(* The dialog. *)

\* prepare_zap: the address's server signs with the key the profile says.
Quote(z) ==
    /\ step[z] = "idle"
    /\ quoted' = [quoted EXCEPT ![z] = key]
    /\ Goto(z, "quoted")
    /\ UNCHANGED <<feeTask, asked, settled, pending, receipts, carriers, key, keys, givenUp>>

\* App::zap, to wallet.pay: prepare_zap asks again, with the address and the key of the profile
\* as it is now (and refuses if the server signs with another).
PayFromWallet(z) ==
    /\ step[z] = "quoted"
    /\ quoted' = [quoted EXCEPT ![z] = key]
    /\ asked' = asked \cup {<<"zap", z>>}
    /\ Goto(z, "paying")
    /\ UNCHANGED <<feeTask, settled, pending, receipts, carriers, key, keys, givenUp>>

\* The wallet answers with the preimage: spawn_fee, and the wait for the receipt.
WalletPaid(z) ==
    /\ step[z] = "paying" /\ <<"zap", z>> \in settled
    /\ Goto(z, "watching")
    /\ feeTask' = [feeTask EXCEPT ![z] = IF FeeOf[z] = 0 THEN "none" ELSE "first"]
    /\ UNCHANGED <<asked, settled, pending, quoted, receipts, carriers, key, keys, givenUp>>

\* Mutant: the fee is owed whatever the wallet says.
WalletFailedPays(z) ==
    /\ step[z] = "paying"
    /\ Goto(z, "failed")
    /\ feeTask' = [feeTask EXCEPT ![z] = IF FeeOf[z] = 0 THEN "none" ELSE "first"]
    /\ UNCHANGED <<asked, settled, pending, quoted, receipts, carriers, key, keys, givenUp>>

\* An error or PAY_TIMEOUT: no fee.  The wallet may have paid, or pay yet.
WalletFailed(z) ==
    /\ step[z] = "paying"
    /\ Goto(z, "failed")
    /\ UNCHANGED <<feeTask, asked, settled, pending, quoted, receipts, carriers, key, keys, givenUp>>

\* The receipt reached the app: carried in.  A carrier the group refuses leaves it pending.
ReceiptSeen(z) ==
    /\ step[z] = "watching"
    /\ \E r \in receipts :
        /\ r.zap = z /\ r.key = quoted[z]
        /\ IF r.key = key
           THEN /\ carriers' = IF Carryable(r) THEN carriers \cup {[by |-> "app", zap |-> z, key |-> r.key]}
                               ELSE carriers
                /\ Goto(z, "done") /\ UNCHANGED pending
           ELSE pending' = [zap |-> z, fee |-> 0] /\ Goto(z, "waiting") /\ UNCHANGED carriers
    /\ UNCHANGED <<feeTask, asked, settled, quoted, receipts, key, keys, givenUp>>

\* RECEIPT_TIMEOUT: the zap is pending, with nothing owed.
ReceiptLate(z) ==
    /\ step[z] = "watching"
    /\ pending' = [zap |-> z, fee |-> 0]
    /\ Goto(z, "waiting")
    /\ UNCHANGED <<feeTask, asked, settled, quoted, receipts, carriers, key, keys, givenUp>>

\* App::zap_invoice: prepared again, the code is shown, and the zap is the pending one.
ShowCode(z) ==
    /\ step[z] = "quoted"
    /\ quoted' = [quoted EXCEPT ![z] = key]
    /\ asked' = asked \cup {<<"zap", z>>}
    /\ pending' = [zap |-> z, fee |-> FeeOf[z]]
    /\ Goto(z, "code")
    /\ UNCHANGED <<feeTask, settled, receipts, carriers, key, keys, givenUp>>

\* zap_wait, of the zap the dialog has just made the pending one: counted, or two minutes went by.
\* After a wallet zap that is all; after a code, its fee is next.
WaitOver(z) ==
    /\ step[z] \in {"waiting", "code"}
    /\ Goto(z, IF step[z] = "code" THEN "owing" ELSE "done")
    /\ UNCHANGED <<feeTask, asked, settled, pending, quoted, receipts, carriers, key, keys, givenUp>>

\* zap_wait finds the receipt itself, and carries it.
WaitCarries(z) ==
    /\ step[z] \in {"waiting", "code"}
    /\ \E r \in receipts :
        /\ r.zap = z /\ Carryable(r)
        /\ carriers' = carriers \cup {[by |-> "app", zap |-> r.zap, key |-> r.key]}
    /\ Goto(z, IF step[z] = "code" THEN "owing" ELSE "done")
    /\ UNCHANGED <<feeTask, asked, settled, pending, quoted, receipts, key, keys, givenUp>>

\* zap_fee_invoice: takes the pending zap, whichever it is by now, counted or not.  Its invoice
\* may not be had; the fee is then asked for no more.
FeeCode(z) ==
    /\ step[z] = "owing"
    /\ pending' = None
    /\ \/ UNCHANGED asked
       \/ /\ pending # None /\ pending.fee # 0
          /\ asked' = asked \cup {<<"code", pending.zap, z>>}
    /\ Goto(z, "done")
    /\ UNCHANGED <<feeTask, settled, quoted, receipts, carriers, key, keys, givenUp>>

-----------------------------------------------------------------------------
(* spawn_fee. *)

Attempt(z) == IF feeTask[z] \in {"first", "firstAsked"} THEN 1 ELSE 2

\* fee_invoice, and the wallet is asked.
FeeAsk(z) ==
    /\ feeTask[z] \in {"first", "second"}
    /\ asked' = asked \cup {<<"fee", z, Attempt(z)>>}
    /\ feeTask' = [feeTask EXCEPT ![z] = IF @ = "first" THEN "firstAsked" ELSE "secondAsked"]
    /\ UNCHANGED <<step, settled, pending, quoted, receipts, carriers, key, keys, givenUp>>

FeePaid(z) ==
    /\ feeTask[z] \in {"firstAsked", "secondAsked"} /\ <<"fee", z, Attempt(z)>> \in settled
    /\ feeTask' = [feeTask EXCEPT ![z] = "paid"]
    /\ UNCHANGED <<step, asked, settled, pending, quoted, receipts, carriers, key, keys, givenUp>>

\* No invoice, an error or a timeout: retried once after FEE_RETRY, then dropped.
FeeFails(z) ==
    /\ feeTask[z] \in {"first", "firstAsked", "second", "secondAsked"}
    /\ feeTask' = [feeTask EXCEPT ![z] = IF Attempt(z) = 1 THEN "second" ELSE "failed"]
    /\ givenUp' = IF feeTask[z] = "firstAsked" THEN givenUp \cup {z} ELSE givenUp
    /\ UNCHANGED <<step, asked, settled, pending, quoted, receipts, carriers, key, keys>>

-----------------------------------------------------------------------------
(* Outside the program. *)

\* An invoice is paid; the provider signs a zap's receipt.
Settle(i) ==
    /\ i \in asked
    /\ asked' = asked \ {i} /\ settled' = settled \cup {i}
    /\ receipts' = IF i[1] = "zap" THEN receipts \cup {[zap |-> i[2], key |-> quoted[i[2]]]} ELSE receipts
    /\ UNCHANGED <<step, feeTask, pending, quoted, carriers, key, keys, givenUp>>

\* The anchor is handed a receipt, checks it and carries it: it may not have the app's carrier yet.
AnchorCarries(r) ==
    /\ r \in receipts /\ r.key = key /\ [by |-> "anchor", zap |-> r.zap, key |-> r.key] \notin carriers
    /\ carriers' = carriers \cup {[by |-> "anchor", zap |-> r.zap, key |-> r.key]}
    /\ UNCHANGED <<step, feeTask, asked, settled, pending, quoted, receipts, key, keys, givenUp>>

\* set_lightning_address, by the recipient.
ChangeAddress(k) ==
    /\ keys < MaxKeys /\ k # key
    /\ key' = k /\ keys' = keys + 1
    /\ UNCHANGED <<step, feeTask, asked, settled, pending, quoted, receipts, carriers, givenUp>>

ZNext ==
    \/ \E z \in ZapIds :
        \/ Quote(z) \/ PayFromWallet(z) \/ WalletPaid(z) \/ WalletFailed(z)
        \/ ReceiptSeen(z) \/ ReceiptLate(z) \/ ShowCode(z) \/ WaitOver(z) \/ WaitCarries(z) \/ FeeCode(z)
        \/ FeeAsk(z) \/ FeePaid(z) \/ FeeFails(z)
    \/ \E i \in asked : Settle(i)
    \/ \E r \in receipts : AnchorCarries(r)
    \/ \E k \in Providers : ChangeAddress(k)

ZSpec == ZInit /\ [][ZNext]_zvars

-----------------------------------------------------------------------------

\* The invoices of zap z's fee that were ever put to anybody, paid or not.
FeeInvoices(z) == {i \in asked \cup settled : i[1] \in {"fee", "code"} /\ i[2] = z}

\* HIT_ENTER's fee, through timeouts, retries, several dialogs at once and a pending zap that one
\* dialog takes from another (send, spawn_fee, zap_invoice, zap_fee_invoice):
\*   - the wallet is asked for it only once the zap itself has settled (DESIGN.md 11.4: "The zap
\*     first, the fee second"), whatever the wallet answered and however late;
\*   - it goes one way: the wallet is asked, or one code is shown in one dialog, never both and
\*     never in two dialogs;
\*   - the wallet is handed a second invoice only if the first could not be had, or was asked for
\*     and given up (`givenUp`: an error or PAY_TIMEOUT); in that case both may settle.
\* A code is shown once zap_wait is over, whether or not the zap was paid: all that is said of it
\* is that the zap's own code was shown before.
FeeGoesOneWay == \A z \in ZapIds :
    /\ \A i \in FeeInvoices(z) :
        /\ i[1] = "fee" => <<"zap", z>> \in settled
        /\ i[1] = "code" => <<"zap", z>> \in asked \cup settled /\ FeeInvoices(z) = {i}
    /\ Cardinality(FeeInvoices(z)) <= IF z \in givenUp THEN 2 ELSE 1

\* "One per receipt, however many members carried it": what is counted is what was paid, once
\* (carry_zap looks before it publishes, on the app and on the anchor at once).
CountedOnce ==
    /\ Cardinality(ZapsOf) <= Cardinality({i \in settled : i[1] = "zap"})
    /\ \A c \in ZapsOf : <<"zap", c.zap>> \in settled
=============================================================================
