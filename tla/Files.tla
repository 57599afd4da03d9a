------------------------------- MODULE Files --------------------------------
(***************************************************************************)
(* The files of one node: attached, fetched, handed out and collected      *)
(* (crates/hit-node/src/blobs.rs, the file half of lib.rs, the blob tables *)
(* of crates/hit-store/src/lib.rs).                                        *)
(*                                                                         *)
(*   hour      the time                                                    *)
(*   blobs     the files complete in the blob store                        *)
(*   carried   the files some held message carries (table attachments)     *)
(*   used      per file, when it was last used (blob_use), or None         *)
(*   ours      the files with `mine` set                                   *)
(*   granted   the files a DM granted (blob_grants)                        *)
(*   sweeping  what the collector read as live, until it has swept; or None*)
(*   late      files of ours that came between that reading and the sweep  *)
(*                                                                         *)
(* The blob store itself is iroh's: it may lose nothing but in a sweep,    *)
(* which removes whatever was not read as live.                            *)
(***************************************************************************)
EXTENDS NodeBase, FiniteSetsExt

CONSTANTS Hashes,
          SizeOf,         \* bytes of each file
          CACHE_BYTES,    \* FilePolicy::cache_bytes
          PinAll,         \* FilePolicy::pin_all
          PENDING_KEEP,   \* an hour, in ticks
          MaxHour         \* bound: the last tick

ASSUME FilesConstants ==
    /\ SizeOf \in [Hashes -> Nat] /\ PinAll \in BOOLEAN
    /\ {CACHE_BYTES, PENDING_KEEP, MaxHour} \subseteq Nat

VARIABLES hour, blobs, carried, used, ours, granted, sweeping, late

fvars == <<hour, blobs, carried, used, ours, granted, sweeping, late>>

FInit ==
    /\ hour = 1
    /\ blobs = {} /\ carried = {} /\ ours = {} /\ granted = {} /\ late = {}
    /\ used = [f \in Hashes |-> None]
    /\ sweeping = None

\* touch_blob: `mine` once set stays set.
TouchBlob(f, mine) ==
    /\ used' = [used EXCEPT ![f] = hour]
    /\ ours' = IF mine THEN ours \cup {f} ELSE ours

\* attach: the file goes into the blob store, and is used as ours.
Attach(f) ==
    /\ blobs' = blobs \cup {f}
    /\ TouchBlob(f, TRUE)
    /\ late' = IF sweeping # None THEN late \cup {f} ELSE late
    /\ UNCHANGED <<hour, carried, granted, sweeping>>

\* send_dm_file: the ciphertext added, granted to the two people, ours.
SendDmFile(f) ==
    /\ blobs' = blobs \cup {f}
    /\ granted' = granted \cup {f}
    /\ TouchBlob(f, TRUE)
    /\ late' = IF sweeping # None THEN late \cup {f} ELSE late
    /\ UNCHANGED <<hour, carried, sweeping>>

\* A message that carries the file is stored: said here (say_with), or
\* another's (attachments rows of Store::insert).
MessageStored(f) ==
    /\ carried' = carried \cup {f}
    /\ late' = IF sweeping # None THEN late \cup {f} ELSE late
    /\ UNCHANGED <<hour, blobs, used, ours, granted, sweeping>>

\* The last message that carries it is withdrawn, removed or purged.
MessageGone(f) ==
    /\ f \in carried
    /\ carried' = carried \ {f}
    /\ UNCHANGED <<hour, blobs, used, ours, granted, sweeping, late>>

\* fetch_file: here already, or from the first provider that serves it whole
\* (pin_files asks for every file an anchor's messages carry).
FetchFile(f) ==
    /\ f \in blobs \cup carried
    /\ blobs' = blobs \cup {f}
    /\ TouchBlob(f, FALSE)
    /\ UNCHANGED <<hour, carried, granted, sweeping, late>>

\* A DM with a file to us is opened: the two are granted it (accept_event),
\* and dm_file_bytes fetches and uses it.
DmFileArrives(f) ==
    /\ granted' = granted \cup {f}
    /\ blobs' = blobs \cup {f}
    /\ TouchBlob(f, FALSE)
    /\ late' = IF sweeping # None THEN late \cup {f} ELSE late
    /\ UNCHANGED <<hour, carried, sweeping>>

LastUse(f) == IF used[f] = None THEN 0 ELSE used[f]

\* The order blobs_to_keep goes through the files in: ours, then latest used.
Ahead(f, g) == \/ f \in ours /\ g \notin ours
               \/ (f \in ours <=> g \in ours) /\ LastUse(f) > LastUse(g)

Bytes(S) == MapThenSumSet(LAMBDA f : SizeOf[f], S)

\* Mutant: ours go first, but the cap is theirs too.
KeepsWithinCap(K) ==
    \A f \in carried : f \in K <=> Bytes({g \in K \ {f} : ~Ahead(f, g)}) + SizeOf[f] <= CACHE_BYTES

\* blobs_to_keep: K is what the pass keeps, ties in any order.
KeepsExactly(K) ==
    \A f \in carried : f \in K <=>
        f \in ours \/ Bytes({g \in K \ {f} : ~Ahead(f, g)}) + SizeOf[f] <= CACHE_BYTES

\* What the collector protects (protect): a fresh reading before each sweep.
BeginSweep ==
    /\ sweeping = None
    /\ \E K \in SUBSET carried :
        /\ IF PinAll THEN K = carried ELSE KeepsExactly(K)
        /\ sweeping' = K \cup {f \in ours : used[f] >= hour - PENDING_KEEP} \cup granted
    /\ late' = {}
    /\ UNCHANGED <<hour, blobs, carried, used, ours, granted>>

\* A failed read aborts the sweep.
AbortSweep ==
    /\ sweeping # None
    /\ sweeping' = None
    /\ UNCHANGED <<hour, blobs, carried, used, ours, granted, late>>

Sweep ==
    /\ sweeping # None
    /\ blobs' = blobs \cap sweeping
    /\ sweeping' = None
    /\ UNCHANGED <<hour, carried, used, ours, granted, late>>

HourPasses ==
    /\ hour < MaxHour
    /\ hour' = hour + 1
    /\ UNCHANGED <<blobs, carried, used, ours, granted, sweeping, late>>

FNext == \/ \E f \in Hashes : \/ Attach(f) \/ SendDmFile(f) \/ MessageStored(f) \/ MessageGone(f)
                              \/ FetchFile(f) \/ DmFileArrives(f)
         \/ BeginSweep \/ AbortSweep \/ Sweep \/ HourPasses

FSpec == FInit /\ [][FNext]_fvars

-----------------------------------------------------------------------------
(* Properties. *)

\* blobs.rs: "sweeping with half a live set deletes what someone can still
\* see".  A sweep never takes a file of ours that a held message carries, nor
\* one granted in a DM, unless it became so after the collector's reading.
OursIsNotSwept ==
    [][\A f \in blobs \ blobs' : f \notin late =>
            f \notin granted /\ ~(f \in ours /\ f \in carried)]_fvars

=============================================================================
