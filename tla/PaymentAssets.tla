----------------------------- MODULE PaymentAssets -----------------------------
(***************************************************************************)
(* The files behind the links of an answer (payment/assets.ts): the text   *)
(* of an invoice or of a login URI, with its QR picture when it was made   *)
(* with one.  An asset is kept in memory and as two or three files, and is *)
(* served for 24 hours, across restarts of the server.                     *)
(*                                                                         *)
(* Every operation begins by deleting what is too old or cannot be read.   *)
(* Operations are synchronous, so nothing interleaves with one, but the    *)
(* process may stop inside a write or a clean-up, and a write or a read    *)
(* may fail.                                                               *)
(***************************************************************************)
EXTENDS Integers, FiniteSets

CONSTANTS
    Ids,            \* the random ids assets are given
    MaxAge,         \* maxAgeMs, in ticks
    LastTick,       \* bound: where the clock stops
    AssetFaults,    \* what may fail, a subset of AssetFaultPoints
    None            \* no asset

AssetFaultPoints == {"write", "read", "crash"}

ASSUME AssetsAssumption ==
    /\ MaxAge \in Nat /\ LastTick \in Nat
    /\ AssetFaults \subseteq AssetFaultPoints

VARIABLES
    clock,      \* Date.now()
    mem,        \* paymentAssets: what is in memory for an id
    disk,       \* the files an id has in paymentAssetDir
    made,       \* what the asset of an id was made from
    handed,     \* the ids whose links an answer holds
    unread,     \* the ids one of whose files failed to be read
    served      \* what a request for a link has just been answered with

assetVars == <<clock, mem, disk, made, handed, unread, served>>

Files == {"txt", "png", "json"}
Asset == [at : 0..LastTick, qr : BOOLEAN]

ASSUME NoneAssumption == None \notin Asset

AssetInit ==
    /\ clock = 0
    /\ mem = [i \in Ids |-> None]
    /\ disk = [i \in Ids |-> {}]
    /\ made = [i \in Ids |-> None]
    /\ handed = {} /\ unread = {}
    /\ served = None

-----------------------------------------------------------------------------
\* createdAt < cutoff.
Expired(asset) == asset.at < clock - MaxAge

\* Mutated form of FromDisk: an asset without a picture is not read back.
FromDiskWithPicture(i) ==
    IF Files \subseteq disk[i] THEN [at |-> made[i].at, qr |-> TRUE] ELSE None

\* readDiskAsset: the text and the metadata must be there; a QR that is not
\* is an empty picture.  Metadata cut short does not parse, as if missing.
FromDisk(i) ==
    IF {"txt", "json"} \subseteq disk[i]
    THEN [at |-> made[i].at, qr |-> "png" \in disk[i]]
    ELSE None

\* cleanupPaymentAssets, when the reads of bad fail: their files go too.
Sound(i, bad) == FromDisk(i) # None /\ i \notin bad /\ ~Expired(FromDisk(i))
Doomed(i, bad) == disk[i] # {} /\ ~Sound(i, bad)
MemKept == [i \in Ids |-> IF mem[i] # None /\ Expired(mem[i]) THEN None ELSE mem[i]]
DiskKept(bad) == [i \in Ids |-> IF Doomed(i, bad) THEN {} ELSE disk[i]]

\* The ids whose reads fail in an operation.
FailedReads == IF "read" \in AssetFaults THEN SUBSET {i \in Ids : disk[i] # {}} ELSE {{}}

\* Mutated form of Written: the metadata is written before the picture.
WrittenPictureLast(asset) ==
    LET whole == {"txt", "json"} \cup (IF asset.qr THEN {"png"} ELSE {})
    IN [all |-> whole, cut |-> {{}, {"txt"}, {"txt", "json"} \cap whole} \ {whole}]

\* writeDiskAsset: the files of an asset, and what a write that stops leaves.
Written(asset) ==
    LET whole == {"txt", "json"} \cup (IF asset.qr THEN {"png"} ELSE {})
    IN [all |-> whole, cut |-> {{}, {"txt"}, {"txt", "png"} \cap whole} \ {whole}]

\* storeQrTextAsset and storePaymentAsset: the link is returned to the answer.
Store(i, asset) ==
    /\ made[i] = None /\ asset.at = clock
    /\ mem' = [MemKept EXCEPT ![i] = asset]
    /\ made' = [made EXCEPT ![i] = asset]
    /\ \E bad \in FailedReads :
        /\ disk' = [DiskKept(bad) EXCEPT ![i] = Written(asset).all]
        /\ unread' = unread \cup bad
    /\ handed' = handed \cup {i}
    /\ served' = None /\ UNCHANGED clock

\* A write fails: the exception reaches the tool call, the link nobody.
StoreThrows(i, asset) ==
    /\ "write" \in AssetFaults /\ made[i] = None /\ asset.at = clock
    /\ mem' = [MemKept EXCEPT ![i] = asset]
    /\ made' = [made EXCEPT ![i] = asset]
    /\ \E files \in Written(asset).cut : disk' = [DiskKept({}) EXCEPT ![i] = files]
    /\ served' = None /\ UNCHANGED <<clock, handed, unread>>

Forgotten == mem' = [i \in Ids |-> None]

\* The process stops inside a write.
StoreCut(i, asset) ==
    /\ "crash" \in AssetFaults /\ made[i] = None /\ asset.at = clock
    /\ Forgotten
    /\ made' = [made EXCEPT ![i] = asset]
    /\ \E files \in Written(asset).cut : disk' = [DiskKept({}) EXCEPT ![i] = files]
    /\ served' = None /\ UNCHANGED <<clock, handed, unread>>

\* The process stops inside a clean-up: the text goes first, the QR last.
CleanupCut(i) ==
    /\ "crash" \in AssetFaults /\ Doomed(i, {})
    /\ Forgotten
    /\ \E gone \in {{"txt"}, {"txt", "json"}} : disk' = [disk EXCEPT ![i] = @ \ gone]
    /\ served' = None /\ UNCHANGED <<clock, made, handed, unread>>

\* getPaymentAsset, as the routes of a link call it: memory first, and what
\* is read from disk is put there.
Got(i, bad) ==
    IF MemKept[i] # None THEN MemKept[i]
    ELSE IF Sound(i, bad) THEN FromDisk(i) ELSE None

Get(i) ==
    \E bad \in FailedReads :
        /\ mem' = [MemKept EXCEPT ![i] = Got(i, bad)]
        /\ disk' = DiskKept(bad)
        /\ unread' = unread \cup bad
        /\ served' = IF Got(i, bad) = None THEN None ELSE [id |-> i, asset |-> Got(i, bad)]
        /\ UNCHANGED <<clock, made, handed>>

\* listPaymentAssets, outside production: everything is brought to memory.
List ==
    /\ mem' = [i \in Ids |-> Got(i, {})]
    /\ disk' = DiskKept({})
    /\ served' = None /\ UNCHANGED <<clock, made, handed, unread>>

RestartServer ==
    /\ "crash" \in AssetFaults
    /\ Forgotten
    /\ served' = None /\ UNCHANGED <<clock, disk, made, handed, unread>>

Tick ==
    /\ clock < LastTick
    /\ clock' = clock + 1
    /\ served' = None /\ UNCHANGED <<mem, disk, made, handed, unread>>

AssetStep ==
    \/ \E i \in Ids : CleanupCut(i) \/ Get(i)
    \/ List \/ RestartServer \/ Tick

-----------------------------------------------------------------------------
(***************************************************************************)
(* Properties.                                                             *)
(***************************************************************************)

\* A link that an answer holds serves its text, with its picture, for the 24
\* hours it was made for: over restarts, clean-ups cut short and failed
\* writes of others, unless reading its files failed once.
LinkWhole ==
    \A i \in handed \ unread : clock - made[i].at <= MaxAge => Got(i, {}) = made[i]

\* Whatever is served is what was stored, picture included, and is not older
\* than 24 hours: half of an asset is never served, not even of one whose
\* store did not come to its end.
ServedRight ==
    served # None => served.asset = made[served.id] /\ clock - made[served.id].at <= MaxAge
=============================================================================
