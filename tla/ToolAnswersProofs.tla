--------------------------- MODULE ToolAnswersProofs ---------------------------
(***************************************************************************)
(* Proofs about the answers of the tools (ToolAnswers) and the files       *)
(* behind their links (PaymentAssets), for any number of ids, any age, and *)
(* every subset of the faults.                                             *)
(*                                                                         *)
(* The argument.  The metadata is the last file to be written and goes     *)
(* with, or right after, the text; so whenever text and metadata are both  *)
(* there, the asset is whole.  Only what expired or could not be read is   *)
(* deleted.  An answer has cards of one kind only, so it does not matter   *)
(* that its parts look for them in different orders, and the kind is one   *)
(* that the schema of the tool allows.                                     *)
(***************************************************************************)
EXTENDS ToolAnswers, TLAPS

Whole(asset) == {"txt", "json"} \cup (IF asset.qr THEN {"png"} ELSE {})

\* The clock and the records of what was made.
Made1 ==
    /\ clock \in 0..LastTick
    /\ made \in [Ids -> Asset \cup {None}]
    /\ handed \subseteq Ids
    /\ \A i \in handed : made[i] \in Asset

\* What is in memory is what was made.
MemRight == \A i \in Ids : mem[i] # None => mem[i] = made[i] /\ made[i] \in Asset

\* Where text and metadata are, the asset is whole.
DiskRight ==
    /\ mem \in [Ids -> Asset \cup {None}]
    /\ disk \in [Ids -> SUBSET Files]
    /\ \A i \in Ids : {"txt", "json"} \subseteq disk[i] =>
        made[i] \in Asset /\ disk[i] = Whole(made[i])

\* What an answer links to is on disk for as long as it should be.
LinksOnDisk ==
    \A i \in handed \ unread : clock - made[i].at <= MaxAge => disk[i] = Whole(made[i])

IInv == Made1 /\ MemRight /\ DiskRight /\ LinksOnDisk

-----------------------------------------------------------------------------
LEMMA FromDiskIs ==
    ASSUME IInv, NEW i \in Ids
    PROVE  FromDisk(i) = (IF {"txt", "json"} \subseteq disk[i] THEN made[i] ELSE None)
<1>1. CASE {"txt", "json"} \subseteq disk[i]
  <2>1. made[i] \in Asset /\ disk[i] = Whole(made[i])
    BY <1>1 DEF IInv, DiskRight
  <2>2. made[i].qr = ("png" \in disk[i])
    BY <2>1 DEF Whole, Asset
  <2>3. made[i] = [at |-> made[i].at, qr |-> made[i].qr]
    BY <2>1 DEF Asset
  <2> QED
    BY <1>1, <2>2, <2>3 DEF FromDisk
<1>2. CASE ~({"txt", "json"} \subseteq disk[i])
  BY <1>2 DEF FromDisk
<1> QED
  BY <1>1, <1>2

\* A link that holds is read back, and no clean-up takes its files.
LEMMA LinkSound ==
    ASSUME IInv, NEW i \in handed \ unread, clock - made[i].at <= MaxAge
    PROVE  /\ i \in Ids /\ FromDisk(i) = made[i] /\ made[i] # None
           /\ \A bad \in SUBSET Ids : i \notin bad => Sound(i, bad) /\ ~Doomed(i, bad)
<1>1. i \in Ids /\ made[i] \in Asset /\ disk[i] = Whole(made[i])
  BY DEF IInv, Made1, LinksOnDisk
<1>2. FromDisk(i) = made[i]
  BY <1>1, FromDiskIs DEF Whole
<1>3. ~Expired(made[i])
  BY <1>1, AssetsAssumption DEF Expired, Asset, IInv, Made1
<1> QED
  BY <1>1, <1>2, <1>3, NoneAssumption DEF Sound, Doomed

\* What a request is given is what was made, and not too old.
LEMMA GotRight ==
    ASSUME IInv, NEW i \in Ids, NEW bad, Got(i, bad) # None
    PROVE  Got(i, bad) = made[i] /\ made[i] \in Asset /\ clock - made[i].at <= MaxAge
<1>1. CASE MemKept[i] # None
  <2>1. Got(i, bad) = mem[i] /\ mem[i] = made[i] /\ made[i] \in Asset /\ ~Expired(made[i])
    BY <1>1 DEF Got, MemKept, IInv, MemRight
  <2> QED
    BY <2>1, AssetsAssumption DEF Expired, Asset, IInv, Made1
<1>2. CASE MemKept[i] = None
  <2>1. Sound(i, bad) /\ Got(i, bad) = FromDisk(i)
    BY <1>2 DEF Got
  <2>2. FromDisk(i) = made[i] /\ made[i] \in Asset /\ ~Expired(made[i])
    BY <2>1, FromDiskIs DEF Sound, IInv, DiskRight
  <2> QED
    BY <2>1, <2>2, AssetsAssumption DEF Expired, Asset, IInv, Made1
<1> QED
  BY <1>1, <1>2

\* A clean-up leaves the invariant as it is.
LEMMA DiskKeptIs ==
    ASSUME IInv, NEW bad \in SUBSET Ids
    PROVE  /\ DiskKept(bad) \in [Ids -> SUBSET Files]
           /\ \A i \in Ids : DiskKept(bad)[i] \in {{}, disk[i]}
           /\ \A i \in handed \ (unread \cup bad) :
                clock - made[i].at <= MaxAge => DiskKept(bad)[i] = Whole(made[i])
<1>1. DiskKept(bad) \in [Ids -> SUBSET Files] /\ \A i \in Ids : DiskKept(bad)[i] \in {{}, disk[i]}
  BY DEF DiskKept, IInv, DiskRight
<1>2. ASSUME NEW i \in handed \ (unread \cup bad), clock - made[i].at <= MaxAge
      PROVE  DiskKept(bad)[i] = Whole(made[i])
  <2>1. i \in Ids /\ ~Doomed(i, bad)
    BY <1>2, LinkSound
  <2>2. disk[i] = Whole(made[i])
    BY <1>2 DEF IInv, LinksOnDisk
  <2> QED
    BY <2>1, <2>2 DEF DiskKept
<1> QED
  BY <1>1, <1>2

LEMMA MemKeptIs ==
    ASSUME IInv
    PROVE  /\ MemKept \in [Ids -> Asset \cup {None}]
           /\ \A i \in Ids : MemKept[i] # None => MemKept[i] = made[i] /\ made[i] \in Asset
<1> QED
  BY DEF MemKept, IInv, MemRight, DiskRight

LEMMA FailedReadsAre == \A bad \in FailedReads : bad \in SUBSET Ids
<1> QED
  BY DEF FailedReads

LEMMA WrittenIs ==
    ASSUME NEW asset \in Asset
    PROVE  /\ Written(asset).all = Whole(asset) /\ Whole(asset) \in SUBSET Files
           /\ \A files \in Written(asset).cut : files \in SUBSET Files /\ "json" \notin files
<1> QED
  BY DEF Written, Whole, Files

-----------------------------------------------------------------------------
LEMMA InitInv == Init => IInv
<1> QED
  BY AssetsAssumption, NoneAssumption
     DEF Init, AssetInit, IInv, Made1, MemRight, DiskRight, LinksOnDisk, Files

\* A new asset, whole or cut short.
LEMMA NewAssetInv ==
    ASSUME IInv, NEW i \in Ids, NEW asset, asset.at = clock, asset \in Asset, made[i] = None,
           made' = [made EXCEPT ![i] = asset], UNCHANGED clock,
           mem' \in [Ids -> Asset \cup {None}],
           \A j \in Ids : mem'[j] # None => mem'[j] = made'[j] /\ made'[j] \in Asset,
           NEW bad \in SUBSET Ids, unread' = unread \cup bad,
           NEW files \in SUBSET Files, disk' = [DiskKept(bad) EXCEPT ![i] = files],
           \/ files = Whole(asset) /\ handed' = handed \cup {i}
           \/ "json" \notin files /\ handed' = handed
    PROVE  IInv'
<1>1. i \notin handed
  BY NoneAssumption DEF IInv, Made1
<1>2. Made1'
  BY <1>1 DEF IInv, Made1
<1>3. MemRight'
  BY DEF MemRight
<1>4. DiskRight'
  <2>1. disk' \in [Ids -> SUBSET Files]
    BY DiskKeptIs
  <2>2. ASSUME NEW j \in Ids, {"txt", "json"} \subseteq disk'[j]
        PROVE  made'[j] \in Asset /\ disk'[j] = Whole(made'[j])
    <3>1. CASE j = i
      BY <2>2, <3>1, DiskKeptIs DEF IInv, Made1
    <3>2. CASE j # i
      <4>1. disk'[j] = DiskKept(bad)[j] /\ made'[j] = made[j]
        BY <3>2, DiskKeptIs DEF IInv, Made1
      <4>2. disk'[j] = disk[j]
        BY <2>2, <4>1, DiskKeptIs
      <4> QED
        BY <2>2, <4>1, <4>2 DEF IInv, DiskRight
    <3> QED
      BY <3>1, <3>2
  <2> QED
    BY <2>1, <2>2 DEF DiskRight
<1>5. LinksOnDisk'
  <2> SUFFICES ASSUME NEW j \in handed' \ unread', clock' - made'[j].at <= MaxAge
               PROVE  disk'[j] = Whole(made'[j])
    BY DEF LinksOnDisk
  <2>1. CASE j = i
    <3>1. files = Whole(asset)
      BY <1>1, <2>1
    <3> QED
      BY <2>1, <3>1, DiskKeptIs DEF IInv, Made1
  <2>2. CASE j # i
    <3>1. j \in handed \ (unread \cup bad) /\ j \in Ids
      BY <2>2 DEF IInv, Made1
    <3>2. made'[j] = made[j] /\ disk'[j] = DiskKept(bad)[j]
      BY <2>2, <3>1, DiskKeptIs DEF IInv, Made1
    <3> QED
      BY <3>1, <3>2, DiskKeptIs
  <2> QED
    BY <2>1, <2>2
<1> QED
  BY <1>2, <1>3, <1>4, <1>5 DEF IInv

\* An operation that only deletes, and may bring assets back to memory.
LEMMA KeptInv ==
    ASSUME IInv, UNCHANGED <<clock, made, handed>>,
           mem' \in [Ids -> Asset \cup {None}],
           \A j \in Ids : mem'[j] # None => mem'[j] = made[j] /\ made[j] \in Asset,
           NEW bad \in SUBSET Ids, unread' = unread \cup bad, disk' = DiskKept(bad)
    PROVE  IInv'
<1>1. Made1' /\ MemRight'
  BY DEF IInv, Made1, MemRight
<1>2. DiskRight'
  BY DiskKeptIs DEF IInv, DiskRight
<1>3. LinksOnDisk'
  BY DiskKeptIs DEF LinksOnDisk
<1> QED
  BY <1>1, <1>2, <1>3 DEF IInv

LEMMA GotKept ==
    ASSUME IInv, NEW bad, NEW i \in Ids
    PROVE  Got(i, bad) # None => Got(i, bad) = made[i] /\ made[i] \in Asset
<1> QED
  BY GotRight

LEMMA StepInv ==
    ASSUME IInv, AssetStep
    PROVE  IInv' /\ ServedRight'
<1>1. ASSUME NEW i \in Ids, CleanupCut(i) PROVE IInv'
  <2>1. PICK gone \in {{"txt"}, {"txt", "json"}} : disk' = [disk EXCEPT ![i] = @ \ gone]
    BY <1>1 DEF CleanupCut
  <2>2. UNCHANGED <<clock, made, handed, unread>> /\ mem' = [j \in Ids |-> None] /\ Doomed(i, {})
    BY <1>1 DEF CleanupCut, Forgotten
  <2>3. Made1' /\ MemRight'
    BY <2>2 DEF IInv, Made1, MemRight
  <2>4. /\ disk' \in [Ids -> SUBSET Files]
        /\ \A j \in Ids \ {i} : disk'[j] = disk[j]
        /\ "txt" \notin disk'[i]
    BY <2>1 DEF IInv, DiskRight
  <2>5. DiskRight'
    BY <2>2, <2>4 DEF IInv, DiskRight
  <2>6. LinksOnDisk'
    <3>1. ASSUME NEW j \in handed \ unread, clock - made[j].at <= MaxAge
          PROVE  j # i /\ j \in Ids
      BY <2>2, <3>1, LinkSound
    <3> QED
      BY <2>2, <2>4, <3>1 DEF IInv, LinksOnDisk
  <2> QED
    BY <2>3, <2>5, <2>6 DEF IInv
<1>2. ASSUME NEW i \in Ids, Get(i) PROVE IInv' /\ ServedRight'
  <2>1. PICK bad \in FailedReads :
          /\ mem' = [MemKept EXCEPT ![i] = Got(i, bad)]
          /\ disk' = DiskKept(bad)
          /\ unread' = unread \cup bad
          /\ served' = IF Got(i, bad) = None THEN None ELSE [id |-> i, asset |-> Got(i, bad)]
          /\ UNCHANGED <<clock, made, handed>>
    BY <1>2 DEF Get
  <2>2. bad \in SUBSET Ids
    BY FailedReadsAre
  <2>3. /\ mem' \in [Ids -> Asset \cup {None}]
        /\ \A j \in Ids : mem'[j] # None => mem'[j] = made[j] /\ made[j] \in Asset
    BY <2>1, MemKeptIs, GotKept
  <2>4. IInv'
    BY <2>1, <2>2, <2>3, KeptInv
  <2>5. ServedRight'
    BY <2>1, GotRight DEF ServedRight
  <2> QED
    BY <2>4, <2>5
<1>3. ASSUME List PROVE IInv'
  <2>1. /\ mem' = [i \in Ids |-> Got(i, {})] /\ disk' = DiskKept({})
        /\ UNCHANGED <<clock, made, handed, unread>>
    BY <1>3 DEF List
  <2>2. /\ mem' \in [Ids -> Asset \cup {None}]
        /\ \A j \in Ids : mem'[j] # None => mem'[j] = made[j] /\ made[j] \in Asset
    BY <2>1, GotKept
  <2>3. unread' = unread \cup {} /\ {} \in SUBSET Ids
    BY <2>1
  <2>4. UNCHANGED <<clock, made, handed>> /\ disk' = DiskKept({})
    BY <2>1
  <2> QED
    BY <2>2, <2>3, <2>4, KeptInv
<1>4. ASSUME RestartServer PROVE IInv'
  <2>1. mem' = [i \in Ids |-> None] /\ UNCHANGED <<clock, disk, made, handed, unread>>
    BY <1>4 DEF RestartServer, Forgotten
  <2>2. Made1' /\ MemRight' /\ LinksOnDisk'
    BY <2>1 DEF IInv, Made1, MemRight, LinksOnDisk
  <2>3. mem' \in [Ids -> Asset \cup {None}] /\ disk' \in [Ids -> SUBSET Files]
    BY <2>1 DEF IInv, DiskRight
  <2>4. DiskRight'
    BY <2>1, <2>3 DEF IInv, DiskRight
  <2> QED
    BY <2>2, <2>4 DEF IInv
<1>5. ASSUME Tick PROVE IInv'
  <2>1. clock' = clock + 1 /\ clock < LastTick
        /\ UNCHANGED <<mem, disk, made, handed, unread>>
    BY <1>5 DEF Tick
  <2>2. Made1' /\ MemRight' /\ DiskRight'
    BY <2>1, AssetsAssumption DEF IInv, Made1, MemRight, DiskRight
  <2>3. LinksOnDisk'
    <3>1. ASSUME NEW i \in handed, clock' - made[i].at <= MaxAge
          PROVE  clock - made[i].at <= MaxAge
      <4>1. made[i].at \in 0..LastTick /\ clock \in 0..LastTick
        BY DEF IInv, Made1, Asset
      <4> QED
        BY <2>1, <3>1, <4>1, AssetsAssumption
    <3>2. ASSUME NEW i \in handed' \ unread', clock' - made'[i].at <= MaxAge
          PROVE  disk'[i] = Whole(made'[i])
      <4>1. i \in handed \ unread /\ made'[i] = made[i] /\ disk'[i] = disk[i]
        BY <2>1, <3>2
      <4>2. clock - made[i].at <= MaxAge
        BY <3>1, <3>2, <4>1
      <4> QED
        BY <4>1, <4>2 DEF IInv, LinksOnDisk
    <3> QED
      BY <3>2 DEF LinksOnDisk
  <2> QED
    BY <2>2, <2>3 DEF IInv
<1>6. served' = None => ServedRight'
  BY DEF ServedRight
<1> QED
  BY <1>1, <1>2, <1>3, <1>4, <1>5, <1>6 DEF AssetStep, CleanupCut, List, RestartServer, Tick

LEMMA NextInv ==
    ASSUME IInv, ServedRight, [Next]_answerVars
    PROVE  IInv' /\ ServedRight'
<1>1. CASE AssetStep
  BY <1>1, StepInv
<1>2. ASSUME NEW i \in Ids, NEW qr \in BOOLEAN,
             \/ Store(i, [at |-> clock, qr |-> qr])
             \/ StoreThrows(i, [at |-> clock, qr |-> qr])
             \/ StoreCut(i, [at |-> clock, qr |-> qr])
      PROVE  IInv' /\ ServedRight'
  <2> DEFINE asset == [at |-> clock, qr |-> qr]
  <2>1. asset \in Asset /\ asset.at = clock
    BY DEF Asset, IInv, Made1
  <2>2. made[i] = None /\ made' = [made EXCEPT ![i] = asset] /\ UNCHANGED clock /\ served' = None
    BY <1>2 DEF Store, StoreThrows, StoreCut
  <2>3. mem' = [MemKept EXCEPT ![i] = asset] \/ mem' = [j \in Ids |-> None]
    BY <1>2 DEF Store, StoreThrows, StoreCut, Forgotten
  <2>4. /\ mem' \in [Ids -> Asset \cup {None}]
        /\ \A j \in Ids : mem'[j] # None => mem'[j] = made'[j] /\ made'[j] \in Asset
    <3> HIDE DEF asset
    <3> QED
      BY <2>1, <2>2, <2>3, MemKeptIs DEF IInv, Made1
  <2>5. \E bad \in SUBSET Ids, files \in SUBSET Files :
          /\ unread' = unread \cup bad /\ disk' = [DiskKept(bad) EXCEPT ![i] = files]
          /\ \/ files = Whole(asset) /\ handed' = handed \cup {i}
             \/ "json" \notin files /\ handed' = handed
    <3>1. CASE Store(i, asset)
      <4>1. PICK bad \in FailedReads :
              /\ disk' = [DiskKept(bad) EXCEPT ![i] = Written(asset).all]
              /\ unread' = unread \cup bad
        BY <3>1 DEF Store
      <4>2. handed' = handed \cup {i}
        BY <3>1 DEF Store
      <4>3. Written(asset).all = Whole(asset) /\ Whole(asset) \in SUBSET Files
        BY <2>1, WrittenIs
      <4> HIDE DEF asset
      <4> QED
        BY <4>1, <4>2, <4>3, FailedReadsAre
    <3>2. CASE StoreThrows(i, asset) \/ StoreCut(i, asset)
      <4>1. PICK files \in Written(asset).cut : disk' = [DiskKept({}) EXCEPT ![i] = files]
        BY <3>2 DEF StoreThrows, StoreCut
      <4>2. files \in SUBSET Files /\ "json" \notin files
        BY <2>1, WrittenIs
      <4>3. unread' = unread \cup {} /\ handed' = handed
        BY <3>2 DEF StoreThrows, StoreCut
      <4> QED
        BY <4>1, <4>2, <4>3
    <3> QED
      BY <1>2, <3>1, <3>2
  <2>6. IInv'
    <3> HIDE DEF asset
    <3> QED
      BY <2>1, <2>2, <2>4, <2>5, NewAssetInv
  <2> QED
    BY <2>2, <2>6 DEF ServedRight
<1>3. CASE UNCHANGED <<clock, mem, disk, made, handed, unread>> /\ served' \in {None, served}
  BY <1>3 DEF IInv, Made1, MemRight, DiskRight, LinksOnDisk, ServedRight
<1> QED
  BY <1>1, <1>2, <1>3 DEF Next, answerVars, assetVars, AnswerPlain, AnswerWithLinks, AnswerCut

LEMMA Invariance == Spec => [](IInv /\ ServedRight)
<1>1. Init => ServedRight
  BY DEF Init, AssetInit, ServedRight
<1> QED
  BY <1>1, InitInv, NextInv, PTL DEF Spec

-----------------------------------------------------------------------------
(***************************************************************************)
(* The displays.  An answer is made of one kind of cards at most, so it    *)
(* does not matter in which order the four places look for it.             *)
(***************************************************************************)
\* What an answer is made of.
Kind(tool, r) ==
    CASE r.found -> "order"
      [] tool = "listings" -> "listing"
      [] tool \in ProfileTools -> "profile"
      [] tool = "updates" -> "thread card"
      [] tool = "thread" -> "thread view"
      [] tool \in TradeTools -> "trade"
      [] tool = "service" -> "service"
      [] tool \in BadgeTools -> "badge"
      [] tool = "connect" -> "connect"
      [] OTHER -> "payment"

Kinds == {"listing", "order", "profile", "thread card", "thread view", "trade",
          "service", "badge", "connect", "payment"}

LEMMA OneKind ==
    ASSUME NEW tool \in Tools, NEW r \in Results(tool)
    PROVE  /\ Kind(tool, r) \in Kinds
           /\ \A kind \in Kinds : Card(kind, tool, r) # None => kind = Kind(tool, r)
<1>1. /\ r.found => tool \in {"watch", "trips", "bookings"}
      /\ r.invoice => tool \in {"book", "watch", "other"} /\ ~r.found
      /\ r.pending => tool = "connect"
      /\ r.found \in BOOLEAN /\ r.invoice \in BOOLEAN
  BY DEF Results
<1> HIDE DEF Results
<1> USE DEF Kind, ProfileTools, TradeTools, BadgeTools
<1>2. Kind(tool, r) \in Kinds
  BY DEF Kinds
<1>3. ListingDisplay(tool, r) # None => Kind(tool, r) = "listing"
  BY <1>1 DEF ListingDisplay
<1>4. OrderDisplay(tool, r) # None => Kind(tool, r) = "order"
  BY <1>1 DEF OrderDisplay
<1>5. ProfileDisplay(tool, r) # None => Kind(tool, r) = "profile"
  BY <1>1 DEF ProfileDisplay
<1>6. ThreadCardDisplay(tool, r) # None => Kind(tool, r) = "thread card"
  BY <1>1 DEF ThreadCardDisplay
<1>7. ThreadViewDisplay(tool, r) # None => Kind(tool, r) = "thread view"
  BY <1>1 DEF ThreadViewDisplay
<1>8. TradeDisplay(tool, r) # None => Kind(tool, r) = "trade"
  BY <1>1 DEF TradeDisplay
<1>9. ServiceDisplay(tool, r) # None => Kind(tool, r) = "service"
  BY <1>1 DEF ServiceDisplay
<1>10. BadgeDisplay(tool, r) # None => Kind(tool, r) = "badge"
  BY <1>1 DEF BadgeDisplay
<1>11. ConnectDisplay(tool, r) # None => Kind(tool, r) = "connect"
  BY <1>1 DEF ConnectDisplay
<1>12. PaymentDisplay(tool, r) # None => Kind(tool, r) = "payment"
  BY <1>1 DEF PaymentDisplay
<1> HIDE DEF Kind
<1> QED
  BY <1>2, <1>3, <1>4, <1>5, <1>6, <1>7, <1>8, <1>9, <1>10, <1>11, <1>12 DEF Card, Kinds

\* Where at most one kind has a card, the first and the last are the same.
LEMMA OnlyOne ==
    ASSUME NEW tool \in Tools, NEW r \in Results(tool),
           NEW order, DOMAIN order \subseteq Int,
           \A k \in DOMAIN order : order[k] \in Kinds,
           \A j, k \in DOMAIN order : order[j] = order[k] => j = k
    PROVE  LET x == Card(Kind(tool, r), tool, r)
           IN  /\ LastOf(order, tool, r) \in {None, x} /\ FirstOf(order, tool, r) \in {None, x}
               /\ (\E k \in DOMAIN order : order[k] = Kind(tool, r))
                    => LastOf(order, tool, r) = x
<1> DEFINE x == Card(Kind(tool, r), tool, r)
           present == Made(order, tool, r)
<1>1. \A k \in present : k \in DOMAIN order /\ order[k] = Kind(tool, r)
  BY OneKind DEF Made
<1>2. CASE present = {}
  BY <1>2 DEF Made, LastOf, FirstOf
<1>3. CASE present # {}
  <2>1. PICK k \in DOMAIN order : present = {k} /\ order[k] = Kind(tool, r)
    BY <1>1, <1>3
  <2>2. Max({k}) = k /\ Min({k}) = k
    BY <2>1 DEF Max, Min
  <2> QED
    BY <2>1, <2>2 DEF LastOf, FirstOf
<1> QED
  BY <1>2, <1>3

LEMMA AlwaysAlike ==
    ASSUME NEW tool \in Tools, NEW r \in Results(tool)
    PROVE  Display(tool, r) = Card(Kind(tool, r), tool, r) /\ Alike(tool, r)
<1>1. Kind(tool, r) \in Kinds
  BY OneKind
<1>2. /\ DOMAIN DisplayOrder = 1..10 /\ \A k \in 1..10 : DisplayOrder[k] \in Kinds
      /\ \A j, k \in 1..10 : DisplayOrder[j] = DisplayOrder[k] => j = k
      /\ \A kind \in Kinds : \E k \in 1..10 : DisplayOrder[k] = kind
  BY DEF DisplayOrder, Kinds
<1>3. /\ DOMAIN MetaOrder = 1..10 /\ \A k \in 1..10 : MetaOrder[k] \in Kinds
      /\ \A j, k \in 1..10 : MetaOrder[j] = MetaOrder[k] => j = k
      /\ \A kind \in Kinds : \E k \in 1..10 : MetaOrder[k] = kind
  BY DEF MetaOrder, Kinds
<1>4. /\ DOMAIN WidgetOrder = 1..5 /\ \A k \in 1..5 : WidgetOrder[k] \in Kinds
      /\ \A j, k \in 1..5 : WidgetOrder[j] = WidgetOrder[k] => j = k
  BY DEF WidgetOrder, Kinds
<1>5. /\ DOMAIN ContentOrder = 1..8 /\ \A k \in 1..8 : ContentOrder[k] \in Kinds
      /\ \A j, k \in 1..8 : ContentOrder[j] = ContentOrder[k] => j = k
  BY DEF ContentOrder, Kinds
<1> DEFINE x == Card(Kind(tool, r), tool, r)
<1> HIDE DEF x
<1>6. Display(tool, r) = x
  BY <1>1, <1>2, OnlyOne DEF Display, x
<1>7. MetaDisplay(tool, r) = x
  BY <1>1, <1>3, OnlyOne DEF MetaDisplay, x
<1>8. WidgetDisplay(tool, r) \in {None, x}
  BY <1>4, OnlyOne DEF WidgetDisplay, x
<1>9. ContentDisplay(tool, r) \in {None, x}
  BY <1>5, OnlyOne DEF ContentDisplay, x
<1> QED
  BY <1>6, <1>7, <1>8, <1>9 DEF Alike, x

\* The one display is one the tool was registered for.
LEMMA CardFits ==
    ASSUME NEW tool \in Tools, NEW r \in Results(tool), r.ok
    PROVE  Fits(tool, Display(tool, r)) \/ (tool = "book" /\ ~r.invoice)
<1> DEFINE kind == Kind(tool, r)
           card == Card(kind, tool, r)
<1>1. /\ r.found => tool \in {"watch", "trips", "bookings"}
      /\ r.invoice => tool \in {"book", "watch", "other"} /\ ~r.found
      /\ r.pending => tool = "connect"
      /\ r.items > 0 => tool \notin {"profile", "profile edit", "review", "book", "connect", "other"}
      /\ r.found \in BOOLEAN /\ r.invoice \in BOOLEAN
  BY DEF Results, ProfileTools
<1>2. Display(tool, r) = card /\ kind \in Kinds
  BY AlwaysAlike, OneKind
<1>3. CASE kind = "order"
  <2>1. r.found /\ card = OrderDisplay(tool, r)
    BY <1>3 DEF Kind, Card
  <2>2. OrderDisplay(tool, r) \in OrderSchema /\ tool \in OrderTools \ {"other"}
    BY <1>1, <2>1 DEF OrderDisplay, OneOrMore, OrderSchema, OrderTools
  <2>3. Schema(tool) = OrderSchema
    BY <2>2 DEF Schema, OrderTools, ProfileTools, ThreadTools, TradeTools
  <2> QED
    BY <1>2, <2>1, <2>2, <2>3 DEF Fits
<1>4. CASE kind = "listing"
  <2>1. tool = "listings" /\ card = ListingDisplay(tool, r)
    BY <1>4 DEF Kind, Card
  <2>2. ListingDisplay(tool, r) \in ListingSchema \cup {None} /\ Schema(tool) = ListingSchema
    BY <2>1 DEF ListingDisplay, OneOrMore, ListingSchema, Schema, OrderTools, ProfileTools,
                ThreadTools, TradeTools
  <2> QED
    BY <1>2, <2>1, <2>2 DEF Fits
<1>5. CASE kind = "profile"
  <2>1. tool \in ProfileTools /\ card = ProfileDisplay(tool, r)
    BY <1>5 DEF Kind, Card
  <2>2. ProfileDisplay(tool, r) \in ProfileSchema \cup {None} /\ Schema(tool) = ProfileSchema
    BY <2>1 DEF ProfileDisplay, ProfileSchema, Schema, OrderTools, ProfileTools,
                ThreadTools, TradeTools
  <2> QED
    BY <1>2, <2>1, <2>2 DEF Fits, ProfileTools
<1>6. CASE kind \in {"thread card", "thread view"}
  <2>1. tool \in ThreadTools /\ card \in {ThreadCardDisplay(tool, r), ThreadViewDisplay(tool, r)}
    BY <1>6 DEF Kind, Card, ThreadTools
  <2>2. card \in ThreadSchema \cup {None} /\ Schema(tool) = ThreadSchema
    BY <2>1 DEF ThreadCardDisplay, ThreadViewDisplay, ThreadSchema, Schema, OrderTools,
                ProfileTools, ThreadTools, TradeTools
  <2> QED
    BY <1>2, <2>1, <2>2 DEF Fits, ThreadTools
<1>7. CASE kind = "trade"
  <2>1. tool \in TradeTools /\ card = TradeDisplay(tool, r)
    BY <1>7 DEF Kind, Card
  <2>2. TradeDisplay(tool, r) \in TradeSchema \cup {None} /\ Schema(tool) = TradeSchema
    BY <2>1 DEF TradeDisplay, TradeSchema, Schema, OrderTools, ProfileTools,
                ThreadTools, TradeTools
  <2> QED
    BY <1>2, <2>1, <2>2 DEF Fits, TradeTools
<1>8. CASE kind = "service"
  <2>1. tool = "service" /\ card = ServiceDisplay(tool, r)
    BY <1>8 DEF Kind, Card
  <2>2. ServiceDisplay(tool, r) \in ServiceSchema \cup {None} /\ Schema(tool) = ServiceSchema
    BY <2>1 DEF ServiceDisplay, ServiceSchema, Schema, OrderTools, ProfileTools,
                ThreadTools, TradeTools
  <2> QED
    BY <1>2, <2>1, <2>2 DEF Fits
<1>9. CASE kind = "badge"
  <2>1. tool \in BadgeTools /\ card = BadgeDisplay(tool, r)
    BY <1>9 DEF Kind, Card
  <2>2. BadgeDisplay(tool, r) \in BadgeSchema \cup {None} /\ Schema(tool) = BadgeSchema
    BY <2>1 DEF BadgeDisplay, BadgeSchema, Schema, OrderTools, ProfileTools,
                ThreadTools, TradeTools, BadgeTools
  <2> QED
    BY <1>2, <2>1, <2>2 DEF Fits, BadgeTools
<1>10. CASE kind = "connect"
  <2>1. tool = "connect" /\ card = ConnectDisplay(tool, r)
    BY <1>10 DEF Kind, Card
  <2>2. ConnectDisplay(tool, r) \in ConnectSchema \cup {None} /\ Schema(tool) = ConnectSchema
    BY <2>1 DEF ConnectDisplay, ConnectSchema, Schema, OrderTools, ProfileTools,
                ThreadTools, TradeTools
  <2> QED
    BY <1>2, <2>1, <2>2 DEF Fits
<1>11. CASE kind = "payment"
  <2>1. ~r.found /\ tool \notin {"listings", "updates", "thread"} /\ card = PaymentDisplay(tool, r)
    BY <1>11 DEF Kind, Card
  <2>2. card = IF r.invoice THEN "payment-external-required" ELSE None
    BY <2>1 DEF PaymentDisplay, ListingDisplay, OrderDisplay, ThreadCardDisplay,
                ThreadViewDisplay
  <2>3. CASE r.invoice
    <3>1. tool = "book" => Schema(tool) = PaymentSchema
      BY DEF Schema, OrderTools, ProfileTools, ThreadTools, TradeTools
    <3>2. tool = "watch" => Schema(tool) = OrderSchema
      BY DEF Schema, OrderTools, ProfileTools, ThreadTools, TradeTools
    <3> QED
      BY <1>1, <1>2, <2>2, <2>3, <3>1, <3>2 DEF Fits, PaymentSchema, OrderSchema
  <2>4. CASE ~r.invoice
    BY <1>2, <2>2, <2>4 DEF Fits
  <2> QED
    BY <2>3, <2>4
<1> QED
  BY <1>2, <1>3, <1>4, <1>5, <1>6, <1>7, <1>8, <1>9, <1>10, <1>11 DEF Kinds

LEMMA GivenFits ==
    ASSUME NEW a \in Answers
    PROVE  (a.end = "schema" => a.tool = "book" /\ ~a.invoice) /\ a.alike
<1>1. PICK tool \in Tools : \E r \in Results(tool) : a = Given(tool, r)
  BY DEF Answers
<1>2. PICK r \in Results(tool) : a = Given(tool, r)
  BY <1>1
<1>3. /\ a.tool = tool /\ a.invoice = r.invoice /\ a.alike = Alike(tool, r)
      /\ a.end = "schema" => r.ok /\ ~Fits(tool, Display(tool, r))
  BY <1>2 DEF Given
<1> QED
  BY <1>3, AlwaysAlike, CardFits

-----------------------------------------------------------------------------
(***************************************************************************)
(* The theorems.                                                           *)
(***************************************************************************)

\* Nothing but a whole asset that is young enough is ever served, over every
\* crash, failed write and failed read (assets.ts).
THEOREM OnlyWholeAssets == Spec => []ServedRight
<1> QED
  BY Invariance, PTL

\* A link that an answer holds works for the 24 hours it was made for.
THEOREM LinksWork == Spec => []LinkWhole
<1>1. IInv => LinkWhole
  <2> SUFFICES ASSUME IInv, NEW i \in handed \ unread, clock - made[i].at <= MaxAge
               PROVE  Got(i, {}) = made[i]
    BY DEF LinkWhole
  <2>1. i \in Ids /\ FromDisk(i) = made[i] /\ made[i] # None /\ Sound(i, {})
    BY LinkSound
  <2>2. MemKept[i] # None => MemKept[i] = made[i]
    BY <2>1, MemKeptIs
  <2> QED
    BY <2>1, <2>2 DEF Got
<1> QED
  BY <1>1, Invariance, PTL

\* The tool was registered for the cards its answer is made of, apart from a
\* booking that needs no payment, and the four places that name them agree
\* (toolResponse and registerTool, mcp/server.ts).
THEOREM AnswersAlwaysFit == Spec => []AnswersFit
<1>1. Init => AnswersFit
  BY DEF Init, AnswersFit
<1>2. ASSUME AnswersFit, [Next]_answerVars PROVE AnswersFit'
  <2>1. CASE answer' \in {None, answer}
    BY <1>2, <2>1 DEF AnswersFit
  <2>2. ASSUME NEW a \in Answers, answer' = a \/ answer' = [a EXCEPT !.end = "store"]
        PROVE  AnswersFit'
    <3>1. a = [tool |-> a.tool, invoice |-> a.invoice, links |-> a.links,
               alike |-> a.alike, end |-> a.end]
      BY DEF Answers, Given
    <3> QED
      BY <2>2, <3>1, GivenFits DEF AnswersFit
  <2> QED
    BY <1>2, <2>1, <2>2
    DEF Next, answerVars, AnswerPlain, AnswerWithLinks, AnswerCut
<1> QED
  BY <1>1, <1>2, PTL DEF Spec
=============================================================================
