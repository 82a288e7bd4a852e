--------------------------- MODULE EscrowDaemonProofs ---------------------------
(***************************************************************************)
(* Theorems about module EscrowDaemon, for any set of trades.              *)
(***************************************************************************)
EXTENDS EscrowDaemon, TLAPS

-----------------------------------------------------------------------------
(***************************************************************************)
(* What the operators that every action is built from do.                  *)
(***************************************************************************)

\* The empty group is a group, and replacing one order of a group gives one.
LEMMA GroupsFacts ==
    /\ NoOrders \in Groups
    /\ \A g \in Groups, r \in Roles, s \in Stages : [g EXCEPT ![r] = s] \in Groups
  BY DEF NoOrders, Groups, Stages, Roles

\* Proceed moves one job to its next step, or ends it, and leaves the others
\* alone: the single job slot is per trade in step and snap.
LEMMA ProceedEffect ==
    ASSUME TypeOK, NEW t \in Trades, NEW s \in Steps, NEW g \in Groups, Proceed(t, s, g)
    PROVE  /\ step' \in [Trades -> Steps]
           /\ snap' \in [Trades -> Groups]
           /\ step'[t] = s
           /\ snap'[t] = IF s = "idle" THEN NoOrders ELSE g
           /\ \A u \in Trades : u # t => step'[u] = step[u] /\ snap'[u] = snap[u]
  BY GroupsFacts DEF Proceed, EndJob, Goto, TypeOK, Steps

\* EndJob frees the slot and leaves the other trades alone.
LEMMA EndJobEffect ==
    ASSUME TypeOK, NEW t \in Trades, EndJob(t)
    PROVE  /\ step' \in [Trades -> Steps]
           /\ snap' \in [Trades -> Groups]
           /\ step'[t] = "idle"
           /\ snap'[t] = NoOrders
           /\ \A u \in Trades : u # t => step'[u] = step[u] /\ snap'[u] = snap[u]
  BY GroupsFacts DEF EndJob, Goto, TypeOK, Steps

\* Store changes one role's order of one trade.
LEMMA StoreEffect ==
    ASSUME TypeOK, NEW t \in Trades, NEW r \in Roles, NEW s \in Stages, Store(t, r, s)
    PROVE  /\ relay' \in [Trades -> Groups]
           /\ triggers' \subseteq Trades \X Sources
           /\ relay'[t] = [relay[t] EXCEPT ![r] = s]
           /\ \A u \in Trades : u # t => relay'[u] = relay[u]
  <1>1. relay' = [relay EXCEPT ![t] = [relay[t] EXCEPT ![r] = s]]
    BY DEF Store
  <1>2. [relay[t] EXCEPT ![r] = s] \in Groups
    BY GroupsFacts DEF TypeOK
  <1>3. triggers' \subseteq Trades \X Sources
    BY DEF Store, Announced, TypeOK, Sources
  <1> QED
    BY <1>1, <1>2, <1>3 DEF TypeOK

\* The steps a job may be sent to are steps.
LEMMA StepsFacts ==
    ASSUME TypeOK, NEW t \in Trades, NEW g \in Groups, NEW h \in Groups
    PROVE  /\ OrdersFound(t) \in Groups
           /\ OrderNotice(t) \in {"idle", "tell buyer"}
           /\ FirstStep(t, g) \in Steps
           /\ Condemn(g) \in {"idle", "cancel"}
           /\ AfterReread(t, g, h) \in Steps
           /\ \A listing : AfterListing(t, listing) \in {"onchain", "reread", "cancel", "idle"}
  <1>1. OrdersFound(t) \in Groups
    BY DEF OrdersFound, TypeOK
  <1>2. OrderNotice(t) \in {"idle", "tell buyer"}
    BY DEF OrderNotice
  <1>3. g["escrow"] \in Stages
    BY DEF Groups, Roles
  <1>4. FirstStep(t, g) \in Steps
    BY <1>2, <1>3 DEF FirstStep, Stages, Steps
  <1>5. AfterReread(t, g, h) \in Steps
    BY <1>2, <1>3 DEF AfterReread, Stages, Steps
  <1>6. \A listing : AfterListing(t, listing) \in {"onchain", "reread", "cancel", "idle"}
    BY DEF AfterListing, Condemn
  <1> QED
    BY <1>1, <1>2, <1>4, <1>5, <1>6 DEF Condemn

-----------------------------------------------------------------------------
(***************************************************************************)
(* Type correctness.                                                       *)
(***************************************************************************)

\* The participants' orders, the chain and the calendar keep the types.
LEMMA WorldTyped ==
    ASSUME TypeOK, NEW t \in Trades, World(t) PROVE TypeOK'
  <1>1. CASE BuyerFunds(t)
    BY <1>1 DEF BuyerFunds, TypeOK, procVars
  <1>2. CASE BuyerCommits(t)
    BY <1>2, StoreEffect DEF BuyerCommits, TypeOK, Roles, Stages
  <1>3. CASE SellerConfirms(t)
    BY <1>3, StoreEffect DEF SellerConfirms, TypeOK, Roles, Stages
  <1>4. ASSUME NEW r \in {"buyer", "seller"}, ParticipantCancels(t, r) PROVE TypeOK'
    BY <1>4, StoreEffect DEF ParticipantCancels, TypeOK, Roles, Stages
  <1>5. CASE OperatorCancels(t)
    BY <1>5, StoreEffect DEF OperatorCancels, TypeOK, Roles, Stages
  <1>6. CASE StayEnds(t)
    BY <1>6 DEF StayEnds, TypeOK, procVars
  <1> QED
    BY <1>1, <1>2, <1>3, <1>4, <1>5, <1>6 DEF World

\* The steps of a job up to its verdict keep the types.
LEMMA DecisionTyped ==
    ASSUME TypeOK, NEW t \in Trades,
           \/ ReadGroup(t) \/ LoadListing(t) \/ VerifyAnswered(t) \/ VerifyPending(t)
           \/ Reread(t)
    PROVE  TypeOK'
  <1> USE DEF Steps
  <1>0. /\ OrdersFound(t) \in Groups /\ snap[t] \in Groups
        /\ FirstStep(t, OrdersFound(t)) \in Steps
        /\ Condemn(snap[t]) \in Steps
    BY StepsFacts DEF TypeOK
  <1>1. CASE ReadGroup(t)
    <2>1. CASE Proceed(t, FirstStep(t, OrdersFound(t)), OrdersFound(t))
      BY <1>0, <1>1, <2>1, ProceedEffect DEF ReadGroup, worldVars, TypeOK
    <2>2. CASE EndJob(t)
      BY <1>1, <2>2, EndJobEffect DEF ReadGroup, worldVars, TypeOK
    <2> QED
      BY <1>1, <2>1, <2>2 DEF ReadGroup
  <1>2. CASE LoadListing(t)
    <2>0. \A listing : AfterListing(t, listing) \in Steps
      BY <1>0, StepsFacts
    <2>1. step' \in [Trades -> Steps] /\ snap' \in [Trades -> Groups]
      BY <1>0, <1>2, <2>0, ProceedEffect, EndJobEffect DEF LoadListing
    <2>2. timers' \subseteq Trades
      BY <1>2 DEF LoadListing, TypeOK
    <2> QED
      BY <1>2, <2>1, <2>2 DEF LoadListing, worldVars, TypeOK
  <1>3. CASE VerifyAnswered(t)
    <2>1. ASSUME NEW s \in Steps, Proceed(t, s, snap[t]), timers' \subseteq Trades
          PROVE  TypeOK'
      BY <1>0, <1>3, <2>1, ProceedEffect DEF VerifyAnswered, worldVars, TypeOK
    <2>2. timers' \subseteq Trades
      BY <1>3 DEF VerifyAnswered, TypeOK
    <2> QED
      BY <1>0, <1>3, <2>1, <2>2 DEF VerifyAnswered
  <1>4. CASE VerifyPending(t)
    BY <1>4, EndJobEffect DEF VerifyPending, worldVars, TypeOK
  <1>5. CASE Reread(t)
    <2>1. ASSUME NEW latest \in {OrdersFound(t)} \cup {NoOrders},
                 NEW s \in Steps, NEW g \in Groups, Proceed(t, s, g)
          PROVE  TypeOK'
      BY <1>5, <2>1, ProceedEffect DEF Reread, worldVars, TypeOK
    <2>2. CASE EndJob(t)
      BY <1>5, <2>2, EndJobEffect DEF Reread, worldVars, TypeOK
    <2>3. CASE \E latest \in {OrdersFound(t)} \cup {NoOrders} :
                  LET next == AfterReread(t, latest, snap[t])
                  IN  Proceed(t, next, IF next = "confirm" THEN snap[t] ELSE latest)
      <3>1. PICK latest \in {OrdersFound(t)} \cup {NoOrders} :
                  Proceed(t, AfterReread(t, latest, snap[t]),
                          IF AfterReread(t, latest, snap[t]) = "confirm"
                          THEN snap[t] ELSE latest)
        BY <2>3
      <3>2. latest \in Groups
        BY <1>0, GroupsFacts
      <3>3. AfterReread(t, latest, snap[t]) \in Steps
        BY <1>0, <3>2, StepsFacts
      <3> QED
        BY <1>0, <2>1, <3>1, <3>2, <3>3
    <2> QED
      BY <1>5, <2>2, <2>3 DEF Reread
  <1> QED
    BY <1>1, <1>2, <1>3, <1>4, <1>5

\* What the return of a copy does: it stores what it carries, or is lost; and
\* when it is the second to return, the sending is over.
LEMMA CopyEffect ==
    ASSUME TypeOK, NEW t \in Trades, NEW c \in Copies, CopyReturns(t, c)
    PROVE  LET notice == <<t, NoticeAt(step[t])>>
           IN  /\ step[t] \in TellSteps /\ notice \in Trades \X Notices /\ wraps[c] = "out"
               /\ UNCHANGED <<relay, funding, terms, ended, crashes, up, triggers, timers>>
               /\ \/ delivered' = delivered
                  \/ c = "recipient" /\ delivered' = [delivered EXCEPT ![notice] = Again(@)]
               /\ archived' = archived \/ archived' = archived \cup {notice}
               /\ \/ /\ \E result \in {"stored", "failed"} : wraps' = [wraps EXCEPT ![c] = result]
                     /\ UNCHANGED <<lapsed, step, snap, seen>>
                  \/ /\ wraps' = NoWraps
                     /\ seen' = seen \cup {notice} /\ UNCHANGED lapsed /\ AfterNotice(t)
                  \/ /\ wraps' = NoWraps
                     /\ EndJob(t) /\ UNCHANGED seen
                     /\ lapsed' = IF delivered'[notice] > 0 THEN lapsed \cup {notice} ELSE lapsed
  <1> DEFINE notice == <<t, NoticeAt(step[t])>>
  <1>1. step[t] \in TellSteps /\ wraps[c] = "out"
    BY DEF CopyReturns
  <1>2. notice \in Trades \X Notices
    BY DEF NoticeAt, Notices
  <1>3. UNCHANGED <<relay, funding, terms, ended, crashes, up, triggers, timers>>
    BY DEF CopyReturns
  <1>4. PICK result \in {"stored", "failed"} :
            LET returned == [wraps EXCEPT ![c] = result]
            IN  /\ StoreCopy(notice, c) \/ UNCHANGED <<delivered, archived>>
                /\ \/ wraps' = returned /\ UNCHANGED <<lapsed, step, snap, seen>>
                   \/ NoticeEnds(t, notice, returned)
    BY DEF CopyReturns
  <1>5. StoreCopy(notice, c) =>
           \/ /\ c = "recipient" /\ delivered' = [delivered EXCEPT ![notice] = Again(@)]
              /\ archived' = archived
           \/ delivered' = delivered /\ archived' = archived \cup {notice}
    BY DEF StoreCopy
  <1>6. NoticeEnds(t, notice, [wraps EXCEPT ![c] = result]) =>
           /\ wraps' = NoWraps
           /\ \/ seen' = seen \cup {notice} /\ UNCHANGED lapsed /\ AfterNotice(t)
              \/ /\ EndJob(t) /\ UNCHANGED seen
                 /\ lapsed' = IF delivered'[notice] > 0 THEN lapsed \cup {notice} ELSE lapsed
    BY DEF NoticeEnds
  <1> HIDE DEF notice
  <1> QED
    BY <1>1, <1>2, <1>3, <1>4, <1>5, <1>6 DEF notice

\* Publishing a verdict, recording it and telling the participants keep the types.
LEMMA VerdictTyped ==
    ASSUME TypeOK, NEW t \in Trades,
           \/ \E stage \in {"commit", "cancel"} :
                 PublishVerdict(t, stage) \/ RecordTransition(t, stage)
           \/ SkipNotice(t) \/ SendNotice(t) \/ \E c \in Copies : CopyReturns(t, c)
    PROVE  TypeOK'
  <1> USE DEF Steps
  <1>0. snap[t] \in Groups
    BY DEF TypeOK
  <1>1. ASSUME NEW stage \in {"commit", "cancel"}, PublishVerdict(t, stage) PROVE TypeOK'
    <2>1. \/ relay' \in [Trades -> Groups] /\ triggers' \subseteq Trades \X Sources
          \/ UNCHANGED <<relay, triggers>>
      BY <1>1, StoreEffect DEF PublishVerdict, Roles, Stages
    <2>2. step' \in [Trades -> Steps] /\ snap' \in [Trades -> Groups]
      BY <1>0, <1>1, ProceedEffect, EndJobEffect DEF PublishVerdict
    <2> QED
      BY <1>1, <2>1, <2>2 DEF PublishVerdict, TypeOK
  <1>2. ASSUME NEW stage \in {"commit", "cancel"}, RecordTransition(t, stage) PROVE TypeOK'
    <2>1. step' \in [Trades -> Steps] /\ snap' \in [Trades -> Groups]
      BY <1>0, <1>2, ProceedEffect, EndJobEffect, StepsFacts, GroupsFacts DEF RecordTransition
    <2> QED
      BY <1>2, <2>1 DEF RecordTransition, TypeOK, worldVars
  <1>3. AfterNotice(t) => step' \in [Trades -> Steps] /\ snap' \in [Trades -> Groups]
    BY <1>0, ProceedEffect DEF AfterNotice
  <1>4. CASE SkipNotice(t)
    BY <1>3, <1>4 DEF SkipNotice, TypeOK, worldVars
  <1>5. CASE SendNotice(t)
    BY <1>5 DEF SendNotice, TypeOK, worldVars
  <1>6. ASSUME NEW c \in Copies, CopyReturns(t, c) PROVE TypeOK'
    <2> DEFINE notice == <<t, NoticeAt(step[t])>>
    <2>0. /\ notice \in Trades \X Notices
          /\ UNCHANGED <<relay, funding, terms, ended, crashes, up, triggers, timers>>
      BY <1>6, CopyEffect
    <2> HIDE DEF notice
    <2>1. delivered' \in [Trades \X Notices -> 0..2]
      <3>1. delivered' = delivered \/ delivered' = [delivered EXCEPT ![notice] = Again(@)]
        BY <1>6, CopyEffect DEF notice
      <3>2. Again(delivered[notice]) \in 0..2
        BY DEF Again
      <3> QED
        BY <2>0, <3>1, <3>2 DEF TypeOK
    <2>2. archived' \subseteq Trades \X Notices
      <3>1. archived' = archived \/ archived' = archived \cup {notice}
        BY <1>6, CopyEffect DEF notice
      <3> QED
        BY <2>0, <3>1 DEF TypeOK
    <2>3. seen' \subseteq Trades \X Notices /\ lapsed' \subseteq Trades \X Notices
      <3>1. /\ seen' = seen \/ seen' = seen \cup {notice}
            /\ lapsed' = lapsed \/ lapsed' = lapsed \cup {notice}
        BY <1>6, CopyEffect DEF notice
      <3> QED
        BY <2>0, <3>1 DEF TypeOK
    <2>4. step' \in [Trades -> Steps] /\ snap' \in [Trades -> Groups]
      <3>1. UNCHANGED <<step, snap>> \/ AfterNotice(t) \/ EndJob(t)
        BY <1>6, CopyEffect
      <3> QED
        BY <1>3, <3>1, EndJobEffect DEF TypeOK
    <2>5. wraps' \in [Copies -> {"none", "out", "stored", "failed"}]
      <3>1. \/ \E result \in {"stored", "failed"} : wraps' = [wraps EXCEPT ![c] = result]
            \/ wraps' = NoWraps
        BY <1>6, CopyEffect
      <3> QED
        BY <3>1 DEF TypeOK, NoWraps
    <2> QED
      BY <2>0, <2>1, <2>2, <2>3, <2>4, <2>5 DEF TypeOK
  <1> QED
    BY <1>1, <1>2, <1>4, <1>5, <1>6

\* The timers, the threads and the process keep the types.
LEMMA ProcessTyped ==
    ASSUME TypeOK,
           \/ \E t \in Trades : Start(t) \/ RetryFires(t)
           \/ HydrateThread \/ Crash \/ Restart
    PROVE  TypeOK'
  <1>1. ASSUME NEW t \in Trades, Start(t) PROVE TypeOK'
    BY <1>1 DEF Start, Goto, TypeOK, worldVars, Steps
  <1>2. ASSUME NEW t \in Trades, RetryFires(t) PROVE TypeOK'
    BY <1>2 DEF RetryFires, TypeOK, worldVars, Sources
  <1>3. CASE HydrateThread
    <2>1. seen' \subseteq Trades \X Notices
      BY <1>3 DEF HydrateThread, TypeOK
    <2> QED
      BY <1>3, <2>1 DEF HydrateThread, TypeOK, worldVars
  <1>4. CASE Crash
    <2>1. crashes' \in 0..MaxCrashes
      BY <1>4, MaxCrashesAssumption DEF Crash, TypeOK
    <2>2. lapsed' \subseteq Trades \X Notices
      BY <1>4 DEF Crash, TypeOK, Unarchived
    <2>3. /\ step' \in [Trades -> Steps] /\ snap' \in [Trades -> Groups]
          /\ wraps' \in [Copies -> {"none", "out", "stored", "failed"}]
      BY <1>4, GroupsFacts DEF Crash, Steps, NoWraps
    <2> QED
      BY <1>4, <2>1, <2>2, <2>3 DEF Crash, TypeOK
  <1>5. CASE Restart
    <2>1. Replayed \subseteq Trades \X Sources
      BY DEF Replayed, Sources
    <2>2. seen' \subseteq archived
      BY <1>5 DEF Restart
    <2> QED
      BY <1>5, <2>1, <2>2 DEF Restart, TypeOK
  <1> QED
    BY <1>1, <1>2, <1>3, <1>4, <1>5

\* Every variable keeps its type in every step.
LEMMA TypeStep == TypeOK /\ [Next]_vars => TypeOK'
  <1> SUFFICES ASSUME TypeOK, [Next]_vars PROVE TypeOK'
    OBVIOUS
  <1>1. ASSUME NEW t \in Trades, World(t) \/ Start(t) \/ JobStep(t) \/ RetryFires(t)
        PROVE  TypeOK'
    BY <1>1, WorldTyped, DecisionTyped, VerdictTyped, ProcessTyped DEF JobStep
  <1>2. CASE HydrateThread \/ Crash \/ Restart
    BY <1>2, ProcessTyped
  <1>3. CASE UNCHANGED vars
    BY <1>3 DEF vars, TypeOK
  <1> QED
    BY <1>1, <1>2, <1>3 DEF Next

\* Nobody has done anything yet.
LEMMA InitTyped == Init => TypeOK
  BY GroupsFacts, MaxCrashesAssumption DEF Init, TypeOK, Steps, NoWraps

\* Type correctness: whatever the participants, the chain, faults and crashes
\* do, the daemon's state stays what the code's types say it is.
THEOREM TypeCorrect == Spec => []TypeOK
  <1>1. Init => TypeOK
    BY InitTyped
  <1> QED
    BY <1>1, TypeStep, PTL DEF Spec

-----------------------------------------------------------------------------
(***************************************************************************)
(* What each kind of step may change of the state the promises are about.  *)
(***************************************************************************)

\* The world never takes evidence back: settled funding stays, a seller who
\* published stays on record, and only an operator touches the escrow's order.
LEMMA WorldEffect ==
    ASSUME TypeOK, NEW t \in Trades, World(t)
    PROVE  /\ UNCHANGED <<terms, step, snap, delivered>>
           /\ \A u \in Trades :
                 /\ funding[u] # "pending" => funding'[u] = funding[u]
                 /\ relay[u]["seller"] # "none" => relay'[u]["seller"] # "none"
                 /\ \/ relay'[u]["escrow"] = relay[u]["escrow"]
                    \/ "operator" \in Moves /\ relay'[u]["escrow"] = "cancel"
  <1> DEFINE Kept(u) ==
                 /\ relay[u]["seller"] # "none" => relay'[u]["seller"] # "none"
                 /\ \/ relay'[u]["escrow"] = relay[u]["escrow"]
                    \/ "operator" \in Moves /\ relay'[u]["escrow"] = "cancel"
  <1>1. ASSUME NEW r \in Roles, NEW s \in Stages, Store(t, r, s), s # "none",
               r = "escrow" => "operator" \in Moves /\ s = "cancel",
               NEW u \in Trades
        PROVE  Kept(u)
    <2>1. relay'[t] = [relay[t] EXCEPT ![r] = s] /\ (u # t => relay'[u] = relay[u])
      BY <1>1, StoreEffect
    <2>2. relay[t] \in [Roles -> Stages]
      BY DEF TypeOK, Groups
    <2> QED
      BY <1>1, <2>1, <2>2 DEF Roles
  <1> HIDE DEF Kept
  <1>2. CASE BuyerFunds(t)
    BY <1>2 DEF BuyerFunds, procVars, TypeOK
  <1>3. CASE BuyerCommits(t)
    BY <1>1, <1>3 DEF BuyerCommits, Roles, Stages, Kept
  <1>4. CASE SellerConfirms(t)
    BY <1>1, <1>4 DEF SellerConfirms, Roles, Stages, Kept
  <1>5. ASSUME NEW r \in {"buyer", "seller"}, ParticipantCancels(t, r)
        PROVE  UNCHANGED <<terms, step, snap, delivered, funding>> /\ \A u \in Trades : Kept(u)
    BY <1>1, <1>5 DEF ParticipantCancels, Roles, Stages
  <1>6. CASE OperatorCancels(t)
    BY <1>1, <1>6 DEF OperatorCancels, Roles, Stages, Kept
  <1>7. CASE StayEnds(t)
    BY <1>7 DEF StayEnds, procVars
  <1> QED
    BY <1>2, <1>3, <1>4, <1>5, <1>6, <1>7 DEF World, Kept

\* The process around the jobs changes nothing in the world, and leaves every
\* job where it is, before its first answer, or gone.
LEMMA ProcessEffect ==
    ASSUME TypeOK,
           \/ \E t \in Trades : Start(t) \/ RetryFires(t)
           \/ HydrateThread \/ Crash \/ Restart
    PROVE  /\ UNCHANGED <<relay, funding, terms, delivered>>
           /\ \A u \in Trades :
                 \/ step'[u] = step[u] /\ snap'[u] = snap[u]
                 \/ step[u] = "idle" /\ step'[u] = "read" /\ snap'[u] = snap[u]
                 \/ step'[u] = "idle" /\ snap'[u] = NoOrders
  <1>1. ASSUME NEW t \in Trades, Start(t)
        PROVE  /\ UNCHANGED <<relay, funding, terms, delivered, snap>>
               /\ \A u \in Trades : \/ step'[u] = step[u]
                                    \/ step[u] = "idle" /\ step'[u] = "read"
    BY <1>1 DEF Start, SlotFree, Goto, TypeOK, worldVars
  <1>2. ASSUME NEW t \in Trades, RetryFires(t)
        PROVE  UNCHANGED <<relay, funding, terms, delivered, step, snap>>
    BY <1>2 DEF RetryFires, worldVars
  <1>3. CASE HydrateThread \/ Restart
    BY <1>3 DEF HydrateThread, Restart, worldVars
  <1>4. CASE Crash
    BY <1>4 DEF Crash
  <1> QED
    BY <1>1, <1>2, <1>3, <1>4

\* A step of a job changes neither the evidence nor another trade, and of its
\* own trade only what PublishVerdict and CopyReturns change.
LEMMA JobEffect ==
    ASSUME TypeOK, NEW t \in Trades, JobStep(t)
    PROVE  /\ UNCHANGED <<funding, terms>>
           /\ \A u \in Trades : u # t =>
                 /\ relay'[u] = relay[u] /\ step'[u] = step[u] /\ snap'[u] = snap[u]
                 /\ \A n \in Notices : delivered'[<<u, n>>] = delivered[<<u, n>>]
           /\ \/ relay' = relay
              \/ \E stage \in {"commit", "cancel"} :
                    PublishVerdict(t, stage) /\ Store(t, "escrow", stage)
           /\ delivered' = delivered \/ \E c \in Copies : CopyReturns(t, c)
  <1> DEFINE Others == \A u \in Trades : u # t => step'[u] = step[u] /\ snap'[u] = snap[u]
  <1> USE DEF Steps
  <1>0. /\ OrdersFound(t) \in Groups /\ snap[t] \in Groups
        /\ FirstStep(t, OrdersFound(t)) \in Steps
        /\ Condemn(snap[t]) \in Steps
        /\ OrderNotice(t) \in Steps
        /\ \A g \in Groups : AfterReread(t, g, snap[t]) \in Steps
        /\ \A listing : AfterListing(t, listing) \in Steps
    BY StepsFacts DEF TypeOK
  <1>1. EndJob(t) => Others
    BY EndJobEffect
  <1>2. ASSUME NEW s \in Steps, NEW g \in Groups, Proceed(t, s, g) PROVE Others
    BY <1>2, ProceedEffect
  <1> HIDE DEF Others
  <1>3. CASE ReadGroup(t) \/ LoadListing(t) \/ VerifyAnswered(t) \/ VerifyPending(t)
    <2>1. Others
      BY <1>0, <1>1, <1>2, <1>3 DEF ReadGroup, LoadListing, VerifyAnswered, VerifyPending
    <2>2. UNCHANGED worldVars
      BY <1>3 DEF ReadGroup, LoadListing, VerifyAnswered, VerifyPending
    <2> QED
      BY <2>1, <2>2 DEF worldVars, Others
  <1>4. CASE Reread(t)
    <2>1. Others
      BY <1>0, <1>1, <1>2, <1>4, GroupsFacts DEF Reread
    <2>2. UNCHANGED worldVars
      BY <1>4 DEF Reread
    <2> QED
      BY <2>1, <2>2 DEF worldVars, Others
  <1>5. ASSUME NEW stage \in {"commit", "cancel"}, PublishVerdict(t, stage)
        PROVE  /\ Others
               /\ UNCHANGED <<funding, terms, delivered>>
               /\ \/ relay' = relay
                  \/ /\ Store(t, "escrow", stage)
                     /\ \A u \in Trades : u # t => relay'[u] = relay[u]
    <2>1. Others
      BY <1>0, <1>1, <1>2, <1>5 DEF PublishVerdict
    <2> QED
      BY <1>5, <2>1, StoreEffect DEF PublishVerdict, Roles, Stages
  <1>6. ASSUME NEW stage \in {"commit", "cancel"}, RecordTransition(t, stage)
        PROVE  Others /\ UNCHANGED <<funding, terms, delivered, relay>>
    BY <1>0, <1>1, <1>2, <1>6 DEF RecordTransition, worldVars
  <1>7. AfterNotice(t) => Others
    BY <1>0, <1>2 DEF AfterNotice
  <1>8. CASE SkipNotice(t)
    BY <1>7, <1>8 DEF SkipNotice, worldVars, Others
  <1>9. CASE SendNotice(t)
    BY <1>9 DEF SendNotice, worldVars, Others
  <1>10. ASSUME NEW c \in Copies, CopyReturns(t, c)
         PROVE  /\ Others /\ UNCHANGED <<funding, terms, relay>>
                /\ \A u \in Trades, n \in Notices :
                      u # t => delivered'[<<u, n>>] = delivered[<<u, n>>]
    <2> DEFINE notice == <<t, NoticeAt(step[t])>>
    <2>1. /\ UNCHANGED <<funding, terms, relay>>
          /\ UNCHANGED <<step, snap>> \/ AfterNotice(t) \/ EndJob(t)
      BY <1>10, CopyEffect
    <2>2. UNCHANGED <<step, snap>> => Others
      BY DEF Others
    <2>3. delivered' = delivered \/ delivered' = [delivered EXCEPT ![notice] = Again(@)]
      BY <1>10, CopyEffect
    <2>4. \A u \in Trades, n \in Notices : u # t => <<u, n>> # notice
      OBVIOUS
    <2> HIDE DEF notice
    <2>5. \A u \in Trades, n \in Notices : u # t => delivered'[<<u, n>>] = delivered[<<u, n>>]
      BY <2>3, <2>4 DEF TypeOK
    <2> QED
      BY <1>1, <1>7, <2>1, <2>2, <2>5
  <1> QED
    BY <1>3, <1>4, <1>5, <1>6, <1>8, <1>9, <1>10 DEF JobStep, Others

-----------------------------------------------------------------------------
(***************************************************************************)
(* Nothing is confirmed without the money.  ConfirmOnlyIfFunded says       *)
(* nothing of the steps between the chain's answer and the broadcast; the  *)
(* inductive invariant adds that the money is there during them, and that  *)
(* a job under way is about an order the chain can be asked about: without *)
(* an escrow proof a forced verification passes and asks nobody.           *)
(***************************************************************************)
FundedInv ==
    /\ TypeOK
    /\ \A t \in Trades :
          /\ step[t] \in {"reread", "confirm"} \/ Verdict(t) = "commit" => funding[t] = "funded"
          /\ step[t] = "listing" => MayRule(t, snap[t])

\* A forced check takes no order of anybody in place of the chain's answer.
LEMMA ForcedOnChain ==
    ASSUME NEW g, NEW answer
    PROVE  /\ OnChainResult(g, TRUE, answer).valid <=> answer = "funded"
           /\ answer # "funded" => OnChainResult(g, TRUE, answer).reason = answer
  BY DEF OnChainResult, Valid, Invalid

\* The chain's answer to one job: the way to the re-read is the money.
LEMMA AnswerEffect ==
    ASSUME TypeOK, NEW t \in Trades, VerifyAnswered(t)
    PROVE  /\ step[t] = "onchain" /\ step'[t] \in {"reread", "cancel", "idle"}
           /\ step'[t] = "reread" => funding[t] = "funded"
           /\ step'[t] = "cancel" => funding[t] = "short" /\ ~Cancelled(snap[t])
           /\ snap'[t] = IF step'[t] = "idle" THEN NoOrders ELSE snap[t]
  <1> DEFINE result(a) == OnChainResult(snap[t], TRUE, a)
             next(a)   == IF result(a).valid THEN "reread" ELSE Condemn(snap[t])
  <1>1. PICK answer \in ChainAnswersOf(t) :
            ~IsRetryable(result(answer).reason) /\ Proceed(t, next(answer), snap[t])
    BY DEF VerifyAnswered
  <1>2. snap[t] \in Groups /\ Condemn(snap[t]) \in {"idle", "cancel"}
    BY StepsFacts DEF TypeOK
  <1>3. step[t] = "onchain"
    BY DEF VerifyAnswered
  <1>4. CASE answer = "funded"
    <2>1. Proceed(t, "reread", snap[t])
      <3>1. next(answer) = "reread"
        BY <1>4, ForcedOnChain
      <3> HIDE DEF next
      <3> QED
        BY <1>1, <3>1
    <2>2. funding[t] = "funded"
      BY <1>4 DEF ChainAnswersOf, TypeOK
    <2> QED
      BY <1>2, <1>3, <2>1, <2>2, ProceedEffect DEF Steps
  <1>5. CASE answer # "funded"
    <2>1. ~IsRetryable(answer) /\ Proceed(t, Condemn(snap[t]), snap[t])
      <3>1. result(answer).reason = answer
        BY <1>5, ForcedOnChain
      <3>2. next(answer) = Condemn(snap[t])
        BY <1>5, ForcedOnChain
      <3> HIDE DEF next, result
      <3> QED
        BY <1>1, <3>1, <3>2
    <2>2. funding[t] = "short"
      BY <1>5, <2>1 DEF ChainAnswersOf, IsRetryable, TypeOK
    <2> QED
      BY <1>2, <1>3, <2>1, <2>2, ProceedEffect DEF Steps, Condemn
  <1> QED
    BY <1>4, <1>5

\* A forced check of the Nostr-level rules says Valid of the group a job holds.
Passes(t, listing) == VerifyGroup(snap[t], listing, TRUE, WellFormed(terms[t].proof)).valid

\* The seller pre-authorised or published, and the proof is well formed, when a
\* forced check of a buyer's group that is not cancelled says Valid; one of
\* the two is missing when it says Invalid.
LEMMA ForcedGroup ==
    ASSUME NEW t, snap[t] \in Groups, snap[t]["buyer"] = "commit", NEW listing
    PROVE  LET g == snap[t]
               sound == WellFormed(terms[t].proof)
           IN  /\ Passes(t, listing) =>
                     Cancelled(g) \/ (sound /\ (listing # "manual" \/ g["seller"] # "none"))
               /\ ~Passes(t, listing) =>
                     ~Cancelled(g) /\ (~sound \/ listing = "manual")
  <1> DEFINE g == snap[t]
             sound == WellFormed(terms[t].proof)
  <1>1. CASE Cancelled(g)
    BY <1>1 DEF Passes, VerifyGroup, Valid
  <1>2. CASE ~Cancelled(g)
    <2>1. Passes(t, listing) <=> VerifyBuyer(g, listing, sound).valid
      BY <1>2 DEF Passes, VerifyGroup
    <2>2. VerifyBuyer(g, listing, sound).valid
            <=> sound /\ ~(g["seller"] = "none" /\ listing = "manual")
      BY DEF VerifyBuyer, Valid, Invalid
    <2> QED
      BY <1>2, <2>1, <2>2
  <1> QED
    BY <1>1, <1>2

\* The first answers of a job: what it starts on, and what sends it to
\* Orders.cancel before the chain is asked.
LEMMA EarlyEffect ==
    ASSUME TypeOK, NEW t \in Trades, ReadGroup(t) \/ LoadListing(t) \/ VerifyPending(t)
    PROVE  \/ step'[t] = "idle" /\ snap'[t] = NoOrders
           \/ /\ step[t] = "read" /\ snap'[t] = relay[t]
              /\ \/ step'[t] = "tell buyer" /\ Verdict(t) = "commit"
                 \/ step'[t] = "tell cancelled" /\ Verdict(t) = "cancel"
                 \/ step'[t] = "listing" /\ Verdict(t) = "none" /\ MayRule(t, relay[t])
           \/ /\ step[t] = "listing" /\ snap'[t] = snap[t]
              /\ step'[t] = "onchain" \/ (step'[t] = "reread" /\ ~MayRule(t, snap[t]))
              /\ \E listing \in ListingsOf(t) : Passes(t, listing)
           \/ /\ step[t] = "listing" /\ snap'[t] = snap[t]
              /\ step'[t] = "cancel"
              /\ \E listing \in ListingsOf(t) : ~Passes(t, listing)
  <1>0. relay[t] \in Groups /\ snap[t] \in Groups /\ OrdersFound(t) = relay[t]
    BY DEF TypeOK, OrdersFound
  <1>1. CASE ReadGroup(t)
    <2> DEFINE next == FirstStep(t, relay[t])
    <2>1. relay[t]["escrow"] \in Stages
      BY <1>0 DEF Groups, Roles
    <2>2. \/ next = "idle"
          \/ next = "tell buyer" /\ Verdict(t) = "commit"
          \/ next = "tell cancelled" /\ Verdict(t) = "cancel"
          \/ next = "listing" /\ Verdict(t) = "none" /\ MayRule(t, relay[t])
      BY <2>1 DEF FirstStep, OrderNotice, Stages, Verdict
    <2>3. step[t] = "read" /\ (Proceed(t, next, relay[t]) \/ EndJob(t))
      BY <1>0, <1>1 DEF ReadGroup
    <2> HIDE DEF next
    <2>4. next \in Steps
      BY <2>2 DEF Steps
    <2>5. \/ step'[t] = next /\ snap'[t] = IF next = "idle" THEN NoOrders ELSE relay[t]
          \/ step'[t] = "idle" /\ snap'[t] = NoOrders
      BY <1>0, <2>3, <2>4, ProceedEffect, EndJobEffect
    <2> QED
      BY <2>2, <2>3, <2>5
  <1>2. CASE LoadListing(t)
    <2>1. CASE EndJob(t)
      BY <2>1, EndJobEffect
    <2>2. ASSUME NEW listing \in ListingsOf(t), Proceed(t, AfterListing(t, listing), snap[t])
          PROVE  \/ step'[t] = "idle" /\ snap'[t] = NoOrders
                 \/ /\ step'[t] = "onchain" \/ (step'[t] = "reread" /\ ~MayRule(t, snap[t]))
                    /\ snap'[t] = snap[t] /\ Passes(t, listing)
                 \/ step'[t] = "cancel" /\ snap'[t] = snap[t] /\ ~Passes(t, listing)
      <3>1. \/ AfterListing(t, listing) = "onchain" /\ Passes(t, listing)
            \/ AfterListing(t, listing) = "reread" /\ Passes(t, listing) /\ ~MayRule(t, snap[t])
            \/ AfterListing(t, listing) \in {"idle", "cancel"} /\ ~Passes(t, listing)
        <4>1. MayRule(t, snap[t]) => NeedsOnChain(snap[t], TRUE, terms[t].proof)
          BY DEF MayRule, NeedsOnChain
        <4>2. Condemn(snap[t]) \in {"idle", "cancel"}
          BY DEF Condemn
        <4>3. AfterListing(t, listing) =
                 IF ~Passes(t, listing) THEN Condemn(snap[t])
                 ELSE IF NeedsOnChain(snap[t], TRUE, terms[t].proof) THEN "onchain" ELSE "reread"
          BY DEF AfterListing, Passes
        <4> QED
          BY <4>1, <4>2, <4>3
      <3> DEFINE next == AfterListing(t, listing)
      <3>2. Proceed(t, next, snap[t]) /\ next \in Steps
        BY <2>2, <3>1 DEF Steps
      <3> HIDE DEF next
      <3>3. step'[t] = next /\ snap'[t] = IF next = "idle" THEN NoOrders ELSE snap[t]
        BY <1>0, <3>2, ProceedEffect
      <3>4. /\ step'[t] = AfterListing(t, listing)
            /\ snap'[t] = IF AfterListing(t, listing) = "idle" THEN NoOrders ELSE snap[t]
        BY <3>3 DEF next
      <3> QED
        BY <3>1, <3>4
    <2>3. EndJob(t) \/ \E listing \in ListingsOf(t) :
                          Proceed(t, AfterListing(t, listing), snap[t])
      BY <1>2 DEF LoadListing
    <2>4. step[t] = "listing"
      BY <1>2 DEF LoadListing
    <2> QED
      BY <2>1, <2>2, <2>3, <2>4
  <1>3. CASE VerifyPending(t)
    BY <1>3, EndJobEffect DEF VerifyPending
  <1> QED
    BY <1>1, <1>2, <1>3

\* The re-read leads to Orders.confirm, to a notice or nowhere.
LEMMA RereadEffect ==
    ASSUME TypeOK, NEW t \in Trades, Reread(t)
    PROVE  /\ step[t] = "reread"
           /\ \/ step'[t] = "idle" /\ snap'[t] = NoOrders
              \/ step'[t] = "confirm" /\ snap'[t] = snap[t] /\ ~Cancelled(snap[t])
              \/ step'[t] = "tell buyer" /\ Verdict(t) = "commit" /\ snap'[t] = relay[t]
              \/ step'[t] = "tell cancelled" /\ Verdict(t) = "cancel" /\ snap'[t] = relay[t]
  <1>1. step[t] = "reread"
    BY DEF Reread
  <1>2. CASE EndJob(t)
    BY <1>1, <1>2, EndJobEffect
  <1>3. ASSUME NEW latest \in {relay[t], NoOrders},
               Proceed(t, AfterReread(t, latest, snap[t]),
                       IF AfterReread(t, latest, snap[t]) = "confirm" THEN snap[t] ELSE latest)
        PROVE  \/ step'[t] = "idle" /\ snap'[t] = NoOrders
               \/ step'[t] = "confirm" /\ snap'[t] = snap[t] /\ ~Cancelled(snap[t])
               \/ step'[t] = "tell buyer" /\ Verdict(t) = "commit" /\ snap'[t] = relay[t]
               \/ step'[t] = "tell cancelled" /\ Verdict(t) = "cancel" /\ snap'[t] = relay[t]
    <2> DEFINE next == AfterReread(t, latest, snap[t])
    <2>1. latest \in Groups /\ snap[t] \in Groups /\ NoOrders["escrow"] = "none"
      BY <1>3, GroupsFacts DEF TypeOK, NoOrders, Roles
    <2>2. latest["escrow"] \in Stages
      BY <2>1 DEF Groups, Roles
    <2>3. \/ next = "idle"
          \/ next = "confirm" /\ ~Cancelled(snap[t])
          \/ next = "tell buyer" /\ latest["escrow"] = "commit"
          \/ next = "tell cancelled" /\ latest["escrow"] = "cancel"
      BY <2>2 DEF AfterReread, OrderNotice, Stages
    <2> HIDE DEF next
    <2>4. next \in Steps
      BY <2>3 DEF Steps
    <2>5. /\ step'[t] = next
          /\ snap'[t] = IF next = "idle" THEN NoOrders
                        ELSE IF next = "confirm" THEN snap[t] ELSE latest
      BY <1>3, <2>1, <2>4, ProceedEffect DEF next
    <2> QED
      BY <2>1, <2>3, <2>5, <1>3 DEF Verdict
  <1> QED
    BY <1>1, <1>2, <1>3 DEF Reread, OrdersFound

\* The broadcast of a verdict stores it, or fails and ends the job.
LEMMA PublishEffect ==
    ASSUME TypeOK, NEW t \in Trades, NEW stage \in {"commit", "cancel"},
           PublishVerdict(t, stage)
    PROVE  /\ step[t] = IF stage = "commit" THEN "confirm" ELSE "cancel"
           /\ \/ /\ relay'[t] = [relay[t] EXCEPT !["escrow"] = stage]
                 /\ Verdict(t)' = stage /\ relay'[t]["seller"] = relay[t]["seller"]
                 /\ \/ step'[t] = "idle" /\ snap'[t] = NoOrders
                    \/ /\ step'[t] = IF stage = "commit" THEN "record confirm" ELSE "record cancel"
                       /\ snap'[t] = snap[t]
              \/ UNCHANGED relay /\ step'[t] = "idle" /\ snap'[t] = NoOrders
           /\ UNCHANGED <<funding, terms, delivered>>
  <1>1. snap[t] \in Groups /\ relay[t] \in [Roles -> Stages]
    BY DEF TypeOK, Groups
  <1>2. Store(t, "escrow", stage) =>
           /\ relay'[t] = [relay[t] EXCEPT !["escrow"] = stage]
           /\ Verdict(t)' = stage /\ relay'[t]["seller"] = relay[t]["seller"]
    <2> SUFFICES ASSUME Store(t, "escrow", stage)
                 PROVE  /\ relay'[t] = [relay[t] EXCEPT !["escrow"] = stage]
                        /\ relay'[t]["escrow"] = stage
                        /\ relay'[t]["seller"] = relay[t]["seller"]
      BY DEF Verdict
    <2>1. relay'[t] = [relay[t] EXCEPT !["escrow"] = stage]
      BY StoreEffect DEF Roles, Stages
    <2> QED
      BY <1>1, <2>1 DEF Roles
  <1>3. Proceed(t, IF stage = "commit" THEN "record confirm" ELSE "record cancel", snap[t]) =>
           /\ step'[t] = IF stage = "commit" THEN "record confirm" ELSE "record cancel"
           /\ snap'[t] = snap[t]
    BY <1>1, ProceedEffect DEF Steps
  <1> QED
    BY <1>2, <1>3, EndJobEffect DEF PublishVerdict

\* The steps that reach neither a decision nor a verdict.
LEMMA OtherStepsEffect ==
    ASSUME TypeOK, NEW t \in Trades,
           \/ \E stage \in {"commit", "cancel"} : RecordTransition(t, stage)
           \/ SkipNotice(t) \/ SendNotice(t) \/ \E c \in Copies : CopyReturns(t, c)
    PROVE  /\ UNCHANGED <<relay, funding, terms>>
           /\ \/ step'[t] = "idle" /\ snap'[t] = NoOrders
              \/ step'[t] = step[t] /\ snap'[t] = snap[t]
              \/ step[t] \in {"record confirm", "tell buyer"}
                   /\ step'[t] \in {"tell buyer", "tell seller"} /\ snap'[t] = snap[t]
              \/ step[t] = "record cancel" /\ step'[t] = "tell cancelled" /\ snap'[t] = snap[t]
  <1>1. snap[t] \in Groups /\ OrderNotice(t) \in {"idle", "tell buyer"}
    BY StepsFacts DEF TypeOK
  <1>2. ASSUME NEW s \in Steps, Proceed(t, s, snap[t])
        PROVE  step'[t] = s /\ snap'[t] = IF s = "idle" THEN NoOrders ELSE snap[t]
    BY <1>1, <1>2, ProceedEffect
  <1>3. ASSUME NEW stage \in {"commit", "cancel"}, RecordTransition(t, stage)
        PROVE  \/ step'[t] = "idle" /\ snap'[t] = NoOrders
               \/ step[t] \in {"record confirm", "tell buyer"}
                    /\ step'[t] \in {"tell buyer", "tell seller"} /\ snap'[t] = snap[t]
               \/ step[t] = "record cancel" /\ step'[t] = "tell cancelled" /\ snap'[t] = snap[t]
    BY <1>1, <1>2, <1>3, EndJobEffect DEF RecordTransition, Steps
  <1>4. AfterNotice(t) =>
               \/ step'[t] = "idle" /\ snap'[t] = NoOrders
               \/ step[t] = "tell buyer" /\ step'[t] = "tell seller" /\ snap'[t] = snap[t]
    BY <1>2 DEF AfterNotice, Steps
  <1>5. CASE SkipNotice(t) \/ SendNotice(t)
    BY <1>4, <1>5 DEF SkipNotice, SendNotice, worldVars
  <1>6. ASSUME NEW c \in Copies, CopyReturns(t, c)
        PROVE  /\ UNCHANGED <<relay, funding, terms>>
               /\ \/ UNCHANGED <<step, snap>>
                  \/ step'[t] = "idle" /\ snap'[t] = NoOrders
                  \/ step[t] = "tell buyer" /\ step'[t] = "tell seller" /\ snap'[t] = snap[t]
    <2>1. /\ UNCHANGED <<relay, funding, terms>>
          /\ UNCHANGED <<step, snap>> \/ AfterNotice(t) \/ EndJob(t)
      BY <1>6, CopyEffect
    <2> QED
      BY <1>4, <2>1, EndJobEffect
  <1> QED
    BY <1>3, <1>5, <1>6 DEF RecordTransition, worldVars

\* No step leads to a re-read, a confirmation or a confirmed order without
\* the money: one case per kind of step.
LEMMA FundedStep == FundedInv /\ [Next]_vars => FundedInv'
  <1> DEFINE Asks(u) == step[u] = "listing" => MayRule(u, snap[u])
             Paid(u) == step[u] \in {"reread", "confirm"} \/ relay[u]["escrow"] = "commit"
                           => funding[u] = "funded"
  <1> SUFFICES ASSUME FundedInv, [Next]_vars, NEW u \in Trades PROVE Paid(u)' /\ Asks(u)'
    BY TypeStep DEF FundedInv, Verdict
  <1>0. TypeOK /\ Paid(u) /\ Asks(u)
    BY DEF FundedInv, Verdict
  <1>1. ASSUME NEW t \in Trades, World(t) PROVE Paid(u)' /\ Asks(u)'
    BY <1>0, <1>1, WorldEffect DEF MayRule
  <1>2. ASSUME \/ \E t \in Trades : Start(t) \/ RetryFires(t)
               \/ HydrateThread \/ Crash \/ Restart
        PROVE  Paid(u)' /\ Asks(u)'
    BY <1>0, <1>2, ProcessEffect DEF MayRule
  <1>3. ASSUME NEW t \in Trades, JobStep(t) PROVE Paid(u)' /\ Asks(u)'
    <2>0. UNCHANGED <<funding, terms>>
      BY <1>0, <1>3, JobEffect
    <2>1. CASE u # t
      BY <1>0, <1>3, <2>0, <2>1, JobEffect DEF MayRule
    <2>2. CASE u = t /\ VerifyAnswered(t)
      BY <1>0, <2>0, <2>2, AnswerEffect DEF VerifyAnswered, worldVars
    <2>3. CASE u = t /\ Reread(t)
      BY <1>0, <2>0, <2>3, RereadEffect DEF Verdict
    <2>4. ASSUME u = t, NEW stage \in {"commit", "cancel"}, PublishVerdict(t, stage)
          PROVE  Paid(u)' /\ Asks(u)'
      BY <1>0, <2>0, <2>4, PublishEffect DEF Verdict
    <2>5. CASE /\ u = t
               /\ \/ \E stage \in {"commit", "cancel"} : RecordTransition(t, stage)
                  \/ SkipNotice(t) \/ SendNotice(t) \/ \E c \in Copies : CopyReturns(t, c)
      BY <1>0, <2>0, <2>5, OtherStepsEffect DEF MayRule
    <2>6. CASE u = t /\ (ReadGroup(t) \/ LoadListing(t) \/ VerifyPending(t))
      <3>1. UNCHANGED relay
        BY <2>6 DEF ReadGroup, LoadListing, VerifyPending, worldVars
      <3>2. \/ step'[t] \notin {"listing", "reread", "confirm"}
            \/ step'[t] = "listing" /\ snap'[t] = relay[t] /\ MayRule(t, relay[t])
        BY <1>0, <2>6, EarlyEffect
      <3> QED
        BY <1>0, <2>0, <2>6, <3>1, <3>2 DEF MayRule
    <2> QED
      BY <1>3, <2>1, <2>2, <2>3, <2>4, <2>5, <2>6 DEF JobStep
  <1>4. CASE UNCHANGED vars
    BY <1>0, <1>4 DEF vars, MayRule
  <1> QED
    BY <1>1, <1>2, <1>3, <1>4 DEF Next

\* A confirmed order has its money in escrow, for any set of trades, whatever
\* fails, crashes or retries lie behind it, and whoever else holds the key.
THEOREM FundedWhenConfirmed == Spec => []ConfirmOnlyIfFunded
  <1>1. Init => FundedInv
    <2> SUFFICES ASSUME Init PROVE FundedInv
      OBVIOUS
    <2>1. TypeOK
      BY InitTyped
    <2> QED
      BY <2>1 DEF Init, FundedInv, Verdict, NoOrders, Roles
  <1>2. FundedInv => ConfirmOnlyIfFunded
    BY DEF FundedInv, ConfirmOnlyIfFunded
  <1> QED
    BY <1>1, <1>2, FundedStep, PTL DEF Spec

(***************************************************************************)
(* The daemon alone with the escrow's key.  The other promises need two    *)
(* facts of the deployment: nobody else signs with the escrow's key, and   *)
(* the lookup of a listing finds it.                                       *)
(***************************************************************************)
Alone == "operator" \notin Moves /\ "noListing" \notin Faults

\* A reason to cancel that no later event takes away.
Grounds(t) == funding[t] = "short" \/ ~WellFormed(terms[t].proof) \/ ~terms[t].autoAccept

Deciding   == {"listing", "onchain", "reread", "confirm", "cancel"}
Confirmed  == {"record confirm", "tell buyer", "tell seller"}
Condemned  == {"record cancel", "tell cancelled"}

\* What a job knows at each of its steps: while it decides, the escrow has no
\* order on the relay; what it read of the seller is still there; past the
\* checks the evidence is complete; past the verdict the relay has it.
JobSound(t) ==
    /\ step[t] \in Deciding => Verdict(t) = "none" /\ MayRule(t, snap[t])
    /\ snap[t]["seller"] # "none" => relay[t]["seller"] # "none"
    /\ step[t] \in {"onchain", "reread", "confirm"} /\ ~Cancelled(snap[t]) =>
          WellFormed(terms[t].proof) /\ (terms[t].autoAccept \/ snap[t]["seller"] # "none")
    /\ step[t] \in {"reread", "confirm"} => funding[t] = "funded"
    /\ step[t] = "confirm" => ~Cancelled(snap[t])
    /\ step[t] = "cancel" => Grounds(t)
    /\ step[t] \in Confirmed => Verdict(t) = "commit"
    /\ step[t] \in Condemned => Verdict(t) = "cancel"

\* What a verdict on the relay rests on, and what a notice rests on.
VerdictSound(t) ==
    /\ Verdict(t) = "commit" =>
          /\ funding[t] = "funded"
          /\ WellFormed(terms[t].proof)
          /\ terms[t].autoAccept \/ relay[t]["seller"] # "none"
    /\ Verdict(t) = "cancel" => Grounds(t)

NoticesSound(t) ==
    /\ delivered[<<t, "placed buyer">>] > 0 => Verdict(t) = "commit"
    /\ delivered[<<t, "placed seller">>] > 0 => Verdict(t) = "commit"
    /\ delivered[<<t, "cancelled buyer">>] > 0 => Verdict(t) = "cancel"

IInv ==
    /\ TypeOK
    /\ \A t \in Trades : JobSound(t) /\ VerdictSound(t) /\ NoticesSound(t)

\* A notice that was not there before is the one the job's step sends.
LEMMA SendEffect ==
    ASSUME TypeOK, NEW t \in Trades, NEW c \in Copies, CopyReturns(t, c), NEW n \in Notices,
           delivered'[<<t, n>>] # delivered[<<t, n>>]
    PROVE  step[t] \in TellSteps /\ n = NoticeAt(step[t])
  <1> DEFINE notice == <<t, NoticeAt(step[t])>>
  <1>1. /\ step[t] \in TellSteps
        /\ delivered' = delivered \/ delivered' = [delivered EXCEPT ![notice] = Again(@)]
    BY CopyEffect
  <1>2. n # NoticeAt(step[t]) => <<t, n>> # notice
    OBVIOUS
  <1> HIDE DEF notice
  <1>3. n # NoticeAt(step[t]) => delivered'[<<t, n>>] = delivered[<<t, n>>]
    BY <1>1, <1>2 DEF TypeOK
  <1> QED
    BY <1>1, <1>3

\* What the world does to a trade disturbs nothing the daemon relies on.
LEMMA WorldSound ==
    ASSUME Alone, IInv, NEW t \in Trades, World(t), NEW u \in Trades
    PROVE  (JobSound(u) /\ VerdictSound(u) /\ NoticesSound(u))'
  <1>1. TypeOK /\ JobSound(u) /\ VerdictSound(u) /\ NoticesSound(u)
    BY DEF IInv
  <1>2. /\ UNCHANGED <<terms, step, snap, delivered>>
        /\ funding[u] # "pending" => funding'[u] = funding[u]
        /\ relay[u]["seller"] # "none" => relay'[u]["seller"] # "none"
        /\ relay'[u]["escrow"] = relay[u]["escrow"]
    BY <1>1, WorldEffect DEF Alone
  <1>3. JobSound(u)'
    BY <1>1, <1>2 DEF JobSound, Grounds, Verdict, MayRule
  <1>4. VerdictSound(u)'
    BY <1>1, <1>2 DEF VerdictSound, Grounds, Verdict
  <1>5. NoticesSound(u)'
    BY <1>1, <1>2 DEF NoticesSound, Verdict
  <1> QED
    BY <1>3, <1>4, <1>5

\* Neither does starting, losing or restarting a job.
LEMMA ProcessSound ==
    ASSUME IInv,
           \/ \E t \in Trades : Start(t) \/ RetryFires(t)
           \/ HydrateThread \/ Crash \/ Restart,
           NEW u \in Trades
    PROVE  (JobSound(u) /\ VerdictSound(u) /\ NoticesSound(u))'
  <1>1. TypeOK /\ JobSound(u) /\ VerdictSound(u) /\ NoticesSound(u)
    BY DEF IInv
  <1>2. /\ UNCHANGED <<relay, funding, terms, delivered>>
        /\ \/ step'[u] = step[u] /\ snap'[u] = snap[u]
           \/ step[u] = "idle" /\ step'[u] = "read" /\ snap'[u] = snap[u]
           \/ step'[u] = "idle" /\ snap'[u] = NoOrders
    BY <1>1, ProcessEffect
  <1>3. NoOrders["seller"] = "none"
    BY DEF NoOrders, Roles
  <1>4. JobSound(u)'
    BY <1>1, <1>2, <1>3 DEF JobSound, Grounds, Verdict, MayRule, Deciding, Confirmed, Condemned
  <1>5. VerdictSound(u)' /\ NoticesSound(u)'
    BY <1>1, <1>2 DEF VerdictSound, NoticesSound, Grounds, Verdict
  <1> QED
    BY <1>4, <1>5

\* A job's step leaves the other trades as sound as they were.
LEMMA OtherTradeSound ==
    ASSUME IInv, NEW t \in Trades, JobStep(t), NEW u \in Trades, u # t
    PROVE  (JobSound(u) /\ VerdictSound(u) /\ NoticesSound(u))'
  <1>1. TypeOK /\ JobSound(u) /\ VerdictSound(u) /\ NoticesSound(u)
    BY DEF IInv
  <1>2. /\ UNCHANGED <<funding, terms>>
        /\ relay'[u] = relay[u] /\ step'[u] = step[u] /\ snap'[u] = snap[u]
        /\ \A n \in Notices : delivered'[<<u, n>>] = delivered[<<u, n>>]
    BY <1>1, JobEffect
  <1>3. JobSound(u)' /\ VerdictSound(u)'
    BY <1>1, <1>2 DEF JobSound, VerdictSound, Grounds, Verdict, MayRule
  <1>4. NoticesSound(u)'
    BY <1>1, <1>2 DEF NoticesSound, Verdict, Notices
  <1> QED
    BY <1>3, <1>4

\* What a job does to its own trade: it decides only on evidence it holds.
LEMMA JobKnows ==
    ASSUME Alone, IInv, NEW t \in Trades, JobStep(t)
    PROVE  JobSound(t)'
  <1>1. TypeOK /\ JobSound(t)
    BY DEF IInv
  <1>2. NoOrders["seller"] = "none" /\ UNCHANGED <<funding, terms>>
    BY <1>1, JobEffect DEF NoOrders, Roles
  <1> USE DEF Deciding, Confirmed, Condemned
  <1>3. CASE ReadGroup(t) \/ LoadListing(t) \/ VerifyPending(t)
    <2>1. UNCHANGED relay
      BY <1>3 DEF ReadGroup, LoadListing, VerifyPending, worldVars
    <2>2. CASE step'[t] = "idle" /\ snap'[t] = NoOrders
      BY <1>2, <2>2 DEF JobSound
    <2>3. CASE /\ step[t] = "read" /\ snap'[t] = relay[t]
               /\ \/ step'[t] = "tell buyer" /\ Verdict(t) = "commit"
                  \/ step'[t] = "tell cancelled" /\ Verdict(t) = "cancel"
                  \/ step'[t] = "listing" /\ Verdict(t) = "none" /\ MayRule(t, relay[t])
      BY <1>2, <2>1, <2>3 DEF JobSound, Verdict, MayRule
    <2>4. ASSUME step[t] = "listing", snap'[t] = snap[t], NEW listing \in ListingsOf(t),
                 \/ step'[t] = "onchain" /\ Passes(t, listing)
                 \/ step'[t] = "cancel" /\ ~Passes(t, listing)
          PROVE  JobSound(t)'
      <3>1. snap[t] \in Groups /\ snap[t]["buyer"] = "commit"
        BY <1>1, <2>4 DEF TypeOK, JobSound, MayRule
      <3>2. listing # "manual" <=> terms[t].autoAccept
        BY DEF Alone, ListingsOf, Fails
      <3>3. /\ Passes(t, listing) =>
                  \/ Cancelled(snap[t])
                  \/ WellFormed(terms[t].proof) /\ (listing # "manual" \/ snap[t]["seller"] # "none")
            /\ ~Passes(t, listing) =>
                  ~Cancelled(snap[t]) /\ (~WellFormed(terms[t].proof) \/ listing = "manual")
        BY <3>1, ForcedGroup
      <3> QED
        BY <1>1, <1>2, <2>1, <2>4, <3>2, <3>3 DEF JobSound, Grounds, Verdict, Cancelled, MayRule
    <2>5. \/ step'[t] = "idle" /\ snap'[t] = NoOrders
          \/ /\ step[t] = "read" /\ snap'[t] = relay[t]
             /\ \/ step'[t] = "tell buyer" /\ Verdict(t) = "commit"
                \/ step'[t] = "tell cancelled" /\ Verdict(t) = "cancel"
                \/ step'[t] = "listing" /\ Verdict(t) = "none" /\ MayRule(t, relay[t])
          \/ /\ step[t] = "listing" /\ snap'[t] = snap[t]
             /\ \E listing \in ListingsOf(t) :
                   \/ step'[t] = "onchain" /\ Passes(t, listing)
                   \/ step'[t] = "cancel" /\ ~Passes(t, listing)
      <3>1. step[t] = "listing" => MayRule(t, snap[t])
        BY <1>1 DEF JobSound
      <3> QED
        BY <1>1, <1>3, <3>1, EarlyEffect
    <2> QED
      BY <2>2, <2>3, <2>4, <2>5
  <1>4. CASE VerifyAnswered(t)
    <2>1. UNCHANGED relay
      BY <1>4 DEF VerifyAnswered, worldVars
    <2> QED
      BY <1>1, <1>2, <1>4, <2>1, AnswerEffect DEF JobSound, Grounds, Verdict, Cancelled, MayRule
  <1>5. CASE Reread(t)
    <2>1. UNCHANGED relay
      BY <1>5 DEF Reread, worldVars
    <2> QED
      BY <1>1, <1>2, <1>5, <2>1, RereadEffect DEF JobSound, Grounds, Verdict, Cancelled, MayRule
  <1>6. ASSUME NEW stage \in {"commit", "cancel"}, PublishVerdict(t, stage)
        PROVE  JobSound(t)'
    BY <1>1, <1>2, <1>6, PublishEffect DEF JobSound, Grounds, Verdict, Cancelled, MayRule
  <1>7. CASE \/ \E stage \in {"commit", "cancel"} : RecordTransition(t, stage)
             \/ SkipNotice(t) \/ SendNotice(t) \/ \E c \in Copies : CopyReturns(t, c)
    BY <1>1, <1>2, <1>7, OtherStepsEffect DEF JobSound, Grounds, Verdict, Cancelled, MayRule
  <1> QED
    BY <1>3, <1>4, <1>5, <1>6, <1>7 DEF JobStep

\* A job publishes its verdict where there is none, and on the evidence it
\* holds; it tells a participant only of the verdict that is there.
LEMMA JobPublishes ==
    ASSUME IInv, NEW t \in Trades, JobStep(t)
    PROVE  /\ VerdictSound(t)' /\ NoticesSound(t)'
           /\ Verdict(t) # "none" => Verdict(t)' = Verdict(t)
  <1>1. TypeOK /\ JobSound(t) /\ VerdictSound(t) /\ NoticesSound(t)
    BY DEF IInv
  <1>2. UNCHANGED <<funding, terms>>
    BY <1>1, JobEffect
  <1>3. CASE relay' = relay
    <2>1. VerdictSound(t)' /\ Verdict(t)' = Verdict(t)
      BY <1>1, <1>2, <1>3 DEF VerdictSound, Grounds, Verdict
    <2>2. CASE delivered' = delivered
      BY <1>1, <1>3, <2>1, <2>2 DEF NoticesSound
    <2>3. ASSUME NEW c \in Copies, CopyReturns(t, c) PROVE NoticesSound(t)'
      <3>1. \A n \in Notices : delivered'[<<t, n>>] # delivered[<<t, n>>] =>
               step[t] \in TellSteps /\ n = NoticeAt(step[t])
        BY <1>1, <2>3, SendEffect
      <3>2. /\ delivered'[<<t, "placed buyer">>] # delivered[<<t, "placed buyer">>] =>
                  step[t] = "tell buyer"
            /\ delivered'[<<t, "placed seller">>] # delivered[<<t, "placed seller">>] =>
                  step[t] = "tell seller"
            /\ delivered'[<<t, "cancelled buyer">>] # delivered[<<t, "cancelled buyer">>] =>
                  step[t] = "tell cancelled"
        BY <3>1 DEF Notices, NoticeAt, TellSteps
      <3> QED
        BY <1>1, <2>1, <3>2 DEF NoticesSound, JobSound, Confirmed, Condemned
    <2> QED
      BY <1>1, <2>1, <2>2, <2>3, JobEffect
  <1>4. ASSUME NEW stage \in {"commit", "cancel"}, PublishVerdict(t, stage), relay' # relay
        PROVE  /\ VerdictSound(t)' /\ NoticesSound(t)'
               /\ Verdict(t) # "none" => Verdict(t)' = Verdict(t)
    <2>1. /\ step[t] = IF stage = "commit" THEN "confirm" ELSE "cancel"
          /\ Verdict(t)' = stage /\ relay'[t]["seller"] = relay[t]["seller"]
          /\ UNCHANGED <<funding, terms, delivered>>
      BY <1>1, <1>4, PublishEffect
    <2>2. Verdict(t) = "none"
      BY <1>1, <2>1 DEF JobSound, Deciding
    <2>3. VerdictSound(t)'
      BY <1>1, <2>1 DEF VerdictSound, JobSound, Grounds, Verdict
    <2>4. NoticesSound(t)'
      BY <1>1, <2>1, <2>2 DEF NoticesSound
    <2> QED
      BY <2>2, <2>3, <2>4
  <1> QED
    BY <1>1, <1>3, <1>4, JobEffect

\* The strengthened invariant is inductive when the daemon is alone.
LEMMA SoundStep ==
    ASSUME Alone PROVE IInv /\ [Next]_vars => IInv'
  <1> SUFFICES ASSUME IInv, [Next]_vars, NEW u \in Trades
               PROVE  (JobSound(u) /\ VerdictSound(u) /\ NoticesSound(u))'
    BY TypeStep DEF IInv
  <1>1. ASSUME NEW t \in Trades, World(t)
        PROVE  (JobSound(u) /\ VerdictSound(u) /\ NoticesSound(u))'
    BY <1>1, WorldSound
  <1>2. ASSUME \/ \E t \in Trades : Start(t) \/ RetryFires(t)
               \/ HydrateThread \/ Crash \/ Restart
        PROVE  (JobSound(u) /\ VerdictSound(u) /\ NoticesSound(u))'
    BY <1>2, ProcessSound
  <1>3. ASSUME NEW t \in Trades, JobStep(t)
        PROVE  (JobSound(u) /\ VerdictSound(u) /\ NoticesSound(u))'
    <2>1. CASE u = t
      <3>1. JobSound(t)'
        BY <1>3, JobKnows
      <3>2. VerdictSound(t)' /\ NoticesSound(t)'
        BY <1>3, JobPublishes
      <3> QED
        BY <2>1, <3>1, <3>2
    <2>2. CASE u # t
      BY <1>3, <2>2, OtherTradeSound
    <2> QED
      BY <2>1, <2>2
  <1>4. CASE UNCHANGED vars
    BY <1>4 DEF vars, IInv, JobSound, VerdictSound, NoticesSound, Grounds, Verdict, MayRule
  <1> QED
    BY <1>1, <1>2, <1>3, <1>4 DEF Next

\* It holds at the start, when nobody has published anything.
LEMMA SoundInit == Init => IInv
  <1> SUFFICES ASSUME Init, NEW u \in Trades
               PROVE  TypeOK /\ JobSound(u) /\ VerdictSound(u) /\ NoticesSound(u)
    BY InitTyped DEF IInv
  <1>1. TypeOK
    BY InitTyped
  <1>2. /\ step[u] = "idle" /\ snap[u]["seller"] = "none" /\ relay[u]["escrow"] = "none"
    BY DEF Init, NoOrders, Roles
  <1>3. JobSound(u) /\ VerdictSound(u)
    BY <1>2 DEF JobSound, VerdictSound, Verdict, Deciding, Confirmed, Condemned
  <1>4. NoticesSound(u)
    <2>1. \A n \in Notices : ~(delivered[<<u, n>>] > 0)
      BY DEF Init
    <2>2. /\ ~(delivered[<<u, "placed buyer">>] > 0)
          /\ ~(delivered[<<u, "placed seller">>] > 0)
          /\ ~(delivered[<<u, "cancelled buyer">>] > 0)
      BY <2>1 DEF Notices
    <2> QED
      BY <2>2 DEF NoticesSound
  <1> QED
    BY <1>1, <1>3, <1>4

\* The invariant the safety theorems rest on.
THEOREM DaemonSound ==
    ASSUME Alone PROVE Spec => []IInv
  <1>1. IInv /\ [Next]_vars => IInv'
    BY SoundStep
  <1> QED
    BY <1>1, SoundInit, PTL DEF Spec

\* A confirmed order is one the seller agreed to, in advance or by an order.
THEOREM AuthorisedWhenConfirmed ==
    ASSUME Alone PROVE Spec => []AuthorisedConfirm
  <1>1. IInv => AuthorisedConfirm
    BY DEF IInv, VerdictSound, AuthorisedConfirm
  <1> QED
    BY <1>1, DaemonSound, PTL

\* A cancelled order is one that nothing could have made good: missing money
\* and an unreachable chain are never the reason.
THEOREM GroundsWhenCancelled ==
    ASSUME Alone PROVE Spec => []CancelOnlyWithGrounds
  <1>1. IInv => CancelOnlyWithGrounds
    BY DEF IInv, VerdictSound, Grounds, CancelOnlyWithGrounds
  <1> QED
    BY <1>1, DaemonSound, PTL

\* A participant was told only what the relay says, and says for good.
THEOREM NoticesTrue ==
    ASSUME Alone PROVE Spec => []NoticeMatchesVerdict
  <1>1. IInv => NoticeMatchesVerdict
    BY DEF IInv, NoticesSound, NoticeMatchesVerdict
  <1> QED
    BY <1>1, DaemonSound, PTL

\* No step replaces the escrow's order: one verdict per trade, over restarts.
LEMMA VerdictStays ==
    ASSUME Alone, IInv, [Next]_vars, NEW u \in Trades, Verdict(u) # "none"
    PROVE  Verdict(u)' = Verdict(u)
  <1>1. TypeOK
    BY DEF IInv
  <1>2. ASSUME NEW t \in Trades, World(t) PROVE Verdict(u)' = Verdict(u)
    BY <1>1, <1>2, WorldEffect DEF Alone, Verdict
  <1>3. ASSUME \/ \E t \in Trades : Start(t) \/ RetryFires(t)
               \/ HydrateThread \/ Crash \/ Restart
        PROVE  Verdict(u)' = Verdict(u)
    BY <1>1, <1>3, ProcessEffect DEF Verdict
  <1>4. ASSUME NEW t \in Trades, JobStep(t) PROVE Verdict(u)' = Verdict(u)
    <2>1. CASE u = t
      BY <1>4, <2>1, JobPublishes
    <2>2. CASE u # t
      BY <1>1, <1>4, <2>2, JobEffect DEF Verdict
    <2> QED
      BY <2>1, <2>2
  <1>5. CASE UNCHANGED vars
    BY <1>5 DEF vars, Verdict
  <1> QED
    BY <1>2, <1>3, <1>4, <1>5 DEF Next

\* The verdict on the relay is final, although every restart and every retry
\* processes every stored order again.
THEOREM VerdictIsFinal ==
    ASSUME Alone PROVE Spec => VerdictFinal
  <1>1. IInv /\ [Next]_vars =>
           [\A t \in Trades : Verdict(t) # "none" => relay'[t]["escrow"] = Verdict(t)]_vars
    BY VerdictStays DEF Verdict
  <1> QED
    BY <1>1, DaemonSound, PTL DEF Spec, VerdictFinal

-----------------------------------------------------------------------------
(***************************************************************************)
(* An operator at work beside the daemon.  This time anybody may hold the  *)
(* escrow's key; what is needed is that a re-read finds the orders that    *)
(* are stored.                                                             *)
(***************************************************************************)
\* Once a cancellation is stored and no confirmation is past its re-read, no
\* step brings one there or replaces the cancellation.
LEMMA CancelledStep ==
    ASSUME "read" \notin Faults, NEW u \in Trades
    PROVE  TypeOK /\ CancelledForGood(u) /\ [Next]_vars => CancelledForGood(u)'
  <1> SUFFICES ASSUME TypeOK, CancelledForGood(u), [Next]_vars PROVE CancelledForGood(u)'
    OBVIOUS
  <1>0. relay[u]["escrow"] = "cancel" /\ step[u] # "confirm"
    BY DEF CancelledForGood, Verdict
  <1> SUFFICES relay'[u]["escrow"] = "cancel" /\ step'[u] # "confirm"
    BY DEF CancelledForGood, Verdict
  <1>1. ASSUME NEW t \in Trades, World(t)
        PROVE  relay'[u]["escrow"] = "cancel" /\ step'[u] # "confirm"
    BY <1>0, <1>1, WorldEffect
  <1>2. ASSUME \/ \E t \in Trades : Start(t) \/ RetryFires(t)
               \/ HydrateThread \/ Crash \/ Restart
        PROVE  relay'[u]["escrow"] = "cancel" /\ step'[u] # "confirm"
    BY <1>0, <1>2, ProcessEffect
  <1>3. ASSUME NEW t \in Trades, JobStep(t)
        PROVE  relay'[u]["escrow"] = "cancel" /\ step'[u] # "confirm"
    <2>1. CASE u # t
      BY <1>0, <1>3, <2>1, JobEffect
    <2>2. CASE u = t /\ (ReadGroup(t) \/ LoadListing(t) \/ VerifyPending(t))
      <3>1. step'[t] # "confirm"
        BY <2>2, EarlyEffect
      <3> QED
        BY <1>0, <2>2, <3>1 DEF ReadGroup, LoadListing, VerifyPending, worldVars
    <2>3. CASE u = t /\ VerifyAnswered(t)
      <3>1. step'[t] # "confirm"
        BY <2>3, AnswerEffect
      <3> QED
        BY <1>0, <2>3, <3>1 DEF VerifyAnswered, worldVars
    <2>4. CASE u = t /\ Reread(t)
      <3>1. UNCHANGED relay
        BY <2>4 DEF Reread, worldVars
      <3> DEFINE next == AfterReread(t, relay[t], snap[t])
      <3>2. next = "tell cancelled"
        BY <1>0, <2>4 DEF AfterReread
      <3>3. EndJob(t) \/ Proceed(t, next, IF next = "confirm" THEN snap[t] ELSE relay[t])
        BY <2>4 DEF Reread, OrdersFound, Fails
      <3> HIDE DEF next
      <3>4. EndJob(t) \/ Proceed(t, "tell cancelled", relay[t])
        BY <3>2, <3>3
      <3>5. step'[t] \in {"idle", "tell cancelled"}
        BY <3>4, EndJobEffect, ProceedEffect DEF TypeOK, Steps
      <3> QED
        BY <1>0, <2>4, <3>1, <3>5
    <2>5. ASSUME u = t, NEW stage \in {"commit", "cancel"}, PublishVerdict(t, stage)
          PROVE  relay'[u]["escrow"] = "cancel" /\ step'[u] # "confirm"
      BY <1>0, <2>5, PublishEffect DEF Verdict
    <2>6. CASE /\ u = t
               /\ \/ \E stage \in {"commit", "cancel"} : RecordTransition(t, stage)
                  \/ SkipNotice(t) \/ SendNotice(t) \/ \E c \in Copies : CopyReturns(t, c)
      BY <1>0, <2>6, OtherStepsEffect
    <2> QED
      BY <1>3, <2>1, <2>2, <2>3, <2>4, <2>5, <2>6 DEF JobStep
  <1>4. CASE UNCHANGED vars
    BY <1>0, <1>4 DEF vars
  <1> QED
    BY <1>1, <1>2, <1>3, <1>4 DEF Next

\* An operator's cancellation that no confirmation was already past its
\* re-read for is final: the re-read of _processGroup is what guards it.
THEOREM OperatorIsFinal ==
    ASSUME "read" \notin Faults PROVE Spec => OperatorCancelFinal
  <1>1. TypeOK /\ [Next]_vars =>
           [\A t \in Trades : CancelledForGood(t) => CancelledForGood(t)']_vars
    BY CancelledStep
  <1> QED
    BY <1>1, TypeCorrect, PTL DEF Spec, OperatorCancelFinal

-----------------------------------------------------------------------------
(***************************************************************************)
(* Nobody is told twice but where the daemon could not know.  NoticesOnce  *)
(* alone is not inductive.  What keeps a daemon from telling again is that *)
(* it knows each notice that was delivered, or is still waiting for the    *)
(* other copy of it, or has lapsed; and what keeps a restarted one from it *)
(* is that each delivered notice left a copy with the escrow or lapsed.    *)
(* There is one job, so that only its own steps touch the wraps on their   *)
(* way.  No call need succeed for this and nothing is asked of the threads.*)
(***************************************************************************)
Sending(t, n) == step[t] \in TellSteps /\ n = NoticeAt(step[t]) /\ wraps # NoWraps

\* What the daemon knows of a notice: its recipient has nothing while its copy
\* is the first one under way, and a recipient who has it is known to have it.
Accounted(t, n) ==
    LET notice == <<t, n>>
    IN  \/ notice \in lapsed
        \/ delivered[notice] = 0
        \/ up /\ (notice \in seen \/ (Sending(t, n) /\ wraps["recipient"] # "out"))
        \/ ~up /\ notice \in archived

Untold(t, n) ==
    Sending(t, n) /\ wraps["recipient"] = "out" =>
        <<t, n>> \in lapsed \/ delivered[<<t, n>>] = 0

OneJob ==
    /\ \A t, u \in Trades : step[t] # "idle" /\ step[u] # "idle" => t = u
    /\ wraps # NoWraps => \E t \in Trades : step[t] \in TellSteps
    /\ ~up => \A t \in Trades : step[t] = "idle"

OnceInv ==
    /\ TypeOK
    /\ OneJob
    /\ NoticesOnce
    /\ \A t \in Trades, n \in Notices : Accounted(t, n) /\ Untold(t, n)

\* While a job is under way the process is up, and every other trade is idle.
LEMMA OnlyJob ==
    ASSUME OneJob, NEW t \in Trades, step[t] # "idle"
    PROVE  up /\ \A u \in Trades : u # t => step[u] = "idle"
  BY DEF OneJob

\* A step that leaves alone what the notices depend on.
LEMMA OnceKept ==
    ASSUME OnceInv, TypeOK', UNCHANGED <<delivered, archived, lapsed, up, seen, step, wraps>>
    PROVE  OnceInv'
  BY DEF OnceInv, OneJob, NoticesOnce, Accounted, Untold, Sending

\* A step of a job other than the sending itself: no wrap is on its way.
LEMMA OnceElsewhere ==
    ASSUME OnceInv, TypeOK', NEW t \in Trades, JobStep(t),
           ~SendNotice(t), \A c \in Copies : ~CopyReturns(t, c)
    PROVE  OnceInv'
  <1> USE DEF TellSteps
  <1>1. /\ UNCHANGED <<delivered, archived, lapsed, up, seen, wraps>>
        /\ step[t] # "idle" /\ (step[t] \in TellSteps => wraps = NoWraps)
    <2>1. CASE ReadGroup(t) \/ LoadListing(t) \/ VerifyAnswered(t) \/ VerifyPending(t) \/ Reread(t)
      BY <2>1 DEF ReadGroup, LoadListing, VerifyAnswered, VerifyPending, Reread, worldVars
    <2>2. ASSUME NEW stage \in {"commit", "cancel"},
                 PublishVerdict(t, stage) \/ RecordTransition(t, stage)
          PROVE  /\ UNCHANGED <<delivered, archived, lapsed, up, seen, wraps>>
                 /\ step[t] # "idle" /\ step[t] \notin TellSteps
      BY <2>2 DEF PublishVerdict, RecordTransition, worldVars
    <2>3. CASE SkipNotice(t)
      BY <2>3 DEF SkipNotice, worldVars
    <2> QED
      BY <2>1, <2>2, <2>3 DEF JobStep
  <1>2. /\ up /\ \A u \in Trades : u # t => step[u] = "idle"
        /\ \A u \in Trades : u # t => step'[u] = "idle"
    BY <1>1, OnlyJob, JobEffect DEF OnceInv
  <1>3. wraps = NoWraps
    BY <1>1, <1>2 DEF OnceInv, OneJob
  <1>4. OneJob'
    BY <1>1, <1>2, <1>3 DEF OneJob
  <1>5. ASSUME NEW u \in Trades, NEW n \in Notices PROVE Accounted(u, n)' /\ Untold(u, n)'
    <2>1. Accounted(u, n) /\ ~Sending(u, n) /\ ~Sending(u, n)'
      BY <1>1, <1>3 DEF OnceInv, Sending
    <2> QED
      BY <1>1, <2>1 DEF Accounted, Untold
  <1> QED
    BY <1>1, <1>4, <1>5 DEF OnceInv, NoticesOnce

\* Both wraps go out: the daemon did not know the notice, so that nobody has
\* it, or it had lapsed.
LEMMA OnceSends ==
    ASSUME OnceInv, TypeOK', NEW t \in Trades, SendNotice(t)
    PROVE  OnceInv'
  <1>1. /\ UNCHANGED <<delivered, archived, lapsed, up, seen, step>>
        /\ step[t] \in TellSteps /\ wraps = NoWraps
        /\ <<t, NoticeAt(step[t])>> \notin seen
    BY DEF SendNotice, worldVars, AlreadySent
  <1>2. up /\ \A u \in Trades : u # t => step[u] \notin TellSteps
    BY <1>1, OnlyJob DEF OnceInv, TellSteps
  <1>3. OneJob'
    BY <1>1 DEF OnceInv, OneJob
  <1>4. ASSUME NEW u \in Trades, NEW n \in Notices PROVE Accounted(u, n)' /\ Untold(u, n)'
    <2>1. Accounted(u, n) /\ ~Sending(u, n)
      BY <1>1 DEF OnceInv, Sending
    <2>2. Accounted(u, n)'
      BY <1>1, <2>1 DEF Accounted
    <2>3. Untold(u, n)'
      BY <1>1, <1>2, <2>1 DEF Accounted, Untold, Sending
    <2> QED
      BY <2>2, <2>3
  <1> QED
    BY <1>1, <1>3, <1>4 DEF OnceInv, NoticesOnce

\* The return of a copy: the recipient's is the first the recipient gets, or
\* the notice had lapsed; and when the sending is over the daemon knows of it,
\* or it lapses.
LEMMA OnceReturns ==
    ASSUME OnceInv, TypeOK', NEW t \in Trades, NEW c \in Copies, CopyReturns(t, c)
    PROVE  OnceInv'
  <1>0. TypeOK
    BY DEF OnceInv
  <1> PICK own \in Notices : own = NoticeAt(step[t])
    BY DEF Notices, NoticeAt
  <1> DEFINE notice == <<t, own>>
  <1>1. /\ step[t] \in TellSteps /\ wraps[c] = "out" /\ wraps # NoWraps
        /\ UNCHANGED up
    BY <1>0, CopyEffect DEF NoWraps
  <1>2. /\ up
        /\ \A u \in Trades : u # t => step[u] = "idle" /\ step'[u] = "idle"
    <2>1. JobStep(t)
      BY DEF JobStep
    <2> QED
      BY <1>0, <1>1, <2>1, OnlyJob, JobEffect DEF OnceInv, TellSteps
  <1>3. \/ delivered' = delivered
        \/ c = "recipient" /\ delivered' = [delivered EXCEPT ![notice] = Again(@)]
    BY <1>0, CopyEffect
  <1>4. \/ /\ \E result \in {"stored", "failed"} : wraps' = [wraps EXCEPT ![c] = result]
           /\ UNCHANGED <<lapsed, step, snap, seen>>
        \/ /\ wraps' = NoWraps
           /\ seen' = seen \cup {notice} /\ UNCHANGED lapsed
        \/ /\ wraps' = NoWraps /\ UNCHANGED seen
           /\ lapsed' = IF delivered'[notice] > 0 THEN lapsed \cup {notice} ELSE lapsed
    BY <1>0, CopyEffect
  <1>5. Sending(t, own) /\ Accounted(t, own) /\ Untold(t, own)
    BY <1>1 DEF Sending, OnceInv
  <1>6. lapsed \subseteq lapsed' /\ seen \subseteq seen'
    BY <1>4
  <1>7. OneJob'
    <2>1. wraps' # NoWraps => step'[t] \in TellSteps
      BY <1>1, <1>4
    <2> QED
      BY <1>1, <1>2, <2>1 DEF OneJob
  <1>8. ASSUME NEW u \in Trades, NEW n \in Notices, <<u, n>> # notice
        PROVE  /\ Accounted(u, n)' /\ Untold(u, n)'
               /\ delivered'[<<u, n>>] = delivered[<<u, n>>]
    <2>1. delivered'[<<u, n>>] = delivered[<<u, n>>]
      BY <1>0, <1>3, <1>8 DEF TypeOK
    <2>2. ~Sending(u, n) /\ Accounted(u, n)
      BY <1>2, <1>8 DEF Sending, OnceInv, TellSteps
    <2>3. Accounted(u, n)'
      BY <1>1, <1>2, <1>6, <2>1, <2>2 DEF Accounted
    <2>4. ~Sending(u, n)'
      <3>1. CASE u # t
        BY <1>2, <3>1 DEF Sending, TellSteps
      <3>2. CASE u = t
        BY <1>4, <1>8, <3>2 DEF Sending
      <3> QED
        BY <3>1, <3>2
    <2> QED
      BY <2>1, <2>3, <2>4 DEF Untold
  <1>9. delivered'[notice] = 2 => notice \in lapsed'
    <2>1. notice \in Trades \X Notices
      BY <1>1
    <2>2. CASE delivered' = delivered
      BY <1>6, <2>1, <2>2 DEF OnceInv, NoticesOnce
    <2>3. CASE c = "recipient" /\ delivered' = [delivered EXCEPT ![notice] = Again(@)]
      <3>1. notice \in lapsed \/ delivered[notice] = 0
        BY <1>1, <1>5, <2>3 DEF Untold
      <3>2. delivered'[notice] = Again(delivered[notice])
        BY <1>0, <2>1, <2>3 DEF TypeOK
      <3> QED
        BY <1>6, <3>1, <3>2 DEF Again
    <2> QED
      BY <1>3, <2>2, <2>3
  <1>10. Accounted(t, own)' /\ Untold(t, own)'
    <2>1. CASE /\ \E result \in {"stored", "failed"} : wraps' = [wraps EXCEPT ![c] = result]
               /\ UNCHANGED <<lapsed, step, snap, seen>>
      <3>1. wraps'[c] \in {"stored", "failed"}
        BY <1>0, <2>1 DEF TypeOK
      <3>2. wraps' # NoWraps
        BY <3>1 DEF NoWraps
      <3>3. Sending(t, own)'
        BY <1>5, <2>1, <3>2 DEF Sending
      <3>4. wraps'["recipient"] = "out" =>
               c # "recipient" /\ wraps["recipient"] = "out" /\ delivered' = delivered
        BY <1>0, <1>3, <2>1, <3>1 DEF TypeOK, Copies
      <3>5. wraps'["recipient"] = "out" => notice \in lapsed' \/ delivered'[notice] = 0
        BY <1>5, <2>1, <3>4 DEF Untold
      <3> QED
        BY <1>1, <1>2, <3>3, <3>5 DEF Accounted, Untold
    <2>2. CASE wraps' = NoWraps /\ seen' = seen \cup {notice} /\ UNCHANGED lapsed
      BY <1>1, <1>2, <2>2 DEF Accounted, Untold, Sending
    <2>3. CASE /\ wraps' = NoWraps /\ UNCHANGED seen
               /\ lapsed' = IF delivered'[notice] > 0 THEN lapsed \cup {notice} ELSE lapsed
      <3>1. delivered'[notice] \in 0..2
        BY <1>1 DEF TypeOK
      <3>2. notice \in lapsed' \/ delivered'[notice] = 0
        BY <2>3, <3>1
      <3> QED
        BY <2>3, <3>2 DEF Accounted, Untold, Sending
    <2> QED
      BY <1>4, <2>1, <2>2, <2>3
  <1>11. ASSUME NEW u \in Trades, NEW n \in Notices PROVE Accounted(u, n)' /\ Untold(u, n)'
    <2>1. CASE <<u, n>> = notice
      BY <1>10, <2>1
    <2> QED
      BY <1>8, <2>1
  <1>12. NoticesOnce'
    <2> SUFFICES ASSUME NEW u \in Trades, NEW n \in Notices, delivered'[<<u, n>>] = 2
                 PROVE  <<u, n>> \in lapsed'
      BY DEF NoticesOnce
    <2>1. CASE <<u, n>> = notice
      BY <1>9, <2>1
    <2>2. CASE <<u, n>> # notice
      BY <1>6, <1>8, <2>2 DEF OnceInv, NoticesOnce
    <2> QED
      BY <2>1, <2>2
  <1> QED
    BY <1>7, <1>11, <1>12 DEF OnceInv

\* What is lost in a crash lapses, and so does what a start does not read back.
LEMMA OnceProcess ==
    ASSUME OnceInv, TypeOK', Crash \/ Restart \/ HydrateThread
    PROVE  OnceInv'
  <1>1. /\ UNCHANGED <<delivered, archived>> /\ lapsed \subseteq lapsed'
        /\ \/ UNCHANGED step
           \/ ~up' /\ \A t \in Trades : step'[t] = "idle"
        /\ UNCHANGED wraps \/ wraps' = NoWraps
    BY DEF Crash, Restart, HydrateThread, worldVars
  <1>2. OneJob'
    <2>1. CASE Crash
      BY <2>1 DEF Crash, OneJob
    <2>2. CASE Restart \/ HydrateThread
      BY <2>2 DEF Restart, HydrateThread, worldVars, OnceInv, OneJob
    <2> QED
      BY <2>1, <2>2
  <1>3. ASSUME NEW t \in Trades, NEW n \in Notices PROVE Accounted(t, n)' /\ Untold(t, n)'
    <2> DEFINE notice == <<t, n>>
    <2>0. notice \in Trades \X Notices /\ delivered[notice] \in 0..2
          /\ Accounted(t, n) /\ Untold(t, n)
      BY DEF OnceInv, TypeOK
    <2>1. CASE Crash
      <3>1. /\ ~up' /\ UNCHANGED <<delivered, archived>> /\ wraps' = NoWraps
            /\ notice \in Unarchived => notice \in lapsed'
        BY <2>1 DEF Crash
      <3>2. delivered[notice] = 0 \/ notice \in archived \/ notice \in Unarchived
        BY <2>0 DEF Unarchived
      <3> QED
        BY <3>1, <3>2 DEF Accounted, Untold, Sending
    <2>2. CASE Restart
      <3>1. ~up /\ \A u \in Trades : step[u] = "idle"
        BY <2>2 DEF Restart, OnceInv, OneJob
      <3>2. /\ up' /\ UNCHANGED <<delivered, archived, step>>
            /\ lapsed' = lapsed \cup (archived \ seen')
        BY <2>2 DEF Restart
      <3>3. ~Sending(t, n)'
        BY <3>1, <3>2 DEF Sending, TellSteps
      <3> QED
        BY <2>0, <3>1, <3>2, <3>3 DEF Accounted, Untold
    <2>3. CASE HydrateThread
      <3>1. UNCHANGED <<delivered, archived, lapsed, up, step, wraps>> /\ seen \subseteq seen' /\ up
        BY <2>3 DEF HydrateThread, worldVars
      <3> QED
        BY <2>0, <3>1 DEF Accounted, Untold, Sending
    <2> QED
      BY <2>1, <2>2, <2>3
  <1> QED
    BY <1>1, <1>2, <1>3 DEF OnceInv, NoticesOnce

\* The invariant is inductive, whatever fails and whoever holds the key.
LEMMA OnceStep == OnceInv /\ [Next]_vars => OnceInv'
  <1> SUFFICES ASSUME OnceInv, [Next]_vars PROVE OnceInv'
    OBVIOUS
  <1>0. TypeOK /\ TypeOK'
    BY TypeStep DEF OnceInv
  <1>1. ASSUME NEW t \in Trades, World(t) PROVE OnceInv'
    <2>1. UNCHANGED <<delivered, archived, lapsed, up, seen, step, wraps>>
      BY <1>1 DEF World, BuyerFunds, BuyerCommits, SellerConfirms, ParticipantCancels,
                  OperatorCancels, StayEnds, procVars
    <2> QED
      BY <1>0, <2>1, OnceKept
  <1>2. ASSUME NEW t \in Trades, RetryFires(t) PROVE OnceInv'
    <2>1. UNCHANGED <<delivered, archived, lapsed, up, seen, step, wraps>>
      BY <1>2 DEF RetryFires, worldVars
    <2> QED
      BY <1>0, <2>1, OnceKept
  <1>3. ASSUME NEW t \in Trades, Start(t) PROVE OnceInv'
    <2>1. /\ UNCHANGED <<delivered, archived, lapsed, up, seen, wraps>> /\ up
          /\ \A u \in Trades : step[u] = "idle" /\ (u # t => step'[u] = "idle")
          /\ step'[t] = "read"
      BY <1>0, <1>3 DEF Start, SlotFree, Goto, worldVars, TypeOK
    <2>2. wraps = NoWraps
      BY <2>1 DEF OnceInv, OneJob, TellSteps
    <2>3. OneJob'
      BY <2>1, <2>2 DEF OneJob
    <2>4. ASSUME NEW u \in Trades, NEW n \in Notices PROVE Accounted(u, n)' /\ Untold(u, n)'
      <3>1. Accounted(u, n) /\ ~Sending(u, n) /\ ~Sending(u, n)'
        BY <2>1, <2>2 DEF OnceInv, Sending
      <3> QED
        BY <2>1, <3>1 DEF Accounted, Untold
    <2> QED
      BY <1>0, <2>1, <2>3, <2>4 DEF OnceInv, NoticesOnce
  <1>4. ASSUME NEW t \in Trades, JobStep(t) PROVE OnceInv'
    BY <1>0, <1>4, OnceElsewhere, OnceSends, OnceReturns
  <1>5. CASE HydrateThread \/ Crash \/ Restart
    BY <1>0, <1>5, OnceProcess
  <1>6. CASE UNCHANGED vars
    BY <1>0, <1>6, OnceKept DEF vars
  <1> QED
    BY <1>1, <1>2, <1>3, <1>4, <1>5, <1>6 DEF Next

\* Nobody receives the same notice twice but where a crash, an exception or a
\* thread not read back in time kept the daemon from knowing that it had sent
\* it: for any set of trades, any faults and any number of crashes, restarts
\* and replays of the stored orders.
THEOREM NobodyToldTwice == Spec => []NoticesOnce
  <1>1. Init => OnceInv
    <2> SUFFICES ASSUME Init PROVE OnceInv
      OBVIOUS
    <2>1. /\ up /\ wraps = NoWraps /\ \A t \in Trades : step[t] = "idle"
          /\ \A t \in Trades, n \in Notices : delivered[<<t, n>>] = 0
      BY DEF Init
    <2>2. OneJob /\ NoticesOnce
      BY <2>1 DEF OneJob, NoticesOnce
    <2>3. \A t \in Trades, n \in Notices : Accounted(t, n) /\ Untold(t, n)
      BY <2>1 DEF Accounted, Untold
    <2> QED
      BY <2>2, <2>3, InitTyped DEF OnceInv
  <1>2. OnceInv /\ [Next]_vars => OnceInv'
    BY OnceStep
  <1>3. OnceInv => NoticesOnce
    BY DEF OnceInv
  <1> QED
    BY <1>1, <1>2, <1>3, PTL DEF Spec

-----------------------------------------------------------------------------
(***************************************************************************)
(* The daemon implements EscrowVerdict.                                    *)
(***************************************************************************)

\* A participant or the chain touches one trade, and either its orders or its
\* funding.
LEMMA WorldLocal ==
    ASSUME TypeOK, NEW t \in Trades, World(t)
    PROVE  /\ \/ UNCHANGED funding
              \/ /\ UNCHANGED relay /\ funding[t] = "pending"
                 /\ \E f \in {"funded", "short"} : funding' = [funding EXCEPT ![t] = f]
           /\ \A u \in Trades : u # t => relay'[u] = relay[u]
  <1>1. CASE BuyerFunds(t)
    BY <1>1 DEF BuyerFunds
  <1>2. CASE BuyerCommits(t)
    BY <1>2, StoreEffect DEF BuyerCommits, Roles, Stages
  <1>3. CASE SellerConfirms(t)
    BY <1>3, StoreEffect DEF SellerConfirms, Roles, Stages
  <1>4. ASSUME NEW r \in {"buyer", "seller"}, ParticipantCancels(t, r)
        PROVE  UNCHANGED funding /\ \A u \in Trades : u # t => relay'[u] = relay[u]
    BY <1>4, StoreEffect DEF ParticipantCancels, Roles, Stages
  <1>5. CASE OperatorCancels(t)
    BY <1>5, StoreEffect DEF OperatorCancels, Roles, Stages
  <1>6. CASE StayEnds(t)
    BY <1>6 DEF StayEnds
  <1> QED
    BY <1>1, <1>2, <1>3, <1>4, <1>5, <1>6 DEF World

\* What a step of a job makes of its trade's ruling.
LEMMA RulingMoves ==
    ASSUME Alone, IInv, IInv', NEW t \in Trades, JobStep(t)
    PROVE  \/ Ruling(t)' = Ruling(t)
           \/ /\ Ruling(t) = "open" /\ Ruling(t)' = "approving"
              /\ funding[t] = "funded" /\ terms[t].proof = "escrow"
              /\ terms[t].autoAccept \/ relay[t]["seller"] # "none"
           \/ /\ Ruling(t) = "open" /\ Ruling(t)' = "rejecting"
              /\ HasEscrowProof(terms[t].proof) /\ Grounds(t)
           \/ Ruling(t) = "approving" /\ Ruling(t)' = "confirmed"
           \/ Ruling(t) = "rejecting" /\ Ruling(t)' = "cancelled"
           \/ Ruling(t) \in {"approving", "rejecting"} /\ Ruling(t)' = "open"
  <1>1. TypeOK /\ JobSound(t) /\ JobSound(t)'
    BY DEF IInv
  <1>2. UNCHANGED <<funding, terms>>
    BY <1>1, JobEffect
  <1> USE DEF Deciding, Confirmed, Condemned
  <1>3. CASE ReadGroup(t) \/ LoadListing(t) \/ VerifyPending(t)
    <2>1. UNCHANGED relay
      BY <1>3 DEF ReadGroup, LoadListing, VerifyPending, worldVars
    <2>2. step[t] \in {"read", "listing", "onchain"}
      BY <1>3 DEF ReadGroup, LoadListing, VerifyPending
    <2>3. \/ step'[t] \in {"idle", "listing", "onchain", "cancel"}
          \/ step'[t] \in {"tell buyer", "tell cancelled"} /\ Verdict(t) # "none"
      <3>1. step[t] = "listing" => MayRule(t, snap[t])
        BY <1>1 DEF JobSound
      <3> QED
        BY <1>1, <1>3, <3>1, EarlyEffect
    <2> QED
      BY <1>1, <1>2, <2>1, <2>2, <2>3 DEF Ruling, Verdict, JobSound, Grounds, MayRule
  <1>4. CASE VerifyAnswered(t)
    <2>1. UNCHANGED relay
      BY <1>4 DEF VerifyAnswered, worldVars
    <2>2. step[t] = "onchain" /\ step'[t] \in {"reread", "cancel", "idle"}
      BY <1>1, <1>4, AnswerEffect
    <2>3. WellFormed(terms[t].proof) /\ HasEscrowProof(terms[t].proof) => terms[t].proof = "escrow"
      BY DEF WellFormed, HasEscrowProof
    <2> QED
      BY <1>1, <1>2, <2>1, <2>2, <2>3 DEF Ruling, Verdict, JobSound, Grounds, MayRule
  <1>5. CASE Reread(t)
    <2>1. UNCHANGED relay
      BY <1>5 DEF Reread, worldVars
    <2>2. /\ step[t] = "reread"
          /\ \/ step'[t] = "idle"
             \/ step'[t] = "confirm" /\ snap'[t] = snap[t]
             \/ Verdict(t) # "none"
      BY <1>1, <1>5, RereadEffect
    <2> QED
      BY <1>1, <2>1, <2>2 DEF Ruling, Verdict, JobSound, Cancelled
  <1>6. ASSUME NEW stage \in {"commit", "cancel"}, PublishVerdict(t, stage)
        PROVE  \/ Ruling(t) = "approving" /\ Ruling(t)' \in {"confirmed", "open"}
               \/ Ruling(t) = "rejecting" /\ Ruling(t)' \in {"cancelled", "open"}
    <2>1. /\ step[t] = IF stage = "commit" THEN "confirm" ELSE "cancel"
          /\ \/ Verdict(t)' = stage
             \/ Verdict(t)' = Verdict(t) /\ step'[t] = "idle"
      BY <1>1, <1>6, PublishEffect DEF Verdict
    <2>2. Verdict(t) = "none" /\ (step[t] = "confirm" => ~Cancelled(snap[t]))
      BY <1>1, <2>1 DEF JobSound
    <2>3. Ruling(t) = IF stage = "commit" THEN "approving" ELSE "rejecting"
      BY <2>1, <2>2 DEF Ruling
    <2>4. Ruling(t)' \in {IF stage = "commit" THEN "confirmed" ELSE "cancelled", "open"}
      BY <2>1, <2>2 DEF Ruling, Verdict
    <2> QED
      BY <2>3, <2>4
  <1>7. CASE \/ \E stage \in {"commit", "cancel"} : RecordTransition(t, stage)
             \/ SkipNotice(t) \/ SendNotice(t) \/ \E c \in Copies : CopyReturns(t, c)
    <2>1. UNCHANGED relay
      BY <1>1, <1>7, OtherStepsEffect
    <2>2. step[t] \in Confirmed \cup Condemned
      BY <1>7 DEF RecordTransition, SkipNotice, SendNotice, CopyReturns, TellSteps
    <2> QED
      BY <1>1, <2>1, <2>2 DEF Ruling, Verdict, JobSound
  <1> QED
    BY <1>3, <1>4, <1>5, <1>6, <1>7 DEF JobStep

\* The abstract variables the daemon's state stands for.
HostActed == [t \in Trades |-> relay[t]["seller"] # "none"]
RulingOf  == [t \in Trades |-> Ruling(t)]

\* The initial states are initial states of the promise.
LEMMA PromiseInit == Init => EscrowRules!Init
  <1> SUFFICES ASSUME Init PROVE EscrowRules!Init
    OBVIOUS
  <1>1. terms \in [Trades -> EscrowRules!TradeTerms]
    BY TermsAssumption DEF Init, EscrowRules!TradeTerms, EscrowRules!Proofs, Proofs
  <1>2. \A t \in Trades : relay[t]["seller"] = "none" /\ Ruling(t) = "open"
    BY DEF Init, NoOrders, Roles, Ruling, Verdict
  <1>3. HostActed = [t \in Trades |-> FALSE] /\ RulingOf = [t \in Trades |-> "open"]
    BY <1>2 DEF HostActed, RulingOf
  <1> QED
    BY <1>1, <1>3 DEF Init, EscrowRules!Init, HostActed, RulingOf

\* A step of the world is the funding, the host's act or nothing.
LEMMA PromiseWorld ==
    ASSUME Alone, IInv, NEW t \in Trades, World(t)
    PROVE  EscrowRules!Next \/ UNCHANGED EscrowRules!vars
  <1>1. TypeOK
    BY DEF IInv
  <1>2. /\ UNCHANGED <<terms, step, snap>>
        /\ \A u \in Trades :
              /\ relay[u]["seller"] # "none" => relay'[u]["seller"] # "none"
              /\ relay'[u]["escrow"] = relay[u]["escrow"]
    BY <1>1, WorldEffect DEF Alone
  <1>3. \A u \in Trades : Ruling(u)' = Ruling(u)
    BY <1>2 DEF Ruling, Verdict
  <1>4. RulingOf' = RulingOf
    BY <1>3 DEF RulingOf
  <1>5. CASE /\ UNCHANGED relay /\ funding[t] = "pending"
             /\ \E f \in {"funded", "short"} : funding' = [funding EXCEPT ![t] = f]
    <2>1. HostActed' = HostActed
      BY <1>5 DEF HostActed
    <2>2. EscrowRules!Fund(t)
      BY <1>2, <1>4, <1>5, <2>1 DEF EscrowRules!Fund, HostActed, RulingOf
    <2> QED
      BY <2>2 DEF EscrowRules!Next
  <1>6. CASE UNCHANGED funding
    <2>1. \A u \in Trades : u # t => relay'[u] = relay[u]
      BY <1>1, WorldLocal
    <2>2. CASE relay[t]["seller"] # "none" \/ relay'[t]["seller"] = "none"
      <3>1. HostActed' = HostActed
        BY <1>2, <2>1, <2>2 DEF HostActed
      <3> QED
        BY <1>2, <1>4, <1>6, <3>1 DEF EscrowRules!vars, HostActed, RulingOf
    <2>3. CASE relay[t]["seller"] = "none" /\ relay'[t]["seller"] # "none"
      <3>1. ~HostActed[t] /\ HostActed' = [HostActed EXCEPT ![t] = TRUE]
        BY <2>1, <2>3 DEF HostActed
      <3>2. EscrowRules!HostActs(t)
        BY <1>2, <1>4, <1>6, <3>1 DEF EscrowRules!HostActs, HostActed, RulingOf
      <3> QED
        BY <3>2 DEF EscrowRules!Next
    <2> QED
      BY <2>2, <2>3
  <1> QED
    BY <1>1, <1>5, <1>6, WorldLocal

\* Starting, crashing and restarting lose rulings that were not published.
LEMMA PromiseProcess ==
    ASSUME IInv,
           \/ \E t \in Trades : Start(t) \/ RetryFires(t)
           \/ HydrateThread \/ Crash \/ Restart
    PROVE  EscrowRules!Next
  <1> DEFINE S == {u \in Trades : Ruling(u)' # Ruling(u)}
  <1>1. /\ UNCHANGED <<relay, funding, terms>>
        /\ \A u \in Trades :
              \/ step'[u] = step[u] /\ snap'[u] = snap[u]
              \/ step[u] = "idle" /\ step'[u] = "read" /\ snap'[u] = snap[u]
              \/ step'[u] = "idle" /\ snap'[u] = NoOrders
    BY ProcessEffect DEF IInv
  <1>2. \A u \in Trades :
           Ruling(u)' # Ruling(u) =>
              Ruling(u) \in {"approving", "rejecting"} /\ Ruling(u)' = "open"
    BY <1>1 DEF Ruling, Verdict
  <1>3. RulingOf' = [t \in Trades |-> IF t \in S THEN "open" ELSE RulingOf[t]]
    BY <1>2 DEF RulingOf
  <1>4. \A t \in S : RulingOf[t] \in {"approving", "rejecting"}
    BY <1>2 DEF RulingOf
  <1>5. HostActed' = HostActed
    BY <1>1 DEF HostActed
  <1>6. S \in SUBSET Trades
    OBVIOUS
  <1> HIDE DEF S
  <1>7. EscrowRules!Forget(S)
    BY <1>1, <1>3, <1>4, <1>5 DEF EscrowRules!Forget, HostActed, RulingOf
  <1> QED
    BY <1>6, <1>7 DEF EscrowRules!Next

\* A step of a job is an approval, a rejection, a publication, a loss or nothing.
LEMMA PromiseJob ==
    ASSUME Alone, IInv, IInv', NEW t \in Trades, JobStep(t)
    PROVE  EscrowRules!Next \/ UNCHANGED EscrowRules!vars
  <1>1. TypeOK
    BY DEF IInv
  <1>2. /\ UNCHANGED <<funding, terms>>
        /\ \A u \in Trades : u # t =>
              relay'[u] = relay[u] /\ step'[u] = step[u] /\ snap'[u] = snap[u]
    BY <1>1, JobEffect
  <1>3. relay'[t]["seller"] = relay[t]["seller"]
    <2>1. relay' = relay \/ \E stage \in {"commit", "cancel"} : PublishVerdict(t, stage)
      BY <1>1, JobEffect
    <2>2. ASSUME NEW stage \in {"commit", "cancel"}, PublishVerdict(t, stage)
          PROVE  relay'[t]["seller"] = relay[t]["seller"]
      BY <1>1, <2>2, PublishEffect
    <2> QED
      BY <2>1, <2>2
  <1>4. HostActed' = HostActed
    BY <1>2, <1>3 DEF HostActed
  <1>5. \A u \in Trades : u # t => Ruling(u)' = Ruling(u)
    BY <1>2 DEF Ruling, Verdict
  <1>6. /\ RulingOf[t] = Ruling(t)
        /\ RulingOf' = [RulingOf EXCEPT ![t] = Ruling(t)']
    BY <1>5 DEF RulingOf
  <1>7. HostActed[t] <=> relay[t]["seller"] # "none"
    BY DEF HostActed
  <1>8. CASE Ruling(t)' = Ruling(t)
    <2>1. RulingOf' = RulingOf
      BY <1>5, <1>8 DEF RulingOf
    <2> QED
      BY <1>2, <1>4, <2>1 DEF EscrowRules!vars, HostActed, RulingOf
  <1>9. CASE /\ Ruling(t) = "open" /\ Ruling(t)' = "approving"
             /\ funding[t] = "funded" /\ terms[t].proof = "escrow"
             /\ terms[t].autoAccept \/ relay[t]["seller"] # "none"
    <2>1. EscrowRules!Approve(t)
      BY <1>2, <1>4, <1>6, <1>7, <1>9 DEF EscrowRules!Approve, HostActed, RulingOf
    <2> QED
      BY <2>1 DEF EscrowRules!Next
  <1>10. CASE /\ Ruling(t) = "open" /\ Ruling(t)' = "rejecting"
              /\ HasEscrowProof(terms[t].proof) /\ Grounds(t)
    <2>1. EscrowRules!Reject(t)
      BY <1>2, <1>4, <1>6, <1>10
      DEF EscrowRules!Reject, EscrowRules!HasEscrowProof, EscrowRules!WellFormed,
          HasEscrowProof, WellFormed, Grounds, HostActed, RulingOf
    <2> QED
      BY <2>1 DEF EscrowRules!Next
  <1>11. CASE \/ Ruling(t) = "approving" /\ Ruling(t)' = "confirmed"
              \/ Ruling(t) = "rejecting" /\ Ruling(t)' = "cancelled"
    <2>1. EscrowRules!Publish(t)
      BY <1>2, <1>4, <1>6, <1>11 DEF EscrowRules!Publish, HostActed, RulingOf
    <2> QED
      BY <2>1 DEF EscrowRules!Next
  <1>12. CASE Ruling(t) \in {"approving", "rejecting"} /\ Ruling(t)' = "open"
    <2>1. RulingOf' = [u \in Trades |-> IF u \in {t} THEN "open" ELSE RulingOf[u]]
      BY <1>5, <1>12 DEF RulingOf
    <2>2. EscrowRules!Forget({t})
      BY <1>2, <1>4, <1>6, <1>12, <2>1 DEF EscrowRules!Forget, HostActed, RulingOf
    <2> QED
      BY <2>2 DEF EscrowRules!Next
  <1> QED
    BY <1>8, <1>9, <1>10, <1>11, <1>12, RulingMoves

\* Every behaviour of the daemon and its world is one the promise allows: a
\* trade is ruled on at most once, on evidence that exists, and for good.
THEOREM PromiseKept ==
    ASSUME Alone PROVE Spec => KeepsThePromise
  <1>1. IInv /\ IInv' /\ [Next]_vars => [EscrowRules!Next]_(EscrowRules!vars)
    <2> SUFFICES ASSUME IInv, IInv', [Next]_vars
                 PROVE  EscrowRules!Next \/ UNCHANGED EscrowRules!vars
      OBVIOUS
    <2>1. ASSUME NEW t \in Trades, World(t)
          PROVE  EscrowRules!Next \/ UNCHANGED EscrowRules!vars
      BY <2>1, PromiseWorld
    <2>2. ASSUME NEW t \in Trades, JobStep(t)
          PROVE  EscrowRules!Next \/ UNCHANGED EscrowRules!vars
      BY <2>2, PromiseJob
    <2>3. ASSUME \/ \E t \in Trades : Start(t) \/ RetryFires(t)
                 \/ HydrateThread \/ Crash \/ Restart
          PROVE  EscrowRules!Next
      BY <2>3, PromiseProcess
    <2>4. CASE UNCHANGED vars
      BY <2>4 DEF vars, EscrowRules!vars, Ruling, Verdict
    <2> QED
      BY <2>1, <2>2, <2>3, <2>4 DEF Next
  <1> QED
    BY <1>1, PromiseInit, DaemonSound, PTL DEF Spec, KeepsThePromise, EscrowRules!Spec
=============================================================================
