------------------------------ MODULE EscrowDaemon ------------------------------
(***************************************************************************)
(* The order half of the escrow daemon (EscrowDaemon and                   *)
(* EscrowOrderNotifier of hostr_sdk/lib/usecase/escrow_daemon/             *)
(* escrow_daemon.dart), the order operations it and the participants use   *)
(* (hostr_sdk/lib/usecase/orders/orders.dart), and the world they share:   *)
(* one Nostr relay and the escrow contract.                                *)
(*                                                                         *)
(* Orders are replaceable events, so the relay keeps one per trade and     *)
(* role.  A job of the daemon is cut at every await: the participants, the *)
(* chain and a crash may act between any two of its steps.  A trigger of   *)
(* the subscription names a trade; the job then reads the relay itself, so *)
(* the triggers are kept as a set, and one that repeats a trigger still    *)
(* waiting is merged with it.                                              *)
(***************************************************************************)
EXTENDS OrderGroups, FiniteSets

CONSTANTS
    Trades,           \* the trades that name this escrow
    Terms,            \* the [autoAccept, proof] a trade may have
    Faults,           \* the calls that may fail, a subset of FaultPoints
    Moves,            \* the optional moves in play, a subset of MovePoints
    MaxCrashes        \* bound: how often the process may die

FaultPoints == {"read", "listing", "noListing", "verify", "publish", "record",
                "notice", "hydrate"}

\* "operator" is somebody else who signs with the escrow's key.
MovePoints == {"seller confirms", "cancels", "operator", "stay ends"}

ASSUME TermsAssumption  == Terms \subseteq [autoAccept : BOOLEAN, proof : Proofs]
ASSUME FaultsAssumption == Faults \subseteq FaultPoints
ASSUME MovesAssumption  == Moves \subseteq MovePoints
ASSUME MaxCrashesAssumption == MaxCrashes \in Nat

VARIABLES
    \* The relay, the chain and the calendar.
    relay,      \* the order group of each trade, as the relay stores it
    funding,    \* what the escrow contract's logs show of each trade
    terms,      \* each trade's terms, chosen once
    ended,      \* the trades whose stay is over
    delivered,  \* how often each notice reached its recipient, 2 for "again"
    archived,   \* the notices whose copy to the escrow itself is stored
    lapsed,     \* history: the notices that the daemon may not know it has sent
    crashes,    \* bound: how often the process died
    \* The daemon's process.
    up,         \* the process runs and its order listener is subscribed
    triggers,   \* <<trade, source>> waiting in flatMap(maxConcurrent: 1)
    timers,     \* _orderRetryTimers: trades with a pending retry
    step,       \* the await each trade's job is at, "idle" when it has none
    snap,       \* the group the job holds
    seen,       \* _sentNoticeKeys and the hydrated threads
    wraps       \* the two gift wraps of the notice being sent

worldVars == <<relay, funding, terms, ended, delivered, archived, lapsed, crashes>>
procVars  == <<up, triggers, timers, step, snap, seen, wraps>>
vars      == <<relay, funding, terms, ended, delivered, archived, lapsed, crashes,
               up, triggers, timers, step, snap, seen, wraps>>

Notices == {"placed buyer", "placed seller", "cancelled buyer"}
Copies  == {"recipient", "own"}
NoWraps == [c \in Copies |-> "none"]
Sources == Roles \cup {"retry"}
Steps   == {"idle", "read", "listing", "onchain", "reread", "confirm", "record confirm",
            "cancel", "record cancel", "tell buyer", "tell seller", "tell cancelled"}

TypeOK ==
    /\ relay \in [Trades -> Groups]
    /\ funding \in [Trades -> {"pending", "funded", "short"}]
    /\ terms \in [Trades -> Terms]
    /\ ended \subseteq Trades
    /\ delivered \in [Trades \X Notices -> 0..2]
    /\ archived \subseteq Trades \X Notices
    /\ lapsed \subseteq Trades \X Notices
    /\ crashes \in 0..MaxCrashes
    /\ up \in BOOLEAN
    /\ triggers \subseteq Trades \X Sources
    /\ timers \subseteq Trades
    /\ step \in [Trades -> Steps]
    /\ snap \in [Trades -> Groups]
    /\ seen \subseteq Trades \X Notices
    /\ wraps \in [Copies -> {"none", "out", "stored", "failed"}]

Init ==
    /\ relay = [t \in Trades |-> NoOrders]
    /\ funding = [t \in Trades |-> "pending"]
    /\ terms \in [Trades -> Terms]
    /\ ended = {}
    /\ delivered = [tn \in Trades \X Notices |-> 0]
    /\ archived = {}
    /\ lapsed = {}
    /\ crashes = 0
    /\ up = TRUE
    /\ triggers = {}
    /\ timers = {}
    /\ step = [t \in Trades |-> "idle"]
    /\ snap = [t \in Trades |-> NoOrders]
    /\ seen = {}
    /\ wraps = NoWraps

-----------------------------------------------------------------------------
(***************************************************************************)
(* The relay.  An order that names the escrow in a p tag triggers the      *)
(* daemon's subscription; every order of the group does, the escrow's own  *)
(* included.                                                               *)
(***************************************************************************)
Announced(t, r) == IF up THEN triggers \cup {<<t, r>>} ELSE triggers

Store(t, r, stage) ==
    /\ relay' = [relay EXCEPT ![t][r] = stage]
    /\ triggers' = Announced(t, r)

-----------------------------------------------------------------------------
(***************************************************************************)
(* The participants and the chain.                                         *)
(***************************************************************************)

\* The buyer's swap funds the escrow contract, with the right amount or not.
BuyerFunds(t) ==
    /\ funding[t] = "pending"
    /\ \E f \in {"funded", "short"} : funding' = [funding EXCEPT ![t] = f]
    /\ UNCHANGED <<relay, terms, ended, delivered, archived, lapsed, crashes, procVars>>

\* createSelfSigned, which the payment proof orchestrator calls unless the
\* trade already has a commit-stage order that is not the seller's.
BuyerCommits(t) ==
    /\ relay[t]["buyer"] # "commit"
    /\ relay[t]["escrow"] # "commit"
    /\ Store(t, "buyer", "commit")
    /\ UNCHANGED <<funding, terms, ended, delivered, archived, lapsed, crashes,
                   up, timers, step, snap, seen, wraps>>

\* Orders.confirm as the host calls it.
SellerConfirms(t) ==
    /\ "seller confirms" \in Moves
    /\ ~Cancelled(relay[t])
    /\ relay[t]["buyer"] = "commit"
    /\ relay[t]["seller"] = "none"
    /\ Store(t, "seller", "commit")
    /\ UNCHANGED <<funding, terms, ended, delivered, archived, lapsed, crashes,
                   up, timers, step, snap, seen, wraps>>

\* Orders.cancel as a participant calls it.
ParticipantCancels(t, r) ==
    /\ "cancels" \in Moves
    /\ relay[t]["buyer"] # "none"
    /\ ~Cancelled(relay[t])
    /\ Store(t, r, "cancel")
    /\ UNCHANGED <<funding, terms, ended, delivered, archived, lapsed, crashes,
                   up, timers, step, snap, seen, wraps>>

\* Orders.cancel by an operator who holds the escrow's key.
OperatorCancels(t) ==
    /\ "operator" \in Moves
    /\ relay[t]["buyer"] # "none"
    /\ ~Cancelled(relay[t])
    /\ Store(t, "escrow", "cancel")
    /\ UNCHANGED <<funding, terms, ended, delivered, archived, lapsed, crashes,
                   up, timers, step, snap, seen, wraps>>

StayEnds(t) ==
    /\ "stay ends" \in Moves
    /\ t \notin ended
    /\ ended' = ended \cup {t}
    /\ UNCHANGED <<relay, funding, terms, delivered, archived, lapsed, crashes, procVars>>

World(t) ==
    \/ BuyerFunds(t) \/ BuyerCommits(t) \/ SellerConfirms(t)
    \/ \E r \in {"buyer", "seller"} : ParticipantCancels(t, r)
    \/ OperatorCancels(t) \/ StayEnds(t)

-----------------------------------------------------------------------------
(***************************************************************************)
(* The listener: one job at a time, one await per step.                    *)
(***************************************************************************)
SlotFree == \A t \in Trades : step[t] = "idle"

Goto(t, s) == step' = [step EXCEPT ![t] = s]

\* The job ends, normally or by an exception that is logged and swallowed.
EndJob(t) ==
    /\ Goto(t, "idle")
    /\ snap' = [snap EXCEPT ![t] = NoOrders]

\* The job goes on to its next await, holding group g, or ends.
Proceed(t, next, g) ==
    IF next = "idle" THEN EndJob(t)
    ELSE Goto(t, next) /\ snap' = [snap EXCEPT ![t] = g]

Fails(point) == point \in Faults

\* flatMap takes the next trigger and calls _processOrderTradeId.
Start(t) ==
    /\ up
    /\ SlotFree
    /\ \E source \in Sources :
          /\ <<t, source>> \in triggers
          /\ triggers' = triggers \ {<<t, source>>}
    /\ Goto(t, "read")
    /\ UNCHANGED <<worldVars, up, timers, snap, seen, wraps>>

\* Mutated form of OrdersFound: the query leaves the escrow's own orders out.
OthersOrdersFound(t) == [relay[t] EXCEPT !["escrow"] = "none"]

\* The answer of a query for the orders of a trade.
OrdersFound(t) == relay[t]

\* notifyOrder gives up at once on an order whose stay is over.
OrderNotice(t) == IF t \in ended THEN "idle" ELSE "tell buyer"

\* The daemon rules on a buyer's commit that carries an escrow proof.
MayRule(t, g) == g["buyer"] = "commit" /\ HasEscrowProof(terms[t].proof)

\* Mutated form of FirstStep: any answer of the escrow counts as a confirmation.
FirstStepAnyOrder(t, g) ==
    CASE g["escrow"] # "none" -> OrderNotice(t)
      [] g["escrow"] = "none" /\ MayRule(t, g) -> "listing"
      [] OTHER -> "idle"

\* Where _processGroup goes once it holds group g, before its first await.
FirstStep(t, g) ==
    CASE g["escrow"] = "commit" -> OrderNotice(t)
      [] g["escrow"] = "cancel" -> "tell cancelled"
      [] g["escrow"] = "none" /\ MayRule(t, g) -> "listing"
      [] OTHER -> "idle"

\* The answer of _queryOrderGroupsForTrade, up to the next await.
ReadGroup(t) ==
    /\ step[t] = "read"
    /\ \/ /\ Proceed(t, FirstStep(t, OrdersFound(t)), OrdersFound(t))
          /\ timers' = IF OrdersFound(t)["escrow"] # "none" THEN timers \ {t} ELSE timers
       \/ Fails("read") /\ EndJob(t) /\ UNCHANGED timers
    /\ UNCHANGED <<worldVars, up, triggers, seen, wraps>>

\* Where a definitive failure leads to: Orders.cancel, which throws when the
\* group it is given is already cancelled.
Condemn(g) == IF Cancelled(g) THEN "idle" ELSE "cancel"

ListingsOf(t) ==
    {IF terms[t].autoAccept THEN "auto" ELSE "manual"}
    \cup (IF Fails("noListing") THEN {"unknown"} ELSE {})

\* Where the Nostr-level half of verification leads to: to the chain, if the
\* proof is one the chain can be asked about (the daemon has a verifier).
AfterListing(t, listing) ==
    LET nostr == VerifyGroup(snap[t], listing, TRUE, WellFormed(terms[t].proof))
    IN  IF ~nostr.valid THEN Condemn(snap[t])
        ELSE IF NeedsOnChain(snap[t], TRUE, terms[t].proof) THEN "onchain" ELSE "reread"

\* The answer of getOneByAnchor, up to the next await.  Only a Valid result
\* cancels the timer.
LoadListing(t) ==
    /\ step[t] = "listing"
    /\ \/ \E listing \in ListingsOf(t) :
             LET next == AfterListing(t, listing)
             IN  /\ Proceed(t, next, snap[t])
                 /\ timers' = IF next = "reread" THEN timers \ {t} ELSE timers
       \/ Fails("listing") /\ EndJob(t) /\ UNCHANGED timers
    /\ UNCHANGED <<worldVars, up, triggers, seen, wraps>>

ChainAnswersOf(t) ==
    {"unreachable", IF funding[t] = "pending" THEN "unfunded" ELSE funding[t]}

\* An answer of EscrowVerification.verify that settles the matter.
VerifyAnswered(t) ==
    /\ step[t] = "onchain"
    /\ \E answer \in ChainAnswersOf(t) :
          LET result == OnChainResult(snap[t], TRUE, answer)
          IN  /\ ~IsRetryable(result.reason)
              /\ Proceed(t, IF result.valid THEN "reread" ELSE Condemn(snap[t]), snap[t])
              /\ timers' = IF result.valid THEN timers \ {t} ELSE timers
    /\ UNCHANGED <<worldVars, up, triggers, seen, wraps>>

\* An answer that leaves it open: _scheduleOrderRetry.  An exception ends
\* the job without a retry.
VerifyPending(t) ==
    /\ step[t] = "onchain"
    /\ \/ /\ \E answer \in ChainAnswersOf(t) :
                IsRetryable(OnChainResult(snap[t], TRUE, answer).reason)
          /\ timers' = timers \cup {t}
       \/ Fails("verify") /\ UNCHANGED timers
    /\ EndJob(t)
    /\ UNCHANGED <<worldVars, up, triggers, seen, wraps>>

\* Mutated form of AfterReread: the group just read is not looked at.
AfterNoReread(t, latest, group) == IF Cancelled(group) THEN "idle" ELSE "confirm"

\* Where a Valid verification goes once the group was read again.  An escrow
\* order that appeared meanwhile stops it; otherwise Orders.confirm judges
\* the group that was verified, not the one just read.
AfterReread(t, latest, group) ==
    CASE latest["escrow"] = "commit" -> OrderNotice(t)
      [] latest["escrow"] = "cancel" -> "tell cancelled"
      [] latest["escrow"] = "none" -> IF Cancelled(group) THEN "idle" ELSE "confirm"

\* The answer of _latestOrderGroup.  A query that finds nothing reads as no
\* orders, one that throws ends the job.
Reread(t) ==
    /\ step[t] = "reread"
    /\ \/ \E latest \in {OrdersFound(t)} \cup (IF Fails("read") THEN {NoOrders} ELSE {}) :
             LET next == AfterReread(t, latest, snap[t])
             IN  Proceed(t, next, IF next = "confirm" THEN snap[t] ELSE latest)
       \/ Fails("read") /\ EndJob(t)
    /\ UNCHANGED <<worldVars, up, triggers, timers, seen, wraps>>

\* _upsertWithTransition, first call: the broadcast, which may also throw
\* with or without the relay having stored the order.
PublishVerdict(t, stage) ==
    /\ step[t] = IF stage = "commit" THEN "confirm" ELSE "cancel"
    /\ \/ /\ Store(t, "escrow", stage)
          /\ Proceed(t, IF stage = "commit" THEN "record confirm" ELSE "record cancel", snap[t])
       \/ Fails("publish") /\ Store(t, "escrow", stage) /\ EndJob(t)
       \/ Fails("publish") /\ UNCHANGED <<relay, triggers>> /\ EndJob(t)
    /\ UNCHANGED <<funding, terms, ended, delivered, archived, lapsed, crashes,
                   up, timers, seen, wraps>>

\* _upsertWithTransition, second call: OrderTransitions.record, of which
\* nothing here reads more than that it may throw.
RecordTransition(t, stage) ==
    /\ step[t] = IF stage = "commit" THEN "record confirm" ELSE "record cancel"
    /\ \/ Proceed(t, IF stage = "commit" THEN OrderNotice(t) ELSE "tell cancelled", snap[t])
       \/ Fails("record") /\ EndJob(t)
    /\ UNCHANGED <<worldVars, up, triggers, timers, seen, wraps>>

-----------------------------------------------------------------------------
(***************************************************************************)
(* The notifier.  A notice is gift-wrapped twice, to its recipient and to  *)
(* the escrow itself.  The two are broadcast side by side (_broadcastRumour*)
(* of messaging.dart) and stored in either order; only when both are back  *)
(* does _maybeSend go on, to add the key to _sentNoticeKeys or to throw.   *)
(***************************************************************************)
NoticeAt(s) ==
    CASE s = "tell buyer" -> "placed buyer"
      [] s = "tell seller" -> "placed seller"
      [] OTHER -> "cancelled buyer"

TellSteps == {"tell buyer", "tell seller", "tell cancelled"}

\* notifyOrder goes on to the seller after the buyer.
AfterNotice(t) == Proceed(t, IF step[t] = "tell buyer" THEN "tell seller" ELSE "idle", snap[t])

Again(n) == IF n = 0 THEN 1 ELSE 2

\* Mutated form of AlreadySent: the key of a notice leaves out its trade.
AlreadySentToAnyone(t) == \E other \in Trades : <<other, NoticeAt(step[t])>> \in seen

\* _sentNoticeKeys has the notice's key, or a hydrated thread has its copy.
AlreadySent(t) == <<t, NoticeAt(step[t])>> \in seen

SkipNotice(t) ==
    /\ step[t] \in TellSteps
    /\ wraps = NoWraps
    /\ AlreadySent(t)
    /\ AfterNotice(t)
    /\ UNCHANGED <<worldVars, up, triggers, timers, seen, wraps>>

\* _maybeSend up to its await: both wraps are on their way.
SendNotice(t) ==
    /\ step[t] \in TellSteps
    /\ wraps = NoWraps
    /\ ~AlreadySent(t)
    /\ wraps' = [c \in Copies |-> "out"]
    /\ UNCHANGED <<worldVars, up, triggers, timers, step, snap, seen>>

\* A relay stores a copy.
StoreCopy(notice, c) ==
    IF c = "recipient"
    THEN delivered' = [delivered EXCEPT ![notice] = Again(@)] /\ UNCHANGED archived
    ELSE archived' = archived \cup {notice} /\ UNCHANGED delivered

\* Future.wait has both back.  If one threw, the job ends and the key is not
\* added, although the recipient may have the notice.
NoticeEnds(t, notice, returned) ==
    /\ wraps' = NoWraps
    /\ IF \A c \in Copies : returned[c] = "stored"
       THEN seen' = seen \cup {notice} /\ AfterNotice(t) /\ UNCHANGED lapsed
       ELSE /\ EndJob(t) /\ UNCHANGED seen
            /\ lapsed' = IF delivered'[notice] > 0 THEN lapsed \cup {notice} ELSE lapsed

\* The broadcast of one copy returns, or throws with or without a relay having
\* stored it.
CopyReturns(t, c) ==
    /\ step[t] \in TellSteps
    /\ wraps[c] = "out"
    /\ \E result \in {"stored"} \cup (IF Fails("notice") THEN {"failed"} ELSE {}) :
          LET notice   == <<t, NoticeAt(step[t])>>
              returned == [wraps EXCEPT ![c] = result]
          IN  /\ \/ StoreCopy(notice, c)
                 \/ result = "failed" /\ UNCHANGED <<delivered, archived>>
              /\ IF \E d \in Copies : returned[d] = "out"
                 THEN wraps' = returned /\ UNCHANGED <<lapsed, step, snap, seen>>
                 ELSE NoticeEnds(t, notice, returned)
    /\ UNCHANGED <<relay, funding, terms, ended, crashes, up, triggers, timers>>

\* The thread subscription brings one of the escrow's own copies.
HydrateThread ==
    /\ up
    /\ \E notice \in archived \ seen : seen' = seen \cup {notice}
    /\ UNCHANGED <<worldVars, up, triggers, timers, step, snap, wraps>>

-----------------------------------------------------------------------------
(***************************************************************************)
(* Timers, and the process itself.                                         *)
(***************************************************************************)
\* Mutated form of RetryFires: there is one timer for all trades.
RetryFiresForAll(t) ==
    /\ t \in timers
    /\ timers' = {}
    /\ triggers' = triggers \cup {<<t, "retry">>}
    /\ UNCHANGED <<worldVars, up, step, snap, seen, wraps>>

RetryFires(t) ==
    /\ t \in timers
    /\ timers' = timers \ {t}
    /\ triggers' = triggers \cup {<<t, "retry">>}
    /\ UNCHANGED <<worldVars, up, step, snap, seen, wraps>>

\* The notices that somebody has and no copy with the escrow tells of.
Unarchived == {tn \in Trades \X Notices : delivered[tn] > 0 /\ tn \notin archived}

\* A crash, or stop() and exit: everything in memory is gone.  A wrap that is
\* still on its way is lost.
Crash ==
    /\ crashes < MaxCrashes
    /\ up
    /\ crashes' = crashes + 1
    /\ up' = FALSE
    /\ triggers' = {}
    /\ timers' = {}
    /\ step' = [t \in Trades |-> "idle"]
    /\ snap' = [t \in Trades |-> NoOrders]
    /\ seen' = {}
    /\ wraps' = NoWraps
    /\ lapsed' = lapsed \cup Unarchived
    /\ UNCHANGED <<relay, funding, terms, ended, delivered, archived>>

\* The subscription first replays every stored order.
Replayed == {tr \in Trades \X Roles : relay[tr[1]][tr[2]] # "none"}

\* Mutated form of Restart: the subscription does not wait for the threads.
RestartUnhydrated ==
    /\ ~up
    /\ up' = TRUE
    /\ seen' = {}
    /\ triggers' = Replayed
    /\ UNCHANGED <<worldVars, timers, step, snap, wraps>>

\* start(): wait for the threads, for at most 30 s, then subscribe.
Restart ==
    /\ ~up
    /\ up' = TRUE
    /\ \/ seen' = archived
       \/ Fails("hydrate") /\ seen' \in SUBSET archived
    /\ lapsed' = lapsed \cup (archived \ seen')
    /\ triggers' = Replayed
    /\ UNCHANGED <<relay, funding, terms, ended, delivered, archived, crashes,
                   timers, step, snap, wraps>>

\* A step of the job under way, other than its first.
JobStep(t) ==
    \/ ReadGroup(t) \/ LoadListing(t) \/ VerifyAnswered(t) \/ VerifyPending(t) \/ Reread(t)
    \/ \E stage \in {"commit", "cancel"} : PublishVerdict(t, stage) \/ RecordTransition(t, stage)
    \/ SkipNotice(t) \/ SendNotice(t) \/ \E c \in Copies : CopyReturns(t, c)

Next ==
    \/ \E t \in Trades : World(t) \/ Start(t) \/ JobStep(t) \/ RetryFires(t)
    \/ HydrateThread \/ Crash \/ Restart

Spec == Init /\ [][Next]_vars

(***************************************************************************)
(* Fairness.  A call that was made returns (JobStep), a timer that was set *)
(* fires, and the supervisor restarts a process that died.  flatMap serves *)
(* its triggers in order, so each is served in the end (strong, as the     *)
(* slot is taken and freed in between); and a chain asked again and again  *)
(* answers at last.  Participants, faults and crashes owe nothing.         *)
(***************************************************************************)
Fairness ==
    /\ \A t \in Trades : /\ WF_vars(JobStep(t))
                         /\ WF_vars(RetryFires(t))
                         /\ SF_vars(Start(t))
                         /\ SF_vars(VerifyAnswered(t))
    /\ WF_vars(Restart)

FairSpec == Spec /\ Fairness
-----------------------------------------------------------------------------
(***************************************************************************)
(* Safety.                                                                 *)
(***************************************************************************)
Verdict(t) == relay[t]["escrow"]

\* The daemon confirms an order only when the money is in escrow: a valid
\* verification is what leads _processGroup to _publishEscrowConfirmation,
\* over any number of retries, crashes and re-reads.
ConfirmOnlyIfFunded ==
    \A t \in Trades : Verdict(t) = "commit" => funding[t] = "funded"

\* It confirms a buyer's self-signed order only with the seller's agreement,
\* given in advance by an auto-accepting listing or by an order of its own.
AuthorisedConfirm ==
    \A t \in Trades : Verdict(t) = "commit" =>
        terms[t].autoAccept \/ relay[t]["seller"] # "none"

\* It never cancels an order because the payment is not there yet or the
\* chain could not be asked: those failures are retried.
CancelOnlyWithGrounds ==
    \A t \in Trades : Verdict(t) = "cancel" =>
        funding[t] = "short" \/ ~WellFormed(terms[t].proof) \/ ~terms[t].autoAccept

\* "Already confirmed/cancelled by us -- do not publish another order": what
\* the escrow published about a trade is never replaced, although a restarted
\* daemon processes every stored order again.
VerdictFinal ==
    [][\A t \in Trades : Verdict(t) # "none" => relay'[t]["escrow"] = Verdict(t)]_vars

\* A participant is told only what the relay already says: a notice is sent
\* after the order it reports was broadcast, and never the opposite of it.
NoticeMatchesVerdict ==
    \A t \in Trades :
        /\ delivered[<<t, "placed buyer">>] > 0 \/ delivered[<<t, "placed seller">>] > 0
             => Verdict(t) = "commit"
        /\ delivered[<<t, "cancelled buyer">>] > 0 => Verdict(t) = "cancel"

\* Nobody receives the same notice twice, unless the daemon could not know that
\* it had sent it: a crash or an exception cut the sending off when the
\* recipient's copy was stored and the escrow's own was not, or the threads did
\* not bring the copy back in time.
NoticesOnce == \A tn \in Trades \X Notices : delivered[tn] = 2 => tn \in lapsed

\* Once an operator's cancellation is stored and no confirmation is already
\* past its re-read, none gets past it and the trade stays cancelled.
CancelledForGood(t) == Verdict(t) = "cancel" /\ step[t] # "confirm"

OperatorCancelFinal ==
    [][\A t \in Trades : CancelledForGood(t) => CancelledForGood(t)']_vars

-----------------------------------------------------------------------------
(***************************************************************************)
(* Liveness.                                                               *)
(***************************************************************************)

\* If the process stays up from some point on, a committed order with an escrow
\* proof whose money arrived, in whatever amount, is ruled on by the escrow unless a
\* participant cancels it: no interleaving of triggers, retry timers and
\* restarts loses it.
Settles ==
    <>[]up => \A t \in Trades :
        (MayRule(t, relay[t]) /\ funding[t] # "pending")
            ~> (Verdict(t) # "none" \/ Cancelled(relay[t]))

\* A notice has reached its recipient, or a crash found the escrow's own copy
\* stored and the recipient's not, and the daemon takes it for sent.
Reached(notice) ==
    \/ delivered[notice] > 0
    \/ notice \in archived /\ wraps = NoWraps

Informed(t) ==
    \/ Verdict(t) = "commit" /\ (Reached(<<t, "placed buyer">>) \/ t \in ended)
    \/ Verdict(t) = "cancel" /\ Reached(<<t, "cancelled buyer">>)

\* If the process stays up from some point on, the buyer is told of the ruling
\* that stands in the end: of a confirmation unless the stay is over, of a
\* cancellation always, even when the crash fell between the broadcast and
\* the notice.  Only a crash between the two wraps of the notice itself leaves
\* the buyer without it.
BuyerTold == <>[]up => \A t \in Trades : Verdict(t) # "none" ~> Informed(t)

-----------------------------------------------------------------------------
(***************************************************************************)
(* Refinement.  A ruling is being made from the answer that settles it to  *)
(* the broadcast that publishes it; a group that was cancelled when it was *)
(* verified is none, as Orders.confirm will refuse it.                     *)
(***************************************************************************)
Ruling(t) ==
    IF Verdict(t) = "commit" THEN "confirmed"
    ELSE IF Verdict(t) = "cancel" THEN "cancelled"
    ELSE IF step[t] \in {"reread", "confirm"} /\ ~Cancelled(snap[t]) THEN "approving"
    ELSE IF step[t] = "cancel" THEN "rejecting"
    ELSE "open"

EscrowRules == INSTANCE EscrowVerdict WITH
    hostActed <- [t \in Trades |-> relay[t]["seller"] # "none"],
    ruling    <- [t \in Trades |-> Ruling(t)]

\* The daemon and its world implement the promise of module EscrowVerdict.
KeepsThePromise == EscrowRules!Spec
=============================================================================
