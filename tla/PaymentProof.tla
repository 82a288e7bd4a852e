------------------------------ MODULE PaymentProof ------------------------------
(***************************************************************************)
(* The guest's side of a settlement: PaymentProofOrchestrator              *)
(* (hostr_sdk/lib/usecase/trades/payment_proof_orchestrator.dart), which   *)
(* turns a funded payment into a self-signed order, and the last part of   *)
(* BookAndPayOperation (trades/book_and_pay/book_and_pay_operation.dart),  *)
(* which asks it for the proof of a payment it has just made and waits for *)
(* the order.                                                              *)
(*                                                                         *)
(* Two callers publish proofs: the payment events, one at a time, and the  *)
(* checkouts, one per trade.  Both share the sets of processed and         *)
(* in-flight trades, and both are cut at every await at which the world    *)
(* may change.  The trades are those of which this user is the guest, and  *)
(* all of them were negotiated before.                                     *)
(***************************************************************************)
EXTENDS OrderGroups, FiniteSets

CONSTANTS
    Trades,   \* the trades negotiated by this guest
    Faults,   \* the calls that may fail, a subset of FaultPoints
    Moves     \* the optional moves in play, a subset of MovePoints

FaultPoints == {"inbox", "read", "prepare", "publish", "record"}
MovePoints  == {"cancels", "redelivery", "crash"}

ASSUME FaultsAssumption == Faults \subseteq FaultPoints
ASSUME MovesAssumption  == Moves \subseteq MovePoints

VARIABLES
    \* The relay and the chain.
    order,      \* the stage of each trade's buyer order
    confirmed,  \* the trades whose order the escrow has confirmed
    funded,     \* the trades whose payment the chain's logs show
    \* The guest's process.
    up,         \* the process runs
    started,    \* the orchestrator is subscribed
    threads,    \* the trades whose thread holds its order request
    orders,     \* allMyOrders$: trades seen with a commit that is not the seller's
    events,     \* paymentEvents$: the funded events received
    pending,    \* the events waiting in asyncMap
    processed,  \* _processedTradeIds
    inFlight,   \* _inFlightTradeIds
    step,       \* the await each caller is at for each trade
    booking,    \* how far the checkout of each trade is
    lost        \* trades of which this session gave up a payment

worldVars == <<order, confirmed, funded>>
procVars  == <<up, started, threads, orders, events, pending, processed, inFlight,
               step, booking, lost>>
vars      == <<worldVars, procVars>>

Callers == {"event", "checkout"}
Steps   == {"idle", "check", "prepare", "publish", "record"}
Bookings == {"none", "proving", "waiting", "completed", "failed"}

\* Every variable has its type, and a call under way holds its trade.
TypeOK ==
    /\ order \in [Trades -> Stages]
    /\ confirmed \subseteq Trades
    /\ funded \subseteq Trades
    /\ up \in BOOLEAN
    /\ started \in BOOLEAN
    /\ threads \subseteq Trades
    /\ orders \subseteq Trades
    /\ events \subseteq Trades
    /\ pending \subseteq Trades
    /\ processed \subseteq Trades
    /\ inFlight \subseteq Trades
    /\ step \in [Trades \X Callers -> Steps]
    /\ booking \in [Trades -> Bookings]
    /\ lost \subseteq Trades
    /\ \A tc \in DOMAIN step : step[tc] # "idle" => tc[1] \in inFlight

Init ==
    /\ order = [t \in Trades |-> "none"]
    /\ confirmed = {}
    /\ funded = {}
    /\ up = TRUE
    /\ started = FALSE
    /\ threads = {}
    /\ orders = {}
    /\ events = {}
    /\ pending = {}
    /\ processed = {}
    /\ inFlight = {}
    /\ step = [tc \in Trades \X Callers |-> "idle"]
    /\ booking = [t \in Trades |-> "none"]
    /\ lost = {}

Fails(point) == point \in Faults

-----------------------------------------------------------------------------
(***************************************************************************)
(* The world.                                                              *)
(***************************************************************************)

\* A payment made outside a checkout: by the app, or before a crash.
Fund(t) ==
    /\ t \notin funded
    /\ funded' = funded \cup {t}
    /\ UNCHANGED <<order, confirmed, procVars>>

\* The escrow daemon publishes its own commit under the trade's id.
EscrowConfirms(t) ==
    /\ order[t] # "none"
    /\ t \notin confirmed
    /\ confirmed' = confirmed \cup {t}
    /\ UNCHANGED <<order, funded, procVars>>

\* OrderActions.cancel: the buyer cancels an order that this app shows.
BuyerCancels(t) ==
    /\ "cancels" \in Moves
    /\ up
    /\ t \in orders
    /\ order[t] = "commit"
    /\ order' = [order EXCEPT ![t] = "cancel"]
    /\ UNCHANGED <<confirmed, funded, procVars>>

-----------------------------------------------------------------------------
(***************************************************************************)
(* The subscriptions.                                                      *)
(***************************************************************************)

\* The inbox brings the order request of a trade's thread.
ThreadArrives(t) ==
    /\ up
    /\ t \notin threads
    /\ threads' = threads \cup {t}
    /\ UNCHANGED <<worldVars, up, started, orders, events, pending, processed, inFlight,
                   step, booking, lost>>

\* _containsBuyerOrder: a commit-stage order that is not the seller's.
ContainsBuyerOrder(t) == order[t] = "commit" \/ t \in confirmed

\* allMyOrders$ brings such an order: _checkAndMarkExistingBuyerOrder, and the
\* firstWhere of a checkout that waits for it.
OrderArrives(t) ==
    /\ up
    /\ t \notin orders
    /\ ContainsBuyerOrder(t)
    /\ orders' = orders \cup {t}
    /\ processed' = IF started THEN processed \cup {t} ELSE processed
    /\ booking' = IF booking[t] = "waiting" THEN [booking EXCEPT ![t] = "completed"] ELSE booking
    /\ UNCHANGED <<worldVars, up, started, threads, events, pending, inFlight, step, lost>>

Received(t) ==
    /\ events' = events \cup {t}
    /\ pending' = IF started THEN pending \cup {t} ELSE pending
    /\ UNCHANGED <<worldVars, up, started, threads, orders, processed, inFlight, step,
                   booking, lost>>

\* The scanner finds the funded event of a trade.
EventArrives(t) == up /\ t \in funded \ events /\ Received(t)

\* It comes again, when the trade's thread selected several escrow services.
EventRepeats(t) == "redelivery" \in Moves /\ up /\ t \in events \ pending /\ Received(t)

\* Mutated form of Start: only the events to come are listened to.
StartLiveOnly ==
    /\ up /\ ~started
    /\ threads = Trades \/ Fails("inbox")
    /\ started' = TRUE
    /\ processed' = orders
    /\ UNCHANGED <<worldVars, up, threads, orders, events, pending, inFlight, step, booking, lost>>

\* start(), once the inbox is live; or before that, when its 30 s are over or
\* a checkout starts the orchestrator.  The payment events received so far are
\* replayed and the trades with an order marked.
Start ==
    /\ up /\ ~started
    /\ threads = Trades \/ Fails("inbox")
    /\ started' = TRUE
    /\ pending' = events
    /\ processed' = orders
    /\ UNCHANGED <<worldVars, up, threads, orders, events, inFlight, step, booking, lost>>

-----------------------------------------------------------------------------
(***************************************************************************)
(* _publishProofForTrade, as either caller runs it.                        *)
(***************************************************************************)
Goto(t, c, s) == step' = [step EXCEPT ![<<t, c>>] = s]

\* What a checkout does once its call returned: look, and wait if need be.
Awaited(t) == IF t \in orders THEN "completed" ELSE "waiting"

Booked(t, c, b) == booking' = IF c = "checkout" THEN [booking EXCEPT ![t] = b] ELSE booking

\* The call returns with a buyer order known to exist.
Settled(t, c) ==
    /\ Goto(t, c, "idle")
    /\ processed' = processed \cup {t}
    /\ inFlight' = inFlight \ {t}
    /\ Booked(t, c, Awaited(t))
    /\ UNCHANGED lost

\* Mutated form of GivesUp: the trade is done with, as one that we host is.
GivesUpForGood(t, c) ==
    /\ Goto(t, c, "idle")
    /\ inFlight' = inFlight \ {t}
    /\ lost' = lost \cup {t}
    /\ Booked(t, c, Awaited(t))
    /\ processed' = processed \cup {t}

\* The call returns without an order, for the lack of something it needs.
GivesUp(t, c) ==
    /\ Goto(t, c, "idle")
    /\ inFlight' = inFlight \ {t}
    /\ lost' = lost \cup {t}
    /\ Booked(t, c, Awaited(t))
    /\ UNCHANGED processed

\* The call throws; `finally' frees the trade.
Throws(t, c) ==
    /\ Goto(t, c, "idle")
    /\ inFlight' = inFlight \ {t}
    /\ lost' = lost \cup {t}
    /\ Booked(t, c, "failed")
    /\ UNCHANGED processed

\* Mutated form of Busy: the in-flight set is not asked.
BusyWhenProcessed(t) == t \in processed

\* A trade that is done, or that the other caller is working on.
Busy(t) == t \in processed \/ t \in inFlight

\* The call up to its first await, guards in the order of the code; an order
\* already in allMyOrders$ settles it without a query.
Enter(t, c) ==
    \/ /\ Busy(t)
       /\ Booked(t, c, Awaited(t))
       /\ UNCHANGED <<step, processed, inFlight, lost>>
    \/ /\ ~Busy(t)
       /\ t \notin threads
       /\ Booked(t, c, Awaited(t))
       /\ lost' = lost \cup {t}
       /\ UNCHANGED <<step, processed, inFlight>>
    \/ ~Busy(t) /\ t \in threads /\ t \in orders /\ Settled(t, c)
    \/ /\ ~Busy(t)
       /\ t \in threads
       /\ t \notin orders
       /\ Goto(t, c, "check")
       /\ inFlight' = inFlight \cup {t}
       /\ Booked(t, c, "proving")
       /\ UNCHANGED <<processed, lost>>

\* asyncMap takes the next event once the last one is dealt with.
TakeEvent(t) ==
    /\ up
    /\ t \in pending
    /\ \A u \in Trades : step[<<u, "event">>] = "idle"
    /\ pending' = pending \ {t}
    /\ Enter(t, "event")
    /\ UNCHANGED <<worldVars, up, started, threads, orders, events>>

\* A checkout's swap completes and its payment is on the chain;
\* publishEscrowProofForCompletedSwap is called at once.
CheckoutPays(t) ==
    /\ up /\ started
    /\ t \notin funded
    /\ booking[t] = "none"
    /\ funded' = funded \cup {t}
    /\ Enter(t, "checkout")
    /\ UNCHANGED <<order, confirmed, up, started, threads, orders, events, pending>>

\* The answer of _hasBuyerOrder's query.
CheckOrders(t, c) ==
    /\ step[<<t, c>>] = "check"
    /\ \/ ContainsBuyerOrder(t) /\ Settled(t, c)
       \/ /\ ~ContainsBuyerOrder(t)
          /\ Goto(t, c, "prepare")
          /\ UNCHANGED <<processed, inFlight, booking, lost>>
       \/ Fails("read") /\ Throws(t, c)
    /\ UNCHANGED <<worldVars, up, started, threads, orders, events, pending>>

\* The listing, the seller's profile and the trade's key.
Prepare(t, c) ==
    /\ step[<<t, c>>] = "prepare"
    /\ \/ Goto(t, c, "publish") /\ UNCHANGED <<processed, inFlight, booking, lost>>
       \/ Fails("prepare") /\ (GivesUp(t, c) \/ Throws(t, c))
    /\ UNCHANGED <<worldVars, up, started, threads, orders, events, pending>>

\* createSelfSigned's broadcast, which replaces whatever order the buyer has.
Publish(t, c) ==
    /\ step[<<t, c>>] = "publish"
    /\ \/ /\ order' = [order EXCEPT ![t] = "commit"]
          /\ Goto(t, c, "record")
          /\ UNCHANGED <<processed, inFlight, booking, lost>>
       \/ Fails("publish") /\ order' = [order EXCEPT ![t] = "commit"] /\ Throws(t, c)
       \/ Fails("publish") /\ UNCHANGED order /\ Throws(t, c)
    /\ UNCHANGED <<confirmed, funded, up, started, threads, orders, events, pending>>

\* createSelfSigned's transition record, then the notification, which may
\* fail without consequence.
Record(t, c) ==
    /\ step[<<t, c>>] = "record"
    /\ \/ Settled(t, c)
       \/ Fails("record") /\ Throws(t, c)
    /\ UNCHANGED <<worldVars, up, started, threads, orders, events, pending>>

\* Mutated form of ProofTimeout: the wait has no end.
NoTimeout(t) ==
    /\ booking[t] = "waiting" /\ t \in orders
    /\ booking' = [booking EXCEPT ![t] = "failed"]
    /\ UNCHANGED <<worldVars, up, started, threads, orders, events, pending, processed,
                   inFlight, step, lost>>

\* proofTimeout is over.
ProofTimeout(t) ==
    /\ booking[t] = "waiting"
    /\ booking' = [booking EXCEPT ![t] = "failed"]
    /\ UNCHANGED <<worldVars, up, started, threads, orders, events, pending, processed,
                   inFlight, step, lost>>

-----------------------------------------------------------------------------
(***************************************************************************)
(* The process.  Nothing of it is stored but what the relay and the chain  *)
(* hold.                                                                   *)
(***************************************************************************)
Crash ==
    /\ "crash" \in Moves
    /\ up
    /\ up' = FALSE
    /\ started' = FALSE
    /\ threads' = {}
    /\ orders' = {}
    /\ events' = {}
    /\ pending' = {}
    /\ processed' = {}
    /\ inFlight' = {}
    /\ step' = [tc \in Trades \X Callers |-> "idle"]
    /\ booking' = [t \in Trades |-> "none"]
    /\ lost' = {}
    /\ UNCHANGED worldVars

Restart ==
    /\ ~up
    /\ up' = TRUE
    /\ UNCHANGED <<worldVars, started, threads, orders, events, pending, processed,
                   inFlight, step, booking, lost>>

JobStep(t, c) == CheckOrders(t, c) \/ Prepare(t, c) \/ Publish(t, c) \/ Record(t, c)

Next ==
    \/ \E t \in Trades :
          \/ Fund(t) \/ EscrowConfirms(t) \/ BuyerCancels(t)
          \/ ThreadArrives(t) \/ OrderArrives(t) \/ EventArrives(t) \/ EventRepeats(t)
          \/ TakeEvent(t) \/ CheckoutPays(t) \/ ProofTimeout(t)
          \/ \E c \in Callers : JobStep(t, c)
    \/ Start \/ Crash \/ Restart

Spec == Init /\ [][Next]_vars

(***************************************************************************)
(* Fairness.  Calls return, timers fire, subscriptions deliver what the    *)
(* relay and the chain hold, start-up goes on once the inbox is live, and  *)
(* the user opens the app again.  asyncMap takes its events in order, so   *)
(* each is taken in the end (strong, as the slot is taken and freed in     *)
(* between).  Payments, confirmations, cancellations and crashes owe       *)
(* nothing.                                                                *)
(***************************************************************************)
Fairness ==
    /\ \A t \in Trades :
          /\ WF_vars(ThreadArrives(t))
          /\ WF_vars(EventArrives(t))
          /\ SF_vars(TakeEvent(t))
          /\ WF_vars(ProofTimeout(t))
          /\ \A c \in Callers : WF_vars(JobStep(t, c))
    /\ WF_vars(Start)
    /\ WF_vars(Restart)

FairSpec == Spec /\ Fairness
-----------------------------------------------------------------------------
(***************************************************************************)
(* Properties.                                                             *)
(***************************************************************************)
Publishes(t) == \E c \in Callers : step[<<t, c>>] = "publish" /\ step'[<<t, c>>] = "record"

\* A trade's proof is never published over a committed order: however the
\* payment event, its repetitions, the checkout, the order subscription and
\* restarts interleave, the two callers do not both get past the query.
OneProof == [][\A t \in Trades : Publishes(t) => order[t] # "commit"]_vars

\* A trade is marked as processed only if an order of it is on the relay, so
\* no call that failed on its way makes the later ones pass the trade over.
ProcessedHasOrder == \A t \in processed : order[t] # "none"

\* If the process stays up from some point on, a funded trade gets its order,
\* unless a call or the trade's thread failed it in this very session: neither
\* the other caller's early return nor a crash anywhere loses the payment.
FundedGetsProof ==
    <>[]up => \A t \in Trades : t \in funded ~> (order[t] # "none" \/ t \in lost)

\* A checkout that has paid comes to an answer, whichever caller publishes the
\* proof, unless the process dies.
BookingEnds ==
    \A t \in Trades : booking[t] \in {"proving", "waiting"}
                        ~> booking[t] \notin {"proving", "waiting"}
=============================================================================
