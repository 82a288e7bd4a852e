---------------------------- MODULE PaymentProofProofs ----------------------------
(***************************************************************************)
(* The safety of PaymentProof for every set of trades, faults and moves.   *)
(*                                                                         *)
(* The two callers are kept apart by the in-flight set: a call under way   *)
(* holds its trade, and no call is entered for a trade that is held.  So   *)
(* what a caller has read of the relay stays true until it publishes, as   *)
(* no one else commits the order in between.                               *)
(***************************************************************************)
EXTENDS PaymentProof, TLAPS

OneCaller ==
    \A t \in Trades : \A c, d \in Callers :
        step[<<t, c>>] # "idle" /\ step[<<t, d>>] # "idle" => c = d

NoCommitBeforePublish ==
    \A t \in Trades : \A c \in Callers :
        step[<<t, c>>] \in {"prepare", "publish"} => order[t] # "commit"

SeenMeansOrder ==
    /\ \A t \in orders \cup confirmed \cup processed : order[t] # "none"
    /\ \A t \in Trades : \A c \in Callers : step[<<t, c>>] = "record" => order[t] # "none"

IInv == TypeOK /\ OneCaller /\ NoCommitBeforePublish /\ SeenMeansOrder

-----------------------------------------------------------------------------
(***************************************************************************)
(* One step of a call.                                                     *)
(***************************************************************************)
LEMMA InitInv == Init => IInv
BY DEF Init, IInv, TypeOK, OneCaller, NoCommitBeforePublish, SeenMeansOrder, Steps,
       Bookings, Stages, Callers

\* What a caller does when it leaves a trade, whatever it has to say of it,
\* preserves what is known of the calls.
LEMMA LeaveInv ==
    ASSUME IInv, NEW t \in Trades, NEW c \in Callers, step[<<t, c>>] # "idle",
           Goto(t, c, "idle"),
           inFlight' = inFlight \ {t},
           processed' \in {processed, processed \cup {t}},
           t \in processed' => t \in processed \/ order[t] # "none",
           lost' \in {lost, lost \cup {t}},
           \E b \in Bookings : Booked(t, c, b),
           UNCHANGED <<worldVars, up, started, threads, orders, events, pending>>
    PROVE  IInv'
<1>1. TypeOK'
  <2>1. step' \in [Trades \X Callers -> Steps]
    BY DEF IInv, TypeOK, Goto, Steps
  <2>2. \A tc \in DOMAIN step' : step'[tc] # "idle" => tc[1] \in inFlight'
    BY DEF IInv, TypeOK, OneCaller, Goto
  <2>3. booking' \in [Trades -> Bookings]
    BY DEF IInv, TypeOK, Booked
  <2> QED
    BY <2>1, <2>2, <2>3 DEF IInv, TypeOK, worldVars
<1>2. OneCaller'
  BY DEF IInv, TypeOK, OneCaller, Goto
<1>3. NoCommitBeforePublish'
  BY DEF IInv, TypeOK, NoCommitBeforePublish, Goto, worldVars
<1>4. SeenMeansOrder'
  BY DEF IInv, TypeOK, SeenMeansOrder, Goto, worldVars
<1> QED
  BY <1>1, <1>2, <1>3, <1>4 DEF IInv

\* A caller enters a trade, or turns back, with the guards of the code.
LEMMA EnterInv ==
    ASSUME IInv, NEW t \in Trades, NEW c \in Callers, Enter(t, c),
           pending' \in {pending, pending \ {t}}, funded' \in {funded, funded \cup {t}},
           UNCHANGED <<order, confirmed, up, started, threads, orders, events>>
    PROVE  IInv'
<1>1. Awaited(t) \in Bookings
  BY DEF Awaited, Bookings
<1>2. booking' \in [Trades -> Bookings]
  BY <1>1 DEF Enter, Settled, Booked, IInv, TypeOK, Bookings
<1>3. CASE UNCHANGED <<step, processed, inFlight>>
  BY <1>2, <1>3 DEF Enter, Settled, IInv, TypeOK, OneCaller, NoCommitBeforePublish,
                    SeenMeansOrder
<1>4. CASE ~Busy(t) /\ t \in orders /\ Settled(t, c)
  <2>1. \A d \in Callers : step[<<t, d>>] = "idle"
    BY <1>4 DEF Busy, IInv, TypeOK
  <2>2. step' = step
    BY <1>4, <2>1 DEF Settled, Goto, IInv, TypeOK
  <2>3. inFlight' = inFlight
    BY <1>4 DEF Busy, Settled
  <2> QED
    BY <1>2, <1>4, <2>2, <2>3 DEF Settled, IInv, TypeOK, OneCaller, NoCommitBeforePublish,
                                  SeenMeansOrder
<1>5. CASE /\ ~Busy(t)
           /\ Goto(t, c, "check")
           /\ inFlight' = inFlight \cup {t}
           /\ UNCHANGED <<processed, lost>>
  <2>1. \A d \in Callers : step[<<t, d>>] = "idle"
    BY <1>5 DEF Busy, IInv, TypeOK
  <2>2. step' = [step EXCEPT ![<<t, c>>] = "check"]
    BY <1>5 DEF Goto
  <2>3. TypeOK'
    <3>1. step' \in [Trades \X Callers -> Steps]
      BY <2>2 DEF IInv, TypeOK, Steps
    <3>2. \A tc \in DOMAIN step' : step'[tc] # "idle" => tc[1] \in inFlight'
      BY <1>5, <2>2 DEF IInv, TypeOK
    <3> QED
      BY <1>2, <1>5, <3>1, <3>2 DEF IInv, TypeOK
  <2>4. OneCaller'
    BY <2>1, <2>2 DEF IInv, TypeOK, OneCaller
  <2>5. NoCommitBeforePublish'
    BY <2>2 DEF IInv, TypeOK, NoCommitBeforePublish
  <2>6. SeenMeansOrder'
    BY <1>5, <2>2 DEF IInv, TypeOK, SeenMeansOrder
  <2> QED
    BY <2>3, <2>4, <2>5, <2>6 DEF IInv
<1> QED
  BY <1>3, <1>4, <1>5 DEF Enter

\* A caller goes on to its next await.
LEMMA MoveInv ==
    ASSUME IInv, NEW t \in Trades, NEW c \in Callers, NEW s \in Steps,
           step[<<t, c>>] # "idle",
           Goto(t, c, s),
           s \in {"prepare", "publish"} => order[t] # "commit",
           s # "record",
           UNCHANGED <<worldVars, up, started, threads, orders, events, pending,
                       processed, inFlight, booking, lost>>
    PROVE  IInv'
<1>1. TypeOK'
  <2>1. step' \in [Trades \X Callers -> Steps]
    BY DEF IInv, TypeOK, Goto
  <2>2. \A tc \in DOMAIN step' : step'[tc] # "idle" => tc[1] \in inFlight'
    BY DEF IInv, TypeOK, Goto
  <2> QED
    BY <2>1, <2>2 DEF IInv, TypeOK, worldVars
<1>2. OneCaller'
  BY DEF IInv, TypeOK, OneCaller, Goto
<1>3. NoCommitBeforePublish'
  BY DEF IInv, TypeOK, NoCommitBeforePublish, Goto, worldVars
<1>4. SeenMeansOrder'
  BY DEF IInv, TypeOK, SeenMeansOrder, Goto, worldVars
<1> QED
  BY <1>1, <1>2, <1>3, <1>4 DEF IInv

\* The broadcast: whoever commits the order is alone on its trade.
LEMMA PublishInv ==
    ASSUME IInv, NEW t \in Trades, NEW c \in Callers, Publish(t, c)
    PROVE  IInv'
<1>1. order' \in {order, [order EXCEPT ![t] = "commit"]}
  BY DEF Publish
<1>2. \E s \in {"idle", "record"} :
         /\ step' = [step EXCEPT ![<<t, c>>] = s]
         /\ s = "record" => order' = [order EXCEPT ![t] = "commit"] /\ inFlight' = inFlight
         /\ s = "idle" => inFlight' = inFlight \ {t}
  BY DEF Publish, Goto, Throws
<1>3. booking' \in [Trades -> Bookings] /\ lost' \subseteq Trades /\ processed' = processed
  BY DEF Publish, Throws, Booked, Bookings, IInv, TypeOK
<1>4. step[<<t, c>>] = "publish"
  BY DEF Publish
<1>5. TypeOK'
  <2>1. order' \in [Trades -> Stages]
    BY <1>1 DEF IInv, TypeOK, Stages
  <2>2. step' \in [Trades \X Callers -> Steps]
    BY <1>2 DEF IInv, TypeOK, Steps
  <2>3. \A tc \in DOMAIN step' : step'[tc] # "idle" => tc[1] \in inFlight'
    BY <1>2, <1>4 DEF IInv, TypeOK, OneCaller
  <2>4. inFlight' \subseteq Trades
    BY <1>2 DEF IInv, TypeOK
  <2> QED
    BY <1>3, <2>1, <2>2, <2>3, <2>4 DEF IInv, TypeOK, Publish
<1>6. OneCaller'
  BY <1>2, <1>4 DEF IInv, TypeOK, OneCaller
<1>7. NoCommitBeforePublish'
  BY <1>1, <1>2, <1>4 DEF IInv, TypeOK, OneCaller, NoCommitBeforePublish
<1>8. SeenMeansOrder'
  BY <1>1, <1>2, <1>3 DEF IInv, TypeOK, SeenMeansOrder, Publish
<1> QED
  BY <1>5, <1>6, <1>7, <1>8 DEF IInv

-----------------------------------------------------------------------------
(***************************************************************************)
(* Every step.                                                             *)
(***************************************************************************)
LEMMA CallInv ==
    ASSUME IInv, NEW t \in Trades, NEW c \in Callers, JobStep(t, c)
    PROVE  IInv'
<1>1. Awaited(t) \in Bookings /\ "failed" \in Bookings
  BY DEF Awaited, Bookings
<1>2. CASE CheckOrders(t, c)
  <2>1. step[<<t, c>>] # "idle"
    BY <1>2 DEF CheckOrders
  <2>2. CASE ContainsBuyerOrder(t) /\ Settled(t, c)
    <3>1. order[t] # "none"
      BY <2>2 DEF ContainsBuyerOrder, IInv, SeenMeansOrder
    <3> QED
      BY <1>1, <1>2, <2>1, <2>2, <3>1, LeaveInv DEF CheckOrders, Settled
  <2>3. CASE ~ContainsBuyerOrder(t) /\ Goto(t, c, "prepare")
               /\ UNCHANGED <<processed, inFlight, booking, lost>>
    BY <1>2, <2>1, <2>3, MoveInv DEF CheckOrders, ContainsBuyerOrder, Steps
  <2>4. CASE Throws(t, c)
    BY <1>1, <1>2, <2>1, <2>4, LeaveInv DEF CheckOrders, Throws
  <2> QED
    BY <1>2, <2>2, <2>3, <2>4 DEF CheckOrders
<1>3. CASE Prepare(t, c)
  <2>1. step[<<t, c>>] = "prepare"
    BY <1>3 DEF Prepare
  <2>2. CASE Goto(t, c, "publish") /\ UNCHANGED <<processed, inFlight, booking, lost>>
    BY <1>3, <2>1, <2>2, MoveInv DEF Prepare, IInv, NoCommitBeforePublish, Steps
  <2>3. CASE GivesUp(t, c)
    BY <1>1, <1>3, <2>1, <2>3, LeaveInv DEF Prepare, GivesUp
  <2>4. CASE Throws(t, c)
    BY <1>1, <1>3, <2>1, <2>4, LeaveInv DEF Prepare, Throws
  <2> QED
    BY <1>3, <2>2, <2>3, <2>4 DEF Prepare
<1>4. CASE Publish(t, c)
  BY <1>4, PublishInv
<1>5. CASE Record(t, c)
  <2>1. step[<<t, c>>] # "idle" /\ order[t] # "none"
    BY <1>5 DEF Record, IInv, SeenMeansOrder
  <2>2. CASE Settled(t, c)
    BY <1>1, <1>5, <2>1, <2>2, LeaveInv DEF Record, Settled
  <2>3. CASE Throws(t, c)
    BY <1>1, <1>5, <2>1, <2>3, LeaveInv DEF Record, Throws
  <2> QED
    BY <1>5, <2>2, <2>3 DEF Record
<1> QED
  BY <1>2, <1>3, <1>4, <1>5 DEF JobStep

\* The world, the subscriptions and the process leave the calls alone, or end
\* them all.
LEMMA OutsideInv ==
    ASSUME IInv, NEW t \in Trades,
           \/ Fund(t) \/ EscrowConfirms(t) \/ BuyerCancels(t)
           \/ ThreadArrives(t) \/ OrderArrives(t) \/ EventArrives(t) \/ EventRepeats(t)
           \/ ProofTimeout(t) \/ Start \/ Crash \/ Restart \/ UNCHANGED vars
    PROVE  IInv'
<1> USE DEF IInv, TypeOK, OneCaller, NoCommitBeforePublish, SeenMeansOrder
<1>1. CASE Fund(t)
  BY <1>1 DEF Fund, procVars
<1>2. CASE EscrowConfirms(t)
  BY <1>2 DEF EscrowConfirms, procVars
<1>3. CASE BuyerCancels(t)
  BY <1>3 DEF BuyerCancels, procVars, Stages
<1>4. CASE ThreadArrives(t)
  BY <1>4 DEF ThreadArrives, worldVars
<1>5. CASE OrderArrives(t)
  BY <1>5 DEF OrderArrives, ContainsBuyerOrder, worldVars, Bookings
<1>6. CASE EventArrives(t) \/ EventRepeats(t)
  BY <1>6 DEF EventArrives, EventRepeats, Received, worldVars
<1>7. CASE ProofTimeout(t)
  BY <1>7 DEF ProofTimeout, worldVars, Bookings
<1>8. CASE Start
  BY <1>8 DEF Start, worldVars
<1>9. CASE Crash
  BY <1>9 DEF Crash, worldVars, Bookings, Steps
<1>10. CASE Restart \/ UNCHANGED vars
  BY <1>10 DEF Restart, vars, worldVars, procVars
<1> QED
  BY <1>1, <1>2, <1>3, <1>4, <1>5, <1>6, <1>7, <1>8, <1>9, <1>10

LEMMA NextInv == IInv /\ [Next]_vars => IInv'
<1> SUFFICES ASSUME IInv, [Next]_vars PROVE IInv'
  OBVIOUS
<1>1. ASSUME NEW t \in Trades, TakeEvent(t) PROVE IInv'
  BY <1>1, EnterInv DEF TakeEvent, worldVars, Callers
<1>2. ASSUME NEW t \in Trades, CheckoutPays(t) PROVE IInv'
  BY <1>2, EnterInv DEF CheckoutPays, Callers
<1>3. ASSUME Trades = {}, Start \/ Crash \/ Restart \/ UNCHANGED vars PROVE IInv'
  <2> USE DEF IInv, TypeOK, OneCaller, NoCommitBeforePublish, SeenMeansOrder
  <2>1. CASE Start
    BY <1>3, <2>1 DEF Start, worldVars
  <2>2. CASE Crash
    BY <1>3, <2>2 DEF Crash, worldVars, Bookings, Steps
  <2>3. CASE Restart \/ UNCHANGED vars
    BY <1>3, <2>3 DEF Restart, vars, worldVars, procVars
  <2> QED
    BY <1>3, <2>1, <2>2, <2>3
<1> QED
  BY <1>1, <1>2, <1>3, CallInv, OutsideInv DEF Next

-----------------------------------------------------------------------------
(***************************************************************************)
(* The theorems.                                                           *)
(***************************************************************************)
\* The invariant holds of every behaviour of the payment-proof code.
THEOREM Inductive == Spec => []IInv
<1>1. Init => IInv
  BY InitInv
<1>2. IInv /\ [Next]_vars => IInv'
  BY NextInv
<1> QED
  BY <1>1, <1>2, PTL DEF Spec

\* Every variable has its type, and a call under way holds its trade: the
\* `finally' of one call never frees a trade that another one works on.
THEOREM TypeCorrect == Spec => []TypeOK
<1>1. IInv => TypeOK
  BY DEF IInv
<1> QED
  BY <1>1, Inductive, PTL

\* A trade is marked as processed only if an order of it is on the relay.
THEOREM ProcessedHasOrderHolds == Spec => []ProcessedHasOrder
<1>1. IInv => ProcessedHasOrder
  BY DEF IInv, SeenMeansOrder, ProcessedHasOrder
<1> QED
  BY <1>1, Inductive, PTL

\* No proof is published over a committed order, whichever of the payment
\* events and the checkouts come first.
THEOREM OneProofHolds == Spec => OneProof
<1>1. IInv /\ [Next]_vars => [\A t \in Trades : Publishes(t) => order[t] # "commit"]_vars
  BY DEF IInv, NoCommitBeforePublish, Publishes
<1> QED
  BY <1>1, Inductive, PTL DEF Spec, OneProof
=============================================================================
