------------------------------ MODULE BookingChat ------------------------------
(***************************************************************************)
(* A booking as an assistant conducts it over MCP: hostr_orders_bookAndPay *)
(* and hostr_swaps_watch as mcp/server.ts presents them and the hostr      *)
(* daemon answers them, beside the public orders of the trade, which grow  *)
(* as OrderGroupRules lets them.                                           *)
(*                                                                         *)
(* The conversation is sequential, the world is not: while a call is on    *)
(* its way, the invoice is paid or expires, the swap notices the payment   *)
(* and settles, orders are published, and another conversation of the      *)
(* session switches the account.  A call reads the orders, then the swap's *)
(* record, then the orders again, and answers with what it read; the       *)
(* record lags behind the payment.  The assistant does what the last       *)
(* answer told it to.                                                      *)
(***************************************************************************)
EXTENDS OrderGroupRules

CONSTANT ChatFaults     \* what may go wrong, a subset of ChatFaultPoints

ChatFaultPoints == {"refused", "timeout", "lost"}

ASSUME ChatFaultsAssumption == ChatFaults \subseteq ChatFaultPoints

VARIABLES
    paid,       \* the swap's invoice has been paid
    swap,       \* the booking account's persisted swap record
    active,     \* the session's active account is the one that books
    call,       \* the tool call on its way
    told,       \* what the last answer shows
    duty        \* what it tells the assistant to do: book, watch, ask or stop

chatVars == <<paid, swap, active, call, told, duty>>
bookingVars == <<vars, chatVars>>

\* A record in "invoice" carries the external payment; "settling" stands for
\* the names between payment and completion; "completed" has a claim tx hash.
Swaps == {"none", "invoice", "settling", "completed", "failed"}
Steps == {"idle", "booking", "check", "read", "lookup", "answered"}

\* What the daemon reads for a call, and what the handler makes of its end.
Result(tool, ok, name, terminal, found) ==
    [tool |-> tool, ok |-> ok, name |-> name, terminal |-> terminal, found |-> found]
NoResult == Result("none", FALSE, "none", FALSE, FALSE)

Idle == [pc |-> "idle", own |-> FALSE, r |-> NoResult]

ChatInit ==
    /\ Init
    /\ paid = FALSE
    /\ swap = "none"
    /\ active = TRUE
    /\ call = Idle
    /\ told = "nothing"
    /\ duty = "book"

\* _orderLookupByTradeId: any public order is "found".
Found == group # NoOrders
Committed == \E role \in Roles : group[role] = "commit"

-----------------------------------------------------------------------------
(***************************************************************************)
(* What an answer shows (toolResponse and formatToolContent).              *)
(***************************************************************************)

\* externalPaymentNoticeFromState: the result carries an invoice.
HasInvoice(r) == r.ok /\ r.name = "invoice"

\* orderCardsFromResult, for a watch.
HasTrip(r) == r.ok /\ r.tool = "watch" /\ r.found

\* Mutated form of Failed: whatever is over without a proof has failed.
FailedWhenOver(r) == r.name \in {"failed", "none"} /\ r.terminal

\* swapWatchInfo.
TimedOut(r) == r.name = "watch_timeout"
Failed(r) == ~TimedOut(r) /\ r.name = "failed"
Proof(r) == r.name = "completed"
OrderPending(r) == ~r.found /\ ~Failed(r) /\ Proof(r)

WatchShows(r) ==
    CASE Failed(r) -> "failed"
      [] OrderPending(r) -> "finalizing"
      [] TimedOut(r) -> "still pending"
      [] OTHER -> "ask"

\* The order card comes before the invoice, the invoice before the words, and
\* an error has words only.  A booking without an invoice does not fit its
\* tool's output schema and is answered with an error (ToolAnswers).
ShownBy(r) ==
    IF ~r.ok THEN "error"
    ELSE IF HasTrip(r) THEN "trip"
    ELSE IF HasInvoice(r) THEN "invoice"
    ELSE IF r.tool = "watch" THEN WatchShows(r) ELSE "error"

\* errorAssistantInstructions: an error names its recovery ("then retry the
\* original Hostr action"); one of bookAndPay ends the booking.
AfterError(r) == IF r.tool = "watch" THEN "watch" ELSE "stop"

\* Mutated form of DutyAfter: a watch that timed out is reported and left.
DutyAfterOnce(r) ==
    CASE ShownBy(r) \in {"invoice", "finalizing"} -> "watch"
      [] ShownBy(r) = "ask" -> "ask"
      [] ShownBy(r) = "error" -> AfterError(r)
      [] OTHER -> "stop"

\* The assistantInstructions that go with it.
DutyAfter(r) ==
    CASE ShownBy(r) \in {"invoice", "still pending", "finalizing"} -> "watch"
      [] ShownBy(r) = "ask" -> "ask"
      [] ShownBy(r) = "error" -> AfterError(r)
      [] OTHER -> "stop"

-----------------------------------------------------------------------------
(***************************************************************************)
(* hostr_orders_bookAndPay.  The daemon goes on with a booking that it has *)
(* handed off with an invoice.                                             *)
(***************************************************************************)

\* The operation wants a listing that accepts bookings by itself.
Book ==
    /\ duty = "book" /\ call = Idle
    /\ listing = "auto" /\ proof = "escrow"
    /\ call' = [Idle EXCEPT !.pc = "booking"]
    /\ UNCHANGED <<paid, swap, active, told, duty>>

Answered(r) == call' = [call EXCEPT !.pc = "answered", !.r = r]

\* The first state with an external payment ends the call: the handoff.
Handoff ==
    /\ call.pc = "booking" /\ swap = "none"
    /\ swap' = "invoice"
    /\ Answered(Result("bookAndPay", TRUE, "invoice", FALSE, FALSE))
    /\ UNCHANGED <<paid, active, told, duty>>

\* A wallet of the session pays by itself.
PaidAtOnce ==
    /\ call.pc = "booking" /\ swap = "none"
    /\ swap' = "settling" /\ paid' = TRUE
    /\ UNCHANGED <<active, call, told, duty>>

\* The operation ends before any handoff.
BookEnds ==
    /\ call.pc = "booking"
    /\ \/ /\ swap = "completed" /\ Committed
          /\ Answered(Result("bookAndPay", TRUE, "booked", TRUE, FALSE))
       \/ Answered(Result("bookAndPay", FALSE, "error", FALSE, FALSE))
    /\ UNCHANGED <<paid, swap, active, told, duty>>

-----------------------------------------------------------------------------
(***************************************************************************)
(* hostr_swaps_watch.                                                      *)
(***************************************************************************)

\* The handler takes the session's active account as it is now.
WatchBegin ==
    /\ duty = "watch" /\ call = Idle
    /\ call' = [Idle EXCEPT !.pc = "check", !.own = active]
    /\ UNCHANGED <<paid, swap, active, told, duty>>

\* A committed order is the answer, whatever the swap's record says.
WatchChecks ==
    /\ call.pc = "check"
    /\ IF Committed
       THEN Answered(Result("watch", TRUE, "order_committed", TRUE, TRUE))
       ELSE call' = [call EXCEPT !.pc = "read"]
    /\ UNCHANGED <<paid, swap, active, told, duty>>

\* Mutated form of Record: the invoice of the handoff is remembered.
RecordOfHandoff ==
    IF call.own THEN (IF swap = "settling" THEN "invoice" ELSE swap) ELSE "none"

\* The record as the calling account has it: another account has none.
Record == IF call.own THEN swap ELSE "none"

\* An order is looked up for a record that is over or missing, and never for
\* one that still wants its invoice paid.
WatchReads ==
    /\ call.pc = "read"
    /\ IF Record \in {"invoice", "settling"}
       THEN Answered(Result("watch", TRUE, Record, FALSE, FALSE))
       ELSE call' = [call EXCEPT !.pc = "lookup",
                                 !.r = Result("watch", TRUE, Record, TRUE, FALSE)]
    /\ UNCHANGED <<paid, swap, active, told, duty>>

\* The lookup ends with a committed order or with orderWaitSeconds.
WatchLooksUp ==
    /\ call.pc = "lookup"
    /\ Answered([call.r EXCEPT !.found = Found])
    /\ UNCHANGED <<paid, swap, active, told, duty>>

Watching == call.pc \in {"check", "read", "lookup"}

\* The daemon wants the account signed in again, or cannot answer; the watch
\* runs out of time; or the call dies with the daemon's process.
WatchFails ==
    /\ Watching
    /\ \/ "refused" \in ChatFaults /\ Answered(Result("watch", FALSE, "error", FALSE, FALSE))
       \/ "timeout" \in ChatFaults
          /\ Answered(Result("watch", TRUE, "watch_timeout", FALSE, FALSE))
       \/ "lost" \in ChatFaults /\ call' = Idle
    /\ UNCHANGED <<paid, swap, active, told, duty>>

\* The answer reaches the assistant.
Respond ==
    /\ call.pc = "answered"
    /\ told' = ShownBy(call.r)
    /\ duty' = DutyAfter(call.r)
    /\ call' = Idle
    /\ UNCHANGED <<paid, swap, active>>

-----------------------------------------------------------------------------
(***************************************************************************)
(* The user, the swap and the session.                                     *)
(***************************************************************************)

\* "Did you pay the invoice?"
UserReplies ==
    /\ duty = "ask" /\ call = Idle
    /\ duty' = "watch"
    /\ UNCHANGED <<paid, swap, active, call, told>>

\* The payment itself leaves the record as it is.
UserPays ==
    /\ swap = "invoice" /\ ~paid /\ duty # "book"
    /\ paid' = TRUE
    /\ UNCHANGED <<swap, active, call, told, duty>>

\* The swap operation learns of the payment and saves its next state.
SwapNotices ==
    /\ swap = "invoice" /\ paid
    /\ swap' = "settling"
    /\ UNCHANGED <<paid, active, call, told, duty>>

InvoiceExpires ==
    /\ swap = "invoice"
    /\ swap' = "failed"
    /\ UNCHANGED <<paid, active, call, told, duty>>

SwapSettles ==
    /\ swap = "settling"
    /\ swap' \in {"completed", "failed"}
    /\ UNCHANGED <<paid, active, call, told, duty>>

\* Another conversation of the session switches to an account and back.
SwitchAccount ==
    /\ duty # "book"
    /\ active' = ~active
    /\ UNCHANGED <<paid, swap, call, told, duty>>

ChatStep ==
    \/ Book \/ Handoff \/ PaidAtOnce \/ BookEnds
    \/ WatchBegin \/ WatchChecks \/ WatchReads \/ WatchLooksUp \/ WatchFails \/ Respond
    \/ UserReplies \/ UserPays \/ SwapNotices \/ InvoiceExpires \/ SwapSettles \/ SwitchAccount

ChatNext == (ChatStep /\ UNCHANGED vars) \/ (Next /\ UNCHANGED chatVars)

ChatSpec == ChatInit /\ [][ChatNext]_bookingVars

(***************************************************************************)
(* Fairness: the assistant does its duty, the user replies in the end, and *)
(* a watch that is repeated is not refused, lost or late every time.       *)
(***************************************************************************)
Chat(A) == A /\ UNCHANGED vars

ChatFairness ==
    /\ WF_bookingVars(Chat(WatchBegin)) /\ WF_bookingVars(Chat(Respond))
    /\ WF_bookingVars(Chat(UserReplies))
    /\ SF_bookingVars(Chat(WatchChecks)) /\ SF_bookingVars(Chat(WatchReads))
    /\ SF_bookingVars(Chat(WatchLooksUp))

FairChatSpec == ChatSpec /\ ChatFairness

-----------------------------------------------------------------------------
(***************************************************************************)
(* Properties.                                                             *)
(***************************************************************************)

\* Once an invoice was handed off, the swap has completed and the trade has an
\* order, the trip card is shown, through refusals, timeouts, lost calls,
\* expired questions and switched accounts.
TripShown ==
    (duty \in {"watch", "ask"} /\ swap = "completed" /\ Found) ~> told = "trip"

\* The assistant is not told to stop on a booking that is still under way: it
\* was shown the trip, or the swap has failed, or bookAndPay itself has ended.
StopsForAReason ==
    told = "failed" \/ (duty = "stop" /\ told \notin {"trip", "error"})
        => swap = "failed"

\* An answer may show the invoice to a user who has paid it, as the record lags
\* behind the payment, and again when the record moves on while the answer is
\* on its way.  But the conversation never rests on it: once the record has left
\* the invoice, the assistant is sent for another answer, through timeouts, lost
\* calls and switched accounts, and none of them asks for the payment again.
InvoiceWithdrawn == swap \notin {"none", "invoice"} ~> [](told # "invoice")
=============================================================================
