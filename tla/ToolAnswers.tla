------------------------------ MODULE ToolAnswers ------------------------------
(***************************************************************************)
(* What a hostr tool answers (mcp/server.ts): toolResponse turns a result  *)
(* of the daemon into cards, a display and links.  The tool was registered *)
(* with an output schema, which the MCP library holds every answer to that *)
(* is not an error; the two are kept thousands of lines apart.  An answer  *)
(* with an invoice or a login stores the files its links serve.            *)
(***************************************************************************)
EXTENDS PaymentAssets, FiniteSetsExt

VARIABLE answer     \* what a tool has just answered, if it was the last to happen

answerVars == <<assetVars, answer>>

OrderTools == {"watch", "trips", "bookings", "review"}
ThreadTools == {"updates", "thread"}
TradeTools == {"trades", "trade", "arbitrate"}
BadgeTools == {"badges", "badge"}
ProfileTools == {"profile", "profile edit"}
\* The tools that are answered alike, by the name of their family.
Tools == OrderTools \cup ThreadTools \cup TradeTools \cup BadgeTools \cup ProfileTools
            \cup {"listings", "book", "connect", "service", "other"}

\* What a result of the daemon holds: records to make cards of, dryRun, an
\* order that was found, a login that is pending, an invoice to pay.
Results(tool) ==
    {r \in [ok : BOOLEAN, items : 0..2, dryRun : BOOLEAN, found : BOOLEAN,
            pending : BOOLEAN, invoice : BOOLEAN] :
        /\ r.found => tool \in {"watch", "trips", "bookings"} /\ r.items > 0
        /\ r.invoice => tool \in {"book", "watch", "other"} /\ ~r.found
        /\ r.pending => tool = "connect"
        /\ r.items > 0 => tool \notin ProfileTools \cup {"review", "book", "connect", "other"}
        /\ r.dryRun => tool \in ProfileTools \cup TradeTools \cup BadgeTools \cup {"service"}
        /\ ~r.ok => r.items = 0 /\ ~r.found /\ ~r.invoice /\ ~r.pending}

-----------------------------------------------------------------------------
(***************************************************************************)
(* The displays of an answer, each made from its own kind of card.         *)
(***************************************************************************)
OneOrMore(r, one, more) == IF r.items = 1 THEN one ELSE more

ListingDisplay(tool, r) ==
    IF tool = "listings" /\ r.items > 0
    THEN OneOrMore(r, "listing-card", "listing-card-list") ELSE None

OrderDisplay(tool, r) ==
    IF ~r.found THEN None
    ELSE IF tool = "bookings" THEN OneOrMore(r, "hosting-card", "hosting-card-list")
    ELSE OneOrMore(r, "trip-card", "trip-card-list")

\* A profile without metadata makes a card too.
ProfileDisplay(tool, r) ==
    IF tool \notin ProfileTools \/ ~r.ok THEN None
    ELSE IF r.dryRun THEN "profile-preview"
    ELSE IF tool = "profile edit" THEN "profile-result" ELSE "profile-card"

ThreadCardDisplay(tool, r) ==
    IF tool = "updates" /\ r.items > 0 THEN "thread-card-list" ELSE None
ThreadViewDisplay(tool, r) ==
    IF tool = "thread" /\ r.items > 0 THEN "thread-view" ELSE None

TradeDisplay(tool, r) ==
    IF tool \notin TradeTools \/ r.items = 0 THEN None
    ELSE CASE tool = "trades" -> "escrow-trade-list"
           [] tool = "trade" -> "escrow-trade-view"
           [] OTHER -> IF r.dryRun THEN "escrow-arbitration-preview"
                       ELSE "escrow-arbitration-result"

ServiceDisplay(tool, r) ==
    IF tool # "service" \/ r.items = 0 THEN None
    ELSE IF r.dryRun THEN "escrow-service-preview" ELSE "escrow-service-result"

BadgeDisplay(tool, r) ==
    IF tool \notin BadgeTools \/ r.items = 0 THEN None
    ELSE IF r.dryRun THEN "escrow-badge-preview"
    ELSE IF tool = "badges" THEN "escrow-badge-list" ELSE "escrow-badge-result"

ConnectDisplay(tool, r) == IF tool = "connect" /\ r.pending THEN "nostr-connect" ELSE None

\* paymentDisplay gives way to listing, order and thread cards.
PaymentDisplay(tool, r) ==
    IF r.invoice /\ \A d \in {ListingDisplay(tool, r), OrderDisplay(tool, r),
                              ThreadCardDisplay(tool, r), ThreadViewDisplay(tool, r)} : d = None
    THEN "payment-external-required" ELSE None

\* The card of a kind, if the answer has one.
Card(kind, tool, r) ==
    CASE kind = "connect" -> ConnectDisplay(tool, r)
      [] kind = "listing" -> ListingDisplay(tool, r)
      [] kind = "order" -> OrderDisplay(tool, r)
      [] kind = "profile" -> ProfileDisplay(tool, r)
      [] kind = "thread card" -> ThreadCardDisplay(tool, r)
      [] kind = "thread view" -> ThreadViewDisplay(tool, r)
      [] kind = "trade" -> TradeDisplay(tool, r)
      [] kind = "service" -> ServiceDisplay(tool, r)
      [] kind = "badge" -> BadgeDisplay(tool, r)
      [] kind = "payment" -> PaymentDisplay(tool, r)

Made(order, tool, r) == {k \in DOMAIN order : Card(order[k], tool, r) # None}
LastOf(order, tool, r) ==
    LET present == Made(order, tool, r)
    IN  IF present = {} THEN None ELSE Card(order[Max(present)], tool, r)
FirstOf(order, tool, r) ==
    LET present == Made(order, tool, r)
    IN  IF present = {} THEN None ELSE Card(order[Min(present)], tool, r)

\* structuredContent.display is written by each in turn and the last one stays.
DisplayOrder == <<"connect", "listing", "order", "profile", "thread card",
                  "thread view", "trade", "service", "badge", "payment">>
Display(tool, r) == LastOf(DisplayOrder, tool, r)

\* So is "hostr.display" of _meta, in another order.
MetaOrder == <<"listing", "order", "profile", "payment", "thread card",
               "thread view", "trade", "service", "badge", "connect">>
MetaDisplay(tool, r) == LastOf(MetaOrder, tool, r)

\* The widget is chosen for the first of those that have one.
WidgetOrder == <<"payment", "connect", "listing", "profile", "order">>
WidgetDisplay(tool, r) == FirstOf(WidgetOrder, tool, r)

\* content[0] names the first as well; lists of threads and badges it leaves out.
ContentOrder == <<"listing", "order", "profile", "thread view", "trade", "service",
                  "payment", "connect">>
ContentDisplay(tool, r) == FirstOf(ContentOrder, tool, r)

Alike(tool, r) ==
    /\ MetaDisplay(tool, r) = Display(tool, r)
    /\ {WidgetDisplay(tool, r), ContentDisplay(tool, r)} \subseteq {None, Display(tool, r)}

-----------------------------------------------------------------------------
(***************************************************************************)
(* The displays each output schema allows.                                 *)
(***************************************************************************)
ListingSchema == {"listing-card", "listing-card-list"}
\* Mutated form of OrderSchema: a watch may not show an invoice.
OrderSchemaOfCards == {"order-card", "order-card-list", "trip-card", "trip-card-list",
                       "hosting-card", "hosting-card-list"}
OrderSchema == {"order-card", "order-card-list", "trip-card", "trip-card-list",
                "hosting-card", "hosting-card-list", "payment-external-required"}
PaymentSchema == {"payment-external-required"}
ConnectSchema == {"nostr-connect"}
ProfileSchema == {"profile-card", "profile-preview", "profile-result"}
ThreadSchema == {"thread-card-list", "thread-view"}
TradeSchema == {"escrow-trade-list", "escrow-trade-view", "escrow-arbitration-preview",
                "escrow-arbitration-result"}
ServiceSchema == {"escrow-service-preview", "escrow-service-result"}
BadgeSchema == {"escrow-badge-list", "escrow-badge-preview", "escrow-badge-result"}

\* registerTool: the outputSchema of a tool.
Schema(tool) ==
    CASE tool = "listings" -> ListingSchema
      [] tool = "connect" -> ConnectSchema
      [] tool \in ProfileTools -> ProfileSchema
      [] tool = "book" -> PaymentSchema
      [] tool \in OrderTools -> OrderSchema
      [] tool \in ThreadTools -> ThreadSchema
      [] tool \in TradeTools -> TradeSchema
      [] tool = "service" -> ServiceSchema
      [] OTHER -> BadgeSchema

\* The library's check.  The schema of a tool of no special kind passes any
\* display; bookAndPay's is the one that requires a display (and the status
\* "payment_required", which goes with it).
Fits(tool, display) ==
    \/ tool = "other"
    \/ display = None /\ tool # "book"
    \/ tool # "other" /\ display \in Schema(tool)

-----------------------------------------------------------------------------
\* The invoice, or the login URI, gets links.  The QR of an invoice is stored
\* only where no service draws it.
Links(tool, r) == r.invoice \/ (tool = "connect" /\ r.pending)

\* How an answer ends: given, or an error for a cause.
Given(tool, r) ==
    [tool |-> tool, invoice |-> r.invoice, links |-> Links(tool, r),
     alike |-> Alike(tool, r),
     end |-> IF ~r.ok THEN "daemon"
             ELSE IF Fits(tool, Display(tool, r)) THEN "given" ELSE "schema"]

Answers == UNION {{Given(tool, r) : r \in Results(tool)} : tool \in Tools}

AnswerPlain(a) ==
    /\ ~a.links
    /\ answer' = a
    /\ served' = None /\ UNCHANGED <<clock, mem, disk, made, handed, unread>>

AnswerWithLinks(a, i, qr) ==
    /\ a.links
    /\ \/ /\ Store(i, [at |-> clock, qr |-> qr])
          /\ answer' = a
       \/ /\ StoreThrows(i, [at |-> clock, qr |-> qr])
          /\ answer' = [a EXCEPT !.end = "store"]

\* The process stops while it stores: nobody is answered.
AnswerCut(i, qr) == StoreCut(i, [at |-> clock, qr |-> qr]) /\ answer' = None

Init == AssetInit /\ answer = None

Next ==
    \/ \E a \in Answers :
        \/ AnswerPlain(a)
        \/ \E i \in Ids, qr \in BOOLEAN : AnswerWithLinks(a, i, qr)
    \/ \E i \in Ids, qr \in BOOLEAN : AnswerCut(i, qr)
    \/ AssetStep /\ answer' = None

Spec == Init /\ [][Next]_answerVars

-----------------------------------------------------------------------------
(***************************************************************************)
(* Properties.                                                             *)
(***************************************************************************)

\* What a tool has done is not answered with a schema error: whichever cards
\* the answer is made of, the tool was registered for them.  A booking that
\* needs no payment is apart (BookedIsTold).  And the four places of an answer
\* that name what is shown name the same.
AnswersFit ==
    answer # None =>
        /\ answer.end = "schema" => answer.tool = "book" /\ ~answer.invoice
        /\ answer.alike

\* hostr_orders_bookAndPay "may return a payment QR widget" (server.ts:460)
\* and may not: a booking that a wallet of the session has paid is told.
BookedIsTold == answer # None /\ answer.tool = "book" => answer.end # "schema"
=============================================================================
