------------------------------- MODULE TopUp -------------------------------
(***************************************************************************)
(* Wallet top-ups: src/src/wallet/top-up.service.ts.                       *)
(*                                                                         *)
(* createTopUp writes a PENDING payment order, calls the payment gateway   *)
(* outside any transaction and then stores the gateway's order id.  The    *)
(* client pays at the gateway.  The payment is credited by whichever comes *)
(* first of the client's verify call and the gateway's webhooks, which     *)
(* arrive at least once, in any order, and are processed by several        *)
(* handlers at a time.  The mock gateway's callback is not modelled.       *)
(***************************************************************************)
EXTENDS Integers, Sequences, FiniteSets

CONSTANTS Keys,          \* idempotency keys
          Creates,       \* POST /wallet/top-up requests
          KeyOf,         \* the key of each request
          Verifies,      \* POST /wallet/top-up/verify requests
          Handlers,      \* webhook deliveries in process at a time
          MaxCalls,      \* bound: orders the gateway creates
          MaxCrashes     \* bound: handlers that die half way

VARIABLES orders,   \* key |-> its payment_orders row
          credits,  \* keys whose topup-credit row is in the ledger
          gateway,  \* orders at the gateway: for which key, and how far paid
          known,    \* gateway orders a client was told to pay
          emitted,  \* webhook events the gateway has to deliver
          events,   \* payment_webhook_events: event |-> status
          create,   \* request |-> where createTopUp stands
          verify,   \* request |-> the key verify found, or "none"
          handler,  \* handler |-> the event it works on and how far it is
          crashes

client == <<gateway, known, emitted>>
vars == <<orders, credits, client, events, create, verify, handler, crashes>>

Kinds == {"authorized", "failed", "captured"}
Event == [gateway : 1..MaxCalls, kind : Kinds]
NoOrder == [status |-> "NONE", gateway |-> 0, gatewayStatus |-> "none"]
Idle == [phase |-> "idle", event |-> [gateway |-> 0, kind |-> "none"]]

Init ==
  /\ orders = [k \in Keys |-> NoOrder]
  /\ credits = {}
  /\ gateway = <<>>
  /\ known = {}
  /\ emitted = {}
  /\ events = [e \in Event |-> "NONE"]
  /\ create = [c \in Creates |-> [phase |-> "idle", gateway |-> 0]]
  /\ verify = [v \in Verifies |-> "idle"]
  /\ handler = [h \in Handlers |-> Idle]
  /\ crashes = 0

-----------------------------------------------------------------------------
(* createTopUp.                                                            *)

\* The request is answered with the order as it is; a gateway order in the
\* answer is one the client may now pay.
Respond(c, row) ==
  /\ create' = [create EXCEPT ![c] = [phase |-> "done", gateway |-> row.gateway]]
  /\ known' = known \cup ({row.gateway} \ {0})

Goto(c, phase) ==
  /\ create' = [create EXCEPT ![c].phase = phase]
  /\ UNCHANGED known

\* The first lookup, outside the transaction.
LookUp(c) ==
  LET row == orders[KeyOf[c]] IN
  /\ create[c].phase = "idle"
  /\ UNCHANGED <<orders, credits, gateway, emitted, events, verify, handler, crashes>>
  /\ \/ row.gateway # 0 /\ Respond(c, row)
     \/ row.status # "NONE" /\ row.gateway = 0 /\ Goto(c, "found")
     \/ row.status = "NONE" /\ Goto(c, "inserting")

\* The first transaction.  An order already there is the answer once it knows
\* its gateway order and goes on to the gateway before; who loses the race for
\* the unique key is answered with the winner's order as it is.
InsertOrder(c) ==
  LET k == KeyOf[c] IN
  /\ create[c].phase \in {"found", "inserting"}
  /\ UNCHANGED <<credits, gateway, emitted, events, verify, handler, crashes>>
  /\ \/ /\ orders[k].status # "NONE"
        /\ orders[k].gateway # 0 \/ create[c].phase = "inserting"
        /\ Respond(c, orders[k])
        /\ UNCHANGED orders
     \/ /\ orders[k].status # "NONE" /\ orders[k].gateway = 0
        /\ Goto(c, "calling")
        /\ UNCHANGED orders
     \/ /\ orders[k].status = "NONE"
        /\ orders' = [orders EXCEPT ![k].status = "PENDING"]
        /\ Goto(c, "calling")

\* The network call, outside any transaction.
CallGateway(c) ==
  /\ create[c].phase = "calling"
  /\ Len(gateway) < MaxCalls
  /\ gateway' = Append(gateway, [key |-> KeyOf[c], paid |-> "created"])
  /\ create' = [create EXCEPT ![c] = [phase |-> "called", gateway |-> Len(gateway) + 1]]
  /\ UNCHANGED <<orders, credits, known, emitted, events, verify, handler, crashes>>

GatewayFails(c) ==
  /\ create[c].phase = "calling"
  /\ Goto(c, "failing")
  /\ UNCHANGED <<orders, credits, gateway, emitted, events, verify, handler, crashes>>

\* The failure is written whatever has become of the order meanwhile.
RecordFailure(c) ==
  /\ create[c].phase = "failing"
  /\ orders' = [orders EXCEPT ![KeyOf[c]].status = "FAILED"]
  /\ Goto(c, "error")
  /\ UNCHANGED <<credits, gateway, emitted, events, verify, handler, crashes>>

\* The second transaction: a PENDING order, locked, takes the gateway order id.
RecordOrder(c) ==
  LET k == KeyOf[c]
      row == IF orders[k].status = "PENDING"
             THEN [orders[k] EXCEPT !.gateway = create[c].gateway] ELSE orders[k]
  IN
  /\ create[c].phase = "called"
  /\ orders' = [orders EXCEPT ![k] = row]
  /\ Respond(c, row)
  /\ UNCHANGED <<credits, gateway, emitted, events, verify, handler, crashes>>

-----------------------------------------------------------------------------
(* The client and the gateway: one order may see failed attempts before it *)
(* is paid; each change is announced by an event.                          *)

Emit(g, kind) == emitted' = emitted \cup {[gateway |-> g, kind |-> kind]}

FailAttempt(g) ==
  /\ gateway[g].paid = "created"
  /\ [gateway |-> g, kind |-> "failed"] \notin emitted
  /\ Emit(g, "failed")
  /\ UNCHANGED <<orders, credits, gateway, known, events, create, verify, handler, crashes>>

Authorize(g) ==
  /\ gateway[g].paid = "created"
  /\ gateway' = [gateway EXCEPT ![g].paid = "authorized"]
  /\ Emit(g, "authorized")
  /\ UNCHANGED <<orders, credits, known, events, create, verify, handler, crashes>>

Capture(g) ==
  /\ gateway[g].paid = "authorized"
  /\ gateway' = [gateway EXCEPT ![g].paid = "captured"]
  /\ Emit(g, "captured")
  /\ UNCHANGED <<orders, credits, known, events, create, verify, handler, crashes>>

Pay == \E g \in known : FailAttempt(g) \/ Authorize(g) \/ Capture(g)

-----------------------------------------------------------------------------
(* Crediting.                                                              *)

\* The order a gateway order id belongs to.
OrderOf(g) == {k \in Keys : orders[k].gateway = g /\ g # 0}

\* With the order locked: credit under the order's own key and mark it paid.
CreditOrder(k) ==
  /\ credits' = credits \cup {k}
  /\ orders' = [orders EXCEPT ![k].status = "SUCCESS", ![k].gatewayStatus = "captured"]

\* Mutant: authorized money is treated like captured money.
PaidEnough(g) == gateway[g].paid \in {"authorized", "captured"}

VerifiedByGateway(g) == gateway[g].paid = "captured"

\* The order is found without a lock, then the gateway is asked.
BeginVerify(v) ==
  /\ verify[v] = "idle"
  /\ \E g \in known : \E k \in OrderOf(g) :
       /\ VerifiedByGateway(g)
       /\ verify' = [verify EXCEPT ![v] = k]
  /\ UNCHANGED <<orders, credits, client, events, create, handler, crashes>>

\* A paid order is answered again, a FAILED one refuses to become SUCCESS.
FinishVerify(v) ==
  LET k == verify[v] IN
  /\ k \in Keys
  /\ verify' = [verify EXCEPT ![v] = "done"]
  /\ \/ orders[k].status = "PENDING" /\ CreditOrder(k)
     \/ orders[k].status # "PENDING" /\ UNCHANGED <<orders, credits>>
  /\ UNCHANGED <<client, events, create, handler, crashes>>

-----------------------------------------------------------------------------
(* processGatewayWebhook.                                                  *)

\* Mutant: an event already recorded is taken for a duplicate.
DeliverOnce(h, e) ==
  /\ handler[h] = Idle
  /\ e \in emitted
  /\ events[e] = "NONE"
  /\ events' = [events EXCEPT ![e] = "PENDING"]
  /\ handler' = [handler EXCEPT ![h] = [phase |-> "recorded", event |-> e]]
  /\ UNCHANGED <<orders, credits, client, create, verify, crashes>>

\* The gateway delivers an event until it is acknowledged, and may deliver it
\* again after that; a processed one is answered at once.
Deliver(h, e) ==
  /\ handler[h] = Idle
  /\ e \in emitted
  /\ events[e] # "PROCESSED"
  /\ events' = [events EXCEPT ![e] = "PENDING"]
  /\ handler' = [handler EXCEPT ![h] = [phase |-> "recorded", event |-> e]]
  /\ UNCHANGED <<orders, credits, client, create, verify, crashes>>

HandlerGoesTo(h, phase) == handler' = [handler EXCEPT ![h].phase = phase]

Working(h, kind) == handler[h].phase = "recorded" /\ handler[h].event.kind = kind

\* payment.authorized only updates the gateway's status, on whatever order.
HandleAuthorized(h) ==
  /\ Working(h, "authorized")
  /\ orders' = [k \in Keys |->
                  IF k \in OrderOf(handler[h].event.gateway)
                  THEN [orders[k] EXCEPT !.gatewayStatus = "authorized"] ELSE orders[k]]
  /\ HandlerGoesTo(h, "handled")
  /\ UNCHANGED <<credits, client, events, create, verify, crashes>>

\* payment.failed fails an order that is still PENDING.
HandleFailed(h) ==
  /\ Working(h, "failed")
  /\ orders' = [k \in Keys |->
                  IF k \in OrderOf(handler[h].event.gateway) /\ orders[k].status = "PENDING"
                  THEN [orders[k] EXCEPT !.status = "FAILED", !.gatewayStatus = "failed"]
                  ELSE orders[k]]
  /\ HandlerGoesTo(h, "handled")
  /\ UNCHANGED <<credits, client, events, create, verify, crashes>>

\* Mutant: a payment nothing can be done with is acknowledged.
HandleCapturedQuietly(h) ==
  /\ Working(h, "captured")
  /\ \/ \E k \in OrderOf(handler[h].event.gateway) : CreditOrder(k)
     \/ UNCHANGED <<orders, credits>>
  /\ HandlerGoesTo(h, "handled")
  /\ UNCHANGED <<client, events, create, verify, crashes>>

\* payment.captured credits; an order that is unknown or FAILED makes the
\* delivery fail, to be repeated.
HandleCaptured(h) ==
  LET found == OrderOf(handler[h].event.gateway) IN
  /\ Working(h, "captured")
  /\ \/ /\ \E k \in found : orders[k].status = "PENDING" /\ CreditOrder(k)
        /\ HandlerGoesTo(h, "handled")
     \/ /\ \E k \in found : orders[k].status = "SUCCESS"
        /\ HandlerGoesTo(h, "handled")
        /\ UNCHANGED <<orders, credits>>
     \/ /\ \A k \in found : orders[k].status = "FAILED"
        /\ handler' = [handler EXCEPT ![h] = Idle]
        /\ UNCHANGED <<orders, credits>>
  /\ UNCHANGED <<client, events, create, verify, crashes>>

Handle(h) == HandleAuthorized(h) \/ HandleFailed(h) \/ HandleCaptured(h)

\* A separate statement marks the event PROCESSED.
Acknowledge(h) ==
  /\ handler[h].phase = "handled"
  /\ events' = [events EXCEPT ![handler[h].event] = "PROCESSED"]
  /\ handler' = [handler EXCEPT ![h] = Idle]
  /\ UNCHANGED <<orders, credits, client, create, verify, crashes>>

\* The process dies between the statements of a delivery.
Crash(h) ==
  /\ handler[h] # Idle
  /\ crashes < MaxCrashes
  /\ crashes' = crashes + 1
  /\ handler' = [handler EXCEPT ![h] = Idle]
  /\ UNCHANGED <<orders, credits, client, events, create, verify>>

-----------------------------------------------------------------------------
CreateStep(c) ==
  \/ LookUp(c) \/ InsertOrder(c) \/ CallGateway(c) \/ GatewayFails(c)
  \/ RecordFailure(c) \/ RecordOrder(c)

Webhook(h) == (\E e \in Event : Deliver(h, e)) \/ Handle(h) \/ Acknowledge(h)

\* No request is half way (one at the gateway may be past MaxCalls).
Quiescent ==
  /\ \A c \in Creates : create[c].phase \in {"done", "error", "calling"}
  /\ \A h \in Handlers : handler[h] = Idle
  /\ UNCHANGED vars

Next ==
  \/ \E c \in Creates : CreateStep(c)
  \/ Pay
  \/ \E v \in Verifies : BeginVerify(v) \/ FinishVerify(v)
  \/ \E h \in Handlers : Webhook(h) \/ Crash(h)
  \/ Quiescent

Captured(g) == [gateway |-> g, kind |-> "captured"]

\* The gateway repeats the capture until it is acknowledged and handlers finish.
Fairness ==
  /\ \A g \in 1..MaxCalls : SF_vars(\E h \in Handlers : Deliver(h, Captured(g)))
  /\ \A h \in Handlers : WF_vars(Handle(h)) /\ WF_vars(Acknowledge(h))

Spec == Init /\ [][Next]_vars /\ Fairness

-----------------------------------------------------------------------------
(* Properties.                                                             *)

Statuses == {"NONE", "PENDING", "SUCCESS", "FAILED"}
CreatePhases == {"idle", "found", "inserting", "calling", "called", "failing", "error", "done"}

\* Every table and process is in one of its states.
TypeOK ==
  /\ orders \in [Keys -> [status : Statuses, gateway : Nat,
                          gatewayStatus : Kinds \cup {"none"}]]
  /\ credits \subseteq Keys
  /\ gateway \in Seq([key : Keys, paid : {"created", "authorized", "captured"}])
  /\ known \subseteq DOMAIN gateway
  /\ emitted \subseteq Event
  /\ events \in [Event -> {"NONE", "PENDING", "PROCESSED"}]
  /\ create \in [Creates -> [phase : CreatePhases, gateway : 0..Len(gateway)]]
  /\ verify \in [Verifies -> Keys \cup {"idle", "done"}]
  /\ handler \in [Handlers -> {Idle} \cup [phase : {"recorded", "handled"}, event : emitted]]
  /\ crashes \in 0..MaxCrashes

\* Points are credited only for money the gateway captured for the same order.
CreditIsPaidFor ==
  \A k \in credits : \E g \in DOMAIN gateway :
    gateway[g].key = k /\ gateway[g].paid = "captured"

\* A captured event is acknowledged for good only when its order was credited:
\* a crash or a failure before that leaves it to be delivered again.
AcknowledgedIsCredited ==
  \A e \in Event : e.kind = "captured" /\ events[e] = "PROCESSED" =>
    gateway[e.gateway].key \in credits

\* A payment captured on the gateway order its payment order knows is
\* eventually credited, or the payment order failed or moved on meanwhile.
CapturedIsCredited ==
  \A k \in Keys, g \in 1..MaxCalls :
    (orders[k].gateway = g /\ orders[k].status = "PENDING" /\ gateway[g].paid = "captured")
      ~> (k \in credits \/ orders[k].status = "FAILED" \/ orders[k].gateway # g)

\* payment-order.state-machine.ts: terminal -> different terminal (rejected).
TerminalIsFinal ==
  [][\A k \in Keys : orders[k].status \in {"SUCCESS", "FAILED"} =>
       orders'[k].status = orders[k].status]_vars

-----------------------------------------------------------------------------
(* What TLAPS proves of top-ups, for any keys, requests, handlers and      *)
(* bounds that fit together: points stand for captured money, and a        *)
(* captured payment is acknowledged only once its points are there.        *)

\* Requests have keys, and no key is taken for a state of a verify request.
Parameters ==
  /\ KeyOf \in [Creates -> Keys] /\ Keys \cap {"idle", "done"} = {}
  /\ MaxCalls \in Nat /\ MaxCrashes \in Nat

\* A gateway order a payment order knows, or is about to be told, was made for it.
OrdersKnowTheirs ==
  /\ \A k \in Keys : orders[k].gateway # 0 =>
       orders[k].gateway \in DOMAIN gateway /\ gateway[orders[k].gateway].key = k
  /\ \A c \in Creates : create[c].phase = "called" =>
       create[c].gateway \in DOMAIN gateway /\ gateway[create[c].gateway].key = KeyOf[c]

Paid(k) == \E g \in DOMAIN gateway : gateway[g].key = k /\ gateway[g].paid = "captured"

\* The gateway announces only what happened, and a verify request that goes on
\* has seen captured money.
AnnouncedIsTrue ==
  /\ \A e \in emitted : /\ e.gateway \in DOMAIN gateway
                        /\ e.kind = "captured" => gateway[e.gateway].paid = "captured"
  /\ \A e \in Event : events[e] # "NONE" => e \in emitted
  /\ \A v \in Verifies : verify[v] \in Keys => Paid(verify[v])

\* An order is a success because its points were credited, and a handler that
\* is through with a capture has seen to that.
SuccessIsCredited ==
  /\ \A k \in Keys : orders[k].status = "SUCCESS" => k \in credits
  /\ \A h \in Handlers : handler[h].phase = "handled" /\ handler[h].event.kind = "captured" =>
       gateway[handler[h].event.gateway].key \in credits

\* The bound on the calls is kept.
CallsBounded == Len(gateway) <= MaxCalls

\* The rows of the two tables.
GatewayOrder == [key : Keys, paid : {"created", "authorized", "captured"}]
OrderRow == [status : Statuses, gateway : Nat, gatewayStatus : Kinds \cup {"none"}]

TopUpInv ==
  /\ TypeOK /\ CallsBounded /\ OrdersKnowTheirs /\ AnnouncedIsTrue /\ SuccessIsCredited
  /\ CreditIsPaidFor /\ AcknowledgedIsCredited

=============================================================================
