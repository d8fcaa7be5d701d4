-------------------------- MODULE StorefrontProofs --------------------------
(***************************************************************************)
(* StorefrontInv is inductive, for any number of requests, variants and    *)
(* prices, and with it the screen follows the cart and an order is charged *)
(* as agreed.                                                              *)
(***************************************************************************)
EXTENDS Storefront, FiniteTheorems, TLAPS

USE DEF NoOutcome

-----------------------------------------------------------------------------
(* What the pieces are. *)

\* The line a change leaves is one a cart can have.
LEMMA ChangedIsALine ==
    ASSUME StorefrontTypeOK, NEW o \in Ops \ {Read},
           o.kind = "set" => cart[o.of].quantity > 0
    PROVE  Changed(o) \in Lines
<1> DEFINE sum == IF o.kind = "add" THEN cart[o.of].quantity + o.n ELSE o.n
           n   == IF sum > MAX_LINE_QUANTITY THEN MAX_LINE_QUANTITY ELSE sum
<1>0. o \in [kind : {"add"}, of : Variants, n : Quantities \ {0}]
         \cup [kind : {"set"}, of : Variants, n : Quantities]
  BY DEF Ops
<1>1. /\ o.of \in Variants /\ o.n \in Nat
      /\ o.kind = "add" => o.n > 0
      /\ o.kind \in {"add", "set"}
  <2>1. \A q \in Quantities : q \in Nat /\ (q # 0 => q > 0)
    BY StorefrontAssumption DEF StorefrontAssumption
  <2>2. /\ o.of \in Variants /\ o.n \in Quantities
        /\ o.kind = "add" => o.n # 0
        /\ o.kind \in {"add", "set"}
    BY <1>0
  <2> QED BY <2>1, <2>2
<1>2. /\ cart[o.of] \in Lines
      /\ price[o.of] \in Prices
  BY <1>1 DEF StorefrontTypeOK, Carts
<1>3. cart[o.of].quantity \in Nat
  BY <1>2, StorefrontAssumption DEF Lines, NoLine, StorefrontAssumption
<1>4. cart[o.of].quantity > 0 => cart[o.of].noted \in Prices
  BY <1>2 DEF Lines, NoLine
<1>5. n \in 0..MAX_LINE_QUANTITY
  BY <1>1, <1>3, StorefrontAssumption DEF StorefrontAssumption
<1>6. o.kind = "set" => cart[o.of].noted \in Prices
  BY <1>4
<1>7. n # 0 => [quantity |-> n,
               noted |-> IF o.kind = "add" THEN price[o.of] ELSE cart[o.of].noted] \in Lines
  BY <1>1, <1>2, <1>5, <1>6 DEF Lines
<1> QED BY <1>7 DEF Changed, Lines

\* What the router answers is a CartOut.
LEMMA AnswersAreTyped ==
    ASSUME StorefrontTypeOK, NEW lines \in Carts, NEW no \in Nat, NEW whole \in BOOLEAN
    PROVE  CartOut(lines, no, whole) \in CartOuts
<1>1. QuantitiesOf(lines) \in [Variants -> 0..MAX_LINE_QUANTITY]
  BY StorefrontAssumption DEF QuantitiesOf, Carts, Lines, NoLine, StorefrontAssumption
<1>2. Totals(QuantitiesOf(lines), price) \in AllTotals
  BY <1>1 DEF AllTotals, StorefrontTypeOK
<1>3. Drifted(lines) \subseteq Variants
  BY DEF Drifted
<1> QED BY <1>1, <1>2, <1>3 DEF CartOut, CartOuts

\* A cart with a line of a request is a cart.
LEMMA CartsWithLines ==
    ASSUME StorefrontTypeOK, NEW lines \in Carts, NEW r \in Requests
    PROVE  WithLine(lines, r) \in Carts
<1>1. request[r].line \in Lines /\ request[r].op \in Ops
  BY DEF StorefrontTypeOK, RequestTypes
<1> QED BY <1>1 DEF WithLine, Carts

\* The record a request starts from.
LEMMA IdleIsTyped ==
    /\ Idle \in RequestTypes
    /\ EmptyCart \in Carts /\ NoLine \in Lines /\ Read \in Ops
<1>1. NoLine \in Lines /\ Read \in Ops
  BY DEF Lines, Ops
<1>2. EmptyCart \in Carts
  BY <1>1 DEF EmptyCart, Carts
<1> QED BY <1>1, <1>2 DEF Idle, RequestTypes

\* Initially nothing is shown, asked or ordered.
LEMMA InitEstablishes == StorefrontInit => AgreementInv
<1> SUFFICES ASSUME StorefrontInit PROVE AgreementInv
  OBVIOUS
<1> USE DEF StorefrontInit
<1>1. StorefrontTypeOK
  <2>1. request \in [Requests -> RequestTypes]
    BY IdleIsTyped
  <2>2. \A r \in Requests : request[r].step = "answered" <=> request[r].answer # Nothing
    BY DEF Idle
  <2>3. NoOrder \in [step : {"idle", "reported", "loaded"}, accept : BOOLEAN, lines : Carts,
                     since : Nat, repriced : SUBSET Variants,
                     unit : [Variants -> Prices \cup {0}]]
    BY IdleIsTyped DEF NoOrder
  <2>4. 0 \in 0..MaxEvents
    BY StorefrontAssumption DEF StorefrontAssumption
  <2> QED BY <2>1, <2>2, <2>3, <2>4, IdleIsTyped DEF StorefrontTypeOK
<1>2. RequestsInOrder
  BY DEF RequestsInOrder, InFlight, Idle
<1>3. FollowsFrom(0)
  BY DEF FollowsFrom, Idle
<1>4. ViewFollows
  BY <1>3 DEF ViewFollows
<1> QED BY <1>1, <1>2, <1>4 DEF AgreementInv, CheckoutHolds, NoOrder, ChargedAsAgreed

-----------------------------------------------------------------------------
(* The browser. *)

\* What the order knows and was does not change with the page.
LEMMA PagesLeaveOrders ==
    ASSUME AgreementInv, UNCHANGED <<price, cart, checkout, outcome, clock>>
    PROVE  CheckoutHolds' /\ ChargedAsAgreed'
  BY DEF AgreementInv, CheckoutHolds, ChargedAsAgreed

\* Once a second request is sent, none is alone.
LEMMA SendKeeps ==
    ASSUME AgreementInv, NEW r \in Requests, NEW o \in Ops, Send(r, o)
    PROVE  AgreementInv'
<1>0. StorefrontTypeOK /\ RequestsInOrder /\ ViewFollows
  BY DEF AgreementInv
<1>a. /\ request \in [Requests -> RequestTypes]
      /\ \A s \in Requests : request[s] \in RequestTypes
  BY <1>0 DEF StorefrontTypeOK
<1>b. /\ request[r].step = "idle"
      /\ UNCHANGED <<price, cart, view, checkout, outcome, clock, doubt>>
      /\ events < MaxEvents /\ events' = events + 1
  BY DEF Send
<1>c. /\ request' \in [Requests -> RequestTypes]
      /\ request'[r] = [Idle EXCEPT !.step = "sent", !.op = o, !.alone = (InFlight = {})]
      /\ \A s \in Requests \ {r} :
            request'[s] = [request[s] EXCEPT !.alone = (request[s].step = "idle")]
  <2>1. [Idle EXCEPT !.step = "sent", !.op = o, !.alone = (InFlight = {})] \in RequestTypes
    BY IdleIsTyped DEF RequestTypes
  <2>2. \A s \in Requests :
           [request[s] EXCEPT !.alone = (request[s].step = "idle")] \in RequestTypes
    BY <1>a DEF RequestTypes
  <2> QED BY <2>1, <2>2 DEF Send
<1>1. /\ request'[r].step = "sent" /\ request'[r].base = "current"
      /\ request'[r].answer = Nothing
      /\ request'[r].alone <=> InFlight = {}
  BY <1>c DEF Idle
<1>2. \A s \in Requests \ {r} :
         /\ request'[s].step = request[s].step /\ request'[s].base = request[s].base
         /\ request'[s].loaded = request[s].loaded /\ request'[s].answer = request[s].answer
         /\ request[s].step # "idle" => ~request'[s].alone
  BY <1>a, <1>c DEF RequestTypes
<1>3. InFlight' = InFlight \cup {r}
  BY <1>1, <1>2, <1>b DEF InFlight
<1>4. StorefrontTypeOK'
  <2>1. events' \in 0..MaxEvents
    BY <1>0, <1>b, StorefrontAssumption DEF StorefrontTypeOK, StorefrontAssumption
  <2>2. \A s \in Requests : request'[s].step = "answered" <=> request'[s].answer # Nothing
    BY <1>0, <1>1, <1>2 DEF StorefrontTypeOK
  <2> QED BY <1>0, <1>b, <1>c, <2>1, <2>2 DEF StorefrontTypeOK
<1>5. RequestsInOrder'
  BY <1>0, <1>1, <1>2, <1>3, <1>b DEF RequestsInOrder, InFlight
<1>6. ViewFollows'
  <2> PICK n \in 0..clock : FollowsFrom(n)
    BY <1>0 DEF ViewFollows
  <2>1. view' # Nothing => Stands(view, n)'
    BY <1>b DEF FollowsFrom, Stands, Drifted
  <2>2. \A s \in Requests :
           request'[s].step = "answered" =>
              /\ Stands(request[s].answer, n)'
              /\ ~request'[s].alone
    BY <1>1, <1>2, <1>b DEF FollowsFrom, Stands, Drifted
  <2>3. \A s \in InFlight : Brings(s, n) => Brings(s, n)'
    BY <1>1, <1>2, <1>b DEF Brings, InFlight
  <2> QED BY <1>3, <1>b, <2>1, <2>2, <2>3 DEF FollowsFrom, ViewFollows
<1> QED BY <1>4, <1>5, <1>6, <1>b, PagesLeaveOrders DEF AgreementInv

\* A request that goes on, or fails, brings whatever is missing later.
LEMMA MovesKeep ==
    ASSUME AgreementInv, NEW r \in Requests, NEW u \in RequestTypes, Becomes(r, u),
           UNCHANGED <<price, cart, view, checkout, outcome, clock, doubt, events>>,
           request[r].step # "idle", u.step \in {"sent", "acting", "failed"},
           u.answer = Nothing, u.alone <=> request[r].alone,
           u.step = "sent" => u.base = "current",
           u.step = "acting" => /\ u.base = "current" => u.loaded = cart
                                /\ u.alone => u.base = "current"
    PROVE  AgreementInv'
<1>0. StorefrontTypeOK /\ RequestsInOrder /\ ViewFollows
  BY DEF AgreementInv
<1>a. request \in [Requests -> RequestTypes]
  BY <1>0 DEF StorefrontTypeOK
<1>b. /\ request' \in [Requests -> RequestTypes]
      /\ request'[r] = u
      /\ \A s \in Requests \ {r} : request'[s] = request[s]
  BY <1>a DEF Becomes
<1>1. InFlight' = InFlight
  BY <1>b DEF InFlight
<1>2. StorefrontTypeOK'
  <2>1. \A s \in Requests : request'[s].step = "answered" <=> request'[s].answer # Nothing
    BY <1>0, <1>b DEF StorefrontTypeOK
  <2> QED BY <1>0, <1>b, <2>1 DEF StorefrontTypeOK
<1>3. RequestsInOrder'
  BY <1>0, <1>1, <1>b DEF RequestsInOrder, InFlight
<1>4. ViewFollows'
  <2> PICK n \in 0..clock : FollowsFrom(n)
    BY <1>0 DEF ViewFollows
  <2>1. view' # Nothing => Stands(view, n)'
    BY DEF FollowsFrom, Stands, Drifted
  <2>2. \A s \in Requests \ {r} : Stands(request[s].answer, n) => Stands(request[s].answer, n)'
    BY <1>b DEF Stands, Drifted
  <2>3. \A s \in InFlight : Brings(s, n) => Brings(s, n)'
    BY <1>b DEF Brings, InFlight
  <2>4. request'[r].step # "answered"
    BY <1>b
  <2> QED BY <1>1, <1>b, <2>1, <2>2, <2>3, <2>4 DEF FollowsFrom, ViewFollows
<1> QED BY <1>2, <1>3, <1>4, PagesLeaveOrders DEF AgreementInv

\* The re-sync, and every failure before the answer is on the screen.
LEMMA ResyncKeeps ==
    ASSUME AgreementInv, NEW r \in Requests, Resync(r)
    PROVE  AgreementInv'
<1> DEFINE u == [Idle EXCEPT !.step = "sent", !.resync = TRUE, !.alone = request[r].alone]
<1>1. request[r] \in RequestTypes
  BY DEF AgreementInv, StorefrontTypeOK
<1>2. u \in RequestTypes
  BY <1>1, IdleIsTyped DEF RequestTypes
<1>3. /\ u.step = "sent" /\ u.base = "current" /\ u.answer = Nothing
      /\ u.alone <=> request[r].alone
  BY DEF Idle
<1>4. Becomes(r, u) /\ request[r].step = "failed"
      /\ UNCHANGED <<price, cart, view, checkout, outcome, clock, doubt, events>>
  BY DEF Resync
<1> HIDE DEF u
<1> QED BY <1>2, <1>3, <1>4, MovesKeep

LEMMA FailKeeps ==
    ASSUME AgreementInv, NEW r \in Requests, Fail(r)
    PROVE  AgreementInv'
<1> DEFINE u == [Idle EXCEPT !.step = "failed", !.resync = request[r].resync,
                             !.alone = request[r].alone]
<1>1. request[r] \in RequestTypes
  BY DEF AgreementInv, StorefrontTypeOK
<1>2. u \in RequestTypes
  BY <1>1, IdleIsTyped DEF RequestTypes
<1>3. /\ u.step = "failed" /\ u.answer = Nothing
      /\ u.alone <=> request[r].alone
  BY DEF Idle
<1>4. Becomes(r, u) /\ request[r].step # "idle"
      /\ UNCHANGED <<price, cart, view, checkout, outcome, clock, doubt, events>>
  BY DEF Fail
<1> HIDE DEF u
<1> QED BY <1>2, <1>3, <1>4, MovesKeep

\* What a request reads is the cart as it is.
LEMMA ActKeeps ==
    ASSUME AgreementInv, NEW r \in Requests, Act(r)
    PROVE  AgreementInv'
<1> DEFINE o == request[r].op
           line == IF o = Read THEN NoLine ELSE Changed(o)
           u == [request[r] EXCEPT !.step = "acting", !.loaded = cart, !.line = line]
<1>0. StorefrontTypeOK /\ RequestsInOrder
  BY DEF AgreementInv
<1>1. /\ request[r] \in RequestTypes /\ cart \in Carts /\ o \in Ops
      /\ request[r].step = "answered" <=> request[r].answer # Nothing
  BY <1>0 DEF StorefrontTypeOK, RequestTypes
<1>2. request[r].step = "sent" /\ (o.kind = "set" => cart[o.of].quantity > 0)
  BY DEF Act
<1>3. line \in Lines
  BY <1>0, <1>1, <1>2, ChangedIsALine, IdleIsTyped
<1>4. Becomes(r, u) /\ UNCHANGED <<price, cart, view, checkout, outcome, clock, doubt, events>>
  BY DEF Act
<1> HIDE DEF line
<1>5. u \in RequestTypes
  BY <1>1, <1>3 DEF RequestTypes
<1>6. request[r].base = "current"
  BY <1>0, <1>2 DEF RequestsInOrder, InFlight
<1>7. /\ u.step = "acting" /\ u.answer = Nothing /\ u.loaded = cart
      /\ u.base = "current"
      /\ u.alone <=> request[r].alone
  BY <1>1, <1>2, <1>6 DEF RequestTypes
<1> HIDE DEF u
<1> QED BY <1>2, <1>4, <1>5, <1>7, MovesKeep

\* A request that is over leaves the others as they are.
LEMMA RequestsEnd ==
    ASSUME StorefrontTypeOK, RequestsInOrder, NEW r \in Requests, request[r].step # "idle",
           Becomes(r, Idle), UNCHANGED cart
    PROVE  /\ request' \in [Requests -> RequestTypes]
           /\ \A s \in Requests : request'[s].step = "answered" <=> request'[s].answer # Nothing
           /\ \A s \in Requests \ {r} : request'[s] = request[s]
           /\ InFlight' = InFlight \ {r}
           /\ request'[r].step = "idle"
           /\ RequestsInOrder'
<1>1. /\ request' \in [Requests -> RequestTypes]
      /\ \A s \in Requests \ {r} : request'[s] = request[s]
      /\ request'[r] = Idle
  BY IdleIsTyped DEF Becomes, StorefrontTypeOK
<1>2. request'[r].step = "idle" /\ request'[r].answer = Nothing
  BY <1>1 DEF Idle
<1>3. \A s \in Requests : request'[s].step = "answered" <=> request'[s].answer # Nothing
  BY <1>1, <1>2 DEF StorefrontTypeOK
<1>4. InFlight' = InFlight \ {r}
  BY <1>1, <1>2 DEF InFlight
<1>5. RequestsInOrder'
  BY <1>1, <1>4 DEF RequestsInOrder, InFlight
<1> QED BY <1>1, <1>2, <1>3, <1>4, <1>5

\* An answer that came alone is the newest; one that is whole, and not older than
\* what is shown, is at least as good.
LEMMA DeliverKeeps ==
    ASSUME AgreementInv, NEW r \in Requests, Deliver(r)
    PROVE  AgreementInv'
<1>0. StorefrontTypeOK /\ RequestsInOrder /\ ViewFollows
  BY DEF AgreementInv
<1>a. /\ request[r].step = "answered" /\ view' = request[r].answer
      /\ doubt' = IF request[r].alone THEN FALSE
                   ELSE doubt \/ ~view'.whole \/ (view # Nothing /\ view'.no < view.no)
      /\ Becomes(r, Idle)
      /\ UNCHANGED <<price, cart, checkout, outcome, clock, events>>
  BY DEF Deliver
<1>b. /\ view' \in CartOuts /\ view' # Nothing
      /\ view'.no \in Nat /\ view'.whole \in BOOLEAN
      /\ view # Nothing => view.no \in Nat
  BY <1>0, <1>a DEF StorefrontTypeOK, RequestTypes, CartOuts
<1>c. /\ request' \in [Requests -> RequestTypes]
      /\ \A s \in Requests : request'[s].step = "answered" <=> request'[s].answer # Nothing
      /\ \A s \in Requests \ {r} : request'[s] = request[s]
      /\ InFlight' = InFlight \ {r}
      /\ request'[r].step = "idle"
      /\ RequestsInOrder'
  BY <1>0, <1>a, RequestsEnd
<1>1. StorefrontTypeOK'
  BY <1>0, <1>a, <1>b, <1>c DEF StorefrontTypeOK
<1>2. ViewFollows'
  <2> PICK n \in 0..clock : FollowsFrom(n)
    BY <1>0 DEF ViewFollows
  <2>1. Stands(view, n)'
    BY <1>a DEF FollowsFrom, Stands, Drifted
  <2>2. \A s \in Requests :
           request'[s].step = "answered" =>
              /\ Stands(request[s].answer, n)'
              /\ request'[s].alone => request'[s].answer.whole /\ request'[s].answer.no >= n
    BY <1>a, <1>c DEF FollowsFrom, Stands, Drifted
  <2>3. \/ doubt'
        \/ view'.whole /\ view'.no >= n
        \/ \E s \in InFlight' : Brings(s, n)'
    <3>1. CASE request[r].alone
      BY <3>1, <1>a DEF FollowsFrom
    <3>2. CASE ~request[r].alone /\ ~doubt'
      <4>1. ~doubt /\ view'.whole /\ (view # Nothing => view'.no >= view.no)
        <5>1. doubt' <=> doubt \/ ~view'.whole \/ (view # Nothing /\ view'.no < view.no)
          BY <3>2, <1>a
        <5> QED BY <3>2, <5>1, <1>b
      <4>2. CASE view = Nothing /\ n = 0
        BY <4>1, <4>2, <1>b
      <4>3. CASE view # Nothing /\ view.no >= n
        BY <4>1, <4>3, <1>b
      <4>4. ASSUME NEW s \in InFlight, Brings(s, n) PROVE <2>3
        <5>1. CASE s = r
          BY <5>1, <4>1, <4>4, <1>a DEF Brings
        <5>2. CASE s # r
          BY <5>2, <4>4, <1>c DEF Brings, InFlight
        <5> QED BY <5>1, <5>2
      <4> QED BY <4>1, <4>2, <4>3, <4>4 DEF FollowsFrom
    <3> QED BY <3>1, <3>2
  <2> QED BY <1>a, <1>b, <1>c, <2>1, <2>2, <2>3 DEF FollowsFrom, ViewFollows
<1> QED BY <1>1, <1>2, <1>a, <1>c, PagesLeaveOrders DEF AgreementInv

\* When nothing can be learnt about the cart there is doubt.
LEMMA GiveUpKeeps ==
    ASSUME AgreementInv, NEW r \in Requests, GiveUp(r)
    PROVE  AgreementInv'
<1>0. StorefrontTypeOK /\ RequestsInOrder /\ ViewFollows
  BY DEF AgreementInv
<1>a. /\ request[r].step = "failed" /\ doubt' = TRUE
      /\ Becomes(r, Idle)
      /\ UNCHANGED <<price, cart, view, checkout, outcome, clock, events>>
  BY DEF GiveUp
<1>c. /\ request' \in [Requests -> RequestTypes]
      /\ \A s \in Requests : request'[s].step = "answered" <=> request'[s].answer # Nothing
      /\ \A s \in Requests \ {r} : request'[s] = request[s]
      /\ request'[r].step = "idle"
      /\ RequestsInOrder'
  BY <1>0, <1>a, RequestsEnd
<1>1. StorefrontTypeOK'
  BY <1>0, <1>a, <1>c DEF StorefrontTypeOK
<1>2. ViewFollows'
  <2> PICK n \in 0..clock : FollowsFrom(n)
    BY <1>0 DEF ViewFollows
  <2>1. view' # Nothing => Stands(view, n)'
    BY <1>a DEF FollowsFrom, Stands, Drifted
  <2>2. \A s \in Requests :
           request'[s].step = "answered" =>
              /\ Stands(request[s].answer, n)'
              /\ request'[s].alone => request'[s].answer.whole /\ request'[s].answer.no >= n
    BY <1>a, <1>c DEF FollowsFrom, Stands, Drifted
  <2> QED BY <1>a, <1>c, <2>1, <2>2 DEF FollowsFrom, ViewFollows
<1> QED BY <1>1, <1>2, <1>a, <1>c, PagesLeaveOrders DEF AgreementInv

-----------------------------------------------------------------------------
(* The commit. *)

\* The others hold that they have been overtaken, and all else is as it was.
LEMMA OthersSeeCommits ==
    ASSUME StorefrontTypeOK, NEW r \in Requests, NEW s \in Requests \ {r}, Commit(r)
    PROVE  /\ request'[s] \in RequestTypes
           /\ request'[s].step = request[s].step /\ request'[s].answer = request[s].answer
           /\ request'[s].loaded = request[s].loaded
           /\ request'[s].alone <=> request[s].alone
           /\ ~Writes(r) \/ request[s].step # "acting" => request'[s].base = request[s].base
           /\ Writes(r) /\ request[s].step = "acting" => request'[s].base # "current"
<1> DEFINE b == IF Writes(r) THEN Overtaken(s, r) ELSE request[s].base
<1>1. request[s] \in RequestTypes
  BY DEF StorefrontTypeOK
<1>2. request'[s] = [request[s] EXCEPT !.base = b]
  BY DEF Commit
<1>3. b \in {"current", "overtaken", "lost", "closed"}
  BY <1>1 DEF Overtaken, RequestTypes
<1>4. /\ ~Writes(r) \/ request[s].step # "acting" => b = request[s].base
      /\ Writes(r) /\ request[s].step = "acting" => b # "current"
  BY DEF Overtaken
<1> HIDE DEF b
<1> QED BY <1>1, <1>2, <1>3, <1>4 DEF RequestTypes

\* The answer: whole when the cart had not changed since it was read, and as new
\* as the commit.
LEMMA CommitAnswers ==
    ASSUME AgreementInv, NEW r \in Requests, Commit(r)
    PROVE  LET a == request'[r].answer IN
           /\ request'[r] \in RequestTypes
           /\ request'[r].step = "answered" /\ a \in CartOuts
           /\ request'[r].alone <=> request[r].alone
           /\ a.no = clock' /\ a.totals = Totals(a.quantity, price')
           /\ a.whole => a.quantity = QuantitiesOf(cart') /\ a.flagged = Drifted(cart)'
           /\ request[r].alone => a.whole
<1> DEFINE req == request[r]
           w   == req.base = "current"
           a   == CartOut(WithLine(req.loaded, r), clock', w)
<1>0. StorefrontTypeOK /\ RequestsInOrder
  BY DEF AgreementInv
<1>1. /\ req.step = "acting" /\ UNCHANGED price
      /\ clock' = IF Writes(r) THEN clock + 1 ELSE clock
      /\ cart' = IF Writes(r) THEN WithLine(cart, r) ELSE cart
      /\ request'[r] = [Idle EXCEPT !.step = "answered", !.op = req.op, !.resync = req.resync,
                           !.alone = req.alone, !.answer = a]
  BY <1>0 DEF Commit
<1>2. req \in RequestTypes /\ clock' \in Nat
  BY <1>0, <1>1 DEF StorefrontTypeOK
<1>3. a \in CartOuts
  <2>1. req.loaded \in Carts
    BY <1>2 DEF RequestTypes
  <2> QED BY <1>0, <1>2, <2>1, CartsWithLines, AnswersAreTyped
<1>4. w => WithLine(req.loaded, r) = cart'
  <2> SUFFICES ASSUME w PROVE WithLine(req.loaded, r) = cart'
    OBVIOUS
  <2>1. req.loaded = cart
    BY <1>0, <1>1 DEF RequestsInOrder, InFlight
  <2>2. ~Writes(r) => req.op = Read
    BY DEF Writes
  <2>3. ~Writes(r) => WithLine(cart, r) = cart
    BY <2>2 DEF WithLine
  <2> QED BY <1>1, <2>1, <2>3
<1>5. req.alone => w
  BY <1>0, <1>1 DEF RequestsInOrder, InFlight
<1>6. /\ a.no = clock' /\ (a.whole <=> w)
      /\ a.quantity = QuantitiesOf(WithLine(req.loaded, r))
      /\ a.totals = Totals(a.quantity, price)
      /\ a.flagged = Drifted(WithLine(req.loaded, r))
  BY DEF CartOut
<1>7. w => a.flagged = Drifted(cart)'
  BY <1>1, <1>4, <1>6 DEF Drifted
<1> HIDE DEF a, w
<1>8. /\ request'[r].step = "answered" /\ request'[r].answer = a
      /\ request'[r].alone <=> req.alone
  BY <1>1 DEF Idle
<1>9. request'[r] \in RequestTypes
  BY <1>1, <1>2, <1>3, IdleIsTyped DEF RequestTypes
<1> QED BY <1>1, <1>3, <1>4, <1>5, <1>6, <1>7, <1>8, <1>9

\* What was shown or answered before is older than the change, and the answer of
\* the request that made it brings it.
LEMMA CommitKeeps ==
    ASSUME AgreementInv, NEW r \in Requests, Commit(r)
    PROVE  AgreementInv'
<1>0. /\ StorefrontTypeOK /\ RequestsInOrder /\ ViewFollows
      /\ CheckoutHolds /\ ChargedAsAgreed
  BY DEF AgreementInv
<1>a. /\ request[r].step = "acting"
      /\ UNCHANGED <<price, view, checkout, outcome, doubt, events>>
      /\ clock' = IF Writes(r) THEN clock + 1 ELSE clock
      /\ cart' = IF Writes(r) THEN WithLine(cart, r) ELSE cart
      /\ DOMAIN request' = Requests /\ request' = [s \in Requests |-> request'[s]]
  BY DEF Commit
<1>b. /\ clock \in Nat /\ cart \in Carts /\ clock' \in Nat /\ cart' \in Carts
  BY <1>0, <1>a, CartsWithLines DEF StorefrontTypeOK
<1> DEFINE a == request'[r].answer
<1>c. /\ request'[r] \in RequestTypes
      /\ request'[r].step = "answered" /\ a \in CartOuts
      /\ request'[r].alone <=> request[r].alone
      /\ a.no = clock' /\ a.totals = Totals(a.quantity, price')
      /\ a.whole => a.quantity = QuantitiesOf(cart') /\ a.flagged = Drifted(cart)'
      /\ request[r].alone => a.whole
  BY CommitAnswers
<1>d. \A s \in Requests \ {r} :
         /\ request'[s] \in RequestTypes
         /\ request'[s].step = request[s].step /\ request'[s].answer = request[s].answer
         /\ request'[s].loaded = request[s].loaded
         /\ request'[s].alone <=> request[s].alone
         /\ ~Writes(r) \/ request[s].step # "acting" => request'[s].base = request[s].base
         /\ Writes(r) /\ request[s].step = "acting" => request'[s].base # "current"
  BY <1>0, OthersSeeCommits
<1>1. InFlight' = InFlight /\ r \in InFlight
  BY <1>a, <1>c, <1>d DEF InFlight
<1>2. StorefrontTypeOK'
  <2>1. request' \in [Requests -> RequestTypes]
    BY <1>a, <1>c, <1>d
  <2>2. a # Nothing
    BY <1>c, StorefrontAssumption DEF StorefrontAssumption
  <2>3. \A s \in Requests : request'[s].step = "answered" <=> request'[s].answer # Nothing
    BY <1>0, <1>c, <1>d, <2>2 DEF StorefrontTypeOK
  <2> QED BY <1>0, <1>a, <1>b, <2>1, <2>3 DEF StorefrontTypeOK
<1>3. RequestsInOrder'
  <2>1. \A s \in InFlight : request'[s].alone => InFlight' = {s}
    BY <1>0, <1>1, <1>c, <1>d DEF RequestsInOrder, InFlight
  <2>2. \A s \in InFlight :
           /\ request'[s].step = "sent" => request'[s].base = "current"
           /\ request'[s].step = "acting" =>
                 /\ request'[s].base = "current" => request'[s].loaded = cart'
                 /\ request'[s].alone => request'[s].base = "current"
    <3> SUFFICES ASSUME NEW s \in InFlight, s # r
                 PROVE  /\ request'[s].step = "sent" => request'[s].base = "current"
                        /\ request'[s].step = "acting" =>
                              /\ request'[s].base = "current" => request'[s].loaded = cart'
                              /\ request'[s].alone => request'[s].base = "current"
      BY <1>c
    <3>1. s \in Requests \ {r}
      BY DEF InFlight
    <3>2. ~request'[s].alone
      BY <1>1, <2>1
    <3> QED BY <1>0, <1>a, <1>d, <3>1, <3>2 DEF RequestsInOrder
  <2> QED BY <1>1, <2>1, <2>2 DEF RequestsInOrder
<1>4. ViewFollows'
  <2> PICK n \in 0..clock : FollowsFrom(n)
    BY <1>0 DEF ViewFollows
  <2>1. CASE Writes(r)
    <3> PICK m \in Nat : m = clock'
      BY <1>b
    <3>1. m = clock + 1 /\ clock' = m
      BY <2>1, <1>a
    <3>2. view # Nothing => view.no \in Nat /\ view.no <= clock
      BY <1>0 DEF StorefrontTypeOK, CartOuts, FollowsFrom, Stands
    <3>3. view' # Nothing => Stands(view, m)'
      BY <1>a, <1>b, <3>1, <3>2 DEF Stands
    <3>4. Stands(request[r].answer, m)'
      BY <1>b, <1>c, <3>1 DEF Stands
    <3>5. \A s \in Requests \ {r} :
             request'[s].step = "answered" => Stands(request[s].answer, m)' /\ ~request'[s].alone
      <4> SUFFICES ASSUME NEW s \in Requests \ {r}, request'[s].step = "answered"
                   PROVE  Stands(request[s].answer, m)' /\ ~request'[s].alone
        OBVIOUS
      <4>1. request[s].answer.no <= clock /\ request'[s].answer = request[s].answer
        BY <1>d DEF FollowsFrom, Stands
      <4>2. request[s].answer.no \in Nat
        BY <1>0, <1>d DEF StorefrontTypeOK, RequestTypes, CartOuts
      <4>3. ~request'[s].alone
        BY <1>0, <1>1, <1>d DEF RequestsInOrder, InFlight
      <4> QED BY <1>b, <3>1, <4>1, <4>2, <4>3 DEF Stands
    <3>6. Brings(r, m)'
      BY <1>b, <1>c, <3>1 DEF Brings
    <3>7. FollowsFrom(m)'
      BY <1>1, <1>b, <1>c, <3>1, <3>3, <3>4, <3>5, <3>6 DEF FollowsFrom
    <3> QED BY <1>b, <3>1, <3>7 DEF ViewFollows
  <2>2. CASE ~Writes(r)
    <3>1. clock' = clock /\ cart' = cart
      BY <2>2, <1>a
    <3>2. view' # Nothing => Stands(view, n)'
      BY <1>a, <3>1 DEF FollowsFrom, Stands, Drifted
    <3>3. Stands(request[r].answer, n)' /\ a.no >= n
      BY <1>b, <1>c, <3>1 DEF Stands
    <3>4. \A s \in Requests \ {r} :
             request'[s].step = "answered" =>
                /\ Stands(request[s].answer, n)'
                /\ request'[s].alone => request'[s].answer.whole /\ request'[s].answer.no >= n
      BY <1>a, <1>d, <3>1 DEF FollowsFrom, Stands, Drifted
    <3>5. \A s \in InFlight : Brings(s, n) => Brings(s, n)'
      BY <1>d, <3>3 DEF Brings, InFlight
    <3>6. FollowsFrom(n)'
      BY <1>1, <1>a, <1>c, <3>2, <3>3, <3>4, <3>5 DEF FollowsFrom
    <3> QED BY <3>1, <3>6 DEF ViewFollows
  <2> QED BY <2>1, <2>2
<1>5. CheckoutHolds'
  BY <1>0, <1>a, <1>b DEF CheckoutHolds, StorefrontTypeOK
<1>6. ChargedAsAgreed'
  BY <1>0, <1>a DEF ChargedAsAgreed
<1> QED BY <1>2, <1>3, <1>4, <1>5, <1>6 DEF AgreementInv

-----------------------------------------------------------------------------
(* The order. *)

\* Neither the cart nor what is shown of it changes before the order is there.
LEMMA OrdersLeaveCarts ==
    ASSUME AgreementInv, UNCHANGED <<price, cart, view, request, clock, doubt, events>>
    PROVE  RequestsInOrder' /\ ViewFollows'
<1>0. RequestsInOrder /\ ViewFollows
  BY DEF AgreementInv
<1>1. RequestsInOrder'
  BY <1>0 DEF RequestsInOrder, InFlight
<1>2. ViewFollows'
  <2> PICK n \in 0..clock : FollowsFrom(n)
    BY <1>0 DEF ViewFollows
  <2>1. \A a : Stands(a, n) <=> /\ a.no <= clock'
                                /\ a.no = clock' => a.totals = Totals(a.quantity, price')
                                /\ a.whole /\ a.no >= n => a.quantity = QuantitiesOf(cart')
                                /\ a.whole /\ a.no = clock' => a.flagged = Drifted(cart)'
    BY DEF Stands, Drifted
  <2>2. FollowsFrom(n)'
    BY <2>1 DEF FollowsFrom, Brings, InFlight, Stands
  <2> QED BY <2>2 DEF ViewFollows
<1> QED BY <1>1, <1>2

\* The report: the prices noted are those there are, or new ones are accepted.
LEMMA ReportKeeps ==
    ASSUME AgreementInv, NEW accept \in BOOLEAN, Report(accept)
    PROVE  AgreementInv'
<1>0. StorefrontTypeOK
  BY DEF AgreementInv
<1>1. /\ accept \/ Drifted(cart) = {}
      /\ checkout' = [NoOrder EXCEPT !.step = "reported", !.accept = accept, !.lines = cart,
                                     !.since = clock]
      /\ outcome' = NoOutcome
      /\ UNCHANGED <<price, cart, view, request, clock, doubt, events>>
  BY DEF Report
<1>2. checkout' \in [step : {"idle", "reported", "loaded"}, accept : BOOLEAN, lines : Carts,
                     since : Nat, repriced : SUBSET Variants,
                     unit : [Variants -> Prices \cup {0}]]
  BY <1>0, <1>1 DEF NoOrder, StorefrontTypeOK
<1>3. /\ checkout'.step = "reported" /\ checkout'.lines = cart
      /\ checkout'.accept <=> accept
      /\ checkout'.since = clock
  BY <1>1 DEF NoOrder
<1>4. StorefrontTypeOK'
  BY <1>0, <1>1, <1>2 DEF StorefrontTypeOK
<1>5. CheckoutHolds'
  BY <1>0, <1>1, <1>3 DEF CheckoutHolds, Drifted, StorefrontTypeOK
<1>6. ChargedAsAgreed'
  BY <1>1 DEF ChargedAsAgreed
<1> QED BY <1>1, <1>4, <1>5, <1>6, OrdersLeaveCarts DEF AgreementInv

\* Who sees the cart as it is sees a flagged line when the order is refused.
LEMMA RefuseDriftKeeps ==
    ASSUME AgreementInv, RefuseDrift
    PROVE  AgreementInv'
<1>0. StorefrontTypeOK /\ ViewFollows /\ CheckoutHolds
  BY DEF AgreementInv
<1>1. /\ Drifted(cart) # {}
      /\ outcome' = [kind |-> "changed", informed |-> Informed,
                     shown |-> IF view = Nothing THEN {} ELSE view.flagged]
      /\ UNCHANGED <<price, cart, view, request, checkout, clock, doubt, events>>
  BY DEF RefuseDrift
<1>2. Informed => view.flagged = Drifted(cart)
  BY <1>0 DEF ViewFollows, FollowsFrom, Stands, Informed
<1>3. /\ outcome'.kind = "changed"
      /\ outcome'.informed <=> Informed
      /\ Informed => outcome'.shown = view.flagged
  BY <1>1 DEF Informed
<1>4. ChargedAsAgreed'
  BY <1>1, <1>2, <1>3 DEF ChargedAsAgreed
<1>5. StorefrontTypeOK' /\ CheckoutHolds'
  BY <1>0, <1>1 DEF StorefrontTypeOK, CheckoutHolds
<1> QED BY <1>1, <1>4, <1>5, OrdersLeaveCarts DEF AgreementInv

\* The rows get the prices of one moment.
LEMMA LoadKeeps ==
    ASSUME AgreementInv, Load
    PROVE  AgreementInv'
<1>0. StorefrontTypeOK /\ CheckoutHolds /\ ChargedAsAgreed
  BY DEF AgreementInv
<1>1. /\ checkout.step = "reported"
      /\ checkout' = [checkout EXCEPT !.step = "loaded", !.unit = price]
      /\ UNCHANGED <<price, cart, view, request, outcome, clock, doubt, events>>
  BY DEF Load, Ordering
<1>2. /\ checkout'.step = "loaded" /\ checkout'.unit = price
      /\ checkout'.lines = checkout.lines /\ checkout'.since = checkout.since
      /\ checkout'.repriced = checkout.repriced
      /\ checkout'.accept <=> checkout.accept
  BY <1>0, <1>1 DEF StorefrontTypeOK
<1>3. StorefrontTypeOK'
  BY <1>0, <1>1 DEF StorefrontTypeOK
<1>4. CheckoutHolds'
  BY <1>0, <1>1, <1>2 DEF CheckoutHolds
<1>5. ChargedAsAgreed'
  BY <1>0, <1>1 DEF ChargedAsAgreed
<1> QED BY <1>1, <1>3, <1>4, <1>5, OrdersLeaveCarts DEF AgreementInv

\* An order that does not come about leaves everything.
LEMMA AbortCheckoutKeeps ==
    ASSUME AgreementInv, AbortCheckout
    PROVE  AgreementInv'
<1>0. StorefrontTypeOK /\ ChargedAsAgreed
  BY DEF AgreementInv
<1>1. /\ checkout' = NoOrder
      /\ UNCHANGED <<price, cart, view, request, outcome, clock, doubt, events>>
  BY DEF AbortCheckout
<1>2. checkout' \in [step : {"idle", "reported", "loaded"}, accept : BOOLEAN, lines : Carts,
                     since : Nat, repriced : SUBSET Variants,
                     unit : [Variants -> Prices \cup {0}]]
  BY <1>1, IdleIsTyped DEF NoOrder
<1>3. StorefrontTypeOK' /\ CheckoutHolds' /\ ChargedAsAgreed'
  BY <1>0, <1>1, <1>2 DEF StorefrontTypeOK, CheckoutHolds, ChargedAsAgreed, NoOrder
<1> QED BY <1>1, <1>3, OrdersLeaveCarts DEF AgreementInv

\* The order takes the cart and the prices of the report; what others have read of
\* the cart, or been answered, is of before.
LEMMA PlaceKeeps ==
    ASSUME AgreementInv, Place
    PROVE  AgreementInv'
<1> DEFINE lines == checkout.lines
           unit  == checkout.unit
<1>0. StorefrontTypeOK /\ RequestsInOrder /\ ViewFollows /\ CheckoutHolds
  BY DEF AgreementInv
<1>a. /\ checkout.step = "loaded" /\ checkout' = NoOrder
      /\ cart' = EmptyCart /\ clock' = clock + 1 /\ doubt' = TRUE
      /\ UNCHANGED <<price, view, events>>
      /\ \A r \in Requests :
            request'[r] = [request[r] EXCEPT
                              !.base = IF request[r].step = "acting" THEN "closed" ELSE request[r].base,
                              !.alone = (request[r].step = "idle")]
      /\ request' = [r \in Requests |-> request'[r]]
  BY DEF Place, Ordering
<1>b. clock \in Nat /\ clock' = clock + 1 /\ clock' \in Nat
  <2>1. clock \in Nat /\ clock' = clock + 1
    BY <1>0, <1>a DEF StorefrontTypeOK
  <2> QED BY <2>1
<1>c. \A r \in Requests :
         /\ request'[r] \in RequestTypes
         /\ request'[r].step = request[r].step /\ request'[r].answer = request[r].answer
         /\ request'[r].step # "idle" => ~request'[r].alone
         /\ request'[r].step = "acting" => request'[r].base = "closed"
         /\ request'[r].step # "acting" => request'[r].base = request[r].base
  <2> SUFFICES ASSUME NEW r \in Requests
               PROVE  /\ request'[r] \in RequestTypes
                      /\ request'[r].step = request[r].step
                      /\ request'[r].answer = request[r].answer
                      /\ request'[r].step # "idle" => ~request'[r].alone
                      /\ request'[r].step = "acting" => request'[r].base = "closed"
                      /\ request'[r].step # "acting" => request'[r].base = request[r].base
    OBVIOUS
  <2> DEFINE b == IF request[r].step = "acting" THEN "closed" ELSE request[r].base
             f == request[r].step = "idle"
  <2>1. request[r] \in RequestTypes
    BY <1>0 DEF StorefrontTypeOK
  <2>2. request'[r] = [request[r] EXCEPT !.base = b, !.alone = f]
    BY <1>a
  <2>3. /\ b \in {"current", "overtaken", "lost", "closed"} /\ f \in BOOLEAN
        /\ request[r].step = "acting" => b = "closed"
        /\ request[r].step # "acting" => b = request[r].base
        /\ request[r].step # "idle" => ~f
    BY <2>1 DEF RequestTypes
  <2> HIDE DEF b, f
  <2> QED BY <2>1, <2>2, <2>3 DEF RequestTypes
<1>1. StorefrontTypeOK'
  <2>1. checkout' \in [step : {"idle", "reported", "loaded"}, accept : BOOLEAN, lines : Carts,
                       since : Nat, repriced : SUBSET Variants,
                       unit : [Variants -> Prices \cup {0}]]
    BY <1>a, IdleIsTyped DEF NoOrder
  <2>2. request' \in [Requests -> RequestTypes]
    BY <1>a, <1>c
  <2>3. \A r \in Requests : request'[r].step = "answered" <=> request'[r].answer # Nothing
    BY <1>0, <1>c DEF StorefrontTypeOK
  <2> QED BY <1>0, <1>a, <1>b, <2>1, <2>2, <2>3, IdleIsTyped DEF StorefrontTypeOK
<1>2. RequestsInOrder'
  BY <1>0, <1>c DEF RequestsInOrder, InFlight
<1>3. ViewFollows'
  <2> PICK n \in 0..clock : FollowsFrom(n)
    BY <1>0 DEF ViewFollows
  <2> PICK m \in Nat : m = clock'
    BY <1>b
  <2>1. view # Nothing => view.no \in Nat /\ view.no <= clock
    BY <1>0 DEF StorefrontTypeOK, CartOuts, FollowsFrom, Stands
  <2>2. view' # Nothing => Stands(view, m)'
    <3>1. view' = view
      BY <1>a
    <3> QED BY <1>b, <2>1, <3>1 DEF Stands
  <2>3. \A r \in Requests :
           request'[r].step = "answered" => Stands(request[r].answer, m)' /\ ~request'[r].alone
    <3> SUFFICES ASSUME NEW r \in Requests, request'[r].step = "answered"
                 PROVE  Stands(request[r].answer, m)' /\ ~request'[r].alone
      OBVIOUS
    <3>1. /\ request[r].answer.no <= clock /\ request'[r].answer = request[r].answer
          /\ ~request'[r].alone
      BY <1>c DEF FollowsFrom, Stands
    <3>2. request[r].answer.no \in Nat
      BY <1>0, <1>c DEF StorefrontTypeOK, RequestTypes, CartOuts
    <3> QED BY <1>b, <3>1, <3>2 DEF Stands
  <2>4. FollowsFrom(m)'
    BY <1>a, <2>2, <2>3 DEF FollowsFrom
  <2> QED BY <1>b, <2>4 DEF ViewFollows
<1>4. CheckoutHolds'
  BY <1>a DEF CheckoutHolds, NoOrder
<1>5. ChargedAsAgreed'
  <2>1. /\ outcome'.kind = "order"
        /\ outcome'.accept = checkout.accept /\ outcome'.repriced = checkout.repriced
        /\ outcome'.totals = Totals(QuantitiesOf(lines), unit)
        /\ outcome'.informed = (Informed /\ checkout.since = clock)
        /\ outcome'.shown = IF view = Nothing THEN Nothing ELSE view.totals
        /\ \A v \in Variants :
              /\ outcome'.noted[v] = lines[v].noted
              /\ outcome'.rows[v].quantity = lines[v].quantity
              /\ outcome'.rows[v].unit = unit[v]
    BY DEF Place, OrderTotals
  <2>2. Informed /\ checkout.since = clock => outcome'.totals = outcome'.shown
    <3> SUFFICES ASSUME Informed, checkout.since = clock PROVE outcome'.totals = outcome'.shown
      OBVIOUS
    <3>1. lines = cart /\ unit = price
      BY <1>0, <1>a DEF CheckoutHolds
    <3>2. view # Nothing /\ view.totals = Totals(view.quantity, price)
                         /\ view.quantity = QuantitiesOf(cart)
      BY <1>0, <1>b DEF ViewFollows, FollowsFrom, Stands, Informed
    <3> QED BY <2>1, <3>1, <3>2
  <2>3. ~checkout.accept =>
           \A v \in Variants \ checkout.repriced :
              lines[v].quantity > 0 => unit[v] = lines[v].noted
    BY <1>0, <1>a DEF CheckoutHolds
  <2> QED BY <2>1, <2>2, <2>3 DEF ChargedAsAgreed
<1> QED BY <1>1, <1>2, <1>3, <1>4, <1>5 DEF AgreementInv

-----------------------------------------------------------------------------
(* From outside. *)

\* A new price leaves the cart, and the sums that were told before are old.
LEMMA RepriceKeeps ==
    ASSUME AgreementInv, NEW v \in Variants, NEW p \in Prices, Reprice(v, p)
    PROVE  AgreementInv'
<1>0. /\ StorefrontTypeOK /\ RequestsInOrder /\ ViewFollows
      /\ CheckoutHolds /\ ChargedAsAgreed
  BY DEF AgreementInv
<1> DEFINE late == IF checkout.step = "reported" THEN checkout.repriced \cup {v}
                   ELSE checkout.repriced
<1>a. /\ events < MaxEvents /\ events' = events + 1 /\ clock' = clock + 1
      /\ price' = [price EXCEPT ![v] = p]
      /\ checkout' = [checkout EXCEPT !.repriced = late]
      /\ UNCHANGED <<cart, view, request, outcome, doubt>>
  BY DEF Reprice
<1>b. /\ clock \in Nat /\ clock' = clock + 1 /\ clock' \in Nat
      /\ events' \in 0..MaxEvents
  <2>1. clock \in Nat /\ clock' = clock + 1 /\ events \in 0..MaxEvents
        /\ events < MaxEvents /\ events' = events + 1 /\ MaxEvents \in Nat
    BY <1>0, <1>a, StorefrontAssumption DEF StorefrontTypeOK, StorefrontAssumption
  <2> QED BY <2>1
<1>c. price' \in [Variants -> Prices] /\ \A w \in Variants \ {v} : price'[w] = price[w]
  BY <1>0, <1>a DEF StorefrontTypeOK
<1>d. /\ checkout' \in [step : {"idle", "reported", "loaded"}, accept : BOOLEAN, lines : Carts,
                        since : Nat, repriced : SUBSET Variants,
                        unit : [Variants -> Prices \cup {0}]]
      /\ checkout'.step = checkout.step /\ checkout'.lines = checkout.lines
      /\ checkout'.since = checkout.since /\ checkout'.unit = checkout.unit
      /\ checkout'.accept <=> checkout.accept
      /\ checkout'.repriced = late
  <2>1. late \in SUBSET Variants
    BY <1>0 DEF StorefrontTypeOK
  <2> HIDE DEF late
  <2> QED BY <1>0, <1>a, <2>1 DEF StorefrontTypeOK
<1>1. StorefrontTypeOK'
  BY <1>0, <1>a, <1>b, <1>c, <1>d DEF StorefrontTypeOK
<1>2. RequestsInOrder'
  BY <1>0, <1>a DEF RequestsInOrder, InFlight
<1>3. ViewFollows'
  <2> PICK n \in 0..clock : FollowsFrom(n)
    BY <1>0 DEF ViewFollows
  <2>1. view # Nothing => view.no \in Nat
    BY <1>0 DEF StorefrontTypeOK, CartOuts
  <2>2. view' # Nothing => Stands(view, n)'
    <3>1. view' = view /\ cart' = cart
      BY <1>a
    <3> QED BY <1>b, <2>1, <3>1 DEF FollowsFrom, Stands
  <2>3. \A r \in Requests :
           request'[r].step = "answered" =>
              /\ Stands(request[r].answer, n)'
              /\ request'[r].alone => request'[r].answer.whole /\ request'[r].answer.no >= n
    <3> SUFFICES ASSUME NEW r \in Requests, request[r].step = "answered"
                 PROVE  /\ Stands(request[r].answer, n)'
                        /\ request[r].alone => request[r].answer.whole /\ request[r].answer.no >= n
      BY <1>a
    <3>1. request[r].answer.no \in Nat
      BY <1>0 DEF StorefrontTypeOK, RequestTypes, CartOuts
    <3>2. request' = request /\ cart' = cart
      BY <1>a
    <3> QED BY <1>b, <3>1, <3>2 DEF FollowsFrom, Stands
  <2>4. FollowsFrom(n)'
    BY <1>a, <2>2, <2>3 DEF FollowsFrom, Brings, InFlight
  <2> QED BY <1>b, <2>4 DEF ViewFollows
<1>4. CheckoutHolds'
  <2> SUFFICES ASSUME checkout.step # "idle"
               PROVE  CheckoutHolds'
    BY <1>d DEF CheckoutHolds
  <2>1. checkout.since \in Nat /\ checkout.since <= clock
    BY <1>0 DEF CheckoutHolds, StorefrontTypeOK
  <2>2. checkout'.since <= clock' /\ checkout'.since # clock'
    BY <1>b, <1>d, <2>1
  <2>3. ASSUME ~checkout.accept, NEW w \in Variants \ checkout'.repriced,
               checkout.lines[w].quantity > 0
        PROVE  checkout.lines[w].noted =
                  IF checkout.step = "loaded" THEN checkout.unit[w] ELSE price'[w]
    <3>1. w \notin checkout.repriced /\ (checkout.step = "reported" => w # v)
      BY <1>d, <2>3
    <3>2. checkout.step \in {"reported", "loaded"}
      BY <1>0 DEF StorefrontTypeOK
    <3> QED BY <1>0, <1>c, <2>3, <3>1, <3>2 DEF CheckoutHolds
  <2> QED BY <1>d, <2>2, <2>3 DEF CheckoutHolds
<1>5. ChargedAsAgreed'
  BY <1>0, <1>a DEF ChargedAsAgreed
<1> QED BY <1>1, <1>2, <1>3, <1>4, <1>5 DEF AgreementInv

\* The next shopper finds nothing under way.
LEMMA NextShopperKeeps ==
    ASSUME AgreementInv, NextShopper
    PROVE  AgreementInv'
<1>0. StorefrontTypeOK
  BY DEF AgreementInv
<1>a. /\ InFlight = {} /\ checkout.step = "idle"
      /\ cart' = EmptyCart /\ view' = Nothing /\ outcome' = NoOutcome
      /\ clock' = 0 /\ doubt' = FALSE /\ events' = 0
      /\ UNCHANGED <<price, request, checkout>>
  BY DEF NextShopper
<1>b. InFlight' = {} /\ \A r \in Requests : request'[r].step = "idle"
  BY <1>a DEF InFlight
<1>1. StorefrontTypeOK'
  <2>1. 0 \in 0..MaxEvents
    BY StorefrontAssumption DEF StorefrontAssumption
  <2> QED BY <1>0, <1>a, <2>1, IdleIsTyped DEF StorefrontTypeOK
<1>2. RequestsInOrder'
  BY <1>b DEF RequestsInOrder
<1>3. FollowsFrom(0)'
  BY <1>a, <1>b DEF FollowsFrom
<1>4. ViewFollows'
  BY <1>a, <1>3 DEF ViewFollows
<1>5. CheckoutHolds' /\ ChargedAsAgreed'
  BY <1>a DEF CheckoutHolds, ChargedAsAgreed
<1> QED BY <1>1, <1>2, <1>4, <1>5 DEF AgreementInv

\* Every step keeps the invariant.
LEMMA NextKeeps == AgreementInv /\ [StorefrontNext]_storefrontVars => AgreementInv'
<1> SUFFICES ASSUME AgreementInv, [StorefrontNext]_storefrontVars
             PROVE  AgreementInv'
  OBVIOUS
<1>1. ASSUME NEW r \in Requests, Browser(r) PROVE AgreementInv'
  BY <1>1, SendKeeps, DeliverKeeps, ResyncKeeps, GiveUpKeeps DEF Browser
<1>2. ASSUME NEW r \in Requests, Router(r) PROVE AgreementInv'
  BY <1>2, ActKeeps, CommitKeeps, FailKeeps DEF Router
<1>3. CASE Ordered
  BY <1>3, ReportKeeps, RefuseDriftKeeps, LoadKeeps, PlaceKeeps, AbortCheckoutKeeps DEF Ordered
<1>4. ASSUME NEW v \in Variants, NEW p \in Prices, Reprice(v, p) PROVE AgreementInv'
  BY <1>4, RepriceKeeps
<1>5. CASE NextShopper
  BY <1>5, NextShopperKeeps
<1>6. CASE UNCHANGED storefrontVars
  <2>1. UNCHANGED <<price, cart, view, request, checkout, outcome, clock, doubt, events>>
    BY <1>6 DEF storefrontVars
  <2>2. RequestsInOrder' /\ ViewFollows'
    BY <2>1, OrdersLeaveCarts
  <2>3. StorefrontTypeOK' /\ CheckoutHolds' /\ ChargedAsAgreed'
    BY <2>1 DEF AgreementInv, StorefrontTypeOK, CheckoutHolds, ChargedAsAgreed
  <2> QED BY <2>2, <2>3 DEF AgreementInv
<1> QED BY <1>1, <1>2, <1>3, <1>4, <1>5, <1>6 DEF StorefrontNext

-----------------------------------------------------------------------------
(* Sums. *)

\* Division by what is not zero leaves less than that.
LEMMA Quotient ==
    ASSUME NEW m \in Nat, NEW n \in Nat \ {0}
    PROVE  /\ m \div n \in Nat
           /\ n * (m \div n) <= m /\ m < n * (m \div n) + n
           /\ m % n = 0 => n * (m \div n) = m
<1> QED OBVIOUS

\* Half up is to the nearest, and a half that is cut off is a half away.
LEMMA VatRounds ==
    ASSUME NEW gross \in Nat, NEW rate \in Nat
    PROVE  VatIn(gross, rate) \in Int /\ RoundsWell(gross, rate)
<1> DEFINE half    == 1000 + rate
           product == gross * rate
           twice   == 2 * product + half
           up      == twice \div (2 * half)
           vat     == VatIn(gross, rate)
<1>1. half \in Nat \ {0} /\ product \in Nat /\ twice \in Nat /\ 2 * half \in Nat \ {0}
  OBVIOUS
<1>2. vat = up \/ (vat = up - 1 /\ twice % (2 * half) = 0)
  <2>1. 2 * gross * rate + 1000 + rate = twice /\ 2 * (1000 + rate) = 2 * half
    OBVIOUS
  <2>2. DEFINE lost == twice % (2 * half) = 0 /\ <<gross, rate>> \in HalvesLost
  <2>3. vat = up - (IF lost THEN 1 ELSE 0)
    BY <2>1 DEF VatIn
  <2>4. up \in Nat
    BY <1>1, Quotient
  <2> HIDE DEF twice, up, vat, half
  <2> QED
    BY <2>3, <2>4
<1>3. /\ up \in Nat /\ (2 * half) * up <= twice /\ twice < (2 * half) * up + 2 * half
      /\ twice % (2 * half) = 0 => (2 * half) * up = twice
  <2> HIDE DEF half, twice
  <2> QED
    BY <1>1, Quotient
<1> DEFINE whole == half * up
<1>4. whole \in Int /\ (2 * half) * up = 2 * whole /\ half * (up - 1) = whole - half
  <2> HIDE DEF half, up
  <2> QED
    BY <1>1, <1>3
<1>5. half * vat = whole \/ (half * vat = whole - half /\ 2 * whole = twice)
  <2> HIDE DEF half, twice, up, vat
  <2> QED
    BY <1>2, <1>3, <1>4
<1>6. vat \in Int
  BY <1>2, <1>3
<1>7. -half <= 2 * (half * vat - product) /\ 2 * (half * vat - product) <= half
  <2>1. 2 * whole <= twice /\ twice < 2 * whole + 2 * half
    BY <1>3, <1>4
  <2>2. twice = 2 * product + half
    OBVIOUS
  <2> DEFINE value == half * vat
  <2>3. value = whole \/ (value = whole - half /\ 2 * whole = twice)
    BY <1>5
  <2>4. value \in Int
    BY <1>1, <1>4, <2>3
  <2> HIDE DEF half, twice, up, vat, whole, product, value
  <2>5. -half <= 2 * (value - product) /\ 2 * (value - product) <= half
    BY <1>1, <1>4, <2>1, <2>2, <2>3, <2>4
  <2> QED
    BY <2>5 DEF value
<1> QED
  BY <1>6, <1>7 DEF RoundsWell

\* No VAT falls on nothing.
LEMMA NoVatInNothing ==
    ASSUME NEW rate \in Nat
    PROVE  VatIn(0, rate) = 0
<1> DEFINE half == 1000 + rate
<1>1. half \in Nat \ {0} /\ 2 * 0 * rate + 1000 + rate = half
  OBVIOUS
<1>2. half \div (2 * half) = 0 /\ half % (2 * half) # 0
  <2> HIDE DEF half
  <2> QED
    BY <1>1
<1> QED
  BY <1>1, <1>2 DEF VatIn

\* The rows and the totals that are made from one cart, at one list of prices, and
\* sell something, add up.
LEMMA RowsAddUp ==
    ASSUME NEW quantity \in [Variants -> Nat], NEW unit \in [Variants -> Nat],
           \E v \in Variants : quantity[v] > 0,
           NEW rows,
           rows = [v \in Variants |-> [quantity |-> quantity[v], unit |-> unit[v],
                                       line_total |-> Gross(quantity, unit)[v]]],
           NEW totals, totals = Totals(quantity, unit)
    PROVE  AddsUp(rows, totals)
<1> DEFINE gross == Gross(quantity, unit)
           vat   == [v \in Variants |-> VatIn(gross[v], vat_rate[v])]
           sold  == {v \in Variants : quantity[v] > 0}
           parts == [v \in sold |-> VatIn(rows[v].line_total, vat_rate[v])]
           rates == {vat_rate[v] : v \in sold}
<1>1. /\ IsFiniteSet(Variants) /\ vat_rate \in [Variants -> Nat]
      /\ FREE_SHIPPING_THRESHOLD \in Nat /\ STANDARD_SHIPPING \in Nat \ {0}
  BY PricingAssumption DEF PricingAssumption
<1>2. \A v \in Variants : /\ gross[v] = quantity[v] * unit[v] /\ gross[v] \in Nat
                          /\ quantity[v] = 0 => gross[v] = 0
  <2>1. \A m \in Nat, n \in Nat : m * n \in Nat /\ (m = 0 => m * n = 0)
    OBVIOUS
  <2> QED
    BY <2>1 DEF Gross
<1>3. DOMAIN gross = Variants
  BY DEF Gross
<1>4. \A v \in Variants : /\ rows[v].quantity = quantity[v] /\ rows[v].unit = unit[v]
                          /\ rows[v].line_total = gross[v]
  OBVIOUS
<1>5. {v \in Variants : rows[v].quantity > 0} = sold
  BY <1>4
<1> HIDE DEF gross
<1>6. \A v \in Variants : /\ vat[v] = VatIn(gross[v], vat_rate[v]) /\ vat[v] \in Int
                          /\ v \notin sold => vat[v] = 0
  <2>1. \A v \in Variants : vat[v] = VatIn(gross[v], vat_rate[v]) /\ vat[v] \in Int
    <3> SUFFICES ASSUME NEW v \in Variants PROVE VatIn(gross[v], vat_rate[v]) \in Int
      OBVIOUS
    <3>1. gross[v] \in Nat /\ vat_rate[v] \in Nat
      BY <1>1, <1>2
    <3> QED
      BY <3>1, VatRounds
  <2>2. ASSUME NEW v \in Variants, v \notin sold
        PROVE  vat[v] = 0
    <3>1. gross[v] = 0
      BY <1>2, <2>2
    <3>2. vat_rate[v] \in Nat
      BY <1>1, <2>2
    <3>3. VatIn(0, vat_rate[v]) = 0
      BY <3>2, NoVatInNothing
    <3> QED
      BY <2>1, <2>2, <3>1, <3>3
  <2> QED
    BY <2>1, <2>2
<1>7. \A v \in sold : parts[v] = vat[v]
  BY <1>4
<1>8. VatBreakdown(rows) = [rate \in rates |-> SumFunctionOnSet(parts, {v \in sold : vat_rate[v] = rate})]
  BY <1>5 DEF VatBreakdown
<1> HIDE DEF vat, parts
<1>9. SumFunction(VatBreakdown(rows)) = SumFunctionOnSet(vat, Variants)
  <2>1. IsFiniteSet(sold) /\ sold \subseteq Variants
    BY <1>1, FS_Subset
  <2>2. IsFiniteSet(rates) /\ \A v \in sold : vat_rate[v] \in rates
    <3> DEFINE rateOf == [v \in sold |-> vat_rate[v]]
    <3>1. rateOf \in [sold -> rates]
      OBVIOUS
    <3>2. \A r \in rates : \E v \in sold : rateOf[v] = r
      OBVIOUS
    <3> HIDE DEF sold, rates, rateOf
    <3>3. rateOf \in Surjection(sold, rates)
      BY <3>1, <3>2 DEF Surjection
    <3>4. IsFiniteSet(rates)
      BY <2>1, <3>3, FS_Surjection
    <3> QED
      BY <3>4 DEF rates
  <2>3. \A v \in sold : parts[v] \in Int /\ vat[v] \in Int /\ parts[v] = vat[v]
    BY <1>6, <1>7
  <2> DEFINE sums == VatBreakdown(rows)
  <2>4. /\ \A k \in rates : sums[k] = SumFunctionOnSet(parts, {v \in sold : vat_rate[v] = k})
        /\ DOMAIN sums = rates
    BY <1>8
  <2>5. SumFunction(VatBreakdown(rows)) = SumFunctionOnSet(sums, rates)
    BY <2>4 DEF SumFunction
  <2> DEFINE of == [k \in rates |-> {v \in sold : vat_rate[v] = k}]
  <2>6. SumFunctionOnSet(sums, rates) = SumFunctionOnSet(parts, sold)
    <3>1. \A v \in sold : parts[v] \in Int
      BY <2>3
    <3>2. \A k \in rates : sums[k] = SumFunctionOnSet(parts, of[k])
      BY <2>4
    <3>3. Classes(of, vat_rate, sold, rates)
      BY DEF Classes
    <3> HIDE DEF sold, rates, sums, of
    <3> QED
      BY <2>1, <2>2, <3>1, <3>2, <3>3, SumOfClasses
  <2> HIDE DEF sold, rates, sums
  <2>7. SumFunctionOnSet(parts, sold) = SumFunctionOnSet(vat, sold)
    BY <2>1, <2>3, SumsOfAlike
  <2>8. SumFunctionOnSet(vat, Variants) = SumFunctionOnSet(vat, sold)
    BY <1>1, <1>6, <2>1, SumWithoutZeros
  <2> QED
    BY <2>6, <2>7, <2>8, <2>5
<1>10. /\ totals.subtotal = SumFunctionOnSet(gross, Variants)
       /\ totals.vat = SumFunctionOnSet(vat, Variants)
       /\ totals.shipping = ShippingFor(SumFunctionOnSet(gross, Variants))
       /\ totals.total = totals.subtotal + totals.shipping
  BY <1>3 DEF Totals, SumFunction, gross, vat
<1>11. SumFunctionOnSet(gross, Variants) \in Nat
  BY <1>1, <1>2, SumOfNaturals
<1>12. SumFunction([v \in Variants |-> rows[v].quantity * rows[v].unit]) = SumFunctionOnSet(gross, Variants)
  <2>1. [v \in Variants |-> rows[v].quantity * rows[v].unit] = gross
    BY <1>4 DEF gross, Gross
  <2> QED
    BY <1>3, <2>1 DEF SumFunction
<1>13. totals.shipping = 0 <=>
          \/ SumFunctionOnSet(gross, Variants) = 0
          \/ SumFunctionOnSet(gross, Variants) >= FREE_SHIPPING_THRESHOLD
  BY <1>1, <1>10, <1>11 DEF ShippingFor
<1>14. \A v \in sold : RoundsWell(rows[v].line_total, vat_rate[v])
  BY <1>1, <1>2, <1>4, VatRounds
<1>15. sold # {}
  OBVIOUS
<1> HIDE DEF sold
<1> QED
  BY <1>5, <1>9, <1>10, <1>12, <1>13, <1>14, <1>15 DEF AddsUp

-----------------------------------------------------------------------------
(* Orders. *)

\* place_order never starts with an empty cart, and sells at the prices it read.
LEMMA GoodsStep == AgreementInv /\ GoodsAreSold /\ [StorefrontNext]_storefrontVars => GoodsAreSold'
<1> SUFFICES ASSUME StorefrontTypeOK, GoodsAreSold, [StorefrontNext]_storefrontVars
             PROVE  GoodsAreSold'
  BY DEF AgreementInv
<1>1. ASSUME UNCHANGED checkout PROVE GoodsAreSold'
  BY <1>1 DEF GoodsAreSold
<1>2. ASSUME NEW r \in Requests, Browser(r) PROVE UNCHANGED checkout
  BY <1>2 DEF Browser, Send, Deliver, Resync, GiveUp
<1>3. ASSUME NEW r \in Requests, Router(r) PROVE UNCHANGED checkout
  BY <1>3 DEF Router, Act, Commit, Fail
<1>4. ASSUME NEW accept \in BOOLEAN, Report(accept) PROVE GoodsAreSold'
  <2>1. /\ checkout'.step = "reported" /\ checkout'.lines = cart
        /\ cart # EmptyCart /\ cart \in Carts
    BY <1>4 DEF Report, Ordering, NoOrder, StorefrontTypeOK
  <2>2. PICK v \in Variants : cart[v] # NoLine
    BY <2>1 DEF Carts, EmptyCart
  <2>3. cart[v].quantity > 0
    BY <2>1, <2>2, StorefrontAssumption DEF Carts, Lines, StorefrontAssumption
  <2> QED
    BY <2>1, <2>3 DEF GoodsAreSold
<1>5. CASE RefuseDrift
  BY <1>1, <1>5 DEF RefuseDrift
<1>6. CASE Load
  <2>1. /\ checkout.step = "reported" /\ checkout'.step = "loaded"
        /\ checkout'.lines = checkout.lines /\ checkout'.unit = price
        /\ price \in [Variants -> Prices]
    BY <1>6 DEF Load, Ordering, StorefrontTypeOK
  <2> QED
    BY <2>1 DEF GoodsAreSold
<1>7. CASE Place \/ AbortCheckout
  <2>1. checkout' = NoOrder
    BY <1>7 DEF Place, AbortCheckout
  <2> QED
    BY <2>1 DEF GoodsAreSold, NoOrder
<1>8. ASSUME NEW v \in Variants, NEW p \in Prices, Reprice(v, p) PROVE GoodsAreSold'
  <2>1. /\ checkout'.step = checkout.step /\ checkout'.lines = checkout.lines
        /\ checkout'.unit = checkout.unit
    BY <1>8 DEF Reprice, StorefrontTypeOK
  <2> QED
    BY <2>1 DEF GoodsAreSold
<1>9. CASE NextShopper
  BY <1>1, <1>9 DEF NextShopper
<1>10. CASE UNCHANGED storefrontVars
  BY <1>1, <1>10 DEF storefrontVars
<1> QED
  BY <1>1, <1>2, <1>3, <1>4, <1>5, <1>6, <1>7, <1>8, <1>9, <1>10 DEF StorefrontNext, Ordered

\* The rows and the totals of an order are made from what place_order has loaded;
\* nothing else makes an order.
LEMMA OrderStep ==
    AgreementInv /\ GoodsAreSold /\ OrderAddsUp /\ [StorefrontNext]_storefrontVars => OrderAddsUp'
<1> SUFFICES ASSUME StorefrontTypeOK, GoodsAreSold, OrderAddsUp, [StorefrontNext]_storefrontVars
             PROVE  OrderAddsUp'
  BY DEF AgreementInv
<1>1. ASSUME UNCHANGED outcome \/ outcome'.kind # "order" PROVE OrderAddsUp'
  BY <1>1 DEF OrderAddsUp
<1>2. ASSUME NEW r \in Requests, Browser(r) PROVE UNCHANGED outcome
  BY <1>2 DEF Browser, Send, Deliver, Resync, GiveUp
<1>3. ASSUME NEW r \in Requests, Router(r) PROVE UNCHANGED outcome
  BY <1>3 DEF Router, Act, Commit, Fail
<1>4. ASSUME NEW accept \in BOOLEAN, Report(accept) PROVE outcome'.kind # "order"
  BY <1>4 DEF Report
<1>5. CASE RefuseDrift
  BY <1>1, <1>5 DEF RefuseDrift
<1>6. CASE Load \/ AbortCheckout
  BY <1>1, <1>6 DEF Load, AbortCheckout
<1>7. CASE Place
  <2> DEFINE quantity == QuantitiesOf(checkout.lines)
             unit     == checkout.unit
  <2>1. checkout.step = "loaded"
    BY <1>7 DEF Place, Ordering
  <2>2. quantity \in [Variants -> Nat] /\ \E v \in Variants : quantity[v] > 0
    <3>1. checkout.lines \in Carts
      BY DEF StorefrontTypeOK
    <3>2. \A line \in Lines : line.quantity \in Nat
      BY StorefrontAssumption DEF Lines, NoLine, StorefrontAssumption
    <3>3. \A v \in Variants : checkout.lines[v].quantity \in Nat
      BY <3>1, <3>2 DEF Carts
    <3> QED
      BY <2>1, <3>3 DEF GoodsAreSold, QuantitiesOf
  <2>3. unit \in [Variants -> Nat]
    BY <2>1, StorefrontAssumption DEF GoodsAreSold, StorefrontAssumption
  <2>4. /\ outcome'.rows = [v \in Variants |->
                               [quantity |-> quantity[v], unit |-> unit[v],
                                line_total |-> Gross(quantity, unit)[v]]]
        /\ outcome'.totals = Totals(quantity, unit)
    BY <1>7 DEF Place, OrderTotals, QuantitiesOf
  <2>5. PICK rows, totals : rows = outcome'.rows /\ totals = outcome'.totals
    OBVIOUS
  <2> HIDE DEF quantity, unit
  <2>6. AddsUp(rows, totals)
    BY <2>2, <2>3, <2>4, <2>5, RowsAddUp
  <2> QED
    BY <2>5, <2>6 DEF OrderAddsUp
<1>8. ASSUME NEW v \in Variants, NEW p \in Prices, Reprice(v, p) PROVE UNCHANGED outcome
  BY <1>8 DEF Reprice
<1>9. CASE NextShopper
  BY <1>1, <1>9 DEF NextShopper
<1>10. CASE UNCHANGED storefrontVars
  BY <1>1, <1>10 DEF storefrontVars
<1> QED
  BY <1>1, <1>2, <1>3, <1>4, <1>7, <1>8, <1>9, <1>10, <1>5, <1>6 DEF StorefrontNext, Ordered

-----------------------------------------------------------------------------
(* The theorems. *)

\* At first nothing is ordered, and every step keeps what is agreed and adds up.
LEMMA InvKeeps ==
    /\ StorefrontInit => StorefrontInv
    /\ StorefrontInv /\ [StorefrontNext]_storefrontVars => StorefrontInv'
<1>1. StorefrontInit => GoodsAreSold /\ OrderAddsUp
  BY DEF StorefrontInit, GoodsAreSold, OrderAddsUp, NoOrder
<1>2. StorefrontInv /\ [StorefrontNext]_storefrontVars => StorefrontInv'
  BY NextKeeps, GoodsStep, OrderStep DEF StorefrontInv
<1> QED
  BY <1>1, <1>2, InitEstablishes DEF StorefrontInv

\* The invariant: types, a lone request is the only one and what it has read still
\* stands, every change of the cart reaches the screen or is in doubt, and
\* place_order holds a cart and prices that were agreed to; what it sells adds up.
THEOREM StorefrontInvariance == StorefrontSpec => []StorefrontInv
<1> QED BY InvKeeps, PTL DEF StorefrontSpec

\* When every answer is in, the screen shows the cart there is (run in
\* cart-provider.tsx), unless answers crossed, a re-sync failed too or an order was
\* placed; whatever was refused or lost on the way.
THEOREM ScreenFollowsCart == StorefrontSpec => []ViewIsCurrent
<1>1. StorefrontInv => ViewIsCurrent
  BY DEF StorefrontInv, AgreementInv, ViewFollows, FollowsFrom, Stands, ViewIsCurrent
<1> QED BY <1>1, StorefrontInvariance, PTL

\* Between the cart and the report no new price goes unnoticed (repricing_report,
\* place_order): who has not accepted new prices pays, for each variant, the price
\* of when it was added, but for a variant whose price changes after the report and
\* before get_variants (orders/service.py:87-98), which is charged in silence; and
\* who sees the cart and the prices as they are, until the order, pays the total on
\* the screen, or is refused with a line flagged there.
THEOREM ChargesAsAgreed == StorefrontSpec => []ChargedAsAgreed
<1>1. StorefrontInv => ChargedAsAgreed
  BY DEF StorefrontInv, AgreementInv
<1> QED BY <1>1, StorefrontInvariance, PTL

\* An order adds up (place_order, vat_breakdown), for any finite set of variants, any
\* prices, 0 included, any rates of VAT in thousandths, whichever halves the 28
\* digits of apply_rate lose, and whatever prices change on the way: its rows make
\* its subtotal and, by rate, its VAT, and no row's VAT is off by more than half a
\* unit.
THEOREM OrdersAddUp == StorefrontSpec => []OrderAddsUp
<1>1. StorefrontInv => OrderAddsUp
  BY DEF StorefrontInv
<1> QED BY <1>1, StorefrontInvariance, PTL
=============================================================================
