---------------------- MODULE AuthorityExchangeProofs ----------------------
(***************************************************************************)
(* The exchange's safety for every number of Cells, every set of requests, *)
(* every assignment registered in the Cells and any number of messages.    *)
(***************************************************************************)
EXTENDS AuthorityExchange, FiniteSetTheorems, TLAPS

\* A message that has a route names the Cell at one end of it.
LEMMA RouteEnds ==
  ASSUME NEW m
  PROVE  /\ Routable(m) => m.scope.cell # None
         /\ Direction(m) \in {"none", "platform-to-cell", "cell-to-platform"}
         /\ Direction(m) = "platform-to-cell" => m.source = Platform
         /\ Direction(m) = "cell-to-platform" => m.source = m.scope.cell
  BY DEF Direction, Routable

\* What the durables, guards and handlers of an authority let through: tenant
\* work of another authority whose route ends here, and for a command an answer
\* whose route leads back.
LEMMA HandledMessage ==
  ASSUME NEW a \in Authority, NEW k \in Kind, NEW m, Handle(a, k, m)
  PROVE  /\ m \in stream
         /\ m.scope.kind = "tenant" /\ Destination(m) = a /\ m.source # a
         /\ m.kind = "command" => Destination(Observed(a, m)) = m.source
         /\ Receive(a, m)
<1>1. Platform \notin CellId /\ None \notin CellId /\ None # Platform
  BY ExchangeAssumption
<1>2. CASE a = Platform
  <2>1. HandlePlatform(k, m)
    BY <1>2 DEF Handle
  <2>2. m \in stream /\ Subject(m) \in Filter(Platform, k) /\ Receive(a, m)
    BY <1>2, <2>1 DEF HandlePlatform, Delivered
  <2>3. m.source \in CellId /\ m.scope.kind = "tenant"
    BY <2>1 DEF HandlePlatform, CellToPlatform
  <2>4. Direction(m) = "cell-to-platform" /\ m.scope.cell \in CellId
    BY <2>2 DEF Subject, Filter
  <2>5. Destination(m) = a /\ m.source = m.scope.cell
    BY <1>2, <2>4, RouteEnds DEF Destination
  <2>6. Direction(Observed(a, m)) = "platform-to-cell"
    BY <1>1, <1>2, <2>4 DEF Observed, Direction
  <2>7. Destination(Observed(a, m)) = m.source
    BY <2>5, <2>6 DEF Destination, Observed
  <2> QED
    BY <1>1, <1>2, <2>2, <2>3, <2>5, <2>7
<1>3. CASE a # Platform
  <2>1. a \in Cell /\ HandleCell(a, k, m)
    BY <1>3 DEF Handle, Authority
  <2>2. m \in stream /\ Subject(m) \in Filter(a, k) /\ Receive(a, m)
    BY <2>1 DEF HandleCell, Delivered
  <2>3. m.source = Platform /\ m.scope.kind = "tenant" /\ m.scope.cell = a
    BY <2>1 DEF HandleCell, PlatformToCell
  <2>4. Direction(m) = "platform-to-cell"
    BY <1>3, <2>2 DEF Subject, Filter
  <2>5. Destination(m) = a
    BY <2>3, <2>4 DEF Destination
  <2>6. Direction(Observed(a, m)) = "cell-to-platform"
    BY <1>1, <1>3, <2>1, <2>3 DEF Observed, Direction, CellId
  <2>7. Destination(Observed(a, m)) = m.source
    BY <2>3, <2>6 DEF Destination
  <2> QED
    BY <1>3, <2>2, <2>3, <2>5, <2>7
<1> QED
  BY <1>2, <1>3

----------------------------------------------------------------------------
(* The inductive invariant.  The properties speak of identities in inboxes *)
(* and messages in outboxes; what ties the two together is that identities *)
(* are never reused and that an answer exists only for a handled command.  *)

\* Identities are fresh, causes older than their effects.
IdentitiesAreUnique ==
  /\ \A m \in Message : m.id \in 1..issued /\ m.cause \in 0..issued
  /\ \A m, n \in Message : m.id = n.id => m = n
  /\ \A a \in Authority : inbox[a] \subseteq 1..issued

\* Streams hold committed messages that a route carries.
StreamsAreRouted ==
  /\ \A m \in Message : m.kind \in Kind /\ m.scope.cell \in CellId \cup {None}
  /\ stream \subseteq Message
  /\ \A m \in stream : Routable(m)

\* Nothing is caused by a message that nobody has handled.
CausesWereHandled ==
  \A n \in Message : n.cause = 0 \/ \E b \in Authority : n.cause \in inbox[b]

Answers(m) == {n \in Message : n.cause = m.id}

\* AnsweredOnce, with the answer named instead of counted.
Answered ==
  \A a \in Authority : \A m \in Message :
    m.kind = "command" /\ m.id \in inbox[a] =>
      \E n \in Message :
        /\ Answers(m) = {n}
        /\ n.source = a /\ Destination(n) = m.source
        /\ n.scope = m.scope /\ n.correlation = m.correlation

ExchangeInv ==
  /\ issued \in Nat
  /\ outbox = [a \in Authority |-> outbox[a]]
  /\ inbox = [a \in Authority |-> inbox[a]]
  /\ IdentitiesAreUnique
  /\ StreamsAreRouted
  /\ CausesWereHandled
  /\ HandledWhereAddressed
  /\ Answered

\* A committed insert adds one message to what exists.
LEMMA InsertEffect ==
  ASSUME outbox = [b \in Authority |-> outbox[b]], NEW a \in Authority, NEW m, Insert(a, m)
  PROVE  /\ outbox' = [b \in Authority |-> outbox'[b]]
         /\ Message' = Message \cup {m}
         /\ issued' = m.id
<1>1. outbox' = [b \in Authority |-> IF b = a THEN outbox[b] \cup {m} ELSE outbox[b]]
  BY DEF Insert
<1> QED
  BY <1>1 DEF Insert, Message

\* An application's message joins the exchange; nobody has handled it.
LEMMA EnqueueStep ==
  ASSUME ExchangeInv, NEW r \in Requests, NEW a \in Authority, Insert(a, NewMessage(r)),
         UNCHANGED <<published, batch, stream, inbox>>
  PROVE  ExchangeInv'
<1> DEFINE new == NewMessage(r)
<1>0. /\ new.id = issued + 1 /\ new.cause = 0 /\ new.kind \in Kind
      /\ new.scope.cell \in CellId \cup {None}
  BY ExchangeAssumption DEF NewMessage
<1>1. /\ outbox' = [b \in Authority |-> outbox'[b]]
      /\ Message' = Message \cup {new} /\ issued' = issued + 1 /\ issued \in Nat
  BY <1>0, InsertEffect DEF ExchangeInv
<1>2. IdentitiesAreUnique'
  <2>1. \A m \in Message : m.id \in 1..issued /\ m.id # new.id
    BY <1>0, <1>1 DEF ExchangeInv, IdentitiesAreUnique
  <2>2. \A m \in Message' : m.id \in 1..issued' /\ m.cause \in 0..issued'
    BY <1>0, <1>1 DEF ExchangeInv, IdentitiesAreUnique
  <2>3. \A m, n \in Message' : m.id = n.id => m = n
    BY <1>1, <2>1 DEF ExchangeInv, IdentitiesAreUnique
  <2>4. \A b \in Authority : inbox'[b] \subseteq 1..issued'
    BY <1>1 DEF ExchangeInv, IdentitiesAreUnique
  <2> QED
    BY <2>2, <2>3, <2>4 DEF IdentitiesAreUnique
<1>3. StreamsAreRouted'
  BY <1>0, <1>1 DEF ExchangeInv, StreamsAreRouted, Routable, Direction
<1>4. CausesWereHandled'
  BY <1>0, <1>1 DEF ExchangeInv, CausesWereHandled
<1>5. \A b \in Authority : new.id \notin inbox[b]
  BY <1>0, <1>1 DEF ExchangeInv, IdentitiesAreUnique
<1>6. HandledWhereAddressed'
  BY <1>1, <1>5 DEF ExchangeInv, HandledWhereAddressed, Destination, Direction
<1>7. Answered'
  <2> SUFFICES ASSUME NEW b \in Authority, NEW m \in Message, m.kind = "command", m.id \in inbox[b]
               PROVE  \E n \in Message' :
                        /\ Answers(m)' = {n}
                        /\ n.source = b /\ Destination(n)' = m.source
                        /\ n.scope = m.scope /\ n.correlation = m.correlation
    BY <1>1, <1>5 DEF Answered
  <2>1. PICK n \in Message :
          /\ Answers(m) = {n}
          /\ n.source = b /\ Destination(n) = m.source
          /\ n.scope = m.scope /\ n.correlation = m.correlation
    BY DEF ExchangeInv, Answered
  <2>2. m.id # 0
    BY <1>1 DEF ExchangeInv, IdentitiesAreUnique
  <2>3. Answers(m)' = Answers(m)
    BY <1>0, <1>1, <2>2 DEF Answers
  <2> QED
    BY <1>1, <2>1, <2>3 DEF Destination, Direction
<1> QED
  BY <1>1, <1>2, <1>3, <1>4, <1>6, <1>7 DEF ExchangeInv

\* A step that commits nothing and publishes only what has a route.
LEMMA TransportStep ==
  ASSUME ExchangeInv, UNCHANGED <<outbox, inbox, issued>>, stream' \subseteq Message,
         \A m \in stream' : Routable(m)
  PROVE  ExchangeInv'
<1>1. Message' = Message
  BY DEF Message
<1>2. IdentitiesAreUnique' /\ CausesWereHandled'
  BY <1>1 DEF ExchangeInv, IdentitiesAreUnique, CausesWereHandled
<1>3. StreamsAreRouted'
  BY <1>1 DEF ExchangeInv, StreamsAreRouted, Routable, Direction
<1>4. HandledWhereAddressed'
  BY <1>1 DEF ExchangeInv, HandledWhereAddressed, Destination, Direction
<1>5. Answered'
  BY <1>1 DEF ExchangeInv, Answered, Answers, Destination, Direction
<1> QED
  BY <1>2, <1>3, <1>4, <1>5 DEF ExchangeInv

\* A first delivery of m at authority a commits the receipt and, for a command,
\* the answer.
LEMMA FirstDelivery ==
  ASSUME ExchangeInv, NEW a \in Authority, NEW k \in Kind, NEW m, Handle(a, k, m),
         m.id \notin inbox[a], stream' \in {stream, stream \ {m}}
  PROVE  ExchangeInv'
<1> DEFINE new == Observed(a, m)
           command == m.kind = "command"
<1>0. /\ m \in stream /\ m \in Message
      /\ m.scope.kind = "tenant" /\ Destination(m) = a /\ m.source # a
      /\ m.kind = "command" => Destination(new) = m.source
      /\ Receive(a, m)
  BY HandledMessage DEF ExchangeInv, StreamsAreRouted
<1>1. /\ new.id = issued + 1 /\ new.cause = m.id /\ new.kind \in Kind /\ new.source = a
      /\ new.scope = m.scope /\ new.correlation = m.correlation
  BY DEF Observed, Kind
<1>2. issued \in Nat /\ m.id \in 1..issued
  BY <1>0 DEF ExchangeInv, IdentitiesAreUnique
<1>3. /\ inbox' = [b \in Authority |-> inbox'[b]]
      /\ inbox'[a] = inbox[a] \cup {m.id}
      /\ \A b \in Authority \ {a} : inbox'[b] = inbox[b]
  BY <1>0 DEF ExchangeInv, Receive
<1>4. /\ outbox' = [b \in Authority |-> outbox'[b]]
      /\ command => Message' = Message \cup {new} /\ issued' = issued + 1
      /\ ~command => Message' = Message /\ issued' = issued
  <2>1. CASE command
    BY <1>0, <1>1, <2>1, InsertEffect DEF ExchangeInv, Receive
  <2>2. CASE ~command
    BY <1>0, <2>2 DEF ExchangeInv, Receive, Message
  <2> QED
    BY <2>1, <2>2
<1>5. issued' \in Nat /\ issued' >= issued /\ Message' \subseteq Message \cup {new}
      /\ Message \subseteq Message' /\ (new \in Message' => new \in Message \/ issued' = issued + 1)
  BY <1>2, <1>4
<1>6. IdentitiesAreUnique'
  <2>1. \A n \in Message : n.id \in 1..issued /\ n.cause \in 0..issued
    BY DEF ExchangeInv, IdentitiesAreUnique
  <2>2. \A n \in Message' : n.id \in 1..issued' /\ n.cause \in 0..issued'
    BY <1>1, <1>2, <1>4, <2>1
  <2>3. \A n \in Message : n.id # new.id
    BY <1>1, <1>2, <2>1
  <2>4. \A n, o \in Message' : n.id = o.id => n = o
    BY <1>5, <2>3 DEF ExchangeInv, IdentitiesAreUnique
  <2>5. \A b \in Authority : inbox'[b] \subseteq 1..issued'
    BY <1>2, <1>3, <1>5 DEF ExchangeInv, IdentitiesAreUnique
  <2> QED
    BY <2>2, <2>4, <2>5 DEF IdentitiesAreUnique
<1>7. StreamsAreRouted'
  <2>1. m.scope.cell \in CellId \cup {None}
    BY <1>0 DEF ExchangeInv, StreamsAreRouted
  <2>2. stream' \subseteq stream
    OBVIOUS
  <2> QED
    BY <1>1, <1>5, <2>1, <2>2 DEF ExchangeInv, StreamsAreRouted, Routable, Direction
<1>8. CausesWereHandled'
  BY <1>1, <1>3, <1>5 DEF ExchangeInv, CausesWereHandled
<1>9. \A b \in Authority : new.id \notin inbox'[b]
  BY <1>1, <1>2, <1>3 DEF ExchangeInv, IdentitiesAreUnique
<1>10. \A n \in Message' : \A b \in Authority :
         n.id \in inbox'[b] => n \in Message /\ (n.id \in inbox[b] \/ (n = m /\ b = a))
  BY <1>0, <1>3, <1>5, <1>9 DEF ExchangeInv, IdentitiesAreUnique
<1>11. HandledWhereAddressed'
  BY <1>0, <1>10 DEF ExchangeInv, HandledWhereAddressed, Destination, Direction
<1>12. ASSUME NEW n \in Message PROVE n.cause # m.id
  <2>1. SUFFICES ASSUME n.cause = m.id PROVE FALSE
    OBVIOUS
  <2>2. PICK b \in Authority : m.id \in inbox[b]
    BY <1>2, <2>1 DEF ExchangeInv, CausesWereHandled
  <2>3. Destination(m) = b
    BY <1>0, <2>2 DEF ExchangeInv, HandledWhereAddressed
  <2> QED
    BY <1>0, <2>2, <2>3
<1>13. Answered'
  <2> SUFFICES ASSUME NEW b \in Authority, NEW o \in Message', o.kind = "command", o.id \in inbox'[b]
               PROVE  \E n \in Message' :
                        /\ Answers(o)' = {n}
                        /\ n.source = b /\ Destination(n)' = o.source
                        /\ n.scope = o.scope /\ n.correlation = o.correlation
    BY DEF Answered
  <2>1. CASE o = m /\ b = a
    <3>1. PICK x : x = new
      OBVIOUS
    <3>2. Message' = Message \cup {x}
      BY <1>4, <2>1, <3>1
    <3>3. /\ x.source = a /\ x.scope = m.scope /\ x.correlation = m.correlation
          /\ x.cause = m.id /\ Destination(x) = m.source
      BY <1>0, <1>1, <2>1, <3>1
    <3>4. Answers(o)' = {x}
      BY <1>12, <2>1, <3>2, <3>3 DEF Answers
    <3>5. Destination(x)' = Destination(x)
      BY DEF Destination, Direction
    <3> HIDE DEF new
    <3> QED
      BY <2>1, <3>2, <3>3, <3>4, <3>5
  <2>2. CASE ~(o = m /\ b = a)
    <3>1. o \in Message /\ o.id \in inbox[b]
      BY <1>10, <2>2
    <3>2. PICK n \in Message :
            /\ Answers(o) = {n}
            /\ n.source = b /\ Destination(n) = o.source
            /\ n.scope = o.scope /\ n.correlation = o.correlation
      BY <3>1 DEF ExchangeInv, Answered
    <3>3. o.id # m.id
      <4>1. SUFFICES ASSUME o.id = m.id PROVE FALSE
        OBVIOUS
      <4>2. o = m
        BY <1>0, <3>1, <4>1 DEF ExchangeInv, IdentitiesAreUnique
      <4>3. Destination(m) = b
        BY <3>1, <4>2 DEF ExchangeInv, HandledWhereAddressed
      <4> QED
        BY <1>0, <2>2, <4>2, <4>3
    <3>4. Answers(o)' = Answers(o)
      BY <1>1, <1>5, <3>3 DEF Answers
    <3> QED
      BY <1>5, <3>2, <3>4 DEF Destination, Direction
  <2> QED
    BY <2>1, <2>2
<1> QED
  BY <1>3, <1>4, <1>5, <1>6, <1>7, <1>8, <1>11, <1>13 DEF ExchangeInv

\* Every step of the exchange keeps the invariant.
LEMMA ExchangeStep ==
  ASSUME ExchangeInv, [Next]_vars
  PROVE  ExchangeInv'
<1>0. stream \subseteq Message /\ \A m \in stream : Routable(m)
  BY DEF ExchangeInv, StreamsAreRouted
<1>1. ASSUME NEW r \in Requests, EnqueuePlatform(r) PROVE ExchangeInv'
  BY <1>1, EnqueueStep DEF EnqueuePlatform, Authority
<1>2. ASSUME NEW r \in Requests, NEW c \in Cell, EnqueueCell(c, r) PROVE ExchangeInv'
  BY <1>2, EnqueueStep DEF EnqueueCell, Authority
<1>3. ASSUME NEW a \in Authority, NEW S, Claim(a, S) PROVE ExchangeInv'
  BY <1>0, <1>3, TransportStep DEF Claim
<1>4. ASSUME NEW a \in Authority, NEW m \in outbox[a], Publish(a, m) \/ PublishUnmarked(a, m)
      PROVE  ExchangeInv'
  <2>1. m \in Message
    BY <1>4 DEF Message
  <2> QED
    BY <1>0, <1>4, <2>1, TransportStep DEF Publish, PublishUnmarked
<1>5. ASSUME NEW a \in Authority, NEW m \in outbox[a], PublishFatal(a, m) PROVE ExchangeInv'
  BY <1>0, <1>5, TransportStep DEF PublishFatal
<1>6. ASSUME NEW a \in Authority, NEW k \in Kind, NEW m \in stream,
             HandleAcked(a, k, m) \/ HandleUnacked(a, k, m)
      PROVE  ExchangeInv'
  <2>1. Handle(a, k, m) /\ stream' \in {stream, stream \ {m}}
    BY <1>6 DEF HandleAcked, HandleUnacked
  <2>2. CASE m.id \in inbox[a]
    <3>1. UNCHANGED <<outbox, inbox, issued>>
      BY <2>1, <2>2, HandledMessage DEF Receive
    <3> QED
      BY <1>0, <2>1, <3>1, TransportStep
  <2>3. CASE m.id \notin inbox[a]
    BY <2>1, <2>3, FirstDelivery
  <2> QED
    BY <2>2, <2>3
<1>7. ASSUME UNCHANGED vars PROVE ExchangeInv'
  BY <1>0, <1>7, TransportStep DEF vars
<1> QED
  BY <1>1, <1>2, <1>3, <1>4, <1>5, <1>6, <1>7 DEF Next

\* The invariant holds for every exchange, however messages are duplicated,
\* reordered, redelivered or left unmarked.
THEOREM ExchangeInvariant == Spec => []ExchangeInv
<1>1. ASSUME Init PROVE ExchangeInv
  <2>1. Message = {} /\ issued = 0 /\ stream = {} /\ \A a \in Authority : inbox[a] = {}
    BY <1>1 DEF Init, Message
  <2> QED
    BY <1>1, <2>1
       DEF Init, ExchangeInv, IdentitiesAreUnique, StreamsAreRouted, CausesWereHandled,
           HandledWhereAddressed, Answered
<1> QED
  BY <1>1, ExchangeStep, PTL DEF Spec

\* An authority handles only tenant work that another authority addressed to it.
THEOREM WorkIsHandledWhereAddressed == Spec => []HandledWhereAddressed
<1>1. ExchangeInv => HandledWhereAddressed
  BY DEF ExchangeInv
<1> QED
  BY <1>1, ExchangeInvariant, PTL

\* A handled command has exactly one answer, in its workflow and tenant, whose
\* route leads back to the authority that asked.
THEOREM CommandsAreAnsweredOnce == Spec => []AnsweredOnce
<1>1. ASSUME ExchangeInv PROVE AnsweredOnce
  <2> SUFFICES ASSUME NEW a \in Authority, NEW m \in Message, m.kind = "command", m.id \in inbox[a]
               PROVE  /\ Cardinality(Answers(m)) = 1
                      /\ \A n \in Answers(m) : /\ n.source = a /\ Destination(n) = m.source
                                                /\ n.scope = m.scope /\ n.correlation = m.correlation
    BY DEF AnsweredOnce, Answers
  <2>1. PICK n \in Message :
          /\ Answers(m) = {n}
          /\ n.source = a /\ Destination(n) = m.source
          /\ n.scope = m.scope /\ n.correlation = m.correlation
    BY <1>1 DEF ExchangeInv, Answered
  <2>2. Cardinality({n}) = 1
    BY FS_Singleton
  <2> QED
    BY <2>1, <2>2
<1> QED
  BY <1>1, ExchangeInvariant, PTL

\* The filters of the topology partition the routes that end at a declared
\* authority: each stored message is matched by the durable of its addressee
\* and by no other, and by none if the manifest does not declare its Cell.
THEOREM DurablesPartitionRoutes == Spec => []ExactlyOneDurable
<1>1. ASSUME ExchangeInv PROVE ExactlyOneDurable
  <2> DEFINE Matching(m) == {d \in Authority \X Kind : Subject(m) \in Filter(d[1], d[2])}
  <2> SUFFICES ASSUME NEW m \in stream
               PROVE  /\ Cardinality(Matching(m)) = IF Destination(m) \in Undeclared THEN 0 ELSE 1
                      /\ \A d \in Matching(m) : d = <<Destination(m), m.kind>>
    BY DEF ExactlyOneDurable
  <2>0. Platform \notin CellId /\ Cell \cap Undeclared = {}
    BY ExchangeAssumption
  <2>1. /\ m.kind \in Kind /\ m.scope.cell \in CellId
        /\ Direction(m) \in {"platform-to-cell", "cell-to-platform"}
    BY <1>1, RouteEnds DEF ExchangeInv, StreamsAreRouted, Routable
  <2>2. Destination(m) = IF Direction(m) = "cell-to-platform" THEN Platform ELSE m.scope.cell
    BY <2>1 DEF Destination
  <2>3. ASSUME NEW a \in Authority, NEW k \in Kind
        PROVE  Subject(m) \in Filter(a, k) <=> k = m.kind /\ a = Destination(m)
    BY <2>0, <2>1, <2>2 DEF Subject, Filter, Authority, CellId
  <2>4. \A d \in Matching(m) : d = <<Destination(m), m.kind>>
    BY <2>3
  <2>5. CASE Destination(m) \in Undeclared
    <3>1. Destination(m) \notin Authority
      BY <2>0, <2>5 DEF Authority, CellId
    <3>2. Matching(m) = {}
      BY <2>3, <3>1
    <3> QED
      BY <2>4, <2>5, <3>2, FS_EmptySet
  <2>6. CASE Destination(m) \notin Undeclared
    <3>1. Destination(m) \in Authority
      BY <2>1, <2>2, <2>6 DEF Authority, CellId
    <3>2. Matching(m) = {<<Destination(m), m.kind>>}
      BY <2>1, <2>3, <2>4, <3>1
    <3>3. \A x : Cardinality({x}) = 1
      BY FS_Singleton
    <3> QED
      BY <2>4, <2>6, <3>2, <3>3
  <2> QED
    BY <2>5, <2>6
<1> QED
  BY <1>1, ExchangeInvariant, PTL
============================================================================
