-------------------------- MODULE EventFeed_proofs --------------------------
(***************************************************************************)
(* What holds of EventFeed for every set of tasks, diagnostics and         *)
(* connections, every buffer and every number of changes and faults: its   *)
(* types, that no handler is left behind with diagnostics its client was   *)
(* not told of, and that the feed has, or will have, what the index has of *)
(* every task of which the browser missed nothing.                         *)
(***************************************************************************)
EXTENDS EventFeed, TLAPS, SequenceTheorems

-----------------------------------------------------------------------------
(* What a step does to the connections *)

\* The handler of k takes a step, or its wire changes.
LEMMA UpdateConn ==
  ASSUME TypeOK, NEW k \in Conns, NEW r \in Connections,
         Len(r.queue) <= SubCap, Len(r.wire) <= WireCap,
         conn' = [conn EXCEPT ![k] = r]
  PROVE  /\ conn' \in [Conns -> Connections]
         /\ \A c \in Conns : Len(conn'[c].queue) <= SubCap /\ Len(conn'[c].wire) <= WireCap
<1>1. conn \in [Conns -> Connections]
  BY DEF TypeOK
<1>2. conn' \in [Conns -> Connections]
  BY <1>1
<1>3. ASSUME NEW c \in Conns
      PROVE  Len(conn'[c].queue) <= SubCap /\ Len(conn'[c].wire) <= WireCap
  <2>1. CASE c = k
    BY <2>1, <1>1
  <2>2. CASE c # k
    <3>1. conn'[c] = conn[c]
      BY <2>2, <1>1
    <3>2. QED
      BY <3>1 DEF TypeOK
  <2>3. QED
    BY <2>1, <2>2
<1>4. QED
  BY <1>2, <1>3

LEMMA FreeIsConnection ==
  /\ Free \in Connections
  /\ [Free EXCEPT !.pc = "subscribe", !.up = TRUE] \in Connections
  /\ Len(Free.queue) = 0 /\ Len(Free.wire) = 0
  /\ SubCap \in Nat /\ WireCap \in Nat /\ SubCap > 0
<1>1. Nothing \in [{} -> Values \union {None}]
  BY DEF Nothing
<1>2. Nothing \in Changes
  BY <1>1 DEF Changes
<1>3. <<>> \in Seq(Changes) /\ <<>> \in Seq(Messages)
  OBVIOUS
<1>4. Free \in Connections
  BY <1>2, <1>3 DEF Free, Connections
<1>5. [Free EXCEPT !.pc = "subscribe", !.up = TRUE] \in Connections
  BY <1>2, <1>3 DEF Free, Connections
<1>6. Len(Free.queue) = 0 /\ Len(Free.wire) = 0
  BY DEF Free
<1>7. SubCap \in Nat /\ WireCap \in Nat /\ SubCap > 0
  BY FeedAssumption
<1>8. QED
  BY <1>4, <1>5, <1>6, <1>7

\* What Receive takes, and what remains.
LEMMA TakeFirst ==
  ASSUME NEW S, NEW q \in Seq(S), q # <<>>
  PROVE  /\ Head(q) \in S /\ Tail(q) \in Seq(S)
         /\ Len(Tail(q)) = Len(q) - 1 /\ Len(q) \in Nat /\ Len(Tail(q)) \in Nat
BY HeadTailProperties, LenProperties

LEMMA ChangeOf ==
  ASSUME NEW S \in SUBSET Ids, NEW f \in [S -> Values \union {None}]
  PROVE  f \in Changes
BY DEF Changes

LEMMA ChangeIs ==
  ASSUME NEW c \in Changes
  PROVE  /\ DOMAIN c \in SUBSET Ids
         /\ c \in [DOMAIN c -> Values \union {None}]
         /\ c # None
BY NoChangeAssumption DEF Changes

-----------------------------------------------------------------------------
(* Types *)

LEMMA InitTypeOK == Init => TypeOK
<1> SUFFICES ASSUME Init PROVE TypeOK
  OBVIOUS
<1>1. Rapid \in Nat /\ MaxChanges \in Nat /\ MaxFaults \in Nat /\ MaxActs \in Nat
  BY FeedAssumption
<1>2. /\ conn \in [Conns -> Connections]
      /\ \A k \in Conns : Len(conn[k].queue) <= SubCap /\ Len(conn[k].wire) <= WireCap
  BY FreeIsConnection DEF Init
<1>3. feed \in Tasks
  BY DEF Init, Tasks
<1>4. QED
  BY <1>1, <1>2, <1>3 DEF Init, TypeOK, Sources, Requests

\* The steps of the engine, the bus and a new daemon.
LEMMA ServerTypeOK ==
  TypeOK /\ (Reconcile \/ ReconcileFails \/ Publish \/ Restart) => TypeOK'
<1> SUFFICES ASSUME TypeOK, Reconcile \/ ReconcileFails \/ Publish \/ Restart PROVE TypeOK'
  OBVIOUS
<1>1. MaxChanges \in Nat /\ MaxFaults \in Nat
  BY FeedAssumption
<1>2. CASE Reconcile
  <2> DEFINE changed == {id \in Ids : index'[id] # index[id]}
  <2>1. pending' \in Changes
    <3>1. pending' \in [changed -> Values \union {None}]
      BY <1>2 DEF Reconcile, Tasks
    <3>2. QED
      BY <3>1, ChangeOf
  <2>2. get' \in Requests
    BY <1>2 DEF Reconcile, TypeOK, Requests
  <2>3. changes' \in 0 .. MaxChanges
    BY <1>2, <1>1 DEF Reconcile, TypeOK
  <2>4. QED
    BY <1>2, <2>1, <2>2, <2>3 DEF Reconcile, TypeOK
<1>3. CASE Publish
  <2>1. pending \in Changes /\ DOMAIN pending \in SUBSET Ids
    BY <1>3, ChangeIs DEF Publish, TypeOK
  <2>2. ASSUME NEW k \in Conns
        PROVE  /\ conn'[k] \in Connections
               /\ Len(conn'[k].queue) <= SubCap /\ Len(conn'[k].wire) <= WireCap
    <3>1. conn[k] \in Connections /\ Len(conn[k].queue) \in Nat
          /\ Len(conn[k].queue) <= SubCap /\ Len(conn[k].wire) <= WireCap
      BY DEF TypeOK, Connections
    <3>2. CASE InBus(k) /\ HasRoom(k)
      <4>1. conn'[k] = [conn[k] EXCEPT !.queue = Append(@, pending)]
        BY <1>3, <3>2 DEF Publish
      <4>2. /\ Append(conn[k].queue, pending) \in Seq(Changes)
            /\ Len(Append(conn[k].queue, pending)) = Len(conn[k].queue) + 1
        BY <3>1, <2>1 DEF Connections
      <4>3. Len(conn[k].queue) + 1 <= SubCap
        BY <3>1, <3>2, FreeIsConnection DEF HasRoom
      <4>4. QED
        BY <3>1, <4>1, <4>2, <4>3 DEF Connections
    <3>3. CASE ~(InBus(k) /\ HasRoom(k))
      BY <1>3, <3>1, <3>3 DEF Publish
    <3>4. QED
      BY <3>2, <3>3
  <2>3. conn' \in [Conns -> Connections]
    BY <1>3, <2>2 DEF Publish
  <2>4. off' \subseteq Ids
    BY <1>3, <2>1 DEF Publish, TypeOK
  <2>5. QED
    BY <1>3, <2>2, <2>3, <2>4 DEF Publish, TypeOK, browser
<1>4. CASE Restart
  <2>1. /\ conn' \in [Conns -> Connections]
        /\ \A k \in Conns : Len(conn'[k].queue) <= SubCap /\ Len(conn'[k].wire) <= WireCap
    BY <1>4, FreeIsConnection DEF Restart
  <2>2. pending # None => DOMAIN pending \in SUBSET Ids
    BY ChangeIs DEF TypeOK
  <2>3. off' \subseteq Ids
    BY <1>4, <2>2 DEF Restart, TypeOK
  <2>4. get' \in Requests /\ faults' \in 0 .. MaxFaults
    BY <1>4, <1>1 DEF Restart, Fault, TypeOK, Requests
  <2>5. QED
    BY <1>4, <2>1, <2>3, <2>4 DEF Restart, TypeOK
<1>5. CASE ReconcileFails
  <2>1. PICK S \in SUBSET {id \in Ids : index[id] # None}, D \in SUBSET diags :
          /\ index' = [id \in Ids |-> IF id \in S THEN None ELSE index[id]]
          /\ diags' = diags \ D
          /\ get' = IF get.state = "answered" THEN [get EXCEPT !.since = @ \union S] ELSE get
          /\ off' = off \union S
          /\ lost' = lost \union D
    BY <1>5 DEF ReconcileFails
  <2>2. index' \in Tasks /\ diags' \in SUBSET Diags /\ off' \subseteq Ids /\ lost' \subseteq Diags
    BY <2>1 DEF TypeOK, Tasks
  <2>3. get' \in Requests
    BY <2>1 DEF TypeOK, Requests
  <2>4. faults' \in 0 .. MaxFaults
    BY <1>5, <1>1 DEF ReconcileFails, Fault, TypeOK
  <2>5. QED
    BY <1>5, <2>2, <2>3, <2>4 DEF ReconcileFails, TypeOK
<1>6. QED
  BY <1>2, <1>3, <1>4, <1>5

\* The steps of a handler.
HandlerStep(k) ==
  \/ Subscribe(k) \/ Seed(k) \/ Receive(k) \/ WriteTask(k) \/ WriteDiags(k)
  \/ Leave(k) \/ Unsubscribe(k)

LEMMA HandlerTypeOK ==
  ASSUME TypeOK, NEW k \in Conns, HandlerStep(k) PROVE TypeOK'
<1>1. /\ conn[k] \in Connections /\ conn \in [Conns -> Connections]
      /\ Len(conn[k].queue) <= SubCap /\ Len(conn[k].wire) <= WireCap
      /\ Len(conn[k].queue) \in Nat /\ Len(conn[k].wire) \in Nat
      /\ SubCap \in Nat /\ WireCap \in Nat
  BY FreeIsConnection DEF TypeOK, Connections
<1>2. \E r \in Connections : /\ conn' = [conn EXCEPT ![k] = r]
                            /\ Len(r.queue) <= SubCap /\ Len(r.wire) <= WireCap
  <2>1. CASE Subscribe(k)
    <3> DEFINE r == [conn[k] EXCEPT !.pc = "seed"]
    <3>1. r \in Connections /\ r.queue = conn[k].queue /\ r.wire = conn[k].wire
      BY <1>1 DEF Connections
    <3>2. conn' = [conn EXCEPT ![k] = r]
      BY <2>1 DEF Subscribe
    <3>3. QED
      BY <1>1, <3>1, <3>2
  <2>2. CASE Seed(k)
    <3> DEFINE r == [conn[k] EXCEPT !.pc = "select", !.last = diags, !.told = diags]
    <3>1. r \in Connections /\ r.queue = conn[k].queue /\ r.wire = conn[k].wire
      BY <1>1 DEF Connections, TypeOK
    <3>2. conn' = [conn EXCEPT ![k] = r]
      BY <2>2, <1>1 DEF Seed
    <3>3. QED
      BY <1>1, <3>1, <3>2
  <2>3. CASE Receive(k)
    <3> DEFINE q == conn[k].queue
               r == [conn[k] EXCEPT !.pc = "write", !.todo = Head(q), !.queue = Tail(q)]
    <3>1. /\ Head(q) \in Changes /\ Tail(q) \in Seq(Changes)
          /\ Len(Tail(q)) <= SubCap
      BY <2>3, <1>1, TakeFirst DEF Receive, Connections
    <3>2. r \in Connections /\ r.queue = Tail(q) /\ r.wire = conn[k].wire
      BY <1>1, <3>1 DEF Connections
    <3>3. conn' = [conn EXCEPT ![k] = r]
      BY <2>3, <1>1 DEF Receive
    <3>4. QED
      BY <1>1, <3>1, <3>2, <3>3
  <2>4. CASE WriteTask(k)
    <3>1. PICK id \in DOMAIN conn[k].todo :
            conn' = [conn EXCEPT
                      ![k].todo = [n \in DOMAIN conn[k].todo \ {id} |-> conn[k].todo[n]],
                      ![k].wire = Append(@, [id |-> id, value |-> conn[k].todo[id]])]
      BY <2>4 DEF WriteTask
    <3> DEFINE todo == [n \in DOMAIN conn[k].todo \ {id} |-> conn[k].todo[n]]
               msg == [id |-> id, value |-> conn[k].todo[id]]
               r == [conn[k] EXCEPT !.todo = todo, !.wire = Append(conn[k].wire, msg)]
    <3>2. conn[k].todo \in Changes
      BY <1>1 DEF Connections
    <3>3. /\ DOMAIN conn[k].todo \in SUBSET Ids
          /\ conn[k].todo \in [DOMAIN conn[k].todo -> Values \union {None}]
      BY <3>2, ChangeIs
    <3>4. todo \in Changes
      <4>1. todo \in [DOMAIN conn[k].todo \ {id} -> Values \union {None}]
        BY <3>3
      <4>2. QED
        BY <4>1, <3>3, ChangeOf
    <3>5. msg \in Messages
      BY <3>3 DEF Messages
    <3>6. /\ Append(conn[k].wire, msg) \in Seq(Messages)
          /\ Len(Append(conn[k].wire, msg)) <= WireCap
      BY <2>4, <1>1, <3>5 DEF WriteTask, Connections
    <3> HIDE DEF todo, msg
    <3>7. /\ r \in Connections
          /\ r.queue = conn[k].queue /\ r.wire = Append(conn[k].wire, msg)
      BY <1>1, <3>4, <3>6 DEF Connections
    <3>8. conn' = [conn EXCEPT ![k] = r]
      BY <3>1, <1>1 DEF todo, msg
    <3>9. QED
      BY <1>1, <3>6, <3>7, <3>8
  <2>5. CASE WriteDiags(k)
    <3> DEFINE told == (conn[k].told \union (diags \ conn[k].last)) \ (conn[k].last \ diags)
               r == [conn[k] EXCEPT !.pc = "select", !.last = diags, !.told = told]
    <3>1. told \in SUBSET Diags /\ diags \in SUBSET Diags
      BY <1>1 DEF Connections, TypeOK
    <3>2. conn' = [conn EXCEPT ![k] = r]
      BY <2>5, <1>1 DEF WriteDiags
    <3> HIDE DEF told
    <3>3. r \in Connections /\ r.queue = conn[k].queue /\ r.wire = conn[k].wire
      BY <1>1, <3>1 DEF Connections
    <3>4. QED
      BY <1>1, <3>2, <3>3
  <2>6. CASE Leave(k)
    <3> DEFINE r == [conn[k] EXCEPT !.pc = "leave"]
    <3>1. r \in Connections /\ r.queue = conn[k].queue /\ r.wire = conn[k].wire
      BY <1>1 DEF Connections
    <3>2. conn' = [conn EXCEPT ![k] = r]
      BY <2>6 DEF Leave
    <3>3. QED
      BY <1>1, <3>1, <3>2
  <2>7. CASE Unsubscribe(k)
    <3>1. conn' = [conn EXCEPT ![k] = Free]
      BY <2>7 DEF Unsubscribe
    <3>2. Len(Free.queue) <= SubCap /\ Len(Free.wire) <= WireCap
      BY <1>1, FreeIsConnection
    <3>3. QED
      BY <3>1, <3>2, FreeIsConnection
  <2>8. QED
    BY <2>1, <2>2, <2>3, <2>4, <2>5, <2>6, <2>7 DEF HandlerStep
<1>3. /\ conn' \in [Conns -> Connections]
      /\ \A c \in Conns : Len(conn'[c].queue) <= SubCap /\ Len(conn'[c].wire) <= WireCap
  BY <1>2, UpdateConn
<1>4. UNCHANGED <<index, diags, pending, changes, es, failures, get, feed, card, acts,
                  faults, off, lost>>
  BY DEF HandlerStep, Subscribe, Seed, Receive, WriteTask, WriteDiags, Leave, Unsubscribe,
         server, browser
<1>5. QED
  BY <1>3, <1>4 DEF TypeOK

\* The steps of the page: its stream, its request, its cards.
BrowserStep ==
  \/ (\E k \in Conns : Connect(k)) \/ OnError \/ ConnectFails \/ ConnectRefused \/ Break
  \/ OnMessage \/ Answer \/ Arrive \/ GetFails
  \/ (\E id \in Ids : Act(id)) \/ Settle \/ Unmount

\* What the stream changes has its type, whatever becomes of it.
LEMMA StreamTypeOK ==
  ASSUME TypeOK,
         \/ (\E k \in Conns : Connect(k)) \/ OnError \/ ConnectFails \/ ConnectRefused
         \/ Break \/ OnMessage
  PROVE  TypeOK'
<1>1. /\ Rapid \in Nat \ {0} /\ MaxFaults \in Nat
      /\ \A n \in 0 .. Rapid : Counted(n) \in 0 .. Rapid /\ AfterError(n) \in Sources
  BY FeedAssumption DEF Counted, AfterError, Sources
<1>2. ASSUME NEW k \in Conns
      PROVE  /\ conn[k] \in Connections
             /\ Len(conn[k].queue) <= SubCap /\ Len(conn[k].wire) <= WireCap
             /\ Len(conn[k].queue) \in Nat /\ Len(conn[k].wire) \in Nat
             /\ SubCap \in Nat /\ WireCap \in Nat
  BY <1>2, FreeIsConnection DEF TypeOK, Connections
<1>3. CASE \E k \in Conns : Connect(k)
  <2>1. PICK k \in Conns : Connect(k)
    BY <1>3
  <2> DEFINE r == [Free EXCEPT !.pc = "subscribe", !.up = TRUE]
  <2>2. r \in Connections /\ Len(r.queue) <= SubCap /\ Len(r.wire) <= WireCap
    <3>1. r.queue = <<>> /\ r.wire = <<>>
      BY DEF Free
    <3>2. QED
      BY <3>1, FreeIsConnection
  <2>3. /\ conn' \in [Conns -> Connections]
        /\ \A c \in Conns : Len(conn'[c].queue) <= SubCap /\ Len(conn'[c].wire) <= WireCap
    <3>1. conn' = [conn EXCEPT ![k] = r]
      BY <2>1 DEF Connect
    <3>2. QED
      BY <3>1, <2>2, UpdateConn
  <2>4. es' \in Sources /\ failures' \in 0 .. Rapid
    BY <2>1, <1>1 DEF Connect, Sources
  <2>5. QED
    BY <2>1, <2>3, <2>4 DEF Connect, TypeOK, server
<1>4. CASE OnError
  BY <1>4, <1>1 DEF OnError, TypeOK, server
<1>5. CASE ConnectFails
  <2>1. faults' \in 0 .. MaxFaults
    BY <1>5, <1>1 DEF ConnectFails, Fault, TypeOK
  <2>2. QED
    BY <1>5, <1>1, <2>1 DEF ConnectFails, TypeOK, server
<1>6. CASE ConnectRefused
  <2>1. faults' \in 0 .. MaxFaults
    BY <1>6, <1>1 DEF ConnectRefused, Fault, TypeOK
  <2>2. es' \in Sources /\ failures' \in 0 .. Rapid
    BY <1>6, <1>1 DEF ConnectRefused, TypeOK, Sources
  <2>3. QED
    BY <1>6, <2>1, <2>2 DEF ConnectRefused, TypeOK, server
<1>7. CASE Break
  <2> DEFINE r == [conn[es] EXCEPT !.up = FALSE, !.wire = <<>>]
  <2>1. es \in Conns /\ conn[es] \in Connections
    BY <1>7, <1>2 DEF Break
  <2>2. r \in Connections /\ r.queue = conn[es].queue /\ r.wire = <<>>
    <3>1. <<>> \in Seq(Messages)
      OBVIOUS
    <3>2. QED
      BY <2>1, <3>1 DEF Connections
  <2>3. Len(r.queue) <= SubCap /\ Len(r.wire) <= WireCap
    BY <2>1, <2>2, <1>2
  <2>4. conn' = [conn EXCEPT ![es] = r]
    BY <1>7, <2>1 DEF Break, TypeOK
  <2>5. /\ conn' \in [Conns -> Connections]
        /\ \A c \in Conns : Len(conn'[c].queue) <= SubCap /\ Len(conn'[c].wire) <= WireCap
    BY <2>1, <2>2, <2>3, <2>4, UpdateConn
  <2>6. faults' \in 0 .. MaxFaults /\ off' \subseteq Ids
    BY <1>7, <1>1 DEF Break, Fault, TypeOK
  <2>7. QED
    BY <1>7, <2>5, <2>6 DEF Break, TypeOK, server, browser
<1>8. CASE OnMessage
  <2> DEFINE w == conn[es].wire
             r == [conn[es] EXCEPT !.wire = Tail(w)]
  <2>1. es \in Conns /\ conn[es] \in Connections /\ w # <<>>
    BY <1>8, <1>2 DEF OnMessage
  <2>2. Head(w) \in Messages /\ Tail(w) \in Seq(Messages) /\ Len(Tail(w)) <= WireCap
    <3>1. w \in Seq(Messages)
      BY <2>1 DEF Connections
    <3>2. QED
      BY <3>1, <2>1, <1>2, TakeFirst
  <2>3. r \in Connections /\ r.queue = conn[es].queue /\ r.wire = Tail(w)
    BY <2>1, <2>2 DEF Connections
  <2>4. conn' = [conn EXCEPT ![es] = r]
    BY <1>8, <2>1 DEF OnMessage, TypeOK
  <2>5. /\ conn' \in [Conns -> Connections]
        /\ \A c \in Conns : Len(conn'[c].queue) <= SubCap /\ Len(conn'[c].wire) <= WireCap
    BY <2>1, <2>2, <2>3, <2>4, <1>2, UpdateConn
  <2>6. feed' \in Tasks
    BY <1>8, <2>2 DEF OnMessage, Applied, Messages, Tasks, TypeOK
  <2>7. QED
    BY <1>8, <2>5, <2>6 DEF OnMessage, TypeOK, server
<1>9. QED
  BY <1>3, <1>4, <1>5, <1>6, <1>7, <1>8

LEMMA PageTypeOK ==
  ASSUME TypeOK,
         Answer \/ Arrive \/ GetFails \/ (\E id \in Ids : Act(id)) \/ Settle \/ Unmount
  PROVE  TypeOK'
<1>1. MaxFaults \in Nat /\ MaxActs \in Nat
  BY FeedAssumption
<1>2. ASSUME NEW id \in Ids, NEW v \in Values, Show(id, v)
      PROVE  feed' \in Tasks /\ off' \subseteq Ids
  BY <1>2 DEF Show, Tasks, TypeOK
<1>3. CASE Answer
  <2>1. get' \in Requests
    BY <1>3 DEF Answer, Requests, TypeOK
  <2>2. QED
    BY <1>3, <2>1 DEF Answer, TypeOK, server
<1>4. CASE Arrive
  <2>1. get.tasks \in Tasks /\ get' \in Requests /\ off' \subseteq Ids
    BY <1>4 DEF Arrive, Requests, TypeOK
  <2>2. QED
    BY <1>4, <2>1 DEF Arrive, TypeOK, server
<1>5. CASE GetFails
  <2>1. get' \in Requests /\ faults' \in 0 .. MaxFaults
    BY <1>5, <1>1 DEF GetFails, Fault, Requests, TypeOK
  <2>2. QED
    BY <1>5, <2>1 DEF GetFails, TypeOK, server
<1>6. CASE \E id \in Ids : Act(id)
  <2>1. PICK id \in Ids : Act(id)
    BY <1>6
  <2>2. feed' \in Tasks /\ off' \subseteq Ids
    BY <2>1, <1>2 DEF Act, TypeOK
  <2>3. card' \in [id : Ids, flipped : BOOLEAN] /\ acts' \in 0 .. MaxActs
    <3>1. card' \in [id : Ids, flipped : BOOLEAN]
      <4>1. PICK b \in BOOLEAN : card' = [id |-> id, flipped |-> b]
        BY <2>1 DEF Act
      <4>2. [id |-> id, flipped |-> b] \in [id : Ids, flipped : BOOLEAN]
        BY <2>1, <4>1
      <4>3. QED
        BY <4>1, <4>2
    <3>2. QED
      BY <2>1, <3>1, <1>1 DEF Act, TypeOK
  <2>4. QED
    BY <2>1, <2>2, <2>3 DEF Act, TypeOK, server
<1>7. CASE Settle
  <2>1. card.id \in Ids
    BY <1>7 DEF Settle, TypeOK
  <2>2. feed' \in Tasks /\ off' \subseteq Ids
    BY <1>7, <2>1, <1>2 DEF Settle, TypeOK
  <2>3. QED
    BY <1>7, <2>2 DEF Settle, TypeOK, server
<1>8. CASE Unmount
  <2>1. ASSUME NEW k \in Conns
        PROVE  /\ conn'[k] \in Connections
               /\ Len(conn'[k].queue) <= SubCap /\ Len(conn'[k].wire) <= WireCap
    <3>1. /\ conn[k] \in Connections /\ Len(conn[k].wire) \in Nat
          /\ Len(conn[k].queue) <= SubCap /\ Len(conn[k].wire) <= WireCap
      BY DEF TypeOK, Connections
    <3>2. CASE k = es
      <4> DEFINE r == [conn[k] EXCEPT !.up = FALSE, !.wire = <<>>]
      <4>1. r \in Connections /\ r.queue = conn[k].queue /\ Len(r.wire) = 0
        <5>1. <<>> \in Seq(Messages) /\ Len(<<>>) = 0
          OBVIOUS
        <5>2. QED
          BY <3>1, <5>1 DEF Connections
      <4>2. conn'[k] = r
        BY <1>8, <3>2 DEF Unmount
      <4>3. QED
        BY <3>1, <4>1, <4>2, FreeIsConnection
    <3>3. CASE k # es
      BY <1>8, <3>1, <3>3 DEF Unmount
    <3>4. QED
      BY <3>2, <3>3
  <2>2. conn' \in [Conns -> Connections]
    BY <1>8, <2>1 DEF Unmount
  <2>3. feed' \in Tasks /\ es' \in Sources /\ get' \in Requests /\ failures' \in 0 .. Rapid
    <3>1. feed' \in Tasks
      BY <1>8 DEF Unmount, Tasks
    <3>2. es' \in Sources /\ get' \in Requests
      BY <1>8 DEF Unmount, Sources, Requests
    <3>3. failures' \in 0 .. Rapid
      <4>1. failures' = 0 /\ Rapid \in Nat
        BY <1>8, FeedAssumption DEF Unmount
      <4>2. QED
        BY <4>1
    <3>4. QED
      BY <3>1, <3>2, <3>3
  <2>4. QED
    BY <1>8, <2>1, <2>2, <2>3 DEF Unmount, TypeOK, server
<1>9. QED
  BY <1>3, <1>4, <1>5, <1>6, <1>7, <1>8

\* Buffers and wires keep within their capacity, and every value has its type.
THEOREM FeedTypes == Spec => []TypeOK
<1>1. TypeOK /\ [Next]_vars => TypeOK'
  <2> SUFFICES ASSUME TypeOK, [Next]_vars PROVE TypeOK'
    OBVIOUS
  <2>1. CASE Reconcile \/ ReconcileFails \/ Publish \/ Restart
    BY <2>1, ServerTypeOK
  <2>2. CASE \E k \in Conns : HandlerStep(k)
    BY <2>2, HandlerTypeOK
  <2>3. CASE BrowserStep
    BY <2>3, StreamTypeOK, PageTypeOK DEF BrowserStep
  <2>4. CASE UNCHANGED vars
    BY <2>4 DEF vars, TypeOK
  <2>5. QED
    BY <2>1, <2>2, <2>3, <2>4 DEF Next, HandlerStep, BrowserStep
<1>2. QED
  BY <1>1, InitTypeOK, PTL DEF Spec

-----------------------------------------------------------------------------
(* Diagnostics *)

\* Of the diagnostics a handler saw last, all are still true but those that went away
\* with a file that could not be read; and there are no others.
Current(c) == diags \subseteq c.last /\ c.last \ diags \subseteq lost

\* The client knows what its handler knows, and a handler that waits with old
\* diagnostics has a change in its buffer, or the engine is about to publish one.
CaughtUp(k) ==
  /\ conn[k].pc \in {"select", "write"} => conn[k].told = conn[k].last
  /\ conn[k].pc = "select" /\ ~Current(conn[k])
       => conn[k].queue # <<>> \/ pending # None

DiagsInv == \A k \in Conns : CaughtUp(k)

LEMMA SameCaughtUp ==
  ASSUME NEW k \in Conns, CaughtUp(k),
         diags' = diags, lost' = lost, pending # None => pending' # None,
         /\ conn'[k].pc = conn[k].pc /\ conn'[k].queue = conn[k].queue
         /\ conn'[k].last = conn[k].last /\ conn'[k].told = conn[k].told
  PROVE  CaughtUp(k)'
BY DEF CaughtUp, Current

LEMMA ServerCaughtUp ==
  ASSUME TypeOK, TypeOK', DiagsInv, Reconcile \/ ReconcileFails \/ Publish \/ Restart
  PROVE  DiagsInv'
<1>1. CASE Reconcile
  <2>1. pending' # None
    <3> DEFINE changed == {id \in Ids : index'[id] # index[id]}
    <3>1. pending' \in [changed -> Values \union {None}]
      BY <1>1 DEF Reconcile, TypeOK, Tasks
    <3>2. QED
      BY <3>1, ChangeOf, ChangeIs
  <2>2. QED
    BY <1>1, <2>1 DEF Reconcile, DiagsInv, CaughtUp
<1>2. CASE Publish
  <2>1. SUFFICES ASSUME NEW k \in Conns PROVE CaughtUp(k)'
    BY DEF DiagsInv
  <2>2. conn[k] \in Connections /\ CaughtUp(k) /\ diags' = diags /\ lost' = lost
    BY <1>2 DEF Publish, TypeOK, DiagsInv
  <2>3. CASE InBus(k) /\ HasRoom(k)
    <3>1. conn'[k] = [conn[k] EXCEPT !.queue = Append(@, pending)]
      BY <1>2, <2>3 DEF Publish
    <3>2. Append(conn[k].queue, pending) # <<>>
      <4>1. conn[k].queue \in Seq(Changes) /\ pending \in Changes
        BY <2>2, <1>2 DEF Publish, TypeOK, Connections
      <4>2. QED
        BY <4>1
    <3>3. /\ conn'[k].pc = conn[k].pc /\ conn'[k].queue # <<>>
          /\ conn'[k].last = conn[k].last /\ conn'[k].told = conn[k].told
      BY <3>1, <3>2, <2>2 DEF Connections
    <3>4. QED
      BY <2>2, <3>3 DEF CaughtUp
  <2>4. CASE ~(InBus(k) /\ HasRoom(k))
    <3>1. conn'[k] = conn[k]
      BY <1>2, <2>4 DEF Publish
    <3>2. conn[k].pc = "select" => conn[k].queue # <<>>
      <4>1. HAVE conn[k].pc = "select"
      <4>2. ~(Len(conn[k].queue) < SubCap)
        BY <4>1, <2>4 DEF InBus, HasRoom
      <4>3. Len(conn[k].queue) # 0
        BY <4>2, FreeIsConnection
      <4>4. QED
        BY <4>3
    <3>3. QED
      BY <2>2, <3>1, <3>2 DEF CaughtUp
  <2>5. QED
    BY <2>3, <2>4
<1>3. CASE Restart
  BY <1>3 DEF Restart, DiagsInv, CaughtUp, Free
<1>4. CASE ReconcileFails
  <2>1. SUFFICES ASSUME NEW k \in Conns PROVE CaughtUp(k)'
    BY DEF DiagsInv
  <2>2. /\ conn' = conn /\ pending' = pending /\ pending = None
        /\ \E D \in SUBSET diags : diags' = diags \ D /\ lost' = lost \union D
    BY <1>4 DEF ReconcileFails
  <2>3. Current(conn[k]) => Current(conn[k])'
    BY <2>2 DEF Current
  <2>4. QED
    BY <2>2, <2>3 DEF DiagsInv, CaughtUp
<1>5. QED
  BY <1>1, <1>2, <1>3, <1>4

LEMMA HandlerCaughtUp ==
  ASSUME TypeOK, DiagsInv, NEW k \in Conns, HandlerStep(k)
  PROVE  DiagsInv'
<1>1. /\ conn[k] \in Connections /\ conn \in [Conns -> Connections] /\ CaughtUp(k)
      /\ diags' = diags /\ lost' = lost /\ pending' = pending
  BY DEF TypeOK, DiagsInv, HandlerStep, Subscribe, Seed, Receive, WriteTask, WriteDiags,
         Leave, Unsubscribe, server
<1>2. ASSUME NEW c \in Conns, c # k PROVE CaughtUp(c)'
  <2>1. conn'[c] = conn[c]
    BY <1>1, <1>2 DEF HandlerStep, Subscribe, Seed, Receive, WriteTask, WriteDiags,
         Leave, Unsubscribe
  <2>2. QED
    BY <2>1, <1>1, SameCaughtUp DEF DiagsInv
<1>3. CaughtUp(k)'
  <2>1. CASE Subscribe(k)
    BY <2>1, <1>1 DEF Subscribe, CaughtUp, Connections
  <2>2. CASE Seed(k)
    BY <2>2, <1>1 DEF Seed, CaughtUp, Current, Connections
  <2>3. CASE Receive(k)
    BY <2>3, <1>1 DEF Receive, CaughtUp, Connections
  <2>4. CASE WriteTask(k)
    <3>1. /\ conn'[k].pc = "write" /\ conn[k].pc = "write"
          /\ conn'[k].last = conn[k].last /\ conn'[k].told = conn[k].told
      BY <2>4, <1>1 DEF WriteTask, Connections
    <3>2. QED
      BY <3>1, <1>1 DEF CaughtUp
  <2>5. CASE WriteDiags(k)
    <3>1. /\ conn'[k].pc = "select" /\ conn'[k].last = diags
          /\ conn'[k].told = (conn[k].told \union (diags \ conn[k].last)) \ (conn[k].last \ diags)
      BY <2>5, <1>1 DEF WriteDiags, Connections
    <3>2. conn[k].told = conn[k].last
      BY <2>5, <1>1 DEF WriteDiags, CaughtUp
    <3>3. conn'[k].told = diags
      BY <3>1, <3>2
    <3>4. QED
      BY <3>1, <3>3, <1>1 DEF CaughtUp, Current
  <2>6. CASE Leave(k)
    BY <2>6, <1>1 DEF Leave, CaughtUp, Connections
  <2>7. CASE Unsubscribe(k)
    BY <2>7, <1>1 DEF Unsubscribe, CaughtUp, Free
  <2>8. QED
    BY <2>1, <2>2, <2>3, <2>4, <2>5, <2>6, <2>7 DEF HandlerStep
<1>4. QED
  BY <1>2, <1>3 DEF DiagsInv

LEMMA BrowserCaughtUp ==
  ASSUME TypeOK, DiagsInv, BrowserStep
  PROVE  DiagsInv'
<1>1. diags' = diags /\ lost' = lost /\ pending' = pending
  BY DEF BrowserStep, Connect, OnError, ConnectFails, ConnectRefused, Break, OnMessage,
         Answer, Arrive, GetFails, Act, Settle, Unmount, server
<1>2. CASE \E k \in Conns : Connect(k)
  <2>1. PICK k \in Conns : Connect(k)
    BY <1>2
  <2>2. CaughtUp(k)'
    BY <2>1 DEF Connect, CaughtUp, Free, TypeOK
  <2>3. ASSUME NEW c \in Conns, c # k PROVE CaughtUp(c)'
    <3>1. conn'[c] = conn[c]
      BY <2>1, <2>3 DEF Connect, TypeOK
    <3>2. QED
      BY <3>1, <1>1, SameCaughtUp DEF DiagsInv
  <2>4. QED
    BY <2>2, <2>3 DEF DiagsInv
<1>3. CASE ~ \E k \in Conns : Connect(k)
  <2>1. SUFFICES ASSUME NEW k \in Conns PROVE CaughtUp(k)'
    BY DEF DiagsInv
  <2>2. conn[k] \in Connections /\ conn \in [Conns -> Connections]
    BY DEF TypeOK
  <2>3. /\ conn'[k].pc = conn[k].pc /\ conn'[k].queue = conn[k].queue
        /\ conn'[k].last = conn[k].last /\ conn'[k].told = conn[k].told
    <3>1. CASE Break \/ OnMessage \/ Unmount
      <4>1. CASE k = es
        <5>1. \/ conn'[k] = [conn[k] EXCEPT !.up = FALSE, !.wire = <<>>]
              \/ conn'[k] = [conn[k] EXCEPT !.wire = Tail(@)]
          BY <3>1, <4>1, <2>2 DEF Break, OnMessage, Unmount
        <5>2. QED
          BY <5>1, <2>2 DEF Connections
      <4>2. CASE k # es
        <5>1. conn'[k] = conn[k]
          BY <3>1, <4>2, <2>2 DEF Break, OnMessage, Unmount
        <5>2. QED
          BY <5>1
      <4>3. QED
        BY <4>1, <4>2
    <3>2. CASE ~(Break \/ OnMessage \/ Unmount)
      <4>1. conn' = conn
        BY <3>2, <1>3 DEF BrowserStep, OnError, ConnectFails, ConnectRefused, Answer,
             Arrive, GetFails, Act, Settle
      <4>2. QED
        BY <4>1
    <3>3. QED
      BY <3>1, <3>2
  <2>4. QED
    BY <2>3, <1>1, SameCaughtUp DEF DiagsInv
<1>4. QED
  BY <1>2, <1>3

\* A handler with nothing left to do has told its client all the diagnostics there are,
\* although publications were dropped while its buffer was full, and what it has not
\* taken back went away, since the last publication, with a file that could not be read.
THEOREM DiagsAlwaysCaughtUp == Spec => []DiagsCaughtUp
<1>1. Init => DiagsInv
  BY DEF Init, DiagsInv, CaughtUp, Free
<1>2. TypeOK /\ TypeOK' /\ DiagsInv /\ [Next]_vars => DiagsInv'
  <2> SUFFICES ASSUME TypeOK, TypeOK', DiagsInv, [Next]_vars PROVE DiagsInv'
    OBVIOUS
  <2>1. CASE Reconcile \/ ReconcileFails \/ Publish \/ Restart
    BY <2>1, ServerCaughtUp
  <2>2. CASE \E k \in Conns : HandlerStep(k)
    BY <2>2, HandlerCaughtUp
  <2>3. CASE BrowserStep
    BY <2>3, BrowserCaughtUp
  <2>4. CASE UNCHANGED vars
    BY <2>4 DEF vars, DiagsInv, CaughtUp, Current
  <2>5. QED
    BY <2>1, <2>2, <2>3, <2>4 DEF Next, HandlerStep, BrowserStep
<1>3. DiagsInv => DiagsCaughtUp
  BY DEF DiagsInv, CaughtUp, Current, DiagsCaughtUp
<1>4. QED
  BY <1>1, <1>2, <1>3, FeedTypes, PTL DEF Spec

-----------------------------------------------------------------------------
(* What a connection carries *)

LEMMA ConnectionParts ==
  ASSUME NEW c \in Connections
  PROVE  /\ c.queue \in Seq(Changes) /\ c.wire \in Seq(Messages) /\ c.todo \in Changes
         /\ DOMAIN c.queue = 1 .. Len(c.queue) /\ Len(c.queue) \in Nat
         /\ DOMAIN c.wire = 1 .. Len(c.wire) /\ Len(c.wire) \in Nat
<1>1. c.queue \in Seq(Changes) /\ c.wire \in Seq(Messages) /\ c.todo \in Changes
  BY DEF Connections
<1>2. QED
  BY <1>1, LenProperties

\* A change that joins the queue is the latest about its tasks, and says nothing of others.
LEMMA QueueGrows ==
  ASSUME NEW c \in Connections, NEW d \in Connections, NEW p \in Changes, NEW id \in Ids,
         d.queue = Append(c.queue, p), d.todo = c.todo, d.wire = c.wire
  PROVE  /\ id \in DOMAIN p => Carries(d, id) /\ Says(d, id, p[id])
         /\ id \notin DOMAIN p
              => /\ Carries(d, id) <=> Carries(c, id)
                 /\ \A v : Says(c, id, v) => Says(d, id, v)
<1>1. /\ DOMAIN d.queue = 1 .. Len(c.queue) + 1 /\ DOMAIN c.queue = 1 .. Len(c.queue)
      /\ \A i \in 1 .. Len(c.queue) : d.queue[i] = c.queue[i]
      /\ d.queue[Len(c.queue) + 1] = p /\ Len(c.queue) \in Nat
  BY ConnectionParts, AppendProperties
<1>2. CASE id \in DOMAIN p
  <2>1. Len(c.queue) + 1 \in QueuedAt(d, id)
    BY <1>1, <1>2 DEF QueuedAt
  <2>2. \A i \in Latest(QueuedAt(d, id)) : i = Len(c.queue) + 1
    BY <1>1, <2>1 DEF QueuedAt, Latest
  <2>3. Says(d, id, p[id])
    BY <1>1, <2>1, <2>2 DEF Says
  <2>4. Carries(d, id)
    BY <1>1, <1>2 DEF Carries
  <2>5. QED
    BY <1>2, <2>3, <2>4
<1>3. CASE id \notin DOMAIN p
  <2>1. QueuedAt(d, id) = QueuedAt(c, id)
    BY <1>1, <1>3 DEF QueuedAt
  <2>2. \A i \in QueuedAt(c, id) : d.queue[i] = c.queue[i]
    BY <1>1 DEF QueuedAt
  <2>3. \A v : Says(c, id, v) => Says(d, id, v)
    BY <2>1, <2>2 DEF Says, Latest, SentAt
  <2>4. Carries(d, id) <=> Carries(c, id)
    BY <2>1 DEF Carries, QueuedAt
  <2>5. QED
    BY <1>3, <2>3, <2>4
<1>4. QED
  BY <1>2, <1>3

\* The handler takes the first change of the queue: nothing is lost, the order stays.
LEMMA QueueMoves ==
  ASSUME NEW c \in Connections, NEW d \in Connections, NEW id \in Ids,
         c.queue # <<>>, c.todo = Nothing,
         d.queue = Tail(c.queue), d.todo = Head(c.queue), d.wire = c.wire
  PROVE  /\ Carries(d, id) <=> Carries(c, id)
         /\ \A v : Says(c, id, v) => Says(d, id, v)
<1>1. /\ DOMAIN c.queue = 1 .. Len(c.queue) /\ DOMAIN d.queue = 1 .. Len(c.queue) - 1
      /\ \A i \in 1 .. Len(c.queue) - 1 : d.queue[i] = c.queue[i + 1]
      /\ d.todo = c.queue[1] /\ Len(c.queue) \in Nat \ {0}
  <2>1. /\ c.queue \in Seq(Changes) /\ DOMAIN c.queue = 1 .. Len(c.queue)
        /\ DOMAIN d.queue = 1 .. Len(d.queue)
    BY ConnectionParts
  <2>2. Len(Tail(c.queue)) = Len(c.queue) - 1 /\ Len(c.queue) \in Nat \ {0}
    BY <2>1, TakeFirst
  <2>3. \A i \in 1 .. Len(Tail(c.queue)) : Tail(c.queue)[i] = c.queue[i + 1]
    BY <2>1, HeadTailProperties
  <2>4. QED
    BY <2>1, <2>2, <2>3
<1>2. DOMAIN c.todo = {}
  BY DEF Nothing
<1>3. /\ \A i \in QueuedAt(d, id) : i + 1 \in QueuedAt(c, id) /\ i \in Nat
      /\ \A i \in QueuedAt(c, id) : i \in Nat /\ (i - 1 \in QueuedAt(d, id) \/ i = 1)
      /\ 1 \in QueuedAt(c, id) <=> id \in DOMAIN d.todo
      /\ \A i \in QueuedAt(d, id) : d.queue[i] = c.queue[i + 1]
  BY <1>1 DEF QueuedAt
<1>4. Carries(d, id) <=> Carries(c, id)
  <2>1. QueuedAt(c, id) # {} <=> QueuedAt(d, id) # {} \/ id \in DOMAIN d.todo
    BY <1>3
  <2>2. QED
    BY <1>2, <2>1 DEF Carries, QueuedAt
<1>5. ASSUME NEW v, Says(c, id, v) PROVE Says(d, id, v)
  <2>1. CASE QueuedAt(d, id) # {}
    <3>1. ASSUME NEW i \in Latest(QueuedAt(d, id)) PROVE d.queue[i][id] = v
      <4>1. i + 1 \in Latest(QueuedAt(c, id)) /\ d.queue[i] = c.queue[i + 1]
        <5>1. i \in QueuedAt(d, id) /\ \A j \in QueuedAt(d, id) : j <= i
          BY <3>1 DEF Latest
        <5>2. i + 1 \in QueuedAt(c, id) /\ d.queue[i] = c.queue[i + 1] /\ i \in Nat
          BY <1>3, <5>1
        <5>3. ASSUME NEW j \in QueuedAt(c, id) PROVE j <= i + 1
          <6>1. j \in Nat /\ (j - 1 <= i \/ j = 1)
            BY <1>3, <5>1, <5>3
          <6>2. QED
            BY <6>1, <5>2
        <5>4. QED
          BY <5>2, <5>3 DEF Latest
      <4>2. QED
        BY <4>1, <1>5 DEF Says
    <3>2. QED
      BY <2>1, <3>1 DEF Says
  <2>2. CASE QueuedAt(d, id) = {} /\ id \in DOMAIN d.todo
    <3>1. 1 \in Latest(QueuedAt(c, id))
      BY <2>2, <1>3 DEF Latest
    <3>2. d.todo[id] = v
      BY <3>1, <1>1, <1>5 DEF Says
    <3>3. QED
      BY <2>2, <3>2 DEF Says, Latest
  <2>3. CASE QueuedAt(d, id) = {} /\ id \notin DOMAIN d.todo
    <3>1. QueuedAt(c, id) = {} /\ SentAt(d, id) = SentAt(c, id)
      BY <2>3, <1>3 DEF SentAt
    <3>2. QED
      BY <2>3, <3>1, <1>2, <1>5 DEF Says, Latest
  <2>4. QED
    BY <2>1, <2>2, <2>3
<1>6. QED
  BY <1>4, <1>5

\* The handler writes one task of the change.
LEMMA WireGrows ==
  ASSUME NEW c \in Connections, NEW d \in Connections, NEW id \in Ids,
         NEW w \in DOMAIN c.todo,
         d.queue = c.queue,
         d.todo = [i \in DOMAIN c.todo \ {w} |-> c.todo[i]],
         d.wire = Append(c.wire, [id |-> w, value |-> c.todo[w]])
  PROVE  /\ Carries(d, id) <=> Carries(c, id)
         /\ \A v : Says(c, id, v) => Says(d, id, v)
<1> DEFINE msg == [id |-> w, value |-> c.todo[w]]
<1>1. /\ DOMAIN d.wire = 1 .. Len(c.wire) + 1 /\ DOMAIN c.wire = 1 .. Len(c.wire)
      /\ \A i \in 1 .. Len(c.wire) : d.wire[i] = c.wire[i]
      /\ d.wire[Len(c.wire) + 1] = msg /\ Len(c.wire) \in Nat
  <2>1. c.todo \in [DOMAIN c.todo -> Values \union {None}] /\ DOMAIN c.todo \subseteq Ids
    BY ConnectionParts, ChangeIs
  <2>2. msg \in Messages
    BY <2>1 DEF Messages
  <2>3. QED
    BY <2>2, ConnectionParts, AppendProperties
<1>2. /\ DOMAIN d.todo = DOMAIN c.todo \ {w}
      /\ \A i \in DOMAIN d.todo : d.todo[i] = c.todo[i]
  OBVIOUS
<1>3. QueuedAt(d, id) = QueuedAt(c, id)
  BY DEF QueuedAt
<1>4. CASE id = w
  <2>1. Len(c.wire) + 1 \in SentAt(d, id)
    BY <1>1, <1>4 DEF SentAt
  <2>2. \A i \in Latest(SentAt(d, id)) : i = Len(c.wire) + 1
    BY <1>1, <2>1 DEF SentAt, Latest
  <2>3. Carries(d, id) /\ Carries(c, id)
    BY <1>4, <2>1 DEF Carries, SentAt
  <2>4. ASSUME NEW v, Says(c, id, v) PROVE Says(d, id, v)
    <3>1. QueuedAt(c, id) = {} => c.todo[id] = v
      BY <1>4, <2>4 DEF Says
    <3>2. QueuedAt(d, id) = {} => \A i \in Latest(SentAt(d, id)) : d.wire[i].value = v
      BY <1>1, <1>3, <1>4, <2>2, <3>1
    <3>3. QED
      BY <1>2, <1>3, <1>4, <2>4, <3>2 DEF Says, Latest
  <2>5. QED
    BY <2>3, <2>4
<1>5. CASE id # w
  <2>1. SentAt(d, id) = SentAt(c, id) /\ \A i \in SentAt(c, id) : d.wire[i] = c.wire[i]
    BY <1>1, <1>5 DEF SentAt
  <2>2. id \in DOMAIN d.todo <=> id \in DOMAIN c.todo
    BY <1>2, <1>5
  <2>3. Carries(d, id) <=> Carries(c, id)
    BY <1>3, <2>1, <2>2 DEF Carries, SentAt, QueuedAt
  <2>4. \A v : Says(c, id, v) => Says(d, id, v)
    BY <1>2, <1>3, <2>1, <2>2 DEF Says, Latest
  <2>5. QED
    BY <2>3, <2>4
<1>6. QED
  BY <1>4, <1>5

\* The browser takes the first message of the wire: what remains is later, and if
\* nothing about its task remains, the message was the latest.
LEMMA WireMoves ==
  ASSUME NEW c \in Connections, NEW d \in Connections, NEW id \in Ids,
         c.wire # <<>>,
         d.queue = c.queue, d.todo = c.todo, d.wire = Tail(c.wire)
  PROVE  /\ Carries(d, id) => Carries(c, id) /\ \A v : Says(c, id, v) => Says(d, id, v)
         /\ Head(c.wire).id = id => Carries(c, id)
         /\ Head(c.wire).id # id => (Carries(c, id) => Carries(d, id))
         /\ Head(c.wire).id = id /\ ~Carries(d, id)
              => \A v : Says(c, id, v) => Head(c.wire).value = v
<1>1. /\ DOMAIN c.wire = 1 .. Len(c.wire) /\ DOMAIN d.wire = 1 .. Len(c.wire) - 1
      /\ \A i \in 1 .. Len(c.wire) - 1 : d.wire[i] = c.wire[i + 1]
      /\ Head(c.wire) = c.wire[1] /\ Len(c.wire) \in Nat \ {0}
  <2>1. /\ c.wire \in Seq(Messages) /\ DOMAIN c.wire = 1 .. Len(c.wire)
        /\ DOMAIN d.wire = 1 .. Len(d.wire)
    BY ConnectionParts
  <2>2. Len(Tail(c.wire)) = Len(c.wire) - 1 /\ Len(c.wire) \in Nat \ {0}
    BY <2>1, TakeFirst
  <2>3. \A i \in 1 .. Len(Tail(c.wire)) : Tail(c.wire)[i] = c.wire[i + 1]
    BY <2>1, HeadTailProperties
  <2>4. QED
    BY <2>1, <2>2, <2>3
<1>2. /\ \A i \in SentAt(d, id) : i + 1 \in SentAt(c, id) /\ i \in Nat
      /\ \A i \in SentAt(c, id) : i \in Nat /\ (i - 1 \in SentAt(d, id) \/ i = 1)
      /\ 1 \in SentAt(c, id) <=> Head(c.wire).id = id
      /\ \A i \in SentAt(d, id) : d.wire[i] = c.wire[i + 1]
  BY <1>1 DEF SentAt
<1>3. QueuedAt(d, id) = QueuedAt(c, id)
  BY DEF QueuedAt
<1>4. /\ Carries(c, id) <=> SentAt(c, id) # {} \/ id \in DOMAIN c.todo \/ QueuedAt(c, id) # {}
      /\ Carries(d, id) <=> SentAt(d, id) # {} \/ id \in DOMAIN c.todo \/ QueuedAt(c, id) # {}
  BY <1>3 DEF Carries, SentAt, QueuedAt
<1>5. ASSUME NEW v, Says(c, id, v), Carries(d, id) PROVE Says(d, id, v)
  <2>1. ASSUME QueuedAt(d, id) = {}, id \notin DOMAIN d.todo, NEW i \in Latest(SentAt(d, id))
        PROVE  d.wire[i].value = v
    <3>1. i + 1 \in Latest(SentAt(c, id)) /\ d.wire[i] = c.wire[i + 1]
      <4>1. i \in SentAt(d, id) /\ \A j \in SentAt(d, id) : j <= i
        BY <2>1 DEF Latest
      <4>2. i + 1 \in SentAt(c, id) /\ d.wire[i] = c.wire[i + 1] /\ i \in Nat
        BY <1>2, <4>1
      <4>3. ASSUME NEW j \in SentAt(c, id) PROVE j <= i + 1
        <5>1. j \in Nat /\ (j - 1 <= i \/ j = 1)
          BY <1>2, <4>1, <4>3
        <5>2. QED
          BY <5>1, <4>2
      <4>4. QED
        BY <4>2, <4>3 DEF Latest
    <3>2. QED
      BY <3>1, <2>1, <1>3, <1>5 DEF Says
  <2>2. QED
    BY <1>3, <1>5, <2>1 DEF Says
<1>6. ASSUME NEW v, Says(c, id, v), Head(c.wire).id = id, ~Carries(d, id)
      PROVE  Head(c.wire).value = v
  <2>1. 1 \in Latest(SentAt(c, id))
    BY <1>2, <1>4, <1>6 DEF Latest
  <2>2. QED
    BY <2>1, <1>1, <1>4, <1>6 DEF Says
<1>7. QED
  BY <1>2, <1>4, <1>5, <1>6

-----------------------------------------------------------------------------
(* The feed *)

\* What is about to be published, and what was answered, is still so.
PublishedIsIndex == pending # None => \A id \in DOMAIN pending : pending[id] = index[id]

AnswerIsIndex ==
  get.state = "answered" => \A id \in Ids \ get.since : get.tasks[id] = index[id]

\* A handler takes the next change only when the last is written, and unsubscribes
\* only when its client is gone.
HandlerInOrder ==
  \A k \in Conns : /\ conn[k].pc \in {"subscribe", "seed", "select"} => conn[k].todo = Nothing
                   /\ conn[k].pc \in {"leave", "free"} => ~conn[k].up

\* The browser knows nothing of what a broken connection still carried.
LostIsOff ==
  es \in Conns /\ ~conn[es].up => \A id \in Ids : Carries(conn[es], id) => id \in off

FeedInv ==
  /\ PublishedIsIndex /\ AnswerIsIndex /\ HandlerInOrder
  /\ LostIsOff /\ FeedFollowsIndex

LEMMA FreeCarriesNothing ==
  ASSUME NEW id
  PROVE  ~Carries(Free, id) /\ ~Carries([Free EXCEPT !.pc = "subscribe", !.up = TRUE], id)
<1>1. DOMAIN <<>> = {} /\ DOMAIN Nothing = {}
  BY DEF Nothing
<1>2. QED
  BY <1>1 DEF Carries, Free

LEMMA InitFeedInv == Init => FeedInv
<1> SUFFICES ASSUME Init PROVE FeedInv
  OBVIOUS
<1>1. es \notin Conns => \A id \in Ids \ off : WillShow(id, index[id])
  BY DEF Init, WillShow, InFlight
<1>2. es \in Conns => \A id \in Ids : ~Carries(conn[es], id)
  BY FreeCarriesNothing DEF Init
<1>3. \A id \in Ids \ off : WillShow(id, index[id])
  BY <1>1, <1>2 DEF Init, WillShow, InFlight
<1>4. QED
  BY <1>2, <1>3 DEF Init, FeedInv, PublishedIsIndex, AnswerIsIndex, HandlerInOrder,
       LostIsOff, FeedFollowsIndex, Free

-----------------------------------------------------------------------------
(* The engine, the bus, a new daemon *)

LEMMA ReconcileKeepsFeed ==
  ASSUME TypeOK, FeedInv, Reconcile PROVE FeedInv'
<1> DEFINE changed == {id \in Ids : index'[id] # index[id]}
<1>1. /\ pending = None /\ pending' = [id \in changed |-> index'[id]]
      /\ get' = IF get.state = "answered" THEN [get EXCEPT !.since = @ \union changed] ELSE get
      /\ UNCHANGED <<conn, es, feed, off>>
  BY DEF Reconcile
<1>2. PublishedIsIndex'
  <2>1. DOMAIN pending' = changed /\ \A id \in changed : pending'[id] = index'[id]
    BY <1>1
  <2> HIDE DEF changed
  <2>2. QED
    BY <2>1 DEF PublishedIsIndex
<1>3. AnswerIsIndex'
  <2> HIDE DEF changed
  <2>1. SUFFICES ASSUME get'.state = "answered", NEW id \in Ids, id \notin get'.since
                 PROVE  get'.tasks[id] = index'[id]
    BY DEF AnswerIsIndex
  <2>2. get.state = "answered" /\ get' = [get EXCEPT !.since = @ \union changed]
    BY <1>1, <2>1
  <2>3. get.tasks \in Tasks /\ get.since \in SUBSET Ids /\ DOMAIN get = {"state", "tasks", "since"}
    BY <2>2 DEF TypeOK, Requests
  <2>4. get'.tasks = get.tasks /\ get'.since = get.since \union changed
    BY <2>2, <2>3
  <2>5. get.tasks[id] = index[id]
    BY <2>1, <2>2, <2>4 DEF FeedInv, AnswerIsIndex
  <2>6. index'[id] = index[id]
    BY <2>1, <2>4 DEF changed
  <2>7. QED
    BY <2>4, <2>5, <2>6
<1>4. HandlerInOrder' /\ LostIsOff'
  BY <1>1 DEF FeedInv, HandlerInOrder, LostIsOff, Carries
<1>5. FeedFollowsIndex'
  <2>1. SUFFICES ASSUME NEW id \in Ids \ off', id \notin changed
                 PROVE  WillShow(id, index[id])'
    <3>1. pending' # None
      <4>1. pending' \in [changed -> Values \union {None}]
        BY <1>1 DEF Reconcile, Tasks
      <4>2. QED
        BY <4>1, ChangeOf, ChangeIs
    <3>2. DOMAIN pending' = changed
      BY <1>1
    <3>3. QED
      BY <2>1, <3>1, <3>2 DEF FeedFollowsIndex
  <2>2. WillShow(id, index[id]) /\ index'[id] = index[id]
    BY <1>1, <2>1 DEF FeedInv, FeedFollowsIndex
  <2>3. QED
    BY <1>1, <2>2 DEF WillShow, InFlight, Carries, Says, QueuedAt, SentAt, Latest
<1>6. QED
  BY <1>2, <1>3, <1>4, <1>5 DEF FeedInv

\* Of what a file that cannot be read takes from the index, the browser is told nothing.
LEMMA FailureKeepsFeed ==
  ASSUME TypeOK, FeedInv, ReconcileFails PROVE FeedInv'
<1>1. PICK S \in SUBSET Ids :
        /\ index' = [id \in Ids |-> IF id \in S THEN None ELSE index[id]]
        /\ get' = IF get.state = "answered" THEN [get EXCEPT !.since = @ \union S] ELSE get
        /\ off' = off \union S
  BY DEF ReconcileFails
<1>2. pending = None /\ UNCHANGED <<pending, conn, es, feed>>
  BY DEF ReconcileFails
<1>3. \A id \in Ids \ S : index'[id] = index[id]
  BY <1>1
<1>4. PublishedIsIndex'
  BY <1>2 DEF PublishedIsIndex
<1>5. AnswerIsIndex'
  <2>1. SUFFICES ASSUME get'.state = "answered", NEW id \in Ids, id \notin get'.since
                 PROVE  get'.tasks[id] = index'[id]
    BY DEF AnswerIsIndex
  <2>2. get.state = "answered" /\ get' = [get EXCEPT !.since = @ \union S]
    BY <1>1, <2>1
  <2>3. DOMAIN get = {"state", "tasks", "since"} /\ get.since \in SUBSET Ids
    BY <2>2 DEF TypeOK, Requests
  <2>4. get'.tasks = get.tasks /\ get'.since = get.since \union S
    BY <2>2, <2>3
  <2>5. get.tasks[id] = index[id] /\ id \notin S
    BY <2>1, <2>2, <2>4 DEF FeedInv, AnswerIsIndex
  <2>6. QED
    BY <1>3, <2>4, <2>5
<1>6. HandlerInOrder' /\ LostIsOff'
  BY <1>1, <1>2 DEF FeedInv, HandlerInOrder, LostIsOff, Carries
<1>7. FeedFollowsIndex'
  <2>1. SUFFICES ASSUME NEW id \in Ids, id \notin off'
                 PROVE  WillShow(id, index[id])'
    BY DEF FeedFollowsIndex
  <2>2. WillShow(id, index[id]) /\ index'[id] = index[id]
    BY <1>1, <1>2, <1>3, <2>1 DEF FeedInv, FeedFollowsIndex
  <2>3. QED
    BY <1>2, <2>2 DEF WillShow, InFlight, Carries, Says, QueuedAt, SentAt, Latest
<1>8. QED
  BY <1>4, <1>5, <1>6, <1>7 DEF FeedInv

LEMMA PublishKeepsFeed ==
  ASSUME TypeOK, TypeOK', FeedInv, Publish PROVE FeedInv'
<1>1. /\ pending \in Changes /\ pending' = None
      /\ UNCHANGED <<index, es, get, feed>>
      /\ \A k \in Conns : conn'[k] = IF InBus(k) /\ HasRoom(k)
                                     THEN [conn[k] EXCEPT !.queue = Append(@, pending)]
                                     ELSE conn[k]
  BY DEF Publish, TypeOK, browser
<1>2. ASSUME NEW k \in Conns
      PROVE  /\ conn[k] \in Connections /\ conn'[k] \in Connections
             /\ conn'[k].pc = conn[k].pc /\ conn'[k].up = conn[k].up
             /\ conn'[k].todo = conn[k].todo /\ conn'[k].wire = conn[k].wire
             /\ IF InBus(k) /\ HasRoom(k) THEN conn'[k].queue = Append(conn[k].queue, pending)
                                          ELSE conn'[k].queue = conn[k].queue
  <2>1. conn[k] \in Connections /\ conn'[k] \in Connections
    BY DEF TypeOK
  <2>2. QED
    BY <1>1, <2>1 DEF Connections
<1>3. ASSUME NEW k \in Conns, NEW id \in Ids, id \notin DOMAIN pending
      PROVE  /\ Carries(conn'[k], id) <=> Carries(conn[k], id)
             /\ \A v : Says(conn[k], id, v) => Says(conn'[k], id, v)
  <2>1. CASE InBus(k) /\ HasRoom(k)
    BY <1>1, <1>2, <1>3, <2>1, QueueGrows
  <2>2. CASE ~(InBus(k) /\ HasRoom(k))
    BY <1>1, <2>2
  <2>3. QED
    BY <2>1, <2>2
<1>4. PublishedIsIndex' /\ AnswerIsIndex'
  BY <1>1 DEF FeedInv, PublishedIsIndex, AnswerIsIndex
<1>5. HandlerInOrder'
  BY <1>2 DEF FeedInv, HandlerInOrder
<1>6. LostIsOff'
  <2>1. SUFFICES ASSUME es \in Conns, ~conn'[es].up, NEW id \in Ids, Carries(conn'[es], id)
                 PROVE  id \in off'
    BY <1>1 DEF LostIsOff, Carries
  <2>2. ~conn[es].up /\ off' = off \union DOMAIN pending
    BY <1>2, <2>1 DEF Publish
  <2>3. id \notin DOMAIN pending => Carries(conn[es], id)
    BY <1>3, <2>1
  <2>4. QED
    BY <2>1, <2>2, <2>3 DEF FeedInv, LostIsOff
<1>7. FeedFollowsIndex'
  <2>1. SUFFICES ASSUME NEW id \in Ids, id \notin off' PROVE WillShow(id, index[id])'
    BY DEF FeedFollowsIndex
  <2>2. CASE id \in DOMAIN pending
    <3>1. es \in Conns /\ InBus(es) /\ HasRoom(es)
      BY <2>1, <2>2 DEF Publish
    <3>2. Carries(conn'[es], id) /\ Says(conn'[es], id, pending[id])
      BY <1>1, <1>2, <2>2, <3>1, QueueGrows
    <3>3. pending[id] = index'[id]
      BY <1>1, <2>2, ChangeIs DEF FeedInv, PublishedIsIndex
    <3>4. QED
      BY <1>1, <3>1, <3>2, <3>3 DEF WillShow, InFlight, Carries, Says, QueuedAt, SentAt
  <2>3. CASE id \notin DOMAIN pending
    <3>1. id \notin off
      BY <2>1, <2>3 DEF Publish
    <3>2. WillShow(id, index[id])
      BY <2>3, <3>1 DEF FeedInv, FeedFollowsIndex
    <3>3. es \in Conns => /\ Carries(conn'[es], id) <=> Carries(conn[es], id)
                          /\ Says(conn[es], id, index[id]) => Says(conn'[es], id, index[id])
      BY <1>3, <2>3
    <3>4. QED
      BY <1>1, <3>2, <3>3 DEF WillShow, InFlight, Carries, Says, QueuedAt, SentAt
  <2>4. QED
    BY <2>2, <2>3
<1>8. QED
  BY <1>4, <1>5, <1>6, <1>7 DEF FeedInv

LEMMA RestartKeepsFeed ==
  ASSUME TypeOK, FeedInv, Restart PROVE FeedInv'
<1>1. /\ pending' = None /\ get' = [state |-> "over"]
      /\ conn' = [k \in Conns |-> Free] /\ es' = es /\ feed' = feed
      /\ off' = off \union {id \in Ids : InFlight(id) \/ index'[id] # index[id]}
                \union (IF pending = None THEN {} ELSE DOMAIN pending)
  BY DEF Restart
<1>2. es \in Conns => \A id \in Ids : ~Carries(conn'[es], id)
  BY <1>1, FreeCarriesNothing
<1>3. PublishedIsIndex' /\ AnswerIsIndex' /\ HandlerInOrder'
  BY <1>1 DEF PublishedIsIndex, AnswerIsIndex, HandlerInOrder, Free
<1>4. LostIsOff'
  BY <1>1, <1>2 DEF LostIsOff, Carries
<1>5. FeedFollowsIndex'
  <2>1. SUFFICES ASSUME NEW id \in Ids, id \notin off' PROVE WillShow(id, index[id])'
    BY DEF FeedFollowsIndex
  <2>2. WillShow(id, index[id]) /\ ~InFlight(id) /\ index'[id] = index[id]
    BY <1>1, <2>1 DEF FeedInv, FeedFollowsIndex
  <2>3. feed'[id] = index'[id]
    BY <1>1, <2>2 DEF WillShow
  <2>4. QED
    BY <1>1, <1>2, <2>3 DEF WillShow, InFlight, Carries
<1>6. QED
  BY <1>3, <1>4, <1>5 DEF FeedInv

-----------------------------------------------------------------------------
(* The handlers *)

\* A step that writes nothing leaves what the connection carries.
LEMMA SameCarried ==
  ASSUME NEW c, NEW d, d.queue = c.queue, d.todo = c.todo, d.wire = c.wire, NEW id
  PROVE  /\ Carries(d, id) <=> Carries(c, id)
         /\ \A v : Says(c, id, v) => Says(d, id, v)
BY DEF Carries, Says, QueuedAt, SentAt, Latest

\* A handler moves what it carries towards its client, and ends when the client is gone.
LEMMA HandlerMoves ==
  ASSUME TypeOK, TypeOK', HandlerInOrder, NEW k \in Conns, HandlerStep(k)
  PROVE  /\ conn'[k].pc \in {"subscribe", "seed", "select"} => conn'[k].todo = Nothing
         /\ conn'[k].pc \in {"leave", "free"} => ~conn'[k].up
         /\ \/ /\ conn'[k].up = conn[k].up
               /\ \A id \in Ids : /\ Carries(conn'[k], id) <=> Carries(conn[k], id)
                                  /\ \A v : Says(conn[k], id, v) => Says(conn'[k], id, v)
            \/ ~conn[k].up /\ conn'[k] = Free
<1>1. /\ conn[k] \in Connections /\ conn \in [Conns -> Connections]
      /\ conn'[k] \in Connections
      /\ conn[k].pc \in {"subscribe", "seed", "select"} => conn[k].todo = Nothing
      /\ conn[k].pc \in {"leave", "free"} => ~conn[k].up
  BY DEF TypeOK, HandlerInOrder
<1>2. ASSUME \/ Subscribe(k) \/ Seed(k) \/ WriteDiags(k) \/ Leave(k)
      PROVE  /\ conn'[k].up = conn[k].up /\ conn'[k].queue = conn[k].queue
             /\ conn'[k].todo = conn[k].todo /\ conn'[k].wire = conn[k].wire
  <2>1. CASE Subscribe(k)
    BY <2>1, <1>1 DEF Subscribe, Connections
  <2>2. CASE Seed(k)
    BY <2>2, <1>1 DEF Seed, Connections
  <2>3. CASE WriteDiags(k)
    <3>1. \E t : conn'[k] = [conn[k] EXCEPT !.pc = "select", !.last = diags, !.told = t]
      BY <2>3, <1>1 DEF WriteDiags
    <3>2. QED
      BY <3>1, <1>1 DEF Connections
  <2>4. CASE Leave(k)
    BY <2>4, <1>1 DEF Leave, Connections
  <2>5. QED
    BY <1>2, <2>1, <2>2, <2>3, <2>4
<1>3. CASE \/ Subscribe(k) \/ Seed(k) \/ WriteDiags(k) \/ Leave(k)
  <2>1. /\ conn'[k].pc \in {"subscribe", "seed", "select"} => conn[k].todo = Nothing
        /\ conn'[k].pc \in {"leave", "free"} => ~conn[k].up
    <3>1. CASE Subscribe(k)
      BY <3>1, <1>1 DEF Subscribe, Connections
    <3>2. CASE Seed(k)
      BY <3>2, <1>1 DEF Seed, Connections
    <3>3. CASE WriteDiags(k)
      <4>1. conn'[k].pc = "select" /\ conn[k].todo = Nothing
        BY <3>3, <1>1 DEF WriteDiags, Connections
      <4>2. QED
        BY <4>1
    <3>4. CASE Leave(k)
      BY <3>4, <1>1 DEF Leave, Connections
    <3>5. QED
      BY <1>3, <3>1, <3>2, <3>3, <3>4
  <2>2. QED
    BY <1>2, <1>3, <2>1, SameCarried
<1>4. CASE Receive(k)
  <2>1. conn'[k] = [conn[k] EXCEPT !.pc = "write", !.todo = Head(conn[k].queue),
                                   !.queue = Tail(conn[k].queue)]
    BY <1>4, <1>1 DEF Receive
  <2>2. /\ conn'[k].pc = "write" /\ conn'[k].up = conn[k].up /\ conn'[k].wire = conn[k].wire
        /\ conn'[k].todo = Head(conn[k].queue) /\ conn'[k].queue = Tail(conn[k].queue)
    BY <2>1, <1>1 DEF Connections
  <2>3. conn[k].todo = Nothing /\ conn[k].queue # <<>>
    BY <1>4, <1>1 DEF Receive
  <2>4. QED
    BY <1>1, <2>2, <2>3, QueueMoves
<1>5. CASE WriteTask(k)
  <2>1. PICK w \in DOMAIN conn[k].todo :
          conn' = [conn EXCEPT
                    ![k].todo = [i \in DOMAIN conn[k].todo \ {w} |-> conn[k].todo[i]],
                    ![k].wire = Append(@, [id |-> w, value |-> conn[k].todo[w]])]
    BY <1>5 DEF WriteTask
  <2> DEFINE todo == [i \in DOMAIN conn[k].todo \ {w} |-> conn[k].todo[i]]
             msg == [id |-> w, value |-> conn[k].todo[w]]
  <2>2. conn'[k] = [conn[k] EXCEPT !.todo = todo, !.wire = Append(conn[k].wire, msg)]
    BY <2>1, <1>1
  <2> HIDE DEF todo, msg
  <2>3. /\ conn'[k].pc = conn[k].pc /\ conn'[k].up = conn[k].up
        /\ conn'[k].queue = conn[k].queue
        /\ conn'[k].todo = todo /\ conn'[k].wire = Append(conn[k].wire, msg)
    BY <2>2, <1>1 DEF Connections
  <2>4. ASSUME NEW id \in Ids
        PROVE  /\ Carries(conn'[k], id) <=> Carries(conn[k], id)
               /\ \A v : Says(conn[k], id, v) => Says(conn'[k], id, v)
    BY <1>1, <2>3, WireGrows DEF todo, msg
  <2>5. conn[k].pc = "write"
    BY <1>5 DEF WriteTask
  <2>6. QED
    BY <2>3, <2>4, <2>5
<1>6. CASE Unsubscribe(k)
  <2>1. conn'[k] = Free /\ ~conn[k].up
    BY <1>6, <1>1 DEF Unsubscribe
  <2>2. Free.pc = "free" /\ ~Free.up
    BY DEF Free
  <2>3. QED
    BY <2>1, <2>2
<1>7. QED
  BY <1>3, <1>4, <1>5, <1>6 DEF HandlerStep

LEMMA HandlerKeepsFeed ==
  ASSUME TypeOK, TypeOK', FeedInv, NEW k \in Conns, HandlerStep(k) PROVE FeedInv'
<1>1. /\ UNCHANGED <<index, pending, es, get, feed, off>>
      /\ \A c \in Conns \ {k} : conn'[c] = conn[c]
  BY DEF HandlerStep, Subscribe, Seed, Receive, WriteTask, WriteDiags, Leave, Unsubscribe,
         server, browser, TypeOK
<1>2. /\ conn'[k].pc \in {"subscribe", "seed", "select"} => conn'[k].todo = Nothing
      /\ conn'[k].pc \in {"leave", "free"} => ~conn'[k].up
      /\ \/ /\ conn'[k].up = conn[k].up
            /\ \A id \in Ids : /\ Carries(conn'[k], id) <=> Carries(conn[k], id)
                               /\ \A v : Says(conn[k], id, v) => Says(conn'[k], id, v)
         \/ ~conn[k].up /\ conn'[k] = Free
  BY HandlerMoves DEF FeedInv
<1>3. PublishedIsIndex' /\ AnswerIsIndex'
  BY <1>1 DEF FeedInv, PublishedIsIndex, AnswerIsIndex
<1>4. HandlerInOrder'
  BY <1>1, <1>2 DEF FeedInv, HandlerInOrder
<1>5. ASSUME es \in Conns, NEW id \in Ids
      PROVE  \/ /\ conn'[es].up = conn[es].up
                /\ Carries(conn'[es], id) <=> Carries(conn[es], id)
                /\ \A v : Says(conn[es], id, v) => Says(conn'[es], id, v)
             \/ ~conn[es].up /\ ~Carries(conn'[es], id)
  <2>1. CASE es = k
    BY <1>2, <1>5, <2>1, FreeCarriesNothing
  <2>2. CASE es # k
    BY <1>1, <1>5, <2>2
  <2>3. QED
    BY <2>1, <2>2
<1>6. LostIsOff'
  BY <1>1, <1>5 DEF FeedInv, LostIsOff, Carries
<1>7. FeedFollowsIndex'
  <2>1. SUFFICES ASSUME NEW id \in Ids, id \notin off, ~(pending # None /\ id \in DOMAIN pending)
                 PROVE  WillShow(id, index[id])'
    BY <1>1 DEF FeedFollowsIndex
  <2>2. WillShow(id, index[id])
    BY <2>1 DEF FeedInv, FeedFollowsIndex
  <2>3. CASE es \in Conns
    <3>1. CASE /\ Carries(conn'[es], id) <=> Carries(conn[es], id)
               /\ \A v : Says(conn[es], id, v) => Says(conn'[es], id, v)
      BY <1>1, <2>2, <3>1 DEF WillShow, InFlight, Carries, Says, QueuedAt, SentAt
    <3>2. CASE ~conn[es].up /\ ~Carries(conn'[es], id)
      <4>1. ~Carries(conn[es], id)
        BY <2>1, <2>3, <3>2 DEF FeedInv, LostIsOff
      <4>2. QED
        BY <1>1, <2>2, <3>2, <4>1 DEF WillShow, InFlight, Carries
    <3>3. QED
      BY <1>5, <2>3, <3>1, <3>2
  <2>4. CASE es \notin Conns
    BY <1>1, <2>2, <2>4 DEF WillShow, InFlight
  <2>5. QED
    BY <2>3, <2>4
<1>8. QED
  BY <1>3, <1>4, <1>6, <1>7 DEF FeedInv

-----------------------------------------------------------------------------
(* The page *)

\* Where nothing is on its way and nothing was missed, the feed has what the index has.
LEMMA FeedIsIndex ==
  ASSUME FeedInv, NEW id \in Ids, id \notin off, ~(pending # None /\ id \in DOMAIN pending),
         es \in Conns => ~conn[es].up \/ ~Carries(conn[es], id)
  PROVE  feed[id] = index[id]
<1>1. WillShow(id, index[id])
  BY DEF FeedInv, FeedFollowsIndex
<1>2. ~InFlight(id)
  BY DEF FeedInv, LostIsOff, InFlight
<1>3. QED
  BY <1>1, <1>2 DEF WillShow

\* The stream begins or ends: nothing is on its way then.
LEMMA StreamKeepsFeed ==
  ASSUME TypeOK, TypeOK', FeedInv,
         (\E k \in Conns : Connect(k)) \/ OnError \/ ConnectFails \/ ConnectRefused \/ Break
  PROVE  FeedInv'
<1>1. UNCHANGED <<index, pending, get, feed>>
  BY DEF Connect, OnError, ConnectFails, ConnectRefused, Break, server, browser
<1>2. PublishedIsIndex' /\ AnswerIsIndex'
  BY <1>1 DEF FeedInv, PublishedIsIndex, AnswerIsIndex
<1>3. /\ HandlerInOrder'
      /\ off \subseteq off'
      /\ \A id \in Ids \ off' : es \in Conns => ~conn[es].up \/ ~Carries(conn[es], id)
      /\ es' \in Conns => \A id \in Ids : Carries(conn'[es'], id) => id \in off'
  <2>1. CASE \E k \in Conns : Connect(k)
    <3>1. PICK k \in Conns : Connect(k)
      BY <2>1
    <3> DEFINE r == [Free EXCEPT !.pc = "subscribe", !.up = TRUE]
    <3>2. es \notin Conns /\ es' = k /\ off' = off /\ conn' = [conn EXCEPT ![k] = r]
      BY <3>1, FeedAssumption DEF Connect
    <3>3. r.pc = "subscribe" /\ r.todo = Nothing
      BY DEF Free
    <3> HIDE DEF r
    <3>4. conn'[k] = r /\ \A c \in Conns \ {k} : conn'[c] = conn[c]
      BY <3>2 DEF TypeOK
    <3>5. HandlerInOrder'
      BY <3>3, <3>4 DEF FeedInv, HandlerInOrder
    <3>6. \A id \in Ids : ~Carries(conn'[k], id)
      BY <3>4, FreeCarriesNothing DEF r
    <3>7. QED
      BY <3>2, <3>5, <3>6
  <2>2. CASE OnError \/ ConnectFails \/ ConnectRefused
    <3>1. conn' = conn /\ off' = off /\ (es \in Conns => ~conn[es].up)
      BY <2>2, FeedAssumption DEF OnError, ConnectFails, ConnectRefused
    <3>2. es' \notin Conns
      BY <2>2, FeedAssumption DEF OnError, ConnectFails, ConnectRefused, AfterError
    <3>3. QED
      BY <3>1, <3>2 DEF FeedInv, HandlerInOrder
  <2>3. CASE Break
    <3>1. /\ es \in Conns /\ es' = es /\ conn[es] \in Connections
          /\ off' = off \union {id \in Ids : InFlight(id)}
          /\ conn'[es] = [conn[es] EXCEPT !.up = FALSE, !.wire = <<>>]
          /\ \A c \in Conns \ {es} : conn'[c] = conn[c]
      BY <2>3 DEF Break, TypeOK, browser
    <3>2. /\ conn'[es].pc = conn[es].pc /\ ~conn'[es].up
          /\ conn'[es].todo = conn[es].todo /\ conn'[es].queue = conn[es].queue
          /\ conn'[es].wire = <<>>
      BY <3>1 DEF Connections
    <3>3. HandlerInOrder'
      BY <3>1, <3>2 DEF FeedInv, HandlerInOrder
    <3>4. \A id \in Ids : Carries(conn'[es], id) => Carries(conn[es], id)
      BY <3>2 DEF Carries
    <3>5. QED
      BY <3>1, <3>3, <3>4 DEF InFlight
  <2>4. QED
    BY <2>1, <2>2, <2>3
<1>4. LostIsOff'
  BY <1>3 DEF LostIsOff, Carries
<1>5. FeedFollowsIndex'
  <2>1. SUFFICES ASSUME NEW id \in Ids, id \notin off', ~(pending # None /\ id \in DOMAIN pending)
                 PROVE  WillShow(id, index[id])'
    BY <1>1 DEF FeedFollowsIndex
  <2>2. feed[id] = index[id]
    BY <1>3, <2>1, FeedIsIndex
  <2>3. ~InFlight(id)'
    BY <1>3, <2>1 DEF InFlight, Carries
  <2>4. QED
    BY <1>1, <2>2, <2>3 DEF WillShow
<1>6. QED
  BY <1>2, <1>3, <1>4, <1>5 DEF FeedInv

LEMMA MessageKeepsFeed ==
  ASSUME TypeOK, TypeOK', FeedInv, OnMessage PROVE FeedInv'
<1> DEFINE m == Head(conn[es].wire)
<1>1. /\ es \in Conns /\ es' = es /\ conn[es].wire # <<>>
      /\ UNCHANGED <<index, pending, get, off>>
      /\ feed' = [feed EXCEPT ![m.id] = m.value]
      /\ conn[es] \in Connections /\ conn'[es] \in Connections
      /\ conn'[es] = [conn[es] EXCEPT !.wire = Tail(conn[es].wire)]
      /\ \A c \in Conns \ {es} : conn'[c] = conn[c]
  BY DEF OnMessage, Applied, TypeOK, server
<1>2. /\ conn'[es].pc = conn[es].pc /\ conn'[es].up = conn[es].up
      /\ conn'[es].todo = conn[es].todo /\ conn'[es].queue = conn[es].queue
      /\ conn'[es].wire = Tail(conn[es].wire)
  BY <1>1 DEF Connections
<1>3. ASSUME NEW id \in Ids
      PROVE  /\ Carries(conn'[es], id)
                  => Carries(conn[es], id) /\ \A v : Says(conn[es], id, v) => Says(conn'[es], id, v)
             /\ m.id = id => Carries(conn[es], id)
             /\ m.id # id => (Carries(conn[es], id) => Carries(conn'[es], id))
             /\ m.id = id /\ ~Carries(conn'[es], id)
                  => \A v : Says(conn[es], id, v) => m.value = v
  BY <1>1, <1>2, WireMoves
<1> HIDE DEF m
<1>4. PublishedIsIndex' /\ AnswerIsIndex'
  BY <1>1 DEF FeedInv, PublishedIsIndex, AnswerIsIndex
<1>5. HandlerInOrder'
  BY <1>1, <1>2 DEF FeedInv, HandlerInOrder
<1>6. LostIsOff'
  BY <1>1, <1>2, <1>3 DEF FeedInv, LostIsOff, Carries
<1>7. FeedFollowsIndex'
  <2>1. SUFFICES ASSUME NEW id \in Ids, id \notin off, ~(pending # None /\ id \in DOMAIN pending)
                 PROVE  WillShow(id, index[id])'
    BY <1>1 DEF FeedFollowsIndex
  <2>2. WillShow(id, index[id])
    BY <2>1 DEF FeedInv, FeedFollowsIndex
  <2>3. CASE Carries(conn'[es], id)
    <3>1. Carries(conn[es], id) /\ Says(conn[es], id, index[id])
      BY <1>1, <1>3, <2>2, <2>3 DEF WillShow, InFlight
    <3>2. Says(conn'[es], id, index[id])
      BY <1>3, <2>3, <3>1
    <3>3. QED
      BY <1>1, <2>3, <3>2 DEF WillShow, InFlight, Carries, Says, QueuedAt, SentAt
  <2>4. CASE ~Carries(conn'[es], id)
    <3>1. feed'[id] = index[id]
      <4>1. CASE m.id = id
        <5>1. Says(conn[es], id, index[id])
          BY <1>1, <1>3, <2>2, <4>1 DEF WillShow, InFlight
        <5>2. m.value = index[id]
          BY <1>3, <2>4, <4>1, <5>1
        <5>3. QED
          BY <1>1, <4>1, <5>2 DEF TypeOK, Tasks
      <4>2. CASE m.id # id
        <5>1. feed[id] = index[id]
          BY <1>1, <1>3, <2>2, <2>4, <4>2 DEF WillShow, InFlight
        <5>2. QED
          BY <1>1, <4>2, <5>1 DEF TypeOK, Tasks
      <4>3. QED
        BY <4>1, <4>2
    <3>2. QED
      BY <1>1, <2>4, <3>1 DEF WillShow, InFlight, Carries
  <2>5. QED
    BY <2>3, <2>4
<1>8. QED
  BY <1>4, <1>5, <1>6, <1>7 DEF FeedInv

\* What a card shows is forgotten when something about its task arrives, and is a
\* difference the browser does not know of otherwise.
LEMMA PageKeepsFeed ==
  ASSUME TypeOK, TypeOK', FeedInv,
         Answer \/ Arrive \/ GetFails \/ (\E id \in Ids : Act(id)) \/ Settle
  PROVE  FeedInv'
<1>1. UNCHANGED <<index, pending, conn, es>>
  BY DEF Answer, Arrive, GetFails, Act, Settle, server
<1>2. PublishedIsIndex' /\ HandlerInOrder'
  BY <1>1 DEF FeedInv, PublishedIsIndex, HandlerInOrder
<1>3. AnswerIsIndex'
  <2>1. CASE Answer
    BY <2>1, <1>1 DEF Answer, AnswerIsIndex
  <2>2. CASE Arrive \/ GetFails
    BY <2>2 DEF Arrive, GetFails, AnswerIsIndex
  <2>3. CASE (\E id \in Ids : Act(id)) \/ Settle
    <3>1. get' = get
      BY <2>3 DEF Act, Settle
    <3>2. QED
      BY <3>1, <1>1 DEF FeedInv, AnswerIsIndex
  <2>4. QED
    BY <2>1, <2>2, <2>3
<1>4. ASSUME NEW id \in Ids
      PROVE  /\ InFlight(id) => (id \in off' <=> id \in off)
             /\ ~InFlight(id) /\ id \notin off'
                  => \/ id \notin off /\ feed'[id] = feed[id]
                     \/ feed'[id] = index[id]
  <2>1. CASE Answer \/ GetFails
    BY <2>1 DEF Answer, GetFails
  <2>2. CASE Arrive
    BY <2>2, <1>4 DEF Arrive, FeedInv, AnswerIsIndex
  <2>3. CASE (\E i \in Ids : Act(i)) \/ Settle
    <3>1. \/ UNCHANGED <<feed, off>>
          \/ \E i \in Ids, v \in Values : Show(i, v)
      BY <2>3 DEF Act, Settle, TypeOK
    <3>2. ASSUME NEW i \in Ids, NEW v \in Values, Show(i, v)
          PROVE  /\ InFlight(id) => (id \in off' <=> id \in off)
                 /\ ~InFlight(id) /\ id \notin off' => id \notin off /\ feed'[id] = feed[id]
      BY <3>2 DEF Show, TypeOK, Tasks
    <3>3. QED
      BY <3>1, <3>2
  <2>4. QED
    BY <2>1, <2>2, <2>3
<1>5. LostIsOff'
  BY <1>1, <1>4 DEF FeedInv, LostIsOff, InFlight, Carries
<1>6. FeedFollowsIndex'
  <2>1. SUFFICES ASSUME NEW id \in Ids, id \notin off', ~(pending # None /\ id \in DOMAIN pending)
                 PROVE  WillShow(id, index[id])'
    BY <1>1 DEF FeedFollowsIndex
  <2>2. id \notin off => WillShow(id, index[id])
    BY <2>1 DEF FeedInv, FeedFollowsIndex
  <2>3. IF InFlight(id) THEN Says(conn[es], id, index[id]) ELSE feed'[id] = index[id]
    BY <1>4, <2>1, <2>2 DEF WillShow
  <2>4. QED
    BY <1>1, <2>3 DEF WillShow, InFlight, Carries, Says, QueuedAt, SentAt
<1>7. QED
  BY <1>2, <1>3, <1>5, <1>6 DEF FeedInv

LEMMA UnmountKeepsFeed ==
  ASSUME TypeOK, TypeOK', FeedInv, Unmount PROVE FeedInv'
<1>1. /\ UNCHANGED <<index, pending>> /\ es' = "closed" /\ off' = Ids
      /\ get' = [state |-> "over"]
      /\ \A k \in Conns : \/ conn'[k] = conn[k]
                          \/ conn'[k] = [conn[k] EXCEPT !.up = FALSE, !.wire = <<>>]
  BY DEF Unmount, server
<1>2. ASSUME NEW k \in Conns
      PROVE  /\ conn'[k].pc = conn[k].pc /\ conn'[k].todo = conn[k].todo
             /\ conn'[k].up => conn[k].up
  <2>1. conn[k] \in Connections
    BY DEF TypeOK
  <2>2. QED
    BY <1>1, <2>1 DEF Connections
<1>3. HandlerInOrder'
  BY <1>2 DEF FeedInv, HandlerInOrder
<1>4. QED
  BY <1>1, <1>3, FeedAssumption
     DEF FeedInv, PublishedIsIndex, AnswerIsIndex, LostIsOff, FeedFollowsIndex

\* Whatever is on its way, lost, answered late or shown in advance: the feed has, or
\* will have, what the index has of every task of which nothing was missed.
THEOREM FeedAlwaysFollowsIndex == Spec => []FeedFollowsIndex
<1>1. TypeOK /\ TypeOK' /\ FeedInv /\ [Next]_vars => FeedInv'
  <2> SUFFICES ASSUME TypeOK, TypeOK', FeedInv, [Next]_vars PROVE FeedInv'
    OBVIOUS
  <2>1. CASE Reconcile \/ ReconcileFails \/ Publish \/ Restart
    BY <2>1, ReconcileKeepsFeed, FailureKeepsFeed, PublishKeepsFeed, RestartKeepsFeed
  <2>2. CASE \E k \in Conns : HandlerStep(k)
    BY <2>2, HandlerKeepsFeed
  <2>3. CASE BrowserStep
    BY <2>3, StreamKeepsFeed, MessageKeepsFeed, PageKeepsFeed, UnmountKeepsFeed DEF BrowserStep
  <2>4. CASE UNCHANGED vars
    BY <2>4 DEF vars, FeedInv, PublishedIsIndex, AnswerIsIndex, HandlerInOrder, LostIsOff,
         FeedFollowsIndex, WillShow, InFlight, Carries, Says, QueuedAt, SentAt
  <2>5. QED
    BY <2>1, <2>2, <2>3, <2>4 DEF Next, HandlerStep, BrowserStep
<1>2. FeedInv => FeedFollowsIndex
  BY DEF FeedInv
<1>3. QED
  BY <1>1, <1>2, InitFeedInv, FeedTypes, PTL DEF Spec

=============================================================================
