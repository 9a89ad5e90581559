-------------------------- MODULE ShardMasterProofs --------------------------
(***************************************************************************)
(* Theorems about ShardMaster, for any servers, clerks, groups, requests   *)
(* and shutdowns: the replicas agree, and the clerks see one history of    *)
(* configurations.                                                         *)
(***************************************************************************)
EXTENDS ShardMasterSafety, ShardConfigProofs

(***************************************************************************)
(* A set of configurations that requests do not leave.                     *)
(***************************************************************************)
\* What may be asked for, as far as the programs go.
Changes == {request \in Request : request.OpType # "Query"}

Closed(S) == /\ NoConfig \in S
             /\ \A config \in S, request \in Changes : NewConfig(config, request) \in S

Extended(S) == UNION {{NewConfig(config, request) : request \in Changes} : config \in S}

\* f gives the configurations that up to N requests make.
Reached(f, N) ==
  f = [n \in 0 .. N |->
         IF n = 0 THEN {NoConfig} ELSE Extended(f[n - 1])]

\* There are such sets.
LEMMA ReachedExists ==
  ASSUME NEW N \in Nat
  PROVE  \E f : Reached(f, N)
<1> DEFINE T == {n \in Nat : ~\E f : Reached(f, n)}
<1> SUFFICES ASSUME T # {} PROVE FALSE
  OBVIOUS
<1>1. PICK n \in T : \A m \in T : n <= m
  <2> HIDE DEF T
  <2>1. T \in SUBSET Nat
    BY DEF T
  <2> QED BY <2>1, LeastNatural
<1>2. CASE n = 0
  <2> DEFINE f == [m \in 0 .. 0 |-> {NoConfig}]
  <2>1. Reached(f, 0)
    BY DEF Reached
  <2> QED BY <1>2, <2>1
<1>3. CASE n # 0
  <2>1. n \in Nat /\ n - 1 \in Nat /\ n - 1 \notin T
    BY <1>1, <1>3
  <2>2. PICK g : Reached(g, n - 1)
    BY <2>1
  <2> DEFINE f == [m \in 0 .. n |->
                     IF m = n THEN Extended(g[n - 1]) ELSE g[m]]
  <2>3. \A m \in 0 .. n - 1 :
          g[m] = IF m = 0 THEN {NoConfig} ELSE Extended(g[m - 1])
    BY <2>1, <2>2 DEF Reached
  <2>4. f[n] = Extended(f[n - 1])
    BY <1>3, <2>1
  <2>5. ASSUME NEW m \in 0 .. n - 1
        PROVE  f[m] = IF m = 0 THEN {NoConfig} ELSE Extended(f[m - 1])
    <3>1. f[m] = g[m]
      BY <2>1
    <3>2. m # 0 => f[m - 1] = g[m - 1]
      BY <2>1
    <3> QED BY <2>3, <3>1, <3>2
  <2>6. \A m \in 0 .. n :
          f[m] = IF m = 0 THEN {NoConfig} ELSE Extended(f[m - 1])
    <3> SUFFICES ASSUME NEW m \in 0 .. n
        PROVE  f[m] = IF m = 0 THEN {NoConfig} ELSE Extended(f[m - 1])
      OBVIOUS
    <3>1. CASE m = n
      BY <1>3, <2>4, <3>1
    <3>2. CASE m # n
      <4>1. m \in 0 .. n - 1
        BY <2>1, <3>2
      <4> QED BY <2>5, <4>1
    <3> QED BY <3>1, <3>2
  <2>7. Reached(f, n)
    BY <2>6 DEF Reached
  <2> QED BY <2>7
<1> QED BY <1>2, <1>3

\* They do not depend on how far one looks.
LEMMA ReachedAgrees ==
  ASSUME NEW N \in Nat, NEW f, NEW g, Reached(f, N), Reached(g, N + 1)
  PROVE  \A n \in 0 .. N : f[n] = g[n]
<1> DEFINE T == {n \in 0 .. N : f[n] # g[n]}
<1> SUFFICES ASSUME T # {} PROVE FALSE
  OBVIOUS
<1>1. PICK n \in T : \A m \in T : n <= m
  <2> HIDE DEF T
  <2>1. T \in SUBSET Nat
    BY DEF T
  <2> QED BY <2>1, LeastNatural
<1>2. \A m \in 0 .. N : f[m] = (IF m = 0 THEN {NoConfig} ELSE Extended(f[m - 1]))
  BY DEF Reached
<1>3. \A m \in 0 .. N + 1 :
        g[m] = (IF m = 0 THEN {NoConfig} ELSE Extended(g[m - 1]))
  <2>1. PICK M \in Nat : M = N + 1
    OBVIOUS
  <2>2. \A m \in 0 .. M : g[m] = (IF m = 0 THEN {NoConfig} ELSE Extended(g[m - 1]))
    BY <2>1 DEF Reached
  <2> QED BY <2>1, <2>2
<1>4. n \in 0 .. N /\ f[n] # g[n]
  OBVIOUS
<1>5. n # 0
  BY <1>2, <1>3, <1>4
<1>6. n - 1 \in 0 .. N /\ n - 1 \notin T
  BY <1>1, <1>4, <1>5
<1>7. f[n - 1] = g[n - 1]
  BY <1>6
<1> QED BY <1>2, <1>3, <1>4, <1>5, <1>7

\* What they are, one by one.
LEMMA ReachedIs ==
  ASSUME NEW N \in Nat, NEW f, Reached(f, N)
  PROVE  f[0] = {NoConfig} /\ \A n \in 1 .. N : f[n] = Extended(f[n - 1])
<1>1. \A n \in 0 .. N : f[n] = IF n = 0 THEN {NoConfig} ELSE Extended(f[n - 1])
  BY DEF Reached
<1> QED BY <1>1

\* What a request makes of one of them is among the next.
LEMMA ReachedFurther ==
  ASSUME NEW N \in Nat, NEW f, NEW g, Reached(f, N), Reached(g, N + 1),
         NEW config \in f[N], NEW request \in Changes
  PROVE  NewConfig(config, request) \in g[N + 1]
<1>1. f[N] = g[N]
  BY ReachedAgrees
<1>2. PICK M \in Nat : M = N + 1
  OBVIOUS
<1>3. g[M] = Extended(g[M - 1]) /\ M - 1 = N
  BY <1>2, ReachedIs
<1>4. NewConfig(config, request) \in Extended(f[N])
  BY DEF Extended
<1> QED BY <1>1, <1>2, <1>3, <1>4

\* There is a set that requests do not leave.
LEMMA ClosedExists == \E S : Closed(S)
<1> DEFINE F(N) == CHOOSE f : Reached(f, N)
           S == UNION {F(N)[N] : N \in Nat}
<1>1. \A N \in Nat : Reached(F(N), N)
  BY ReachedExists
<1> HIDE DEF F
<1>2. NoConfig \in S
  <2>1. F(0)[0] = {NoConfig}
    BY <1>1, ReachedIs
  <2> QED BY <2>1
<1>3. ASSUME NEW config \in S, NEW request \in Changes
      PROVE  NewConfig(config, request) \in S
  <2>1. PICK N \in Nat : config \in F(N)[N]
    OBVIOUS
  <2>2. N + 1 \in Nat /\ Reached(F(N), N) /\ Reached(F(N + 1), N + 1)
    BY <1>1
  <2>3. NewConfig(config, request) \in F(N + 1)[N + 1]
    BY <2>1, <2>2, ReachedFurther
  <2> QED BY <2>2, <2>3
<1> HIDE DEF S
<1> QED BY <1>2, <1>3 DEF Closed

AnyConfig == CHOOSE S : Closed(S)

\* Requests do not leave AnyConfig.
LEMMA AnyConfigIsClosed == Closed(AnyConfig)
BY ClosedExists DEF AnyConfig

(***************************************************************************)
(* Types.                                                                  *)
(***************************************************************************)
Op == [ClientId : Client, CommandId : Nat, request : Request]
Entry == [term : Nat, op : Op]
Reply == [WrongLeader : BOOLEAN, Config : AnyConfig \cup {Nil}]

CallStates == {"sent", "executing", "executed", "answering", "returned"}
CallRecord == [server : Server, instance : Nat, st : CallStates, args : Op,
               reply : Reply \cup {Nil}]
Places == {"over", "started", "waiting", "reading", "leaving"}
Handler == [at : Places, index : Nat, ch : (Client \X Nat) \cup {Nil}, box : Seq(Op),
            reply : Reply \cup {Nil}]

\* The calls that were made, and the handlers of them.
Id == {k \in Client \X Nat : k[2] \in DOMAIN calls[k[1]]}

LogTypes ==
  /\ agreed \in Seq(Entry)
  /\ view \in [Server -> Seq(Entry)]
  /\ term \in [Server -> Nat]
  /\ leading \subseteq Server
  /\ proposed \subseteq [index : Nat, entry : Entry]
  /\ Len(agreed) <= MaxIndex /\ \A s \in Server : Len(view[s]) <= MaxIndex

\* A call that was executed has a reply.
Replied == {"executed", "answering"}

CallTypes ==
  /\ servers \in [Server -> Nat] /\ shutdowns \in Nat
  /\ calls \in [Client -> Seq(CallRecord)]
  /\ \A k \in Id : CallOf(k).st \in Replied => CallOf(k).reply \in Reply

HandlerTypes ==
  /\ handler \in [Client -> Seq(Handler)]
  /\ \A c \in Client : Len(handler[c]) = Len(calls[c])
  /\ \A k \in Id : HandlerOf(k).at = "leaving" => HandlerOf(k).reply \in Reply
  /\ \A k \in Id : HandlerOf(k).at # "over" => HandlerOf(k).index \in 1 .. MaxIndex

ReplicaTypes ==
  /\ configs \in [Server -> Seq(AnyConfig)]
  /\ \A s \in Server : configs[s] # <<>>
  /\ lastApplied \in [Server -> [Client -> Nat]]
  /\ applied \in [Server -> Nat]
  /\ notifyChans \in [Server -> [1 .. MaxIndex -> (Client \X Nat) \cup {Nil}]]
  /\ sending \in [Server -> [op : Op, ch : Client \X Nat] \cup {Nil}]

Clerk == [st : {"idle", "trying", "waiting"}, request : Request \cup {Nil}, since : Nat,
          numOfOrders : Nat]

ClerkTypes ==
  /\ clerk \in [Client -> Clerk]
  /\ \A c \in Client : Busy(c) => clerk[c].request \in Request
  /\ result \in [Client -> AnyConfig \cup {Nil}]
  /\ program \in Programs

HistoryTypes == history \in Seq(AnyConfig) /\ history # <<>>

Types ==
  /\ LogTypes /\ CallTypes /\ HandlerTypes /\ ReplicaTypes /\ ClerkTypes /\ HistoryTypes

(***************************************************************************)
(* The invariant.                                                          *)
(***************************************************************************)
\* The request number p of clerk c is at index n of the log.
Has(n, c, p) == agreed[n].op.ClientId = c /\ agreed[n].op.CommandId = p

AgreedOn(op) == \E n \in DOMAIN agreed : agreed[n].op = op

\* An operation that is anywhere is its clerk's current one or has been agreed on.
Issued(op) ==
  LET c == op.ClientId IN
    \/ op.CommandId \in 1 .. clerk[c].numOfOrders - 1 /\ AgreedOn(op)
    \/ op.CommandId = clerk[c].numOfOrders /\ Busy(c) /\ op.request = clerk[c].request

\* What a clerk is at, and what it has done.
Clerking(c) ==
  /\ clerk[c].numOfOrders >= 1
  /\ Busy(c) =>
       /\ clerk[c].since <= Len(agreed)
       /\ \A m \in 1 .. clerk[c].since : ~Has(m, c, clerk[c].numOfOrders)
  /\ clerk[c].st = "waiting" =>
       /\ Len(calls[c]) >= 1
       /\ calls[c][Len(calls[c])].args = OpOf(c)
  /\ \A p \in 1 .. clerk[c].numOfOrders - 1 : \E n \in DOMAIN agreed : Has(n, c, p)

\* The operations in logs and calls.
IsCommand(op) ==
  \/ \E n \in DOMAIN agreed : op = agreed[n].op
  \/ \E s \in Server : \E n \in DOMAIN view[s] : op = view[s][n].op
  \/ \E p \in proposed : op = p.entry.op
  \/ \E k \in Id : op = CallOf(k).args

AllIssued == \A op \in Op : IsCommand(op) => Issued(op)

\* A clerk's requests come in their order, and no two have one number.
LogInOrder ==
  /\ \A m, n \in DOMAIN agreed, c \in Client, p \in Nat :
       Has(m, c, p) /\ Has(n, c, p) => agreed[m].op = agreed[n].op
  /\ \A n \in DOMAIN agreed, c \in Client, p \in Nat : Has(n, c, p) =>
       \A q \in 1 .. p - 1 : \E m \in 1 .. n - 1 : Has(m, c, q)

\* The configurations that the first n entries make.
MakersIn(log, n) == {m \in 1 .. n : MakesConfig(log, m)}
MadeIn(log, n) == Cardinality(MakersIn(log, n))
Made(n) == MadeIn(agreed, n)

\* The history is that of the log.
HistoryMade ==
  /\ Len(history) = 1 + Made(Len(agreed)) /\ history[1] = NoConfig
  /\ \A n \in DOMAIN agreed : MakesConfig(agreed, n) =>
       history[1 + Made(n)] = NewConfig(history[Made(n)], agreed[n].op.request)

\* k is a call of server s.
IsOn(k, s) == k \in Id /\ CallOf(k).server = s

\* A replica has the configurations, and the table of duplicates, of the entries it has
\* applied; its channels are those of its own handlers.
Serving(s) ==
  /\ applied[s] <= Len(agreed) /\ configs[s] = HistoryUpTo(applied[s])
  /\ \A c \in Client :
       lastApplied[s][c] = 0 \/ \E m \in 1 .. applied[s] : Has(m, c, lastApplied[s][c])
  /\ \A m \in 1 .. applied[s] : agreed[m].op.request.OpType # "Query" =>
       agreed[m].op.CommandId <= lastApplied[s][agreed[m].op.ClientId]
  /\ sending[s] # Nil =>
       /\ \E m \in 1 .. applied[s] : agreed[m].op = sending[s].op
       /\ IsOn(sending[s].ch, s)
  /\ \A n \in 1 .. MaxIndex : notifyChans[s][n] # Nil => IsOn(notifyChans[s][n], s)

\* A configuration that a Query of clerk c may return.
Fresh(c, config, num) ==
  \E n \in clerk[c].since .. Len(agreed) : config = Answer(HistoryUpTo(n), num)

\* A reply other than to ask elsewhere is to what has been agreed on.
Good(args, reply) ==
  ~reply.WrongLeader =>
    /\ AgreedOn(args)
    /\ args.request.OpType = "Query" /\ args.CommandId = clerk[args.ClientId].numOfOrders =>
         Fresh(args.ClientId, reply.Config, args.request.Num)

\* Where a handler h of a call is, and what it has on its channel.
Placed(h, call) ==
  /\ \A i \in DOMAIN h.box : \E m \in 1 .. applied[call.server] : agreed[m].op = h.box[i]
  /\ h.at = "waiting" => IsOn(h.ch, call.server)
  /\ h.at = "reading" =>
       /\ call.args.request.OpType = "Query"
       /\ \E m \in 1 .. applied[call.server] : agreed[m].op = call.args
  /\ h.at = "leaving" => Good(call.args, h.reply)
  /\ call.st \in Replied => Good(call.args, call.reply)

Handling(k) == CallOf(k).args.ClientId = k[1] /\ Placed(HandlerOf(k), CallOf(k))

Agreeing ==
  /\ \A c \in Client : Clerking(c)
  /\ AllIssued /\ LogInOrder /\ HistoryMade
  /\ \A s \in Server : Serving(s)
  /\ \A k \in Id : Handling(k)

(***************************************************************************)
(* What a step changes of calls and handlers.                              *)
(***************************************************************************)
\* One record of one clerk's changes.
LEMMA OneChanges ==
  ASSUME NEW S, NEW f \in [Client -> Seq(S)], NEW c \in Client, NEW n \in DOMAIN f[c],
         NEW r \in S, NEW g, g = [f EXCEPT ![c] = [f[c] EXCEPT ![n] = r]]
  PROVE  /\ g \in [Client -> Seq(S)] /\ g[c][n] = r
         /\ \A d \in Client : Len(g[d]) = Len(f[d]) /\ DOMAIN g[d] = DOMAIN f[d]
         /\ \A d \in Client : \A m \in DOMAIN f[d] : d # c \/ m # n => g[d][m] = f[d][m]
<1> DEFINE h == [f[c] EXCEPT ![n] = r]
<1>1. f[c] \in Seq(S) /\ n \in 1 .. Len(f[c]) /\ DOMAIN f[c] = 1 .. Len(f[c])
  OBVIOUS
<1>2. h \in Seq(S) /\ Len(h) = Len(f[c])
  BY <1>1, ExceptSeq
<1>3. /\ h[n] = r /\ DOMAIN h = DOMAIN f[c]
      /\ \A m \in DOMAIN f[c] : m # n => h[m] = f[c][m]
  BY <1>1
<1> HIDE DEF h
<1>4. g = [f EXCEPT ![c] = h]
  BY DEF h
<1> QED BY <1>2, <1>3, <1>4

\* An identifier is of its clerk and its number.
LEMMA IdIs ==
  ASSUME NEW k \in Id
  PROVE  k[1] \in Client /\ k[2] \in Nat /\ k[2] \in DOMAIN calls[k[1]] /\ k = <<k[1], k[2]>>
BY DEF Id

\* A call has the type of calls, and a handler that of handlers.
LEMMA RecordsAre ==
  ASSUME CallTypes, HandlerTypes, NEW k \in Id
  PROVE  CallOf(k) \in CallRecord /\ HandlerOf(k) \in Handler /\ k[2] \in DOMAIN handler[k[1]]
<1>1. k[1] \in Client /\ k[2] \in DOMAIN calls[k[1]]
  BY IdIs
<1>2. calls[k[1]] \in Seq(CallRecord) /\ handler[k[1]] \in Seq(Handler)
      /\ Len(handler[k[1]]) = Len(calls[k[1]])
  BY <1>1 DEF CallTypes, HandlerTypes
<1>3. DOMAIN handler[k[1]] = DOMAIN calls[k[1]]
  BY <1>2
<1> QED BY <1>1, <1>2, <1>3 DEF CallOf, HandlerOf

\* Call k is at st, with that reply, and the others are left alone.
CallMoves(k, st, reply) ==
  /\ Id' = Id /\ \A c \in Client : Len(calls'[c]) = Len(calls[c])
  /\ CallOf(k)'.server = CallOf(k).server /\ CallOf(k)'.args = CallOf(k).args
  /\ CallOf(k)'.st = st /\ CallOf(k)'.reply = reply
  /\ \A j \in Id : j # k => CallOf(j)' = CallOf(j)

\* A call goes on.
LEMMA ProgressGives ==
  ASSUME CallTypes, HandlerTypes, NEW k \in Id, NEW from, NEW to \in CallStates,
         NEW reply \in Reply \cup {Nil}, to \in Replied => reply \in Reply,
         Progress(k, from, to, reply)
  PROVE  CallTypes' /\ CallMoves(k, to, reply) /\ CallOf(k).st = from
<1>1. PICK c, n : c = k[1] /\ n = k[2] /\ k = <<c, n>>
  BY IdIs
<1>2. c \in Client /\ n \in DOMAIN calls[c] /\ calls \in [Client -> Seq(CallRecord)]
  BY <1>1, IdIs DEF CallTypes
<1>3. calls[c][n] \in CallRecord /\ CallOf(k) = calls[c][n]
  BY <1>1, RecordsAre DEF CallOf
<1> DEFINE q == [calls[c][n] EXCEPT !.st = to, !.reply = reply]
<1>4. /\ q \in CallRecord /\ q.server = calls[c][n].server /\ q.args = calls[c][n].args
      /\ q.st = to /\ q.reply = reply
  BY <1>3 DEF CallRecord
<1>5. calls' = [calls EXCEPT ![c] = [calls[c] EXCEPT ![n] = q]]
  <2>1. calls' = [calls EXCEPT ![c][n].st = to, ![c][n].reply = reply]
    BY <1>1 DEF Progress
  <2> QED BY <1>2, <2>1
<1> HIDE DEF q
<1>8. /\ calls' \in [Client -> Seq(CallRecord)] /\ calls'[c][n] = q
      /\ \A d \in Client : Len(calls'[d]) = Len(calls[d]) /\ DOMAIN calls'[d] = DOMAIN calls[d]
      /\ \A d \in Client : \A m \in DOMAIN calls[d] :
           d # c \/ m # n => calls'[d][m] = calls[d][m]
  <2>1. PICK f, g, r : f = calls /\ g = calls' /\ r = q
    OBVIOUS
  <2>2. /\ f \in [Client -> Seq(CallRecord)] /\ n \in DOMAIN f[c] /\ r \in CallRecord
        /\ g = [f EXCEPT ![c] = [f[c] EXCEPT ![n] = r]]
    BY <1>2, <1>4, <1>5, <2>1
  <2>3. /\ g \in [Client -> Seq(CallRecord)] /\ g[c][n] = r
        /\ \A d \in Client : Len(g[d]) = Len(f[d]) /\ DOMAIN g[d] = DOMAIN f[d]
        /\ \A d \in Client : \A m \in DOMAIN f[d] : d # c \/ m # n => g[d][m] = f[d][m]
    BY <1>2, <2>2, OneChanges
  <2> QED BY <2>1, <2>3
<1>9. Id' = Id
  BY <1>8 DEF Id
<1>10. /\ CallOf(k)' = q
       /\ \A j \in Id : j # k => CallOf(j)' = CallOf(j)
  <2>1. CallOf(k)' = q
    BY <1>1, <1>8 DEF CallOf
  <2>2. ASSUME NEW j \in Id, j # k PROVE CallOf(j)' = CallOf(j)
    <3>1. j[1] \in Client /\ j[2] \in DOMAIN calls[j[1]] /\ j = <<j[1], j[2]>>
      BY IdIs
    <3>2. j[1] # c \/ j[2] # n
      BY <1>1, <2>2, <3>1
    <3> QED BY <1>8, <3>1, <3>2 DEF CallOf
  <2> QED BY <2>1, <2>2
<1>11. UNCHANGED <<servers, shutdowns>> /\ CallOf(k).st = from
  BY DEF Progress
<1>12. \A j \in Id' : CallOf(j)'.st \in Replied => CallOf(j)'.reply \in Reply
  BY <1>4, <1>9, <1>10 DEF CallTypes
<1> QED BY <1>3, <1>4, <1>8, <1>9, <1>10, <1>11, <1>12 DEF CallTypes, CallMoves

\* Handler k becomes r, and the others are left alone.
HandlerMoves(k, r) ==
  /\ \A c \in Client : Len(handler'[c]) = Len(handler[c])
  /\ HandlerOf(k)' = r /\ \A j \in Id : j # k => HandlerOf(j)' = HandlerOf(j)

\* A handler goes on.
LEMMA HandlerGives ==
  ASSUME CallTypes, HandlerTypes, NEW c \in Client, NEW n, <<c, n>> \in Id,
         NEW r \in Handler, handler' = [handler EXCEPT ![c] = [handler[c] EXCEPT ![n] = r]],
         Id' = Id, \A d \in Client : Len(calls'[d]) = Len(calls[d]),
         r.at = "leaving" => r.reply \in Reply, r.at # "over" => r.index \in 1 .. MaxIndex
  PROVE  HandlerTypes' /\ HandlerMoves(<<c, n>>, r)
<1>1. PICK k : k = <<c, n>> /\ k \in Id /\ c = k[1] /\ n = k[2]
  OBVIOUS
<1>2. n \in DOMAIN handler[c]
  BY <1>1, RecordsAre
<1>4. /\ handler' \in [Client -> Seq(Handler)] /\ handler'[c][n] = r
      /\ \A d \in Client :
           Len(handler'[d]) = Len(handler[d]) /\ DOMAIN handler'[d] = DOMAIN handler[d]
      /\ \A d \in Client : \A m \in DOMAIN handler[d] :
           d # c \/ m # n => handler'[d][m] = handler[d][m]
  <2>1. PICK f, g : f = handler /\ g = handler'
    OBVIOUS
  <2>2. /\ f \in [Client -> Seq(Handler)] /\ n \in DOMAIN f[c]
        /\ g = [f EXCEPT ![c] = [f[c] EXCEPT ![n] = r]]
    BY <1>2, <2>1 DEF HandlerTypes
  <2>3. /\ g \in [Client -> Seq(Handler)] /\ g[c][n] = r
        /\ \A d \in Client : Len(g[d]) = Len(f[d]) /\ DOMAIN g[d] = DOMAIN f[d]
        /\ \A d \in Client : \A m \in DOMAIN f[d] : d # c \/ m # n => g[d][m] = f[d][m]
    BY <2>2, OneChanges
  <2> QED BY <2>1, <2>3
<1>5. HandlerOf(k)' = r /\ \A j \in Id : j # k => HandlerOf(j)' = HandlerOf(j)
  <2>1. HandlerOf(k)' = r
    BY <1>1, <1>4 DEF HandlerOf
  <2>2. ASSUME NEW j \in Id, j # k PROVE HandlerOf(j)' = HandlerOf(j)
    <3>1. j[1] \in Client /\ j[2] \in DOMAIN handler[j[1]] /\ j = <<j[1], j[2]>>
      BY IdIs, RecordsAre
    <3>2. j[1] # c \/ j[2] # n
      BY <1>1, <2>2, <3>1
    <3> QED BY <1>4, <3>1, <3>2 DEF HandlerOf
  <2> QED BY <2>1, <2>2
<1>6. \A j \in Id' : /\ HandlerOf(j)'.at = "leaving" => HandlerOf(j)'.reply \in Reply
                     /\ HandlerOf(j)'.at # "over" => HandlerOf(j)'.index \in 1 .. MaxIndex
  BY <1>5 DEF HandlerTypes
<1> QED BY <1>1, <1>4, <1>5, <1>6 DEF HandlerTypes, HandlerMoves

(***************************************************************************)
(* What a step leaves of the invariant.                                    *)
(***************************************************************************)
\* The log and the history as they were are prefixes of what they are.
Grows ==
  /\ DOMAIN agreed \subseteq DOMAIN agreed' /\ \A n \in DOMAIN agreed : agreed'[n] = agreed[n]
  /\ Len(agreed) \in Nat /\ DOMAIN agreed = 1 .. Len(agreed)
  /\ Len(agreed') \in Nat /\ Len(agreed) <= Len(agreed') /\ DOMAIN agreed' = 1 .. Len(agreed')
  /\ \A n \in 0 .. Len(agreed) : HistoryUpTo(n)' = HistoryUpTo(n)

\* A log that is left alone grows by nothing.
LEMMA SameLogGrows == ASSUME Types, UNCHANGED <<agreed, history>> PROVE Grows
<1>1. \A n : HistoryUpTo(n)' = HistoryUpTo(n)
  BY DEF HistoryUpTo, MakesConfig
<1> QED BY <1>1 DEF Types, LogTypes, Grows

\* What was agreed on stays so.
LEMMA AgreedKept == ASSUME Grows, NEW op, AgreedOn(op) PROVE AgreedOn(op)'
BY DEF Grows, AgreedOn

\* What is at an index of the log stays there.
LEMMA HasKept ==
  ASSUME Grows, NEW n \in DOMAIN agreed, NEW c, NEW p
  PROVE  Has(n, c, p)' <=> Has(n, c, p)
BY DEF Grows, Has

\* How a clerk's state may change while its requests stay issued: it goes on with its
\* request, makes one, or is done with one.
ClerkMoves(c) ==
  \/ /\ clerk'[c].numOfOrders = clerk[c].numOfOrders /\ clerk'[c].request = clerk[c].request
     /\ clerk'[c].since = clerk[c].since /\ Busy(c)' <=> Busy(c)
  \/ clerk'[c].numOfOrders = clerk[c].numOfOrders /\ ~Busy(c)
  \/ clerk'[c].numOfOrders = clerk[c].numOfOrders + 1 /\ Busy(c) /\ AgreedOn(OpOf(c))

\* An operation of a clerk's present number is the one it is busy with.
LEMMA IsOpOf ==
  ASSUME Types, NEW op \in Op, Issued(op),
         op.CommandId = clerk[op.ClientId].numOfOrders
  PROVE  Busy(op.ClientId) /\ op = OpOf(op.ClientId)
<1>1. op.ClientId \in Client /\ clerk[op.ClientId].numOfOrders \in Nat
  BY DEF Op, Types, ClerkTypes, Clerk
<1>2. Busy(op.ClientId) /\ op.request = clerk[op.ClientId].request
  BY <1>1 DEF Issued
<1>3. op = [ClientId |-> op.ClientId, CommandId |-> op.CommandId, request |-> op.request]
  BY DEF Op
<1> QED BY <1>2, <1>3 DEF OpOf

\* An operation stays issued.
LEMMA IssuedKept ==
  ASSUME Types, Grows, NEW op \in Op, Issued(op), ClerkMoves(op.ClientId),
         Clerking(op.ClientId)
  PROVE  Issued(op)'
<1> DEFINE c == op.ClientId
<1>1. c \in Client /\ clerk[c].numOfOrders \in Nat /\ clerk[c].numOfOrders >= 1
  BY DEF Op, Types, ClerkTypes, Clerk, Clerking
<1>2. AgreedOn(op) => AgreedOn(op)'
  BY AgreedKept
<1>3. CASE op.CommandId = clerk[c].numOfOrders
  <2>1. Busy(c) /\ op = OpOf(c)
    BY <1>3, IsOpOf
  <2>2. CASE /\ clerk'[c].numOfOrders = clerk[c].numOfOrders
             /\ clerk'[c].request = clerk[c].request /\ (Busy(c)' <=> Busy(c))
    BY <1>3, <2>1, <2>2 DEF Issued, OpOf
  <2>3. CASE clerk'[c].numOfOrders = clerk[c].numOfOrders + 1 /\ AgreedOn(OpOf(c))
    <3>1. AgreedOn(op)'
      BY <1>2, <2>1, <2>3
    <3>2. op.CommandId \in 1 .. clerk'[c].numOfOrders - 1
      BY <1>1, <1>3, <2>3
    <3> QED BY <3>1, <3>2 DEF Issued
  <2> QED BY <2>1, <2>2, <2>3 DEF ClerkMoves
<1>4. CASE op.CommandId # clerk[c].numOfOrders
  <2>1. op.CommandId \in 1 .. clerk[c].numOfOrders - 1 /\ AgreedOn(op)
    BY <1>4 DEF Issued
  <2>2. op.CommandId \in 1 .. clerk'[c].numOfOrders - 1
    BY <1>1, <2>1 DEF ClerkMoves
  <2> QED BY <1>2, <2>1, <2>2 DEF Issued
<1> QED BY <1>3, <1>4

\* The operations there are have their type.
LEMMA OpTypes ==
  ASSUME Types
  PROVE  /\ \A n \in DOMAIN agreed : agreed[n].op \in Op
         /\ \A s \in Server : \A n \in DOMAIN view[s] : view[s][n].op \in Op
         /\ \A p \in proposed : p.entry.op \in Op
         /\ \A k \in Id : CallOf(k).args \in Op
<1>1. \A e \in Entry : e.op \in Op
  BY DEF Entry
<1>2. \A n \in DOMAIN agreed : agreed[n] \in Entry
  BY DEF Types, LogTypes
<1>3. \A s \in Server : \A n \in DOMAIN view[s] : view[s][n] \in Entry
  <2> SUFFICES ASSUME NEW s \in Server PROVE \A n \in DOMAIN view[s] : view[s][n] \in Entry
    OBVIOUS
  <2>1. view[s] \in Seq(Entry)
    BY DEF Types, LogTypes
  <2> QED BY <2>1
<1>4. \A p \in proposed : p.entry \in Entry
  BY DEF Types, LogTypes
<1>5. \A k \in Id : CallOf(k).args \in Op
  <2>1. \A k \in Id : CallOf(k) \in CallRecord
    BY RecordsAre DEF Types
  <2> QED BY <2>1 DEF CallRecord
<1> QED BY <1>1, <1>2, <1>3, <1>4, <1>5

\* Operations stay issued if the clerks only move on.
LEMMA AllIssuedKept ==
  ASSUME Types, Grows, Agreeing, \A c \in Client : ClerkMoves(c)
  PROVE  \A op \in Op : Issued(op) => Issued(op)'
<1> SUFFICES ASSUME NEW op \in Op, Issued(op) PROVE Issued(op)'
  OBVIOUS
<1>1. op.ClientId \in Client
  BY DEF Op
<1>2. ClerkMoves(op.ClientId) /\ Clerking(op.ClientId)
  BY <1>1 DEF Agreeing
<1> QED BY <1>2, IssuedKept

\* A step that makes no operation that is not issued.
LEMMA AllIssuedStep ==
  ASSUME Types, Grows, Agreeing, \A c \in Client : ClerkMoves(c),
         \A op \in Op : IsCommand(op)' => IsCommand(op) \/ Issued(op)'
  PROVE  AllIssued'
<1>1. \A op \in Op : IsCommand(op) => Issued(op)'
  BY AllIssuedKept DEF Agreeing, AllIssued
<1>2. \A op \in Op : IsCommand(op)' => Issued(op)'
  BY <1>1
<1> QED BY <1>2 DEF AllIssued

\* What is known of a clerk stays true while it and its calls are left alone.
LEMMA ClerkingKept ==
  ASSUME Types, Grows, Agreeing, NEW c \in Client, clerk'[c] = clerk[c],
         Len(calls'[c]) = Len(calls[c]),
         clerk[c].st = "waiting" => calls'[c][Len(calls[c])].args = calls[c][Len(calls[c])].args
  PROVE  Clerking(c)'
<1>1. Clerking(c) /\ clerk[c].since \in Nat
  BY DEF Agreeing, Types, ClerkTypes, Clerk
<1>2. \A p : (\E n \in DOMAIN agreed : Has(n, c, p)) => (\E n \in DOMAIN agreed' : Has(n, c, p)')
  BY HasKept DEF Grows
<1>3. Busy(c) => /\ clerk[c].since <= Len(agreed')
                 /\ \A m \in 1 .. clerk[c].since : ~Has(m, c, clerk[c].numOfOrders)'
  <2> SUFFICES ASSUME Busy(c)
      PROVE  /\ clerk[c].since <= Len(agreed')
             /\ \A m \in 1 .. clerk[c].since : ~Has(m, c, clerk[c].numOfOrders)'
    OBVIOUS
  <2>1. clerk[c].since <= Len(agreed)
        /\ \A m \in 1 .. clerk[c].since : ~Has(m, c, clerk[c].numOfOrders)
    BY <1>1 DEF Clerking
  <2>2. clerk[c].since <= Len(agreed') /\ 1 .. clerk[c].since \subseteq DOMAIN agreed
    BY <1>1, <2>1 DEF Grows
  <2>3. \A m \in 1 .. clerk[c].since : agreed'[m] = agreed[m]
    BY <2>2 DEF Grows
  <2> QED BY <2>1, <2>2, <2>3 DEF Has
<1>4. (OpOf(c))' = OpOf(c) /\ (Busy(c)' <=> Busy(c))
  BY DEF OpOf, Busy
<1>5. clerk'[c].st = "waiting" =>
        Len(calls'[c]) >= 1 /\ calls'[c][Len(calls'[c])].args = (OpOf(c))'
  BY <1>1, <1>4 DEF Clerking
<1>6. \A p \in 1 .. clerk'[c].numOfOrders - 1 : \E n \in DOMAIN agreed' : Has(n, c, p)'
  BY <1>1, <1>2 DEF Clerking
<1> QED BY <1>1, <1>3, <1>4, <1>5, <1>6 DEF Clerking, Has

\* The order of the log is that of its requests.
LEMMA LogInOrderKept == ASSUME Agreeing, UNCHANGED agreed PROVE LogInOrder'
<1>1. LogInOrder
  BY DEF Agreeing
<1>2. \A n, c, p : Has(n, c, p)' <=> Has(n, c, p)
  BY DEF Has
<1>3. \A m, n \in DOMAIN agreed', c \in Client, p \in Nat :
        Has(m, c, p)' /\ Has(n, c, p)' => agreed'[m].op = agreed'[n].op
  BY <1>1, <1>2 DEF LogInOrder
<1>4. \A n \in DOMAIN agreed', c \in Client, p \in Nat : Has(n, c, p)' =>
       \A q \in 1 .. p - 1 : \E m \in 1 .. n - 1 : Has(m, c, q)'
  BY <1>1, <1>2 DEF LogInOrder
<1> QED BY <1>3, <1>4 DEF LogInOrder

\* The history that is left alone.
LEMMA HistoryMadeKept == ASSUME Agreeing, UNCHANGED <<agreed, history>> PROVE HistoryMade'
BY DEF Agreeing, HistoryMade, Made, MadeIn, MakersIn, MakesConfig

\* Calls keep their server and their operation.
CallsKept ==
  /\ Id \subseteq Id'
  /\ \A k \in Id : CallOf(k)'.server = CallOf(k).server /\ CallOf(k)'.args = CallOf(k).args

\* A server that is left alone, except that its channels and what it sends may be
\* forgotten, and others be registered.
LEMMA ServingKept ==
  ASSUME Types, Grows, Agreeing, CallsKept, NEW s \in Server,
         configs'[s] = configs[s], lastApplied'[s] = lastApplied[s], applied'[s] = applied[s],
         sending'[s] \in {Nil, sending[s]},
         \A n \in 1 .. MaxIndex : notifyChans'[s][n] # Nil =>
           notifyChans'[s][n] = notifyChans[s][n] \/ IsOn(notifyChans'[s][n], s)
  PROVE  Serving(s)'
<1>1. Serving(s) /\ applied[s] \in Nat /\ applied[s] \in 0 .. Len(agreed)
  BY DEF Agreeing, Types, ReplicaTypes, Serving, Grows
<1>2. 1 .. applied[s] \subseteq DOMAIN agreed
      /\ \A m \in 1 .. applied[s] : agreed'[m] = agreed[m]
  BY <1>1 DEF Grows
<1>3. \A m \in 1 .. applied[s] : \A c, p : Has(m, c, p)' <=> Has(m, c, p)
  BY <1>2 DEF Has
<1>4. applied'[s] <= Len(agreed') /\ configs'[s] = HistoryUpTo(applied[s])'
  BY <1>1 DEF Serving, Grows
<1>5. \A k : IsOn(k, s) => IsOn(k, s)'
  BY DEF IsOn, CallsKept
<1>6. configs'[s] = (HistoryUpTo(applied[s]))'
  <2>1. PICK n : n = applied[s]
    OBVIOUS
  <2>2. configs'[s] = HistoryUpTo(n)' /\ applied'[s] = n
    BY <1>4, <2>1
  <2> QED BY <2>1, <2>2 DEF HistoryUpTo
<1>7. \A c \in Client : lastApplied'[s][c] = 0
        \/ \E m \in 1 .. applied'[s] : Has(m, c, lastApplied[s][c])'
  BY <1>1, <1>3 DEF Serving
<1>8. \A m \in 1 .. applied'[s] : agreed'[m].op.request.OpType # "Query" =>
        agreed'[m].op.CommandId <= lastApplied'[s][agreed'[m].op.ClientId]
  BY <1>1, <1>2 DEF Serving
<1>9. sending'[s] # Nil => /\ \E m \in 1 .. applied'[s] : agreed'[m].op = sending'[s].op
                           /\ IsOn(sending[s].ch, s)' /\ sending'[s] = sending[s]
  BY <1>1, <1>2, <1>5 DEF Serving
<1>10. ASSUME NEW n \in 1 .. MaxIndex, notifyChans'[s][n] # Nil
       PROVE  IsOn(notifyChans[s][n], s)'
  <2>1. PICK k : k = notifyChans'[s][n]
    OBVIOUS
  <2>2. IsOn(k, s)
    BY <1>1, <1>10, <2>1 DEF Serving
  <2>3. IsOn(k, s)'
    BY <1>5, <2>2
  <2> QED BY <2>1, <2>3 DEF IsOn
<1> QED BY <1>4, <1>6, <1>7, <1>8, <1>9, <1>10 DEF Serving, Has, IsOn

\* What a clerk may still return it may return.
LEMMA FreshKept ==
  ASSUME Types, Grows, NEW c \in Client, clerk'[c].since = clerk[c].since,
         NEW config, NEW num, Fresh(c, config, num)
  PROVE  Fresh(c, config, num)'
<1>1. clerk[c].since \in Nat
  BY DEF Types, ClerkTypes, Clerk
<1>2. PICK n \in clerk[c].since .. Len(agreed) : config = Answer(HistoryUpTo(n), num)
  BY DEF Fresh
<1>3. HistoryUpTo(n)' = HistoryUpTo(n) /\ n \in clerk'[c].since .. Len(agreed')
  BY <1>1, <1>2 DEF Grows
<1>4. config = Answer(HistoryUpTo(n)', num)
  BY <1>2, <1>3
<1> QED BY <1>3, <1>4 DEF Fresh, Answer

\* A good reply stays good.
LEMMA GoodKept ==
  ASSUME Types, Grows, NEW args \in Op, Issued(args), ClerkMoves(args.ClientId), NEW reply,
         Good(args, reply)
  PROVE  Good(args, reply)'
<1> SUFFICES ASSUME ~reply.WrongLeader PROVE Good(args, reply)'
  BY DEF Good
<1> DEFINE c == args.ClientId
<1>1. c \in Client /\ clerk[c].numOfOrders \in Nat
  BY DEF Op, Types, ClerkTypes, Clerk
<1>2. AgreedOn(args) /\ AgreedOn(args)'
  BY AgreedKept DEF Good
<1>3. ASSUME args.request.OpType = "Query", args.CommandId = clerk'[c].numOfOrders
      PROVE  Fresh(c, reply.Config, args.request.Num)'
  <2>1. args.CommandId = clerk[c].numOfOrders /\ Busy(c)
    BY <1>1, <1>3, IsOpOf DEF ClerkMoves, Issued
  <2>2. clerk'[c].since = clerk[c].since
    BY <1>1, <1>3, <2>1 DEF ClerkMoves
  <2>3. Fresh(c, reply.Config, args.request.Num)
    BY <1>3, <2>1 DEF Good
  <2> QED BY <1>1, <2>2, <2>3, FreshKept
<1> QED BY <1>2, <1>3 DEF Good, Fresh, AgreedOn

\* What a call is for is issued.
LEMMA CallIssued ==
  ASSUME Types, Agreeing, NEW k \in Id
  PROVE  Issued(CallOf(k).args) /\ CallOf(k).args \in Op
<1>1. PICK op : op = CallOf(k).args
  OBVIOUS
<1>2. op \in Op /\ IsCommand(op)
  BY <1>1, OpTypes DEF IsCommand
<1>3. Issued(op)
  BY <1>2 DEF Agreeing, AllIssued
<1> QED BY <1>1, <1>2, <1>3

\* What is in the log is issued.
LEMMA EntryIssued ==
  ASSUME Types, Agreeing, NEW n \in DOMAIN agreed
  PROVE  Issued(agreed[n].op) /\ agreed[n].op \in Op
<1>1. PICK op : op = agreed[n].op
  OBVIOUS
<1>2. op \in Op /\ IsCommand(op)
  BY <1>1, OpTypes DEF IsCommand
<1>3. Issued(op)
  BY <1>2 DEF Agreeing, AllIssued
<1> QED BY <1>1, <1>2, <1>3

\* A handler that is left alone, and its call, unless that is over.
LEMMA HandlingKept ==
  ASSUME Types, Grows, Agreeing, CallsKept, NEW k \in Id, ClerkMoves(k[1]),
         HandlerOf(k)' = HandlerOf(k), CallOf(k)'.st \in Replied => CallOf(k)' = CallOf(k),
         applied'[CallOf(k).server] >= applied[CallOf(k).server],
         applied'[CallOf(k).server] \in Nat
  PROVE  Handling(k)'
<1>1. PICK h, call, new : h = HandlerOf(k) /\ call = CallOf(k) /\ new = CallOf(k)'
  OBVIOUS
<1>2. h = HandlerOf(k)' /\ call.args \in Op /\ Issued(call.args)
      /\ call.args.ClientId = k[1] /\ call.server \in Server
  BY <1>1, CallIssued, RecordsAre
     DEF Agreeing, Handling, Placed, Types, CallRecord, CallsKept
<1>3. PICK args, s : args = call.args /\ s = call.server
  OBVIOUS
<1>4. args \in Op /\ Issued(args) /\ s \in Server /\ args.ClientId = k[1]
  BY <1>2, <1>3
<1>5. applied[s] \in 0 .. Len(agreed) /\ applied'[s] \in Nat /\ applied'[s] >= applied[s]
  <2>1. applied'[s] \in Nat /\ applied'[s] >= applied[s]
    BY <1>1, <1>3
  <2>2. applied[s] \in Nat /\ applied[s] <= Len(agreed)
    BY <1>4 DEF Agreeing, Serving, Types, ReplicaTypes, LogTypes
  <2> QED BY <2>1, <2>2
<1>6. \A m \in 1 .. applied[s] : m \in 1 .. applied'[s] /\ agreed'[m] = agreed[m]
  BY <1>5 DEF Grows
<1>7. \A j : IsOn(j, s) => IsOn(j, s)'
  BY DEF IsOn, CallsKept
<1>8. \A reply : Good(args, reply) => Good(args, reply)'
  <2> SUFFICES ASSUME NEW reply, Good(args, reply) PROVE Good(args, reply)'
    OBVIOUS
  <2>1. ClerkMoves(args.ClientId)
    BY <1>4
  <2> QED BY <1>4, <2>1, GoodKept
<1>9. /\ \A i \in DOMAIN h.box : \E m \in 1 .. applied[s] : agreed[m].op = h.box[i]
      /\ h.at = "waiting" => IsOn(h.ch, s)
      /\ h.at = "reading" =>
           /\ args.request.OpType = "Query"
           /\ \E m \in 1 .. applied[s] : agreed[m].op = args
      /\ h.at = "leaving" => Good(args, h.reply)
      /\ call.st \in Replied => Good(args, call.reply)
  BY <1>1, <1>3 DEF Agreeing, Handling, Placed
<1>10. new.st \in Replied => new = call
  BY <1>1
<1>11. new.server = s /\ new.args = args
  BY <1>1, <1>3 DEF CallsKept
<1>12. new.st \in Replied => Good(args, new.reply)'
  BY <1>10, <1>8, <1>9
<1>13. /\ \A i \in DOMAIN h.box : \E m \in 1 .. applied'[s] : agreed'[m].op = h.box[i]
       /\ h.at = "waiting" => IsOn(h.ch, s)'
       /\ h.at = "reading" =>
            /\ args.request.OpType = "Query"
            /\ \E m \in 1 .. applied'[s] : agreed'[m].op = args
       /\ h.at = "leaving" => Good(args, h.reply)'
  BY <1>6, <1>7, <1>8, <1>9
<1>14. Placed(h, new)'
  BY <1>13, <1>11, <1>12 DEF Placed
<1>15. h = HandlerOf(k)' /\ new = CallOf(k)' /\ new.args.ClientId = k[1]
  BY <1>1, <1>2, <1>11, <1>4
<1> QED BY <1>14, <1>15 DEF Handling

\* Start appends the operation to the leader's log.
Starts(op) ==
  /\ \A s \in Server : \A n \in DOMAIN view'[s] :
       (n \in DOMAIN view[s] /\ view'[s][n] = view[s][n]) \/ view'[s][n].op = op
  /\ \A p \in proposed' : p \in proposed \/ p.entry.op = op

\* A leader takes an operation.
LEMMA StartGives ==
  ASSUME LogTypes, NEW s \in Server, NEW op \in Op, Start(s, op)
  PROVE  /\ LogTypes' /\ UNCHANGED agreed
         /\ NextIndex(s) \in 1 .. MaxIndex /\ Starts(op)
<1> USE DEF LogTypes
<1> DEFINE entry == [term |-> term[s], op |-> op]
<1>1. entry \in Entry /\ entry.op = op
  BY DEF Entry
<1>2. view[s] \in Seq(Entry) /\ NextIndex(s) \in Nat /\ NextIndex(s) >= 1
  BY DEF NextIndex
<1>3. /\ NextIndex(s) <= MaxIndex /\ UNCHANGED <<agreed, term, leading>>
      /\ view' = [view EXCEPT ![s] = Append(@, entry)]
      /\ proposed' = proposed \cup {[index |-> NextIndex(s), entry |-> entry]}
  BY DEF Start
<1> HIDE DEF entry
<1>4. /\ Append(view[s], entry) \in Seq(Entry)
      /\ \A n \in DOMAIN Append(view[s], entry) :
           \/ n \in DOMAIN view[s] /\ Append(view[s], entry)[n] = view[s][n]
           \/ Append(view[s], entry)[n] = entry
  BY <1>1, <1>2
<1>5. view'[s] = Append(view[s], entry) /\ \A t \in Server : t # s => view'[t] = view[t]
  BY <1>3
<1>10. \A t \in Server : Len(view'[t]) <= MaxIndex
  <2>1. Len(Append(view[s], entry)) = NextIndex(s)
    BY <1>1, <1>2 DEF NextIndex
  <2> QED BY <1>3, <1>5, <2>1
<1>6. view' \in [Server -> Seq(Entry)]
  BY <1>3, <1>4
<1>7. proposed' \subseteq [index : Nat, entry : Entry]
  BY <1>1, <1>2, <1>3
<1>8. \A p \in proposed' : p \in proposed \/ p.entry.op = op
  BY <1>1, <1>3
<1>9. Starts(op)
  BY <1>1, <1>4, <1>5, <1>8 DEF Starts
<1> QED BY <1>2, <1>3, <1>6, <1>7, <1>9, <1>10, AgreedLogAssumption

\* The last call of a clerk that has made one.
LEMMA LastCall ==
  ASSUME CallTypes, NEW c \in Client, Len(calls[c]) >= 1
  PROVE  Current(c) \in Id /\ CallOf(Current(c)) = calls[c][Len(calls[c])]
<1>1. calls[c] \in Seq(CallRecord) /\ Len(calls[c]) \in Nat
  BY DEF CallTypes
<1>2. Len(calls[c]) \in DOMAIN calls[c]
  BY <1>1
<1> QED BY <1>1, <1>2 DEF Current, Id, CallOf

\* What is known of a clerk stays true while it and the calls it made are left alone.
LEMMA ClerkStays ==
  ASSUME Types, Grows, Agreeing, CallsKept, NEW c \in Client, clerk'[c] = clerk[c],
         Len(calls'[c]) = Len(calls[c])
  PROVE  Clerking(c)'
<1>1. ASSUME clerk[c].st = "waiting"
      PROVE  calls'[c][Len(calls[c])].args = calls[c][Len(calls[c])].args
  <2>1. Len(calls[c]) >= 1
    BY <1>1 DEF Agreeing, Clerking
  <2>2. PICK n : n = Len(calls[c])
    OBVIOUS
  <2>3. <<c, n>> \in Id /\ CallOf(<<c, n>>) = calls[c][n]
    BY <2>1, <2>2, LastCall DEF Types, Current
  <2>4. CallOf(<<c, n>>)'.args = CallOf(<<c, n>>).args
    BY <2>3 DEF CallsKept
  <2> QED BY <2>2, <2>3, <2>4 DEF CallOf
<1> QED BY <1>1, ClerkingKept

\* A step that leaves the log, the history, the replicas and the clerks alone, and brings no
\* operation that was not there.
LEMMA StepKeeps ==
  ASSUME Types, Types', Agreeing, CallsKept, Id' = Id,
         UNCHANGED <<agreed, history, configs, lastApplied, applied, clerk>>,
         \A c \in Client : Len(calls'[c]) = Len(calls[c]),
         \A op \in Op : IsCommand(op)' => IsCommand(op),
         \A s \in Server : sending'[s] \in {Nil, sending[s]},
         \A s \in Server : \A n \in 1 .. MaxIndex : notifyChans'[s][n] # Nil =>
           notifyChans'[s][n] = notifyChans[s][n] \/ IsOn(notifyChans'[s][n], s),
         \A j \in Id : Handling(j)'
  PROVE  Agreeing'
<1>1. Grows /\ \A c \in Client : ClerkMoves(c)
  BY SameLogGrows DEF ClerkMoves, Busy
<1>2. \A c \in Client : Clerking(c)'
  BY <1>1, ClerkStays
<1>3. AllIssued'
  BY <1>1, AllIssuedStep
<1>4. LogInOrder' /\ HistoryMade'
  BY LogInOrderKept, HistoryMadeKept
<1>5. ASSUME NEW s \in Server PROVE Serving(s)'
  BY <1>1, ServingKept
<1> QED BY <1>2, <1>3, <1>4, <1>5 DEF Agreeing

\* A step of a handler.
LEMMA HandlerKeeps ==
  ASSUME Types, Types', Agreeing, CallsKept, Id' = Id, NEW k \in Id,
         UNCHANGED <<agreed, history, configs, lastApplied, applied, clerk>>,
         \A c \in Client : Len(calls'[c]) = Len(calls[c]),
         Starts(CallOf(k).args),
         \A s \in Server : sending'[s] \in {Nil, sending[s]},
         \A s \in Server : \A n \in 1 .. MaxIndex : notifyChans'[s][n] # Nil =>
           notifyChans'[s][n] = notifyChans[s][n] \/ IsOn(notifyChans'[s][n], s),
         \A j \in Id : Handling(j)'
  PROVE  Agreeing'
<1>1. ASSUME NEW op \in Op, IsCommand(op)' PROVE IsCommand(op)
  <2>1. CASE \E n \in DOMAIN agreed' : op = agreed'[n].op
    BY <2>1 DEF IsCommand
  <2>2. CASE \E s \in Server : \E n \in DOMAIN view'[s] : op = view'[s][n].op
    BY <2>2 DEF Starts, IsCommand
  <2>3. CASE \E p \in proposed' : op = p.entry.op
    BY <2>3 DEF Starts, IsCommand
  <2>4. CASE \E j \in Id' : op = CallOf(j)'.args
    BY <2>4 DEF CallsKept, IsCommand
  <2> QED BY <1>1, <2>1, <2>2, <2>3, <2>4 DEF IsCommand
<1> QED BY <1>1, StepKeeps

\* What a handler does to the calls it leaves alone.
LEMMA OthersKeep ==
  ASSUME Types, Types', Agreeing, CallsKept, NEW k \in Id,
         UNCHANGED <<agreed, history, applied, clerk>>,
         HandlerOf(k)' = HandlerOf(k), CallOf(k)' = CallOf(k)
  PROVE  Handling(k)'
<1>1. Grows /\ ClerkMoves(k[1]) /\ CallOf(k).server \in Server
  BY SameLogGrows, RecordsAre, IdIs DEF ClerkMoves, Busy, Types, CallRecord
<1>2. applied'[CallOf(k).server] >= applied[CallOf(k).server]
      /\ applied'[CallOf(k).server] \in Nat
  BY <1>1 DEF Types, ReplicaTypes
<1> QED BY <1>1, <1>2, HandlingKept

(***************************************************************************)
(* The steps of the handlers.                                              *)
(***************************************************************************)
\* A handler after its step, from what the step makes of it.
LEMMA PlacedAs ==
  ASSUME Types, Agreeing, CallsKept, NEW k \in Id,
         UNCHANGED <<agreed, history, applied, clerk>>,
         NEW h, NEW call, h = HandlerOf(k)', call = CallOf(k)', Placed(h, call)
  PROVE  Handling(k)'
<1>1. \A j, s : IsOn(j, s) => IsOn(j, s)'
  BY DEF IsOn, CallsKept
<1>2. \A args, reply : Good(args, reply) => Good(args, reply)'
  BY DEF Good, AgreedOn, Fresh, HistoryUpTo, MakesConfig
<1>3. Placed(h, call)'
  BY <1>1, <1>2 DEF Placed
<1>4. call.args.ClientId = k[1]
  BY DEF CallsKept, Agreeing, Handling
<1> QED BY <1>3, <1>4 DEF Handling, Placed

\* Replies are replies.
LEMMA Replies ==
  /\ WrongLeader \in Reply /\ WrongLeader.WrongLeader
  /\ \A config \in AnyConfig \cup {Nil} :
       OK(config) \in Reply /\ ~OK(config).WrongLeader /\ OK(config).Config = config
BY DEF OK, WrongLeader, Reply

\* Handlers that are left alone.
LEMMA HandlersStay ==
  ASSUME HandlerTypes, CallTypes, UNCHANGED handler, Id' = Id,
         \A c \in Client : Len(calls'[c]) = Len(calls[c])
  PROVE  HandlerTypes' /\ \A k \in Id : HandlerOf(k)' = HandlerOf(k)
BY DEF HandlerTypes, HandlerOf

\* What a step that leaves these alone leaves typed.
LEMMA ReplicaTypesKept ==
  ASSUME ReplicaTypes, UNCHANGED <<replicaVars, notifyChans, sending>> PROVE ReplicaTypes'
BY DEF ReplicaTypes, replicaVars

\* The same of the clerks and the history.
LEMMA ClerkTypesKept ==
  ASSUME ClerkTypes, HistoryTypes, UNCHANGED <<clerk, result, program, history>>
  PROVE  ClerkTypes' /\ HistoryTypes'
BY DEF ClerkTypes, HistoryTypes, Busy

\* The same of the log.
LEMMA LogTypesKept == ASSUME LogTypes, UNCHANGED logVars PROVE LogTypes'
BY DEF LogTypes, logVars

\* A call goes on, its handler does not.
LEMMA CallStepKeeps ==
  ASSUME Types, Agreeing, NEW k \in Id, NEW from, NEW to \in CallStates,
         NEW reply \in Reply \cup {Nil}, to \in Replied => reply \in Reply,
         Progress(k, from, to, reply),
         to \in Replied => Good(CallOf(k).args, reply),
         UNCHANGED <<logVars, replicaVars, notifyChans, sending, handler, clerk, result, program,
                     history>>
  PROVE  Types' /\ Agreeing'
<1>1. CallTypes' /\ CallMoves(k, to, reply)
  BY ProgressGives DEF Types
<1>2. CallsKept /\ Id' = Id /\ \A c \in Client : Len(calls'[c]) = Len(calls[c])
  BY <1>1 DEF CallMoves, CallsKept
<1>3. HandlerTypes' /\ \A j \in Id : HandlerOf(j)' = HandlerOf(j)
  BY <1>2, HandlersStay DEF Types
<1>4. Types'
  BY <1>1, <1>3, ReplicaTypesKept, ClerkTypesKept, LogTypesKept DEF Types
<1>5. UNCHANGED <<agreed, view, proposed, configs, lastApplied, applied>>
  BY DEF logVars, replicaVars
<1>6. ASSUME NEW j \in Id PROVE Handling(j)'
  <2>1. CASE j = k
    <3>1. PICK h, call : h = HandlerOf(k) /\ call = CallOf(k)'
      OBVIOUS
    <3>2. Placed(h, CallOf(k))
      BY <3>1 DEF Agreeing, Handling
    <3>3. Placed(h, call)
      BY <1>1, <3>1, <3>2 DEF Placed, CallMoves
    <3> QED BY <1>2, <1>3, <1>5, <2>1, <3>1, <3>3, PlacedAs
  <2>2. CASE j # k
    BY <1>1, <1>2, <1>3, <1>4, <1>5, <2>2, OthersKeep DEF CallMoves
  <2> QED BY <2>1, <2>2
<1>7. Starts(CallOf(k).args)
  BY <1>5 DEF Starts
<1> QED BY <1>2, <1>4, <1>5, <1>6, <1>7, HandlerKeeps

\* A server that does not lead refuses.
LEMMA NotLeaderKeeps ==
  ASSUME Types, Agreeing, NEW k \in Id, NotLeader(k)
  PROVE  Types' /\ Agreeing'
<1>1. Progress(k, "sent", "executed", WrongLeader)
  BY DEF NotLeader, Dispatched
<1>2. /\ WrongLeader \in Reply \cup {Nil} /\ WrongLeader \in Reply
      /\ "executed" \in CallStates /\ Good(CallOf(k).args, WrongLeader)
  BY Replies DEF CallStates, Good
<1>3. UNCHANGED <<logVars, replicaVars, notifyChans, sending, handler, clerk, result, program,
                  history>>
  BY DEF NotLeader
<1> QED BY <1>1, <1>2, <1>3, CallStepKeeps

\* A reply sets out.
LEMMA SendReplyKeeps ==
  ASSUME Types, Agreeing, NEW k \in Id, NetworkStep(k)
  PROVE  Types' /\ Agreeing'
<1>1. Progress(k, "executed", "answering", CallOf(k).reply)
  BY DEF NetworkStep, SendReply
<1>2. CallOf(k).st = "executed"
  BY <1>1 DEF Progress
<1>3. /\ CallOf(k).reply \in Reply /\ "answering" \in CallStates
      /\ Good(CallOf(k).args, CallOf(k).reply)
  BY <1>2 DEF CallStates, Types, CallTypes, Replied, Agreeing, Handling, Placed
<1>4. UNCHANGED <<logVars, replicaVars, notifyChans, sending, handler, clerk, result, program,
                  history>>
  BY DEF NetworkStep
<1> QED BY <1>1, <1>3, <1>4, CallStepKeeps

\* Calls that are left alone.
LEMMA CallsStay ==
  ASSUME CallTypes, UNCHANGED netVars
  PROVE  /\ CallTypes' /\ CallsKept /\ Id' = Id
         /\ \A c \in Client : Len(calls'[c]) = Len(calls[c])
         /\ \A k : CallOf(k)' = CallOf(k)
BY DEF CallTypes, netVars, CallsKept, Id, CallOf

\* A step of handler k that makes it r.
LEMMA HandlerMovesKeeps ==
  ASSUME Types, Agreeing, NEW k \in Id, NEW c \in Client, NEW n, k = <<c, n>>,
         NEW r \in Handler, handler' = [handler EXCEPT ![c] = [handler[c] EXCEPT ![n] = r]],
         r.at = "leaving" => r.reply \in Reply, r.at # "over" => r.index \in 1 .. MaxIndex,
         CallTypes', Id' = Id, CallsKept, \A d \in Client : Len(calls'[d]) = Len(calls[d]),
         \A j \in Id : j # k => CallOf(j)' = CallOf(j),
         LogTypes', Starts(CallOf(k).args),
         UNCHANGED <<agreed, replicaVars, sending, clerk, result, program, history>>,
         notifyChans' \in [Server -> [1 .. MaxIndex -> (Client \X Nat) \cup {Nil}]],
         \A s \in Server : \A m \in 1 .. MaxIndex : notifyChans'[s][m] # Nil =>
           notifyChans'[s][m] = notifyChans[s][m] \/ IsOn(notifyChans'[s][m], s),
         NEW call, call = CallOf(k)', Placed(r, call)
  PROVE  Types' /\ Agreeing'
<1>1. HandlerTypes' /\ HandlerMoves(k, r)
  BY HandlerGives DEF Types
<1>2. UNCHANGED <<configs, lastApplied, applied>>
  BY DEF replicaVars
<1>3. ReplicaTypes'
  BY <1>2 DEF Types, ReplicaTypes
<1>4. Types'
  BY <1>1, <1>3, ClerkTypesKept DEF Types
<1>5. ASSUME NEW j \in Id PROVE Handling(j)'
  <2>1. CASE j = k
    <3>1. r = HandlerOf(j)' /\ call = CallOf(j)'
      BY <1>1, <2>1 DEF HandlerMoves
    <3> QED BY <1>2, <3>1, PlacedAs
  <2>2. CASE j # k
    BY <1>1, <1>2, <1>4, <2>2, OthersKeep DEF HandlerMoves
  <2> QED BY <2>1, <2>2
<1> QED BY <1>2, <1>4, <1>5, HandlerKeeps

\* h is the handler of call k, number n of clerk c.
IsHandler(k, c, n, h) ==
  /\ k = <<c, n>> /\ k[1] = c /\ k[2] = n /\ n \in DOMAIN handler[c]
  /\ h = HandlerOf(k) /\ h = handler[c][n]

\* There is one of every call.
LEMMA HandlerIs == ASSUME Types, NEW k \in Id
                   PROVE  \E c \in Client, n \in Nat, h \in Handler : IsHandler(k, c, n, h)
<1>1. PICK c, n : k = <<c, n>> /\ k[1] = c /\ k[2] = n /\ c \in Client /\ n \in Nat
  BY IdIs
<1>2. n \in DOMAIN handler[c] /\ HandlerOf(k) \in Handler /\ HandlerOf(k) = handler[c][n]
  BY <1>1, RecordsAre DEF HandlerOf, Types
<1> QED BY <1>1, <1>2 DEF IsHandler

\* A handler hands the operation to Raft.
LEMMA StartOpKeeps ==
  ASSUME Types, Agreeing, NEW k \in Id, StartOp(k)
  PROVE  Types' /\ Agreeing'
<1>1. PICK c \in Client, n \in Nat, h \in Handler : IsHandler(k, c, n, h)
  BY HandlerIs
<1>3. /\ k = <<c, n>> /\ k[1] = c /\ k[2] = n /\ n \in DOMAIN handler[c]
      /\ h = HandlerOf(k) /\ h = handler[c][n]
  BY <1>1 DEF IsHandler
<1>4. PICK s, i : s = ServerOf(k) /\ i = NextIndex(s)
  OBVIOUS
<1>5. /\ UNCHANGED <<replicaVars, notifyChans, sending, clerk, result, program, history>>
      /\ Progress(k, "sent", "executing", Nil) /\ Start(s, CallOf(k).args)
      /\ handler' = [handler EXCEPT ![c][n].at = "started", ![c][n].index = i]
  BY <1>3, <1>4 DEF StartOp, Dispatch
<1>6. s \in Server /\ CallOf(k).args \in Op
  BY <1>4, RecordsAre DEF ServerOf, Types, CallRecord
<1>7. LogTypes' /\ UNCHANGED agreed /\ i \in 1 .. MaxIndex /\ Starts(CallOf(k).args)
  BY <1>4, <1>5, <1>6, StartGives DEF Types
<1>8. CallTypes' /\ CallMoves(k, "executing", Nil)
  BY <1>5, ProgressGives DEF CallStates, Replied, Types
<1>9. /\ CallsKept /\ Id' = Id /\ \A d \in Client : Len(calls'[d]) = Len(calls[d])
      /\ \A j \in Id : j # k => CallOf(j)' = CallOf(j)
  BY <1>8 DEF CallMoves, CallsKept
<1> DEFINE r == [h EXCEPT !.at = "started", !.index = i]
<1>10. r \in Handler /\ r.at = "started" /\ r.index = i /\ r.box = h.box
  <2>1. i \in Nat /\ "started" \in Places
    BY <1>7, AgreedLogAssumption DEF Places
  <2> QED BY <2>1 DEF Handler
<1>11. handler' = [handler EXCEPT ![c] = [handler[c] EXCEPT ![n] = r]]
  BY <1>3, <1>5 DEF Types, HandlerTypes
<1>12. PICK call : call = CallOf(k)'
  OBVIOUS
<1> HIDE DEF r
<1>13. Placed(r, call)
  <2>1. call.st = "executing" /\ call.server = CallOf(k).server
    BY <1>8, <1>12 DEF CallMoves
  <2>2. \A b \in DOMAIN r.box : \E m \in 1 .. applied[call.server] : agreed[m].op = r.box[b]
    BY <1>3, <1>10, <2>1 DEF Agreeing, Handling, Placed
  <2> QED BY <1>10, <2>1, <2>2 DEF Placed, Replied
<1>14. notifyChans' \in [Server -> [1 .. MaxIndex -> (Client \X Nat) \cup {Nil}]]
  BY <1>5 DEF Types, ReplicaTypes
<1> QED BY <1>3, <1>5, <1>7, <1>8, <1>9, <1>10, <1>11, <1>12, <1>13, <1>14, HandlerMovesKeeps

\* A handler registers its channel, or waits on the one there is.
LEMMA RegisterKeeps ==
  ASSUME Types, Agreeing, NEW k \in Id, Register(k)
  PROVE  Types' /\ Agreeing'
<1>1. PICK c \in Client, n \in Nat, h \in Handler : IsHandler(k, c, n, h)
  BY HandlerIs
<1>2. /\ k = <<c, n>> /\ k[1] = c /\ k[2] = n /\ n \in DOMAIN handler[c]
      /\ h = HandlerOf(k) /\ h = handler[c][n]
  BY <1>1 DEF IsHandler
<1>3. PICK s, i, ch : /\ s = ServerOf(k) /\ i = HandlerOf(k).index
                      /\ ch = IF notifyChans[s][i] = Nil THEN k ELSE notifyChans[s][i]
  OBVIOUS
<1>4. /\ UNCHANGED <<logVars, netVars, replicaVars, sending, clerk, result, program, history>>
      /\ HandlerOf(k).at = "started" /\ notifyChans' = [notifyChans EXCEPT ![s][i] = ch]
      /\ handler' = [handler EXCEPT ![c][n].at = "waiting", ![c][n].ch = ch]
  BY <1>2, <1>3 DEF Register, At
<1>5. s \in Server /\ i \in 1 .. MaxIndex /\ CallOf(k).server = s
  BY <1>3, <1>4, RecordsAre DEF ServerOf, Types, CallRecord, HandlerTypes
<1>6. IsOn(ch, s)
  BY <1>3, <1>5 DEF IsOn, Agreeing, Serving
<1>7. ch \in Client \X Nat
  BY <1>6 DEF IsOn, Id
<1> DEFINE r == [h EXCEPT !.at = "waiting", !.ch = ch]
<1>8. r \in Handler /\ r.at = "waiting" /\ r.index = h.index /\ r.box = h.box /\ r.ch = ch
  <2>1. "waiting" \in Places
    BY DEF Places
  <2> QED BY <1>7, <2>1 DEF Handler
<1>9. handler' = [handler EXCEPT ![c] = [handler[c] EXCEPT ![n] = r]]
  BY <1>2, <1>4 DEF Types, HandlerTypes
<1> HIDE DEF r
<1>10. /\ CallTypes' /\ CallsKept /\ Id' = Id
       /\ \A d \in Client : Len(calls'[d]) = Len(calls[d])
       /\ \A j : CallOf(j)' = CallOf(j)
  BY <1>4, CallsStay DEF Types
<1>11. PICK call : call = CallOf(k) /\ call = CallOf(k)'
  BY <1>10
<1>12. Placed(r, call)
  <2>1. Placed(h, call)
    BY <1>2, <1>11 DEF Agreeing, Handling
  <2>2. call.server = s
    BY <1>5, <1>11
  <2> QED BY <1>6, <1>8, <2>1, <2>2 DEF Placed
<1>13. /\ notifyChans' \in [Server -> [1 .. MaxIndex -> (Client \X Nat) \cup {Nil}]]
       /\ \A t \in Server : \A m \in 1 .. MaxIndex : notifyChans'[t][m] # Nil =>
            notifyChans'[t][m] = notifyChans[t][m] \/ IsOn(notifyChans'[t][m], t)
  BY <1>4, <1>5, <1>6, <1>7 DEF Types, ReplicaTypes
<1>14. LogTypes' /\ UNCHANGED agreed /\ Starts(CallOf(k).args)
  BY <1>4, LogTypesKept DEF Types, logVars, Starts
<1>15. /\ r.at = "leaving" => r.reply \in Reply
       /\ r.at # "over" => r.index \in 1 .. MaxIndex
  BY <1>2, <1>3, <1>5, <1>8
<1>16. UNCHANGED <<agreed, replicaVars, sending, clerk, result, program, history>>
  BY <1>4, <1>14
<1> QED BY <1>2, <1>8, <1>9, <1>10, <1>11, <1>12, <1>13, <1>14, <1>15, <1>16,
           HandlerMovesKeeps

\* A handler that is the only thing to change.
LEMMA OnlyHandlerKeeps ==
  ASSUME Types, Agreeing, NEW k \in Id, NEW c \in Client, NEW n, k = <<c, n>>,
         NEW r \in Handler, handler' = [handler EXCEPT ![c] = [handler[c] EXCEPT ![n] = r]],
         r.at = "leaving" => r.reply \in Reply, r.index \in 1 .. MaxIndex,
         Placed(r, CallOf(k)),
         UNCHANGED <<logVars, netVars, replicaVars, notifyChans, sending, clerk, result, program,
                     history>>
  PROVE  Types' /\ Agreeing'
<1>1. /\ CallTypes' /\ CallsKept /\ Id' = Id
      /\ \A d \in Client : Len(calls'[d]) = Len(calls[d])
      /\ \A j : CallOf(j)' = CallOf(j)
  BY CallsStay DEF Types
<1>2. PICK call : call = CallOf(k) /\ call = CallOf(k)'
  BY <1>1
<1>3. LogTypes' /\ UNCHANGED agreed /\ Starts(CallOf(k).args)
  BY LogTypesKept DEF Types, logVars, Starts
<1>4. /\ notifyChans' \in [Server -> [1 .. MaxIndex -> (Client \X Nat) \cup {Nil}]]
      /\ \A t \in Server : \A m \in 1 .. MaxIndex : notifyChans'[t][m] # Nil =>
           notifyChans'[t][m] = notifyChans[t][m] \/ IsOn(notifyChans'[t][m], t)
  BY DEF Types, ReplicaTypes
<1>5. /\ r.at # "over" => r.index \in 1 .. MaxIndex
      /\ UNCHANGED <<agreed, replicaVars, sending, clerk, result, program, history>>
      /\ Placed(r, call)
  BY <1>2, <1>3
<1>6. \A j \in Id : j # k => CallOf(j)' = CallOf(j)
  BY <1>1
<1> QED BY <1>1, <1>2, <1>3, <1>4, <1>5, <1>6, HandlerMovesKeeps

\* A handler that times out.
LEMMA TimesOutKeeps ==
  ASSUME Types, Agreeing, NEW k \in Id, TimesOut(k)
  PROVE  Types' /\ Agreeing'
<1>1. /\ HandlerOf(k).at = "waiting"
      /\ UNCHANGED <<logVars, netVars, replicaVars, notifyChans, sending, clerk, result, program,
                     history>>
  BY DEF TimesOut, At
<1>2. PICK c \in Client, n \in Nat, h \in Handler : IsHandler(k, c, n, h)
  BY HandlerIs
<1>3. /\ k = <<c, n>> /\ n \in DOMAIN handler[c] /\ h = HandlerOf(k) /\ h = handler[c][n]
      /\ handler' = [handler EXCEPT ![c][n].at = "leaving", ![c][n].reply = WrongLeader]
      /\ h.index \in 1 .. MaxIndex
  BY <1>1, <1>2 DEF TimesOut, IsHandler, Types, HandlerTypes
<1>4. PICK at, reply : at = "leaving" /\ reply = WrongLeader
  OBVIOUS
<1>5. at \in Places /\ reply \in Reply /\ Good(CallOf(k).args, reply)
  BY <1>4, Replies DEF Places, Good
<1> DEFINE r == [h EXCEPT !.at = at, !.reply = reply]
<1>6. /\ r \in Handler /\ r.at = at /\ r.index = h.index /\ r.box = h.box /\ r.reply = reply
  BY <1>5 DEF Handler
<1>7. handler' = [handler EXCEPT ![c] = [handler[c] EXCEPT ![n] = r]]
  BY <1>3, <1>4 DEF Types, HandlerTypes
<1> HIDE DEF r
<1>8. Placed(r, CallOf(k))
  <2>1. Placed(h, CallOf(k))
    BY <1>3 DEF Agreeing, Handling
  <2> QED BY <1>4, <1>5, <1>6, <2>1 DEF Placed
<1>9. r.at = "leaving" => r.reply \in Reply
  BY <1>5, <1>6
<1> QED BY <1>1, <1>3, <1>6, <1>7, <1>8, <1>9, OnlyHandlerKeeps

\* A request is one of those an administrator may make.
LEMMA RequestIs ==
  ASSUME NEW request \in Request
  PROVE  /\ request \in Requests \cup Queries /\ request # Nil
         /\ request.OpType = "Query" => request.Num \in Nat \cup {-1}
<1>1. PICK p \in Programs : \E c \in Client : request \in UNION Range(p[c])
  BY DEF Request
<1>2. PICK c \in Client : request \in UNION Range(p[c])
  BY <1>1
<1>3. p[c] \in Seq(SUBSET (Requests \cup Queries))
  BY ProgramsAssumption
<1>4. PICK n \in DOMAIN p[c] : request \in p[c][n]
  BY <1>2 DEF Range
<1>5. request \in Requests \cup Queries
  BY <1>3, <1>4
<1>6. request \in Requests => request.OpType # "Query"
  BY DEF Requests
<1>7. request \in Queries => request.Num \in Nat \cup {-1}
  BY DEF Queries
<1> QED BY <1>5, <1>6, <1>7, ProgramsAssumption

\* The last of a sequence that is not empty.
LEMMA LastIs == ASSUME NEW S, NEW cs \in Seq(S), cs # <<>>
                PROVE  Last(cs) = cs[Len(cs)] /\ Last(cs) \in S /\ Len(cs) \in Nat \ {0}
BY DEF Last

\* An answer is a configuration.
LEMMA AnswerIs ==
  ASSUME NEW S, NEW cs \in Seq(S), cs # <<>>, NEW num \in Nat \cup {-1}
  PROVE  Answer(cs, num) \in S
<1>1. Last(cs) \in S /\ Len(cs) \in Nat \ {0}
  BY LastIs
<1>2. CASE num = -1 \/ num >= Len(cs)
  BY <1>1, <1>2 DEF Answer
<1>3. CASE ~(num = -1 \/ num >= Len(cs))
  <2>1. num + 1 \in 1 .. Len(cs)
    BY <1>1, <1>3
  <2>2. cs[num + 1] \in S
    BY <2>1
  <2> QED BY <1>3, <2>2 DEF Answer
<1> QED BY <1>2, <1>3

\* What a server that has applied a Query answers, the Query's clerk may return.
LEMMA AnswersFresh ==
  ASSUME Types, Agreeing, NEW s \in Server, NEW m \in 1 .. applied[s], NEW op \in Op, Issued(op),
         agreed[m].op = op, op.CommandId = clerk[op.ClientId].numOfOrders, NEW num
  PROVE  Fresh(op.ClientId, Answer(configs[s], num), num)
<1>1. PICK c \in Client, n \in Nat : c = op.ClientId /\ n = applied[s]
  BY DEF Op, Types, ReplicaTypes
<1>2. clerk[c].since \in Nat /\ clerk[c].numOfOrders \in Nat /\ n \in Nat
  BY <1>1 DEF Types, ClerkTypes, Clerk, ReplicaTypes
<1>3. Busy(c)
  BY <1>1, IsOpOf
<1>4. \A i \in 1 .. clerk[c].since : ~Has(i, c, clerk[c].numOfOrders)
  BY <1>3 DEF Agreeing, Clerking
<1>5. Has(m, c, clerk[c].numOfOrders)
  BY <1>1 DEF Has
<1>6. ~(m <= clerk[c].since)
  BY <1>1, <1>2, <1>4, <1>5
<1>7. n <= Len(agreed) /\ Len(agreed) \in Nat /\ configs[s] = HistoryUpTo(n)
  BY <1>1 DEF Agreeing, Serving, Types, LogTypes
<1>8. n \in clerk[c].since .. Len(agreed)
  BY <1>1, <1>2, <1>6, <1>7
<1>9. Answer(configs[s], num) = Answer(HistoryUpTo(n), num)
  BY <1>7
<1> QED BY <1>1, <1>8, <1>9 DEF Fresh

\* Query reads the configurations.
LEMMA ReadKeeps ==
  ASSUME Types, Agreeing, NEW k \in Id, Read(k)
  PROVE  Types' /\ Agreeing'
<1>1. PICK c \in Client, n \in Nat, h \in Handler : IsHandler(k, c, n, h)
  BY HandlerIs
<1>2. PICK s, num : s = ServerOf(k) /\ num = CallOf(k).args.request.Num
  OBVIOUS
<1>3. PICK reply : reply = OK(Answer(configs[s], num))
  OBVIOUS
<1>4. PICK at : at = "leaving"
  OBVIOUS
<1>5. /\ k = <<c, n>> /\ k[1] = c /\ k[2] = n /\ n \in DOMAIN handler[c] /\ h = HandlerOf(k)
      /\ h = handler[c][n] /\ h.at = "reading" /\ h.index \in 1 .. MaxIndex
      /\ handler' = [handler EXCEPT ![c][n].at = at, ![c][n].reply = reply]
      /\ UNCHANGED <<logVars, netVars, replicaVars, notifyChans, sending, clerk, result, program,
                     history>>
  BY <1>1, <1>2, <1>3, <1>4 DEF Read, At, IsHandler, Types, HandlerTypes
<1>6. PICK call, args : call = CallOf(k) /\ args = call.args
  OBVIOUS
<1>7. /\ args \in Op /\ Issued(args) /\ s \in Server /\ call.server = s
  BY <1>2, <1>6, CallIssued, RecordsAre DEF Types, CallRecord, ServerOf
<1>8. /\ Placed(h, call) /\ args.request.OpType = "Query"
      /\ \E m \in 1 .. applied[s] : agreed[m].op = args
  BY <1>5, <1>6, <1>7 DEF Agreeing, Handling, Placed
<1>9. num = args.request.Num /\ num \in Nat \cup {-1}
  BY <1>2, <1>6, <1>7, <1>8, RequestIs DEF Op
<1>10. Answer(configs[s], num) \in AnyConfig
  BY <1>7, <1>9, AnswerIs DEF Types, ReplicaTypes
<1>11. reply \in Reply /\ reply.Config = Answer(configs[s], num)
  BY <1>3, <1>10, Replies
<1>12. Good(args, reply)
  <2>1. AgreedOn(args)
    <3>1. applied[s] \in Nat /\ applied[s] <= Len(agreed)
      BY <1>7 DEF Types, ReplicaTypes, Agreeing, Serving
    <3> QED BY <1>8, <3>1 DEF AgreedOn, Types, LogTypes
  <2>2. args.CommandId = clerk[args.ClientId].numOfOrders =>
          Fresh(args.ClientId, reply.Config, num)
    BY <1>7, <1>8, <1>11, AnswersFresh
  <2> QED BY <1>9, <2>1, <2>2 DEF Good
<1> DEFINE r == [h EXCEPT !.at = at, !.reply = reply]
<1>13. /\ r \in Handler /\ r.at = at /\ r.index = h.index /\ r.box = h.box /\ r.reply = reply
  BY <1>4, <1>11 DEF Handler, Places
<1>14. handler' = [handler EXCEPT ![c] = [handler[c] EXCEPT ![n] = r]]
  BY <1>5 DEF Types, HandlerTypes
<1> HIDE DEF r
<1>15. Placed(r, CallOf(k))
  BY <1>4, <1>6, <1>8, <1>12, <1>13 DEF Placed
<1>16. (r.at = "leaving" => r.reply \in Reply) /\ r.index \in 1 .. MaxIndex
  BY <1>5, <1>11, <1>13
<1> QED BY <1>5, <1>13, <1>14, <1>15, <1>16, OnlyHandlerKeeps

\* Operations of one clerk and one number are one.
LEMMA SameOp ==
  ASSUME Types, Agreeing, NEW op \in Op, Issued(op), NEW n \in DOMAIN agreed,
         Matches(agreed[n].op, op)
  PROVE  agreed[n].op = op
<1>1. PICK other : other = agreed[n].op
  OBVIOUS
<1>2. other \in Op /\ Issued(other) /\ other.ClientId = op.ClientId
      /\ other.CommandId = op.CommandId
  BY <1>1, EntryIssued DEF Matches
<1>3. CASE op.CommandId = clerk[op.ClientId].numOfOrders
  BY <1>1, <1>2, <1>3, IsOpOf
<1>4. CASE op.CommandId # clerk[op.ClientId].numOfOrders
  <2>1. PICK m \in DOMAIN agreed : agreed[m].op = op
    BY <1>4 DEF Issued, AgreedOn
  <2>2. Has(m, op.ClientId, op.CommandId) /\ Has(n, op.ClientId, op.CommandId)
    BY <1>1, <1>2, <2>1 DEF Has
  <2>3. op.ClientId \in Client /\ op.CommandId \in Nat
    BY DEF Op
  <2> QED BY <2>1, <2>2, <2>3 DEF Agreeing, LogInOrder
<1> QED BY <1>3, <1>4

\* A step that changes handlers only, or forgets what was being sent.
LEMMA HandlersMoveKeeps ==
  ASSUME Types, Agreeing, HandlerTypes',
         UNCHANGED <<logVars, netVars, replicaVars, notifyChans, clerk, result, program, history>>,
         sending' \in [Server -> [op : Op, ch : Client \X Nat] \cup {Nil}],
         \A s \in Server : sending'[s] \in {Nil, sending[s]},
         \A j \in Id : Placed(HandlerOf(j)', CallOf(j))
  PROVE  Types' /\ Agreeing'
<1>1. /\ CallTypes' /\ CallsKept /\ Id' = Id
      /\ \A d \in Client : Len(calls'[d]) = Len(calls[d])
      /\ \A j : CallOf(j)' = CallOf(j)
  BY CallsStay DEF Types
<1>2. UNCHANGED <<agreed, configs, lastApplied, applied, history, clerk>>
  BY DEF logVars, replicaVars
<1>3. LogTypes' /\ ReplicaTypes'
  BY <1>2, LogTypesKept DEF Types, ReplicaTypes
<1>4. Types'
  BY <1>1, <1>3, ClerkTypesKept DEF Types
<1>5. ASSUME NEW j \in Id PROVE Handling(j)'
  <2>1. PICK h, call : h = HandlerOf(j)' /\ call = CallOf(j)' /\ call = CallOf(j)
    BY <1>1
  <2>2. Placed(h, call)
    BY <2>1
  <2> QED BY <1>1, <1>2, <2>1, <2>2, PlacedAs
<1>6. \A op \in Op : IsCommand(op)' => IsCommand(op)
  BY <1>1 DEF IsCommand, logVars
<1>7. \A s \in Server : \A n \in 1 .. MaxIndex : notifyChans'[s][n] = notifyChans[s][n]
  OBVIOUS
<1> QED BY <1>1, <1>2, <1>4, <1>5, <1>6, <1>7, StepKeeps

\* A handler whose box alone changes, where it was.
BoxMoves(j, box) ==
  /\ HandlerOf(j)'.box = box /\ HandlerOf(j)'.at = HandlerOf(j).at
  /\ HandlerOf(j)'.reply = HandlerOf(j).reply /\ HandlerOf(j)'.index = HandlerOf(j).index
  /\ HandlerOf(j)'.ch = HandlerOf(j).ch

\* The same of the handlers.
LEMMA BoxGives ==
  ASSUME CallTypes, HandlerTypes, UNCHANGED calls, NEW k \in Id, NEW box \in Seq(Op),
         handler' = [handler EXCEPT ![k[1]][k[2]].box = box]
  PROVE  /\ HandlerTypes' /\ BoxMoves(k, box)
         /\ \A j \in Id : j # k => HandlerOf(j)' = HandlerOf(j)
<1>1. PICK c, n, h : /\ k = <<c, n>> /\ k[1] = c /\ k[2] = n /\ h = HandlerOf(k)
                     /\ h = handler[c][n]
  BY IdIs DEF HandlerOf
<1>2. c \in Client /\ n \in DOMAIN handler[c] /\ h \in Handler
  BY <1>1, IdIs, RecordsAre
<1> DEFINE r == [h EXCEPT !.box = box]
<1>3. /\ r \in Handler /\ r.box = box /\ r.at = h.at /\ r.reply = h.reply
      /\ r.index = h.index /\ r.ch = h.ch
  BY <1>2 DEF Handler
<1>4. handler' = [handler EXCEPT ![c] = [handler[c] EXCEPT ![n] = r]]
  BY <1>1, <1>2 DEF HandlerTypes
<1> HIDE DEF r
<1>5. /\ Id' = Id /\ \A d \in Client : Len(calls'[d]) = Len(calls[d])
      /\ r.at = "leaving" => r.reply \in Reply
      /\ r.at # "over" => r.index \in 1 .. MaxIndex
  BY <1>1, <1>3 DEF Id, HandlerTypes
<1>6. HandlerTypes' /\ HandlerMoves(k, r)
  <2>1. <<c, n>> \in Id /\ c \in Client /\ r \in Handler
        /\ handler' = [handler EXCEPT ![c] = [handler[c] EXCEPT ![n] = r]]
    BY <1>1, <1>2, <1>3, <1>4
  <2>2. HandlerTypes' /\ HandlerMoves(<<c, n>>, r)
    BY <1>5, <2>1, HandlerGives
  <2> QED BY <1>1, <2>2
<1> QED BY <1>1, <1>3, <1>6 DEF HandlerMoves, BoxMoves

\* The applier sends.
LEMMA SendKeeps ==
  ASSUME Types, Agreeing, NEW s \in Server, Send(s)
  PROVE  Types' /\ Agreeing'
<1>1. PICK ch, op : ch = sending[s].ch /\ op = sending[s].op
  OBVIOUS
<1>2. /\ sending[s] # Nil /\ sending' = [sending EXCEPT ![s] = Nil]
      /\ handler' = [handler EXCEPT ![ch[1]][ch[2]].box = <<op>>]
      /\ UNCHANGED <<logVars, netVars, replicaVars, notifyChans, clerk, result, program, history>>
  BY <1>1 DEF Send, Unlocked
<1>3. op \in Op /\ <<op>> \in Seq(Op)
  <2>1. sending[s] \in [op : Op, ch : Client \X Nat]
    BY <1>2 DEF Types, ReplicaTypes
  <2> QED BY <1>1, <2>1
<1>4. (\E m \in 1 .. applied[s] : agreed[m].op = op) /\ ch \in Id /\ CallOf(ch).server = s
  BY <1>1, <1>2 DEF Agreeing, Serving, IsOn
<1>5. /\ HandlerTypes' /\ BoxMoves(ch, <<op>>)
      /\ \A j \in Id : j # ch => HandlerOf(j)' = HandlerOf(j)
  BY <1>2, <1>3, <1>4, BoxGives DEF Types, netVars
<1>6. ASSUME NEW j \in Id PROVE Placed(HandlerOf(j)', CallOf(j))
  <2>1. Placed(HandlerOf(j), CallOf(j))
    BY DEF Agreeing, Handling
  <2>2. CASE j # ch
    BY <1>5, <2>1, <2>2
  <2>3. CASE j = ch
    <3>1. PICK h, g, call : h = HandlerOf(j) /\ g = HandlerOf(j)' /\ call = CallOf(j)
      OBVIOUS
    <3>2. /\ g.box = <<op>> /\ g.at = h.at /\ g.reply = h.reply /\ g.ch = h.ch
          /\ Placed(h, call) /\ call.server = s
      BY <1>4, <1>5, <2>1, <2>3, <3>1 DEF BoxMoves
    <3>3. \A i \in DOMAIN g.box : \E m \in 1 .. applied[call.server] : agreed[m].op = g.box[i]
      BY <1>4, <3>2
    <3>4. Placed(g, call)
      BY <3>2, <3>3 DEF Placed
    <3> QED BY <3>1, <3>4
  <2> QED BY <2>2, <2>3
<1>7. /\ sending' \in [Server -> [op : Op, ch : Client \X Nat] \cup {Nil}]
      /\ \A t \in Server : sending'[t] \in {Nil, sending[t]}
  BY <1>2 DEF Types, ReplicaTypes
<1> QED BY <1>2, <1>5, <1>6, <1>7, HandlersMoveKeeps

\* Handler k goes on to a place, with a reply, and what is first is taken out of the box of
\* handler j, which may be the same.
Takes(k, at, reply, j) ==
  \A i \in Id :
    /\ HandlerOf(i)'.index = HandlerOf(i).index /\ HandlerOf(i)'.ch = HandlerOf(i).ch
    /\ HandlerOf(i)'.at = IF i = k THEN at ELSE HandlerOf(i).at
    /\ HandlerOf(i)'.reply = IF i = k THEN reply ELSE HandlerOf(i).reply
    /\ HandlerOf(i)'.box = IF i = j THEN Tail(HandlerOf(i).box) ELSE HandlerOf(i).box

\* In the words of the step.
TakesFrom(k, at, reply, j) ==
  handler' = [[handler EXCEPT ![k[1]][k[2]].at = at, ![k[1]][k[2]].reply = reply]
                EXCEPT ![j[1]][j[2]].box = Tail(@)]

\* A handler goes on and takes what is in a box.
LEMMA TakesGives ==
  ASSUME CallTypes, HandlerTypes, UNCHANGED calls, NEW k \in Id, NEW j \in Id, NEW at \in Places,
         NEW reply \in Reply \cup {Nil}, HandlerOf(j).box # <<>>, HandlerOf(k).at # "over",
         at = "leaving" => reply \in Reply, TakesFrom(k, at, reply, j)
  PROVE  HandlerTypes' /\ Takes(k, at, reply, j)
<1>1. PICK c, n, d, m : /\ k = <<c, n>> /\ k[1] = c /\ k[2] = n
                        /\ j = <<d, m>> /\ j[1] = d /\ j[2] = m
  BY IdIs
<1>2. c \in Client /\ n \in DOMAIN handler[c] /\ d \in Client /\ m \in DOMAIN handler[d]
  BY <1>1, IdIs, RecordsAre
<1>3. PICK f, g : f = handler /\ g = handler'
  OBVIOUS
<1>4. f \in [Client -> Seq(Handler)] /\ n \in DOMAIN f[c] /\ m \in DOMAIN f[d]
  BY <1>2, <1>3 DEF HandlerTypes
<1>5. PICK l : l = [f EXCEPT ![c][n].at = at, ![c][n].reply = reply]
  OBVIOUS
<1>6. g = [l EXCEPT ![d][m].box = Tail(@)]
  BY <1>1, <1>3, <1>5 DEF TakesFrom
<1>7. PICK h : h = f[c][n] /\ h \in Handler
  BY <1>2, <1>4
<1>8. PICK r : r = [h EXCEPT !.at = at, !.reply = reply]
  OBVIOUS
<1>9. /\ r \in Handler /\ r.at = at /\ r.reply = reply /\ r.index = h.index /\ r.ch = h.ch
      /\ r.box = h.box
  BY <1>7, <1>8 DEF Handler
<1>10. l = [f EXCEPT ![c] = [f[c] EXCEPT ![n] = r]]
  BY <1>2, <1>4, <1>5, <1>7, <1>8
<1>11. /\ l \in [Client -> Seq(Handler)] /\ l[c][n] = r
       /\ \A e \in Client : Len(l[e]) = Len(f[e]) /\ DOMAIN l[e] = DOMAIN f[e]
       /\ \A e \in Client : \A i \in DOMAIN f[e] : e # c \/ i # n => l[e][i] = f[e][i]
  BY <1>2, <1>4, <1>9, <1>10, OneChanges
<1>12. m \in DOMAIN l[d]
  BY <1>2, <1>4, <1>11
<1>13. PICK b : b = l[d][m] /\ b \in Handler
  BY <1>2, <1>11, <1>12
<1>14. b.box = f[d][m].box /\ f[d][m].box # <<>>
  <2>1. f[d][m].box # <<>>
    BY <1>1, <1>3 DEF HandlerOf
  <2>2. CASE d = c /\ m = n
    BY <1>7, <1>9, <1>11, <1>13, <2>1, <2>2
  <2>3. CASE ~(d = c /\ m = n)
    BY <1>2, <1>4, <1>11, <1>13, <2>1, <2>3
  <2> QED BY <2>2, <2>3
<1>15. Tail(b.box) \in Seq(Op)
  BY <1>13, <1>14 DEF Handler
<1>16. PICK q : q = [b EXCEPT !.box = Tail(b.box)]
  OBVIOUS
<1>17. /\ q \in Handler /\ q.at = b.at /\ q.reply = b.reply /\ q.index = b.index /\ q.ch = b.ch
       /\ q.box = Tail(b.box)
  BY <1>13, <1>15, <1>16 DEF Handler
<1>18. g = [l EXCEPT ![d] = [l[d] EXCEPT ![m] = q]]
  BY <1>2, <1>6, <1>11, <1>12, <1>13, <1>16
<1>19. /\ g \in [Client -> Seq(Handler)] /\ g[d][m] = q
       /\ \A e \in Client : Len(g[e]) = Len(l[e]) /\ DOMAIN g[e] = DOMAIN l[e]
       /\ \A e \in Client : \A i \in DOMAIN l[e] : e # d \/ i # m => g[e][i] = l[e][i]
  BY <1>2, <1>11, <1>12, <1>17, <1>18, OneChanges
<1>20. ASSUME NEW i \in Id
       PROVE  /\ HandlerOf(i)'.index = HandlerOf(i).index /\ HandlerOf(i)'.ch = HandlerOf(i).ch
              /\ HandlerOf(i)'.at = IF i = k THEN at ELSE HandlerOf(i).at
              /\ HandlerOf(i)'.reply = IF i = k THEN reply ELSE HandlerOf(i).reply
              /\ HandlerOf(i)'.box = IF i = j THEN Tail(HandlerOf(i).box) ELSE HandlerOf(i).box
  <2>1. PICK e, o : i = <<e, o>> /\ i[1] = e /\ i[2] = o /\ e \in Client /\ o \in DOMAIN f[e]
    BY <1>3, IdIs, RecordsAre
  <2>2. PICK x, y, z : x = f[e][o] /\ y = l[e][o] /\ z = g[e][o]
    OBVIOUS
  <2>3. x = HandlerOf(i) /\ z = HandlerOf(i)'
    BY <1>3, <2>1, <2>2 DEF HandlerOf
  <2>4. (i = k <=> e = c /\ o = n) /\ (i = j <=> e = d /\ o = m)
    BY <1>1, <2>1
  <2>5. /\ y.index = x.index /\ y.ch = x.ch /\ y.box = x.box
        /\ i = k => y.at = at /\ y.reply = reply
        /\ i # k => y.at = x.at /\ y.reply = x.reply
    <3>1. CASE i = k
      <4>1. x = h /\ y = r
        BY <1>7, <1>11, <2>2, <2>4, <3>1
      <4> QED BY <1>9, <3>1, <4>1
    <3>2. CASE i # k
      <4>1. x = y
        BY <1>11, <2>1, <2>2, <2>4, <3>2
      <4> QED BY <3>2, <4>1
    <3> QED BY <3>1, <3>2
  <2>6. /\ z.index = y.index /\ z.ch = y.ch /\ z.at = y.at /\ z.reply = y.reply
        /\ i = j => z.box = Tail(y.box)
        /\ i # j => z.box = y.box
    <3>1. CASE i = j
      <4>1. y = b /\ z = q
        BY <1>13, <1>19, <2>2, <2>4, <3>1
      <4> QED BY <1>17, <3>1, <4>1
    <3>2. CASE i # j
      <4>1. z = y
        BY <1>11, <1>19, <2>1, <2>2, <2>4, <3>2
      <4> QED BY <3>2, <4>1
    <3> QED BY <3>1, <3>2
  <2>7. /\ z.index = x.index /\ z.ch = x.ch
        /\ z.at = IF i = k THEN at ELSE x.at
        /\ z.reply = IF i = k THEN reply ELSE x.reply
        /\ z.box = IF i = j THEN Tail(x.box) ELSE x.box
    BY <2>5, <2>6
  <2> QED BY <2>3, <2>7
<1>21. Takes(k, at, reply, j)
  BY <1>20 DEF Takes
<1>22. Id' = Id /\ \A e \in Client : Len(handler'[e]) = Len(calls'[e])
  BY <1>3, <1>11, <1>19 DEF Id, HandlerTypes
<1>23. \A i \in Id : /\ HandlerOf(i)'.at = "leaving" => HandlerOf(i)'.reply \in Reply
                     /\ HandlerOf(i)'.at # "over" => HandlerOf(i)'.index \in 1 .. MaxIndex
  BY <1>20 DEF HandlerTypes
<1> QED BY <1>3, <1>19, <1>21, <1>22, <1>23 DEF HandlerTypes

\* A handler hears of an operation that was applied at its index.
LEMMA NotifiedKeeps ==
  ASSUME Types, Agreeing, NEW k \in Id, Notified(k)
  PROVE  Types' /\ Agreeing'
<1>1. PICK ch, args, op : /\ ch = HandlerOf(k).ch /\ args = CallOf(k).args
                          /\ op = Head(HandlerOf(ch).box)
  OBVIOUS
<1>2. PICK at, reply :
        /\ at = IF Matches(op, args) /\ args.request.OpType = "Query" THEN "reading" ELSE "leaving"
        /\ reply = IF Matches(op, args) THEN OK(Nil) ELSE WrongLeader
  OBVIOUS
<1>3. /\ HandlerOf(k).at = "waiting" /\ HandlerOf(ch).box # <<>> /\ TakesFrom(k, at, reply, ch)
      /\ UNCHANGED <<logVars, netVars, replicaVars, notifyChans, sending, clerk, result, program,
                     history>>
  BY <1>1, <1>2 DEF Notified, At, TakesFrom
<1>4. PICK s : s = CallOf(k).server
  OBVIOUS
<1>5. args \in Op /\ Issued(args) /\ s \in Server
  BY <1>1, <1>4, CallIssued, RecordsAre DEF Types, CallRecord
<1>6. ch \in Id /\ CallOf(ch).server = s
  BY <1>1, <1>3, <1>4 DEF Agreeing, Handling, Placed, IsOn
<1>7. \E m \in 1 .. applied[s] : agreed[m].op = op
  <2>1. PICK box : box = HandlerOf(ch).box /\ box \in Seq(Op) /\ box # <<>>
    BY <1>3, <1>6, RecordsAre DEF Types, Handler
  <2>2. 1 \in DOMAIN box /\ op = box[1]
    BY <1>1, <2>1
  <2>3. \A i \in DOMAIN box : \E m \in 1 .. applied[s] : agreed[m].op = box[i]
    BY <1>6, <2>1 DEF Agreeing, Handling, Placed
  <2> QED BY <2>2, <2>3
<1>8. Matches(op, args) =>
        /\ AgreedOn(args) /\ \E m \in 1 .. applied[s] : agreed[m].op = args
  <2>1. PICK m \in 1 .. applied[s] : agreed[m].op = op
    BY <1>7
  <2>2. applied[s] \in Nat /\ applied[s] <= Len(agreed)
    BY <1>5 DEF Types, ReplicaTypes, Agreeing, Serving
  <2>3. m \in DOMAIN agreed
    BY <2>2 DEF Types, LogTypes
  <2> QED BY <1>5, <2>1, <2>3, SameOp DEF AgreedOn
<1>9. reply \in Reply /\ at \in Places
  BY <1>2, Replies DEF Places
<1>10. HandlerTypes' /\ Takes(k, at, reply, ch)
  BY <1>3, <1>6, <1>9, TakesGives DEF Types, netVars
<1>11. /\ at = "leaving" => Good(args, reply)
       /\ at = "reading" => /\ args.request.OpType = "Query"
                            /\ \E m \in 1 .. applied[s] : agreed[m].op = args
       /\ at # "waiting"
  <2>1. CASE Matches(op, args)
    BY <1>2, <1>8, <2>1 DEF Good
  <2>2. CASE ~Matches(op, args)
    BY <1>2, <2>2, Replies DEF Good
  <2> QED BY <2>1, <2>2
<1>12. ASSUME NEW j \in Id PROVE Placed(HandlerOf(j)', CallOf(j))
  <2>1. PICK h, g, call : h = HandlerOf(j) /\ g = HandlerOf(j)' /\ call = CallOf(j)
    OBVIOUS
  <2>2. /\ h.box \in Seq(Op) /\ Placed(h, call)
        /\ g.ch = h.ch
        /\ g.at = IF j = k THEN at ELSE h.at
        /\ g.reply = IF j = k THEN reply ELSE h.reply
        /\ g.box = IF j = ch THEN Tail(h.box) ELSE h.box
        /\ j = ch => h.box # <<>>
    BY <1>3, <1>10, <2>1, RecordsAre DEF Takes, Agreeing, Handling, Types, Handler
  <2>3. \A i \in DOMAIN g.box : \E m \in 1 .. applied[call.server] : agreed[m].op = g.box[i]
    <3>1. \A i \in DOMAIN h.box : \E m \in 1 .. applied[call.server] : agreed[m].op = h.box[i]
      BY <2>2 DEF Placed
    <3>2. CASE j = ch
      <4>1. \A i \in DOMAIN Tail(h.box) : i + 1 \in DOMAIN h.box /\ Tail(h.box)[i] = h.box[i + 1]
        BY <2>2, <3>2
      <4> QED BY <2>2, <3>1, <3>2, <4>1
    <3>3. CASE j # ch
      BY <2>2, <3>1, <3>3
    <3> QED BY <3>2, <3>3
  <2>4. Placed(g, call)
    <3>1. CASE j = k
      <4>1. call.server = s /\ call.args = args /\ g.at = at /\ g.reply = reply
        BY <1>1, <1>4, <2>1, <2>2, <3>1
      <4> QED BY <1>11, <2>2, <2>3, <4>1 DEF Placed
    <3>2. CASE j # k
      BY <2>2, <2>3, <3>2 DEF Placed
    <3> QED BY <3>1, <3>2
  <2> QED BY <2>1, <2>4
<1>13. /\ sending' \in [Server -> [op : Op, ch : Client \X Nat] \cup {Nil}]
       /\ \A t \in Server : sending'[t] \in {Nil, sending[t]}
  BY <1>3 DEF Types, ReplicaTypes
<1> QED BY <1>3, <1>10, <1>12, <1>13, HandlersMoveKeeps

\* A handler returns.
LEMMA LeaveKeeps ==
  ASSUME Types, Agreeing, NEW k \in Id, Leave(k)
  PROVE  Types' /\ Agreeing'
<1>1. PICK c \in Client, n \in Nat, h \in Handler : IsHandler(k, c, n, h)
  BY HandlerIs
<1>2. /\ k = <<c, n>> /\ k[1] = c /\ k[2] = n /\ n \in DOMAIN handler[c]
      /\ h = HandlerOf(k) /\ h = handler[c][n]
  BY <1>1 DEF IsHandler
<1>3. PICK s, i : s = ServerOf(k) /\ i = h.index
  OBVIOUS
<1>4. PICK r : r = [NewHandler EXCEPT !.box = h.box]
  OBVIOUS
<1>5. /\ h.at = "leaving" /\ notifyChans' = [notifyChans EXCEPT ![s][i] = Nil]
      /\ handler' = [handler EXCEPT ![c][n] = r]
      /\ Finish(k, h.reply) \/ UNCHANGED netVars
      /\ UNCHANGED <<logVars, replicaVars, sending, clerk, result, program, history>>
  BY <1>2, <1>3, <1>4 DEF Leave, At
<1>6. r \in Handler /\ r.at = "over" /\ r.box = h.box
  BY <1>4 DEF NewHandler, Handler, Places
<1>7. handler' = [handler EXCEPT ![c] = [handler[c] EXCEPT ![n] = r]]
  BY <1>2, <1>5 DEF Types, HandlerTypes
<1>8. h.reply \in Reply /\ Good(CallOf(k).args, h.reply) /\ Placed(h, CallOf(k))
  <2>1. HandlerOf(k).reply \in Reply
    BY <1>2, <1>5 DEF Types, HandlerTypes
  <2>2. Placed(h, CallOf(k))
    BY <1>2 DEF Agreeing, Handling
  <2> QED BY <1>2, <1>5, <2>1, <2>2 DEF Placed
<1>9. /\ CallTypes' /\ CallsKept /\ Id' = Id
      /\ \A d \in Client : Len(calls'[d]) = Len(calls[d])
      /\ \A j \in Id : j # k => CallOf(j)' = CallOf(j)
      /\ \/ CallOf(k)' = CallOf(k)
         \/ /\ CallOf(k)'.server = CallOf(k).server /\ CallOf(k)'.args = CallOf(k).args
            /\ CallOf(k)'.reply = h.reply
  <2>1. CASE UNCHANGED netVars
    BY <2>1, CallsStay DEF Types
  <2>2. CASE Finish(k, h.reply)
    <3>1. PICK reply : reply = h.reply
      OBVIOUS
    <3>2. Progress(k, "executing", "executed", reply) /\ reply \in Reply \cup {Nil}
      BY <1>8, <2>2, <3>1 DEF Finish
    <3>3. CallTypes' /\ CallMoves(k, "executed", reply)
      BY <1>8, <3>1, <3>2, ProgressGives DEF CallStates, Types
    <3> QED BY <3>1, <3>3 DEF CallMoves, CallsKept
  <2> QED BY <1>5, <2>1, <2>2
<1>10. PICK call, old : call = CallOf(k)' /\ old = CallOf(k)
  OBVIOUS
<1>11. Placed(r, call)
  <2>1. Placed(h, old) /\ Good(old.args, h.reply) /\ r.at = "over" /\ r.box = h.box
    BY <1>6, <1>8, <1>10
  <2>2. \/ call = old
        \/ call.server = old.server /\ call.args = old.args /\ call.reply = h.reply
    BY <1>9, <1>10
  <2> QED BY <2>1, <2>2 DEF Placed
<1>12. s \in Server
  BY <1>3, RecordsAre DEF ServerOf, Types, CallRecord
<1>13. /\ notifyChans' \in [Server -> [1 .. MaxIndex -> (Client \X Nat) \cup {Nil}]]
       /\ \A t \in Server : \A m \in 1 .. MaxIndex : notifyChans'[t][m] # Nil =>
            notifyChans'[t][m] = notifyChans[t][m] \/ IsOn(notifyChans'[t][m], t)
  BY <1>5, <1>12 DEF Types, ReplicaTypes
<1>14. LogTypes' /\ UNCHANGED agreed /\ Starts(CallOf(k).args)
  BY <1>5, LogTypesKept DEF Types, logVars, Starts
<1>15. /\ r.at = "leaving" => r.reply \in Reply
       /\ r.at # "over" => r.index \in 1 .. MaxIndex
       /\ UNCHANGED <<agreed, replicaVars, sending, clerk, result, program, history>>
  BY <1>5, <1>6, <1>14
<1> QED BY <1>2, <1>6, <1>7, <1>9, <1>10, <1>11, <1>13, <1>14, <1>15, HandlerMovesKeeps

(***************************************************************************)
(* The configurations that the log makes.                                  *)
(***************************************************************************)
\* They are as many as natural numbers go.
LEMMA MadeInIsNat ==
  ASSUME NEW log, NEW n \in Nat
  PROVE  IsFiniteSet(MakersIn(log, n)) /\ MadeIn(log, n) \in Nat
<1>1. IsFiniteSet(1 .. n)
  BY FS_Interval
<1>2. MakersIn(log, n) \subseteq 1 .. n
  BY DEF MakersIn
<1>3. IsFiniteSet(MakersIn(log, n))
  BY <1>1, <1>2, FS_Subset
<1>4. Cardinality(MakersIn(log, n)) \in Nat
  BY <1>3, FS_CardinalityType
<1> QED BY <1>3, <1>4 DEF MadeIn

\* None is made of no entries.
LEMMA MadeOfNone == ASSUME NEW log PROVE MadeIn(log, 0) = 0
<1>1. MakersIn(log, 0) = {}
  BY DEF MakersIn
<1> QED BY <1>1, FS_EmptySet DEF MadeIn

\* An entry makes one, or none.
LEMMA MadeInNext ==
  ASSUME NEW log, NEW n \in Nat
  PROVE  MadeIn(log, n + 1) =
           IF MakesConfig(log, n + 1) THEN MadeIn(log, n) + 1 ELSE MadeIn(log, n)
<1>1. IsFiniteSet(MakersIn(log, n)) /\ n + 1 \notin MakersIn(log, n)
  BY MadeInIsNat DEF MakersIn
<1>2. CASE MakesConfig(log, n + 1)
  <2>1. MakersIn(log, n + 1) = MakersIn(log, n) \cup {n + 1}
    BY <1>2 DEF MakersIn
  <2>2. Cardinality(MakersIn(log, n) \cup {n + 1}) = Cardinality(MakersIn(log, n)) + 1
    BY <1>1, FS_AddElement
  <2> QED BY <1>2, <2>1, <2>2 DEF MadeIn
<1>3. CASE ~MakesConfig(log, n + 1)
  <2>1. MakersIn(log, n + 1) = MakersIn(log, n)
    BY <1>3 DEF MakersIn
  <2> QED BY <1>3, <2>1 DEF MadeIn
<1> QED BY <1>2, <1>3

\* A log that agrees with another as far as n makes as many of it.
LEMMA MadeInPrefix ==
  ASSUME NEW log, NEW other, NEW n \in Nat, \A m \in 1 .. n : log[m] = other[m]
  PROVE  /\ MadeIn(log, n) = MadeIn(other, n)
         /\ \A m \in 1 .. n : MakesConfig(log, m) <=> MakesConfig(other, m)
<1>1. ASSUME NEW m \in 1 .. n PROVE MakesConfig(log, m) <=> MakesConfig(other, m)
  <2>1. log[m] = other[m] /\ \A i \in 1 .. m - 1 : log[i] = other[i]
    OBVIOUS
  <2> QED BY <2>1 DEF MakesConfig
<1>2. MakersIn(log, n) = MakersIn(other, n)
  BY <1>1 DEF MakersIn
<1> QED BY <1>1, <1>2 DEF MadeIn

\* Of the agreed log: numbers.
LEMMA MadeIsNat == ASSUME NEW n \in Nat PROVE Made(n) \in Nat
BY MadeInIsNat DEF Made

\* The same: one entry more.
LEMMA MadeNext ==
  ASSUME NEW n \in Nat
  PROVE  Made(n + 1) = IF MakesConfig(agreed, n + 1) THEN Made(n) + 1 ELSE Made(n)
BY MadeInNext DEF Made

\* More entries make no fewer.
LEMMA MadeGrows ==
  ASSUME NEW m \in Nat, NEW n \in Nat, m <= n
  PROVE  Made(m) <= Made(n)
<1>1. IsFiniteSet(MakersIn(agreed, n)) /\ MakersIn(agreed, m) \subseteq MakersIn(agreed, n)
  BY MadeInIsNat DEF MakersIn
<1> QED BY <1>1, FS_Subset DEF Made, MadeIn

\* A longer prefix is a shorter one and what follows it.
LEMMA PrefixNext ==
  ASSUME NEW S, NEW q \in Seq(S), NEW M \in 1 .. Len(q) - 1
  PROVE  /\ SubSeq(q, 1, M + 1) = Append(SubSeq(q, 1, M), q[M + 1])
         /\ SubSeq(q, 1, M) \in Seq(S) /\ Len(SubSeq(q, 1, M)) = M
         /\ Last(SubSeq(q, 1, M)) = q[M]
<1>1. /\ M \in Nat /\ M + 1 \in 1 .. Len(q) /\ M \in 1 .. Len(q)
      /\ \A i \in 1 .. M + 1 : i \in 1 .. Len(q) /\ q[i] \in S
  OBVIOUS
<1>2. PICK p : p = SubSeq(q, 1, M)
  OBVIOUS
<1>3. p \in Seq(S) /\ Len(p) = M /\ \A i \in 1 .. M : p[i] = q[i]
  BY <1>1, <1>2
<1>4. PICK r : r = SubSeq(q, 1, M + 1)
  OBVIOUS
<1>5. r \in Seq(S) /\ Len(r) = M + 1 /\ \A i \in 1 .. M + 1 : r[i] = q[i]
  BY <1>1, <1>4
<1>6. r = Append(p, q[M + 1])
  <2>1. PICK a : a = Append(p, q[M + 1])
    OBVIOUS
  <2>2. a \in Seq(S) /\ Len(a) = M + 1 /\ \A i \in 1 .. M + 1 : a[i] = q[i]
    BY <1>1, <1>3, <2>1
  <2> QED BY <1>5, <2>1, <2>2, SeqEqual
<1>7. Last(p) = q[M]
  BY <1>1, <1>3 DEF Last
<1> QED BY <1>2, <1>3, <1>4, <1>6, <1>7

\* The history of one entry more.
LEMMA HistoryNext ==
  ASSUME Types, HistoryMade, NEW n \in Nat, n < Len(agreed)
  PROVE  HistoryUpTo(n + 1) =
           IF MakesConfig(agreed, n + 1)
             THEN Append(HistoryUpTo(n), NewConfig(Last(HistoryUpTo(n)), agreed[n + 1].op.request))
             ELSE HistoryUpTo(n)
<1>1. /\ HistoryUpTo(n) = SubSeq(history, 1, 1 + Made(n))
      /\ HistoryUpTo(n + 1) = SubSeq(history, 1, 1 + Made(n + 1))
  BY DEF HistoryUpTo, Made, MadeIn, MakersIn
<1>2. CASE ~MakesConfig(agreed, n + 1)
  BY <1>1, <1>2, MadeNext
<1>3. CASE MakesConfig(agreed, n + 1)
  <2>1. PICK M : M = 1 + Made(n)
    OBVIOUS
  <2>2. Made(n) \in Nat /\ Made(n + 1) = Made(n) + 1
    BY <1>3, MadeNext, MadeIsNat
  <2>3. n + 1 \in DOMAIN agreed /\ Len(agreed) \in Nat /\ n + 1 <= Len(agreed)
    BY DEF Types, LogTypes
  <2>4. Made(n + 1) <= Made(Len(agreed)) /\ Made(Len(agreed)) \in Nat
    BY <2>3, MadeGrows, MadeIsNat
  <2>5. M \in 1 .. Len(history) - 1
    BY <2>1, <2>2, <2>4 DEF HistoryMade
  <2>6. history[M + 1] = NewConfig(history[M], agreed[n + 1].op.request)
    <3>1. history[1 + Made(n + 1)] = NewConfig(history[Made(n + 1)], agreed[n + 1].op.request)
      BY <1>3, <2>3 DEF HistoryMade
    <3>2. 1 + Made(n + 1) = M + 1 /\ Made(n + 1) = M
      BY <2>1, <2>2
    <3> QED BY <3>1, <3>2
  <2>7. /\ SubSeq(history, 1, M + 1) = Append(SubSeq(history, 1, M), history[M + 1])
        /\ Last(SubSeq(history, 1, M)) = history[M]
    BY <2>5, PrefixNext DEF Types, HistoryTypes
  <2>8. HistoryUpTo(n) = SubSeq(history, 1, M) /\ HistoryUpTo(n + 1) = SubSeq(history, 1, M + 1)
    BY <1>1, <2>1, <2>2
  <2> QED BY <1>3, <2>6, <2>7, <2>8
<1> QED BY <1>2, <1>3

(***************************************************************************)
(* The applier.                                                            *)
(***************************************************************************)
\* What a replica executes makes a configuration, and what it leaves out makes none.
LEMMA ExecutesMakers ==
  ASSUME Types, Agreeing, NEW s \in Server, applied[s] + 1 \in DOMAIN agreed,
         NEW op, op = agreed[applied[s] + 1].op
  PROVE  /\ op \in Op /\ Issued(op) /\ op.CommandId >= 1
         /\ op.request.OpType # "Query" =>
              (~isDuplicate(s, op) <=> MakesConfig(agreed, applied[s] + 1))
<1>1. PICK n : n = applied[s] + 1
  OBVIOUS
<1>2. applied[s] \in Nat /\ n \in Nat /\ n - 1 = applied[s] /\ n \in DOMAIN agreed
  BY <1>1 DEF Types, ReplicaTypes
<1>3. op \in Op /\ Issued(op)
  BY <1>1, <1>2, EntryIssued
<1>4. PICK c, p : c = op.ClientId /\ p = op.CommandId
  OBVIOUS
<1>5. c \in Client /\ p \in Nat /\ lastApplied[s][c] \in Nat
  BY <1>3, <1>4 DEF Op, Types, ReplicaTypes
<1>6. p >= 1
  BY <1>3, <1>4, <1>5 DEF Issued, Agreeing, Clerking, Types, ClerkTypes, Clerk
<1>7. DOMAIN agreed = 1 .. Len(agreed) /\ Len(agreed) \in Nat
  BY DEF Types, LogTypes
<1>8. ASSUME op.request.OpType # "Query", ~isDuplicate(s, op), ~MakesConfig(agreed, n)
      PROVE  FALSE
  <2>1. PICK m \in 1 .. n - 1 : agreed[m].op = op
    BY <1>1, <1>8 DEF MakesConfig
  <2>2. agreed[m].op.CommandId <= lastApplied[s][agreed[m].op.ClientId]
    BY <1>2, <1>8, <2>1 DEF Agreeing, Serving
  <2> QED BY <1>8, <2>1, <2>2 DEF isDuplicate
<1>9. ASSUME isDuplicate(s, op), MakesConfig(agreed, n)
      PROVE  FALSE
  <2>1. PICK q : q = lastApplied[s][c]
    OBVIOUS
  <2>2. q \in Nat /\ p <= q
    BY <1>4, <1>5, <1>9, <2>1 DEF isDuplicate
  <2>3. PICK m \in 1 .. applied[s] : Has(m, c, q)
    BY <1>5, <1>6, <2>1, <2>2 DEF Agreeing, Serving
  <2>4. Has(n, c, p)
    BY <1>1, <1>4 DEF Has
  <2>5. m \in DOMAIN agreed /\ m \in 1 .. n - 1
    BY <1>2, <1>7
  <2>6. PICK i \in 1 .. n - 1 : Has(i, c, p)
    <3>1. CASE q = p
      BY <2>3, <2>5, <3>1
    <3>2. CASE q # p
      <4>1. p \in 1 .. q - 1
        BY <1>5, <1>6, <2>2, <3>2
      <4>2. \E i \in 1 .. m - 1 : Has(i, c, p)
        BY <1>5, <2>2, <2>3, <2>5, <4>1 DEF Agreeing, LogInOrder
      <4> QED BY <1>2, <1>7, <2>5, <4>2
    <3> QED BY <3>1, <3>2
  <2>7. agreed[i].op = agreed[n].op
    <3>1. i \in DOMAIN agreed
      BY <1>2, <1>7
    <3> QED BY <1>2, <1>5, <2>4, <2>6, <3>1 DEF Agreeing, LogInOrder
  <2> QED BY <1>9, <2>7 DEF MakesConfig
<1> QED BY <1>1, <1>3, <1>4, <1>6, <1>8, <1>9

\* The configurations of a replica that has applied one entry more.
LEMMA ConfigsFollow ==
  ASSUME Types, Agreeing, NEW s \in Server, applied[s] + 1 \in DOMAIN agreed,
         NEW op, op = agreed[applied[s] + 1].op
  PROVE  HistoryUpTo(applied[s] + 1) =
           IF op.request.OpType # "Query" /\ ~isDuplicate(s, op)
             THEN Append(configs[s], NewConfig(Last(configs[s]), op.request)) ELSE configs[s]
<1>1. PICK n : n = applied[s]
  OBVIOUS
<1>2. n \in Nat /\ n < Len(agreed) /\ configs[s] = HistoryUpTo(n)
  BY <1>1 DEF Types, ReplicaTypes, LogTypes, Agreeing, Serving
<1>3. HistoryUpTo(n + 1) =
        IF MakesConfig(agreed, n + 1)
          THEN Append(HistoryUpTo(n), NewConfig(Last(HistoryUpTo(n)), agreed[n + 1].op.request))
          ELSE HistoryUpTo(n)
  BY <1>2, HistoryNext DEF Agreeing
<1>4. op = agreed[n + 1].op
  BY <1>1
<1>5. MakesConfig(agreed, n + 1) <=> op.request.OpType # "Query" /\ ~isDuplicate(s, op)
  BY <1>1, ExecutesMakers DEF MakesConfig
<1> QED BY <1>1, <1>2, <1>3, <1>4, <1>5

\* The table of duplicates of a replica that has applied one entry more.
LEMMA TableFollows ==
  ASSUME Types, Agreeing, NEW s \in Server, applied[s] + 1 \in DOMAIN agreed,
         NEW op, op = agreed[applied[s] + 1].op, NEW table,
         table = [lastApplied[s] EXCEPT ![op.ClientId] =
           IF op.request.OpType # "Query" /\ ~isDuplicate(s, op) THEN op.CommandId ELSE @]
  PROVE  /\ table \in [Client -> Nat]
         /\ \A c \in Client :
              table[c] = 0 \/ \E m \in 1 .. applied[s] + 1 : Has(m, c, table[c])
         /\ \A m \in 1 .. applied[s] + 1 : agreed[m].op.request.OpType # "Query" =>
              agreed[m].op.CommandId <= table[agreed[m].op.ClientId]
<1>1. PICK n, d, p : n = applied[s] /\ d = op.ClientId /\ p = op.CommandId
  OBVIOUS
<1>2. n \in Nat /\ n + 1 \in DOMAIN agreed /\ d \in Client /\ p \in Nat /\ op = agreed[n + 1].op
  BY <1>1, ExecutesMakers DEF Op, Types, ReplicaTypes
<1>3. PICK old : old = lastApplied[s] /\ old \in [Client -> Nat]
  BY DEF Types, ReplicaTypes
<1>4. /\ table \in [Client -> Nat] /\ \A c \in Client : c # d => table[c] = old[c]
      /\ table[d] = IF op.request.OpType # "Query" /\ ~(p <= old[d]) THEN p ELSE old[d]
  BY <1>1, <1>2, <1>3 DEF isDuplicate
<1>5. /\ \A c \in Client : old[c] = 0 \/ \E m \in 1 .. n : Has(m, c, old[c])
      /\ \A m \in 1 .. n : agreed[m].op.request.OpType # "Query" =>
           agreed[m].op.CommandId <= old[agreed[m].op.ClientId]
  BY <1>1, <1>3 DEF Agreeing, Serving
<1>6. 1 .. n \subseteq 1 .. n + 1 /\ n + 1 \in 1 .. n + 1
      /\ \A m \in 1 .. n + 1 : m \in 1 .. n \/ m = n + 1
  BY <1>2
<1>7. ASSUME NEW c \in Client
      PROVE  table[c] = 0 \/ \E m \in 1 .. n + 1 : Has(m, c, table[c])
  <2>1. CASE table[c] = old[c]
    BY <1>5, <1>6, <2>1
  <2>2. CASE table[c] # old[c]
    <3>1. c = d /\ table[c] = p
      BY <1>4, <2>2
    <3>2. Has(n + 1, d, p)
      BY <1>1, <1>2 DEF Has
    <3> QED BY <1>6, <3>1, <3>2
  <2> QED BY <2>1, <2>2
<1>8. ASSUME NEW m \in 1 .. n + 1, agreed[m].op.request.OpType # "Query"
      PROVE  agreed[m].op.CommandId <= table[agreed[m].op.ClientId]
  <2>1. PICK c, q : c = agreed[m].op.ClientId /\ q = agreed[m].op.CommandId
    OBVIOUS
  <2>2. c \in Client /\ q \in Nat
    <3>1. m \in DOMAIN agreed
      BY <1>2 DEF Types, LogTypes
    <3> QED BY <2>1, <3>1, OpTypes DEF Op
  <2>3. old[c] <= table[c] /\ old[c] \in Nat /\ table[c] \in Nat
    BY <1>2, <1>3, <1>4, <2>2
  <2>4. CASE m \in 1 .. n
    <3>1. q <= old[c]
      BY <1>5, <1>8, <2>1, <2>4
    <3> QED BY <2>1, <2>2, <2>3, <3>1
  <2>5. CASE m = n + 1
    <3>1. c = d /\ q = p /\ op.request.OpType # "Query"
      BY <1>1, <1>2, <1>8, <2>1, <2>5
    <3>2. p <= table[d]
      BY <1>2, <1>3, <1>4, <3>1
    <3> QED BY <2>1, <3>1, <3>2
  <2> QED BY <1>6, <2>4, <2>5
<1> QED BY <1>1, <1>4, <1>7, <1>8

\* A replica applies a command.
LEMMA ApplyCommandKeeps ==
  ASSUME Types, Agreeing, NEW s \in Server, ApplyCommand(s)
  PROVE  Types' /\ Agreeing'
<1>1. PICK n, op : n = applied[s] + 1 /\ op = agreed[n].op
  OBVIOUS
<1>2. PICK executes : executes = (op.request.OpType # "Query" /\ ~isDuplicate(s, op))
  OBVIOUS
<1>3. /\ n \in DOMAIN agreed /\ applied' = [applied EXCEPT ![s] = n]
      /\ UNCHANGED <<logVars, netVars, notifyChans, handler, clerk, result, program, history>>
  BY <1>1 DEF ApplyCommand, Knows
<1>4. PICK cs : cs = IF op.request.OpType # "Query" /\ ~isDuplicate(s, op)
                      THEN Append(configs[s], NewConfig(Last(configs[s]), op.request))
                      ELSE configs[s]
  OBVIOUS
<1>5. PICK table : table = [lastApplied[s] EXCEPT ![op.ClientId] =
        IF op.request.OpType # "Query" /\ ~isDuplicate(s, op) THEN op.CommandId ELSE @]
  OBVIOUS
<1>6. PICK x : x = IF notifyChans[s][n] = Nil THEN Nil ELSE [op |-> op, ch |-> notifyChans[s][n]]
  OBVIOUS
<1>7. configs' = [configs EXCEPT ![s] = cs]
  BY <1>1, <1>4 DEF ApplyCommand, Types, ReplicaTypes
<1>8. lastApplied' = [lastApplied EXCEPT ![s] = table]
  BY <1>1, <1>5 DEF ApplyCommand, Types, ReplicaTypes
<1>9. sending' = [sending EXCEPT ![s] = x]
  BY <1>1, <1>6 DEF ApplyCommand
<1>10. /\ op \in Op /\ Issued(op) /\ n \in Nat /\ n - 1 = applied[s] /\ n >= 1
       /\ DOMAIN agreed = 1 .. Len(agreed) /\ Len(agreed) \in Nat
  BY <1>1, <1>3, ExecutesMakers DEF Types, ReplicaTypes, LogTypes
<1>11. cs = HistoryUpTo(n)
  BY <1>1, <1>3, <1>4, ConfigsFollow
<1>12. /\ table \in [Client -> Nat]
       /\ \A c \in Client : table[c] = 0 \/ \E m \in 1 .. n : Has(m, c, table[c])
       /\ \A m \in 1 .. n : agreed[m].op.request.OpType # "Query" =>
            agreed[m].op.CommandId <= table[agreed[m].op.ClientId]
  <2>1. applied[s] + 1 \in DOMAIN agreed /\ op = agreed[applied[s] + 1].op
    BY <1>1, <1>3
  <2>2. /\ table \in [Client -> Nat]
        /\ \A c \in Client :
              table[c] = 0 \/ \E m \in 1 .. applied[s] + 1 : Has(m, c, table[c])
        /\ \A m \in 1 .. applied[s] + 1 : agreed[m].op.request.OpType # "Query" =>
              agreed[m].op.CommandId <= table[agreed[m].op.ClientId]
    BY <1>5, <2>1, TableFollows
  <2> QED BY <1>1, <2>2
<1>13. cs \in Seq(AnyConfig) /\ cs # <<>>
  <2>1. configs[s] \in Seq(AnyConfig) /\ configs[s] # <<>>
    BY DEF Types, ReplicaTypes
  <2>2. CASE op.request.OpType # "Query" /\ ~isDuplicate(s, op)
    <3>1. Last(configs[s]) \in AnyConfig
      BY <2>1, LastIs
    <3>2. op.request \in Changes
      BY <1>10, <2>2 DEF Op, Changes
    <3>3. NewConfig(Last(configs[s]), op.request) \in AnyConfig
      BY <3>1, <3>2, AnyConfigIsClosed DEF Closed
    <3>4. cs = Append(configs[s], NewConfig(Last(configs[s]), op.request))
      BY <1>4, <2>2
    <3>5. PICK old, new : old = configs[s] /\ new = NewConfig(Last(configs[s]), op.request)
      OBVIOUS
    <3>6. Append(old, new) \in Seq(AnyConfig) /\ Append(old, new) # <<>>
      BY <2>1, <3>3, <3>5
    <3> QED BY <3>4, <3>5, <3>6
  <2>3. CASE ~(op.request.OpType # "Query" /\ ~isDuplicate(s, op))
    BY <1>4, <2>1, <2>3
  <2> QED BY <2>2, <2>3
<1>14. x \in [op : Op, ch : Client \X Nat] \cup {Nil} /\ (x # Nil => x.op = op /\ IsOn(x.ch, s))
  <2> SUFFICES ASSUME x # Nil
               PROVE  x \in [op : Op, ch : Client \X Nat] /\ x.op = op /\ IsOn(x.ch, s)
    OBVIOUS
  <2>1. PICK ch : ch = notifyChans[s][n]
    OBVIOUS
  <2>2. ch # Nil /\ x = [op |-> op, ch |-> ch]
    BY <1>6, <2>1
  <2>3. n \in 1 .. MaxIndex
    BY <1>3, <1>10, AgreedLogAssumption DEF Types, LogTypes
  <2>4. IsOn(ch, s)
    BY <2>1, <2>2, <2>3 DEF Agreeing, Serving
  <2>5. ch \in Client \X Nat
    BY <2>4 DEF IsOn, Id
  <2> QED BY <1>10, <2>2, <2>4, <2>5
<1>15. UNCHANGED <<agreed, history, clerk, calls>> /\ Grows
  BY <1>3, SameLogGrows DEF logVars, netVars
<1>16. /\ applied'[s] = n /\ configs'[s] = cs /\ lastApplied'[s] = table /\ sending'[s] = x
       /\ \A t \in Server : t # s =>
            /\ applied'[t] = applied[t] /\ configs'[t] = configs[t]
            /\ lastApplied'[t] = lastApplied[t] /\ sending'[t] = sending[t]
  BY <1>3, <1>7, <1>8, <1>9 DEF Types, ReplicaTypes
<1>17. /\ CallTypes' /\ CallsKept /\ Id' = Id
       /\ \A d \in Client : Len(calls'[d]) = Len(calls[d])
       /\ \A j : CallOf(j)' = CallOf(j)
  BY <1>3, CallsStay DEF Types
<1>18. HandlerTypes' /\ \A j \in Id : HandlerOf(j)' = HandlerOf(j)
  BY <1>3, <1>17, HandlersStay DEF Types
<1>19. ReplicaTypes'
  <2>1. configs' \in [Server -> Seq(AnyConfig)] /\ \A t \in Server : configs'[t] # <<>>
    BY <1>7, <1>13, <1>16 DEF Types, ReplicaTypes
  <2>2. lastApplied' \in [Server -> [Client -> Nat]] /\ applied' \in [Server -> Nat]
    BY <1>3, <1>8, <1>10, <1>12 DEF Types, ReplicaTypes
  <2>3. sending' \in [Server -> [op : Op, ch : Client \X Nat] \cup {Nil}]
    BY <1>9, <1>14 DEF Types, ReplicaTypes
  <2> QED BY <1>3, <2>1, <2>2, <2>3 DEF Types, ReplicaTypes
<1>20. Types'
  BY <1>3, <1>17, <1>18, <1>19, ClerkTypesKept, LogTypesKept DEF Types
<1>21. \A c \in Client : ClerkMoves(c)
  BY <1>15 DEF ClerkMoves, Busy
<1>22. \A c \in Client : Clerking(c)'
  BY <1>15, <1>17, ClerkStays
<1>23. AllIssued'
  <2>1. \A op1 \in Op : IsCommand(op1)' => IsCommand(op1)
    BY <1>3, <1>17 DEF IsCommand, logVars
  <2> QED BY <1>15, <1>21, <2>1, AllIssuedStep
<1>24. LogInOrder' /\ HistoryMade'
  BY <1>15, LogInOrderKept, HistoryMadeKept
<1>25. ASSUME NEW t \in Server, t # s PROVE Serving(t)'
  <2>1. \A m \in 1 .. MaxIndex : notifyChans'[t][m] = notifyChans[t][m]
    BY <1>3
  <2> QED BY <1>15, <1>16, <1>17, <1>25, <2>1, ServingKept
<1>26. Serving(s)'
  <2>1. applied'[s] <= Len(agreed')
    BY <1>3, <1>10, <1>15, <1>16
  <2>2. configs'[s] = HistoryUpTo(applied[s])'
    BY <1>11, <1>15, <1>16 DEF HistoryUpTo, MakesConfig
  <2>3. \A c \in Client : lastApplied'[s][c] = 0
          \/ \E m \in 1 .. applied'[s] : agreed'[m].op.ClientId = c
                 /\ agreed'[m].op.CommandId = lastApplied'[s][c]
    BY <1>12, <1>15, <1>16 DEF Has
  <2>4. \A m \in 1 .. applied'[s] : agreed'[m].op.request.OpType # "Query" =>
          agreed'[m].op.CommandId <= lastApplied'[s][agreed'[m].op.ClientId]
    BY <1>12, <1>15, <1>16
  <2>5. sending'[s] # Nil => /\ \E m \in 1 .. applied'[s] : agreed'[m].op = sending'[s].op
                             /\ IsOn(sending'[s].ch, s)
    <3>1. agreed'[n].op = op /\ n \in 1 .. applied'[s]
      BY <1>1, <1>10, <1>15, <1>16
    <3>2. x # Nil => x.op = op /\ IsOn(x.ch, s)
      BY <1>14
    <3> QED BY <1>16, <3>1, <3>2
  <2>6. \A m \in 1 .. MaxIndex : notifyChans'[s][m] # Nil => IsOn(notifyChans'[s][m], s)
    BY <1>3 DEF Agreeing, Serving
  <2>7. \A k, t : IsOn(k, t) => (k \in Id' /\ CallOf(k)'.server = t)
    BY <1>17 DEF IsOn
  <2> QED BY <2>1, <2>2, <2>3, <2>4, <2>5, <2>6, <2>7 DEF Serving, IsOn, Has
<1>27. ASSUME NEW j \in Id PROVE Handling(j)'
  <2>1. j[1] \in Client /\ CallOf(j).server \in Server
    BY IdIs, RecordsAre DEF Types, CallRecord
  <2>2. applied'[CallOf(j).server] >= applied[CallOf(j).server]
        /\ applied'[CallOf(j).server] \in Nat
    <3>1. PICK t \in Server : t = CallOf(j).server
      BY <2>1
    <3>2. applied[t] \in Nat /\ applied'[t] \in Nat /\ applied'[t] >= applied[t]
      <4>1. CASE t = s
        BY <1>10, <1>16, <4>1
      <4>2. CASE t # s
        BY <1>16, <4>2 DEF Types, ReplicaTypes
      <4> QED BY <4>1, <4>2
    <3> QED BY <3>1, <3>2
  <2> QED BY <1>15, <1>17, <1>18, <1>21, <2>1, <2>2, HandlingKept
<1>28. Agreeing'
  BY <1>17, <1>22, <1>23, <1>24, <1>25, <1>26, <1>27 DEF Agreeing
<1> QED BY <1>20, <1>28

(***************************************************************************)
(* Raft.                                                                   *)
(***************************************************************************)
\* The next entry of the latest leader is agreed on.
LEMMA AgreeGives ==
  ASSUME LogTypes, Agree
  PROVE  /\ LogTypes' /\ UNCHANGED <<view, term, leading, proposed>>
         /\ Len(agreed) \in Nat /\ DOMAIN agreed = 1 .. Len(agreed)
         /\ Len(agreed') = Len(agreed) + 1 /\ DOMAIN agreed' = 1 .. Len(agreed) + 1
         /\ \A n \in 1 .. Len(agreed) : agreed'[n] = agreed[n]
         /\ agreed'[Len(agreed) + 1] \in Entry
         /\ \E s \in Server : \E n \in DOMAIN view[s] : agreed'[Len(agreed) + 1] = view[s][n]
<1>1. PICK s \in Server :
        /\ Len(agreed) < Len(view[s]) /\ agreed' = Append(agreed, view[s][Len(agreed) + 1])
        /\ UNCHANGED <<view, term, leading, proposed>>
  BY DEF Agree
<1> DEFINE n == Len(agreed) + 1
           e == view[s][n]
<1>2. /\ agreed \in Seq(Entry) /\ view[s] \in Seq(Entry) /\ Len(agreed) \in Nat
      /\ n \in 1 .. Len(view[s])
  BY <1>1 DEF LogTypes
<1>3. n \in DOMAIN view[s] /\ e \in Entry
  BY <1>2
<1>4. /\ agreed' \in Seq(Entry) /\ Len(agreed') = Len(agreed) + 1
      /\ DOMAIN agreed = 1 .. Len(agreed) /\ DOMAIN agreed' = 1 .. Len(agreed) + 1
      /\ agreed'[Len(agreed) + 1] = e /\ \A m \in 1 .. Len(agreed) : agreed'[m] = agreed[m]
  <2>1. agreed' = Append(agreed, e)
    BY <1>1
  <2> HIDE DEF e
  <2> QED BY <1>2, <1>3, <2>1
<1>5. Len(agreed') <= MaxIndex
  <2>1. Len(view[s]) <= MaxIndex
    BY DEF LogTypes
  <2> QED BY <1>2, <1>4, <2>1, AgreedLogAssumption
<1>6. LogTypes'
  BY <1>1, <1>4, <1>5 DEF LogTypes
<1> QED BY <1>1, <1>2, <1>3, <1>4, <1>6

\* What two logs put together are.
LEMMA Concatenated ==
  ASSUME NEW S, NEW a \in Seq(S), NEW b \in Seq(S)
  PROVE  /\ a \o b \in Seq(S)
         /\ \A n \in DOMAIN (a \o b) :
              \/ n \in DOMAIN a /\ (a \o b)[n] = a[n]
              \/ \E m \in DOMAIN b : (a \o b)[n] = b[m]
<1>1. /\ a \o b \in Seq(S) /\ DOMAIN (a \o b) = 1 .. Len(a) + Len(b)
      /\ DOMAIN a = 1 .. Len(a) /\ DOMAIN b = 1 .. Len(b)
      /\ Len(a) \in Nat /\ Len(b) \in Nat /\ Len(a \o b) = Len(a) + Len(b)
      /\ \A n \in 1 .. Len(a) + Len(b) :
           (a \o b)[n] = IF n <= Len(a) THEN a[n] ELSE b[n - Len(a)]
  BY ConcatProperties
<1>2. \A n \in 1 .. Len(a) + Len(b) : n <= Len(a) \/ n - Len(a) \in 1 .. Len(b)
  BY <1>1
<1> QED BY <1>1, <1>2

\* The log of a new leader is made of entries there are.
LEMMA ElectGives ==
  ASSUME LogTypes, NEW s \in Server, Elect(s)
  PROVE  /\ LogTypes' /\ UNCHANGED <<agreed, proposed>>
         /\ \A t \in Server : t # s => view'[t] = view[t]
         /\ \A n \in DOMAIN view'[s] :
              \/ n \in DOMAIN agreed /\ view'[s][n] = agreed[n]
              \/ \E p \in proposed : view'[s][n] = p.entry
<1>1. PICK L \in LogsOfNewLeader :
        /\ <<LatestTerm + 1, s>> \in Candidates
        /\ term' = [term EXCEPT ![s] = LatestTerm + 1]
        /\ leading' = leading \cup {s} /\ view' = [view EXCEPT ![s] = L]
        /\ UNCHANGED <<agreed, proposed>>
  BY DEF Elect
<1>2. LatestTerm + 1 \in Nat
  BY <1>1, AgreedLogAssumption
<1>11. Len(agreed) \in Nat /\ MaxIndex - Len(agreed) \in Int
  BY AgreedLogAssumption DEF LogTypes
<1>3. PICK m \in 0 .. (MaxIndex - Len(agreed)) :
        \E t \in [1 .. m -> {p.entry : p \in proposed}] : L = agreed \o t
  <2> DEFINE entries == {p.entry : p \in proposed}
             candidates(n) == {p.entry : p \in {q \in proposed : q.index = Len(agreed) + n}}
             tails(m) == {t \in [1 .. m -> entries] : \A n \in 1 .. m : t[n] \in candidates(n)}
             all == UNION {tails(m) : m \in 0 .. (MaxIndex - Len(agreed))}
  <2>2. LogsOfNewLeader = {agreed \o t : t \in all}
    BY DEF LogsOfNewLeader
  <2>3. PICK t \in all : L = agreed \o t
    BY <1>1, <2>2
  <2>4. PICK m \in 0 .. (MaxIndex - Len(agreed)) : t \in tails(m)
    BY <2>3
  <2>5. t \in [1 .. m -> entries]
    BY <2>4
  <2> QED BY <2>3, <2>5
<1>10. PICK t \in [1 .. m -> {p.entry : p \in proposed}] : L = agreed \o t
  BY <1>3
<1>4. {p.entry : p \in proposed} \subseteq Entry /\ agreed \in Seq(Entry)
  BY DEF LogTypes
<1>5. t \in Seq(Entry) /\ DOMAIN t = 1 .. m /\ Len(t) = m /\ m \in Nat
  <2>1. t \in [1 .. m -> Entry] /\ m \in Nat
    BY <1>10, <1>11, <1>4
  <2>2. t \in Seq(Entry)
    BY <2>1, SeqDef
  <2> QED BY <1>10, <2>1, <2>2
<1>6. L \in Seq(Entry) /\ Len(L) <= MaxIndex /\ \A n \in DOMAIN L :
        \/ n \in DOMAIN agreed /\ L[n] = agreed[n]
        \/ \E p \in proposed : L[n] = p.entry
  <2>4. Len(agreed \o t) = Len(agreed) + Len(t)
    BY <1>4, <1>5, ConcatProperties
  <2>1. /\ agreed \o t \in Seq(Entry)
        /\ \A n \in DOMAIN (agreed \o t) :
             \/ n \in DOMAIN agreed /\ (agreed \o t)[n] = agreed[n]
             \/ \E k \in DOMAIN t : (agreed \o t)[n] = t[k]
    BY <1>4, <1>5, Concatenated
  <2>2. \A k \in DOMAIN t : \E p \in proposed : t[k] = p.entry
    BY <1>5, <1>10
  <2>3. Len(agreed) + Len(t) <= MaxIndex
    BY <1>3, <1>5, <1>11, AgreedLogAssumption
  <2> QED BY <1>10, <2>1, <2>2, <2>3, <2>4
<1>7. /\ view' \in [Server -> Seq(Entry)] /\ view'[s] = L
      /\ \A u \in Server : u # s => view'[u] = view[u]
  BY <1>1, <1>6 DEF LogTypes
<1>8. term' \in [Server -> Nat] /\ leading' \subseteq Server
  BY <1>1, <1>2 DEF LogTypes
<1>9. LogTypes'
  BY <1>1, <1>6, <1>7, <1>8 DEF LogTypes
<1> QED BY <1>1, <1>6, <1>7, <1>9

\* A step that leaves calls, handlers, replicas and clerks alone, and what is agreed on.
LEMMA QuietKeeps ==
  ASSUME Types, Agreeing, LogTypes', servers' \in [Server -> Nat], shutdowns' \in Nat,
         UNCHANGED <<agreed, calls>>,
         UNCHANGED <<replicaVars, notifyChans, sending, handler, clerk, result, program, history>>,
         \A op \in Op : IsCommand(op)' => IsCommand(op)
  PROVE  Types' /\ Agreeing'
<1>1. /\ CallsKept /\ Id' = Id
      /\ \A d \in Client : Len(calls'[d]) = Len(calls[d])
      /\ \A j : CallOf(j)' = CallOf(j)
  BY DEF CallsKept, Id, CallOf
<1>2. CallTypes'
  BY <1>1 DEF Types, CallTypes
<1>3. UNCHANGED <<configs, lastApplied, applied>>
  BY DEF replicaVars
<1>4. HandlerTypes' /\ \A j \in Id : HandlerOf(j)' = HandlerOf(j)
  BY <1>1, HandlersStay DEF Types
<1>5. Types'
  BY <1>2, <1>4, ReplicaTypesKept, ClerkTypesKept DEF Types
<1>6. \A j \in Id : Handling(j)'
  BY <1>1, <1>3, <1>4, <1>5, OthersKeep
<1>7. \A s \in Server : /\ sending'[s] \in {Nil, sending[s]}
                        /\ \A n \in 1 .. MaxIndex : notifyChans'[s][n] = notifyChans[s][n]
  OBVIOUS
<1> QED BY <1>1, <1>3, <1>5, <1>6, <1>7, StepKeeps

\* Leaders come and go.
LEMMA LeadershipKeeps == ASSUME Types, Agreeing, LeadershipStep PROVE Types' /\ Agreeing'
<1>1. PICK s \in Server : Elect(s) \/ StepDown(s)
  BY DEF LeadershipStep, Types, LogTypes
<1>2. UNCHANGED netVars
      /\ UNCHANGED <<replicaVars, notifyChans, sending, handler, clerk, result, program, history>>
  BY DEF LeadershipStep
<1>3. /\ servers' \in [Server -> Nat] /\ shutdowns' \in Nat /\ UNCHANGED calls /\ Id' = Id
      /\ \A j : CallOf(j)' = CallOf(j)
  BY <1>2 DEF netVars, Types, CallTypes, Id, CallOf
<1>4. CASE Elect(s)
  <2>1. /\ LogTypes' /\ UNCHANGED <<agreed, proposed>>
        /\ \A t \in Server : t # s => view'[t] = view[t]
        /\ \A n \in DOMAIN view'[s] :
             \/ n \in DOMAIN agreed /\ view'[s][n] = agreed[n]
             \/ \E p \in proposed : view'[s][n] = p.entry
    BY <1>4, ElectGives DEF Types
  <2>2. ASSUME NEW op \in Op, IsCommand(op)' PROVE IsCommand(op)
    <3>1. CASE \E t \in Server : \E n \in DOMAIN view'[t] : op = view'[t][n].op
      <4>1. PICK t \in Server : \E n \in DOMAIN view'[t] : op = view'[t][n].op
        BY <3>1
      <4>2. CASE t = s
        BY <2>1, <4>1, <4>2 DEF IsCommand
      <4>3. CASE t # s
        BY <2>1, <4>1, <4>3 DEF IsCommand
      <4> QED BY <4>2, <4>3
    <3>2. CASE ~\E t \in Server : \E n \in DOMAIN view'[t] : op = view'[t][n].op
      BY <1>3, <2>1, <2>2, <3>2 DEF IsCommand
    <3> QED BY <3>1, <3>2
  <2> QED BY <1>2, <1>3, <2>1, <2>2, QuietKeeps
<1>5. CASE StepDown(s)
  <2>1. LogTypes' /\ UNCHANGED <<agreed, view, proposed>>
    BY <1>5 DEF StepDown, Types, LogTypes
  <2>2. \A op \in Op : IsCommand(op)' => IsCommand(op)
    BY <1>3, <2>1 DEF IsCommand
  <2> QED BY <1>2, <1>3, <2>1, <2>2, QuietKeeps
<1> QED BY <1>1, <1>4, <1>5

\* Ends are cut off and connected.
LEMMA HarnessKeeps == ASSUME Types, Agreeing, HarnessStep PROVE Types' /\ Agreeing'
<1>1. UNCHANGED <<servers, calls, shutdowns>> /\ UNCHANGED logVars
      /\ UNCHANGED <<replicaVars, notifyChans, sending, handler, clerk, result, program, history>>
  BY DEF HarnessStep, Disconnect, Connect
<1>2. /\ servers' \in [Server -> Nat] /\ shutdowns' \in Nat /\ UNCHANGED <<agreed, calls>>
      /\ LogTypes'
  BY <1>1, LogTypesKept DEF Types, CallTypes, logVars
<1>3. \A op \in Op : IsCommand(op)' => IsCommand(op)
  BY <1>1 DEF IsCommand, logVars, Id, CallOf
<1> QED BY <1>1, <1>2, <1>3, QuietKeeps

\* A server is started.
LEMMA StartServerKeeps ==
  ASSUME Types, Agreeing, NEW s \in Server, StartServer(s) PROVE Types' /\ Agreeing'
<1>1. /\ UNCHANGED <<calls, shutdowns>> /\ UNCHANGED logVars
      /\ servers' = [servers EXCEPT ![s] = shutdowns + 1]
      /\ UNCHANGED <<replicaVars, notifyChans, sending, handler, clerk, result, program, history>>
  BY DEF StartServer, AddServer
<1>2. /\ servers' \in [Server -> Nat] /\ shutdowns' \in Nat /\ UNCHANGED <<agreed, calls>>
      /\ LogTypes'
  BY <1>1, LogTypesKept DEF Types, CallTypes, logVars
<1>3. \A op \in Op : IsCommand(op)' => IsCommand(op)
  BY <1>1 DEF IsCommand, logVars, Id, CallOf
<1> QED BY <1>1, <1>2, <1>3, QuietKeeps

\* The history follows the log.
LEMMA HistoryFollows ==
  ASSUME Types, Agreeing, AgreeOnOp
  PROVE  /\ HistoryTypes' /\ Grows /\ HistoryMade'
<1>1. PICK N : N = Len(agreed)
  OBVIOUS
<1>2. /\ LogTypes' /\ N \in Nat /\ DOMAIN agreed = 1 .. N
      /\ Len(agreed') = N + 1 /\ DOMAIN agreed' = 1 .. N + 1
      /\ \A n \in 1 .. N : agreed'[n] = agreed[n]
      /\ agreed'[N + 1] \in Entry
  BY <1>1, AgreeGives DEF AgreeOnOp, Types
<1>3. PICK M, e : M = MadeIn(agreed, N) /\ e = agreed'[N + 1]
  OBVIOUS
<1>4. M \in Nat /\ Len(history) = M + 1 /\ history[1] = NoConfig /\ history \in Seq(AnyConfig)
      /\ history # <<>>
  BY <1>1, <1>2, <1>3, MadeInIsNat DEF Made, Agreeing, HistoryMade, Types, HistoryTypes
<1>5. Last(agreed') = e
  BY <1>2, <1>3 DEF Last
<1>6. PICK new : new = NewConfig(history[M + 1], e.op.request)
  OBVIOUS
<1>7. history' = IF MakesConfig(agreed', N + 1) THEN Append(history, new) ELSE history
  <2>1. Last(history) = history[M + 1]
    BY <1>4 DEF Last
  <2> QED BY <1>2, <1>5, <1>6, <2>1 DEF AgreeOnOp
<1>8. MakesConfig(agreed', N + 1) => new \in AnyConfig
  <2> SUFFICES ASSUME MakesConfig(agreed', N + 1) PROVE new \in AnyConfig
    OBVIOUS
  <2>1. e.op.request \in Changes
    BY <1>2, <1>3 DEF MakesConfig, Changes, Entry, Op
  <2>2. history[M + 1] \in AnyConfig
    BY <1>4
  <2> QED BY <1>6, <2>1, <2>2, AnyConfigIsClosed DEF Closed
<1>9. MadeIn(agreed', N + 1) = IF MakesConfig(agreed', N + 1) THEN M + 1 ELSE M
  <2>1. MadeIn(agreed', N) = M
    BY <1>2, <1>3, MadeInPrefix
  <2> QED BY <1>2, <2>1, MadeInNext
<1>10. /\ history' \in Seq(AnyConfig) /\ Len(history') = MadeIn(agreed', N + 1) + 1
       /\ \A i \in 1 .. M + 1 : history'[i] = history[i]
       /\ MakesConfig(agreed', N + 1) => history'[M + 2] = new
  <2>1. CASE MakesConfig(agreed', N + 1)
    BY <1>4, <1>7, <1>8, <1>9, <2>1
  <2>2. CASE ~MakesConfig(agreed', N + 1)
    BY <1>4, <1>7, <1>9, <2>2
  <2> QED BY <2>1, <2>2
<1>11. MadeIn(agreed', N + 1) \in Nat /\ MadeIn(agreed', N + 1) >= M
  BY <1>4, <1>9
<1>12. ASSUME NEW n \in 0 .. N
       PROVE  MadeIn(agreed', n) = MadeIn(agreed, n) /\ MadeIn(agreed, n) \in 0 .. M
  <2>1. n \in Nat /\ n <= N /\ \A m \in 1 .. n : agreed'[m] = agreed[m]
    BY <1>2
  <2>2. MadeIn(agreed', n) = MadeIn(agreed, n)
    BY <2>1, MadeInPrefix
  <2>3. Made(n) <= Made(N) /\ Made(n) \in Nat
    BY <1>2, <2>1, MadeGrows, MadeIsNat
  <2> QED BY <1>3, <1>4, <2>2, <2>3 DEF Made
<1>13. ASSUME NEW n \in 0 .. N PROVE HistoryUpTo(n)' = HistoryUpTo(n)
  <2>1. PICK i : i = 1 + MadeIn(agreed, n)
    OBVIOUS
  <2>2. HistoryUpTo(n) = SubSeq(history, 1, i) /\ HistoryUpTo(n)' = SubSeq(history', 1, i)
    BY <1>12, <2>1 DEF HistoryUpTo, MadeIn, MakersIn
  <2>3. i \in 1 .. M + 1 /\ i <= Len(history) /\ i <= Len(history')
    BY <1>4, <1>10, <1>11, <1>12, <2>1
  <2>4. PICK p, q : p = SubSeq(history, 1, i) /\ q = SubSeq(history', 1, i)
    OBVIOUS
  <2>5. /\ p \in Seq(AnyConfig) /\ Len(p) = i /\ \A j \in 1 .. i : p[j] = history[j]
        /\ q \in Seq(AnyConfig) /\ Len(q) = i /\ \A j \in 1 .. i : q[j] = history'[j]
    BY <1>4, <1>10, <2>3, <2>4
  <2>6. p = q
    BY <1>4, <1>10, <2>3, <2>5, SeqEqual
  <2> QED BY <2>2, <2>4, <2>6
<1>14. Grows
  BY <1>1, <1>2, <1>13 DEF Grows
<1>15. HistoryTypes'
  <2>1. history' # <<>>
    BY <1>10, <1>11
  <2> QED BY <1>10, <2>1 DEF HistoryTypes
<1>16. ASSUME NEW n \in 1 .. N + 1, MakesConfig(agreed', n)
       PROVE  history'[1 + MadeIn(agreed', n)] =
                NewConfig(history'[MadeIn(agreed', n)], agreed'[n].op.request)
  <2>1. CASE n = N + 1
    <3>1. MadeIn(agreed', n) = M + 1 /\ 1 + (M + 1) = M + 2
      BY <1>4, <1>9, <1>16, <2>1
    <3>2. history'[M + 2] = new /\ history'[M + 1] = history[M + 1]
      BY <1>4, <1>10, <1>16, <2>1
    <3> QED BY <1>3, <1>6, <2>1, <3>1, <3>2
  <2>2. CASE n # N + 1
    <3>1. n \in 1 .. N /\ n \in Nat /\ \A m \in 1 .. n : agreed'[m] = agreed[m]
      BY <1>2, <2>2
    <3>2. MakesConfig(agreed, n)
      BY <1>16, <3>1, MadeInPrefix
    <3>3. history[1 + Made(n)] = NewConfig(history[Made(n)], agreed[n].op.request)
      BY <1>2, <3>1, <3>2 DEF Agreeing, HistoryMade
    <3>4. Made(n) \in 1 .. M /\ 1 + Made(n) \in 1 .. M + 1
      <4>1. n - 1 \in Nat /\ n - 1 + 1 = n
        BY <3>1
      <4>2. Made(n) = Made(n - 1) + 1 /\ Made(n - 1) \in Nat
        BY <3>2, <4>1, MadeNext, MadeIsNat
      <4>3. Made(n) \in 0 .. M
        BY <1>12, <3>1 DEF Made
      <4> QED BY <1>4, <4>2, <4>3
    <3>5. PICK i : i = Made(n) /\ i = MadeIn(agreed', n)
      BY <1>12, <3>1 DEF Made
    <3>6. history'[1 + i] = history[1 + i] /\ history'[i] = history[i] /\ agreed'[n] = agreed[n]
      BY <1>4, <1>10, <3>1, <3>4, <3>5
    <3> QED BY <3>3, <3>5, <3>6
  <2> QED BY <2>1, <2>2
<1>17. history'[1] = NoConfig
  BY <1>4, <1>10
<1>18. HistoryMade'
  BY <1>2, <1>10, <1>11, <1>16, <1>17 DEF HistoryMade, Made
<1> QED BY <1>14, <1>15, <1>18

\* An operation is agreed on.
LEMMA AgreeKeeps == ASSUME Types, Agreeing, AgreeOnOp PROVE Types' /\ Agreeing'
<1>1. PICK N : N = Len(agreed)
  OBVIOUS
<1>2. PICK e : e = agreed'[N + 1]
  OBVIOUS
<1>3. /\ LogTypes' /\ UNCHANGED <<view, proposed>> /\ N \in Nat /\ DOMAIN agreed = 1 .. N
      /\ Len(agreed') = N + 1 /\ DOMAIN agreed' = 1 .. N + 1
      /\ \A n \in 1 .. N : agreed'[n] = agreed[n]
      /\ e \in Entry /\ \E s \in Server : \E n \in DOMAIN view[s] : e = view[s][n]
  BY <1>1, <1>2, AgreeGives DEF AgreeOnOp, Types
<1>4. HistoryTypes' /\ Grows /\ HistoryMade'
  BY HistoryFollows
<1>5. UNCHANGED <<netVars, replicaVars, notifyChans, sending, handler, clerk, result, program>>
  BY DEF AgreeOnOp
<1>6. /\ CallTypes' /\ CallsKept /\ Id' = Id
      /\ \A d \in Client : Len(calls'[d]) = Len(calls[d])
      /\ \A j : CallOf(j)' = CallOf(j)
  BY <1>5, CallsStay DEF Types
<1>7. HandlerTypes' /\ \A j \in Id : HandlerOf(j)' = HandlerOf(j)
  BY <1>5, <1>6, HandlersStay DEF Types
<1>8. ClerkTypes'
  BY <1>5 DEF Types, ClerkTypes, Busy
<1>9. Types'
  BY <1>3, <1>4, <1>5, <1>6, <1>7, <1>8, ReplicaTypesKept DEF Types
<1>10. \A c \in Client : ClerkMoves(c)
  BY <1>5 DEF ClerkMoves, Busy
<1>11. \A c \in Client : Clerking(c)'
  BY <1>4, <1>5, <1>6, ClerkStays
<1>12. PICK op : op = e.op
  OBVIOUS
<1>13. op \in Op /\ IsCommand(op)
  BY <1>3, <1>12 DEF Entry, IsCommand
<1>14. Issued(op)
  BY <1>13 DEF Agreeing, AllIssued
<1>15. AllIssued'
  <2>1. ASSUME NEW other \in Op, IsCommand(other)' PROVE IsCommand(other)
    <3>1. CASE \E n \in DOMAIN agreed' : other = agreed'[n].op
      <4>1. PICK n \in 1 .. N + 1 : other = agreed'[n].op
        BY <1>3, <3>1
      <4>2. CASE n = N + 1
        BY <1>2, <1>12, <1>13, <4>1, <4>2
      <4>3. CASE n # N + 1
        BY <1>3, <4>1, <4>3 DEF IsCommand
      <4> QED BY <4>2, <4>3
    <3>2. CASE ~\E n \in DOMAIN agreed' : other = agreed'[n].op
      BY <1>3, <1>6, <2>1, <3>2 DEF IsCommand
    <3> QED BY <3>1, <3>2
  <2> QED BY <1>4, <1>10, <2>1, AllIssuedStep
<1>16. PICK d, r : d = op.ClientId /\ r = op.CommandId /\ d \in Client /\ r \in Nat
  BY <1>13 DEF Op
<1>17. ASSUME NEW m \in 1 .. N, Has(m, d, r) PROVE agreed[m].op = op
  <2>1. Matches(agreed[m].op, op)
    BY <1>16, <1>17 DEF Has, Matches
  <2> QED BY <1>3, <1>13, <1>14, <2>1, SameOp
<1>18. ASSUME NEW q \in 1 .. r - 1 PROVE \E m \in 1 .. N : Has(m, d, q)
  <2>1. clerk[d].numOfOrders \in Nat /\ r <= clerk[d].numOfOrders
    BY <1>14, <1>16 DEF Issued, Types, ClerkTypes, Clerk
  <2>2. q \in 1 .. clerk[d].numOfOrders - 1
    BY <1>16, <2>1
  <2> QED BY <1>3, <1>16, <2>2 DEF Agreeing, Clerking
<1>19. \A m \in 1 .. N : \A c, p : Has(m, c, p)' <=> Has(m, c, p)
  BY <1>3 DEF Has
<1>20. \A c, p : Has(N + 1, c, p)' <=> c = d /\ p = r
  BY <1>2, <1>12, <1>16 DEF Has
<1>21. LogInOrder'
  <2>1. ASSUME NEW m \in DOMAIN agreed', NEW n \in DOMAIN agreed', NEW c \in Client, NEW p \in Nat,
               Has(m, c, p)', Has(n, c, p)'
        PROVE  agreed'[m].op = agreed'[n].op
    <3>1. ASSUME NEW i \in 1 .. N + 1, Has(i, d, r)' PROVE agreed'[i].op = op
      <4>1. CASE i = N + 1
        BY <1>2, <1>12, <4>1
      <4>2. CASE i # N + 1
        BY <1>3, <1>17, <1>19, <3>1, <4>2
      <4> QED BY <4>1, <4>2
    <3>2. CASE c = d /\ p = r
      BY <1>3, <2>1, <3>1, <3>2
    <3>3. CASE ~(c = d /\ p = r)
      <4>1. m \in 1 .. N /\ n \in 1 .. N
        BY <1>3, <1>20, <2>1, <3>3
      <4>2. Has(m, c, p) /\ Has(n, c, p)
        BY <1>19, <2>1, <4>1
      <4>3. agreed[m].op = agreed[n].op
        BY <1>3, <4>1, <4>2 DEF Agreeing, LogInOrder
      <4> QED BY <1>3, <4>1, <4>3
    <3> QED BY <3>2, <3>3
  <2>2. ASSUME NEW n \in DOMAIN agreed', NEW c \in Client, NEW p \in Nat, Has(n, c, p)',
               NEW q \in 1 .. p - 1
        PROVE  \E m \in 1 .. n - 1 : Has(m, c, q)'
    <3>1. CASE n = N + 1
      <4>1. c = d /\ p = r
        BY <1>20, <2>2, <3>1
      <4>2. PICK m \in 1 .. N : Has(m, d, q)
        BY <1>18, <4>1
      <4> QED BY <1>3, <1>19, <3>1, <4>1, <4>2
    <3>2. CASE n # N + 1
      <4>1. n \in 1 .. N /\ Has(n, c, p)
        BY <1>3, <1>19, <2>2, <3>2
      <4>2. PICK m \in 1 .. n - 1 : Has(m, c, q)
        BY <1>3, <4>1 DEF Agreeing, LogInOrder
      <4>3. m \in 1 .. N
        BY <1>3, <4>1
      <4> QED BY <1>19, <4>2, <4>3
    <3> QED BY <3>1, <3>2
  <2> QED BY <2>1, <2>2 DEF LogInOrder
<1>22. UNCHANGED <<configs, lastApplied, applied>>
  BY <1>5 DEF replicaVars
<1>23. ASSUME NEW s \in Server PROVE Serving(s)'
  <2>1. \A n \in 1 .. MaxIndex : notifyChans'[s][n] = notifyChans[s][n]
    BY <1>5
  <2> QED BY <1>4, <1>5, <1>6, <1>22, <2>1, ServingKept
<1>24. ASSUME NEW j \in Id PROVE Handling(j)'
  <2>1. j[1] \in Client /\ CallOf(j).server \in Server
    BY IdIs, RecordsAre DEF Types, CallRecord
  <2>2. applied'[CallOf(j).server] >= applied[CallOf(j).server]
        /\ applied'[CallOf(j).server] \in Nat
    <3>1. PICK t \in Server : t = CallOf(j).server
      BY <2>1
    <3>2. applied[t] \in Nat /\ applied'[t] = applied[t]
      BY <1>22 DEF Types, ReplicaTypes
    <3> QED BY <3>1, <3>2
  <2> QED BY <1>4, <1>6, <1>7, <1>10, <2>1, <2>2, HandlingKept
<1>25. Agreeing'
  BY <1>4, <1>6, <1>11, <1>15, <1>21, <1>23, <1>24 DEF Agreeing
<1> QED BY <1>9, <1>25

(***************************************************************************)
(* The harness.                                                            *)
(***************************************************************************)
\* The handlers of a server that is shut down are gone.
LEMMA HandlersGone ==
  ASSUME CallTypes, HandlerTypes, NEW s \in Server, UNCHANGED calls,
         handler' = [c \in Client |-> [n \in DOMAIN handler[c] |->
                       IF calls[c][n].server = s THEN NewHandler ELSE handler[c][n]]]
  PROVE  /\ HandlerTypes'
         /\ \A k \in Id : HandlerOf(k)' = IF CallOf(k).server = s THEN NewHandler ELSE HandlerOf(k)
<1>1. NewHandler \in Handler /\ NewHandler.at = "over"
  BY DEF NewHandler, Handler, Places
<1>2. ASSUME NEW c \in Client
      PROVE  /\ handler'[c] \in Seq(Handler) /\ Len(handler'[c]) = Len(handler[c])
             /\ \A n \in DOMAIN handler[c] : handler'[c][n] =
                  IF calls[c][n].server = s THEN NewHandler ELSE handler[c][n]
  <2>1. PICK h, l, x : h = handler[c] /\ l = Len(handler[c]) /\ x = handler'[c]
    OBVIOUS
  <2>2. h \in Seq(Handler) /\ l \in Nat /\ DOMAIN h = 1 .. l
    BY <2>1 DEF HandlerTypes
  <2>3. x = [n \in 1 .. l |-> IF calls[c][n].server = s THEN NewHandler ELSE h[n]]
    BY <2>1, <2>2
  <2>4. x \in [1 .. l -> Handler]
    BY <1>1, <2>2, <2>3
  <2>5. x \in Seq(Handler) /\ Len(x) = l
    BY <2>2, <2>4, SeqDef
  <2> QED BY <2>1, <2>2, <2>3, <2>5
<1>3. handler' \in [Client -> Seq(Handler)]
  <2>1. DOMAIN handler' = Client /\ handler' = [c \in Client |-> handler'[c]]
    OBVIOUS
  <2> QED BY <1>2, <2>1
<1>4. \A k \in Id : HandlerOf(k)' = IF CallOf(k).server = s THEN NewHandler ELSE HandlerOf(k)
  <2> SUFFICES ASSUME NEW k \in Id
               PROVE  HandlerOf(k)' = IF CallOf(k).server = s THEN NewHandler ELSE HandlerOf(k)
    OBVIOUS
  <2>1. PICK c, n : k = <<c, n>> /\ k[1] = c /\ k[2] = n
    BY IdIs
  <2>2. c \in Client /\ n \in DOMAIN handler[c]
    BY <2>1, IdIs, RecordsAre
  <2> QED BY <1>2, <2>1, <2>2 DEF HandlerOf, CallOf
<1>5. Id' = Id
  BY DEF Id
<1>6. \A k \in Id : /\ HandlerOf(k)'.at = "leaving" => HandlerOf(k)'.reply \in Reply
                    /\ HandlerOf(k)'.at # "over" => HandlerOf(k)'.index \in 1 .. MaxIndex
  BY <1>1, <1>4 DEF HandlerTypes
<1>7. \A c \in Client : Len(handler'[c]) = Len(calls'[c])
  BY <1>2 DEF HandlerTypes
<1> QED BY <1>3, <1>4, <1>5, <1>6, <1>7 DEF HandlerTypes

\* A replica that has applied nothing has the first configuration.
LEMMA HistoryOfNone == ASSUME Types, Agreeing PROVE HistoryUpTo(0) = <<NoConfig>>
<1>1. HistoryUpTo(0) = SubSeq(history, 1, 1 + MadeIn(agreed, 0))
  BY DEF HistoryUpTo, MadeIn, MakersIn
<1>2. HistoryUpTo(0) = SubSeq(history, 1, 1)
  <2>1. MadeIn(agreed, 0) = 0
    BY MadeOfNone
  <2>2. 1 + MadeIn(agreed, 0) = 1
    BY <2>1
  <2> QED BY <1>1, <2>2
<1>3. history \in Seq(AnyConfig) /\ history # <<>> /\ history[1] = NoConfig
  BY DEF Types, HistoryTypes, Agreeing, HistoryMade
<1>4. PICK p : p = SubSeq(history, 1, 1)
  OBVIOUS
<1>5. Len(history) \in Nat /\ Len(history) >= 1
  BY <1>3
<1>6. p \in Seq(AnyConfig) /\ Len(p) = 1 /\ p[1] = NoConfig
  BY <1>3, <1>4, <1>5
<1>7. p = <<NoConfig>>
  BY <1>6
<1> QED BY <1>2, <1>4, <1>7

\* A server is shut down.
LEMMA ShutdownServerKeeps ==
  ASSUME Types, Agreeing, NEW s \in Server, ShutdownServer(s) PROVE Types' /\ Agreeing'
<1>1. /\ UNCHANGED <<calls, agreed, view, proposed>> /\ UNCHANGED <<clerk, result, program, history>>
      /\ servers' = [servers EXCEPT ![s] = 0] /\ shutdowns' = shutdowns + 1
      /\ configs' = [configs EXCEPT ![s] = <<NoConfig>>]
      /\ lastApplied' = [lastApplied EXCEPT ![s] = [c \in Client |-> 0]]
      /\ applied' = [applied EXCEPT ![s] = 0]
      /\ notifyChans' = [notifyChans EXCEPT ![s] = [n \in 1 .. MaxIndex |-> Nil]]
      /\ sending' = [sending EXCEPT ![s] = Nil]
  BY DEF ShutdownServer, DeleteServer, StepDown
<1>2. /\ HandlerTypes'
      /\ \A k \in Id : HandlerOf(k)' = IF CallOf(k).server = s THEN NewHandler ELSE HandlerOf(k)
  <2>1. handler' = [c \in Client |-> [n \in DOMAIN handler[c] |->
                       IF calls[c][n].server = s THEN NewHandler ELSE handler[c][n]]]
    BY DEF ShutdownServer
  <2> QED BY <1>1, <2>1, HandlersGone DEF Types
<1>3. LogTypes'
  BY DEF ShutdownServer, StepDown, Types, LogTypes
<1>4. /\ CallsKept /\ Id' = Id
      /\ \A d \in Client : Len(calls'[d]) = Len(calls[d])
      /\ \A j : CallOf(j)' = CallOf(j)
  BY <1>1 DEF CallsKept, Id, CallOf
<1>5. CallTypes'
  BY <1>1, <1>4 DEF Types, CallTypes
<1>6. <<NoConfig>> \in Seq(AnyConfig) /\ <<NoConfig>> # <<>>
  BY AnyConfigIsClosed DEF Closed
<1>7. ReplicaTypes'
  <2>1. PICK x : x = <<NoConfig>>
    OBVIOUS
  <2>2. configs' = [configs EXCEPT ![s] = x] /\ x \in Seq(AnyConfig) /\ x # <<>>
    BY <1>1, <1>6, <2>1
  <2>3. configs' \in [Server -> Seq(AnyConfig)] /\ \A t \in Server : configs'[t] # <<>>
    BY <2>2 DEF Types, ReplicaTypes
  <2>4. lastApplied' \in [Server -> [Client -> Nat]] /\ applied' \in [Server -> Nat]
    BY <1>1 DEF Types, ReplicaTypes
  <2>5. /\ notifyChans' \in [Server -> [1 .. MaxIndex -> (Client \X Nat) \cup {Nil}]]
        /\ sending' \in [Server -> [op : Op, ch : Client \X Nat] \cup {Nil}]
    BY <1>1 DEF Types, ReplicaTypes
  <2> QED BY <2>3, <2>4, <2>5 DEF ReplicaTypes
<1>8. Types'
  BY <1>1, <1>2, <1>3, <1>5, <1>7, ClerkTypesKept DEF Types
<1>9. Grows /\ \A c \in Client : ClerkMoves(c)
  BY <1>1, SameLogGrows DEF ClerkMoves, Busy
<1>10. \A c \in Client : Clerking(c)'
  BY <1>1, <1>4, <1>9, ClerkStays
<1>11. AllIssued'
  <2>1. \A op \in Op : IsCommand(op)' => IsCommand(op)
    BY <1>1, <1>4 DEF IsCommand
  <2> QED BY <1>9, <2>1, AllIssuedStep
<1>12. LogInOrder' /\ HistoryMade'
  BY <1>1, LogInOrderKept, HistoryMadeKept
<1>13. /\ applied'[s] = 0 /\ configs'[s] = <<NoConfig>> /\ lastApplied'[s] = [c \in Client |-> 0]
       /\ sending'[s] = Nil /\ notifyChans'[s] = [n \in 1 .. MaxIndex |-> Nil]
       /\ \A t \in Server : t # s =>
            /\ applied'[t] = applied[t] /\ configs'[t] = configs[t]
            /\ lastApplied'[t] = lastApplied[t] /\ sending'[t] = sending[t]
            /\ notifyChans'[t] = notifyChans[t]
  BY <1>1 DEF Types, ReplicaTypes
<1>14. ASSUME NEW t \in Server PROVE Serving(t)'
  <2>1. CASE t = s
    <3>1. configs'[s] = HistoryUpTo(0)'
      BY <1>1, <1>13, HistoryOfNone DEF HistoryUpTo, MakesConfig
    <3>2. \A c \in Client : lastApplied'[s][c] = 0
      BY <1>13
    <3>3. \A n \in 1 .. MaxIndex : notifyChans'[s][n] = Nil
      BY <1>13
    <3>4. applied'[s] <= Len(agreed') /\ \A m : m \notin 1 .. applied'[s]
      BY <1>9, <1>13 DEF Grows
    <3>5. configs'[s] = (HistoryUpTo(applied[s]))'
      BY <1>13, <3>1 DEF HistoryUpTo
    <3> QED BY <1>13, <2>1, <3>2, <3>3, <3>4, <3>5 DEF Serving
  <2>2. CASE t # s
    BY <1>4, <1>9, <1>13, <2>2, ServingKept
  <2> QED BY <2>1, <2>2
<1>15. ASSUME NEW j \in Id PROVE Handling(j)'
  <2>1. PICK call : call = CallOf(j) /\ call = CallOf(j)'
    BY <1>4
  <2>2. j[1] \in Client /\ call.server \in Server /\ call.args \in Op /\ Issued(call.args)
    BY <2>1, IdIs, RecordsAre, CallIssued DEF Types, CallRecord
  <2>3. Handling(j)
    BY DEF Agreeing
  <2>4. CASE call.server = s
    <3>1. HandlerOf(j)' = NewHandler
      BY <1>2, <2>1, <2>4
    <3>2. call.st \in Replied => Good(call.args, call.reply)'
      <4>1. PICK args, reply : args = call.args /\ reply = call.reply
        OBVIOUS
      <4>2. args.ClientId \in Client
        BY <2>2, <4>1 DEF Op
      <4>3. Good(args, reply) => Good(args, reply)'
        BY <1>9, <2>2, <4>1, <4>2, GoodKept
      <4>4. call.st \in Replied => Good(args, reply)
        BY <2>1, <2>3, <4>1 DEF Handling, Placed
      <4> QED BY <4>1, <4>3, <4>4 DEF Good
    <3>3. NewHandler.at = "over" /\ NewHandler.box = <<>>
      BY DEF NewHandler
    <3>4. call.args.ClientId = j[1]
      BY <2>1, <2>3 DEF Handling
    <3>5. Placed(NewHandler, call)'
      BY <3>2, <3>3 DEF Placed
    <3> QED BY <2>1, <3>1, <3>4, <3>5 DEF Handling, Placed
  <2>5. CASE call.server # s
    <3>1. HandlerOf(j)' = HandlerOf(j)
      BY <1>2, <2>1, <2>5
    <3>2. applied'[CallOf(j).server] >= applied[CallOf(j).server]
          /\ applied'[CallOf(j).server] \in Nat
      <4>1. PICK t \in Server : t = CallOf(j).server /\ t # s
        BY <2>1, <2>2, <2>5
      <4>2. applied[t] \in Nat /\ applied'[t] = applied[t]
        BY <1>13, <4>1 DEF Types, ReplicaTypes
      <4> QED BY <4>1, <4>2
    <3> QED BY <1>4, <1>9, <2>2, <3>1, <3>2, HandlingKept
  <2> QED BY <2>4, <2>5
<1>16. Agreeing'
  BY <1>4, <1>10, <1>11, <1>12, <1>14, <1>15 DEF Agreeing
<1> QED BY <1>8, <1>16

(***************************************************************************)
(* The clerks.                                                             *)
(***************************************************************************)
\* A step of a clerk.
LEMMA ClerkStepKeeps ==
  ASSUME Types, Types', Agreeing, CallsKept, NEW c \in Client,
         UNCHANGED <<logVars, replicaVars, notifyChans, sending, history>>,
         \A d \in Client : d # c => clerk'[d] = clerk[d] /\ Len(calls'[d]) = Len(calls[d]),
         ClerkMoves(c), Clerking(c)',
         \A op \in Op : (\E k \in Id' : op = CallOf(k)'.args) =>
           (\E k \in Id : op = CallOf(k).args) \/ Issued(op)',
         \A k \in Id' : Handling(k)'
  PROVE  Agreeing'
<1>1. UNCHANGED <<agreed, view, proposed, history, configs, lastApplied, applied>>
  BY DEF logVars, replicaVars
<1>2. Grows
  BY <1>1, SameLogGrows
<1>3. \A d \in Client : ClerkMoves(d)
  BY DEF ClerkMoves, Busy
<1>4. \A d \in Client : Clerking(d)'
  BY <1>2, ClerkStays
<1>5. AllIssued'
  <2>1. \A op \in Op : IsCommand(op)' => IsCommand(op) \/ Issued(op)'
    BY <1>1 DEF IsCommand
  <2> QED BY <1>2, <1>3, <2>1, AllIssuedStep
<1>6. LogInOrder' /\ HistoryMade'
  BY <1>1, LogInOrderKept, HistoryMadeKept
<1>7. ASSUME NEW s \in Server PROVE Serving(s)'
  BY <1>1, <1>2, ServingKept
<1> QED BY <1>4, <1>5, <1>6, <1>7 DEF Agreeing

\* What a program lets a clerk ask for is a request.
LEMMA ProgramGives ==
  ASSUME ClerkTypes, NEW c \in Client, NEW n \in DOMAIN program[c], NEW request \in program[c][n]
  PROVE  request \in Request
<1>1. program \in Programs
  BY DEF ClerkTypes
<1>2. program[c][n] \in Range(program[c])
  BY DEF Range
<1>3. request \in UNION Range(program[c])
  BY <1>2
<1>4. request \in UNION {UNION Range(program[d]) : d \in Client}
  BY <1>3
<1> QED BY <1>1, <1>4 DEF Request

\* A clerk is asked.
LEMMA InvokeKeeps ==
  ASSUME Types, Agreeing, NEW c \in Client, Invoke(c) PROVE Types' /\ Agreeing'
<1>1. PICK request \in program[c][clerk[c].numOfOrders] :
        clerk' = [clerk EXCEPT ![c].st = "trying", ![c].request = request,
                               ![c].since = Len(agreed)]
  BY DEF Invoke
<1>2. /\ clerk[c].st = "idle" /\ clerk[c].numOfOrders \in DOMAIN program[c]
      /\ UNCHANGED netVars
      /\ UNCHANGED <<logVars, replicaVars, notifyChans, sending, handler, result, program, history>>
  BY DEF Invoke
<1>3. request \in Request /\ request # Nil
  BY <1>1, <1>2, ProgramGives, RequestIs DEF Types
<1>4. clerk[c] \in Clerk /\ Len(agreed) \in Nat /\ DOMAIN agreed = 1 .. Len(agreed)
  BY DEF Types, ClerkTypes, LogTypes
<1> DEFINE r == [clerk[c] EXCEPT !.st = "trying", !.request = request, !.since = Len(agreed)]
<1>5. /\ r \in Clerk /\ r.st = "trying" /\ r.request = request /\ r.since = Len(agreed)
      /\ r.numOfOrders = clerk[c].numOfOrders
  BY <1>3, <1>4 DEF Clerk
<1>6. clerk' = [clerk EXCEPT ![c] = r]
  BY <1>1 DEF Types, ClerkTypes
<1> HIDE DEF r
<1>7. clerk'[c] = r /\ \A d \in Client : d # c => clerk'[d] = clerk[d]
  BY <1>6 DEF Types, ClerkTypes
<1>8. ClerkTypes'
  BY <1>2, <1>3, <1>5, <1>6, <1>7 DEF Types, ClerkTypes, Busy
<1>9. /\ CallTypes' /\ CallsKept /\ Id' = Id
      /\ \A d \in Client : Len(calls'[d]) = Len(calls[d])
      /\ \A j : CallOf(j)' = CallOf(j)
  BY <1>2, CallsStay DEF Types
<1>10. HandlerTypes' /\ \A j \in Id : HandlerOf(j)' = HandlerOf(j)
  BY <1>2, <1>9, HandlersStay DEF Types
<1>11. Types'
  BY <1>2, <1>8, <1>9, <1>10, ReplicaTypesKept, LogTypesKept DEF Types, HistoryTypes
<1>12. ClerkMoves(c)
  BY <1>2, <1>5, <1>7 DEF ClerkMoves, Busy
<1>13. \A d \in Client : ClerkMoves(d)
  BY <1>7, <1>12 DEF ClerkMoves, Busy
<1>14. UNCHANGED <<agreed, history, applied>> /\ Grows
  BY <1>2, SameLogGrows DEF logVars, replicaVars
<1>15. Clerking(c)'
  <2>1. PICK p : p = clerk[c].numOfOrders /\ p \in Nat /\ p >= 1
    BY <1>4 DEF Clerk, Agreeing, Clerking
  <2>2. ASSUME NEW m \in DOMAIN agreed, Has(m, c, p) PROVE FALSE
    <3>1. Issued(agreed[m].op) /\ agreed[m].op \in Op
      BY EntryIssued
    <3>2. agreed[m].op.ClientId = c /\ agreed[m].op.CommandId = clerk[c].numOfOrders
      BY <2>1, <2>2 DEF Has
    <3>3. Busy(c)
      BY <3>1, <3>2, IsOpOf
    <3> QED BY <1>2, <3>3 DEF Busy
  <2>3. \A m \in 1 .. r.since : ~Has(m, c, p)
    BY <1>4, <1>5, <2>2
  <2>4. \A q \in 1 .. p - 1 : \E n \in DOMAIN agreed : Has(n, c, q)
    BY <2>1 DEF Agreeing, Clerking
  <2>5. clerk'[c].numOfOrders = p /\ clerk'[c].since = Len(agreed) /\ clerk'[c].st = "trying"
    BY <1>5, <1>7, <2>1
  <2>6. \A m, q : Has(m, c, q)' <=> Has(m, c, q)
    BY <1>14 DEF Has
  <2>7. /\ clerk'[c].since <= Len(agreed')
        /\ \A m \in 1 .. clerk'[c].since : ~Has(m, c, p)'
        /\ \A q \in 1 .. p - 1 : \E n \in DOMAIN agreed' : Has(n, c, q)'
    BY <1>4, <1>5, <1>14, <2>3, <2>4, <2>5, <2>6
  <2> QED BY <2>1, <2>5, <2>7 DEF Clerking, Has
<1>16. ASSUME NEW j \in Id PROVE Handling(j)'
  <2>1. j[1] \in Client /\ CallOf(j).server \in Server
    BY IdIs, RecordsAre DEF Types, CallRecord
  <2>2. applied'[CallOf(j).server] >= applied[CallOf(j).server]
        /\ applied'[CallOf(j).server] \in Nat
    BY <1>14, <2>1 DEF Types, ReplicaTypes
  <2> QED BY <1>9, <1>10, <1>13, <1>14, <2>1, <2>2, HandlingKept
<1> QED BY <1>2, <1>7, <1>9, <1>11, <1>12, <1>15, <1>16, ClerkStepKeeps
\* A call returns to its clerk, which tries again or is done.
LEMMA BackKeeps ==
  ASSUME Types, Agreeing, NEW c \in Client, NEW from,
         clerk[c].st = "waiting", Progress(Current(c), from, "returned", Nil),
         NEW r \in Clerk, clerk' = [clerk EXCEPT ![c] = r],
         r.request = clerk[c].request, r.since = clerk[c].since,
         \/ r.st = "trying" /\ r.numOfOrders = clerk[c].numOfOrders
         \/ r.st = "idle" /\ r.numOfOrders = clerk[c].numOfOrders + 1 /\ AgreedOn(OpOf(c)),
         result' \in [Client -> AnyConfig \cup {Nil}],
         UNCHANGED <<logVars, replicaVars, notifyChans, sending, handler, program, history>>
  PROVE  Types' /\ Agreeing'
<1>1. PICK k : k = Current(c)
  OBVIOUS
<1>2. Busy(c) /\ Clerking(c) /\ clerk[c] \in Clerk
  BY DEF Busy, Agreeing, Types, ClerkTypes
<1>3. k \in Id
  BY <1>1, <1>2, LastCall DEF Clerking, Types
<1>4. CallTypes' /\ CallMoves(k, "returned", Nil)
  BY <1>1, <1>3, ProgressGives DEF Types, Replied, CallStates
<1>5. /\ CallsKept /\ Id' = Id /\ \A d \in Client : Len(calls'[d]) = Len(calls[d])
      /\ \A j \in Id : CallOf(j)'.st \in Replied => CallOf(j)' = CallOf(j)
  BY <1>4 DEF CallMoves, CallsKept, Replied
<1>6. HandlerTypes' /\ \A j \in Id : HandlerOf(j)' = HandlerOf(j)
  BY <1>5, HandlersStay DEF Types
<1>7. clerk'[c] = r /\ \A d \in Client : d # c => clerk'[d] = clerk[d]
  BY DEF Types, ClerkTypes
<1>8. ClerkTypes'
  BY <1>2, <1>7 DEF Types, ClerkTypes, Busy
<1>9. Types'
  BY <1>4, <1>6, <1>8, ReplicaTypesKept, LogTypesKept DEF Types, HistoryTypes
<1>10. ClerkMoves(c)
  BY <1>2, <1>7 DEF ClerkMoves, Busy
<1>11. \A d \in Client : ClerkMoves(d)
  BY <1>7, <1>10 DEF ClerkMoves, Busy
<1>12. UNCHANGED <<agreed, history, applied>> /\ Grows
  BY SameLogGrows DEF logVars, replicaVars
<1>13. Clerking(c)'
  <2>1. \A m, q : Has(m, c, q)' <=> Has(m, c, q)
    BY <1>12 DEF Has
  <2>2. PICK p : p = clerk[c].numOfOrders /\ p \in Nat /\ p >= 1
    BY <1>2 DEF Clerk, Clerking
  <2>3. AgreedOn(OpOf(c)) => \E n \in DOMAIN agreed : Has(n, c, p)
    BY <2>2 DEF AgreedOn, OpOf, Has
  <2>4. \A q \in 1 .. r.numOfOrders - 1 : \E n \in DOMAIN agreed : Has(n, c, q)
    BY <1>2, <2>2, <2>3 DEF Clerking
  <2>5. /\ r.since <= Len(agreed)
        /\ \A m \in 1 .. r.since : ~Has(m, c, p)
    BY <1>2, <2>2 DEF Clerking
  <2>6. r.numOfOrders >= 1 /\ r.st # "waiting" /\ (r.st # "idle" => r.numOfOrders = p)
    BY <2>2
  <2>7. PICK new : new = clerk'[c] /\ new = r
    BY <1>7
  <2>8. /\ new.numOfOrders >= 1 /\ new.st # "waiting"
        /\ \A q \in 1 .. new.numOfOrders - 1 : \E n \in DOMAIN agreed' : Has(n, c, q)'
        /\ new.st # "idle" =>
             new.since <= Len(agreed') /\ \A m \in 1 .. new.since : ~Has(m, c, new.numOfOrders)'
    BY <1>12, <2>1, <2>4, <2>5, <2>6, <2>7
  <2> QED BY <2>7, <2>8 DEF Clerking, Busy, Has
<1>14. ASSUME NEW j \in Id PROVE Handling(j)'
  <2>1. j[1] \in Client /\ CallOf(j).server \in Server
    BY IdIs, RecordsAre DEF Types, CallRecord
  <2>2. applied'[CallOf(j).server] >= applied[CallOf(j).server]
        /\ applied'[CallOf(j).server] \in Nat
    BY <1>12, <2>1 DEF Types, ReplicaTypes
  <2>3. HandlerOf(j)' = HandlerOf(j) /\ ClerkMoves(j[1])
        /\ (CallOf(j)'.st \in Replied => CallOf(j)' = CallOf(j))
    BY <1>5, <1>6, <1>11, <2>1
  <2> QED BY <1>5, <1>12, <2>2, <2>3, HandlingKept
<1>15. \A op \in Op : (\E j \in Id' : op = CallOf(j)'.args) => \E j \in Id : op = CallOf(j).args
  BY <1>5 DEF CallsKept
<1> QED BY <1>5, <1>7, <1>9, <1>10, <1>13, <1>14, <1>15, ClerkStepKeeps

\* A call fails.
LEMMA CallFailsKeeps ==
  ASSUME Types, Agreeing, NEW c \in Client, CallFails(c) PROVE Types' /\ Agreeing'
<1>1. PICK from : Progress(Current(c), from, "returned", Nil)
  BY DEF CallFails, Fail
<1>2. /\ clerk[c].st = "waiting" /\ clerk' = [clerk EXCEPT ![c].st = "trying"]
      /\ UNCHANGED <<logVars, replicaVars, notifyChans, sending, handler, result, program, history>>
  BY DEF CallFails
<1>3. clerk[c] \in Clerk
  BY DEF Types, ClerkTypes
<1> DEFINE r == [clerk[c] EXCEPT !.st = "trying"]
<1>4. /\ r \in Clerk /\ r.st = "trying" /\ r.request = clerk[c].request
      /\ r.since = clerk[c].since /\ r.numOfOrders = clerk[c].numOfOrders
  BY <1>3 DEF Clerk
<1>5. clerk' = [clerk EXCEPT ![c] = r]
  BY <1>2
<1> HIDE DEF r
<1>6. result' \in [Client -> AnyConfig \cup {Nil}]
  BY <1>2 DEF Types, ClerkTypes
<1> QED BY <1>1, <1>2, <1>4, <1>5, <1>6, BackKeeps

\* A call returns.
LEMMA CallReturnsKeeps ==
  ASSUME Types, Agreeing, NEW c \in Client, CallReturns(c) PROVE Types' /\ Agreeing'
<1>1. PICK reply, done : reply = CallOf(Current(c)).reply /\ done = ~reply.WrongLeader
  OBVIOUS
<1>2. /\ clerk[c].st = "waiting" /\ Progress(Current(c), "answering", "returned", Nil)
      /\ clerk' = [clerk EXCEPT ![c].st = IF done THEN "idle" ELSE "trying",
                                ![c].numOfOrders = IF done THEN @ + 1 ELSE @]
      /\ result' = [result EXCEPT ![c] =
                      IF done /\ clerk[c].request.OpType = "Query" THEN reply.Config ELSE @]
      /\ UNCHANGED <<logVars, replicaVars, notifyChans, sending, handler, program, history>>
  BY <1>1 DEF CallReturns, Return
<1>3. clerk[c] \in Clerk
  BY DEF Types, ClerkTypes
<1>4. Current(c) \in Id /\ CallOf(Current(c)).args = OpOf(c)
  <2>1. Len(calls[c]) >= 1 /\ calls[c][Len(calls[c])].args = OpOf(c)
    BY <1>2 DEF Agreeing, Clerking
  <2> QED BY <2>1, LastCall DEF Types
<1>5. reply \in Reply /\ Good(OpOf(c), reply)
  <2>1. CallOf(Current(c)).st \in Replied
    BY <1>2 DEF Progress, Replied
  <2> QED BY <1>1, <1>4, <2>1 DEF Types, CallTypes, Agreeing, Handling, Placed
<1>6. result' \in [Client -> AnyConfig \cup {Nil}]
  <2>1. reply.Config \in AnyConfig \cup {Nil}
    BY <1>5 DEF Reply
  <2> QED BY <1>2, <2>1 DEF Types, ClerkTypes
<1> DEFINE r == [clerk[c] EXCEPT !.st = IF done THEN "idle" ELSE "trying",
                                 !.numOfOrders = IF done THEN @ + 1 ELSE @]
<1>7. /\ r \in Clerk /\ r.request = clerk[c].request /\ r.since = clerk[c].since
      /\ r.st = (IF done THEN "idle" ELSE "trying")
      /\ r.numOfOrders = (IF done THEN clerk[c].numOfOrders + 1 ELSE clerk[c].numOfOrders)
  <2>1. PICK old, st, num : /\ old = clerk[c] /\ st = (IF done THEN "idle" ELSE "trying")
                            /\ num = IF done THEN old.numOfOrders + 1 ELSE old.numOfOrders
    OBVIOUS
  <2>2. old \in Clerk /\ st \in {"idle", "trying"} /\ num \in Nat
    BY <1>3, <2>1 DEF Clerk
  <2>3. r = [old EXCEPT !.st = st, !.numOfOrders = num]
    BY <1>3, <2>1 DEF Clerk
  <2> HIDE DEF r
  <2>4. /\ r \in Clerk /\ r.request = old.request /\ r.since = old.since /\ r.st = st
        /\ r.numOfOrders = num
    BY <2>2, <2>3 DEF Clerk
  <2> QED BY <2>1, <2>4
<1>8. clerk' = [clerk EXCEPT ![c] = r]
  BY <1>2 DEF Types, ClerkTypes
<1> HIDE DEF r
<1>9. done => AgreedOn(OpOf(c))
  BY <1>1, <1>5 DEF Good
<1>10. done \in BOOLEAN
  BY <1>1
<1>11. \/ r.st = "trying" /\ r.numOfOrders = clerk[c].numOfOrders
       \/ r.st = "idle" /\ r.numOfOrders = clerk[c].numOfOrders + 1 /\ AgreedOn(OpOf(c))
  BY <1>7, <1>9, <1>10
<1> QED BY <1>2, <1>6, <1>7, <1>8, <1>11, BackKeeps
\* One record behind one clerk's.
LEMMA OneAppended ==
  ASSUME NEW S, NEW f \in [Client -> Seq(S)], NEW c \in Client, NEW r \in S,
         NEW g, g = [f EXCEPT ![c] = Append(@, r)], NEW n, n = Len(f[c]) + 1
  PROVE  /\ g \in [Client -> Seq(S)] /\ n \in Nat \ {0} /\ Len(g[c]) = n /\ g[c][n] = r
         /\ n \in DOMAIN g[c]
         /\ \A d \in Client : d # c => g[d] = f[d]
         /\ \A d \in Client : \A m \in DOMAIN f[d] : m \in DOMAIN g[d] /\ g[d][m] = f[d][m]
         /\ \A d \in Client : \A m \in DOMAIN g[d] : m \in DOMAIN f[d] \/ (d = c /\ m = n)
<1>1. PICK old, new : old = f[c] /\ new = Append(old, r)
  OBVIOUS
<1>2. old \in Seq(S) /\ Len(old) \in Nat /\ DOMAIN old = 1 .. Len(old) /\ n = Len(old) + 1
  BY <1>1
<1>3. /\ new \in Seq(S) /\ Len(new) = n /\ new[n] = r /\ DOMAIN new = 1 .. n
      /\ \A m \in 1 .. Len(old) : new[m] = old[m]
  BY <1>1, <1>2
<1>4. g = [f EXCEPT ![c] = new]
  BY <1>1
<1>5. g[c] = new /\ g \in [Client -> Seq(S)] /\ \A d \in Client : d # c => g[d] = f[d]
  BY <1>3, <1>4
<1>6. /\ \A m \in DOMAIN old : m \in DOMAIN new /\ new[m] = old[m]
      /\ \A m \in DOMAIN new : m \in DOMAIN old \/ m = n
  BY <1>2, <1>3
<1>7. n \in DOMAIN new /\ n \in Nat \ {0}
  BY <1>2, <1>3
<1>8. g \in [Client -> Seq(S)] /\ n \in Nat \ {0} /\ Len(g[c]) = n /\ g[c][n] = r
      /\ n \in DOMAIN g[c]
  BY <1>3, <1>5, <1>7
<1>9. ASSUME NEW d \in Client, NEW m \in DOMAIN f[d] PROVE m \in DOMAIN g[d] /\ g[d][m] = f[d][m]
  BY <1>1, <1>5, <1>6
<1>10. ASSUME NEW d \in Client, NEW m \in DOMAIN g[d] PROVE m \in DOMAIN f[d] \/ (d = c /\ m = n)
  BY <1>1, <1>5, <1>6
<1> QED BY <1>5, <1>8, <1>9, <1>10

\* A clerk calls a server.
LEMMA CallServerKeeps ==
  ASSUME Types, Agreeing, NEW c \in Client, NEW s \in Server, CallServer(c, s)
  PROVE  Types' /\ Agreeing'
<1>1. PICK n, instance : /\ n = Len(calls[c]) + 1
                         /\ instance = IF Reachable(c, s) THEN servers[s] ELSE 0
  OBVIOUS
<1>2. PICK r : r = [server |-> s, instance |-> instance, st |-> "sent", args |-> OpOf(c),
                    reply |-> Nil]
  OBVIOUS
<1>3. /\ clerk[c].st = "trying" /\ clerk' = [clerk EXCEPT ![c].st = "waiting"]
      /\ calls' = [calls EXCEPT ![c] = Append(@, r)]
      /\ handler' = [handler EXCEPT ![c] = Append(@, NewHandler)]
      /\ UNCHANGED <<servers, shutdowns>>
      /\ UNCHANGED <<logVars, replicaVars, notifyChans, sending, result, program, history>>
  BY <1>1, <1>2 DEF CallServer, Call
<1>4. Busy(c) /\ Clerking(c) /\ clerk[c] \in Clerk /\ clerk[c].request \in Request
  BY <1>3 DEF Busy, Agreeing, Types, ClerkTypes
<1>5. OpOf(c) \in Op /\ OpOf(c).ClientId = c /\ Issued(OpOf(c))
  <2>1. OpOf(c) \in Op
    BY <1>4 DEF OpOf, Op, Clerk
  <2>2. /\ OpOf(c).ClientId = c /\ OpOf(c).CommandId = clerk[c].numOfOrders
        /\ OpOf(c).request = clerk[c].request
    BY DEF OpOf
  <2> QED BY <1>4, <2>1, <2>2 DEF Issued
<1>6. r \in CallRecord /\ r.server = s /\ r.args = OpOf(c) /\ r.st = "sent"
  <2>1. instance \in Nat
    BY <1>1 DEF Types, CallTypes
  <2> QED BY <1>2, <1>5, <2>1 DEF CallRecord, CallStates
<1>7. NewHandler \in Handler /\ NewHandler.at = "over" /\ NewHandler.box = <<>>
  BY DEF NewHandler, Handler, Places
<1>8. /\ calls' \in [Client -> Seq(CallRecord)] /\ n \in Nat \ {0} /\ Len(calls'[c]) = n
      /\ calls'[c][n] = r /\ n \in DOMAIN calls'[c]
      /\ \A d \in Client : d # c => calls'[d] = calls[d]
      /\ \A d \in Client : \A m \in DOMAIN calls[d] :
           m \in DOMAIN calls'[d] /\ calls'[d][m] = calls[d][m]
      /\ \A d \in Client : \A m \in DOMAIN calls'[d] : m \in DOMAIN calls[d] \/ (d = c /\ m = n)
  <2>1. PICK f, g : f = calls /\ g = calls'
    OBVIOUS
  <2>2. f \in [Client -> Seq(CallRecord)] /\ g = [f EXCEPT ![c] = Append(@, r)]
        /\ n = Len(f[c]) + 1
    BY <1>1, <1>3, <2>1 DEF Types, CallTypes
  <2>3. /\ g \in [Client -> Seq(CallRecord)] /\ n \in Nat \ {0} /\ Len(g[c]) = n
        /\ g[c][n] = r /\ n \in DOMAIN g[c]
        /\ \A d \in Client : d # c => g[d] = f[d]
        /\ \A d \in Client : \A m \in DOMAIN f[d] : m \in DOMAIN g[d] /\ g[d][m] = f[d][m]
        /\ \A d \in Client : \A m \in DOMAIN g[d] : m \in DOMAIN f[d] \/ (d = c /\ m = n)
    BY <1>6, <2>2, OneAppended
  <2> QED BY <2>1, <2>3
<1>9. /\ handler' \in [Client -> Seq(Handler)] /\ Len(handler'[c]) = n
      /\ handler'[c][n] = NewHandler
      /\ \A d \in Client : d # c => handler'[d] = handler[d]
      /\ \A d \in Client : \A m \in DOMAIN handler[d] : handler'[d][m] = handler[d][m]
  <2>1. PICK f, g, h : f = handler /\ g = handler' /\ h = NewHandler
    OBVIOUS
  <2>2. f \in [Client -> Seq(Handler)] /\ g = [f EXCEPT ![c] = Append(@, h)] /\ h \in Handler
        /\ n = Len(f[c]) + 1
    BY <1>1, <1>3, <1>7, <2>1 DEF Types, HandlerTypes
  <2>3. /\ g \in [Client -> Seq(Handler)] /\ Len(g[c]) = n /\ g[c][n] = h
        /\ \A d \in Client : d # c => g[d] = f[d]
        /\ \A d \in Client : \A m \in DOMAIN f[d] : g[d][m] = f[d][m]
    BY <2>2, OneAppended
  <2> QED BY <2>1, <2>3
<1>10. PICK new : new = <<c, n>> /\ new[1] = c /\ new[2] = n
  <2>1. <<c, n>>[1] = c /\ <<c, n>>[2] = n
    OBVIOUS
  <2> QED BY <2>1
<1>11. /\ new \in Id' /\ CallOf(new)' = r /\ HandlerOf(new)' = NewHandler
  BY <1>8, <1>9, <1>10 DEF Id, CallOf, HandlerOf
<1>12. ASSUME NEW k \in Id
       PROVE  k \in Id' /\ CallOf(k)' = CallOf(k) /\ HandlerOf(k)' = HandlerOf(k)
  <2>1. k[1] \in Client /\ k[2] \in DOMAIN calls[k[1]] /\ k[2] \in DOMAIN handler[k[1]]
        /\ k \in Client \X Nat
    BY RecordsAre DEF Types, Id
  <2> QED BY <1>8, <1>9, <2>1 DEF Id, CallOf, HandlerOf
<1>13. ASSUME NEW k \in Id', k # new PROVE k \in Id
  <2>1. k[1] \in Client /\ k[2] \in DOMAIN calls'[k[1]] /\ k \in Client \X Nat /\ k = <<k[1], k[2]>>
    BY DEF Id
  <2>2. ~(k[1] = c /\ k[2] = n)
    BY <1>10, <1>13, <2>1
  <2>3. k[2] \in DOMAIN calls[k[1]]
    BY <1>8, <2>1, <2>2
  <2> QED BY <2>1, <2>3 DEF Id
<1>14. CallsKept
  BY <1>12 DEF CallsKept
<1>15. CallTypes'
  <2>1. \A k \in Id' : CallOf(k)'.st \in Replied => CallOf(k)'.reply \in Reply
    BY <1>6, <1>11, <1>12, <1>13 DEF Types, CallTypes, Replied
  <2> QED BY <1>3, <1>8, <2>1 DEF Types, CallTypes
<1>16. HandlerTypes'
  <2>1. \A d \in Client : Len(handler'[d]) = Len(calls'[d])
    BY <1>8, <1>9 DEF Types, HandlerTypes
  <2>2. \A k \in Id' : /\ HandlerOf(k)'.at = "leaving" => HandlerOf(k)'.reply \in Reply
                       /\ HandlerOf(k)'.at # "over" => HandlerOf(k)'.index \in 1 .. MaxIndex
    BY <1>7, <1>11, <1>12, <1>13 DEF Types, HandlerTypes
  <2> QED BY <1>9, <2>1, <2>2 DEF HandlerTypes
<1>17. PICK q : q = clerk'[c]
  OBVIOUS
<1>18. /\ clerk' \in [Client -> Clerk] /\ q.st = "waiting" /\ q.request = clerk[c].request
       /\ q.since = clerk[c].since /\ q.numOfOrders = clerk[c].numOfOrders
       /\ \A d \in Client : d # c => clerk'[d] = clerk[d]
  <2>1. q = [clerk[c] EXCEPT !.st = "waiting"]
    BY <1>3, <1>17 DEF Types, ClerkTypes
  <2>2. /\ q \in Clerk /\ q.st = "waiting" /\ q.request = clerk[c].request
        /\ q.since = clerk[c].since /\ q.numOfOrders = clerk[c].numOfOrders
    BY <1>4, <2>1 DEF Clerk
  <2>3. clerk' = [clerk EXCEPT ![c] = q]
    BY <1>3, <2>1 DEF Types, ClerkTypes
  <2> QED BY <2>2, <2>3 DEF Types, ClerkTypes
<1>19. ClerkTypes'
  BY <1>3, <1>4, <1>17, <1>18 DEF Types, ClerkTypes, Busy
<1>20. Types'
  BY <1>3, <1>15, <1>16, <1>19, ReplicaTypesKept, LogTypesKept DEF Types, HistoryTypes
<1>21. ClerkMoves(c)
  BY <1>4, <1>17, <1>18 DEF ClerkMoves, Busy
<1>22. \A d \in Client : ClerkMoves(d)
  BY <1>18, <1>21 DEF ClerkMoves, Busy
<1>23. UNCHANGED <<agreed, history, applied>> /\ Grows
  BY <1>3, SameLogGrows DEF logVars, replicaVars
<1>24. Clerking(c)'
  <2>1. \A m, p : Has(m, c, p)' <=> Has(m, c, p)
    BY <1>23 DEF Has
  <2>2. /\ clerk[c].numOfOrders >= 1 /\ clerk[c].since <= Len(agreed)
        /\ \A m \in 1 .. clerk[c].since : ~Has(m, c, clerk[c].numOfOrders)
        /\ \A p \in 1 .. clerk[c].numOfOrders - 1 : \E m \in DOMAIN agreed : Has(m, c, p)
    BY <1>4 DEF Clerking
  <2>3. /\ q.numOfOrders >= 1 /\ q.since <= Len(agreed')
        /\ \A m \in 1 .. q.since : ~Has(m, c, q.numOfOrders)'
        /\ \A p \in 1 .. q.numOfOrders - 1 : \E m \in DOMAIN agreed' : Has(m, c, p)'
    BY <1>18, <1>23, <2>1, <2>2
  <2>4. (OpOf(c))' = OpOf(c)
    BY <1>17, <1>18 DEF OpOf
  <2>5. Len(calls'[c]) >= 1 /\ calls'[c][Len(calls'[c])].args = (OpOf(c))'
    BY <1>6, <1>8, <2>4
  <2> QED BY <1>17, <2>3, <2>5 DEF Clerking, Busy, Has
<1>25. ASSUME NEW k \in Id' PROVE Handling(k)'
  <2>1. CASE k = new
    <3>1. PICK h, call : h = HandlerOf(k)' /\ call = CallOf(k)'
      OBVIOUS
    <3>2. /\ h.at = "over" /\ h.box = <<>> /\ call.st \notin Replied /\ call.args.ClientId = c
          /\ k[1] = c
      BY <1>5, <1>6, <1>7, <1>10, <1>11, <2>1, <3>1 DEF Replied
    <3>3. Placed(h, call)'
      BY <3>2 DEF Placed
    <3> QED BY <3>1, <3>2, <3>3 DEF Handling
  <2>2. CASE k # new
    <3>1. k \in Id /\ CallOf(k)' = CallOf(k) /\ HandlerOf(k)' = HandlerOf(k)
      BY <1>12, <1>13, <2>2
    <3>2. k[1] \in Client /\ CallOf(k).server \in Server
      BY <3>1, IdIs, RecordsAre DEF Types, CallRecord
    <3>3. /\ applied'[CallOf(k).server] >= applied[CallOf(k).server]
          /\ applied'[CallOf(k).server] \in Nat /\ ClerkMoves(k[1])
      BY <1>22, <1>23, <3>2 DEF Types, ReplicaTypes
    <3> QED BY <1>14, <1>23, <3>1, <3>3, HandlingKept
  <2> QED BY <2>1, <2>2
<1>26. Issued(OpOf(c))'
  <2>1. PICK op : op = OpOf(c)
    OBVIOUS
  <2>2. op \in Op /\ Issued(op) /\ op.ClientId = c
    BY <1>5, <2>1
  <2>3. Issued(op)'
    BY <1>4, <1>21, <1>23, <2>2, IssuedKept
  <2>4. OpOf(c)' = op
    BY <1>17, <1>18, <2>1 DEF OpOf
  <2> QED BY <2>3, <2>4 DEF Issued, AgreedOn
<1>27. \A op \in Op : (\E k \in Id' : op = CallOf(k)'.args) =>
         (\E k \in Id : op = CallOf(k).args) \/ Issued(op)'
  <2>1. ASSUME NEW op \in Op, NEW k \in Id', op = CallOf(k)'.args
        PROVE  (\E j \in Id : op = CallOf(j).args) \/ Issued(op)'
    <3>1. CASE k = new
      <4>1. op = OpOf(c)
        BY <1>6, <1>11, <2>1, <3>1
      <4> QED BY <1>26, <4>1, <1>17, <1>18 DEF Issued, OpOf, Busy, AgreedOn
    <3>2. CASE k # new
      BY <1>12, <1>13, <2>1, <3>2
    <3> QED BY <3>1, <3>2
  <2> QED BY <2>1
<1>28. \A d \in Client : d # c => clerk'[d] = clerk[d] /\ Len(calls'[d]) = Len(calls[d])
  BY <1>8, <1>18
<1> QED BY <1>3, <1>14, <1>20, <1>21, <1>24, <1>25, <1>27, <1>28, ClerkStepKeeps
(***************************************************************************)
(* The theorem.                                                            *)
(***************************************************************************)
\* A step that changes nothing.
LEMMA StutterKeeps == ASSUME Types, Agreeing, UNCHANGED vars PROVE Types' /\ Agreeing'
<1>1. UNCHANGED <<servers, calls, shutdowns>> /\ UNCHANGED logVars
      /\ UNCHANGED <<replicaVars, notifyChans, sending, handler, clerk, result, program, history>>
  BY DEF vars, netVars
<1>2. /\ servers' \in [Server -> Nat] /\ shutdowns' \in Nat /\ UNCHANGED <<agreed, calls>>
      /\ LogTypes'
  BY <1>1, LogTypesKept DEF Types, CallTypes, logVars
<1>3. \A op \in Op : IsCommand(op)' => IsCommand(op)
  BY <1>1 DEF IsCommand, logVars, Id, CallOf
<1> QED BY <1>1, <1>2, <1>3, QuietKeeps

\* The first state has the types.
LEMMA InitTypes == ASSUME Init PROVE Types
<1> USE DEF Init
<1>1. LogTypes
  <2>1. /\ agreed = <<>> /\ view = [s \in Server |-> <<>>] /\ term = [s \in Server |-> 0]
        /\ leading = {} /\ proposed = {}
    BY DEF LogInit
  <2>2. <<>> \in Seq(Entry) /\ Len(<<>>) = 0 /\ MaxIndex \in Nat
    BY AgreedLogAssumption
  <2> QED BY <2>1, <2>2 DEF LogTypes
<1>2. servers = [s \in Server |-> 1] /\ shutdowns = 0 /\ calls = [c \in Client |-> <<>>]
  BY DEF NetInit
<1>3. Id = {}
  BY <1>2 DEF Id
<1>4. CallTypes
  BY <1>2, <1>3 DEF CallTypes
<1>5. HandlerTypes
  BY <1>2, <1>3 DEF HandlerTypes
<1>6. NoConfig \in AnyConfig
  BY AnyConfigIsClosed DEF Closed
<1>7. ReplicaTypes
  BY <1>6 DEF ReplicaTypes
<1>8. ClerkTypes
  BY DEF ClerkTypes, Clerk, MakeClerk, Busy
<1>9. HistoryTypes
  BY <1>6 DEF HistoryTypes
<1> QED BY <1>1, <1>4, <1>5, <1>7, <1>8, <1>9 DEF Types

\* The invariant holds at first.
LEMMA InitAgrees == ASSUME Init PROVE Agreeing
<1> USE DEF Init
<1>1. agreed = <<>> /\ view = [s \in Server |-> <<>>] /\ proposed = {}
  BY DEF LogInit
<1>2. calls = [c \in Client |-> <<>>]
  BY DEF NetInit
<1>3. Id = {}
  BY <1>2 DEF Id
<1>4. clerk = [c \in Client |-> MakeClerk]
  OBVIOUS
<1>5. \A c \in Client : clerk[c].numOfOrders = 1 /\ clerk[c].st = "idle"
  BY <1>4 DEF MakeClerk
<1>6. \A c \in Client : Clerking(c)
  BY <1>5 DEF Clerking, Busy
<1>7. \A op : ~IsCommand(op)
  BY <1>1, <1>3 DEF IsCommand
<1>8. AllIssued
  BY <1>7 DEF AllIssued
<1>9. LogInOrder
  BY <1>1 DEF LogInOrder
<1>10. MadeIn(agreed, 0) = 0 /\ Len(agreed) = 0
  BY <1>1, MadeOfNone
<1>11. HistoryMade
  BY <1>1, <1>10 DEF HistoryMade, Made
<1>12. HistoryUpTo(0) = <<NoConfig>>
  <2>1. HistoryUpTo(0) = SubSeq(history, 1, 1 + MadeIn(agreed, 0))
    BY DEF HistoryUpTo, MadeIn, MakersIn
  <2>2. 1 + MadeIn(agreed, 0) = 1
    BY <1>10
  <2>3. SubSeq(history, 1, 1) = <<NoConfig>>
    <3>1. history = <<NoConfig>> /\ NoConfig \in {NoConfig} /\ history \in Seq({NoConfig})
      OBVIOUS
    <3>2. PICK p : p = SubSeq(history, 1, 1)
      OBVIOUS
    <3>3. p \in Seq({NoConfig}) /\ Len(p) = 1 /\ p[1] = NoConfig
      BY <3>1, <3>2
    <3>4. p = <<NoConfig>>
      BY <3>3
    <3> QED BY <3>2, <3>4
  <2> QED BY <2>1, <2>2, <2>3
<1>13. \A s \in Server : Serving(s)
  BY <1>10, <1>12 DEF Serving
<1> QED BY <1>3, <1>6, <1>8, <1>9, <1>11, <1>13 DEF Agreeing

\* A step keeps types and invariant.
LEMMA NextKeeps == ASSUME Types, Agreeing, [Next]_vars PROVE Types' /\ Agreeing'
<1>1. CASE \E c \in Client : ClerkStep(c)
  BY <1>1, InvokeKeeps, CallServerKeeps, CallFailsKeeps, CallReturnsKeeps DEF ClerkStep
<1>2. CASE \E k \in CallIds : HandlerStep(k) \/ NetworkStep(k)
  <2>1. PICK k \in CallIds : HandlerStep(k) \/ NetworkStep(k)
    BY <1>2
  <2>2. k \in Id
    <3>1. PICK c \in Client : k \in {c} \X DOMAIN calls[c]
      BY <2>1 DEF CallIds
    <3>2. DOMAIN calls[c] \subseteq Nat
      BY DEF Types, CallTypes
    <3> QED BY <3>1, <3>2 DEF Id
  <2>3. CASE HandlerStep(k)
    BY <2>2, <2>3, NotLeaderKeeps, StartOpKeeps, RegisterKeeps, NotifiedKeeps, TimesOutKeeps,
       ReadKeeps, LeaveKeeps DEF HandlerStep
  <2> QED BY <2>1, <2>2, <2>3, SendReplyKeeps
<1>3. CASE \E s \in Server : ApplyCommand(s) \/ Send(s) \/ ShutdownServer(s) \/ StartServer(s)
  BY <1>3, ApplyCommandKeeps, SendKeeps, ShutdownServerKeeps, StartServerKeeps
<1> QED BY <1>1, <1>2, <1>3, HarnessKeeps, AgreeKeeps, LeadershipKeeps, StutterKeeps DEF Next

\* Every state that the service comes to has the types and satisfies the invariant.
THEOREM ServiceIsSound == Spec => [](Types /\ Agreeing)
<1>1. Init => Types /\ Agreeing
  BY InitTypes, InitAgrees
<1>2. Types /\ Agreeing /\ [Next]_vars => (Types /\ Agreeing)'
  BY NextKeeps
<1> QED BY <1>1, <1>2, PTL DEF Spec

\* Replicas agree (server.go:385-434): each has exactly the configurations of the agreed log
\* up to what it has applied, whatever clerks repeat and servers replay.
THEOREM ReplicasAlwaysAgree == Spec => []ReplicasAgree
<1>1. Types /\ Agreeing => ReplicasAgree
  BY DEF Agreeing, Serving, ReplicasAgree
<1> QED BY <1>1, ServiceIsSound, PTL

(***************************************************************************)
(* The clerks see one history: ShardMaster implements ConfigHistory.       *)
(***************************************************************************)
Configurations == [Num : Nat, Shards : [Shard -> Gid \cup {0}], Groups : SUBSET Gid]

\* The last configuration is one; the ones before it were when they were the last.
Configured == history[Len(history)] \in Configurations

\* What the clerks have called, as ConfigHistory sees it.
Called(c) == IF Busy(c) THEN clerk[c].request ELSE Nil
TookEffect(c) == Busy(c) /\ ~Asks(c) /\ \E n \in DOMAIN agreed : agreed[n].op = OpOf(c)
Answers(c) == IF Asks(c) THEN {Answer(HistoryUpTo(n), clerk[c].request.Num) :
                                n \in clerk[c].since .. Len(agreed)}
                         ELSE {}

\* Shards are the same in both specifications.
LEMMA SameShards == History!Shard = Shard
BY DEF History!Shard, Shard

\* Neither are sizes and minima.
LEMMA SameCardinality == ASSUME NEW S PROVE History!Cardinality(S) = Cardinality(S)
BY DEF History!Cardinality, Cardinality

LEMMA SameMin == ASSUME NEW S PROVE History!Min(S) = Min(S)
BY DEF History!Min, Min

\* The least of a set of numbers is its minimum.
LEMMA LeastIsMin ==
  ASSUME NEW T \in SUBSET Nat, NEW m \in T, \A n \in T : m <= n
  PROVE  Min(T) = m
<1>1. Min(T) \in T /\ \A n \in T : Min(T) <= n
  BY DEF Min
<1>2. Min(T) <= m /\ m <= Min(T) /\ Min(T) \in Nat /\ m \in Nat
  BY <1>1
<1> QED BY <1>2

\* rebalance changes the shards only, and divides them evenly with the fewest moves.
LEMMA Rebalances ==
  ASSUME NEW config \in Configurations
  PROVE  \E shards \in History!Rebalanced(config.Shards, config.Groups) :
           /\ shards \in [Shard -> Gid \cup {0}]
           /\ rebalance(config) = [Num |-> config.Num, Shards |-> shards, Groups |-> config.Groups]
<1>1. PICK old, members : old = config.Shards /\ members = config.Groups
  OBVIOUS
<1>2. old \in [Shard -> Gid \cup {0}] /\ members \in SUBSET Gid
  BY <1>1 DEF Configurations
<1>3. PICK shards : shards = IF members = {} THEN [x \in Shard |-> 0]
                                             ELSE AllLeveled(AllSettled(config)).Shards
  OBVIOUS
<1>4. rebalance(config) = [Num |-> config.Num, Shards |-> shards, Groups |-> members]
  <2>1. rebalance(config) = [config EXCEPT !.Shards = shards]
    BY Zenon, <1>1, <1>3 DEF rebalance
  <2> QED BY <1>1, <2>1 DEF Configurations
<1> DEFINE Even == History!Even[members]
<1>5. /\ shards \in Even /\ shards \in [Shard -> Gid \cup {0}]
      /\ \A other \in Even : Cardinality(Moved(old, shards)) <= Cardinality(Moved(old, other))
  <2>1. CASE members = {}
    <3>1. Even = {[x \in Shard |-> 0]}
      BY <1>2, <2>1, SameShards DEF History!Even
    <3>2. shards = [x \in Shard |-> 0]
      BY <1>3, <2>1
    <3>3. Cardinality(Moved(old, shards)) \in Nat
      BY MovedFinite
    <3> HIDE DEF Even
    <3>4. shards \in Even /\ \A other \in Even : other = shards
      BY <3>1, <3>2
    <3>5. \A other \in Even : Cardinality(Moved(old, shards)) <= Cardinality(Moved(old, other))
      <4> TAKE other \in Even
      <4>1. other = shards
        BY <3>4
      <4> QED BY <3>3, <4>1
    <3> QED BY <3>2, <3>4, <3>5
  <2>2. CASE members # {}
    <3>1. \A t, g : History!Load(t, g) = Load(t, g)
      BY SameShards, SameCardinality DEF History!Load, Load
    <3>2. Even = {t \in [Shard -> members] :
                    \A g, h \in members : History!Load(t, g) <= History!Load(t, h) + 1}
      BY <1>2, <2>2, SameShards DEF History!Even
    <3>3. \A t : t \in Even <=> t \in [Shard -> members] /\ EvenOver(t, members)
      BY <3>1, <3>2 DEF EvenOver
    <3> HIDE DEF Even
    <3>4. /\ config.Shards \in [Shard -> Gid \cup {0}] /\ config.Groups \in SUBSET Gid
          /\ config.Groups # {}
      BY <1>1, <1>2, <2>2
    <3>5. shards = AllLeveled(AllSettled(config)).Shards
      BY <1>3, <2>2
    <3>6. /\ shards \in [Shard -> members] /\ EvenOver(shards, members)
          /\ \A other \in [Shard -> members] : EvenOver(other, members) =>
               Cardinality(Moved(old, shards)) <= Cardinality(Moved(old, other))
      BY <1>1, <3>4, <3>5, RebalanceDivides
    <3>7. shards \in [Shard -> Gid \cup {0}]
      BY <1>2, <3>6
    <3> QED BY <3>3, <3>6, <3>7
  <2> QED BY <2>1, <2>2
<1>6. shards \in History!Rebalanced(old, members)
  <2> DEFINE moves(t) == Cardinality({x \in History!Shard : old[x] # t[x]})
             T == {moves(t) : t \in Even}
  <2>1. \A t : moves(t) = Cardinality(Moved(old, t)) /\ moves(t) \in Nat
    BY SameShards, MovedFinite DEF Moved
  <2>2. History!Rebalanced(old, members) = {t \in Even : moves(t) = Min(T)}
    BY SameCardinality, SameMin DEF History!Rebalanced
  <2> HIDE DEF moves, Even
  <2>3. T \in SUBSET Nat /\ moves(shards) \in T /\ \A n \in T : moves(shards) <= n
    BY <1>5, <2>1
  <2> HIDE DEF T
  <2>4. Min(T) = moves(shards)
    BY <2>3, LeastIsMin
  <2> QED BY <1>5, <2>2, <2>4
<1> QED BY <1>1, <1>4, <1>5, <1>6

\* rebalance divides the shards evenly among the members and moves as few of them as that
\* takes, whatever they are given to before (server.go:58-146).
THEOREM RebalanceDividesEvenly == RebalanceIsEven
<1> SUFFICES ASSUME NEW old \in [Shard -> Gid \cup {0}], NEW members \in SUBSET Gid
             PROVE  rebalance([Num |-> 0, Shards |-> old, Groups |-> members]).Shards
                      \in History!Rebalanced(old, members)
  BY DEF RebalanceIsEven
<1>1. PICK config : config = [Num |-> 0, Shards |-> old, Groups |-> members]
  OBVIOUS
<1>2. config \in Configurations /\ config.Shards = old /\ config.Groups = members
  BY <1>1 DEF Configurations
<1>3. PICK shards \in History!Rebalanced(old, members) :
        rebalance(config) = [Num |-> config.Num, Shards |-> shards, Groups |-> members]
  BY <1>2, Rebalances
<1>4. rebalance(config).Shards = shards
  BY <1>3
<1> QED BY <1>1, <1>3, <1>4

\* An answer, as ConfigHistory gives it.
LEMMA AnswerIsNow ==
  ASSUME NEW S, NEW cs \in Seq(S), cs # <<>>, NEW num \in Nat \cup {-1}
  PROVE  Answer(cs, num) = IF num \in 0 .. (Len(cs) - 1) THEN cs[num + 1] ELSE cs[Len(cs)]
<1>1. Last(cs) = cs[Len(cs)] /\ Len(cs) \in Nat \ {0}
  BY LastIs
<1>2. CASE num = -1 \/ num >= Len(cs)
  <2>1. num \notin 0 .. (Len(cs) - 1)
    BY <1>1, <1>2
  <2> QED BY <1>1, <1>2, <2>1 DEF Answer
<1>3. CASE ~(num = -1 \/ num >= Len(cs))
  <2>1. num \in 0 .. (Len(cs) - 1)
    BY <1>1, <1>3
  <2> QED BY <1>3, <2>1 DEF Answer
<1> QED BY <1>2, <1>3

\* A sequence up to its end.
LEMMA WholeSequence == ASSUME NEW S, NEW q \in Seq(S) PROVE SubSeq(q, 1, Len(q)) = q
<1>1. PICK p : p = SubSeq(q, 1, Len(q))
  OBVIOUS
<1>2. p \in Seq(S) /\ Len(p) = Len(q) /\ \A i \in 1 .. Len(q) : p[i] = q[i]
  BY <1>1
<1> QED BY <1>1, <1>2, SeqEqual

\* A change makes of the last configuration one of those that ConfigHistory allows.
LEMMA NewConfigSucceeds ==
  ASSUME Configured, NEW request \in Changes
  PROVE  LET new == NewConfig(history[Len(history)], request) IN
         new \in History!Successors(request) /\ new \in Configurations
<1>1. PICK last : last = history[Len(history)]
  OBVIOUS
<1>2. last \in Configurations /\ last = History!Latest
  BY <1>1 DEF Configured, History!Latest
<1>3. request \in Requests
  <2>1. request \in Requests \cup Queries /\ request.OpType # "Query"
    BY RequestIs DEF Changes
  <2>2. request \in Queries => request.OpType = "Query"
    BY DEF Queries
  <2> QED BY <2>1, <2>2
<1>4. PICK num, old, members : num = last.Num /\ old = last.Shards /\ members = last.Groups
  OBVIOUS
<1>5. /\ last = [Num |-> num, Shards |-> old, Groups |-> members]
      /\ num \in Nat /\ old \in [Shard -> Gid \cup {0}] /\ members \in SUBSET Gid
  BY <1>2, <1>4 DEF Configurations
<1>6. PICK config : config = [last EXCEPT !.Num = @ + 1]
  OBVIOUS
<1>7. config = [Num |-> num + 1, Shards |-> old, Groups |-> members] /\ num + 1 \in Nat
  BY <1>5, <1>6
<1>8. CASE request.OpType = "Move"
  <2>1. request.Shard \in Shard /\ request.GID \in Gid
    BY <1>3, <1>8 DEF Requests
  <2>2. PICK shards : shards = [old EXCEPT ![request.Shard] = request.GID]
    OBVIOUS
  <2>3. shards \in [Shard -> Gid \cup {0}]
    BY <1>5, <2>1, <2>2
  <2>4. PICK new : new = [Num |-> num + 1, Shards |-> shards, Groups |-> members]
    OBVIOUS
  <2>5. NewConfig(last, request) = [config EXCEPT !.Shards[request.Shard] = request.GID]
    BY <1>6, <1>8 DEF NewConfig
  <2>6. [config EXCEPT !.Shards[request.Shard] = request.GID] = new
    BY <1>7, <2>2, <2>4
  <2>7. new \in Configurations
    BY <1>5, <1>7, <2>3, <2>4 DEF Configurations
  <2>8. new \in History!Successors(request)
    BY <1>2, <1>4, <1>8, <2>2, <2>4 DEF History!Successors
  <2> QED BY <1>1, <2>5, <2>6, <2>7, <2>8
<1>9. CASE request.OpType # "Move"
  <2>1. request.OpType \in {"Join", "Leave"} /\ request.GIDs \in SUBSET Gid
    BY <1>3, <1>9 DEF Requests
  <2>2. PICK groups : groups = IF request.OpType = "Join" THEN members \cup request.GIDs
                                                       ELSE members \ request.GIDs
    OBVIOUS
  <2>3. groups \in SUBSET Gid /\ groups = History!Members(request)
    BY <1>2, <1>4, <1>5, <2>1, <2>2 DEF History!Members
  <2>4. PICK changed : changed = [Num |-> num + 1, Shards |-> old, Groups |-> groups]
    OBVIOUS
  <2>5. /\ changed \in Configurations /\ changed.Num = num + 1 /\ changed.Shards = old
        /\ changed.Groups = groups
    BY <1>5, <1>7, <2>3, <2>4 DEF Configurations
  <2>6. NewConfig(last, request) = rebalance(changed)
    <3>1. CASE request.OpType = "Join"
      <4>1. NewConfig(last, request) = rebalance([config EXCEPT !.Groups = @ \cup request.GIDs])
        BY <1>6, <3>1 DEF NewConfig
      <4>2. [config EXCEPT !.Groups = @ \cup request.GIDs] = changed
        <5>1. groups = members \cup request.GIDs
          BY <2>2, <3>1
        <5>2. [config EXCEPT !.Groups = @ \cup request.GIDs] = [config EXCEPT !.Groups = groups]
          BY <1>7, <5>1
        <5>3. [config EXCEPT !.Groups = groups] = changed
          BY <1>7, <2>4
        <5> QED BY <5>2, <5>3
      <4> QED BY <4>1, <4>2
    <3>2. CASE request.OpType = "Leave"
      <4>1. NewConfig(last, request) = rebalance([config EXCEPT !.Groups = @ \ request.GIDs])
        BY <1>6, <3>2 DEF NewConfig
      <4>2. groups = members \ request.GIDs
        BY <2>2, <3>2
      <4>3. [config EXCEPT !.Groups = @ \ request.GIDs] = [config EXCEPT !.Groups = groups]
        BY <1>7, <4>2
      <4>4. [config EXCEPT !.Groups = groups] = changed
        BY <1>7, <2>4
      <4> QED BY <4>1, <4>3, <4>4
    <3> QED BY <2>1, <3>1, <3>2
  <2>7. PICK shards \in History!Rebalanced(old, groups) :
          /\ shards \in [Shard -> Gid \cup {0}]
          /\ rebalance(changed) = [Num |-> num + 1, Shards |-> shards, Groups |-> groups]
    BY <2>5, Rebalances
  <2>8. rebalance(changed) \in Configurations
    BY <1>7, <2>3, <2>7 DEF Configurations
  <2>9. rebalance(changed) \in History!Successors(request)
    BY <1>2, <1>4, <1>9, <2>3, <2>7 DEF History!Successors
  <2> QED BY <1>1, <2>6, <2>8, <2>9
<1> QED BY <1>8, <1>9

\* Nothing has happened at first.
LEMMA HistoryInit == ASSUME Init PROVE History!Init /\ Configured
<1>1. history = <<NoConfig>> /\ \A c \in Client : ~Busy(c)
  BY DEF Init, MakeClerk, Busy
<1>2. \A c \in Client : ~Asks(c)
  BY <1>1 DEF Asks
<1>3. /\ [c \in Client |-> Called(c)] = [c \in Client |-> Nil]
      /\ [c \in Client |-> TookEffect(c)] = [c \in Client |-> FALSE]
      /\ [c \in Client |-> Answers(c)] = [c \in Client |-> {}]
  BY <1>1, <1>2 DEF Called, TookEffect, Answers
<1>4. NoConfig = [Num |-> 0, Shards |-> [x \in History!Shard |-> 0], Groups |-> {}]
  BY SameShards DEF NoConfig
<1>5. result = [c \in Client |-> Nil]
  BY DEF Init
<1>6. History!Init
  BY <1>1, <1>3, <1>4, <1>5 DEF History!Init, Called, TookEffect, Answers
<1>7. NoConfig \in Configurations
  BY DEF NoConfig, Configurations
<1>8. Configured
  BY <1>1, <1>7 DEF Configured
<1> QED BY <1>6, <1>8

\* What clerks see does not change while the log, the history and their requests do not.
LEMMA HistoryStays ==
  ASSUME UNCHANGED <<agreed, history, result>>,
         \A c \in Client :
           /\ Busy(c)' <=> Busy(c)
           /\ clerk'[c].numOfOrders = clerk[c].numOfOrders
           /\ Busy(c) => clerk'[c].request = clerk[c].request /\ clerk'[c].since = clerk[c].since
  PROVE  UNCHANGED History!vars
<1>1. \A n : HistoryUpTo(n)' = HistoryUpTo(n)
  BY DEF HistoryUpTo, MakesConfig
<1>2. ASSUME NEW c \in Client
      PROVE  /\ Called(c)' = Called(c) /\ TookEffect(c)' = TookEffect(c)
             /\ Answers(c)' = Answers(c)
  <2>1. CASE ~Busy(c)
    <3>1. ~Busy(c)' /\ ~Asks(c) /\ ~Asks(c)'
      BY <2>1 DEF Asks
    <3> QED BY <2>1, <3>1 DEF Called, TookEffect, Answers
  <2>2. CASE Busy(c)
    <3>1. /\ Busy(c)' /\ clerk'[c].request = clerk[c].request
          /\ clerk'[c].since = clerk[c].since
      BY <2>2
    <3>2. Asks(c)' <=> Asks(c)
      BY <2>2, <3>1 DEF Asks
    <3>3. Called(c)' = Called(c)
      BY <2>2, <3>1 DEF Called
    <3>4. OpOf(c)' = OpOf(c)
      BY <3>1 DEF OpOf
    <3>5. TookEffect(c)' = TookEffect(c)
      BY <2>2, <3>1, <3>2, <3>4 DEF TookEffect
    <3>6. Answers(c)' = Answers(c)
      BY <1>1, <3>1, <3>2 DEF Answers
    <3> QED BY <3>3, <3>5, <3>6
  <2> QED BY <2>1, <2>2
<1>3. /\ [c \in Client |-> Called(c)]' = [c \in Client |-> Called(c)]
      /\ [c \in Client |-> TookEffect(c)]' = [c \in Client |-> TookEffect(c)]
      /\ [c \in Client |-> Answers(c)]' = [c \in Client |-> Answers(c)]
  BY <1>2
<1> QED BY <1>3 DEF History!vars, Called, TookEffect, Answers

\* The history is that of the whole log.
LEMMA LatestHistory ==
  ASSUME Types, Agreeing
  PROVE  /\ Len(agreed) \in Nat /\ DOMAIN agreed = 1 .. Len(agreed)
         /\ HistoryUpTo(Len(agreed)) = history
<1>1. Len(agreed) \in Nat /\ DOMAIN agreed = 1 .. Len(agreed)
  BY DEF Types, LogTypes
<1>2. HistoryUpTo(Len(agreed)) = SubSeq(history, 1, Len(history))
  BY DEF HistoryUpTo, Agreeing, HistoryMade, Made, MadeIn, MakersIn
<1> QED BY <1>1, <1>2, WholeSequence DEF Types, HistoryTypes

\* A clerk that is asked calls.
LEMMA InvokeCalls ==
  ASSUME Types, Agreeing, NEW c \in Client, Invoke(c)
  PROVE  History!Next
<1>1. PICK request \in program[c][clerk[c].numOfOrders] :
        clerk' = [clerk EXCEPT ![c].st = "trying", ![c].request = request,
                               ![c].since = Len(agreed)]
  BY DEF Invoke
<1>2. /\ clerk[c].st = "idle" /\ clerk[c].numOfOrders \in DOMAIN program[c]
      /\ UNCHANGED <<logVars, result, history>>
  BY DEF Invoke
<1>3. request \in Request /\ request # Nil
      /\ (request.OpType = "Query" => request.Num \in Nat \cup {-1})
  BY <1>1, <1>2, ProgramGives, RequestIs DEF Types
<1>4. PICK N : N = Len(agreed)
  OBVIOUS
<1>5. N \in Nat /\ DOMAIN agreed = 1 .. N /\ HistoryUpTo(N) = history
  BY <1>4, LatestHistory
<1> DEFINE r == [clerk[c] EXCEPT !.st = "trying", !.request = request, !.since = N]
<1>6. r.st = "trying" /\ r.request = request /\ r.since = N
      /\ r.numOfOrders = clerk[c].numOfOrders
  <2>1. clerk[c] \in Clerk
    BY DEF Types, ClerkTypes
  <2> QED BY <2>1 DEF Clerk
<1>7. clerk' = [clerk EXCEPT ![c] = r]
  BY <1>1, <1>4 DEF Types, ClerkTypes
<1> HIDE DEF r
<1>8. clerk'[c] = r /\ \A d \in Client : d # c => clerk'[d] = clerk[d]
  BY <1>7 DEF Types, ClerkTypes
<1>9. UNCHANGED <<agreed, history, result>>
  BY <1>2 DEF logVars
<1>10. \A n : HistoryUpTo(n)' = HistoryUpTo(n)
  BY <1>9 DEF HistoryUpTo, MakesConfig
<1>11. ~Busy(c) /\ Busy(c)' /\ (Asks(c)' <=> request.OpType = "Query") /\ ~Asks(c)
  BY <1>2, <1>6, <1>8 DEF Busy, Asks
<1>12. ASSUME NEW d \in Client, d # c
       PROVE  /\ Called(d)' = Called(d) /\ TookEffect(d)' = TookEffect(d)
              /\ Answers(d)' = Answers(d)
  <2>1. clerk'[d] = clerk[d]
    BY <1>8, <1>12
  <2> QED BY <1>9, <1>10, <2>1 DEF Called, TookEffect, Answers, Busy, Asks, OpOf
<1>13. Called(c) = Nil /\ Called(c)' = request
  BY <1>6, <1>8, <1>11 DEF Called
<1>14. ~TookEffect(c) /\ ~TookEffect(c)'
  <2>1. ASSUME NEW n \in DOMAIN agreed, agreed[n].op = OpOf(c)' PROVE FALSE
    <3>1. Issued(agreed[n].op) /\ agreed[n].op \in Op
      BY EntryIssued
    <3>2. agreed[n].op.ClientId = c /\ agreed[n].op.CommandId = clerk[c].numOfOrders
      BY <1>6, <1>8, <2>1 DEF OpOf
    <3>3. Busy(c)
      BY <3>1, <3>2, IsOpOf
    <3> QED BY <1>11, <3>3
  <2>2. ~TookEffect(c)'
    BY <1>9, <2>1 DEF TookEffect
  <2> QED BY <1>11, <2>2 DEF TookEffect
<1>15. TookEffect(c) \in BOOLEAN /\ TookEffect(c)' \in BOOLEAN
  BY DEF TookEffect
<1>16. Answers(c)' = IF request.OpType = "Query" THEN {History!AnswerNow(request.Num)} ELSE {}
  <2>1. CASE request.OpType # "Query"
    BY <1>11, <2>1 DEF Answers
  <2>2. CASE request.OpType = "Query"
    <3>1. Answers(c)' = {Answer(HistoryUpTo(n), request.Num) : n \in N .. N}
      BY <1>4, <1>6, <1>8, <1>9, <1>10, <1>11, <2>2 DEF Answers
    <3>2. \A n : n \in N .. N <=> n = N
      BY <1>5
    <3>3. Answer(HistoryUpTo(N), request.Num) = History!AnswerNow(request.Num)
      <4>1. history \in Seq(AnyConfig) /\ history # <<>>
        BY DEF Types, HistoryTypes
      <4>2. Answer(history, request.Num) =
              IF request.Num \in 0 .. (Len(history) - 1) THEN history[request.Num + 1]
                                                         ELSE history[Len(history)]
        BY <1>3, <2>2, <4>1, AnswerIsNow
      <4> QED BY <1>5, <4>2 DEF History!AnswerNow, History!Latest
    <3> QED BY <2>2, <3>1, <3>2, <3>3
  <2> QED BY <2>1, <2>2
<1> DEFINE called == [d \in Client |-> Called(d)]
           effective == [d \in Client |-> TookEffect(d)]
           seen == [d \in Client |-> Answers(d)]
<1>17. called[c] = Nil /\ called' = [called EXCEPT ![c] = request]
  BY <1>12, <1>13
<1>18. effective' = effective
  <2>1. \A d \in Client : TookEffect(d)' = TookEffect(d)
    BY <1>12, <1>14, <1>15
  <2> QED BY <2>1
<1>19. seen' = [seen EXCEPT ![c] = IF request.OpType = "Query"
                                     THEN {History!AnswerNow(request.Num)} ELSE {}]
  <2>1. \A d \in Client : d # c => Answers(d)' = Answers(d)
    BY <1>12
  <2> QED BY <1>16, <2>1
<1>20. History!Call(c, request)
  BY <1>9, <1>17, <1>18, <1>19 DEF History!Call, Called, TookEffect, Answers
<1> QED BY <1>3, <1>20 DEF History!Next

\* What a call's return to a clerk does.
LEMMA CallReturnsGives ==
  ASSUME Types, Agreeing, NEW c \in Client, CallReturns(c), NEW reply, NEW done,
         reply = CallOf(Current(c)).reply, done = ~reply.WrongLeader
  PROVE  /\ UNCHANGED <<agreed, history>> /\ done \in BOOLEAN
         /\ \A d \in Client : d # c => clerk'[d] = clerk[d] /\ result'[d] = result[d]
         /\ Busy(c) /\ (Busy(c)' <=> ~done)
         /\ clerk'[c].request = clerk[c].request /\ clerk'[c].since = clerk[c].since
         /\ ~done => clerk'[c].numOfOrders = clerk[c].numOfOrders
         /\ DOMAIN result = Client /\ DOMAIN result' = Client
         /\ result' = IF done /\ clerk[c].request.OpType = "Query"
                        THEN [result EXCEPT ![c] = reply.Config] ELSE result
         /\ Good(OpOf(c), reply)
<1>1. /\ clerk[c].st = "waiting" /\ Progress(Current(c), "answering", "returned", Nil)
      /\ clerk' = [clerk EXCEPT ![c].st = IF done THEN "idle" ELSE "trying",
                                ![c].numOfOrders = IF done THEN @ + 1 ELSE @]
      /\ result' = [result EXCEPT ![c] =
                      IF done /\ clerk[c].request.OpType = "Query" THEN reply.Config ELSE @]
      /\ UNCHANGED <<logVars, history>>
  BY DEF CallReturns, Return
<1>2. clerk[c] \in Clerk /\ result \in [Client -> AnyConfig \cup {Nil}]
  BY DEF Types, ClerkTypes
<1>3. Current(c) \in Id /\ CallOf(Current(c)).args = OpOf(c)
  <2>1. Len(calls[c]) >= 1 /\ calls[c][Len(calls[c])].args = OpOf(c)
    BY <1>1 DEF Agreeing, Clerking
  <2> QED BY <2>1, LastCall DEF Types
<1>4. Good(OpOf(c), reply)
  <2>1. CallOf(Current(c)).st \in Replied
    BY <1>1 DEF Progress, Replied
  <2> QED BY <1>3, <2>1 DEF Agreeing, Handling, Placed
<1>5. PICK old, st, num : /\ old = clerk[c] /\ st = (IF done THEN "idle" ELSE "trying")
                          /\ num = IF done THEN old.numOfOrders + 1 ELSE old.numOfOrders
  OBVIOUS
<1>6. PICK r : r = [old EXCEPT !.st = st, !.numOfOrders = num]
  OBVIOUS
<1>7. r.request = old.request /\ r.since = old.since /\ r.st = st /\ r.numOfOrders = num
  BY <1>2, <1>5, <1>6 DEF Clerk
<1>8. clerk' = [clerk EXCEPT ![c] = r]
  BY <1>1, <1>5, <1>6 DEF Types, ClerkTypes
<1>9. clerk'[c] = r /\ \A d \in Client : d # c => clerk'[d] = clerk[d]
  BY <1>8 DEF Types, ClerkTypes
<1>10. done \in BOOLEAN
  OBVIOUS
<1>11. Busy(c) /\ (Busy(c)' <=> ~done)
  BY <1>1, <1>5, <1>7, <1>9, <1>10 DEF Busy
<1>12. result' = IF done /\ clerk[c].request.OpType = "Query"
                   THEN [result EXCEPT ![c] = reply.Config] ELSE result
  BY <1>1, <1>2
<1>13. /\ DOMAIN result = Client /\ DOMAIN result' = Client
       /\ \A d \in Client : d # c => result'[d] = result[d]
  BY <1>1, <1>2
<1>14. UNCHANGED <<agreed, history>>
  BY <1>1 DEF logVars
<1> QED BY <1>4, <1>5, <1>7, <1>9, <1>10, <1>11, <1>12, <1>13, <1>14

\* A call that returns with what was asked for ends the request.
LEMMA CallReturnsReturns ==
  ASSUME Types, Agreeing, NEW c \in Client, CallReturns(c)
  PROVE  History!Next \/ UNCHANGED History!vars
<1>1. PICK reply, done : reply = CallOf(Current(c)).reply /\ done = ~reply.WrongLeader
  OBVIOUS
<1>2. /\ UNCHANGED <<agreed, history>> /\ done \in BOOLEAN
      /\ \A d \in Client : d # c => clerk'[d] = clerk[d] /\ result'[d] = result[d]
      /\ Busy(c) /\ (Busy(c)' <=> ~done)
      /\ clerk'[c].request = clerk[c].request /\ clerk'[c].since = clerk[c].since
      /\ ~done => clerk'[c].numOfOrders = clerk[c].numOfOrders
      /\ result' = IF done /\ clerk[c].request.OpType = "Query"
                     THEN [result EXCEPT ![c] = reply.Config] ELSE result
      /\ Good(OpOf(c), reply)
  BY <1>1, CallReturnsGives
<1>3. CASE ~done
  <2>1. UNCHANGED <<agreed, history, result>>
    BY <1>2, <1>3
  <2>2. ASSUME NEW d \in Client
        PROVE  /\ Busy(d)' <=> Busy(d)
               /\ clerk'[d].numOfOrders = clerk[d].numOfOrders
               /\ Busy(d) => clerk'[d].request = clerk[d].request
                               /\ clerk'[d].since = clerk[d].since
    <3>1. CASE d = c
      BY <1>2, <1>3, <3>1
    <3>2. CASE d # c
      <4>1. clerk'[d] = clerk[d]
        BY <1>2, <3>2
      <4> QED BY <4>1 DEF Busy
    <3> QED BY <3>1, <3>2
  <2> QED BY <2>1, <2>2, HistoryStays
<1>4. CASE done
  <2>1. PICK request : request = clerk[c].request
    OBVIOUS
  <2>2. request \in Request /\ request # Nil
    BY <1>2, <2>1, RequestIs DEF Types, ClerkTypes
  <2>3. \A n : HistoryUpTo(n)' = HistoryUpTo(n)
    BY <1>2 DEF HistoryUpTo, MakesConfig
  <2>4. ASSUME NEW d \in Client, d # c
        PROVE  /\ Called(d)' = Called(d) /\ TookEffect(d)' = TookEffect(d)
               /\ Answers(d)' = Answers(d)
    <3>1. clerk'[d] = clerk[d] /\ agreed' = agreed
      BY <1>2, <2>4
    <3> QED BY <2>3, <3>1 DEF Called, TookEffect, Answers, Busy, Asks, OpOf
  <2>5. Called(c) = request /\ Called(c)' = Nil /\ ~TookEffect(c)' /\ Answers(c)' = {}
    BY <1>2, <1>4, <2>1 DEF Called, TookEffect, Answers, Asks
  <2>6. TookEffect(c) \in BOOLEAN /\ TookEffect(c)' \in BOOLEAN
    BY DEF TookEffect
  <2>7. AgreedOn(OpOf(c))
    BY <1>1, <1>2, <1>4 DEF Good
  <2> DEFINE called == [d \in Client |-> Called(d)]
             effective == [d \in Client |-> TookEffect(d)]
             seen == [d \in Client |-> Answers(d)]
  <2>8. called[c] = request /\ called' = [called EXCEPT ![c] = Nil]
    BY <2>4, <2>5
  <2>9. CASE request.OpType # "Query"
    <3>1. Answers(c) = {} /\ TookEffect(c)
      BY <1>2, <2>1, <2>7, <2>9 DEF Answers, TookEffect, Asks, AgreedOn
    <3>2. effective[c] /\ effective' = [effective EXCEPT ![c] = FALSE]
      <4>1. \A d \in Client : TookEffect(d)' = IF d = c THEN FALSE ELSE TookEffect(d)
        BY <2>4, <2>5, <2>6
      <4> QED BY <3>1, <4>1
    <3>3. seen' = seen
      <4>1. \A d \in Client : Answers(d)' = Answers(d)
        BY <2>4, <2>5, <3>1
      <4> QED BY <4>1
    <3>4. History!Writing(c)
      <4>1. called[c] # Nil /\ called[c].OpType # "Query"
        BY <2>2, <2>8, <2>9
      <4> QED BY <4>1 DEF History!Writing, Called
    <3>5. result' = result
      BY <1>2, <2>1, <2>9
    <3>6. History!ReturnWrite(c)
      BY <1>2, <2>8, <3>2, <3>3, <3>4, <3>5
      DEF History!ReturnWrite, Called, TookEffect, Answers
    <3> QED BY <3>6 DEF History!Next
  <2>10. CASE request.OpType = "Query"
    <3>1. reply.Config \in Answers(c)
      <4>1. Fresh(c, reply.Config, request.Num)
        <5>1. /\ OpOf(c).request = request /\ OpOf(c).ClientId = c
              /\ OpOf(c).CommandId = clerk[c].numOfOrders
          BY <2>1 DEF OpOf
        <5> QED BY <1>1, <1>2, <1>4, <2>10, <5>1 DEF Good
      <4>2. Asks(c)
        BY <1>2, <2>1, <2>10 DEF Asks
      <4> QED BY <2>1, <4>1, <4>2 DEF Fresh, Answers
    <3>2. effective' = effective
      <4>1. ~TookEffect(c)
        BY <2>1, <1>2, <2>10 DEF TookEffect, Asks
      <4>2. \A d \in Client : TookEffect(d)' = TookEffect(d)
        BY <2>4, <2>5, <2>6, <4>1
      <4> QED BY <4>2
    <3>3. seen[c] = Answers(c) /\ seen' = [seen EXCEPT ![c] = {}]
      BY <2>4, <2>5
    <3>4. History!Reading(c)
      <4>1. called[c] # Nil /\ called[c].OpType = "Query"
        BY <2>2, <2>8, <2>10
      <4> QED BY <4>1 DEF History!Reading, Called
    <3>5. \E config \in seen[c] : result' = [result EXCEPT ![c] = config]
      BY <1>2, <1>4, <2>1, <2>10, <3>1, <3>3
    <3>6. History!ReturnRead(c)
      BY <1>2, <2>8, <3>2, <3>3, <3>4, <3>5
      DEF History!ReturnRead, Called, TookEffect, Answers
    <3> QED BY <3>6 DEF History!Next
  <2> QED BY <2>9, <2>10
<1> QED BY <1>2, <1>3, <1>4

\* An operation that makes a configuration if it is agreed on next.
IsFirst(op) == op.request.OpType # "Query" /\ ~AgreedOn(op)

\* What is agreed on next, and the history with it.
LEMMA AgreeOnOpGives ==
  ASSUME Types, Agreeing, AgreeOnOp, NEW N \in Nat, N = Len(agreed), NEW op,
         op = agreed'[N + 1].op, NEW new, new = NewConfig(history[Len(history)], op.request)
  PROVE  /\ DOMAIN agreed = 1 .. N /\ Len(agreed') = N + 1 /\ DOMAIN agreed' = 1 .. N + 1
         /\ \A n \in 1 .. N : agreed'[n] = agreed[n]
         /\ op \in Op /\ Issued(op)
         /\ UNCHANGED <<clerk, result>>
         /\ history' = IF IsFirst(op) THEN Append(history, new) ELSE history
         /\ HistoryUpTo(N) = history /\ HistoryUpTo(N + 1)' = history'
         /\ \A n \in 0 .. N : HistoryUpTo(n)' = HistoryUpTo(n)
         /\ history' \in Seq(AnyConfig) /\ history' # <<>>
<1>1. /\ DOMAIN agreed = 1 .. N /\ Len(agreed') = N + 1 /\ DOMAIN agreed' = 1 .. N + 1
      /\ \A n \in 1 .. N : agreed'[n] = agreed[n]
      /\ agreed'[N + 1] \in Entry
      /\ \E s \in Server : \E n \in DOMAIN view[s] : agreed'[N + 1] = view[s][n]
      /\ LogTypes'
  BY AgreeGives DEF AgreeOnOp, Types
<1>2. HistoryTypes' /\ Grows /\ HistoryMade'
  BY HistoryFollows
<1>3. op \in Op /\ Issued(op)
  <2>1. op \in Op
    BY <1>1 DEF Entry
  <2>2. IsCommand(op)
    BY <1>1 DEF IsCommand
  <2> QED BY <2>1, <2>2 DEF Agreeing, AllIssued
<1>4. Last(agreed') = agreed'[N + 1]
  BY <1>1 DEF Last
<1>5. Last(history) = history[Len(history)]
  BY LastIs DEF Types, HistoryTypes
<1>6. MakesConfig(agreed', N + 1) <=> IsFirst(op)
  <2>1. N + 1 - 1 = N
    OBVIOUS
  <2>2. MakesConfig(agreed', N + 1) <=>
          op.request.OpType # "Query" /\ \A n \in 1 .. N : agreed'[n].op # op
    BY <2>1 DEF MakesConfig
  <2> QED BY <1>1, <2>2 DEF IsFirst, AgreedOn
<1>7. history' = IF IsFirst(op) THEN Append(history, new) ELSE history
  BY <1>1, <1>4, <1>5, <1>6 DEF AgreeOnOp
<1>8. HistoryUpTo(N) = history
  BY LatestHistory
<1>9. history' \in Seq(AnyConfig) /\ history' # <<>>
  BY <1>2 DEF HistoryTypes
<1>10. HistoryUpTo(N + 1)' = history'
  <2>1. Len(history') = 1 + MadeIn(agreed', N + 1)
    BY <1>1, <1>2 DEF HistoryMade, Made
  <2>2. HistoryUpTo(N + 1)' = SubSeq(history', 1, Len(history'))
    BY <2>1 DEF HistoryUpTo, MadeIn, MakersIn
  <2> QED BY <1>9, <2>2, WholeSequence
<1>11. \A n \in 0 .. N : HistoryUpTo(n)' = HistoryUpTo(n)
  BY <1>2 DEF Grows
<1>12. UNCHANGED <<clerk, result>>
  BY DEF AgreeOnOp
<1> QED BY <1>1, <1>3, <1>7, <1>8, <1>9, <1>10, <1>11, <1>12

\* What a Query may answer, once one entry more is agreed on.
LEMMA AnswersNext ==
  ASSUME Types, Agreeing, UNCHANGED clerk, NEW N \in Nat, N = Len(agreed), Len(agreed') = N + 1,
         HistoryUpTo(N) = history, HistoryUpTo(N + 1)' = history',
         \A n \in 0 .. N : HistoryUpTo(n)' = HistoryUpTo(n),
         NEW d \in Client, Asks(d)
  PROVE  /\ Answers(d)' = Answers(d) \cup {Answer(history', clerk[d].request.Num)}
         /\ Answer(history, clerk[d].request.Num) \in Answers(d)
<1>1. PICK since, num : since = clerk[d].since /\ num = clerk[d].request.Num
  OBVIOUS
<1>2. since \in Nat /\ since <= N
  BY <1>1 DEF Asks, Agreeing, Clerking, Types, ClerkTypes, Clerk
<1>3. Answers(d) = {Answer(HistoryUpTo(n), num) : n \in since .. N}
  BY <1>1 DEF Answers
<1>4. Answers(d)' = {Answer(HistoryUpTo(n)', num) : n \in since .. N + 1}
  <2>1. Asks(d)' /\ clerk'[d].since = since /\ clerk'[d].request.Num = num
    BY <1>1 DEF Asks, Busy
  <2> QED BY <2>1 DEF Answers
<1>5. \A n \in since .. N : n \in 0 .. N /\ n \in since .. N + 1
  BY <1>2
<1>6. \A n \in since .. N + 1 : n \in since .. N \/ n = N + 1
  BY <1>2
<1>7. N + 1 \in since .. N + 1 /\ N \in since .. N
  BY <1>2
<1> QED BY <1>1, <1>3, <1>4, <1>5, <1>6, <1>7

\* An entry is agreed on: a change takes effect, if it is the first entry with it.
LEMMA AgreeTakesEffect ==
  ASSUME Types, Agreeing, Configured, AgreeOnOp
  PROVE  Configured' /\ (History!Next \/ UNCHANGED History!vars)
<1>1. PICK N \in Nat : N = Len(agreed)
  BY DEF Types, LogTypes
<1>2. PICK op : op = agreed'[N + 1].op
  OBVIOUS
<1>3. PICK new : new = NewConfig(history[Len(history)], op.request)
  OBVIOUS
<1>4. /\ DOMAIN agreed = 1 .. N /\ Len(agreed') = N + 1 /\ DOMAIN agreed' = 1 .. N + 1
      /\ \A n \in 1 .. N : agreed'[n] = agreed[n]
      /\ op \in Op /\ Issued(op)
      /\ UNCHANGED <<clerk, result>>
      /\ history' = IF IsFirst(op) THEN Append(history, new) ELSE history
      /\ HistoryUpTo(N) = history /\ HistoryUpTo(N + 1)' = history'
      /\ \A n \in 0 .. N : HistoryUpTo(n)' = HistoryUpTo(n)
      /\ history' \in Seq(AnyConfig) /\ history' # <<>>
  BY <1>1, <1>2, <1>3, AgreeOnOpGives
<1>5. IsFirst(op) => op.request \in Changes /\ new \in History!Successors(op.request)
                 /\ new \in Configurations
  <2> SUFFICES ASSUME IsFirst(op)
               PROVE  op.request \in Changes /\ new \in History!Successors(op.request)
                        /\ new \in Configurations
    OBVIOUS
  <2>1. op.request \in Changes
    BY <1>4 DEF IsFirst, Op, Changes
  <2> QED BY <1>3, <2>1, NewConfigSucceeds
<1>6. Configured'
  <2>1. CASE IsFirst(op)
    <3>1. history' = Append(history, new) /\ history \in Seq(AnyConfig)
      BY <1>4, <2>1 DEF Types, HistoryTypes
    <3>2. history'[Len(history')] = new
      BY <3>1
    <3> QED BY <1>5, <2>1, <3>2 DEF Configured
  <2>2. CASE ~IsFirst(op)
    BY <1>4, <2>2 DEF Configured
  <2> QED BY <2>1, <2>2
<1>7. \A d \in Client : Called(d)' = Called(d) /\ (Asks(d)' <=> Asks(d))
  BY <1>4 DEF Called, Asks, Busy
<1>8. ASSUME NEW d \in Client
      PROVE  TookEffect(d)' <=> TookEffect(d) \/ (Busy(d) /\ ~Asks(d) /\ op = OpOf(d))
  <2>1. ASSUME NEW x
        PROVE  (\E n \in DOMAIN agreed' : agreed'[n].op = x)
               <=> (\E n \in DOMAIN agreed : agreed[n].op = x) \/ op = x
    BY <1>2, <1>4
  <2>2. OpOf(d)' = OpOf(d) /\ (Busy(d)' <=> Busy(d))
    BY <1>4 DEF OpOf, Busy
  <2> QED BY <1>7, <2>1, <2>2 DEF TookEffect
<1>9. ASSUME NEW d \in Client, Asks(d)
       PROVE  /\ Answers(d)' = Answers(d) \cup {Answer(history', clerk[d].request.Num)}
              /\ Answer(history, clerk[d].request.Num) \in Answers(d)
  BY <1>1, <1>4, <1>9, AnswersNext
<1>10. ASSUME NEW d \in Client, ~Asks(d) PROVE Answers(d) = {} /\ Answers(d)' = {}
  BY <1>7, <1>10 DEF Answers
<1>11. \A d \in Client : TookEffect(d) \in BOOLEAN /\ TookEffect(d)' \in BOOLEAN
  BY DEF TookEffect
<1> DEFINE called == [d \in Client |-> Called(d)]
           effective == [d \in Client |-> TookEffect(d)]
           seen == [d \in Client |-> Answers(d)]
<1>12. called' = called /\ result' = result
  BY <1>4, <1>7
<1>13. CASE ~IsFirst(op)
  <2>1. history' = history
    BY <1>4, <1>13
  <2>2. seen' = seen
    <3>1. \A d \in Client : Answers(d)' = Answers(d)
      BY <1>9, <1>10, <2>1
    <3> QED BY <3>1
  <2>3. effective' = effective
    <3>1. ASSUME NEW d \in Client, Busy(d), ~Asks(d), op = OpOf(d) PROVE TookEffect(d)
      <4>1. op.request.OpType # "Query"
        BY <3>1 DEF OpOf, Asks
      <4>2. \E n \in 1 .. N : agreed[n].op = op
        BY <1>4, <1>13, <4>1 DEF IsFirst, AgreedOn
      <4> QED BY <1>4, <3>1, <4>2 DEF TookEffect
    <3>2. \A d \in Client : TookEffect(d)' <=> TookEffect(d)
      BY <1>8, <3>1
    <3>3. \A d \in Client : TookEffect(d)' = TookEffect(d)
      BY <1>11, <3>2
    <3> QED BY <3>3
  <2> QED BY <1>6, <1>12, <2>1, <2>2, <2>3 DEF History!vars, Called, TookEffect, Answers
<1>14. CASE IsFirst(op)
  <2>1. PICK c \in Client : c = op.ClientId
    BY <1>4 DEF Op
  <2>2. Busy(c) /\ op = OpOf(c)
    <3>1. ~AgreedOn(op)
      BY <1>14 DEF IsFirst
    <3>2. op.CommandId = clerk[op.ClientId].numOfOrders
      BY <1>4, <3>1 DEF Issued
    <3> QED BY <1>4, <2>1, <3>2, IsOpOf
  <2>3. op.request = clerk[c].request /\ op.request \in Changes /\ op.request # Nil
    <3>1. op.request = clerk[c].request
      BY <2>2 DEF OpOf
    <3>2. op.request \in Request
      BY <1>5, <1>14 DEF Changes
    <3> QED BY <1>5, <1>14, <3>1, <3>2, RequestIs
  <2>4. ~Asks(c)
    BY <2>3 DEF Asks, Changes
  <2>5. called[c] = op.request
    BY <2>2, <2>3 DEF Called
  <2>6. History!Writing(c)
    <3>1. called[c] # Nil /\ called[c].OpType # "Query"
      BY <2>3, <2>5 DEF Changes
    <3> QED BY <3>1 DEF History!Writing, Called
  <2>7. ~effective[c]
    <3>1. ~TookEffect(c)
      BY <1>14, <2>2 DEF IsFirst, AgreedOn, TookEffect
    <3> QED BY <3>1
  <2>8. effective' = [effective EXCEPT ![c] = TRUE]
    <3>1. TookEffect(c)'
      BY <1>8, <2>2, <2>4
    <3>2. ASSUME NEW d \in Client, d # c PROVE op # OpOf(d)
      BY <2>1, <3>2 DEF OpOf
    <3>3. \A d \in Client : d # c => (TookEffect(d)' <=> TookEffect(d))
      BY <1>8, <3>2
    <3>4. \A d \in Client : TookEffect(d)' = IF d = c THEN TRUE ELSE TookEffect(d)
      BY <1>11, <3>1, <3>3
    <3> QED BY <3>4
  <2>9. \E config \in History!Successors(called[c]) : history' = Append(history, config)
    BY <1>4, <1>5, <1>14, <2>5
  <2>10. ASSUME NEW d \in Client
         PROVE  /\ History!Reading(d) <=> Asks(d)
                /\ Asks(d) => called[d] = clerk[d].request
                                /\ called[d].Num \in Nat \cup {-1}
    <3>1. Busy(d) => clerk[d].request \in Request
      BY DEF Types, ClerkTypes
    <3>2. Busy(d) => clerk[d].request # Nil
      BY <3>1, RequestIs
    <3>3. Asks(d) => called[d] = clerk[d].request /\ called[d].Num \in Nat \cup {-1}
      BY <3>1, RequestIs DEF Asks, Called
    <3>4. Asks(d) <=> called[d] # Nil /\ called[d].OpType = "Query"
      BY <3>2 DEF Asks, Called
    <3>5. History!Reading(d) <=> called[d] # Nil /\ called[d].OpType = "Query"
      BY DEF History!Reading, Called
    <3> QED BY <3>3, <3>4, <3>5
  <2>11. ASSUME NEW num \in Nat \cup {-1}
         PROVE  Answer(history', num) =
                  IF num \in 0 .. (Len(history') - 1) THEN history'[num + 1]
                                                      ELSE history'[Len(history')]
    BY <1>4, AnswerIsNow
  <2>12. seen' = [d \in Client |->
                    IF History!Reading(d) THEN seen[d] \cup {History!AnswerNow(called[d].Num)'}
                                          ELSE seen[d]]
    <3>1. ASSUME NEW d \in Client
          PROVE  Answers(d)' = IF History!Reading(d)
                                 THEN Answers(d) \cup {History!AnswerNow(called[d].Num)'}
                                 ELSE Answers(d)
      <4>1. CASE Asks(d)
        <5>1. PICK num \in Nat \cup {-1} : num = clerk[d].request.Num /\ num = called[d].Num
          BY <2>10, <4>1
        <5>2. called'[d].Num = num
          BY <1>12, <5>1
        <5>3. History!AnswerNow(called[d].Num)' = Answer(history', num)
          BY <2>11, <5>2 DEF History!AnswerNow, History!Latest
        <5> QED BY <1>9, <2>10, <4>1, <5>1, <5>3
      <4>2. CASE ~Asks(d)
        BY <1>10, <2>10, <4>2
      <4> QED BY <4>1, <4>2
    <3> QED BY <3>1
  <2>13. History!TakeEffect(c)
    BY <1>12, <2>5, <2>6, <2>7, <2>8, <2>9, <2>12
    DEF History!TakeEffect, Called, TookEffect, Answers
  <2> QED BY <1>6, <2>13 DEF History!Next
<1> QED BY <1>13, <1>14

\* Clerks see nothing of a step that leaves them alone.
LEMMA QuietStays ==
  ASSUME UNCHANGED <<agreed, history, clerk, result>>
  PROVE  UNCHANGED History!vars
<1>1. \A c \in Client : clerk'[c] = clerk[c]
  OBVIOUS
<1>2. ASSUME NEW c \in Client
      PROVE  /\ Busy(c)' <=> Busy(c)
             /\ clerk'[c].numOfOrders = clerk[c].numOfOrders
             /\ Busy(c) => clerk'[c].request = clerk[c].request
                             /\ clerk'[c].since = clerk[c].since
  BY <1>1 DEF Busy
<1> QED BY <1>2, HistoryStays

\* Nor of calls and of failures.
LEMMA TriesStay ==
  ASSUME Types, NEW c \in Client, (\E s \in Server : CallServer(c, s)) \/ CallFails(c)
  PROVE  UNCHANGED history /\ UNCHANGED History!vars
<1>1. PICK st \in {"trying", "waiting"} : clerk' = [clerk EXCEPT ![c].st = st]
  BY Zenon DEF CallServer, CallFails
<1>2. clerk[c].st # "idle" /\ UNCHANGED <<logVars, result, history>>
  BY DEF CallServer, CallFails
<1>3. clerk[c] \in Clerk /\ clerk \in [Client -> Clerk]
  BY DEF Types, ClerkTypes
<1>4. PICK r : r = [clerk[c] EXCEPT !.st = st]
  OBVIOUS
<1>5. r.st = st /\ r.request = clerk[c].request /\ r.since = clerk[c].since
      /\ r.numOfOrders = clerk[c].numOfOrders
  BY <1>3, <1>4 DEF Clerk
<1>6. clerk' = [clerk EXCEPT ![c] = r]
  BY <1>1, <1>3, <1>4
<1>7. clerk'[c] = r /\ \A d \in Client : d # c => clerk'[d] = clerk[d]
  BY <1>3, <1>6
<1>8. UNCHANGED <<agreed, history, result>>
  BY <1>2 DEF logVars
<1>9. ASSUME NEW d \in Client
      PROVE  /\ Busy(d)' <=> Busy(d)
             /\ clerk'[d].numOfOrders = clerk[d].numOfOrders
             /\ Busy(d) => clerk'[d].request = clerk[d].request
                             /\ clerk'[d].since = clerk[d].since
  <2>1. CASE d = c
    BY <1>2, <1>5, <1>7, <2>1 DEF Busy
  <2>2. CASE d # c
    <3>1. clerk'[d] = clerk[d]
      BY <1>7, <2>2
    <3> QED BY <3>1 DEF Busy
  <2> QED BY <2>1, <2>2
<1> QED BY <1>8, <1>9, HistoryStays

\* Nor of what handlers, the network, replicas, the harness and leaders do.
LEMMA OthersStay ==
  ASSUME \/ \E k \in CallIds : HandlerStep(k) \/ NetworkStep(k)
         \/ \E s \in Server : ApplyCommand(s) \/ Send(s) \/ ShutdownServer(s) \/ StartServer(s)
         \/ HarnessStep \/ LeadershipStep
         \/ UNCHANGED vars
  PROVE  UNCHANGED <<agreed, history, clerk, result>>
<1>1. CASE \E k \in CallIds : HandlerStep(k) \/ NetworkStep(k)
  <2>1. PICK k \in CallIds : HandlerStep(k) \/ NetworkStep(k)
    BY <1>1
  <2>2. CASE StartOp(k)
    <3>1. PICK s, op : Start(s, op)
      BY <2>2 DEF StartOp
    <3> QED BY <2>2, <3>1 DEF StartOp, Start
  <2>3. CASE NotLeader(k) \/ Register(k) \/ Notified(k) \/ TimesOut(k) \/ Read(k) \/ Leave(k)
              \/ NetworkStep(k)
    BY <2>3 DEF NotLeader, Register, Notified, TimesOut, Read, Leave, NetworkStep, logVars
  <2> QED BY <2>1, <2>2, <2>3 DEF HandlerStep
<1>2. CASE \E s \in Server : ApplyCommand(s) \/ Send(s) \/ ShutdownServer(s) \/ StartServer(s)
  BY <1>2 DEF ApplyCommand, Send, ShutdownServer, StartServer, StepDown, logVars
<1>3. CASE HarnessStep
  BY <1>3 DEF HarnessStep, logVars
<1>4. CASE LeadershipStep
  BY <1>4 DEF LeadershipStep, Elect, StepDown
<1>5. CASE UNCHANGED vars
  BY <1>5 DEF vars, logVars
<1> QED BY <1>1, <1>2, <1>3, <1>4, <1>5

\* A step of the service is one of the history of configurations, or nothing.
LEMMA HistoryStep ==
  ASSUME Types, Agreeing, Configured, [Next]_vars
  PROVE  Configured' /\ [History!Next]_(History!vars)
<1>1. UNCHANGED history => Configured'
  BY DEF Configured
<1>2. CASE \E c \in Client : ClerkStep(c)
  <2>1. PICK c \in Client : ClerkStep(c)
    BY <1>2
  <2>2. CASE Invoke(c)
    BY <1>1, <2>2, InvokeCalls DEF Invoke
  <2>3. CASE (\E s \in Server : CallServer(c, s)) \/ CallFails(c)
    BY <1>1, <2>3, TriesStay
  <2>4. CASE CallReturns(c)
    <3>1. UNCHANGED history
      BY <2>4 DEF CallReturns
    <3> QED BY <1>1, <2>4, <3>1, CallReturnsReturns
  <2> QED BY <2>1, <2>2, <2>3, <2>4 DEF ClerkStep
<1>3. CASE AgreeOnOp
  BY <1>3, AgreeTakesEffect
<1>4. CASE \/ \E k \in CallIds : HandlerStep(k) \/ NetworkStep(k)
           \/ \E s \in Server : ApplyCommand(s) \/ Send(s) \/ ShutdownServer(s) \/ StartServer(s)
           \/ HarnessStep \/ LeadershipStep
           \/ UNCHANGED vars
  <2>1. UNCHANGED <<agreed, history, clerk, result>>
    BY <1>4, OthersStay
  <2> QED BY <1>1, <2>1, QuietStays
<1> QED BY <1>2, <1>3, <1>4 DEF Next

\* Clerks see one history of configurations (common.go:6-16): ShardMaster implements
\* ConfigHistory, for any servers, clerks, groups, shards and faults.
THEOREM ClerksSeeOneHistory == Spec => HistoryIsAtomic
<1>1. Init => History!Init /\ Configured
  BY HistoryInit
<1>2. Types /\ Agreeing /\ Configured /\ [Next]_vars => Configured' /\ [History!Next]_(History!vars)
  BY HistoryStep
<1>3. Spec => History!Init /\ [][History!Next]_(History!vars)
  BY <1>1, <1>2, ServiceIsSound, PTL DEF Spec
<1> QED BY <1>3 DEF HistoryIsAtomic, History!Spec
=============================================================================
