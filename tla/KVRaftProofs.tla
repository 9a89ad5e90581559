---------------------------- MODULE KVRaftProofs ----------------------------
(***************************************************************************)
(* Theorems about KVRaft, for any servers, clerks, keys, programs, crashes *)
(* and snapshots that do not come late: the replicas agree, and the clerks *)
(* see an atomic map.                                                      *)
(***************************************************************************)
EXTENDS KVRaftSafety, Integers, FiniteSetTheorems, SequenceTheorems,
        WellFoundedInduction, TLAPS

(***************************************************************************)
(* The map a log stands for is what its recursive definition says.  What   *)
(* holds for every number of entries is shown by a least counterexample.   *)
(***************************************************************************)
\* A non-empty set of natural numbers has a least element.
LEMMA LeastNatural ==
  ASSUME NEW T \in SUBSET Nat, T # {}
  PROVE  \E x \in T : \A y \in T : x <= y
<1> DEFINE R == StrictSubsetOrdering(Nat)
           A == {0 .. x : x \in T}
<1>1. IsWellFoundedOn(R, FiniteSubsetsOf(Nat))
  BY FS_StrictSubsetOrderingWellFounded
<1>2. A \subseteq FiniteSubsetsOf(Nat) /\ A # {}
  <2>1. \A x \in T : 0 .. x \subseteq Nat /\ IsFiniteSet(0 .. x)
    BY FS_Interval
  <2> QED BY <2>1 DEF FiniteSubsetsOf
<1>3. PICK U \in A : \A V \in A : <<V, U>> \notin R
  <2> HIDE DEF A, R
  <2> QED BY <1>1, <1>2, WFMin
<1>4. PICK x \in T : U = 0 .. x
  OBVIOUS
<1>5. \A y \in T : x <= y
  <2> SUFFICES ASSUME NEW y \in T, y < x PROVE FALSE
    OBVIOUS
  <2>1. 0 .. y \subseteq 0 .. x /\ x \in 0 .. x /\ x \notin 0 .. y
    OBVIOUS
  <2>2. <<0 .. y, 0 .. x>> \in R
    BY <2>1 DEF StrictSubsetOrdering
  <2> QED BY <2>2, <1>3, <1>4
<1> QED BY <1>5

\* f gives the maps after up to N entries.
GivesStores(f, entries, N) ==
  f = [n \in 0 .. N |-> IF n = 0 THEN EmptyStore ELSE Effect(f[n - 1], entries, n)]

\* There are such maps.
LEMMA StoresExist ==
  ASSUME NEW entries, NEW N \in Nat
  PROVE  \E f : GivesStores(f, entries, N)
<1> DEFINE T == {n \in Nat : ~\E f : GivesStores(f, entries, n)}
<1> SUFFICES ASSUME T # {} PROVE FALSE
  OBVIOUS
<1>1. PICK n \in T : \A m \in T : n <= m
  <2> HIDE DEF T
  <2>1. T \in SUBSET Nat
    BY DEF T
  <2> QED BY <2>1, LeastNatural
<1>2. CASE n = 0
  <2> DEFINE f == [m \in 0 .. 0 |-> EmptyStore]
  <2>1. GivesStores(f, entries, 0)
    BY DEF GivesStores
  <2> QED BY <1>2, <2>1
<1>3. CASE n # 0
  <2>1. n \in Nat /\ n - 1 \in Nat /\ n - 1 \notin T
    BY <1>1, <1>3
  <2>2. PICK g : GivesStores(g, entries, n - 1)
    BY <2>1
  <2> DEFINE f == [m \in 0 .. n |-> IF m = n THEN Effect(g[n - 1], entries, n) ELSE g[m]]
  <2>3. \A m \in 0 .. n - 1 :
          g[m] = IF m = 0 THEN EmptyStore ELSE Effect(g[m - 1], entries, m)
    BY <2>1, <2>2 DEF GivesStores
  <2>4. \A m \in 0 .. n :
          f[m] = IF m = 0 THEN EmptyStore ELSE Effect(f[m - 1], entries, m)
    BY <1>3, <2>1, <2>3
  <2>5. GivesStores(f, entries, n)
    BY <2>4 DEF GivesStores
  <2> QED BY <2>5
<1> QED BY <1>2, <1>3

\* The map after each number of entries.
LEMMA StoresGive ==
  ASSUME NEW entries, Len(entries) \in Nat
  PROVE  /\ DOMAIN StoresOf(entries) = 0 .. Len(entries)
         /\ StoresOf(entries)[0] = EmptyStore
         /\ \A n \in 1 .. Len(entries) :
              StoresOf(entries)[n] = Effect(StoresOf(entries)[n - 1], entries, n)
<1>1. GivesStores(StoresOf(entries), entries, Len(entries))
  BY StoresExist DEF StoresOf, GivesStores
<1> QED
  <2> DEFINE f == StoresOf(entries)
  <2> HIDE DEF f
  <2>1. GivesStores(f, entries, Len(entries))
    BY <1>1 DEF f
  <2>2. DOMAIN f = 0 .. Len(entries) /\ f[0] = EmptyStore
        /\ \A n \in 1 .. Len(entries) : f[n] = Effect(f[n - 1], entries, n)
    BY <2>1 DEF GivesStores
  <2> QED BY <2>2 DEF f

\* Further entries do not change the maps there were.
LEMMA StoresKept ==
  ASSUME NEW a, NEW b, Len(a) \in Nat, Len(b) \in Nat, Len(a) <= Len(b),
         \A n \in 1 .. Len(a) : a[n] = b[n]
  PROVE  \A n \in 0 .. Len(a) : StoresOf(b)[n] = StoresOf(a)[n]
<1> DEFINE f == StoresOf(a)
           g == StoresOf(b)
           T == {n \in 0 .. Len(a) : g[n] # f[n]}
<1> HIDE DEF f, g
<1>1. /\ f[0] = EmptyStore /\ g[0] = EmptyStore
      /\ \A n \in 1 .. Len(a) : f[n] = Effect(f[n - 1], a, n)
      /\ \A n \in 1 .. Len(b) : g[n] = Effect(g[n - 1], b, n)
  BY StoresGive DEF f, g
<1>2. SUFFICES ASSUME T # {} PROVE FALSE
  BY DEF f, g
<1>3. PICK n \in T : \A m \in T : n <= m
  <2> HIDE DEF T
  <2>1. T \in SUBSET Nat
    BY DEF T
  <2> QED BY <1>2, <2>1, LeastNatural
<1>4. n \in 1 .. Len(a) /\ n - 1 \in 0 .. Len(a) /\ n - 1 \notin T
  BY <1>1, <1>3
<1>5. g[n - 1] = f[n - 1]
  BY <1>4
<1>6. a[n] = b[n] /\ \A m \in 1 .. n - 1 : a[m] = b[m]
  BY <1>4
<1>7. FirstOccurrence(a, n) <=> FirstOccurrence(b, n)
  BY <1>6 DEF FirstOccurrence
<1>8. Effect(g[n - 1], b, n) = Effect(f[n - 1], a, n)
  BY <1>5, <1>6, <1>7 DEF Effect
<1>9. n \in 1 .. Len(b)
  BY <1>4
<1> QED BY <1>1, <1>3, <1>4, <1>8, <1>9

(***************************************************************************)
(* Types.                                                                  *)
(***************************************************************************)
Kinds == Writes \cup {"Get"}
Op == [kind : Kinds, key : Key, commiter : Clerk, pos : Nat]
Entry == [term : Nat, op : Op]
Value == Seq(Clerk \X Nat)
Answer == [err : {"OK", "ErrWrongLeader"}, value : Value \cup {Nil}]
Reply == Answer \cup {Nil}
CallStates ==
  {"sent", "checked", "started", "waiting", "reading", "leaving", "replied", "dead"}
Call == [server : Server, op : Op, st : CallStates, index : Nat, ch : Seq(Op \cup {Nil}),
         reply : Reply]
Snapshot == [index : Nat, kvstore : [Key -> Value], committed : [Clerk -> Nat]]

LogTypes ==
  /\ agreed \in Seq(Entry)
  /\ view \in [Server -> Seq(Entry)]
  /\ term \in [Server -> Nat]
  /\ leading \subseteq Server
  /\ proposed \subseteq [index : Nat, entry : Entry]

LoopState == [st : {"idle", "saving", "sending"}, op : Op \cup {Nil},
              todo : SUBSET (1 .. MaxIndex), drop : BOOLEAN]

ServerTypes ==
  /\ kvstore \in [Server -> [Key -> Value]]
  /\ CommittedStore \in [Server -> [Clerk -> Nat]]
  /\ applied \in [Server -> Nat]
  /\ notifyChs \in [Server -> [1 .. MaxIndex -> Nat]]
  /\ loop \in [Server -> LoopState]
  /\ disk \in [Server -> Snapshot]
  /\ snapshots \subseteq Snapshot

ClerkState == [st : {"idle", "trying", "waiting"}, op : Op \cup {Nil},
               call : Nat, since : Nat, numOfOrders : Nat, todo : Seq(Kinds \X Key), rpcs : Nat]

ClerkTypes ==
  /\ clerk \in [Clerk -> ClerkState]
  /\ \A c \in Clerk : clerk[c].st # "idle" => clerk[c].op \in Op
  /\ calls \in Seq(Call)
  /\ \A k \in DOMAIN calls :
       calls[k].st \in {"reading", "leaving", "replied"} => calls[k].reply \in Answer
  /\ result \in [Clerk -> Value \cup {Nil}]
  /\ restarts \in Nat

Types == LogTypes /\ ServerTypes /\ ClerkTypes

(***************************************************************************)
(* The invariant.                                                          *)
(***************************************************************************)
\* The write number p of clerk c is at index n of the log.
Has(n, c, p) ==
  LET op == agreed[n].op IN op.kind \in Writes /\ op.commiter = c /\ op.pos = p

AgreedOn(op) == \E n \in DOMAIN agreed : agreed[n].op = op

\* A command that is anywhere is its clerk's current one or has been agreed on.
Issued(op) ==
  LET c == op.commiter IN
    /\ op.kind = "Get" => op.pos = 0
    /\ op.kind \in Writes =>
         \/ op.pos \in 1 .. clerk[c].numOfOrders - 1 /\ AgreedOn(op)
         \/ op.pos = clerk[c].numOfOrders /\ clerk[c].st # "idle" /\ op = clerk[c].op

\* What a clerk is at, and what it has done.
Clerking(c) ==
  /\ clerk[c].numOfOrders >= 1
  /\ clerk[c].st # "idle" =>
       /\ clerk[c].op.commiter = c /\ Issued(clerk[c].op)
       /\ clerk[c].op.kind \in Writes => clerk[c].op.pos = clerk[c].numOfOrders
  /\ clerk[c].st = "waiting" =>
       clerk[c].call \in DOMAIN calls /\ calls[clerk[c].call].op = clerk[c].op
  /\ \A p \in 1 .. clerk[c].numOfOrders - 1 : \E n \in DOMAIN agreed : Has(n, c, p)

\* The commands in logs and calls.
IsCommand(op) ==
  \/ \E n \in DOMAIN agreed : op = agreed[n].op
  \/ \E s \in Server : \E n \in DOMAIN view[s] : op = view[s][n].op
  \/ \E p \in proposed : op = p.entry.op
  \/ \E k \in DOMAIN calls : op = calls[k].op

AllIssued == \A op \in Op : IsCommand(op) => Issued(op)

\* A clerk's writes come in their order, and no two have one number.
LogInOrder ==
  /\ \A m, n \in DOMAIN agreed, c \in Clerk, p \in Nat :
       Has(m, c, p) /\ Has(n, c, p) => agreed[m].op = agreed[n].op
  /\ \A n \in DOMAIN agreed, c \in Clerk, p \in Nat : Has(n, c, p) =>
       \A q \in 1 .. p - 1 : \E m \in 1 .. n - 1 : Has(m, c, q)

\* A map and a table of duplicates are those of the n first entries.
Stored(store, committed, n) ==
  /\ n <= Len(agreed) /\ store = Stores[n]
  /\ \A c \in Clerk :
       /\ committed[c] = 0 \/ \E m \in 1 .. n : Has(m, c, committed[c])
       /\ \A m \in 1 .. n, p \in Nat : Has(m, c, p) => p <= committed[c]

\* The handler has no channel yet.
Early == {"sent", "checked", "started"}

\* What the loop of s sends is the entry at the index it sends it for.
Looping(s) ==
  /\ loop[s].st # "idle" /\ loop[s].op # Nil =>
       applied[s] >= 1 /\ loop[s].op = agreed[applied[s]].op
  /\ loop[s].st = "sending" /\ loop[s].op # Nil => loop[s].todo \subseteq {applied[s]}

\* The channel of a handler is registered at its index.
Channels(s) ==
  \A n \in 1 .. MaxIndex : LET k == notifyChs[s][n] IN
    k # 0 => /\ k \in DOMAIN calls /\ calls[k].st \notin Early
             /\ calls[k].server = s /\ calls[k].index = n

Serving(s) ==
  /\ Stored(kvstore[s], CommittedStore[s], applied[s])
  /\ Stored(disk[s].kvstore, disk[s].committed, disk[s].index)

\* What a handler has on its channel, and what it replies to a write.
Handling(k) ==
  /\ calls[k].st \in Early => calls[k].ch = <<>>
  /\ calls[k].st = "reading" => calls[k].op.kind = "Get"
  /\ calls[k].st = "waiting" => \A i \in DOMAIN calls[k].ch :
       LET op == calls[k].ch[i] IN
         op # Nil => /\ calls[k].index \in 1 .. applied[calls[k].server]
                     /\ op = agreed[calls[k].index].op
  /\ calls[k].st \in {"leaving", "replied"} /\ calls[k].op.kind \in Writes
     /\ calls[k].reply.err = "OK" => AgreedOn(calls[k].op)

Agreeing ==
  /\ \A c \in Clerk : Clerking(c)
  /\ AllIssued /\ LogInOrder
  /\ \A s \in Server : Looping(s) /\ Channels(s) /\ Serving(s)
  /\ \A snap \in snapshots : Stored(snap.kvstore, snap.committed, snap.index)
  /\ \A k \in DOMAIN calls : Handling(k)

(***************************************************************************)
(* Every variable keeps its type.                                          *)
(***************************************************************************)
\* The initial state is typed.
LEMMA TypesInit == Init => Types
<1> SUFFICES ASSUME Init PROVE Types
  OBVIOUS
<1> USE KVAssumption
<1>1. <<>> \in Seq(Entry) /\ <<>> \in Seq(Call) /\ EmptyStore \in [Key -> Value]
  BY DEF EmptyStore, Value
<1>2. LogTypes
  BY <1>1 DEF Init, LogInit, LogTypes
<1>3. NoSnapshot \in Snapshot
  BY <1>1 DEF NoSnapshot, Snapshot
<1>4. ServerTypes
  BY <1>1, <1>3 DEF Init, ServerTypes, Idle, LoopState
<1>5. PICK scenario \in Scenarios :
        clerk = [c \in Clerk |-> MakeClerk(scenario.program[c], scenario.rpcs[c])]
  BY DEF Init
<1>6. \A c \in Clerk : scenario.program[c] \in Seq(Kinds \X Key) /\ scenario.rpcs[c] \in Nat
  <2>1. Kinds = {"Put", "Append", "Get"}
    BY DEF Kinds, Writes
  <2> QED BY <2>1
<1>7. \A c \in Clerk : clerk[c].st = "idle" /\ clerk[c] \in ClerkState
  BY <1>5, <1>6 DEF MakeClerk, ClerkState
<1>8. calls = <<>> /\ DOMAIN calls = {} /\ clerk \in [Clerk -> ClerkState]
  BY <1>5, <1>7 DEF Init
<1>9. ClerkTypes
  BY <1>1, <1>7, <1>8 DEF Init, ClerkTypes
<1> QED BY <1>2, <1>4, <1>9 DEF Types
\* What a step changes of the clerks, if of one of them.
LEMMA ClerkSet ==
  ASSUME clerk \in [Clerk -> ClerkState], NEW c \in Clerk, NEW r \in ClerkState,
         clerk' = [clerk EXCEPT ![c] = r]
  PROVE  /\ clerk' \in [Clerk -> ClerkState]
         /\ clerk'[c] = r /\ \A d \in Clerk : d # c => clerk'[d] = clerk[d]
OBVIOUS

\* What a step changes of the calls, if of one of them.
LEMMA CallSet ==
  ASSUME calls \in Seq(Call), NEW k \in DOMAIN calls, NEW r \in Call,
         calls' = [calls EXCEPT ![k] = r]
  PROVE  /\ calls' \in Seq(Call) /\ DOMAIN calls' = DOMAIN calls
         /\ calls'[k] = r /\ \A j \in DOMAIN calls : j # k => calls'[j] = calls[j]
<1>1. k \in 1 .. Len(calls) /\ DOMAIN calls = 1 .. Len(calls)
  OBVIOUS
<1>2. calls' \in Seq(Call) /\ Len(calls') = Len(calls)
  BY <1>1, ExceptSeq
<1> QED BY <1>1, <1>2

\* A clerk that is called has a new command.
LEMMA InvokeGives ==
  ASSUME Types, NEW c \in Clerk, Invoke(c)
  PROVE  /\ Types' /\ UNCHANGED <<logVars, serverVars, notifyChs, calls, result, restarts>>
         /\ \A d \in Clerk : d # c => clerk'[d] = clerk[d]
         /\ clerk[c].st = "idle" /\ clerk'[c].st = "trying"
         /\ clerk[c].todo # <<>> /\ clerk'[c].todo = Tail(clerk[c].todo)
         /\ clerk'[c].op = [kind |-> Head(clerk[c].todo)[1], key |-> Head(clerk[c].todo)[2],
                            commiter |-> c, pos |-> IF Head(clerk[c].todo)[1] = "Get"
                                                      THEN 0 ELSE clerk[c].numOfOrders]
         /\ clerk'[c].op \in Op
         /\ clerk'[c].since = Len(agreed) /\ clerk'[c].call = clerk[c].call
         /\ clerk'[c].numOfOrders = clerk[c].numOfOrders
<1> USE DEF Types, ClerkTypes
<1> DEFINE kind == Head(clerk[c].todo)[1]
           key == Head(clerk[c].todo)[2]
           op == [kind |-> kind, key |-> key, commiter |-> c,
                  pos |-> IF kind = "Get" THEN 0 ELSE clerk[c].numOfOrders]
           r == [clerk[c] EXCEPT !.st = "trying", !.op = op, !.todo = Tail(@),
                                 !.since = Len(agreed)]
<1>1. clerk[c] \in ClerkState /\ Len(agreed) \in Nat
  BY DEF LogTypes
<1>2. clerk[c].todo \in Seq(Kinds \X Key) /\ clerk[c].todo # <<>> /\ clerk[c].st = "idle"
  BY <1>1 DEF Invoke, ClerkState
<1>3. Head(clerk[c].todo) \in Kinds \X Key /\ Tail(clerk[c].todo) \in Seq(Kinds \X Key)
  BY <1>2
<1>4. kind \in Kinds /\ key \in Key /\ clerk[c].numOfOrders \in Nat
  BY <1>1, <1>3 DEF ClerkState
<1>5. op \in Op
  BY <1>4 DEF Op
<1>6. clerk' = [clerk EXCEPT ![c].st = "trying", ![c].op = op, ![c].todo = Tail(@),
                             ![c].since = Len(agreed)]
  BY DEF Invoke
<1>7. UNCHANGED <<logVars, serverVars, notifyChs, calls, result, restarts>>
  BY DEF Invoke
<1> HIDE DEF op
<1>8. clerk' = [clerk EXCEPT ![c] = r]
  BY <1>1, <1>6 DEF ClerkState
<1>9. r \in ClerkState
  BY <1>1, <1>3, <1>5 DEF ClerkState
<1>10. /\ r.st = "trying" /\ r.op = op /\ r.todo = Tail(clerk[c].todo)
       /\ r.since = Len(agreed) /\ r.call = clerk[c].call
       /\ r.numOfOrders = clerk[c].numOfOrders
  BY <1>1 DEF ClerkState
<1> HIDE DEF r
<1>11. /\ clerk' \in [Clerk -> ClerkState]
       /\ clerk'[c] = r /\ \A d \in Clerk : d # c => clerk'[d] = clerk[d]
  BY <1>8, <1>9, ClerkSet
<1>12. Types'
  BY <1>5, <1>7, <1>10, <1>11 DEF logVars, serverVars, LogTypes, ServerTypes
<1> QED BY <1>2, <1>5, <1>7, <1>10, <1>11, <1>12 DEF op

\* A call that is sent.
SentCall(c, s) == [server |-> s, op |-> clerk[c].op, st |-> "sent", index |-> 0,
                   ch |-> <<>>, reply |-> Nil]

\* A clerk that calls a server waits for it, and the request is on its way.
LEMMA CallServerGives ==
  ASSUME Types, NEW c \in Clerk, NEW s \in Server, CallServer(c, s)
  PROVE  /\ Types' /\ UNCHANGED <<logVars, serverVars, notifyChs, result, restarts>>
         /\ \A d \in Clerk : d # c => clerk'[d] = clerk[d]
         /\ clerk[c].st = "trying" /\ clerk'[c].st = "waiting"
         /\ clerk'[c].op = clerk[c].op /\ clerk'[c].since = clerk[c].since
         /\ clerk'[c].todo = clerk[c].todo
         /\ clerk'[c].numOfOrders = clerk[c].numOfOrders
         /\ Len(calls) \in Nat /\ DOMAIN calls = 1 .. Len(calls)
         /\ clerk'[c].call = Len(calls) + 1 /\ DOMAIN calls' = 1 .. Len(calls) + 1
         /\ calls'[Len(calls) + 1] = SentCall(c, s) /\ clerk[c].op \in Op
         /\ \A k \in DOMAIN calls : calls'[k] = calls[k]
<1> USE DEF Types, ClerkTypes
<1> DEFINE n == clerk[c].rpcs - 1
           m == Len(calls')
           r == [clerk[c] EXCEPT !.st = "waiting", !.rpcs = n, !.call = m]
<1>1. clerk[c] \in ClerkState /\ clerk[c].rpcs \in Nat /\ clerk[c].st = "trying"
  BY DEF CallServer, ClerkState
<1>2. clerk[c].op \in Op /\ clerk[c].rpcs > 0
  BY <1>1 DEF CallServer, MayCall
<1>3. SentCall(c, s) \in Call
  BY <1>2 DEF Call, CallStates, Reply, SentCall
<1>4. calls' = Append(calls, SentCall(c, s))
  BY DEF CallServer, SentCall
<1>5. /\ calls' \in Seq(Call) /\ Len(calls') = Len(calls) + 1
      /\ DOMAIN calls = 1 .. Len(calls) /\ DOMAIN calls' = 1 .. Len(calls) + 1
      /\ calls'[Len(calls) + 1] = SentCall(c, s) /\ Len(calls) \in Nat
      /\ \A k \in DOMAIN calls : calls'[k] = calls[k]
  BY <1>3, <1>4
<1>12. n \in Nat /\ m \in Nat /\ m = Len(calls) + 1
  BY <1>1, <1>2, <1>5
<1>13. clerk' = [clerk EXCEPT ![c].st = "waiting", ![c].rpcs = @ - 1, ![c].call = m]
  BY DEF CallServer
<1>14. clerk' = [clerk EXCEPT ![c].st = "waiting", ![c].rpcs = n, ![c].call = m]
  BY <1>1, <1>13 DEF ClerkState
<1> HIDE DEF n, m
<1>6. clerk' = [clerk EXCEPT ![c] = r]
  BY <1>1, <1>14 DEF ClerkState
<1>7. r \in ClerkState
  BY <1>1, <1>12 DEF ClerkState
<1>8. /\ r.st = "waiting" /\ r.op = clerk[c].op /\ r.todo = clerk[c].todo
      /\ r.since = clerk[c].since /\ r.call = m /\ r.numOfOrders = clerk[c].numOfOrders
  BY <1>1 DEF ClerkState
<1> HIDE DEF r
<1>9. /\ clerk' \in [Clerk -> ClerkState]
      /\ clerk'[c] = r /\ \A d \in Clerk : d # c => clerk'[d] = clerk[d]
  BY <1>6, <1>7, ClerkSet
<1>10. UNCHANGED <<logVars, serverVars, notifyChs, result, restarts>>
  BY DEF CallServer
<1>15. \A k \in DOMAIN calls' : calls'[k].st \in {"reading", "leaving", "replied"} =>
                                   calls'[k].reply \in Answer
  BY <1>5 DEF SentCall
<1>11. Types'
  BY <1>2, <1>5, <1>8, <1>9, <1>10, <1>15 DEF logVars, serverVars, LogTypes, ServerTypes
<1> QED BY <1>1, <1>2, <1>5, <1>8, <1>9, <1>10, <1>11, <1>12

\* A clerk that gives up a call tries again.
LEMMA CallFailsGives ==
  ASSUME Types, NEW c \in Clerk, CallFails(c)
  PROVE  /\ Types' /\ UNCHANGED <<logVars, serverVars, notifyChs, calls, result, restarts>>
         /\ \A d \in Clerk : d # c => clerk'[d] = clerk[d]
         /\ clerk[c].st = "waiting" /\ clerk'[c].st = "trying"
         /\ clerk'[c].op = clerk[c].op /\ clerk'[c].since = clerk[c].since
         /\ clerk'[c].todo = clerk[c].todo /\ clerk'[c].call = clerk[c].call
         /\ clerk'[c].numOfOrders = clerk[c].numOfOrders
<1> USE DEF Types, ClerkTypes
<1> DEFINE r == [clerk[c] EXCEPT !.st = "trying"]
<1>1. clerk[c] \in ClerkState /\ clerk[c].st = "waiting"
  BY DEF CallFails
<1>2. clerk[c].op \in Op
  BY <1>1
<1>3. clerk' = [clerk EXCEPT ![c] = r]
  BY <1>1 DEF CallFails, ClerkState
<1>4. r \in ClerkState
  BY <1>1 DEF ClerkState
<1>5. /\ r.st = "trying" /\ r.op = clerk[c].op /\ r.todo = clerk[c].todo
      /\ r.since = clerk[c].since /\ r.call = clerk[c].call
      /\ r.numOfOrders = clerk[c].numOfOrders
  BY <1>1 DEF ClerkState
<1> HIDE DEF r
<1>6. /\ clerk' \in [Clerk -> ClerkState]
      /\ clerk'[c] = r /\ \A d \in Clerk : d # c => clerk'[d] = clerk[d]
  BY <1>3, <1>4, ClerkSet
<1>7. UNCHANGED <<logVars, serverVars, notifyChs, calls, result, restarts>>
  BY DEF CallFails
<1>8. Types'
  BY <1>2, <1>5, <1>6, <1>7 DEF logVars, serverVars, LogTypes, ServerTypes
<1> QED BY <1>1, <1>5, <1>6, <1>7, <1>8

\* A clerk that takes a reply is done if it is OK, and tries again otherwise.
LEMMA TakeReplyGives ==
  ASSUME Types, NEW c \in Clerk, TakeReply(c), clerk[c].call \in DOMAIN calls
  PROVE  LET reply == calls[clerk[c].call].reply
             ok == reply.err = "OK"
             get == clerk[c].op.kind = "Get"
         IN
         /\ Types' /\ UNCHANGED <<logVars, serverVars, notifyChs, calls, restarts>>
         /\ \A d \in Clerk : d # c => clerk'[d] = clerk[d] /\ result'[d] = result[d]
         /\ clerk[c].st = "waiting" /\ calls[clerk[c].call].st = "replied"
         /\ clerk'[c].st = IF ok THEN "idle" ELSE "trying"
         /\ clerk'[c].op = clerk[c].op /\ clerk'[c].since = clerk[c].since
         /\ clerk'[c].todo = clerk[c].todo /\ clerk'[c].call = clerk[c].call
         /\ clerk'[c].numOfOrders =
              IF ok /\ ~get THEN clerk[c].numOfOrders + 1 ELSE clerk[c].numOfOrders
         /\ result'[c] = IF ok /\ get THEN reply.value ELSE result[c]
<1> USE DEF Types, ClerkTypes
<1> DEFINE reply == calls[clerk[c].call].reply
           ok == reply.err = "OK"
           get == clerk[c].op.kind = "Get"
           n == IF ok /\ ~get THEN clerk[c].numOfOrders + 1 ELSE clerk[c].numOfOrders
           st == IF ok THEN "idle" ELSE "trying"
           r == [clerk[c] EXCEPT !.st = st, !.numOfOrders = n]
<1>1. clerk[c] \in ClerkState /\ clerk[c].st = "waiting" /\ clerk[c].numOfOrders \in Nat
  BY DEF TakeReply, ClerkState
<1>2. clerk[c].op \in Op
  BY <1>1
<1>3. clerk' = [clerk EXCEPT ![c] = r]
  BY <1>1 DEF TakeReply, ClerkState
<1>4. n \in Nat /\ st \in {"idle", "trying"}
  BY <1>1
<1>5. UNCHANGED <<logVars, serverVars, notifyChs, calls, restarts>>
  BY DEF TakeReply
<1>6. calls[clerk[c].call].st = "replied" /\ result' = [result EXCEPT ![c] =
        IF ok /\ get THEN reply.value ELSE @]
  BY DEF TakeReply
<1>7. ok => reply.value \in Value \cup {Nil}
  <2>1. calls[clerk[c].call] \in Call
    OBVIOUS
  <2> QED BY <1>6, <2>1 DEF Answer
<1> HIDE DEF n, st
<1>8. r \in ClerkState
  BY <1>1, <1>4 DEF ClerkState
<1>9. /\ r.st = st /\ r.op = clerk[c].op /\ r.todo = clerk[c].todo
      /\ r.since = clerk[c].since /\ r.call = clerk[c].call
      /\ r.numOfOrders = n
  BY <1>1 DEF ClerkState
<1> HIDE DEF r
<1>10. /\ clerk' \in [Clerk -> ClerkState]
       /\ clerk'[c] = r /\ \A d \in Clerk : d # c => clerk'[d] = clerk[d]
  BY <1>3, <1>8, ClerkSet
<1> HIDE DEF reply
<1>11. /\ result' \in [Clerk -> Value \cup {Nil}]
       /\ result'[c] = IF ok /\ get THEN reply.value ELSE result[c]
       /\ \A d \in Clerk : d # c => result'[d] = result[d]
  BY <1>6, <1>7
<1>12. Types'
  BY <1>2, <1>5, <1>9, <1>10, <1>11 DEF logVars, serverVars, LogTypes, ServerTypes
<1> QED BY <1>1, <1>5, <1>6, <1>9, <1>10, <1>11, <1>12 DEF n, st, reply

\* What a step of handler k changes of the calls.
CallMoves(k, st, index, ch, reply) ==
  /\ DOMAIN calls' = DOMAIN calls
  /\ calls'[k].server = calls[k].server /\ calls'[k].op = calls[k].op
  /\ calls'[k].st = st /\ calls'[k].index = index
  /\ calls'[k].ch = ch /\ calls'[k].reply = reply
  /\ \A j \in DOMAIN calls : j # k => calls'[j] = calls[j]

\* r is call k after a step of its handler.
Becomes(k, r, st, index, ch, reply) ==
  /\ r \in Call
  /\ r.server = calls[k].server /\ r.op = calls[k].op
  /\ r.st = st /\ r.index = index /\ r.ch = ch /\ r.reply = reply

\* A handler's step is one on its own record.
LEMMA CallMoved ==
  ASSUME ClerkTypes, NEW k \in DOMAIN calls, NEW r, NEW st, NEW index, NEW ch, NEW reply,
         Becomes(k, r, st, index, ch, reply),
         st \in {"reading", "leaving", "replied"} => reply \in Answer,
         calls' = [calls EXCEPT ![k] = r],
         UNCHANGED <<clerk, result, restarts>>
  PROVE  ClerkTypes' /\ CallMoves(k, st, index, ch, reply)
<1>1. /\ calls' \in Seq(Call) /\ CallMoves(k, st, index, ch, reply)
  BY CallSet DEF ClerkTypes, CallMoves, Becomes
<1>2. \A j \in DOMAIN calls' : calls'[j].st \in {"reading", "leaving", "replied"} =>
                                 calls'[j].reply \in Answer
  BY <1>1 DEF CallMoves, ClerkTypes
<1> QED BY <1>1, <1>2 DEF ClerkTypes

\* What a call is, field by field.
LEMMA CallIs ==
  ASSUME Types, NEW k \in DOMAIN calls
  PROVE  /\ calls[k] \in Call /\ calls[k].server \in Server /\ calls[k].op \in Op
         /\ calls[k].st \in CallStates /\ calls[k].index \in Nat
         /\ calls[k].ch \in Seq(Op \cup {Nil}) /\ calls[k].reply \in Reply
         /\ calls[k].st \in {"reading", "leaving", "replied"} => calls[k].reply \in Answer
<1>1. calls[k] \in Call
  BY DEF ClerkTypes, Types
<1> QED BY <1>1 DEF ClerkTypes, Types, Call

\* Replies are answers.
LEMMA Answers ==
  /\ OK(Nil) \in Answer /\ OK(Nil).err = "OK" /\ OK(Nil) \in Reply
  /\ ErrWrongLeader \in Answer /\ ErrWrongLeader.err # "OK" /\ ErrWrongLeader \in Reply
  /\ \A v \in Value : OK(v) \in Answer /\ OK(v).err = "OK" /\ OK(v).value = v /\ OK(v) \in Reply
BY DEF OK, ErrWrongLeader, Answer, Reply

\* Calls that differ from call k in some fields.
LEMMA CallSt ==
  ASSUME NEW k, calls[k] \in Call, NEW st \in CallStates
  PROVE  Becomes(k, [calls[k] EXCEPT !.st = st],
                 st, calls[k].index, calls[k].ch, calls[k].reply)
BY DEF Call, Becomes

\* State and index.
LEMMA CallIndex ==
  ASSUME NEW k, calls[k] \in Call, NEW st \in CallStates, NEW index \in Nat
  PROVE  Becomes(k, [calls[k] EXCEPT !.st = st, !.index = index],
                 st, index, calls[k].ch, calls[k].reply)
BY DEF Call, Becomes

\* State and reply.
LEMMA CallReply ==
  ASSUME NEW k, calls[k] \in Call, NEW st \in CallStates, NEW reply \in Reply
  PROVE  Becomes(k, [calls[k] EXCEPT !.st = st, !.reply = reply],
                 st, calls[k].index, calls[k].ch, reply)
BY DEF Call, Becomes

\* Channel, state and reply.
LEMMA CallNotified ==
  ASSUME NEW k, calls[k] \in Call, NEW st \in CallStates, NEW ch \in Seq(Op \cup {Nil}),
         NEW reply \in Reply
  PROVE  Becomes(k, [calls[k] EXCEPT !.ch = ch, !.st = st, !.reply = reply],
                 st, calls[k].index, ch, reply)
BY DEF Call, Becomes

\* Channel.
LEMMA CallCh ==
  ASSUME NEW k, calls[k] \in Call, NEW ch \in Seq(Op \cup {Nil})
  PROVE  Becomes(k, [calls[k] EXCEPT !.ch = ch],
                 calls[k].st, calls[k].index, ch, calls[k].reply)
BY DEF Call, Becomes

\* The duplicate test replies OK to a write that is in the table.
LEMMA CheckDuplicateGives ==
  ASSUME Types, NEW k \in DOMAIN calls, CheckDuplicate(k)
  PROVE  /\ Types' /\ UNCHANGED <<logVars, serverVars, notifyChs, clerk, result, restarts>>
         /\ At(k, "sent", Writes)
         /\ \/ /\ Seen(calls[k].server, calls[k].op)
               /\ CallMoves(k, "replied", calls[k].index, calls[k].ch, OK(Nil))
            \/ CallMoves(k, "checked", calls[k].index, calls[k].ch, calls[k].reply)
<1>1. UNCHANGED <<logVars, serverVars, notifyChs, clerk, result, restarts>> /\ At(k, "sent", Writes)
  BY DEF CheckDuplicate
<1>2. calls[k] \in Call /\ ClerkTypes /\ calls[k].reply \in Reply
  BY CallIs DEF Types
<1>3. CASE Seen(calls[k].server, calls[k].op)
  <2>1. calls' = [calls EXCEPT ![k] = [@ EXCEPT !.st = "replied", !.reply = OK(Nil)]]
    BY <1>3 DEF CheckDuplicate, Replies
  <2> DEFINE r == [calls[k] EXCEPT !.st = "replied", !.reply = OK(Nil)]
  <2>2. Becomes(k, r, "replied", calls[k].index, calls[k].ch, OK(Nil))
    BY <1>2, CallReply, Answers DEF CallStates
  <2>3. calls' = [calls EXCEPT ![k] = r]
    BY <2>1
  <2> HIDE DEF r
  <2>4. ClerkTypes' /\ CallMoves(k, "replied", calls[k].index, calls[k].ch, OK(Nil))
    BY <1>1, <1>2, <2>2, <2>3, CallMoved, Answers
  <2> QED BY <1>1, <1>3, <2>4 DEF Types, logVars, serverVars, LogTypes, ServerTypes
<1>4. CASE ~Seen(calls[k].server, calls[k].op)
  <2>1. calls' = [calls EXCEPT ![k] = [@ EXCEPT !.st = "checked"]]
    BY <1>4 DEF CheckDuplicate
  <2> DEFINE r == [calls[k] EXCEPT !.st = "checked"]
  <2>2. Becomes(k, r, "checked", calls[k].index, calls[k].ch, calls[k].reply)
    BY <1>2, CallSt DEF CallStates
  <2>3. calls' = [calls EXCEPT ![k] = r]
    BY <2>1
  <2> HIDE DEF r
  <2>4. ClerkTypes' /\ CallMoves(k, "checked", calls[k].index, calls[k].ch, calls[k].reply)
    BY <1>1, <1>2, <2>2, <2>3, CallMoved
  <2> QED BY <1>1, <1>4, <2>4 DEF Types, logVars, serverVars, LogTypes, ServerTypes
<1> QED BY <1>3, <1>4

\* Start appends the command to the leader's log.
Starts(op) ==
  /\ \A s \in Server : \A n \in DOMAIN view'[s] :
       (n \in DOMAIN view[s] /\ view'[s][n] = view[s][n]) \/ view'[s][n].op = op
  /\ \A p \in proposed' : p \in proposed \/ p.entry.op = op

\* A leader takes a command.
LEMMA StartGives ==
  ASSUME LogTypes, NEW s \in Server, NEW op \in Op, Start(s, op)
  PROVE  /\ LogTypes' /\ UNCHANGED agreed
         /\ NextIndex(s) \in 1 .. MaxIndex /\ Starts(op)
<1> USE DEF LogTypes
<1> DEFINE entry == [term |-> term[s], op |-> op]
<1>1. entry \in Entry /\ entry.op = op
  BY DEF Entry
<1>2. view[s] \in Seq(Entry) /\ NextIndex(s) \in Nat /\ NextIndex(s) >= 1
  BY DEF NextIndex
<1>3. /\ NextIndex(s) <= MaxIndex /\ UNCHANGED <<agreed, term, leading>>
      /\ view' = [view EXCEPT ![s] = Append(@, entry)]
      /\ proposed' = proposed \cup {[index |-> NextIndex(s), entry |-> entry]}
  BY DEF Start
<1> HIDE DEF entry
<1>4. /\ Append(view[s], entry) \in Seq(Entry)
      /\ \A n \in DOMAIN Append(view[s], entry) :
           \/ n \in DOMAIN view[s] /\ Append(view[s], entry)[n] = view[s][n]
           \/ Append(view[s], entry)[n] = entry
  BY <1>1, <1>2
<1>5. view'[s] = Append(view[s], entry) /\ \A t \in Server : t # s => view'[t] = view[t]
  BY <1>3
<1>6. view' \in [Server -> Seq(Entry)]
  BY <1>3, <1>4
<1>7. proposed' \subseteq [index : Nat, entry : Entry]
  BY <1>1, <1>2, <1>3
<1>8. \A p \in proposed' : p \in proposed \/ p.entry.op = op
  BY <1>1, <1>3
<1>9. Starts(op)
  BY <1>1, <1>4, <1>5, <1>8 DEF Starts
<1> QED BY <1>2, <1>3, <1>6, <1>7, <1>9, AgreedLogAssumption

\* A server that does not lead refuses.
LEMMA NotLeaderGives ==
  ASSUME Types, NEW k \in DOMAIN calls, NotLeader(k)
  PROVE  /\ Types' /\ UNCHANGED <<logVars, serverVars, notifyChs, clerk, result, restarts>>
         /\ At(k, "checked", Writes) \/ At(k, "sent", {"Get"})
         /\ CallMoves(k, "replied", calls[k].index, calls[k].ch, ErrWrongLeader)
<1>1. /\ UNCHANGED <<logVars, serverVars, notifyChs, clerk, result, restarts>>
      /\ At(k, "checked", Writes) \/ At(k, "sent", {"Get"})
  BY DEF NotLeader
<1>2. calls[k] \in Call /\ ClerkTypes
  BY CallIs DEF Types
<1>3. calls' = [calls EXCEPT ![k] = [@ EXCEPT !.st = "replied", !.reply = ErrWrongLeader]]
  BY DEF NotLeader, Replies
<1> DEFINE r == [calls[k] EXCEPT !.st = "replied", !.reply = ErrWrongLeader]
<1>4. Becomes(k, r, "replied", calls[k].index, calls[k].ch, ErrWrongLeader)
  BY <1>2, CallReply, Answers DEF CallStates
<1>5. calls' = [calls EXCEPT ![k] = r]
  BY <1>3
<1> HIDE DEF r
<1>6. ClerkTypes' /\ CallMoves(k, "replied", calls[k].index, calls[k].ch, ErrWrongLeader)
  BY <1>1, <1>2, <1>4, <1>5, CallMoved, Answers
<1> QED BY <1>1, <1>6 DEF Types, logVars, serverVars, LogTypes, ServerTypes

\* A write is handed to Raft.
LEMMA StartWriteGives ==
  ASSUME Types, NEW k \in DOMAIN calls, StartWrite(k)
  PROVE  /\ Types' /\ UNCHANGED <<agreed, serverVars, notifyChs, clerk, result, restarts>>
         /\ At(k, "checked", Writes) /\ Starts(calls[k].op)
         /\ \E n \in 1 .. MaxIndex : CallMoves(k, "started", n, calls[k].ch, calls[k].reply)
<1>1. /\ UNCHANGED <<serverVars, notifyChs, clerk, result, restarts>>
      /\ At(k, "checked", Writes) /\ Start(calls[k].server, calls[k].op)
  BY DEF StartWrite
<1>2. calls[k] \in Call /\ ClerkTypes /\ calls[k].server \in Server /\ calls[k].op \in Op
  BY CallIs DEF Types
<1>3. /\ LogTypes' /\ UNCHANGED agreed
      /\ NextIndex(calls[k].server) \in 1 .. MaxIndex /\ Starts(calls[k].op)
  BY <1>1, <1>2, StartGives DEF Types
<1> DEFINE n == NextIndex(calls[k].server)
<1>4. calls' = [calls EXCEPT ![k] = [@ EXCEPT !.st = "started", !.index = n]]
  BY DEF StartWrite
<1> DEFINE r == [calls[k] EXCEPT !.st = "started", !.index = n]
<1>5. n \in Nat /\ n \in 1 .. MaxIndex
  BY <1>3, AgreedLogAssumption
<1>6. calls' = [calls EXCEPT ![k] = r]
  BY <1>4
<1> HIDE DEF n
<1>7. Becomes(k, r, "started", n, calls[k].ch, calls[k].reply)
  BY <1>2, <1>5, CallIndex DEF CallStates
<1> HIDE DEF r
<1>8. ClerkTypes' /\ CallMoves(k, "started", n, calls[k].ch, calls[k].reply)
  BY <1>1, <1>2, <1>6, <1>7, CallMoved
<1> QED BY <1>1, <1>3, <1>5, <1>8 DEF Types, serverVars, ServerTypes

\* Call k is registered at index n of s.
Registers(s, n, k) ==
  /\ \A t \in Server : t # s => notifyChs'[t] = notifyChs[t]
  /\ \A m \in 1 .. MaxIndex : notifyChs'[s][m] = IF m = n THEN k ELSE notifyChs[s][m]

\* A channel is registered.
LEMMA RegistersGives ==
  ASSUME ServerTypes, NEW s \in Server, NEW n, NEW k \in Nat, UNCHANGED serverVars,
         notifyChs' = [notifyChs EXCEPT ![s][n] = k]
  PROVE  ServerTypes' /\ Registers(s, n, k)
<1>1. notifyChs' \in [Server -> [1 .. MaxIndex -> Nat]] /\ Registers(s, n, k)
  BY DEF ServerTypes, Registers
<1> QED BY <1>1 DEF ServerTypes, serverVars

\* A write waits for what is applied at its index.
LEMMA RegisterGives ==
  ASSUME Types, NEW k \in DOMAIN calls, Register(k)
  PROVE  /\ Types' /\ UNCHANGED <<logVars, serverVars, clerk, result, restarts>>
         /\ At(k, "started", Writes) /\ Unlocked(calls[k].server)
         /\ Registers(calls[k].server, calls[k].index, k)
         /\ CallMoves(k, "waiting", calls[k].index, calls[k].ch, calls[k].reply)
<1>1. /\ UNCHANGED <<logVars, serverVars, clerk, result, restarts>>
      /\ At(k, "started", Writes) /\ Unlocked(calls[k].server)
      /\ notifyChs' = [notifyChs EXCEPT ![calls[k].server][calls[k].index] = k]
      /\ calls' = [calls EXCEPT ![k] = [@ EXCEPT !.st = "waiting"]]
  BY DEF Register
<1>2. /\ calls[k] \in Call /\ ClerkTypes /\ calls[k].server \in Server /\ k \in Nat
      /\ ServerTypes
  BY CallIs DEF Types, ClerkTypes
<1> DEFINE r == [calls[k] EXCEPT !.st = "waiting"]
<1>3. Becomes(k, r, "waiting", calls[k].index, calls[k].ch, calls[k].reply)
  BY <1>2, CallSt DEF CallStates
<1>4. calls' = [calls EXCEPT ![k] = r]
  BY <1>1
<1> HIDE DEF r
<1>5. ClerkTypes' /\ CallMoves(k, "waiting", calls[k].index, calls[k].ch, calls[k].reply)
  BY <1>1, <1>2, <1>3, <1>4, CallMoved
<1>6. ServerTypes' /\ Registers(calls[k].server, calls[k].index, k)
  BY <1>1, <1>2, RegistersGives
<1> QED BY <1>1, <1>5, <1>6 DEF Types, logVars, LogTypes

\* A read is handed to Raft and waits.
LEMMA StartReadGives ==
  ASSUME Types, NEW k \in DOMAIN calls, StartRead(k)
  PROVE  /\ Types' /\ UNCHANGED <<agreed, serverVars, clerk, result, restarts>>
         /\ At(k, "sent", {"Get"}) /\ Starts(calls[k].op) /\ Unlocked(calls[k].server)
         /\ \E n \in 1 .. MaxIndex :
              /\ Registers(calls[k].server, n, k)
              /\ CallMoves(k, "waiting", n, calls[k].ch, calls[k].reply)
<1>1. /\ UNCHANGED <<serverVars, clerk, result, restarts>> /\ Unlocked(calls[k].server)
      /\ At(k, "sent", {"Get"}) /\ Start(calls[k].server, calls[k].op)
  BY DEF StartRead
<1>2. /\ calls[k] \in Call /\ ClerkTypes /\ calls[k].server \in Server /\ calls[k].op \in Op
      /\ k \in Nat /\ ServerTypes
  BY CallIs DEF Types, ClerkTypes
<1>3. /\ LogTypes' /\ UNCHANGED agreed
      /\ NextIndex(calls[k].server) \in 1 .. MaxIndex /\ Starts(calls[k].op)
  BY <1>1, <1>2, StartGives DEF Types
<1> DEFINE n == NextIndex(calls[k].server)
<1>4. /\ calls' = [calls EXCEPT ![k] = [@ EXCEPT !.st = "waiting", !.index = n]]
      /\ notifyChs' = [notifyChs EXCEPT ![calls[k].server][n] = k]
  BY DEF StartRead
<1> DEFINE r == [calls[k] EXCEPT !.st = "waiting", !.index = n]
<1>5. n \in Nat /\ n \in 1 .. MaxIndex
  BY <1>3, AgreedLogAssumption
<1>6. calls' = [calls EXCEPT ![k] = r]
  BY <1>4
<1> HIDE DEF n
<1>7. Becomes(k, r, "waiting", n, calls[k].ch, calls[k].reply)
  BY <1>2, <1>5, CallIndex DEF CallStates
<1> HIDE DEF r
<1>8. ClerkTypes' /\ CallMoves(k, "waiting", n, calls[k].ch, calls[k].reply)
  BY <1>1, <1>2, <1>6, <1>7, CallMoved
<1>9. ServerTypes' /\ Registers(calls[k].server, n, k)
  BY <1>1, <1>2, <1>4, RegistersGives
<1> QED BY <1>1, <1>3, <1>5, <1>8, <1>9 DEF Types

\* A handler that is notified looks at what was applied.
LEMMA NotifiedGives ==
  ASSUME Types, NEW k \in DOMAIN calls, Notified(k)
  PROVE  LET matched == Matches(calls[k].ch[1], calls[k].op) IN
         /\ Types' /\ UNCHANGED <<logVars, serverVars, notifyChs, clerk, result, restarts>>
         /\ calls[k].st = "waiting" /\ 1 \in DOMAIN calls[k].ch
         /\ CallMoves(k, IF matched /\ calls[k].op.kind = "Get" THEN "reading" ELSE "leaving",
                      calls[k].index, Tail(calls[k].ch),
                      IF matched THEN OK(Nil) ELSE ErrWrongLeader)
<1> DEFINE matched == Matches(calls[k].ch[1], calls[k].op)
           st == IF matched /\ calls[k].op.kind = "Get" THEN "reading" ELSE "leaving"
           ch == Tail(calls[k].ch)
           reply == IF matched THEN OK(Nil) ELSE ErrWrongLeader
<1>1. /\ UNCHANGED <<logVars, serverVars, notifyChs, clerk, result, restarts>>
      /\ calls[k].st = "waiting" /\ calls[k].ch # <<>>
  BY DEF Notified
<1>2. calls[k] \in Call /\ ClerkTypes /\ calls[k].ch \in Seq(Op \cup {Nil})
  BY CallIs DEF Types
<1>3. /\ ch \in Seq(Op \cup {Nil}) /\ 1 \in DOMAIN calls[k].ch
      /\ Head(calls[k].ch) = calls[k].ch[1]
  BY <1>1, <1>2
<1>4. st \in CallStates /\ reply \in Reply /\ reply \in Answer
  BY Answers DEF CallStates
<1>5. calls' = [calls EXCEPT ![k].ch = ch, ![k].st = st, ![k].reply = reply]
  BY <1>2, <1>3 DEF Notified, ClerkTypes
<1> HIDE DEF st, reply, ch
<1>7. calls' = [calls EXCEPT ![k] = [@ EXCEPT !.ch = ch, !.st = st, !.reply = reply]]
  BY <1>2, <1>5 DEF ClerkTypes
<1> DEFINE r == [calls[k] EXCEPT !.ch = ch, !.st = st, !.reply = reply]
<1>8. calls' = [calls EXCEPT ![k] = r]
  BY <1>7
<1>9. Becomes(k, r, st, calls[k].index, ch, reply)
  BY <1>2, <1>3, <1>4, CallNotified
<1> HIDE DEF r
<1>10. ClerkTypes' /\ CallMoves(k, st, calls[k].index, ch, reply)
  BY <1>1, <1>2, <1>4, <1>8, <1>9, CallMoved
<1>11. Types'
  BY <1>1, <1>10 DEF Types, logVars, serverVars, LogTypes, ServerTypes
<1> QED BY <1>1, <1>3, <1>10, <1>11 DEF st, ch, reply

\* A handler that times out.
LEMMA TimesOutGives ==
  ASSUME Types, NEW k \in DOMAIN calls, TimesOut(k)
  PROVE  /\ Types' /\ UNCHANGED <<logVars, serverVars, notifyChs, clerk, result, restarts>>
         /\ calls[k].st = "waiting"
         /\ CallMoves(k, "leaving", calls[k].index, calls[k].ch, ErrWrongLeader)
<1>1. /\ UNCHANGED <<logVars, serverVars, notifyChs, clerk, result, restarts>>
      /\ calls[k].st = "waiting"
      /\ calls' = [calls EXCEPT ![k] = [@ EXCEPT !.st = "leaving", !.reply = ErrWrongLeader]]
  BY DEF TimesOut
<1>2. calls[k] \in Call /\ ClerkTypes
  BY CallIs DEF Types
<1> DEFINE r == [calls[k] EXCEPT !.st = "leaving", !.reply = ErrWrongLeader]
<1>3. Becomes(k, r, "leaving", calls[k].index, calls[k].ch, ErrWrongLeader)
  BY <1>2, CallReply, Answers DEF CallStates
<1>4. calls' = [calls EXCEPT ![k] = r]
  BY <1>1
<1> HIDE DEF r
<1>5. ClerkTypes' /\ CallMoves(k, "leaving", calls[k].index, calls[k].ch, ErrWrongLeader)
  BY <1>1, <1>2, <1>3, <1>4, CallMoved, Answers
<1> QED BY <1>1, <1>5 DEF Types, logVars, serverVars, LogTypes, ServerTypes

\* A read takes its value from the map.
LEMMA ReadGives ==
  ASSUME Types, NEW k \in DOMAIN calls, Read(k)
  PROVE  /\ Types' /\ UNCHANGED <<logVars, serverVars, notifyChs, clerk, result, restarts>>
         /\ calls[k].st = "reading"
         /\ CallMoves(k, "leaving", calls[k].index, calls[k].ch,
                      OK(kvstore[calls[k].server][calls[k].op.key]))
<1> DEFINE v == kvstore[calls[k].server][calls[k].op.key]
           reply == OK(v)
<1>1. /\ UNCHANGED <<logVars, serverVars, notifyChs, clerk, result, restarts>>
      /\ calls[k].st = "reading"
      /\ calls' = [calls EXCEPT ![k] = [@ EXCEPT !.st = "leaving", !.reply = reply]]
  BY DEF Read
<1>2. /\ calls[k] \in Call /\ ClerkTypes /\ calls[k].server \in Server
      /\ calls[k].op.key \in Key
  BY CallIs DEF Types, Op
<1>3. v \in Value
  BY <1>2 DEF Types, ServerTypes
<1> DEFINE r == [calls[k] EXCEPT !.st = "leaving", !.reply = reply]
<1>4. reply \in Reply /\ reply \in Answer
  BY <1>3, Answers
<1>5. calls' = [calls EXCEPT ![k] = r]
  BY <1>1
<1> HIDE DEF v, reply
<1>6. Becomes(k, r, "leaving", calls[k].index, calls[k].ch, reply)
  BY <1>2, <1>4, CallReply DEF CallStates
<1> HIDE DEF r
<1>7. ClerkTypes' /\ CallMoves(k, "leaving", calls[k].index, calls[k].ch, reply)
  BY <1>1, <1>2, <1>4, <1>5, <1>6, CallMoved
<1> QED BY <1>1, <1>7 DEF Types, logVars, serverVars, LogTypes, ServerTypes, reply, v

\* A handler that is done replies.
LEMMA LeaveGives ==
  ASSUME Types, NEW k \in DOMAIN calls, Leave(k)
  PROVE  /\ Types' /\ UNCHANGED <<logVars, serverVars, clerk, result, restarts>>
         /\ calls[k].st = "leaving" /\ Unlocked(calls[k].server)
         /\ Registers(calls[k].server, calls[k].index, 0)
         /\ CallMoves(k, "replied", calls[k].index, calls[k].ch, calls[k].reply)
<1> DEFINE reply == calls[k].reply
<1>1. /\ UNCHANGED <<logVars, serverVars, clerk, result, restarts>>
      /\ calls[k].st = "leaving" /\ Unlocked(calls[k].server)
      /\ notifyChs' = [notifyChs EXCEPT ![calls[k].server][calls[k].index] = 0]
      /\ calls' = [calls EXCEPT ![k] = [@ EXCEPT !.st = "replied", !.reply = reply]]
  BY DEF Leave, Replies
<1>2. /\ calls[k] \in Call /\ ClerkTypes /\ calls[k].server \in Server /\ ServerTypes
      /\ reply \in Reply /\ reply \in Answer
  BY <1>1, CallIs DEF Types
<1> DEFINE r == [calls[k] EXCEPT !.st = "replied", !.reply = reply]
<1>3. calls' = [calls EXCEPT ![k] = r]
  BY <1>1
<1> HIDE DEF reply
<1>4. Becomes(k, r, "replied", calls[k].index, calls[k].ch, reply)
  BY <1>2, CallReply DEF CallStates
<1> HIDE DEF r
<1>5. ClerkTypes' /\ CallMoves(k, "replied", calls[k].index, calls[k].ch, reply)
  BY <1>1, <1>2, <1>3, <1>4, CallMoved
<1>6. ServerTypes' /\ Registers(calls[k].server, calls[k].index, 0)
  BY <1>1, <1>2, RegistersGives
<1> QED BY <1>1, <1>5, <1>6 DEF Types, logVars, LogTypes, reply

\* A step of s changes nothing of the other servers.
OnlyServer(s) ==
  \A t \in Server : t # s =>
    /\ kvstore'[t] = kvstore[t] /\ CommittedStore'[t] = CommittedStore[t]
    /\ applied'[t] = applied[t] /\ loop'[t] = loop[t] /\ disk'[t] = disk[t]

\* The loop is to send op on the channels of todo.
IsSending(x, op, todo) ==
  /\ x \in LoopState /\ x.st \in {"idle", "sending"}
  /\ x.st = "sending" => x.op = op /\ x.todo = todo

\* The states of the loop.
LEMMA LoopStates ==
  /\ Idle \in LoopState /\ Idle.st = "idle"
  /\ \A op \in Op \cup {Nil}, todo \in SUBSET (1 .. MaxIndex) :
       /\ IsSending(Sending(op, todo, FALSE), op, todo)
       /\ IsSending(Sending(op, todo, TRUE), op, todo)
  /\ \A op \in Op : LET x == [Idle EXCEPT !.st = "saving", !.op = op] IN
       x \in LoopState /\ x.st = "saving" /\ x.op = op
<1>1. Idle \in LoopState /\ Idle.st = "idle"
  BY DEF Idle, LoopState
<1>2. ASSUME NEW op \in Op \cup {Nil}, NEW todo \in SUBSET (1 .. MaxIndex)
      PROVE  /\ IsSending(Sending(op, todo, FALSE), op, todo)
             /\ IsSending(Sending(op, todo, TRUE), op, todo)
  <2>1. CASE todo = {}
    BY <1>1, <2>1 DEF Sending, IsSending
  <2>2. CASE todo # {}
    BY <2>2 DEF Sending, LoopState, IsSending
  <2> QED BY <2>1, <2>2
<1>3. ASSUME NEW op \in Op
      PROVE  LET x == [Idle EXCEPT !.st = "saving", !.op = op] IN
               x \in LoopState /\ x.st = "saving" /\ x.op = op
  BY DEF Idle, LoopState
<1> QED BY <1>1, <1>2, <1>3

\* What a command makes of a map is a map.
LEMMA ExecuteType ==
  ASSUME NEW s \in Server, kvstore[s] \in [Key -> Value], NEW op \in Op
  PROVE  Execute(s, op) \in [Key -> Value]
<1>1. op.key \in Key /\ <<op.commiter, op.pos>> \in Clerk \X Nat
  BY DEF Op
<1>2. kvstore[s][op.key] \in Seq(Clerk \X Nat)
  BY <1>1 DEF Value
<1>3. /\ <<<<op.commiter, op.pos>>>> \in Value
      /\ Append(kvstore[s][op.key], <<op.commiter, op.pos>>) \in Value
  BY <1>1, <1>2 DEF Value
<1> QED BY <1>1, <1>3 DEF Execute

\* A command is applied: the next entry of the agreed log.
LEMMA ApplyCommandGives ==
  ASSUME Types, NEW s \in Server, ApplyCommand(s)
  PROVE  LET n == applied[s] + 1
             op == agreed[n].op
         IN
         /\ Types'
         /\ UNCHANGED <<logVars, disk, snapshots, notifyChs, clerk, calls, result, restarts>>
         /\ OnlyServer(s) /\ n \in DOMAIN agreed /\ op \in Op
         /\ applied'[s] = n /\ kvstore'[s] = Execute(s, op)
         /\ \A c \in Clerk : CommittedStore'[s][c] =
              IF c = op.commiter /\ op.kind \in Writes /\ ~Seen(s, op) THEN op.pos
                                                                      ELSE CommittedStore[s][c]
         /\ loop'[s].st # "idle" => loop'[s].op = op
         /\ loop'[s].st = "sending" => loop'[s].todo \subseteq {n}
<1> DEFINE n == applied[s] + 1
           op == agreed[n].op
<1>1. /\ UNCHANGED <<logVars, disk, snapshots, notifyChs, clerk, calls, result, restarts>>
      /\ n \in DOMAIN agreed
      /\ applied' = [applied EXCEPT ![s] = n]
      /\ kvstore' = [kvstore EXCEPT ![s] = Execute(s, op)]
      /\ CommittedStore' = [CommittedStore EXCEPT ![s][op.commiter] =
                              IF op.kind \in Writes /\ ~Seen(s, op) THEN op.pos ELSE @]
      /\ \/ loop' = [loop EXCEPT ![s] = Sending(op, {n} \cap Registered(s), FALSE)]
         \/ loop' = [loop EXCEPT ![s] = [Idle EXCEPT !.st = "saving", !.op = op]]
  BY DEF ApplyCommand, Knows
<1>2. agreed[n] \in Entry
  BY <1>1 DEF Types, LogTypes
<1>3. op \in Op /\ op.pos \in Nat /\ op.commiter \in Clerk
  BY <1>2 DEF Entry, Op
<1>4. Execute(s, op) \in [Key -> Value]
  BY <1>3, ExecuteType DEF Types, ServerTypes
<1>5. n \in Nat /\ {n} \cap Registered(s) \in SUBSET (1 .. MaxIndex) /\ FALSE \in BOOLEAN
  BY DEF Registered, Types, ServerTypes
<1>6. \E x \in LoopState : /\ loop' = [loop EXCEPT ![s] = x]
                           /\ x.st # "idle" => x.op = op
                           /\ x.st = "sending" => x.todo \subseteq {n}
  <2>1. CASE loop' = [loop EXCEPT ![s] = Sending(op, {n} \cap Registered(s), FALSE)]
    <3> DEFINE todo == {n} \cap Registered(s)
               x == Sending(op, todo, FALSE)
    <3>1. todo \in SUBSET (1 .. MaxIndex) /\ op \in Op \cup {Nil} /\ todo \subseteq {n}
      BY <1>3, <1>5
    <3>2. IsSending(x, op, todo)
      <4> HIDE DEF op, todo
      <4> QED BY <3>1, LoopStates
    <3> QED BY <2>1, <3>1, <3>2 DEF IsSending
  <2>2. CASE loop' = [loop EXCEPT ![s] = [Idle EXCEPT !.st = "saving", !.op = op]]
    <3> DEFINE x == [Idle EXCEPT !.st = "saving", !.op = op]
    <3>1. x \in LoopState /\ x.st = "saving" /\ x.op = op
      <4> HIDE DEF op
      <4> QED BY <1>3, LoopStates
    <3> QED BY <2>2, <3>1
  <2> QED BY <1>1, <2>1, <2>2
<1> HIDE DEF op, n
<1>7. /\ loop' \in [Server -> LoopState]
      /\ loop'[s].st # "idle" => loop'[s].op = op
      /\ loop'[s].st = "sending" => loop'[s].todo \subseteq {n}
      /\ \A t \in Server : t # s => loop'[t] = loop[t]
  BY <1>6 DEF Types, ServerTypes
<1>8. /\ kvstore' \in [Server -> [Key -> Value]] /\ kvstore'[s] = Execute(s, op)
      /\ applied' \in [Server -> Nat] /\ applied'[s] = n
      /\ \A t \in Server : t # s => kvstore'[t] = kvstore[t] /\ applied'[t] = applied[t]
  BY <1>1, <1>4, <1>5 DEF Types, ServerTypes
<1>9. /\ CommittedStore' \in [Server -> [Clerk -> Nat]]
      /\ \A t \in Server : t # s => CommittedStore'[t] = CommittedStore[t]
      /\ \A c \in Clerk : CommittedStore'[s][c] =
           IF c = op.commiter /\ op.kind \in Writes /\ ~Seen(s, op) THEN op.pos
                                                                   ELSE CommittedStore[s][c]
  BY <1>1, <1>3 DEF Types, ServerTypes
<1>10. OnlyServer(s)
  BY <1>1, <1>7, <1>8, <1>9 DEF OnlyServer
<1>11. Types'
  BY <1>1, <1>7, <1>8, <1>9 DEF Types, ServerTypes, LogTypes, ClerkTypes, logVars
<1> QED BY <1>1, <1>3, <1>7, <1>8, <1>9, <1>10, <1>11 DEF op, n

\* The snapshot of what s has.
Taken(s) == Snap(applied[s], kvstore[s], CommittedStore[s])

\* The server takes a snapshot of the map and the table of duplicates.
LEMMA SaveSnapshotGives ==
  ASSUME Types, NEW s \in Server, SaveSnapshot(s)
  PROVE  /\ Types'
         /\ UNCHANGED <<logVars, kvstore, CommittedStore, applied, notifyChs, clerk, calls,
                        result, restarts>>
         /\ OnlyServer(s) /\ loop[s].st = "saving"
         /\ disk'[s] = Taken(s) /\ snapshots' = snapshots \cup {Taken(s)}
         /\ Taken(s).index = applied[s] /\ Taken(s).kvstore = kvstore[s]
         /\ Taken(s).committed = CommittedStore[s]
         /\ loop'[s].st \in {"idle", "sending"}
         /\ loop'[s].st = "sending" =>
              loop'[s].op = loop[s].op /\ loop'[s].todo \subseteq {applied[s]}
<1> DEFINE snap == Taken(s)
           todo == {applied[s]} \cap Registered(s)
           x == Sending(loop[s].op, todo, FALSE)
<1>1. /\ UNCHANGED <<logVars, kvstore, CommittedStore, applied, notifyChs, clerk, calls,
                     result, restarts>>
      /\ loop[s].st = "saving"
      /\ disk' = [disk EXCEPT ![s] = snap]
      /\ snapshots' = snapshots \cup {snap}
  BY DEF SaveSnapshot, Taken
<1>2. loop' = [loop EXCEPT ![s] = x]
  BY DEF SaveSnapshot, Types, ServerTypes
<1>3. /\ snap \in Snapshot /\ snap.index = applied[s] /\ snap.kvstore = kvstore[s]
      /\ snap.committed = CommittedStore[s]
  BY DEF Types, ServerTypes, Taken, Snap, Snapshot
<1>4. loop[s].op \in Op \cup {Nil} /\ todo \in SUBSET (1 .. MaxIndex) /\ todo \subseteq {applied[s]}
  BY DEF Types, ServerTypes, LoopState, Registered
<1>5. IsSending(x, loop[s].op, todo)
  <2> DEFINE op == loop[s].op
  <2> HIDE DEF op, todo
  <2>1. op \in Op \cup {Nil} /\ todo \in SUBSET (1 .. MaxIndex)
    BY <1>4 DEF op
  <2>2. IsSending(Sending(op, todo, FALSE), op, todo)
    BY <2>1, LoopStates
  <2> QED BY <2>2 DEF op
<1> HIDE DEF snap, todo, x
<1>6. /\ loop' \in [Server -> LoopState] /\ loop'[s] = x
      /\ \A t \in Server : t # s => loop'[t] = loop[t]
  BY <1>2, <1>5 DEF IsSending, Types, ServerTypes
<1>7. /\ disk' \in [Server -> Snapshot] /\ disk'[s] = snap /\ snapshots' \subseteq Snapshot
      /\ \A t \in Server : t # s => disk'[t] = disk[t]
  BY <1>1, <1>3 DEF Types, ServerTypes
<1>8. OnlyServer(s)
  BY <1>1, <1>6, <1>7 DEF OnlyServer
<1>9. Types'
  BY <1>1, <1>6, <1>7 DEF Types, ServerTypes, LogTypes, ClerkTypes, logVars
<1> QED BY <1>1, <1>3, <1>4, <1>5, <1>6, <1>7, <1>8, <1>9 DEF snap, IsSending

\* A snapshot replaces the state.
LEMMA ReceiveSnapshotGives ==
  ASSUME Types, NEW s \in Server, ReceiveSnapshot(s), ~LateSnapshots
  PROVE  /\ Types'
         /\ UNCHANGED <<logVars, snapshots, notifyChs, clerk, calls, result, restarts>>
         /\ OnlyServer(s) /\ loop[s].st = "idle"
         /\ \E snap \in snapshots :
              /\ disk'[s] = snap /\ applied[s] < snap.index /\ applied'[s] = snap.index
              /\ kvstore'[s] = snap.kvstore /\ CommittedStore'[s] = snap.committed
         /\ loop'[s].st \in {"idle", "sending"}
         /\ loop'[s].st = "sending" => loop'[s].op = Nil
<1>1. PICK snap \in snapshots :
        /\ loop[s].st = "idle" /\ snap.index > applied[s]
        /\ disk' = [disk EXCEPT ![s] = snap]
        /\ kvstore' = [kvstore EXCEPT ![s] = snap.kvstore]
        /\ CommittedStore' = [CommittedStore EXCEPT ![s] = snap.committed]
        /\ applied' = [applied EXCEPT ![s] = Max({applied[s], snap.index})]
        /\ loop' = [loop EXCEPT ![s] =
                      Sending(EmptyOp, {n \in Registered(s) : n <= snap.index}, TRUE)]
        /\ UNCHANGED <<logVars, snapshots, notifyChs, clerk, calls, result, restarts>>
  <2>1. applied[s] = applied[s] /\ s \in DOMAIN applied
    BY DEF Types, ServerTypes
  <2> QED BY <2>1 DEF ReceiveSnapshot, readSnapshot
<1>2. /\ snap \in Snapshot /\ snap.index \in Nat /\ applied[s] \in Nat
      /\ snap.kvstore \in [Key -> Value] /\ snap.committed \in [Clerk -> Nat]
  BY DEF Types, ServerTypes, Snapshot
<1>3. Max({applied[s], snap.index}) = snap.index
  <2>1. \A x \in {applied[s], snap.index} :
          (\A y \in {applied[s], snap.index} : x >= y) <=> x = snap.index
    BY <1>1, <1>2
  <2> QED BY <2>1 DEF Max
<1> DEFINE todo == {n \in Registered(s) : n <= snap.index}
           x == Sending(Nil, todo, TRUE)
<1>4. todo \in SUBSET (1 .. MaxIndex) /\ loop' = [loop EXCEPT ![s] = x]
  BY <1>1 DEF Registered, EmptyOp
<1>5. IsSending(x, Nil, todo)
  <2> HIDE DEF todo
  <2> QED BY <1>4, LoopStates
<1> HIDE DEF todo, x
<1>6. /\ loop' \in [Server -> LoopState] /\ loop'[s] = x
      /\ \A t \in Server : t # s => loop'[t] = loop[t]
  BY <1>4, <1>5 DEF IsSending, Types, ServerTypes
<1>7. /\ disk' \in [Server -> Snapshot] /\ disk'[s] = snap
      /\ applied' \in [Server -> Nat] /\ applied'[s] = snap.index
      /\ kvstore' \in [Server -> [Key -> Value]] /\ kvstore'[s] = snap.kvstore
      /\ CommittedStore' \in [Server -> [Clerk -> Nat]] /\ CommittedStore'[s] = snap.committed
      /\ \A t \in Server : t # s => /\ disk'[t] = disk[t] /\ applied'[t] = applied[t]
                                    /\ kvstore'[t] = kvstore[t]
                                    /\ CommittedStore'[t] = CommittedStore[t]
  BY <1>1, <1>2, <1>3 DEF Types, ServerTypes
<1>8. OnlyServer(s)
  BY <1>6, <1>7 DEF OnlyServer
<1>9. Types'
  BY <1>1, <1>6, <1>7 DEF Types, ServerTypes, LogTypes, ClerkTypes, logVars
<1> QED BY <1>1, <1>2, <1>5, <1>6, <1>7, <1>8, <1>9 DEF IsSending

\* The loop sends on a channel.
LEMMA NotifyGives ==
  ASSUME Types, NEW s \in Server, Notify(s)
  PROVE  /\ Types'
         /\ UNCHANGED <<logVars, kvstore, CommittedStore, applied, disk, snapshots, clerk,
                        result, restarts>>
         /\ OnlyServer(s) /\ loop[s].st = "sending"
         /\ \E n \in loop[s].todo :
              /\ n \in 1 .. MaxIndex
              /\ Registers(s, n, notifyChs[s][n]) \/ Registers(s, n, 0)
              /\ LET k == notifyChs[s][n] IN
                   \/ k \notin DOMAIN calls /\ calls' = calls
                   \/ /\ k \in DOMAIN calls
                      /\ CallMoves(k, calls[k].st, calls[k].index, <<loop[s].op>>, calls[k].reply)
         /\ loop'[s].st \in {"idle", "sending"}
         /\ loop'[s].st = "sending" =>
              loop'[s].op = loop[s].op /\ loop'[s].todo \subseteq loop[s].todo
<1>1. PICK n \in loop[s].todo :
        /\ loop[s].st = "sending"
        /\ calls' = [calls EXCEPT ![notifyChs[s][n]].ch = <<loop[s].op>>]
        /\ notifyChs' = [notifyChs EXCEPT ![s][n] = IF loop[s].drop THEN 0 ELSE @]
        /\ loop' = [loop EXCEPT ![s] = Sending(@.op, loop[s].todo \ {n}, @.drop)]
        /\ UNCHANGED <<logVars, kvstore, CommittedStore, applied, disk, snapshots, clerk,
                       result, restarts>>
  BY DEF Notify
<1>2. /\ loop[s] \in LoopState /\ n \in 1 .. MaxIndex /\ loop[s].op \in Op \cup {Nil}
      /\ loop[s].todo \in SUBSET (1 .. MaxIndex) /\ loop[s].drop \in BOOLEAN
  BY DEF Types, ServerTypes, LoopState
<1>3. /\ notifyChs' \in [Server -> [1 .. MaxIndex -> Nat]]
      /\ Registers(s, n, notifyChs[s][n]) \/ Registers(s, n, 0)
  BY <1>1, <1>2 DEF Types, ServerTypes, Registers
<1> DEFINE op == loop[s].op
           todo == loop[s].todo \ {n}
<1>4. \E x \in LoopState : loop' = [loop EXCEPT ![s] = x] /\ IsSending(x, op, todo)
  <2>1. op \in Op \cup {Nil} /\ todo \in SUBSET (1 .. MaxIndex)
    BY <1>2
  <2>2. loop' = [loop EXCEPT ![s] = Sending(op, todo, loop[s].drop)]
    BY <1>1 DEF Types, ServerTypes
  <2> HIDE DEF op, todo
  <2>3. IsSending(Sending(op, todo, FALSE), op, todo) /\ IsSending(Sending(op, todo, TRUE), op, todo)
    BY <2>1, LoopStates
  <2>4. loop[s].drop = TRUE \/ loop[s].drop = FALSE
    BY <1>2
  <2>5. CASE loop[s].drop = TRUE
    BY <2>2, <2>3, <2>5 DEF IsSending
  <2>6. CASE loop[s].drop = FALSE
    BY <2>2, <2>3, <2>6 DEF IsSending
  <2> QED BY <2>4, <2>5, <2>6
<1>5. /\ loop' \in [Server -> LoopState] /\ IsSending(loop'[s], op, todo)
      /\ \A t \in Server : t # s => loop'[t] = loop[t]
  BY <1>4 DEF Types, ServerTypes
<1>6. todo \subseteq loop[s].todo
  OBVIOUS
<1>7. OnlyServer(s)
  BY <1>1, <1>5 DEF OnlyServer
<1> HIDE DEF op, todo
<1> DEFINE k == notifyChs[s][n]
<1>8. /\ ClerkTypes'
      /\ \/ k \notin DOMAIN calls /\ calls' = calls
         \/ /\ k \in DOMAIN calls
            /\ CallMoves(k, calls[k].st, calls[k].index, <<loop[s].op>>, calls[k].reply)
  <2>1. CASE k \notin DOMAIN calls
    <3>1. calls' = calls
      BY <1>1, <2>1 DEF Types, ClerkTypes
    <3> QED BY <1>1, <2>1, <3>1 DEF Types, ClerkTypes
  <2>2. CASE k \in DOMAIN calls
    <3> DEFINE ch == <<loop[s].op>>
               r == [calls[k] EXCEPT !.ch = ch]
    <3>1. calls[k] \in Call /\ ch \in Seq(Op \cup {Nil})
      BY <1>2, <2>2, CallIs
    <3>2. calls' = [calls EXCEPT ![k] = [@ EXCEPT !.ch = ch]]
      BY <1>1
    <3>3. calls' = [calls EXCEPT ![k] = r]
      BY <3>2
    <3> HIDE DEF ch, k
    <3>4. Becomes(k, r, calls[k].st, calls[k].index, ch, calls[k].reply)
      BY <3>1, CallCh
    <3>5. calls[k].st \in {"reading", "leaving", "replied"} => calls[k].reply \in Answer
      BY <2>2, CallIs
    <3> HIDE DEF r
    <3>6. ClerkTypes' /\ CallMoves(k, calls[k].st, calls[k].index, ch, calls[k].reply)
      BY <1>1, <2>2, <3>3, <3>4, <3>5, CallMoved DEF Types
    <3> QED BY <2>2, <3>6 DEF ch
  <2> QED BY <2>1, <2>2
<1>9. Types'
  BY <1>1, <1>3, <1>5, <1>8 DEF Types, ServerTypes, LogTypes, logVars
<1> QED BY <1>1, <1>2, <1>3, <1>5, <1>6, <1>7, <1>8, <1>9 DEF op, IsSending

\* Call k is lost with its server, or is as before.
DiesOrStays(s, k) ==
  \/ /\ calls[k].server = s /\ calls[k].st \notin {"sent", "replied"}
     /\ calls'[k].st = "dead" /\ calls'[k].ch = <<>>
     /\ calls'[k].server = s /\ calls'[k].op = calls[k].op
     /\ calls'[k].index = calls[k].index
  \/ /\ calls[k].server = s => calls[k].st \in {"sent", "replied"}
     /\ calls'[k] = calls[k]

\* A server starts again from its disk; its handlers are gone.
LEMMA RestartGives ==
  ASSUME Types, NEW s \in Server, Restart(s)
  PROVE  /\ Types' /\ UNCHANGED <<agreed, view, term, proposed, disk, snapshots, clerk, result>>
         /\ OnlyServer(s) /\ loop'[s] = Idle /\ applied'[s] = disk[s].index
         /\ kvstore'[s] = disk[s].kvstore /\ CommittedStore'[s] = disk[s].committed
         /\ \A n \in 1 .. MaxIndex : notifyChs'[s][n] = 0
         /\ \A t \in Server : t # s => notifyChs'[t] = notifyChs[t]
         /\ DOMAIN calls' = DOMAIN calls /\ \A k \in DOMAIN calls : DiesOrStays(s, k)
<1>1. /\ restarts' = restarts + 1
      /\ leading' = leading \ {s}
      /\ UNCHANGED <<agreed, view, term, proposed, disk, snapshots, clerk, result>>
      /\ kvstore' = [kvstore EXCEPT ![s] = disk[s].kvstore]
      /\ CommittedStore' = [CommittedStore EXCEPT ![s] = disk[s].committed]
      /\ applied' = [applied EXCEPT ![s] = disk[s].index]
      /\ notifyChs' = [notifyChs EXCEPT ![s] = [n \in 1 .. MaxIndex |-> 0]]
      /\ loop' = [loop EXCEPT ![s] = Idle]
  BY DEF Restart, StepDown, readSnapshot
<1>2. calls' = [k \in DOMAIN calls |->
         IF calls[k].server = s /\ calls[k].st \notin {"sent", "replied"}
           THEN [calls[k] EXCEPT !.st = "dead", !.ch = <<>>] ELSE calls[k]]
  BY DEF Restart
<1>3. disk[s] \in Snapshot /\ disk[s].index \in Nat /\ disk[s].kvstore \in [Key -> Value]
      /\ disk[s].committed \in [Clerk -> Nat]
  BY DEF Types, ServerTypes, Snapshot
<1>4. /\ kvstore' \in [Server -> [Key -> Value]] /\ kvstore'[s] = disk[s].kvstore
      /\ CommittedStore' \in [Server -> [Clerk -> Nat]]
      /\ CommittedStore'[s] = disk[s].committed
      /\ applied' \in [Server -> Nat] /\ applied'[s] = disk[s].index
      /\ notifyChs' \in [Server -> [1 .. MaxIndex -> Nat]]
      /\ \A n \in 1 .. MaxIndex : notifyChs'[s][n] = 0
      /\ \A t \in Server : t # s =>
           /\ notifyChs'[t] = notifyChs[t] /\ applied'[t] = applied[t]
           /\ kvstore'[t] = kvstore[t] /\ CommittedStore'[t] = CommittedStore[t]
  BY <1>1, <1>3 DEF Types, ServerTypes
<1>5. /\ loop' \in [Server -> LoopState] /\ loop'[s] = Idle
      /\ \A t \in Server : t # s => loop'[t] = loop[t]
  BY <1>1, LoopStates DEF Types, ServerTypes
<1>6. OnlyServer(s)
  BY <1>1, <1>4, <1>5 DEF OnlyServer
<1>7. DOMAIN calls' = DOMAIN calls /\ DOMAIN calls = 1 .. Len(calls) /\ Len(calls) \in Nat
  <2>1. DOMAIN calls = 1 .. Len(calls) /\ Len(calls) \in Nat
    BY DEF Types, ClerkTypes
  <2>2. DOMAIN calls' = DOMAIN calls
    BY Zenon, <1>2
  <2> QED BY <2>1, <2>2
<1>8. ASSUME NEW k \in DOMAIN calls
      PROVE  /\ DiesOrStays(s, k) /\ calls'[k] \in Call
             /\ calls'[k].st \in {"reading", "leaving", "replied"} => calls'[k].reply \in Answer
  <2>1. /\ calls[k] \in Call
        /\ calls[k].st \in {"reading", "leaving", "replied"} => calls[k].reply \in Answer
    BY CallIs
  <2>2. CASE calls[k].server = s /\ calls[k].st \notin {"sent", "replied"}
    <3>1. calls'[k] = [calls[k] EXCEPT !.st = "dead", !.ch = <<>>]
      BY <1>2, <2>2
    <3>2. <<>> \in Seq(Op \cup {Nil}) /\ "dead" \in CallStates
      BY DEF CallStates
    <3> DEFINE r == [calls[k] EXCEPT !.st = "dead", !.ch = <<>>]
    <3>3. /\ r \in Call /\ r.st = "dead" /\ r.ch = <<>> /\ r.server = calls[k].server
          /\ r.op = calls[k].op /\ r.index = calls[k].index
      BY <2>1, <3>2 DEF Call
    <3> QED BY <2>2, <3>1, <3>3 DEF DiesOrStays
  <2>3. CASE ~(calls[k].server = s /\ calls[k].st \notin {"sent", "replied"})
    BY <1>2, <2>1, <2>3 DEF DiesOrStays
  <2> QED BY <2>2, <2>3
<1>9. calls' \in Seq(Call)
  <2>1. \E n \in Nat : calls' \in [1 .. n -> Call]
    BY <1>2, <1>7, <1>8
  <2> QED BY <2>1, SeqDef
<1>10. ClerkTypes'
  BY <1>1, <1>7, <1>8, <1>9 DEF Types, ClerkTypes
<1>11. Types'
  BY <1>1, <1>4, <1>5, <1>10 DEF Types, ServerTypes, LogTypes
<1> QED BY <1>1, <1>4, <1>5, <1>6, <1>7, <1>8, <1>11

\* The next entry of the latest leader is agreed on.
LEMMA AgreeGives ==
  ASSUME Types, Agree, UNCHANGED <<serverVars, notifyChs, clerk, calls, result, restarts>>
  PROVE  /\ Types' /\ UNCHANGED <<view, term, leading, proposed>>
         /\ Len(agreed) \in Nat /\ DOMAIN agreed = 1 .. Len(agreed)
         /\ Len(agreed') = Len(agreed) + 1 /\ DOMAIN agreed' = 1 .. Len(agreed) + 1
         /\ \A n \in 1 .. Len(agreed) : agreed'[n] = agreed[n]
         /\ agreed'[Len(agreed) + 1] \in Entry
         /\ \E s \in Server : \E n \in DOMAIN view[s] : agreed'[Len(agreed) + 1] = view[s][n]
<1>1. PICK s \in Server :
        /\ Len(agreed) < Len(view[s]) /\ agreed' = Append(agreed, view[s][Len(agreed) + 1])
        /\ UNCHANGED <<view, term, leading, proposed>>
  BY DEF Agree
<1> DEFINE n == Len(agreed) + 1
           e == view[s][n]
<1>2. /\ agreed \in Seq(Entry) /\ view[s] \in Seq(Entry) /\ Len(agreed) \in Nat
      /\ n \in 1 .. Len(view[s])
  BY <1>1 DEF Types, LogTypes
<1>3. n \in DOMAIN view[s] /\ e \in Entry
  BY <1>2
<1>4. /\ agreed' \in Seq(Entry) /\ Len(agreed') = Len(agreed) + 1
      /\ DOMAIN agreed = 1 .. Len(agreed) /\ DOMAIN agreed' = 1 .. Len(agreed) + 1
      /\ agreed'[Len(agreed) + 1] = e /\ \A m \in 1 .. Len(agreed) : agreed'[m] = agreed[m]
  <2>1. agreed' = Append(agreed, e)
    BY <1>1
  <2> HIDE DEF e
  <2> QED BY <1>2, <1>3, <2>1
<1>5. Types'
  BY <1>1, <1>4 DEF Types, LogTypes, ServerTypes, ClerkTypes, serverVars
<1> QED BY <1>1, <1>2, <1>3, <1>4, <1>5

\* What two logs put together are.
LEMMA Concatenated ==
  ASSUME NEW S, NEW a \in Seq(S), NEW b \in Seq(S)
  PROVE  /\ a \o b \in Seq(S)
         /\ \A n \in DOMAIN (a \o b) :
              \/ n \in DOMAIN a /\ (a \o b)[n] = a[n]
              \/ \E m \in DOMAIN b : (a \o b)[n] = b[m]
<1>1. /\ a \o b \in Seq(S) /\ DOMAIN (a \o b) = 1 .. Len(a) + Len(b)
      /\ DOMAIN a = 1 .. Len(a) /\ DOMAIN b = 1 .. Len(b)
      /\ Len(a) \in Nat /\ Len(b) \in Nat
      /\ \A n \in 1 .. Len(a) + Len(b) :
           (a \o b)[n] = IF n <= Len(a) THEN a[n] ELSE b[n - Len(a)]
  BY ConcatProperties
<1>2. \A n \in 1 .. Len(a) + Len(b) : n <= Len(a) \/ n - Len(a) \in 1 .. Len(b)
  BY <1>1
<1> QED BY <1>1, <1>2

\* The log of a new leader is made of entries there are.
LEMMA ElectGives ==
  ASSUME Types, NEW s \in Server, Elect(s),
         UNCHANGED <<serverVars, notifyChs, clerk, calls, result, restarts>>
  PROVE  /\ Types' /\ UNCHANGED <<agreed, proposed>>
         /\ \A t \in Server : t # s => view'[t] = view[t]
         /\ \A n \in DOMAIN view'[s] :
              \/ n \in DOMAIN agreed /\ view'[s][n] = agreed[n]
              \/ \E p \in proposed : view'[s][n] = p.entry
<1>1. PICK L \in LogsOfNewLeader :
        /\ <<LatestTerm + 1, s>> \in Candidates
        /\ term' = [term EXCEPT ![s] = LatestTerm + 1]
        /\ leading' = leading \cup {s} /\ view' = [view EXCEPT ![s] = L]
        /\ UNCHANGED <<agreed, proposed>>
  BY DEF Elect
<1>2. LatestTerm + 1 \in Nat
  BY <1>1, AgreedLogAssumption
<1>3. PICK m \in Nat : \E t \in [1 .. m -> {p.entry : p \in proposed}] : L = agreed \o t
  <2>1. Len(agreed) \in Nat /\ MaxIndex - Len(agreed) \in Int
    BY AgreedLogAssumption DEF Types, LogTypes
  <2> DEFINE entries == {p.entry : p \in proposed}
             candidates(n) == {p.entry : p \in {q \in proposed : q.index = Len(agreed) + n}}
             tails(m) == {t \in [1 .. m -> entries] : \A n \in 1 .. m : t[n] \in candidates(n)}
             all == UNION {tails(m) : m \in 0 .. (MaxIndex - Len(agreed))}
  <2>2. LogsOfNewLeader = {agreed \o t : t \in all}
    BY DEF LogsOfNewLeader
  <2>3. PICK t \in all : L = agreed \o t
    BY <1>1, <2>2
  <2>4. PICK m \in 0 .. (MaxIndex - Len(agreed)) : t \in tails(m)
    BY <2>3
  <2>5. m \in Nat /\ t \in [1 .. m -> entries]
    BY <2>1, <2>4
  <2> QED BY <2>3, <2>5
<1>10. PICK t \in [1 .. m -> {p.entry : p \in proposed}] : L = agreed \o t
  BY <1>3
<1>4. {p.entry : p \in proposed} \subseteq Entry /\ agreed \in Seq(Entry)
  BY DEF Types, LogTypes
<1>5. t \in Seq(Entry) /\ DOMAIN t = 1 .. m /\ Len(t) = m
  <2>1. t \in [1 .. m -> Entry]
    BY <1>10, <1>4
  <2>2. t \in Seq(Entry)
    BY <1>10, <2>1, SeqDef
  <2> QED BY <1>10, <2>2
<1>6. L \in Seq(Entry) /\ \A n \in DOMAIN L :
        \/ n \in DOMAIN agreed /\ L[n] = agreed[n]
        \/ \E p \in proposed : L[n] = p.entry
  <2>1. /\ agreed \o t \in Seq(Entry)
        /\ \A n \in DOMAIN (agreed \o t) :
             \/ n \in DOMAIN agreed /\ (agreed \o t)[n] = agreed[n]
             \/ \E k \in DOMAIN t : (agreed \o t)[n] = t[k]
    BY <1>4, <1>5, Concatenated
  <2>2. \A k \in DOMAIN t : \E p \in proposed : t[k] = p.entry
    BY <1>5, <1>10
  <2> QED BY <1>10, <2>1, <2>2
<1>7. /\ view' \in [Server -> Seq(Entry)] /\ view'[s] = L
      /\ \A u \in Server : u # s => view'[u] = view[u]
  BY <1>1, <1>6 DEF Types, LogTypes
<1>8. term' \in [Server -> Nat] /\ leading' \subseteq Server
  BY <1>1, <1>2 DEF Types, LogTypes
<1>9. Types'
  BY <1>1, <1>7, <1>8 DEF Types, LogTypes, ServerTypes, ClerkTypes, serverVars
<1> QED BY <1>1, <1>6, <1>7, <1>9

\* A leader that steps down changes no log.
LEMMA StepDownGives ==
  ASSUME Types, NEW s \in Server, StepDown(s),
         UNCHANGED <<serverVars, notifyChs, clerk, calls, result, restarts>>
  PROVE  Types' /\ UNCHANGED <<agreed, view, term, proposed>>
BY DEF StepDown, Types, LogTypes, ServerTypes, ClerkTypes, serverVars

(***************************************************************************)
(* What a step leaves of the invariant.                                    *)
(***************************************************************************)
\* The log as it was is a prefix of what it is.
Grows ==
  /\ DOMAIN agreed \subseteq DOMAIN agreed' /\ \A n \in DOMAIN agreed : agreed'[n] = agreed[n]
  /\ Len(agreed) \in Nat /\ DOMAIN agreed = 1 .. Len(agreed)
  /\ Len(agreed') \in Nat /\ Len(agreed) <= Len(agreed') /\ DOMAIN agreed' = 1 .. Len(agreed')

\* A log that is left alone grows by nothing.
LEMMA SameLogGrows == ASSUME Types, UNCHANGED agreed PROVE Grows
BY DEF Types, LogTypes, Grows

\* What was agreed on stays so.
LEMMA AgreedKept == ASSUME Grows, NEW op, AgreedOn(op) PROVE AgreedOn(op)'
BY DEF Grows, AgreedOn

\* What is at an index of the log stays there.
LEMMA HasKept ==
  ASSUME Grows, NEW n \in DOMAIN agreed, NEW c, NEW p
  PROVE  Has(n, c, p)' <=> Has(n, c, p)
BY DEF Grows, Has

\* How a clerk's state may change while its commands stay issued.
ClerkMoves(c) ==
  \/ /\ clerk'[c].numOfOrders = clerk[c].numOfOrders /\ clerk'[c].op = clerk[c].op
     /\ clerk[c].st # "idle" => clerk'[c].st # "idle"
  \/ /\ clerk'[c].numOfOrders = clerk[c].numOfOrders
     /\ clerk[c].st = "idle" \/ clerk[c].op.kind = "Get"
  \/ clerk'[c].numOfOrders = clerk[c].numOfOrders + 1 /\ AgreedOn(clerk[c].op)

\* A command stays issued.
LEMMA IssuedKept ==
  ASSUME Types, Grows, NEW op \in Op, Issued(op), ClerkMoves(op.commiter),
         Clerking(op.commiter)
  PROVE  Issued(op)'
<1> DEFINE c == op.commiter
<1>1. c \in Clerk /\ clerk[c].numOfOrders \in Nat /\ clerk[c].numOfOrders >= 1
  BY DEF Op, Types, ClerkTypes, ClerkState, Clerking
<1>2. AgreedOn(op) => AgreedOn(op)'
  BY AgreedKept
<1>3. op.pos \in Nat /\ (op.kind = "Get" => op.pos = 0)
  BY DEF Op, Issued
<1>4. CASE op.kind \notin Writes
  BY <1>3, <1>4 DEF Issued
<1>5. CASE op.kind \in Writes
  <2>1. \/ op.pos \in 1 .. clerk[c].numOfOrders - 1 /\ AgreedOn(op)
        \/ op.pos = clerk[c].numOfOrders /\ clerk[c].st # "idle" /\ op = clerk[c].op
    BY <1>5 DEF Issued
  <2>2. op.kind # "Get"
    BY <1>5 DEF Writes
  <2>3. /\ clerk'[c].numOfOrders \in {clerk[c].numOfOrders, clerk[c].numOfOrders + 1}
        /\ \/ op.pos \in 1 .. clerk'[c].numOfOrders - 1 /\ AgreedOn(op)
           \/ op.pos = clerk'[c].numOfOrders /\ clerk'[c].st # "idle" /\ op = clerk'[c].op
    BY <1>1, <2>1, <2>2 DEF ClerkMoves
  <2>4. \/ op.pos \in 1 .. clerk'[c].numOfOrders - 1 /\ AgreedOn(op)'
        \/ op.pos = clerk'[c].numOfOrders /\ clerk'[c].st # "idle" /\ op = clerk'[c].op
    BY <1>2, <2>3
  <2> QED BY <2>2, <2>4 DEF Issued
<1> QED BY <1>4, <1>5

\* The calls that were made are there, for what they were.
CallsKept ==
  /\ DOMAIN calls \subseteq DOMAIN calls'
  /\ \A k \in DOMAIN calls : calls'[k].op = calls[k].op

\* The commands there are have their type.
LEMMA OpTypes ==
  ASSUME Types
  PROVE  /\ \A n \in DOMAIN agreed : agreed[n].op \in Op
         /\ \A s \in Server : \A n \in DOMAIN view[s] : view[s][n].op \in Op
         /\ \A p \in proposed : p.entry.op \in Op
         /\ \A k \in DOMAIN calls : calls[k].op \in Op
<1>1. \A e \in Entry : e.op \in Op
  BY DEF Entry
<1>2. \A n \in DOMAIN agreed : agreed[n] \in Entry
  BY DEF Types, LogTypes
<1>3. \A s \in Server : \A n \in DOMAIN view[s] : view[s][n] \in Entry
  <2> SUFFICES ASSUME NEW s \in Server PROVE \A n \in DOMAIN view[s] : view[s][n] \in Entry
    OBVIOUS
  <2>1. view[s] \in Seq(Entry)
    BY DEF Types, LogTypes
  <2> QED BY <2>1
<1>4. \A p \in proposed : p.entry \in Entry
  BY DEF Types, LogTypes
<1>5. \A k \in DOMAIN calls : calls[k].op \in Op
  BY CallIs
<1> QED BY <1>1, <1>2, <1>3, <1>4, <1>5

\* Commands stay issued if the clerks only move on.
LEMMA AllIssuedKept ==
  ASSUME Types, Grows, Agreeing, \A c \in Clerk : ClerkMoves(c)
  PROVE  \A op \in Op : Issued(op) => Issued(op)'
<1> SUFFICES ASSUME NEW op \in Op, Issued(op) PROVE Issued(op)'
  OBVIOUS
<1>1. op.commiter \in Clerk
  BY DEF Op
<1>2. ClerkMoves(op.commiter) /\ Clerking(op.commiter)
  BY <1>1 DEF Agreeing
<1> QED BY <1>2, IssuedKept

\* A step that makes no command that is not issued.
LEMMA AllIssuedStep ==
  ASSUME Types, Grows, Agreeing, \A c \in Clerk : ClerkMoves(c),
         \A op \in Op : IsCommand(op)' => IsCommand(op) \/ Issued(op)'
  PROVE  AllIssued'
<1>1. \A op \in Op : IsCommand(op) => Issued(op)'
  BY AllIssuedKept DEF Agreeing, AllIssued
<1>2. \A op \in Op : IsCommand(op)' => Issued(op)'
  BY <1>1
<1> QED BY <1>2 DEF AllIssued

\* What is known of a clerk stays true while it and the log are left alone.
LEMMA ClerkingKept ==
  ASSUME Types, Grows, Agreeing, CallsKept, NEW c \in Clerk, clerk'[c] = clerk[c],
         \A op \in Op : Issued(op) => Issued(op)'
  PROVE  Clerking(c)'
<1>1. Clerking(c) /\ (clerk[c].st # "idle" => clerk[c].op \in Op)
  BY DEF Agreeing, Types, ClerkTypes
<1>2. \A p : (\E n \in DOMAIN agreed : Has(n, c, p)) => (\E n \in DOMAIN agreed' : Has(n, c, p)')
  BY HasKept DEF Grows
<1>3. clerk[c].st # "idle" => Issued(clerk[c].op)'
  <2> SUFFICES ASSUME clerk[c].st # "idle" PROVE Issued(clerk[c].op)'
    OBVIOUS
  <2>1. PICK op \in Op : op = clerk[c].op /\ Issued(op)
    BY <1>1 DEF Clerking
  <2>2. Issued(op)' /\ (clerk[c].op)' = op
    BY <2>1
  <2> QED BY <2>2 DEF Issued, AgreedOn
<1>4. /\ clerk'[c].numOfOrders >= 1
      /\ clerk'[c].st # "idle" =>
           /\ clerk'[c].op.commiter = c /\ Issued(clerk[c].op)'
           /\ clerk'[c].op.kind \in Writes => clerk'[c].op.pos = clerk'[c].numOfOrders
      /\ clerk'[c].st = "waiting" =>
           clerk'[c].call \in DOMAIN calls' /\ calls'[clerk'[c].call].op = clerk'[c].op
  BY <1>1, <1>3 DEF Clerking, CallsKept
<1>5. \A p \in 1 .. clerk'[c].numOfOrders - 1 : \E n \in DOMAIN agreed' : Has(n, c, p)'
  BY <1>1, <1>2 DEF Clerking
<1> QED BY <1>4, <1>5 DEF Clerking

\* The order of the log is that of its writes.
LEMMA LogInOrderKept == ASSUME Agreeing, UNCHANGED agreed PROVE LogInOrder'
<1>1. LogInOrder
  BY DEF Agreeing
<1>2. \A n, c, p : Has(n, c, p)' <=> Has(n, c, p)
  BY DEF Has
<1>3. \A m, n \in DOMAIN agreed', c \in Clerk, p \in Nat :
        Has(m, c, p)' /\ Has(n, c, p)' => agreed'[m].op = agreed'[n].op
  BY <1>1, <1>2 DEF LogInOrder
<1>4. \A n \in DOMAIN agreed', c \in Clerk, p \in Nat : Has(n, c, p)' =>
       \A q \in 1 .. p - 1 : \E m \in 1 .. n - 1 : Has(m, c, q)'
  BY <1>1, <1>2 DEF LogInOrder
<1> QED BY <1>3, <1>4 DEF LogInOrder

\* The maps of the log as it was.
LEMMA StoredKept ==
  ASSUME Types, Grows, NEW store, NEW committed, NEW n \in Nat, Stored(store, committed, n)
  PROVE  Stored(store, committed, n)'
<1>1. n <= Len(agreed) /\ store = Stores[n] /\ n \in 0 .. Len(agreed)
  BY DEF Stored, Grows
<1>2. StoresOf(agreed')[n] = StoresOf(agreed)[n]
  <2> DEFINE a == agreed
             b == agreed'
  <2>1. Len(a) \in Nat /\ Len(b) \in Nat /\ Len(a) <= Len(b) /\ \A m \in 1 .. Len(a) : a[m] = b[m]
    BY DEF Grows
  <2> HIDE DEF a, b
  <2>2. \A m \in 0 .. Len(a) : StoresOf(b)[m] = StoresOf(a)[m]
    BY <2>1, StoresKept
  <2> QED BY <1>1, <2>2 DEF a, b
<1>3. n <= Len(agreed') /\ store = Stores'[n]
  BY <1>1, <1>2 DEF Stores, Grows
<1>4. 1 .. n \subseteq DOMAIN agreed
  BY <1>1 DEF Grows
<1>5. \A m \in 1 .. n : \A c, p : Has(m, c, p)' <=> Has(m, c, p)
  BY <1>4, HasKept
<1>6. \A c \in Clerk :
       /\ committed[c] = 0 \/ \E m \in 1 .. n : Has(m, c, committed[c])'
       /\ \A m \in 1 .. n, p \in Nat : Has(m, c, p)' => p <= committed[c]
  <2> SUFFICES ASSUME NEW c \in Clerk
      PROVE  /\ committed[c] = 0 \/ \E m \in 1 .. n : Has(m, c, committed[c])'
             /\ \A m \in 1 .. n, p \in Nat : Has(m, c, p)' => p <= committed[c]
    OBVIOUS
  <2>1. /\ committed[c] = 0 \/ \E m \in 1 .. n : Has(m, c, committed[c])
        /\ \A m \in 1 .. n, p \in Nat : Has(m, c, p) => p <= committed[c]
    BY DEF Stored
  <2> QED BY <1>5, <2>1
<1> QED BY <1>3, <1>6 DEF Stored

\* A server that is left alone still has the map of its log.
LEMMA ServingKept ==
  ASSUME Types, Grows, Agreeing, NEW s \in Server,
         kvstore'[s] = kvstore[s], CommittedStore'[s] = CommittedStore[s],
         applied'[s] = applied[s], disk'[s] = disk[s]
  PROVE  Serving(s)'
<1>1. Serving(s) /\ applied[s] \in Nat /\ disk[s].index \in Nat
  BY DEF Agreeing, Types, ServerTypes, Snapshot
<1>2. Stored(kvstore[s], CommittedStore[s], applied[s])'
  <2> DEFINE store == kvstore[s]
             committed == CommittedStore[s]
             n == applied[s]
  <2>1. Stored(store, committed, n) /\ n \in Nat /\ UNCHANGED <<store, committed, n>>
    BY <1>1 DEF Serving
  <2> HIDE DEF store, committed, n
  <2>2. PICK st, co, m : st = store /\ co = committed /\ m = n
    OBVIOUS
  <2>3. Stored(st, co, m)'
    BY <2>1, <2>2, StoredKept
  <2> QED BY <2>1, <2>2, <2>3 DEF store, committed, n, Stored
<1>3. Stored(disk[s].kvstore, disk[s].committed, disk[s].index)'
  <2> DEFINE store == disk[s].kvstore
             committed == disk[s].committed
             n == disk[s].index
  <2>1. Stored(store, committed, n) /\ n \in Nat /\ UNCHANGED <<store, committed, n>>
    BY <1>1 DEF Serving
  <2> HIDE DEF store, committed, n
  <2>2. PICK st, co, m : st = store /\ co = committed /\ m = n
    OBVIOUS
  <2>3. Stored(st, co, m)'
    BY <2>1, <2>2, StoredKept
  <2> QED BY <2>1, <2>2, <2>3 DEF store, committed, n, Stored
<1> QED BY <1>2, <1>3 DEF Serving

\* Snapshots stay snapshots of the log.
LEMMA SnapshotKept ==
  ASSUME Types, Grows, Agreeing, NEW snap \in snapshots
  PROVE  Stored(snap.kvstore, snap.committed, snap.index)'
<1>1. Stored(snap.kvstore, snap.committed, snap.index) /\ snap.index \in Nat
  BY DEF Agreeing, Types, ServerTypes, Snapshot
<1> QED BY <1>1, StoredKept

\* The loop of a server that is left alone.
LEMMA LoopingKept ==
  ASSUME Types, Grows, Agreeing, NEW s \in Server,
         loop'[s] = loop[s], applied'[s] = applied[s]
  PROVE  Looping(s)'
<1>1. Looping(s) /\ applied[s] <= Len(agreed) /\ applied[s] \in Nat
  BY DEF Agreeing, Serving, Stored, Types, ServerTypes
<1>2. applied[s] >= 1 => agreed'[applied[s]] = agreed[applied[s]]
  BY <1>1 DEF Grows
<1> QED BY <1>1, <1>2 DEF Looping

\* The channels of a server whose registry and whose handlers are left alone.
LEMMA ChannelsKept ==
  ASSUME Agreeing, NEW s \in Server, notifyChs'[s] = notifyChs[s],
         \A k \in DOMAIN calls : calls[k].server = s /\ calls[k].st \notin Early =>
           k \in DOMAIN calls' /\ calls'[k] = calls[k]
  PROVE  Channels(s)'
BY DEF Agreeing, Channels

\* A handler that is left alone.
LEMMA HandlingKept ==
  ASSUME Types, Grows, Agreeing, NEW k \in DOMAIN calls, calls'[k] = calls[k],
         applied'[calls[k].server] \in Nat,
         applied[calls[k].server] <= applied'[calls[k].server]
  PROVE  Handling(k)'
<1>1. /\ Handling(k) /\ calls[k].server \in Server
      /\ applied[calls[k].server] <= Len(agreed) /\ applied[calls[k].server] \in Nat
  BY CallIs DEF Agreeing, Serving, Stored, Types, ServerTypes
<1>2. \A n \in 1 .. applied[calls[k].server] :
        agreed'[n] = agreed[n] /\ n \in 1 .. applied'[calls[k].server]
  BY <1>1 DEF Grows
<1>3. AgreedOn(calls[k].op) => AgreedOn(calls[k].op)'
  BY DEF AgreedOn, Grows
<1>4. /\ calls'[k].st \in Early => calls'[k].ch = <<>>
      /\ calls'[k].st = "reading" => calls'[k].op.kind = "Get"
      /\ calls'[k].st \in {"leaving", "replied"} /\ calls'[k].op.kind \in Writes
         /\ calls'[k].reply.err = "OK" => AgreedOn(calls[k].op)'
  BY <1>1, <1>3 DEF Handling
<1>5. calls'[k].st = "waiting" => \A i \in DOMAIN calls'[k].ch :
        LET op == calls'[k].ch[i] IN
          op # Nil => /\ calls'[k].index \in 1 .. applied'[calls'[k].server]
                      /\ op = agreed'[calls'[k].index].op
  BY <1>1, <1>2 DEF Handling
<1> QED BY <1>4, <1>5 DEF Handling

\* The step of a handler, if what it knows itself is right afterwards.
LEMMA HandlerKeeps ==
  ASSUME Types, Types', Agreeing, NEW k \in DOMAIN calls,
         UNCHANGED <<agreed, serverVars, clerk>>, Starts(calls[k].op),
         NEW st, NEW index, NEW ch, NEW reply, CallMoves(k, st, index, ch, reply),
         \A s \in Server, n \in 1 .. MaxIndex :
           \/ notifyChs'[s][n] \in {notifyChs[s][n], 0}
           \/ notifyChs'[s][n] = k /\ s = calls[k].server /\ n = index /\ st \notin Early,
         calls[k].st \in Early \/ (index = calls[k].index /\ st \notin Early),
         Handling(k)'
  PROVE  Agreeing'
<1>1. Grows /\ CallsKept
  BY SameLogGrows DEF CallMoves, CallsKept
<1>2. \A c \in Clerk : ClerkMoves(c)
  BY DEF ClerkMoves
<1>3. \A op \in Op : Issued(op) => Issued(op)'
  BY <1>1, <1>2, AllIssuedKept
<1>4. \A c \in Clerk : Clerking(c)'
  BY <1>1, <1>3, ClerkingKept
<1>5. AllIssued'
  <2>1. \A op \in Op : IsCommand(op)' => IsCommand(op)
    <3> SUFFICES ASSUME NEW op \in Op, IsCommand(op)' PROVE IsCommand(op)
      OBVIOUS
    <3>1. CASE \E n \in DOMAIN agreed' : op = agreed'[n].op
      BY <3>1 DEF IsCommand
    <3>2. CASE \E s \in Server : \E n \in DOMAIN view'[s] : op = view'[s][n].op
      BY <3>2 DEF IsCommand, Starts
    <3>3. CASE \E p \in proposed' : op = p.entry.op
      BY <3>3 DEF IsCommand, Starts
    <3>4. CASE \E j \in DOMAIN calls' : op = calls'[j].op
      BY <3>4 DEF IsCommand, CallMoves
    <3> QED BY <3>1, <3>2, <3>3, <3>4 DEF IsCommand
  <2> QED BY <1>1, <1>2, <2>1, AllIssuedStep
<1>6. LogInOrder'
  BY LogInOrderKept
<1>7. \A s \in Server : Looping(s)' /\ Serving(s)'
  BY <1>1, LoopingKept, ServingKept DEF serverVars
<1>8. \A s \in Server : Channels(s)'
  <2> SUFFICES ASSUME NEW s \in Server, NEW n \in 1 .. MaxIndex, notifyChs'[s][n] # 0
      PROVE  LET j == notifyChs'[s][n] IN
               /\ j \in DOMAIN calls' /\ calls'[j].st \notin Early
               /\ calls'[j].server = s /\ calls'[j].index = n
    BY DEF Channels
  <2>1. CASE notifyChs'[s][n] = notifyChs[s][n]
    <3> DEFINE j == notifyChs[s][n]
    <3>1. /\ j \in DOMAIN calls /\ calls[j].st \notin Early
          /\ calls[j].server = s /\ calls[j].index = n
      BY <2>1 DEF Agreeing, Channels
    <3> HIDE DEF j
    <3>2. /\ j \in DOMAIN calls' /\ calls'[j].st \notin Early
          /\ calls'[j].server = s /\ calls'[j].index = n
      BY <3>1 DEF CallMoves
    <3> QED BY <2>1, <3>2 DEF j
  <2>2. CASE notifyChs'[s][n] = k /\ s = calls[k].server /\ n = index /\ st \notin Early
    BY <2>2 DEF CallMoves
  <2> QED BY <2>1, <2>2
<1>9. \A snap \in snapshots' : Stored(snap.kvstore, snap.committed, snap.index)'
  BY <1>1, SnapshotKept DEF serverVars
<1>10. \A j \in DOMAIN calls' : Handling(j)'
  <2>1. ASSUME NEW j \in DOMAIN calls, j # k PROVE Handling(j)'
    <3>1. calls'[j] = calls[j] /\ calls[j].server \in Server
      BY <2>1, CallIs DEF CallMoves
    <3>2. applied' = applied /\ applied[calls[j].server] \in Nat
      BY <3>1 DEF serverVars, Types, ServerTypes
    <3>3. applied[calls[j].server] <= applied'[calls[j].server]
      BY <3>2
    <3> QED BY <1>1, <3>1, <3>2, <3>3, HandlingKept
  <2> QED BY <2>1 DEF CallMoves
<1> QED BY <1>4, <1>5, <1>6, <1>7, <1>8, <1>9, <1>10 DEF Agreeing

(***************************************************************************)
(* The steps of the handlers.                                              *)
(***************************************************************************)
\* A write that is issued has a number.
LEMMA IssuedPos ==
  ASSUME Types, Agreeing, NEW op \in Op, Issued(op), op.kind \in Writes
  PROVE  op.pos \in Nat /\ op.pos >= 1
<1>1. op.commiter \in Clerk
  BY DEF Op
<1>2. clerk[op.commiter].numOfOrders >= 1 /\ clerk[op.commiter].numOfOrders \in Nat
  BY <1>1 DEF Agreeing, Clerking, Types, ClerkTypes, ClerkState
<1> QED BY <1>2 DEF Issued

\* A write's clerk and number tell which it is.
LEMMA OneOp ==
  ASSUME Types, Agreeing, NEW op \in Op, Issued(op), op.kind \in Writes,
         NEW n \in DOMAIN agreed, Has(n, op.commiter, op.pos)
  PROVE  agreed[n].op = op
<1> DEFINE c == op.commiter
<1>1. c \in Clerk /\ op.pos \in Nat
  BY DEF Op
<1>2. CASE AgreedOn(op)
  <2>1. PICK m \in DOMAIN agreed : agreed[m].op = op
    BY <1>2 DEF AgreedOn
  <2>2. Has(m, c, op.pos)
    BY <2>1 DEF Has
  <2>3. LogInOrder
    BY DEF Agreeing
  <2> QED BY <1>1, <2>1, <2>2, <2>3 DEF LogInOrder
<1>3. CASE op.pos = clerk[c].numOfOrders /\ op = clerk[c].op
  <2> DEFINE a == agreed[n].op
  <2>1. a \in Op /\ a.kind \in Writes /\ a.commiter = c /\ a.pos = clerk[c].numOfOrders
    BY <1>3, OpTypes DEF Has
  <2>2. Issued(a)
    <3>1. IsCommand(a)
      BY DEF IsCommand
    <3> HIDE DEF a
    <3> QED BY <2>1, <3>1 DEF Agreeing, AllIssued
  <2>3. clerk[c].numOfOrders \in Nat
    BY <1>1 DEF Types, ClerkTypes, ClerkState
  <2>4. a = clerk[c].op
    BY <2>1, <2>2, <2>3 DEF Issued
  <2> QED BY <1>3, <2>4
<1> QED BY <1>2, <1>3 DEF Issued

\* What the table of duplicates of s has seen is in the log it has applied.
LEMMA SeenIsThere ==
  ASSUME Types, Agreeing, NEW s \in Server, NEW op \in Op, op.pos >= 1, Seen(s, op)
  PROVE  \E m \in 1 .. applied[s] : m \in DOMAIN agreed /\ Has(m, op.commiter, op.pos)
<1> DEFINE c == op.commiter
           p == CommittedStore[s][c]
<1>1. c \in Clerk /\ op.pos \in Nat /\ p \in Nat /\ p >= op.pos
  BY DEF Op, Seen, Types, ServerTypes
<1>2. /\ Stored(kvstore[s], CommittedStore[s], applied[s]) /\ applied[s] \in Nat
      /\ applied[s] <= Len(agreed) /\ Len(agreed) \in Nat /\ DOMAIN agreed = 1 .. Len(agreed)
  BY DEF Agreeing, Serving, Stored, Types, ServerTypes, LogTypes
<1>3. PICK m \in 1 .. applied[s] : Has(m, c, p)
  BY <1>1, <1>2 DEF Stored
<1>4. m \in DOMAIN agreed
  BY <1>2, <1>3
<1>5. CASE p = op.pos
  BY <1>3, <1>4, <1>5
<1>6. CASE p # op.pos
  <2>1. op.pos \in 1 .. p - 1
    BY <1>1, <1>6
  <2>2. LogInOrder
    BY DEF Agreeing
  <2> HIDE DEF p
  <2>3. PICK l \in 1 .. m - 1 : Has(l, c, op.pos)
    BY <1>1, <1>3, <1>4, <2>1, <2>2 DEF LogInOrder
  <2>4. l \in 1 .. applied[s] /\ l \in DOMAIN agreed
    BY <1>2, <1>3, <2>3
  <2> QED BY <2>3, <2>4
<1> QED BY <1>5, <1>6

\* What a call is for is issued.
LEMMA CallIssued ==
  ASSUME Types, Agreeing, NEW k \in DOMAIN calls
  PROVE  Issued(calls[k].op) /\ calls[k].op \in Op
<1>1. calls[k].op \in Op /\ IsCommand(calls[k].op)
  BY CallIs DEF IsCommand
<1> DEFINE op == calls[k].op
<1>2. op \in Op /\ IsCommand(op)
  BY <1>1
<1> HIDE DEF op
<1>3. Issued(op)
  BY <1>2 DEF Agreeing, AllIssued
<1> QED BY <1>1, <1>3 DEF op

\* What is in the log is issued.
LEMMA EntryIssued ==
  ASSUME Types, Agreeing, NEW n \in DOMAIN agreed
  PROVE  Issued(agreed[n].op) /\ agreed[n].op \in Op
<1>1. agreed[n].op \in Op /\ IsCommand(agreed[n].op)
  BY OpTypes DEF IsCommand
<1> DEFINE op == agreed[n].op
<1>2. op \in Op /\ IsCommand(op)
  BY <1>1
<1> HIDE DEF op
<1>3. Issued(op)
  BY <1>2 DEF Agreeing, AllIssued
<1> QED BY <1>1, <1>3 DEF op

\* Handler k after its step, from what the step makes of it.
LEMMA HandlerIs ==
  ASSUME NEW k \in DOMAIN calls, NEW st, NEW index, NEW ch, NEW reply,
         CallMoves(k, st, index, ch, reply), UNCHANGED <<agreed, applied>>,
         st \in Early => ch = <<>>,
         st = "reading" => calls[k].op.kind = "Get",
         st = "waiting" => \A i \in DOMAIN ch :
           ch[i] # Nil => /\ index \in 1 .. applied[calls[k].server]
                          /\ ch[i] = agreed[index].op,
         st \in {"leaving", "replied"} /\ calls[k].op.kind \in Writes /\ reply.err = "OK" =>
           AgreedOn(calls[k].op)
  PROVE  Handling(k)'
<1>1. AgreedOn(calls[k].op) => AgreedOn(calls[k].op)'
  BY DEF AgreedOn, CallMoves
<1> QED BY <1>1 DEF Handling, CallMoves

\* A step of a handler that starts no command and registers no channel.
LEMMA HandlerKeepsAlone ==
  ASSUME Types, Types', Agreeing, NEW k \in DOMAIN calls,
         UNCHANGED <<logVars, serverVars, clerk>>,
         \A s \in Server, n \in 1 .. MaxIndex : notifyChs'[s][n] \in {notifyChs[s][n], 0},
         NEW st, NEW ch, NEW reply, CallMoves(k, st, calls[k].index, ch, reply),
         calls[k].st \in Early \/ st \notin Early,
         Handling(k)'
  PROVE  Agreeing'
<1>1. Starts(calls[k].op) /\ UNCHANGED agreed
  BY DEF Starts, logVars
<1> QED BY <1>1, HandlerKeeps

\* The duplicate test: what is in the table has been agreed on.
LEMMA CheckDuplicateKeeps ==
  ASSUME Types, Agreeing, NEW k \in DOMAIN calls, CheckDuplicate(k)
  PROVE  Agreeing'
<1>1. /\ Types' /\ UNCHANGED <<logVars, serverVars, notifyChs, clerk, result, restarts>>
      /\ At(k, "sent", Writes)
      /\ \/ /\ Seen(calls[k].server, calls[k].op)
            /\ CallMoves(k, "replied", calls[k].index, calls[k].ch, OK(Nil))
         \/ CallMoves(k, "checked", calls[k].index, calls[k].ch, calls[k].reply)
  BY CheckDuplicateGives
<1>2. calls[k].st \in Early /\ calls[k].op.kind \in Writes /\ calls[k].ch = <<>>
  BY <1>1 DEF At, Early, Agreeing, Handling
<1>3. UNCHANGED <<agreed, applied>>
  BY <1>1 DEF logVars, serverVars
<1>4. CASE /\ Seen(calls[k].server, calls[k].op)
           /\ CallMoves(k, "replied", calls[k].index, calls[k].ch, OK(Nil))
  <2> DEFINE op == calls[k].op
             s == calls[k].server
  <2>1. op \in Op /\ Issued(op) /\ op.kind \in Writes /\ s \in Server /\ Seen(s, op)
    BY <1>2, <1>4, CallIssued, CallIs
  <2>2. AgreedOn(op)
    <3> HIDE DEF op, s
    <3>1. op.pos >= 1
      BY <2>1, IssuedPos
    <3>2. PICK m \in DOMAIN agreed : Has(m, op.commiter, op.pos)
      BY <2>1, <3>1, SeenIsThere
    <3>3. agreed[m].op = op
      BY <2>1, <3>2, OneOp
    <3> QED BY <3>3 DEF AgreedOn
  <2>3. Handling(k)'
    BY <1>3, <1>4, <2>2, HandlerIs DEF Early
  <2> QED BY <1>1, <1>2, <1>4, <2>3, HandlerKeepsAlone
<1>5. CASE CallMoves(k, "checked", calls[k].index, calls[k].ch, calls[k].reply)
  <2>1. Handling(k)'
    BY <1>2, <1>3, <1>5, HandlerIs
  <2> QED BY <1>1, <1>2, <1>5, <2>1, HandlerKeepsAlone
<1> QED BY <1>1, <1>4, <1>5

\* A refusal.
LEMMA NotLeaderKeeps ==
  ASSUME Types, Agreeing, NEW k \in DOMAIN calls, NotLeader(k)
  PROVE  Agreeing'
<1>1. /\ Types' /\ UNCHANGED <<logVars, serverVars, notifyChs, clerk, result, restarts>>
      /\ At(k, "checked", Writes) \/ At(k, "sent", {"Get"})
      /\ CallMoves(k, "replied", calls[k].index, calls[k].ch, ErrWrongLeader)
  BY NotLeaderGives
<1>2. UNCHANGED <<agreed, applied>> /\ calls[k].st \in Early
  BY <1>1 DEF logVars, serverVars, At, Early
<1>3. Handling(k)'
  BY <1>1, <1>2, Answers, HandlerIs DEF Early
<1> QED BY <1>1, <1>2, <1>3, HandlerKeepsAlone

\* A write is handed to Raft.
LEMMA StartWriteKeeps ==
  ASSUME Types, Agreeing, NEW k \in DOMAIN calls, StartWrite(k)
  PROVE  Agreeing'
<1>1. PICK n \in 1 .. MaxIndex :
        /\ Types' /\ UNCHANGED <<agreed, serverVars, notifyChs, clerk, result, restarts>>
        /\ At(k, "checked", Writes) /\ Starts(calls[k].op)
        /\ CallMoves(k, "started", n, calls[k].ch, calls[k].reply)
  BY StartWriteGives
<1>2. UNCHANGED <<agreed, applied>> /\ calls[k].st \in Early /\ calls[k].ch = <<>>
  BY <1>1 DEF serverVars, At, Early, Agreeing, Handling
<1>3. Handling(k)'
  BY <1>1, <1>2, HandlerIs
<1>4. \A s \in Server, m \in 1 .. MaxIndex : notifyChs'[s][m] \in {notifyChs[s][m], 0}
  BY <1>1
<1> QED BY <1>1, <1>2, <1>3, <1>4, HandlerKeeps

\* A channel is registered: the handler's, at its index.
LEMMA RegisterKeeps ==
  ASSUME Types, Agreeing, NEW k \in DOMAIN calls, Register(k)
  PROVE  Agreeing'
<1>1. /\ Types' /\ UNCHANGED <<logVars, serverVars, clerk, result, restarts>>
      /\ At(k, "started", Writes) /\ Registers(calls[k].server, calls[k].index, k)
      /\ CallMoves(k, "waiting", calls[k].index, calls[k].ch, calls[k].reply)
  BY RegisterGives
<1>2. UNCHANGED <<agreed, applied>> /\ calls[k].st \in Early /\ calls[k].ch = <<>>
  BY <1>1 DEF logVars, serverVars, At, Early, Agreeing, Handling
<1>3. Handling(k)'
  BY <1>1, <1>2, HandlerIs DEF Early
<1>4. \A s \in Server, m \in 1 .. MaxIndex :
        \/ notifyChs'[s][m] \in {notifyChs[s][m], 0}
        \/ notifyChs'[s][m] = k /\ s = calls[k].server /\ m = calls[k].index
  BY <1>1 DEF Registers
<1>5. Starts(calls[k].op)
  BY <1>1 DEF Starts, logVars
<1>6. "waiting" \notin Early
  BY DEF Early
<1> QED BY <1>1, <1>2, <1>3, <1>4, <1>5, <1>6, HandlerKeeps

\* A read is handed to Raft.
LEMMA StartReadKeeps ==
  ASSUME Types, Agreeing, NEW k \in DOMAIN calls, StartRead(k)
  PROVE  Agreeing'
<1>1. PICK n \in 1 .. MaxIndex :
        /\ Types' /\ UNCHANGED <<agreed, serverVars, clerk, result, restarts>>
        /\ At(k, "sent", {"Get"}) /\ Starts(calls[k].op) /\ Registers(calls[k].server, n, k)
        /\ CallMoves(k, "waiting", n, calls[k].ch, calls[k].reply)
  BY StartReadGives
<1>2. UNCHANGED <<agreed, applied>> /\ calls[k].st \in Early /\ calls[k].ch = <<>>
  BY <1>1 DEF serverVars, At, Early, Agreeing, Handling
<1>3. Handling(k)'
  BY <1>1, <1>2, HandlerIs DEF Early
<1>4. \A s \in Server, m \in 1 .. MaxIndex :
        \/ notifyChs'[s][m] \in {notifyChs[s][m], 0}
        \/ notifyChs'[s][m] = k /\ s = calls[k].server /\ m = n
  BY <1>1 DEF Registers
<1>6. "waiting" \notin Early
  BY DEF Early
<1> QED BY <1>1, <1>2, <1>3, <1>4, <1>6, HandlerKeeps

\* What a handler takes for its own command is it.
LEMMA MatchIsOwn ==
  ASSUME Types, Agreeing, NEW k \in DOMAIN calls, calls[k].st = "waiting",
         1 \in DOMAIN calls[k].ch, Matches(calls[k].ch[1], calls[k].op),
         calls[k].op.kind \in Writes
  PROVE  AgreedOn(calls[k].op)
<1> DEFINE op == calls[k].op
           a == calls[k].ch[1]
           n == calls[k].index
<1>1. /\ a # Nil /\ a.commiter = op.commiter /\ a.pos = op.pos
      /\ op \in Op /\ Issued(op) /\ op.kind \in Writes
  BY CallIssued DEF Matches, EmptyOp
<1>2. n \in 1 .. applied[calls[k].server] /\ a = agreed[n].op
  BY <1>1 DEF Agreeing, Handling
<1>3. n \in DOMAIN agreed
  <2>1. calls[k].server \in Server
    BY CallIs
  <2>2. applied[calls[k].server] <= Len(agreed) /\ applied[calls[k].server] \in Nat
        /\ Len(agreed) \in Nat /\ DOMAIN agreed = 1 .. Len(agreed)
    BY <2>1 DEF Agreeing, Serving, Stored, Types, ServerTypes, LogTypes
  <2> QED BY <1>2, <2>2
<1> HIDE DEF op, n, a
<1>4. op.pos >= 1
  BY <1>1, IssuedPos
<1>5. agreed[n].op.kind \in Writes
  <2>1. Issued(agreed[n].op) /\ agreed[n].op \in Op
    BY <1>3, EntryIssued
  <2>2. agreed[n].op.kind # "Get"
    BY <1>1, <1>2, <1>4, <2>1 DEF Issued
  <2> QED BY <2>1, <2>2 DEF Op, Kinds
<1>6. Has(n, op.commiter, op.pos)
  BY <1>1, <1>2, <1>5 DEF Has
<1>7. agreed[n].op = op
  BY <1>1, <1>3, <1>6, OneOp
<1>8. AgreedOn(op)
  BY <1>3, <1>7 DEF AgreedOn
<1> QED BY <1>8 DEF op

\* A handler is notified.
LEMMA NotifiedKeeps ==
  ASSUME Types, Agreeing, NEW k \in DOMAIN calls, Notified(k)
  PROVE  Agreeing'
<1> DEFINE matched == Matches(calls[k].ch[1], calls[k].op)
           st == IF matched /\ calls[k].op.kind = "Get" THEN "reading" ELSE "leaving"
           reply == IF matched THEN OK(Nil) ELSE ErrWrongLeader
<1>1. /\ Types' /\ UNCHANGED <<logVars, serverVars, notifyChs, clerk, result, restarts>>
      /\ calls[k].st = "waiting" /\ 1 \in DOMAIN calls[k].ch
      /\ CallMoves(k, st, calls[k].index, Tail(calls[k].ch), reply)
  BY NotifiedGives
<1>2. UNCHANGED <<agreed, applied>>
  BY <1>1 DEF logVars, serverVars
<1>3. st \in {"reading", "leaving"} /\ (st = "reading" => calls[k].op.kind = "Get")
  OBVIOUS
<1>4. reply.err = "OK" /\ calls[k].op.kind \in Writes => AgreedOn(calls[k].op)
  BY <1>1, Answers, MatchIsOwn
<1>5. \A s \in Server, m \in 1 .. MaxIndex : notifyChs'[s][m] \in {notifyChs[s][m], 0}
  BY <1>1
<1> HIDE DEF st, reply
<1>6. Handling(k)'
  BY <1>1, <1>2, <1>3, <1>4, HandlerIs DEF Early
<1>7. st \notin Early
  BY <1>3 DEF Early
<1> QED BY <1>1, <1>5, <1>6, <1>7, HandlerKeepsAlone

\* A handler times out.
LEMMA TimesOutKeeps ==
  ASSUME Types, Agreeing, NEW k \in DOMAIN calls, TimesOut(k)
  PROVE  Agreeing'
<1>1. /\ Types' /\ UNCHANGED <<logVars, serverVars, notifyChs, clerk, result, restarts>>
      /\ calls[k].st = "waiting"
      /\ CallMoves(k, "leaving", calls[k].index, calls[k].ch, ErrWrongLeader)
  BY TimesOutGives
<1>2. UNCHANGED <<agreed, applied>> /\ "leaving" \notin Early
  BY <1>1 DEF logVars, serverVars, Early
<1>3. Handling(k)'
  BY <1>1, <1>2, Answers, HandlerIs
<1>4. \A s \in Server, m \in 1 .. MaxIndex : notifyChs'[s][m] \in {notifyChs[s][m], 0}
  BY <1>1
<1> QED BY <1>1, <1>2, <1>3, <1>4, HandlerKeepsAlone

\* A read takes its value.
LEMMA ReadKeeps ==
  ASSUME Types, Agreeing, NEW k \in DOMAIN calls, Read(k)
  PROVE  Agreeing'
<1> DEFINE reply == OK(kvstore[calls[k].server][calls[k].op.key])
<1>1. /\ Types' /\ UNCHANGED <<logVars, serverVars, notifyChs, clerk, result, restarts>>
      /\ calls[k].st = "reading"
      /\ CallMoves(k, "leaving", calls[k].index, calls[k].ch, reply)
  BY ReadGives
<1>2. UNCHANGED <<agreed, applied>> /\ "leaving" \notin Early
  BY <1>1 DEF logVars, serverVars, Early
<1>3. calls[k].op.kind \notin Writes
  BY <1>1 DEF Agreeing, Handling, Writes
<1> HIDE DEF reply
<1>4. Handling(k)'
  BY <1>1, <1>2, <1>3, HandlerIs
<1>5. \A s \in Server, m \in 1 .. MaxIndex : notifyChs'[s][m] \in {notifyChs[s][m], 0}
  BY <1>1
<1> QED BY <1>1, <1>2, <1>4, <1>5, HandlerKeepsAlone

\* A handler replies.
LEMMA LeaveKeeps ==
  ASSUME Types, Agreeing, NEW k \in DOMAIN calls, Leave(k)
  PROVE  Agreeing'
<1>1. /\ Types' /\ UNCHANGED <<logVars, serverVars, clerk, result, restarts>>
      /\ calls[k].st = "leaving" /\ Registers(calls[k].server, calls[k].index, 0)
      /\ CallMoves(k, "replied", calls[k].index, calls[k].ch, calls[k].reply)
  BY LeaveGives
<1>2. UNCHANGED <<agreed, applied>> /\ "replied" \notin Early
  BY <1>1 DEF logVars, serverVars, Early
<1>3. calls[k].op.kind \in Writes /\ calls[k].reply.err = "OK" => AgreedOn(calls[k].op)
  BY <1>1 DEF Agreeing, Handling
<1>4. Handling(k)'
  BY <1>1, <1>2, <1>3, HandlerIs
<1>5. \A s \in Server, m \in 1 .. MaxIndex : notifyChs'[s][m] \in {notifyChs[s][m], 0}
  BY <1>1 DEF Registers
<1> QED BY <1>1, <1>2, <1>4, <1>5, HandlerKeepsAlone

(***************************************************************************)
(* The steps of the servers.                                               *)
(***************************************************************************)
\* The step of a server, if what it knows itself is right afterwards.
LEMMA ServerKeeps ==
  ASSUME Types, Agreeing, NEW s \in Server,
         UNCHANGED <<agreed, view, proposed, clerk>>, DOMAIN calls' = DOMAIN calls,
         \A k \in DOMAIN calls : calls'[k].op = calls[k].op /\ Handling(k)',
         OnlyServer(s), Looping(s)', Serving(s)', \A t \in Server : Channels(t)',
         \A snap \in snapshots' :
           snap \in snapshots \/ Stored(snap.kvstore, snap.committed, snap.index)'
  PROVE  Agreeing'
<1>1. Grows /\ CallsKept
  BY SameLogGrows DEF CallsKept
<1>2. \A c \in Clerk : ClerkMoves(c)
  BY DEF ClerkMoves
<1>3. \A op \in Op : Issued(op) => Issued(op)'
  BY <1>1, <1>2, AllIssuedKept
<1>4. \A c \in Clerk : Clerking(c)'
  BY <1>1, <1>3, ClerkingKept
<1>5. AllIssued'
  <2>1. \A op \in Op : IsCommand(op)' => IsCommand(op)
    BY DEF IsCommand
  <2> QED BY <1>1, <1>2, <2>1, AllIssuedStep
<1>6. LogInOrder'
  BY LogInOrderKept
<1>7. \A t \in Server : Looping(t)' /\ Serving(t)'
  <2> SUFFICES ASSUME NEW t \in Server, t # s PROVE Looping(t)' /\ Serving(t)'
    OBVIOUS
  <2> QED BY <1>1, LoopingKept, ServingKept DEF OnlyServer
<1>8. \A snap \in snapshots' : Stored(snap.kvstore, snap.committed, snap.index)'
  BY <1>1, SnapshotKept
<1> QED BY <1>4, <1>5, <1>6, <1>7, <1>8 DEF Agreeing

\* The table of duplicates knows an entry exactly if it is not the first of its kind.
LEMMA SeenIsRepeated ==
  ASSUME Types, Agreeing, NEW s \in Server, applied[s] + 1 \in DOMAIN agreed,
         agreed[applied[s] + 1].op.kind \in Writes
  PROVE  Seen(s, agreed[applied[s] + 1].op) <=> ~FirstOccurrence(agreed, applied[s] + 1)
<1> DEFINE n == applied[s] + 1
           op == agreed[n].op
<1>1. /\ Stored(kvstore[s], CommittedStore[s], applied[s]) /\ applied[s] \in Nat
      /\ Len(agreed) \in Nat /\ DOMAIN agreed = 1 .. Len(agreed) /\ n - 1 = applied[s]
  <2>1. Stored(kvstore[s], CommittedStore[s], applied[s])
    BY DEF Agreeing, Serving
  <2>2. applied[s] \in Nat /\ n - 1 = applied[s]
    BY DEF Types, ServerTypes
  <2>3. Len(agreed) \in Nat /\ DOMAIN agreed = 1 .. Len(agreed)
    BY DEF Types, LogTypes
  <2> QED BY <2>1, <2>2, <2>3 DEF Stored
<1>2. op \in Op /\ Issued(op) /\ op.kind \in Writes /\ op.commiter \in Clerk /\ op.pos \in Nat
  BY EntryIssued DEF Op
<1>3. ASSUME Seen(s, op) PROVE ~FirstOccurrence(agreed, n)
  <2>1. \E m \in 1 .. applied[s] : m \in DOMAIN agreed /\ agreed[m].op = op
    <3> HIDE DEF op
    <3>1. op.pos >= 1
      BY <1>2, IssuedPos
    <3>2. PICK m \in 1 .. applied[s] : m \in DOMAIN agreed /\ Has(m, op.commiter, op.pos)
      BY <1>2, <1>3, <3>1, SeenIsThere
    <3>3. agreed[m].op = op
      BY <1>2, <3>2, OneOp
    <3> QED BY <3>2, <3>3
  <2> QED BY <1>1, <2>1 DEF FirstOccurrence
<1>4. ASSUME ~FirstOccurrence(agreed, n) PROVE Seen(s, op)
  <2>1. PICK m \in 1 .. applied[s] : agreed[m].op = op
    BY <1>1, <1>4 DEF FirstOccurrence
  <2>2. Has(m, op.commiter, op.pos)
    BY <1>2, <2>1 DEF Has
  <2> HIDE DEF op
  <2> QED BY <1>1, <1>2, <2>1, <2>2 DEF Stored, Seen
<1> QED BY <1>3, <1>4

\* A command has on the map the effect its entry has in the log.
LEMMA ExecuteIsEffect ==
  ASSUME Types, Agreeing, NEW s \in Server, applied[s] + 1 \in DOMAIN agreed
  PROVE  Execute(s, agreed[applied[s] + 1].op) = Stores[applied[s] + 1]
<1> DEFINE n == applied[s] + 1
           op == agreed[n].op
<1>1. /\ kvstore[s] = Stores[applied[s]] /\ applied[s] \in Nat
      /\ Len(agreed) \in Nat /\ DOMAIN agreed = 1 .. Len(agreed) /\ n - 1 = applied[s]
  <2>1. Stored(kvstore[s], CommittedStore[s], applied[s])
    BY DEF Agreeing, Serving
  <2>2. applied[s] \in Nat /\ n - 1 = applied[s]
    BY DEF Types, ServerTypes
  <2>3. Len(agreed) \in Nat /\ DOMAIN agreed = 1 .. Len(agreed)
    BY DEF Types, LogTypes
  <2> QED BY <2>1, <2>2, <2>3 DEF Stored
<1>2. Stores[n] = Effect(kvstore[s], agreed, n)
  <2>1. n \in 1 .. Len(agreed)
    BY <1>1
  <2> HIDE DEF n
  <2>2. Stores[n] = Effect(Stores[n - 1], agreed, n)
    BY <1>1, <2>1, StoresGive DEF Stores
  <2> QED BY <1>1, <2>2 DEF n
<1>3. op.kind \in {"Put", "Append", "Get"}
  BY EntryIssued DEF Op, Kinds, Writes
<1>4. op.kind # "Get" => (Seen(s, op) <=> ~FirstOccurrence(agreed, n))
  BY <1>3, SeenIsRepeated DEF Writes
<1>5. Execute(s, op) = Effect(kvstore[s], agreed, n)
  <2> HIDE DEF n
  <2> DEFINE w == <<op.commiter, op.pos>>
  <2>1. Effect(kvstore[s], agreed, n) =
          IF op.kind = "Get" \/ ~FirstOccurrence(agreed, n) THEN kvstore[s]
          ELSE [kvstore[s] EXCEPT ![op.key] = IF op.kind = "Put" THEN <<w>> ELSE Append(@, w)]
    BY DEF Effect
  <2> HIDE DEF op
  <2>2. CASE op.kind = "Get"
    BY <2>1, <2>2 DEF Execute
  <2>3. CASE op.kind = "Put"
    BY <1>4, <2>1, <2>3 DEF Execute
  <2>4. CASE op.kind = "Append"
    BY <1>4, <2>1, <2>4 DEF Execute
  <2> QED BY <1>3, <2>2, <2>3, <2>4
<1> QED BY <1>2, <1>5

\* A command is applied.
LEMMA ApplyCommandKeeps ==
  ASSUME Types, Agreeing, NEW s \in Server, ApplyCommand(s)
  PROVE  Agreeing'
<1> DEFINE n == applied[s] + 1
           op == agreed[n].op
<1>1. /\ Types'
      /\ UNCHANGED <<logVars, disk, snapshots, notifyChs, clerk, calls, result, restarts>>
      /\ OnlyServer(s) /\ n \in DOMAIN agreed /\ op \in Op
      /\ applied'[s] = n /\ kvstore'[s] = Execute(s, op)
      /\ \A c \in Clerk : CommittedStore'[s][c] =
           IF c = op.commiter /\ op.kind \in Writes /\ ~Seen(s, op) THEN op.pos
                                                                   ELSE CommittedStore[s][c]
      /\ loop'[s].st # "idle" => loop'[s].op = op
      /\ loop'[s].st = "sending" => loop'[s].todo \subseteq {n}
  BY ApplyCommandGives
<1>2. UNCHANGED <<agreed, view, proposed>>
  BY <1>1 DEF logVars
<1>3. /\ Stored(kvstore[s], CommittedStore[s], applied[s]) /\ applied[s] \in Nat
      /\ Len(agreed) \in Nat /\ DOMAIN agreed = 1 .. Len(agreed)
      /\ n \in Nat /\ n >= 1 /\ n <= Len(agreed) /\ 1 .. n = 1 .. applied[s] \cup {n}
  <2>1. Stored(kvstore[s], CommittedStore[s], applied[s])
    BY DEF Agreeing, Serving
  <2>2. applied[s] \in Nat /\ n \in Nat /\ n >= 1 /\ 1 .. n = 1 .. applied[s] \cup {n}
    BY DEF Types, ServerTypes
  <2>3. Len(agreed) \in Nat /\ DOMAIN agreed = 1 .. Len(agreed)
    BY DEF Types, LogTypes
  <2> QED BY <1>1, <2>1, <2>2, <2>3
<1>4. kvstore'[s] = Stores[n]
  BY <1>1, ExecuteIsEffect
<1>5. op.kind \in Writes => op.pos \in Nat /\ op.commiter \in Clerk
  BY <1>1 DEF Op, Kinds
<1> HIDE DEF n
<1>6. \A c \in Clerk :
        /\ CommittedStore'[s][c] = 0 \/ \E m \in 1 .. n : Has(m, c, CommittedStore'[s][c])
        /\ \A m \in 1 .. n, p \in Nat : Has(m, c, p) => p <= CommittedStore'[s][c]
  <2> SUFFICES ASSUME NEW c \in Clerk
      PROVE  /\ CommittedStore'[s][c] = 0
                \/ \E m \in 1 .. n : Has(m, c, CommittedStore'[s][c])
             /\ \A m \in 1 .. n, p \in Nat : Has(m, c, p) => p <= CommittedStore'[s][c]
    OBVIOUS
  <2>1. /\ CommittedStore[s][c] = 0 \/ \E m \in 1 .. applied[s] : Has(m, c, CommittedStore[s][c])
        /\ \A m \in 1 .. applied[s], p \in Nat : Has(m, c, p) => p <= CommittedStore[s][c]
        /\ CommittedStore[s][c] \in Nat
    BY <1>3 DEF Stored, Types, ServerTypes
  <2>2. CASE c = op.commiter /\ op.kind \in Writes /\ ~Seen(s, op)
    <3>1. CommittedStore'[s][c] = op.pos /\ op.pos > CommittedStore[s][c]
      BY <1>1, <1>5, <2>1, <2>2 DEF Seen, Writes
    <3>2. Has(n, c, op.pos) /\ \A p \in Nat : Has(n, c, p) => p = op.pos
      BY <2>2 DEF Has
    <3> HIDE DEF op
    <3>3. op.pos \in Nat
      BY <1>5, <2>2 DEF Writes
    <3> QED BY <1>3, <2>1, <3>1, <3>2, <3>3
  <2>3. CASE ~(c = op.commiter /\ op.kind \in Writes /\ ~Seen(s, op))
    <3>1. CommittedStore'[s][c] = CommittedStore[s][c]
      BY <1>1, <2>3
    <3>2. \A p \in Nat : Has(n, c, p) => p <= CommittedStore[s][c]
      BY <2>3 DEF Has, Seen
    <3> QED BY <1>3, <2>1, <3>1, <3>2
  <2> QED BY <2>2, <2>3
<1>7. Stored(kvstore[s], CommittedStore[s], applied[s])'
  <2>1. \A m \in 1 .. n : \A c, p : Has(m, c, p)' <=> Has(m, c, p)
    BY <1>2 DEF Has
  <2>2. Stores' = Stores
    BY <1>2 DEF Stores, StoresOf, Effect, FirstOccurrence
  <2> QED BY <1>1, <1>2, <1>3, <1>4, <1>6, <2>1, <2>2 DEF Stored
<1>8. Serving(s)'
  <2>1. Stored(disk[s].kvstore, disk[s].committed, disk[s].index)
    BY DEF Agreeing, Serving
  <2>2. Stored(disk[s].kvstore, disk[s].committed, disk[s].index)'
    <3> DEFINE store == disk[s].kvstore
               committed == disk[s].committed
               m == disk[s].index
    <3>1. Stored(store, committed, m) /\ m \in Nat /\ UNCHANGED <<store, committed, m>> /\ Grows
      BY <1>1, <1>2, <2>1, SameLogGrows DEF Types, ServerTypes, Snapshot
    <3> HIDE DEF store, committed, m
    <3>2. PICK st, co, i : st = store /\ co = committed /\ i = m
      OBVIOUS
    <3>3. Stored(st, co, i)'
      BY <3>1, <3>2, StoredKept
    <3> QED BY <3>1, <3>2, <3>3 DEF store, committed, m, Stored
  <2> QED BY <1>7, <2>2 DEF Serving
<1>9. Looping(s)'
  BY <1>1, <1>2, <1>3 DEF Looping
<1>10. \A t \in Server : Channels(t)'
  BY <1>1 DEF Agreeing, Channels
<1>11. \A k \in DOMAIN calls : Handling(k)'
  <2> SUFFICES ASSUME NEW k \in DOMAIN calls PROVE Handling(k)'
    OBVIOUS
  <2>1. calls[k].server \in Server /\ calls'[k] = calls[k] /\ Grows
    BY <1>1, <1>2, CallIs, SameLogGrows
  <2>2. /\ applied'[calls[k].server] \in Nat
        /\ applied[calls[k].server] <= applied'[calls[k].server]
    <3>1. CASE calls[k].server = s
      BY <1>1, <1>3, <3>1 DEF n
    <3>2. CASE calls[k].server # s
      <4>1. applied'[calls[k].server] = applied[calls[k].server]
        BY <1>1, <2>1, <3>2 DEF OnlyServer
      <4>2. applied[calls[k].server] \in Nat
        BY <2>1 DEF Types, ServerTypes
      <4> QED BY <4>1, <4>2
    <3> QED BY <3>1, <3>2
  <2> QED BY <2>1, <2>2, HandlingKept
<1> QED BY <1>1, <1>2, <1>8, <1>9, <1>10, <1>11, ServerKeeps

\* What a server has stored, if it was stored.
LEMMA StoredAs ==
  ASSUME Types, Grows, NEW store, NEW committed, NEW n \in Nat,
         Stored(store, committed, n),
         NEW s \in Server, kvstore'[s] = store, CommittedStore'[s] = committed, applied'[s] = n
  PROVE  Stored(kvstore[s], CommittedStore[s], applied[s])'
<1>1. Stored(store, committed, n)'
  BY StoredKept
<1> QED BY <1>1 DEF Stored

\* The same for what it has on disk.
LEMMA DiskAs ==
  ASSUME Types, Grows, NEW store, NEW committed, NEW n \in Nat,
         Stored(store, committed, n),
         NEW s \in Server, disk'[s].kvstore = store, disk'[s].committed = committed,
         disk'[s].index = n
  PROVE  Stored(disk[s].kvstore, disk[s].committed, disk[s].index)'
<1>1. Stored(store, committed, n)'
  BY StoredKept
<1> QED BY <1>1 DEF Stored

\* A snapshot is taken.
LEMMA SaveSnapshotKeeps ==
  ASSUME Types, Agreeing, NEW s \in Server, SaveSnapshot(s)
  PROVE  Agreeing'
<1>1. /\ Types'
      /\ UNCHANGED <<logVars, kvstore, CommittedStore, applied, notifyChs, clerk, calls,
                     result, restarts>>
      /\ OnlyServer(s) /\ loop[s].st = "saving"
      /\ disk'[s] = Taken(s) /\ snapshots' = snapshots \cup {Taken(s)}
      /\ Taken(s).index = applied[s] /\ Taken(s).kvstore = kvstore[s]
      /\ Taken(s).committed = CommittedStore[s]
      /\ loop'[s].st \in {"idle", "sending"}
      /\ loop'[s].st = "sending" =>
           loop'[s].op = loop[s].op /\ loop'[s].todo \subseteq {applied[s]}
  BY SaveSnapshotGives
<1>2. UNCHANGED <<agreed, view, proposed, clerk>> /\ Grows
  BY <1>1, SameLogGrows DEF logVars
<1> DEFINE store == kvstore[s]
           committed == CommittedStore[s]
           n == applied[s]
<1>3. Stored(store, committed, n) /\ n \in Nat
  BY DEF Agreeing, Serving, Types, ServerTypes
<1>4. /\ disk'[s].kvstore = store /\ disk'[s].committed = committed /\ disk'[s].index = n
      /\ kvstore'[s] = store /\ CommittedStore'[s] = committed /\ applied'[s] = n
      /\ Taken(s).index = n /\ Taken(s).kvstore = store /\ Taken(s).committed = committed
  BY <1>1
<1> HIDE DEF store, committed, n
<1>5. Serving(s)'
  <2>1. Stored(kvstore[s], CommittedStore[s], applied[s])'
    BY <1>2, <1>3, <1>4, StoredAs
  <2>2. Stored(disk[s].kvstore, disk[s].committed, disk[s].index)'
    BY <1>2, <1>3, <1>4, DiskAs
  <2> QED BY <2>1, <2>2 DEF Serving
<1>6. \A snap \in snapshots' :
        snap \in snapshots \/ Stored(snap.kvstore, snap.committed, snap.index)'
  <2> SUFFICES ASSUME NEW snap \in snapshots', snap \notin snapshots
      PROVE  Stored(snap.kvstore, snap.committed, snap.index)'
    OBVIOUS
  <2>1. snap = Taken(s)
    BY <1>1
  <2>2. Stored(snap.kvstore, snap.committed, snap.index) /\ snap.index \in Nat
    BY <1>3, <1>4, <2>1
  <2> QED BY <1>2, <2>2, StoredKept
<1>7. Looping(s)'
  <2>1. Looping(s)
    BY DEF Agreeing
  <2> QED BY <1>1, <1>2, <2>1 DEF Looping
<1>8. \A t \in Server : Channels(t)'
  BY <1>1 DEF Agreeing, Channels
<1>9. \A k \in DOMAIN calls : Handling(k)'
  <2> SUFFICES ASSUME NEW k \in DOMAIN calls PROVE Handling(k)'
    OBVIOUS
  <2>1. calls[k].server \in Server /\ calls'[k] = calls[k] /\ applied' = applied
    BY <1>1, CallIs
  <2>2. applied[calls[k].server] \in Nat
    BY <2>1 DEF Types, ServerTypes
  <2> QED BY <1>2, <2>1, <2>2, HandlingKept
<1> QED BY <1>1, <1>2, <1>5, <1>6, <1>7, <1>8, <1>9, ServerKeeps

\* A snapshot is received.
LEMMA ReceiveSnapshotKeeps ==
  ASSUME Types, Agreeing, NEW s \in Server, ReceiveSnapshot(s), ~LateSnapshots
  PROVE  Agreeing'
<1>1. /\ Types'
      /\ UNCHANGED <<logVars, snapshots, notifyChs, clerk, calls, result, restarts>>
      /\ OnlyServer(s) /\ loop[s].st = "idle"
      /\ \E snap \in snapshots :
           /\ disk'[s] = snap /\ applied[s] < snap.index /\ applied'[s] = snap.index
           /\ kvstore'[s] = snap.kvstore /\ CommittedStore'[s] = snap.committed
      /\ loop'[s].st \in {"idle", "sending"}
      /\ loop'[s].st = "sending" => loop'[s].op = Nil
  BY ReceiveSnapshotGives
<1>2. UNCHANGED <<agreed, view, proposed, clerk>> /\ Grows
  BY <1>1, SameLogGrows DEF logVars
<1>3. PICK snap \in snapshots :
        /\ disk'[s] = snap /\ applied[s] < snap.index /\ applied'[s] = snap.index
        /\ kvstore'[s] = snap.kvstore /\ CommittedStore'[s] = snap.committed
  BY <1>1
<1>4. Stored(snap.kvstore, snap.committed, snap.index) /\ snap.index \in Nat
  BY DEF Agreeing, Types, ServerTypes, Snapshot
<1>5. Serving(s)'
  <2>1. Stored(kvstore[s], CommittedStore[s], applied[s])'
    BY <1>2, <1>3, <1>4, StoredAs
  <2>2. Stored(disk[s].kvstore, disk[s].committed, disk[s].index)'
    BY <1>2, <1>3, <1>4, DiskAs
  <2> QED BY <2>1, <2>2 DEF Serving
<1>6. Looping(s)'
  BY <1>1 DEF Looping
<1>7. \A t \in Server : Channels(t)'
  BY <1>1 DEF Agreeing, Channels
<1>8. \A k \in DOMAIN calls : Handling(k)'
  <2> SUFFICES ASSUME NEW k \in DOMAIN calls PROVE Handling(k)'
    OBVIOUS
  <2>1. calls[k].server \in Server /\ calls'[k] = calls[k]
    BY <1>1, CallIs
  <2>2. applied[calls[k].server] \in Nat
    BY <2>1 DEF Types, ServerTypes
  <2>3. /\ applied'[calls[k].server] \in Nat
        /\ applied[calls[k].server] <= applied'[calls[k].server]
    <3>1. CASE calls[k].server = s
      BY <1>3, <1>4, <2>2, <3>1
    <3>2. CASE calls[k].server # s
      BY <1>1, <2>1, <2>2, <3>2 DEF OnlyServer
    <3> QED BY <3>1, <3>2
  <2> QED BY <1>2, <2>1, <2>3, HandlingKept
<1> QED BY <1>1, <1>2, <1>5, <1>6, <1>7, <1>8, ServerKeeps

\* The loop sends what it applied to the handler that waits for it.
LEMMA NotifyKeeps ==
  ASSUME Types, Agreeing, NEW s \in Server, Notify(s)
  PROVE  Agreeing'
<1>1. /\ Types'
      /\ UNCHANGED <<logVars, kvstore, CommittedStore, applied, disk, snapshots, clerk,
                     result, restarts>>
      /\ OnlyServer(s) /\ loop[s].st = "sending"
      /\ \E n \in loop[s].todo :
           /\ n \in 1 .. MaxIndex
           /\ Registers(s, n, notifyChs[s][n]) \/ Registers(s, n, 0)
           /\ LET k == notifyChs[s][n] IN
                \/ k \notin DOMAIN calls /\ calls' = calls
                \/ /\ k \in DOMAIN calls
                   /\ CallMoves(k, calls[k].st, calls[k].index, <<loop[s].op>>, calls[k].reply)
      /\ loop'[s].st \in {"idle", "sending"}
      /\ loop'[s].st = "sending" =>
           loop'[s].op = loop[s].op /\ loop'[s].todo \subseteq loop[s].todo
  BY NotifyGives
<1>2. UNCHANGED <<agreed, view, proposed, clerk>> /\ Grows
  BY <1>1, SameLogGrows DEF logVars
<1>3. PICK n \in loop[s].todo :
        /\ n \in 1 .. MaxIndex
        /\ Registers(s, n, notifyChs[s][n]) \/ Registers(s, n, 0)
        /\ LET k == notifyChs[s][n] IN
             \/ k \notin DOMAIN calls /\ calls' = calls
             \/ /\ k \in DOMAIN calls
                /\ CallMoves(k, calls[k].st, calls[k].index, <<loop[s].op>>, calls[k].reply)
  BY <1>1
<1>4. /\ Looping(s) /\ applied[s] \in Nat
  BY DEF Agreeing, Types, ServerTypes
<1>5. Looping(s)'
  BY <1>1, <1>2, <1>4 DEF Looping
<1>6. Serving(s)'
  BY <1>1, <1>2, ServingKept
<1>7. /\ DOMAIN calls' = DOMAIN calls
      /\ \A k \in DOMAIN calls :
           /\ calls'[k].op = calls[k].op /\ calls'[k].server = calls[k].server
           /\ calls'[k].index = calls[k].index /\ calls'[k].st = calls[k].st
  BY <1>3 DEF CallMoves
<1>8. \A t \in Server : \A m \in 1 .. MaxIndex : notifyChs'[t][m] \in {notifyChs[t][m], 0}
  BY <1>3 DEF Registers
<1>9. \A t \in Server : Channels(t)'
  <2> SUFFICES ASSUME NEW t \in Server, NEW m \in 1 .. MaxIndex, notifyChs'[t][m] # 0
      PROVE  LET j == notifyChs'[t][m] IN
               /\ j \in DOMAIN calls' /\ calls'[j].st \notin Early
               /\ calls'[j].server = t /\ calls'[j].index = m
    BY DEF Channels
  <2>1. notifyChs'[t][m] = notifyChs[t][m]
    BY <1>8
  <2> DEFINE j == notifyChs[t][m]
  <2>2. /\ j \in DOMAIN calls /\ calls[j].st \notin Early
        /\ calls[j].server = t /\ calls[j].index = m
    BY <2>1 DEF Agreeing, Channels
  <2> HIDE DEF j
  <2>3. /\ j \in DOMAIN calls' /\ calls'[j].st \notin Early
        /\ calls'[j].server = t /\ calls'[j].index = m
    BY <1>7, <2>2
  <2> QED BY <2>1, <2>3 DEF j
<1>10. ASSUME NEW k \in DOMAIN calls PROVE Handling(k)'
  <2>1. calls[k].server \in Server /\ applied' = applied
    BY <1>1, CallIs
  <2>2. CASE calls'[k] = calls[k]
    <3>1. applied[calls[k].server] \in Nat
      BY <2>1 DEF Types, ServerTypes
    <3> QED BY <1>2, <2>1, <2>2, <3>1, HandlingKept
  <2>3. CASE /\ k = notifyChs[s][n]
             /\ CallMoves(k, calls[k].st, calls[k].index, <<loop[s].op>>, calls[k].reply)
    <3>1. Handling(k) /\ calls[k].st \notin Early /\ calls[k].server = s /\ calls[k].index = n
      <4>1. k # 0
        BY DEF Types, ClerkTypes
      <4> QED BY <1>3, <2>3, <4>1 DEF Agreeing, Channels
    <3>2. loop[s].op # Nil => n = applied[s] /\ n >= 1 /\ loop[s].op = agreed[n].op
      BY <1>1, <1>4 DEF Looping
    <3> DEFINE ch == <<loop[s].op>>
    <3>3. \A i \in DOMAIN ch : ch[i] = loop[s].op
      OBVIOUS
    <3>4. \A i \in DOMAIN ch : ch[i] # Nil =>
            calls[k].index \in 1 .. applied[calls[k].server] /\ ch[i] = agreed[calls[k].index].op
      BY <1>4, <3>1, <3>2, <3>3
    <3>5. CallMoves(k, calls[k].st, calls[k].index, ch, calls[k].reply)
      BY <2>3
    <3> HIDE DEF ch
    <3>6. UNCHANGED <<agreed, applied>>
      BY <1>2, <2>1
    <3> QED BY <3>1, <3>4, <3>5, <3>6, HandlerIs DEF Handling
  <2>4. calls'[k] = calls[k] \/ (k = notifyChs[s][n] /\
          CallMoves(k, calls[k].st, calls[k].index, <<loop[s].op>>, calls[k].reply))
    BY <1>3 DEF CallMoves
  <2> QED BY <2>2, <2>3, <2>4
<1> QED BY <1>1, <1>2, <1>5, <1>6, <1>7, <1>9, <1>10, ServerKeeps

\* A server starts again.
LEMMA RestartKeeps ==
  ASSUME Types, Agreeing, NEW s \in Server, Restart(s)
  PROVE  Agreeing'
<1>1. /\ Types' /\ UNCHANGED <<agreed, view, term, proposed, disk, snapshots, clerk, result>>
      /\ OnlyServer(s) /\ loop'[s] = Idle /\ applied'[s] = disk[s].index
      /\ kvstore'[s] = disk[s].kvstore /\ CommittedStore'[s] = disk[s].committed
      /\ \A n \in 1 .. MaxIndex : notifyChs'[s][n] = 0
      /\ \A t \in Server : t # s => notifyChs'[t] = notifyChs[t]
      /\ DOMAIN calls' = DOMAIN calls /\ \A k \in DOMAIN calls : DiesOrStays(s, k)
  BY RestartGives
<1>2. UNCHANGED <<agreed, view, proposed, clerk>> /\ Grows
  BY <1>1, SameLogGrows
<1> DEFINE store == disk[s].kvstore
           committed == disk[s].committed
           n == disk[s].index
<1>3. Stored(store, committed, n) /\ n \in Nat
  BY DEF Agreeing, Serving, Types, ServerTypes, Snapshot
<1>4. /\ disk'[s].kvstore = store /\ disk'[s].committed = committed /\ disk'[s].index = n
      /\ kvstore'[s] = store /\ CommittedStore'[s] = committed /\ applied'[s] = n
  BY <1>1
<1> HIDE DEF store, committed, n
<1>5. Serving(s)'
  <2>1. Stored(kvstore[s], CommittedStore[s], applied[s])'
    BY <1>2, <1>3, <1>4, StoredAs
  <2>2. Stored(disk[s].kvstore, disk[s].committed, disk[s].index)'
    BY <1>2, <1>3, <1>4, DiskAs
  <2> QED BY <2>1, <2>2 DEF Serving
<1>6. Looping(s)'
  BY <1>1, LoopStates DEF Looping
<1>7. \A t \in Server : Channels(t)'
  <2> SUFFICES ASSUME NEW t \in Server PROVE Channels(t)'
    OBVIOUS
  <2>1. CASE t = s
    BY <1>1, <2>1 DEF Channels
  <2>2. CASE t # s
    BY <1>1, <2>2, ChannelsKept DEF DiesOrStays
  <2> QED BY <2>1, <2>2
<1>8. ASSUME NEW k \in DOMAIN calls PROVE calls'[k].op = calls[k].op /\ Handling(k)'
  <2>1. DiesOrStays(s, k) /\ calls[k].server \in Server /\ Handling(k)
    BY <1>1, CallIs DEF Agreeing
  <2>2. CASE calls'[k].st = "dead"
    BY <2>1, <2>2 DEF DiesOrStays, Handling, Early
  <2>3. CASE calls'[k] = calls[k] /\ calls[k].server # s
    <3>1. /\ applied'[calls[k].server] = applied[calls[k].server]
          /\ applied[calls[k].server] \in Nat
      BY <1>1, <2>1, <2>3 DEF OnlyServer, Types, ServerTypes
    <3> QED BY <1>2, <2>3, <3>1, HandlingKept
  <2>4. CASE calls'[k] = calls[k] /\ calls[k].st \in {"sent", "replied"}
    <3>1. AgreedOn(calls[k].op) => AgreedOn(calls[k].op)'
      BY <1>1, <2>4 DEF AgreedOn
    <3> QED BY <2>1, <2>4, <3>1 DEF Handling
  <2> QED BY <2>1, <2>2, <2>3, <2>4 DEF DiesOrStays
<1> QED BY <1>1, <1>2, <1>5, <1>6, <1>7, <1>8, ServerKeeps

(***************************************************************************)
(* The steps of the clerks and of the log.                                 *)
(***************************************************************************)
\* The step of a clerk, if what is known of it is right afterwards.
LEMMA ClerkKeeps ==
  ASSUME Types, Agreeing, NEW c \in Clerk, UNCHANGED <<logVars, serverVars, notifyChs>>,
         \A d \in Clerk : d # c => clerk'[d] = clerk[d], ClerkMoves(c),
         DOMAIN calls \subseteq DOMAIN calls', \A k \in DOMAIN calls : calls'[k] = calls[k],
         \A k \in DOMAIN calls' :
           k \in DOMAIN calls \/ (Handling(k)' /\ \A op \in Op : op = calls'[k].op => Issued(op)'),
         Clerking(c)'
  PROVE  Agreeing'
<1>1. UNCHANGED <<agreed, view, proposed>> /\ Grows /\ CallsKept
  BY SameLogGrows DEF logVars, CallsKept
<1>2. \A d \in Clerk : ClerkMoves(d)
  BY DEF ClerkMoves
<1>3. \A op \in Op : Issued(op) => Issued(op)'
  BY <1>1, <1>2, AllIssuedKept
<1>4. \A d \in Clerk : Clerking(d)'
  BY <1>1, <1>3, ClerkingKept
<1>5. AllIssued'
  <2>1. \A op \in Op : IsCommand(op)' => IsCommand(op) \/ Issued(op)'
    BY <1>1 DEF IsCommand
  <2> QED BY <1>1, <1>2, <2>1, AllIssuedStep
<1>6. LogInOrder'
  BY <1>1, LogInOrderKept
<1>7. \A s \in Server : Looping(s)' /\ Serving(s)'
  BY <1>1, LoopingKept, ServingKept DEF serverVars
<1>8. \A s \in Server : Channels(s)'
  BY <1>1, ChannelsKept
<1>9. \A snap \in snapshots' : Stored(snap.kvstore, snap.committed, snap.index)'
  BY <1>1, SnapshotKept DEF serverVars
<1>10. \A k \in DOMAIN calls' : Handling(k)'
  <2> SUFFICES ASSUME NEW k \in DOMAIN calls PROVE Handling(k)'
    OBVIOUS
  <2>1. calls[k].server \in Server /\ applied' = applied
    BY CallIs DEF serverVars
  <2>2. applied[calls[k].server] \in Nat
    BY <2>1 DEF Types, ServerTypes
  <2> QED BY <1>1, <2>1, <2>2, HandlingKept
<1> QED BY <1>4, <1>5, <1>6, <1>7, <1>8, <1>9, <1>10 DEF Agreeing

\* The writes before the current one of a clerk stay in the log.
LEMMA DoneKept ==
  ASSUME Grows, NEW c, NEW q,
         \E n \in DOMAIN agreed : Has(n, c, q)
  PROVE  \E n \in DOMAIN agreed' : Has(n, c, q)'
BY HasKept DEF Grows

\* A clerk is called: its command is issued.
LEMMA InvokeKeeps ==
  ASSUME Types, Agreeing, NEW c \in Clerk, Invoke(c)
  PROVE  Agreeing'
<1> DEFINE kind == Head(clerk[c].todo)[1]
           num == clerk[c].numOfOrders
<1>1. /\ Types' /\ UNCHANGED <<logVars, serverVars, notifyChs, calls, result, restarts>>
      /\ \A d \in Clerk : d # c => clerk'[d] = clerk[d]
      /\ clerk[c].st = "idle" /\ clerk'[c].st = "trying"
      /\ clerk'[c].op = [kind |-> kind, key |-> Head(clerk[c].todo)[2],
                         commiter |-> c, pos |-> IF kind = "Get" THEN 0 ELSE num]
      /\ clerk'[c].op \in Op
      /\ clerk'[c].numOfOrders = num
  BY InvokeGives
<1>2. Grows /\ num \in Nat /\ num >= 1
  BY <1>1, SameLogGrows DEF logVars, Agreeing, Clerking, Types, ClerkTypes, ClerkState
<1>3. ClerkMoves(c)
  BY <1>1 DEF ClerkMoves
<1>4. /\ clerk'[c].op.kind = kind /\ clerk'[c].op.commiter = c
      /\ clerk'[c].op.pos = IF kind = "Get" THEN 0 ELSE num
  BY <1>1
<1> HIDE DEF kind
<1>5. Issued(clerk[c].op)'
  BY <1>1, <1>4 DEF Issued, Writes
<1>6. Clerking(c)'
  <2>1. \A p \in 1 .. clerk'[c].numOfOrders - 1 : \E n \in DOMAIN agreed' : Has(n, c, p)'
    BY <1>1, <1>2, DoneKept DEF Agreeing, Clerking
  <2>2. "Get" \notin Writes
    BY DEF Writes
  <2> QED BY <1>1, <1>2, <1>4, <1>5, <2>1, <2>2 DEF Clerking
<1>7. DOMAIN calls' = DOMAIN calls /\ \A k \in DOMAIN calls : calls'[k] = calls[k]
  BY <1>1
<1> QED BY <1>1, <1>3, <1>6, <1>7, ClerkKeeps

\* A clerk calls a server for its command.
LEMMA CallServerKeeps ==
  ASSUME Types, Agreeing, NEW c \in Clerk, NEW s \in Server, CallServer(c, s)
  PROVE  Agreeing'
<1>1. /\ Types' /\ UNCHANGED <<logVars, serverVars, notifyChs, result, restarts>>
      /\ \A d \in Clerk : d # c => clerk'[d] = clerk[d]
      /\ clerk[c].st = "trying" /\ clerk'[c].st = "waiting"
      /\ clerk'[c].op = clerk[c].op
      /\ clerk'[c].numOfOrders = clerk[c].numOfOrders
      /\ Len(calls) \in Nat /\ DOMAIN calls = 1 .. Len(calls)
      /\ clerk'[c].call = Len(calls) + 1 /\ DOMAIN calls' = 1 .. Len(calls) + 1
      /\ calls'[Len(calls) + 1] = SentCall(c, s) /\ clerk[c].op \in Op
      /\ \A k \in DOMAIN calls : calls'[k] = calls[k]
  BY CallServerGives
<1>2. Grows
  BY <1>1, SameLogGrows DEF logVars
<1>3. ClerkMoves(c) /\ Clerking(c)
  BY <1>1 DEF ClerkMoves, Agreeing
<1>4. Issued(clerk[c].op)'
  <2>1. PICK op \in Op : op = clerk[c].op /\ Issued(op) /\ op.commiter = c
    BY <1>1, <1>3 DEF Clerking
  <2>2. Issued(op)' /\ clerk'[c].op = op
    BY <1>1, <1>2, <1>3, <2>1, IssuedKept
  <2> QED BY <2>2 DEF Issued, AgreedOn
<1>9. PICK k : k = Len(calls) + 1
  OBVIOUS
<1>5. /\ k \in DOMAIN calls' /\ k \notin DOMAIN calls /\ DOMAIN calls \subseteq DOMAIN calls'
      /\ \A j \in DOMAIN calls' : j \in DOMAIN calls \/ j = k
      /\ calls'[k].op = clerk[c].op /\ calls'[k].st = "sent" /\ calls'[k].ch = <<>>
      /\ clerk'[c].call = k
  <2>1. /\ SentCall(c, s).op = clerk[c].op /\ SentCall(c, s).st = "sent"
        /\ SentCall(c, s).ch = <<>>
    BY DEF SentCall
  <2> QED BY <1>1, <1>9, <2>1
<1>6. Handling(k)'
  BY <1>5 DEF Handling
<1>7. \A op \in Op : op = calls'[k].op => Issued(op)'
  BY <1>1, <1>4, <1>5 DEF Issued, AgreedOn
<1>8. Clerking(c)'
  <2>1. \A p \in 1 .. clerk'[c].numOfOrders - 1 : \E n \in DOMAIN agreed' : Has(n, c, p)'
    BY <1>1, <1>2, <1>3, DoneKept DEF Clerking
  <2> QED BY <1>1, <1>3, <1>4, <1>5, <2>1 DEF Clerking
<1> QED BY <1>1, <1>3, <1>5, <1>6, <1>7, <1>8, ClerkKeeps

\* A clerk gives up a call.
LEMMA CallFailsKeeps ==
  ASSUME Types, Agreeing, NEW c \in Clerk, CallFails(c)
  PROVE  Agreeing'
<1>1. /\ Types' /\ UNCHANGED <<logVars, serverVars, notifyChs, calls, result, restarts>>
      /\ \A d \in Clerk : d # c => clerk'[d] = clerk[d]
      /\ clerk[c].st = "waiting" /\ clerk'[c].st = "trying"
      /\ clerk'[c].op = clerk[c].op
      /\ clerk'[c].numOfOrders = clerk[c].numOfOrders
  BY CallFailsGives
<1>2. Grows
  BY <1>1, SameLogGrows DEF logVars
<1>3. ClerkMoves(c) /\ Clerking(c) /\ clerk[c].op \in Op
  BY <1>1 DEF ClerkMoves, Agreeing, Types, ClerkTypes
<1>4. Issued(clerk[c].op)'
  <2>1. PICK op \in Op : op = clerk[c].op /\ Issued(op) /\ op.commiter = c
    BY <1>1, <1>3 DEF Clerking
  <2>2. Issued(op)' /\ clerk'[c].op = op
    BY <1>1, <1>2, <1>3, <2>1, IssuedKept
  <2> QED BY <2>2 DEF Issued, AgreedOn
<1>5. Clerking(c)'
  <2>1. \A p \in 1 .. clerk'[c].numOfOrders - 1 : \E n \in DOMAIN agreed' : Has(n, c, p)'
    BY <1>1, <1>2, <1>3, DoneKept DEF Clerking
  <2> QED BY <1>1, <1>3, <1>4, <2>1 DEF Clerking
<1>6. DOMAIN calls' = DOMAIN calls /\ \A k \in DOMAIN calls : calls'[k] = calls[k]
  BY <1>1
<1> QED BY <1>1, <1>3, <1>5, <1>6, ClerkKeeps

\* A clerk takes a reply: a write that is OK is in the log.
LEMMA TakeReplyKeeps ==
  ASSUME Types, Agreeing, NEW c \in Clerk, TakeReply(c)
  PROVE  Agreeing'
<1> DEFINE reply == calls[clerk[c].call].reply
           ok == reply.err = "OK"
           get == clerk[c].op.kind = "Get"
           num == clerk[c].numOfOrders
<1>1. clerk[c].st = "waiting" /\ Clerking(c) /\ clerk[c].op \in Op /\ num \in Nat /\ num >= 1
  BY DEF TakeReply, Agreeing, Clerking, Types, ClerkTypes, ClerkState
<1>2. clerk[c].call \in DOMAIN calls /\ calls[clerk[c].call].op = clerk[c].op
  BY <1>1 DEF Clerking
<1>3. /\ Types' /\ UNCHANGED <<logVars, serverVars, notifyChs, calls, restarts>>
      /\ \A d \in Clerk : d # c => clerk'[d] = clerk[d] /\ result'[d] = result[d]
      /\ calls[clerk[c].call].st = "replied"
      /\ clerk'[c].st = IF ok THEN "idle" ELSE "trying"
      /\ clerk'[c].op = clerk[c].op
      /\ clerk'[c].numOfOrders = IF ok /\ ~get THEN num + 1 ELSE num
  BY <1>2, TakeReplyGives
<1>4. Grows
  BY <1>3, SameLogGrows DEF logVars
<1>5. ok /\ ~get => AgreedOn(clerk[c].op) /\ clerk[c].op.kind \in Writes
  <2>1. ~get => clerk[c].op.kind \in Writes
    BY <1>1 DEF Op, Kinds
  <2> QED BY <1>2, <1>3, <2>1 DEF Agreeing, Handling
<1> HIDE DEF reply, get
<1>6. ClerkMoves(c)
  <2>1. CASE ok /\ ~get
    BY <1>3, <1>5, <2>1 DEF ClerkMoves
  <2>2. CASE ok /\ get
    BY <1>3, <2>2 DEF ClerkMoves, get
  <2>3. CASE ~ok
    BY <1>3, <2>3 DEF ClerkMoves
  <2> QED BY <2>1, <2>2, <2>3
<1>7. clerk'[c].st # "idle" => clerk'[c].st = "trying" /\ clerk'[c].numOfOrders = num
  BY <1>3
<1>8. Issued(clerk[c].op)'
  <2>1. PICK op \in Op : op = clerk[c].op /\ Issued(op) /\ op.commiter = c
    BY <1>1 DEF Clerking
  <2>2. Issued(op)' /\ clerk'[c].op = op
    BY <1>1, <1>3, <1>4, <1>6, <2>1, IssuedKept
  <2> QED BY <2>2 DEF Issued, AgreedOn
<1>9. Clerking(c)'
  <2>1. ASSUME NEW p \in 1 .. clerk'[c].numOfOrders - 1
        PROVE  \E n \in DOMAIN agreed' : Has(n, c, p)'
    <3>1. CASE p \in 1 .. num - 1
      BY <1>1, <1>4, <3>1, DoneKept DEF Clerking
    <3>2. CASE p \notin 1 .. num - 1
      <4>1. ok /\ ~get /\ p = num
        BY <1>1, <1>3, <3>2
      <4>2. PICK n \in DOMAIN agreed : agreed[n].op = clerk[c].op
        BY <1>5, <4>1 DEF AgreedOn
      <4>3. clerk[c].op.commiter = c /\ clerk[c].op.pos = num
        BY <1>1, <1>5, <4>1 DEF Clerking
      <4>4. Has(n, c, p)
        BY <1>5, <4>1, <4>2, <4>3 DEF Has
      <4> QED BY <1>4, <4>4, DoneKept
    <3> QED BY <3>1, <3>2
  <2>2. clerk'[c].numOfOrders >= 1
    BY <1>1, <1>3
  <2> QED BY <1>1, <1>3, <1>7, <1>8, <2>1, <2>2 DEF Clerking
<1>10. DOMAIN calls' = DOMAIN calls /\ \A k \in DOMAIN calls : calls'[k] = calls[k]
  BY <1>3
<1> QED BY <1>3, <1>6, <1>9, <1>10, ClerkKeeps

\* The step of the log, if the order in it is right afterwards.
LEMMA LogKeeps ==
  ASSUME Types, Types', Agreeing, Grows,
         UNCHANGED <<serverVars, notifyChs, clerk, calls, result, restarts>>,
         \A op \in Op : IsCommand(op)' => IsCommand(op), LogInOrder'
  PROVE  Agreeing'
<1>1. CallsKept
  BY DEF CallsKept
<1>2. \A c \in Clerk : ClerkMoves(c)
  BY DEF ClerkMoves
<1>3. \A op \in Op : Issued(op) => Issued(op)'
  BY <1>2, AllIssuedKept
<1>4. \A c \in Clerk : Clerking(c)'
  BY <1>1, <1>3, ClerkingKept
<1>5. AllIssued'
  BY <1>2, AllIssuedStep
<1>6. \A s \in Server : Looping(s)' /\ Serving(s)'
  BY LoopingKept, ServingKept DEF serverVars
<1>7. \A s \in Server : Channels(s)'
  BY ChannelsKept
<1>8. \A snap \in snapshots' : Stored(snap.kvstore, snap.committed, snap.index)'
  BY SnapshotKept DEF serverVars
<1>9. \A k \in DOMAIN calls' : Handling(k)'
  <2> SUFFICES ASSUME NEW k \in DOMAIN calls PROVE Handling(k)'
    OBVIOUS
  <2>1. calls[k].server \in Server /\ applied' = applied
    BY CallIs DEF serverVars
  <2>2. applied[calls[k].server] \in Nat
    BY <2>1 DEF Types, ServerTypes
  <2> QED BY <2>1, <2>2, HandlingKept
<1> QED BY <1>4, <1>5, <1>6, <1>7, <1>8, <1>9 DEF Agreeing

\* An entry is agreed on: its clerk's earlier writes have been before.
LEMMA AgreeKeeps ==
  ASSUME Types, Agreeing, Agree,
         UNCHANGED <<serverVars, notifyChs, clerk, calls, result, restarts>>
  PROVE  Agreeing'
<1>1. /\ Types' /\ UNCHANGED <<view, term, leading, proposed>>
      /\ Len(agreed) \in Nat /\ DOMAIN agreed = 1 .. Len(agreed)
      /\ Len(agreed') = Len(agreed) + 1 /\ DOMAIN agreed' = 1 .. Len(agreed) + 1
      /\ \A n \in 1 .. Len(agreed) : agreed'[n] = agreed[n]
      /\ agreed'[Len(agreed) + 1] \in Entry
      /\ \E s \in Server : \E n \in DOMAIN view[s] : agreed'[Len(agreed) + 1] = view[s][n]
  BY AgreeGives
<1>2. Grows
  BY <1>1 DEF Grows
<1>3. PICK N \in Nat : N = Len(agreed) + 1
  BY <1>1
<1>4. PICK op : op = agreed'[N].op
  OBVIOUS
<1>5. /\ DOMAIN agreed = 1 .. N - 1 /\ DOMAIN agreed' = 1 .. N
      /\ \A n \in 1 .. N : n # N => n \in DOMAIN agreed
      /\ \A n \in DOMAIN agreed : n \in 1 .. N /\ n # N /\ agreed'[n] = agreed[n]
  BY <1>1, <1>3
<1>6. op \in Op /\ IsCommand(op)
  <2>1. op \in Op
    BY <1>1, <1>3, <1>4 DEF Entry
  <2>2. \E s \in Server : \E n \in DOMAIN view[s] : op = view[s][n].op
    BY <1>1, <1>3, <1>4
  <2> QED BY <2>1, <2>2 DEF IsCommand
<1>7. Issued(op)
  BY <1>6 DEF Agreeing, AllIssued
<1>8. \A o \in Op : IsCommand(o)' => IsCommand(o)
  <2> SUFFICES ASSUME NEW o \in Op, IsCommand(o)', ~IsCommand(o) PROVE FALSE
    OBVIOUS
  <2>1. PICK n \in DOMAIN agreed' : o = agreed'[n].op
    BY <1>1 DEF IsCommand
  <2>2. CASE n = N
    BY <1>4, <1>6, <2>1, <2>2
  <2>3. CASE n # N
    BY <1>5, <2>1, <2>3 DEF IsCommand
  <2> QED BY <2>2, <2>3
<1>9. \A n \in DOMAIN agreed : \A c, p : Has(n, c, p)' <=> Has(n, c, p)
  BY <1>2, HasKept
<1>10. \A c, p : Has(N, c, p)' => op.kind \in Writes /\ op.commiter = c /\ op.pos = p
  BY <1>4 DEF Has
<1>11. LogInOrder
  BY DEF Agreeing
<1>12. \A n \in DOMAIN agreed : \A c, p : Has(n, c, p) /\ Has(N, c, p)' => agreed[n].op = op
  BY <1>6, <1>7, <1>10, OneOp
<1>13. ASSUME NEW m \in DOMAIN agreed', NEW n \in DOMAIN agreed', NEW c \in Clerk, NEW p \in Nat,
              Has(m, c, p)', Has(n, c, p)'
       PROVE  agreed'[m].op = agreed'[n].op
  <2>1. CASE m # N /\ n # N
    <3>1. m \in DOMAIN agreed /\ n \in DOMAIN agreed
      BY <1>5, <2>1
    <3>2. Has(m, c, p) /\ Has(n, c, p)
      BY <1>9, <1>13, <3>1
    <3>3. agreed[m].op = agreed[n].op
      BY <1>11, <3>1, <3>2 DEF LogInOrder
    <3> QED BY <1>5, <3>1, <3>3
  <2>2. CASE m = N /\ n # N
    BY <1>4, <1>5, <1>9, <1>12, <1>13, <2>2
  <2>3. CASE m # N /\ n = N
    BY <1>4, <1>5, <1>9, <1>12, <1>13, <2>3
  <2>4. CASE m = N /\ n = N
    BY <2>4
  <2> QED BY <2>1, <2>2, <2>3, <2>4
<1>14. ASSUME NEW n \in DOMAIN agreed', NEW c \in Clerk, NEW p \in Nat, Has(n, c, p)',
              NEW q \in 1 .. p - 1
       PROVE  \E m \in 1 .. n - 1 : Has(m, c, q)'
  <2>1. CASE n # N
    <3>1. n \in DOMAIN agreed /\ Has(n, c, p)
      BY <1>5, <1>9, <1>14, <2>1
    <3>2. PICK m \in 1 .. n - 1 : Has(m, c, q)
      BY <1>11, <3>1 DEF LogInOrder
    <3>3. m \in DOMAIN agreed
      BY <1>5, <3>1, <3>2
    <3> QED BY <1>9, <3>2, <3>3
  <2>2. CASE n = N
    <3>1. op.kind \in Writes /\ op.commiter = c /\ op.pos = p
      BY <1>10, <1>14, <2>2
    <3>2. clerk[c].numOfOrders \in Nat /\ Clerking(c)
      BY DEF Agreeing, Types, ClerkTypes, ClerkState
    <3>3. p <= clerk[c].numOfOrders
      BY <1>7, <3>1, <3>2 DEF Issued
    <3>4. q \in 1 .. clerk[c].numOfOrders - 1
      BY <3>2, <3>3
    <3>5. PICK m \in DOMAIN agreed : Has(m, c, q)
      BY <3>2, <3>4 DEF Clerking
    <3> QED BY <1>5, <1>9, <2>2, <3>5
  <2> QED BY <2>1, <2>2
<1>15. LogInOrder'
  BY <1>13, <1>14 DEF LogInOrder
<1> QED BY <1>1, <1>2, <1>8, <1>15, LogKeeps

\* A new leader's log is made of commands there are.
LEMMA ElectKeeps ==
  ASSUME Types, Agreeing, NEW s \in Server, Elect(s),
         UNCHANGED <<serverVars, notifyChs, clerk, calls, result, restarts>>
  PROVE  Agreeing'
<1>1. /\ Types' /\ UNCHANGED <<agreed, proposed>>
      /\ \A t \in Server : t # s => view'[t] = view[t]
      /\ \A n \in DOMAIN view'[s] :
           \/ n \in DOMAIN agreed /\ view'[s][n] = agreed[n]
           \/ \E p \in proposed : view'[s][n] = p.entry
  BY ElectGives
<1>2. \A op \in Op : IsCommand(op)' => IsCommand(op)
  BY <1>1 DEF IsCommand
<1> QED BY <1>1, <1>2, SameLogGrows, LogInOrderKept, LogKeeps

\* A leader steps down.
LEMMA StepDownKeeps ==
  ASSUME Types, Agreeing, NEW s \in Server, StepDown(s),
         UNCHANGED <<serverVars, notifyChs, clerk, calls, result, restarts>>
  PROVE  Agreeing'
<1>1. Types' /\ UNCHANGED <<agreed, view, term, proposed>>
  BY StepDownGives
<1>2. \A op \in Op : IsCommand(op)' => IsCommand(op)
  BY <1>1 DEF IsCommand
<1> QED BY <1>1, <1>2, SameLogGrows, LogInOrderKept, LogKeeps

(***************************************************************************)
(* The replicas agree.                                                     *)
(***************************************************************************)
\* The invariant holds at first.
LEMMA AgreeingInit == Init => Agreeing
<1> SUFFICES ASSUME Init PROVE Agreeing
  OBVIOUS
<1>1. /\ agreed = <<>> /\ calls = <<>> /\ proposed = {} /\ snapshots = {}
      /\ DOMAIN agreed = {} /\ DOMAIN calls = {} /\ Len(agreed) = 0
      /\ \A s \in Server :
           /\ view[s] = <<>> /\ DOMAIN view[s] = {} /\ applied[s] = 0
           /\ kvstore[s] = EmptyStore /\ loop[s] = Idle
           /\ disk[s].kvstore = EmptyStore /\ disk[s].index = 0
           /\ \A c \in Clerk : CommittedStore[s][c] = 0 /\ disk[s].committed[c] = 0
           /\ \A n \in 1 .. MaxIndex : notifyChs[s][n] = 0
  BY DEF Init, LogInit, NoSnapshot
<1>2. \A c \in Clerk : clerk[c].st = "idle" /\ clerk[c].numOfOrders = 1
  BY DEF Init, MakeClerk
<1>3. \A c \in Clerk : Clerking(c)
  BY <1>2 DEF Clerking
<1>4. AllIssued /\ LogInOrder
  BY <1>1 DEF AllIssued, IsCommand, LogInOrder
<1>5. Stores[0] = EmptyStore
  BY <1>1, StoresGive DEF Stores
<1>6. ASSUME NEW s \in Server PROVE Looping(s) /\ Channels(s) /\ Serving(s)
  <2>1. Looping(s) /\ Channels(s)
    BY <1>1, LoopStates DEF Looping, Channels
  <2>2. Stored(kvstore[s], CommittedStore[s], applied[s])
    BY <1>1, <1>5 DEF Stored
  <2>3. Stored(disk[s].kvstore, disk[s].committed, disk[s].index)
    BY <1>1, <1>5 DEF Stored
  <2> QED BY <2>1, <2>2, <2>3 DEF Serving
<1> QED BY <1>1, <1>3, <1>4, <1>6 DEF Agreeing

\* Every step keeps it.
LEMMA AgreeingStep ==
  ASSUME Types, Agreeing, [Next]_vars, ~LateSnapshots
  PROVE  Types' /\ Agreeing'
<1>1. ASSUME NEW c \in Clerk, ClerkStep(c) PROVE Types' /\ Agreeing'
  <2>1. CASE Invoke(c)
    BY <2>1, InvokeGives, InvokeKeeps
  <2>2. ASSUME NEW s \in Server, CallServer(c, s) PROVE Types' /\ Agreeing'
    BY <2>2, CallServerGives, CallServerKeeps
  <2>3. CASE CallFails(c)
    BY <2>3, CallFailsGives, CallFailsKeeps
  <2>4. CASE TakeReply(c)
    <3>1. clerk[c].st = "waiting"
      BY <2>4 DEF TakeReply
    <3>2. clerk[c].call \in DOMAIN calls
      BY <3>1 DEF Agreeing, Clerking
    <3> QED BY <2>4, <3>2, TakeReplyGives, TakeReplyKeeps
  <2> QED BY <1>1, <2>1, <2>2, <2>3, <2>4 DEF ClerkStep
<1>2. ASSUME NEW k \in DOMAIN calls, HandlerStep(k) PROVE Types' /\ Agreeing'
  <2>1. CASE CheckDuplicate(k)
    BY <2>1, CheckDuplicateGives, CheckDuplicateKeeps
  <2>2. CASE NotLeader(k)
    BY <2>2, NotLeaderGives, NotLeaderKeeps
  <2>3. CASE StartWrite(k)
    BY <2>3, StartWriteGives, StartWriteKeeps
  <2>4. CASE Register(k)
    BY <2>4, RegisterGives, RegisterKeeps
  <2>5. CASE StartRead(k)
    BY <2>5, StartReadGives, StartReadKeeps
  <2>6. CASE Notified(k)
    BY <2>6, NotifiedGives, NotifiedKeeps
  <2>7. CASE TimesOut(k)
    BY <2>7, TimesOutGives, TimesOutKeeps
  <2>8. CASE Read(k)
    BY <2>8, ReadGives, ReadKeeps
  <2>9. CASE Leave(k)
    BY <2>9, LeaveGives, LeaveKeeps
  <2> QED BY <1>2, <2>1, <2>2, <2>3, <2>4, <2>5, <2>6, <2>7, <2>8, <2>9 DEF HandlerStep
<1>3. ASSUME NEW s \in Server, ServerStep(s) PROVE Types' /\ Agreeing'
  <2>1. CASE ApplyCommand(s)
    BY <2>1, ApplyCommandGives, ApplyCommandKeeps
  <2>2. CASE SaveSnapshot(s)
    BY <2>2, SaveSnapshotGives, SaveSnapshotKeeps
  <2>3. CASE ReceiveSnapshot(s)
    BY <2>3, ReceiveSnapshotGives, ReceiveSnapshotKeeps
  <2>4. CASE Notify(s)
    BY <2>4, NotifyGives, NotifyKeeps
  <2>5. CASE Restart(s)
    BY <2>5, RestartGives, RestartKeeps
  <2> QED BY <1>3, <2>1, <2>2, <2>3, <2>4, <2>5 DEF ServerStep
<1>4. ASSUME LogStep PROVE Types' /\ Agreeing'
  <2>1. UNCHANGED <<serverVars, notifyChs, clerk, calls, result, restarts>>
    BY <1>4 DEF LogStep
  <2>2. CASE Agree
    BY <2>1, <2>2, AgreeGives, AgreeKeeps
  <2>3. ASSUME NEW s \in Server, Elect(s) PROVE Types' /\ Agreeing'
    BY <2>1, <2>3, ElectGives, ElectKeeps
  <2>4. ASSUME NEW s \in leading, StepDown(s) PROVE Types' /\ Agreeing'
    <3>1. s \in Server
      BY DEF Types, LogTypes
    <3> QED BY <2>1, <2>4, <3>1, StepDownGives, StepDownKeeps
  <2> QED BY <1>4, <2>2, <2>3, <2>4 DEF LogStep
<1>5. ASSUME UNCHANGED vars PROVE Types' /\ Agreeing'
  <2>1. /\ UNCHANGED <<logVars, serverVars, notifyChs, clerk, calls, result, restarts>>
        /\ UNCHANGED <<agreed, view, term, leading, proposed>>
    BY <1>5 DEF vars, logVars
  <2>2. Types'
    BY <2>1 DEF Types, LogTypes, ServerTypes, ClerkTypes, serverVars
  <2>3. \A op \in Op : IsCommand(op)' => IsCommand(op)
    BY <2>1 DEF IsCommand
  <2> QED BY <2>1, <2>2, <2>3, SameLogGrows, LogInOrderKept, LogKeeps
<1> QED BY <1>1, <1>2, <1>3, <1>4, <1>5 DEF Next

\* The invariant is one of the specification.
LEMMA AgreeingAlways == ASSUME ~LateSnapshots PROVE Spec => [](Types /\ Agreeing)
<1>1. Init => Types /\ Agreeing
  BY TypesInit, AgreeingInit
<1>2. Types /\ Agreeing /\ [Next]_vars => (Types /\ Agreeing)'
  BY AgreeingStep
<1> QED BY <1>1, <1>2, PTL DEF Spec

\* As long as no snapshot comes late, the map of every server is, at every instant,
\* exactly the one the agreed log stands for up to the last entry it has applied:
\* retried commands, snapshots taken and received, and restarts from them change
\* nothing of that (server.go:269-308).
THEOREM ReplicasAlwaysAgree == ASSUME ~LateSnapshots PROVE Spec => []ReplicasAgree
<1>1. Agreeing => ReplicasAgree
  BY DEF Agreeing, Serving, Stored, ReplicasAgree
<1> QED BY <1>1, AgreeingAlways, PTL

(***************************************************************************)
(* What a read returns.                                                    *)
(***************************************************************************)
\* The answer of call k is what its key was at some point of the log since n.
Current(k, n) ==
  \E m \in n .. Len(agreed) : calls[k].reply.value = Stores[m][calls[k].op.key]

\* A read that has found its entry has a map of after its call, and its answer is
\* from then on.
Reading(c) ==
  LET k == clerk[c].call
      since == clerk[c].since
  IN  /\ clerk[c].st # "idle" => since <= Len(agreed)
      /\ clerk[c].st = "waiting" /\ clerk[c].op.kind = "Get" =>
           /\ calls[k].st = "reading" => since <= applied[calls[k].server]
           /\ calls[k].st \in {"leaving", "replied"} /\ calls[k].reply.err = "OK" =>
                Current(k, since)

\* The Gets there are of a clerk.
GetOf(op, c) == op.kind = "Get" /\ op.commiter = c

Known(op) == IsCommand(op) \/ \E c \in Clerk : clerk[c].st # "idle" /\ op = clerk[c].op

\* A clerk has one Get at most: when it is called, none is in the log.
OneGet(c) ==
  /\ \A i, j \in DOMAIN clerk[c].todo :
       clerk[c].todo[i][1] = "Get" /\ clerk[c].todo[j][1] = "Get" => i = j
  /\ (\E op \in Op : GetOf(op, c) /\ Known(op)) =>
       \A i \in DOMAIN clerk[c].todo : clerk[c].todo[i][1] # "Get"
  /\ clerk[c].st # "idle" /\ clerk[c].op.kind = "Get" =>
       \A n \in 1 .. clerk[c].since : ~GetOf(agreed[n].op, c)

\* An answer stays one of the values since.
LEMMA CurrentKept ==
  ASSUME Types, Grows, NEW k \in DOMAIN calls, NEW n \in Nat, Current(k, n),
         calls'[k].op = calls[k].op, calls'[k].reply.value = calls[k].reply.value
  PROVE  Current(k, n)'
<1>1. PICK m \in n .. Len(agreed) : calls[k].reply.value = Stores[m][calls[k].op.key]
  BY DEF Current
<1>2. Stores'[m] = Stores[m] /\ m \in n .. Len(agreed')
  <2> DEFINE a == agreed
             b == agreed'
  <2>1. /\ Len(a) \in Nat /\ Len(b) \in Nat /\ Len(a) <= Len(b)
        /\ \A i \in 1 .. Len(a) : a[i] = b[i]
    BY DEF Grows
  <2> HIDE DEF a, b
  <2>2. \A i \in 0 .. Len(a) : StoresOf(b)[i] = StoresOf(a)[i]
    BY <2>1, StoresKept
  <2>3. m \in 0 .. Len(a) /\ m \in n .. Len(b)
    BY <1>1, <2>1 DEF a
  <2> QED BY <2>2, <2>3 DEF a, b, Stores
<1> QED BY <1>1, <1>2 DEF Current

\* What handler k is at for its clerk.
SameAnswer(k) ==
  /\ calls'[k].st = calls[k].st /\ calls'[k].op = calls[k].op
  /\ calls'[k].server = calls[k].server /\ calls'[k].reply = calls[k].reply

\* What a clerk's read is at, if neither the clerk nor its handler moves.
LEMMA ReadingKept ==
  ASSUME Types, Agreeing, Grows, NEW c \in Clerk, Reading(c), clerk'[c] = clerk[c],
         clerk[c].call \in DOMAIN calls =>
           \/ SameAnswer(clerk[c].call)
           \/ calls'[clerk[c].call].st \notin {"reading", "leaving", "replied"},
         clerk[c].call \in DOMAIN calls /\ calls'[clerk[c].call].st = "reading" =>
           /\ applied'[calls[clerk[c].call].server] \in Nat
           /\ applied[calls[clerk[c].call].server] <= applied'[calls[clerk[c].call].server]
  PROVE  Reading(c)'
<1>1. PICK k : k = clerk[c].call
  OBVIOUS
<1>2. PICK since : since = clerk[c].since
  OBVIOUS
<1>3. since \in Nat /\ clerk'[c].call = k /\ clerk'[c].since = since
  BY <1>1, <1>2 DEF Types, ClerkTypes, ClerkState
<1>4. clerk[c].st = "waiting" => k \in DOMAIN calls
  BY <1>1 DEF Agreeing, Clerking
<1>5. clerk[c].st # "idle" => since <= Len(agreed')
  BY <1>2, <1>3 DEF Reading, Grows
<1>6. ASSUME clerk[c].st = "waiting", clerk[c].op.kind = "Get", calls'[k].st = "reading"
      PROVE  since <= applied'[calls'[k].server]
  <2>1. SameAnswer(k) /\ k \in DOMAIN calls
    BY <1>1, <1>4, <1>6
  <2>2. since <= applied[calls[k].server]
    BY <1>1, <1>2, <1>6, <2>1 DEF Reading, SameAnswer
  <2>3. applied[calls[k].server] \in Nat
    BY <2>1, CallIs DEF Types, ServerTypes
  <2>4. /\ applied'[calls[k].server] \in Nat
        /\ applied[calls[k].server] <= applied'[calls[k].server]
    BY <1>1, <1>6, <2>1
  <2> QED BY <1>3, <2>1, <2>2, <2>3, <2>4 DEF SameAnswer
<1>7. ASSUME clerk[c].st = "waiting", clerk[c].op.kind = "Get",
             calls'[k].st \in {"leaving", "replied"}, calls'[k].reply.err = "OK"
      PROVE  Current(k, since)'
  <2>1. SameAnswer(k) /\ k \in DOMAIN calls
    BY <1>1, <1>4, <1>7
  <2>2. Current(k, since)
    BY <1>1, <1>2, <1>7, <2>1 DEF Reading, SameAnswer
  <2> QED BY <1>3, <2>1, <2>2, CurrentKept DEF SameAnswer
<1> QED BY <1>1, <1>2, <1>3, <1>5, <1>6, <1>7 DEF Reading, Current

\* What a step of handler k must leave of the read it serves.
Serves(k, st, reply) ==
  calls[k].op.kind = "Get" =>
    \A c \in Clerk : clerk[c].st = "waiting" /\ clerk[c].call = k =>
      /\ st = "reading" => clerk[c].since <= applied[calls[k].server]
      /\ st \in {"leaving", "replied"} /\ reply.err = "OK" =>
           \E m \in clerk[c].since .. Len(agreed) : reply.value = Stores[m][calls[k].op.key]

\* The reads after a step of a handler.
LEMMA HandlerReads ==
  ASSUME Types, Agreeing, \A c \in Clerk : Reading(c), NEW k \in DOMAIN calls,
         UNCHANGED <<agreed, serverVars, clerk>>,
         NEW st, NEW index, NEW ch, NEW reply, CallMoves(k, st, index, ch, reply),
         Serves(k, st, reply)
  PROVE  \A c \in Clerk : Reading(c)'
<1> SUFFICES ASSUME NEW c \in Clerk PROVE Reading(c)'
  OBVIOUS
<1>1. Grows /\ applied' = applied /\ Stores' = Stores
  <2>1. Stores' = Stores
    BY DEF Stores, StoresOf, Effect, FirstOccurrence
  <2> QED BY <2>1, SameLogGrows DEF serverVars
<1>2. CASE clerk[c].call # k
  <2>1. clerk[c].call \in DOMAIN calls => SameAnswer(clerk[c].call)
    BY <1>2 DEF CallMoves, SameAnswer
  <2>2. clerk[c].call \in DOMAIN calls =>
          /\ applied'[calls[clerk[c].call].server] \in Nat
          /\ applied[calls[clerk[c].call].server] <= applied'[calls[clerk[c].call].server]
    <3> SUFFICES ASSUME clerk[c].call \in DOMAIN calls
        PROVE  /\ applied'[calls[clerk[c].call].server] \in Nat
               /\ applied[calls[clerk[c].call].server] <= applied'[calls[clerk[c].call].server]
      OBVIOUS
    <3>1. calls[clerk[c].call].server \in Server
      BY CallIs
    <3>2. applied[calls[clerk[c].call].server] \in Nat
      BY <3>1 DEF Types, ServerTypes
    <3> QED BY <1>1, <3>2
  <2> QED BY <1>1, <2>1, <2>2, ReadingKept
<1>3. CASE clerk[c].call = k
  <2>1. Reading(c) /\ Clerking(c)
    BY DEF Agreeing
  <2>2. /\ calls'[k].st = st /\ calls'[k].reply = reply /\ calls'[k].op = calls[k].op
        /\ calls'[k].server = calls[k].server
    BY DEF CallMoves
  <2>3. clerk[c].st = "waiting" /\ clerk[c].op.kind = "Get" => calls[k].op.kind = "Get"
    BY <1>3, <2>1 DEF Clerking
  <2>4. clerk[c].st = "waiting" /\ clerk[c].op.kind = "Get" =>
          /\ calls'[k].st = "reading" => clerk[c].since <= applied'[calls'[k].server]
          /\ calls'[k].st \in {"leaving", "replied"} /\ calls'[k].reply.err = "OK" =>
               \E m \in clerk[c].since .. Len(agreed') :
                 calls'[k].reply.value = Stores'[m][calls'[k].op.key]
    BY <1>1, <1>3, <2>2, <2>3 DEF Serves
  <2>5. clerk'[c].call = k /\ clerk'[c] = clerk[c]
    BY <1>3
  <2> QED BY <2>1, <2>4, <2>5 DEF Reading, Current
<1> QED BY <1>2, <1>3

\* A read that finds its entry finds it after its call, unless it takes an older Get of
\* its clerk for its own.
LEMMA FoundSince ==
  ASSUME Types, Agreeing, NoOldGet, NEW c \in Clerk, NEW k \in DOMAIN calls,
         clerk[c].st = "waiting", clerk[c].call = k, calls[k].st = "waiting",
         calls[k].op.kind = "Get", 1 \in DOMAIN calls[k].ch,
         Matches(calls[k].ch[1], calls[k].op)
  PROVE  clerk[c].since <= applied[calls[k].server]
<1> DEFINE a == calls[k].ch[1]
           n == calls[k].index
           m == applied[calls[k].server]
<1>1. a # Nil /\ a.commiter = calls[k].op.commiter /\ a.pos = calls[k].op.pos
  BY DEF Matches, EmptyOp
<1>2. calls[k].op.commiter = c /\ calls[k].op.pos = 0
  BY CallIssued DEF Agreeing, Clerking, Issued
<1>3. n \in 1 .. m /\ a = agreed[n].op
  BY <1>1 DEF Agreeing, Handling
<1>4. m \in Nat /\ n \in DOMAIN agreed /\ clerk[c].since \in Nat
  <2>1. calls[k].server \in Server
    BY CallIs
  <2>2. m <= Len(agreed) /\ m \in Nat /\ Len(agreed) \in Nat /\ DOMAIN agreed = 1 .. Len(agreed)
    BY <2>1 DEF Agreeing, Serving, Stored, Types, ServerTypes, LogTypes
  <2>3. clerk[c].since \in Nat
    BY DEF Types, ClerkTypes, ClerkState
  <2> QED BY <1>3, <2>2, <2>3
<1>5. a.kind = "Get"
  <2>1. Issued(a) /\ a \in Op
    BY <1>3, <1>4, EntryIssued
  <2>2. a.kind \notin Writes
    <3> HIDE DEF a
    <3> QED BY <1>1, <1>2, <2>1, IssuedPos
  <2> QED BY <2>1, <2>2 DEF Op, Kinds
<1>6. n \notin 1 .. clerk[c].since
  BY <1>1, <1>2, <1>3, <1>5 DEF NoOldGet, At
<1> QED BY <1>3, <1>4, <1>6

\* The reads after a handler's step.
LEMMA HandlerStepReads ==
  ASSUME Types, Agreeing, \A c \in Clerk : Reading(c), NoOldGet,
         NEW k \in DOMAIN calls, HandlerStep(k)
  PROVE  UNCHANGED <<agreed, serverVars, clerk, result>> /\ \A c \in Clerk : Reading(c)'
<1> USE HandlerReads
<1>1. CASE CheckDuplicate(k)
  <2>1. /\ UNCHANGED <<logVars, serverVars, clerk, result>> /\ At(k, "sent", Writes)
        /\ \/ CallMoves(k, "replied", calls[k].index, calls[k].ch, OK(Nil))
           \/ CallMoves(k, "checked", calls[k].index, calls[k].ch, calls[k].reply)
    BY <1>1, CheckDuplicateGives
  <2>2. UNCHANGED agreed /\ calls[k].op.kind # "Get"
    BY <2>1 DEF logVars, At, Writes
  <2>3. Serves(k, "replied", OK(Nil)) /\ Serves(k, "checked", calls[k].reply)
    BY <2>2 DEF Serves
  <2> QED BY <2>1, <2>2, <2>3
<1>2. CASE NotLeader(k)
  <2>1. /\ UNCHANGED <<logVars, serverVars, clerk, result>>
        /\ CallMoves(k, "replied", calls[k].index, calls[k].ch, ErrWrongLeader)
    BY <1>2, NotLeaderGives
  <2>2. UNCHANGED agreed /\ Serves(k, "replied", ErrWrongLeader)
    BY <2>1, Answers DEF logVars, Serves
  <2> QED BY <2>1, <2>2
<1>3. CASE StartWrite(k)
  <2>1. PICK n \in 1 .. MaxIndex :
          /\ UNCHANGED <<agreed, serverVars, clerk, result>>
          /\ CallMoves(k, "started", n, calls[k].ch, calls[k].reply)
    BY <1>3, StartWriteGives
  <2>2. Serves(k, "started", calls[k].reply)
    BY DEF Serves
  <2> QED BY <2>1, <2>2
<1>4. CASE Register(k)
  <2>1. /\ UNCHANGED <<logVars, serverVars, clerk, result>>
        /\ CallMoves(k, "waiting", calls[k].index, calls[k].ch, calls[k].reply)
    BY <1>4, RegisterGives
  <2>2. UNCHANGED agreed /\ Serves(k, "waiting", calls[k].reply)
    BY <2>1 DEF logVars, Serves
  <2> QED BY <2>1, <2>2
<1>5. CASE StartRead(k)
  <2>1. PICK n \in 1 .. MaxIndex :
          /\ UNCHANGED <<agreed, serverVars, clerk, result>>
          /\ CallMoves(k, "waiting", n, calls[k].ch, calls[k].reply)
    BY <1>5, StartReadGives
  <2>2. Serves(k, "waiting", calls[k].reply)
    BY DEF Serves
  <2> QED BY <2>1, <2>2
<1>6. CASE Notified(k)
  <2> DEFINE matched == Matches(calls[k].ch[1], calls[k].op)
             st == IF matched /\ calls[k].op.kind = "Get" THEN "reading" ELSE "leaving"
             reply == IF matched THEN OK(Nil) ELSE ErrWrongLeader
  <2>1. /\ UNCHANGED <<logVars, serverVars, clerk, result>>
        /\ calls[k].st = "waiting" /\ 1 \in DOMAIN calls[k].ch
        /\ CallMoves(k, st, calls[k].index, Tail(calls[k].ch), reply)
    BY <1>6, NotifiedGives
  <2>2. UNCHANGED agreed
    BY <2>1 DEF logVars
  <2>3. Serves(k, st, reply)
    <3> SUFFICES ASSUME calls[k].op.kind = "Get", NEW c \in Clerk,
                        clerk[c].st = "waiting", clerk[c].call = k
        PROVE  /\ st = "reading" => clerk[c].since <= applied[calls[k].server]
               /\ st \in {"leaving", "replied"} => reply.err # "OK"
      BY DEF Serves
    <3>1. CASE matched
      BY <2>1, <3>1, FoundSince
    <3>2. CASE ~matched
      BY <3>2, Answers
    <3> QED BY <3>1, <3>2
  <2> HIDE DEF st, reply
  <2> QED BY <2>1, <2>2, <2>3
<1>7. CASE TimesOut(k)
  <2>1. /\ UNCHANGED <<logVars, serverVars, clerk, result>>
        /\ CallMoves(k, "leaving", calls[k].index, calls[k].ch, ErrWrongLeader)
    BY <1>7, TimesOutGives
  <2>2. UNCHANGED agreed /\ Serves(k, "leaving", ErrWrongLeader)
    BY <2>1, Answers DEF logVars, Serves
  <2> QED BY <2>1, <2>2
<1>8. CASE Read(k)
  <2> DEFINE v == kvstore[calls[k].server][calls[k].op.key]
             reply == OK(v)
  <2>1. /\ UNCHANGED <<logVars, serverVars, clerk, result>> /\ calls[k].st = "reading"
        /\ CallMoves(k, "leaving", calls[k].index, calls[k].ch, reply)
    BY <1>8, ReadGives
  <2>2. UNCHANGED agreed
    BY <2>1 DEF logVars
  <2>3. calls[k].server \in Server /\ reply.value = v
    BY CallIs DEF OK
  <2>4. /\ v = Stores[applied[calls[k].server]][calls[k].op.key]
        /\ applied[calls[k].server] <= Len(agreed) /\ applied[calls[k].server] \in Nat
    BY <2>3 DEF Agreeing, Serving, Stored, Types, ServerTypes
  <2>5. Serves(k, "leaving", reply)
    <3> SUFFICES ASSUME calls[k].op.kind = "Get", NEW c \in Clerk,
                        clerk[c].st = "waiting", clerk[c].call = k
        PROVE  \E m \in clerk[c].since .. Len(agreed) :
                 reply.value = Stores[m][calls[k].op.key]
      BY DEF Serves
    <3>1. clerk[c].op = calls[k].op
      BY DEF Agreeing, Clerking
    <3>2. clerk[c].since <= applied[calls[k].server]
      BY <2>1, <3>1 DEF Reading
    <3>3. applied[calls[k].server] \in clerk[c].since .. Len(agreed)
      BY <2>4, <3>2 DEF Types, ClerkTypes, ClerkState, LogTypes
    <3> QED BY <2>3, <2>4, <3>3
  <2> HIDE DEF reply
  <2> QED BY <2>1, <2>2, <2>5
<1>9. CASE Leave(k)
  <2>1. /\ UNCHANGED <<logVars, serverVars, clerk, result>> /\ calls[k].st = "leaving"
        /\ CallMoves(k, "replied", calls[k].index, calls[k].ch, calls[k].reply)
    BY <1>9, LeaveGives
  <2>2. UNCHANGED agreed
    BY <2>1 DEF logVars
  <2>3. Serves(k, "replied", calls[k].reply)
    BY <2>1 DEF Serves, Reading, Current, Agreeing, Clerking
  <2> QED BY <2>1, <2>2, <2>3
<1> QED BY <1>1, <1>2, <1>3, <1>4, <1>5, <1>6, <1>7, <1>8, <1>9 DEF HandlerStep

\* The reads whose clerks a step leaves alone.
LEMMA ReadsKept ==
  ASSUME Types, Agreeing, Grows, NEW c \in Clerk, Reading(c), clerk'[c] = clerk[c],
         \A k \in DOMAIN calls :
           \/ SameAnswer(k) \/ calls'[k].st \notin {"reading", "leaving", "replied"},
         \A k \in DOMAIN calls : LET s == calls[k].server IN
           calls'[k].st = "reading" => applied'[s] \in Nat /\ applied[s] <= applied'[s]
  PROVE  Reading(c)'
BY ReadingKept

\* A step that changes neither the calls nor what is applied, but for clerk c.
LEMMA OthersRead ==
  ASSUME Types, Agreeing, \A c \in Clerk : Reading(c), Grows, UNCHANGED applied,
         \A k \in DOMAIN calls : calls'[k] = calls[k]
  PROVE  \A c \in Clerk : clerk'[c] = clerk[c] => Reading(c)'
<1>1. \A k \in DOMAIN calls : SameAnswer(k)
  BY DEF SameAnswer
<1>2. \A k \in DOMAIN calls : LET s == calls[k].server IN
        applied'[s] \in Nat /\ applied[s] <= applied'[s]
  BY CallIs DEF Types, ServerTypes
<1> QED BY <1>1, <1>2, ReadsKept

\* The reads after a server's step.
LEMMA ServerStepReads ==
  ASSUME Types, Agreeing, \A c \in Clerk : Reading(c), ~LateSnapshots,
         NEW s \in Server, ServerStep(s)
  PROVE  UNCHANGED <<agreed, clerk, result>> /\ \A c \in Clerk : Reading(c)'
<1>1. \A t \in Server : applied[t] \in Nat /\ applied[t] <= applied[t]
  BY DEF Types, ServerTypes
<1>2. \A k \in DOMAIN calls : calls[k].server \in Server
  BY CallIs
<1>3. ASSUME UNCHANGED <<agreed, clerk>>,
             \A k \in DOMAIN calls :
               SameAnswer(k) \/ calls'[k].st \notin {"reading", "leaving", "replied"},
             \A k \in DOMAIN calls : LET t == calls[k].server IN
               calls'[k].st = "reading" => applied'[t] \in Nat /\ applied[t] <= applied'[t]
      PROVE  \A c \in Clerk : Reading(c)'
  BY <1>3, SameLogGrows, ReadsKept
<1>4. CASE ApplyCommand(s)
  <2>1. /\ UNCHANGED <<logVars, clerk, calls, result>> /\ OnlyServer(s)
        /\ applied'[s] = applied[s] + 1
    BY <1>4, ApplyCommandGives
  <2>2. UNCHANGED agreed /\ \A k \in DOMAIN calls : SameAnswer(k)
    BY <2>1 DEF logVars, SameAnswer
  <2>3. \A t \in Server : applied'[t] \in Nat /\ applied[t] <= applied'[t]
    BY <1>1, <2>1 DEF OnlyServer
  <2> QED BY <1>2, <1>3, <2>1, <2>2, <2>3
<1>5. CASE SaveSnapshot(s)
  <2>1. UNCHANGED <<logVars, clerk, calls, result, applied>>
    BY <1>5, SaveSnapshotGives
  <2>2. UNCHANGED agreed /\ \A k \in DOMAIN calls : SameAnswer(k)
    BY <2>1 DEF logVars, SameAnswer
  <2> QED BY <1>1, <1>2, <1>3, <2>1, <2>2
<1>6. CASE ReceiveSnapshot(s)
  <2>1. /\ UNCHANGED <<logVars, clerk, calls, result>> /\ OnlyServer(s) /\ Types'
        /\ applied[s] <= applied'[s]
    <3>1. /\ UNCHANGED <<logVars, clerk, calls, result>> /\ OnlyServer(s) /\ Types'
          /\ \E snap \in snapshots : applied[s] < snap.index /\ applied'[s] = snap.index
      BY <1>6, ReceiveSnapshotGives
    <3>2. applied'[s] \in Nat
      BY <3>1 DEF Types, ServerTypes
    <3> QED BY <1>1, <3>1, <3>2
  <2>2. UNCHANGED agreed /\ \A k \in DOMAIN calls : SameAnswer(k)
    BY <2>1 DEF logVars, SameAnswer
  <2>3. \A t \in Server : applied'[t] \in Nat /\ applied[t] <= applied'[t]
    BY <1>1, <2>1 DEF OnlyServer, Types, ServerTypes
  <2> QED BY <1>2, <1>3, <2>1, <2>2, <2>3
<1>7. CASE Notify(s)
  <2>1. /\ UNCHANGED <<logVars, applied, clerk, result>>
        /\ \E n \in loop[s].todo : LET k == notifyChs[s][n] IN
             \/ k \notin DOMAIN calls /\ calls' = calls
             \/ /\ k \in DOMAIN calls
                /\ CallMoves(k, calls[k].st, calls[k].index, <<loop[s].op>>, calls[k].reply)
    BY <1>7, NotifyGives
  <2>2. UNCHANGED agreed /\ \A k \in DOMAIN calls : SameAnswer(k)
    BY <2>1 DEF logVars, SameAnswer, CallMoves
  <2> QED BY <1>1, <1>2, <1>3, <2>1, <2>2
<1>8. CASE Restart(s)
  <2>1. /\ UNCHANGED <<agreed, clerk, result>> /\ OnlyServer(s)
        /\ \A k \in DOMAIN calls : DiesOrStays(s, k)
    BY <1>8, RestartGives
  <2>2. \A k \in DOMAIN calls :
          SameAnswer(k) \/ calls'[k].st \notin {"reading", "leaving", "replied"}
    BY <2>1 DEF DiesOrStays, SameAnswer
  <2>3. ASSUME NEW k \in DOMAIN calls, calls'[k].st = "reading"
        PROVE  /\ applied'[calls[k].server] \in Nat
               /\ applied[calls[k].server] <= applied'[calls[k].server]
    <3>1. calls[k].server # s
      BY <2>1, <2>3 DEF DiesOrStays
    <3> QED BY <1>1, <1>2, <2>1, <3>1 DEF OnlyServer
  <2> QED BY <1>3, <2>1, <2>2, <2>3
<1> QED BY <1>4, <1>5, <1>6, <1>7, <1>8 DEF ServerStep

\* A clerk that does not wait for a reply has nothing read yet.
LEMMA NotWaitingReads ==
  ASSUME NEW c, clerk'[c].st # "waiting",
         clerk'[c].st # "idle" => clerk'[c].since <= Len(agreed')
  PROVE  Reading(c)'
BY DEF Reading

\* The reads after a clerk's step.
LEMMA ClerkStepReads ==
  ASSUME Types, Agreeing, \A c \in Clerk : Reading(c), NEW c \in Clerk, ClerkStep(c)
  PROVE  UNCHANGED <<logVars, serverVars>> /\ \A d \in Clerk : Reading(d)'
<1>1. ASSUME UNCHANGED <<logVars, serverVars>>, \A d \in Clerk : d # c => clerk'[d] = clerk[d],
             \A k \in DOMAIN calls : calls'[k] = calls[k], Reading(c)'
      PROVE  \A d \in Clerk : Reading(d)'
  <2>1. UNCHANGED <<agreed, applied>>
    BY <1>1 DEF logVars, serverVars
  <2>2. Grows
    BY <2>1, SameLogGrows
  <2> QED BY <1>1, <2>1, <2>2, OthersRead
<1>2. clerk[c].st # "idle" => clerk[c].since <= Len(agreed)
  BY DEF Reading
<1>3. CASE Invoke(c)
  <2>1. /\ UNCHANGED <<logVars, serverVars, calls>> /\ clerk'[c].since = Len(agreed)
        /\ \A d \in Clerk : d # c => clerk'[d] = clerk[d]
        /\ clerk'[c].st = "trying"
    BY <1>3, InvokeGives
  <2>2. clerk'[c].since <= Len(agreed')
    BY <2>1 DEF logVars, Types, LogTypes
  <2> QED BY <1>1, <2>1, <2>2, NotWaitingReads
<1>4. ASSUME NEW s \in Server, CallServer(c, s)
      PROVE  UNCHANGED <<logVars, serverVars>> /\ \A d \in Clerk : Reading(d)'
  <2>1. /\ UNCHANGED <<logVars, serverVars>> /\ clerk'[c].since = clerk[c].since
        /\ \A d \in Clerk : d # c => clerk'[d] = clerk[d]
        /\ clerk[c].st = "trying" /\ clerk'[c].call = Len(calls) + 1
        /\ calls'[Len(calls) + 1] = SentCall(c, s)
        /\ \A k \in DOMAIN calls : calls'[k] = calls[k]
    BY <1>4, CallServerGives
  <2>2. calls'[clerk'[c].call].st = "sent"
    BY <2>1 DEF SentCall
  <2>3. clerk'[c].since <= Len(agreed')
    BY <1>2, <2>1 DEF logVars
  <2>4. Reading(c)'
    BY <2>2, <2>3 DEF Reading
  <2> QED BY <1>1, <2>1, <2>4
<1>5. CASE CallFails(c)
  <2>1. /\ UNCHANGED <<logVars, serverVars, calls>> /\ clerk'[c].since = clerk[c].since
        /\ \A d \in Clerk : d # c => clerk'[d] = clerk[d]
        /\ clerk[c].st = "waiting" /\ clerk'[c].st = "trying"
    BY <1>5, CallFailsGives
  <2>2. clerk'[c].since <= Len(agreed')
    BY <1>2, <2>1 DEF logVars
  <2> QED BY <1>1, <2>1, <2>2, NotWaitingReads
<1>6. CASE TakeReply(c)
  <2>1. clerk[c].st = "waiting" /\ clerk[c].call \in DOMAIN calls
    BY <1>6 DEF TakeReply, Agreeing, Clerking
  <2>2. /\ UNCHANGED <<logVars, serverVars, calls>> /\ clerk'[c].since = clerk[c].since
        /\ \A d \in Clerk : d # c => clerk'[d] = clerk[d]
        /\ clerk'[c].st \in {"idle", "trying"}
    BY <1>6, <2>1, TakeReplyGives
  <2>3. clerk'[c].since <= Len(agreed')
    BY <1>2, <2>1, <2>2 DEF logVars
  <2> QED BY <1>1, <2>2, <2>3, NotWaitingReads
<1> QED BY <1>3, <1>4, <1>5, <1>6 DEF ClerkStep

\* The reads after a step of the log.
LEMMA LogStepReads ==
  ASSUME Types, Agreeing, \A c \in Clerk : Reading(c), LogStep
  PROVE  Grows /\ UNCHANGED <<clerk, calls, result>> /\ \A c \in Clerk : Reading(c)'
<1>1. UNCHANGED <<serverVars, notifyChs, clerk, calls, result, restarts>>
  BY DEF LogStep
<1>2. Grows
  <2>1. CASE Agree
    BY <1>1, <2>1, AgreeGives DEF Grows
  <2>2. CASE UNCHANGED agreed
    BY <2>2, SameLogGrows
  <2> QED BY <2>1, <2>2 DEF LogStep, Elect, StepDown
<1>3. UNCHANGED applied
  BY <1>1 DEF serverVars
<1> QED BY <1>1, <1>2, <1>3, OthersRead

(***************************************************************************)
(* KVRaft implements AtomicMap, step by step.                              *)
(***************************************************************************)
\* What AtomicMap sees of clerk c.
Called(c) == IF clerk[c].st = "idle" THEN Nil ELSE clerk[c].op
TookEffect(c) == Calling(c, Writes) /\ \E n \in DOMAIN agreed : agreed[n].op = clerk[c].op
ValuesSeen(c) ==
  IF Calling(c, {"Get"})
    THEN {Stores[n][clerk[c].op.key] : n \in clerk[c].since .. Len(agreed)}
    ELSE {}

\* A command is not the zero one.
LEMMA OpIsNotNil == \A op \in Op : op # Nil
BY NilAssumption DEF Op, Kinds, Writes

\* The initial states are initial states of the map.
LEMMA MapInit == Init => Map!Init
<1> SUFFICES ASSUME Init PROVE Map!Init
  OBVIOUS
<1>1. /\ agreed = <<>> /\ Len(agreed) = 0 /\ result = [c \in Clerk |-> Nil]
      /\ \A c \in Clerk : clerk[c].st = "idle" /\ clerk[c].numOfOrders = 1
  BY DEF Init, LogInit, MakeClerk
<1>2. Stores[Len(agreed)] = [k \in Key |-> <<>>]
  BY <1>1, StoresGive DEF Stores, EmptyStore
<1> QED BY <1>1, <1>2 DEF Map!Init, Map!EmptyStore, Calling

\* A step that leaves what the clerks have called and the log alone is none of the map.
LEMMA MapStays ==
  ASSUME UNCHANGED <<agreed, result>>,
         \A c \in Clerk :
           /\ clerk'[c].numOfOrders = clerk[c].numOfOrders
           /\ clerk'[c].st = "idle" <=> clerk[c].st = "idle"
           /\ clerk[c].st # "idle" =>
                clerk'[c].op = clerk[c].op /\ clerk'[c].since = clerk[c].since
  PROVE  UNCHANGED Map!vars
<1>1. Stores' = Stores
  BY DEF Stores, StoresOf, Effect, FirstOccurrence
<1>2. ASSUME NEW c \in Clerk
      PROVE  /\ Called(c)' = Called(c) /\ TookEffect(c)' = TookEffect(c)
             /\ ValuesSeen(c)' = ValuesSeen(c)
  <2>1. CASE clerk[c].st = "idle"
    BY <2>1 DEF Called, TookEffect, ValuesSeen, Calling
  <2>2. CASE clerk[c].st # "idle"
    <3>1. /\ clerk'[c].st # "idle" /\ clerk'[c].op = clerk[c].op
          /\ clerk'[c].since = clerk[c].since /\ agreed' = agreed
      BY <2>2
    <3>2. \A kinds : Calling(c, kinds)' <=> Calling(c, kinds)
      BY <2>2, <3>1 DEF Calling
    <3>3. Called(c)' = Called(c)
      BY <2>2, <3>1 DEF Called
    <3>4. TookEffect(c)' = TookEffect(c)
      BY <3>1, <3>2 DEF TookEffect
    <3>5. ValuesSeen(c)' = ValuesSeen(c)
      BY <1>1, <3>1, <3>2 DEF ValuesSeen
    <3> QED BY <3>3, <3>4, <3>5
  <2> QED BY <2>1, <2>2
<1>3. /\ [c \in Clerk |-> Called(c)]' = [c \in Clerk |-> Called(c)]
      /\ [c \in Clerk |-> TookEffect(c)]' = [c \in Clerk |-> TookEffect(c)]
      /\ [c \in Clerk |-> ValuesSeen(c)]' = [c \in Clerk |-> ValuesSeen(c)]
      /\ [c \in Clerk |-> clerk[c].numOfOrders]' = [c \in Clerk |-> clerk[c].numOfOrders]
  BY <1>2
<1> QED BY <1>1, <1>3 DEF Map!vars, Called, TookEffect, ValuesSeen

\* A clerk that is called calls.
LEMMA InvokeCalls ==
  ASSUME Types, Agreeing, NEW c \in Clerk, Invoke(c)
  PROVE  Map!Next
<1>16. PICK kind : kind = Head(clerk[c].todo)[1]
  OBVIOUS
<1>17. PICK key : key = Head(clerk[c].todo)[2]
  OBVIOUS
<1> DEFINE num == clerk[c].numOfOrders
           op == [kind |-> kind, key |-> key, commiter |-> c,
                  pos |-> IF kind = "Get" THEN 0 ELSE num]
<1>1. /\ UNCHANGED <<logVars, result>>
      /\ \A d \in Clerk : d # c => clerk'[d] = clerk[d]
      /\ clerk[c].st = "idle" /\ clerk'[c].st = "trying"
      /\ clerk'[c].op = op /\ op \in Op /\ clerk'[c].since = Len(agreed)
      /\ clerk'[c].numOfOrders = num
  BY <1>16, <1>17, InvokeGives
<1>2. UNCHANGED agreed /\ Len(agreed) \in Nat /\ DOMAIN agreed = 1 .. Len(agreed)
  BY <1>1 DEF logVars, Types, LogTypes
<1>3. Stores' = Stores
  BY <1>2 DEF Stores, StoresOf, Effect, FirstOccurrence
<1>4. op.kind = kind /\ op.key = key /\ op.commiter = c /\ kind \in Kinds /\ key \in Key
      /\ op.pos = IF kind = "Get" THEN 0 ELSE num
  BY <1>1 DEF Op
<1> HIDE DEF op
<1>5. kind \in Writes => \A n \in DOMAIN agreed : agreed[n].op # op
  <2> SUFFICES ASSUME kind \in Writes, NEW n \in DOMAIN agreed, agreed[n].op = op PROVE FALSE
    OBVIOUS
  <2>1. Issued(op)
    BY EntryIssued
  <2>2. op.pos = num /\ num \in Nat
    BY <1>4 DEF Writes, Types, ClerkTypes, ClerkState
  <2> QED BY <1>1, <1>4, <2>1, <2>2 DEF Issued
<1>6. \A d \in Clerk : Called(d)' = IF d = c THEN op ELSE Called(d)
  BY <1>1 DEF Called
<1>7. Called(c) = Nil
  BY <1>1 DEF Called
<1>8. \A d \in Clerk : TookEffect(d)' = TookEffect(d)
  <2>1. \A d \in Clerk : d # c => TookEffect(d)' = TookEffect(d)
    BY <1>1, <1>2 DEF TookEffect, Calling
  <2>2. ~TookEffect(c) /\ ~TookEffect(c)'
    BY <1>1, <1>2, <1>4, <1>5 DEF TookEffect, Calling
  <2>3. TookEffect(c)' = TookEffect(c)
    BY <2>2 DEF TookEffect
  <2> QED BY <2>1, <2>3
<1>9. \A d \in Clerk : ValuesSeen(d)' =
        IF d = c THEN IF kind = "Get" THEN {Stores[Len(agreed)][key]} ELSE {} ELSE ValuesSeen(d)
  <2>1. \A d \in Clerk : d # c => ValuesSeen(d)' = ValuesSeen(d)
    BY <1>1, <1>2, <1>3 DEF ValuesSeen, Calling
  <2>2. CASE kind = "Get"
    <3>1. ValuesSeen(c)' = {Stores[n][key] : n \in Len(agreed) .. Len(agreed)}
      BY <1>1, <1>2, <1>3, <1>4, <2>2 DEF ValuesSeen, Calling
    <3>2. \A n : n \in Len(agreed) .. Len(agreed) <=> n = Len(agreed)
      BY <1>2
    <3> QED BY <2>1, <2>2, <3>1, <3>2
  <2>3. CASE kind # "Get"
    <3>1. ValuesSeen(c)' = {}
      BY <1>1, <1>4, <2>3 DEF ValuesSeen, Calling
    <3> QED BY <2>1, <2>3, <3>1
  <2> QED BY <2>2, <2>3
<1>10. op = [kind |-> kind, key |-> key, commiter |-> c,
             pos |-> IF kind \in Map!Writes THEN num ELSE 0]
  <2>1. (kind = "Get") <=> kind \notin Map!Writes
    BY <1>4 DEF Kinds, Writes, Map!Writes
  <2> QED BY <2>1 DEF op
<1>11. \A d \in Clerk : clerk'[d].numOfOrders = clerk[d].numOfOrders
  BY <1>1
<1>12. kind \in Map!Kinds
  BY <1>4 DEF Kinds, Writes, Map!Kinds, Map!Writes
<1> DEFINE called == [d \in Clerk |-> Called(d)]
           effective == [d \in Clerk |-> TookEffect(d)]
           seen == [d \in Clerk |-> ValuesSeen(d)]
           next == [d \in Clerk |-> clerk[d].numOfOrders]
<1>13. /\ called[c] = Nil /\ next[c] = num
       /\ called' = [called EXCEPT ![c] = op]
       /\ seen' = [seen EXCEPT ![c] = IF kind = "Get" THEN {Stores[Len(agreed)][key]} ELSE {}]
       /\ effective' = effective /\ next' = next
  BY <1>6, <1>7, <1>8, <1>9, <1>11
<1>14. Map!Call(c, kind, key)
  BY <1>1, <1>2, <1>3, <1>10, <1>13 DEF Map!Call, Called, TookEffect, ValuesSeen
<1> QED BY <1>4, <1>12, <1>14 DEF Map!Next

\* A clerk that takes a reply returns, if it is OK.
LEMMA TakeReplyReturns ==
  ASSUME Types, Agreeing, NEW c \in Clerk, Reading(c), TakeReply(c)
  PROVE  Map!Next \/ UNCHANGED Map!vars
<1>16. PICK k : k = clerk[c].call
  OBVIOUS
<1> DEFINE reply == calls[k].reply
           ok == reply.err = "OK"
           get == clerk[c].op.kind = "Get"
           num == clerk[c].numOfOrders
<1>1. /\ clerk[c].st = "waiting" /\ Clerking(c) /\ clerk[c].op \in Op /\ num \in Nat
      /\ clerk[c].op # Nil
  BY OpIsNotNil DEF TakeReply, Agreeing, Clerking, Types, ClerkTypes, ClerkState
<1>2. k \in DOMAIN calls /\ calls[k].op = clerk[c].op
  BY <1>1, <1>16 DEF Clerking
<1>3. /\ UNCHANGED <<logVars, calls>>
      /\ \A d \in Clerk : d # c => clerk'[d] = clerk[d] /\ result'[d] = result[d]
      /\ calls[k].st = "replied"
      /\ clerk'[c].st = IF ok THEN "idle" ELSE "trying"
      /\ clerk'[c].op = clerk[c].op /\ clerk'[c].since = clerk[c].since
      /\ clerk'[c].numOfOrders = IF ok /\ ~get THEN num + 1 ELSE num
      /\ result'[c] = IF ok /\ get THEN reply.value ELSE result[c]
      /\ result \in [Clerk -> Value \cup {Nil}] /\ result' \in [Clerk -> Value \cup {Nil}]
  <2>1. Types'
    BY <1>2, <1>16, TakeReplyGives
  <2> QED BY <1>2, <1>16, <2>1, TakeReplyGives DEF Types, ClerkTypes
<1>4. UNCHANGED agreed /\ Stores' = Stores
  BY <1>3 DEF logVars, Stores, StoresOf, Effect, FirstOccurrence
<1>5. ASSUME NEW d \in Clerk, d # c
      PROVE  /\ Called(d)' = Called(d) /\ TookEffect(d)' = TookEffect(d)
             /\ ValuesSeen(d)' = ValuesSeen(d)
  <2>1. clerk'[d] = clerk[d]
    BY <1>3, <1>5
  <2> QED BY <1>4, <2>1 DEF Called, TookEffect, ValuesSeen, Calling
<1>6. Called(c) = clerk[c].op
  BY <1>1 DEF Called
<1>7. CASE ~ok
  <2>1. clerk'[c].st = "trying" /\ clerk'[c].numOfOrders = num /\ result'[c] = result[c]
    BY <1>3, <1>7
  <2>2. UNCHANGED result
    BY <1>3, <2>1
  <2> QED BY <1>1, <1>3, <1>4, <2>1, <2>2, MapStays
<1> DEFINE called == [d \in Clerk |-> Called(d)]
           effective == [d \in Clerk |-> TookEffect(d)]
           seen == [d \in Clerk |-> ValuesSeen(d)]
           next == [d \in Clerk |-> clerk[d].numOfOrders]
<1>8. ASSUME ok
      PROVE  Called(c)' = Nil /\ ~TookEffect(c)' /\ ValuesSeen(c)' = {}
  BY <1>3, <1>8 DEF Called, TookEffect, ValuesSeen, Calling
<1>9. TookEffect(c) \in BOOLEAN /\ TookEffect(c)' \in BOOLEAN
  BY DEF TookEffect
<1>10. CASE ok /\ ~get
  <2>1. clerk[c].op.kind \in Writes
    BY <1>1, <1>10 DEF Op, Kinds
  <2>2. AgreedOn(clerk[c].op)
    BY <1>2, <1>3, <1>10, <2>1 DEF Agreeing, Handling
  <2>3. TookEffect(c) /\ ValuesSeen(c) = {}
    BY <1>1, <2>1, <2>2 DEF TookEffect, ValuesSeen, Calling, AgreedOn, Writes
  <2>4. /\ called' = [called EXCEPT ![c] = Nil]
        /\ effective' = [effective EXCEPT ![c] = FALSE]
        /\ seen' = seen
        /\ next' = [next EXCEPT ![c] = @ + 1]
        /\ called[c] = clerk[c].op /\ effective[c]
    <3>1. \A d \in Clerk : Called(d)' = IF d = c THEN Nil ELSE Called(d)
      BY <1>5, <1>8, <1>10
    <3>2. \A d \in Clerk : ValuesSeen(d)' = ValuesSeen(d)
      BY <1>5, <1>8, <1>10, <2>3
    <3>3. \A d \in Clerk : clerk'[d].numOfOrders =
            IF d = c THEN clerk[d].numOfOrders + 1 ELSE clerk[d].numOfOrders
      BY <1>3, <1>10
    <3>4. \A d \in Clerk : TookEffect(d)' = IF d = c THEN FALSE ELSE TookEffect(d)
      BY <1>5, <1>8, <1>9, <1>10
    <3>5. effective' = [effective EXCEPT ![c] = FALSE]
      BY <3>4
    <3>6. next' = [next EXCEPT ![c] = @ + 1]
      BY <3>3
    <3> QED BY <1>6, <2>3, <3>1, <3>2, <3>5, <3>6
  <2>5. result' = result
    BY <1>3, <1>10
  <2>6. Map!Writing(c)
    <3>1. called[c] # Nil /\ called[c].kind \in Map!Writes
      BY <1>1, <2>1, <2>4 DEF Writes, Map!Writes
    <3> QED BY <3>1 DEF Map!Writing, Called
  <2>7. Map!ReturnWrite(c)
    BY <1>4, <2>4, <2>5, <2>6 DEF Map!ReturnWrite, Called, TookEffect, ValuesSeen
  <2> QED BY <2>7 DEF Map!Next
<1>11. CASE ok /\ get
  <2>1. reply.value \in ValuesSeen(c)
    <3>1. Current(k, clerk[c].since)
      BY <1>1, <1>3, <1>11, <1>16 DEF Reading
    <3> QED BY <1>1, <1>2, <1>11, <3>1 DEF Current, ValuesSeen, Calling
  <2>2. ~TookEffect(c)
    BY <1>11 DEF TookEffect, Calling, Writes
  <2>3. /\ called' = [called EXCEPT ![c] = Nil]
        /\ effective' = effective
        /\ seen' = [seen EXCEPT ![c] = {}]
        /\ next' = next
        /\ called[c] = clerk[c].op /\ seen[c] = ValuesSeen(c)
    <3>1. \A d \in Clerk : Called(d)' = IF d = c THEN Nil ELSE Called(d)
      BY <1>5, <1>8, <1>11
    <3>2. \A d \in Clerk : ValuesSeen(d)' = IF d = c THEN {} ELSE ValuesSeen(d)
      BY <1>5, <1>8, <1>11
    <3>3. \A d \in Clerk : clerk'[d].numOfOrders = clerk[d].numOfOrders
      BY <1>3, <1>11
    <3>4. TookEffect(c)' = TookEffect(c)
      BY <1>8, <1>9, <1>11, <2>2
    <3>5. effective' = effective
      BY <1>5, <3>4
    <3> QED BY <1>6, <3>1, <3>2, <3>3, <3>5
  <2>4. result' = [result EXCEPT ![c] = reply.value]
    BY <1>3, <1>11
  <2>5. Map!Reading(c)
    <3>1. called[c] # Nil /\ called[c].kind = "Get"
      BY <1>1, <1>11, <2>3
    <3> QED BY <3>1 DEF Map!Reading, Called
  <2>6. \E v \in seen[c] : result' = [result EXCEPT ![c] = v]
    BY <2>1, <2>3, <2>4
  <2> HIDE DEF reply
  <2>7. Map!ReturnRead(c)
    BY <1>4, <2>3, <2>5, <2>6 DEF Map!ReturnRead, Called, TookEffect, ValuesSeen
  <2> QED BY <2>7 DEF Map!Next
<1> QED BY <1>7, <1>10, <1>11

\* The map after one more entry.
LEMMA OneMoreEntry ==
  ASSUME Grows, NEW N \in Nat, N = Len(agreed), Len(agreed') = N + 1
  PROVE  /\ \A n \in 0 .. N : Stores'[n] = Stores[n]
         /\ Stores'[N + 1] = Effect(Stores[N], agreed', N + 1)
<1> DEFINE a == agreed
           b == agreed'
<1>1. /\ Len(a) \in Nat /\ Len(b) \in Nat /\ Len(a) <= Len(b)
      /\ \A i \in 1 .. Len(a) : a[i] = b[i] /\ Len(a) = N /\ Len(b) = N + 1
  BY DEF Grows
<1>2. Len(a) = N /\ Len(b) = N + 1
  OBVIOUS
<1> HIDE DEF a, b
<1>3. \A i \in 0 .. N : StoresOf(b)[i] = StoresOf(a)[i]
  BY <1>1, <1>2, StoresKept
<1>4. StoresOf(b)[N + 1] = Effect(StoresOf(b)[N + 1 - 1], b, N + 1)
  <2>1. N + 1 \in 1 .. Len(b)
    BY <1>2
  <2> QED BY <1>1, <2>1, StoresGive
<1>5. N + 1 - 1 = N /\ N \in 0 .. N
  OBVIOUS
<1> QED BY <1>3, <1>4, <1>5 DEF a, b, Stores

\* An entry is agreed on: a write takes effect, if it is the first entry with it.
LEMMA AgreeTakesEffect ==
  ASSUME Types, Agreeing, \A c \in Clerk : Reading(c), Agree,
         UNCHANGED <<serverVars, notifyChs, clerk, calls, result, restarts>>
  PROVE  Map!Next \/ UNCHANGED Map!vars
<1>1. PICK N \in Nat : N = Len(agreed)
  BY DEF Types, LogTypes
<1>2. /\ DOMAIN agreed = 1 .. N /\ Len(agreed') = N + 1 /\ DOMAIN agreed' = 1 .. N + 1
      /\ \A n \in 1 .. N : agreed'[n] = agreed[n]
      /\ agreed'[N + 1] \in Entry
      /\ \E s \in Server : \E n \in DOMAIN view[s] : agreed'[N + 1] = view[s][n]
  BY <1>1, AgreeGives
<1>3. Grows
  BY <1>1, <1>2 DEF Grows
<1>4. PICK op : op = agreed'[N + 1].op
  OBVIOUS
<1>5. op \in Op /\ Issued(op)
  <2>1. op \in Op
    BY <1>2, <1>4 DEF Entry
  <2>2. IsCommand(op)
    BY <1>2, <1>4 DEF IsCommand
  <2> QED BY <2>1, <2>2 DEF Agreeing, AllIssued
<1>6. PICK store : store = Stores[N]
  OBVIOUS
<1>7. PICK new : new = Stores'[N + 1]
  OBVIOUS
<1>8. \A n \in 0 .. N : Stores'[n] = Stores[n]
  BY <1>1, <1>2, <1>3, OneMoreEntry
<1> DEFINE first == op.kind \in Writes /\ \A n \in 1 .. N : agreed[n].op # op
<1>9. new = Effect(store, agreed', N + 1)
  BY <1>1, <1>2, <1>3, <1>6, <1>7, OneMoreEntry
<1>10. FirstOccurrence(agreed', N + 1) <=> \A n \in 1 .. N : agreed[n].op # op
  <2>1. N + 1 - 1 = N
    OBVIOUS
  <2> QED BY <1>2, <1>4, <2>1 DEF FirstOccurrence
<1>11. ~first => new = store
  <2>1. op.kind = "Get" \/ op.kind \in Writes
    BY <1>5 DEF Op, Kinds
  <2> QED BY <1>4, <1>9, <1>10, <2>1 DEF Effect
<1>12. first => new = [store EXCEPT ![op.key] =
         IF op.kind = "Put" THEN <<<<op.commiter, op.pos>>>>
                            ELSE Append(@, <<op.commiter, op.pos>>)]
  BY <1>4, <1>9, <1>10 DEF Effect, Writes
<1>13. \A d \in Clerk : Called(d)' = Called(d)
  BY DEF Called
<1>14. ASSUME NEW d \in Clerk
       PROVE  TookEffect(d)' <=> TookEffect(d) \/ (Calling(d, Writes) /\ op = clerk[d].op)
  <2>1. ASSUME NEW x
        PROVE  (\E n \in DOMAIN agreed' : agreed'[n].op = x)
               <=> (\E n \in DOMAIN agreed : agreed[n].op = x) \/ op = x
    BY <1>2, <1>4
  <2> QED BY <2>1 DEF TookEffect, Calling
<1>15. ASSUME NEW d \in Clerk, Calling(d, {"Get"})
       PROVE  /\ ValuesSeen(d)' = ValuesSeen(d) \cup {new[clerk[d].op.key]}
              /\ store[clerk[d].op.key] \in ValuesSeen(d)
  <2>1. PICK since : since = clerk[d].since
    OBVIOUS
  <2>2. since \in Nat /\ since <= N
    BY <1>1, <1>15, <2>1 DEF Calling, Reading, Types, ClerkTypes, ClerkState
  <2>3. PICK key : key = clerk[d].op.key
    OBVIOUS
  <2>4. ValuesSeen(d) = {Stores[n][key] : n \in since .. N}
    BY <1>1, <1>15, <2>1, <2>3 DEF ValuesSeen
  <2>5. ValuesSeen(d)' = {Stores'[n][key] : n \in since .. N + 1}
    BY <1>2, <1>15, <2>1, <2>3 DEF ValuesSeen, Calling
  <2>6. \A n \in since .. N : n \in 0 .. N /\ n \in since .. N + 1
    BY <2>2
  <2>7. \A n \in since .. N + 1 : n \in since .. N \/ n = N + 1
    BY <2>2
  <2>8. N + 1 \in since .. N + 1 /\ N \in since .. N
    BY <2>2
  <2> QED BY <1>6, <1>7, <1>8, <2>3, <2>4, <2>5, <2>6, <2>7, <2>8
<1>16. ASSUME NEW d \in Clerk, ~Calling(d, {"Get"})
       PROVE  ValuesSeen(d)' = ValuesSeen(d)
  BY <1>16 DEF ValuesSeen, Calling
<1>17. Stores[Len(agreed)] = store /\ (Stores[Len(agreed)])' = new
  BY <1>1, <1>2, <1>6, <1>7
<1> DEFINE called == [d \in Clerk |-> Called(d)]
           effective == [d \in Clerk |-> TookEffect(d)]
           seen == [d \in Clerk |-> ValuesSeen(d)]
           next == [d \in Clerk |-> clerk[d].numOfOrders]
<1>18. called' = called /\ next' = next /\ result' = result
  BY <1>13
<1>19. \A d \in Clerk : TookEffect(d) \in BOOLEAN /\ TookEffect(d)' \in BOOLEAN
  BY DEF TookEffect
<1>20. CASE ~first
  <2>1. seen' = seen
    <3>1. \A d \in Clerk : ValuesSeen(d)' = ValuesSeen(d)
      BY <1>11, <1>15, <1>16, <1>20
    <3> QED BY <3>1
  <2>2. effective' = effective
    <3>1. ASSUME NEW d \in Clerk, Calling(d, Writes), op = clerk[d].op
          PROVE  TookEffect(d)
      BY <1>2, <1>20, <3>1 DEF TookEffect, Calling
    <3>2. \A d \in Clerk : TookEffect(d)' <=> TookEffect(d)
      BY <1>14, <3>1
    <3>3. \A d \in Clerk : TookEffect(d)' = TookEffect(d)
      BY <1>19, <3>2
    <3> QED BY <3>3
  <2>3. (Stores[Len(agreed)])' = Stores[Len(agreed)]
    BY <1>11, <1>17, <1>20
  <2> QED BY <1>18, <2>1, <2>2, <2>3 DEF Map!vars, Called, TookEffect, ValuesSeen
<1>21. CASE first
  <2>1. PICK c \in Clerk : c = op.commiter
    BY <1>5 DEF Op
  <2>2. clerk[c].st # "idle" /\ clerk[c].op = op
    BY <1>2, <1>5, <1>21, <2>1 DEF Issued, AgreedOn
  <2>3. called[c] = op /\ op # Nil
    BY <1>5, <2>2, OpIsNotNil DEF Called
  <2>4. Map!Writing(c)
    <3>1. called[c] # Nil /\ called[c].kind \in Map!Writes
      BY <1>21, <2>3 DEF Writes, Map!Writes
    <3> QED BY <3>1 DEF Map!Writing, Called
  <2>5. ~effective[c]
    <3>1. ~TookEffect(c)
      BY <1>2, <1>21, <2>2 DEF TookEffect
    <3> QED BY <3>1
  <2>6. effective' = [effective EXCEPT ![c] = TRUE]
    <3>1. TookEffect(c)'
      BY <1>14, <1>21, <2>2 DEF Calling
    <3>2. ASSUME NEW d \in Clerk, d # c PROVE op # clerk[d].op \/ clerk[d].st = "idle"
      BY <2>1, <3>2 DEF Agreeing, Clerking
    <3>3. \A d \in Clerk : d # c => (TookEffect(d)' <=> TookEffect(d))
      BY <1>14, <3>2 DEF Calling
    <3>4. \A d \in Clerk : TookEffect(d)' = IF d = c THEN TRUE ELSE TookEffect(d)
      BY <1>19, <3>1, <3>3
    <3> QED BY <3>4
  <2>7. new = Map!Execute(store, op)
    <3>1. op.kind \in {"Put", "Append"}
      BY <1>21 DEF Writes
    <3> QED BY <1>12, <1>21, <3>1 DEF Map!Execute
  <2>8. ASSUME NEW d \in Clerk
        PROVE  Calling(d, {"Get"}) <=> called[d] # Nil /\ called[d].kind = "Get"
    <3>1. clerk[d].st # "idle" => clerk[d].op # Nil
      BY OpIsNotNil DEF Types, ClerkTypes
    <3> QED BY <3>1 DEF Calling, Called
  <2>9. seen' = [d \in Clerk |-> IF called[d] # Nil /\ called[d].kind = "Get"
                                   THEN seen[d] \cup {new[called[d].key]} ELSE seen[d]]
    <3>1. \A d \in Clerk : Calling(d, {"Get"}) => called[d].key = clerk[d].op.key
      BY DEF Calling, Called
    <3>2. \A d \in Clerk : ValuesSeen(d)' = IF called[d] # Nil /\ called[d].kind = "Get"
                             THEN ValuesSeen(d) \cup {new[called[d].key]} ELSE ValuesSeen(d)
      BY <1>15, <1>16, <2>8, <3>1
    <3> QED BY <3>2
  <2>10. Map!TakeEffect(c)
    BY <1>17, <1>18, <2>3, <2>4, <2>5, <2>6, <2>7, <2>9
    DEF Map!TakeEffect, Map!Reading, Called, TookEffect, ValuesSeen
  <2> QED BY <2>10 DEF Map!Next
<1> QED BY <1>20, <1>21

\* No clerk has read anything at first.
LEMMA ReadingInit == Init => \A c \in Clerk : Reading(c)
<1>1. Init => \A c \in Clerk : clerk[c].st = "idle"
  BY DEF Init, MakeClerk
<1> QED BY <1>1 DEF Reading

\* Every step is one of the map, or none.
LEMMA MapStep ==
  ASSUME Types, Agreeing, \A c \in Clerk : Reading(c), NoOldGet, ~LateSnapshots, [Next]_vars
  PROVE  (\A c \in Clerk : Reading(c)') /\ [Map!Next]_(Map!vars)
<1>1. ASSUME NEW c \in Clerk, ClerkStep(c)
      PROVE  (\A d \in Clerk : Reading(d)') /\ [Map!Next]_(Map!vars)
  <2>1. UNCHANGED agreed /\ \A d \in Clerk : Reading(d)'
    BY <1>1, ClerkStepReads DEF logVars
  <2>2. CASE Invoke(c)
    BY <2>1, <2>2, InvokeCalls
  <2>3. ASSUME NEW s \in Server, CallServer(c, s) PROVE UNCHANGED Map!vars
    <3>1. /\ UNCHANGED result /\ \A d \in Clerk : d # c => clerk'[d] = clerk[d]
          /\ clerk[c].st = "trying" /\ clerk'[c].st = "waiting"
          /\ clerk'[c].op = clerk[c].op /\ clerk'[c].since = clerk[c].since
          /\ clerk'[c].numOfOrders = clerk[c].numOfOrders
      BY <2>3, CallServerGives
    <3> QED BY <2>1, <3>1, MapStays
  <2>4. CASE CallFails(c)
    <3>1. /\ UNCHANGED result /\ \A d \in Clerk : d # c => clerk'[d] = clerk[d]
          /\ clerk[c].st = "waiting" /\ clerk'[c].st = "trying"
          /\ clerk'[c].op = clerk[c].op /\ clerk'[c].since = clerk[c].since
          /\ clerk'[c].numOfOrders = clerk[c].numOfOrders
      BY <2>4, CallFailsGives
    <3>2. UNCHANGED Map!vars
      BY <2>1, <3>1, MapStays
    <3> QED BY <2>1, <3>2
  <2>5. CASE TakeReply(c)
    BY <2>1, <2>5, TakeReplyReturns
  <2> QED BY <1>1, <2>1, <2>2, <2>3, <2>4, <2>5 DEF ClerkStep
<1>2. ASSUME NEW k \in DOMAIN calls, HandlerStep(k)
      PROVE  (\A c \in Clerk : Reading(c)') /\ UNCHANGED Map!vars
  <2>1. UNCHANGED <<agreed, clerk, result>> /\ \A c \in Clerk : Reading(c)'
    BY <1>2, HandlerStepReads
  <2> QED BY <2>1, MapStays
<1>3. ASSUME NEW s \in Server, ServerStep(s)
      PROVE  (\A c \in Clerk : Reading(c)') /\ UNCHANGED Map!vars
  <2>1. UNCHANGED <<agreed, clerk, result>> /\ \A c \in Clerk : Reading(c)'
    BY <1>3, ServerStepReads
  <2> QED BY <2>1, MapStays
<1>4. ASSUME LogStep PROVE (\A c \in Clerk : Reading(c)') /\ [Map!Next]_(Map!vars)
  <2>1. /\ UNCHANGED <<serverVars, notifyChs, clerk, calls, result, restarts>>
        /\ \A c \in Clerk : Reading(c)'
    BY <1>4, LogStepReads DEF LogStep
  <2>2. CASE Agree
    BY <2>1, <2>2, AgreeTakesEffect
  <2>3. CASE UNCHANGED agreed
    BY <2>1, <2>3, MapStays
  <2> QED BY <1>4, <2>1, <2>2, <2>3 DEF LogStep, Elect, StepDown
<1>5. ASSUME UNCHANGED vars PROVE (\A c \in Clerk : Reading(c)') /\ UNCHANGED Map!vars
  <2>1. UNCHANGED <<agreed, serverVars, clerk, calls, result>>
    BY <1>5 DEF vars, logVars
  <2>2. UNCHANGED applied
    BY <2>1 DEF serverVars
  <2>3. \A c \in Clerk : Reading(c)'
    BY <2>1, <2>2, SameLogGrows, OthersRead
  <2> QED BY <2>1, <2>3, MapStays
<1> QED BY <1>1, <1>2, <1>3, <1>4, <1>5 DEF Next

\* As long as no snapshot comes late and no Get takes the entry of an older Get of its
\* clerk for its own, clerks see an atomic map: every write takes effect exactly once,
\* between its call and its return, and a read returns what the key was at some instant
\* between the two, whatever retries, crashes and elections there are (client.go:37-120,
\* server.go:100-242, 255-321).
THEOREM ClerksSeeAMap == ASSUME ~LateSnapshots PROVE Spec /\ []NoOldGet => Linearizable
<1> DEFINE Inv == Types /\ Agreeing
           Reads == \A c \in Clerk : Reading(c)
<1>1. Init => Reads /\ Map!Init
  BY ReadingInit, MapInit
<1>2. Inv /\ Reads /\ NoOldGet /\ [Next]_vars => Reads' /\ [Map!Next]_(Map!vars)
  BY MapStep
<1>3. Spec => []Inv
  BY AgreeingAlways
<1> HIDE DEF Inv, Reads
<1> QED BY <1>1, <1>2, <1>3, PTL DEF Spec, Linearizable, Map!Spec

(***************************************************************************)
(* Clerks that call Get once: nothing is taken for an older Get.           *)
(***************************************************************************)
\* A handler's step makes no command.
LEMMA HandlerCommands ==
  ASSUME Types, NEW k \in DOMAIN calls, HandlerStep(k), NEW op, IsCommand(op)'
  PROVE  UNCHANGED <<agreed, clerk>> /\ IsCommand(op)
<1>1. ASSUME UNCHANGED <<agreed, clerk>>, Starts(calls[k].op),
             NEW st, NEW index, NEW ch, NEW reply, CallMoves(k, st, index, ch, reply)
      PROVE  IsCommand(op)
  <2>1. CASE \E n \in DOMAIN agreed' : op = agreed'[n].op
    BY <1>1, <2>1 DEF IsCommand
  <2>2. CASE \E s \in Server : \E n \in DOMAIN view'[s] : op = view'[s][n].op
    BY <1>1, <2>2 DEF IsCommand, Starts
  <2>3. CASE \E p \in proposed' : op = p.entry.op
    BY <1>1, <2>3 DEF IsCommand, Starts
  <2>4. CASE \E j \in DOMAIN calls' : op = calls'[j].op
    BY <1>1, <2>4 DEF IsCommand, CallMoves
  <2> QED BY <2>1, <2>2, <2>3, <2>4 DEF IsCommand
<1>2. UNCHANGED logVars => UNCHANGED agreed /\ Starts(calls[k].op)
  BY DEF logVars, Starts
<1>3. CASE CheckDuplicate(k)
  BY <1>1, <1>2, <1>3, CheckDuplicateGives
<1>4. CASE NotLeader(k)
  BY <1>1, <1>2, <1>4, NotLeaderGives
<1>5. CASE StartWrite(k)
  BY <1>1, <1>5, StartWriteGives
<1>6. CASE Register(k)
  BY <1>1, <1>2, <1>6, RegisterGives
<1>7. CASE StartRead(k)
  BY <1>1, <1>7, StartReadGives
<1>8. CASE Notified(k)
  BY <1>1, <1>2, <1>8, NotifiedGives
<1>9. CASE TimesOut(k)
  BY <1>1, <1>2, <1>9, TimesOutGives
<1>10. CASE Read(k)
  BY <1>1, <1>2, <1>10, ReadGives
<1>11. CASE Leave(k)
  BY <1>1, <1>2, <1>11, LeaveGives
<1> QED BY <1>3, <1>4, <1>5, <1>6, <1>7, <1>8, <1>9, <1>10, <1>11 DEF HandlerStep

\* A server's step makes no command.
LEMMA ServerCommands ==
  ASSUME Types, ~LateSnapshots, NEW s \in Server, ServerStep(s), NEW op, IsCommand(op)'
  PROVE  UNCHANGED <<agreed, clerk>> /\ IsCommand(op)
<1>1. ASSUME UNCHANGED <<agreed, view, proposed>>, DOMAIN calls' = DOMAIN calls,
             \A k \in DOMAIN calls : calls'[k].op = calls[k].op
      PROVE  IsCommand(op)
  BY <1>1 DEF IsCommand
<1>2. UNCHANGED logVars => UNCHANGED <<agreed, view, proposed>>
  BY DEF logVars
<1>3. CASE ApplyCommand(s)
  BY <1>1, <1>2, <1>3, ApplyCommandGives
<1>4. CASE SaveSnapshot(s)
  BY <1>1, <1>2, <1>4, SaveSnapshotGives
<1>5. CASE ReceiveSnapshot(s)
  BY <1>1, <1>2, <1>5, ReceiveSnapshotGives
<1>6. CASE Notify(s)
  <2>1. /\ UNCHANGED <<logVars, clerk>>
        /\ \E n \in loop[s].todo : LET k == notifyChs[s][n] IN
             \/ k \notin DOMAIN calls /\ calls' = calls
             \/ /\ k \in DOMAIN calls
                /\ CallMoves(k, calls[k].st, calls[k].index, <<loop[s].op>>, calls[k].reply)
    BY <1>6, NotifyGives
  <2>2. DOMAIN calls' = DOMAIN calls /\ \A k \in DOMAIN calls : calls'[k].op = calls[k].op
    BY <2>1 DEF CallMoves
  <2> QED BY <1>1, <1>2, <2>1, <2>2
<1>7. CASE Restart(s)
  <2>1. /\ UNCHANGED <<agreed, view, proposed, clerk>> /\ DOMAIN calls' = DOMAIN calls
        /\ \A k \in DOMAIN calls : DiesOrStays(s, k)
    BY <1>7, RestartGives
  <2>2. \A k \in DOMAIN calls : calls'[k].op = calls[k].op
    BY <2>1 DEF DiesOrStays
  <2> QED BY <1>1, <2>1, <2>2
<1> QED BY <1>3, <1>4, <1>5, <1>6, <1>7 DEF ServerStep

\* A step of the log makes no command.
LEMMA LogCommands ==
  ASSUME Types, LogStep, NEW op, IsCommand(op)'
  PROVE  IsCommand(op)
<1>1. UNCHANGED <<serverVars, notifyChs, clerk, calls, result, restarts>>
  BY DEF LogStep
<1>2. CASE \E j \in DOMAIN calls' : op = calls'[j].op
  BY <1>1, <1>2 DEF IsCommand
<1>3. CASE Agree
  <2>1. /\ UNCHANGED <<view, proposed>>
        /\ Len(agreed) \in Nat /\ DOMAIN agreed = 1 .. Len(agreed)
        /\ DOMAIN agreed' = 1 .. Len(agreed) + 1
        /\ \A n \in 1 .. Len(agreed) : agreed'[n] = agreed[n]
        /\ \E s \in Server : \E n \in DOMAIN view[s] : agreed'[Len(agreed) + 1] = view[s][n]
    BY <1>1, <1>3, AgreeGives
  <2>2. \A n \in DOMAIN agreed' : n \in DOMAIN agreed \/ n = Len(agreed) + 1
    BY <2>1
  <2>3. CASE \E n \in DOMAIN agreed' : op = agreed'[n].op
    BY <2>1, <2>2, <2>3 DEF IsCommand
  <2> QED BY <1>2, <2>1, <2>3 DEF IsCommand
<1>4. ASSUME NEW s \in Server, Elect(s) PROVE IsCommand(op)
  <2>1. /\ UNCHANGED <<agreed, proposed>>
        /\ \A t \in Server : t # s => view'[t] = view[t]
        /\ \A n \in DOMAIN view'[s] :
             \/ n \in DOMAIN agreed /\ view'[s][n] = agreed[n]
             \/ \E p \in proposed : view'[s][n] = p.entry
    BY <1>1, <1>4, ElectGives
  <2>2. CASE \E t \in Server : \E n \in DOMAIN view'[t] : op = view'[t][n].op
    <3>1. PICK t \in Server : \E n \in DOMAIN view'[t] : op = view'[t][n].op
      BY <2>2
    <3>2. PICK n \in DOMAIN view'[t] : op = view'[t][n].op
      BY <3>1
    <3>3. CASE t = s
      BY <2>1, <3>2, <3>3 DEF IsCommand
    <3>4. CASE t # s
      BY <2>1, <3>2, <3>4 DEF IsCommand
    <3> QED BY <3>3, <3>4
  <2> QED BY <1>2, <2>1, <2>2 DEF IsCommand
<1>5. CASE UNCHANGED <<agreed, view, proposed>>
  BY <1>1, <1>5 DEF IsCommand
<1> QED BY <1>3, <1>4, <1>5 DEF LogStep, StepDown

\* A step of another kind than a call makes no Get.
LEMMA OneGetKept ==
  ASSUME Types, Grows, NEW c \in Clerk, Reading(c), OneGet(c),
         clerk'[c].todo = clerk[c].todo,
         clerk'[c].st # "idle" => /\ clerk[c].st # "idle" /\ clerk'[c].op = clerk[c].op
                                  /\ clerk'[c].since = clerk[c].since,
         \A op \in Op : GetOf(op, c) /\ Known(op)' => Known(op)
  PROVE  OneGet(c)'
<1>1. ASSUME clerk'[c].st # "idle", clerk'[c].op.kind = "Get", NEW n \in 1 .. clerk'[c].since
      PROVE  ~GetOf(agreed'[n].op, c)
  <2>1. clerk[c].since <= Len(agreed) /\ n \in 1 .. clerk[c].since /\ clerk[c].since \in Nat
    BY <1>1 DEF Reading, Types, ClerkTypes, ClerkState
  <2>2. agreed'[n] = agreed[n]
    BY <2>1 DEF Grows
  <2> QED BY <1>1, <2>1, <2>2 DEF OneGet
<1> QED BY <1>1 DEF OneGet, GetOf

\* Then NoOldGet holds.
LEMMA OneGetIsNotOld ==
  ASSUME Types, Agreeing, \A c \in Clerk : OneGet(c)
  PROVE  NoOldGet
<1> SUFFICES ASSUME NEW c \in Clerk, clerk[c].st = "waiting",
                    At(clerk[c].call, "waiting", {"Get"}),
                    calls[clerk[c].call].index \in 1 .. clerk[c].since
    PROVE  ~GetOf(agreed[calls[clerk[c].call].index].op, c)
  BY Zenon DEF NoOldGet, GetOf
<1>1. clerk[c].op.kind = "Get"
  BY DEF Agreeing, Clerking, At
<1> QED BY <1>1 DEF OneGet

\* At first no command is known.
LEMMA OneGetInit == ASSUME OneGetEach PROVE Init => \A c \in Clerk : OneGet(c)
<1> SUFFICES ASSUME Init, NEW c \in Clerk PROVE OneGet(c)
  OBVIOUS
<1>1. PICK scenario \in Scenarios :
        clerk = [d \in Clerk |-> MakeClerk(scenario.program[d], scenario.rpcs[d])]
  BY DEF Init
<1>2. clerk[c].todo = scenario.program[c] /\ \A d \in Clerk : clerk[d].st = "idle"
  BY <1>1 DEF MakeClerk
<1>3. \A i, j \in DOMAIN clerk[c].todo :
        clerk[c].todo[i][1] = "Get" /\ clerk[c].todo[j][1] = "Get" => i = j
  BY <1>2 DEF OneGetEach
<1>4. agreed = <<>> /\ proposed = {} /\ calls = <<>> /\ \A s \in Server : view[s] = <<>>
  BY DEF Init, LogInit
<1>5. \A op \in Op : ~Known(op)
  BY <1>2, <1>4 DEF Known, IsCommand
<1> QED BY <1>2, <1>3, <1>5 DEF OneGet

\* What is left of a program after its first call.
LEMMA Remaining ==
  ASSUME NEW S, NEW p \in Seq(S), p # <<>>
  PROVE  /\ 1 \in DOMAIN p /\ Head(p) = p[1]
         /\ \A i \in DOMAIN Tail(p) : i + 1 \in DOMAIN p /\ i + 1 # 1 /\ Tail(p)[i] = p[i + 1]
         /\ \A i, j \in DOMAIN Tail(p) : i + 1 = j + 1 => i = j
OBVIOUS

\* When a clerk is called, what it calls is new.
LEMMA InvokeOneGet ==
  ASSUME Types, Agreeing, \A c \in Clerk : Reading(c), \A c \in Clerk : OneGet(c),
         NEW c \in Clerk, Invoke(c)
  PROVE  \A d \in Clerk : OneGet(d)'
<1>1. PICK new : new = clerk'[c].op
  OBVIOUS
<1>2. PICK todo : todo = clerk[c].todo
  OBVIOUS
<1>3. /\ UNCHANGED <<logVars, calls>>
      /\ \A d \in Clerk : d # c => clerk'[d] = clerk[d]
      /\ clerk[c].st = "idle" /\ clerk'[c].st = "trying"
      /\ todo # <<>> /\ clerk'[c].todo = Tail(todo)
      /\ new.kind = Head(todo)[1] /\ new.commiter = c
      /\ clerk'[c].since = Len(agreed)
  <2>1. /\ UNCHANGED <<logVars, calls>>
        /\ \A d \in Clerk : d # c => clerk'[d] = clerk[d]
        /\ clerk[c].st = "idle" /\ clerk'[c].st = "trying"
        /\ todo # <<>> /\ clerk'[c].todo = Tail(todo)
        /\ new = [kind |-> Head(todo)[1], key |-> Head(todo)[2], commiter |-> c,
                  pos |-> IF Head(todo)[1] = "Get" THEN 0 ELSE clerk[c].numOfOrders]
        /\ clerk'[c].since = Len(agreed)
    BY <1>1, <1>2, InvokeGives
  <2>2. new.kind = Head(todo)[1] /\ new.commiter = c
    BY <2>1
  <2> QED BY <2>1, <2>2
<1>4. UNCHANGED agreed /\ Grows
  BY <1>3, SameLogGrows DEF logVars
<1>5. \A op : IsCommand(op)' => IsCommand(op)
  BY <1>3 DEF logVars, IsCommand
<1>6. ASSUME NEW op \in Op, Known(op)' PROVE Known(op) \/ op = new
  <2>1. CASE IsCommand(op)'
    BY <1>5, <2>1 DEF Known
  <2>2. CASE \E d \in Clerk : clerk'[d].st # "idle" /\ op = clerk'[d].op
    <3>1. PICK d \in Clerk : clerk'[d].st # "idle" /\ op = clerk'[d].op
      BY <2>2
    <3> QED BY <1>1, <1>3, <3>1 DEF Known
  <2> QED BY <1>6, <2>1, <2>2 DEF Known
<1>7. ASSUME NEW d \in Clerk, d # c PROVE OneGet(d)'
  <2>1. clerk'[d] = clerk[d]
    BY <1>3, <1>7
  <2>2. \A op \in Op : GetOf(op, d) /\ Known(op)' => Known(op)
    BY <1>3, <1>6, <1>7 DEF GetOf
  <2> QED BY <1>4, <2>1, <2>2, OneGetKept
<1>8. OneGet(c)'
  <2>1. /\ todo \in Seq(Kinds \X Key)
        /\ \A i, j \in DOMAIN todo : todo[i][1] = "Get" /\ todo[j][1] = "Get" => i = j
        /\ (\E op \in Op : GetOf(op, c) /\ Known(op)) =>
             \A i \in DOMAIN todo : todo[i][1] # "Get"
    BY <1>2 DEF OneGet, Types, ClerkTypes, ClerkState
  <2>2. /\ 1 \in DOMAIN todo /\ Head(todo) = todo[1]
        /\ \A i \in DOMAIN Tail(todo) :
             i + 1 \in DOMAIN todo /\ i + 1 # 1 /\ Tail(todo)[i] = todo[i + 1]
        /\ \A i, j \in DOMAIN Tail(todo) : i + 1 = j + 1 => i = j
    BY <1>3, <2>1, Remaining
  <2>3. ASSUME NEW i \in DOMAIN Tail(todo), NEW j \in DOMAIN Tail(todo),
               Tail(todo)[i][1] = "Get", Tail(todo)[j][1] = "Get"
        PROVE  i = j
    <3>1. i + 1 = j + 1
      BY <2>1, <2>2, <2>3
    <3> QED BY <2>2, <3>1
  <2>4. ASSUME NEW op \in Op, GetOf(op, c), Known(op)', NEW i \in DOMAIN Tail(todo)
        PROVE  Tail(todo)[i][1] # "Get"
    <3>1. CASE Known(op)
      BY <2>1, <2>2, <2>4, <3>1
    <3>2. CASE op = new
      <4>1. todo[1][1] = "Get"
        BY <1>3, <2>2, <2>4, <3>2 DEF GetOf
      <4> QED BY <2>1, <2>2, <4>1
    <3> QED BY <1>6, <2>4, <3>1, <3>2
  <2>5. ASSUME new.kind = "Get", NEW n \in 1 .. clerk'[c].since
        PROVE  ~GetOf(agreed'[n].op, c)
    <3>1. todo[1][1] = "Get"
      BY <1>3, <2>2, <2>5
    <3>2. n \in DOMAIN agreed
      BY <1>3, <2>5 DEF Types, LogTypes
    <3>3. agreed[n].op \in Op /\ Known(agreed[n].op)
      BY <3>2, OpTypes DEF Known, IsCommand
    <3> QED BY <1>4, <2>1, <2>2, <3>1, <3>3
  <2> QED BY <1>1, <1>3, <2>3, <2>4, <2>5 DEF OneGet
<1> QED BY <1>7, <1>8

\* No step makes a clerk's second Get.
LEMMA OneGetStep ==
  ASSUME Types, Agreeing, \A c \in Clerk : Reading(c), \A c \in Clerk : OneGet(c),
         ~LateSnapshots, [Next]_vars
  PROVE  \A c \in Clerk : OneGet(c)'
<1>1. ASSUME Grows, UNCHANGED clerk, \A op \in Op : IsCommand(op)' => IsCommand(op)
      PROVE  \A c \in Clerk : OneGet(c)'
  <2>1. \A op \in Op : Known(op)' => Known(op)
    BY <1>1 DEF Known
  <2> QED BY <1>1, <2>1, OneGetKept
<1>2. ASSUME NEW c \in Clerk, UNCHANGED logVars,
             \A d \in Clerk : d # c => clerk'[d] = clerk[d],
             clerk'[c].todo = clerk[c].todo, clerk[c].st # "idle",
             clerk'[c].op = clerk[c].op, clerk'[c].since = clerk[c].since,
             \A k \in DOMAIN calls' : \/ k \in DOMAIN calls /\ calls'[k].op = calls[k].op
                                      \/ calls'[k].op = clerk[c].op
      PROVE  \A d \in Clerk : OneGet(d)'
  <2>1. UNCHANGED <<agreed, view, proposed>> /\ Grows
    BY <1>2, SameLogGrows DEF logVars
  <2>2. \A op \in Op : IsCommand(op)' => Known(op)
    BY <1>2, <2>1 DEF Known, IsCommand
  <2>3. \A op \in Op : Known(op)' => Known(op)
    <3> SUFFICES ASSUME NEW op \in Op, NEW d \in Clerk,
                        clerk'[d].st # "idle", op = clerk'[d].op
        PROVE  Known(op)
      BY <2>2 DEF Known
    <3> QED BY <1>2 DEF Known
  <2>4. \A d \in Clerk : /\ clerk'[d].todo = clerk[d].todo
                         /\ clerk'[d].st # "idle" => clerk[d].st # "idle"
                         /\ clerk'[d].op = clerk[d].op /\ clerk'[d].since = clerk[d].since
    BY <1>2
  <2> QED BY <2>1, <2>3, <2>4, OneGetKept
<1>3. ASSUME NEW c \in Clerk, ClerkStep(c) PROVE \A d \in Clerk : OneGet(d)'
  <2>1. CASE Invoke(c)
    BY <2>1, InvokeOneGet
  <2>2. ASSUME NEW s \in Server, CallServer(c, s) PROVE \A d \in Clerk : OneGet(d)'
    <3>1. /\ UNCHANGED logVars /\ \A d \in Clerk : d # c => clerk'[d] = clerk[d]
          /\ clerk[c].st = "trying" /\ clerk'[c].todo = clerk[c].todo
          /\ clerk'[c].op = clerk[c].op /\ clerk'[c].since = clerk[c].since
          /\ Len(calls) \in Nat /\ DOMAIN calls = 1 .. Len(calls)
          /\ DOMAIN calls' = 1 .. Len(calls) + 1 /\ calls'[Len(calls) + 1] = SentCall(c, s)
          /\ \A k \in DOMAIN calls : calls'[k] = calls[k]
      BY <2>2, CallServerGives
    <3>2. SentCall(c, s).op = clerk[c].op
      BY DEF SentCall
    <3>3. \A k \in DOMAIN calls' : k \in DOMAIN calls \/ k = Len(calls) + 1
      BY <3>1
    <3>4. \A k \in DOMAIN calls' : \/ k \in DOMAIN calls /\ calls'[k].op = calls[k].op
                                   \/ calls'[k].op = clerk[c].op
      BY <3>1, <3>2, <3>3
    <3> QED BY <1>2, <3>1, <3>4
  <2>3. CASE CallFails(c)
    <3>1. /\ UNCHANGED <<logVars, calls>> /\ \A d \in Clerk : d # c => clerk'[d] = clerk[d]
          /\ clerk[c].st = "waiting" /\ clerk'[c].todo = clerk[c].todo
          /\ clerk'[c].op = clerk[c].op /\ clerk'[c].since = clerk[c].since
      BY <2>3, CallFailsGives
    <3> QED BY <1>2, <3>1
  <2>4. CASE TakeReply(c)
    <3>1. clerk[c].st = "waiting" /\ clerk[c].call \in DOMAIN calls
      BY <2>4 DEF TakeReply, Agreeing, Clerking
    <3>2. /\ UNCHANGED <<logVars, calls>> /\ \A d \in Clerk : d # c => clerk'[d] = clerk[d]
          /\ clerk'[c].todo = clerk[c].todo
          /\ clerk'[c].op = clerk[c].op /\ clerk'[c].since = clerk[c].since
      BY <2>4, <3>1, TakeReplyGives
    <3> QED BY <1>2, <3>1, <3>2
  <2> QED BY <1>3, <2>1, <2>2, <2>3, <2>4 DEF ClerkStep
<1>4. ASSUME NEW k \in DOMAIN calls, HandlerStep(k) PROVE \A c \in Clerk : OneGet(c)'
  <2>1. UNCHANGED <<agreed, clerk>>
    BY <1>4, OneGetIsNotOld, HandlerStepReads
  <2> QED BY <1>1, <1>4, <2>1, SameLogGrows, HandlerCommands
<1>5. ASSUME NEW s \in Server, ServerStep(s) PROVE \A c \in Clerk : OneGet(c)'
  <2>1. UNCHANGED <<agreed, clerk>>
    BY <1>5, ServerStepReads
  <2> QED BY <1>1, <1>5, <2>1, SameLogGrows, ServerCommands
<1>6. ASSUME LogStep PROVE \A c \in Clerk : OneGet(c)'
  BY <1>1, <1>6, LogStepReads, LogCommands
<1>7. ASSUME UNCHANGED vars PROVE \A c \in Clerk : OneGet(c)'
  <2>1. UNCHANGED <<agreed, view, proposed, clerk, calls>>
    BY <1>7 DEF vars, logVars
  <2> QED BY <1>1, <2>1, SameLogGrows DEF IsCommand
<1> QED BY <1>3, <1>4, <1>5, <1>6, <1>7 DEF Next

\* The clerks of programs with one Get each see an atomic map, as long as no snapshot
\* comes late: none of them has an older Get whose entry a read could be taken for.
THEOREM ClerksOfOneGetSeeAMap ==
  ASSUME ~LateSnapshots, OneGetEach PROVE Spec => Linearizable
<1> DEFINE Inv == Types /\ Agreeing
           Reads == (\A c \in Clerk : Reading(c)) /\ \A c \in Clerk : OneGet(c)
<1>1. Init => Reads
  BY ReadingInit, OneGetInit
<1>2. Inv /\ Reads => NoOldGet
  BY OneGetIsNotOld
<1>3. Inv /\ Reads /\ [Next]_vars => Reads'
  BY <1>2, MapStep, OneGetStep
<1>4. Spec => []Inv
  BY AgreeingAlways
<1>5. Spec /\ []NoOldGet => Linearizable
  BY ClerksSeeAMap
<1> HIDE DEF Inv, Reads
<1> QED BY <1>1, <1>2, <1>3, <1>4, <1>5, PTL DEF Spec
=============================================================================
