------------------------------- MODULE KVRaft -------------------------------
(***************************************************************************)
(* The key/value service of src/src/kvraft: clerks that retry, KVServers   *)
(* with their RPC handlers and their Apply loop, over an agreed log.       *)
(*                                                                         *)
(* A region under kv.mu is one action; Apply holds the lock over several   *)
(* only while it sends on notification channels.  A handler is a record of *)
(* calls from the request to the reply, and outlives a clerk that gave up. *)
(* A value is the sequence of the writes, <<clerk, number>>, it is made of.*)
(***************************************************************************)
EXTENDS AgreedLog, FiniteSets

CONSTANTS
  Clerk, Key, Nil,
  LateSnapshots,   \* a snapshot may reach the service after later commands
  Scenarios,       \* bound: what each clerk calls, <<kind, key>>s in order (program),
                   \* and how many RPCs it has for that (rpcs)
  MaxSnapshots,    \* bound: the snapshots all servers take
  MaxRestarts      \* bound: crashes

ASSUME KVAssumption ==
  /\ LateSnapshots \in BOOLEAN
  /\ \A scenario \in Scenarios :
       /\ scenario.program \in [Clerk -> Seq({"Put", "Append", "Get"} \X Key)]
       /\ scenario.rpcs \in [Clerk -> Nat]
  /\ {MaxSnapshots, MaxRestarts} \subseteq Nat

\* No command is the zero Op{}.
ASSUME NilAssumption ==
  Nil \notin [kind : {"Put", "Append", "Get"}, key : Key, commiter : Clerk, pos : Nat]

VARIABLES
  kvstore, CommittedStore,   \* kv.*
  applied,      \* the index of the last command or snapshot received
  notifyChs,    \* the call whose channel is registered for an index, 0 for none
  loop,         \* where Apply is: "idle", "saving" a snapshot, "sending" (locked)
  disk,         \* the snapshot in kv.persister
  snapshots,    \* history: every snapshot taken
  clerk,        \* the clerks
  calls,        \* every RPC made: the handler and its channel
  result,       \* what each clerk's last Get returned
  restarts      \* crashes so far

serverVars == <<kvstore, CommittedStore, applied, loop, disk, snapshots>>
vars == <<logVars, serverVars, notifyChs, clerk, calls, result, restarts>>

Writes == {"Put", "Append"}
EmptyStore == [k \in Key |-> <<>>]
EmptyOp == Nil   \* Op{}

NoSnapshot == [index |-> 0, kvstore |-> EmptyStore, committed |-> [c \in Clerk |-> 0]]
Idle == [st |-> "idle", op |-> Nil, todo |-> {}, drop |-> FALSE]

MakeClerk(program, rpcs) ==
  [st |-> "idle", op |-> Nil, call |-> 0, since |-> 0, numOfOrders |-> 1,
   todo |-> program, rpcs |-> rpcs]

Init ==
  /\ LogInit
  /\ kvstore = [s \in Server |-> EmptyStore]
  /\ CommittedStore = [s \in Server |-> [c \in Clerk |-> 0]]
  /\ applied = [s \in Server |-> 0]
  /\ notifyChs = [s \in Server |-> [n \in 1..MaxIndex |-> 0]]
  /\ loop = [s \in Server |-> Idle]
  /\ disk = [s \in Server |-> NoSnapshot]
  /\ snapshots = {}
  /\ \E scenario \in Scenarios :
       clerk = [c \in Clerk |-> MakeClerk(scenario.program[c], scenario.rpcs[c])]
  /\ calls = <<>>
  /\ result = [c \in Clerk |-> Nil]
  /\ restarts = 0

(***************************************************************************)
(* Clerks.                                                                 *)
(***************************************************************************)
\* Get, Put or Append is called.  The sequence number of a Get is ck.pos, which
\* nothing ever sets.
Invoke(c) ==
  LET kind == Head(clerk[c].todo)[1]
      key  == Head(clerk[c].todo)[2]
  IN  /\ clerk[c].st = "idle" /\ clerk[c].todo # <<>>
      /\ clerk' = [clerk EXCEPT
           ![c].st = "trying",
           ![c].op = [kind |-> kind, key |-> key, commiter |-> c,
                      pos |-> IF kind = "Get" THEN 0 ELSE clerk[c].numOfOrders],
           ![c].todo = Tail(@),
           ![c].since = Len(agreed)]
      /\ UNCHANGED <<logVars, serverVars, notifyChs, calls, result, restarts>>

\* One turn of the loop.  The servers are tried in turn and a call of one that is
\* cut off fails at once, so the next one called may be any.
MayCall(c) == clerk[c].rpcs > 0
CallServer(c, s) ==
  /\ clerk[c].st = "trying" /\ MayCall(c)
  /\ calls' = Append(calls, [server |-> s, op |-> clerk[c].op, st |-> "sent",
                             index |-> 0, ch |-> <<>>, reply |-> Nil])
  /\ clerk' = [clerk EXCEPT ![c].st = "waiting", ![c].rpcs = @ - 1,
                            ![c].call = Len(calls')]
  /\ UNCHANGED <<logVars, serverVars, notifyChs, result, restarts>>

\* The network loses the request or the reply, or the connection: ok is false.
CallFails(c) ==
  /\ clerk[c].st = "waiting"
  /\ clerk' = [clerk EXCEPT ![c].st = "trying"]
  /\ UNCHANGED <<logVars, serverVars, notifyChs, calls, result, restarts>>

OK(value) == [err |-> "OK", value |-> value]
ErrWrongLeader == [err |-> "ErrWrongLeader", value |-> Nil]

TakeReply(c) ==
  LET k == clerk[c].call
      ok == calls[k].reply.err = "OK"
      get == clerk[c].op.kind = "Get"
  IN  /\ clerk[c].st = "waiting" /\ calls[k].st = "replied"
      /\ clerk' = [clerk EXCEPT
           ![c].st = IF ok THEN "idle" ELSE "trying",
           ![c].numOfOrders = IF ok /\ ~get THEN @ + 1 ELSE @]
      /\ result' = [result EXCEPT ![c] = IF ok /\ get THEN calls[k].reply.value ELSE @]
      /\ UNCHANGED <<logVars, serverVars, notifyChs, calls, restarts>>

(***************************************************************************)
(* The handlers Get and PutAppend.                                         *)
(***************************************************************************)
\* kv.mu is free: Apply holds it while it sends.
Unlocked(s) == loop[s].st # "sending"

\* Handler k is at st of a call of one of the kinds.
At(k, st, kinds) == calls[k].st = st /\ calls[k].op.kind \in kinds

\* The write is already applied.
Seen(s, op) == op.pos <= CommittedStore[s][op.commiter]

Replies(k, reply) ==
  calls' = [calls EXCEPT ![k].st = "replied", ![k].reply = reply]

\* PutAppend, first region: is the command a duplicate?
CheckDuplicate(k) ==
  LET s == calls[k].server
  IN  /\ At(k, "sent", Writes) /\ Unlocked(s)
      /\ IF Seen(s, calls[k].op) THEN Replies(k, OK(Nil))
                                 ELSE calls' = [calls EXCEPT ![k].st = "checked"]
      /\ UNCHANGED <<logVars, serverVars, notifyChs, clerk, result, restarts>>

\* rf.Start refuses.
NotLeader(k) ==
  LET s == calls[k].server
  IN  /\ \/ At(k, "checked", Writes)
         \/ At(k, "sent", {"Get"}) /\ Unlocked(s)
      /\ s \notin leading
      /\ Replies(k, ErrWrongLeader)
      /\ UNCHANGED <<logVars, serverVars, notifyChs, clerk, result, restarts>>

\* PutAppend calls rf.Start without the lock ...
StartWrite(k) ==
  LET s == calls[k].server
  IN  /\ At(k, "checked", Writes)
      /\ Start(s, calls[k].op)
      /\ calls' = [calls EXCEPT ![k].st = "started", ![k].index = NextIndex(s)]
      /\ UNCHANGED <<serverVars, notifyChs, clerk, result, restarts>>

\* ... and registers its channel under it.
Register(k) ==
  LET s == calls[k].server
  IN  /\ At(k, "started", Writes) /\ Unlocked(s)
      /\ notifyChs' = [notifyChs EXCEPT ![s][calls[k].index] = k]
      /\ calls' = [calls EXCEPT ![k].st = "waiting"]
      /\ UNCHANGED <<logVars, serverVars, clerk, result, restarts>>

\* Get does both in one region.
StartRead(k) ==
  LET s == calls[k].server
  IN  /\ At(k, "sent", {"Get"}) /\ Unlocked(s)
      /\ Start(s, calls[k].op)
      /\ notifyChs' = [notifyChs EXCEPT ![s][NextIndex(s)] = k]
      /\ calls' = [calls EXCEPT ![k].st = "waiting", ![k].index = NextIndex(s)]
      /\ UNCHANGED <<serverVars, clerk, result, restarts>>

MatchesAny(a, op) == a # EmptyOp   \* mutation: the entry at the index is not looked at

\* The entry applied at the index is the handler's own, as far as it can tell.
Matches(a, op) == a # EmptyOp /\ a.commiter = op.commiter /\ a.pos = op.pos

Notified(k) ==
  LET op == calls[k].op
      matched == Matches(Head(calls[k].ch), op)
  IN  /\ calls[k].st = "waiting" /\ calls[k].ch # <<>>
      /\ calls' = [calls EXCEPT
           ![k].ch = Tail(@),
           ![k].st = IF matched /\ op.kind = "Get" THEN "reading" ELSE "leaving",
           ![k].reply = IF matched THEN OK(Nil) ELSE ErrWrongLeader]
      /\ UNCHANGED <<logVars, serverVars, notifyChs, clerk, result, restarts>>

TimesOut(k) ==
  /\ calls[k].st = "waiting"
  /\ calls' = [calls EXCEPT ![k].st = "leaving", ![k].reply = ErrWrongLeader]
  /\ UNCHANGED <<logVars, serverVars, notifyChs, clerk, result, restarts>>

\* Get reads the map as it is by then.
Read(k) ==
  LET s == calls[k].server
  IN  /\ calls[k].st = "reading" /\ Unlocked(s)
      /\ calls' = [calls EXCEPT ![k].st = "leaving",
                                ![k].reply = OK(kvstore[s][calls[k].op.key])]
      /\ UNCHANGED <<logVars, serverVars, notifyChs, clerk, result, restarts>>

\* The deferred delete, whoever's channel it now is, and the reply.
Leave(k) ==
  LET s == calls[k].server
  IN  /\ calls[k].st = "leaving" /\ Unlocked(s)
      /\ notifyChs' = [notifyChs EXCEPT ![s][calls[k].index] = 0]
      /\ Replies(k, calls[k].reply)
      /\ UNCHANGED <<logVars, serverVars, clerk, result, restarts>>

(***************************************************************************)
(* The Apply loop.                                                         *)
(***************************************************************************)
Registered(s) == {n \in 1..MaxIndex : notifyChs[s][n] # 0}

\* Apply locks kv.mu and has these channels to send op on; if there are none it
\* unlocks at once.
Sending(op, todo, drop) ==
  IF todo = {} THEN Idle ELSE [st |-> "sending", op |-> op, todo |-> todo, drop |-> drop]

ExecuteTwice(s, op) ==   \* mutation: a retried Append is executed again
  CASE op.kind = "Put"    -> [kvstore[s] EXCEPT ![op.key] = <<<<op.commiter, op.pos>>>>]
    [] op.kind = "Append" -> [kvstore[s] EXCEPT ![op.key] = Append(@, <<op.commiter, op.pos>>)]
    [] OTHER -> kvstore[s]

\* What a command makes of the map of s.
Execute(s, op) ==
  CASE op.kind = "Put" /\ ~Seen(s, op) ->
         [kvstore[s] EXCEPT ![op.key] = <<<<op.commiter, op.pos>>>>]
    [] op.kind = "Append" /\ ~Seen(s, op) ->
         [kvstore[s] EXCEPT ![op.key] = Append(@, <<op.commiter, op.pos>>)]
    [] OTHER -> kvstore[s]

SnapWithoutTable(n, store, committed) ==   \* mutation: the duplicate table is not saved
  [index |-> n, kvstore |-> store, committed |-> [c \in Clerk |-> 0]]

Snap(n, store, committed) == [index |-> n, kvstore |-> store, committed |-> committed]

\* A command.  If the Raft state has grown too large, Apply makes a snapshot and
\* unlocks to save it.
ApplyCommand(s) ==
  LET n == applied[s] + 1
      op == agreed[n].op
  IN  /\ loop[s].st = "idle" /\ Knows(s, n)
      /\ applied' = [applied EXCEPT ![s] = n]
      /\ kvstore' = [kvstore EXCEPT ![s] = Execute(s, op)]
      /\ CommittedStore' = [CommittedStore EXCEPT ![s][op.commiter] =
                              IF op.kind \in Writes /\ ~Seen(s, op) THEN op.pos ELSE @]
      /\ \/ loop' = [loop EXCEPT ![s] = Sending(op, {n} \cap Registered(s), FALSE)]
         \/ /\ Cardinality(snapshots) < MaxSnapshots
            /\ loop' = [loop EXCEPT ![s] = [Idle EXCEPT !.st = "saving", !.op = op]]
      /\ UNCHANGED <<logVars, disk, snapshots, notifyChs, clerk, calls, result, restarts>>

\* rf.Snapshot, and the lock again.
SaveSnapshot(s) ==
  LET snap == Snap(applied[s], kvstore[s], CommittedStore[s])
  IN  /\ loop[s].st = "saving"
      /\ disk' = [disk EXCEPT ![s] = snap]
      /\ snapshots' = snapshots \cup {snap}
      /\ loop' = [loop EXCEPT ![s] =
                    Sending(@.op, {applied[s]} \cap Registered(s), FALSE)]
      /\ UNCHANGED <<logVars, kvstore, CommittedStore, applied, notifyChs, clerk, calls,
                     result, restarts>>

readSnapshot(s, snap) ==
  /\ kvstore' = [kvstore EXCEPT ![s] = snap.kvstore]
  /\ CommittedStore' = [CommittedStore EXCEPT ![s] = snap.committed]

\* A snapshot another server took, if it is past the one s has.  It replaces the
\* state, and Raft goes on after the later of the two.
ReceiveSnapshot(s) ==
  \E snap \in snapshots :
    /\ loop[s].st = "idle" /\ s \notin leading
    /\ snap.index > disk[s].index
    /\ snap.index > applied[s] \/ LateSnapshots
    /\ disk' = [disk EXCEPT ![s] = snap]
    /\ readSnapshot(s, snap)
    /\ applied' = [applied EXCEPT ![s] = Max({@, snap.index})]
    /\ loop' = [loop EXCEPT ![s] =
                  Sending(EmptyOp, {n \in Registered(s) : n <= snap.index}, TRUE)]
    /\ UNCHANGED <<logVars, snapshots, notifyChs, clerk, calls, result, restarts>>

\* ch <- op, on a channel with room for one.
Notify(s) ==
  \E n \in loop[s].todo :
    LET k == notifyChs[s][n]
        left == loop[s].todo \ {n}
    IN  /\ loop[s].st = "sending" /\ calls[k].ch = <<>>
        /\ calls' = [calls EXCEPT ![k].ch = <<loop[s].op>>]
        /\ notifyChs' = [notifyChs EXCEPT ![s][n] = IF loop[s].drop THEN 0 ELSE @]
        /\ loop' = [loop EXCEPT ![s] = Sending(@.op, left, @.drop)]
        /\ UNCHANGED <<logVars, kvstore, CommittedStore, applied, disk, snapshots, clerk,
                       result, restarts>>

(***************************************************************************)
(* Crashes: a new KVServer starts from the persister, and the handlers of  *)
(* the old one never reply.                                                *)
(***************************************************************************)
Restart(s) ==
  /\ restarts < MaxRestarts
  /\ restarts' = restarts + 1
  /\ StepDown(s)
  /\ readSnapshot(s, disk[s])
  /\ applied' = [applied EXCEPT ![s] = disk[s].index]
  /\ notifyChs' = [notifyChs EXCEPT ![s] = [n \in 1..MaxIndex |-> 0]]
  /\ loop' = [loop EXCEPT ![s] = Idle]
  /\ calls' = [k \in DOMAIN calls |->
       IF calls[k].server = s /\ calls[k].st \notin {"sent", "replied"}
         THEN [calls[k] EXCEPT !.st = "dead", !.ch = <<>>] ELSE calls[k]]
  /\ UNCHANGED <<disk, snapshots, clerk, result>>

(***************************************************************************)
(* The specification.                                                      *)
(***************************************************************************)
ClerkStep(c) ==
  \/ Invoke(c)
  \/ \E s \in Server : CallServer(c, s)
  \/ CallFails(c) \/ TakeReply(c)

HandlerStep(k) ==
  \/ CheckDuplicate(k) \/ NotLeader(k) \/ StartWrite(k) \/ Register(k) \/ StartRead(k)
  \/ Notified(k) \/ TimesOut(k) \/ Read(k) \/ Leave(k)

ServerStep(s) ==
  \/ ApplyCommand(s) \/ SaveSnapshot(s) \/ ReceiveSnapshot(s) \/ Notify(s) \/ Restart(s)

LogStep ==
  /\ \/ Agree
     \/ \E s \in Server : Elect(s)
     \/ \E s \in leading : StepDown(s)
  /\ UNCHANGED <<serverVars, notifyChs, clerk, calls, result, restarts>>

Next == \/ \E c \in Clerk : ClerkStep(c)
        \/ \E k \in DOMAIN calls : HandlerStep(k)
        \/ \E s \in Server : ServerStep(s)
        \/ LogStep

Spec == Init /\ [][Next]_vars
=============================================================================
