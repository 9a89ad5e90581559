---------------------------- MODULE ShardMaster ----------------------------
(***************************************************************************)
(* The configuration service of src/src/shardmaster: clerks that retry,    *)
(* replicas with their RPC handlers and their applier, over an agreed log  *)
(* and the simulated network.  A region under sm.mu is one action; the     *)
(* applier holds the lock over two, between which it sends on a channel.   *)
(***************************************************************************)
EXTENDS AgreedLog, ShardConfig, LabRPC

CONSTANT Programs   \* bound: for each request of each clerk, what it may be

\* A Query asks for a configuration by its number, or for the last one.
Queries == [OpType : {"Query"}, Num : Nat \cup {-1}]

ASSUME ProgramsAssumption ==
  /\ Programs \subseteq [Client -> Seq(SUBSET (Requests \cup Queries))]
  /\ Nil \notin Requests \cup Queries

VARIABLES
  configs, lastApplied,   \* sm.*
  applied,      \* the index of the last command received
  notifyChans,  \* the handler that made the channel registered for an index
  sending,      \* what the applier, with sm.mu locked, sends on whose channel
  handler,      \* the handler of every call, and the channel it made
  clerk,        \* the clerks
  result,       \* what each clerk's last Query returned
  program,      \* one of Programs
  history       \* history: the configurations the agreed log stands for

replicaVars == <<configs, lastApplied, applied>>
vars == <<logVars, netVars, replicaVars, notifyChans, sending, handler, clerk, result, program,
          history>>

NewHandler == [at |-> "over", index |-> 0, ch |-> Nil, box |-> <<>>, reply |-> Nil]

MakeClerk == [st |-> "idle", request |-> Nil, since |-> 0, numOfOrders |-> 1]

Init ==
  /\ LogInit /\ NetInit(Server)
  /\ configs = [s \in Server |-> <<NoConfig>>]
  /\ lastApplied = [s \in Server |-> [c \in Client |-> 0]]
  /\ applied = [s \in Server |-> 0]
  /\ notifyChans = [s \in Server |-> [n \in 1..MaxIndex |-> Nil]]
  /\ sending = [s \in Server |-> Nil]
  /\ handler = [c \in Client |-> <<>>]
  /\ clerk = [c \in Client |-> MakeClerk]
  /\ result = [c \in Client |-> Nil]
  /\ program \in Programs
  /\ history = <<NoConfig>>

(***************************************************************************)
(* Clerks.  Every request, a Query too, has a number of its own.           *)
(***************************************************************************)
OpOf(c) == [ClientId |-> c, CommandId |-> clerk[c].numOfOrders, request |-> clerk[c].request]

Invoke(c) ==
  /\ clerk[c].st = "idle" /\ clerk[c].numOfOrders \in DOMAIN program[c]
  /\ \E request \in program[c][clerk[c].numOfOrders] :
       clerk' = [clerk EXCEPT ![c].st = "trying", ![c].request = request,
                              ![c].since = Len(agreed)]
  /\ UNCHANGED <<logVars, netVars, replicaVars, notifyChans, sending, handler, result, program, history>>

\* One turn of the loop.  The servers are tried in turn and a call of one that is
\* cut off fails, so the next one may be any.
CallServer(c, s) ==
  /\ clerk[c].st = "trying" /\ Call(c, s, OpOf(c))
  /\ clerk' = [clerk EXCEPT ![c].st = "waiting"]
  /\ handler' = [handler EXCEPT ![c] = Append(@, NewHandler)]
  /\ UNCHANGED <<logVars, replicaVars, notifyChans, sending, result, program, history>>

Current(c) == <<c, Len(calls[c])>>

CallFails(c) ==
  /\ clerk[c].st = "waiting" /\ Fail(Current(c))
  /\ clerk' = [clerk EXCEPT ![c].st = "trying"]
  /\ UNCHANGED <<logVars, replicaVars, notifyChans, sending, handler, result, program, history>>

OK(config) == [WrongLeader |-> FALSE, Config |-> config]
WrongLeader == [WrongLeader |-> TRUE, Config |-> Nil]

CallReturns(c) ==
  LET reply == CallOf(Current(c)).reply
      done == ~reply.WrongLeader
  IN  /\ clerk[c].st = "waiting" /\ Return(Current(c))
      /\ clerk' = [clerk EXCEPT ![c].st = IF done THEN "idle" ELSE "trying",
                                ![c].numOfOrders = IF done THEN @ + 1 ELSE @]
      /\ result' = [result EXCEPT ![c] =
                      IF done /\ clerk[c].request.OpType = "Query" THEN reply.Config ELSE @]
      /\ UNCHANGED <<logVars, replicaVars, notifyChans, sending, handler, program, history>>

(***************************************************************************)
(* The handlers Join, Leave, Move and Query.                               *)
(***************************************************************************)
HandlerOf(k) == handler[k[1]][k[2]]
ServerOf(k) == CallOf(k).server
Unlocked(s) == sending[s] = Nil

\* The instance the handler runs on is in service: what one that was shut down
\* still does nobody sees.
Alive(k) == servers[ServerOf(k)] = CallOf(k).instance

At(k, at) == HandlerOf(k).at = at /\ Alive(k)

\* rf.Start refuses.
NotLeader(k) ==
  /\ Alive(k) /\ ServerOf(k) \notin leading
  /\ Dispatched(k, WrongLeader)
  /\ UNCHANGED <<logVars, replicaVars, notifyChans, sending, handler, clerk, result, program, history>>

\* rf.Start, without the lock.
StartOp(k) ==
  LET s == ServerOf(k)
  IN  /\ Alive(k) /\ Dispatch(k)
      /\ Start(s, CallOf(k).args)
      /\ handler' = [handler EXCEPT ![k[1]][k[2]].at = "started",
                                    ![k[1]][k[2]].index = NextIndex(s)]
      /\ UNCHANGED <<replicaVars, notifyChans, sending, clerk, result, program, history>>

\* The channel of the index, which an older handler may have made.
Register(k) ==
  LET s == ServerOf(k)
      n == HandlerOf(k).index
      ch == IF notifyChans[s][n] = Nil THEN k ELSE notifyChans[s][n]
  IN  /\ At(k, "started") /\ Unlocked(s)
      /\ notifyChans' = [notifyChans EXCEPT ![s][n] = ch]
      /\ handler' = [handler EXCEPT ![k[1]][k[2]].at = "waiting", ![k[1]][k[2]].ch = ch]
      /\ UNCHANGED <<logVars, netVars, replicaVars, sending, clerk, result, program, history>>

MatchesAny(op, args) == TRUE   \* mutation: what was applied is not compared

\* The op applied at the index is the handler's own.
Matches(op, args) == op.ClientId = args.ClientId /\ op.CommandId = args.CommandId

Notified(k) ==
  LET ch == HandlerOf(k).ch
      args == CallOf(k).args
      matched == Matches(Head(HandlerOf(ch).box), args)
      leaves == [handler EXCEPT
                   ![k[1]][k[2]].at = IF matched /\ args.request.OpType = "Query"
                                        THEN "reading" ELSE "leaving",
                   ![k[1]][k[2]].reply = IF matched THEN OK(Nil) ELSE WrongLeader]
  IN  /\ At(k, "waiting") /\ HandlerOf(ch).box # <<>>
      /\ handler' = [leaves EXCEPT ![ch[1]][ch[2]].box = Tail(@)]
      /\ UNCHANGED <<logVars, netVars, replicaVars, notifyChans, sending, clerk, result, program, history>>

TimesOut(k) ==
  /\ At(k, "waiting")
  /\ handler' = [handler EXCEPT ![k[1]][k[2]].at = "leaving", ![k[1]][k[2]].reply = WrongLeader]
  /\ UNCHANGED <<logVars, netVars, replicaVars, notifyChans, sending, clerk, result, program, history>>

\* Query answers from the configurations there are by then.
Read(k) ==
  LET s == ServerOf(k)
      config == Answer(configs[s], CallOf(k).args.request.Num)
  IN  /\ At(k, "reading") /\ Unlocked(s)
      /\ handler' = [handler EXCEPT ![k[1]][k[2]].at = "leaving", ![k[1]][k[2]].reply = OK(config)]
      /\ UNCHANGED <<logVars, netVars, replicaVars, notifyChans, sending, clerk, result, program, history>>

\* The channel of the index is deleted, whosever it is, and the handler returns, if
\* to no avail.
Leave(k) ==
  LET h == HandlerOf(k)
  IN  /\ At(k, "leaving") /\ Unlocked(ServerOf(k))
      /\ notifyChans' = [notifyChans EXCEPT ![ServerOf(k)][h.index] = Nil]
      /\ handler' = [handler EXCEPT ![k[1]][k[2]] = [NewHandler EXCEPT !.box = h.box]]
      /\ \/ Finish(k, h.reply)
         \/ ~Open(k) /\ UNCHANGED netVars
      /\ UNCHANGED <<logVars, replicaVars, sending, clerk, result, program, history>>

(***************************************************************************)
(* The applier.                                                            *)
(***************************************************************************)
NeverDuplicate(s, op) == FALSE   \* mutation: a request that is repeated is executed again
isDuplicate(s, op) == op.CommandId <= lastApplied[s][op.ClientId]

\* A command, up to the send, if there is a channel to send on.
ApplyCommand(s) ==
  LET n == applied[s] + 1
      op == agreed[n].op
      executes == op.request.OpType # "Query" /\ ~isDuplicate(s, op)
  IN  /\ servers[s] # 0 /\ Unlocked(s) /\ Knows(s, n)
      /\ applied' = [applied EXCEPT ![s] = n]
      /\ configs' = [configs EXCEPT ![s] =
           IF executes THEN Append(@, NewConfig(Last(@), op.request)) ELSE @]
      /\ lastApplied' = [lastApplied EXCEPT ![s][op.ClientId] =
           IF executes THEN op.CommandId ELSE @]
      /\ sending' = [sending EXCEPT ![s] =
           IF notifyChans[s][n] = Nil THEN Nil ELSE [op |-> op, ch |-> notifyChans[s][n]]]
      /\ UNCHANGED <<logVars, netVars, notifyChans, handler, clerk, result, program, history>>

\* ch <- op, on a channel with room for one.
Send(s) ==
  LET ch == sending[s].ch
  IN  /\ ~Unlocked(s) /\ HandlerOf(ch).box = <<>>
      /\ handler' = [handler EXCEPT ![ch[1]][ch[2]].box = <<sending[s].op>>]
      /\ sending' = [sending EXCEPT ![s] = Nil]
      /\ UNCHANGED <<logVars, netVars, replicaVars, notifyChans, clerk, result, program, history>>

(***************************************************************************)
(* Restarts.  Of a replica nothing is kept but Raft's log, which is replayed*)
(***************************************************************************)
ShutdownServer(s) ==
  /\ DeleteServer(s) /\ StepDown(s)
  /\ configs' = [configs EXCEPT ![s] = <<NoConfig>>]
  /\ lastApplied' = [lastApplied EXCEPT ![s] = [c \in Client |-> 0]]
  /\ applied' = [applied EXCEPT ![s] = 0]
  /\ notifyChans' = [notifyChans EXCEPT ![s] = [n \in 1..MaxIndex |-> Nil]]
  /\ sending' = [sending EXCEPT ![s] = Nil]
  /\ handler' = [c \in Client |-> [n \in DOMAIN handler[c] |->
       IF calls[c][n].server = s THEN NewHandler ELSE handler[c][n]]]
  /\ UNCHANGED <<clerk, result, program, history>>

StartServer(s) ==
  /\ AddServer(s)
  /\ UNCHANGED <<logVars, replicaVars, notifyChans, sending, handler, clerk, result, program, history>>

(***************************************************************************)
(* The specification.                                                      *)
(***************************************************************************)
HandlerStep(k) ==
  \/ NotLeader(k) \/ StartOp(k) \/ Register(k) \/ Notified(k) \/ TimesOut(k) \/ Read(k)
  \/ Leave(k)

NetworkStep(k) ==
  /\ SendReply(k)
  /\ UNCHANGED <<logVars, replicaVars, notifyChans, sending, handler, clerk, result, program, history>>

ClerkStep(c) ==
  \/ Invoke(c)
  \/ \E s \in Server : CallServer(c, s)
  \/ CallFails(c) \/ CallReturns(c)

HarnessStep ==
  /\ \E c \in Client, s \in Server : Disconnect(c, s) \/ Connect(c, s)
  /\ UNCHANGED <<logVars, replicaVars, notifyChans, sending, handler, clerk, result, program, history>>

\* Each request but a Query makes a configuration where it is agreed on first.
MakesConfig(log, n) ==
  /\ log[n].op.request.OpType # "Query"
  /\ \A m \in 1..(n - 1) : log[m].op # log[n].op

AgreeOnOp ==
  /\ Agree
  /\ history' = IF MakesConfig(agreed', Len(agreed'))
                   THEN Append(history, NewConfig(Last(history), Last(agreed').op.request))
                   ELSE history
  /\ UNCHANGED <<netVars, replicaVars, notifyChans, sending, handler, clerk, result, program>>

LeadershipStep ==
  /\ \/ \E s \in Server : servers[s] # 0 /\ Elect(s)
     \/ \E s \in leading : StepDown(s)
  /\ UNCHANGED <<netVars, replicaVars, notifyChans, sending, handler, clerk, result, program,
                 history>>

Next == \/ \E c \in Client : ClerkStep(c)
        \/ \E k \in CallIds : HandlerStep(k) \/ NetworkStep(k)
        \/ \E s \in Server : ApplyCommand(s) \/ Send(s) \/ ShutdownServer(s) \/ StartServer(s)
        \/ HarnessStep \/ AgreeOnOp \/ LeadershipStep

Spec == Init /\ [][Next]_vars
=============================================================================
