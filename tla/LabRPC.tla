------------------------------- MODULE LabRPC -------------------------------
(***************************************************************************)
(* The simulated network of src/src/labrpc between clients and servers,    *)
(* and the harness that cuts clients off, shuts servers down and starts    *)
(* them anew (src/src/shardmaster/config.go).                              *)
(*                                                                         *)
(* A client has one end for each server and makes one call at a time; call *)
(* number n of client c is <<c, n>>.  Its reply channel is unbuffered, so  *)
(* the network sends on it in the step in which the client receives.       *)
(***************************************************************************)
EXTENDS Naturals, Sequences

CONSTANTS
  Client, Nil,
  MaxCalls,      \* bound: the calls of each client
  MaxShutdowns,  \* bound: instances of servers deleted
  MaxCuts        \* bound: ends disabled

ASSUME LabRPCAssumption ==
  MaxCalls \in [Client -> Nat] /\ {MaxShutdowns, MaxCuts} \subseteq Nat

VARIABLES
  servers,    \* the instance that serves under a name, 0 for none
  enabled,    \* the ends <<client, server>> that are enabled
  calls,      \* the calls of each client
  shutdowns,  \* instances deleted so far
  cuts        \* ends disabled so far

netVars == <<servers, enabled, calls, shutdowns, cuts>>

NetInit(names) ==
  /\ servers = [s \in names |-> 1]
  /\ enabled = Client \X names
  /\ calls = [c \in Client |-> <<>>]
  /\ shutdowns = 0
  /\ cuts = 0

CallIds == UNION {{c} \X DOMAIN calls[c] : c \in Client}
CallOf(k) == calls[k[1]][k[2]]
Reachable(c, s) == <<c, s>> \in enabled /\ servers[s] # 0

\* The client waits for the call.
Open(k) == CallOf(k).st # "returned"

(***************************************************************************)
(* One call: ClientEnd.Call and processReq.                                *)
(***************************************************************************)
\* The request and what readEndnameInfo says of its way: the instance it will be
\* given to, if there is one.
Call(c, s, args) ==
  /\ Len(calls[c]) < MaxCalls[c] /\ \A n \in DOMAIN calls[c] : ~Open(<<c, n>>)
  /\ calls' = [calls EXCEPT ![c] = Append(@,
       [server |-> s, instance |-> IF Reachable(c, s) THEN servers[s] ELSE 0,
        st |-> "sent", args |-> args, reply |-> Nil])]
  /\ UNCHANGED <<servers, enabled, shutdowns, cuts>>

Progress(k, from, to, reply) ==
  /\ CallOf(k).st = from
  /\ calls' = [calls EXCEPT ![k[1]][k[2]].st = to, ![k[1]][k[2]].reply = reply]
  /\ UNCHANGED <<servers, enabled, shutdowns, cuts>>

\* dispatch: the handler runs, in a goroutine of its own.
Dispatch(k) == CallOf(k).instance # 0 /\ Progress(k, "sent", "executing", Nil)

\* A handler that returns in the step in which it starts.
Dispatched(k, reply) == CallOf(k).instance # 0 /\ Progress(k, "sent", "executed", reply)

\* The handler returns.
Finish(k, reply) == Progress(k, "executing", "executed", reply)

\* mutation: whether the server was deleted is not looked at
isCutOff(k) == <<k[1], CallOf(k).server>> \notin enabled

isServerDead(k) ==
  \/ <<k[1], CallOf(k).server>> \notin enabled
  \/ servers[CallOf(k).server] # CallOf(k).instance

\* The server is not dead when the reply sets out; it may be long on its way.
SendReply(k) == ~isServerDead(k) /\ Progress(k, "executed", "answering", CallOf(k).reply)

\* Call returns true.
Return(k) == Progress(k, "answering", "returned", Nil)

\* Call returns false: the server could not be reached or is dead by now, or the
\* network, if unreliable, drops the request or the reply.
Fail(k) ==
  LET st == CallOf(k).st
  IN  /\ \/ st \in {"sent", "executed"}
         \/ st = "executing" /\ isServerDead(k)
      /\ Progress(k, st, "returned", Nil)

(***************************************************************************)
(* The harness.                                                            *)
(***************************************************************************)
\* DisconnectClient, ConnectClient.
Disconnect(c, s) ==
  /\ cuts < MaxCuts /\ cuts' = cuts + 1
  /\ enabled' = enabled \ {<<c, s>>}
  /\ UNCHANGED <<servers, calls, shutdowns>>

Connect(c, s) ==
  /\ <<c, s>> \notin enabled /\ enabled' = enabled \cup {<<c, s>>}
  /\ UNCHANGED <<servers, calls, shutdowns, cuts>>

DeleteServer(s) ==
  /\ shutdowns < MaxShutdowns /\ shutdowns' = shutdowns + 1
  /\ servers[s] # 0 /\ servers' = [servers EXCEPT ![s] = 0]
  /\ UNCHANGED <<enabled, calls, cuts>>

\* Instances are numbered by the shutdowns before them.
AddServer(s) ==
  /\ servers[s] = 0 /\ servers' = [servers EXCEPT ![s] = shutdowns + 1]
  /\ UNCHANGED <<enabled, calls, shutdowns, cuts>>
=============================================================================
