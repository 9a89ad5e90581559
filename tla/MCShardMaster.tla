--------------------------- MODULE MCShardMaster ---------------------------
(***************************************************************************)
(* ShardMaster and its properties for TLC.                                 *)
(***************************************************************************)
EXTENDS ShardMasterSafety, TLC

CONSTANTS s1, s2, c1, c2

\* s1 may lead twice, and give an index to two requests.
TwoLeaders == {<<1, s1>>, <<2, s1>>, <<2, s2>>}

Join(gids) == [OpType |-> "Join", GIDs |-> gids]
LeaveOf(gids) == [OpType |-> "Leave", GIDs |-> gids]
MoveTo(x, g) == [OpType |-> "Move", Shard |-> x, GID |-> g]
Query(num) == [OpType |-> "Query", Num |-> num]

Joins == {Join({1}), Join({1, 2}), Join({1, 2, 3})}
AnyChange == Joins \cup {Join({3}), LeaveOf({1}), LeaveOf({1, 3})}
             \cup {MoveTo(0, 1), MoveTo(1, 2)}

\* A Join and any three changes by one clerk; a change and a Query after it, at one time as
\* another clerk's Query or before one of its own.
AnyHistory == c1 :> <<Joins, AnyChange, AnyChange, AnyChange>> @@ c2 :> <<>>
JoinAndQuery == c1 :> <<{Join({1})}>> @@ c2 :> <<{Query(-1)}>>
JoinThenQuery == c1 :> <<{Join({1})}, {Query(-1), Query(0)}>> @@ c2 :> <<>>

AllPrograms == {AnyHistory, JoinAndQuery, JoinThenQuery}
FourAndOne == c1 :> 4 @@ c2 :> 1

\* Workload bound: what goes with each program: the RPCs of each clerk, of both, and of
\* both if there is a fault (a shutdown, a disabled end), the length of a log, the
\* terms, the faults.
Bounds ==
  (AnyHistory :>
     [each |-> 4, rpcs |-> 4, faulty |-> 4, index |-> 4, terms |-> 1, faults |-> 0]) @@
  (JoinAndQuery :>
     [each |-> 2, rpcs |-> 3, faulty |-> 3, index |-> 2, terms |-> 2, faults |-> 0]) @@
  (JoinThenQuery :>
     [each |-> 3, rpcs |-> 3, faulty |-> 2, index |-> 3, terms |-> 2, faults |-> 1])

Bound == Bounds[program]
RPCs == Len(calls[c1]) + Len(calls[c2])
MaxRPCs == IF shutdowns + cuts > 0 THEN Bound.faulty ELSE Bound.rpcs
MayCall(c) == RPCs < MaxRPCs /\ Len(calls[c]) < Bound.each

Within ==
  /\ shutdowns' + cuts' <= Bound.faults
  /\ RPCs' <= MaxRPCs' /\ \A c \in Client : Len(calls'[c]) <= Bound.each
  /\ \A s \in Server : term'[s] <= Bound.terms /\ Len(view'[s]) <= Bound.index

\* Without faults there is one server, nothing is lost and nothing times out.
Faultless ==
  program = AnyHistory =>
    /\ term'[s2] = 0 /\ applied'[s2] = 0
    /\ \A c \in Client : clerk[c].st = "waiting" => clerk'[c].st # "trying"
    /\ \A k \in CallIds : CallOf(k).server = s1 /\ CallOf(k).reply # WrongLeader
                        /\ HandlerOf(k).reply # WrongLeader
    /\ \A c \in Client : clerk[c].st = "trying" => s1 \in leading

\* Scheduling bound: what needs nobody else happens at once.  A clerk calls the next
\* server, where the request may still be long on its way; a reply is dropped or
\* arrives; the applier sends on the channel it has locked sm.mu for; a handler that
\* is done deletes its channel.
PromptSteps ==
  LET senders == {s \in Server : ~Unlocked(s)}
      leavers == {k \in CallIds : At(k, "leaving")}
      replies == {k \in CallIds : CallOf(k).st \in {"executed", "answering"}}
      callers == {c \in Client : clerk[c].st = "trying" /\ MayCall(c)}
  IN  senders \cup leavers \cup replies \cup callers # {} =>
        \/ \E s \in senders : sending'[s] # sending[s]
        \/ \E k \in leavers : handler'[k[1]][k[2]] # HandlerOf(k)
        \/ \E k \in replies : calls'[k[1]][k[2]] # CallOf(k)
        \/ \E c \in callers : clerk'[c] # clerk[c]

\* An old leader steps down when there is a newer one, or it is shut down.
DeposedByLeader ==
  \A s \in (leading \ leading') : term[s] < LatestTerm \/ shutdowns' # shutdowns
=============================================================================
