------------------------------ MODULE MCKVRaft ------------------------------
(***************************************************************************)
(* KVRaft and its properties for TLC.                                      *)
(***************************************************************************)
EXTENDS KVRaftSafety, TLC

CONSTANTS s1, s2, c1, c2

\* A leader for term 1 and another for term 2.
TwoLeaders == {<<1, s1>>, <<2, s2>>}

Clerks(p1, p2) == c1 :> p1 @@ c2 :> p2

\* A write with a concurrent read by another clerk, called twice.
WriteAndRead ==
  [program |-> Clerks(<<<<"Append", "k">>>>, <<<<"Get", "k">>>>), rpcs |-> Clerks(1, 2)]

\* Two writes in three calls: a late duplicate of the first may come after the second.
TwoWrites ==
  [program |-> Clerks(<<<<"Append", "k">>, <<"Append", "k">>>>, <<>>), rpcs |-> Clerks(3, 0)]

AllScenarios == {WriteAndRead, TwoWrites}

\* For the two counterexamples: reads before and after a write; two writes in two calls.
ReadWriteRead ==
  {[program |-> Clerks(<<<<"Get", "k">>, <<"Put", "k">>, <<"Get", "k">>>>, <<>>),
    rpcs |-> Clerks(3, 0)]}
TwoWritesOnce == {[TwoWrites EXCEPT !.rpcs = Clerks(2, 0)]}

\* Workload bound: where there is a snapshot or a crash, one clerk makes two calls.
Faulty == restarts > 0 \/ snapshots # {} \/ \E s \in Server : loop[s].st = "saving"
TwoCallsIfFaulty == Faulty' => Len(calls') <= 2 /\ clerk[c2].todo = <<>> /\ clerk[c2].op = Nil

\* Scheduling bound: what needs nobody else happens at once.  A clerk takes a
\* reply, or loses it, and calls the next server, where the request may still be
\* long on its way; Apply sends on the channels it has locked kv.mu for; a handler
\* that is done removes its channel, which can only make another one time out.
PromptSteps ==
  LET answered(c) == clerk[c].st = "waiting" /\ calls[clerk[c].call].st = "replied"
      calling(c) == clerk[c].st = "trying" /\ MayCall(c) /\ (Faulty => Len(calls) < 2)
      clerks == {c \in Clerk : answered(c) \/ calling(c)}
      senders == {s \in Server : \E n \in loop[s].todo : calls[notifyChs[s][n]].ch = <<>>}
      leavers == {k \in DOMAIN calls : calls[k].st = "leaving"}
  IN  clerks \cup senders \cup leavers # {} =>
        \/ \E c \in clerks : clerk'[c] # clerk[c]
        \/ \E s \in senders : loop'[s] # loop[s]
        \/ \E k \in leavers : calls'[k] # calls[k]

\* A call fails only if the clerk has another.
FailedCallsRetry ==
  \A c \in Clerk :
    /\ clerk[c].st = "waiting" /\ calls[clerk[c].call].st # "replied"
    /\ clerk'[c].st # "waiting"
    => clerk[c].rpcs > 0

\* An old leader steps down when there is a newer one, or it crashes.
DeposedByLeader ==
  \A s \in (leading \ leading') : term[s] < LatestTerm \/ restarts' # restarts

\* The state without what no later step can read: a call that is over, the reply
\* of one its clerk has given up, the log of a server that does not lead, what was
\* proposed before the last election.  Calls are named by clerk and number.
Awaited(k) == \E c \in Clerk : clerk[c].st = "waiting" /\ clerk[c].call = k
LiveCall(k) ==
  IF Awaited(k) THEN calls[k]
  ELSE IF calls[k].st \in {"replied", "dead"} THEN <<>>
  ELSE [calls[k] EXCEPT !.reply = Nil]
Name(k) ==
  IF k = 0 THEN <<>>
  ELSE LET c == calls[k].op.commiter
       IN  <<c, Cardinality({j \in 1..k : calls[j].op.commiter = c})>>
LiveClerk(c) ==
  LET cl == clerk[c]
  IN  <<cl.st, cl.numOfOrders, cl.todo, cl.rpcs,
        IF cl.st = "waiting" THEN Name(cl.call) ELSE <<>>,
        IF cl.st # "idle" /\ cl.op.kind = "Get" THEN cl.since ELSE 0>>
LiveState ==
  <<serverVars, agreed, term, leading, result, restarts,
    IF \E t \in Candidates : t[1] > LatestTerm THEN proposed ELSE {},
    [s \in Server |-> IF s \in leading \/ term[s] = LatestTerm THEN view[s] ELSE <<>>],
    [s \in Server |-> [n \in 1..MaxIndex |-> Name(notifyChs[s][n])]],
    {<<Name(k), LiveCall(k)>> : k \in DOMAIN calls},
    [c \in Clerk |-> LiveClerk(c)]>>
=============================================================================
