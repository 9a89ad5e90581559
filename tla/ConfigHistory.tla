--------------------------- MODULE ConfigHistory ---------------------------
(***************************************************************************)
(* What shardmaster promises to its clerks (src/src/shardmaster/common.go  *)
(* and test_test.go): one history of configurations, which Join, Leave and *)
(* Move extend and Query reads, each at one instant between its call and   *)
(* its return and the former exactly once.  Join and Leave divide the      *)
(* shards evenly and move as few of them as that takes.                    *)
(***************************************************************************)
EXTENDS Integers, Sequences, FiniteSets, FiniteSetsExt

CONSTANTS
  Clerk, NShards, Gid, Nil,
  Request   \* what may be called

VARIABLES
  history,    \* the configurations, number 0 first
  called,     \* what each clerk has called, or Nil
  effective,  \* whether it has taken effect
  seen,       \* the answers there were to a Query since it was called
  result      \* what the last Query returned

vars == <<history, called, effective, seen, result>>

Shard == 0 .. (NShards - 1)
Latest == history[Len(history)]

Init ==
  /\ history = <<[Num |-> 0, Shards |-> [x \in Shard |-> 0], Groups |-> {}]>>
  /\ called = [c \in Clerk |-> Nil]
  /\ effective = [c \in Clerk |-> FALSE]
  /\ seen = [c \in Clerk |-> {}]
  /\ result = [c \in Clerk |-> Nil]

Reading(c) == called[c] # Nil /\ called[c].OpType = "Query"
Writing(c) == called[c] # Nil /\ called[c].OpType # "Query"

AnswerNow(num) == IF num \in 0 .. (Len(history) - 1) THEN history[num + 1] ELSE Latest

Call(c, request) ==
  /\ called[c] = Nil
  /\ called' = [called EXCEPT ![c] = request]
  /\ seen' = [seen EXCEPT ![c] =
                IF request.OpType = "Query" THEN {AnswerNow(request.Num)} ELSE {}]
  /\ UNCHANGED <<history, effective, result>>

(***************************************************************************)
(* Assignments of the shards to the members of a configuration.            *)
(***************************************************************************)
Load(shards, g) == Cardinality({x \in Shard : shards[x] = g})

\* For every set of members, the even assignments.
Even ==
  [members \in SUBSET Gid |->
     IF members = {} THEN {[x \in Shard |-> 0]}
     ELSE {shards \in [Shard -> members] :
             \A g, h \in members : Load(shards, g) <= Load(shards, h) + 1}]

\* Of these, the ones that move the fewest shards.
Rebalanced(old, members) ==
  LET moves(new) == Cardinality({x \in Shard : old[x] # new[x]})
      fewest == Min({moves(new) : new \in Even[members]})
  IN  {new \in Even[members] : moves(new) = fewest}

Members(request) == IF request.OpType = "Join" THEN Latest.Groups \cup request.GIDs
                                               ELSE Latest.Groups \ request.GIDs

\* The configurations a request may make of the latest.
Successors(request) ==
  IF request.OpType = "Move"
    THEN {[Num |-> Latest.Num + 1, Groups |-> Latest.Groups,
           Shards |-> [Latest.Shards EXCEPT ![request.Shard] = request.GID]]}
    ELSE {[Num |-> Latest.Num + 1, Groups |-> Members(request), Shards |-> shards] :
            shards \in Rebalanced(Latest.Shards, Members(request))}

TakeEffect(c) ==
  /\ Writing(c) /\ UNCHANGED called
  /\ ~effective[c] /\ effective' = [effective EXCEPT ![c] = TRUE]
  /\ \E config \in Successors(called[c]) : history' = Append(history, config)
  /\ seen' = [d \in Clerk |->
                IF Reading(d) THEN seen[d] \cup {AnswerNow(called[d].Num)'} ELSE seen[d]]
  /\ UNCHANGED result

ReturnWrite(c) ==
  /\ Writing(c) /\ called' = [called EXCEPT ![c] = Nil]
  /\ effective[c] /\ effective' = [effective EXCEPT ![c] = FALSE]
  /\ UNCHANGED <<history, seen, result>>

ReturnRead(c) ==
  /\ Reading(c) /\ called' = [called EXCEPT ![c] = Nil]
  /\ \E config \in seen[c] : result' = [result EXCEPT ![c] = config]
  /\ seen' = [seen EXCEPT ![c] = {}]
  /\ UNCHANGED <<history, effective>>

Next == \E c \in Clerk : \/ \E request \in Request : Call(c, request)
                         \/ TakeEffect(c) \/ ReturnWrite(c) \/ ReturnRead(c)

Spec == Init /\ [][Next]_vars
=============================================================================
