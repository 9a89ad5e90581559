---------------------------- MODULE KVRaftSafety ----------------------------
(***************************************************************************)
(* What the key/value service of module KVRaft must keep true.             *)
(***************************************************************************)
EXTENDS KVRaft

(***************************************************************************)
(* The map a log stands for: each write executed where it occurs first.    *)
(***************************************************************************)
FirstOccurrence(entries, n) == \A m \in 1..(n - 1) : entries[m].op # entries[n].op

Effect(store, entries, n) ==
  LET op == entries[n].op
      write == <<op.commiter, op.pos>>
  IN  IF op.kind = "Get" \/ ~FirstOccurrence(entries, n) THEN store
      ELSE [store EXCEPT ![op.key] = IF op.kind = "Put" THEN <<write>> ELSE Append(@, write)]

\* The map after each number of entries.
StoresOf(entries) ==
  LET upTo[n \in 0..Len(entries)] ==
        IF n = 0 THEN EmptyStore ELSE Effect(upTo[n - 1], entries, n)
  IN  upTo

Stores == StoresOf(agreed)

\* A replica is the agreed log up to what it has applied, although commands are
\* repeated by retries, snapshots replace state and servers restart from them
\* (server.go:269-308).
ReplicasAgree == \A s \in Server : kvstore[s] = Stores[applied[s]]

\* Apply does not wait for ever in a send with kv.mu locked: a channel without
\* room has a handler that still reads it (server.go:304, 312).
SendsHaveReaders ==
  \A s \in Server : loop[s].st = "sending" =>
    \E n \in loop[s].todo : LET k == notifyChs[s][n]
                            IN  calls[k].ch = <<>> \/ calls[k].st = "waiting"

(***************************************************************************)
(* Linearizability: KVRaft implements AtomicMap.  A write takes effect     *)
(* when the first entry with it is agreed on; a read may return what the   *)
(* key was at any point of the log from its call on.                       *)
(***************************************************************************)
Calling(c, kinds) == clerk[c].st # "idle" /\ clerk[c].op.kind \in kinds

Map == INSTANCE AtomicMap WITH
  store <- Stores[Len(agreed)],
  called <- [c \in Clerk |-> IF clerk[c].st = "idle" THEN Nil ELSE clerk[c].op],
  effective <- [c \in Clerk |->
    Calling(c, Writes) /\ \E n \in DOMAIN agreed : agreed[n].op = clerk[c].op],
  seen <- [c \in Clerk |->
    IF Calling(c, {"Get"})
      THEN {Stores[n][clerk[c].op.key] : n \in clerk[c].since .. Len(agreed)}
      ELSE {}],
  next <- [c \in Clerk |-> clerk[c].numOfOrders]

\* What finding 3 needs: a Get waits at an index that was decided before its call, for
\* an older Get of its clerk.  Excluding it is a condition of theorems, not a property
\* of the code.
NoOldGet ==
  \A c \in Clerk :
    LET k == clerk[c].call IN
    /\ clerk[c].st = "waiting" /\ At(k, "waiting", {"Get"})
    /\ calls[k].index \in 1 .. clerk[c].since
    => LET op == agreed[calls[k].index].op IN op.kind # "Get" \/ op.commiter # c

\* Programs in which it cannot come to that.
OneGetEach ==
  \A scenario \in Scenarios, c \in Clerk :
    LET program == scenario.program[c] IN
    \A i, j \in DOMAIN program : program[i][1] = "Get" /\ program[j][1] = "Get" => i = j

\* Clerks see an atomic map (models/kv.go:17): no write is lost, repeated or
\* acknowledged before it is agreed on, no read is stale.
Linearizable == Map!Spec
=============================================================================
