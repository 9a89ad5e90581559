----------------------------- MODULE AtomicMap -----------------------------
(***************************************************************************)
(* What kvraft promises to its clerks, the model of src/src/models/kv.go:  *)
(* a map that every Put, Append and Get accesses at one instant between    *)
(* the call and its return, a Put or Append exactly once.                  *)
(*                                                                         *)
(* A write takes effect in a step of its own.  A read returns a value the  *)
(* key had at some instant since the call.  A value is the sequence of the *)
(* writes it is made of.                                                   *)
(***************************************************************************)
EXTENDS Naturals, Sequences

CONSTANTS Clerk, Key, Nil

VARIABLES
  store,      \* the value of each key
  called,     \* what each clerk has called, or Nil
  effective,  \* whether the write it has called has taken effect
  seen,       \* the values of the key since it called Get
  next,       \* the number of its next write
  result      \* what its last Get returned

vars == <<store, called, effective, seen, next, result>>

Writes == {"Put", "Append"}
Kinds == Writes \cup {"Get"}

EmptyStore == [k \in Key |-> <<>>]

\* Put replaces the value, Append extends it; a missing key is an empty value.
Execute(st, op) ==
  LET write == <<op.commiter, op.pos>>
  IN  [st EXCEPT ![op.key] = CASE op.kind = "Put"    -> <<write>>
                               [] op.kind = "Append" -> Append(@, write)
                               [] op.kind = "Get"    -> @]

Init ==
  /\ store = EmptyStore
  /\ called = [c \in Clerk |-> Nil]
  /\ effective = [c \in Clerk |-> FALSE]
  /\ seen = [c \in Clerk |-> {}]
  /\ next = [c \in Clerk |-> 1]
  /\ result = [c \in Clerk |-> Nil]

Call(c, kind, key) ==
  /\ called[c] = Nil
  /\ called' = [called EXCEPT ![c] = [kind |-> kind, key |-> key, commiter |-> c,
                                     pos |-> IF kind \in Writes THEN next[c] ELSE 0]]
  /\ seen' = [seen EXCEPT ![c] = IF kind = "Get" THEN {store[key]} ELSE {}]
  /\ UNCHANGED <<store, effective, next, result>>

Reading(c) == called[c] # Nil /\ called[c].kind = "Get"
Writing(c) == called[c] # Nil /\ called[c].kind \in Writes

TakeEffect(c) ==
  /\ Writing(c) /\ UNCHANGED called
  /\ ~effective[c] /\ effective' = [effective EXCEPT ![c] = TRUE]
  /\ store' = Execute(store, called[c])
  /\ seen' = [d \in Clerk |->
                IF Reading(d) THEN seen[d] \cup {store'[called[d].key]} ELSE seen[d]]
  /\ UNCHANGED <<next, result>>

ReturnWrite(c) ==
  /\ Writing(c) /\ called' = [called EXCEPT ![c] = Nil]
  /\ effective[c] /\ effective' = [effective EXCEPT ![c] = FALSE]
  /\ next' = [next EXCEPT ![c] = @ + 1]
  /\ UNCHANGED <<store, seen, result>>

ReturnRead(c) ==
  /\ Reading(c) /\ called' = [called EXCEPT ![c] = Nil]
  /\ \E v \in seen[c] : result' = [result EXCEPT ![c] = v]
  /\ seen' = [seen EXCEPT ![c] = {}]
  /\ UNCHANGED <<store, effective, next>>

Next == \E c \in Clerk : \/ \E kind \in Kinds, key \in Key : Call(c, kind, key)
                         \/ TakeEffect(c) \/ ReturnWrite(c) \/ ReturnRead(c)

Spec == Init /\ [][Next]_vars
=============================================================================
