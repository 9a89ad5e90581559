----------------------------- MODULE AgreedLog -----------------------------
(***************************************************************************)
(* What the Raft servers of src/src/raft look like to the service on them: *)
(* one log of commands that only grows, servers that believe to be leader  *)
(* and give a command the index it will have if it is ever agreed on, and  *)
(* a server that is told of agreed commands in order of their index.       *)
(*                                                                         *)
(* Indices are the public ones: the no-ops of leaders have none.  Terms    *)
(* are counted by elections.  Module Raft has the protocol.                *)
(***************************************************************************)
EXTENDS Naturals, Sequences, SequencesExt

CONSTANTS
  Server,
  Candidates,   \* bound: <<t, s>> if s may win the election of term t
  MaxIndex      \* bound: the length of a log

ASSUME AgreedLogAssumption == Candidates \subseteq Nat \X Server /\ MaxIndex \in Nat

VARIABLES
  agreed,     \* the committed entries
  view,       \* the log of each server, as far as it led
  term,       \* the term each server led last, 0 if it never did
  leading,    \* the servers whose state is Leader
  proposed    \* history: every entry a leader appended, with its index

logVars == <<agreed, view, term, leading, proposed>>

LatestTerm == Max({term[s] : s \in Server})

LogInit ==
  /\ agreed = <<>>
  /\ view = [s \in Server |-> <<>>]
  /\ term = [s \in Server |-> 0]
  /\ leading = {}
  /\ proposed = {}

\* A new leader has every agreed entry, and behind them whatever entries of
\* older leaders it has received.
LogsOfNewLeader ==
  LET candidates(n) == {p.entry : p \in {q \in proposed : q.index = Len(agreed) + n}}
      tails(m) == {t \in [1..m -> {p.entry : p \in proposed}] :
                     \A n \in 1..m : t[n] \in candidates(n)}
  IN  {agreed \o t : t \in UNION {tails(m) : m \in 0..(MaxIndex - Len(agreed))}}

Elect(s) ==
  /\ <<LatestTerm + 1, s>> \in Candidates /\ s \notin leading
  /\ term' = [term EXCEPT ![s] = LatestTerm + 1]
  /\ leading' = leading \cup {s}
  /\ \E L \in LogsOfNewLeader : view' = [view EXCEPT ![s] = L]
  /\ UNCHANGED <<agreed, proposed>>

\* An old leader hears of a newer term, or a server crashes.
StepDown(s) ==
  /\ leading' = leading \ {s}
  /\ UNCHANGED <<agreed, view, term, proposed>>

\* Start(command) on a leader; the index it returns.
NextIndex(s) == Len(view[s]) + 1
Start(s, op) ==
  LET entry == [term |-> term[s], op |-> op]
  IN  /\ s \in leading /\ NextIndex(s) <= MaxIndex
      /\ view' = [view EXCEPT ![s] = Append(@, entry)]
      /\ proposed' = proposed \cup {[index |-> NextIndex(s), entry |-> entry]}
      /\ UNCHANGED <<agreed, term, leading>>

\* The next entry of the latest leader reaches a majority.
Agree ==
  \E s \in Server :
    /\ term[s] = LatestTerm /\ Len(agreed) < Len(view[s])
    /\ agreed' = Append(agreed, view[s][Len(agreed) + 1])
    /\ UNCHANGED <<view, term, leading, proposed>>

\* Server s may be told of the agreed entry at n: as a leader, if it has it.
Knows(s, n) ==
  /\ n \in DOMAIN agreed
  /\ s \in leading => n \in DOMAIN view[s] /\ view[s][n] = agreed[n]
=============================================================================
