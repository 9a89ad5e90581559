----------------------------- MODULE ServiceLog -----------------------------
(***************************************************************************)
(* What Raft promises to the services on it (ApplyMsg and Snapshot in      *)
(* src/src/raft/raft.go): there is one log of commands, which only grows,  *)
(* and every service receives it from the start, one command after the     *)
(* other.  The disk of a server holds a snapshot of what comes before some *)
(* point of the log; it moves on and never back, and it is what a service  *)
(* loads when it starts again or has fallen behind.                        *)
(***************************************************************************)
EXTENDS Naturals, Sequences

CONSTANTS Server, Command

VARIABLES
  agreed,     \* the log
  service,    \* what the service of each server has received
  saved       \* the snapshot on the disk of each server

vars == <<agreed, service, saved>>

Nothing == [index |-> 0, cmds |-> <<>>]

Init ==
  /\ agreed = <<>>
  /\ service = [s \in Server |-> Nothing]
  /\ saved = [s \in Server |-> Nothing]

\* One step may settle any number of commands, also a step of a service.
Grows ==
  /\ agreed' \in Seq(Command)
  /\ Len(agreed) <= Len(agreed') /\ SubSeq(agreed', 1, Len(agreed)) = agreed

\* The next command of the log.
Hears(s) ==
  LET next == service[s].index + 1 IN
    /\ next <= Len(agreed')
    /\ service' = [service EXCEPT ![s] = [index |-> next,
                                          cmds  |-> Append(@.cmds, agreed'[next])]]
    /\ UNCHANGED saved

\* A snapshot of the log up to n, the service's own or one the leader has sent.
Saves(s) ==
  \E n \in saved[s].index .. Len(agreed') :
    /\ saved' = [saved EXCEPT ![s] = [index |-> n, cmds |-> SubSeq(agreed', 1, n)]]
    /\ UNCHANGED service

Loads(s) ==
  /\ service' = [service EXCEPT ![s] = saved[s]]
  /\ UNCHANGED saved

Next ==
  /\ Grows
  /\ \/ UNCHANGED <<service, saved>>
     \/ \E s \in Server : Hears(s) \/ Saves(s) \/ Loads(s)

Spec == Init /\ [][Next]_vars
=============================================================================
