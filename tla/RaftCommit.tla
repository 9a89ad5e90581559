----------------------------- MODULE RaftCommit -----------------------------
(***************************************************************************)
(* Proof that what is committed stays.  A server backs entry n of the      *)
(* leader of term T if its log has it, and every vote it has given in a    *)
(* later term went to a log that has it, unless a leader in between        *)
(* does not have it.  What a majority backs is chosen: no later leader     *)
(* lacks it.  A commit index is covered by an entry that is chosen.        *)
(* At the end, what that makes of the services: each receives every        *)
(* command once and in order, from one log for all of them.                *)
(***************************************************************************)
EXTENDS RaftLeaders

(***************************************************************************)
(* Entries that are chosen.                                                *)
(***************************************************************************)
\* The leader of term T has made entry n itself.
Own(g, T, n) == T \in DOMAIN g /\ n \in 1 .. Len(g[T]) /\ g[T][n].term = T

\* The log L has entry n of the leader of term T, and those before.
Has(g, L, T, n) == n <= lastLogIndex(L) /\ Agree(g, lastLogTerm(L), T, n)

\* A leader of a term after T and before the given one lacks entry n of that of T.
Lost(g, T, n, before) == \E t \in DOMAIN g : T < t /\ t < before /\ ~Agree(g, t, T, n)

\* s is a candidate of a term that has no leader yet.
Asks(s) == state[s] = "Candidate" /\ currentTerm[s] \notin DOMAIN ledger

\* i has voted for s in the term of s.
VotedFor(i, s) == \/ Counts(i, currentTerm[s], s)
                  \/ currentTerm[i] = currentTerm[s] /\ votedFor[i] = s

Backs(i, T, n) ==
  /\ T <= currentTerm[i]
  /\ Has(ledger, log[i], T, n) \/ Lost(ledger, T, n, currentTerm[i] + 1)
  /\ \A s \in Server :
       T < currentTerm[s] /\ Asks(s) /\ VotedFor(i, s)
       => Has(ledger, log[s], T, n) \/ Lost(ledger, T, n, currentTerm[s])
  /\ \A e \in elected :
       T < e.term /\ i \in e.votes
       => Agree(ledger, e.term, T, n) \/ Lost(ledger, T, n, e.term)

Chosen(T, n) == Own(ledger, T, n) /\ Majority({i \in Server : Backs(i, T, n)})

(***************************************************************************)
(* The invariant.                                                          *)
(***************************************************************************)
\* Votes are for candidates that were in the term; what a candidate has asked with
\* describes its log as long as the term has no leader.
Asked(m) ==
  m.type = "RequestVote" /\ m.term = currentTerm[m.from] /\ Asks(m.from) =>
    m.lastLogIndex = lastLogIndex(log[m.from]) /\ m.lastLogTerm = lastLogTerm(log[m.from])

Voting ==
  /\ \A i \in Server : votedFor[i] \in Server => currentTerm[i] <= currentTerm[votedFor[i]]
  /\ \A m \in msgs : Asked(m)

\* i backs what the leader of term t has made, up to n.
BacksUpTo(i, t, n) == \A k \in 1 .. n : Own(ledger, t, k) => Backs(i, t, k)

\* What has come back for a request.
SlotAcks(s, i) ==
  LET slot == entryRpc[s][i] IN
    /\ slot.st \in {"sent", "replied"} =>
         slot.req \in msgs /\ slot.req.from = s /\ slot.req.to = i
    /\ slot.st = "replied" /\ slot.req.type = "AppendEntries" /\ slot.reply.success =>
         BacksUpTo(i, slot.req.term, Acked(slot.req))

\* What s counts on: what it and its peers back of its last term as a leader that had
\* initialised its indices.
CountsOn(s, t, i) ==
  \/ matchIndex[s][i] <= log[s].lastIncludedIndex
  \/ /\ Own(ledger, t, matchIndex[s][i])
     /\ BacksUpTo(i, t, matchIndex[s][i]) /\ BacksUpTo(s, t, matchIndex[s][i])

Sent(m) ==
  /\ m.type # "RequestVote" /\ m.term = currentTerm[m.from] /\ state[m.from] = "Leader"
     => turnToLeader[m.from]
  /\ m.type = "InstallSnapshot" => m.lastIncludedIndex <= log[m.from].lastIncludedIndex

Acknowledged ==
  /\ \A s \in Server : \A i \in Others(s) : SlotAcks(s, i)
  /\ \A m \in msgs : Sent(m)
  /\ \A s \in Server : \E t \in DOMAIN ledger :
       /\ state[s] = "Leader" /\ turnToLeader[s] => t = currentTerm[s]
       /\ \A i \in Others(s) : CountsOn(s, t, i)

\* Entry k of a log, or of the leader of a term, comes before one that was chosen no
\* later than in the term.
Covered(s, k) ==
  k > 0 => \E T \in DOMAIN ledger : \E n \in 1 .. Len(ledger[T]) :
             Chosen(T, n) /\ T <= currentTerm[s] /\ k <= n /\ Has(ledger, log[s], T, k)

Carried(t, k) ==
  k > 0 => \E T \in DOMAIN ledger : \E n \in 1 .. Len(ledger[T]) :
             Chosen(T, n) /\ T <= t /\ k <= n

\* The commands among the k first entries of the leader of term t.
Commands(g, t, k) == {j \in 1 .. k : g[t][j].cmd # NoOp}
Counted(g, t, k) == Cardinality(Commands(g, t, k))

Applied(s) == Counted(ledger, lastLogTerm(log[s]), lastApplied[s])

Served(s) ==
  /\ log[s].lastIncludedPublicIndex
       = Counted(ledger, lastLogTerm(log[s]), log[s].lastIncludedIndex)
  /\ persisted[s].snapshot.index = log[s].lastIncludedPublicIndex
  /\ service[s].index <= Applied(s)
  /\ outbox[s] # Nil => outbox[s].index <= Applied(s)
  /\ \A x \in installing[s] : x.data.index <= Applied(s)

Applying(s) ==
  /\ Covered(s, commitIndex[s])
  /\ lastApplied[s] <= commitIndex[s]
  /\ applying[s] => lastApplied[s] < commitIndex[s]
  /\ log[s].lastIncludedIndex > 0 => log[s].lastIncludedIndex <= lastApplied[s]
  /\ At(log[s], log[s].lastIncludedIndex).cmd = NoOp

Carries(m) ==
  /\ m.type = "AppendEntries" => m.leaderCommit <= Acked(m) /\ Carried(m.term, m.leaderCommit)
  /\ m.type = "InstallSnapshot" =>
       /\ Carried(m.term, m.lastIncludedIndex)
       /\ m.lastIncludedPublicIndex = Counted(ledger, m.term, m.lastIncludedIndex)
       /\ m.data.index = m.lastIncludedPublicIndex

Committing ==
  /\ \A s \in Server : Applying(s) /\ Served(s)
  /\ \A m \in msgs : Carries(m)

(***************************************************************************)
(* Leaders that agree.                                                     *)
(***************************************************************************)
\* Agreeing is symmetric and transitive, and who agrees up to n agrees up to less.
LEMMA Agreements ==
  ASSUME NEW g, Ledger(g), NEW t \in DOMAIN g, NEW u \in DOMAIN g, NEW n \in Nat,
         Agree(g, t, u, n)
  PROVE  /\ Agree(g, u, t, n)
         /\ \A k \in 0 .. n : Agree(g, t, u, k)
         /\ \A v \in DOMAIN g : Agree(g, u, v, n) => Agree(g, t, v, n)
<1>1. Len(g[t]) \in Nat /\ Len(g[u]) \in Nat
  BY LedgerBasics
<1>2. Agree(g, u, t, n)
  BY DEF Agree
<1>3. \A k \in 0 .. n : Agree(g, t, u, k)
  BY <1>1 DEF Agree
<1>4. \A v \in DOMAIN g : Agree(g, u, v, n) => Agree(g, t, v, n)
  BY DEF Agree
<1> QED BY <1>2, <1>3, <1>4

\* Every leader agrees with itself.
LEMMA AgreesItself ==
  ASSUME NEW g, NEW t, NEW n, n <= Len(g[t])
  PROVE  Agree(g, t, t, n)
BY DEF Agree

\* What leaders append is of their own term.
OwnEntries(g, h) ==
  \A t \in DOMAIN g : \A k \in 1 .. Len(h[t]) : k <= Len(g[t]) \/ h[t][k].term = t

LedgerGrows ==
  /\ Ledger(ledger) /\ Ledger(ledger')
  /\ GrowsTo(ledger, ledger') /\ OwnEntries(ledger, ledger')

\* Leaders that agree still do when the ledger has grown.
LEMMA AgreeGrows ==
  ASSUME NEW g, Ledger(g), NEW h, GrowsTo(g, h), Ledger(h),
         NEW t \in DOMAIN g, NEW u \in DOMAIN g, NEW n \in Nat, Agree(g, t, u, n)
  PROVE  Agree(h, t, u, n)
<1>1. /\ Len(g[t]) \in Nat /\ Len(g[u]) \in Nat /\ t \in DOMAIN h /\ u \in DOMAIN h
      /\ Len(g[t]) <= Len(h[t]) /\ Len(g[u]) <= Len(h[u])
  BY LedgerBasics DEF GrowsTo
<1>2. Len(h[t]) \in Nat /\ Len(h[u]) \in Nat
  BY <1>1, LedgerBasics
<1>3. n <= Len(g[t]) /\ n <= Len(g[u])
  BY DEF Agree
<1>4. \A j \in 1 .. n : h[t][j] = g[t][j] /\ h[u][j] = g[u][j] /\ g[t][j] = g[u][j]
  BY <1>1, <1>3 DEF Agree, GrowsTo
<1> QED BY <1>1, <1>2, <1>3, <1>4 DEF Agree

\* A later leader that lacks an entry never gets it: what it appends is its own.
LEMMA LackingStays ==
  ASSUME NEW g, Ledger(g), NEW h, GrowsTo(g, h), Ledger(h), OwnEntries(g, h),
         NEW T, NEW n, Own(g, T, n), NEW t \in DOMAIN g, T < t,
         Agree(h, t, T, n)
  PROVE  Agree(g, t, T, n)
<1>1. /\ T \in DOMAIN g /\ T \in Nat /\ t \in Nat /\ Len(g[t]) \in Nat /\ Len(g[T]) \in Nat
      /\ n \in 1 .. Len(g[T]) /\ n \in Nat /\ g[T][n].term = T
      /\ t \in DOMAIN h
  BY LedgerBasics DEF Own, GrowsTo
<1>2. Len(h[t]) \in Nat
  BY <1>1, LedgerBasics
<1>3. n \in 1 .. Len(h[t]) /\ h[t][n] = h[T][n] /\ h[T][n] = g[T][n]
  BY <1>1, <1>2 DEF Agree, GrowsTo
<1>4. n <= Len(g[t])
  BY <1>1, <1>3 DEF OwnEntries
<1>5. h[t][n] = g[t][n]
  BY <1>1, <1>4 DEF GrowsTo
<1>6. TermIn(g, t, n) = TermIn(g, T, n)
  BY <1>1, <1>3, <1>5 DEF TermIn
<1> QED BY <1>1, <1>4, <1>6, SameTermAgrees

\* An own entry stays one, and the leader has no other at its place.
LEMMA OwnStays ==
  ASSUME NEW g, Ledger(g), NEW h, GrowsTo(g, h), Ledger(h), NEW T \in DOMAIN g, NEW n \in Nat
  PROVE  /\ Own(g, T, n) => Own(h, T, n)
         /\ Own(h, T, n) /\ n <= Len(g[T]) => Own(g, T, n)
<1>1. Len(g[T]) \in Nat /\ T \in DOMAIN h /\ Len(g[T]) <= Len(h[T])
  BY LedgerBasics DEF GrowsTo
<1>2. Len(h[T]) \in Nat
  BY <1>1, LedgerBasics
<1>3. n \in 1 .. Len(g[T]) => h[T][n] = g[T][n]
  BY DEF GrowsTo
<1> QED BY <1>1, <1>2, <1>3 DEF Own

\* An own entry of the leader of T is one of another leader only if that is no older.
LEMMA OwnIsOld ==
  ASSUME NEW g, Ledger(g), NEW T, NEW n, Own(g, T, n), NEW t \in DOMAIN g,
         NEW k \in Nat, n <= k, Agree(g, t, T, n), k <= Len(g[t])
  PROVE  T <= TermIn(g, t, k) /\ T <= t
<1>1. /\ T \in DOMAIN g /\ T \in Nat /\ t \in Nat /\ Len(g[t]) \in Nat /\ Len(g[T]) \in Nat
      /\ n \in 1 .. Len(g[T]) /\ n \in Nat /\ n # 0 /\ g[T][n].term = T
  BY LedgerBasics DEF Own
<1>2. n \in 0 .. k /\ k \in 0 .. Len(g[t])
  BY <1>1
<1>3. TermIn(g, t, n) = T
  BY <1>1 DEF Agree, TermIn
<1>4. TermIn(g, t, n) <= TermIn(g, t, k) /\ TermIn(g, t, k) <= t /\ TermIn(g, t, k) \in DOMAIN g
  BY <1>2, TermsRise
<1>5. TermIn(g, t, k) \in Nat
  BY <1>4, LedgerBasics
<1> QED BY <1>1, <1>3, <1>4, <1>5

\* What was lost is lost.
LEMMA LostStays ==
  ASSUME LedgerGrows, NEW T, NEW n, Own(ledger, T, n), NEW before, NEW after \in Int,
         before \in Int, before <= after, Lost(ledger, T, n, before)
  PROVE  Lost(ledger', T, n, after)
<1>1. PICK t \in DOMAIN ledger : T < t /\ t < before /\ ~Agree(ledger, t, T, n)
  BY DEF Lost
<1>2. ~Agree(ledger', t, T, n)
  BY <1>1, LackingStays DEF LedgerGrows
<1>3. t \in DOMAIN ledger' /\ t \in Nat /\ t < after
  BY <1>1, LedgerBasics DEF LedgerGrows, GrowsTo
<1> QED BY <1>1, <1>2, <1>3 DEF Lost

(***************************************************************************)
(* What steps do to what is backed.                                        *)
(***************************************************************************)
\* The log of i keeps its entries ...
Stays(i) ==
  /\ lastLogIndex(log[i]) <= lastLogIndex(log'[i])
  /\ Agree(ledger', lastLogTerm(log[i]), lastLogTerm(log'[i]), lastLogIndex(log[i]))

\* ... or those that the leader of a term t has.
Takes(i, t) ==
  /\ currentTerm[i] <= t /\ t <= currentTerm'[i]
  /\ \A k \in 0 .. lastLogIndex(log[i]) :
       Agree(ledger, lastLogTerm(log[i]), t, k)
       => k <= lastLogIndex(log'[i]) /\ Agree(ledger', lastLogTerm(log'[i]), t, k)

KeepsLog(i) == Stays(i) \/ \E t \in DOMAIN ledger : Takes(i, t)

SameEnd(L, M) == lastLogIndex(L) = lastLogIndex(M) /\ lastLogTerm(L) = lastLogTerm(M)

\* The log L is not newer than M.
Behind(L, M) == \/ lastLogTerm(L) < lastLogTerm(M)
                \/ lastLogTerm(L) = lastLogTerm(M) /\ lastLogIndex(L) <= lastLogIndex(M)

OldVote(i, s) ==
  /\ Asks(s) /\ VotedFor(i, s)
  /\ currentTerm'[s] = currentTerm[s] /\ SameEnd(log'[s], log[s])

NewVote(i, s) ==
  /\ currentTerm[i] <= currentTerm'[s] /\ Behind(log[i], log[s])
  /\ UNCHANGED <<log, ledger>>

\* The leader of e, elected by those that voted for it, starts with its log.
Elects(e) ==
  /\ Asks(e.leader) /\ currentTerm[e.leader] = e.term
  /\ \A i \in e.votes : VotedFor(i, e.leader)
  /\ Agree(ledger', lastLogTerm(log[e.leader]), e.term, lastLogIndex(log[e.leader]))

Advances ==
  /\ LedgerGrows /\ TermsKept
  /\ \A i \in Server : KeepsLog(i)
  /\ \A i, s \in Server : Asks(s)' /\ VotedFor(i, s)' => OldVote(i, s) \/ NewVote(i, s)
  /\ \A e \in elected' : e \in elected \/ Elects(e)

\* A piece of a ledger has the entries of the leader of its own last term.
LEMMA AlongAgrees ==
  ASSUME NEW g, Ledger(g), NEW t, NEW L \in Log, Along(g, L, t)
  PROVE  Agree(g, lastLogTerm(L), t, lastLogIndex(L)) /\ lastLogTerm(L) \in DOMAIN g
<1>1. /\ lastLogIndex(L) \in Nat /\ t \in DOMAIN g /\ t \in Nat
      /\ lastLogIndex(L) <= Len(g[t])
  BY LogBasics, LedgerBasics DEF Along
<1>2. Fits(g, L, t) /\ lastLogTerm(L) = TermIn(g, t, lastLogIndex(L))
  BY <1>1, AlongFits
<1> DEFINE u == lastLogTerm(L)
           n == lastLogIndex(L)
<1>3. u \in DOMAIN g /\ n <= Len(g[u]) /\ n \in Indices(L)
  <2>1. L.lastIncludedIndex \in Nat /\ L.lastIncludedIndex <= n
    BY LogBasics
  <2> QED BY <1>1, <1>2, <2>1 DEF Fits, Along, Indices
<1>4. TermIn(g, u, n) = termAt(L, n) /\ TermIn(g, t, n) = termAt(L, n)
  BY <1>2, <1>3, AlongTerms DEF Fits
<1> HIDE DEF u, n
<1>5. n \in Nat /\ n <= Len(g[t])
  BY <1>1 DEF n
<1>6. Agree(g, u, t, n)
  BY <1>1, <1>3, <1>4, <1>5, SameTermAgrees
<1> QED BY <1>3, <1>6 DEF u, n

\* What is known of the end of a log that fits a ledger ...
LEMMA EndOfPiece ==
  ASSUME NEW g, Ledger(g), NEW L \in Log, NEW term \in Nat, Fits(g, L, term)
  PROVE  /\ lastLogIndex(L) \in Nat /\ lastLogTerm(L) \in DOMAIN g
         /\ lastLogTerm(L) \in Nat /\ lastLogTerm(L) <= term
         /\ lastLogIndex(L) <= Len(g[lastLogTerm(L)])
         /\ TermIn(g, lastLogTerm(L), lastLogIndex(L)) = lastLogTerm(L)
<1>1. Along(g, L, lastLogTerm(L)) /\ lastLogTerm(L) <= term
  BY DEF Fits
<1>2. lastLogTerm(L) \in Nat /\ lastLogIndex(L) \in Nat
  BY LogBasics
<1>3. lastLogTerm(L) = TermIn(g, lastLogTerm(L), lastLogIndex(L))
  BY <1>1, <1>2, AlongFits
<1> QED BY <1>1, <1>2, <1>3 DEF Along

\* ... and so of the log of a server.
LEMMA EndOfLog ==
  ASSUME TypeOK, Matching, NEW s \in Server
  PROVE  /\ lastLogIndex(log[s]) \in Nat /\ lastLogTerm(log[s]) \in DOMAIN ledger
         /\ lastLogTerm(log[s]) \in Nat /\ lastLogTerm(log[s]) <= currentTerm[s]
         /\ lastLogIndex(log[s]) <= Len(ledger[lastLogTerm(log[s])])
         /\ TermIn(ledger, lastLogTerm(log[s]), lastLogIndex(log[s])) = lastLogTerm(log[s])
         /\ currentTerm[s] \in Nat /\ Ledger(ledger)
BY EndOfPiece DEF TypeOK, Matching, LedgerOK

\* The same after a step.
LEMMA EndOfNextLog ==
  ASSUME TypeOK', Matching', NEW s \in Server
  PROVE  /\ lastLogIndex(log'[s]) \in Nat /\ lastLogTerm(log'[s]) \in DOMAIN ledger'
         /\ lastLogTerm(log'[s]) \in Nat /\ lastLogTerm(log'[s]) <= currentTerm'[s]
         /\ lastLogIndex(log'[s]) <= Len(ledger'[lastLogTerm(log'[s])])
         /\ TermIn(ledger', lastLogTerm(log'[s]), lastLogIndex(log'[s])) = lastLogTerm(log'[s])
         /\ currentTerm'[s] \in Nat /\ Ledger(ledger')
BY EndOfPiece DEF TypeOK, Matching, LedgerOK

\* A server that has an entry keeps it, if the leaders in whose terms it may take
\* entries have it.
LEMMA HasMoves ==
  ASSUME TypeOK, TypeOK', Matching, Matching', LedgerGrows, NEW i \in Server, KeepsLog(i),
         NEW T \in DOMAIN ledger, NEW n \in Nat, Has(ledger, log[i], T, n),
         \A t \in DOMAIN ledger :
           currentTerm[i] <= t /\ t <= currentTerm'[i] => Agree(ledger, t, T, n)
  PROVE  /\ Has(ledger', log'[i], T, n)
         /\ Agree(ledger', lastLogTerm(log[i]), lastLogTerm(log'[i]), n)
<1> DEFINE g == ledger
           h == ledger'
           u == lastLogTerm(log[i])
           v == lastLogTerm(log'[i])
           end == lastLogIndex(log[i])
<1>1. /\ Ledger(g) /\ Ledger(h) /\ GrowsTo(g, h) /\ u \in DOMAIN g /\ u \in DOMAIN h
      /\ T \in DOMAIN g /\ T \in DOMAIN h /\ end \in Nat /\ n <= end /\ Agree(g, u, T, n)
  BY EndOfLog DEF LedgerGrows, GrowsTo, Has
<1>2. v \in DOMAIN h /\ lastLogIndex(log'[i]) \in Nat
  BY EndOfNextLog
<1>3. Agree(h, u, T, n) /\ Agree(h, T, u, n)
  BY <1>1, AgreeGrows, Agreements
<1>4. CASE Stays(i)
  <2>1. end <= lastLogIndex(log'[i]) /\ Agree(h, u, v, end)
    BY <1>4 DEF Stays
  <2> HIDE DEF g, h, u, v, end
  <2>2. Agree(h, u, v, n) /\ Agree(h, v, u, n)
    BY <1>1, <1>2, <2>1, Agreements
  <2>3. Agree(h, v, T, n)
    BY <1>1, <1>2, <1>3, <2>2, Agreements
  <2>4. n <= lastLogIndex(log'[i])
    BY <1>1, <1>2, <2>1
  <2> QED BY <2>2, <2>3, <2>4 DEF Has, g, h, u, v
<1>5. ASSUME NEW t \in DOMAIN ledger, Takes(i, t)
      PROVE  Has(ledger', log'[i], T, n) /\ Agree(ledger', u, v, n)
  <2>1. Agree(g, t, T, n) /\ t \in DOMAIN g /\ t \in DOMAIN h
    BY <1>1, <1>5 DEF Takes, GrowsTo
  <2>2. \A k \in 0 .. end : Agree(g, u, t, k) => k <= lastLogIndex(log'[i]) /\ Agree(h, v, t, k)
    BY <1>5 DEF Takes
  <2> HIDE DEF g, h, u, v, end
  <2>3. Agree(g, u, t, n)
    <3>1. Agree(g, T, t, n)
      BY <1>1, <2>1, Agreements
    <3> QED BY <1>1, <2>1, <3>1, Agreements
  <2>4. n <= lastLogIndex(log'[i]) /\ Agree(h, v, t, n) /\ Agree(h, t, v, n)
    BY <1>1, <1>2, <2>1, <2>2, <2>3, Agreements
  <2>5. Agree(h, t, T, n) /\ Agree(h, u, t, n)
    BY <1>1, <2>1, <2>3, AgreeGrows
  <2>6. Agree(h, v, T, n) /\ Agree(h, u, v, n)
    BY <1>1, <1>2, <2>1, <2>4, <2>5, Agreements
  <2> QED BY <2>4, <2>6 DEF Has, g, h, u, v
<1> QED BY <1>4, <1>5 DEF KeepsLog

\* What the leader of T has made, in numbers.
LEMMA OwnBasics ==
  ASSUME Ledger(ledger), NEW T, NEW n, Own(ledger, T, n)
  PROVE  /\ T \in DOMAIN ledger /\ T \in Nat /\ n \in Nat /\ n # 0 /\ Len(ledger[T]) \in Nat
         /\ n <= Len(ledger[T]) /\ TermIn(ledger, T, n) = T
         /\ Agree(ledger, T, T, n)
BY LedgerBasics DEF Own, TermIn, Agree

\* A candidate whose log is not behind one that has an entry has it too, or a leader
\* that lacks it has been elected before.
LEMMA NotBehindHas ==
  ASSUME TypeOK, Matching, NEW i \in Server, NEW s \in Server, NEW T, NEW n,
         Own(ledger, T, n), Has(ledger, log[i], T, n), Behind(log[i], log[s]),
         NEW t \in Nat, lastLogTerm(log[s]) < t
  PROVE  Has(ledger, log[s], T, n) \/ Lost(ledger, T, n, t)
<1> DEFINE g == ledger
           u == lastLogTerm(log[i])
           v == lastLogTerm(log[s])
           end == lastLogIndex(log[s])
<1>1. /\ Ledger(g) /\ u \in DOMAIN g /\ v \in DOMAIN g /\ u \in Nat /\ v \in Nat
      /\ end \in Nat /\ end <= Len(g[v]) /\ TermIn(g, v, end) = v
      /\ lastLogIndex(log[i]) \in Nat /\ lastLogIndex(log[i]) <= Len(g[u])
      /\ n <= lastLogIndex(log[i]) /\ Agree(g, u, T, n)
      /\ TermIn(g, u, lastLogIndex(log[i])) = u
  BY EndOfLog DEF Has
<1>2. /\ T \in DOMAIN g /\ T \in Nat /\ n \in Nat /\ n # 0 /\ n <= Len(g[T])
      /\ TermIn(g, T, n) = T /\ Own(g, T, n) /\ Agree(g, T, T, n)
  BY <1>1, OwnBasics
<1>3. \/ u < v
      \/ u = v /\ lastLogIndex(log[i]) <= end
  BY DEF Behind
<1>4. v < t
  OBVIOUS
<1>5. Has(ledger, log[s], T, n) = (n <= end /\ Agree(g, v, T, n))
  BY DEF Has
<1>6. Lost(ledger, T, n, t) = \E x \in DOMAIN g : T < x /\ x < t /\ ~Agree(g, x, T, n)
  BY DEF Lost
<1> HIDE DEF g, u, v, end
<1>7. T <= u
  BY <1>1, <1>2, OwnIsOld
<1>8. CASE u = v /\ lastLogIndex(log[i]) <= end
  <2>1. n <= end
    BY <1>1, <1>2, <1>8
  <2>2. Agree(g, v, T, n)
    BY <1>1, <1>8
  <2> QED BY <1>5, <2>1, <2>2
<1>9. CASE u < v
  <2>1. CASE ~Agree(g, v, T, n)
    BY <1>1, <1>2, <1>4, <1>6, <1>7, <1>9, <2>1
  <2>2. CASE Agree(g, v, T, n)
    <3>1. n <= end
      <4> SUFFICES ASSUME end < n PROVE FALSE
        BY <1>1, <1>2
      <4>1. Len(g[v]) \in Nat /\ n <= Len(g[v]) /\ TermIn(g, v, n) = T
        BY <1>1, <1>2, <2>2, LedgerBasics DEF Agree, TermIn
      <4>2. n \in 0 .. Len(g[v]) /\ end \in 0 .. n
        BY <1>1, <1>2, <4>1
      <4>3. TermIn(g, v, end) <= TermIn(g, v, n)
        BY <1>1, <4>2, TermsRise
      <4> QED BY <1>1, <1>2, <1>7, <1>9, <4>1, <4>3
    <3> QED BY <1>5, <2>2, <3>1
  <2> QED BY <2>1, <2>2
<1> QED BY <1>3, <1>8, <1>9

\* Backing an entry is for ever.
LEMMA BacksStays ==
  ASSUME TypeOK, TypeOK', Matching, Matching', Advances, NEW i \in Server,
         NEW T, NEW n, Own(ledger, T, n), Backs(i, T, n)
  PROVE  Backs(i, T, n)'
<1> DEFINE g == ledger
           h == ledger'
<1>1. /\ Ledger(g) /\ Ledger(h) /\ GrowsTo(g, h) /\ LedgerGrows
      /\ T \in DOMAIN g /\ T \in DOMAIN h /\ T \in Nat /\ n \in Nat /\ Own(g, T, n)
      /\ Agree(g, T, T, n)
  BY OwnBasics DEF Advances, LedgerGrows, GrowsTo
<1>2. /\ \A x \in Server : /\ currentTerm[x] \in Nat /\ currentTerm'[x] \in Nat
                           /\ currentTerm[x] <= currentTerm'[x]
      /\ \A e \in elected' : e.term \in Nat /\ e.leader \in Server /\ e.term \in DOMAIN h
      /\ \A e \in elected : e.term \in DOMAIN g /\ e.term \in Nat
  BY DEF TypeOK, Advances, TermsKept, Matching, LedgerOK
<1>3. T <= currentTerm'[i]
  BY <1>1, <1>2 DEF Backs
<1>4. Has(h, log'[i], T, n) \/ Lost(h, T, n, currentTerm'[i] + 1)
  <2>1. CASE Lost(g, T, n, currentTerm[i] + 1)
    <3>1. /\ currentTerm[i] + 1 \in Int /\ currentTerm'[i] + 1 \in Int
          /\ currentTerm[i] + 1 <= currentTerm'[i] + 1
      BY <1>2
    <3> QED BY <1>1, <2>1, <3>1, LostStays
  <2>2. CASE Has(g, log[i], T, n) /\ \A t \in DOMAIN g :
               currentTerm[i] <= t /\ t <= currentTerm'[i] => Agree(g, t, T, n)
    BY <1>1, <2>2, HasMoves DEF Advances
  <2>3. ASSUME NEW t \in DOMAIN g, currentTerm[i] <= t, t <= currentTerm'[i], ~Agree(g, t, T, n)
        PROVE  Lost(h, T, n, currentTerm'[i] + 1)
    <3>1. T <= currentTerm[i] /\ t \in Nat /\ t # T
      BY <1>1, <2>3, LedgerBasics DEF Backs
    <3>2. T < t /\ t < currentTerm'[i] + 1 /\ currentTerm'[i] + 1 \in Int
      BY <1>1, <1>2, <2>3, <3>1
    <3>3. Lost(g, T, n, currentTerm'[i] + 1)
      BY <2>3, <3>2 DEF Lost
    <3> QED BY <1>1, <3>2, <3>3, LostStays
  <2> QED BY <2>1, <2>2, <2>3 DEF Backs
<1>5. ASSUME NEW s \in Server, T < currentTerm'[s], Asks(s)', VotedFor(i, s)'
      PROVE  Has(h, log'[s], T, n) \/ Lost(h, T, n, currentTerm'[s])
  <2>1. CASE OldVote(i, s)
    <3>1. Has(g, log[s], T, n) \/ Lost(g, T, n, currentTerm[s])
      BY <1>5, <2>1 DEF OldVote, Backs
    <3>2. CASE Has(g, log[s], T, n)
      <4>1. lastLogTerm(log[s]) \in DOMAIN g /\ Agree(g, lastLogTerm(log[s]), T, n)
        BY <3>2, EndOfLog DEF Has
      <4>2. Agree(h, lastLogTerm(log[s]), T, n)
        <5> HIDE DEF g, h
        <5> QED BY <1>1, <4>1, AgreeGrows
      <4> QED BY <2>1, <3>2, <4>2 DEF Has, OldVote, SameEnd
    <3>3. CASE Lost(g, T, n, currentTerm[s])
      <4>1. currentTerm'[s] = currentTerm[s] /\ currentTerm[s] \in Int
        BY <1>2, <2>1 DEF OldVote
      <4> QED BY <1>1, <3>3, <4>1, LostStays
    <3> QED BY <3>1, <3>2, <3>3
  <2>2. CASE NewVote(i, s)
    <3>1. /\ currentTerm[i] <= currentTerm'[s] /\ Behind(log[i], log[s])
          /\ log'[s] = log[s] /\ h = g /\ currentTerm'[s] \notin DOMAIN g
      BY <1>5, <2>2 DEF NewVote, Asks
    <3>2. CASE Lost(g, T, n, currentTerm[i] + 1)
      <4>1. PICK t \in DOMAIN g : T < t /\ t < currentTerm[i] + 1 /\ ~Agree(g, t, T, n)
        BY <3>2 DEF Lost
      <4>2. t # currentTerm'[s] /\ t \in Nat
        BY <1>1, <3>1, LedgerBasics
      <4>3. t < currentTerm'[s]
        BY <1>2, <3>1, <4>1, <4>2
      <4> QED BY <3>1, <4>1, <4>3 DEF Lost
    <3>3. CASE Has(g, log[i], T, n)
      <4>1. lastLogTerm(log[s]) < currentTerm'[s] /\ currentTerm'[s] \in Nat
        <5>1. /\ lastLogTerm(log'[s]) <= currentTerm'[s] /\ lastLogTerm(log[s]) \in DOMAIN g
              /\ lastLogTerm(log[s]) \in Nat /\ currentTerm'[s] \in Nat
          BY EndOfLog, EndOfNextLog
        <5> QED BY <3>1, <5>1
      <4> QED BY <1>1, <3>1, <3>3, <4>1, NotBehindHas
    <3> QED BY <3>2, <3>3 DEF Backs
  <2> QED BY <1>5, <2>1, <2>2 DEF Advances
<1>6. ASSUME NEW e \in elected', T < e.term, i \in e.votes
      PROVE  Agree(h, e.term, T, n) \/ Lost(h, T, n, e.term)
  <2>0. e.term \in DOMAIN h /\ e.term \in Int /\ e.leader \in Server
    BY <1>2
  <2>1. CASE e \in elected
    <3>1. Agree(g, e.term, T, n) \/ Lost(g, T, n, e.term)
      BY <1>6, <2>1 DEF Backs
    <3>2. e.term \in DOMAIN g
      BY <1>2, <2>1
    <3>3. Agree(g, e.term, T, n) => Agree(h, e.term, T, n)
      <4> HIDE DEF g, h
      <4> QED BY <1>1, <3>2, AgreeGrows
    <3>4. Lost(g, T, n, e.term) => Lost(h, T, n, e.term)
      BY <1>1, <2>0, LostStays
    <3> QED BY <3>1, <3>3, <3>4
  <2>2. CASE Elects(e)
    <3> DEFINE s == e.leader
               u == lastLogTerm(log[s])
               end == lastLogIndex(log[s])
    <3>1. /\ Asks(s) /\ currentTerm[s] = e.term /\ VotedFor(i, s)
          /\ Agree(h, u, e.term, end)
      BY <1>6, <2>2 DEF Elects
    <3>2. Has(g, log[s], T, n) \/ Lost(g, T, n, e.term)
      BY <1>6, <2>0, <3>1 DEF Backs
    <3>3. CASE Has(g, log[s], T, n)
      <4>1. n <= end /\ Agree(g, u, T, n) /\ u \in DOMAIN g /\ end \in Nat /\ u \in DOMAIN h
        BY <1>1, <2>0, <3>3, EndOfLog DEF Has, GrowsTo
      <4> HIDE DEF g, h, s, u, end
      <4>2. Agree(h, u, T, n)
        BY <1>1, <4>1, AgreeGrows
      <4>3. Agree(h, u, e.term, n)
        BY <1>1, <2>0, <3>1, <4>1, Agreements
      <4>4. Agree(h, e.term, u, n)
        BY <1>1, <2>0, <4>1, <4>3, Agreements
      <4> QED BY <1>1, <2>0, <4>1, <4>2, <4>4, Agreements
    <3>4. CASE Lost(g, T, n, e.term)
      BY <1>1, <2>0, <3>4, LostStays
    <3> QED BY <3>2, <3>3, <3>4
  <2> QED BY <2>1, <2>2 DEF Advances
<1> QED BY <1>3, <1>4, <1>5, <1>6 DEF Backs

(***************************************************************************)
(* Every step advances: the logs.                                          *)
(***************************************************************************)
\* A log keeps its entries if it still has its last one.
LEMMA StaysByEntry ==
  ASSUME TypeOK, TypeOK', Matching, Matching', LedgerGrows, NEW i \in Server,
         lastLogIndex(log[i]) \in Indices(log'[i]),
         termAt(log'[i], lastLogIndex(log[i])) = lastLogTerm(log[i])
  PROVE  Stays(i)
<1> DEFINE g == ledger
           h == ledger'
           u == lastLogTerm(log[i])
           end == lastLogIndex(log[i])
           N == log'[i]
           v == lastLogTerm(log'[i])
<1>1. /\ Ledger(g) /\ Ledger(h) /\ GrowsTo(g, h) /\ u \in DOMAIN g /\ end \in Nat
      /\ end <= Len(g[u]) /\ TermIn(g, u, end) = u
  BY EndOfLog DEF LedgerGrows
<1>2. N \in Log /\ Along(h, N, v) /\ v \in DOMAIN h
  BY EndOfNextLog DEF TypeOK, Matching, Fits
<1>3. end \in Indices(N) /\ termAt(N, end) = u
  OBVIOUS
<1>4. end <= lastLogIndex(N)
  BY <1>1, <1>2, <1>3, LogBasics DEF Indices
<1> HIDE DEF g, h, u, v, end, N
<1>5. end \in 0 .. Len(h[v]) /\ TermIn(h, v, end) = u
  BY <1>1, <1>2, <1>3, AlongTerms
<1>6. u \in DOMAIN h /\ end <= Len(h[u]) /\ TermIn(h, u, end) = u
  BY <1>1, GrownTerms
<1>7. end <= Len(h[v])
  BY <1>1, <1>2, <1>5, LedgerBasics
<1>8. Agree(h, u, v, end)
  BY <1>1, <1>2, <1>5, <1>6, <1>7, SameTermAgrees
<1> QED BY <1>4, <1>8 DEF Stays, h, u, v, end, N

\* A log that has not changed keeps its entries.
LEMMA SameLogStays ==
  ASSUME TypeOK, TypeOK', Matching, Matching', LedgerGrows, NEW i \in Server,
         log'[i] = log[i]
  PROVE  Stays(i)
<1>1. lastLogIndex(log[i]) \in Indices(log[i])
  BY LogBasics DEF TypeOK, Indices
<1> QED BY <1>1, StaysByEntry DEF lastLogTerm

\* A log that becomes a piece of the ledger of term T, or ends as it did, still has
\* what it had of that ledger if it still reaches as far.
LEMMA TakesPiece ==
  ASSUME NEW g, Ledger(g), NEW L \in Log, NEW N \in Log, Along(g, L, lastLogTerm(L)),
         NEW T \in DOMAIN g,
         \/ SameEnd(L, N)
         \/ /\ Along(g, N, T)
            /\ \A k \in 0 .. lastLogIndex(L) :
                 Agree(g, lastLogTerm(L), T, k) => k <= lastLogIndex(N)
  PROVE  \A k \in 0 .. lastLogIndex(L) : Agree(g, lastLogTerm(L), T, k) =>
           k <= lastLogIndex(N) /\ Agree(g, lastLogTerm(N), T, k)
<1> DEFINE u == lastLogTerm(L)
           v == lastLogTerm(N)
           end == lastLogIndex(L)
<1>1. end \in Nat /\ lastLogIndex(N) \in Nat
  BY LogBasics
<1> SUFFICES ASSUME NEW k \in 0 .. end, Agree(g, u, T, k)
             PROVE  k <= lastLogIndex(N) /\ Agree(g, v, T, k)
  OBVIOUS
<1>2. CASE SameEnd(L, N)
  BY <1>1, <1>2 DEF SameEnd
<1>3. CASE Along(g, N, T) /\ k <= lastLogIndex(N)
  <2>1. Agree(g, v, T, lastLogIndex(N)) /\ v \in DOMAIN g
    BY <1>3, AlongAgrees
  <2> HIDE DEF v
  <2>2. k \in 0 .. lastLogIndex(N)
    BY <1>1, <1>3
  <2> QED BY <1>1, <1>3, <2>1, <2>2, Agreements
<1> QED BY <1>2, <1>3

\* The steps that change a ledger or a log.
LEMMA LogChanges ==
  ASSUME TypeOK, PersistedIsCurrent, NeverTorn, [Next]_vars
  PROVE  /\ \/ ledger' = ledger
            \/ \E s \in Server : BecomeLeader(s) \/ \E c \in Command : Start(s, c)
         /\ \/ \A i \in Server : log'[i] = log[i]
            \/ \E s \in Server : BecomeLeader(s) \/ Snapshot(s) \/ \E c \in Command : Start(s, c)
            \/ \E m \in msgs : /\ AppendEntries(m) /\ AcceptEntries(m)
            \/ \E m \in msgs : /\ InstallSnapshot(m) /\ InstallNewSnapshot(m)
<1>1. CASE UNCHANGED vars
  BY <1>1 DEF vars, electionVars
<1>2. ASSUME NEW s \in Server, ServerStep(s)
      PROVE  \/ UNCHANGED ledger /\ \A i \in Server : log'[i] = log[i]
             \/ UNCHANGED ledger /\ Snapshot(s)
             \/ BecomeLeader(s) \/ \E c \in Command : Start(s, c)
  <2>1. CASE Restart(s)
    BY <2>1 DEF Restart, Boot, PersistedIsCurrent, TypeOK
  <2>2. CASE Snapshot(s)
    BY <2>2 DEF Snapshot, ServiceUnchanged, electionVars
  <2>3. CASE \/ StartElection(s) \/ TallyVotes(s) \/ InitLeader(s) \/ CheckCommit(s)
             \/ ApplyCheck(s) \/ ApplyNext(s) \/ ReceiveCommand(s) \/ ReceiveSnapshot(s)
    <3>1. UNCHANGED <<log, ledger>>
      BY <2>3, Zenon DEF StartElection, TallyVotes, InitLeader, CheckCommit, ApplyCheck, ApplyNext,
         ReceiveCommand, ReceiveSnapshot, ServiceUnchanged, electionVars
    <3> QED BY <3>1
  <2> QED BY <1>2, <2>1, <2>2, <2>3 DEF ServerStep
<1>3. ASSUME NEW s \in Server, NEW i \in Others(s), PeerStep(s, i)
      PROVE  UNCHANGED <<log, ledger>>
  BY <1>3, Zenon DEF PeerStep, SendRequest, HandleRequestVoteReply, SendSnapshot, SendEntries,
     Sending, LeaderStepsDown, HandleRejection, HandleSuccess, HandleInstallSnapshotReply,
     ReplyUnchanged, electionVars
<1>4. ASSUME NEW m \in msgs, Receive(m)
      PROVE  /\ UNCHANGED ledger
             /\ \/ UNCHANGED log
                \/ AppendEntries(m) /\ AcceptEntries(m)
                \/ InstallSnapshot(m) /\ InstallNewSnapshot(m)
  <2>1. CASE RequestVote(m)
    BY <2>1 DEF RequestVote, VoteInNewTerm, VoteAgain, VoteInCurrentTerm, RefuseVote, VoteUnchanged
  <2>2. CASE AppendEntries(m)
    BY <2>2 DEF AppendEntries, StaleAppendEntries, AppendEntriesToLeader, RejectEntries,
       AcceptEntries, EntriesUnchanged, electionVars
  <2>3. CASE InstallSnapshot(m)
    BY <2>3 DEF InstallSnapshot, RefuseSnapshot, IgnoreOldSnapshot, electionVars
  <2>4. CASE TornAppendEntries(m)
    BY <2>4, TornTerms DEF Untorn
  <2> QED BY <1>4, <2>1, <2>2, <2>3, <2>4 DEF Receive
<1>5. CASE Next
  <2>1. CASE \E s \in Server : ServerStep(s)
    BY <1>2, <2>1
  <2>2. CASE \E s \in Server : \E i \in Others(s) : PeerStep(s, i)
    BY <1>3, <2>2
  <2>3. CASE \E m \in msgs : Receive(m)
    BY <1>4, <2>3
  <2> QED BY <1>5, <2>1, <2>2, <2>3 DEF Next
<1> QED BY <1>1, <1>5

\* What a leader adds to its ledger is of its own term.
LEMMA ExtendsGrows ==
  ASSUME NEW g, Ledger(g), NEW T \in DOMAIN g \ {0}, NEW x \in Entry, x.term = T,
         NEW h, h = [g EXCEPT ![T] = Append(@, x)]
  PROVE  GrowsTo(g, h) /\ OwnEntries(g, h)
<1>1. GrowsTo(g, h)
  BY LedgerExtends
<1>2. Len(h[T]) = Len(g[T]) + 1
  BY LedgerExtends
<1>3. h[T][Len(g[T]) + 1] = x
  BY LedgerExtends
<1>4. \A t \in DOMAIN g : /\ Len(g[t]) \in Nat
                          /\ t # T => h[t] = g[t]
  BY LedgerBasics
<1> QED BY <1>1, <1>2, <1>3, <1>4 DEF OwnEntries

\* The ledger grows: a leader adds to its own, a new one starts its own.
LEMMA LedgerAdvances ==
  ASSUME TypeOK, TypeOK', PersistedIsCurrent, Matching, Matching', Orderly, ElectionSafety',
         NeverTorn, [Next]_vars
  PROVE  LedgerGrows
<1>1. Ledger(ledger) /\ Ledger(ledger')
  BY DEF Matching, LedgerOK
<1>2. CASE ledger' = ledger
  <2>1. GrowsTo(ledger, ledger') /\ OwnEntries(ledger, ledger')
    BY <1>1, <1>2, LedgerBasics DEF GrowsTo, OwnEntries
  <2> QED BY <1>1, <2>1 DEF LedgerGrows
<1>3. ASSUME NEW s \in Server, BecomeLeader(s)
      PROVE  LedgerGrows
  <2>1. /\ \A t \in DOMAIN ledger : t # currentTerm[s]
        /\ ledger' = [t \in DOMAIN ledger \cup {currentTerm[s]} |->
                        IF t = currentTerm[s] THEN Whole(log'[s]) ELSE ledger[t]]
    BY <1>3, NoLeaderYet DEF BecomeLeader
  <2>2. DOMAIN ledger \subseteq DOMAIN ledger' /\ \A t \in DOMAIN ledger : ledger'[t] = ledger[t]
    BY <2>1
  <2>3. GrowsTo(ledger, ledger') /\ OwnEntries(ledger, ledger')
    BY <1>1, <2>2, LedgerBasics DEF GrowsTo, OwnEntries
  <2> QED BY <1>1, <2>3 DEF LedgerGrows
<1>4. ASSUME NEW s \in Server, NEW c \in Command, Start(s, c)
      PROVE  LedgerGrows
  <2> DEFINE T == currentTerm[s]
             x == [term |-> currentTerm[s], cmd |-> c]
  <2>1. Leads(s) /\ T >= 1 /\ T \in Nat
    BY <1>4 DEF Matching, Start, TypeOK
  <2>2. T \in DOMAIN ledger \ {0}
    BY <2>1 DEF Leads, Elected, Matching, LedgerOK
  <2>3. x \in Entry /\ x.term = T /\ ledger' = [ledger EXCEPT ![T] = Append(@, x)]
    BY <1>4, <2>1 DEF Entry, Start
  <2> HIDE DEF T, x
  <2>4. GrowsTo(ledger, ledger') /\ OwnEntries(ledger, ledger')
    BY <1>1, <2>2, <2>3, ExtendsGrows
  <2> QED BY <1>1, <2>4 DEF LedgerGrows
<1> QED BY <1>2, <1>3, <1>4, LogChanges

\* A log to which an entry is appended keeps its entries.
LEMMA AppendStays ==
  ASSUME TypeOK, TypeOK', Matching, Matching', LedgerGrows, NEW s \in Server,
         NEW x \in Entry, log' = [log EXCEPT ![s] = append(@, x)]
  PROVE  \A i \in Server : Stays(i)
<1>1. log[s] \in Log /\ log'[s] = append(log[s], x)
  BY DEF TypeOK
<1>2. \A i \in Server \ {s} : log'[i] = log[i]
  BY DEF TypeOK
<1>3. lastLogIndex(log[s]) \in Indices(log[s])
  BY <1>1, LogBasics DEF Indices
<1>4. /\ SameStart(log'[s], log[s]) /\ lastLogIndex(log'[s]) = lastLogIndex(log[s]) + 1
      /\ At(log'[s], lastLogIndex(log[s])) = At(log[s], lastLogIndex(log[s]))
  BY <1>1, <1>3, AppendGives
<1>5. /\ lastLogIndex(log[s]) \in Indices(log'[s])
      /\ termAt(log'[s], lastLogIndex(log[s])) = lastLogTerm(log[s])
  BY <1>1, <1>3, <1>4, LogBasics DEF Indices, SameStart, termAt, lastLogTerm
<1>6. Stays(s)
  BY <1>5, StaysByEntry
<1> QED BY <1>2, <1>6, SameLogStays

\* A snapshot leaves the log its end.
LEMMA SnapshotSameEnd ==
  ASSUME TypeOK, TypeOK', Matching, NEW s \in Server, Snapshot(s)
  PROVE  \A i \in Server : SameEnd(log'[i], log[i])
<1> DEFINE real == publicToRealIndex(log[s], service[s].index)
           N == compact(log[s], real, service[s].index)
<1>1. log' = [log EXCEPT ![s] = N] /\ real # NotFound
  BY DEF Snapshot
<1>2. service[s].index \in Nat /\ log[s] \in Log
  BY DEF TypeOK, Snap
<1>3. real \in Indices(log[s])
  BY <1>1, <1>2, RealIndexType
<1>4. log'[s] = N /\ \A x \in Server \ {s} : log'[x] = log[x]
  BY <1>1 DEF TypeOK
<1>5. N \in Log
  BY <1>4 DEF TypeOK
<1> HIDE DEF real
<1>6. /\ Along(ledger, N, lastLogTerm(log[s])) /\ lastLogIndex(N) = lastLogIndex(log[s])
      /\ lastLogTerm(log[s]) \in Nat
  BY <1>2, <1>3, <1>5, LogOfServer, CompactKeepsPiece
<1> HIDE DEF N
<1>7. /\ lastLogTerm(N) = TermIn(ledger, lastLogTerm(log[s]), lastLogIndex(log[s]))
      /\ lastLogTerm(log[s]) = TermIn(ledger, lastLogTerm(log[s]), lastLogIndex(log[s]))
  BY <1>5, <1>6, LogOfServer, AlongFits
<1> QED BY <1>4, <1>6, <1>7 DEF SameEnd

\* A follower that accepts entries takes those of the leader that sent them.
LEMMA AcceptTakes ==
  ASSUME TypeOK, TypeOK', Matching, Matching', LedgerGrows, NEW m \in msgs,
         m.type = "AppendEntries", AcceptEntries(m)
  PROVE  /\ Takes(m.to, m.term) /\ m.term \in DOMAIN ledger /\ ledger' = ledger
         /\ \A i \in Server \ {m.to} : log'[i] = log[i]
         /\ Acked(m) <= lastLogIndex(log'[m.to])
         /\ Agree(ledger, lastLogTerm(log'[m.to]), m.term, Acked(m))
<1> DEFINE L == log[m.to]
           t == lastLogTerm(log[m.to])
           N == merge(log[m.to], m.prevLogIndex, m.entries)
           kept == Acked(m) <= lastLogIndex(L) /\ Agree(ledger, t, m.term, Acked(m))
<1>1. m.to \in Server /\ m.term \in Nat /\ m \in EntriesRequest
  BY RequestTypes DEF TypeOK
<1>2. /\ Follow(m) /\ log' = [log EXCEPT ![m.to] = N] /\ m.term >= currentTerm[m.to]
      /\ Consistent(L, m.prevLogIndex, m.prevLogTerm) /\ ledger' = ledger
  BY DEF AcceptEntries, EntriesUnchanged, electionVars
<1>3. currentTerm'[m.to] = m.term /\ currentTerm[m.to] \in Nat
  BY <1>1, <1>2 DEF Follow, AdoptTerm, TypeOK
<1>4. L \in Log /\ Ledger(ledger) /\ Along(ledger, L, t)
  BY <1>1, LogOfServer
<1>5. /\ EntriesFit(ledger, m) /\ m.term \in DOMAIN ledger
      /\ Acked(m) >= 1 /\ Acked(m) <= Len(ledger[m.term])
  BY DEF Matching, RequestFits, EntriesFit
<1>6. log'[m.to] = N /\ \A i \in Server \ {m.to} : log'[i] = log[i]
  BY <1>1, <1>2 DEF TypeOK
<1>7. N \in Log
  BY <1>1, <1>6 DEF TypeOK
<1>8. Acked(m) \in Nat
  BY <1>1 DEF Acked, EntriesRequest
<1> HIDE DEF L, t, N, kept
<1>9. /\ kept => N = L
      /\ ~kept => Along(ledger, N, m.term) /\ lastLogIndex(N) = Acked(m)
  <2>1. N = merge(L, m.prevLogIndex, m.entries)
    BY DEF N, L
  <2>2. kept = (Acked(m) <= lastLogIndex(L) /\ Agree(ledger, t, m.term, Acked(m)))
    BY DEF kept
  <2> QED BY <1>1, <1>2, <1>4, <1>5, <1>7, <2>1, <2>2, MergeLeavesPiece
<1>10. t = lastLogTerm(L) /\ t \in DOMAIN ledger /\ lastLogIndex(L) \in Nat
  BY <1>4, LogBasics DEF t, L, Along
<1>11. \/ SameEnd(L, N)
       \/ /\ Along(ledger, N, m.term)
          /\ \A k \in 0 .. lastLogIndex(L) :
               Agree(ledger, lastLogTerm(L), m.term, k) => k <= lastLogIndex(N)
  <2>1. CASE kept
    BY <1>9, <2>1 DEF SameEnd
  <2>2. CASE ~kept
    <3>1. ASSUME NEW k \in 0 .. lastLogIndex(L), Agree(ledger, t, m.term, k), ~(k <= Acked(m))
          PROVE  FALSE
      <4>1. k \in Nat /\ Acked(m) \in 0 .. k /\ Acked(m) <= lastLogIndex(L)
        BY <1>8, <1>10, <3>1
      <4>2. Agree(ledger, t, m.term, Acked(m))
        BY <1>4, <1>5, <1>10, <3>1, <4>1, Agreements
      <4> QED BY <2>2, <4>1, <4>2 DEF kept
    <3> QED BY <1>9, <1>10, <2>2, <3>1
  <2> QED BY <2>1, <2>2
<1>12. \A k \in 0 .. lastLogIndex(L) : Agree(ledger, t, m.term, k) =>
         k <= lastLogIndex(N) /\ Agree(ledger, lastLogTerm(N), m.term, k)
  BY <1>4, <1>5, <1>7, <1>10, <1>11, TakesPiece
<1>13. Takes(m.to, m.term)
  <2>1. currentTerm[m.to] <= m.term /\ m.term <= currentTerm'[m.to]
    BY <1>1, <1>2, <1>3
  <2>2. \A k \in 0 .. lastLogIndex(log[m.to]) :
          Agree(ledger, lastLogTerm(log[m.to]), m.term, k) =>
            /\ k <= lastLogIndex(log'[m.to])
            /\ Agree(ledger', lastLogTerm(log'[m.to]), m.term, k)
    BY <1>2, <1>6, <1>12 DEF t, L
  <2> QED BY <2>1, <2>2 DEF Takes
<1>14. Acked(m) <= lastLogIndex(N) /\ Agree(ledger, lastLogTerm(N), m.term, Acked(m))
  <2>1. CASE kept
    BY <1>9, <1>10, <2>1 DEF kept
  <2>2. CASE ~kept
    <3>1. Along(ledger, N, m.term) /\ lastLogIndex(N) = Acked(m)
      BY <1>9, <2>2
    <3>2. Agree(ledger, lastLogTerm(N), m.term, lastLogIndex(N))
      BY <1>4, <1>7, <3>1, AlongAgrees
    <3> QED BY <1>8, <3>1, <3>2
  <2> QED BY <2>1, <2>2
<1> QED BY <1>2, <1>5, <1>6, <1>13, <1>14

\* A server that installs a snapshot takes the entries it stands for.
LEMMA InstallTakes ==
  ASSUME TypeOK, TypeOK', Matching, Matching', LedgerGrows, NEW m \in msgs,
         InstallSnapshot(m), InstallNewSnapshot(m)
  PROVE  /\ Takes(m.to, m.term) /\ m.term \in DOMAIN ledger /\ ledger' = ledger
         /\ \A i \in Server \ {m.to} : log'[i] = log[i]
         /\ log'[m.to].lastIncludedIndex = m.lastIncludedIndex
         /\ Agree(ledger, lastLogTerm(log'[m.to]), m.term, m.lastIncludedIndex)
<1> DEFINE L == log[m.to]
           t == lastLogTerm(log[m.to])
           index == m.lastIncludedIndex
           term == m.lastIncludedTerm
           public == m.lastIncludedPublicIndex
           N == install(log[m.to], m.lastIncludedIndex, m.lastIncludedTerm,
                        m.lastIncludedPublicIndex)
           kept == index \in Indices(L) /\ At(L, index).term = term
<1>1. m.to \in Server /\ m.term \in Nat /\ m \in SnapshotRequest
  BY RequestTypes DEF TypeOK, InstallSnapshot
<1>2. /\ AcceptSnapshotTerm(m) /\ log' = [log EXCEPT ![m.to] = N]
      /\ m.term >= currentTerm[m.to] /\ ledger' = ledger
      /\ index > L.lastIncludedIndex
  BY DEF InstallNewSnapshot, InstallSnapshot, electionVars
<1>3. currentTerm'[m.to] = m.term /\ currentTerm[m.to] \in Nat
  <2>1. currentTerm[m.to] \in Nat
    BY <1>1 DEF TypeOK
  <2>2. CASE currentTerm[m.to] < m.term
    BY <1>1, <1>2, <2>1, <2>2, AdoptTermGives DEF AcceptSnapshotTerm
  <2>3. CASE ~(currentTerm[m.to] < m.term)
    BY <1>1, <1>2, <2>1, <2>3 DEF AcceptSnapshotTerm
  <2> QED BY <2>1, <2>2, <2>3
<1>4. L \in Log /\ Ledger(ledger) /\ Along(ledger, L, t)
  BY <1>1, LogOfServer
<1>5. /\ index \in Nat /\ term \in Nat /\ public \in Nat
      /\ m.term \in DOMAIN ledger /\ index <= Len(ledger[m.term])
      /\ term = TermIn(ledger, m.term, index)
  BY <1>1 DEF Matching, RequestFits, SnapshotFits, InstallSnapshot, SnapshotRequest
<1>6. log'[m.to] = N /\ \A i \in Server \ {m.to} : log'[i] = log[i]
  BY <1>1, <1>2 DEF TypeOK
<1>7. N \in Log
  BY <1>1, <1>6 DEF TypeOK
<1>8. /\ N = install(L, index, term, public) /\ t = lastLogTerm(L)
      /\ kept = (index \in Indices(L) /\ At(L, index).term = term)
  OBVIOUS
<1> HIDE DEF L, t, index, term, public, N, kept
<1>9. /\ N.lastIncludedIndex = index
      /\ kept => Along(ledger, N, t) /\ lastLogIndex(N) = lastLogIndex(L)
      /\ ~kept => Along(ledger, N, m.term) /\ lastLogIndex(N) = index
  BY <1>4, <1>5, <1>7, <1>8, InstallLeavesPiece
<1>10. /\ t \in DOMAIN ledger /\ lastLogIndex(L) \in Nat /\ t \in Nat
       /\ L.lastIncludedIndex \in Nat /\ TermIn(ledger, t, lastLogIndex(L)) = t
       /\ lastLogIndex(L) <= Len(ledger[t])
  <2>1. t \in DOMAIN ledger /\ lastLogIndex(L) \in Nat /\ L.lastIncludedIndex \in Nat
    BY <1>4, LogBasics DEF Along
  <2>2. t \in Nat /\ TermIn(ledger, t, lastLogIndex(L)) = t
    BY <1>4, <1>8, <2>1, AlongFits, LedgerBasics
  <2> QED BY <1>4, <2>1, <2>2 DEF Along
<1>11. kept => SameEnd(L, N)
  <2> SUFFICES ASSUME kept PROVE SameEnd(L, N)
    OBVIOUS
  <2>1. Along(ledger, N, t) /\ lastLogIndex(N) = lastLogIndex(L)
    BY <1>9
  <2>2. lastLogTerm(N) = TermIn(ledger, t, lastLogIndex(N))
    BY <1>4, <1>7, <1>10, <2>1, AlongFits
  <2> QED BY <1>8, <1>10, <2>1, <2>2 DEF SameEnd
<1>12. ASSUME NEW k \in 0 .. lastLogIndex(L), Agree(ledger, t, m.term, k), index <= k
       PROVE  kept
  <2>1. index \in Indices(L) /\ index \in 0 .. k /\ k \in Nat
    BY <1>2, <1>5, <1>10, <1>12 DEF Indices, L, index
  <2>2. Agree(ledger, t, m.term, index)
    BY <1>4, <1>5, <1>10, <1>12, <2>1, Agreements
  <2>3. At(L, index).term = TermIn(ledger, t, index)
    BY <1>4, <2>1, AlongTerms
  <2>4. TermIn(ledger, t, index) = TermIn(ledger, m.term, index)
    BY <1>5, <2>2 DEF Agree, TermIn
  <2> QED BY <1>5, <1>8, <2>1, <2>3, <2>4
<1>13. \/ SameEnd(L, N)
       \/ /\ Along(ledger, N, m.term)
          /\ \A k \in 0 .. lastLogIndex(L) :
               Agree(ledger, lastLogTerm(L), m.term, k) => k <= lastLogIndex(N)
  <2>1. CASE kept
    BY <1>11, <2>1
  <2>2. CASE ~kept
    <3>1. \A k \in 0 .. lastLogIndex(L) : Agree(ledger, t, m.term, k) => k <= index
      BY <1>5, <1>10, <1>12, <2>2
    <3> QED BY <1>8, <1>9, <2>2, <3>1
  <2> QED BY <2>1, <2>2
<1>14. \A k \in 0 .. lastLogIndex(L) : Agree(ledger, t, m.term, k) =>
         k <= lastLogIndex(N) /\ Agree(ledger, lastLogTerm(N), m.term, k)
  BY <1>4, <1>5, <1>7, <1>8, <1>13, TakesPiece
<1>15. Takes(m.to, m.term)
  <2>1. currentTerm[m.to] <= m.term /\ m.term <= currentTerm'[m.to]
    BY <1>1, <1>2, <1>3
  <2>2. \A k \in 0 .. lastLogIndex(log[m.to]) :
          Agree(ledger, lastLogTerm(log[m.to]), m.term, k) =>
            /\ k <= lastLogIndex(log'[m.to])
            /\ Agree(ledger', lastLogTerm(log'[m.to]), m.term, k)
    BY <1>2, <1>6, <1>14 DEF t, L
  <2> QED BY <2>1, <2>2 DEF Takes
<1>16. Agree(ledger, lastLogTerm(N), m.term, index)
  <2>1. CASE kept
    <3>1. index \in Indices(L) /\ At(L, index).term = term
      BY <1>8, <2>1
    <3>2. At(L, index).term = TermIn(ledger, t, index) /\ index \in 0 .. Len(ledger[t])
      BY <1>4, <3>1, AlongTerms
    <3>3. index <= Len(ledger[t])
      BY <1>4, <1>10, <3>2, LedgerBasics
    <3>4. Agree(ledger, t, m.term, index)
      BY <1>4, <1>5, <1>10, <3>1, <3>2, <3>3, SameTermAgrees
    <3>5. lastLogTerm(N) = t
      BY <1>8, <1>11, <2>1 DEF SameEnd
    <3> QED BY <3>4, <3>5
  <2>2. CASE ~kept
    BY <1>4, <1>7, <1>9, <2>2, AlongAgrees
  <2> QED BY <2>1, <2>2
<1> QED BY <1>2, <1>5, <1>6, <1>9, <1>15, <1>16 DEF index

\* Every step keeps the logs, or takes what a leader has.
LEMMA LogsKept ==
  ASSUME TypeOK, TypeOK', PersistedIsCurrent, Matching, Matching', LedgerGrows,
         NeverTorn, [Next]_vars
  PROVE  \A i \in Server : KeepsLog(i)
<1>1. ASSUME NEW i \in Server, log'[i] = log[i]
      PROVE  KeepsLog(i)
  BY <1>1, SameLogStays DEF KeepsLog
<1>2. CASE \A i \in Server : log'[i] = log[i]
  BY <1>1, <1>2
<1>3. ASSUME NEW s \in Server, BecomeLeader(s) \/ \E c \in Command : Start(s, c)
      PROVE  \A i \in Server : KeepsLog(i)
  <2>1. \E x \in Entry : log' = [log EXCEPT ![s] = append(@, x)]
    BY <1>3 DEF BecomeLeader, Start, Entry, TypeOK
  <2> QED BY <2>1, AppendStays DEF KeepsLog
<1>4. ASSUME NEW s \in Server, Snapshot(s)
      PROVE  \A i \in Server : KeepsLog(i)
  <2> SUFFICES ASSUME NEW i \in Server PROVE Stays(i)
    BY DEF KeepsLog
  <2>1. SameEnd(log'[i], log[i])
    BY <1>4, SnapshotSameEnd
  <2>2. /\ lastLogIndex(log'[i]) \in Indices(log'[i])
        /\ lastLogTerm(log'[i]) = termAt(log'[i], lastLogIndex(log'[i]))
    <3>1. log'[i] \in Log
      BY DEF TypeOK
    <3> QED BY <3>1, LogBasics DEF Indices, lastLogTerm
  <2> QED BY <2>1, <2>2, StaysByEntry DEF SameEnd
<1>5. ASSUME NEW m \in msgs, AppendEntries(m), AcceptEntries(m)
      PROVE  \A i \in Server : KeepsLog(i)
  BY <1>1, <1>5, AcceptTakes DEF KeepsLog, AppendEntries
<1>6. ASSUME NEW m \in msgs, InstallSnapshot(m), InstallNewSnapshot(m)
      PROVE  \A i \in Server : KeepsLog(i)
  BY <1>1, <1>6, InstallTakes DEF KeepsLog
<1> QED BY <1>2, <1>3, <1>4, <1>5, <1>6, LogChanges

(***************************************************************************)
(* Every step advances: the votes.                                         *)
(***************************************************************************)
\* A server that asks for votes did so before the step, with the same log.
StillAsks(s) ==
  Asks(s)' => /\ Asks(s) /\ currentTerm'[s] = currentTerm[s]
              /\ SameEnd(log'[s], log[s])

NoNewVote(i) == votedFor'[i] \in Server =>
                  currentTerm'[i] = currentTerm[i] /\ votedFor'[i] = votedFor[i]

QuietVotes == \A s \in Server : StillAsks(s) /\ NoNewVote(s)

\* A step that leaves terms, states, votes and the ends of logs alone.
LEMMA NobodyAsks ==
  ASSUME UNCHANGED <<currentTerm, state, votedFor>>,
         \A s \in Server : SameEnd(log'[s], log[s]),
         DOMAIN ledger \subseteq DOMAIN ledger'
  PROVE  QuietVotes
BY DEF QuietVotes, StillAsks, NoNewVote, Asks

\* The same if one server does something else.
LEMMA OneAsks ==
  ASSUME NEW x \in Server, StillAsks(x), NoNewVote(x),
         \A s \in Server \ {x} :
           /\ currentTerm'[s] = currentTerm[s] /\ state'[s] = state[s]
           /\ votedFor'[s] = votedFor[s] /\ log'[s] = log[s],
         DOMAIN ledger \subseteq DOMAIN ledger'
  PROVE  QuietVotes
BY DEF QuietVotes, StillAsks, NoNewVote, Asks, SameEnd

\* Turning follower without a new vote is quiet.
LEMMA AdoptQuiet ==
  ASSUME TypeOK, NEW x \in Server, NEW term, NEW vote, AdoptTerm(x, term, vote),
         vote \in Server => term = currentTerm[x] /\ vote = votedFor[x],
         \A s \in Server \ {x} : log'[s] = log[s], ledger' = ledger
  PROVE  QuietVotes
<1>1. /\ state'[x] = "Follower" /\ currentTerm'[x] = term /\ votedFor'[x] = vote
      /\ \A s \in Server \ {x} :
           /\ currentTerm'[s] = currentTerm[s] /\ state'[s] = state[s]
           /\ votedFor'[s] = votedFor[s]
  BY DEF AdoptTerm, TypeOK
<1>2. StillAsks(x) /\ NoNewVote(x)
  BY <1>1 DEF StillAsks, NoNewVote, Asks
<1> QED BY <1>1, <1>2, OneAsks

\* A server's own steps, other than those of an election.
LEMMA ServerQuiet ==
  ASSUME TypeOK, TypeOK', PersistedIsCurrent, Matching, LedgerGrows, NEW s \in Server,
         ServerStep(s), ~StartElection(s)
  PROVE  QuietVotes
<1>0. DOMAIN ledger \subseteq DOMAIN ledger'
  BY DEF LedgerGrows, GrowsTo
<1>1. CASE \/ TallyVotes(s) \/ InitLeader(s) \/ CheckCommit(s)
           \/ ApplyCheck(s) \/ ApplyNext(s) \/ ReceiveCommand(s) \/ ReceiveSnapshot(s)
  <2>1. UNCHANGED <<currentTerm, state, votedFor, log>>
    BY <1>1, Zenon DEF TallyVotes, InitLeader, CheckCommit, ApplyCheck, ApplyNext,
       ReceiveCommand, ReceiveSnapshot, ServiceUnchanged
  <2>2. \A x \in Server : SameEnd(log'[x], log[x])
    BY <2>1 DEF SameEnd
  <2> QED BY <1>0, <2>1, <2>2, NobodyAsks
<1>2. CASE Snapshot(s)
  <2>1. UNCHANGED <<currentTerm, state, votedFor>>
    BY <1>2 DEF Snapshot, ServiceUnchanged
  <2> QED BY <1>0, <1>2, <2>1, SnapshotSameEnd, NobodyAsks
<1>3. CASE BecomeLeader(s) \/ \E c \in Command : Start(s, c)
  <2>1. /\ UNCHANGED <<currentTerm, votedFor>> /\ state'[s] = "Leader"
        /\ \A x \in Server \ {s} : state'[x] = state[x] /\ log'[x] = log[x]
    <3>1. UNCHANGED <<currentTerm, votedFor>>
      BY <1>3 DEF BecomeLeader, Start
    <3>2. state' = [state EXCEPT ![s] = "Leader"]
      BY <1>3 DEF BecomeLeader, Start, TypeOK
    <3>3. \E N : log' = [log EXCEPT ![s] = N]
      BY <1>3, Zenon DEF BecomeLeader, Start
    <3> QED BY <3>1, <3>2, <3>3 DEF TypeOK
  <2>2. StillAsks(s) /\ NoNewVote(s)
    BY <2>1 DEF StillAsks, NoNewVote, Asks
  <2> QED BY <1>0, <2>1, <2>2, OneAsks
<1>4. CASE Restart(s)
  <2>1. /\ state'[s] = "Follower" /\ currentTerm'[s] = currentTerm[s]
        /\ votedFor'[s] = votedFor[s]
        /\ \A x \in Server \ {s} :
             /\ currentTerm'[x] = currentTerm[x] /\ state'[x] = state[x]
             /\ votedFor'[x] = votedFor[x] /\ log'[x] = log[x]
    BY <1>4 DEF Restart, Boot, PersistedIsCurrent, TypeOK
  <2>2. StillAsks(s) /\ NoNewVote(s)
    BY <2>1 DEF StillAsks, NoNewVote, Asks
  <2> QED BY <1>0, <2>1, <2>2, OneAsks
<1> QED BY <1>1, <1>2, <1>3, <1>4 DEF ServerStep

\* The steps of the goroutine a server runs for a peer.
LEMMA PeerQuiet ==
  ASSUME TypeOK, NEW s \in Server, NEW i \in Others(s), PeerStep(s, i)
  PROVE  QuietVotes
<1>1. UNCHANGED <<log, ledger>>
  BY Zenon DEF PeerStep, SendRequest, HandleRequestVoteReply, SendSnapshot, SendEntries,
     Sending, LeaderStepsDown, HandleRejection, HandleSuccess, HandleInstallSnapshotReply,
     ReplyUnchanged, electionVars
<1>2. \/ UNCHANGED <<currentTerm, state, votedFor>>
      \/ \E term : AdoptTerm(s, term, Nil)
  BY Zenon DEF PeerStep, SendRequest, HandleRequestVoteReply, SendSnapshot, SendEntries,
     Sending, LeaderStepsDown, HandleRejection, HandleSuccess, HandleInstallSnapshotReply,
     ReplyUnchanged
<1>3. CASE UNCHANGED <<currentTerm, state, votedFor>>
  BY <1>1, <1>3, NobodyAsks DEF SameEnd
<1>4. ASSUME NEW term, AdoptTerm(s, term, Nil)
      PROVE  QuietVotes
  <2>1. Nil \notin Server
    BY ServerAssumption
  <2> QED BY <1>1, <1>4, <2>1, AdoptQuiet
<1> QED BY <1>2, <1>3, <1>4

\* Requests of leaders.
LEMMA RequestQuiet ==
  ASSUME TypeOK, TypeOK', Matching, NEW m \in msgs, AppendEntries(m) \/ InstallSnapshot(m)
  PROVE  QuietVotes
<1>1. m.to \in Server /\ m.term \in Nat /\ Nil \notin Server /\ currentTerm[m.to] \in Nat
  BY RequestTypes, ServerAssumption DEF TypeOK
<1>2. ledger' = ledger
  BY DEF AppendEntries, StaleAppendEntries, AppendEntriesToLeader, RejectEntries,
         AcceptEntries, EntriesUnchanged, InstallSnapshot, electionVars
<1>3. \A s \in Server \ {m.to} : log'[s] = log[s]
  <2>1. log' = log \/ \E N : log' = [log EXCEPT ![m.to] = N]
    BY Zenon DEF AppendEntries, StaleAppendEntries, AppendEntriesToLeader, RejectEntries,
       AcceptEntries, InstallSnapshot, RefuseSnapshot, IgnoreOldSnapshot, InstallNewSnapshot
  <2> QED BY <1>1, <2>1 DEF TypeOK
<1>4. CASE StaleAppendEntries(m) \/ RefuseSnapshot(m)
  <2>1. UNCHANGED <<currentTerm, state, votedFor, log>>
    BY <1>4 DEF StaleAppendEntries, RefuseSnapshot
  <2> QED BY <1>2, <2>1, NobodyAsks DEF SameEnd
<1>5. CASE /\ AppendEntriesToLeader(m) \/ RejectEntries(m) \/ AcceptEntries(m)
  <2>1. Follow(m) /\ m.term >= currentTerm[m.to]
    BY <1>5 DEF AppendEntriesToLeader, RejectEntries, AcceptEntries
  <2> DEFINE vote == IF currentTerm[m.to] < m.term THEN Nil ELSE votedFor[m.to]
  <2>2. AdoptTerm(m.to, m.term, vote)
    BY <2>1 DEF Follow
  <2>3. vote \in Server => m.term = currentTerm[m.to] /\ vote = votedFor[m.to]
    BY <1>1, <2>1
  <2> HIDE DEF vote
  <2> QED BY <1>1, <1>2, <1>3, <2>2, <2>3, AdoptQuiet
<1>6. CASE InstallSnapshot(m) /\ (IgnoreOldSnapshot(m) \/ InstallNewSnapshot(m))
  <2>1. AcceptSnapshotTerm(m) /\ m.term >= currentTerm[m.to]
    BY <1>6 DEF IgnoreOldSnapshot, InstallNewSnapshot
  <2>2. CASE currentTerm[m.to] < m.term
    <3>1. AdoptTerm(m.to, m.term, Nil)
      BY <2>1, <2>2 DEF AcceptSnapshotTerm
    <3> QED BY <1>1, <1>2, <1>3, <3>1, AdoptQuiet
  <2>3. CASE ~(currentTerm[m.to] < m.term)
    <3>1. UNCHANGED <<currentTerm, state, votedFor>> /\ m.term = currentTerm[m.to]
      BY <1>1, <2>1, <2>3 DEF AcceptSnapshotTerm
    <3>2. m.term \in DOMAIN ledger
      BY <1>6 DEF Matching, RequestFits, SnapshotFits, InstallSnapshot
    <3>3. StillAsks(m.to) /\ NoNewVote(m.to)
      BY <1>2, <3>1, <3>2 DEF StillAsks, NoNewVote, Asks
    <3> QED BY <1>1, <1>2, <1>3, <3>1, <3>3, OneAsks
  <2> QED BY <2>2, <2>3
<1> QED BY <1>4, <1>5, <1>6 DEF AppendEntries, InstallSnapshot

\* A vote is an old one or has just been cast.
LEMMA VoteIsOldOrNew ==
  ASSUME TypeOK, TypeOK', Tallied, NEW i \in Server, NEW s \in Server, StillAsks(s),
         Asks(s)', VotedFor(i, s)'
  PROVE  \/ OldVote(i, s)
         \/ /\ currentTerm'[i] = currentTerm[s] /\ votedFor'[i] = s
            /\ ~(currentTerm[i] = currentTerm[s] /\ votedFor[i] = s)
<1>1. /\ Asks(s) /\ currentTerm'[s] = currentTerm[s] /\ SameEnd(log'[s], log[s])
      /\ currentTerm[s] \in Nat
  BY DEF StillAsks, TypeOK
<1>2. PICK t \in Nat : t = currentTerm'[s] /\ t = currentTerm[s]
  BY <1>1
<1>3. \/ Counts(i, t, s)'
      \/ currentTerm'[i] = t /\ votedFor'[i] = s
  BY <1>2 DEF VotedFor, Counts, WaitsForHandling, IsTallied, MadeLeader
<1>4. \/ Counts(i, t, s)
      \/ currentTerm'[i] = t /\ votedFor'[i] = s
  BY <1>3 DEF Tallied, Fresh
<1> QED BY <1>1, <1>2, <1>4 DEF OldVote, VotedFor

\* In a step that is no part of an election every vote is an old one.
LEMMA QuietIsOld ==
  ASSUME TypeOK, TypeOK', Tallied, QuietVotes
  PROVE  \A i, s \in Server : Asks(s)' /\ VotedFor(i, s)' => OldVote(i, s)
BY VoteIsOldOrNew DEF QuietVotes, NoNewVote

\* A new candidate has only its own vote.
LEMMA StartElectionVotes ==
  ASSUME TypeOK, TypeOK', Matching, Voting, Tallied, NEW x \in Server, StartElection(x)
  PROVE  /\ \A s \in Server \ {x} : StillAsks(s)
         /\ \A i, s \in Server : Asks(s)' /\ VotedFor(i, s)' => OldVote(i, s) \/ NewVote(i, s)
<1>1. /\ state' = [state EXCEPT ![x] = "Candidate"]
      /\ currentTerm' = [currentTerm EXCEPT ![x] = @ + 1]
      /\ votedFor' = [votedFor EXCEPT ![x] = x]
      /\ votes' = [votes EXCEPT ![x] = {x}]
      /\ voteRpc' = [voteRpc EXCEPT ![x] =
                       [i \in Server |-> IF i = x THEN IdleSlot ELSE SpawnedSlot]]
      /\ UNCHANGED <<log, elected, ledger>>
  BY DEF StartElection
<1>2. /\ currentTerm'[x] = currentTerm[x] + 1 /\ currentTerm[x] \in Nat /\ votedFor'[x] = x
      /\ votes'[x] = {x} /\ \A i \in Server : voteRpc'[x][i].st # "replied"
      /\ \A s \in Server \ {x} :
           currentTerm'[s] = currentTerm[s] /\ state'[s] = state[s] /\ votedFor'[s] = votedFor[s]
  BY <1>1 DEF TypeOK, IdleSlot, SpawnedSlot
<1>3. \A s \in Server \ {x} : StillAsks(s)
  BY <1>1, <1>2 DEF StillAsks, Asks, SameEnd
<1>4. ASSUME NEW i \in Server, Asks(x)', VotedFor(i, x)'
      PROVE  i = x
  <2> SUFFICES ASSUME i # x PROVE FALSE
    OBVIOUS
  <2>1. ~WaitsForHandling(i, currentTerm[x], x)' /\ ~IsTallied(i, currentTerm[x], x)'
    BY <1>2 DEF WaitsForHandling, IsTallied
  <2>2. ~MadeLeader(i, currentTerm[x], x)'
    <3>1. currentTerm'[x] \notin DOMAIN ledger
      BY <1>1, <1>4 DEF Asks
    <3> QED BY <1>1, <3>1 DEF MadeLeader, Matching, LedgerOK
  <2>3. currentTerm'[i] = currentTerm'[x] /\ votedFor'[i] = x
    BY <1>4, <2>1, <2>2 DEF VotedFor, Counts
  <2>4. currentTerm[i] = currentTerm[x] + 1 /\ votedFor[i] = x
    BY <1>2, <2>3
  <2>5. currentTerm[i] <= currentTerm[x]
    BY <2>4 DEF Voting
  <2> QED BY <1>2, <2>4, <2>5
<1>5. NewVote(x, x)
  <2>1. log[x] \in Log
    BY DEF TypeOK
  <2>2. lastLogIndex(log[x]) \in Nat /\ currentTerm[x] <= currentTerm'[x]
    BY <1>2, <2>1, LogBasics
  <2> QED BY <1>1, <2>2 DEF NewVote, Behind
<1>6. ASSUME NEW i \in Server, NEW s \in Server \ {x}, Asks(s)', VotedFor(i, s)'
      PROVE  OldVote(i, s)
  <2>1. \/ OldVote(i, s)
        \/ /\ currentTerm'[i] = currentTerm[s] /\ votedFor'[i] = s
           /\ ~(currentTerm[i] = currentTerm[s] /\ votedFor[i] = s)
    BY <1>3, <1>6, VoteIsOldOrNew
  <2> QED BY <1>2, <2>1
<1> QED BY <1>3, <1>4, <1>5, <1>6

\* A vote is for a candidate whose log is not behind the voter's.
LEMMA RequestVoteVotes ==
  ASSUME TypeOK, TypeOK', Matching, Voting, Tallied, NEW m \in msgs, RequestVote(m)
  PROVE  /\ \A s \in Server : StillAsks(s)
         /\ \A i \in Server : NoNewVote(i) \/ /\ votedFor'[i] = m.from
                                              /\ currentTerm'[i] = m.term
         /\ \A i, s \in Server : Asks(s)' /\ VotedFor(i, s)' => OldVote(i, s) \/ NewVote(i, s)
<1>1. /\ m.to \in Server /\ m.from \in Server /\ m.term \in Nat /\ m.type = "RequestVote"
      /\ m.lastLogIndex \in Nat /\ m.lastLogTerm \in Nat /\ Nil \notin Server
      /\ currentTerm[m.to] \in Nat
  BY RequestTypes, ServerAssumption DEF TypeOK, RequestVote, VoteRequest
<1>2. UNCHANGED <<log, ledger>>
  BY DEF RequestVote, VoteInNewTerm, VoteAgain, VoteInCurrentTerm, RefuseVote, VoteUnchanged
<1>3. /\ \A s \in Server \ {m.to} :
           /\ currentTerm'[s] = currentTerm[s] /\ state'[s] = state[s]
           /\ votedFor'[s] = votedFor[s]
      /\ \/ state'[m.to] = "Follower"
         \/ UNCHANGED <<currentTerm, state>>
  <2>1. CASE \E vote : AdoptTerm(m.to, m.term, vote)
    BY <1>1, <2>1 DEF AdoptTerm, TypeOK
  <2>2. CASE UNCHANGED <<currentTerm, votedFor>> /\ state' = [state EXCEPT ![m.to] = "Follower"]
    BY <1>1, <2>2 DEF TypeOK
  <2>3. CASE /\ UNCHANGED <<currentTerm, state>>
             /\ votedFor' = votedFor \/ \E v : votedFor' = [votedFor EXCEPT ![m.to] = v]
    BY <1>1, <2>3 DEF TypeOK
  <2> QED BY <2>1, <2>2, <2>3, Zenon
          DEF RequestVote, VoteInNewTerm, VoteAgain, VoteInCurrentTerm, RefuseVote
<1>5. \A s \in Server : StillAsks(s)
  BY <1>1, <1>2, <1>3 DEF StillAsks, Asks, SameEnd
<1>6. \/ NoNewVote(m.to)
      \/ /\ votedFor'[m.to] = m.from /\ currentTerm'[m.to] = m.term
         /\ currentTerm[m.to] <= m.term
         /\ ~Newer(log[m.to], m) \/ ~NotOlder(log[m.to], m)
  <2>1. CASE VoteInNewTerm(m)
    BY <1>1, <2>1 DEF VoteInNewTerm, AdoptTerm, NoNewVote, TypeOK
  <2>2. CASE VoteInCurrentTerm(m)
    BY <1>1, <2>2 DEF VoteInCurrentTerm, NoNewVote, TypeOK
  <2>3. CASE VoteAgain(m) \/ RefuseVote(m)
    BY <2>3 DEF VoteAgain, RefuseVote, NoNewVote
  <2> QED BY <2>1, <2>2, <2>3 DEF RequestVote
<1>7. \A i \in Server \ {m.to} : NoNewVote(i)
  BY <1>3 DEF NoNewVote
<1>8. ASSUME NEW i \in Server, NEW s \in Server, Asks(s)', VotedFor(i, s)', ~OldVote(i, s)
      PROVE  NewVote(i, s)
  <2>1. /\ currentTerm'[i] = currentTerm[s] /\ votedFor'[i] = s
        /\ ~(currentTerm[i] = currentTerm[s] /\ votedFor[i] = s)
    BY <1>5, <1>8, VoteIsOldOrNew
  <2>2. ~NoNewVote(i)
    BY <2>1 DEF NoNewVote
  <2>3. /\ i = m.to /\ s = m.from /\ currentTerm[s] = m.term /\ currentTerm[i] <= m.term
        /\ ~Newer(log[i], m) \/ ~NotOlder(log[i], m)
    BY <1>6, <1>7, <2>1, <2>2
  <2>4. Asks(s) /\ currentTerm'[s] = currentTerm[s]
    BY <1>5, <1>8 DEF StillAsks
  <2>5. m.lastLogIndex = lastLogIndex(log[s]) /\ m.lastLogTerm = lastLogTerm(log[s])
    BY <1>1, <2>3, <2>4 DEF Voting, Asked
  <2>6. Behind(log[i], log[s])
    <3>1. /\ lastLogIndex(log[i]) \in Nat /\ lastLogTerm(log[i]) \in Nat
          /\ lastLogIndex(log[s]) \in Nat /\ lastLogTerm(log[s]) \in Nat
      BY LogBasics DEF TypeOK
    <3> QED BY <2>3, <2>5, <3>1 DEF Newer, NotOlder, Behind
  <2> QED BY <1>2, <2>3, <2>4, <2>6 DEF NewVote
<1> QED BY <1>5, <1>6, <1>7, <1>8

\* Who becomes a leader was asking, has the votes, and starts with its log.
LEMMA LeadersElected ==
  ASSUME TypeOK, TypeOK', Matching, Matching', Orderly, ElectionSafety', LedgerGrows,
         NEW s \in Server, BecomeLeader(s)
  PROVE  \A e \in elected' : e \in elected \/ Elects(e)
<1> DEFINE new == [term |-> currentTerm[s], leader |-> s, votes |-> votes[s]]
<1>1. /\ election[s] = "won" /\ elected' = elected \cup {new}
      /\ currentTerm' = currentTerm /\ state' = [state EXCEPT ![s] = "Leader"]
      /\ log' = [log EXCEPT ![s] = append(@, [term |-> currentTerm[s], cmd |-> NoOp])]
  BY DEF BecomeLeader
<1>2. new.term = currentTerm[s] /\ new.leader = s /\ new.votes = votes[s]
  OBVIOUS
<1> HIDE DEF new
<1>3. state[s] = "Candidate" /\ currentTerm[s] \notin DOMAIN ledger
  BY NoLeaderYet
<1>4. Asks(s)
  BY <1>3 DEF Asks
<1>5. ASSUME NEW i \in votes[s]
      PROVE  VotedFor(i, s)
  BY <1>1, <1>3 DEF VotedFor, Counts, IsTallied
<1>6. Agree(ledger', lastLogTerm(log[s]), currentTerm[s], lastLogIndex(log[s]))
  <2>1. [term |-> currentTerm[s], cmd |-> NoOp] \in Entry
    BY DEF Entry, TypeOK
  <2>2. Stays(s)
    BY <1>1, <2>1, AppendStays
  <2>3. lastLogTerm(log'[s]) = currentTerm[s]
    <3>1. state'[s] = "Leader" /\ currentTerm'[s] = currentTerm[s]
      BY <1>1 DEF TypeOK
    <3> QED BY <3>1 DEF Matching, Leads
  <2> QED BY <2>2, <2>3 DEF Stays
<1>7. Elects(new)
  BY <1>2, <1>4, <1>5, <1>6 DEF Elects
<1> QED BY <1>1, <1>7

\* The elected change only when a leader starts.
LEMMA ElectedChanges ==
  ASSUME [Next]_vars
  PROVE  elected' = elected \/ \E s \in Server : BecomeLeader(s)
<1>1. CASE UNCHANGED vars
  BY <1>1 DEF vars, electionVars, votingVars
<1>2. ASSUME NEW s \in Server, ServerStep(s), ~BecomeLeader(s)
      PROVE  elected' = elected
  BY <1>2, Zenon DEF ServerStep, StartElection, TallyVotes, Start, InitLeader, CheckCommit,
     ApplyCheck, ApplyNext, ReceiveCommand, ReceiveSnapshot, Snapshot, Restart, Boot,
     ServiceUnchanged, electionVars, votingVars
<1>3. ASSUME NEW s \in Server, NEW i \in Others(s), PeerStep(s, i)
      PROVE  elected' = elected
  BY <1>3, Zenon DEF PeerStep, SendRequest, HandleRequestVoteReply, SendSnapshot, SendEntries,
     Sending, LeaderStepsDown, HandleRejection, HandleSuccess, HandleInstallSnapshotReply,
     ReplyUnchanged, electionVars, votingVars
<1>4. ASSUME NEW m \in msgs, Receive(m)
      PROVE  elected' = elected
  BY <1>4, Zenon DEF Receive, RequestVote, VoteInNewTerm, VoteAgain, VoteInCurrentTerm, RefuseVote,
     VoteUnchanged, AppendEntries, StaleAppendEntries, AppendEntriesToLeader, RejectEntries,
     AcceptEntries, EntriesUnchanged, InstallSnapshot, TornAppendEntries, Boot,
     electionVars, votingVars
<1> QED BY <1>1, <1>2, <1>3, <1>4 DEF Next

\* Every step advances, and but for elections no step changes a vote.
LEMMA StepAdvances ==
  ASSUME TypeOK, TypeOK', PersistedIsCurrent, Matching, Matching', Voting, Orderly, Tallied,
         TermsKept, ElectionSafety', NeverTorn, [Next]_vars
  PROVE  /\ Advances
         /\ \/ QuietVotes
            \/ \E s \in Server : StartElection(s)
            \/ \E m \in msgs : RequestVote(m)
<1>1. LedgerGrows
  BY LedgerAdvances
<1>2. \A i \in Server : KeepsLog(i)
  BY <1>1, LogsKept
<1>3. \/ QuietVotes
      \/ \E s \in Server : StartElection(s)
      \/ \E m \in msgs : RequestVote(m)
  <2>1. CASE UNCHANGED vars
    <3>1. UNCHANGED <<currentTerm, state, votedFor, log, ledger>>
      BY <2>1 DEF vars, electionVars
    <3> QED BY <3>1, NobodyAsks DEF SameEnd
  <2>2. ASSUME NEW m \in msgs, Receive(m), ~RequestVote(m)
        PROVE  QuietVotes
    <3>1. ~TornAppendEntries(m)
      BY TornTerms DEF Untorn
    <3> QED BY <2>2, <3>1, RequestQuiet DEF Receive
  <2> QED BY <1>1, <2>1, <2>2, ServerQuiet, PeerQuiet DEF Next
<1>4. \A i, s \in Server : Asks(s)' /\ VotedFor(i, s)' => OldVote(i, s) \/ NewVote(i, s)
  BY <1>3, QuietIsOld, StartElectionVotes, RequestVoteVotes
<1>5. \A e \in elected' : e \in elected \/ Elects(e)
  BY <1>1, ElectedChanges, LeadersElected
<1> QED BY <1>1, <1>2, <1>3, <1>4, <1>5 DEF Advances

\* The steps that send.
LEMMA MessageChanges ==
  ASSUME [Next]_vars
  PROVE  \/ msgs' = msgs
         \/ \E s \in Server : \E i \in Others(s) :
              SendRequest(s, i) \/ SendSnapshot(s, i) \/ SendEntries(s, i)
<1>1. CASE UNCHANGED vars
  BY <1>1 DEF vars
<1>2. ASSUME NEW s \in Server, ServerStep(s)
      PROVE  msgs' = msgs
  BY <1>2, Zenon DEF ServerStep, StartElection, TallyVotes, BecomeLeader, Start, InitLeader,
     CheckCommit, ApplyCheck, ApplyNext, ReceiveCommand, ReceiveSnapshot, Snapshot, Restart, Boot,
     ServiceUnchanged
<1>3. ASSUME NEW s \in Server, NEW i \in Others(s), PeerStep(s, i)
      PROVE  msgs' = msgs \/ SendRequest(s, i) \/ SendSnapshot(s, i) \/ SendEntries(s, i)
  BY <1>3, Zenon DEF PeerStep, HandleRequestVoteReply, LeaderStepsDown, HandleRejection,
     HandleSuccess, HandleInstallSnapshotReply, ReplyUnchanged
<1>4. ASSUME NEW m \in msgs, Receive(m)
      PROVE  msgs' = msgs
  BY <1>4, Zenon DEF Receive, RequestVote, VoteInNewTerm, VoteAgain, VoteInCurrentTerm, RefuseVote,
     VoteUnchanged, AppendEntries, StaleAppendEntries, AppendEntriesToLeader, RejectEntries,
     AcceptEntries, EntriesUnchanged, InstallSnapshot, TornAppendEntries, Boot
<1> QED BY <1>1, <1>2, <1>3, <1>4 DEF Next

\* Votes stay in order: they are for candidates that were in the term, with the log
\* they have asked with.
LEMMA VotingStep ==
  ASSUME TypeOK, TypeOK', PersistedIsCurrent, Matching, Matching', Voting, Orderly, Tallied,
         TermsKept, ElectionSafety', NeverTorn, [Next]_vars
  PROVE  Voting'
<1>1. \A s \in Server : /\ currentTerm[s] \in Nat /\ currentTerm'[s] \in Nat
                        /\ currentTerm[s] <= currentTerm'[s]
  BY DEF TypeOK, TermsKept
<1>2. \A m \in msgs : m.from \in Server /\ m.term \in Nat /\ m.term <= currentTerm[m.from]
  BY RequestTypes DEF TypeOK, Matching, RequestFits
<1>3. ASSUME NEW i \in Server, votedFor'[i] \in Server
      PROVE  currentTerm'[i] <= currentTerm'[votedFor'[i]]
  <2>1. CASE NoNewVote(i)
    BY <1>1, <1>3, <2>1 DEF NoNewVote, Voting
  <2>2. CASE votedFor'[i] = i
    BY <1>1, <2>2
  <2>3. ASSUME NEW m \in msgs, votedFor'[i] = m.from, currentTerm'[i] = m.term
        PROVE  currentTerm'[i] <= currentTerm'[votedFor'[i]]
    BY <1>1, <1>2, <2>3
  <2>4. ASSUME NEW s \in Server, StartElection(s)
        PROVE  NoNewVote(i) \/ votedFor'[i] = i
    BY <2>4 DEF StartElection, NoNewVote, TypeOK
  <2>5. ASSUME NEW m \in msgs, RequestVote(m)
        PROVE  NoNewVote(i) \/ (votedFor'[i] = m.from /\ currentTerm'[i] = m.term)
    BY <2>5, RequestVoteVotes
  <2> QED BY <2>1, <2>2, <2>3, <2>4, <2>5, StepAdvances DEF QuietVotes
<1>4. ASSUME NEW m \in msgs
      PROVE  Asked(m)'
  <2>1. CASE StillAsks(m.from)
    BY <1>2, <2>1 DEF StillAsks, Asked, Voting, SameEnd
  <2>2. ASSUME NEW s \in Server, StartElection(s), ~StillAsks(m.from)
        PROVE  Asked(m)'
    <3>1. m.from = s
      BY <1>2, <2>2, StartElectionVotes
    <3>2. currentTerm'[s] = currentTerm[s] + 1
      BY <2>2 DEF StartElection, TypeOK
    <3> QED BY <1>1, <1>2, <3>1, <3>2 DEF Asked
  <2> QED BY <1>2, <2>1, <2>2, StepAdvances, RequestVoteVotes DEF QuietVotes
<1>5. ASSUME NEW m \in msgs', m \notin msgs
      PROVE  Asked(m)'
  <2>1. PICK s \in Server : \E i \in Others(s) :
          SendRequest(s, i) \/ SendSnapshot(s, i) \/ SendEntries(s, i)
    BY <1>5, MessageChanges
  <2>4. PICK i \in Others(s) : SendRequest(s, i) \/ SendSnapshot(s, i) \/ SendEntries(s, i)
    BY <2>1
  <2>2. CASE SendRequest(s, i)
    BY <1>5, <2>2 DEF SendRequest, Asked
  <2>3. CASE SendSnapshot(s, i) \/ SendEntries(s, i)
    BY <1>5, <2>3 DEF SendSnapshot, SendEntries, Sending, Asked
  <2> QED BY <2>2, <2>3, <2>4
<1> QED BY <1>3, <1>4, <1>5 DEF Voting

(***************************************************************************)
(* What is chosen holds.                                                   *)
(***************************************************************************)
\* A majority that grows is one.
LEMMA MoreIsMajority ==
  ASSUME NEW P \in SUBSET Server, NEW Q \in SUBSET Server, P \subseteq Q, Majority(P)
  PROVE  Majority(Q)
<1>1. IsFiniteSet(Q) /\ IsFiniteSet(P) /\ IsFiniteSet(Server)
  BY ServerAssumption, FS_Subset
<1>2. Cardinality(P) <= Cardinality(Q)
  BY <1>1, FS_Subset
<1>3. Cardinality(P) \in Nat /\ Cardinality(Q) \in Nat /\ Cardinality(Server) \in Nat
  BY <1>1, FS_CardinalityType
<1> QED BY <1>2, <1>3 DEF Majority

\* What is chosen stays chosen.
LEMMA ChosenStays ==
  ASSUME TypeOK, TypeOK', Matching, Matching', Advances,
         NEW T, NEW n, Chosen(T, n)
  PROVE  Chosen(T, n)'
<1>1. Own(ledger, T, n)
  BY DEF Chosen
<1>2. Own(ledger', T, n)
  BY <1>1, OwnBasics, OwnStays DEF Advances, LedgerGrows
<1>3. {i \in Server : Backs(i, T, n)} \subseteq {i \in Server : Backs(i, T, n)'}
  BY <1>1, BacksStays
<1>4. Majority({i \in Server : Backs(i, T, n)'})
  BY <1>3, MoreIsMajority DEF Chosen
<1> QED BY <1>2, <1>4 DEF Chosen, Majority

\* No leader lacks what was chosen in its term or before.
LEMMA ChosenHolds ==
  ASSUME TypeOK, Matching, VotesAccounted(Nat), NEW T, NEW n, Chosen(T, n),
         NEW t \in DOMAIN ledger, T <= t
  PROVE  Agree(ledger, t, T, n)
<1> DEFINE g == ledger
           Bad == {x \in DOMAIN g : T < x /\ x <= t /\ ~Agree(g, x, T, n)}
<1>1. Ledger(g) /\ DOMAIN g = {0} \cup {e.term : e \in elected}
  BY DEF Matching, LedgerOK
<1>2. /\ Own(g, T, n) /\ T \in Nat /\ n \in Nat /\ Agree(g, T, T, n)
  BY <1>1, OwnBasics DEF Chosen
<1>3. t \in Nat /\ DOMAIN g \subseteq Nat
  BY <1>1 DEF Ledger
<1> SUFFICES ASSUME ~Agree(g, t, T, n) PROVE FALSE
  OBVIOUS
<1>4. t # T
  BY <1>2
<1>5. t \in Bad /\ Bad \subseteq 0 .. t
  BY <1>2, <1>3, <1>4
<1> DEFINE x == Min(Bad)
<1>6. x \in Bad /\ \A y \in Bad : x <= y
  <2>1. 0 \in Int /\ t \in Int /\ Bad \subseteq 0 .. t /\ Bad # {}
    BY <1>3, <1>5
  <2> HIDE DEF Bad
  <2>2. Min(Bad) \in Bad /\ \A y \in Bad : Min(Bad) <= y
    BY <2>1, IntervalSubset
  <2> QED BY <2>2
<1> HIDE DEF x
<1>7. x \in DOMAIN g /\ T < x /\ x <= t /\ ~Agree(g, x, T, n) /\ x \in Nat
  BY <1>3, <1>6
<1>8. ~Lost(g, T, n, x)
  <2> SUFFICES ASSUME NEW y \in DOMAIN g, T < y, y < x, ~Agree(g, y, T, n) PROVE FALSE
    BY DEF Lost
  <2>1. y \in Bad
    BY <1>3, <1>7
  <2> QED BY <1>3, <1>6, <1>7, <2>1
<1>9. PICK e \in elected : e.term = x
  BY <1>1, <1>2, <1>7
<1>10. /\ Majority(e.votes) /\ e.votes \subseteq Server
       /\ Majority({i \in Server : Backs(i, T, n)})
  BY DEF VotesAccounted, WinnersHaveMajorities, Chosen, TypeOK
<1>11. PICK i \in Server : i \in e.votes /\ i \in {j \in Server : Backs(j, T, n)}
  BY <1>10, MajoritiesMeet
<1>12. Backs(i, T, n)
  BY <1>11
<1> QED BY <1>7, <1>8, <1>9, <1>11, <1>12 DEF Backs

(***************************************************************************)
(* What is backed and covered stays so.                                    *)
(***************************************************************************)
\* A server that has an entry of its own term backs it: it has not voted later.
LEMMA BacksAtOnce ==
  ASSUME TypeOK', Ledger(ledger'), VotesAccounted(Nat)', NEW i \in Server,
         NEW T, T = currentTerm'[i], NEW n, Has(ledger', log'[i], T, n)
  PROVE  Backs(i, T, n)'
<1>1. T \in Nat /\ \A s \in Server : currentTerm'[s] \in Nat
  BY DEF TypeOK
<1>2. \A s \in Server : \A t \in Nat : Counts(i, t, s)' => t <= T
  BY <1>1 DEF VotesAccounted, VotesOnRecord
<1>3. ASSUME NEW s \in Server, T < currentTerm'[s], VotedFor(i, s)'
      PROVE  FALSE
  <2>1. PICK t \in Nat : t = currentTerm'[s]
    BY <1>1
  <2>2. Counts(i, t, s)' \/ currentTerm'[i] = t
    BY <1>3, <2>1 DEF VotedFor
  <2> QED BY <1>1, <1>2, <1>3, <2>1, <2>2
<1>4. ASSUME NEW e \in elected', T < e.term, i \in e.votes
      PROVE  FALSE
  <2>1. e.term \in Nat /\ e.leader \in Server
    BY DEF TypeOK
  <2>2. PICK t \in Nat : t = e.term
    BY <2>1
  <2>3. Counts(i, t, e.leader)'
    BY <1>4, <2>2 DEF Counts, MadeLeader
  <2> QED BY <1>1, <1>2, <1>4, <2>1, <2>2, <2>3
<1> QED BY <1>1, <1>3, <1>4 DEF Backs

\* What is backed up to an entry stays backed: no entry before it is added.
LEMMA BacksUpToStays ==
  ASSUME TypeOK, TypeOK', Matching, Matching', Advances, NEW i \in Server,
         NEW t \in DOMAIN ledger, NEW n \in Int, n <= Len(ledger[t]), BacksUpTo(i, t, n)
  PROVE  BacksUpTo(i, t, n)'
<1>1. LedgerGrows /\ Ledger(ledger) /\ Len(ledger[t]) \in Nat
  BY LedgerBasics DEF Advances, LedgerGrows
<1> SUFFICES ASSUME NEW k \in 1 .. n, Own(ledger', t, k)
             PROVE  Backs(i, t, k)'
  BY DEF BacksUpTo
<1>2. k \in Nat /\ k <= Len(ledger[t])
  BY <1>1
<1>3. Own(ledger, t, k)
  BY <1>1, <1>2, OwnStays DEF LedgerGrows
<1>4. Backs(i, t, k)
  BY <1>3 DEF BacksUpTo
<1> QED BY <1>3, <1>4, BacksStays

\* A chosen entry covers those before it.
LEMMA CoveredLess ==
  ASSUME TypeOK, Matching, NEW s \in Server, NEW k \in Int, NEW j \in Int, j <= k, Covered(s, k)
  PROVE  Covered(s, j)
<1> SUFFICES ASSUME j > 0 PROVE Covered(s, j)
  BY DEF Covered
<1>1. PICK T \in DOMAIN ledger : \E n \in 1 .. Len(ledger[T]) :
             Chosen(T, n) /\ T <= currentTerm[s] /\ k <= n /\ Has(ledger, log[s], T, k)
  BY DEF Covered
<1>2. PICK n \in 1 .. Len(ledger[T]) :
             Chosen(T, n) /\ T <= currentTerm[s] /\ k <= n /\ Has(ledger, log[s], T, k)
  BY <1>1
<1>3. /\ Ledger(ledger) /\ lastLogTerm(log[s]) \in DOMAIN ledger /\ lastLogIndex(log[s]) \in Nat
      /\ Len(ledger[T]) \in Nat
  BY EndOfLog, LedgerBasics
<1>4. k \in Nat /\ j \in 0 .. k
  OBVIOUS
<1>5. Agree(ledger, lastLogTerm(log[s]), T, k)
  BY <1>2 DEF Has
<1>6. Agree(ledger, lastLogTerm(log[s]), T, j)
  BY <1>3, <1>4, <1>5, Agreements
<1>7. Has(ledger, log[s], T, j) /\ j <= n
  BY <1>2, <1>3, <1>4, <1>6 DEF Has
<1> QED BY <1>2, <1>7 DEF Covered

\* An entry that is chosen is one of the ledger.
LEMMA ChosenInLedger ==
  ASSUME Ledger(ledger), NEW T, NEW n, Chosen(T, n)
  PROVE  T \in DOMAIN ledger /\ T \in Nat /\ n \in 1 .. Len(ledger[T]) /\ n \in Nat
BY OwnBasics DEF Chosen, Own

\* What covers a server's commit index stays; its log keeps what comes before.
LEMMA CoveredStays ==
  ASSUME TypeOK, TypeOK', Matching, Matching', VotesAccounted(Nat), Advances,
         NEW s \in Server, NEW k \in Int, Covered(s, k)
  PROVE  /\ Covered(s, k)'
         /\ k > 0 => /\ k <= lastLogIndex(log[s])
                     /\ Agree(ledger', lastLogTerm(log[s]), lastLogTerm(log'[s]), k)
<1> SUFFICES ASSUME k > 0
             PROVE  /\ Covered(s, k)'
                    /\ k <= lastLogIndex(log[s])
                    /\ Agree(ledger', lastLogTerm(log[s]), lastLogTerm(log'[s]), k)
  BY DEF Covered
<1>1. PICK T \in DOMAIN ledger : \E n \in 1 .. Len(ledger[T]) :
             Chosen(T, n) /\ T <= currentTerm[s] /\ k <= n /\ Has(ledger, log[s], T, k)
  BY DEF Covered
<1>2. PICK n \in 1 .. Len(ledger[T]) :
             Chosen(T, n) /\ T <= currentTerm[s] /\ k <= n /\ Has(ledger, log[s], T, k)
  BY <1>1
<1>3. /\ LedgerGrows /\ KeepsLog(s) /\ Ledger(ledger) /\ Ledger(ledger')
      /\ currentTerm[s] <= currentTerm'[s]
  BY DEF Advances, LedgerGrows, TermsKept
<1>4. /\ currentTerm[s] \in Nat /\ currentTerm'[s] \in Nat /\ T \in Nat
      /\ Len(ledger[T]) \in Nat /\ k \in Nat /\ n \in Nat
  BY <1>3, LedgerBasics DEF TypeOK
<1>5. ASSUME NEW t \in DOMAIN ledger, currentTerm[s] <= t
      PROVE  Agree(ledger, t, T, k)
  <2>1. t \in Nat /\ T <= t /\ k \in 0 .. n
    BY <1>2, <1>3, <1>4, <1>5, LedgerBasics
  <2>2. Agree(ledger, t, T, n)
    BY <1>2, <2>1, ChosenHolds
  <2> QED BY <1>3, <1>4, <2>1, <2>2, Agreements
<1>6. /\ Has(ledger', log'[s], T, k)
      /\ Agree(ledger', lastLogTerm(log[s]), lastLogTerm(log'[s]), k)
  BY <1>2, <1>3, <1>4, <1>5, HasMoves
<1>7. Chosen(T, n)'
  BY <1>2, ChosenStays
<1>8. T \in DOMAIN ledger' /\ n \in 1 .. Len(ledger'[T])
  BY <1>7 DEF Chosen, Own
<1>9. T <= currentTerm'[s] /\ k <= lastLogIndex(log[s])
  BY <1>2, <1>3, <1>4 DEF Has
<1> QED BY <1>2, <1>6, <1>7, <1>8, <1>9 DEF Covered

\* The same for what a request carries.
LEMMA CarriedStays ==
  ASSUME TypeOK, TypeOK', Matching, Matching', Advances, NEW t \in Nat, NEW k \in Int,
         Carried(t, k)
  PROVE  Carried(t, k)'
<1> SUFFICES ASSUME k > 0 PROVE Carried(t, k)'
  BY DEF Carried
<1>1. PICK T \in DOMAIN ledger : \E n \in 1 .. Len(ledger[T]) :
             Chosen(T, n) /\ T <= t /\ k <= n
  BY DEF Carried
<1>2. PICK n \in 1 .. Len(ledger[T]) : Chosen(T, n) /\ T <= t /\ k <= n
  BY <1>1
<1>3. Chosen(T, n)'
  BY <1>2, ChosenStays
<1>4. T \in DOMAIN ledger' /\ n \in 1 .. Len(ledger'[T])
  BY <1>3 DEF Chosen, Own
<1> QED BY <1>2, <1>3, <1>4 DEF Carried

(***************************************************************************)
(* What is acknowledged is backed.                                         *)
(***************************************************************************)
\* Where the receiver of m suggests to start.
Suggests(m, hint) ==
  \/ hint.index \in {0, m.prevLogIndex + 1}
  \/ m.term >= currentTerm[m.to] /\ hint = conflict(log[m.to], m.prevLogIndex, m.prevLogTerm)

\* r answers m: it accepts entries that the receiver takes, or suggests where to start.
Answers(m, r) ==
  m.type = "AppendEntries" => IF r.success THEN AcceptEntries(m) ELSE Suggests(m, r.conflict)

\* The goroutine that waits for an answer to m gets one.
Answered(m) ==
  /\ entryRpc[m.from][m.to] = SentSlot(m)
  /\ \E r : /\ entryRpc'[m.from][m.to] = [st |-> "replied", req |-> m, reply |-> r]
            /\ Answers(m, r)

\* A slot stays, is emptied, takes a request, or gets the answer to its request.
SlotMoves(s, i) ==
  \/ entryRpc'[s][i] = entryRpc[s][i]
  \/ entryRpc'[s][i] = IdleSlot
  \/ \E m \in msgs' : m.from = s /\ m.to = i /\ entryRpc'[s][i] = SentSlot(m)
  \/ \E m \in msgs : m.from = s /\ m.to = i /\ Answered(m)

\* An answer concerns one slot.
LEMMA AnswerMoves ==
  ASSUME TypeOK, NEW m \in msgs, NEW r, entryRpc' = answer(entryRpc, m, r), Answers(m, r)
  PROVE  \A s, i \in Server : SlotMoves(s, i)
<1>1. m.from \in Server /\ m.to \in Server
  BY RequestTypes DEF TypeOK
<1>2. entryRpc \in [Server -> [Server -> EntrySlot]]
  BY DEF TypeOK
<1>3. CASE entryRpc[m.from][m.to] = SentSlot(m)
  <2> DEFINE slot == [st |-> "replied", req |-> m, reply |-> r]
  <2>1. entryRpc' = [entryRpc EXCEPT ![m.from][m.to] = slot]
    BY <1>3 DEF answer
  <2> HIDE DEF slot
  <2>2. entryRpc'[m.from][m.to] = slot
    BY <1>1, <1>2, <2>1
  <2>3. \A s, i \in Server : s # m.from \/ i # m.to => entryRpc'[s][i] = entryRpc[s][i]
    BY <1>1, <1>2, <2>1
  <2>4. Answered(m)
    BY <1>3, <2>2 DEF Answered, slot
  <2> QED BY <2>3, <2>4 DEF SlotMoves
<1>4. CASE entryRpc[m.from][m.to] # SentSlot(m)
  BY <1>4 DEF answer, SlotMoves
<1> QED BY <1>3, <1>4

\* A slot that is set changes no other.
LEMMA SetMoves ==
  ASSUME TypeOK, NEW s \in Server, NEW i \in Server, NEW slot,
         entryRpc' = [entryRpc EXCEPT ![s][i] = slot],
         \/ slot = IdleSlot
         \/ \E m \in msgs' : m.from = s /\ m.to = i /\ slot = SentSlot(m)
  PROVE  \A x, y \in Server : SlotMoves(x, y)
<1>1. entryRpc \in [Server -> [Server -> EntrySlot]]
  BY DEF TypeOK
<1>2. entryRpc'[s][i] = slot
  BY <1>1
<1>3. \A x, y \in Server : x # s \/ y # i => entryRpc'[x][y] = entryRpc[x][y]
  BY <1>1
<1> QED BY <1>2, <1>3 DEF SlotMoves

\* The slots of every step.
LEMMA SlotsMove ==
  ASSUME TypeOK, [Next]_vars
  PROVE  \A s, i \in Server : SlotMoves(s, i)
<1>1. CASE UNCHANGED vars
  BY <1>1 DEF vars, leaderVars, SlotMoves
<1>2. ASSUME NEW s \in Server, NEW p, Boot(s, p)
      PROVE  \A x, y \in Server : SlotMoves(x, y)
  <2>1. entryRpc' = [entryRpc EXCEPT ![s] = [i \in Server |-> IdleSlot]]
    BY <1>2 DEF Boot
  <2> QED BY <2>1 DEF SlotMoves, TypeOK
<1>3. ASSUME NEW s \in Server, ServerStep(s)
      PROVE  \A x, y \in Server : SlotMoves(x, y)
  <2>1. entryRpc' = entryRpc \/ Boot(s, persisted[s])
    BY <1>3, Zenon DEF ServerStep, StartElection, TallyVotes, BecomeLeader, Start, InitLeader,
       CheckCommit, ApplyCheck, ApplyNext, ReceiveCommand, ReceiveSnapshot, Snapshot, Restart,
       ServiceUnchanged, leaderVars
  <2> QED BY <1>2, <2>1 DEF SlotMoves
<1>4. ASSUME NEW s \in Server, NEW i \in Others(s), PeerStep(s, i)
      PROVE  \A x, y \in Server : SlotMoves(x, y)
  <2>1. i \in Server
    BY DEF Others
  <2>2. CASE SendRequest(s, i) \/ HandleRequestVoteReply(s, i)
    <3>1. entryRpc' = entryRpc
      BY <2>2, Zenon DEF SendRequest, HandleRequestVoteReply, leaderVars
    <3> QED BY <3>1 DEF SlotMoves
  <2>3. CASE LeaderStepsDown(s, i) \/ HandleRejection(s, i) \/ HandleSuccess(s, i)
             \/ HandleInstallSnapshotReply(s, i)
    <3>1. entryRpc' = [entryRpc EXCEPT ![s][i] = IdleSlot]
      BY <2>3, Zenon DEF LeaderStepsDown, HandleRejection, HandleSuccess,
         HandleInstallSnapshotReply
    <3> QED BY <2>1, <3>1, SetMoves
  <2>4. ASSUME NEW m, Sending(s, i, m), m.from = s, m.to = i
        PROVE  \A x, y \in Server : SlotMoves(x, y)
    <3>1. entryRpc' = [entryRpc EXCEPT ![s][i] = SentSlot(m)] /\ m \in msgs'
      BY <2>4 DEF Sending
    <3> QED BY <2>1, <2>4, <3>1, SetMoves
  <2>5. CASE SendSnapshot(s, i) \/ SendEntries(s, i)
    BY <2>4, <2>5 DEF SendSnapshot, SendEntries
  <2> QED BY <1>4, <2>2, <2>3, <2>5 DEF PeerStep
<1>5. ASSUME NEW m \in msgs, Receive(m)
      PROVE  \A x, y \in Server : SlotMoves(x, y)
  <2>1. CASE RequestVote(m)
    <3>1. entryRpc' = entryRpc
      BY <2>1, Zenon DEF RequestVote, VoteInNewTerm, VoteAgain, VoteInCurrentTerm, RefuseVote,
         VoteUnchanged, leaderVars
    <3> QED BY <3>1 DEF SlotMoves
  <2>2. CASE AppendEntries(m)
    <3>1. CASE AcceptEntries(m)
      <4>1. entryRpc' = answer(entryRpc, m, Outcome(m.term, TRUE, NoHint))
        BY <3>1 DEF AcceptEntries
      <4>2. Answers(m, Outcome(m.term, TRUE, NoHint))
        BY <3>1 DEF Answers, Outcome
      <4> QED BY <4>1, <4>2, AnswerMoves
    <3>2. ASSUME NEW term, NEW hint, entryRpc' = answer(entryRpc, m, Outcome(term, FALSE, hint)),
                 Suggests(m, hint)
          PROVE  \A x, y \in Server : SlotMoves(x, y)
      <4>1. Answers(m, Outcome(term, FALSE, hint))
        BY <3>2 DEF Answers, Outcome
      <4> QED BY <3>2, <4>1, AnswerMoves
    <3>3. CASE StaleAppendEntries(m)
      <4>1. entryRpc' = answer(entryRpc, m, Outcome(currentTerm[m.to], FALSE, NoHint))
        BY <3>3 DEF StaleAppendEntries
      <4>2. Suggests(m, NoHint)
        BY DEF Suggests, NoHint
      <4> QED BY <3>2, <4>1, <4>2
    <3>4. CASE AppendEntriesToLeader(m)
      <4> DEFINE hint == [index |-> m.prevLogIndex + 1, term |-> 0]
      <4>1. entryRpc' = answer(entryRpc, m, Outcome(m.term, FALSE, hint))
        BY <3>4 DEF AppendEntriesToLeader
      <4>2. Suggests(m, hint)
        BY DEF Suggests
      <4> HIDE DEF hint
      <4> QED BY <3>2, <4>1, <4>2
    <3>5. CASE RejectEntries(m)
      <4> DEFINE hint == conflict(log[m.to], m.prevLogIndex, m.prevLogTerm)
      <4>1. entryRpc' = answer(entryRpc, m, Outcome(m.term, FALSE, hint)) /\ Suggests(m, hint)
        BY <3>5 DEF RejectEntries, Suggests
      <4> HIDE DEF hint
      <4> QED BY <3>2, <4>1
    <3> QED BY <2>2, <3>1, <3>3, <3>4, <3>5 DEF AppendEntries
  <2>3. CASE InstallSnapshot(m)
    <3>1. m.type # "AppendEntries"
      BY <2>3 DEF InstallSnapshot
    <3>2. \E term : entryRpc' = answer(entryRpc, m, [term |-> term])
      BY <2>3, Zenon DEF InstallSnapshot, RefuseSnapshot, IgnoreOldSnapshot, InstallNewSnapshot
    <3> QED BY <3>1, <3>2, AnswerMoves DEF Answers
  <2>4. CASE TornAppendEntries(m)
    <3>1. m.to \in Server
      BY RequestTypes DEF TypeOK
    <3> QED BY <1>2, <2>4, <3>1 DEF TornAppendEntries
  <2> QED BY <1>5, <2>1, <2>2, <2>3, <2>4 DEF Receive
<1> QED BY <1>1, <1>3, <1>4, <1>5 DEF Next

\* No request is forgotten.
LEMMA MessagesStay ==
  ASSUME [Next]_vars
  PROVE  msgs \subseteq msgs'
<1>1. CASE msgs' = msgs
  BY <1>1
<1>2. ASSUME NEW s \in Server, NEW i \in Others(s),
             SendRequest(s, i) \/ SendSnapshot(s, i) \/ SendEntries(s, i)
      PROVE  \E m : msgs' = msgs \cup {m}
  BY <1>2, Zenon DEF SendRequest, SendSnapshot, SendEntries, Sending
<1> QED BY <1>1, <1>2, MessageChanges

\* A request for entries ends with an entry of the leader's own.
LEMMA EntriesBasics ==
  ASSUME TypeOK, Matching, NEW m \in msgs, m.type = "AppendEntries"
  PROVE  /\ m \in EntriesRequest /\ m.from \in Server /\ m.to \in Server
         /\ m.term \in DOMAIN ledger /\ m.term \in Nat
         /\ Acked(m) \in Nat /\ Acked(m) <= Len(ledger[m.term])
         /\ Own(ledger, m.term, Acked(m))
<1>1. m \in EntriesRequest /\ m.from \in Server /\ m.to \in Server /\ m.term \in Nat
  BY RequestTypes DEF TypeOK
<1>2. EntriesFit(ledger, m) /\ Ledger(ledger)
  BY DEF Matching, RequestFits, LedgerOK
<1>3. Acked(m) \in Nat
  <2>1. m.prevLogIndex \in Nat /\ Len(m.entries) \in Nat
    BY <1>1, LenProperties DEF EntriesRequest
  <2> QED BY <2>1 DEF Acked
<1>4. m.term \in DOMAIN ledger /\ Acked(m) >= 1 /\ Acked(m) <= Len(ledger[m.term])
      /\ TermIn(ledger, m.term, Acked(m)) = m.term
  BY <1>2 DEF EntriesFit
<1>5. Len(ledger[m.term]) \in Nat
  BY <1>2, <1>4, LedgerBasics
<1>6. Own(ledger, m.term, Acked(m))
  BY <1>3, <1>4, <1>5 DEF Own, TermIn
<1> QED BY <1>1, <1>3, <1>4, <1>6

\* A follower backs the entries it has accepted.
LEMMA AcceptBacks ==
  ASSUME TypeOK, TypeOK', Matching, Matching', LedgerGrows, VotesAccounted(Nat)',
         NEW m \in msgs, m.type = "AppendEntries", AcceptEntries(m)
  PROVE  BacksUpTo(m.to, m.term, Acked(m))'
<1>1. /\ m.to \in Server /\ Acked(m) \in Nat /\ m.term \in DOMAIN ledger
  BY EntriesBasics
<1>2. currentTerm'[m.to] = m.term
  BY <1>1 DEF AcceptEntries, Follow, AdoptTerm, TypeOK
<1>3. /\ ledger' = ledger /\ Acked(m) <= lastLogIndex(log'[m.to])
      /\ Agree(ledger, lastLogTerm(log'[m.to]), m.term, Acked(m))
  BY AcceptTakes
<1>4. /\ lastLogTerm(log'[m.to]) \in DOMAIN ledger /\ Ledger(ledger')
      /\ lastLogIndex(log'[m.to]) \in Nat
  BY <1>1, <1>3, EndOfNextLog
<1> SUFFICES ASSUME NEW k \in 1 .. Acked(m)
             PROVE  Backs(m.to, m.term, k)'
  BY DEF BacksUpTo
<1>5. k \in 0 .. Acked(m) /\ k <= lastLogIndex(log'[m.to])
  BY <1>1, <1>3, <1>4
<1>6. Agree(ledger, lastLogTerm(log'[m.to]), m.term, k)
  BY <1>1, <1>3, <1>4, <1>5, Agreements
<1>7. Has(ledger', log'[m.to], m.term, k)
  BY <1>3, <1>5, <1>6 DEF Has
<1> QED BY <1>1, <1>2, <1>4, <1>7, BacksAtOnce

\* What comes back for a request is backed.
LEMMA SlotAcksStep ==
  ASSUME TypeOK, TypeOK', Matching, Matching', Advances, VotesAccounted(Nat)',
         [Next]_vars, NEW s \in Server, NEW i \in Server, SlotAcks(s, i)
  PROVE  SlotAcks(s, i)'
<1>1. msgs \subseteq msgs'
  BY MessagesStay
<1>2. CASE entryRpc'[s][i] = entryRpc[s][i]
  <2>1. entryRpc'[s][i].st \in {"sent", "replied"} =>
          /\ entryRpc'[s][i].req \in msgs' /\ entryRpc'[s][i].req.from = s
          /\ entryRpc'[s][i].req.to = i
    BY <1>1, <1>2 DEF SlotAcks
  <2>2. ASSUME NEW m \in msgs, m = entryRpc[s][i].req, m.type = "AppendEntries",
               BacksUpTo(i, m.term, Acked(m))
        PROVE  BacksUpTo(i, m.term, Acked(m))'
    <3>1. m.term \in DOMAIN ledger /\ Acked(m) \in Int /\ Acked(m) <= Len(ledger[m.term])
      BY <2>2, EntriesBasics
    <3> QED BY <2>2, <3>1, BacksUpToStays
  <2>3. CASE /\ entryRpc[s][i].st = "replied" /\ entryRpc[s][i].req.type = "AppendEntries"
             /\ entryRpc[s][i].reply.success
    <3>1. PICK m \in msgs : m = entryRpc[s][i].req
      BY <2>3 DEF SlotAcks
    <3>2. BacksUpTo(i, m.term, Acked(m))
      BY <2>3, <3>1 DEF SlotAcks
    <3>3. BacksUpTo(i, m.term, Acked(m))'
      BY <2>2, <2>3, <3>1, <3>2
    <3> QED BY <1>2, <2>1, <3>1, <3>3 DEF SlotAcks
  <2> QED BY <1>2, <2>1, <2>3 DEF SlotAcks
<1>3. CASE entryRpc'[s][i] = IdleSlot
  BY <1>3 DEF SlotAcks, IdleSlot
<1>4. ASSUME NEW m \in msgs', m.from = s, m.to = i, entryRpc'[s][i] = SentSlot(m)
      PROVE  SlotAcks(s, i)'
  BY <1>4 DEF SlotAcks, SentSlot
<1>5. ASSUME NEW m \in msgs, m.from = s, m.to = i, Answered(m)
      PROVE  SlotAcks(s, i)'
  <2>1. PICK r : /\ entryRpc'[s][i] = [st |-> "replied", req |-> m, reply |-> r]
                 /\ m.type = "AppendEntries" /\ r.success => AcceptEntries(m)
    BY <1>5 DEF Answered, Answers
  <2>2. m.type = "AppendEntries" /\ r.success => BacksUpTo(i, m.term, Acked(m))'
    BY <1>5, <2>1, AcceptBacks DEF Advances
  <2>3. m \in msgs'
    BY <1>1
  <2> QED BY <1>5, <2>1, <2>2, <2>3 DEF SlotAcks
<1> QED BY <1>2, <1>3, <1>4, <1>5, SlotsMove DEF SlotMoves

\* A log that starts with a snapshot: what its start holds.
LEMMA CompactedStart ==
  ASSUME NEW tail \in Seq(Entry), NEW index \in Nat, NEW term, NEW public,
         NEW N, N = CompactedLog(tail, index, term, public)
  PROVE  /\ N.lastIncludedIndex = index /\ N.lastIncludedPublicIndex = public
         /\ At(N, index).cmd = NoOp
<1>1. /\ N.logs = <<Sentinel(term)>> \o tail
      /\ N.lastIncludedIndex = index /\ N.lastIncludedPublicIndex = public
  BY DEF CompactedLog
<1>2. N.logs[1] = Sentinel(term)
  <2>1. Len(tail) \in Nat
    BY LenProperties
  <2> QED BY <1>1, <2>1
<1>3. At(N, index) = N.logs[1]
  <2>1. index - index + 1 = 1
    OBVIOUS
  <2> QED BY <1>1, <2>1 DEF At
<1> QED BY <1>1, <1>2, <1>3 DEF Sentinel

\* Snapshot makes the log of s start at an entry further on.
LEMMA SnapshotStart ==
  ASSUME TypeOK, TypeOK', NEW s \in Server, Snapshot(s),
         NEW real, real = publicToRealIndex(log[s], service[s].index)
  PROVE  /\ real \in Indices(log[s]) /\ real > log[s].lastIncludedIndex
         /\ log'[s].lastIncludedIndex = real
         /\ log'[s].lastIncludedPublicIndex = service[s].index
         /\ At(log'[s], real).cmd = NoOp
         /\ \A x \in Server \ {s} : log'[x] = log[x]
<1>1. /\ log' = [log EXCEPT ![s] = compact(@, real, service[s].index)]
      /\ real # NotFound /\ real > log[s].lastIncludedIndex
  BY DEF Snapshot
<1>2. service[s].index \in Nat /\ log[s] \in Log
  BY DEF TypeOK, Snap
<1>3. real \in Indices(log[s])
  BY <1>1, <1>2, RealIndexType
<1>4. /\ log'[s] = compact(log[s], real, service[s].index)
      /\ \A x \in Server \ {s} : log'[x] = log[x]
  BY <1>1 DEF TypeOK
<1>5. After(log[s], real) \in Seq(Entry)
  BY <1>2, <1>3, AfterGives
<1>6. real \in Nat
  BY <1>2, <1>3, LogBasics DEF Indices
<1> QED BY <1>1, <1>3, <1>4, <1>5, <1>6, CompactedStart DEF compact

\* InstallSnapshot does so at the entry the leader names.
LEMMA InstallStart ==
  ASSUME TypeOK, NEW m \in msgs, InstallSnapshot(m), InstallNewSnapshot(m)
  PROVE  /\ m \in SnapshotRequest /\ m.to \in Server
         /\ m.lastIncludedIndex > log[m.to].lastIncludedIndex
         /\ log'[m.to].lastIncludedIndex = m.lastIncludedIndex
         /\ log'[m.to].lastIncludedPublicIndex = m.lastIncludedPublicIndex
         /\ At(log'[m.to], m.lastIncludedIndex).cmd = NoOp
         /\ \A x \in Server \ {m.to} : log'[x] = log[x]
<1> DEFINE L == log[m.to]
           tail == IF m.lastIncludedIndex \in Indices(L)
                      /\ At(L, m.lastIncludedIndex).term = m.lastIncludedTerm
                     THEN After(L, m.lastIncludedIndex) ELSE <<>>
<1>1. m \in SnapshotRequest /\ m.to \in Server
  BY RequestTypes DEF InstallSnapshot, TypeOK
<1>2. /\ m.lastIncludedIndex > log[m.to].lastIncludedIndex
      /\ log' = [log EXCEPT ![m.to] = install(@, m.lastIncludedIndex, m.lastIncludedTerm,
                                              m.lastIncludedPublicIndex)]
  BY DEF InstallNewSnapshot
<1>3. L \in Log /\ m.lastIncludedIndex \in Nat
  BY <1>1 DEF TypeOK, SnapshotRequest
<1>4. tail \in Seq(Entry)
  BY <1>3, AfterGives, EmptySeq
<1>5. /\ log'[m.to] = CompactedLog(tail, m.lastIncludedIndex, m.lastIncludedTerm,
                                   m.lastIncludedPublicIndex)
      /\ \A x \in Server \ {m.to} : log'[x] = log[x]
  BY <1>1, <1>2 DEF TypeOK, install
<1> HIDE DEF tail
<1> QED BY <1>1, <1>2, <1>3, <1>4, <1>5, CompactedStart

\* The log of i starts where it did.
StartsAsBefore(i) ==
  /\ SameStart(log'[i], log[i])
  /\ At(log'[i], log'[i].lastIncludedIndex).cmd = At(log[i], log[i].lastIncludedIndex).cmd

\* Only snapshots change where a log starts.
LEMMA StartsMove ==
  ASSUME TypeOK, TypeOK', PersistedIsCurrent, NeverTorn, [Next]_vars, NEW i \in Server
  PROVE  \/ StartsAsBefore(i)
         \/ Snapshot(i)
         \/ \E m \in msgs : m.to = i /\ InstallSnapshot(m) /\ InstallNewSnapshot(m)
<1>0. log[i] \in Log /\ log'[i] \in Log
  BY DEF TypeOK
<1>1. ASSUME log'[i] = log[i] PROVE StartsAsBefore(i)
  BY <1>1 DEF StartsAsBefore, SameStart
<1>2. log[i].lastIncludedIndex \in Indices(log[i])
  BY <1>0, LogBasics DEF Indices
<1>3. ASSUME NEW s \in Server, BecomeLeader(s) \/ \E c \in Command : Start(s, c)
      PROVE  StartsAsBefore(i)
  <2>1. PICK x \in Entry : log' = [log EXCEPT ![s] = append(@, x)]
    BY <1>3 DEF BecomeLeader, Start, Entry, TypeOK
  <2>2. CASE s = i
    <3>1. log'[i] = append(log[i], x)
      BY <2>1, <2>2 DEF TypeOK
    <3>2. /\ SameStart(log'[i], log[i])
          /\ At(log'[i], log[i].lastIncludedIndex) = At(log[i], log[i].lastIncludedIndex)
      BY <1>0, <1>2, <3>1, AppendGives
    <3> QED BY <3>2 DEF StartsAsBefore, SameStart
  <2>3. CASE s # i
    BY <1>1, <2>1, <2>3 DEF TypeOK
  <2> QED BY <2>2, <2>3
<1>4. ASSUME NEW m \in msgs, AppendEntries(m), AcceptEntries(m)
      PROVE  StartsAsBefore(i)
  <2>1. CASE m.to = i
    <3>1. /\ log'[i] = merge(log[i], m.prevLogIndex, m.entries)
          /\ m.prevLogIndex \in Indices(log[i])
      BY <1>4, <2>1 DEF AcceptEntries, Consistent, TypeOK
    <3>2. m.entries \in Seq(Entry)
      BY <1>4, RequestTypes DEF AppendEntries, EntriesRequest, TypeOK
    <3>3. \/ log'[i] = log[i]
          \/ /\ SameStart(log'[i], log[i])
             /\ \E n \in 1 .. Len(m.entries) :
                  \A k \in log[i].lastIncludedIndex .. m.prevLogIndex + n - 1 :
                    At(log'[i], k) = At(log[i], k)
      BY <1>0, <3>1, <3>2, MergeGives
    <3>4. \A n \in 1 .. Len(m.entries) :
            log[i].lastIncludedIndex \in log[i].lastIncludedIndex .. m.prevLogIndex + n - 1
      BY <1>0, <3>1, LogBasics DEF Indices
    <3> QED BY <1>1, <3>3, <3>4 DEF StartsAsBefore, SameStart
  <2>2. CASE m.to # i
    BY <1>1, <1>4, <2>2 DEF AcceptEntries, TypeOK
  <2> QED BY <2>1, <2>2
<1>5. ASSUME NEW s \in Server, Snapshot(s), s # i
      PROVE  StartsAsBefore(i)
  BY <1>1, <1>5 DEF Snapshot, TypeOK
<1>6. ASSUME NEW m \in msgs, InstallSnapshot(m), InstallNewSnapshot(m), m.to # i
      PROVE  StartsAsBefore(i)
  BY <1>1, <1>6, InstallStart
<1> QED BY <1>1, <1>3, <1>4, <1>5, <1>6, LogChanges

\* A log never starts earlier than it did.
LEMMA StartsRise ==
  ASSUME TypeOK, TypeOK', PersistedIsCurrent, NeverTorn, [Next]_vars, NEW i \in Server
  PROVE  log[i].lastIncludedIndex <= log'[i].lastIncludedIndex
<1>1. log[i].lastIncludedIndex \in Nat /\ log'[i].lastIncludedIndex \in Nat
  BY LogBasics DEF TypeOK
<1>2. CASE Snapshot(i)
  BY <1>1, <1>2, SnapshotStart
<1>3. ASSUME NEW m \in msgs, m.to = i, InstallSnapshot(m), InstallNewSnapshot(m)
      PROVE  log[i].lastIncludedIndex <= log'[i].lastIncludedIndex
  BY <1>1, <1>3, InstallStart
<1> QED BY <1>1, <1>2, <1>3, StartsMove DEF StartsAsBefore, SameStart

\* s stays in the office it has, with its indices.
OfficeKept(s) ==
  /\ state'[s] = state[s] /\ currentTerm'[s] = currentTerm[s]
  /\ turnToLeader'[s] = turnToLeader[s]

\* How a server may come to lead or to have initialised its indices.
LEMMA OfficeMoves ==
  ASSUME TypeOK, [Next]_vars, NEW x \in Server
  PROVE  OfficeKept(x) \/ state'[x] # "Leader" \/ InitLeader(x) \/ BecomeLeader(x)
<1>1. CASE UNCHANGED <<currentTerm, state, turnToLeader>>
  BY <1>1 DEF OfficeKept
<1>2. ASSUME NEW s \in Server, NEW term, NEW vote, AdoptTerm(s, term, vote)
      PROVE  OfficeKept(x) \/ state'[x] # "Leader"
  BY <1>2 DEF AdoptTerm, OfficeKept, TypeOK
<1>3. ASSUME NEW s \in Server, NEW p, Boot(s, p)
      PROVE  OfficeKept(x) \/ state'[x] # "Leader"
  BY <1>3 DEF Boot, OfficeKept, TypeOK
<1>4. ASSUME NEW s \in Server, ServerStep(s)
      PROVE  OfficeKept(x) \/ state'[x] # "Leader" \/ InitLeader(x) \/ BecomeLeader(x)
  <2>1. CASE StartElection(s)
    BY <2>1 DEF StartElection, OfficeKept, TypeOK
  <2>2. CASE BecomeLeader(s)
    BY <2>2 DEF BecomeLeader, OfficeKept, TypeOK
  <2>3. CASE InitLeader(s)
    BY <2>3 DEF InitLeader, OfficeKept, TypeOK
  <2>4. CASE Restart(s)
    BY <1>3, <2>4 DEF Restart
  <2>5. CASE TallyVotes(s) \/ (\E c \in Command : Start(s, c)) \/ CheckCommit(s)
             \/ ApplyCheck(s) \/ ApplyNext(s) \/ ReceiveCommand(s) \/ ReceiveSnapshot(s)
             \/ Snapshot(s)
    <3>1. UNCHANGED <<currentTerm, state, turnToLeader>>
      BY <2>5, Zenon DEF TallyVotes, Start, CheckCommit, ApplyCheck, ApplyNext, ReceiveCommand,
         ReceiveSnapshot, Snapshot, ServiceUnchanged
    <3> QED BY <1>1, <3>1
  <2> QED BY <1>4, <2>1, <2>2, <2>3, <2>4, <2>5 DEF ServerStep
<1>5. ASSUME NEW s \in Server, NEW i \in Others(s), PeerStep(s, i)
      PROVE  OfficeKept(x) \/ state'[x] # "Leader"
  <2>1. \/ UNCHANGED <<currentTerm, state, turnToLeader>>
        \/ \E term, vote : AdoptTerm(s, term, vote)
    BY <1>5, Zenon DEF PeerStep, SendRequest, HandleRequestVoteReply, SendSnapshot, SendEntries,
       Sending, LeaderStepsDown, HandleRejection, HandleSuccess, HandleInstallSnapshotReply,
       ReplyUnchanged
  <2> QED BY <1>2, <2>1 DEF OfficeKept
<1>6. ASSUME NEW m \in msgs, Receive(m)
      PROVE  OfficeKept(x) \/ state'[x] # "Leader"
  <2>1. m.to \in Server
    BY RequestTypes DEF TypeOK
  <2>2. CASE RequestVote(m) \/ AppendEntries(m) \/ InstallSnapshot(m)
    <3>1. \/ UNCHANGED <<currentTerm, state, turnToLeader>>
          \/ VoteAgain(m)
          \/ \E term, vote : AdoptTerm(m.to, term, vote)
      BY <2>2, Zenon DEF RequestVote, VoteInNewTerm, VoteInCurrentTerm, RefuseVote,
         AppendEntries, StaleAppendEntries, AppendEntriesToLeader, RejectEntries, AcceptEntries,
         Follow, InstallSnapshot, RefuseSnapshot, IgnoreOldSnapshot, InstallNewSnapshot,
         AcceptSnapshotTerm
    <3>2. CASE VoteAgain(m)
      BY <2>1, <3>2 DEF VoteAgain, OfficeKept, TypeOK
    <3> QED BY <1>2, <2>1, <3>1, <3>2 DEF OfficeKept
  <2>3. CASE TornAppendEntries(m)
    BY <1>3, <2>1, <2>3 DEF TornAppendEntries
  <2> QED BY <1>6, <2>2, <2>3 DEF Receive
<1>7. CASE UNCHANGED vars
  BY <1>1, <1>7 DEF vars
<1> QED BY <1>4, <1>5, <1>6, <1>7 DEF Next

\* A request whose leader is still in office comes from one that has initialised its
\* indices; a snapshot is no newer than its sender's.
LEMMA SentStep ==
  ASSUME TypeOK, TypeOK', PersistedIsCurrent, Matching, Matching', Orderly, ElectionSafety',
         TermsKept, NeverTorn, [Next]_vars, NEW m \in msgs', m \in msgs => Sent(m)
  PROVE  Sent(m)'
<1>1. \A x \in Server : /\ log[x].lastIncludedIndex \in Nat /\ log'[x].lastIncludedIndex \in Nat
                        /\ log[x].lastIncludedIndex <= log'[x].lastIncludedIndex
                        /\ currentTerm[x] \in Nat /\ currentTerm'[x] \in Nat
                        /\ currentTerm[x] <= currentTerm'[x]
  <2> SUFFICES ASSUME NEW x \in Server
               PROVE  /\ log[x].lastIncludedIndex \in Nat /\ log'[x].lastIncludedIndex \in Nat
                      /\ log[x].lastIncludedIndex <= log'[x].lastIncludedIndex
                      /\ currentTerm[x] \in Nat /\ currentTerm'[x] \in Nat
                      /\ currentTerm[x] <= currentTerm'[x]
    OBVIOUS
  <2>1. log[x] \in Log /\ log'[x] \in Log /\ currentTerm[x] \in Nat /\ currentTerm'[x] \in Nat
    BY DEF TypeOK
  <2> QED BY <2>1, StartsRise, LogBasics DEF TermsKept
<1>2. CASE m \in msgs
  <2>1. /\ m \in Request /\ m.from \in Server /\ m.term \in Nat /\ m.term <= currentTerm[m.from]
        /\ m.type # "RequestVote" => Elected(m.from, m.term)
        /\ m.type = "InstallSnapshot" => m \in SnapshotRequest
    BY <1>2, RequestTypes DEF TypeOK, Matching, RequestFits
  <2>2. m.type = "InstallSnapshot" => m.lastIncludedIndex \in Nat
    BY <2>1 DEF SnapshotRequest
  <2>3. m.type = "InstallSnapshot" => m.lastIncludedIndex <= log'[m.from].lastIncludedIndex
    BY <1>1, <1>2, <2>1, <2>2 DEF Sent
  <2>4. ASSUME m.type # "RequestVote", m.term = currentTerm'[m.from], state'[m.from] = "Leader"
        PROVE  turnToLeader'[m.from]
    <3>1. m.term = currentTerm[m.from]
      BY <1>1, <2>1, <2>4
    <3>2. CASE OfficeKept(m.from)
      BY <1>2, <2>4, <3>1, <3>2 DEF OfficeKept, Sent
    <3>3. CASE InitLeader(m.from)
      BY <2>1, <3>3 DEF InitLeader, TypeOK
    <3>4. ~BecomeLeader(m.from)
      BY <2>1, <2>4, <3>1, NoLeaderYet DEF Elected
    <3> QED BY <2>1, <2>4, <3>2, <3>3, <3>4, OfficeMoves
  <2> QED BY <2>3, <2>4 DEF Sent
<1>3. CASE m \notin msgs
  <2>1. PICK s \in Server : \E i \in Others(s) :
          SendRequest(s, i) \/ SendSnapshot(s, i) \/ SendEntries(s, i)
    BY <1>3, MessageChanges
  <2>2. PICK i \in Others(s) : SendRequest(s, i) \/ SendSnapshot(s, i) \/ SendEntries(s, i)
    BY <2>1
  <2>3. CASE SendRequest(s, i)
    BY <1>3, <2>3 DEF SendRequest, Sent
  <2>4. CASE SendSnapshot(s, i)
    <3>1. /\ m.type = "InstallSnapshot" /\ m.from = s
          /\ m.lastIncludedIndex = log[s].lastIncludedIndex /\ turnToLeader'[s]
      BY <1>3, <2>4 DEF SendSnapshot, Sending
    <3> QED BY <1>1, <3>1 DEF Sent
  <2>5. CASE SendEntries(s, i)
    BY <1>3, <2>5 DEF SendEntries, Sending, Sent
  <2> QED BY <2>2, <2>3, <2>4, <2>5
<1> QED BY <1>2, <1>3

\* How what a server counts on changes.
LEMMA MatchMoves ==
  ASSUME TypeOK, [Next]_vars, NEW x \in Server
  PROVE  \/ matchIndex'[x] = matchIndex[x]
         \/ state'[x] = "Follower" /\ \A i \in Server : matchIndex'[x][i] = 0
         \/ InitLeader(x)
         \/ \E i \in Others(x) : HandleSuccess(x, i) \/ HandleInstallSnapshotReply(x, i)
<1>1. CASE matchIndex' = matchIndex
  BY <1>1
<1>2. ASSUME NEW s \in Server, NEW p, Boot(s, p)
      PROVE  \/ matchIndex'[x] = matchIndex[x]
             \/ state'[x] = "Follower" /\ \A i \in Server : matchIndex'[x][i] = 0
  BY <1>2 DEF Boot, TypeOK
<1>3. ASSUME NEW s \in Server, ServerStep(s)
      PROVE  \/ matchIndex'[x] = matchIndex[x]
             \/ state'[x] = "Follower" /\ \A i \in Server : matchIndex'[x][i] = 0
             \/ InitLeader(x)
  <2>1. CASE InitLeader(s)
    BY <2>1 DEF InitLeader, TypeOK
  <2>2. CASE Restart(s)
    BY <1>2, <2>2 DEF Restart
  <2>3. CASE ~InitLeader(s) /\ ~Restart(s)
    <3>1. matchIndex' = matchIndex
      BY <1>3, <2>3, Zenon DEF ServerStep, StartElection, TallyVotes, BecomeLeader, Start,
         CheckCommit, ApplyCheck, ApplyNext, ReceiveCommand, ReceiveSnapshot, Snapshot,
         ServiceUnchanged, leaderVars
    <3> QED BY <3>1
  <2> QED BY <2>1, <2>2, <2>3
<1>4. ASSUME NEW s \in Server, NEW i \in Others(s), PeerStep(s, i)
      PROVE  \/ matchIndex'[x] = matchIndex[x]
             \/ \E j \in Others(x) : HandleSuccess(x, j) \/ HandleInstallSnapshotReply(x, j)
  <2>1. CASE HandleSuccess(s, i) \/ HandleInstallSnapshotReply(s, i)
    <3>1. CASE s = x
      BY <2>1, <3>1
    <3>2. CASE s # x
      BY <2>1, <3>2 DEF HandleSuccess, HandleInstallSnapshotReply, TypeOK
    <3> QED BY <3>1, <3>2
  <2>2. CASE ~HandleSuccess(s, i) /\ ~HandleInstallSnapshotReply(s, i)
    <3>1. matchIndex' = matchIndex
      BY <1>4, <2>2, Zenon DEF PeerStep, SendRequest, HandleRequestVoteReply, SendSnapshot,
         SendEntries, Sending, LeaderStepsDown, HandleRejection, leaderVars
    <3> QED BY <3>1
  <2> QED BY <2>1, <2>2
<1>5. ASSUME NEW m \in msgs, Receive(m)
      PROVE  \/ matchIndex'[x] = matchIndex[x]
             \/ state'[x] = "Follower" /\ \A i \in Server : matchIndex'[x][i] = 0
  <2>1. m.to \in Server
    BY RequestTypes DEF TypeOK
  <2>2. CASE TornAppendEntries(m)
    BY <1>2, <2>1, <2>2 DEF TornAppendEntries
  <2>3. CASE RequestVote(m) \/ AppendEntries(m) \/ InstallSnapshot(m)
    <3>1. matchIndex' = matchIndex
      BY <2>3, Zenon DEF RequestVote, VoteInNewTerm, VoteAgain, VoteInCurrentTerm, RefuseVote,
         VoteUnchanged, AppendEntries, StaleAppendEntries, AppendEntriesToLeader, RejectEntries,
         AcceptEntries, EntriesUnchanged, InstallSnapshot, leaderVars
    <3> QED BY <3>1
  <2> QED BY <1>5, <2>2, <2>3 DEF Receive
<1>6. CASE UNCHANGED vars
  BY <1>1, <1>6 DEF vars, leaderVars
<1> QED BY <1>3, <1>4, <1>5, <1>6 DEF Next

\* A leader backs all it has made.
LEMMA LeaderBacks ==
  ASSUME TypeOK', Matching', VotesAccounted(Nat)', NEW s \in Server, state'[s] = "Leader",
         NEW t, t = currentTerm'[s], NEW n \in Nat, n <= Len(ledger'[t])
  PROVE  BacksUpTo(s, t, n)'
<1>1. /\ lastLogTerm(log'[s]) = t /\ lastLogIndex(log'[s]) = Len(ledger'[t])
      /\ Ledger(ledger') /\ lastLogIndex(log'[s]) \in Nat
  BY EndOfNextLog DEF Matching, Leads
<1> SUFFICES ASSUME NEW k \in 1 .. n
             PROVE  Backs(s, t, k)'
  BY DEF BacksUpTo
<1>2. k <= Len(ledger'[t])
  BY <1>1
<1>3. Has(ledger', log'[s], t, k)
  BY <1>1, <1>2, AgreesItself DEF Has
<1> QED BY <1>1, <1>3, BacksAtOnce

\* What a server counts on stays true.
LEMMA CountsOnStays ==
  ASSUME TypeOK, TypeOK', PersistedIsCurrent, Matching, Matching', Advances, NeverTorn,
         [Next]_vars, NEW s \in Server, NEW i \in Server, NEW t \in DOMAIN ledger,
         CountsOn(s, t, i), matchIndex'[s][i] = matchIndex[s][i]
  PROVE  CountsOn(s, t, i)'
<1>1. /\ log[s].lastIncludedIndex \in Nat /\ log'[s].lastIncludedIndex \in Nat
      /\ matchIndex[s][i] \in Int
  <2>1. log[s] \in Log /\ log'[s] \in Log /\ matchIndex[s][i] \in Int
    BY DEF TypeOK
  <2> QED BY <2>1, LogBasics
<1>2. PICK n \in Int : n = matchIndex[s][i]
  BY <1>1
<1>3. CASE n <= log[s].lastIncludedIndex
  <2>1. log[s].lastIncludedIndex <= log'[s].lastIncludedIndex
    BY StartsRise
  <2> QED BY <1>1, <1>2, <1>3, <2>1 DEF CountsOn
<1>4. CASE Own(ledger, t, n) /\ BacksUpTo(i, t, n) /\ BacksUpTo(s, t, n)
  <2>1. LedgerGrows
    BY DEF Advances
  <2>2. n \in Nat /\ n <= Len(ledger[t])
    BY <1>4, <2>1, OwnBasics DEF LedgerGrows
  <2>3. Own(ledger', t, n)
    BY <1>4, <2>1, <2>2, OwnStays DEF LedgerGrows
  <2>4. BacksUpTo(i, t, n)' /\ BacksUpTo(s, t, n)'
    BY <1>4, <2>2, BacksUpToStays
  <2> QED BY <1>2, <2>3, <2>4 DEF CountsOn
<1> QED BY <1>2, <1>3, <1>4 DEF CountsOn

\* An acknowledgement of entries is one a leader may count on.
LEMMA SuccessCounts ==
  ASSUME TypeOK, TypeOK', Matching, Matching', Advances, VotesAccounted(Nat)',
         Acknowledged, NEW s \in Server, NEW i \in Others(s), HandleSuccess(s, i),
         NEW t, t = currentTerm[s]
  PROVE  /\ state[s] = "Leader" /\ turnToLeader[s] /\ OfficeKept(s)
         /\ \A j \in Server \ {i} : matchIndex'[s][j] = matchIndex[s][j]
         /\ CountsOn(s, t, i)'
<1>0. i \in Server
  BY DEF Others
<1>1. /\ state[s] = "Leader" /\ entryRpc[s][i].st = "replied"
      /\ entryRpc[s][i].req.type = "AppendEntries" /\ entryRpc[s][i].req.term = t
      /\ entryRpc[s][i].reply.success
      /\ matchIndex' = [matchIndex EXCEPT ![s][i] = Acked(entryRpc[s][i].req)]
      /\ UNCHANGED <<currentTerm, state, log, turnToLeader, ledger>>
  BY DEF HandleSuccess, Awaited, ReplyUnchanged, electionVars
<1>2. PICK m \in msgs : m = entryRpc[s][i].req
  BY <1>1 DEF Acknowledged, SlotAcks
<1>3. m.from = s /\ BacksUpTo(i, m.term, Acked(m))
  BY <1>1, <1>2 DEF Acknowledged, SlotAcks
<1>4. m.type = "AppendEntries" /\ m.term = t
  BY <1>1, <1>2
<1>5. turnToLeader[s]
  BY <1>1, <1>3, <1>4 DEF Acknowledged, Sent
<1>6. /\ Acked(m) \in Nat /\ t \in DOMAIN ledger /\ Acked(m) <= Len(ledger[t])
      /\ Own(ledger, t, Acked(m))
  BY <1>4, EntriesBasics
<1>7. /\ matchIndex'[s][i] = Acked(m)
      /\ \A j \in Server \ {i} : matchIndex'[s][j] = matchIndex[s][j]
  BY <1>0, <1>1, <1>2 DEF TypeOK
<1>8. BacksUpTo(i, t, Acked(m))'
  BY <1>0, <1>3, <1>4, <1>6, BacksUpToStays
<1>9. BacksUpTo(s, t, Acked(m))'
  BY <1>1, <1>6, LeaderBacks
<1>10. Own(ledger', t, Acked(m))
  BY <1>1, <1>6
<1>11. CountsOn(s, t, i)'
  BY <1>7, <1>8, <1>9, <1>10 DEF CountsOn
<1> QED BY <1>1, <1>5, <1>7, <1>11 DEF OfficeKept

\* An acknowledgement of a snapshot adds nothing to count on.
LEMMA SnapshotCounts ==
  ASSUME TypeOK, Acknowledged, NEW s \in Server, NEW i \in Others(s),
         HandleInstallSnapshotReply(s, i)
  PROVE  /\ OfficeKept(s)
         /\ \A j \in Server \ {i} : matchIndex'[s][j] = matchIndex[s][j]
         /\ matchIndex'[s][i] <= log'[s].lastIncludedIndex
<1>0. i \in Server
  BY DEF Others
<1>1. /\ entryRpc[s][i].st = "replied" /\ entryRpc[s][i].req.type = "InstallSnapshot"
      /\ matchIndex' = [matchIndex EXCEPT ![s][i] = entryRpc[s][i].req.lastIncludedIndex]
      /\ UNCHANGED <<currentTerm, state, log, turnToLeader>>
  BY DEF HandleInstallSnapshotReply, Awaited, ReplyUnchanged
<1>2. PICK m \in msgs : m = entryRpc[s][i].req
  BY <1>1 DEF Acknowledged, SlotAcks
<1>3. m.from = s /\ m.lastIncludedIndex <= log[s].lastIncludedIndex
  BY <1>1, <1>2 DEF Acknowledged, SlotAcks, Sent
<1>4. /\ matchIndex'[s][i] = m.lastIncludedIndex
      /\ \A j \in Server \ {i} : matchIndex'[s][j] = matchIndex[s][j]
  BY <1>0, <1>1, <1>2 DEF TypeOK
<1> QED BY <1>1, <1>3, <1>4 DEF OfficeKept

\* What a server counts on is backed after the step.
LEMMA CountsStep ==
  ASSUME TypeOK, TypeOK', PersistedIsCurrent, Matching, Matching', VotesAccounted(Nat)',
         Advances, Acknowledged, NeverTorn, [Next]_vars, NEW s \in Server
  PROVE  \E t \in DOMAIN ledger' :
           /\ state'[s] = "Leader" /\ turnToLeader'[s] => t = currentTerm'[s]
           /\ \A i \in Others(s) : CountsOn(s, t, i)'
<1>0. /\ Others(s) \subseteq Server /\ DOMAIN ledger \subseteq DOMAIN ledger' /\ 0 \in DOMAIN ledger'
      /\ log'[s].lastIncludedIndex \in Nat
  <2>1. log'[s] \in Log
    BY DEF TypeOK
  <2> QED BY <2>1, LogBasics DEF Others, Advances, LedgerGrows, GrowsTo, Ledger
<1>1. PICK t \in DOMAIN ledger :
        /\ state[s] = "Leader" /\ turnToLeader[s] => t = currentTerm[s]
        /\ \A i \in Others(s) : CountsOn(s, t, i)
  BY DEF Acknowledged
<1>2. ASSUME NEW i \in Others(s), matchIndex'[s][i] = matchIndex[s][i]
      PROVE  CountsOn(s, t, i)'
  BY <1>0, <1>1, <1>2, CountsOnStays
<1>3. CASE InitLeader(s)
  <2>1. /\ state[s] = "Leader" /\ matchIndex'[s] = [i \in Server |-> log[s].lastIncludedIndex]
        /\ currentTerm' = currentTerm
    BY <1>3 DEF InitLeader, TypeOK
  <2>2. currentTerm'[s] \in DOMAIN ledger
    BY <2>1, EndOfLog DEF Matching, Leads
  <2>3. \A i \in Others(s) : matchIndex'[s][i] <= log'[s].lastIncludedIndex
    BY <1>0, <2>1, StartsRise
  <2> QED BY <1>0, <2>2, <2>3 DEF CountsOn
<1>4. CASE OfficeKept(s) /\ \A i \in Others(s) : CountsOn(s, t, i)'
  BY <1>0, <1>1, <1>4 DEF OfficeKept
<1>5. CASE state'[s] = "Follower" /\ \A i \in Server : matchIndex'[s][i] = 0
  BY <1>0, <1>5 DEF CountsOn
<1>6. ASSUME NEW i \in Others(s), HandleSuccess(s, i)
      PROVE  OfficeKept(s) /\ \A j \in Others(s) : CountsOn(s, t, j)'
  <2>1. /\ state[s] = "Leader" /\ turnToLeader[s] /\ OfficeKept(s)
        /\ \A j \in Server \ {i} : matchIndex'[s][j] = matchIndex[s][j]
        /\ CountsOn(s, t, i)'
    BY <1>1, <1>6, SuccessCounts
  <2> QED BY <1>0, <1>2, <2>1
<1>7. ASSUME NEW i \in Others(s), HandleInstallSnapshotReply(s, i)
      PROVE  OfficeKept(s) /\ \A j \in Others(s) : CountsOn(s, t, j)'
  <2>1. /\ OfficeKept(s)
        /\ \A j \in Server \ {i} : matchIndex'[s][j] = matchIndex[s][j]
        /\ matchIndex'[s][i] <= log'[s].lastIncludedIndex
    BY <1>7, SnapshotCounts
  <2>2. CountsOn(s, t, i)'
    BY <2>1 DEF CountsOn
  <2> QED BY <1>0, <1>2, <2>1, <2>2
<1>8. CASE matchIndex'[s] = matchIndex[s] /\ ~InitLeader(s)
  <2>1. \A i \in Others(s) : CountsOn(s, t, i)'
    BY <1>2, <1>8
  <2>2. state'[s] = "Leader" /\ turnToLeader'[s] => OfficeKept(s)
    <3>1. BecomeLeader(s) => ~turnToLeader'[s]
      BY DEF BecomeLeader, TypeOK
    <3> QED BY <1>8, <3>1, OfficeMoves
  <2> QED BY <1>0, <1>1, <2>1, <2>2 DEF OfficeKept
<1> QED BY <1>3, <1>4, <1>5, <1>6, <1>7, <1>8, MatchMoves

\* What is acknowledged stays backed.
LEMMA AcknowledgedStep ==
  ASSUME TypeOK, TypeOK', PersistedIsCurrent, Matching, Matching', VotesAccounted(Nat)',
         Orderly, ElectionSafety', TermsKept, Advances, Acknowledged, NeverTorn, [Next]_vars
  PROVE  Acknowledged'
<1>1. \A s \in Server : \A i \in Others(s) : SlotAcks(s, i)'
  <2>1. \A s \in Server : Others(s) \subseteq Server
    BY DEF Others
  <2> QED BY <2>1, SlotAcksStep DEF Acknowledged
<1>2. \A m \in msgs' : Sent(m)'
  BY SentStep DEF Acknowledged
<1>3. \A s \in Server : \E t \in DOMAIN ledger' :
        /\ state'[s] = "Leader" /\ turnToLeader'[s] => t = currentTerm'[s]
        /\ \A i \in Others(s) : CountsOn(s, t, i)'
  BY CountsStep
<1> QED BY <1>1, <1>2, <1>3 DEF Acknowledged, Others

(***************************************************************************)
(* Counting commands.                                                      *)
(***************************************************************************)
\* The commands up to an entry are finitely many; no fewer are before a later one, and
\* fewer before a command than with it.
LEMMA CountedBasics ==
  ASSUME NEW g, NEW t, NEW k \in Int
  PROVE  /\ IsFiniteSet(Commands(g, t, k)) /\ Counted(g, t, k) \in Nat
         /\ k <= 0 => Counted(g, t, k) = 0
         /\ \A j \in Int : j <= k => Counted(g, t, j) <= Counted(g, t, k)
         /\ \A j \in Int : j < k /\ k > 0 /\ g[t][k].cmd # NoOp =>
              Counted(g, t, j) < Counted(g, t, k)
<1>1. \A j \in Int : Commands(g, t, j) \subseteq 1 .. j
  BY DEF Commands
<1>2. \A j \in Int : IsFiniteSet(Commands(g, t, j)) /\ Counted(g, t, j) \in Nat
  BY <1>1, IntervalSubset, FS_CardinalityType DEF Counted
<1>3. k <= 0 => Counted(g, t, k) = 0
  <2>1. k <= 0 => Commands(g, t, k) = {}
    BY DEF Commands
  <2> QED BY <2>1, FS_EmptySet DEF Counted
<1>4. ASSUME NEW j \in Int, j <= k
      PROVE  /\ Commands(g, t, j) \subseteq Commands(g, t, k)
             /\ Counted(g, t, j) <= Counted(g, t, k)
             /\ Counted(g, t, k) = Counted(g, t, j) => Commands(g, t, j) = Commands(g, t, k)
  <2>1. Commands(g, t, j) \subseteq Commands(g, t, k)
    BY <1>4 DEF Commands
  <2> QED BY <1>2, <2>1, FS_Subset DEF Counted
<1>5. ASSUME NEW j \in Int, j < k, k > 0, g[t][k].cmd # NoOp
      PROVE  Counted(g, t, j) < Counted(g, t, k)
  <2>1. k \in Commands(g, t, k) /\ k \notin Commands(g, t, j)
    BY <1>5 DEF Commands
  <2>2. Counted(g, t, j) # Counted(g, t, k) /\ Counted(g, t, j) <= Counted(g, t, k)
    BY <1>4, <1>5, <2>1
  <2> QED BY <1>2, <2>2
<1> QED BY <1>2, <1>3, <1>4, <1>5

\* Leaders that agree count the same.
LEMMA CountedSame ==
  ASSUME NEW g, NEW t, NEW u, NEW k \in Int, k > 0 => Agree(g, t, u, k)
  PROVE  Counted(g, t, k) = Counted(g, u, k)
<1>1. Commands(g, t, k) = Commands(g, u, k)
  BY DEF Commands, Agree
<1> QED BY <1>1 DEF Counted

\* What has been counted is counted the same in a ledger that has grown.
LEMMA CountedStays ==
  ASSUME NEW g, Ledger(g), NEW h, GrowsTo(g, h), NEW t \in DOMAIN g, NEW k \in Int,
         k <= Len(g[t])
  PROVE  Counted(h, t, k) = Counted(g, t, k)
<1>1. Len(g[t]) \in Nat
  BY LedgerBasics
<1>2. \A j \in 1 .. k : h[t][j] = g[t][j]
  BY <1>1 DEF GrowsTo
<1>3. Commands(g, t, k) = Commands(h, t, k)
  BY <1>2 DEF Commands
<1> QED BY <1>3 DEF Counted

\* The public index of an entry after the snapshot counts the commands up to it, if the
\* snapshot's does.
LEMMA PublicIsCounted ==
  ASSUME NEW g, NEW L \in Log, NEW t, Along(g, L, t),
         L.lastIncludedPublicIndex = Counted(g, t, L.lastIncludedIndex),
         NEW k \in Held(L)
  PROVE  realToPublicIndex(L, k) = Counted(g, t, k)
<1> DEFINE n == L.lastIncludedIndex
<1>1. /\ n \in Nat /\ lastLogIndex(L) \in Nat /\ k \in Nat /\ n < k
      /\ k \in Indices(L) \ {n}
  BY LogBasics DEF Held, Indices
<1>2. CommandsUpTo(L, k) = {j \in (n + 1) .. k : g[t][j].cmd # NoOp}
  <2>1. \A j \in (n + 1) .. k : j \in Held(L)
    BY <1>1 DEF Held
  <2>2. \A j \in (n + 1) .. k : At(L, j) = g[t][j]
    BY <2>1 DEF Along
  <2> QED BY <2>2 DEF CommandsUpTo
<1>3. /\ Commands(g, t, k) = Commands(g, t, n) \cup CommandsUpTo(L, k)
      /\ Commands(g, t, n) \cap CommandsUpTo(L, k) = {}
  BY <1>1, <1>2 DEF Commands
<1>4. realToPublicIndex(L, k) = Counted(g, t, n) + Cardinality(CommandsUpTo(L, k))
  BY <1>1 DEF realToPublicIndex
<1>5. IsFiniteSet(Commands(g, t, n)) /\ IsFiniteSet(CommandsUpTo(L, k))
  <2>1. IsFiniteSet(Commands(g, t, k)) /\ IsFiniteSet(Commands(g, t, n))
    BY <1>1, CountedBasics
  <2>2. CommandsUpTo(L, k) \in SUBSET Commands(g, t, k)
    BY <1>3
  <2> QED BY <2>1, <2>2, FS_Subset
<1> HIDE DEF n
<1>6. Counted(g, t, k) = Counted(g, t, n) + Cardinality(CommandsUpTo(L, k))
  <2>1. /\ Cardinality(Commands(g, t, n)) \in Nat
        /\ Cardinality(CommandsUpTo(L, k)) \in Nat /\ Cardinality({}) = 0
    BY <1>5, FS_CardinalityType, FS_EmptySet
  <2>2. Cardinality(Commands(g, t, k))
          = Cardinality(Commands(g, t, n)) + Cardinality(CommandsUpTo(L, k))
            - Cardinality(Commands(g, t, n) \cap CommandsUpTo(L, k))
    BY <1>3, <1>5, FS_Union
  <2> QED BY <1>3, <2>1, <2>2 DEF Counted
<1> QED BY <1>4, <1>6

\* The entry Snapshot cuts at is the command of the index it is called with.
LEMMA CutIsCommand ==
  ASSUME NEW L \in Log, NEW public, NEW real, real = publicToRealIndex(L, public),
         real # NotFound, real > L.lastIncludedIndex
  PROVE  real \in Held(L) /\ At(L, real).cmd # NoOp /\ realToPublicIndex(L, real) = public
<1> DEFINE here == {k \in CommandsUpTo(L, lastLogIndex(L)) :
                      realToPublicIndex(L, k) = public}
<1>1. /\ L.lastIncludedIndex \in Nat /\ lastLogIndex(L) \in Int
      /\ ~(L.lastIncludedIndex > L.lastIncludedIndex)
  BY LogBasics
<1>2. public # L.lastIncludedPublicIndex
  BY <1>1 DEF publicToRealIndex
<1>3. here # {} /\ real = Min(here)
  BY <1>2 DEF publicToRealIndex
<1>4. here \subseteq (L.lastIncludedIndex + 1) .. lastLogIndex(L)
  BY DEF CommandsUpTo
<1>5. Min(here) \in here
  <2>1. L.lastIncludedIndex + 1 \in Int
    BY <1>1
  <2> HIDE DEF here
  <2> QED BY <1>1, <1>3, <1>4, <2>1, IntervalSubset
<1> QED BY <1>3, <1>5 DEF CommandsUpTo, Held

(***************************************************************************)
(* What is committed and applied.                                          *)
(***************************************************************************)
\* x commits, applies and saves nothing, and its service receives nothing.
Idles(x) ==
  /\ commitIndex'[x] = commitIndex[x] /\ lastApplied'[x] = lastApplied[x]
  /\ applying'[x] = applying[x] /\ outbox'[x] = outbox[x] /\ installing'[x] = installing[x]
  /\ service'[x] = service[x] /\ persisted'[x].snapshot = persisted[x].snapshot

\* x starts anew from its snapshot.
Boots(x) ==
  /\ commitIndex'[x] = log[x].lastIncludedIndex /\ lastApplied'[x] = log[x].lastIncludedIndex
  /\ ~applying'[x] /\ outbox'[x] = Nil /\ installing'[x] = {}
  /\ service'[x] = persisted[x].snapshot /\ persisted'[x].snapshot = persisted[x].snapshot

\* x installs the snapshot a leader sends.
Installs(x) == \E m \in msgs : m.to = x /\ InstallSnapshot(m) /\ InstallNewSnapshot(m)

\* Saving without a snapshot keeps the snapshots.
LEMMA SnapshotsSaved ==
  ASSUME TypeOK, NEW s \in Server, persist(s) \/ UNCHANGED persisted
  PROVE  \A x \in Server : persisted'[x].snapshot = persisted[x].snapshot
<1>1. CASE UNCHANGED persisted
  BY <1>1
<1>2. CASE persist(s)
  <2>1. persisted' = [persisted EXCEPT ![s] = [currentTerm |-> currentTerm'[s],
                                               votedFor    |-> votedFor'[s],
                                               log         |-> log'[s],
                                               snapshot    |-> persisted[s].snapshot]]
    BY <1>2 DEF persist, persistWithSnapshot
  <2> QED BY <2>1 DEF TypeOK
<1> QED BY <1>1, <1>2

\* The steps in which nobody commits or applies.
LEMMA EveryoneIdles ==
  ASSUME TypeOK, NEW s \in Server, UNCHANGED <<commitIndex, lastApplied, applyVars>>,
         persist(s) \/ UNCHANGED persisted
  PROVE  \A x \in Server : Idles(x)
BY SnapshotsSaved DEF Idles, applyVars

\* Who restarts boots.
LEMMA BootBoots ==
  ASSUME TypeOK, PersistedIsCurrent, NEW s \in Server, Boot(s, persisted[s]), NEW x \in Server
  PROVE  Idles(x) \/ Boots(x)
<1>1. persisted[s].log = log[s] /\ persisted' = [persisted EXCEPT ![s] = persisted[s]]
  BY DEF PersistedIsCurrent, Boot
<1>2. persisted'[x].snapshot = persisted[x].snapshot
  BY <1>1 DEF TypeOK
<1>3. CASE x = s
  BY <1>1, <1>2, <1>3 DEF Boot, Boots, TypeOK
<1>4. CASE x # s
  BY <1>2, <1>4 DEF Boot, Idles, TypeOK
<1> QED BY <1>3, <1>4

\* A server's own steps.
LEMMA ServerApplies ==
  ASSUME TypeOK, PersistedIsCurrent, NEW s \in Server, ServerStep(s), NEW x \in Server
  PROVE  \/ Idles(x) \/ Boots(x) \/ CheckCommit(x) \/ ApplyCheck(x) \/ ApplyNext(x)
         \/ ReceiveCommand(x) \/ ReceiveSnapshot(x) \/ Snapshot(x)
<1>1. CASE \/ StartElection(s) \/ TallyVotes(s) \/ BecomeLeader(s) \/ InitLeader(s)
           \/ \E c \in Command : Start(s, c)
  <2>1. /\ UNCHANGED <<commitIndex, lastApplied, applyVars>>
        /\ persist(s) \/ UNCHANGED persisted
    BY <1>1, Zenon DEF StartElection, TallyVotes, BecomeLeader, InitLeader, Start
  <2> QED BY <2>1, EveryoneIdles
<1>2. CASE Restart(s)
  BY <1>2, BootBoots DEF Restart
<1>3. CASE CheckCommit(s) /\ x # s
  <2>1. /\ UNCHANGED <<lastApplied, applyVars, persisted>>
        /\ commitIndex'[x] = commitIndex[x]
    BY <1>3 DEF CheckCommit, TypeOK
  <2> QED BY <2>1 DEF Idles, applyVars
<1>4. CASE (ApplyCheck(s) \/ ApplyNext(s)) /\ x # s
  <2>1. persist(s) \/ UNCHANGED persisted
    BY <1>4 DEF ApplyCheck, ApplyNext
  <2>2. persisted'[x].snapshot = persisted[x].snapshot
    BY <2>1, SnapshotsSaved
  <2> QED BY <1>4, <2>2 DEF ApplyCheck, ApplyNext, Idles, TypeOK
<1>5. CASE (ReceiveCommand(s) \/ ReceiveSnapshot(s)) /\ x # s
  <2>1. /\ UNCHANGED <<commitIndex, lastApplied, applying, persisted>>
        /\ \E N : service' = [service EXCEPT ![s] = N]
        /\ outbox' = outbox \/ outbox' = [outbox EXCEPT ![s] = Nil]
        /\ installing' = installing \/ \E N : installing' = [installing EXCEPT ![s] = N]
    BY <1>5, Zenon DEF ReceiveCommand, ReceiveSnapshot, ServiceUnchanged
  <2>2. /\ service'[x] = service[x] /\ outbox'[x] = outbox[x]
        /\ installing'[x] = installing[x]
    BY <1>5, <2>1 DEF TypeOK
  <2> QED BY <2>1, <2>2 DEF Idles
<1>6. CASE Snapshot(s) /\ x # s
  <2>1. persisted'[x] = persisted[x]
    BY <1>6 DEF Snapshot, persistWithSnapshot, TypeOK
  <2> QED BY <1>6, <2>1 DEF Snapshot, ServiceUnchanged, Idles
<1> QED BY <1>1, <1>2, <1>3, <1>4, <1>5, <1>6 DEF ServerStep

\* The steps of the goroutine a server runs for a peer.
LEMMA PeerIdles ==
  ASSUME TypeOK, NEW s \in Server, NEW i \in Others(s), PeerStep(s, i)
  PROVE  \A x \in Server : Idles(x)
<1>1. /\ UNCHANGED <<commitIndex, lastApplied, applyVars>>
      /\ persist(s) \/ UNCHANGED persisted
  BY Zenon DEF PeerStep, SendRequest, HandleRequestVoteReply, SendSnapshot, SendEntries, Sending,
     LeaderStepsDown, HandleRejection, HandleSuccess, HandleInstallSnapshotReply, ReplyUnchanged
<1> QED BY <1>1, EveryoneIdles

\* Requests.
LEMMA RequestApplies ==
  ASSUME TypeOK, NEW m \in msgs, Receive(m), ~TornAppendEntries(m), NEW x \in Server
  PROVE  \/ Idles(x)
         \/ m.to = x /\ AppendEntries(m) /\ AcceptEntries(m)
         \/ m.to = x /\ InstallSnapshot(m) /\ InstallNewSnapshot(m)
<1>1. m.to \in Server
  BY RequestTypes DEF TypeOK
<1>2. CASE RequestVote(m)
  <2>1. /\ UNCHANGED <<commitIndex, lastApplied, applyVars>>
        /\ persist(m.to) \/ UNCHANGED persisted
    BY <1>2, Zenon DEF RequestVote, VoteInNewTerm, VoteAgain, VoteInCurrentTerm, RefuseVote,
       VoteUnchanged
  <2> QED BY <1>1, <2>1, EveryoneIdles
<1>3. CASE AppendEntries(m) /\ ~AcceptEntries(m)
  <2>1. /\ UNCHANGED <<commitIndex, lastApplied, applyVars>>
        /\ persist(m.to) \/ UNCHANGED persisted
    BY <1>3, Zenon DEF AppendEntries, StaleAppendEntries, AppendEntriesToLeader, RejectEntries,
       EntriesUnchanged
  <2> QED BY <1>1, <2>1, EveryoneIdles
<1>4. CASE AcceptEntries(m) /\ m.to # x
  <2>1. persist(m.to) /\ UNCHANGED <<lastApplied, applyVars>>
    BY <1>4 DEF AcceptEntries, EntriesUnchanged
  <2>2. persisted'[x].snapshot = persisted[x].snapshot
    BY <1>1, <2>1, SnapshotsSaved
  <2>3. commitIndex'[x] = commitIndex[x]
    BY <1>1, <1>4 DEF AcceptEntries, TypeOK
  <2> QED BY <2>1, <2>2, <2>3 DEF Idles, applyVars
<1>5. CASE InstallSnapshot(m) /\ ~InstallNewSnapshot(m)
  <2>1. /\ UNCHANGED <<commitIndex, lastApplied, applyVars>>
        /\ persist(m.to) \/ UNCHANGED persisted
    BY <1>5, Zenon DEF InstallSnapshot, RefuseSnapshot, IgnoreOldSnapshot, applyVars
  <2> QED BY <1>1, <2>1, EveryoneIdles
<1>6. CASE InstallSnapshot(m) /\ InstallNewSnapshot(m) /\ m.to # x
  <2>1. persisted'[x] = persisted[x]
    BY <1>1, <1>6 DEF InstallNewSnapshot, persistWithSnapshot, TypeOK
  <2>2. UNCHANGED <<applying, outbox, service>>
    BY <1>6 DEF InstallSnapshot
  <2>3. /\ commitIndex'[x] = commitIndex[x] /\ lastApplied'[x] = lastApplied[x]
        /\ installing'[x] = installing[x]
    BY <1>1, <1>6 DEF InstallNewSnapshot, TypeOK
  <2> QED BY <2>1, <2>2, <2>3 DEF Idles
<1> QED BY <1>2, <1>3, <1>4, <1>5, <1>6 DEF Receive, AppendEntries

\* All steps.
LEMMA ApplyMoves ==
  ASSUME TypeOK, TypeOK', PersistedIsCurrent, NeverTorn, [Next]_vars, NEW x \in Server
  PROVE  \/ Snapshot(x) \/ Installs(x)
         \/ /\ StartsAsBefore(x)
            /\ \/ Idles(x) \/ Boots(x) \/ CheckCommit(x) \/ ApplyCheck(x) \/ ApplyNext(x)
               \/ ReceiveCommand(x) \/ ReceiveSnapshot(x)
               \/ \E m \in msgs : m.to = x /\ AppendEntries(m) /\ AcceptEntries(m)
<1>1. CASE UNCHANGED vars
  <2>1. UNCHANGED <<commitIndex, lastApplied, applyVars, persisted, log>>
    BY <1>1 DEF vars
  <2>2. Idles(x)
    BY <2>1 DEF Idles, applyVars
  <2> QED BY <2>1, <2>2 DEF StartsAsBefore, SameStart
<1>2. ASSUME NEW m \in msgs, Receive(m)
      PROVE  \/ Idles(x)
             \/ m.to = x /\ AppendEntries(m) /\ AcceptEntries(m)
             \/ m.to = x /\ InstallSnapshot(m) /\ InstallNewSnapshot(m)
  <2>1. ~TornAppendEntries(m)
    BY TornTerms DEF Untorn
  <2> QED BY <1>2, <2>1, RequestApplies
<1>3. StartsAsBefore(x) \/ Snapshot(x) \/ Installs(x)
  BY StartsMove DEF Installs
<1> QED BY <1>1, <1>2, <1>3, ServerApplies, PeerIdles DEF Next, Installs

\* What is before the commit index of a server stays covered and counted.
LEMMA CommitStays ==
  ASSUME TypeOK, TypeOK', Matching, Matching', VotesAccounted(Nat), Advances,
         NEW x \in Server, Covered(x, commitIndex[x]), NEW j \in Int, j <= commitIndex[x]
  PROVE  /\ Covered(x, j) /\ Covered(x, j)'
         /\ Counted(ledger', lastLogTerm(log'[x]), j) = Counted(ledger, lastLogTerm(log[x]), j)
<1> DEFINE t == lastLogTerm(log[x])
           u == lastLogTerm(log'[x])
<1>1. commitIndex[x] \in Int
  BY DEF TypeOK
<1>2. Covered(x, j)
  BY <1>1, CoveredLess
<1>3. /\ Covered(x, j)'
      /\ j > 0 => j <= lastLogIndex(log[x]) /\ Agree(ledger', t, u, j)
  BY <1>2, CoveredStays
<1>4. /\ lastLogIndex(log[x]) \in Nat /\ t \in DOMAIN ledger
      /\ lastLogIndex(log[x]) <= Len(ledger[t]) /\ Ledger(ledger)
  BY EndOfLog
<1>5. Len(ledger[t]) \in Nat
  BY <1>4, LedgerBasics
<1> HIDE DEF t, u
<1>6. j <= Len(ledger[t])
  BY <1>3, <1>4, <1>5
<1>7. Counted(ledger', t, j) = Counted(ledger, t, j)
  BY <1>4, <1>6, CountedStays DEF Advances, LedgerGrows
<1>8. Counted(ledger', t, j) = Counted(ledger', u, j)
  BY <1>3, CountedSame
<1> QED BY <1>2, <1>3, <1>7, <1>8 DEF t, u

\* A leader has all its entries.
LEMMA LeaderHas ==
  ASSUME TypeOK, Matching, NEW s \in Server, state[s] = "Leader", NEW T, T = currentTerm[s]
  PROVE  /\ T \in DOMAIN ledger /\ T \in Nat /\ log[s] \in Log /\ Ledger(ledger)
         /\ Along(ledger, log[s], T) /\ lastLogTerm(log[s]) = T
         /\ lastLogIndex(log[s]) = Len(ledger[T]) /\ Len(ledger[T]) \in Nat
         /\ \A n \in Nat : n <= Len(ledger[T]) => Has(ledger, log[s], T, n)
<1>1. /\ lastLogTerm(log[s]) = T /\ lastLogIndex(log[s]) = Len(ledger[T])
      /\ Ledger(ledger) /\ T \in DOMAIN ledger /\ lastLogIndex(log[s]) \in Nat
  BY EndOfLog DEF Matching, Leads
<1>2. Along(ledger, log[s], T) /\ T \in Nat /\ log[s] \in Log
  BY <1>1, LogOfServer
<1>3. \A n \in Nat : n <= Len(ledger[T]) => Has(ledger, log[s], T, n)
  BY <1>1, AgreesItself DEF Has
<1> QED BY <1>1, <1>2, <1>3

\* The entries checkCommit counts are the leader's own, and on a majority.
LEMMA CommitRule ==
  ASSUME TypeOK, TypeOK', Matching, Matching', VotesAccounted(Nat), VotesAccounted(Nat)',
         Advances, Acknowledged, NEW s \in Server, state[s] = "Leader",
         UNCHANGED <<currentTerm, state, log, ledger>>, NEW n \in Committable(s)
  PROVE  Covered(s, n)'
<1>1. PICK T \in Nat : T = currentTerm[s]
  BY DEF TypeOK
<1>2. /\ T \in DOMAIN ledger /\ Ledger(ledger) /\ log[s] \in Log
      /\ Along(ledger, log[s], T) /\ lastLogIndex(log[s]) = Len(ledger[T])
      /\ Len(ledger[T]) \in Nat /\ \A k \in Nat : k <= Len(ledger[T]) => Has(ledger, log[s], T, k)
  BY <1>1, LeaderHas
<1>3. log[s].lastIncludedIndex \in Nat
  BY <1>2, LogBasics
<1>4. /\ n \in Nat /\ log[s].lastIncludedIndex < n /\ n <= Len(ledger[T])
      /\ \A k \in n .. Len(ledger[T]) : At(log[s], k).term = T
      /\ Majority({s} \cup {i \in Server : matchIndex[s][i] >= n})
  BY <1>1, <1>2, <1>3 DEF Committable
<1>5. \A k \in n .. Len(ledger[T]) : ledger[T][k].term = T
  <2>1. \A k \in n .. Len(ledger[T]) : k \in Held(log[s])
    BY <1>2, <1>3, <1>4 DEF Held
  <2> QED BY <1>2, <1>4, <2>1 DEF Along
<1> DEFINE M == {i \in Server : matchIndex[s][i] >= n} \ {s}
<1>6. Majority({s} \cup M)
  <2>1. {s} \cup M = {s} \cup {i \in Server : matchIndex[s][i] >= n}
    OBVIOUS
  <2> QED BY <1>4, <2>1
<1>7. ASSUME NEW q \in Nat, n <= q, Chosen(T, q)'
      PROVE  Covered(s, n)'
  <2>1. T \in DOMAIN ledger' /\ q \in 1 .. Len(ledger'[T])
    BY <1>7 DEF Chosen, Own
  <2>2. Has(ledger', log'[s], T, n) /\ T <= currentTerm'[s]
    BY <1>1, <1>2, <1>4
  <2> QED BY <1>7, <2>1, <2>2 DEF Covered
<1>8. CASE M = {}
  <2>1. Own(ledger', T, n)
    BY <1>2, <1>3, <1>4, <1>5 DEF Own
  <2>2. BacksUpTo(s, T, n)'
    BY <1>1, <1>4, LeaderBacks
  <2>3. Backs(s, T, n)'
    BY <1>3, <1>4, <2>1, <2>2 DEF BacksUpTo
  <2>4. Majority({s}) /\ {s} \in SUBSET Server
    BY <1>6, <1>8
  <2>5. {s} \subseteq {i \in Server : Backs(i, T, n)'}
    BY <2>3
  <2>6. Majority({i \in Server : Backs(i, T, n)'})
    BY <2>4, <2>5, MoreIsMajority
  <2>7. Chosen(T, n)'
    BY <2>1, <2>6 DEF Chosen, Majority
  <2> QED BY <1>4, <1>7, <2>7
<1>9. CASE M # {}
  <2>1. PICK t \in DOMAIN ledger : \A i \in Others(s) : CountsOn(s, t, i)
    BY DEF Acknowledged
  <2> DEFINE V == {matchIndex[s][i] : i \in M}
  <2>2. V \in SUBSET Int /\ IsFiniteSet(V) /\ V # {}
    <3>1. \A i \in Server : matchIndex[s][i] \in Int
      BY DEF TypeOK
    <3>2. IsFiniteSet(M)
      BY ServerAssumption, FS_Subset
    <3>3. IsFiniteSet(V)
      <4> DEFINE f == [i \in M |-> matchIndex[s][i]]
      <4>1. f \in Surjection(M, V)
        BY DEF Surjection
      <4> HIDE DEF f, M, V
      <4> QED BY <3>2, <4>1, FS_Surjection
    <3> QED BY <1>9, <3>1, <3>3
  <2>3. PICK q : q \in V /\ \A v \in V : q <= v
    <3> HIDE DEF V
    <3> QED BY <2>2, MinOfFinite
  <2>4. q \in Nat /\ n <= q /\ \A i \in M : matchIndex[s][i] \in Int /\ q <= matchIndex[s][i]
    <3>1. \A i \in M : matchIndex[s][i] \in V /\ matchIndex[s][i] >= n
      OBVIOUS
    <3> QED BY <1>4, <2>2, <2>3, <3>1
  <2>5. ASSUME NEW i \in M
        PROVE  /\ Own(ledger, t, matchIndex[s][i])
               /\ BacksUpTo(i, t, matchIndex[s][i]) /\ BacksUpTo(s, t, matchIndex[s][i])
    <3>1. i \in Others(s) /\ ~(matchIndex[s][i] <= log[s].lastIncludedIndex)
      BY <1>3, <1>4, <2>4 DEF Others
    <3> QED BY <2>1, <3>1 DEF CountsOn
  <2>6. PICK j \in M : matchIndex[s][j] = q
    BY <2>3
  <2>7. Own(ledger, t, q)
    BY <2>5, <2>6
  <2>8. \A i \in M : Backs(i, t, q) /\ Backs(s, t, q)
    <3>1. \A i \in M : q \in 1 .. matchIndex[s][i]
      BY <1>3, <1>4, <2>4
    <3> QED BY <2>5, <2>7, <3>1 DEF BacksUpTo
  <2>9. Chosen(t, q)
    <3>1. {s} \cup M \subseteq {i \in Server : Backs(i, t, q)}
      BY <2>6, <2>8
    <3>2. Majority({i \in Server : Backs(i, t, q)})
      <4> HIDE DEF M
      <4> QED BY <1>6, <3>1, MoreIsMajority
    <3> QED BY <2>7, <3>2 DEF Chosen
  <2>10. t <= T /\ t \in Nat
    BY <1>1, <1>2, <2>6, <2>8, LedgerBasics DEF Backs
  <2>11. Agree(ledger, T, t, q)
    BY <1>2, <2>9, <2>10, ChosenHolds
  <2>12. t = T
    <3>1. q \in n .. Len(ledger[T]) /\ ledger[T][q] = ledger[t][q]
      BY <1>3, <1>4, <2>4, <2>11 DEF Agree
    <3> QED BY <1>5, <2>7, <3>1 DEF Own
  <2> QED BY <1>7, <2>4, <2>9, <2>12, ChosenStays
<1> QED BY <1>8, <1>9

\* What a request of a leader carries is covered where its entries are.
LEMMA TakesCovered ==
  ASSUME TypeOK, TypeOK', Matching, Matching', VotesAccounted(Nat), Advances, ledger' = ledger,
         NEW i \in Server, NEW t \in DOMAIN ledger, t <= currentTerm'[i], NEW k \in Int,
         Carried(t, k),
         k > 0 => k <= lastLogIndex(log'[i]) /\ Agree(ledger, lastLogTerm(log'[i]), t, k)
  PROVE  Covered(i, k)'
<1> SUFFICES ASSUME k > 0 PROVE Covered(i, k)'
  BY DEF Covered
<1>1. PICK T \in DOMAIN ledger : \E n \in 1 .. Len(ledger[T]) :
             Chosen(T, n) /\ T <= t /\ k <= n
  BY DEF Carried
<1>2. PICK n \in 1 .. Len(ledger[T]) : Chosen(T, n) /\ T <= t /\ k <= n
  BY <1>1
<1>3. /\ lastLogTerm(log'[i]) \in DOMAIN ledger /\ Ledger(ledger) /\ currentTerm'[i] \in Nat
  BY EndOfNextLog
<1>4. t \in Nat /\ T \in Nat /\ n \in Nat /\ k \in 0 .. n /\ k \in Nat
  BY <1>2, <1>3, LedgerBasics
<1>5. Agree(ledger, t, T, n)
  BY <1>2, ChosenHolds
<1>6. Agree(ledger, t, T, k)
  BY <1>3, <1>4, <1>5, Agreements
<1>7. Agree(ledger, lastLogTerm(log'[i]), T, k)
  BY <1>3, <1>4, <1>6, Agreements
<1>8. Has(ledger', log'[i], T, k) /\ T <= currentTerm'[i]
  BY <1>2, <1>3, <1>4, <1>7 DEF Has
<1>9. Chosen(T, n)'
  BY <1>2, ChosenStays
<1> QED BY <1>2, <1>8, <1>9 DEF Covered

\* A follower commits what the leader has, as far as its entries reach.
LEMMA AcceptCommits ==
  ASSUME TypeOK, TypeOK', Matching, Matching', VotesAccounted(Nat), Advances,
         NEW m \in msgs, AppendEntries(m), AcceptEntries(m), Carries(m),
         Covered(m.to, commitIndex[m.to])
  PROVE  /\ commitIndex[m.to] <= commitIndex'[m.to]
         /\ Covered(m.to, commitIndex[m.to])'
<1> DEFINE i == m.to
           k == m.leaderCommit
<1>1. /\ m.type = "AppendEntries" /\ m \in EntriesRequest /\ i \in Server
      /\ m.term \in DOMAIN ledger /\ m.term \in Nat /\ Acked(m) \in Nat
  BY EntriesBasics DEF AppendEntries
<1>2. k \in Int /\ commitIndex[i] \in Int /\ log'[i] \in Log
  BY <1>1 DEF EntriesRequest, TypeOK
<1>3. /\ ledger' = ledger /\ Acked(m) <= lastLogIndex(log'[i])
      /\ Agree(ledger, lastLogTerm(log'[i]), m.term, Acked(m))
  BY <1>1, AcceptTakes DEF Advances
<1>4. k <= Acked(m) /\ Carried(m.term, k)
  BY <1>1 DEF Carries
<1>5. /\ commitIndex'[i] = IF k > commitIndex[i] THEN Min({k, lastLogIndex(log'[i])})
                                                 ELSE commitIndex[i]
      /\ currentTerm'[i] = m.term
  <2>1. log'[i] = merge(log[i], m.prevLogIndex, m.entries)
    BY <1>1 DEF AcceptEntries, TypeOK
  <2>2. commitIndex'[i] = IF k > commitIndex[i] THEN Min({k, lastLogIndex(log'[i])})
                                                ELSE commitIndex[i]
    BY <1>1, <2>1 DEF AcceptEntries, TypeOK
  <2>3. currentTerm'[i] = m.term
    BY <1>1 DEF AcceptEntries, Follow, AdoptTerm, TypeOK
  <2> QED BY <2>2, <2>3
<1>6. lastLogIndex(log'[i]) \in Nat
  BY <1>2, LogBasics
<1>7. Min({k, lastLogIndex(log'[i])}) = k
  BY <1>1, <1>2, <1>3, <1>4, <1>6, PairValues
<1>8. CASE k > commitIndex[i]
  <2>1. commitIndex'[i] = k
    BY <1>5, <1>7, <1>8
  <2>2. k > 0 => k <= lastLogIndex(log'[i]) /\ Agree(ledger, lastLogTerm(log'[i]), m.term, k)
    <3>1. /\ lastLogTerm(log'[i]) \in DOMAIN ledger /\ Ledger(ledger)
      BY <1>1, <1>3, EndOfNextLog
    <3>2. k > 0 => k \in 0 .. Acked(m)
      BY <1>1, <1>2, <1>4
    <3> QED BY <1>1, <1>2, <1>3, <1>4, <1>6, <3>1, <3>2, Agreements
  <2>3. Covered(i, k)'
    BY <1>1, <1>2, <1>3, <1>4, <1>5, <2>2, TakesCovered
  <2> QED BY <1>2, <1>8, <2>1, <2>3 DEF Covered
<1>9. CASE ~(k > commitIndex[i])
  <2>1. PICK c \in Int : c = commitIndex[i]
    BY <1>2
  <2>2. Covered(i, c)'
    BY <1>1, <2>1, CommitStays
  <2> QED BY <1>5, <1>9, <2>1, <2>2 DEF Covered
<1> QED BY <1>8, <1>9

\* A server that installs a snapshot has committed and applied what it stands for.
LEMMA InstallCommits ==
  ASSUME TypeOK, TypeOK', Matching, Matching', VotesAccounted(Nat), Advances,
         NEW m \in msgs, InstallSnapshot(m), InstallNewSnapshot(m), Carries(m),
         Covered(m.to, commitIndex[m.to]), lastApplied[m.to] <= commitIndex[m.to]
  PROVE  /\ Covered(m.to, commitIndex[m.to])'
         /\ lastApplied'[m.to] <= commitIndex'[m.to]
         /\ m.lastIncludedIndex <= lastApplied'[m.to]
         /\ lastApplied[m.to] <= lastApplied'[m.to]
<1> DEFINE i == m.to
           k == m.lastIncludedIndex
<1>1. m \in SnapshotRequest /\ i \in Server /\ log'[i].lastIncludedIndex = k
  BY InstallStart
<1>2. /\ k \in Nat /\ commitIndex[i] \in Int /\ lastApplied[i] \in Int
      /\ log'[i] \in Log /\ m.term \in Nat
  BY <1>1 DEF SnapshotRequest, TypeOK
<1>3. /\ commitIndex'[i] = Max({commitIndex[i], k}) /\ lastApplied'[i] = Max({lastApplied[i], k})
      /\ m.term <= currentTerm'[i]
  <2>1. commitIndex'[i] = Max({commitIndex[i], k}) /\ lastApplied'[i] = Max({lastApplied[i], k})
    BY <1>1 DEF InstallNewSnapshot, TypeOK
  <2>2. m.term <= currentTerm'[i]
    BY <1>1, <1>2 DEF InstallNewSnapshot, AcceptSnapshotTerm, AdoptTerm, TypeOK
  <2> QED BY <2>1, <2>2
<1>4. /\ commitIndex'[i] = IF commitIndex[i] <= k THEN k ELSE commitIndex[i]
      /\ lastApplied'[i] = IF lastApplied[i] <= k THEN k ELSE lastApplied[i]
  <2>1. \A a, b \in Int : Max({a, b}) = IF a <= b THEN b ELSE a
    BY PairValues
  <2>2. k \in Int
    BY <1>2
  <2>3. Max({commitIndex[i], k}) = IF commitIndex[i] <= k THEN k ELSE commitIndex[i]
    BY <1>2, <2>1, <2>2
  <2>4. Max({lastApplied[i], k}) = IF lastApplied[i] <= k THEN k ELSE lastApplied[i]
    BY <1>2, <2>1, <2>2
  <2> QED BY <1>3, <2>3, <2>4
<1>5. /\ m.term \in DOMAIN ledger /\ ledger' = ledger
      /\ Agree(ledger, lastLogTerm(log'[i]), m.term, k)
  BY InstallTakes DEF Advances
<1>6. k <= lastLogIndex(log'[i])
  BY <1>1, <1>2, LogBasics
<1>7. Carried(m.term, k)
  BY DEF Carries, InstallSnapshot
<1>8. Covered(i, k)'
  BY <1>1, <1>2, <1>3, <1>5, <1>6, <1>7, TakesCovered
<1>9. PICK c \in Int : c = commitIndex[i]
  BY <1>2
<1>10. Covered(i, c)'
  BY <1>1, <1>9, CommitStays
<1>11. Covered(i, commitIndex[i])'
  BY <1>4, <1>8, <1>9, <1>10 DEF Covered
<1> QED BY <1>2, <1>4, <1>11

\* The service takes a snapshot of what has been applied.
LEMMA SnapshotApplied ==
  ASSUME TypeOK, Matching, NEW s \in Server, Snapshot(s), Applying(s), Served(s),
         NEW real, real = publicToRealIndex(log[s], service[s].index)
  PROVE  /\ real \in Held(log[s]) /\ real \in Nat /\ real <= lastApplied[s]
         /\ service[s].index = Counted(ledger, lastLogTerm(log[s]), real)
<1> DEFINE t == lastLogTerm(log[s])
<1>1. log[s] \in Log /\ lastApplied[s] \in Int /\ service[s].index \in Int
  BY DEF TypeOK, Snap
<1>2. real \in Held(log[s]) /\ At(log[s], real).cmd # NoOp
      /\ realToPublicIndex(log[s], real) = service[s].index
  BY <1>1, CutIsCommand DEF Snapshot
<1>3. real \in Nat /\ real > 0
  BY <1>1, <1>2, LogBasics DEF Held
<1>4. Along(ledger, log[s], t)
  BY DEF Matching, Fits
<1>5. service[s].index = Counted(ledger, t, real)
  BY <1>1, <1>2, <1>4, PublicIsCounted DEF Served
<1>6. ledger[t][real].cmd # NoOp
  BY <1>2, <1>4 DEF Along
<1>7. service[s].index <= Counted(ledger, t, lastApplied[s])
  BY DEF Served, Applied
<1>8. ASSUME lastApplied[s] < real PROVE FALSE
  <2>1. /\ Counted(ledger, t, lastApplied[s]) < Counted(ledger, t, real)
        /\ Counted(ledger, t, lastApplied[s]) \in Nat
    BY <1>1, <1>3, <1>6, <1>8, CountedBasics
  <2> QED BY <1>1, <1>5, <1>7, <2>1
<1> QED BY <1>1, <1>2, <1>3, <1>5, <1>8

\* What is committed stays covered, and only that is applied.
LEMMA ApplyingStep ==
  ASSUME TypeOK, TypeOK', PersistedIsCurrent, Matching, Matching', VotesAccounted(Nat),
         VotesAccounted(Nat)', Advances, Acknowledged, Committing, NeverTorn,
         "apply" \notin Preemptible, [Next]_vars, NEW x \in Server
  PROVE  Applying(x)'
<1>1. Applying(x) /\ Served(x) /\ \A m \in msgs : Carries(m)
  BY DEF Committing
<1>2. /\ commitIndex[x] \in Int /\ lastApplied[x] \in Int /\ log[x] \in Log /\ log'[x] \in Log
      /\ log[x].lastIncludedIndex \in Nat
  <2>1. log[x] \in Log /\ log'[x] \in Log
    BY DEF TypeOK
  <2> QED BY <2>1, LogBasics DEF TypeOK
<1>3. /\ Covered(x, commitIndex[x]) /\ lastApplied[x] <= commitIndex[x]
      /\ applying[x] => lastApplied[x] < commitIndex[x]
      /\ log[x].lastIncludedIndex > 0 => log[x].lastIncludedIndex <= lastApplied[x]
      /\ At(log[x], log[x].lastIncludedIndex).cmd = NoOp
  BY <1>1 DEF Applying
<1>4. ASSUME NEW c \in Int, c <= commitIndex[x], commitIndex'[x] = c
      PROVE  Covered(x, commitIndex[x])'
  <2>1. Covered(x, c)'
    BY <1>3, <1>4, CommitStays
  <2> QED BY <1>4, <2>1 DEF Covered
<1>5. ASSUME StartsAsBefore(x), Covered(x, commitIndex[x])', lastApplied'[x] <= commitIndex'[x],
             applying'[x] => lastApplied'[x] < commitIndex'[x],
             log[x].lastIncludedIndex > 0 => log[x].lastIncludedIndex <= lastApplied'[x]
      PROVE  Applying(x)'
  BY <1>3, <1>5 DEF Applying, StartsAsBefore, SameStart
<1>6. CASE Snapshot(x)
  <2>1. PICK real : real = publicToRealIndex(log[x], service[x].index)
    OBVIOUS
  <2>2. real <= lastApplied[x]
    BY <1>1, <1>6, <2>1, SnapshotApplied
  <2>3. log'[x].lastIncludedIndex = real /\ At(log'[x], real).cmd = NoOp
    BY <1>6, <2>1, SnapshotStart
  <2>4. commitIndex' = commitIndex /\ lastApplied' = lastApplied /\ applying' = applying
    BY <1>6 DEF Snapshot, ServiceUnchanged
  <2>5. Covered(x, commitIndex[x])'
    BY <1>2, <1>4, <2>4
  <2> QED BY <1>3, <2>2, <2>3, <2>4, <2>5 DEF Applying
<1>7. CASE Installs(x)
  <2>1. PICK m \in msgs : m.to = x /\ InstallSnapshot(m) /\ InstallNewSnapshot(m)
    BY <1>7 DEF Installs
  <2>2. /\ Covered(x, commitIndex[x])' /\ lastApplied'[x] <= commitIndex'[x]
        /\ m.lastIncludedIndex <= lastApplied'[x]
    BY <1>1, <1>3, <2>1, InstallCommits
  <2>3. log'[x].lastIncludedIndex = m.lastIncludedIndex
        /\ At(log'[x], m.lastIncludedIndex).cmd = NoOp
    BY <2>1, InstallStart
  <2>4. ~applying'[x]
    BY <2>1 DEF InstallSnapshot, Free
  <2> QED BY <2>2, <2>3, <2>4 DEF Applying
<1>8. CASE StartsAsBefore(x) /\ Idles(x)
  BY <1>2, <1>3, <1>4, <1>5, <1>8 DEF Idles
<1>9. CASE StartsAsBefore(x) /\ Boots(x)
  <2>1. /\ commitIndex'[x] = log[x].lastIncludedIndex /\ lastApplied'[x] = log[x].lastIncludedIndex
        /\ ~applying'[x]
    BY <1>9 DEF Boots
  <2>2. Covered(x, commitIndex[x])'
    <3>1. CASE log[x].lastIncludedIndex > 0
      BY <1>2, <1>3, <1>4, <2>1, <3>1
    <3>2. CASE ~(log[x].lastIncludedIndex > 0)
      BY <2>1, <3>2 DEF Covered
    <3> QED BY <3>1, <3>2
  <2> QED BY <1>2, <1>5, <1>9, <2>1, <2>2
<1>10. CASE StartsAsBefore(x) /\ CheckCommit(x)
  <2>1. ~applying'[x] /\ lastApplied' = lastApplied
    BY <1>10 DEF CheckCommit, Free, applyVars
  <2>2. CASE commitIndex' = commitIndex
    BY <1>2, <1>3, <1>4, <1>5, <1>10, <2>1, <2>2
  <2>3. CASE ~(commitIndex' = commitIndex)
    <3>1. /\ state[x] = "Leader" /\ Committable(x) # {}
          /\ commitIndex'[x] = Max(Committable(x))
          /\ UNCHANGED <<currentTerm, state, log, ledger>>
      BY <1>10, <2>3 DEF CheckCommit, TypeOK, electionVars
    <3>2. Max(Committable(x)) \in Committable(x)
      <4>1. lastLogIndex(log[x]) \in Int
        BY <1>2, LogBasics
      <4>2. Committable(x) \subseteq (log[x].lastIncludedIndex + 1) .. lastLogIndex(log[x])
        BY DEF Committable
      <4>3. log[x].lastIncludedIndex + 1 \in Int
        BY <1>2
      <4> QED BY <3>1, <4>1, <4>2, <4>3, IntervalSubset
    <3>3. PICK n \in Committable(x) : n = commitIndex'[x]
      BY <3>1, <3>2
    <3>4. Covered(x, n)'
      BY <3>1, CommitRule
    <3>5. Covered(x, commitIndex[x])'
      BY <3>3, <3>4 DEF Covered
    <3>6. n \in Int /\ n > commitIndex[x]
      BY <1>2, LogBasics DEF Committable
    <3> QED BY <1>2, <1>3, <1>5, <1>10, <2>1, <3>3, <3>5, <3>6
  <2> QED BY <2>2, <2>3
<1>11. CASE StartsAsBefore(x) /\ ApplyCheck(x)
  <2>1. commitIndex' = commitIndex /\ lastApplied' = lastApplied /\ lastApplied[x] < commitIndex[x]
    BY <1>11 DEF ApplyCheck
  <2> QED BY <1>2, <1>3, <1>4, <1>5, <1>11, <2>1
<1>12. CASE StartsAsBefore(x) /\ ApplyNext(x)
  <2>1. commitIndex' = commitIndex /\ lastApplied'[x] = lastApplied[x] + 1 /\ ~applying'[x]
        /\ applying[x]
    BY <1>12 DEF ApplyNext, TypeOK
  <2> QED BY <1>2, <1>3, <1>4, <1>5, <1>12, <2>1
<1>13. CASE StartsAsBefore(x) /\ (ReceiveCommand(x) \/ ReceiveSnapshot(x))
  <2>1. commitIndex' = commitIndex /\ lastApplied' = lastApplied /\ applying' = applying
    BY <1>13 DEF ReceiveCommand, ReceiveSnapshot, ServiceUnchanged
  <2> QED BY <1>2, <1>3, <1>4, <1>5, <1>13, <2>1
<1>14. ASSUME StartsAsBefore(x), NEW m \in msgs, m.to = x, AppendEntries(m), AcceptEntries(m)
       PROVE  Applying(x)'
  <2>1. commitIndex[x] <= commitIndex'[x] /\ Covered(x, commitIndex[x])'
    BY <1>1, <1>3, <1>14, AcceptCommits
  <2>2. ~applying'[x] /\ lastApplied' = lastApplied
    BY <1>14 DEF AppendEntries, AcceptEntries, EntriesUnchanged, Free, applyVars
  <2>3. commitIndex'[x] \in Int
    BY DEF TypeOK
  <2> QED BY <1>2, <1>3, <1>5, <1>14, <2>1, <2>2, <2>3
<1> QED BY ApplyMoves, <1>6, <1>7, <1>8, <1>9, <1>10, <1>11, <1>12, <1>13, <1>14

\* The indices a service has seen are those of commands that were applied.
LEMMA ServedStep ==
  ASSUME TypeOK, TypeOK', PersistedIsCurrent, Matching, Matching', VotesAccounted(Nat), Advances,
         Committing, NeverTorn, [Next]_vars, NEW x \in Server
  PROVE  Served(x)'
<1> DEFINE t == lastLogTerm(log[x])
           u == lastLogTerm(log'[x])
           start == log[x].lastIncludedIndex
<1>1. Applying(x) /\ Served(x) /\ \A m \in msgs : Carries(m)
  BY DEF Committing
<1>2. /\ commitIndex[x] \in Int /\ lastApplied[x] \in Int /\ lastApplied'[x] \in Int
      /\ log[x] \in Log /\ log'[x] \in Log /\ start \in Nat
  <2>1. log[x] \in Log /\ log'[x] \in Log
    BY DEF TypeOK
  <2> QED BY <2>1, LogBasics DEF TypeOK
<1>3. /\ Covered(x, commitIndex[x]) /\ lastApplied[x] <= commitIndex[x]
      /\ start > 0 => start <= lastApplied[x]
      /\ At(log[x], start).cmd = NoOp
  BY <1>1 DEF Applying
<1>4. Counted(ledger', u, start) = Counted(ledger, t, start)
  <2>1. CASE start > 0
    BY <1>2, <1>3, <2>1, CommitStays
  <2>2. CASE ~(start > 0)
    BY <1>2, <2>2, CountedBasics
  <2> QED BY <2>1, <2>2
<1>5. Counted(ledger', u, lastApplied[x]) = Applied(x)
  BY <1>2, <1>3, CommitStays DEF Applied
<1>6. /\ service[x].index \in Nat
      /\ outbox[x] # Nil => outbox[x].index \in Nat
      /\ \A y \in installing[x] : y.data.index \in Nat
  <2>1. /\ service[x] \in Snap /\ outbox[x] \in [index : Nat, cmd : Command] \cup {Nil}
        /\ installing[x] \in SUBSET [index : Nat, data : Snap]
    BY DEF TypeOK
  <2> QED BY <2>1 DEF Snap
<1>7. /\ log[x].lastIncludedPublicIndex = Counted(ledger, t, start)
      /\ persisted[x].snapshot.index = log[x].lastIncludedPublicIndex
      /\ service[x].index <= Applied(x)
      /\ outbox[x] # Nil => outbox[x].index <= Applied(x)
      /\ \A y \in installing[x] : y.data.index <= Applied(x)
  BY <1>1 DEF Served
<1>8. Applied(x) \in Nat /\ Applied(x)' \in Nat /\ Applied(x)' = Counted(ledger', u, lastApplied'[x])
  BY <1>2, CountedBasics DEF Applied
<1>9. ASSUME lastApplied[x] <= lastApplied'[x] PROVE Applied(x) <= Applied(x)'
  BY <1>2, <1>5, <1>8, <1>9, CountedBasics
<1>10. ASSUME StartsAsBefore(x), persisted'[x].snapshot = persisted[x].snapshot
       PROVE  /\ log'[x].lastIncludedPublicIndex
                   = Counted(ledger', u, log'[x].lastIncludedIndex)
              /\ persisted'[x].snapshot.index = log'[x].lastIncludedPublicIndex
  BY <1>4, <1>7, <1>10 DEF StartsAsBefore, SameStart
<1>11. ASSUME StartsAsBefore(x), persisted'[x].snapshot = persisted[x].snapshot,
              lastApplied'[x] = lastApplied[x], outbox'[x] = outbox[x],
              installing'[x] = installing[x], service'[x] = service[x]
       PROVE  Served(x)'
  <2>1. Applied(x)' = Applied(x)
    BY <1>5, <1>8, <1>11
  <2> QED BY <1>7, <1>10, <1>11, <2>1 DEF Served
<1>12. CASE Snapshot(x)
  <2>1. PICK real : real = publicToRealIndex(log[x], service[x].index)
    OBVIOUS
  <2>2. /\ real \in Nat /\ real <= lastApplied[x]
        /\ service[x].index = Counted(ledger, t, real)
    BY <1>1, <1>12, <2>1, SnapshotApplied
  <2>3. /\ log'[x].lastIncludedIndex = real
        /\ log'[x].lastIncludedPublicIndex = service[x].index
    BY <1>12, <2>1, SnapshotStart
  <2>4. Counted(ledger', u, real) = Counted(ledger, t, real)
    BY <1>2, <1>3, <2>2, CommitStays
  <2>5. /\ UNCHANGED <<lastApplied, outbox, installing, service>>
        /\ persisted'[x].snapshot = service[x]
    BY <1>12 DEF Snapshot, ServiceUnchanged, persistWithSnapshot, TypeOK
  <2>6. Applied(x)' = Applied(x)
    BY <1>5, <1>8, <2>5
  <2> QED BY <1>7, <2>2, <2>3, <2>4, <2>5, <2>6 DEF Served
<1>13. CASE Installs(x)
  <2>1. PICK m \in msgs : m.to = x /\ InstallSnapshot(m) /\ InstallNewSnapshot(m)
    BY <1>13 DEF Installs
  <2>2. PICK k \in Nat : k = m.lastIncludedIndex
    BY <2>1, InstallStart DEF SnapshotRequest
  <2>3. k <= lastApplied'[x] /\ lastApplied[x] <= lastApplied'[x]
    BY <1>1, <1>3, <2>1, <2>2, InstallCommits
  <2>4. /\ log'[x].lastIncludedIndex = k
        /\ log'[x].lastIncludedPublicIndex = m.lastIncludedPublicIndex
    BY <2>1, <2>2, InstallStart
  <2>5. /\ m.lastIncludedPublicIndex = Counted(ledger, m.term, k)
        /\ m.data.index = m.lastIncludedPublicIndex
    BY <1>1, <2>1, <2>2 DEF Carries, InstallSnapshot
  <2>6. ledger' = ledger /\ Agree(ledger, u, m.term, k)
    BY <2>1, <2>2, InstallTakes DEF Advances
  <2>7. m.lastIncludedPublicIndex = Counted(ledger', u, k)
    BY <2>5, <2>6, CountedSame
  <2>8. /\ outbox'[x] = outbox[x] /\ service'[x] = service[x]
        /\ \A y \in installing'[x] : y \in installing[x] \/ y.data = m.data
        /\ persisted'[x].snapshot = m.data
    BY <2>1 DEF InstallSnapshot, InstallNewSnapshot, persistWithSnapshot, TypeOK
  <2>9. Applied(x) <= Applied(x)' /\ m.data.index <= Applied(x)'
    BY <1>2, <1>8, <1>9, <2>2, <2>3, <2>5, <2>7, CountedBasics
  <2>10. /\ service'[x].index <= Applied(x)'
         /\ outbox'[x] # Nil => outbox'[x].index <= Applied(x)'
    BY <1>6, <1>7, <1>8, <2>8, <2>9
  <2>11. \A y \in installing'[x] : y.data.index <= Applied(x)'
    BY <1>6, <1>7, <1>8, <2>8, <2>9
  <2> QED BY <2>4, <2>5, <2>7, <2>8, <2>10, <2>11 DEF Served
<1>14. CASE StartsAsBefore(x) /\ Idles(x)
  BY <1>11, <1>14 DEF Idles
<1>15. CASE StartsAsBefore(x) /\ Boots(x)
  <2>1. Applied(x)' = Counted(ledger, t, start)
    BY <1>4, <1>8, <1>15 DEF Boots
  <2> QED BY <1>7, <1>8, <1>10, <1>15, <2>1 DEF Served, Boots
<1>16. CASE StartsAsBefore(x) /\ (CheckCommit(x) \/ ApplyCheck(x))
  BY <1>11, <1>16 DEF CheckCommit, ApplyCheck, applyVars
<1>17. CASE StartsAsBefore(x) /\ ApplyNext(x)
  <2>1. PICK next \in Int : next = lastApplied[x] + 1
    BY <1>2
  <2>2. /\ next \in Indices(log[x]) /\ lastApplied'[x] = next
        /\ outbox'[x] = IF At(log[x], next).cmd = NoOp THEN Nil
                        ELSE [index |-> realToPublicIndex(log[x], next),
                              cmd |-> At(log[x], next).cmd]
        /\ installing' = installing /\ service' = service /\ log' = log /\ ledger' = ledger
    BY <1>17, <2>1 DEF ApplyNext, TypeOK, electionVars
  <2>3. persisted'[x].snapshot = persisted[x].snapshot
    BY <1>17, SnapshotsSaved DEF ApplyNext
  <2>4. Applied(x) <= Applied(x)' /\ Applied(x)' = Counted(ledger, t, next)
    BY <1>2, <1>8, <1>9, <2>1, <2>2
  <2>5. outbox'[x] # Nil => outbox'[x].index <= Applied(x)'
    <3>1. CASE next = start
      BY <1>2, <1>3, <2>1, <2>2, <3>1
    <3>2. CASE next # start
      <4>1. next \in Held(log[x])
        BY <1>2, <2>2, <3>2, LogBasics DEF Held, Indices
      <4>2. Along(ledger, log[x], t)
        BY DEF Matching, Fits
      <4>3. realToPublicIndex(log[x], next) = Counted(ledger, t, next)
        BY <1>2, <1>7, <4>1, <4>2, PublicIsCounted
      <4> QED BY <1>8, <2>2, <2>4, <4>3
    <3> QED BY <3>1, <3>2
  <2>6. service'[x].index <= Applied(x)' /\ \A y \in installing'[x] : y.data.index <= Applied(x)'
    BY <1>6, <1>7, <1>8, <2>2, <2>4
  <2> QED BY <1>10, <1>17, <2>3, <2>5, <2>6 DEF Served
<1>18. CASE StartsAsBefore(x) /\ (ReceiveCommand(x) \/ ReceiveSnapshot(x))
  <2>1. /\ lastApplied' = lastApplied /\ persisted' = persisted
        /\ outbox'[x] = Nil \/ outbox'[x] = outbox[x]
        /\ installing'[x] \subseteq installing[x]
        /\ \/ outbox[x] # Nil /\ service'[x].index = outbox[x].index
           \/ \E y \in installing[x] : service'[x] = y.data
    BY <1>18 DEF ReceiveCommand, ReceiveSnapshot, ServiceUnchanged, TypeOK
  <2>2. Applied(x)' = Applied(x)
    BY <1>5, <1>8, <2>1
  <2>3. service'[x].index <= Applied(x)'
    BY <1>7, <2>1, <2>2
  <2> QED BY <1>7, <1>10, <1>18, <2>1, <2>2, <2>3 DEF Served
<1>19. ASSUME StartsAsBefore(x), NEW m \in msgs, m.to = x, AppendEntries(m), AcceptEntries(m)
       PROVE  Served(x)'
  <2>1. UNCHANGED <<lastApplied, outbox, installing, service>>
    BY <1>19 DEF AcceptEntries, EntriesUnchanged, applyVars
  <2>2. persisted'[x].snapshot = persisted[x].snapshot
    BY <1>19, SnapshotsSaved DEF AcceptEntries
  <2> QED BY <1>11, <1>19, <2>1, <2>2
<1> QED BY ApplyMoves, <1>12, <1>13, <1>14, <1>15, <1>16, <1>17, <1>18, <1>19

\* A snapshot stands for entries that are covered.
LEMMA StartCovered ==
  ASSUME TypeOK, Matching, NEW s \in Server, Applying(s)
  PROVE  Covered(s, log[s].lastIncludedIndex)
<1>1. /\ commitIndex[s] \in Int /\ lastApplied[s] \in Int
      /\ log[s].lastIncludedIndex \in Nat
  <2>1. log[s] \in Log
    BY DEF TypeOK
  <2> QED BY <2>1, LogBasics DEF TypeOK
<1>2. CASE log[s].lastIncludedIndex > 0
  <2>1. log[s].lastIncludedIndex <= commitIndex[s]
    BY <1>1, <1>2 DEF Applying
  <2> QED BY <1>1, <2>1, CoveredLess DEF Applying
<1>3. CASE ~(log[s].lastIncludedIndex > 0)
  BY <1>3 DEF Covered
<1> QED BY <1>2, <1>3

\* What a leader sends is covered by what it has committed.
LEMMA LeaderCarries ==
  ASSUME TypeOK, Matching, NEW s \in Server, Applying(s)
  PROVE  /\ commitIndex[s] <= lastLogIndex(log[s])
         /\ Carried(currentTerm[s], commitIndex[s])
         /\ Carried(currentTerm[s], log[s].lastIncludedIndex)
<1>1. commitIndex[s] \in Int /\ lastLogIndex(log[s]) \in Nat
  <2>1. log[s] \in Log
    BY DEF TypeOK
  <2> QED BY <2>1, LogBasics DEF TypeOK
<1>2. Covered(s, commitIndex[s]) /\ Covered(s, log[s].lastIncludedIndex)
  BY StartCovered DEF Applying
<1>3. commitIndex[s] <= lastLogIndex(log[s])
  BY <1>1, <1>2 DEF Covered, Has
<1> QED BY <1>2, <1>3 DEF Covered, Carried

\* A request carries a commit index that is covered where it was sent, and reaches
\* past it; a snapshot stands for committed entries and counts their commands.
LEMMA CarriesStep ==
  ASSUME TypeOK, TypeOK', Matching, Matching', Advances, Committing, [Next]_vars,
         NEW m \in msgs'
  PROVE  Carries(m)'
<1>1. Ledger(ledger) /\ GrowsTo(ledger, ledger')
  BY DEF Advances, LedgerGrows
<1>2. ASSUME NEW t \in DOMAIN ledger, NEW k \in Int, Carried(t, k), k <= Len(ledger[t])
      PROVE  Carried(t, k)' /\ Counted(ledger', t, k) = Counted(ledger, t, k)
  <2>1. t \in Nat
    BY <1>1, LedgerBasics
  <2> QED BY <1>1, <1>2, <2>1, CarriedStays, CountedStays
<1>3. CASE m \in msgs
  <2>1. Carries(m) /\ RequestFits(m)
    BY <1>3 DEF Committing, Matching
  <2>2. CASE m.type = "AppendEntries"
    <3>1. /\ m.term \in DOMAIN ledger /\ Acked(m) \in Nat /\ Acked(m) <= Len(ledger[m.term])
          /\ m \in EntriesRequest
      BY <1>3, <2>2, EntriesBasics
    <3>2. m.leaderCommit \in Int
      BY <3>1 DEF EntriesRequest
    <3>3. m.leaderCommit <= Acked(m) /\ Carried(m.term, m.leaderCommit)
      BY <2>1, <2>2 DEF Carries
    <3>4. Len(ledger[m.term]) \in Nat
      BY <1>1, <3>1, LedgerBasics
    <3>5. Carried(m.term, m.leaderCommit)'
      BY <1>2, <3>1, <3>2, <3>3, <3>4
    <3> QED BY <2>2, <3>3, <3>5 DEF Carries
  <2>3. CASE m.type = "InstallSnapshot"
    <3>1. m \in SnapshotRequest
      BY <1>3, <2>3, RequestTypes DEF TypeOK
    <3>2. m.lastIncludedIndex \in Int
      BY <3>1 DEF SnapshotRequest
    <3>3. m.term \in DOMAIN ledger /\ m.lastIncludedIndex <= Len(ledger[m.term])
      BY <2>1, <2>3 DEF RequestFits, SnapshotFits
    <3>4. /\ Carried(m.term, m.lastIncludedIndex)
          /\ m.lastIncludedPublicIndex = Counted(ledger, m.term, m.lastIncludedIndex)
          /\ m.data.index = m.lastIncludedPublicIndex
      BY <2>1, <2>3 DEF Carries
    <3>5. /\ Carried(m.term, m.lastIncludedIndex)'
          /\ Counted(ledger', m.term, m.lastIncludedIndex)
               = Counted(ledger, m.term, m.lastIncludedIndex)
      BY <1>2, <3>2, <3>3, <3>4
    <3> QED BY <2>3, <3>4, <3>5 DEF Carries
  <2> QED BY <2>2, <2>3 DEF Carries
<1>4. CASE m \notin msgs
  <2>1. PICK s \in Server : \E i \in Others(s) :
          SendRequest(s, i) \/ SendSnapshot(s, i) \/ SendEntries(s, i)
    BY <1>4, MessageChanges
  <2>2. PICK i \in Others(s) : SendRequest(s, i) \/ SendSnapshot(s, i) \/ SendEntries(s, i)
    BY <2>1
  <2>3. Applying(s) /\ Served(s)
    BY DEF Committing
  <2>4. CASE SendRequest(s, i)
    BY <1>4, <2>4 DEF SendRequest, Carries
  <2>5. ASSUME state[s] = "Leader", NEW T, T = currentTerm[s], NEW k, k = commitIndex[s],
               NEW j, j = log[s].lastIncludedIndex
        PROVE  /\ lastLogTerm(log[s]) = T /\ k <= lastLogIndex(log[s])
               /\ Carried(T, k)' /\ Carried(T, j)'
               /\ Counted(ledger', T, j) = Counted(ledger, T, j)
    <3>1. /\ T \in DOMAIN ledger /\ lastLogTerm(log[s]) = T
          /\ lastLogIndex(log[s]) = Len(ledger[T]) /\ Len(ledger[T]) \in Nat /\ log[s] \in Log
      BY <2>5, LeaderHas
    <3>2. k \in Int /\ j \in Nat
      BY <2>5, <3>1, LogBasics DEF TypeOK
    <3>3. k <= Len(ledger[T]) /\ Carried(T, k) /\ Carried(T, j) /\ j <= Len(ledger[T])
      BY <2>3, <2>5, <3>1, <3>2, LeaderCarries, LogBasics
    <3>4. Carried(T, k)' /\ Carried(T, j)' /\ Counted(ledger', T, j) = Counted(ledger, T, j)
      BY <1>2, <3>1, <3>2, <3>3
    <3> QED BY <3>1, <3>3, <3>4
  <2>6. CASE SendSnapshot(s, i)
    <3>1. PICK T : T = currentTerm[s]
      OBVIOUS
    <3>2. /\ m.type = "InstallSnapshot" /\ m.term = T
          /\ m.lastIncludedIndex = log[s].lastIncludedIndex
          /\ m.lastIncludedPublicIndex = log[s].lastIncludedPublicIndex
          /\ m.data = persisted[s].snapshot /\ state[s] = "Leader"
      BY <1>4, <2>6, <3>1 DEF SendSnapshot, Sending
    <3>3. /\ log[s].lastIncludedPublicIndex
               = Counted(ledger, lastLogTerm(log[s]), log[s].lastIncludedIndex)
          /\ persisted[s].snapshot.index = log[s].lastIncludedPublicIndex
      BY <2>3 DEF Served
    <3>4. PICK j : j = log[s].lastIncludedIndex
      OBVIOUS
    <3>5. /\ Carried(T, j)' /\ m.lastIncludedPublicIndex = Counted(ledger', T, j)
          /\ m.data.index = m.lastIncludedPublicIndex /\ m.lastIncludedIndex = j
      BY <2>5, <3>1, <3>2, <3>3, <3>4
    <3> QED BY <3>2, <3>5 DEF Carries
  <2>7. CASE SendEntries(s, i)
    <3>1. PICK T : T = currentTerm[s]
      OBVIOUS
    <3>2. PICK prev \in Int : prev = nextIndex[s][i] - 1
      <4>1. nextIndex[s][i] \in Int
        BY DEF TypeOK, Others
      <4> QED BY <4>1
    <3>3. /\ m.type = "AppendEntries" /\ m.term = T /\ m.leaderCommit = commitIndex[s]
          /\ m.prevLogIndex = prev /\ m.entries = EntriesFrom(log[s], prev + 1)
          /\ prev \in Indices(log[s]) /\ state[s] = "Leader"
      BY <1>4, <2>7, <3>1, <3>2 DEF SendEntries, Sending
    <3>4. log[s] \in Log /\ log[s].lastIncludedIndex \in Int /\ lastLogIndex(log[s]) \in Int
      <4>1. log[s] \in Log
        BY DEF TypeOK
      <4> QED BY <4>1, LogBasics
    <3>5. EntriesFrom(log[s], prev + 1) = After(log[s], prev)
      <4>1. (prev + 1) - log[s].lastIncludedIndex + 1 = prev - log[s].lastIncludedIndex + 2
        BY <3>4
      <4> QED BY <4>1 DEF EntriesFrom, After
    <3>6. Len(m.entries) = lastLogIndex(log[s]) - prev
      BY <3>3, <3>4, <3>5, AfterGives
    <3>7. Acked(m) = lastLogIndex(log[s])
      BY <3>3, <3>4, <3>6 DEF Acked
    <3>8. PICK k : k = commitIndex[s]
      OBVIOUS
    <3>9. Carried(T, k)' /\ m.leaderCommit = k /\ k <= Acked(m)
      BY <2>5, <3>1, <3>3, <3>7, <3>8
    <3> QED BY <3>3, <3>9 DEF Carries
  <2> QED BY <2>2, <2>4, <2>6, <2>7
<1> QED BY <1>3, <1>4

\* Committing is kept by every step.
LEMMA CommittingStep ==
  ASSUME TypeOK, TypeOK', PersistedIsCurrent, Matching, Matching', VotesAccounted(Nat),
         VotesAccounted(Nat)', Advances, Acknowledged, Committing, NeverTorn,
         "apply" \notin Preemptible, [Next]_vars
  PROVE  Committing'
<1>1. \A s \in Server : Applying(s)' /\ Served(s)'
  BY ApplyingStep, ServedStep
<1>2. \A m \in msgs' : Carries(m)'
  BY CarriesStep
<1> QED BY <1>1, <1>2 DEF Committing

(***************************************************************************)
(* The theorem.                                                            *)
(***************************************************************************)
\* Nothing is chosen, committed or acknowledged at first.
LEMMA CommitInit == Init => Voting /\ Acknowledged /\ Committing
<1> SUFFICES ASSUME Init PROVE Voting /\ Acknowledged /\ Committing
  OBVIOUS
<1>1. /\ msgs = {} /\ 0 \in DOMAIN ledger
      /\ \A s \in Server :
           /\ votedFor[s] = Nil /\ state[s] = "Follower" /\ log[s] = EmptyLog
           /\ commitIndex[s] = -1 /\ lastApplied[s] = -1 /\ ~applying[s] /\ outbox[s] = Nil
           /\ installing[s] = {} /\ service[s].index = 0 /\ persisted[s].snapshot.index = 0
           /\ \A i \in Server : matchIndex[s][i] = 0 /\ entryRpc[s][i].st = "idle"
  BY DEF Init, NoSnapshot, IdleSlot
<1>2. /\ EmptyLog.lastIncludedIndex = 0 /\ EmptyLog.lastIncludedPublicIndex = 0
      /\ At(EmptyLog, 0).cmd = NoOp
  BY DEF EmptyLog, At, Sentinel
<1>3. Voting
  BY <1>1, ServerAssumption DEF Voting
<1>4. Acknowledged
  <2>1. \A s \in Server : \A i \in Others(s) : SlotAcks(s, i) /\ CountsOn(s, 0, i)
    BY <1>1, <1>2 DEF SlotAcks, CountsOn, Others
  <2> QED BY <1>1, <2>1 DEF Acknowledged
<1>5. Committing
  <2> SUFFICES ASSUME NEW s \in Server PROVE Applying(s) /\ Served(s)
    BY <1>1 DEF Committing
  <2>1. Covered(s, commitIndex[s])
    BY <1>1 DEF Covered
  <2>2. Applying(s)
    BY <1>1, <1>2, <2>1 DEF Applying
  <2>3. /\ Counted(ledger, lastLogTerm(log[s]), 0) = 0
        /\ Counted(ledger, lastLogTerm(log[s]), -1) = 0
    BY CountedBasics
  <2>4. Applied(s) = 0
    BY <1>1, <2>3 DEF Applied
  <2> QED BY <1>1, <1>2, <2>2, <2>3, <2>4 DEF Served
<1> QED BY <1>3, <1>4, <1>5

\* Logs in which an entry is covered agree on it and on all before.
LEMMA CoveredAgree ==
  ASSUME TypeOK, Matching, VotesAccounted(Nat), NEW s \in Server, NEW t \in Server,
         NEW k \in Nat, k > 0, Covered(s, k), Covered(t, k)
  PROVE  Agree(ledger, lastLogTerm(log[s]), lastLogTerm(log[t]), k)
<1>1. PICK T \in DOMAIN ledger : \E n \in 1 .. Len(ledger[T]) :
             Chosen(T, n) /\ T <= currentTerm[s] /\ k <= n /\ Has(ledger, log[s], T, k)
  BY DEF Covered
<1>2. PICK n \in 1 .. Len(ledger[T]) : Chosen(T, n) /\ k <= n /\ Has(ledger, log[s], T, k)
  BY <1>1
<1>3. PICK U \in DOMAIN ledger : \E m \in 1 .. Len(ledger[U]) :
             Chosen(U, m) /\ U <= currentTerm[t] /\ k <= m /\ Has(ledger, log[t], U, k)
  BY DEF Covered
<1>4. PICK m \in 1 .. Len(ledger[U]) : Chosen(U, m) /\ k <= m /\ Has(ledger, log[t], U, k)
  BY <1>3
<1>5. /\ Ledger(ledger) /\ lastLogTerm(log[s]) \in DOMAIN ledger
      /\ lastLogTerm(log[t]) \in DOMAIN ledger
  BY EndOfLog
<1>6. T \in Nat /\ U \in Nat /\ n \in Nat /\ m \in Nat /\ k \in 0 .. n /\ k \in 0 .. m
  BY <1>2, <1>4, <1>5, ChosenInLedger
<1>7. Agree(ledger, T, U, k)
  <2>1. CASE T <= U
    <3>1. Agree(ledger, U, T, n)
      BY <1>2, <2>1, ChosenHolds
    <3>2. Agree(ledger, U, T, k)
      BY <1>5, <1>6, <3>1, Agreements
    <3> QED BY <1>5, <1>6, <3>2, Agreements
  <2>2. CASE U <= T
    <3>1. Agree(ledger, T, U, m)
      BY <1>4, <2>2, ChosenHolds
    <3> QED BY <1>5, <1>6, <3>1, Agreements
  <2> QED BY <1>6, <2>1, <2>2
<1>8. Agree(ledger, lastLogTerm(log[s]), T, k) /\ Agree(ledger, lastLogTerm(log[t]), U, k)
  BY <1>2, <1>4 DEF Has
<1>9. Agree(ledger, lastLogTerm(log[s]), U, k)
  BY <1>5, <1>7, <1>8, Agreements
<1>10. Agree(ledger, U, lastLogTerm(log[t]), k)
  BY <1>5, <1>8, Agreements
<1> QED BY <1>5, <1>9, <1>10, Agreements

\* Logs that agree on an entry and hold it have the same there.
LEMMA AgreedEntries ==
  ASSUME TypeOK, Matching, NEW s \in Server, NEW t \in Server,
         NEW k \in Held(log[s]) \cap Held(log[t]),
         Agree(ledger, lastLogTerm(log[s]), lastLogTerm(log[t]), k)
  PROVE  At(log[s], k) = At(log[t], k)
<1>1. log[s] \in Log /\ Along(ledger, log[s], lastLogTerm(log[s]))
      /\ Along(ledger, log[t], lastLogTerm(log[t]))
  BY DEF TypeOK, Matching, Fits
<1>2. k \in 1 .. k
  BY <1>1, LogBasics DEF Held
<1> QED BY <1>1, <1>2 DEF Along, Agree

\* No two servers commit different entries.
LEMMA CommittedAgrees ==
  ASSUME TypeOK, Matching, VotesAccounted(Nat), Committing
  PROVE  CommittedAgree /\ CommitInLog /\ CommitCovered
<1>1. \A s \in Server : Covered(s, commitIndex[s]) /\ Applying(s)
  BY DEF Committing, Applying
<1>2. CommittedAgree
  <2> SUFFICES ASSUME NEW s \in Server, NEW t \in Server, NEW k \in Committed(s) \cap Committed(t)
               PROVE  At(log[s], k) = At(log[t], k)
    BY DEF CommittedAgree
  <2>1. /\ k \in Held(log[s]) \cap Held(log[t]) /\ k <= commitIndex[s] /\ k <= commitIndex[t]
        /\ log[s] \in Log /\ commitIndex[s] \in Int /\ commitIndex[t] \in Int
    BY DEF Committed, TypeOK
  <2>2. k \in Nat /\ k > 0
    BY <2>1, LogBasics DEF Held
  <2>3. Covered(s, k) /\ Covered(t, k)
    BY <1>1, <2>1, <2>2, CoveredLess
  <2> QED BY <2>1, <2>2, <2>3, CoveredAgree, AgreedEntries
<1>3. CommitInLog
  BY <1>1, LeaderCarries DEF CommitInLog
<1>4. CommitCovered
  BY DEF CommitCovered, Committing, Carries, Acked
<1> QED BY <1>2, <1>3, <1>4

\* A leader has what was committed before.
LEMMA LeadersComplete ==
  ASSUME TypeOK, Matching, VotesAccounted(Nat), Committing
  PROVE  LeaderCompleteness
<1> SUFFICES ASSUME NEW s \in Server, NEW t \in Server, state[s] = "Leader",
                    currentTerm[t] <= currentTerm[s]
             PROVE  /\ commitIndex[t] <= lastLogIndex(log[s])
                    /\ \A k \in Committed(t) \cap Held(log[s]) : At(log[s], k) = At(log[t], k)
  BY DEF LeaderCompleteness
<1>1. PICK C \in Nat : C = currentTerm[s]
  BY DEF TypeOK
<1>2. /\ C \in DOMAIN ledger /\ log[s] \in Log /\ Ledger(ledger) /\ lastLogTerm(log[s]) = C
      /\ lastLogIndex(log[s]) = Len(ledger[C]) /\ Len(ledger[C]) \in Nat
  BY <1>1, LeaderHas
<1>3. commitIndex[t] \in Int /\ currentTerm[t] \in Nat /\ Covered(t, commitIndex[t])
  BY DEF TypeOK, Committing, Applying
<1>4. ASSUME NEW k \in Nat, k > 0, k <= commitIndex[t]
      PROVE  k <= Len(ledger[C]) /\ Agree(ledger, lastLogTerm(log[t]), C, k)
  <2>1. Covered(t, k)
    BY <1>3, <1>4, CoveredLess
  <2>2. PICK T \in DOMAIN ledger : \E n \in 1 .. Len(ledger[T]) :
             Chosen(T, n) /\ T <= currentTerm[t] /\ k <= n /\ Has(ledger, log[t], T, k)
    BY <1>4, <2>1 DEF Covered
  <2>3. PICK n \in 1 .. Len(ledger[T]) : Chosen(T, n) /\ T <= currentTerm[t] /\ k <= n
                                         /\ Has(ledger, log[t], T, k)
    BY <2>2
  <2>4. T \in Nat /\ n \in Nat /\ k \in 0 .. n /\ T <= C
    BY <1>1, <1>2, <1>3, <2>3, ChosenInLedger
  <2>5. Agree(ledger, C, T, n)
    BY <1>2, <2>3, <2>4, ChosenHolds
  <2>6. Agree(ledger, C, T, k)
    BY <1>2, <2>4, <2>5, Agreements
  <2>7. Agree(ledger, T, C, k)
    BY <1>2, <2>6, Agreements
  <2>8. Agree(ledger, lastLogTerm(log[t]), C, k)
    BY <1>2, <2>3, <2>7, EndOfLog, Agreements DEF Has
  <2> QED BY <2>6, <2>8 DEF Agree
<1>5. commitIndex[t] <= lastLogIndex(log[s])
  BY <1>2, <1>3, <1>4
<1>6. ASSUME NEW k \in Committed(t) \cap Held(log[s]) PROVE At(log[s], k) = At(log[t], k)
  <2>1. k \in Held(log[t]) \cap Held(log[s]) /\ k <= commitIndex[t]
    BY <1>6 DEF Committed
  <2>2. k \in Nat /\ k > 0
    BY <1>2, <2>1, LogBasics DEF Held
  <2>3. Agree(ledger, lastLogTerm(log[t]), lastLogTerm(log[s]), k)
    BY <1>2, <1>4, <2>1, <2>2
  <2> QED BY <2>1, <2>3, AgreedEntries
<1> QED BY <1>5, <1>6

\* What a leader counts on is on the follower's disk.
LEMMA MatchesHonest ==
  ASSUME TypeOK, PersistedIsCurrent, Matching, Acknowledged
  PROVE  MatchIndexHonest
<1> SUFFICES ASSUME NEW s \in Server, NEW i \in Others(s), state[s] = "Leader", turnToLeader[s],
                    currentTerm[i] = currentTerm[s],
                    matchIndex[s][i] > log[s].lastIncludedIndex
             PROVE  /\ matchIndex[s][i] <= lastLogIndex(persisted[i].log)
                    /\ \A k \in Held(log[s]) \cap Held(persisted[i].log) :
                         k <= matchIndex[s][i] => At(log[s], k) = At(persisted[i].log, k)
  BY DEF MatchIndexHonest
<1>1. i \in Server /\ persisted[i].log = log[i]
  BY DEF PersistedIsCurrent, Others
<1>2. PICK T \in Nat : T = currentTerm[s]
  BY DEF TypeOK
<1>3. PICK n \in Int : n = matchIndex[s][i]
  BY <1>1 DEF TypeOK
<1>4. /\ T \in DOMAIN ledger /\ log[s] \in Log /\ Ledger(ledger) /\ lastLogTerm(log[s]) = T
  BY <1>2, LeaderHas
<1>5. Own(ledger, T, n) /\ BacksUpTo(i, T, n)
  <2>1. CountsOn(s, T, i)
    BY <1>2 DEF Acknowledged
  <2> QED BY <1>3, <1>4, <2>1, LogBasics DEF CountsOn
<1>6. n \in Nat /\ n # 0 /\ n \in 1 .. n
  BY <1>4, <1>5, OwnBasics
<1>7. Backs(i, T, n)
  BY <1>5, <1>6 DEF BacksUpTo
<1>8. ~Lost(ledger, T, n, currentTerm[i] + 1)
  <2>1. \A t \in DOMAIN ledger : t \in Nat
    BY <1>4, LedgerBasics
  <2> QED BY <1>2, <2>1 DEF Lost
<1>9. n <= lastLogIndex(log[i]) /\ Agree(ledger, lastLogTerm(log[i]), T, n)
  BY <1>7, <1>8 DEF Backs, Has
<1>10. ASSUME NEW k \in Held(log[s]) \cap Held(log[i]), k <= n
       PROVE  At(log[s], k) = At(log[i], k)
  <2>1. k \in Nat /\ k \in 0 .. n
    BY <1>4, <1>6, <1>10, LogBasics DEF Held
  <2>2. lastLogTerm(log[i]) \in DOMAIN ledger
    BY <1>1, EndOfLog
  <2>3. Agree(ledger, lastLogTerm(log[i]), lastLogTerm(log[s]), k)
    BY <1>4, <1>6, <1>9, <2>1, <2>2, Agreements
  <2>4. At(log[i], k) = At(log[s], k)
    BY <1>1, <1>10, <2>3, AgreedEntries
  <2> QED BY <2>4
<1> QED BY <1>1, <1>3, <1>9, <1>10

\* A step while votes are accounted for and logs match: what is chosen stays chosen, and
\* what was asked and acknowledged is true after it.
LEMMA StepAcknowledges ==
  ASSUME TypeOK, TypeOK', PersistedIsCurrent, Matching, Matching', ElectionSafety',
         VotesAccounted(Nat), VotesAccounted(Nat)', Voting, Acknowledged, [Next]_vars,
         NeverTorn, "election" \notin Preemptible
  PROVE  Advances /\ Voting' /\ Acknowledged'
<1>1. Orderly
  BY DEF Orderly, VotesAccounted
<1>2. TermsKept /\ Tallied
  BY <1>1, RecordStep DEF Untorn
<1>3. Advances
  BY <1>1, <1>2, StepAdvances
<1>4. Voting'
  BY <1>1, <1>2, VotingStep
<1> QED BY <1>1, <1>2, <1>3, <1>4, AcknowledgedStep

\* What was chosen is chosen.
ChosenKept == \A T, n : Chosen(T, n) => Chosen(T, n)'

\* matchIndex is honest (MatchIndexHonest): what a leader counts on is on its followers'
\* disks, and backed by them (Acknowledged); an entry of a leader's own term that a
\* majority backs stays so, whatever happens (ChosenKept), so that by ChosenHolds every
\* later leader has it.  The assumptions are those of OneLeaderPerTerm.
THEOREM WhatIsChosenStays ==
  ASSUME NeverTorn, "election" \notin Preemptible
  PROVE  Spec => [](MatchIndexHonest /\ Voting /\ Acknowledged) /\ [][ChosenKept]_vars
<1>1. Init => Voting /\ Acknowledged
  BY CommitInit
<1>2. /\ TypeOK /\ TypeOK' /\ PersistedIsCurrent /\ Matching /\ Matching'
      /\ ElectionSafety /\ ElectionSafety' /\ VotesAccounted(Nat) /\ VotesAccounted(Nat)'
      /\ Voting /\ Acknowledged /\ [Next]_vars
      => Voting' /\ Acknowledged' /\ ChosenKept
  <2> SUFFICES ASSUME TypeOK, TypeOK', PersistedIsCurrent, Matching, Matching', ElectionSafety',
                      VotesAccounted(Nat), VotesAccounted(Nat)', Voting, Acknowledged,
                      [Next]_vars
               PROVE  Voting' /\ Acknowledged' /\ ChosenKept
    OBVIOUS
  <2>1. Advances /\ Voting' /\ Acknowledged'
    BY StepAcknowledges
  <2>2. ASSUME NEW T, NEW n, Chosen(T, n) PROVE Chosen(T, n)'
    BY <2>1, <2>2, ChosenStays
  <2> QED BY <2>1, <2>2 DEF ChosenKept
<1>3. TypeOK /\ PersistedIsCurrent /\ Matching /\ Acknowledged => MatchIndexHonest
  BY MatchesHonest
<1> QED BY <1>1, <1>2, <1>3, TypeCorrect, PersistenceCorrect, OneLeaderPerTerm,
           LogsAlwaysMatch, PTL DEF Spec

\* What is committed is committed for good: no two servers commit different entries at an
\* index (CommittedAgree), a leader has every entry that was committed in its term or
\* before (LeaderCompleteness), commitIndex never leaves the log (CommitInLog) and a
\* request reaches past the commit index it carries (CommitCovered).  Besides what
\* OneLeaderPerTerm assumes, applyLog is not interrupted between its test and its lock.
THEOREM CommittedStays ==
  ASSUME NeverTorn, "election" \notin Preemptible, "apply" \notin Preemptible
  PROVE  Spec => [](/\ CommittedAgree /\ LeaderCompleteness
                    /\ CommitInLog /\ CommitCovered /\ Committing)
<1>1. Init => Committing
  BY CommitInit
<1>2. /\ TypeOK /\ TypeOK' /\ PersistedIsCurrent /\ Matching /\ Matching'
      /\ ElectionSafety /\ ElectionSafety' /\ VotesAccounted(Nat) /\ VotesAccounted(Nat)'
      /\ Voting /\ Acknowledged /\ Committing /\ [Next]_vars
      => Committing'
  <2> SUFFICES ASSUME TypeOK, TypeOK', PersistedIsCurrent, Matching, Matching', ElectionSafety',
                      VotesAccounted(Nat), VotesAccounted(Nat)', Voting, Acknowledged,
                      Committing, [Next]_vars
               PROVE  Committing'
    OBVIOUS
  <2>1. Advances
    BY StepAcknowledges
  <2> QED BY <2>1, CommittingStep
<1>3. TypeOK /\ Matching /\ VotesAccounted(Nat) /\ Committing
      => CommittedAgree /\ CommitInLog /\ CommitCovered /\ LeaderCompleteness
  BY CommittedAgrees, LeadersComplete
<1> QED BY <1>1, <1>2, <1>3, TypeCorrect, PersistenceCorrect, OneLeaderPerTerm,
           LogsAlwaysMatch, WhatIsChosenStays, PTL DEF Spec

(***************************************************************************)
(* Where a leader sends from.                                              *)
(***************************************************************************)
\* What a rejection suggests to s about i is no further than the end of the log of the
\* leader of the term it was for.
Hinted(s, i) ==
  LET slot == entryRpc[s][i] IN
    slot.st = "replied" /\ slot.req.type = "AppendEntries" /\ ~slot.reply.success
    => slot.reply.conflict.index <= Len(ledger[slot.req.term]) + 1

Hints == \A s \in Server : \A i \in Others(s) : Hinted(s, i)

\* A follower whose snapshot is past the request has committed what it stands for, so
\* the leader has it.
LEMMA HintFits ==
  ASSUME TypeOK, Matching, VotesAccounted(Nat), Committing, NEW m \in msgs,
         m.type = "AppendEntries", NEW hint, Suggests(m, hint)
  PROVE  /\ hint.index \in Int /\ hint.index <= Len(ledger[m.term]) + 1
         /\ m.term \in DOMAIN ledger
<1>1. /\ m \in EntriesRequest /\ m.to \in Server /\ m.term \in DOMAIN ledger
      /\ Acked(m) \in Nat /\ Acked(m) <= Len(ledger[m.term]) /\ m.term \in Nat
  BY EntriesBasics
<1>2. m.prevLogIndex \in Nat /\ m.prevLogTerm \in Nat /\ m.prevLogIndex <= Acked(m)
  <2>1. Len(m.entries) \in Nat
    BY <1>1, LenProperties DEF EntriesRequest
  <2> QED BY <1>1, <2>1 DEF EntriesRequest, Acked
<1>3. Len(ledger[m.term]) \in Nat /\ Ledger(ledger)
  BY <1>1, LedgerBasics DEF Matching, LedgerOK
<1>4. CASE hint.index \in {0, m.prevLogIndex + 1}
  BY <1>1, <1>2, <1>3, <1>4
<1>5. CASE /\ m.term >= currentTerm[m.to]
           /\ hint = conflict(log[m.to], m.prevLogIndex, m.prevLogTerm)
  <2>1. log[m.to] \in Log /\ currentTerm[m.to] \in Nat
    BY <1>1 DEF TypeOK
  <2>2. PICK start \in Nat : start = log[m.to].lastIncludedIndex
    BY <2>1, LogBasics
  <2>3. /\ hint.index \in Int
        /\ hint.index <= m.prevLogIndex + 1 \/ hint.index = start + 1
    BY <1>2, <1>5, <2>1, <2>2, ConflictType
  <2>4. start <= Len(ledger[m.term])
    <3>1. Covered(m.to, start)
      BY <1>1, <2>2, StartCovered DEF Committing
    <3>2. CASE start > 0
      <4>1. PICK T \in DOMAIN ledger : \E n \in 1 .. Len(ledger[T]) :
                 Chosen(T, n) /\ T <= currentTerm[m.to] /\ start <= n
        BY <3>1, <3>2 DEF Covered
      <4>2. PICK n \in 1 .. Len(ledger[T]) : Chosen(T, n) /\ start <= n
        BY <4>1
      <4>3. T \in Nat /\ n \in Nat /\ T <= m.term
        BY <1>1, <1>3, <1>5, <2>1, <4>1, <4>2, ChosenInLedger
      <4>4. Agree(ledger, m.term, T, n)
        BY <1>1, <4>2, <4>3, ChosenHolds
      <4> QED BY <1>3, <4>2, <4>3, <4>4 DEF Agree
    <3>3. CASE ~(start > 0)
      BY <1>3, <3>3
    <3> QED BY <3>2, <3>3
  <2> QED BY <1>1, <1>2, <1>3, <2>3, <2>4
<1> QED BY <1>1, <1>4, <1>5 DEF Suggests

\* The hints of every step.
LEMMA HintsStep ==
  ASSUME TypeOK, Matching, VotesAccounted(Nat), Acknowledged, Committing, Advances, Hints,
         [Next]_vars
  PROVE  Hints'
<1> SUFFICES ASSUME NEW s \in Server, NEW i \in Others(s) PROVE Hinted(s, i)'
  BY DEF Hints
<1>0. i \in Server
  BY DEF Others
<1>1. ASSUME NEW t \in DOMAIN ledger, NEW k \in Int, k <= Len(ledger[t]) + 1
      PROVE  k <= Len(ledger'[t]) + 1
  <2>1. /\ Ledger(ledger) /\ Ledger(ledger') /\ t \in DOMAIN ledger'
        /\ Len(ledger[t]) <= Len(ledger'[t])
    BY DEF Advances, LedgerGrows, GrowsTo
  <2>2. Len(ledger[t]) \in Nat /\ Len(ledger'[t]) \in Nat
    BY <2>1, LedgerBasics
  <2> QED BY <1>1, <2>1, <2>2
<1>2. CASE entryRpc'[s][i] = entryRpc[s][i]
  <2> SUFFICES ASSUME NEW slot, slot = entryRpc[s][i], slot.st = "replied",
                      slot.req.type = "AppendEntries", ~slot.reply.success
               PROVE  slot.reply.conflict.index <= Len(ledger'[slot.req.term]) + 1
    BY <1>2 DEF Hinted
  <2>1. slot.req \in msgs
    BY DEF Acknowledged, SlotAcks
  <2>2. slot.req.term \in DOMAIN ledger
    BY <2>1, EntriesBasics
  <2>3. slot \in EntrySlot
    BY <1>0 DEF TypeOK
  <2>4. slot.reply \in EntriesReply
    BY <2>3, SlotTypes DEF SnapshotRequest
  <2>5. slot.reply.conflict.index \in Int
    BY <2>4 DEF EntriesReply, Hint
  <2>6. slot.reply.conflict.index <= Len(ledger[slot.req.term]) + 1
    BY DEF Hints, Hinted
  <2> QED BY <1>1, <2>2, <2>5, <2>6
<1>3. CASE entryRpc'[s][i] = IdleSlot
  BY <1>3 DEF Hinted, IdleSlot
<1>4. ASSUME NEW m \in msgs', entryRpc'[s][i] = SentSlot(m)
      PROVE  Hinted(s, i)'
  BY <1>4 DEF Hinted, SentSlot
<1>5. ASSUME NEW m \in msgs, m.from = s, m.to = i, Answered(m)
      PROVE  Hinted(s, i)'
  <2>1. PICK r : entryRpc'[s][i] = [st |-> "replied", req |-> m, reply |-> r] /\ Answers(m, r)
    BY <1>5 DEF Answered
  <2>2. ASSUME m.type = "AppendEntries", ~r.success
        PROVE  r.conflict.index <= Len(ledger'[m.term]) + 1
    <3>1. /\ r.conflict.index \in Int /\ r.conflict.index <= Len(ledger[m.term]) + 1
          /\ m.term \in DOMAIN ledger
      BY <2>1, <2>2, HintFits DEF Answers
    <3> QED BY <1>1, <3>1
  <2> QED BY <2>1, <2>2 DEF Hinted
<1> QED BY <1>0, <1>2, <1>3, <1>4, <1>5, SlotsMove DEF SlotMoves

\* The handling of a reply that keeps a leader in office.
HandlesReply(s, i) ==
  HandleSuccess(s, i) \/ HandleInstallSnapshotReply(s, i) \/ HandleRejection(s, i)

\* No reply takes nextIndex further than the end of the log.
LEMMA RepliesInRange ==
  ASSUME TypeOK, Matching, Acknowledged, Hints, SendInRange, NEW s \in Server,
         NEW i \in Others(s), HandlesReply(s, i)
  PROVE  /\ log'[s] = log[s]
         /\ \A j \in Others(s) : nextIndex'[s][j] <= lastLogIndex(log[s]) + 1
<1>0. i \in Server /\ nextIndex[s] \in [Server -> Int]
  BY DEF Others, TypeOK
<1>1. /\ state[s] = "Leader" /\ entryRpc[s][i].st = "replied"
      /\ entryRpc[s][i].req.term = currentTerm[s] /\ log' = log
      /\ entryRpc[s][i].req.type \in {"AppendEntries", "InstallSnapshot"}
  BY DEF HandlesReply, HandleSuccess, HandleInstallSnapshotReply, HandleRejection, Awaited,
         ReplyUnchanged
<1>2. PICK m \in msgs : m = entryRpc[s][i].req
  BY <1>1 DEF Acknowledged, SlotAcks
<1>3. m.from = s /\ m.term = currentTerm[s] /\ m.type # "RequestVote"
  BY <1>1, <1>2 DEF Acknowledged, SlotAcks
<1>4. turnToLeader[s]
  BY <1>1, <1>3 DEF Acknowledged, Sent
<1>5. /\ m.term \in DOMAIN ledger /\ log[s] \in Log /\ lastLogIndex(log[s]) = Len(ledger[m.term])
      /\ Len(ledger[m.term]) \in Nat
  BY <1>1, <1>3, LeaderHas
<1>6. PICK B \in Int : B = lastLogIndex(log[s]) + 1
  BY <1>5
<1>7. log[s].lastIncludedIndex \in Nat /\ log[s].lastIncludedIndex + 1 <= B
  BY <1>5, <1>6, LogBasics
<1>8. \A j \in Others(s) : nextIndex[s][j] <= B
  BY <1>1, <1>4, <1>6 DEF SendInRange
<1>9. ASSUME NEW v, nextIndex' = [nextIndex EXCEPT ![s][i] = v], v <= B
      PROVE  \A j \in Others(s) : nextIndex'[s][j] <= B
  <2>1. /\ nextIndex'[s][i] = v
        /\ \A j \in Server \ {i} : nextIndex'[s][j] = nextIndex[s][j]
    BY <1>0, <1>9 DEF TypeOK
  <2> QED BY <1>8, <1>9, <2>1 DEF Others
<1>10. CASE HandleSuccess(s, i)
  <2>1. nextIndex' = [nextIndex EXCEPT ![s][i] = Acked(m) + 1] /\ m.type = "AppendEntries"
    BY <1>2, <1>10 DEF HandleSuccess, Awaited
  <2>2. Acked(m) \in Nat /\ Acked(m) <= Len(ledger[m.term])
    BY <2>1, EntriesBasics
  <2>3. Acked(m) + 1 <= B
    BY <1>5, <1>6, <2>2
  <2> QED BY <1>1, <1>6, <1>9, <2>1, <2>3
<1>11. CASE HandleInstallSnapshotReply(s, i)
  <2>1. /\ nextIndex' = [nextIndex EXCEPT ![s][i] = m.lastIncludedIndex + 1]
        /\ m.type = "InstallSnapshot"
    BY <1>2, <1>11 DEF HandleInstallSnapshotReply, Awaited
  <2>2. m.lastIncludedIndex \in Nat
    BY <2>1, RequestTypes DEF TypeOK, SnapshotRequest
  <2>3. m.lastIncludedIndex <= Len(ledger[m.term])
    BY <2>1 DEF Matching, RequestFits, SnapshotFits
  <2>4. m.lastIncludedIndex + 1 <= B
    BY <1>5, <1>6, <2>2, <2>3
  <2> QED BY <1>1, <1>6, <1>9, <2>1, <2>4
<1>12. CASE HandleRejection(s, i)
  <2> DEFINE r == entryRpc[s][i].reply
  <2>1. /\ nextIndex' = [nextIndex EXCEPT ![s][i] = backup(log[s], @, m.prevLogIndex,
                                                           m.prevLogTerm, r.conflict)]
        /\ m.type = "AppendEntries" /\ ~r.success
    BY <1>2, <1>12 DEF HandleRejection, Awaited
  <2>2. m \in EntriesRequest /\ Acked(m) \in Nat /\ Acked(m) <= Len(ledger[m.term])
    BY <2>1, EntriesBasics
  <2>3. m.prevLogIndex \in Nat /\ m.prevLogTerm \in Nat /\ m.prevLogIndex + 1 <= B
    <3>1. Len(m.entries) \in Nat /\ m.prevLogIndex \in Nat /\ m.prevLogTerm \in Nat
      BY <2>2, LenProperties DEF EntriesRequest
    <3> QED BY <1>5, <1>6, <2>2, <3>1 DEF Acked
  <2>4. r \in EntriesReply
    <3>1. entryRpc[s][i] \in EntrySlot
      BY <1>0 DEF TypeOK
    <3> QED BY <1>1, <1>2, <2>1, <3>1, SlotTypes DEF SnapshotRequest
  <2>5. r.conflict \in [index : Int, term : Int]
    BY <2>4 DEF EntriesReply, Hint
  <2>6. r.conflict.index <= B
    BY <1>1, <1>2, <1>5, <1>6, <2>1 DEF Hints, Hinted
  <2> HIDE DEF r
  <2> DEFINE v == backup(log[s], nextIndex[s][i], m.prevLogIndex, m.prevLogTerm, r.conflict)
  <2>7. nextIndex' = [nextIndex EXCEPT ![s][i] = v]
    BY <1>0, <2>1 DEF TypeOK
  <2>8. v <= B
    BY <1>0, <1>5, <1>6, <1>7, <1>8, <2>3, <2>5, <2>6, BackupType
  <2> HIDE DEF v
  <2> QED BY <1>1, <1>6, <1>9, <2>7, <2>8
<1> QED BY <1>10, <1>11, <1>12 DEF HandlesReply

\* How nextIndex changes.
LEMMA NextMoves ==
  ASSUME TypeOK, [Next]_vars, NEW x \in Server
  PROVE  \/ nextIndex'[x] = nextIndex[x]
         \/ state'[x] = "Follower"
         \/ InitLeader(x)
         \/ \E i \in Others(x) : HandlesReply(x, i)
<1>1. CASE nextIndex' = nextIndex
  BY <1>1
<1>2. ASSUME NEW s \in Server, NEW p, Boot(s, p)
      PROVE  nextIndex'[x] = nextIndex[x] \/ state'[x] = "Follower"
  BY <1>2 DEF Boot, TypeOK
<1>3. ASSUME NEW s \in Server, ServerStep(s)
      PROVE  nextIndex'[x] = nextIndex[x] \/ state'[x] = "Follower" \/ InitLeader(x)
  <2>1. CASE InitLeader(s)
    BY <2>1 DEF InitLeader, TypeOK
  <2>2. CASE Restart(s)
    BY <1>2, <2>2 DEF Restart
  <2>3. CASE ~InitLeader(s) /\ ~Restart(s)
    <3>1. nextIndex' = nextIndex
      BY <1>3, <2>3, Zenon DEF ServerStep, StartElection, TallyVotes, BecomeLeader, Start,
         CheckCommit, ApplyCheck, ApplyNext, ReceiveCommand, ReceiveSnapshot, Snapshot,
         ServiceUnchanged, leaderVars
    <3> QED BY <3>1
  <2> QED BY <2>1, <2>2, <2>3
<1>4. ASSUME NEW s \in Server, NEW i \in Others(s), PeerStep(s, i)
      PROVE  nextIndex'[x] = nextIndex[x] \/ \E j \in Others(x) : HandlesReply(x, j)
  <2>1. CASE HandlesReply(s, i)
    <3>1. CASE s = x
      BY <2>1, <3>1
    <3>2. CASE s # x
      BY <2>1, <3>2 DEF HandlesReply, HandleSuccess, HandleInstallSnapshotReply,
         HandleRejection, TypeOK
    <3> QED BY <3>1, <3>2
  <2>2. CASE ~HandlesReply(s, i)
    <3>1. nextIndex' = nextIndex
      BY <1>4, <2>2, Zenon DEF HandlesReply, PeerStep, SendRequest, HandleRequestVoteReply,
         SendSnapshot, SendEntries, Sending, LeaderStepsDown, leaderVars
    <3> QED BY <3>1
  <2> QED BY <2>1, <2>2
<1>5. ASSUME NEW m \in msgs, Receive(m)
      PROVE  nextIndex'[x] = nextIndex[x] \/ state'[x] = "Follower"
  <2>1. m.to \in Server
    BY RequestTypes DEF TypeOK
  <2>2. CASE TornAppendEntries(m)
    BY <1>2, <2>1, <2>2 DEF TornAppendEntries
  <2>3. CASE RequestVote(m) \/ AppendEntries(m) \/ InstallSnapshot(m)
    <3>1. nextIndex' = nextIndex
      BY <2>3, Zenon DEF RequestVote, VoteInNewTerm, VoteAgain, VoteInCurrentTerm, RefuseVote,
         VoteUnchanged, AppendEntries, StaleAppendEntries, AppendEntriesToLeader, RejectEntries,
         AcceptEntries, EntriesUnchanged, InstallSnapshot, leaderVars
    <3> QED BY <3>1
  <2> QED BY <1>5, <2>2, <2>3 DEF Receive
<1>6. CASE UNCHANGED vars
  BY <1>1, <1>6 DEF vars, leaderVars
<1> QED BY <1>3, <1>4, <1>5, <1>6 DEF Next

\* A leader's log does not get shorter, so what is in range stays so.
LEMMA InRangeStep ==
  ASSUME TypeOK, TypeOK', Matching, Matching', Acknowledged, Advances, Hints, SendInRange,
         [Next]_vars
  PROVE  SendInRange'
<1> SUFFICES ASSUME NEW x \in Server, NEW i \in Others(x), state'[x] = "Leader", turnToLeader'[x]
             PROVE  nextIndex'[x][i] <= lastLogIndex(log'[x]) + 1
  BY DEF SendInRange, Others
<1>0. i \in Server
  BY DEF Others
<1>1. ASSUME log'[x] = log[x], \A j \in Others(x) : nextIndex'[x][j] <= lastLogIndex(log[x]) + 1
      PROVE  nextIndex'[x][i] <= lastLogIndex(log'[x]) + 1
  BY <1>1
<1>2. CASE InitLeader(x)
  <2>1. /\ log' = log
        /\ nextIndex' = [nextIndex EXCEPT ![x] = [j \in Server |-> lastLogIndex(log[x]) + 1]]
    BY <1>2 DEF InitLeader
  <2>2. nextIndex'[x][i] = lastLogIndex(log[x]) + 1 /\ lastLogIndex(log[x]) \in Nat
    <3>1. log[x] \in Log
      BY DEF TypeOK
    <3> QED BY <1>0, <2>1, <3>1, LogBasics DEF TypeOK
  <2> QED BY <2>1, <2>2
<1>3. CASE \E j \in Others(x) : HandlesReply(x, j)
  BY <1>1, <1>3, RepliesInRange
<1>4. CASE nextIndex'[x] = nextIndex[x] /\ OfficeKept(x)
  <2>1. PICK T \in Nat : T = currentTerm[x]
    BY DEF TypeOK
  <2>2. /\ state[x] = "Leader" /\ turnToLeader[x] /\ T = currentTerm'[x]
    BY <1>4, <2>1 DEF OfficeKept
  <2>3. /\ T \in DOMAIN ledger /\ lastLogIndex(log[x]) = Len(ledger[T]) /\ Len(ledger[T]) \in Nat
    BY <2>1, <2>2, LeaderHas
  <2>4. lastLogIndex(log'[x]) = Len(ledger'[T])
    BY <2>2 DEF Matching, Leads
  <2>5. Len(ledger[T]) <= Len(ledger'[T]) /\ T \in DOMAIN ledger' /\ Ledger(ledger')
    BY <2>3 DEF Advances, LedgerGrows, GrowsTo
  <2>6. Len(ledger'[T]) \in Nat
    BY <2>5, LedgerBasics
  <2>7. nextIndex[x][i] <= lastLogIndex(log[x]) + 1 /\ nextIndex[x][i] \in Int
    BY <1>0, <2>2 DEF SendInRange, TypeOK
  <2> QED BY <1>4, <2>3, <2>4, <2>5, <2>6, <2>7
<1>5. ~BecomeLeader(x)
  BY DEF BecomeLeader, TypeOK
<1> QED BY <1>2, <1>3, <1>4, <1>5, NextMoves, OfficeMoves

\* A leader never slices its log out of range (SendInRange), whatever hints come back, and
\* however late: a hint is no further than the end of the leader's log (Hints), because a
\* follower's snapshot stands for committed entries.
THEOREM SendsInRange ==
  ASSUME NeverTorn, "election" \notin Preemptible, "apply" \notin Preemptible
  PROVE  Spec => [](SendInRange /\ Hints)
<1>1. Init => SendInRange /\ Hints
  BY DEF Init, SendInRange, Hints, Hinted, IdleSlot, Others
<1>2. /\ TypeOK /\ TypeOK' /\ PersistedIsCurrent /\ Matching /\ Matching'
      /\ ElectionSafety /\ ElectionSafety' /\ VotesAccounted(Nat) /\ VotesAccounted(Nat)'
      /\ Voting /\ Acknowledged /\ Committing /\ SendInRange /\ Hints /\ [Next]_vars
      => SendInRange' /\ Hints'
  <2> SUFFICES ASSUME TypeOK, TypeOK', PersistedIsCurrent, Matching, Matching', ElectionSafety',
                      VotesAccounted(Nat), VotesAccounted(Nat)', Voting, Acknowledged,
                      Committing, SendInRange, Hints, [Next]_vars
               PROVE  SendInRange' /\ Hints'
    OBVIOUS
  <2>1. Advances
    BY StepAcknowledges
  <2> QED BY <2>1, InRangeStep, HintsStep
<1> QED BY <1>1, <1>2, TypeCorrect, PersistenceCorrect, OneLeaderPerTerm, LogsAlwaysMatch,
           WhatIsChosenStays, CommittedStays, PTL DEF Spec

(***************************************************************************)
(* A service receives every command once and in order, and it does not     *)
(* matter whether it came as a command or in a snapshot.  What a service,  *)
(* a snapshot or a message on its way stands for is a prefix of the        *)
(* ledger: the commands among its first entries, in their order.           *)
(***************************************************************************)
\* x is the state of a service that has received the k first entries of the leader of
\* term t, no-ops left out.
Stands(x, g, t, k) ==
  /\ x.index = Counted(g, t, k) /\ Len(x.cmds) = x.index
  /\ \A p \in 1 .. x.index : \E j \in Commands(g, t, k) :
       Counted(g, t, j) = p /\ x.cmds[p] = g[t][j].cmd

\* The service x after it has received the message b.
Receives(x, b) == [index |-> b.index, cmds |-> Append(x.cmds, b.cmd)]

\* What the service of s is about to have, and the snapshot on its disk, stand for
\* entries of its log.
Delivers(s) ==
  LET t == lastLogTerm(log[s]) IN
    /\ Len(service[s].cmds) = service[s].index
    /\ Stands(persisted[s].snapshot, ledger, t, log[s].lastIncludedIndex)
    /\ applying[s] => Settled(s)
    /\ Settled(s) => Stands(service[s], ledger, t, lastApplied[s])
    /\ outbox[s] # Nil =>
         /\ installing[s] = {}
         /\ Stands(Receives(service[s], outbox[s]), ledger, t, lastApplied[s])
    /\ \A x \in installing[s] :
         installing[s] = {x} /\ Stands(x.data, ledger, t, lastApplied[s])

Ships(m) ==
  m.type = "InstallSnapshot" => Stands(m.data, ledger, m.term, m.lastIncludedIndex)

Serving ==
  /\ \A s \in Server : Delivers(s)
  /\ \A m \in msgs : Ships(m)

(***************************************************************************)
(* What stands for a prefix of a ledger.                                   *)
(***************************************************************************)
\* Only the entries of the prefix matter.
LEMMA StandsSame ==
  ASSUME NEW g, NEW t, NEW h, NEW u, NEW k \in Int, \A i \in 1 .. k : g[t][i] = h[u][i],
         NEW x, Stands(x, g, t, k)
  PROVE  Stands(x, h, u, k)
<1>1. \A j \in Int : j <= k => Commands(g, t, j) = Commands(h, u, j)
  BY DEF Commands
<1>2. \A j \in Int : j <= k => Counted(g, t, j) = Counted(h, u, j)
  BY <1>1 DEF Counted
<1>3. \A j \in Commands(g, t, k) : j \in Int /\ j <= k /\ g[t][j] = h[u][j]
  BY DEF Commands
<1>4. Commands(g, t, k) = Commands(h, u, k) /\ Counted(g, t, k) = Counted(h, u, k)
  BY <1>1, <1>2
<1>5. ASSUME NEW p \in 1 .. x.index
      PROVE  \E j \in Commands(h, u, k) : Counted(h, u, j) = p /\ x.cmds[p] = h[u][j].cmd
  <2>1. PICK j \in Commands(g, t, k) : Counted(g, t, j) = p /\ x.cmds[p] = g[t][j].cmd
    BY DEF Stands
  <2> QED BY <1>2, <1>3, <1>4, <2>1
<1> QED BY <1>4, <1>5 DEF Stands

\* The next entry is a no-op, or a command the service receives.
LEMMA StandsNext ==
  ASSUME NEW g, NEW t, NEW k \in Int, NEW x, x.cmds \in Seq(Command), Stands(x, g, t, k),
         NEW n, n = k + 1
  PROVE  /\ n <= 0 \/ g[t][n].cmd = NoOp => Stands(x, g, t, n)
         /\ n > 0 /\ g[t][n].cmd # NoOp =>
              \A b \in [index : Nat, cmd : Command] :
                b.index = Counted(g, t, n) /\ b.cmd = g[t][n].cmd
                => Stands(Receives(x, b), g, t, n)
<1>1. /\ n \in Int /\ x.index = Counted(g, t, k)
      /\ Len(x.cmds) = x.index
      /\ \A p \in 1 .. x.index : \E j \in Commands(g, t, k) :
           Counted(g, t, j) = p /\ x.cmds[p] = g[t][j].cmd
  BY DEF Stands
<1>2. ASSUME n <= 0 \/ g[t][n].cmd = NoOp PROVE Stands(x, g, t, n)
  <2>1. Commands(g, t, n) = Commands(g, t, k)
    BY <1>2 DEF Commands
  <2> QED BY <2>1 DEF Stands, Counted
<1>3. ASSUME n > 0, g[t][n].cmd # NoOp, NEW b \in [index : Nat, cmd : Command],
             b.index = Counted(g, t, n), b.cmd = g[t][n].cmd
      PROVE  Stands(Receives(x, b), g, t, n)
  <2>1. Commands(g, t, n) = Commands(g, t, k) \cup {n} /\ n \notin Commands(g, t, k)
    BY <1>3 DEF Commands
  <2>2. Counted(g, t, n) = Counted(g, t, k) + 1 /\ Counted(g, t, k) \in Nat
    BY <2>1, CountedBasics, FS_AddElement DEF Counted
  <2>3. x.index = Counted(g, t, k) /\ Len(x.cmds) = x.index
    BY DEF Stands
  <2> DEFINE y == Append(x.cmds, b.cmd)
  <2>4. /\ Len(y) = x.index + 1 /\ y[x.index + 1] = b.cmd
        /\ \A p \in 1 .. x.index : y[p] = x.cmds[p]
    BY <2>2, <2>3, AppendProperties
  <2> HIDE DEF y
  <2>5. ASSUME NEW p \in 1 .. b.index
        PROVE  \E j \in Commands(g, t, n) : Counted(g, t, j) = p /\ y[p] = g[t][j].cmd
    <3>1. CASE p = b.index
      BY <1>3, <2>1, <2>2, <2>3, <2>4, <3>1
    <3>2. CASE p # b.index
      <4>1. p \in 1 .. x.index
        BY <1>3, <2>2, <2>3, <3>2
      <4>2. PICK j \in Commands(g, t, k) : Counted(g, t, j) = p /\ x.cmds[p] = g[t][j].cmd
        BY <1>1, <4>1
      <4> QED BY <2>1, <2>4, <4>1, <4>2
    <3> QED BY <3>1, <3>2
  <2>6. Receives(x, b).index = b.index /\ Receives(x, b).cmds = y
    BY DEF Receives, y
  <2>7. Len(y) = b.index
    BY <1>3, <2>2, <2>3, <2>4
  <2> QED BY <1>3, <2>5, <2>6, <2>7 DEF Stands
<1> QED BY <1>2, <1>3

\* Different commands are counted differently.
LEMMA CountedOnce ==
  ASSUME NEW g, NEW t, NEW k \in Int, NEW l \in Int,
         NEW i \in Commands(g, t, k), NEW j \in Commands(g, t, l),
         Counted(g, t, i) = Counted(g, t, j)
  PROVE  i = j
<1>1. /\ i \in Int /\ i > 0 /\ g[t][i].cmd # NoOp
      /\ j \in Int /\ j > 0 /\ g[t][j].cmd # NoOp
  BY DEF Commands
<1>2. /\ i < j => Counted(g, t, i) < Counted(g, t, j)
      /\ j < i => Counted(g, t, j) < Counted(g, t, i)
      /\ Counted(g, t, i) \in Nat
  BY <1>1, CountedBasics
<1> QED BY <1>1, <1>2

\* What stands for a prefix stands for the shorter one that ends at its last command.
LEMMA StandsCut ==
  ASSUME NEW g, NEW t, NEW k \in Int, NEW x, Stands(x, g, t, k),
         NEW n \in Int, n <= k, x.index = Counted(g, t, n)
  PROVE  Stands(x, g, t, n)
<1>1. /\ Commands(g, t, n) \subseteq Commands(g, t, k)
      /\ Cardinality(Commands(g, t, n)) = Cardinality(Commands(g, t, k))
  BY DEF Commands, Stands, Counted
<1>2. Commands(g, t, n) = Commands(g, t, k)
  BY <1>1, CountedBasics, FS_Subset
<1> QED BY <1>2 DEF Stands

\* Of two that stand for prefixes, the shorter one's commands are a prefix.
LEMMA StandsPrefix ==
  ASSUME NEW g, NEW t, NEW k \in Int, NEW l \in Int, k <= l,
         NEW x \in Snap, NEW y \in Snap, Stands(x, g, t, k), Stands(y, g, t, l)
  PROVE  Prefix(x.cmds, y.cmds) /\ (k = l => x = y)
<1>1. /\ x.cmds \in Seq(Command) /\ y.cmds \in Seq(Command)
      /\ x.index \in Nat /\ y.index \in Nat
      /\ x = [index |-> x.index, cmds |-> x.cmds] /\ y = [index |-> y.index, cmds |-> y.cmds]
  BY DEF Snap
<1>2. /\ Len(x.cmds) = x.index /\ Len(y.cmds) = y.index
      /\ x.index = Counted(g, t, k) /\ y.index = Counted(g, t, l)
  BY DEF Stands
<1>3. x.index <= y.index
  BY <1>2, CountedBasics
<1>4. ASSUME NEW p \in 1 .. x.index PROVE x.cmds[p] = y.cmds[p]
  <2>1. p \in 1 .. y.index
    BY <1>1, <1>3
  <2>2. PICK i \in Commands(g, t, k) : Counted(g, t, i) = p /\ x.cmds[p] = g[t][i].cmd
    BY DEF Stands
  <2>3. PICK j \in Commands(g, t, l) : Counted(g, t, j) = p /\ y.cmds[p] = g[t][j].cmd
    BY <2>1 DEF Stands
  <2>4. i = j
    BY <2>2, <2>3, CountedOnce
  <2> QED BY <2>2, <2>3, <2>4
<1>5. SubSeq(y.cmds, 1, x.index) = x.cmds
  <2> DEFINE z == SubSeq(y.cmds, 1, x.index)
  <2>1. z \in Seq(Command) /\ Len(z) = x.index /\ \A p \in 1 .. x.index : z[p] = y.cmds[p]
    BY <1>1, <1>2, <1>3
  <2> HIDE DEF z
  <2>2. z = x.cmds
    BY <1>1, <1>2, <1>4, <2>1, SeqEqual
  <2> QED BY <2>2 DEF z
<1>6. ASSUME k = l PROVE x = y
  <2>1. x.index = y.index
    BY <1>2, <1>6
  <2>2. x.cmds = y.cmds
    BY <1>1, <1>2, <1>4, <2>1, SeqEqual
  <2> QED BY <1>1, <2>1, <2>2
<1> QED BY <1>2, <1>3, <1>5, <1>6 DEF Prefix

(***************************************************************************)
(* Steps.                                                                  *)
(***************************************************************************)
\* What stands for committed entries of a server still does after a step.
LEMMA CommittedStands ==
  ASSUME TypeOK, TypeOK', Matching, Matching', VotesAccounted(Nat), Advances,
         NEW s \in Server, Covered(s, commitIndex[s]), NEW j \in Int, j <= commitIndex[s],
         NEW x, Stands(x, ledger, lastLogTerm(log[s]), j)
  PROVE  Stands(x, ledger', lastLogTerm(log'[s]), j)
<1> DEFINE t == lastLogTerm(log[s])
           u == lastLogTerm(log'[s])
<1>1. commitIndex[s] \in Int
  BY DEF TypeOK
<1>2. Covered(s, j)
  BY <1>1, CoveredLess
<1>3. j > 0 => j <= lastLogIndex(log[s]) /\ Agree(ledger', t, u, j)
  BY <1>2, CoveredStays
<1>4. /\ lastLogIndex(log[s]) \in Nat /\ t \in DOMAIN ledger
      /\ lastLogIndex(log[s]) <= Len(ledger[t]) /\ Ledger(ledger)
  BY EndOfLog
<1>5. Len(ledger[t]) \in Nat
  BY <1>4, LedgerBasics
<1>6. Stands(x, ledger, t, j)
  OBVIOUS
<1> HIDE DEF t, u
<1>7. ASSUME NEW i \in 1 .. j PROVE ledger[t][i] = ledger'[u][i]
  <2>1. ledger'[t][i] = ledger'[u][i]
    BY <1>3 DEF Agree
  <2>2. i \in 1 .. Len(ledger[t])
    BY <1>3, <1>4, <1>5
  <2>3. ledger'[t][i] = ledger[t][i]
    BY <1>4, <2>2 DEF Advances, LedgerGrows, GrowsTo
  <2> QED BY <2>1, <2>3
<1>8. Stands(x, ledger', u, j)
  BY <1>6, <1>7, StandsSame
<1> QED BY <1>8 DEF u

\* A server that is free has handed over everything it has prepared.
LEMMA FreeSettled ==
  ASSUME NEW s \in Server, Free(s), "apply" \notin Preemptible, "deliver" \notin Preemptible
  PROVE  Settled(s) /\ ~applying[s]
BY DEF Free, Settled

\* The service keeps up with what is applied, and its snapshots with the log.
LEMMA DeliversStep ==
  ASSUME TypeOK, TypeOK', PersistedIsCurrent, Matching, Matching', VotesAccounted(Nat), Advances,
         Committing, Committing', Serving, NotRolledBack', NeverTorn,
         "apply" \notin Preemptible, "deliver" \notin Preemptible, [Next]_vars,
         NEW x \in Server
  PROVE  Delivers(x)'
<1> DEFINE t == lastLogTerm(log[x])
           u == lastLogTerm(log'[x])
           start == log[x].lastIncludedIndex
<1>1. /\ Applying(x) /\ Served(x) /\ \A m \in msgs : Carries(m) /\ Ships(m)
      /\ Delivers(x)
  BY DEF Committing, Serving
<1>2. /\ commitIndex[x] \in Int /\ lastApplied[x] \in Int /\ lastApplied'[x] \in Int
      /\ log[x] \in Log /\ log'[x] \in Log /\ start \in Nat
  <2>1. log[x] \in Log /\ log'[x] \in Log
    BY DEF TypeOK
  <2> QED BY <2>1, LogBasics DEF TypeOK
<1>3. /\ Covered(x, commitIndex[x]) /\ lastApplied[x] <= commitIndex[x]
      /\ start > 0 => start <= lastApplied[x]
      /\ At(log[x], start).cmd = NoOp
  BY <1>1 DEF Applying
<1>4. ASSUME NEW y, Stands(y, ledger, t, start) PROVE Stands(y, ledger', u, start)
  <2>1. CASE start > 0
    BY <1>2, <1>3, <1>4, <2>1, CommittedStands
  <2>2. CASE ~(start > 0)
    <3>1. PICK n \in Int : n = start
      BY <1>2
    <3>2. Stands(y, ledger, t, n) /\ \A i \in 1 .. n : ledger[t][i] = ledger'[u][i]
      BY <1>2, <1>4, <2>2, <3>1
    <3> HIDE DEF t, u
    <3>3. Stands(y, ledger', u, n)
      BY <3>2, StandsSame
    <3> QED BY <3>1, <3>3
  <2> QED BY <2>1, <2>2
<1>5. ASSUME NEW y, Stands(y, ledger, t, lastApplied[x])
      PROVE  Stands(y, ledger', u, lastApplied[x])
  BY <1>2, <1>3, <1>5, CommittedStands
<1>6. /\ Len(service[x].cmds) = service[x].index
      /\ Stands(persisted[x].snapshot, ledger, t, start)
      /\ applying[x] => Settled(x)
      /\ Settled(x) => Stands(service[x], ledger, t, lastApplied[x])
      /\ outbox[x] # Nil =>
           /\ installing[x] = {}
           /\ Stands(Receives(service[x], outbox[x]), ledger, t, lastApplied[x])
      /\ \A y \in installing[x] :
           installing[x] = {y} /\ Stands(y.data, ledger, t, lastApplied[x])
  BY <1>1 DEF Delivers
<1>7. ASSUME StartsAsBefore(x), persisted'[x].snapshot = persisted[x].snapshot
      PROVE  Stands(persisted'[x].snapshot, ledger', u, log'[x].lastIncludedIndex)
  <2>1. log'[x].lastIncludedIndex = start
    BY <1>7 DEF StartsAsBefore, SameStart
  <2> QED BY <1>4, <1>6, <1>7, <2>1
<1>8. ASSUME StartsAsBefore(x), persisted'[x].snapshot = persisted[x].snapshot,
             lastApplied'[x] = lastApplied[x], outbox'[x] = outbox[x],
             installing'[x] = installing[x], service'[x] = service[x],
             applying'[x] => Settled(x)
      PROVE  Delivers(x)'
  <2>1. Settled(x)' <=> Settled(x)
    BY <1>8 DEF Settled
  <2> HIDE DEF t, u
  <2>2. Settled(x)' => Stands(service'[x], ledger', u, lastApplied'[x])
    BY <1>5, <1>6, <1>8, <2>1
  <2>3. outbox'[x] # Nil => Stands(Receives(service'[x], outbox'[x]), ledger', u, lastApplied'[x])
    BY <1>5, <1>6, <1>8
  <2>4. \A y \in installing'[x] :
           installing'[x] = {y} /\ Stands(y.data, ledger', u, lastApplied'[x])
    BY <1>5, <1>6, <1>8
  <2> QED BY <1>6, <1>7, <1>8, <2>1, <2>2, <2>3, <2>4 DEF Delivers, u
<1>9. ASSUME Settled(x)', Len(service'[x].cmds) = service'[x].index,
             Stands(persisted'[x].snapshot, ledger', u, log'[x].lastIncludedIndex),
             Stands(service'[x], ledger', u, lastApplied'[x])
      PROVE  Delivers(x)'
  BY <1>9 DEF Delivers, Settled
<1>10. CASE Snapshot(x)
  <2>1. PICK real : real = publicToRealIndex(log[x], service[x].index)
    OBVIOUS
  <2>2. /\ real \in Int /\ real <= lastApplied[x]
        /\ service[x].index = Counted(ledger, t, real)
    BY <1>1, <1>10, <2>1, SnapshotApplied
  <2>3. log'[x].lastIncludedIndex = real
    BY <1>10, <2>1, SnapshotStart
  <2>4. /\ UNCHANGED <<lastApplied, applying, outbox, installing, service>>
        /\ persisted'[x].snapshot = service[x] /\ Free(x)
    BY <1>10 DEF Snapshot, ServiceUnchanged, persistWithSnapshot, TypeOK
  <2>5. Settled(x) /\ Settled(x)'
    BY <2>4, FreeSettled DEF Settled
  <2>6. Stands(service[x], ledger, t, lastApplied[x])
    BY <1>6, <2>5
  <2>7. Stands(service[x], ledger, t, real)
    BY <1>2, <2>2, <2>6, StandsCut
  <2>8. Stands(service[x], ledger', u, real)
    BY <1>2, <1>3, <2>2, <2>7, CommittedStands
  <2>9. Stands(service'[x], ledger', u, lastApplied'[x])
    BY <1>5, <2>4, <2>6
  <2>10. Stands(persisted'[x].snapshot, ledger', u, log'[x].lastIncludedIndex)
    BY <2>3, <2>4, <2>8
  <2> QED BY <1>6, <1>9, <2>4, <2>5, <2>9, <2>10
<1>11. CASE Installs(x)
  <2>1. PICK m \in msgs : m.to = x /\ InstallSnapshot(m) /\ InstallNewSnapshot(m)
    BY <1>11 DEF Installs
  <2>2. PICK k \in Nat : k = m.lastIncludedIndex
    BY <2>1, InstallStart DEF SnapshotRequest
  <2>3. k <= lastApplied'[x] /\ log'[x].lastIncludedIndex = k
    BY <1>1, <1>3, <2>1, <2>2, InstallCommits, InstallStart
  <2>4. Settled(x) /\ ~applying[x]
    BY <2>1, FreeSettled DEF InstallSnapshot
  <2>5. /\ outbox'[x] = outbox[x] /\ service'[x] = service[x] /\ applying'[x] = applying[x]
        /\ persisted'[x].snapshot = m.data
    BY <2>1 DEF InstallSnapshot, InstallNewSnapshot, persistWithSnapshot, TypeOK
  <2>6. PICK y : installing'[x] = {y} /\ y.data = m.data
    <3>1. installing[x] = {}
      BY <2>4 DEF Settled
    <3>2. installing'[x] = {[index |-> m.lastIncludedPublicIndex, data |-> m.data]}
      BY <2>1, <3>1 DEF InstallSnapshot, InstallNewSnapshot, TypeOK
    <3>3. [index |-> m.lastIncludedPublicIndex, data |-> m.data].data = m.data
      OBVIOUS
    <3> QED BY <3>2, <3>3
  <2>7. lastApplied'[x] = k
    BY <1>2, <2>3, <2>6 DEF NotRolledBack
  <2>8. ledger' = ledger /\ Agree(ledger, u, m.term, k)
    BY <2>1, <2>2, InstallTakes DEF Advances
  <2>9. Stands(m.data, ledger, m.term, k)
    BY <1>1, <2>1, <2>2 DEF Ships, InstallSnapshot
  <2>10. Stands(m.data, ledger', u, k)
    <3>1. k \in Int /\ \A i \in 1 .. k : ledger[m.term][i] = ledger'[u][i]
      BY <2>8 DEF Agree
    <3> HIDE DEF u
    <3> QED BY <2>9, <3>1, StandsSame
  <2>11. /\ Stands(persisted'[x].snapshot, ledger', u, log'[x].lastIncludedIndex)
         /\ \A z \in installing'[x] :
              installing'[x] = {z} /\ Stands(z.data, ledger', u, lastApplied'[x])
    BY <2>3, <2>5, <2>6, <2>7, <2>10
  <2>12. ~applying'[x] /\ outbox'[x] = Nil /\ ~Settled(x)'
    BY <2>4, <2>5, <2>6 DEF Settled
  <2> QED BY <1>6, <2>5, <2>11, <2>12 DEF Delivers
<1>12. CASE StartsAsBefore(x) /\ Idles(x)
  BY <1>6, <1>8, <1>12 DEF Idles
<1>13. CASE StartsAsBefore(x) /\ Boots(x)
  <2>1. Settled(x)' /\ lastApplied'[x] = log'[x].lastIncludedIndex
    BY <1>13 DEF Boots, Settled, StartsAsBefore, SameStart
  <2>2. service'[x] = persisted'[x].snapshot /\ persisted'[x].snapshot = persisted[x].snapshot
    BY <1>13 DEF Boots
  <2>3. Stands(persisted'[x].snapshot, ledger', u, log'[x].lastIncludedIndex)
    BY <1>7, <1>13, <2>2
  <2>4. Len(service'[x].cmds) = service'[x].index
    BY <1>6, <2>2 DEF Stands
  <2> QED BY <1>9, <2>1, <2>2, <2>3, <2>4
<1>14. CASE StartsAsBefore(x) /\ (CheckCommit(x) \/ ApplyCheck(x))
  <2>1. UNCHANGED <<lastApplied, outbox, installing, service, persisted>>
    BY <1>14 DEF CheckCommit, ApplyCheck, applyVars
  <2>2. applying'[x] => Settled(x)
    <3>1. CASE CheckCommit(x)
      BY <1>6, <3>1 DEF CheckCommit, applyVars
    <3>2. CASE ApplyCheck(x)
      BY <3>2, FreeSettled DEF ApplyCheck
    <3> QED BY <1>14, <3>1, <3>2
  <2> QED BY <1>8, <1>14, <2>1, <2>2
<1>15. CASE StartsAsBefore(x) /\ ApplyNext(x)
  <2>1. PICK next \in Int : next = lastApplied[x] + 1
    BY <1>2
  <2>2. /\ applying[x] /\ next \in Indices(log[x]) /\ lastApplied'[x] = next /\ ~applying'[x]
        /\ outbox'[x] = IF At(log[x], next).cmd = NoOp THEN Nil
                        ELSE [index |-> realToPublicIndex(log[x], next),
                              cmd |-> At(log[x], next).cmd]
        /\ installing' = installing /\ service' = service /\ log' = log /\ ledger' = ledger
    BY <1>15, <2>1 DEF ApplyNext, TypeOK, electionVars
  <2>3. /\ persisted'[x].snapshot = persisted[x].snapshot
        /\ Stands(persisted'[x].snapshot, ledger', u, log'[x].lastIncludedIndex)
    BY <1>7, <1>15, SnapshotsSaved DEF ApplyNext
  <2>4. Settled(x) /\ Stands(service[x], ledger, t, lastApplied[x]) /\ installing[x] = {}
    BY <1>6, <2>2 DEF Settled
  <2>5. service[x].cmds \in Seq(Command) /\ service[x] \in Snap
    BY DEF TypeOK, Snap
  <2>6. PICK a \in Int : a = lastApplied[x] /\ next = a + 1
    BY <1>2, <2>1
  <2>7. CASE next = start
    <3>1. next <= 0 /\ outbox'[x] = Nil
      BY <1>2, <1>3, <2>1, <2>2, <2>7
    <3>2. Stands(service[x], ledger, t, next)
      BY <2>4, <2>5, <2>6, <3>1, StandsNext
    <3>3. Settled(x)'
      BY <2>2, <2>4, <3>1 DEF Settled
    <3> QED BY <1>6, <1>9, <2>2, <2>3, <3>2, <3>3
  <2>8. CASE next # start
    <3>1. next \in Held(log[x]) /\ next > 0
      BY <1>2, <2>2, <2>8, LogBasics DEF Held, Indices
    <3>2. Along(ledger, log[x], t)
      BY DEF Matching, Fits
    <3>3. log[x].lastIncludedPublicIndex = Counted(ledger, t, start)
      BY <1>1 DEF Served
    <3>4. /\ realToPublicIndex(log[x], next) = Counted(ledger, t, next)
          /\ At(log[x], next) = ledger[t][next]
      BY <1>2, <3>1, <3>2, <3>3, PublicIsCounted DEF Along
    <3>5. CASE At(log[x], next).cmd = NoOp
      <4>1. Stands(service[x], ledger, t, next)
        BY <2>4, <2>5, <2>6, <3>4, <3>5, StandsNext
      <4>2. Settled(x)'
        BY <2>2, <2>4, <3>5 DEF Settled
      <4> QED BY <1>6, <1>9, <2>2, <2>3, <4>1, <4>2
    <3>6. CASE At(log[x], next).cmd # NoOp
      <4>1. PICK b : b = [index |-> realToPublicIndex(log[x], next),
                          cmd |-> At(log[x], next).cmd]
        OBVIOUS
      <4>2. /\ outbox'[x] = b /\ b.index = Counted(ledger, t, next)
            /\ b.cmd = ledger[t][next].cmd /\ ledger[t][next].cmd # NoOp
        BY <2>2, <3>4, <3>6, <4>1
      <4>3. b \in [index : Nat, cmd : Command] /\ b # Nil
        <5>1. Counted(ledger, t, next) \in Nat
          BY CountedBasics
        <5>2. At(log[x], next).cmd \in Command
          <6>1. At(log[x], next) \in Entry
            BY <1>2, <2>2, LogBasics
          <6> QED BY <3>6, <6>1 DEF Entry
        <5>3. b \in [index : Nat, cmd : Command]
          BY <3>4, <4>1, <5>1, <5>2
        <5> QED BY <5>3, NilAssumption
      <4>4. Stands(Receives(service[x], b), ledger, t, next)
        BY <2>4, <2>5, <2>6, <3>1, <4>2, <4>3, StandsNext
      <4>5. /\ ~Settled(x)' /\ ~applying'[x] /\ outbox'[x] = b /\ installing'[x] = {}
            /\ Len(service'[x].cmds) = service'[x].index
            /\ Stands(Receives(service'[x], outbox'[x]), ledger', u, lastApplied'[x])
        BY <1>6, <2>2, <2>4, <4>2, <4>3, <4>4 DEF Settled
      <4> QED BY <2>3, <4>5 DEF Delivers
    <3> QED BY <3>5, <3>6
  <2> QED BY <2>7, <2>8
<1>16. CASE StartsAsBefore(x) /\ ReceiveCommand(x)
  <2>1. /\ UNCHANGED <<lastApplied, persisted, installing, applying>> /\ outbox[x] # Nil
        /\ outbox'[x] = Nil /\ service'[x] = Receives(service[x], outbox[x])
    BY <1>16 DEF ReceiveCommand, ServiceUnchanged, TypeOK, Receives
  <2>2. Settled(x)'
    BY <1>6, <2>1 DEF Settled
  <2>3. /\ Stands(service'[x], ledger, t, lastApplied[x])
        /\ Len(service'[x].cmds) = service'[x].index
    BY <1>6, <2>1 DEF Stands
  <2>4. Stands(service'[x], ledger', u, lastApplied'[x])
    BY <1>5, <2>1, <2>3
  <2> QED BY <1>7, <1>9, <1>16, <2>1, <2>2, <2>3, <2>4
<1>17. CASE StartsAsBefore(x) /\ ReceiveSnapshot(x)
  <2>1. PICK y \in installing[x] : /\ service' = [service EXCEPT ![x] = y.data]
                                   /\ installing' = [installing EXCEPT ![x] = @ \ {y}]
                                   /\ UNCHANGED <<outbox, persisted>> /\ ServiceUnchanged
    BY <1>17 DEF ReceiveSnapshot
  <2>2. /\ service'[x] = y.data /\ installing'[x] = installing[x] \ {y}
        /\ UNCHANGED <<lastApplied, persisted, outbox>>
    BY <2>1 DEF ServiceUnchanged, TypeOK
  <2>3. Settled(x)'
    BY <1>6, <2>2 DEF Settled
  <2>4. /\ Stands(service'[x], ledger, t, lastApplied[x])
        /\ Len(service'[x].cmds) = service'[x].index
    BY <1>6, <2>2 DEF Stands
  <2>5. Stands(service'[x], ledger', u, lastApplied'[x])
    BY <1>5, <2>2, <2>4
  <2> QED BY <1>7, <1>9, <1>17, <2>2, <2>3, <2>4, <2>5
<1>18. ASSUME StartsAsBefore(x), NEW m \in msgs, m.to = x, AppendEntries(m), AcceptEntries(m)
       PROVE  Delivers(x)'
  <2>1. UNCHANGED <<lastApplied, applying, outbox, installing, service>>
    BY <1>18 DEF AcceptEntries, EntriesUnchanged, applyVars
  <2>2. persisted'[x].snapshot = persisted[x].snapshot
    BY <1>18, SnapshotsSaved DEF AcceptEntries
  <2> QED BY <1>6, <1>8, <1>18, <2>1, <2>2
<1> QED BY ApplyMoves, <1>10, <1>11, <1>12, <1>13, <1>14, <1>15, <1>16, <1>17, <1>18

\* A snapshot on its way stands for the entries of its leader.
LEMMA ShipsStep ==
  ASSUME TypeOK, TypeOK', Matching, Matching', Advances, Serving, [Next]_vars, NEW m \in msgs'
  PROVE  Ships(m)'
<1>1. Ledger(ledger) /\ GrowsTo(ledger, ledger')
  BY DEF Advances, LedgerGrows
<1>2. ASSUME NEW t \in DOMAIN ledger, NEW k \in Int, k <= Len(ledger[t]),
             NEW x, Stands(x, ledger, t, k)
      PROVE  Stands(x, ledger', t, k)
  <2>1. Len(ledger[t]) \in Nat
    BY <1>1, LedgerBasics
  <2>2. \A i \in 1 .. k : ledger[t][i] = ledger'[t][i]
    BY <1>1, <1>2, <2>1 DEF GrowsTo
  <2> QED BY <1>2, <2>2, StandsSame
<1>3. CASE m \in msgs
  <2>1. Ships(m) /\ RequestFits(m)
    BY <1>3 DEF Serving, Matching
  <2>2. CASE m.type = "InstallSnapshot"
    <3>1. m \in SnapshotRequest
      BY <1>3, <2>2, RequestTypes DEF TypeOK
    <3>2. m.lastIncludedIndex \in Int
      BY <3>1 DEF SnapshotRequest
    <3>3. m.term \in DOMAIN ledger /\ m.lastIncludedIndex <= Len(ledger[m.term])
      BY <2>1, <2>2 DEF RequestFits, SnapshotFits
    <3>4. Stands(m.data, ledger, m.term, m.lastIncludedIndex)
      BY <2>1, <2>2 DEF Ships
    <3>5. Stands(m.data, ledger', m.term, m.lastIncludedIndex)
      BY <1>2, <3>2, <3>3, <3>4
    <3> QED BY <3>5 DEF Ships
  <2> QED BY <2>2 DEF Ships
<1>4. CASE m \notin msgs
  <2>1. PICK s \in Server : \E i \in Others(s) :
          SendRequest(s, i) \/ SendSnapshot(s, i) \/ SendEntries(s, i)
    BY <1>4, MessageChanges
  <2>2. PICK i \in Others(s) : SendRequest(s, i) \/ SendSnapshot(s, i) \/ SendEntries(s, i)
    BY <2>1
  <2>3. CASE SendRequest(s, i) \/ SendEntries(s, i)
    BY <1>4, <2>3 DEF SendRequest, SendEntries, Sending, Ships
  <2>4. CASE SendSnapshot(s, i)
    <3>1. PICK T : T = currentTerm[s]
      OBVIOUS
    <3>2. PICK k : k = log[s].lastIncludedIndex
      OBVIOUS
    <3>3. /\ m.term = T /\ m.lastIncludedIndex = k
          /\ m.data = persisted[s].snapshot /\ state[s] = "Leader"
      BY <1>4, <2>4, <3>1, <3>2 DEF SendSnapshot, Sending
    <3>4. /\ T \in DOMAIN ledger /\ lastLogTerm(log[s]) = T
          /\ lastLogIndex(log[s]) = Len(ledger[T]) /\ log[s] \in Log
      BY <3>1, <3>3, LeaderHas
    <3>5. k \in Int /\ k <= Len(ledger[T])
      BY <3>2, <3>4, LogBasics
    <3>6. Stands(m.data, ledger, T, k)
      BY <3>2, <3>3, <3>4 DEF Serving, Delivers
    <3>7. Stands(m.data, ledger', T, k)
      BY <1>2, <3>4, <3>5, <3>6
    <3> QED BY <3>3, <3>7 DEF Ships
  <2> QED BY <2>2, <2>3, <2>4
<1> QED BY <1>3, <1>4

(***************************************************************************)
(* The theorem.                                                            *)
(***************************************************************************)
\* Nothing has been received at first.
LEMMA ServingInit == Init => Serving
<1> SUFFICES ASSUME Init PROVE Serving
  OBVIOUS
<1>1. /\ msgs = {}
      /\ \A s \in Server :
           /\ log[s] = EmptyLog /\ lastApplied[s] = -1 /\ ~applying[s] /\ outbox[s] = Nil
           /\ installing[s] = {} /\ service[s] = NoSnapshot
           /\ persisted[s].snapshot = NoSnapshot
  BY DEF Init
<1>2. ASSUME NEW k \in Int, k <= 0, NEW t PROVE Stands(NoSnapshot, ledger, t, k)
  <2>1. Counted(ledger, t, k) = 0
    BY <1>2, CountedBasics
  <2>2. Len(<<>>) = 0
    OBVIOUS
  <2> QED BY <2>1, <2>2 DEF Stands, NoSnapshot
<1>3. EmptyLog.lastIncludedIndex = 0
  BY DEF EmptyLog
<1>4. ASSUME NEW s \in Server PROVE Delivers(s)
  <2>1. PICK t : t = lastLogTerm(log[s])
    OBVIOUS
  <2>2. Stands(NoSnapshot, ledger, t, 0) /\ Stands(NoSnapshot, ledger, t, -1)
    BY <1>2
  <2>3. Len(NoSnapshot.cmds) = NoSnapshot.index
    BY <2>2 DEF Stands
  <2> QED BY <1>1, <1>3, <2>1, <2>2, <2>3 DEF Delivers
<1> QED BY <1>1, <1>4 DEF Serving

\* Services that have been given as much have received the same.
LEMMA ServicesMeet ==
  ASSUME TypeOK, Matching, VotesAccounted(Nat), Committing, Serving
  PROVE  ServicesAgree
<1> SUFFICES ASSUME NEW s \in Server, NEW t \in Server, Settled(s), Settled(t),
                    lastApplied[s] <= lastApplied[t]
             PROVE  /\ Prefix(service[s].cmds, service[t].cmds)
                    /\ lastApplied[s] = lastApplied[t] => service[s] = service[t]
  BY DEF ServicesAgree
<1>1. PICK k \in Int : k = lastApplied[s]
  BY DEF TypeOK
<1>2. PICK l \in Int : l = lastApplied[t]
  BY DEF TypeOK
<1>3. PICK v : v = lastLogTerm(log[s])
  OBVIOUS
<1>4. PICK u : u = lastLogTerm(log[t])
  OBVIOUS
<1>5. /\ Stands(service[s], ledger, v, k) /\ Stands(service[t], ledger, u, l)
      /\ service[s] \in Snap /\ service[t] \in Snap
  BY <1>1, <1>2, <1>3, <1>4 DEF Serving, Delivers, TypeOK
<1>6. \A i \in 1 .. k : ledger[v][i] = ledger[u][i]
  <2>1. CASE k > 0
    <3>1. /\ Covered(s, commitIndex[s]) /\ k <= commitIndex[s] /\ commitIndex[s] \in Int
          /\ Covered(t, commitIndex[t]) /\ k <= commitIndex[t] /\ commitIndex[t] \in Int
      BY <1>1, <1>2 DEF Committing, Applying, TypeOK
    <3>2. Covered(s, k) /\ Covered(t, k)
      BY <3>1, CoveredLess
    <3>3. Agree(ledger, v, u, k)
      BY <1>3, <1>4, <2>1, <3>2, CoveredAgree
    <3> QED BY <3>3 DEF Agree
  <2> QED BY <2>1
<1>7. Stands(service[s], ledger, u, k)
  BY <1>5, <1>6, StandsSame
<1> QED BY <1>1, <1>2, <1>5, <1>7, StandsPrefix

\* The snapshot on disk is the one its log continues.
LEMMA SnapshotsFit ==
  ASSUME TypeOK, PersistedIsCurrent, Matching, Committing, Serving
  PROVE  SnapshotFitsLog
<1> SUFFICES ASSUME NEW s \in Server
             PROVE  /\ persisted[s].snapshot.index = persisted[s].log.lastIncludedPublicIndex
                    /\ persisted[s].snapshot.index = Len(persisted[s].snapshot.cmds)
                    /\ termAt(log[s], log[s].lastIncludedIndex)
                         = At(log[s], log[s].lastIncludedIndex).term
  BY DEF SnapshotFitsLog
<1>1. /\ persisted[s].snapshot.index = log[s].lastIncludedPublicIndex
      /\ persisted[s].log = log[s]
  BY DEF Committing, Served, PersistedIsCurrent
<1>2. persisted[s].snapshot.index = Len(persisted[s].snapshot.cmds)
  BY DEF Serving, Delivers, Stands
<1>3. Along(ledger, log[s], lastLogTerm(log[s]))
  BY DEF Matching, Fits
<1> QED BY <1>1, <1>2, <1>3 DEF Along, termAt

\* A service receives every command once and in order (AppliedInOrder); services that have
\* been given as much have received the same, as commands or in a snapshot (ServicesAgree);
\* the snapshot on disk is complete and is the one its log continues (SnapshotFitsLog).
\* Besides what CommittedStays assumes, nothing overtakes a message between unlocking and
\* its send on applyCh, and no snapshot comes that is older than what was applied.
THEOREM ServicesKeepUp ==
  ASSUME NeverTorn, "election" \notin Preemptible, "apply" \notin Preemptible,
         "deliver" \notin Preemptible
  PROVE  Spec /\ []NotRolledBack
         => [](AppliedInOrder /\ ServicesAgree /\ SnapshotFitsLog /\ Serving)
<1>1. Init => Serving
  BY ServingInit
<1>2. /\ TypeOK /\ TypeOK' /\ PersistedIsCurrent /\ Matching /\ Matching'
      /\ ElectionSafety /\ ElectionSafety' /\ VotesAccounted(Nat) /\ VotesAccounted(Nat)'
      /\ Voting /\ Acknowledged /\ Committing /\ Committing' /\ NotRolledBack'
      /\ Serving /\ [Next]_vars
      => Serving'
  <2> SUFFICES ASSUME TypeOK, TypeOK', PersistedIsCurrent, Matching, Matching', ElectionSafety',
                      VotesAccounted(Nat), VotesAccounted(Nat)', Voting, Acknowledged,
                      Committing, Committing', NotRolledBack', Serving, [Next]_vars
               PROVE  Serving'
    OBVIOUS
  <2>1. Advances
    BY StepAcknowledges
  <2>2. \A s \in Server : Delivers(s)'
    BY <2>1, DeliversStep
  <2>3. \A m \in msgs' : Ships(m)'
    BY <2>1, ShipsStep
  <2> QED BY <2>2, <2>3 DEF Serving
<1>3. TypeOK /\ PersistedIsCurrent /\ Matching /\ VotesAccounted(Nat) /\ Committing /\ Serving
      => AppliedInOrder /\ ServicesAgree /\ SnapshotFitsLog
  <2>1. ASSUME Serving PROVE AppliedInOrder
    BY <2>1 DEF AppliedInOrder, Serving, Delivers
  <2> QED BY <2>1, ServicesMeet, SnapshotsFit
<1> QED BY <1>1, <1>2, <1>3, TypeCorrect, PersistenceCorrect, OneLeaderPerTerm, LogsAlwaysMatch,
           WhatIsChosenStays, CommittedStays, PTL DEF Spec

(***************************************************************************)
(* One log for all services.  What is agreed on is what the leader with    *)
(* the furthest chosen entry has up to it, its no-ops left out.  With it,  *)
(* Raft implements ServiceLog.                                             *)
(***************************************************************************)
\* An entry that is chosen, and none beyond it is.
Furthest(T, n) ==
  /\ Chosen(T, n)
  /\ \A U \in DOMAIN ledger : \A m \in 1 .. Len(ledger[U]) : Chosen(U, m) => m <= n

SomeChosen == \E T \in DOMAIN ledger : \E n \in 1 .. Len(ledger[T]) : Chosen(T, n)

\* x stands for all that is chosen.
IsAgreed(x) ==
  IF SomeChosen
    THEN \E T \in DOMAIN ledger : \E n \in 1 .. Len(ledger[T]) :
           Furthest(T, n) /\ Stands(x, ledger, T, n)
    ELSE x = NoSnapshot

Agreed == (CHOOSE x \in Snap : IsAgreed(x)).cmds

\* A service or a snapshot that stands for what comes before some point of the log.
Reached(x) == x \in Snap /\ Len(x.cmds) = x.index /\ Prefix(x.cmds, Agreed)

\* What stands for entries before one that is chosen is on the log of commands.
Reaches ==
  \A T \in DOMAIN ledger : \A n \in 1 .. Len(ledger[T]) : \A k \in Int : \A x \in Snap :
    Chosen(T, n) /\ k <= n /\ Stands(x, ledger, T, k) => Reached(x)

OneLog ==
  /\ \E x \in Snap : IsAgreed(x) /\ Agreed = x.cmds
  /\ Reaches
  /\ \A s \in Server :
       /\ Reached(persisted[s].snapshot)
       /\ Settled(s) => Reached(service[s])
       /\ \A x \in installing[s] : x.data = persisted[s].snapshot

\* The snapshots on the disks, and with them what ServiceLog says of this system.
savedSnapshots == [s \in Server |-> persisted[s].snapshot]

ServiceView == INSTANCE ServiceLog WITH agreed <- Agreed, saved <- savedSnapshots

\* As many commands as are counted can be put in their order.
LEMMA EveryCountIsTaken ==
  ASSUME NEW g, NEW t, NEW k \in Int, NEW p \in 1 .. Counted(g, t, k)
  PROVE  \E j \in Commands(g, t, k) : Counted(g, t, j) = p
<1> DEFINE S == Commands(g, t, k)
           N == Cardinality(S)
           f == [j \in S |-> Counted(g, t, j)]
<1>1. IsFiniteSet(S) /\ N \in Nat /\ N = Counted(g, t, k)
  BY CountedBasics DEF Counted
<1>2. \A j \in S : j \in Int /\ j > 0 /\ j <= k /\ g[t][j].cmd # NoOp
  BY DEF Commands
<1>3. ASSUME NEW j \in S PROVE Counted(g, t, j) \in 1 .. N
  <2>1. j \in Int /\ j > 0 /\ j <= k /\ g[t][j].cmd # NoOp
    BY <1>2
  <2>2. Counted(g, t, j) <= Counted(g, t, k)
    BY <2>1, CountedBasics
  <2>3. 0 \in Int /\ 0 < j
    BY <2>1
  <2>4. Counted(g, t, 0) < Counted(g, t, j) /\ Counted(g, t, 0) = 0
    BY <2>1, <2>3, CountedBasics
  <2>5. Counted(g, t, j) \in Nat
    BY <2>1, CountedBasics
  <2> QED BY <1>1, <2>2, <2>4, <2>5
<1>4. f \in [S -> 1 .. N]
  BY <1>3
<1>5. ASSUME NEW i \in S, NEW j \in S, f[i] = f[j] PROVE i = j
  BY <1>5, CountedOnce
<1> HIDE DEF f, S, N
<1>6. f \in Injection(S, 1 .. N)
  BY <1>4, <1>5 DEF Injection, IsInjective
<1>7. IsFiniteSet(1 .. N) /\ Cardinality(1 .. N) = N
  BY <1>1, FS_Interval
<1>8. f \in Surjection(S, 1 .. N)
  BY <1>6, <1>7, FS_Injection DEF N
<1>9. p \in 1 .. N
  BY <1>1
<1>10. PICK j \in S : f[j] = p
  BY <1>8, <1>9 DEF Surjection
<1> QED BY <1>10 DEF f, S

\* So for every prefix of what a leader has there is what stands for it.
LEMMA StandsExists ==
  ASSUME NEW g, NEW t, NEW k \in Int, \A j \in 1 .. k : g[t][j] \in Entry
  PROVE  \E x \in Snap : Stands(x, g, t, k)
<1> DEFINE N == Counted(g, t, k)
           place(p) == CHOOSE j \in Commands(g, t, k) : Counted(g, t, j) = p
           c == [p \in 1 .. N |-> g[t][place(p)].cmd]
           x == [index |-> N, cmds |-> c]
<1>1. N \in Nat
  BY CountedBasics
<1>2. \A p \in 1 .. N : place(p) \in Commands(g, t, k) /\ Counted(g, t, place(p)) = p
  BY EveryCountIsTaken
<1>3. \A p \in 1 .. N : c[p] = g[t][place(p)].cmd
  OBVIOUS
<1>4. \A j \in Commands(g, t, k) : g[t][j].cmd \in Command
  <2>1. \A j \in Commands(g, t, k) : j \in 1 .. k /\ g[t][j].cmd # NoOp
    BY DEF Commands
  <2> QED BY <2>1 DEF Entry
<1> HIDE DEF place
<1>5. c \in Seq(Command) /\ Len(c) = N
  BY <1>1, <1>2, <1>4
<1>6. x \in Snap
  BY <1>1, <1>5 DEF Snap
<1>7. Stands(x, g, t, k)
  BY <1>2, <1>3, <1>5 DEF Stands
<1> QED BY <1>6, <1>7

\* Leaders with chosen entries agree up to the lesser one.
LEMMA ChosenAgree ==
  ASSUME TypeOK, Matching, VotesAccounted(Nat), NEW T, NEW n, Chosen(T, n),
         NEW U, NEW m, Chosen(U, m), NEW k \in Nat, k <= n, k <= m
  PROVE  Agree(ledger, T, U, k)
<1>1. Ledger(ledger)
  BY DEF Matching, LedgerOK
<1>2. /\ T \in DOMAIN ledger /\ U \in DOMAIN ledger /\ T \in Nat /\ U \in Nat
      /\ n \in Nat /\ m \in Nat /\ k \in 0 .. n /\ k \in 0 .. m
  BY <1>1, ChosenInLedger
<1>3. CASE T <= U
  <2>1. Agree(ledger, U, T, n)
    BY <1>2, <1>3, ChosenHolds
  <2>2. Agree(ledger, U, T, k)
    BY <1>1, <1>2, <2>1, Agreements
  <2> QED BY <1>1, <1>2, <2>2, Agreements
<1>4. CASE U <= T
  <2>1. Agree(ledger, T, U, m)
    BY <1>2, <1>4, ChosenHolds
  <2> QED BY <1>1, <1>2, <2>1, Agreements
<1> QED BY <1>2, <1>3, <1>4

\* What is chosen has an end: its terms are no later than the latest of a server, and
\* the leader of the last of them has everything.
LEMMA FurthestExists ==
  ASSUME TypeOK, Matching, VotesAccounted(Nat), SomeChosen
  PROVE  \E T \in DOMAIN ledger : \E n \in 1 .. Len(ledger[T]) : Furthest(T, n)
<1> DEFINE now == {currentTerm[i] : i \in Server}
           Terms == {T \in DOMAIN ledger : \E n \in 1 .. Len(ledger[T]) : Chosen(T, n)}
<1>1. Ledger(ledger) /\ Terms # {} /\ DOMAIN ledger \subseteq Nat
  BY DEF Matching, LedgerOK, SomeChosen, Ledger
<1>2. ASSUME NEW T, NEW n, Chosen(T, n)
      PROVE  \E i \in Server : T <= currentTerm[i]
  <2>1. PICK Q : Q = {i \in Server : Backs(i, T, n)} /\ Majority(Q)
    BY <1>2 DEF Chosen
  <2>2. Q # {}
    <3>1. Cardinality({}) = 0 /\ Cardinality(Server) \in Nat
      BY ServerAssumption, FS_EmptySet, FS_CardinalityType
    <3> QED BY <2>1, <3>1 DEF Majority
  <2>3. PICK i \in Server : Backs(i, T, n)
    BY <2>1, <2>2
  <2> QED BY <2>3 DEF Backs
<1>3. /\ IsFiniteSet(now) /\ now \in SUBSET Int /\ now # {}
  <2>1. now \in SUBSET Int
    BY DEF TypeOK
  <2>2. IsFiniteSet(now)
    <3> DEFINE f == [i \in Server |-> currentTerm[i]]
    <3>1. f \in Surjection(Server, now)
      BY DEF Surjection
    <3> QED BY <3>1, ServerAssumption, FS_Surjection
  <2>3. Server # {}
    BY <1>2 DEF SomeChosen
  <2> QED BY <2>1, <2>2, <2>3
<1>4. PICK last \in Int : \A i \in Server : currentTerm[i] <= last
  <2>1. Max(now) \in now /\ \A y \in now : Max(now) >= y
    BY <1>3, MaxOfFinite
  <2>2. PICK last : last = Max(now)
    OBVIOUS
  <2>3. last \in Int /\ \A i \in Server : currentTerm[i] <= last
    BY <1>3, <2>1, <2>2
  <2> QED BY <2>3
<1>5. Terms \subseteq 0 .. last
  <2> SUFFICES ASSUME NEW T \in Terms PROVE T \in 0 .. last
    OBVIOUS
  <2>1. T \in Nat
    BY <1>1
  <2>2. PICK i \in Server : T <= currentTerm[i]
    BY <1>2
  <2>3. currentTerm[i] \in Nat
    BY DEF TypeOK
  <2> QED BY <1>4, <2>1, <2>2, <2>3
<1>6. PICK U \in Terms : \A T \in Terms : T <= U
  <2>1. 0 \in Int /\ last \in Int /\ Terms \subseteq 0 .. last /\ Terms # {}
    BY <1>1, <1>4, <1>5
  <2> HIDE DEF Terms
  <2>2. Max(Terms) \in Terms \cap Int /\ \A y \in Terms : Max(Terms) >= y
    BY <2>1, IntervalSubset
  <2>3. PICK U : U = Max(Terms)
    OBVIOUS
  <2>4. Terms \subseteq Int
    BY <2>1
  <2>5. U \in Terms /\ \A T \in Terms : T <= U
    BY <2>2, <2>3, <2>4
  <2> QED BY <2>5
<1> DEFINE Ends == {n \in 1 .. Len(ledger[U]) : \E T \in Terms : Chosen(T, n)}
<1>7. Len(ledger[U]) \in Int /\ Ends \subseteq 1 .. Len(ledger[U])
  BY <1>1, LedgerBasics
<1>8. ASSUME NEW T \in Terms, NEW n \in 1 .. Len(ledger[T]), Chosen(T, n)
      PROVE  n \in Ends /\ Agree(ledger, U, T, n)
  <2>1. T <= U
    BY <1>6
  <2>2. Agree(ledger, U, T, n)
    BY <1>8, <2>1, ChosenHolds
  <2>3. n <= Len(ledger[U])
    BY <2>2 DEF Agree
  <2> QED BY <1>7, <1>8, <2>2, <2>3
<1>9. Ends # {}
  <2>1. PICK n \in 1 .. Len(ledger[U]) : Chosen(U, n)
    OBVIOUS
  <2> QED BY <1>8, <2>1
<1>10. PICK n \in Ends : \A m \in Ends : m <= n
  <2>1. 1 \in Int /\ Ends # {}
    BY <1>9
  <2> HIDE DEF Ends
  <2>2. Max(Ends) \in Ends \cap Int /\ \A y \in Ends : Max(Ends) >= y
    BY <1>7, <2>1, IntervalSubset
  <2>3. PICK n : n = Max(Ends)
    OBVIOUS
  <2>4. Ends \subseteq Int
    BY <1>7
  <2>5. n \in Ends /\ \A m \in Ends : m <= n
    BY <2>2, <2>3, <2>4
  <2> QED BY <2>5
<1>11. PICK T \in Terms : Chosen(T, n)
  OBVIOUS
<1>12. n \in 1 .. Len(ledger[T])
  BY <1>1, <1>11, ChosenInLedger
<1>13. ASSUME NEW V \in DOMAIN ledger, NEW m \in 1 .. Len(ledger[V]), Chosen(V, m)
       PROVE  m <= n
  <2>1. V \in Terms
    BY <1>13
  <2>2. m \in Ends
    BY <1>8, <1>13, <2>1
  <2> QED BY <1>10, <2>2
<1>14. Furthest(T, n)
  BY <1>11, <1>13 DEF Furthest
<1> QED BY <1>12, <1>14

\* The log of what is agreed on exists, and it is long enough.
LEMMA AgreedReaches ==
  ASSUME TypeOK, Matching, VotesAccounted(Nat)
  PROVE  (\E x \in Snap : IsAgreed(x) /\ Agreed = x.cmds) /\ Reaches
<1>1. Ledger(ledger)
  BY DEF Matching, LedgerOK
<1>2. \E x \in Snap : IsAgreed(x)
  <2>1. CASE SomeChosen
    <3>1. PICK T \in DOMAIN ledger : \E n \in 1 .. Len(ledger[T]) : Furthest(T, n)
      BY <2>1, FurthestExists
    <3>2. PICK n \in 1 .. Len(ledger[T]) : Furthest(T, n)
      BY <3>1
    <3>3. n \in Int /\ \A j \in 1 .. n : ledger[T][j] \in Entry
      BY <1>1, LedgerBasics
    <3>4. PICK x \in Snap : Stands(x, ledger, T, n)
      BY <3>3, StandsExists
    <3> QED BY <2>1, <3>2, <3>4 DEF IsAgreed
  <2>2. CASE ~SomeChosen
    <3>1. NoSnapshot \in Snap
      BY DEF NoSnapshot, Snap
    <3> QED BY <2>2, <3>1 DEF IsAgreed
  <2> QED BY <2>1, <2>2
<1>3. PICK a : a = CHOOSE x \in Snap : IsAgreed(x)
  OBVIOUS
<1>4. a \in Snap /\ IsAgreed(a) /\ Agreed = a.cmds
  BY <1>2, <1>3 DEF Agreed
<1>5. ASSUME NEW T \in DOMAIN ledger, NEW n \in 1 .. Len(ledger[T]), NEW k \in Int,
             NEW x \in Snap, Chosen(T, n), k <= n, Stands(x, ledger, T, k)
      PROVE  Reached(x)
  <2>1. PICK U \in DOMAIN ledger : \E m \in 1 .. Len(ledger[U]) :
          Furthest(U, m) /\ Stands(a, ledger, U, m)
    BY <1>4, <1>5 DEF IsAgreed, SomeChosen
  <2>2. PICK m \in 1 .. Len(ledger[U]) : Furthest(U, m) /\ Stands(a, ledger, U, m)
    BY <2>1
  <2>3. n <= m /\ Chosen(U, m) /\ m \in Int
    BY <1>5, <2>2 DEF Furthest
  <2>4. k <= m
    BY <1>5, <2>3
  <2>5. \A i \in 1 .. k : ledger[T][i] = ledger[U][i]
    <3>1. CASE k > 0
      <4>1. k \in Nat
        BY <3>1
      <4>2. Agree(ledger, T, U, k)
        BY <1>5, <2>3, <2>4, <4>1, ChosenAgree
      <4> QED BY <4>2 DEF Agree
    <3> QED BY <3>1
  <2>6. Stands(x, ledger, U, k)
    BY <1>5, <2>5, StandsSame
  <2>7. Prefix(x.cmds, a.cmds)
    BY <1>4, <2>2, <2>3, <2>4, <2>6, StandsPrefix
  <2>8. Len(x.cmds) = x.index
    BY <1>5 DEF Stands
  <2> QED BY <1>4, <2>7, <2>8 DEF Reached
<1> QED BY <1>4, <1>5 DEF Reaches

\* What is sent on applyCh and what is on the disks is on the log.
LEMMA AllOnOneLog ==
  ASSUME TypeOK, Matching, VotesAccounted(Nat), Committing, Serving, NotRolledBack
  PROVE  OneLog
<1>1. (\E x \in Snap : IsAgreed(x) /\ Agreed = x.cmds) /\ Reaches /\ Ledger(ledger)
  BY AgreedReaches DEF Matching, LedgerOK
<1>2. ASSUME NEW x \in Snap, x.index = 0, Len(x.cmds) = 0 PROVE Reached(x)
  <2>1. PICK a \in Seq(Command) : Agreed = a
    BY <1>1 DEF Snap
  <2>2. x.cmds \in Seq(Command) /\ x.cmds = <<>>
    BY <1>2 DEF Snap
  <2>3. SubSeq(a, 1, 0) = <<>> /\ Len(a) >= 0
    OBVIOUS
  <2> QED BY <1>2, <2>1, <2>2, <2>3 DEF Reached, Prefix
<1>3. ASSUME NEW s \in Server, NEW k \in Int, k <= commitIndex[s], NEW x \in Snap,
             Stands(x, ledger, lastLogTerm(log[s]), k)
      PROVE  Reached(x)
  <2>1. commitIndex[s] \in Int /\ Covered(s, commitIndex[s])
    BY DEF TypeOK, Committing, Applying
  <2>2. Covered(s, k)
    BY <1>3, <2>1, CoveredLess
  <2>3. CASE k > 0
    <3>1. PICK T \in DOMAIN ledger : \E n \in 1 .. Len(ledger[T]) :
            Chosen(T, n) /\ k <= n /\ Has(ledger, log[s], T, k)
      BY <2>2, <2>3 DEF Covered
    <3>2. PICK n \in 1 .. Len(ledger[T]) : Chosen(T, n) /\ k <= n /\ Has(ledger, log[s], T, k)
      BY <3>1
    <3>3. \A i \in 1 .. k : ledger[lastLogTerm(log[s])][i] = ledger[T][i]
      BY <3>2 DEF Has, Agree
    <3>4. Stands(x, ledger, T, k)
      BY <1>3, <3>3, StandsSame
    <3> QED BY <1>1, <3>2, <3>4 DEF Reaches
  <2>4. CASE k <= 0
    <3>1. x.index = 0 /\ Len(x.cmds) = 0
      BY <1>3, <2>4, CountedBasics DEF Stands
    <3> QED BY <1>2, <3>1
  <2> QED BY <2>3, <2>4
<1>4. ASSUME NEW s \in Server
      PROVE  /\ Reached(persisted[s].snapshot)
             /\ Settled(s) => Reached(service[s])
             /\ \A x \in installing[s] : x.data = persisted[s].snapshot
  <2> DEFINE t == lastLogTerm(log[s])
             start == log[s].lastIncludedIndex
  <2>1. /\ start \in Int /\ start >= 0 /\ lastApplied[s] \in Int /\ commitIndex[s] \in Int
        /\ service[s] \in Snap /\ persisted[s].snapshot \in Snap
        /\ \A x \in installing[s] : x.data \in Snap
    <3>1. log[s] \in Log
      BY DEF TypeOK
    <3> QED BY <3>1, LogBasics DEF TypeOK
  <2>2. /\ lastApplied[s] <= commitIndex[s] /\ Covered(s, commitIndex[s])
        /\ start > 0 => start <= lastApplied[s]
    BY DEF Committing, Applying
  <2>3. /\ Stands(persisted[s].snapshot, ledger, t, start)
        /\ Settled(s) => Stands(service[s], ledger, t, lastApplied[s])
        /\ \A x \in installing[s] : Stands(x.data, ledger, t, lastApplied[s])
    BY DEF Serving, Delivers
  <2>4. Reached(persisted[s].snapshot)
    <3>1. CASE start > 0
      BY <1>3, <2>1, <2>2, <2>3, <3>1
    <3>2. CASE start = 0
      <4>1. Stands(persisted[s].snapshot, ledger, t, 0)
        BY <2>3, <3>2
      <4>2. persisted[s].snapshot.index = 0 /\ Len(persisted[s].snapshot.cmds) = 0
        BY <4>1, CountedBasics DEF Stands
      <4> QED BY <1>2, <2>1, <4>2
    <3> QED BY <2>1, <3>1, <3>2
  <2>5. Settled(s) => Reached(service[s])
    BY <1>3, <2>1, <2>2, <2>3
  <2>6. ASSUME NEW x \in installing[s] PROVE x.data = persisted[s].snapshot
    <3>1. lastApplied[s] <= start
      BY DEF NotRolledBack
    <3>2. CASE start > 0
      <4>1. lastApplied[s] = start
        BY <2>1, <2>2, <3>1, <3>2
      <4>2. Stands(x.data, ledger, t, start)
        BY <2>3, <4>1
      <4> QED BY <2>1, <2>3, <4>2, StandsPrefix
    <3>3. CASE start = 0
      <4>1. Counted(ledger, t, lastApplied[s]) = 0 /\ Counted(ledger, t, 0) = 0
        BY <2>1, <3>1, <3>3, CountedBasics
      <4>2. Stands(x.data, ledger, t, lastApplied[s]) /\ Stands(persisted[s].snapshot, ledger, t, 0)
        BY <2>3, <3>3
      <4>3. Stands(x.data, ledger, t, 0)
        <5>1. Commands(ledger, t, lastApplied[s]) = {} /\ Commands(ledger, t, 0) = {}
          BY <2>1, <3>1, <3>3 DEF Commands
        <5> QED BY <4>1, <4>2, <5>1 DEF Stands
      <4> QED BY <2>1, <4>2, <4>3, StandsPrefix
    <3> QED BY <2>1, <3>2, <3>3
  <2> QED BY <2>4, <2>5, <2>6
<1> QED BY <1>1, <1>4 DEF OneLog

\* A snapshot that starts a sequence is one of its prefixes.
LEMMA PrefixIs ==
  ASSUME NEW a \in Seq(Command), NEW x \in Snap, Len(x.cmds) = x.index, Prefix(x.cmds, a)
  PROVE  /\ x.index \in 0 .. Len(a)
         /\ x = [index |-> x.index, cmds |-> SubSeq(a, 1, x.index)]
         /\ \A p \in 1 .. x.index : a[p] = x.cmds[p]
<1>1. /\ x = [index |-> x.index, cmds |-> x.cmds] /\ x.index \in Nat /\ Len(a) \in Nat
      /\ x.cmds \in Seq(Command)
  BY DEF Snap
<1>2. x.index <= Len(a) /\ SubSeq(a, 1, x.index) = x.cmds
  BY DEF Prefix
<1>3. \A p \in 1 .. x.index : SubSeq(a, 1, x.index)[p] = a[p]
  BY <1>1, <1>2
<1> QED BY <1>1, <1>2, <1>3

\* What is agreed on only grows.
LEMMA AgreedGrows ==
  ASSUME TypeOK, TypeOK', Matching, Matching', Advances, OneLog, OneLog'
  PROVE  Agreed \in Seq(Command) /\ Agreed' \in Seq(Command) /\ Prefix(Agreed, Agreed')
<1>1. PICK x \in Snap : IsAgreed(x) /\ Agreed = x.cmds
  BY DEF OneLog
<1>2. Agreed \in Seq(Command) /\ Agreed' \in Seq(Command)
  BY DEF OneLog, Snap
<1>3. CASE SomeChosen
  <2>1. PICK T \in DOMAIN ledger : \E n \in 1 .. Len(ledger[T]) :
          Furthest(T, n) /\ Stands(x, ledger, T, n)
    BY <1>1, <1>3 DEF IsAgreed
  <2>2. PICK n \in 1 .. Len(ledger[T]) : Furthest(T, n) /\ Stands(x, ledger, T, n)
    BY <2>1
  <2>3. Chosen(T, n)'
    BY <2>2, ChosenStays DEF Furthest
  <2>4. T \in DOMAIN ledger' /\ n \in 1 .. Len(ledger'[T])
    BY <2>3 DEF Chosen, Own
  <2>5. n \in Int /\ \A i \in 1 .. n : ledger[T][i] = ledger'[T][i]
    <3>1. GrowsTo(ledger, ledger') /\ Len(ledger[T]) \in Nat
      BY LedgerBasics DEF Advances, LedgerGrows
    <3> QED BY <3>1 DEF GrowsTo
  <2>6. Stands(x, ledger', T, n)
    BY <2>2, <2>5, StandsSame
  <2>7. Reached(x)'
    BY <2>3, <2>4, <2>5, <2>6 DEF OneLog, Reaches
  <2> QED BY <1>1, <1>2, <2>7 DEF Reached
<1>4. CASE ~SomeChosen
  <2>1. Agreed = <<>>
    BY <1>1, <1>4 DEF IsAgreed, NoSnapshot
  <2>2. PICK a \in Seq(Command) : Agreed' = a
    BY <1>2
  <2>3. SubSeq(a, 1, 0) = <<>> /\ Len(a) >= 0 /\ Len(<<>>) = 0
    OBVIOUS
  <2> QED BY <1>2, <2>1, <2>2, <2>3 DEF Prefix
<1> QED BY <1>3, <1>4

\* The service of x and the snapshot on its disk are as before.
Untouched(x) == service'[x] = service[x] /\ persisted'[x].snapshot = persisted[x].snapshot

\* In a step one server at most has its service or its snapshot changed.
LEMMA OneServerServed ==
  ASSUME TypeOK, PersistedIsCurrent, NeverTorn, [Next]_vars
  PROVE  \/ \A x \in Server : Untouched(x)
         \/ \E s \in Server : \A x \in Server \ {s} : Untouched(x)
<1>1. CASE UNCHANGED vars
  BY <1>1 DEF vars, applyVars, Untouched
<1>2. ASSUME NEW s \in Server, ServerStep(s)
      PROVE  \A x \in Server \ {s} : Untouched(x)
  <2>1. CASE \/ StartElection(s) \/ TallyVotes(s) \/ BecomeLeader(s) \/ InitLeader(s)
             \/ \E c \in Command : Start(s, c)
    <3>1. /\ UNCHANGED <<commitIndex, lastApplied, applyVars>>
          /\ persist(s) \/ UNCHANGED persisted
      BY <2>1, Zenon DEF StartElection, TallyVotes, BecomeLeader, InitLeader, Start
    <3> QED BY <3>1, EveryoneIdles DEF Idles, Untouched
  <2>2. CASE Restart(s)
    <3>1. /\ service' = [service EXCEPT ![s] = persisted[s].snapshot]
          /\ persisted' = [persisted EXCEPT ![s] = persisted[s]]
      BY <2>2 DEF Restart, Boot
    <3> QED BY <3>1 DEF Untouched, TypeOK
  <2>3. CASE CheckCommit(s) \/ ApplyCheck(s) \/ ApplyNext(s)
    <3>1. service' = service /\ (persist(s) \/ UNCHANGED persisted)
      BY <2>3 DEF CheckCommit, ApplyCheck, ApplyNext, applyVars
    <3> QED BY <3>1, SnapshotsSaved DEF Untouched
  <2>4. CASE ReceiveCommand(s) \/ ReceiveSnapshot(s)
    <3>1. UNCHANGED persisted /\ \E N : service' = [service EXCEPT ![s] = N]
      BY <2>4, Zenon DEF ReceiveCommand, ReceiveSnapshot
    <3> QED BY <3>1 DEF Untouched, TypeOK
  <2>5. CASE Snapshot(s)
    <3>1. service' = service /\ persistWithSnapshot(s, service[s])
      BY <2>5 DEF Snapshot
    <3> QED BY <3>1 DEF persistWithSnapshot, Untouched, TypeOK
  <2> QED BY <1>2, <2>1, <2>2, <2>3, <2>4, <2>5 DEF ServerStep
<1>3. ASSUME NEW s \in Server, NEW i \in Others(s), PeerStep(s, i)
      PROVE  \A x \in Server : Untouched(x)
  BY <1>3, PeerIdles DEF Idles, Untouched
<1>4. ASSUME NEW m \in msgs, Receive(m)
      PROVE  m.to \in Server /\ \A x \in Server \ {m.to} : Untouched(x)
  <2>1. ~TornAppendEntries(m)
    BY TornTerms DEF Untorn
  <2>2. \A x \in Server \ {m.to} : Idles(x)
    BY <1>4, <2>1, RequestApplies
  <2> QED BY <2>2, RequestTypes DEF Idles, Untouched, TypeOK
<1> QED BY <1>1, <1>2, <1>3, <1>4 DEF Next

\* What the service and the disk of one server go through.
LEMMA ServiceMoves ==
  ASSUME TypeOK, TypeOK', PersistedIsCurrent, Matching, Matching', VotesAccounted(Nat), Advances,
         Committing, Committing', Serving, Serving', OneLog, OneLog', NeverTorn,
         "apply" \notin Preemptible, "deliver" \notin Preemptible, [Next]_vars,
         NEW s \in Server
  PROVE  \/ Untouched(s)
         \/ service'[s] = persisted[s].snapshot /\ persisted'[s].snapshot = persisted[s].snapshot
         \/ /\ persisted'[s].snapshot = persisted[s].snapshot
            /\ Reached(service[s])'
            /\ \E c : service'[s] = [index |-> service[s].index + 1,
                                     cmds  |-> Append(service[s].cmds, c)]
         \/ /\ service'[s] = service[s]
            /\ persisted[s].snapshot.index <= persisted'[s].snapshot.index
<1> DEFINE t == lastLogTerm(log[s])
           start == log[s].lastIncludedIndex
<1>1. /\ Applying(s) /\ Served(s) /\ Delivers(s) /\ Delivers(s)'
      /\ \A m \in msgs : Carries(m)
  BY DEF Committing, Serving
<1>2. /\ log[s] \in Log /\ service[s] \in Snap /\ service'[s] \in Snap
      /\ persisted[s].snapshot.index = Counted(ledger, t, start)
      /\ start \in Nat
  <2>1. log[s] \in Log
    BY DEF TypeOK
  <2> QED BY <1>1, <2>1, LogBasics DEF TypeOK, Served
<1>3. CASE Snapshot(s)
  <2>1. PICK real : real = publicToRealIndex(log[s], service[s].index)
    OBVIOUS
  <2>2. real \in Int /\ service[s].index = Counted(ledger, t, real)
    BY <1>1, <1>3, <2>1, SnapshotApplied
  <2>3. start <= real
    BY <1>2, <1>3, <2>1, <2>2 DEF Snapshot
  <2>4. persisted[s].snapshot.index <= service[s].index
    BY <1>2, <2>2, <2>3, CountedBasics
  <2>5. service' = service /\ persisted'[s].snapshot = service[s]
    BY <1>3 DEF Snapshot, persistWithSnapshot, TypeOK
  <2> QED BY <2>4, <2>5
<1>4. CASE Installs(s)
  <2>1. PICK m \in msgs : m.to = s /\ InstallSnapshot(m) /\ InstallNewSnapshot(m)
    BY <1>4 DEF Installs
  <2>2. PICK k \in Nat : k = m.lastIncludedIndex /\ k > start
    BY <2>1, InstallStart DEF SnapshotRequest
  <2>3. log'[s].lastIncludedIndex = k /\ ledger' = ledger
    BY <2>1, <2>2, InstallStart, InstallTakes DEF Advances
  <2>4. service' = service
    BY <2>1 DEF InstallSnapshot
  <2>5. persisted'[s].snapshot.index = Counted(ledger', lastLogTerm(log'[s]), k)
    BY <2>3 DEF Committing, Served
  <2>6. Counted(ledger', lastLogTerm(log'[s]), start) = Counted(ledger, t, start)
    <3>1. start <= commitIndex[s] \/ start = 0
      BY <1>1, <1>2 DEF Applying, TypeOK
    <3>2. CASE start = 0
      BY <3>2, CountedBasics
    <3>3. CASE start <= commitIndex[s]
      BY <1>1, <1>2, <3>3, CommitStays DEF Applying
    <3> QED BY <3>1, <3>2, <3>3
  <2>7. persisted[s].snapshot.index <= persisted'[s].snapshot.index
    BY <1>2, <2>2, <2>5, <2>6, CountedBasics
  <2> QED BY <2>4, <2>7
<1>5. CASE Idles(s) \/ Boots(s)
  BY <1>5 DEF Idles, Boots, Untouched
<1>6. CASE CheckCommit(s) \/ ApplyCheck(s) \/ ApplyNext(s)
  <2>1. service' = service /\ (persist(s) \/ UNCHANGED persisted)
    BY <1>6 DEF CheckCommit, ApplyCheck, ApplyNext, applyVars
  <2> QED BY <2>1, SnapshotsSaved DEF Untouched
<1>7. CASE ReceiveCommand(s)
  <2>1. /\ UNCHANGED <<persisted, installing>> /\ outbox[s] # Nil /\ outbox'[s] = Nil
        /\ service'[s] = [index |-> outbox[s].index,
                          cmds  |-> Append(service[s].cmds, outbox[s].cmd)]
    BY <1>7 DEF ReceiveCommand, TypeOK
  <2>2. Settled(s)'
    BY <1>1, <2>1 DEF Delivers, Settled
  <2>3. Reached(service[s])'
    BY <2>2 DEF OneLog
  <2>4. outbox[s].index = service[s].index + 1
    <3>1. Len(Append(service[s].cmds, outbox[s].cmd)) = outbox[s].index
      BY <2>1, <2>3 DEF Reached
    <3>2. Len(service[s].cmds) = service[s].index /\ service[s].cmds \in Seq(Command)
      BY <1>1, <1>2 DEF Delivers, Snap
    <3> QED BY <3>1, <3>2
  <2>5. service'[s] = [index |-> service[s].index + 1,
                       cmds |-> Append(service[s].cmds, outbox[s].cmd)]
    BY <2>1, <2>4
  <2> QED BY <2>1, <2>3, <2>5
<1>8. CASE ReceiveSnapshot(s)
  <2>1. UNCHANGED persisted /\ \E x \in installing[s] : service'[s] = x.data
    BY <1>8 DEF ReceiveSnapshot, TypeOK
  <2> QED BY <2>1 DEF OneLog
<1>9. ASSUME NEW m \in msgs, m.to = s, AppendEntries(m), AcceptEntries(m)
      PROVE  Untouched(s)
  <2>1. service' = service /\ persist(s)
    BY <1>9 DEF AcceptEntries, EntriesUnchanged, applyVars
  <2> QED BY <2>1, SnapshotsSaved DEF Untouched
<1> QED BY ApplyMoves, <1>3, <1>4, <1>5, <1>6, <1>7, <1>8, <1>9

\* The log of commands that is agreed on, the services and the snapshots on the disks do
\* what ServiceLog says.
LEMMA ServicesFollow ==
  ASSUME TypeOK, TypeOK', PersistedIsCurrent, Matching, Matching', VotesAccounted(Nat), Advances,
         Committing, Committing', Serving, Serving', OneLog, OneLog', NeverTorn,
         "apply" \notin Preemptible, "deliver" \notin Preemptible, [Next]_vars
  PROVE  ServiceView!Next
<1>1. Agreed \in Seq(Command) /\ Agreed' \in Seq(Command) /\ Prefix(Agreed, Agreed')
  BY AgreedGrows
<1>2. ServiceView!Grows
  BY <1>1 DEF ServiceView!Grows, Prefix
<1>3. /\ service \in [Server -> Snap] /\ service' \in [Server -> Snap]
      /\ savedSnapshots \in [Server -> Snap] /\ savedSnapshots' \in [Server -> Snap]
      /\ \A x \in Server : /\ savedSnapshots[x] = persisted[x].snapshot
                           /\ savedSnapshots'[x] = persisted'[x].snapshot
  BY DEF savedSnapshots, TypeOK
<1>4. CASE \A x \in Server : Untouched(x)
  <2>1. service' = service /\ savedSnapshots' = savedSnapshots
    BY <1>3, <1>4 DEF Untouched
  <2> QED BY <1>2, <2>1 DEF ServiceView!Next
<1>5. ASSUME NEW s \in Server, \A x \in Server \ {s} : Untouched(x), ~Untouched(s)
      PROVE  ServiceView!Hears(s) \/ ServiceView!Saves(s) \/ ServiceView!Loads(s)
  <2>1. /\ service' = [service EXCEPT ![s] = service'[s]]
        /\ savedSnapshots' = [savedSnapshots EXCEPT ![s] = savedSnapshots'[s]]
    BY <1>3, <1>5 DEF Untouched
  <2>2. CASE service'[s] = persisted[s].snapshot /\ persisted'[s].snapshot = persisted[s].snapshot
    <3>1. service' = [service EXCEPT ![s] = savedSnapshots[s]]
      BY <1>3, <2>1, <2>2
    <3>2. savedSnapshots' = savedSnapshots
      BY <1>3, <2>1, <2>2
    <3> QED BY <3>1, <3>2 DEF ServiceView!Loads
  <2>3. CASE /\ persisted'[s].snapshot = persisted[s].snapshot
             /\ Reached(service[s])'
             /\ \E c : service'[s] = [index |-> service[s].index + 1,
                                      cmds  |-> Append(service[s].cmds, c)]
    <3>1. PICK c : service'[s] = [index |-> service[s].index + 1,
                                  cmds  |-> Append(service[s].cmds, c)]
      BY <2>3
    <3>2. PICK next \in Nat : next = service[s].index + 1
      BY <1>3 DEF Snap
    <3>3. service'[s].index = next /\ service'[s].cmds = Append(service[s].cmds, c)
      BY <3>1, <3>2
    <3>4. PICK y \in Snap : y = service'[s] /\ Len(y.cmds) = y.index /\ Prefix(y.cmds, Agreed')
      BY <1>3, <2>3 DEF Reached
    <3>5. next \in 1 .. Len(Agreed') /\ Agreed'[next] = y.cmds[next]
      <4>1. next \in 1 .. y.index
        BY <3>2, <3>3, <3>4, <1>3 DEF Snap
      <4> QED BY <1>1, <3>3, <3>4, <4>1, PrefixIs
    <3>6. y.cmds[next] = c
      <4>1. service[s].cmds \in Seq(Command) /\ y.cmds = Append(service[s].cmds, c)
        BY <1>3, <3>3, <3>4 DEF Snap
      <4>2. Len(y.cmds) = Len(service[s].cmds) + 1 /\ y.cmds[Len(service[s].cmds) + 1] = c
        BY <4>1
      <4> QED BY <3>3, <3>4, <4>2
    <3>7. service' = [service EXCEPT ![s] = [index |-> next,
                                             cmds |-> Append(@.cmds, Agreed'[next])]]
      BY <1>3, <2>1, <3>1, <3>2, <3>5, <3>6
    <3>8. savedSnapshots' = savedSnapshots
      BY <1>3, <2>1, <2>3
    <3>9. next <= Len(Agreed')
      BY <1>1, <3>5
    <3> QED BY <3>2, <3>7, <3>8, <3>9 DEF ServiceView!Hears
  <2>4. CASE /\ service'[s] = service[s]
             /\ persisted[s].snapshot.index <= persisted'[s].snapshot.index
    <3>1. PICK y \in Snap : y = savedSnapshots'[s] /\ Len(y.cmds) = y.index
                            /\ Prefix(y.cmds, Agreed')
      <4>1. Reached(persisted[s].snapshot)'
        BY DEF OneLog
      <4> QED BY <1>3, <4>1 DEF Reached
    <3>2. PICK n : n = y.index
      OBVIOUS
    <3>3. n \in 0 .. Len(Agreed') /\ y = [index |-> n, cmds |-> SubSeq(Agreed', 1, n)]
      BY <1>1, <3>1, <3>2, PrefixIs
    <3>4. n \in savedSnapshots[s].index .. Len(Agreed')
      <4>1. savedSnapshots[s].index \in Nat /\ savedSnapshots[s].index <= n
        BY <1>3, <2>4, <3>1, <3>2 DEF Snap
      <4> QED BY <3>3, <4>1
    <3>5. savedSnapshots' = [savedSnapshots EXCEPT ![s] = [index |-> n,
                                                           cmds |-> SubSeq(Agreed', 1, n)]]
      BY <2>1, <3>1, <3>3
    <3>6. service' = service
      BY <1>3, <2>1, <2>4
    <3> QED BY <3>4, <3>5, <3>6 DEF ServiceView!Saves
  <2> QED BY <1>5, <2>2, <2>3, <2>4, ServiceMoves
<1> QED BY <1>2, <1>4, <1>5, OneServerServed DEF ServiceView!Next

\* Nothing is agreed on at first.
LEMMA ServicesBegin ==
  ASSUME Init, OneLog
  PROVE  ServiceView!Init
<1>1. PICK x \in Snap : IsAgreed(x) /\ Agreed = x.cmds
  BY DEF OneLog
<1>2. ~SomeChosen
  <2>1. DOMAIN ledger = {0} /\ ledger[0] = <<>>
    BY DEF Init
  <2>2. Len(<<>>) = 0
    OBVIOUS
  <2> QED BY <2>1, <2>2 DEF SomeChosen
<1>3. Agreed = <<>>
  BY <1>1, <1>2 DEF IsAgreed, NoSnapshot
<1>4. /\ service = [s \in Server |-> NoSnapshot]
      /\ savedSnapshots = [s \in Server |-> NoSnapshot]
  BY DEF Init, savedSnapshots
<1> QED BY <1>3, <1>4 DEF ServiceView!Init, ServiceView!Nothing, NoSnapshot

\* Raft implements ServiceLog: there is one log of commands, it only grows, each service
\* receives it command by command, and loads nothing but the snapshot on its disk, which
\* is a beginning of the log and is never replaced by a shorter one.  The assumptions are
\* those of ServicesKeepUp.
THEOREM ServicesSeeOneLog ==
  ASSUME NeverTorn, "election" \notin Preemptible, "apply" \notin Preemptible,
         "deliver" \notin Preemptible
  PROVE  Spec /\ []NotRolledBack => ServiceView!Spec
<1>1. /\ TypeOK /\ Matching /\ VotesAccounted(Nat) /\ Committing /\ Serving /\ NotRolledBack
      => OneLog
  BY AllOnOneLog
<1>2. Init /\ OneLog => ServiceView!Init
  BY ServicesBegin
<1>3. /\ TypeOK /\ TypeOK' /\ PersistedIsCurrent /\ Matching /\ Matching'
      /\ ElectionSafety /\ ElectionSafety' /\ VotesAccounted(Nat) /\ VotesAccounted(Nat)'
      /\ Voting /\ Acknowledged /\ Committing /\ Committing' /\ Serving /\ Serving'
      /\ OneLog /\ OneLog' /\ [Next]_vars
      => [ServiceView!Next]_(ServiceView!vars)
  <2> SUFFICES ASSUME TypeOK, TypeOK', PersistedIsCurrent, Matching, Matching', ElectionSafety',
                      VotesAccounted(Nat), VotesAccounted(Nat)', Voting, Acknowledged,
                      Committing, Committing', Serving, Serving', OneLog, OneLog', [Next]_vars
               PROVE  ServiceView!Next
    OBVIOUS
  <2>1. Advances
    BY StepAcknowledges
  <2> QED BY <2>1, ServicesFollow
<1> QED BY <1>1, <1>2, <1>3, TypeCorrect, PersistenceCorrect, OneLeaderPerTerm, LogsAlwaysMatch,
           WhatIsChosenStays, CommittedStays, ServicesKeepUp, PTL DEF Spec, ServiceView!Spec
=============================================================================
