---------------------------- MODULE GatewayProofs ----------------------------
(***************************************************************************)
(* Proofs about the gateway.  First of its pool alone: for every list of   *)
(* accounts, every concurrency and every number of attempts it loses no    *)
(* account and reports the true cause.  Then of the plan around it: for    *)
(* every set of valid scenarios, every rejection Horizon may answer and    *)
(* any number of retries and failing requests, the ledger follows the      *)
(* scenario and the report follows the ledger.                             *)
(***************************************************************************)
EXTENDS GatewayRun, SequenceTheorems, TLAPS

-----------------------------------------------------------------------------
(* The queue and the holders of accounts.                                  *)

\* Taking the head of a queue without repetitions removes exactly that account.
LEMMA TailOfQueue ==
  ASSUME NEW S, NEW q \in Seq(S), IsInjective(q), q # <<>>
  PROVE  /\ Tail(q) \in Seq(S) /\ IsInjective(Tail(q))
         /\ Head(q) \in S
         /\ ToSet(q) = ToSet(Tail(q)) \cup {Head(q)}
         /\ Head(q) \notin ToSet(Tail(q))
<1>1. /\ Tail(q) \in Seq(S) /\ Len(Tail(q)) = Len(q) - 1 /\ Len(q) \in Nat \ {0}
      /\ \A i \in 1..Len(Tail(q)) : Tail(q)[i] = q[i + 1]
      /\ Head(q) = q[1] /\ Head(q) \in S
  BY HeadTailProperties, LenProperties, ElementOfSeq, EmptySeq
<1>2. DOMAIN q = 1..Len(q) /\ DOMAIN Tail(q) = 1..(Len(q) - 1)
  BY <1>1, LenProperties
<1>3. IsInjective(Tail(q))
  <2> SUFFICES ASSUME NEW i \in DOMAIN Tail(q), NEW j \in DOMAIN Tail(q), Tail(q)[i] = Tail(q)[j]
               PROVE  i = j
    BY DEF IsInjective
  <2>1. i + 1 \in DOMAIN q /\ j + 1 \in DOMAIN q /\ q[i + 1] = q[j + 1]
    BY <1>1, <1>2
  <2>2. i + 1 = j + 1
    BY <2>1 DEF IsInjective
  <2>3. QED
    BY <2>2, <1>2
<1>4. ToSet(q) = ToSet(Tail(q)) \cup {Head(q)}
  <2>1. ASSUME NEW x \in ToSet(q) PROVE x \in ToSet(Tail(q)) \cup {Head(q)}
    <3>1. PICK i \in DOMAIN q : x = q[i]
      BY <2>1 DEF ToSet
    <3>2. CASE i = 1
      BY <3>1, <3>2, <1>1
    <3>3. CASE i # 1
      <4>1. i - 1 \in DOMAIN Tail(q) /\ Tail(q)[i - 1] = q[i]
        BY <3>1, <3>3, <1>1, <1>2
      <4>2. QED
        BY <4>1, <3>1 DEF ToSet
    <3>4. QED
      BY <3>2, <3>3
  <2>2. ASSUME NEW x \in ToSet(Tail(q)) PROVE x \in ToSet(q)
    <3>1. PICK i \in DOMAIN Tail(q) : x = Tail(q)[i]
      BY <2>2 DEF ToSet
    <3>2. i + 1 \in DOMAIN q /\ x = q[i + 1]
      BY <3>1, <1>1, <1>2
    <3>3. QED
      BY <3>2 DEF ToSet
  <2>3. Head(q) \in ToSet(q)
    BY <1>1, <1>2 DEF ToSet
  <2>4. QED
    BY <2>1, <2>2, <2>3
<1>5. Head(q) \notin ToSet(Tail(q))
  <2> SUFFICES ASSUME NEW i \in DOMAIN Tail(q), Tail(q)[i] = Head(q) PROVE FALSE
    BY DEF ToSet
  <2>1. i + 1 \in DOMAIN q /\ 1 \in DOMAIN q /\ q[i + 1] = q[1]
    BY <1>1, <1>2
  <2>2. i + 1 = 1
    BY <2>1 DEF IsInjective
  <2>3. QED
    BY <2>2, <1>2
<1>6. QED
  BY <1>1, <1>3, <1>4, <1>5

\* Who holds an account.
LEMMA HeldBy ==
  /\ \A a : a \in Held <=> \E w \in Workers : Busy(w) /\ worker[w].account = a
  /\ \A a : a \in Held' <=> \E w \in Workers : Busy(w)' /\ worker'[w].account = a
BY DEF Held, Busy

\* The pool has a worker unless there is no account.
LEMMA SomeWorker == Workers = {} => Names = {}
<1> SUFFICES ASSUME Workers = {} PROVE Names = {}
  OBVIOUS
<1>1. Len(Accounts) \in Nat /\ DOMAIN Accounts = 1..Len(Accounts)
  BY AccountsAssumption, LenProperties
<1>2. Len(Accounts) = 0
  <2>1. CASE Concurrency < Len(Accounts)
    <3>1. 1 \in Workers
      BY <2>1, LimitsAssumption DEF Workers
    <3>2. QED
      BY <3>1
  <2>2. CASE ~(Concurrency < Len(Accounts))
    <3>1. Workers = 1..Len(Accounts)
      BY <2>2 DEF Workers
    <3>2. QED
      BY <3>1, <1>1
  <2>3. QED
    BY <2>1, <2>2
<1>3. QED
  BY <1>1, <1>2 DEF Names, ToSet

-----------------------------------------------------------------------------
(* How the actions of a worker change who holds what.                      *)

Replaced(w, record) == worker' = [worker EXCEPT ![w] = record]

\* A worker that takes an account adds it to the accounts held.
LEMMA HeldTake ==
  ASSUME PoolInv, NEW w \in Workers, ~Busy(w), NEW a, NEW n,
         Replaced(w, [doing |-> "fetching", account |-> a, attempt |-> n])
  PROVE  Held' = Held \cup {a}
<1>1. worker'[w].account = a /\ Busy(w)'
  BY DEF PoolInv, WorkersOK, Replaced, Busy
<1>2. \A v \in Workers \ {w} : worker'[v] = worker[v]
  BY DEF PoolInv, WorkersOK, Replaced
<1>3. QED
  BY <1>1, <1>2, HeldBy DEF Busy

\* A worker that is done with an account takes it out of them.
LEMMA HeldDrop ==
  ASSUME PoolInv, NEW w \in Workers, Busy(w), NEW record, record.doing \in {"resting", "gone"},
         Replaced(w, record)
  PROVE  Held' = Held \ {worker[w].account}
<1>1. ~Busy(w)'
  BY DEF PoolInv, WorkersOK, Replaced, Busy
<1>2. \A v \in Workers \ {w} : worker'[v] = worker[v] /\ (Busy(v) <=> Busy(v)')
  BY DEF PoolInv, WorkersOK, Replaced, Busy
<1>3. \A v \in Workers \ {w} : Busy(v) => worker[v].account # worker[w].account
  BY DEF PoolInv, WorkersOK
<1>4. QED
  BY <1>1, <1>2, <1>3, HeldBy

\* Every other change of a worker leaves them as they are.
LEMMA HeldKeep ==
  ASSUME PoolInv, NEW w \in Workers, NEW record, Replaced(w, record),
         \/ ~Busy(w) /\ record.doing \in {"resting", "gone"}
         \/ Busy(w) /\ record.doing \in {"fetching", "sleeping"} /\ record.account = worker[w].account
  PROVE  Held' = Held
<1>1. ASSUME NEW v \in Workers
      PROVE  /\ Busy(v) <=> Busy(v)'
             /\ Busy(v) => worker'[v].account = worker[v].account
  BY DEF PoolInv, WorkersOK, Replaced, Busy
<1>2. ASSUME NEW a PROVE a \in Held' <=> a \in Held
  <2>1. a \in Held <=> \E v \in Workers : Busy(v) /\ worker[v].account = a
    BY HeldBy
  <2>2. a \in Held' <=> \E v \in Workers : Busy(v)' /\ worker'[v].account = a
    BY HeldBy
  <2>3. QED
    BY <1>1, <2>1, <2>2
<1>3. QED
  BY <1>2

\* A worker takes an account nobody holds.
LEMMA WorkersTake ==
  ASSUME PoolInv, NEW w \in Workers, ~Busy(w), NEW a \in Names \ Held,
         Replaced(w, [doing |-> "fetching", account |-> a, attempt |-> 1])
  PROVE  WorkersOK'
<1>1. worker'[w] = [doing |-> "fetching", account |-> a, attempt |-> 1] /\ Busy(w)'
  BY DEF PoolInv, WorkersOK, Replaced, Busy
<1>2. \A v \in Workers \ {w} : worker'[v] = worker[v] /\ (Busy(v) <=> Busy(v)')
  BY DEF PoolInv, WorkersOK, Replaced, Busy
<1>3. \A v \in Workers : Busy(v) => worker[v].account # a
  BY HeldBy
<1>4. worker' \in [Workers -> [doing : {"resting", "fetching", "sleeping", "gone"},
                             account : Names \cup {"none"}, attempt : Nat]]
  BY <1>1 DEF PoolInv, WorkersOK, Replaced
<1>5. ASSUME NEW v \in Workers
      PROVE  IF Busy(v)' THEN worker'[v].account \in Names ELSE worker'[v].account = "none"
  BY <1>1, <1>2 DEF PoolInv, WorkersOK
<1>6. ASSUME NEW u \in Workers, NEW v \in Workers, u # v, Busy(u)', Busy(v)'
      PROVE  worker'[u].account # worker'[v].account
  BY <1>1, <1>2, <1>3, <1>6 DEF PoolInv, WorkersOK
<1>7. QED
  BY <1>4, <1>5, <1>6 DEF WorkersOK

\* A worker keeps its account, or lets go of it.
LEMMA WorkersKeep ==
  ASSUME PoolInv, NEW w \in Workers, NEW record, Replaced(w, record),
         record \in [doing : {"resting", "fetching", "sleeping", "gone"},
                     account : Names \cup {"none"}, attempt : Nat],
         IF record.doing \in {"resting", "gone"} THEN record.account = "none"
         ELSE Busy(w) /\ record.account = worker[w].account
  PROVE  WorkersOK'
<1>1. worker'[w] = record
  BY DEF PoolInv, WorkersOK, Replaced
<1>2. \A v \in Workers \ {w} : worker'[v] = worker[v] /\ (Busy(v) <=> Busy(v)')
  BY DEF PoolInv, WorkersOK, Replaced, Busy
<1>3. worker' \in [Workers -> [doing : {"resting", "fetching", "sleeping", "gone"},
                             account : Names \cup {"none"}, attempt : Nat]]
  BY DEF PoolInv, WorkersOK, Replaced
<1>4. Busy(w)' => Busy(w) /\ worker'[w].account = worker[w].account
  BY <1>1 DEF Busy
<1>5. ~Busy(w)' => worker'[w].account = "none"
  BY <1>1 DEF Busy
<1>6. ASSUME NEW v \in Workers
      PROVE  IF Busy(v)' THEN worker'[v].account \in Names ELSE worker'[v].account = "none"
  BY <1>2, <1>4, <1>5 DEF PoolInv, WorkersOK
<1>7. ASSUME NEW u \in Workers, NEW v \in Workers, u # v, Busy(u)', Busy(v)'
      PROVE  worker'[u].account # worker'[v].account
  BY <1>2, <1>4, <1>7 DEF PoolInv, WorkersOK
<1>8. QED
  BY <1>3, <1>6, <1>7 DEF WorkersOK

\* Two workers share an account only if it is none.
LEMMA AccountsDistinct ==
  /\ WorkersOK => \A v, w \in Workers : v # w /\ worker[v].account = worker[w].account => worker[v].account = "none"
  /\ WorkersOK' => \A v, w \in Workers : v # w /\ worker'[v].account = worker'[w].account => worker'[v].account = "none"
BY DEF WorkersOK

-----------------------------------------------------------------------------
(* The invariant.                                                          *)

LEMMA PoolInit == Init => PoolInv
<1> SUFFICES ASSUME Init PROVE PoolInv
  OBVIOUS
<1>1. \A w \in Workers : ~Busy(w) /\ worker[w] = Resting
  BY DEF Init, Busy, Resting
<1>2. Held = {}
  BY <1>1, HeldBy
<1>3. queue \in Seq(Names) /\ IsInjective(queue) /\ ToSet(queue) = Names
  BY AccountsAssumption DEF Init, Names
<1>4. FailureLosesAnAccount
  BY DEF Init, FailureLosesAnAccount, Errors
<1>5. QED
  BY <1>1, <1>2, <1>3, <1>4 DEF Init, PoolInv, WorkersOK, EveryAccountAccountedFor, SuccessMeansAllFunded, CauseIsReported, Resting, Busy, Stopped

\* No account comes from elsewhere.
LEMMA NamesOnly == PoolInv => ToSet(queue) \cup Held \cup funded \subseteq Names
<1> SUFFICES ASSUME PoolInv PROVE ToSet(queue) \cup Held \cup funded \subseteq Names
  OBVIOUS
<1>1. Held \subseteq Names
  BY HeldBy DEF PoolInv, WorkersOK
<1>2. ToSet(queue) \subseteq Names
  <2>1. queue \in Seq(Names) /\ DOMAIN queue = 1..Len(queue)
    BY LenProperties DEF PoolInv
  <2>2. \A i \in DOMAIN queue : queue[i] \in Names
    BY <2>1, ElementOfSeq
  <2>3. QED
    BY <2>2 DEF ToSet
<1>3. QED
  BY <1>1, <1>2 DEF PoolInv

\* Friendbot funds the account a worker holds.
LEMMA FundsStep ==
  ASSUME PoolInv, NEW w \in Workers, FriendbotFunds(w)
  PROVE  PoolInv'
<1>1. Busy(w) /\ worker[w].account \in Names /\ worker[w].account \in Held
  BY HeldBy DEF FriendbotFunds, Busy, PoolInv, WorkersOK
<1>2. Replaced(w, Resting) /\ Resting.doing = "resting"
  BY DEF FriendbotFunds, Replaced, Resting
<1>3. WorkersOK'
  BY <1>2, WorkersKeep DEF Resting
<1>4. Held' = Held \ {worker[w].account}
  BY <1>1, <1>2, HeldDrop
<1>5. EveryAccountAccountedFor'
  BY <1>1, <1>3, <1>4, AccountsDistinct DEF FriendbotFunds, PoolInv, EveryAccountAccountedFor
<1>6. SuccessMeansAllFunded'
  BY <1>1 DEF FriendbotFunds, PoolInv, SuccessMeansAllFunded
<1>7. ASSUME NEW v \in Workers, worker'[v].doing = "gone", ~Stopped' PROVE queue' = <<>>
  BY <1>2, <1>7 DEF FriendbotFunds, PoolInv, WorkersOK, Replaced, Resting, Stopped
<1>8. FailureLosesAnAccount'
  <2>1. (ToSet(queue) \cup Held \cup funded)' = ToSet(queue) \cup Held \cup funded
    BY <1>1, <1>4 DEF FriendbotFunds
  <2>2. QED
    BY <2>1 DEF FriendbotFunds, PoolInv, FailureLosesAnAccount
<1>9. QED
  BY <1>1, <1>3, <1>5, <1>6, <1>7, <1>8 DEF FriendbotFunds, PoolInv, CauseIsReported

\* A worker that throws: its account is given up, and from then on an error is recorded.
LEMMA ThrowStep ==
  ASSUME PoolInv, NEW w \in Workers, Busy(w), NEW error \in Errors, Throw(w, error),
         error = "abort" => aborted \/ firstError # "none",
         UNCHANGED <<queue, funded, requests, aborted, result>>
  PROVE  PoolInv'
<1>1. Busy(w) /\ worker[w].account \in Names /\ worker[w].account \in Held
  BY HeldBy DEF PoolInv, WorkersOK
<1>2. /\ Replaced(w, [doing |-> "gone", account |-> "none", attempt |-> 0])
      /\ firstError' = IF firstError = "none" THEN error ELSE firstError
      /\ cancelled' = TRUE
  <2>1. [Resting EXCEPT !.doing = "gone"] = [doing |-> "gone", account |-> "none", attempt |-> 0]
    BY DEF Resting
  <2>2. QED
    BY <2>1, Zenon DEF Throw, Replaced
<1>3. WorkersOK'
  BY <1>2, WorkersKeep
<1>4. Held' = Held \ {worker[w].account}
  BY <1>1, <1>2, HeldDrop
<1>5. firstError' # "none"
  BY <1>2 DEF Errors
<1>6. EveryAccountAccountedFor'
  BY <1>3, <1>4, <1>5, AccountsDistinct DEF PoolInv, EveryAccountAccountedFor
<1>7. CauseIsReported'
  BY <1>2 DEF PoolInv, CauseIsReported
<1>8. Stopped'
  BY <1>2 DEF Stopped
<1>9. FailureLosesAnAccount'
  <2>1. worker[w].account \notin (ToSet(queue) \cup Held \cup funded)'
    BY <1>1, <1>4 DEF PoolInv, EveryAccountAccountedFor
  <2>2. QED
    BY <1>1, <1>5, <2>1 DEF FailureLosesAnAccount
<1>10. QED
  BY <1>2, <1>3, <1>5, <1>6, <1>7, <1>8, <1>9 DEF PoolInv, SuccessMeansAllFunded, Errors

\* Friendbot refuses: the worker sleeps before its next attempt, or throws.
LEMMA RefusesStep ==
  ASSUME PoolInv, NEW w \in Workers, NEW retryable \in BOOLEAN, FriendbotRefuses(w, retryable)
  PROVE  PoolInv'
<1>1. Busy(w)
  BY DEF FriendbotRefuses, Busy
<1>2. CASE retryable /\ worker[w].attempt < MaxAttempts
  <2>1. worker' = [worker EXCEPT ![w].doing = "sleeping"] /\ UNCHANGED <<queue, funded, requests, aborted, result, firstError, cancelled>>
    BY <1>2 DEF FriendbotRefuses
  <2>2. PICK record : record = [worker[w] EXCEPT !.doing = "sleeping"]
    OBVIOUS
  <2>3. Replaced(w, record)
    BY <2>1, <2>2 DEF Replaced
  <2>4. /\ record.doing = "sleeping" /\ record.account = worker[w].account
        /\ record \in [doing : {"resting", "fetching", "sleeping", "gone"},
                       account : Names \cup {"none"}, attempt : Nat]
    BY <2>2 DEF PoolInv, WorkersOK
  <2>5. WorkersOK' /\ Held' = Held
    BY <1>1, <2>3, <2>4, WorkersKeep, HeldKeep
  <2>6. EveryAccountAccountedFor'
    BY <2>1, <2>5, AccountsDistinct DEF PoolInv, EveryAccountAccountedFor
  <2>7. ASSUME NEW v \in Workers, worker'[v].doing = "gone", ~Stopped' PROVE queue' = <<>>
    BY <2>1, <2>3, <2>4, <2>7 DEF PoolInv, WorkersOK, Replaced, Stopped
  <2>8. FailureLosesAnAccount'
    BY <2>1, <2>5 DEF PoolInv, FailureLosesAnAccount
  <2>9. QED
    BY <2>1, <2>5, <2>6, <2>7, <2>8 DEF PoolInv, SuccessMeansAllFunded, CauseIsReported
<1>3. CASE ~(retryable /\ worker[w].attempt < MaxAttempts)
  <2>1. PICK error \in {"unavailable", "refused"} : Throw(w, error)
    BY <1>3 DEF FriendbotRefuses
  <2>2. error \in Errors /\ error # "abort" /\ UNCHANGED <<queue, funded, requests, aborted, result>>
    BY DEF FriendbotRefuses, Errors
  <2>3. QED
    BY <1>1, <2>1, <2>2, ThrowStep
<1>4. QED
  BY <1>2, <1>3

\* A stopped pool interrupts a worker. It is the first to throw only if the signal of the
\* run is aborted, for the pool's own controller is aborted after the first error alone.
LEMMA InterruptedStep ==
  ASSUME PoolInv, NEW w \in Workers, Interrupted(w)
  PROVE  PoolInv'
<1>1. Busy(w) /\ Throw(w, "abort") /\ UNCHANGED <<queue, funded, requests, aborted, result>>
  BY DEF Interrupted, Busy
<1>2. aborted \/ firstError # "none"
  BY DEF Interrupted, Stopped, PoolInv
<1>3. QED
  BY <1>1, <1>2, ThrowStep DEF Errors

\* The delay between two attempts ends.
LEMMA DelayStep ==
  ASSUME PoolInv, NEW w \in Workers, DelayEnds(w)
  PROVE  PoolInv'
<1>1. Busy(w) /\ UNCHANGED <<queue, funded, aborted, cancelled, firstError, result>>
  BY DEF DelayEnds, Busy
<1>2. PICK record : record = [doing |-> "fetching", account |-> worker[w].account, attempt |-> worker[w].attempt + 1]
  OBVIOUS
<1>3. Replaced(w, record)
  BY <1>2 DEF DelayEnds, Send, Replaced
<1>4. /\ record.doing = "fetching" /\ record.account = worker[w].account
      /\ record \in [doing : {"resting", "fetching", "sleeping", "gone"},
                     account : Names \cup {"none"}, attempt : Nat]
  BY <1>2 DEF PoolInv, WorkersOK
<1>5. WorkersOK' /\ Held' = Held
  BY <1>1, <1>3, <1>4, WorkersKeep, HeldKeep
<1>6. EveryAccountAccountedFor'
  BY <1>1, <1>5, AccountsDistinct DEF PoolInv, EveryAccountAccountedFor
<1>7. ASSUME NEW v \in Workers, worker'[v].doing = "gone", ~Stopped' PROVE queue' = <<>>
  BY <1>1, <1>3, <1>4, <1>7 DEF PoolInv, WorkersOK, Replaced, Stopped
<1>8. FailureLosesAnAccount'
  BY <1>1, <1>5 DEF PoolInv, FailureLosesAnAccount
<1>9. QED
  BY <1>1, <1>5, <1>6, <1>7, <1>8 DEF PoolInv, SuccessMeansAllFunded, CauseIsReported

\* A worker takes the head of the queue.
LEMMA DequeueStep ==
  ASSUME PoolInv, NEW w \in Workers, Dequeue(w)
  PROVE  PoolInv'
<1>1. ~Busy(w) /\ ~Stopped /\ queue # <<>> /\ queue' = Tail(queue)
      /\ UNCHANGED <<funded, aborted, cancelled, firstError, result>>
  BY DEF Dequeue, Busy
<1>2. PICK a : a = Head(queue)
  OBVIOUS
<1>3. Replaced(w, [doing |-> "fetching", account |-> a, attempt |-> 1])
  BY <1>2 DEF Dequeue, Send, Replaced
<1>4. /\ Tail(queue) \in Seq(Names) /\ IsInjective(Tail(queue)) /\ a \in Names
      /\ ToSet(queue) = ToSet(Tail(queue)) \cup {a} /\ a \notin ToSet(Tail(queue))
  BY <1>1, <1>2, TailOfQueue DEF PoolInv
<1>5. a \notin Held /\ a \notin funded
  BY <1>4 DEF PoolInv, EveryAccountAccountedFor
<1>6. WorkersOK' /\ Held' = Held \cup {a}
  BY <1>1, <1>3, <1>4, <1>5, WorkersTake, HeldTake
<1>7. EveryAccountAccountedFor'
  BY <1>1, <1>4, <1>5, <1>6, AccountsDistinct DEF PoolInv, EveryAccountAccountedFor
<1>8. ASSUME NEW v \in Workers, worker'[v].doing = "gone", ~Stopped' PROVE FALSE
  <2>1. v # w
    BY <1>3, <1>8 DEF PoolInv, WorkersOK, Replaced
  <2>2. worker[v].doing = "gone"
    BY <1>3, <1>8, <2>1 DEF PoolInv, WorkersOK, Replaced
  <2>3. QED
    BY <1>1, <2>2 DEF PoolInv
<1>9. FailureLosesAnAccount'
  <2>1. (ToSet(queue) \cup Held \cup funded)' = ToSet(queue) \cup Held \cup funded
    BY <1>1, <1>4, <1>6
  <2>2. QED
    BY <1>1, <2>1 DEF PoolInv, FailureLosesAnAccount
<1>10. QED
  BY <1>1, <1>4, <1>6, <1>7, <1>8, <1>9 DEF PoolInv, SuccessMeansAllFunded, CauseIsReported

\* A worker leaves a stopped pool or an empty queue.
LEMMA LeaveStep ==
  ASSUME PoolInv, NEW w \in Workers, Leave(w)
  PROVE  PoolInv'
<1>1. /\ ~Busy(w) /\ worker[w].doing = "resting" /\ (Stopped \/ queue = <<>>)
      /\ UNCHANGED <<queue, funded, aborted, cancelled, firstError, result>>
  BY DEF Leave, Busy
<1>2. PICK record : record = [worker[w] EXCEPT !.doing = "gone"]
  OBVIOUS
<1>3. Replaced(w, record)
  BY <1>2 DEF Leave, Replaced
<1>4. /\ record.doing = "gone" /\ record.account = "none"
      /\ record \in [doing : {"resting", "fetching", "sleeping", "gone"},
                     account : Names \cup {"none"}, attempt : Nat]
  BY <1>1, <1>2 DEF PoolInv, WorkersOK
<1>5. WorkersOK' /\ Held' = Held
  BY <1>1, <1>3, <1>4, WorkersKeep, HeldKeep
<1>6. EveryAccountAccountedFor'
  BY <1>1, <1>5, AccountsDistinct DEF PoolInv, EveryAccountAccountedFor
<1>7. ASSUME NEW v \in Workers, worker'[v].doing = "gone", ~Stopped' PROVE queue' = <<>>
  BY <1>1, <1>3, <1>4, <1>7 DEF PoolInv, WorkersOK, Replaced, Stopped
<1>8. FailureLosesAnAccount'
  BY <1>1, <1>5 DEF PoolInv, FailureLosesAnAccount
<1>9. QED
  BY <1>1, <1>5, <1>6, <1>7, <1>8 DEF PoolInv, SuccessMeansAllFunded, CauseIsReported

\* fundAll settles: with every worker gone nothing is held, so that without an error
\* and with an empty queue every account is funded.
LEMMA SettleStep ==
  ASSUME PoolInv, Settle
  PROVE  PoolInv'
<1>1. UNCHANGED <<queue, worker, funded, aborted, cancelled, firstError>>
  BY DEF Settle
<1>2. WorkersOK' /\ Held' = Held
  BY <1>1 DEF PoolInv, WorkersOK, Held, Busy
<1>3. EveryAccountAccountedFor'
  BY <1>1, <1>2, AccountsDistinct DEF PoolInv, EveryAccountAccountedFor
<1>4. CauseIsReported'
  BY <1>1 DEF Settle, PoolInv, CauseIsReported
<1>5. ASSUME result' = "resolved" PROVE funded = Names
  <2>1. CASE firstError # "none"
    <3>1. firstError = "resolved"
      BY <1>5, <2>1 DEF Settle
    <3>2. QED
      BY <3>1 DEF PoolInv, Errors
  <2>2. CASE firstError = "none"
    <3>1. Held = {}
      BY HeldBy DEF Settle, Busy
    <3>2. ~aborted \/ queue = <<>>
      BY <1>5, <2>2 DEF Settle
    <3>3. queue = <<>> \/ Workers = {}
      BY <2>2, <3>2 DEF Settle, PoolInv, Stopped
    <3>4. ToSet(<<>>) = {}
      BY DEF ToSet
    <3>5. QED
      BY <2>2, <3>1, <3>3, <3>4, SomeWorker DEF PoolInv, EveryAccountAccountedFor
  <2>3. QED
    BY <2>1, <2>2
<1>6. SuccessMeansAllFunded'
  BY <1>1, <1>5 DEF SuccessMeansAllFunded
<1>7. FailureLosesAnAccount'
  <2>1. result' \in Errors \ {"abort"} => firstError # "none"
    BY DEF Settle, Errors
  <2>2. QED
    BY <1>1, <1>2, <2>1 DEF PoolInv, FailureLosesAnAccount
<1>8. QED
  BY <1>1, <1>2, <1>3, <1>4, <1>6, <1>7 DEF PoolInv, Stopped

LEMMA PoolStep == PoolInv /\ [Next]_vars => PoolInv'
<1> SUFFICES ASSUME PoolInv, [Next]_vars PROVE PoolInv'
  OBVIOUS
<1>1. ASSUME NEW w \in Workers, FriendbotFunds(w) PROVE PoolInv'
  BY <1>1, FundsStep
<1>2. ASSUME NEW w \in Workers, NEW retryable \in BOOLEAN, FriendbotRefuses(w, retryable) PROVE PoolInv'
  BY <1>2, RefusesStep
<1>3. ASSUME NEW w \in Workers, DelayEnds(w) PROVE PoolInv'
  BY <1>3, DelayStep
<1>4. ASSUME NEW w \in Workers, Interrupted(w) PROVE PoolInv'
  BY <1>4, InterruptedStep
<1>5. ASSUME NEW w \in Workers, Dequeue(w) PROVE PoolInv'
  BY <1>5, DequeueStep
<1>6. ASSUME NEW w \in Workers, Leave(w) PROVE PoolInv'
  BY <1>6, LeaveStep
<1>7. CASE Settle
  BY <1>7, SettleStep
<1>8. ASSUME UNCHANGED <<queue, worker, funded, cancelled, firstError, result>>, aborted => aborted'
      PROVE  PoolInv'
  <2>1. WorkersOK' /\ Held' = Held
    BY <1>8 DEF PoolInv, WorkersOK, Held, Busy
  <2>2. EveryAccountAccountedFor'
    BY <1>8, <2>1, AccountsDistinct DEF PoolInv, EveryAccountAccountedFor
  <2>3. FailureLosesAnAccount'
    BY <1>8, <2>1 DEF PoolInv, FailureLosesAnAccount
  <2>4. QED
    BY <1>8, <2>1, <2>2, <2>3 DEF PoolInv, SuccessMeansAllFunded, CauseIsReported, Stopped
<1>9. CASE Abort
  BY <1>8, <1>9 DEF Abort
<1>10. CASE UNCHANGED vars
  BY <1>8, <1>10 DEF vars
<1>11. QED
  BY <1>1, <1>2, <1>3, <1>4, <1>5, <1>6, <1>7, <1>9, <1>10 DEF Next, Friendbot, Process

\* The pool keeps its invariant, whatever Friendbot answers and whenever the run is aborted.
THEOREM PoolInvariant == Spec => []PoolInv
<1>1. QED
  BY PoolInit, PoolStep, PTL DEF Spec

-----------------------------------------------------------------------------
(* What it gives, for every scenario and every funding concurrency.        *)

\* fundAll never loses an account between its queue and its workers, and never has it
\* in two places.
THEOREM AccountsKept == Spec => []EveryAccountAccountedFor
<1>1. PoolInv => EveryAccountAccountedFor
  BY DEF PoolInv
<1>2. QED
  BY <1>1, PoolInvariant, PTL

\* fundAll resolves only when Friendbot has funded every account of the scenario.
THEOREM SuccessCorrect == Spec => []SuccessMeansAllFunded
<1>1. PoolInv => SuccessMeansAllFunded
  BY DEF PoolInv
<1>2. QED
  BY <1>1, PoolInvariant, PTL

\* fundAll reports an abort only if the signal it was given is aborted: a sibling that a
\* failed worker has stopped never hides that worker's own error.
THEOREM CauseCorrect == Spec => []CauseIsReported
<1>1. PoolInv => CauseIsReported
  BY DEF PoolInv
<1>2. QED
  BY <1>1, PoolInvariant, PTL

\* What the funding step answers is true in every behaviour: a success means that every
\* account is funded, an abort error that somebody aborted it.
THEOREM FundingCorrect == Spec => []FundingIsTrue
<1>1. SuccessMeansAllFunded /\ CauseIsReported => FundingIsTrue
  BY DEF FundingIsTrue
<1>2. QED
  BY <1>1, SuccessCorrect, CauseCorrect, PTL

-----------------------------------------------------------------------------
(* The plan of a scenario: its funding, its initial balances, its steps,   *)
(* its assertions.                                                         *)

Funds(s) == IF s.funds THEN 1 ELSE 0
Lead(s) == Funds(s) + (IF s.initial THEN 1 ELSE 0)
Operations(s) == Lead(s) + Len(s.steps)

OperationKinds == {"required", "balance", "step"}

LEMMA ScenarioFacts ==
  ASSUME NEW s \in Scenarios
  PROVE  /\ s.funds \in BOOLEAN /\ s.initial \in BOOLEAN
         /\ s.steps \in Seq(ToSet(s.steps)) /\ Len(s.steps) \in Nat
         /\ s.assertions \in Seq(ToSet(s.assertions)) /\ Len(s.assertions) \in Nat
         /\ \A i \in 1..Len(s.steps) :
               s.steps[i] \in ToSet(s.steps) /\ s.steps[i] \notin {"fund", "initial", "none"}
         /\ \A i, j \in 1..Len(s.steps) : s.steps[i] = s.steps[j] => i = j
         /\ \A id \in ToSet(s.steps) : \E i \in 1..Len(s.steps) : s.steps[i] = id
         /\ \A i \in 1..Len(s.assertions) :
               /\ s.assertions[i] \in ToSet(s.assertions)
               /\ s.assertions[i].kind \in {"succeeded", "confirmed", "failedWith", "memo", "read"}
               /\ s.assertions[i].kind # "read" => s.assertions[i].id \in ToSet(s.steps)
               /\ s.assertions[i].kind = "failedWith" => s.assertions[i].code # Execution!NoCode
         /\ Funds(s) \in {0, 1} /\ Lead(s) \in {0, 1, 2} /\ Funds(s) <= Lead(s) /\ Operations(s) \in Nat
<1>1. /\ {s.funds, s.initial} \subseteq BOOLEAN
      /\ s.steps \in Seq(ToSet(s.steps)) /\ IsInjective(s.steps)
      /\ ToSet(s.steps) \cap {"fund", "initial", "none"} = {}
      /\ s.assertions \in Seq(ToSet(s.assertions))
      /\ \A a \in ToSet(s.assertions) :
            /\ a.kind \in {"succeeded", "confirmed", "failedWith", "memo", "read"}
            /\ a.kind # "read" => a.id \in ToSet(s.steps)
            /\ a.kind = "failedWith" => a.code # Execution!NoCode
  BY ScenariosAssumption
<1>2. /\ Len(s.steps) \in Nat /\ DOMAIN s.steps = 1..Len(s.steps)
      /\ Len(s.assertions) \in Nat /\ DOMAIN s.assertions = 1..Len(s.assertions)
  BY <1>1, LenProperties
<1>3. /\ \A i \in 1..Len(s.steps) : s.steps[i] \in ToSet(s.steps)
      /\ \A id \in ToSet(s.steps) : \E i \in 1..Len(s.steps) : s.steps[i] = id
      /\ \A i \in 1..Len(s.assertions) : s.assertions[i] \in ToSet(s.assertions)
  BY <1>2 DEF ToSet
<1>4. \A i, j \in 1..Len(s.steps) : s.steps[i] = s.steps[j] => i = j
  BY <1>1, <1>2 DEF IsInjective
<1>5. s.funds \in BOOLEAN /\ s.initial \in BOOLEAN
  BY <1>1
<1>6. Funds(s) \in {0, 1} /\ Lead(s) \in {0, 1, 2} /\ Funds(s) <= Lead(s) /\ Operations(s) \in Nat
  <2>1. Funds(s) = 0 \/ Funds(s) = 1
    BY DEF Funds
  <2>2. Lead(s) = Funds(s) + 0 \/ Lead(s) = Funds(s) + 1
    BY DEF Lead
  <2>3. QED
    BY <1>2, <2>1, <2>2 DEF Operations
<1>7. QED
  BY <1>1, <1>2, <1>3, <1>4, <1>5, <1>6

LEMMA Joined ==
  ASSUME NEW X, NEW s \in Seq(X), NEW t \in Seq(X)
  PROVE  /\ s \o t \in Seq(X) /\ Len(s \o t) = Len(s) + Len(t) /\ Len(s) \in Nat /\ Len(t) \in Nat
         /\ \A i \in 1..Len(s) : (s \o t)[i] = s[i]
         /\ \A i \in 1..Len(t) : (s \o t)[Len(s) + i] = t[i]
BY ConcatProperties, LenProperties

PlanItems(s) == {Execution!Required, Execution!Balance} \cup {Execution!Step(id) : id \in ToSet(s.steps)}
                \cup ToSet(s.assertions)

LEMMA PlanFacts ==
  ASSUME NEW s \in Scenarios
  PROVE  LET p == Execution!Plan(s)
         IN  /\ p \in Seq(PlanItems(s)) /\ Len(p) = Operations(s) + Len(s.assertions)
             /\ \A i \in 1..Funds(s) : p[i] = Execution!Required
             /\ \A i \in (Funds(s) + 1)..Lead(s) : p[i] = Execution!Balance
             /\ \A i \in 1..Len(s.steps) : p[Lead(s) + i] = Execution!Step(s.steps[i])
             /\ \A i \in 1..Len(s.assertions) : p[Operations(s) + i] = s.assertions[i]
<1> DEFINE X == PlanItems(s)
           a == IF s.funds THEN <<Execution!Required>> ELSE <<>>
           b == IF s.initial THEN <<Execution!Balance>> ELSE <<>>
           c == [i \in DOMAIN s.steps |-> Execution!Step(s.steps[i])]
           d == s.assertions
<1>1. Execution!Plan(s) = ((a \o b) \o c) \o d
  BY DEF Execution!Plan
<1>0. Execution!Required \in X /\ Execution!Balance \in X
  BY DEF PlanItems
<1>2. a \in Seq(X) /\ Len(a) = Funds(s) /\ \A i \in 1..Funds(s) : a[i] = Execution!Required
  <2>1. CASE s.funds
    BY <1>0, <2>1 DEF Funds
  <2>2. CASE ~s.funds
    BY <2>2 DEF Funds
  <2>3. QED
    BY <2>1, <2>2
<1>3. b \in Seq(X) /\ Lead(s) = Funds(s) + Len(b) /\ \A i \in 1..Len(b) : b[i] = Execution!Balance
  <2>1. CASE s.initial
    BY <1>0, <2>1 DEF Lead
  <2>2. CASE ~s.initial
    BY <2>2 DEF Lead
  <2>3. QED
    BY <2>1, <2>2
<1>4. c \in Seq(X) /\ Len(c) = Len(s.steps) /\ \A i \in 1..Len(s.steps) : c[i] = Execution!Step(s.steps[i])
  <2>1. DOMAIN s.steps = 1..Len(s.steps) /\ Len(s.steps) \in Nat
    BY ScenarioFacts
  <2>2. \A i \in 1..Len(s.steps) : Execution!Step(s.steps[i]) \in X
    BY ScenarioFacts DEF PlanItems
  <2>3. c = [i \in 1..Len(s.steps) |-> Execution!Step(s.steps[i])]
    BY <2>1
  <2> HIDE DEF X
  <2>4. QED
    BY <2>1, <2>2, <2>3
<1>5. d \in Seq(X)
  <2>1. \A i \in 1..Len(d) : d[i] \in X
    BY ScenarioFacts DEF PlanItems
  <2>2. d \in Seq(ToSet(s.assertions))
    BY ScenarioFacts
  <2> HIDE DEF X, d
  <2>3. QED
    BY <2>1, <2>2
<1>6. Funds(s) \in Nat /\ Lead(s) \in Nat /\ Funds(s) <= Lead(s) /\ Len(s.steps) \in Nat /\ Len(s.assertions) \in Nat
  BY ScenarioFacts
<1> HIDE DEF X, a, b, c, d
<1>7. /\ a \o b \in Seq(X) /\ Len(a \o b) = Lead(s)
      /\ \A i \in 1..Funds(s) : (a \o b)[i] = Execution!Required
      /\ \A i \in (Funds(s) + 1)..Lead(s) : (a \o b)[i] = Execution!Balance
  <2>1. \A i \in (Funds(s) + 1)..Lead(s) : i - Funds(s) \in 1..Len(b) /\ i = Len(a) + (i - Funds(s))
    BY <1>2, <1>3, <1>6
  <2>2. \A i \in (Funds(s) + 1)..Lead(s) : (a \o b)[i] = b[i - Funds(s)]
    BY <1>2, <1>3, <2>1, Joined
  <2>3. /\ a \o b \in Seq(X) /\ Len(a \o b) = Len(a) + Len(b)
        /\ \A i \in 1..Len(a) : (a \o b)[i] = a[i]
    BY <1>2, <1>3, Joined
  <2>4. \A i \in 1..Funds(s) : (a \o b)[i] = Execution!Required
    BY <1>2, <2>3
  <2>5. \A i \in (Funds(s) + 1)..Lead(s) : (a \o b)[i] = Execution!Balance
    BY <1>3, <2>1, <2>2
  <2>6. Len(a \o b) = Lead(s)
    BY <1>2, <1>3, <2>3
  <2>7. QED
    BY <2>3, <2>4, <2>5, <2>6
<1>8. /\ (a \o b) \o c \in Seq(X) /\ Len((a \o b) \o c) = Operations(s)
      /\ \A i \in 1..Lead(s) : ((a \o b) \o c)[i] = (a \o b)[i]
      /\ \A i \in 1..Len(s.steps) : ((a \o b) \o c)[Lead(s) + i] = Execution!Step(s.steps[i])
  BY <1>4, <1>7, Joined DEF Operations
<1>9. /\ Execution!Plan(s) \in Seq(X) /\ Len(Execution!Plan(s)) = Operations(s) + Len(d)
      /\ \A i \in 1..Operations(s) : Execution!Plan(s)[i] = ((a \o b) \o c)[i]
      /\ \A i \in 1..Len(d) : Execution!Plan(s)[Operations(s) + i] = d[i]
  <2>1. PICK abc : abc = (a \o b) \o c
    OBVIOUS
  <2>2. abc \in Seq(X) /\ Len(abc) = Operations(s)
    BY <1>8, <2>1
  <2>3. /\ abc \o d \in Seq(X) /\ Len(abc \o d) = Len(abc) + Len(d)
        /\ \A i \in 1..Len(abc) : (abc \o d)[i] = abc[i]
        /\ \A i \in 1..Len(d) : (abc \o d)[Len(abc) + i] = d[i]
    <3>1. abc \in Seq(X) /\ d \in Seq(X)
      BY <1>5, <2>2
    <3>2. QED
      BY <3>1, Joined
  <2>4. Execution!Plan(s) = abc \o d
    BY <1>1, <2>1
  <2>5. QED
    BY <2>1, <2>2, <2>3, <2>4
<1>10. /\ \A i \in 1..Funds(s) : i \in 1..Lead(s) /\ i \in 1..Operations(s)
       /\ \A i \in (Funds(s) + 1)..Lead(s) : i \in 1..Lead(s) /\ i \in 1..Operations(s)
       /\ \A i \in 1..Len(s.steps) : Lead(s) + i \in 1..Operations(s)
  BY <1>6 DEF Operations
<1>11. /\ \A i \in 1..Funds(s) : Execution!Plan(s)[i] = Execution!Required
       /\ \A i \in (Funds(s) + 1)..Lead(s) : Execution!Plan(s)[i] = Execution!Balance
       /\ \A i \in 1..Len(s.steps) : Execution!Plan(s)[Lead(s) + i] = Execution!Step(s.steps[i])
  BY <1>7, <1>8, <1>9, <1>10
<1>12. QED
  BY <1>9, <1>11 DEF X, d

-----------------------------------------------------------------------------
(* The inductive invariant.                                                *)

Plan == Execution!Plan(scenario)

\* How many items of the plan have been carried out, how many records they left, and
\* which item the record at a place is about: initial balances leave none.
Done == Len(Plan) - Len(todo)
Recorded(s, n) ==
    CASE n <= Funds(s) -> n
      [] Funds(s) < n /\ n <= Lead(s) -> Funds(s)
      [] Lead(s) < n /\ n <= Operations(s) -> n - Lead(s) + Funds(s)
      [] OTHER -> Funds(s) + Len(s.steps)
Position(s, q) == IF q <= Funds(s) THEN q ELSE q - Funds(s) + Lead(s)

StepIds == ToSet(scenario.steps)
Uncoded == {Execution!NoCode, Execution!Refused}
Codes == Rejections \cup Uncoded
Operation == [stage : {"off", "fund", "read", "load", "bounds", "submit", "done", "failed"},
              asleep : BOOLEAN, retries : Nat, code : Codes]

Stages(id) ==
    {"off", "done", "failed"} \cup (CASE id = "fund" -> {"fund"}
                                    [] id = "initial" -> {"read"}
                                    [] OTHER -> {"load", "bounds", "submit"})

\* The loop is at one item of the plan, and races only while the promise is pending.
PlanKept ==
    /\ scenario \in Scenarios
    /\ Done \in 0..Len(Plan)
    /\ todo = SubSeq(Plan, Done + 1, Len(Plan))
    /\ promise \in {"pending", "resolved", "rejected"}
    /\ promise = "resolved" => Done = Len(Plan)
    /\ racing # "none" => promise = "pending" /\ Done < Operations(scenario) /\ racing = Plan[Done + 1].id

\* Every item before it is settled, and failed only if it is a step; of those after it
\* none was started.
OperationsKept ==
    /\ op \in [Execution!Items -> Operation]
    /\ \A id \in Execution!Items : op[id].stage \in Stages(id)
    /\ \A i \in 1..Operations(scenario) :
          /\ i <= Done => \/ op[Plan[i].id].stage = "done"
                          \/ op[Plan[i].id].stage = "failed" /\ Plan[i].kind = "step"
          /\ op[Plan[i].id].stage # "off" =>
                i <= Done \/ (i = Done + 1 /\ (racing # "none" \/ promise = "rejected"))
    /\ racing # "none" => op[racing].stage # "off"

\* A step builds one transaction, and the ledger gives it one verdict.
TransactionsKept ==
    /\ built \in [Execution!Items -> Nat]
    /\ \A id \in StepIds :
          /\ built[id] \in {0, 1}
          /\ op[id].stage \in {"off", "load", "bounds"} => built[id] = 0
          /\ op[id].stage = "submit" => built[id] = 1
    /\ \A tx \in sent : tx = [step |-> tx.step, build |-> 1] /\ tx.step \in StepIds /\ built[tx.step] = 1
    /\ \A v \in ledger : v.tx \in sent /\ v.result \in Rejections \cup {Execution!Success}
    /\ \A v, w \in ledger : v.tx = w.tx => v = w

\* How an operation ended is the verdict of the ledger, if it ended with a code.
Settled(id, code) == \E v \in ledger : v.tx.step = id /\ v.result = code
VerdictsKept ==
    /\ \A id \in StepIds :
          /\ op[id].stage = "done" => Settled(id, Execution!Success)
          /\ op[id].stage = "failed" /\ op[id].code # Execution!NoCode => Settled(id, op[id].code)
    /\ \A id \in {"fund", "initial"} : op[id].code \in Uncoded

\* The items carried out are recorded as passed, in order; a failed one may follow.
RecordsKept ==
    /\ steps \in Seq([id : Execution!Items, passed : BOOLEAN, code : Codes \cup {Execution!Success}])
    /\ Len(steps) \in Recorded(scenario, Done)..(Recorded(scenario, Done) + 1)
    /\ promise # "rejected" => Len(steps) = Recorded(scenario, Done)
    /\ \A q \in 1..Recorded(scenario, Done) :
          steps[q].passed /\ steps[q].id = Plan[Position(scenario, q)].id
    /\ \A q \in 1..Len(steps) :
          IF steps[q].id \in StepIds
          THEN /\ steps[q].passed => steps[q].code # Execution!NoCode
               /\ steps[q].code # Execution!NoCode => Settled(steps[q].id, steps[q].code)
          ELSE steps[q].code \in ({Execution!Success} \cup Uncoded)

\* Assertions are recorded in order, once every operation has been carried out.
AssertionsKept ==
    /\ assertions \in Seq([a : ToSet(scenario.assertions), ok : BOOLEAN])
    /\ Len(assertions) = IF Done <= Operations(scenario) THEN 0 ELSE Done - Operations(scenario)
    /\ \A q \in 1..Len(assertions) :
          assertions[q].a = scenario.assertions[q] /\ assertions[q].a.kind # "read"
    /\ Execution!AssertionsMatchLedger

PlanInv ==
    /\ PlanKept /\ OperationsKept /\ TransactionsKept
    /\ VerdictsKept /\ RecordsKept /\ AssertionsKept

\* The required step ends as the pool did, unless time ran out before the pool settled.
FundingKept ==
    LET funding == op["fund"] IN
    /\ funding.stage \in {"off", "fund"} => result = "pending"
    /\ funding.stage = "done" => result = "resolved"
    /\ funding.stage = "failed" =>
          IF funding.code = Execution!Refused THEN result = "refused"
          ELSE result \in {"pending", "refused"} => aborted

\* It is recorded as failed for the reason it failed, or because the run was aborted
\* before it could begin; and then the run is over.
FundRecord(s) ==
    s.id = "fund" /\ ~s.passed =>
        /\ promise = "rejected"
        /\ op["fund"].stage \in {"off", "failed"}
        /\ s.code = IF op["fund"].stage = "off" THEN Execution!NoCode ELSE op["fund"].code
FundRecorded == \A q \in 1..Len(steps) : FundRecord(steps[q])

GatewayInv == PlanInv /\ PoolInv /\ FundingKept /\ FundRecorded

-----------------------------------------------------------------------------
(* Places of the plan.                                                     *)

\* The operations come first, each with an item of its own; steps are told by their ids.
LEMMA ItemFacts ==
  ASSUME scenario \in Scenarios
  PROVE  LET N == Operations(scenario)
         IN  /\ Plan \in Seq(PlanItems(scenario)) /\ Len(Plan) = N + Len(scenario.assertions)
             /\ N \in Nat /\ Len(Plan) \in Nat /\ N <= Len(Plan)
             /\ \A i \in 1..Len(Plan) : Plan[i].kind \in OperationKinds <=> i <= N
             /\ \A i \in 1..N :
                   /\ Plan[i].id \in Execution!Items /\ Plan[i].id # "none"
                   /\ Plan[i].kind = "step" <=> Plan[i].id \in StepIds
                   /\ Plan[i].kind = "required" <=> Plan[i].id = "fund"
                   /\ Plan[i].kind = "balance" <=> Plan[i].id = "initial"
                   /\ Plan[i].kind = "balance" <=> Funds(scenario) < i /\ i <= Lead(scenario)
                   /\ Plan[i].kind = "required" <=> i <= Funds(scenario)
             /\ \A i, j \in 1..N : Plan[i].id = Plan[j].id => i = j
             /\ \A j \in 1..Len(scenario.steps) : Plan[Lead(scenario) + j].id = scenario.steps[j]
             /\ Execution!Items = {"fund", "initial"} \cup StepIds
             /\ StepIds \cap {"fund", "initial", "none"} = {}
             /\ \A id \in StepIds : \E j \in 1..Len(scenario.steps) : scenario.steps[j] = id
<1> DEFINE s == scenario
           N == Operations(s)
<1>1. /\ Plan \in Seq(PlanItems(s)) /\ Len(Plan) = N + Len(s.assertions)
      /\ \A i \in 1..Funds(s) : Plan[i] = Execution!Required
      /\ \A i \in (Funds(s) + 1)..Lead(s) : Plan[i] = Execution!Balance
      /\ \A i \in 1..Len(s.steps) : Plan[Lead(s) + i] = Execution!Step(s.steps[i])
      /\ \A i \in 1..Len(s.assertions) : Plan[N + i] = s.assertions[i]
  BY PlanFacts DEF Plan
<1>2. /\ Funds(s) \in {0, 1} /\ Lead(s) \in {0, 1, 2} /\ Funds(s) <= Lead(s)
      /\ Len(s.steps) \in Nat /\ Len(s.assertions) \in Nat /\ N = Lead(s) + Len(s.steps)
  BY ScenarioFacts DEF Operations
<1>3. /\ \A i \in 1..Len(s.steps) : s.steps[i] \in StepIds /\ s.steps[i] \notin {"fund", "initial", "none"}
      /\ \A i, j \in 1..Len(s.steps) : s.steps[i] = s.steps[j] => i = j
      /\ \A id \in StepIds : \E j \in 1..Len(s.steps) : s.steps[j] = id
      /\ \A i \in 1..Len(s.assertions) :
            s.assertions[i].kind \in {"succeeded", "confirmed", "failedWith", "memo", "read"}
  BY ScenarioFacts DEF StepIds
<1>4. Execution!Items = {"fund", "initial"} \cup StepIds
  BY DEF Execution!Items, StepIds, ToSet, Execution!ToSet
<1>5. StepIds \cap {"fund", "initial", "none"} = {}
  BY <1>3
<1> HIDE DEF s, N
<1>6. ASSUME NEW i \in 1..Funds(s)
      PROVE  Plan[i].kind = "required" /\ Plan[i].id = "fund"
  BY <1>1 DEF Execution!Required
<1>7. ASSUME NEW i \in (Funds(s) + 1)..Lead(s)
      PROVE  Plan[i].kind = "balance" /\ Plan[i].id = "initial"
  BY <1>1 DEF Execution!Balance
<1>8. ASSUME NEW i \in (Lead(s) + 1)..N
      PROVE  /\ Plan[i].kind = "step" /\ i - Lead(s) \in 1..Len(s.steps)
             /\ Plan[i].id = s.steps[i - Lead(s)] /\ Plan[i].id \in StepIds
  <2>1. i - Lead(s) \in 1..Len(s.steps) /\ i = Lead(s) + (i - Lead(s))
    BY <1>2
  <2>2. Plan[i] = Execution!Step(s.steps[i - Lead(s)])
    BY <1>1, <2>1
  <2>3. QED
    BY <1>3, <2>1, <2>2 DEF Execution!Step
<1>9. ASSUME NEW i \in (N + 1)..Len(Plan)
      PROVE  Plan[i].kind \notin OperationKinds
  <2>1. i - N \in 1..Len(s.assertions) /\ i = N + (i - N)
    BY <1>1, <1>2
  <2>2. Plan[i] = s.assertions[i - N]
    BY <1>1, <2>1
  <2>3. QED
    BY <1>3, <2>1, <2>2 DEF OperationKinds
<1>10. \A i \in 1..N : i \in 1..Funds(s) \/ i \in (Funds(s) + 1)..Lead(s) \/ i \in (Lead(s) + 1)..N
  BY <1>2
<1>11. \A i \in 1..Len(Plan) : Plan[i].kind \in OperationKinds <=> i <= N
  <2> TAKE i \in 1..Len(Plan)
  <2>1. CASE i <= N
    BY <1>2, <1>6, <1>7, <1>8, <1>10, <2>1 DEF OperationKinds
  <2>2. CASE ~(i <= N)
    <3>1. i \in (N + 1)..Len(Plan)
      BY <1>1, <1>2, <2>2
    <3>2. QED
      BY <1>9, <2>2, <3>1
  <2>3. QED
    BY <2>1, <2>2
<1>12. \A i \in 1..N :
          /\ Plan[i].id \in Execution!Items /\ Plan[i].id # "none"
          /\ Plan[i].kind = "step" <=> Plan[i].id \in StepIds
          /\ Plan[i].kind = "required" <=> Plan[i].id = "fund"
          /\ Plan[i].kind = "balance" <=> Plan[i].id = "initial"
          /\ Plan[i].kind = "balance" <=> Funds(s) < i /\ i <= Lead(s)
          /\ Plan[i].kind = "required" <=> i <= Funds(s)
  <2> TAKE i \in 1..N
  <2>1. CASE i \in 1..Funds(s)
    BY <1>2, <1>4, <1>5, <1>6, <2>1
  <2>2. CASE i \in (Funds(s) + 1)..Lead(s)
    BY <1>2, <1>4, <1>5, <1>7, <2>2
  <2>3. CASE i \in (Lead(s) + 1)..N
    BY <1>2, <1>4, <1>5, <1>8, <2>3
  <2>4. QED
    BY <1>10, <2>1, <2>2, <2>3
<1>13. \A i, j \in 1..N : Plan[i].id = Plan[j].id => i = j
  <2> TAKE i, j \in 1..N
  <2> HAVE Plan[i].id = Plan[j].id
  <2>1. CASE i \in 1..Funds(s)
    <3>1. j \in 1..Funds(s)
      BY <1>2, <1>6, <1>12, <2>1
    <3>2. QED
      BY <1>2, <2>1, <3>1
  <2>2. CASE i \in (Funds(s) + 1)..Lead(s)
    <3>1. j \in (Funds(s) + 1)..Lead(s)
      BY <1>2, <1>7, <1>12, <2>2
    <3>2. i = Lead(s) /\ j = Lead(s)
      <4>1. Lead(s) <= Funds(s) + 1
        BY <1>2 DEF Lead
      <4>2. QED
        BY <1>2, <2>2, <3>1, <4>1
    <3>3. QED
      BY <3>2
  <2>3. CASE i \in (Lead(s) + 1)..N
    <3>1. Plan[j].id \in StepIds
      BY <1>8, <2>3
    <3>2. j \in (Lead(s) + 1)..N
      BY <1>2, <1>5, <1>6, <1>7, <1>10, <3>1
    <3>3. s.steps[i - Lead(s)] = s.steps[j - Lead(s)] /\ i - Lead(s) \in 1..Len(s.steps) /\ j - Lead(s) \in 1..Len(s.steps)
      BY <1>8, <2>3, <3>2
    <3>4. i - Lead(s) = j - Lead(s)
      BY <1>3, <3>3
    <3>5. QED
      BY <1>2, <3>4
  <2>4. QED
    BY <1>10, <2>1, <2>2, <2>3
<1>14. \A j \in 1..Len(s.steps) : Plan[Lead(s) + j].id = s.steps[j]
  <2>1. \A x : Execution!Step(x).id = x
    BY DEF Execution!Step
  <2>2. QED
    BY <1>1, <2>1
<1>15. N \in Nat /\ Len(Plan) \in Nat /\ N <= Len(Plan)
  BY <1>1, <1>2
<1>16. QED
  BY <1>1, <1>3, <1>4, <1>5, <1>11, <1>12, <1>13, <1>14, <1>15 DEF s, N

\* The head of what is left to do.
LEMMA HeadFacts ==
  ASSUME PlanKept
  PROVE  /\ Done \in Nat /\ Len(Plan) \in Nat
         /\ todo = <<>> <=> Done = Len(Plan)
         /\ todo # <<>> =>
              /\ Done < Len(Plan) /\ Head(todo) = Plan[Done + 1]
              /\ Tail(todo) = SubSeq(Plan, Done + 2, Len(Plan)) /\ Len(Tail(todo)) = Len(todo) - 1
              /\ Len(Plan) - Len(Tail(todo)) = Done + 1
<1> DEFINE X == PlanItems(scenario)
<1>1. PICK p : p = Plan
  OBVIOUS
<1>2. PICK d : d = Done
  OBVIOUS
<1>3. p \in Seq(X) /\ Len(p) \in Nat /\ d \in 0..Len(p) /\ todo = SubSeq(p, d + 1, Len(p))
  BY <1>1, <1>2, ItemFacts DEF PlanKept
<1> HIDE DEF X
<1>4. d = Len(p) - Len(todo)
  BY <1>1, <1>2 DEF Done
<1>5. todo \in Seq(X) /\ Len(todo) = Len(p) - d /\ \A i \in 1..Len(todo) : todo[i] = p[d + i]
  BY <1>3
<1>6. todo = <<>> <=> d = Len(p)
  <2>1. todo = <<>> <=> Len(todo) = 0
    BY <1>5, EmptySeq
  <2>2. Len(todo) = 0 <=> d = Len(p)
    BY <1>3, <1>5
  <2>3. QED
    BY <2>1, <2>2
<1>7. ASSUME todo # <<>>
      PROVE  /\ d < Len(p) /\ Head(todo) = p[d + 1]
             /\ Tail(todo) = SubSeq(p, d + 2, Len(p)) /\ Len(Tail(todo)) = Len(todo) - 1
             /\ Len(p) - Len(Tail(todo)) = d + 1
  <2>1. d < Len(p)
    BY <1>3, <1>6, <1>7
  <2>2. Head(todo) = todo[1] /\ 1 \in 1..Len(todo)
    BY <1>3, <1>5, <1>7, <2>1
  <2>3. Len(Tail(todo)) = Len(todo) - 1 /\ Tail(todo) \in Seq(X)
        /\ \A i \in 1..(Len(todo) - 1) : Tail(todo)[i] = todo[i + 1]
    BY <1>5, <1>7, HeadTailProperties
  <2>4. PICK t : t = SubSeq(p, d + 2, Len(p))
    OBVIOUS
  <2>5. t \in Seq(X) /\ Len(t) = Len(p) - d - 1 /\ \A i \in 1..Len(t) : t[i] = p[d + 1 + i]
    BY <1>3, <2>1, <2>4
  <2>6. Len(t) = Len(Tail(todo)) /\ \A i \in 1..Len(t) : t[i] = Tail(todo)[i]
    BY <1>3, <1>5, <2>1, <2>3, <2>5
  <2>7. t = Tail(todo)
    BY <2>3, <2>5, <2>6, SeqEqual
  <2>8. Head(todo) = p[d + 1]
    BY <1>5, <2>2
  <2>9. Len(Tail(todo)) = Len(todo) - 1 /\ Len(p) - Len(Tail(todo)) = d + 1
    BY <1>3, <1>5, <2>3
  <2>10. QED
    BY <2>1, <2>4, <2>7, <2>8, <2>9
<1>8. d \in Nat
  BY <1>3
<1>9. QED
  BY <1>1, <1>2, <1>3, <1>6, <1>7, <1>8

\* Which records the items carried out have left.
LEMMA RecordedFacts ==
  ASSUME NEW s \in Scenarios, NEW n \in 0..Operations(s)
  PROVE  /\ Recorded(s, n) \in Nat /\ Recorded(s, 0) = 0
         /\ n < Operations(s) /\ ~(Funds(s) < n + 1 /\ n + 1 <= Lead(s)) =>
               Recorded(s, n + 1) = Recorded(s, n) + 1 /\ Position(s, Recorded(s, n) + 1) = n + 1
         /\ n < Operations(s) /\ Funds(s) < n + 1 /\ n + 1 <= Lead(s) => Recorded(s, n + 1) = Recorded(s, n)
         /\ \A m \in Nat : m >= Operations(s) => Recorded(s, m) = Funds(s) + Len(s.steps)
         /\ \A j \in 1..Len(s.steps) :
               /\ Lead(s) + j <= n => Funds(s) + j <= Recorded(s, n)
               /\ Position(s, Funds(s) + j) = Lead(s) + j
         /\ \A q \in 1..Funds(s) : Position(s, q) = q
<1> DEFINE f == Funds(s)
           l == Lead(s)
           k == Len(s.steps)
<1>1. f \in Nat /\ l \in Nat /\ f <= l /\ k \in Nat /\ Operations(s) = l + k
  BY ScenarioFacts DEF Operations
<1> HIDE DEF f, l, k
<1>2. \A m \in Nat : Recorded(s, m) = IF m <= f THEN m ELSE IF m <= l THEN f ELSE IF m <= l + k THEN m - l + f ELSE f + k
  <2> TAKE m \in Nat
  <2>1. CASE m <= f
    BY <1>1, <2>1 DEF Recorded, f, l, k
  <2>2. CASE f < m /\ m <= l
    BY <1>1, <2>2 DEF Recorded, f, l, k
  <2>3. CASE l < m /\ m <= l + k
    BY <1>1, <2>3 DEF Recorded, f, l, k
  <2>4. CASE l + k < m
    BY <1>1, <2>4 DEF Recorded, f, l, k
  <2>5. QED
    BY <1>1, <2>1, <2>2, <2>3, <2>4
<1>3. \A q \in Nat : Position(s, q) = IF q <= f THEN q ELSE q - f + l
  BY DEF Position, f, l
<1>4. n \in Nat /\ n + 1 \in Nat /\ n <= l + k
  BY <1>1
<1>5. Recorded(s, n) \in Nat /\ Recorded(s, 0) = 0
  BY <1>1, <1>2, <1>4
<1>6. ASSUME n < l + k, ~(f < n + 1 /\ n + 1 <= l)
      PROVE  Recorded(s, n + 1) = Recorded(s, n) + 1 /\ Position(s, Recorded(s, n) + 1) = n + 1
  <2>1. CASE n + 1 <= f
    <3>1. Recorded(s, n) = n /\ Recorded(s, n + 1) = n + 1
      BY <1>1, <1>2, <1>4, <2>1
    <3>2. QED
      BY <1>3, <1>4, <2>1, <3>1
  <2>2. CASE l < n + 1
    <3>1. Recorded(s, n) = n - l + f /\ Recorded(s, n + 1) = n + 1 - l + f
      <4>1. CASE n = l
        BY <1>1, <1>2, <1>4, <1>6, <2>2, <4>1
      <4>2. CASE l < n
        BY <1>1, <1>2, <1>4, <1>6, <2>2, <4>2
      <4>3. QED
        BY <1>1, <1>4, <2>2, <4>1, <4>2
    <3>2. Recorded(s, n) + 1 \in Nat /\ f < Recorded(s, n) + 1
      BY <1>1, <1>4, <2>2, <3>1
    <3>3. Position(s, Recorded(s, n) + 1) = Recorded(s, n) + 1 - f + l
      <4>1. ~(Recorded(s, n) + 1 <= f)
        BY <1>1, <3>2
      <4>2. QED
        BY <1>1, <1>5, <4>1 DEF Position, f, l
    <3>4. QED
      BY <1>1, <1>4, <3>1, <3>3
  <2>3. QED
    BY <1>1, <1>4, <1>6, <2>1, <2>2
<1>7. ASSUME n < l + k, f < n + 1, n + 1 <= l
      PROVE  Recorded(s, n + 1) = Recorded(s, n)
  BY <1>1, <1>2, <1>4, <1>7
<1>8. ASSUME NEW m \in Nat, m >= l + k PROVE Recorded(s, m) = f + k
  <2>1. CASE m <= f
    BY <1>1, <1>2, <1>8, <2>1
  <2>2. CASE f < m /\ m <= l
    BY <1>1, <1>2, <1>8, <2>2
  <2>3. CASE l < m
    BY <1>1, <1>2, <1>8, <2>3
  <2>4. QED
    BY <1>1, <2>1, <2>2, <2>3
<1>9. ASSUME NEW j \in 1..k
      PROVE  /\ l + j <= n => f + j <= Recorded(s, n)
             /\ Position(s, f + j) = l + j
  <2>1. Position(s, f + j) = l + j
    BY <1>1, <1>3
  <2>2. ASSUME l + j <= n PROVE f + j <= Recorded(s, n)
    <3>1. Recorded(s, n) = n - l + f
      BY <1>1, <1>2, <1>4, <2>2
    <3>2. QED
      BY <1>1, <1>4, <2>2, <3>1
  <2>3. QED
    BY <2>1, <2>2
<1>10. \A q \in 1..f : Position(s, q) = q
  BY <1>1, <1>3
<1>11. QED
  BY <1>1, <1>5, <1>6, <1>7, <1>8, <1>9, <1>10 DEF f, l, k

-----------------------------------------------------------------------------
(* What an action leaves alone.                                            *)

LEMMA SameScenario ==
  ASSUME scenario' = scenario
  PROVE  Plan' = Plan /\ StepIds' = StepIds /\ Execution!Items' = Execution!Items
BY DEF Plan, StepIds, Execution!Items

LEMMA SamePlan ==
  ASSUME PlanKept, UNCHANGED <<scenario, todo, racing, promise>>
  PROVE  PlanKept' /\ Done' = Done
<1>1. Plan' = Plan /\ Done' = Done
  BY SameScenario DEF Done
<1>2. QED
  BY <1>1 DEF PlanKept

LEMMA SameRecords ==
  ASSUME RecordsKept, AssertionsKept, UNCHANGED <<scenario, todo, promise, steps, assertions, ledger>>
  PROVE  RecordsKept' /\ AssertionsKept'
<1>1. Plan' = Plan /\ Done' = Done /\ StepIds' = StepIds /\ Execution!Items' = Execution!Items
  BY SameScenario DEF Done
<1>2. RecordsKept'
  BY <1>1 DEF RecordsKept, Settled
<1>3. AssertionsKept'
  BY <1>1 DEF AssertionsKept, Execution!AssertionsMatchLedger
<1>4. QED
  BY <1>2, <1>3

LEMMA SameOperations ==
  ASSUME TransactionsKept, VerdictsKept, UNCHANGED <<scenario, op, built, sent, ledger>>
  PROVE  TransactionsKept' /\ VerdictsKept'
<1>1. StepIds' = StepIds /\ Execution!Items' = Execution!Items
  BY SameScenario
<1>2. TransactionsKept'
  BY <1>1 DEF TransactionsKept
<1>3. VerdictsKept'
  BY <1>1 DEF VerdictsKept, Settled
<1>4. QED
  BY <1>2, <1>3

-----------------------------------------------------------------------------
(* An operation that moves on.                                             *)

\* Only the item being carried out, or one whose promise was rejected, is live.
LEMMA OperationMoves ==
  ASSUME PlanInv, NEW id \in Execution!Items, NEW r \in Operation, op' = [op EXCEPT ![id] = r],
         UNCHANGED <<scenario, todo, racing, promise, steps, assertions, ledger>>,
         r.stage \in Stages(id),
         r.stage = op[id].stage \/ (Execution!Live(id) /\ r.stage # "off")
  PROVE  /\ PlanKept' /\ OperationsKept' /\ RecordsKept' /\ AssertionsKept'
         /\ op'[id] = r /\ \A x \in Execution!Items \ {id} : op'[x] = op[x]
<1>1. PlanKept' /\ Done' = Done /\ RecordsKept' /\ AssertionsKept'
  BY SamePlan, SameRecords DEF PlanInv
<1>2. Plan' = Plan /\ StepIds' = StepIds /\ Execution!Items' = Execution!Items
  BY SameScenario
<1>3. op'[id] = r /\ \A x \in Execution!Items \ {id} : op'[x] = op[x]
  BY DEF PlanInv, OperationsKept
<1>4. op' \in [Execution!Items -> Operation] /\ \A x \in Execution!Items : op'[x].stage \in Stages(x)
  BY <1>3 DEF PlanInv, OperationsKept
<1>5. racing # "none" => op'[racing].stage # "off"
  <2>1. CASE racing = id
    BY <1>3, <2>1 DEF PlanInv, OperationsKept
  <2>2. CASE racing # id /\ racing # "none"
    <3>1. racing \in Execution!Items
      BY <2>2, ItemFacts DEF PlanInv, PlanKept
    <3>2. QED
      BY <1>3, <2>2, <3>1 DEF PlanInv, OperationsKept
  <2>3. QED
    BY <2>1, <2>2
<1>6. ASSUME NEW i \in 1..Operations(scenario)
      PROVE  /\ i <= Done => \/ op'[Plan[i].id].stage = "done"
                             \/ op'[Plan[i].id].stage = "failed" /\ Plan[i].kind = "step"
             /\ op'[Plan[i].id].stage # "off" =>
                   i <= Done \/ (i = Done + 1 /\ (racing # "none" \/ promise = "rejected"))
  <2>1. /\ i <= Done => \/ op[Plan[i].id].stage = "done"
                        \/ op[Plan[i].id].stage = "failed" /\ Plan[i].kind = "step"
        /\ op[Plan[i].id].stage # "off" =>
              i <= Done \/ (i = Done + 1 /\ (racing # "none" \/ promise = "rejected"))
    BY DEF PlanInv, OperationsKept
  <2>2. Plan[i].id \in Execution!Items
    BY ItemFacts DEF PlanInv, PlanKept
  <2>3. CASE Plan[i].id # id
    BY <1>3, <2>1, <2>2, <2>3
  <2>4. CASE Plan[i].id = id /\ r.stage = op[id].stage
    BY <1>3, <2>1, <2>4
  <2>5. CASE Plan[i].id = id /\ Execution!Live(id)
    BY <1>3, <2>1, <2>5 DEF Execution!Live
  <2>6. QED
    BY <2>3, <2>4, <2>5
<1>7. OperationsKept'
  BY <1>1, <1>2, <1>4, <1>5, <1>6 DEF OperationsKept
<1>8. QED
  BY <1>1, <1>3, <1>7

\* Before a step submits, nothing is built; it is done, or failed with a code, by the
\* verdict of the ledger.
LEMMA OperationStep ==
  ASSUME PlanInv, NEW id \in Execution!Items, NEW r \in Operation, op' = [op EXCEPT ![id] = r],
         UNCHANGED <<scenario, todo, racing, promise, steps, assertions, ledger, built, sent>>,
         r.stage \in Stages(id),
         r.stage = op[id].stage \/ (Execution!Live(id) /\ r.stage # "off"),
         id \in StepIds =>
            /\ r.stage \in {"load", "bounds"} => op[id].stage \in {"load", "bounds"}
            /\ r.stage = "submit" => op[id].stage = "submit"
            /\ r.stage = "done" => Settled(id, Execution!Success)
            /\ r.stage = "failed" /\ r.code # Execution!NoCode => Settled(id, r.code),
         id \notin StepIds => r.code \in Uncoded
  PROVE  PlanInv'
<1>1. /\ PlanKept' /\ OperationsKept' /\ RecordsKept' /\ AssertionsKept'
      /\ op'[id] = r /\ \A x \in Execution!Items \ {id} : op'[x] = op[x]
  BY OperationMoves
<1>2. StepIds' = StepIds /\ Execution!Items' = Execution!Items /\ Execution!Items = {"fund", "initial"} \cup StepIds
      /\ StepIds \cap {"fund", "initial", "none"} = {}
  BY SameScenario, ItemFacts DEF PlanInv, PlanKept
<1>3. ASSUME NEW x \in StepIds
      PROVE  /\ built[x] \in {0, 1}
             /\ op'[x].stage \in {"off", "load", "bounds"} => built[x] = 0
             /\ op'[x].stage = "submit" => built[x] = 1
             /\ op'[x].stage = "done" => Settled(x, Execution!Success)
             /\ op'[x].stage = "failed" /\ op'[x].code # Execution!NoCode => Settled(x, op'[x].code)
  <2>1. /\ built[x] \in {0, 1}
        /\ op[x].stage \in {"off", "load", "bounds"} => built[x] = 0
        /\ op[x].stage = "submit" => built[x] = 1
    BY DEF PlanInv, TransactionsKept
  <2>2. /\ op[x].stage = "done" => Settled(x, Execution!Success)
        /\ op[x].stage = "failed" /\ op[x].code # Execution!NoCode => Settled(x, op[x].code)
    BY DEF PlanInv, VerdictsKept
  <2>3. CASE x # id
    BY <1>1, <1>2, <2>1, <2>2, <2>3
  <2>4. CASE x = id
    <3>1. r.stage = "off" => op[id].stage = "off"
      OBVIOUS
    <3>2. QED
      BY <1>1, <2>1, <2>4, <3>1
  <2>5. QED
    BY <2>3, <2>4
<1>4. \A x \in {"fund", "initial"} : op'[x].code \in Uncoded
  BY <1>1, <1>2 DEF PlanInv, VerdictsKept
<1>5. TransactionsKept'
  BY <1>2, <1>3 DEF PlanInv, TransactionsKept
<1>6. VerdictsKept'
  BY <1>2, <1>3, <1>4 DEF VerdictsKept, Settled
<1>7. QED
  BY <1>1, <1>5, <1>6 DEF PlanInv

-----------------------------------------------------------------------------
(* The requests of an operation.                                           *)

\* The stage of an operation tells what it is about.
LEMMA StageFacts ==
  ASSUME PlanInv
  PROVE  /\ "fund" \in Execution!Items /\ "initial" \in Execution!Items
         /\ Stages("fund") = {"off", "done", "failed", "fund"}
         /\ Stages("initial") = {"off", "done", "failed", "read"}
         /\ \A id \in StepIds :
               id \notin {"fund", "initial"} /\ id \in Execution!Items
               /\ Stages(id) = {"off", "done", "failed", "load", "bounds", "submit"}
         /\ \A id \in Execution!Items :
               /\ op[id] \in Operation
               /\ id \in {"fund", "initial"} \/ id \in StepIds
               /\ op[id].stage = "fund" => id = "fund"
               /\ op[id].stage = "read" => id = "initial"
               /\ op[id].stage \in {"load", "bounds", "submit"} => id \in StepIds
<1>1. Execution!Items = {"fund", "initial"} \cup StepIds /\ StepIds \cap {"fund", "initial", "none"} = {}
  BY ItemFacts DEF PlanInv, PlanKept
<1>2. /\ Stages("fund") = {"off", "done", "failed", "fund"}
      /\ Stages("initial") = {"off", "done", "failed", "read"}
  BY DEF Stages
<1>3. ASSUME NEW id \in StepIds
      PROVE  /\ id \notin {"fund", "initial"} /\ id \in Execution!Items
             /\ Stages(id) = {"off", "done", "failed", "load", "bounds", "submit"}
  BY <1>1 DEF Stages
<1>4. ASSUME NEW id \in Execution!Items
      PROVE  /\ op[id] \in Operation /\ op[id].stage \in Stages(id)
             /\ id \in {"fund", "initial"} \/ id \in StepIds
  BY <1>1 DEF PlanInv, OperationsKept
<1>5. ASSUME NEW id \in Execution!Items
      PROVE  /\ op[id].stage = "fund" => id = "fund"
             /\ op[id].stage = "read" => id = "initial"
             /\ op[id].stage \in {"load", "bounds", "submit"} => id \in StepIds
  <2>1. CASE id = "fund"
    BY <1>2, <1>4, <2>1
  <2>2. CASE id = "initial"
    BY <1>2, <1>4, <2>2
  <2>3. CASE id \in StepIds
    BY <1>3, <1>4, <2>3
  <2>4. QED
    BY <1>4, <2>1, <2>2, <2>3
<1>6. QED
  BY <1>1, <1>2, <1>3, <1>4, <1>5

LEMMA GotoRecord ==
  ASSUME NEW stage \in {"off", "fund", "read", "load", "bounds", "submit", "done", "failed"}
  PROVE  LET r == [Execution!Off EXCEPT !.stage = stage]
         IN  r \in Operation /\ r.stage = stage /\ r.code = Execution!NoCode
BY DEF Execution!Off, Operation, Codes, Uncoded

LEMMA FailRecord ==
  ASSUME NEW code \in Codes
  PROVE  LET r == [Execution!Off EXCEPT !.stage = "failed", !.code = code]
         IN  r \in Operation /\ r.stage = "failed" /\ r.code = code
<1>1. PICK r1 : r1 = [Execution!Off EXCEPT !.stage = "failed"]
  OBVIOUS
<1>2. r1 \in Operation /\ r1.stage = "failed"
  BY <1>1, GotoRecord
<1>3. [Execution!Off EXCEPT !.stage = "failed", !.code = code] = [r1 EXCEPT !.code = code]
  BY <1>1 DEF Execution!Off
<1>4. [r1 EXCEPT !.code = code] \in Operation
  BY <1>2 DEF Operation
<1>5. [r1 EXCEPT !.code = code].stage = "failed" /\ [r1 EXCEPT !.code = code].code = code
  BY <1>2 DEF Operation
<1>6. QED
  BY <1>3, <1>4, <1>5

LEMMA AccountLoadedStep ==
  ASSUME PlanInv, NEW id \in Execution!Items, Execution!AccountLoaded(id)
  PROVE  PlanInv' /\ op'["fund"] = op["fund"]
<1>1. PICK r : r = [Execution!Off EXCEPT !.stage = "bounds"]
  OBVIOUS
<1>2. r \in Operation /\ r.stage = "bounds"
  BY <1>1, GotoRecord
<1>3. /\ op[id].stage = "load" /\ op' = [op EXCEPT ![id] = r]
      /\ UNCHANGED <<scenario, todo, racing, promise, steps, assertions, ledger, built, sent>>
  BY <1>1 DEF Execution!AccountLoaded, Execution!Awake, Execution!Goto, Execution!recordVars, Execution!networkVars
<1>4. id \in StepIds /\ r.stage \in Stages(id) /\ id # "fund"
  BY <1>2, <1>3, StageFacts
<1>5. Execution!Live(id)
  BY <1>3 DEF Execution!Live
<1>6. PlanInv'
  BY <1>2, <1>3, <1>4, <1>5, OperationStep
<1>7. QED
  BY <1>3, <1>4, <1>6, StageFacts DEF PlanInv, OperationsKept

LEMMA SubmitAnsweredStep ==
  ASSUME PlanInv, NEW id \in Execution!Items, Execution!SubmitAnswered(id)
  PROVE  PlanInv' /\ op'["fund"] = op["fund"]
<1>1. PICK v \in Execution!Verdict(Execution!Tx(id)) :
         IF v.result = Execution!Success THEN Execution!Goto(id, "done") ELSE Execution!FailWith(id, v.result)
  BY DEF Execution!SubmitAnswered
<1>2. v \in ledger /\ v.tx.step = id /\ v.result \in Rejections \cup {Execution!Success}
  BY <1>1 DEF Execution!Verdict, Execution!Tx, PlanInv, TransactionsKept
<1>3. /\ op[id].stage = "submit"
      /\ UNCHANGED <<scenario, todo, racing, promise, steps, assertions, ledger, built, sent>>
  BY DEF Execution!SubmitAnswered, Execution!Awake, Execution!recordVars, Execution!networkVars
<1>4. Settled(id, v.result)
  BY <1>2 DEF Settled
<1>5. PICK r : /\ r \in Operation /\ op' = [op EXCEPT ![id] = r]
               /\ \/ r.stage = "done" /\ v.result = Execution!Success
                  \/ r.stage = "failed" /\ r.code = v.result
  <2>1. CASE v.result = Execution!Success
    <3>1. op' = [op EXCEPT ![id] = [Execution!Off EXCEPT !.stage = "done"]]
      BY <1>1, <2>1 DEF Execution!Goto
    <3>2. QED
      BY <2>1, <3>1, GotoRecord
  <2>2. CASE v.result # Execution!Success
    <3>1. op' = [op EXCEPT ![id] = [Execution!Off EXCEPT !.stage = "failed", !.code = v.result]]
      BY <1>1, <2>2 DEF Execution!FailWith
    <3>2. v.result \in Codes
      BY <1>2, <2>2 DEF Codes, Uncoded
    <3>3. QED
      BY <3>1, <3>2, FailRecord
  <2>3. QED
    BY <2>1, <2>2
<1>6. id \in StepIds /\ r.stage \in Stages(id) /\ id # "fund"
  BY <1>3, <1>5, StageFacts
<1>7. Execution!Live(id)
  BY <1>3 DEF Execution!Live
<1>8. PlanInv'
  BY <1>3, <1>4, <1>5, <1>6, <1>7, OperationStep
<1>9. QED
  BY <1>5, <1>6, <1>8, StageFacts DEF PlanInv, OperationsKept

LEMMA BalanceReadStep ==
  ASSUME PlanInv, NEW id \in Execution!Items, Execution!BalanceRead(id)
  PROVE  PlanInv' /\ op'["fund"] = op["fund"]
<1>1. PICK r : r = [Execution!Off EXCEPT !.stage = "done"]
  OBVIOUS
<1>2. r \in Operation /\ r.stage = "done" /\ r.code = Execution!NoCode
  BY <1>1, GotoRecord
<1>3. /\ op[id].stage = "read" /\ op' = [op EXCEPT ![id] = r]
      /\ UNCHANGED <<scenario, todo, racing, promise, steps, assertions, ledger, built, sent>>
  BY <1>1 DEF Execution!BalanceRead, Execution!Awake, Execution!Goto, Execution!recordVars, Execution!networkVars
<1>4. id = "initial" /\ id \notin StepIds /\ r.stage \in Stages(id)
  BY <1>2, <1>3, StageFacts
<1>5. Execution!Live(id)
  BY <1>3 DEF Execution!Live
<1>6. PlanInv'
  BY <1>2, <1>3, <1>4, <1>5, OperationStep DEF Uncoded
<1>7. QED
  BY <1>3, <1>4, <1>6, StageFacts DEF PlanInv, OperationsKept

\* A request is retried after a delay, or fails the operation without a code.
LEMMA RequestFailsStep ==
  ASSUME PlanInv, NEW id \in Execution!Items, NEW retryable \in BOOLEAN, Execution!RequestFails(id, retryable)
  PROVE  PlanInv' /\ op'["fund"] = op["fund"]
<1>1. /\ op[id].stage \in {"read", "load", "bounds", "submit"}
      /\ UNCHANGED <<scenario, todo, racing, promise, steps, assertions, ledger, built, sent>>
  BY DEF Execution!RequestFails, Execution!Awake, Execution!recordVars, Execution!networkVars
<1>2. op[id] \in Operation /\ id # "fund" /\ Execution!Live(id) /\ op[id].stage \in Stages(id)
  BY <1>1, StageFacts DEF Execution!Live, PlanInv, OperationsKept
<1>3. PICK r : /\ r \in Operation /\ op' = [op EXCEPT ![id] = r]
               /\ \/ r.stage = op[id].stage /\ r.code = op[id].code
                  \/ r.stage = "failed" /\ r.code = Execution!NoCode
  <2>1. CASE retryable /\ op[id].retries < MaxRetries
    <3>1. PICK r1 : r1 = [op[id] EXCEPT !.asleep = TRUE]
      OBVIOUS
    <3>2. r1 \in Operation /\ op[id].retries + 1 \in Nat
      <4>1. r1 \in Operation
        BY <1>2, <3>1 DEF Operation
      <4>2. op[id].retries \in Nat
        BY <1>2 DEF Operation
      <4>3. QED
        BY <4>1, <4>2
    <3>3. r1.stage = op[id].stage /\ r1.code = op[id].code
      BY <1>2, <3>1 DEF Operation
    <3>4. PICK r2 : r2 = [r1 EXCEPT !.retries = op[id].retries + 1]
      OBVIOUS
    <3>5. r2 \in Operation
      BY <3>2, <3>4 DEF Operation
    <3>6. r2.stage = op[id].stage /\ r2.code = op[id].code
      BY <3>2, <3>4, <3>3 DEF Operation
    <3>7. op' = [op EXCEPT ![id] = r2]
      <4>1. op' = [op EXCEPT ![id].asleep = TRUE, ![id].retries = @ + 1]
        BY <2>1 DEF Execution!RequestFails
      <4>2. op \in [Execution!Items -> Operation]
        BY DEF PlanInv, OperationsKept
      <4>3. op' = [op EXCEPT ![id] = [[op[id] EXCEPT !.asleep = TRUE] EXCEPT !.retries = op[id].retries + 1]]
        BY <1>2, <4>1, <4>2 DEF Operation
      <4>4. QED
        BY <3>1, <3>4, <4>3
    <3>8. QED
      BY <3>5, <3>6, <3>7
  <2>2. CASE ~(retryable /\ op[id].retries < MaxRetries)
    <3>1. op' = [op EXCEPT ![id] = [Execution!Off EXCEPT !.stage = "failed", !.code = Execution!NoCode]]
      BY <2>2 DEF Execution!RequestFails, Execution!FailWith
    <3>2. QED
      BY <3>1, FailRecord DEF Codes, Uncoded
  <2>3. QED
    BY <2>1, <2>2
<1>4. r.stage \in Stages(id) /\ (id \notin StepIds => r.code \in Uncoded)
  BY <1>2, <1>3, StageFacts DEF PlanInv, VerdictsKept, Uncoded
<1>5. PlanInv'
  BY <1>1, <1>2, <1>3, <1>4, OperationStep
<1>6. QED
  BY <1>2, <1>3, <1>5, StageFacts DEF PlanInv, OperationsKept

LEMMA DelayEndsStep ==
  ASSUME PlanInv, NEW id \in Execution!Items, Execution!DelayEnds(id)
  PROVE  PlanInv' /\ op'["fund"].stage = op["fund"].stage /\ op'["fund"].code = op["fund"].code
<1>1. /\ op' = [op EXCEPT ![id].asleep = FALSE]
      /\ UNCHANGED <<scenario, todo, racing, promise, steps, assertions, ledger, built, sent>>
  BY DEF Execution!DelayEnds, Execution!recordVars, Execution!networkVars
<1>2. PICK r : r = [op[id] EXCEPT !.asleep = FALSE]
  OBVIOUS
<1>3. op' = [op EXCEPT ![id] = r] /\ op[id] \in Operation /\ op[id].stage \in Stages(id)
  BY <1>1, <1>2, StageFacts DEF PlanInv, OperationsKept
<1>4. r \in Operation /\ r.stage = op[id].stage /\ r.code = op[id].code
  BY <1>2, <1>3 DEF Operation
<1>5. id \in StepIds =>
         /\ r.stage = "done" => Settled(id, Execution!Success)
         /\ r.stage = "failed" /\ r.code # Execution!NoCode => Settled(id, r.code)
  BY <1>4 DEF PlanInv, VerdictsKept
<1>6. id \notin StepIds => r.code \in Uncoded
  BY <1>4, StageFacts DEF PlanInv, VerdictsKept
<1>7. PlanInv'
  BY <1>1, <1>3, <1>4, <1>5, <1>6, OperationStep
<1>8. QED
  BY <1>3, <1>4, <1>7, StageFacts DEF PlanInv, OperationsKept

\* fundAll settles: the required step is done only if it resolved.
LEMMA FundingEndsStep ==
  ASSUME PlanInv, NEW outcome, Execution!FundingEnds(outcome)
  PROVE  /\ PlanInv'
         /\ IF outcome = "resolved" THEN op'["fund"].stage = "done"
            ELSE /\ op'["fund"].stage = "failed"
                 /\ op'["fund"].code = IF outcome = "refused" THEN Execution!Refused ELSE Execution!NoCode
<1>1. /\ Execution!Live("fund")
      /\ UNCHANGED <<scenario, todo, racing, promise, steps, assertions, ledger, built, sent>>
  BY DEF Execution!FundingEnds, Execution!recordVars, Execution!networkVars
<1>2. PICK r : /\ r \in Operation /\ op' = [op EXCEPT !["fund"] = r] /\ r.code \in Uncoded
               /\ IF outcome = "resolved" THEN r.stage = "done"
                  ELSE /\ r.stage = "failed"
                       /\ r.code = IF outcome = "refused" THEN Execution!Refused ELSE Execution!NoCode
  <2>1. CASE outcome = "resolved"
    <3>1. op' = [op EXCEPT !["fund"] = [Execution!Off EXCEPT !.stage = "done"]]
      BY <2>1 DEF Execution!FundingEnds, Execution!Goto
    <3>2. QED
      BY <2>1, <3>1, GotoRecord DEF Uncoded
  <2>2. CASE outcome # "resolved"
    <3>1. PICK code : code = IF outcome = "refused" THEN Execution!Refused ELSE Execution!NoCode
      OBVIOUS
    <3>2. op' = [op EXCEPT !["fund"] = [Execution!Off EXCEPT !.stage = "failed", !.code = code]]
      BY <2>2, <3>1 DEF Execution!FundingEnds, Execution!FailWith
    <3>3. code \in Codes /\ code \in Uncoded
      BY <3>1 DEF Codes, Uncoded
    <3>4. QED
      BY <2>2, <3>1, <3>2, <3>3, FailRecord
  <2>3. QED
    BY <2>1, <2>2
<1>3. "fund" \in Execution!Items /\ "fund" \notin StepIds /\ r.stage \in Stages("fund")
  BY <1>2, StageFacts
<1>4. PlanInv'
  BY <1>1, <1>2, <1>3, OperationStep
<1>5. QED
  BY <1>2, <1>3, <1>4 DEF PlanInv, OperationsKept

-----------------------------------------------------------------------------
(* Transactions and their verdicts.                                        *)

\* A step has one transaction, and a transaction one verdict.
LEMMA OneVerdict ==
  ASSUME PlanInv
  PROVE  /\ \A tx \in sent : tx = [step |-> tx.step, build |-> 1]
         /\ \A v \in ledger : v.tx \in sent /\ v.tx.step \in StepIds
         /\ \A tx \in sent, v \in ledger : tx.step = v.tx.step => tx = v.tx
         /\ \A v, w \in ledger : v.tx.step = w.tx.step => v = w
<1>1. /\ \A tx \in sent : tx = [step |-> tx.step, build |-> 1] /\ tx.step \in StepIds
      /\ \A v \in ledger : v.tx \in sent
      /\ \A v, w \in ledger : v.tx = w.tx => v = w
  BY DEF PlanInv, TransactionsKept
<1>2. \A tx, ty \in sent : tx.step = ty.step => tx = ty
  BY <1>1, Zenon
<1>3. QED
  BY <1>1, <1>2

\* Once every operation is over, every step is recorded with the verdict of the ledger.
LEMMA AllRecorded ==
  ASSUME PlanInv, Operations(scenario) <= Done, NEW id \in StepIds
  PROVE  \E q \in 1..Len(steps) :
            /\ q <= Recorded(scenario, Done) /\ steps[q].id = id
            /\ steps[q].passed /\ steps[q].code # Execution!NoCode /\ Settled(id, steps[q].code)
<1>1. PICK j \in 1..Len(scenario.steps) : scenario.steps[j] = id
  BY ItemFacts DEF PlanInv, PlanKept
<1>2. scenario \in Scenarios /\ Done \in Nat
  BY HeadFacts DEF PlanInv, PlanKept
<1>3. Funds(scenario) \in Nat /\ Lead(scenario) \in Nat /\ Len(scenario.steps) \in Nat /\ Operations(scenario) \in Nat
  BY <1>2, ScenarioFacts
<1>4. 0 \in 0..Operations(scenario)
  BY <1>3
<1>5. Recorded(scenario, Done) = Funds(scenario) + Len(scenario.steps)
  BY <1>2, <1>4, RecordedFacts
<1>6. Position(scenario, Funds(scenario) + j) = Lead(scenario) + j
  BY <1>2, <1>4, RecordedFacts
<1>7. PICK q : q = Funds(scenario) + j
  OBVIOUS
<1>8. q \in 1..Recorded(scenario, Done) /\ Recorded(scenario, Done) <= Len(steps) /\ q \in 1..Len(steps)
  <2>1. Len(steps) \in Recorded(scenario, Done)..(Recorded(scenario, Done) + 1)
    BY DEF PlanInv, RecordsKept
  <2>2. QED
    BY <1>3, <1>5, <1>7, <2>1
<1>9. steps[q].passed /\ steps[q].id = Plan[Position(scenario, q)].id
  BY <1>8 DEF PlanInv, RecordsKept
<1>10. steps[q].id = id
  <2>1. Plan[Lead(scenario) + j].id = scenario.steps[j]
    BY <1>2, ItemFacts
  <2>2. QED
    BY <1>1, <1>6, <1>7, <1>9, <2>1
<1>11. steps[q].code # Execution!NoCode /\ Settled(id, steps[q].code)
  BY <1>8, <1>9, <1>10 DEF PlanInv, RecordsKept
<1>12. QED
  BY <1>8, <1>9, <1>10, <1>11

\* The step builds its transaction, the only one it will ever build, and submits it.
LEMMA TimeboundsFetchedStep ==
  ASSUME PlanInv, NEW id \in Execution!Items, Execution!TimeboundsFetched(id)
  PROVE  PlanInv' /\ op'["fund"] = op["fund"]
<1>1. PICK r : r = [Execution!Off EXCEPT !.stage = "submit"]
  OBVIOUS
<1>2. r \in Operation /\ r.stage = "submit" /\ r.code = Execution!NoCode
  BY <1>1, GotoRecord
<1>3. /\ op[id].stage = "bounds" /\ op' = [op EXCEPT ![id] = r]
      /\ UNCHANGED <<scenario, todo, racing, promise, steps, assertions, ledger>>
      /\ built' = [built EXCEPT ![id] = @ + 1]
      /\ sent' = sent \cup {[step |-> id, build |-> built'[id]]}
  BY <1>1 DEF Execution!TimeboundsFetched, Execution!Awake, Execution!Goto, Execution!recordVars
<1>4. id \in StepIds /\ r.stage \in Stages(id) /\ id # "fund"
  BY <1>2, <1>3, StageFacts
<1>5. Execution!Live(id) /\ r.stage # "off"
  BY <1>2, <1>3 DEF Execution!Live
<1>6. /\ PlanKept' /\ OperationsKept' /\ RecordsKept' /\ AssertionsKept'
      /\ op'[id] = r /\ \A x \in Execution!Items \ {id} : op'[x] = op[x]
  BY <1>2, <1>3, <1>4, <1>5, OperationMoves
<1>7. StepIds' = StepIds /\ Execution!Items' = Execution!Items /\ StepIds \subseteq Execution!Items
  BY <1>3, SameScenario, ItemFacts DEF PlanInv, PlanKept
<1>8. /\ built[id] = 0 /\ built' \in [Execution!Items -> Nat] /\ built'[id] = 1
      /\ \A x \in Execution!Items \ {id} : built'[x] = built[x]
  <2>1. built \in [Execution!Items -> Nat] /\ built[id] = 0
    BY <1>3, <1>4 DEF PlanInv, TransactionsKept
  <2>2. QED
    BY <1>3, <2>1
<1>9. TransactionsKept'
  <2>1. ASSUME NEW x \in StepIds
        PROVE  /\ built'[x] \in {0, 1}
               /\ op'[x].stage \in {"off", "load", "bounds"} => built'[x] = 0
               /\ op'[x].stage = "submit" => built'[x] = 1
    BY <1>2, <1>6, <1>7, <1>8 DEF PlanInv, TransactionsKept
  <2>2. ASSUME NEW tx \in sent'
        PROVE  tx = [step |-> tx.step, build |-> 1] /\ tx.step \in StepIds /\ built'[tx.step] = 1
    <3>1. CASE tx \in sent
      <4>1. tx = [step |-> tx.step, build |-> 1] /\ tx.step \in StepIds /\ built[tx.step] = 1
        BY <3>1 DEF PlanInv, TransactionsKept
      <4>2. QED
        BY <1>7, <1>8, <4>1
    <3>2. CASE tx = [step |-> id, build |-> built'[id]]
      BY <1>4, <1>8, <3>2
    <3>3. QED
      BY <1>3, <2>2, <3>1, <3>2
  <2>3. /\ \A v \in ledger : v.tx \in sent' /\ v.result \in Rejections \cup {Execution!Success}
        /\ \A v, w \in ledger : v.tx = w.tx => v = w
    BY <1>3 DEF PlanInv, TransactionsKept
  <2>4. QED
    BY <1>3, <1>7, <1>8, <2>1, <2>2, <2>3 DEF TransactionsKept
<1>10. VerdictsKept'
  <2>1. ASSUME NEW x \in StepIds
        PROVE  /\ op'[x].stage = "done" => Settled(x, Execution!Success)
               /\ op'[x].stage = "failed" /\ op'[x].code # Execution!NoCode => Settled(x, op'[x].code)
    BY <1>2, <1>6, <1>7 DEF PlanInv, VerdictsKept
  <2>2. \A x \in {"fund", "initial"} : op'[x].code \in Uncoded
    BY <1>4, <1>6, StageFacts DEF PlanInv, VerdictsKept
  <2>3. QED
    BY <1>3, <1>7, <2>1, <2>2 DEF VerdictsKept, Settled
<1>11. QED
  BY <1>4, <1>6, <1>9, <1>10, StageFacts DEF PlanInv

\* The ledger settles a transaction: of a step about which no assertion has been
\* evaluated yet, for those have their verdict already.
LEMMA LedgerSettlesStep ==
  ASSUME PlanInv, NEW tx \in sent, NEW answer \in Rejections \cup {Execution!Success},
         Execution!LedgerSettles(tx, answer)
  PROVE  PlanInv' /\ op'["fund"] = op["fund"]
<1>1. /\ \A v \in ledger : v.tx # tx
      /\ ledger' = ledger \cup {[tx |-> tx, result |-> answer]}
      /\ UNCHANGED <<scenario, todo, racing, op, promise, steps, assertions, built, sent>>
  BY DEF Execution!LedgerSettles, Execution!Verdict, Execution!recordVars
<1>2. Plan' = Plan /\ Done' = Done /\ StepIds' = StepIds /\ Execution!Items' = Execution!Items /\ PlanKept'
  BY <1>1, SameScenario, SamePlan DEF PlanInv
<1>3. OperationsKept'
  BY <1>1, <1>2 DEF PlanInv, OperationsKept
<1>4. TransactionsKept'
  <2>1. \A v, w \in ledger' : v.tx = w.tx => v = w
    BY <1>1 DEF PlanInv, TransactionsKept
  <2>2. \A v \in ledger' : v.tx \in sent /\ v.result \in Rejections \cup {Execution!Success}
    BY <1>1 DEF PlanInv, TransactionsKept
  <2>3. QED
    BY <1>1, <1>2, <2>1, <2>2 DEF PlanInv, TransactionsKept
<1>5. \A id, code : Settled(id, code) => Settled(id, code)'
  BY <1>1 DEF Settled
<1>6. VerdictsKept'
  BY <1>1, <1>2, <1>5 DEF PlanInv, VerdictsKept
<1>7. RecordsKept'
  BY <1>1, <1>2, <1>5 DEF PlanInv, RecordsKept
<1>8. ASSUME NEW x \in Execution!ToSet(assertions), x.a.kind # "memo", NEW code
      PROVE  (\E v \in ledger : v.tx.step = x.a.id /\ v.result = code)
                <=> (\E v \in ledger' : v.tx.step = x.a.id /\ v.result = code)
  <2>1. PICK q \in 1..Len(assertions) : x = assertions[q]
    BY DEF Execution!ToSet, PlanInv, AssertionsKept
  <2>2. x.a = scenario.assertions[q] /\ x.a.kind # "read" /\ x.a \in ToSet(scenario.assertions)
    <3>1. x.a = scenario.assertions[q] /\ x.a.kind # "read"
      BY <2>1 DEF PlanInv, AssertionsKept
    <3>2. assertions[q] \in [a : ToSet(scenario.assertions), ok : BOOLEAN]
      BY <2>1, ElementOfSeq DEF PlanInv, AssertionsKept
    <3>3. QED
      BY <2>1, <3>1, <3>2
  <2>3. Operations(scenario) <= Done
    <3>1. Len(assertions) = IF Done <= Operations(scenario) THEN 0 ELSE Done - Operations(scenario)
      BY DEF PlanInv, AssertionsKept
    <3>2. Done \in Nat /\ Operations(scenario) \in Nat
      BY HeadFacts, ItemFacts DEF PlanInv, PlanKept
    <3>3. QED
      BY <2>1, <3>1, <3>2
  <2>4. x.a.id \in StepIds
    <3>1. \A a \in ToSet(scenario.assertions) : a.kind # "read" => a.id \in ToSet(scenario.steps)
      BY ScenariosAssumption DEF PlanInv, PlanKept
    <3>2. QED
      BY <2>2, <3>1 DEF StepIds
  <2>5. PICK w \in ledger : w.tx.step = x.a.id
    BY <2>3, <2>4, AllRecorded DEF Settled
  <2>6. tx.step # x.a.id
    BY <1>1, <2>5, OneVerdict
  <2>7. QED
    BY <1>1, <2>6
<1>9. Execution!AssertionsMatchLedger'
  <2>1. Execution!AssertionsMatchLedger
    BY DEF PlanInv, AssertionsKept
  <2>2. QED
    BY <1>1, <1>8, <2>1 DEF Execution!AssertionsMatchLedger
<1>10. AssertionsKept'
  BY <1>1, <1>2, <1>9 DEF PlanInv, AssertionsKept
<1>11. QED
  BY <1>1, <1>2, <1>3, <1>4, <1>6, <1>7, <1>10 DEF PlanInv

-----------------------------------------------------------------------------
(* The loop over the plan.                                                 *)

RecordType == [id : Execution!Items, passed : BOOLEAN, code : Codes \cup {Execution!Success}]

\* A record says of a step that it passed only with a code, and only the ledger's.
Truthful(r) ==
    /\ r \in RecordType
    /\ IF r.id \in StepIds
       THEN /\ r.passed => r.code # Execution!NoCode
            /\ r.code # Execution!NoCode => Settled(r.id, r.code)
       ELSE r.code \in ({Execution!Success} \cup Uncoded)

LEMMA RecordAdded ==
  ASSUME RecordsKept, NEW r, Truthful(r), steps' = Append(steps, r), UNCHANGED <<scenario, ledger>>
  PROVE  /\ steps' \in Seq(RecordType) /\ Len(steps) \in Nat /\ Len(steps') = Len(steps) + 1
         /\ steps'[Len(steps) + 1] = r
         /\ \A q \in 1..Len(steps) : steps'[q] = steps[q]
         /\ \A q \in 1..Len(steps') :
               IF steps'[q].id \in StepIds
               THEN /\ steps'[q].passed => steps'[q].code # Execution!NoCode
                    /\ steps'[q].code # Execution!NoCode => Settled(steps'[q].id, steps'[q].code)
               ELSE steps'[q].code \in ({Execution!Success} \cup Uncoded)
<1>1. steps \in Seq(RecordType) /\ r \in RecordType
  BY DEF RecordsKept, RecordType, Truthful
<1>2. /\ steps' \in Seq(RecordType) /\ Len(steps) \in Nat /\ Len(steps') = Len(steps) + 1
      /\ steps'[Len(steps) + 1] = r
      /\ \A q \in 1..Len(steps) : steps'[q] = steps[q]
  BY <1>1, AppendProperties, LenProperties
<1>3. \A q \in 1..Len(steps') : q \in 1..Len(steps) \/ q = Len(steps) + 1
  BY <1>2
<1>4. ASSUME NEW q \in 1..Len(steps')
      PROVE  IF steps'[q].id \in StepIds
             THEN /\ steps'[q].passed => steps'[q].code # Execution!NoCode
                  /\ steps'[q].code # Execution!NoCode => Settled(steps'[q].id, steps'[q].code)
             ELSE steps'[q].code \in ({Execution!Success} \cup Uncoded)
  <2>1. CASE q \in 1..Len(steps)
    BY <1>2, <2>1 DEF RecordsKept
  <2>2. CASE q = Len(steps) + 1
    BY <1>2, <2>2 DEF Truthful
  <2>3. QED
    BY <1>3, <2>1, <2>2
<1>5. QED
  BY <1>2, <1>4

\* An item has been carried out: it is recorded as passed, unless it is a balance, and the
\* loop goes on.
LEMMA Advances ==
  ASSUME PlanInv, promise = "pending", todo # <<>>, Done < Operations(scenario),
         \/ op[Plan[Done + 1].id].stage = "done"
         \/ op[Plan[Done + 1].id].stage = "failed" /\ Plan[Done + 1].kind = "step",
         todo' = Tail(todo), racing' = "none",
         UNCHANGED <<scenario, op, promise, assertions, built, sent, ledger>>,
         IF Plan[Done + 1].kind = "balance"
         THEN steps' = steps
         ELSE \E r : /\ Truthful(r) /\ r.id = Plan[Done + 1].id /\ r.passed
                     /\ steps' = Append(steps, r)
  PROVE  PlanInv'
<1>1. /\ Plan' = Plan /\ StepIds' = StepIds /\ Execution!Items' = Execution!Items
      /\ TransactionsKept' /\ VerdictsKept'
  BY SameScenario, SameOperations DEF PlanInv
<1>2. /\ Done \in Nat /\ Len(Plan) \in Nat /\ Operations(scenario) \in Nat /\ Operations(scenario) <= Len(Plan)
      /\ Done' = Done + 1 /\ Tail(todo) = SubSeq(Plan, Done + 2, Len(Plan)) /\ scenario \in Scenarios
  <2>1. scenario \in Scenarios /\ PlanKept
    BY DEF PlanInv, PlanKept
  <2>2. Done' = Len(Plan) - Len(Tail(todo))
    BY <1>1 DEF Done
  <2>3. QED
    BY <2>1, <2>2, HeadFacts, ItemFacts
<1>3. PICK d : d = Done
  OBVIOUS
<1>4. /\ d \in Nat /\ Done' = d + 1 /\ d + 1 \in 0..Len(Plan) /\ d + 1 <= Operations(scenario)
      /\ d + 2 = (d + 1) + 1
  BY <1>2, <1>3
<1>5. PlanKept'
  <2>1. todo' = SubSeq(Plan, (d + 1) + 1, Len(Plan))
    BY <1>2, <1>3, <1>4
  <2>2. QED
    BY <1>1, <1>2, <1>4, <2>1 DEF PlanKept
<1>6. OperationsKept'
  <2>1. ASSUME NEW i \in 1..Operations(scenario)
        PROVE  /\ i <= d + 1 => \/ op[Plan[i].id].stage = "done"
                                \/ op[Plan[i].id].stage = "failed" /\ Plan[i].kind = "step"
               /\ op[Plan[i].id].stage # "off" => i <= d + 1
    <3>1. /\ i <= d => \/ op[Plan[i].id].stage = "done"
                       \/ op[Plan[i].id].stage = "failed" /\ Plan[i].kind = "step"
          /\ op[Plan[i].id].stage # "off" => i <= d \/ i = d + 1
      BY <1>3 DEF PlanInv, OperationsKept
    <3>2. CASE i = d + 1
      BY <1>3, <3>2
    <3>3. CASE i # d + 1
      BY <1>4, <3>1, <3>3
    <3>4. QED
      BY <3>2, <3>3
  <2>2. QED
    BY <1>1, <1>4, <2>1 DEF PlanInv, OperationsKept
<1>7. AssertionsKept'
  <2>1. Len(assertions) = 0
    <3>1. Len(assertions) = IF Done <= Operations(scenario) THEN 0 ELSE Done - Operations(scenario)
      BY DEF PlanInv, AssertionsKept
    <3>2. Done <= Operations(scenario)
      BY <1>2
    <3>3. QED
      BY <3>1, <3>2
  <2>2. Len(assertions) = IF d + 1 <= Operations(scenario) THEN 0 ELSE (d + 1) - Operations(scenario)
    BY <1>4, <2>1
  <2>3. Execution!AssertionsMatchLedger'
    BY DEF PlanInv, AssertionsKept, Execution!AssertionsMatchLedger
  <2>4. QED
    BY <1>1, <1>4, <2>2, <2>3 DEF PlanInv, AssertionsKept
<1>8. RecordsKept'
  <2>1. d \in 0..Operations(scenario) /\ d < Operations(scenario)
    BY <1>2, <1>3
  <2>2. PICK n \in Nat : n = Recorded(scenario, d)
    BY <1>2, <2>1, RecordedFacts
  <2>3. Len(steps) = n /\ \A q \in 1..n : steps[q].passed /\ steps[q].id = Plan[Position(scenario, q)].id
    BY <1>3, <2>2 DEF PlanInv, RecordsKept
  <2>4. Plan[d + 1].kind = "balance" <=> Funds(scenario) < d + 1 /\ d + 1 <= Lead(scenario)
    BY <1>2, <1>4, ItemFacts
  <2>5. CASE Plan[d + 1].kind = "balance"
    <3>1. Recorded(scenario, d + 1) = n
      BY <1>2, <2>1, <2>2, <2>4, <2>5, RecordedFacts
    <3>2. steps' = steps
      BY <1>3, <2>5
    <3>3. n \in n..(n + 1)
      OBVIOUS
    <3>4. QED
      BY <1>1, <1>4, <2>3, <3>1, <3>2, <3>3 DEF PlanInv, RecordsKept, Settled
  <2>6. CASE Plan[d + 1].kind # "balance"
    <3>1. Recorded(scenario, d + 1) = n + 1 /\ Position(scenario, n + 1) = d + 1
      BY <1>2, <2>1, <2>2, <2>4, <2>6, RecordedFacts
    <3>2. PICK r : Truthful(r) /\ r.id = Plan[d + 1].id /\ r.passed /\ steps' = Append(steps, r)
      BY <1>3, <2>6
    <3>3. /\ steps' \in Seq(RecordType) /\ Len(steps') = n + 1 /\ steps'[n + 1] = r
          /\ \A q \in 1..n : steps'[q] = steps[q]
          /\ \A q \in 1..Len(steps') :
               IF steps'[q].id \in StepIds
               THEN /\ steps'[q].passed => steps'[q].code # Execution!NoCode
                    /\ steps'[q].code # Execution!NoCode => Settled(steps'[q].id, steps'[q].code)
               ELSE steps'[q].code \in ({Execution!Success} \cup Uncoded)
      BY <2>3, <3>2, RecordAdded DEF PlanInv
    <3>4. ASSUME NEW q \in 1..(n + 1)
          PROVE  steps'[q].passed /\ steps'[q].id = Plan[Position(scenario, q)].id
      <4>1. CASE q \in 1..n
        BY <2>3, <3>3, <4>1
      <4>2. CASE q = n + 1
        BY <3>1, <3>2, <3>3, <4>2
      <4>3. QED
        BY <2>2, <4>1, <4>2
    <3>5. n + 1 \in (n + 1)..(n + 2)
      BY <2>2
    <3>6. RecordType' = RecordType
      BY <1>1 DEF RecordType
    <3>7. QED
      BY <1>1, <1>4, <3>1, <3>3, <3>4, <3>5, <3>6 DEF RecordsKept, RecordType, Settled
  <2>7. QED
    BY <2>5, <2>6
<1>9. QED
  BY <1>1, <1>5, <1>6, <1>7, <1>8 DEF PlanInv

\* The promise is rejected, after a last record or none.
LEMMA Rejects ==
  ASSUME PlanInv, promise = "pending", promise' = "rejected", racing' = "none",
         UNCHANGED <<scenario, todo, assertions, ledger>>,
         steps' = steps \/ \E r : Truthful(r) /\ steps' = Append(steps, r)
  PROVE  /\ PlanKept' /\ RecordsKept' /\ AssertionsKept'
         /\ op' = op /\ UNCHANGED <<built, sent>> => PlanInv'
<1>1. Plan' = Plan /\ StepIds' = StepIds /\ Execution!Items' = Execution!Items /\ Done' = Done
  BY SameScenario DEF Done
<1>2. PlanKept'
  BY <1>1 DEF PlanInv, PlanKept
<1>3. AssertionsKept'
  BY <1>1 DEF PlanInv, AssertionsKept, Execution!AssertionsMatchLedger
<1>4. PICK n : n = Recorded(scenario, Done)
  OBVIOUS
<1>5. n \in Nat
  <2>1. Done \in Nat /\ scenario \in Scenarios
    BY HeadFacts DEF PlanInv, PlanKept
  <2>2. Operations(scenario) \in Nat /\ Funds(scenario) + Len(scenario.steps) \in Nat
    BY <2>1, ScenarioFacts
  <2>3. CASE Done <= Operations(scenario)
    <3>1. Done \in 0..Operations(scenario)
      BY <2>1, <2>2, <2>3
    <3>2. QED
      BY <1>4, <2>1, <3>1, RecordedFacts
  <2>4. CASE Operations(scenario) <= Done
    <3>1. 0 \in 0..Operations(scenario)
      BY <2>2
    <3>2. Recorded(scenario, Done) = Funds(scenario) + Len(scenario.steps)
      BY <2>1, <2>4, <3>1, RecordedFacts
    <3>3. QED
      BY <1>4, <2>2, <3>2
  <2>5. QED
    BY <2>1, <2>2, <2>3, <2>4
<1>6. Len(steps) = n /\ \A q \in 1..n : steps[q].passed /\ steps[q].id = Plan[Position(scenario, q)].id
  BY <1>4 DEF PlanInv, RecordsKept
<1>7. RecordsKept'
  <2>1. CASE steps' = steps
    <3>1. n \in n..(n + 1)
      BY <1>5
    <3>2. QED
      BY <1>1, <1>4, <1>6, <2>1, <3>1 DEF PlanInv, RecordsKept, Settled
  <2>2. ASSUME NEW r, Truthful(r), steps' = Append(steps, r) PROVE RecordsKept'
    <3>1. /\ steps' \in Seq(RecordType) /\ Len(steps') = n + 1
          /\ \A q \in 1..n : steps'[q] = steps[q]
          /\ \A q \in 1..Len(steps') :
               IF steps'[q].id \in StepIds
               THEN /\ steps'[q].passed => steps'[q].code # Execution!NoCode
                    /\ steps'[q].code # Execution!NoCode => Settled(steps'[q].id, steps'[q].code)
               ELSE steps'[q].code \in ({Execution!Success} \cup Uncoded)
      BY <1>6, <2>2, RecordAdded DEF PlanInv
    <3>2. n + 1 \in n..(n + 1)
      BY <1>5
    <3>3. RecordType' = RecordType
      BY <1>1 DEF RecordType
    <3>4. \A q \in 1..n : steps'[q].passed /\ steps'[q].id = Plan[Position(scenario, q)].id
      BY <1>6, <3>1
    <3>5. QED
      BY <1>1, <1>4, <3>1, <3>2, <3>3, <3>4 DEF RecordsKept, RecordType, Settled
  <2>3. QED
    BY <2>1, <2>2
<1>8. ASSUME op' = op, UNCHANGED <<built, sent>> PROVE PlanInv'
  <2>1. TransactionsKept' /\ VerdictsKept'
    BY <1>8, SameOperations DEF PlanInv
  <2>2. OperationsKept'
    BY <1>1, <1>8 DEF PlanInv, OperationsKept
  <2>3. QED
    BY <1>2, <1>3, <1>7, <2>1, <2>2 DEF PlanInv
<1>9. QED
  BY <1>2, <1>3, <1>7, <1>8

\* What is raced is the first operation of what is left to do.
LEMMA RacingFacts ==
  ASSUME PlanInv, racing # "none"
  PROVE  /\ promise = "pending" /\ todo # <<>> /\ Done < Operations(scenario)
         /\ Head(todo) = Plan[Done + 1] /\ racing = Head(todo).id
         /\ racing \in Execution!Items /\ op[racing] \in Operation
         /\ Head(todo).kind = "step" <=> racing \in StepIds
         /\ Head(todo).kind = "required" <=> racing = "fund"
         /\ Head(todo).kind = "balance" <=> racing = "initial"
<1>1. /\ PlanKept /\ scenario \in Scenarios
      /\ promise = "pending" /\ Done < Operations(scenario) /\ racing = Plan[Done + 1].id
  BY DEF PlanInv, PlanKept
<1>2. /\ Done \in Nat /\ Operations(scenario) \in Nat /\ Operations(scenario) <= Len(Plan)
      /\ Len(Plan) \in Nat
  BY <1>1, HeadFacts, ItemFacts
<1>3. todo # <<>> /\ Head(todo) = Plan[Done + 1]
  BY <1>1, <1>2, HeadFacts
<1>4. Done + 1 \in 1..Operations(scenario)
  BY <1>1, <1>2
<1>5. /\ Plan[Done + 1].id \in Execution!Items
      /\ Plan[Done + 1].kind = "step" <=> Plan[Done + 1].id \in StepIds
      /\ Plan[Done + 1].kind = "required" <=> Plan[Done + 1].id = "fund"
      /\ Plan[Done + 1].kind = "balance" <=> Plan[Done + 1].id = "initial"
  BY <1>1, <1>4, ItemFacts
<1>6. QED
  BY <1>1, <1>3, <1>5 DEF PlanInv, OperationsKept

\* An expected failure has a code: it is none that the gateway makes up.
LEMMA ExpectedHasCode ==
  ASSUME scenario \in Scenarios, NEW item, NEW code, Execution!Matches(item, code)
  PROVE  item.kind = "step" /\ code # Execution!NoCode
<1>1. /\ item.kind = "step"
      /\ \E i \in DOMAIN scenario.assertions :
            scenario.assertions[i].kind = "failedWith" /\ code = scenario.assertions[i].code
  BY DEF Execution!Matches, Execution!Expectations
<1>2. DOMAIN scenario.assertions = 1..Len(scenario.assertions)
  BY ScenarioFacts
<1>3. QED
  BY <1>1, <1>2, ScenarioFacts

LEMMA SuccessIsACode == Execution!Success # Execution!NoCode
BY DEF Execution!Success, Execution!NoCode

\* The record of an item: its fields, and when it is truthful.
LEMMA RecordFacts ==
  ASSUME NEW id \in Execution!Items, NEW passed \in BOOLEAN, NEW code \in Codes \cup {Execution!Success},
         id \in StepIds => /\ passed => code # Execution!NoCode
                           /\ code # Execution!NoCode => Settled(id, code),
         id \notin StepIds => code \in ({Execution!Success} \cup Uncoded)
  PROVE  LET r == [id |-> id, passed |-> passed, code |-> code]
         IN  Truthful(r) /\ r.id = id /\ r.passed = passed
BY DEF Truthful, RecordType

LEMMA ItemSucceedsStep ==
  ASSUME PlanInv, Execution!ItemSucceeds
  PROVE  PlanInv' /\ op' = op
<1>1. /\ racing # "none" /\ op[racing].stage = "done"
      /\ IF Head(todo).kind = "balance" THEN steps' = steps
         ELSE steps' = Append(steps, [id |-> racing, passed |-> TRUE, code |-> Execution!Success])
      /\ todo' = Tail(todo) /\ racing' = "none"
      /\ UNCHANGED <<scenario, op, promise, assertions, built, sent, ledger>>
  BY DEF Execution!ItemSucceeds, Execution!RecordStep, Execution!networkVars
<1>2. /\ promise = "pending" /\ todo # <<>> /\ Done < Operations(scenario)
      /\ Head(todo) = Plan[Done + 1] /\ racing = Plan[Done + 1].id /\ racing \in Execution!Items
  BY <1>1, RacingFacts
<1>3. racing \in StepIds => Settled(racing, Execution!Success)
  BY <1>1 DEF PlanInv, VerdictsKept
<1>4. PICK r : r = [id |-> racing, passed |-> TRUE, code |-> Execution!Success]
  OBVIOUS
<1>5. Truthful(r) /\ r.id = racing /\ r.passed
  BY <1>2, <1>3, <1>4, SuccessIsACode, RecordFacts
<1>6. PlanInv'
  BY <1>1, <1>2, <1>4, <1>5, Advances
<1>7. QED
  BY <1>1, <1>6

\* A failed item is recorded, unless it is a balance. If it is an expected failure of a
\* step the loop goes on, else the promise is rejected.
LEMMA OperationFailsStep ==
  ASSUME PlanInv, Execution!OperationFails
  PROVE  PlanInv' /\ op' = op
<1>1. PICK item, code, expected :
        item = Head(todo) /\ code = op[racing].code /\ expected = Execution!Matches(item, code)
  OBVIOUS
<1>2. /\ racing # "none" /\ op[racing].stage = "failed"
      /\ IF item.kind = "balance" THEN steps' = steps
         ELSE steps' = Append(steps, [id |-> item.id, passed |-> expected, code |-> code])
      /\ IF expected THEN todo' = Tail(todo) /\ promise' = promise ELSE promise' = "rejected" /\ todo' = todo
      /\ racing' = "none"
      /\ UNCHANGED <<scenario, op, assertions, built, sent, ledger>>
  BY <1>1 DEF Execution!OperationFails, Execution!ItemFails, Execution!RecordStep, Execution!networkVars
<1>3. /\ promise = "pending" /\ todo # <<>> /\ Done < Operations(scenario)
      /\ item = Plan[Done + 1] /\ item.id = racing /\ racing \in Execution!Items /\ op[racing] \in Operation
      /\ item.kind = "step" <=> racing \in StepIds
  BY <1>1, <1>2, RacingFacts
<1>4. expected \in BOOLEAN /\ (expected => item.kind = "step" /\ code # Execution!NoCode)
  BY <1>1, ExpectedHasCode DEF Execution!Matches, PlanInv, PlanKept
<1>5. code \in Codes \cup {Execution!Success} /\ (racing \notin StepIds => code \in Uncoded)
  BY <1>1, <1>3, StageFacts DEF Operation, PlanInv, VerdictsKept
<1>6. racing \in StepIds /\ code # Execution!NoCode => Settled(racing, code)
  BY <1>1, <1>2 DEF PlanInv, VerdictsKept
<1>7. PICK r : r = [id |-> item.id, passed |-> expected, code |-> code]
  OBVIOUS
<1>8. Truthful(r) /\ r.id = racing /\ r.passed = expected
  BY <1>3, <1>4, <1>5, <1>6, <1>7, RecordFacts
<1>9. CASE expected
  <2>1. todo' = Tail(todo) /\ promise' = promise
    BY <1>2, <1>9
  <2>2. item.kind # "balance" /\ steps' = Append(steps, r) /\ item.kind = "step"
    BY <1>2, <1>4, <1>7, <1>9
  <2>3. r.passed
    BY <1>8, <1>9
  <2>4. PlanInv'
    BY <1>2, <1>3, <1>8, <2>1, <2>2, <2>3, Advances
  <2>5. QED
    BY <1>2, <2>4
<1>10. CASE ~expected
  <2>1. promise' = "rejected" /\ todo' = todo
    BY <1>2, <1>10
  <2>2. steps' = steps \/ steps' = Append(steps, r)
    BY <1>2, <1>7
  <2>3. PlanInv'
    BY <1>2, <1>3, <1>8, <2>1, <2>2, Rejects
  <2>4. QED
    BY <1>2, <2>3
<1>11. QED
  BY <1>4, <1>9, <1>10

\* A failure without a code rejects the promise.
LEMMA FailsWithoutCode ==
  ASSUME PlanInv, promise = "pending", todo # <<>>, Done < Operations(scenario),
         Execution!ItemFails(Execution!NoCode), UNCHANGED <<scenario, assertions, ledger>>
  PROVE  /\ promise' = "rejected" /\ racing' = "none" /\ todo' = todo
         /\ PlanKept' /\ RecordsKept' /\ AssertionsKept'
         /\ op' = op /\ UNCHANGED <<built, sent>> => PlanInv'
<1>1. PICK item : item = Head(todo)
  OBVIOUS
<1>2. ~Execution!Matches(item, Execution!NoCode) /\ Execution!Matches(item, Execution!NoCode) \in BOOLEAN
  BY ExpectedHasCode DEF PlanInv, PlanKept, Execution!Matches
<1>3. PICK expected \in BOOLEAN : expected = Execution!Matches(item, Execution!NoCode) /\ ~expected
  BY <1>2
<1>4. /\ \/ steps' = steps
         \/ steps' = Append(steps, [id |-> item.id, passed |-> expected, code |-> Execution!NoCode])
      /\ promise' = "rejected" /\ todo' = todo /\ racing' = "none"
  BY <1>1, <1>3 DEF Execution!ItemFails, Execution!RecordStep
<1>5. PICK r : r = [id |-> item.id, passed |-> expected, code |-> Execution!NoCode]
  OBVIOUS
<1>6. item.id \in Execution!Items
  <2>1. PlanKept /\ scenario \in Scenarios
    BY DEF PlanInv, PlanKept
  <2>2. Done + 1 \in 1..Operations(scenario)
    BY <2>1, HeadFacts, ItemFacts
  <2>3. item = Plan[Done + 1]
    BY <1>1, <2>1, HeadFacts
  <2>4. QED
    BY <2>1, <2>2, <2>3, ItemFacts
<1>7. Truthful(r)
  BY <1>3, <1>5, <1>6, RecordFacts DEF Codes, Uncoded
<1>8. QED
  BY <1>4, <1>5, <1>7, Rejects

\* The timer of a step fires. If the step is the funding, its controller stops the pool.
LEMMA StepTimesOutStep ==
  ASSUME PlanInv, Execution!StepTimesOut
  PROVE  /\ PlanInv'
         /\ IF racing = "fund"
            THEN op["fund"].stage = "fund" /\ op'["fund"].stage = "failed" /\ op'["fund"].code = Execution!NoCode
            ELSE op' = op
<1>1. /\ racing # "none" /\ Execution!Live(racing) /\ Execution!ItemFails(Execution!NoCode)
      /\ IF racing = "fund" THEN Execution!FailWith("fund", Execution!NoCode) ELSE op' = op
      /\ UNCHANGED <<scenario, assertions, ledger, built, sent>>
  BY DEF Execution!StepTimesOut, Execution!networkVars
<1>2. /\ promise = "pending" /\ todo # <<>> /\ Done < Operations(scenario) /\ racing \in Execution!Items
      /\ racing = Head(todo).id /\ Head(todo) = Plan[Done + 1]
  BY <1>1, RacingFacts
<1>3. /\ promise' = "rejected" /\ racing' = "none" /\ todo' = todo
      /\ PlanKept' /\ RecordsKept' /\ AssertionsKept'
      /\ op' = op /\ UNCHANGED <<built, sent>> => PlanInv'
  BY <1>1, <1>2, FailsWithoutCode
<1>4. CASE racing # "fund"
  BY <1>1, <1>3, <1>4
<1>5. CASE racing = "fund"
  <2>1. PICK r : r = [Execution!Off EXCEPT !.stage = "failed", !.code = Execution!NoCode]
    OBVIOUS
  <2>2. r \in Operation /\ r.stage = "failed" /\ r.code = Execution!NoCode
    BY <2>1, FailRecord DEF Codes, Uncoded
  <2>3. op' = [op EXCEPT !["fund"] = r]
    BY <1>1, <1>5, <2>1 DEF Execution!FailWith
  <2>4. /\ op'["fund"] = r /\ \A x \in Execution!Items \ {"fund"} : op'[x] = op[x]
        /\ op' \in [Execution!Items -> Operation] /\ \A x \in Execution!Items : op'[x].stage \in Stages(x)
    BY <2>2, <2>3, StageFacts DEF PlanInv, OperationsKept
  <2>5. /\ Plan' = Plan /\ Done' = Done /\ StepIds' = StepIds /\ Execution!Items' = Execution!Items
        /\ StepIds \subseteq Execution!Items \ {"fund"}
    BY <1>1, <1>3, SameScenario, StageFacts DEF Done
  <2>6. OperationsKept'
    <3>1. ASSUME NEW i \in 1..Operations(scenario)
          PROVE  /\ i <= Done => \/ op'[Plan[i].id].stage = "done"
                                 \/ op'[Plan[i].id].stage = "failed" /\ Plan[i].kind = "step"
                 /\ op'[Plan[i].id].stage # "off" => i <= Done \/ i = Done + 1
      <4>1. /\ i <= Done => \/ op[Plan[i].id].stage = "done"
                            \/ op[Plan[i].id].stage = "failed" /\ Plan[i].kind = "step"
            /\ op[Plan[i].id].stage # "off" => i <= Done \/ i = Done + 1
        BY DEF PlanInv, OperationsKept
      <4>2. Plan[i].id \in Execution!Items
        BY ItemFacts DEF PlanInv, PlanKept
      <4>3. CASE Plan[i].id # "fund"
        BY <2>4, <4>1, <4>2, <4>3
      <4>4. CASE Plan[i].id = "fund"
        <5>1. Done + 1 \in 1..Operations(scenario) /\ Done \in Nat
          BY <1>2, HeadFacts, ItemFacts DEF PlanInv, PlanKept
        <5>2. i = Done + 1
          BY <1>2, <1>5, <4>4, <5>1, ItemFacts DEF PlanInv, PlanKept
        <5>3. QED
          BY <5>1, <5>2
      <4>5. QED
        BY <4>3, <4>4
    <3>2. QED
      BY <1>1, <1>3, <2>4, <2>5, <3>1 DEF OperationsKept
  <2>7. TransactionsKept'
    BY <1>1, <2>4, <2>5 DEF PlanInv, TransactionsKept
  <2>8. VerdictsKept'
    <3>1. \A x \in StepIds : op'[x] = op[x]
      BY <2>4, <2>5
    <3>2. \A x \in {"fund", "initial"} : op'[x].code \in Uncoded
      BY <2>2, <2>4, StageFacts DEF PlanInv, VerdictsKept, Uncoded
    <3>3. QED
      BY <1>1, <2>5, <3>1, <3>2 DEF PlanInv, VerdictsKept, Settled
  <2>9. op["fund"].stage = "fund"
    BY <1>1, <1>5, StageFacts DEF Execution!Live
  <2>10. QED
    BY <1>3, <1>5, <2>2, <2>4, <2>6, <2>7, <2>8, <2>9 DEF PlanInv
<1>6. QED
  BY <1>4, <1>5

\* The loop is at an item when nothing is raced.
LEMMA IdleFacts ==
  ASSUME PlanInv, Execution!Idle
  PROVE  /\ PlanKept /\ scenario \in Scenarios /\ promise = "pending" /\ racing = "none" /\ todo # <<>>
         /\ Done \in Nat /\ Len(Plan) \in Nat /\ Operations(scenario) \in Nat /\ Done < Len(Plan)
         /\ Head(todo) = Plan[Done + 1] /\ Done + 1 \in 1..Len(Plan)
         /\ Head(todo).kind \in OperationKinds <=> Done < Operations(scenario)
<1>1. /\ PlanKept /\ scenario \in Scenarios /\ promise = "pending" /\ racing = "none" /\ todo # <<>>
  BY DEF PlanInv, PlanKept, Execution!Idle
<1>2. /\ Done \in Nat /\ Len(Plan) \in Nat /\ Operations(scenario) \in Nat /\ Done < Len(Plan)
      /\ Head(todo) = Plan[Done + 1]
  BY <1>1, HeadFacts, ItemFacts
<1>3. Done + 1 \in 1..Len(Plan)
  BY <1>2
<1>4. Plan[Done + 1].kind \in OperationKinds <=> Done + 1 <= Operations(scenario)
  BY <1>1, <1>3, ItemFacts
<1>5. QED
  BY <1>1, <1>2, <1>3, <1>4

\* A run that was aborted rejects the promise instead of starting an operation.
LEMMA StepRefusedStep ==
  ASSUME PlanInv, Execution!StepRefused
  PROVE  PlanInv' /\ op' = op
<1>1. /\ Execution!Idle /\ Head(todo).kind \in OperationKinds
      /\ Execution!ItemFails(Execution!NoCode)
      /\ UNCHANGED <<scenario, op, assertions, ledger, built, sent>>
  BY DEF Execution!StepRefused, Execution!networkVars, OperationKinds
<1>2. promise = "pending" /\ todo # <<>> /\ Done < Operations(scenario)
  BY <1>1, IdleFacts
<1>3. PlanInv'
  BY <1>1, <1>2, FailsWithoutCode
<1>4. QED
  BY <1>1, <1>3

\* The loop starts the operation of the next item.
LEMMA BeginStep ==
  ASSUME PlanInv, Execution!Begin
  PROVE  /\ PlanInv'
         /\ op'["fund"] = op["fund"] \/ (op["fund"].stage = "off" /\ op'["fund"].stage = "fund")
<1>1. PICK id, stage : id = Head(todo).id /\ stage = Execution!FirstStage(Head(todo))
  OBVIOUS
<1>2. /\ Execution!Idle /\ Head(todo).kind \in OperationKinds
      /\ op' = [op EXCEPT ![id] = [Execution!Off EXCEPT !.stage = stage]] /\ racing' = id
      /\ UNCHANGED <<scenario, todo, promise, steps, assertions, ledger, built, sent>>
  BY <1>1 DEF Execution!Begin, Execution!Goto, Execution!recordVars, Execution!networkVars, OperationKinds
<1>3. /\ PlanKept /\ scenario \in Scenarios /\ promise = "pending" /\ racing = "none" /\ todo # <<>>
      /\ Done \in Nat /\ Operations(scenario) \in Nat /\ Done < Operations(scenario)
      /\ Head(todo) = Plan[Done + 1]
  BY <1>2, IdleFacts
<1>4. Done + 1 \in 1..Operations(scenario)
  BY <1>3
<1>5. /\ id \in Execution!Items /\ id # "none" /\ id = Plan[Done + 1].id
      /\ Head(todo).kind = "step" <=> id \in StepIds
      /\ Head(todo).kind = "required" <=> id = "fund"
      /\ Head(todo).kind = "balance" <=> id = "initial"
  BY <1>1, <1>3, <1>4, ItemFacts
<1>6. /\ Head(todo).kind = "required" => stage = "fund"
      /\ Head(todo).kind = "balance" => stage = "read"
      /\ Head(todo).kind = "step" => stage = "load"
  BY <1>1 DEF Execution!FirstStage
<1>7. stage \in {"fund", "read", "load"} /\ stage \in Stages(id) /\ (id \in StepIds => stage = "load")
  <2>1. Head(todo).kind = "required" \/ Head(todo).kind = "balance" \/ Head(todo).kind = "step"
    BY <1>2 DEF OperationKinds
  <2>2. QED
    BY <1>5, <1>6, <2>1, StageFacts
<1>8. PICK r \in Operation : /\ r.stage = stage /\ r.code = Execution!NoCode
                             /\ op' = [op EXCEPT ![id] = r]
  BY <1>2, <1>7, GotoRecord
<1>9. /\ op'[id] = r /\ \A x \in Execution!Items \ {id} : op'[x] = op[x]
      /\ op' \in [Execution!Items -> Operation] /\ \A x \in Execution!Items : op'[x].stage \in Stages(x)
  BY <1>5, <1>7, <1>8 DEF PlanInv, OperationsKept
<1>10. /\ Plan' = Plan /\ Done' = Done /\ StepIds' = StepIds /\ Execution!Items' = Execution!Items
       /\ StepIds \subseteq Execution!Items
  BY <1>2, SameScenario, StageFacts DEF Done
<1>11. op[id].stage = "off"
  <2>1. op[Plan[Done + 1].id].stage # "off" => Done + 1 <= Done
    BY <1>3, <1>4 DEF PlanInv, OperationsKept
  <2>2. QED
    BY <1>3, <1>5, <2>1
<1>12. PlanKept'
  BY <1>2, <1>3, <1>5, <1>10 DEF PlanKept
<1>13. OperationsKept'
  <2>1. ASSUME NEW i \in 1..Operations(scenario)
        PROVE  /\ i <= Done => \/ op'[Plan[i].id].stage = "done"
                               \/ op'[Plan[i].id].stage = "failed" /\ Plan[i].kind = "step"
               /\ op'[Plan[i].id].stage # "off" => i <= Done \/ i = Done + 1
    <3>1. /\ i <= Done => \/ op[Plan[i].id].stage = "done"
                          \/ op[Plan[i].id].stage = "failed" /\ Plan[i].kind = "step"
          /\ op[Plan[i].id].stage # "off" => i <= Done \/ i = Done + 1
      BY DEF PlanInv, OperationsKept
    <3>2. Plan[i].id \in Execution!Items
      BY <1>3, ItemFacts
    <3>3. CASE Plan[i].id # id
      BY <1>9, <3>1, <3>2, <3>3
    <3>4. CASE Plan[i].id = id
      <4>1. i = Done + 1
        BY <1>3, <1>4, <1>5, <3>4, ItemFacts
      <4>2. QED
        BY <1>3, <4>1
    <3>5. QED
      BY <3>3, <3>4
  <2>2. op'[racing'].stage # "off"
    BY <1>2, <1>7, <1>8, <1>9
  <2>3. QED
    BY <1>2, <1>5, <1>9, <1>10, <2>1, <2>2 DEF OperationsKept
<1>14. TransactionsKept'
  <2>1. ASSUME NEW x \in StepIds
        PROVE  /\ op'[x].stage \in {"off", "load", "bounds"} => built[x] = 0
               /\ op'[x].stage = "submit" => built[x] = 1
    <3>1. /\ op[x].stage \in {"off", "load", "bounds"} => built[x] = 0
          /\ op[x].stage = "submit" => built[x] = 1
      BY DEF PlanInv, TransactionsKept
    <3>2. CASE x # id
      BY <1>9, <1>10, <3>1, <3>2
    <3>3. CASE x = id
      BY <1>7, <1>8, <1>9, <1>11, <3>1, <3>3
    <3>4. QED
      BY <3>2, <3>3
  <2>2. QED
    BY <1>2, <1>10, <2>1 DEF PlanInv, TransactionsKept
<1>15. VerdictsKept'
  <2>1. ASSUME NEW x \in StepIds
        PROVE  /\ op'[x].stage = "done" => Settled(x, Execution!Success)
               /\ op'[x].stage = "failed" /\ op'[x].code # Execution!NoCode => Settled(x, op'[x].code)
    BY <1>7, <1>8, <1>9, <1>10 DEF PlanInv, VerdictsKept
  <2>2. \A x \in {"fund", "initial"} : op'[x].code \in Uncoded
    BY <1>8, <1>9, StageFacts DEF PlanInv, VerdictsKept, Uncoded
  <2>3. QED
    BY <1>2, <1>10, <2>1, <2>2 DEF VerdictsKept, Settled
<1>16. RecordsKept' /\ AssertionsKept'
  BY <1>2, SameRecords DEF PlanInv
<1>17. op'["fund"] = op["fund"] \/ (op["fund"].stage = "off" /\ op'["fund"].stage = "fund")
  <2>1. CASE id = "fund"
    BY <1>5, <1>6, <1>8, <1>9, <1>11, <2>1
  <2>2. CASE id # "fund"
    BY <1>9, <2>2, StageFacts
  <2>3. QED
    BY <2>1, <2>2
<1>18. QED
  BY <1>12, <1>13, <1>14, <1>15, <1>16, <1>17 DEF PlanInv

\* The outcome an assertion looks up is the ledger's, once every operation is over.
LEMMA OutcomeFacts ==
  ASSUME PlanInv, promise = "pending", Operations(scenario) <= Done, NEW id \in StepIds
  PROVE  \A code : Execution!OutcomeOf(id).code = code <=> Settled(id, code)
<1>1. \E r \in Execution!ToSet(steps) : r.id = id
  <2>1. PICK q \in 1..Len(steps) : steps[q].id = id
    BY AllRecorded
  <2>2. DOMAIN steps = 1..Len(steps)
    BY LenProperties DEF PlanInv, RecordsKept
  <2>3. QED
    BY <2>1, <2>2 DEF Execution!ToSet
<1>2. PICK r \in Execution!ToSet(steps) : r = Execution!OutcomeOf(id) /\ r.id = id
  BY <1>1 DEF Execution!OutcomeOf
<1>3. PICK q \in 1..Len(steps) : r = steps[q]
  <2>1. DOMAIN steps = 1..Len(steps)
    BY LenProperties DEF PlanInv, RecordsKept
  <2>2. QED
    BY <1>2, <2>1 DEF Execution!ToSet
<1>4. r.passed
  <2>1. Len(steps) = Recorded(scenario, Done)
    BY DEF PlanInv, RecordsKept
  <2>2. QED
    BY <1>3, <2>1 DEF PlanInv, RecordsKept
<1>5. Settled(id, r.code)
  BY <1>2, <1>3, <1>4 DEF PlanInv, RecordsKept
<1>6. ASSUME NEW code, Settled(id, code) PROVE r.code = code
  BY <1>5, <1>6, OneVerdict DEF Settled
<1>7. QED
  BY <1>2, <1>5, <1>6

\* An assertion the ledger need not be read for is recorded with the truth about the
\* ledger; any other rejects the promise.
LEMMA EvaluateAssertionStep ==
  ASSUME PlanInv, Execution!EvaluateAssertion
  PROVE  PlanInv' /\ op' = op
<1>1. PICK a : a = Head(todo)
  OBVIOUS
<1>2. /\ Execution!Idle /\ a.kind \notin OperationKinds
      /\ UNCHANGED <<scenario, racing, op, steps, built, sent, ledger>>
  BY <1>1 DEF Execution!EvaluateAssertion, Execution!networkVars, OperationKinds
<1>3. PICK d : d = Done
  OBVIOUS
<1>4. /\ PlanKept /\ scenario \in Scenarios /\ promise = "pending" /\ racing = "none" /\ todo # <<>>
      /\ d \in Nat /\ Len(Plan) \in Nat /\ Operations(scenario) \in Nat /\ d < Len(Plan)
      /\ a = Plan[d + 1] /\ Operations(scenario) <= d
  BY <1>1, <1>2, <1>3, IdleFacts
<1>5. CASE Execution!ReadsLedger(a)
  <2>1. promise' = "rejected" /\ UNCHANGED <<todo, assertions>>
    BY <1>1, <1>5 DEF Execution!EvaluateAssertion
  <2>2. QED
    BY <1>2, <1>4, <2>1, Rejects
<1>6. CASE ~Execution!ReadsLedger(a)
  <2>1. PICK x : x = [a |-> a, ok |-> Execution!Holds(a)]
    OBVIOUS
  <2>2. assertions' = Append(assertions, x) /\ todo' = Tail(todo) /\ promise' = promise
    BY <1>1, <1>6, <2>1 DEF Execution!EvaluateAssertion
  <2>3. /\ Plan' = Plan /\ StepIds' = StepIds /\ Execution!Items' = Execution!Items
        /\ TransactionsKept' /\ VerdictsKept'
    BY <1>2, SameScenario, SameOperations DEF PlanInv
  <2>4. Done' = d + 1 /\ todo' = SubSeq(Plan, d + 2, Len(Plan))
    <3>1. Done' = Len(Plan) - Len(Tail(todo))
      BY <2>2, <2>3 DEF Done
    <3>2. QED
      BY <1>3, <1>4, <2>2, <3>1, HeadFacts
  <2>5. PlanKept'
    <3>1. d + 1 \in 0..Len(Plan) /\ d + 2 = (d + 1) + 1
      BY <1>4
    <3>2. todo' = SubSeq(Plan, (d + 1) + 1, Len(Plan))
      BY <2>4, <3>1
    <3>3. QED
      BY <1>2, <1>4, <2>2, <2>3, <2>4, <3>1, <3>2 DEF PlanKept
  <2>6. OperationsKept'
    <3>1. ASSUME NEW i \in 1..Operations(scenario)
          PROVE  /\ \/ op[Plan[i].id].stage = "done"
                    \/ op[Plan[i].id].stage = "failed" /\ Plan[i].kind = "step"
                 /\ i <= d + 1
      BY <1>3, <1>4 DEF PlanInv, OperationsKept
    <3>2. QED
      BY <1>2, <2>3, <2>4, <3>1 DEF PlanInv, OperationsKept
  <2>7. RecordsKept'
    <3>1. 0 \in 0..Operations(scenario) /\ d + 1 \in Nat /\ Operations(scenario) <= d + 1
      BY <1>4
    <3>2. Recorded(scenario, d + 1) = Recorded(scenario, d)
      BY <1>4, <3>1, RecordedFacts
    <3>3. QED
      BY <1>2, <1>3, <2>2, <2>3, <2>4, <3>2 DEF PlanInv, RecordsKept, Settled
  <2>8. PICK k : k = d + 1 - Operations(scenario)
    OBVIOUS
  <2>9. /\ k \in 1..Len(scenario.assertions) /\ Operations(scenario) + k = d + 1
        /\ Len(assertions) = k - 1
    <3>1. Len(Plan) = Operations(scenario) + Len(scenario.assertions) /\ Len(scenario.assertions) \in Nat
      BY <1>4, ItemFacts, ScenarioFacts
    <3>2. Len(assertions) = IF d <= Operations(scenario) THEN 0 ELSE d - Operations(scenario)
      BY <1>3 DEF PlanInv, AssertionsKept
    <3>3. QED
      BY <1>4, <2>8, <3>1, <3>2
  <2>10. a = scenario.assertions[k] /\ a \in ToSet(scenario.assertions) /\ a.kind # "read"
         /\ a.kind \in {"succeeded", "confirmed", "failedWith", "memo"} /\ a.id \in StepIds
    <3>1. Plan[Operations(scenario) + k] = scenario.assertions[k]
      BY <1>4, <2>9, PlanFacts DEF Plan
    <3>2. a = scenario.assertions[k]
      BY <1>4, <2>9, <3>1
    <3>3. a.kind # "read"
      BY <1>6 DEF Execution!ReadsLedger
    <3>4. QED
      BY <1>4, <2>9, <3>2, <3>3, ScenarioFacts DEF StepIds
  <2>11. \A code : Execution!OutcomeOf(a.id).code = code <=> Settled(a.id, code)
    BY <1>3, <1>4, <2>10, OutcomeFacts
  <2>12. /\ Execution!Holds(a) \in BOOLEAN
         /\ a.kind # "memo" =>
               (Execution!Holds(a) <=>
                  Settled(a.id, IF a.kind = "failedWith" THEN a.code ELSE Execution!Success))
    <3>1. CASE a.kind \in {"succeeded", "confirmed"}
      <4>1. Execution!Holds(a) = (Execution!OutcomeOf(a.id).code = Execution!Success)
        BY <3>1 DEF Execution!Holds
      <4>2. QED
        BY <2>11, <3>1, <4>1
    <3>2. CASE a.kind = "failedWith"
      <4>1. Execution!Holds(a) = (Execution!OutcomeOf(a.id).code = a.code)
        BY <3>2 DEF Execution!Holds
      <4>2. QED
        BY <2>11, <3>2, <4>1
    <3>3. CASE a.kind = "memo"
      BY <3>3 DEF Execution!Holds
    <3>4. QED
      BY <2>10, <3>1, <3>2, <3>3
  <2>13. x \in [a : ToSet(scenario.assertions), ok : BOOLEAN] /\ x.a = a /\ x.ok = Execution!Holds(a)
    BY <2>1, <2>10, <2>12
  <2>14. /\ assertions' \in Seq([a : ToSet(scenario.assertions), ok : BOOLEAN])
         /\ Len(assertions') = k /\ assertions'[k] = x
         /\ \A q \in 1..(k - 1) : assertions'[q] = assertions[q]
    <3>1. assertions \in Seq([a : ToSet(scenario.assertions), ok : BOOLEAN])
      BY DEF PlanInv, AssertionsKept
    <3>2. k \in Nat
      BY <2>9
    <3>3. QED
      BY <2>2, <2>9, <2>13, <3>1, <3>2, AppendProperties
  <2>15. \A q \in 1..k : q \in 1..(k - 1) \/ q = k
    BY <2>9
  <2>16. \A q \in 1..k : assertions'[q].a = scenario.assertions[q] /\ assertions'[q].a.kind # "read"
    BY <2>9, <2>10, <2>13, <2>14, <2>15 DEF PlanInv, AssertionsKept
  <2>17. Execution!AssertionsMatchLedger'
    <3>1. ASSUME NEW y \in Execution!ToSet(assertions'), y.a.kind # "memo"
          PROVE  y.ok <=> Settled(y.a.id, IF y.a.kind = "failedWith" THEN y.a.code ELSE Execution!Success)
      <4>1. PICK q \in 1..k : y = assertions'[q]
        <5>1. DOMAIN assertions' = 1..k
          BY <2>14, LenProperties
        <5>2. QED
          BY <3>1, <5>1 DEF Execution!ToSet
      <4>2. CASE q = k
        BY <2>12, <2>13, <2>14, <3>1, <4>1, <4>2
      <4>3. CASE q \in 1..(k - 1)
        <5>1. y = assertions[q] /\ DOMAIN assertions = 1..(k - 1)
          BY <2>9, <2>14, <4>1, <4>3, LenProperties DEF PlanInv, AssertionsKept
        <5>2. y \in Execution!ToSet(assertions)
          BY <4>3, <5>1 DEF Execution!ToSet
        <5>3. QED
          BY <3>1, <5>2 DEF PlanInv, AssertionsKept, Execution!AssertionsMatchLedger, Settled
      <4>4. QED
        BY <2>15, <4>1, <4>2, <4>3
    <3>2. QED
      BY <1>2, <3>1 DEF Execution!AssertionsMatchLedger, Settled
  <2>18. AssertionsKept'
    <3>1. k = IF d + 1 <= Operations(scenario) THEN 0 ELSE (d + 1) - Operations(scenario)
      BY <1>4, <2>8
    <3>2. QED
      BY <1>2, <2>3, <2>4, <2>14, <2>16, <2>17, <3>1 DEF AssertionsKept
  <2>19. QED
    BY <1>2, <2>3, <2>5, <2>6, <2>7, <2>18 DEF PlanInv
<1>7. QED
  BY <1>5, <1>6

LEMMA ResolveStep ==
  ASSUME PlanInv, Execution!Resolve
  PROVE  PlanInv' /\ op' = op
<1>1. /\ promise = "pending" /\ todo = <<>> /\ promise' = "resolved"
      /\ UNCHANGED <<scenario, todo, racing, op, steps, assertions, built, sent, ledger>>
  BY DEF Execution!Resolve, Execution!recordVars, Execution!networkVars
<1>2. /\ Plan' = Plan /\ StepIds' = StepIds /\ Execution!Items' = Execution!Items /\ Done' = Done
      /\ TransactionsKept' /\ VerdictsKept'
  BY <1>1, SameScenario, SameOperations DEF PlanInv, Done
<1>3. Done = Len(Plan) /\ racing = "none"
  <2>1. PlanKept /\ scenario \in Scenarios
    BY DEF PlanInv, PlanKept
  <2>2. Done = Len(Plan) /\ Len(Plan) \in Nat /\ Operations(scenario) \in Nat /\ Operations(scenario) <= Len(Plan)
    BY <1>1, <2>1, HeadFacts, ItemFacts
  <2>3. QED
    BY <2>1, <2>2 DEF PlanKept
<1>4. PlanKept'
  BY <1>1, <1>2, <1>3 DEF PlanInv, PlanKept
<1>5. OperationsKept'
  BY <1>1, <1>2 DEF PlanInv, OperationsKept
<1>6. RecordsKept'
  BY <1>1, <1>2 DEF PlanInv, RecordsKept, Settled
<1>7. AssertionsKept'
  BY <1>1, <1>2 DEF PlanInv, AssertionsKept, Execution!AssertionsMatchLedger
<1>8. QED
  BY <1>1, <1>2, <1>4, <1>5, <1>6, <1>7 DEF PlanInv

LEMMA SameInv ==
  ASSUME PlanInv, UNCHANGED <<scenario, todo, racing, op, promise, steps, assertions, built, sent, ledger>>
  PROVE  PlanInv'
<1>1. PlanKept' /\ Done' = Done /\ RecordsKept' /\ AssertionsKept' /\ TransactionsKept' /\ VerdictsKept'
  BY SamePlan, SameRecords, SameOperations DEF PlanInv
<1>2. Plan' = Plan /\ Execution!Items' = Execution!Items
  BY SameScenario
<1>3. OperationsKept'
  BY <1>1, <1>2 DEF PlanInv, OperationsKept
<1>4. QED
  BY <1>1, <1>3 DEF PlanInv

LEMMA PlanInit ==
  ASSUME Execution!Init
  PROVE  PlanInv /\ op["fund"].stage = "off" /\ steps = <<>>
<1>1. /\ scenario \in Scenarios /\ todo = Plan /\ racing = "none" /\ op = [id \in Execution!Items |-> Execution!Off]
      /\ steps = <<>> /\ assertions = <<>> /\ promise = "pending"
      /\ built = [id \in Execution!Items |-> 0] /\ sent = {} /\ ledger = {}
  BY DEF Execution!Init, Plan
<1>2. /\ Plan \in Seq(PlanItems(scenario)) /\ Len(Plan) \in Nat /\ Operations(scenario) \in Nat
      /\ Execution!Items = {"fund", "initial"} \cup StepIds
      /\ \A i \in 1..Operations(scenario) : Plan[i].id \in Execution!Items
  BY <1>1, ItemFacts
<1>3. Done = 0
  BY <1>1, <1>2 DEF Done
<1>4. \A id \in Execution!Items : op[id] \in Operation /\ op[id].stage = "off" /\ op[id].code = Execution!NoCode
  BY <1>1 DEF Execution!Off, Operation, Codes, Uncoded
<1>5. PlanKept
  <2>1. SubSeq(Plan, 1, Len(Plan)) = Plan
    BY <1>2
  <2>2. QED
    BY <1>1, <1>2, <1>3, <2>1 DEF PlanKept
<1>6. OperationsKept
  <2>1. \A id \in Execution!Items : op[id].stage \in Stages(id)
    BY <1>4 DEF Stages
  <2>2. op \in [Execution!Items -> Operation]
    BY <1>1, <1>4
  <2>3. \A i \in 1..Operations(scenario) : ~(i <= 0)
    BY <1>2
  <2>4. QED
    BY <1>1, <1>2, <1>3, <1>4, <2>1, <2>2, <2>3 DEF OperationsKept
<1>7. TransactionsKept
  BY <1>1, <1>2, <1>4 DEF TransactionsKept
<1>8. VerdictsKept
  BY <1>2, <1>4 DEF VerdictsKept, Uncoded
<1>9. RecordsKept
  <2>1. Recorded(scenario, 0) = 0
    BY <1>1, <1>2, RecordedFacts
  <2>2. QED
    BY <1>1, <1>3, <2>1 DEF RecordsKept
<1>10. AssertionsKept
  BY <1>1, <1>2, <1>3 DEF AssertionsKept, Execution!AssertionsMatchLedger, Execution!ToSet
<1>11. QED
  BY <1>1, <1>2, <1>4, <1>5, <1>6, <1>7, <1>8, <1>9, <1>10 DEF PlanInv

-----------------------------------------------------------------------------
(* The invariant of the gateway and its pool.                              *)

LEMMA HorizonStep ==
  ASSUME PlanInv, Execution!Horizon
  PROVE  PlanInv' /\ op'["fund"] = op["fund"]
<1>1. ASSUME NEW id \in Execution!Items, Execution!AccountLoaded(id) PROVE PlanInv' /\ op'["fund"] = op["fund"]
  BY <1>1, AccountLoadedStep
<1>2. ASSUME NEW id \in Execution!Items, Execution!TimeboundsFetched(id) PROVE PlanInv' /\ op'["fund"] = op["fund"]
  BY <1>2, TimeboundsFetchedStep
<1>3. ASSUME NEW id \in Execution!Items, Execution!SubmitAnswered(id) PROVE PlanInv' /\ op'["fund"] = op["fund"]
  BY <1>3, SubmitAnsweredStep
<1>4. ASSUME NEW id \in Execution!Items, Execution!BalanceRead(id) PROVE PlanInv' /\ op'["fund"] = op["fund"]
  BY <1>4, BalanceReadStep
<1>5. ASSUME NEW id \in Execution!Items, NEW retryable \in BOOLEAN, Execution!RequestFails(id, retryable)
      PROVE  PlanInv' /\ op'["fund"] = op["fund"]
  BY <1>5, RequestFailsStep
<1>6. ASSUME NEW tx \in sent, NEW answer \in Rejections \cup {Execution!Success}, Execution!LedgerSettles(tx, answer)
      PROVE  PlanInv' /\ op'["fund"] = op["fund"]
  BY <1>6, LedgerSettlesStep
<1>7. QED
  BY <1>1, <1>2, <1>3, <1>4, <1>5, <1>6 DEF Execution!Horizon

LEMMA LoopStep ==
  ASSUME PlanInv, Execution!Loop
  PROVE  PlanInv'
<1>1. CASE Execution!Begin
  BY <1>1, BeginStep
<1>2. CASE Execution!ItemSucceeds
  BY <1>2, ItemSucceedsStep
<1>3. CASE Execution!OperationFails
  BY <1>3, OperationFailsStep
<1>4. CASE Execution!StepRefused
  BY <1>4, StepRefusedStep
<1>5. CASE Execution!EvaluateAssertion
  BY <1>5, EvaluateAssertionStep
<1>6. CASE Execution!Resolve
  BY <1>6, ResolveStep
<1>7. QED
  BY <1>1, <1>2, <1>3, <1>4, <1>5, <1>6 DEF Execution!Loop

-----------------------------------------------------------------------------
(* The required step and its record.                                       *)

\* The operation of the required step stays as it is, and the pool's result too.
LEMMA FundingSame ==
  ASSUME FundingKept, op'["fund"].stage = op["fund"].stage, op'["fund"].code = op["fund"].code,
         result' = result, aborted => aborted'
  PROVE  FundingKept'
BY DEF FundingKept

LEMMA FundRecordSame ==
  ASSUME FundRecorded, UNCHANGED <<steps, promise>>,
         op'["fund"].stage = op["fund"].stage, op'["fund"].code = op["fund"].code
  PROVE  FundRecorded'
BY DEF FundRecorded, FundRecord

\* While the promise is pending the required step is not recorded as failed.
LEMMA NoFundRecord ==
  ASSUME FundRecorded, promise = "pending", steps' = steps
  PROVE  FundRecorded'
BY DEF FundRecorded, FundRecord

LEMMA FundRecordAdded ==
  ASSUME FundRecorded, PlanInv, promise = "pending", NEW r, steps' = Append(steps, r), FundRecord(r)'
  PROVE  FundRecorded'
<1>1. PICK S : steps \in Seq(S)
  BY DEF PlanInv, RecordsKept
<1>2. /\ Len(steps) \in Nat /\ Len(steps') = Len(steps) + 1 /\ steps'[Len(steps) + 1] = r
      /\ \A q \in 1..Len(steps) : steps'[q] = steps[q]
  BY <1>1
<1>3. ASSUME NEW q \in 1..Len(steps') PROVE FundRecord(steps[q])'
  <2>1. CASE q = Len(steps) + 1
    BY <1>2, <2>1 DEF FundRecord
  <2>2. CASE q # Len(steps) + 1
    <3>1. q \in 1..Len(steps)
      BY <1>2, <2>2
    <3>2. ~(steps[q].id = "fund" /\ ~steps[q].passed)
      BY <3>1 DEF FundRecorded, FundRecord
    <3>3. QED
      BY <1>2, <3>1, <3>2 DEF FundRecord
  <2>3. QED
    BY <2>1, <2>2
<1>4. QED
  BY <1>3 DEF FundRecorded, FundRecord

\* The required step fails with the code of its operation, and is never expected to.
LEMMA FundRecordFails ==
  ASSUME FundRecorded, PlanInv, promise = "pending", todo # <<>>, Done < Operations(scenario),
         NEW code, Execution!ItemFails(code),
         Head(todo).id = "fund" =>
            /\ op'["fund"].stage \in {"off", "failed"}
            /\ code = IF op'["fund"].stage = "off" THEN Execution!NoCode ELSE op'["fund"].code
  PROVE  FundRecorded'
<1>1. PICK item, expected : item = Head(todo) /\ expected = Execution!Matches(item, code)
  OBVIOUS
<1>2. /\ IF item.kind = "balance" THEN steps' = steps
         ELSE steps' = Append(steps, [id |-> item.id, passed |-> expected, code |-> code])
      /\ IF expected THEN promise' = promise ELSE promise' = "rejected"
  BY <1>1 DEF Execution!ItemFails, Execution!RecordStep
<1>3. CASE item.kind = "balance"
  BY <1>2, <1>3, NoFundRecord
<1>4. CASE item.kind # "balance"
  <2>1. PICK r : r = [id |-> item.id, passed |-> expected, code |-> code]
    OBVIOUS
  <2>2. item.id = "fund" => ~expected
    <3>1. PlanKept /\ scenario \in Scenarios
      BY DEF PlanInv, PlanKept
    <3>2. Done + 1 \in 1..Operations(scenario) /\ item = Plan[Done + 1]
      BY <1>1, <3>1, HeadFacts, ItemFacts
    <3>3. item.id = "fund" => item.kind = "required"
      BY <3>1, <3>2, ItemFacts
    <3>4. QED
      BY <1>1, <3>3 DEF Execution!Matches
  <2>3. FundRecord(r)'
    BY <1>1, <1>2, <2>1, <2>2 DEF FundRecord
  <2>4. QED
    BY <1>2, <1>4, <2>1, <2>3, FundRecordAdded
<1>5. QED
  BY <1>3, <1>4

LEMMA LoopFunds ==
  ASSUME PlanInv, FundingKept, FundRecorded, Execution!Loop, UNCHANGED vars
  PROVE  FundingKept' /\ FundRecorded'
<1>1. result' = result /\ (aborted => aborted')
  BY DEF vars
<1>2. CASE Execution!Begin
  <2>1. promise = "pending" /\ steps' = steps
    BY <1>2 DEF Execution!Begin, Execution!Idle, Execution!recordVars
  <2>2. op'["fund"] = op["fund"] \/ (op["fund"].stage = "off" /\ op'["fund"].stage = "fund")
    BY <1>2, BeginStep
  <2>3. FundingKept'
    <3>1. CASE op'["fund"] = op["fund"]
      BY <1>1, <3>1, FundingSame
    <3>2. CASE op["fund"].stage = "off" /\ op'["fund"].stage = "fund"
      BY <1>1, <3>2 DEF FundingKept
    <3>3. QED
      BY <2>2, <3>1, <3>2
  <2>4. QED
    BY <2>1, <2>3, NoFundRecord
<1>3. CASE Execution!ItemSucceeds
  <2>1. FundingKept'
    BY <1>1, <1>3, ItemSucceedsStep, FundingSame
  <2>2. promise = "pending"
    BY <1>3, RacingFacts DEF Execution!ItemSucceeds
  <2>3. ASSUME steps' = steps PROVE FundRecorded'
    BY <2>2, <2>3, NoFundRecord
  <2>4. ASSUME steps' # steps PROVE FundRecorded'
    <3>1. PICK r : r = [id |-> racing, passed |-> TRUE, code |-> Execution!Success]
      OBVIOUS
    <3>2. steps' = Append(steps, r)
      BY <1>3, <2>4, <3>1 DEF Execution!ItemSucceeds, Execution!RecordStep
    <3>3. FundRecord(r)'
      BY <3>1 DEF FundRecord
    <3>4. QED
      BY <2>2, <3>2, <3>3, FundRecordAdded
  <2>5. QED
    BY <2>1, <2>3, <2>4
<1>4. CASE Execution!OperationFails
  <2>1. op' = op /\ racing # "none" /\ op[racing].stage = "failed"
    BY <1>4, OperationFailsStep DEF Execution!OperationFails
  <2>2. promise = "pending" /\ todo # <<>> /\ Done < Operations(scenario) /\ racing = Head(todo).id
    BY <2>1, RacingFacts
  <2>3. PICK code : code = op[racing].code /\ Execution!ItemFails(code)
    BY <1>4 DEF Execution!OperationFails
  <2>4. FundRecorded'
    BY <2>1, <2>2, <2>3, FundRecordFails
  <2>5. QED
    BY <1>1, <2>1, <2>4, FundingSame
<1>5. CASE Execution!StepRefused
  <2>1. op' = op /\ Execution!Idle /\ Head(todo).kind \in OperationKinds
    BY <1>5, StepRefusedStep DEF Execution!StepRefused, OperationKinds
  <2>2. /\ promise = "pending" /\ todo # <<>> /\ Done < Operations(scenario) /\ Done \in Nat
        /\ Operations(scenario) \in Nat /\ Head(todo) = Plan[Done + 1] /\ racing = "none"
    BY <2>1, IdleFacts
  <2>3. op[Head(todo).id].stage = "off"
    <3>1. Done + 1 \in 1..Operations(scenario)
      BY <2>2
    <3>2. op[Plan[Done + 1].id].stage # "off" => Done + 1 <= Done
      BY <2>2, <3>1 DEF PlanInv, OperationsKept
    <3>3. QED
      BY <2>2, <3>2
  <2>4. Execution!ItemFails(Execution!NoCode)
    BY <1>5 DEF Execution!StepRefused
  <2>5. FundRecorded'
    BY <2>1, <2>2, <2>3, <2>4, FundRecordFails
  <2>6. QED
    BY <1>1, <2>1, <2>5, FundingSame
<1>6. CASE Execution!EvaluateAssertion
  <2>1. op' = op /\ promise = "pending" /\ steps' = steps
    BY <1>6, EvaluateAssertionStep DEF Execution!EvaluateAssertion, Execution!Idle
  <2>2. QED
    BY <1>1, <2>1, FundingSame, NoFundRecord
<1>7. CASE Execution!Resolve
  <2>1. op' = op /\ promise = "pending" /\ steps' = steps
    BY <1>7, ResolveStep DEF Execution!Resolve, Execution!recordVars
  <2>2. QED
    BY <1>1, <2>1, FundingSame, NoFundRecord
<1>8. QED
  BY <1>2, <1>3, <1>4, <1>5, <1>6, <1>7 DEF Execution!Loop

\* The timer stops the pool of the funding, which is pending as long as its step is live.
LEMMA TimeoutFunds ==
  ASSUME PlanInv, FundingKept, FundRecorded, StepTimesOut
  PROVE  FundingKept' /\ FundRecorded'
<1>1. Execution!StepTimesOut /\ (IF racing = "fund" THEN SignalPool ELSE UNCHANGED vars)
  BY DEF StepTimesOut
<1>2. IF racing = "fund"
      THEN op["fund"].stage = "fund" /\ op'["fund"].stage = "failed" /\ op'["fund"].code = Execution!NoCode
      ELSE op' = op
  BY <1>1, StepTimesOutStep
<1>3. racing # "none" /\ Execution!ItemFails(Execution!NoCode)
  BY <1>1 DEF Execution!StepTimesOut
<1>4. promise = "pending" /\ todo # <<>> /\ Done < Operations(scenario) /\ racing = Head(todo).id
  BY <1>3, RacingFacts
<1>5. FundRecorded'
  BY <1>2, <1>3, <1>4, FundRecordFails
<1>6. CASE racing = "fund"
  <2>1. result = "pending" /\ PoolRuns
    BY <1>2, <1>6 DEF FundingKept, PoolRuns
  <2>2. aborted' /\ result' = result
    BY <1>1, <1>6, <2>1 DEF SignalPool, Abort, vars
  <2>3. Execution!NoCode # Execution!Refused
    BY DEF Execution!NoCode, Execution!Refused
  <2>4. FundingKept'
    BY <1>2, <1>6, <2>2, <2>3 DEF FundingKept
  <2>5. QED
    BY <1>5, <2>4
<1>7. CASE racing # "fund"
  <2>1. op' = op /\ result' = result /\ (aborted => aborted')
    BY <1>1, <1>2, <1>7 DEF vars
  <2>2. QED
    BY <1>5, <2>1, FundingSame
<1>8. QED
  BY <1>6, <1>7

\* The pool settles: the required step ends as the pool did, or has run out of time.
LEMMA SettleFunds ==
  ASSUME PlanInv, PoolInv, FundingKept, FundRecorded, PoolSettles
  PROVE  FundingKept' /\ FundRecorded'
<1>1. /\ op["fund"].stage # "off" /\ result = "pending"
      /\ aborted' = aborted /\ result' \in {"resolved"} \cup Errors
  BY DEF PoolSettles, PoolRuns, Settle, PoolInv, Errors
<1>2. CASE Execution!Live("fund")
  <2>1. Execution!FundingEnds(result') /\ op["fund"].stage = "fund"
    BY <1>2, StageFacts DEF PoolSettles, Execution!Live
  <2>2. IF result' = "resolved" THEN op'["fund"].stage = "done"
        ELSE /\ op'["fund"].stage = "failed"
             /\ op'["fund"].code = IF result' = "refused" THEN Execution!Refused ELSE Execution!NoCode
    BY <2>1, FundingEndsStep
  <2>3. Execution!NoCode # Execution!Refused
    BY DEF Execution!NoCode, Execution!Refused
  <2>4. FundingKept'
    BY <1>1, <2>2, <2>3 DEF FundingKept, Errors
  <2>5. \A q \in 1..Len(steps) : ~(steps[q].id = "fund" /\ ~steps[q].passed)
    BY <2>1 DEF FundRecorded, FundRecord
  <2>6. steps' = steps
    BY <2>1 DEF Execution!FundingEnds, Execution!recordVars
  <2>7. FundRecorded'
    BY <2>5, <2>6 DEF FundRecorded, FundRecord
  <2>8. QED
    BY <2>4, <2>7
<1>3. CASE ~Execution!Live("fund")
  <2>1. UNCHANGED <<op, steps, promise>>
    BY <1>3 DEF PoolSettles, planVars
  <2>2. op["fund"].stage = "failed" /\ op["fund"].code # Execution!Refused /\ aborted
    <3>1. op["fund"].stage \in {"done", "failed"}
      BY <1>1, <1>3, StageFacts DEF PlanInv, OperationsKept, Execution!Live
    <3>2. QED
      BY <1>1, <3>1 DEF FundingKept
  <2>3. FundingKept'
    BY <1>1, <2>1, <2>2 DEF FundingKept
  <2>4. QED
    BY <2>1, <2>3, FundRecordSame
<1>4. QED
  BY <1>2, <1>3

\* The pool is aborted, or nothing happens to it.
LEMMA SignalStep ==
  ASSUME PoolInv, SignalPool \/ UNCHANGED vars
  PROVE  PoolInv' /\ result' = result /\ (aborted => aborted')
<1>1. [Next]_vars
  BY DEF SignalPool, Next
<1>2. result' = result /\ (aborted => aborted')
  BY DEF SignalPool, Abort, vars
<1>3. QED
  BY <1>1, <1>2, PoolStep

LEMMA GatewayInit == RunInit => GatewayInv
<1> SUFFICES ASSUME RunInit PROVE GatewayInv
  OBVIOUS
<1>1. PlanInv /\ PoolInv /\ op["fund"].stage = "off" /\ steps = <<>> /\ result = "pending"
  BY PoolInit, PlanInit DEF RunInit, Init
<1>2. FundingKept
  BY <1>1 DEF FundingKept
<1>3. FundRecorded
  BY <1>1 DEF FundRecorded
<1>4. QED
  BY <1>1, <1>2, <1>3 DEF GatewayInv

LEMMA GatewayStep == GatewayInv /\ [RunNext]_runVars => GatewayInv'
<1> SUFFICES ASSUME GatewayInv, [RunNext]_runVars PROVE GatewayInv'
  OBVIOUS
<1>1. PlanInv /\ PoolInv /\ FundingKept /\ FundRecorded
  BY DEF GatewayInv
<1>2. CASE PoolAlone
  <2>1. [Next]_vars /\ UNCHANGED <<result, aborted>>
    BY <1>2 DEF PoolAlone, Next, Friendbot, Process, FriendbotFunds, FriendbotRefuses, DelayEnds, Interrupted, Dequeue, Leave
  <2>2. UNCHANGED <<scenario, todo, racing, op, promise, steps, assertions, built, sent, ledger>>
    BY <1>2 DEF PoolAlone, planVars
  <2>3. PlanInv' /\ PoolInv'
    BY <1>1, <2>1, <2>2, SameInv, PoolStep
  <2>4. FundingKept' /\ FundRecorded'
    BY <1>1, <2>1, <2>2, FundingSame, FundRecordSame
  <2>5. QED
    BY <2>3, <2>4 DEF GatewayInv
<1>3. CASE PoolSettles
  <2>1. FundingKept' /\ FundRecorded'
    BY <1>1, <1>3, SettleFunds
  <2>2. PoolInv'
    BY <1>1, <1>3, SettleStep DEF PoolSettles
  <2>3. PlanInv'
    <3>1. CASE Execution!Live("fund")
      BY <1>1, <1>3, <3>1, FundingEndsStep DEF PoolSettles
    <3>2. CASE ~Execution!Live("fund")
      <4>1. UNCHANGED <<scenario, todo, racing, op, promise, steps, assertions, built, sent, ledger>>
        BY <1>3, <3>2 DEF PoolSettles, planVars
      <4>2. QED
        BY <1>1, <4>1, SameInv
    <3>3. QED
      BY <3>1, <3>2
  <2>4. QED
    BY <2>1, <2>2, <2>3 DEF GatewayInv
<1>4. CASE RunAborts
  <2>1. UNCHANGED <<scenario, todo, racing, op, promise, steps, assertions, built, sent, ledger>>
    BY <1>4 DEF RunAborts, Execution!RunAborts, Execution!recordVars, Execution!networkVars
  <2>2. PoolInv' /\ result' = result /\ (aborted => aborted')
    BY <1>1, <1>4, SignalStep DEF RunAborts
  <2>3. PlanInv' /\ FundingKept' /\ FundRecorded'
    BY <1>1, <2>1, <2>2, SameInv, FundingSame, FundRecordSame
  <2>4. QED
    BY <2>2, <2>3 DEF GatewayInv
<1>5. CASE StepTimesOut
  <2>1. Execution!StepTimesOut /\ (SignalPool \/ UNCHANGED vars)
    BY <1>5 DEF StepTimesOut
  <2>2. PlanInv'
    BY <1>1, <2>1, StepTimesOutStep
  <2>3. PoolInv'
    BY <1>1, <2>1, SignalStep
  <2>4. QED
    BY <1>1, <1>5, <2>2, <2>3, TimeoutFunds DEF GatewayInv
<1>6. CASE PlanAlone
  <2>1. PoolInv' /\ result' = result /\ (aborted => aborted') /\ UNCHANGED vars
    BY <1>1, <1>6, SignalStep DEF PlanAlone
  <2>2. CASE Execution!Horizon
    <3>1. PlanInv' /\ op'["fund"] = op["fund"]
      BY <1>1, <2>2, HorizonStep
    <3>2. UNCHANGED <<steps, promise>>
      BY <2>2 DEF Execution!Horizon, Execution!AccountLoaded, Execution!TimeboundsFetched, Execution!SubmitAnswered,
                  Execution!BalanceRead, Execution!RequestFails, Execution!LedgerSettles, Execution!recordVars
    <3>3. QED
      BY <1>1, <2>1, <3>1, <3>2, FundingSame, FundRecordSame DEF GatewayInv
  <2>3. CASE Execution!Loop
    BY <1>1, <2>1, <2>3, LoopStep, LoopFunds DEF GatewayInv
  <2>4. ASSUME NEW id \in Execution!Items, Execution!DelayEnds(id) PROVE GatewayInv'
    <3>1. PlanInv' /\ op'["fund"].stage = op["fund"].stage /\ op'["fund"].code = op["fund"].code
      BY <1>1, <2>4, DelayEndsStep
    <3>2. UNCHANGED <<steps, promise>>
      BY <2>4 DEF Execution!DelayEnds, Execution!recordVars
    <3>3. QED
      BY <1>1, <2>1, <3>1, <3>2, FundingSame, FundRecordSame DEF GatewayInv
  <2>5. QED
    BY <1>6, <2>2, <2>3, <2>4 DEF PlanAlone
<1>7. CASE UNCHANGED runVars
  <2>1. UNCHANGED <<scenario, todo, racing, op, promise, steps, assertions, built, sent, ledger>> /\ UNCHANGED vars
    BY <1>7 DEF runVars, planVars
  <2>2. PlanInv' /\ PoolInv' /\ result' = result /\ (aborted => aborted')
    BY <1>1, <2>1, SameInv, SignalStep
  <2>3. QED
    BY <1>1, <2>1, <2>2, FundingSame, FundRecordSame DEF GatewayInv
<1>8. QED
  BY <1>2, <1>3, <1>4, <1>5, <1>6, <1>7 DEF RunNext

\* Whatever Horizon, Friendbot, the timers and the run's signal do, the report, the plan
\* and the ledger keep in step.
THEOREM GatewayInvariant == RunSpec => []GatewayInv
<1>1. QED
  BY GatewayInit, GatewayStep, PTL DEF RunSpec

-----------------------------------------------------------------------------
(* What it gives.                                                          *)

\* A step of the plan that was ever started has every item before it carried out.
LEMMA StartedAfter ==
  ASSUME PlanInv, NEW i \in 1..Operations(scenario), op[Plan[i].id].stage # "off"
  PROVE  i <= Done + 1 /\ Done \in Nat
BY HeadFacts DEF PlanInv, OperationsKept

\* The ledger holds at most one transaction per step, and one of a step only if every
\* step before it is recorded as passed.
LEMMA FollowsScenario == PlanInv => Execution!LedgerFollowsScenario
<1> SUFFICES ASSUME PlanInv PROVE Execution!LedgerFollowsScenario
  OBVIOUS
<1>1. scenario \in Scenarios /\ PlanKept /\ Done \in Nat /\ DOMAIN scenario.steps = 1..Len(scenario.steps)
  BY HeadFacts, ScenarioFacts DEF PlanInv, PlanKept
<1>2. /\ Funds(scenario) \in Nat /\ Lead(scenario) \in Nat /\ Len(scenario.steps) \in Nat
      /\ Operations(scenario) = Lead(scenario) + Len(scenario.steps)
  BY <1>1, ScenarioFacts DEF Operations
<1>3. ASSUME NEW v \in ledger, NEW i \in 1..Len(scenario.steps), v.tx.step = scenario.steps[i], NEW j \in 1..(i - 1)
      PROVE  \E r \in Execution!ToSet(steps) : r.id = scenario.steps[j] /\ r.passed
  <2>1. v.tx.step \in StepIds /\ v.tx \in sent
    BY OneVerdict
  <2>2. built[v.tx.step] = 1
    BY <2>1 DEF PlanInv, TransactionsKept
  <2>3. op[v.tx.step].stage # "off"
    BY <2>1, <2>2 DEF PlanInv, TransactionsKept
  <2>4. Lead(scenario) + i \in 1..Operations(scenario) /\ j \in 1..Len(scenario.steps)
    BY <1>2
  <2>5. Plan[Lead(scenario) + i].id = v.tx.step /\ Plan[Lead(scenario) + j].id = scenario.steps[j]
    BY <1>1, <1>3, <2>4, ItemFacts
  <2>6. Lead(scenario) + i <= Done + 1
    BY <2>3, <2>4, <2>5, StartedAfter
  <2>7. Lead(scenario) + j <= Done
    BY <1>1, <1>2, <2>6
  <2>8. PICK q : q = Funds(scenario) + j
    OBVIOUS
  <2>9. /\ Position(scenario, q) = Lead(scenario) + j
        /\ q <= Recorded(scenario, Done) /\ Recorded(scenario, Done) \in Nat
    <3>1. CASE Done <= Operations(scenario)
      <4>1. Done \in 0..Operations(scenario)
        BY <1>1, <1>2, <3>1
      <4>2. QED
        BY <1>1, <2>4, <2>7, <2>8, <4>1, RecordedFacts
    <3>2. CASE Operations(scenario) <= Done
      <4>1. 0 \in 0..Operations(scenario)
        BY <1>2
      <4>2. Position(scenario, q) = Lead(scenario) + j /\ Recorded(scenario, Done) = Funds(scenario) + Len(scenario.steps)
        BY <1>1, <2>4, <2>8, <3>2, <4>1, RecordedFacts
      <4>3. QED
        BY <1>2, <2>4, <2>8, <4>2
    <3>3. QED
      BY <1>1, <1>2, <3>1, <3>2
  <2>10. Len(steps) \in Recorded(scenario, Done)..(Recorded(scenario, Done) + 1)
    BY DEF PlanInv, RecordsKept
  <2>11. q \in 1..Recorded(scenario, Done) /\ q \in 1..Len(steps)
    BY <1>2, <2>4, <2>8, <2>9, <2>10
  <2>12. steps[q].passed /\ steps[q].id = scenario.steps[j]
    BY <2>5, <2>9, <2>11 DEF PlanInv, RecordsKept
  <2>13. steps[q] \in Execution!ToSet(steps)
    <3>1. DOMAIN steps = 1..Len(steps)
      BY LenProperties DEF PlanInv, RecordsKept
    <3>2. QED
      BY <2>11, <3>1 DEF Execution!ToSet
  <2>14. QED
    BY <2>12, <2>13
<1>4. QED
  BY <1>1, <1>3, OneVerdict DEF Execution!LedgerFollowsScenario

\* However often requests are retried and races are lost, no step of a scenario happens
\* twice on the ledger, and none before the steps it follows were recorded as passed.
THEOREM LedgerFollowsScenarioAlways == RunSpec => []LedgerFollowsScenario
<1>1. GatewayInv => LedgerFollowsScenario
  BY FollowsScenario DEF GatewayInv, LedgerFollowsScenario
<1>2. QED
  BY <1>1, GatewayInvariant, PTL

LEMMA RecordsAreTrue == PlanInv => Execution!RecordsMatchLedger
<1> SUFFICES ASSUME PlanInv, NEW r \in Execution!ToSet(steps),
                    r.id \in Execution!ToSet(scenario.steps), r.code # Execution!NoCode
             PROVE  \E v \in ledger : v.tx.step = r.id /\ v.result = r.code
  BY DEF Execution!RecordsMatchLedger
<1>1. PICK q \in 1..Len(steps) : r = steps[q]
  <2>1. DOMAIN steps = 1..Len(steps)
    BY LenProperties DEF PlanInv, RecordsKept
  <2>2. QED
    BY <2>1 DEF Execution!ToSet
<1>2. r.id \in StepIds
  BY DEF Execution!ToSet, StepIds, ToSet
<1>3. QED
  BY <1>1, <1>2 DEF PlanInv, RecordsKept, Settled

\* A resolved promise leaves nothing out.
LEMMA ResolvedComplete == PlanInv => Execution!ResolvedIsComplete
<1> SUFFICES ASSUME PlanInv, promise = "resolved"
             PROVE  /\ \A r \in Execution!ToSet(steps) : r.passed
                    /\ [i \in DOMAIN steps |-> steps[i].id] =
                          (IF scenario.funds THEN <<"fund">> ELSE <<>>) \o scenario.steps
                    /\ [i \in DOMAIN assertions |-> assertions[i].a] = scenario.assertions
  BY DEF Execution!ResolvedIsComplete
<1>1. scenario \in Scenarios /\ Done = Len(Plan) /\ Done \in Nat
  BY HeadFacts DEF PlanInv, PlanKept
<1>2. /\ Funds(scenario) \in {0, 1} /\ Lead(scenario) \in Nat /\ Len(scenario.steps) \in Nat /\ Len(scenario.assertions) \in Nat
      /\ Operations(scenario) = Lead(scenario) + Len(scenario.steps)
      /\ Len(Plan) = Operations(scenario) + Len(scenario.assertions)
  BY <1>1, ScenarioFacts, ItemFacts DEF Operations
<1>3. Operations(scenario) <= Done /\ 0 \in 0..Operations(scenario)
  BY <1>1, <1>2
<1>4. Recorded(scenario, Done) = Funds(scenario) + Len(scenario.steps)
  BY <1>1, <1>3, RecordedFacts
<1>5. /\ Len(steps) = Funds(scenario) + Len(scenario.steps) /\ DOMAIN steps = 1..Len(steps)
      /\ \A q \in 1..Len(steps) : steps[q].passed /\ steps[q].id = Plan[Position(scenario, q)].id
  BY <1>4, LenProperties DEF PlanInv, RecordsKept
<1>6. \A r \in Execution!ToSet(steps) : r.passed
  BY <1>5 DEF Execution!ToSet
<1>7. PICK ids : ids = [i \in DOMAIN steps |-> steps[i].id]
  OBVIOUS
<1>8. /\ DOMAIN ids = 1..(Funds(scenario) + Len(scenario.steps))
      /\ \A q \in 1..(Funds(scenario) + Len(scenario.steps)) : ids[q] = Plan[Position(scenario, q)].id
  BY <1>5, <1>7
<1>9. Funds(scenario) = 1 => ids[1] = "fund"
  <2>1. SUFFICES ASSUME Funds(scenario) = 1 PROVE ids[1] = "fund"
    OBVIOUS
  <2>2. Position(scenario, 1) = 1
    BY <2>1 DEF Position
  <2>3. Plan[1].id = "fund"
    <3>1. 1 \in 1..Funds(scenario)
      BY <2>1
    <3>2. Plan[1] = Execution!Required
      BY <1>1, <3>1, PlanFacts DEF Plan
    <3>3. QED
      BY <3>2 DEF Execution!Required
  <2>4. 1 \in 1..(Funds(scenario) + Len(scenario.steps))
    BY <1>2, <2>1
  <2>5. QED
    BY <1>8, <2>2, <2>3, <2>4
<1>10. ASSUME NEW j \in 1..Len(scenario.steps) PROVE ids[Funds(scenario) + j] = scenario.steps[j]
  <2>1. Funds(scenario) + j \in 1..(Funds(scenario) + Len(scenario.steps))
    BY <1>2
  <2>2. Position(scenario, Funds(scenario) + j) = Lead(scenario) + j
    BY <1>1, <1>3, RecordedFacts
  <2>3. Plan[Lead(scenario) + j].id = scenario.steps[j]
    BY <1>1, ItemFacts
  <2>4. QED
    BY <1>8, <2>1, <2>2, <2>3
<1>11. PICK p : p = IF scenario.funds THEN <<"fund">> ELSE <<>>
  OBVIOUS
<1>12. ids = p \o scenario.steps
  <2>1. PICK s, n : s = scenario.steps /\ n = Funds(scenario)
    OBVIOUS
  <2>2. PICK Y : Y = Execution!Items \cup {"fund"}
    OBVIOUS
  <2>3. p \in Seq(Y) /\ Len(p) = n /\ (n = 1 => p[1] = "fund")
    <3>1. CASE scenario.funds
      BY <1>11, <2>1, <2>2, <3>1 DEF Funds
    <3>2. CASE ~scenario.funds
      BY <1>11, <2>1, <3>2 DEF Funds
    <3>3. QED
      BY <3>1, <3>2
  <2>4. s \in Seq(Y) /\ Len(s) \in Nat
    <3>1. \A i \in 1..Len(s) : s[i] \in Y
      BY <1>1, <2>1, <2>2, ScenarioFacts, ItemFacts DEF StepIds
    <3>2. s \in Seq(ToSet(s))
      BY <1>1, <2>1, ScenarioFacts
    <3>3. QED
      BY <3>1, <3>2, LenProperties
  <2>5. PICK z : z = p \o s
    OBVIOUS
  <2>6. /\ z \in Seq(Y) /\ Len(z) = n + Len(s)
        /\ \A i \in 1..Len(p) : z[i] = p[i]
        /\ \A j \in 1..Len(s) : z[n + j] = s[j]
    <3>1. p \in Seq(Y) /\ s \in Seq(Y)
      BY <2>3, <2>4
    <3>2. /\ p \o s \in Seq(Y) /\ Len(p \o s) = Len(p) + Len(s)
          /\ \A i \in 1..Len(p) : (p \o s)[i] = p[i]
          /\ \A i \in 1..Len(s) : (p \o s)[Len(p) + i] = s[i]
      BY <3>1, Joined
    <3>3. QED
      BY <2>3, <2>5, <3>2
  <2>7. ASSUME NEW i \in 1..(n + Len(s)) PROVE ids[i] = z[i]
    <3>1. CASE i \in 1..n
      <4>1. n = 1 /\ i = 1
        BY <1>2, <2>1, <3>1
      <4>2. QED
        BY <1>9, <2>1, <2>3, <2>6, <4>1
    <3>2. CASE i \notin 1..n
      <4>1. i - n \in 1..Len(s) /\ i = n + (i - n)
        BY <1>2, <2>1, <2>4, <3>2
      <4>2. ids[n + (i - n)] = s[i - n]
        BY <1>10, <2>1, <4>1
      <4>3. QED
        BY <2>6, <4>1, <4>2
    <3>3. QED
      BY <3>1, <3>2
  <2>8. z = [i \in 1..(n + Len(s)) |-> z[i]]
    BY <2>6
  <2>9. ids = [i \in 1..(n + Len(s)) |-> ids[i]]
    BY <1>5, <1>7, <1>8, <2>1
  <2>10. ids = z
    BY <2>7, <2>8, <2>9
  <2>11. QED
    BY <2>1, <2>5, <2>10
<1>13. [i \in DOMAIN assertions |-> assertions[i].a] = scenario.assertions
  <2>1. Len(assertions) = IF Done <= Operations(scenario) THEN 0 ELSE Done - Operations(scenario)
    BY DEF PlanInv, AssertionsKept
  <2>2. Len(assertions) = Len(scenario.assertions)
    BY <1>1, <1>2, <2>1
  <2>3. DOMAIN assertions = 1..Len(scenario.assertions)
        /\ \A i \in 1..Len(scenario.assertions) : assertions[i].a = scenario.assertions[i]
    BY <2>2, LenProperties DEF PlanInv, AssertionsKept
  <2>4. scenario.assertions = [i \in 1..Len(scenario.assertions) |-> scenario.assertions[i]]
    <3>1. scenario.assertions \in Seq(ToSet(scenario.assertions))
      BY <1>1, ScenarioFacts
    <3>2. QED
      BY <3>1
  <2>5. QED
    BY <2>3, <2>4
<1>14. QED
  BY <1>6, <1>7, <1>11, <1>12, <1>13

\* The report tells the truth about the ledger, and a resolved promise carries every step
\* and every assertion of the scenario.
THEOREM ReportIsTrueAlways == RunSpec => []ReportIsTrue
<1>1. PlanInv => Execution!AssertionsMatchLedger
  BY DEF PlanInv, AssertionsKept
<1>2. GatewayInv => ReportIsTrue
  BY <1>1, RecordsAreTrue, ResolvedComplete DEF GatewayInv, ReportIsTrue, Execution!ReportIsTrue
<1>3. QED
  BY <1>2, GatewayInvariant, PTL

\* A step that failed with a code has it from the ledger; and a code that leaves room for
\* a retry is one of the transaction alone.
LEMMA StepAdviceHonest == PlanInv => Execution!RetryAdviceIsHonest
<1> SUFFICES ASSUME PlanInv, NEW r \in Execution!ToSet(steps), r.id \in Execution!ToSet(scenario.steps), ~r.passed
             PROVE  LET rejected == \E v \in ledger : v.tx.step = r.id /\ v.result = r.code
                    IN  IF Execution!Retryable(r.code) THEN r.code = Execution!NoCode \/ (rejected /\ r.code.ops = <<>>)
                        ELSE rejected
  BY DEF Execution!RetryAdviceIsHonest
<1>1. PICK q \in 1..Len(steps) : r = steps[q]
  <2>1. DOMAIN steps = 1..Len(steps)
    BY LenProperties DEF PlanInv, RecordsKept
  <2>2. QED
    BY <2>1 DEF Execution!ToSet
<1>2. r.id \in StepIds
  BY DEF Execution!ToSet, StepIds, ToSet
<1>3. CASE r.code = Execution!NoCode
  BY <1>3 DEF Execution!Retryable
<1>4. CASE r.code # Execution!NoCode
  <2>1. \E v \in ledger : v.tx.step = r.id /\ v.result = r.code
    BY <1>1, <1>2, <1>4 DEF PlanInv, RecordsKept, Settled
  <2>2. ASSUME Execution!Retryable(r.code) PROVE r.code.ops = <<>>
    <3>1. r.code.tx \in {"tx_too_early", "tx_too_late", "tx_bad_seq", "tx_insufficient_balance",
                         "tx_no_source_account", "tx_insufficient_fee", "tx_internal_error"}
      BY <1>4, <2>2 DEF Execution!Retryable, Execution!isStellarErrorRetryable, Execution!interpretTransactionCode,
                        Execution!RetryableTransactionCodes
    <3>2. r.code # Execution!Success /\ r.code.tx # "tx_failed"
      BY <3>1 DEF Execution!Success
    <3>3. r.code \in Rejections
      BY <2>1, <3>2 DEF PlanInv, TransactionsKept
    <3>4. QED
      BY <3>2, <3>3, RejectionsAssumption
  <2>3. QED
    BY <2>1, <2>2
<1>5. QED
  BY <1>3, <1>4

\* Nor is the required step called past retrying unless Friendbot has refused an account,
\* and then it is, unless time ran out first.
LEMMA FundAdviceHonest ==
  ASSUME GatewayInv, NEW s \in Execution!ToSet(steps), s.id = "fund", ~s.passed
  PROVE  IF Execution!Retryable(s.code) THEN result = "refused" => aborted
         ELSE result = "refused" /\ funded # Names
<1>1. PICK q \in 1..Len(steps) : s = steps[q]
  <2>1. DOMAIN steps = 1..Len(steps)
    BY LenProperties DEF GatewayInv, PlanInv, RecordsKept
  <2>2. QED
    BY <2>1 DEF Execution!ToSet
<1>2. /\ op["fund"].stage \in {"off", "failed"}
      /\ s.code = IF op["fund"].stage = "off" THEN Execution!NoCode ELSE op["fund"].code
  BY <1>1 DEF GatewayInv, FundRecorded, FundRecord
<1>3. Execution!Retryable(Execution!NoCode) /\ ~Execution!Retryable(Execution!Refused)
  <2>1. Execution!Retryable(Execution!NoCode)
    BY DEF Execution!Retryable
  <2>2. Execution!Refused # Execution!NoCode
    BY DEF Execution!NoCode, Execution!Refused
  <2>3. ~Execution!isStellarErrorRetryable(Execution!Refused)
    BY DEF Execution!Refused, Execution!isStellarErrorRetryable, Execution!interpretTransactionCode, Execution!RetryableTransactionCodes
  <2>4. QED
    BY <2>1, <2>2, <2>3 DEF Execution!Retryable
<1>4. CASE op["fund"].stage = "off"
  BY <1>2, <1>3, <1>4 DEF GatewayInv, FundingKept
<1>5. CASE op["fund"].stage = "failed" /\ op["fund"].code = Execution!Refused
  <2>1. result = "refused" /\ s.code = Execution!Refused
    BY <1>2, <1>5 DEF GatewayInv, FundingKept
  <2>2. firstError # "none"
    BY <2>1 DEF GatewayInv, PoolInv, FailureLosesAnAccount, Errors
  <2>3. ToSet(queue) \cup Held \cup funded # Names /\ funded \subseteq Names
    BY <2>2 DEF GatewayInv, PoolInv, FailureLosesAnAccount
  <2>4. ToSet(queue) \cup Held \cup funded \subseteq Names
    BY NamesOnly DEF GatewayInv
  <2>5. funded # Names
    BY <2>3, <2>4
  <2>6. QED
    BY <1>3, <2>1, <2>5
<1>6. CASE op["fund"].stage = "failed" /\ op["fund"].code # Execution!Refused
  <2>1. "fund" \in Execution!Items /\ op["fund"].code \in Uncoded
    BY StageFacts DEF GatewayInv, PlanInv, VerdictsKept
  <2>2. s.code = Execution!NoCode
    BY <1>2, <1>6, <2>1 DEF Uncoded
  <2>3. result = "refused" => aborted
    BY <1>6 DEF GatewayInv, FundingKept
  <2>4. QED
    BY <1>3, <2>2, <2>3
<1>7. QED
  BY <1>2, <1>4, <1>5, <1>6

\* Whoever is told that a step is past retrying has the ledger's or Friendbot's own word
\* for it; whoever is told that it is not, either has the ledger's word that no operation
\* of the step was attempted, or no word at all.
THEOREM RetryAdviceIsHonestAlways == RunSpec => []RetryAdviceIsHonest
<1>1. GatewayInv => RetryAdviceIsHonest
  <2> SUFFICES ASSUME GatewayInv PROVE RetryAdviceIsHonest
    OBVIOUS
  <2>1. Execution!RetryAdviceIsHonest
    BY StepAdviceHonest DEF GatewayInv
  <2>2. QED
    BY <2>1, FundAdviceHonest DEF RetryAdviceIsHonest, ToSet, Execution!ToSet
<1>2. QED
  BY <1>1, GatewayInvariant, PTL

\* In a run too the funding step tells the truth, though its race may be lost while the
\* pool goes on.
THEOREM FundingIsTrueAlways == RunSpec => []FundingIsTrue
<1>1. GatewayInv => FundingIsTrue
  BY DEF GatewayInv, PoolInv, FundingIsTrue
<1>2. QED
  BY <1>1, GatewayInvariant, PTL

\* A transaction is submitted only after the pool resolved.
LEMMA FundedFirst == GatewayInv => NothingBeforeFunding
<1> SUFFICES ASSUME GatewayInv, scenario.funds, NEW tx \in sent PROVE funded = Names
  BY DEF NothingBeforeFunding
<1>1. PlanInv /\ PoolInv /\ (op["fund"].stage = "done" => result = "resolved")
  BY DEF GatewayInv, FundingKept
<1>2. scenario \in Scenarios
  BY <1>1 DEF PlanInv, PlanKept
<1>3. /\ Funds(scenario) = 1 /\ Lead(scenario) \in Nat /\ Funds(scenario) <= Lead(scenario)
      /\ Len(scenario.steps) \in Nat /\ Operations(scenario) = Lead(scenario) + Len(scenario.steps)
  BY <1>2, ScenarioFacts DEF Funds, Operations
<1>4. tx.step \in StepIds /\ op[tx.step].stage # "off"
  BY <1>1 DEF PlanInv, TransactionsKept
<1>5. PICK j \in 1..Len(scenario.steps) : scenario.steps[j] = tx.step
  BY <1>2, <1>4, ItemFacts
<1>6. Lead(scenario) + j \in 1..Operations(scenario) /\ Plan[Lead(scenario) + j].id = tx.step
  BY <1>2, <1>3, <1>5, ItemFacts
<1>7. Lead(scenario) + j <= Done + 1 /\ Done \in Nat
  BY <1>1, <1>4, <1>6, StartedAfter
<1>8. 1 <= Done /\ 1 \in 1..Operations(scenario) /\ 1 \in 1..Funds(scenario)
  BY <1>3, <1>7
<1>9. Plan[1].id = "fund" /\ Plan[1].kind # "step"
  <2>1. Plan[1] = Execution!Required
    BY <1>2, <1>8, PlanFacts DEF Plan
  <2>2. QED
    BY <2>1 DEF Execution!Required
<1>10. op["fund"].stage = "done"
  BY <1>1, <1>8, <1>9 DEF PlanInv, OperationsKept
<1>11. QED
  BY <1>1, <1>10 DEF PoolInv, SuccessMeansAllFunded

\* No transaction is submitted before every account is funded, whichever way the pool,
\* the timer and the abort race each other.
THEOREM NothingBeforeFundingAlways == RunSpec => []NothingBeforeFunding
<1>1. QED
  BY FundedFirst, GatewayInvariant, PTL

-----------------------------------------------------------------------------
(* The contract with RunService.execute: every step of a run is a step of  *)
(* LedgerPromise, or leaves the reports and the promise as they are.       *)

ReportsKept ==
    /\ Execution!Reports \in Seq(Promise!Report)
    /\ Len(Execution!Reports) = Len(steps) + Len(assertions)
    /\ Len(steps) \in Nat /\ Len(assertions) \in Nat
    /\ \A i \in 1..Len(steps) : Execution!Reports[i] = [kind |-> "step", ok |-> steps[i].passed]
    /\ \A i \in 1..Len(assertions) :
          Execution!Reports[Len(steps) + i] = [kind |-> "assertion", ok |-> assertions[i].ok]

LEMMA ReportsFacts == RecordsKept /\ AssertionsKept => ReportsKept
<1> SUFFICES ASSUME RecordsKept, AssertionsKept PROVE ReportsKept
  OBVIOUS
<1>1. PICK n, m : n = Len(steps) /\ m = Len(assertions)
  OBVIOUS
<1>2. n \in Nat /\ m \in Nat
  BY <1>1, LenProperties DEF RecordsKept, AssertionsKept
<1>3. \A i \in 1..n : steps[i].passed \in BOOLEAN
  <2>1. \A i \in 1..n : steps[i] \in RecordType
    BY <1>1, ElementOfSeq DEF RecordsKept, RecordType
  <2>2. QED
    BY <2>1 DEF RecordType
<1>4. \A i \in 1..m : assertions[i].ok \in BOOLEAN
  <2>1. \A i \in 1..m : assertions[i] \in [a : ToSet(scenario.assertions), ok : BOOLEAN]
    BY <1>1, ElementOfSeq DEF AssertionsKept
  <2>2. QED
    BY <2>1
<1>5. PICK R : R = Execution!Reports
  OBVIOUS
<1>6. R = [i \in 1..(n + m) |-> IF i <= n THEN [kind |-> "step", ok |-> steps[i].passed]
                                          ELSE [kind |-> "assertion", ok |-> assertions[i - n].ok]]
  BY <1>1, <1>5 DEF Execution!Reports
<1>7. \A i \in 1..n : R[i] = [kind |-> "step", ok |-> steps[i].passed]
  BY <1>2, <1>6
<1>8. \A i \in 1..m : R[n + i] = [kind |-> "assertion", ok |-> assertions[i].ok]
  <2> TAKE i \in 1..m
  <2>1. n + i \in 1..(n + m) /\ ~(n + i <= n) /\ (n + i) - n = i
    BY <1>2
  <2>2. R[n + i] = [kind |-> "assertion", ok |-> assertions[(n + i) - n].ok]
    BY <1>6, <2>1
  <2>3. QED
    BY <2>1, <2>2
<1>9. ASSUME NEW i \in 1..(n + m) PROVE R[i] \in Promise!Report
  <2>1. CASE i \in 1..n
    <3>1. R[i] = [kind |-> "step", ok |-> steps[i].passed] /\ steps[i].passed \in BOOLEAN
      BY <1>3, <1>7, <2>1
    <3>2. QED
      BY <3>1 DEF Promise!Report
  <2>2. CASE i \notin 1..n
    <3>1. i - n \in 1..m /\ i = n + (i - n)
      BY <1>2, <2>2
    <3>2. R[i] = [kind |-> "assertion", ok |-> assertions[i - n].ok]
      BY <1>8, <3>1
    <3>3. QED
      BY <1>4, <3>1, <3>2 DEF Promise!Report
  <2>3. QED
    BY <2>1, <2>2
<1>10. R = [i \in 1..(n + m) |-> R[i]] /\ n + m \in Nat
  BY <1>2, <1>6
<1>11. R \in Seq(Promise!Report) /\ Len(R) = n + m
  BY <1>9, <1>10
<1>12. QED
  BY <1>1, <1>2, <1>5, <1>7, <1>8, <1>11 DEF ReportsKept

\* While the promise is pending no step has failed, and no assertion is reported before
\* the last operation.
LEMMA NothingBroken ==
  ASSUME PlanInv, promise = "pending"
  PROVE  /\ ~Promise!Broken
         /\ Done <= Operations(scenario) => ~Promise!Asserting /\ Len(assertions) = 0
<1>1. RecordsKept /\ AssertionsKept
  BY DEF PlanInv
<1>2. PICK R, n, m : R = Execution!Reports /\ n = Len(steps) /\ m = Len(assertions)
  OBVIOUS
<1>3. /\ R \in Seq(Promise!Report) /\ Len(R) = n + m /\ n \in Nat /\ m \in Nat
      /\ \A i \in 1..n : R[i] = [kind |-> "step", ok |-> steps[i].passed]
      /\ \A i \in 1..m : R[n + i] = [kind |-> "assertion", ok |-> assertions[i].ok]
  BY <1>1, <1>2, ReportsFacts DEF ReportsKept
<1>4. DOMAIN R = 1..(n + m)
  BY <1>3, LenProperties
<1>5. \A i \in 1..n : steps[i].passed
  BY <1>1, <1>2 DEF RecordsKept
<1>6. ASSUME NEW i \in DOMAIN R PROVE /\ R[i].kind = "step" => R[i].ok
                                      /\ m = 0 => R[i].kind # "assertion"
  <2>1. CASE i \in 1..n
    <3>1. R[i] = [kind |-> "step", ok |-> steps[i].passed] /\ steps[i].passed
      BY <1>3, <1>5, <2>1
    <3>2. QED
      BY <3>1
  <2>2. CASE i \notin 1..n
    <3>1. i - n \in 1..m /\ i = n + (i - n)
      BY <1>3, <1>4, <2>2
    <3>2. R[i] = [kind |-> "assertion", ok |-> assertions[i - n].ok]
      BY <1>3, <3>1
    <3>3. R[i].kind = "assertion" /\ m # 0
      BY <1>3, <3>1, <3>2
    <3>4. QED
      BY <3>3
  <2>3. QED
    BY <2>1, <2>2
<1>7. Done <= Operations(scenario) => m = 0
  BY <1>1, <1>2 DEF AssertionsKept
<1>8. QED
  BY <1>2, <1>6, <1>7 DEF Promise!Broken, Promise!Asserting, Promise!IsFailedStep

\* A step is reported with its outcome, and its failure is the last report.
LEMMA StepReported ==
  ASSUME PlanInv, PlanInv', promise = "pending", Done < Operations(scenario), assertions' = assertions,
         NEW r, steps' = Append(steps, r), r.passed \in BOOLEAN,
         promise' = IF r.passed THEN promise ELSE "rejected"
  PROVE  Promise!PromiseNext
<1>1. PICK R, S, n : R = Execution!Reports /\ S = Execution!Reports' /\ n = Len(steps)
  OBVIOUS
<1>2. PICK e : e = [kind |-> "step", ok |-> r.passed]
  OBVIOUS
<1>3. e \in Promise!Report /\ e.kind = "step" /\ e.ok = r.passed
  BY <1>2 DEF Promise!Report
<1>4. ~Promise!Broken /\ ~Promise!Asserting /\ Len(assertions) = 0
  <2>1. Done \in Nat /\ Operations(scenario) \in Nat
    BY HeadFacts, ItemFacts DEF PlanInv, PlanKept
  <2>2. Done <= Operations(scenario)
    BY <2>1
  <2>3. QED
    BY <2>2, NothingBroken
<1>5. /\ R \in Seq(Promise!Report) /\ Len(R) = n /\ n \in Nat
      /\ \A i \in 1..n : R[i] = [kind |-> "step", ok |-> steps[i].passed]
  <2>1. RecordsKept /\ AssertionsKept
    BY DEF PlanInv
  <2>2. QED
    BY <1>1, <1>4, <2>1, ReportsFacts DEF ReportsKept
<1>6. Len(steps') = n + 1 /\ steps'[n + 1] = r /\ \A i \in 1..n : steps'[i] = steps[i]
  <2>1. PICK X : X = RecordType \cup {r}
    OBVIOUS
  <2>2. steps \in Seq(X)
    <3>1. steps \in Seq(RecordType)
      BY DEF PlanInv, RecordsKept, RecordType
    <3>2. \A i \in 1..Len(steps) : steps[i] \in X
      BY <2>1, <3>1, ElementOfSeq
    <3>3. QED
      BY <3>1, <3>2
  <2>3. r \in X
    BY <2>1
  <2>4. QED
    BY <1>1, <2>2, <2>3, AppendProperties
<1>7. /\ S \in Seq(Promise!Report) /\ Len(S) = n + 1
      /\ \A i \in 1..(n + 1) : S[i] = [kind |-> "step", ok |-> steps'[i].passed]
  <2>1. /\ Execution!Reports' \in Seq(Promise!Report)
        /\ Len(Execution!Reports') = Len(steps') + Len(assertions')
        /\ \A i \in 1..Len(steps') : Execution!Reports'[i] = [kind |-> "step", ok |-> steps'[i].passed]
    <3>1. RecordsKept' /\ AssertionsKept'
      BY DEF PlanInv
    <3>2. ReportsKept'
      BY <3>1, ReportsFacts, PTL
    <3>3. QED
      BY <3>2 DEF ReportsKept
  <2>2. QED
    BY <1>1, <1>4, <1>5, <1>6, <2>1
<1>8. S = Append(R, e)
  <2>1. /\ Append(R, e) \in Seq(Promise!Report) /\ Len(Append(R, e)) = n + 1 /\ Append(R, e)[n + 1] = e
        /\ \A i \in 1..n : Append(R, e)[i] = R[i]
    BY <1>3, <1>5, AppendProperties
  <2>2. PICK z : z = Append(R, e)
    OBVIOUS
  <2>3. ASSUME NEW i \in 1..(n + 1) PROVE S[i] = z[i]
    <3>1. CASE i = n + 1
      BY <1>2, <1>5, <1>6, <1>7, <2>1, <2>2, <3>1
    <3>2. CASE i \in 1..n
      BY <1>5, <1>6, <1>7, <2>1, <2>2, <3>2
    <3>3. QED
      BY <1>5, <3>1, <3>2
  <2>4. S = z
    BY <1>5, <1>7, <2>1, <2>2, <2>3, SeqEqual
  <2>5. QED
    BY <2>2, <2>4
<1>9. Promise!Emit(e)
  BY <1>1, <1>3, <1>4, <1>8 DEF Promise!Emit, Promise!IsFailedStep
<1>10. QED
  BY <1>3, <1>9 DEF Promise!PromiseNext

\* An assertion is reported with its outcome, and the run goes on.
LEMMA AssertionReported ==
  ASSUME PlanInv, PlanInv', promise = "pending", promise' = promise, steps' = steps,
         NEW x, assertions' = Append(assertions, x)
  PROVE  Promise!PromiseNext
<1>1. PICK R, S, n, m : R = Execution!Reports /\ S = Execution!Reports' /\ n = Len(steps) /\ m = Len(assertions)
  OBVIOUS
<1>2. PICK e : e = [kind |-> "assertion", ok |-> x.ok]
  OBVIOUS
<1>3. /\ R \in Seq(Promise!Report) /\ Len(R) = n + m /\ n \in Nat /\ m \in Nat
      /\ \A i \in 1..n : R[i] = [kind |-> "step", ok |-> steps[i].passed]
      /\ \A i \in 1..m : R[n + i] = [kind |-> "assertion", ok |-> assertions[i].ok]
  <2>1. RecordsKept /\ AssertionsKept
    BY DEF PlanInv
  <2>2. QED
    BY <1>1, <2>1, ReportsFacts DEF ReportsKept
<1>4. Len(assertions') = m + 1 /\ assertions'[m + 1] = x /\ \A i \in 1..m : assertions'[i] = assertions[i]
  <2>1. PICK X : X = [a : ToSet(scenario.assertions), ok : BOOLEAN] \cup {x}
    OBVIOUS
  <2>2. assertions \in Seq(X)
    <3>1. assertions \in Seq([a : ToSet(scenario.assertions), ok : BOOLEAN])
      BY DEF PlanInv, AssertionsKept
    <3>2. \A i \in 1..Len(assertions) : assertions[i] \in X
      BY <2>1, <3>1, ElementOfSeq
    <3>3. QED
      BY <3>1, <3>2
  <2>3. x \in X
    BY <2>1
  <2>4. QED
    BY <1>1, <2>2, <2>3, AppendProperties
<1>5. /\ S \in Seq(Promise!Report) /\ Len(S) = n + m + 1
      /\ \A i \in 1..n : S[i] = [kind |-> "step", ok |-> steps[i].passed]
      /\ \A i \in 1..(m + 1) : S[n + i] = [kind |-> "assertion", ok |-> assertions'[i].ok]
  <2>1. RecordsKept' /\ AssertionsKept'
    BY DEF PlanInv
  <2>2. ReportsKept'
    BY <2>1, ReportsFacts, PTL
  <2>3. Len(steps') = n /\ Len(assertions') = m + 1
    BY <1>1, <1>4
  <2>4. /\ S \in Seq(Promise!Report) /\ Len(S) = n + (m + 1)
        /\ \A i \in 1..n : S[i] = [kind |-> "step", ok |-> steps'[i].passed]
        /\ \A i \in 1..(m + 1) : S[n + i] = [kind |-> "assertion", ok |-> assertions'[i].ok]
    BY <1>1, <2>2, <2>3 DEF ReportsKept
  <2>5. n + (m + 1) = n + m + 1
    BY <1>3
  <2>6. QED
    BY <2>4, <2>5
<1>6. S[n + m + 1] = e /\ e \in Promise!Report /\ e.kind = "assertion"
  <2>1. m + 1 \in 1..(m + 1) /\ n + (m + 1) = n + m + 1 /\ n + m + 1 \in 1..Len(S)
    BY <1>3, <1>5
  <2>2. S[n + m + 1] = [kind |-> "assertion", ok |-> assertions'[m + 1].ok]
    BY <1>5, <2>1
  <2>3. S[n + m + 1] = e
    BY <1>2, <1>4, <2>2
  <2>4. S[n + m + 1] \in Promise!Report
    BY <1>5, <2>1, ElementOfSeq
  <2>5. QED
    BY <1>2, <2>3, <2>4
<1>7. \A i \in 1..(n + m) : S[i] = R[i]
  <2> TAKE i \in 1..(n + m)
  <2>1. CASE i \in 1..n
    BY <1>3, <1>5, <2>1
  <2>2. CASE i \notin 1..n
    <3>1. i - n \in 1..m /\ i - n \in 1..(m + 1) /\ i = n + (i - n)
      BY <1>3, <2>2
    <3>2. S[i] = [kind |-> "assertion", ok |-> assertions'[i - n].ok]
      BY <1>5, <3>1
    <3>3. R[i] = [kind |-> "assertion", ok |-> assertions[i - n].ok]
      BY <1>3, <3>1
    <3>4. QED
      BY <1>4, <3>1, <3>2, <3>3
  <2>3. QED
    BY <2>1, <2>2
<1>8. S = Append(R, e)
  <2>1. PICK z, k : z = Append(R, e) /\ k = n + m
    OBVIOUS
  <2>2. /\ z \in Seq(Promise!Report) /\ Len(z) = k + 1 /\ z[k + 1] = e /\ k \in Nat
        /\ \A i \in 1..k : z[i] = R[i]
    BY <1>3, <1>6, <2>1, AppendProperties
  <2>3. ASSUME NEW i \in 1..(k + 1) PROVE S[i] = z[i]
    <3>1. CASE i = k + 1
      BY <1>6, <2>1, <2>2, <3>1
    <3>2. CASE i \in 1..k
      BY <1>7, <2>1, <2>2, <3>2
    <3>3. QED
      BY <2>2, <3>1, <3>2
  <2>4. Len(S) = k + 1
    BY <1>5, <2>1
  <2>5. S = z
    BY <1>5, <2>2, <2>3, <2>4, SeqEqual
  <2>6. QED
    BY <2>1, <2>5
<1>9. ~Promise!Broken
  BY NothingBroken
<1>10. Promise!Emit(e)
  BY <1>1, <1>6, <1>8, <1>9 DEF Promise!Emit, Promise!IsFailedStep
<1>11. QED
  BY <1>6, <1>10 DEF Promise!PromiseNext

LEMMA NothingReported ==
  ASSUME UNCHANGED <<steps, assertions>>
  PROVE  Execution!Reports' = Execution!Reports
BY DEF Execution!Reports

LEMMA RejectedUnreported ==
  ASSUME UNCHANGED <<steps, assertions>>, promise = "pending", promise' = "rejected"
  PROVE  Promise!PromiseNext
BY NothingReported DEF Promise!PromiseNext, Promise!Reject

\* A failed item: a balance is not reported, an expected failure is reported as passed.
LEMMA FailureReported ==
  ASSUME PlanInv, PlanInv', promise = "pending", Done < Operations(scenario), assertions' = assertions,
         NEW code, Execution!ItemFails(code)
  PROVE  Promise!PromiseNext
<1>1. PICK item, expected : item = Head(todo) /\ expected = Execution!Matches(item, code)
  OBVIOUS
<1>2. /\ IF item.kind = "balance" THEN steps' = steps
         ELSE steps' = Append(steps, [id |-> item.id, passed |-> expected, code |-> code])
      /\ IF expected THEN promise' = promise ELSE promise' = "rejected"
      /\ expected \in BOOLEAN /\ (expected => item.kind = "step")
  BY <1>1 DEF Execution!ItemFails, Execution!RecordStep, Execution!Matches
<1>3. CASE item.kind = "balance"
  <2>1. promise' = "rejected" /\ steps' = steps
    BY <1>2, <1>3
  <2>2. QED
    BY <2>1, RejectedUnreported
<1>4. CASE item.kind # "balance"
  <2>1. PICK r : r = [id |-> item.id, passed |-> expected, code |-> code]
    OBVIOUS
  <2>2. steps' = Append(steps, r)
    BY <1>2, <1>4, <2>1
  <2>3. r.passed = expected
    BY <2>1
  <2>4. r.passed \in BOOLEAN /\ promise' = IF r.passed THEN promise ELSE "rejected"
    <3>1. CASE expected
      BY <1>2, <2>3, <3>1
    <3>2. CASE ~expected
      BY <1>2, <2>3, <3>2
    <3>3. QED
      BY <3>1, <3>2
  <2>5. QED
    BY <2>2, <2>4, StepReported
<1>5. QED
  BY <1>3, <1>4

\* What the loop and the timer report.
LEMMA LoopReported ==
  ASSUME PlanInv, PlanInv', Execution!Loop \/ Execution!StepTimesOut
  PROVE  Promise!PromiseNext \/ UNCHANGED <<steps, assertions, promise>>
<1>1. CASE Execution!Begin
  BY <1>1 DEF Execution!Begin, Execution!recordVars
<1>2. CASE Execution!ItemSucceeds
  <2>1. /\ racing # "none" /\ UNCHANGED <<assertions, promise>>
        /\ IF Head(todo).kind = "balance" THEN steps' = steps
           ELSE steps' = Append(steps, [id |-> racing, passed |-> TRUE, code |-> Execution!Success])
    BY <1>2 DEF Execution!ItemSucceeds, Execution!RecordStep
  <2>2. promise = "pending" /\ Done < Operations(scenario)
    BY <2>1, RacingFacts
  <2>3. PICK r : r = [id |-> racing, passed |-> TRUE, code |-> Execution!Success]
    OBVIOUS
  <2>4. r.passed /\ r.passed \in BOOLEAN
    BY <2>3
  <2>5. CASE Head(todo).kind = "balance"
    BY <2>1, <2>5
  <2>6. CASE Head(todo).kind # "balance"
    <3>1. steps' = Append(steps, r) /\ promise' = IF r.passed THEN promise ELSE "rejected"
      BY <2>1, <2>3, <2>4, <2>6
    <3>2. QED
      BY <2>1, <2>2, <2>4, <3>1, StepReported
  <2>7. QED
    BY <2>5, <2>6
<1>3. CASE Execution!OperationFails
  <2>1. racing # "none" /\ assertions' = assertions /\ Execution!ItemFails(op[racing].code)
    BY <1>3 DEF Execution!OperationFails
  <2>2. QED
    BY <2>1, RacingFacts, FailureReported
<1>4. CASE Execution!StepTimesOut
  <2>1. racing # "none" /\ assertions' = assertions /\ Execution!ItemFails(Execution!NoCode)
    BY <1>4 DEF Execution!StepTimesOut
  <2>2. QED
    BY <2>1, RacingFacts, FailureReported
<1>5. CASE Execution!StepRefused
  <2>1. Execution!Idle /\ Head(todo).kind \in OperationKinds /\ assertions' = assertions /\ Execution!ItemFails(Execution!NoCode)
    BY <1>5 DEF Execution!StepRefused, OperationKinds
  <2>2. QED
    BY <2>1, IdleFacts, FailureReported
<1>6. CASE Execution!EvaluateAssertion
  <2>1. promise = "pending" /\ steps' = steps
    BY <1>6 DEF Execution!EvaluateAssertion, Execution!Idle
  <2>2. CASE Execution!ReadsLedger(Head(todo))
    <3>1. promise' = "rejected" /\ assertions' = assertions
      BY <1>6, <2>2 DEF Execution!EvaluateAssertion
    <3>2. QED
      BY <2>1, <3>1, RejectedUnreported
  <2>3. CASE ~Execution!ReadsLedger(Head(todo))
    <3>1. PICK x : assertions' = Append(assertions, x) /\ promise' = promise
      BY <1>6, <2>3 DEF Execution!EvaluateAssertion
    <3>2. QED
      BY <2>1, <3>1, AssertionReported
  <2>4. QED
    BY <2>2, <2>3
<1>7. CASE Execution!Resolve
  <2>1. promise = "pending" /\ promise' = "resolved" /\ UNCHANGED <<steps, assertions>>
    BY <1>7 DEF Execution!Resolve, Execution!recordVars
  <2>2. Promise!Resolve
    BY <2>1, NothingReported, NothingBroken DEF Promise!Resolve
  <2>3. QED
    BY <2>2 DEF Promise!PromiseNext
<1>8. QED
  BY <1>1, <1>2, <1>3, <1>4, <1>5, <1>6, <1>7 DEF Execution!Loop

\* Requests, the pool and the abort report nothing and leave the promise alone.
LEMMA PromiseStep ==
  ASSUME GatewayInv, GatewayInv', [RunNext]_runVars
  PROVE  Promise!PromiseNext \/ UNCHANGED Promise!promiseVars
<1>1. PlanInv /\ PlanInv'
  BY DEF GatewayInv
<1>2. ASSUME UNCHANGED <<steps, assertions, promise>> PROVE UNCHANGED Promise!promiseVars
  BY <1>2, NothingReported DEF Promise!promiseVars
<1>3. CASE PoolAlone \/ UNCHANGED runVars
  BY <1>2, <1>3 DEF PoolAlone, runVars, planVars
<1>4. CASE PoolSettles
  <2>1. UNCHANGED <<steps, assertions, promise>>
    BY <1>4 DEF PoolSettles, planVars, Execution!FundingEnds, Execution!recordVars
  <2>2. QED
    BY <1>2, <2>1
<1>5. CASE RunAborts
  BY <1>2, <1>5 DEF RunAborts, Execution!RunAborts, Execution!recordVars
<1>6. CASE StepTimesOut
  BY <1>1, <1>2, <1>6, LoopReported DEF StepTimesOut
<1>7. CASE PlanAlone
  <2>1. CASE Execution!Loop
    BY <1>1, <1>2, <2>1, LoopReported
  <2>2. ASSUME NEW id \in Execution!Items, Execution!DelayEnds(id) PROVE UNCHANGED Promise!promiseVars
    BY <1>2, <2>2 DEF Execution!DelayEnds, Execution!recordVars
  <2>3. CASE Execution!Horizon
    <3>1. ASSUME NEW id \in Execution!Items,
                 \/ Execution!AccountLoaded(id) \/ Execution!TimeboundsFetched(id)
                 \/ Execution!SubmitAnswered(id) \/ Execution!BalanceRead(id)
          PROVE  UNCHANGED <<steps, assertions, promise>>
      BY <3>1 DEF Execution!AccountLoaded, Execution!TimeboundsFetched, Execution!SubmitAnswered, Execution!BalanceRead,
                  Execution!recordVars
    <3>2. ASSUME NEW id \in Execution!Items, NEW retryable \in BOOLEAN, Execution!RequestFails(id, retryable)
          PROVE  UNCHANGED <<steps, assertions, promise>>
      BY <3>2 DEF Execution!RequestFails, Execution!recordVars
    <3>3. ASSUME NEW tx \in sent, NEW answer \in Rejections \cup {Execution!Success}, Execution!LedgerSettles(tx, answer)
          PROVE  UNCHANGED <<steps, assertions, promise>>
      BY <3>3 DEF Execution!LedgerSettles, Execution!recordVars
    <3>4. UNCHANGED <<steps, assertions, promise>>
      BY <2>3, <3>1, <3>2, <3>3 DEF Execution!Horizon
    <3>5. QED
      BY <1>2, <3>4
  <2>4. QED
    BY <1>7, <2>1, <2>2, <2>3 DEF PlanAlone
<1>8. QED
  BY <1>3, <1>4, <1>5, <1>6, <1>7 DEF RunNext

LEMMA PromiseInitially == RunInit => Promise!PromiseInit
<1> SUFFICES ASSUME RunInit PROVE Promise!PromiseInit
  OBVIOUS
<1>1. steps = <<>> /\ assertions = <<>> /\ promise = "pending" /\ PlanInv
  BY PlanInit DEF RunInit, Execution!Init
<1>2. Execution!Reports \in Seq(Promise!Report) /\ Len(Execution!Reports) = 0
  <2>1. ReportsKept
    BY <1>1, ReportsFacts DEF PlanInv
  <2>2. QED
    BY <1>1, <2>1 DEF ReportsKept
<1>3. Execution!Reports = <<>>
  BY <1>2, EmptySeq
<1>4. QED
  BY <1>1, <1>3 DEF Promise!PromiseInit

\* Every run of the gateway is a run of LedgerPromise, the interface RunService.execute
\* is written against: reports stop with the first failed step, and the promise settles
\* once and resolves only if no step failed.
THEOREM KeepsPromiseAlways == RunSpec => KeepsPromise
<1>1. GatewayInv /\ GatewayInv' /\ [RunNext]_runVars => [Promise!PromiseNext]_(Promise!promiseVars)
  BY PromiseStep
<1>2. QED
  BY <1>1, PromiseInitially, GatewayInvariant, PTL DEF RunSpec, KeepsPromise, Promise!PromiseSpec

=============================================================================
