----------------------------- MODULE RunApiProofs -----------------------------
(***************************************************************************)
(* Proofs, for every set of clients, keys and bodies and for every quota   *)
(* and bound, of what idempotent creation and the rate limiter in front of *)
(* it promise to a client.                                                 *)
(***************************************************************************)
EXTENDS RunApi, FiniteSetTheorems, WellFoundedInduction, TLAPS

-----------------------------------------------------------------------------
(* The inductive invariant of idempotent creation.                         *)

\* A request with a key has arrived, and one that started a run awaits that run.
RequestsMade ==
    /\ \A r \in Requests : Keyed(r) => request[r].at >= 0
    /\ \A r \in Starters : request[r].at >= 0 /\ request[r].awaits = r

\* An entry is the request that started its run.
EntriesOwned ==
    /\ IsFiniteSet(DOMAIN entries)
    /\ \A k \in DOMAIN entries :
          /\ entries[k].owner \in Starters
          /\ request[entries[k].owner] = [key |-> k, body |-> entries[k].body,
                                          at |-> entries[k].createdAt, awaits |-> entries[k].owner]

\* A start is remembered for the retention period.
StartersRemembered ==
    \A r \in Starters :
        Keyed(r) /\ request[r].at > now - RetentionMs
        => request[r].key \in DOMAIN entries /\ entries[request[r].key].owner = r

\* A key that came in this tick has an entry, or finds none until the clock moves on.
KeysOfThisTick ==
    \A r \in Requests :
        Keyed(r) /\ request[r].at = now
        => request[r].key \in Fresh \/ Cardinality(Fresh) >= MaxEntries

\* Who waits for a promise is told what it holds, and only who was not let through to the
\* key is turned away.
AnswersFollow ==
    \A s \in Requests :
        /\ request[s].at = NotYet => answer[s] \in {"none", "TURNED_AWAY"} /\ request[s].awaits = Nobody
        /\ request[s].at # NotYet => answer[s] # "TURNED_AWAY"
        /\ request[s].awaits # Nobody /\ answer[s] # "none"
           => answer[s] = start[request[s].awaits] /\ answer[s] \in Outcomes

RepetitionsAwait ==
    \A r \in Starters, s \in Requests : Keyed(r) /\ Repeats(s, r) => request[s].awaits = r

CreationInv ==
    /\ TypeOK /\ RequestsMade /\ EntriesOwned /\ StartersRemembered /\ KeysOfThisTick
    /\ AnswersFollow /\ OneStartPerKey /\ RepetitionsAwait

LEMMA CreationInit == Init => CreationInv
<1> SUFFICES ASSUME Init PROVE CreationInv
  OBVIOUS
<1>1. TypeOK
  BY ConstantsAssumption DEF Init, TypeOK, Requests, Unsent, Nobody, NotYet
<1>2. Starters = {} /\ \A r \in Requests : ~Keyed(r)
  BY DEF Init, Starters, Keyed, Unsent
<1>3. DOMAIN entries = {} /\ IsFiniteSet({})
  BY FS_EmptySet DEF Init
<1>4. QED
  BY <1>1, <1>2, <1>3 DEF CreationInv, RequestsMade, EntriesOwned, StartersRemembered,
     KeysOfThisTick, AnswersFollow, OneStartPerKey, RepetitionsAwait, Init, Unsent

\* removeExpired leaves entries, and as many as can be counted.
LEMMA FreshFacts ==
  ASSUME CreationInv
  PROVE  /\ Fresh \subseteq DOMAIN entries /\ Fresh \subseteq Keys
         /\ IsFiniteSet(Fresh) /\ Cardinality(Fresh) \in Nat
<1>1. Fresh \subseteq DOMAIN entries /\ DOMAIN entries \subseteq Keys /\ IsFiniteSet(DOMAIN entries)
  BY DEF Fresh, CreationInv, TypeOK, EntriesOwned
<1>2. QED
  BY <1>1, FS_Subset, FS_CardinalityType

\* The request that arrives has not been seen, and only its record changes.
LEMMA ReceiveFacts ==
  ASSUME CreationInv, NEW r \in Requests, NEW key \in Keys \cup {NoKey}, NEW body \in Bodies \cup {"none"},
         NEW owner \in Requests \cup {Nobody}, Receive(r, key, body, owner), now' = now
  PROVE  /\ r \notin Starters /\ start[r] = "none" /\ ~Keyed(r) /\ answer[r] = "none"
         /\ request'[r] = [key |-> key, body |-> body, at |-> now, awaits |-> owner]
         /\ \A s \in Requests : s # r => request'[s] = request[s]
         /\ request' \in [Requests -> [key : Keys \cup {NoKey}, body : Bodies \cup {"none", "unread"},
                                       at : NotYet..now', awaits : Requests \cup {Nobody}]]
<1>1. answer[r] = "none" /\ request[r] = Unread /\ request' = [request EXCEPT ![r] = [key |-> key, body |-> body, at |-> now, awaits |-> owner]]
  BY DEF Receive, Turn
<1>2. request[r].at = -1 /\ ~Keyed(r)
  BY <1>1 DEF Unread, Keyed, NotYet
<1>3. r \notin Starters /\ start[r] = "none"
  BY <1>2 DEF CreationInv, RequestsMade, Starters
<1>4. now \in Nat /\ now \in NotYet..now
  BY ConstantsAssumption DEF CreationInv, TypeOK, NotYet
<1>5. QED
  BY <1>1, <1>2, <1>3, <1>4 DEF CreationInv, TypeOK

\* A request whose start was made within the retention period finds the start's entry.
LEMMA StartFound ==
  ASSUME CreationInv, NEW s \in Starters, Keyed(s), now - request[s].at < RetentionMs
  PROVE  /\ request[s].key \in Fresh
         /\ entries[request[s].key].owner = s
         /\ entries[request[s].key].body = request[s].body
<1>1. s \in Requests /\ request[s].at \in Int /\ now \in Int /\ RetentionMs \in Int
  BY ConstantsAssumption DEF CreationInv, TypeOK, Starters
<1>2. request[s].key \in DOMAIN entries /\ entries[request[s].key].owner = s
  BY <1>1 DEF CreationInv, StartersRemembered
<1>3. entries[request[s].key] \in [body : Bodies, owner : Requests, createdAt : 0..now]
  BY <1>2 DEF CreationInv, TypeOK
<1>4. entries[request[s].key].body = request[s].body /\ entries[request[s].key].createdAt = request[s].at
  <2> DEFINE e == entries[request[s].key]
  <2>1. request[s] = [key |-> request[s].key, body |-> e.body, at |-> e.createdAt, awaits |-> s]
    BY <1>2 DEF CreationInv, EntriesOwned
  <2> HIDE DEF e
  <2>2. QED
    BY <2>1 DEF e
<1>5. QED
  BY <1>1, <1>2, <1>3, <1>4 DEF Fresh

\* What an update of the store that only removes expired entries leaves true.
LEMMA KeptFacts ==
  ASSUME CreationInv, entries' = Kept, now' = now
  PROVE  /\ DOMAIN entries' = Fresh /\ Fresh' = Fresh /\ IsFiniteSet(DOMAIN entries')
         /\ \A k \in Fresh : entries'[k] = entries[k] /\ k \in DOMAIN entries
  BY FreshFacts DEF Kept, Fresh

CreationAnswers == Outcomes \cup {"none", "TURNED_AWAY", "IDEMPOTENCY_CONFLICT", "IDEMPOTENCY_CAPACITY"}

\* A request with a key that starts nothing: it found an entry, or the store full, and
\* awaits the run of every start it repeats.
LEMMA NoStartStep ==
  ASSUME CreationInv, NEW r \in Requests, NEW key \in Keys, NEW body \in Bodies,
         NEW owner \in Requests \cup {Nobody}, Receive(r, key, body, owner),
         entries' = Kept, now' = now, start' = start, running' = running,
         answer' \in [Requests -> CreationAnswers],
         \A s \in Requests : s # r => answer'[s] = answer[s],
         answer'[r] = "none" \/ (owner = Nobody /\ answer'[r] # "TURNED_AWAY"),
         key \in Fresh \/ Cardinality(Fresh) >= MaxEntries,
         \A s \in Starters : /\ request[s].key = key /\ request[s].body = body
                             /\ now - request[s].at < RetentionMs
                             => owner = s
  PROVE  CreationInv'
<1> DEFINE new == [key |-> key, body |-> body, at |-> now, awaits |-> owner]
<1>1. /\ r \notin Starters /\ start[r] = "none" /\ ~Keyed(r) /\ answer[r] = "none" /\ request'[r] = new
      /\ \A s \in Requests : s # r => request'[s] = request[s]
      /\ request' \in [Requests -> [key : Keys \cup {NoKey}, body : Bodies \cup {"none", "unread"},
                                    at : NotYet..now', awaits : Requests \cup {Nobody}]]
  BY ReceiveFacts
<1>2. /\ DOMAIN entries' = Fresh /\ Fresh' = Fresh /\ IsFiniteSet(DOMAIN entries')
      /\ \A k \in Fresh : entries'[k] = entries[k] /\ k \in DOMAIN entries
  BY KeptFacts
<1>3. Starters' = Starters /\ Starters \subseteq Requests
  BY DEF Starters
<1>4. now \in Nat /\ key # NoKey /\ RetentionMs \in Nat
  BY ConstantsAssumption DEF CreationInv, TypeOK
<1>5. TypeOK'
  BY <1>1, <1>2 DEF CreationInv, TypeOK, CreationAnswers
<1>6. RequestsMade'
  BY <1>1, <1>3, <1>4 DEF CreationInv, RequestsMade, Keyed
<1>7. EntriesOwned'
  BY <1>1, <1>2, <1>3 DEF CreationInv, EntriesOwned
<1>8. StartersRemembered'
  <2> SUFFICES ASSUME NEW s \in Starters, Keyed(s), request[s].at > now - RetentionMs
               PROVE  request[s].key \in DOMAIN entries' /\ entries'[request[s].key].owner = s
    BY <1>1, <1>3 DEF StartersRemembered, Keyed
  <2>1. now - request[s].at < RetentionMs
    BY <1>3, <1>4 DEF CreationInv, TypeOK
  <2>2. /\ request[s].key \in Fresh
        /\ entries[request[s].key].owner = s
    BY <2>1, StartFound
  <2>3. QED
    BY <2>2, <1>2
<1>9. KeysOfThisTick'
  BY <1>1, <1>2 DEF CreationInv, KeysOfThisTick, Keyed
<1>10. OneStartPerKey'
  BY <1>1, <1>3 DEF CreationInv, OneStartPerKey, Keyed
<1>11. RepetitionsAwait'
  BY <1>1, <1>3 DEF CreationInv, RepetitionsAwait, Repeats, Keyed
<1>12. AnswersFollow'
  BY <1>1, <1>4 DEF CreationInv, AnswersFollow, NotYet, Outcomes
<1>13. QED
  BY <1>5, <1>6, <1>7, <1>8, <1>9, <1>10, <1>11, <1>12 DEF CreationInv

\* The start of a run makes the request a starter, whatever start() answers.
LEMMA StartRunFacts ==
  ASSUME CreationInv, NEW r \in Requests, StartRun(r)
  PROVE  /\ Starters' = Starters \cup {r} /\ Starters \subseteq Requests
         /\ start' \in [Requests -> Outcomes \cup {"none", "creating"}]
         /\ \A s \in Requests : s # r => start'[s] = start[s]
         /\ running' \subseteq Requests
<1>1. start \in [Requests -> Outcomes \cup {"none", "creating"}] /\ running \subseteq Requests
  BY DEF CreationInv, TypeOK
<1>2. /\ start' \in {[start EXCEPT ![r] = "RUN_CAPACITY"], [start EXCEPT ![r] = "creating"]}
      /\ running' \in {running, running \cup {r}}
  BY DEF StartRun
<1>3. QED
  BY <1>1, <1>2 DEF Starters, Outcomes

\* A request without a key starts a run and is remembered nowhere.
LEMMA UnkeyedStep ==
  ASSUME CreationInv, NEW r \in Requests, PostWithoutKey(r)
  PROVE  CreationInv'
<1> DEFINE new == [key |-> NoKey, body |-> "none", at |-> now, awaits |-> r]
<1> USE DEF PostWithoutKey
<1>1. /\ r \notin Starters /\ start[r] = "none" /\ ~Keyed(r) /\ answer[r] = "none" /\ request'[r] = new
      /\ \A s \in Requests : s # r => request'[s] = request[s]
      /\ request' \in [Requests -> [key : Keys \cup {NoKey}, body : Bodies \cup {"none", "unread"},
                                    at : NotYet..now', awaits : Requests \cup {Nobody}]]
  BY ReceiveFacts
<1>2. /\ Starters' = Starters \cup {r} /\ Starters \subseteq Requests
      /\ start' \in [Requests -> Outcomes \cup {"none", "creating"}]
      /\ \A s \in Requests : s # r => start'[s] = start[s]
      /\ running' \subseteq Requests
  BY StartRunFacts
<1>3. ~Keyed(r)' /\ \A s \in Requests : s # r => (Keyed(s)' <=> Keyed(s))
  BY <1>1 DEF Keyed
<1>4. now \in Nat
  BY ConstantsAssumption DEF CreationInv, TypeOK
<1>5. TypeOK'
  BY <1>1, <1>2 DEF CreationInv, TypeOK
<1>6. RequestsMade'
  BY <1>1, <1>2, <1>3, <1>4 DEF CreationInv, RequestsMade
<1>7. EntriesOwned'
  BY <1>1, <1>2 DEF CreationInv, EntriesOwned
<1>8. StartersRemembered'
  BY <1>1, <1>2, <1>3 DEF CreationInv, StartersRemembered
<1>9. KeysOfThisTick'
  <2>1. Fresh' = Fresh
    BY DEF Fresh
  <2>2. QED
    BY <1>1, <1>3, <2>1 DEF CreationInv, KeysOfThisTick
<1>10. OneStartPerKey'
  BY <1>1, <1>2, <1>3 DEF CreationInv, OneStartPerKey, Keyed
<1>11. RepetitionsAwait'
  BY <1>1, <1>2, <1>3 DEF CreationInv, RepetitionsAwait, Repeats, Keyed
<1>12. AnswersFollow'
  BY <1>1, <1>2, <1>4 DEF CreationInv, AnswersFollow, NotYet, Outcomes
<1>13. QED
  BY <1>5, <1>6, <1>7, <1>8, <1>9, <1>10, <1>11, <1>12 DEF CreationInv

\* The first request of a key in a retention period starts a run, and no request of this
\* tick carried the key before it.
LEMMA CreatesStep ==
  ASSUME CreationInv, NEW r \in Requests, NEW key \in Keys, NEW body \in Bodies,
         PostCreates(r, key, body)
  PROVE  CreationInv'
<1> DEFINE new == [key |-> key, body |-> body, at |-> now, awaits |-> r]
           entry == [body |-> body, owner |-> r, createdAt |-> now]
<1> USE DEF PostCreates
<1>1. /\ r \notin Starters /\ start[r] = "none" /\ ~Keyed(r) /\ answer[r] = "none" /\ request'[r] = new
      /\ \A s \in Requests : s # r => request'[s] = request[s]
      /\ request' \in [Requests -> [key : Keys \cup {NoKey}, body : Bodies \cup {"none", "unread"},
                                    at : NotYet..now', awaits : Requests \cup {Nobody}]]
  BY ReceiveFacts
<1>2. /\ Starters' = Starters \cup {r} /\ Starters \subseteq Requests
      /\ start' \in [Requests -> Outcomes \cup {"none", "creating"}]
      /\ \A s \in Requests : s # r => start'[s] = start[s]
      /\ running' \subseteq Requests
  BY StartRunFacts
<1>3. Keyed(r)' /\ \A s \in Requests : s # r => (Keyed(s)' <=> Keyed(s))
  BY <1>1, ConstantsAssumption DEF Keyed
<1>4. now \in Nat /\ RetentionMs \in Nat \ {0} /\ MaxEntries \in Nat
  BY ConstantsAssumption DEF CreationInv, TypeOK
<1>5. /\ Fresh \subseteq DOMAIN entries /\ Fresh \subseteq Keys
      /\ IsFiniteSet(Fresh) /\ Cardinality(Fresh) \in Nat
  BY FreshFacts
<1>6. /\ DOMAIN entries' = Fresh \cup {key} /\ entries'[key] = entry
      /\ \A k \in Fresh : entries'[k] = entries[k] /\ k # key
  OBVIOUS
<1>7. Fresh' = Fresh \cup {key}
  BY <1>4, <1>6 DEF Fresh
<1>8. \A s \in Requests : Keyed(s) /\ request[s].at = now => request[s].key \in Fresh
  BY <1>4, <1>5 DEF CreationInv, KeysOfThisTick
<1>9. \A s \in Starters : Keyed(s) /\ now - request[s].at < RetentionMs
                          => request[s].key \in Fresh /\ entries[request[s].key].owner = s
  BY StartFound
<1>10. TypeOK'
  <2>1. \A k \in DOMAIN entries' : entries'[k] \in [body : Bodies, owner : Requests, createdAt : 0..now']
    BY <1>4, <1>5, <1>6 DEF CreationInv, TypeOK
  <2>2. QED
    BY <1>1, <1>2, <1>5, <1>6, <2>1 DEF CreationInv, TypeOK
<1>11. RequestsMade'
  BY <1>1, <1>2, <1>3, <1>4 DEF CreationInv, RequestsMade
<1>12. EntriesOwned'
  <2>1. IsFiniteSet(DOMAIN entries')
    BY <1>5, <1>6, FS_AddElement
  <2>2. ASSUME NEW k \in Fresh
        PROVE  /\ entries'[k].owner \in Starters'
               /\ request'[entries'[k].owner] = [key |-> k, body |-> entries'[k].body,
                                                 at |-> entries'[k].createdAt, awaits |-> entries'[k].owner]
    BY <1>1, <1>2, <1>5, <1>6 DEF CreationInv, EntriesOwned
  <2>3. QED
    BY <1>1, <1>2, <1>6, <2>1, <2>2 DEF EntriesOwned
<1>13. StartersRemembered'
  <2>1. \A s \in Starters : Keyed(s) /\ request[s].at > now - RetentionMs
                            => now - request[s].at < RetentionMs
    BY <1>2, <1>4 DEF CreationInv, TypeOK
  <2>2. QED
    BY <1>1, <1>2, <1>3, <1>6, <1>9, <2>1 DEF StartersRemembered
<1>14. KeysOfThisTick'
  BY <1>1, <1>3, <1>7, <1>8 DEF KeysOfThisTick
<1>15. OneStartPerKey'
  <2>1. ASSUME NEW s \in Starters, request[s].key = key
        PROVE  request'[r].at - request'[s].at >= RetentionMs
    <3>1. Keyed(s) /\ s \in Requests /\ s # r /\ request[s].at \in Int
      BY <1>1, <1>2, <2>1, ConstantsAssumption DEF Keyed, CreationInv, TypeOK
    <3>2. ~(now - request[s].at < RetentionMs)
      BY <1>6, <1>9, <2>1, <3>1
    <3>3. QED
      BY <1>1, <1>4, <3>1, <3>2
  <2>2. \A s \in Starters : s # r /\ (request'[s].key = request'[r].key => request[s].key = key)
    BY <1>1, <1>2
  <2>3. QED
    BY <1>1, <1>2, <1>3, <2>1, <2>2 DEF CreationInv, OneStartPerKey, Keyed
<1>16. RepetitionsAwait'
  <2>1. ASSUME NEW s \in Requests, s # r, request[s].key = key, request[s].at >= now
        PROVE  FALSE
    <3>1. request[s].at = now
      BY <1>4, <2>1 DEF CreationInv, TypeOK
    <3>2. QED
      BY <1>6, <1>8, <2>1, <3>1, ConstantsAssumption DEF Keyed
  <2>2. ASSUME NEW s \in Starters, Keyed(s), request[s].key = key, now - request[s].at < RetentionMs
        PROVE  FALSE
    BY <1>6, <1>9, <2>2
  <2>3. QED
    BY <1>1, <1>2, <1>3, <2>1, <2>2 DEF CreationInv, RepetitionsAwait, Repeats, Keyed
<1>17. AnswersFollow'
  BY <1>1, <1>2, <1>4 DEF CreationInv, AnswersFollow, NotYet, Outcomes
<1>18. QED
  BY <1>10, <1>11, <1>12, <1>13, <1>14, <1>15, <1>16, <1>17 DEF CreationInv

\* The clock, and what happens to a run once it was started, touch neither the entries nor
\* the requests.
LEMMA FrameStep ==
  ASSUME CreationInv, TypeOK', AnswersFollow', UNCHANGED <<entries, request>>, Starters' = Starters, now' \in {now, now + 1}
  PROVE  CreationInv'
<1>1. now \in Nat /\ RetentionMs \in Nat /\ Starters \subseteq Requests
  BY ConstantsAssumption DEF CreationInv, TypeOK, Starters
<1>2. \A r \in Requests : (Keyed(r)' <=> Keyed(r)) /\ request[r].at \in Int /\ request[r].at <= now
  BY DEF Keyed, CreationInv, TypeOK, NotYet
<1>3. RequestsMade' /\ EntriesOwned' /\ OneStartPerKey' /\ RepetitionsAwait'
  BY <1>2 DEF CreationInv, RequestsMade, EntriesOwned, OneStartPerKey, RepetitionsAwait, Repeats, Keyed
<1>4. StartersRemembered'
  BY <1>1, <1>2 DEF CreationInv, StartersRemembered
<1>5. KeysOfThisTick'
  <2>1. CASE now' = now
    <3>1. Fresh' = Fresh
      BY <2>1 DEF Fresh
    <3>2. QED
      BY <1>2, <2>1, <3>1 DEF CreationInv, KeysOfThisTick
  <2>2. CASE now' = now + 1
    BY <1>1, <1>2, <2>2 DEF KeysOfThisTick
  <2>3. QED
    BY <2>1, <2>2
<1>6. QED
  BY <1>3, <1>4, <1>5 DEF CreationInv

\* One turn of the handler.
LEMMA PostStep ==
  ASSUME CreationInv, NEW r \in Requests, Post(r)
  PROVE  CreationInv'
<1>1. CASE PostWithoutKey(r)
  BY <1>1, UnkeyedStep
<1>2. ASSUME NEW key \in Keys, NEW body \in Bodies,
             \/ PostCreates(r, key, body) \/ PostExisting(r, key, body)
             \/ PostConflict(r, key, body) \/ PostOverCapacity(r, key, body)
      PROVE  CreationInv'
  <2>1. answer \in [Requests -> CreationAnswers] /\ \A k \in Fresh : entries[k] \in [body : Bodies, owner : Requests, createdAt : 0..now]
    BY FreshFacts DEF CreationInv, TypeOK, CreationAnswers
  <2>2. ASSUME NEW s \in Starters, request[s].key = key, now - request[s].at < RetentionMs
        PROVE  key \in Fresh /\ entries[key].body = request[s].body /\ entries[key].owner = s
    <3>1. Keyed(s)
      BY <2>2, ConstantsAssumption DEF Keyed
    <3>2. QED
      BY <2>2, <3>1, StartFound
  <2>3. CASE PostCreates(r, key, body)
    BY <2>3, CreatesStep
  <2>4. CASE PostExisting(r, key, body)
    <3>1. /\ answer' \in [Requests -> CreationAnswers] /\ entries[key].owner \in Requests \cup {Nobody}
          /\ answer' = answer /\ answer[r] = "none"
      BY <2>1, <2>4 DEF PostExisting, Receive, Turn
    <3>2. QED
      BY <2>2, <2>4, <3>1, NoStartStep DEF PostExisting
  <2>5. CASE PostConflict(r, key, body)
    <3>1. /\ answer' \in [Requests -> CreationAnswers] /\ answer'[r] # "TURNED_AWAY"
          /\ \A s \in Requests : s # r => answer'[s] = answer[s]
      BY <2>1, <2>5 DEF PostConflict, Answer, CreationAnswers
    <3>2. QED
      BY <2>2, <2>5, <3>1, NoStartStep DEF PostConflict
  <2>6. CASE PostOverCapacity(r, key, body)
    <3>1. /\ answer' \in [Requests -> CreationAnswers] /\ answer'[r] # "TURNED_AWAY"
          /\ \A s \in Requests : s # r => answer'[s] = answer[s]
      BY <2>1, <2>6 DEF PostOverCapacity, Answer, CreationAnswers
    <3>2. QED
      BY <2>2, <2>6, <3>1, NoStartStep DEF PostOverCapacity
  <2>7. QED
    BY <1>2, <2>3, <2>4, <2>5, <2>6
<1>3. QED
  BY <1>1, <1>2 DEF Post

\* A request arrives, or is turned away before its key is looked up.
LEMMA LookupStep ==
  ASSUME CreationInv, NEW r \in Requests, Arrive(r) \/ TurnAway(r)
  PROVE  CreationInv'
<1>1. CASE Arrive(r)
  <2>1. /\ request[r] = Unsent /\ request' = [request EXCEPT ![r] = Unread]
        /\ UNCHANGED <<now, entries, start, answer, running>>
    BY <1>1 DEF Arrive
  <2>2. /\ request'[r] = Unread /\ \A s \in Requests : s # r => request'[s] = request[s]
        /\ Unread \in [key : Keys \cup {NoKey}, body : Bodies \cup {"none", "unread"},
                       at : NotYet..now, awaits : Requests \cup {Nobody}]
    BY <2>1, ConstantsAssumption DEF CreationInv, TypeOK, Unread, NotYet
  <2>3. ~Keyed(r)' /\ ~Keyed(r) /\ \A s \in Requests : s # r => (Keyed(s)' <=> Keyed(s))
    BY <2>1, <2>2 DEF Keyed, Unsent, Unread
  <2>4. Starters' = Starters /\ r \notin Starters /\ Starters \subseteq Requests /\ Fresh' = Fresh
    BY <2>1 DEF Starters, CreationInv, RequestsMade, Unsent, NotYet, Fresh
  <2>5. TypeOK'
    BY <2>1, <2>2 DEF CreationInv, TypeOK
  <2>6. RequestsMade' /\ EntriesOwned' /\ StartersRemembered' /\ KeysOfThisTick'
    BY <2>1, <2>2, <2>3, <2>4 DEF CreationInv, RequestsMade, EntriesOwned, StartersRemembered, KeysOfThisTick
  <2>7. AnswersFollow'
    BY <2>1, <2>2 DEF CreationInv, AnswersFollow, Unsent, Unread
  <2>8. OneStartPerKey'
    BY <2>2, <2>3, <2>4 DEF CreationInv, OneStartPerKey
  <2>9. RepetitionsAwait'
    <3>1. \A q \in Starters : q # r /\ q \in Requests /\ ~(Unread.at >= request[q].at)
      BY <2>4 DEF CreationInv, TypeOK, RequestsMade, Unread, NotYet
    <3>2. QED
      BY <2>2, <2>3, <2>4, <3>1 DEF CreationInv, RepetitionsAwait, Repeats
  <2>10. QED
    BY <2>5, <2>6, <2>7, <2>8, <2>9 DEF CreationInv
<1>2. CASE TurnAway(r)
  <2>1. /\ request[r] = Unread /\ answer' = [answer EXCEPT ![r] = "TURNED_AWAY"]
        /\ UNCHANGED <<now, entries, request, start, running>>
    BY <1>2 DEF TurnAway, Turn, Answer
  <2>2. TypeOK' /\ AnswersFollow' /\ Starters' = Starters
    BY <2>1 DEF CreationInv, TypeOK, AnswersFollow, Starters, Unread
  <2>3. QED
    BY <2>1, <2>2, FrameStep
<1>3. QED
  BY <1>1, <1>2

\* What happens to a started run, and to those that await it.
LEMMA ProcessStep ==
  ASSUME CreationInv, NEW r \in Requests, Process(r) \/ RunEnds(r)
  PROVE  CreationInv'
<1> USE DEF CreationInv, TypeOK, Starters, Outcomes, AnswersFollow
<1>1. CASE CreateSucceeds(r)
  <2>1. TypeOK' /\ AnswersFollow' /\ Starters' = Starters
    BY <1>1 DEF CreateSucceeds
  <2>2. QED
    BY <1>1, <2>1, FrameStep DEF CreateSucceeds
<1>2. CASE CreateFails(r)
  <2>1. TypeOK' /\ AnswersFollow' /\ Starters' = Starters
    BY <1>2 DEF CreateFails
  <2>2. QED
    BY <1>2, <2>1, FrameStep DEF CreateFails
<1>3. CASE Reply(r)
  <2>1. request[r].awaits \in Requests
    BY <1>3 DEF Reply
  <2>2. /\ start[request[r].awaits] \in Outcomes
        /\ answer' = [answer EXCEPT ![r] = start[request[r].awaits]]
        /\ UNCHANGED <<now, entries, request, start, running>>
    BY <1>3, <2>1 DEF Reply, Answer
  <2>3. request[r].at # NotYet
    BY <1>3, <2>1, ConstantsAssumption DEF Reply
  <2>4. TypeOK' /\ AnswersFollow' /\ Starters' = Starters
    BY <2>1, <2>2, <2>3
  <2>5. QED
    BY <2>2, <2>4, FrameStep
<1>4. CASE RunEnds(r)
  <2>1. TypeOK' /\ AnswersFollow' /\ Starters' = Starters
    BY <1>4 DEF RunEnds
  <2>2. QED
    BY <1>4, <2>1, FrameStep DEF RunEnds
<1>5. QED
  BY <1>1, <1>2, <1>3, <1>4 DEF Process

\* A step that leaves the handler's state alone.
LEMMA CreationStutter ==
  ASSUME CreationInv, UNCHANGED vars
  PROVE  CreationInv'
<1>1. TypeOK' /\ AnswersFollow' /\ Starters' = Starters
  BY DEF vars, CreationInv, TypeOK, AnswersFollow, Starters
<1>2. QED
  BY <1>1, FrameStep DEF vars

LEMMA CreationNext ==
  ASSUME CreationInv, [ApiNext]_api
  PROVE  CreationInv'
<1>1. CASE Tick
  <2>1. TypeOK' /\ AnswersFollow' /\ Starters' = Starters
    <3>1. now \in Nat /\ MaxTime \in Nat /\ now' = now + 1 /\ now < MaxTime
      BY <1>1, ConstantsAssumption DEF Tick, CreationInv, TypeOK
    <3>2. QED
      BY <1>1, <3>1 DEF Tick, CreationInv, TypeOK, AnswersFollow, Starters, NotYet
  <2>2. QED
    BY <1>1, <2>1, FrameStep DEF Tick
<1>2. CASE UNCHANGED vars
  BY <1>2, CreationStutter
<1>3. ASSUME NEW r \in Requests, Arrive(r) \/ TurnAway(r) \/ Post(r) \/ Process(r) \/ RunEnds(r)
      PROVE  CreationInv'
  BY <1>3, LookupStep, PostStep, ProcessStep
<1>4. QED
  BY <1>1, <1>2, <1>3 DEF ApiNext, api, PostRun, PostRefused, OtherRequest

\* Creation keeps its types, starts at most one run per key and retention period, and
\* answers a repeated request with the run of the first, however requests, expiry, a full
\* store, the limit on active runs and pending creates interleave.
THEOREM CreationAlwaysOK == ApiSpec => []CreationInv
<1>1. ApiInit => CreationInv
  BY CreationInit DEF ApiInit
<1>2. CreationInv /\ [ApiNext]_api => CreationInv'
  BY CreationNext
<1>3. QED
  BY <1>1, <1>2, PTL DEF ApiSpec

\* Two runs started under one key are at least a retention period apart.
THEOREM OneStartPerKeyAlways == ApiSpec => []OneStartPerKey
<1>1. CreationInv => OneStartPerKey
  BY DEF CreationInv
<1>2. QED
  BY <1>1, CreationAlwaysOK, PTL

\* A request that comes to its key and repeats key and body within the period of a start
\* waits for the promise of that start and gets its answer; one that gets another answer
\* was turned away by the lookup of its scenario, before its key was looked at.
THEOREM SameKeySameAnswerAlways == ApiSpec => []SameKeySameAnswer
<1>1. CreationInv => SameKeySameAnswer
  BY ConstantsAssumption DEF CreationInv, RepetitionsAwait, AnswersFollow, SameKeySameAnswer, Starters,
     Requests, Nobody
<1>2. QED
  BY <1>1, CreationAlwaysOK, PTL

-----------------------------------------------------------------------------
(* The inductive invariant of the limiter.                                 *)

LimiterKeys == {"run", "global"} \X Clients

LogTypeOK ==
    /\ now \in Nat
    /\ log \in Seq([key : LimiterKeys, at : Nat, allowed : BOOLEAN, retryAfter : Nat])
    /\ \A i \in DOMAIN log : log[i].at <= now
    /\ \A i, j \in DOMAIN log : i <= j => log[i].at <= log[j].at

\* A bucket was opened by a request of its key, and ends one window later.
BucketsOpened ==
    \A k \in DOMAIN buckets :
        /\ buckets[k] = [count |-> buckets[k].count, resetAt |-> buckets[k].resetAt, place |-> buckets[k].place]
        /\ buckets[k].count \in Nat /\ buckets[k].resetAt \in Nat /\ buckets[k].place \in Nat
        /\ \E i \in DOMAIN log : log[i].key = k /\ log[i].at = buckets[k].resetAt - WindowMs

\* The i-th answer opens a window of its key, with fewer rivals after it than buckets.
Opens(i) == \A j \in 1..(i - 1) : log[j].key = log[i].key => log[j].at <= log[i].at - WindowMs
Remembers(i) == Cardinality(Rivals(i)) < MaxKeys
InWindow(i) == Within(log[i].key, log[i].at, log[i].at + WindowMs - 1)

\* While the window lasts, its bucket has counted every request in it, and the buckets
\* that were made after it belong to rivals.
WindowsCounted ==
    \A i \in DOMAIN log :
        Opens(i) /\ Remembers(i) /\ now < log[i].at + WindowMs
        => /\ log[i].key \in DOMAIN buckets
           /\ buckets[log[i].key].resetAt = log[i].at + WindowMs
           /\ Cardinality(InWindow(i)) <= buckets[log[i].key].count
           /\ \A m \in DOMAIN buckets \ {log[i].key} :
                 buckets[m].place >= buckets[log[i].key].place => m \in Rivals(i)

\* After a refusal the bucket of the key does not outlive the Retry-After.
RefusalsEnd ==
    \A i \in DOMAIN log :
        /\ ~log[i].allowed /\ log[i].key \in DOMAIN buckets
        /\ \A j \in (i + 1)..Len(log) : log[j].key # log[i].key
        => buckets[log[i].key].resetAt <= log[i].at + log[i].retryAfter * TicksPerSecond

LimiterInv ==
    /\ LogTypeOK /\ BucketsOpened /\ WindowsCounted /\ RefusalsEnd
    /\ QuotaHolds /\ RetryAfterHonest

\* A finite set of numbers has a greatest and a least element.
LEMMA Extremes ==
  ASSUME NEW S, S \subseteq Int, IsFiniteSet(S), S # {}
  PROVE  /\ \E x \in S : \A y \in S : x >= y
         /\ \E x \in S : \A y \in S : x <= y
<1> DEFINE From(x) == {y \in S : y >= x}
           UpTo(x) == {y \in S : y <= x}
<1>1. IsWellFoundedOn(StrictSubsetOrdering(S), SUBSET S)
  BY FS_StrictSubsetOrderingWellFounded, FS_FiniteSubsetsOfFinite
<1>2. \E x \in S : \A y \in S : ~(<<From(y), From(x)>> \in StrictSubsetOrdering(S))
  <2> DEFINE T == {From(x) : x \in S}
  <2>1. T \subseteq SUBSET S /\ T # {}
    OBVIOUS
  <2> HIDE DEF T
  <2>2. \E t \in T : \A u \in T : ~(<<u, t>> \in StrictSubsetOrdering(S))
    BY <1>1, <2>1, WFMin
  <2>3. QED
    BY <2>2 DEF T
<1>3. \E x \in S : \A y \in S : ~(<<UpTo(y), UpTo(x)>> \in StrictSubsetOrdering(S))
  <2> DEFINE T == {UpTo(x) : x \in S}
  <2>1. T \subseteq SUBSET S /\ T # {}
    OBVIOUS
  <2> HIDE DEF T
  <2>2. \E t \in T : \A u \in T : ~(<<u, t>> \in StrictSubsetOrdering(S))
    BY <1>1, <2>1, WFMin
  <2>3. QED
    BY <2>2 DEF T
<1>4. ASSUME NEW A \in SUBSET S, NEW B \in SUBSET S, A \subseteq B, A # B
      PROVE  <<A, B>> \in StrictSubsetOrdering(S)
  BY <1>4, Zenon DEF StrictSubsetOrdering
<1>5. ASSUME NEW x \in S, NEW y \in S, y > x
      PROVE  <<From(y), From(x)>> \in StrictSubsetOrdering(S)
  <2>1. From(y) \subseteq From(x) /\ x \in From(x) /\ x \notin From(y)
    <3>1. x \in Int /\ y \in Int
      OBVIOUS
    <3>2. \A t \in S : t \in Int
      OBVIOUS
    <3>3. \A t \in S : t >= y => t >= x /\ t # x
      BY <1>5, <3>1, <3>2
    <3>4. x >= x /\ ~(x >= y)
      BY <1>5, <3>1
    <3>5. QED
      BY <3>3, <3>4
  <2>2. From(y) \in SUBSET S /\ From(x) \in SUBSET S
    OBVIOUS
  <2>3. From(x) # From(y)
    BY <2>1, Zenon
  <2> HIDE DEF From
  <2>4. QED
    BY <1>4, <2>1, <2>2, <2>3, Zenon
<1>6. ASSUME NEW x \in S, NEW y \in S, y < x
      PROVE  <<UpTo(y), UpTo(x)>> \in StrictSubsetOrdering(S)
  <2>1. UpTo(y) \subseteq UpTo(x) /\ x \in UpTo(x) /\ x \notin UpTo(y)
    <3>1. x \in Int /\ y \in Int
      OBVIOUS
    <3>2. \A t \in S : t \in Int
      OBVIOUS
    <3>3. \A t \in S : t <= y => t <= x /\ t # x
      BY <1>6, <3>1, <3>2
    <3>4. x <= x /\ ~(x <= y)
      BY <1>6, <3>1
    <3>5. QED
      BY <3>3, <3>4
  <2>2. UpTo(y) \in SUBSET S /\ UpTo(x) \in SUBSET S
    OBVIOUS
  <2>3. UpTo(x) # UpTo(y)
    BY <2>1, Zenon
  <2> HIDE DEF UpTo
  <2>4. QED
    BY <1>4, <2>1, <2>2, <2>3, Zenon
<1> HIDE DEF From, UpTo
<1>7. PICK x \in S : \A y \in S : ~(<<From(y), From(x)>> \in StrictSubsetOrdering(S))
  BY <1>2
<1>8. PICK z \in S : \A y \in S : ~(<<UpTo(y), UpTo(z)>> \in StrictSubsetOrdering(S))
  BY <1>3
<1>9. \A y \in S : x >= y /\ z <= y
  <2> SUFFICES ASSUME NEW y \in S PROVE ~(y > x) /\ ~(y < z)
    OBVIOUS
  <2>1. QED
    BY <1>5, <1>6, <1>7, <1>8
<1>10. QED
  BY <1>9

LEMMA CeilFacts ==
  ASSUME NEW unit \in Nat \ {0}, NEW n \in Nat \ {0}, NEW m \in Nat, n <= m
  PROVE  /\ Ceil(n, unit) \in Nat \ {0} /\ n <= Ceil(n, unit) * unit
         /\ Ceil(n, unit) <= Ceil(m, unit)
<1>1. Ceil(n, unit) \in Nat \ {0} /\ n <= Ceil(n, unit) * unit
  BY SMT DEF Ceil
<1>2. Ceil(n, unit) <= Ceil(m, unit)
  BY SMT DEF Ceil
<1>3. QED
  BY <1>1, <1>2

LEMMA LimitPositive ==
  ASSUME NEW key \in LimiterKeys
  PROVE  Limit(key) \in Nat \ {0}
BY ApiAssumption DEF Limit

\* The answers of a period, and the keys they are about, can be counted.
LEMMA LogSetsFinite ==
  ASSUME LogTypeOK, NEW S \in SUBSET DOMAIN log, NEW T \in SUBSET S
  PROVE  /\ IsFiniteSet(S) /\ Cardinality(S) \in Nat /\ Cardinality(T) <= Cardinality(S)
         /\ IsFiniteSet({log[j].key : j \in S})
<1>1. DOMAIN log = 1..Len(log) /\ Len(log) \in Nat
  BY DEF LogTypeOK
<1>2. IsFiniteSet(DOMAIN log)
  BY <1>1, FS_Interval
<1>3. IsFiniteSet(S) /\ Cardinality(S) \in Nat /\ Cardinality(T) <= Cardinality(S)
  BY <1>2, FS_Subset, FS_CardinalityType
<1>4. IsFiniteSet({log[j].key : j \in S})
  <2> DEFINE keys == {log[i].key : i \in S}
             f == [i \in S |-> log[i].key]
  <2>1. f \in Surjection(S, keys)
    BY DEF Surjection
  <2> HIDE DEF keys, f
  <2>2. IsFiniteSet(keys)
    BY <1>3, <2>1, FS_Surjection
  <2>3. QED
    BY <2>2 DEF keys
<1>5. QED
  BY <1>3, <1>4

LEMMA RivalsFinite ==
  ASSUME LogTypeOK, NEW i \in DOMAIN log
  PROVE  IsFiniteSet(Rivals(i)) /\ Cardinality(Rivals(i)) \in Nat
<1> DEFINE later == {m \in (i + 1)..Len(log) : log[m].at < log[i].at + WindowMs}
<1>1. later \subseteq DOMAIN log
  BY DEF LogTypeOK
<1>2. Rivals(i) = {log[j].key : j \in later} \ {log[i].key}
  BY DEF Rivals
<1> HIDE DEF later
<1>3. IsFiniteSet({log[j].key : j \in later})
  BY <1>1, LogSetsFinite
<1>4. Rivals(i) \subseteq {log[j].key : j \in later}
  BY <1>2
<1>5. QED
  BY <1>3, <1>4, FS_Subset, FS_CardinalityType

\* Retry-After reaches to the end of the bucket, and not further than a window's.
LEMMA RetryFacts ==
  ASSUME now \in Nat, WindowMs \in Nat, TicksPerSecond \in Nat \ {0}, NEW key,
         Counting(key).resetAt \in Nat,
         now < Counting(key).resetAt, Counting(key).resetAt <= now + WindowMs
  PROVE  /\ RetryAfter(key) \in Nat /\ RetryAfter(key) <= Ceil(WindowMs, TicksPerSecond)
         /\ Counting(key).resetAt <= now + RetryAfter(key) * TicksPerSecond
<1> DEFINE left == Counting(key).resetAt - now
<1>1. left \in Nat \ {0} /\ left <= WindowMs
  OBVIOUS
<1> HIDE DEF left
<1>2. /\ Ceil(left, TicksPerSecond) \in Nat \ {0} /\ left <= Ceil(left, TicksPerSecond) * TicksPerSecond
      /\ Ceil(left, TicksPerSecond) <= Ceil(WindowMs, TicksPerSecond)
  BY <1>1, CeilFacts
<1>3. RetryAfter(key) = Ceil(left, TicksPerSecond)
  BY <1>2 DEF RetryAfter, AtLeastOne, left
<1>4. Counting(key).resetAt = now + left
  BY DEF left
<1>5. now + left <= now + RetryAfter(key) * TicksPerSecond
  BY <1>1, <1>2, <1>3
<1>6. QED
  BY <1>2, <1>3, <1>4, <1>5

\* Every bucket that still counts was opened less than a window ago.
LEMMA UnexpiredFacts ==
  ASSUME LimiterInv
  PROVE  /\ IsFiniteSet(Unexpired) /\ Cardinality(Unexpired) \in Nat
         /\ \A k \in Unexpired : /\ k \in DOMAIN buckets /\ buckets[k].resetAt > now
                                 /\ \E i \in DOMAIN log : /\ log[i].key = k
                                                          /\ log[i].at = buckets[k].resetAt - WindowMs
                                                          /\ log[i].at \in (now - WindowMs + 1)..now
<1>1. now \in Nat /\ WindowMs \in Nat /\ LogTypeOK
  BY ApiAssumption DEF LimiterInv, LogTypeOK
<1>2. ASSUME NEW k \in Unexpired
      PROVE  /\ k \in DOMAIN buckets /\ buckets[k].resetAt > now
             /\ \E i \in DOMAIN log : /\ log[i].key = k
                                      /\ log[i].at = buckets[k].resetAt - WindowMs
                                      /\ log[i].at \in (now - WindowMs + 1)..now
  <2>1. k \in DOMAIN buckets /\ buckets[k].resetAt > now
    BY DEF Unexpired
  <2>2. buckets[k].resetAt \in Nat
    BY <2>1 DEF LimiterInv, BucketsOpened
  <2>3. PICK i \in DOMAIN log : log[i].key = k /\ log[i].at = buckets[k].resetAt - WindowMs
    BY <2>1 DEF LimiterInv, BucketsOpened
  <2>4. log[i].at <= now
    BY <1>1 DEF LogTypeOK
  <2>5. log[i].at \in (now - WindowMs + 1)..now
    BY <1>1, <2>1, <2>2, <2>3, <2>4
  <2>6. QED
    BY <2>1, <2>3, <2>5
<1>3. Unexpired \subseteq {log[j].key : j \in DOMAIN log}
  BY <1>2
<1>4. IsFiniteSet({log[j].key : j \in DOMAIN log})
  BY <1>1, LogSetsFinite
<1>5. QED
  BY <1>2, <1>3, <1>4, FS_Subset, FS_CardinalityType

\* Places tell the order of insertion: the last is the greatest, and the oldest bucket is
\* one that no other precedes.
LEMMA PlaceFacts ==
  ASSUME LimiterInv
  PROVE  /\ Last \in Nat /\ \A k \in Unexpired : buckets[k].place \in Nat /\ buckets[k].place <= Last
         /\ Unexpired # {} => /\ Oldest \in Unexpired
                              /\ \A k \in Unexpired : buckets[Oldest].place <= buckets[k].place
<1> DEFINE places == {buckets[k].place : k \in Unexpired}
           f == [k \in Unexpired |-> buckets[k].place]
<1>1. \A k \in Unexpired : buckets[k].place \in Nat
  BY UnexpiredFacts DEF LimiterInv, BucketsOpened
<1>2. IsFiniteSet(places) /\ places \subseteq Int
  <2>1. f \in Surjection(Unexpired, places)
    BY DEF Surjection
  <2>2. places \subseteq Int
    BY <1>1
  <2> HIDE DEF places, f
  <2>3. IsFiniteSet(places)
    BY <2>1, UnexpiredFacts, FS_Surjection
  <2>4. QED
    BY <2>2, <2>3
<1>3. Last \in Nat /\ \A k \in Unexpired : buckets[k].place <= Last
  <2> DEFINE all == places \cup {0}
  <2>1. IsFiniteSet(all) /\ all \subseteq Int /\ all # {}
    <3> HIDE DEF places
    <3>1. QED
      BY <1>2, FS_AddElement
  <2>2. all \subseteq Nat
    BY <1>1
  <2>3. Last = Max(all)
    BY DEF Last
  <2>4. \A k \in Unexpired : buckets[k].place \in all
    OBVIOUS
  <2> HIDE DEF all
  <2>5. \E x \in all : \A y \in all : x >= y
    BY <2>1, Extremes
  <2>6. Max(all) \in all /\ \A y \in all : Max(all) >= y
    BY <2>5 DEF Max
  <2>7. QED
    BY <1>1, <2>2, <2>3, <2>4, <2>6
<1>4. ASSUME Unexpired # {}
      PROVE  Oldest \in Unexpired /\ \A k \in Unexpired : buckets[Oldest].place <= buckets[k].place
  <2>1. places # {}
    BY <1>4
  <2>2. \E x \in places : \A y \in places : x <= y
    <3> HIDE DEF places
    <3>1. QED
      BY <1>2, <2>1, Extremes
  <2>3. \E k \in Unexpired : \A other \in Unexpired : buckets[k].place <= buckets[other].place
    BY <2>2
  <2>4. QED
    BY <2>3 DEF Oldest
<1>5. QED
  BY <1>1, <1>3, <1>4

\* What consume() counts in: a bucket that ends after now, and not after a whole window.
LEMMA CountingFacts ==
  ASSUME LimiterInv, NEW key \in LimiterKeys
  PROVE  /\ Counting(key) = [count |-> Counting(key).count, resetAt |-> Counting(key).resetAt,
                             place |-> Counting(key).place]
         /\ Counting(key).count \in Nat /\ Counting(key).resetAt \in Nat
         /\ now < Counting(key).resetAt /\ Counting(key).resetAt <= now + WindowMs
         /\ RetryAfter(key) \in Nat /\ RetryAfter(key) <= Ceil(WindowMs, TicksPerSecond)
         /\ Counting(key).resetAt <= now + RetryAfter(key) * TicksPerSecond
         /\ Counting(key).place \in Nat
         /\ key \notin Unexpired => \A k \in Unexpired : buckets[k].place < Counting(key).place
<1>1. now \in Nat /\ WindowMs \in Nat \ {0} /\ TicksPerSecond \in Nat \ {0}
  BY ApiAssumption DEF LimiterInv, LogTypeOK
<1>2. CASE key \in Unexpired
  <2>1. key \in DOMAIN buckets /\ buckets[key].resetAt > now /\ Counting(key) = buckets[key]
    BY <1>2 DEF Unexpired, Counting
  <2>2. PICK i \in DOMAIN log : log[i].at = buckets[key].resetAt - WindowMs
    BY <2>1 DEF LimiterInv, BucketsOpened
  <2>3. log[i].at <= now
    BY DEF LimiterInv, LogTypeOK
  <2>4. buckets[key].resetAt \in Nat /\ buckets[key].count \in Nat /\ buckets[key].place \in Nat
        /\ buckets[key] = [count |-> buckets[key].count, resetAt |-> buckets[key].resetAt, place |-> buckets[key].place]
    BY <2>1 DEF LimiterInv, BucketsOpened
  <2>5. buckets[key].resetAt <= now + WindowMs
    BY <1>1, <2>2, <2>3, <2>4
  <2>6. QED
    BY <1>2, <2>1, <2>4, <2>5, <1>1, RetryFacts
<1>3. CASE key \notin Unexpired
  <2>1. Counting(key) = [count |-> 0, resetAt |-> now + WindowMs, place |-> Last + 1]
    BY <1>3 DEF Counting
  <2>2. QED
    BY <2>1, <1>1, RetryFacts, PlaceFacts
<1>4. QED
  BY <1>2, <1>3

\* What consume() does to the buckets: the key's own counts the request, the others stay
\* as they are, and none is dropped unless the limiter is full, the key new, and no other
\* bucket older.
LEMMA BucketsAfter ==
  ASSUME LimiterInv, NEW key \in LimiterKeys, Consume(key)
  PROVE  /\ key \in DOMAIN buckets'
         /\ buckets'[key] = [count |-> Count(key), resetAt |-> Counting(key).resetAt,
                             place |-> Counting(key).place]
         /\ \A k \in DOMAIN buckets' : k # key => k \in Unexpired /\ buckets'[k] = buckets[k]
         /\ \A k \in Unexpired :
               \/ k \in DOMAIN buckets'
               \/ /\ key \notin Unexpired /\ Cardinality(Unexpired) >= MaxKeys
                  /\ \A m \in Unexpired : buckets[k].place <= buckets[m].place
<1> DEFINE kept == IF key \in Unexpired THEN Unexpired ELSE WithRoom
<1>1. buckets' = [k \in kept \cup {key} |->
                     IF k = key THEN [Counting(key) EXCEPT !.count = @ + 1] ELSE buckets[k]]
  BY DEF Consume
<1>2. kept \subseteq Unexpired
  BY DEF WithRoom
<1>3. Counting(key) = [count |-> Counting(key).count, resetAt |-> Counting(key).resetAt,
                       place |-> Counting(key).place]
  BY CountingFacts
<1>4. [Counting(key) EXCEPT !.count = @ + 1] = [count |-> Count(key), resetAt |-> Counting(key).resetAt,
                                                place |-> Counting(key).place]
  BY <1>3 DEF Count
<1>5. ASSUME NEW k \in Unexpired, k \notin kept
      PROVE  /\ key \notin Unexpired /\ Cardinality(Unexpired) >= MaxKeys
             /\ \A m \in Unexpired : buckets[k].place <= buckets[m].place
  <2>1. key \notin Unexpired /\ k \notin WithRoom
    BY <1>5
  <2>2. Cardinality(Unexpired) >= MaxKeys /\ k = Oldest
    BY <2>1 DEF WithRoom
  <2>3. QED
    BY <2>1, <2>2, PlaceFacts
<1> HIDE DEF kept
<1>6. key \in DOMAIN buckets' /\ buckets'[key] = [Counting(key) EXCEPT !.count = @ + 1]
  BY <1>1
<1>7. \A k \in DOMAIN buckets' : k # key => k \in Unexpired /\ buckets'[k] = buckets[k]
  BY <1>1, <1>2
<1>8. QED
  BY <1>1, <1>4, <1>5, <1>6, <1>7

Served(i) == {j \in InWindow(i) : log[j].allowed}

\* One request: the limiter counts it and answers.
LEMMA ConsumeStep ==
  ASSUME LimiterInv, NEW key \in LimiterKeys, Limited(key), now' = now
  PROVE  LimiterInv'
<1> DEFINE new == [key |-> key, at |-> now, allowed |-> Allowed(key, Limit(key)), retryAfter |-> RetryAfter(key)]
           Answers == [key : LimiterKeys, at : Nat, allowed : BOOLEAN, retryAfter : Nat]
<1>1. LogTypeOK /\ now \in Nat /\ WindowMs \in Nat \ {0} /\ MaxKeys \in Nat
  BY ApiAssumption DEF LimiterInv, LogTypeOK
<1>0. PICK n \in Nat \ {0} : n = Len(log) + 1
  BY <1>1 DEF LogTypeOK
<1>2. /\ Counting(key) = [count |-> Counting(key).count, resetAt |-> Counting(key).resetAt,
                          place |-> Counting(key).place]
      /\ Counting(key).count \in Nat /\ Counting(key).resetAt \in Nat
      /\ now < Counting(key).resetAt /\ Counting(key).resetAt <= now + WindowMs
      /\ RetryAfter(key) \in Nat /\ RetryAfter(key) <= Ceil(WindowMs, TicksPerSecond)
      /\ Counting(key).resetAt <= now + RetryAfter(key) * TicksPerSecond
      /\ Counting(key).place \in Nat
      /\ key \notin Unexpired => \A k \in Unexpired : buckets[k].place < Counting(key).place
  BY CountingFacts
<1>3. new \in Answers /\ log \in Seq(Answers)
  BY <1>1, <1>2 DEF LogTypeOK, Allowed
<1>4. /\ n \in Nat \ {0} /\ DOMAIN log = 1..(n - 1) /\ Len(log') = n /\ DOMAIN log' = 1..n
      /\ log'[n] = new /\ \A i \in DOMAIN log : log'[i] = log[i] /\ log[i] \in Answers
      /\ log' \in Seq(Answers)
  <2>1. log' = Append(log, new)
    BY DEF Limited
  <2> HIDE DEF new, Answers
  <2>2. QED
    BY <1>3, <1>0, <2>1
<1>5. /\ key \in DOMAIN buckets'
      /\ buckets'[key] = [count |-> Count(key), resetAt |-> Counting(key).resetAt, place |-> Counting(key).place]
      /\ \A k \in DOMAIN buckets' : k # key => k \in Unexpired /\ buckets'[k] = buckets[k]
      /\ \A k \in Unexpired :
            \/ k \in DOMAIN buckets'
            \/ /\ key \notin Unexpired /\ Cardinality(Unexpired) >= MaxKeys
               /\ \A m \in Unexpired : buckets[k].place <= buckets[m].place
  BY BucketsAfter DEF Limited
<1>6. Count(key) \in Nat /\ Count(key) = Counting(key).count + 1
  BY <1>2 DEF Count
<1>7. LogTypeOK'
  <2>1. \A i \in DOMAIN log : log[i].at <= now /\ log[i].at \in Nat
    BY <1>1, <1>4 DEF LogTypeOK
  <2>2. ASSUME NEW i \in DOMAIN log'
        PROVE  log'[i].at <= now
    <3>1. i = n \/ i \in DOMAIN log
      BY <1>4
    <3>2. QED
      BY <1>1, <1>4, <2>1, <3>1
  <2>3. ASSUME NEW i \in DOMAIN log', NEW j \in DOMAIN log', i <= j
        PROVE  log'[i].at <= log'[j].at
    <3>1. CASE j = n
      BY <1>4, <2>2, <3>1
    <3>2. CASE j # n
      <4>1. i \in DOMAIN log /\ j \in DOMAIN log
        BY <1>4, <2>3, <3>2
      <4>2. QED
        BY <1>1, <1>4, <2>3, <4>1 DEF LogTypeOK
    <3>3. QED
      BY <3>1, <3>2
  <2>4. QED
    BY <1>1, <1>4, <2>2, <2>3 DEF LogTypeOK
<1>8. BucketsOpened'
  <2> SUFFICES ASSUME NEW k \in DOMAIN buckets'
               PROVE  /\ buckets'[k] = [count |-> buckets'[k].count, resetAt |-> buckets'[k].resetAt,
                                        place |-> buckets'[k].place]
                      /\ buckets'[k].count \in Nat /\ buckets'[k].resetAt \in Nat
                      /\ buckets'[k].place \in Nat
                      /\ \E i \in DOMAIN log' : log'[i].key = k /\ log'[i].at = buckets'[k].resetAt - WindowMs
    BY DEF BucketsOpened
  <2>1. CASE k = key
    <3>1. \E i \in DOMAIN log' : log'[i].key = k /\ log'[i].at = Counting(key).resetAt - WindowMs
      <4>1. CASE key \in Unexpired
        <5>1. Counting(key) = buckets[key]
          BY <4>1 DEF Counting
        <5>2. PICK i \in DOMAIN log : log[i].key = key /\ log[i].at = buckets[key].resetAt - WindowMs
          BY <4>1, UnexpiredFacts
        <5>3. QED
          BY <1>4, <2>1, <5>1, <5>2
      <4>2. CASE key \notin Unexpired
        <5>1. Counting(key).resetAt = now + WindowMs
          BY <4>2 DEF Counting
        <5>2. log'[n].key = key /\ log'[n].at = Counting(key).resetAt - WindowMs /\ n \in DOMAIN log'
          BY <1>1, <1>4, <5>1
        <5>3. QED
          BY <2>1, <5>2
      <4>3. QED
        BY <4>1, <4>2
    <3>2. QED
      BY <1>2, <1>5, <1>6, <2>1, <3>1
  <2>2. CASE k # key
    <3>1. k \in DOMAIN buckets /\ buckets'[k] = buckets[k]
      BY <1>5, <2>2, UnexpiredFacts
    <3>2. QED
      BY <1>4, <3>1 DEF LimiterInv, BucketsOpened
  <2>3. QED
    BY <2>1, <2>2
<1>9. \A i \in DOMAIN log : log[i].at \in Nat /\ log[i].at <= now
  BY <1>1, <1>4 DEF LogTypeOK
<1>10. ASSUME NEW i \in DOMAIN log
       PROVE  /\ Opens(i)' <=> Opens(i)
              /\ InWindow(i)' = IF log[i].key = key /\ now < log[i].at + WindowMs
                                THEN InWindow(i) \cup {n} ELSE InWindow(i)
              /\ n \notin InWindow(i) /\ InWindow(i) \subseteq DOMAIN log
  <2>1. \A j \in 1..(i - 1) : j \in DOMAIN log
    BY <1>4
  <2>2. Opens(i)' <=> Opens(i)
    BY <1>4, <2>1 DEF Opens
  <2>3. now \in log[i].at..(log[i].at + WindowMs - 1) <=> now < log[i].at + WindowMs
    BY <1>1, <1>9
  <2>4. InWindow(i)' = {j \in 1..n : log'[j].key = log[i].key
                                     /\ log'[j].at \in log[i].at..(log[i].at + WindowMs - 1)}
    BY <1>4 DEF InWindow, Within
  <2>5. InWindow(i) = {j \in 1..(n - 1) : log[j].key = log[i].key
                                     /\ log[j].at \in log[i].at..(log[i].at + WindowMs - 1)}
    BY <1>4 DEF InWindow, Within
  <2>6. 1..n = (1..(n - 1)) \cup {n} /\ n \notin 1..(n - 1)
    BY <1>4
  <2>7. QED
    BY <1>4, <2>2, <2>3, <2>4, <2>5, <2>6, SMTT(60)
<1>11. ASSUME NEW i \in DOMAIN log
       PROVE  /\ Rivals(i) \subseteq Rivals(i)'
              /\ now < log[i].at + WindowMs /\ key # log[i].key => key \in Rivals(i)'
              /\ IsFiniteSet(Rivals(i)') /\ Cardinality(Rivals(i)') \in Nat
              /\ Remembers(i)' => Remembers(i)
  <2>1. i \in DOMAIN log' /\ i < n /\ log'[i] = log[i]
    BY <1>4
  <2>3. Rivals(i)' = {log'[j].key : j \in {m \in (i + 1)..n : log'[m].at < log[i].at + WindowMs}} \ {log[i].key}
    BY <1>4, <2>1 DEF Rivals
  <2>4. Rivals(i) = {log[j].key : j \in {m \in (i + 1)..(n - 1) : log[m].at < log[i].at + WindowMs}} \ {log[i].key}
    BY <1>0, <1>4 DEF Rivals
  <2>5. \A m \in (i + 1)..(n - 1) : m \in (i + 1)..n /\ log'[m] = log[m]
    BY <1>4, <2>1
  <2>6. Rivals(i) \subseteq Rivals(i)' /\ Rivals(i)' \subseteq Rivals(i) \cup {key}
    <3>1. \A m \in (i + 1)..n : m \in (i + 1)..(n - 1) \/ m = n
      BY <1>0, <1>4
    <3>2. log'[n].key = key
      BY <1>4
    <3>3. QED
      BY <2>3, <2>4, <2>5, <3>1, <3>2
  <2>2. IsFiniteSet(Rivals(i)') /\ Cardinality(Rivals(i)') \in Nat
    <3>1. IsFiniteSet(Rivals(i) \cup {key})
      BY <1>1, RivalsFinite, FS_AddElement
    <3>2. QED
      BY <2>6, <3>1, FS_Subset, FS_CardinalityType
  <2>7. ASSUME now < log[i].at + WindowMs, key # log[i].key
        PROVE  key \in Rivals(i)'
    <3>1. n \in (i + 1)..n /\ log'[n].key = key /\ log'[n].at = now
      BY <1>4, <2>1
    <3>2. QED
      BY <2>3, <2>7, <3>1
  <2>8. Cardinality(Rivals(i)) <= Cardinality(Rivals(i)') /\ Cardinality(Rivals(i)) \in Nat
    BY <1>1, <2>2, <2>6, FS_Subset, RivalsFinite
  <2>9. Remembers(i)' => Remembers(i)
    BY <1>1, <2>2, <2>8 DEF Remembers
  <2>10. QED
    BY <2>2, <2>6, <2>7, <2>9
<1>12. ASSUME Opens(n)'
       PROVE  /\ InWindow(n)' = {n} /\ Counting(key).resetAt = now + WindowMs /\ Counting(key).count = 0
              /\ key \notin Unexpired
  <2>1. \A j \in DOMAIN log : log[j].key = key => log[j].at <= now - WindowMs
    BY <1>4, <1>12 DEF Opens
  <2>2. key \notin Unexpired
    <3>1. ASSUME NEW j \in DOMAIN log, log[j].key = key
          PROVE  ~(log[j].at \in (now - WindowMs + 1)..now)
      BY <1>1, <1>9, <2>1, <3>1
    <3>2. QED
      BY <3>1, UnexpiredFacts
  <2>3. ASSUME NEW j \in DOMAIN log, log[j].key = key
        PROVE  ~(log[j].at \in now..(now + WindowMs - 1))
    BY <1>1, <1>9, <2>1, <2>3
  <2>4. now \in now..(now + WindowMs - 1)
    BY <1>1
  <2>5. InWindow(n)' = {j \in 1..n : log'[j].key = key /\ log'[j].at \in now..(now + WindowMs - 1)}
    BY <1>4 DEF InWindow, Within
  <2>6. 1..n = (DOMAIN log) \cup {n}
    BY <1>4
  <2>7. InWindow(n)' = {n}
    BY <1>4, <2>3, <2>4, <2>5, <2>6
  <2>8. QED
    BY <2>2, <2>7 DEF Counting
<1>13. WindowsCounted'
  <2> SUFFICES ASSUME NEW i \in DOMAIN log', Opens(i)', Remembers(i)', now < log'[i].at + WindowMs
               PROVE  /\ log'[i].key \in DOMAIN buckets'
                      /\ buckets'[log'[i].key].resetAt = log'[i].at + WindowMs
                      /\ Cardinality(InWindow(i)') <= buckets'[log'[i].key].count
                      /\ \A m \in DOMAIN buckets' \ {log'[i].key} :
                            buckets'[m].place >= buckets'[log'[i].key].place => m \in Rivals(i)'
    BY DEF WindowsCounted
  <2>1. CASE i = n
    <3>1. Cardinality({n}) = 1
      BY FS_Singleton
    <3>2. log'[i].key = key /\ log'[i].at = now
      BY <1>4, <2>1
    <3>3. ASSUME NEW m \in DOMAIN buckets' \ {key}
          PROVE  ~(buckets'[m].place >= buckets'[key].place)
      <4>1. m \in Unexpired /\ buckets'[m] = buckets[m] /\ key \notin Unexpired
        BY <1>5, <1>12, <2>1
      <4>2. buckets[m].place < Counting(key).place /\ buckets[m].place \in Nat
        BY <1>2, <4>1, PlaceFacts
      <4>3. QED
        BY <1>2, <1>5, <4>1, <4>2
    <3>4. buckets'[key].resetAt = now + WindowMs /\ buckets'[key].count = 1 /\ InWindow(n)' = {n}
      BY <1>5, <1>6, <1>12, <2>1
    <3>5. QED
      BY <1>5, <2>1, <3>1, <3>2, <3>3, <3>4
  <2>2. CASE i # n
    <3>1. i \in DOMAIN log /\ log'[i] = log[i]
      BY <1>4, <2>2
    <3>2. Opens(i) /\ Remembers(i) /\ now < log[i].at + WindowMs
      BY <1>10, <1>11, <3>1
    <3>3. /\ log[i].key \in DOMAIN buckets
          /\ buckets[log[i].key].resetAt = log[i].at + WindowMs
          /\ Cardinality(InWindow(i)) <= buckets[log[i].key].count
          /\ \A m \in DOMAIN buckets \ {log[i].key} :
                buckets[m].place >= buckets[log[i].key].place => m \in Rivals(i)
      BY <3>1, <3>2 DEF LimiterInv, WindowsCounted
    <3>4. log[i].key \in Unexpired
      BY <1>1, <1>9, <3>1, <3>2, <3>3 DEF Unexpired
    <3>5. IsFiniteSet(InWindow(i)) /\ Cardinality(InWindow(i)) \in Nat
      BY <1>1, <1>10, <3>1, LogSetsFinite
    <3>6. log[i].key \in DOMAIN buckets'
      <4> SUFFICES ASSUME log[i].key \notin DOMAIN buckets' PROVE FALSE
        OBVIOUS
      <4>1. /\ key \notin Unexpired /\ Cardinality(Unexpired) >= MaxKeys
            /\ \A m \in Unexpired : buckets[log[i].key].place <= buckets[m].place
        BY <1>5, <3>4
      <4> DEFINE others == Unexpired \ {log[i].key}
      <4>2. IsFiniteSet(Unexpired) /\ Cardinality(Unexpired) \in Nat
        BY UnexpiredFacts
      <4>3. IsFiniteSet(others) /\ Cardinality(others) = Cardinality(Unexpired) - 1
        BY <3>4, <4>2, FS_RemoveElement
      <4>4. key \notin others /\ key # log[i].key
        BY <3>4, <4>1
      <4>5. others \cup {key} \subseteq Rivals(i)'
        <5>1. ASSUME NEW m \in others PROVE m \in Rivals(i)
          <6>1. m \in DOMAIN buckets \ {log[i].key} /\ m \in Unexpired
            BY UnexpiredFacts
          <6>2. buckets[m].place >= buckets[log[i].key].place
            BY <3>4, <4>1, <6>1, PlaceFacts
          <6>3. QED
            BY <3>3, <6>1, <6>2
        <5>2. QED
          BY <1>11, <3>1, <3>2, <4>4, <5>1
      <4> HIDE DEF others
      <4>6. Cardinality(others \cup {key}) = Cardinality(Unexpired)
        <5>1. Cardinality(others \cup {key}) = Cardinality(others) + 1
          BY <4>3, <4>4, FS_AddElement
        <5>2. QED
          BY <4>2, <4>3, <5>1
      <4>7. Cardinality(Unexpired) <= Cardinality(Rivals(i)')
        BY <1>11, <3>1, <4>5, <4>6, FS_Subset
      <4>8. Cardinality(Rivals(i)') < MaxKeys
        BY DEF Remembers
      <4>9. QED
        BY <1>1, <1>11, <3>1, <4>1, <4>2, <4>7, <4>8
    <3>7. buckets'[log[i].key].place = buckets[log[i].key].place
      <4>1. CASE log[i].key = key
        <5>1. Counting(key) = buckets[key]
          BY <3>4, <4>1 DEF Counting
        <5>2. QED
          BY <1>5, <4>1, <5>1
      <4>2. CASE log[i].key # key
        BY <1>5, <3>6, <4>2
      <4>3. QED
        BY <4>1, <4>2
    <3>8. ASSUME NEW m \in DOMAIN buckets' \ {log[i].key}, buckets'[m].place >= buckets'[log[i].key].place
          PROVE  m \in Rivals(i)'
      <4>1. CASE m = key
        BY <1>11, <3>1, <3>2, <4>1
      <4>2. CASE m # key
        <5>1. m \in DOMAIN buckets /\ buckets'[m] = buckets[m]
          BY <1>5, <4>2, UnexpiredFacts
        <5>2. m \in Rivals(i)
          BY <3>3, <3>7, <3>8, <5>1
        <5>3. QED
          BY <1>11, <3>1, <5>2
      <4>3. QED
        BY <4>1, <4>2
    <3>9. CASE log[i].key = key
      <4>1. Counting(key) = buckets[key]
        BY <3>4, <3>9 DEF Counting
      <4>2. InWindow(i)' = InWindow(i) \cup {n} /\ n \notin InWindow(i)
        BY <1>10, <3>1, <3>2, <3>9
      <4>3. Cardinality(InWindow(i)') = Cardinality(InWindow(i)) + 1
        BY <3>5, <4>2, FS_AddElement
      <4>4. buckets'[key].resetAt = log[i].at + WindowMs /\ buckets'[key].count = buckets[key].count + 1
        BY <1>5, <1>6, <3>3, <3>9, <4>1
      <4>5. buckets[key].count \in Nat
        BY <1>2, <4>1
      <4>6. Cardinality(InWindow(i)') <= buckets'[key].count
        BY <3>3, <3>5, <3>9, <4>3, <4>4, <4>5
      <4>7. QED
        BY <3>1, <3>6, <3>8, <3>9, <4>4, <4>6
    <3>10. CASE log[i].key # key
      <4>1. buckets'[log[i].key] = buckets[log[i].key] /\ InWindow(i)' = InWindow(i)
        BY <1>5, <1>10, <3>1, <3>6, <3>10
      <4>2. QED
        BY <3>1, <3>3, <3>6, <3>8, <4>1
    <3>11. QED
      BY <3>9, <3>10
  <2>3. QED
    BY <2>1, <2>2
<1>14. RefusalsEnd'
  <2> SUFFICES ASSUME NEW i \in DOMAIN log', ~log'[i].allowed, log'[i].key \in DOMAIN buckets',
                      \A j \in (i + 1)..Len(log') : log'[j].key # log'[i].key
               PROVE  buckets'[log'[i].key].resetAt <= log'[i].at + log'[i].retryAfter * TicksPerSecond
    BY DEF RefusalsEnd
  <2>1. CASE i = n
    BY <1>2, <1>4, <1>5, <2>1
  <2>2. CASE i # n
    <3>1. i \in DOMAIN log /\ log'[i] = log[i] /\ n \in (i + 1)..Len(log')
      BY <1>4, <2>2
    <3>2. log[i].key # key
      BY <1>4, <3>1
    <3>3. log[i].key \in DOMAIN buckets /\ buckets'[log[i].key] = buckets[log[i].key]
      BY <1>5, <3>1, <3>2, UnexpiredFacts
    <3>4. \A j \in (i + 1)..Len(log) : j \in (i + 1)..Len(log') /\ j \in DOMAIN log
      BY <1>4, <3>1, <1>0
    <3>5. \A j \in (i + 1)..Len(log) : log[j].key # log[i].key
      BY <1>4, <3>1, <3>4
    <3>6. QED
      BY <3>1, <3>3, <3>5 DEF LimiterInv, RefusalsEnd
  <2>3. QED
    BY <2>1, <2>2
<1>15. QuotaHolds'
  <2> SUFFICES ASSUME NEW i \in DOMAIN log', Opens(i)', Remembers(i)'
               PROVE  Cardinality(Served(i)') <= Limit(log'[i].key)
    BY DEF QuotaHolds, Opens, Remembers, Served, InWindow
  <2>1. IsFiniteSet(1..n) /\ InWindow(i)' \subseteq 1..n
    BY <1>4, FS_Interval DEF InWindow, Within
  <2>2. /\ IsFiniteSet(InWindow(i)') /\ Cardinality(InWindow(i)') \in Nat
        /\ Cardinality(Served(i)') \in Nat /\ Cardinality(Served(i)') <= Cardinality(InWindow(i)')
    <3>1. IsFiniteSet(InWindow(i)')
      BY <2>1, FS_Subset
    <3>2. Served(i)' \subseteq InWindow(i)'
      BY DEF Served
    <3>3. QED
      BY <3>1, <3>2, FS_Subset, FS_CardinalityType
  <2>3. Limit(key) \in Nat \ {0}
    BY LimitPositive
  <2>4. CASE log'[i].key = key /\ now < log'[i].at + WindowMs /\ new.allowed
    <3>1. Cardinality(InWindow(i)') <= buckets'[key].count
      BY <1>13, <2>4 DEF WindowsCounted
    <3>2. Count(key) <= Limit(key)
      BY <2>4 DEF Allowed
    <3>3. buckets'[key].count = Count(key)
      BY <1>5
    <3>4. QED
      BY <1>6, <2>2, <2>3, <2>4, <3>1, <3>2, <3>3
  <2>5. CASE i = n /\ ~new.allowed
    <3>1. InWindow(i)' = {n}
      BY <1>12, <2>5
    <3>2. Served(i)' = {} /\ log'[i].key = key
      BY <1>4, <2>5, <3>1 DEF Served
    <3>3. QED
      BY <2>3, <3>2, FS_EmptySet
  <2>6. CASE i # n /\ ~(log'[i].key = key /\ now < log'[i].at + WindowMs /\ new.allowed)
    <3>1. i \in DOMAIN log /\ log'[i] = log[i]
      BY <1>4, <2>6
    <3>2. \A j \in InWindow(i) : j \in DOMAIN log /\ j # n
      BY <1>10, <3>1
    <3>3. Served(i)' = Served(i)
      <4>1. \A j \in InWindow(i) : log'[j] = log[j]
        BY <1>4, <3>2
      <4>2. CASE InWindow(i)' = InWindow(i)
        BY <4>1, <4>2 DEF Served
      <4>3. CASE InWindow(i)' = InWindow(i) \cup {n} /\ ~new.allowed
        BY <1>4, <4>1, <4>3 DEF Served
      <4>4. QED
        BY <1>10, <2>6, <3>1, <4>2, <4>3
    <3>4. Opens(i) /\ Remembers(i)
      BY <1>10, <1>11, <3>1
    <3>5. Cardinality(Served(i)) <= Limit(log[i].key)
      BY <3>1, <3>4 DEF LimiterInv, QuotaHolds, Opens, Remembers, Served, InWindow
    <3>6. QED
      BY <3>1, <3>3, <3>5
  <2>7. log'[n].key = key /\ log'[n].at = now /\ now < now + WindowMs
    BY <1>1, <1>4
  <2>8. QED
    BY <2>4, <2>5, <2>6, <2>7
<1>16. RetryAfterHonest'
  <2>1. \A i \in DOMAIN log' : log'[i].retryAfter <= Ceil(WindowMs, TicksPerSecond)
    BY <1>2, <1>4, SMTT(60) DEF LimiterInv, RetryAfterHonest
  <2>2. ASSUME NEW i \in DOMAIN log', NEW j \in DOMAIN log', ~log'[i].allowed, j > i,
               log'[j].key = log'[i].key,
               \A m \in (i + 1)..(j - 1) : log'[m].key # log'[i].key,
               log'[j].at >= log'[i].at + log'[i].retryAfter * TicksPerSecond
        PROVE  log'[j].allowed
    <3>1. i \in DOMAIN log /\ log'[i] = log[i]
      BY <1>4, <2>2
    <3>2. CASE j # n
      <4>1. j \in DOMAIN log /\ log'[j] = log[j]
        BY <1>4, <3>2
      <4>2. \A m \in (i + 1)..(j - 1) : m \in DOMAIN log
        BY <1>4, <3>1, <4>1
      <4>3. \A m \in (i + 1)..(j - 1) : log[m].key # log[i].key
        BY <1>4, <2>2, <3>1, <4>2
      <4>4. QED
        BY <2>2, <3>1, <4>1, <4>3 DEF LimiterInv, RetryAfterHonest
    <3>3. CASE j = n
      <4>1. log[i].key = key /\ now >= log[i].at + log[i].retryAfter * TicksPerSecond
        BY <1>4, <2>2, <3>1, <3>3
      <4>2. \A m \in (i + 1)..Len(log) : m \in (i + 1)..(j - 1) /\ m \in DOMAIN log
        BY <1>4, <3>1, <3>3, <1>0
      <4>3. \A m \in (i + 1)..Len(log) : log[m].key # log[i].key
        BY <1>4, <2>2, <3>1, <4>2
      <4>4. key \in DOMAIN buckets => buckets[key].resetAt <= log[i].at + log[i].retryAfter * TicksPerSecond
        BY <2>2, <3>1, <4>1, <4>3 DEF LimiterInv, RefusalsEnd
      <4>5. key \notin Unexpired
        <5> DEFINE back == log[i].at + log[i].retryAfter * TicksPerSecond
        <5>1. log[i].retryAfter \in Nat /\ log[i].at \in Nat /\ TicksPerSecond \in Nat
          BY <1>4, <3>1, ApiAssumption
        <5>2. back \in Nat
          BY <5>1
        <5>3. key \in DOMAIN buckets => buckets[key].resetAt \in Nat
          BY DEF LimiterInv, BucketsOpened
        <5> HIDE DEF back
        <5>4. now >= back /\ (key \in DOMAIN buckets => buckets[key].resetAt <= back)
          BY <4>1, <4>4 DEF back
        <5>5. QED
          BY <1>1, <5>2, <5>3, <5>4 DEF Unexpired
      <4>6. Count(key) = 1 /\ Limit(key) \in Nat \ {0}
        BY <4>5, <1>6, LimitPositive DEF Counting
      <4>7. QED
        BY <1>4, <3>3, <4>6 DEF Allowed
    <3>4. QED
      BY <3>2, <3>3
  <2>3. QED
    BY <2>1, <2>2 DEF RetryAfterHonest
<1>17. QED
  BY <1>7, <1>8, <1>13, <1>14, <1>15, <1>16 DEF LimiterInv

LEMMA LimiterStart == ApiInit => LimiterInv
<1> SUFFICES ASSUME ApiInit PROVE LimiterInv
  OBVIOUS
<1>1. now = 0 /\ log = <<>> /\ DOMAIN log = {} /\ DOMAIN buckets = {}
  BY DEF ApiInit, Init, LimiterInit
<1>2. LogTypeOK
  BY <1>1 DEF LogTypeOK
<1>3. QED
  BY <1>1, <1>2 DEF LimiterInv, BucketsOpened, WindowsCounted, RefusalsEnd, QuotaHolds, RetryAfterHonest

\* The clock moves on, or not; nobody calls.
LEMMA LimiterFrame ==
  ASSUME LimiterInv, UNCHANGED <<buckets, log>>, now' \in {now, now + 1}
  PROVE  LimiterInv'
<1>1. now \in Nat /\ \A i \in DOMAIN log : log[i].at \in Nat /\ log[i].at <= now
  <2> DEFINE Answers == [key : LimiterKeys, at : Nat, allowed : BOOLEAN, retryAfter : Nat]
  <2>1. log \in Seq(Answers) /\ now \in Nat /\ \A i \in DOMAIN log : log[i].at <= now
    BY DEF LimiterInv, LogTypeOK
  <2> HIDE DEF Answers
  <2>2. \A i \in DOMAIN log : log[i] \in Answers
    BY <2>1
  <2>3. QED
    BY <2>1, <2>2 DEF Answers
<1>2. WindowMs \in Nat
  BY ApiAssumption
<1>3. LogTypeOK'
  BY <1>1 DEF LimiterInv, LogTypeOK
<1>4. BucketsOpened' /\ RefusalsEnd' /\ QuotaHolds' /\ RetryAfterHonest'
  BY DEF LimiterInv, BucketsOpened, RefusalsEnd, QuotaHolds, RetryAfterHonest, Within, Rivals
<1>5. WindowsCounted'
  <2>1. \A i \in DOMAIN log : now' < log[i].at + WindowMs => now < log[i].at + WindowMs
    BY <1>1, <1>2
  <2>2. \A i : /\ (Opens(i)' <=> Opens(i)) /\ (Remembers(i)' <=> Remembers(i))
               /\ InWindow(i)' = InWindow(i) /\ Rivals(i)' = Rivals(i)
    BY DEF Opens, Remembers, Rivals, InWindow, Within
  <2>3. QED
    BY <2>1, <2>2 DEF LimiterInv, WindowsCounted
<1>6. QED
  BY <1>3, <1>4, <1>5 DEF LimiterInv

\* A request leaves the clock alone, whichever handler it reaches.
LEMMA PostTakesNoTime ==
  ASSUME NEW r \in Requests, Arrive(r) \/ TurnAway(r) \/ Post(r) \/ Process(r) \/ RunEnds(r)
  PROVE  now' = now
BY DEF Arrive, TurnAway, Post, PostWithoutKey, PostCreates, PostExisting, PostConflict, PostOverCapacity,
       Process, CreateSucceeds, CreateFails, Reply, RunEnds

LEMMA LimiterNext ==
  ASSUME LimiterInv, [ApiNext]_api
  PROVE  LimiterInv'
<1>1. ASSUME NEW c \in Clients, PostRefused(c) \/ \E r \in Requests : PostRun(c, r)
      PROVE  LimiterInv'
  <2>1. RunKey(c) \in LimiterKeys
    BY DEF RunKey, LimiterKeys
  <2>2. Limited(RunKey(c)) /\ now' = now
    BY <1>1, PostTakesNoTime DEF PostRefused, PostRun, vars
  <2>3. QED
    BY <2>1, <2>2, ConsumeStep
<1>2. ASSUME NEW c \in Clients, OtherRequest(c)
      PROVE  LimiterInv'
  <2>1. GlobalKey(c) \in LimiterKeys
    BY DEF GlobalKey, LimiterKeys
  <2>2. Limited(GlobalKey(c)) /\ now' = now
    BY <1>2 DEF OtherRequest, vars
  <2>3. QED
    BY <2>1, <2>2, ConsumeStep
<1>3. CASE (Tick \/ \E r \in Requests : TurnAway(r) \/ Post(r) \/ Process(r) \/ RunEnds(r)) /\ UNCHANGED <<buckets, log>>
  <2>1. now' \in {now, now + 1}
    BY <1>3, PostTakesNoTime DEF Tick
  <2>2. QED
    BY <1>3, <2>1, LimiterFrame
<1>4. CASE UNCHANGED api
  BY <1>4, LimiterFrame DEF api, vars
<1>5. QED
  BY <1>1, <1>2, <1>3, <1>4 DEF ApiNext

\* Every bucket was opened by a request, counts all of its window, and outlives no
\* Retry-After, whichever clients call, when, and whichever bucket makes room.
THEOREM LimiterAlwaysOK == ApiSpec => []LimiterInv
<1>1. LimiterInv /\ [ApiNext]_api => LimiterInv'
  BY LimiterNext
<1>2. QED
  BY LimiterStart, <1>1, PTL DEF ApiSpec

\* No client is served more than its quota in the window it opens, whatever buckets make
\* room in it, unless as many other keys as the limiter has buckets come after the client:
\* its bucket is the last to be made, and is dropped only when all others are younger.
THEOREM QuotaAlways == ApiSpec => []QuotaHolds
<1>1. LimiterInv => QuotaHolds
  BY DEF LimiterInv
<1>2. QED
  BY <1>1, LimiterAlwaysOK, PTL

\* A client that waits as long as Retry-After says is served when it comes back, and is
\* never sent away for more than a window.
THEOREM RetryAfterAlways == ApiSpec => []RetryAfterHonest
<1>1. LimiterInv => RetryAfterHonest
  BY DEF LimiterInv
<1>2. QED
  BY <1>1, LimiterAlwaysOK, PTL
=============================================================================
