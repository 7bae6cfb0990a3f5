--------------------------- MODULE Webhooks_proofs ---------------------------
(* Theorems about Webhooks, for any endpoints, deliveries and requests.     *)
EXTENDS Webhooks, TLAPS

-----------------------------------------------------------------------------
(* Types.                                                                   *)

LEMMA StatusSet ==
    ASSUME NEW r \in Log, NEW s \in Statuses
    PROVE  [r EXCEPT !.status = s] \in Log
BY DEF Log

LEMMA AttemptsSet ==
    ASSUME NEW r \in Log, NEW n \in Nat
    PROVE  [r EXCEPT !.attempts = n] \in Log
BY DEF Log

LEMMA RetrySet ==
    ASSUME NEW r \in Log, NEW b \in BOOLEAN
    PROVE  [r EXCEPT !.retry = b] \in Log
BY DEF Log

LEMMA LogFields ==
    ASSUME NEW r \in Log
    PROVE  r.status \in Statuses /\ r.attempts \in Nat /\ r.retry \in BOOLEAN
BY DEF Log

LEMMA ScheduleRetryType ==
    ASSUME NEW r \in Log
    PROVE  ScheduleRetry(r) \in Log
<1>1. "failed" \in Statuses /\ "pending" \in Statuses
  BY DEF Statuses
<1>2. [r EXCEPT !.status = "failed", !.retry = FALSE] \in Log
  BY <1>1, StatusSet, RetrySet
<1>3. [r EXCEPT !.status = "pending", !.retry = TRUE] \in Log
  BY <1>1, StatusSet, RetrySet
<1> QED
  BY <1>2, <1>3 DEF ScheduleRetry

LEMMA DeliveredType ==
    ASSUME NEW r \in Log, NEW ok \in BOOLEAN
    PROVE  Delivered(r, ok) \in Log
<1> DEFINE counted == [r EXCEPT !.attempts = @ + 1]
<1>1. counted \in Log
  BY LogFields, AttemptsSet
<1>2. "success" \in Statuses
  BY DEF Statuses
<1> HIDE DEF counted
<1>3. [counted EXCEPT !.status = "success", !.retry = FALSE] \in Log
  BY <1>1, <1>2, StatusSet, RetrySet
<1> QED
  BY <1>1, <1>3, ScheduleRetryType DEF Delivered, counted

LEMMA UpdatedType ==
    ASSUME NEW r \in Log, NEW found \in Log, NEW mine \in Log
    PROVE  Updated(r, found, mine) \in Log
BY DEF Updated, Log

LEMMA RowSet ==
    ASSUME NEW x \in Row
    PROVE  /\ \A life \in {"unused", "draft", "saved", "lost", "deleted"} :
                 [x EXCEPT !.life = life] \in Row
           /\ \A e \in Endpoints : [x EXCEPT !.endpoint = e] \in Row
           /\ \A log \in Log : [x EXCEPT !.log = log] \in Row
<1>1. \A life \in {"unused", "draft", "saved", "lost", "deleted"} :
         [x EXCEPT !.life = life] \in Row
  BY DEF Row
<1>2. \A e \in Endpoints : [x EXCEPT !.endpoint = e] \in Row
  BY DEF Row
<1>3. \A log \in Log : [x EXCEPT !.log = log] \in Row
  BY DEF Row
<1> QED
  BY <1>1, <1>2, <1>3

LEMMA JobSet ==
    ASSUME NEW x \in Job
    PROVE  /\ \A at \in {"idle", "choosing", "posting"} : [x EXCEPT !.at = at] \in Job
           /\ \A S \in SUBSET Endpoints : [x EXCEPT !.todo = S] \in Job
           /\ \A S \in SUBSET Deliveries : [x EXCEPT !.made = S] \in Job
<1>1. \A at \in {"idle", "choosing", "posting"} : [x EXCEPT !.at = at] \in Job
  BY DEF Job
<1>2. \A S \in SUBSET Endpoints : [x EXCEPT !.todo = S] \in Job
  BY DEF Job
<1>3. \A S \in SUBSET Deliveries : [x EXCEPT !.made = S] \in Job
  BY DEF Job
<1> QED
  BY <1>1, <1>2, <1>3

LEMMA ReplaySet ==
    ASSUME NEW x \in Replay
    PROVE  /\ \A at \in {"idle", "posting", "committing"} : [x EXCEPT !.at = at] \in Replay
           /\ \A log \in Log : [x EXCEPT !.found = log] \in Replay
           /\ \A log \in Log : [x EXCEPT !.mine = log] \in Replay
<1>1. \A at \in {"idle", "posting", "committing"} : [x EXCEPT !.at = at] \in Replay
  BY DEF Replay
<1>2. \A log \in Log : [x EXCEPT !.found = log] \in Replay
  BY DEF Replay
<1>3. \A log \in Log : [x EXCEPT !.mine = log] \in Replay
  BY DEF Replay
<1> QED
  BY <1>1, <1>2, <1>3

\* Every variable keeps its type.
THEOREM TypeCorrect == Spec => []TypeOK
<1>0. NoAttempt \in Log
  BY DEF NoAttempt, Log, Statuses
<1>1. Init => TypeOK
  <2> SUFFICES ASSUME Init PROVE TypeOK
    OBVIOUS
  <2>1. PICK e \in Endpoints, d \in Deliveries :
          /\ row = [x \in Deliveries |->
                       [life |-> "unused", endpoint |-> e, log |-> NoAttempt]]
          /\ job = [j \in Dispatches |->
                       [at |-> "idle", todo |-> {}, made |-> {}, current |-> d]]
          /\ replay = [k \in Replays |->
                          [at |-> "idle", delivery |-> d,
                           found |-> NoAttempt, mine |-> NoAttempt]]
    BY DEF Init
  <2>2. row \in [Deliveries -> Row]
    BY <1>0, <2>1 DEF Row
  <2>3. job \in [Dispatches -> Job]
    BY <2>1 DEF Job
  <2>4. replay \in [Replays -> Replay]
    BY <1>0, <2>1 DEF Replay
  <2> QED
    BY <2>2, <2>3, <2>4 DEF Init, TypeOK, NoDeletion
<1>2. TypeOK /\ [Next]_vars => TypeOK'
  <2> SUFFICES ASSUME TypeOK, [Next]_vars PROVE TypeOK'
    OBVIOUS
  <2>1. ASSUME NEW j \in Dispatches, NEW S \in SUBSET Endpoints, DispatchEvent(j, S)
        PROVE  TypeOK'
    <3>1. S \in SUBSET Endpoints /\ job \in [Dispatches -> Job]
      BY DEF TypeOK
    <3>2. [job[j] EXCEPT !.at = "choosing", !.todo = S] \in Job
      BY <3>1, JobSet
    <3>3. job' = [job EXCEPT ![j] = [job[j] EXCEPT !.at = "choosing", !.todo = S]]
      BY <2>1, <3>1 DEF DispatchEvent
    <3>4. job' \in [Dispatches -> Job]
      BY <3>1, <3>2, <3>3
    <3> QED
      BY <2>1, <3>4 DEF DispatchEvent, TypeOK
  <2>2. ASSUME NEW j \in Dispatches, NEW life \in {"lost", "saved"}, Ended(j, life),
               crashed' \in BOOLEAN
        PROVE  TypeOK'
    <3>1. job' \in [Dispatches -> Job]
      <4> DEFINE x == [job[j] EXCEPT !.at = "idle", !.todo = {}, !.made = {}]
      <4>1. job \in [Dispatches -> Job]
        BY DEF TypeOK
      <4>2. x \in Job
        BY <4>1, JobSet
      <4>3. job' = [job EXCEPT ![j] = x]
        BY <2>2 DEF Ended
      <4> HIDE DEF x
      <4> QED
        BY <4>1, <4>2, <4>3
    <3>2. row' \in [Deliveries -> Row]
      BY <2>2, RowSet DEF Ended, TypeOK
    <3> QED
      BY <2>2, <3>1, <3>2 DEF Ended, TypeOK
  <2>3. ASSUME NEW j \in Dispatches, NEW e \in Endpoints, NEW d \in Deliveries, Insert(j, e, d)
        PROVE  TypeOK'
    <3>1. CASE e \in Registered
      <4>1. row' \in [Deliveries -> Row]
        <5> DEFINE x == [row[d] EXCEPT !.life = "draft", !.endpoint = e]
        <5>1. row \in [Deliveries -> Row]
          BY DEF TypeOK
        <5>2. x \in Row
          BY <5>1, RowSet
        <5>3. row' = [row EXCEPT ![d] = x]
          BY <2>3, <3>1 DEF Insert
        <5> HIDE DEF x
        <5> QED
          BY <5>1, <5>2, <5>3
      <4>2. job' \in [Dispatches -> Job]
        BY <2>3, <3>1 DEF Insert, TypeOK, Job
      <4> QED
        BY <2>3, <3>1, <4>1, <4>2 DEF Insert, TypeOK
    <3>2. CASE e \notin Registered
      BY <2>2, <2>3, <3>2 DEF Insert, TypeOK
    <3> QED
      BY <3>1, <3>2
  <2>4. ASSUME NEW j \in Dispatches, NEW ok \in BOOLEAN, Post(j, ok) PROVE TypeOK'
    <3> DEFINE d == job[j].current
    <3>1. d \in Deliveries /\ row[d].log \in Log
      BY DEF TypeOK, Job, Row
    <3>2. Delivered(row[d].log, ok) \in Log
      BY <3>1, DeliveredType
    <3>3. row' = [row EXCEPT ![d].log = Delivered(row[d].log, ok)]
      BY <2>4 DEF Post
    <3>4. job' \in [Dispatches -> Job]
      <4>1. job' = [job EXCEPT ![j] = [job[j] EXCEPT !.at = "choosing"]]
        BY <2>4 DEF Post
      <4>2. [job[j] EXCEPT !.at = "choosing"] \in Job
        BY JobSet DEF TypeOK
      <4> QED
        BY <4>1, <4>2 DEF TypeOK
    <3>5. posts' \in [Deliveries -> Nat] /\ received' \subseteq Deliveries
      BY <2>4, <3>1 DEF Post, Sent, TypeOK
    <3> HIDE DEF d
    <3>6. row' \in [Deliveries -> Row]
      BY <3>1, <3>2, <3>3 DEF TypeOK, Row
    <3> QED
      BY <2>4, <3>4, <3>5, <3>6 DEF Post, TypeOK
  <2>5. ASSUME NEW j \in Dispatches, CommitDispatch(j) \/ CrashDispatch(j) PROVE TypeOK'
    BY <2>2, <2>5 DEF CommitDispatch, CrashDispatch, TypeOK
  <2>6. ASSUME NEW k \in Replays, NEW d \in Deliveries, ReplayDelivery(k, d) PROVE TypeOK'
    <3> DEFINE mine == [row[d].log EXCEPT !.status = "pending", !.retry = FALSE]
    <3>1. row[d].log \in Log
      BY DEF TypeOK, Row
    <3>2. mine \in Log
      BY <3>1, StatusSet, RetrySet DEF Statuses
    <3>3. replay' = [replay EXCEPT ![k] = [at |-> "posting", delivery |-> d,
                                           found |-> row[d].log, mine |-> mine]]
      BY <2>6 DEF ReplayDelivery
    <3> HIDE DEF mine
    <3>4. replay' \in [Replays -> Replay]
      BY <3>1, <3>2, <3>3 DEF TypeOK, Replay
    <3> QED
      BY <2>6, <3>4 DEF ReplayDelivery, TypeOK
  <2>7. ASSUME NEW k \in Replays, NEW ok \in BOOLEAN, PostAgain(k, ok) PROVE TypeOK'
    <3>1. replay[k].delivery \in Deliveries /\ replay[k].mine \in Log
      BY DEF TypeOK, Replay
    <3>2. Delivered(replay[k].mine, ok) \in Log
      BY <3>1, DeliveredType
    <3>3. replay' \in [Replays -> Replay]
      <4> DEFINE x == [replay[k] EXCEPT !.at = "committing",
                                        !.mine = Delivered(replay[k].mine, ok)]
      <4>1. replay \in [Replays -> Replay]
        BY DEF TypeOK
      <4>2. x \in Replay
        BY <3>2, <4>1, ReplaySet
      <4>3. replay' = [replay EXCEPT ![k] = x]
        BY <2>7 DEF PostAgain
      <4> HIDE DEF x
      <4> QED
        BY <4>1, <4>2, <4>3
    <3>4. posts' \in [Deliveries -> Nat] /\ received' \subseteq Deliveries
      BY <2>7, <3>1 DEF PostAgain, Sent, TypeOK
    <3> QED
      BY <2>7, <3>3, <3>4 DEF PostAgain, TypeOK
  <2>8. ASSUME NEW k \in Replays, ReplayEnds(k) PROVE replay' \in [Replays -> Replay]
    <3> DEFINE x == [replay[k] EXCEPT !.at = "idle", !.found = NoAttempt, !.mine = NoAttempt]
    <3>1. replay \in [Replays -> Replay]
      BY DEF TypeOK
    <3>2. x \in Replay
      BY <1>0, <3>1, ReplaySet
    <3>3. replay' = [replay EXCEPT ![k] = x]
      BY <2>8 DEF ReplayEnds
    <3> HIDE DEF x
    <3> QED
      BY <3>1, <3>2, <3>3
  <2>9. ASSUME NEW k \in Replays, CommitReplay(k) PROVE TypeOK'
    <3> DEFINE d == replay[k].delivery
               log == Updated(row[d].log, replay[k].found, replay[k].mine)
    <3>1. d \in Deliveries /\ replay[k].found \in Log /\ replay[k].mine \in Log
      BY DEF TypeOK, Replay
    <3>2. row[d].log \in Log
      BY <3>1 DEF TypeOK, Row
    <3>3. log \in Log
      BY <3>1, <3>2, UpdatedType
    <3>4. row' = row \/ row' = [row EXCEPT ![d].log = log]
      BY <2>9 DEF CommitReplay
    <3> HIDE DEF d, log
    <3>5. row' \in [Deliveries -> Row]
      BY <3>1, <3>3, <3>4 DEF TypeOK, Row
    <3> QED
      BY <2>8, <2>9, <3>5 DEF CommitReplay, TypeOK
  <2>10. ASSUME NEW k \in Replays, CrashReplay(k) PROVE TypeOK'
    BY <2>8, <2>10 DEF CrashReplay, TypeOK
  <2>11. ASSUME NEW e \in Endpoints,
                RegisterEndpoint(e) \/ FindEndpoint(e) \/ DeleteEndpoint(e)
         PROVE  TypeOK'
    <3>1. row' \in [Deliveries -> Row]
      <4>1. CASE row' = row
        BY <4>1 DEF TypeOK
      <4>2. CASE row' = [d \in Deliveries |-> IF d \in RowsOf(e, "saved")
                           THEN [row[d] EXCEPT !.life = "deleted"] ELSE row[d]]
        BY <4>2, RowSet DEF TypeOK
      <4> QED
        BY <2>11, <4>1, <4>2 DEF RegisterEndpoint, FindEndpoint, DeleteEndpoint
    <3>2. endpoint' \in [Endpoints -> {"unknown", "registered", "deleted"}]
      BY <2>11 DEF RegisterEndpoint, FindEndpoint, DeleteEndpoint, TypeOK
    <3>3. deletion' \in [Endpoints -> [at : {"idle", "found"}, rows : SUBSET Deliveries]]
      BY <2>11 DEF RegisterEndpoint, FindEndpoint, DeleteEndpoint, TypeOK, NoDeletion, RowsOf
    <3> QED
      BY <2>11, <3>1, <3>2, <3>3 DEF RegisterEndpoint, FindEndpoint, DeleteEndpoint, TypeOK
  <2>12. CASE UNCHANGED vars
    BY <2>12 DEF vars, TypeOK
  <2> QED
    BY <2>1, <2>3, <2>4, <2>5, <2>6, <2>7, <2>9, <2>10, <2>11, <2>12
    DEF Next, RequestReplay, Saved, PostEndpoint, RequestDeletion
<1> QED
  BY <1>1, <1>2, PTL DEF Spec

-----------------------------------------------------------------------------
(* The log never claims more than what happened.                            *)

\* What a log may say of a delivery that was POSTed so many times.
Honest(log, sent, answered) ==
    /\ log.attempts <= sent
    /\ log.status = "failed" => sent >= MaxAttempts
    /\ log.status = "success" => answered

HonestLog(log, d) == Honest(log, posts[d], d \in received)
HonestAfter(log, d) == Honest(log, posts'[d], d \in received')

\* It holds of every row, committed or not, and of both copies that a replay
\* has of one, since any of them may be written next.
HonestInv ==
    /\ \A d \in Deliveries : HonestLog(row[d].log, d)
    /\ \A k \in Replays : /\ HonestLog(replay[k].found, replay[k].delivery)
                          /\ HonestLog(replay[k].mine, replay[k].delivery)

LEMMA NoAttemptIsHonest ==
    ASSUME NEW sent \in Nat, NEW answered
    PROVE  NoAttempt \in Log /\ Honest(NoAttempt, sent, answered)
BY DEF Honest, NoAttempt, Log, Statuses

\* More POSTs and more answers do no harm.
LEMMA HonestyLasts ==
    ASSUME NEW log \in Log, NEW sent \in Nat, NEW answered, Honest(log, sent, answered),
           NEW later \in Nat, sent <= later, NEW known, answered => known
    PROVE  Honest(log, later, known)
BY ConstantsAssumption DEF Honest, Log

\* An UPDATE mixes the columns of two honest logs.
LEMMA UpdatedIsHonest ==
    ASSUME NEW log \in Log, NEW found \in Log, NEW mine \in Log,
           NEW sent \in Nat, NEW answered,
           Honest(log, sent, answered), Honest(mine, sent, answered)
    PROVE  Honest(Updated(log, found, mine), sent, answered)
BY DEF Honest, Updated, Log, Statuses

\* A POST for one delivery does no harm to any log, and the log of that
\* delivery may count it.
LEMMA SentKeepsHonest ==
    ASSUME TypeOK, NEW x \in Deliveries, NEW ok \in BOOLEAN, Sent(x, ok),
           NEW log \in Log, NEW d \in Deliveries, HonestLog(log, d)
    PROVE  /\ HonestAfter(log, d)
           /\ HonestAfter(Delivered(log, ok), d) \/ d # x
<1>1. posts[d] \in Nat /\ posts'[d] = (IF d = x THEN posts[d] + 1 ELSE posts[d])
  BY DEF TypeOK, Sent
<1>2. (d \in received') <=> (d \in received \/ (d = x /\ ok))
  BY DEF Sent
<1>3. Honest(log, posts'[d], d \in received')
  BY <1>1, <1>2, HonestyLasts DEF HonestLog
<1>4. CASE d = x
  <2>1. Honest(Delivered(log, ok), posts[d] + 1, ok \/ d \in received)
    BY <1>1, ConstantsAssumption
    DEF HonestLog, Honest, Delivered, ScheduleRetry, Log, Statuses
  <2> QED
    BY <1>1, <1>2, <1>3, <1>4, <2>1 DEF Honest, HonestAfter
<1> QED
  BY <1>3, <1>4 DEF HonestAfter

\* Whatever dispatches, replays and deletions race, and whoever dies: a
\* delivery logged as given up was POSTed MaxAttempts times, one logged as
\* delivered was answered with a 2xx (_deliver, _schedule_retry,
\* replay_delivery).
THEOREM LogIsHonestHolds == Spec => []LogIsHonest
<1>1. Init => HonestInv
  <2> SUFFICES ASSUME Init PROVE HonestInv
    OBVIOUS
  <2>1. /\ \A d \in Deliveries : row[d].log = NoAttempt /\ posts[d] = 0
        /\ \A k \in Replays : /\ replay[k].found = NoAttempt /\ replay[k].mine = NoAttempt
                              /\ replay[k].delivery \in Deliveries
    BY DEF Init
  <2> QED
    BY <2>1, NoAttemptIsHonest DEF HonestInv, HonestLog
<1>2. TypeOK /\ HonestInv /\ [Next]_vars => HonestInv'
  <2> SUFFICES ASSUME TypeOK, HonestInv, [Next]_vars PROVE HonestInv'
    OBVIOUS
  <2>0. /\ \A d \in Deliveries : row[d].log \in Log /\ HonestLog(row[d].log, d)
        /\ \A k \in Replays :
              /\ replay[k].delivery \in Deliveries
              /\ replay[k].found \in Log /\ HonestLog(replay[k].found, replay[k].delivery)
              /\ replay[k].mine \in Log /\ HonestLog(replay[k].mine, replay[k].delivery)
        /\ posts \in [Deliveries -> Nat]
    BY DEF TypeOK, Row, Replay, HonestInv
  <2>1. ASSUME \A d \in Deliveries : row'[d].log = row[d].log,
               UNCHANGED <<replay, posts, received>>
        PROVE  HonestInv'
    BY <2>0, <2>1 DEF HonestInv, HonestLog
  <2>2. ASSUME NEW j \in Dispatches, NEW S \in SUBSET Endpoints, DispatchEvent(j, S)
        PROVE  HonestInv'
    BY <2>1, <2>2 DEF DispatchEvent
  <2>3. ASSUME NEW j \in Dispatches, NEW life, Ended(j, life) PROVE HonestInv'
    <3>1. \A d \in Deliveries : row'[d].log = row[d].log
      BY <2>3 DEF Ended, TypeOK, Row
    <3> QED
      BY <2>1, <2>3, <3>1 DEF Ended
  <2>4. ASSUME NEW j \in Dispatches, NEW e \in Endpoints, NEW d \in Deliveries, Insert(j, e, d)
        PROVE  HonestInv'
    <3>1. CASE e \in Registered
      <4>1. row' = [row EXCEPT ![d] = [@ EXCEPT !.life = "draft", !.endpoint = e]]
        BY <2>4, <3>1 DEF Insert
      <4>2. UNCHANGED <<replay, posts, received>>
        BY <2>4, <3>1 DEF Insert
      <4>3. \A x \in Deliveries : row'[x].log = row[x].log
        BY <4>1 DEF TypeOK, Row
      <4> QED
        BY <2>1, <4>2, <4>3
    <3>2. CASE e \notin Registered
      BY <2>3, <2>4, <3>2 DEF Insert
    <3> QED
      BY <3>1, <3>2
  <2>5. ASSUME NEW j \in Dispatches, NEW ok \in BOOLEAN, Post(j, ok) PROVE HonestInv'
    <3> DEFINE x == job[j].current
    <3>1. x \in Deliveries /\ Sent(x, ok) /\ replay' = replay
      BY <2>5 DEF Post, TypeOK, Job
    <3>2. \A d \in Deliveries :
             row'[d].log = IF d = x THEN Delivered(row[d].log, ok) ELSE row[d].log
      BY <2>5, <3>1 DEF Post, TypeOK, Row
    <3> HIDE DEF x
    <3>3. ASSUME NEW d \in Deliveries PROVE HonestAfter(row'[d].log, d)
      <4>1. /\ HonestAfter(row[d].log, d)
            /\ HonestAfter(Delivered(row[d].log, ok), d) \/ d # x
        BY <2>0, <3>1, SentKeepsHonest
      <4> QED
        BY <3>2, <4>1
    <3>4. ASSUME NEW k \in Replays
          PROVE  /\ HonestAfter(replay[k].found, replay[k].delivery)
                 /\ HonestAfter(replay[k].mine, replay[k].delivery)
      BY <2>0, <3>1, SentKeepsHonest
    <3> QED
      BY <3>1, <3>3, <3>4 DEF HonestInv, HonestLog, HonestAfter
  <2>6. ASSUME NEW j \in Dispatches, CommitDispatch(j) \/ CrashDispatch(j) PROVE HonestInv'
    BY <2>3, <2>6 DEF CommitDispatch, CrashDispatch
  <2>7. ASSUME NEW k \in Replays, NEW d \in Deliveries, ReplayDelivery(k, d) PROVE HonestInv'
    <3>1. HonestLog([row[d].log EXCEPT !.status = "pending", !.retry = FALSE], d)
      BY <2>0 DEF HonestLog, Honest, Log, Statuses
    <3>2. \A l \in Replays :
             \/ replay'[l] = replay[l]
             \/ /\ replay'[l].delivery = d /\ replay'[l].found = row[d].log
                /\ replay'[l].mine = [row[d].log EXCEPT !.status = "pending", !.retry = FALSE]
      BY <2>7 DEF ReplayDelivery, TypeOK
    <3>3. UNCHANGED <<row, posts, received>>
      BY <2>7 DEF ReplayDelivery
    <3> QED
      BY <2>0, <3>1, <3>2, <3>3 DEF HonestInv, HonestLog
  <2>8. ASSUME NEW k \in Replays, NEW ok \in BOOLEAN, PostAgain(k, ok) PROVE HonestInv'
    <3> DEFINE x == replay[k].delivery
    <3>1. x \in Deliveries /\ Sent(x, ok) /\ row' = row
      BY <2>0, <2>8 DEF PostAgain
    <3>2. \A l \in Replays :
             /\ replay'[l].delivery = replay[l].delivery
             /\ replay'[l].found = replay[l].found
             /\ replay'[l].mine = IF l = k THEN Delivered(replay[l].mine, ok) ELSE replay[l].mine
      BY <2>8 DEF PostAgain, TypeOK
    <3>3. ASSUME NEW d \in Deliveries PROVE HonestAfter(row[d].log, d)
      BY <2>0, <3>1, SentKeepsHonest
    <3>4. ASSUME NEW l \in Replays
          PROVE  /\ HonestAfter(replay'[l].found, replay'[l].delivery)
                 /\ HonestAfter(replay'[l].mine, replay'[l].delivery)
      <4> DEFINE y == replay[l].delivery
                 f == replay[l].found
                 m == replay[l].mine
      <4>1. y \in Deliveries /\ f \in Log /\ m \in Log /\ HonestLog(f, y) /\ HonestLog(m, y)
        BY <2>0
      <4>2. l = k => y = x
        OBVIOUS
      <4> HIDE DEF x, y, f, m
      <4>3. /\ HonestAfter(f, y) /\ HonestAfter(m, y)
            /\ l = k => HonestAfter(Delivered(m, ok), y)
        BY <3>1, <4>1, <4>2, SentKeepsHonest
      <4> QED
        BY <3>2, <4>3 DEF y, f, m
    <3> QED
      BY <3>1, <3>3, <3>4 DEF HonestInv, HonestLog, HonestAfter
  <2>9. ASSUME NEW k \in Replays, ReplayEnds(k), UNCHANGED <<posts, received>>,
               \A d \in Deliveries : HonestLog(row'[d].log, d)
        PROVE  HonestInv'
    <3>1. \A l \in Replays :
             /\ replay'[l].delivery = replay[l].delivery
             /\ \/ replay'[l] = replay[l]
                \/ replay'[l].found = NoAttempt /\ replay'[l].mine = NoAttempt
      BY <2>9 DEF ReplayEnds, TypeOK
    <3>2. \A d \in Deliveries : HonestLog(NoAttempt, d)
      BY <2>0, NoAttemptIsHonest DEF HonestLog
    <3> QED
      BY <2>0, <2>9, <3>1, <3>2 DEF HonestInv, HonestLog
  <2>10. ASSUME NEW k \in Replays, CommitReplay(k) PROVE HonestInv'
    <3> DEFINE x == replay[k].delivery
               log == Updated(row[x].log, replay[k].found, replay[k].mine)
    <3>1. x \in Deliveries /\ posts[x] \in Nat
      BY <2>0
    <3>2. HonestLog(log, x)
      BY <2>0, <3>1, UpdatedIsHonest DEF HonestLog
    <3>3. \A d \in Deliveries : row'[d].log = row[d].log \/ (d = x /\ row'[d].log = log)
      BY <2>10, <3>1 DEF CommitReplay, TypeOK, Row
    <3>4. \A d \in Deliveries : HonestLog(row'[d].log, d)
      BY <2>0, <3>2, <3>3
    <3>5. ReplayEnds(k) /\ UNCHANGED <<posts, received>>
      BY <2>10 DEF CommitReplay
    <3> QED
      BY <2>9, <3>4, <3>5
  <2>11. ASSUME NEW k \in Replays, CrashReplay(k) PROVE HonestInv'
    BY <2>0, <2>9, <2>11 DEF CrashReplay
  <2>12. ASSUME NEW e \in Endpoints, RegisterEndpoint(e) \/ FindEndpoint(e) PROVE HonestInv'
    BY <2>1, <2>12 DEF RegisterEndpoint, FindEndpoint
  <2>13. ASSUME NEW e \in Endpoints, DeleteEndpoint(e) PROVE HonestInv'
    <3>1. \A d \in Deliveries : row'[d].log = row[d].log
      BY <2>13 DEF DeleteEndpoint, TypeOK, Row
    <3> QED
      BY <2>1, <2>13, <3>1 DEF DeleteEndpoint
  <2>14. CASE UNCHANGED vars
    BY <2>1, <2>14 DEF vars
  <2> QED
    BY <2>2, <2>4, <2>5, <2>6, <2>7, <2>8, <2>10, <2>11, <2>12, <2>13, <2>14
    DEF Next, RequestReplay, Saved, PostEndpoint, RequestDeletion
<1>3. HonestInv => LogIsHonest
  BY DEF HonestInv, HonestLog, Honest, LogIsHonest, GivenUpAfterMaxAttempts, SuccessIsReal, Saved
<1> QED
  BY <1>1, <1>2, <1>3, TypeCorrect, PTL DEF Spec

-----------------------------------------------------------------------------
(* The log leaves nothing out, as long as nobody dies.                      *)

\* The rows of a dispatch are drafts of its own; what it still has to do it
\* found registered.
JobsInv ==
    /\ \A j \in Dispatches :
          /\ job[j].at = "posting" => job[j].current \in job[j].made
          /\ \A d \in job[j].made : row[d].life = "draft"
          /\ \A e \in job[j].todo : endpoint[e] # "unknown"
    /\ \A i, j \in Dispatches : \A d \in job[i].made : d \in job[j].made => i = j

\* A draft counts its POSTs; only a missing endpoint rolls rows back.
RowsInv ==
    \A d \in Deliveries :
        /\ row[d].life = "unused" => posts[d] = 0 /\ row[d].log.attempts = 0
        /\ row[d].life = "draft" => row[d].log.attempts = posts[d]
        /\ row[d].life = "lost" => \E e \in Endpoints : endpoint[e] = "deleted"

\* A replay is of a row that was committed, and two of one are remembered.
ReplaysInv ==
    /\ \A k \in Replays : \A d \in Deliveries :
          AtWork(k, d) => row[d].life \in {"saved", "deleted"}
    /\ \A k, l \in Replays : \A d \in Deliveries :
          AtWork(k, d) /\ AtWork(l, d) => k = l \/ d \in contended

\* The count is in the row, or in the hands of the one replay at work on it.
CountInv ==
    \A d \in Saved \ contended :
        /\ (\A k \in Replays : ~AtWork(k, d)) => row[d].log.attempts = posts[d]
        /\ \A k \in Replays : AtWork(k, d) => replay[k].mine.attempts = posts[d]

WorkInv == ~crashed => JobsInv /\ RowsInv /\ ReplaysInv /\ CountInv

LEMMA DeliveredCounts ==
    ASSUME NEW r \in Log, NEW ok \in BOOLEAN
    PROVE  Delivered(r, ok).attempts = r.attempts + 1
BY DEF Delivered, ScheduleRetry, Log

LEMMA UpdatedCounts ==
    ASSUME NEW r \in Log, NEW found \in Log, NEW mine \in Log
    PROVE  Updated(r, found, mine).attempts = mine.attempts
BY DEF Updated, Log

LEMMA WorkTypes ==
    ASSUME TypeOK
    PROVE  /\ \A d \in Deliveries : row[d] \in Row /\ row[d].log \in Log /\ posts[d] \in Nat
           /\ \A j \in Dispatches : /\ job[j] \in Job /\ job[j].current \in Deliveries
                                    /\ job[j].made \subseteq Deliveries
                                    /\ job[j].todo \subseteq Endpoints
           /\ \A k \in Replays : /\ replay[k] \in Replay /\ replay[k].delivery \in Deliveries
                                 /\ replay[k].found \in Log /\ replay[k].mine \in Log
BY DEF TypeOK, Row, Job, Replay

\* The transaction of a dispatch ends, and no one died of it.
LEMMA EndedWorks ==
    ASSUME TypeOK, JobsInv, RowsInv, ReplaysInv, CountInv, NEW j \in Dispatches,
           NEW life \in {"lost", "saved"}, Ended(j, life),
           life = "lost" => \E e \in Endpoints : endpoint[e] = "deleted"
    PROVE  JobsInv' /\ RowsInv' /\ ReplaysInv' /\ CountInv'
<1>1. /\ \A d \in Deliveries :
             /\ row'[d].log = row[d].log
             /\ row'[d].life = IF d \in job[j].made THEN life ELSE row[d].life
      /\ UNCHANGED <<endpoint, replay, deletion, posts, received, contended>>
  BY WorkTypes DEF Ended, Row
<1>2. \A i \in Dispatches :
         \/ i # j /\ job'[i] = job[i]
         \/ i = j /\ job'[i].at = "idle" /\ job'[i].todo = {} /\ job'[i].made = {}
  BY WorkTypes DEF Ended, TypeOK, Job
<1>3. JobsInv'
  BY <1>1, <1>2, WorkTypes DEF JobsInv
<1>4. \A d \in job[j].made : d \in Deliveries /\ row[d].life = "draft"
  BY WorkTypes DEF JobsInv
<1>5. RowsInv'
  BY <1>1, <1>4 DEF RowsInv
<1>6. \A k \in Replays : \A d \in Deliveries : AtWork(k, d)' <=> AtWork(k, d)
  BY <1>1 DEF AtWork
<1>7. ReplaysInv'
  BY <1>1, <1>4, <1>6 DEF ReplaysInv
<1>8. CountInv'
  <2> SUFFICES ASSUME NEW d \in Deliveries, d \in Saved', d \notin contended
               PROVE  /\ (\A k \in Replays : ~AtWork(k, d)) => row[d].log.attempts = posts[d]
                      /\ \A k \in Replays : AtWork(k, d) => replay[k].mine.attempts = posts[d]
    BY <1>1, <1>6 DEF CountInv, Saved
  <2>1. CASE d \in job[j].made
    BY <1>4, <2>1 DEF ReplaysInv, RowsInv
  <2>2. CASE d \notin job[j].made
    BY <1>1, <2>2 DEF CountInv, Saved
  <2> QED
    BY <2>1, <2>2
<1> QED
  BY <1>3, <1>5, <1>7, <1>8

LEMMA WorkStep ==
    ASSUME TypeOK, WorkInv, [Next]_vars
    PROVE  WorkInv'
<1> SUFFICES ASSUME ~crashed' PROVE JobsInv' /\ RowsInv' /\ ReplaysInv' /\ CountInv'
  BY DEF WorkInv
<1>1. ASSUME NEW j \in Dispatches, NEW S \in SUBSET Endpoints, DispatchEvent(j, S), ~crashed
      PROVE  JobsInv' /\ RowsInv' /\ ReplaysInv' /\ CountInv'
  <2>0. JobsInv /\ RowsInv /\ ReplaysInv /\ CountInv
    BY <1>1 DEF WorkInv
  <2>1. UNCHANGED <<endpoint, row, replay, posts, contended>>
    BY <1>1 DEF DispatchEvent
  <2>2. \A i \in Dispatches :
           \/ job'[i] = job[i]
           \/ job'[i].at = "choosing" /\ job'[i].todo = S /\ job'[i].made = job[i].made
    BY <1>1, WorkTypes DEF DispatchEvent, TypeOK, Job
  <2>3. \A e \in S : endpoint[e] # "unknown"
    BY <1>1 DEF DispatchEvent, Registered
  <2>4. \A i \in Dispatches : job'[i].made = job[i].made
    BY <2>2
  <2>5. JobsInv'
    BY <2>0, <2>1, <2>2, <2>3, <2>4 DEF JobsInv
  <2>6. \A k \in Replays : \A d \in Deliveries : AtWork(k, d)' <=> AtWork(k, d)
    BY <2>1 DEF AtWork
  <2> QED
    BY <2>0, <2>1, <2>5, <2>6 DEF RowsInv, ReplaysInv, CountInv, Saved
<1>2. ASSUME NEW j \in Dispatches, NEW e \in Endpoints, NEW d \in Deliveries, Insert(j, e, d),
             ~crashed
      PROVE  JobsInv' /\ RowsInv' /\ ReplaysInv' /\ CountInv'
  <2>0. JobsInv /\ RowsInv /\ ReplaysInv /\ CountInv
    BY <1>2 DEF WorkInv
  <2>1. CASE e \in Registered
    <3>1. /\ row[d].life = "unused" /\ e \in job[j].todo
          /\ UNCHANGED <<endpoint, replay, posts, contended>>
      BY <1>2, <2>1 DEF Insert
    <3>2. /\ \A x \in Deliveries : row'[x].log = row[x].log
          /\ \A x \in Deliveries : x # d => row'[x] = row[x]
          /\ row'[d].life = "draft"
      <4> DEFINE new == [row[d] EXCEPT !.life = "draft", !.endpoint = e]
      <4>1. row' = [row EXCEPT ![d] = new] /\ row \in [Deliveries -> Row]
        BY <1>2, <2>1 DEF Insert, TypeOK
      <4>2. new.log = row[d].log /\ new.life = "draft"
        BY WorkTypes DEF Row
      <4> HIDE DEF new
      <4> QED
        BY <4>1, <4>2
    <3>3. /\ \A i \in Dispatches : i # j => job'[i] = job[i]
          /\ job'[j].made = job[j].made \cup {d} /\ job'[j].current = d
          /\ job'[j].todo \subseteq job[j].todo
      BY <1>2, <2>1, WorkTypes DEF Insert, TypeOK, Job
    <3>4. \A i \in Dispatches : d \notin job[i].made
      BY <2>0, <3>1 DEF JobsInv
    <3>5. JobsInv'
      <4>1. \A i \in Dispatches : \A x \in job'[i].made : row'[x].life = "draft"
        BY <2>0, <3>2, <3>3, WorkTypes DEF JobsInv
      <4>2. \A i \in Dispatches : \A x \in job'[i].todo : endpoint'[x] # "unknown"
        BY <2>0, <3>1, <3>3 DEF JobsInv
      <4>3. \A i \in Dispatches : job'[i].at = "posting" => job'[i].current \in job'[i].made
        BY <2>0, <3>3 DEF JobsInv
      <4>4. \A i, l \in Dispatches : \A x \in job'[i].made : x \in job'[l].made => i = l
        BY <2>0, <3>3, <3>4 DEF JobsInv
      <4> QED
        BY <4>1, <4>2, <4>3, <4>4 DEF JobsInv
    <3>6. RowsInv'
      BY <2>0, <3>1, <3>2 DEF RowsInv
    <3>7. \A k \in Replays : \A x \in Deliveries : AtWork(k, x)' <=> AtWork(k, x)
      BY <3>1 DEF AtWork
    <3>8. ReplaysInv'
      BY <2>0, <3>1, <3>2, <3>7 DEF ReplaysInv
    <3>9. CountInv'
      BY <2>0, <3>1, <3>2, <3>7 DEF CountInv, Saved
    <3> QED
      BY <3>5, <3>6, <3>8, <3>9
  <2>2. CASE e \notin Registered
    <3>1. Ended(j, "lost") /\ e \in job[j].todo
      BY <1>2, <2>2 DEF Insert
    <3>2. endpoint[e] = "deleted"
      BY <2>0, <2>2, <3>1 DEF JobsInv, Registered, TypeOK
    <3> QED
      BY <2>0, <3>1, <3>2, EndedWorks
  <2> QED
    BY <2>1, <2>2
<1>3. ASSUME NEW j \in Dispatches, NEW ok \in BOOLEAN, Post(j, ok), ~crashed
      PROVE  JobsInv' /\ RowsInv' /\ ReplaysInv' /\ CountInv'
  <2>0. JobsInv /\ RowsInv /\ ReplaysInv /\ CountInv
    BY <1>3 DEF WorkInv
  <2>1. PICK d \in Deliveries : d = job[j].current
    BY WorkTypes
  <2>2. row[d].life = "draft"
    BY <1>3, <2>0, <2>1 DEF Post, JobsInv
  <2>3. /\ UNCHANGED <<endpoint, replay, contended>>
        /\ row' = [row EXCEPT ![d].log = Delivered(row[d].log, ok)]
        /\ posts' = [posts EXCEPT ![d] = @ + 1]
    BY <1>3, <2>1 DEF Post, Sent
  <2>4. /\ \A x \in Deliveries : row'[x].life = row[x].life
        /\ \A x \in Deliveries : x # d => row'[x].log = row[x].log /\ posts'[x] = posts[x]
        /\ row'[d].log.attempts = row[d].log.attempts + 1 /\ posts'[d] = posts[d] + 1
    <3>1. row'[d].log = Delivered(row[d].log, ok) /\ row'[d].life = row[d].life
      BY <2>3, WorkTypes DEF TypeOK, Row
    <3>2. \A x \in Deliveries : x # d => row'[x] = row[x]
      BY <2>3 DEF TypeOK
    <3>3. posts'[d] = posts[d] + 1 /\ \A x \in Deliveries : x # d => posts'[x] = posts[x]
      BY <2>3 DEF TypeOK
    <3>4. row'[d].log.attempts = row[d].log.attempts + 1
      BY <3>1, WorkTypes, DeliveredCounts
    <3> QED
      BY <3>1, <3>2, <3>3, <3>4
  <2>5. \A i \in Dispatches : /\ job'[i].made = job[i].made /\ job'[i].todo = job[i].todo
                              /\ job'[i] = job[i] \/ job'[i].at = "choosing"
    BY <1>3, WorkTypes DEF Post, TypeOK, Job
  <2>6. JobsInv'
    <3>1. \A i \in Dispatches : job'[i].at = "posting" => job'[i].current \in job'[i].made
      BY <2>0, <2>5 DEF JobsInv
    <3> QED
      BY <2>0, <2>3, <2>4, <2>5, <3>1, WorkTypes DEF JobsInv
  <2>7. RowsInv'
    BY <2>0, <2>2, <2>3, <2>4 DEF RowsInv
  <2>8. \A k \in Replays : \A x \in Deliveries : AtWork(k, x)' <=> AtWork(k, x)
    BY <2>3 DEF AtWork
  <2>9. ReplaysInv'
    BY <2>0, <2>3, <2>4, <2>8 DEF ReplaysInv
  <2>10. CountInv'
    BY <2>0, <2>2, <2>3, <2>4, <2>8 DEF CountInv, Saved
  <2> QED
    BY <2>6, <2>7, <2>9, <2>10
<1>4. ASSUME NEW j \in Dispatches, CommitDispatch(j), ~crashed
      PROVE  JobsInv' /\ RowsInv' /\ ReplaysInv' /\ CountInv'
  BY <1>4, EndedWorks DEF CommitDispatch, WorkInv
<1>5. ASSUME NEW k \in Replays, NEW d \in Saved, ReplayDelivery(k, d), ~crashed
      PROVE  JobsInv' /\ RowsInv' /\ ReplaysInv' /\ CountInv'
  <2>0. JobsInv /\ RowsInv /\ ReplaysInv /\ CountInv
    BY <1>5 DEF WorkInv
  <2>1. /\ UNCHANGED <<endpoint, row, job, posts>>
        /\ replay[k].at = "idle" /\ contended \subseteq contended'
        /\ (\E l \in Replays : AtWork(l, d)) => d \in contended'
        /\ d \in Deliveries /\ row[d].life = "saved"
    BY <1>5 DEF ReplayDelivery, Saved
  <2>2. /\ \A l \in Replays : l # k => replay'[l] = replay[l]
        /\ replay'[k].at = "posting" /\ replay'[k].delivery = d
        /\ replay'[k].mine.attempts = row[d].log.attempts
    BY <1>5, <2>1, WorkTypes DEF ReplayDelivery, TypeOK, Log
  <2>3. /\ \A l \in Replays : \A x \in Deliveries :
              AtWork(l, x)' <=> AtWork(l, x) \/ (l = k /\ x = d)
        /\ \A x \in Deliveries : ~AtWork(k, x)
    BY <2>1, <2>2 DEF AtWork
  <2>4. JobsInv' /\ RowsInv'
    BY <2>0, <2>1 DEF JobsInv, RowsInv
  <2>5. ReplaysInv'
    <3>1. \A l \in Replays : \A x \in Deliveries :
             AtWork(l, x)' => row'[x].life \in {"saved", "deleted"}
      BY <2>0, <2>1, <2>3 DEF ReplaysInv
    <3>2. \A l, m \in Replays : \A x \in Deliveries :
             AtWork(l, x)' /\ AtWork(m, x)' => l = m \/ x \in contended'
      BY <2>0, <2>1, <2>3 DEF ReplaysInv
    <3> QED
      BY <3>1, <3>2 DEF ReplaysInv
  <2>6. CountInv'
    <3> SUFFICES ASSUME NEW x \in Deliveries, x \in Saved, x \notin contended'
                 PROVE  /\ (\A l \in Replays : ~AtWork(l, x)') => row[x].log.attempts = posts[x]
                        /\ \A l \in Replays : AtWork(l, x)' => replay'[l].mine.attempts = posts[x]
      BY <2>1 DEF CountInv, Saved
    <3>1. x \notin contended
      BY <2>1
    <3>2. (\A l \in Replays : ~AtWork(l, x)') => row[x].log.attempts = posts[x]
      BY <2>0, <2>3, <3>1 DEF CountInv
    <3>3. ASSUME NEW l \in Replays, AtWork(l, x)' PROVE replay'[l].mine.attempts = posts[x]
      <4>1. CASE l = k
        <5>1. x = d
          BY <2>3, <3>3, <4>1
        <5>2. \A m \in Replays : ~AtWork(m, x)
          BY <2>1, <5>1
        <5> QED
          BY <2>0, <2>2, <3>1, <4>1, <5>1, <5>2 DEF CountInv
      <4>2. CASE l # k
        BY <2>0, <2>2, <2>3, <3>1, <3>3, <4>2 DEF CountInv
      <4> QED
        BY <4>1, <4>2
    <3> QED
      BY <3>2, <3>3
  <2> QED
    BY <2>4, <2>5, <2>6
<1>6. ASSUME NEW k \in Replays, NEW ok \in BOOLEAN, PostAgain(k, ok), ~crashed
      PROVE  JobsInv' /\ RowsInv' /\ ReplaysInv' /\ CountInv'
  <2>0. JobsInv /\ RowsInv /\ ReplaysInv /\ CountInv
    BY <1>6 DEF WorkInv
  <2>1. PICK d \in Deliveries : d = replay[k].delivery
    BY WorkTypes
  <2>2. /\ UNCHANGED <<endpoint, row, job, contended>> /\ AtWork(k, d)
        /\ posts' = [posts EXCEPT ![d] = @ + 1]
    BY <1>6, <2>1 DEF PostAgain, Sent, AtWork
  <2>3. /\ \A l \in Replays : l # k => replay'[l] = replay[l]
        /\ replay'[k].at = "committing" /\ replay'[k].delivery = d
        /\ replay'[k].mine = Delivered(replay[k].mine, ok)
    BY <1>6, <2>1, WorkTypes DEF PostAgain, TypeOK, Replay
  <2>4. replay'[k].mine.attempts = replay[k].mine.attempts + 1
    BY <2>3, WorkTypes, DeliveredCounts
  <2>5. posts'[d] = posts[d] + 1 /\ \A x \in Deliveries : x # d => posts'[x] = posts[x]
    BY <2>2 DEF TypeOK
  <2>6. \A l \in Replays : \A x \in Deliveries : AtWork(l, x)' <=> AtWork(l, x)
    BY <2>1, <2>2, <2>3 DEF AtWork
  <2>7. row[d].life \in {"saved", "deleted"}
    BY <2>0, <2>2 DEF ReplaysInv
  <2>8. JobsInv' /\ RowsInv'
    BY <2>0, <2>2, <2>5, <2>7 DEF JobsInv, RowsInv
  <2>9. ReplaysInv'
    BY <2>0, <2>2, <2>6 DEF ReplaysInv
  <2>10. CountInv'
    <3> SUFFICES ASSUME NEW x \in Deliveries, x \in Saved, x \notin contended
                 PROVE  /\ (\A l \in Replays : ~AtWork(l, x)) => row[x].log.attempts = posts'[x]
                        /\ \A l \in Replays : AtWork(l, x) => replay'[l].mine.attempts = posts'[x]
      BY <2>2, <2>6 DEF CountInv, Saved
    <3>1. CASE x = d
      <4>1. \A l \in Replays : AtWork(l, x) => l = k
        BY <2>0, <2>2, <3>1 DEF ReplaysInv
      <4>2. replay[k].mine.attempts = posts[d]
        BY <2>0, <2>2, <3>1 DEF CountInv
      <4> QED
        BY <2>2, <2>4, <2>5, <3>1, <4>1, <4>2
    <3>2. CASE x # d
      <4>1. ~AtWork(k, x)
        BY <2>1, <3>2 DEF AtWork
      <4> QED
        BY <2>0, <2>3, <2>5, <3>2, <4>1 DEF CountInv
    <3> QED
      BY <3>1, <3>2
  <2> QED
    BY <2>8, <2>9, <2>10
<1>7. ASSUME NEW k \in Replays, CommitReplay(k), ~crashed
      PROVE  JobsInv' /\ RowsInv' /\ ReplaysInv' /\ CountInv'
  <2>0. JobsInv /\ RowsInv /\ ReplaysInv /\ CountInv
    BY <1>7 DEF WorkInv
  <2>1. PICK d \in Deliveries : d = replay[k].delivery
    BY WorkTypes
  <2> DEFINE log == Updated(row[d].log, replay[k].found, replay[k].mine)
  <2>2. /\ UNCHANGED <<endpoint, job, posts, contended>> /\ AtWork(k, d)
        /\ row' = IF row[d].life = "saved" THEN [row EXCEPT ![d].log = log] ELSE row
        /\ ReplayEnds(k)
    BY <1>7, <2>1 DEF CommitReplay, AtWork
  <2>3. log.attempts = replay[k].mine.attempts
    BY WorkTypes, UpdatedCounts
  <2> HIDE DEF log
  <2>4. /\ \A x \in Deliveries : row'[x].life = row[x].life
        /\ \A x \in Deliveries : x # d => row'[x] = row[x]
        /\ row[d].life = "saved" => row'[d].log = log
        /\ row[d].life # "saved" => row' = row
    BY <2>2, WorkTypes DEF TypeOK, Row
  <2>5. /\ \A l \in Replays : l # k => replay'[l] = replay[l]
        /\ replay'[k].at = "idle"
    BY <2>2, WorkTypes DEF ReplayEnds, TypeOK, Replay
  <2>6. \A l \in Replays : \A x \in Deliveries : AtWork(l, x)' <=> AtWork(l, x) /\ l # k
    BY <2>5 DEF AtWork
  <2>7. \A x \in Deliveries : AtWork(k, x) => x = d
    BY <2>1 DEF AtWork
  <2>8. JobsInv'
    BY <2>0, <2>2, <2>4, WorkTypes DEF JobsInv
  <2>9. RowsInv'
    BY <2>0, <2>2, <2>4 DEF RowsInv
  <2>10. ReplaysInv'
    BY <2>0, <2>2, <2>4, <2>6 DEF ReplaysInv
  <2>11. CountInv'
    <3> SUFFICES ASSUME NEW x \in Deliveries, x \in Saved, x \notin contended
                 PROVE  /\ (\A l \in Replays : ~AtWork(l, x)') => row'[x].log.attempts = posts[x]
                        /\ \A l \in Replays : AtWork(l, x)' => replay'[l].mine.attempts = posts[x]
      BY <2>2, <2>4 DEF CountInv, Saved
    <3>1. CASE x = d
      <4>1. \A l \in Replays : AtWork(l, x) => l = k
        BY <2>0, <2>2, <3>1 DEF ReplaysInv
      <4>2. replay[k].mine.attempts = posts[d]
        BY <2>0, <2>2, <3>1 DEF CountInv
      <4>3. row'[x].log.attempts = posts[x]
        BY <2>3, <2>4, <3>1, <4>2 DEF Saved
      <4> QED
        BY <2>6, <4>1, <4>3
    <3>2. CASE x # d
      BY <2>0, <2>4, <2>5, <2>6, <2>7, <3>2 DEF CountInv
    <3> QED
      BY <3>1, <3>2
  <2> QED
    BY <2>8, <2>9, <2>10, <2>11
<1>8. ASSUME NEW e \in Endpoints, PostEndpoint(e) \/ FindEndpoint(e), ~crashed
      PROVE  JobsInv' /\ RowsInv' /\ ReplaysInv' /\ CountInv'
  <2>0. JobsInv /\ RowsInv /\ ReplaysInv /\ CountInv
    BY <1>8 DEF WorkInv
  <2>1. UNCHANGED <<row, job, replay, posts, contended>>
    BY <1>8 DEF PostEndpoint, RegisterEndpoint, FindEndpoint
  <2>2. \A x \in Endpoints : endpoint[x] # "unknown" => endpoint'[x] = endpoint[x]
    BY <1>8 DEF PostEndpoint, RegisterEndpoint, FindEndpoint, TypeOK
  <2>3. JobsInv'
    BY <2>0, <2>1, <2>2, WorkTypes DEF JobsInv
  <2>4. RowsInv'
    BY <2>0, <2>1, <2>2 DEF RowsInv
  <2>5. \A k \in Replays : \A d \in Deliveries : AtWork(k, d)' <=> AtWork(k, d)
    BY <2>1 DEF AtWork
  <2> QED
    BY <2>0, <2>1, <2>3, <2>4, <2>5 DEF ReplaysInv, CountInv, Saved
<1>9. ASSUME NEW e \in Endpoints, DeleteEndpoint(e), ~crashed
      PROVE  JobsInv' /\ RowsInv' /\ ReplaysInv' /\ CountInv'
  <2>0. JobsInv /\ RowsInv /\ ReplaysInv /\ CountInv
    BY <1>9 DEF WorkInv
  <2>1. /\ UNCHANGED <<job, replay, posts, contended>>
        /\ \A x \in Endpoints : endpoint'[x] = endpoint[x] \/ endpoint'[x] = "deleted"
        /\ \A d \in Deliveries :
              \/ row'[d] = row[d]
              \/ /\ row[d].life = "saved" /\ row'[d].life = "deleted"
    BY <1>9, WorkTypes DEF DeleteEndpoint, RowsOf, TypeOK, Row
  <2>2. JobsInv'
    BY <2>0, <2>1, WorkTypes DEF JobsInv
  <2>3. RowsInv'
    BY <2>0, <2>1 DEF RowsInv
  <2>4. \A k \in Replays : \A d \in Deliveries : AtWork(k, d)' <=> AtWork(k, d)
    BY <2>1 DEF AtWork
  <2>5. ReplaysInv'
    BY <2>0, <2>1, <2>4 DEF ReplaysInv
  <2>6. CountInv'
    BY <2>0, <2>1, <2>4 DEF CountInv, Saved
  <2> QED
    BY <2>2, <2>3, <2>5, <2>6
<1>10. ASSUME UNCHANGED vars
       PROVE  JobsInv' /\ RowsInv' /\ ReplaysInv' /\ CountInv'
  <2>1. ~crashed /\ UNCHANGED <<endpoint, row, job, replay, posts, contended>>
    BY <1>10 DEF vars
  <2>2. \A k \in Replays : \A d \in Deliveries : AtWork(k, d)' <=> AtWork(k, d)
    BY <2>1 DEF AtWork
  <2> QED
    BY <2>1, <2>2 DEF WorkInv, JobsInv, RowsInv, ReplaysInv, CountInv, Saved
<1>11. ASSUME Next
       PROVE  \/ \E j \in Dispatches :
                    \/ \E S \in SUBSET Endpoints : DispatchEvent(j, S)
                    \/ \E e \in Endpoints, d \in Deliveries : Insert(j, e, d)
                    \/ \E ok \in BOOLEAN : Post(j, ok)
                    \/ CommitDispatch(j)
              \/ \E k \in Replays :
                    \/ \E d \in Saved : ReplayDelivery(k, d)
                    \/ \E ok \in BOOLEAN : PostAgain(k, ok)
                    \/ CommitReplay(k)
              \/ \E e \in Endpoints : PostEndpoint(e) \/ FindEndpoint(e) \/ DeleteEndpoint(e)
  BY <1>11 DEF Next, CrashDispatch, CrashReplay, RequestReplay, RequestDeletion
<1>12. ASSUME Next PROVE ~crashed
  <2>1. UNCHANGED crashed
    BY <1>11, <1>12
    DEF DispatchEvent, Insert, Post, CommitDispatch, ReplayDelivery, PostAgain, CommitReplay,
        PostEndpoint, RegisterEndpoint, FindEndpoint, DeleteEndpoint
  <2> QED
    BY <2>1
<1> QED
  BY <1>1, <1>2, <1>3, <1>4, <1>5, <1>6, <1>7, <1>8, <1>9, <1>10, <1>11, <1>12

LEMMA WorkInit ==
    ASSUME Init
    PROVE  WorkInv
<1>1. /\ \A d \in Deliveries : /\ row[d].life = "unused" /\ row[d].log = NoAttempt
                               /\ posts[d] = 0
      /\ \A j \in Dispatches : /\ job[j].at = "idle" /\ job[j].made = {} /\ job[j].todo = {}
      /\ \A k \in Replays : replay[k].at = "idle"
  BY DEF Init
<1>2. NoAttempt.attempts = 0
  BY DEF NoAttempt
<1> QED
  BY <1>1, <1>2 DEF WorkInv, JobsInv, RowsInv, ReplaysInv, CountInv, AtWork, Saved

\* As long as no request dies and no endpoint is deleted, a delivery that was
\* POSTed has its row, for any dispatches and replays: the one commit at the end
\* of dispatch_event keeps every row it made.
THEOREM EveryPostLoggedUnlessDeletedHolds == Spec => []EveryPostLoggedUnlessDeleted
<1>1. TypeOK /\ WorkInv => EveryPostLoggedUnlessDeleted
  <2> SUFFICES ASSUME TypeOK, WorkInv, ~crashed, \A e \in Endpoints : endpoint[e] # "deleted",
                      NEW d \in Deliveries, posts[d] > 0
               PROVE  row[d].life \in {"draft", "saved", "deleted"}
    BY DEF EveryPostLoggedUnlessDeleted, Logged
  <2>1. row[d].life \in {"unused", "draft", "saved", "lost", "deleted"}
    BY WorkTypes DEF Row
  <2>2. row[d].life # "unused" /\ row[d].life # "lost"
    BY WorkTypes DEF WorkInv, RowsInv
  <2> QED
    BY <2>1, <2>2
<1> QED
  BY <1>1, WorkInit, WorkStep, TypeCorrect, PTL DEF Spec

\* When no replay is at work on a delivery, its row counts every POST that was
\* sent for it, unless two replays worked on it at once or a request died
\* (_deliver, replay_delivery).
THEOREM AttemptsCountPostsHolds == Spec => []AttemptsCountPosts
<1>1. WorkInv => AttemptsCountPosts
  BY DEF WorkInv, CountInv, AttemptsCountPosts
<1> QED
  BY <1>1, WorkInit, WorkStep, TypeCorrect, PTL DEF Spec
=============================================================================
