---------------------- MODULE SnapshotCollectionProofs ----------------------
(***************************************************************************)
(* Proofs about SnapshotCollection, for any set of callers, any number of  *)
(* attempts and any list of screeners.                                     *)
(***************************************************************************)
EXTENDS SnapshotCollection, TLAPS

\* The attempts a collection has made, by the stage it is in.
AttemptsInv ==
  \A c \in Callers :
    /\ stage[c] \in {"idle", "collecting"} => attempt[c] = 0
    /\ stage[c] = "ready" => attempt[c] < MaxRetries
    /\ stage[c] = "waiting" => attempt[c] \in Attempts

\* A handler past the snapshot's upsert has stored it.
HandlersInv ==
  \A c \in Callers, n \in Attempts :
    handler[c][n] \in {"tickers", "created"} \union Screeners => c \in stored

Positions == {"none", "store", "tickers"} \union Screeners \union Answers

IInv == TypeOK /\ AttemptsInv /\ HandlersInv /\ OneCollection /\ OkMeansOver /\ SnapshotFirst

\* What the assumption on Order says of the screeners, and of the position after
\* one.
LEMMA OrderFacts ==
  /\ Screeners \intersect {"none", "store", "tickers", "created", "failed"} = {}
  /\ \A i \in DOMAIN Order : Order[i] \in Screeners /\ After(i) \in {"created"} \union Screeners
<1>1. DOMAIN Order = 1 .. Len(Order) /\ Len(Order) \in Nat
  BY OrderAssumption DEF OrderAssumption
<1>2. \A i \in DOMAIN Order : i # Len(Order) => i + 1 \in DOMAIN Order
  BY <1>1
<1>3. QED
  BY <1>1, <1>2, OrderAssumption DEF OrderAssumption, Screeners, After, Answers

LEMMA InitInv == Init => IInv
<1> SUFFICES ASSUME Init PROVE IInv
  OBVIOUS
<1>1. 1 \in Attempts /\ MaxRetries \in Nat \ {0}
  BY RetriesAssumption DEF RetriesAssumption, Attempts
<1>2. handler \in [Callers -> [Attempts -> Positions]]
  BY DEF Init, Positions
<1>3. TypeOK
  BY <1>1, <1>2 DEF Init, TypeOK, Positions
<1>4. AttemptsInv /\ HandlersInv
  BY <1>1, OrderFacts DEF Init, AttemptsInv, HandlersInv, Attempts
<1>5. OneCollection /\ OkMeansOver /\ SnapshotFirst
  BY CallersAssumption
     DEF Init, OneCollection, OkMeansOver, SnapshotFirst, Running, CallersAssumption
<1>6. QED
  BY <1>3, <1>4, <1>5 DEF IInv

\* The steps of the caller and of the collector leave the tables and, but for
\* Post, the API's requests alone.
LEMMA TablesUntouched ==
  ASSUME IInv, UNCHANGED <<handler, tables>>
  PROVE  HandlersInv' /\ SnapshotFirst'
BY DEF IInv, HandlersInv, SnapshotFirst, tables, Attempts

\* A collection that ends, ends with the lock it held, and answers a caller who
\* still waits.
LEMMA AnswerInv ==
  ASSUME IInv, NEW c \in Callers, NEW result \in {"ok", "error"}, runLock = c,
         Answer(c, result),
         UNCHANGED <<conflict, checked, rows, fresh, attempt, handler, tables>>
  PROVE  IInv'
<1>1. TypeOK'
  BY DEF IInv, TypeOK, Answer, tables, Attempts
<1>2. AttemptsInv'
  BY DEF IInv, TypeOK, AttemptsInv, Answer, Attempts
<1>3. OneCollection'
  BY CallersAssumption DEF IInv, TypeOK, OneCollection, Running, Answer, CallersAssumption
<1>4. OkMeansOver'
  BY DEF IInv, TypeOK, OkMeansOver, Answer
<1>5. QED
  BY <1>1, <1>2, <1>3, <1>4, TablesUntouched DEF IInv

LEMMA CallerInv ==
  ASSUME IInv, NEW c \in Callers, Trigger(c) \/ GiveUp(c) \/ CheckSnapshot(c)
  PROVE  IInv'
<1>1. UNCHANGED <<rows, fresh, attempt, handler, tables>>
  BY DEF Trigger, GiveUp, CheckSnapshot, collectorVars
<1>2. HandlersInv' /\ SnapshotFirst'
  BY <1>1, TablesUntouched
<1>3. ASSUME runLock' \in Callers \union {Nobody},
             stage' \in [Callers -> {"idle", "collecting", "ready", "waiting", "done"}],
             told' \in [Callers -> {"none", "ok", "error"}],
             conflict' \in [Callers -> Callers \union {Nobody}],
             checked' \in [Callers -> BOOLEAN]
      PROVE  TypeOK'
  BY <1>1, <1>3 DEF IInv, TypeOK, tables
<1> USE DEF IInv, AttemptsInv, OneCollection, OkMeansOver, Running
<1>4. CASE Trigger(c) /\ runLock = Nobody
  <2>1. /\ stage' = [stage EXCEPT ![c] = "collecting"] /\ runLock' = c
        /\ UNCHANGED <<told, conflict, checked>>
    BY <1>4 DEF Trigger
  <2>2. TypeOK'
    BY <1>3, <2>1 DEF TypeOK
  <2>3. AttemptsInv'
    BY <1>1, <1>4, <2>1 DEF TypeOK, Trigger
  <2>4. OneCollection'
    BY <1>4, <2>1, CallersAssumption DEF TypeOK, CallersAssumption
  <2>5. OkMeansOver'
    BY <1>4, <2>1 DEF TypeOK, Trigger
  <2>6. QED BY <1>2, <2>2, <2>3, <2>4, <2>5
<1>5. CASE (Trigger(c) /\ runLock # Nobody) \/ GiveUp(c) \/ CheckSnapshot(c)
  <2>1. UNCHANGED <<runLock, stage>>
    BY <1>5 DEF Trigger, GiveUp, CheckSnapshot, collectorVars
  <2>2. AttemptsInv' /\ OneCollection'
    BY <1>1, <2>1
  <2>3. TypeOK' /\ OkMeansOver'
    <3>1. CASE Trigger(c) /\ runLock # Nobody
      <4>1. /\ told' = [told EXCEPT ![c] = "ok"] /\ conflict' = [conflict EXCEPT ![c] = runLock]
            /\ UNCHANGED checked
        BY <3>1 DEF Trigger
      <4>2. QED BY <1>3, <2>1, <3>1, <4>1 DEF TypeOK
    <3>2. CASE GiveUp(c)
      BY <1>3, <2>1, <3>2 DEF GiveUp, TypeOK
    <3>3. CASE CheckSnapshot(c)
      BY <1>3, <2>1, <3>3 DEF CheckSnapshot, TypeOK
    <3>4. QED BY <1>5, <3>1, <3>2, <3>3
  <2>4. QED BY <1>2, <2>2, <2>3
<1>6. QED BY <1>4, <1>5

LEMMA CollectorInv ==
  ASSUME IInv, NEW c \in Callers, Collect(c) \/ Restart(c)
  PROVE  IInv'
<1>1. CASE Screen(c)
  <2>1. UNCHANGED <<handler, tables>> /\ HandlersInv' /\ SnapshotFirst'
    BY <1>1, TablesUntouched DEF Screen
  <2>2. TypeOK'
    <3>1. PICK R \in SUBSET Screeners : rows' = [rows EXCEPT ![c] = R]
      BY <1>1 DEF Screen
    <3>2. rows' \in [Callers -> SUBSET Screeners] /\ rows'[c] = R
      BY <3>1 DEF IInv, TypeOK
    <3>3. PICK F \in SUBSET R : fresh' = [fresh EXCEPT ![c] = F]
      BY <1>1, <3>2 DEF Screen
    <3>4. fresh' \in [Callers -> SUBSET Screeners]
      BY <3>1, <3>3 DEF IInv, TypeOK
    <3>5. QED BY <1>1, <3>2, <3>4 DEF Screen, IInv, TypeOK, callerVars, tables
  <2>3. AttemptsInv'
    BY <1>1, RetriesAssumption DEF Screen, IInv, TypeOK, AttemptsInv, Attempts, RetriesAssumption
  <2>4. OneCollection' /\ OkMeansOver'
    BY <1>1 DEF Screen, IInv, TypeOK, OneCollection, OkMeansOver, Running, callerVars
  <2>5. QED BY <2>1, <2>2, <2>3, <2>4 DEF IInv
<1>2. CASE Post(c)
  <2>1. attempt[c] + 1 \in Attempts
    BY <1>2, RetriesAssumption DEF Post, IInv, TypeOK, AttemptsInv, Attempts, RetriesAssumption
  <2>2. handler' \in [Callers -> [Attempts -> Positions]]
    <3>1. handler \in [Callers -> [Attempts -> Positions]] /\ "store" \in Positions
      BY DEF IInv, TypeOK, Positions
    <3>2. handler' = handler \/ handler' = [handler EXCEPT ![c][attempt[c] + 1] = "store"]
      BY <1>2 DEF Post
    <3>3. QED BY <2>1, <3>1, <3>2
  <2>3. TypeOK'
    <3>1. attempt[c] + 1 \in 0 .. MaxRetries
      BY <2>1 DEF Attempts
    <3>2. attempt' \in [Callers -> 0 .. MaxRetries] /\ stage' \in [Callers -> {"idle", "collecting", "ready", "waiting", "done"}]
      BY <1>2, <3>1 DEF Post, IInv, TypeOK
    <3>3. QED BY <1>2, <2>2, <3>2 DEF Post, IInv, TypeOK, callerVars, tables, Positions
  <2>4. AttemptsInv'
    BY <1>2, <2>1 DEF Post, IInv, TypeOK, AttemptsInv, Attempts
  <2>5. \A d \in Callers, n \in Attempts :
          handler'[d][n] = handler[d][n] \/ handler'[d][n] = "store"
    <3>1. handler \in [Callers -> [Attempts -> Positions]]
      BY DEF IInv, TypeOK, Positions
    <3>2. handler' = handler \/ handler' = [handler EXCEPT ![c][attempt[c] + 1] = "store"]
      BY <1>2 DEF Post
    <3>3. QED BY <2>1, <3>1, <3>2
  <2>6. HandlersInv' /\ SnapshotFirst'
    BY <1>2, <2>5, OrderFacts DEF Post, IInv, HandlersInv, SnapshotFirst, tables
  <2>7. OneCollection' /\ OkMeansOver'
    BY <1>2 DEF Post, IInv, TypeOK, OneCollection, OkMeansOver, Running, callerVars
  <2>8. QED BY <2>3, <2>4, <2>6, <2>7 DEF IInv
<1>3. CASE Retry(c)
  <2>1. UNCHANGED <<handler, tables>> /\ HandlersInv' /\ SnapshotFirst'
    BY <1>3, TablesUntouched DEF Retry
  <2>2. TypeOK' /\ AttemptsInv'
    BY <1>3 DEF Retry, IInv, TypeOK, AttemptsInv, callerVars, tables, Attempts
  <2>3. OneCollection' /\ OkMeansOver'
    BY <1>3 DEF Retry, IInv, TypeOK, OneCollection, OkMeansOver, Running, callerVars
  <2>4. QED BY <2>1, <2>2, <2>3 DEF IInv
<1>4. CASE CollectionRaises(c) \/ Restart(c)
  <2>1. runLock = c
    BY <1>4 DEF CollectionRaises, Restart, IInv, OneCollection, Running
  <2>2. QED BY <1>4, <2>1, AnswerInv DEF CollectionRaises, Restart
<1>5. CASE Delivered(c) \/ SendFails(c)
  <2>1. runLock = c
    BY <1>5 DEF Delivered, SendFails, IInv, OneCollection, Running
  <2>2. QED BY <1>5, <2>1, AnswerInv DEF Delivered, SendFails
<1>6. QED BY <1>1, <1>2, <1>3, <1>4, <1>5 DEF Collect

\* The API's steps leave the caller and the collector alone.
LEMMA CollectorUntouched ==
  ASSUME IInv, UNCHANGED <<callerVars, collectorVars>>
  PROVE  AttemptsInv' /\ OneCollection' /\ OkMeansOver'
BY DEF IInv, AttemptsInv, OneCollection, OkMeansOver, Running, callerVars, collectorVars, Attempts

LEMMA HandlerInv ==
  ASSUME IInv, NEW c \in Callers, NEW n \in Attempts, Handle(c, n)
  PROVE  IInv'
<1>1. AttemptsInv' /\ OneCollection' /\ OkMeansOver'
  BY CollectorUntouched
     DEF Handle, StoreFails, Store, Abort, UpsertTickers, InsertRows
<1>2. ASSUME NEW p \in Positions, handler' = [handler EXCEPT ![c][n] = p],
             tvRows' \in [Screeners -> Callers \union {Nobody}],
             UNCHANGED <<callerVars, collectorVars>>,
             stored' \subseteq Callers, known' \subseteq Callers
      PROVE  /\ TypeOK'
             /\ \A d \in Callers, m \in Attempts :
                  handler'[d][m] = IF d = c /\ m = n THEN p ELSE handler[d][m]
  <2>1. handler \in [Callers -> [Attempts -> Positions]]
    BY DEF IInv, TypeOK, Positions
  <2>2. handler' \in [Callers -> [Attempts -> Positions]]
    BY <1>2, <2>1
  <2>3. TypeOK'
    BY <1>2, <2>2 DEF IInv, TypeOK, Positions, callerVars, collectorVars
  <2>4. QED BY <1>2, <2>1, <2>3
<1>2a. /\ stored \subseteq Callers /\ known \subseteq Callers
      /\ tvRows \in [Screeners -> Callers \union {Nobody}]
      /\ {"tickers", "failed"} \union Screeners \subseteq Positions
      /\ \A i \in DOMAIN Order : After(i) \in Positions
  BY OrderFacts DEF IInv, TypeOK, Positions, Answers
<1> USE OrderFacts
<1>3. CASE StoreFails(c, n) \/ Abort(c, n)
  <2>1. TypeOK' /\ \A d \in Callers, m \in Attempts :
                      handler'[d][m] = IF d = c /\ m = n THEN "failed" ELSE handler[d][m]
    BY <1>2, <1>3, <1>2a DEF StoreFails, Abort, tables
  <2>2. QED BY <1>1, <1>3, <2>1 DEF StoreFails, Abort, IInv, HandlersInv, SnapshotFirst, tables
<1>4. CASE Store(c, n)
  <2>1. TypeOK' /\ \A d \in Callers, m \in Attempts :
                      handler'[d][m] = IF d = c /\ m = n THEN "tickers" ELSE handler[d][m]
    BY <1>2, <1>4, <1>2a DEF Store
  <2>2. QED BY <1>1, <1>4, <2>1 DEF Store, IInv, HandlersInv, SnapshotFirst
<1>5. CASE UpsertTickers(c, n)
  <2>1. Order[1] \in Screeners /\ Order[1] \in Positions
    <3>1. 1 \in DOMAIN Order
      BY OrderAssumption DEF OrderAssumption
    <3>2. QED BY <3>1 DEF Positions
  <2>2. c \in stored
    BY <1>5 DEF UpsertTickers, IInv, HandlersInv
  <2>3. TypeOK' /\ \A d \in Callers, m \in Attempts :
                      handler'[d][m] = IF d = c /\ m = n THEN Order[1] ELSE handler[d][m]
    <3>1. handler' = [handler EXCEPT ![c][n] = Order[1]] /\ UNCHANGED tvRows
          /\ UNCHANGED <<callerVars, collectorVars>> /\ stored' = stored
          /\ known' \in {known, known \union {c}}
      BY <1>5 DEF UpsertTickers
    <3>2. known' \subseteq Callers
      BY <1>2a, <3>1
    <3>3. QED BY <1>2, <1>2a, <2>1, <3>1, <3>2
  <2>4. QED BY <1>1, <1>5, <2>1, <2>2, <2>3 DEF UpsertTickers, IInv, HandlersInv, SnapshotFirst
<1>6. ASSUME NEW i \in DOMAIN Order, InsertRows(c, n, i) PROVE IInv'
  <2>1. Order[i] \in Screeners /\ After(i) \in {"created"} \union Screeners /\ c \in stored
    BY <1>6 DEF InsertRows, IInv, HandlersInv
  <2>2. tvRows' \in [Screeners -> Callers \union {Nobody}]
        /\ \A s \in Screeners : tvRows'[s] \in {tvRows[s], c}
    <3>1. tvRows \in [Screeners -> Callers \union {Nobody}]
      BY DEF IInv, TypeOK
    <3>2. tvRows' = tvRows \/ tvRows' = [tvRows EXCEPT ![Order[i]] = c]
      BY <1>6 DEF InsertRows
    <3>3. QED BY <2>1, <3>1, <3>2
  <2>3. TypeOK' /\ \A d \in Callers, m \in Attempts :
                      handler'[d][m] = IF d = c /\ m = n THEN After(i) ELSE handler[d][m]
    <3>1. handler' = [handler EXCEPT ![c][n] = After(i)]
          /\ UNCHANGED <<callerVars, collectorVars>> /\ UNCHANGED <<stored, known>>
      BY <1>6 DEF InsertRows
    <3>2. QED BY <1>2, <1>2a, <2>2, <3>1
  <2>4. QED BY <1>1, <1>6, <2>1, <2>2, <2>3 DEF InsertRows, IInv, HandlersInv, SnapshotFirst
<1>7. QED BY <1>3, <1>4, <1>5, <1>6 DEF Handle

\* The inductive invariant.
THEOREM Invariance == Spec => []IInv
<1>1. IInv /\ [Next]_vars => IInv'
  <2> SUFFICES ASSUME IInv, [Next]_vars PROVE IInv'
    OBVIOUS
  <2>1. CASE UNCHANGED vars
    BY <2>1, TablesUntouched, CollectorUntouched
       DEF vars, callerVars, collectorVars, tables, IInv, TypeOK
  <2>2. CASE Settled
    BY <2>2, <2>1 DEF Settled
  <2>3. ASSUME NEW c \in Callers, Trigger(c) \/ GiveUp(c) \/ CheckSnapshot(c) \/ Collect(c) \/ Restart(c)
        PROVE  IInv'
    BY <2>3, CallerInv, CollectorInv
  <2>4. ASSUME NEW c \in Callers, NEW n \in Attempts, Handle(c, n) PROVE IInv'
    BY <2>4, HandlerInv
  <2>5. QED BY <2>1, <2>2, <2>3, <2>4 DEF Next
<1>2. QED BY InitInv, <1>1, PTL DEF Spec

\* Every variable keeps its type; no collection posts more than MaxRetries times.
THEOREM TypeCorrect == Spec => []TypeOK
BY Invariance, PTL DEF IInv

\* The lock is held exactly by the collection that runs, and 200 is answered
\* only when it is over.
THEOREM OneCollectionHolds == Spec => [](OneCollection /\ OkMeansOver)
BY Invariance, PTL DEF IInv

\* No ticker and no row without its snapshot.
THEOREM SnapshotFirstHolds == Spec => []SnapshotFirst
BY Invariance, PTL DEF IInv

=============================================================================
