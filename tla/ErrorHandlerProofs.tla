------------------------- MODULE ErrorHandlerProofs -------------------------
(***************************************************************************)
(* Proofs about ErrorHandler.tla for every number of tasks and reports and *)
(* every size of the queue.                                                *)
(***************************************************************************)
EXTENDS ErrorHandler, SequenceTheorems, TLAPS

-----------------------------------------------------------------------------
(* The strengthening. *)

\* Only reports that were begun are anywhere in the system, so that a new report
\* does not change the level of one that is.
BegunInv ==
  /\ \A t \in Tasks : pc[t] # "idle" => report[t] \in 1..count
  /\ \A i \in DOMAIN error_queue : error_queue[i] \in 1..count
  /\ \A i \in DOMAIN logged : logged[i] \in 1..count
  /\ handler # "receive" => error \in 1..count

\* Between the log and the next report the handler works on the report that was
\* logged last; it waits for a restart only after a fatal one.
LastInv ==
  /\ handler \in {"callback", "restart"} => logged # <<>> /\ logged[Len(logged)] = error
  /\ handler = "restart" => level[error] = ERROR_LEVEL_FATAL

ReportsInv == TypeOK /\ BegunInv /\ LastInv /\ InOrder /\ FatalIsLast

\* What the handler has received and not logged yet.
InHand == IF handler = "log" THEN <<error>> ELSE <<>>

-----------------------------------------------------------------------------
(* Lemmas *)

\* A sequence is its first element and the rest.
LEMMA HeadAndTail ==
  ASSUME NEW S, NEW q \in Seq(S), q # <<>>
  PROVE  q = <<Head(q)>> \o Tail(q)
<1>1. /\ Head(q) \in S /\ Tail(q) \in Seq(S) /\ Len(Tail(q)) = Len(q) - 1
      /\ \A i \in 1..Len(Tail(q)) : Tail(q)[i] = q[i + 1]
      /\ Len(q) \in Nat /\ Len(q) > 0 /\ Head(q) = q[1]
  <2>1. Len(q) > 0
    BY EmptySeq, LenProperties
  <2>. QED
    BY <2>1, HeadTailProperties, LenProperties
<1>2. <<Head(q)>> \in Seq(S) /\ Len(<<Head(q)>>) = 1 /\ <<Head(q)>>[1] = Head(q)
  BY <1>1
<1>3. /\ <<Head(q)>> \o Tail(q) \in Seq(S)
      /\ Len(<<Head(q)>> \o Tail(q)) = Len(q)
      /\ \A i \in 1..Len(q) :
           (<<Head(q)>> \o Tail(q))[i] = IF i <= 1 THEN <<Head(q)>>[i] ELSE Tail(q)[i - 1]
  BY <1>1, <1>2, ConcatProperties
<1>4. \A i \in 1..Len(q) : q[i] = (<<Head(q)>> \o Tail(q))[i]
  BY <1>1, <1>2, <1>3
<1>. QED
  BY <1>1, <1>3, <1>4, SeqEqual

\* A report that was begun has an id.
LEMMA BegunAreIds ==
  ASSUME TypeOK, NEW r \in 1..count
  PROVE  r \in Ids
BY LimitsAssumption DEF TypeOK, Ids

\* What the handler has in hand is a sequence of ids.
LEMMA InHandIsSeq ==
  ASSUME TypeOK, BegunInv
  PROVE  InHand \in Seq(Ids)
<1>1. CASE handler = "log"
  <2>1. error \in Ids
    BY <1>1, BegunAreIds DEF BegunInv
  <2>. QED
    BY <1>1, <2>1 DEF InHand
<1>2. CASE handler # "log"
  BY <1>2 DEF InHand
<1>. QED
  BY <1>1, <1>2

\* Concatenations of sequences of ids may be regrouped.
LEMMA Regroup == \A a, b, c \in Seq(Ids) : (a \o b) \o c = a \o (b \o c)
<1>. TAKE a, b, c \in Seq(Ids)
<1>. QED
  BY ConcatAssociative

\* The initial state, and so the state after a restart, has the invariant.
LEMMA InitInv == Init => ReportsInv
<1>. SUFFICES ASSUME Init PROVE ReportsInv
  OBVIOUS
<1>. USE LimitsAssumption
<1>1. TypeOK
  BY DEF Init, TypeOK, Texts, Levels, Ids, NONE
<1>2. BegunInv /\ LastInv /\ FatalIsLast
  BY DEF Init, BegunInv, LastInv, FatalIsLast
<1>3. InOrder
  BY DEF Init, InOrder
<1>. QED
  BY <1>1, <1>2, <1>3 DEF ReportsInv

\* A report is begun: it gets a level no other report has a use for.
LEMMA BeginFormatStep ==
  ASSUME ReportsInv, NEW t \in Tasks, NEW l \in Levels, BeginFormat(t, l)
  PROVE  ReportsInv'
<1>. USE DEF ReportsInv
<1>0. /\ count \in Nat /\ MAX_REPORTS \in Nat /\ count + 1 \in Ids /\ count' = count + 1
      /\ UNCHANGED <<error_queue, handler, error, accepted, logged, text>>
  BY LimitsAssumption DEF TypeOK, BeginFormat, handlerVars, Ids
<1>1. TypeOK'
  <2>1. count + 1 \in 0..MAX_REPORTS
    BY <1>0 DEF Ids
  <2>2. message_buffer' \in Texts
    BY <1>0 DEF TypeOK, BeginFormat, Texts
  <2>. QED
    BY <1>0, <2>1, <2>2 DEF TypeOK, BeginFormat
<1>2. BegunInv'
  BY <1>0 DEF BegunInv, BeginFormat, TypeOK
<1>3. \A r \in 1..count : level'[r] = level[r]
  BY <1>0 DEF BeginFormat, TypeOK, Ids
<1>4. LastInv'
  BY <1>0, <1>3 DEF LastInv, BegunInv
<1>5. FatalIsLast'
  BY <1>0, <1>3 DEF FatalIsLast, BegunInv
<1>6. InOrder'
  BY <1>0 DEF InOrder
<1>. QED
  BY <1>1, <1>2, <1>4, <1>5, <1>6

\* The text is finished, or the report is dropped: nothing moves.
LEMMA FormatOrDropStep ==
  ASSUME ReportsInv, NEW t \in Tasks, EndFormat(t) \/ Dropped(t)
  PROVE  ReportsInv'
<1>. USE DEF ReportsInv
<1>1. UNCHANGED <<error_queue, handler, error, count, level, accepted, logged, text>>
  BY DEF EndFormat, Dropped, ReturnFromReport, handlerVars, historyVars
<1>2. message_buffer' \in Texts
  BY DEF TypeOK, EndFormat, Dropped, ReturnFromReport, Texts
<1>3. TypeOK' /\ BegunInv'
  BY <1>1, <1>2 DEF TypeOK, BegunInv, EndFormat, Dropped, ReturnFromReport, NONE
<1>4. LastInv' /\ FatalIsLast' /\ InOrder'
  BY <1>1 DEF LastInv, FatalIsLast, InOrder
<1>. QED
  BY <1>3, <1>4

\* The report goes to the end of the queue.
LEMMA SendStep ==
  ASSUME ReportsInv, NEW t \in Tasks, Send(t)
  PROVE  ReportsInv'
<1>. USE DEF ReportsInv
<1>1. /\ UNCHANGED <<handler, error, count, level, logged, text, message_buffer>>
      /\ error_queue' = Append(error_queue, report[t])
      /\ accepted' = Append(accepted, report[t])
      /\ report[t] \in 1..count /\ report[t] \in Ids
      /\ Len(error_queue) < ERROR_QUEUE_SIZE
  <2>1. report[t] \in 1..count
    BY DEF Send, BegunInv
  <2>. QED
    BY <2>1, BegunAreIds DEF Send, ReturnFromReport, handlerVars
<1>2. /\ error_queue \in Seq(Ids) /\ accepted \in Seq(Ids) /\ logged \in Seq(Ids)
      /\ Len(error_queue) \in Nat /\ ERROR_QUEUE_SIZE \in Nat
  BY LenProperties, LimitsAssumption DEF TypeOK
<1>3. /\ error_queue' \in Seq(Ids) /\ accepted' \in Seq(Ids)
      /\ Len(error_queue') = Len(error_queue) + 1
      /\ \A i \in 1..Len(error_queue) : error_queue'[i] = error_queue[i]
      /\ error_queue'[Len(error_queue) + 1] = report[t]
  BY <1>1, <1>2, AppendProperties
<1>4. TypeOK'
  BY <1>1, <1>2, <1>3 DEF TypeOK, Send, ReturnFromReport, NONE
<1>5. BegunInv'
  <2>1. \A i \in DOMAIN error_queue' : error_queue'[i] \in 1..count
    BY <1>1, <1>2, <1>3, LenProperties DEF BegunInv
  <2>. QED
    BY <1>1, <2>1 DEF BegunInv, Send, ReturnFromReport, TypeOK
<1>6. LastInv' /\ FatalIsLast'
  BY <1>1 DEF LastInv, FatalIsLast
<1>7. InOrder'
  <2>1. InHand \in Seq(Ids) /\ InHand' = InHand
    BY <1>1, InHandIsSeq DEF InHand
  <2>2. accepted = (logged \o InHand) \o error_queue
    BY DEF InOrder, InHand
  <2>3. /\ accepted' = accepted \o <<report[t]>>
        /\ error_queue' = error_queue \o <<report[t]>>
    BY <1>1, <1>2, AppendIsConcat
  <2>4. logged \o InHand \in Seq(Ids) /\ <<report[t]>> \in Seq(Ids)
    BY <1>1, <1>2, <2>1, ConcatProperties
  <2>5. ((logged \o InHand) \o error_queue) \o <<report[t]>>
          = (logged \o InHand) \o (error_queue \o <<report[t]>>)
    <3>. DEFINE before == logged \o InHand
                last == <<report[t]>>
    <3>1. before \in Seq(Ids) /\ last \in Seq(Ids)
      BY <2>4
    <3>. HIDE DEF before, last
    <3>2. (before \o error_queue) \o last = before \o (error_queue \o last)
      <4>1. error_queue \in Seq(Ids)
        BY <1>2
      <4>. QED
        BY ONLY <3>1, <4>1, Regroup, Zenon
    <3>. QED
      BY <3>2 DEF before, last
  <2>6. accepted' = (logged' \o InHand') \o error_queue'
    BY <1>1, <2>1, <2>2, <2>3, <2>5
  <2>. QED
    BY <2>6 DEF InOrder, InHand
<1>. QED
  BY <1>4, <1>5, <1>6, <1>7

\* The handler takes the first report of the queue.
LEMMA ReceiveStep ==
  ASSUME ReportsInv, Receive
  PROVE  ReportsInv'
<1>. USE DEF ReportsInv
<1>1. /\ UNCHANGED <<count, level, accepted, logged, text, message_buffer, pc, report>>
      /\ handler = "receive" /\ handler' = "log"
      /\ error_queue # <<>> /\ error' = Head(error_queue) /\ error_queue' = Tail(error_queue)
  BY DEF Receive, reportVars, historyVars
<1>2. /\ error_queue \in Seq(Ids) /\ logged \in Seq(Ids) /\ ERROR_QUEUE_SIZE \in Nat
      /\ Len(error_queue) \in Nat /\ Len(error_queue) > 0
  BY <1>1, LenProperties, EmptySeq, LimitsAssumption DEF TypeOK
<1>3. /\ error' = error_queue[1] /\ error' \in Ids /\ error_queue' \in Seq(Ids)
      /\ Len(error_queue') = Len(error_queue) - 1
      /\ \A i \in 1..Len(error_queue') : error_queue'[i] = error_queue[i + 1]
  BY <1>1, <1>2, HeadTailProperties
<1>4. TypeOK'
  BY <1>1, <1>2, <1>3 DEF TypeOK
<1>5. BegunInv'
  <2>1. error' \in 1..count
    BY <1>2, <1>3, LenProperties DEF BegunInv
  <2>2. DOMAIN error_queue' = 1..Len(error_queue') /\ DOMAIN error_queue = 1..Len(error_queue)
    BY <1>2, <1>3, LenProperties
  <2>3. \A i \in DOMAIN error_queue' : error_queue'[i] \in 1..count
    <3>. SUFFICES ASSUME NEW i \in 1..Len(error_queue') PROVE error_queue'[i] \in 1..count
      BY <2>2
    <3>1. i + 1 \in DOMAIN error_queue
      BY <1>2, <1>3, <2>2
    <3>. QED
      BY <1>3, <3>1 DEF BegunInv
  <2>. QED
    BY <1>1, <2>1, <2>3 DEF BegunInv
<1>6. LastInv' /\ FatalIsLast'
  BY <1>1 DEF LastInv, FatalIsLast
<1>7. InOrder'
  <2>1. error_queue = <<error'>> \o error_queue'
    BY <1>1, <1>2, HeadAndTail
  <2>2. accepted = (logged \o <<>>) \o error_queue
    BY <1>1 DEF InOrder
  <2>3. logged \o <<>> = logged
    BY <1>2, ConcatEmptySeq
  <2>4. (logged \o <<error'>>) \o error_queue' = logged \o (<<error'>> \o error_queue')
    <3>1. <<error'>> \in Seq(Ids)
      BY <1>3
    <3>. QED
      BY <1>2, <1>3, <3>1, Regroup, Zenon
  <2>5. accepted' = (logged' \o <<error'>>) \o error_queue'
    BY <1>1, <2>1, <2>2, <2>3, <2>4
  <2>. QED
    BY <1>1, <2>5 DEF InOrder
<1>. QED
  BY <1>4, <1>5, <1>6, <1>7

\* What was in hand becomes the last of what was logged.
LEMMA LogStep ==
  ASSUME ReportsInv, Log
  PROVE  ReportsInv'
<1>. USE DEF ReportsInv
<1>1. /\ UNCHANGED <<error_queue, error, count, level, accepted, message_buffer, pc, report>>
      /\ handler = "log" /\ handler' = "callback"
      /\ logged' = Append(logged, error)
      /\ text' = [text EXCEPT ![error] = message_buffer]
  BY DEF Log, reportVars
<1>2. error \in 1..count /\ error \in Ids
  BY <1>1, BegunAreIds DEF BegunInv
<1>3. logged \in Seq(Ids) /\ Len(logged) \in Nat /\ DOMAIN logged = 1..Len(logged)
  BY LenProperties DEF TypeOK
<1>4. /\ logged' \in Seq(Ids) /\ Len(logged') = Len(logged) + 1
      /\ DOMAIN logged' = 1..(Len(logged) + 1)
      /\ \A i \in 1..Len(logged) : logged'[i] = logged[i]
      /\ logged'[Len(logged) + 1] = error
  BY <1>1, <1>2, <1>3, AppendProperties, LenProperties
<1>5. TypeOK'
  <2>1. text' \in [Ids -> Texts]
    BY <1>1, <1>2 DEF TypeOK
  <2>. QED
    BY <1>1, <1>4, <2>1 DEF TypeOK
<1>6. BegunInv'
  <2>1. \A i \in DOMAIN logged' : logged'[i] \in 1..count
    BY <1>2, <1>3, <1>4 DEF BegunInv
  <2>. QED
    BY <1>1, <1>2, <2>1 DEF BegunInv
<1>7. LastInv'
  <2>1. logged' # <<>>
    BY <1>3, <1>4, EmptySeq
  <2>. QED
    BY <1>1, <1>3, <1>4, <2>1 DEF LastInv
<1>8. FatalIsLast'
  BY <1>1, <1>3, <1>4 DEF FatalIsLast
<1>9. InOrder'
  <2>1. accepted = (logged \o <<error>>) \o error_queue
    BY <1>1 DEF InOrder
  <2>2. logged' = logged \o <<error>>
    BY <1>1, <1>2, <1>3, AppendIsConcat
  <2>3. logged' \o <<>> = logged'
    BY <1>4, ConcatEmptySeq
  <2>. QED
    BY <1>1, <2>1, <2>2, <2>3 DEF InOrder
<1>. QED
  BY <1>5, <1>6, <1>7, <1>8, <1>9

\* The handler goes on, or waits for the restart if the report was fatal.
LEMMA CallbackStep ==
  ASSUME ReportsInv, Callback
  PROVE  ReportsInv'
<1>. USE DEF ReportsInv
<1>1. /\ UNCHANGED <<error_queue, count, level, accepted, logged, text, message_buffer, pc, report>>
      /\ handler = "callback"
  BY DEF Callback, reportVars, historyVars
<1>2. /\ logged # <<>> /\ logged[Len(logged)] = error /\ error \in 1..count
      /\ logged \in Seq(Ids) /\ Len(logged) \in Nat /\ DOMAIN logged = 1..Len(logged)
      /\ Len(logged) > 0
  BY <1>1, LenProperties, EmptySeq DEF LastInv, BegunInv, TypeOK
<1>3. CASE level[error] = ERROR_LEVEL_FATAL
  <2>1. handler' = "restart" /\ error' = error
    BY <1>3 DEF Callback
  <2>2. TypeOK' /\ BegunInv'
    BY <1>1, <2>1 DEF TypeOK, BegunInv
  <2>3. LastInv' /\ FatalIsLast' /\ InOrder'
    BY <1>1, <1>3, <2>1 DEF LastInv, FatalIsLast, InOrder
  <2>. QED
    BY <2>2, <2>3
<1>4. CASE level[error] # ERROR_LEVEL_FATAL
  <2>1. handler' = "receive" /\ error' = NONE
    BY <1>4 DEF Callback
  <2>2. TypeOK' /\ BegunInv' /\ LastInv' /\ InOrder'
    BY <1>1, <2>1 DEF TypeOK, BegunInv, LastInv, InOrder
  <2>3. FatalIsLast'
    BY <1>1, <1>2, <1>4, <2>1 DEF FatalIsLast
  <2>. QED
    BY <2>2, <2>3
<1>. QED
  BY <1>3, <1>4

\* A restart leads back to the initial state.
LEMMA RestartStep ==
  ASSUME Restart
  PROVE  ReportsInv'
<1>. USE LimitsAssumption
<1>1. TypeOK'
  BY DEF Restart, TypeOK, Texts, Levels, Ids, NONE
<1>2. BegunInv' /\ LastInv' /\ FatalIsLast'
  BY DEF Restart, BegunInv, LastInv, FatalIsLast
<1>3. InOrder'
  BY DEF Restart, InOrder
<1>. QED
  BY <1>1, <1>2, <1>3 DEF ReportsInv

\* A step that changes no variable keeps the invariant.
LEMMA StutterStep ==
  ASSUME ReportsInv, UNCHANGED vars
  PROVE  ReportsInv'
BY DEF vars, reportVars, handlerVars, historyVars, ReportsInv, TypeOK, BegunInv, LastInv,
       InOrder, FatalIsLast

-----------------------------------------------------------------------------
(* Theorems *)

\* The strengthening is an invariant of error_handler.c.
THEOREM ReportsInvariance == Spec => []ReportsInv
<1>1. ReportsInv /\ [Next]_vars => ReportsInv'
  <2>. SUFFICES ASSUME ReportsInv, [Next]_vars PROVE ReportsInv'
    OBVIOUS
  <2>1. CASE \E t \in Tasks : \E l \in Levels : BeginFormat(t, l)
    BY <2>1, BeginFormatStep
  <2>2. CASE \E t \in Tasks : Reporter(t)
    BY <2>2, FormatOrDropStep, SendStep DEF Reporter
  <2>3. CASE Handler
    BY <2>3, ReceiveStep, LogStep, CallbackStep, RestartStep DEF Handler
  <2>4. CASE UNCHANGED vars
    BY <2>4, StutterStep
  <2>. QED
    BY <2>1, <2>2, <2>3, <2>4 DEF Next
<1>. QED
  BY InitInv, <1>1, PTL DEF Spec

\* Every variable stays in its type, error_queue in the size it was created with.
THEOREM TypeCorrect == Spec => []TypeOK
<1>1. ReportsInv => TypeOK
  BY DEF ReportsInv
<1>. QED
  BY ReportsInvariance, <1>1, PTL

\* No report that went into the queue is lost, logged twice or overtaken, however
\* many tasks call error_handler_report at the same time.
THEOREM ReportsInOrder == Spec => []InOrder
<1>1. ReportsInv => InOrder
  BY DEF ReportsInv
<1>. QED
  BY ReportsInvariance, <1>1, PTL

\* error_handler_task handles nothing between a fatal error and the restart.
THEOREM FatalIsLastReport == Spec => []FatalIsLast
<1>1. ReportsInv => FatalIsLast
  BY DEF ReportsInv
<1>. QED
  BY ReportsInvariance, <1>1, PTL
=============================================================================
