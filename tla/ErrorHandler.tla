---------------------------- MODULE ErrorHandler ----------------------------
(***************************************************************************)
(* error_handler.c: any task reports an error; the report goes through a   *)
(* queue to the error handler's task, which logs it, calls the user's      *)
(* callback and restarts the system if the error is fatal.                 *)
(*                                                                         *)
(* The text of a report is not in the queue: all reports are formatted     *)
(* into one static buffer, without a lock, and the queue holds a pointer   *)
(* to it.  The buffer is modelled as two halves, so that formatting has a  *)
(* middle.                                                                 *)
(*                                                                         *)
(* The model begins when error_handler_init has succeeded and the callback *)
(* is registered: app_main does both before any other task exists, and     *)
(* ESP_ERROR_CHECK stops the program if the first fails.  A restart leads  *)
(* back to that state.                                                     *)
(***************************************************************************)
EXTENDS Naturals, Sequences

CONSTANTS
  Tasks,                     (* tasks that report errors                   *)
  ERROR_QUEUE_SIZE,
  MAX_REPORTS                (* bound of the model: reports between restarts *)

ASSUME LimitsAssumption ==
  ERROR_QUEUE_SIZE \in Nat \ {0} /\ MAX_REPORTS \in Nat

\* Of error_level_t only ERROR_LEVEL_FATAL is treated differently.
ERROR_LEVEL_ERROR == "error"
ERROR_LEVEL_FATAL == "fatal"
Levels == {ERROR_LEVEL_ERROR, ERROR_LEVEL_FATAL}

Ids == 1..MAX_REPORTS
NONE == 0                    \* no report
Halves == {"first", "second"}

VARIABLES
  error_queue,               (* ids of the reports, next to receive first  *)
  message_buffer,            (* the report each half of the text is from   *)
  pc,                        (* where each task is in error_handler_report *)
  report,                    (* the id of the report it is making          *)
  handler,                   (* where error_handler_task is                *)
  error,                     (* the report it has received                 *)
  \* what has happened since the last restart, for the properties
  count,                     (* reports begun                              *)
  level,                     (* their levels                               *)
  accepted,                  (* ids that went into the queue, in order     *)
  logged,                    (* ids that were logged, in order             *)
  text                       (* the text each was logged with              *)

reportVars  == <<message_buffer, pc, report>>
handlerVars == <<handler, error>>
historyVars == <<count, level, accepted, logged, text>>
vars == <<error_queue, reportVars, handlerVars, historyVars>>

Init ==
  /\ error_queue = <<>>
  /\ message_buffer = [h \in Halves |-> NONE]
  /\ pc     = [t \in Tasks |-> "idle"]
  /\ report = [t \in Tasks |-> NONE]
  /\ handler = "receive"
  /\ error   = NONE
  /\ count = 0
  /\ level = [r \in Ids |-> ERROR_LEVEL_ERROR]
  /\ accepted = <<>>
  /\ logged   = <<>>
  /\ text = [r \in Ids |-> [h \in Halves |-> NONE]]

-----------------------------------------------------------------------------
(* error_handler_report *)

\* vsnprintf has written one half of the text.
BeginFormat(t, l) ==
  /\ pc[t] = "idle"
  /\ count < MAX_REPORTS
  /\ count'  = count + 1
  /\ level'  = [level EXCEPT ![count'] = l]
  /\ report' = [report EXCEPT ![t] = count']
  /\ message_buffer' = [message_buffer EXCEPT !["first"] = count']
  /\ pc' = [pc EXCEPT ![t] = "format"]
  /\ UNCHANGED <<error_queue, handlerVars, accepted, logged, text>>

EndFormat(t) ==
  /\ pc[t] = "format"
  /\ message_buffer' = [message_buffer EXCEPT !["second"] = report[t]]
  /\ pc' = [pc EXCEPT ![t] = "send"]
  /\ UNCHANGED <<error_queue, report, handlerVars, historyVars>>

ReturnFromReport(t) ==
  /\ pc' = [pc EXCEPT ![t] = "idle"]
  /\ report' = [report EXCEPT ![t] = NONE]
  /\ UNCHANGED message_buffer

\* Mutant: the newest report goes to the front of the queue.
SendToFront(t) ==
  /\ pc[t] = "send"
  /\ Len(error_queue) < ERROR_QUEUE_SIZE
  /\ error_queue' = <<report[t]>> \o error_queue
  /\ accepted' = Append(accepted, report[t])
  /\ ReturnFromReport(t)
  /\ UNCHANGED <<handlerVars, count, level, logged, text>>

Send(t) ==
  /\ pc[t] = "send"
  /\ Len(error_queue) < ERROR_QUEUE_SIZE
  /\ error_queue' = Append(error_queue, report[t])
  /\ accepted' = Append(accepted, report[t])
  /\ ReturnFromReport(t)
  /\ UNCHANGED <<handlerVars, count, level, logged, text>>

Dropped(t) ==
  /\ pc[t] = "send"
  /\ Len(error_queue) >= ERROR_QUEUE_SIZE
  /\ ReturnFromReport(t)
  /\ UNCHANGED <<error_queue, handlerVars, historyVars>>

-----------------------------------------------------------------------------
(* error_handler_task *)

Receive ==
  /\ handler = "receive"
  /\ error_queue # <<>>
  /\ error' = Head(error_queue)
  /\ error_queue' = Tail(error_queue)
  /\ handler' = "log"
  /\ UNCHANGED <<reportVars, historyVars>>

\* ESP_LOGI reads the text through error.message.
Log ==
  /\ handler = "log"
  /\ logged' = Append(logged, error)
  /\ text'   = [text EXCEPT ![error] = message_buffer]
  /\ handler' = "callback"
  /\ UNCHANGED <<error_queue, reportVars, error, count, level, accepted>>

\* Mutant: the handler goes on to the next report after a fatal one.
CallbackGoesOn ==
  /\ handler = "callback"
  /\ handler' = "receive"
  /\ error' = NONE
  /\ UNCHANGED <<error_queue, reportVars, historyVars>>

\* The user's callback: the one in main.c only writes to the log.
Callback ==
  /\ handler = "callback"
  /\ handler' = IF level[error] = ERROR_LEVEL_FATAL THEN "restart" ELSE "receive"
  /\ error'   = IF level[error] = ERROR_LEVEL_FATAL THEN error ELSE NONE
  /\ UNCHANGED <<error_queue, reportVars, historyVars>>

\* The end of the delay of one second, in which the other tasks run on, and
\* esp_restart: nothing in memory survives.
Restart ==
  /\ handler = "restart"
  /\ error_queue' = <<>>
  /\ message_buffer' = [h \in Halves |-> NONE]
  /\ pc'     = [t \in Tasks |-> "idle"]
  /\ report' = [t \in Tasks |-> NONE]
  /\ handler' = "receive"
  /\ error'   = NONE
  /\ count' = 0
  /\ level' = [r \in Ids |-> ERROR_LEVEL_ERROR]
  /\ accepted' = <<>>
  /\ logged'   = <<>>
  /\ text' = [r \in Ids |-> [h \in Halves |-> NONE]]

-----------------------------------------------------------------------------

Reporter(t) == EndFormat(t) \/ Send(t) \/ Dropped(t)
Handler == Receive \/ Log \/ Callback \/ Restart

Next ==
  \/ \E t \in Tasks : (\E l \in Levels : BeginFormat(t, l)) \/ Reporter(t)
  \/ Handler

Spec == Init /\ [][Next]_vars

\* Tasks that are not blocked run; a delay ends.
Fairness == WF_vars(Handler) /\ \A t \in Tasks : WF_vars(Reporter(t))

FairSpec == Spec /\ Fairness

-----------------------------------------------------------------------------
(* Properties *)

Texts == [Halves -> Ids \cup {NONE}]

\* Every variable stays in its type, the queue in its size.
TypeOK ==
  /\ error_queue \in Seq(Ids) /\ Len(error_queue) <= ERROR_QUEUE_SIZE
  /\ message_buffer \in Texts
  /\ pc \in [Tasks -> {"idle", "format", "send"}]
  /\ report \in [Tasks -> Ids \cup {NONE}]
  /\ handler \in {"receive", "log", "callback", "restart"}
  /\ error \in Ids \cup {NONE}
  /\ count \in 0..MAX_REPORTS
  /\ level \in [Ids -> Levels]
  /\ accepted \in Seq(Ids) /\ logged \in Seq(Ids)
  /\ text \in [Ids -> Texts]

\* What was accepted is what was logged, then what the handler is about to log,
\* then what waits in the queue: no report is lost, repeated or overtaken,
\* whatever tasks report at the same time.
InOrder ==
  accepted = logged \o (IF handler = "log" THEN <<error>> ELSE <<>>) \o error_queue

\* After a fatal error no other report is handled before the restart.
FatalIsLast ==
  \A i \in DOMAIN logged :
    level[logged[i]] = ERROR_LEVEL_FATAL =>
      /\ i = Len(logged) /\ error = logged[i]
      /\ handler \in {"callback", "restart"}

\* An accepted fatal error leads to a restart, however many reports are waiting
\* before it and however many are made behind it.
AcceptedFatalRestarts ==
  (\E i \in DOMAIN accepted : level[accepted[i]] = ERROR_LEVEL_FATAL)
    ~> handler = "restart"

\* "For a fatal error, restart the system" (error_handler.c:53): once a task has
\* begun to report one, the system restarts.  NOT a property of the code, which
\* drops a fatal report like any other when the queue is full; no run checks it.
FatalRestarts ==
  (\E r \in 1..count : level[r] = ERROR_LEVEL_FATAL) ~> handler = "restart"

\* The log shows each report with the text that was formatted for it.  NOT a
\* property of the code, whose reports share one buffer; no run checks it.
TextIsOwn ==
  \A i \in DOMAIN logged : text[logged[i]] = [h \in Halves |-> logged[i]]
=============================================================================
