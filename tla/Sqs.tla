-------------------------------- MODULE Sqs --------------------------------
(***************************************************************************)
(* sqs/client.go: one goroutine receives a batch of messages, ships them   *)
(* one after the other and deletes the batch.  Close does not wait for it. *)
(* The queue is the one of SqsFiles.                                       *)
(***************************************************************************)
EXTENDS Integers, FiniteSets

CONSTANTS
  Messages,   \* each is sent once
  MaxBatch,   \* MaxNumberOfMessages
  Confs       \* which calls may fail, as for SqsFiles

VARIABLES
  conf,       \* never changed
  queue,      \* per message: "unsent", "visible", "inflight" or "deleted"
  receiver,   \* where receiveEvents is; "ended" and "failed" when it has returned
  batch,      \* result.Messages
  todo,       \* messages of the batch not yet shipped
  new,        \* where NewSQSAdapter is: "sleep", "done" or "error"
  isStop,
  clientClosed,
  shipped     \* history: messages shipped

queueVars == <<conf, queue>>
vars == <<queueVars, receiver, batch, todo, new, isStop, clientClosed, shipped>>

Init ==
  /\ conf \in Confs
  /\ queue = [m \in Messages |-> "unsent"]
  /\ receiver = "top" /\ batch = {} /\ todo = {}
  /\ new = "sleep" /\ isStop = FALSE /\ clientClosed = FALSE
  /\ shipped = {}

-----------------------------------------------------------------------------
SendMessage(m) ==
  /\ queue[m] = "unsent"
  /\ queue' = [queue EXCEPT ![m] = "visible"]
  /\ UNCHANGED <<conf, receiver, batch, todo, new, isStop, clientClosed, shipped>>

VisibilityTimeout(m) ==
  /\ queue[m] = "inflight"
  /\ queue' = [queue EXCEPT ![m] = "visible"]
  /\ UNCHANGED <<conf, receiver, batch, todo, new, isStop, clientClosed, shipped>>

Visible == {m \in Messages : queue[m] = "visible"}
Batches == {B \in SUBSET Visible : Cardinality(B) <= MaxBatch /\ (B = {} => Visible = {})}
Moved(B, state) == [m \in Messages |-> IF m \in B THEN state ELSE queue[m]]

-----------------------------------------------------------------------------
ReceiveTop ==
  /\ receiver = "top"
  /\ receiver' = IF isStop THEN "ended" ELSE "receive"
  /\ UNCHANGED <<queueVars, batch, todo, new, isStop, clientClosed, shipped>>

ReceiveMessage ==
  /\ receiver = "receive"
  /\ \E B \in Batches :
       /\ batch' = B /\ todo' = B
       /\ queue' = Moved(B, "inflight")
       /\ receiver' = IF B = {} THEN "top" ELSE "message"
  /\ UNCHANGED <<conf, new, isStop, clientClosed, shipped>>

ReceiveMessageFails ==
  /\ receiver = "receive" /\ conf.ReceiveFails
  /\ receiver' = "failed"
  /\ UNCHANGED <<queueVars, batch, todo, new, isStop, clientClosed, shipped>>

\* Mutant: a Ship that fails is only reported.
ShipFailsOn == receiver

ShipFailsTo == "failed"

\* processEvent; an error ends receiveEvents before the batch is deleted.
Ship(m) ==
  /\ receiver = "message" /\ m \in todo
  /\ todo' = todo \ {m}
  /\ \/ ~clientClosed /\ shipped' = shipped \union {m} /\ UNCHANGED receiver
     \/ (clientClosed \/ conf.ShipFails) /\ receiver' = ShipFailsTo /\ UNCHANGED shipped
  /\ UNCHANGED <<queueVars, batch, new, isStop, clientClosed>>

DeleteMessageBatch ==
  /\ receiver = "message" /\ todo = {}
  /\ queue' = Moved(batch, "deleted")
  /\ receiver' = "top" /\ batch' = {}
  /\ UNCHANGED <<conf, todo, new, isStop, clientClosed, shipped>>

\* The call fails, or for some of the messages only.
DeleteFails ==
  /\ receiver = "message" /\ todo = {} /\ conf.DeleteFails
  /\ \E D \in SUBSET batch : D # batch /\ queue' = Moved(D, "deleted")
  /\ receiver' = "failed"
  /\ UNCHANGED <<conf, batch, todo, new, isStop, clientClosed, shipped>>

-----------------------------------------------------------------------------
\* NewSQSAdapter, two seconds after the start.
NewReturns ==
  /\ new = "sleep"
  /\ new' = IF receiver = "failed" THEN "error" ELSE "done"
  /\ clientClosed' = (receiver = "failed")
  /\ UNCHANGED <<queueVars, receiver, batch, todo, isStop, shipped>>

Close ==
  /\ new = "done" /\ ~isStop
  /\ isStop' = TRUE
  /\ UNCHANGED <<queueVars, receiver, batch, todo, new, clientClosed, shipped>>

CloseClient ==
  /\ isStop /\ ~clientClosed
  /\ clientClosed' = TRUE
  /\ UNCHANGED <<queueVars, receiver, batch, todo, new, isStop, shipped>>

Stopped == receiver \in {"ended", "failed"} /\ UNCHANGED vars

Receiver ==
  \/ ReceiveTop \/ ReceiveMessage \/ ReceiveMessageFails \/ DeleteMessageBatch \/ DeleteFails
  \/ \E m \in Messages : Ship(m)

Next ==
  \/ \E m \in Messages : SendMessage(m) \/ VisibilityTimeout(m)
  \/ Receiver \/ NewReturns \/ Close \/ CloseClient \/ Stopped

\* The goroutine is scheduled and its calls return.
Fairness == WF_vars(Receiver) /\ WF_vars(NewReturns) /\ WF_vars(CloseClient)

Spec == Init /\ [][Next]_vars
FairSpec == Spec /\ Fairness

-----------------------------------------------------------------------------
\* Type correctness.
TypeOK ==
  /\ conf \in Confs
  /\ queue \in [Messages -> {"unsent", "visible", "inflight", "deleted"}]
  /\ receiver \in {"top", "receive", "message", "ended", "failed"}
  /\ todo \subseteq batch /\ batch \subseteq Messages /\ Cardinality(batch) <= MaxBatch
  /\ new \in {"sleep", "done", "error"}
  /\ {isStop, clientClosed} \subseteq BOOLEAN
  /\ shipped \subseteq Messages

\* No message is lost: it is deleted only after it was shipped, although Close pulls
\* the client from under the receiver and messages are delivered more than once.
DeletedWasShipped == \A m \in Messages : queue[m] = "deleted" => m \in shipped

Ended == receiver \in {"ended", "failed"}

\* The receiver ends after Close, with or without an error.
ReceiverEnds == isStop ~> Ended

AllShipped ==
  (\A f \in DOMAIN conf : ~conf[f]) => isStop \/ {m \in Messages : queue[m] # "unsent"} \subseteq shipped

\* Unless a call fails or the adapter is closed, every message that was sent is shipped.
EveryMessageShipped == []<>AllShipped
=============================================================================
