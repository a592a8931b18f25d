------------------------------- MODULE EngineQueue -------------------------------
(* The worker the ballistics engine runs on (modules/ballistics-engine.js,  *)
(* page side and worker side): requests wait for the engine's constants,    *)
(* are posted in order, each after the data it is about when the worker has *)
(* other data, and can be cancelled; the one at work is stopped with its    *)
(* worker and the others handed to a new one.                               *)
EXTENDS Integers, FiniteSets, Subsequences

CONSTANTS MaxRequests, MaxData      \* bounds: requests, loads of the data

ASSUME EngineQueueConstants == MaxRequests \in Nat /\ MaxData \in Nat \ {0}

VARIABLES
  eqData,           \* _engineData: which load of the data the page has
  eqConstants,      \* "none", "loading" or "here"
  eqOf,             \* the requests made: the data each is about
  eqWaiting,        \* those that wait for the constants
  eqAborted,        \* those whose signal was aborted while they did
  eqPending,        \* pending, in order
  eqHanded,         \* workerData: what the worker was handed last, 0 for none
  eqInbox, eqContext,       \* the worker: its messages and the data it has
  eqOutbox,         \* replies on their way to the page
  eqAnswers         \* the answers each request got

eqVars == <<eqData, eqConstants, eqOf, eqWaiting, eqAborted, eqPending, eqHanded, eqInbox,
            eqContext, eqOutbox, eqAnswers>>
eqWorker == <<eqPending, eqHanded, eqInbox, eqContext, eqOutbox>>

EngineQueueInit ==
  /\ eqData = 1 /\ eqConstants = "none" /\ eqOf = <<>> /\ eqWaiting = {} /\ eqAborted = {}
  /\ eqPending = <<>> /\ eqHanded = 0 /\ eqInbox = <<>> /\ eqContext = 0 /\ eqOutbox = <<>>
  /\ eqAnswers = <<>>

Requests == DOMAIN eqOf
Answered(ids, what) == [id \in DOMAIN eqAnswers |->
                          IF id \in ids THEN Append(eqAnswers[id], what) ELSE eqAnswers[id]]
LeftOf(seq, gone) == ElementsAt(seq, {i \in DOMAIN seq : seq[i] # gone})

(* post: the data first when the worker has other data, then the request.   *)
Posts(ids, handed) ==
  LET Of(i) == eqOf'[ids[i]]
      Has(i) == IF i = 1 THEN handed ELSE Of(i - 1)
      request(i) == [kind |-> "request", id |-> ids[i]]
  IN FlattenSeq([i \in DOMAIN ids |->
       IF Of(i) = Has(i) THEN <<request(i)>>
       ELSE <<[kind |-> "data", data |-> Of(i)], request(i)>>])
HandedAfter(ids, handed) == IF ids = <<>> THEN handed ELSE eqOf'[ids[Len(ids)]]

(* request: a caller asks; the constants are fetched once, by the first.    *)
Request ==
  /\ Len(eqOf) < MaxRequests /\ eqOf' = Append(eqOf, eqData)
  /\ eqAnswers' = Append(eqAnswers, <<>>)
  /\ UNCHANGED <<eqData, eqAborted, eqContext, eqOutbox>>
  /\ IF eqConstants = "here"
     THEN /\ eqPending' = Append(eqPending, Len(eqOf'))
          /\ eqInbox' = eqInbox \o Posts(<<Len(eqOf')>>, eqHanded) /\ eqHanded' = eqData
          /\ UNCHANGED <<eqWaiting, eqConstants>>
     ELSE /\ eqWaiting' = eqWaiting \cup {Len(eqOf')} /\ eqConstants' = "loading"
          /\ UNCHANGED <<eqPending, eqInbox, eqHanded>>

(* The constants are in: the requests go out in their order, but the        *)
(* aborted ones.                                                            *)
ConstantsLoad ==
  /\ eqConstants = "loading" /\ eqConstants' = "here"
  /\ eqWaiting' = {} /\ eqAborted' = {}
  /\ eqAnswers' = Answered(eqAborted, [kind |-> "cancelled"])
  /\ UNCHANGED <<eqData, eqOf, eqContext, eqOutbox>>
  /\ LET posted == ElementsAt([i \in DOMAIN eqOf |-> i], eqWaiting \ eqAborted)
     IN /\ eqPending' = eqPending \o posted /\ eqInbox' = eqInbox \o Posts(posted, eqHanded)
        /\ eqHanded' = HandedAfter(posted, eqHanded)

ConstantsFail ==
  /\ eqConstants = "loading" /\ eqConstants' = "none"
  /\ eqWaiting' = {} /\ eqAborted' = {} /\ eqAnswers' = Answered(eqWaiting, [kind |-> "failed"])
  /\ UNCHANGED <<eqData, eqOf>> /\ UNCHANGED eqWorker

(* The caller's signal, before the request was posted or after: cancel.     *)
AbortWaiting(id) == /\ id \in eqWaiting /\ eqAborted' = eqAborted \cup {id}
                    /\ UNCHANGED <<eqData, eqConstants, eqOf, eqWaiting, eqAnswers>>
                    /\ UNCHANGED eqWorker

IsPending(id) == \E i \in DOMAIN eqPending : eqPending[i] = id

(* Mutant: the new worker is taken to have the data of the stopped one.    *)
CancelKeepsData(id, late) ==
  /\ IsPending(id) /\ eqAnswers' = Answered({id}, [kind |-> "cancelled"])
  /\ eqPending' = LeftOf(eqPending, id)
  /\ UNCHANGED <<eqData, eqConstants, eqOf, eqWaiting, eqAborted>>
  /\ IF Head(eqPending) = id
     THEN /\ eqInbox' = Posts(eqPending', eqHanded)
          /\ eqHanded' = HandedAfter(eqPending', eqHanded)
          /\ eqContext' = 0 /\ eqOutbox' = IF late THEN eqOutbox ELSE <<>>
     ELSE UNCHANGED <<eqHanded, eqInbox, eqContext, eqOutbox>>

Cancel(id, late) ==
  /\ IsPending(id) /\ eqAnswers' = Answered({id}, [kind |-> "cancelled"])
  /\ eqPending' = LeftOf(eqPending, id)
  /\ UNCHANGED <<eqData, eqConstants, eqOf, eqWaiting, eqAborted>>
  /\ IF Head(eqPending) = id
     THEN \* a new worker; what the old one has sent may still be on its way
          /\ eqInbox' = Posts(eqPending', 0) /\ eqHanded' = HandedAfter(eqPending', 0)
          /\ eqContext' = 0 /\ eqOutbox' = IF late THEN eqOutbox ELSE <<>>
     ELSE UNCHANGED <<eqHanded, eqInbox, eqContext, eqOutbox>>

(* The worker: one message at a time.                                       *)
WorkerStep ==
  /\ eqInbox # <<>> /\ eqInbox' = Tail(eqInbox)
  /\ LET message == Head(eqInbox)
     IN IF message.kind = "data" THEN eqContext' = message.data /\ UNCHANGED eqOutbox
        ELSE /\ eqOutbox' = Append(eqOutbox, [id |-> message.id, data |-> eqContext])
             /\ UNCHANGED eqContext
  /\ UNCHANGED <<eqData, eqConstants, eqOf, eqWaiting, eqAborted, eqPending, eqHanded,
                 eqAnswers>>

(* onmessage: a reply nobody waits for is left alone.                       *)
ReplyArrives ==
  /\ eqOutbox # <<>> /\ eqOutbox' = Tail(eqOutbox)
  /\ LET reply == Head(eqOutbox)
     IN IF IsPending(reply.id)
        THEN /\ eqAnswers' = Answered({reply.id}, [kind |-> "reply", data |-> reply.data])
             /\ eqPending' = LeftOf(eqPending, reply.id)
        ELSE UNCHANGED <<eqAnswers, eqPending>>
  /\ UNCHANGED <<eqData, eqConstants, eqOf, eqWaiting, eqAborted, eqHanded, eqInbox,
                 eqContext>>

(* onerror: what is out fails, and the next request starts a new worker.    *)
WorkerFails(late) ==
  /\ eqPending # <<>> /\ eqPending' = <<>> /\ eqInbox' = <<>> /\ eqContext' = 0 /\ eqHanded' = 0
  /\ eqOutbox' = IF late THEN eqOutbox ELSE <<>>
  /\ eqAnswers' = Answered({eqPending[i] : i \in DOMAIN eqPending}, [kind |-> "failed"])
  /\ UNCHANGED <<eqData, eqConstants, eqOf, eqWaiting, eqAborted>>

(* The page loads its data again: another object.                           *)
ReloadEngineData == /\ eqData < MaxData /\ eqData' = eqData + 1
                    /\ UNCHANGED <<eqConstants, eqOf, eqWaiting, eqAborted, eqAnswers>>
                    /\ UNCHANGED eqWorker

EngineQueueNext ==
  \/ Request \/ ConstantsLoad \/ ConstantsFail \/ WorkerStep \/ ReplyArrives \/ ReloadEngineData
  \/ \E id \in Requests : AbortWaiting(id) \/ \E late \in BOOLEAN : Cancel(id, late)
  \/ \E late \in BOOLEAN : WorkerFails(late)

-------------------------------------------------------------------------------
OnItsWay(id) == \/ \E i \in DOMAIN eqInbox : eqInbox[i].kind = "request" /\ eqInbox[i].id = id
                \/ \E i \in DOMAIN eqOutbox : eqOutbox[i].id = id

(* A request is answered once, with the data it was made with, or it waits  *)
(* for the constants, or the worker has it: none is lost when the worker is *)
(* stopped under it, and none answered from another load's data.            *)
RequestsAreAnswered ==
  \A id \in Requests :
    /\ Len(eqAnswers[id]) <= 1
    /\ \/ eqAnswers[id] # <<>> \/ id \in eqWaiting
       \/ IsPending(id) /\ OnItsWay(id)
    /\ \A i \in DOMAIN eqAnswers[id] :
         eqAnswers[id][i].kind = "reply" => eqAnswers[id][i].data = eqOf[id]
===============================================================================
