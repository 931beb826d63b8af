----------------------- MODULE EventDispatcher_proofs -----------------------
(***************************************************************************)
(* The safety properties of EventDispatcher for any set of connections and *)
(* any number of events, and that the threads of the service use it as it  *)
(* says, so that they hold for any pool, any requests and any clients.     *)
(***************************************************************************)
EXTENDS ServiceThreads, TLAPS

\* send_event() leaves cid_, message_ and id_ in step, so that no number that
\* wait_event() takes is ever the current one.
CountInv == cid_ = id_ - 1 /\ message_ = cid_

\* Exactly the writing waiter keeps the mutex, and the event it waited for stays
\* the current one under it.
WriterInv ==
  /\ \A c \in Conns : pc[c] = "writing" => m_ = c /\ id[c] = cid_
  /\ m_ # NoConn => pc[m_] = "writing"

\* What a client has been sent lies before what its waiter waits for.
InWait(c) == pc[c] \in {"sleeping", "notified", "writing"}

OrderInv ==
  \A c \in Conns :
    delivered[c] # <<>> =>
      /\ Last(delivered[c]) < id_
      /\ InWait(c) => Last(delivered[c]) < id[c]

IndInv == TypeOK /\ CountInv /\ WriterInv /\ NoLostWakeup /\ OrderInv

\* Appending puts the message last and makes the sequence longer.
LEMMA AppendLast ==
  ASSUME NEW s \in Seq(Nat), NEW e \in Nat
  PROVE  /\ Append(s, e) \in Seq(Nat) /\ Append(s, e) # <<>>
         /\ Last(Append(s, e)) = e
         /\ Len(Append(s, e)) = Len(s) + 1
BY DEF Last

\* No client is connected at first.
LEMMA InitIndInv == Init => IndInv
BY ConnAssumption DEF Init, IndInv, TypeOK, States, CountInv, WriterInv, NoLostWakeup, OrderInv

\* The connection of a client, and wake-ups without an event, change neither
\* the event nor the numbers; a closed connection starts again with nothing.
LEMMA ClientStep ==
  ASSUME IndInv, NEW c \in Conns,
         connect(c) \/ disconnect(c) \/ stall(c) \/ endProvider(c) \/ spuriousWakeup(c)
  PROVE  IndInv'
<1> USE DEF IndInv
<1>1. CASE connect(c)
  BY <1>1, ConnAssumption DEF connect, TypeOK, States, CountInv, WriterInv, NoLostWakeup, OrderInv, InWait
<1>2. CASE disconnect(c)
  BY <1>2 DEF disconnect, TypeOK, States, CountInv, WriterInv, NoLostWakeup, OrderInv, InWait
<1>3. CASE stall(c)
  BY <1>3 DEF stall, TypeOK, States, CountInv, WriterInv, NoLostWakeup, OrderInv, InWait
<1>4. CASE endProvider(c)
  BY <1>4, ConnAssumption DEF endProvider, TypeOK, States, CountInv, WriterInv, NoLostWakeup, OrderInv, InWait
<1>5. CASE spuriousWakeup(c)
  BY <1>5, ConnAssumption DEF spuriousWakeup, TypeOK, States, CountInv, WriterInv, NoLostWakeup, OrderInv, InWait
<1> QED
  BY <1>1, <1>2, <1>3, <1>4, <1>5

\* wait_event() takes a number that is not current, and always sleeps.
LEMMA WaitStep ==
  ASSUME IndInv, NEW c \in Conns, wait_event(c)
  PROVE  IndInv'
<1> USE DEF IndInv
<1>1. cid_ # id_
  BY DEF TypeOK, CountInv
<1>2. /\ id' = [id EXCEPT ![c] = id_]
      /\ pc' = [pc EXCEPT ![c] = "sleeping"]
      /\ UNCHANGED <<id_, cid_, message_, m_, open, stalled, delivered>>
  BY <1>1 DEF wait_event
<1>3. m_ = NoConn
  BY DEF wait_event
<1>4. TypeOK' /\ CountInv'
  BY <1>2 DEF TypeOK, States, CountInv
<1>5. WriterInv'
  BY <1>2, <1>3 DEF TypeOK, WriterInv
<1>6. NoLostWakeup'
  BY <1>1, <1>2 DEF TypeOK, NoLostWakeup
<1>7. OrderInv'
  BY <1>2 DEF TypeOK, OrderInv, InWait
<1> QED
  BY <1>4, <1>5, <1>6, <1>7

\* A woken waiter writes if its event is current, and otherwise sleeps again.
LEMMA WakeStep ==
  ASSUME IndInv, NEW c \in Conns, wake(c)
  PROVE  IndInv'
<1> USE DEF IndInv
<1>1. TypeOK' /\ CountInv'
  BY DEF wake, TypeOK, States, CountInv
<1>2. WriterInv'
  <2>1. CASE Current(c)
    BY <2>1, ConnAssumption DEF wake, Current, TypeOK, WriterInv
  <2>2. CASE ~Current(c)
    BY <2>2, ConnAssumption DEF wake, TypeOK, WriterInv
  <2> QED
    BY <2>1, <2>2
<1>3. NoLostWakeup'
  BY DEF wake, Current, TypeOK, NoLostWakeup
<1>4. OrderInv'
  BY DEF wake, TypeOK, OrderInv, InWait
<1> QED
  BY <1>1, <1>2, <1>3, <1>4

\* The number of the event that is written is the one the waiter waited for.
LEMMA WritesItsEvent ==
  ASSUME IndInv, NEW c \in Conns, pc[c] = "writing"
  PROVE  message_ = id[c] /\ message_ \in Nat /\ message_ < id_
BY DEF IndInv, TypeOK, CountInv, WriterInv

\* write() sends a message with a higher number than the last, or nothing, and
\* gives the mutex back.
LEMMA WriteStep ==
  ASSUME IndInv, NEW c \in Conns, write(c)
  PROVE  IndInv'
<1> USE DEF IndInv
<1>1. message_ = id[c] /\ message_ \in Nat /\ message_ < id_
  BY WritesItsEvent DEF write
<1>2. /\ m_ = c /\ m_' = NoConn
      /\ id' = [id EXCEPT ![c] = 0]
      /\ pc' = [pc EXCEPT ![c] = "provider"]
      /\ UNCHANGED <<id_, cid_, message_>>
  BY DEF write, WriterInv
<1>3. /\ delivered' \in {delivered, [delivered EXCEPT ![c] = Append(@, message_)]}
      /\ open' \in {open, [open EXCEPT ![c] = FALSE]}
      /\ stalled' = [stalled EXCEPT ![c] = @ /\ open'[c]]
  BY DEF write
<1>4. /\ Append(delivered[c], message_) \in Seq(Nat)
      /\ Last(Append(delivered[c], message_)) = message_
  BY <1>1, AppendLast DEF TypeOK
<1>5. TypeOK'
  <2>1. open' \in [Conns -> BOOLEAN]
    BY <1>3 DEF TypeOK
  <2>2. stalled' \in [Conns -> BOOLEAN]
    BY <1>3, Zenon DEF TypeOK
  <2>3. delivered' \in [Conns -> Seq(Nat)]
    BY <1>3, <1>4 DEF TypeOK
  <2> QED
    BY <1>2, <2>1, <2>2, <2>3 DEF TypeOK, States
<1>6. CountInv'
  BY <1>2 DEF CountInv
<1>7. WriterInv'
  BY <1>2, ConnAssumption DEF TypeOK, WriterInv
<1>8. NoLostWakeup'
  BY <1>2 DEF TypeOK, NoLostWakeup
<1>9. OrderInv'
  BY <1>1, <1>2, <1>3, <1>4 DEF TypeOK, OrderInv, InWait
<1> QED
  BY <1>5, <1>6, <1>7, <1>8, <1>9

\* send_event() needs the mutex, so nobody is writing, and leaves nobody asleep.
LEMMA SendStep ==
  ASSUME IndInv, send_event
  PROVE  IndInv'
<1> USE DEF IndInv
<1>1. \A c \in Conns : pc[c] # "writing" /\ pc'[c] \notin {"writing", "sleeping"}
  BY ConnAssumption DEF send_event, TypeOK, States, WriterInv
<1>2. TypeOK'
  BY DEF send_event, TypeOK, States
<1>3. CountInv'
  BY DEF send_event, TypeOK, CountInv
<1>4. WriterInv'
  BY <1>1 DEF send_event, WriterInv
<1>5. NoLostWakeup'
  BY <1>1 DEF NoLostWakeup
<1>6. OrderInv'
  <2> SUFFICES ASSUME NEW c \in Conns, delivered'[c] # <<>>
               PROVE  /\ Last(delivered'[c]) < id_'
                      /\ InWait(c)' => Last(delivered'[c]) < id'[c]
    BY DEF OrderInv
  <2>1. delivered'[c] = delivered[c] /\ id'[c] = id[c] /\ id_' = id_ + 1
    BY DEF send_event
  <2>2. InWait(c)' => InWait(c)
    BY <1>1 DEF send_event, TypeOK, InWait
  <2>3. Last(delivered[c]) < id_ /\ (InWait(c) => Last(delivered[c]) < id[c])
    BY <2>1 DEF OrderInv
  <2>4. Last(delivered[c]) < id_ + 1
    <3>1. Last(delivered[c]) \in Nat
      BY <2>1 DEF TypeOK, Last
    <3> QED
      BY <2>3, <3>1 DEF TypeOK
  <2> QED
    BY <2>1, <2>2, <2>3, <2>4
<1> QED
  BY <1>2, <1>3, <1>4, <1>5, <1>6

\* Every step of the clients, the waiters and the senders keeps the invariant.
LEMMA NextIndInv == IndInv /\ [Next]_vars => IndInv'
<1> SUFFICES ASSUME IndInv, [Next]_vars PROVE IndInv'
  OBVIOUS
<1>1. CASE send_event
  BY <1>1, SendStep
<1>2. ASSUME NEW c \in Conns,
             connect(c) \/ disconnect(c) \/ stall(c) \/ endProvider(c) \/ spuriousWakeup(c)
      PROVE  IndInv'
  BY <1>2, ClientStep
<1>3. ASSUME NEW c \in Conns, wait_event(c) PROVE IndInv'
  BY <1>3, WaitStep
<1>4. ASSUME NEW c \in Conns, wake(c) PROVE IndInv'
  BY <1>4, WakeStep
<1>5. ASSUME NEW c \in Conns, write(c) PROVE IndInv'
  BY <1>5, WriteStep
<1>6. CASE UNCHANGED vars
  BY <1>6 DEF vars, IndInv, TypeOK, CountInv, WriterInv, NoLostWakeup, OrderInv, InWait
<1> QED
  BY <1>1, <1>2, <1>3, <1>4, <1>5, <1>6 DEF Next, Waiter

\* The invariant holds in every behaviour of the dispatcher.
LEMMA IndInvAlways == Spec => []IndInv
<1>1. Init => IndInv
  BY InitIndInv
<1>2. IndInv /\ [Next]_vars => IndInv'
  BY NextIndInv
<1> QED
  BY <1>1, <1>2, PTL DEF Spec

\* The types of the dispatcher's and the connections' state, messages and
\* numbers that are written to clients included.
THEOREM TypeOKAlways == Spec => []TypeOK
<1>1. IndInv => TypeOK
  BY DEF IndInv
<1> QED
  BY <1>1, IndInvAlways, PTL

\* Server.h:27: what sink->write() sends is the event its waiter waited for.
THEOREM FreshDeliveryAlways == Spec => []FreshDelivery
<1>1. IndInv => FreshDelivery
  BY DEF IndInv, CountInv, WriterInv, FreshDelivery
<1> QED
  BY <1>1, IndInvAlways, PTL

\* Server.h:24: no waiter sleeps while the event it waits for is current.
THEOREM NoLostWakeupAlways == Spec => []NoLostWakeup
<1>1. IndInv => NoLostWakeup
  BY DEF IndInv
<1> QED
  BY <1>1, IndInvAlways, PTL

\* A step that writes to a client writes an event with a higher number.
LEMMA WritesInOrder ==
  ASSUME IndInv, [Next]_vars, NEW c \in Conns,
         Len(delivered'[c]) > Len(delivered[c]), delivered[c] # <<>>
  PROVE  Last(delivered'[c]) > Last(delivered[c])
<1>1. delivered'[c] # delivered[c]
  BY DEF IndInv, TypeOK
<1>2. Len(delivered[c]) \in Nat /\ delivered[c] \in Seq(Nat)
  BY DEF IndInv, TypeOK
<1>3. ASSUME NEW d \in Conns, endProvider(d) PROVE FALSE
  <2>1. delivered'[c] = <<>>
    BY <1>1, <1>3 DEF endProvider, IndInv, TypeOK
  <2> QED
    BY <2>1, <1>2
<1>4. ASSUME NEW d \in Conns, write(d)
      PROVE  Last(delivered'[c]) > Last(delivered[c])
  <2>1. d = c /\ delivered'[c] = Append(delivered[c], message_)
    BY <1>1, <1>4 DEF write, IndInv, TypeOK
  <2>2. pc[c] = "writing" /\ message_ = id[c] /\ message_ \in Nat
    BY <1>4, <2>1, WritesItsEvent DEF write
  <2>3. Last(delivered'[c]) = id[c]
    BY <1>2, <2>1, <2>2, AppendLast
  <2>4. Last(delivered[c]) < id[c] /\ Last(delivered[c]) \in Nat
    BY <1>2, <2>2 DEF IndInv, OrderInv, InWait, Last
  <2> QED
    BY <2>2, <2>3, <2>4
<1> QED
  BY <1>1, <1>3, <1>4 DEF Next, Waiter, vars, send_event, connect, disconnect, stall,
       spuriousWakeup, wait_event, wake

\* Clients see the events in the order in which send_event() was called.
THEOREM DeliveredInOrderAlways == Spec => DeliveredInOrder
<1> DEFINE Step ==
      \A c \in Conns :
        (Len(delivered'[c]) > Len(delivered[c]) /\ delivered[c] # <<>>) =>
          Last(delivered'[c]) > Last(delivered[c])
<1>1. IndInv /\ [Next]_vars => [Step]_vars
  BY WritesInOrder
<1> QED
  BY <1>1, IndInvAlways, PTL DEF Spec, DeliveredInOrder

-----------------------------------------------------------------------------
(* The threads of the service *)

\* Connections are taken from the pool's queue, events sent by the signal
\* thread and by the REPL's listener; nothing else touches the dispatcher.
LEMMA ServiceStep == [ServiceNext]_allVars => [Next]_vars
<1> SUFFICES ASSUME [ServiceNext]_allVars PROVE [Next]_vars
  OBVIOUS
<1>1. ASSUME NEW c \in Conns, acceptEvents(c) PROVE UNCHANGED vars
  BY <1>1 DEF acceptEvents
<1>2. ASSUME NEW c \in Conns, takeEvents(c) PROVE Next
  BY <1>2 DEF takeEvents, Next
<1>3. ASSUME NEW c \in Conns, DispatcherStep(c) PROVE Next
  BY <1>3 DEF DispatcherStep, Next, Waiter
<1>4. ASSUME NEW r \in Requests,
             \/ acceptRequest(r) \/ takeRequest(r) \/ answer(r) \/ create(r)
             \/ createReturns(r) \/ reap(r)
      PROVE  UNCHANGED vars
  BY <1>4 DEF acceptRequest, takeRequest, answer, create, createReturns, reap
<1>5. ASSUME NEW r \in Requests, jobFinishedEvent(r) PROVE Next
  BY <1>5 DEF jobFinishedEvent, Next
<1>6. CASE jobFinished
  BY <1>6 DEF jobFinished
<1>7. CASE replEvent
  BY <1>7 DEF replEvent, Next
<1>8. CASE UNCHANGED allVars
  BY <1>8 DEF allVars
<1> QED
  BY <1>1, <1>2, <1>3, <1>4, <1>5, <1>6, <1>7, <1>8 DEF ServiceNext

\* Every behaviour of the service's threads is one of the dispatcher.
THEOREM ServiceImplementsDispatcher == ServiceSpec => Spec
<1>1. ServiceInit => Init
  BY DEF ServiceInit
<1> QED
  BY <1>1, ServiceStep, PTL DEF ServiceSpec, Spec

\* In the service, with its pool of threads and both senders of events, every
\* client gets the events it waits for, in order, and no wake-up is lost.
THEOREM ServiceDelivers ==
  ServiceSpec => [](FreshDelivery /\ NoLostWakeup) /\ DeliveredInOrder
BY ServiceImplementsDispatcher, FreshDeliveryAlways, NoLostWakeupAlways,
   DeliveredInOrderAlways, PTL
=============================================================================
