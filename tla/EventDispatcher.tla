--------------------------- MODULE EventDispatcher --------------------------
(***************************************************************************)
(* The server-sent events of api/Server.h: EventDispatcher and the handler *)
(* of GET /api/events.  Each connected client keeps one HTTP worker thread *)
(* inside the chunked content provider, which calls wait_event() over and  *)
(* over; the signal thread (JobFinishedEvent) and the REPL's pipe listener *)
(* (ReplResponseEvent) call send_event().                                  *)
(*                                                                         *)
(* A waiter takes the number of the next event and sleeps on the condition *)
(* variable; after a wake-up it must get the mutex m_ again before it can  *)
(* look at cid_.  Another event may be sent in between.                    *)
(***************************************************************************)
EXTENDS Integers, Sequences

CONSTANTS
  Conns,      \* connections of clients to /api/events
  NoConn,     \* no waiter is inside the mutex
  MaxEvents   \* bound: events sent

ASSUME ConnAssumption == NoConn \notin Conns
ASSUME EventAssumption == MaxEvents \in Nat

VARIABLES
  id_,        \* EventDispatcher::id_, the number of the next event
  cid_,       \* EventDispatcher::cid_, the number of the last event
  message_,   \* EventDispatcher::message_, as the number of the event it holds
  m_,         \* the waiter that holds the mutex across steps
  pc,         \* where the worker thread of each connection is
  id,         \* local of wait_event(), 0 outside it
  open,       \* the client is still connected
  stalled,    \* the client does not read what it is sent
  delivered   \* history: the events written to each connection while it lasts

vars == <<id_, cid_, message_, m_, pc, id, open, stalled, delivered>>

States == {"provider", "sleeping", "notified", "writing", "ended"}

TypeOK ==
  /\ id_ \in Nat
  /\ cid_ \in Int /\ message_ \in Int
  /\ m_ \in Conns \cup {NoConn}
  /\ pc \in [Conns -> States]
  /\ id \in [Conns -> Nat]
  /\ open \in [Conns -> BOOLEAN] /\ stalled \in [Conns -> BOOLEAN]
  /\ delivered \in [Conns -> Seq(Nat)]

Init ==
  /\ id_ = 0 /\ cid_ = -1 /\ message_ = -1
  /\ m_ = NoConn
  /\ pc = [c \in Conns |-> "ended"]
  /\ id = [c \in Conns |-> 0]
  /\ open = [c \in Conns |-> FALSE]
  /\ stalled = [c \in Conns |-> FALSE]
  /\ delivered = [c \in Conns |-> <<>>]

-----------------------------------------------------------------------------
(* The client and httplib *)

\* GET /api/events: a worker thread enters the content provider.
connect(c) ==
  /\ pc[c] = "ended"
  /\ pc' = [pc EXCEPT ![c] = "provider"]
  /\ open' = [open EXCEPT ![c] = TRUE]
  /\ UNCHANGED <<id_, cid_, message_, m_, id, stalled, delivered>>

\* The client goes away; the worker thread does not notice before it writes.
disconnect(c) ==
  /\ open[c]
  /\ open' = [open EXCEPT ![c] = FALSE]
  /\ stalled' = [stalled EXCEPT ![c] = FALSE]
  /\ UNCHANGED <<id_, cid_, message_, m_, pc, id, delivered>>

\* The client stops reading, or reads again; the buffers of its connection are
\* full in between.
stall(c) ==
  /\ open[c]
  /\ stalled' = [stalled EXCEPT ![c] = ~@]
  /\ UNCHANGED <<id_, cid_, message_, m_, pc, id, open, delivered>>

\* httplib leaves its loop once the stream of the connection is broken.
endProvider(c) ==
  /\ pc[c] = "provider" /\ ~open[c]
  /\ pc' = [pc EXCEPT ![c] = "ended"]
  /\ delivered' = [delivered EXCEPT ![c] = <<>>]
  /\ UNCHANGED <<id_, cid_, message_, m_, id, open, stalled>>

-----------------------------------------------------------------------------
(* wait_event() *)

\* Mutant: the waiter takes the number of the last event.
wait_event_LastId(c) ==
  /\ pc[c] = "provider" /\ m_ = NoConn
  /\ id' = [id EXCEPT ![c] = cid_]
  /\ pc' = [pc EXCEPT ![c] = "writing"] /\ m_' = c
  /\ UNCHANGED <<id_, cid_, message_, open, stalled, delivered>>

\* Lock, id = id_, and the first test of the predicate.
wait_event(c) ==
  /\ pc[c] = "provider" /\ m_ = NoConn
  /\ id' = [id EXCEPT ![c] = id_]
  /\ IF cid_ = id_
     THEN pc' = [pc EXCEPT ![c] = "writing"] /\ m_' = c
     ELSE pc' = [pc EXCEPT ![c] = "sleeping"] /\ UNCHANGED m_
  /\ UNCHANGED <<id_, cid_, message_, open, stalled, delivered>>

\* cv_.wait() may return without a notification.
spuriousWakeup(c) ==
  /\ pc[c] = "sleeping"
  /\ pc' = [pc EXCEPT ![c] = "notified"]
  /\ UNCHANGED <<id_, cid_, message_, m_, id, open, stalled, delivered>>

\* Mutant: the predicate accepts any event sent since.
Current_OrLater(c) == cid_ >= id[c]

\* The predicate of cv_.wait().
Current(c) == cid_ = id[c]

\* The woken waiter has the mutex: the predicate decides between writing and
\* going back to sleep.
wake(c) ==
  /\ pc[c] = "notified" /\ m_ = NoConn
  /\ IF Current(c)
     THEN pc' = [pc EXCEPT ![c] = "writing"] /\ m_' = c
     ELSE pc' = [pc EXCEPT ![c] = "sleeping"] /\ UNCHANGED m_
  /\ UNCHANGED <<id_, cid_, message_, id, open, stalled, delivered>>

\* Mutant: the connection has no time limit, a write to a client that does not
\* read never returns.
write_NoTimeLimit(c) ==
  /\ pc[c] = "writing" /\ ~stalled[c]
  /\ delivered' = IF open[c] THEN [delivered EXCEPT ![c] = Append(@, message_)]
                  ELSE delivered
  /\ m_' = NoConn
  /\ id' = [id EXCEPT ![c] = 0]
  /\ pc' = [pc EXCEPT ![c] = "provider"]
  /\ UNCHANGED <<id_, cid_, message_, open, stalled>>

\* sink->write(), if the sink is writable; the mutex is held until it returns.
\* To a client that does not read, httplib gives up after its time limit:
\* is_writable() is false and the event is skipped, or write() fails and the
\* stream is broken.
write(c) ==
  /\ pc[c] = "writing"
  /\ IF open[c] /\ ~stalled[c]
     THEN delivered' = [delivered EXCEPT ![c] = Append(@, message_)] /\ UNCHANGED open
     ELSE /\ open' \in {open, [open EXCEPT ![c] = FALSE]}
          /\ UNCHANGED delivered
  /\ stalled' = [stalled EXCEPT ![c] = @ /\ open'[c]]
  /\ m_' = NoConn
  /\ id' = [id EXCEPT ![c] = 0]
  /\ pc' = [pc EXCEPT ![c] = "provider"]
  /\ UNCHANGED <<id_, cid_, message_>>

-----------------------------------------------------------------------------
(* send_event() *)

\* Mutant: notify_one() instead of notify_all().
send_event_NotifyOne ==
  /\ m_ = NoConn
  /\ id_ < MaxEvents
  /\ message_' = id_
  /\ cid_' = id_
  /\ id_' = id_ + 1
  /\ \/ \E c \in Conns : pc[c] = "sleeping" /\ pc' = [pc EXCEPT ![c] = "notified"]
     \/ (\A c \in Conns : pc[c] # "sleeping") /\ UNCHANGED pc
  /\ UNCHANGED <<m_, id, open, stalled, delivered>>

\* Mutant: cid_ = ++id_.
send_event_PreIncrement ==
  /\ m_ = NoConn
  /\ id_ < MaxEvents
  /\ message_' = id_
  /\ id_' = id_ + 1
  /\ cid_' = id_ + 1
  /\ pc' = [c \in Conns |-> IF pc[c] = "sleeping" THEN "notified" ELSE pc[c]]
  /\ UNCHANGED <<m_, id, open, stalled, delivered>>

\* Lock, message_, cid_ = id_++, notify_all.
send_event ==
  /\ m_ = NoConn
  /\ id_ < MaxEvents
  /\ message_' = id_
  /\ cid_' = id_
  /\ id_' = id_ + 1
  /\ pc' = [c \in Conns |-> IF pc[c] = "sleeping" THEN "notified" ELSE pc[c]]
  /\ UNCHANGED <<m_, id, open, stalled, delivered>>

-----------------------------------------------------------------------------
Waiter(c) == wait_event(c) \/ wake(c) \/ write(c)

Next ==
  \/ send_event
  \/ \E c \in Conns : \/ connect(c) \/ disconnect(c) \/ stall(c)
                      \/ endProvider(c) \/ spuriousWakeup(c) \/ Waiter(c)

Spec == Init /\ [][Next]_vars

\* A worker thread that can go on does so, and write() returns: httplib gives a
\* connection CPPHTTPLIB_WRITE_TIMEOUT_SECOND seconds to take what it is sent.
Fairness == \A c \in Conns : WF_vars(wait_event(c)) /\ WF_vars(wake(c)) /\ WF_vars(write(c))

FairSpec == Spec /\ Fairness

-----------------------------------------------------------------------------
(* Properties *)

Last(s) == s[Len(s)]

\* What is written to a connection is the event the waiter was waiting for:
\* message_ cannot change between the predicate and sink->write().
FreshDelivery ==
  \A c \in Conns : pc[c] = "writing" => message_ = id[c] /\ m_ = c

\* A client sees the events in the order they were sent and none twice, with
\* any number of waiters, wake-ups and events in between.
DeliveredInOrder ==
  [][\A c \in Conns :
       (Len(delivered'[c]) > Len(delivered[c]) /\ delivered[c] # <<>>) =>
         Last(delivered'[c]) > Last(delivered[c])]_vars

\* No wake-up is lost: no waiter sleeps while the event it waits for is the
\* current one.
NoLostWakeup ==
  \A c \in Conns : pc[c] = "sleeping" => cid_ # id[c]

\* A waiter that was overtaken sleeps or is about to: the number it waits for
\* will never be current again.
Overtaken(c) == pc[c] \in {"sleeping", "notified"} /\ id[c] + 1 < id_

Served(c, e) == \E i \in 1 .. Len(delivered[c]) : delivered[c][i] = e

\* A client that waits for event e and reads its connection gets the event once
\* it is sent, unless the next one is sent before its thread has the mutex.
ServedUnlessOvertaken ==
  \A c \in Conns : \A e \in 0 .. MaxEvents - 1 :
    (pc[c] \in {"sleeping", "notified"} /\ id[c] = e /\ e < id_) ~>
      (Served(c, e) \/ ~open[c] \/ stalled[c]
         \/ Overtaken(c) \/ pc[c] = "ended")
=============================================================================
