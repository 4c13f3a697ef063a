-------------------------------- MODULE Bus --------------------------------
(***************************************************************************)
(* source/bus.c: a message bus.  A synchronous bus delivers in the caller; *)
(* an asynchronous one queues messages and changes of subscription under a *)
(* mutex, and a dispatch thread applies and delivers them.  A reliable     *)
(* asynchronous bus allocates messages when its buffer is used up, an      *)
(* unreliable one discards the oldest message that is still queued.        *)
(*                                                                         *)
(* A critical section is one step; the notification that follows it is     *)
(* another one.  Only the dispatch thread touches the slots table of an    *)
(* asynchronous bus, so that delivering one message is one step, and a     *)
(* listener that sends or subscribes acts as a client at that moment.      *)
(*                                                                         *)
(* On a synchronous bus every call of a listener is a step: the listener   *)
(* may send, subscribe and unsubscribe before it returns, and a message it *)
(* sends is delivered first.  calls is the stack of the sends that have    *)
(* not returned.                                                           *)
(***************************************************************************)
EXTENDS Naturals, SequencesExt, FiniteSetsExt

CONSTANTS Client,       \* threads that use the bus
          Owner,        \* the one that destroys it
          MaxSends,     \* bound on accepted messages
          Listener,     \* pairs of a callback and its user_data
          Subscription, \* the addresses and listeners that calls (un)subscribe
          Address,      \* addresses in use, AWS_BUS_ADDRESS_CLOSE (refused) left out
          ALL,          \* AWS_BUS_ADDRESS_ALL
          NoListener,   \* the head of a listener list
          Slots,        \* messages that fit in the bus's buffer
          MaxRequests   \* bound on calls of subscribe and unsubscribe

ASSUME BusAssumption ==
    /\ Owner \in Client
    /\ ALL \in Address
    /\ Subscription \subseteq Address \X Listener
    /\ IsFiniteSet(Address)
    /\ NoListener \notin Listener
    /\ Slots \in Nat
    /\ MaxSends \in Nat
    /\ MaxRequests \in Nat

\* Payloads are numbered in the order in which their messages are accepted.
Payload == 1 .. MaxSends

VARIABLES
    policy,
    slots,          \* slots.table: the listeners of every address
    free,           \* the number of messages in queue.free
    msgs, subs,     \* the two queues
    running,        \* dispatch.running
    pending_msgs, pending_subs, pending_drains,   \* locals of the dispatch thread
    pos,            \* the message of pending_msgs that is delivered next
    pc,             \* where the dispatch thread is
    cpc,            \* where each client is
    calls,          \* synchronous bus: the sends that have not returned, outermost first
    requests,       \* how many (un)subscriptions were accepted
    \* history:
    members,        \* the subscriptions as the calls that returned left them
    accepted,       \* the number of accepted messages
    wanted,         \* for each of them, its subscribers when it was sent
    touched,        \* ... and those who subscribed or unsubscribed while it was queued
    within,         \* ... and the payloads of the sends it was made in
    received,       \* what every listener was called with, in order
    destroyed,      \* how often the destructor of each payload was called
    discarded,      \* the payloads an unreliable bus gave up
    closed          \* how often each listener was called with AWS_BUS_ADDRESS_CLOSE

queueVars == <<free, msgs, subs, running>>
threadVars == <<pending_msgs, pending_subs, pending_drains, pos>>
askVars == <<requests, members, wanted, touched, within, accepted>>
endVars == <<received, destroyed, discarded, closed>>
vars == <<policy, slots, queueVars, threadVars, pc, cpc, calls, askVars, endVars>>

Message == [address : Address, payload : Payload, pooled : BOOLEAN]
Request == [op : {"add", "remove"}, address : Address, listener : Listener]

\* A send of a synchronous bus: it delivers payload to the listeners of ALL and then
\* (last) to those of address, and has called the listeners up to node.
Send == [payload : Payload, address : Address, last : BOOLEAN, node : Listener \cup {NoListener}]

Pooled(s) == Cardinality({i \in DOMAIN s : s[i].pooled})

TypeOK ==
    /\ policy \in {"async_reliable", "async_unreliable", "sync"}
    /\ slots \in [Address -> Seq(Listener)]
    /\ msgs \in Seq(Message) /\ pending_msgs \in Seq(Message)
    /\ subs \in Seq(Request) /\ pending_subs \in Seq(Request)
    /\ running \in BOOLEAN
    /\ pending_drains \in 0 .. 1
    /\ pos \in 1 .. Len(pending_msgs) + 1
    /\ pc \in {"lock", "blocked", "apply", "deliver", "free", "test", "exited", "corrupt"}
    /\ cpc \in [Client -> {"idle", "notify", "closing", "spin", "freed"}]
    /\ calls \in Seq(Send)
    /\ requests \in 0 .. MaxRequests
    /\ members \in SUBSET (Address \X Listener)
    /\ accepted \in 0 .. MaxSends
    /\ free \in 0 .. Slots
    /\ free + Pooled(msgs) + Pooled(pending_msgs) = Slots

\* aws_bus_new, after the dispatch thread has started.
Init ==
    /\ policy \in {"async_reliable", "async_unreliable", "sync"}
    /\ slots = [a \in Address |-> <<>>]
    /\ free = Slots
    /\ msgs = <<>> /\ subs = <<>>
    /\ running = TRUE
    /\ pending_msgs = <<>> /\ pending_subs = <<>>
    /\ pending_drains = 1
    /\ pos = 1
    /\ pc = "lock"
    /\ cpc = [c \in Client |-> "idle"]
    /\ calls = <<>>
    /\ requests = 0
    /\ members = {}
    /\ accepted = 0
    /\ wanted = [p \in Payload |-> {}]
    /\ touched = [p \in Payload |-> {}]
    /\ within = [p \in Payload |-> {}]
    /\ received = [l \in Listener |-> <<>>]
    /\ destroyed = [p \in Payload |-> 0]
    /\ discarded = {}
    /\ closed = [l \in Listener |-> 0]

----------------------------------------------------------------------------
(* Common logic                                                            *)

Async == policy # "sync"

Destroy(p) == destroyed' = [destroyed EXCEPT ![p] = @ + 1]

\* s_bus_subscribe and s_bus_unsubscribe, on the slots table.
s_bus_subscribe(a, l) == [slots EXCEPT ![a] = Append(@, l)]
s_bus_unsubscribe(a, l) == [slots EXCEPT ![a] = RemoveFirst(@, l)]

\* The calls s_bus_deliver_msg makes: the listeners of ALL, then those of a.
Calls(a) == slots[ALL] \o slots[a]

\* Where l stands in the listener lists of the addresses A.
Entries(l, A) == UNION {{a} \X {i \in DOMAIN slots[a] : slots[a][i] = l} : a \in A}

\* Mutant: the table is cleared without calling the listeners of ALL.
CloseAddressed ==
    /\ closed' = [l \in Listener |-> closed[l] + Cardinality(Entries(l, Address \ {ALL}))]
    /\ slots' = [a \in Address |-> <<>>]

s_bus_deliver_msg(a, p) ==
    received' = [l \in Listener |->
        received[l] \o [i \in 1 .. Cardinality({j \in DOMAIN Calls(a) : Calls(a)[j] = l}) |-> p]]

\* s_bus_destroy_listener_list for every slot: each listener is called to close.
CloseAll ==
    /\ closed' = [l \in Listener |-> closed[l] + Cardinality(Entries(l, Address))]
    /\ slots' = [a \in Address |-> <<>>]

\* A payload whose fate is still open.
Open(p) == p <= accepted /\ destroyed[p] = 0

\* The payloads of the sends that have not returned.
InProgress == {calls[i].payload : i \in DOMAIN calls}

\* History of a call that subscribed (add) or unsubscribed l at a.
RecordRequest(op, a, l) ==
    /\ requests' = requests + 1
    /\ members' = IF op = "add" THEN members \cup {<<a, l>>} ELSE members \ {<<a, l>>}
    /\ touched' = [p \in Payload |-> IF Open(p) THEN touched[p] \cup {l} ELSE touched[p]]
    /\ UNCHANGED <<wanted, within, accepted>>

\* History of a send that was accepted.
RecordSend(a, p) ==
    /\ accepted' = p
    /\ wanted' = [wanted EXCEPT ![p] = {l \in Listener : <<a, l>> \in members \/ <<ALL, l>> \in members}]
    /\ within' = [within EXCEPT ![p] = InProgress]
    /\ UNCHANGED <<requests, members, touched>>

----------------------------------------------------------------------------
(* The synchronous bus: one thread, everything happens in the call.        *)

\* The user's code runs, outside of the bus or in a listener.
UserRuns ==
    /\ policy = "sync" /\ cpc[Owner] = "idle"
    /\ calls # <<>> => Last(calls).node # NoListener

\* The listener list a send walks over, and the place after its node.
ListOf(send) == slots[IF send.last THEN send.address ELSE ALL]
Follows(send, i) ==
    IF send.node = NoListener THEN i = 1 ELSE i > 1 /\ ListOf(send)[i - 1] = send.node

\* Some send stands on the node of l in the list of a.
Standing(a, l) ==
    \E i \in DOMAIN calls :
        calls[i].node = l /\ (IF calls[i].last THEN calls[i].address ELSE ALL) = a

\* Unsubscribing the listener that is being called frees the node the loop of
\* s_bus_deliver_msg_to_slot goes on from: callers must not.
s_bus_sync_subscription(op, a, l) ==
    /\ UserRuns
    /\ requests < MaxRequests
    /\ op = "add" => <<a, l>> \notin members
    /\ op = "remove" => ~Standing(a, l)
    /\ slots' = IF op = "add" THEN s_bus_subscribe(a, l) ELSE s_bus_unsubscribe(a, l)
    /\ RecordRequest(op, a, l)
    /\ UNCHANGED <<policy, queueVars, threadVars, pc, cpc, calls, endVars>>

s_bus_sync_send(a, p) ==
    /\ UserRuns
    /\ p = accepted + 1
    /\ calls' = Append(calls, [payload |-> p, address |-> a, last |-> FALSE, node |-> NoListener])
    /\ RecordSend(a, p)
    /\ UNCHANGED <<policy, slots, queueVars, threadVars, pc, cpc, endVars>>

\* The innermost send goes on, after its listener has returned: it calls the next
\* listener of the list, turns to the list of the address, or destroys the payload
\* and returns.
s_bus_deliver_msg_to_slot ==
    /\ policy = "sync" /\ calls # <<>>
    /\ LET send == Last(calls)
       IN  \/ \E i \in DOMAIN ListOf(send) :
                /\ Follows(send, i)
                /\ received' = [received EXCEPT ![ListOf(send)[i]] = Append(@, send.payload)]
                /\ calls' = Append(Front(calls), [send EXCEPT !.node = ListOf(send)[i]])
                /\ UNCHANGED destroyed
           \/ /\ ~\E i \in DOMAIN ListOf(send) : Follows(send, i)
              /\ ~send.last
              /\ calls' = Append(Front(calls), [send EXCEPT !.last = TRUE, !.node = NoListener])
              /\ UNCHANGED <<received, destroyed>>
           \/ /\ ~\E i \in DOMAIN ListOf(send) : Follows(send, i)
              /\ send.last
              /\ calls' = Front(calls)
              /\ Destroy(send.payload)
              /\ UNCHANGED received
    /\ UNCHANGED <<policy, slots, queueVars, threadVars, pc, cpc, askVars, discarded, closed>>

\* Destroying the bus from a listener frees what the send still uses: callers must not.
s_bus_sync_clean_up ==
    /\ policy = "sync" /\ cpc[Owner] = "idle"
    /\ calls = <<>>
    /\ CloseAll
    /\ cpc' = [cpc EXCEPT ![Owner] = "freed"]
    /\ UNCHANGED <<policy, queueVars, threadVars, pc, calls, askVars, received, destroyed, discarded>>

----------------------------------------------------------------------------
(* The asynchronous bus: clients                                           *)

\* pthread_cond_signal: the dispatch thread, if it sleeps, is woken.
Notify == pc' = IF pc = "blocked" THEN "lock" ELSE pc

\* The bus exists and c is not in a call.
MayCall(c) ==
    /\ Async /\ pc # "corrupt"
    /\ cpc[c] = "idle" /\ cpc[Owner] # "freed"

\* s_bus_async_subscribe and s_bus_async_unsubscribe.  After clean_up has begun
\* the call is refused with AWS_ERROR_INVALID_STATE.
s_bus_async_subscription(c, op, a, l) ==
    /\ MayCall(c)
    /\ running
    /\ requests < MaxRequests
    /\ op = "add" => <<a, l>> \notin members
    /\ subs' = Append(subs, [op |-> op, address |-> a, listener |-> l])
    /\ cpc' = [cpc EXCEPT ![c] = "notify"]
    /\ RecordRequest(op, a, l)
    /\ UNCHANGED <<policy, calls, slots, free, msgs, running, threadVars, pc, endVars>>

\* s_bus_async_free_message, called for every message of q: the ones of the buffer
\* go back to the free list, the others are released.
s_bus_async_free_message(q) == free' = free + Pooled(q)

Queue(a, p, pooled) == [address |-> a, payload |-> p, pooled |-> pooled]

\* s_bus_async_alloc_message, and the message appended to the queue: a message of
\* the free list; or a new one; or, on an unreliable bus, the oldest queued one,
\* whose payload is destroyed.  Popping an empty queue is undefined: the queue is
\* corrupt.
s_bus_async_alloc_message(a, p) ==
    \/ /\ free > 0
       /\ free' = free - 1
       /\ msgs' = Append(msgs, Queue(a, p, TRUE))
       /\ UNCHANGED <<pc, destroyed, discarded>>
    \/ /\ free = 0 /\ policy = "async_reliable"
       /\ msgs' = Append(msgs, Queue(a, p, FALSE))
       /\ UNCHANGED <<free, pc, destroyed, discarded>>
    \/ /\ free = 0 /\ policy = "async_unreliable" /\ msgs # <<>>
       /\ Destroy(Head(msgs).payload)
       /\ discarded' = discarded \cup {Head(msgs).payload}
       /\ msgs' = Append(Tail(msgs), Queue(a, p, TRUE))
       /\ UNCHANGED <<free, pc>>
    \/ /\ free = 0 /\ policy = "async_unreliable" /\ msgs = <<>>
       /\ pc' = "corrupt"
       /\ UNCHANGED <<free, msgs, destroyed, discarded>>

\* After clean_up has begun the call is refused with AWS_ERROR_INVALID_STATE.
s_bus_async_send(c, a, p) ==
    /\ MayCall(c)
    /\ p = accepted + 1
    /\ running
    /\ s_bus_async_alloc_message(a, p)
    /\ IF pc' = "corrupt" THEN UNCHANGED <<askVars, cpc>>
       ELSE RecordSend(a, p) /\ cpc' = [cpc EXCEPT ![c] = "notify"]
    /\ UNCHANGED <<policy, calls, slots, subs, running, threadVars, received, closed>>

ClientNotifies(c) ==
    /\ cpc[c] = "notify" /\ pc # "corrupt"
    /\ cpc' = [cpc EXCEPT ![c] = "idle"]
    /\ Notify
    /\ UNCHANGED <<policy, calls, slots, queueVars, threadVars, askVars, endVars>>

\* s_bus_async_clean_up: running is cleared under the mutex, the thread notified,
\* its exit awaited, the listeners are closed and the bus is freed.  The code does
\* not wait for other threads' calls to end: that no client is between the unlock
\* and the notification of a call by then is up to the owner.
s_bus_async_clean_up ==
    /\ Async /\ pc # "corrupt"
    /\ \/ /\ cpc[Owner] = "idle"
          /\ running' = FALSE
          /\ cpc' = [cpc EXCEPT ![Owner] = "closing"]
          /\ UNCHANGED <<slots, pc, closed>>
       \/ /\ cpc[Owner] = "closing"
          /\ Notify
          /\ cpc' = [cpc EXCEPT ![Owner] = "spin"]
          /\ UNCHANGED <<slots, running, closed>>
       \/ /\ cpc[Owner] = "spin"
          /\ pc = "exited"
          /\ \A c \in Client : cpc[c] # "notify"
          /\ CloseAll
          /\ cpc' = [cpc EXCEPT ![Owner] = "freed"]
          /\ UNCHANGED <<running, pc>>
    /\ UNCHANGED <<policy, calls, free, msgs, subs, threadVars, askVars, received, destroyed, discarded>>

----------------------------------------------------------------------------
(* s_bus_async_deliver, the dispatch thread                                *)

\* Mutants: the predicate forgets the messages, or the shutdown.
should_wake_up_no_msgs == ~running \/ subs # <<>>
should_wake_up_no_shutdown == subs # <<>> \/ msgs # <<>>

s_bus_async_should_wake_up == ~running \/ subs # <<>> \/ msgs # <<>>

\* Mutant: the subscriptions wait until no message is queued.
TakeMessagesFirst ==
    /\ pc = "lock"
    /\ IF s_bus_async_should_wake_up
       THEN /\ pending_subs' = IF msgs = <<>> THEN subs ELSE <<>>
            /\ subs' = IF msgs = <<>> THEN <<>> ELSE subs
            /\ pending_msgs' = msgs /\ msgs' = <<>>
            /\ pos' = 1
            /\ pc' = "apply"
       ELSE /\ pc' = "blocked"
            /\ UNCHANGED <<subs, msgs, pending_subs, pending_msgs, pos>>
    /\ UNCHANGED <<policy, calls, slots, free, running, pending_drains, cpc, askVars, endVars>>

\* Mutant: the messages are moved over last one first.
TakeQueuesReversed ==
    /\ pc = "lock"
    /\ IF s_bus_async_should_wake_up
       THEN /\ pending_subs' = subs /\ subs' = <<>>
            /\ pending_msgs' = Reverse(msgs) /\ msgs' = <<>>
            /\ pos' = 1
            /\ pc' = "apply"
       ELSE /\ pc' = "blocked"
            /\ UNCHANGED <<subs, msgs, pending_subs, pending_msgs, pos>>
    /\ UNCHANGED <<policy, calls, slots, free, running, pending_drains, cpc, askVars, endVars>>

\* Wait under the mutex, then take both queues out.
TakeQueues ==
    /\ pc = "lock"
    /\ IF s_bus_async_should_wake_up
       THEN /\ pending_subs' = subs /\ subs' = <<>>
            /\ pending_msgs' = msgs /\ msgs' = <<>>
            /\ pos' = 1
            /\ pc' = "apply"
       ELSE /\ pc' = "blocked"
            /\ UNCHANGED <<subs, msgs, pending_subs, pending_msgs, pos>>
    /\ UNCHANGED <<policy, calls, slots, free, running, pending_drains, cpc, askVars, endVars>>

\* One iteration of s_bus_apply_listeners.
s_bus_apply_listeners ==
    /\ pc = "apply"
    /\ IF pending_subs # <<>>
       THEN LET r == Head(pending_subs)
            IN  /\ slots' = IF r.op = "add" THEN s_bus_subscribe(r.address, r.listener)
                            ELSE s_bus_unsubscribe(r.address, r.listener)
                /\ pending_subs' = Tail(pending_subs)
                /\ UNCHANGED pc
       ELSE /\ pc' = IF pending_msgs # <<>> THEN "deliver" ELSE "test"
            /\ UNCHANGED <<slots, pending_subs>>
    /\ UNCHANGED <<policy, calls, queueVars, pending_msgs, pending_drains, pos, cpc, askVars, endVars>>

\* One iteration of the first loop of s_bus_async_deliver_messages ...
s_bus_async_deliver_messages ==
    /\ pc = "deliver"
    /\ IF pos <= Len(pending_msgs)
       THEN /\ s_bus_deliver_msg(pending_msgs[pos].address, pending_msgs[pos].payload)
            /\ Destroy(pending_msgs[pos].payload)
            /\ pos' = pos + 1
            /\ UNCHANGED pc
       ELSE pc' = "free" /\ UNCHANGED <<pos, received, destroyed>>
    /\ UNCHANGED <<policy, calls, slots, queueVars, pending_msgs, pending_subs, pending_drains, cpc,
                   askVars, discarded, closed>>

\* Mutant: s_bus_message_clean_up leaves the destructor in the message.
HasDestructorStill(i) == TRUE

\* s_bus_message_clean_up clears the destructor: of the messages that were taken
\* out, only those not delivered yet have one.
HasDestructor(i) == i >= pos

\* ... and the second one, under the mutex, which cleans every message up again.
FreeMessages ==
    /\ pc = "free"
    /\ s_bus_async_free_message(pending_msgs)
    /\ destroyed' = [p \in Payload |-> destroyed[p] +
                        Cardinality({i \in DOMAIN pending_msgs :
                                        HasDestructor(i) /\ pending_msgs[i].payload = p})]
    /\ pending_msgs' = <<>>
    /\ pos' = 1
    /\ pc' = "test"
    /\ UNCHANGED <<policy, calls, slots, msgs, subs, running, pending_subs, pending_drains, cpc,
                   askVars, received, discarded, closed>>

\* Mutant: no drain after the shutdown was noticed.
LoopTestNoDrain ==
    /\ pc = "test"
    /\ pc' = IF running THEN "lock" ELSE "exited"
    /\ UNCHANGED <<policy, calls, slots, queueVars, threadVars, cpc, askVars, endVars>>

\* while (s_bus_async_is_running(impl) || pending_drains--)
LoopTest ==
    /\ pc = "test"
    /\ pc' = IF running \/ pending_drains > 0 THEN "lock" ELSE "exited"
    /\ pending_drains' = IF running THEN pending_drains ELSE 0
    /\ UNCHANGED <<policy, calls, slots, queueVars, pending_msgs, pending_subs, pos, cpc, askVars, endVars>>

\* pthread_cond_wait may return although nobody notified.
SpuriousWakeUp ==
    /\ pc = "blocked"
    /\ pc' = "lock"
    /\ UNCHANGED <<policy, calls, slots, queueVars, threadVars, cpc, askVars, endVars>>

DispatchStep ==
    /\ Async
    /\ \/ TakeQueues \/ s_bus_apply_listeners \/ s_bus_async_deliver_messages
       \/ FreeMessages \/ LoopTest

ClientCall ==
    \/ \E c \in Client, op \in {"add", "remove"}, s \in Subscription :
          s_bus_async_subscription(c, op, s[1], s[2])
    \/ \E c \in Client, a \in Address, p \in Payload : s_bus_async_send(c, a, p)
    \/ \E op \in {"add", "remove"}, s \in Subscription :
          s_bus_sync_subscription(op, s[1], s[2])
    \/ \E a \in Address, p \in Payload : s_bus_sync_send(a, p)
    \/ s_bus_sync_clean_up

Next ==
    \/ ClientCall
    \/ \E c \in Client : ClientNotifies(c)
    \/ s_bus_deliver_msg_to_slot
    \/ s_bus_async_clean_up
    \/ DispatchStep
    \/ SpuriousWakeUp

\* Threads that can run do run, a call that was begun goes on, and listeners return.
Fairness ==
    /\ WF_vars(s_bus_deliver_msg_to_slot)
    /\ WF_vars(DispatchStep)
    /\ \A c \in Client : WF_vars(ClientNotifies(c))
    /\ WF_vars(cpc[Owner] # "idle" /\ s_bus_async_clean_up)

Spec == Init /\ [][Next]_vars /\ Fairness

----------------------------------------------------------------------------
(* Properties                                                              *)

Freed == cpc[Owner] = "freed"

Payloads(q) == {q[i].payload : i \in DOMAIN q}
Undelivered ==
    Payloads(msgs) \cup Payloads(SubSeq(pending_msgs, pos, Len(pending_msgs))) \cup InProgress

\* The bus owns a payload from the send it accepts on and destroys it exactly once,
\* when its message leaves the queues, or the synchronous send returns: delivered or, on an unreliable bus,
\* discarded; although s_bus_message_clean_up is called twice per message.  Meanwhile
\* every message of the preallocated buffer is free or in one queue (TypeOK).
PayloadDestroyedOnce ==
    /\ TypeOK
    /\ \A p \in Payload :
        destroyed[p] = IF p <= accepted /\ p \notin Undelivered THEN 1 ELSE 0

\* Subscriptions and messages go through two queues, but a change of subscription
\* that was accepted before a message always counts for that message: a listener
\* that did not subscribe or unsubscribe in between is called for the message if
\* and only if it was subscribed when the message was sent.
SubscriptionsPrecedeMessages ==
    \A p \in Payload \ discarded, l \in Listener :
        destroyed[p] > 0 /\ l \notin touched[p] =>
            (l \in wanted[p] <=> Contains(received[l], p))

\* Every listener is called in the order in which the messages were accepted, with
\* one exception: a message that a listener of a synchronous bus sends is delivered
\* to all listeners before the message in whose delivery it was sent goes on.
DeliveredInOrder ==
    \A l \in Listener : \A i, j \in DOMAIN received[l] :
        i < j => \/ received[l][i] <= received[l][j]
                 \/ received[l][j] \in within[received[l][i]]

\* The one more drain after the shutdown was noticed is enough: the queues are
\* empty when the thread exits ("should be impossible for subs or msgs to remain
\* after final drain", asserted in s_bus_async_clean_up).
FinalDrainIsFinal == pc = "exited" => msgs = <<>> /\ subs = <<>> /\ pending_msgs = <<>>

\* "Cleans up a message bus, including notifying all remaining listeners to close":
\* every subscription that was accepted and not taken back by an unsubscribe, the
\* ones still queued when the shutdown began included, is closed exactly once.
ClosedOncePerSubscription ==
    Freed => \A l \in Listener :
                closed[l] = Cardinality({a \in Address : <<a, l>> \in members})

\* No message sleeps in the queue for lack of a wake-up.
MessagesAreSettled ==
    \A p \in Payload : Open(p) ~> (destroyed[p] = 1 \/ pc = "corrupt")

\* aws_bus_destroy returns.
DestroyReturns == (cpc[Owner] = "closing") ~> (Freed \/ pc = "corrupt")

\* "If the buffer is full, older buffered messages will be discarded to make room
\* for newer messages": there is always such a message, and the queue an
\* unreliable bus pops is never empty (the precondition of
\* aws_linked_list_pop_front).
QueueNeverPoppedEmpty == pc # "corrupt"

\* "Listeners are owned by the subscriber, and are no longer referenced by the bus
\* once unsubscribed": a listener that has no subscription left is not called.
UnsubscribedIsNotCalled ==
    [][\A l \in Listener :
          received'[l] # received[l] => \E a \in Address : <<a, l>> \in members]_vars
=============================================================================
