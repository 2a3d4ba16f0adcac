----------------------------- MODULE LossyFifo ------------------------------
(***************************************************************************)
(* What the gateway promises each subscription, without the registry, its  *)
(* index, the coroutine and the transport: a FIFO of the events that the   *)
(* subscription asked for, which may lose an event only when it is full    *)
(* and then counts the loss until the client has been told of it.          *)
(*                                                                         *)
(* The log holds everything that was published; an entry of a FIFO is a    *)
(* position in the log.  Asks(s, e) tells whether subscription s, as it    *)
(* was opened, asked for event e.                                          *)
(***************************************************************************)
EXTENDS Integers, Sequences

CONSTANTS
    Subscriptions,
    Events,
    Requests,         \* what a subscription may ask for
    Nothing,          \* what one that was never opened asks for
    Matches(_, _),    \* whether a request asks for an event
    Capacity          \* 0 or less: no limit

VARIABLES log, request, open, pending, received, unreported, told

fifoVars == <<log, request, open, pending, received, unreported, told>>

FifoInit ==
    /\ log = <<>>
    /\ request = [s \in Subscriptions |-> Nothing]
    /\ open = {}
    /\ pending = [s \in Subscriptions |-> <<>>]
    /\ received = [s \in Subscriptions |-> <<>>]
    /\ unreported = [s \in Subscriptions |-> 0]
    /\ told = [s \in Subscriptions |-> 0]

Ask(s, q) ==
    /\ s \notin open /\ request[s] = Nothing
    /\ request' = [request EXCEPT ![s] = q]
    /\ UNCHANGED <<log, open, pending, received, unreported, told>>

Open(s) ==
    /\ s \notin open /\ request[s] # Nothing
    /\ received[s] = <<>> /\ pending[s] = <<>>
    /\ open' = open \cup {s}
    /\ UNCHANGED <<log, request, pending, received, unreported, told>>

AtCapacity(fifo) == Capacity > 0 /\ Len(fifo) >= Capacity

Concerned(s, e) == s \in open /\ Matches(request[s], e)

\* All open subscriptions that ask for the event get it or count its loss.
Publish(e) ==
    /\ log' = Append(log, e)
    /\ pending' = [s \in Subscriptions |->
                     IF Concerned(s, e) /\ ~AtCapacity(pending[s])
                     THEN Append(pending[s], Len(log) + 1) ELSE pending[s]]
    /\ unreported' = [s \in Subscriptions |->
                        IF Concerned(s, e) /\ AtCapacity(pending[s])
                        THEN unreported[s] + 1 ELSE unreported[s]]
    /\ UNCHANGED <<request, open, received, told>>

Receive(s) ==
    /\ s \in open /\ pending[s] # <<>>
    /\ received' = [received EXCEPT ![s] = Append(@, Head(pending[s]))]
    /\ pending' = [pending EXCEPT ![s] = Tail(@)]
    /\ UNCHANGED <<log, request, open, unreported, told>>

Tell(s) ==
    /\ s \in open
    /\ \E n \in 1..unreported[s] :
         /\ told' = [told EXCEPT ![s] = @ + n]
         /\ unreported' = [unreported EXCEPT ![s] = @ - n]
    /\ UNCHANGED <<log, request, open, pending, received>>

\* What is pending when a subscription ends is lost with it.  One ends alone, or
\* several with the server.
Shut(ended) ==
    /\ ended # {} /\ ended \subseteq open
    /\ open' = open \ ended
    /\ UNCHANGED <<log, request, pending, received, unreported, told>>

FifoNext ==
    \/ \E e \in Events : Publish(e)
    \/ \E s \in Subscriptions :
         \/ \E q \in Requests : Ask(s, q)
         \/ Open(s) \/ Receive(s) \/ Tell(s)
    \/ \E ended \in SUBSET Subscriptions : Shut(ended)

FifoSpec == FifoInit /\ [][FifoNext]_fifoVars
=============================================================================
