------------------------------ MODULE EventBus ------------------------------
(***************************************************************************)
(* EventBus (omniord/core/events.py): subscriptions, publications by       *)
(* concurrent coroutines, and what each handler hears.                     *)
(*                                                                         *)
(* publish() suspends only where a handler's result is awaitable: until    *)
(* then no other coroutine runs, only the handler being called, which may  *)
(* itself subscribe and unsubscribe.  A stream() is a handler of its own,  *)
(* its queue is what it has heard, and it leaves through its own token.    *)
(* A handler that raises is the same as one that returns.                  *)
(***************************************************************************)
EXTENDS Naturals, FiniteSets, SequencesExt

CONSTANTS
  Handlers,     \* the handlers, among them
  Tracker,      \* the progress tracker's, subscribed first and for good,
  Async,        \* those whose result is awaited,
  Streams,      \* and the queues of streams
  Publishers,   \* coroutines that publish
  Nobody,       \* who has the event loop when no publisher does
  MaxEvents,    \* bound: how many events are published
  MaxTokens     \* bound: how many times subscribe() is called

ASSUME BusAssumption ==
  /\ Tracker \in Handlers \ (Async \cup Streams)
  /\ Streams \subseteq Handlers \ Async
  /\ Nobody \notin Publishers
  /\ MaxEvents \in Nat
  /\ MaxTokens \in Nat \ {0}

VARIABLES
  handlers,   \* self._handlers
  tokens,     \* what subscribe() returned: the handler, and whether still to be called
  robbed,     \* handlers that lost a subscription to another token (history)
  events,     \* the publications: who was due when it began, and how it ended (history)
  pub,        \* the state of publish() in each publisher
  turn,       \* the publisher that has the event loop, or Nobody
  heard       \* the events each handler was called with, in order

busVars == <<handlers, tokens, robbed, events, pub, turn, heard>>

NoEvent == 0
Idle    == [at |-> "idle", event |-> NoEvent, list |-> <<>>, next |-> 1]

EventRecord == [due : [Handlers -> Nat], robbed : SUBSET Handlers,
                state : {"open", "over", "cut"}]
PubState == [at : {"idle", "calling", "awaiting"}, event : Nat,
             list : Seq(Handlers), next : Nat \ {0}]

BusTypeOK ==
  /\ handlers \in Seq(Handlers)
  /\ tokens \in Seq([handler : Handlers, open : BOOLEAN]) /\ Len(tokens) <= MaxTokens
  /\ robbed \subseteq Handlers
  /\ events \in Seq(EventRecord) /\ Len(events) <= MaxEvents
  /\ pub \in [Publishers -> PubState]
  /\ \A p \in Publishers :
       /\ pub[p].at # "idle" => pub[p].event \in DOMAIN events
       /\ pub[p].at = "calling" => pub[p].next <= Len(pub[p].list) + 1
       /\ pub[p].at = "awaiting" => pub[p].next <= Len(pub[p].list)
  /\ turn \in Publishers \cup {Nobody}
  /\ \A p \in Publishers : turn = p <=> pub[p].at = "calling"
  /\ heard \in [Handlers -> Seq(DOMAIN events)]

BusInit ==
  /\ handlers = <<Tracker>>
  /\ tokens = <<[handler |-> Tracker, open |-> TRUE]>>
  /\ robbed = {}
  /\ events = <<>>
  /\ pub = [p \in Publishers |-> Idle]
  /\ turn = Nobody
  /\ heard = [h \in Handlers |-> <<>>]

-----------------------------------------------------------------------------
(***************************************************************************)
(* Mutants.                                                                *)
(***************************************************************************)
\* A new handler is called before the others.
Added_First(h) == <<h>> \o handlers

\* publish() goes over the list itself, not over a copy.
Called_Live(p) == IF pub[p].next \in DOMAIN handlers THEN handlers[pub[p].next] ELSE Tracker

\* A publication that is over, or was cancelled, does not give the loop back.
Left_Stays(p) == pub' = [pub EXCEPT ![p] = Idle] /\ turn' = p

-----------------------------------------------------------------------------
(***************************************************************************)
(* subscribe() and the callable it returns, called by a coroutine while    *)
(* no publisher has the loop, or by the handler a publisher has called.    *)
(***************************************************************************)
InHandler == turn \in {Nobody} \cup {p \in Publishers : pub[p].next > 1}

Added(h)   == Append(handlers, h)
Without(h) == RemoveFirst(handlers, h)

\* Each stream() has a queue of its own, and is left once.
NewStream(h)   == h \in Streams => \A t \in DOMAIN tokens : tokens[t].handler # h
LeavesOnce(t)  == tokens[t].handler \in Streams => tokens[t].open

Subscribe(h) ==
  /\ InHandler
  /\ Len(tokens) < MaxTokens
  /\ NewStream(h)
  /\ handlers' = Added(h)
  /\ tokens' = Append(tokens, [handler |-> h, open |-> TRUE])
  /\ UNCHANGED <<robbed, events, pub, turn, heard>>

\* A second call removes whichever subscription of the handler is left.
Unsubscribe(t) ==
  /\ InHandler
  /\ tokens[t].handler # Tracker
  /\ LeavesOnce(t)
  /\ handlers' = Without(tokens[t].handler)
  /\ tokens' = [tokens EXCEPT ![t].open = FALSE]
  /\ robbed' = IF tokens[t].open THEN robbed ELSE robbed \cup {tokens[t].handler}
  /\ UNCHANGED <<events, pub, turn, heard>>

-----------------------------------------------------------------------------
(***************************************************************************)
(* publish().                                                              *)
(***************************************************************************)
\* How many subscriptions of h have not been ended by their owner.
Subscribed(h) ==
  Cardinality({t \in DOMAIN tokens : tokens[t] = [handler |-> h, open |-> TRUE]})

Publish(p) ==
  /\ turn = Nobody /\ pub[p].at = "idle"
  /\ Len(events) < MaxEvents
  /\ events' = Append(events, [due    |-> [h \in Handlers |-> Subscribed(h)],
                               robbed |-> robbed,
                               state  |-> "open"])
  /\ pub' = [pub EXCEPT ![p] = [at |-> "calling", event |-> Len(events) + 1,
                                list |-> handlers, next |-> 1]]
  /\ turn' = p
  /\ UNCHANGED <<handlers, tokens, robbed, heard>>

Called(p) == pub[p].list[pub[p].next]

Exhausted(p) == pub[p].next > Len(pub[p].list)

\* The next handler is called; if its result is awaitable the loop is given up.
Deliver(p) ==
  /\ turn = p /\ ~Exhausted(p)
  /\ LET h == Called(p) IN
     /\ heard' = [heard EXCEPT ![h] = Append(@, pub[p].event)]
     /\ IF h \in Async
        THEN pub' = [pub EXCEPT ![p].at = "awaiting"] /\ turn' = Nobody
        ELSE pub' = [pub EXCEPT ![p].next = @ + 1] /\ UNCHANGED turn
  /\ UNCHANGED <<handlers, tokens, robbed, events>>

\* What the handler returned has been awaited, or raised.
Resume(p) ==
  /\ turn = Nobody /\ pub[p].at = "awaiting"
  /\ pub' = [pub EXCEPT ![p].at = "calling", ![p].next = @ + 1]
  /\ turn' = p
  /\ UNCHANGED <<handlers, tokens, robbed, events, heard>>

Left(p) == pub' = [pub EXCEPT ![p] = Idle] /\ turn' = Nobody

Finish(p) ==
  /\ turn = p /\ Exhausted(p)
  /\ events' = [events EXCEPT ![pub[p].event].state = "over"]
  /\ Left(p)
  /\ UNCHANGED <<handlers, tokens, robbed, heard>>

\* The publisher is cancelled while it awaits a handler: CancelledError is not
\* an Exception, and the handlers that come after are not called.
Cancel(p) ==
  /\ turn = Nobody /\ pub[p].at = "awaiting"
  /\ events' = [events EXCEPT ![pub[p].event].state = "cut"]
  /\ Left(p)
  /\ UNCHANGED <<handlers, tokens, robbed, heard>>

Step(p) == Publish(p) \/ Deliver(p) \/ Resume(p) \/ Finish(p) \/ Cancel(p)

BusNext ==
  \/ \E h \in Handlers \ {Tracker} : Subscribe(h)
  \/ \E t \in DOMAIN tokens : Unsubscribe(t)
  \/ \E p \in Publishers : Step(p)

BusSpec == BusInit /\ [][BusNext]_busVars

-----------------------------------------------------------------------------
(***************************************************************************)
(* Properties.                                                             *)
(***************************************************************************)
Times(h, e) == Cardinality({i \in DOMAIN heard[h] : heard[h][i] = e})

(* A handler hears an event as often as it had subscriptions when the      *)
(* publication began: not after it left, not twice because others come and *)
(* go meanwhile, and never too seldom, unless the publisher was cancelled  *)
(* on the way or a token was called a second time (events.py:55-64).       *)
HeardOnce ==
  \A e \in DOMAIN events : \A h \in Handlers \ events[e].robbed :
    /\ Times(h, e) <= events[e].due[h]
    /\ events[e].state = "over" => Times(h, e) = events[e].due[h]

(* The tracker is ahead of every handler that could suspend a publication: *)
(* whenever another coroutine can run, it has heard every event published, *)
(* in order.  This is what lets Progress show an event in the step that    *)
(* publishes it (main.py:165).                                             *)
TrackerIsCurrent == turn = Nobody => heard[Tracker] = [i \in 1..Len(events) |-> i]
=============================================================================
