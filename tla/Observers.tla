----------------------------- MODULE Observers -----------------------------
(***************************************************************************)
(* The callbacks of a connection: notification receivers, which            *)
(* get_notifs() calls, and error handlers, which process_notice() calls,   *)
(* from the construction of the connection to close()                      *)
(* (src/connection_base.cxx, src/errorhandler.cxx, src/notification.cxx).  *)
(* Both functions hold iterators into a container of the connection while  *)
(* the client's code runs, and that code may call the connection again.    *)
(*                                                                         *)
(* c has the fields that ConnectionPolicy uses and                         *)
(*   obj       the connection object: none, live or gone                   *)
(*   trans     0, or one more than the number of callbacks that were       *)
(*             running when the transaction was opened                     *)
(*   over      its commit() has failed: only its destructor is left        *)
(*   recs      m_receivers in order: by channel, the newest first          *)
(*   handlers  m_errorhandlers, the oldest first                           *)
(*   homed     the handlers whose m_home is not null                       *)
(*   stack     the calls in progress, the innermost last                   *)
(* A call in progress has its place pc (loop: between callbacks; in: in    *)
(* one; caught: in a catch block; wait: in wait_read()), its iterators     *)
(* at and stop, what it has called and the objects due: there since it     *)
(* began.  For process_notice() the iterators are the base() of the code's *)
(* reverse iterators: the running handler is the one before at.            *)
(***************************************************************************)
EXTENDS ConnectionPolicy, FiniteSets, SequencesExt

CONSTANTS
  Receiver, Channel,   \* receivers, and Channel[r]: a number
  Handler,             \* error handlers
  End,                 \* end() of either container
  MaxSent,             \* notifications sent by other sessions
  MaxDepth,            \* callbacks within callbacks
  MaxOps,              \* calls that one callback makes
  Watched,             \* policies whose connections have receivers and handlers
  Liberties            \* what callbacks do that the properties exclude

\* destroy_current  destroy a receiver or handler that is running
\* destroy_bound    destroy an object that another iterator of a running call
\*                  points at
\* add_within       create an object between a running one and its bound
\* leave_open       return from a receiver with a transaction left open
\* Channel 0 stands for no notification.
ASSUME ObserversAssumption ==
  /\ DOMAIN Channel = Receiver /\ \A r \in Receiver : Channel[r] \in Nat \ {0}
  /\ End \notin Receiver \cup Handler /\ Receiver \cap Handler = {}
  /\ MaxSent \in Nat /\ MaxDepth \in Nat /\ MaxOps \in Nat
  /\ Liberties \subseteq
       {"destroy_current", "destroy_bound", "add_within", "leave_open"}

VARIABLES
  c,      \* the connection
  sent    \* how many notifications have been sent

vars == <<c, sent>>

----------------------------------------------------------------------------
(* The containers and their iterators.                                     *)

Index(s, e) == SelectInSeq(s, LAMBDA x : x = e)

\* ++ on an iterator of s, -- on one, and the position of an iterator.
Succ(s, e) == LET i == Index(s, e) IN IF i \in {0, Len(s)} THEN End ELSE s[i + 1]

Pred(s, e) ==
  LET i == IF e = End THEN Len(s) ELSE Index(s, e) - 1
  IN IF i <= 0 THEN End ELSE s[i]

Position(s, e) == IF e = End THEN Len(s) + 1 ELSE Index(s, e)

First(s) == IF s = <<>> THEN End ELSE s[1]

\* erase() and remove(): an element is in its container once.
Erase(s, e) == RemoveAt(s, Index(s, e))

\* The first receiver of a channel not below ch.
lower_bound(s, ch) ==
  LET i == SelectInSeq(s, LAMBDA r : Channel[r] >= ch) IN IF i = 0 THEN End ELSE s[i]

----------------------------------------------------------------------------
(* The calls in progress.                                                  *)

Depth(x) == Len(x.stack)

Top(x) == x.stack[Depth(x)]

Push(x, f) == [x EXCEPT !.stack = Append(@, f)]

Pop(x) == [x EXCEPT !.stack = Front(@)]

SetTop(x, f) == [x EXCEPT !.stack[Depth(x)] = f]

\* No object of the name e is due any more.
Without(f, e) == [f EXCEPT !.due = @ \ {e}]

Forget(x, e) ==
  [x EXCEPT !.stack = [i \in DOMAIN x.stack |-> Without(x.stack[i], e)]]

Frame(kind, pc, await) ==
  [kind |-> kind, pc |-> pc, await |-> await, msg |-> 0,
   at |-> End, stop |-> End, called |-> <<>>, due |-> {}, ops |-> 0]

----------------------------------------------------------------------------
(* Error handlers.                                                         *)

process_notice(x) ==
  Push(x, [Frame("notice", "loop", "no") EXCEPT
             !.at = End, !.stop = First(x.handlers), !.due = Range(x.handlers)])

register_errorhandler(x, h) ==
  [x EXCEPT !.handlers = Append(@, h), !.homed = @ \cup {h}]

unregister(x, h) ==
  Forget([x EXCEPT !.handlers = Erase(@, h), !.homed = @ \ {h}], h)

\* One round of the loop of process_notice_raw().
CallHandler(x, f) ==
  IF f.at = f.stop THEN Pop(x)
  ELSE SetTop(x, [f EXCEPT !.pc = "in", !.called = Append(@, Pred(x.handlers, f.at))])

\* The handler returns whether the message goes on to the others.
HandlerReturns(x, f, goon) ==
  IF goon THEN SetTop(x, [f EXCEPT !.pc = "loop", !.at = Pred(x.handlers, f.at),
                                   !.ops = 0])
  ELSE Pop(x)

----------------------------------------------------------------------------
(* Notifications.                                                          *)

\* get_notifs() has returned 0: await_notification() now waits.
GotNone(x, await) ==
  IF await = "no" THEN x ELSE Push(x, Frame("notifs", "wait", await))

consume_input(x) ==
  IF x.status[x.conn] = "ok" THEN {Ok(x)}
  ELSE {Ok(x), Out([x EXCEPT !.status[x.conn] = "bad"], "broken")}

get_notifs(x, await) ==
  IF ~is_open(x) THEN {Ok(GotNone(x, await))}
  ELSE Then(consume_input(x), LAMBDA y :
         IF y.trans # 0 THEN {Ok(GotNone(y, await))}
         ELSE {Ok(Push(y, Frame("notifs", "loop", await)))})

\* Mutant: the receivers of all later channels, too.
NextNotification_ToEnd(x, f) ==
  IF x.inbox = <<>> THEN GotNone(Pop(x), f.await)
  ELSE LET ch == Head(x.inbox)
       IN SetTop([x EXCEPT !.inbox = Tail(@)],
                 [f EXCEPT !.await = "no", !.msg = ch, !.stop = End,
                           !.at = lower_bound(x.recs, ch),
                           !.due = {r \in Range(x.recs) : Channel[r] = ch}])

\* Mutant: the notification is not taken out of the queue.
NextNotification_Peeks(x, f) ==
  IF x.inbox = <<>> THEN GotNone(Pop(x), f.await)
  ELSE LET ch == Head(x.inbox)
       IN SetTop(x, [f EXCEPT !.await = "no", !.msg = ch,
                              !.at = lower_bound(x.recs, ch),
                              !.stop = lower_bound(x.recs, ch + 1),
                              !.due = {r \in Range(x.recs) : Channel[r] = ch}])

\* PQnotifies(), until there is none left; with one, await_notification() will not
\* wait.
NextNotification(x, f) ==
  IF x.inbox = <<>> THEN GotNone(Pop(x), f.await)
  ELSE LET ch == Head(x.inbox)
       IN SetTop([x EXCEPT !.inbox = Tail(@)],
                 [f EXCEPT !.await = "no", !.msg = ch,
                           !.at = lower_bound(x.recs, ch),
                           !.stop = lower_bound(x.recs, ch + 1),
                           !.due = {r \in Range(x.recs) : Channel[r] = ch}])

\* Mutant: the first receiver of a channel is the only one.
CallReceiver_OnlyFirst(x, f) ==
  IF f.msg = 0 THEN NextNotification(x, f)
  ELSE IF f.at = f.stop \/ f.called # <<>> THEN SetTop(x, Frame("notifs", "loop", "no"))
  ELSE SetTop(x, [f EXCEPT !.pc = "in", !.called = Append(@, f.at)])

\* One round of the loops of get_notifs().
CallReceiver(x, f) ==
  IF f.msg = 0 THEN NextNotification(x, f)
  ELSE IF f.at = f.stop THEN SetTop(x, Frame("notifs", "loop", "no"))
  ELSE SetTop(x, [f EXCEPT !.pc = "in", !.called = Append(@, f.at)])

NextReceiver(x, f) ==
  SetTop(x, [f EXCEPT !.pc = "loop", !.at = Succ(x.recs, f.at), !.ops = 0])

\* What a receiver throws is reported, and only then the iterator moves on.
ReceiverReturns(x, f, throws) ==
  IF throws THEN process_notice(SetTop(x, [f EXCEPT !.pc = "caught", !.ops = 0]))
            ELSE NextReceiver(x, f)

await_notification(x, await) == Then(activate(x), LAMBDA y : get_notifs(y, await))

\* wait_fd(), which throws if there is no socket, and get_notifs() again.
Waited(x) ==
  IF x.conn = Null THEN {Out(Pop(x), "broken")} ELSE get_notifs(Pop(x), "no")

Exec(x) ==
  Then(activate(x), LAMBDA y : Then(query(y), LAMBDA z : get_notifs(z, "no")))

\* A channel that has receivers already gets the new one in front of them.
Insert(s, r) == InsertAt(s, Position(s, lower_bound(s, Channel[r])), r)

\* LISTEN may lose the connection, which is ignored.
add_receiver(x, r) ==
  LET listen == is_open(x) /\ \A q \in Range(x.recs) : Channel[q] # Channel[r]
  IN {Ok([o.x EXCEPT !.recs = Insert(@, r)]) :
      o \in IF listen THEN query(x) ELSE {Ok(x)}}

\* Mutant: erase(channel) for erase(i).
remove_receiver_Channel(x, r) ==
  LET y == Forget([x EXCEPT !.recs = SelectSeq(@, LAMBDA q : Channel[q] # Channel[r])], r)
  IN {Ok(y)}

\* The last receiver of a channel also stops listening to it; what that throws is
\* reported.
remove_receiver(x, r) ==
  LET y    == Forget([x EXCEPT !.recs = Erase(@, r)], r)
      gone == x.conn # Null /\ \A q \in Range(y.recs) : Channel[q] # Channel[r]
  IN IF ~gone THEN {Ok(y)}
     ELSE {IF o.exc = "ok" THEN o ELSE Ok(process_notice(o.x)) : o \in Exec(y)}

----------------------------------------------------------------------------
(* Transactions, as far as they concern callbacks.                         *)

\* unique<transaction_base>: one at a time.
Register(x) ==
  IF x.trans # 0 THEN {Out(x, "usage")} ELSE {Ok([x EXCEPT !.trans = Depth(x) + 1])}

Unregister(x) == [x EXCEPT !.trans = 0, !.over = FALSE]

\* The constructor registers the transaction first: its get_notifs() only reads.
Begin(x) ==
  Then(Register(x), LAMBDA y :
    {IF o.exc = "ok" THEN o ELSE Out(Unregister(o.x), o.exc) :
     o \in Then(get_notifs(y, "no"), Exec)})

\* commit() talks to the backend while the transaction is registered, and leaves
\* it so when it fails.  If that is because the link went down, the transaction
\* is in doubt, and two notices tell of it.
Commit(x) ==
  LET ended == [x EXCEPT !.over = TRUE]
      refused == IF x.status[x.conn] = "ok" THEN {Out(ended, "sql")} ELSE {}
  IN IF x.over THEN {Out(x, "usage")}
     ELSE IF ~is_open(x) THEN {Out(x, "broken")}
     ELSE {IF o.exc = "ok" THEN Ok(Unregister(o.x))
           ELSE Out(process_notice(Push([o.x EXCEPT !.over = TRUE],
                                        Frame("commit", "caught", "no"))),
                    "in_doubt") : o \in Exec(x)} \cup refused

\* End(), called by the destructor, unregisters it and then rolls back if it is
\* active; abort() ignores what that throws.
Abandon(x) ==
  IF x.over THEN {Ok(Unregister(x))} ELSE {Ok(o.x) : o \in Exec(Unregister(x))}

----------------------------------------------------------------------------
(* close().                                                                *)

Closed(x) ==
  do_disconnect([x EXCEPT !.recs = <<>>, !.handlers = <<>>, !.homed = {},
                          !.obj = "gone", !.trans = 0, !.over = FALSE])

CloseStep(x, f) ==
  IF f.pc = "trans"
  THEN LET y == SetTop(x, [f EXCEPT !.pc = "receivers"])
       IN IF x.trans # 0 THEN process_notice(y) ELSE y
  ELSE IF f.pc = "receivers"
  THEN LET y == SetTop(x, [f EXCEPT !.pc = "handlers"])
       IN IF x.recs # <<>> THEN process_notice(y) ELSE y
  ELSE Closed(Pop(x))

close(x) == Push([x EXCEPT !.completed = FALSE], Frame("close", "trans", "no"))

----------------------------------------------------------------------------
(* The client's code, at the outside or in a callback.                     *)

InReceiver == Depth(c) > 0 /\ Top(c).pc = "in" /\ Top(c).kind = "notifs"

InHandler == Depth(c) > 0 /\ Top(c).pc = "in" /\ Top(c).kind = "notice"

\* A callback makes a limited number of calls, which Spend() counts.
MayCall == Depth(c) < MaxDepth /\ Top(c).ops < MaxOps

\* Handlers come and go at the outside or in handlers, which do nothing else.
Client == c.obj = "live" /\ (Depth(c) = 0 \/ (InReceiver /\ MayCall))

HandlerClient == c.obj = "live" /\ (Depth(c) = 0 \/ (InHandler /\ MayCall))

\* The client gets what the call returns or throws.
Call(os) == (\E o \in os : c' = o.x) /\ UNCHANGED sent

Spend(x) == IF Depth(x) = 0 THEN x ELSE SetTop(x, [Top(x) EXCEPT !.ops = @ + 1])

Deliveries(x) == {f \in Range(x.stack) : f.kind = "notifs" /\ f.msg # 0}

Notices(x) == {f \in Range(x.stack) : f.kind = "notice"}

\* The constructor of a connection; one that throws leaves no object.
Construct ==
  /\ c.obj = "none"
  /\ Call({IF o.exc = "ok" THEN Ok([o.x EXCEPT !.obj = "live"]) ELSE o : o \in init(c)})

Activate == Client /\ Call(activate(Spend(c)))

DatabaseName == Client /\ Call(dbname(Spend(c)))

Deactivate == Client /\ Call(deactivate(Spend(c)))

Disconnect == Client /\ Call({Ok(disconnect(Spend(c)))})

GetNotifs == Client /\ Call(get_notifs(Spend(c), "no"))

AwaitNotification(await) ==
  Client /\ Depth(c) = 0 /\ Call(await_notification(c, await))

\* Objects of a kind are interchangeable: a new one is any that is not in use.
Unused(kind, used) ==
  IF c.policy \notin Watched \/ kind \subseteq used THEN {}
  ELSE {CHOOSE e \in kind : e \notin used}

NewReceiver(r) ==
  /\ Client
  /\ r \in Unused({q \in Receiver : Channel[q] = Channel[r]}, Range(c.recs))
  /\ \/ "add_within" \in Liberties
     \/ LET i == Position(c.recs, lower_bound(c.recs, Channel[r])) IN
        \A f \in Deliveries(c) :
          i \notin Position(c.recs, f.at) + 1 .. Position(c.recs, f.stop)
  /\ Call(add_receiver(Spend(c), r))

DeleteReceiver(r) ==
  /\ Client /\ r \in Range(c.recs)
  /\ \A f \in Deliveries(c) : /\ r = f.at => "destroy_current" \in Liberties
                              /\ r = f.stop => "destroy_bound" \in Liberties
  /\ Call(remove_receiver(Spend(c), r))

NewHandler(h) ==
  /\ HandlerClient /\ h \in Unused(Handler, c.homed)
  /\ (\E f \in Notices(c) : f.at = End) => "add_within" \in Liberties
  /\ Call({Ok(register_errorhandler(Spend(c), h))})

DeleteHandler(h) ==
  /\ HandlerClient /\ h \in c.homed
  /\ \A f \in Notices(c) :
       /\ h = Pred(c.handlers, f.at) => "destroy_current" \in Liberties
       /\ h \in {f.at, f.stop} => "destroy_bound" \in Liberties
  /\ Call({Ok(unregister(Spend(c), h))})

ProcessNotice == HandlerClient /\ Call({Ok(process_notice(Spend(c)))})

BeginTransaction == Client /\ Call(Begin(Spend(c)))

\* Who opened the transaction ends it.
Owner == /\ c.obj = "live" /\ (Depth(c) = 0 \/ InReceiver)
         /\ c.trans = Depth(c) + 1

CommitTransaction == Owner /\ Call(Commit(c))

AbandonTransaction == Owner /\ Call(Abandon(c))

Close == Client /\ Depth(c) = 0 /\ Call({Ok(close(c))})

ReceiverReturn(throws) ==
  /\ InReceiver
  /\ c.trans = Depth(c) + 1 => "leave_open" \in Liberties
  /\ Call({Ok(ReceiverReturns(c, Top(c), throws))})

HandlerReturn(goon) == InHandler /\ Call({Ok(HandlerReturns(c, Top(c), goon))})

----------------------------------------------------------------------------
(* The library's own steps, and the world outside.                         *)

Loop ==
  /\ Depth(c) > 0 /\ Top(c).pc = "loop"
  /\ Call({Ok(IF Top(c).kind = "notice" THEN CallHandler(c, Top(c))
                                        ELSE CallReceiver(c, Top(c)))})

\* Behind the notice of what a receiver threw, or behind the first of two.
Caught ==
  /\ Depth(c) > 0 /\ Top(c).pc = "caught"
  /\ Call({Ok(IF Top(c).kind = "commit" THEN process_notice(Pop(c))
                                          ELSE NextReceiver(c, Top(c)))})

Readable == c.inbox # <<>> \/ c.conn = Null \/ c.status[c.conn] # "ok"

\* Without a time-out the call waits for input.
Wait ==
  /\ Depth(c) > 0 /\ Top(c).pc = "wait"
  /\ Top(c).await = "timed" \/ Readable
  /\ Call(Waited(c))

Closing == Depth(c) > 0 /\ Top(c).kind = "close" /\ Call({Ok(CloseStep(c, Top(c)))})

\* Session.ReceiversListen: the backend sends what there are receivers for.
Notify(ch) ==
  /\ sent < MaxSent /\ is_open(c) /\ c.status[c.conn] = "ok"
  /\ \E r \in Range(c.recs) : Channel[r] = ch
  /\ c' = [c EXCEPT !.inbox = Append(@, ch)]
  /\ sent' = sent + 1

LinkLost ==
  /\ c.conn # Null /\ c.status[c.conn] = "ok"
  /\ c' = [c EXCEPT !.status[c.conn] = "lost"]
  /\ UNCHANGED sent

Policies == {"direct", "lazy", "async", "null"}

Init ==
  /\ \E p \in Policies :
       c = [policy |-> p, conn |-> Null, completed |-> FALSE, connecting |-> FALSE,
            status |-> [h \in Handle |-> "free"], inbox |-> <<>>, obj |-> "none",
            trans |-> 0, over |-> FALSE, recs |-> <<>>, handlers |-> <<>>, homed |-> {},
            stack |-> <<>>]
  /\ sent = 0

Library == Loop \/ Caught \/ Wait \/ Closing

Return == (\E b \in BOOLEAN : ReceiverReturn(b)) \/ (\E b \in BOOLEAN : HandlerReturn(b))

Program ==
  \/ Construct \/ Activate \/ DatabaseName \/ Deactivate \/ Disconnect \/ GetNotifs
  \/ \E await \in {"block", "timed"} : AwaitNotification(await)
  \/ \E r \in Receiver : NewReceiver(r) \/ DeleteReceiver(r)
  \/ \E h \in Handler : NewHandler(h) \/ DeleteHandler(h)
  \/ ProcessNotice \/ BeginTransaction \/ CommitTransaction
  \/ AbandonTransaction \/ Close \/ Return

Next ==
  Library \/ Program \/ (\E r \in Receiver : Notify(Channel[r])) \/ LinkLost

Spec == Init /\ [][Next]_vars

\* The library runs, and callbacks return, once their transaction is ended.
FairSpec ==
  /\ Spec /\ WF_vars(Library) /\ WF_vars(Return)
  /\ WF_vars(InReceiver /\ AbandonTransaction)

----------------------------------------------------------------------------
(* Properties.                                                             *)

FrameType ==
  [kind : {"notifs", "notice", "commit", "close"},
   pc : {"loop", "in", "caught", "wait", "trans", "receivers", "handlers"},
   await : {"no", "block", "timed"},
   msg : {0} \cup Range(Channel), at : Receiver \cup Handler \cup {End},
   stop : Receiver \cup Handler \cup {End},
   called : Seq(Receiver) \cup Seq(Handler),
   due : (SUBSET Receiver) \cup (SUBSET Handler), ops : 0..MaxOps]

\* Every piece of state has its type, m_receivers is sorted by channel without
\* repetition, and all calls in progress but the last are in a callback or
\* handle what one has thrown.
TypeOK ==
  /\ c.policy \in Policies /\ c.conn \in Handle \cup {Null}
  /\ c.completed \in BOOLEAN /\ c.connecting \in BOOLEAN
  /\ c.status \in [Handle -> {"free", "connecting", "ok", "lost", "bad"}]
  /\ c.inbox \in Seq(Range(Channel)) /\ c.obj \in {"none", "live", "gone"}
  /\ c.trans \in Nat /\ c.over \in BOOLEAN /\ c.homed \subseteq Handler
  /\ c.recs \in Seq(Receiver) /\ c.handlers \in Seq(Handler)
  /\ c.stack \in Seq(FrameType) /\ sent \in 0..MaxSent
  /\ \A i, j \in DOMAIN c.recs :
       i < j => c.recs[i] # c.recs[j] /\ Channel[c.recs[i]] <= Channel[c.recs[j]]
  /\ \A i \in 1..Depth(c) - 1 :
       c.stack[i].kind = "close" \/ c.stack[i].pc \in {"in", "caught"}

\* get_notifs() and process_notice_raw(): whatever callbacks do to receivers and
\* handlers, at any depth, the iterators of the calls in progress point into the
\* container, and the bound of each is still ahead of it.
IteratorsValid ==
  /\ \A f \in Deliveries(c) :
       /\ {f.at, f.stop} \subseteq Range(c.recs) \cup {End}
       /\ Position(c.recs, f.at) <= Position(c.recs, f.stop)
  /\ \A f \in Notices(c) :
       /\ {f.at, f.stop} \subseteq Range(c.handlers) \cup {End}
       /\ Position(c.handlers, f.stop) <= Position(c.handlers, f.at)

\* get_notifs(): a notification goes to the receivers of its channel and to no
\* other, to each at most once and without skipping one that exists throughout,
\* also when receivers throw, come and go, or have others delivered.
DeliveredOnce ==
  \A f \in Deliveries(c) :
    /\ IsInjective(f.called)
    /\ \A r \in Range(f.called) : Channel[r] = f.msg
    /\ \A r \in f.due :
         r \in Range(f.called) <=>
           \/ Position(c.recs, r) < Position(c.recs, f.at)
           \/ r = f.at /\ f.pc # "loop"

\* process_notice_raw(): a message goes from the newest handler to the oldest, to
\* each at most once, and skips none that exists throughout.
NoticeInOrder ==
  \A f \in Notices(c) :
    /\ IsInjective(f.called)
    /\ \A h \in f.due :
         h \in Range(f.called) <=>
           \/ Position(c.handlers, h) >= Position(c.handlers, f.at)
           \/ f.pc = "in" /\ h = Pred(c.handlers, f.at)
    /\ \A i, j \in DOMAIN f.called :
         i < j /\ {f.called[i], f.called[j]} \subseteq f.due =>
           Position(c.handlers, f.called[i]) > Position(c.handlers, f.called[j])

\* errorhandler and connection_base: a handler knows its connection if and only
\* if the connection knows it, and neither outlives close() in the other.
HandlersKnow ==
  /\ Range(c.handlers) = c.homed /\ IsInjective(c.handlers)
  /\ c.obj = "gone" => c.homed = {}

\* The policies, activate() and close(): the connection owns every libpq
\* connection that exists; none is left behind by a failed attempt, or at the end.
HandlesOwned ==
  /\ \A h \in Handle : c.status[h] # "free" => c.conn = h
  /\ c.obj # "live" => c.conn = Null

\* activate(): however the connection broke and whatever the policy, an attempt
\* that fails leaves it such that the next one can succeed.
Recovers ==
  c.policy # "null" =>
    \A o \in activate(c) : is_open(o.x) \/ \E p \in activate(o.x) : p.exc = "ok"

\* get_notifs(): no receiver is called while a transaction is open, even if
\* another receiver opened it.
NeverInTransaction ==
  [][Depth(c') = Depth(c) /\ InReceiver' /\ Top(c).pc = "loop" => c.trans = 0]_vars

\* get_notifs(), process_notice_raw(): neither is done with a notification or a
\* message before it has reached all that have been there to receive it, unless a
\* handler says so.
ReachesAll ==
  [][/\ Depth(c) > 0 /\ Top(c).pc = "loop"
     /\ Depth(c') < Depth(c) \/ Top(c').msg # Top(c).msg
     => Top(c).due \subseteq Range(Top(c).called)]_vars

\* get_notifs(), process_notice(), close(): they return, however callbacks are
\* nested, unless the client waits for a notification that does not come.
CallsEnd == []<>(Depth(c) = 0 \/ Top(c).pc = "wait")

\* Receivers and handlers may come and go in the middle of a delivery: those that
\* are called exist and are called in order, and those that survive the connection
\* know that it is gone.
CallbacksSafe == TypeOK /\ IteratorsValid /\ NoticeInOrder /\ HandlersKnow

\* However an attempt to connect ends, and whenever the link breaks, no handle of
\* libpq is left over and the next call can start again.
ConnectionSound == HandlesOwned /\ Recovers

\* Deliveries are complete, and never in a transaction.
DeliveryProper == ReachesAll /\ NeverInTransaction
=============================================================================
