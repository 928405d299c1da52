------------------------------ MODULE MidlClient ------------------------------
(***************************************************************************)
(* The client that midl generates (midl/src/codegen/rust.rs): the tasks of *)
(* one process share one connection, and so one inbox, in which replies,   *)
(* store events and other messages arrive mixed.  A small router sorts     *)
(* them: whoever holds the fetch lock fetches, keeps what is not its own   *)
(* for the others, and goes on until it has what it waits for.             *)
(*                                                                         *)
(* A task is of one of three kinds: a caller awaits the reply to a         *)
(* function, a watcher the next event of a store subscription, a drainer   *)
(* the next message of any kind but a reply.  The inbox stands for the     *)
(* connection's inbox of Motherboard, whose messages come from the kernel: *)
(* here Answer, Publish and Announce.  A step of a task runs from one      *)
(* await to the next; the locks on the two caches are never held across an *)
(* await, so a step has them for itself.  The fetch lock is, and           *)
(* tokio hands it out in the order in which the tasks asked.               *)
(***************************************************************************)
EXTENDS Common, Naturals, Sequences, SequencesExt

CONSTANTS
    Callers, Watchers, Drainers,  \* tasks
    MaxCalls, MaxEvents, MaxNews, \* bounds on what is called, published, announced
    MaxArrivals,                  \* bound on the three together
    BadEvents,                    \* the events that may be undecodable
    Abandoners                    \* the tasks that may give up: a timeout, an error

ASSUME ClientBounds == {MaxCalls, MaxEvents, MaxNews, MaxArrivals} \subseteq Nat
                       /\ BadEvents \subseteq Nat
ASSUME DistinctTasks == /\ Callers \cap Watchers = {}
                        /\ Drainers \cap (Callers \cup Watchers) = {}
                        /\ Abandoners \subseteq Callers \cup Watchers \cup Drainers

Tasks == Callers \cup Watchers \cup Drainers

Reply(id) == [kind |-> "reply", id |-> id]
Event(w, n, good) == [kind |-> "event", to |-> w, n |-> n, good |-> good]
News(n) == [kind |-> "news", n |-> n]

InboxMessage ==
    {Reply(id) : id \in 1 .. MaxCalls}
        \cup {Event(w, n, good) : w \in Watchers, n \in 1 .. MaxEvents, good \in BOOLEAN}
        \cup {News(n) : n \in 1 .. MaxNews}

ASSUME NilIsNoMessage == Nil \notin InboxMessage

(* Mutated form of IsReply: everything but store events is cached with the *)
(* replies.                                                                *)
IsNoEvent(m) == m.kind # "event"

IsReply(m) == m.kind = "reply"

(* What decode_store_event takes for its own, whether it decodes or not *)
IsOwn(w, m) == m.kind = "event" /\ m.to = w

VARIABLES
    inbox,      \* the connection's inbox, in the kernel
    fetchLock,  \* fetch_lock: its holder, then the tasks that wait for it
    replies,    \* replies: the cached replies
    messages,   \* messages: the cached messages of other kinds
    at,         \* where each task is in its function
    hand,       \* the message a task has fetched or taken and not yet sorted
    request,    \* the request id a caller waits for
    nextId,     \* requests made: next_request_id
    sent,       \* history: what the kernel put in the inbox
    delivered,  \* history: what each task's function returned
    dropped     \* history: what a decoding error or a dropped future took with it

router == <<inbox, fetchLock, replies, messages>>
vars == <<router, at, hand, request, nextId, sent, delivered, dropped>>

Points == {"idle", "looking", "scanning", "taking", "locking", "fetching",
           "sorting", "deciding"}

Init ==
    /\ inbox = <<>> /\ fetchLock = <<>> /\ replies = {} /\ messages = <<>>
    /\ at = [t \in Tasks |-> "idle"]
    /\ hand = [t \in Tasks |-> Nil]
    /\ request = [c \in Callers |-> 0]
    /\ nextId = 0
    /\ sent = {} /\ dropped = {}
    /\ delivered = [t \in Tasks |-> <<>>]

Goto(t, point) == at' = [at EXCEPT ![t] = point]

(* The function of t ends with m *)
Return(t, m) ==
    /\ Goto(t, "idle")
    /\ delivered' = [delivered EXCEPT ![t] = Append(@, m)]

Holds(t) == fetchLock # <<>> /\ Head(fetchLock) = t

AskForLock(t) == fetchLock' = Append(fetchLock, t) /\ Goto(t, "locking")

(* Mutated form of Release: the guard outlives the function. *)
KeepHolding == fetchLock' = fetchLock

(* The end of the guard's scope *)
Release == fetchLock' = Tail(fetchLock)
-----------------------------------------------------------------------------
(* The kernel's side, see Motherboard: the service answers a call, a       *)
(* subscribed store has an event, something else happens.                  *)

Arrive(m) ==
    /\ Cardinality(sent) < MaxArrivals
    /\ inbox' = Append(inbox, m)
    /\ sent' = sent \cup {m}
    /\ UNCHANGED <<fetchLock, replies, messages, at, hand, request, nextId,
                   delivered, dropped>>

Answer ==
    \E id \in 1 .. nextId : Reply(id) \notin sent /\ Arrive(Reply(id))

Publish ==
    \E w \in Watchers, n \in 1 .. MaxEvents, good \in BOOLEAN :
        /\ good \/ n \in BadEvents
        /\ \A m \in sent : IsOwn(w, m) => m.n < n
        /\ \A k \in 1 .. n - 1 : \E m \in sent : IsOwn(w, m) /\ m.n = k
        /\ Arrive(Event(w, n, good))

Announce ==
    \E n \in 1 .. MaxNews :
        /\ News(n) \notin sent
        /\ \A k \in 1 .. n - 1 : News(k) \in sent
        /\ Arrive(News(n))
-----------------------------------------------------------------------------
(* A generated function, up to the call of wait_for_reply.  A call that    *)
(* the kernel refuses ends here with its error and is left out.            *)
Call(c) ==
    /\ at[c] = "idle" /\ nextId < MaxCalls
    /\ nextId' = nextId + 1
    /\ request' = [request EXCEPT ![c] = nextId']
    /\ Goto(c, "looking")
    /\ UNCHANGED <<router, hand, sent, delivered, dropped>>

Awaited(c) == Reply(request[c])

TakeReply(c) ==
    /\ Awaited(c) \in replies
    /\ replies' = replies \ {Awaited(c)}
    /\ Return(c, Awaited(c))

(* wait_for_reply, before the fetch lock *)
LookForReply(c) ==
    /\ at[c] = "looking"
    /\ \/ TakeReply(c) /\ UNCHANGED fetchLock
       \/ /\ Awaited(c) \notin replies
          /\ AskForLock(c)
          /\ UNCHANGED <<replies, delivered>>
    /\ UNCHANGED <<inbox, messages, hand, request, nextId, sent, dropped>>

(* Mutated form of LookAgain: the cache is not read again under the lock. *)
FetchAtOnce(c) ==
    /\ at[c] = "locking" /\ Holds(c)
    /\ Goto(c, "fetching")
    /\ UNCHANGED <<router, delivered, hand, request, nextId, sent, dropped>>

(* The head of the loop of wait_for_reply, under the fetch lock *)
LookAgain(c) ==
    /\ at[c] = "locking" /\ Holds(c)
    /\ \/ TakeReply(c) /\ Release
       \/ /\ Awaited(c) \notin replies
          /\ Goto(c, "fetching")
          /\ UNCHANGED <<replies, fetchLock, delivered>>
    /\ UNCHANGED <<inbox, messages, hand, request, nextId, sent, dropped>>

(* fetch_async: it waits on the latch until the inbox has a message *)
Fetch(t) ==
    /\ at[t] = "fetching" /\ inbox # <<>>
    /\ hand' = [hand EXCEPT ![t] = Head(inbox)]
    /\ inbox' = Tail(inbox)
    /\ Goto(t, "sorting")
    /\ UNCHANGED <<fetchLock, replies, messages, request, nextId, sent,
                   delivered, dropped>>

(* Mutated form of KeepMessage: the newest message goes to the front. *)
KeepMessageFirst(m) == messages' = <<m>> \o messages

KeepMessage(m) == messages' = Append(messages, m)

(* Mutated form of KeepReply: the reply to another call is thrown away. *)
ForgetReply(m) == replies' = replies

KeepReply(m) == replies' = replies \cup {m}

(* The match at the end of the loop of wait_for_reply *)
SortForCall(c) ==
    /\ at[c] = "sorting"
    /\ hand' = [hand EXCEPT ![c] = Nil]
    /\ \/ /\ hand[c] = Awaited(c)
          /\ Return(c, hand[c]) /\ Release
          /\ UNCHANGED <<replies, messages>>
       \/ /\ IsReply(hand[c]) /\ hand[c] # Awaited(c)
          /\ KeepReply(hand[c]) /\ Goto(c, "locking")
          /\ UNCHANGED <<messages, fetchLock, delivered>>
       \/ /\ ~IsReply(hand[c])
          /\ KeepMessage(hand[c]) /\ Goto(c, "locking")
          /\ UNCHANGED <<replies, fetchLock, delivered>>
    /\ UNCHANGED <<inbox, request, nextId, sent, dropped>>
-----------------------------------------------------------------------------
(* The scan of the cache by next_event: the first message of its own is    *)
(* taken out, and what came before is put back.  If that message does not  *)
(* decode, the error leaves the function with what came before.            *)
Scan(w) ==
    LET own == {i \in DOMAIN messages : IsOwn(w, messages[i])}
    IN  /\ \/ /\ own = {}
              /\ Goto(w, "taking")
              /\ UNCHANGED <<messages, delivered, dropped>>
           \/ \E first \in own :
              /\ \A i \in own : first <= i
              /\ \/ /\ messages[first].good
                    /\ messages' = RemoveAt(messages, first)
                    /\ Return(w, messages[first])
                    /\ UNCHANGED dropped
                 \/ /\ ~messages[first].good
                    /\ messages' = SubSeq(messages, first + 1, Len(messages))
                    /\ dropped' = dropped \cup {messages[i] : i \in 1 .. first}
                    /\ Goto(w, "idle")
                    /\ UNCHANGED delivered
        /\ UNCHANGED <<inbox, fetchLock, replies, hand, request, nextId, sent>>

(* super_next_message ends with m: next_message returns it, next_event     *)
(* looks whether it is its own.                                            *)
Got(t, m) ==
    \/ t \in Drainers /\ Return(t, m) /\ hand' = [hand EXCEPT ![t] = Nil]
    \/ /\ t \in Watchers
       /\ Goto(t, "deciding") /\ hand' = [hand EXCEPT ![t] = m]
       /\ UNCHANGED delivered

TakeMessage(t) ==
    /\ messages # <<>>
    /\ messages' = Tail(messages)
    /\ Got(t, Head(messages))

(* super_next_message, before the fetch lock *)
LookForMessage(t) ==
    /\ \/ TakeMessage(t) /\ UNCHANGED fetchLock
       \/ /\ messages = <<>>
          /\ AskForLock(t)
          /\ UNCHANGED <<messages, hand, delivered>>
    /\ UNCHANGED <<inbox, replies, request, nextId, sent, dropped>>

(* Mutated form of LookForMessageAgain: the cache is not read again. *)
FetchMessageAtOnce(t) ==
    /\ at[t] = "locking" /\ t \notin Callers /\ Holds(t)
    /\ Goto(t, "fetching")
    /\ UNCHANGED <<router, hand, request, nextId, sent, delivered, dropped>>

(* The head of the loop of super_next_message, under the fetch lock *)
LookForMessageAgain(t) ==
    /\ at[t] = "locking" /\ t \notin Callers /\ Holds(t)
    /\ \/ TakeMessage(t) /\ Release
       \/ /\ messages = <<>>
          /\ Goto(t, "fetching")
          /\ UNCHANGED <<messages, fetchLock, hand, delivered>>
    /\ UNCHANGED <<inbox, replies, request, nextId, sent, dropped>>

(* The match at the end of the loop of super_next_message *)
SortForMessage(t) ==
    /\ at[t] = "sorting" /\ t \notin Callers
    /\ \/ /\ IsReply(hand[t])
          /\ KeepReply(hand[t]) /\ Goto(t, "locking")
          /\ hand' = [hand EXCEPT ![t] = Nil]
          /\ UNCHANGED <<fetchLock, delivered>>
       \/ /\ ~IsReply(hand[t])
          /\ Got(t, hand[t]) /\ Release
          /\ UNCHANGED replies
    /\ UNCHANGED <<inbox, messages, request, nextId, sent, dropped>>

(* The end of the loop of next_event *)
Decide(w) ==
    /\ at[w] = "deciding"
    /\ hand' = [hand EXCEPT ![w] = Nil]
    /\ \/ /\ IsOwn(w, hand[w]) /\ hand[w].good
          /\ Return(w, hand[w])
          /\ UNCHANGED <<messages, dropped>>
       \/ /\ IsOwn(w, hand[w]) /\ ~hand[w].good
          /\ Goto(w, "idle") /\ dropped' = dropped \cup {hand[w]}
          /\ UNCHANGED <<messages, delivered>>
       \/ /\ ~IsOwn(w, hand[w])
          /\ KeepMessage(hand[w]) /\ Goto(w, "scanning")
          /\ UNCHANGED <<delivered, dropped>>
    /\ UNCHANGED <<inbox, fetchLock, replies, request, nextId, sent>>
-----------------------------------------------------------------------------
(* Mutated form of GiveUp: the guard is not released. *)
GiveUpHolding(t) == UNCHANGED fetchLock

(* The guard, or the place in the queue for it, goes with the future. *)
GiveUp(t) ==
    \/ t \notin Range(fetchLock) /\ UNCHANGED fetchLock
    \/ \E i \in DOMAIN fetchLock :
          fetchLock[i] = t /\ fetchLock' = RemoveAt(fetchLock, i)

(* The future of t is dropped where it waits, or its fetch has an error:   *)
(* what it had in hand is gone, and nobody will take the reply to a call.  *)
Abandon(t) ==
    /\ t \in Abandoners /\ at[t] # "idle"
    /\ GiveUp(t)
    /\ hand' = [hand EXCEPT ![t] = Nil]
    /\ dropped' = dropped \cup ({hand[t]} \ {Nil})
    /\ Goto(t, "idle")
    /\ UNCHANGED <<inbox, replies, messages, request, nextId, sent, delivered>>
-----------------------------------------------------------------------------
CallerStep(c) == LookForReply(c) \/ LookAgain(c) \/ Fetch(c) \/ SortForCall(c)

MessageStep(t) == LookForMessageAgain(t) \/ Fetch(t) \/ SortForMessage(t)

(* The application calls next_event of a subscription, or next_message. *)
NextEvent(w) == at[w] = "idle" /\ Scan(w)
NextMessage(d) == at[d] = "idle" /\ LookForMessage(d)

ScanAgain(w) == at[w] = "scanning" /\ Scan(w)
SuperNextMessage(w) == at[w] = "taking" /\ LookForMessage(w)

WatcherStep(w) == ScanAgain(w) \/ SuperNextMessage(w) \/ MessageStep(w) \/ Decide(w)

Next ==
    \/ Answer \/ Publish \/ Announce
    \/ \E c \in Callers : Call(c) \/ CallerStep(c)
    \/ \E w \in Watchers : NextEvent(w) \/ WatcherStep(w)
    \/ \E d \in Drainers : NextMessage(d) \/ MessageStep(d)
    \/ \E t \in Tasks : Abandon(t)

Spec == Init /\ [][Next]_vars

(* The executor polls every task that can go on.  Nothing makes the        *)
(* application call a function, or a service answer.                       *)
FairSpec ==
    /\ Spec
    /\ \A c \in Callers : WF_vars(CallerStep(c))
    /\ \A w \in Watchers : WF_vars(WatcherStep(w))
    /\ \A d \in Drainers : WF_vars(MessageStep(d))
-----------------------------------------------------------------------------
(* Type correctness of the client's state (ClientState and the tasks).     *)
ClientTypeOK ==
    /\ inbox \in Seq(InboxMessage)
    /\ fetchLock \in Seq(Tasks)
    /\ replies \subseteq {Reply(id) : id \in 1 .. MaxCalls}
    /\ messages \in Seq(InboxMessage)
    /\ \A i \in DOMAIN messages : ~IsReply(messages[i])
    /\ at \in [Tasks -> Points]
    /\ hand \in [Tasks -> InboxMessage \cup {Nil}]
    /\ request \in [Callers -> 0 .. MaxCalls]
    /\ nextId \in 0 .. MaxCalls
    /\ sent \subseteq InboxMessage
    /\ delivered \in [Tasks -> Seq(InboxMessage)]
    /\ dropped \subseteq InboxMessage

(* Where a message can be: the places, each with how often it is there. *)
Occurrences(m, s) == {i \in DOMAIN s : s[i] = m}

Places(m) ==
    (Occurrences(m, inbox) \X {"inbox"})
        \cup (Occurrences(m, messages) \X {"messages"})
        \cup ((replies \cap {m}) \X {"replies"})
        \cup ((dropped \cap {m}) \X {"dropped"})
        \cup ({t \in Tasks : hand[t] = m} \X {"hand"})
        \cup UNION {Occurrences(m, delivered[t]) \X {t} : t \in Tasks}

(* The router neither loses nor doubles a message (rust-mapping.md:207,    *)
(* "must never discard messages"): each is in the inbox, in a cache, in    *)
(* one task's hands or was returned, once, except for what a decoding      *)
(* error of next_event or a dropped future takes with it.                  *)
NothingDiscarded ==
    \A m \in sent : \E p \in Places(m) : Places(m) = {p}

(* wait_for_reply reads the cache again once it has the lock, because the  *)
(* holder before it may have fetched its reply: no task sits in the fetch  *)
(* while the reply it waits for is in the cache.                           *)
NobodyFetchesPastItsReply ==
    \A c \in Callers : at[c] \in {"fetching", "sorting"} => Awaited(c) \notin replies

(* The events of the only subscription of a process are returned in the    *)
(* order in which they were published, whichever task fetched them.  Two   *)
(* subscriptions break this: the one pushes the other's event back behind  *)
(* a later one.                                                            *)
EventsInOrder ==
    \A w \in Watchers : \A i, j \in DOMAIN delivered[w] :
        i < j => delivered[w][i].n < delivered[w][j].n

Waiting(c) == at[c] # "idle" /\ Awaited(c) \in sent \ dropped

HasCachedEvent(w) == \E m \in Range(messages) : IsOwn(w, m)

(* The holder of the fetch lock waits for a message that does not come.    *)
LockIsBusy ==
    /\ inbox = <<>> /\ fetchLock # <<>>
    /\ LET holder == Head(fetchLock) IN
          /\ at[holder] = "fetching"
          /\ holder \in Callers => Awaited(holder) \notin sent \ dropped
          /\ holder \in Watchers => ~HasCachedEvent(holder)

(* A call whose reply was sent, and not lost with the future of a task     *)
(* that had fetched it, returns, unless from some time on the holder of    *)
(* the fetch lock waits for a message that does not come: the lock is      *)
(* fair, every other holder gives it up, and no reply is overlooked in the *)
(* cache.                                                                  *)
CallsAreAnswered ==
    \A c \in Callers : [](Waiting(c) => <>(~Waiting(c) \/ []LockIsBusy))

(* An event of w waits in the inbox or the cache, and w waits for it. *)
Expecting(w) ==
    /\ at[w] # "idle"
    /\ HasCachedEvent(w) \/ \E m \in Range(inbox) : IsOwn(w, m)

(* next_event takes a message that is not its own from the cache, puts it  *)
(* back and takes it again, without ever asking for the fetch lock.        *)
Spins(w) == at[w] \in {"scanning", "taking", "deciding"}

(* The two ways in which next_event misses an event that is there: the     *)
(* holder of the fetch lock waits for ever, or next_event itself spins on  *)
(* a cached message that nobody takes.                                     *)
EventsAreReturned ==
    \A w \in Watchers :
        [](Expecting(w) => <>(~Expecting(w) \/ []LockIsBusy \/ []Spins(w)))

(* "AuthService::method(...).await waits only for its matching reply"      *)
(* (midl/docs/rust-mapping.md:213): once the reply was sent, the call      *)
(* returns.  The code waits for the fetch lock as well, see LockIsBusy.    *)
WaitsOnlyForItsReply == \A c \in Callers : Waiting(c) ~> ~Waiting(c)
==============================================================================
