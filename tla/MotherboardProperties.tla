------------------------- MODULE MotherboardProperties -------------------------
(***************************************************************************)
(* What the bus promises, over the model of Motherboard.                   *)
(***************************************************************************)
EXTENDS Motherboard

(* The types of what calls use, of what stores use, and of what the        *)
(* processes and the kernel's file table keep.                             *)
CallTypes ==
    /\ services \in [ServiceNames -> [file : FileIds, queue : Seq(QueuedRequest)] \union {Nil}]
    /\ inboxes \in [FileIds -> Inbox(Message) \union {Nil}]
    /\ replyTokens \in [next : Tokens, pending : SUBSET PendingReply]

StoreTypes ==
    /\ subTokens \in [next : Tokens, pending : SUBSET PendingSubscription]
    /\ stores \in [Paths -> NamedStore \union {Nil}]
    /\ anonymous \in [AnonymousIds -> AnonymousStore(ServiceNames, FileIds) \union {Nil}]
    /\ nextAnonymous \in Nat \ {0}
    /\ nextTimestamp \in Nat \ {0}
    /\ subs \subseteq Subscription

FileTypes ==
    /\ open \subseteq FileIds
    /\ origin \in [FileIds -> Nat]
    /\ lastCall \in [FileIds -> Nat]
    /\ lastSub \in [FileIds -> Nat]

ProcessTypes ==
    /\ latch \in [FileIds -> Nat \union {Nil}]
    /\ held \in [FileIds -> SUBSET (CallRequest \union SubscribeRequest)]
    /\ awaiting \in [FileIds -> SUBSET [call : CallIds, service : ServiceNames, inboxed : BOOLEAN]]
    /\ seen \in [FileIds -> [SubIds -> Nat]]

(* Every variable has its type: what the Rust declarations of State and of *)
(* the structures in it say, and the shape of the processes' own state.    *)
TypeOK == CallTypes /\ StoreTypes /\ FileTypes /\ ProcessTypes

MessagesOf(f) == IF inboxes[f] = Nil THEN <<>> ELSE inboxes[f].messages
Carried(f) == held[f] \union Range(MessagesOf(f))
QueueOf(s) == IF services[s] = Nil THEN <<>> ELSE services[s].queue

-------------------------------------------------------------------------------
(* Calls and replies *)

(* Nothing the kernel keeps outlives the connection it depends on: the     *)
(* provider of a service, the service that must answer a call, both sides  *)
(* of a pending subscription, a subscriber and the owner of an anonymous   *)
(* store are open files.  A single table forgotten by State::cleanup       *)
(* breaks it, and the FileId could then stand for another file.            *)
ServedByOpenFiles ==
    /\ \A s \in ServiceNames : services[s] # Nil => services[s].file \in open
    /\ \A p \in replyTokens.pending : p.service \in open
    /\ \A p \in subTokens.pending : p.service \in open /\ p.client \in open
    /\ \A s \in subs : s.file \in open
    /\ \A a \in AnonymousIds : anonymous[a] # Nil => anonymous[a].owner \in open

(* A token means one request: if a token a server was given, however long  *)
(* ago and whatever closed since, is still in the table, it stands for the *)
(* very call the request carried, made by the same connection and          *)
(* addressed to this server.  The same for subscription requests.          *)
TokensMatchRequests ==
    \A f \in FileIds :
        /\ \A m \in Carried(f), p \in replyTokens.pending :
              m.type = "FunctionCallRequest" /\ p.token = m.token =>
                  /\ p.service = f /\ p.call = m.call
                  /\ p.client = m.client /\ p.origin = m.origin
        /\ \A m \in Carried(f), p \in subTokens.pending :
              m.type = "SubscribeRequest" /\ p.token = m.token =>
                  p.service = f /\ p.id = m.id /\ p.target = m.target

(* A call has one life: it is in the queue of a service, or has a token,   *)
(* or its reply waits in an inbox, in one place and once only.  So it is   *)
(* delivered at most once and answered at most once, through queue, flush, *)
(* reply and clean-up ("kernel-issued and single-use", README.md).         *)
CallsAreConserved ==
    \A f \in FileIds, o \in 1 .. MaxOpens, c \in 1 .. MaxCalls :
        LET same(x) == x.client = f /\ x.origin = o /\ x.call = c
            reply(m) == m.type = "FunctionCallReply" /\ same(m)
            queued == UNION {{<<s, i>> : i \in {j \in DOMAIN QueueOf(s) : same(QueueOf(s)[j])}} :
                                 s \in ServiceNames}
            given == {p \in replyTokens.pending : same(p)}
            replies == UNION {{<<g, i>> : i \in {j \in DOMAIN MessagesOf(g) :
                                                     reply(MessagesOf(g)[j])}} : g \in FileIds}
        IN  Cardinality(queued) + Cardinality(given) + Cardinality(replies) <= 1

(* The calls of one connection to one service are delivered in the order   *)
(* they were made, although they wait in two queues: what the server holds *)
(* comes before the requests in its inbox, and those before what is still  *)
(* in the queue of the service.                                            *)
CallsStayInOrder ==
    \A s \in ServiceNames : services[s] # Nil =>
        LET inbox == MessagesOf(services[s].file)
            queue == services[s].queue
            isCall(m) == m.type = "FunctionCallRequest" /\ m.service = s
            calls == {i \in DOMAIN inbox : isCall(inbox[i])}
            before(x, y) == x.client = y.client /\ x.origin = y.origin => x.call < y.call
        IN  /\ \A i, j \in calls : i < j => before(inbox[i], inbox[j])
            /\ \A i, j \in DOMAIN queue : i < j => before(queue[i], queue[j])
            /\ \A i \in calls, j \in DOMAIN queue : before(inbox[i], queue[j])
            /\ \A m \in held[services[s].file] : isCall(m) =>
                  /\ \A i \in calls : before(m, inbox[i])
                  /\ \A j \in DOMAIN queue : before(m, queue[j])

(* Only the server that was given a request answers it: when a token is    *)
(* used up and nobody closes, it is in the step by which the server the    *)
(* request was addressed to gives the request up ("forging a reply to a    *)
(* request it was never given", README.md).                                *)
NoForgedReplies ==
    [][open' = open =>
        \A p \in replyTokens.pending \ replyTokens'.pending :
            \E m \in held[p.service] \ held'[p.service] : m.token = p.token]_vars

(* A process that sleeps on a latch that has not tripped misses nothing:   *)
(* its inbox is empty and none of its services has calls ("the kernel      *)
(* trips it when new inbox work arrives", README.md).                      *)
NoLostWakeup ==
    \A f \in open :
        latch[f] # Nil /\ ~PollLatch(inboxes[f], latch[f]) =>
            /\ ~HasMessage(inboxes[f])
            /\ \A s \in ServicesOf(f) : services[s].queue = <<>>

(* The call can still end: it waits for the service, or the service has    *)
(* the request and its token, or the reply or the news that the service    *)
(* closed waits for the caller.                                            *)
Underway(f, c) ==
    LET same(x) == x.client = f /\ x.origin = origin[f] /\ x.call = c.call
    IN  \/ \E i \in DOMAIN QueueOf(c.service) : same(QueueOf(c.service)[i])
        \/ \E p \in replyTokens.pending :
              /\ same(p)
              /\ \E m \in held[p.service] \union Range(MessagesOf(p.service)) :
                    m.type = "FunctionCallRequest" /\ m.token = p.token
        \/ \E m \in Range(MessagesOf(f)) :
              \/ m.type = "FunctionCallReply" /\ same(m)
              \/ m.type = "ServiceClosed" /\ m.service = c.service

(* A caller that had fetched before it called (it has an inbox) is never   *)
(* left waiting for a call nobody can answer any more.                     *)
NoStrandedCaller ==
    \A f \in open : \A c \in awaiting[f] : c.inboxed => Underway(f, c)

(* A reply reaches the connection that made the call, and no other ("It    *)
(* prevents a service from replying to the wrong client", README.md).      *)
RepliesReachTheCaller ==
    \A f \in open : \A m \in Range(MessagesOf(f)) :
        m.type = "FunctionCallReply" => m.client = f /\ m.origin = origin[f]

(* Every call of a caller with an inbox ends: it is answered, or the       *)
(* caller learns that the service closed, or the caller closes.            *)
CallsSettle ==
    \A f \in FileIds, s \in ServiceNames : \A n \in 1 .. MaxCalls :
        LET c == [call |-> n, service |-> s, inboxed |-> TRUE]
        IN  (c \in awaiting[f]) ~> (c \notin awaiting[f])

(* How far a call is, from the places where it is: queued for a service,   *)
(* in the table of the tokens, in an inbox as a reply.  It is nowhere      *)
(* before it was made and after it ended, and in two places never.         *)
Calls == [client : Clients, origin : 1 .. MaxOpens, call : CallIds]

SameCall(x, y) == y.client = x.client /\ y.origin = x.origin /\ y.call = x.call
At(phase, by) == [phase |-> phase, by |-> by]

Places(x) ==
    {At("queued", Nil) : s \in {r \in ServiceNames :
                \E i \in DOMAIN QueueOf(r) : SameCall(x, QueueOf(r)[i])}}
    \union {At("given", p.service) : p \in {q \in replyTokens.pending : SameCall(x, q)}}
    \union {At("answered", Nil) : f \in {g \in FileIds :
                \E m \in Range(MessagesOf(g)) : m.type = "FunctionCallReply" /\ SameCall(x, m)}}

IsMade(x) ==
    \/ x.origin < origin[x.client]
    \/ x.origin = origin[x.client] /\ x.call <= lastCall[x.client]

Life(x) ==
    CASE Cardinality(Places(x)) = 1 -> CHOOSE p \in Places(x) : TRUE
      [] Cardinality(Places(x)) > 1 -> At("doubled", Nil)
      [] Places(x) = {} /\ ~IsMade(x) -> At("unmade", Nil)
      [] Places(x) = {} /\ IsMade(x) -> At("over", Nil)

Bus == INSTANCE Rpc WITH Servers <- Daemons, life <- [x \in Calls |-> Life(x)]

(* The bus implements Rpc: over any number of steps a call only goes       *)
(* forward, is given to one server, is answered only once and only while   *)
(* that server has it, and never comes back after it ended ("single-use",  *)
(* README.md), through flushes, replies, clean-ups and addresses that are  *)
(* used again.                                                             *)
CallsAreExecutedOnce == Bus!Spec

-------------------------------------------------------------------------------
(* Stores *)

Current(target) ==
    IF IsAnonymous(target) THEN anonymous[target.anonymous].value ELSE stores[target].value

Exists(target) ==
    IF IsAnonymous(target) THEN anonymous[target.anonymous] # Nil ELSE stores[target] # Nil

(* What subscriptions hang on is there: a subscription, or a request for   *)
(* one, is to a store that exists, the store's service is bound, and the   *)
(* file asked for a verdict is the one that provides the service.          *)
SubscriptionsAreAnchored ==
    /\ \A s \in subs : Exists(s.target)
    /\ \A p \in subTokens.pending :
          Exists(p.target) /\ Provides(p.service, ServiceOf(p.target))
    /\ \A t \in Paths : stores[t] # Nil => services[t.service] # Nil
    /\ \A a \in AnonymousIds :
          anonymous[a] # Nil => Provides(anonymous[a].owner, anonymous[a].service)

(* The counters of an anonymous store are exact, however requests,         *)
(* verdicts, failures and closings interleave, and a store that was used   *)
(* is gone as soon as nobody uses it and no sooner.                        *)
AnonymousCountsAreExact ==
    \A a \in AnonymousIds :
        LET requests == {p \in subTokens.pending : p.target = Anonymous(a)}
            followers == SubscribersOf(subs, Anonymous(a))
        IN  IF anonymous[a] = Nil THEN requests = {} /\ followers = {}
            ELSE /\ anonymous[a].pending = Cardinality(requests)
                 /\ anonymous[a].accepted = Cardinality(followers)
                 /\ anonymous[a].hasEverHadSubscription =>
                        requests # {} \/ followers # {}

(* A subscriber never stays with an old value: the last value on its way   *)
(* to a subscription, or the last one fetched when none is on its way, is  *)
(* the store's current value ("the current value plus every later update", *)
(* README.md).                                                             *)
SubscribersConverge ==
    \A s \in subs :
        LET ms == MessagesOf(s.file)
            coming == {i \in DOMAIN ms : ms[i].type \in {"Accepted", "Updated"} /\ ms[i].id = s.id}
        IN  \/ coming = {} /\ seen[s.file][s.id] = Current(s.target)
            \/ \E i \in coming :
                  ms[i].value = Current(s.target) /\ \A j \in coming : j <= i

(* Values arrive in the order they were written: in an inbox, the values   *)
(* of one store for one subscription id never go back.                     *)
ValuesArriveInOrder ==
    \A f \in FileIds :
        LET ms == MessagesOf(f)
        IN  \A i, j \in DOMAIN ms :
                /\ i < j
                /\ ms[i].type \in {"Accepted", "Updated"}
                /\ ms[j].type \in {"Accepted", "Updated"}
                /\ ms[i].id = ms[j].id /\ ms[i].target = ms[j].target
                => /\ ms[i].value <= ms[j].value
                   /\ ms[j].type = "Updated" => ms[i].value < ms[j].value

NewMessages(f) ==
    IF inboxes'[f] = Nil THEN {}
    ELSE {inboxes'[f].messages[i] : i \in Len(MessagesOf(f)) + 1 .. Len(inboxes'[f].messages)}

Told(f, types, target, id) ==
    \E m \in NewMessages(f) : m.type \in types /\ m.id = id /\ m.target = target

ToldServiceClosed(f, s) ==
    \E m \in NewMessages(f) : m.type = "ServiceClosed" /\ m.service = s

(* When a connection closes, everyone it leaves behind hears of it in the  *)
(* same step: the subscribers of its stores, the clients that wait for its *)
(* verdict on an anonymous store, and those that wait for its verdict on a *)
(* named one, if they have an inbox.                                       *)
ClosingIsTold ==
    [][open' # open =>
        /\ \A s \in subs \ subs' :
              s.file \in open' => Told(s.file, {"Closed"}, s.target, s.id)
        /\ \A p \in subTokens.pending \ subTokens'.pending : p.client \in open' =>
              IF IsAnonymous(p.target) THEN Told(p.client, {"Closed"}, p.target, p.id)
              ELSE inboxes[p.client] # Nil => ToldServiceClosed(p.client, p.target.service)]_vars

(* A verdict reaches the client: when a request leaves the table and       *)
(* nobody closes, the client is told, unless it had used the id twice.     *)
VerdictsAreTold ==
    [][open' = open =>
        \A p \in subTokens.pending \ subTokens'.pending :
            \/ Told(p.client, {"Accepted", "Rejected"}, p.target, p.id)
            \/ Subscribed(subs, p.client, p.id)]_vars
===============================================================================
