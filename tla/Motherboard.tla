----------------------------- MODULE Motherboard -----------------------------
(***************************************************************************)
(* The kernel module motherboardm: the bus behind /dev/services.           *)
(*                                                                         *)
(* One global State is behind a spin lock (State::use_state) and every     *)
(* ioctl takes it once, so a command is one atomic action here.  Commands  *)
(* of different connections interleave freely, and so does the closing of  *)
(* a connection, which may come at any moment (a process exits).  A        *)
(* command that is refused before it changes anything is a stuttering step *)
(* and has no action; one that fails half-way is part of its action.       *)
(*                                                                         *)
(* The module has the kernel's state and as much of the processes as the   *)
(* protocol needs: which requests a server has received, which calls a     *)
(* client waits for, the latch it sleeps on, the last value it was given   *)
(* for each subscription.                                                  *)
(***************************************************************************)
EXTENDS Inboxes, ReplyTokens, Stores, FiniteSets, SequencesExt

CONSTANTS
    FileIds,        \* the addresses of open files, which identify connections
    Daemons,        \* those that trusted processes open: they may bind
    Clients,        \* those whose processes call and subscribe
    ServiceNames,
    StoreNames,
    Visibilities,   \* values of the public flag used by StoreCreate
    \* what the environment may do wrong
    AllocMayFail,   \* an inbox may be impossible to allocate
    FdsMayRunOut,   \* a process may have no file descriptor left
    BadReplyFds,    \* a server may attach an invalid descriptor to a reply
    \* bounds
    MaxOpens,       \* times the kernel uses one address for a new open file
    MaxCalls,       \* function calls of one connection
    MaxSubscribes,  \* subscribe commands of one connection
    MaxWrites,      \* writes of stores, creations included
    MaxAnonymous    \* anonymous stores ever created

ASSUME MotherboardAssumption ==
    /\ IsFiniteSet(FileIds) /\ Daemons \subseteq FileIds /\ Clients \subseteq FileIds
    /\ IsFiniteSet(ServiceNames) /\ Visibilities \subseteq BOOLEAN
    /\ {AllocMayFail, FdsMayRunOut, BadReplyFds} \subseteq BOOLEAN
    /\ MaxOpens \in Nat /\ MaxCalls \in Nat /\ MaxSubscribes \in Nat
    /\ MaxWrites \in Nat /\ MaxAnonymous \in Nat

VARIABLES
    \* State
    services,       \* services[s]: who bound it and the calls it has not fetched
    inboxes,        \* inboxes[f]: an Inbox, or Nil
    replyTokens,    \* calls given to a service and not answered yet
    subTokens,      \* subscriptions that wait for a verdict
    stores,         \* stores[t]: the named store of target t, or Nil
    anonymous,      \* anonymous[a]: the anonymous store with id a, or Nil
    nextAnonymous,
    nextTimestamp,
    subs,           \* the active subscriptions
    \* the processes
    open,           \* the FileIds of the files that are open
    origin,         \* origin[f]: which of its openings f stands for, the last
    lastCall,       \* lastCall[f]: last request id of the connection
    lastSub,        \* lastSub[f]: subscribe commands of the connection
    latch,          \* latch[f]: the generation f's latch observed, or Nil
    held,           \* held[f]: requests f fetched and has not answered
    awaiting,       \* awaiting[f]: calls f made and does not know the end of
    seen            \* seen[f][id]: the last value f fetched for subscription id

tables == <<replyTokens, subTokens>>
storeVars == <<stores, anonymous, nextAnonymous, nextTimestamp>>
bookkeeping == <<open, origin, lastCall, lastSub>>
apps == <<latch, held, awaiting, seen>>
vars == <<services, inboxes, replyTokens, subTokens, stores, anonymous,
          nextAnonymous, nextTimestamp, subs, open, origin, lastCall, lastSub,
          latch, held, awaiting, seen>>

Paths == NamedTargets(ServiceNames, StoreNames)
AnonymousIds == 1 .. MaxAnonymous
Targets == Paths \union AnonymousTargets(AnonymousIds)
SubIds == 1 .. MaxSubscribes
CallIds == 1 .. MaxCalls

(***************************************************************************)
(* Messages and the entries of the tables.  origin and client in a reply   *)
(* message or a pending reply are history: they say which connection made  *)
(* the call, and no guard reads them.                                      *)
(***************************************************************************)
QueuedRequest == [client : FileIds, origin : Nat, call : CallIds]

PendingReply ==
    [token : Tokens, client : FileIds, service : FileIds, call : CallIds, origin : Nat]

PendingSubscription ==
    [token : Tokens, client : FileIds, service : FileIds, id : SubIds, target : Targets]

Subscription == [file : FileIds, id : SubIds, target : Targets]

CallRequest ==
    [type : {"FunctionCallRequest"}, service : ServiceNames, client : FileIds,
     origin : Nat, call : CallIds, token : Tokens]

SubscribeRequest ==
    [type : {"SubscribeRequest"}, target : Targets, id : SubIds, token : Tokens]

Message ==
    CallRequest \union SubscribeRequest \union
    [type : {"FunctionCallReply"}, client : FileIds, origin : Nat, call : CallIds] \union
    [type : {"ServiceClosed"}, service : ServiceNames] \union
    [type : {"Accepted", "Updated"}, target : Targets, id : SubIds, value : Nat] \union
    [type : {"Rejected", "Closed"}, target : Targets, id : SubIds]

(* What a variable may hold instead of Nil is not Nil. *)
ASSUME NilAssumption ==
    /\ Nil \notin Nat
    /\ Nil \notin [file : FileIds, queue : Seq(QueuedRequest)]
    /\ Nil \notin NamedStore
    /\ Nil \notin AnonymousStore(ServiceNames, FileIds)
    /\ Nil \notin Inbox(Message)

(* Mutated form of CallReplyOf: the reply names the token, not the call. *)
CallReplyByToken(p) ==
    [type |-> "FunctionCallReply", client |-> p.client, origin |-> p.origin, call |-> p.token]

CallReplyOf(p) ==
    [type |-> "FunctionCallReply", client |-> p.client, origin |-> p.origin, call |-> p.call]

(* Mutated form of SubscribeRequestOf: the token is passed for the id. *)
SubscribeRequestByToken(p) ==
    [type |-> "SubscribeRequest", target |-> p.target, id |-> p.token, token |-> p.token]

SubscribeRequestOf(p) ==
    [type |-> "SubscribeRequest", target |-> p.target, id |-> p.id, token |-> p.token]
ValueMessage(type, target, id, value) ==
    [type |-> type, target |-> target, id |-> id, value |-> value]
EndMessage(type, target, id) == [type |-> type, target |-> target, id |-> id]

-------------------------------------------------------------------------------
ServicesOf(f) == {s \in ServiceNames : services[s] # Nil /\ services[s].file = f}

Provides(f, s) == services[s] # Nil /\ services[s].file = f

(* The files whose inbox cannot be allocated while a command runs. *)
Shortages ==
    IF AllocMayFail THEN SUBSET {f \in FileIds : inboxes[f] = Nil} ELSE {{}}

(* One call of Inboxes::queue *)
Send(boxes, f, m, shortage) ==
    IF f \in shortage THEN boxes ELSE [boxes EXCEPT ![f] = QueueAll(@, <<m>>)]

(***************************************************************************)
(* Many calls of Inboxes::queue in one command.  The code walks hash maps, *)
(* so the order is arbitrary, but for the phases the code goes through one *)
(* after the other.  A notice is [to, phase, key, message].                *)
(***************************************************************************)
Notice(to, phase, key, message) ==
    [to |-> to, phase |-> phase, key |-> key, message |-> message]

Orders(notices) ==
    {q \in SetToSeqs(notices) :
        \A i, j \in DOMAIN q : i < j => q[i].phase <= q[j].phase}

Mailings(notices) ==
    LET to(f) == {n \in notices : n.to = f}
    IN  {mail \in [FileIds -> UNION {Orders(to(f)) : f \in FileIds}] :
            \A f \in FileIds : mail[f] \in Orders(to(f))}

Post(boxes, mail) ==
    [f \in FileIds |->
        IF mail[f] = <<>> THEN boxes[f]
        ELSE QueueAll(boxes[f], [i \in 1 .. Len(mail[f]) |-> mail[f][i].message])]

(* A loop that queues the notices and stops at the first that fails. *)
Reached(notices, shortage) ==
    IF \E n \in notices : n.to \in shortage
    THEN SUBSET {n \in notices : n.to \notin shortage}
    ELSE {notices}

-------------------------------------------------------------------------------
Init ==
    /\ services = [s \in ServiceNames |-> Nil]
    /\ inboxes = [f \in FileIds |-> Nil]
    /\ replyTokens = NoTokens
    /\ subTokens = NoTokens
    /\ stores = [t \in Paths |-> Nil]
    /\ anonymous = [a \in AnonymousIds |-> Nil]
    /\ nextAnonymous = 1
    /\ nextTimestamp = 1
    /\ subs = {}
    /\ open = {}
    /\ origin = [f \in FileIds |-> 0]
    /\ lastCall = [f \in FileIds |-> 0]
    /\ lastSub = [f \in FileIds |-> 0]
    /\ latch = [f \in FileIds |-> Nil]
    /\ held = [f \in FileIds |-> {}]
    /\ awaiting = [f \in FileIds |-> {}]
    /\ seen = [f \in FileIds |-> [id \in SubIds |-> 0]]

(* MotherboardDevice::open: the FileId is the address of the struct file,  *)
(* which the kernel may use again after the file was closed.  State is not *)
(* told: an inbox that was left under this FileId is still there.          *)
Open(f) ==
    /\ f \notin open
    /\ origin[f] < MaxOpens
    /\ open' = open \union {f}
    /\ origin' = [origin EXCEPT ![f] = @ + 1]
    /\ lastCall' = [lastCall EXCEPT ![f] = 0]
    /\ lastSub' = [lastSub EXCEPT ![f] = 0]
    /\ UNCHANGED <<services, inboxes, tables, storeVars, subs, apps>>

(* execute_bind_service *)
BindService(f, s) ==
    /\ f \in open
    /\ f \in Daemons
    /\ services[s] = Nil
    /\ services' = [services EXCEPT ![s] = [file |-> f, queue |-> <<>>]]
    /\ UNCHANGED <<inboxes, tables, storeVars, subs, bookkeeping, apps>>

(* execute_function_call, with request ids as client/src/lib.rs counts     *)
(* them; the service's inbox gets no message yet, only its latch trips     *)
FunctionCall(f, s) ==
    /\ f \in open
    /\ f \in Clients /\ lastCall[f] < MaxCalls
    /\ services[s] # Nil
    /\ LET call == lastCall[f] + 1
       IN  /\ lastCall' = [lastCall EXCEPT ![f] = call]
           /\ services' = [services EXCEPT ![s].queue =
                  Append(@, [client |-> f, origin |-> origin[f], call |-> call])]
           /\ awaiting' = [awaiting EXCEPT ![f] = @ \union
                  {[call |-> call, service |-> s, inboxed |-> inboxes[f] # Nil]}]
    /\ inboxes' = [inboxes EXCEPT ![services[s].file] = Notify(@)]
    /\ UNCHANGED <<tables, storeVars, subs, open, origin, lastSub, latch, held, seen>>

(* execute_function_call_reply: file f answers with a token some server    *)
(* was given.  The token is used up before the descriptors are looked at   *)
(* and before the reply is queued.                                         *)
FunctionCallReply(f, m, badFds, shortage) ==
    /\ f \in open
    /\ m.type = "FunctionCallRequest"
    /\ held' = [held EXCEPT ![f] = @ \ {m}]
    /\ LET consumed == Consumable(replyTokens, m.token, f)
       IN  \/ /\ consumed = {}
              /\ UNCHANGED <<replyTokens, inboxes>>
           \/ \E p \in consumed :
              /\ replyTokens' = Discard(replyTokens, consumed)
              /\ IF badFds THEN UNCHANGED inboxes
                 ELSE inboxes' = Send(inboxes, p.client, CallReplyOf(p), shortage)
    /\ UNCHANGED <<services, subTokens, storeVars, subs, bookkeeping, latch, awaiting, seen>>

-------------------------------------------------------------------------------
(* What a process does with a message it fetched. *)
Receive(f, m) ==
    /\ held' = IF m.type \in {"FunctionCallRequest", "SubscribeRequest"}
               THEN [held EXCEPT ![f] = @ \union {m}] ELSE held
    /\ awaiting' =
          CASE m.type = "FunctionCallReply" ->
                 [awaiting EXCEPT ![f] = {c \in @ : c.call # m.call}]
            [] m.type = "ServiceClosed" ->
                 [awaiting EXCEPT ![f] = {c \in @ : c.service # m.service}]
            [] OTHER -> awaiting
    /\ seen' = IF m.type \in {"Accepted", "Updated"}
               THEN [seen EXCEPT ![f][m.id] = m.value] ELSE seen

(* The message is gone from the kernel and does not reach the process: the *)
(* descriptors it carries cannot be installed, or the descriptor of the    *)
(* result cannot be created after the command was executed.                *)
LoseResult == FdsMayRunOut /\ UNCHANGED <<held, awaiting, seen>>

(* Inboxes::fetch finds a message. *)
PopMessage(f) ==
    /\ HasMessage(inboxes[f])
    /\ inboxes' = [inboxes EXCEPT ![f] = Pop(@)]
    /\ Receive(f, Head(inboxes[f].messages)) \/ LoseResult
    /\ latch' = [latch EXCEPT ![f] = Nil]
    /\ UNCHANGED <<services, replyTokens>>

(* One of the services of the file, whichever the hash map yields first,   *)
(* has calls: all of them get tokens, the first is returned and the others *)
(* go to the inbox of the service.  The token counter is far from the end  *)
(* of u64 (ReplyTokens covers it).                                         *)
FlushRequests(f, s, shortage) ==
    LET queue == services[s].queue
        count == Len(queue)
    IN  /\ ~HasMessage(inboxes[f])
        /\ queue # <<>>
        /\ \E ts \in Allocate(replyTokens, count) :
           LET request(i) ==
                 [type |-> "FunctionCallRequest", service |-> s, client |-> queue[i].client,
                  origin |-> queue[i].origin, call |-> queue[i].call, token |-> ts[i]]
               entry(i) ==
                 [token |-> ts[i], client |-> queue[i].client, service |-> f,
                  call |-> queue[i].call, origin |-> queue[i].origin]
               rest == [i \in 1 .. count - 1 |-> request(i + 1)]
           IN  /\ replyTokens.next <= ts[count] /\ ts[count] < U64Max
               /\ services' = [services EXCEPT ![s].queue = <<>>]
               /\ replyTokens' = Create(replyTokens, ts, {entry(i) : i \in 1 .. count})
               /\ IF count > 1 /\ f \in shortage
                  THEN UNCHANGED <<inboxes, held, awaiting, seen>>
                  ELSE /\ inboxes' = IF count = 1 THEN inboxes
                                     ELSE [inboxes EXCEPT ![f] = QueueAll(@, rest)]
                       /\ Receive(f, request(1)) \/ LoseResult
        /\ latch' = [latch EXCEPT ![f] = Nil]

(* would_block: nothing in the inbox, and the service that was looked at,  *)
(* if there is one, has no calls.  The process gets a latch for the        *)
(* generation the kernel sees now.                                         *)
WouldBlock(f, shortage) ==
    /\ ~HasMessage(inboxes[f])
    /\ ServicesOf(f) # {} => \E s \in ServicesOf(f) : services[s].queue = <<>>
    /\ IF f \in shortage THEN UNCHANGED inboxes
       ELSE inboxes' = [inboxes EXCEPT ![f] = Ensure(@)]
    /\ \/ /\ f \notin shortage
          /\ latch' = [latch EXCEPT ![f] = Ensure(inboxes[f]).generation]
       \/ /\ f \in shortage \/ FdsMayRunOut
          /\ latch' = [latch EXCEPT ![f] = Nil]
    /\ UNCHANGED <<services, replyTokens, held, awaiting, seen>>

(* execute_inbox_next_message.  A process that was given a latch waits for *)
(* it to trip before it fetches again (fetch_async in client/src/lib.rs).  *)
InboxNextMessage(f, shortage) ==
    /\ f \in open
    /\ latch[f] # Nil => PollLatch(inboxes[f], latch[f])
    /\ \/ PopMessage(f)
       \/ \E s \in ServicesOf(f) : FlushRequests(f, s, shortage)
       \/ WouldBlock(f, shortage)
    /\ UNCHANGED <<subTokens, storeVars, subs, bookkeeping>>

-------------------------------------------------------------------------------
(* execute_store_create, StoreMap::try_register *)
StoreCreate(f, t, public) ==
    /\ f \in open
    /\ Provides(f, t.service)
    /\ stores[t] = Nil
    /\ nextTimestamp <= MaxWrites
    /\ stores' = [stores EXCEPT ![t] = [value |-> nextTimestamp, public |-> public]]
    /\ nextTimestamp' = nextTimestamp + 1
    /\ UNCHANGED <<services, inboxes, tables, anonymous, nextAnonymous, subs, bookkeeping, apps>>

(* Mutated form of UpdateNotices: one message for every connection. *)
UpdateNoticesPerFile(target, value) ==
    {Notice(s.file, 0, 0, ValueMessage("Updated", target, s.id, value)) :
        s \in {x \in SubscribersOf(subs, target) :
                 \A y \in SubscribersOf(subs, target) : y.file = x.file => x.id <= y.id}}

(* What a write of target queues: one message for every subscription. *)
UpdateNotices(target, value) ==
    {Notice(s.file, 0, s.id, ValueMessage("Updated", target, s.id, value)) :
        s \in SubscribersOf(subs, target)}

(* execute_store_update, StoreMap::update: a timestamp is used up even when *)
(* there is no such store                                                   *)
StoreUpdate(f, t, shortage) ==
    /\ f \in open
    /\ Provides(f, t.service)
    /\ nextTimestamp <= MaxWrites
    /\ nextTimestamp' = nextTimestamp + 1
    /\ IF stores[t] = Nil THEN UNCHANGED <<stores, inboxes>>
       ELSE /\ stores' = [stores EXCEPT ![t].value = nextTimestamp]
            /\ \E notices \in Reached(UpdateNotices(t, nextTimestamp), shortage) :
               \E mail \in Mailings(notices) : inboxes' = Post(inboxes, mail)
    /\ UNCHANGED <<services, tables, anonymous, nextAnonymous, subs, bookkeeping, apps>>

(* execute_anonymous_store_create *)
AnonymousStoreCreate(f, s) ==
    /\ f \in open
    /\ Provides(f, s)
    /\ nextAnonymous <= MaxAnonymous
    /\ nextTimestamp <= MaxWrites
    /\ anonymous' = [anonymous EXCEPT ![nextAnonymous] =
                        NewAnonymousStore(s, f, nextTimestamp)]
    /\ nextAnonymous' = nextAnonymous + 1
    /\ nextTimestamp' = nextTimestamp + 1
    /\ UNCHANGED <<services, inboxes, tables, stores, subs, bookkeeping, apps>>

(* execute_anonymous_store_update *)
AnonymousStoreUpdate(f, a, shortage) ==
    /\ f \in open
    /\ anonymous[a] # Nil
    /\ anonymous[a].owner = f
    /\ nextTimestamp <= MaxWrites
    /\ anonymous' = [anonymous EXCEPT ![a].value = nextTimestamp]
    /\ nextTimestamp' = nextTimestamp + 1
    /\ \E notices \in Reached(UpdateNotices(Anonymous(a), nextTimestamp), shortage) :
       \E mail \in Mailings(notices) : inboxes' = Post(inboxes, mail)
    /\ UNCHANGED <<services, tables, stores, nextAnonymous, subs, bookkeeping, apps>>

-------------------------------------------------------------------------------
(* The process picks a subscription id it has used before or the next one. *)
NewSubscribe(f, id) ==
    /\ f \in Clients /\ lastSub[f] < MaxSubscribes
    /\ id \in 1 .. lastSub[f] + 1
    /\ lastSub' = [lastSub EXCEPT ![f] = @ + 1]

(* execute_store_subscribe on a public store: subscribed at once.  When the *)
(* message cannot be queued the subscription stays.                         *)
SubscribePublic(f, t, id, shortage) ==
    /\ f \in open
    /\ stores[t] # Nil
    /\ stores[t].public
    /\ ~Subscribed(subs, f, id)
    /\ NewSubscribe(f, id)
    /\ subs' = subs \union {[file |-> f, id |-> id, target |-> t]}
    /\ inboxes' = Send(inboxes, f, ValueMessage("Accepted", t, id, stores[t].value), shortage)
    /\ UNCHANGED <<services, tables, storeVars, open, origin, lastCall, apps>>

(* Mutated form of Ask: the token is not taken back. *)
AskWithoutRollback(f, id, target, service, shortage) ==
    \E ts \in Allocate(subTokens, 1) :
        LET entry == [token |-> ts[1], client |-> f, service |-> service,
                      id |-> id, target |-> target]
        IN  /\ inboxes' = Send(inboxes, service, SubscribeRequestOf(entry), shortage)
            /\ subTokens' = Create(subTokens, ts, {entry})

(* A subscription request gets a token and is queued for the service. *)
Ask(f, id, target, service, shortage) ==
    \E ts \in Allocate(subTokens, 1) :
        LET entry == [token |-> ts[1], client |-> f, service |-> service,
                      id |-> id, target |-> target]
            created == Create(subTokens, ts, {entry})
        IN  /\ subTokens.next <= ts[1] /\ ts[1] < U64Max
            /\ inboxes' = Send(inboxes, service, SubscribeRequestOf(entry), shortage)
            /\ subTokens' = IF IsAnonymous(target) /\ service \in shortage
                            THEN Discard(created, {entry}) ELSE created

(* execute_store_subscribe on a private store: the service is asked.  When  *)
(* the request cannot be queued the token stays.                            *)
SubscribePrivate(f, t, id, shortage) ==
    /\ f \in open
    /\ stores[t] # Nil
    /\ ~stores[t].public
    /\ NewSubscribe(f, id)
    /\ Ask(f, id, t, services[t.service].file, shortage)
    /\ UNCHANGED <<services, replyTokens, storeVars, subs, open, origin, lastCall, apps>>

(* execute_anonymous_store_subscribe: the owner is asked.  When the request *)
(* cannot be queued, token and count are taken back.                        *)
AnonymousStoreSubscribe(f, a, id, shortage) ==
    /\ f \in open
    /\ anonymous[a] # Nil
    /\ NewSubscribe(f, id)
    /\ Ask(f, id, Anonymous(a), anonymous[a].owner, shortage)
    /\ anonymous' = [anonymous EXCEPT ![a] =
          IF anonymous[a].owner \in shortage
          THEN Decrement(IncrementPending(@), 1, 0) ELSE IncrementPending(@)]
    /\ UNCHANGED <<services, replyTokens, stores, nextAnonymous, nextTimestamp, subs,
                   open, origin, lastCall, apps>>

(* Mutated form of AcceptNamed: the client is not told. *)
AcceptNamedSilently(p, shortage) ==
    /\ subs' = subs \union {[file |-> p.client, id |-> p.id, target |-> p.target]}
    /\ UNCHANGED <<inboxes, anonymous>>

(* The verdict Accepted on a named store; it may have an error after the   *)
(* token was used up: the store is gone, the id is taken, no inbox.        *)
AcceptNamed(p, shortage) ==
    /\ IF stores[p.target] = Nil \/ Subscribed(subs, p.client, p.id)
       THEN UNCHANGED <<subs, inboxes>>
       ELSE /\ subs' = subs \union {[file |-> p.client, id |-> p.id, target |-> p.target]}
            /\ inboxes' = Send(inboxes, p.client,
                  ValueMessage("Accepted", p.target, p.id, stores[p.target].value), shortage)
    /\ UNCHANGED anonymous

(* The verdict Accepted on an anonymous store; what was counted and        *)
(* subscribed is taken back when the id is taken or there is no inbox.     *)
AcceptAnonymous(p, shortage) ==
    LET a == p.target.anonymous
    IN  IF anonymous[a] = Nil THEN UNCHANGED <<subs, inboxes, anonymous>>
        ELSE IF Subscribed(subs, p.client, p.id) \/ p.client \in shortage
        THEN /\ anonymous' = [anonymous EXCEPT ![a] = Decrement(AcceptPending(@), 0, 1)]
             /\ UNCHANGED <<subs, inboxes>>
        ELSE /\ anonymous' = [anonymous EXCEPT ![a] = AcceptPending(@)]
             /\ subs' = subs \union {[file |-> p.client, id |-> p.id, target |-> p.target]}
             /\ inboxes' = Send(inboxes, p.client,
                   ValueMessage("Accepted", p.target, p.id, anonymous[a].value), shortage)

(* The verdict Rejected. *)
Reject(p, shortage) ==
    /\ inboxes' = Send(inboxes, p.client, EndMessage("Rejected", p.target, p.id), shortage)
    /\ anonymous' = IF IsAnonymous(p.target)
                    THEN [anonymous EXCEPT ![p.target.anonymous] = Decrement(@, 1, 0)]
                    ELSE anonymous
    /\ UNCHANGED subs

(* execute_store_subscription_reply: the token is used up whatever follows *)
StoreSubscriptionReply(f, m, accepted, shortage) ==
    /\ f \in open
    /\ m.type = "SubscribeRequest"
    /\ held' = [held EXCEPT ![f] = @ \ {m}]
    /\ LET consumed == Consumable(subTokens, m.token, f)
       IN  \/ /\ consumed = {}
              /\ UNCHANGED <<subTokens, subs, inboxes, anonymous>>
           \/ \E p \in consumed :
              /\ subTokens' = Discard(subTokens, consumed)
              /\ \/ accepted /\ ~IsAnonymous(p.target) /\ AcceptNamed(p, shortage)
                 \/ accepted /\ IsAnonymous(p.target) /\ AcceptAnonymous(p, shortage)
                 \/ ~accepted /\ Reject(p, shortage)
    /\ UNCHANGED <<services, replyTokens, stores, nextAnonymous, nextTimestamp,
                   bookkeeping, latch, awaiting, seen>>

(* execute_store_unsubscribe: only an active subscription can be ended; the *)
(* owner of an anonymous store is told                                      *)
StoreUnsubscribe(f, id, shortage) ==
    /\ f \in open
    /\ \E s \in OwnSubscription(subs, f, id) :
       /\ subs' = subs \ {s}
       /\ LET a == s.target.anonymous
          IN  IF IsAnonymous(s.target) /\ anonymous[a] # Nil
              THEN /\ inboxes' = Send(inboxes, anonymous[a].owner,
                                      EndMessage("Closed", s.target, id), shortage)
                   /\ anonymous' = [anonymous EXCEPT ![a] = Decrement(@, 0, 1)]
              ELSE UNCHANGED <<inboxes, anonymous>>
    /\ UNCHANGED <<services, tables, stores, nextAnonymous, nextTimestamp, bookkeeping, apps>>

-------------------------------------------------------------------------------
(***************************************************************************)
(* State::cleanup, run when the last reference to an open file is dropped. *)
(* It closes the inbox, takes the services of the file away, drops what is *)
(* pending for or by the file, ends its subscriptions, and then, service   *)
(* after service, ends the subscriptions of others to its stores and tells *)
(* every connection that has an inbox.  Calls the file made that no        *)
(* service fetched yet stay in their queues.                               *)
(***************************************************************************)
Gone(f, a) == anonymous[a] # Nil /\ anonymous[a].service \in ServicesOf(f)

ServiceOf(target) ==
    IF IsAnonymous(target) THEN anonymous[target.anonymous].service ELSE target.service

(* Subscriptions::cleanup_file *)
OwnSubscriptions(f) == {s \in subs : s.file = f}

(* Subscriptions::cleanup_service and cleanup_anonymous_store *)
OrphanedSubscriptions(f) ==
    {s \in subs \ OwnSubscriptions(f) :
        IF IsAnonymous(s.target) THEN Gone(f, s.target.anonymous)
        ELSE s.target.service \in ServicesOf(f)}

(* Phase 1, close_pending_subscription: the other side of every pending    *)
(* subscription to an anonymous store.                                     *)
PendingNotices(f) ==
    {Notice(IF p.client = f THEN p.service ELSE p.client, 1, p.token,
            EndMessage("Closed", p.target, p.id)) :
        p \in {e \in EntriesOf(subTokens, f) :
                 IsAnonymous(e.target) /\ ~(e.client = f /\ e.service = f)}}

(* Phase 2, close_active_subscription: the owners of the anonymous stores  *)
(* the file was subscribed to.                                             *)
OwnerNotices(f) ==
    {Notice(anonymous[s.target.anonymous].owner, 2, s.id,
            EndMessage("Closed", s.target, s.id)) :
        s \in {e \in OwnSubscriptions(f) :
                 /\ IsAnonymous(e.target)
                 /\ anonymous[e.target.anonymous] # Nil
                 /\ anonymous[e.target.anonymous].owner # f}}

(* Mutated form of ExitNotices: the subscribers are not told. *)
NoExitNotices(f, rank) == {}

(* Phases 3n and 3n + 1, close_active_subscription: the subscribers of the *)
(* named and of the anonymous stores of the n-th service.                  *)
ExitNotices(f, rank) ==
    {Notice(s.file,
            3 * rank[ServiceOf(s.target)] + (IF IsAnonymous(s.target) THEN 1 ELSE 0),
            s.id, EndMessage("Closed", s.target, s.id)) : s \in OrphanedSubscriptions(f)}

(* Mutated form of ServiceClosedNotices: the broadcast is left out. *)
NoServiceClosedNotices(f, rank, earlier) == {}

(* Phase 3n + 2, Inboxes::broadcast: those that have an inbox by then. *)
ServiceClosedNotices(f, rank, earlier) ==
    {Notice(x[1], 3 * rank[x[2]] + 2, 0, [type |-> "ServiceClosed", service |-> x[2]]) :
        x \in {y \in (FileIds \ {f}) \X ServicesOf(f) :
                 \/ inboxes[y[1]] # Nil
                 \/ \E n \in earlier : n.to = y[1] /\ n.phase < 3 * rank[y[2]] + 2}}

(* The order in which the services of f are taken down. *)
Ranks(f) ==
    LET n == Cardinality(ServicesOf(f))
    IN  {r \in [ServicesOf(f) -> 1 .. n] :
            \A s, t \in ServicesOf(f) : s # t => r[s] # r[t]}

(* remove_anonymous_service, and what the phases before it counted down *)
AnonymousAfterClose(f) ==
    [a \in AnonymousIds |->
        IF Gone(f, a) THEN Nil
        ELSE Decrement(anonymous[a],
                Cardinality({p \in EntriesOf(subTokens, f) : p.target = Anonymous(a)}),
                Cardinality({s \in OwnSubscriptions(f) : s.target = Anonymous(a)}))]

Close(f, shortage) ==
    /\ f \in open
    /\ open' = open \ {f}
    /\ \E rank \in Ranks(f) :
       LET told == {n \in PendingNotices(f) \union OwnerNotices(f) \union ExitNotices(f, rank) :
                       n.to \notin shortage}
       IN  \E mail \in Mailings(told \union ServiceClosedNotices(f, rank, told)) :
              inboxes' = Post([inboxes EXCEPT ![f] = Nil], mail)
    /\ services' = [s \in ServiceNames |-> IF s \in ServicesOf(f) THEN Nil ELSE services[s]]
    /\ replyTokens' = Discard(replyTokens, EntriesOf(replyTokens, f))
    /\ subTokens' = Discard(subTokens, EntriesOf(subTokens, f))
    /\ subs' = subs \ (OwnSubscriptions(f) \union OrphanedSubscriptions(f))
    /\ stores' = [t \in Paths |-> IF t.service \in ServicesOf(f) THEN Nil ELSE stores[t]]
    /\ anonymous' = AnonymousAfterClose(f)
    /\ latch' = [latch EXCEPT ![f] = Nil]
    /\ held' = [held EXCEPT ![f] = {}]
    /\ awaiting' = [awaiting EXCEPT ![f] = {}]
    /\ seen' = [seen EXCEPT ![f] = [id \in SubIds |-> 0]]
    /\ UNCHANGED <<nextAnonymous, nextTimestamp, origin, lastCall, lastSub>>

-------------------------------------------------------------------------------
(* The commands one connection may send, with every choice of arguments. *)
Answer(f) ==
    \E g \in FileIds : \E m \in held[g], shortage \in Shortages :
        \/ \E badFds \in {FALSE, BadReplyFds} : FunctionCallReply(f, m, badFds, shortage)
        \/ \E accepted \in BOOLEAN : StoreSubscriptionReply(f, m, accepted, shortage)

Write(f) ==
    \/ \E t \in Paths, public \in Visibilities : StoreCreate(f, t, public)
    \/ \E t \in Paths, shortage \in Shortages : StoreUpdate(f, t, shortage)
    \/ \E s \in ServiceNames : AnonymousStoreCreate(f, s)
    \/ \E a \in AnonymousIds, shortage \in Shortages : AnonymousStoreUpdate(f, a, shortage)

Subscribe(f) ==
    \E id \in SubIds, shortage \in Shortages :
        \/ \E t \in Paths : SubscribePublic(f, t, id, shortage)
        \/ \E t \in Paths : SubscribePrivate(f, t, id, shortage)
        \/ \E a \in AnonymousIds : AnonymousStoreSubscribe(f, a, id, shortage)
        \/ StoreUnsubscribe(f, id, shortage)

Next ==
    \E f \in FileIds :
        \/ Open(f)
        \/ \E s \in ServiceNames : BindService(f, s)
        \/ \E s \in ServiceNames : FunctionCall(f, s)
        \/ Answer(f)
        \/ \E shortage \in Shortages : InboxNextMessage(f, shortage)
        \/ Write(f)
        \/ Subscribe(f)
        \/ \E shortage \in Shortages : Close(f, shortage)

Spec == Init /\ [][Next]_vars

(* A process that holds a request answers it, by itself and with valid     *)
(* descriptors (the serve loop generated by midl, and the handlers it      *)
(* calls, return).                                                         *)
AnswersOwn(f) ==
    \E m \in held[f] :
        \/ FunctionCallReply(f, m, FALSE, {})
        \/ \E accepted \in BOOLEAN : StoreSubscriptionReply(f, m, accepted, {})

(* Every process keeps fetching (the serve loop of a server, the loop of   *)
(* fetch_async in a client), and every server keeps answering.             *)
Fairness ==
    \A f \in FileIds :
        /\ WF_vars(InboxNextMessage(f, {}))
        /\ WF_vars(AnswersOwn(f))

FairSpec == Spec /\ Fairness
===============================================================================
